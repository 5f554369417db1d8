------------------------------ MODULE NetBuffer -----------------------------
(***************************************************************************)
(* The trait NetworkBuffer of redbpf-probes/src/net.rs: the functions that *)
(* find the headers of a packet, each of which checks that what it points  *)
(* to lies between data_start and data_end.                                *)
(*                                                                         *)
(* A packet p is a record of its first address and its end, start and end, *)
(* and of what the functions read in it: whether the protocol of the       *)
(* ethernet header is IP, ihl, the protocol of the IP header, and doff.  A *)
(* function that returns an error has the value Err.                       *)
(***************************************************************************)
EXTENDS Integers

CONSTANT Packets   \* the packets considered

ASSUME PacketsAssumption ==
  Packets \subseteq [start : Nat, end : Nat, isIp : BOOLEAN, ihl : 0 .. 15,
                     proto : {"TCP", "UDP", "ICMP"}, doff : 0 .. 15]

Err == -1

EthLen == 14
IpLen == 20
TcpLen == 20
UdpLen == 8

\* Mutant: the last byte may be one past the end.
CheckBoundsLoose(p, start, end) ==
  /\ start < end
  /\ start >= p.start
  /\ end - 1 <= p.end

CheckBounds(p, start, end) ==
  /\ start < end
  /\ start >= p.start
  /\ end <= p.end

PtrAt(p, addr, size) == IF CheckBounds(p, addr, addr + size) THEN addr ELSE Err

PtrAfter(p, prev, prevSize, size) == PtrAt(p, prev + prevSize, size)

Eth(p) == PtrAt(p, p.start, EthLen)

Ip(p) == IF Eth(p) = Err \/ ~p.isIp THEN Err ELSE PtrAfter(p, Eth(p), EthLen, IpLen)

TransportLen(p) == IF p.proto = "TCP" THEN TcpLen ELSE UdpLen

Transport(p) ==
  IF Ip(p) = Err \/ p.proto \notin {"TCP", "UDP"} THEN Err
  ELSE PtrAt(p, Ip(p) + p.ihl * 4, TransportLen(p))

\* Data::base: at least one byte after the transport header.
DataBase(p) ==
  IF Transport(p) = Err THEN Err
  ELSE IF p.proto = "TCP" THEN PtrAt(p, Transport(p) + p.doff * 4, 1)
  ELSE PtrAfter(p, Transport(p), UdpLen, 1)

DataOffset(p) == DataBase(p) - p.start

DataLen(p) == p.end - DataBase(p)

\* Data::slice and Data::read check the bytes they return.
DataSlice(p, len) ==
  IF CheckBounds(p, DataBase(p), DataBase(p) + len) THEN DataBase(p) ELSE Err
=============================================================================
