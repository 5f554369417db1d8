------------------------------ MODULE XdpEvent ------------------------------
(***************************************************************************)
(* An XDP program that looks at a packet through NetworkBuffer and sends   *)
(* part of it to user space: MapData and PerfMap of                        *)
(* redbpf-probes/src/xdp/mod.rs, PerfMapFlags and PerfMap of               *)
(* redbpf-probes/src/maps.rs, and MapData of redbpf/src/xdp.rs, which      *)
(* finds the payload in the sample.                                        *)
(*                                                                         *)
(* The program calls the functions of NetworkBuffer in any order, on       *)
(* packets of any length and content; the bytes of a packet are told apart *)
(* by their offsets, the bytes of MapData itself are all alike.            *)
(***************************************************************************)
EXTENDS NetBuffer, Sequences

CONSTANTS
  Types,    \* the types T of MapData<T>: records of size and align
  Lens      \* the lengths passed to slice, read and with_payload

VARIABLES
  pkt,      \* the packet
  got,      \* the pointers the program has: records of addr and size
  data,     \* the program has called data() with success
  event,    \* the sample written by the kernel: its bytes, and T, offset, size
  payload   \* what MapData::payload() returned in user space, or "none"

eventVars == <<pkt, got, data, event, payload>>

NoEvent == [bytes |-> <<>>, T |-> [size |-> 0, align |-> 1], offset |-> 0, size |-> 0]

EventInit ==
  /\ pkt \in Packets
  /\ got = {} /\ data = FALSE /\ event = NoEvent /\ payload = <<"none">>

-----------------------------------------------------------------------------
(* NetworkBuffer: a call that fails ends the program, whose result is Pass *)

Call(addr, size) ==
  /\ addr # Err
  /\ got' = got \cup {[addr |-> addr, size |-> size]}

GetEth == Call(Eth(pkt), EthLen) /\ UNCHANGED <<pkt, data, event, payload>>
GetIp == Call(Ip(pkt), IpLen) /\ UNCHANGED <<pkt, data, event, payload>>
GetTransport == Call(Transport(pkt), TransportLen(pkt)) /\ UNCHANGED <<pkt, data, event, payload>>

GetData ==
  /\ DataBase(pkt) # Err
  /\ data' = TRUE
  /\ UNCHANGED <<pkt, got, event, payload>>

GetSlice(len) ==
  /\ data
  /\ Call(DataSlice(pkt, len), len)
  /\ UNCHANGED <<pkt, data, event, payload>>

-----------------------------------------------------------------------------
(* MapData<T> is laid out as the compiler lays out #[repr(C)] structs: T,  *)
(* offset and size, and the payload of no bytes after them                 *)

RoundTo(n, unit) == ((n + unit - 1) \div unit) * unit
Max2(a, b) == IF a > b THEN a ELSE b

FieldPayload(T) == RoundTo(T.size, 4) + 8
SizeOfMapData(T) == RoundTo(FieldPayload(T), Max2(T.align, 4))

\* PerfMap::insert_with_flags sets xdp_size to the size of the MapData; the
\* kernel (external) appends that many bytes of the packet to the MapData, and
\* writes nothing when the packet is shorter.
Insert(T, offset, size) ==
  /\ event = NoEvent
  /\ size <= pkt.end - pkt.start
  /\ event' = [T |-> T, offset |-> offset, size |-> size,
               bytes |-> [i \in 1 .. SizeOfMapData(T) |-> -1] \o [i \in 1 .. size |-> i - 1]]
  /\ UNCHANGED <<pkt, got, data, payload>>

\* MapData::new, and MapData::with_payload for the bytes from the data on.
InsertNew(T) == Insert(T, 0, 0)
InsertData(T, size) ==
  /\ data /\ DataOffset(pkt) <= size
  /\ Insert(T, DataOffset(pkt), size)

\* Mutant: the whole payload is returned, whatever the offset.
PayloadFromStart ==
  /\ event # NoEvent /\ payload = <<"none">>
  /\ payload' = [i \in 1 .. event.size |-> event.bytes[FieldPayload(event.T) + i]]
  /\ UNCHANGED <<pkt, got, data, event>>

\* from_sample and payload() in user space: size - offset bytes, offset bytes
\* after the field payload.
Payload ==
  /\ event # NoEvent /\ payload = <<"none">>
  /\ payload' = [i \in 1 .. event.size - event.offset |->
                   event.bytes[FieldPayload(event.T) + event.offset + i]]
  /\ UNCHANGED <<pkt, got, data, event>>

EventNext ==
  \/ GetEth \/ GetIp \/ GetTransport \/ GetData
  \/ \E len \in Lens : GetSlice(len)
  \/ \E T \in Types : InsertNew(T) \/ \E size \in Lens : InsertData(T, size)
  \/ Payload

EventSpec == EventInit /\ [][EventNext]_eventVars

-----------------------------------------------------------------------------
\* net.rs, on ptr_at: "ensure the given address `addr` is within the buffer and
\* allows enough following space".  No header or slice the program gets reaches
\* outside the packet, whatever lengths its headers claim, and the data has at
\* least one byte and ends with the packet.
PointersInside ==
  /\ \A g \in got : pkt.start <= g.addr /\ g.addr + g.size <= pkt.end
  /\ data => DataOffset(pkt) + DataLen(pkt) = pkt.end - pkt.start /\ DataLen(pkt) > 0

\* "NB: this needs to be kept in sync with redbpf::xdp::MapData": the payload
\* found in the sample is the packet from the offset up to the size, for every
\* T whose alignment leaves no padding after the field size.
PayloadRight ==
  payload # <<"none">> /\ event.T.align <= 8 /\ event.T.size % event.T.align = 0 =>
    payload = [i \in 1 .. event.size - event.offset |-> event.offset + i - 1]
=============================================================================
