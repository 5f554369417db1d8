--------------------------- MODULE NetworkProofs ---------------------------
(***************************************************************************)
(* For packets of every length and content, and every order of the calls:  *)
(* the pointers an XDP program gets from NetworkBuffer lie inside the      *)
(* packet, the parser of the p0f example reads inside it only, and user    *)
(* space finds the payload of an event.  For any number of clients,        *)
(* addresses and entries of the sockmap: the echo server sends what a      *)
(* client sends to that client only, and a socket in the sockmap has its   *)
(* index in idx_map, unless that was full or a Delete came too late.       *)
(***************************************************************************)
EXTENDS XdpEvent, P0f, Echo, TLAPS

-----------------------------------------------------------------------------
(* NetworkBuffer                                                           *)

\* The fields of a packet.
LEMMA PacketFields ==
  ASSUME NEW p \in Packets
  PROVE  p.start \in Nat /\ p.end \in Nat /\ p.ihl \in 0 .. 15 /\ p.doff \in 0 .. 15
  BY PacketsAssumption

\* ptr_at: an address it returns has `size' bytes of the packet behind it.
LEMMA PtrAtInside ==
  ASSUME NEW p \in Packets, NEW a \in Int, NEW size \in Nat, PtrAt(p, a, size) # Err
  PROVE  PtrAt(p, a, size) = a /\ p.start <= a /\ a + size <= p.end
  BY PacketFields DEF PtrAt, CheckBounds

\* The ethernet and IP headers that are found lie inside the packet.
LEMMA IpInside ==
  ASSUME NEW p \in Packets, Ip(p) # Err
  PROVE  Ip(p) = p.start + 14 /\ Ip(p) + 20 <= p.end
<1>1. Eth(p) # Err /\ Ip(p) = PtrAt(p, Eth(p) + EthLen, IpLen)
  BY DEF Ip, PtrAfter
<1>2. Eth(p) = p.start
  BY <1>1, PtrAtInside, PacketFields DEF Eth, EthLen
<1>3. p.start + 14 \in Int
  BY PacketFields
<1> QED
  BY <1>1, <1>2, <1>3, PtrAtInside DEF EthLen, IpLen

\* The transport header that is found lies inside the packet, whatever ihl is.
LEMMA TransportInside ==
  ASSUME NEW p \in Packets, Transport(p) # Err
  PROVE  /\ Transport(p) \in Int /\ TransportLen(p) \in Nat
         /\ p.start <= Transport(p) /\ Transport(p) + TransportLen(p) <= p.end
<1>1. Ip(p) # Err /\ Transport(p) = PtrAt(p, Ip(p) + p.ihl * 4, TransportLen(p))
  BY DEF Transport
<1>2. Ip(p) + p.ihl * 4 \in Int
  BY <1>1, IpInside, PacketFields
<1>3. TransportLen(p) \in Nat
  BY DEF TransportLen, TcpLen, UdpLen
<1> QED
  BY <1>1, <1>2, <1>3, PtrAtInside

\* The data begins inside the packet, and has a byte at least.
LEMMA DataInside ==
  ASSUME NEW p \in Packets, DataBase(p) # Err
  PROVE  DataBase(p) \in Int /\ p.start <= DataBase(p) /\ DataBase(p) + 1 <= p.end
<1>1. Transport(p) # Err
  BY DEF DataBase
<1>2. Transport(p) \in Int
  BY <1>1, TransportInside
<1>3. CASE p.proto = "TCP"
  <2>1. DataBase(p) = PtrAt(p, Transport(p) + p.doff * 4, 1)
    BY <1>1, <1>3 DEF DataBase
  <2>2. Transport(p) + p.doff * 4 \in Int
    BY <1>2, PacketFields
  <2> QED
    BY <2>1, <2>2, PtrAtInside
<1>4. CASE p.proto # "TCP"
  <2>1. DataBase(p) = PtrAt(p, Transport(p) + UdpLen, 1)
    BY <1>1, <1>4 DEF DataBase, PtrAfter
  <2>2. Transport(p) + UdpLen \in Int
    BY <1>2 DEF UdpLen
  <2> QED
    BY <2>1, <2>2, PtrAtInside
<1> QED
  BY <1>3, <1>4

-----------------------------------------------------------------------------
(* XDP events                                                              *)

Inside(g) == g.addr \in Int /\ pkt.start <= g.addr /\ g.addr + g.size <= pkt.end

\* The inductive invariant: a program that has the data has found its base.
EInv ==
  /\ pkt \in Packets
  /\ \A g \in got : Inside(g)
  /\ data => DataBase(pkt) # Err

\* A pointer that lies inside the packet may be added to those the program has.
LEMMA CallInside ==
  ASSUME EInv, NEW a \in Int, NEW size, Call(a, size), pkt' = pkt, data' = data,
         pkt.start <= a, a + size <= pkt.end
  PROVE  EInv'
<1>1. \A g \in got' : g \in got \/ g = [addr |-> a, size |-> size]
  BY DEF Call
<1>2. \A g \in got' : Inside(g)'
  BY <1>1 DEF EInv, Inside
<1> QED
  BY <1>2 DEF EInv

\* Every step keeps pointers inside the packet.
LEMMA NextEInv == EInv /\ [EventNext]_eventVars => EInv'
<1> SUFFICES ASSUME EInv, [EventNext]_eventVars PROVE EInv'
  OBVIOUS
<1>0. pkt \in Packets
  BY DEF EInv
<1>1. CASE GetEth
  <2>1. Eth(pkt) = pkt.start /\ pkt.start + EthLen <= pkt.end
    BY <1>0, <1>1, PtrAtInside, PacketFields DEF GetEth, Call, Eth, EthLen
  <2> QED
    BY <1>0, <1>1, <2>1, CallInside, PacketFields DEF GetEth
<1>2. CASE GetIp
  <2>1. Ip(pkt) # Err
    BY <1>2 DEF GetIp, Call
  <2>2. Ip(pkt) = pkt.start + 14 /\ Ip(pkt) + IpLen <= pkt.end /\ Ip(pkt) \in Int
    BY <1>0, <2>1, IpInside, PacketFields DEF IpLen
  <2>3. pkt.start <= Ip(pkt)
    BY <1>0, <2>2, PacketFields
  <2> QED
    BY <1>2, <2>2, <2>3, CallInside DEF GetIp
<1>3. CASE GetTransport
  <2>1. Transport(pkt) # Err
    BY <1>3 DEF GetTransport, Call
  <2> QED
    BY <1>0, <1>3, <2>1, TransportInside, CallInside DEF GetTransport
<1>4. CASE GetData
  BY <1>4 DEF GetData, EInv, Inside
<1>5. ASSUME NEW len \in Lens, GetSlice(len)
      PROVE  EInv'
  <2>1. DataBase(pkt) \in Int /\ pkt.start <= DataBase(pkt)
    BY <1>0, <1>5, DataInside DEF GetSlice, EInv
  <2>2. DataSlice(pkt, len) = DataBase(pkt) /\ DataBase(pkt) + len <= pkt.end
    BY <1>5 DEF GetSlice, Call, DataSlice, CheckBounds
  <2> QED
    BY <1>5, <2>1, <2>2, CallInside DEF GetSlice
<1>6. CASE UNCHANGED <<pkt, got, data>>
  BY <1>6 DEF EInv, Inside
<1>7. ASSUME NEW T \in Types, InsertNew(T) \/ \E size \in Lens : InsertData(T, size)
      PROVE  UNCHANGED <<pkt, got, data>>
  BY <1>7 DEF InsertNew, InsertData, Insert
<1>8. Payload \/ UNCHANGED eventVars => UNCHANGED <<pkt, got, data>>
  BY DEF Payload, eventVars
<1> QED
  BY <1>1, <1>2, <1>3, <1>4, <1>5, <1>6, <1>7, <1>8 DEF EventNext

\* For every packet, every header the program gets and every slice of the data
\* lies inside the packet, and the data is not empty and ends with the packet.
THEOREM GotInside == EventSpec => []PointersInside
<1>1. EventInit => EInv
  BY DEF EventInit, EInv
<1>2. EInv => PointersInside
  <2> SUFFICES ASSUME EInv PROVE PointersInside
    OBVIOUS
  <2>1. \A g \in got : pkt.start <= g.addr /\ g.addr + g.size <= pkt.end
    BY DEF EInv, Inside
  <2>2. data => DataBase(pkt) \in Int /\ DataBase(pkt) + 1 <= pkt.end
    BY DataInside DEF EInv
  <2>3. pkt.start \in Nat /\ pkt.end \in Nat
    BY PacketFields DEF EInv
  <2> QED
    BY <2>1, <2>2, <2>3 DEF PointersInside, DataOffset, DataLen
<1> QED
  BY <1>1, <1>2, NextEInv, PTL DEF EventSpec

-----------------------------------------------------------------------------
(* MapData on both sides                                                   *)

\* The types MapData is used with; alignments are powers of two.
AllTypes == [size : Nat, align : {1, 2, 4, 8, 16}]

\* No padding follows the field size unless T is aligned to more than 8 bytes.
LEMMA NoPadding ==
  ASSUME NEW T \in AllTypes, T.align <= 8, T.size % T.align = 0
  PROVE  SizeOfMapData(T) = FieldPayload(T) /\ FieldPayload(T) \in Nat
<1>1. T.size \in Nat /\ T.align \in {1, 2, 4, 8}
  BY DEF AllTypes
<1>2. CASE T.align = 8
  BY <1>1, <1>2 DEF SizeOfMapData, FieldPayload, RoundTo, Max2
<1>3. CASE T.align \in {1, 2, 4}
  BY <1>1, <1>3 DEF SizeOfMapData, FieldPayload, RoundTo, Max2
<1> QED
  BY <1>1, <1>2, <1>3

\* What the kernel writes behind a MapData of m bytes.
Sample(m, size) == [i \in 1 .. m |-> -1] \o [i \in 1 .. size |-> i - 1]

\* Behind those bytes the sample is the packet.
LEMMA SampleIsPacket ==
  ASSUME NEW m \in Nat, NEW size \in Nat, NEW i \in 1 .. size
  PROVE  Sample(m, size)[m + i] = i - 1
<1> DEFINE A == [j \in 1 .. m |-> -1]
           B == [j \in 1 .. size |-> j - 1]
<1>1. A \in Seq(Int) /\ B \in Seq(Int) /\ Len(A) = m /\ Len(B) = size
  OBVIOUS
<1>2. (A \o B)[m + i] = B[m + i - Len(A)]
  BY <1>1
<1> QED
  BY <1>1, <1>2 DEF Sample

\* The invariant: the sample is one that insert makes, and the payload is what
\* payload() finds in it.
SInv ==
  /\ EInv
  /\ event # NoEvent =>
       /\ event.T \in Types
       /\ event.size \in Nat /\ event.offset \in 0 .. event.size
       /\ event.bytes = Sample(SizeOfMapData(event.T), event.size)
  /\ payload # <<"none">> =>
       /\ event # NoEvent
       /\ payload = [i \in 1 .. event.size - event.offset |->
                       event.bytes[FieldPayload(event.T) + event.offset + i]]

\* Every step keeps the event that was sent as it was.
LEMMA NextSInv ==
  ASSUME Lens \subseteq Nat, SInv, [EventNext]_eventVars
  PROVE  SInv'
<1>1. EInv'
  BY NextEInv DEF SInv
<1>2. CASE UNCHANGED <<event, payload>>
  BY <1>1, <1>2 DEF SInv
<1>3. ASSUME NEW T \in Types, NEW size \in Nat, NEW offset \in 0 .. size,
             Insert(T, offset, size)
      PROVE  SInv'
  <2>1. /\ event'.T = T /\ event'.size = size /\ event'.offset = offset
        /\ event'.bytes = Sample(SizeOfMapData(T), size)
        /\ payload' = payload /\ event = NoEvent
    BY Zenon, <1>3 DEF Insert, Sample
  <2> QED
    BY <1>1, <2>1 DEF SInv
<1>4. ASSUME NEW T \in Types, InsertNew(T)
      PROVE  SInv'
  BY <1>3, <1>4 DEF InsertNew
<1>5. ASSUME NEW T \in Types, NEW size \in Lens, InsertData(T, size)
      PROVE  SInv'
  <2>1. DataOffset(pkt) \in 0 .. size /\ size \in Nat
    BY <1>5, DataInside, PacketFields DEF InsertData, DataOffset, SInv, EInv
  <2> QED
    BY <1>3, <1>5, <2>1 DEF InsertData
<1>6. CASE Payload
  BY <1>1, <1>6 DEF Payload, SInv
<1>7. GetEth \/ GetIp \/ GetTransport \/ GetData \/ (\E len \in Lens : GetSlice(len))
        \/ UNCHANGED eventVars => UNCHANGED <<event, payload>>
  BY DEF GetEth, GetIp, GetTransport, GetData, GetSlice, eventVars
<1> QED
  BY <1>2, <1>4, <1>5, <1>6, <1>7 DEF EventNext

\* For every packet and every T aligned to at most 8 bytes, payload() in user
\* space returns the bytes of the packet that the program has chosen.
THEOREM PayloadCorrect ==
  ASSUME Types \subseteq AllTypes, Lens \subseteq Nat
  PROVE  EventSpec => []PayloadRight
<1>1. EventInit => SInv
  BY DEF EventInit, SInv, EInv
<1>2. SInv /\ [EventNext]_eventVars => SInv'
  BY NextSInv
<1>3. SInv => PayloadRight
  <2> SUFFICES ASSUME SInv, payload # <<"none">>, event.T.align <= 8,
                      event.T.size % event.T.align = 0
               PROVE  payload = [i \in 1 .. event.size - event.offset |-> event.offset + i - 1]
    BY DEF PayloadRight
  <2> DEFINE f == FieldPayload(event.T)
  <2>1. SizeOfMapData(event.T) = f /\ f \in Nat
    BY NoPadding DEF SInv
  <2>2. event.size \in Nat /\ event.offset \in 0 .. event.size
    BY DEF SInv
  <2>3. event.bytes = Sample(f, event.size)
    BY <2>1 DEF SInv
  <2> HIDE DEF f
  <2>4. ASSUME NEW i \in 1 .. event.size - event.offset
        PROVE  event.bytes[f + event.offset + i] = event.offset + i - 1
    <3> DEFINE j == event.offset + i
    <3>1. /\ j \in 1 .. event.size /\ f + event.offset + i = f + j
          /\ event.offset + i - 1 = j - 1
      BY <2>1, <2>2
    <3> HIDE DEF j
    <3>2. Sample(f, event.size)[f + j] = j - 1
      BY Zenon, <2>1, <2>2, <3>1, SampleIsPacket
    <3> QED
      BY Zenon, <2>3, <3>1, <3>2
  <2> QED
    BY <2>4 DEF SInv, f
<1> QED
  BY <1>1, <1>2, <1>3, PTL DEF EventSpec

-----------------------------------------------------------------------------
(* The parser of the p0f example                                           *)

-----------------------------------------------------------------------------
(* The inductive invariant: while options are parsed, they end inside the  *)
(* packet and the position is not before its start.                        *)

PInv ==
  /\ syn \in Packets
  /\ lo \in Int /\ hi \in Int /\ syn.start <= lo /\ (lo < hi => hi <= syn.end)
  /\ n \in 0 .. MaxLoops /\ cnt = n
  /\ pc = "tcp" => Ip(syn) # Err /\ Tcp + TcpLen <= syn.end
  /\ pc \in {"option", "eol"} =>
       /\ pos \in Int /\ OptionEnd \in Int
       /\ syn.start <= pos /\ OptionEnd <= syn.end
  /\ pc = "eol" => pos < OptionEnd

\* The addresses of the TCP header and of the end of its options.
LEMMA TcpAddress ==
  ASSUME syn \in Packets, Ip(syn) # Err
  PROVE  Tcp \in Int /\ OptionEnd \in Int /\ syn.start <= Tcp
  BY IpInside, PacketFields DEF Tcp, OptionEnd

\* The parser starts inside the options.
LEMMA InitPInv == P0fInit => PInv
  BY PacketFields DEF P0fInit, PInv, MaxLoops, MAX_TCP_OPT

\* An option of fixed length, whose length byte is anything.
LEMMA OptionPInv ==
  ASSUME PInv, NEW size \in Nat, NEW isBad, Option(size, isBad)
  PROVE  PInv'
<1>1. syn' = syn /\ pc = "option" /\ pos < OptionEnd /\ n < MaxLoops /\ syn' \in Packets
  BY DEF Option, PInv
<1>2. n' \in 0 .. MaxLoops /\ cnt' = n'
  BY <1>1 DEF Option, PInv, MaxLoops, MAX_TCP_OPT
<1>3. lo' \in Int /\ hi' \in Int /\ syn.start <= lo' /\ hi' <= syn.end
  BY <1>1, PacketFields DEF Option, PInv, Reads
<1>4. pc' \in {"option", "after"}
  BY DEF Option
<1>5. pos' \in Int /\ syn.start <= pos'
  BY <1>1, PacketFields DEF Option, PInv
<1>6. OptionEnd' = OptionEnd
  BY <1>1 DEF OptionEnd, Tcp
<1> QED
  BY <1>1, <1>2, <1>3, <1>4, <1>5, <1>6 DEF PInv

\* SACK, whose length byte decides how far the position moves.
LEMMA SackPInv ==
  ASSUME PInv, NEW len, Sack(len)
  PROVE  PInv'
<1>1. syn' = syn /\ pc = "option" /\ pos < OptionEnd /\ n < MaxLoops /\ syn' \in Packets
  BY DEF Sack, PInv
<1>2. n' \in 0 .. MaxLoops /\ cnt' = n'
  BY <1>1 DEF Sack, PInv, MaxLoops, MAX_TCP_OPT
<1>3. lo' \in Int /\ hi' \in Int /\ syn.start <= lo' /\ hi' <= syn.end
  BY <1>1, PacketFields DEF Sack, PInv, Reads
<1>4. pc' \in {"option", "after"}
  BY DEF Sack
<1>5. pos' \in Int /\ syn.start <= pos'
  <2>1. CASE len \in {10, 18, 26, 34}
    BY <1>1, <2>1, PacketFields DEF Sack, PInv
  <2>2. CASE len \notin {10, 18, 26, 34}
    BY <1>1, <2>2, PacketFields DEF Sack, PInv
  <2> QED
    BY <2>1, <2>2
<1>6. OptionEnd' = OptionEnd
  BY <1>1 DEF OptionEnd, Tcp
<1> QED
  BY <1>1, <1>2, <1>3, <1>4, <1>5, <1>6 DEF PInv

\* Every option keeps the position inside the options.
LEMMA NextPInv == PInv /\ [P0fNext]_p0fVars => PInv'
<1> SUFFICES ASSUME PInv, [P0fNext]_p0fVars PROVE PInv'
  OBVIOUS
<1>1. CASE Headers
  <2>1. syn' = syn /\ syn' \in Packets /\ n' = n /\ cnt' = cnt /\ pc' \in {"tcp", "false"}
    BY <1>1 DEF Headers, PInv
  <2>2. CASE Ip(syn) # Err /\ Tcp + TcpLen <= syn.end /\ Reads(Tcp, TcpLen)
    <3>1. lo' \in Int /\ hi' \in Int /\ syn.start <= lo' /\ hi' <= syn.end
      BY <2>1, <2>2, TcpAddress DEF Reads, TcpLen
    <3>2. (Ip(syn) # Err /\ Tcp + TcpLen <= syn.end)'
      BY <2>1, <2>2 DEF Tcp
    <3> QED
      BY <2>1, <3>1, <3>2 DEF PInv
  <2>3. CASE pc' = "false" /\ ReadsNothing
    BY <2>1, <2>3, PacketFields DEF PInv, ReadsNothing
  <2> QED
    BY <1>1, <2>2, <2>3 DEF Headers
<1>2. CASE Signature
  <2>1. syn' = syn /\ syn' \in Packets /\ n' = n /\ cnt' = cnt /\ pc = "tcp" /\ ReadsNothing
    BY <1>2 DEF Signature, PInv
  <2>2. Tcp \in Int /\ OptionEnd \in Int /\ syn.start <= Tcp
    BY <2>1, TcpAddress DEF PInv
  <2>3. CASE pc' = "false"
    BY <2>1, <2>3, PacketFields DEF PInv, ReadsNothing
  <2>4. CASE /\ pc' = "option" /\ pos' = PtrAt(syn, Tcp + TcpLen, 1)
             /\ PtrAt(syn, Tcp + TcpLen, 1) # Err /\ OptionEnd <= syn.end
    <3>1. pos' \in Int /\ syn.start <= pos'
      BY <2>1, <2>2, <2>4, PtrAtInside DEF TcpLen
    <3>2. OptionEnd' = OptionEnd
      BY <2>1 DEF OptionEnd, Tcp
    <3> QED
      BY <2>1, <2>2, <2>4, <3>1, <3>2, PacketFields DEF PInv, ReadsNothing
  <2> QED
    BY <1>2, <2>1, <2>2, <2>3, <2>4, PacketFields DEF Signature, PtrAfter
<1>3. CASE LoopEnds \/ After
  <2>1. syn' = syn /\ syn' \in Packets /\ n' = n /\ cnt' = cnt /\ pc' \in {"after", "true"}
        /\ ReadsNothing
    BY <1>3 DEF LoopEnds, After, PInv
  <2> QED
    BY <2>1, PacketFields DEF PInv, ReadsNothing
<1>4. CASE Nop
  BY Zenon, <1>4, OptionPInv DEF Nop
<1>5. ASSUME NEW len \in OptionLens,
             Mss(len) \/ Wscale(len) \/ Sackok(len) \/ Sack(len) \/ Tstamp(len)
      PROVE  PInv'
  <2>1. CASE Mss(len)
    BY <2>1, OptionPInv DEF Mss
  <2>2. CASE Wscale(len)
    BY <2>2, OptionPInv DEF Wscale
  <2>3. CASE Sackok(len)
    BY <2>3, OptionPInv DEF Sackok
  <2>4. CASE Sack(len)
    BY <2>4, SackPInv
  <2>5. CASE Tstamp(len)
    BY <2>5, OptionPInv DEF Tstamp
  <2> QED
    BY <1>5, <2>1, <2>2, <2>3, <2>4, <2>5
<1>6. CASE Eol
  <2>1. syn' = syn /\ syn' \in Packets /\ pc = "option" /\ pos < OptionEnd /\ n < MaxLoops
    BY <1>6 DEF Eol, PInv
  <2>2. n' \in 0 .. MaxLoops /\ cnt' = n'
    BY <1>6, <2>1 DEF Eol, PInv, MaxLoops, MAX_TCP_OPT
  <2>3. lo' \in Int /\ hi' \in Int /\ syn.start <= lo' /\ hi' <= syn.end
    BY <1>6, <2>1, PacketFields DEF Eol, PInv, Reads
  <2>4. /\ pos' \in Int /\ syn.start <= pos'
        /\ pc' \in {"eol", "after"} /\ (pc' = "eol" => pos' < OptionEnd)
    BY <1>6, <2>1, PacketFields DEF Eol, PInv
  <2>5. OptionEnd' = OptionEnd
    BY <2>1 DEF OptionEnd, Tcp
  <2> QED
    BY <2>1, <2>2, <2>3, <2>4, <2>5 DEF PInv
<1>7. CASE EolPadding
  <2>1. syn' = syn /\ syn' \in Packets /\ pc = "eol" /\ n' = n /\ cnt' = cnt
    BY <1>7 DEF EolPadding, PInv
  <2>2. lo' \in Int /\ hi' \in Int /\ syn.start <= lo' /\ hi' <= syn.end
    BY <1>7, <2>1, PacketFields DEF EolPadding, PInv, Reads
  <2>3. /\ pos' \in Int /\ syn.start <= pos'
        /\ pc' \in {"eol", "after"} /\ (pc' = "eol" => pos' < OptionEnd)
    BY <1>7, <2>1, PacketFields DEF EolPadding, PInv
  <2>4. OptionEnd' = OptionEnd
    BY <2>1 DEF OptionEnd, Tcp
  <2> QED
    BY <2>1, <2>2, <2>3, <2>4 DEF PInv
<1>8. CASE UNCHANGED p0fVars
  <2>1. OptionEnd' = OptionEnd /\ Tcp' = Tcp
    BY <1>8 DEF p0fVars, OptionEnd, Tcp
  <2> QED
    BY <1>8, <2>1 DEF p0fVars, PInv
<1> QED
  BY <1>1, <1>2, <1>3, <1>4, <1>5, <1>6, <1>7, <1>8 DEF P0fNext

\* For every set of packets and of length bytes, the parser reads inside the
\* packet, and stores no more options than its array holds.
THEOREM ReadsInside == P0fSpec => []ParserInside
<1>1. PInv => ParserInside
  BY DEF PInv, ParserInside, MaxLoops, MAX_TCP_OPT
<1> QED
  BY <1>1, InitPInv, NextPInv, PTL DEF P0fSpec

-----------------------------------------------------------------------------
(* The echo server                                                         *)


Living == {"pending", "open", "half"}

EchoTypeOK ==
  /\ addr \in [Conns -> Addrs]
  /\ tcp \in [Conns -> {"new", "pending", "open", "half", "reset", "closed"}]
  /\ backlog \in Seq(Conns) /\ chan \in Seq(Conns)
  /\ idxOf \in [Conns -> Int] /\ counter \in Nat
  /\ idxMap \in [Addrs -> Int]
  /\ sockMap \in [0 .. SockMax - 1 -> Conns \cup {NoConn}]
  /\ main = Waiting \/ main \in [pc : {"sockmap"}, conn : Conns]

\* Connections that wait to be accepted have no index, are different, and of two
\* from one address, or one that was accepted before, the earlier is over.
BacklogInv ==
  /\ \A c \in Conns : tcp[c] = "new" => idxOf[c] = None
  /\ \A j \in 1 .. Len(backlog) : tcp[backlog[j]] # "new" /\ idxOf[backlog[j]] = None
  /\ \A j, l \in 1 .. Len(backlog) : j < l =>
       /\ backlog[j] # backlog[l]
       /\ addr[backlog[j]] = addr[backlog[l]] => tcp[backlog[j]] \notin Living
  /\ \A j \in 1 .. Len(backlog), d \in Conns :
       idxOf[d] # None /\ addr[d] = addr[backlog[j]] => tcp[d] \notin Living

\* An index belongs to one connection; the main loop's is the last one.
IndexInv ==
  /\ \A c, d \in Conns : idxOf[c] = idxOf[d] /\ idxOf[c] # None => c = d
  /\ \A c \in Conns : idxOf[c] <= counter
  /\ main = Waiting => \A c \in Conns : idxOf[c] # counter
  /\ main # Waiting =>
       idxOf[main.conn] = counter /\ (~unindexed => idxMap[addr[main.conn]] = counter)
  /\ \A a \in Addrs : idxMap[a] # None =>
       \E c \in Conns : idxOf[c] = idxMap[a] /\ addr[c] = a

\* The sockmap holds live connections at their index, the channel closed ones.
SockInv ==
  /\ \A i \in 0 .. SockMax - 1 : sockMap[i] # NoConn =>
       idxOf[sockMap[i]] = i /\ tcp[sockMap[i]] \in {"open", "half"}
  /\ \A j \in 1 .. Len(chan) : tcp[chan[j]] = "closed"
  /\ \A c, d \in Conns : tcp[c] \in Living /\ tcp[d] \in Living /\ addr[c] = addr[d] => c = d

EchoInv == EchoTypeOK /\ BacklogInv /\ IndexInv /\ SockInv /\ EchoesToSender

-----------------------------------------------------------------------------
(* A connection loses its place in the sockmap when it ends                *)

\* Steps of clients, of the tasks and of the kernel: connections end, those
\* that end leave the sockmap.
Ends ==
  /\ UNCHANGED <<addr, idxOf, main, counter, idxMap, unindexed, backlog>>
  /\ tcp' \in [Conns -> {"new", "pending", "open", "half", "reset", "closed"}]
  /\ \A c \in Conns :
       /\ tcp'[c] = "new" => tcp[c] = "new"
       /\ tcp'[c] \in Living => tcp[c] \in Living
       /\ tcp[c] = "closed" => tcp'[c] = "closed"
  /\ sockMap' \in [0 .. SockMax - 1 -> Conns \cup {NoConn}]
  /\ \A i \in 0 .. SockMax - 1 : sockMap'[i] # NoConn =>
       sockMap'[i] = sockMap[i] /\ tcp'[sockMap[i]] \in {"open", "half"}
  /\ chan' \in Seq(Conns)
  /\ \A j \in 1 .. Len(chan') : tcp'[chan'[j]] = "closed"
  /\ \A p \in echoed' : p[1] = p[2]

\* A connection that ends keeps the invariant.
LEMMA EndsInv == ASSUME NoConn \notin Conns, EchoInv, Ends PROVE EchoInv'
<1>1. EchoTypeOK'
  BY SMTT(20) DEF EchoInv, EchoTypeOK, Ends
<1>2. BacklogInv'
  <2>1. \A c \in Conns : tcp'[c] \in Living => tcp[c] \in Living
    BY DEF Ends, Living
  <2>2. backlog \in Seq(Conns) /\ backlog' = backlog /\ addr' = addr /\ idxOf' = idxOf
    BY DEF Ends, EchoInv, EchoTypeOK
  <2>3. \A j \in 1 .. Len(backlog) : backlog[j] \in Conns
    BY <2>2
  <2>4. \A j \in 1 .. Len(backlog) : tcp'[backlog[j]] # "new"
    BY <2>3 DEF Ends, EchoInv, BacklogInv
  <2>5. \A c \in Conns : tcp'[c] = "new" => tcp[c] = "new"
    BY SMTT(20) DEF Ends
  <2> QED
    BY SMTT(20), <2>1, <2>2, <2>3, <2>4, <2>5 DEF EchoInv, BacklogInv
<1>3. IndexInv'
  BY SMTT(20) DEF EchoInv, IndexInv, Ends
<1>4. SockInv'
  <2>1. \A i \in 0 .. SockMax - 1 : sockMap'[i] # NoConn =>
          idxOf'[sockMap'[i]] = i /\ tcp'[sockMap'[i]] \in {"open", "half"}
    BY DEF EchoInv, SockInv, Ends
  <2>2. \A c, d \in Conns : tcp'[c] \in Living /\ tcp'[d] \in Living /\ addr'[c] = addr'[d] => c = d
    BY SMTT(20) DEF EchoInv, SockInv, Ends, Living
  <2> QED
    BY <2>1, <2>2 DEF SockInv, Ends
<1>5. EchoesToSender'
  <2>1. DOMAIN sockMap = 0 .. SockMax - 1 /\ DOMAIN sockMap' = 0 .. SockMax - 1
    BY SMTT(20) DEF EchoInv, EchoTypeOK, Ends
  <2>2. \A c \in Conns : Registered(c)' => Registered(c)
    BY <2>1 DEF Registered, Ends
  <2> QED
    BY <2>2 DEF EchoInv, EchoesToSender, Ends
<1> QED
  BY <1>1, <1>2, <1>3, <1>4, <1>5 DEF EchoInv

ConnStates == {"new", "pending", "open", "half", "reset", "closed"}
Unhashed(c) == [i \in 0 .. SockMax - 1 |-> IF sockMap[i] = c THEN NoConn ELSE sockMap[i]]

\* One connection moves on to state st.
LEMMA StepEnds ==
  ASSUME EchoInv, NEW c \in Conns, NEW st \in ConnStates \ {"new"},
         tcp' = [tcp EXCEPT ![c] = st],
         st \in Living => tcp[c] \in Living,
         tcp[c] = "closed" => st = "closed",
         UNCHANGED <<addr, idxOf, main, counter, idxMap, unindexed, backlog, echoed>>,
         \/ sockMap' = sockMap /\ (tcp[c] \in {"open", "half"} => st \in {"open", "half"})
         \/ sockMap' = Unhashed(c),
         chan' = chan \/ (chan' = Append(chan, c) /\ st = "closed")
  PROVE  Ends
<1>1. /\ tcp \in [Conns -> ConnStates]
      /\ tcp' \in [Conns -> ConnStates] /\ tcp'[c] = st
      /\ \A d \in Conns : d # c => tcp'[d] = tcp[d]
  <2>1. tcp \in [Conns -> ConnStates]
    BY Zenon DEF EchoInv, EchoTypeOK, ConnStates
  <2> QED
    BY Zenon, <2>1
<1>2. /\ sockMap \in [0 .. SockMax - 1 -> Conns \cup {NoConn}]
      /\ \A i \in 0 .. SockMax - 1 : sockMap[i] # NoConn => tcp[sockMap[i]] \in {"open", "half"}
  BY Zenon DEF EchoInv, EchoTypeOK, SockInv
<1>3. chan \in Seq(Conns) /\ \A j \in 1 .. Len(chan) : tcp[chan[j]] = "closed"
  BY Zenon DEF EchoInv, EchoTypeOK, SockInv
<1>4. \A d \in Conns : /\ tcp'[d] = "new" => tcp[d] = "new"
                       /\ tcp'[d] \in Living => tcp[d] \in Living
                       /\ tcp[d] = "closed" => tcp'[d] = "closed"
  BY Zenon, <1>1
<1>5. /\ sockMap' \in [0 .. SockMax - 1 -> Conns \cup {NoConn}]
      /\ \A i \in 0 .. SockMax - 1 : sockMap'[i] # NoConn =>
           sockMap'[i] = sockMap[i] /\ tcp'[sockMap[i]] \in {"open", "half"}
  <2>1. CASE sockMap' = Unhashed(c)
    <3>1. \A i \in 0 .. SockMax - 1 : sockMap'[i] = IF sockMap[i] = c THEN NoConn ELSE sockMap[i]
      BY Zenon, <2>1 DEF Unhashed
    <3>2. sockMap' \in [0 .. SockMax - 1 -> Conns \cup {NoConn}]
      BY <1>2, <2>1 DEF Unhashed
    <3> QED
      BY <1>1, <1>2, <3>1, <3>2
  <2>2. CASE sockMap' = sockMap /\ (tcp[c] \in {"open", "half"} => st \in {"open", "half"})
    BY <1>1, <1>2, <2>2
  <2> QED
    BY Zenon, <2>1, <2>2
<1>6. chan' \in Seq(Conns) /\ \A j \in 1 .. Len(chan') : tcp'[chan'[j]] = "closed"
  <2>1. \A j \in 1 .. Len(chan) : chan[j] \in Conns
    BY <1>3
  <2>2. CASE chan' = chan
    BY Zenon, <1>3, <1>4, <2>1, <2>2
  <2>3. CASE chan' = Append(chan, c) /\ st = "closed"
    <3>1. /\ chan' \in Seq(Conns) /\ Len(chan') = Len(chan) + 1 /\ Len(chan) \in Nat
          /\ chan'[Len(chan) + 1] = c /\ \A j \in 1 .. Len(chan) : chan'[j] = chan[j]
      BY <1>3, <2>3
    <3>2. ASSUME NEW j \in 1 .. Len(chan') PROVE tcp'[chan'[j]] = "closed"
      <4>1. j \in 1 .. Len(chan) \/ j = Len(chan) + 1
        BY <3>1
      <4>2. CASE j \in 1 .. Len(chan)
        <5>1. chan'[j] = chan[j] /\ chan[j] \in Conns
          BY <2>1, <3>1, <4>2, Zenon
        <5> QED
          BY <1>3, <1>4, <4>2, <5>1, Zenon
      <4>3. CASE j = Len(chan) + 1
        <5>1. chan'[j] = c
          BY <3>1, <4>3, Zenon
        <5> QED
          BY <1>1, <2>3, <5>1, Zenon
      <4> QED
        BY <4>1, <4>2, <4>3, Zenon
    <3> QED
      BY Zenon, <3>1, <3>2
  <2> QED
    BY Zenon, <2>2, <2>3
<1>7. \A p \in echoed' : p[1] = p[2]
  BY Zenon DEF EchoInv, EchoesToSender
<1> QED
  BY Zenon, <1>1, <1>4, <1>5, <1>6, <1>7 DEF Ends, ConnStates

\* What clients and tasks do to one connection keeps the invariant.
LEMMA ClientInv ==
  ASSUME NoConn \notin Conns, EchoInv, NEW c \in Conns,
         HalfClose(c) \/ Reset(c) \/ ReadToEnd(c) \/ TaskPanics(c) \/ SendDelete(c)
  PROVE  EchoInv'
<1>1. "half" \in ConnStates \ {"new"} /\ "reset" \in ConnStates \ {"new"} /\ "closed" \in ConnStates \ {"new"}
  BY DEF ConnStates
<1>2. DOMAIN sockMap = 0 .. SockMax - 1 /\ tcp \in [Conns -> ConnStates]
  BY Zenon DEF EchoInv, EchoTypeOK, ConnStates
<1>3. CASE HalfClose(c)
  <2>1. /\ tcp[c] \in {"pending", "open"} /\ tcp' = [tcp EXCEPT ![c] = "half"]
        /\ UNCHANGED <<addr, idxOf, main, counter, idxMap, unindexed, backlog, echoed>>
        /\ sockMap' = sockMap /\ chan' = chan
    BY Zenon, <1>3 DEF HalfClose, serverVars
  <2>2. tcp[c] \in Living /\ tcp[c] # "closed"
    BY <2>1 DEF Living
  <2> QED
    BY Zenon, <1>1, <2>1, <2>2, StepEnds, EndsInv
<1>4. CASE Reset(c)
  <2>1. /\ tcp[c] \in {"pending", "open", "half"} /\ tcp' = [tcp EXCEPT ![c] = "reset"]
        /\ UNCHANGED <<addr, idxOf, main, counter, idxMap, unindexed, backlog, echoed>>
        /\ sockMap' = Unhashed(c) /\ chan' = chan
    BY Zenon, <1>2, <1>4 DEF Reset, Unhash, Unhashed, serverVars
  <2>2. "reset" \notin Living /\ tcp[c] # "closed"
    BY <2>1 DEF Living
  <2> QED
    BY Zenon, <1>1, <2>1, <2>2, StepEnds, EndsInv
<1>5. CASE ReadToEnd(c)
  <2>1. /\ tcp[c] = "half" /\ tcp' = tcp
        /\ UNCHANGED <<addr, idxOf, main, counter, idxMap, unindexed, backlog, echoed>>
        /\ sockMap' = sockMap /\ chan' = chan
    BY Zenon, <1>5 DEF ReadToEnd, serverVars
  <2>2. tcp[c] \in Living /\ tcp[c] # "closed" /\ tcp' = [tcp EXCEPT ![c] = "half"]
    BY <1>2, <2>1 DEF Living
  <2> QED
    BY Zenon, <1>1, <2>1, <2>2, StepEnds, EndsInv
<1>6. CASE TaskPanics(c)
  <2>1. /\ tcp[c] = "reset" /\ tcp' = [tcp EXCEPT ![c] = "closed"]
        /\ UNCHANGED <<addr, idxOf, main, counter, idxMap, unindexed, backlog, echoed>>
        /\ sockMap' = sockMap /\ chan' = chan
    BY Zenon, <1>6 DEF TaskPanics, serverVars
  <2>2. "closed" \notin Living /\ tcp[c] \notin {"open", "half"}
    BY <2>1 DEF Living
  <2> QED
    BY Zenon, <1>1, <2>1, <2>2, StepEnds, EndsInv
<1>7. CASE SendDelete(c)
  <2>1. /\ tcp' = [tcp EXCEPT ![c] = "closed"]
        /\ UNCHANGED <<addr, idxOf, main, counter, idxMap, unindexed, backlog, echoed>>
        /\ sockMap' = Unhashed(c) /\ chan' = Append(chan, c)
    BY Zenon, <1>2, <1>7 DEF SendDelete, Unhash, Unhashed
  <2>2. "closed" \notin Living
    BY DEF Living
  <2> QED
    BY Zenon, <1>1, <2>1, <2>2, StepEnds, EndsInv
<1> QED
  BY Zenon, <1>3, <1>4, <1>5, <1>6, <1>7

-----------------------------------------------------------------------------
(* The other steps                                                         *)

\* The verdict program finds the socket of the sender, or none.
LEMMA PacketInv ==
  ASSUME NoConn \notin Conns, EchoInv, NEW c \in Conns, Packet(c)
  PROVE  EchoInv'
<1>1. ASSUME NEW d \in Verdict(c)
      PROVE  d = c
  <2> DEFINE i == idxMap[addr[c]]
  <2>1. i \in 0 .. SockMax - 1 /\ d = sockMap[i] /\ d # NoConn
    BY SMTT(20), <1>1 DEF Verdict, EchoInv, EchoTypeOK
  <2>2. d \in Conns /\ idxOf[d] = i /\ tcp[d] \in {"open", "half"} /\ i # None
    BY <2>1 DEF EchoInv, EchoTypeOK, SockInv, None
  <2>3. PICK e \in Conns : idxOf[e] = i /\ addr[e] = addr[c]
    BY SMTT(20), <2>2 DEF EchoInv, EchoTypeOK, IndexInv
  <2>4. e = d
    BY SMTT(20), <2>2, <2>3 DEF EchoInv, IndexInv
  <2>5. tcp[c] \in Living /\ tcp[d] \in Living
    BY SMTT(20), <2>2 DEF Packet, Living
  <2> QED
    BY <2>2, <2>3, <2>4, <2>5 DEF EchoInv, SockInv
<1>2. \A p \in echoed' : p[1] = p[2]
  BY <1>1 DEF Packet, EchoInv, EchoesToSender
<1>3. Ends
  BY Zenon, <1>2 DEF Packet, serverVars, Ends, Living, EchoInv, EchoTypeOK, SockInv
<1> QED
  BY SMTT(20), <1>3, EndsInv

\* A new connection of an address comes after its older ones.
LEMMA ConnectInv ==
  ASSUME EchoInv, NEW c \in Conns, Connect(c)
  PROVE  EchoInv'
<1>1. /\ tcp[c] = "new" /\ tcp' = [tcp EXCEPT ![c] = "pending"] /\ idxOf[c] = None
      /\ \A d \in Conns : addr[d] = addr[c] => tcp[d] \notin Living
      /\ UNCHANGED <<addr, idxOf, main, counter, idxMap, chan, unindexed, sockMap, echoed>>
  BY Zenon DEF Connect, serverVars, EchoInv, EchoTypeOK, BacklogInv, Living
<1>2. /\ backlog' \in Seq(Conns) /\ Len(backlog') = Len(backlog) + 1
      /\ \A j \in 1 .. Len(backlog) : backlog'[j] = backlog[j] /\ backlog[j] \in Conns
      /\ backlog'[Len(backlog) + 1] = c /\ Len(backlog) \in Nat
  BY DEF Connect, EchoInv, EchoTypeOK
<1>3. EchoTypeOK'
  BY Zenon, <1>1, <1>2 DEF EchoInv, EchoTypeOK
<1>4. \A d \in Conns : d # c => (tcp'[d] \in Living <=> tcp[d] \in Living) /\ tcp'[d] = tcp[d]
  BY SMTT(20), <1>1 DEF EchoInv, EchoTypeOK, Living
<1>5. \A j \in 1 .. Len(backlog) : backlog[j] # c
  BY <1>1 DEF EchoInv, BacklogInv
<1>6. tcp'[c] = "pending"
  BY SMTT(20), <1>1 DEF EchoInv, EchoTypeOK
<1>7. BacklogInv'
  <2>1. \A d \in Conns : tcp'[d] = "new" => idxOf'[d] = None
    BY SMTT(20), <1>1, <1>4, <1>6 DEF EchoInv, BacklogInv
  <2>2. \A j \in 1 .. Len(backlog') : tcp'[backlog'[j]] # "new" /\ idxOf'[backlog'[j]] = None
    <3> TAKE j \in 1 .. Len(backlog')
    <3>1. CASE j = Len(backlog) + 1
      BY SMTT(20), <1>1, <1>2, <1>6, <3>1
    <3>2. CASE j \in 1 .. Len(backlog)
      BY SMTT(20), <1>1, <1>2, <1>4, <1>5, <3>2 DEF EchoInv, BacklogInv
    <3> QED
      BY SMTT(20), <1>2, <3>1, <3>2
  <2>3. \A j, l \in 1 .. Len(backlog') : j < l =>
          /\ backlog'[j] # backlog'[l]
          /\ addr'[backlog'[j]] = addr'[backlog'[l]] => tcp'[backlog'[j]] \notin Living
    <3> TAKE j, l \in 1 .. Len(backlog')
    <3> HAVE j < l
    <3>1. j \in 1 .. Len(backlog)
      BY <1>2
    <3>2. /\ backlog'[j] = backlog[j] /\ backlog[j] \in Conns /\ backlog[j] # c
          /\ tcp'[backlog'[j]] \in Living <=> tcp[backlog[j]] \in Living
      BY SMTT(20), <1>2, <1>4, <1>5, <3>1
    <3>3. CASE l = Len(backlog) + 1
      BY SMTT(20), <1>1, <1>2, <3>2, <3>3
    <3>4. CASE l \in 1 .. Len(backlog)
      BY SMTT(20), <1>1, <1>2, <3>1, <3>2, <3>4 DEF EchoInv, BacklogInv
    <3> QED
      BY <1>2, <3>3, <3>4
  <2>4. \A j \in 1 .. Len(backlog'), d \in Conns :
          idxOf'[d] # None /\ addr'[d] = addr'[backlog'[j]] => tcp'[d] \notin Living
    <3> TAKE j \in 1 .. Len(backlog'), d \in Conns
    <3> HAVE idxOf'[d] # None /\ addr'[d] = addr'[backlog'[j]]
    <3>1. d # c /\ (tcp'[d] \in Living <=> tcp[d] \in Living)
      BY <1>1, <1>4
    <3>2. CASE j = Len(backlog) + 1
      BY SMTT(20), <1>1, <1>2, <3>1, <3>2
    <3>3. CASE j \in 1 .. Len(backlog)
      BY <1>1, <1>2, <3>1, <3>3 DEF EchoInv, BacklogInv
    <3> QED
      BY <1>2, <3>2, <3>3
  <2> QED
    BY SMTT(20), <2>1, <2>2, <2>3, <2>4 DEF BacklogInv
<1>8. IndexInv'
  <2>1. addr' = addr /\ idxOf' = idxOf /\ main' = main /\ counter' = counter /\ idxMap' = idxMap
        /\ unindexed' = unindexed
    BY Zenon, <1>1
  <2>2. IndexInv
    BY SMTT(20) DEF EchoInv
  <2> QED
    BY Zenon, <2>1, <2>2 DEF IndexInv
<1>9. SockInv'
  <2>0. \A i \in 0 .. SockMax - 1 : sockMap[i] # NoConn => sockMap[i] \in Conns
    BY Zenon DEF EchoInv, EchoTypeOK
  <2>1. \A i \in 0 .. SockMax - 1 : sockMap[i] # NoConn => sockMap[i] # c
    BY <1>1 DEF EchoInv, SockInv
  <2>2. \A j \in 1 .. Len(chan) : chan[j] \in Conns /\ chan[j] # c
    BY SMTT(20), <1>1 DEF EchoInv, EchoTypeOK, SockInv
  <2>3. \A d, e \in Conns : tcp'[d] \in Living /\ tcp'[e] \in Living /\ addr'[d] = addr'[e] => d = e
    BY <1>1, <1>4 DEF EchoInv, SockInv
  <2>4. /\ \A i \in 0 .. SockMax - 1 : sockMap[i] # NoConn =>
             idxOf[sockMap[i]] = i /\ tcp[sockMap[i]] \in {"open", "half"}
        /\ \A j \in 1 .. Len(chan) : tcp[chan[j]] = "closed"
    BY ZenonT(30) DEF EchoInv, SockInv
  <2> QED
    BY <1>1, <1>4, <2>0, <2>1, <2>2, <2>3, <2>4 DEF SockInv
<1>10. EchoesToSender'
  BY <1>1 DEF EchoInv, EchoesToSender, Registered
<1> QED
  BY <1>3, <1>7, <1>8, <1>9, <1>10 DEF EchoInv

\* The index an accepted connection gets is new.
LEMMA AcceptInv ==
  ASSUME NoConn \notin Conns, EchoInv, Accept
  PROVE  EchoInv'
<1> DEFINE c == Head(backlog)
<1>1. /\ c \in Conns /\ c = backlog[1] /\ Len(backlog) \in Nat /\ Len(backlog) >= 1
      /\ \A j \in 1 .. Len(backlog) : backlog[j] \in Conns
      /\ backlog' \in Seq(Conns) /\ Len(backlog') = Len(backlog) - 1
      /\ \A j \in 1 .. Len(backlog') : backlog'[j] = backlog[j + 1]
  BY SMTT(20) DEF Accept, EchoInv, EchoTypeOK
<1>2. /\ addr' = addr /\ counter' = counter /\ sockMap' = sockMap /\ chan' = chan
      /\ echoed' = echoed /\ main = Waiting
      /\ tcp' = [tcp EXCEPT ![c] = IF tcp[c] = "pending" THEN "open" ELSE tcp[c]]
      /\ idxMap' = IF HasRoom(addr[c]) THEN [idxMap EXCEPT ![addr[c]] = counter] ELSE idxMap
      /\ unindexed' = (unindexed \/ ~HasRoom(addr[c]))
      /\ idxOf' = [idxOf EXCEPT ![c] = counter]
      /\ main' = [pc |-> "sockmap", conn |-> c]
  BY DEF Accept
<1> HIDE DEF c
<1>3. /\ idxOf[c] = None /\ tcp[c] # "new"
      /\ \A j \in 2 .. Len(backlog) : backlog[j] # c
      /\ \A d \in Conns : idxOf[d] # None /\ addr[d] = addr[c] => tcp[d] \notin Living
  BY SMTT(20), <1>1 DEF EchoInv, BacklogInv
<1>4. /\ idxOf'[c] = counter /\ \A d \in Conns : d # c => idxOf'[d] = idxOf[d]
      /\ addr[c] \in Addrs /\ counter \in Nat /\ counter # None
  BY SMTT(20), <1>1, <1>2 DEF EchoInv, EchoTypeOK, None
<1>5. \A d \in Conns :
        /\ d # c => tcp'[d] = tcp[d]
        /\ tcp'[d] \in Living <=> tcp[d] \in Living
        /\ tcp'[d] = "new" => tcp[d] = "new"
  BY Zenon, <1>1, <1>2 DEF EchoInv, EchoTypeOK, Living
<1>6. EchoTypeOK'
  BY SMTT(20), <1>1, <1>2, <1>4 DEF EchoInv, EchoTypeOK
<1>7. BacklogInv'
  <2>1. \A d \in Conns : tcp'[d] = "new" => idxOf'[d] = None
    BY <1>3, <1>4, <1>5 DEF EchoInv, BacklogInv
  <2>2. \A j \in 1 .. Len(backlog') :
          /\ j + 1 \in 2 .. Len(backlog) /\ backlog'[j] \in Conns /\ backlog'[j] # c
          /\ backlog'[j] = backlog[j + 1]
    BY <1>1, <1>3
  <2>3. \A j \in 1 .. Len(backlog') : tcp'[backlog'[j]] # "new" /\ idxOf'[backlog'[j]] = None
    <3> TAKE j \in 1 .. Len(backlog')
    <3>1. j + 1 \in 1 .. Len(backlog)
      BY SMTT(20), <1>1, <2>2
    <3>2. tcp[backlog[j + 1]] # "new" /\ idxOf[backlog[j + 1]] = None
      BY <3>1 DEF EchoInv, BacklogInv
    <3> QED
      BY <1>4, <1>5, <2>2, <3>2
  <2>4. \A j, l \in 1 .. Len(backlog') : j < l =>
          /\ backlog'[j] # backlog'[l]
          /\ addr'[backlog'[j]] = addr'[backlog'[l]] => tcp'[backlog'[j]] \notin Living
    <3> TAKE j, l \in 1 .. Len(backlog')
    <3> HAVE j < l
    <3>1. j + 1 < l + 1 /\ j + 1 \in 1 .. Len(backlog) /\ l + 1 \in 1 .. Len(backlog)
      BY SMTT(20), <1>1, <2>2
    <3>2. /\ backlog[j + 1] # backlog[l + 1]
          /\ addr[backlog[j + 1]] = addr[backlog[l + 1]] => tcp[backlog[j + 1]] \notin Living
      BY <3>1 DEF EchoInv, BacklogInv
    <3> QED
      BY Zenon, <1>2, <1>5, <2>2, <3>2
  <2>5. \A j \in 1 .. Len(backlog'), d \in Conns :
          idxOf'[d] # None /\ addr'[d] = addr'[backlog'[j]] => tcp'[d] \notin Living
    <3> TAKE j \in 1 .. Len(backlog'), d \in Conns
    <3> HAVE idxOf'[d] # None /\ addr'[d] = addr'[backlog'[j]]
    <3>1. j + 1 \in 1 .. Len(backlog) /\ 1 < j + 1 /\ 1 \in 1 .. Len(backlog)
      BY <1>1, <2>2
    <3>2. addr[d] = addr[backlog[j + 1]]
      BY ZenonT(30), <1>2, <2>2
    <3>3. CASE d = c
      BY SMTT(20), <1>1, <1>5, <3>1, <3>2, <3>3 DEF EchoInv, BacklogInv
    <3>4. CASE d # c
      BY SMTT(20), <1>4, <1>5, <3>1, <3>2, <3>4 DEF EchoInv, BacklogInv
    <3> QED
      BY <3>3, <3>4
  <2> QED
    BY ZenonT(30), <2>1, <2>3, <2>4, <2>5 DEF BacklogInv
<1>8. IndexInv'
  <2>0. IndexInv /\ idxOf \in [Conns -> Int] /\ idxMap \in [Addrs -> Int] /\ addr \in [Conns -> Addrs]
    BY DEF EchoInv, EchoTypeOK
  <2>1. \A d \in Conns : idxOf[d] # counter /\ idxOf[d] <= counter
    BY Zenon, <1>2, <2>0 DEF IndexInv
  <2>2. \A d, e \in Conns : idxOf'[d] = idxOf'[e] /\ idxOf'[d] # None => d = e
    BY SMTT(20), <1>4, <2>0, <2>1 DEF IndexInv
  <2>3. \A d \in Conns : idxOf'[d] <= counter'
    BY SMTT(20), <1>2, <1>4, <2>1
  <2>4. main' # Waiting /\ main'.conn = c
    BY <1>2 DEF Waiting
  <2>5. /\ idxMap'[addr[c]] \in {counter, None} /\ (~unindexed' => idxMap'[addr[c]] = counter)
        /\ \A a \in Addrs : a # addr[c] => idxMap'[a] = idxMap[a]
    BY Zenon, <1>2, <1>4, <2>0 DEF HasRoom
  <2>6. ASSUME NEW a \in Addrs, idxMap'[a] # None
        PROVE  \E d \in Conns : idxOf'[d] = idxMap'[a] /\ addr'[d] = a
    <3>1. CASE a = addr[c]
      BY SMTT(20), <1>1, <1>2, <1>4, <2>5, <2>6, <3>1
    <3>2. CASE a # addr[c]
      <4>1. PICK d \in Conns : idxOf[d] = idxMap[a] /\ addr[d] = a
        BY <2>0, <2>5, <2>6, <3>2 DEF IndexInv
      <4>2. d # c
        BY SMTT(20), <3>2, <4>1
      <4> QED
        BY <1>2, <1>4, <2>5, <3>2, <4>1, <4>2
    <3> QED
      BY SMTT(20), <3>1, <3>2
  <2> QED
    BY <1>2, <1>4, <2>2, <2>3, <2>4, <2>5, <2>6 DEF IndexInv
<1>9. /\ \A i \in 0 .. SockMax - 1 : sockMap[i] # NoConn =>
           /\ sockMap[i] \in Conns /\ sockMap[i] # c
           /\ idxOf[sockMap[i]] = i /\ idxOf[sockMap[i]] # None
           /\ tcp[sockMap[i]] \in {"open", "half"}
  <2>1. \A i \in 0 .. SockMax - 1 : sockMap[i] # NoConn => sockMap[i] \in Conns
    BY Zenon DEF EchoInv, EchoTypeOK
  <2> QED
    BY <1>3, <2>1 DEF EchoInv, SockInv, None
<1>10. SockInv'
  <2>1. \A i \in 0 .. SockMax - 1 : sockMap'[i] # NoConn =>
          idxOf'[sockMap'[i]] = i /\ tcp'[sockMap'[i]] \in {"open", "half"}
    <3> TAKE i \in 0 .. SockMax - 1
    <3> HAVE sockMap'[i] # NoConn
    <3>1. sockMap' = sockMap
      BY SMTT(20), <1>2
    <3>2. PICK d \in Conns : d = sockMap[i] /\ d # c /\ idxOf[d] = i /\ tcp[d] \in {"open", "half"}
      BY <1>9, <3>1
    <3>3. idxOf'[d] = idxOf[d]
      BY <1>4, <3>2
    <3>4. tcp'[d] \in {"open", "half"}
      BY <1>5, <3>2
    <3> QED
      BY <3>1, <3>2, <3>3, <3>4
  <2>2. \A j \in 1 .. Len(chan) : chan[j] \in Conns /\ tcp[chan[j]] = "closed"
    BY DEF EchoInv, EchoTypeOK, SockInv
  <2>3. \A j \in 1 .. Len(chan') : tcp'[chan'[j]] = "closed"
    BY Zenon, <1>1, <1>2, <2>2 DEF EchoInv, EchoTypeOK
  <2> QED
    BY Zenon, <1>2, <1>5, <2>1, <2>3 DEF EchoInv, SockInv
<1>11. EchoesToSender'
  <2>1. ASSUME NEW d \in Conns, Registered(d), ~unindexed'
        PROVE  idxMap'[addr'[d]] = idxOf'[d]
    <3>1. PICK i \in 0 .. SockMax - 1 : sockMap[i] = d
      BY <2>1 DEF Registered, EchoInv, EchoTypeOK
    <3>2. d # c /\ idxOf[d] # None /\ tcp[d] \in Living
      BY <1>9, <3>1 DEF Living
    <3> QED
      BY Zenon, <1>2, <1>3, <1>4, <2>1, <3>2 DEF EchoInv, EchoTypeOK, EchoesToSender
  <2> QED
    BY Zenon, <1>2, <2>1 DEF EchoInv, EchoesToSender, Registered
<1> QED
  BY SMTT(20), <1>6, <1>7, <1>8, <1>10, <1>11 DEF EchoInv

\* The sockmap gets the connection at its own index.
LEMMA SockmapSetInv ==
  ASSUME EchoInv, SockmapSet
  PROVE  EchoInv'
<1> DEFINE c == main.conn
<1>1. c \in Conns /\ main # Waiting
  BY SMTT(20) DEF SockmapSet, Waiting, EchoInv, EchoTypeOK
<1>2. /\ addr' = addr /\ tcp' = tcp /\ backlog' = backlog /\ idxOf' = idxOf
      /\ idxMap' = idxMap /\ chan' = chan /\ echoed' = echoed /\ unindexed' = unindexed
      /\ counter' = counter + 1 /\ main' = Waiting
      /\ sockMap' = IF counter \in DOMAIN sockMap /\ tcp[c] = "open"
                    THEN [sockMap EXCEPT ![counter] = c] ELSE sockMap
  BY SMTT(20) DEF SockmapSet
<1>3. idxOf[c] = counter /\ (~unindexed => idxMap[addr[c]] = counter)
  BY <1>1 DEF EchoInv, IndexInv
<1> HIDE DEF c
<1>4. /\ DOMAIN sockMap = 0 .. SockMax - 1 /\ DOMAIN sockMap' = 0 .. SockMax - 1
      /\ \A i \in 0 .. SockMax - 1 :
           sockMap'[i] = sockMap[i] \/ (sockMap'[i] = c /\ i = counter /\ tcp[c] = "open")
  BY <1>2 DEF EchoInv, EchoTypeOK
<1>5. EchoTypeOK'
  BY SMTT(20), <1>1, <1>2 DEF EchoInv, EchoTypeOK
<1>6. BacklogInv'
  BY SMTT(20), <1>2 DEF EchoInv, BacklogInv
<1>7. IndexInv'
  <2>1. \A d \in Conns : idxOf[d] \in Int /\ idxOf[d] <= counter /\ counter \in Nat
    BY DEF EchoInv, EchoTypeOK, IndexInv
  <2>2. \A d \in Conns : idxOf'[d] <= counter' /\ idxOf'[d] # counter'
    BY SMTT(20), <1>2, <2>1
  <2> QED
    BY <1>2, <2>2 DEF EchoInv, IndexInv
<1>8. SockInv'
  BY <1>2, <1>3, <1>4 DEF EchoInv, SockInv
<1>9. EchoesToSender'
  <2>1. \A d \in Conns : Registered(d)' => Registered(d) \/ d = c
    BY SMTT(20), <1>4 DEF Registered
  <2> QED
    BY Zenon, <1>2, <1>3, <2>1 DEF EchoInv, EchoesToSender
<1> QED
  BY SMTT(20), <1>5, <1>6, <1>7, <1>8, <1>9 DEF EchoInv

\* A Delete takes out the index of the address it names.
LEMMA DeleteInv ==
  ASSUME NoConn \notin Conns, EchoInv, Delete
  PROVE  EchoInv'
<1> DEFINE h == Head(chan)
           a == addr[h]
           x == idxMap[a]
<1>1. /\ h \in Conns /\ h = chan[1] /\ 1 \in 1 .. Len(chan)
      /\ chan' \in Seq(Conns)
      /\ \A j \in 1 .. Len(chan') : j + 1 \in 1 .. Len(chan) /\ chan'[j] = chan[j + 1]
  BY DEF Delete, EchoInv, EchoTypeOK
<1>2. tcp[h] = "closed" /\ a \in Addrs
  BY SMTT(20), <1>1 DEF EchoInv, EchoTypeOK, SockInv
<1>3. /\ addr' = addr /\ tcp' = tcp /\ backlog' = backlog /\ idxOf' = idxOf
      /\ main' = main /\ counter' = counter /\ echoed' = echoed /\ main = Waiting
      /\ idxMap' = [idxMap EXCEPT ![a] = None]
      /\ sockMap' = IF x \in DOMAIN sockMap THEN [sockMap EXCEPT ![x] = NoConn] ELSE sockMap
      /\ unindexed' = (unindexed \/ (x # None /\ x # idxOf[h]))
  BY DEF Delete
<1> HIDE DEF h, a, x
<1>4. /\ DOMAIN sockMap = 0 .. SockMax - 1 /\ DOMAIN sockMap' = 0 .. SockMax - 1
      /\ \A i \in 0 .. SockMax - 1 : sockMap'[i] = NoConn \/ sockMap'[i] = sockMap[i]
  BY <1>3 DEF EchoInv, EchoTypeOK
<1>5. EchoTypeOK'
  <2>1. sockMap' \in [0 .. SockMax - 1 -> Conns \cup {NoConn}]
    BY <1>3 DEF EchoInv, EchoTypeOK
  <2>2. idxMap' \in [Addrs -> Int]
    <3>1. None \in Int /\ idxMap \in [Addrs -> Int] /\ idxMap' = [idxMap EXCEPT ![a] = None]
      BY SMTT(20), <1>3 DEF EchoInv, EchoTypeOK, None
    <3> QED
      BY Zenon, <3>1
  <2> QED
    BY Zenon, <1>1, <1>3, <2>1, <2>2 DEF EchoInv, EchoTypeOK
<1>6. BacklogInv'
  BY SMTT(20), <1>3 DEF EchoInv, BacklogInv
<1>7. \A b \in Addrs : idxMap'[b] = None \/ idxMap'[b] = idxMap[b]
  BY SMTT(20), <1>3 DEF EchoInv, EchoTypeOK
<1>8. IndexInv'
  BY <1>3, <1>7 DEF EchoInv, IndexInv
<1>9. SockInv'
  <2>1. \A j \in 1 .. Len(chan') : tcp'[chan'[j]] = "closed"
    BY SMTT(20), <1>1, <1>3 DEF EchoInv, SockInv
  <2> QED
    BY ZenonT(30), <1>3, <1>4, <2>1 DEF EchoInv, SockInv
<1>10. EchoesToSender'
  <2>1. ASSUME NEW d \in Conns, Registered(d)', ~unindexed'
        PROVE  idxMap'[addr'[d]] = idxOf'[d]
    <3>1. PICK i \in 0 .. SockMax - 1 : sockMap[i] = d
      BY SMTT(20), <1>4, <2>1 DEF Registered
    <3>2. d # NoConn /\ idxOf[d] = i /\ i # None /\ tcp[d] # "closed"
      BY <3>1 DEF EchoInv, SockInv, None
    <3>3. idxMap[addr[d]] = idxOf[d]
      BY Zenon, <1>3, <1>4, <2>1, <3>1 DEF EchoInv, EchoesToSender, Registered
    <3>4. addr[d] # a
      <4> SUFFICES ASSUME addr[d] = a PROVE FALSE
        OBVIOUS
      <4>1. x = idxOf[d] /\ x # None
        BY <3>2, <3>3 DEF x
      <4>2. idxOf[h] = idxOf[d]
        BY Zenon, <1>3, <2>1, <4>1
      <4>3. h = d
        BY <1>1, <3>2, <4>2 DEF EchoInv, IndexInv
      <4> QED
        BY <1>2, <3>2, <4>3
    <3> QED
      BY <1>3, <3>3, <3>4 DEF EchoInv, EchoTypeOK
  <2> QED
    BY Zenon, <1>3, <2>1 DEF EchoInv, EchoesToSender
<1> QED
  BY <1>5, <1>6, <1>8, <1>9, <1>10 DEF EchoInv

\* For any number of connections, addresses and entries of the sockmap, what a
\* client sends is echoed to that client and to no other, and a socket in the
\* sockmap has its index in idx_map unless that was full or a Delete met a later
\* connection.
THEOREM EchoCorrect ==
  ASSUME NoConn \notin Conns
  PROVE  EchoSpec => []EchoesToSender
<1>1. EchoInit => EchoInv
  <2> SUFFICES ASSUME EchoInit PROVE EchoInv
    OBVIOUS
  <2>1. EchoTypeOK
    BY DEF EchoInit, EchoTypeOK, None
  <2>2. BacklogInv
    BY DEF EchoInit, BacklogInv
  <2>3. IndexInv
    BY DEF EchoInit, IndexInv, None
  <2>4. SockInv
    BY DEF EchoInit, SockInv, Living
  <2>5. EchoesToSender
    BY DEF EchoInit, EchoesToSender, Registered
  <2> QED
    BY <2>1, <2>2, <2>3, <2>4, <2>5 DEF EchoInv
<1>2. EchoInv /\ [EchoNext]_echoVars => EchoInv'
  <2> SUFFICES ASSUME EchoInv, [EchoNext]_echoVars PROVE EchoInv'
    OBVIOUS
  <2>1. ASSUME NEW c \in Conns, Connect(c) \/ Packet(c)
        PROVE  EchoInv'
    BY <2>1, ConnectInv, PacketInv
  <2>2. ASSUME NEW c \in Conns, HalfClose(c) \/ Reset(c) \/ ReadToEnd(c) \/ TaskPanics(c) \/ SendDelete(c)
        PROVE  EchoInv'
    BY <2>2, ClientInv
  <2>3. CASE Accept \/ SockmapSet \/ Delete
    BY <2>3, AcceptInv, SockmapSetInv, DeleteInv
  <2>4. CASE UNCHANGED echoVars
    <3>1. Ends
      BY <2>4 DEF echoVars, Ends, Living, EchoInv, EchoTypeOK, SockInv, EchoesToSender
    <3> QED
      BY SMTT(20), <3>1, EndsInv
  <2> QED
    BY <2>1, <2>2, <2>3, <2>4 DEF EchoNext
<1>3. EchoInv => EchoesToSender
  BY DEF EchoInv
<1> QED
  BY <1>1, <1>2, <1>3, PTL DEF EchoSpec
=============================================================================
