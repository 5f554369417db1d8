----------------------------- MODULE MCNetwork ------------------------------
(* The programs on the path of a packet: the knock tool on two CPUs,        *)
(* with a sequence of two ports and up to four packets (Knock), buffers and *)
(* the events taken from them (XdpEvent), the parser of the p0f example     *)
(* (P0f), and the echo example (Echo).  A behaviour is one of the part it   *)
(* begins with, the others rest.                                            *)
EXTENDS Knock, XdpEvent, P0f, Echo, TLC

VARIABLE part

MCCPUs == {1, 2}
MCSeq == <<11, 12>>

-----------------------------------------------------------------------------
(* Packets that end before, at and after the end of each header             *)
EventPackets ==
  [start : {100}, end : {113, 114, 134, 142, 143, 154, 155, 160}, isIp : BOOLEAN,
   ihl : {0, 5, 6, 15}, proto : {"TCP", "UDP", "ICMP"}, doff : {0, 5, 6, 15}]

MCTypes ==
  {[size |-> 0, align |-> 1], [size |-> 1, align |-> 1], [size |-> 6, align |-> 2],
   [size |-> 4, align |-> 4], [size |-> 8, align |-> 8], [size |-> 16, align |-> 16]}

(* Packets that end anywhere in and after the options of TCP                *)
P0fPackets ==
  [start : {100}, end : 140 .. 180, isIp : {TRUE}, ihl : {4, 5, 6}, proto : {"TCP"}, doff : 4 .. 8]

MCPackets == EventPackets \cup P0fPackets

-----------------------------------------------------------------------------
RestPacket == CHOOSE p \in P0fPackets : TRUE
RestEvent == CHOOSE p \in EventPackets : TRUE

RestAddr == CHOOSE a \in [Conns -> Addrs] : TRUE

\* Connections are interchangeable, and so are addresses: one assignment stands
\* for all in which as many connections share an address.
Alike(a, b) ==
  \E p \in Permutations(Conns) : \A c, d \in Conns : a[c] = a[d] <=> b[p[c]] = b[p[d]]

MCInit ==
  /\ part \in {"knock", "event", "p0f", "echo"}
  /\ pkt \in IF part = "event" THEN EventPackets ELSE {RestEvent}
  /\ syn \in IF part = "p0f" THEN P0fPackets ELSE {RestPacket}
  /\ part = "echo" \/ addr = RestAddr
  /\ Init /\ EventInit /\ P0fInit /\ EchoInit
  /\ part = "echo" => addr = CHOOSE a \in [Conns -> Addrs] : Alike(a, addr)

MCNext ==
  \/ part = "knock" /\ Next /\ UNCHANGED <<part, eventVars, p0fVars, echoVars>>
  \/ part = "event" /\ EventNext /\ UNCHANGED <<part, vars, p0fVars, echoVars>>
  \/ part = "p0f" /\ P0fNext /\ UNCHANGED <<part, vars, eventVars, echoVars>>
  \/ part = "echo" /\ EchoNext /\ UNCHANGED <<part, vars, eventVars, p0fVars>>

MCSpec == MCInit /\ [][MCNext]_<<part, vars, eventVars, p0fVars, echoVars>>
=============================================================================
