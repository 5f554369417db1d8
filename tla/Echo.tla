------------------------------- MODULE Echo --------------------------------
(***************************************************************************)
(* The echo example: the server of                                         *)
(* examples/example-userspace/examples/echo.rs, which registers every      *)
(* accepted socket in a SockMap and forgets it when the client closes, and *)
(* the stream verdict program of examples/example-probes/src/echo/main.rs, *)
(* which redirects what a client sends to the socket of its address.       *)
(*                                                                         *)
(* The server's main loop and the tasks of its connections interleave at   *)
(* their awaits; clients connect, send, close and reset at any time, and   *)
(* packets are handled by the kernel between any two system calls.         *)
(***************************************************************************)
EXTENDS Integers, Sequences, FiniteSets

CONSTANTS
  Conns,      \* the connections
  Addrs,      \* the addresses of clients (ip and port)
  SockMax,    \* max_entries of the sockmap
  IdxMax      \* max_entries of idx_map

None == -1
NoConn == "no connection"

VARIABLES
  addr,     \* per connection: the client's address
  tcp,      \* per connection: "new", "pending" (in the backlog), "open",
            \* "half" (closed by the client), "reset", "closed"
  backlog,  \* the connections not accepted yet, in order
  task,     \* per connection: "none", "read", "send", "gone"
  idxOf,    \* per connection: the counter it was registered with (history)
  main,     \* the main loop's place and connection
  counter,  \* the variable counter
  idxMap,   \* idx_map: address to index, or None
  sockMap,  \* echo_sockmap: index to socket
  chan,     \* the commands in the channel: the keys to delete
  echoed,   \* the pairs of connections: a packet from one was sent to the other
  unindexed \* a Delete met an entry of another connection, or idx_map was full (history)

echoVars == <<addr, tcp, backlog, task, idxOf, main, counter, idxMap, sockMap, chan, echoed, unindexed>>

Waiting == [pc |-> "select"]

EchoInit ==
  /\ addr \in [Conns -> Addrs]
  /\ tcp = [c \in Conns |-> "new"]
  /\ backlog = <<>>
  /\ task = [c \in Conns |-> "none"]
  /\ idxOf = [c \in Conns |-> None]
  /\ main = Waiting /\ counter = 0
  /\ idxMap = [a \in Addrs |-> None]
  /\ sockMap = [i \in 0 .. SockMax - 1 |-> NoConn]
  /\ chan = <<>> /\ echoed = {} /\ unindexed = FALSE

-----------------------------------------------------------------------------
(* The clients and the kernel (external)                                   *)

serverVars == <<addr, idxOf, main, counter, idxMap, chan, unindexed>>

\* An address is used again when its connection is closed or reset.
Connect(c) ==
  /\ tcp[c] = "new"
  /\ \A d \in Conns : addr[d] = addr[c] => tcp[d] \in {"new", "reset", "closed"}
  /\ tcp' = [tcp EXCEPT ![c] = "pending"]
  /\ backlog' = Append(backlog, c)
  /\ UNCHANGED <<task, sockMap, echoed>> /\ UNCHANGED serverVars

\* A closed socket leaves the sockmap.
Unhash(c) == sockMap' = [i \in DOMAIN sockMap |-> IF sockMap[i] = c THEN NoConn ELSE sockMap[i]]

HalfClose(c) ==
  /\ tcp[c] \in {"pending", "open"}
  /\ tcp' = [tcp EXCEPT ![c] = "half"]
  /\ UNCHANGED <<backlog, task, sockMap, echoed>> /\ UNCHANGED serverVars

Reset(c) ==
  /\ tcp[c] \in {"pending", "open", "half"}
  /\ tcp' = [tcp EXCEPT ![c] = "reset"]
  /\ Unhash(c)
  /\ UNCHANGED <<task, backlog, echoed>> /\ UNCHANGED serverVars

-----------------------------------------------------------------------------
(* example-probes/src/echo/main.rs                                         *)

\* The socket a packet of connection c is redirected to, if any: without an
\* entry in IDX_MAP, or without a socket at that index, the packet is dropped.
Verdict(c) ==
  {sockMap[i] : i \in {idxMap[addr[c]]} \cap DOMAIN sockMap} \ {NoConn}

\* The program runs for the sockets that are in the sockmap.
Packet(c) ==
  /\ tcp[c] = "open" /\ \E i \in DOMAIN sockMap : sockMap[i] = c
  /\ echoed' = echoed \cup {<<c, d>> : d \in Verdict(c)}
  /\ UNCHANGED <<tcp, backlog, task, sockMap>> /\ UNCHANGED serverVars

-----------------------------------------------------------------------------
(* example-userspace/examples/echo.rs                                      *)

\* An entry is replaced, or there is room for another one.
HasRoom(a) == idxMap[a] # None \/ Cardinality({b \in Addrs : idxMap[b] # None}) < IdxMax

\* Mutant: the index of the next connection is stored.
AcceptNextIndex ==
  /\ main = Waiting /\ backlog # <<>>
  /\ LET c == Head(backlog)
     IN  /\ tcp' = [tcp EXCEPT ![c] = IF @ = "pending" THEN "open" ELSE @]
         /\ idxMap' = IF HasRoom(addr[c]) THEN [idxMap EXCEPT ![addr[c]] = counter + 1] ELSE idxMap
         /\ unindexed' = (unindexed \/ ~HasRoom(addr[c]))
         /\ idxOf' = [idxOf EXCEPT ![c] = counter]
         /\ main' = [pc |-> "sockmap", conn |-> c]
  /\ backlog' = Tail(backlog)
  /\ UNCHANGED <<addr, task, counter, sockMap, chan, echoed>>

\* listener.accept() and idx_map.set(key, counter), which adds no entry to a map
\* that is full, and says nothing
Accept ==
  /\ main = Waiting /\ backlog # <<>>
  /\ LET c == Head(backlog)
     IN  /\ tcp' = [tcp EXCEPT ![c] = IF @ = "pending" THEN "open" ELSE @]
         /\ idxMap' = IF HasRoom(addr[c]) THEN [idxMap EXCEPT ![addr[c]] = counter] ELSE idxMap
         /\ unindexed' = (unindexed \/ ~HasRoom(addr[c]))
         /\ idxOf' = [idxOf EXCEPT ![c] = counter]
         /\ main' = [pc |-> "sockmap", conn |-> c]
  /\ backlog' = Tail(backlog)
  /\ UNCHANGED <<addr, task, counter, sockMap, chan, echoed>>

\* echo_sockmap.set(counter, fd), which fails for a socket that is half closed
\* and for an index out of bounds; counter += 1; the task is spawned.
SockmapSet ==
  /\ main.pc = "sockmap"
  /\ sockMap' = IF counter \in DOMAIN sockMap /\ tcp[main.conn] = "open"
                THEN [sockMap EXCEPT ![counter] = main.conn] ELSE sockMap
  /\ counter' = counter + 1
  /\ task' = [task EXCEPT ![main.conn] = "read"]
  /\ main' = Waiting
  /\ UNCHANGED <<addr, tcp, backlog, idxOf, idxMap, chan, echoed, unindexed>>

\* read_to_end returns when the client has closed; what was read is written.
ReadToEnd(c) ==
  /\ task[c] = "read" /\ tcp[c] = "half"
  /\ task' = [task EXCEPT ![c] = "send"]
  /\ UNCHANGED <<tcp, backlog, sockMap, echoed>> /\ UNCHANGED serverVars

\* A reset makes an unwrap panic: the task ends without a Delete.
TaskPanics(c) ==
  /\ task[c] = "read" /\ tcp[c] = "reset"
  /\ task' = [task EXCEPT ![c] = "gone"]
  /\ tcp' = [tcp EXCEPT ![c] = "closed"]
  /\ UNCHANGED <<backlog, sockMap, echoed>> /\ UNCHANGED serverVars

\* tx.send(Command::Delete), and the stream is dropped.
SendDelete(c) ==
  /\ task[c] = "send"
  /\ chan' = Append(chan, c)
  /\ task' = [task EXCEPT ![c] = "gone"]
  /\ tcp' = [tcp EXCEPT ![c] = "closed"]
  /\ Unhash(c)
  /\ UNCHANGED <<addr, backlog, idxOf, main, counter, idxMap, echoed, unindexed>>

\* rx.recv(): the entry of the key is deleted, if there is one.
Delete ==
  /\ main = Waiting /\ chan # <<>>
  /\ LET a == addr[Head(chan)]
         i == idxMap[a]
     IN  /\ idxMap' = [idxMap EXCEPT ![a] = None]
         /\ sockMap' = IF i \in DOMAIN sockMap THEN [sockMap EXCEPT ![i] = NoConn] ELSE sockMap
         /\ unindexed' = (unindexed \/ (i # None /\ i # idxOf[Head(chan)]))
  /\ chan' = Tail(chan)
  /\ UNCHANGED <<addr, tcp, backlog, task, idxOf, main, counter, echoed>>

EchoNext ==
  \/ \E c \in Conns : \/ Connect(c) \/ HalfClose(c) \/ Reset(c) \/ Packet(c)
                      \/ ReadToEnd(c) \/ TaskPanics(c) \/ SendDelete(c)
  \/ Accept \/ SockmapSet \/ Delete

EchoSpec == EchoInit /\ [][EchoNext]_echoVars

-----------------------------------------------------------------------------
Registered(c) == \E i \in DOMAIN sockMap : sockMap[i] = c

\* "echo data from tcp client using SOCKMAP": what a client sends goes back to
\* that client and to no other, whatever entries of earlier clients are left.
\* A socket in the sockmap has its index in idx_map, so that nothing it
\* receives is dropped, unless the Delete of a connection was handled after the
\* next one from the same address had been accepted, or idx_map was full.
EchoesToSender ==
  /\ \A p \in echoed : p[1] = p[2]
  /\ ~unindexed => \A c \in Conns : Registered(c) => idxMap[addr[c]] = idxOf[c]
=============================================================================
