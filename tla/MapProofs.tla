------------------------------ MODULE MapProofs ------------------------------
(***************************************************************************)
(* Proofs about maps and about probes that keep something in one, for any  *)
(* processes, threads, keys, requests and sizes.                           *)
(*                                                                         *)
(* PinFileTrue is not inductive: from_pin_file records the path only after *)
(* the second of its two system calls, and what the first one found must   *)
(* still be there then, or the file must be known as removed.  IInv says   *)
(* so of the calls in progress.                                            *)
(*                                                                         *)
(* StableReturned needs to know where the iterator stands (Standing), and  *)
(* that a stable key that it has passed was returned, until the key it     *)
(* stands on is deleted under it or moved (Behind).                        *)
(*                                                                         *)
(* ParmsOriginal speaks of what a return probe has read; ThreadInv speaks  *)
(* of the return that comes next: the entry of a thread that runs alone    *)
(* under its id holds the parameters of the innermost call that the return *)
(* probe will see (Matches), and the calls it will see are the youngest    *)
(* ones (Layers).                                                          *)
(*                                                                         *)
(* IotopNeverOvercounts bounds what is counted and shown; TopInv also what *)
(* a probe has read and not stored yet (Counting), and that no element has *)
(* two uses (Distinct).  Pairs is why it takes three CPUs for a pointer to *)
(* become one to the element of another process.                           *)
(***************************************************************************)
EXTENDS MapPin, MapIter, RetProbe, Iotop, TLAPS

-----------------------------------------------------------------------------
(* Map::pin, from_pin_file, unpin: MapPin                                  *)

Calls == {Idle} \cup [op : {"pin"}, slot : Slots, path : Paths]
           \cup [op : {"get"}, slot : Slots, path : Paths, map : Maps]

Types ==
  /\ fs \in [Paths -> Maps \cup {NoMap}]
  /\ fd \in [Refs -> Maps \cup {NoMap}]
  /\ pinFile \in [Refs -> Paths \cup {NoPath}]
  /\ call \in [Procs -> Calls]
  /\ created \in 0 .. MaxMaps
  /\ stale \subseteq Refs

\* A path is remembered only for a map that is held.
Remembered == \A r \in Refs : pinFile[r] # NoPath => fd[r] # NoMap

\* pin is called on a map that is held and has no path.
PinCalls ==
  \A p \in Procs : call[p].op = "pin" =>
    fd[<<p, call[p].slot>>] # NoMap /\ pinFile[<<p, call[p].slot>>] = NoPath

\* The file from_pin_file has opened still holds the map it got, unless it was
\* removed since.
GetCalls ==
  \A p \in Procs : call[p].op = "get" =>
    /\ fd[<<p, call[p].slot>>] = NoMap
    /\ <<p, call[p].slot>> \notin stale => fs[call[p].path] = call[p].map

IInv == Types /\ Remembered /\ PinCalls /\ GetCalls /\ PinFileTrue

\* A call that is neither pin nor get is Idle, and the fields have their types.
LEMMA CallCases ==
  ASSUME NEW c \in Calls
  PROVE  /\ c.op \in {"idle", "pin", "get"}
         /\ c.op = "idle" <=> c = Idle
         /\ c.op = "pin" => c \in [op : {"pin"}, slot : Slots, path : Paths]
         /\ c.op = "get" => c \in [op : {"get"}, slot : Slots, path : Paths, map : Maps]
  BY DEF Calls, Idle

\* Fields of calls that pin or get.
LEMMA CallFields ==
  ASSUME NEW c \in Calls, c.op \in {"pin", "get"}
  PROVE  /\ c # Idle /\ c.slot \in Slots /\ c.path \in Paths
         /\ c.op = "get" => c.map \in Maps
  BY CallCases, Zenon DEF Idle

\* The states the program starts in.
LEMMA InitIInv == Init => IInv
<1> SUFFICES ASSUME Init PROVE IInv BY Zenon
<1>1. Types BY PinAssumption DEF Init, Types, Calls, Maps, NoMap
<1>2. Remembered /\ PinFileTrue BY Zenon DEF Init, Remembered, PinFileTrue
<1>3. \A p \in Procs : call[p].op = "idle" BY Zenon DEF Init, Idle
<1>4. PinCalls /\ GetCalls BY <1>3, Zenon DEF PinCalls, GetCalls
<1> QED BY <1>1, <1>2, <1>4, Zenon DEF IInv

\* Creating a map touches one Map value, which has no path yet.
LEMMA CreateIInv ==
  ASSUME IInv, NEW p \in Procs, NEW s \in Slots, Create(p, s)
  PROVE  IInv'
<1> USE DEF IInv
<1>1. created + 1 \in Maps /\ created + 1 # NoMap /\ created' \in 0 .. MaxMaps
  BY PinAssumption DEF Types, Create, Maps, NoMap
<1>2. pinFile[<<p, s>>] = NoPath BY Zenon DEF Remembered, Create, Refs
<1>3. Types' BY <1>1, Zenon DEF Types, Create, Refs
<1>4. Remembered' BY <1>1, <1>2, Zenon DEF Types, Remembered, Create, Refs
<1>5. PinFileTrue' BY <1>2, Zenon DEF Types, PinFileTrue, Create, Refs
<1>6. PinCalls'
  <2> SUFFICES ASSUME NEW q \in Procs, call[q].op = "pin"
               PROVE  fd'[<<q, call[q].slot>>] # NoMap /\ pinFile[<<q, call[q].slot>>] = NoPath
    BY Zenon DEF PinCalls, Create
  <2>1. <<q, call[q].slot>> \in Refs BY CallFields, Zenon DEF Types, Refs
  <2> QED BY <2>1, <1>1, Zenon DEF PinCalls, Create, Types
<1>7. GetCalls'
  <2> SUFFICES ASSUME NEW q \in Procs, call[q].op = "get"
               PROVE  fd'[<<q, call[q].slot>>] = NoMap
    BY Zenon DEF GetCalls, Create
  <2>1. <<q, call[q].slot>> \in Refs BY CallFields, Zenon DEF Types, Refs
  <2>2. q # p BY DEF Create, Idle
  <2> QED BY <2>1, <2>2, Zenon DEF GetCalls, Create, Types
<1> QED BY <1>3, <1>4, <1>5, <1>6, <1>7, Zenon

\* pin up to the call of bpf_obj_pin changes nothing but the call.
LEMMA PinIInv ==
  ASSUME IInv, NEW p \in Procs, NEW s \in Slots, NEW f \in Paths, Pin(p, s, f)
  PROVE  IInv'
<1> USE DEF IInv
<1> DEFINE c == [op |-> "pin", slot |-> s, path |-> f]
<1>1. c \in Calls BY Zenon DEF Calls
<1>2. Types' BY <1>1, Zenon DEF Types, Pin
<1>3. Remembered' /\ PinFileTrue' BY Zenon DEF Remembered, PinFileTrue, Pin
<1>4. PinCalls' BY Zenon DEF PinCalls, Pin, Types
<1>5. GetCalls' BY Zenon DEF GetCalls, Pin, Types
<1> QED BY <1>2, <1>3, <1>4, <1>5, Zenon

\* bpf_obj_pin makes a file where there is none: no path that is remembered
\* and not stale leads there, and no call has opened it.
LEMMA ObjPinIInv ==
  ASSUME IInv, NEW p \in Procs, ObjPin(p)
  PROVE  IInv'
<1> USE DEF IInv
<1> DEFINE r == <<p, call[p].slot>>
           f == call[p].path
<1>1. call[p] \in Calls /\ call[p].op = "pin" BY Zenon DEF Types, ObjPin
<1>2. r \in Refs /\ f \in Paths BY <1>1, CallFields, Zenon DEF Refs
<1>3. fd[r] \in Maps /\ fd[r] # NoMap /\ pinFile[r] = NoPath
  BY <1>1, <1>2, Zenon DEF Types, PinCalls
<1>4. call' = [call EXCEPT ![p] = Idle] /\ fd' = fd /\ created' = created
  BY Zenon DEF ObjPin
<1>5. Idle \in Calls /\ Idle.op = "idle" BY Zenon DEF Calls, Idle
<1>6. call' \in [Procs -> Calls] BY <1>4, <1>5, Zenon DEF Types
<1>7. \A q \in Procs : call'[q].op # "idle" => q # p /\ call'[q] = call[q]
  BY <1>4, <1>5, Zenon DEF Types
<1>8. CASE UNCHANGED <<fs, pinFile, stale>>
  <2>1. Types' BY <1>4, <1>6, <1>8, Zenon DEF Types
  <2>2. Remembered' /\ PinFileTrue' BY <1>4, <1>8, Zenon DEF Remembered, PinFileTrue
  <2>3. PinCalls' BY <1>4, <1>7, <1>8, Zenon DEF PinCalls
  <2>4. GetCalls' BY <1>4, <1>7, <1>8 DEF GetCalls
  <2> QED BY <2>1, <2>2, <2>3, <2>4, Zenon
<1>9. CASE /\ fs[f] = NoMap
           /\ fs' = [fs EXCEPT ![f] = fd[r]]
           /\ pinFile' = [pinFile EXCEPT ![r] = f]
           /\ stale' = stale \ {r}
  <2> HIDE DEF r, f
  <2>1. Types' BY <1>2, <1>3, <1>4, <1>6, <1>9, Zenon DEF Types
  <2>2. Remembered' BY <1>2, <1>3, <1>4, <1>9, Zenon DEF Types, Remembered
  <2>3. PinFileTrue'
    <3> SUFFICES ASSUME NEW t \in Refs, pinFile'[t] # NoPath, t \notin stale'
                 PROVE  fs'[pinFile'[t]] = fd[t]
      BY <1>4, Zenon DEF PinFileTrue
    <3>1. CASE t = r BY <1>2, <1>9, <3>1, Zenon DEF Types
    <3>2. CASE t # r
      <4>1. pinFile'[t] = pinFile[t] /\ t \notin stale BY <1>9, <3>2, Zenon DEF Types
      <4>2. pinFile[t] \in Paths BY <4>1, Zenon DEF Types
      <4>3. fs[pinFile[t]] = fd[t] /\ fd[t] # NoMap BY <4>1, Zenon DEF PinFileTrue, Remembered
      <4>4. pinFile[t] # f BY <4>3, <1>9, Zenon
      <4> QED BY <4>1, <4>2, <4>3, <4>4, <1>9, Zenon DEF Types
    <3> QED BY <3>1, <3>2, Zenon
  <2>4. PinCalls'
    <3> SUFFICES ASSUME NEW q \in Procs, call'[q].op = "pin"
                 PROVE  /\ fd[<<q, call'[q].slot>>] # NoMap
                        /\ pinFile'[<<q, call'[q].slot>>] = NoPath
      BY <1>4, Zenon DEF PinCalls
    <3>1. q # p /\ call'[q] = call[q] BY <1>7, Zenon
    <3>2. <<q, call[q].slot>> \in Refs BY <3>1, CallFields, Zenon DEF Types, Refs
    <3>3. <<q, call[q].slot>> # r BY <3>1, Zenon DEF r
    <3> QED BY <3>1, <3>2, <3>3, <1>9, Zenon DEF PinCalls, Types
  <2>5. GetCalls'
    <3> SUFFICES ASSUME NEW q \in Procs, call'[q].op = "get"
                 PROVE  /\ fd[<<q, call'[q].slot>>] = NoMap
                        /\ <<q, call'[q].slot>> \notin stale' => fs'[call'[q].path] = call'[q].map
      BY <1>4, Zenon DEF GetCalls
    <3>1. q # p /\ call'[q] = call[q] BY <1>7, Zenon
    <3>2. call[q].path \in Paths /\ call[q].map \in Maps BY <3>1, CallFields, Zenon DEF Types
    <3>3. <<q, call[q].slot>> # r BY <3>1, Zenon DEF r
    <3>4. fd[<<q, call[q].slot>>] = NoMap BY <3>1, Zenon DEF GetCalls
    <3>5. ASSUME <<q, call[q].slot>> \notin stale' PROVE fs'[call[q].path] = call[q].map
      <4>1. fs[call[q].path] = call[q].map BY <3>1, <3>3, <3>5, <1>9, Zenon DEF GetCalls
      <4>2. call[q].map # NoMap BY <3>2 DEF Maps, NoMap
      <4> QED BY <4>1, <4>2, <3>2, <1>9, Zenon DEF Types
    <3> QED BY <3>1, <3>4, <3>5, Zenon
  <2> QED BY <2>1, <2>2, <2>3, <2>4, <2>5, Zenon
<1> QED BY <1>8, <1>9, Zenon DEF ObjPin

\* bpf_obj_get remembers, in the call, the map that is there now.
LEMMA ObjGetIInv ==
  ASSUME IInv, NEW p \in Procs, NEW s \in Slots, NEW f \in Paths, ObjGet(p, s, f)
  PROVE  IInv'
<1> USE DEF IInv
<1> DEFINE r == <<p, s>>
           c == [op |-> "get", slot |-> s, path |-> f, map |-> fs[f]]
<1>1. fs[f] \in Maps BY Zenon DEF Types, ObjGet
<1>2. c \in Calls BY <1>1, Zenon DEF Calls
<1>3. r \in Refs BY Zenon DEF Refs
<1>4. /\ call' = [call EXCEPT ![p] = c] /\ stale' = stale \ {r} /\ fd[r] = NoMap
      /\ fs' = fs /\ fd' = fd /\ pinFile' = pinFile /\ created' = created
  BY Zenon DEF ObjGet
<1>5. c.op = "get" /\ c.slot = s /\ c.path = f /\ c.map = fs[f] BY Zenon
<1> HIDE DEF c
<1>6. Types' BY <1>2, <1>4, Zenon DEF Types
<1>7. Remembered' BY <1>4, Zenon DEF Remembered
<1>8. pinFile[r] = NoPath BY <1>3, <1>4, Zenon DEF Remembered
<1>9. PinFileTrue'
  <2> HIDE DEF r
  <2> QED BY <1>4, <1>8, Zenon DEF PinFileTrue
<1>10. PinCalls' BY <1>4, <1>5, Zenon DEF PinCalls, Types
<1>11. GetCalls'
  <2> SUFFICES ASSUME NEW q \in Procs, call'[q].op = "get"
               PROVE  /\ fd[<<q, call'[q].slot>>] = NoMap
                      /\ <<q, call'[q].slot>> \notin stale' => fs[call'[q].path] = call'[q].map
    BY <1>4, Zenon DEF GetCalls
  <2>1. CASE q = p BY <1>4, <1>5, <2>1, Zenon DEF Types
  <2>2. CASE q # p
    <3>1. call'[q] = call[q] BY <1>4, <2>2, Zenon DEF Types
    <3>2. <<q, call[q].slot>> # r BY <2>2, Zenon
    <3> HIDE DEF r
    <3> QED BY <1>4, <3>1, <3>2 DEF GetCalls
  <2> QED BY <2>1, <2>2, Zenon
<1> QED BY <1>6, <1>7, <1>9, <1>10, <1>11, Zenon

\* The second call of from_pin_file: the path is recorded with the map.
LEMMA ObjInfoIInv ==
  ASSUME IInv, NEW p \in Procs, ObjInfo(p)
  PROVE  IInv'
<1> USE DEF IInv
<1> DEFINE r == <<p, call[p].slot>>
           f == call[p].path
           m == call[p].map
<1>1. call[p] \in Calls /\ call[p].op = "get" BY Zenon DEF Types, ObjInfo
<1>2. r \in Refs /\ f \in Paths /\ m \in Maps BY <1>1, CallFields, Zenon DEF Refs
<1>3. fd[r] = NoMap /\ (r \notin stale => fs[f] = m) BY <1>1, Zenon DEF GetCalls
<1>4. /\ call' = [call EXCEPT ![p] = Idle] /\ fs' = fs /\ created' = created
      /\ stale' = stale
  BY Zenon DEF ObjInfo
<1>5. Idle \in Calls /\ Idle.op = "idle" BY Zenon DEF Calls, Idle
<1>6. call' \in [Procs -> Calls] BY <1>4, <1>5, Zenon DEF Types
<1>7. \A q \in Procs : call'[q].op # "idle" => q # p /\ call'[q] = call[q]
  BY <1>4, <1>5, Zenon DEF Types
<1>8. CASE UNCHANGED <<fd, pinFile>>
  <2>1. Types' BY <1>4, <1>6, <1>8, Zenon DEF Types
  <2>2. Remembered' /\ PinFileTrue' BY <1>4, <1>8, Zenon DEF Remembered, PinFileTrue
  <2>3. PinCalls' BY <1>4, <1>7, <1>8, Zenon DEF PinCalls
  <2>4. GetCalls' BY <1>4, <1>7, <1>8 DEF GetCalls
  <2> QED BY <2>1, <2>2, <2>3, <2>4, Zenon
<1>9. CASE /\ fd' = [fd EXCEPT ![r] = m]
           /\ pinFile' = [pinFile EXCEPT ![r] = f]
  <2>0. m # NoMap BY <1>2 DEF Maps, NoMap
  <2>00. \A q \in Procs : call'[q].op \in {"pin", "get"} =>
           /\ call'[q] = call[q] /\ <<q, call[q].slot>> \in Refs /\ <<q, call[q].slot>> # r
    BY <1>7, CallFields, Zenon DEF Types, Refs
  <2> HIDE DEF r, f, m
  <2>1. Types' BY <1>2, <1>4, <1>6, <1>9, Zenon DEF Types
  <2>2. Remembered' BY <1>2, <2>0, <1>9, Zenon DEF Types, Remembered
  <2>3. PinFileTrue' BY <1>2, <1>3, <1>4, <1>9, Zenon DEF Types, PinFileTrue
  <2>4. PinCalls' BY Zenon, <2>00, <1>9 DEF PinCalls, Types
  <2>5. GetCalls' BY ZenonT(30), <2>00, <1>4, <1>9 DEF GetCalls, Types
  <2> QED BY <2>1, <2>2, <2>3, <2>4, <2>5, Zenon
<1> QED BY <1>8, <1>9, Zenon DEF ObjInfo

\* unpin makes every other Map value that takes the file for its own stale.
LEMMA UnpinIInv ==
  ASSUME IInv, NEW p \in Procs, NEW s \in Slots, Unpin(p, s)
  PROVE  IInv'
<1> USE DEF IInv
<1> DEFINE r == <<p, s>>
           f == pinFile[r]
<1>1. r \in Refs /\ f \in Paths BY Zenon DEF Types, Unpin, Refs
<1>2. /\ fs' = [fs EXCEPT ![f] = NoMap]
      /\ pinFile' = [pinFile EXCEPT ![r] = NoPath]
      /\ stale' = (stale \cup Takers(f)) \ {r}
      /\ fd' = fd /\ call' = call /\ created' = created
  BY Zenon DEF Unpin
<1>3. Takers(f) \subseteq Refs BY Zenon DEF Takers
<1>4. Types' BY <1>1, <1>2, <1>3, Zenon DEF Types
<1>5. Remembered' BY <1>1, <1>2, Zenon DEF Remembered, Types
<1>6. PinFileTrue'
  <2> SUFFICES ASSUME NEW t \in Refs, pinFile'[t] # NoPath, t \notin stale'
               PROVE  fs'[pinFile'[t]] = fd[t]
    BY <1>2, Zenon DEF PinFileTrue
  <2>1. t # r /\ pinFile'[t] = pinFile[t] BY <1>1, <1>2, Zenon DEF Types
  <2>2. t \notin stale /\ t \notin Takers(f) BY <1>2, <2>1, Zenon
  <2>3. pinFile[t] # f BY <2>2, Zenon DEF Takers
  <2>4. pinFile[t] \in Paths BY <2>1, Zenon DEF Types
  <2>5. fs[pinFile[t]] = fd[t] BY <2>1, <2>2, Zenon DEF PinFileTrue
  <2> QED BY <1>2, <2>1, <2>3, <2>4, <2>5, Zenon DEF Types
<1>7. PinCalls' BY <1>1, <1>2 DEF PinCalls, Types
<1>8. GetCalls'
  <2> SUFFICES ASSUME NEW q \in Procs, call[q].op = "get", <<q, call[q].slot>> \notin stale'
               PROVE  fs'[call[q].path] = call[q].map
    BY <1>2, Zenon DEF GetCalls
  <2> DEFINE t == <<q, call[q].slot>>
  <2>1. t \in Refs /\ call[q].path \in Paths BY CallFields, Zenon DEF Types, Refs
  <2>2. fd[t] = NoMap BY Zenon DEF GetCalls
  <2>3. fd[r] # NoMap BY <1>1, Zenon DEF Remembered, Unpin
  <2>4. t # r BY <2>2, <2>3, Zenon
  <2>5. t \notin stale /\ t \notin Takers(f) BY <1>2, <2>4, Zenon
  <2>6. t[1] = q /\ t[2] = call[q].slot BY Zenon
  <2>7. call[q].path # f BY <2>1, <2>5, <2>6, Zenon DEF Takers
  <2>8. fs[call[q].path] = call[q].map BY <2>5, Zenon DEF GetCalls
  <2> QED BY <1>2, <2>1, <2>7, <2>8, Zenon DEF Types
<1> QED BY <1>4, <1>5, <1>6, <1>7, <1>8, Zenon

\* Dropping a Map forgets its map and its path together.
LEMMA DropMapIInv ==
  ASSUME IInv, NEW p \in Procs, NEW s \in Slots, DropMap(p, s)
  PROVE  IInv'
<1> USE DEF IInv
<1> DEFINE r == <<p, s>>
<1>1. r \in Refs BY Zenon DEF Refs
<1>2. /\ fd' = [fd EXCEPT ![r] = NoMap] /\ pinFile' = [pinFile EXCEPT ![r] = NoPath]
      /\ stale' = stale \ {r} /\ fs' = fs /\ call' = call /\ created' = created
      /\ fd[r] # NoMap
  BY Zenon DEF DropMap
<1>3. \A q \in Procs : call[q].op \in {"pin", "get"} =>
        <<q, call[q].slot>> \in Refs /\ <<q, call[q].slot>> # r
  BY CallFields, Zenon DEF Types, Refs, DropMap
<1> HIDE DEF r
<1>4. Types' BY <1>1, <1>2, Zenon DEF Types
<1>5. Remembered' /\ PinFileTrue' BY <1>1, <1>2, Zenon DEF Types, Remembered, PinFileTrue
<1>6. PinCalls' BY <1>2, <1>3, Zenon DEF Types, PinCalls
<1>7. GetCalls' BY <1>2, <1>3, Zenon DEF Types, GetCalls
<1> QED BY <1>4, <1>5, <1>6, <1>7, Zenon

\* A process that ends forgets all of its maps and its call.
LEMMA ExitIInv ==
  ASSUME IInv, NEW p \in Procs, Exit(p)
  PROVE  IInv'
<1> USE DEF IInv
<1>1. Idle \in Calls /\ Idle.op = "idle" BY Zenon DEF Calls, Idle
<1>2. Types' BY <1>1, Zenon DEF Types, Exit
<1>3. Remembered' BY Zenon DEF Types, Remembered, Exit
<1>4. PinFileTrue' BY Zenon DEF Types, PinFileTrue, Exit
<1>5. \A q \in Procs : call'[q].op \in {"pin", "get"} =>
        /\ q # p /\ call'[q] = call[q] /\ <<q, call[q].slot>> \in Refs
        /\ <<q, call[q].slot>>[1] = q
  BY <1>1, CallFields, Zenon DEF Types, Exit, Refs
<1>6. PinCalls'
  <2> SUFFICES ASSUME NEW q \in Procs, call'[q].op = "pin"
               PROVE  /\ fd'[<<q, call'[q].slot>>] # NoMap
                      /\ pinFile'[<<q, call'[q].slot>>] = NoPath
    BY Zenon DEF PinCalls
  <2> DEFINE t == <<q, call[q].slot>>
  <2>1. t \in Refs /\ t[1] # p /\ call'[q] = call[q] BY <1>5, Zenon
  <2>2. fd[t] # NoMap /\ pinFile[t] = NoPath BY <2>1, Zenon DEF PinCalls
  <2> HIDE DEF t
  <2>3. fd'[t] = fd[t] /\ pinFile'[t] = pinFile[t] BY <2>1, Zenon DEF Exit
  <2> QED BY <2>1, <2>2, <2>3, Zenon DEF t
<1>7. GetCalls'
  <2> SUFFICES ASSUME NEW q \in Procs, call'[q].op = "get"
               PROVE  /\ fd'[<<q, call'[q].slot>>] = NoMap
                      /\ <<q, call'[q].slot>> \notin stale' => fs[call'[q].path] = call'[q].map
    BY Zenon DEF GetCalls, Exit
  <2> DEFINE t == <<q, call[q].slot>>
  <2>1. t \in Refs /\ t[1] # p /\ call'[q] = call[q] BY <1>5, Zenon
  <2>2. fd[t] = NoMap /\ (t \notin stale => fs[call[q].path] = call[q].map)
    BY <2>1, Zenon DEF GetCalls
  <2> HIDE DEF t
  <2>3. fd'[t] = fd[t] /\ (t \in stale => t \in stale') BY <2>1, Zenon DEF Exit
  <2> QED BY <2>1, <2>2, <2>3, Zenon DEF t
<1> QED BY <1>2, <1>3, <1>4, <1>6, <1>7, Zenon

\* Every step keeps the invariant.
LEMMA NextIInv == IInv /\ [Next]_vars => IInv'
<1> SUFFICES ASSUME IInv, [Next]_vars PROVE IInv' BY Zenon
<1>1. CASE UNCHANGED vars
  BY <1>1, Zenon DEF IInv, Types, Remembered, PinCalls, GetCalls, PinFileTrue, vars
<1>2. CASE Next
  BY <1>2, CreateIInv, PinIInv, ObjPinIInv, ObjGetIInv, ObjInfoIInv, UnpinIInv, DropMapIInv,
     ExitIInv, Zenon DEF Next
<1> QED BY <1>1, <1>2, Zenon

\* The invariant holds in every state of every behaviour.
LEMMA Invariance == Spec => []IInv
BY InitIInv, NextIInv, PTL DEF Spec

\* The state is type correct, and a path is remembered only for a map that is
\* held (Map::pin_file).
THEOREM TypeCorrect == Spec => []TypeOK
<1>1. IInv => TypeOK BY Zenon DEF IInv, Types, Remembered, TypeOK
<1> QED BY <1>1, Invariance, PTL

\* Unless the file was removed by another Map, the path in Map::pin_file holds
\* the map of that Map, for any number of processes that pin, open, unpin, drop
\* and end at any point.
THEOREM PinFileCorrect == Spec => []PinFileTrue
<1>1. IInv => PinFileTrue BY Zenon DEF IInv
<1> QED BY <1>1, Invariance, PTL

\* A step that changes a file either removes it or makes it where there was none.
LEMMA StepNeverReplaces ==
  ASSUME IInv, [Next]_vars, NEW f \in Paths, fs[f] # NoMap
  PROVE  fs'[f] \in {fs[f], NoMap}
<1>1. CASE UNCHANGED vars BY <1>1, Zenon DEF vars
<1>2. CASE \E p \in Procs : ObjPin(p) BY <1>2, Zenon DEF ObjPin, IInv, Types
<1>3. CASE \E p \in Procs, s \in Slots : Unpin(p, s) BY <1>3, Zenon DEF Unpin, IInv, Types
<1>4. CASE UNCHANGED fs BY <1>4, Zenon
<1> QED BY ZenonT(30), <1>1, <1>2, <1>3, <1>4 DEF Next, Create, Pin, ObjGet, ObjInfo, DropMap, Exit

\* pin never replaces what somebody else has pinned meanwhile.
THEOREM NeverReplaces == Spec => PinNeverReplaces
<1>1. IInv /\ [Next]_vars => [\A f \in Paths : fs[f] # NoMap => fs'[f] \in {fs[f], NoMap}]_vars
  BY StepNeverReplaces, Zenon
<1> QED BY <1>1, Invariance, PTL DEF Spec, PinNeverReplaces

\* A step after which a file is not what it was is an unpin of a Map that
\* remembers the file and is still there.
LEMMA StepUnpins ==
  ASSUME IInv, [Next]_vars, NEW f \in Paths, fs[f] # NoMap, fs'[f] # fs[f]
  PROVE  \E r \in Refs : /\ pinFile[r] = f /\ pinFile'[r] = NoPath
                         /\ fd'[r] = fd[r] /\ fd[r] # NoMap
<1>1. CASE UNCHANGED vars BY <1>1, Zenon DEF vars
<1>2. CASE \E p \in Procs : ObjPin(p) BY <1>2, Zenon DEF ObjPin, IInv, Types
<1>3. ASSUME NEW p \in Procs, NEW s \in Slots, Unpin(p, s)
      PROVE  \E r \in Refs : /\ pinFile[r] = f /\ pinFile'[r] = NoPath
                             /\ fd'[r] = fd[r] /\ fd[r] # NoMap
  <2> DEFINE t == <<p, s>>
  <2>1. t \in Refs BY Zenon DEF Refs
  <2>2. pinFile[t] # NoPath /\ fs' = [fs EXCEPT ![pinFile[t]] = NoMap] /\ fd' = fd
        /\ pinFile' = [pinFile EXCEPT ![t] = NoPath]
    BY <1>3, Zenon DEF Unpin
  <2> HIDE DEF t
  <2>3. pinFile[t] = f BY <2>1, <2>2, Zenon DEF IInv, Types
  <2>4. pinFile'[t] = NoPath /\ fd[t] # NoMap BY <2>1, <2>2, Zenon DEF IInv, Types, Remembered
  <2> QED BY <2>1, <2>2, <2>3, <2>4, Zenon
<1>4. CASE UNCHANGED fs BY <1>4, Zenon
<1> QED BY ZenonT(30), <1>1, <1>2, <1>3, <1>4 DEF Next, Create, Pin, ObjGet, ObjInfo, DropMap, Exit

\* A pinned map outlives the Map, the call and the process that pinned it.
THEOREM OutliveMaps == Spec => PinsOutliveMaps
<1>1. IInv /\ [Next]_vars =>
        [\A f \in Paths : (fs[f] # NoMap /\ fs'[f] # fs[f]) =>
           \E r \in Refs : /\ pinFile[r] = f /\ pinFile'[r] = NoPath
                           /\ fd'[r] = fd[r] /\ fd[r] # NoMap]_vars
  BY StepUnpins, Zenon
<1> QED BY <1>1, Invariance, PTL DEF Spec, PinsOutliveMaps

-----------------------------------------------------------------------------
(* HashMap::iter: MapIter                                                  *)

IterTypes ==
  /\ map \subseteq Keys /\ stable \subseteq map /\ out \subseteq Keys
  /\ last \in Keys \cup {NoKey}
  /\ jumps \in BOOLEAN
  /\ pc \in {"idle", "next_key", "get", "end"}

\* The kernel's walk visits every key once, bucket by bucket.
Walk ==
  /\ \A i, j : <<i, j>> \in before => i \in map /\ j \in map
  /\ \A i \in map : <<i, i>> \notin before
  /\ \A i, j \in map : i = j \/ <<i, j>> \in before \/ <<j, i>> \in before
  /\ \A i, j, k \in map : <<i, j>> \in before /\ <<j, k>> \in before => <<i, k>> \in before
  /\ \A i, j \in map : <<i, j>> \in before => BucketOf[i] <= BucketOf[j]

\* The iterator stands before the first key, or on a key of the map: the one it
\* will look up, or the one it has returned.  Of the buckets before that one all
\* that stays has been returned.
Standing ==
  /\ pc = "idle" => last = NoKey /\ out = {}
  /\ pc = "get" => last # NoKey
  /\ pc = "next_key" => last \in out \cup {NoKey}
  /\ pc \in {"next_key", "get"} /\ last # NoKey =>
       \A k \in stable : BucketOf[k] < BucketOf[last] => k \in out

\* As long as its element was not removed under it, the keys it has returned are
\* behind the iterator, and come back behind it when they are stored again.
Behind ==
  jumps = FALSE /\ pc \in {"next_key", "get"} =>
    /\ last \in map \cup {NoKey}
    /\ last = NoKey => out = {}
    /\ pc = "get" => last \notin out
    /\ \A k \in out : k # last => /\ BucketOf[k] <= BucketOf[last]
                                  /\ k \in map => <<k, last>> \in before

IterInv == IterTypes /\ Walk /\ Standing /\ Behind /\ StableReturned

\* A key is no NoKey, and buckets are numbers.
LEMMA KeysAre == NoKey \notin Keys /\ \A k \in Keys : BucketOf[k] \in Nat
  BY IterAssumption DEF Keys, NoKey

\* The pairs of Among.
LEMMA AmongIs ==
  ASSUME NEW S, NEW i, NEW j
  PROVE  <<i, j>> \in Among(S) <=> <<i, j>> \in before /\ i \in S /\ j \in S
  BY DEF Among

\* The pairs of AtHead.
LEMMA AtHeadIs ==
  ASSUME NEW S, NEW k, NEW i, NEW j
  PROVE  <<i, j>> \in AtHead(S, k) <=>
           \/ <<i, j>> \in before /\ i \in S \ {k} /\ j \in S \ {k}
           \/ i \in S \ {k} /\ j = k /\ BucketOf[i] < BucketOf[k]
           \/ i = k /\ j \in S \ {k} /\ BucketOf[j] >= BucketOf[k]
<1>1. <<i, j>> \in {<<x, k>> : x \in {y \in S \ {k} : BucketOf[y] < BucketOf[k]}}
        <=> i \in S \ {k} /\ j = k /\ BucketOf[i] < BucketOf[k]
  OBVIOUS
<1>2. <<i, j>> \in {<<k, x>> : x \in {y \in S \ {k} : BucketOf[y] >= BucketOf[k]}}
        <=> i = k /\ j \in S \ {k} /\ BucketOf[j] >= BucketOf[k]
  OBVIOUS
<1> QED
  BY <1>1, <1>2, AmongIs, Zenon DEF AtHead

\* Keys are taken out of the walk.
LEMMA WalkAmong ==
  ASSUME Walk, NEW S, S \subseteq map, map' = S, before' = Among(S)
  PROVE  Walk'
<1>1. \A i, j : <<i, j>> \in before' <=> <<i, j>> \in before /\ i \in S /\ j \in S
  BY AmongIs, Zenon
<1>2. \A i \in S : <<i, i>> \notin before'
  BY <1>1, Zenon DEF Walk
<1>3. \A i, j \in S : i = j \/ <<i, j>> \in before' \/ <<j, i>> \in before'
  BY <1>1 DEF Walk
<1>4. \A i, j, k \in S : <<i, j>> \in before' /\ <<j, k>> \in before' => <<i, k>> \in before'
  BY <1>1 DEF Walk
<1>5. \A i, j \in S : <<i, j>> \in before' => BucketOf[i] <= BucketOf[j]
  BY <1>1 DEF Walk
<1> QED
  BY <1>1, <1>2, <1>3, <1>4, <1>5 DEF Walk

\* A key is put at the head of its bucket.
LEMMA WalkAtHead ==
  ASSUME Walk, map \subseteq Keys, NEW S, S \subseteq map, NEW k \in Keys,
         map' = S \cup {k}, before' = AtHead(S, k)
  PROVE  Walk'
<1>1. \A i, j : <<i, j>> \in before' <=>
           \/ <<i, j>> \in before /\ i \in S \ {k} /\ j \in S \ {k}
           \/ i \in S \ {k} /\ j = k /\ BucketOf[i] < BucketOf[k]
           \/ i = k /\ j \in S \ {k} /\ BucketOf[j] >= BucketOf[k]
  BY AtHeadIs, Zenon
<1>2. \A i \in S \cup {k} : BucketOf[i] \in Nat
  BY KeysAre
<1>3. \A i, j : <<i, j>> \in before' => i \in map' /\ j \in map'
  BY <1>1, Zenon
<1>4. \A i \in map' : <<i, i>> \notin before'
  BY <1>1, Zenon DEF Walk
<1>5. ASSUME NEW i \in map', NEW j \in map' PROVE i = j \/ <<i, j>> \in before' \/ <<j, i>> \in before'
  <2>1. CASE i = k \/ j = k
    BY <1>1, <1>2, <2>1
  <2>2. CASE i # k /\ j # k
    BY <1>1, <2>2, Zenon DEF Walk
  <2> QED
    BY <2>1, <2>2, Zenon
<1>6. ASSUME NEW i \in map', NEW j \in map', <<i, j>> \in before' PROVE BucketOf[i] <= BucketOf[j]
  <2>1. CASE <<i, j>> \in before /\ i \in S \ {k} /\ j \in S \ {k}
    BY <2>1, Zenon DEF Walk
  <2>2. CASE i = k \/ j = k
    BY <1>1, <1>2, <1>6, <2>2
  <2> QED
    BY <1>1, <1>6, <2>1, <2>2, Zenon
<1>7. ASSUME NEW i \in map', NEW j \in map', NEW l \in map', <<i, j>> \in before', <<j, l>> \in before'
      PROVE <<i, l>> \in before'
  <2>1. BucketOf[i] <= BucketOf[j] /\ BucketOf[j] <= BucketOf[l]
    BY <1>6, <1>7, Zenon
  <2>2. CASE i = k
    <3>1. j # k /\ j \in S \ {k} /\ l # k
      BY <1>1, <1>2, <1>7, <2>1, <2>2
    <3> QED
      BY <1>1, <1>2, <1>7, <2>1, <2>2, <3>1
  <2>3. CASE l = k
    <3>1. i # k
      BY <1>1, <1>2, <1>7, <2>1, <2>3
    <3> QED
      BY <1>1, <1>2, <1>7, <2>1, <2>3, <3>1
  <2>4. CASE j = k /\ i # k /\ l # k
    <3>1. BucketOf[i] < BucketOf[l] /\ i \in S /\ l \in S
      BY <1>1, <1>2, <1>7, <2>1, <2>4
    <3>2. i # l /\ ~(BucketOf[l] <= BucketOf[i])
      BY <1>2, <3>1
    <3>3. <<l, i>> \notin before
      BY <3>1, <3>2, Zenon DEF Walk
    <3> QED
      BY <1>1, <2>4, <3>1, <3>2, <3>3, Zenon DEF Walk
  <2>5. CASE j # k /\ i # k /\ l # k
    BY <1>1, <1>7, <2>5, Zenon DEF Walk
  <2> QED
    BY <2>2, <2>3, <2>4, <2>5, Zenon
<1> QED
  <2>1. \A i, j \in map' : i = j \/ <<i, j>> \in before' \/ <<j, i>> \in before'
    BY <1>5, Zenon
  <2>2. \A i, j \in map' : <<i, j>> \in before' => BucketOf[i] <= BucketOf[j]
    BY <1>6, Zenon
  <2>3. \A i, j, l \in map' : <<i, j>> \in before' /\ <<j, l>> \in before' => <<i, l>> \in before'
    BY <1>7
  <2> QED
    BY <1>3, <1>4, <2>1, <2>2, <2>3, Zenon DEF Walk

\* Before the iteration nothing is returned.
LEMMA IterStart == IterInit => IterInv
<1> SUFFICES ASSUME IterInit PROVE IterInv
  BY Zenon
<1>1. /\ map = {} /\ before = {} /\ last = NoKey /\ pc = "idle" /\ out = {} /\ again = {}
      /\ stable = {} /\ jumps = FALSE
  BY Zenon DEF IterInit
<1> QED
  BY <1>1, Zenon DEF IterInv, IterTypes, Walk, Standing, Behind, StableReturned

\* The elements of G are removed, others are put at the head of their buckets,
\* while the iterator rests.
LEMMA IterChanges ==
  ASSUME IterInv, NEW G, Walk', map \ G \subseteq map', map' \subseteq Keys, Removed(G), UNCHANGED iterVars,
         \A i, j \in map \ G : <<i, j>> \in before' => <<i, j>> \in before,
         \A i \in map', j \in map \ G :
            i \notin map \ G /\ BucketOf[i] <= BucketOf[j] => <<i, j>> \in before'
  PROVE  IterInv'
<1>1. /\ stable' = stable \ G /\ jumps' = (jumps \/ (last \in G /\ pc # "end"))
      /\ UNCHANGED <<last, pc, out, again>>
  BY Zenon DEF Removed, iterVars
<1>2. jumps' \in BOOLEAN /\ (jumps' = FALSE => jumps = FALSE /\ (last \notin G \/ pc = "end"))
  BY <1>1, Zenon DEF IterInv, IterTypes
<1>3. IterTypes'
  BY <1>1, <1>2, Zenon DEF IterInv, IterTypes
<1>4. Standing'
  BY <1>1, Zenon DEF IterInv, Standing
\* Two keys that stay keep their order.
<1>5. \A i, j \in map \ G : <<i, j>> \in before => <<i, j>> \in before'
  <2> SUFFICES ASSUME NEW i \in map \ G, NEW j \in map \ G, <<i, j>> \in before, <<i, j>> \notin before'
               PROVE  FALSE
    BY Zenon
  <2>1. i # j /\ <<j, i>> \notin before
    BY Zenon DEF IterInv, Walk
  <2>2. <<j, i>> \in before'
    BY <2>1, Zenon DEF Walk
  <2> QED
    BY <2>1, <2>2, Zenon
<1>6. Behind'
  <2> SUFFICES ASSUME jumps' = FALSE, pc \in {"next_key", "get"}
               PROVE  Behind'
    BY <1>1, Zenon DEF Behind
  <2>1. /\ last \in map \cup {NoKey} /\ last \notin G
        /\ last = NoKey => out = {}
        /\ pc = "get" => last \notin out
        /\ \A k \in out : k # last => /\ BucketOf[k] <= BucketOf[last]
                                      /\ k \in map => <<k, last>> \in before
    BY <1>2, Zenon DEF IterInv, Behind
  <2>2. ASSUME NEW k \in out, k # last, k \in map' PROVE <<k, last>> \in before'
    <3>1. last \in map \ G
      BY <2>1, Zenon
    <3> QED
      BY <1>5, <2>1, <2>2, <3>1, Zenon
  <2> QED
    BY <1>1, <2>1, <2>2, Zenon DEF Behind
<1>7. ASSUME pc # "end", NEW k \in stable', <<k, last>> \in before' PROVE k \in out
  <2>1. k \in stable /\ k \in map \ G /\ k \in Keys /\ last \in map' /\ last \in Keys
    BY <1>1, <1>7, Zenon DEF IterInv, IterTypes, Walk
  <2>2. CASE last \in map \ G
    BY <1>7, <2>1, <2>2, Zenon DEF IterInv, StableReturned
  <2>3. CASE last \notin map \ G
    <3>1. <<last, k>> \notin before'
      BY <1>7, <2>1, Zenon DEF Walk
    <3>2. BucketOf[k] < BucketOf[last]
      BY <2>1, <2>3, <3>1, KeysAre
    <3>3. pc \in {"next_key", "get"} /\ last # NoKey
      BY <1>7, <2>1, KeysAre, Zenon DEF IterInv, IterTypes, Standing
    <3> QED
      BY <2>1, <3>2, <3>3, Zenon DEF IterInv, Standing
  <2> QED
    BY <2>2, <2>3, Zenon
<1>8. StableReturned'
  BY <1>1, <1>2, <1>7, Zenon DEF IterInv, StableReturned
<1> QED
  BY <1>3, <1>4, <1>6, <1>8, Zenon DEF IterInv

\* A key is stored, others are evicted before.
LEMMA PutKeeps ==
  ASSUME IterInv, NEW k \in Keys, NEW V, Put(k, V), UNCHANGED iterVars
  PROVE  IterInv'
<1>1. PICK rest : rest = map \ V
  BY Zenon
<1>2. PICK G : G = IF percpu THEN V ELSE V \cup {k}
  BY Zenon
<1>3. /\ map' = rest \cup {k} /\ Removed(G)
      /\ before' = IF percpu /\ k \in rest THEN Among(rest) ELSE AtHead(rest, k)
  BY <1>1, <1>2, Zenon DEF Put
<1>4. map \subseteq Keys /\ Walk /\ rest \subseteq map
  BY <1>1, Zenon DEF IterInv, IterTypes
<1>5. map \ G \subseteq rest /\ map \ G \subseteq map' /\ map' \subseteq Keys
  BY <1>1, <1>2, <1>3, <1>4, Zenon
<1>6. CASE percpu /\ k \in rest
  <2>1. map' = rest /\ before' = Among(rest) /\ map \ G = rest
    BY <1>1, <1>2, <1>3, <1>6
  <2>2. Walk'
    BY <1>4, <2>1, WalkAmong, Zenon
  <2>3. \A i, j \in map \ G : <<i, j>> \in before' => <<i, j>> \in before
    BY <2>1, AmongIs, Zenon
  <2> QED
    BY <1>3, <1>5, <2>1, <2>2, <2>3, IterChanges, Zenon
<1>7. CASE ~(percpu /\ k \in rest)
  <2>1. before' = AtHead(rest, k)
    BY <1>3, <1>7, Zenon
  <2>2. k \notin map \ G
    BY <1>1, <1>2, <1>7, Zenon
  <2>3. Walk'
    BY <1>3, <1>4, <2>1, WalkAtHead, Zenon
  <2>4. \A i, j \in map \ G : <<i, j>> \in before' => <<i, j>> \in before
    <3> SUFFICES ASSUME NEW i \in map \ G, NEW j \in map \ G, <<i, j>> \in before'
                 PROVE  <<i, j>> \in before
      BY Zenon
    <3>1. i # k /\ j # k
      BY <2>2, Zenon
    <3>2. <<i, j>> \in AtHead(rest, k)
      BY <2>1, Zenon
    <3>3. \/ <<i, j>> \in before /\ i \in rest \ {k} /\ j \in rest \ {k}
          \/ i \in rest \ {k} /\ j = k /\ BucketOf[i] < BucketOf[k]
          \/ i = k /\ j \in rest \ {k} /\ BucketOf[j] >= BucketOf[k]
      BY <3>2, AtHeadIs
    <3> QED
      BY <3>1, <3>3, Zenon
  <2>5. map' \ {k} \subseteq map \ G
    BY <1>1, <1>2, <1>3, Zenon
  <2>6. ASSUME NEW i \in map', NEW j \in map \ G, i \notin map \ G, BucketOf[i] <= BucketOf[j]
        PROVE  <<i, j>> \in before'
    <3>1. i = k /\ j \in rest \ {k}
      BY <1>5, <2>2, <2>5, <2>6, Zenon
    <3>2. BucketOf[j] >= BucketOf[k]
      BY <1>4, <2>6, <3>1, KeysAre
    <3> QED
      BY <2>1, <3>1, <3>2, AtHeadIs, Zenon
  <2> QED
    BY <1>3, <1>5, <2>3, <2>4, <2>6, IterChanges, Zenon
<1> QED
  BY <1>6, <1>7, Zenon

\* A key is deleted.
LEMMA DeleteIter ==
  ASSUME IterInv, NEW k \in Keys, Delete(k)
  PROVE  IterInv'
<1>1. PICK S : S = map \ {k}
  BY Zenon
<1>2. map' = S /\ before' = Among(S) /\ S \subseteq map /\ map' \subseteq Keys /\ Walk
  BY <1>1, Zenon DEF Delete, IterInv, IterTypes
<1>3. Walk'
  BY <1>2, WalkAmong, Zenon
<1>4. \A i, j \in map \ {k} : <<i, j>> \in before' => <<i, j>> \in before
  BY <1>2, AmongIs, Zenon
<1> QED
  BY <1>1, <1>2, <1>3, <1>4, IterChanges, Zenon DEF Delete

\* A new iteration stands before the first key.
LEMMA IterBegins == ASSUME IterInv, Iter PROVE IterInv'
<1>1. /\ pc = "idle" /\ pc' = "next_key" /\ last' = NoKey /\ stable' = map
      /\ UNCHANGED <<map, before, out, again, jumps>> /\ out = {}
  BY Zenon DEF Iter, IterInv, Standing
<1>2. \A k \in map : <<k, NoKey>> \notin before
  BY KeysAre, Zenon DEF IterInv, IterTypes, Walk
<1>3. Walk'
  BY <1>1, Zenon DEF IterInv, Walk
<1> QED
  BY <1>1, <1>2, <1>3, Zenon DEF IterInv, IterTypes, Standing, Behind, StableReturned

\* What get_next_key returns: the next key of the walk, or the first one when
\* the key it was given is not there.
LEMMA KeyAfterIs ==
  ASSUME NEW k, NEW j \in KeyAfter(k), Walk, map \subseteq Keys
  PROVE  /\ j \in map \cup {NoKey}
         /\ j = NoKey => \A i \in map : k \in map /\ (i = k \/ <<i, k>> \in before)
         /\ j # NoKey => \A i \in map : <<i, j>> \in before => k \in map /\ (i = k \/ <<i, k>> \in before)
         /\ k \in map /\ j # NoKey => <<k, j>> \in before
<1>1. PICK rest : rest = IF k \in map THEN {i \in map : <<k, i>> \in before} ELSE map
  BY Zenon
<1>2. j \in IF rest = {} THEN {NoKey} ELSE {x \in rest : \A i \in rest \ {x} : <<x, i>> \in before}
  BY <1>1, Zenon DEF KeyAfter, FirstOf
<1>3. rest \subseteq map /\ \A i \in map : i \notin rest => k \in map /\ (i = k \/ <<i, k>> \in before)
  BY <1>1, Zenon DEF Walk
<1>4. CASE rest = {}
  <2>1. j = NoKey
    BY <1>2, <1>4, Zenon
  <2>2. \A i \in map : k \in map /\ (i = k \/ <<i, k>> \in before)
    BY <1>3, <1>4, Zenon
  <2> QED
    BY <2>1, <2>2, Zenon
<1>5. CASE rest # {}
  <2>1. j \in rest /\ \A i \in rest \ {j} : <<j, i>> \in before
    BY <1>2, <1>5, Zenon
  <2>2. \A i \in map : <<i, j>> \in before => i \notin rest
    BY <1>3, <2>1, Zenon DEF Walk
  <2>3. j \in map /\ (k \in map => <<k, j>> \in before)
    BY <1>1, <1>3, <2>1, Zenon
  <2>4. \A i \in map : <<i, j>> \in before => k \in map /\ (i = k \/ <<i, k>> \in before)
    BY <1>3, <2>2, Zenon
  <2>5. j # NoKey
    BY <2>3, KeysAre, Zenon
  <2> QED
    BY <2>3, <2>4, <2>5, Zenon
<1> QED
  BY <1>4, <1>5, Zenon

\* BPF_MAP_GET_NEXT_KEY passes over no key that stays.
LEMMA IterMoves == ASSUME IterInv, NextKey PROVE IterInv'
<1>1. PICK j \in KeyAfter(last) : last' = j
  BY Zenon DEF NextKey
<1>2. /\ pc = "next_key" /\ last' = j /\ pc' = IF j = NoKey THEN "end" ELSE "get"
      /\ UNCHANGED <<map, before, out, again, stable, jumps>>
  BY <1>1, Zenon DEF NextKey
<1>3. /\ map \subseteq Keys /\ stable \subseteq map /\ out \subseteq Keys /\ Walk
      /\ last \in Keys \cup {NoKey} /\ last \in out \cup {NoKey}
      /\ \A k \in stable : <<k, last>> \in before => k \in out
  BY <1>2, Zenon DEF IterInv, IterTypes, Standing, StableReturned
<1>4. /\ j \in map \cup {NoKey}
      /\ j = NoKey => \A i \in map : last \in map /\ (i = last \/ <<i, last>> \in before)
      /\ j # NoKey => \A i \in map : <<i, j>> \in before =>
                       last \in map /\ (i = last \/ <<i, last>> \in before)
      /\ last \in map /\ j # NoKey => <<last, j>> \in before
  BY <1>3, KeyAfterIs, Zenon
\* A stable key up to the one the iterator stood on has been returned.
<1>5. \A k \in stable : last \in map /\ (k = last \/ <<k, last>> \in before) => k \in out
  BY <1>3, KeysAre, Zenon
<1>6. IterTypes' /\ Walk'
  <2>1. Walk'
    BY <1>2, <1>3, Zenon DEF Walk
  <2> QED
    BY <1>2, <1>4, <2>1, Zenon DEF IterInv, IterTypes
<1>7. StableReturned'
  BY <1>2, <1>3, <1>4, <1>5, Zenon DEF IterInv, StableReturned
<1>8. Standing'
  <2>1. ASSUME NEW k \in stable, j # NoKey, BucketOf[k] < BucketOf[j] PROVE k \in out
    <3>1. k \in map /\ j \in map /\ k # j /\ ~(BucketOf[j] <= BucketOf[k])
      BY <1>3, <1>4, <2>1, KeysAre
    <3>2. <<k, j>> \in before
      BY <1>3, <3>1, Zenon DEF Walk
    <3> QED
      BY <1>4, <1>5, <2>1, <3>1, <3>2, Zenon
  <2> QED
    BY <1>2, <2>1, Zenon DEF Standing
<1>9. Behind'
  <2> SUFFICES ASSUME jumps = FALSE, j # NoKey PROVE Behind'
    BY <1>2, Zenon DEF Behind
  <2>1. /\ last \in map \cup {NoKey} /\ (last = NoKey => out = {})
        /\ \A k \in out : k # last => /\ BucketOf[k] <= BucketOf[last]
                                      /\ k \in map => <<k, last>> \in before
    BY <1>2, Zenon DEF IterInv, Behind
  <2>2. j \in map
    BY <1>4, Zenon
  <2>3. ASSUME NEW k \in out PROVE last \in map /\ <<last, j>> \in before /\ BucketOf[last] <= BucketOf[j]
    BY <1>3, <1>4, <2>1, <2>2, Zenon DEF Walk
  <2>4. ASSUME NEW k \in out PROVE k # j /\ BucketOf[k] <= BucketOf[j] /\ (k \in map => <<k, j>> \in before)
    <3>1. BucketOf[k] <= BucketOf[j]
      <4>1. BucketOf[k] \in Nat /\ BucketOf[last] \in Nat /\ BucketOf[j] \in Nat
        BY <1>3, <2>2, <2>3, KeysAre, Zenon
      <4>2. BucketOf[k] <= BucketOf[last]
        <5>1. CASE k = last
          BY <4>1, <5>1
        <5>2. CASE k # last
          BY <2>1, <5>2, Zenon
        <5> QED
          BY <5>1, <5>2, Zenon
      <4> QED
        BY <2>3, <4>1, <4>2
    <3>2. k \in map => <<k, j>> \in before
      BY <1>3, <2>1, <2>2, <2>3, Zenon DEF Walk
    <3> QED
      BY <1>3, <2>2, <3>1, <3>2, Zenon DEF Walk
  <2> QED
    BY <1>2, <2>2, <2>4, Zenon DEF Behind
<1> QED
  BY <1>6, <1>7, <1>8, <1>9, Zenon DEF IterInv

\* The lookup returns the key, or ends the iteration if it is gone.
LEMMA IterGets == ASSUME IterInv, Get PROVE IterInv'
<1>1. /\ pc = "get" /\ last \in Keys /\ last # NoKey
      /\ UNCHANGED <<map, before, last, stable, jumps>>
  BY Zenon DEF Get, IterInv, IterTypes, Standing
<1>2. Walk'
  BY <1>1, Zenon DEF IterInv, Walk
<1>3. CASE last \in map
  <2>1. /\ out' = out \cup {last} /\ pc' = "next_key"
        /\ again' = IF last \in out THEN again \cup {last} ELSE again
    BY <1>3, Zenon DEF Get
  <2>2. IterTypes' /\ Standing'
    BY <1>1, <2>1, Zenon DEF IterInv, IterTypes, Standing
  <2>3. Behind'
    BY <1>1, <2>1, Zenon DEF IterInv, Behind
  <2>4. StableReturned'
    BY <1>1, <2>1, Zenon DEF IterInv, IterTypes, Behind, StableReturned
  <2> QED
    BY <1>2, <2>2, <2>3, <2>4, Zenon DEF IterInv
<1>4. CASE last \notin map
  <2>1. pc' = "end" /\ UNCHANGED <<out, again>>
    BY <1>4, Zenon DEF Get
  <2> QED
    BY <1>1, <1>2, <2>1, Zenon DEF IterInv, IterTypes, Standing, Behind, StableReturned
<1> QED
  BY <1>3, <1>4, Zenon

\* Every step keeps the invariant.
LEMMA IterKeeps == IterInv /\ [IterNext]_mapVars => IterInv'
<1> SUFFICES ASSUME IterInv, [IterNext]_mapVars PROVE IterInv'
  BY Zenon
<1>1. CASE Quiesce \/ UNCHANGED mapVars
  BY <1>1, Zenon DEF Quiesce, mapVars, IterInv, IterTypes, Walk, Standing, Behind, StableReturned
<1>2. ASSUME NEW k \in Keys, HashSet(k) PROVE IterInv'
  <2>1. CASE Put(k, {})
    BY <1>2, <2>1, PutKeeps, Zenon DEF HashSet
  <2>2. CASE UNCHANGED <<map, before, stable, jumps>>
    BY <1>2, <2>2, Zenon DEF HashSet, iterVars, IterInv, IterTypes, Walk, Standing, Behind, StableReturned
  <2> QED
    BY <1>2, <2>1, <2>2, Zenon DEF HashSet
<1>3. ASSUME NEW k \in Keys, LruSet(k) PROVE IterInv'
  BY <1>3, PutKeeps, Zenon DEF LruSet
<1>4. CASE IterStep
  BY <1>4, IterBegins, IterMoves, IterGets, Zenon DEF IterStep
<1> QED
  BY <1>1, <1>2, <1>3, <1>4, DeleteIter, Zenon DEF IterNext

\* For maps with any number of keys in any buckets, of any capacity and of every
\* kind, however entries are added, updated, deleted and evicted between the
\* system calls of next(): the iterator passes over no entry whose element is
\* there all the time, and returns one twice only when it was thrown back.
THEOREM IterationComplete == IterSpec => []StableReturned
<1>1. IterInv => StableReturned
  BY Zenon DEF IterInv
<1> QED
  BY <1>1, IterStart, IterKeeps, PTL DEF IterSpec

-----------------------------------------------------------------------------
(* kretprobe and uretprobe: RetProbe                                       *)

ProbedTypes ==
  /\ enter \in BOOLEAN /\ ret \in BOOLEAN
  /\ parms \in [Ids -> Parms \cup {NoParms}]
  /\ depth \in [Threads -> 0 .. MaxDepth]
  /\ frame \in [Threads -> [1 .. MaxDepth -> Frame]]
  /\ read \in [Threads -> Parms \cup {NoParms}]

\* Only the entry probe stores.
Stored == \A id \in Ids : parms[id] # NoParms => enter

\* Threads with the same id are not inside at once, or it is known.
Alone ==
  \A t, u \in Threads :
    t # u /\ IdOf(t) = IdOf(u) /\ depth[t] > 0 /\ depth[u] > 0 => IdOf(t) \in crossed

\* Only the return probe hooks; calls below the innermost one are marked.
Layers(t) ==
  \A i \in 1 .. depth[t] : /\ frame[t][i].hooked => ret
                           /\ i < depth[t] => frame[t][i].nested

\* A call on top of one the return probe sees is seen as well, and an entry
\* holds the parameters of the innermost call, if its return is seen.
Matches(t) ==
  /\ \A i, j \in 1 .. depth[t] : i < j /\ frame[t][i].hooked => frame[t][j].hooked
  /\ Seen(t) /\ parms[IdOf(t)] # NoParms => parms[IdOf(t)] = Top(t).parms

\* What the innermost call has stored is there, and so is what has been read of
\* it; and it matches unless a return was missed.
Served(t) ==
  /\ read[t] # NoParms => Seen(t) /\ parms[IdOf(t)] = read[t]
  /\ Top(t).stored /\ ~Top(t).nested => parms[IdOf(t)] # NoParms
  /\ IdOf(t) \notin missed => Matches(t)

ThreadInv(t) ==
  /\ Layers(t)
  /\ read[t] # NoParms => depth[t] > 0
  /\ depth[t] > 0 /\ IdOf(t) \notin crossed => Served(t)

ProbedInv == ProbedTypes /\ Stored /\ Alone /\ (\A t \in Threads : ThreadInv(t)) /\ SkippedForReason

\* An id of a thread is an id.
LEMMA IdsAre == \A t \in Threads : IdOf(t) \in Ids
  BY Zenon DEF Ids

\* The invariant holds before anything is attached.
LEMMA ProbedStart == ProbedInit => ProbedInv
<1> SUFFICES ASSUME ProbedInit PROVE ProbedInv
  BY Zenon
<1>1. NoCall \in Frame
  BY Zenon DEF NoCall, Frame
<1>2. [d \in 1 .. MaxDepth |-> NoCall] \in [1 .. MaxDepth -> Frame]
  BY <1>1, Zenon
<1>3. frame \in [Threads -> [1 .. MaxDepth -> Frame]]
  BY <1>2, Zenon DEF ProbedInit
<1>4. depth \in [Threads -> 0 .. MaxDepth]
  BY RetProbeAssumption DEF ProbedInit
<1>5. ProbedTypes
  BY <1>3, <1>4, Zenon DEF ProbedInit, ProbedTypes
<1>6. Stored
  BY Zenon DEF ProbedInit, Stored
<1>7. \A t \in Threads : depth[t] = 0 /\ ~(depth[t] > 0) /\ read[t] = NoParms
  BY DEF ProbedInit
<1>8. \A t \in Threads : 1 .. depth[t] = {}
  BY <1>7
<1>9. \A t \in Threads : ThreadInv(t)
  BY <1>7, <1>8, Zenon DEF ThreadInv, Layers
<1> QED
  BY <1>5, <1>6, <1>7, <1>9, Zenon DEF ProbedInit, ProbedInv, Alone, SkippedForReason

\* What a step of the thread t leaves alone.
OnlyFor(t) ==
  /\ ret => ret'
  /\ \A u \in Threads \ {t} : depth'[u] = depth[u] /\ frame'[u] = frame[u] /\ read'[u] = read[u]
  /\ \A id \in Ids \ {IdOf(t)} : /\ parms'[id] = parms[id]
                                 /\ id \in missed' <=> id \in missed
                                 /\ id \in crossed' <=> id \in crossed

\* A step of the thread t keeps what is said of the other threads, if it is
\* known of those with the same id that they are inside.
LEMMA OthersKeep ==
  ASSUME ProbedInv, NEW t \in Threads, OnlyFor(t), NEW u \in Threads \ {t},
         IdOf(u) = IdOf(t) /\ depth[u] > 0 => IdOf(t) \in crossed'
  PROVE  ThreadInv(u)'
<1>1. /\ depth'[u] = depth[u] /\ frame'[u] = frame[u] /\ read'[u] = read[u] /\ (ret => ret')
      /\ ThreadInv(u) /\ IdOf(u) \in Ids
  BY IdsAre, Zenon DEF OnlyFor, ProbedInv
<1>2. Layers(u)'
  BY <1>1, Zenon DEF ThreadInv, Layers
<1>3. ASSUME depth[u] > 0, IdOf(u) \notin crossed' PROVE Served(u)'
  <2>1. IdOf(u) # IdOf(t)
    BY <1>3, Zenon
  <2>2. /\ parms'[IdOf(u)] = parms[IdOf(u)] /\ IdOf(u) \notin crossed
        /\ IdOf(u) \in missed' <=> IdOf(u) \in missed
    BY <1>1, <1>3, <2>1, Zenon DEF OnlyFor
  <2>3. Served(u)
    BY <1>1, <1>3, <2>2, Zenon DEF ThreadInv
  <2>4. Top(u)' = Top(u) /\ Seen(u)' = Seen(u)
    BY <1>1, Zenon DEF Top, Seen
  <2> QED
    BY <1>1, <2>2, <2>3, <2>4, Zenon DEF Served, Matches
<1> QED
  BY <1>1, <1>2, <1>3, Zenon DEF ThreadInv

\* The same of the pairs of threads.
LEMMA AloneKeeps ==
  ASSUME ProbedInv, NEW t \in Threads, OnlyFor(t),
         \A u \in Threads \ {t} : IdOf(u) = IdOf(t) /\ depth[u] > 0 => IdOf(t) \in crossed'
  PROVE  Alone'
<1> SUFFICES ASSUME NEW v \in Threads, NEW w \in Threads, v # w, IdOf(v) = IdOf(w),
                    depth'[v] > 0, depth'[w] > 0
             PROVE  IdOf(v) \in crossed'
  BY Zenon DEF Alone
<1>1. CASE v = t \/ w = t
  BY <1>1, Zenon DEF OnlyFor
<1>2. CASE v # t /\ w # t
  <2>1. depth[v] > 0 /\ depth[w] > 0
    BY <1>2, Zenon DEF OnlyFor
  <2>2. IdOf(v) \in crossed
    BY <2>1, Zenon DEF ProbedInv, Alone
  <2>3. CASE IdOf(v) = IdOf(t)
    BY <1>2, <2>1, <2>3, Zenon
  <2>4. CASE IdOf(v) # IdOf(t)
    BY <2>2, <2>4, IdsAre, Zenon DEF OnlyFor
  <2> QED
    BY <2>3, <2>4, Zenon
<1> QED
  BY <1>1, <1>2, Zenon

\* A frame that is marked is a frame.
LEMMA MarkedFrame == \A f \in Frame : [f EXCEPT !.nested = TRUE] \in Frame
  BY Zenon DEF Frame

\* A call puts one frame on top and marks the one below.
LEMMA CallKeeps ==
  ASSUME ProbedInv, NEW t \in Threads, Call(t)
  PROVE  ProbedInv'
<1>0. ProbedTypes /\ MaxDepth \in Nat
  BY RetProbeAssumption, Zenon DEF ProbedInv
<1>1. PICK d, id : d = depth[t] /\ id = IdOf(t)
  BY Zenon
<1>2. d \in 0 .. MaxDepth /\ d < MaxDepth /\ d + 1 \in 1 .. MaxDepth /\ id \in Ids
  BY <1>0, <1>1, IdsAre DEF ProbedTypes, Call
<1>a. PICK p \in Parms, h \in {ret, FALSE} :
        /\ depth' = [depth EXCEPT ![t] = depth[t] + 1]
        /\ frame' = [frame EXCEPT ![t] =
             [i \in 1 .. MaxDepth |->
                IF i = depth[t] + 1
                THEN [parms |-> p, hooked |-> h, stored |-> enter /\ Fits(IdOf(t)), nested |-> FALSE]
                ELSE IF i = depth[t] THEN [frame[t][i] EXCEPT !.nested = TRUE] ELSE frame[t][i]]]
        /\ parms' = IF enter /\ Fits(IdOf(t)) THEN [parms EXCEPT ![IdOf(t)] = p] ELSE parms
        /\ missed' = IF h = ret THEN missed ELSE missed \cup {IdOf(t)}
        /\ crossed' = IF Company(t) THEN crossed \cup {IdOf(t)} ELSE crossed
  BY Zenon DEF Call
<1>b. PICK made : made = [parms |-> p, hooked |-> h, stored |-> enter /\ Fits(id), nested |-> FALSE]
  BY Zenon
<1>3. /\ depth' = [depth EXCEPT ![t] = d + 1]
      /\ frame' = [frame EXCEPT ![t] =
           [i \in 1 .. MaxDepth |->
              IF i = d + 1 THEN made
              ELSE IF i = d THEN [frame[t][i] EXCEPT !.nested = TRUE] ELSE frame[t][i]]]
      /\ parms' = IF enter /\ Fits(id) THEN [parms EXCEPT ![id] = p] ELSE parms
      /\ missed' = IF h = ret THEN missed ELSE missed \cup {id}
      /\ crossed' = IF Company(t) THEN crossed \cup {id} ELSE crossed
  BY <1>1, <1>a, <1>b, Zenon
<1>4. UNCHANGED <<enter, ret, read, skipped>> /\ read[t] = NoParms
  BY Zenon DEF Call
<1>5. /\ made \in Frame /\ made.parms = p /\ made.hooked = h
      /\ made.stored = (enter /\ Fits(id)) /\ made.nested = FALSE
  BY Zenon, <1>0, <1>b DEF Frame, ProbedTypes, Fits
<1>6. /\ \A v \in Threads : v # t => frame'[v] = frame[v] /\ depth'[v] = depth[v]
      /\ depth'[t] = d + 1
      /\ \A i \in 1 .. MaxDepth :
           frame'[t][i] = IF i = d + 1 THEN made
                          ELSE IF i = d THEN [frame[t][i] EXCEPT !.nested = TRUE] ELSE frame[t][i]
  BY <1>0, <1>3, Zenon DEF ProbedTypes
<1>7. /\ \A i \in Ids \ {id} : parms'[i] = parms[i]
      /\ enter /\ Fits(id) => parms'[id] = p
      /\ ~(enter /\ Fits(id)) => parms'[id] = NoParms
  <2>1. ~(enter /\ Fits(id)) => parms[id] = NoParms
    BY <1>2, Zenon DEF ProbedInv, Stored, Fits
  <2> QED
    BY <1>0, <1>2, <1>3, <2>1, Zenon DEF ProbedTypes
<1>8. OnlyFor(t)
  BY <1>1, <1>3, <1>4, <1>6, <1>7, Zenon DEF OnlyFor
<1>9. \A u \in Threads \ {t} : IdOf(u) = id /\ depth[u] > 0 => id \in crossed'
  BY <1>1, <1>3, Zenon DEF Company
<1>10. ProbedTypes'
  <2>1. parms' \in [Ids -> Parms \cup {NoParms}]
    BY <1>0, <1>3, Zenon DEF ProbedTypes
  <2>2. depth' \in [Threads -> 0 .. MaxDepth]
    BY <1>0, <1>2, <1>3 DEF ProbedTypes
  <2>3. \A i \in 1 .. MaxDepth : frame[t][i] \in Frame /\ [frame[t][i] EXCEPT !.nested = TRUE] \in Frame
    BY <1>0, MarkedFrame, Zenon DEF ProbedTypes
  <2>4. [i \in 1 .. MaxDepth |->
           IF i = d + 1 THEN made
           ELSE IF i = d THEN [frame[t][i] EXCEPT !.nested = TRUE] ELSE frame[t][i]]
          \in [1 .. MaxDepth -> Frame]
    BY <1>5, <2>3, Zenon
  <2>5. frame' \in [Threads -> [1 .. MaxDepth -> Frame]]
    BY <1>0, <1>3, <2>4, Zenon DEF ProbedTypes
  <2> QED
    BY <1>0, <1>4, <2>1, <2>2, <2>5, Zenon DEF ProbedTypes
<1>11. Stored'
  BY <1>2, <1>4, <1>7, Zenon DEF ProbedInv, Stored
<1>12. ThreadInv(t)'
  <2>1. ThreadInv(t) /\ Top(t)' = made /\ Seen(t)' = h
    BY <1>2, <1>5, <1>6, Zenon DEF ProbedInv, Top, Seen
  <2>2. d + 1 > 0 /\ \A i \in 1 .. (d + 1) : i = d + 1 \/ i \in 1 .. d
    BY <1>2
  <2>3. \A i \in 1 .. d : /\ frame'[t][i].hooked = frame[t][i].hooked
                          /\ i = d \/ frame[t][i].nested => frame'[t][i].nested
    <3>1. \A i \in 1 .. d : i \in 1 .. MaxDepth /\ i # d + 1 /\ frame[t][i] \in Frame
      BY <1>0, <1>2 DEF ProbedTypes
    <3>2. \A f \in Frame : [f EXCEPT !.nested = TRUE].hooked = f.hooked /\ [f EXCEPT !.nested = TRUE].nested
      BY Zenon DEF Frame
    <3> QED
      BY <1>6, <3>1, <3>2, Zenon
  <2>4. \A i \in 1 .. d : (frame[t][i].hooked => ret) /\ (i = d \/ frame[t][i].nested)
    <3>1. \A i \in 1 .. d : i = d \/ i < d
      BY <1>2
    <3> QED
      BY <1>1, <2>1, <3>1, Zenon DEF ThreadInv, Layers
  <2>5. h => ret
    BY Zenon
  <2>6. Layers(t)'
    <3> SUFFICES ASSUME NEW i \in 1 .. (d + 1)
                 PROVE  /\ frame'[t][i].hooked => ret'
                        /\ i < d + 1 => frame'[t][i].nested
      BY <1>6, Zenon DEF Layers
    <3>1. CASE i = d + 1
      <4>1. ~(i < d + 1)
        BY <1>2, <3>1
      <4>2. frame'[t][i] = made
        BY <1>2, <1>6, <3>1, Zenon
      <4> QED
        BY <1>4, <1>5, <2>5, <4>1, <4>2, Zenon
    <3>2. CASE i \in 1 .. d
      BY <1>4, <2>3, <2>4, <3>2, Zenon
    <3> QED
      BY <2>2, <3>1, <3>2, Zenon
  <2>7. ASSUME id \notin crossed', id \notin missed' PROVE Matches(t)'
    <3>1. h = ret /\ id \notin crossed /\ id \notin missed
      BY <1>3, <2>7, Zenon
    <3>2. ASSUME NEW i \in 1 .. (d + 1), NEW j \in 1 .. (d + 1), i < j, frame'[t][i].hooked
          PROVE  frame'[t][j].hooked
      <4>1. i \in 1 .. d /\ d > 0
        BY <1>2, <3>2
      <4>2. CASE j = d + 1
        BY <1>2, <1>5, <1>6, <2>3, <2>4, <3>1, <3>2, <4>1, <4>2, Zenon
      <4>3. CASE j \in 1 .. d
        BY <1>1, <2>1, <2>3, <3>1, <3>2, <4>1, <4>3, Zenon DEF ThreadInv, Served, Matches
      <4> QED
        BY <2>2, <4>2, <4>3, Zenon
    <3>3. \A i, j \in 1 .. (d + 1) : i < j /\ frame'[t][i].hooked => frame'[t][j].hooked
      BY <3>2, Zenon
    <3>4. parms'[id] # NoParms => parms'[id] = p
      BY <1>7, Zenon
    <3> QED
      BY <1>1, <1>5, <1>6, <2>1, <3>3, <3>4, Zenon DEF Matches
  <2>8. made.stored => parms'[id] # NoParms
    BY Zenon, RetProbeAssumption, <1>5, <1>7
  <2> QED
    BY <1>1, <1>4, <1>6, <2>1, <2>2, <2>6, <2>7, <2>8, Zenon DEF ThreadInv, Served
<1>13. \A u \in Threads \ {t} : ThreadInv(u)'
  BY <1>1, <1>8, <1>9, OthersKeep, Zenon
<1>14. Alone'
  BY <1>1, <1>8, <1>9, AloneKeeps, Zenon
<1> QED
  BY <1>4, <1>10, <1>11, <1>12, <1>13, <1>14, Zenon DEF ProbedInv, SkippedForReason

\* A thread leaves all but d calls; what is inside is what it was.
LEMMA LeaveIs ==
  ASSUME ProbedInv, NEW t \in Threads, depth[t] > 0, NEW d \in Nat, d < depth[t], Leave(t, d)
  PROVE  /\ depth'[t] = d
         /\ \A i \in 1 .. d : frame'[t][i] = frame[t][i] /\ i \in 1 .. depth[t] /\ i < depth[t]
         /\ \A u \in Threads \ {t} : depth'[u] = depth[u] /\ frame'[u] = frame[u]
         /\ \A u \in Threads \ {t} : IdOf(u) = IdOf(t) /\ depth[u] > 0 => IdOf(t) \in crossed'
         /\ \A id \in Ids \ {IdOf(t)} : (id \in missed' <=> id \in missed) /\ (id \in crossed' <=> id \in crossed)
         /\ d > 0 => missed' = missed /\ crossed' = crossed
         /\ depth' \in [Threads -> 0 .. MaxDepth] /\ frame' \in [Threads -> [1 .. MaxDepth -> Frame]]
         /\ UNCHANGED <<enter, ret>>
<1>1. ProbedTypes /\ MaxDepth \in Nat
  BY RetProbeAssumption, Zenon DEF ProbedInv
<1>2. /\ depth' = [depth EXCEPT ![t] = d]
      /\ frame' = [frame EXCEPT ![t] = [i \in 1 .. MaxDepth |-> IF i > d THEN NoCall ELSE frame[t][i]]]
      /\ missed' = IF d > 0 \/ Company(t) THEN missed ELSE missed \ {IdOf(t)}
      /\ crossed' = IF d > 0 \/ Company(t) THEN crossed ELSE crossed \ {IdOf(t)}
      /\ UNCHANGED <<enter, ret>>
  BY Zenon DEF Leave
<1>3. d \in 0 .. MaxDepth /\ \A i \in 1 .. d : i \in 1 .. MaxDepth /\ ~(i > d) /\ i \in 1 .. depth[t] /\ i < depth[t]
  BY <1>1 DEF ProbedTypes
<1>4. \A u \in Threads \ {t} : IdOf(u) = IdOf(t) /\ depth[u] > 0 => IdOf(t) \in crossed'
  <2> SUFFICES ASSUME NEW u \in Threads \ {t}, IdOf(u) = IdOf(t), depth[u] > 0
               PROVE  IdOf(t) \in crossed'
    BY Zenon
  <2>1. Company(t) /\ IdOf(t) \in crossed
    BY Zenon DEF Company, ProbedInv, Alone
  <2> QED
    BY <1>2, <2>1, Zenon
<1>5. NoCall \in Frame
  BY Zenon DEF NoCall, Frame
<1>6. [i \in 1 .. MaxDepth |-> IF i > d THEN NoCall ELSE frame[t][i]] \in [1 .. MaxDepth -> Frame]
  BY <1>1, <1>5, Zenon DEF ProbedTypes
<1>7. frame' \in [Threads -> [1 .. MaxDepth -> Frame]] /\ depth' \in [Threads -> 0 .. MaxDepth]
  BY <1>1, <1>2, <1>3, <1>6, Zenon DEF ProbedTypes
<1>8. /\ \A i \in 1 .. d : frame'[t][i] = frame[t][i]
      /\ \A u \in Threads \ {t} : depth'[u] = depth[u] /\ frame'[u] = frame[u]
      /\ depth'[t] = d
  BY <1>1, <1>2, <1>3, Zenon DEF ProbedTypes
<1> QED
  BY <1>2, <1>3, <1>4, <1>7, <1>8, Zenon

\* A return, seen or not, or a death keeps the invariant: the entry is deleted,
\* or the innermost call was not seen, or no call is left.
LEMMA LeaveKeeps ==
  ASSUME ProbedInv, NEW t \in Threads, depth[t] > 0, NEW d \in Nat, Leave(t, d),
         d = 0 \/ d = depth[t] - 1,
         read' = [read EXCEPT ![t] = NoParms], ~skipped',
         parms' \in [Ids -> Parms \cup {NoParms}],
         \A id \in Ids \ {IdOf(t)} : parms'[id] = parms[id],
         parms'[IdOf(t)] \in {parms[IdOf(t)], NoParms},
         d # 0 => ~Seen(t) \/ parms'[IdOf(t)] = NoParms
  PROVE  ProbedInv'
<1>1. ProbedTypes /\ IdOf(t) \in Ids /\ ThreadInv(t)
  BY IdsAre, Zenon DEF ProbedInv
<1>2. depth[t] \in Nat /\ d < depth[t]
  BY <1>1, RetProbeAssumption DEF ProbedTypes
<1>3. /\ depth'[t] = d
      /\ \A i \in 1 .. d : frame'[t][i] = frame[t][i] /\ i \in 1 .. depth[t] /\ i < depth[t]
      /\ \A u \in Threads \ {t} : depth'[u] = depth[u] /\ frame'[u] = frame[u]
      /\ \A u \in Threads \ {t} : IdOf(u) = IdOf(t) /\ depth[u] > 0 => IdOf(t) \in crossed'
      /\ \A id \in Ids \ {IdOf(t)} : (id \in missed' <=> id \in missed) /\ (id \in crossed' <=> id \in crossed)
      /\ d > 0 => missed' = missed /\ crossed' = crossed
      /\ depth' \in [Threads -> 0 .. MaxDepth] /\ frame' \in [Threads -> [1 .. MaxDepth -> Frame]]
      /\ UNCHANGED <<enter, ret>>
  BY <1>2, LeaveIs, Zenon
<1>4. read' \in [Threads -> Parms \cup {NoParms}] /\ read'[t] = NoParms /\ \A u \in Threads \ {t} : read'[u] = read[u]
  BY <1>1, Zenon DEF ProbedTypes
<1>5. ProbedTypes'
  BY <1>1, <1>3, <1>4, Zenon DEF ProbedTypes
<1>6. Stored'
  BY <1>3, Zenon DEF ProbedInv, Stored
<1>7. OnlyFor(t)
  BY <1>3, <1>4, Zenon DEF OnlyFor
<1>8. Alone' /\ \A u \in Threads \ {t} : ThreadInv(u)'
  BY <1>3, <1>7, AloneKeeps, OthersKeep, Zenon
<1>9. Layers(t)'
  BY <1>1, <1>3, Zenon DEF ThreadInv, Layers
<1>10. ASSUME d > 0, IdOf(t) \notin crossed' PROVE Served(t)'
  <2>1. d = depth[t] - 1 /\ d # 0 /\ d \in 1 .. d /\ depth[t] \in 1 .. depth[t] /\ d < depth[t]
    BY <1>2, <1>10
  <2>2. Top(t)' = frame[t][d] /\ frame[t][d].nested /\ Seen(t)' = frame[t][d].hooked
    BY <1>1, <1>3, <2>1, Zenon DEF Top, Seen, ThreadInv, Layers
  <2>3. ASSUME IdOf(t) \notin missed' PROVE Matches(t)'
    <3>1. Matches(t)
      BY <1>1, <1>3, <1>10, <2>3, Zenon DEF ThreadInv, Served
    <3>2. Seen(t)' /\ parms'[IdOf(t)] # NoParms => FALSE
      BY <1>3, <2>1, <2>2, <3>1, Zenon DEF Matches, Seen, Top
    <3> QED
      BY <1>3, <3>1, <3>2, Zenon DEF Matches
  <2> QED
    BY <1>4, <2>2, <2>3, Zenon DEF Served
<1>11. ThreadInv(t)'
  BY <1>3, <1>4, <1>9, <1>10, Zenon DEF ThreadInv
<1> QED
  BY <1>5, <1>6, <1>8, <1>11, Zenon DEF ProbedInv, SkippedForReason

\* A return that no probe sees, or that finds no entry.
LEMMA ReturnKeeps ==
  ASSUME ProbedInv, NEW t \in Threads, Return(t)
  PROVE  ProbedInv'
<1>1. /\ depth[t] > 0 /\ read[t] = NoParms /\ (~Seen(t) \/ parms[IdOf(t)] = NoParms)
      /\ Leave(t, depth[t] - 1) /\ UNCHANGED <<parms, read>>
      /\ skipped' = (skipped \/ (Seen(t) /\ Top(t).stored /\ ~Top(t).nested /\ IdOf(t) \notin crossed))
  BY Zenon DEF Return
<1>2. PICK d : d = depth[t] - 1
  BY Zenon
<1>3. d \in Nat
  BY <1>1, <1>2, RetProbeAssumption DEF ProbedInv, ProbedTypes
<1>4. Seen(t) /\ Top(t).stored /\ ~Top(t).nested => IdOf(t) \in crossed
  BY <1>1, Zenon DEF ProbedInv, ThreadInv, Served
<1>5. ~skipped'
  BY <1>1, <1>4, Zenon DEF ProbedInv, SkippedForReason
<1>6. read' = [read EXCEPT ![t] = NoParms] /\ parms' \in [Ids -> Parms \cup {NoParms}]
  BY <1>1, Zenon DEF ProbedInv, ProbedTypes
<1>7. Leave(t, d)
  BY <1>1, <1>2, Zenon
<1> QED
  BY <1>1, <1>2, <1>3, <1>5, <1>6, <1>7, LeaveKeeps, Zenon

\* A return that the probe sees: the entry has been read and is deleted.
LEMMA RetDeleteKeeps ==
  ASSUME ProbedInv, NEW t \in Threads, RetDelete(t)
  PROVE  ProbedInv'
<1>1. /\ read[t] # NoParms /\ Leave(t, depth[t] - 1) /\ UNCHANGED skipped
      /\ parms' = [parms EXCEPT ![IdOf(t)] = NoParms] /\ read' = [read EXCEPT ![t] = NoParms]
  BY Zenon DEF RetDelete
<1>2. depth[t] > 0 /\ IdOf(t) \in Ids
  BY <1>1, IdsAre, Zenon DEF ProbedInv, ThreadInv
<1>3. PICK d : d = depth[t] - 1
  BY Zenon
<1>4. d \in Nat
  BY <1>2, <1>3, RetProbeAssumption DEF ProbedInv, ProbedTypes
<1>5. /\ parms' \in [Ids -> Parms \cup {NoParms}] /\ parms'[IdOf(t)] = NoParms
      /\ \A id \in Ids \ {IdOf(t)} : parms'[id] = parms[id]
  BY <1>1, <1>2, Zenon DEF ProbedInv, ProbedTypes
<1>6. Leave(t, d) /\ ~skipped'
  BY <1>1, <1>3, Zenon DEF ProbedInv, SkippedForReason
<1> QED
  BY <1>1, <1>2, <1>3, <1>4, <1>5, <1>6, LeaveKeeps, Zenon

\* A thread dies inside the function.
LEMMA DieKeeps ==
  ASSUME ProbedInv, NEW t \in Threads, Die(t)
  PROVE  ProbedInv'
<1>1. depth[t] > 0 /\ read[t] = NoParms /\ Leave(t, 0) /\ UNCHANGED <<parms, read, skipped>>
  BY Zenon DEF Die
<1>2. /\ read' = [read EXCEPT ![t] = NoParms] /\ parms' \in [Ids -> Parms \cup {NoParms}]
      /\ ~skipped'
  BY <1>1, Zenon DEF ProbedInv, ProbedTypes, SkippedForReason
<1>3. PICK d \in Nat : d = 0
  OBVIOUS
<1>4. Leave(t, d)
  BY <1>1, <1>3, Zenon
<1> QED
  BY <1>1, <1>2, <1>3, <1>4, LeaveKeeps, Zenon

\* The return probe reads the entry.
LEMMA RetGetKeeps ==
  ASSUME ProbedInv, NEW t \in Threads, RetGet(t)
  PROVE  ProbedInv'
<1>1. /\ depth[t] > 0 /\ Seen(t) /\ read' = [read EXCEPT ![t] = parms[IdOf(t)]]
      /\ UNCHANGED <<enter, ret, parms, depth, frame, missed, crossed, skipped>>
  BY Zenon DEF RetGet
<1>2. /\ read' \in [Threads -> Parms \cup {NoParms}] /\ read'[t] = parms[IdOf(t)]
      /\ \A u \in Threads \ {t} : read'[u] = read[u]
  BY <1>1, IdsAre, Zenon DEF ProbedInv, ProbedTypes
<1>3. ProbedTypes' /\ Stored' /\ Alone' /\ SkippedForReason'
  BY <1>1, <1>2, Zenon DEF ProbedInv, ProbedTypes, Stored, Alone, SkippedForReason
<1>4. ASSUME NEW u \in Threads PROVE ThreadInv(u)'
  <2>1. ThreadInv(u)
    BY Zenon DEF ProbedInv
  <2>2. Layers(u)' /\ (Matches(u) => Matches(u)') /\ Top(u)' = Top(u) /\ Seen(u)' = Seen(u)
    BY <1>1, <2>1, Zenon DEF ThreadInv, Layers, Matches, Top, Seen
  <2>3. CASE u = t
    BY <1>1, <1>2, <2>1, <2>2, <2>3, Zenon DEF ThreadInv, Served
  <2>4. CASE u # t
    BY <1>1, <1>2, <2>1, <2>2, <2>4, Zenon DEF ThreadInv, Served
  <2> QED
    BY <2>3, <2>4, Zenon
<1> QED
  BY <1>3, <1>4, Zenon DEF ProbedInv

\* A probe is attached, or nothing happens.
LEMMA AttachKeeps ==
  ASSUME ProbedInv, AttachEnter \/ AttachRet \/ UNCHANGED probedVars
  PROVE  ProbedInv'
<1>1. /\ UNCHANGED <<parms, depth, frame, read, missed, crossed, skipped>>
      /\ enter' \in BOOLEAN /\ ret' \in BOOLEAN /\ (enter => enter') /\ (ret => ret')
  BY Zenon DEF AttachEnter, AttachRet, probedVars, callVars, ProbedInv, ProbedTypes
<1>2. ProbedTypes' /\ Stored' /\ Alone' /\ SkippedForReason'
  BY <1>1, Zenon DEF ProbedInv, ProbedTypes, Stored, Alone, SkippedForReason
<1>3. ASSUME NEW u \in Threads PROVE ThreadInv(u)'
  <2>1. ThreadInv(u)
    BY Zenon DEF ProbedInv
  <2>2. Layers(u)' /\ (Matches(u) => Matches(u)') /\ Top(u)' = Top(u) /\ Seen(u)' = Seen(u)
    BY <1>1, <2>1, Zenon DEF ThreadInv, Layers, Matches, Top, Seen
  <2> QED
    BY <1>1, <2>1, <2>2, Zenon DEF ThreadInv, Served
<1> QED
  BY <1>2, <1>3, Zenon DEF ProbedInv

\* Every step of every actor.
LEMMA ProbedKeeps == ProbedInv /\ [ProbedNext]_probedVars => ProbedInv'
  BY CallKeeps, ReturnKeeps, RetGetKeeps, RetDeleteKeeps, DieKeeps, AttachKeeps, Zenon DEF ProbedNext

\* What the handler gets is the entry, and the entry matches.
LEMMA ServedRight == ProbedInv => ParmsOriginal
  BY Zenon DEF ProbedInv, ThreadInv, Served, Matches, ParmsOriginal

\* The handler gets the parameters of the call that returns, for any number of
\* threads and CPUs, any recursion and any capacity of the map of
\* probe_pair_impl, unless the kernel has missed a return of the thread
\* meanwhile or another idle task has been inside the function.
THEOREM ParmsCorrect == ProbedSpec => []ParmsOriginal
  BY ProbedStart, ProbedKeeps, ServedRight, PTL DEF ProbedSpec

\* The handler is called for every return the return probe sees, but for calls
\* whose parameters did not fit the map, that had another call on top, or that
\* idle tasks of two CPUs made at once.
THEOREM SkipsForReason == ProbedSpec => []SkippedForReason
<1>1. ProbedInv => SkippedForReason
  BY Zenon DEF ProbedInv
<1> QED
  BY ProbedStart, ProbedKeeps, <1>1, PTL DEF ProbedSpec

-----------------------------------------------------------------------------
(* The probes and the report of redbpf-iotop: Iotop                        *)

Probes ==
  {NotRunning} \cup [pc : {"zero", "again", "delete"}, req : Reqs, key : ProcessKeys]
    \cup [pc : {"load"}, req : Reqs, key : ProcessKeys, ptr : CounterElems]
    \cup [pc : {"store"}, req : Reqs, key : ProcessKeys, ptr : CounterElems, io : Int]

TopTypes ==
  /\ req \in [Reqs -> {"free", "new", "issued", "done"}]
  /\ owner \in [Reqs -> ProcessKeys]
  /\ processes \in [Reqs -> ProcessKeys \cup {NoEntry}]
  /\ counts \in [ProcessKeys -> CounterElems \cup {NoCounter}]
  /\ ios \in [CounterElems -> Int] /\ extra \in [TopCpus -> CounterElems]
  /\ report \in [ProcessKeys -> Int] /\ charged \in [ProcessKeys -> Nat]
  /\ probe \in [TopCpus -> Probes]
  /\ seen \in [Reqs -> BOOLEAN] /\ recycled \in BOOLEAN

\* From blk_account_io_start to the end of the request, its entry is that of
\* its own process, and so is the key taken from it; do_complete runs once for
\* the requests that are done.
Owned ==
  /\ \A r \in Reqs : seen[r] = TRUE /\ req[r] # "free" => processes[r] \in {owner[r], NoEntry}
  /\ \A c \in TopCpus : probe[c].pc # "idle" =>
       /\ req[probe[c].req] = "done"
       /\ seen[probe[c].req] = TRUE => probe[c].key \in {owner[probe[c].req], Unknown}
       /\ \A d \in TopCpus : probe[d].pc # "idle" /\ probe[d].req = probe[c].req => d = c

\* The probe has a pointer to an element.
Holds(q) == q.pc \in {"load", "store"}

\* No element of counts is used twice.
Distinct ==
  /\ \A p, q \in ProcessKeys : counts[p] = counts[q] /\ counts[p] # NoCounter => p = q
  /\ \A p \in ProcessKeys, c \in TopCpus : counts[p] # extra[c]
  /\ \A c, d \in TopCpus : extra[c] = extra[d] => c = d
  /\ \A p \in ProcessKeys : counts[p] = NoCounter =>
       /\ \A q \in ProcessKeys : counts[q] # CounterOf(p)
       /\ \A c \in TopCpus : /\ extra[c] # CounterOf(p)
                             /\ Holds(probe[c]) => probe[c].ptr # CounterOf(p)

\* Who has a pointer to an element counts for the process whose element it is,
\* and has read no more there than was charged.
Counting ==
  recycled = FALSE =>
    /\ \A c \in TopCpus : Holds(probe[c]) =>
         /\ \A p \in ProcessKeys : probe[c].ptr = counts[p] => probe[c].key = p
         /\ \A d \in TopCpus : Holds(probe[d]) /\ probe[d].ptr = probe[c].ptr => probe[d].key = probe[c].key
         /\ ios[probe[c].ptr] <= charged[probe[c].key]
         /\ probe[c].pc = "store" => probe[c].io <= charged[probe[c].key]
    /\ \A p \in ProcessKeys : /\ counts[p] # NoCounter => ios[counts[p]] <= charged[p]
                              /\ report[p] <= charged[p]

\* With two CPUs, the entry that a CPU is about to make is not there yet when the
\* other one has a pointer to the extra element.
Three == \E a, b, c \in TopCpus : a # b /\ b # c /\ a # c

Pairs ==
  ~Three =>
    /\ recycled = FALSE
    /\ \A c, d \in TopCpus :
         probe[c].pc = "zero" /\ Holds(probe[d]) /\ probe[d].ptr = extra[c] =>
           counts[probe[c].key] = NoCounter

TopInv == TopTypes /\ Owned /\ Distinct /\ Counting /\ Pairs

\* Where the probe of a completion can stand, and what it then knows.
LEMMA ProbeCases ==
  ASSUME NEW q \in Probes
  PROVE  /\ q.pc \in {"idle", "zero", "again", "load", "store", "delete"}
         /\ q.pc # "idle" => q.req \in Reqs /\ q.key \in ProcessKeys
         /\ Holds(q) => q.ptr \in CounterElems
         /\ q.pc = "store" => q.io \in Int
         /\ q.pc = "zero" => q = [pc |-> "zero", req |-> q.req, key |-> q.key]
  BY DEF Probes, NotRunning, Holds

\* The records that the actions make are places of a probe.
LEMMA ProbesAre ==
  /\ NotRunning \in Probes /\ NotRunning.pc = "idle"
  /\ \A q \in {"zero", "again", "delete"}, r \in Reqs, k \in ProcessKeys :
       /\ [pc |-> q, req |-> r, key |-> k] \in Probes
       /\ [pc |-> q, req |-> r, key |-> k].pc = q
       /\ [pc |-> q, req |-> r, key |-> k].req = r /\ [pc |-> q, req |-> r, key |-> k].key = k
  /\ \A r \in Reqs, k \in ProcessKeys, e \in CounterElems :
       /\ AtCounter(r, k, e) \in Probes /\ AtCounter(r, k, e).pc = "load"
       /\ AtCounter(r, k, e).req = r /\ AtCounter(r, k, e).key = k /\ AtCounter(r, k, e).ptr = e
  /\ \A r \in Reqs, k \in ProcessKeys, e \in CounterElems, i \in Int :
       LET q == [pc |-> "store", req |-> r, key |-> k, ptr |-> e, io |-> i]
       IN  q \in Probes /\ q.pc = "store" /\ q.req = r /\ q.key = k /\ q.ptr = e /\ q.io = i
  BY DEF Probes, NotRunning, AtCounter

\* Process ids are numbers, the unknown one included.
LEMMA ProcessKeysAre == ProcessKeys \subseteq Nat /\ Unknown \in ProcessKeys /\ NoEntry \notin Nat /\ NoEntry \in Int
  BY TopAssumption DEF ProcessKeys, Unknown, NoEntry

\* The elements of the processes and the extra ones of the CPUs are all different.
LEMMA CounterElemsDiffer ==
  /\ NoCounter \notin CounterElems
  /\ \A p \in ProcessKeys : CounterOf(p) \in CounterElems
  /\ \A c \in TopCpus : ExtraOf(c) \in CounterElems
  /\ \A p, q \in ProcessKeys : CounterOf(p) = CounterOf(q) => p = q
  /\ \A c, d \in TopCpus : ExtraOf(c) = ExtraOf(d) => c = d
  /\ \A p \in ProcessKeys, c \in TopCpus : CounterOf(p) # ExtraOf(c)
  BY Zenon DEF NoCounter, CounterElems, CounterOf, ExtraOf

\* Empty maps satisfy the invariant.
LEMMA TopStart == TopInit => TopInv
<1> SUFFICES ASSUME TopInit PROVE TopInv
  BY Zenon
<1>1. TopTypes
  <2>1. 0 \in Int /\ 0 \in Nat
    OBVIOUS
  <2> QED
    BY <2>1, ProbesAre, ProcessKeysAre, CounterElemsDiffer, Zenon DEF TopInit, TopTypes
<1>2. /\ \A c \in TopCpus : probe[c].pc = "idle" /\ ~Holds(probe[c]) /\ extra[c] = ExtraOf(c)
      /\ \A r \in Reqs : req[r] = "free"
      /\ \A p \in ProcessKeys : counts[p] = NoCounter /\ report[p] = NoEntry /\ charged[p] = 0
      /\ recycled = FALSE
  BY ProbesAre, Zenon DEF TopInit, Holds
<1>3. Owned
  BY <1>2, Zenon DEF Owned
<1>4. Distinct
  BY <1>2, CounterElemsDiffer DEF Distinct
<1>5. Counting
  <2>1. NoEntry <= 0
    BY DEF NoEntry
  <2> QED
    BY <1>2, <2>1, Zenon DEF Counting
<1>6. Pairs
  BY <1>2, Zenon DEF Pairs
<1> QED
  BY <1>1, <1>3, <1>4, <1>5, <1>6, Zenon DEF TopInv

\* What is known of a probe in the middle of do_complete.
LEMMA AtProbe ==
  ASSUME TopInv, NEW c \in TopCpus, probe[c].pc # "idle"
  PROVE  /\ probe[c] \in Probes /\ probe[c].req \in Reqs /\ probe[c].key \in ProcessKeys
         /\ Holds(probe[c]) => probe[c].ptr \in CounterElems
         /\ probe[c].pc = "store" => probe[c].io \in Int
<1>1. probe[c] \in Probes
  BY Zenon DEF TopInv, TopTypes
<1> QED
  BY <1>1, ProbeCases, Zenon

-----------------------------------------------------------------------------
(* Requests and their processes                                            *)

\* blk_account_io_start puts the process in the place of whatever an earlier
\* request has left, or there is no entry.
LEMMA AccountKeeps ==
  ASSUME TopInv, NEW r \in Reqs, NEW p \in Pids, NEW skip \in BOOLEAN, AccountIoStart(r, p, skip)
  PROVE  TopInv'
<1>1. p \in ProcessKeys
  BY Zenon DEF ProcessKeys
<1>2. /\ req[r] = "free" /\ req' = [req EXCEPT ![r] = "new"]
      /\ owner' = [owner EXCEPT ![r] = p] /\ seen' = [seen EXCEPT ![r] = ~skip]
      /\ UNCHANGED <<counts, ios, extra, recycled, probe, charged, report>>
  BY Zenon DEF AccountIoStart, countsVars
<1>3. /\ processes' \in [Reqs -> ProcessKeys \cup {NoEntry}]
      /\ \A s \in Reqs : s # r => processes'[s] = processes[s]
      /\ skip = FALSE => processes'[r] \in {p, NoEntry}
  <2>1. CASE skip
    BY <2>1, Zenon DEF AccountIoStart, TopInv, TopTypes
  <2>2. CASE ~skip
    <3>1. processes' = SetProcess(r, p)
      BY <2>2, Zenon DEF AccountIoStart
    <3>2. CASE r \in Known \/ Cardinality(Known) < MaxEnt
      <4>1. processes' = [processes EXCEPT ![r] = p]
        BY <3>1, <3>2, Zenon DEF SetProcess
      <4> QED
        BY <1>1, <4>1, Zenon DEF TopInv, TopTypes
    <3>3. CASE ~(r \in Known \/ Cardinality(Known) < MaxEnt)
      <4>1. processes' = processes /\ processes[r] = NoEntry
        BY <3>1, <3>3, Zenon DEF SetProcess, Known
      <4> QED
        BY <4>1, Zenon DEF TopInv, TopTypes
    <3> QED
      BY <3>2, <3>3, Zenon
  <2> QED
    BY <2>1, <2>2, Zenon
<1>4. TopTypes'
  BY <1>1, <1>2, <1>3, Zenon DEF TopInv, TopTypes
<1>5. \A s \in Reqs : /\ s # r => req'[s] = req[s] /\ owner'[s] = owner[s] /\ seen'[s] = seen[s]
                      /\ s = r => owner'[s] = p /\ seen'[s] = ~skip
  BY <1>2, Zenon DEF TopInv, TopTypes
<1>6. \A c \in TopCpus : probe[c].pc # "idle" => probe[c].req \in Reqs /\ probe[c].req # r
  BY <1>2, AtProbe, Zenon DEF TopInv, Owned
<1>7. Owned'
  <2>1. \A s \in Reqs : seen'[s] = TRUE /\ req'[s] # "free" => processes'[s] \in {owner'[s], NoEntry}
    BY <1>3, <1>5, Zenon DEF TopInv, Owned
  <2> QED
    BY <1>2, <1>5, <1>6, <2>1 DEF TopInv, Owned
<1>8. Distinct' /\ Counting' /\ Pairs'
  BY <1>2, Zenon DEF TopInv, Distinct, Counting, Pairs
<1> QED
  BY <1>4, <1>7, <1>8, Zenon DEF TopInv

\* A request that starts, or that ends without a probe.
LEMMA StepKeeps ==
  ASSUME TopInv, NEW r \in Reqs, req[r] \in {"new", "issued"}, NEW s \in {"issued", "free"},
         req' = [req EXCEPT ![r] = s],
         UNCHANGED <<owner, processes, counts, ios, extra, recycled, probe, charged, seen, report>>
  PROVE  TopInv'
<1>1. TopTypes'
  BY Zenon DEF TopInv, TopTypes
<1>2. \A c \in TopCpus : probe[c].pc # "idle" => probe[c].req \in Reqs /\ probe[c].req # r
  BY AtProbe, Zenon DEF TopInv, Owned
<1>3. \A x \in Reqs : x # r => req'[x] = req[x]
  BY Zenon DEF TopInv, TopTypes
<1>4. Owned'
  BY <1>2, <1>3, Zenon DEF TopInv, Owned
<1>5. Distinct' /\ Counting' /\ Pairs'
  BY Zenon DEF TopInv, Distinct, Counting, Pairs
<1> QED
  BY <1>1, <1>4, <1>5, Zenon DEF TopInv

\* The probe of the CPU c goes on with the same request.
LEMMA OwnedGoesOn ==
  ASSUME TopInv, NEW c \in TopCpus, probe[c].pc # "idle", NEW q \in Probes, Running(c, q),
         q.req = probe[c].req, q.key = probe[c].key,
         UNCHANGED <<req, owner, processes, seen>>
  PROVE  Owned'
<1>1. probe'[c] = q /\ \A d \in TopCpus : d # c => probe'[d] = probe[d]
  BY Zenon DEF Running, TopInv, TopTypes
<1>2. \A d \in TopCpus : probe'[d].pc # "idle" =>
        probe[d].pc # "idle" /\ probe'[d].req = probe[d].req /\ probe'[d].key = probe[d].key
  BY <1>1, Zenon
<1> QED
  BY <1>2 DEF TopInv, Owned

\* The probe ends, and so does the request.
LEMMA OwnedEnds ==
  ASSUME TopInv, NEW c \in TopCpus, probe[c].pc # "idle", Finish(c), UNCHANGED <<owner, seen>>,
         \A r \in Reqs : r # probe[c].req => processes'[r] = processes[r]
  PROVE  Owned'
<1>1. probe'[c].pc = "idle" /\ \A d \in TopCpus : d # c => probe'[d] = probe[d]
  BY ProbesAre DEF Finish, Running, TopInv, TopTypes
<1>2. probe[c].req \in Reqs
  BY AtProbe, Zenon
<1>3. req'[probe[c].req] = "free" /\ \A r \in Reqs : r # probe[c].req => req'[r] = req[r]
  BY <1>2, Zenon DEF Finish, TopInv, TopTypes
<1>4. \A d \in TopCpus : probe'[d].pc # "idle" =>
        d # c /\ probe'[d] = probe[d] /\ probe[d].req \in Reqs /\ probe[d].req # probe[c].req
  BY <1>1, AtProbe, Zenon DEF TopInv, Owned
<1>5. \A r \in Reqs : seen'[r] = TRUE /\ req'[r] # "free" => processes'[r] \in {owner'[r], NoEntry}
  BY <1>3, Zenon DEF TopInv, Owned
<1> QED
  BY <1>3, <1>4, <1>5 DEF TopInv, Owned

-----------------------------------------------------------------------------
(* Elements and pointers                                                   *)

\* Reports and charges of the map, and its elements, stay as they are.
CountsStay == UNCHANGED <<counts, ios, extra, recycled, charged, report>>

\* The probe of the CPU c moves on, with the pointer it has, with one it has just
\* found, or with none.
LEMMA PassKeeps ==
  ASSUME TopInv, NEW c \in TopCpus, NEW q \in Probes, Running(c, q), CountsStay,
         Holds(q) => \/ q.key \in ProcessKeys /\ q.ptr = counts[q.key] /\ q.ptr # NoCounter
                     \/ Holds(probe[c]) /\ q.ptr = probe[c].ptr /\ q.key = probe[c].key,
         q.pc = "store" => q.io = ios[q.ptr],
         q.pc = "zero" => counts[q.key] = NoCounter
  PROVE  Distinct' /\ Counting' /\ Pairs'
<1>1. probe'[c] = q /\ \A d \in TopCpus : d # c => probe'[d] = probe[d]
  BY Zenon DEF Running, TopInv, TopTypes
<1>2. UNCHANGED <<counts, ios, extra, recycled, charged, report>>
  BY Zenon DEF CountsStay
<1>3. Distinct /\ Counting /\ Pairs
  BY Zenon DEF TopInv
\* A pointer is that of an entry, or an old one.
<1>4. \A d \in TopCpus : Holds(probe'[d]) =>
        \/ /\ probe'[d].key \in ProcessKeys /\ probe'[d].ptr = counts[probe'[d].key]
           /\ probe'[d].ptr # NoCounter
        \/ Holds(probe[d]) /\ probe'[d].ptr = probe[d].ptr /\ probe'[d].key = probe[d].key
  BY <1>1, Zenon
<1>5. \A d \in TopCpus : probe'[d].pc = "store" =>
        probe'[d].io = ios[probe'[d].ptr] \/ probe'[d] = probe[d]
  BY <1>1, Zenon
<1>6. Distinct'
  <2>1. ASSUME NEW p \in ProcessKeys, counts[p] = NoCounter, NEW d \in TopCpus, Holds(probe'[d])
        PROVE  probe'[d].ptr # CounterOf(p)
    BY <1>3, <1>4, <2>1 DEF Distinct
  <2> QED
    BY <1>2, <1>3, <2>1, Zenon DEF Distinct
<1>7. Counting'
  <2> SUFFICES ASSUME recycled = FALSE PROVE Counting'
    BY <1>2, Zenon DEF Counting
  <2>1. ASSUME NEW d \in TopCpus, Holds(probe'[d]), NEW p \in ProcessKeys, probe'[d].ptr = counts[p]
        PROVE  probe'[d].key = p
    BY <1>3, <1>4, <2>1 DEF Distinct, Counting
  <2>2. ASSUME NEW d \in TopCpus, Holds(probe'[d]), NEW x \in TopCpus, Holds(probe'[x]),
               probe'[x].ptr = probe'[d].ptr
        PROVE  probe'[x].key = probe'[d].key
    <3>1. CASE \E p \in ProcessKeys : probe'[x].ptr = counts[p]
      BY <2>1, <2>2, <3>1, Zenon
    <3>2. CASE ~\E p \in ProcessKeys : probe'[x].ptr = counts[p]
      BY <1>3, <1>4, <2>2, <3>2 DEF Counting
    <3> QED
      BY <3>1, <3>2, Zenon
  <2>3. ASSUME NEW d \in TopCpus, Holds(probe'[d])
        PROVE  ios[probe'[d].ptr] <= charged[probe'[d].key]
    <3>1. CASE /\ probe'[d].key \in ProcessKeys /\ probe'[d].ptr = counts[probe'[d].key]
               /\ probe'[d].ptr # NoCounter
      BY <1>3, <3>1, Zenon DEF Counting
    <3>2. CASE Holds(probe[d]) /\ probe'[d].ptr = probe[d].ptr /\ probe'[d].key = probe[d].key
      BY <1>3, <3>2, Zenon DEF Counting
    <3> QED
      BY <1>4, <2>3, <3>1, <3>2, Zenon
  <2>4. ASSUME NEW d \in TopCpus, probe'[d].pc = "store"
        PROVE  probe'[d].io <= charged[probe'[d].key]
    <3>1. Holds(probe'[d])
      BY <2>4, Zenon DEF Holds
    <3>2. CASE probe'[d] = probe[d]
      BY <1>3, <2>4, <3>1, <3>2, Zenon DEF Counting
    <3> QED
      BY <1>5, <2>3, <2>4, <3>1, <3>2, Zenon
  <2> QED
    BY <1>2, <1>3, <2>1, <2>2, <2>3, <2>4, Zenon DEF Counting
<1>8. Pairs'
  <2> SUFFICES ASSUME ~Three, NEW x \in TopCpus, NEW d \in TopCpus, probe'[x].pc = "zero",
                      Holds(probe'[d]), probe'[d].ptr = extra[x]
               PROVE  counts[probe'[x].key] = NoCounter
    BY <1>2, <1>3, Zenon DEF Pairs, Three
  <2>1. Holds(probe[d]) /\ probe'[d].ptr = probe[d].ptr
    BY <1>3, <1>4 DEF Distinct
  <2> QED
    BY <1>1, <1>3, <2>1, Zenon DEF Pairs
<1> QED
  BY <1>6, <1>7, <1>8, Zenon

\* The probe ends.
LEMMA FinishKeeps ==
  ASSUME TopInv, NEW c \in TopCpus, probe[c].pc # "idle", Finish(c), CountsStay, UNCHANGED <<owner, seen>>,
         processes' \in [Reqs -> ProcessKeys \cup {NoEntry}],
         \A r \in Reqs : r # probe[c].req => processes'[r] = processes[r]
  PROVE  TopInv'
<1>1. Running(c, NotRunning) /\ req' = [req EXCEPT ![probe[c].req] = "free"]
  BY Zenon DEF Finish
<1>2. TopTypes'
  BY <1>1, ProbesAre, Zenon DEF Running, CountsStay, TopInv, TopTypes
<1>3. Owned'
  BY OwnedEnds, Zenon
<1>4. ~Holds(NotRunning) /\ NotRunning.pc = "idle" /\ NotRunning \in Probes
  BY ProbesAre, Zenon DEF Holds
<1>5. PICK q : q = NotRunning
  BY Zenon
<1>6. Distinct' /\ Counting' /\ Pairs'
  BY <1>1, <1>4, <1>5, PassKeeps, Zenon
<1> QED
  BY <1>2, <1>3, <1>6, Zenon DEF TopInv

\* The probe moves on.
LEMMA MoveKeeps ==
  ASSUME TopInv, NEW c \in TopCpus, probe[c].pc # "idle", NEW q \in Probes, Running(c, q), CountsStay,
         q.req = probe[c].req, q.key = probe[c].key, UNCHANGED <<req, owner, processes, seen>>,
         Holds(q) => \/ q.key \in ProcessKeys /\ q.ptr = counts[q.key] /\ q.ptr # NoCounter
                     \/ Holds(probe[c]) /\ q.ptr = probe[c].ptr /\ q.key = probe[c].key,
         q.pc = "store" => q.io = ios[q.ptr], q.pc # "zero"
  PROVE  TopInv'
<1>1. TopTypes'
  BY Zenon DEF Running, CountsStay, TopInv, TopTypes
<1>2. Owned'
  BY OwnedGoesOn, Zenon
<1>3. Distinct' /\ Counting' /\ Pairs'
  BY PassKeeps, Zenon
<1> QED
  BY <1>1, <1>2, <1>3, Zenon DEF TopInv

\* A completion begins with the entry of its own request, or none.
LEMMA CompleteKeeps ==
  ASSUME TopInv, NEW c \in TopCpus, NEW r \in Reqs, NEW readable \in BOOLEAN, Complete(c, r, readable)
  PROVE  TopInv'
<1>1. /\ probe[c].pc = "idle" /\ req[r] \in {"new", "issued"} /\ CountsStay
      /\ UNCHANGED <<owner, processes, seen>>
  BY Zenon DEF Complete, countsVars, CountsStay
<1>2. CASE req' = [req EXCEPT ![r] = "free"] /\ probe' = probe
  BY <1>1, <1>2, StepKeeps, Zenon DEF CountsStay
<1>3. CASE r \in start /\ readable
  <2>1. PICK key : key = IF processes[r] = NoEntry THEN Unknown ELSE processes[r]
    BY Zenon
  <2>2. PICK q : q = IF counts[key] = NoCounter THEN [pc |-> "zero", req |-> r, key |-> key]
                     ELSE AtCounter(r, key, counts[key])
    BY Zenon
  <2>3. Running(c, q) /\ req' = [req EXCEPT ![r] = "done"]
    BY <1>3, <2>1, <2>2, Zenon DEF Complete
  <2>4. key \in ProcessKeys
    BY <2>1, ProcessKeysAre, Zenon DEF TopInv, TopTypes
  <2>5. /\ q \in Probes /\ q.pc \in {"zero", "load"} /\ q.req = r /\ q.key = key
        /\ q.pc = "load" => q.ptr = counts[key] /\ q.ptr # NoCounter
        /\ q.pc = "zero" => counts[key] = NoCounter
    <3>1. CASE counts[key] = NoCounter
      <4>1. q = [pc |-> "zero", req |-> r, key |-> key]
        BY <2>2, <3>1, Zenon
      <4>2. q \in Probes /\ q.pc = "zero" /\ q.req = r /\ q.key = key
        BY <2>4, <4>1, ProbesAre, Zenon
      <4> QED
        BY <3>1, <4>2, Zenon
    <3>2. CASE counts[key] # NoCounter
      <4>1. q = AtCounter(r, key, counts[key]) /\ counts[key] \in CounterElems
        BY <2>2, <2>4, <3>2, Zenon DEF TopInv, TopTypes
      <4> QED
        BY <2>4, <3>2, <4>1, ProbesAre
    <3> QED
      BY <3>1, <3>2, Zenon
  <2>6. seen[r] = TRUE => key \in {owner[r], Unknown}
    BY <1>1, <2>1, Zenon DEF TopInv, Owned
  <2>7. TopTypes'
    BY <1>1, <2>3, <2>5, Zenon DEF Running, CountsStay, TopInv, TopTypes
  <2>8. Owned'
    <3>1. probe'[c] = q /\ \A d \in TopCpus : d # c => probe'[d] = probe[d]
      BY <2>3, Zenon DEF Running, TopInv, TopTypes
    <3>2. req'[r] = "done" /\ \A s \in Reqs : s # r => req'[s] = req[s]
      BY <2>3, Zenon DEF TopInv, TopTypes
    <3>3. \A d \in TopCpus : probe[d].pc # "idle" => probe[d].req \in Reqs /\ probe[d].req # r
      BY <1>1, AtProbe, Zenon DEF TopInv, Owned
    <3>4. \A s \in Reqs : seen'[s] = TRUE /\ req'[s] # "free" => processes'[s] \in {owner'[s], NoEntry}
      BY <1>1, <3>2, Zenon DEF TopInv, Owned
    <3>5. ASSUME NEW d \in TopCpus, probe'[d].pc # "idle"
          PROVE  /\ req'[probe'[d].req] = "done"
                 /\ seen'[probe'[d].req] = TRUE => probe'[d].key \in {owner'[probe'[d].req], Unknown}
                 /\ \A x \in TopCpus : probe'[x].pc # "idle" /\ probe'[x].req = probe'[d].req => x = d
      <4>1. CASE d = c
        BY <1>1, <2>5, <2>6, <3>1, <3>2, <3>3, <4>1, Zenon
      <4>2. CASE d # c
        BY <1>1, <2>5, <3>1, <3>2, <3>3, <3>5, <4>2 DEF TopInv, Owned
      <4> QED
        BY <4>1, <4>2, Zenon
    <3> QED
      BY <3>4, <3>5, Zenon DEF Owned
  <2>9. Distinct' /\ Counting' /\ Pairs'
    BY <1>1, <2>3, <2>4, <2>5, PassKeeps, Zenon DEF Holds
  <2> QED
    BY <2>7, <2>8, <2>9, Zenon DEF TopInv
<1> QED
  BY <1>2, <1>3, Zenon DEF Complete

\* counts.set makes an entry with an element that no other entry has; what the
\* other CPUs point to stays where it is.
LEMMA SetZeroKeeps ==
  ASSUME TopInv, NEW c \in TopCpus, SetZero(c)
  PROVE  TopInv'
<1>1. /\ probe[c].pc = "zero" /\ UNCHANGED <<req, owner, processes, charged, seen, report>>
      /\ CountsSet(c, probe[c].key, 0) /\ Running(c, [probe[c] EXCEPT !.pc = "again"])
  BY Zenon DEF SetZero
<1>2. PICK key : key = probe[c].key
  BY Zenon
<1>3. probe[c].req \in Reqs /\ key \in ProcessKeys /\ probe[c] \in Probes
  BY <1>1, <1>2, AtProbe
<1>4. PICK q : q = [pc |-> "again", req |-> probe[c].req, key |-> key]
  BY Zenon
<1>5. Running(c, q)
  <2>1. probe[c] = [pc |-> "zero", req |-> probe[c].req, key |-> key]
    BY <1>1, <1>2, <1>3, ProbeCases, Zenon
  <2>2. [probe[c] EXCEPT !.pc = "again"] = q
    BY <1>4, <2>1
  <2> QED
    BY <1>1, <2>2, Zenon
<1>6. q \in Probes /\ q.pc = "again" /\ q.req = probe[c].req /\ q.key = probe[c].key
  BY <1>2, <1>3, <1>4, ProbesAre
<1>7. ~Holds(q)
  BY <1>6, Zenon DEF Holds
<1>8. CASE UNCHANGED countsVars
  <2>1. CountsStay
    BY <1>1, <1>8, Zenon DEF CountsStay, countsVars
  <2>2. probe[c].pc # "idle" /\ q.pc # "zero" /\ q.pc # "store"
    BY <1>1, <1>6
  <2> QED
    BY <1>1, <1>5, <1>6, <1>7, <2>1, <2>2, MoveKeeps, Zenon
<1>9. CASE ~UNCHANGED countsVars
  <2>1. PICK e : e = IF counts[key] = NoCounter THEN CounterOf(key) ELSE extra[c]
    BY Zenon
  <2>2. /\ counts' = [counts EXCEPT ![key] = e]
        /\ ios' = [ios EXCEPT ![e] = 0]
        /\ extra' = IF counts[key] = NoCounter THEN extra ELSE [extra EXCEPT ![c] = counts[key]]
        /\ recycled' = (recycled \/ \E d \in TopCpus : probe[d].pc \in {"load", "store"} /\ probe[d].ptr = e)
    BY <1>1, <1>2, <1>9, <2>1, Zenon DEF CountsSet
  <2>3. e \in CounterElems
    BY <1>3, <2>1, CounterElemsDiffer, Zenon DEF TopInv, TopTypes
  <2>4. TopTypes'
    <3>1. counts' \in [ProcessKeys -> CounterElems \cup {NoCounter}]
      BY <2>2, <2>3, Zenon DEF TopInv, TopTypes
    <3>2. ios' \in [CounterElems -> Int]
      BY <2>2, <2>3 DEF TopInv, TopTypes
    <3>3. extra' \in [TopCpus -> CounterElems]
      <4>1. CASE counts[key] = NoCounter
        BY <2>2, <4>1, Zenon DEF TopInv, TopTypes
      <4>2. CASE counts[key] # NoCounter
        <5>1. counts[key] \in CounterElems
          BY <1>3, <4>2, Zenon DEF TopInv, TopTypes
        <5> QED
          BY <2>2, <4>2, <5>1, Zenon DEF TopInv, TopTypes
      <4> QED
        BY <4>1, <4>2, Zenon
    <3>4. recycled' \in BOOLEAN
      BY <2>2, Zenon DEF TopInv, TopTypes
    <3>5. probe' \in [TopCpus -> Probes]
      BY <1>5, <1>6, Zenon DEF Running, TopInv, TopTypes
    <3> QED
      BY <1>1, <3>1, <3>2, <3>3, <3>4, <3>5, Zenon DEF TopInv, TopTypes
  <2>5. Owned'
    BY <1>1, <1>5, <1>6, OwnedGoesOn
  <2>6. counts'[key] = e /\ \A p \in ProcessKeys : p # key => counts'[p] = counts[p]
    BY <1>3, <2>2, Zenon DEF TopInv, TopTypes
  <2>7. ios'[e] = 0 /\ \A x \in CounterElems : x # e => ios'[x] = ios[x]
    BY <2>2, <2>3, Zenon DEF TopInv, TopTypes
  <2>8. \A d \in TopCpus :
          extra'[d] = IF d = c /\ counts[key] # NoCounter THEN counts[key] ELSE extra[d]
    BY <2>2, Zenon DEF TopInv, TopTypes
  <2>9. \A d \in TopCpus : /\ d # c => probe'[d] = probe[d]
                           /\ Holds(probe'[d]) => d # c /\ Holds(probe[d])
    <3>1. probe'[c] = q /\ \A d \in TopCpus : d # c => probe'[d] = probe[d]
      BY <1>5, Zenon DEF Running, TopInv, TopTypes
    <3> QED
      BY <1>7, <3>1, Zenon
  <2>10. \A p \in ProcessKeys : counts[p] # e
    <3>1. CASE counts[key] = NoCounter
      BY <1>3, <2>1, <3>1, Zenon DEF TopInv, Distinct
    <3>2. CASE counts[key] # NoCounter
      BY <2>1, <3>2, Zenon DEF TopInv, Distinct
    <3> QED
      BY <3>1, <3>2, Zenon
  <2>11. \A d \in TopCpus : extra'[d] # e
    <3>1. CASE counts[key] = NoCounter
      BY <1>3, <2>1, <2>8, <3>1, Zenon DEF TopInv, Distinct
    <3>2. CASE counts[key] # NoCounter
      <4>1. e = extra[c] /\ counts[key] # e
        BY <1>3, <2>1, <2>10, <3>2, Zenon
      <4> QED
        BY <2>8, <3>2, <4>1 DEF TopInv, Distinct
    <3> QED
      BY <3>1, <3>2, Zenon
  <2>12. \A p \in ProcessKeys : p # key /\ counts[p] = NoCounter => e # CounterOf(p)
    <3>1. CASE counts[key] = NoCounter
      BY <1>3, <2>1, <3>1, CounterElemsDiffer, Zenon
    <3>2. CASE counts[key] # NoCounter
      BY <2>1, <3>2, Zenon DEF TopInv, Distinct
    <3> QED
      BY <3>1, <3>2, Zenon
  <2>13. Distinct'
    <3>1. ASSUME NEW p \in ProcessKeys, NEW r \in ProcessKeys, counts'[p] = counts'[r], counts'[p] # NoCounter
          PROVE  p = r
      BY <2>6, <2>10, <3>1, Zenon DEF TopInv, Distinct
    <3>2. ASSUME NEW p \in ProcessKeys, NEW d \in TopCpus, counts'[p] = extra'[d]
          PROVE  FALSE
      <4>1. p # key /\ counts'[p] = counts[p]
        BY <2>6, <2>11, <3>2, Zenon
      <4>2. CASE d = c /\ counts[key] # NoCounter
        <5>1. counts[p] = counts[key]
          BY <2>8, <3>2, <4>1, <4>2, Zenon
        <5> QED
          BY <1>3, <4>1, <4>2, <5>1, Zenon DEF TopInv, Distinct
      <4>3. CASE ~(d = c /\ counts[key] # NoCounter)
        <5>1. counts[p] = extra[d]
          BY <2>8, <3>2, <4>1, <4>3, Zenon
        <5> QED
          BY <5>1, Zenon DEF TopInv, Distinct
      <4> QED
        BY <4>2, <4>3, Zenon
    <3>3. ASSUME NEW d \in TopCpus, NEW x \in TopCpus, extra'[d] = extra'[x]
          PROVE  d = x
      BY <1>3, <2>8, <3>3 DEF TopInv, Distinct
    <3>4. ASSUME NEW p \in ProcessKeys, counts'[p] = NoCounter
          PROVE  /\ \A r \in ProcessKeys : counts'[r] # CounterOf(p)
                 /\ \A d \in TopCpus : /\ extra'[d] # CounterOf(p)
                                       /\ Holds(probe'[d]) => probe'[d].ptr # CounterOf(p)
      <4>1. p # key /\ counts[p] = NoCounter
        BY <2>3, <2>6, <3>4, CounterElemsDiffer, Zenon
      <4>2. \A r \in ProcessKeys : counts'[r] # CounterOf(p)
        BY <2>6, <2>12, <4>1, Zenon DEF TopInv, Distinct
      <4>3. \A d \in TopCpus : extra'[d] # CounterOf(p)
        BY <1>3, <2>8, <4>1, Zenon DEF TopInv, Distinct
      <4>4. \A d \in TopCpus : Holds(probe'[d]) => probe'[d].ptr # CounterOf(p)
        BY <2>9, <4>1, Zenon DEF TopInv, Distinct
      <4> QED
        BY <4>2, <4>3, <4>4, Zenon
    <3>5. \A p \in ProcessKeys, d \in TopCpus : counts'[p] # extra'[d]
      BY <3>2, Zenon
    <3> QED
      BY <3>1, <3>3, <3>4, <3>5 DEF Distinct
  <2>14. Counting'
    <3> SUFFICES ASSUME recycled' = FALSE PROVE Counting'
      BY Zenon DEF Counting
    <3>1. recycled = FALSE /\ \A d \in TopCpus : Holds(probe[d]) => probe[d].ptr # e
      <4>1. recycled \in BOOLEAN
        BY Zenon DEF TopInv, TopTypes
      <4> QED
        BY <2>2, <4>1, Zenon DEF Holds
    <3>2. \A d \in TopCpus : Holds(probe'[d]) =>
            /\ Holds(probe[d]) /\ probe'[d] = probe[d] /\ probe[d].ptr # e
            /\ ios'[probe[d].ptr] = ios[probe[d].ptr]
      <4>1. \A d \in TopCpus : Holds(probe[d]) => probe[d].ptr \in CounterElems
        BY AtProbe DEF Holds
      <4> QED
        BY <2>7, <2>9, <3>1, <4>1, Zenon
    <3>3. \A p \in ProcessKeys : counts'[p] # NoCounter => ios'[counts'[p]] <= charged[p]
      <4>1. ios'[e] <= charged[key]
        BY <1>3, <2>7 DEF TopInv, TopTypes
      <4>2. ASSUME NEW p \in ProcessKeys, p # key, counts[p] # NoCounter
            PROVE  ios'[counts[p]] <= charged[p]
        <5>1. counts[p] # e /\ counts[p] \in CounterElems
          BY <2>10, <4>2, Zenon DEF TopInv, TopTypes
        <5>2. ios'[counts[p]] = ios[counts[p]]
          BY <2>7, <5>1, Zenon
        <5> QED
          BY <3>1, <4>2, <5>2, Zenon DEF TopInv, Counting
      <4> QED
        BY <2>6, <4>1, <4>2, Zenon
    <3>40. \A d \in TopCpus : Holds(probe[d]) =>
             /\ \A p \in ProcessKeys : probe[d].ptr = counts[p] => probe[d].key = p
             /\ \A x \in TopCpus : Holds(probe[x]) /\ probe[x].ptr = probe[d].ptr => probe[x].key = probe[d].key
             /\ ios[probe[d].ptr] <= charged[probe[d].key]
             /\ probe[d].pc = "store" => probe[d].io <= charged[probe[d].key]
      BY <3>1, Zenon DEF TopInv, Counting
    <3>4. \A d \in TopCpus : Holds(probe'[d]) =>
            \A p \in ProcessKeys : probe'[d].ptr = counts'[p] => probe'[d].key = p
      BY <2>6, <3>2, <3>40
    <3>5. \A d \in TopCpus : Holds(probe'[d]) =>
            /\ \A x \in TopCpus : Holds(probe'[x]) /\ probe'[x].ptr = probe'[d].ptr => probe'[x].key = probe'[d].key
            /\ ios'[probe'[d].ptr] <= charged[probe'[d].key]
            /\ probe'[d].pc = "store" => probe'[d].io <= charged[probe'[d].key]
      <4>1. ASSUME NEW d \in TopCpus, Holds(probe'[d]), NEW x \in TopCpus, Holds(probe'[x]),
                   probe'[x].ptr = probe'[d].ptr
            PROVE  probe'[x].key = probe'[d].key
        <5>1. Holds(probe[d]) /\ probe'[d] = probe[d] /\ Holds(probe[x]) /\ probe'[x] = probe[x]
          BY <3>2, <4>1, Zenon
        <5> QED
          BY <3>40, <4>1, <5>1, Zenon
      <4>2. ASSUME NEW d \in TopCpus, Holds(probe'[d])
            PROVE  /\ ios'[probe'[d].ptr] <= charged[probe'[d].key]
                   /\ probe'[d].pc = "store" => probe'[d].io <= charged[probe'[d].key]
        <5>1. Holds(probe[d]) /\ probe'[d] = probe[d] /\ ios'[probe[d].ptr] = ios[probe[d].ptr]
          BY <3>2, <4>2, Zenon
        <5> QED
          BY <3>40, <5>1, Zenon
      <4> QED
        BY <4>1, <4>2, Zenon
    <3>6. \A p \in ProcessKeys : report[p] <= charged[p]
      BY <3>1, Zenon DEF TopInv, Counting
    <3> QED
      BY <1>1, <3>3, <3>4, <3>5, <3>6, Zenon DEF Counting
  <2>15. Pairs'
    <3> SUFFICES ASSUME ~Three PROVE Pairs'
      BY Zenon DEF Pairs, Three
    <3>1. \A d \in TopCpus : Holds(probe[d]) => probe[d].ptr # e
      <4>1. CASE counts[key] = NoCounter
        BY <1>3, <2>1, <4>1, Zenon DEF TopInv, Distinct
      <4>2. CASE counts[key] # NoCounter
        BY <1>1, <1>2, <2>1, <4>2, Zenon DEF TopInv, Pairs
      <4> QED
        BY <4>1, <4>2, Zenon
    <3>2. recycled' = FALSE
      BY <2>2, <3>1, Zenon DEF Holds, TopInv, Pairs
    <3>3. ASSUME NEW x \in TopCpus, NEW d \in TopCpus, probe'[x].pc = "zero", Holds(probe'[d])
          PROVE  FALSE
      <4>1. d # c /\ x # d
        BY <2>9, <3>3 DEF Holds
      <4>2. x # c
        <5>1. probe'[c] = q
          BY <1>5, Zenon DEF Running, TopInv, TopTypes
        <5> QED
          BY <1>6, <3>3, <5>1
      <4> QED
        BY <4>1, <4>2, Zenon DEF Three
    <3> QED
      BY <3>2, <3>3, Zenon DEF Pairs
  <2> QED
    BY <2>4, <2>5, <2>13, <2>14, <2>15, Zenon DEF TopInv
<1> QED
  BY <1>8, <1>9, Zenon

\* The second counts.get_mut finds the element of the process.
LEMMA GetAgainKeeps ==
  ASSUME TopInv, NEW c \in TopCpus, GetAgain(c)
  PROVE  TopInv'
<1>1. probe[c].pc = "again" /\ UNCHANGED <<owner, processes, seen>> /\ CountsStay
  BY Zenon DEF GetAgain, CountsStay, countsVars
<1>2. probe[c].pc # "idle" /\ probe[c].req \in Reqs /\ probe[c].key \in ProcessKeys
  BY <1>1, AtProbe
<1>3. CASE counts[probe[c].key] = NoCounter
  <2>1. Finish(c)
    BY <1>3, Zenon DEF GetAgain
  <2>2. processes' \in [Reqs -> ProcessKeys \cup {NoEntry}] /\ \A r \in Reqs : processes'[r] = processes[r]
    BY <1>1, Zenon DEF TopInv, TopTypes
  <2> QED
    BY <1>1, <1>2, <2>1, <2>2, FinishKeeps, Zenon
<1>4. CASE counts[probe[c].key] # NoCounter
  <2>1. PICK q : q = AtCounter(probe[c].req, probe[c].key, counts[probe[c].key])
    BY Zenon
  <2>2. Running(c, q) /\ req' = req
    BY <1>4, <2>1, Zenon DEF GetAgain
  <2>3. counts[probe[c].key] \in CounterElems
    BY <1>2, <1>4, Zenon DEF TopInv, TopTypes
  <2>4. /\ q \in Probes /\ q.pc = "load" /\ q.req = probe[c].req /\ q.key = probe[c].key
        /\ q.ptr = counts[probe[c].key]
    BY <1>2, <2>1, <2>3, ProbesAre
  <2>5. q.pc # "zero" /\ q.pc # "store" /\ q.ptr = counts[q.key] /\ q.ptr # NoCounter /\ q.key \in ProcessKeys
    BY <1>2, <1>4, <2>4
  <2> QED
    BY <1>1, <1>2, <2>2, <2>4, <2>5, MoveKeeps, Zenon
<1> QED
  BY <1>3, <1>4, Zenon

\* The count that a probe reads is no more than the charges.
LEMMA LoadKeeps ==
  ASSUME TopInv, NEW c \in TopCpus, NEW readable \in BOOLEAN, Load(c, readable)
  PROVE  TopInv'
<1>1. probe[c].pc = "load" /\ UNCHANGED <<owner, processes, seen>> /\ CountsStay
  BY Zenon DEF Load, CountsStay, countsVars
<1>2. Holds(probe[c])
  BY <1>1, Zenon DEF Holds
<1>3. probe[c].pc # "idle" /\ probe[c].req \in Reqs /\ probe[c].key \in ProcessKeys /\ probe[c].ptr \in CounterElems
  BY <1>1, <1>2, AtProbe
<1>4. CASE ~readable
  <2>1. Finish(c)
    BY <1>4, Zenon DEF Load
  <2>2. processes' \in [Reqs -> ProcessKeys \cup {NoEntry}] /\ \A r \in Reqs : processes'[r] = processes[r]
    BY <1>1, Zenon DEF TopInv, TopTypes
  <2> QED
    BY <1>1, <1>3, <2>1, <2>2, FinishKeeps, Zenon
<1>5. CASE readable
  <2>1. PICK q : q = [pc |-> "store", req |-> probe[c].req, key |-> probe[c].key,
                      ptr |-> probe[c].ptr, io |-> ios[probe[c].ptr]]
    BY Zenon
  <2>2. Running(c, q) /\ req' = req
    BY <1>5, <2>1, Zenon DEF Load
  <2>3. ios[probe[c].ptr] \in Int
    BY <1>3, Zenon DEF TopInv, TopTypes
  <2>4. /\ q \in Probes /\ q.pc = "store" /\ q.req = probe[c].req /\ q.key = probe[c].key
        /\ q.ptr = probe[c].ptr /\ q.io = ios[q.ptr]
    BY <1>3, <2>1, <2>3, ProbesAre
  <2>5. q.pc # "zero"
    BY <2>4
  <2> QED
    BY <1>1, <1>2, <1>3, <2>2, <2>4, <2>5, MoveKeeps, Zenon
<1> QED
  BY <1>4, <1>5, Zenon

\* What a probe stores is at most one more than was charged, and it is charged.
LEMMA StoreKeeps ==
  ASSUME TopInv, NEW c \in TopCpus, Store(c)
  PROVE  TopInv'
<1>1. /\ probe[c].pc = "store" /\ UNCHANGED <<req, owner, processes, counts, extra, seen, report, recycled>>
      /\ ios' = [ios EXCEPT ![probe[c].ptr] = probe[c].io + 1]
      /\ charged' = [charged EXCEPT ![probe[c].key] = @ + 1]
      /\ Running(c, [pc |-> "delete", req |-> probe[c].req, key |-> probe[c].key])
  BY Zenon DEF Store
<1>2. Holds(probe[c])
  BY <1>1, Zenon DEF Holds
<1>3. /\ probe[c].pc # "idle" /\ probe[c].req \in Reqs /\ probe[c].key \in ProcessKeys
      /\ probe[c].ptr \in CounterElems /\ probe[c].io \in Int
  BY <1>1, <1>2, AtProbe
<1>4. PICK q : q = [pc |-> "delete", req |-> probe[c].req, key |-> probe[c].key]
  BY Zenon
<1>5. q \in Probes /\ q.pc = "delete" /\ q.req = probe[c].req /\ q.key = probe[c].key /\ Running(c, q)
  BY <1>1, <1>3, <1>4, ProbesAre
<1>6. TopTypes'
  <2>1. ios' \in [CounterElems -> Int] /\ charged' \in [ProcessKeys -> Nat]
    BY <1>1, <1>3 DEF TopInv, TopTypes
  <2> QED
    BY <1>1, <1>5, <2>1, Zenon DEF Running, TopInv, TopTypes
<1>7. Owned'
  BY <1>1, <1>3, <1>5, OwnedGoesOn
<1>8. PICK key, e, io : key = probe[c].key /\ e = probe[c].ptr /\ io = probe[c].io
  BY Zenon
<1>9. /\ \A x \in CounterElems : ios'[x] = IF x = e THEN io + 1 ELSE ios[x]
      /\ \A p \in ProcessKeys : charged'[p] = IF p = key THEN charged[p] + 1 ELSE charged[p]
  BY <1>1, <1>3, <1>8 DEF TopInv, TopTypes
<1>10. \A d \in TopCpus : /\ d # c => probe'[d] = probe[d]
                          /\ Holds(probe'[d]) => d # c /\ Holds(probe[d])
                          /\ probe'[d].pc = "zero" => probe'[d] = probe[d]
  <2>1. probe'[c] = q /\ \A d \in TopCpus : d # c => probe'[d] = probe[d]
    BY <1>5, Zenon DEF Running, TopInv, TopTypes
  <2> QED
    BY <1>5, <2>1 DEF Holds
<1>11. Distinct'
  <2>1. \A d \in TopCpus : Holds(probe'[d]) => Holds(probe[d]) /\ probe'[d].ptr = probe[d].ptr
    BY <1>10, Zenon
  <2> QED
    BY <1>1, <2>1, Zenon DEF TopInv, Distinct
<1>12. Pairs'
  <2>1. \A d \in TopCpus : Holds(probe'[d]) => Holds(probe[d]) /\ probe'[d].ptr = probe[d].ptr
    BY <1>10, Zenon
  <2> QED
    BY <1>1, <1>10, <2>1, Zenon DEF TopInv, Pairs
<1>13. Counting'
  <2> SUFFICES ASSUME recycled = FALSE PROVE Counting'
    BY <1>1, Zenon DEF Counting
  <2>1. \A p \in ProcessKeys : charged[p] <= charged'[p] /\ charged[p] \in Nat /\ charged'[p] \in Nat
    BY <1>9 DEF TopInv, TopTypes
  <2>2. io + 1 <= charged'[key]
    <3>1. io <= charged[key]
      BY <1>1, <1>2, <1>8, Zenon DEF TopInv, Counting
    <3> QED
      BY <1>3, <1>8, <1>9, <2>1, <3>1
  <2>3. ASSUME NEW x \in CounterElems, NEW p \in ProcessKeys, ios[x] <= charged[p], x = e => p = key
        PROVE  ios'[x] <= charged'[p]
    <3>1. CASE x = e
      BY <1>9, <2>2, <2>3, <3>1
    <3>2. CASE x # e
      <4>1. ios'[x] = ios[x] /\ ios[x] \in Int
        BY <1>9, <3>2 DEF TopInv, TopTypes
      <4> QED
        BY <2>1, <2>3, <4>1
    <3> QED
      BY <3>1, <3>2, Zenon
  <2>4. ASSUME NEW d \in TopCpus, Holds(probe'[d])
        PROVE  /\ ios'[probe'[d].ptr] <= charged'[probe'[d].key]
               /\ probe'[d].pc = "store" => probe'[d].io <= charged'[probe'[d].key]
    <3>1. Holds(probe[d]) /\ probe'[d] = probe[d] /\ probe[d].pc # "idle"
      BY <1>10, <2>4 DEF Holds
    <3>2. probe[d].key \in ProcessKeys /\ probe[d].ptr \in CounterElems /\ (probe[d].pc = "store" => probe[d].io \in Int)
      BY <3>1, AtProbe, Zenon
    <3>3. ios[probe[d].ptr] <= charged[probe[d].key] /\ (probe[d].pc = "store" => probe[d].io <= charged[probe[d].key])
      BY <3>1, Zenon DEF TopInv, Counting
    <3>4. probe[d].ptr = e => probe[d].key = key
      BY <1>2, <1>8, <3>1, Zenon DEF TopInv, Counting
    <3>5. ios'[probe[d].ptr] <= charged'[probe[d].key]
      BY <2>3, <3>2, <3>3, <3>4, Zenon
    <3>6. probe[d].pc = "store" => probe[d].io <= charged'[probe[d].key]
      BY <2>1, <3>2, <3>3
    <3> QED
      BY <3>1, <3>5, <3>6, Zenon
  <2>5. ASSUME NEW p \in ProcessKeys, counts[p] # NoCounter
        PROVE  ios'[counts[p]] <= charged'[p]
    <3>1. counts[p] \in CounterElems /\ ios[counts[p]] <= charged[p]
      BY <2>5, Zenon DEF TopInv, TopTypes, Counting
    <3>2. counts[p] = e => p = key
      BY <1>2, <1>8, Zenon DEF TopInv, Counting
    <3> QED
      BY <2>3, <3>1, <3>2, Zenon
  <2>6. ASSUME NEW p \in ProcessKeys
        PROVE  report[p] <= charged'[p]
    <3>1. report[p] <= charged[p] /\ report[p] \in Int
      BY Zenon DEF TopInv, TopTypes, Counting
    <3> QED
      BY <2>1, <3>1
  <2>7. \A d \in TopCpus : Holds(probe'[d]) =>
          /\ \A p \in ProcessKeys : probe'[d].ptr = counts[p] => probe'[d].key = p
          /\ \A x \in TopCpus : Holds(probe'[x]) /\ probe'[x].ptr = probe'[d].ptr => probe'[x].key = probe'[d].key
    BY <1>10 DEF TopInv, Counting
  <2> QED
    BY <1>1, <2>4, <2>5, <2>6, <2>7, Zenon DEF Counting
<1> QED
  BY <1>6, <1>7, <1>11, <1>12, <1>13, Zenon DEF TopInv

\* The entries of the request go, and the request.
LEMMA DeleteStartKeeps ==
  ASSUME TopInv, NEW c \in TopCpus, DeleteStart(c)
  PROVE  TopInv'
<1>1. /\ probe[c].pc = "delete" /\ UNCHANGED <<owner, seen>> /\ CountsStay /\ Finish(c)
      /\ processes' = [processes EXCEPT ![probe[c].req] = NoEntry]
  BY Zenon DEF DeleteStart, CountsStay, countsVars
<1>2. probe[c].pc # "idle" /\ probe[c].req \in Reqs
  BY <1>1, AtProbe
<1>3. /\ processes' \in [Reqs -> ProcessKeys \cup {NoEntry}]
      /\ \A r \in Reqs : r # probe[c].req => processes'[r] = processes[r]
  BY <1>1, <1>2, Zenon DEF TopInv, TopTypes
<1> QED
  BY <1>1, <1>2, <1>3, FinishKeeps, Zenon

\* The report shows what the element has.
LEMMA ShowKeeps ==
  ASSUME TopInv, NEW p \in ProcessKeys, Show(p)
  PROVE  TopInv'
<1>1. /\ counts[p] # NoCounter /\ report' = [report EXCEPT ![p] = ios[counts[p]]]
      /\ UNCHANGED <<req, owner, processes, counts, ios, extra, recycled, probe, charged, seen>>
  BY Zenon DEF Show, countsVars
<1>2. counts[p] \in CounterElems /\ ios[counts[p]] \in Int
  BY <1>1, Zenon DEF TopInv, TopTypes
<1>3. TopTypes'
  BY <1>1, <1>2, Zenon DEF TopInv, TopTypes
<1>4. report'[p] = ios[counts[p]] /\ \A x \in ProcessKeys : x # p => report'[x] = report[x]
  BY <1>1, Zenon DEF TopInv, TopTypes
<1>5. recycled = FALSE => \A x \in ProcessKeys : report'[x] <= charged[x]
  BY <1>1, <1>4, Zenon DEF TopInv, Counting
<1>6. Counting'
  BY <1>1, <1>5, Zenon DEF TopInv, Counting
<1>7. Owned' /\ Distinct' /\ Pairs'
  BY <1>1, Zenon DEF TopInv, Owned, Distinct, Pairs
<1> QED
  BY <1>3, <1>6, <1>7, Zenon DEF TopInv

\* Every step of the probes and of the report keeps the invariant.
LEMMA TopKeeps == TopInv /\ [TopNext]_topVars => TopInv'
<1> SUFFICES ASSUME TopInv, [TopNext]_topVars PROVE TopInv'
  BY Zenon
<1>1. ASSUME NEW r \in Reqs, NEW p \in Pids, NEW dropped \in BOOLEAN, AccountIoStart(r, p, dropped) PROVE TopInv'
  BY <1>1, AccountKeeps, Zenon
<1>2. ASSUME NEW r \in Reqs, StartRequest(r) PROVE TopInv'
  <2>1. /\ req[r] \in {"new", "issued"} /\ req' = [req EXCEPT ![r] = "issued"]
        /\ UNCHANGED <<owner, processes, counts, ios, extra, recycled, probe, charged, seen, report>>
    BY <1>2, Zenon DEF StartRequest, countsVars
  <2> QED
    BY <2>1, StepKeeps, Zenon
<1>3. ASSUME NEW c \in TopCpus, NEW r \in Reqs, NEW readable \in BOOLEAN, Complete(c, r, readable) PROVE TopInv'
  BY <1>3, CompleteKeeps, Zenon
<1>4. ASSUME NEW c \in TopCpus, SetZero(c) \/ GetAgain(c) \/ Store(c) \/ DeleteStart(c) PROVE TopInv'
  BY <1>4, SetZeroKeeps, GetAgainKeeps, StoreKeeps, DeleteStartKeeps, Zenon
<1>5. ASSUME NEW c \in TopCpus, NEW readable \in BOOLEAN, Load(c, readable) PROVE TopInv'
  BY <1>5, LoadKeeps, Zenon
<1>6. ASSUME NEW p \in ProcessKeys, Show(p) PROVE TopInv'
  BY <1>6, ShowKeeps, Zenon
<1>7. CASE UNCHANGED topVars
  <2>1. UNCHANGED <<req, owner, processes, counts, ios, extra, recycled, probe, charged, seen, report>>
    BY <1>7, Zenon DEF topVars, countsVars
  <2> QED
    BY <2>1, Zenon DEF TopInv, TopTypes, Owned, Distinct, Counting, Pairs
<1>8. CASE TopNext
  BY <1>1, <1>2, <1>3, <1>4, <1>5, <1>6, <1>8, Zenon DEF TopNext
<1> QED
  BY <1>7, <1>8, Zenon

\* The I/O column of redbpf-iotop, for every number of CPUs, requests and
\* processes and every capacity of its maps: a request is charged to its own
\* process or to none, whatever entries were left behind at its address, and no
\* process is shown more than it was charged for, except where a probe adds to
\* an element that has become that of another process; two CPUs never do.
THEOREM NeverOvercounts == TopSpec => []IotopNeverOvercounts
<1>1. TopInv => IotopNeverOvercounts
  <2> SUFFICES ASSUME TopInv PROVE IotopNeverOvercounts
    BY Zenon
  <2>1. \A c \in TopCpus : probe[c].pc # "idle" /\ seen[probe[c].req] =>
          probe[c].key \in {owner[probe[c].req], Unknown}
    <3> SUFFICES ASSUME NEW c \in TopCpus, probe[c].pc # "idle", seen[probe[c].req]
                 PROVE  probe[c].key \in {owner[probe[c].req], Unknown}
      BY Zenon
    <3>1. seen[probe[c].req] = TRUE
      BY AtProbe, Zenon DEF TopInv, TopTypes
    <3> QED
      BY <3>1, Zenon DEF TopInv, Owned
  <2>2. \A r \in Reqs : req[r] \in {"new", "issued"} /\ seen[r] => processes[r] \in {owner[r], NoEntry}
    <3> SUFFICES ASSUME NEW r \in Reqs, req[r] \in {"new", "issued"}, seen[r]
                 PROVE  processes[r] \in {owner[r], NoEntry}
      BY Zenon
    <3>1. seen[r] = TRUE
      BY Zenon DEF TopInv, TopTypes
    <3>2. req[r] # "free"
      OBVIOUS
    <3> QED
      BY <3>1, <3>2, Zenon DEF TopInv, Owned
  <2>3. recycled = TRUE \/ recycled = FALSE
    BY Zenon DEF TopInv, TopTypes
  <2>4. ~recycled => \A p \in ProcessKeys : /\ counts[p] # NoCounter => ios[counts[p]] <= charged[p]
                                         /\ report[p] <= charged[p]
    BY <2>3, Zenon DEF TopInv, Counting
  <2>5. recycled => \E a, b, c \in TopCpus : a # b /\ b # c /\ a # c
    BY <2>3, Zenon DEF TopInv, Pairs, Three
  <2> QED
    BY <2>1, <2>2, <2>4, <2>5, Zenon DEF IotopNeverOvercounts
<1> QED
  BY <1>1, TopStart, TopKeeps, PTL DEF TopSpec
=============================================================================
