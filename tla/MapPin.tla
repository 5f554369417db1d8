------------------------------- MODULE MapPin -------------------------------
(***************************************************************************)
(* Map::pin, Map::unpin, Map::from_pin_file and Drop for Map               *)
(* (redbpf/src/lib.rs) in several processes that share a BPF file system   *)
(* and may be killed at any point.                                         *)
(*                                                                         *)
(* A file of the BPF file system keeps a map of the kernel alive and gives *)
(* access to it.  A Map remembers the path it was pinned to or opened      *)
(* from; nothing tells it when the file is removed or another map takes    *)
(* its place.  pin looks for the file before it pins, and from_pin_file    *)
(* asks for the definition after it opened the map: other processes may    *)
(* act in between.                                                         *)
(***************************************************************************)
EXTENDS Integers, FiniteSets

CONSTANTS
  Procs,    \* processes
  Slots,    \* Map values a process may hold
  Paths,    \* files of the BPF file system
  NoPath,
  MaxMaps   \* bound: maps created in all

ASSUME PinAssumption == NoPath \notin Paths /\ MaxMaps \in Nat

Maps  == 1 .. MaxMaps
NoMap == 0
Refs  == Procs \X Slots

VARIABLES
  fs,      \* path => the map pinned there
  fd,      \* the map a Map value refers to
  pinFile, \* Map::pin_file
  call,    \* the call a process is in: [op, slot, path, map]
  created, \* number of maps created
  leaked,  \* the processes that have lost track of a descriptor
  stale    \* Map values whose file another one removed (history)

vars == <<fs, fd, pinFile, call, created, leaked, stale>>

Idle == [op |-> "idle"]

Init ==
  /\ fs = [f \in Paths |-> NoMap]
  /\ fd = [r \in Refs |-> NoMap] /\ pinFile = [r \in Refs |-> NoPath]
  /\ call = [p \in Procs |-> Idle]
  /\ created = 0
  /\ leaked = {}
  /\ stale = {}

\* A map is created, as with_map_def does.
Create(p, s) ==
  /\ call[p] = Idle /\ fd[<<p, s>>] = NoMap /\ created < MaxMaps
  /\ created' = created + 1
  /\ fd' = [fd EXCEPT ![<<p, s>>] = created + 1]
  /\ UNCHANGED <<fs, pinFile, call, leaked, stale>>

-----------------------------------------------------------------------------
(* Map::pin and pin_bpf_obj                                                *)

\* A pinned map and an existing file are refused; the checks on the directory
\* and its creation may fail.  What happens up to the call of bpf_obj_pin.
Pin(p, s, f) ==
  /\ call[p] = Idle /\ fd[<<p, s>>] # NoMap
  /\ pinFile[<<p, s>>] = NoPath
  /\ fs[f] = NoMap
  /\ call' = [call EXCEPT ![p] = [op |-> "pin", slot |-> s, path |-> f]]
  /\ UNCHANGED <<fs, fd, pinFile, created, leaked, stale>>

\* Mutant of ObjPin: a file that appeared meanwhile is removed first.
ObjPinReplaces(p) ==
  /\ call[p].op = "pin"
  /\ call' = [call EXCEPT ![p] = Idle]
  /\ LET r == <<p, call[p].slot>>
         f == call[p].path
     IN  /\ fs' = [fs EXCEPT ![f] = fd[r]]
         /\ pinFile' = [pinFile EXCEPT ![r] = f]
         /\ stale' = stale \ {r}
  /\ UNCHANGED <<fd, created, leaked>>

\* bpf_obj_pin refuses a file that exists by now; it may fail otherwise.
ObjPin(p) ==
  /\ call[p].op = "pin"
  /\ call' = [call EXCEPT ![p] = Idle]
  /\ LET r == <<p, call[p].slot>>
         f == call[p].path
     IN  \/ /\ fs[f] = NoMap
            /\ fs' = [fs EXCEPT ![f] = fd[r]]
            /\ pinFile' = [pinFile EXCEPT ![r] = f]
            /\ stale' = stale \ {r}
         \/ UNCHANGED <<fs, pinFile, stale>>
  /\ UNCHANGED <<fd, created, leaked>>

-----------------------------------------------------------------------------
(* Map::from_pin_file                                                      *)

\* bpf_obj_get
ObjGet(p, s, f) ==
  /\ call[p] = Idle /\ fd[<<p, s>>] = NoMap
  /\ fs[f] # NoMap
  /\ call' = [call EXCEPT ![p] = [op |-> "get", slot |-> s, path |-> f, map |-> fs[f]]]
  /\ stale' = stale \ {<<p, s>>}
  /\ UNCHANGED <<fs, fd, pinFile, created, leaked>>

\* bpf_obj_get_info_by_fd; when it fails the descriptor is not closed.
ObjInfo(p) ==
  /\ call[p].op = "get"
  /\ call' = [call EXCEPT ![p] = Idle]
  /\ LET r == <<p, call[p].slot>>
     IN  \/ /\ fd' = [fd EXCEPT ![r] = call[p].map]
            /\ pinFile' = [pinFile EXCEPT ![r] = call[p].path]
            /\ UNCHANGED leaked
         \/ /\ leaked' = leaked \cup {p}
            /\ UNCHANGED <<fd, pinFile>>
  /\ UNCHANGED <<fs, created, stale>>

-----------------------------------------------------------------------------
(* Map::unpin, Drop for Map, and the end of a process                      *)

\* The Map values, also those about to be made, that take f for their file.
Takers(f) ==
  {r \in Refs : \/ pinFile[r] = f
                \/ call[r[1]].op = "get" /\ call[r[1]].slot = r[2] /\ call[r[1]].path = f}

\* Mutant of Unpin: the path is not forgotten.
UnpinKeepsPath(p, s) ==
  /\ call[p] = Idle /\ pinFile[<<p, s>>] # NoPath
  /\ LET r == <<p, s>>
         f == pinFile[r]
     IN  /\ fs[f] # NoMap
         /\ fs' = [fs EXCEPT ![f] = NoMap]
         /\ stale' = (stale \cup Takers(f)) \ {r}
  /\ UNCHANGED <<fd, pinFile, call, created, leaked>>

\* remove_file removes what is at the path now.  It fails when there is
\* nothing, and then the path stays remembered.
Unpin(p, s) ==
  /\ call[p] = Idle /\ pinFile[<<p, s>>] # NoPath
  /\ LET r == <<p, s>>
         f == pinFile[r]
     IN  /\ fs[f] # NoMap
         /\ fs' = [fs EXCEPT ![f] = NoMap]
         /\ pinFile' = [pinFile EXCEPT ![r] = NoPath]
         /\ stale' = (stale \cup Takers(f)) \ {r}
  /\ UNCHANGED <<fd, call, created, leaked>>

\* Mutant of DropMap: dropping a pinned Map also unpins it.
DropMapUnpins(p, s) ==
  /\ call[p] = Idle /\ fd[<<p, s>>] # NoMap
  /\ fd' = [fd EXCEPT ![<<p, s>>] = NoMap]
  /\ pinFile' = [pinFile EXCEPT ![<<p, s>>] = NoPath]
  /\ stale' = stale \ {<<p, s>>}
  /\ fs' = [f \in Paths |-> IF f = pinFile[<<p, s>>] THEN NoMap ELSE fs[f]]
  /\ UNCHANGED <<call, created, leaked>>

DropMap(p, s) ==
  /\ call[p] = Idle /\ fd[<<p, s>>] # NoMap
  /\ fd' = [fd EXCEPT ![<<p, s>>] = NoMap]
  /\ pinFile' = [pinFile EXCEPT ![<<p, s>>] = NoPath]
  /\ stale' = stale \ {<<p, s>>}
  /\ UNCHANGED <<fs, call, created, leaked>>

\* The process ends or is killed (external): the kernel closes its
\* descriptors, the files stay.  Another one takes its place.
Exit(p) ==
  /\ fd' = [r \in Refs |-> IF r[1] = p THEN NoMap ELSE fd[r]]
  /\ pinFile' = [r \in Refs |-> IF r[1] = p THEN NoPath ELSE pinFile[r]]
  /\ call' = [call EXCEPT ![p] = Idle]
  /\ leaked' = leaked \ {p}
  /\ stale' = {r \in stale : r[1] # p}
  /\ UNCHANGED <<fs, created>>

Next ==
  \E p \in Procs :
    \/ \E s \in Slots : Create(p, s) \/ Unpin(p, s) \/ DropMap(p, s)
    \/ \E s \in Slots, f \in Paths : Pin(p, s, f) \/ ObjGet(p, s, f)
    \/ ObjPin(p) \/ ObjInfo(p) \/ Exit(p)

Spec == Init /\ [][Next]_vars

-----------------------------------------------------------------------------
(* Properties                                                              *)

\* The type of the state; a path is remembered only for a map that is held.
TypeOK ==
  /\ fs \in [Paths -> Maps \cup {NoMap}]
  /\ fd \in [Refs -> Maps \cup {NoMap}]
  /\ pinFile \in [Refs -> Paths \cup {NoPath}]
  /\ created \in 0 .. MaxMaps
  /\ \A r \in Refs : pinFile[r] # NoPath => fd[r] # NoMap

\* Unless another Map removed the file since, the file a Map remembers holds
\* that very map: pin and from_pin_file never end up with the path of another
\* one, however their steps interleave with those of other processes.
PinFileTrue ==
  \A r \in Refs : (pinFile[r] # NoPath /\ r \notin stale) => fs[pinFile[r]] = fd[r]

\* pin never takes the place of a map pinned by somebody else, although it
\* looks for the file some time before it pins.
PinNeverReplaces ==
  [][\A f \in Paths : fs[f] # NoMap => fs'[f] \in {fs[f], NoMap}]_vars

\* A pinned map stays until some Map is told to unpin: dropping the Map, the
\* end of the process and a failed call leave the file.
PinsOutliveMaps ==
  [][\A f \in Paths : (fs[f] # NoMap /\ fs'[f] # fs[f]) =>
       \E r \in Refs : /\ pinFile[r] = f /\ pinFile'[r] = NoPath
                       /\ fd'[r] = fd[r] /\ fd[r] # NoMap]_vars
=============================================================================
