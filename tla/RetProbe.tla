------------------------------ MODULE RetProbe ------------------------------
(***************************************************************************)
(* The pair of probes that #[kretprobe] and #[uretprobe] generate for a    *)
(* handler with two parameters (probe_pair_impl of redbpf-macros): the     *)
(* entry probe stores the parameters of the call in a map under the id of  *)
(* the thread, the return probe takes them out again and calls the handler.*)
(*                                                                         *)
(* Threads call the probed function, also while a call of theirs is active *)
(* (recursion, or a call in an interrupt, which has the thread's id), and  *)
(* may die inside it.  So do the idle tasks of the CPUs, or interrupts on  *)
(* top of them, and these all have the same id, 0.  The two probes are     *)
(* attached one after the other, in any order, while calls are active.     *)
(* The kernel misses a return when it has no instance of the return probe  *)
(* left at the call.                                                       *)
(***************************************************************************)
EXTENDS Integers, FiniteSets

CONSTANTS
  Threads,   \* the threads, and the idle tasks of the CPUs
  IdleTasks, \* the idle tasks
  IdleId,    \* pid_tgid of the idle tasks
  Parms,     \* parameters a call may have
  Capacity,  \* max_entries of the map (10240)
  MaxDepth,  \* bound: calls of a thread that are active at once
  NoParms    \* no entry

ASSUME RetProbeAssumption ==
  /\ IsFiniteSet(Threads) /\ Capacity \in Nat /\ MaxDepth \in Nat
  /\ NoParms \notin Parms

\* bpf_get_current_pid_tgid()
IdOf(t) == IF t \in IdleTasks THEN IdleId ELSE t

Ids == {IdOf(t) : t \in Threads}

VARIABLES
  enter, ret,  \* the probes that are attached
  parms,       \* the map PARMS_x: id => parameters
  depth,       \* number of active calls of each thread
  frame,       \* the active calls: [parms, hooked, stored, nested]
  read,        \* per thread: what its return probe has read for the handler
  missed,      \* ids inside the function, a return of which the kernel misses
  crossed,     \* ids with which two threads were inside at once (history)
  skipped      \* a return that could have been handled was not (history)

probedVars == <<enter, ret, parms, depth, frame, read, missed, crossed, skipped>>

Frame == [parms  : Parms \cup {NoParms},  \* the original parameters
          hooked : BOOLEAN,  \* the return probe will see the return
          stored : BOOLEAN,  \* the entry probe has stored the parameters
          nested : BOOLEAN]  \* another call of the thread was active on top

NoCall == [parms |-> NoParms, hooked |-> FALSE, stored |-> FALSE, nested |-> FALSE]

ProbedInit ==
  /\ enter = FALSE /\ ret = FALSE
  /\ parms = [id \in Ids |-> NoParms]
  /\ depth = [t \in Threads |-> 0]
  /\ frame = [t \in Threads |-> [d \in 1 .. MaxDepth |-> NoCall]]
  /\ read = [t \in Threads |-> NoParms]
  /\ missed = {} /\ crossed = {} /\ skipped = FALSE

callVars == <<depth, frame, read, missed, crossed, skipped>>

\* attach_kprobe or attach_uprobe of either program.
AttachEnter == ~enter /\ enter' = TRUE /\ UNCHANGED <<ret, parms>> /\ UNCHANGED callVars
AttachRet   == ~ret /\ ret' = TRUE /\ UNCHANGED <<enter, parms>> /\ UNCHANGED callVars

\* HashMap::set of the entry probe: an entry is replaced, a new one needs room.
Fits(id) == parms[id] # NoParms \/ Cardinality({i \in Ids : parms[i] # NoParms}) < Capacity

\* Another thread with the id of t is inside the function.
Company(t) == \E u \in Threads \ {t} : IdOf(u) = IdOf(t) /\ depth[u] > 0

\* A call, with the entry probe.
Call(t) ==
  /\ depth[t] < MaxDepth /\ read[t] = NoParms
  /\ \E p \in Parms, h \in {ret, FALSE} :
       LET d == depth[t]
           id == IdOf(t)
           call == [parms |-> p, hooked |-> h, stored |-> enter /\ Fits(id), nested |-> FALSE]
       IN  /\ depth' = [depth EXCEPT ![t] = d + 1]
           /\ frame' = [frame EXCEPT ![t] =
                [i \in 1 .. MaxDepth |-> IF i = d + 1 THEN call
                                         ELSE IF i = d THEN [@[i] EXCEPT !.nested = TRUE]
                                         ELSE @[i]]]
           /\ parms' = IF enter /\ Fits(id) THEN [parms EXCEPT ![id] = p] ELSE parms
           /\ missed' = IF h = ret THEN missed ELSE missed \cup {id}
           /\ crossed' = IF Company(t) THEN crossed \cup {id} ELSE crossed
  /\ UNCHANGED <<enter, ret, read, skipped>>

\* All but d calls of t are over.
Leave(t, d) ==
  /\ depth' = [depth EXCEPT ![t] = d]
  /\ frame' = [frame EXCEPT ![t] = [i \in 1 .. MaxDepth |-> IF i > d THEN NoCall ELSE @[i]]]
  /\ missed' = IF d > 0 \/ Company(t) THEN missed ELSE missed \ {IdOf(t)}
  /\ crossed' = IF d > 0 \/ Company(t) THEN crossed ELSE crossed \ {IdOf(t)}
  /\ UNCHANGED <<enter, ret>>

\* The call of t that returns, if the return probe sees it
Top(t) == frame[t][depth[t]]
Seen(t) == Top(t).hooked

\* No return probe runs, or it finds no entry.
Return(t) ==
  /\ depth[t] > 0 /\ read[t] = NoParms
  /\ ~Seen(t) \/ parms[IdOf(t)] = NoParms
  /\ skipped' = (skipped \/ (Seen(t) /\ Top(t).stored /\ ~Top(t).nested /\ IdOf(t) \notin crossed))
  /\ Leave(t, depth[t] - 1)
  /\ UNCHANGED <<parms, read>>

\* Mutant of RetGet: the entry is deleted before it is read.
RetGetAfterDelete(t) ==
  /\ depth[t] > 0 /\ read[t] = NoParms
  /\ Seen(t) /\ parms[IdOf(t)] # NoParms
  /\ parms' = [parms EXCEPT ![IdOf(t)] = NoParms]
  /\ skipped' = (skipped \/ (Top(t).stored /\ ~Top(t).nested /\ IdOf(t) \notin crossed))
  /\ Leave(t, depth[t] - 1)
  /\ UNCHANGED <<read>>

\* The return probe finds an entry and copies it.
RetGet(t) ==
  /\ depth[t] > 0 /\ read[t] = NoParms
  /\ Seen(t) /\ parms[IdOf(t)] # NoParms
  /\ read' = [read EXCEPT ![t] = parms[IdOf(t)]]
  /\ UNCHANGED <<enter, ret, parms, depth, frame, missed, crossed, skipped>>

\* Mutant of RetDelete: the entry stays.
RetDeleteNot(t) ==
  /\ read[t] # NoParms
  /\ read' = [read EXCEPT ![t] = NoParms]
  /\ Leave(t, depth[t] - 1)
  /\ UNCHANGED <<parms, skipped>>

\* It deletes the entry and calls the handler.
RetDelete(t) ==
  /\ read[t] # NoParms
  /\ parms' = [parms EXCEPT ![IdOf(t)] = NoParms]
  /\ read' = [read EXCEPT ![t] = NoParms]
  /\ Leave(t, depth[t] - 1)
  /\ UNCHANGED skipped

\* The thread dies; its id is used again by another one.
Die(t) ==
  /\ t \notin IdleTasks /\ depth[t] > 0 /\ read[t] = NoParms
  /\ Leave(t, 0)
  /\ UNCHANGED <<parms, read, skipped>>

ProbedNext ==
  \/ AttachEnter \/ AttachRet
  \/ \E t \in Threads : Call(t) \/ Return(t) \/ RetGet(t) \/ RetDelete(t) \/ Die(t)

ProbedSpec == ProbedInit /\ [][ProbedNext]_probedVars

-----------------------------------------------------------------------------
(* Properties                                                              *)

\* The handler gets the parameters of the call that returns, in spite of
\* recursion, of deaths inside the function and of probes attached at any time.
\* It may get those of another call only if the kernel has missed a return
\* since the thread entered the function from outside, or if the idle tasks of
\* two CPUs have been inside it at once: they share an entry.
ParmsOriginal ==
  \A t \in Threads :
    read[t] # NoParms => read[t] = Top(t).parms \/ IdOf(t) \in missed \/ IdOf(t) \in crossed

\* The handler is left out only for a call whose parameters could not be stored,
\* on top of which the thread made another call, or which an idle task made
\* while that of another CPU was inside the function, or the other way round.
SkippedForReason == ~skipped
=============================================================================
