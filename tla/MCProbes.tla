------------------------------ MODULE MCProbes ------------------------------
(* Probes and the maps they count in: calls and returns of a thread and two *)
(* idle tasks, two at once, with room for one entry (RetProbe), the example *)
(* hashmaps on two CPUs with two sizes (Counters), and iotop with two       *)
(* requests on two CPUs (Iotop).  A behaviour is one of the part it begins  *)
(* with, the others rest.                                                   *)
EXTENDS RetProbe, Counters, Iotop, TLC

VARIABLE part

MCInit ==
  /\ part \in {"call", "count", "iotop"}
  /\ ProbedInit /\ CountInit /\ TopInit

MCNext ==
  \/ /\ part = "call" /\ ProbedNext /\ \E t \in Threads : depth'[t] = 0
     /\ UNCHANGED <<part, countVars, topVars>>
  \/ part = "count" /\ CountNext /\ UNCHANGED <<part, probedVars, topVars>>
  \/ part = "iotop" /\ TopNext /\ UNCHANGED <<part, probedVars, countVars>>

\* Which parameters or idle task it is makes no difference.
MCSymmetry == Permutations(Parms) \cup Permutations(IdleTasks)

MCSpec == MCInit /\ [][MCNext]_<<part, probedVars, countVars, topVars>>
=============================================================================
