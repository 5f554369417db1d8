------------------------------- MODULE MCMaps -------------------------------
(* The maps as user space sees them, in one run: pinning by two processes   *)
(* with two files, iteration over a map with four keys in two buckets and   *)
(* room for three, and the typed views over maps of eleven definitions.     *)
(* The three parts share no state; each behaviour is one of the part it     *)
(* begins with, the others rest, and what happens to the map after the      *)
(* iteration is left out.                                                   *)
(*                                                                          *)
(* The sets of possible CPUs have a hole and a range; values of 4, 8 and 12 *)
(* bytes meet the rounding to 8 in both directions.                         *)
EXTENDS MapPin, MapIter, Sequences

VARIABLES
  part,
  mask, conf, view, store, cells, use, rmw, seen, wrote, gone

typedVars == <<mask, conf, view, store, cells, use, rmw, seen, wrote, gone>>

MCBucketOf == [k \in 1 .. 4 |-> IF k = 1 THEN 0 ELSE 1]

Def(t, k, v) == [type |-> t, ksize |-> k, vsize |-> v]
MCMasks == {{0, 2}, {1, 2}}
MCConfigs ==
  {Def("HASH", 4, 4), Def("LRU_HASH", 4, 4), Def("PERCPU_HASH", 4, 12),
   Def("LRU_PERCPU_HASH", 4, 4), Def("ARRAY", 4, 4), Def("PERCPU_ARRAY", 4, 12),
   Def("PROG_ARRAY", 4, 4), Def("PERF_EVENT_ARRAY", 4, 4),
   Def("DEVMAP", 4, 4), Def("SOCKMAP", 4, 4), Def("STACK_TRACE", 4, 8)}
Kinds ==
  {"HashMap", "LruHashMap", "PerCpuHashMap", "LruPerCpuHashMap", "Array",
   "PerCpuArray", "ProgramArray", "StackTrace", "SockMap", "DevMap"}

Typed == INSTANCE TypedMaps WITH
  Masks <- MCMasks, Configs <- MCConfigs, Views <- [kind : Kinds, K : {4}, V : {4, 8, 12}],
  MaxEntries <- 1, MaxVal <- 1, call <- use

MCInit ==
  /\ part \in {"pin", "iter", "typed"}
  /\ Init
  /\ IterInit /\ (part # "iter" => ~lru /\ ~percpu)
  /\ Typed!Init /\ (part # "typed" => mask = {0, 2} /\ conf.type = "HASH")

MCNext ==
  \/ part = "pin" /\ Next /\ UNCHANGED <<part, mapVars, typedVars>>
  \/ part = "iter" /\ pc # "end" /\ IterNext /\ UNCHANGED <<part, vars, typedVars>>
  \/ part = "typed" /\ Typed!Next /\ UNCHANGED <<part, vars, mapVars>>

MCSpec ==
  /\ MCInit
  /\ [][MCNext]_<<part, vars, mapVars, typedVars>>
  /\ WF_mapVars(part = "iter" /\ IterStep)

\* TypedMaps: get and set of per-CPU values, and the sizes of the buffers
PerCpuExact == Typed!PerCpuExact
=============================================================================
