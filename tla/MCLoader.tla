------------------------------ MODULE MCLoader ------------------------------
(* Two CPUs; the second perf map has an entry for the first CPU only.       *)
EXTENDS Loader

MCCpus == 0 .. 1
MCEntries == [m \in PerfMaps |-> IF m = 1 THEN 2 ELSE 1]
=============================================================================
