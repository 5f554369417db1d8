----------------------------- MODULE MCPerfRing -----------------------------
(* PerfRing on a ring of 8 cells with samples of 2 and 5 cells: records     *)
(* wrap around at every phase and the ring fills up after a few samples.    *)
EXTENDS PerfRing

MCSampleSizes == {2, 5}
=============================================================================
