------------------------------- MODULE Iotop -------------------------------
(***************************************************************************)
(* redbpf-iotop: the probes of redbpf-tools/probes/src/iotop/main.rs, which *)
(* follow block requests through the maps start, processes and counts, and *)
(* the tool redbpf-tools/src/bin/redbpf-iotop.rs, which prints counts.     *)
(*                                                                         *)
(* Requests are handled on all CPUs at once.  The kernel uses the memory   *)
(* of a request again for a later one, so that the address alone does not  *)
(* tell them apart; a probe may be skipped by the kernel.  A lookup in     *)
(* counts returns a pointer to an element, which another CPU may replace.  *)
(* Of a CounterKey the process is kept, of a Counter the field io.         *)
(***************************************************************************)
EXTENDS Integers, FiniteSets, FiniteSetsExt, Functions

CONSTANTS
  TopCpus,   \* the CPUs
  Reqs,      \* the addresses of requests
  Pids,      \* the processes
  MaxIo,     \* bound on the requests completed
  MaxEnt,    \* max_entries of start and processes
  MaxKeys    \* max_entries of counts

ASSUME TopAssumption == Pids \subseteq Nat

Unknown == 0   \* the pid of unknown_process
NoEntry == -1

ProcessKeys == Pids \cup {Unknown}

\* The kernel (external) allocates the elements of a map of type HASH with the
\* map, and one more for every CPU.
CounterOf(p) == <<"key", p>>
ExtraOf(c) == <<"cpu", c>>
CounterElems == {CounterOf(p) : p \in ProcessKeys} \cup {ExtraOf(c) : c \in TopCpus}
NoCounter == <<"none">>

VARIABLES
  req,        \* per address: the life of the request: "free", "new", "issued", "done"
  owner,      \* per address: the process whose request it is
  start,      \* the addresses in the map start
  processes,  \* the map processes: a pid or NoEntry
  counts,     \* the map counts: per process, its element or NoCounter
  ios,        \* the io in the elements of counts
  extra,      \* per CPU: the element its next update of an entry will use
  probe,      \* per CPU: do_complete's place, request, key, pointer and the io it has read
  charged,    \* per process: requests added to its counter (history)
  seen,       \* per address: blk_account_io_start has run for this request (history)
  report,     \* what the tool printed last for each process: its io or NoEntry
  recycled       \* an element was put to use while a probe had a pointer to it (history)

topVars == <<req, owner, start, processes, counts, ios, extra, probe, charged, seen, report, recycled>>

countsVars == <<counts, ios, extra, recycled>>

NotRunning == [pc |-> "idle"]

TopInit ==
  /\ req = [r \in Reqs |-> "free"]
  /\ owner = [r \in Reqs |-> Unknown]
  /\ start = {}
  /\ processes = [r \in Reqs |-> NoEntry]
  /\ counts = [p \in ProcessKeys |-> NoCounter]
  /\ ios = [e \in CounterElems |-> 0]
  /\ extra = [c \in TopCpus |-> ExtraOf(c)]
  /\ probe = [c \in TopCpus |-> NotRunning]
  /\ charged = [p \in ProcessKeys |-> 0]
  /\ seen = [r \in Reqs |-> FALSE]
  /\ report = [p \in ProcessKeys |-> NoEntry]
  /\ recycled = FALSE

Known == {r \in Reqs : processes[r] # NoEntry}

-----------------------------------------------------------------------------
(* The requests (external) and the probes that take one step               *)

\* Mutant: an entry that is there is left alone.
SetProcessOnce(r, p) ==
  IF processes[r] = NoEntry /\ Cardinality(Known) < MaxEnt
  THEN [processes EXCEPT ![r] = p] ELSE processes

\* processes.set: an update, or an insert when there is room.
SetProcess(r, p) ==
  IF r \in Known \/ Cardinality(Known) < MaxEnt
  THEN [processes EXCEPT ![r] = p] ELSE processes

\* A request is allocated; blk_account_io_start runs for it, or is skipped.
AccountIoStart(r, p, dropped) ==
  /\ req[r] = "free"
  /\ req' = [req EXCEPT ![r] = "new"]
  /\ owner' = [owner EXCEPT ![r] = p]
  /\ processes' = IF dropped THEN processes ELSE SetProcess(r, p)
  /\ seen' = [seen EXCEPT ![r] = ~dropped]
  /\ UNCHANGED <<start, probe, charged, report>> /\ UNCHANGED countsVars

\* blk_mq_start_request: start_request
StartRequest(r) ==
  /\ req[r] = "new"
  /\ req' = [req EXCEPT ![r] = "issued"]
  /\ start' = IF r \in start \/ Cardinality(start) < MaxEnt THEN start \cup {r} ELSE start
  /\ UNCHANGED <<owner, processes, probe, charged, seen, report>> /\ UNCHANGED countsVars

Running(c, p) == probe' = [probe EXCEPT ![c] = p]

\* The probe stands before the rest of do_complete, with a pointer to e.
AtCounter(r, key, e) == [pc |-> "load", req |-> r, key |-> key, ptr |-> e]

\* blk_account_io_done: do_complete up to counts.get_mut.  It returns None, and
\* leaves the maps as they are, when start has no entry or a field of the
\* request cannot be read.
Complete(c, r, readable) ==
  /\ probe[c].pc = "idle" /\ req[r] \in {"new", "issued"} /\ SumFunction(charged) < MaxIo
  /\ IF r \in start /\ readable
     THEN LET key == IF processes[r] = NoEntry THEN Unknown ELSE processes[r]
          IN  /\ Running(c, IF counts[key] = NoCounter THEN [pc |-> "zero", req |-> r, key |-> key]
                            ELSE AtCounter(r, key, counts[key]))
              /\ req' = [req EXCEPT ![r] = "done"]
     ELSE req' = [req EXCEPT ![r] = "free"] /\ probe' = probe
  /\ UNCHANGED <<owner, start, processes, charged, seen, report>> /\ UNCHANGED countsVars

-----------------------------------------------------------------------------
(* The rest of do_complete                                                 *)

\* do_complete returns None; the kernel frees the request.
Finish(c) ==
  /\ Running(c, NotRunning)
  /\ req' = [req EXCEPT ![probe[c].req] = "free"]

\* counts.set: an entry that is there gets the extra element of the CPU, and its
\* own becomes the extra one, whoever still has a pointer to it; a new entry
\* needs room.
CountsSet(c, key, io) ==
  LET new == counts[key] = NoCounter
      e == IF new THEN CounterOf(key) ELSE extra[c]
  IN  IF new /\ Cardinality({p \in ProcessKeys : counts[p] # NoCounter}) >= MaxKeys
      THEN UNCHANGED countsVars
      ELSE /\ counts' = [counts EXCEPT ![key] = e]
           /\ ios' = [ios EXCEPT ![e] = io]
           /\ extra' = IF new THEN extra ELSE [extra EXCEPT ![c] = counts[key]]
           /\ recycled' = (recycled \/ \E d \in TopCpus : probe[d].pc \in {"load", "store"} /\ probe[d].ptr = e)

\* counts.set(&key, &zero)
SetZero(c) ==
  /\ probe[c].pc = "zero"
  /\ CountsSet(c, probe[c].key, 0)
  /\ Running(c, [probe[c] EXCEPT !.pc = "again"])
  /\ UNCHANGED <<req, owner, start, processes, charged, seen, report>>

\* The second counts.get_mut(&key)?
GetAgain(c) ==
  /\ probe[c].pc = "again"
  /\ LET e == counts[probe[c].key]
     IN  IF e = NoCounter THEN Finish(c)
         ELSE Running(c, AtCounter(probe[c].req, probe[c].key, e)) /\ req' = req
  /\ UNCHANGED <<owner, start, processes, charged, seen, report>> /\ UNCHANGED countsVars

\* request.__data_len()? and the load of counter.io += 1
Load(c, readable) ==
  /\ probe[c].pc = "load"
  /\ IF readable
     THEN /\ Running(c, [pc |-> "store", req |-> probe[c].req, key |-> probe[c].key,
                         ptr |-> probe[c].ptr, io |-> ios[probe[c].ptr]])
          /\ req' = req
     ELSE Finish(c)
  /\ UNCHANGED <<owner, start, processes, charged, seen, report>> /\ UNCHANGED countsVars

Store(c) ==
  /\ probe[c].pc = "store"
  /\ ios' = [ios EXCEPT ![probe[c].ptr] = probe[c].io + 1]
  /\ charged' = [charged EXCEPT ![probe[c].key] = @ + 1]
  /\ Running(c, [pc |-> "delete", req |-> probe[c].req, key |-> probe[c].key])
  /\ UNCHANGED <<req, owner, start, processes, counts, extra, seen, report, recycled>>

\* start.delete and processes.delete; the kernel frees the request.
DeleteStart(c) ==
  /\ probe[c].pc = "delete"
  /\ start' = start \ {probe[c].req}
  /\ processes' = [processes EXCEPT ![probe[c].req] = NoEntry]
  /\ Finish(c)
  /\ UNCHANGED <<owner, charged, seen, report>> /\ UNCHANGED countsVars

\* redbpf-iotop prints an entry of counts.iter(), once a second.
Show(p) ==
  /\ counts[p] # NoCounter /\ report[p] # ios[counts[p]]
  /\ report' = [report EXCEPT ![p] = ios[counts[p]]]
  /\ UNCHANGED <<req, owner, start, processes, probe, charged, seen>> /\ UNCHANGED countsVars

TopNext ==
  \/ \E r \in Reqs :
       \/ \E p \in Pids, dropped \in BOOLEAN : AccountIoStart(r, p, dropped)
       \/ StartRequest(r)
       \/ \E c \in TopCpus, readable \in BOOLEAN : Complete(c, r, readable)
  \/ \E c \in TopCpus :
       \/ SetZero(c) \/ GetAgain(c) \/ Store(c) \/ DeleteStart(c)
       \/ \E readable \in BOOLEAN : Load(c, readable)
  \/ \E p \in ProcessKeys : Show(p)

TopSpec == TopInit /\ [][TopNext]_topVars

-----------------------------------------------------------------------------
\* The I/O column: a request is charged to the process it belongs to, or to no
\* process, whenever blk_account_io_start has seen it, also when the entry of
\* an earlier request at the same address was left behind; no process is shown
\* with more requests than it was charged for, although the CPUs overwrite each
\* other's counts and zeroes, unless a probe adds to an element that has become
\* that of another process meanwhile; and for that it takes three CPUs.
IotopNeverOvercounts ==
  /\ \A c \in TopCpus : probe[c].pc # "idle" /\ seen[probe[c].req] =>
       probe[c].key \in {owner[probe[c].req], Unknown}
  /\ \A r \in Reqs : req[r] \in {"new", "issued"} /\ seen[r] => processes[r] \in {owner[r], NoEntry}
  /\ ~recycled => \A p \in ProcessKeys :
       /\ counts[p] # NoCounter => ios[counts[p]] <= charged[p]
       /\ report[p] <= charged[p]
  /\ recycled => \E a, b, c \in TopCpus : a # b /\ b # c /\ a # c
=============================================================================
