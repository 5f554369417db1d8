------------------------------- MODULE Loader -------------------------------
(***************************************************************************)
(* Loader::load (redbpf/src/load/loader.rs) with PerfMap::bind             *)
(* (redbpf/src/perf.rs) and cpus::get_online (redbpf/src/cpus.rs): all     *)
(* programs are loaded, then a perf buffer is bound and a stream task      *)
(* spawned for every perf map and every CPU that is online, and all tasks  *)
(* send to the one channel of Loaded.                                      *)
(*                                                                         *)
(* A stream is what EventStream promises and PerfRing shows: the task      *)
(* takes the records of its buffer in order and passes them on.  Events    *)
(* are numbered per buffer; CPUs go online and offline meanwhile.          *)
(***************************************************************************)
EXTENDS Integers, Sequences, FiniteSets

CONSTANTS
  Cpus,       \* the possible CPUs: 0 .. n - 1
  PerfMaps,   \* the maps of kind BPF_MAP_TYPE_PERF_EVENT_ARRAY, in order
  Entries,    \* map => max_entries
  NumProgs,   \* programs of the module
  MaxEvents   \* bound: events per buffer

ASSUME LoaderAssumption ==
  /\ Cpus \subseteq Nat /\ PerfMaps \subseteq Nat
  /\ NumProgs \in Nat /\ MaxEvents \in Nat
  /\ Entries \in [PerfMaps -> Nat]

Buffers == PerfMaps \X Cpus

VARIABLES
  online,   \* the CPUs that are online
  phase,    \* "load", "bind"; load returned "ok" or "err" or panicked;
            \* "module": Loaded is being dropped; "dropped"
  loaded,   \* programs loaded so far
  todo,     \* buffers still to be bound
  events,   \* buffers whose perf event is open
  array,    \* entries of the perf maps that are set
  task,     \* buffer => "none", "running" or "gone"
  ring,     \* buffer => records that have not been taken
  chan,     \* the channel: batches <<buffer, records>>
  rx,       \* the receiver is there
  got,      \* what the owner of Loaded has received (history)
  emitted,  \* buffer => events the BPF programs emitted (history)
  missed    \* events that found no buffer (history)

loaderVars ==
  <<online, phase, loaded, todo, events, array, task, ring, chan, rx, got, emitted, missed>>

LoaderInit ==
  /\ online \in (SUBSET Cpus) \ {{}}
  /\ phase = "load" /\ loaded = 0 /\ todo = {}
  /\ events = {} /\ array = {}
  /\ task = [b \in Buffers |-> "none"] /\ ring = [b \in Buffers |-> <<>>]
  /\ chan = <<>> /\ rx = TRUE /\ got = <<>>
  /\ emitted = [b \in Buffers |-> 0] /\ missed = {}

-----------------------------------------------------------------------------
(* Loader::load                                                            *)

\* program.load(..)?: on an error the module is dropped and Err returned.
LoadProgram ==
  /\ phase = "load" /\ loaded < NumProgs
  /\ \/ loaded' = loaded + 1 /\ UNCHANGED phase
     \/ loaded' = 0 /\ phase' = "err"
  /\ UNCHANGED <<online, todo, events, array, task, ring, chan, rx, got, emitted, missed>>

\* cpus::get_online: what /sys/devices/system/cpu/online lists now.
GetOnline ==
  /\ phase = "load" /\ loaded = NumProgs
  /\ phase' = "bind"
  /\ todo' = PerfMaps \X online
  /\ UNCHANGED <<online, loaded, events, array, task, ring, chan, rx, got, emitted, missed>>

\* HashMap::set on the perf map: an index beyond max_entries fails, which is
\* ignored.
SetEntry(b) == IF b[2] < Entries[b[1]] THEN array \cup {b} ELSE array

\* The loops go through the maps and, for each, through the CPUs.
IsNext(b) == \A d \in todo : b[1] < d[1] \/ (b[1] = d[1] /\ b[2] <= d[2])

\* One turn of the two loops: bind and spawn.  No perf event can be opened
\* for a CPU that is offline, and mmap or ioctl may fail with the event open:
\* unwrap panics, which drops the module, its receiver and nothing else.
Bind(b) ==
  /\ phase = "bind" /\ b \in todo /\ IsNext(b)
  /\ \/ /\ b[2] \in online
        /\ events' = events \cup {b}
        /\ array' = SetEntry(b)
        /\ task' = [task EXCEPT ![b] = "running"]
        /\ todo' = todo \ {b}
        /\ UNCHANGED <<phase, loaded, rx>>
     \/ /\ events' \in {events} \cup (IF b[2] \in online THEN {events \cup {b}} ELSE {})
        /\ phase' = "panic"
        /\ loaded' = 0 /\ array' = {} /\ rx' = FALSE
        /\ UNCHANGED <<task, todo>>
  /\ UNCHANGED <<online, ring, chan, got, emitted, missed>>

LoadDone ==
  /\ phase = "bind" /\ todo = {}
  /\ phase' = "ok"
  /\ UNCHANGED <<online, loaded, todo, events, array, task, ring, chan, rx, got, emitted, missed>>

-----------------------------------------------------------------------------
(* The kernel: CPUs and events (external)                                  *)

HotplugCpu(c) ==
  /\ online' = IF c \in online THEN online \ {c} ELSE online \cup {c}
  /\ online' # {}
  /\ UNCHANGED <<phase, loaded, todo, events, array, task, ring, chan, rx, got, emitted, missed>>

\* An attached program calls bpf_perf_event_output on CPU b[2].
Emit(b) ==
  /\ phase = "ok" /\ b[2] \in online
  /\ emitted[b] < MaxEvents
  /\ emitted' = [emitted EXCEPT ![b] = @ + 1]
  /\ IF b \in array /\ b \in events
     THEN ring' = [ring EXCEPT ![b] = Append(@, emitted[b] + 1)] /\ UNCHANGED missed
     ELSE missed' = missed \cup {<<b, emitted[b] + 1>>} /\ UNCHANGED ring
  /\ UNCHANGED <<online, phase, loaded, todo, events, array, task, chan, rx, got>>

-----------------------------------------------------------------------------
(* The stream tasks and the owner of Loaded                                *)

\* Mutant of StreamTask: the tail is not advanced past the last record.
StreamTaskRereads(b) ==
  /\ task[b] = "running" /\ ring[b] # <<>>
  /\ ring' = [ring EXCEPT ![b] = IF rx THEN SubSeq(@, Len(@), Len(@)) ELSE <<>>]
  /\ IF rx
     THEN chan' = Append(chan, <<b, ring[b]>>) /\ UNCHANGED <<task, events>>
     ELSE /\ task' = [task EXCEPT ![b] = "gone"]
          /\ events' = events \ {b}
          /\ UNCHANGED chan
  /\ UNCHANGED <<online, phase, loaded, todo, array, rx, got, emitted, missed>>

\* Mutant of StreamTask: only the first record of a wake-up is sent.
StreamTaskForgets(b) ==
  /\ task[b] = "running" /\ ring[b] # <<>>
  /\ ring' = [ring EXCEPT ![b] = <<>>]
  /\ IF rx
     THEN chan' = Append(chan, <<b, <<Head(ring[b])>> >>) /\ UNCHANGED <<task, events>>
     ELSE /\ task' = [task EXCEPT ![b] = "gone"]
          /\ events' = events \ {b}
          /\ UNCHANGED chan
  /\ UNCHANGED <<online, phase, loaded, todo, array, rx, got, emitted, missed>>

\* The task drains its buffer and sends one batch; when the receiver is gone
\* the task panics and drops its PerfMap.
StreamTask(b) ==
  /\ task[b] = "running" /\ ring[b] # <<>>
  /\ ring' = [ring EXCEPT ![b] = <<>>]
  /\ IF rx
     THEN chan' = Append(chan, <<b, ring[b]>>) /\ UNCHANGED <<task, events>>
     ELSE /\ task' = [task EXCEPT ![b] = "gone"]
          /\ events' = events \ {b}
          /\ UNCHANGED chan
  /\ UNCHANGED <<online, phase, loaded, todo, array, rx, got, emitted, missed>>

\* loader.events.next().await
Receive ==
  /\ phase = "ok" /\ chan # <<>>
  /\ got' = Append(got, Head(chan))
  /\ chan' = Tail(chan)
  /\ UNCHANGED <<online, phase, loaded, todo, events, array, task, ring, rx, emitted, missed>>

\* Loaded is dropped: first its module, with programs and maps, ...
DropModule ==
  /\ phase = "ok"
  /\ phase' = "module"
  /\ loaded' = 0 /\ array' = {}
  /\ UNCHANGED <<online, todo, events, task, ring, chan, rx, got, emitted, missed>>

\* ... then the receiver.
DropEvents ==
  /\ phase = "module"
  /\ phase' = "dropped"
  /\ rx' = FALSE /\ chan' = <<>>
  /\ UNCHANGED <<online, loaded, todo, events, array, task, ring, got, emitted, missed>>

LoaderNext ==
  \/ LoadProgram \/ GetOnline \/ LoadDone
  \/ \E b \in Buffers : Bind(b) \/ Emit(b) \/ StreamTask(b)
  \/ \E c \in Cpus : HotplugCpu(c)
  \/ Receive \/ DropModule \/ DropEvents

\* The runtime runs woken tasks, and the owner keeps receiving.
LoaderSpec ==
  /\ LoaderInit /\ [][LoaderNext]_loaderVars
  /\ \A b \in Buffers : WF_loaderVars(StreamTask(b))
  /\ WF_loaderVars(Receive)
  /\ WF_loaderVars(DropEvents)

-----------------------------------------------------------------------------
(* Properties                                                              *)

\* The records of the given buffer in a sequence of batches.
RecordsOf(b, s) ==
  UNION {{s[i][2][k] : k \in DOMAIN s[i][2]} : i \in {i \in DOMAIN s : s[i][1] = b}}

\* They are in increasing order.
InOrder(b, s) ==
  \A i, j \in DOMAIN s : s[i][1] = b /\ s[j][1] = b =>
    \A k \in DOMAIN s[i][2], l \in DOMAIN s[j][2] :
      i < j \/ (i = j /\ k < l) => s[i][2][k] < s[j][2][l]

\* All batches of the channel, received or not, and the ring as the last one.
Batches(b) == got \o chan \o << <<b, ring[b]>> >>

\* However the tasks of the CPUs interleave, the owner of Loaded gets the
\* events of each buffer in the order they were emitted, none twice and none
\* left out: received, in the channel and in the ring they are exactly the
\* events that were put into a buffer.  When load returns an error, no task, no
\* perf event and no entry of a perf map is left: all programs are loaded before
\* the first buffer is bound.
NothingLostOrLeft ==
  /\ rx => \A b \in Buffers :
       /\ InOrder(b, Batches(b))
       /\ RecordsOf(b, Batches(b)) = {n \in 1 .. emitted[b] : <<b, n>> \notin missed}
  /\ phase = "err" => /\ events = {} /\ array = {} /\ loaded = 0
                      /\ \A b \in Buffers : task[b] = "none"

\* Every event that was put into a buffer is received, unless Loaded is
\* dropped first.
AllReceived ==
  \A b \in Buffers : \A n \in 1 .. MaxEvents :
    (phase = "ok" /\ emitted[b] >= n /\ <<b, n>> \notin missed)
      ~> (phase # "ok" \/ n \in RecordsOf(b, got))
=============================================================================
