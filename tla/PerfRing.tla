------------------------------ MODULE PerfRing ------------------------------
(***************************************************************************)
(* One perf ring buffer and the task that drains it: PerfMap::read and     *)
(* Drop for PerfMap (redbpf/src/perf.rs), PerfMessageStream                *)
(* (redbpf/src/load/map_io.rs) and the for_each closure that Loader::load  *)
(* spawns for it (redbpf/src/load/loader.rs).                              *)
(*                                                                         *)
(* The ring is shared with the kernel, which writes records and advances   *)
(* data_head while read() is running: every access of read() to the shared *)
(* mapping that a concurrent write can affect is a step of its own.        *)
(* Memory is counted in cells of 8 bytes, the alignment of every perf      *)
(* record and the size of perf_event_header, so that a header is one cell. *)
(* A cell is abstracted to <<i, k>>: the k-th cell of the i-th record the  *)
(* kernel ever wrote.  <<0, 0>> is a zeroed cell of the fresh mapping.     *)
(***************************************************************************)
EXTENDS Integers, Sequences

CONSTANTS
  RingCells,    \* raw_size, the size of the data area, in cells
  SampleSizes,  \* the sizes, in cells, of the samples the BPF program emits
  LostCells,    \* the size of a PERF_RECORD_LOST record, in cells
  MaxSamples    \* bound: the number of samples the BPF program emits

ASSUME RingAssumption ==
  /\ RingCells \in Nat \ {0}
  /\ SampleSizes \subseteq Nat \ {0}
  /\ LostCells \in Nat \ {0}
  /\ MaxSamples \in Nat

VARIABLES
  \* shared mapping
  mem,      \* the data area
  head,     \* data_head, a free-running position
  tail,     \* data_tail, a free-running position
  \* kernel side
  log,      \* every record written so far, with its position (history)
  pending,  \* cells written beyond data_head and not published yet
  lost,     \* samples dropped since the last record was written
  nOut,     \* samples emitted by the BPF program
  pub,      \* records of log that data_head covers (history)
  wakeup,   \* a wakeup of the perf fd that epoll has not reported yet
  \* tokio
  ready,    \* readiness of the AsyncFd
  driver,   \* "up", or "down" once the runtime's I/O driver is shut down
  rx,       \* the receiving end of the channel: "open" or "closed"
  \* the stream task
  pc,       \* where the task is
  hd,       \* the local variable data_head of read()
  event,    \* the local variable event of read(): the cell of the header
  buf,      \* PerfMap::buf
  batch,    \* the vector read_messages returns
  sent,     \* messages put into the channel, in order (history)
  reported, \* total of the counts reported as "Possibly lost" (history)
  rd,       \* records of log that data_tail has passed (history)
  misread   \* records whose type was read from overwritten cells (history)

kernelVars == <<log, pending, lost, nOut, pub>>
taskVars   == <<pc, hd, event, buf, batch, sent, reported, rd, misread>>
vars == <<mem, head, tail, kernelVars, wakeup, ready, driver, rx, taskVars>>

Cells    == 0 .. RingCells - 1
Types    == {"sample", "lost", "other"}
PCs      == {"poll", "load", "copy", "release", "type", "send", "gone"}

Init ==
  /\ mem = [c \in Cells |-> <<0, 0>>]
  /\ head = 0 /\ tail = 0
  /\ log = <<>> /\ pending = 0 /\ lost = 0 /\ nOut = 0 /\ pub = 0
  /\ wakeup = FALSE /\ ready = FALSE /\ driver = "up" /\ rx = "open"
  /\ pc = "poll" /\ hd = 0 /\ event = 0 /\ buf = <<>> /\ batch = <<>>
  /\ sent = <<>> /\ reported = 0 /\ rd = 0 /\ misread = {}

-----------------------------------------------------------------------------
(* The kernel side of the ring (external): bpf_perf_event_output.          *)

\* The records one call writes: a sample, preceded by a LOST record when
\* earlier samples were dropped.  count is the number of samples a record
\* accounts for, upto the number of samples emitted so far (history).
NewRecords(size) ==
  LET sampleAt(p) == [type |-> "sample", size |-> size, pos |-> p, count |-> 1, upto |-> nOut + 1]
  IN  IF lost = 0
      THEN <<sampleAt(head)>>
      ELSE << [type |-> "lost", size |-> LostCells, pos |-> head, count |-> lost, upto |-> nOut],
              sampleAt(head + LostCells) >>

NeededCells(size) == IF lost = 0 THEN size ELSE LostCells + size

\* The content of the d-th cell written from data_head on.
WrittenCell(d) ==
  IF lost = 0 \/ d < LostCells
  THEN <<Len(log) + 1, d>>
  ELSE <<Len(log) + 2, d - LostCells>>

\* The kernel keeps one unit of the ring free, so that equal positions mean
\* an empty ring; data_tail is read once, when space is reserved.
KernelOutput(size) ==
  /\ pc # "gone"
  /\ pending = 0
  /\ nOut < MaxSamples
  /\ nOut' = nOut + 1
  /\ IF head - tail + NeededCells(size) <= RingCells - 1
     THEN /\ log' = log \o NewRecords(size)
          /\ mem' = [c \in Cells |->
                       LET d == (c - head) % RingCells
                       IN  IF d < NeededCells(size) THEN WrittenCell(d) ELSE mem[c]]
          /\ pending' = NeededCells(size)
          /\ lost' = 0
     ELSE /\ lost' = lost + 1
          /\ UNCHANGED <<log, mem, pending>>
  /\ UNCHANGED <<head, tail, pub, wakeup, ready, driver, rx, taskVars>>

\* data_head is stored after the data; wakeup_events = 1 makes every sample
\* wake the waiters of the fd.
KernelPublish ==
  /\ pending > 0
  /\ head' = head + pending
  /\ pending' = 0
  /\ pub' = Len(log)
  /\ wakeup' = TRUE
  /\ UNCHANGED <<mem, tail, log, lost, nOut, ready, driver, rx, taskVars>>

-----------------------------------------------------------------------------
(* The tokio runtime (external).                                           *)

\* The driver's epoll reports the edge and sets the readiness of the AsyncFd.
EpollNotify ==
  /\ wakeup
  /\ driver = "up"
  /\ pc # "gone"
  /\ wakeup' = FALSE
  /\ ready' = TRUE
  /\ UNCHANGED <<mem, head, tail, kernelVars, driver, rx, taskVars>>

DriverShutdown ==
  /\ driver = "up"
  /\ driver' = "down"
  /\ UNCHANGED <<mem, head, tail, kernelVars, wakeup, ready, rx, taskVars>>

\* The owner of Loaded drops the receiver of its events.
DropReceiver ==
  /\ rx = "open"
  /\ rx' = "closed"
  /\ UNCHANGED <<mem, head, tail, kernelVars, wakeup, ready, driver, taskVars>>

-----------------------------------------------------------------------------
(* PerfMap::read, one access of the shared mapping at a time.              *)

\* What the size and type fields of a header hold when they are read from
\* the given cell: those of the record if it is a header, zeros in a fresh
\* mapping, anything if the cell holds payload.
SizesAt(cell) ==
  IF cell[1] = 0 THEN {0}
  ELSE IF cell[2] = 0 THEN {log[cell[1]].size}
  ELSE SampleSizes \cup {LostCells}

TypesAt(cell) ==
  IF cell[1] = 0 THEN {"other"}
  ELSE IF cell[2] = 0 THEN {log[cell[1]].type}
  ELSE Types

\* extend_from_slice(from_raw_parts(base + from, len))
Slice(from, len) == [k \in 1 .. len |-> mem[from + k - 1]]

\* Mutant of Copy: the second piece has the length of the whole record.
CopyTooLong(start, size) ==
  LET end == (tail + size) % RingCells
      len == RingCells - start
  IN  IF end < start
      THEN Slice(start, len) \o Slice(0, size)
      ELSE Slice(start, size)

\* The copy of the record of the given size at start, in two pieces when it
\* wraps around the end of the data area.
Copy(start, size) ==
  LET end == (tail + size) % RingCells
      len == RingCells - start
  IN  IF end < start
      THEN Slice(start, len) \o Slice(0, size - len)
      ELSE Slice(start, size)

ReadLoad ==
  /\ pc = "load"
  /\ hd' = head
  /\ pc' = IF tail = head THEN "send" ELSE "copy"
  /\ UNCHANGED <<mem, head, tail, kernelVars, wakeup, ready, driver, rx,
                 event, buf, batch, sent, reported, rd, misread>>

ReadCopy ==
  /\ pc = "copy"
  /\ event' = tail % RingCells
  /\ \E size \in SizesAt(mem[tail % RingCells]) :
       buf' = Copy(tail % RingCells, size)
  /\ pc' = "release"
  /\ UNCHANGED <<mem, head, tail, kernelVars, wakeup, ready, driver, rx,
                 hd, batch, sent, reported, rd, misread>>

\* Mutant of ReadRelease: everything up to data_head is released.
ReadReleaseAll ==
  /\ pc = "release"
  /\ tail' = hd
  /\ rd' = rd + 1
  /\ pc' = "type"
  /\ UNCHANGED <<mem, head, kernelVars, wakeup, ready, driver, rx,
                 hd, event, buf, batch, sent, reported, misread>>

\* The size is read from the ring again, then the space is released.
ReadRelease ==
  /\ pc = "release"
  /\ \E size \in SizesAt(mem[event]) : tail' = tail + size
  /\ rd' = rd + 1
  /\ pc' = "type"
  /\ UNCHANGED <<mem, head, kernelVars, wakeup, ready, driver, rx,
                 hd, event, buf, batch, sent, reported, misread>>

\* Mutant of ReadType: a LOST record is pushed like a sample.
ReadTypePushLost ==
  /\ pc = "type"
  /\ \E type \in TypesAt(mem[event]) :
       LET i == buf[1][1]
           right == type = log[i].type
       IN  /\ batch' = IF type # "other" THEN Append(batch, i) ELSE batch
           /\ reported' = IF type = "lost" /\ right
                          THEN reported + log[i].count ELSE reported
           /\ misread' = IF right THEN misread ELSE misread \cup {i}
           /\ pc' = IF type = "other" THEN "send" ELSE "load"
  /\ UNCHANGED <<mem, head, tail, kernelVars, wakeup, ready, driver, rx,
                 hd, event, buf, sent, rd>>

\* The type is read from the ring after the release; read() returns and the
\* loop of read_messages pushes the message, reports the loss, or stops.
ReadType ==
  /\ pc = "type"
  /\ \E type \in TypesAt(mem[event]) :
       LET i == buf[1][1]
           right == type = log[i].type
       IN  /\ batch' = IF type = "sample" THEN Append(batch, i) ELSE batch
           /\ reported' = IF type = "lost" /\ right
                          THEN reported + log[i].count ELSE reported
           /\ misread' = IF right THEN misread ELSE misread \cup {i}
           /\ pc' = IF type = "other" THEN "send" ELSE "load"
  /\ UNCHANGED <<mem, head, tail, kernelVars, wakeup, ready, driver, rx,
                 hd, event, buf, sent, rd>>

-----------------------------------------------------------------------------
(* PerfMessageStream::poll_next and the closure that consumes its items.   *)

\* The readiness is cleared before the first record is read.
PollReady ==
  /\ pc = "poll"
  /\ driver = "up"
  /\ ready
  /\ ready' = FALSE
  /\ batch' = <<>>
  /\ pc' = "load"
  /\ UNCHANGED <<mem, head, tail, kernelVars, wakeup, driver, rx,
                 hd, event, buf, sent, reported, rd, misread>>

\* poll_next returns None, for_each completes and the stream is dropped.
PollError ==
  /\ pc = "poll"
  /\ driver = "down"
  /\ pc' = "gone"
  /\ UNCHANGED <<mem, head, tail, kernelVars, wakeup, ready, driver, rx,
                 hd, event, buf, batch, sent, reported, rd, misread>>

\* Mutant of SendBatch: the readiness is cleared after the records were read.
SendBatchClearReady ==
  /\ pc = "send"
  /\ IF rx = "open"
     THEN /\ sent' = sent \o batch
          /\ batch' = <<>>
          /\ pc' = "poll"
          /\ ready' = FALSE
     ELSE /\ pc' = "gone"
          /\ UNCHANGED <<sent, batch, ready>>
  /\ UNCHANGED <<mem, head, tail, kernelVars, wakeup, driver, rx,
                 hd, event, buf, reported, rd, misread>>

\* Mutant of SendBatch: the vector keeps its messages for the next batch.
SendBatchKeep ==
  /\ pc = "send"
  /\ IF rx = "open"
     THEN /\ sent' = sent \o batch
          /\ UNCHANGED batch
          /\ pc' = "poll"
     ELSE /\ pc' = "gone"
          /\ UNCHANGED <<sent, batch>>
  /\ UNCHANGED <<mem, head, tail, kernelVars, wakeup, ready, driver, rx,
                 hd, event, buf, reported, rd, misread>>

\* start_send(..).unwrap(): a closed channel panics the task, which drops the
\* stream and with it the mapping and the fd.
SendBatch ==
  /\ pc = "send"
  /\ IF rx = "open"
     THEN /\ sent' = sent \o batch
          /\ batch' = <<>>
          /\ pc' = "poll"
     ELSE /\ pc' = "gone"
          /\ UNCHANGED <<sent, batch>>
  /\ UNCHANGED <<mem, head, tail, kernelVars, wakeup, ready, driver, rx,
                 hd, event, buf, reported, rd, misread>>

Task == \/ PollReady \/ PollError \/ SendBatch
        \/ ReadLoad \/ ReadCopy \/ ReadRelease \/ ReadType

Next == \/ \E size \in SampleSizes : KernelOutput(size)
        \/ KernelPublish
        \/ EpollNotify \/ DriverShutdown \/ DropReceiver
        \/ Task

Spec == Init /\ [][Next]_vars

\* The kernel finishes the output it started; the runtime polls its driver
\* and a woken task as long as it runs.
Fairness == WF_vars(KernelPublish) /\ WF_vars(EpollNotify) /\ WF_vars(Task)

FairSpec == Spec /\ Fairness

-----------------------------------------------------------------------------
(* Properties.                                                             *)

Record ==
  [type : {"sample", "lost"}, size : Nat \ {0}, pos : Nat, count : Nat \ {0}, upto : Nat]

\* The shape of the state; the offset PerfMap::read copies from is reduced to
\* one inside the ring.
TypeOK ==
  /\ mem \in [Cells -> Nat \X Nat]
  /\ head \in Nat /\ tail \in Nat
  /\ log \in Seq(Record)
  /\ pending \in Nat /\ lost \in Nat /\ nOut \in Nat /\ pub \in Nat
  /\ wakeup \in BOOLEAN /\ ready \in BOOLEAN
  /\ driver \in {"up", "down"} /\ rx \in {"open", "closed"}
  /\ pc \in PCs
  /\ hd \in Nat /\ event \in Cells
  /\ buf \in Seq(Nat \X Nat)
  /\ batch \in Seq(Nat) /\ sent \in Seq(Nat)
  /\ reported \in Nat /\ rd \in Nat
  /\ misread \subseteq Nat

\* The cells of record i, in order.
RecordCells(i) == [k \in 1 .. log[i].size |-> <<i, k - 1>>]

\* What read() has copied into its buffer is one whole record, the one right
\* after the last one it released: nothing of a neighbour, nothing torn by a
\* concurrent kernel write, also when the record wraps around the end.
CopyIsWholeRecord ==
  /\ pc = "release" => buf = RecordCells(rd + 1)
  /\ pc = "type" => buf = RecordCells(rd)

\* Where record n ends, and so where the next one starts.
EndOf(n) == IF n = 0 THEN 0 ELSE log[n].pos + log[n].size

\* The strengthening that makes CopyIsWholeRecord inductive: records tile the
\* positions, data_tail and data_head stand between records, the kernel stays
\* less than a turn ahead of data_tail, and until a record is released its
\* cells hold it whatever read() is doing.
RingInv ==
  /\ pub <= Len(log) /\ rd <= pub
  /\ tail = EndOf(rd) /\ head = EndOf(pub) /\ head + pending = EndOf(Len(log))
  /\ head + pending - tail <= RingCells - 1
  /\ \A i \in 1 .. Len(log) : log[i].pos = EndOf(i - 1)
  /\ \A i, j \in 0 .. Len(log) : i <= j => EndOf(i) <= EndOf(j)
  /\ \A i \in rd + 1 .. Len(log) : \A k \in 0 .. log[i].size - 1 :
       mem[(log[i].pos + k) % RingCells] = <<i, k>>
  /\ pc \in {"copy", "release"} => rd < pub
  /\ pc = "release" => event = tail % RingCells
  /\ pc = "type" => rd > 0

Handled == IF pc = "type" THEN rd - 1 ELSE rd

\* As long as the stream lives, the messages in the channel and in the batch
\* are exactly the samples consumed from the ring, each once and in the order
\* the kernel wrote them; only records whose type was read from overwritten
\* cells may be missing or be mistaken for a sample.  The type, which is read
\* after the space of the record was released, can only be wrong when the
\* kernel has meanwhile written a full turn beyond the start of the record, over
\* its header.  With the ring drained, every sample the BPF program emitted has
\* been delivered, has been reported in a "Possibly lost" message, or is among
\* the drops the kernel will announce with its next record.
DeliveredInOrder ==
  LET delivered == sent \o batch
  IN  /\ pc # "gone" =>
           /\ \A j, k \in 1 .. Len(delivered) : j < k => delivered[j] < delivered[k]
           /\ {delivered[j] : j \in 1 .. Len(delivered)} \ misread
                = {i \in 1 .. Handled : log[i].type = "sample"} \ misread
      /\ \A i \in misread : \E j \in 1 .. Len(log) :
           /\ log[j].pos <= log[i].pos + RingCells
           /\ log[i].pos + RingCells < log[j].pos + log[j].size
      /\ (pc = "poll" /\ tail = head /\ pending = 0 /\ misread = {}) =>
           nOut = Len(sent) + reported + lost

\* The promise of the stream: see EventStream.
Stream == INSTANCE EventStream WITH written <- pub, taken <- Handled,
                                    passed <- sent \o batch, open <- pc # "gone"

\* The ring, the readiness protocol and the task together implement the
\* abstract stream: records are taken in order, at most once, one per turn of
\* the loop in read_messages, and none after the stream has ended.
ImplementsEventStream == Stream!Spec

\* map_io.rs: "Note that all messages should be consumed. Because ready flag
\* is cleared, the remaining messages will not be read soon."  When
\* read_messages returns, data_tail has reached the data_head it last saw.
AllMessagesConsumed == pc = "send" => tail = hd

\* No wakeup is lost: every record the kernel publishes is read, or the stream
\* ends because the runtime shut down or the receiver is gone; and a stream
\* whose receiver was dropped gives up its fd and its mapping once there is a
\* record to read.
StreamProgress ==
  /\ \A i \in 1 .. 2 * MaxSamples : (pub >= i) ~> (rd >= i \/ pc = "gone")
  /\ (rx = "closed" /\ rd < pub) ~> (pc = "gone")
=============================================================================
