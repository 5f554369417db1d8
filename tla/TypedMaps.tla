----------------------------- MODULE TypedMaps -----------------------------
(***************************************************************************)
(* The typed views of a Map of redbpf/src/lib.rs and redbpf/src/xdp.rs:    *)
(* HashMap, LruHashMap, PerCpuHashMap, LruPerCpuHashMap, Array,            *)
(* PerCpuArray, ProgramArray, StackTrace, SockMap and DevMap; the values   *)
(* of per-CPU maps and the CPU list of redbpf/src/cpus.rs they rely on.    *)
(*                                                                         *)
(* The user hands the kernel a buffer whose layout follows from the Rust   *)
(* types of the view; the kernel reads or fills it with the layout that    *)
(* follows from the definition of the map.  A buffer is a function from    *)
(* offsets to values.  A value is copied in one step, the values of the    *)
(* CPUs one after the other, while BPF programs change their own value.    *)
(***************************************************************************)
EXTENDS Integers, FiniteSets, FiniteSetsExt, Sequences, SequencesExt

CONSTANTS
  Masks,       \* the sets of possible CPUs considered
  Configs,     \* the map definitions: records of type, ksize, vsize
  Views,       \* the views: records of kind, K and V (sizes of the Rust types)
  MaxEntries,  \* max_entries of the map definition
  MaxVal       \* bound on the values

Vals == 0 .. MaxVal
Elems == 1 .. MaxEntries
Keys == 1 .. MaxEntries + 1        \* the last one is an index out of bounds
None == 0

VARIABLES
  mask,    \* the possible CPUs
  conf,    \* Map::config
  view,    \* the view made by new(), or NoView, or ErrView: new() returned Err(Map)
  store,   \* the element that holds each key, or None
  cells,   \* the values of each element, one for each slot
  call,    \* the user's call: pc, op, key, elem, slot, buffer and result
  rmw,     \* per slot: the program that has read a value and will write it back
  seen,    \* per slot: the values the key had there during the call (history)
  wrote,   \* the slots of the key that programs wrote during the call (history)
  gone     \* the element was taken from the key during the call (history)

vars == <<mask, conf, view, store, cells, call, rmw, seen, wrote, gone>>

-----------------------------------------------------------------------------
(* cpus.rs                                                                 *)

\* The text of /sys/devices/system/cpu/possible (external): the maximal runs of
\* CPUs in ascending order, a run of one written as one number.
PossibleText(m) ==
  LET firsts == SetToSortSeq({c \in m : c - 1 \notin m}, <)
      last(c) == Min({d \in m : d >= c /\ d + 1 \notin m})
  IN  [g \in DOMAIN firsts |->
         IF last(firsts[g]) = firsts[g] THEN <<firsts[g]>>
         ELSE <<firsts[g], last(firsts[g])>>]

ListFromString(groups) ==
  FlattenSeq([g \in DOMAIN groups |->
    LET start == groups[g][1]
        end == IF Len(groups[g]) = 1 THEN start ELSE groups[g][2]
    IN  [i \in 1 .. end - start + 1 |-> start + i - 1]])

GetPossible == ListFromString(PossibleText(mask))

GetPossibleNum == Len(GetPossible)

-----------------------------------------------------------------------------
(* The layouts                                                             *)

\* Mutant: the value size is passed on as it is.
RoundUpNot(size, unit) == size

\* ((size - 1) | (unit - 1)) + 1, for a unit that is a power of two.
RoundUp(size, unit) == (size - 1) - ((size - 1) % unit) + unit

PerCpuTypes == {"PERCPU_HASH", "LRU_PERCPU_HASH", "PERCPU_ARRAY"}
LruTypes == {"LRU_HASH", "LRU_PERCPU_HASH"}
ArrayTypes == {"ARRAY", "PERCPU_ARRAY"}
IndexTypes == ArrayTypes \cup {"PROG_ARRAY", "SOCKMAP", "DEVMAP"}
DataTypes == ArrayTypes \cup PerCpuTypes \cup LruTypes \cup {"HASH"}
PerCpuKinds == {"PerCpuHashMap", "LruPerCpuHashMap", "PerCpuArray"}

\* The kernel (external): a slot for every possible CPU, in ascending order,
\* or one slot shared by all; values rounded up to 8 bytes in per-CPU maps.
KernelSlots == IF conf.type \in PerCpuTypes THEN SetToSortSeq(mask, <) ELSE <<0>>
KernelStride == IF conf.type \in PerCpuTypes THEN ((conf.vsize + 7) \div 8) * 8
                ELSE conf.vsize

CpuSlots == Range(KernelSlots)
Slot(c) == IF conf.type \in PerCpuTypes THEN c ELSE 0

-----------------------------------------------------------------------------
(* new() of the views                                                      *)

TypeOf == [HashMap |-> "HASH", LruHashMap |-> "LRU_HASH",
           PerCpuHashMap |-> "PERCPU_HASH", LruPerCpuHashMap |-> "LRU_PERCPU_HASH",
           Array |-> "ARRAY", PerCpuArray |-> "PERCPU_ARRAY",
           ProgramArray |-> "PROG_ARRAY", StackTrace |-> "STACK_TRACE",
           SockMap |-> "SOCKMAP", DevMap |-> "DEVMAP"]

\* Size and type of a map must be those of the view ...
Same(v, type) == v.K = conf.ksize /\ v.V = conf.vsize /\ conf.type = type

NewHashMap(v) == Same(v, "HASH") \/ Same(v, "PERF_EVENT_ARRAY")
NewLruHashMap(v) == Same(v, "LRU_HASH")
NewPerCpuHashMap(v) == Same(v, "PERCPU_HASH")
NewLruPerCpuHashMap(v) == Same(v, "LRU_PERCPU_HASH")
NewDevMap(v) == Same(v, "DEVMAP")
NewArray(v) == v.V = conf.vsize /\ conf.type = "ARRAY"

NewPerCpuArray(v) == v.V = conf.vsize /\ conf.type = "PERCPU_ARRAY"

\* ... but a ProgramArray does not look at the type, the others at nothing.
NewProgramArray(v) == v.K = conf.ksize /\ v.V = conf.vsize
NewStackTrace(v) == TRUE
NewSockMap(v) == TRUE

Accepts(v) ==
  CASE v.kind = "HashMap" -> NewHashMap(v)
    [] v.kind = "LruHashMap" -> NewLruHashMap(v)
    [] v.kind = "PerCpuHashMap" -> NewPerCpuHashMap(v)
    [] v.kind = "LruPerCpuHashMap" -> NewLruPerCpuHashMap(v)
    [] v.kind = "DevMap" -> NewDevMap(v)
    [] v.kind = "Array" -> NewArray(v)
    [] v.kind = "PerCpuArray" -> NewPerCpuArray(v)
    [] v.kind = "ProgramArray" -> NewProgramArray(v)
    [] v.kind = "StackTrace" -> NewStackTrace(v)
    [] v.kind = "SockMap" -> NewSockMap(v)

NoView == [kind |-> "none"]
ErrView == [kind |-> "err"]

HasView == view.kind \in DOMAIN TypeOf

\* The view is of the type of the map, as all but four views make sure.
RightView == HasView /\ TypeOf[view.kind] = conf.type

New(v) ==
  /\ view = NoView
  /\ view' = IF Accepts(v) THEN v ELSE ErrView
  /\ UNCHANGED <<mask, conf, store, cells, call, rmw, seen, wrote, gone>>

-----------------------------------------------------------------------------
(* The calls                                                               *)

Idle == [pc |-> "idle"]
NoRmw == [elem |-> None, val |-> 0]

Init ==
  /\ mask \in Masks /\ conf \in Configs /\ view = NoView
  /\ store = [k \in Keys |-> IF conf.type \in ArrayTypes /\ k \in Elems THEN k ELSE None]
  /\ cells = [e \in Elems |-> [s \in CpuSlots |-> 0]]
  /\ call = Idle
  /\ rmw = [s \in CpuSlots |-> NoRmw]
  /\ seen = [s \in CpuSlots |-> {}] /\ wrote = {} /\ gone = FALSE

Ops(kind) ==
  CASE kind \in {"HashMap", "LruHashMap", "PerCpuHashMap", "LruPerCpuHashMap"} ->
         {"get", "set", "delete"}
    [] kind \in {"Array", "PerCpuArray", "ProgramArray"} -> {"get", "set"}
    [] kind = "StackTrace" -> {"get", "delete"}
    [] kind \in {"SockMap", "DevMap"} -> {"set", "delete"}

\* bpf_map_update_elem holds the lock of the bucket; nothing else changes the
\* entries of a hash map meanwhile.
Locked == call.pc = "copy" /\ call.op = "set" /\ conf.type \notin IndexTypes

Return(res, vals) == call' = [pc |-> "done", op |-> call.op, key |-> call.key,
                              elem |-> call.elem, vals |-> vals, res |-> res]

Begin(op, k, vals) ==
  /\ call.pc = "idle" /\ RightView /\ op \in Ops(view.kind)
  /\ call' = [pc |-> "start", op |-> op, key |-> k, elem |-> None, vals |-> vals]
  /\ UNCHANGED <<mask, conf, view, store, cells, rmw, seen, wrote, gone>>

\* The calls of the per-CPU hash maps; delete drops the result.
PerCpuHashMapCall(op, k, vals) == view.kind = "PerCpuHashMap" /\ Begin(op, k, vals)
LruPerCpuHashMapCall(op, k, vals) == view.kind = "LruPerCpuHashMap" /\ Begin(op, k, vals)
OtherCall(op, k, vals) ==
  view.kind \notin {"PerCpuHashMap", "LruPerCpuHashMap"} /\ Begin(op, k, vals)

Call(op, k, vals) ==
  PerCpuHashMapCall(op, k, vals) \/ LruPerCpuHashMapCall(op, k, vals) \/ OtherCall(op, k, vals)

\* PerCpuValues: as many values as the vector had that it was made from.  The
\* values of a call differ from CPU to CPU.
PerCpuValues(len, v) == [i \in 1 .. len |-> (v + i) % (MaxVal + 1)]

\* The buffer of a set: the i-th value at i times the stride.
Layout(vals, stride) == [o \in {stride * (i - 1) : i \in DOMAIN vals} |->
                           vals[o \div stride + 1]]

\* The key's element at the moment of the system call starts the history.
Watch(e) ==
  /\ seen' = [s \in CpuSlots |-> IF e = None THEN {} ELSE {cells[e][s]}]
  /\ wrote' = {}
  /\ gone' = FALSE

\* bpf_map_lookup_elem with a zeroed buffer; None or Err when there is no element
Lookup(kinds, count, stride) ==
  /\ call.pc = "start" /\ call.op = "get" /\ view.kind \in kinds
  /\ IF store[call.key] = None
     THEN Return("none", <<>>) /\ UNCHANGED <<seen, wrote, gone>>
     ELSE /\ call' = [pc |-> "copy", op |-> "get", key |-> call.key,
                      elem |-> store[call.key], slot |-> 1, vals |-> <<>>,
                      count |-> count, stride |-> stride,
                      buf |-> [o \in {stride * (i - 1) : i \in 1 .. count} |-> 0]]
          /\ Watch(store[call.key])
  /\ UNCHANGED <<mask, conf, view, store, cells, rmw>>

BpfPercpuMapGet == Lookup({"PerCpuHashMap", "LruPerCpuHashMap"}, GetPossibleNum, RoundUp(view.V, 8))
PerCpuArrayGet == Lookup({"PerCpuArray"}, GetPossibleNum, RoundUp(view.V, 8))
BpfMapGet == Lookup({"HashMap", "LruHashMap"}, 1, view.V)
ArrayGet == Lookup({"Array"}, 1, view.V)
ProgramArrayGet == Lookup({"ProgramArray"}, 1, view.V)
StackTraceGet == Lookup({"StackTrace"}, 1, view.V)

\* The kernel fills the next slot of the buffer.  After the last one the user
\* reads the values back.
GetSlot ==
  /\ call.pc = "copy" /\ call.op = "get"
  /\ LET off == KernelStride * (call.slot - 1)
         val == cells[call.elem][KernelSlots[call.slot]]
         buf == [o \in DOMAIN call.buf \cup {off} |-> IF o = off THEN val ELSE call.buf[o]]
     IN  IF call.slot < Len(KernelSlots)
         THEN call' = [call EXCEPT !.slot = @ + 1, !.buf = buf]
         ELSE Return("some", [i \in 1 .. call.count |-> buf[call.stride * (i - 1)]])
  /\ UNCHANGED <<mask, conf, view, store, cells, rmw, seen, wrote, gone>>

Free == {e \in Elems : \A k \in Keys : store[k] # e}

CountOk(vals) == Len(vals) = GetPossibleNum

\* The element a set fills (external): the key's own, the one of the index, or
\* a free one; None when the index is out of bounds or the map is full.
Target(k) ==
  IF store[k] # None THEN store[k]
  ELSE IF conf.type \in IndexTypes THEN IF k \in Elems THEN k ELSE None
  ELSE IF Free = {} THEN None ELSE Min(Free)

\* bpf_map_update_elem.  An LRU map makes room first (Removed).
Update(kinds, ok, stride) ==
  /\ call.pc = "start" /\ call.op = "set" /\ view.kind \in kinds
  /\ conf.type \in LruTypes => Target(call.key) # None
  /\ IF Target(call.key) = None \/ ~ok
     THEN Return("err", call.vals) /\ UNCHANGED <<seen, wrote, gone>>
     ELSE /\ call' = [pc |-> "copy", op |-> "set", key |-> call.key,
                      elem |-> Target(call.key), slot |-> 1, vals |-> call.vals,
                      buf |-> Layout(call.vals, stride)]
          /\ Watch(Target(call.key))
  /\ UNCHANGED <<mask, conf, view, store, cells, rmw>>

BpfPercpuMapSet ==
  Update({"PerCpuHashMap", "LruPerCpuHashMap"}, CountOk(call.vals), RoundUp(view.V, 8))
PerCpuArraySet == Update({"PerCpuArray"}, CountOk(call.vals), RoundUp(view.V, 8))
BpfMapSet == Update({"HashMap", "LruHashMap"}, TRUE, view.V)
ArraySet == Update({"Array"}, TRUE, view.V)
ProgramArraySet == Update({"ProgramArray"}, TRUE, view.V)
SockMapSet == Update({"SockMap"}, TRUE, view.V)
DevMapSet == Update({"DevMap"}, TRUE, view.V)

\* The kernel may refuse what it is given: a socket or interface that is gone.
SetRefused ==
  /\ call.pc = "start" /\ call.op = "set" /\ view.kind \in {"SockMap", "DevMap", "ProgramArray"}
  /\ Return("err", call.vals)
  /\ UNCHANGED <<mask, conf, view, store, cells, rmw, seen, wrote, gone>>

\* What lies past the end of the user's buffer is anything.
Read(buf, off) == IF off \in DOMAIN buf THEN {buf[off]} ELSE Vals

\* The kernel copies the next slot; a new element becomes visible when it is
\* complete.
SetSlot ==
  /\ call.pc = "copy" /\ call.op = "set"
  /\ LET s == KernelSlots[call.slot]
     IN  \E v \in Read(call.buf, KernelStride * (call.slot - 1)) :
           /\ cells' = [cells EXCEPT ![call.elem][s] = v]
           /\ seen' = [seen EXCEPT ![s] = @ \cup {v}]
           /\ wrote' = wrote \ {s}
  /\ IF call.slot < Len(KernelSlots)
     THEN call' = [call EXCEPT !.slot = @ + 1] /\ UNCHANGED store
     ELSE Return("ok", call.vals) /\ store' = [store EXCEPT ![call.key] = call.elem]
  /\ UNCHANGED <<mask, conf, view, rmw, gone>>

\* The element of a key is freed: by delete(), or evicted by an LRU map.
Unlink(k) ==
  /\ store[k] # None /\ ~Locked
  /\ store' = [store EXCEPT ![k] = None]
  /\ gone' = (gone \/ (call.pc \in {"copy", "done"} /\ call.elem = store[k]))

\* bpf_map_delete_elem
DeleteElem(kinds) ==
  /\ call.pc = "start" /\ call.op = "delete" /\ view.kind \in kinds
  /\ IF store[call.key] = None
     THEN Return("err", call.vals) /\ UNCHANGED <<store, gone>>
     ELSE Return("ok", call.vals) /\ Unlink(call.key)
  /\ UNCHANGED <<mask, conf, view, cells, rmw, seen, wrote>>

BpfMapDelete == DeleteElem({"HashMap", "LruHashMap", "PerCpuHashMap", "LruPerCpuHashMap"})
StackTraceDelete == DeleteElem({"StackTrace"})
SockMapDelete == DeleteElem({"SockMap"})
DevMapDelete == DeleteElem({"DevMap"})

End ==
  /\ call.pc = "done"
  /\ call' = Idle
  /\ seen' = [s \in CpuSlots |-> {}] /\ wrote' = {} /\ gone' = FALSE
  /\ UNCHANGED <<mask, conf, view, store, cells, rmw>>

-----------------------------------------------------------------------------
(* BPF programs and other users of the map (external)                      *)

Removed(k) ==
  /\ conf.type \notin ArrayTypes /\ Unlink(k)
  /\ UNCHANGED <<mask, conf, view, cells, call, rmw, seen, wrote>>

\* An element is reused for another key as soon as it is free; a program's
\* update fills its own slot and zeroes the others.
ProgInsert(k, c) ==
  /\ store[k] = None /\ conf.type \notin IndexTypes /\ ~Locked /\ Free # {}
  /\ LET e == Min(Free)
     IN  /\ store' = [store EXCEPT ![k] = e]
         /\ cells' = [cells EXCEPT ![e] = [s \in CpuSlots |-> IF s = Slot(c) THEN 1 ELSE 0]]
  /\ UNCHANGED <<mask, conf, view, call, rmw, seen, wrote, gone>>

\* A program increments its value through the pointer a lookup returned.
ProgRead(k, c) ==
  /\ conf.type \in DataTypes /\ store[k] # None /\ rmw[Slot(c)] = NoRmw
  /\ cells[store[k]][Slot(c)] < MaxVal
  /\ rmw' = [rmw EXCEPT ![Slot(c)] = [elem |-> store[k], val |-> cells[store[k]][Slot(c)]]]
  /\ UNCHANGED <<mask, conf, view, store, cells, call, seen, wrote, gone>>

ProgWrite(s) ==
  /\ rmw[s] # NoRmw
  /\ cells' = [cells EXCEPT ![rmw[s].elem][s] = rmw[s].val + 1]
  /\ IF call.pc # "idle" /\ call.elem = rmw[s].elem
     THEN seen' = [seen EXCEPT ![s] = @ \cup {rmw[s].val + 1}] /\ wrote' = wrote \cup {s}
     ELSE UNCHANGED <<seen, wrote>>
  /\ rmw' = [rmw EXCEPT ![s] = NoRmw]
  /\ UNCHANGED <<mask, conf, view, store, call, gone>>

Next ==
  \/ \E v \in Views : New(v)
  \/ \E k \in Keys, op \in {"get", "delete"} : Call(op, k, <<>>)
  \/ \E k \in Keys, v \in Vals,
       len \in IF view.kind \in PerCpuKinds THEN {GetPossibleNum, GetPossibleNum - 1} ELSE {1} :
       Call("set", k, PerCpuValues(len, v))
  \/ BpfPercpuMapGet \/ PerCpuArrayGet \/ BpfMapGet \/ ArrayGet \/ ProgramArrayGet \/ StackTraceGet
  \/ BpfPercpuMapSet \/ PerCpuArraySet \/ BpfMapSet \/ ArraySet
  \/ ProgramArraySet \/ SockMapSet \/ DevMapSet
  \/ BpfMapDelete \/ StackTraceDelete \/ SockMapDelete \/ DevMapDelete
  \/ GetSlot \/ SetRefused \/ SetSlot \/ End
  \/ \E k \in Keys : Removed(k)
  \/ \E k \in Keys, c \in mask : ProgInsert(k, c) \/ ProgRead(k, c)
  \/ \E s \in CpuSlots : ProgWrite(s)

Spec == Init /\ [][Next]_vars

-----------------------------------------------------------------------------
(* Properties                                                              *)

\* "The number of elements in `values` should be equal to the number of
\* possible CPUs": the i-th value a get returns is one that the i-th possible
\* CPU had during the call, unless the key was deleted under it; when a set
\* returns Ok, every possible CPU has the value meant for it, unless a program
\* on that CPU has written since.  The kernel stays inside the buffers of the
\* user: new() accepts a map of the right type only if the key, and the values
\* of all possible CPUs, have the size the kernel gives them.  (StackTrace and
\* SockMap accept every map; their sizes are those of the map macro.)
PerCpuExact ==
  /\ call.pc = "done" =>
       /\ call.op = "get" /\ call.res = "some" /\ ~gone =>
            \A i \in DOMAIN KernelSlots : call.vals[i] \in seen[KernelSlots[i]]
       /\ call.op = "set" /\ call.res = "ok" /\ ~gone =>
            /\ Len(call.vals) = Len(KernelSlots)
            /\ \A i \in DOMAIN KernelSlots :
                 KernelSlots[i] \in wrote \/ cells[call.elem][KernelSlots[i]] = call.vals[i]
  /\ RightView /\ view.kind \notin {"StackTrace", "SockMap"} =>
       /\ conf.ksize <= view.K
       /\ KernelStride * Len(KernelSlots) <=
            IF view.kind \in PerCpuKinds THEN RoundUp(view.V, 8) * GetPossibleNum ELSE view.V
=============================================================================
