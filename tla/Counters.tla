------------------------------ MODULE Counters ------------------------------
(***************************************************************************)
(* The hashmaps example: the probe of __kmalloc                            *)
(* (examples/example-probes/src/hashmaps/main.rs), which counts calls in a *)
(* PerCpuHashMap and in a HashMap, and the program that prints both counts *)
(* (examples/example-userspace/examples/hashmaps.rs), over the map types   *)
(* of redbpf-probes/src/maps.rs.                                           *)
(*                                                                         *)
(* The probe runs on every CPU at once; on one CPU it is not interrupted   *)
(* by itself.  A lookup returns a pointer into the map.                    *)
(***************************************************************************)
EXTENDS Integers, FiniteSets, FiniteSetsExt, Functions

CONSTANTS
  Cpus,      \* the CPUs
  Sizes,     \* the sizes passed to __kmalloc
  MaxCalls   \* bound on the calls of __kmalloc

ASSUME CountAssumption == IsFiniteSet(Cpus)

Absent == -1

\* The key: 2^x - 1 for a size of x bits, 9999 for more than twelve.
Bucket(size) ==
  LET fits == {x \in 1 .. 12 : size \div 2^x = 0}
  IN  IF fits = {} THEN 9999 ELSE 2^Min(fits) - 1

Keys == {Bucket(size) : size \in Sizes}

\* The kernel (external) allocates the elements of a map of type HASH with the
\* map, and one more for every CPU.
KeyElem(k) == <<"key", k>>
CpuElem(c) == <<"cpu", c>>
Elems == {KeyElem(k) : k \in Keys} \cup {CpuElem(c) : c \in Cpus}
NoElem == <<"none">>

VARIABLES
  pcpu,   \* PCPU_MEM_ALLOC: per key, the count of every CPU, or Absent on all
  elem,   \* MEM_ALLOC: per key, its element, or NoElem
  cells,  \* the counts in the elements of MEM_ALLOC
  spare,  \* per CPU: the element its next update of an entry will use
  prog,   \* per CPU: the probe's place, key and the count it has read
  user,   \* the reader's place, key, CPUs summed so far, total_cnt, exact_cnt
  calls,  \* per key, the calls of __kmalloc (history)
  reused  \* an element was put to use while a probe had a pointer to it (history)

countVars == <<pcpu, elem, cells, spare, prog, user, calls, reused>>

memVars == <<elem, cells, spare, reused>>

Resting == [pc |-> "idle"]

CountInit ==
  /\ pcpu = [k \in Keys |-> [c \in Cpus |-> Absent]]
  /\ elem = [k \in Keys |-> NoElem]
  /\ cells = [e \in Elems |-> 0]
  /\ spare = [c \in Cpus |-> CpuElem(c)]
  /\ prog = [c \in Cpus |-> Resting]
  /\ user = Resting
  /\ calls = [k \in Keys |-> 0] /\ reused = FALSE

-----------------------------------------------------------------------------
(* redbpf-probes/src/maps.rs                                               *)

\* get_mut on the per-CPU map: is there an element?
HasElem(k) == \E c \in Cpus : pcpu[k][c] # Absent

\* Mutant: the value is set for all CPUs.
PcpuSetAll(k, c, v) == [pcpu EXCEPT ![k] = [d \in Cpus |-> v]]

\* set on the per-CPU map from a program on CPU c: a new element is zero on the
\* other CPUs; of an element that is there, only the value of c is replaced.
PcpuSet(k, c, v) ==
  [pcpu EXCEPT ![k] = [d \in Cpus |-> IF d = c THEN v
                                     ELSE IF HasElem(k) THEN pcpu[k][d] ELSE 0]]

\* set on the other map: an entry that is there gets the spare element of the
\* CPU, and its own becomes the spare one, whoever still has a pointer to it.
MemSet(k, c, v) ==
  LET e == IF elem[k] = NoElem THEN KeyElem(k) ELSE spare[c]
  IN  /\ elem' = [elem EXCEPT ![k] = e]
      /\ cells' = [cells EXCEPT ![e] = v]
      /\ spare' = IF elem[k] = NoElem THEN spare ELSE [spare EXCEPT ![c] = elem[k]]
      /\ reused' = (reused \/ \E d \in Cpus : prog[d].pc = "inc_mem" /\ prog[d].ptr = e)

-----------------------------------------------------------------------------
(* __kmalloc                                                               *)

Step(c, p) == prog' = [prog EXCEPT ![c] = p]

Kmalloc(c, size) ==
  /\ prog[c].pc = "idle" /\ SumFunction(calls) < MaxCalls
  /\ LET k == Bucket(size)
     IN  /\ Step(c, [pc |-> IF HasElem(k) THEN "inc_pcpu" ELSE "set_pcpu", key |-> k])
         /\ calls' = [calls EXCEPT ![k] = @ + 1]
  /\ UNCHANGED <<pcpu, user>>
  /\ UNCHANGED memVars

IncPcpu(c) ==
  /\ prog[c].pc = "inc_pcpu"
  /\ pcpu' = [pcpu EXCEPT ![prog[c].key][c] = @ + 1]
  /\ Step(c, [prog[c] EXCEPT !.pc = "get_mem"])
  /\ UNCHANGED <<user, calls>>
  /\ UNCHANGED memVars

\* MEM_ALLOC.get_mut(&max).unwrap(): the panic handler ends the program.
GetMem(c) ==
  /\ prog[c].pc = "get_mem"
  /\ Step(c, IF elem[prog[c].key] = NoElem THEN Resting
             ELSE [pc |-> "inc_mem", ptr |-> elem[prog[c].key],
                   val |-> cells[elem[prog[c].key]]])
  /\ UNCHANGED <<pcpu, user, calls>>
  /\ UNCHANGED memVars

IncMem(c) ==
  /\ prog[c].pc = "inc_mem"
  /\ cells' = [cells EXCEPT ![prog[c].ptr] = prog[c].val + 1]
  /\ Step(c, Resting)
  /\ UNCHANGED <<pcpu, elem, spare, user, calls, reused>>

SetPcpu(c) ==
  /\ prog[c].pc = "set_pcpu"
  /\ pcpu' = PcpuSet(prog[c].key, c, 1)
  /\ Step(c, [prog[c] EXCEPT !.pc = "set_mem"])
  /\ UNCHANGED <<user, calls>>
  /\ UNCHANGED memVars

SetMem(c) ==
  /\ prog[c].pc = "set_mem"
  /\ MemSet(prog[c].key, c, 1)
  /\ Step(c, Resting)
  /\ UNCHANGED <<pcpu, user, calls>>

-----------------------------------------------------------------------------
(* The reader: mem_alloc.iter(), then pcpu_mem_alloc.get(size).unwrap()    *)

ReadMem(k) ==
  /\ user.pc = "idle" /\ elem[k] # NoElem
  /\ user' = [pc |-> "get", key |-> k, left |-> Cpus, total |-> cells[elem[k]], exact |-> 0]
  /\ UNCHANGED <<pcpu, prog, calls>>
  /\ UNCHANGED memVars

ReadPcpu(c) ==
  /\ user.pc = "get" /\ c \in user.left
  /\ user' = IF ~HasElem(user.key) THEN [pc |-> "panic"]
             ELSE [user EXCEPT !.left = @ \ {c}, !.exact = @ + pcpu[user.key][c]]
  /\ UNCHANGED <<pcpu, prog, calls>>
  /\ UNCHANGED memVars

Report ==
  /\ user.pc = "get" /\ user.left = {}
  /\ user' = Resting
  /\ UNCHANGED <<pcpu, prog, calls>>
  /\ UNCHANGED memVars

CountNext ==
  \/ \E c \in Cpus : \/ \E size \in Sizes : Kmalloc(c, size)
                     \/ IncPcpu(c) \/ GetMem(c) \/ IncMem(c) \/ SetPcpu(c) \/ SetMem(c)
                     \/ ReadPcpu(c)
  \/ \E k \in Keys : ReadMem(k)
  \/ Report

CountSpec == CountInit /\ [][CountNext]_countVars

-----------------------------------------------------------------------------
Counted(k) == IF HasElem(k) THEN SumFunction(pcpu[k]) ELSE 0

\* hashmaps.rs: "You should consider PerCpuHashMap if your program needs to
\* store accurate map data": every call is in the per-CPU counts as soon as the
\* probe has passed that line, whatever the CPUs do, and the reader always finds
\* the per-CPU values of a size (the unwrap).  The count of the HashMap loses
\* calls; it is never above the exact one, in the map or in a report, unless a
\* probe writes to an element that has become that of another size meanwhile.
CountsRight ==
  /\ \A k \in Keys :
       /\ Counted(k) + Cardinality({c \in Cpus : /\ prog[c].pc \in {"inc_pcpu", "set_pcpu"}
                                                 /\ prog[c].key = k}) = calls[k]
       /\ elem[k] # NoElem /\ ~reused => cells[elem[k]] <= Counted(k)
  /\ user.pc # "panic"
  /\ user.pc = "get" /\ user.left = {} /\ ~reused => user.total <= user.exact
=============================================================================
