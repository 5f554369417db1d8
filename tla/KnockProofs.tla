---------------------------- MODULE KnockProofs ----------------------------
(***************************************************************************)
(* Proofs about the port knocking tool, for any sources, packets, ports,   *)
(* sequence and size of the map knocks.                                    *)
(*                                                                         *)
(* KnockBase says who has an element of the map: one source or one CPU,    *)
(* and a CPU that has got a pointer points to an element that is in use.   *)
(* It holds on any number of CPUs, and so does Serial: of a source whose   *)
(* packets are handled one after the other the element holds the knocks of *)
(* this round that are done (Kept), up to what the packet under way has    *)
(* still to write (Stored).                                                *)
(*                                                                         *)
(* When the packets of a source are handled at once, elements are replaced *)
(* under pointers to them, and may be given to another source while the    *)
(* pointer is in use.  Mixes says that both sources are in mixed then, so  *)
(* that the element of any other source holds nothing but ports that the   *)
(* source knocked on (Mine).  Pairs says what would have to happen next    *)
(* for two CPUs to mix sources, and that it cannot.                        *)
(***************************************************************************)
EXTENDS Knock, TLAPS

-----------------------------------------------------------------------------
(* Who has which element                                                   *)

Knocks ==
  [ports : [1 .. MAX_SEQ_LEN -> Ports \cup {0}], len : 0 .. Len(TargetSeq), complete : BOOLEAN]

CpuStates ==
  [pc : {"idle", "set", "get", "complete", "len", "ports", "allow", "knock", "port", "newlen"},
   src : Sources \cup {0}, port : Ports \cup {Target, 0}, ptr : Elems \cup {0},
   len : 0 .. Len(TargetSeq) - 1]

KnockTypes ==
  /\ table \in [Sources -> Elems \cup {0}] /\ spare \in [CPUs -> Elems]
  /\ mem \in [Elems -> Knocks] /\ cpu \in [CPUs -> CpuStates]
  /\ knocked \in [Sources -> Seq(Ports)] /\ alone \in [Sources -> BOOLEAN]
  /\ allowed \in [Sources -> Nat] /\ blocked \subseteq Sources /\ entered \subseteq Sources

\* The CPU has a pointer to an element.
Holds(x) == x.pc \notin {"idle", "set", "get"}

Used(e) == (\E s \in Sources : table[s] = e) \/ (\E d \in CPUs : spare[d] = e)

\* What a CPU has got hold of by the place it is at.
Underway(x) ==
  /\ x.pc = "idle" => x = Idle
  /\ x.pc # "idle" => x.src \in Sources /\ x.port \in Ports \cup {Target}
  /\ Holds(x) => x.ptr \in Elems /\ Used(x.ptr)
  /\ x.pc \in {"len", "ports", "allow"} => x.port = Target
  /\ x.pc \in {"knock", "port", "newlen"} => x.port # Target
  /\ x.pc = "get" => table[x.src] # 0 \/ FreeElems = {}

KnockApart ==
  /\ \A s, t \in Sources : table[s] = table[t] => s = t \/ table[s] = 0
  /\ \A s \in Sources, c \in CPUs : table[s] # spare[c]
  /\ \A c, d \in CPUs : spare[c] = spare[d] => c = d

KnockBase == KnockTypes /\ (\A c \in CPUs : Underway(cpu[c])) /\ KnockApart

\* What the assumptions on the constants say.
LEMMA KnockFacts ==
  /\ Len(TargetSeq) \in Nat /\ Len(TargetSeq) >= 1 /\ Len(TargetSeq) <= MAX_SEQ_LEN
  /\ MAX_SEQ_LEN \in Nat /\ TargetSeq \in Seq(Ports)
  /\ 0 \notin Elems /\ Elems \subseteq Nat /\ 0 \notin Sources /\ 0 \notin Ports /\ Target \notin Ports
  BY KnockAssumption DEF Elems

\* A CPU without a packet.
LEMMA IdleIs ==
  /\ Idle \in CpuStates /\ Idle.pc = "idle" /\ Idle.src = 0 /\ Idle.port = 0 /\ Idle.ptr = 0
  /\ ~Holds(Idle)
  BY KnockFacts DEF Idle, CpuStates, Holds

\* A new element has no knock.
LEMMA NewKnockIs ==
  /\ NewKnock \in Knocks /\ NewKnock.len = 0 /\ NewKnock.complete = FALSE
  /\ \A i \in 1 .. MAX_SEQ_LEN : NewKnock.ports[i] = 0
  BY KnockFacts DEF NewKnock, Knocks

\* The types of what a CPU knows.
LEMMA CpuFields ==
  ASSUME NEW x \in CpuStates
  PROVE  /\ x.src \in Sources \cup {0} /\ x.port \in Ports \cup {Target, 0}
         /\ x.ptr \in Elems \cup {0} /\ x.len \in 0 .. Len(TargetSeq) - 1
  BY Zenon DEF CpuStates

\* The types of what an element holds.
LEMMA KnockFields ==
  ASSUME NEW k \in Knocks
  PROVE  /\ k.ports \in [1 .. MAX_SEQ_LEN -> Ports \cup {0}] /\ k.len \in 0 .. Len(TargetSeq)
         /\ k.complete \in BOOLEAN
  BY Zenon DEF Knocks

\* The ways to change what a CPU does.
Became(x, y, q, e, n) ==
  /\ y \in CpuStates /\ y.pc = q /\ y.src = x.src /\ y.port = x.port /\ y.ptr = e /\ y.len = n

\* A CPU that goes on has changed its place and, at most, pointer and length.
LEMMA GotoIs ==
  ASSUME NEW x \in CpuStates,
         NEW q \in {"set", "get", "complete", "len", "ports", "allow", "knock", "port", "newlen"}
  PROVE  /\ Became(x, [x EXCEPT !.pc = q], q, x.ptr, x.len)
         /\ \A e \in Elems : Became(x, [x EXCEPT !.pc = q, !.ptr = e], q, e, x.len)
         /\ \A n \in 0 .. Len(TargetSeq) - 1 :
              Became(x, [x EXCEPT !.pc = q, !.len = n], q, x.ptr, n)
<1>1. Became(x, [x EXCEPT !.pc = q], q, x.ptr, x.len)
  BY Zenon DEF Became, CpuStates
<1>2. ASSUME NEW e \in Elems PROVE Became(x, [x EXCEPT !.pc = q, !.ptr = e], q, e, x.len)
  BY Zenon DEF Became, CpuStates
<1>3. ASSUME NEW n \in 0 .. Len(TargetSeq) - 1
      PROVE  Became(x, [x EXCEPT !.pc = q, !.len = n], q, x.ptr, n)
  BY Zenon DEF Became, CpuStates
<1> QED
  BY <1>1, <1>2, <1>3, Zenon

\* A step of one CPU.
Moved(c, y) ==
  /\ y \in CpuStates /\ cpu' \in [CPUs -> CpuStates] /\ cpu'[c] = y
  /\ \A d \in CPUs \ {c} : cpu'[d] = cpu[d]

\* A step of one CPU leaves the others where they are.
LEMMA MovedIs ==
  ASSUME KnockTypes, NEW c \in CPUs, NEW y \in CpuStates, cpu' = [cpu EXCEPT ![c] = y]
  PROVE  Moved(c, y)
  BY Zenon DEF Moved, KnockTypes

Wrote(e, k) ==
  /\ k \in Knocks /\ mem' \in [Elems -> Knocks] /\ mem'[e] = k
  /\ \A f \in Elems \ {e} : mem'[f] = mem[f]

\* A store changes one element.
LEMMA WroteIs ==
  ASSUME KnockTypes, NEW e \in Elems, NEW k \in Knocks, mem' = [mem EXCEPT ![e] = k]
  PROVE  Wrote(e, k)
  BY Zenon DEF Wrote, KnockTypes

\* A step that leaves the table alone.
LEMMA BaseKept ==
  ASSUME KnockBase, NEW c \in CPUs, NEW y, Moved(c, y), Underway(y), table' = table, spare' = spare,
         mem' \in [Elems -> Knocks],
         knocked' \in [Sources -> Seq(Ports)], alone' \in [Sources -> BOOLEAN],
         allowed' \in [Sources -> Nat], blocked' \subseteq Sources, entered' \subseteq Sources
  PROVE  KnockBase' /\ FreeElems' = FreeElems
<1>0. KnockTypes /\ (\A d \in CPUs : Underway(cpu[d])) /\ KnockApart
  BY Zenon DEF KnockBase
<1>1. FreeElems' = FreeElems
  BY Zenon DEF FreeElems, Elems
<1>2. KnockTypes'
  BY <1>0, Zenon DEF KnockTypes, Moved, Elems, Knocks, CpuStates
<1>3. KnockApart'
  BY <1>0, Zenon DEF KnockApart
<1>4. ASSUME NEW d \in CPUs PROVE Underway(cpu[d])'
  <2>1. PICK z : z = cpu'[d]
    BY Zenon
  <2>2. Underway(z)
    <3>1. CASE d = c
      BY <2>1, <3>1, Zenon DEF Moved
    <3>2. CASE d # c
      BY <1>0, <2>1, <3>2, Zenon DEF Moved
    <3> QED
      BY <3>1, <3>2, Zenon
  <2>3. Underway(cpu[d])' <=> Underway(z)
    BY <1>1, <2>1, Zenon DEF Underway, Used, Holds, Idle, Elems
  <2> QED
    BY <2>2, <2>3, Zenon
<1> QED
  BY <1>1, <1>2, <1>3, <1>4, Zenon DEF KnockBase

\* The packet ends here: it passes or is dropped.
LEMMA EndKeeps ==
  ASSUME KnockBase, NEW c \in CPUs, cpu' = [cpu EXCEPT ![c] = Idle], cpu[c].pc # "idle",
         table' = table, spare' = spare, mem' \in [Elems -> Knocks], knocked' = knocked, alone' = alone,
         allowed' \in [Sources -> Nat],
         blocked' \in {blocked, blocked \cup {cpu[c].src}},
         entered' \in {entered, entered \cup {cpu[c].src}}
  PROVE  Moved(c, Idle) /\ KnockBase' /\ FreeElems' = FreeElems
<1>1. KnockTypes /\ Underway(cpu[c])
  BY Zenon DEF KnockBase
<1>2. Moved(c, Idle)
  BY <1>1, IdleIs, MovedIs, Zenon
<1>3. Underway(Idle)
  BY IdleIs, Zenon DEF Underway
<1>4. blocked' \subseteq Sources /\ entered' \subseteq Sources
  BY <1>1, Zenon DEF KnockTypes, Underway
<1>5. knocked' \in [Sources -> Seq(Ports)] /\ alone' \in [Sources -> BOOLEAN]
  BY <1>1, Zenon DEF KnockTypes
<1> QED
  BY <1>2, <1>3, <1>4, <1>5, BaseKept, Zenon

\* The CPU goes on to the next access.
LEMMA GoKeeps ==
  ASSUME KnockBase, NEW c \in CPUs, NEW y \in CpuStates, cpu' = [cpu EXCEPT ![c] = y], Underway(y),
         table' = table, spare' = spare, mem' \in [Elems -> Knocks],
         UNCHANGED <<knocked, alone, allowed, blocked, entered>>
  PROVE  Moved(c, y) /\ KnockBase' /\ FreeElems' = FreeElems
<1>1. KnockTypes
  BY Zenon DEF KnockBase
<1>2. Moved(c, y)
  BY <1>1, MovedIs, Zenon
<1>3. /\ knocked' \in [Sources -> Seq(Ports)] /\ alone' \in [Sources -> BOOLEAN]
      /\ allowed' \in [Sources -> Nat] /\ blocked' \subseteq Sources /\ entered' \subseteq Sources
  BY <1>1, Zenon DEF KnockTypes
<1> QED
  BY <1>2, <1>3, BaseKept, Zenon

\* The configuration touches no element.
LEMMA ConfigureIs ==
  ASSUME KnockBase, Configure \/ UNCHANGED vars
  PROVE  /\ UNCHANGED <<table, mem, spare, mixed, cpu, knocked, alone, allowed, blocked>>
         /\ (entered' = entered /\ configured' = configured) \/ entered' = {}
         /\ KnockBase' /\ FreeElems' = FreeElems
<1>1. /\ UNCHANGED <<table, mem, spare, mixed, cpu, knocked, alone, allowed, blocked>>
      /\ (entered' = entered /\ configured' = configured) \/ entered' = {}
  BY Zenon DEF Configure, vars
<1>2. FreeElems' = FreeElems
  BY <1>1, Zenon DEF FreeElems, Elems
<1>3. KnockTypes'
  BY <1>1, Zenon DEF KnockBase, KnockTypes, Elems, Knocks, CpuStates
<1>4. ASSUME NEW d \in CPUs PROVE Underway(cpu[d])'
  <2>1. Underway(cpu[d])
    BY Zenon DEF KnockBase
  <2> QED
    BY <1>1, <1>2, <2>1, Zenon DEF Underway, Used, Holds, Idle, Elems
<1>5. KnockApart'
  BY <1>1, Zenon DEF KnockBase, KnockApart
<1> QED
  BY <1>1, <1>2, <1>3, <1>4, <1>5, Zenon DEF KnockBase

\* What the arrival of a packet changes.
LEMMA ArriveIs ==
  ASSUME KnockBase, NEW c \in CPUs, Arrive(c)
  PROVE  /\ KnockBase' /\ FreeElems' = FreeElems
         /\ UNCHANGED <<configured, table, mem, spare, mixed, allowed, blocked>>
         /\ ~configured \/ entered' = entered
         /\ \/ UNCHANGED <<cpu, knocked, alone>>
            \/ \E s \in Sources, p \in Ports \cup {Target}, y \in CpuStates :
                 /\ Moved(c, y) /\ cpu[c] = Idle
                 /\ y.pc = (IF table[s] = 0 THEN "set" ELSE "complete") /\ y.src = s /\ y.port = p
                 /\ y.ptr = table[s]
                 /\ knocked' = IF p = Target THEN knocked ELSE [knocked EXCEPT ![s] = Append(@, p)]
                 /\ alone' = [alone EXCEPT ![s] = @ /\ \A d \in CPUs : cpu[d].src # s]
<1>1. KnockTypes /\ Underway(cpu[c])
  BY Zenon DEF KnockBase
<1>2. /\ UNCHANGED <<configured, table, mem, spare, mixed, allowed, blocked>>
      /\ ~configured \/ entered' = entered
  BY Zenon DEF Arrive
<1>20. entered' \subseteq Sources
  BY <1>1, Zenon DEF Arrive, KnockTypes
<1>3. CASE UNCHANGED <<cpu, knocked, alone>>
  <2>1. UNCHANGED <<cpu, knocked, alone, table, mem, spare, allowed, blocked>>
    BY <1>2, <1>3, Zenon
  <2>2. PICK y : y = cpu[c]
    BY Zenon
  <2>3. y \in CpuStates /\ cpu' = [cpu EXCEPT ![c] = y]
    BY <1>1, <2>1, <2>2, Zenon DEF KnockTypes
  <2>4. /\ mem' \in [Elems -> Knocks] /\ knocked' \in [Sources -> Seq(Ports)]
        /\ alone' \in [Sources -> BOOLEAN] /\ allowed' \in [Sources -> Nat] /\ blocked' \subseteq Sources
    BY <1>1, <2>1, Zenon DEF KnockTypes
  <2>5. Moved(c, y) /\ Underway(y)
    BY <1>1, <2>2, <2>3, MovedIs, Zenon
  <2>6. KnockBase' /\ FreeElems' = FreeElems
    BY <1>20, <2>1, <2>4, <2>5, BaseKept, Zenon
  <2> QED
    BY <1>2, <1>3, <2>6, Zenon
<1>4. CASE ~UNCHANGED <<cpu, knocked, alone>>
  <2>1. PICK s \in Sources, p \in Ports \cup {Target} :
          /\ cpu' = [cpu EXCEPT ![c] = [pc |-> IF table[s] = 0 THEN "set" ELSE "complete",
                                        src |-> s, port |-> p, ptr |-> table[s], len |-> 0]]
          /\ knocked' = IF p = Target THEN knocked ELSE [knocked EXCEPT ![s] = Append(@, p)]
          /\ alone' = [alone EXCEPT ![s] = @ /\ \A d \in CPUs : cpu[d].src # s]
    BY <1>4, Zenon DEF Arrive
  <2>2. PICK y : y = [pc |-> IF table[s] = 0 THEN "set" ELSE "complete",
                      src |-> s, port |-> p, ptr |-> table[s], len |-> 0]
    BY Zenon
  <2>3. table[s] \in Elems \cup {0}
    BY <1>1, Zenon DEF KnockTypes
  <2>4. /\ y \in CpuStates /\ y.src = s /\ y.port = p /\ y.ptr = table[s]
        /\ y.pc = (IF table[s] = 0 THEN "set" ELSE "complete")
    BY <2>2, <2>3, KnockFacts DEF CpuStates
  <2>5. Underway(y)
    BY <2>3, <2>4, Zenon DEF Underway, Holds, Used
  <2>6. Moved(c, y)
    BY <1>1, <2>1, <2>2, <2>4, MovedIs, Zenon
  <2>7. knocked' \in [Sources -> Seq(Ports)]
    BY <1>1, <2>1 DEF KnockTypes
  <2>8. alone' \in [Sources -> BOOLEAN]
    <3>1. alone \in [Sources -> BOOLEAN]
      BY <1>1, Zenon DEF KnockTypes
    <3>2. (alone[s] /\ \A d \in CPUs : cpu[d].src # s) \in BOOLEAN
      BY Zenon
    <3> QED
      BY <2>1, <3>1, <3>2, Zenon
  <2>9. /\ mem' \in [Elems -> Knocks] /\ allowed' \in [Sources -> Nat]
        /\ blocked' \subseteq Sources /\ entered' \subseteq Sources
    BY <1>1, <1>2, <1>20, Zenon DEF KnockTypes
  <2>10. KnockBase' /\ FreeElems' = FreeElems
    BY <1>2, <2>5, <2>6, <2>7, <2>8, <2>9, BaseKept, Zenon
  <2>11. cpu[c] = Idle
    BY <1>1, Zenon DEF Arrive, At, Underway
  <2> QED
    BY <1>2, <2>1, <2>4, <2>6, <2>10, <2>11, Zenon
<1> QED
  BY <1>3, <1>4, Zenon

\* What the lookup changes.
LEMMA GetIs ==
  ASSUME KnockBase, NEW c \in CPUs, GetKnock(c)
  PROVE  /\ KnockBase' /\ FreeElems' = FreeElems /\ cpu[c].pc = "get"
         /\ UNCHANGED <<table, mem, spare, knocked, alone, allowed, blocked>>
         /\ \/ /\ table[cpu[c].src] = 0 /\ FreeElems = {} /\ Moved(c, Idle)
               /\ entered' = IF cpu[c].port = Target THEN entered \cup {cpu[c].src} ELSE entered
            \/ /\ table[cpu[c].src] # 0 /\ entered' = entered
               /\ \E y : Moved(c, y) /\ Became(cpu[c], y, "complete", table[cpu[c].src], cpu[c].len)
<1>1. KnockTypes /\ Underway(cpu[c]) /\ cpu[c] \in CpuStates
  BY Zenon DEF KnockBase, KnockTypes
<1>2. UNCHANGED <<table, mem, spare, knocked, alone, allowed, blocked>> /\ cpu[c].pc = "get"
  BY Zenon DEF GetKnock, At
<1>3. mem' \in [Elems -> Knocks] /\ allowed' \in [Sources -> Nat]
  BY <1>1, <1>2, Zenon DEF KnockTypes
<1>4. CASE table[cpu[c].src] = 0
  <2>1. Pass(c) /\ FreeElems = {}
    BY <1>1, <1>2, <1>4, Zenon DEF GetKnock, Underway
  <2> QED
    BY <1>2, <1>3, <1>4, <2>1, EndKeeps, Zenon DEF Pass
<1>5. CASE table[cpu[c].src] # 0
  <2>1. PICK e : e = table[cpu[c].src]
    BY Zenon
  <2>2. cpu' = [cpu EXCEPT ![c].pc = "complete", ![c].ptr = e] /\ entered' = entered
    BY <1>5, <2>1, Zenon DEF GetKnock
  <2>3. e \in Elems /\ Used(e) /\ cpu[c].src \in Sources /\ cpu[c].port \in Ports \cup {Target}
    BY <1>1, <1>2, <1>5, <2>1, Zenon DEF Underway, KnockTypes, Used
  <2>4. PICK y : y = [cpu[c] EXCEPT !.pc = "complete", !.ptr = e]
    BY Zenon
  <2>5. Became(cpu[c], y, "complete", e, cpu[c].len)
    BY <1>1, <2>3, <2>4, GotoIs, Zenon
  <2>6. y \in CpuStates /\ Underway(y)
    BY <1>1, <2>3, <2>5, Zenon DEF Underway, Holds, Became
  <2>7. cpu' = [cpu EXCEPT ![c] = y]
    BY <2>2, <2>4, Zenon
  <2>8. Moved(c, y) /\ KnockBase' /\ FreeElems' = FreeElems
    BY <1>2, <1>3, <2>2, <2>6, <2>7, GoKeeps, Zenon
  <2> QED
    BY <1>2, <1>5, <2>1, <2>2, <2>5, <2>8, Zenon
<1> QED
  BY <1>4, <1>5, Zenon

\* A step to the next access that keeps the pointer.
LEMMA OnKeeps ==
  ASSUME KnockBase, NEW c \in CPUs, NEW y, Holds(cpu[c]), cpu' = [cpu EXCEPT ![c] = y],
         NEW q \in {"complete", "len", "ports", "allow", "knock", "port", "newlen"}, NEW n,
         Became(cpu[c], y, q, cpu[c].ptr, n),
         q \in {"len", "ports", "allow"} => cpu[c].port = Target,
         q \in {"knock", "port", "newlen"} => cpu[c].port # Target,
         table' = table, spare' = spare, mem' \in [Elems -> Knocks],
         UNCHANGED <<knocked, alone, allowed, blocked, entered>>
  PROVE  Moved(c, y) /\ KnockBase' /\ FreeElems' = FreeElems
<1>1. Underway(cpu[c])
  BY Zenon DEF KnockBase
<1>2. Underway(y) /\ y \in CpuStates
  BY <1>1, Zenon DEF Underway, Holds, Became
<1> QED
  BY <1>2, GoKeeps, Zenon

\* A CPU that holds a pointer has a packet of a source.
LEMMA HolderIs ==
  ASSUME KnockBase, NEW c \in CPUs, Holds(cpu[c])
  PROVE  /\ KnockTypes /\ Underway(cpu[c]) /\ cpu[c] \in CpuStates
         /\ cpu[c].src \in Sources /\ cpu[c].ptr \in Elems /\ mem[cpu[c].ptr] \in Knocks
         /\ cpu[c].port \in Ports \cup {Target} /\ cpu[c].len \in 0 .. Len(TargetSeq) - 1
         /\ cpu[c].pc # "idle"
<1>1. KnockTypes /\ Underway(cpu[c]) /\ cpu[c] \in CpuStates
  BY Zenon DEF KnockBase, KnockTypes
<1>2. cpu[c].src \in Sources /\ cpu[c].ptr \in Elems /\ cpu[c].port \in Ports \cup {Target}
  BY <1>1, Zenon DEF Underway, Holds
<1> QED
  BY <1>1, <1>2, CpuFields, Zenon DEF KnockTypes, Holds

\* What the test of complete changes.
LEMMA CompleteIs ==
  ASSUME KnockBase, NEW c \in CPUs, Complete(c)
  PROVE  /\ KnockBase' /\ FreeElems' = FreeElems /\ cpu[c].pc = "complete"
         /\ UNCHANGED <<table, mem, spare, knocked, alone, allowed, blocked>>
         /\ \/ /\ mem[cpu[c].ptr].complete = TRUE /\ Moved(c, Idle)
               /\ entered' = IF cpu[c].port = Target THEN entered \cup {cpu[c].src} ELSE entered
            \/ /\ mem[cpu[c].ptr].complete = FALSE /\ entered' = entered
               /\ \E y : /\ Moved(c, y)
                         /\ Became(cpu[c], y, IF cpu[c].port = Target THEN "len" ELSE "knock",
                                   cpu[c].ptr, cpu[c].len)
<1>1. Holds(cpu[c]) /\ cpu[c].pc = "complete"
  BY Zenon DEF Complete, At, Holds
<1>2. UNCHANGED <<table, mem, spare, knocked, alone, allowed, blocked>>
  BY Zenon DEF Complete
<1>3. mem' \in [Elems -> Knocks] /\ allowed' \in [Sources -> Nat]
  BY <1>1, <1>2, HolderIs, Zenon DEF KnockTypes
<1>4. mem[cpu[c].ptr].complete \in BOOLEAN /\ cpu[c] \in CpuStates
  BY <1>1, HolderIs, KnockFields, Zenon
<1>5. CASE mem[cpu[c].ptr].complete
  <2>1. Pass(c)
    BY <1>5, Zenon DEF Complete
  <2>2. Moved(c, Idle) /\ KnockBase' /\ FreeElems' = FreeElems
    BY <1>1, <1>2, <1>3, <2>1, EndKeeps, Zenon DEF Pass
  <2> QED
    BY <1>1, <1>2, <1>4, <1>5, <2>1, <2>2, Zenon DEF Pass
<1>6. CASE ~mem[cpu[c].ptr].complete
  <2>1. PICK q : q = IF cpu[c].port = Target THEN "len" ELSE "knock"
    BY Zenon
  <2>2. cpu' = [cpu EXCEPT ![c].pc = q] /\ entered' = entered
    BY <1>6, <2>1, Zenon DEF Complete, Goto
  <2>3. PICK y : y = [cpu[c] EXCEPT !.pc = q]
    BY Zenon
  <2>4. Became(cpu[c], y, q, cpu[c].ptr, cpu[c].len)
    BY <1>4, <2>1, <2>3, GotoIs, Zenon
  <2>5. cpu' = [cpu EXCEPT ![c] = y]
    BY <2>2, <2>3, Zenon
  <2>6. Moved(c, y) /\ KnockBase' /\ FreeElems' = FreeElems
    BY <1>1, <1>2, <1>3, <2>1, <2>2, <2>4, <2>5, OnKeeps, Zenon
  <2> QED
    BY <1>1, <1>2, <1>4, <1>6, <2>1, <2>2, <2>4, <2>6, Zenon
<1> QED
  BY <1>5, <1>6, Zenon

\* A comparison of is_complete: it goes on or the attempt is dropped.
Compared(c, q) ==
  \/ /\ Moved(c, Idle)
     /\ blocked' = IF allowed[cpu[c].src] > 0 THEN blocked \cup {cpu[c].src} ELSE blocked
  \/ blocked' = blocked /\ \E y : Moved(c, y) /\ Became(cpu[c], y, q, cpu[c].ptr, cpu[c].len)

\* A comparison sends the packet on or blocks it.
LEMMA CompareKeeps ==
  ASSUME KnockBase, NEW c \in CPUs, Holds(cpu[c]), cpu[c].port = Target, NEW q \in {"ports", "allow"},
         (Goto(c, q) /\ blocked' = blocked) \/ Block(c),
         UNCHANGED <<table, mem, spare, knocked, alone, allowed, entered>>
  PROVE  KnockBase' /\ FreeElems' = FreeElems /\ Compared(c, q)
<1>1. cpu[c] \in CpuStates /\ cpu[c].pc # "idle" /\ KnockTypes
  BY HolderIs, Zenon
<1>2. mem' \in [Elems -> Knocks] /\ allowed' \in [Sources -> Nat]
  BY <1>1, Zenon DEF KnockTypes
<1>3. CASE Block(c)
  <2>1. Moved(c, Idle) /\ KnockBase' /\ FreeElems' = FreeElems
    BY <1>1, <1>2, <1>3, EndKeeps, Zenon DEF Block
  <2> QED
    BY <1>3, <2>1, Zenon DEF Compared, Block
<1>4. CASE Goto(c, q) /\ blocked' = blocked
  <2>1. PICK y : y = [cpu[c] EXCEPT !.pc = q]
    BY Zenon
  <2>2. Became(cpu[c], y, q, cpu[c].ptr, cpu[c].len)
    BY <1>1, <2>1, GotoIs, Zenon
  <2>3. cpu' = [cpu EXCEPT ![c] = y]
    BY <1>4, <2>1, Zenon DEF Goto
  <2>4. Moved(c, y) /\ KnockBase' /\ FreeElems' = FreeElems
    BY <1>2, <1>4, <2>2, <2>3, OnKeeps, Zenon
  <2> QED
    BY <1>4, <2>2, <2>4, Zenon DEF Compared
<1> QED
  BY <1>3, <1>4, Zenon

\* What the comparison of the length changes.
LEMMA LenIs ==
  ASSUME KnockBase, NEW c \in CPUs, CompareLen(c)
  PROVE  /\ KnockBase' /\ FreeElems' = FreeElems /\ Holds(cpu[c]) /\ cpu[c].pc = "len"
         /\ UNCHANGED <<table, mem, spare, knocked, alone, allowed, entered>>
         /\ Compared(c, "ports")
         /\ cpu'[c] # Idle => mem[cpu[c].ptr].len = Len(TargetSeq)
<1>1. Holds(cpu[c]) /\ cpu[c].pc = "len" /\ UNCHANGED <<table, mem, spare, knocked, alone, allowed, entered>>
  BY Zenon DEF CompareLen, At, Holds
<1>2. cpu[c].port = Target /\ cpu \in [CPUs -> CpuStates]
  BY <1>1, HolderIs, Zenon DEF Underway, KnockTypes
<1>3. KnockBase' /\ FreeElems' = FreeElems /\ Compared(c, "ports")
  BY <1>1, <1>2, CompareKeeps, Zenon DEF CompareLen
<1>4. cpu'[c] # Idle => mem[cpu[c].ptr].len = Len(TargetSeq)
  BY <1>2, Zenon DEF CompareLen, Block
<1> QED
  BY <1>1, <1>3, <1>4, Zenon

\* What the comparison of the ports changes.
LEMMA PortsIs ==
  ASSUME KnockBase, NEW c \in CPUs, ComparePorts(c)
  PROVE  /\ KnockBase' /\ FreeElems' = FreeElems /\ Holds(cpu[c]) /\ cpu[c].pc = "ports"
         /\ UNCHANGED <<table, mem, spare, knocked, alone, allowed, entered>>
         /\ Compared(c, "allow")
         /\ cpu'[c] # Idle => \A i \in 1 .. Len(TargetSeq) : mem[cpu[c].ptr].ports[i] = TargetSeq[i]
<1>1. Holds(cpu[c]) /\ cpu[c].pc = "ports"
      /\ UNCHANGED <<table, mem, spare, knocked, alone, allowed, entered>>
  BY Zenon DEF ComparePorts, At, Holds
<1>2. cpu[c].port = Target /\ cpu \in [CPUs -> CpuStates]
  BY <1>1, HolderIs, Zenon DEF Underway, KnockTypes
<1>3. KnockBase' /\ FreeElems' = FreeElems /\ Compared(c, "allow")
  BY <1>1, <1>2, CompareKeeps, Zenon DEF ComparePorts
<1>4. cpu'[c] # Idle => \A i \in DOMAIN TargetSeq : mem[cpu[c].ptr].ports[i] = TargetSeq[i]
  BY <1>2, Zenon DEF ComparePorts, Block
<1>5. DOMAIN TargetSeq = 1 .. Len(TargetSeq)
  BY KnockFacts
<1> QED
  BY <1>1, <1>3, <1>4, <1>5, Zenon

\* What the step that allows a source changes.
LEMMA AllowIs ==
  ASSUME KnockBase, NEW c \in CPUs, Allow(c)
  PROVE  /\ KnockBase' /\ FreeElems' = FreeElems /\ Holds(cpu[c]) /\ cpu[c].pc = "allow"
         /\ UNCHANGED <<table, spare, knocked, alone, blocked>> /\ Moved(c, Idle)
         /\ entered' = IF cpu[c].port = Target THEN entered \cup {cpu[c].src} ELSE entered
         /\ allowed' = [allowed EXCEPT ![cpu[c].src] = @ + 1]
         /\ \E k : /\ Wrote(cpu[c].ptr, k) /\ k.complete = TRUE /\ k.len = mem[cpu[c].ptr].len
                   /\ k.ports = mem[cpu[c].ptr].ports
<1>1. Holds(cpu[c]) /\ cpu[c].pc = "allow" /\ UNCHANGED <<table, spare, knocked, alone, blocked>>
  BY Zenon DEF Allow, At, Holds
<1>2. /\ cpu[c].ptr \in Elems /\ mem[cpu[c].ptr] \in Knocks /\ KnockTypes /\ cpu[c].src \in Sources
      /\ cpu[c].pc # "idle"
  BY <1>1, HolderIs, Zenon
<1>3. PICK k : k = [mem[cpu[c].ptr] EXCEPT !.complete = TRUE]
  BY Zenon
<1>4. k \in Knocks /\ k.complete = TRUE /\ k.len = mem[cpu[c].ptr].len /\ k.ports = mem[cpu[c].ptr].ports
  BY <1>2, <1>3, Zenon DEF Knocks
<1>5. mem' = [mem EXCEPT ![cpu[c].ptr] = k]
  BY <1>3, Zenon DEF Allow
<1>6. Wrote(cpu[c].ptr, k)
  BY <1>2, <1>4, <1>5, WroteIs, Zenon
<1>7. allowed' = [allowed EXCEPT ![cpu[c].src] = @ + 1] /\ allowed' \in [Sources -> Nat]
  BY <1>2 DEF Allow, KnockTypes
<1>8. Moved(c, Idle) /\ KnockBase' /\ FreeElems' = FreeElems
  BY <1>1, <1>2, <1>6, <1>7, EndKeeps, Zenon DEF Allow, Pass, Wrote
<1> QED
  BY <1>1, <1>4, <1>6, <1>7, <1>8, Zenon DEF Allow, Pass

\* What the read of the length changes.
LEMMA ReadLenIs ==
  ASSUME KnockBase, NEW c \in CPUs, ReadLen(c)
  PROVE  /\ KnockBase' /\ FreeElems' = FreeElems /\ Holds(cpu[c]) /\ cpu[c].pc = "knock"
         /\ UNCHANGED <<table, spare, knocked, alone, allowed, blocked, entered>>
         /\ \E k : /\ Wrote(cpu[c].ptr, k) /\ k.complete = mem[cpu[c].ptr].complete
                   /\ k.ports = mem[cpu[c].ptr].ports
         /\ \E y : /\ Moved(c, y)
                   /\ Became(cpu[c], y, "port", cpu[c].ptr,
                             IF mem[cpu[c].ptr].len = Len(TargetSeq) THEN 0 ELSE mem[cpu[c].ptr].len)
<1>1. Holds(cpu[c]) /\ cpu[c].pc = "knock"
      /\ UNCHANGED <<table, spare, knocked, alone, allowed, blocked, entered>>
  BY Zenon DEF ReadLen, At, Holds, history
<1>2. PICK e : e = cpu[c].ptr
  BY Zenon
<1>3. e \in Elems /\ mem[e] \in Knocks /\ KnockTypes /\ Underway(cpu[c]) /\ cpu[c] \in CpuStates
  BY <1>1, <1>2, HolderIs, Zenon
<1>4. PICK n : n = IF mem[e].len = Len(TargetSeq) THEN 0 ELSE mem[e].len
  BY Zenon
<1>5. mem[e].len \in 0 .. Len(TargetSeq) /\ n \in 0 .. Len(TargetSeq) - 1
  BY <1>3, <1>4, KnockFields, KnockFacts
<1>6. (mem[e].len >= Len(TargetSeq) \/ mem[e].len >= MAX_SEQ_LEN) <=> mem[e].len = Len(TargetSeq)
  BY <1>5, KnockFacts
<1>7. cpu' = [cpu EXCEPT ![c].pc = "port", ![c].len = n]
  BY <1>2, <1>4, <1>6, Zenon DEF ReadLen
<1>8. PICK y : y = [cpu[c] EXCEPT !.pc = "port", !.len = n]
  BY Zenon
<1>9. Became(cpu[c], y, "port", e, n)
  BY <1>2, <1>3, <1>5, <1>8, GotoIs, Zenon
<1>10. cpu' = [cpu EXCEPT ![c] = y]
  BY <1>7, <1>8, Zenon
<1>11. \E k \in Knocks : /\ mem' = [mem EXCEPT ![e] = k] /\ k.complete = mem[e].complete
                         /\ k.ports = mem[e].ports
  <2>1. CASE mem' = mem
    BY <1>3, <2>1, Zenon DEF KnockTypes
  <2>2. CASE mem' # mem
    <3>1. PICK m : m = IF mem[e].len >= Len(TargetSeq) \/ mem[e].len >= MAX_SEQ_LEN THEN 0 ELSE mem[e].len
      BY Zenon
    <3>2. mem' = [mem EXCEPT ![e].len = m]
      BY <1>2, <2>2, <3>1, Zenon DEF ReadLen
    <3>3. PICK k : k = [mem[e] EXCEPT !.len = m]
      BY Zenon
    <3>4. m \in 0 .. Len(TargetSeq)
      BY <1>5, <3>1, KnockFacts
    <3>5. k \in Knocks /\ k.complete = mem[e].complete /\ k.ports = mem[e].ports
      BY <1>3, <3>3, <3>4, Zenon DEF Knocks
    <3> QED
      BY <3>2, <3>3, <3>5, Zenon
  <2> QED
    BY <2>1, <2>2, Zenon
<1>12. PICK k \in Knocks : /\ mem' = [mem EXCEPT ![e] = k] /\ k.complete = mem[e].complete
                           /\ k.ports = mem[e].ports
  BY <1>11, Zenon
<1>13. Wrote(e, k)
  BY <1>3, <1>12, WroteIs, Zenon
<1>14. cpu[c].port # Target
  BY <1>1, <1>3, Zenon DEF Underway
<1>15. Moved(c, y) /\ KnockBase' /\ FreeElems' = FreeElems
  BY <1>1, <1>2, <1>9, <1>10, <1>13, <1>14, OnKeeps, Zenon DEF Wrote
<1> QED
  BY <1>1, <1>2, <1>4, <1>9, <1>12, <1>13, <1>15, Zenon

\* k has port p at place i and the ports of m elsewhere.
PortPut(k, m, i, p) ==
  k.ports[i] = p /\ \A j \in (1 .. MAX_SEQ_LEN) \ {i} : k.ports[j] = m.ports[j]

\* What the store of the port changes.
LEMMA WritePortIs ==
  ASSUME KnockBase, NEW c \in CPUs, WritePort(c)
  PROVE  /\ KnockBase' /\ FreeElems' = FreeElems /\ Holds(cpu[c]) /\ cpu[c].pc = "port"
         /\ UNCHANGED <<table, spare, knocked, alone, allowed, blocked, entered>>
         /\ \E k : /\ Wrote(cpu[c].ptr, k) /\ k.complete = mem[cpu[c].ptr].complete
                   /\ k.len = mem[cpu[c].ptr].len
                   /\ PortPut(k, mem[cpu[c].ptr], cpu[c].len + 1, cpu[c].port)
         /\ \E y : Moved(c, y) /\ Became(cpu[c], y, "newlen", cpu[c].ptr, cpu[c].len)
<1>1. Holds(cpu[c]) /\ cpu[c].pc = "port"
      /\ UNCHANGED <<table, spare, knocked, alone, allowed, blocked, entered>>
  BY Zenon DEF WritePort, At, Holds, history
<1>2. PICK e, n, p : e = cpu[c].ptr /\ n = cpu[c].len /\ p = cpu[c].port
  BY Zenon
<1>3. /\ e \in Elems /\ mem[e] \in Knocks /\ KnockTypes /\ Underway(cpu[c]) /\ cpu[c] \in CpuStates
      /\ n \in 0 .. Len(TargetSeq) - 1 /\ p \in Ports \cup {Target}
  BY <1>1, <1>2, HolderIs, Zenon
<1>4. p # Target
  BY <1>1, <1>2, <1>3, Zenon DEF Underway
<1>5. n + 1 \in 1 .. MAX_SEQ_LEN
  BY <1>3, KnockFacts
<1>6. PICK ps : ps = [mem[e].ports EXCEPT ![n + 1] = p]
  BY Zenon
<1>7. mem[e].ports \in [1 .. MAX_SEQ_LEN -> Ports \cup {0}]
  BY <1>3, KnockFields, Zenon
<1>8. /\ ps \in [1 .. MAX_SEQ_LEN -> Ports \cup {0}] /\ ps[n + 1] = p
      /\ \A i \in (1 .. MAX_SEQ_LEN) \ {n + 1} : ps[i] = mem[e].ports[i]
  BY <1>3, <1>4, <1>5, <1>6, <1>7, Zenon
<1>9. PICK k : k = [mem[e] EXCEPT !.ports = ps]
  BY Zenon
<1>10. k \in Knocks /\ k.complete = mem[e].complete /\ k.ports = ps /\ k.len = mem[e].len
  BY <1>3, <1>8, <1>9, Zenon DEF Knocks
<1>11. mem' = [mem EXCEPT ![e] = k]
  BY <1>2, <1>6, <1>9, Zenon DEF WritePort
<1>12. Wrote(e, k)
  BY <1>3, <1>10, <1>11, WroteIs, Zenon
<1>13. PICK y : y = [cpu[c] EXCEPT !.pc = "newlen"]
  BY Zenon
<1>14. Became(cpu[c], y, "newlen", e, n)
  BY <1>2, <1>3, <1>13, GotoIs, Zenon
<1>15. cpu' = [cpu EXCEPT ![c] = y]
  BY <1>13, Zenon DEF WritePort, Goto
<1>16. Moved(c, y) /\ KnockBase' /\ FreeElems' = FreeElems
  BY <1>1, <1>2, <1>4, <1>12, <1>14, <1>15, OnKeeps, Zenon DEF Wrote
<1>17. PortPut(k, mem[e], n + 1, p)
  BY <1>8, <1>10, Zenon DEF PortPut
<1> QED
  BY <1>1, <1>2, <1>10, <1>12, <1>14, <1>16, <1>17, Zenon

\* What the store of the length changes.
LEMMA WriteLenIs ==
  ASSUME KnockBase, NEW c \in CPUs, WriteLen(c)
  PROVE  /\ KnockBase' /\ FreeElems' = FreeElems /\ Holds(cpu[c]) /\ cpu[c].pc = "newlen"
         /\ UNCHANGED <<table, spare, knocked, alone, allowed, blocked, entered>> /\ Moved(c, Idle)
         /\ \E k : /\ Wrote(cpu[c].ptr, k) /\ k.complete = mem[cpu[c].ptr].complete
                   /\ k.ports = mem[cpu[c].ptr].ports /\ k.len = cpu[c].len + 1
<1>1. /\ Holds(cpu[c]) /\ cpu[c].pc = "newlen"
      /\ UNCHANGED <<table, spare, knocked, alone, allowed, blocked>>
  BY Zenon DEF WriteLen, At, Holds
<1>2. PICK e : e = cpu[c].ptr
  BY Zenon
<1>3. /\ e \in Elems /\ mem[e] \in Knocks /\ KnockTypes /\ Underway(cpu[c])
      /\ cpu[c].len \in 0 .. Len(TargetSeq) - 1 /\ cpu[c].pc # "idle"
  BY <1>1, <1>2, HolderIs, Zenon
<1>4. cpu[c].port # Target
  BY <1>1, <1>3, Zenon DEF Underway
<1>5. PICK k : k = [mem[e] EXCEPT !.len = cpu[c].len + 1]
  BY Zenon
<1>6. cpu[c].len + 1 \in 0 .. Len(TargetSeq)
  BY <1>3, KnockFacts
<1>7. k \in Knocks /\ k.complete = mem[e].complete /\ k.ports = mem[e].ports /\ k.len = cpu[c].len + 1
  BY <1>3, <1>5, <1>6, Zenon DEF Knocks
<1>8. mem' = [mem EXCEPT ![e] = k]
  BY <1>2, <1>5, Zenon DEF WriteLen
<1>9. Wrote(e, k)
  BY <1>3, <1>7, <1>8, WroteIs, Zenon
<1>10. entered' = entered /\ cpu' = [cpu EXCEPT ![c] = Idle]
  BY <1>4, Zenon DEF WriteLen, Pass
<1>11. mem' \in [Elems -> Knocks] /\ allowed' \in [Sources -> Nat]
  BY <1>1, <1>3, <1>9, Zenon DEF Wrote, KnockTypes
<1>12. Moved(c, Idle) /\ KnockBase' /\ FreeElems' = FreeElems
  BY <1>1, <1>3, <1>10, <1>11, EndKeeps, Zenon
<1> QED
  BY <1>1, <1>2, <1>7, <1>9, <1>10, <1>12, Zenon

\* set() with another element: the one of the CPU takes the place of the old.
Replaced(c, s) ==
  /\ table[s] # 0 /\ Wrote(spare[c], NewKnock)
  /\ table'[s] = spare[c] /\ (\A t \in Sources \ {s} : table'[t] = table[t])
  /\ spare'[c] = table[s] /\ (\A d \in CPUs \ {c} : spare'[d] = spare[d])

\* set() with an element that nobody has.
Inserted(s) ==
  /\ table[s] = 0 /\ spare' = spare
  /\ \E e \in FreeElems : /\ Wrote(e, NewKnock) /\ table'[s] = e
                          /\ \A t \in Sources \ {s} : table'[t] = table[t]

\* CHOOSE takes a free element if there is one.
LEMMA FreeElem ==
  ASSUME FreeElems # {}
  PROVE  (CHOOSE e \in FreeElems : TRUE) \in FreeElems
  BY Zenon

\* What the insertion of a source changes.
LEMMA SetChanges ==
  ASSUME KnockBase, NEW c \in CPUs, SetKnock(c)
  PROVE  /\ cpu[c].pc = "set" /\ UNCHANGED <<knocked, alone, allowed, blocked, entered>>
         /\ cpu[c].src \in Sources
         /\ table' \in [Sources -> Elems \cup {0}] /\ spare' \in [CPUs -> Elems]
         /\ mem' \in [Elems -> Knocks]
         /\ \E y : Moved(c, y) /\ Became(cpu[c], y, "get", cpu[c].ptr, cpu[c].len)
         /\ \/ Replaced(c, cpu[c].src) \/ Inserted(cpu[c].src)
            \/ table[cpu[c].src] = 0 /\ FreeElems = {} /\ UNCHANGED <<mem, table, spare>>
<1>1. /\ KnockTypes /\ Underway(cpu[c]) /\ cpu[c] \in CpuStates
      /\ table \in [Sources -> Elems \cup {0}] /\ spare \in [CPUs -> Elems] /\ mem \in [Elems -> Knocks]
  BY Zenon DEF KnockBase, KnockTypes
<1>2. cpu[c].pc = "set" /\ UNCHANGED <<knocked, alone, allowed, blocked, entered>>
  BY Zenon DEF SetKnock, At, history
<1>3. cpu[c].src \in Sources
  BY <1>1, <1>2, Zenon DEF Underway
<1>4. PICK s : s = cpu[c].src
  BY Zenon
<1>5. \E y : Moved(c, y) /\ Became(cpu[c], y, "get", cpu[c].ptr, cpu[c].len)
  <2>1. PICK y : y = [cpu[c] EXCEPT !.pc = "get"]
    BY Zenon
  <2>2. Became(cpu[c], y, "get", cpu[c].ptr, cpu[c].len)
    BY <1>1, <2>1, GotoIs, Zenon
  <2>3. cpu' = [cpu EXCEPT ![c] = y] /\ y \in CpuStates
    BY <2>1, <2>2, Zenon DEF SetKnock, Goto, Became
  <2> QED
    BY <1>1, <2>2, <2>3, MovedIs, Zenon
<1>6. CASE table[s] # 0
  <2>1. /\ mem' = [mem EXCEPT ![spare[c]] = NewKnock]
        /\ table' = [table EXCEPT ![s] = spare[c]]
        /\ spare' = [spare EXCEPT ![c] = table[s]]
    BY <1>4, <1>6, Zenon DEF SetKnock
  <2>2. Wrote(spare[c], NewKnock)
    BY <1>1, <2>1, WroteIs, NewKnockIs, Zenon
  <2>3. /\ table'[s] = spare[c] /\ (\A t \in Sources \ {s} : table'[t] = table[t])
        /\ spare'[c] = table[s] /\ (\A d \in CPUs \ {c} : spare'[d] = spare[d])
        /\ table' \in [Sources -> Elems \cup {0}] /\ spare' \in [CPUs -> Elems]
    BY <1>1, <1>3, <1>4, <1>6, <2>1, Zenon
  <2>4. Replaced(c, s)
    BY <1>6, <2>2, <2>3, Zenon DEF Replaced
  <2> QED
    BY <1>2, <1>3, <1>4, <1>5, <2>2, <2>3, <2>4, Zenon DEF Wrote
<1>7. CASE table[s] = 0 /\ FreeElems # {}
  <2>1. PICK e : e = CHOOSE x \in FreeElems : TRUE
    BY Zenon
  <2>2. mem' = [mem EXCEPT ![e] = NewKnock] /\ table' = [table EXCEPT ![s] = e] /\ spare' = spare
    BY <1>4, <1>7, <2>1, Zenon DEF SetKnock
  <2>3. e \in FreeElems /\ e \in Elems
    BY <1>7, <2>1, FreeElem, Zenon DEF FreeElems
  <2>4. Wrote(e, NewKnock)
    BY <1>1, <2>2, <2>3, WroteIs, NewKnockIs, Zenon
  <2>5. /\ table'[s] = e /\ (\A t \in Sources \ {s} : table'[t] = table[t])
        /\ table' \in [Sources -> Elems \cup {0}]
    BY <1>1, <1>3, <1>4, <2>2, <2>3, Zenon
  <2>6. Inserted(s)
    BY <1>7, <2>2, <2>3, <2>4, <2>5, Zenon DEF Inserted
  <2> QED
    BY <1>1, <1>2, <1>3, <1>4, <1>5, <2>2, <2>4, <2>5, <2>6, Zenon DEF Wrote
<1>8. CASE table[s] = 0 /\ FreeElems = {}
  <2>1. UNCHANGED <<mem, table, spare>>
    BY <1>4, <1>8, Zenon DEF SetKnock
  <2> QED
    BY <1>1, <1>2, <1>3, <1>4, <1>5, <1>8, <2>1, Zenon
<1> QED
  BY <1>6, <1>7, <1>8, Zenon

\* A free element is neither in the table nor a spare one.
LEMMA FreeIs ==
  \A e : e \in FreeElems <=> e \in Elems /\ ~Used(e)
  BY Zenon DEF FreeElems, Used

\* An insertion takes free elements into use and frees none.
LEMMA SetUses ==
  ASSUME KnockBase, NEW c \in CPUs, SetKnock(c)
  PROVE  /\ \A e : Used(e) => Used(e)' \/ e = 0
         /\ FreeElems' \subseteq FreeElems
         /\ table'[cpu[c].src] # 0 \/ FreeElems' = {}
         /\ KnockApart'
<1>1. KnockTypes /\ KnockApart
  BY Zenon DEF KnockBase
<1>2. PICK s : s = cpu[c].src
  BY Zenon
<1>3. /\ s \in Sources /\ table' \in [Sources -> Elems \cup {0}] /\ spare' \in [CPUs -> Elems]
      /\ \/ Replaced(c, s) \/ Inserted(s)
         \/ table[s] = 0 /\ FreeElems = {} /\ UNCHANGED <<mem, table, spare>>
  BY <1>2, SetChanges, Zenon
<1>4. CASE Replaced(c, s)
  <2>1. ASSUME NEW e, Used(e) PROVE Used(e)'
    BY <1>3, <1>4, <2>1, Zenon DEF Replaced, Used
  <2>2. table'[s] # 0
    BY <1>1, <1>4, KnockFacts DEF Replaced, KnockTypes
  <2>3. KnockApart'
    BY <1>1, <1>3, <1>4 DEF Replaced, KnockApart
  <2>4. FreeElems' \subseteq FreeElems
    BY <2>1, Zenon DEF FreeElems, Used, Elems
  <2> QED
    BY <1>2, <2>1, <2>2, <2>3, <2>4, Zenon
<1>5. CASE Inserted(s)
  <2>1. PICK e \in FreeElems : table'[s] = e /\ \A t \in Sources \ {s} : table'[t] = table[t]
    BY <1>5, Zenon DEF Inserted
  <2>2. e \in Elems /\ ~Used(e) /\ table[s] = 0 /\ spare' = spare
    BY <1>5, <2>1, Zenon DEF FreeElems, Used, Inserted
  <2>3. ASSUME NEW f, Used(f), f # 0 PROVE Used(f)'
    BY <1>3, <2>1, <2>2, <2>3, Zenon DEF Used
  <2>4. KnockApart'
    BY <1>1, <1>3, <2>1, <2>2 DEF KnockApart, Used
  <2>5. FreeElems' \subseteq FreeElems
    BY <2>3, KnockFacts, Zenon DEF FreeElems, Used, Elems
  <2>6. table'[s] # 0
    BY <2>1, <2>2, KnockFacts, Zenon
  <2> QED
    BY <1>2, <2>3, <2>4, <2>5, <2>6, Zenon
<1>6. CASE table[s] = 0 /\ FreeElems = {} /\ UNCHANGED <<mem, table, spare>>
  <2>1. FreeElems' = FreeElems
    BY <1>6, Zenon DEF FreeElems, Elems
  <2> QED
    BY <1>1, <1>6, <2>1, Zenon DEF Used, KnockApart
<1> QED
  BY <1>3, <1>4, <1>5, <1>6, Zenon

\* An insertion keeps elements apart.
LEMMA SetIs ==
  ASSUME KnockBase, NEW c \in CPUs, SetKnock(c)
  PROVE  KnockBase'
<1>1. KnockTypes /\ \A d \in CPUs : Underway(cpu[d])
  BY Zenon DEF KnockBase
<1>2. PICK y : Moved(c, y) /\ Became(cpu[c], y, "get", cpu[c].ptr, cpu[c].len)
  BY SetChanges, Zenon
<1>3. KnockTypes'
  <2>1. /\ table' \in [Sources -> Elems \cup {0}] /\ spare' \in [CPUs -> Elems]
        /\ mem' \in [Elems -> Knocks] /\ cpu' \in [CPUs -> CpuStates]
        /\ UNCHANGED <<knocked, alone, allowed, blocked, entered>>
    BY <1>2, SetChanges, Zenon DEF Moved
  <2> QED
    BY <1>1, <2>1, Zenon DEF KnockTypes, Elems, Knocks, CpuStates
<1>4. ASSUME NEW d \in CPUs PROVE Underway(cpu[d])'
  <2>1. CASE d = c
    <3>1. PICK z : z = cpu'[d]
      BY Zenon
    <3>2. z.pc = "get" /\ z.src = cpu[c].src /\ z.port = cpu[c].port
      BY <1>2, <2>1, <3>1, Zenon DEF Moved, Became
    <3>3. z.src \in Sources /\ z.port \in Ports \cup {Target}
      BY <1>1, <3>2, SetChanges, Zenon DEF Underway
    <3>4. table'[z.src] # 0 \/ FreeElems' = {}
      BY <3>2, SetUses, Zenon
    <3> QED
      BY <3>1, <3>2, <3>3, <3>4, Zenon DEF Underway, Holds
  <2>2. CASE d # c
    <3>1. PICK z : z = cpu[d]
      BY Zenon
    <3>2. cpu'[d] = z /\ Underway(z)
      BY <1>1, <1>2, <2>2, <3>1, Zenon DEF Moved
    <3>3. Holds(z) => z.ptr \in Elems /\ Used(z.ptr)'
      BY <3>2, SetUses, KnockFacts, Zenon DEF Underway
    <3>4. z.pc = "get" => table'[z.src] # 0 \/ FreeElems' = {}
      <4>1. SUFFICES ASSUME z.pc = "get", table'[z.src] = 0 PROVE FreeElems' = {}
        BY Zenon
      <4>2. z.src \in Sources
        BY <3>2, <4>1, Zenon DEF Underway
      <4>3. CASE z.src = cpu[c].src
        BY <4>1, <4>3, SetUses, Zenon
      <4>4. CASE z.src # cpu[c].src
        <5>1. table[z.src] = 0
          BY <4>1, <4>2, <4>4, SetChanges, Zenon DEF Replaced, Inserted
        <5> QED
          BY <3>2, <4>1, <5>1, SetUses, Zenon DEF Underway
      <4> QED
        BY <4>3, <4>4, Zenon
    <3> QED
      BY <3>2, <3>3, <3>4, Zenon DEF Underway, Holds, Used, Elems, Idle
  <2> QED
    BY <2>1, <2>2, Zenon
<1>5. KnockApart'
  BY SetUses, Zenon
<1> QED
  BY <1>3, <1>4, <1>5, Zenon DEF KnockBase

\* An empty map satisfies the first invariant.
LEMMA InitBase == Init => KnockBase
<1> SUFFICES ASSUME Init PROVE KnockBase
  BY Zenon
<1>1. CPUs \subseteq Nat \ {0} /\ \A c \in CPUs : MaxEntries + c \in Elems
  BY KnockAssumption DEF Elems
<1>2. KnockTypes
  <2>1. mem \in [Elems -> Knocks] /\ cpu \in [CPUs -> CpuStates]
    BY NewKnockIs, IdleIs, Zenon DEF Init
  <2>2. spare \in [CPUs -> Elems] /\ table \in [Sources -> Elems \cup {0}]
    BY <1>1, Zenon DEF Init
  <2>3. knocked \in [Sources -> Seq(Ports)] /\ allowed \in [Sources -> Nat]
    BY DEF Init
  <2>4. alone \in [Sources -> BOOLEAN] /\ blocked = {} /\ entered = {}
    BY Zenon DEF Init
  <2> QED
    BY <2>1, <2>2, <2>3, <2>4, Zenon DEF KnockTypes
<1>3. ASSUME NEW c \in CPUs PROVE Underway(cpu[c])
  BY IdleIs, Zenon DEF Init, Underway
<1>4. KnockApart
  <2>1. \A s \in Sources : table[s] = 0
    BY Zenon DEF Init
  <2>2. \A c \in CPUs : spare[c] = MaxEntries + c
    BY Zenon DEF Init
  <2> QED
    BY <1>1, <2>1, <2>2, KnockAssumption DEF KnockApart
<1> QED
  BY <1>2, <1>3, <1>4, Zenon DEF KnockBase

-----------------------------------------------------------------------------
(* A source whose packets are handled one after the other                  *)

RoundLen(n) == IF n = 0 THEN 0 ELSE ((n - 1) % Len(TargetSeq)) + 1

\* The length of a round is at most that of the sequence.
LEMMA RoundSize ==
  ASSUME NEW n \in Nat
  PROVE  /\ RoundLen(n) \in 0 .. Len(TargetSeq) /\ RoundLen(n) <= n
         /\ n > 0 => RoundLen(n) > 0
<1>1. PICK L : L = Len(TargetSeq)
  BY Zenon
<1>2. L \in Nat \ {0}
  BY <1>1, KnockFacts
<1>3. CASE n = 0
  BY <1>1, <1>2, <1>3 DEF RoundLen
<1>4. CASE n # 0
  <2>1. PICK m \in Nat : m = n - 1
    BY <1>4
  <2>2. m % L \in 0 .. L - 1 /\ m = L * (m \div L) + (m % L) /\ m \div L \in Int
    BY <1>2, <2>1
  <2>3. m \div L >= 0
    BY <1>2, <2>1, <2>2
  <2>4. L * (m \div L) >= 0
    BY <1>2, <2>2, <2>3
  <2>5. m % L <= m
    BY <1>2, <2>1, <2>2, <2>4
  <2> QED
    BY <1>1, <1>2, <1>4, <2>1, <2>2, <2>5 DEF RoundLen
<1> QED
  BY <1>3, <1>4, Zenon

\* The next knock makes the round longer or begins a new one.
LEMMA RoundNext ==
  ASSUME NEW n \in Nat
  PROVE  RoundLen(n + 1) = IF RoundLen(n) = Len(TargetSeq) THEN 1 ELSE RoundLen(n) + 1
<1>1. PICK L : L = Len(TargetSeq)
  BY Zenon
<1>2. L \in Nat \ {0}
  BY <1>1, KnockFacts
<1>3. CASE n = 0
  <2>1. 0 % L = 0
    BY <1>2
  <2> QED
    BY <1>1, <1>2, <1>3, <2>1 DEF RoundLen
<1>4. CASE n # 0
  <2>1. PICK m \in Nat : m = n - 1
    BY <1>4
  <2>2. m % L \in 0 .. L - 1 /\ m = L * (m \div L) + (m % L) /\ m \div L \in Int
    BY <1>2, <2>1
  <2>3. n % L \in 0 .. L - 1 /\ n = L * (n \div L) + (n % L) /\ n \div L \in Int
    BY <1>2
  <2>4. PICK q \in Int, r \in Int : q = m \div L /\ r = m % L
    BY <2>2
  <2>5. PICK u \in Int, v \in Int : u = n \div L /\ v = n % L
    BY <2>3
  <2>6. L * u + v = L * q + r + 1 /\ r \in 0 .. L - 1 /\ v \in 0 .. L - 1
    BY <2>1, <2>2, <2>3, <2>4, <2>5
  <2>7. L * (u - q) = r + 1 - v
    BY <1>2, <2>4, <2>5, <2>6
  <2>8. u - q >= 0
    <3>1. SUFFICES ASSUME u - q <= -1 PROVE FALSE
      BY <2>4, <2>5
    <3>2. L * (u - q) <= L * (-1)
      BY <1>2, <2>4, <2>5, <3>1
    <3> QED
      BY <1>2, <2>4, <2>5, <2>6, <2>7, <3>2
  <2>9. u - q <= 1
    <3>1. SUFFICES ASSUME u - q >= 2 PROVE FALSE
      BY <2>4, <2>5
    <3>2. L * (u - q) >= L * 2
      BY <1>2, <2>4, <2>5, <3>1
    <3> QED
      BY <1>2, <2>4, <2>5, <2>6, <2>7, <3>2
  <2>10. v = IF r = L - 1 THEN 0 ELSE r + 1
    <3>1. CASE u - q = 0
      BY <1>2, <2>4, <2>5, <2>6, <2>7, <3>1
    <3>2. CASE u - q = 1
      BY <1>2, <2>4, <2>5, <2>6, <2>7, <3>2
    <3> QED
      BY <2>4, <2>5, <2>8, <2>9, <3>1, <3>2
  <2>11. RoundLen(n) = r + 1 /\ RoundLen(n + 1) = v + 1
    BY <1>1, <1>4, <2>1, <2>4, <2>5 DEF RoundLen
  <2> QED
    BY <1>1, <1>2, <2>10, <2>11
<1> QED
  BY <1>3, <1>4, Zenon

Matches(k) == k.len = Len(TargetSeq) /\ \A i \in 1 .. Len(TargetSeq) : k.ports[i] = TargetSeq[i]

\* The first l ports of k are the knocks after the first n.
Follows(k, ks, n, l) == \A i \in 1 .. l : k.ports[i] = ks[n + i]

\* The knocks of ks that are stored once the packet x is handled up to here.
DoneOf(x, ks) == Len(ks) - (IF x.port \in Ports THEN 1 ELSE 0)

\* An element of a source that is not let in: n knocks are done, r of them in this round.
Stored(x, k, ks, n, r) ==
  /\ x.pc \notin {"port", "newlen"} => k.len = r
  /\ x.pc # "newlen" => Follows(k, ks, n - r, r)
  /\ x.pc = "ports" => k.len = Len(TargetSeq)
  /\ x.pc = "allow" => Matches(k)
  /\ x.pc \in {"port", "newlen"} => x.len = IF r = Len(TargetSeq) THEN 0 ELSE r
  /\ x.pc = "newlen" => Follows(k, ks, n - r, x.len) /\ k.ports[x.len + 1] = x.port

\* What the element k of a source says of its knocks ks and of the notifications a.
Kept(x, k, ks, a) ==
  /\ k.complete = TRUE => a = 1 /\ Matches(k) /\ x.pc \in {"idle", "complete"}
  /\ k.complete = FALSE => a = 0 /\ Stored(x, k, ks, DoneOf(x, ks), RoundLen(DoneOf(x, ks)))

\* The packet of the source that is being handled, Idle if there is none.
Handled(s, x) ==
  \/ x = Idle /\ \A c \in CPUs : cpu[c].src # s
  \/ \E c \in CPUs : x = cpu[c] /\ x.src = s /\ \A d \in CPUs \ {c} : cpu[d].src # s

Promise(s, x) ==
  /\ x.port \in Ports => knocked[s] # <<>> /\ knocked[s][Len(knocked[s])] = x.port
  /\ x.pc = "set" => table[s] = 0
  /\ table[s] = 0 => allowed[s] = 0 /\ (FreeElems = {} \/ DoneOf(x, knocked[s]) = 0)
  /\ table[s] # 0 => Kept(x, mem[table[s]], knocked[s], allowed[s])

Serial(s) ==
  /\ s \notin blocked
  /\ \A c \in CPUs : Holds(cpu[c]) => (cpu[c].src = s <=> cpu[c].ptr = table[s])
  /\ \E x : Handled(s, x) /\ Promise(s, x)

SerialInv == KnockBase /\ \A s \in Sources : alone[s] = TRUE => Serial(s)

\* The packet x is the one of the CPU that handles the source.
LEMMA HandledIs ==
  ASSUME KnockTypes, NEW s \in Sources, NEW x, Handled(s, x), NEW c \in CPUs, cpu[c].src = s
  PROVE  x = cpu[c] /\ \A d \in CPUs \ {c} : cpu[d].src # s
  BY Zenon DEF Handled

\* No other CPU has a packet of the source.
LEMMA HandledNext ==
  ASSUME NEW s \in Sources, NEW c \in CPUs, NEW y, Moved(c, y), y = Idle \/ y.src = s,
         \A d \in CPUs \ {c} : cpu[d].src # s
  PROVE  Handled(s, y)'
  BY KnockFacts, IdleIs, Zenon DEF Moved, Handled, Idle

\* The same of the next state.
LEMMA KeptNext ==
  ASSUME NEW s, NEW y, NEW k, NEW ks, NEW a, Kept(y, k, ks, a),
         mem'[table'[s]] = k, knocked'[s] = ks, allowed'[s] = a
  PROVE  Kept(y, mem[table[s]], knocked[s], allowed[s])'
<1>1. PICK n, r : n = DoneOf(y, ks) /\ r = RoundLen(n)
  BY Zenon
<1>2. DoneOf(y, knocked[s])' = n
  BY <1>1, Zenon DEF DoneOf
<1>3. RoundLen(DoneOf(y, knocked[s]))' = r
  BY <1>1, <1>2, Zenon DEF RoundLen
<1>4. Matches(k) => Matches(mem[table[s]])'
  BY Zenon DEF Matches
<1>5. ASSUME NEW l, NEW m, Follows(k, ks, m, l) PROVE Follows(mem[table[s]], knocked[s], m, l)'
  BY <1>5, Zenon DEF Follows
<1>6. k.complete = TRUE => a = 1 /\ Matches(k) /\ y.pc \in {"idle", "complete"}
  BY Zenon DEF Kept
<1>7. k.complete = FALSE => a = 0 /\ Stored(y, k, ks, n, r)
  BY <1>1, Zenon DEF Kept
<1>8. ASSUME Stored(y, k, ks, n, r) PROVE Stored(y, mem[table[s]], knocked[s], n, r)'
  BY <1>4, <1>5, <1>8, Zenon DEF Stored
<1> QED
  BY <1>2, <1>3, <1>4, <1>6, <1>7, <1>8, Zenon DEF Kept

\* The promise to a source, from what its element and its packet have become.
LEMMA PromiseNext ==
  ASSUME NEW s, NEW y, NEW e, NEW k, NEW ks, NEW a,
         table'[s] = e, e # 0 => mem'[e] = k, knocked'[s] = ks, allowed'[s] = a,
         y.port \in Ports => ks # <<>> /\ ks[Len(ks)] = y.port, y.pc = "set" => e = 0,
         e = 0 => a = 0 /\ (FreeElems' = {} \/ DoneOf(y, ks) = 0), e # 0 => Kept(y, k, ks, a)
  PROVE  Promise(s, y)'
<1>1. e # 0 => Kept(y, mem[table[s]], knocked[s], allowed[s])'
  BY KeptNext, Zenon
<1>2. DoneOf(y, knocked[s])' = DoneOf(y, ks)
  BY Zenon DEF DoneOf
<1> QED
  BY <1>1, <1>2, Zenon DEF Promise

\* The maps have the same of the source.
LEMMA PromiseSame ==
  ASSUME NEW s, NEW x, Promise(s, x), table'[s] = table[s],
         table[s] # 0 => mem'[table[s]] = mem[table[s]], knocked'[s] = knocked[s],
         allowed'[s] = allowed[s], FreeElems' \subseteq FreeElems
  PROVE  Promise(s, x)'
<1>1. PICK e, k, ks, a : e = table[s] /\ k = mem[e] /\ ks = knocked[s] /\ a = allowed[s]
  BY Zenon
<1>2. /\ x.port \in Ports => ks # <<>> /\ ks[Len(ks)] = x.port
      /\ x.pc = "set" => e = 0
      /\ e = 0 => a = 0 /\ (FreeElems = {} \/ DoneOf(x, ks) = 0)
      /\ e # 0 => Kept(x, k, ks, a)
  BY <1>1, Zenon DEF Promise
<1>3. FreeElems = {} => FreeElems' = {}
  BY Zenon
<1>4. table'[s] = e /\ (e # 0 => mem'[e] = k) /\ knocked'[s] = ks /\ allowed'[s] = a
  BY <1>1, Zenon
<1> QED
  BY <1>2, <1>3, <1>4, PromiseNext, Zenon

\* A step that does not touch a source keeps its promise.
LEMMA SerialSame ==
  ASSUME NEW s \in Sources, Serial(s), FreeElems' = FreeElems,
         UNCHANGED <<table, mem, cpu, knocked, allowed, blocked>>
  PROVE  Serial(s)'
<1>1. PICK x : Handled(s, x) /\ Promise(s, x)
  BY Zenon DEF Serial
<1>2. Handled(s, x)'
  BY <1>1, Zenon DEF Handled, Idle
<1>3. Promise(s, x)'
  BY <1>1, PromiseSame, Zenon
<1> QED
  BY <1>2, <1>3, Zenon DEF Serial, Holds

\* A step of a CPU that handles a packet of another source, or of none.
LEMMA SerialFrame ==
  ASSUME KnockBase, KnockBase', NEW s \in Sources, Serial(s), NEW c \in CPUs, NEW y, Moved(c, y),
         cpu[c].src # s, y.src # s, Holds(y) => y.ptr # table[s],
         table'[s] = table[s], table[s] # 0 => mem'[table[s]] = mem[table[s]],
         knocked'[s] = knocked[s], allowed'[s] = allowed[s], s \notin blocked',
         FreeElems' \subseteq FreeElems
  PROVE  Serial(s)'
<1>1. PICK x : Handled(s, x) /\ Promise(s, x)
  BY Zenon DEF Serial
<1>2. Handled(s, x)'
  BY <1>1 DEF Handled, Moved, Idle
<1>3. Promise(s, x)'
  BY <1>1, PromiseSame, Zenon
<1>4. ASSUME NEW d \in CPUs, Holds(cpu[d])' PROVE cpu'[d].src = s <=> cpu'[d].ptr = table'[s]
  <2>1. CASE d = c
    BY <1>4, <2>1, Zenon DEF Moved, Holds
  <2>2. CASE d # c
    BY <1>4, <2>2, Zenon DEF Moved, Holds, Serial
  <2> QED
    BY <2>1, <2>2, Zenon
<1> QED
  BY <1>2, <1>3, <1>4, Zenon DEF Serial

\* A step of the CPU that handles the packet of the source.
LEMMA SerialStep ==
  ASSUME KnockBase, KnockBase', NEW s \in Sources, Serial(s), NEW c \in CPUs, NEW y, Moved(c, y),
         cpu[c].src = s \/ (\A d \in CPUs : cpu[d].src # s),
         y = Idle \/ y.src = s, Holds(y) => y.ptr = table'[s],
         table'[s] # table[s] => table[s] = 0 /\ table'[s] \in FreeElems,
         s \notin blocked', Promise(s, y)'
  PROVE  Serial(s)'
<1>0. KnockTypes /\ \A d \in CPUs : Underway(cpu[d])
  BY Zenon DEF KnockBase
<1>1. PICK x : Handled(s, x) /\ Promise(s, x)
  BY Zenon DEF Serial
<1>2. \A d \in CPUs \ {c} : cpu[d].src # s
  BY <1>0, <1>1, HandledIs, Zenon
<1>3. Handled(s, y)'
  BY <1>2, HandledNext, Zenon
<1>4. ASSUME NEW d \in CPUs, Holds(cpu[d])' PROVE cpu'[d].src = s <=> cpu'[d].ptr = table'[s]
  <2>1. CASE d = c
    BY <1>4, <2>1, IdleIs, Zenon DEF Moved, Holds
  <2>2. CASE d # c
    <3>1. cpu'[d] = cpu[d] /\ cpu[d].src # s /\ Holds(cpu[d])
      BY <1>2, <1>4, <2>2, Zenon DEF Moved, Holds
    <3>2. cpu[d].ptr # table[s] /\ cpu[d].ptr \in Elems /\ Used(cpu[d].ptr)
      BY <1>0, <3>1, Zenon DEF Serial, Underway
    <3> QED
      BY <3>1, <3>2, FreeIs, Zenon
  <2> QED
    BY <2>1, <2>2, Zenon
<1> QED
  BY <1>3, <1>4, Zenon DEF Serial

\* The knocks that are written, one less than those made while one is under way.
LEMMA DoneIs ==
  ASSUME NEW x, NEW ks \in Seq(Ports), x.port \in Ports => ks # <<>>
  PROVE  /\ DoneOf(x, ks) \in Nat
         /\ x.port \in Ports => Len(ks) = DoneOf(x, ks) + 1
         /\ x.port \notin Ports => Len(ks) = DoneOf(x, ks)
<1>1. Len(ks) \in Nat /\ (ks # <<>> => Len(ks) > 0)
  OBVIOUS
<1> QED
  BY <1>1 DEF DoneOf

\* The packet goes on, the element stays as it is.
LEMMA KeptMoves ==
  ASSUME NEW x, NEW y, NEW k \in Knocks, NEW ks, NEW a, Kept(x, k, ks, a),
         x.pc \notin {"port", "newlen"}, y.pc \notin {"port", "newlen"}, y.port = x.port,
         k.complete = TRUE => y.pc \in {"idle", "complete"},
         k.complete = FALSE => /\ y.pc = "ports" => k.len = Len(TargetSeq)
                               /\ y.pc = "allow" => Matches(k)
  PROVE  Kept(y, k, ks, a)
<1>1. DoneOf(y, ks) = DoneOf(x, ks)
  BY Zenon DEF DoneOf
<1> QED
  BY <1>1, Zenon DEF Kept, Stored

\* The packet ends without a change.
LEMMA KeptEnds ==
  ASSUME NEW x, NEW k \in Knocks, NEW ks, NEW a, Kept(x, k, ks, a),
         x.pc \notin {"port", "newlen"}, k.complete = TRUE \/ x.port = Target
  PROVE  Kept(Idle, k, ks, a)
<1>1. Idle.port \notin Ports /\ Target \notin Ports /\ Idle.pc = "idle"
  BY IdleIs, KnockFacts, Zenon
<1>2. x.port = Target => DoneOf(Idle, ks) = DoneOf(x, ks)
  BY <1>1, Zenon DEF DoneOf
<1>3. CASE k.complete = TRUE
  BY <1>1, <1>3, Zenon DEF Kept
<1>4. CASE k.complete # TRUE
  BY <1>1, <1>2, <1>4, Zenon DEF Kept, Stored
<1> QED
  BY <1>3, <1>4, Zenon

\* An element that is marked complete has been announced once.
LEMMA KeptAllowed ==
  ASSUME NEW x, NEW k \in Knocks, NEW ks, NEW a, Kept(x, k, ks, a), x.pc = "allow",
         NEW m, m.complete = TRUE, m.len = k.len, m.ports = k.ports
  PROVE  a = 0 /\ Kept(Idle, m, ks, a + 1)
<1>1. k.complete = FALSE
  BY KnockFields, Zenon DEF Kept
<1>2. a = 0 /\ Matches(k)
  BY <1>1, Zenon DEF Kept, Stored
<1>3. Matches(m)
  BY <1>2, Zenon DEF Matches
<1> QED
  BY <1>2, <1>3, IdleIs DEF Kept

\* The length that was read is that of the element.
LEMMA KeptReads ==
  ASSUME NEW x, NEW y, NEW k \in Knocks, NEW ks \in Seq(Ports), NEW a, Kept(x, k, ks, a),
         x.pc = "knock", y.pc = "port", y.port = x.port, x.port \in Ports => ks # <<>>,
         y.len = IF k.len = Len(TargetSeq) THEN 0 ELSE k.len,
         NEW m, m.complete = k.complete, m.ports = k.ports
  PROVE  Kept(y, m, ks, a)
<1>1. k.complete = FALSE
  BY KnockFields, Zenon DEF Kept
<1>2. PICK n, r : n = DoneOf(x, ks) /\ r = RoundLen(n)
  BY Zenon
<1>3. DoneOf(y, ks) = n
  BY <1>2, Zenon DEF DoneOf
<1>4. a = 0 /\ k.len = r /\ Follows(k, ks, n - r, r)
  BY <1>1, <1>2, Zenon DEF Kept, Stored
<1>5. Follows(m, ks, n - r, r) /\ y.len = IF r = Len(TargetSeq) THEN 0 ELSE r
  BY <1>4, Zenon DEF Follows
<1> QED
  BY <1>1, <1>2, <1>3, <1>4, <1>5, Zenon DEF Kept, Stored

\* The port that is stored is the next one of the round.
LEMMA KeptWrites ==
  ASSUME NEW x, NEW y, NEW k \in Knocks, NEW ks \in Seq(Ports), NEW a, Kept(x, k, ks, a),
         x.pc = "port", y.pc = "newlen", y.port = x.port, y.len = x.len,
         x.port \in Ports => ks # <<>>,
         NEW m, m.complete = k.complete, PortPut(m, k, x.len + 1, x.port)
  PROVE  Kept(y, m, ks, a)
<1>1. k.complete = FALSE
  BY KnockFields, Zenon DEF Kept
<1>2. PICK n, r : n = DoneOf(x, ks) /\ r = RoundLen(n)
  BY Zenon
<1>3. DoneOf(y, ks) = n /\ n \in Nat
  BY <1>2, DoneIs, Zenon DEF DoneOf
<1>4. r \in 0 .. Len(TargetSeq)
  BY <1>2, <1>3, RoundSize, Zenon
<1>5. a = 0 /\ Follows(k, ks, n - r, r) /\ x.len = IF r = Len(TargetSeq) THEN 0 ELSE r
  BY <1>1, <1>2, Zenon DEF Kept, Stored
<1>6. Follows(m, ks, n - r, x.len)
  <2>1. SUFFICES ASSUME NEW i \in 1 .. x.len PROVE m.ports[i] = ks[n - r + i]
    BY Zenon DEF Follows
  <2>2. x.len = r /\ i \in 1 .. r /\ i \in (1 .. MAX_SEQ_LEN) \ {x.len + 1}
    BY <1>4, <1>5, <2>1, KnockFacts
  <2> QED
    BY <1>5, <2>2, Zenon DEF Follows, PortPut
<1> QED
  BY <1>1, <1>2, <1>3, <1>5, <1>6, Zenon DEF Kept, Stored, PortPut

\* The length that is stored counts the knock that was under way.
LEMMA KeptCounts ==
  ASSUME NEW x, NEW k \in Knocks, NEW ks \in Seq(Ports), NEW a, Kept(x, k, ks, a),
         x.pc = "newlen", x.port \in Ports, ks # <<>>, ks[Len(ks)] = x.port,
         NEW m, m.complete = k.complete, m.ports = k.ports, m.len = x.len + 1
  PROVE  Kept(Idle, m, ks, a)
<1>1. k.complete = FALSE
  BY KnockFields, Zenon DEF Kept
<1>2. PICK n, r, L : n = DoneOf(x, ks) /\ r = RoundLen(n) /\ L = Len(TargetSeq)
  BY Zenon
<1>3. Len(ks) = n + 1 /\ n \in Nat
  BY <1>2, DoneIs, Zenon
<1>4. DoneOf(Idle, ks) = n + 1
  BY <1>3, IdleIs, KnockFacts, DoneIs, Zenon
<1>5. r \in 0 .. L /\ L \in Nat \ {0}
  BY <1>2, <1>3, RoundSize, KnockFacts
<1>6. /\ a = 0 /\ x.len = IF r = L THEN 0 ELSE r
      /\ Follows(k, ks, n - r, x.len) /\ k.ports[x.len + 1] = ks[n + 1]
  BY <1>1, <1>2, <1>3, Zenon DEF Kept, Stored
<1>7. RoundLen(n + 1) = x.len + 1
  <2>1. RoundLen(n + 1) = IF RoundLen(n) = Len(TargetSeq) THEN 1 ELSE RoundLen(n) + 1
    BY <1>3, RoundNext, Zenon
  <2> QED
    BY <1>2, <1>5, <1>6, <2>1
<1>8. Follows(m, ks, n - x.len, x.len + 1)
  <2>1. SUFFICES ASSUME NEW i \in 1 .. x.len + 1 PROVE m.ports[i] = ks[n - x.len + i]
    BY Zenon DEF Follows
  <2>2. CASE i = x.len + 1
    <3>1. n - x.len + i = n + 1
      BY <1>3, <1>5, <1>6, <2>2
    <3> QED
      BY <1>6, <2>2, <3>1, Zenon
  <2>3. CASE i # x.len + 1
    <3>1. i \in 1 .. x.len /\ x.len = r
      BY <1>5, <1>6, <2>1, <2>3
    <3> QED
      BY <1>6, <3>1, Zenon DEF Follows
  <2> QED
    BY <2>2, <2>3, Zenon
<1>9. (n + 1) - (x.len + 1) = n - x.len
  BY <1>3, <1>5, <1>6
<1> QED
  BY <1>1, <1>4, <1>6, <1>7, <1>8, <1>9, IdleIs, Zenon DEF Kept, Stored

\* A packet that arrives has written nothing yet.
LEMMA KeptArrives ==
  ASSUME NEW y, NEW k \in Knocks, NEW ks \in Seq(Ports), NEW a, Kept(Idle, k, ks, a),
         y.pc = "complete", NEW kn,
         \/ y.port \notin Ports /\ kn = ks
         \/ y.port \in Ports /\ kn = Append(ks, y.port)
  PROVE  Kept(y, k, kn, a)
<1>1. PICK n, r : n = Len(ks) /\ r = RoundLen(n)
  BY Zenon
<1>2. DoneOf(Idle, ks) = n /\ n \in Nat /\ DoneOf(y, kn) = n
  BY <1>1, IdleIs, KnockFacts DEF DoneOf
<1>3. \A i \in 1 .. n : kn[i] = ks[i]
  BY <1>1
<1>4. r \in 0 .. n
  BY <1>1, <1>2, RoundSize
<1>5. ASSUME Follows(k, ks, n - r, r) PROVE Follows(k, kn, n - r, r)
  <2>1. SUFFICES ASSUME NEW i \in 1 .. r PROVE k.ports[i] = kn[n - r + i]
    BY Zenon DEF Follows
  <2>2. n - r + i \in 1 .. n
    BY <1>2, <1>4, <2>1
  <2> QED
    BY <1>3, <1>5, <2>2, Zenon DEF Follows
<1> QED
  BY <1>1, <1>2, <1>5, IdleIs, Zenon DEF Kept, Stored

\* A new element holds no knock of its source.
LEMMA KeptNew ==
  ASSUME NEW x, NEW ks \in Seq(Ports), DoneOf(x, ks) = 0, x.pc = "get"
  PROVE  Kept(x, NewKnock, ks, 0)
<1>1. RoundLen(0) = 0
  BY Zenon DEF RoundLen
<1>2. Follows(NewKnock, ks, 0 - 0, 0)
  BY DEF Follows
<1> QED
  BY <1>1, <1>2, NewKnockIs, Zenon DEF Kept, Stored

\* A step of a CPU at a packet of another source.
LEMMA SerialOther ==
  ASSUME KnockBase, KnockBase', NEW s \in Sources, Serial(s), NEW c \in CPUs, NEW y, Moved(c, y),
         cpu[c].src # s, cpu[c].pc # "idle", y = Idle \/ y.src = cpu[c].src,
         Holds(y) => (y.ptr = cpu[c].ptr /\ Holds(cpu[c])) \/ y.ptr = table[cpu[c].src],
         table' = table, mem' = mem \/ \E k : Wrote(cpu[c].ptr, k) /\ Holds(cpu[c]),
         knocked' = knocked,
         allowed' \in {allowed, [allowed EXCEPT ![cpu[c].src] = @ + 1]},
         blocked' \in {blocked, blocked \cup {cpu[c].src}}, FreeElems' = FreeElems
  PROVE  Serial(s)'
<1>1. KnockTypes /\ KnockApart /\ Underway(cpu[c])
  BY Zenon DEF KnockBase
<1>2. cpu[c].src \in Sources
  BY <1>1, Zenon DEF Underway
<1>3. Holds(cpu[c]) => cpu[c].ptr # table[s] /\ cpu[c].ptr \in Elems
  BY <1>1, Zenon DEF Serial, Underway
<1>4. y.src # s
  BY IdleIs, KnockFacts, Zenon
<1>5. Holds(y) => y.ptr # table[s]
  <2>1. SUFFICES ASSUME Holds(y), y.ptr = table[cpu[c].src] PROVE y.ptr # table[s]
    BY <1>3, Zenon
  <2>2. y.ptr # 0
    <3>1. Underway(cpu[c])'
      BY Zenon DEF KnockBase
    <3> QED
      BY <2>1, <3>1, KnockFacts, Zenon DEF Underway, Moved, Holds, Elems
  <2> QED
    BY <1>1, <1>2, <2>1, <2>2, ZenonT(30) DEF KnockApart
<1>6. table[s] # 0 => mem'[table[s]] = mem[table[s]]
  BY <1>1, <1>3, Zenon DEF Wrote, KnockTypes
<1>7. allowed'[s] = allowed[s]
  BY <1>1, Zenon DEF KnockTypes
<1>8. s \notin blocked'
  BY Zenon DEF Serial
<1> QED
  BY <1>4, <1>5, <1>6, <1>7, <1>8, SerialFrame, Zenon

\* What is known of the packet of the source that a CPU handles.
LEMMA OwnIs ==
  ASSUME KnockBase, NEW s \in Sources, Serial(s), NEW c \in CPUs, cpu[c].src = s
  PROVE  /\ Promise(s, cpu[c]) /\ Underway(cpu[c]) /\ knocked[s] \in Seq(Ports) /\ allowed[s] \in Nat
         /\ s \notin blocked
         /\ Holds(cpu[c]) => /\ cpu[c].ptr = table[s] /\ table[s] \in Elems /\ table[s] # 0
                             /\ mem[table[s]] \in Knocks
                             /\ Kept(cpu[c], mem[table[s]], knocked[s], allowed[s])
<1>1. KnockTypes /\ Underway(cpu[c])
  BY Zenon DEF KnockBase
<1>2. PICK x : Handled(s, x) /\ Promise(s, x)
  BY Zenon DEF Serial
<1>3. x = cpu[c]
  BY <1>1, <1>2, HandledIs, Zenon
<1>4. Holds(cpu[c]) => cpu[c].ptr = table[s] /\ cpu[c].ptr \in Elems
  BY <1>1, Zenon DEF Serial, Underway
<1> QED
  BY <1>1, <1>2, <1>3, <1>4, KnockFacts, Zenon DEF Promise, KnockTypes, Serial

\* The step of that CPU, when the source has an element.
LEMMA OwnStep ==
  ASSUME KnockBase, KnockBase', NEW s \in Sources, Serial(s), NEW c \in CPUs, cpu[c].src = s,
         Holds(cpu[c]), NEW y, Moved(c, y), y = Idle \/ (y.src = s /\ y.port = cpu[c].port /\ y.pc # "set"),
         Holds(y) => y.ptr = table[s], table' = table, knocked' = knocked, s \notin blocked',
         Kept(y, mem'[table[s]], knocked[s], allowed'[s])
  PROVE  Serial(s)'
<1>1. /\ Promise(s, cpu[c]) /\ table[s] # 0
  BY OwnIs, Zenon
<1>2. y.port \in Ports => y.port = cpu[c].port
  BY IdleIs, KnockFacts, Zenon
<1>3. y.pc # "set"
  BY IdleIs, Zenon
<1>4. Kept(y, mem[table[s]], knocked[s], allowed[s])'
  BY KeptNext, Zenon
<1>5. Promise(s, y)'
  BY <1>1, <1>2, <1>3, <1>4, Zenon DEF Promise
<1> QED
  BY <1>5, SerialStep, Zenon

\* An arrival keeps the promise to a source whose packets do not overlap.
LEMMA SerialArrive ==
  ASSUME KnockBase, NEW s \in Sources, Serial(s), NEW c \in CPUs, Arrive(c), alone'[s] = TRUE
  PROVE  Serial(s)'
<1>1. /\ KnockBase' /\ FreeElems' = FreeElems
      /\ UNCHANGED <<table, mem, spare, allowed, blocked>>
  BY ArriveIs, Zenon
<1>2. KnockTypes /\ s \notin blocked'
  BY <1>1, Zenon DEF KnockBase, Serial
<1>3. CASE UNCHANGED <<cpu, knocked, alone>>
  BY <1>1, <1>3, SerialSame, Zenon
<1>4. CASE ~UNCHANGED <<cpu, knocked, alone>>
  <2>1. PICK t \in Sources, p \in Ports \cup {Target}, y \in CpuStates :
          /\ Moved(c, y) /\ cpu[c] = Idle
          /\ y.pc = (IF table[t] = 0 THEN "set" ELSE "complete") /\ y.src = t /\ y.port = p
          /\ y.ptr = table[t]
          /\ knocked' = IF p = Target THEN knocked ELSE [knocked EXCEPT ![t] = Append(@, p)]
          /\ alone' = [alone EXCEPT ![t] = @ /\ \A d \in CPUs : cpu[d].src # t]
    BY <1>4, ArriveIs, Zenon
  <2>2. CASE t # s
    <3>1. cpu[c].src # s /\ y.src # s
      BY <2>1, <2>2, IdleIs, KnockFacts, Zenon
    <3>2. Holds(y) => y.ptr # table[s]
      BY <2>1, <2>2, Zenon DEF KnockBase, KnockApart, Holds
    <3>3. knocked'[s] = knocked[s]
      BY <1>2, <2>1, <2>2, Zenon DEF KnockTypes
    <3> QED
      BY <1>1, <1>2, <2>1, <3>1, <3>2, <3>3, SerialFrame, Zenon
  <2>3. CASE t = s
    <3>1. \A d \in CPUs : cpu[d].src # s
      BY <1>2, <2>1, <2>3, Zenon DEF KnockTypes
    <3>2. PICK x : Handled(s, x) /\ Promise(s, x)
      BY Zenon DEF Serial
    <3>3. x = Idle
      BY <3>1, <3>2, Zenon DEF Handled
    <3>4. PICK ks, kn : ks = knocked[s] /\ kn = knocked'[s]
      BY Zenon
    <3>5. ks \in Seq(Ports)
      BY <1>2, <3>4, Zenon DEF KnockTypes
    <3>6. \/ y.port \notin Ports /\ kn = ks
          \/ y.port \in Ports /\ kn = Append(ks, y.port)
      BY <1>2, <2>1, <2>3, <3>4, KnockFacts, Zenon DEF KnockTypes
    <3>7. DoneOf(y, kn) = DoneOf(Idle, ks)
      BY <3>5, <3>6, IdleIs, KnockFacts DEF DoneOf
    <3>8. y.port \in Ports => kn # <<>> /\ kn[Len(kn)] = y.port
      BY <3>5, <3>6
    <3>9. table[s] # 0 => Kept(y, mem[table[s]], kn, allowed[s])
      <4>1. SUFFICES ASSUME table[s] # 0 PROVE Kept(y, mem[table[s]], kn, allowed[s])
        BY Zenon
      <4>2. mem[table[s]] \in Knocks /\ Kept(Idle, mem[table[s]], ks, allowed[s]) /\ y.pc = "complete"
        BY <1>2, <2>1, <2>3, <3>2, <3>3, <3>4, <4>1, Zenon DEF KnockTypes, Promise
      <4> QED
        BY <3>5, <3>6, <4>2, KeptArrives, Zenon
    <3>10. table[s] = 0 => allowed[s] = 0 /\ (FreeElems = {} \/ DoneOf(y, kn) = 0)
      BY <3>2, <3>3, <3>4, <3>7, Zenon DEF Promise
    <3>11. Promise(s, y)'
      <4>1. (y.port \in Ports => kn # <<>> /\ kn[Len(kn)] = y.port)'
        BY <3>8, Zenon
      <4>2. (table[s] # 0 => Kept(y, mem[table[s]], knocked[s], allowed[s]))'
        BY <1>1, <3>4, <3>9, KeptNext, Zenon
      <4>3. (table[s] = 0 => allowed[s] = 0 /\ (FreeElems = {} \/ DoneOf(y, knocked[s]) = 0))'
        BY <1>1, <3>4, <3>10, Zenon DEF DoneOf
      <4>4. (y.pc = "set" => table[s] = 0)'
        BY <1>1, <2>1, <2>3, Zenon
      <4> QED
        BY <3>4, <3>8, <4>2, <4>3, <4>4, Zenon DEF Promise
    <3>12. table'[s] = table[s] /\ y.src = s /\ y.ptr = table'[s]
      BY <1>1, <2>1, <2>3, Zenon
    <3> QED
      BY <1>1, <1>2, <2>1, <3>1, <3>11, <3>12, SerialStep, Zenon
  <2> QED
    BY <2>2, <2>3, Zenon
<1> QED
  BY <1>3, <1>4, Zenon

\* The insertion keeps it.
LEMMA SerialSet ==
  ASSUME KnockBase, NEW s \in Sources, Serial(s), NEW c \in CPUs, SetKnock(c)
  PROVE  Serial(s)'
<1>1. /\ cpu[c].pc = "set" /\ UNCHANGED <<knocked, alone, allowed, blocked, entered>>
      /\ cpu[c].src \in Sources /\ KnockBase' /\ FreeElems' \subseteq FreeElems
  BY SetChanges, SetUses, SetIs, Zenon
<1>2. KnockTypes /\ KnockApart /\ s \notin blocked'
  BY <1>1, Zenon DEF KnockBase, Serial
<1>3. PICK y : Moved(c, y) /\ Became(cpu[c], y, "get", cpu[c].ptr, cpu[c].len)
  BY SetChanges, Zenon
<1>4. y.pc = "get" /\ ~Holds(y) /\ y.src = cpu[c].src /\ y.port = cpu[c].port
  BY <1>3, Zenon DEF Became, Holds
<1>5. CASE cpu[c].src # s
  <2>1. table'[s] = table[s]
    BY <1>1, <1>5, SetChanges, Zenon DEF Replaced, Inserted
  <2>2. table[s] # 0 => mem'[table[s]] = mem[table[s]]
    <3>1. SUFFICES ASSUME table[s] # 0 PROVE mem'[table[s]] = mem[table[s]]
      BY Zenon
    <3>2. table[s] \in Elems /\ table[s] # spare[c] /\ table[s] \notin FreeElems
      BY <1>2, <3>1, Zenon DEF KnockTypes, KnockApart, FreeElems
    <3> QED
      BY <3>2, SetChanges, Zenon DEF Replaced, Inserted, Wrote
  <2> QED
    BY <1>1, <1>2, <1>3, <1>4, <1>5, <2>1, <2>2, SerialFrame, Zenon
<1>6. CASE cpu[c].src = s
  <2>1. Promise(s, cpu[c]) /\ knocked[s] \in Seq(Ports)
    BY <1>6, OwnIs, Zenon
  <2>2. table[s] = 0 /\ allowed[s] = 0 /\ (FreeElems = {} \/ DoneOf(cpu[c], knocked[s]) = 0)
    BY <1>1, <2>1, Zenon DEF Promise
  <2>3. DoneOf(y, knocked[s]) = DoneOf(cpu[c], knocked[s])
    BY <1>4, Zenon DEF DoneOf
  <2>4. y.port \in Ports => knocked[s] # <<>> /\ knocked[s][Len(knocked[s])] = y.port
    BY <1>4, <2>1, Zenon DEF Promise
  <2>5. CASE Inserted(s)
    <3>1. PICK e \in FreeElems : Wrote(e, NewKnock) /\ table'[s] = e
      BY <2>5, Zenon DEF Inserted
    <3>2. e # 0 /\ e \in Elems
      BY <3>1, KnockFacts, Zenon DEF FreeElems
    <3>3. Kept(y, NewKnock, knocked[s], 0)
      BY <1>4, <2>1, <2>2, <2>3, <3>1, KeptNew, Zenon
    <3>4. mem'[table'[s]] = NewKnock /\ allowed'[s] = 0 /\ knocked'[s] = knocked[s]
      BY <1>1, <2>2, <3>1, Zenon DEF Wrote
    <3>5. Kept(y, mem[table[s]], knocked[s], allowed[s])'
      BY <3>3, <3>4, KeptNext, Zenon
    <3>6. Promise(s, y)'
      BY <1>4, <2>4, <3>1, <3>2, <3>4, <3>5, Zenon DEF Promise
    <3> QED
      BY <1>1, <1>2, <1>3, <1>4, <1>6, <2>2, <3>1, <3>6, SerialStep, Zenon
  <2>6. CASE FreeElems = {} /\ UNCHANGED <<mem, table, spare>>
    <3>1. FreeElems' = {}
      BY <1>1, <2>6, Zenon
    <3>2. Promise(s, y)'
      BY <1>1, <1>4, <2>2, <2>4, <2>6, <3>1, Zenon DEF Promise
    <3> QED
      BY <1>1, <1>2, <1>3, <1>4, <1>6, <2>6, <3>2, SerialStep, Zenon
  <2>7. ~Replaced(c, s)
    BY <2>2, Zenon DEF Replaced
  <2> QED
    BY <1>6, <2>5, <2>6, <2>7, SetChanges, Zenon
<1> QED
  BY <1>5, <1>6, Zenon

\* The lookup keeps it.
LEMMA SerialGet ==
  ASSUME KnockBase, NEW s \in Sources, Serial(s), NEW c \in CPUs, GetKnock(c)
  PROVE  Serial(s)'
<1>1. /\ KnockBase' /\ FreeElems' = FreeElems /\ cpu[c].pc = "get"
      /\ UNCHANGED <<table, mem, spare, knocked, alone, allowed, blocked>>
  BY GetIs, Zenon
<1>2. KnockTypes /\ Underway(cpu[c]) /\ s \notin blocked'
  BY <1>1, Zenon DEF KnockBase, Serial
<1>3. CASE cpu[c].src # s
  <2>1. PICK y : Moved(c, y) /\ (y = Idle \/ (y.src = cpu[c].src /\ y.ptr = table[cpu[c].src]))
    BY GetIs, Zenon DEF Became
  <2>2. Holds(y) => y.ptr = table[cpu[c].src]
    BY <2>1, IdleIs, Zenon
  <2> QED
    BY <1>1, <1>3, <2>1, <2>2, SerialOther, Zenon
<1>4. CASE cpu[c].src = s
  <2>1. Promise(s, cpu[c]) /\ knocked[s] \in Seq(Ports)
    BY <1>4, OwnIs, Zenon
  <2>2. CASE table[s] = 0
    <3>1. FreeElems = {} /\ Moved(c, Idle)
      BY <1>4, <2>2, GetIs, Zenon
    <3>2. allowed[s] = 0
      BY <2>1, <2>2, Zenon DEF Promise
    <3>3. Promise(s, Idle)'
      <4>1. Idle.port \notin Ports /\ Idle.pc # "set"
        BY IdleIs, KnockFacts, Zenon
      <4> QED
        BY <1>1, <2>2, <3>1, <3>2, <4>1, Zenon DEF Promise, Idle
    <3> QED
      BY <1>1, <1>2, <1>4, <3>1, <3>3, IdleIs, SerialStep, Zenon
  <2>3. CASE table[s] # 0
    <3>1. PICK y : Moved(c, y) /\ Became(cpu[c], y, "complete", table[s], cpu[c].len)
      BY <1>4, <2>3, GetIs, Zenon
    <3>2. y.pc = "complete" /\ y.src = s /\ y.port = cpu[c].port /\ y.ptr = table[s]
      BY <1>4, <3>1, Zenon DEF Became
    <3>3. mem[table[s]] \in Knocks /\ Kept(cpu[c], mem[table[s]], knocked[s], allowed[s])
      BY <1>2, <2>1, <2>3, Zenon DEF KnockTypes, Promise
    <3>4. Kept(y, mem[table[s]], knocked[s], allowed[s])
      BY <1>1, <3>2, <3>3, KeptMoves, Zenon
    <3>5. Kept(y, mem[table[s]], knocked[s], allowed[s])'
      BY <1>1, <3>4, KeptNext, Zenon
    <3>6. Promise(s, y)'
      BY <1>1, <2>1, <2>3, <3>2, <3>5, Zenon DEF Promise
    <3> QED
      BY <1>1, <1>2, <1>4, <3>1, <3>2, <3>6, SerialStep, Zenon
  <2> QED
    BY <2>2, <2>3, Zenon
<1> QED
  BY <1>3, <1>4, Zenon

\* The test of complete keeps it.
LEMMA SerialComplete ==
  ASSUME KnockBase, NEW s \in Sources, Serial(s), NEW c \in CPUs, Complete(c)
  PROVE  Serial(s)'
<1>1. /\ KnockBase' /\ FreeElems' = FreeElems /\ cpu[c].pc = "complete" /\ Holds(cpu[c])
      /\ UNCHANGED <<table, mem, spare, knocked, alone, allowed, blocked>>
  BY CompleteIs, Zenon DEF Holds
<1>2. PICK y : /\ Moved(c, y)
               /\ \/ y = Idle /\ mem[cpu[c].ptr].complete = TRUE
                  \/ /\ y.src = cpu[c].src /\ y.port = cpu[c].port /\ y.ptr = cpu[c].ptr
                     /\ mem[cpu[c].ptr].complete = FALSE /\ y.pc \in {"len", "knock"}
  BY CompleteIs, Zenon DEF Became
<1>3. Holds(y) => y.ptr = cpu[c].ptr
  BY <1>2, IdleIs, Zenon
<1>4. CASE cpu[c].src # s
  BY <1>1, <1>2, <1>3, <1>4, SerialOther, Zenon
<1>5. CASE cpu[c].src = s
  <2>1. /\ cpu[c].ptr = table[s] /\ mem[table[s]] \in Knocks /\ s \notin blocked
        /\ Kept(cpu[c], mem[table[s]], knocked[s], allowed[s])
    BY <1>1, <1>5, OwnIs, Zenon
  <2>2. Kept(y, mem[table[s]], knocked[s], allowed[s])
    BY <1>1, <1>2, <2>1, KeptMoves, KeptEnds, Zenon
  <2>3. mem'[table[s]] = mem[table[s]] /\ allowed'[s] = allowed[s] /\ s \notin blocked'
    BY <1>1, <2>1, Zenon
  <2>4. y = Idle \/ (y.src = s /\ y.port = cpu[c].port /\ y.pc # "set")
    BY <1>2, <1>5, Zenon
  <2> QED
    BY <1>1, <1>2, <1>3, <1>5, <2>1, <2>2, <2>3, <2>4, OwnStep, Zenon
<1> QED
  BY <1>4, <1>5, Zenon

\* A comparison keeps it, if it sends on only what it should.
LEMMA SerialCompare ==
  ASSUME KnockBase, NEW s \in Sources, Serial(s), NEW c \in CPUs, KnockBase', FreeElems' = FreeElems,
         Holds(cpu[c]), NEW q \in {"ports", "allow"}, Compared(c, q), cpu[c].port = Target,
         cpu[c].pc \in {"len", "ports"},
         UNCHANGED <<table, mem, spare, knocked, alone, allowed, entered>>,
         cpu[c].src = s /\ cpu'[c] # Idle => mem[table[s]].len = Len(TargetSeq),
         cpu[c].src = s /\ cpu'[c] # Idle /\ q = "allow" =>
           \A i \in 1 .. Len(TargetSeq) : mem[table[s]].ports[i] = TargetSeq[i]
  PROVE  Serial(s)'
<1>1. PICK y : /\ Moved(c, y) /\ y = cpu'[c]
               /\ \/ /\ y = Idle
                     /\ blocked' = IF allowed[cpu[c].src] > 0 THEN blocked \cup {cpu[c].src} ELSE blocked
                  \/ /\ y.src = cpu[c].src /\ y.port = cpu[c].port /\ y.ptr = cpu[c].ptr
                     /\ blocked' = blocked /\ y.pc = q
  BY Zenon DEF Compared, Became, Moved
<1>2. Holds(y) => y.ptr = cpu[c].ptr
  BY <1>1, IdleIs, Zenon
<1>3. CASE cpu[c].src # s
  <2>1. y = Idle \/ y.src = cpu[c].src
    BY <1>1, Zenon
  <2>2. cpu[c].pc # "idle" /\ blocked' \in {blocked, blocked \cup {cpu[c].src}}
    BY <1>1, Zenon DEF Holds
  <2> QED
    BY <1>1, <1>2, <1>3, <2>1, <2>2, SerialOther, Zenon
<1>4. CASE cpu[c].src = s
  <2>1. /\ cpu[c].ptr = table[s] /\ mem[table[s]] \in Knocks /\ s \notin blocked
        /\ Kept(cpu[c], mem[table[s]], knocked[s], allowed[s])
    BY <1>4, OwnIs, Zenon
  <2>2. mem[table[s]].complete = FALSE /\ allowed[s] = 0
    BY <2>1, KnockFields, Zenon DEF Kept
  <2>3. Kept(y, mem[table[s]], knocked[s], allowed[s])
    <3>1. CASE y = Idle
      BY <2>1, <3>1, KeptEnds, Zenon
    <3>2. CASE y # Idle
      <4>1. y.pc = q /\ y.port = cpu[c].port /\ mem[table[s]].len = Len(TargetSeq)
        BY <1>1, <1>4, <3>2, Zenon
      <4>2. q = "allow" => Matches(mem[table[s]])
        BY <1>1, <1>4, <3>2, <4>1, Zenon DEF Matches
      <4> QED
        BY <2>1, <2>2, <4>1, <4>2, KeptMoves, ZenonT(30)
    <3> QED
      BY <3>1, <3>2, Zenon
  <2>4. s \notin blocked'
    BY <1>1, <1>4, <2>1, <2>2
  <2>5. y = Idle \/ (y.src = s /\ y.port = cpu[c].port /\ y.pc # "set")
    BY <1>1, <1>4, Zenon
  <2>6. mem'[table[s]] = mem[table[s]] /\ allowed'[s] = allowed[s]
    BY Zenon
  <2> QED
    BY <1>1, <1>2, <1>4, <2>1, <2>3, <2>4, <2>5, <2>6, OwnStep, Zenon
<1> QED
  BY <1>3, <1>4, Zenon

\* The comparison of the length keeps it.
LEMMA SerialLen ==
  ASSUME KnockBase, NEW s \in Sources, Serial(s), NEW c \in CPUs, CompareLen(c)
  PROVE  Serial(s)'
<1>1. /\ KnockBase' /\ FreeElems' = FreeElems /\ Holds(cpu[c]) /\ cpu[c].pc = "len"
      /\ UNCHANGED <<table, mem, spare, knocked, alone, allowed, entered>>
      /\ Compared(c, "ports")
      /\ cpu'[c] # Idle => mem[cpu[c].ptr].len = Len(TargetSeq)
  BY LenIs, Zenon
<1>2. cpu[c].port = Target
  BY <1>1, Zenon DEF KnockBase, Underway
<1>3. cpu[c].src = s => cpu[c].ptr = table[s]
  BY <1>1, OwnIs, Zenon
<1> QED
  BY <1>1, <1>2, <1>3, SerialCompare, Zenon

\* The comparison of the ports keeps it.
LEMMA SerialPorts ==
  ASSUME KnockBase, NEW s \in Sources, Serial(s), NEW c \in CPUs, ComparePorts(c)
  PROVE  Serial(s)'
<1>1. /\ KnockBase' /\ FreeElems' = FreeElems /\ Holds(cpu[c]) /\ cpu[c].pc = "ports"
      /\ UNCHANGED <<table, mem, spare, knocked, alone, allowed, entered>>
      /\ Compared(c, "allow")
      /\ cpu'[c] # Idle => \A i \in 1 .. Len(TargetSeq) : mem[cpu[c].ptr].ports[i] = TargetSeq[i]
  BY PortsIs, Zenon
<1>2. cpu[c].port = Target
  BY <1>1, Zenon DEF KnockBase, Underway
<1>3. cpu[c].src = s => cpu[c].ptr = table[s] /\ mem[table[s]].len = Len(TargetSeq)
  <2>1. SUFFICES ASSUME cpu[c].src = s PROVE cpu[c].ptr = table[s] /\ mem[table[s]].len = Len(TargetSeq)
    BY Zenon
  <2>2. /\ cpu[c].ptr = table[s] /\ mem[table[s]] \in Knocks
        /\ Kept(cpu[c], mem[table[s]], knocked[s], allowed[s])
    BY <1>1, <2>1, OwnIs, Zenon
  <2> QED
    BY <1>1, <2>2, KnockFields, Zenon DEF Kept, Stored
<1> QED
  BY <1>1, <1>2, <1>3, SerialCompare, Zenon

\* The step that allows the source keeps it.
LEMMA SerialAllow ==
  ASSUME KnockBase, NEW s \in Sources, Serial(s), NEW c \in CPUs, Allow(c)
  PROVE  Serial(s)'
<1>1. /\ KnockBase' /\ FreeElems' = FreeElems /\ Holds(cpu[c]) /\ cpu[c].pc = "allow"
      /\ UNCHANGED <<table, spare, knocked, alone, blocked>> /\ Moved(c, Idle)
      /\ allowed' = [allowed EXCEPT ![cpu[c].src] = @ + 1]
  BY AllowIs, Zenon
<1>2. PICK k : /\ Wrote(cpu[c].ptr, k) /\ k.complete = TRUE /\ k.len = mem[cpu[c].ptr].len
               /\ k.ports = mem[cpu[c].ptr].ports
  BY AllowIs, Zenon
<1>3. CASE cpu[c].src # s
  BY <1>1, <1>2, <1>3, IdleIs, SerialOther, Zenon
<1>4. CASE cpu[c].src = s
  <2>1. /\ cpu[c].ptr = table[s] /\ mem[table[s]] \in Knocks /\ s \notin blocked
        /\ Kept(cpu[c], mem[table[s]], knocked[s], allowed[s])
    BY <1>1, <1>4, OwnIs, Zenon
  <2>2. Kept(Idle, k, knocked[s], allowed[s] + 1)
    BY <1>1, <1>2, <2>1, KeptAllowed, Zenon
  <2>3. allowed'[s] = allowed[s] + 1 /\ mem'[table[s]] = k
    BY <1>1, <1>2, <1>4, <2>1, Zenon DEF Wrote, KnockBase, KnockTypes
  <2> QED
    BY <1>1, <1>4, <2>1, <2>2, <2>3, IdleIs, OwnStep, Zenon
<1> QED
  BY <1>3, <1>4, Zenon

\* The read of the length keeps it.
LEMMA SerialReadLen ==
  ASSUME KnockBase, NEW s \in Sources, Serial(s), NEW c \in CPUs, ReadLen(c)
  PROVE  Serial(s)'
<1>1. /\ KnockBase' /\ FreeElems' = FreeElems /\ Holds(cpu[c]) /\ cpu[c].pc = "knock"
      /\ UNCHANGED <<table, spare, knocked, alone, allowed, blocked, entered>>
  BY ReadLenIs, Zenon
<1>2. PICK k : /\ Wrote(cpu[c].ptr, k) /\ k.complete = mem[cpu[c].ptr].complete
               /\ k.ports = mem[cpu[c].ptr].ports
  BY ReadLenIs, Zenon
<1>3. PICK y : /\ Moved(c, y) /\ y.pc = "port" /\ y.src = cpu[c].src /\ y.port = cpu[c].port
               /\ y.ptr = cpu[c].ptr
               /\ y.len = IF mem[cpu[c].ptr].len = Len(TargetSeq) THEN 0 ELSE mem[cpu[c].ptr].len
  BY ReadLenIs, Zenon DEF Became
<1>4. CASE cpu[c].src # s
  BY <1>1, <1>2, <1>3, <1>4, SerialOther, Zenon
<1>5. CASE cpu[c].src = s
  <2>1. /\ cpu[c].ptr = table[s] /\ mem[table[s]] \in Knocks /\ s \notin blocked
        /\ Kept(cpu[c], mem[table[s]], knocked[s], allowed[s]) /\ Promise(s, cpu[c])
        /\ knocked[s] \in Seq(Ports)
    BY <1>1, <1>5, OwnIs, Zenon
  <2>2. cpu[c].port \in Ports => knocked[s] # <<>>
    BY <2>1, Zenon DEF Promise
  <2>3. Kept(y, k, knocked[s], allowed[s])
    BY <1>1, <1>2, <1>3, <2>1, <2>2, KeptReads, Zenon
  <2>4. mem'[table[s]] = k
    BY <1>2, <2>1, Zenon DEF Wrote
  <2> QED
    BY <1>1, <1>3, <1>5, <2>1, <2>3, <2>4, OwnStep, Zenon
<1> QED
  BY <1>4, <1>5, Zenon

\* The store of the port keeps it.
LEMMA SerialWritePort ==
  ASSUME KnockBase, NEW s \in Sources, Serial(s), NEW c \in CPUs, WritePort(c)
  PROVE  Serial(s)'
<1>1. /\ KnockBase' /\ FreeElems' = FreeElems /\ Holds(cpu[c]) /\ cpu[c].pc = "port"
      /\ UNCHANGED <<table, spare, knocked, alone, allowed, blocked, entered>>
  BY WritePortIs, Zenon
<1>2. PICK k : /\ Wrote(cpu[c].ptr, k) /\ k.complete = mem[cpu[c].ptr].complete
               /\ PortPut(k, mem[cpu[c].ptr], cpu[c].len + 1, cpu[c].port)
  BY WritePortIs, Zenon
<1>3. PICK y : /\ Moved(c, y) /\ y.pc = "newlen" /\ y.src = cpu[c].src /\ y.port = cpu[c].port
               /\ y.ptr = cpu[c].ptr /\ y.len = cpu[c].len
  BY WritePortIs, Zenon DEF Became
<1>4. CASE cpu[c].src # s
  BY <1>1, <1>2, <1>3, <1>4, SerialOther, Zenon
<1>5. CASE cpu[c].src = s
  <2>1. /\ cpu[c].ptr = table[s] /\ mem[table[s]] \in Knocks /\ s \notin blocked
        /\ Kept(cpu[c], mem[table[s]], knocked[s], allowed[s]) /\ Promise(s, cpu[c])
        /\ knocked[s] \in Seq(Ports)
    BY <1>1, <1>5, OwnIs, Zenon
  <2>2. cpu[c].port \in Ports => knocked[s] # <<>>
    BY <2>1, Zenon DEF Promise
  <2>3. k.complete = mem[table[s]].complete /\ PortPut(k, mem[table[s]], cpu[c].len + 1, cpu[c].port)
    BY <1>2, <2>1, Zenon
  <2>4. Kept(y, k, knocked[s], allowed[s])
    BY <1>1, <1>3, <2>1, <2>2, <2>3, KeptWrites, Zenon
  <2>5. mem'[table[s]] = k
    BY <1>2, <2>1, Zenon DEF Wrote
  <2> QED
    BY <1>1, <1>3, <1>5, <2>1, <2>4, <2>5, OwnStep, Zenon
<1> QED
  BY <1>4, <1>5, Zenon

\* The store of the length keeps it.
LEMMA SerialWriteLen ==
  ASSUME KnockBase, NEW s \in Sources, Serial(s), NEW c \in CPUs, WriteLen(c)
  PROVE  Serial(s)'
<1>1. /\ KnockBase' /\ FreeElems' = FreeElems /\ Holds(cpu[c]) /\ cpu[c].pc = "newlen"
      /\ UNCHANGED <<table, spare, knocked, alone, allowed, blocked, entered>> /\ Moved(c, Idle)
  BY WriteLenIs, Zenon
<1>2. PICK k : /\ Wrote(cpu[c].ptr, k) /\ k.complete = mem[cpu[c].ptr].complete
               /\ k.ports = mem[cpu[c].ptr].ports /\ k.len = cpu[c].len + 1
  BY WriteLenIs, Zenon
<1>3. CASE cpu[c].src # s
  BY <1>1, <1>2, <1>3, IdleIs, SerialOther, Zenon
<1>4. CASE cpu[c].src = s
  <2>1. /\ cpu[c].ptr = table[s] /\ mem[table[s]] \in Knocks /\ s \notin blocked
        /\ Kept(cpu[c], mem[table[s]], knocked[s], allowed[s]) /\ Promise(s, cpu[c])
        /\ knocked[s] \in Seq(Ports) /\ Underway(cpu[c])
    BY <1>1, <1>4, OwnIs, Zenon
  <2>2. cpu[c].port \in Ports
    BY <1>1, <2>1, Zenon DEF Underway
  <2>3. knocked[s] # <<>> /\ knocked[s][Len(knocked[s])] = cpu[c].port
    BY <2>1, <2>2, Zenon DEF Promise
  <2>4. Kept(Idle, k, knocked[s], allowed[s])
    BY <1>1, <1>2, <2>1, <2>2, <2>3, KeptCounts, Zenon
  <2>5. mem'[table[s]] = k
    BY <1>2, <2>1, Zenon DEF Wrote
  <2> QED
    BY <1>1, <1>4, <2>1, <2>4, <2>5, IdleIs, OwnStep, Zenon
<1> QED
  BY <1>3, <1>4, Zenon

\* Packets that have overlapped have overlapped for good.
LEMMA AloneStays ==
  ASSUME KnockBase, NEW s \in Sources, Next \/ UNCHANGED vars, alone'[s] = TRUE
  PROVE  alone[s] = TRUE
<1>1. alone \in [Sources -> BOOLEAN]
  BY Zenon DEF KnockBase, KnockTypes
<1>2. CASE alone' = alone
  BY <1>2, Zenon
<1>3. CASE alone' # alone
  <2>1. PICK c \in CPUs : Arrive(c)
    BY <1>3, Zenon DEF Next, Probe, vars, history, Configure, SetKnock, GetKnock, Complete, CompareLen,
       ComparePorts, Allow, ReadLen, WritePort, WriteLen
  <2>2. PICK t \in Sources : alone' = [alone EXCEPT ![t] = @ /\ \A d \in CPUs : cpu[d].src # t]
    BY <1>3, <2>1, Zenon DEF Arrive
  <2> QED
    BY <1>1, <2>2, Zenon
<1> QED
  BY <1>2, <1>3, Zenon

\* Every step keeps elements apart.
LEMMA BaseNext == KnockBase /\ [Next]_vars => KnockBase'
<1> SUFFICES ASSUME KnockBase, [Next]_vars PROVE KnockBase'
  BY Zenon
<1>1. CASE Configure \/ UNCHANGED vars
  BY <1>1, ConfigureIs, Zenon
<1>2. ASSUME NEW c \in CPUs, Arrive(c) PROVE KnockBase'
  BY <1>2, ArriveIs, Zenon
<1>3. ASSUME NEW c \in CPUs, Probe(c) PROVE KnockBase'
  BY <1>3, SetIs, GetIs, CompleteIs, LenIs, PortsIs, AllowIs, ReadLenIs, WritePortIs, WriteLenIs, Zenon
     DEF Probe
<1> QED
  BY <1>1, <1>2, <1>3, Zenon DEF Next

\* Before the first packet nothing is promised.
LEMMA InitSerial == Init => SerialInv
<1> SUFFICES ASSUME Init PROVE SerialInv
  BY Zenon
<1>1. KnockBase
  BY InitBase, Zenon
<1>2. ASSUME NEW s \in Sources PROVE Serial(s)
  <2>1. /\ table[s] = 0 /\ knocked[s] = <<>> /\ allowed[s] = 0 /\ blocked = {}
        /\ \A c \in CPUs : cpu[c] = Idle
    BY Zenon DEF Init
  <2>2. DoneOf(Idle, <<>>) = 0
    BY IdleIs, KnockFacts DEF DoneOf
  <2>3. Promise(s, Idle)
    BY <2>1, <2>2, IdleIs, KnockFacts, Zenon DEF Promise
  <2>4. Handled(s, Idle)
    BY <2>1, IdleIs, KnockFacts, Zenon DEF Handled
  <2> QED
    BY <2>1, <2>3, <2>4, IdleIs, Zenon DEF Serial
<1> QED
  BY <1>1, <1>2, Zenon DEF SerialInv

\* Every step keeps the promise.
LEMMA SerialNext == SerialInv /\ [Next]_vars => SerialInv'
<1> SUFFICES ASSUME SerialInv, [Next]_vars PROVE SerialInv'
  BY Zenon
<1>1. KnockBase /\ KnockBase'
  BY BaseNext, Zenon DEF SerialInv
<1>2. ASSUME NEW s \in Sources, alone'[s] = TRUE PROVE Serial(s)'
  <2>1. Serial(s)
    BY <1>1, <1>2, AloneStays, Zenon DEF SerialInv
  <2>2. CASE Configure \/ UNCHANGED vars
    <3>1. /\ UNCHANGED <<table, mem, spare, cpu, knocked, alone, allowed, blocked>>
          /\ FreeElems' = FreeElems
      BY <1>1, <2>2, ConfigureIs, Zenon
    <3> QED
      BY <2>1, <3>1, SerialSame, Zenon
  <2>3. ASSUME NEW c \in CPUs, Arrive(c) PROVE Serial(s)'
    BY <1>1, <1>2, <2>1, <2>3, SerialArrive, Zenon
  <2>4. ASSUME NEW c \in CPUs, Probe(c) PROVE Serial(s)'
    BY <1>1, <2>1, <2>4, SerialSet, SerialGet, SerialComplete, SerialLen, SerialPorts, SerialAllow,
       SerialReadLen, SerialWritePort, SerialWriteLen, Zenon DEF Probe
  <2> QED
    BY <2>2, <2>3, <2>4, Zenon DEF Next
<1> QED
  BY <1>1, <1>2, Zenon DEF SerialInv

\* What the invariant says of a source none of whose packets is being handled.
LEMMA SerialRest ==
  ASSUME KnockBase, NEW s \in Sources, Serial(s), ~InFlight(s), table[s] # 0
  PROVE  LET k == mem[table[s]]
         IN  /\ k.complete <=> allowed[s] > 0
             /\ ~k.complete => SubSeq(k.ports, 1, k.len) = Round(knocked[s])
             /\ k.complete => SubSeq(k.ports, 1, k.len) = TargetSeq
<1>1. PICK k, ks, L, n : k = mem[table[s]] /\ ks = knocked[s] /\ L = Len(TargetSeq) /\ n = Len(ks)
  BY Zenon
<1>2. k \in Knocks /\ ks \in Seq(Ports) /\ n \in Nat /\ allowed[s] \in Nat
  BY <1>1 DEF KnockBase, KnockTypes
<1>3. Kept(Idle, k, ks, allowed[s])
  <2>1. PICK x : Handled(s, x) /\ Promise(s, x)
    BY Zenon DEF Serial
  <2>2. x = Idle
    BY <2>1, Zenon DEF Handled, InFlight
  <2> QED
    BY <1>1, <2>1, <2>2, Zenon DEF Promise
<1>4. /\ k.complete \in BOOLEAN /\ k.len \in 0 .. L /\ k.ports \in [1 .. MAX_SEQ_LEN -> Ports \cup {0}]
      /\ L \in Nat /\ L <= MAX_SEQ_LEN /\ MAX_SEQ_LEN \in Nat
  BY <1>1, <1>2, KnockFields, KnockFacts, Zenon
<1>5. CASE k.complete = TRUE
  <2>1. allowed[s] = 1 /\ Matches(k)
    BY <1>3, <1>5, Zenon DEF Kept
  <2>2. k.len = L /\ \A i \in 1 .. L : k.ports[i] = TargetSeq[i]
    BY <1>1, <2>1, Zenon DEF Matches
  <2>3. SubSeq(k.ports, 1, k.len) = [i \in 1 .. L |-> k.ports[i]]
    BY <1>4, <2>2
  <2>4. TargetSeq = [i \in 1 .. L |-> TargetSeq[i]]
    BY <1>1, KnockFacts
  <2>5. SubSeq(k.ports, 1, k.len) = TargetSeq
    BY <2>2, <2>3, <2>4, Zenon
  <2> QED
    BY <1>1, <1>5, <2>1, <2>5
<1>6. CASE k.complete = FALSE
  <2>1. PICK r : r = RoundLen(n)
    BY Zenon
  <2>2. DoneOf(Idle, ks) = n
    BY <1>1, <1>2, IdleIs, KnockFacts DEF DoneOf
  <2>3. allowed[s] = 0 /\ k.len = r /\ Follows(k, ks, n - r, r)
    BY <1>3, <1>6, <2>1, <2>2, IdleIs, Zenon DEF Kept, Stored
  <2>4. r \in 0 .. L /\ r <= n
    BY <1>1, <1>2, <2>1, RoundSize, Zenon
  <2>5. Round(ks) = SubSeq(ks, n - r + 1, n)
    BY <1>1, <2>1, Zenon DEF Round, RoundLen
  <2>6. r \in 0 .. n /\ r <= MAX_SEQ_LEN
    BY <1>2, <1>4, <2>4
  <2>7. \A i \in 1 .. r : k.ports[i] = ks[n - r + i]
    BY <2>3, Zenon DEF Follows
  <2>8. SubSeq(k.ports, 1, r) = SubSeq(ks, n - r + 1, n)
    <3>1. PICK b \in Nat : b = n - r + 1
      BY <1>2, <2>6
    <3>2. SubSeq(ks, b, n) = [i \in 1 .. n - b + 1 |-> ks[b + i - 1]]
      BY SMTT(20), <1>2, <3>1
    <3>3. n - b + 1 = r /\ \A i \in 1 .. r : b + i - 1 = n - r + i
      BY <1>2, <2>6, <3>1
    <3>4. [i \in 1 .. n - b + 1 |-> ks[b + i - 1]] = [i \in 1 .. r |-> k.ports[i]]
      BY <2>7, <3>3
    <3>5. SubSeq(k.ports, 1, r) = [i \in 1 .. r |-> k.ports[i]]
      BY <1>2, <1>4, <2>6
    <3> QED
      BY <3>1, <3>2, <3>4, <3>5
  <2>9. SubSeq(k.ports, 1, k.len) = Round(ks)
    BY <2>3, <2>5, <2>8, Zenon
  <2> QED
    BY <1>1, <1>6, <2>3, <2>9
<1> QED
  BY <1>4, <1>5, <1>6, Zenon

\* redbpf-tools tcp-knock, for any number of CPUs, sources and packets: a source
\* whose packets are handled one after the other is let in when the knocks of its
\* round are the sequence, is told so once and is not blocked afterwards.
THEOREM SerialKnocks == Spec => []SerialRight
<1>1. Init => SerialInv
  BY InitSerial, Zenon
<1>2. SerialInv /\ [Next]_vars => SerialInv'
  BY SerialNext, Zenon
<1>3. SerialInv => SerialRight
  <2> SUFFICES ASSUME SerialInv, NEW s \in Sources, alone[s]
               PROVE /\ allowed[s] <= 1 /\ s \notin blocked
                     /\ ~InFlight(s) /\ table[s] # 0 =>
                          LET k == mem[table[s]]
                          IN  /\ k.complete <=> allowed[s] > 0
                              /\ ~k.complete => SubSeq(k.ports, 1, k.len) = Round(knocked[s])
                              /\ k.complete => SubSeq(k.ports, 1, k.len) = TargetSeq
    BY Zenon DEF SerialRight
  <2>1. KnockBase /\ Serial(s)
    BY Zenon DEF SerialInv, KnockBase, KnockTypes
  <2>2. allowed[s] <= 1
    <3>1. PICK x : Promise(s, x)
      BY <2>1, Zenon DEF Serial
    <3>2. table[s] # 0 => mem[table[s]].complete \in BOOLEAN
      BY <2>1, KnockFields, Zenon DEF KnockBase, KnockTypes
    <3> QED
      BY <3>1, <3>2 DEF Promise, Kept
  <2>3. s \notin blocked
    BY <2>1, Zenon DEF Serial
  <2> QED
    BY <2>1, <2>2, <2>3, SerialRest, Zenon
<1> QED
  BY <1>1, <1>2, <1>3, PTL DEF Spec

\* redbpf-tools tcp-knock, on any number of CPUs: an element of the map knocks
\* belongs to one source or is the spare one of one CPU, and the length stays in
\* the sequence, so that knock.sequence.ports is indexed inside its bounds.
THEOREM ElementsApart ==
  Spec => [](/\ KnockApart
             /\ \A e \in Elems : mem[e].len \in 0 .. Len(TargetSeq)
             /\ \A c \in CPUs : cpu[c].len + 1 \in 1 .. MAX_SEQ_LEN)
<1>1. ASSUME KnockBase
      PROVE  /\ KnockApart
             /\ \A e \in Elems : mem[e].len \in 0 .. Len(TargetSeq)
             /\ \A c \in CPUs : cpu[c].len + 1 \in 1 .. MAX_SEQ_LEN
  <2>1. KnockTypes /\ KnockApart
    BY <1>1, Zenon DEF KnockBase
  <2>2. \A e \in Elems : mem[e].len \in 0 .. Len(TargetSeq)
    BY <2>1, KnockFields, Zenon DEF KnockTypes
  <2>3. \A c \in CPUs : cpu[c].len \in 0 .. Len(TargetSeq) - 1
    BY <2>1, CpuFields, Zenon DEF KnockTypes
  <2> QED
    BY <2>1, <2>2, <2>3, KnockFacts
<1> QED
  BY <1>1, InitBase, BaseNext, PTL DEF Spec

-----------------------------------------------------------------------------
(* Which sources may share an element                                      *)

Mixed(m, s, t) == s = t \/ (s \in m /\ t \in m)

\* A CPU that has a pointer to an element shares it with no other source, as far
\* as neither of them is mixed.
Mixes(c) ==
  /\ Holds(cpu[c]) =>
       /\ \A s \in Sources : table[s] = cpu[c].ptr => Mixed(mixed, s, cpu[c].src)
       /\ \A d \in CPUs : Holds(cpu[d]) /\ cpu[d].ptr = cpu[c].ptr => Mixed(mixed, cpu[d].src, cpu[c].src)
  /\ ~Holds(cpu[c]) => cpu[c].ptr = 0

Three == \E a, b, c \in CPUs : a # b /\ b # c /\ a # c

\* With two CPUs, one that is about to replace an element will not use the one
\* the other points to.
Pairs ==
  ~Three => /\ mixed = {}
            /\ \A c, d \in CPUs : cpu[d].pc = "set" /\ Holds(cpu[c]) /\ cpu[c].ptr = spare[d] =>
                 table[cpu[d].src] = 0

MixInv == KnockBase /\ (\A c \in CPUs : Mixes(c)) /\ Pairs

\* What a CPU that has got a pointer, or none, knows.
LEMMA MixesNext ==
  ASSUME NEW c \in CPUs, NEW y, cpu'[c] = y,
         Holds(y) => \A s \in Sources : table'[s] = y.ptr => Mixed(mixed', s, y.src),
         Holds(y) => \A d \in CPUs : Holds(cpu'[d]) /\ cpu'[d].ptr = y.ptr => Mixed(mixed', cpu'[d].src, y.src),
         ~Holds(y) => y.ptr = 0
  PROVE  Mixes(c)'
  BY Zenon DEF Mixes, Mixed, Holds

\* A step that leaves the table alone: the CPU keeps its pointer, or gets the
\* one to the element of its source.
LEMMA MixStep ==
  ASSUME MixInv, KnockBase', NEW c \in CPUs, NEW y, Moved(c, y), UNCHANGED <<table, spare, mixed>>,
         Holds(y) => \/ Holds(cpu[c]) /\ y.ptr = cpu[c].ptr /\ y.src = cpu[c].src
                     \/ y.src \in Sources /\ table[y.src] # 0 /\ y.ptr = table[y.src],
         ~Holds(y) => y.ptr = 0,
         y.pc = "set" => table[y.src] = 0
  PROVE  MixInv'
<1>0. KnockBase /\ KnockApart /\ (\A d \in CPUs : Mixes(d)) /\ Pairs
  BY Zenon DEF MixInv, KnockBase
<1>1. cpu'[c] = y /\ \A d \in CPUs \ {c} : cpu'[d] = cpu[d]
  BY Zenon DEF Moved
<1>2. ASSUME NEW s \in Sources, Holds(y), table[s] = y.ptr PROVE Mixed(mixed, s, y.src)
  <2>1. CASE Holds(cpu[c]) /\ y.ptr = cpu[c].ptr /\ y.src = cpu[c].src
    BY <1>0, <1>2, <2>1, Zenon DEF Mixes
  <2>2. CASE y.src \in Sources /\ table[y.src] # 0 /\ y.ptr = table[y.src]
    BY <1>0, <1>2, <2>2, Zenon DEF KnockApart, Mixed
  <2> QED
    BY <1>2, <2>1, <2>2, Zenon
<1>3. ASSUME NEW d \in CPUs, Holds(y), d # c, Holds(cpu[d]), cpu[d].ptr = y.ptr PROVE Mixed(mixed, cpu[d].src, y.src)
  <2>1. CASE Holds(cpu[c]) /\ y.ptr = cpu[c].ptr /\ y.src = cpu[c].src
    BY <1>0, <1>3, <2>1, Zenon DEF Mixes
  <2>2. CASE y.src \in Sources /\ table[y.src] # 0 /\ y.ptr = table[y.src]
    <3>1. Mixed(mixed, y.src, cpu[d].src)
      BY <1>0, <1>3, <2>2, Zenon DEF Mixes
    <3> QED
      BY <3>1, Zenon DEF Mixed
  <2> QED
    BY <1>3, <2>1, <2>2, Zenon
<1>4. ASSUME NEW d \in CPUs PROVE Mixes(d)'
  <2>2. CASE d = c
    <3>1. ASSUME NEW x \in CPUs, Holds(y), Holds(cpu'[x]), cpu'[x].ptr = y.ptr PROVE Mixed(mixed, cpu'[x].src, y.src)
      <4>1. CASE x = c
        BY <1>1, <4>1, Zenon DEF Mixed
      <4>2. CASE x # c
        BY <1>1, <1>3, <3>1, <4>2, Zenon
      <4> QED
        BY <4>1, <4>2, Zenon
    <3> QED
      BY <1>1, <1>2, <2>2, <3>1, MixesNext, Zenon
  <2>3. CASE d # c
    <3>1. cpu'[d] = cpu[d] /\ Mixes(d)
      BY <1>0, <1>1, <2>3, Zenon
    <3>2. ASSUME NEW x \in CPUs, Holds(cpu[d]), Holds(cpu'[x]), cpu'[x].ptr = cpu[d].ptr
          PROVE  Mixed(mixed, cpu'[x].src, cpu[d].src)
      <4>1. CASE x = c
        <5>1. Mixed(mixed, cpu[d].src, y.src)
          BY <1>1, <1>3, <2>3, <3>2, <4>1, Zenon
        <5> QED
          BY <1>1, <4>1, <5>1, Zenon DEF Mixed
      <4>2. CASE x # c
        BY <1>1, <3>1, <3>2, <4>2, Zenon DEF Mixes
      <4> QED
        BY <4>1, <4>2, Zenon
    <3> QED
      BY <3>1, <3>2, MixesNext, Zenon DEF Mixes
  <2> QED
    BY <2>2, <2>3, Zenon
<1>5. Pairs'
  <2>1. CASE Three
    BY <2>1, Zenon DEF Pairs, Three
  <2>2. CASE ~Three
    <3>1. /\ mixed = {}
          /\ \A x, d \in CPUs : cpu[d].pc = "set" /\ Holds(cpu[x]) /\ cpu[x].ptr = spare[d] =>
               table[cpu[d].src] = 0
      BY <1>0, <2>2, Zenon DEF Pairs
    <3>2. ASSUME NEW x \in CPUs, NEW d \in CPUs, cpu'[d].pc = "set", Holds(cpu'[x]), cpu'[x].ptr = spare[d]
          PROVE  table[cpu'[d].src] = 0
      <4>1. CASE d = c
        BY <1>1, <4>1, <3>2, Zenon
      <4>2. CASE d # c /\ x # c
        BY <1>1, <3>1, <3>2, <4>2, Zenon
      <4>3. CASE d # c /\ x = c
        <5>1. Holds(y) /\ y.ptr = spare[d] /\ cpu'[d] = cpu[d]
          BY <1>1, <3>2, <4>3, Zenon
        <5>2. Holds(cpu[c]) /\ y.ptr = cpu[c].ptr
          BY <1>0, <5>1, Zenon DEF KnockApart
        <5> QED
          BY <3>1, <3>2, <5>1, <5>2, Zenon
      <4> QED
        BY <4>1, <4>2, <4>3, Zenon
    <3> QED
      BY <3>1, <3>2, Zenon DEF Pairs, Holds
  <2> QED
    BY <2>1, <2>2, Zenon
<1> QED
  BY <1>4, <1>5, Zenon DEF MixInv

\* A step that touches no pointer.
LEMMA MixSame ==
  ASSUME MixInv, KnockBase', UNCHANGED <<table, spare, mixed, cpu>>
  PROVE  MixInv'
<1>1. ASSUME NEW c \in CPUs PROVE Mixes(c)'
  <2>1. Mixes(c)
    BY Zenon DEF MixInv
  <2> QED
    BY <2>1, Zenon DEF Mixes, Mixed, Holds
<1>2. Pairs'
  BY Zenon DEF MixInv, Pairs, Holds, Three
<1> QED
  BY <1>1, <1>2, Zenon DEF MixInv

\* What a replacement does to the sources with a pointer to the element.
LEMMA SetMixes ==
  ASSUME NEW c \in CPUs, SetKnock(c)
  PROVE  /\ mixed \subseteq mixed'
         /\ table[cpu[c].src] # 0 =>
              /\ \A d \in CPUs : cpu[d].ptr = spare[c] => Mixed(mixed', cpu[d].src, cpu[c].src)
              /\ mixed' # mixed => \E d \in CPUs : cpu[d].ptr = spare[c] /\ cpu[d].src # cpu[c].src
         /\ table[cpu[c].src] = 0 => mixed' = mixed
<1>1. CASE table[cpu[c].src] = 0
  BY <1>1, Zenon DEF SetKnock
<1>2. CASE table[cpu[c].src] # 0
  <2>1. PICK others : /\ others = {cpu[d].src : d \in {x \in CPUs : cpu[x].ptr = spare[c]}} \ {cpu[c].src}
                      /\ mixed' = mixed \cup others \cup (IF others = {} THEN {} ELSE {cpu[c].src})
    BY <1>2, Zenon DEF SetKnock
  <2>2. ASSUME NEW d \in CPUs, cpu[d].ptr = spare[c] PROVE Mixed(mixed', cpu[d].src, cpu[c].src)
    BY <2>1, <2>2, Zenon DEF Mixed
  <2>3. mixed' # mixed => \E d \in CPUs : cpu[d].ptr = spare[c] /\ cpu[d].src # cpu[c].src
    <3>1. SUFFICES ASSUME mixed' # mixed PROVE \E d \in CPUs : cpu[d].ptr = spare[c] /\ cpu[d].src # cpu[c].src
      BY Zenon
    <3>2. others # {}
      BY <2>1, <3>1
    <3>3. PICK t : t \in others
      BY <3>2, Zenon
    <3> QED
      BY <2>1, <3>3, Zenon
  <2>4. mixed \subseteq mixed'
    BY <2>1, Zenon
  <2> QED
    BY <1>2, <2>2, <2>3, <2>4, Zenon
<1> QED
  BY <1>1, <1>2, Zenon

\* A replacement, or an insertion, mixes no sources but those it records.
LEMMA MixSet ==
  ASSUME MixInv, NEW c \in CPUs, SetKnock(c)
  PROVE  MixInv'
<1>0. KnockBase /\ KnockApart /\ KnockTypes /\ (\A d \in CPUs : Mixes(d)) /\ Pairs
  BY Zenon DEF MixInv, KnockBase
<1>1. cpu[c].pc = "set" /\ cpu[c].src \in Sources /\ KnockBase'
  BY <1>0, SetChanges, SetIs, Zenon
<1>2. PICK t : t = cpu[c].src
  BY Zenon
<1>3. PICK y : Moved(c, y) /\ y.pc = "get" /\ y.src = t /\ y.ptr = cpu[c].ptr
  BY <1>0, <1>2, SetChanges, Zenon DEF Became
<1>4. \/ Replaced(c, t) \/ Inserted(t)
      \/ table[t] = 0 /\ FreeElems = {} /\ UNCHANGED <<mem, table, spare>>
  BY <1>0, <1>2, SetChanges, Zenon
<1>5. cpu'[c] = y /\ ~Holds(y) /\ y.ptr = 0 /\ \A d \in CPUs \ {c} : cpu'[d] = cpu[d]
  BY <1>0, <1>1, <1>3, Zenon DEF Moved, Holds, Mixes
<1>6. mixed \subseteq mixed'
  BY SetMixes, Zenon
<1>7. ASSUME NEW d \in CPUs, Holds(cpu[d]), NEW s \in Sources, table'[s] = cpu[d].ptr
      PROVE  Mixed(mixed', s, cpu[d].src)
  <2>1. CASE table'[s] = table[s]
    BY <1>0, <1>6, <1>7, <2>1, Zenon DEF Mixes, Mixed
  <2>2. CASE table'[s] # table[s] /\ Replaced(c, t)
    <3>1. s = t /\ cpu[d].ptr = spare[c] /\ table[t] # 0
      BY <1>7, <2>2, Zenon DEF Replaced
    <3>2. Mixed(mixed', cpu[d].src, t)
      BY <1>2, <3>1, SetMixes, Zenon
    <3> QED
      BY <3>1, <3>2, Zenon DEF Mixed
  <2>3. CASE table'[s] # table[s] /\ ~Replaced(c, t)
    <3>1. cpu[d].ptr \in FreeElems
      BY <1>4, <1>7, <2>3, Zenon DEF Inserted
    <3>2. cpu[d].ptr \notin FreeElems
      BY <1>0, <1>7, HolderIs, FreeIs, Zenon DEF Underway
    <3> QED
      BY <3>1, <3>2, Zenon
  <2> QED
    BY <2>1, <2>2, <2>3, Zenon
<1>8. ASSUME NEW d \in CPUs PROVE Mixes(d)'
  <2>1. CASE d = c
    BY <1>5, <2>1, MixesNext, Zenon
  <2>2. CASE d # c
    <3>1. cpu'[d] = cpu[d] /\ Mixes(d)
      BY <1>0, <1>5, <2>2, Zenon
    <3>2. ASSUME NEW x \in CPUs, Holds(cpu[d]), Holds(cpu'[x]), cpu'[x].ptr = cpu[d].ptr
          PROVE  Mixed(mixed', cpu'[x].src, cpu[d].src)
      <4>1. x # c /\ cpu'[x] = cpu[x]
        BY <1>5, <3>2, Zenon
      <4>2. Mixed(mixed, cpu[x].src, cpu[d].src)
        BY <3>1, <3>2, <4>1, Zenon DEF Mixes
      <4> QED
        BY <1>6, <4>1, <4>2, Zenon DEF Mixed
    <3> QED
      BY <1>7, <3>1, <3>2, MixesNext, Zenon DEF Mixes
  <2> QED
    BY <2>1, <2>2, Zenon
<1>9. Pairs'
  <2>1. CASE Three
    BY <2>1, Zenon DEF Pairs, Three
  <2>2. CASE ~Three
    <3>1. /\ mixed = {}
          /\ \A x, d \in CPUs : cpu[d].pc = "set" /\ Holds(cpu[x]) /\ cpu[x].ptr = spare[d] =>
               table[cpu[d].src] = 0
      BY <1>0, <2>2, Zenon DEF Pairs
    <3>2. mixed' = mixed
      <4>1. SUFFICES ASSUME mixed' # mixed PROVE FALSE
        BY Zenon
      <4>2. table[t] # 0
        BY <1>2, <4>1, SetMixes, Zenon
      <4>3. PICK d \in CPUs : cpu[d].ptr = spare[c]
        BY <1>2, <4>1, <4>2, SetMixes, Zenon
      <4>4. spare[c] # 0
        BY <1>0, KnockFacts, SMT DEF KnockTypes
      <4>5. Holds(cpu[d])
        BY <1>0, <4>3, <4>4, Zenon DEF Mixes
      <4> QED
        BY <1>1, <1>2, <3>1, <4>2, <4>3, <4>5, Zenon
    <3>3. ASSUME NEW x \in CPUs, NEW d \in CPUs, cpu'[d].pc = "set", Holds(cpu'[x]), cpu'[x].ptr = spare'[d]
          PROVE  table'[cpu'[d].src] = 0
      <4>1. d # c /\ x # c /\ cpu'[d] = cpu[d] /\ cpu'[x] = cpu[x]
        BY <1>3, <1>5, <3>3, Zenon
      <4>2. d # x
        BY <3>3, Zenon DEF Holds
      <4> QED
        BY <2>2, <4>1, <4>2, Zenon DEF Three
    <3> QED
      BY <3>1, <3>2, <3>3, Zenon DEF Pairs, Holds
  <2> QED
    BY <2>1, <2>2, Zenon
<1> QED
  BY <1>1, <1>8, <1>9, Zenon DEF MixInv

\* The steps of a probe that has its pointer, or gets it.
LEMMA MixProbe ==
  ASSUME MixInv, NEW c \in CPUs, Probe(c), ~SetKnock(c)
  PROVE  MixInv'
<1>0. KnockBase /\ KnockBase' /\ Mixes(c) /\ cpu[c] \in CpuStates
  BY BaseNext, Zenon DEF MixInv, KnockBase, KnockTypes, Next
<1>1. UNCHANGED <<table, spare, mixed>>
  BY Zenon DEF Probe, GetKnock, Complete, CompareLen, ComparePorts, Allow, ReadLen, WritePort, WriteLen
<1>2. CASE GetKnock(c)
  <2>1. CASE Moved(c, Idle)
    BY <1>0, <1>1, <2>1, IdleIs, MixStep, Zenon
  <2>2. CASE ~Moved(c, Idle)
    <3>1. PICK y : /\ Moved(c, y) /\ y.pc = "complete" /\ y.src = cpu[c].src /\ y.ptr = table[cpu[c].src]
                   /\ table[cpu[c].src] # 0 /\ cpu[c].pc = "get"
      BY <1>0, <1>2, <2>2, GetIs, Zenon DEF Became
    <3>2. y.src \in Sources
      BY <1>0, <3>1, Zenon DEF KnockBase, Underway
    <3>3. Holds(y) /\ y.pc # "set"
      BY <3>1, Zenon DEF Holds
    <3> QED
      BY <1>0, <1>1, <3>1, <3>2, <3>3, MixStep, Zenon
  <2> QED
    BY <2>1, <2>2, Zenon
<1>3. CASE ~GetKnock(c)
  <2>1. Holds(cpu[c])
    BY <1>3, Zenon DEF Probe, Complete, CompareLen, ComparePorts, Allow, ReadLen, WritePort, WriteLen, At, Holds
  <2>2. PICK y : /\ Moved(c, y)
                 /\ \/ y = Idle
                    \/ Holds(y) /\ y.ptr = cpu[c].ptr /\ y.src = cpu[c].src
    <3>1. CASE Complete(c)
      BY <1>0, <3>1, CompleteIs, Zenon DEF Became, Holds
    <3>2. CASE CompareLen(c)
      BY <1>0, <3>2, LenIs, Zenon DEF Compared, Became, Holds
    <3>3. CASE ComparePorts(c)
      BY <1>0, <3>3, PortsIs, Zenon DEF Compared, Became, Holds
    <3>4. CASE Allow(c) \/ WriteLen(c)
      BY <1>0, <3>4, AllowIs, WriteLenIs, Zenon
    <3>5. CASE ReadLen(c)
      BY <1>0, <3>5, ReadLenIs, Zenon DEF Became, Holds
    <3>6. CASE WritePort(c)
      BY <1>0, <3>6, WritePortIs, Zenon DEF Became, Holds
    <3> QED
      BY <1>3, <3>1, <3>2, <3>3, <3>4, <3>5, <3>6, Zenon DEF Probe
  <2>3. y.pc # "set" /\ (~Holds(y) => y.ptr = 0)
    BY <2>2, IdleIs, Zenon DEF Holds
  <2> QED
    BY <1>0, <1>1, <2>1, <2>2, <2>3, IdleIs, MixStep, Zenon
<1> QED
  BY <1>2, <1>3, Zenon

\* Nothing is mixed at first.
LEMMA InitMix == Init => MixInv
<1> SUFFICES ASSUME Init PROVE MixInv
  BY Zenon
<1>1. KnockBase
  BY InitBase, Zenon
<1>2. \A c \in CPUs : cpu[c] = Idle
  BY Zenon DEF Init
<1>3. mixed = {}
  BY Zenon DEF Init
<1>4. \A c \in CPUs : Mixes(c)
  BY <1>2, IdleIs, Zenon DEF Mixes
<1>5. Pairs
  BY <1>2, <1>3, IdleIs, Zenon DEF Pairs
<1> QED
  BY <1>1, <1>4, <1>5, Zenon DEF MixInv

\* Every step mixes no sources but those it records.
LEMMA MixNext == MixInv /\ [Next]_vars => MixInv'
<1> SUFFICES ASSUME MixInv, [Next]_vars PROVE MixInv'
  BY Zenon
<1>0. KnockBase /\ KnockBase'
  BY BaseNext, Zenon DEF MixInv
<1>1. CASE Configure \/ UNCHANGED vars
  BY <1>0, <1>1, ConfigureIs, MixSame, Zenon
<1>2. ASSUME NEW c \in CPUs, Arrive(c) PROVE MixInv'
  <2>1. UNCHANGED <<table, spare, mixed>>
    BY <1>0, <1>2, ArriveIs, Zenon
  <2>2. CASE cpu' = cpu
    BY <1>0, <2>1, <2>2, MixSame, Zenon
  <2>3. CASE cpu' # cpu
    <3>0. ~UNCHANGED <<cpu, knocked, alone>>
      BY <2>3, Zenon
    <3>1. PICK s \in Sources, p \in Ports \cup {Target}, y \in CpuStates :
            /\ Moved(c, y) /\ y.pc = (IF table[s] = 0 THEN "set" ELSE "complete") /\ y.src = s /\ y.ptr = table[s]
      BY <1>0, <1>2, <3>0, ArriveIs
    <3>2. CASE table[s] = 0
      <4>1. ~Holds(y) /\ y.ptr = 0 /\ table[y.src] = 0
        BY <3>1, <3>2, Zenon DEF Holds
      <4> QED
        BY <1>0, <2>1, <3>1, <4>1, MixStep, Zenon
    <3>3. CASE table[s] # 0
      <4>1. Holds(y) /\ y.src \in Sources /\ table[y.src] # 0 /\ y.ptr = table[y.src] /\ y.pc # "set"
        BY <3>1, <3>3, Zenon DEF Holds
      <4> QED
        BY <1>0, <2>1, <3>1, <4>1, MixStep, Zenon
    <3> QED
      BY <3>2, <3>3, Zenon
  <2> QED
    BY <2>2, <2>3, Zenon
<1>3. ASSUME NEW c \in CPUs, Probe(c) PROVE MixInv'
  BY <1>3, MixSet, MixProbe, Zenon
<1> QED
  BY <1>1, <1>2, <1>3, Zenon DEF Next

-----------------------------------------------------------------------------
(* Packets of a source on several CPUs at once                             *)

\* An element holds nothing but knocks ks of its source, and is complete only
\* if the source was notified.
Mine(k, ks, a) ==
  /\ \A i \in 1 .. MAX_SEQ_LEN : k.ports[i] # 0 => k.ports[i] \in RangeOf(ks)
  /\ k.complete = TRUE => a > 0

Knew(ks) == RangeOf(TargetSeq) \subseteq RangeOf(ks)

\* What a CPU that handles a packet of a source that is not mixed relies on.
Shared(c) ==
  /\ Holds(cpu[c]) => Mine(mem[cpu[c].ptr], knocked[cpu[c].src], allowed[cpu[c].src])
  /\ cpu[c].port \in Ports => cpu[c].port \in RangeOf(knocked[cpu[c].src])
  /\ cpu[c].pc = "allow" => Knew(knocked[cpu[c].src])

\* What a source that is not mixed may rely on.
Owned(s) ==
  /\ table[s] # 0 => Mine(mem[table[s]], knocked[s], allowed[s])
  /\ allowed[s] > 0 => Knew(knocked[s])
  /\ configured /\ s \in entered => allowed[s] > 0 \/ (table[s] = 0 /\ FreeElems = {})

ParallelInv ==
  /\ KnockBase
  /\ \A c \in CPUs : cpu[c].src \notin mixed => Shared(c)
  /\ \A s \in Sources \ mixed : Owned(s)

\* An element stays right when its source knocks once more.
LEMMA MineGrows ==
  ASSUME NEW k, NEW ks, NEW kn, NEW a \in Nat, NEW b \in Nat, Mine(k, ks, a),
         RangeOf(ks) \subseteq RangeOf(kn), b >= a
  PROVE  Mine(k, kn, b)
  BY DEF Mine

\* One more knock adds its port.
LEMMA RangeAppend ==
  ASSUME NEW ks \in Seq(Ports), NEW p \in Ports
  PROVE  RangeOf(ks) \subseteq RangeOf(Append(ks, p)) /\ p \in RangeOf(Append(ks, p))
<1>1. Len(ks) \in Nat /\ DOMAIN ks = 1 .. Len(ks) /\ DOMAIN Append(ks, p) = 1 .. Len(ks) + 1
  OBVIOUS
<1>2. Append(ks, p)[Len(ks) + 1] = p /\ \A i \in 1 .. Len(ks) : Append(ks, p)[i] = ks[i]
  OBVIOUS
<1> QED
  BY <1>1, <1>2 DEF RangeOf

\* CPUs that share an element handle packets of one source.
LEMMA SameSource ==
  ASSUME NEW c \in CPUs, NEW d \in CPUs, Mixes(c), Holds(cpu[c]), Holds(cpu[d]),
         cpu[d].ptr = cpu[c].ptr, cpu[d].src \notin mixed
  PROVE  cpu[d].src = cpu[c].src
  BY Zenon DEF Mixes, Mixed

\* A pointer to the element of a source is held for that source.
LEMMA OwnElement ==
  ASSUME NEW c \in CPUs, NEW s \in Sources \ mixed, Mixes(c), Holds(cpu[c]), cpu[c].ptr = table[s]
  PROVE  cpu[c].src = s
  BY Zenon DEF Mixes, Mixed

\* The types of what belongs to a source.
LEMMA ElementIs ==
  ASSUME KnockBase, NEW s \in Sources
  PROVE  /\ knocked[s] \in Seq(Ports) /\ allowed[s] \in Nat
         /\ table[s] # 0 => table[s] \in Elems /\ mem[table[s]] \in Knocks
  BY Zenon DEF KnockBase, KnockTypes

\* A CPU, from what its place has become.
LEMMA SharedNext ==
  ASSUME NEW c \in CPUs, NEW y, cpu'[c] = y,
         Holds(y) => Mine(mem'[y.ptr], knocked'[y.src], allowed'[y.src]),
         y.port \in Ports => y.port \in RangeOf(knocked'[y.src]),
         y.pc = "allow" => Knew(knocked'[y.src])
  PROVE  Shared(c)'
<1>1. (Holds(cpu[c]) => Mine(mem[cpu[c].ptr], knocked[cpu[c].src], allowed[cpu[c].src]))'
  BY Zenon DEF Mine, RangeOf, Holds
<1>2. (cpu[c].port \in Ports => cpu[c].port \in RangeOf(knocked[cpu[c].src]))'
  BY Zenon DEF RangeOf
<1>3. (cpu[c].pc = "allow" => Knew(knocked[cpu[c].src]))'
  BY Zenon DEF Knew, RangeOf
<1> QED
  BY <1>1, <1>2, <1>3, Zenon DEF Shared

\* A source, from what its element has become.
LEMMA OwnedNext ==
  ASSUME NEW s \in Sources,
         table'[s] # 0 => Mine(mem'[table'[s]], knocked'[s], allowed'[s]),
         allowed'[s] > 0 => Knew(knocked'[s]),
         configured' /\ s \in entered' => allowed'[s] > 0 \/ (table'[s] = 0 /\ FreeElems' = {})
  PROVE  Owned(s)'
<1>1. (table[s] # 0 => Mine(mem[table[s]], knocked[s], allowed[s]))'
  BY Zenon DEF Mine, RangeOf
<1>2. (allowed[s] > 0 => Knew(knocked[s]))'
  BY Zenon DEF Knew, RangeOf
<1> QED
  BY <1>1, <1>2, Zenon DEF Owned

\* A step that touches no element keeps the invariant.
LEMMA ParallelSame ==
  ASSUME ParallelInv, KnockBase', FreeElems' = FreeElems,
         UNCHANGED <<table, mem, spare, mixed, cpu, knocked, allowed>>,
         (entered' = entered /\ configured' = configured) \/ entered' = {} \/ (~configured /\ configured' = configured)
  PROVE  ParallelInv'
<1>1. ASSUME NEW c \in CPUs, cpu[c].src \notin mixed PROVE Shared(c)'
  <2>1. PICK y : y = cpu[c]
    BY Zenon
  <2>2. Shared(c)
    BY <1>1, Zenon DEF ParallelInv
  <2>3. Holds(y) => Mine(mem[y.ptr], knocked[y.src], allowed[y.src])
    BY <2>1, <2>2, Zenon DEF Shared
  <2>4. /\ y.port \in Ports => y.port \in RangeOf(knocked[y.src])
        /\ y.pc = "allow" => Knew(knocked[y.src])
    BY <2>1, <2>2, Zenon DEF Shared
  <2>6. /\ mem'[y.ptr] = mem[y.ptr] /\ knocked'[y.src] = knocked[y.src]
        /\ allowed'[y.src] = allowed[y.src] /\ cpu'[c] = y
    BY <2>1, Zenon
  <2> QED
    BY <2>3, <2>4, <2>6, SharedNext, Zenon
<1>2. ASSUME NEW s \in Sources \ mixed PROVE Owned(s)'
  <2>1. Owned(s)
    BY Zenon DEF ParallelInv
  <2>2. /\ table'[s] # 0 => Mine(mem'[table'[s]], knocked'[s], allowed'[s])
        /\ allowed'[s] > 0 => Knew(knocked'[s])
    BY <2>1, Zenon DEF Owned
  <2>3. configured' /\ s \in entered' => configured /\ s \in entered
    BY Zenon
  <2>4. configured' /\ s \in entered' => allowed'[s] > 0 \/ (table'[s] = 0 /\ FreeElems' = {})
    BY <2>1, <2>3, Zenon DEF Owned
  <2> QED
    BY <2>2, <2>4, OwnedNext, Zenon
<1> QED
  BY <1>1, <1>2, Zenon DEF ParallelInv

\* A step that leaves the table alone and follows the arrival of a packet.
LEMMA ParallelStep ==
  ASSUME ParallelInv, MixInv, KnockBase', NEW c \in CPUs, NEW y, Moved(c, y),
         cpu[c].pc \notin {"idle", "set"}, UNCHANGED <<configured, table, spare, mixed, knocked>>,
         FreeElems' = FreeElems,
         allowed' = allowed \/ (allowed' = [allowed EXCEPT ![cpu[c].src] = @ + 1] /\ cpu[c].pc = "allow"),
         \/ mem' = mem
         \/ /\ Holds(cpu[c])
            /\ \E k : /\ Wrote(cpu[c].ptr, k)
                      /\ cpu[c].src \notin mixed => Mine(k, knocked[cpu[c].src], allowed'[cpu[c].src]),
         \/ y = Idle
         \/ /\ y.src = cpu[c].src /\ y.port = cpu[c].port /\ y.pc # "set"
            /\ (Holds(cpu[c]) /\ y.ptr = cpu[c].ptr) \/ (table[cpu[c].src] # 0 /\ y.ptr = table[cpu[c].src]),
         y.pc = "allow" /\ cpu[c].src \notin mixed => Knew(knocked[cpu[c].src]),
         entered' \in {entered, entered \cup {cpu[c].src}},
         cpu[c].src \in entered' =>
           \/ cpu[c].src \in entered \/ cpu[c].src \in mixed \/ allowed'[cpu[c].src] > 0
           \/ (table[cpu[c].src] = 0 /\ FreeElems = {})
  PROVE  ParallelInv'
<1>0. /\ KnockBase /\ KnockTypes /\ Underway(cpu[c]) /\ (\A d \in CPUs : Mixes(d))
      /\ (\A d \in CPUs : cpu[d].src \notin mixed => Shared(d)) /\ (\A s \in Sources \ mixed : Owned(s))
  BY Zenon DEF ParallelInv, KnockBase, MixInv
<1>1. PICK t : t = cpu[c].src
  BY Zenon
<1>2. t \in Sources
  BY <1>0, <1>1, ZenonT(30) DEF Underway
<1>3. ASSUME NEW s \in Sources
      PROVE  /\ allowed[s] \in Nat /\ allowed'[s] \in Nat /\ allowed'[s] >= allowed[s]
             /\ s # t => allowed'[s] = allowed[s]
  BY SMTT(20), <1>0, <1>1, <1>2 DEF KnockTypes
\* What the elements hold stays theirs.
<1>4. ASSUME NEW s \in Sources \ mixed, NEW e \in Elems, Mine(mem[e], knocked[s], allowed[s]),
             Holds(cpu[c]) /\ e = cpu[c].ptr => s = t
      PROVE  Mine(mem'[e], knocked[s], allowed'[s])
  <2>1. CASE mem'[e] = mem[e]
    BY <1>3, <1>4, <2>1, MineGrows, Zenon
  <2>2. CASE mem'[e] # mem[e]
    <3>1. PICK k : /\ Wrote(cpu[c].ptr, k) /\ (t \notin mixed => Mine(k, knocked[t], allowed'[t]))
                   /\ Holds(cpu[c])
      BY <1>1, <2>2, Zenon
    <3>2. e = cpu[c].ptr /\ mem'[e] = k
      BY <2>2, <3>1, Zenon DEF Wrote
    <3> QED
      BY <1>4, <3>1, <3>2, Zenon
  <2> QED
    BY <2>1, <2>2, Zenon
<1>5. ASSUME NEW s \in Sources \ mixed PROVE Owned(s)'
  <2>1. Owned(s)
    BY <1>0, Zenon
  <2>2. table[s] # 0 => Mine(mem'[table[s]], knocked[s], allowed'[s])
    <3>1. SUFFICES ASSUME table[s] # 0 PROVE Mine(mem'[table[s]], knocked[s], allowed'[s])
      BY Zenon
    <3>2. table[s] \in Elems /\ Mine(mem[table[s]], knocked[s], allowed[s])
      BY <1>0, <2>1, <3>1, ElementIs, Zenon DEF Owned
    <3>3. Holds(cpu[c]) /\ table[s] = cpu[c].ptr => s = t
      BY <1>0, <1>1, OwnElement, Zenon
    <3> QED
      BY <1>4, <3>2, <3>3, Zenon
  <2>3. allowed'[s] > 0 => Knew(knocked[s])
    <3>1. CASE allowed' = allowed
      BY <2>1, <3>1, Zenon DEF Owned
    <3>2. CASE allowed' # allowed
      <4>1. cpu[c].pc = "allow" /\ (t \notin mixed => Knew(knocked[t]))
        BY <1>0, <1>1, <3>2, ZenonT(30) DEF Shared
      <4> QED
        BY <1>3, <2>1, <4>1, Zenon DEF Owned
    <3> QED
      BY <3>1, <3>2, Zenon
  <2>4. configured /\ s \in entered' => allowed'[s] > 0 \/ (table[s] = 0 /\ FreeElems = {})
    BY SMTT(20), <1>1, <1>3, <2>1 DEF Owned
  <2> QED
    BY <2>2, <2>3, <2>4, OwnedNext, Zenon
<1>6. ASSUME cpu'[c].src \notin mixed PROVE Shared(c)'
  <2>1. CASE y = Idle
    <3>1. cpu'[c] = Idle /\ ~Holds(Idle) /\ Idle.port \notin Ports /\ Idle.pc # "allow"
      BY <2>1, IdleIs, KnockFacts, Zenon DEF Moved
    <3> QED
      BY <3>1, SharedNext, Zenon
  <2>2. CASE y # Idle
    <3>1. /\ cpu'[c] = y /\ y.src = t /\ y.port = cpu[c].port /\ y.pc # "set" /\ Shared(c)
          /\ t \in Sources \ mixed
      BY <1>0, <1>1, <1>2, <1>6, <2>2, Zenon DEF Moved
    <3>2. Holds(y) => Mine(mem'[y.ptr], knocked[t], allowed'[t])
      <4>1. CASE Holds(cpu[c]) /\ y.ptr = cpu[c].ptr
        <5>1. y.ptr \in Elems /\ Mine(mem[y.ptr], knocked[t], allowed[t])
          BY <1>0, <1>1, <3>1, <4>1, HolderIs, ZenonT(30) DEF Shared
        <5> QED
          BY <1>4, <3>1, <5>1, Zenon
      <4>2. CASE table[t] # 0 /\ y.ptr = table[t]
        <5>1. y.ptr \in Elems /\ Mine(mem[y.ptr], knocked[t], allowed[t])
          BY <1>0, <3>1, <4>2, ElementIs, Zenon DEF Owned
        <5> QED
          BY <1>4, <3>1, <5>1, Zenon
      <4> QED
        BY <1>1, <2>2, <4>1, <4>2, Zenon
    <3>4. y.port \in Ports => y.port \in RangeOf(knocked[t])
      BY <1>1, <3>1, Zenon DEF Shared
    <3>5. y.pc = "allow" => Knew(knocked[t])
      BY <1>1, <3>1, Zenon
    <3>6. knocked' = knocked
      BY Zenon
    <3> QED
      BY <3>1, <3>2, <3>4, <3>5, <3>6, SharedNext, ZenonT(30)
  <2> QED
    BY <2>1, <2>2, Zenon
<1>7. ASSUME NEW d \in CPUs, d # c, cpu'[d].src \notin mixed PROVE Shared(d)'
  <2>1. cpu'[d] = cpu[d] /\ Shared(d) /\ Underway(cpu[d]) /\ cpu[d].src \notin mixed
    BY <1>0, <1>7, Zenon DEF Moved, KnockBase
  <2>2. Holds(cpu[d]) => Mine(mem'[cpu[d].ptr], knocked[cpu[d].src], allowed'[cpu[d].src])
    <3>1. SUFFICES ASSUME Holds(cpu[d])
                   PROVE Mine(mem'[cpu[d].ptr], knocked[cpu[d].src], allowed'[cpu[d].src])
      BY Zenon
    <3>2. /\ cpu[d].src \in Sources \ mixed /\ cpu[d].ptr \in Elems
          /\ Mine(mem[cpu[d].ptr], knocked[cpu[d].src], allowed[cpu[d].src])
      BY <1>0, <2>1, <3>1, HolderIs, Zenon DEF Shared
    <3>3. Holds(cpu[c]) /\ cpu[d].ptr = cpu[c].ptr => cpu[d].src = t
      BY <1>0, <1>1, <1>7, <2>1, <3>1, SameSource, ZenonT(30)
    <3> QED
      BY <1>4, <3>2, <3>3, Zenon
  <2>4. /\ cpu[d].port \in Ports => cpu[d].port \in RangeOf(knocked[cpu[d].src])
        /\ cpu[d].pc = "allow" => Knew(knocked[cpu[d].src])
    BY <2>1, Zenon DEF Shared
  <2> QED
    BY <2>1, <2>2, <2>4, SharedNext, ZenonT(30)
<1> QED
  BY <1>5, <1>6, <1>7, Zenon DEF ParallelInv

\* An arrival keeps the invariant.
LEMMA ParallelArrive ==
  ASSUME ParallelInv, NEW c \in CPUs, Arrive(c)
  PROVE  ParallelInv'
<1>0. KnockBase /\ (\A d \in CPUs : cpu[d].src \notin mixed => Shared(d)) /\ (\A s \in Sources \ mixed : Owned(s))
  BY Zenon DEF ParallelInv
<1>1. /\ KnockBase' /\ FreeElems' = FreeElems
      /\ UNCHANGED <<configured, table, mem, spare, mixed, allowed, blocked>>
      /\ ~configured \/ entered' = entered
  BY <1>0, ArriveIs, Zenon
<1>2. CASE UNCHANGED <<cpu, knocked, alone>>
  BY <1>1, <1>2, ParallelSame, Zenon
<1>3. CASE ~UNCHANGED <<cpu, knocked, alone>>
  <2>1. PICK t \in Sources, p \in Ports \cup {Target}, y \in CpuStates :
          /\ Moved(c, y) /\ cpu[c] = Idle
          /\ y.pc = (IF table[t] = 0 THEN "set" ELSE "complete") /\ y.src = t /\ y.port = p
          /\ y.ptr = table[t]
          /\ knocked' = IF p = Target THEN knocked ELSE [knocked EXCEPT ![t] = Append(@, p)]
    BY <1>0, <1>3, ArriveIs
  <2>2. ASSUME NEW s \in Sources
        PROVE  RangeOf(knocked[s]) \subseteq RangeOf(knocked'[s]) /\ allowed[s] \in Nat
    <3>1. knocked[s] \in Seq(Ports) /\ allowed[s] \in Nat /\ knocked \in [Sources -> Seq(Ports)]
      BY <1>0, ElementIs, Zenon DEF KnockBase, KnockTypes
    <3>2. knocked'[s] = knocked[s] \/ (p \in Ports /\ knocked'[s] = Append(knocked[s], p))
      BY <2>1, <3>1, Zenon
    <3> QED
      BY <3>1, <3>2, RangeAppend, Zenon
  <2>3. ASSUME NEW s \in Sources, NEW k, Mine(k, knocked[s], allowed[s])
        PROVE  Mine(k, knocked'[s], allowed[s])
    BY SMTT(20), <2>2, <2>3, MineGrows
  <2>4. ASSUME NEW s \in Sources, Knew(knocked[s]) PROVE Knew(knocked'[s])
    BY <2>2, <2>4, Zenon DEF Knew
  <2>5. p \in Ports => p \in RangeOf(knocked'[t])
    <3>1. knocked[t] \in Seq(Ports) /\ knocked \in [Sources -> Seq(Ports)]
      BY <1>0, Zenon DEF KnockBase, KnockTypes
    <3>2. p \in Ports => knocked'[t] = Append(knocked[t], p)
      BY <2>1, <3>1, KnockFacts, Zenon
    <3> QED
      BY <3>1, <3>2, RangeAppend, Zenon
  <2>6. ASSUME NEW s \in Sources \ mixed PROVE Owned(s)'
    <3>1. table[s] # 0 => Mine(mem[table[s]], knocked'[s], allowed[s])
      BY <1>0, <2>3, Zenon DEF Owned
    <3>2. allowed[s] > 0 => Knew(knocked'[s])
      BY <1>0, <2>4, Zenon DEF Owned
    <3>3. configured /\ s \in entered' => allowed[s] > 0 \/ (table[s] = 0 /\ FreeElems = {})
      BY <1>0, <1>1, Zenon DEF Owned
    <3> QED
      BY <1>1, <3>1, <3>2, <3>3, OwnedNext, Zenon
  <2>7. ASSUME t \notin mixed PROVE Shared(c)'
    <3>1. Holds(y) => y.ptr = table[t] /\ table[t] # 0
      BY <2>1, Zenon DEF Holds
    <3>3. Holds(y) => Mine(mem[y.ptr], knocked'[t], allowed[t])
      BY <1>0, <2>3, <2>7, <3>1, Zenon DEF Owned
    <3>4. cpu'[c] = y /\ y.src = t /\ y.port = p /\ y.pc # "allow"
      BY <2>1, Zenon DEF Moved
    <3> QED
      BY <1>1, <2>5, <3>3, <3>4, SharedNext, Zenon
  <2>8. ASSUME NEW d \in CPUs, d # c, cpu'[d].src \notin mixed PROVE Shared(d)'
    <3>1. cpu'[d] = cpu[d] /\ Shared(d) /\ Underway(cpu[d])
      BY <1>0, <2>1, <2>8, Zenon DEF Moved, KnockBase
    <3>3. Holds(cpu[d]) => Mine(mem[cpu[d].ptr], knocked'[cpu[d].src], allowed[cpu[d].src])
      BY <1>0, <2>3, <3>1, HolderIs, Zenon DEF Shared
    <3>4. cpu[d].port \in Ports => cpu[d].port \in RangeOf(knocked'[cpu[d].src])
      BY <2>2, <3>1, IdleIs, KnockFacts, Zenon DEF Shared, Underway
    <3>5. cpu[d].pc = "allow" => Knew(knocked'[cpu[d].src])
      BY <2>4, <3>1, Zenon DEF Shared, Underway
    <3> QED
      BY <1>1, <3>1, <3>3, <3>4, <3>5, SharedNext, ZenonT(30)
  <2>9. cpu'[c].src = t
    BY <2>1, Zenon DEF Moved
  <2> QED
    BY <1>1, <2>6, <2>7, <2>8, <2>9, ZenonT(30) DEF ParallelInv
<1> QED
  BY <1>2, <1>3, Zenon

\* A new element has only ports its source knocked on: none.
LEMMA MineNew ==
  ASSUME NEW ks, NEW a
  PROVE  Mine(NewKnock, ks, a)
  BY NewKnockIs, Zenon DEF Mine

\* A replacement or an insertion keeps it: a new element has no ports.
LEMMA ParallelSet ==
  ASSUME ParallelInv, NEW c \in CPUs, SetKnock(c)
  PROVE  ParallelInv'
<1>0. /\ KnockBase /\ KnockApart /\ (\A d \in CPUs : cpu[d].src \notin mixed => Shared(d))
      /\ (\A s \in Sources \ mixed : Owned(s))
  BY Zenon DEF ParallelInv, KnockBase
<1>1. /\ cpu[c].pc = "set" /\ UNCHANGED <<knocked, allowed, entered>>
      /\ cpu[c].src \in Sources /\ KnockBase' /\ FreeElems' \subseteq FreeElems
  BY <1>0, SetChanges, SetUses, SetIs, Zenon
<1>9. configured' = configured /\ mixed \subseteq mixed'
  BY SetMixes, Zenon DEF SetKnock
<1>2. PICK t : t = cpu[c].src
  BY Zenon
<1>3. PICK y : Moved(c, y) /\ y.pc = "get" /\ y.src = t /\ y.port = cpu[c].port
  BY <1>0, <1>2, SetChanges, Zenon DEF Became
<1>4. \/ Replaced(c, t) \/ Inserted(t)
      \/ table[t] = 0 /\ FreeElems = {} /\ UNCHANGED <<mem, table, spare>>
  BY <1>0, <1>2, SetChanges, Zenon
\* A used element changes only if it was the spare one of the CPU.
<1>5. ASSUME NEW e \in Elems, e \notin FreeElems
      PROVE  mem'[e] = mem[e] \/ (mem'[e] = NewKnock /\ e = spare[c])
  BY <1>4, <1>5, Zenon DEF Replaced, Inserted, Wrote
<1>6. ASSUME NEW s \in Sources \ mixed' PROVE Owned(s)'
  <2>1. Owned(s)
    BY <1>0, <1>9, Zenon
  <2>2. table'[s] # 0 => Mine(mem'[table'[s]], knocked[s], allowed[s])
    <3>1. CASE table'[s] = table[s]
      <4>1. SUFFICES ASSUME table[s] # 0 PROVE Mine(mem'[table[s]], knocked[s], allowed[s])
        BY <3>1, Zenon
      <4>2. table[s] \in Elems /\ table[s] \notin FreeElems /\ table[s] # spare[c]
        BY <1>0, <4>1, ElementIs, Zenon DEF KnockApart, FreeElems
      <4> QED
        BY <1>5, <2>1, <4>1, <4>2, Zenon DEF Owned
    <3>2. CASE table'[s] # table[s]
      <4>1. mem'[table'[s]] = NewKnock
        BY <1>1, <1>2, <1>4, <3>2, Zenon DEF Replaced, Inserted, Wrote
      <4> QED
        BY <4>1, MineNew, Zenon
    <3> QED
      BY <3>1, <3>2, Zenon
  <2>3. configured /\ s \in entered => allowed[s] > 0 \/ (table'[s] = 0 /\ FreeElems' = {})
    BY <1>1, <1>2, <1>4, <2>1, Zenon DEF Owned, Replaced, Inserted
  <2>4. allowed[s] > 0 => Knew(knocked[s])
    BY <2>1, Zenon DEF Owned
  <2> QED
    BY <1>1, <1>9, <2>2, <2>3, <2>4, OwnedNext, Zenon
<1>7. ASSUME cpu'[c].src \notin mixed' PROVE Shared(c)'
  <2>1. cpu'[c] = y /\ ~Holds(y) /\ y.pc # "allow"
    BY <1>3, Zenon DEF Moved, Holds
  <2>2. y.port \in Ports => y.port \in RangeOf(knocked'[y.src])
    BY <1>0, <1>1, <1>2, <1>3, <1>7, <1>9, <2>1, Zenon DEF Shared
  <2> QED
    BY <2>1, <2>2, SharedNext, Zenon
<1>8. ASSUME NEW d \in CPUs, d # c, cpu'[d].src \notin mixed' PROVE Shared(d)'
  <2>1. cpu'[d] = cpu[d] /\ Shared(d) /\ Underway(cpu[d])
    BY <1>0, <1>3, <1>8, <1>9, Zenon DEF Moved, KnockBase
  <2>2. ASSUME Holds(cpu[d])
        PROVE  Mine(mem'[cpu[d].ptr], knocked[cpu[d].src], allowed[cpu[d].src])
    <3>1. /\ cpu[d].src \in Sources /\ cpu[d].ptr \in Elems /\ cpu[d].ptr \notin FreeElems
          /\ Mine(mem[cpu[d].ptr], knocked[cpu[d].src], allowed[cpu[d].src])
      BY <1>0, <2>1, <2>2, HolderIs, FreeIs, Zenon DEF Shared, Underway
    <3> QED
      BY <1>5, <3>1, MineNew, Zenon
  <2>3. /\ cpu[d].port \in Ports => cpu[d].port \in RangeOf(knocked[cpu[d].src])
        /\ cpu[d].pc = "allow" => Knew(knocked[cpu[d].src])
    BY <2>1, Zenon DEF Shared
  <2> QED
    BY <1>1, <2>1, <2>2, <2>3, SharedNext, Zenon
<1> QED
  BY <1>1, <1>6, <1>7, <1>8, ZenonT(30) DEF ParallelInv

\* What the CPU may know of an element it has a pointer to.
LEMMA HeldIs ==
  ASSUME ParallelInv, NEW c \in CPUs, Holds(cpu[c])
  PROVE  /\ KnockBase /\ Underway(cpu[c]) /\ cpu[c].src \in Sources /\ cpu[c].ptr \in Elems
         /\ cpu[c].pc \notin {"idle", "set"} /\ allowed[cpu[c].src] \in Nat
         /\ cpu[c].src \notin mixed =>
              Shared(c) /\ Mine(mem[cpu[c].ptr], knocked[cpu[c].src], allowed[cpu[c].src])
<1>1. KnockBase /\ (cpu[c].src \notin mixed => Shared(c))
  BY Zenon DEF ParallelInv
<1>2. cpu[c].src \in Sources /\ Underway(cpu[c]) /\ cpu[c].ptr \in Elems
  BY <1>1, HolderIs, Zenon
<1> QED
  BY <1>1, <1>2, ElementIs, Zenon DEF Shared, Holds

\* The lookup keeps it.
LEMMA ParallelGet ==
  ASSUME ParallelInv, MixInv, UNCHANGED <<configured, mixed>>, NEW c \in CPUs, GetKnock(c)
  PROVE  ParallelInv'
<1>1. KnockBase
  BY Zenon DEF ParallelInv
<1>2. /\ KnockBase' /\ FreeElems' = FreeElems /\ cpu[c].pc = "get"
      /\ UNCHANGED <<table, mem, spare, knocked, allowed>>
  BY <1>1, GetIs, Zenon
<1>3. CASE table[cpu[c].src] = 0
  <2>1. /\ FreeElems = {} /\ Moved(c, Idle) /\ entered' \in {entered, entered \cup {cpu[c].src}}
    BY <1>1, <1>3, GetIs, Zenon
  <2> QED
    BY <1>2, <1>3, <2>1, IdleIs, ParallelStep, Zenon
<1>4. CASE table[cpu[c].src] # 0
  <2>1. PICK y : /\ Moved(c, y) /\ y.src = cpu[c].src /\ y.port = cpu[c].port
                 /\ y.ptr = table[cpu[c].src] /\ y.pc = "complete" /\ entered' = entered
    BY <1>1, <1>4, GetIs, Zenon DEF Became
  <2> QED
    BY <1>2, <1>4, <2>1, ParallelStep, Zenon
<1> QED
  BY <1>3, <1>4, Zenon

\* The test of complete keeps it.
LEMMA ParallelComplete ==
  ASSUME ParallelInv, MixInv, UNCHANGED <<configured, mixed>>, NEW c \in CPUs, Complete(c)
  PROVE  ParallelInv'
<1>1. KnockBase
  BY Zenon DEF ParallelInv
<1>2. /\ KnockBase' /\ FreeElems' = FreeElems /\ cpu[c].pc = "complete" /\ Holds(cpu[c])
      /\ UNCHANGED <<table, mem, spare, knocked, allowed>>
  BY <1>1, CompleteIs, Zenon DEF Holds
<1>3. CASE mem[cpu[c].ptr].complete = TRUE
  <2>1. Moved(c, Idle) /\ entered' \in {entered, entered \cup {cpu[c].src}}
    BY <1>1, <1>3, CompleteIs, Zenon
  <2>2. cpu[c].src \in mixed \/ allowed[cpu[c].src] > 0
    BY <1>2, <1>3, HeldIs, Zenon DEF Mine
  <2> QED
    BY <1>2, <2>1, <2>2, IdleIs, ParallelStep, Zenon
<1>4. CASE mem[cpu[c].ptr].complete # TRUE
  <2>1. PICK y : /\ Moved(c, y) /\ y.src = cpu[c].src /\ y.port = cpu[c].port
                 /\ y.ptr = cpu[c].ptr /\ y.pc \in {"len", "knock"} /\ entered' = entered
    BY <1>1, <1>4, CompleteIs, Zenon DEF Became
  <2> QED
    BY <1>2, <2>1, ParallelStep, Zenon
<1> QED
  BY <1>3, <1>4, Zenon

\* A comparison keeps it, if what it sends on knew the ports.
LEMMA ParallelCompare ==
  ASSUME ParallelInv, MixInv, UNCHANGED <<configured, mixed>>, NEW c \in CPUs, KnockBase', FreeElems' = FreeElems, Holds(cpu[c]),
         NEW q \in {"ports", "allow"}, Compared(c, q),
         UNCHANGED <<table, mem, spare, knocked, alone, allowed, entered>>,
         cpu'[c] # Idle /\ q = "allow" /\ cpu[c].src \notin mixed => Knew(knocked[cpu[c].src])
  PROVE  ParallelInv'
<1>1. PICK y : /\ Moved(c, y) /\ y = cpu'[c]
               /\ \/ y = Idle
                  \/ y.src = cpu[c].src /\ y.port = cpu[c].port /\ y.ptr = cpu[c].ptr /\ y.pc = q
  BY Zenon DEF Compared, Became, Moved
<1>2. y.pc = "allow" /\ cpu[c].src \notin mixed => Knew(knocked[cpu[c].src])
  BY <1>1, IdleIs, Zenon
<1>3. cpu[c].pc \notin {"idle", "set"}
  BY Zenon DEF Holds
<1> QED
  BY <1>1, <1>2, <1>3, ParallelStep, Zenon

\* The comparison of the length keeps it.
LEMMA ParallelLen ==
  ASSUME ParallelInv, MixInv, UNCHANGED <<configured, mixed>>, NEW c \in CPUs, CompareLen(c)
  PROVE  ParallelInv'
<1>1. KnockBase
  BY Zenon DEF ParallelInv
<1> QED
  BY <1>1, LenIs, ParallelCompare, Zenon

\* The comparison of the ports keeps it: the source knocked on them all.
LEMMA ParallelPorts ==
  ASSUME ParallelInv, MixInv, UNCHANGED <<configured, mixed>>, NEW c \in CPUs, ComparePorts(c)
  PROVE  ParallelInv'
<1>1. KnockBase
  BY Zenon DEF ParallelInv
<1>2. /\ KnockBase' /\ FreeElems' = FreeElems /\ Holds(cpu[c]) /\ Compared(c, "allow")
      /\ UNCHANGED <<table, mem, spare, knocked, alone, allowed, entered>>
      /\ cpu'[c] # Idle => \A i \in 1 .. Len(TargetSeq) : mem[cpu[c].ptr].ports[i] = TargetSeq[i]
  BY <1>1, PortsIs, Zenon
<1>3. cpu'[c] # Idle /\ cpu[c].src \notin mixed => Knew(knocked[cpu[c].src])
  <2>1. SUFFICES ASSUME cpu'[c] # Idle, cpu[c].src \notin mixed, NEW i \in 1 .. Len(TargetSeq)
                 PROVE TargetSeq[i] \in RangeOf(knocked[cpu[c].src])
    <3>1. DOMAIN TargetSeq = 1 .. Len(TargetSeq)
      BY KnockFacts
    <3> QED
      BY <3>1, Zenon DEF Knew, RangeOf
  <2>2. i \in 1 .. MAX_SEQ_LEN /\ TargetSeq[i] # 0
    BY <2>1, KnockFacts
  <2> QED
    BY <1>2, <2>1, <2>2, HeldIs, Zenon DEF Mine
<1> QED
  BY <1>2, <1>3, ParallelCompare, Zenon

\* The step that allows the source keeps it.
LEMMA ParallelAllow ==
  ASSUME ParallelInv, MixInv, UNCHANGED <<configured, mixed>>, NEW c \in CPUs, Allow(c)
  PROVE  ParallelInv'
<1>1. KnockBase
  BY Zenon DEF ParallelInv
<1>2. /\ KnockBase' /\ FreeElems' = FreeElems /\ Holds(cpu[c]) /\ cpu[c].pc = "allow"
      /\ UNCHANGED <<table, spare, knocked>> /\ Moved(c, Idle)
      /\ allowed' = [allowed EXCEPT ![cpu[c].src] = @ + 1]
      /\ entered' \in {entered, entered \cup {cpu[c].src}}
  BY <1>1, AllowIs, Zenon
<1>3. PICK k : Wrote(cpu[c].ptr, k) /\ k.ports = mem[cpu[c].ptr].ports
  BY <1>1, AllowIs, ZenonT(30)
<1>4. allowed'[cpu[c].src] > 0
  BY SMTT(20), <1>1, <1>2, HeldIs DEF KnockBase, KnockTypes
<1>5. cpu[c].src \notin mixed => Mine(k, knocked[cpu[c].src], allowed'[cpu[c].src])
  BY <1>2, <1>3, <1>4, HeldIs, Zenon DEF Mine
<1> QED
  BY <1>2, <1>3, <1>4, <1>5, IdleIs, ParallelStep, ZenonT(30)

\* The read of the length keeps it.
LEMMA ParallelReadLen ==
  ASSUME ParallelInv, MixInv, UNCHANGED <<configured, mixed>>, NEW c \in CPUs, ReadLen(c)
  PROVE  ParallelInv'
<1>1. KnockBase
  BY Zenon DEF ParallelInv
<1>2. /\ KnockBase' /\ FreeElems' = FreeElems /\ Holds(cpu[c]) /\ cpu[c].pc = "knock"
      /\ UNCHANGED <<table, spare, knocked, allowed, entered>>
  BY <1>1, ReadLenIs, Zenon
<1>3. PICK k : /\ Wrote(cpu[c].ptr, k) /\ k.complete = mem[cpu[c].ptr].complete
               /\ k.ports = mem[cpu[c].ptr].ports
  BY <1>1, ReadLenIs, Zenon
<1>4. PICK y : /\ Moved(c, y) /\ y.pc = "port" /\ y.src = cpu[c].src /\ y.port = cpu[c].port
               /\ y.ptr = cpu[c].ptr
  BY <1>1, ReadLenIs, Zenon DEF Became
<1>5. cpu[c].src \notin mixed => Mine(k, knocked[cpu[c].src], allowed'[cpu[c].src])
  BY <1>2, <1>3, HeldIs, Zenon DEF Mine
<1> QED
  BY <1>2, <1>3, <1>4, <1>5, ParallelStep, ZenonT(30)

\* The store of the port keeps it: the source knocked on it.
LEMMA ParallelWritePort ==
  ASSUME ParallelInv, MixInv, UNCHANGED <<configured, mixed>>, NEW c \in CPUs, WritePort(c)
  PROVE  ParallelInv'
<1>1. KnockBase
  BY Zenon DEF ParallelInv
<1>2. /\ KnockBase' /\ FreeElems' = FreeElems /\ Holds(cpu[c]) /\ cpu[c].pc = "port"
      /\ UNCHANGED <<table, spare, knocked, allowed, entered>>
  BY <1>1, WritePortIs, Zenon
<1>3. PICK k : /\ Wrote(cpu[c].ptr, k) /\ k.complete = mem[cpu[c].ptr].complete
               /\ PortPut(k, mem[cpu[c].ptr], cpu[c].len + 1, cpu[c].port)
  BY <1>1, WritePortIs, Zenon
<1>4. PICK y : /\ Moved(c, y) /\ y.pc = "newlen" /\ y.src = cpu[c].src /\ y.port = cpu[c].port
               /\ y.ptr = cpu[c].ptr
  BY <1>1, WritePortIs, Zenon DEF Became
<1>5. cpu[c].port \in Ports /\ (cpu[c].src \notin mixed => cpu[c].port \in RangeOf(knocked[cpu[c].src]))
  BY <1>2, HeldIs, Zenon DEF Underway, Shared
<1>6. cpu[c].src \notin mixed => Mine(k, knocked[cpu[c].src], allowed'[cpu[c].src])
  BY <1>2, <1>3, <1>5, HeldIs, Zenon DEF Mine, PortPut
<1> QED
  BY <1>2, <1>3, <1>4, <1>6, ParallelStep, ZenonT(30)

\* The store of the length keeps it.
LEMMA ParallelWriteLen ==
  ASSUME ParallelInv, MixInv, UNCHANGED <<configured, mixed>>, NEW c \in CPUs, WriteLen(c)
  PROVE  ParallelInv'
<1>1. KnockBase
  BY Zenon DEF ParallelInv
<1>2. /\ KnockBase' /\ FreeElems' = FreeElems /\ Holds(cpu[c]) /\ cpu[c].pc = "newlen"
      /\ UNCHANGED <<table, spare, knocked, allowed, entered>> /\ Moved(c, Idle)
  BY <1>1, WriteLenIs, Zenon
<1>3. PICK k : /\ Wrote(cpu[c].ptr, k) /\ k.complete = mem[cpu[c].ptr].complete
               /\ k.ports = mem[cpu[c].ptr].ports
  BY <1>1, WriteLenIs, Zenon
<1>4. cpu[c].src \notin mixed => Mine(k, knocked[cpu[c].src], allowed'[cpu[c].src])
  BY <1>2, <1>3, HeldIs, Zenon DEF Mine
<1> QED
  BY <1>2, <1>3, <1>4, IdleIs, ParallelStep, ZenonT(30)

\* Before the first packet no pointer is held.
LEMMA InitParallel == Init => ParallelInv
<1> SUFFICES ASSUME Init PROVE ParallelInv
  BY Zenon
<1>1. KnockBase
  BY InitBase, Zenon
<1>2. ASSUME NEW c \in CPUs PROVE Shared(c)
  <2>1. cpu[c] = Idle
    BY Zenon DEF Init
  <2> QED
    BY <2>1, IdleIs, KnockFacts, Zenon DEF Shared
<1>3. ASSUME NEW s \in Sources PROVE Owned(s)
  BY DEF Init, Owned
<1> QED
  BY <1>1, <1>2, <1>3, ZenonT(30) DEF ParallelInv

\* Every step keeps it.
LEMMA ParallelNext ==
  ParallelInv /\ MixInv /\ [Next]_vars => ParallelInv'
<1> SUFFICES ASSUME ParallelInv, MixInv, [Next]_vars PROVE ParallelInv'
  BY Zenon
<1>1. CASE Configure \/ UNCHANGED vars
  <2>1. /\ KnockBase' /\ FreeElems' = FreeElems
        /\ UNCHANGED <<table, mem, spare, mixed, cpu, knocked, alone, allowed, blocked>>
        /\ (entered' = entered /\ configured' = configured) \/ entered' = {}
    BY <1>1, ConfigureIs, Zenon DEF ParallelInv
  <2> QED
    BY <2>1, ParallelSame, Zenon
<1>2. ASSUME NEW c \in CPUs, Arrive(c) PROVE ParallelInv'
  BY <1>2, ParallelArrive, Zenon
<1>3. ASSUME NEW c \in CPUs, SetKnock(c) PROVE ParallelInv'
  BY <1>3, ParallelSet, Zenon
<1>4. ASSUME NEW c \in CPUs, Probe(c), ~SetKnock(c) PROVE ParallelInv'
  <2>1. UNCHANGED <<configured, mixed>>
    BY <1>4, Zenon DEF Probe, GetKnock, Complete, CompareLen, ComparePorts, Allow, ReadLen, WritePort, WriteLen
  <2> QED
    BY ZenonT(30), <1>4, <2>1, ParallelGet, ParallelComplete, ParallelLen, ParallelPorts, ParallelAllow,
       ParallelReadLen, ParallelWritePort, ParallelWriteLen DEF Probe
<1> QED
  BY <1>1, <1>2, <1>3, <1>4, Zenon DEF Next

\* redbpf-tools tcp-knock, for any sources, packets, sequence and number of CPUs:
\* whatever the CPUs write over each other, a source is allowed, and passes to the
\* target port once there is a sequence, only after it knocked on every port of
\* the sequence, unless the map has no room for it or an element of another source
\* became its own under a pointer, for which it takes three CPUs.
THEOREM ParallelKnocks == Spec => []ParallelRight
<1>1. Init => ParallelInv /\ MixInv
  BY InitParallel, InitMix, Zenon
<1>2. ParallelInv /\ MixInv /\ [Next]_vars => (ParallelInv /\ MixInv)'
  BY ParallelNext, MixNext, Zenon
<1>3. ParallelInv /\ MixInv => ParallelRight
  <2> SUFFICES ASSUME ParallelInv, MixInv PROVE ParallelRight
    BY Zenon
  <2>1. KnockTypes /\ KnockApart /\ \A s \in Sources \ mixed : Owned(s)
    BY Zenon DEF ParallelInv, KnockBase
  <2>2. \A e \in Elems : mem[e].len \in 0 .. Len(TargetSeq)
    BY <2>1, KnockFields, Zenon DEF KnockTypes
  <2>3. \A c \in CPUs : cpu[c].len < Len(TargetSeq)
    BY <2>1, CpuFields, KnockFacts DEF KnockTypes
  <2>4. \A s \in Sources \ mixed : allowed[s] > 0 => RangeOf(TargetSeq) \subseteq RangeOf(knocked[s])
    BY <2>1, Zenon DEF Owned, Knew
  <2>5. configured => \A s \in entered \ mixed : allowed[s] > 0 \/ (table[s] = 0 /\ FreeElems = {})
    BY <2>1, Zenon DEF Owned, KnockTypes
  <2>6. mixed # {} => \E a, b, c \in CPUs : a # b /\ b # c /\ a # c
    BY Zenon DEF MixInv, Pairs, Three
  <2> QED
    BY <2>1, <2>2, <2>3, <2>4, <2>5, <2>6, Zenon DEF ParallelRight, KnockApart
<1> QED
  BY <1>1, <1>2, <1>3, PTL DEF Spec
=============================================================================
