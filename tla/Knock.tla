------------------------------- MODULE Knock -------------------------------
(***************************************************************************)
(* The port knocking tool (redbpf-tools): the XDP probe runs on every CPU  *)
(* at once and keeps one Knock per source address in a BPF hash map that   *)
(* all CPUs share; user space stores the sequence once the probe is        *)
(* attached.  One action is one access to the shared maps or to a value    *)
(* that get_mut returned a pointer to.                                     *)
(*                                                                         *)
(* The map is the kernel's preallocated hash table: set() for a key that   *)
(* exists puts another element in its place (the spare one of the CPU),    *)
(* and pointers to the old element stay valid but lead nowhere.            *)
(*                                                                         *)
(* Only SYN packets of TCP are modelled; all others pass and touch nothing.*)
(* An element that was replaced is used again for another replacement by   *)
(* the same CPU, for any source, while others may still point to it.       *)
(***************************************************************************)
EXTENDS Integers, Sequences, FiniteSets

CONSTANTS
  CPUs,         \* the CPUs the probe runs on, 1 .. n
  Sources,      \* source addresses
  Ports,        \* ports that are knocked on
  Target,       \* the port to open
  TargetSeq,    \* the ports of the knock sequence
  MAX_SEQ_LEN,  \* length of PortSequence::ports
  MaxEntries,   \* max_entries of the map knocks
  MaxPackets    \* bound: SYN packets that arrive

ASSUME KnockAssumption ==
  /\ Cardinality(CPUs) \in Nat /\ CPUs = 1 .. Cardinality(CPUs)
  /\ MaxEntries \in Nat \ {0} /\ MaxPackets \in Nat /\ MAX_SEQ_LEN \in Nat
  /\ Target \notin Ports /\ 0 \notin Ports /\ 0 \notin Sources
  /\ TargetSeq \in Seq(Ports) /\ Len(TargetSeq) \in 1 .. MAX_SEQ_LEN  \* parse_opts

VARIABLES
  configured, \* user space has stored the sequence
  table,      \* knocks: source => element, 0 if there is none
  mem,        \* the Knock in each element
  spare,      \* the element each CPU uses to replace another
  cpu,        \* what each CPU does: [pc, src, port, ptr, len]
  sent,       \* packets that arrived
  knocked,    \* ports each source has knocked on, in the order of arrival (history)
  alone,      \* packets of the source were handled one after the other (history)
  allowed,    \* notifications "allowed" sent for each source (history)
  blocked,    \* sources that were blocked after they were allowed (history)
  entered,    \* sources a SYN of which has passed to Target, with the sequence
              \* stored or, before that, without one (history)
  mixed       \* sources whose element was that of another source while a CPU that
              \* handled a packet of either had a pointer to it (history)

vars ==
  <<configured, table, mem, spare, mixed, cpu, sent, knocked, alone, allowed, blocked, entered>>
history == <<sent, knocked, alone, allowed, blocked, entered>>

Elems == 1 .. MaxEntries + Cardinality(CPUs)

\* Knock::new; 0 is no port.
NewKnock == [ports |-> [i \in 1 .. MAX_SEQ_LEN |-> 0], len |-> 0, complete |-> FALSE]

Idle == [pc |-> "idle", src |-> 0, port |-> 0, ptr |-> 0, len |-> 0]

Init ==
  /\ configured = FALSE
  /\ table = [s \in Sources |-> 0] /\ mem = [e \in Elems |-> NewKnock]
  /\ spare = [c \in CPUs |-> MaxEntries + c]
  /\ cpu = [c \in CPUs |-> Idle] /\ sent = 0
  /\ knocked = [s \in Sources |-> <<>>] /\ alone = [s \in Sources |-> TRUE]
  /\ allowed = [s \in Sources |-> 0] /\ blocked = {} /\ entered = {}
  /\ mixed = {}

\* The elements of the table that no source has.
FreeElems == Elems \ ({table[s] : s \in Sources} \cup {spare[c] : c \in CPUs})

At(c, pc) == cpu[c].pc = pc
Goto(c, pc) == cpu' = [cpu EXCEPT ![c].pc = pc]

\* The probe returns XdpAction::Pass, also for an error.
Pass(c) ==
  /\ cpu' = [cpu EXCEPT ![c] = Idle]
  /\ entered' = IF cpu[c].port = Target THEN entered \cup {cpu[c].src} ELSE entered

-----------------------------------------------------------------------------
\* seq_map.set of redbpf-tcp-knock.
Configure ==
  /\ ~configured /\ configured' = TRUE /\ entered' = {}
  /\ UNCHANGED <<table, mem, spare, mixed, cpu, sent, knocked, alone, allowed, blocked>>

\* The probe up to knocks.get_mut: without a sequence the packet passes.
Arrive(c) ==
  /\ At(c, "idle") /\ sent < MaxPackets
  /\ sent' = sent + 1
  /\ \E s \in Sources, p \in Ports \cup {Target} :
       \/ /\ ~configured
          /\ entered' = IF p = Target THEN entered \cup {s} ELSE entered
          /\ UNCHANGED <<cpu, knocked, alone>>
       \/ /\ configured
          /\ cpu' = [cpu EXCEPT ![c] = [pc |-> IF table[s] = 0 THEN "set" ELSE "complete",
                                        src |-> s, port |-> p, ptr |-> table[s], len |-> 0]]
          /\ knocked' = IF p = Target THEN knocked ELSE [knocked EXCEPT ![s] = Append(@, p)]
          /\ alone' = [alone EXCEPT ![s] = @ /\ \A d \in CPUs : cpu[d].src # s]
          /\ UNCHANGED entered
  /\ UNCHANGED <<configured, table, mem, spare, mixed, allowed, blocked>>

\* knocks.set(&key, &Knock::new(..)), whose result nobody looks at.
SetKnock(c) ==
  /\ At(c, "set") /\ Goto(c, "get")
  /\ LET s == cpu[c].src
     IN  \/ /\ table[s] # 0
            /\ mem' = [mem EXCEPT ![spare[c]] = NewKnock]
            /\ table' = [table EXCEPT ![s] = spare[c]]
            /\ spare' = [spare EXCEPT ![c] = table[s]]
            /\ LET others == {cpu[d].src : d \in {x \in CPUs : cpu[x].ptr = spare[c]}} \ {s}
               IN  mixed' = mixed \cup others \cup (IF others = {} THEN {} ELSE {s})
         \/ /\ table[s] = 0 /\ FreeElems # {}
            /\ LET e == CHOOSE e \in FreeElems : TRUE
               IN  mem' = [mem EXCEPT ![e] = NewKnock] /\ table' = [table EXCEPT ![s] = e]
            /\ UNCHANGED <<spare, mixed>>
         \/ table[s] = 0 /\ FreeElems = {} /\ UNCHANGED <<mem, table, spare, mixed>>
  /\ UNCHANGED <<configured, history>>

\* knocks.get_mut(&key) again: an error makes the packet pass.
GetKnock(c) ==
  /\ At(c, "get")
  /\ LET e == table[cpu[c].src]
     IN  \/ e = 0 /\ Pass(c)
         \/ e # 0 /\ cpu' = [cpu EXCEPT ![c].pc = "complete", ![c].ptr = e] /\ UNCHANGED entered
  /\ UNCHANGED <<configured, table, mem, spare, mixed, sent, knocked, alone, allowed, blocked>>

\* if knock.complete == 1
Complete(c) ==
  /\ At(c, "complete")
  /\ IF mem[cpu[c].ptr].complete
     THEN Pass(c)
     ELSE Goto(c, IF cpu[c].port = Target THEN "len" ELSE "knock") /\ UNCHANGED entered
  /\ UNCHANGED <<configured, table, mem, spare, mixed, sent, knocked, alone, allowed, blocked>>

\* The connection attempt is dropped; user space is told.
Block(c) ==
  /\ cpu' = [cpu EXCEPT ![c] = Idle]
  /\ blocked' = IF allowed[cpu[c].src] > 0 THEN blocked \cup {cpu[c].src} ELSE blocked

\* is_complete: the lengths,
CompareLen(c) ==
  /\ At(c, "len")
  /\ IF mem[cpu[c].ptr].len = Len(TargetSeq) THEN Goto(c, "ports") /\ UNCHANGED blocked ELSE Block(c)
  /\ UNCHANGED <<configured, table, mem, spare, mixed, sent, knocked, alone, allowed, entered>>

\* Mutant of ComparePorts: the last port decides.
ComparePortsLast(c) ==
  /\ At(c, "ports")
  /\ IF mem[cpu[c].ptr].ports[Len(TargetSeq)] = TargetSeq[Len(TargetSeq)]
     THEN Goto(c, "allow") /\ UNCHANGED blocked ELSE Block(c)
  /\ UNCHANGED <<configured, table, mem, spare, mixed, sent, knocked, alone, allowed, entered>>

\* and the ports.
ComparePorts(c) ==
  /\ At(c, "ports")
  /\ IF \A i \in DOMAIN TargetSeq : mem[cpu[c].ptr].ports[i] = TargetSeq[i]
     THEN Goto(c, "allow") /\ UNCHANGED blocked ELSE Block(c)
  /\ UNCHANGED <<configured, table, mem, spare, mixed, sent, knocked, alone, allowed, entered>>

\* Mutant of Allow: the knock is not marked.
AllowUnmarked(c) ==
  /\ At(c, "allow")
  /\ allowed' = [allowed EXCEPT ![cpu[c].src] = @ + 1]
  /\ Pass(c)
  /\ UNCHANGED <<configured, table, mem, spare, mixed, sent, knocked, alone, blocked>>

\* knock.complete = 1; user space is told.
Allow(c) ==
  /\ At(c, "allow")
  /\ mem' = [mem EXCEPT ![cpu[c].ptr].complete = TRUE]
  /\ allowed' = [allowed EXCEPT ![cpu[c].src] = @ + 1]
  /\ Pass(c)
  /\ UNCHANGED <<configured, table, spare, mixed, sent, knocked, alone, blocked>>

\* A knock: the length is read once and is 0 again when the sequence is full.
\* Whether that 0 is stored before the new length is up to the compiler.
ReadLen(c) ==
  /\ At(c, "knock")
  /\ LET k == cpu[c].ptr
         full == mem[k].len >= Len(TargetSeq) \/ mem[k].len >= MAX_SEQ_LEN
     IN  /\ cpu' = [cpu EXCEPT ![c].pc = "port", ![c].len = IF full THEN 0 ELSE mem[k].len]
         /\ mem' \in {mem, [mem EXCEPT ![k].len = IF full THEN 0 ELSE @]}
  /\ UNCHANGED <<configured, table, spare, mixed, history>>

\* knock.sequence.ports[len] = tcp.dest()
WritePort(c) ==
  /\ At(c, "port") /\ Goto(c, "newlen")
  /\ mem' = [mem EXCEPT ![cpu[c].ptr].ports[cpu[c].len + 1] = cpu[c].port]
  /\ UNCHANGED <<configured, table, spare, mixed, history>>

\* knock.sequence.len += 1; user space is told.
WriteLen(c) ==
  /\ At(c, "newlen")
  /\ mem' = [mem EXCEPT ![cpu[c].ptr].len = cpu[c].len + 1]
  /\ Pass(c)
  /\ UNCHANGED <<configured, table, spare, mixed, sent, knocked, alone, allowed, blocked>>

Probe(c) ==
  \/ SetKnock(c) \/ GetKnock(c) \/ Complete(c) \/ CompareLen(c) \/ ComparePorts(c) \/ Allow(c)
  \/ ReadLen(c) \/ WritePort(c) \/ WriteLen(c)

Next == Configure \/ \E c \in CPUs : Arrive(c) \/ Probe(c)

Spec == Init /\ [][Next]_vars

-----------------------------------------------------------------------------
(* Properties                                                              *)

RangeOf(f) == {f[x] : x \in DOMAIN f}

\* Whichever CPUs the packets of a source are handled on, and whatever the CPUs
\* write over each other: a source is allowed only after it knocked on every
\* port of the sequence; "block a connection attempt to the target port if the
\* knock sequence is incomplete": once there is a sequence, what passes to the
\* target port has been allowed, unless the map has no room for the source.
\* This is so except for two sources one of which gets the element of the other
\* while a pointer to it is in use; it takes three CPUs for that.  An element
\* belongs to one source or to one CPU, and the length never exceeds that of the
\* sequence, so ports is never indexed out of bounds.
ParallelRight ==
  /\ \A s \in Sources \ mixed : allowed[s] > 0 => RangeOf(TargetSeq) \subseteq RangeOf(knocked[s])
  /\ configured => \A s \in entered \ mixed : allowed[s] > 0 \/ (table[s] = 0 /\ FreeElems = {})
  /\ mixed # {} => \E a, b, c \in CPUs : a # b /\ b # c /\ a # c
  /\ \A s \in Sources, c \in CPUs : table[s] # spare[c]
  /\ \A s, t \in Sources : table[s] = table[t] => s = t \/ table[s] = 0
  /\ \A e \in Elems : mem[e].len \in 0 .. Len(TargetSeq)
  /\ \A c \in CPUs : cpu[c].len < Len(TargetSeq)

\* The knocks of the current round: rounds have the length of the sequence.
Round(ks) ==
  LET n == Len(ks) IN SubSeq(ks, n - (IF n = 0 THEN 0 ELSE ((n - 1) % Len(TargetSeq)) + 1) + 1, n)

InFlight(s) == \E c \in CPUs : cpu[c].src = s

\* A source whose packets are handled one after the other, on any CPUs, gets
\* what the tool promises: the element holds the knocks of the current round,
\* the source is let in once that round is the sequence, and only then; "we
\* only notify user space once" and "this peer has already completed the knock
\* sequence so data can pass" hold for it.
SerialRight ==
  \A s \in Sources : alone[s] =>
    /\ allowed[s] <= 1 /\ s \notin blocked
    /\ ~InFlight(s) /\ table[s] # 0 =>
         LET k == mem[table[s]]
         IN  /\ k.complete <=> allowed[s] > 0
             /\ ~k.complete => SubSeq(k.ports, 1, k.len) = Round(knocked[s])
             /\ k.complete => SubSeq(k.ports, 1, k.len) = TargetSeq
=============================================================================
