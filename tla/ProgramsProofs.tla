--------------------------- MODULE ProgramsProofs ---------------------------
(***************************************************************************)
(* For modules of any programs, any limit on descriptors and any order of  *)
(* calls: every descriptor that redbpf opens has one owner, which closes   *)
(* it once.                                                                *)
(***************************************************************************)
EXTENDS Programs, WellFoundedInduction, TLAPS

\* A set of numbers that is not empty has a least element.
LEMMA MinInSet ==
  ASSUME NEW S, S \subseteq Nat, S # {}
  PROVE  Min(S) \in S /\ \A y \in S : Min(S) <= y
<1>1. PICK x \in S : \A y \in S : ~(<<y, x>> \in OpToRel(<, Nat))
  BY WFMin, NatLessThanWellFounded, Zenon
<1>2. \A y \in S : x <= y
  <2>1. SUFFICES ASSUME NEW y \in S, y < x PROVE FALSE
    OBVIOUS
  <2>2. <<y, x>> \in OpToRel(<, Nat)
    BY <2>1, Zenon DEF OpToRel
  <2> QED
    BY <1>1, <2>2, Zenon
<1> QED
  BY Zenon, <1>2 DEF Min

-----------------------------------------------------------------------------
(* The inductive invariant                                                 *)

FileTypes == {"free", "other", "prog", "perf", "sock", "ns", "link", "iter"}
Files == [type : FileTypes, prog : Progs \cup {None}, at : Points \cup {None}, on : BOOLEAN]

\* The shape of the state.
TypeOK ==
  /\ fdt \in [Fds -> Files]
  /\ alive \subseteq Progs
  /\ fd \in [Progs -> Fds \cup {NoFd}]
  /\ points \in [Progs -> SUBSET [at : Points, pfd : Fds]]
  /\ link \in [Progs -> [ns : Fds \cup {NoFd}, lfd : Fds \cup {NoFd}]]
  /\ user \subseteq Fds

\* What program p records is what it opened.
FilesRight(p) ==
  /\ fd[p] # NoFd => fdt[fd[p]] = File("prog", p, None, FALSE)
  /\ \A a \in points[p] : fdt[a.pfd] = File("perf", p, a.at, TRUE)
  /\ link[p].lfd # NoFd => fdt[link[p].lfd] = File("link", p, None, TRUE)
  /\ link[p].ns # NoFd => fdt[link[p].ns].type = "ns" /\ link[p].lfd # NoFd
  /\ points[p] # {} => Kind[p] \in {"kprobe", "uprobe"}
  /\ p \notin alive => fd[p] = NoFd /\ points[p] = {} /\ link[p] = NoLink

NamespacesApart ==
  \A p, q \in Progs : p # q /\ link[p].ns = link[q].ns => link[p].ns = NoFd

\* Descriptor f is of other code, of the caller, of a program, or the perf event
\* of a tracepoint.
HasOwner(f) ==
  \/ fdt[f].type \in {"free", "other"}
  \/ f \in user
  \/ \E p \in alive : f \in OwnedFds(p)
  \/ /\ fdt[f].type = "perf"
     /\ \E p \in Progs : Kind[p] = "tracepoint" /\ fdt[f].prog \in {p, None}

FdInv ==
  /\ TypeOK
  /\ \A p \in Progs : FilesRight(p)
  /\ NamespacesApart
  /\ \A f \in user : fdt[f].type \in {"sock", "iter"}
  /\ \A f \in Fds : HasOwner(f)

-----------------------------------------------------------------------------
(* Descriptors                                                             *)

\* The records that the actions make are open files.
LEMMA FileInFiles ==
  ASSUME NEW t \in FileTypes, NEW p \in Progs \cup {None}, NEW a \in Points \cup {None},
         NEW o \in BOOLEAN
  PROVE  File(t, p, a, o) \in Files
BY Zenon DEF File, Files

\* The lowest unused descriptor is unused.
LEMMA LowestUnused ==
  ASSUME NEW t, Unused(t) # {}
  PROVE  Lowest(t) \in Fds /\ t[Lowest(t)] = Free
<1>1. Unused(t) \subseteq Nat
  BY ProgramsAssumption DEF Unused, Fds
<1>2. Lowest(t) \in Unused(t)
  BY <1>1, MinInSet, Zenon DEF Lowest
<1> QED
  BY <1>2, Zenon DEF Unused

\* The files of the descriptors a program owns.
LEMMA OwnedFiles ==
  ASSUME TypeOK, NEW p \in Progs, FilesRight(p), NEW f \in OwnedFds(p)
  PROVE  /\ f \in Fds /\ f # NoFd
         /\ \/ f = fd[p] /\ fdt[f].type = "prog" /\ fdt[f].prog = p
            \/ f = link[p].ns /\ fdt[f].type = "ns"
            \/ f = link[p].lfd /\ fdt[f].type = "link" /\ fdt[f].prog = p
            \/ /\ fdt[f].type = "perf" /\ fdt[f].prog = p
               /\ \E a \in points[p] : f = a.pfd /\ fdt[f].at = a.at
<1>1. f \in Fds /\ f # NoFd
  BY ProgramsAssumption DEF OwnedFds, LinkFds, PointFds, TypeOK, Fds, NoFd
<1>2. CASE f = fd[p]
  <2>1. fdt[f] = File("prog", p, None, FALSE)
    BY Zenon, <1>1, <1>2 DEF FilesRight
  <2> QED
    BY <1>1, <1>2, <2>1 DEF File
<1>3. CASE f = link[p].ns
  BY <1>1, <1>3, Zenon DEF FilesRight
<1>4. CASE f = link[p].lfd
  <2>1. fdt[f] = File("link", p, None, TRUE)
    BY Zenon, <1>1, <1>4 DEF FilesRight
  <2> QED
    BY <1>1, <1>4, <2>1 DEF File
<1>5. ASSUME NEW a \in points[p], f = a.pfd
      PROVE  fdt[f].type = "perf" /\ fdt[f].prog = p /\ fdt[f].at = a.at
  <2>1. fdt[f] = File("perf", p, a.at, TRUE)
    BY Zenon, <1>1, <1>5 DEF FilesRight
  <2> QED
    BY <2>1 DEF File
<1> QED
  BY <1>1, <1>2, <1>3, <1>4, <1>5, Zenon DEF OwnedFds, LinkFds, PointFds

\* A free descriptor, and one of other code, has no owner.
LEMMA FreeHasNone ==
  ASSUME FdInv, NEW f \in Fds, fdt[f].type \in {"free", "other"}
  PROVE  f \notin user /\ \A p \in Progs : f \notin OwnedFds(p)
BY OwnedFiles, Zenon DEF FdInv

\* Two programs own different descriptors.
LEMMA OwnersDiffer ==
  ASSUME FdInv, NEW p \in Progs, NEW q \in Progs, p # q
  PROVE  OwnedFds(p) \cap OwnedFds(q) = {}
<1>1. SUFFICES ASSUME NEW f \in OwnedFds(p), f \in OwnedFds(q) PROVE FALSE
  BY Zenon
<1>2. TypeOK /\ FilesRight(p) /\ FilesRight(q) /\ NamespacesApart
  BY Zenon DEF FdInv
<1> QED
  BY <1>1, <1>2, OwnedFiles DEF NamespacesApart

\* A program and the caller own different descriptors.
LEMMA UserDiffers ==
  ASSUME FdInv, NEW p \in Progs
  PROVE  OwnedFds(p) \cap user = {}
<1>1. TypeOK /\ FilesRight(p)
  BY Zenon DEF FdInv
<1> QED
  BY <1>1, OwnedFiles, Zenon DEF FdInv

\* The invariant implies the property.
LEMMA FdInvImplies == FdInv => OwnedFdsRight
<1> SUFFICES ASSUME FdInv PROVE OwnedFdsRight
  BY Zenon
<1>1. ASSUME NEW p \in Progs
      PROVE  /\ fd[p] # NoFd => fdt[fd[p]] = File("prog", p, None, FALSE)
             /\ \A a \in points[p] : fdt[a.pfd] = File("perf", p, a.at, TRUE)
             /\ link[p].lfd # NoFd => fdt[link[p].lfd] = File("link", p, None, TRUE)
             /\ link[p].ns # NoFd => fdt[link[p].ns].type = "ns"
  BY Zenon DEF FdInv, FilesRight
<1>2. ASSUME NEW f \in Fds
      PROVE  \/ fdt[f].type \in {"free", "other"}
             \/ f \in user \cup UNION {OwnedFds(p) : p \in alive}
             \/ /\ fdt[f].type = "perf"
                /\ \E p \in Progs : Kind[p] = "tracepoint" /\ fdt[f].prog \in {p, None}
  BY Zenon DEF FdInv, HasOwner
<1>3. \A f \in user : fdt[f].type \in {"sock", "iter"}
  BY Zenon DEF FdInv
<1> QED
  BY Zenon, <1>1, <1>2, <1>3, UserDiffers, OwnersDiffer DEF OwnedFdsRight

-----------------------------------------------------------------------------
(* Steps                                                                   *)

\* Opening takes the lowest unused descriptor, and closing it undoes that.
LEMMA OpenedAt ==
  ASSUME NEW t \in [Fds -> Files], NEW o \in Files, Unused(t) # {}
  PROVE  /\ Opened(t, o) \in [Fds -> Files]
         /\ Opened(t, o)[Lowest(t)] = o
         /\ \A f \in Fds \ {Lowest(t)} : Opened(t, o)[f] = t[f]
         /\ Closed(Opened(t, o), {Lowest(t)}) = t
<1>1. Lowest(t) \in Fds /\ t[Lowest(t)] = Free
  BY LowestUnused, Zenon
<1>2. /\ Opened(t, o) \in [Fds -> Files]
      /\ Opened(t, o)[Lowest(t)] = o
      /\ \A f \in Fds \ {Lowest(t)} : Opened(t, o)[f] = t[f]
  BY <1>1, Zenon DEF Opened
<1>3. Closed(Opened(t, o), {Lowest(t)}) = t
  BY <1>1, <1>2, Zenon DEF Closed
<1> QED
  BY <1>2, <1>3, Zenon

\* Closing frees the descriptors named and leaves the others.
LEMMA ClosedOn ==
  ASSUME NEW t \in [Fds -> Files], NEW F
  PROVE  /\ Closed(t, F) \in [Fds -> Files]
         /\ \A f \in Fds \cap F : Closed(t, F)[f] = Free
         /\ \A f \in Fds \ F : Closed(t, F)[f] = t[f]
<1>1. Free \in Files
  BY Zenon, FileInFiles DEF Free, FileTypes
<1> QED
  BY <1>1, Zenon DEF Closed

\* What a program owns depends on its own records and descriptors only.
LEMMA FilesKept ==
  ASSUME NEW p \in Progs, FilesRight(p),
         fd'[p] = fd[p], points'[p] = points[p], link'[p] = link[p],
         p \in alive' <=> p \in alive,
         \A f \in OwnedFds(p) : fdt'[f] = fdt[f]
  PROVE  FilesRight(p)' /\ OwnedFds(p)' = OwnedFds(p)
<1>1. OwnedFds(p)' = OwnedFds(p)
  BY Zenon DEF OwnedFds, LinkFds, PointFds
<1>2. /\ fd[p] # NoFd => fdt'[fd[p]] = fdt[fd[p]]
      /\ \A a \in points[p] : fdt'[a.pfd] = fdt[a.pfd]
      /\ link[p].lfd # NoFd => fdt'[link[p].lfd] = fdt[link[p].lfd]
      /\ link[p].ns # NoFd => fdt'[link[p].ns] = fdt[link[p].ns]
  BY Zenon DEF OwnedFds, LinkFds, PointFds
<1> QED
  BY Zenon, <1>1, <1>2 DEF FilesRight

\* A step that changes the records of program p only, and the descriptors of a
\* set W that nobody else owns.
LEMMA StepOf ==
  ASSUME FdInv, TypeOK', NEW p, NEW W \in SUBSET Fds,
         \A q \in Progs \ {p} :
            /\ fd'[q] = fd[q] /\ points'[q] = points[q] /\ link'[q] = link[q]
            /\ q \in alive' <=> q \in alive
            /\ OwnedFds(q) \cap W = {},
         \A f \in Fds \ W : fdt'[f] = fdt[f] /\ (f \in user' <=> f \in user),
         \A f \in W \cap user' : fdt'[f].type \in {"sock", "iter"},
         \A f \in W : HasOwner(f)',
         p \in Progs =>
           /\ FilesRight(p)'
           /\ p \in alive => OwnedFds(p) \ W \subseteq OwnedFds(p)'
           /\ p \in alive /\ p \notin alive' => OwnedFds(p) \subseteq W
           /\ link'[p].ns \in {NoFd, link[p].ns} \cup W
  PROVE  FdInv'
<1>1. ASSUME NEW q \in Progs \ {p} PROVE FilesRight(q)' /\ OwnedFds(q)' = OwnedFds(q)
  <2>1. FilesRight(q) /\ TypeOK
    BY Zenon DEF FdInv
  <2>2. \A f \in OwnedFds(q) : f \in Fds \ W
    BY <2>1, OwnedFiles, Zenon
  <2> QED
    BY <2>1, <2>2, FilesKept, Zenon
<1>2. \A q \in Progs : FilesRight(q)'
  BY <1>1, Zenon
<1>3. NamespacesApart'
  <2>1. \A q \in Progs : link[q].ns # NoFd => link[q].ns \in OwnedFds(q)
    BY Zenon DEF OwnedFds, LinkFds, PointFds
  <2> QED
    BY <2>1 DEF NamespacesApart, FdInv
<1>4. \A f \in user' : fdt'[f].type \in {"sock", "iter"}
  BY Zenon DEF FdInv, TypeOK
<1>5. ASSUME NEW f \in Fds \ W PROVE HasOwner(f)'
  <2>1. HasOwner(f) /\ fdt'[f] = fdt[f] /\ (f \in user' <=> f \in user)
    BY Zenon DEF FdInv
  <2>2. ASSUME NEW q \in alive, f \in OwnedFds(q) PROVE q \in alive' /\ f \in OwnedFds(q)'
    BY <1>1, <2>2, Zenon DEF FdInv, TypeOK
  <2> QED
    BY <2>1, <2>2, Zenon DEF HasOwner
<1> QED
  BY <1>2, <1>3, <1>4, <1>5, Zenon DEF FdInv

\* What opening a descriptor does to the table.
LEMMA Opening ==
  ASSUME FdInv, NEW g, NEW o \in Files,
         Unused(fdt) # {}, g = Lowest(fdt), fdt' = Opened(fdt, o)
  PROVE  /\ g \in Fds /\ g # NoFd /\ fdt[g] = Free
         /\ fdt' \in [Fds -> Files]
         /\ fdt'[g] = o
         /\ \A f \in Fds \ {g} : fdt'[f] = fdt[f]
         /\ g \notin user /\ \A q \in Progs : g \notin OwnedFds(q)
         /\ \A q \in Progs : \A f \in OwnedFds(q) : fdt'[f] = fdt[f]
<1>1. g \in Fds /\ g # NoFd /\ fdt[g] = Free
  BY LowestUnused, ProgramsAssumption DEF Fds, NoFd
<1>2. fdt[g].type = "free"
  BY <1>1 DEF Free, File
<1>3. g \notin user /\ \A q \in Progs : g \notin OwnedFds(q)
  BY <1>1, <1>2, FreeHasNone, Zenon
<1>4. fdt \in [Fds -> Files]
  BY Zenon DEF FdInv, TypeOK
<1>5. /\ fdt' \in [Fds -> Files]
      /\ fdt'[g] = o
      /\ \A f \in Fds \ {g} : fdt'[f] = fdt[f]
  <2>1. /\ Opened(fdt, o) \in [Fds -> Files]
        /\ Opened(fdt, o)[Lowest(fdt)] = o
        /\ \A f \in Fds \ {Lowest(fdt)} : Opened(fdt, o)[f] = fdt[f]
    BY Zenon, <1>4, OpenedAt
  <2> QED
    BY <2>1, Zenon
<1>6. \A q \in Progs : \A f \in OwnedFds(q) : f \in Fds
  BY OwnedFiles, Zenon DEF FdInv
<1> QED
  BY <1>1, <1>3, <1>5, <1>6, Zenon

\* A step that opens descriptor g, for program p or for somebody else, and
\* changes no record of another program.
LEMMA OpenStep ==
  ASSUME FdInv, NEW p, NEW g, NEW o \in Files,
         Unused(fdt) # {}, g = Lowest(fdt), fdt' = Opened(fdt, o),
         TypeOK',
         alive' = alive,
         user' \in {user, user \cup {g}},
         g \in user' => o.type \in {"sock", "iter"},
         HasOwner(g)',
         \A q \in Progs \ {p} : fd'[q] = fd[q] /\ points'[q] = points[q] /\ link'[q] = link[q],
         p \in Progs =>
           /\ FilesRight(p)'
           /\ OwnedFds(p) \subseteq OwnedFds(p)'
           /\ link'[p].ns \in {NoFd, link[p].ns}
  PROVE  FdInv'
<1>1. /\ g \in Fds /\ fdt'[g] = o /\ \A f \in Fds \ {g} : fdt'[f] = fdt[f]
      /\ \A q \in Progs : g \notin OwnedFds(q)
  BY Opening, Zenon
<1> DEFINE W == {g}
<1>2. /\ W \in SUBSET Fds
      /\ \A f \in Fds \ W : fdt'[f] = fdt[f] /\ (f \in user' <=> f \in user)
      /\ \A f \in W \cap user' : fdt'[f].type \in {"sock", "iter"}
  BY <1>1, Zenon
<1>3. \A f \in W : HasOwner(f)'
  BY Zenon
<1>4. \A q \in Progs : OwnedFds(q) \cap W = {}
  BY <1>1, Zenon
<1> HIDE DEF W
<1> QED
  BY Zenon, <1>2, <1>3, <1>4, StepOf

\* A step that leaves the descriptors and their owners alone.
LEMMA IdleStep ==
  ASSUME FdInv, UNCHANGED <<fdt, alive, fd, points, link, user>>
  PROVE  FdInv'
<1>1. TypeOK'
  BY Zenon DEF FdInv, TypeOK
<1>2. None \notin Progs
  BY ProgramsAssumption, Zenon
<1>3. PICK W : W = {}
  BY Zenon
<1>4. W \in SUBSET Fds /\ \A f \in W : HasOwner(f)'
  BY <1>3, Zenon
<1>5. \A q \in Progs : OwnedFds(q) \cap W = {}
  BY <1>3, Zenon
<1> QED
  BY <1>1, <1>2, <1>3, <1>4, <1>5, StepOf, Zenon

\* Other code that opens a descriptor takes a free one.
LEMMA OtherOpenInv == FdInv /\ OtherOpen => FdInv'
<1> SUFFICES ASSUME FdInv, OtherOpen PROVE FdInv'
  BY Zenon
<1>1. PICK o : o = File("other", None, None, FALSE)
  BY Zenon
<1>2. o \in Files /\ o.type = "other"
  BY Zenon, <1>1, FileInFiles DEF FileTypes, File
<1>3. fdt' = Opened(fdt, o) /\ Unused(fdt) # {} /\ UNCHANGED <<alive, fd, points, link, user>>
  BY <1>1, Zenon DEF OtherOpen
<1>4. PICK g : g = Lowest(fdt)
  BY Zenon
<1>5. fdt' \in [Fds -> Files] /\ fdt'[g] = o /\ g \notin user
  BY <1>2, <1>3, <1>4, Opening, Zenon
<1>6. TypeOK'
  BY <1>3, <1>5, Zenon DEF FdInv, TypeOK
<1>7. HasOwner(g)'
  BY <1>2, <1>5, Zenon DEF HasOwner
<1>8. None \notin Progs
  BY ProgramsAssumption, Zenon
<1> QED
  BY Zenon, <1>2, <1>3, <1>4, <1>5, <1>6, <1>7, <1>8, OpenStep

\* A step that closes the descriptors of a set, of program p or of somebody
\* else, and changes no record of another program.
LEMMA CloseStep ==
  ASSUME FdInv, NEW p, NEW W \in SUBSET Fds, fdt' = Closed(fdt, W), user' = user \ W,
         TypeOK',
         \A q \in Progs \ {p} :
            /\ fd'[q] = fd[q] /\ points'[q] = points[q] /\ link'[q] = link[q]
            /\ q \in alive' <=> q \in alive
            /\ OwnedFds(q) \cap W = {},
         p \in Progs =>
           /\ FilesRight(p)'
           /\ p \in alive => OwnedFds(p) \ W \subseteq OwnedFds(p)'
           /\ p \in alive /\ p \notin alive' => OwnedFds(p) \subseteq W
           /\ link'[p].ns \in {NoFd, link[p].ns}
  PROVE  FdInv'
<1>1. fdt \in [Fds -> Files]
  BY Zenon DEF FdInv, TypeOK
<1>2. (\A f \in W : fdt'[f] = Free) /\ \A f \in Fds \ W : fdt'[f] = fdt[f]
  BY <1>1, ClosedOn
<1>3. \A f \in W : fdt'[f].type = "free"
  BY <1>2 DEF Free, File
<1>4. \A f \in W : HasOwner(f)'
  BY <1>3, Zenon DEF HasOwner
<1>5. \A f \in Fds \ W : fdt'[f] = fdt[f] /\ (f \in user' <=> f \in user)
  BY <1>2, Zenon
<1>6. W \cap user' = {}
  BY Zenon
<1> QED
  BY Zenon, <1>4, <1>5, <1>6, StepOf

\* Other code closes its own descriptors only.
LEMMA OtherCloseInv == FdInv /\ OtherClose => FdInv'
<1> SUFFICES ASSUME FdInv, OtherClose PROVE FdInv'
  BY Zenon
<1>1. PICK f \in Fds : fdt[f].type = "other" /\ fdt' = Closed(fdt, {f})
  BY Zenon DEF OtherClose
<1>2. UNCHANGED <<alive, fd, points, link, user>>
  BY Zenon DEF OtherClose
<1>3. f \notin user /\ \A q \in Progs : f \notin OwnedFds(q)
  BY <1>1, FreeHasNone, Zenon
<1>4. PICK W : W = {f}
  BY Zenon
<1>5. /\ W \in SUBSET Fds /\ fdt' = Closed(fdt, W) /\ user' = user \ W
      /\ \A q \in Progs : OwnedFds(q) \cap W = {}
  BY <1>1, <1>2, <1>3, <1>4, Zenon
<1>6. TypeOK'
  BY <1>2, <1>5, ClosedOn, Zenon DEF FdInv, TypeOK
<1>7. None \notin Progs
  BY ProgramsAssumption, Zenon
<1> QED
  BY <1>2, <1>5, <1>6, <1>7, CloseStep, Zenon

\* The user closes the socket it owns.
LEMMA UserCloseInv == FdInv /\ UserClose => FdInv'
<1> SUFFICES ASSUME FdInv, UserClose PROVE FdInv'
  BY Zenon
<1>1. PICK f \in user : fdt' = Closed(fdt, {f}) /\ user' = user \ {f}
  BY Zenon DEF UserClose
<1>2. UNCHANGED <<alive, fd, points, link>>
  BY Zenon DEF UserClose
<1>3. \A q \in Progs : f \notin OwnedFds(q)
  BY UserDiffers, Zenon
<1>4. PICK W : W = {f}
  BY Zenon
<1>5. /\ W \in SUBSET Fds /\ fdt' = Closed(fdt, W) /\ user' = user \ W
      /\ \A q \in Progs : OwnedFds(q) \cap W = {}
  BY <1>1, <1>2, <1>3, <1>4, Zenon DEF FdInv, TypeOK
<1>6. TypeOK'
  BY <1>2, <1>5, ClosedOn, Zenon DEF FdInv, TypeOK
<1>7. None \notin Progs
  BY ProgramsAssumption, Zenon
<1> QED
  BY <1>2, <1>5, <1>6, <1>7, CloseStep, Zenon

\* load records the descriptor it opened.
LEMMA LoadInv == ASSUME NEW p \in Progs PROVE FdInv /\ Load(p) => FdInv'
<1> SUFFICES ASSUME FdInv, Load(p) PROVE FdInv'
  BY Zenon
<1>1. CASE UNCHANGED <<fdt, fd>>
  BY <1>1, IdleStep, Zenon DEF Load
<1>2. ASSUME fd[p] = NoFd, Unused(fdt) # {}, fd' = [fd EXCEPT ![p] = Lowest(fdt)],
             fdt' = Opened(fdt, File("prog", p, None, FALSE))
      PROVE  FdInv'
  <2>1. PICK o : o = File("prog", p, None, FALSE)
    BY Zenon
  <2>2. o \in Files
    BY Zenon, <2>1, FileInFiles DEF FileTypes
  <2>3. PICK g : g = Lowest(fdt)
    BY Zenon
  <2>4. UNCHANGED <<alive, points, link, user>> /\ p \in alive
    BY Zenon DEF Load
  <2>5. /\ g \in Fds /\ g # NoFd /\ g \notin user
        /\ fdt' \in [Fds -> Files] /\ fdt'[g] = o
        /\ \A f \in OwnedFds(p) : fdt'[f] = fdt[f]
    BY Zenon, <1>2, <2>1, <2>2, <2>3, Opening
  <2>6. fd' = [fd EXCEPT ![p] = g] /\ fd'[p] = g
    BY <1>2, <2>3, Zenon DEF FdInv, TypeOK
  <2>7. TypeOK'
    BY <2>4, <2>5, <2>6, Zenon DEF FdInv, TypeOK
  <2>8. OwnedFds(p) \subseteq OwnedFds(p)' /\ g \in OwnedFds(p)'
    BY <1>2, <2>4, <2>5, <2>6, Zenon DEF OwnedFds, LinkFds, PointFds
  <2>9. FilesRight(p)'
    <3>1. FilesRight(p)
      BY Zenon DEF FdInv
    <3>2. /\ \A a \in points[p] : fdt'[a.pfd] = fdt[a.pfd]
          /\ link[p].lfd # NoFd => fdt'[link[p].lfd] = fdt[link[p].lfd]
          /\ link[p].ns # NoFd => fdt'[link[p].ns] = fdt[link[p].ns]
      BY <2>5, Zenon DEF OwnedFds, LinkFds, PointFds
    <3> QED
      BY Zenon, <2>1, <2>4, <2>5, <2>6, <3>1, <3>2 DEF FilesRight
  <2>10. HasOwner(g)'
    BY <2>4, <2>8, Zenon DEF HasOwner
  <2> QED
    BY Zenon, <1>2, <2>1, <2>2, <2>3, <2>4, <2>5, <2>6, <2>7, <2>8, <2>9, <2>10, OpenStep DEF FdInv, TypeOK
<1> QED
  BY Zenon, <1>1, <1>2 DEF Load

\* A step that closes the descriptor it opened.
LEMMA OpenAndClose ==
  ASSUME FdInv, NEW o \in Files, Unused(fdt) # {},
         fdt' = Closed(Opened(fdt, o), {Lowest(fdt)}),
         UNCHANGED <<alive, fd, points, link, user>>
  PROVE  FdInv'
<1>1. fdt' = fdt
  BY Zenon, OpenedAt DEF FdInv, TypeOK
<1> QED
  BY <1>1, IdleStep, Zenon

\* The events attach_perf_event leaves behind.
LEMMA OutcomeFiles ==
  ASSUME NEW p \in Progs, NEW at \in Points, NEW out \in AttachOutcomes(p, at)
  PROVE  /\ out.file \in Files /\ out.file.type = "perf" /\ out.file.prog \in {p, None}
         /\ out.res = "Ok" => out.file = File("perf", p, at, TRUE)
<1>1. PICK f1 : f1 = File("perf", None, at, FALSE)
  BY Zenon
<1>2. PICK f2 : f2 = File("perf", p, at, FALSE)
  BY Zenon
<1>3. PICK f3 : f3 = File("perf", p, at, TRUE)
  BY Zenon
<1>4. f1 \in Files /\ f1.type = "perf" /\ f1.prog = None
  BY Zenon, <1>1, FileInFiles DEF FileTypes, File
<1>5. f2 \in Files /\ f2.type = "perf" /\ f2.prog = p
  BY Zenon, <1>2, FileInFiles DEF FileTypes, File
<1>6. f3 \in Files /\ f3.type = "perf" /\ f3.prog = p
  BY Zenon, <1>3, FileInFiles DEF FileTypes, File
<1>7. AttachOutcomes(p, at) = { [res |-> "Err", file |-> f1], [res |-> "Err", file |-> f2],
                                [res |-> "Ok", file |-> f3] }
  BY <1>1, <1>2, <1>3, Zenon DEF AttachOutcomes
<1>8. /\ out.file \in {f1, f2, f3}
      /\ out.res = "Ok" => out.file = f3
  BY <1>7
<1> QED
  BY Zenon, <1>3, <1>4, <1>5, <1>6, <1>8

\* The event of a probe is recorded, or closed on an error.
LEMMA AttachProbeInv ==
  ASSUME NEW p \in Progs, NEW at \in Points
  PROVE  FdInv /\ AttachProbe(p, at) => FdInv'
<1> SUFFICES ASSUME FdInv, AttachProbe(p, at) PROVE FdInv'
  BY Zenon
<1>1. UNCHANGED <<alive, fd, link, user>> /\ p \in alive /\ Kind[p] \in {"kprobe", "uprobe"}
  BY Zenon DEF AttachProbe
<1>2. CASE UNCHANGED <<fdt, points>>
  BY <1>1, <1>2, IdleStep, Zenon
<1>3. ASSUME NEW out \in AttachOutcomes(p, at), Unused(fdt) # {}, out.res # "Ok",
             fdt' = Closed(Opened(fdt, out.file), {Lowest(fdt)}), UNCHANGED points
      PROVE  FdInv'
  <2>1. out.file \in Files
    BY Zenon, OutcomeFiles
  <2> QED
    BY <1>1, <1>3, <2>1, OpenAndClose, Zenon
<1>4. ASSUME NEW out \in AttachOutcomes(p, at), Unused(fdt) # {}, out.res = "Ok",
             fdt' = Opened(fdt, out.file),
             points' = [points EXCEPT ![p] = @ \cup {[at |-> at, pfd |-> Lowest(fdt)]}]
      PROVE  FdInv'
  <2>1. PICK o : o = File("perf", p, at, TRUE)
    BY Zenon
  <2>2. o \in Files /\ out.file = o
    BY Zenon, <1>4, <2>1, OutcomeFiles
  <2>3. PICK g : g = Lowest(fdt)
    BY Zenon
  <2>4. PICK new : new = [at |-> at, pfd |-> g]
    BY Zenon
  <2>5. /\ g \in Fds /\ g # NoFd /\ g \notin user
        /\ fdt' \in [Fds -> Files] /\ fdt'[g] = o
        /\ \A f \in OwnedFds(p) : fdt'[f] = fdt[f]
    BY Zenon, <1>4, <2>2, <2>3, Opening
  <2>6. /\ points' = [points EXCEPT ![p] = points[p] \cup {new}]
        /\ points'[p] = points[p] \cup {new}
        /\ new \in [at : Points, pfd : Fds]
    BY <1>4, <2>3, <2>4, <2>5, Zenon DEF FdInv, TypeOK
  <2>7. TypeOK'
    BY <1>1, <2>5, <2>6, Zenon DEF FdInv, TypeOK
  <2>8. OwnedFds(p) \subseteq OwnedFds(p)' /\ g \in OwnedFds(p)'
    BY <1>1, <2>4, <2>6 DEF OwnedFds, LinkFds, PointFds
  <2>9. FilesRight(p)'
    <3>1. FilesRight(p)
      BY Zenon DEF FdInv
    <3>2. /\ \A a \in points[p] : fdt'[a.pfd] = fdt[a.pfd]
          /\ link[p].lfd # NoFd => fdt'[link[p].lfd] = fdt[link[p].lfd]
          /\ link[p].ns # NoFd => fdt'[link[p].ns] = fdt[link[p].ns]
          /\ fd[p] # NoFd => fdt'[fd[p]] = fdt[fd[p]]
      BY <2>5, Zenon DEF OwnedFds, LinkFds, PointFds
    <3>3. fdt'[new.pfd] = File("perf", p, new.at, TRUE)
      BY <2>1, <2>4, <2>5, Zenon
    <3>4. \A a \in points'[p] : fdt'[a.pfd] = File("perf", p, a.at, TRUE)
      BY Zenon, <2>6, <3>1, <3>2, <3>3 DEF FilesRight
    <3> QED
      BY Zenon, <1>1, <3>1, <3>2, <3>4 DEF FilesRight
  <2>10. HasOwner(g)'
    BY <1>1, <2>8, Zenon DEF HasOwner
  <2>11. \A q \in Progs \ {p} : points'[q] = points[q]
    BY <2>6, Zenon DEF FdInv, TypeOK
  <2> QED
    BY Zenon, <1>1, <1>4, <2>2, <2>3, <2>5, <2>7, <2>8, <2>9, <2>10, <2>11, OpenStep
<1>5. CASE \E out \in AttachOutcomes(p, at) :
             /\ Unused(fdt) # {}
             /\ IF out.res = "Ok"
                THEN /\ fdt' = Opened(fdt, out.file)
                     /\ points' = [points EXCEPT ![p] = @ \cup {[at |-> at, pfd |-> Lowest(fdt)]}]
                ELSE /\ fdt' = Closed(Opened(fdt, out.file), {Lowest(fdt)})
                     /\ UNCHANGED points
  BY <1>3, <1>4, <1>5, Zenon
<1> QED
  BY <1>2, <1>5, Zenon DEF AttachProbe, AttachEarlyError

\* A probe that is detached closes the event it recorded.
LEMMA DetachProbeInv ==
  ASSUME NEW p \in Progs, NEW at \in Points
  PROVE  FdInv /\ DetachProbe(p, at) => FdInv'
<1> SUFFICES ASSUME FdInv, DetachProbe(p, at) PROVE FdInv'
  BY Zenon
<1>1. UNCHANGED <<alive, fd, link, user>> /\ p \in alive
  BY Zenon DEF DetachProbe
<1>2. PICK gone : gone = {a \in points[p] : a.at = at}
  BY Zenon
<1>3. PICK W : W = {a.pfd : a \in gone}
  BY Zenon
<1>4. points' = [points EXCEPT ![p] = points[p] \ gone] /\ fdt' = Closed(fdt, W)
  BY <1>2, <1>3, Zenon DEF DetachProbe
<1>5. W \in SUBSET Fds /\ W \subseteq OwnedFds(p)
  BY <1>2, <1>3 DEF FdInv, TypeOK, OwnedFds, LinkFds, PointFds
<1>6. /\ points'[p] = points[p] \ gone
      /\ \A q \in Progs \ {p} : points'[q] = points[q]
  BY <1>4, Zenon DEF FdInv, TypeOK
<1>7. \A q \in Progs \ {p} : OwnedFds(q) \cap W = {}
  BY <1>5, OwnersDiffer, Zenon
<1>8. user' = user \ W
  BY <1>1, <1>5, UserDiffers, Zenon
<1>9. /\ fdt' \in [Fds -> Files]
      /\ \A f \in Fds \ W : fdt'[f] = fdt[f]
  BY <1>4, ClosedOn DEF FdInv, TypeOK
<1>10. TypeOK'
  BY <1>1, <1>4, <1>9, Zenon DEF FdInv, TypeOK
<1>11. ASSUME NEW f \in W PROVE fdt[f].type = "perf" /\ fdt[f].at = at
  <2>1. PICK a \in points[p] : a.at = at /\ f = a.pfd
    BY <1>2, <1>3, Zenon
  <2>2. fdt[f] = File("perf", p, at, TRUE)
    BY Zenon, <2>1 DEF FdInv, FilesRight
  <2> QED
    BY <2>2 DEF File
<1>12. FilesRight(p)'
  <2>1. FilesRight(p) /\ TypeOK
    BY Zenon DEF FdInv
  <2>2. ASSUME NEW a \in points'[p] PROVE a.pfd \in Fds \ W
    <3>1. a \in points[p] /\ a.at # at /\ a.pfd \in Fds
      BY <1>2, <1>6, <2>1 DEF TypeOK
    <3>2. fdt[a.pfd] = File("perf", p, a.at, TRUE)
      BY Zenon, <2>1, <3>1 DEF FilesRight
    <3>3. fdt[a.pfd].at = a.at
      BY <3>2 DEF File
    <3> QED
      BY <1>11, <3>1, <3>3, Zenon
  <2>3. ASSUME NEW f \in W PROVE f # fd[p] /\ f # link[p].lfd /\ f # link[p].ns
    <3>1. /\ fd[p] # NoFd => fdt[fd[p]].type = "prog"
          /\ link[p].lfd # NoFd => fdt[link[p].lfd].type = "link"
          /\ link[p].ns # NoFd => fdt[link[p].ns].type = "ns"
      <4>1. /\ fd[p] # NoFd => fdt[fd[p]] = File("prog", p, None, FALSE)
            /\ link[p].lfd # NoFd => fdt[link[p].lfd] = File("link", p, None, TRUE)
            /\ link[p].ns # NoFd => fdt[link[p].ns].type = "ns"
        BY Zenon, <2>1 DEF FilesRight
      <4> QED
        BY <4>1 DEF File
    <3>2. f # NoFd
      BY <1>5, ProgramsAssumption DEF Fds, NoFd
    <3> QED
      BY <1>11, <3>1, <3>2
  <2>4. \A a \in points'[p] : a \in points[p] /\ fdt'[a.pfd] = fdt[a.pfd]
    BY <1>6, <1>9, <2>2, Zenon
  <2>5. /\ fd[p] # NoFd => fdt'[fd[p]] = fdt[fd[p]]
        /\ link[p].lfd # NoFd => fdt'[link[p].lfd] = fdt[link[p].lfd]
        /\ link[p].ns # NoFd => fdt'[link[p].ns] = fdt[link[p].ns]
    BY <1>9, <2>1, <2>3, Zenon DEF TypeOK
  <2> QED
    BY Zenon, <1>1, <1>6, <2>1, <2>4, <2>5 DEF FilesRight
<1>13. OwnedFds(p) \ W \subseteq OwnedFds(p)'
  BY <1>1, <1>3, <1>6, Zenon DEF OwnedFds, LinkFds, PointFds
<1> QED
  BY Zenon, <1>1, <1>4, <1>5, <1>6, <1>7, <1>8, <1>10, <1>12, <1>13, CloseStep

\* The event of a tracepoint is left to the process.
LEMMA AttachTracePointInv ==
  ASSUME NEW p \in Progs, NEW at \in Points
  PROVE  FdInv /\ AttachTracePoint(p, at) => FdInv'
<1> SUFFICES ASSUME FdInv, AttachTracePoint(p, at) PROVE FdInv'
  BY Zenon
<1>1. UNCHANGED <<alive, fd, link, user, points>> /\ Kind[p] = "tracepoint"
  BY Zenon DEF AttachTracePoint, AttachEarlyError
<1>2. CASE UNCHANGED fdt
  BY <1>1, <1>2, IdleStep, Zenon
<1>3. ASSUME NEW out \in AttachOutcomes(p, at), Unused(fdt) # {}, fdt' = Opened(fdt, out.file)
      PROVE  FdInv'
  <2>1. PICK o : o = out.file
    BY Zenon
  <2>2. o \in Files /\ o.type = "perf" /\ o.prog \in {p, None}
    BY Zenon, <2>1, OutcomeFiles
  <2>3. PICK g : g = Lowest(fdt)
    BY Zenon
  <2>4. g \in Fds /\ fdt' \in [Fds -> Files] /\ fdt'[g] = o /\ g \notin user
    BY <1>3, <2>1, <2>2, <2>3, Opening, Zenon
  <2>5. TypeOK'
    BY <1>1, <2>4, Zenon DEF FdInv, TypeOK
  <2>6. HasOwner(g)'
    BY <1>1, <2>2, <2>4, Zenon DEF HasOwner
  <2>7. None \notin Progs
    BY ProgramsAssumption, Zenon
  <2> QED
    BY Zenon, <1>1, <1>3, <2>1, <2>2, <2>3, <2>4, <2>5, <2>6, <2>7, OpenStep
<1> QED
  BY <1>2, <1>3, Zenon DEF AttachTracePoint, AttachEarlyError

\* A socket filter records the socket it opened.
LEMMA AttachSocketFilterInv ==
  ASSUME NEW p \in Progs
  PROVE  FdInv /\ AttachSocketFilter(p) => FdInv'
<1> SUFFICES ASSUME FdInv, AttachSocketFilter(p) PROVE FdInv'
  BY Zenon
<1>1. UNCHANGED <<alive, fd, link, points>>
  BY Zenon DEF AttachSocketFilter
<1>2. PICK o : o = File("sock", p, None, TRUE)
  BY Zenon
<1>3. o \in Files /\ o.type = "sock"
  BY Zenon, <1>2, FileInFiles DEF FileTypes, File
<1>4. CASE UNCHANGED <<fdt, user>>
  BY <1>1, <1>4, IdleStep, Zenon
<1>5. CASE Unused(fdt) # {} /\ fdt' = Closed(Opened(fdt, o), {Lowest(fdt)}) /\ UNCHANGED user
  BY <1>1, <1>3, <1>5, OpenAndClose, Zenon
<1>6. CASE Unused(fdt) # {} /\ fdt' = Opened(fdt, o) /\ user' = user \cup {Lowest(fdt)}
  <2>1. PICK g : g = Lowest(fdt)
    BY Zenon
  <2>2. g \in Fds /\ fdt' \in [Fds -> Files] /\ fdt'[g] = o
    BY Zenon, <1>3, <1>6, <2>1, Opening
  <2>3. TypeOK'
    BY <1>1, <1>6, <2>1, <2>2, Zenon DEF FdInv, TypeOK
  <2>4. HasOwner(g)'
    BY <1>6, <2>1, Zenon DEF HasOwner
  <2>5. None \notin Progs
    BY ProgramsAssumption, Zenon
  <2> QED
    BY Zenon, <1>1, <1>3, <1>6, <2>1, <2>2, <2>3, <2>4, <2>5, OpenStep
<1> QED
  BY Zenon, <1>2, <1>4, <1>5, <1>6 DEF AttachSocketFilter

\* What opening two descriptors, one after the other, does to the table.
LEMMA OpeningTwo ==
  ASSUME FdInv, NEW o1 \in Files, NEW o2 \in Files, o1 # Free, NEW t, NEW g1, NEW g2,
         Unused(fdt) # {}, g1 = Lowest(fdt), t = Opened(fdt, o1),
         Unused(t) # {}, g2 = Lowest(t), fdt' = Opened(t, o2)
  PROVE  /\ {g1, g2} \in SUBSET Fds /\ g1 # NoFd /\ g2 # NoFd /\ g1 # g2
         /\ fdt' \in [Fds -> Files]
         /\ fdt'[g1] = o1 /\ fdt'[g2] = o2
         /\ \A f \in Fds \ {g1, g2} : fdt'[f] = fdt[f]
         /\ {g1, g2} \cap user = {}
         /\ \A q \in Progs : OwnedFds(q) \cap {g1, g2} = {}
         /\ \A q \in Progs : \A f \in OwnedFds(q) : fdt'[f] = fdt[f]
<1>1. fdt \in [Fds -> Files]
  BY Zenon DEF FdInv, TypeOK
<1>2. g1 \in Fds /\ fdt[g1] = Free /\ g2 \in Fds /\ t[g2] = Free /\ g1 # NoFd /\ g2 # NoFd
  BY LowestUnused, ProgramsAssumption DEF Fds, NoFd
<1>3. /\ t \in [Fds -> Files] /\ t[g1] = o1
      /\ \A f \in Fds \ {g1} : t[f] = fdt[f]
  <2>1. /\ Opened(fdt, o1) \in [Fds -> Files]
        /\ Opened(fdt, o1)[Lowest(fdt)] = o1
        /\ \A f \in Fds \ {Lowest(fdt)} : Opened(fdt, o1)[f] = fdt[f]
    BY Zenon, <1>1, OpenedAt
  <2> QED
    BY <2>1, Zenon
<1>4. /\ fdt' \in [Fds -> Files] /\ fdt'[g2] = o2
      /\ \A f \in Fds \ {g2} : fdt'[f] = t[f]
  <2>1. /\ Opened(t, o2) \in [Fds -> Files]
        /\ Opened(t, o2)[Lowest(t)] = o2
        /\ \A f \in Fds \ {Lowest(t)} : Opened(t, o2)[f] = t[f]
    BY Zenon, <1>3, OpenedAt
  <2> QED
    BY <2>1, Zenon
<1>5. g1 # g2 /\ fdt[g2] = Free
  BY <1>2, <1>3, Zenon
<1>6. fdt[g1].type = "free" /\ fdt[g2].type = "free"
  BY <1>2, <1>5 DEF Free, File
<1>7. /\ g1 \notin user /\ g2 \notin user
      /\ \A q \in Progs : g1 \notin OwnedFds(q) /\ g2 \notin OwnedFds(q)
  BY <1>2, <1>6, FreeHasNone, Zenon
<1>8. \A q \in Progs : \A f \in OwnedFds(q) : f \in Fds
  BY OwnedFiles, Zenon DEF FdInv
<1>9. \A f \in Fds \ {g1, g2} : fdt'[f] = fdt[f]
  BY <1>3, <1>4, Zenon
<1>10. /\ {g1, g2} \cap user = {}
       /\ \A q \in Progs : OwnedFds(q) \cap {g1, g2} = {}
       /\ \A q \in Progs : \A f \in OwnedFds(q) : f \in Fds \ {g1, g2}
  BY <1>7, <1>8, Zenon
<1>11. {g1, g2} \in SUBSET Fds /\ fdt'[g1] = o1
  BY <1>2, <1>3, <1>4, <1>5, Zenon
<1> QED
  BY Zenon, <1>2, <1>4, <1>5, <1>9, <1>10, <1>11

\* The link is recorded, and the namespace is closed again.
LEMMA AttachSkLookupInv ==
  ASSUME NEW p \in Progs
  PROVE  FdInv /\ AttachSkLookup(p) => FdInv'
<1> SUFFICES ASSUME FdInv, AttachSkLookup(p) PROVE FdInv'
  BY Zenon
<1>1. UNCHANGED <<alive, fd, user, points>> /\ p \in alive
  BY Zenon DEF AttachSkLookup
<1>2. PICK o1 : o1 = File("ns", None, None, FALSE)
  BY Zenon
<1>3. o1 \in Files /\ o1.type = "ns"
  BY Zenon, <1>2, FileInFiles DEF FileTypes, File
<1>4. PICK o2 : o2 = File("link", p, None, TRUE)
  BY Zenon
<1>5. o2 \in Files /\ o1 # Free
  <2>1. o2 \in Files
    BY Zenon, <1>4, FileInFiles DEF FileTypes
  <2>2. Free.type = "free"
    BY Zenon DEF Free, File
  <2> QED
    BY <1>3, <2>1, <2>2, Zenon
<1>6. PICK t : t = Opened(fdt, o1)
  BY Zenon
<1>7. CASE UNCHANGED <<fdt, link>>
  BY <1>1, <1>7, IdleStep, Zenon
<1>8. CASE Unused(fdt) # {} /\ fdt' = Closed(t, {Lowest(fdt)}) /\ UNCHANGED link
  BY <1>1, <1>3, <1>6, <1>8, OpenAndClose, Zenon
<1>9. ASSUME link[p] = NoLink, Unused(fdt) # {}, Unused(t) # {}, fdt' = Opened(t, o2),
             link' = [link EXCEPT ![p] = [ns |-> Lowest(fdt), lfd |-> Lowest(t)]]
      PROVE  FdInv'
  <2>1. PICK g1 : g1 = Lowest(fdt)
    BY Zenon
  <2>2. PICK g2 : g2 = Lowest(t)
    BY Zenon
  <2>3. PICK W : W = {g1, g2}
    BY Zenon
  <2>4. /\ W \in SUBSET Fds /\ g1 # NoFd /\ g2 # NoFd
        /\ fdt' \in [Fds -> Files]
        /\ fdt'[g1] = o1 /\ fdt'[g2] = o2
        /\ \A f \in Fds \ W : fdt'[f] = fdt[f]
        /\ W \cap user = {}
        /\ \A q \in Progs : OwnedFds(q) \cap W = {}
        /\ \A f \in OwnedFds(p) : fdt'[f] = fdt[f]
    <3>1. Unused(fdt) # {} /\ Unused(t) # {} /\ fdt' = Opened(t, o2) /\ o1 \in Files
      BY Zenon, <1>3, <1>9
    <3> HIDE <1>9
    <3>2. /\ {g1, g2} \in SUBSET Fds /\ g1 # NoFd /\ g2 # NoFd
          /\ fdt' \in [Fds -> Files]
          /\ fdt'[g1] = o1 /\ fdt'[g2] = o2
          /\ \A f \in Fds \ {g1, g2} : fdt'[f] = fdt[f]
          /\ {g1, g2} \cap user = {}
          /\ \A q \in Progs : OwnedFds(q) \cap {g1, g2} = {}
          /\ \A q \in Progs : \A f \in OwnedFds(q) : fdt'[f] = fdt[f]
      BY <1>5, <1>6, <2>1, <2>2, <3>1, OpeningTwo
    <3> QED
      BY Zenon, <2>3, <3>2
  <2>5. /\ link' = [link EXCEPT ![p] = [ns |-> g1, lfd |-> g2]]
        /\ link'[p] = [ns |-> g1, lfd |-> g2]
        /\ \A q \in Progs \ {p} : link'[q] = link[q]
    BY Zenon, <1>9, <2>1, <2>2 DEF FdInv, TypeOK
  <2>6. TypeOK'
    BY <1>1, <2>3, <2>4, <2>5, Zenon DEF FdInv, TypeOK
  <2>7. OwnedFds(p) \subseteq OwnedFds(p)' /\ W \subseteq OwnedFds(p)'
    <3>1. link[p].ns = NoFd /\ link[p].lfd = NoFd
      BY <1>9 DEF NoLink
    <3>2. link'[p].ns = g1 /\ link'[p].lfd = g2
      BY <2>5
    <3>3. g1 # NoFd /\ g2 # NoFd
      BY Zenon, <2>4
    <3>4. fd' = fd /\ points' = points
      BY Zenon, <1>1
    <3> QED
      BY <2>3, <3>1, <3>2, <3>3, <3>4, Zenon DEF OwnedFds, LinkFds, PointFds
  <2>8. FilesRight(p)'
    <3>1. FilesRight(p)
      BY Zenon DEF FdInv
    <3>2. /\ \A a \in points[p] : fdt'[a.pfd] = fdt[a.pfd]
          /\ fd[p] # NoFd => fdt'[fd[p]] = fdt[fd[p]]
      <4>1. \A f \in OwnedFds(p) : fdt'[f] = fdt[f]
        BY Zenon, <2>4
      <4> QED
        BY <4>1, Zenon DEF OwnedFds, LinkFds, PointFds
    <3>3. link'[p].lfd = g2 /\ link'[p].ns = g1
      BY <2>5
    <3>4. /\ fdt'[link'[p].lfd] = File("link", p, None, TRUE)
          /\ fdt'[link'[p].ns].type = "ns" /\ link'[p].lfd # NoFd
      BY Zenon, <1>3, <1>4, <2>4, <3>3
    <3> QED
      BY Zenon, <1>1, <3>1, <3>2, <3>4 DEF FilesRight
  <2>9. \A f \in W : HasOwner(f)'
    BY Zenon, <1>1, <2>7 DEF HasOwner
  <2>10. link'[p].ns \in {NoFd, link[p].ns} \cup W
    BY <2>3, <2>5
  <2> QED
    BY Zenon, <1>1, <2>4, <2>5, <2>6, <2>7, <2>8, <2>9, <2>10, StepOf
<1> QED
  BY <1>2, <1>4, <1>6, <1>7, <1>8, <1>9, Zenon DEF AttachSkLookup

\* The link and the iterator are recorded or closed, whichever call fails.
LEMMA BpfIterInv ==
  ASSUME NEW p \in Progs
  PROVE  FdInv /\ BpfIter(p) => FdInv'
<1> SUFFICES ASSUME FdInv, BpfIter(p) PROVE FdInv'
  BY Zenon
<1>1. UNCHANGED <<alive, fd, points>> /\ p \in alive
  BY Zenon DEF BpfIter
<1>2. PICK o1 : o1 = File("link", p, None, TRUE)
  BY Zenon
<1>3. PICK o2 : o2 = File("iter", None, None, FALSE)
  BY Zenon
<1>4. o1 \in Files /\ o2 \in Files /\ o1 # Free /\ o2.type = "iter"
  <2>1. o1 \in Files
    BY Zenon, <1>2, FileInFiles DEF FileTypes
  <2>2. o2 \in Files /\ o2.type = "iter"
    BY Zenon, <1>3, FileInFiles DEF FileTypes, File
  <2>3. Free.type = "free"
    BY Zenon DEF Free, File
  <2>4. o1.type = "link"
    BY <1>2, Zenon DEF File
  <2> QED
    BY <2>1, <2>2, <2>3, <2>4, Zenon
<1>5. None \notin Progs
  BY ProgramsAssumption, Zenon
<1>6. CASE UNCHANGED <<fdt, link, user>>
  BY <1>1, <1>6, IdleStep, Zenon
\* The link is there: only an iterator is opened, if at all.
<1>7. ASSUME link[p] # NoLink, link' = [link EXCEPT ![p].lfd = link[p].lfd],
             \/ Unused(fdt) # {} /\ fdt' = Opened(fdt, o2) /\ user' = user \cup {Lowest(fdt)}
             \/ UNCHANGED <<fdt, user>>
      PROVE  FdInv'
  <2>1. link' = link
    BY <1>7, Zenon DEF FdInv, TypeOK
  <2>2. CASE UNCHANGED <<fdt, user>>
    BY <1>1, <2>1, <2>2, IdleStep, Zenon
  <2>3. CASE Unused(fdt) # {} /\ fdt' = Opened(fdt, o2) /\ user' = user \cup {Lowest(fdt)}
    <3>1. PICK g : g = Lowest(fdt)
      BY Zenon
    <3>2. g \in Fds /\ fdt' \in [Fds -> Files] /\ fdt'[g] = o2
      BY Zenon, <1>4, <2>3, <3>1, Opening
    <3>3. TypeOK'
      BY <1>1, <2>1, <2>3, <3>1, <3>2, Zenon DEF FdInv, TypeOK
    <3>4. HasOwner(g)'
      BY <2>3, <3>1, Zenon DEF HasOwner
    <3> QED
      BY Zenon, <1>1, <1>4, <1>5, <2>1, <2>3, <3>1, <3>2, <3>3, <3>4, OpenStep
  <2> QED
    BY <1>7, <2>2, <2>3, Zenon
\* The link is made.  Then the iterator is opened or not.
<1>8. ASSUME link[p] = NoLink, Unused(fdt) # {}, link' = [link EXCEPT ![p].lfd = Lowest(fdt)],
             NEW t, t = Opened(fdt, o1),
             NEW iter \in BOOLEAN,
             iter => Unused(t) # {} /\ fdt' = Opened(t, o2) /\ user' = user \cup {Lowest(t)},
             ~iter => fdt' = t /\ user' = user
      PROVE  FdInv'
  <2>1. PICK g : g = Lowest(fdt)
    BY Zenon
  <2>2. /\ link'[p] = [ns |-> NoFd, lfd |-> g]
        /\ \A q \in Progs \ {p} : link'[q] = link[q]
    BY <1>8, <2>1 DEF FdInv, TypeOK, NoLink
  <2>3. PICK W : W = IF iter THEN {g, Lowest(t)} ELSE {g}
    BY Zenon
  <2>4. /\ W \in SUBSET Fds /\ g \in W /\ g # NoFd
        /\ fdt' \in [Fds -> Files]
        /\ fdt'[g] = o1
        /\ \A f \in Fds \ W : fdt'[f] = fdt[f]
        /\ \A f \in W \ {g} : fdt'[f] = o2 /\ f \in user'
        /\ W \cap user = {}
        /\ user' = user \cup (W \ {g})
        /\ \A q \in Progs : OwnedFds(q) \cap W = {}
        /\ \A f \in OwnedFds(p) : fdt'[f] = fdt[f]
    <3>1. CASE ~iter
      <4>1. W = {g}
        BY <2>3, <3>1, Zenon
      <4> QED
        BY <1>4, <1>8, <2>1, <3>1, <4>1, Opening, Zenon
    <3>2. CASE iter
      <4>1. PICK h : h = Lowest(t)
        BY Zenon
      <4>2. W = {g, h} /\ user' = user \cup {h}
        BY <1>8, <2>3, <3>2, <4>1, Zenon
      <4>3. /\ {g, h} \in SUBSET Fds /\ g # NoFd /\ g # h
            /\ fdt' \in [Fds -> Files]
            /\ fdt'[g] = o1 /\ fdt'[h] = o2
            /\ \A f \in Fds \ {g, h} : fdt'[f] = fdt[f]
            /\ {g, h} \cap user = {}
            /\ \A q \in Progs : OwnedFds(q) \cap {g, h} = {}
            /\ \A f \in OwnedFds(p) : fdt'[f] = fdt[f]
        BY <1>4, <1>8, <2>1, <3>2, <4>1, OpeningTwo
      <4> QED
        BY Zenon, <4>2, <4>3
    <3> QED
      BY Zenon, <3>1, <3>2
  <2>5. TypeOK'
    <3>1. link' \in [Progs -> [ns : Fds \cup {NoFd}, lfd : Fds \cup {NoFd}]]
      BY <1>8, <2>1, <2>4 DEF FdInv, TypeOK
    <3> QED
      BY Zenon, <1>1, <2>4, <3>1 DEF FdInv, TypeOK
  <2>6. OwnedFds(p) \subseteq OwnedFds(p)' /\ g \in OwnedFds(p)'
    BY <1>1, <1>8, <2>2, <2>4 DEF OwnedFds, LinkFds, PointFds, NoLink
  <2>7. FilesRight(p)'
    <3>1. FilesRight(p)
      BY Zenon DEF FdInv
    <3>2. /\ \A a \in points[p] : fdt'[a.pfd] = fdt[a.pfd]
          /\ fd[p] # NoFd => fdt'[fd[p]] = fdt[fd[p]]
      <4>1. \A f \in OwnedFds(p) : fdt'[f] = fdt[f]
        BY Zenon, <2>4
      <4> QED
        BY <4>1, Zenon DEF OwnedFds, LinkFds, PointFds
    <3>3. link'[p].lfd = g /\ link'[p].ns = NoFd
      BY <2>2
    <3>4. fdt'[link'[p].lfd] = File("link", p, None, TRUE)
      BY Zenon, <1>2, <2>4, <3>3
    <3> QED
      BY Zenon, <1>1, <3>1, <3>2, <3>3, <3>4 DEF FilesRight
  <2>8. \A f \in W : HasOwner(f)'
    BY Zenon, <1>1, <2>4, <2>6 DEF HasOwner
  <2>9. link'[p].ns \in {NoFd, link[p].ns} \cup W
    <3>1. link'[p] = [ns |-> NoFd, lfd |-> g]
      BY Zenon, <2>2
    <3> QED
      BY <3>1
  <2>10. /\ \A f \in Fds \ W : fdt'[f] = fdt[f] /\ (f \in user' <=> f \in user)
         /\ \A f \in W \cap user' : fdt'[f].type \in {"sock", "iter"}
    BY <1>4, <2>4, Zenon
  <2> QED
    <3>1. \A q \in Progs \ {p} :
            /\ fd'[q] = fd[q] /\ points'[q] = points[q] /\ link'[q] = link[q]
            /\ q \in alive' <=> q \in alive
            /\ OwnedFds(q) \cap W = {}
      BY Zenon, <1>1, <2>2, <2>4
    <3>2. /\ W \in SUBSET Fds /\ p \in alive' /\ OwnedFds(p) \ W \subseteq OwnedFds(p)'
      BY Zenon, <1>1, <2>4, <2>6
    <3> QED
      BY Zenon, <2>5, <2>7, <2>8, <2>9, <2>10, <3>1, <3>2, StepOf
<1>9. ASSUME link[p] = NoLink, Unused(fdt) # {}, link' = [link EXCEPT ![p].lfd = Lowest(fdt)],
             \/ /\ Unused(Opened(fdt, o1)) # {} /\ fdt' = Opened(Opened(fdt, o1), o2)
                /\ user' = user \cup {Lowest(Opened(fdt, o1))}
             \/ fdt' = Opened(fdt, o1) /\ user' = user
      PROVE  FdInv'
  <2>1. PICK t : t = Opened(fdt, o1)
    BY Zenon
  <2>2. CASE fdt' = t /\ user' = user
    BY Zenon, <1>8, <1>9, <2>1, <2>2
  <2>3. CASE Unused(t) # {} /\ fdt' = Opened(t, o2) /\ user' = user \cup {Lowest(t)}
    BY Zenon, <1>8, <1>9, <2>1, <2>3
  <2> QED
    BY <1>9, <2>1, <2>2, <2>3, Zenon
<1> QED
  BY Zenon, <1>2, <1>3, <1>6, <1>7, <1>9 DEF BpfIter

\* Drop closes what the program recorded, and nothing else.
LEMMA DropInv ==
  ASSUME NEW p \in Progs
  PROVE  FdInv /\ Drop(p) => FdInv'
<1> SUFFICES ASSUME FdInv, Drop(p) PROVE FdInv'
  BY Zenon
<1>1. PICK W : W = OwnedFds(p)
  BY Zenon
<1>2. fdt' = Closed(fdt, W) /\ alive' = alive \ {p} /\ user' = user
  BY <1>1, Zenon DEF Drop
<1>3. W \in SUBSET Fds /\ user' = user \ W
  BY Zenon, <1>1, <1>2, OwnedFiles, UserDiffers DEF FdInv
<1>4. /\ fd'[p] = NoFd /\ points'[p] = {} /\ link'[p] = NoLink
      /\ \A q \in Progs \ {p} : fd'[q] = fd[q] /\ points'[q] = points[q] /\ link'[q] = link[q]
  BY Zenon DEF Drop, FdInv, TypeOK
<1>5. fdt' \in [Fds -> Files]
  BY <1>2, ClosedOn, Zenon DEF FdInv, TypeOK
<1>6. TypeOK'
  BY Zenon, <1>2, <1>5 DEF Drop, FdInv, TypeOK, NoLink
<1>7. FilesRight(p)'
  <2>1. fd'[p] = NoFd /\ points'[p] = {} /\ link'[p] = NoLink
    BY Zenon, <1>4
  <2>2. link'[p].ns = NoFd /\ link'[p].lfd = NoFd
    BY <2>1 DEF NoLink
  <2> QED
    BY Zenon, <2>1, <2>2 DEF FilesRight
<1>8. \A q \in Progs \ {p} : OwnedFds(q) \cap W = {}
  BY <1>1, OwnersDiffer, Zenon
<1>9. link'[p].ns = NoFd
  <2>1. link'[p] = NoLink
    BY Zenon, <1>4
  <2> QED
    BY <2>1 DEF NoLink
<1> QED
  BY Zenon, <1>1, <1>2, <1>3, <1>4, <1>6, <1>7, <1>8, <1>9, CloseStep

\* A process that has loaded nothing satisfies the invariant.
LEMMA FdInvInit == Init => FdInv
<1> SUFFICES ASSUME Init PROVE FdInv
  BY Zenon
<1>1. Free \in Files /\ Free.type = "free"
  BY Zenon, FileInFiles DEF Free, File, FileTypes
<1>2. TypeOK
  BY <1>1, ProgramsAssumption, Zenon DEF Init, TypeOK, NoLink
<1>3. \A p \in Progs : FilesRight(p)
  BY Zenon DEF Init, FilesRight, NoLink
<1>4. NamespacesApart
  BY Zenon DEF Init, NamespacesApart, NoLink
<1>5. \A f \in Fds : HasOwner(f)
  BY <1>1, Zenon DEF Init, HasOwner
<1> QED
  BY <1>2, <1>3, <1>4, <1>5, Zenon DEF FdInv, Init

\* Every step keeps the invariant.
LEMMA FdInvNext == FdInv /\ [Next]_vars => FdInv'
<1> SUFFICES ASSUME FdInv, [Next]_vars PROVE FdInv'
  BY Zenon
<1>1. CASE UNCHANGED vars
  BY <1>1, IdleStep, Zenon DEF vars
<1>2. CASE IfaceChange
  BY <1>2, IdleStep, Zenon DEF IfaceChange
<1>3. ASSUME NEW p \in Progs, NEW i \in Ifaces, NEW flags \in FlagSet, AttachXdp(p, i, flags)
      PROVE  FdInv'
  BY <1>3, IdleStep, Zenon DEF AttachXdp
<1>4. ASSUME NEW p \in Progs, NEW i \in Ifaces, DetachXdp(p, i)
      PROVE  FdInv'
  BY <1>4, IdleStep, Zenon DEF DetachXdp
<1>5. ASSUME NEW p \in Progs, AttachSockmap(p)
      PROVE  FdInv'
  BY <1>5, IdleStep, Zenon DEF AttachSockmap
<1> QED
  BY <1>1, <1>2, <1>3, <1>4, <1>5, OtherOpenInv, OtherCloseInv, UserCloseInv, LoadInv, DropInv,
     AttachProbeInv, DetachProbeInv, AttachTracePointInv, AttachSocketFilterInv,
     AttachSkLookupInv, BpfIterInv, Zenon DEF Next

\* Every descriptor that redbpf opens, on every path, is recorded by exactly
\* one owner and still what that owner opened, the perf events of tracepoints
\* excepted.
THEOREM DescriptorsOwned == Spec => []OwnedFdsRight
BY FdInvInit, FdInvNext, FdInvImplies, PTL DEF Spec

-----------------------------------------------------------------------------
(* Detaching                                                               *)

DefaultMode == FlagSet \subseteq {"Unset", "UpdateIfNoExist"}

Slots == Ifaces \X Modes

\* Who sits in the slots of the interfaces, in the default mode.
XdpInv ==
  /\ xdp \in [Slots -> Progs \cup {None}]
  /\ up \subseteq Ifaces
  /\ ifaces \in [Progs -> [Ifaces -> Nat]]
  /\ \A s \in Slots :
       xdp[s] # None =>
         /\ s[1] \in up /\ s[2] \in ModesOf("Unset", s[1])
         /\ xdp[s] \in alive /\ ifaces[xdp[s]][s[1]] > 0

\* detach_xdp and Drop empty the slots of the interfaces they name.
LEMMA DetachedSlots ==
  ASSUME XdpInv, NEW I \in SUBSET Ifaces
  PROVE  /\ Detached(I) \in [Slots -> Progs \cup {None}]
         /\ \A s \in Slots : Detached(I)[s] = IF s[1] \in I THEN None ELSE xdp[s]
<1>1. Detached(I) = [s \in Slots |->
         IF s[1] \in I \cap up /\ s[2] \in ModesOf("Unset", s[1]) THEN None ELSE xdp[s]]
  BY Zenon DEF XdpInv, Detached
<1> QED
  BY <1>1, Zenon DEF XdpInv

\* A step that leaves the slots and the names alone and drops no program.
LEMMA XdpIdle ==
  ASSUME XdpInv, UNCHANGED <<xdp, up, alive, ifaces>>
  PROVE  XdpInv'
BY Zenon DEF XdpInv

\* Every step keeps XDP programs in the slots they are recorded for.
LEMMA XdpInvNext ==
  ASSUME DefaultMode, TypeOK, XdpInv, [Next]_vars
  PROVE  XdpInv'
<1>1. CASE UNCHANGED <<xdp, up, alive, ifaces>>
  BY <1>1, XdpIdle, Zenon
<1>2. CASE IfaceChange
  <2>1. UNCHANGED <<alive, ifaces>>
    BY <1>2, Zenon DEF IfaceChange
  <2>2. PICK i \in Ifaces :
          \/ /\ i \in up /\ up' = up \ {i}
             /\ xdp' = [s \in DOMAIN xdp |-> IF s[1] = i THEN None ELSE xdp[s]]
          \/ i \notin up /\ up' = up \cup {i} /\ UNCHANGED xdp
    BY <1>2, Zenon DEF IfaceChange
  <2> QED
    BY <2>1, <2>2, Zenon DEF XdpInv
<1>3. ASSUME NEW p \in Progs, NEW i \in Ifaces, NEW flags \in FlagSet, AttachXdp(p, i, flags)
      PROVE  XdpInv'
  <2>1. UNCHANGED <<alive, up>> /\ p \in alive
    BY <1>3, Zenon DEF AttachXdp
  <2>2. CASE UNCHANGED <<ifaces, xdp>>
    BY <2>1, <2>2, XdpIdle, Zenon
  <2>3. ASSUME ifaces' = [ifaces EXCEPT ![p][i] = @ + 1]
        PROVE  /\ ifaces' \in [Progs -> [Ifaces -> Nat]]
               /\ ifaces'[p][i] > 0
               /\ \A q \in Progs, k \in Ifaces : ifaces[q][k] > 0 => ifaces'[q][k] > 0
    BY <2>3 DEF XdpInv
  <2>4. CASE ifaces' = [ifaces EXCEPT ![p][i] = @ + 1] /\ UNCHANGED xdp
    BY <2>1, <2>3, <2>4, Zenon DEF XdpInv, TypeOK
  <2>5. ASSUME ifaces' = [ifaces EXCEPT ![p][i] = @ + 1],
               NEW m \in ModesOf(flags, i), SlotAccepts(flags, i, m),
               xdp' = [xdp EXCEPT ![<<i, m>>] = p]
        PROVE  XdpInv'
    <3>1. m \in ModesOf("Unset", i) /\ m \in Modes /\ i \in up
      BY <2>5, Zenon DEF DefaultMode, ModesOf, Modes, SlotAccepts
    <3>2. /\ xdp' \in [Slots -> Progs \cup {None}]
          /\ \A s \in Slots : xdp'[s] = IF s = <<i, m>> THEN p ELSE xdp[s]
      BY <2>5, <3>1, Zenon DEF XdpInv, Slots
    <3>3. /\ ifaces' \in [Progs -> [Ifaces -> Nat]]
          /\ ifaces'[p][i] > 0
          /\ \A q \in Progs, k \in Ifaces : ifaces[q][k] > 0 => ifaces'[q][k] > 0
      BY Zenon, <2>3, <2>5
    <3>4. ASSUME NEW s \in Slots, xdp'[s] # None
          PROVE  /\ s[1] \in up' /\ s[2] \in ModesOf("Unset", s[1])
                 /\ xdp'[s] \in alive' /\ ifaces'[xdp'[s]][s[1]] > 0
      <4>1. CASE s = <<i, m>>
        BY <2>1, <3>1, <3>2, <3>3, <4>1, Zenon
      <4>2. CASE s # <<i, m>>
        <5>1. xdp'[s] = xdp[s] /\ xdp[s] # None
          BY Zenon, <3>2, <3>4, <4>2
        <5>2. /\ s[1] \in up /\ s[2] \in ModesOf("Unset", s[1])
              /\ xdp[s] \in alive /\ ifaces[xdp[s]][s[1]] > 0
          BY Zenon, <5>1 DEF XdpInv
        <5>3. s[1] \in Ifaces /\ xdp[s] \in Progs
          BY <5>2, Zenon DEF Slots, TypeOK
        <5> QED
          BY <2>1, <3>3, <5>1, <5>2, <5>3, Zenon
      <4> QED
        BY Zenon, <4>1, <4>2
    <3>5. up' \subseteq Ifaces
      BY <2>1, Zenon DEF XdpInv
    <3> QED
      BY Zenon, <3>2, <3>3, <3>4, <3>5 DEF XdpInv
  <2> QED
    BY Zenon, <1>3, <2>2, <2>4, <2>5 DEF AttachXdp
<1>4. ASSUME NEW p \in Progs, NEW i \in Ifaces, DetachXdp(p, i)
      PROVE  XdpInv'
  <2>1. UNCHANGED <<alive, up>>
    BY <1>4, Zenon DEF DetachXdp
  <2>2. CASE UNCHANGED <<ifaces, xdp>>
    BY <2>1, <2>2, XdpIdle, Zenon
  <2>3. CASE ifaces[p][i] > 0 /\ xdp' = Detached({i}) /\ ifaces' = [ifaces EXCEPT ![p][i] = @ - 1]
    <3>1. /\ xdp' \in [Slots -> Progs \cup {None}]
          /\ \A s \in Slots : xdp'[s] = IF s[1] = i THEN None ELSE xdp[s]
      BY <2>3, DetachedSlots
    <3>2. /\ ifaces' \in [Progs -> [Ifaces -> Nat]]
          /\ \A q \in Progs, k \in Ifaces \ {i} : ifaces'[q][k] = ifaces[q][k]
      BY <2>3 DEF XdpInv
    <3> QED
      BY <2>1, <3>1, <3>2 DEF XdpInv, TypeOK, Slots
  <2> QED
    BY <1>4, <2>2, <2>3, Zenon DEF DetachXdp
<1>5. ASSUME NEW p \in Progs, Drop(p)
      PROVE  XdpInv'
  <2>1. PICK I : I = {i \in Ifaces : ifaces[p][i] > 0}
    BY Zenon
  <2>2. xdp' = Detached(I) /\ UNCHANGED up /\ alive' = alive \ {p}
    BY <1>5, <2>1, Zenon DEF Drop, DropXdp
  <2>3. I \in SUBSET Ifaces
    BY <2>1, Zenon
  <2>4. /\ xdp' \in [Slots -> Progs \cup {None}]
        /\ \A s \in Slots : xdp'[s] = IF s[1] \in I THEN None ELSE xdp[s]
    BY <2>2, <2>3, DetachedSlots, Zenon
  <2>5. /\ ifaces' \in [Progs -> [Ifaces -> Nat]]
        /\ \A q \in Progs \ {p} : ifaces'[q] = ifaces[q]
    BY <1>5, Zenon DEF Drop, DropXdp, XdpInv
  <2>6. ASSUME NEW s \in Slots, xdp'[s] # None
        PROVE  /\ s[1] \in up' /\ s[2] \in ModesOf("Unset", s[1])
               /\ xdp'[s] \in alive' /\ ifaces'[xdp'[s]][s[1]] > 0
    <3>1. s[1] \notin I /\ xdp'[s] = xdp[s] /\ s[1] \in Ifaces
      BY <2>4, <2>6, Zenon DEF Slots
    <3>2. /\ s[1] \in up /\ s[2] \in ModesOf("Unset", s[1])
          /\ xdp[s] \in alive /\ ifaces[xdp[s]][s[1]] > 0
      BY <2>6, <3>1, Zenon DEF XdpInv
    <3>3. xdp[s] # p
      BY <2>1, <3>1, <3>2, Zenon
    <3> QED
      BY Zenon, <2>2, <2>5, <3>1, <3>2, <3>3 DEF TypeOK
  <2> QED
    BY <2>2, <2>4, <2>5, <2>6, Zenon DEF XdpInv
<1>6. ASSUME NEW p \in Progs,
             \/ Load(p) \/ AttachSocketFilter(p) \/ AttachSkLookup(p) \/ BpfIter(p)
             \/ AttachSockmap(p)
             \/ \E at \in Points :
                  AttachProbe(p, at) \/ DetachProbe(p, at) \/ AttachTracePoint(p, at)
      PROVE  UNCHANGED <<xdp, up, alive, ifaces>>
  BY Zenon, <1>6 DEF Load, AttachSocketFilter, AttachSkLookup, BpfIter, AttachSockmap, AttachProbe,
              DetachProbe, AttachTracePoint
<1>7. CASE OtherOpen \/ OtherClose \/ UserClose \/ UNCHANGED vars
  BY Zenon, <1>1, <1>7 DEF OtherOpen, OtherClose, UserClose, vars
<1> QED
  BY <1>1, <1>2, <1>3, <1>4, <1>5, <1>6, <1>7, Zenon DEF Next

\* Slots are empty at the start.
LEMMA XdpInvInit == Init => XdpInv
BY DEF Init, XdpInv, Slots

\* The program of a kprobe or uprobe records each event that runs it.
EventsRecorded ==
  \A f \in Fds, p \in Progs :
    fdt[f].type = "perf" /\ fdt[f].prog = p /\ Kind[p] # "tracepoint" =>
      \E a \in points[p] : a.pfd = f /\ a.at = fdt[f].at

\* An event that runs a program is recorded by it.
LEMMA EventsRecordedInv == FdInv => EventsRecorded
<1> SUFFICES ASSUME FdInv, NEW f \in Fds, NEW p \in Progs,
                    fdt[f].type = "perf", fdt[f].prog = p, Kind[p] # "tracepoint"
             PROVE  \E a \in points[p] : a.pfd = f /\ a.at = fdt[f].at
  BY Zenon DEF EventsRecorded
<1>1. f \notin user
  BY Zenon DEF FdInv
<1>2. PICK q \in alive : f \in OwnedFds(q)
  BY <1>1, ProgramsAssumption, Zenon DEF FdInv, HasOwner
<1>3. q \in Progs /\ TypeOK /\ FilesRight(q)
  BY Zenon, <1>2 DEF FdInv, TypeOK
<1>4. \/ f = fd[q] /\ fdt[f].type = "prog" /\ fdt[f].prog = q
      \/ f = link[q].ns /\ fdt[f].type = "ns"
      \/ f = link[q].lfd /\ fdt[f].type = "link" /\ fdt[f].prog = q
      \/ /\ fdt[f].type = "perf" /\ fdt[f].prog = q
         /\ \E a \in points[q] : f = a.pfd /\ fdt[f].at = a.at
  BY Zenon, <1>2, <1>3, OwnedFiles
<1>5. /\ fdt[f].prog = q
      /\ \E a \in points[q] : f = a.pfd /\ fdt[f].at = a.at
  BY <1>4, Zenon
<1> QED
  BY Zenon, <1>5

\* After detach_kprobe or detach_uprobe no event at that point runs the program.
LEMMA ProbeDetached ==
  ASSUME FdInv, FdInv', NEW p \in Progs, NEW at \in Points, DetachProbe(p, at)
  PROVE  \A f \in Fds : fdt'[f].type = "perf" => fdt'[f].prog # p \/ fdt'[f].at # at
<1>1. Kind[p] \in {"kprobe", "uprobe"}
  BY Zenon DEF DetachProbe
<1>2. points'[p] = {a \in points[p] : a.at # at}
  BY Zenon DEF DetachProbe, FdInv, TypeOK
<1>3. EventsRecorded'
  BY EventsRecordedInv, PTL
<1> QED
  BY <1>1, <1>2, <1>3 DEF EventsRecorded

\* What the last call leaves behind.
Detachments ==
  /\ ret.op = "detach" =>
       \A f \in Fds : fdt[f].type = "perf" => fdt[f].prog # ret.prog \/ fdt[f].at # ret.at
  /\ XdpDetachComplete

\* Every step keeps what successful detaches have promised.
LEMMA DetachmentsNext ==
  ASSUME FdInv, FdInv', XdpInv, Detachments, [Next]_vars
  PROVE  Detachments'
<1>1. CASE UNCHANGED vars
  BY <1>1, Zenon DEF vars, Detachments, XdpDetachComplete
<1>2. ASSUME NEW p \in Progs, NEW at \in Points, DetachProbe(p, at)
      PROVE  Detachments'
  <2>1. ret' = [op |-> "detach", prog |-> p, at |-> at, res |-> "Ok"]
    BY Zenon, <1>2 DEF DetachProbe, Returns
  <2>2. ret'.op = "detach" /\ ret'.prog = p /\ ret'.at = at
    BY <2>1, Zenon
  <2> QED
    BY <1>2, <2>2, ProbeDetached, Zenon DEF Detachments, XdpDetachComplete
<1>3. ASSUME NEW p \in Progs, NEW i \in Ifaces, DetachXdp(p, i)
      PROVE  Detachments'
  <2>1. PICK res : ret' = [op |-> "detach_xdp", prog |-> p, at |-> i, res |-> res]
    BY <1>3, Zenon DEF DetachXdp, Returns
  <2>2. ret'.op = "detach_xdp" /\ ret'.prog = p /\ ret'.at = i /\ ret'.res = res
    BY <2>1, Zenon
  <2>3. ASSUME res = "Ok", NEW m \in Modes PROVE xdp'[<<i, m>>] # p
    <3>1. xdp' = Detached({i})
      BY <1>3, <2>2, <2>3 DEF DetachXdp, Returns
    <3>2. <<i, m>> \in Slots
      BY Zenon DEF Slots
    <3>3. xdp'[<<i, m>>] = None
      BY <3>1, <3>2, DetachedSlots, Zenon
    <3> QED
      BY <3>3, ProgramsAssumption, Zenon
  <2> QED
    BY <2>2, <2>3, Zenon DEF Detachments, XdpDetachComplete
<1>4. CASE ret'.op \notin {"detach", "detach_xdp"}
  BY <1>4, Zenon DEF Detachments, XdpDetachComplete
<1>5. CASE OtherOpen \/ OtherClose \/ UserClose \/ IfaceChange
  <2>1. Returns("other", None, None, "Ok")
    BY <1>5, Zenon DEF OtherOpen, OtherClose, UserClose, IfaceChange
  <2> QED
    BY <1>4, <2>1, Zenon DEF Returns
<1>6. ASSUME NEW p \in Progs, Load(p) \/ Drop(p) \/ AttachSocketFilter(p) \/ AttachSkLookup(p)
             \/ BpfIter(p) \/ AttachSockmap(p)
      PROVE  ret'.op \notin {"detach", "detach_xdp"}
  <2>1. PICK op \in {"load", "drop", "attach", "bpf_iter"} : \E res : Returns(op, p, None, res)
    BY <1>6, Zenon DEF Load, Drop, AttachSocketFilter, AttachSkLookup, BpfIter, AttachSockmap
  <2> QED
    BY <2>1 DEF Returns
<1>7. ASSUME NEW p \in Progs, NEW at \in Points, AttachProbe(p, at) \/ AttachTracePoint(p, at)
      PROVE  ret'.op \notin {"detach", "detach_xdp"}
  <2>1. PICK res : Returns("attach", p, at, res)
    BY <1>7, Zenon DEF AttachProbe, AttachTracePoint, AttachEarlyError
  <2> QED
    BY <2>1, Zenon DEF Returns
<1>8. ASSUME NEW p \in Progs, NEW i \in Ifaces, NEW flags \in FlagSet, AttachXdp(p, i, flags)
      PROVE  ret'.op \notin {"detach", "detach_xdp"}
  BY <1>8 DEF AttachXdp, Returns
<1> QED
  BY <1>1, <1>2, <1>3, <1>4, <1>5, <1>6, <1>7, <1>8, Zenon DEF Next

\* At the start nothing was detached.
LEMMA DetachmentsInit == Init => Detachments
<1>1. Init => ret = [op |-> "none", prog |-> None, at |-> None, res |-> "Ok"]
  BY Zenon DEF Init
<1>2. Init => ret.op = "none"
  BY <1>1
<1> QED
  BY <1>2, Zenon DEF Detachments, XdpDetachComplete

\* When programs are attached to interfaces in the default mode, detaching a
\* program takes it out completely, and no interface runs a program that was
\* dropped.
THEOREM DetachTakesOut ==
  ASSUME FlagSet \subseteq {"Unset", "UpdateIfNoExist"}
  PROVE  Spec => []DetachComplete
<1>1. DefaultMode
  BY Zenon DEF DefaultMode
<1> DEFINE Inv == FdInv /\ XdpInv /\ Detachments
<1>2. Init => Inv
  BY FdInvInit, XdpInvInit, DetachmentsInit, Zenon
<1>3. Inv /\ [Next]_vars => Inv'
  <2>1. SUFFICES ASSUME Inv, [Next]_vars PROVE Inv'
    BY Zenon
  <2>2. FdInv'
    BY <2>1, FdInvNext, Zenon
  <2>3. XdpInv'
    BY <1>1, <2>1, XdpInvNext, Zenon DEF FdInv
  <2> QED
    BY <2>1, <2>2, <2>3, DetachmentsNext, Zenon
<1>4. Inv => DetachComplete
  BY Zenon DEF XdpInv, Slots, Detachments, DetachComplete
<1> QED
  BY <1>2, <1>3, <1>4, PTL DEF Spec
=============================================================================
