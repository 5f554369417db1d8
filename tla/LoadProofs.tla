----------------------------- MODULE LoadProofs -----------------------------
(***************************************************************************)
(* Proofs about what brings an object to loaded programs, for objects,     *)
(* symbols, maps and programs of any number and any bound on the open      *)
(* files: ModuleBuilder (ModuleBuild), with the descriptors and with the   *)
(* relocations, and Program::load (ProgramLoad).                           *)
(***************************************************************************)
EXTENDS ProgramLoad, ModuleBuild, WellFoundedInduction, TLAPS

-----------------------------------------------------------------------------
(* ModuleBuilder: ModuleBuild                                              *)

ExKeys  == {k \in DOMAIN builders : builders[k].type = "Existing"}
ExFds   == {builders[k].fd : k \in ExKeys}
MapFds  == {maps[k].fd : k \in DOMAIN maps}
UserFds == {user[n] : n \in DOMAIN user}
OpenFds == {f \in Fds : fdt[f] # Free}

\* What there is in each phase of the builder.
Phases ==
  /\ sec \in Nat
  /\ bpc = "parse" => ExKeys = {}
  /\ bpc = "parse" /\ sec = 0 => builders = NoEntries /\ symval = NoEntries /\ btf = NoFd
  /\ bpc \in {"parse", "builder"} => maps = NoEntries
  /\ bpc \in {"reloc", "built", "failed"} => builders = NoEntries /\ symval = NoEntries
  /\ bpc = "failed" => maps = NoEntries
  /\ bpc \in {"built", "failed"} => btf = NoFd
  /\ \A k \in DOMAIN builders : <<"sec", k>> \notin DOMAIN maps
  /\ \A v \in DOMAIN symval : <<"sym", v>> \notin DOMAIN maps

\* A builder with type ids holds the descriptor of the BTF of the module.
BuildersRight ==
  /\ \A k \in DOMAIN builders :
       builders[k].type = "Normal" => builders[k].btf \in {NoFd, btf}
  /\ \A v \in DOMAIN symval : symval[v].type = "Normal" /\ symval[v].btf \in {NoFd, btf}

\* The descriptors refer to what their owners take them for.
FilesRight ==
  /\ DOMAIN fdt = Fds
  /\ btf # NoFd => btf \in Fds /\ fdt[btf].type = "btf"
  /\ \A f \in MapFds \cup ExFds \cup UserFds : f \in Fds /\ fdt[f].type = "map"
  /\ \A k \in DOMAIN maps : maps[k].typed => fdt[maps[k].fd].btf

\* No descriptor has two owners one of which may close it.
Apart ==
  /\ (MapFds \cup ExFds) \cap UserFds = {}
  /\ \A j, k \in ExKeys : builders[j].fd = builders[k].fd => j = k
  /\ \A m, n \in DOMAIN user : user[m] = user[n] => m = n

BuildInv == Phases /\ BuildersRight /\ FilesRight /\ Apart /\ OpenFds = Held \cup UserFds

\* A set of numbers that is not empty has a least element.
LEMMA MinInSet ==
  ASSUME NEW S, S \subseteq Nat, S # {}
  PROVE  Min(S) \in S
<1>1. PICK x \in S : \A y \in S : ~(<<y, x>> \in OpToRel(<, Nat))
  BY WFMin, NatLessThanWellFounded, Zenon
<1>2. \A y \in S : x <= y
  <2>1. SUFFICES ASSUME NEW y \in S, y < x PROVE FALSE
    OBVIOUS
  <2>2. <<y, x>> \in OpToRel(<, Nat)
    BY <2>1, Zenon DEF OpToRel
  <2> QED
    BY <1>1, <2>2, Zenon
<1> QED
  BY Zenon, <1>2 DEF Min

\* The effects of opening and of closing descriptors.
Opens(f, o) ==
  /\ f \in Fds /\ fdt[f] = Free /\ o # Free
  /\ DOMAIN fdt' = Fds
  /\ \A g \in Fds : fdt'[g] = IF g = f THEN o ELSE fdt[g]

Closes(F) ==
  /\ DOMAIN fdt' = Fds
  /\ \A g \in Fds : fdt'[g] = IF g \in F THEN Free ELSE fdt[g]

\* Opening takes the lowest unused descriptor and leaves the others.
LEMMA OpensFact ==
  ASSUME FilesRight, Unused # {}, NEW o, o # Free, fdt' = Opened(o)
  PROVE  Opens(Min(Unused), o)
<1>1. Unused \subseteq Nat
  BY BuildAssumption DEF Unused, Fds
<1>2. PICK f : f = Min(Unused)
  BY Zenon
<1>3. f \in Fds /\ fdt[f] = Free
  BY <1>1, <1>2, MinInSet, Zenon DEF Unused
<1>4. fdt' = [fdt EXCEPT ![f] = o]
  BY <1>2, Zenon DEF Opened
<1>5. Opens(f, o)
  BY <1>3, <1>4, Zenon DEF Opens, FilesRight
<1> QED
  BY <1>2, <1>5, Zenon

\* Closing frees the descriptors named and leaves the others.
LEMMA ClosesFact ==
  ASSUME NEW F, fdt' = Closed(F)
  PROVE  Closes(F)
  BY Zenon DEF Closed, Closes

\* An open adds one descriptor, which was free.
LEMMA OpenFdsOpens ==
  ASSUME NEW f, NEW o, Opens(f, o)
  PROVE  OpenFds' = OpenFds \cup {f} /\ f \notin OpenFds
  BY Zenon DEF Opens, OpenFds

\* A close takes the descriptors out.
LEMMA OpenFdsCloses ==
  ASSUME NEW F, Closes(F)
  PROVE  OpenFds' = OpenFds \ F
  BY Zenon DEF Closes, OpenFds

\* An open file is not the free one.
LEMMA FreeRecord == \A r : r.type # "free" => r # Free
  BY DEF Free

\* Everything that is owned is open, and 0 is nobody's.
LEMMA OwnedOpen ==
  ASSUME BuildInv
  PROVE  /\ MapFds \cup ExFds \cup UserFds \subseteq OpenFds
         /\ MapFds \cup ExFds \cup UserFds \subseteq Fds
         /\ NoFd \notin Fds /\ NoFd \notin OpenFds
         /\ Held = MapFds \cup ExFds \cup ({btf} \ {NoFd})
         /\ btf \notin MapFds \cup ExFds \cup UserFds
         /\ btf # NoFd => btf \in OpenFds
<1>1. NoFd \notin Fds
  BY BuildAssumption DEF NoFd, Fds
<1>2. ASSUME NEW f \in MapFds \cup ExFds \cup UserFds
      PROVE  f \in Fds /\ fdt[f] # Free /\ f # btf /\ f # NoFd
  <2>1. f \in Fds /\ fdt[f].type = "map"
    BY Zenon DEF BuildInv, FilesRight
  <2>2. fdt[f] # Free
    BY <2>1, FreeRecord, Zenon
  <2>3. btf # NoFd => fdt[btf].type = "btf"
    BY Zenon DEF BuildInv, FilesRight
  <2> QED
    BY <1>1, <2>1, <2>2, <2>3, Zenon
<1>3. btf # NoFd => btf \in OpenFds
  <2>1. btf # NoFd => btf \in Fds /\ fdt[btf].type = "btf"
    BY Zenon DEF BuildInv, FilesRight
  <2>2. btf # NoFd => fdt[btf] # Free
    BY <2>1, FreeRecord, Zenon
  <2> QED
    BY <2>1, <2>2, Zenon DEF OpenFds
<1>4. Held = (MapFds \cup {btf} \cup ExFds) \ {NoFd}
  BY Zenon DEF Held, MapFds, ExFds, ExKeys
<1>5. Held = MapFds \cup ExFds \cup ({btf} \ {NoFd})
  BY <1>2, <1>4, Zenon
<1> QED
  BY <1>1, <1>2, <1>3, <1>5, Zenon DEF OpenFds

\* A map without entries has no keys.
LEMMA NoKeys == DOMAIN NoEntries = {}
  BY Zenon DEF NoEntries

\* Before parse nothing is open.
LEMMA BuildStart == BuildInit => BuildInv
<1> SUFFICES ASSUME BuildInit PROVE BuildInv
  BY Zenon
<1>1. /\ bpc = "parse" /\ sec = 0 /\ builders = NoEntries /\ symval = NoEntries /\ btf = NoFd
      /\ maps = NoEntries /\ fdt = [f \in Fds |-> Free] /\ user = NoEntries
  BY Zenon DEF BuildInit
<1>2. /\ ExKeys = {} /\ ExFds = {} /\ MapFds = {} /\ UserFds = {} /\ OpenFds = {} /\ Held = {}
  BY <1>1, NoKeys, Zenon DEF ExKeys, ExFds, MapFds, UserFds, OpenFds, Held
<1>3. Phases
  BY <1>1, <1>2, NoKeys, Zenon DEF Phases
<1>4. BuildersRight /\ Apart
  BY <1>1, <1>2, NoKeys, Zenon DEF BuildersRight, Apart
<1>5. FilesRight
  BY <1>1, <1>2, NoKeys, Zenon DEF FilesRight
<1> QED
  BY <1>2, <1>3, <1>4, <1>5, Zenon DEF BuildInv

\* An error closes what the builder holds and nothing else.
LEMMA FailStep ==
  ASSUME BuildInv, Fail, user' = user, sec' = sec
  PROVE  BuildInv'
<1>1. /\ bpc' = "failed" /\ builders' = NoEntries /\ symval' = NoEntries /\ maps' = NoEntries
      /\ btf' = NoFd /\ fdt' = Closed(Held)
  BY Zenon DEF Fail
<1>2. /\ ExKeys' = {} /\ ExFds' = {} /\ MapFds' = {} /\ UserFds' = UserFds /\ Held' = {}
  BY <1>1, NoKeys, Zenon DEF ExKeys, ExFds, MapFds, UserFds, Held
<1>3. Closes(Held) /\ OpenFds' = OpenFds \ Held
  BY <1>1, ClosesFact, OpenFdsCloses, Zenon
<1>4. UserFds \cap Held = {}
  BY OwnedOpen, Zenon DEF BuildInv, Apart
<1>5. Phases'
  BY <1>1, <1>2, NoKeys, Zenon DEF Phases, BuildInv
<1>6. BuildersRight' /\ Apart'
  BY <1>1, <1>2, NoKeys, Zenon DEF BuildersRight, Apart, BuildInv
<1>7. FilesRight'
  <2>1. \A f \in UserFds : f \in Fds /\ fdt[f].type = "map" /\ f \notin Held
    BY <1>4, Zenon DEF BuildInv, FilesRight
  <2>2. \A f \in UserFds : fdt'[f] = fdt[f]
    BY <1>3, <2>1, Zenon DEF Closes
  <2>3. DOMAIN fdt' = Fds
    BY <1>3, Zenon DEF Closes
  <2> QED
    BY <1>1, <1>2, <2>1, <2>2, <2>3, NoKeys, Zenon DEF FilesRight
<1>8. OpenFds' = Held' \cup UserFds'
  BY <1>2, <1>3, <1>4, Zenon DEF BuildInv
<1> QED
  BY <1>5, <1>6, <1>7, <1>8, Zenon DEF BuildInv

\* Steps that leave owners and descriptors alone.
LEMMA StillStep ==
  ASSUME BuildInv, UNCHANGED <<builders, symval, btf, maps, fdt, user>>, Phases'
  PROVE  BuildInv'
<1>1. /\ ExKeys' = ExKeys /\ ExFds' = ExFds /\ MapFds' = MapFds /\ UserFds' = UserFds
      /\ OpenFds' = OpenFds /\ Held' = Held
  BY Zenon DEF ExKeys, ExFds, MapFds, UserFds, OpenFds, Held
<1>2. BuildersRight' /\ Apart' /\ FilesRight'
  BY <1>1, Zenon DEF BuildInv, BuildersRight, Apart, FilesRight
<1> QED
  BY <1>1, <1>2, Zenon DEF BuildInv

\* The descriptor of the BTF, if any, has its owner.
LEMMA ParseBtfStep ==
  ASSUME BuildInv, ParseBtf
  PROVE  BuildInv'
<1>1. /\ bpc = "parse" /\ sec = 0 /\ sec' = 1
      /\ UNCHANGED <<bpc, builders, symval, maps, user>>
  BY Zenon DEF ParseBtf
<1>2. builders = NoEntries /\ symval = NoEntries /\ btf = NoFd /\ maps = NoEntries
  BY <1>1, Zenon DEF BuildInv, Phases
<1>3. /\ ExKeys' = {} /\ ExKeys = {} /\ ExFds' = ExFds /\ MapFds' = MapFds /\ UserFds' = UserFds
  BY <1>1, <1>2, NoKeys, Zenon DEF ExKeys, ExFds, MapFds, UserFds
<1>4. Phases'
  BY <1>1, <1>2, <1>3, NoKeys DEF Phases
<1>5. CASE UNCHANGED <<btf, fdt>>
  BY <1>1, <1>4, <1>5, StillStep, Zenon
<1>6. CASE Unused # {} /\ btf' = Min(Unused) /\ fdt' = Opened([type |-> "btf"])
  <2>1. PICK f : f = Min(Unused)
    BY Zenon
  <2>2. PICK o : o = [type |-> "btf"]
    BY Zenon
  <2>3. o.type = "btf" /\ o # Free
    BY <2>2, FreeRecord, Zenon
  <2>4. Opens(f, o)
    BY <1>6, <2>1, <2>2, <2>3, OpensFact, Zenon DEF BuildInv
  <2>5. OpenFds' = OpenFds \cup {f} /\ f \notin OpenFds
    BY <2>4, OpenFdsOpens, Zenon
  <2>6. btf' = f /\ f \in Fds /\ fdt'[f] = o /\ f # NoFd
    BY <1>6, <2>1, <2>4, OwnedOpen, Zenon DEF Opens
  <2>7. FilesRight'
    <3>1. \A g \in MapFds \cup ExFds \cup UserFds : g \in Fds /\ fdt[g].type = "map" /\ g # f
      BY <2>5, OwnedOpen, Zenon DEF BuildInv, FilesRight
    <3>2. \A g \in MapFds \cup ExFds \cup UserFds : fdt'[g] = fdt[g]
      BY <2>4, <3>1, Zenon DEF Opens
    <3>3. DOMAIN fdt' = Fds
      BY <2>4, Zenon DEF Opens
    <3> QED
      BY <1>1, <1>2, <1>3, <2>3, <2>6, <3>1, <3>2, <3>3, NoKeys, Zenon DEF FilesRight
  <2>8. BuildersRight' /\ Apart'
    BY <1>1, <1>2, <1>3, NoKeys, Zenon DEF BuildersRight, Apart, BuildInv
  <2>9. Held' = Held \cup {f}
    BY <1>1, <1>2, <2>6, Zenon DEF Held
  <2> QED
    BY <1>3, <1>4, <2>5, <2>7, <2>8, <2>9, Zenon DEF BuildInv
<1> QED
  BY <1>5, <1>6, Zenon DEF ParseBtf

\* A builder made from a section owns no descriptor.
LEMMA ParseSectionStep ==
  ASSUME BuildInv, ParseSection
  PROVE  BuildInv'
<1>1. bpc = "parse" /\ user' = user
  BY Zenon DEF ParseSection
<1>2. CASE Fail /\ sec' = sec
  BY <1>1, <1>2, FailStep, Zenon
<1>3. CASE ~(Fail /\ sec' = sec)
  <2>1. /\ sec' = sec + 1
        /\ UNCHANGED <<bpc, btf, maps, fdt>>
    BY <1>3, Zenon DEF ParseSection
  <2>2. \/ builders' = builders
        \/ \E b : /\ builders' = Put(builders, sec, b)
                  /\ \/ b.type = "Normal" /\ b.btf \in {NoFd, btf}
                     \/ b.type = "SectionData"
    <3> DEFINE s == obj.secs[sec]
               name == IF SymsOf(sec) = {} THEN ""
                       ELSE obj.syms[CHOOSE j \in SymsOf(sec) : TRUE].name
               b1 == Normal(s.name, s.def, name)
               b2 == [type |-> "SectionData", name |-> s.name, def |-> s.def]
    <3>1. builders' = CASE s.kind = "map" -> Put(builders, sec, b1)
                        [] s.kind = "data" -> Put(builders, sec, b2)
                        [] OTHER -> builders
      BY <1>3, Zenon DEF ParseSection
    <3>2. b1.type = "Normal" /\ b1.btf \in {NoFd, btf}
      BY Zenon DEF Normal
    <3>3. b2.type = "SectionData"
      BY Zenon
    <3> HIDE DEF s, b1, b2
    <3> QED
      BY <3>1, <3>2, <3>3, Zenon
  <2>3. symval' = symval \/ symval' = Over(symval, MapsSection(obj.secs[sec]))
    BY <1>3, Zenon DEF ParseSection
  <2>4. /\ ExKeys = {} /\ maps = NoEntries
    BY <1>1, Zenon DEF BuildInv, Phases
  <2>5. \A k \in DOMAIN builders' : /\ builders'[k].type # "Existing"
                                    /\ builders'[k].type = "Normal" => builders'[k].btf \in {NoFd, btf}
    <3>1. \A k \in DOMAIN builders : /\ builders[k].type # "Existing"
                                     /\ builders[k].type = "Normal" => builders[k].btf \in {NoFd, btf}
      BY <2>4, Zenon DEF ExKeys, BuildInv, BuildersRight
    <3>2. CASE builders' = builders
      BY <3>1, <3>2, Zenon
    <3>3. ASSUME NEW b, builders' = Put(builders, sec, b),
                 \/ b.type = "Normal" /\ b.btf \in {NoFd, btf}
                 \/ b.type = "SectionData"
          PROVE  \A k \in DOMAIN builders' :
                   /\ builders'[k].type # "Existing"
                   /\ builders'[k].type = "Normal" => builders'[k].btf \in {NoFd, btf}
      <4>1. \A k \in DOMAIN builders' :
              builders'[k] = b \/ (k \in DOMAIN builders /\ builders'[k] = builders[k])
        BY <3>3, Zenon DEF Put
      <4> QED
        BY <3>1, <3>3, <4>1, Zenon
    <3> QED
      BY <2>2, <3>2, <3>3, Zenon
  <2>6. \A v \in DOMAIN symval' : symval'[v].type = "Normal" /\ symval'[v].btf \in {NoFd, btf}
    <3>1. \A v \in DOMAIN symval : symval[v].type = "Normal" /\ symval[v].btf \in {NoFd, btf}
      BY Zenon DEF BuildInv, BuildersRight
    <3>2. \A v \in DOMAIN MapsSection(obj.secs[sec]) :
            /\ MapsSection(obj.secs[sec])[v].type = "Normal"
            /\ MapsSection(obj.secs[sec])[v].btf \in {NoFd, btf}
      BY Zenon DEF MapsSection, Normal
    <3>3. PICK M : M = MapsSection(obj.secs[sec])
      BY Zenon
    <3> QED
      BY <2>3, <3>1, <3>2, <3>3 DEF Over
  <2>7. /\ ExKeys' = {} /\ ExFds' = ExFds /\ MapFds' = MapFds /\ UserFds' = UserFds
        /\ OpenFds' = OpenFds /\ Held' = Held
    <3>1. ExKeys' = {}
      BY <2>5, Zenon DEF ExKeys
    <3>2. ExFds' = {} /\ ExFds = {}
      BY <2>4, <3>1, Zenon DEF ExFds
    <3>3. MapFds' = MapFds /\ UserFds' = UserFds /\ OpenFds' = OpenFds
      BY <1>1, <2>1, Zenon DEF MapFds, UserFds, OpenFds
    <3>4. Held = (MapFds \cup {btf} \cup ExFds) \ {NoFd} /\ Held' = (MapFds \cup {btf} \cup ExFds)' \ {NoFd}
      BY Zenon DEF Held, MapFds, ExFds, ExKeys
    <3> QED
      BY <2>1, <3>1, <3>2, <3>3, <3>4, Zenon
  <2>8. Phases'
    <3>1. sec' \in Nat /\ sec' # 0
      BY <2>1 DEF BuildInv, Phases
    <3> QED
      BY <1>1, <2>1, <2>4, <2>7, <3>1, NoKeys, Zenon DEF Phases
  <2>9. BuildersRight' /\ Apart' /\ FilesRight'
    BY <1>1, <2>1, <2>4, <2>5, <2>6, <2>7, Zenon DEF BuildersRight, Apart, FilesRight, BuildInv
  <2> QED
    BY <2>7, <2>8, <2>9, Zenon DEF BuildInv
<1> QED
  BY <1>2, <1>3, Zenon

\* A map the caller opens gets a descriptor that was free.
LEMMA OpenMapStep ==
  ASSUME BuildInv, NEW n, OpenMap(n)
  PROVE  BuildInv'
<1> DEFINE o == [type |-> "map", of |-> <<"new", n.id>>, btf |-> FALSE]
<1>1. /\ n \notin DOMAIN user /\ Unused # {}
      /\ user' = Put(user, n, Min(Unused)) /\ fdt' = Opened(o)
      /\ UNCHANGED <<bpc, sec, builders, symval, btf, maps>>
  BY Zenon DEF OpenMap
<1>2. o.type = "map" /\ o # Free
  BY FreeRecord, Zenon
<1> HIDE DEF o
<1>3. PICK f : f = Min(Unused)
  BY Zenon
<1>4. Opens(f, o)
  BY <1>1, <1>2, <1>3, OpensFact, Zenon DEF BuildInv
<1>5. OpenFds' = OpenFds \cup {f} /\ f \notin OpenFds
  BY <1>4, OpenFdsOpens, Zenon
<1>6. /\ DOMAIN user' = DOMAIN user \cup {n} /\ user'[n] = f
      /\ \A x \in DOMAIN user : user'[x] = user[x]
  BY <1>1, <1>3, Zenon DEF Put
<1>7. UserFds' = UserFds \cup {f}
  BY <1>1, <1>6 DEF UserFds
<1>8. ExKeys' = ExKeys /\ ExFds' = ExFds /\ MapFds' = MapFds /\ Held' = Held
  BY <1>1, Zenon DEF ExKeys, ExFds, MapFds, Held
<1>9. f \notin MapFds \cup ExFds \cup UserFds /\ f # btf
  BY <1>4, <1>5, OwnedOpen, Zenon DEF Opens
<1>10. Phases' /\ BuildersRight'
  BY <1>1, <1>8, Zenon DEF BuildInv, Phases, BuildersRight
<1>11. Apart'
  <2>1. \A x \in DOMAIN user : user[x] # f
    BY <1>9, Zenon DEF UserFds
  <2>2. \A x, y \in DOMAIN user' : user'[x] = user'[y] => x = y
    BY <1>6, <2>1, Zenon DEF BuildInv, Apart
  <2>3. (MapFds' \cup ExFds') \cap UserFds' = {}
    BY <1>7, <1>8, <1>9, Zenon DEF BuildInv, Apart
  <2> QED
    BY <1>1, <1>8, <2>2, <2>3, Zenon DEF BuildInv, Apart
<1>12. FilesRight'
  <2>1. \A g \in MapFds \cup ExFds \cup UserFds : g \in Fds /\ fdt[g].type = "map" /\ g # f
    BY <1>9, Zenon DEF BuildInv, FilesRight
  <2>2. \A g \in MapFds \cup ExFds \cup UserFds : fdt'[g] = fdt[g]
    BY <1>4, <2>1, Zenon DEF Opens
  <2>3. DOMAIN fdt' = Fds /\ f \in Fds /\ fdt'[f] = o
    BY <1>4, Zenon DEF Opens
  <2>4. btf # NoFd => btf \in Fds /\ fdt'[btf] = fdt[btf] /\ fdt[btf].type = "btf"
    BY <1>4, <1>9, Zenon DEF Opens, BuildInv, FilesRight
  <2>5. \A k \in DOMAIN maps : maps[k].fd \in MapFds
    BY Zenon DEF MapFds
  <2>6. \A k \in DOMAIN maps : maps[k].typed => fdt'[maps[k].fd].btf
    BY <2>2, <2>5, Zenon DEF BuildInv, FilesRight
  <2> QED
    BY <1>1, <1>2, <1>7, <1>8, <2>1, <2>2, <2>3, <2>4, <2>6, Zenon DEF FilesRight
<1>13. OpenFds' = Held' \cup UserFds'
  BY <1>5, <1>7, <1>8, Zenon DEF BuildInv
<1> QED
  BY <1>10, <1>11, <1>12, <1>13, Zenon DEF BuildInv

\* What the caller keeps when it moves map n into replace_map.
LEMMA MovedOut ==
  ASSUME BuildInv, NEW n \in DOMAIN user, user' = Without(user, n)
  PROVE  /\ user[n] \in UserFds /\ UserFds' = UserFds \ {user[n]}
         /\ \A x, y \in DOMAIN user' : user'[x] = user'[y] => x = y
<1>1. DOMAIN user' = DOMAIN user \ {n} /\ \A x \in DOMAIN user' : user'[x] = user[x]
  BY Zenon DEF Without, Restrict
<1>2. \A x, y \in DOMAIN user : user[x] = user[y] => x = y
  BY Zenon DEF BuildInv, Apart
<1> QED
  BY <1>1, <1>2 DEF UserFds

\* Closing descriptors that no owner keeps leaves the others as they are.
LEMMA ClosedFiles ==
  ASSUME BuildInv, NEW F, Closes(F), maps' = maps, btf' = btf,
         NEW G, G \subseteq MapFds \cup ExFds \cup UserFds, G \cap F = {},
         MapFds \cap F = {}, btf \notin F,
         MapFds' \cup ExFds' \cup UserFds' \subseteq MapFds \cup G
  PROVE  FilesRight'
<1>1. \A g \in MapFds \cup G : g \in Fds /\ fdt[g].type = "map" /\ fdt'[g] = fdt[g]
  BY Zenon DEF BuildInv, FilesRight, Closes
<1>2. btf # NoFd => btf \in Fds /\ fdt[btf].type = "btf" /\ fdt'[btf] = fdt[btf]
  BY Zenon DEF BuildInv, FilesRight, Closes
<1>3. \A k \in DOMAIN maps : maps[k].fd \in MapFds
  BY Zenon DEF MapFds
<1>4. \A k \in DOMAIN maps : maps[k].typed => fdt'[maps[k].fd].btf
  BY <1>1, <1>3, Zenon DEF BuildInv, FilesRight
<1>5. DOMAIN fdt' = Fds
  BY Zenon DEF Closes
<1> QED
  BY <1>1, <1>2, <1>4, <1>5, Zenon DEF FilesRight

\* replace_map on an error: the new map is dropped.
LEMMA ReplaceFails ==
  ASSUME BuildInv, NEW n \in DOMAIN user, user' = Without(user, n), fdt' = Closed({user[n]}),
         UNCHANGED <<bpc, sec, builders, symval, btf, maps>>
  PROVE  BuildInv'
<1>1. PICK f : f = user[n]
  BY Zenon
<1>2. /\ f \in UserFds /\ UserFds' = UserFds \ {f}
      /\ \A x, y \in DOMAIN user' : user'[x] = user'[y] => x = y
  BY <1>1, MovedOut, Zenon
<1>3. Closes({f}) /\ OpenFds' = OpenFds \ {f}
  BY <1>1, ClosesFact, OpenFdsCloses, Zenon
<1>4. ExKeys' = ExKeys /\ ExFds' = ExFds /\ MapFds' = MapFds /\ Held' = Held
  BY Zenon DEF ExKeys, ExFds, MapFds, Held
<1>5. f \notin MapFds \cup ExFds /\ f # btf /\ f \notin Held
  BY <1>2, OwnedOpen, Zenon DEF BuildInv, Apart
<1>6. Phases' /\ BuildersRight'
  BY <1>4, Zenon DEF BuildInv, Phases, BuildersRight
<1>7. Apart'
  BY <1>2, <1>4, Zenon DEF BuildInv, Apart
<1>8. FilesRight'
  <2>1. PICK G : G = ExFds \cup (UserFds \ {f})
    BY Zenon
  <2>2. /\ G \subseteq MapFds \cup ExFds \cup UserFds /\ G \cap {f} = {}
        /\ MapFds \cap {f} = {} /\ btf \notin {f}
        /\ MapFds' \cup ExFds' \cup UserFds' \subseteq MapFds \cup G
    BY <1>2, <1>4, <1>5, <2>1, Zenon
  <2> QED
    BY <1>3, <2>2, ClosedFiles, Zenon
<1>9. OpenFds' = Held' \cup UserFds'
  BY <1>2, <1>3, <1>4, <1>5, Zenon DEF BuildInv
<1> QED
  BY <1>6, <1>7, <1>8, <1>9, Zenon DEF BuildInv

\* replace_map: the builder takes the new map, and drops one that it held.
LEMMA ReplaceTakes ==
  ASSUME BuildInv, bpc = "builder", NEW n \in DOMAIN user, user' = Without(user, n),
         NEW k \in DOMAIN builders,
         builders' = [builders EXCEPT ![k] = Existing(n, user[n])],
         fdt' = Closed(IF builders[k].type = "Existing" THEN {builders[k].fd} ELSE {}),
         UNCHANGED <<bpc, sec, symval, btf, maps>>
  PROVE  BuildInv'
<1>1. PICK f : f = user[n]
  BY Zenon
<1>2. PICK old : old = IF builders[k].type = "Existing" THEN {builders[k].fd} ELSE {}
  BY Zenon
<1>3. /\ f \in UserFds /\ UserFds' = UserFds \ {f}
      /\ \A x, y \in DOMAIN user' : user'[x] = user'[y] => x = y
  BY <1>1, MovedOut, Zenon
<1>4. Closes(old) /\ OpenFds' = OpenFds \ old
  BY <1>2, ClosesFact, OpenFdsCloses, Zenon
<1>5. /\ DOMAIN builders' = DOMAIN builders
      /\ builders'[k].type = "Existing" /\ builders'[k].fd = f
      /\ \A j \in DOMAIN builders : j # k => builders'[j] = builders[j]
  BY <1>1, Zenon DEF Existing
<1>6. ExKeys' = ExKeys \cup {k}
  BY <1>5, Zenon DEF ExKeys
<1>7. \A i, j \in ExKeys : builders[i].fd = builders[j].fd => i = j
  BY Zenon DEF BuildInv, Apart
<1>8. ExFds' = (ExFds \ old) \cup {f} /\ old \subseteq ExFds
  <2>1. \A j \in ExKeys : j # k => builders'[j].fd = builders[j].fd
    BY <1>5, Zenon DEF ExKeys
  <2>2. k \in ExKeys <=> builders[k].type = "Existing"
    BY Zenon DEF ExKeys
  <2>3. CASE k \in ExKeys
    <3>1. old = {builders[k].fd}
      BY <1>2, <2>2, <2>3, Zenon
    <3> QED
      BY <1>5, <1>6, <1>7, <2>1, <2>3, <3>1 DEF ExFds
  <2>4. CASE k \notin ExKeys
    <3>1. old = {}
      BY <1>2, <2>2, <2>4, Zenon
    <3> QED
      BY <1>5, <1>6, <2>1, <2>4, <3>1 DEF ExFds
  <2> QED
    BY <2>3, <2>4, Zenon
<1>9. MapFds = {} /\ MapFds' = {} /\ maps = NoEntries
  BY NoKeys, Zenon DEF MapFds, BuildInv, Phases
<1>10. f \notin ExFds /\ f # btf /\ ExFds \cap UserFds = {} /\ btf \notin ExFds
  BY <1>3, OwnedOpen, Zenon DEF BuildInv, Apart
<1>11. Phases'
  BY <1>5, <1>9, NoKeys, Zenon DEF BuildInv, Phases
<1>12. BuildersRight'
  BY <1>5, Zenon DEF BuildInv, BuildersRight
<1>13. Apart'
  <2>1. \A j \in ExKeys : j # k => builders'[j].fd \in ExFds /\ builders'[j].fd = builders[j].fd
    BY <1>5, Zenon DEF ExKeys, ExFds
  <2>2. \A i, j \in ExKeys' : builders'[i].fd = builders'[j].fd => i = j
    BY <1>5, <1>6, <1>7, <1>10, <2>1
  <2>3. (MapFds' \cup ExFds') \cap UserFds' = {}
    BY <1>3, <1>8, <1>9, <1>10, Zenon
  <2> QED
    BY <1>3, <2>2, <2>3, Zenon DEF Apart
<1>14. FilesRight'
  <2>1. PICK G : G = (ExFds \ old) \cup UserFds
    BY Zenon
  <2>2. /\ G \subseteq MapFds \cup ExFds \cup UserFds /\ G \cap old = {}
        /\ MapFds \cap old = {} /\ btf \notin old
        /\ MapFds' \cup ExFds' \cup UserFds' \subseteq MapFds \cup G
    BY <1>3, <1>8, <1>9, <1>10, <2>1, Zenon
  <2> QED
    BY <1>4, <2>2, ClosedFiles, Zenon
<1>15. OpenFds' = Held' \cup UserFds'
  <2>1. Held' = (MapFds' \cup {btf'} \cup ExFds') \ {NoFd}
    BY Zenon DEF Held, MapFds, ExFds, ExKeys
  <2>2. Held = MapFds \cup ExFds \cup ({btf} \ {NoFd}) /\ f # NoFd /\ NoFd \notin ExFds
    BY <1>3, OwnedOpen, Zenon
  <2>3. OpenFds = Held \cup UserFds
    BY Zenon DEF BuildInv
  <2> QED
    BY <1>3, <1>4, <1>8, <1>9, <1>10, <2>1, <2>2, <2>3
<1> QED
  BY <1>11, <1>12, <1>13, <1>14, <1>15, Zenon DEF BuildInv

\* The descriptor given to replace_map moves into the builder or is closed.
LEMMA ReplaceMapStep ==
  ASSUME BuildInv, NEW name, NEW n, ReplaceMap(name, n)
  PROVE  BuildInv'
<1>1. /\ bpc = "builder" /\ n \in DOMAIN user /\ user' = Without(user, n)
      /\ UNCHANGED <<bpc, sec, symval, btf, maps>>
  BY Zenon DEF ReplaceMap
<1>2. \/ fdt' = Closed({user[n]}) /\ builders' = builders
      \/ \E k \in DOMAIN builders :
           /\ builders' = [builders EXCEPT ![k] = Existing(n, user[n])]
           /\ fdt' = Closed(IF builders[k].type = "Existing" THEN {builders[k].fd} ELSE {})
  BY Zenon DEF ReplaceMap
<1> QED
  BY Zenon, <1>1, <1>2, ReplaceFails, ReplaceTakes

\* One more map in the module adds its descriptor.
LEMMA PutMap ==
  ASSUME NEW key, key \notin DOMAIN maps, NEW m, maps' = Put(maps, key, m)
  PROVE  /\ DOMAIN maps' = DOMAIN maps \cup {key} /\ maps'[key] = m
         /\ \A k \in DOMAIN maps : maps'[k] = maps[k]
         /\ MapFds' = MapFds \cup {m.fd}
<1>1. /\ DOMAIN maps' = DOMAIN maps \cup {key} /\ maps'[key] = m
      /\ \A k \in DOMAIN maps : maps'[k] = maps[k]
  BY Zenon DEF Put
<1> QED
  BY <1>1 DEF MapFds

\* Builders and symbols are only taken away while maps are created.
Fewer ==
  /\ \A k \in DOMAIN builders' : k \in DOMAIN builders /\ builders'[k] = builders[k]
  /\ \A v \in DOMAIN symval' : v \in DOMAIN symval /\ symval'[v] = symval[v]

\* A map that is created: its descriptor was free, and when it has type ids the
\* BTF that they refer to is still loaded.
LEMMA NewMapStep ==
  ASSUME BuildInv, bpc = "create", UNCHANGED <<bpc, sec, btf, user>>,
         NEW key, key \notin DOMAIN maps, NEW b, NewMap(b, key),
         b.type = "Normal" => b.btf \in {NoFd, btf},
         Fewer, ExKeys' = ExKeys,
         \A k \in DOMAIN builders' : <<"sec", k>> # key,
         \A v \in DOMAIN symval' : <<"sym", v>> # key
  PROVE  BuildInv'
<1> DEFINE typed == b.type = "Normal" /\ b.btf # NoFd
           o == [type |-> "map", of |-> <<key[1], IF key[1] = "sym" THEN b.name ELSE key[2]>>,
                btf |-> typed /\ fdt[b.btf].type = "btf"]
           m == [name |-> b.name, fd |-> Min(Unused), typed |-> typed,
                 section |-> b.type = "SectionData"]
<1>1. Unused # {} /\ fdt' = Opened(o) /\ maps' = Put(maps, key, m)
  BY Zenon DEF NewMap
<1>2. o.type = "map" /\ o # Free
  BY FreeRecord
<1>3. PICK f : f = Min(Unused)
  BY Zenon
<1>4. m.fd = f
  BY <1>3, Zenon
<1>5. m.typed => o.btf
  <2>1. m.typed = typed
    BY Zenon
  <2>2. o.btf = (typed /\ fdt[b.btf].type = "btf")
    BY Zenon
  <2>3. typed => fdt[b.btf].type = "btf"
    BY Zenon DEF BuildInv, FilesRight
  <2> QED
    BY <2>1, <2>2, <2>3, Zenon
<1> HIDE DEF o, m
<1>6. Opens(f, o)
  BY <1>1, <1>2, <1>3, OpensFact, Zenon DEF BuildInv
<1>7. OpenFds' = OpenFds \cup {f} /\ f \notin OpenFds
  BY <1>6, OpenFdsOpens, Zenon
<1>8. /\ DOMAIN maps' = DOMAIN maps \cup {key} /\ maps'[key] = m
      /\ \A k \in DOMAIN maps : maps'[k] = maps[k]
      /\ MapFds' = MapFds \cup {f}
  BY Zenon, <1>1, <1>4, PutMap
<1>9. ExFds' = ExFds /\ UserFds' = UserFds
  BY Zenon DEF ExFds, UserFds, Fewer, ExKeys
<1>10. f \notin MapFds \cup ExFds \cup UserFds /\ f # btf /\ f \in Fds /\ f # NoFd
  BY <1>6, <1>7, OwnedOpen, Zenon DEF Opens
<1>11. Phases'
  <2>1. \A k \in DOMAIN builders' : <<"sec", k>> \notin DOMAIN maps'
    BY <1>8, Zenon DEF BuildInv, Phases, Fewer
  <2>2. \A v \in DOMAIN symval' : <<"sym", v>> \notin DOMAIN maps'
    BY <1>8, Zenon DEF BuildInv, Phases, Fewer
  <2> QED
    BY <2>1, <2>2, Zenon DEF BuildInv, Phases
<1>12. BuildersRight'
  BY Zenon DEF BuildInv, BuildersRight, Fewer
<1>13. Apart'
  <2>1. (MapFds' \cup ExFds') \cap UserFds' = {}
    BY <1>8, <1>9, <1>10, Zenon DEF BuildInv, Apart
  <2>2. \A j, k \in ExKeys' : builders'[j].fd = builders'[k].fd => j = k
    BY Zenon DEF BuildInv, Apart, Fewer, ExKeys
  <2> QED
    BY <2>1, <2>2, Zenon DEF BuildInv, Apart
<1>14. FilesRight'
  <2>1. \A g \in MapFds \cup ExFds \cup UserFds : g \in Fds /\ fdt[g].type = "map" /\ g # f
    BY <1>10, Zenon DEF BuildInv, FilesRight
  <2>2. \A g \in MapFds \cup ExFds \cup UserFds : fdt'[g] = fdt[g]
    BY <1>6, <2>1, Zenon DEF Opens
  <2>3. DOMAIN fdt' = Fds /\ fdt'[f] = o
    BY <1>6, Zenon DEF Opens
  <2>4. btf # NoFd => btf \in Fds /\ fdt'[btf] = fdt[btf] /\ fdt[btf].type = "btf"
    BY <1>6, <1>10, Zenon DEF Opens, BuildInv, FilesRight
  <2>5. \A k \in DOMAIN maps : maps[k].fd \in MapFds
    BY Zenon DEF MapFds
  <2>6. \A k \in DOMAIN maps : maps[k].typed => fdt'[maps[k].fd].btf
    BY <2>2, <2>5, Zenon DEF BuildInv, FilesRight
  <2>7. \A k \in DOMAIN maps' : maps'[k].typed => fdt'[maps'[k].fd].btf
    BY <1>4, <1>5, <1>8, <2>3, <2>6, Zenon
  <2> QED
    BY <1>2, <1>8, <1>9, <1>10, <2>1, <2>2, <2>3, <2>4, <2>7, ZenonT(30) DEF FilesRight
<1>15. OpenFds' = Held' \cup UserFds'
  <2>1. Held' = (MapFds' \cup {btf'} \cup ExFds') \ {NoFd}
    BY Zenon DEF Held, MapFds, ExFds, ExKeys
  <2>2. Held = (MapFds \cup {btf} \cup ExFds) \ {NoFd}
    BY Zenon DEF Held, MapFds, ExFds, ExKeys
  <2>3. OpenFds = Held \cup UserFds
    BY Zenon DEF BuildInv
  <2> QED
    BY <1>7, <1>8, <1>9, <1>10, <2>1, <2>2, <2>3, Zenon
<1> QED
  BY <1>11, <1>12, <1>13, <1>14, <1>15, Zenon DEF BuildInv

\* A map given to replace_map moves from its builder to the module.
LEMMA ExistingStep ==
  ASSUME BuildInv, bpc = "create", UNCHANGED <<bpc, sec, symval, btf, fdt, user>>,
         NEW k \in DOMAIN builders, builders[k].type = "Existing",
         builders' = Without(builders, k),
         NEW m, m.fd = builders[k].fd, m.typed = FALSE, maps' = Put(maps, <<"sec", k>>, m)
  PROVE  BuildInv'
<1>1. PICK key : key = <<"sec", k>>
  BY Zenon
<1>2. PICK f : f = builders[k].fd
  BY Zenon
<1>3. key \notin DOMAIN maps
  BY <1>1, Zenon DEF BuildInv, Phases
<1>4. /\ DOMAIN maps' = DOMAIN maps \cup {key} /\ maps'[key] = m
      /\ \A j \in DOMAIN maps : maps'[j] = maps[j]
      /\ MapFds' = MapFds \cup {f}
  BY Zenon, <1>1, <1>2, <1>3, PutMap
<1>5. DOMAIN builders' = DOMAIN builders \ {k} /\ \A j \in DOMAIN builders' : builders'[j] = builders[j]
  BY Zenon DEF Without, Restrict
<1>6. k \in ExKeys /\ ExKeys' = ExKeys \ {k}
  BY <1>5, Zenon DEF ExKeys
<1>7. \A i, j \in ExKeys : builders[i].fd = builders[j].fd => i = j
  BY Zenon DEF BuildInv, Apart
<1>8. f \in ExFds /\ ExFds' = ExFds \ {f}
  <2>1. \A j \in ExKeys' : builders'[j].fd = builders[j].fd
    BY <1>5, Zenon DEF ExKeys
  <2> QED
    BY <1>2, <1>6, <1>7, <2>1 DEF ExFds
<1>9. UserFds' = UserFds /\ OpenFds' = OpenFds
  BY Zenon DEF UserFds, OpenFds
<1>10. Phases'
  <2>1. \A j \in DOMAIN builders' : <<"sec", j>> # key
    BY <1>1, <1>5, Zenon
  <2>2. \A j \in DOMAIN builders' : <<"sec", j>> \notin DOMAIN maps'
    BY <1>4, <1>5, <2>1, Zenon DEF BuildInv, Phases
  <2>3. \A v \in DOMAIN symval' : <<"sym", v>> \notin DOMAIN maps'
    BY <1>1, <1>4, Zenon DEF BuildInv, Phases
  <2> QED
    BY <2>2, <2>3, Zenon DEF BuildInv, Phases
<1>11. BuildersRight'
  BY <1>5, Zenon DEF BuildInv, BuildersRight
<1>12. Apart'
  <2>1. (MapFds' \cup ExFds') \cap UserFds' = {}
    BY <1>4, <1>8, <1>9, Zenon DEF BuildInv, Apart
  <2>2. \A i, j \in ExKeys' : builders'[i].fd = builders'[j].fd => i = j
    BY <1>5, <1>6, <1>7 DEF ExKeys
  <2> QED
    BY <2>1, <2>2, Zenon DEF BuildInv, Apart
<1>13. FilesRight'
  <2>1. \A j \in DOMAIN maps' : maps'[j].typed => fdt'[maps'[j].fd].btf
    <3>1. \A j \in DOMAIN maps : maps[j].typed => fdt[maps[j].fd].btf
      BY Zenon DEF BuildInv, FilesRight
    <3>2. ~ maps'[key].typed
      BY <1>4, Zenon
    <3> QED
      BY <1>4, <3>1, <3>2, Zenon
  <2>2. MapFds' \cup ExFds' \cup UserFds' = MapFds \cup ExFds \cup UserFds
    BY <1>4, <1>8, <1>9, Zenon
  <2> QED
    BY <2>1, <2>2, Zenon DEF BuildInv, FilesRight
<1>14. OpenFds' = Held' \cup UserFds'
  <2>1. Held' = (MapFds' \cup {btf'} \cup ExFds') \ {NoFd}
    BY Zenon DEF Held, MapFds, ExFds, ExKeys
  <2>2. Held = (MapFds \cup {btf} \cup ExFds) \ {NoFd}
    BY Zenon DEF Held, MapFds, ExFds, ExKeys
  <2> QED
    BY <1>4, <1>8, <1>9, <2>1, <2>2, Zenon DEF BuildInv
<1> QED
  BY <1>10, <1>11, <1>12, <1>13, <1>14, Zenon DEF BuildInv

\* A map made from a section, or taken over from a builder, has one owner.
LEMMA CreateMapStep ==
  ASSUME BuildInv, NEW k, CreateMap(k)
  PROVE  BuildInv'
<1>1. bpc = "create" /\ k \in DOMAIN builders /\ sec' = sec /\ user' = user
  BY Zenon DEF CreateMap
<1>2. CASE Fail
  BY <1>1, <1>2, FailStep, Zenon
<1>3. CASE /\ builders[k].type = "Existing"
           /\ maps' = Put(maps, <<"sec", k>>,
                          [name |-> builders[k].name, fd |-> builders[k].fd, typed |-> FALSE,
                           section |-> builders[k].section])
           /\ builders' = Without(builders, k)
           /\ UNCHANGED <<bpc, symval, btf, fdt>>
  <2>1. PICK m : m = [name |-> builders[k].name, fd |-> builders[k].fd, typed |-> FALSE,
                      section |-> builders[k].section]
    BY Zenon
  <2>2. m.fd = builders[k].fd /\ m.typed = FALSE
    BY <2>1, Zenon
  <2> QED
    BY Zenon, <1>1, <1>3, <2>1, <2>2, ExistingStep
<1>4. CASE /\ builders[k].type # "Existing"
           /\ NewMap(builders[k], <<"sec", k>>)
           /\ builders' = Without(builders, k)
           /\ UNCHANGED <<bpc, symval, btf>>
  <2>1. PICK key : key = <<"sec", k>>
    BY Zenon
  <2>2. PICK b : b = builders[k]
    BY Zenon
  <2>3. key \notin DOMAIN maps
    BY <1>1, <2>1, Zenon DEF BuildInv, Phases
  <2>4. DOMAIN builders' = DOMAIN builders \ {k} /\ \A j \in DOMAIN builders' : builders'[j] = builders[j]
    BY <1>4, Zenon DEF Without, Restrict
  <2>5. Fewer
    BY <1>4, <2>4, Zenon DEF Fewer
  <2>6. ExKeys' = ExKeys
    BY <1>4, <2>4, Zenon DEF ExKeys
  <2>7. b.type = "Normal" => b.btf \in {NoFd, btf}
    BY <1>1, <2>2, Zenon DEF BuildInv, BuildersRight
  <2>8. /\ \A j \in DOMAIN builders' : <<"sec", j>> # key
        /\ \A v \in DOMAIN symval' : <<"sym", v>> # key
    BY <2>1, <2>4, Zenon
  <2>9. NewMap(b, key)
    BY <1>4, <2>1, <2>2, Zenon
  <2> QED
    BY <1>1, <1>4, <2>3, <2>5, <2>6, <2>7, <2>8, <2>9, NewMapStep, Zenon
<1> QED
  BY <1>2, <1>3, <1>4, Zenon DEF CreateMap

\* The same for a map found by the value of its symbol.
LEMMA CreateSymMapStep ==
  ASSUME BuildInv, NEW v, CreateSymMap(v)
  PROVE  BuildInv'
<1>1. /\ bpc = "create" /\ v \in DOMAIN symval /\ builders = NoEntries
      /\ sec' = sec /\ user' = user
  BY Zenon DEF CreateSymMap
<1>2. CASE Fail
  BY <1>1, <1>2, FailStep, Zenon
<1>3. CASE /\ NewMap(symval[v], <<"sym", v>>)
           /\ symval' = Without(symval, v)
           /\ UNCHANGED <<bpc, builders, btf>>
  <2>1. PICK key : key = <<"sym", v>>
    BY Zenon
  <2>2. PICK b : b = symval[v]
    BY Zenon
  <2>3. key \notin DOMAIN maps
    BY <1>1, <2>1, Zenon DEF BuildInv, Phases
  <2>4. DOMAIN symval' = DOMAIN symval \ {v} /\ \A j \in DOMAIN symval' : symval'[j] = symval[j]
    BY <1>3, Zenon DEF Without, Restrict
  <2>5. Fewer
    BY <1>3, <2>4, Zenon DEF Fewer
  <2>6. ExKeys' = ExKeys
    BY <1>3, Zenon DEF ExKeys
  <2>7. b.type = "Normal" => b.btf \in {NoFd, btf}
    BY <1>1, <2>2, Zenon DEF BuildInv, BuildersRight
  <2>8. /\ \A j \in DOMAIN builders' : <<"sec", j>> # key
        /\ \A u \in DOMAIN symval' : <<"sym", u>> # key
    BY <2>1, <2>4, Zenon
  <2>9. NewMap(b, key)
    BY <1>3, <2>1, <2>2, Zenon
  <2> QED
    BY <1>1, <1>3, <2>3, <2>5, <2>6, <2>7, <2>8, <2>9, NewMapStep, Zenon
<1> QED
  BY <1>2, <1>3, Zenon DEF CreateSymMap

\* What is left of the builder is the BTF, which is closed with it.
LEMMA RelocateDoneStep ==
  ASSUME BuildInv, RelocateDone
  PROVE  BuildInv'
<1>1. /\ bpc = "reloc" /\ bpc' = "built" /\ fdt' = Closed({btf}) /\ btf' = NoFd
      /\ UNCHANGED <<sec, builders, symval, maps, user>>
  BY Zenon DEF RelocateDone
<1>2. builders = NoEntries /\ symval = NoEntries
  BY <1>1, Zenon DEF BuildInv, Phases
<1>3. /\ ExKeys = {} /\ ExKeys' = {} /\ ExFds = {} /\ ExFds' = {}
      /\ MapFds' = MapFds /\ UserFds' = UserFds
  BY <1>1, <1>2, NoKeys, Zenon DEF ExKeys, ExFds, MapFds, UserFds
<1>4. Closes({btf}) /\ OpenFds' = OpenFds \ {btf}
  BY <1>1, ClosesFact, OpenFdsCloses, Zenon
<1>5. btf \notin MapFds \cup UserFds
  BY OwnedOpen, Zenon
<1>6. Phases' /\ BuildersRight'
  BY <1>1, <1>2, <1>3, NoKeys, Zenon DEF BuildInv, Phases, BuildersRight
<1>7. Apart'
  BY <1>1, <1>3, Zenon DEF BuildInv, Apart
<1>8. FilesRight'
  <2>1. \A f \in MapFds \cup UserFds : f \in Fds /\ fdt[f].type = "map" /\ fdt'[f] = fdt[f]
    BY <1>4, <1>5, Zenon DEF BuildInv, FilesRight, Closes
  <2>2. \A k \in DOMAIN maps : maps[k].fd \in MapFds
    BY Zenon DEF MapFds
  <2>3. \A k \in DOMAIN maps : maps[k].typed => fdt'[maps[k].fd].btf
    BY <2>1, <2>2, Zenon DEF BuildInv, FilesRight
  <2>4. DOMAIN fdt' = Fds
    BY <1>4, Zenon DEF Closes
  <2> QED
    BY Zenon, <1>1, <1>3, <2>1, <2>3, <2>4 DEF FilesRight
<1>9. OpenFds' = Held' \cup UserFds'
  <2>1. Held' = (MapFds' \cup {btf'} \cup ExFds') \ {NoFd}
    BY Zenon DEF Held, MapFds, ExFds, ExKeys
  <2>2. Held = MapFds \cup ({btf} \ {NoFd}) /\ NoFd \notin MapFds \cup OpenFds
    BY <1>3, OwnedOpen, Zenon
  <2> QED
    BY <1>1, <1>3, <1>4, <1>5, <2>1, <2>2, Zenon DEF BuildInv
<1> QED
  BY <1>6, <1>7, <1>8, <1>9, Zenon DEF BuildInv

\* Every step keeps the invariant.
LEMMA BuildStep == BuildInv /\ [BuildNext]_buildVars => BuildInv'
<1> SUFFICES ASSUME BuildInv, [BuildNext]_buildVars PROVE BuildInv'
  BY Zenon
<1>1. CASE ParseDone
  <2>1. /\ bpc = "parse" /\ bpc' = "builder"
        /\ UNCHANGED <<sec, builders, symval, btf, maps, fdt, user>>
    BY <1>1, Zenon DEF ParseDone
  <2>2. Phases'
    BY <2>1, Zenon DEF BuildInv, Phases
  <2> QED
    BY <2>1, <2>2, StillStep, Zenon
<1>2. CASE ToModule
  <2>1. /\ bpc = "builder" /\ bpc' = "create"
        /\ UNCHANGED <<sec, builders, symval, btf, maps, fdt, user>>
    BY <1>2, Zenon DEF ToModule
  <2>2. Phases'
    BY <2>1, Zenon DEF BuildInv, Phases
  <2> QED
    BY <2>1, <2>2, StillStep, Zenon
<1>3. CASE CreateDone
  <2>1. /\ bpc = "create" /\ bpc' = "reloc" /\ builders = NoEntries /\ symval = NoEntries
        /\ UNCHANGED <<sec, builders, symval, btf, maps, fdt, user>>
    BY <1>3, Zenon DEF CreateDone
  <2>2. Phases'
    BY <2>1, Zenon DEF BuildInv, Phases
  <2> QED
    BY <2>1, <2>2, StillStep, Zenon
<1>4. CASE Relocate
  <2>1. sec' = sec /\ user' = user
    BY <1>4, Zenon DEF Relocate
  <2>2. CASE Fail
    BY <2>1, <2>2, FailStep, Zenon
  <2>3. CASE UNCHANGED <<bpc, builders, symval, btf, maps, fdt>>
    <3>1. ExKeys' = ExKeys
      BY <2>3, Zenon DEF ExKeys
    <3>2. Phases'
      BY <2>1, <2>3, <3>1, Zenon DEF BuildInv, Phases
    <3> QED
      BY <2>1, <2>3, <3>2, StillStep, Zenon
  <2> QED
    BY <1>4, <2>2, <2>3, Zenon DEF Relocate
<1>5. CASE UNCHANGED buildVars
  <2>1. UNCHANGED <<bpc, sec, builders, symval, btf, maps, fdt, user>>
    BY <1>5, Zenon DEF buildVars
  <2>2. ExKeys' = ExKeys
    BY <2>1, Zenon DEF ExKeys
  <2>3. Phases'
    BY <2>1, <2>2, Zenon DEF BuildInv, Phases
  <2> QED
    BY <2>1, <2>3, StillStep, Zenon
<1> QED
  BY <1>1, <1>2, <1>3, <1>4, <1>5, ParseBtfStep, ParseSectionStep, OpenMapStep, ReplaceMapStep,
     CreateMapStep, CreateSymMapStep, RelocateDoneStep, Zenon DEF BuildNext

\* Every open descriptor has an owner, a builder that failed has none, and a map
\* created with type ids refers to BTF that is loaded, for every object file,
\* every order of the hash tables, every sequence of replace_map calls and every
\* step at which parse or to_module may fail.
THEOREM BuildKeepsDescriptors == BuildSpec => []NoDescriptorLost
<1>1. BuildInv => NoDescriptorLost
  <2> SUFFICES ASSUME BuildInv PROVE NoDescriptorLost
    BY Zenon
  <2>1. {f \in Fds : fdt[f] # Free} = Held \cup {user[n] : n \in DOMAIN user}
    BY Zenon DEF BuildInv, OpenFds, UserFds
  <2>2. bpc = "failed" => Held = {}
    <3>1. bpc = "failed" => MapFds = {} /\ ExFds = {} /\ btf = NoFd
      BY NoKeys, Zenon DEF BuildInv, Phases, MapFds, ExFds, ExKeys
    <3> QED
      BY <3>1, OwnedOpen, Zenon
  <2>3. \A k \in DOMAIN maps : maps[k].typed => fdt[maps[k].fd].btf
    BY Zenon DEF BuildInv, FilesRight
  <2> QED
    BY <2>1, <2>2, <2>3, Zenon DEF NoDescriptorLost
<1> QED
  BY <1>1, BuildStart, BuildStep, PTL DEF BuildSpec

-----------------------------------------------------------------------------
(* Relocation                                                              *)

\* The relocations of an object, as RelocationInfo keeps them.
RelInfos ==
  [target : {obj.secs[i].target : i \in SecsOf(obj, {"rel"})},
   rel : [sym : DOMAIN obj.syms, insn : Nat, addend : Int]]

\* Each comes from a section that was parsed, and no two are of one instruction.
RelsRight ==
  /\ rels \in Seq(RelInfos)
  /\ \A n \in DOMAIN rels : \E i \in SecsOf(obj, {"rel"}) : \E a \in DOMAIN obj.secs[i].rels :
       /\ i < sec
       /\ rels[n].target = obj.secs[i].target /\ rels[n].rel = obj.secs[i].rels[a]
  /\ \A m, n \in DOMAIN rels :
       rels[m].target = rels[n].target /\ rels[m].rel.insn = rels[n].rel.insn => m = n

\* Builder b is that of section k.
BuilderFor(k, b) ==
  /\ k \in SecsOf(obj, {"map", "data"})
  /\ b.type \in {"Normal", "SectionData", "Existing"}
  /\ b.type = "Normal" =>
       obj.secs[k].kind = "map" /\ b.def = obj.secs[k].def /\ k \notin DOMAIN replaced
  /\ b.type = "SectionData" => obj.secs[k].kind = "data" /\ k \notin DOMAIN replaced
  /\ b.type = "Existing" =>
       /\ k \in DOMAIN replaced /\ fdt[b.fd].of = <<"new", replaced[k]>>
       /\ b.section = (obj.secs[k].kind = "data")
       /\ \E n \in NewMaps : n.def = b.def /\ n.section = b.section

BuildersFor == \A k \in DOMAIN builders : BuilderFor(k, builders[k])

UsersFor == \A n \in DOMAIN user : n \in NewMaps /\ fdt[user[n]].of = <<"new", n.id>>

\* The section maps has a symbol of that value and name.
IsSymbol(v, name) ==
  \E t \in DOMAIN obj.syms : /\ obj.syms[t].sec \in SecsOf(obj, {"maps"})
                             /\ obj.syms[t].value = v /\ obj.syms[t].name = name

SymbolsFor == \A v \in DOMAIN symval : symval[v].type = "Normal" /\ IsSymbol(v, symval[v].name)

\* Map m of the module is that of section k, or of the symbols with value v.
SecMap(k, m) ==
  /\ k \in SecsOf(obj, {"map", "data"})
  /\ m.section = (obj.secs[k].kind = "data")
  /\ fdt[m.fd].of = IF k \in DOMAIN replaced THEN <<"new", replaced[k]>> ELSE <<"sec", k>>

SymMap(v, m) ==
  m.section = FALSE /\ \E name : IsSymbol(v, name) /\ fdt[m.fd].of = <<"sym", name>>

MapsFor ==
  /\ \A k : <<"sec", k>> \in DOMAIN maps => SecMap(k, maps[<<"sec", k>>])
  /\ \A v : <<"sym", v>> \in DOMAIN maps => SymMap(v, maps[<<"sym", v>>])

\* Instruction c is what relocation r makes of it.
Patched(r, c) ==
  LET s == obj.syms[r.sym]
  IN  /\ c.fd \in MapFds /\ Denotes(fdt[c.fd], s)
      /\ c.src = "value" => c.off = r.addend + s.value
      /\ c.src = "value" <=> s.sec \in SecsOf(obj, {"data"})

\* The relocations before `next' have been applied, and nothing else.
ProgramsFor ==
  /\ DOMAIN programs \subseteq SecsOf(obj, {"prog", "task_iter"})
  /\ \A t \in DOMAIN programs : \A x \in DOMAIN programs[t] :
       \E j \in DOMAIN rels : j < next /\ rels[j].target = t /\ rels[j].rel.insn = x
  /\ \A i \in DOMAIN rels : i < next /\ rels[i].target \in DOMAIN programs =>
       /\ rels[i].rel.insn \in DOMAIN programs[rels[i].target]
       /\ Patched(rels[i].rel, programs[rels[i].target][rels[i].rel.insn])

Reached ==
  /\ obj \in Objects /\ next \in Nat
  /\ bpc = "parse" => replaced = NoEntries
  /\ bpc \in {"parse", "builder", "create"} => next = 1
  /\ bpc = "built" => next = Len(rels) + 1

RelocInv ==
  /\ BuildInv /\ Reached /\ RelsRight /\ BuildersFor /\ UsersFor /\ SymbolsFor /\ MapsFor
  /\ ProgramsFor

\* The descriptors that F owns refer to what they referred to before.
SameFiles(F) == \A f \in F : fdt'[f] = fdt[f]

\* Builders that stay, over files that stay, are for the maps they were for.
LEMMA SameBuilders ==
  ASSUME BuildersFor, obj' = obj, replaced' = replaced, SameFiles(ExFds),
         \A k \in DOMAIN builders' : k \in DOMAIN builders /\ builders'[k] = builders[k]
  PROVE  BuildersFor'
<1> SUFFICES ASSUME NEW k \in DOMAIN builders' PROVE BuilderFor(k, builders[k])'
  BY Zenon DEF BuildersFor
<1>1. BuilderFor(k, builders[k]) /\ builders'[k] = builders[k]
  BY Zenon DEF BuildersFor
<1>2. builders[k].type = "Existing" => fdt'[builders[k].fd] = fdt[builders[k].fd]
  BY Zenon DEF SameFiles, ExFds, ExKeys
<1> QED
  BY <1>1, <1>2 DEF BuilderFor, SecsOf

\* The maps the user holds stay what they are while their files do.
LEMMA SameUsers ==
  ASSUME UsersFor, user' = user, SameFiles(UserFds)
  PROVE  UsersFor'
  BY Zenon DEF UsersFor, SameFiles, UserFds

\* No new value of a symbol, no change of what the values denote.
LEMMA SameSymbols ==
  ASSUME SymbolsFor, obj' = obj,
         \A v \in DOMAIN symval' : v \in DOMAIN symval /\ symval'[v] = symval[v]
  PROVE  SymbolsFor'
  BY DEF SymbolsFor, IsSymbol, SecsOf

\* A map over the same file is for the section or symbol it was for.
LEMMA SameMap ==
  ASSUME obj' = obj, replaced' = replaced, NEW k, NEW m, fdt'[m.fd] = fdt[m.fd]
  PROVE  /\ SecMap(k, m) => SecMap(k, m)'
         /\ SymMap(k, m) => SymMap(k, m)'
  BY Zenon DEF SecMap, SymMap, IsSymbol, SecsOf

\* The same for all maps of the module.
LEMMA SameMaps ==
  ASSUME MapsFor, obj' = obj, replaced' = replaced, maps' = maps, SameFiles(MapFds)
  PROVE  MapsFor'
<1>1. \A key \in DOMAIN maps : fdt'[maps[key].fd] = fdt[maps[key].fd]
  BY Zenon DEF SameFiles, MapFds
<1>2. ASSUME NEW k, <<"sec", k>> \in DOMAIN maps PROVE SecMap(k, maps[<<"sec", k>>])'
  <2>1. PICK key : key = <<"sec", k>>
    BY Zenon
  <2>2. PICK m : m = maps[key]
    BY Zenon
  <2>3. SecMap(k, m) /\ fdt'[m.fd] = fdt[m.fd]
    BY <1>1, <1>2, <2>1, <2>2, Zenon DEF MapsFor
  <2>4. SecMap(k, m)'
    BY <2>3, SameMap, Zenon
  <2> QED
    BY <2>1, <2>2, <2>4, Zenon
<1>3. ASSUME NEW k, <<"sym", k>> \in DOMAIN maps PROVE SymMap(k, maps[<<"sym", k>>])'
  <2>1. PICK key : key = <<"sym", k>>
    BY Zenon
  <2>2. PICK m : m = maps[key]
    BY Zenon
  <2>3. SymMap(k, m) /\ fdt'[m.fd] = fdt[m.fd]
    BY <1>1, <1>3, <2>1, <2>2, Zenon DEF MapsFor
  <2>4. SymMap(k, m)'
    BY <2>3, SameMap, Zenon
  <2> QED
    BY <2>1, <2>2, <2>4, Zenon
<1> QED
  BY <1>2, <1>3, Zenon DEF MapsFor

\* An instruction that was patched stays right while the maps stay open.
LEMMA SamePatched ==
  ASSUME obj' = obj, replaced' = replaced, MapFds \subseteq MapFds', SameFiles(MapFds),
         NEW r, NEW c, Patched(r, c)
  PROVE  Patched(r, c)'
<1>1. c.fd \in MapFds' /\ fdt'[c.fd] = fdt[c.fd]
  BY Zenon DEF Patched, SameFiles
<1>2. Denotes(fdt[c.fd], obj.syms[r.sym])
  BY Zenon DEF Patched
<1>3. Denotes(fdt[c.fd], obj.syms[r.sym])'
  BY <1>1, <1>2, Zenon DEF Denotes, SecsOf
<1> QED
  BY <1>1, <1>3, Zenon DEF Patched, SecsOf

\* The same for all programs.
LEMMA SamePrograms ==
  ASSUME ProgramsFor, obj' = obj, replaced' = replaced, MapFds \subseteq MapFds',
         SameFiles(MapFds), UNCHANGED <<programs, rels, next>>
  PROVE  ProgramsFor'
<1>1. ASSUME NEW i \in DOMAIN rels, i < next, rels[i].target \in DOMAIN programs
      PROVE  Patched(rels[i].rel, programs[rels[i].target][rels[i].rel.insn])'
  <2>1. Patched(rels[i].rel, programs[rels[i].target][rels[i].rel.insn])
    BY <1>1, Zenon DEF ProgramsFor
  <2>2. PICK r, c : r = rels[i].rel /\ c = programs[rels[i].target][rels[i].rel.insn]
    BY Zenon
  <2>3. Patched(r, c)'
    BY <2>1, <2>2, SamePatched, Zenon
  <2> QED
    BY <2>2, <2>3, Zenon
<1>2. DOMAIN programs \subseteq SecsOf(obj, {"prog", "task_iter"})'
  BY Zenon DEF ProgramsFor, SecsOf
<1> QED
  BY <1>1, <1>2 DEF ProgramsFor

Parts ==
  /\ Reached /\ RelsRight /\ BuildersFor /\ UsersFor /\ SymbolsFor /\ MapsFor /\ ProgramsFor

\* Sections are numbered from 1.
LEMMA SectionNumbers ==
  ASSUME obj \in Objects
  PROVE  \A i \in DOMAIN obj.secs : i \in Nat /\ 0 < i /\ i < Len(obj.secs) + 1
<1>1. DOMAIN obj.secs = 1 .. Len(obj.secs) /\ Len(obj.secs) \in Nat
  BY ObjectAssumption, Zenon
<1> QED
  BY <1>1

\* Relocations are those of the sections parsed, also when one has none.
LEMMA SameRels ==
  ASSUME obj \in Objects, RelsRight, BuildInv, UNCHANGED <<obj, rels>>, sec' \in {sec, sec + 1}
  PROVE  RelsRight'
<1>1. sec \in Nat
  BY Zenon DEF BuildInv, Phases
<1>2. ASSUME NEW n \in DOMAIN rels
      PROVE  \E i \in SecsOf(obj, {"rel"}) : \E a \in DOMAIN obj.secs[i].rels :
               /\ i < sec'
               /\ rels[n].target = obj.secs[i].target /\ rels[n].rel = obj.secs[i].rels[a]
  <2>1. PICK i \in SecsOf(obj, {"rel"}) : \E a \in DOMAIN obj.secs[i].rels :
               /\ i < sec
               /\ rels[n].target = obj.secs[i].target /\ rels[n].rel = obj.secs[i].rels[a]
    BY Zenon DEF RelsRight
  <2>2. i \in Nat
    BY SectionNumbers, Zenon DEF SecsOf
  <2>3. i < sec'
    BY <1>1, <2>1, <2>2
  <2> QED
    BY <2>1, <2>3, Zenon
<1> QED
  BY <1>2 DEF RelsRight, RelInfos, SecsOf

\* An open changes no file that has an owner.
LEMMA FilesOpened ==
  ASSUME BuildInv, NEW f, NEW o, Opens(f, o)
  PROVE  SameFiles(MapFds \cup ExFds \cup UserFds)
<1>1. f \notin OpenFds
  BY OpenFdsOpens, Zenon
<1>2. MapFds \cup ExFds \cup UserFds \subseteq OpenFds /\ MapFds \cup ExFds \cup UserFds \subseteq Fds
  BY OwnedOpen, Zenon
<1> QED
  BY <1>1, <1>2, Zenon DEF SameFiles, Opens

\* A close changes no file of another owner.
LEMMA FilesClosed ==
  ASSUME BuildInv, NEW F, Closes(F), NEW G, G \subseteq MapFds \cup ExFds \cup UserFds, G \cap F = {}
  PROVE  SameFiles(G)
<1>1. G \subseteq Fds
  BY OwnedOpen, Zenon
<1> QED
  BY <1>1, Zenon DEF SameFiles, Closes

\* What holds for many files holds for some.
LEMMA FewerFiles ==
  ASSUME NEW F, SameFiles(F), NEW G, G \subseteq F
  PROVE  SameFiles(G)
  BY Zenon DEF SameFiles

\* When the builder gives up, only the objects of the caller are left.
LEMMA FailParts ==
  ASSUME RelocInv, Fail, UNCHANGED <<obj, sec, rels, user, replaced>>, next' \in Nat
  PROVE  Parts'
<1>1. /\ bpc' = "failed" /\ builders' = NoEntries /\ symval' = NoEntries /\ maps' = NoEntries
      /\ programs' = NoEntries /\ fdt' = Closed(Held)
  BY Zenon DEF Fail
<1>2. Reached'
  BY <1>1, Zenon DEF RelocInv, Reached
<1>3. RelsRight'
  BY SameRels, Zenon DEF RelocInv, Reached
<1>4. BuildersFor' /\ SymbolsFor' /\ MapsFor' /\ ProgramsFor'
  BY <1>1, NoKeys, Zenon DEF BuildersFor, SymbolsFor, MapsFor, ProgramsFor
<1>5. UserFds \cap Held = {}
  BY OwnedOpen, Zenon DEF RelocInv, BuildInv, Apart
<1>6. SameFiles(UserFds)
  BY <1>1, <1>5, ClosesFact, FilesClosed, Zenon DEF RelocInv
<1>7. UsersFor'
  BY <1>6, SameUsers, Zenon DEF RelocInv
<1> QED
  BY <1>2, <1>3, <1>4, <1>7, Zenon DEF Parts

\* Steps that neither open nor close nor build.
LEMMA StillParts ==
  ASSUME RelocInv, SameFiles(MapFds \cup ExFds \cup UserFds), Reached',
         UNCHANGED <<obj, builders, symval, maps, user, replaced, programs, rels, next>>,
         sec' \in {sec, sec + 1}
  PROVE  Parts'
<1>1. SameFiles(MapFds) /\ SameFiles(ExFds) /\ SameFiles(UserFds)
  BY FewerFiles, Zenon
<1>2. RelsRight' /\ UsersFor'
  BY <1>1, SameRels, SameUsers, Zenon DEF RelocInv, Reached
<1>3. BuildersFor'
  BY <1>1, SameBuilders, Zenon DEF RelocInv
<1>4. SymbolsFor' /\ MapsFor'
  BY <1>1, SameSymbols, SameMaps, Zenon DEF RelocInv
<1>5. ProgramsFor'
  <2>1. MapFds' = MapFds
    BY Zenon DEF MapFds
  <2> QED
    BY <1>1, <2>1, SamePrograms, Zenon DEF RelocInv
<1> QED
  BY <1>2, <1>3, <1>4, <1>5, Zenon DEF Parts

\* BTF has nothing to do with builders and relocations.
LEMMA ParseBtfParts ==
  ASSUME RelocInv, ParseBtf
  PROVE  Parts'
<1>1. /\ bpc = "parse" /\ sec = 0 /\ sec' = 1
      /\ UNCHANGED <<obj, bpc, programs, builders, symval, rels, maps, next, user, replaced>>
      /\ \/ fdt' = fdt
         \/ Unused # {} /\ fdt' = Opened([type |-> "btf"])
  BY Zenon DEF ParseBtf
<1>2. SameFiles(MapFds \cup ExFds \cup UserFds)
  <2>1. CASE fdt' = fdt
    BY <2>1, Zenon DEF SameFiles
  <2>2. CASE Unused # {} /\ fdt' = Opened([type |-> "btf"])
    <3>1. PICK o : o = [type |-> "btf"]
      BY Zenon
    <3>2. o # Free
      BY <3>1, Zenon DEF Free
    <3>3. Opens(Min(Unused), o)
      BY <2>2, <3>1, <3>2, OpensFact, Zenon DEF RelocInv, BuildInv
    <3> QED
      BY <3>3, FilesOpened, Zenon DEF RelocInv
  <2> QED
    BY <1>1, <2>1, <2>2, Zenon
<1>3. Reached' /\ sec' = sec + 1
  BY <1>1 DEF RelocInv, Reached
<1> QED
  BY <1>1, <1>2, <1>3, StillParts, Zenon

\* A change of phase changes no map.
LEMMA PhaseParts ==
  ASSUME RelocInv, ParseDone \/ ToModule \/ CreateDone
  PROVE  Parts'
<1>1. /\ UNCHANGED <<obj, sec, programs, builders, symval, rels, maps, next, fdt, user, replaced>>
      /\ bpc \in {"parse", "builder", "create"} /\ bpc' \in {"builder", "create", "reloc"}
  BY Zenon DEF ParseDone, ToModule, CreateDone
<1>2. SameFiles(MapFds \cup ExFds \cup UserFds)
  BY <1>1, Zenon DEF SameFiles
<1>3. Reached'
  BY <1>1, Zenon DEF RelocInv, Reached
<1> QED
  BY <1>1, <1>2, <1>3, StillParts, Zenon

\* When no relocation is left all are applied.
LEMMA RelocateDoneParts ==
  ASSUME RelocInv, RelocateDone
  PROVE  Parts'
<1>1. /\ UNCHANGED <<obj, sec, programs, builders, symval, rels, maps, next, user, replaced>>
      /\ fdt' = Closed({btf}) /\ next = Len(rels) + 1 /\ bpc' = "built"
  BY Zenon DEF RelocateDone
<1>2. SameFiles(MapFds \cup ExFds \cup UserFds)
  <2>1. Closes({btf})
    BY <1>1, ClosesFact, Zenon
  <2>2. btf \notin MapFds \cup ExFds \cup UserFds
    BY OwnedOpen, Zenon DEF RelocInv
  <2> QED
    BY <2>1, <2>2, FilesClosed DEF RelocInv
<1>3. Reached'
  BY <1>1, Zenon DEF RelocInv, Reached
<1> QED
  BY <1>1, <1>2, <1>3, StillParts, Zenon

\* A map opened by the user is the one that was asked for.
LEMMA OpenMapParts ==
  ASSUME RelocInv, NEW n \in NewMaps, OpenMap(n)
  PROVE  Parts'
<1> DEFINE o == [type |-> "map", of |-> <<"new", n.id>>, btf |-> FALSE]
<1>1. /\ bpc = "builder" /\ n \notin DOMAIN user /\ Unused # {}
      /\ user' = Put(user, n, Min(Unused)) /\ fdt' = Opened(o)
      /\ UNCHANGED <<obj, bpc, sec, programs, builders, symval, rels, btf, maps, next, replaced>>
  BY Zenon DEF OpenMap
<1>2. o.type = "map" /\ o # Free /\ o.of = <<"new", n.id>>
  BY FreeRecord, Zenon
<1> HIDE DEF o
<1>3. PICK f : f = Min(Unused)
  BY Zenon
<1>4. Opens(f, o)
  BY <1>1, <1>2, <1>3, OpensFact, Zenon DEF RelocInv, BuildInv
<1>5. SameFiles(MapFds) /\ SameFiles(ExFds) /\ SameFiles(UserFds)
  BY <1>4, FilesOpened, FewerFiles, Zenon DEF RelocInv
<1>6. UsersFor'
  <2>1. DOMAIN user' = DOMAIN user \cup {n} /\ user'[n] = f /\ \A x \in DOMAIN user : user'[x] = user[x]
    BY <1>1, <1>3, Zenon DEF Put
  <2>2. fdt'[f] = o
    BY <1>4, Zenon DEF Opens
  <2>3. \A x \in DOMAIN user : x \in NewMaps /\ fdt'[user[x]].of = <<"new", x.id>>
    BY <1>5, Zenon DEF RelocInv, UsersFor, SameFiles, UserFds
  <2> QED
    BY <1>2, <2>1, <2>2, <2>3, Zenon DEF UsersFor
<1>7. Reached' /\ RelsRight'
  BY <1>1, SameRels, Zenon DEF RelocInv, Reached
<1>8. BuildersFor' /\ SymbolsFor' /\ MapsFor'
  BY <1>1, <1>5, SameBuilders, SameSymbols, SameMaps, Zenon DEF RelocInv
<1>9. ProgramsFor'
  <2>1. MapFds' = MapFds
    BY <1>1, Zenon DEF MapFds
  <2> QED
    BY <1>1, <1>5, <2>1, SamePrograms, Zenon DEF RelocInv
<1> QED
  BY <1>6, <1>7, <1>8, <1>9, Zenon DEF Parts

\* replace_map: new goes from the caller to the builder, or is dropped.
LEMMA ReplaceParts ==
  ASSUME NewMapsFit, RelocInv, NEW name, NEW n \in NewMaps, ReplaceMap(name, n)
  PROVE  Parts'
<1>1. /\ bpc = "builder" /\ n \in DOMAIN user /\ user' = Without(user, n)
      /\ UNCHANGED <<obj, bpc, sec, programs, symval, rels, btf, maps, next>>
  BY Zenon DEF ReplaceMap
<1>2. /\ maps = NoEntries /\ MapFds = {} /\ MapFds' = {} /\ DOMAIN maps = {}
  BY <1>1, NoKeys, Zenon DEF RelocInv, BuildInv, Phases, MapFds
<1>3. /\ user[n] \in UserFds /\ UserFds' = UserFds \ {user[n]}
      /\ \A x \in DOMAIN user' : x \in DOMAIN user /\ user'[x] = user[x] /\ user'[x] \in UserFds'
  <2>1. user[n] \in UserFds /\ UserFds' = UserFds \ {user[n]}
    BY <1>1, MovedOut, Zenon DEF RelocInv
  <2>2. \A x \in DOMAIN user' : x \in DOMAIN user /\ user'[x] = user[x] /\ user'[x] \in UserFds'
    BY <1>1, Zenon DEF Without, Restrict, UserFds
  <2> QED
    BY <2>1, <2>2, Zenon
<1>4. SymbolsFor' /\ MapsFor' /\ RelsRight'
  <2>1. SymbolsFor' /\ RelsRight'
    BY <1>1, SameSymbols, SameRels, Zenon DEF RelocInv, Reached
  <2>2. MapsFor'
    BY <1>1, <1>2, Zenon DEF MapsFor
  <2> QED
    BY <2>1, <2>2, Zenon
<1>5. Reached'
  BY <1>1, Zenon DEF RelocInv, Reached
<1>6. ProgramsFor'
  <2>1. next = 1 /\ rels \in Seq(RelInfos)
    BY <1>1, Zenon DEF RelocInv, Reached, RelsRight
  <2>2. \A i \in DOMAIN rels : ~(i < next)
    BY <2>1
  <2>3. DOMAIN programs \subseteq SecsOf(obj, {"prog", "task_iter"})'
    BY <1>1, Zenon DEF RelocInv, ProgramsFor, SecsOf
  <2> QED
    BY <1>1, <2>2, <2>3, Zenon DEF RelocInv, ProgramsFor
<1>7. UsersFor' /\ BuildersFor'
  <2>1. CASE fdt' = Closed({user[n]}) /\ UNCHANGED <<builders, replaced>>
    <3>1. Closes({user[n]})
      BY <2>1, ClosesFact, Zenon
    <3>2. SameFiles(ExFds) /\ SameFiles(UserFds')
      <4>1. ExFds \cap {user[n]} = {} /\ UserFds' \cap {user[n]} = {} /\ UserFds' \subseteq UserFds
        BY <1>3, Zenon DEF RelocInv, BuildInv, Apart
      <4> QED
        BY <3>1, <4>1, FilesClosed, Zenon DEF RelocInv
    <3>3. UsersFor'
      BY <1>3, <3>2, Zenon DEF RelocInv, UsersFor, SameFiles
    <3>4. BuildersFor'
      BY <1>1, <2>1, <3>2, SameBuilders, Zenon DEF RelocInv
    <3> QED
      BY <3>3, <3>4, Zenon
  <2>2. ASSUME NEW k \in DOMAIN builders, Matches(builders[k], n),
               builders' = [builders EXCEPT ![k] = Existing(n, user[n])],
               fdt' = Closed(IF builders[k].type = "Existing" THEN {builders[k].fd} ELSE {}),
               replaced' = Put(replaced, k, n.id)
        PROVE  UsersFor' /\ BuildersFor'
    <3>1. PICK F : F = IF builders[k].type = "Existing" THEN {builders[k].fd} ELSE {}
      BY Zenon
    <3>2. Closes(F)
      BY <2>2, <3>1, ClosesFact, Zenon
    <3>3. F \subseteq ExFds /\ UserFds \cap F = {}
      BY <3>1 DEF RelocInv, BuildInv, Apart, ExFds, ExKeys
    <3>4. SameFiles(UserFds) /\ SameFiles(UserFds')
      BY <1>3, <3>2, <3>3, FilesClosed, FewerFiles, Zenon DEF RelocInv
    <3>5. UsersFor'
      BY <1>3, <3>4, Zenon DEF RelocInv, UsersFor, SameFiles
    <3>6. ASSUME NEW j \in DOMAIN builders', j # k PROVE BuilderFor(j, builders[j])'
      <4>1. j \in DOMAIN builders /\ builders'[j] = builders[j]
        BY <2>2, <3>6, Zenon
      <4>2. BuilderFor(j, builders[j])
        BY <4>1, Zenon DEF RelocInv, BuildersFor
      <4>3. DOMAIN replaced' = DOMAIN replaced \cup {k} /\ (j \in DOMAIN replaced => replaced'[j] = replaced[j])
        BY <2>2, <3>6, Zenon DEF Put
      <4>4. builders[j].type = "Existing" => fdt'[builders[j].fd] = fdt[builders[j].fd]
        <5>1. SUFFICES ASSUME builders[j].type = "Existing" PROVE SameFiles({builders[j].fd})
          BY Zenon DEF SameFiles
        <5>2. builders[j].fd \in ExFds /\ builders[j].fd \notin F
          BY <3>1, <3>6, <4>1, <5>1, Zenon DEF RelocInv, BuildInv, Apart, ExFds, ExKeys
        <5> QED
          BY <3>2, <5>2, FilesClosed, Zenon DEF RelocInv
      <4> QED
        BY <1>1, <3>6, <4>1, <4>2, <4>3, <4>4 DEF BuilderFor, SecsOf
    <3>7. BuilderFor(k, builders[k])'
      <4>1. builders'[k] = Existing(n, user[n])
        BY <2>2, Zenon
      <4>2. PICK b : b = builders'[k]
        BY Zenon
      <4>3. b.type = "Existing" /\ b.def = n.def /\ b.section = n.section /\ b.fd = user[n]
        BY <4>1, <4>2 DEF Existing
      <4>4. k \in DOMAIN replaced' /\ replaced'[k] = n.id
        BY <2>2, Zenon DEF Put
      <4>5. fdt'[user[n]].of = <<"new", n.id>>
        BY <1>1, <1>3, <3>4, Zenon DEF RelocInv, UsersFor, SameFiles
      <4>6. k \in SecsOf(obj, {"map", "data"}) /\ n.section = (obj.secs[k].kind = "data")
        <5>1. BuilderFor(k, builders[k]) /\ obj \in Objects
          BY Zenon DEF RelocInv, BuildersFor, Reached
        <5>2. n.section \in BOOLEAN
          BY Zenon DEF NewMapsFit
        <5>3. CASE builders[k].type = "SectionData"
          BY <2>2, <5>1, <5>2, <5>3, Zenon DEF BuilderFor, Matches
        <5>4. CASE builders[k].type = "Normal"
          <6>1. n.def = obj.secs[k].def /\ k \in SecsOf(obj, {"map"}) /\ obj.secs[k].kind = "map"
            BY <2>2, <5>1, <5>4, Zenon DEF BuilderFor, Matches, SecsOf
          <6>2. n.section = FALSE
            BY <5>1, <6>1 DEF NewMapsFit
          <6> QED
            BY <5>1, <6>1, <6>2, Zenon DEF BuilderFor
        <5>5. CASE builders[k].type = "Existing"
          <6>1. PICK m \in NewMaps : m.def = builders[k].def /\ m.section = builders[k].section
            BY <5>1, <5>5, Zenon DEF BuilderFor
          <6>2. n.section = m.section
            BY <2>2, <5>5, <6>1, Zenon DEF Matches, NewMapsFit
          <6> QED
            BY <5>1, <5>5, <6>1, <6>2, Zenon DEF BuilderFor
        <5> QED
          BY <5>1, <5>3, <5>4, <5>5, Zenon DEF BuilderFor
      <4> QED
        BY <1>1, <4>2, <4>3, <4>4, <4>5, <4>6, Zenon DEF BuilderFor, SecsOf
    <3> QED
      BY <3>5, <3>6, <3>7, Zenon DEF BuildersFor
  <2> QED
    BY <2>1, <2>2, Zenon DEF ReplaceMap
<1> QED
  BY <1>4, <1>5, <1>6, <1>7, Zenon DEF Parts

\* A map that is created is that of its section, or of its symbol.
LEMMA NewMapParts ==
  ASSUME RelocInv, bpc = "create",
         UNCHANGED <<obj, bpc, sec, rels, next, user, replaced, programs>>, Fewer,
         NEW key, key \notin DOMAIN maps, NEW b, NewMap(b, key),
         \/ \E k : /\ key = <<"sec", k>> /\ BuilderFor(k, b) /\ b.type # "Existing"
         \/ \E v : /\ key = <<"sym", v>> /\ IsSymbol(v, b.name) /\ b.type = "Normal"
  PROVE  Parts'
<1> DEFINE typed == b.type = "Normal" /\ b.btf # NoFd
<1>0. PICK o, m :
        /\ o = [type |-> "map", of |-> <<key[1], IF key[1] = "sym" THEN b.name ELSE key[2]>>,
                btf |-> typed /\ fdt[b.btf].type = "btf"]
        /\ m = [name |-> b.name, fd |-> Min(Unused), typed |-> typed,
                section |-> b.type = "SectionData"]
  BY Zenon
<1>1. Unused # {} /\ fdt' = Opened(o) /\ maps' = Put(maps, key, m)
  BY <1>0, Zenon DEF NewMap
<1>2. o.type = "map" /\ o # Free
  BY <1>0, FreeRecord
<1>3. PICK f : f = Min(Unused)
  BY Zenon
<1>4. m.fd = f /\ m.section = (b.type = "SectionData")
  BY <1>0, <1>3, Zenon
<1>5. o.of = <<key[1], IF key[1] = "sym" THEN b.name ELSE key[2]>>
  BY <1>0, Zenon
<1>6. Opens(f, o)
  BY <1>1, <1>2, <1>3, OpensFact, Zenon DEF RelocInv, BuildInv
<1>7. SameFiles(MapFds) /\ SameFiles(ExFds) /\ SameFiles(UserFds) /\ fdt'[f] = o
  BY <1>6, FilesOpened, FewerFiles, Zenon DEF RelocInv, Opens
<1>8. /\ DOMAIN maps' = DOMAIN maps \cup {key} /\ maps'[key] = m
      /\ \A k \in DOMAIN maps : maps'[k] = maps[k] /\ fdt'[maps[k].fd] = fdt[maps[k].fd]
      /\ MapFds' = MapFds \cup {f}
  <2>1. /\ DOMAIN maps' = DOMAIN maps \cup {key} /\ maps'[key] = m
        /\ \A k \in DOMAIN maps : maps'[k] = maps[k]
        /\ MapFds' = MapFds \cup {f}
    BY Zenon, <1>1, <1>4, PutMap
  <2>2. \A k \in DOMAIN maps : fdt'[maps[k].fd] = fdt[maps[k].fd]
    BY <1>7, Zenon DEF SameFiles, MapFds
  <2> QED
    BY <2>1, <2>2, Zenon
<1>9. Reached' /\ RelsRight' /\ UsersFor'
  BY <1>7, SameRels, SameUsers, Zenon DEF RelocInv, Reached
<1>10. BuildersFor' /\ SymbolsFor'
  BY <1>7, SameBuilders, SameSymbols, Zenon DEF RelocInv, Fewer
<1>11. ProgramsFor'
  BY <1>7, <1>8, SamePrograms, Zenon DEF RelocInv
<1>12. ASSUME NEW k, <<"sec", k>> \in DOMAIN maps' PROVE SecMap(k, maps[<<"sec", k>>])'
  <2>1. PICK x : x = <<"sec", k>>
    BY Zenon
  <2>2. CASE x \in DOMAIN maps
    <3>1. SecMap(k, maps[x]) /\ maps'[x] = maps[x] /\ fdt'[maps[x].fd] = fdt[maps[x].fd]
      BY <1>8, <2>1, <2>2, Zenon DEF RelocInv, MapsFor
    <3>2. PICK y : y = maps[x]
      BY Zenon
    <3>3. SecMap(k, y)'
      BY <3>1, <3>2, SameMap, Zenon
    <3> QED
      BY <2>1, <3>1, <3>2, <3>3, Zenon
  <2>3. CASE x = key
    <3>1. BuilderFor(k, b) /\ b.type # "Existing"
      BY <2>1, <2>3
    <3>2. o.of = <<"sec", k>>
      BY <1>5, <2>1, <2>3
    <3>3. SecMap(k, m)'
      BY <1>4, <1>7, <3>1, <3>2, Zenon DEF SecMap, BuilderFor, SecsOf
    <3> QED
      BY <1>8, <2>1, <2>3, <3>3, Zenon
  <2> QED
    BY <1>8, <1>12, <2>1, <2>2, <2>3, Zenon
<1>13. ASSUME NEW v, <<"sym", v>> \in DOMAIN maps' PROVE SymMap(v, maps[<<"sym", v>>])'
  <2>1. PICK x : x = <<"sym", v>>
    BY Zenon
  <2>2. CASE x \in DOMAIN maps
    <3>1. SymMap(v, maps[x]) /\ maps'[x] = maps[x] /\ fdt'[maps[x].fd] = fdt[maps[x].fd]
      BY <1>8, <2>1, <2>2, Zenon DEF RelocInv, MapsFor
    <3>2. PICK y : y = maps[x]
      BY Zenon
    <3>3. SymMap(v, y)'
      BY <3>1, <3>2, SameMap, Zenon
    <3> QED
      BY <2>1, <3>1, <3>2, <3>3, Zenon
  <2>3. CASE x = key
    <3>1. IsSymbol(v, b.name) /\ b.type = "Normal"
      BY <2>1, <2>3
    <3>2. o.of = <<"sym", b.name>>
      BY <1>5, <2>1, <2>3
    <3>3. IsSymbol(v, b.name)'
      BY <3>1, Zenon DEF IsSymbol, SecsOf
    <3>4. m.section = FALSE /\ fdt'[m.fd].of = <<"sym", b.name>>
      BY <1>4, <1>7, <3>1, <3>2, Zenon
    <3>5. SymMap(v, m)'
      BY <3>3, <3>4, Zenon DEF SymMap
    <3> QED
      BY <1>8, <2>1, <2>3, <3>5, Zenon
  <2> QED
    BY <1>8, <1>13, <2>1, <2>2, <2>3, Zenon
<1>14. MapsFor'
  BY <1>12, <1>13, Zenon DEF MapsFor
<1> QED
  BY <1>9, <1>10, <1>11, <1>14, Zenon DEF Parts

\* A map given to replace_map is that of the section it was given for.
LEMMA ExistingParts ==
  ASSUME RelocInv, bpc = "create", NEW k \in DOMAIN builders, builders[k].type = "Existing",
         UNCHANGED <<obj, bpc, sec, rels, next, user, replaced, programs, symval, fdt>>,
         builders' = Without(builders, k),
         NEW m, m.fd = builders[k].fd, m.section = builders[k].section,
         maps' = Put(maps, <<"sec", k>>, m)
  PROVE  Parts'
<1>1. PICK key : key = <<"sec", k>>
  BY Zenon
<1>2. key \notin DOMAIN maps
  BY <1>1, Zenon DEF RelocInv, BuildInv, Phases
<1>3. /\ DOMAIN maps' = DOMAIN maps \cup {key} /\ maps'[key] = m
      /\ \A j \in DOMAIN maps : maps'[j] = maps[j]
      /\ MapFds \subseteq MapFds'
  <2>1. MapFds' = MapFds \cup {m.fd}
    BY <1>1, <1>2, PutMap, Zenon
  <2> QED
    BY <1>1, <1>2, <2>1, PutMap, Zenon
<1>4. SameFiles(MapFds) /\ SameFiles(ExFds) /\ SameFiles(UserFds)
  BY Zenon DEF SameFiles
<1>5. \A j \in DOMAIN builders' : j \in DOMAIN builders /\ builders'[j] = builders[j]
  BY Zenon DEF Without, Restrict
<1>6. Reached' /\ RelsRight' /\ UsersFor'
  BY <1>4, SameRels, SameUsers, Zenon DEF RelocInv, Reached
<1>7. BuildersFor' /\ SymbolsFor'
  BY <1>4, <1>5, SameBuilders, SameSymbols, Zenon DEF RelocInv
<1>8. ProgramsFor'
  BY <1>3, <1>4, SamePrograms, Zenon DEF RelocInv
<1>9. ASSUME NEW j, <<"sec", j>> \in DOMAIN maps' PROVE SecMap(j, maps[<<"sec", j>>])'
  <2>1. PICK x : x = <<"sec", j>>
    BY Zenon
  <2>2. CASE x \in DOMAIN maps
    <3>1. SecMap(j, maps[x]) /\ maps'[x] = maps[x]
      BY <1>3, <2>1, <2>2, Zenon DEF RelocInv, MapsFor
    <3>2. PICK y : y = maps[x]
      BY Zenon
    <3>3. SecMap(j, y)'
      BY <3>1, <3>2, SameMap, Zenon
    <3> QED
      BY <2>1, <3>1, <3>2, <3>3, Zenon
  <2>3. CASE x = key
    <3>1. j = k
      BY <1>1, <2>1, <2>3
    <3>2. BuilderFor(k, builders[k])
      BY Zenon DEF RelocInv, BuildersFor
    <3>3. SecMap(k, m)'
      BY <3>2, Zenon DEF SecMap, BuilderFor, SecsOf
    <3> QED
      BY <1>3, <2>1, <2>3, <3>1, <3>3, Zenon
  <2> QED
    BY <1>3, <1>9, <2>1, <2>2, <2>3, Zenon
<1>10. ASSUME NEW v, <<"sym", v>> \in DOMAIN maps' PROVE SymMap(v, maps[<<"sym", v>>])'
  <2>1. PICK x : x = <<"sym", v>>
    BY Zenon
  <2>2. x \in DOMAIN maps
    BY <1>1, <1>3, <1>10, <2>1, Zenon
  <2>3. SymMap(v, maps[x]) /\ maps'[x] = maps[x]
    BY <1>3, <2>1, <2>2, Zenon DEF RelocInv, MapsFor
  <2>4. PICK y : y = maps[x]
    BY Zenon
  <2>5. SymMap(v, y)'
    BY <2>3, <2>4, SameMap, Zenon
  <2> QED
    BY <2>1, <2>3, <2>4, <2>5, Zenon
<1>11. MapsFor'
  BY <1>9, <1>10, Zenon DEF MapsFor
<1> QED
  BY <1>6, <1>7, <1>8, <1>11, Zenon DEF Parts

\* The map made for a section is the one its builder describes.
LEMMA CreateMapParts ==
  ASSUME RelocInv, NEW k, CreateMap(k)
  PROVE  Parts'
<1>1. /\ bpc = "create" /\ k \in DOMAIN builders
      /\ UNCHANGED <<obj, sec, rels, next, user, replaced>>
  BY Zenon DEF CreateMap
<1>2. CASE Fail
  <2>1. next' \in Nat
    BY <1>1, Zenon DEF RelocInv, Reached
  <2> QED
    BY <1>1, <1>2, <2>1, FailParts, Zenon
<1>3. CASE /\ builders[k].type = "Existing"
           /\ maps' = Put(maps, <<"sec", k>>,
                          [name |-> builders[k].name, fd |-> builders[k].fd, typed |-> FALSE,
                           section |-> builders[k].section])
           /\ builders' = Without(builders, k)
           /\ UNCHANGED <<bpc, programs, symval, btf, fdt>>
  <2>1. PICK m : m = [name |-> builders[k].name, fd |-> builders[k].fd, typed |-> FALSE,
                      section |-> builders[k].section]
    BY Zenon
  <2>2. m.fd = builders[k].fd /\ m.section = builders[k].section
    BY <2>1, Zenon
  <2> QED
    BY Zenon, <1>1, <1>3, <2>1, <2>2, ExistingParts
<1>4. CASE /\ builders[k].type # "Existing"
           /\ NewMap(builders[k], <<"sec", k>>)
           /\ builders' = Without(builders, k)
           /\ UNCHANGED <<bpc, programs, symval, btf>>
  <2>1. PICK key : key = <<"sec", k>>
    BY Zenon
  <2>2. PICK b : b = builders[k]
    BY Zenon
  <2>3. key \notin DOMAIN maps
    BY <1>1, <2>1, Zenon DEF RelocInv, BuildInv, Phases
  <2>4. Fewer
    BY <1>4, Zenon DEF Fewer, Without, Restrict
  <2>5. BuilderFor(k, b) /\ b.type # "Existing" /\ NewMap(b, key)
    BY <1>1, <1>4, <2>1, <2>2, Zenon DEF RelocInv, BuildersFor
  <2> QED
    BY <1>1, <1>4, <2>1, <2>3, <2>4, <2>5, NewMapParts, Zenon
<1> QED
  BY <1>2, <1>3, <1>4, Zenon DEF CreateMap

\* The map made for a symbol is the one its builder describes.
LEMMA CreateSymMapParts ==
  ASSUME RelocInv, NEW v, CreateSymMap(v)
  PROVE  Parts'
<1>1. /\ bpc = "create" /\ v \in DOMAIN symval
      /\ UNCHANGED <<obj, sec, rels, next, user, replaced>>
  BY Zenon DEF CreateSymMap
<1>2. CASE Fail
  <2>1. next' \in Nat
    BY <1>1, Zenon DEF RelocInv, Reached
  <2> QED
    BY <1>1, <1>2, <2>1, FailParts, Zenon
<1>3. CASE /\ NewMap(symval[v], <<"sym", v>>)
           /\ symval' = Without(symval, v)
           /\ UNCHANGED <<bpc, programs, builders, btf>>
  <2>1. PICK key : key = <<"sym", v>>
    BY Zenon
  <2>2. PICK b : b = symval[v]
    BY Zenon
  <2>3. key \notin DOMAIN maps
    BY <1>1, <2>1, Zenon DEF RelocInv, BuildInv, Phases
  <2>4. Fewer
    BY <1>3, Zenon DEF Fewer, Without, Restrict
  <2>5. IsSymbol(v, b.name) /\ b.type = "Normal" /\ NewMap(b, key)
    BY <1>1, <1>3, <2>1, <2>2, Zenon DEF RelocInv, SymbolsFor
  <2> QED
    BY <1>1, <1>3, <2>1, <2>3, <2>4, <2>5, NewMapParts, Zenon
<1> QED
  BY <1>2, <1>3, Zenon DEF CreateSymMap

\* A set of indices that is not empty has a greatest element.
LEMMA MaxInSet ==
  ASSUME NEW n \in Nat, NEW S, S \subseteq 1 .. n, S # {}
  PROVE  Max(S) \in S
<1>1. PICK T : T = {n - x : x \in S}
  BY Zenon
<1>2. T \subseteq Nat /\ T # {}
  <2>1. \A x \in S : n - x \in Nat
    OBVIOUS
  <2> QED
    BY <1>1, <2>1, Zenon
<1>3. PICK y \in T : \A z \in T : ~(<<z, y>> \in OpToRel(<, Nat))
  BY <1>2, WFMin, NatLessThanWellFounded, Zenon
<1>4. \A z \in T : y <= z
  <2>1. SUFFICES ASSUME NEW z \in T, z < y PROVE FALSE
    BY <1>2
  <2>2. <<z, y>> \in OpToRel(<, Nat)
    BY <1>2, <2>1, Zenon DEF OpToRel
  <2> QED
    BY <1>3, <2>2, Zenon
<1>5. PICK x \in S : y = n - x
  BY <1>1, Zenon
<1>6. \A z \in S : x >= z
  <2>1. SUFFICES ASSUME NEW z \in S PROVE x >= z
    BY Zenon
  <2>2. n - z \in T
    BY <1>1, Zenon
  <2> QED
    BY <1>4, <1>5, <2>2
<1> QED
  BY <1>6, Zenon DEF Max

\* Each map of a section maps has the name of a symbol at its value.
LEMMA MapsSectionSymbols ==
  ASSUME obj \in Objects, NEW s, sec \in SecsOf(obj, {"maps"}), NEW v \in DOMAIN MapsSection(s)
  PROVE  MapsSection(s)[v].type = "Normal" /\ IsSymbol(v, MapsSection(s)[v].name)
<1>1. PICK j0 \in SymsOf(sec) : obj.syms[j0].value = v
  BY Zenon DEF MapsSection
<1>2. PICK S : S = {j \in SymsOf(sec) : obj.syms[j].value = v}
  BY Zenon
<1>3. S \subseteq 1 .. Len(obj.syms) /\ Len(obj.syms) \in Nat /\ S # {}
  <2>1. DOMAIN obj.syms = 1 .. Len(obj.syms) /\ Len(obj.syms) \in Nat
    BY ObjectAssumption, Zenon
  <2> QED
    BY <1>1, <1>2, <2>1, Zenon DEF SymsOf
<1>4. PICK j : j = Max(S)
  BY Zenon
<1>5. j \in DOMAIN obj.syms /\ obj.syms[j].sec = sec /\ obj.syms[j].value = v
  BY <1>2, <1>3, <1>4, MaxInSet, Zenon DEF SymsOf
<1>6. MapsSection(s)[v] = Normal(obj.syms[j].name, s.def[obj.syms[j].name], obj.syms[j].name)
  BY <1>2, <1>4, Zenon DEF MapsSection
<1>7. MapsSection(s)[v].type = "Normal" /\ MapsSection(s)[v].name = obj.syms[j].name
  BY <1>6 DEF Normal
<1>8. IsSymbol(v, obj.syms[j].name)
  BY <1>5, Zenon DEF IsSymbol
<1> QED
  BY <1>7, <1>8, Zenon

\* What a sequence and a concatenation of two sequences consist of.
LEMMA SeqParts ==
  ASSUME NEW T, NEW q \in Seq(T)
  PROVE  /\ DOMAIN q = 1 .. Len(q) /\ Len(q) \in Nat
         /\ \A j \in DOMAIN q : q[j] \in T
OBVIOUS

\* A function on 1 .. n is a sequence.
LEMMA FunctionSeq ==
  ASSUME NEW T, NEW n \in Nat, NEW p \in [1 .. n -> T]
  PROVE  p \in Seq(T) /\ Len(p) = n
OBVIOUS

\* The elements of a concatenation.
LEMMA Appended ==
  ASSUME NEW T, NEW r \in Seq(T), NEW p \in Seq(T)
  PROVE  LET c == r \o p
         IN  /\ c \in Seq(T)
             /\ \A n \in DOMAIN r : n \in DOMAIN c /\ c[n] = r[n]
             /\ \A n \in DOMAIN c : n \notin DOMAIN r =>
                  \E a \in DOMAIN p : n = Len(r) + a /\ c[n] = p[a]
<1> DEFINE c == r \o p
<1>1. /\ c \in Seq(T) /\ Len(c) = Len(r) + Len(p)
      /\ DOMAIN r = 1 .. Len(r) /\ DOMAIN p = 1 .. Len(p) /\ DOMAIN c = 1 .. Len(c)
      /\ Len(r) \in Nat /\ Len(p) \in Nat /\ Len(c) \in Nat
  BY SeqParts
<1>2. \A n \in DOMAIN r : n \in DOMAIN c /\ c[n] = r[n]
  BY <1>1
<1>3. ASSUME NEW n \in DOMAIN c, n \notin DOMAIN r
      PROVE  \E a \in DOMAIN p : n = Len(r) + a /\ c[n] = p[a]
  <2>1. PICK a : a = n - Len(r)
    BY Zenon
  <2>2. a \in DOMAIN p /\ n = Len(r) + a
    BY <1>1, <1>3, <2>1
  <2>3. c[n] = p[a]
    BY <1>1, <1>3, <2>1
  <2> QED
    BY <2>2, <2>3, Zenon
<1> QED
  BY <1>1, <1>2, <1>3, Zenon

\* The relocations of a section come after those of the sections before it.
LEMMA MoreRels ==
  ASSUME obj \in Objects, BuildInv, RelsRight, sec \in SecsOf(obj, {"rel"}), obj' = obj, sec' = sec + 1,
         rels' = rels \o [j \in DOMAIN obj.secs[sec].rels |->
                           [target |-> obj.secs[sec].target, rel |-> obj.secs[sec].rels[j]]]
  PROVE  RelsRight'
<1> DEFINE R == [sym : DOMAIN obj.syms, insn : Nat, addend : Int]
<1>1. PICK q : q = obj.secs[sec].rels
  BY Zenon
<1>2. PICK p : p = [j \in DOMAIN q |-> [target |-> obj.secs[sec].target, rel |-> q[j]]]
  BY Zenon
<1>3. q \in Seq(R) /\ sec \in Nat
  BY <1>1, SectionNumbers, ObjectAssumption, Zenon DEF SecsOf
<1>4. /\ DOMAIN q = 1 .. Len(q) /\ Len(q) \in Nat
      /\ \A j \in DOMAIN q : q[j] \in R
  BY <1>3, SeqParts, Zenon
<1>5. \A j \in DOMAIN q : p[j].target = obj.secs[sec].target /\ p[j].rel = q[j] /\ p[j] \in RelInfos
  <2>1. ASSUME NEW j \in DOMAIN q
        PROVE  p[j].target = obj.secs[sec].target /\ p[j].rel = q[j] /\ p[j] \in RelInfos
    <3>1. p[j] = [target |-> obj.secs[sec].target, rel |-> q[j]]
      BY <1>2, Zenon
    <3>2. q[j] \in R
      BY <1>4, Zenon
    <3>3. PICK t : t = obj.secs[sec].target
      BY Zenon
    <3>4. t \in {obj.secs[i].target : i \in SecsOf(obj, {"rel"})}
      BY <3>3, ZenonT(30)
    <3>5. p[j] \in RelInfos
      BY <3>1, <3>2, <3>3, <3>4 DEF RelInfos
    <3> QED
      BY <3>1, <3>5
  <2> QED
    BY <2>1, Zenon
<1>6. p \in Seq(RelInfos) /\ DOMAIN p = DOMAIN q
  <2>1. p \in [1 .. Len(q) -> RelInfos]
    BY <1>2, <1>4, <1>5, Zenon
  <2>2. p \in Seq(RelInfos)
    BY <1>4, <2>1, FunctionSeq, Zenon
  <2> QED
    BY <1>2, <2>2, Zenon
<1>7. rels \in Seq(RelInfos) /\ rels' = rels \o p
  BY <1>1, <1>2, Zenon DEF RelsRight
<1>8. /\ rels' \in Seq(RelInfos)
      /\ \A n \in DOMAIN rels : n \in DOMAIN rels' /\ rels'[n] = rels[n]
      /\ \A n \in DOMAIN rels' : n \notin DOMAIN rels =>
           \E a \in DOMAIN p : n = Len(rels) + a /\ rels'[n] = p[a]
  <2>1. LET c == rels \o p
        IN  /\ c \in Seq(RelInfos)
            /\ \A n \in DOMAIN rels : n \in DOMAIN c /\ c[n] = rels[n]
            /\ \A n \in DOMAIN c : n \notin DOMAIN rels =>
                 \E a \in DOMAIN p : n = Len(rels) + a /\ c[n] = p[a]
    BY <1>6, <1>7, Appended, Zenon
  <2> QED
    BY <1>7, <2>1, Zenon
<1>9. \A n \in DOMAIN rels' :
        \/ n \in DOMAIN rels /\ rels'[n] = rels[n]
        \/ \E a \in DOMAIN q : /\ n = Len(rels) + a /\ rels'[n].target = obj.secs[sec].target
                              /\ rels'[n].rel = q[a]
  <2>1. ASSUME NEW n \in DOMAIN rels', n \notin DOMAIN rels
        PROVE  \E a \in DOMAIN q : /\ n = Len(rels) + a /\ rels'[n].target = obj.secs[sec].target
                                    /\ rels'[n].rel = q[a]
    <3>1. PICK a \in DOMAIN p : n = Len(rels) + a /\ rels'[n] = p[a]
      BY <1>8, <2>1, Zenon
    <3>2. a \in DOMAIN q /\ p[a].target = obj.secs[sec].target /\ p[a].rel = q[a]
      BY <1>5, <1>6, Zenon
    <3> QED
      BY <3>1, <3>2, Zenon
  <2> QED
    BY <1>8, <2>1, Zenon
<1>10. \A n \in DOMAIN rels : \E i \in SecsOf(obj, {"rel"}) : \E a \in DOMAIN obj.secs[i].rels :
         /\ i < sec
         /\ rels[n].target = obj.secs[i].target /\ rels[n].rel = obj.secs[i].rels[a]
  BY Zenon DEF RelsRight
<1>11. ASSUME NEW n \in DOMAIN rels'
       PROVE  \E i \in SecsOf(obj, {"rel"}) : \E a \in DOMAIN obj.secs[i].rels :
                /\ i < sec'
                /\ rels'[n].target = obj.secs[i].target /\ rels'[n].rel = obj.secs[i].rels[a]
  <2>1. CASE n \in DOMAIN rels
    <3>0. rels'[n] = rels[n]
      BY <1>8, <2>1, Zenon
    <3>1. PICK i \in SecsOf(obj, {"rel"}) : \E a \in DOMAIN obj.secs[i].rels :
            /\ i < sec
            /\ rels[n].target = obj.secs[i].target /\ rels[n].rel = obj.secs[i].rels[a]
      BY <1>10, <2>1, ZenonT(30)
    <3>2. i < sec'
      BY <1>3, <3>1, SectionNumbers DEF SecsOf
    <3> QED
      BY <3>0, <3>1, <3>2, Zenon
  <2>2. CASE n \notin DOMAIN rels
    <3>1. sec < sec'
      BY <1>3
    <3>2. PICK a \in DOMAIN q : rels'[n].target = obj.secs[sec].target /\ rels'[n].rel = q[a]
      BY <1>9, <2>2, Zenon
    <3> QED
      BY <1>1, <3>1, <3>2, Zenon
  <2> QED
    BY <2>1, <2>2, Zenon
<1>12. \A i, j \in SecsOf(obj, {"rel"}) : obj.secs[i].target = obj.secs[j].target =>
         \A a \in DOMAIN obj.secs[i].rels, b \in DOMAIN obj.secs[j].rels :
           obj.secs[i].rels[a].insn = obj.secs[j].rels[b].insn => i = j /\ a = b
  BY ObjectAssumption, ZenonT(30)
<1>13. \A m \in DOMAIN rels, a \in DOMAIN q :
         ~(rels[m].target = obj.secs[sec].target /\ rels[m].rel.insn = q[a].insn)
  <2>1. SUFFICES ASSUME NEW m \in DOMAIN rels, NEW a \in DOMAIN q,
                        rels[m].target = obj.secs[sec].target, rels[m].rel.insn = q[a].insn
                 PROVE  FALSE
    BY Zenon
  <2>2. PICK i \in SecsOf(obj, {"rel"}) : \E b \in DOMAIN obj.secs[i].rels :
          /\ i < sec
          /\ rels[m].target = obj.secs[i].target /\ rels[m].rel = obj.secs[i].rels[b]
    BY <1>10, Zenon
  <2>3. PICK b \in DOMAIN obj.secs[i].rels :
          rels[m].target = obj.secs[i].target /\ rels[m].rel = obj.secs[i].rels[b]
    BY <2>2, Zenon
  <2>4. obj.secs[i].rels[b].insn = obj.secs[sec].rels[a].insn /\ obj.secs[i].target = obj.secs[sec].target
    BY <1>1, <2>1, <2>3, Zenon
  <2>5. i = sec
    BY <1>1, <1>12, <2>4, Zenon
  <2> QED
    BY <1>3, <2>2, <2>5
<1>14. ASSUME NEW m \in DOMAIN rels', NEW n \in DOMAIN rels', rels'[m].target = rels'[n].target,
              rels'[m].rel.insn = rels'[n].rel.insn
       PROVE  m = n
  <2>1. CASE m \in DOMAIN rels /\ n \in DOMAIN rels
    BY <1>8, <1>14, <2>1, Zenon DEF RelsRight
  <2>2. CASE m \in DOMAIN rels /\ n \notin DOMAIN rels
    <3>1. PICK a \in DOMAIN q : rels'[n].target = obj.secs[sec].target /\ rels'[n].rel = q[a]
      BY <1>9, <2>2, Zenon
    <3>2. rels'[m] = rels[m]
      BY <1>8, <2>2, Zenon
    <3> QED
      BY <1>13, <1>14, <2>2, <3>1, <3>2, Zenon
  <2>3. CASE m \notin DOMAIN rels /\ n \in DOMAIN rels
    <3>1. PICK a \in DOMAIN q : rels'[m].target = obj.secs[sec].target /\ rels'[m].rel = q[a]
      BY <1>9, <2>3, Zenon
    <3>2. rels'[n] = rels[n]
      BY <1>8, <2>3, Zenon
    <3> QED
      BY <1>13, <1>14, <2>3, <3>1, <3>2, Zenon
  <2>4. CASE m \notin DOMAIN rels /\ n \notin DOMAIN rels
    <3>1. PICK a \in DOMAIN q : m = Len(rels) + a /\ rels'[m].rel = q[a]
      BY <1>9, <2>4, Zenon
    <3>2. PICK b \in DOMAIN q : n = Len(rels) + b /\ rels'[n].rel = q[b]
      BY <1>9, <2>4, Zenon
    <3>3. obj.secs[sec].rels[a].insn = obj.secs[sec].rels[b].insn
      BY <1>1, <1>14, <3>1, <3>2, Zenon
    <3>4. a = b
      BY <1>1, <1>12, <3>3, Zenon
    <3> QED
      BY <3>1, <3>2, <3>4, Zenon
  <2> QED
    BY <2>1, <2>2, <2>3, <2>4, Zenon
<1>15. RelInfos' = RelInfos /\ SecsOf(obj, {"rel"})' = SecsOf(obj, {"rel"})
  BY Zenon DEF RelInfos, SecsOf
<1>16. \A n \in DOMAIN rels' : \E i \in SecsOf(obj, {"rel"})' : \E a \in DOMAIN (obj.secs[i].rels)' :
         /\ i < sec'
         /\ rels'[n].target = (obj.secs[i].target)' /\ rels'[n].rel = (obj.secs[i].rels[a])'
  BY <1>11, <1>15, Zenon
<1>17. \A m, n \in DOMAIN rels' :
         rels'[m].target = rels'[n].target /\ rels'[m].rel.insn = rels'[n].rel.insn => m = n
  BY <1>14, Zenon
<1> QED
  BY <1>8, <1>15, <1>16, <1>17, Zenon DEF RelsRight

\* What a section adds to the tables of the builder.
LEMMA SectionBuilder ==
  ASSUME RelocInv, bpc = "parse", sec \in DOMAIN obj.secs, UNCHANGED <<obj, fdt, replaced>>,
         NEW b, sec \in SecsOf(obj, {"map", "data"}),
         \/ obj.secs[sec].kind = "map" /\ b.type = "Normal" /\ b.def = obj.secs[sec].def
         \/ obj.secs[sec].kind = "data" /\ b.type = "SectionData",
         builders' = Put(builders, sec, b)
  PROVE  BuildersFor'
<1>1. sec \notin DOMAIN replaced
  BY NoKeys, Zenon DEF RelocInv, Reached
<1>2. PICK i : i = sec
  BY Zenon
<1>3. BuilderFor(i, b)
  BY <1>1, <1>2, Zenon DEF BuilderFor
<1>4. SUFFICES ASSUME NEW k \in DOMAIN builders' PROVE BuilderFor(k, builders[k])'
  BY Zenon DEF BuildersFor
<1>5. PICK x : x = builders'[k]
  BY Zenon
<1>6. BuilderFor(k, x)
  <2>1. (k = i /\ x = b) \/ (k \in DOMAIN builders /\ x = builders[k])
    BY <1>2, <1>4, <1>5, Zenon DEF Put
  <2> QED
    BY <1>3, <2>1, Zenon DEF RelocInv, BuildersFor
<1>7. BuilderFor(k, x)'
  BY <1>6, Zenon DEF BuilderFor, SecsOf
<1> QED
  BY <1>5, <1>7, Zenon

\* Each value of the section maps leads to a symbol of that value.
LEMMA SectionSymbols ==
  ASSUME RelocInv, sec \in SecsOf(obj, {"maps"}), obj' = obj,
         symval' = Over(symval, MapsSection(obj.secs[sec]))
  PROVE  SymbolsFor'
<1>1. PICK M : M = MapsSection(obj.secs[sec])
  BY Zenon
<1>2. \A v \in DOMAIN M : M[v].type = "Normal" /\ IsSymbol(v, M[v].name)
  BY <1>1, MapsSectionSymbols, Zenon DEF RelocInv, Reached
<1>3. \A v \in DOMAIN symval' : symval'[v].type = "Normal" /\ IsSymbol(v, symval'[v].name)
  <2>1. \A v \in DOMAIN symval' :
          \/ v \in DOMAIN M /\ symval'[v] = M[v]
          \/ v \in DOMAIN symval /\ symval'[v] = symval[v]
    BY <1>1, Zenon DEF Over
  <2> QED
    BY <1>2, <2>1, Zenon DEF RelocInv, SymbolsFor
<1>4. ASSUME NEW v \in DOMAIN symval' PROVE IsSymbol(v, symval[v].name)'
  <2>1. PICK name : name = symval'[v].name
    BY Zenon
  <2>2. IsSymbol(v, name)
    BY <1>3, <2>1, Zenon
  <2>3. IsSymbol(v, name)'
    BY <2>2, Zenon DEF IsSymbol, SecsOf
  <2> QED
    BY <2>1, <2>3, Zenon
<1> QED
  BY <1>3, <1>4, Zenon DEF SymbolsFor

\* While parsing, no program has been relocated.
LEMMA SectionPrograms ==
  ASSUME RelocInv, bpc = "parse", obj' = obj, next' = next, rels' \in Seq(RelInfos),
         \/ programs' = programs
         \/ /\ sec \in SecsOf(obj, {"prog", "task_iter"})
            /\ programs' = Put(programs, sec, NoEntries)
  PROVE  ProgramsFor'
<1>1. next = 1 /\ DOMAIN rels \subseteq Nat \ {0} /\ DOMAIN rels' \subseteq Nat \ {0}
  <2>1. rels \in Seq(RelInfos)
    BY Zenon DEF RelocInv, RelsRight
  <2> QED
    BY <2>1, SeqParts DEF RelocInv, Reached
<1>2. \A t \in DOMAIN programs : t \in SecsOf(obj, {"prog", "task_iter"}) /\ DOMAIN programs[t] = {}
  <2>1. ASSUME NEW t \in DOMAIN programs, NEW x \in DOMAIN programs[t] PROVE FALSE
    <3>1. PICK j \in DOMAIN rels : j < next
      BY <2>1, Zenon DEF RelocInv, ProgramsFor
    <3> QED
      BY <1>1, <3>1
  <2> QED
    BY <2>1, Zenon DEF RelocInv, ProgramsFor
<1>3. \A t \in DOMAIN programs' : t \in SecsOf(obj, {"prog", "task_iter"}) /\ DOMAIN programs'[t] = {}
  <2>1. CASE programs' = programs
    BY <1>2, <2>1, Zenon
  <2>2. CASE sec \in SecsOf(obj, {"prog", "task_iter"}) /\ programs' = Put(programs, sec, NoEntries)
    <3>1. \A t \in DOMAIN programs' :
            \/ t = sec /\ programs'[t] = NoEntries
            \/ t \in DOMAIN programs /\ programs'[t] = programs[t]
      BY <2>2, Zenon DEF Put
    <3> QED
      BY <1>2, <2>2, <3>1, NoKeys, Zenon
  <2> QED
    BY <2>1, <2>2, Zenon
<1>4. \A i \in DOMAIN rels' : ~(i < next')
  BY <1>1
<1>5. DOMAIN programs' \subseteq SecsOf(obj, {"prog", "task_iter"})'
  BY <1>3, Zenon DEF SecsOf
<1> QED
  BY <1>3, <1>4, <1>5, Zenon DEF ProgramsFor

\* What parse adds for a section is for that section.
LEMMA ParseSectionParts ==
  ASSUME RelocInv, ParseSection
  PROVE  Parts'
<1>1. /\ bpc = "parse" /\ sec \in DOMAIN obj.secs
      /\ UNCHANGED <<obj, next, user, replaced>>
  BY Zenon DEF ParseSection
<1>2. CASE Fail /\ rels' = rels /\ sec' = sec
  BY <1>1, <1>2, FailParts, Zenon DEF RelocInv, Reached
<1>3. CASE ~(Fail /\ rels' = rels /\ sec' = sec)
  <2> DEFINE s == obj.secs[sec]
             name == IF SymsOf(sec) = {} THEN ""
                     ELSE obj.syms[CHOOSE j \in SymsOf(sec) : TRUE].name
             b1 == Normal(s.name, s.def, name)
             b2 == [type |-> "SectionData", name |-> s.name, def |-> s.def]
  <2>1. sec' = sec + 1 /\ UNCHANGED <<bpc, btf, maps, fdt>>
    BY <1>3, Zenon DEF ParseSection
  <2>2. builders' = CASE s.kind = "map" -> Put(builders, sec, b1)
                      [] s.kind = "data" -> Put(builders, sec, b2)
                      [] OTHER -> builders
    BY <1>3, Zenon DEF ParseSection
  <2>3. symval' = IF s.kind = "maps" THEN Over(symval, MapsSection(s)) ELSE symval
    BY <1>3, Zenon DEF ParseSection
  <2>4. rels' = IF s.kind = "rel"
                THEN rels \o [j \in DOMAIN s.rels |-> [target |-> s.target, rel |-> s.rels[j]]]
                ELSE rels
    BY <1>3, Zenon DEF ParseSection
  <2>5. programs' = IF s.kind \in {"prog", "task_iter"} THEN Put(programs, sec, NoEntries) ELSE programs
    BY <1>3, Zenon DEF ParseSection
  <2>6. b1.type = "Normal" /\ b1.def = s.def /\ b2.type = "SectionData"
    BY Zenon DEF Normal
  <2>7. \A K : s.kind \in K => sec \in SecsOf(obj, K)
    BY <1>1, Zenon DEF SecsOf
  <2> HIDE DEF b1, b2
  <2>8. BuildersFor'
    <3>1. CASE s.kind = "map"
      <4>1. builders' = Put(builders, sec, b1) /\ sec \in SecsOf(obj, {"map", "data"})
        BY <2>2, <2>7, <3>1, Zenon
      <4> QED
        BY <1>1, <2>1, <2>6, <3>1, <4>1, SectionBuilder, Zenon
    <3>2. CASE s.kind = "data"
      <4>1. builders' = Put(builders, sec, b2) /\ sec \in SecsOf(obj, {"map", "data"})
        BY <2>2, <2>7, <3>2, Zenon
      <4> QED
        BY <1>1, <2>1, <2>6, <3>2, <4>1, SectionBuilder, Zenon
    <3>3. CASE s.kind # "map" /\ s.kind # "data"
      <4>1. builders' = builders
        BY <2>2, <3>3, Zenon
      <4>2. SameFiles(ExFds)
        BY <2>1, Zenon DEF SameFiles
      <4> QED
        BY <1>1, <4>1, <4>2, SameBuilders, Zenon DEF RelocInv
    <3> QED
      BY <3>1, <3>2, <3>3, Zenon
  <2>9. SymbolsFor'
    <3>1. CASE s.kind = "maps"
      <4>1. sec \in SecsOf(obj, {"maps"}) /\ symval' = Over(symval, MapsSection(s))
        BY <2>3, <2>7, <3>1, Zenon
      <4> QED
        BY <1>1, <4>1, SectionSymbols, Zenon
    <3>2. CASE s.kind # "maps"
      <4>1. symval' = symval
        BY <2>3, <3>2, Zenon
      <4> QED
        BY <1>1, <4>1, SameSymbols, Zenon DEF RelocInv
    <3> QED
      BY <3>1, <3>2, Zenon
  <2>10. RelsRight'
    <3>1. CASE s.kind = "rel"
      <4>1. /\ sec \in SecsOf(obj, {"rel"})
            /\ rels' = rels \o [j \in DOMAIN s.rels |-> [target |-> s.target, rel |-> s.rels[j]]]
        BY <2>4, <2>7, <3>1, Zenon
      <4> QED
        BY <1>1, <2>1, <4>1, MoreRels, Zenon DEF RelocInv, Reached
    <3>2. CASE s.kind # "rel"
      <4>1. rels' = rels
        BY <2>4, <3>2, Zenon
      <4> QED
        BY <1>1, <2>1, <4>1, SameRels, Zenon DEF RelocInv, Reached
    <3> QED
      BY <3>1, <3>2, Zenon
  <2>11. ProgramsFor'
    <3>1. rels' \in Seq(RelInfos)
      <4>1. RelInfos' = RelInfos
        BY <1>1, Zenon DEF RelInfos, SecsOf
      <4> QED
        BY <2>10, <4>1, Zenon DEF RelsRight
    <3>2. \/ programs' = programs
          \/ /\ sec \in SecsOf(obj, {"prog", "task_iter"})
             /\ programs' = Put(programs, sec, NoEntries)
      BY <2>5, <2>7, Zenon
    <3> QED
      BY <1>1, <3>1, <3>2, SectionPrograms, Zenon
  <2>12. SameFiles(UserFds) /\ SameFiles(MapFds)
    BY <2>1, Zenon DEF SameFiles
  <2>13. UsersFor' /\ MapsFor'
    BY <1>1, <2>1, <2>12, SameUsers, SameMaps, Zenon DEF RelocInv
  <2>14. Reached'
    BY <1>1, <2>1, Zenon DEF RelocInv, Reached
  <2> QED
    BY <2>8, <2>9, <2>10, <2>11, <2>13, <2>14, Zenon DEF Parts
<1> QED
  BY <1>2, <1>3, Zenon

-----------------------------------------------------------------------------
\* Every section of a map or of data that was parsed has a builder or a map.
HasMap(k) == k \in DOMAIN builders \/ <<"sec", k>> \in DOMAIN maps

Covered ==
  /\ bpc # "failed" => \A k \in SecsOf(obj, {"map", "data"}) : k < sec => HasMap(k)
  /\ bpc \notin {"parse", "failed"} => sec = Len(obj.secs) + 1

\* Sections stay covered while builders only go to make room for their map.
LEMMA StillCovered ==
  ASSUME Covered, UNCHANGED <<obj, sec>>, bpc # "failed", bpc # "parse" \/ bpc' = "parse",
         DOMAIN builders \subseteq DOMAIN builders' \/ \E k : /\ DOMAIN builders \subseteq DOMAIN builders' \cup {k}
                                                             /\ <<"sec", k>> \in DOMAIN maps',
         DOMAIN maps \subseteq DOMAIN maps'
  PROVE  Covered'
<1>1. \A k : HasMap(k) => HasMap(k)'
  BY Zenon DEF HasMap
<1> QED
  BY <1>1, Zenon DEF Covered, SecsOf

\* A section of a map or of data gets a builder when it is parsed.
LEMMA ParseCovered ==
  ASSUME RelocInv, Covered, ParseBtf \/ ParseSection \/ ParseDone
  PROVE  Covered'
<1>0. obj \in Objects /\ sec \in Nat /\ bpc = "parse" /\ obj' = obj
  BY Zenon DEF RelocInv, Reached, BuildInv, Phases, ParseBtf, ParseSection, ParseDone
<1>1. CASE ParseBtf
  <2>1. sec' = 1 /\ bpc' = "parse"
    BY <1>0, <1>1, Zenon DEF ParseBtf
  <2>2. \A k \in SecsOf(obj, {"map", "data"}) : ~(k < sec')
    BY <1>0, <2>1, SectionNumbers DEF SecsOf
  <2> QED
    BY <1>0, <2>1, <2>2, Zenon DEF Covered, SecsOf
<1>2. CASE ParseSection
  <2>1. CASE Fail
    BY <2>1, Zenon DEF Fail, Covered
  <2>2. CASE ~Fail
    <3>1. sec' = sec + 1 /\ bpc' = "parse" /\ maps' = maps
      BY <1>0, <1>2, <2>2, Zenon DEF ParseSection
    <3>2. DOMAIN builders' = DOMAIN builders \cup (IF obj.secs[sec].kind \in {"map", "data"} THEN {sec} ELSE {})
      <4> DEFINE s == obj.secs[sec]
                 name == IF SymsOf(sec) = {} THEN ""
                         ELSE obj.syms[CHOOSE j \in SymsOf(sec) : TRUE].name
                 b1 == Normal(s.name, s.def, name)
                 b2 == [type |-> "SectionData", name |-> s.name, def |-> s.def]
      <4>1. builders' = CASE s.kind = "map" -> Put(builders, sec, b1)
                          [] s.kind = "data" -> Put(builders, sec, b2)
                          [] OTHER -> builders
        BY <1>2, <2>2, Zenon DEF ParseSection
      <4> HIDE DEF b1, b2
      <4> QED
        BY <4>1, Zenon DEF Put
    <3>3. ASSUME NEW k \in SecsOf(obj, {"map", "data"}), k < sec + 1
          PROVE  k \in DOMAIN builders' \/ <<"sec", k>> \in DOMAIN maps
      <4>1. k \in Nat /\ obj.secs[k].kind \in {"map", "data"}
        BY <1>0, SectionNumbers, Zenon DEF SecsOf
      <4>2. CASE k < sec
        <5>1. k \in DOMAIN builders \/ <<"sec", k>> \in DOMAIN maps
          BY <1>0, <4>2, Zenon DEF Covered, HasMap
        <5> QED
          BY <3>2, <5>1, Zenon
      <4>3. CASE k = sec
        BY <3>2, <4>1, <4>3, Zenon
      <4> QED
        BY SMTT(20), <1>0, <3>3, <4>1, <4>2, <4>3
    <3>4. \A k \in SecsOf(obj, {"map", "data"}) : k < sec' => HasMap(k)'
      BY <3>1, <3>3, Zenon DEF HasMap
    <3> QED
      BY <1>0, <3>1, <3>4, Zenon DEF Covered, SecsOf
  <2> QED
    BY <2>1, <2>2, Zenon
<1>3. CASE ParseDone
  <2>1. UNCHANGED <<sec, builders, maps>> /\ sec = Len(obj.secs) + 1
    BY <1>3, Zenon DEF ParseDone
  <2> QED
    BY <1>0, <2>1, Zenon DEF Covered, HasMap, SecsOf
<1> QED
  BY <1>1, <1>2, <1>3, Zenon

\* Every step keeps sections covered.
LEMMA CoveredStep ==
  ASSUME RelocInv, Covered, [BuildNext]_buildVars
  PROVE  Covered'
<1>1. CASE ParseBtf \/ ParseSection \/ ParseDone
  BY <1>1, ParseCovered, Zenon
<1>2. CASE \E n \in NewMaps : OpenMap(n)
  BY <1>2, StillCovered, Zenon DEF OpenMap
<1>3. ASSUME NEW n, NEW name, ReplaceMap(name, n) PROVE Covered'
  <2>1. DOMAIN builders' = DOMAIN builders /\ UNCHANGED <<obj, sec, bpc, maps>> /\ bpc = "builder"
    BY <1>3, Zenon DEF ReplaceMap
  <2> QED
    BY <2>1, StillCovered, Zenon
<1>4. CASE ToModule \/ CreateDone
  BY <1>4, StillCovered, Zenon DEF ToModule, CreateDone
<1>5. ASSUME NEW k, CreateMap(k) PROVE Covered'
  <2>1. CASE Fail
    BY <2>1, Zenon DEF Fail, Covered
  <2>2. CASE ~Fail
    <3>1. /\ bpc = "create" /\ bpc' = bpc /\ UNCHANGED <<obj, sec>> /\ builders' = Without(builders, k)
          /\ \E m : maps' = Put(maps, <<"sec", k>>, m)
      BY <1>5, <2>2, Zenon DEF CreateMap, NewMap
    <3>2. DOMAIN builders \subseteq DOMAIN builders' \cup {k}
      BY <3>1, Zenon DEF Without, Restrict
    <3>3. PICK key : key = <<"sec", k>>
      BY Zenon
    <3>4. DOMAIN maps' = DOMAIN maps \cup {key}
      BY <3>1, <3>3, Zenon DEF Put
    <3> QED
      BY <3>1, <3>2, <3>3, <3>4, StillCovered, Zenon
  <2> QED
    BY <2>1, <2>2, Zenon
<1>6. ASSUME NEW v, CreateSymMap(v) PROVE Covered'
  <2>1. CASE Fail
    BY <2>1, Zenon DEF Fail, Covered
  <2>2. CASE ~Fail
    <3>1. /\ bpc = "create" /\ bpc' = bpc /\ UNCHANGED <<obj, sec, builders>>
          /\ \E m : maps' = Put(maps, <<"sym", v>>, m)
      BY <1>6, <2>2, Zenon DEF CreateSymMap, NewMap
    <3>2. DOMAIN maps \subseteq DOMAIN maps'
      BY <3>1, Zenon DEF Put
    <3> QED
      BY <3>1, <3>2, StillCovered, Zenon
  <2> QED
    BY <2>1, <2>2, Zenon
<1>7. CASE Relocate
  <2>1. CASE Fail
    BY <2>1, Zenon DEF Fail, Covered
  <2>2. CASE ~Fail
    <3>1. bpc = "reloc" /\ bpc' = bpc /\ UNCHANGED <<obj, sec, builders, maps>>
      BY <1>7, <2>2, Zenon DEF Relocate
    <3> QED
      BY <3>1, StillCovered, Zenon
  <2> QED
    BY <2>1, <2>2, Zenon
<1>8. CASE RelocateDone
  BY <1>8, StillCovered, Zenon DEF RelocateDone
<1>9. CASE UNCHANGED buildVars
  BY <1>9, Zenon DEF buildVars, Covered, HasMap, SecsOf
<1> QED
  BY <1>1, <1>2, <1>3, <1>4, <1>5, <1>6, <1>7, <1>8, <1>9, Zenon DEF BuildNext

\* One relocation patches one instruction, which no other one patches.
LEMMA RelocateWith ==
  ASSUME RelocInv, bpc = "reloc", next \in DOMAIN rels, rels[next].target \in DOMAIN programs,
         UNCHANGED <<obj, bpc, sec, builders, symval, rels, btf, maps, fdt, user, replaced>>,
         next' = next + 1, NEW c, Patched(rels[next].rel, c),
         programs' = [programs EXCEPT ![rels[next].target] =
                        Put(programs[rels[next].target], rels[next].rel.insn, c)]
  PROVE  Parts'
<1>1. PICK t, x : t = rels[next].target /\ x = rels[next].rel.insn
  BY Zenon
<1>2. /\ DOMAIN programs' = DOMAIN programs
      /\ DOMAIN programs'[t] = DOMAIN programs[t] \cup {x} /\ programs'[t][x] = c
      /\ \A y \in DOMAIN programs[t] : y # x => programs'[t][y] = programs[t][y]
      /\ \A u \in DOMAIN programs : u # t => programs'[u] = programs[u]
  BY <1>1, Zenon DEF Put
<1>3. next \in Nat /\ DOMAIN rels \subseteq Nat
  <2>1. rels \in Seq(RelInfos)
    BY Zenon DEF RelocInv, RelsRight
  <2> QED
    BY <2>1, SeqParts DEF RelocInv, Reached
<1>4. MapFds' = MapFds /\ SameFiles(MapFds \cup ExFds \cup UserFds) /\ SameFiles(MapFds)
  BY Zenon DEF MapFds, SameFiles
<1>5. \A u \in DOMAIN programs' : \A y \in DOMAIN programs'[u] :
        \E j \in DOMAIN rels' : j < next' /\ rels'[j].target = u /\ rels'[j].rel.insn = y
  <2>1. SUFFICES ASSUME NEW u \in DOMAIN programs', NEW y \in DOMAIN programs'[u]
                 PROVE  \E j \in DOMAIN rels : j < next + 1 /\ rels[j].target = u /\ rels[j].rel.insn = y
    OBVIOUS
  <2>2. CASE u = t /\ y = x
    BY <1>1, <1>3, <2>2
  <2>3. CASE ~(u = t /\ y = x)
    <3>1. u \in DOMAIN programs /\ y \in DOMAIN programs[u]
      BY <1>2, <2>1, <2>3, Zenon
    <3>2. PICK j \in DOMAIN rels : j < next /\ rels[j].target = u /\ rels[j].rel.insn = y
      BY <3>1, Zenon DEF RelocInv, ProgramsFor
    <3>3. j < next + 1
      BY <1>3, <3>2
    <3> QED
      BY <3>2, <3>3, Zenon
  <2> QED
    BY <2>2, <2>3, Zenon
<1>6. ASSUME NEW i \in DOMAIN rels', i < next', rels'[i].target \in DOMAIN programs'
      PROVE  /\ rels'[i].rel.insn \in DOMAIN programs'[rels'[i].target]
             /\ Patched(rels[i].rel, programs[rels[i].target][rels[i].rel.insn])'
  <2>1. PICK u, y, r : u = rels[i].target /\ y = rels[i].rel.insn /\ r = rels[i].rel
    BY Zenon
  <2>2. PICK d : d = programs'[u][y]
    BY Zenon
  <2>3. y \in DOMAIN programs'[u] /\ Patched(r, d)
    <3>1. CASE i = next
      BY <1>1, <1>2, <2>1, <2>2, <3>1, Zenon
    <3>2. CASE i # next
      <4>1. i < next /\ i \in DOMAIN rels /\ u \in DOMAIN programs
        BY SMTT(20), <1>2, <1>3, <1>6, <2>1, <3>2
      <4>2. y \in DOMAIN programs[u] /\ Patched(r, programs[u][y])
        BY <2>1, <4>1, Zenon DEF RelocInv, ProgramsFor
      <4>3. ~(u = t /\ y = x)
        BY <1>1, <2>1, <3>2, <4>1, Zenon DEF RelocInv, RelsRight
      <4>4. y \in DOMAIN programs'[u] /\ programs'[u][y] = programs[u][y]
        BY <1>2, <4>1, <4>2, <4>3, Zenon
      <4> QED
        BY <2>2, <4>2, <4>4, Zenon
    <3> QED
      BY <3>1, <3>2, Zenon
  <2>4. Patched(r, d)'
    BY <1>4, <2>3, SamePatched, Zenon
  <2> QED
    BY <2>1, <2>2, <2>3, <2>4, Zenon
<1>7. DOMAIN programs' \subseteq SecsOf(obj, {"prog", "task_iter"})'
  BY <1>2, Zenon DEF RelocInv, ProgramsFor, SecsOf
<1>8. ProgramsFor'
  BY <1>5, <1>6, <1>7, Zenon DEF ProgramsFor
<1>9. Reached' /\ SameFiles(ExFds) /\ SameFiles(UserFds)
  BY <1>3 DEF RelocInv, Reached, SameFiles
<1>10. RelsRight' /\ UsersFor' /\ BuildersFor'
  BY <1>9, SameRels, SameUsers, SameBuilders, Zenon DEF RelocInv, Reached
<1>11. SymbolsFor' /\ MapsFor'
  BY <1>4, SameSymbols, SameMaps, Zenon DEF RelocInv
<1> QED
  BY <1>8, <1>9, <1>10, <1>11, Zenon DEF Parts

\* A symbol for which to_module has no map is in no section of a map or of data.
LEMMA SymbolSection ==
  ASSUME RelocInv, Covered, bpc = "reloc", NEW k, <<"sec", k>> \notin DOMAIN maps
  PROVE  k \notin SecsOf(obj, {"map", "data"})
<1>1. obj \in Objects
  BY Zenon DEF RelocInv, Reached
<1>2. SUFFICES ASSUME k \in SecsOf(obj, {"map", "data"}) PROVE FALSE
  BY Zenon
<1>3. k < sec
  BY <1>1, <1>2, SectionNumbers, Zenon DEF Covered, SecsOf
<1>4. HasMap(k)
  BY <1>2, <1>3, Zenon DEF Covered
<1> QED
  BY <1>4, NoKeys, Zenon DEF HasMap, RelocInv, BuildInv, Phases

\* The descriptor that is patched in is that of the map the symbol denotes.
LEMMA RelocateParts ==
  ASSUME RelocInv, Covered, Relocate
  PROVE  Parts'
<1>1. /\ bpc = "reloc" /\ next \in DOMAIN rels /\ next' = next + 1
      /\ UNCHANGED <<obj, sec, rels, user, replaced>>
  BY Zenon DEF Relocate
<1>2. PICK r, s : r = rels[next] /\ s = obj.syms[r.rel.sym]
  BY Zenon
<1>3. CASE Fail
  <2>1. next' \in Nat
    BY <1>1 DEF RelocInv, Reached
  <2> QED
    BY <1>1, <1>3, <2>1, FailParts, Zenon
<1>4. CASE /\ r.target \notin DOMAIN programs
           /\ UNCHANGED <<bpc, programs, builders, symval, btf, maps, fdt>>
  <2>1. rels \in Seq(RelInfos) /\ next \in Nat
    BY Zenon DEF RelocInv, RelsRight, Reached
  <2>2. DOMAIN rels \subseteq Nat
    BY <2>1, SeqParts
  <2>3. SameFiles(MapFds) /\ SameFiles(ExFds) /\ SameFiles(UserFds) /\ MapFds' = MapFds
    BY <1>4, Zenon DEF SameFiles, MapFds
  <2>4. Reached' /\ RelsRight' /\ UsersFor' /\ BuildersFor'
    BY SMTT(20), <1>1, <1>4, <2>1, <2>3, SameRels, SameUsers, SameBuilders DEF RelocInv, Reached
  <2>5. SymbolsFor' /\ MapsFor'
    BY <1>1, <1>4, <2>3, SameSymbols, SameMaps, Zenon DEF RelocInv
  <2>6. ProgramsFor'
    <3>1. DOMAIN programs' \subseteq SecsOf(obj, {"prog", "task_iter"})'
      BY <1>1, <1>4, Zenon DEF RelocInv, ProgramsFor, SecsOf
    <3>2. \A t \in DOMAIN programs' : \A x \in DOMAIN programs'[t] :
            \E j \in DOMAIN rels' : j < next' /\ rels'[j].target = t /\ rels'[j].rel.insn = x
      <4>1. SUFFICES ASSUME NEW t \in DOMAIN programs, NEW x \in DOMAIN programs[t]
                     PROVE  \E j \in DOMAIN rels : j < next + 1 /\ rels[j].target = t /\ rels[j].rel.insn = x
        BY <1>1, <1>4
      <4>2. PICK j \in DOMAIN rels : j < next /\ rels[j].target = t /\ rels[j].rel.insn = x
        BY ZenonT(30) DEF RelocInv, ProgramsFor
      <4>3. j < next + 1
        BY <2>1, <2>2, <4>2
      <4> QED
        BY <4>2, <4>3, Zenon
    <3>3. ASSUME NEW i \in DOMAIN rels', i < next', rels'[i].target \in DOMAIN programs'
          PROVE  /\ rels'[i].rel.insn \in DOMAIN programs'[rels'[i].target]
                 /\ Patched(rels[i].rel, programs[rels[i].target][rels[i].rel.insn])'
      <4>1. i < next /\ i \in DOMAIN rels
        BY SMTT(20), <1>1, <1>2, <1>4, <2>1, <2>2, <3>3
      <4>2. PICK q, c : q = rels[i].rel /\ c = programs[rels[i].target][rels[i].rel.insn]
        BY Zenon
      <4>3. rels[i].rel.insn \in DOMAIN programs[rels[i].target] /\ Patched(q, c)
        BY <1>1, <1>4, <3>3, <4>1, <4>2, Zenon DEF RelocInv, ProgramsFor
      <4>4. Patched(q, c)'
        BY <1>1, <2>3, <4>3, SamePatched, Zenon
      <4> QED
        BY <1>1, <1>4, <4>2, <4>3, <4>4, Zenon
    <3> QED
      BY <3>1, <3>2, <3>3, Zenon DEF ProgramsFor
  <2> QED
    BY <2>4, <2>5, <2>6, Zenon DEF Parts
<1>5. CASE /\ r.target \in DOMAIN programs /\ <<"sec", s.sec>> \in DOMAIN maps
           /\ Apply(r, maps[<<"sec", s.sec>>], s.value)
           /\ UNCHANGED <<bpc, builders, symval, btf, maps, fdt>>
  <2>1. PICK m : m = maps[<<"sec", s.sec>>]
    BY Zenon
  <2>2. SecMap(s.sec, m) /\ m.fd \in MapFds
    BY <1>5, <2>1, Zenon DEF RelocInv, MapsFor, MapFds
  <2>3. r.rel.insn \notin DOMAIN programs[r.target]
    <3>1. SUFFICES ASSUME r.rel.insn \in DOMAIN programs[r.target] PROVE FALSE
      BY Zenon
    <3>2. PICK j \in DOMAIN rels : j < next /\ rels[j].target = r.target /\ rels[j].rel.insn = r.rel.insn
      BY <1>5, <3>1, ZenonT(30) DEF RelocInv, ProgramsFor
    <3>3. j = next
      BY <1>1, <1>2, <3>2, Zenon DEF RelocInv, RelsRight
    <3> QED
      BY <3>2, <3>3 DEF RelocInv, Reached
  <2>4. PICK c : c = [src |-> IF m.section THEN "value" ELSE "fd", fd |-> m.fd,
                      off |-> IF m.section THEN r.rel.addend + s.value ELSE 0]
    BY Zenon
  <2>5. programs' = [programs EXCEPT ![r.target] = Put(programs[r.target], r.rel.insn, c)]
    BY <1>5, <2>1, <2>3, <2>4, Zenon DEF Apply
  <2>6. Patched(r.rel, c)
    <3>1. obj.secs[s.sec].kind \in {"map", "data"} /\ m.section = (obj.secs[s.sec].kind = "data")
      BY <2>2, Zenon DEF SecMap, SecsOf
    <3>2. c.fd = m.fd /\ (c.src = "value" => c.off = r.rel.addend + s.value)
          /\ (c.src = "value" <=> s.sec \in SecsOf(obj, {"data"}))
      BY <2>2, <2>4, <3>1, Zenon DEF SecMap, SecsOf
    <3>3. Denotes(fdt[m.fd], s)
      BY <2>2, Zenon DEF SecMap, Denotes
    <3> QED
      BY <1>2, <2>2, <3>2, <3>3, Zenon DEF Patched
  <2> QED
    BY <1>1, <1>2, <1>5, <2>5, <2>6, RelocateWith, Zenon
<1>6. CASE /\ r.target \in DOMAIN programs /\ <<"sec", s.sec>> \notin DOMAIN maps
           /\ <<"sym", s.value>> \in DOMAIN maps
           /\ ApplyWithSymmap(r, s.value)
           /\ UNCHANGED <<bpc, builders, symval, btf, maps, fdt>>
  <2>1. PICK m : m = maps[<<"sym", s.value>>]
    BY Zenon
  <2>2. SymMap(s.value, m) /\ m.fd \in MapFds
    BY <1>6, <2>1, Zenon DEF RelocInv, MapsFor, MapFds
  <2>3. PICK name : IsSymbol(s.value, name) /\ fdt[m.fd].of = <<"sym", name>>
    BY <2>2, Zenon DEF SymMap
  <2>4. s.sec \notin SecsOf(obj, {"map", "data"}) /\ s.sec \notin SecsOf(obj, {"data"})
    BY <1>1, <1>6, SymbolSection, Zenon DEF SecsOf
  <2>5. PICK c : c = [src |-> "fd", fd |-> m.fd, off |-> 0]
    BY Zenon
  <2>6. programs' = [programs EXCEPT ![r.target] = Put(programs[r.target], r.rel.insn, c)]
    BY <1>6, <2>1, <2>5, Zenon DEF ApplyWithSymmap
  <2>7. Patched(r.rel, c)
    <3>1. Denotes(fdt[m.fd], s)
      BY <2>3, <2>4, Zenon DEF Denotes, IsSymbol
    <3>2. c.fd = m.fd /\ c.src = "fd"
      BY <2>5, Zenon
    <3> QED
      BY <1>2, <2>2, <2>4, <3>1, <3>2, Zenon DEF Patched
  <2> QED
    BY <1>1, <1>2, <1>6, <2>6, <2>7, RelocateWith, Zenon
<1> QED
  BY <1>2, <1>3, <1>4, <1>5, <1>6, Zenon DEF Relocate

\* Before parse there is nothing to relocate.
LEMMA RelocStart == BuildInit => RelocInv /\ Covered
<1> SUFFICES ASSUME BuildInit PROVE RelocInv /\ Covered
  BY Zenon
<1>1. BuildInv
  BY BuildStart, Zenon
<1>2. /\ obj \in Objects /\ bpc = "parse" /\ sec = 0 /\ next = 1 /\ rels = <<>>
      /\ programs = NoEntries /\ builders = NoEntries /\ symval = NoEntries /\ maps = NoEntries
      /\ user = NoEntries /\ replaced = NoEntries
  BY Zenon DEF BuildInit
<1>3. Reached /\ BuildersFor /\ UsersFor /\ SymbolsFor /\ MapsFor
  BY <1>2, NoKeys, Zenon DEF Reached, BuildersFor, UsersFor, SymbolsFor, MapsFor
<1>4. RelsRight /\ ProgramsFor
  BY <1>2, NoKeys DEF RelsRight, ProgramsFor
<1>5. Covered
  <2>1. \A k \in SecsOf(obj, {"map", "data"}) : ~(k < sec)
    BY <1>2, SectionNumbers DEF SecsOf
  <2> QED
    BY <1>2, <2>1, Zenon DEF Covered
<1> QED
  BY <1>1, <1>3, <1>4, <1>5, Zenon DEF RelocInv

\* In a module that was built, every relocated instruction of a program refers
\* to the map its symbol denotes, also when the map was replaced, and a
\* reference to section data has its offset.
THEOREM RelocationsRight == ASSUME NewMapsFit PROVE BuildSpec => []RelocatedRight
<1>1. ASSUME RelocInv, Covered, [BuildNext]_buildVars PROVE RelocInv'
  <2>1. BuildInv'
    BY <1>1, BuildStep, Zenon DEF RelocInv
  <2>2. Parts'
    <3>1. CASE UNCHANGED buildVars
      <4>1. SameFiles(MapFds \cup ExFds \cup UserFds) /\ Reached'
        BY <1>1, <3>1, Zenon DEF SameFiles, Reached, RelocInv, buildVars
      <4> QED
        BY <1>1, <3>1, <4>1, StillParts, Zenon DEF buildVars
    <3> QED
      BY ZenonT(30), <1>1, <3>1, NewMapsFit, ParseBtfParts, ParseSectionParts, PhaseParts, OpenMapParts,
         ReplaceParts, CreateMapParts, CreateSymMapParts, RelocateParts, RelocateDoneParts, Zenon
         DEF BuildNext
  <2> QED
    BY <2>1, <2>2, Zenon DEF RelocInv, Parts
<1>2. RelocInv => RelocatedRight
  <2>1. SUFFICES ASSUME RelocInv, bpc = "built", NEW i \in DOMAIN rels,
                        rels[i].target \in DOMAIN programs
                 PROVE  LET r == rels[i].rel
                            s == obj.syms[r.sym]
                            c == programs[rels[i].target][r.insn]
                        IN  /\ fdt[c.fd].type = "map" /\ Denotes(fdt[c.fd], s)
                            /\ c.src = "value" => c.off = r.addend + s.value
                            /\ c.src = "value" <=> s.sec \in SecsOf(obj, {"data"})
    BY Zenon DEF RelocatedRight
  <2>2. i < next
    <3>1. rels \in Seq(RelInfos) /\ next = Len(rels) + 1
      BY <2>1, Zenon DEF RelocInv, RelsRight, Reached
    <3> QED
      BY <2>1, <3>1, SeqParts
  <2>3. Patched(rels[i].rel, programs[rels[i].target][rels[i].rel.insn])
    BY <2>1, <2>2, Zenon DEF RelocInv, ProgramsFor
  <2>4. \A f \in MapFds : fdt[f].type = "map"
    BY <2>1, Zenon DEF RelocInv, BuildInv, FilesRight
  <2> QED
    BY <2>3, <2>4, Zenon DEF Patched
<1> QED
  BY <1>1, <1>2, RelocStart, CoveredStep, PTL DEF BuildSpec

-----------------------------------------------------------------------------
(* ProgramLoad                                                             *)

\* What may make load() fail.
Reason ==
  \/ ~env.accepted
  \/ ~env.bpf
  \/ env.memlock /\ ~env.fits /\ ~env.resource
  \/ hiccup

\* Once the kernel refuses a program there is a reason, or the low limit, which
\* is raised; the attempts that only fetch the log start with a reason.
LoadInv ==
  /\ env \in Env /\ hiccup \in BOOLEAN /\ fd \in BOOLEAN
  /\ opened = IF fd THEN 1 ELSE 0
  /\ fd => lpc = "done"
  /\ lpc = "setrlimit" => ~env.bpf \/ (env.memlock /\ ~env.fits)
  /\ lpc = "retry" => limit = "infinity"
  /\ lpc = "log" => Reason
  /\ result = "BPF" => ~fd /\ Reason
  /\ result # "none" => lpc = "done"

\* A call that has just begun satisfies the invariant.
LEMMA LoadStart == LoadInit => LoadInv
  BY Zenon DEF LoadInit, LoadInv

\* An answer to an attempt without a log buffer.
LEMMA AnswerReason ==
  ASSUME LoadInv, NEW a \in Answers(0), a # "fd"
  PROVE  \/ a = "EAGAIN"
         \/ a = "EACCES" /\ ~env.accepted
         \/ a = "EPERM" /\ (~env.bpf \/ (env.memlock /\ ~env.fits /\ limit = "low"))
<1>1. ~(0 > MaxLog) /\ ~(0 > 0)
  BY LoadAssumption
<1> QED
  BY <1>1, Zenon DEF Answers

\* An attempt that succeeds leaves one descriptor.
LEMMA SuccessStep ==
  ASSUME LoadInv, ~fd, Success, env' = env
  PROVE  LoadInv'
  BY DEF LoadInv, Success, Env

\* Every step keeps the invariant.
LEMMA LoadStepInv == LoadInv /\ [LoadNext]_loadVars => LoadInv'
<1> SUFFICES ASSUME LoadInv, [LoadNext]_loadVars
             PROVE  LoadInv'
  BY Zenon
<1>1. CASE FirstAttempt
  <2>1. lpc = "first" /\ ~fd /\ env' = env /\ limit' = limit /\ result = "none"
    BY <1>1, Zenon DEF FirstAttempt, LoadInv
  <2>2. PICK a \in Answers(0) :
          \/ a = "fd" /\ Success
          \/ /\ a # "fd"
             /\ hiccup' = (hiccup \/ a = "EAGAIN")
             /\ lpc' = IF a = "EPERM" THEN "setrlimit" ELSE "log"
             /\ UNCHANGED <<vecLen, fd, opened, result>>
    BY <1>1, Zenon DEF FirstAttempt
  <2>3. CASE a = "fd" /\ Success
    BY <2>1, <2>3, SuccessStep, Zenon
  <2>4. CASE a # "fd"
    <3>1. /\ hiccup' = (hiccup \/ a = "EAGAIN")
          /\ lpc' = IF a = "EPERM" THEN "setrlimit" ELSE "log"
          /\ UNCHANGED <<fd, opened, result>>
      BY <2>2, <2>4, Zenon
    <3>2. \/ a = "EAGAIN"
          \/ a = "EACCES" /\ ~env.accepted
          \/ a = "EPERM" /\ (~env.bpf \/ (env.memlock /\ ~env.fits))
      BY <2>4, AnswerReason, Zenon
    <3> QED
      BY Zenon, <2>1, <3>1, <3>2 DEF LoadInv, Reason
  <2> QED
    BY <2>2, <2>3, <2>4, Zenon
<1>2. CASE RaiseLimit
  BY <1>2, Zenon DEF RaiseLimit, LoadInv, Reason
<1>3. CASE Retry
  <2>1. lpc = "retry" /\ ~fd /\ env' = env /\ limit' = limit /\ result = "none" /\ limit = "infinity"
    BY <1>3, Zenon DEF Retry, LoadInv
  <2>2. PICK a \in Answers(0) :
          \/ a = "fd" /\ Success
          \/ /\ a # "fd"
             /\ hiccup' = (hiccup \/ a = "EAGAIN")
             /\ lpc' = "log"
             /\ UNCHANGED <<vecLen, fd, opened, result>>
    BY <1>3, Zenon DEF Retry
  <2>3. CASE a = "fd" /\ Success
    BY <2>1, <2>3, SuccessStep, Zenon
  <2>4. CASE a # "fd"
    <3>1. /\ hiccup' = (hiccup \/ a = "EAGAIN") /\ lpc' = "log"
          /\ UNCHANGED <<fd, opened, result>>
      BY <2>2, <2>4, Zenon
    <3>2. a = "EAGAIN" \/ ~env.accepted \/ ~env.bpf
      BY <2>1, <2>4, AnswerReason, Zenon
    <3> QED
      BY Zenon, <2>1, <3>1, <3>2 DEF LoadInv, Reason
  <2> QED
    BY <2>2, <2>3, <2>4, Zenon
<1>4. CASE LogAttempt
  <2>1. lpc = "log" /\ ~fd /\ env' = env /\ limit' = limit /\ result = "none" /\ Reason
    BY <1>4, Zenon DEF LogAttempt, LoadInv
  <2>2. PICK a \in Answers(vecLen) :
          \/ a = "fd" /\ Success
          \/ /\ hiccup' = (hiccup \/ a = "EAGAIN")
             /\ UNCHANGED <<lpc, fd, opened, result>>
          \/ /\ hiccup' = (hiccup \/ a = "EAGAIN")
             /\ result' = "BPF" /\ lpc' = "done"
             /\ UNCHANGED <<vecLen, fd, opened>>
    BY <1>4, Zenon DEF LogAttempt
  <2>3. CASE a = "fd" /\ Success
    BY <2>1, <2>3, SuccessStep, Zenon
  <2>4. CASE hiccup' = (hiccup \/ a = "EAGAIN") /\ UNCHANGED <<lpc, fd, opened, result>>
    BY <2>1, <2>4, Zenon DEF LoadInv, Reason
  <2>5. CASE /\ hiccup' = (hiccup \/ a = "EAGAIN")
             /\ result' = "BPF" /\ lpc' = "done"
             /\ UNCHANGED <<vecLen, fd, opened>>
    BY <2>1, <2>5, Zenon DEF LoadInv, Reason
  <2> QED
    BY <2>2, <2>3, <2>4, <2>5, Zenon
<1>5. CASE LoadAgain
  BY Zenon, <1>5 DEF LoadAgain, LoadInv, Reason
<1>6. CASE UNCHANGED loadVars
  BY <1>6, Zenon DEF loadVars, LoadInv, Reason
<1> QED
  BY <1>1, <1>2, <1>3, <1>4, <1>5, <1>6, ZenonT(30) DEF LoadNext, Call

\* Whatever the program, the privileges, the size of the log and the transient
\* failures: load() keeps the one descriptor it was given, and it fails only
\* for a reason.
THEOREM LoadFailsForReason == LoadSpec => []LoadOutcome
<1>1. LoadInv => LoadOutcome
  BY Zenon DEF LoadInv, LoadOutcome, Reason
<1> QED
  BY <1>1, LoadStart, LoadStepInv, PTL DEF LoadSpec

=============================================================================
