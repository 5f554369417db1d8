---------------------------- MODULE CargoProofs ----------------------------
(***************************************************************************)
(* Proofs about `cargo bpf add' and `cargo bpf build', for packages of any *)
(* number of programs with any names, any bitcode that rustc may make of   *)
(* them, and any number of edits, commands, failures and kills.            *)
(*                                                                         *)
(* AddInv says how lib.rs and the sources follow the targets of Cargo.toml *)
(* while a program is added, and what is left of them when a write is cut  *)
(* off; BuildInv what a build has done so far: the programs in front of    *)
(* those that are left have an ELF file of this build, the one that is     *)
(* compiled has none if the old directory was removed, and the scan of its *)
(* bitcode has found the references of the instructions it has read.       *)
(*                                                                         *)
(* The last part is about Loader, which hands on the events of what was    *)
(* built and loaded, for any buffers and any number of events.             *)
(***************************************************************************)
EXTENDS CargoBuild, Loader, SequenceTheorems, TLAPS

NewPcs   == {"create", "write", "lib.rs"}
Early    == {"toml", "lib", "mod", "mod.rs"}
AddPcs   == Early \cup {"main", "main.rs"}
BuildPcs == {"next", "llvm", "rustc", "compile", "scan", "emit", "tc", "strip", "rename"}

Bitcode == [ver : Nat, code : Bitcodes]
Elf     == [ver : Nat, code : Bitcodes, whole : BOOLEAN, tc : {"no", "fixed", "unread"}]

Methods == {MapMethod(inst) : inst \in Insts} \cup {""}
MapsOf  == {LookupMap(inst) : inst \in Insts}
Scans   == [func : Nat, at : Nat, method : Methods, maps : SUBSET MapsOf]

AddCmd == [pc : AddPcs, prog : Programs, new : Seq(Programs)]

BuildCmd == [pc : BuildPcs, left : Seq(Programs), all : Seq(Programs), since : Nat,
             cleared : BOOLEAN, bc : {NoFile} \cup Bitcode, scan : Scans,
             tmp : {NoFile} \cup Elf]

CmdOK ==
  \/ cmd = Idle
  \/ cmd \in [pc : NewPcs]
  \/ cmd \in AddCmd
  \/ cmd \in BuildCmd

-----------------------------------------------------------------------------
(* cargo bpf add                                                           *)

Files == {"none", "part", "whole"}
Mods  == {IdentOf[p] : p \in Programs} \cup {Garbled}

\* The targets of Cargo.toml, or those that are being written to it
Targets == IF cmd.pc = "toml" THEN cmd.new ELSE manifest

\* As long as no command has stopped, lib.rs has the modules of the targets in
\* the same order, and only the program that is being added has no mod.rs.
InStep ==
  /\ Len(libmods) = IF cmd.pc \in {"toml", "lib"} THEN Len(Targets) - 1 ELSE Len(Targets)
  /\ \A i \in 1 .. Len(libmods) : libmods[i] = IdentOf[Targets[i]]
  /\ \A i \in 1 .. Len(Targets) :
       modrs[Targets[i]] = "whole" \/ (cmd.pc \in Early /\ i = Len(Targets))
  /\ cmd.pc \in AddPcs => Targets # <<>> /\ cmd.prog = Targets[Len(Targets)]

HasFile(p) == modrs[p] # "none" \/ mainrs[p] # "none"

AddInv ==
  /\ manifest \in Seq(Programs) /\ IsInjective(manifest)
  /\ Targets \in Seq(Programs) /\ IsInjective(Targets)
  /\ libmods \in Seq(Mods)
  /\ modrs \in [Programs -> Files] /\ mainrs \in [Programs -> Files]
  /\ cmd.pc \in AddPcs => cmd.prog \in Range(Targets)
  /\ cmd.pc \in AddPcs \ {"toml", "lib"} => IdentOf[cmd.prog] \in Range(libmods)
  /\ \A p \in Programs : HasFile(p) =>
       IdentOf[p] \in Range(libmods) /\ p \in Range(Targets) \cup lost
  /\ stopped \in Nat
  /\ stopped = 0 => InStep

-----------------------------------------------------------------------------
(* cargo bpf build                                                         *)

TcRight(elf) == elf.code.tc => elf.tc \in {"fixed", "unread"}

Checked(elf) == elf.whole = TRUE /\ ~RefToMisaligned(elf.code)

\* Behind i there is no record of a map method and no lookup up to n.
Quiet(func, i, n) ==
  \A k \in DOMAIN func : i < k /\ k <= n => MapMethod(func[k]) = "" /\ LookupMap(func[k]) = ""

\* After n instructions the method is that of the last record, unless there was
\* a lookup since.
Pending(func, n, method) ==
  /\ method # "" => \E i \in 1 .. n : MapMethod(func[i]) = method /\ Quiet(func, i, n)
  /\ \A i \in 1 .. n : MapMethod(func[i]) # "" /\ Quiet(func, i, n) => method = MapMethod(func[i])

\* A function refers to a value of the map, in its first n instructions.
Refers(func, n, map) ==
  \E i, j \in DOMAIN func : j <= n /\ GetThenLookup(func, i, j) /\ LookupMap(func[j]) = map

\* The maps that are found are those of the instructions that were read.
Scanned(funcs, scan) ==
  /\ scan.func \in 1 .. Len(funcs) + 1
  /\ scan.func <= Len(funcs) =>
       scan.at \in 0 .. Len(funcs[scan.func]) /\ Pending(funcs[scan.func], scan.at, scan.method)
  /\ \A m : m \in scan.maps <=>
       \/ \E f \in DOMAIN funcs : f < scan.func /\ Refers(funcs[f], Len(funcs[f]), m)
       \/ scan.func <= Len(funcs) /\ Refers(funcs[scan.func], scan.at, m)

Results ==
  [res : {"none", "Refused"}]
  \cup [res : {"Ok"}, probes : Seq(Programs), since : Nat]
  \cup [res : {"Err"}, at : Programs, cleared : BOOLEAN]

\* The programs that are left are the last ones of all, and the others have
\* an ELF file of this build.
Progress ==
  /\ IsInjective(cmd.all) /\ Len(cmd.left) <= Len(cmd.all)
  /\ \A i \in 1 .. Len(cmd.left) : cmd.left[i] = cmd.all[Len(cmd.all) - Len(cmd.left) + i]
  /\ \A i \in 1 .. Len(cmd.all) - Len(cmd.left) : elfs[cmd.all[i]].ver >= cmd.since

\* The program that is compiled
Current ==
  /\ cmd.left # <<>>
  /\ cmd.cleared = TRUE => elfs[cmd.left[1]] = NoFile
  /\ cmd.pc \in {"compile", "scan", "emit"} => cmd.bc \in Bitcode /\ cmd.bc.ver >= cmd.since
  /\ cmd.pc = "scan" => Scanned(cmd.bc.code.funcs, cmd.scan)
  /\ cmd.pc = "emit" => (MisalignedGet(cmd.scan.maps) <=> RefToMisaligned(cmd.bc.code))
  /\ cmd.pc \in {"tc", "strip", "rename"} =>
       cmd.tmp \in Elf /\ cmd.tmp.ver >= cmd.since /\ Checked(cmd.tmp)
  /\ cmd.pc \in {"strip", "rename"} => TcRight(cmd.tmp)

BuildInv ==
  /\ version \in Nat
  /\ elfs \in [Programs -> {NoFile} \cup Elf]
  /\ \A p \in Programs : elfs[p] # NoFile => Checked(elfs[p]) /\ TcRight(elfs[p])
  /\ result \in Results
  /\ cmd.pc \in BuildPcs => /\ result.res = "none" /\ cmd.since <= version
                            /\ Progress
                            /\ cmd.pc # "next" => Current
  /\ BuildResultTrue

CargoInv == CmdOK /\ AddInv /\ BuildInv

-----------------------------------------------------------------------------
\* The places of a command that is not running.
LEMMA IdlePc == Idle.pc = "idle"
  BY Zenon DEF Idle

\* The program counter tells the kinds of commands apart.
LEMMA CmdKind ==
  ASSUME CmdOK
  PROVE  /\ cmd.pc \in AddPcs => cmd \in AddCmd
         /\ cmd.pc \in BuildPcs => cmd \in BuildCmd
         /\ cmd.pc \in {"idle"} \cup NewPcs \cup AddPcs \cup BuildPcs
  BY IdlePc, Zenon DEF CmdOK, NewPcs, AddPcs, Early, BuildPcs, BuildCmd, AddCmd

\* The places of new, add and build have no name in common.
LEMMA PcsApart == /\ AddPcs \cap BuildPcs = {} /\ NewPcs \cap (AddPcs \cup BuildPcs) = {}
                  /\ "idle" \notin AddPcs \cup BuildPcs \cup NewPcs
                  /\ {"toml", "lib"} \subseteq Early /\ Early \subseteq AddPcs
  BY Zenon DEF NewPcs, AddPcs, Early, BuildPcs

\* Outside an add the targets are those of Cargo.toml.
LEMMA TargetsIdle == cmd.pc \notin AddPcs => Targets = manifest
  BY PcsApart, Zenon DEF Targets

\* Commands that are no add leave its invariant alone.
LEMMA AddFrame ==
  ASSUME AddInv, UNCHANGED <<manifest, libmods, modrs, mainrs, stopped, lost>>,
         cmd.pc \notin AddPcs, cmd'.pc \notin AddPcs
  PROVE  AddInv'
<1>1. Targets = manifest /\ Targets' = manifest
  BY PcsApart, Zenon DEF Targets
<1>2. stopped' = 0 => InStep'
  BY <1>1, PcsApart, Zenon DEF AddInv, InStep
<1> QED
  BY <1>1, <1>2, Zenon DEF AddInv, HasFile

\* A step outside a build that leaves versions and files alone keeps its part.
LEMMA BuildFrame ==
  ASSUME BuildInv, UNCHANGED <<version, elfs, result>>,
         cmd.pc \notin BuildPcs, cmd'.pc \notin BuildPcs
  PROVE  BuildInv'
  BY Zenon DEF BuildInv, BuildResultTrue

\* An empty package satisfies the invariant.
LEMMA CargoStart == Init => CargoInv
<1> SUFFICES ASSUME Init PROVE CargoInv
  BY Zenon
<1>1. /\ manifest = <<>> /\ libmods = <<>> /\ modrs = [p \in Programs |-> "none"]
      /\ mainrs = [p \in Programs |-> "none"]
      /\ version = 0 /\ elfs = [p \in Programs |-> NoFile] /\ cmd = Idle
      /\ result = [res |-> "none"] /\ stopped = 0
  BY Zenon DEF Init
<1>2. cmd.pc \notin AddPcs \cup BuildPcs /\ cmd.pc \notin {"toml", "lib"}
  BY <1>1, IdlePc, PcsApart, Zenon
<1>3. CmdOK
  BY <1>1, Zenon DEF CmdOK
<1>4. AddInv
  <2>1. /\ manifest \in Seq(Programs) /\ libmods \in Seq(Mods)
        /\ Len(manifest) = 0 /\ Len(libmods) = 0 /\ DOMAIN manifest = {}
    <3>1. \A S : <<>> \in Seq(S) /\ Len(<<>>) = 0
      BY EmptySeq, Zenon
    <3>2. DOMAIN <<>> = {}
      OBVIOUS
    <3> QED
      BY <1>1, <3>1, <3>2, Zenon
  <2>2. IsInjective(manifest) /\ Targets = manifest
    BY <1>2, <2>1, TargetsIdle, Zenon DEF IsInjective
  <2>3. /\ modrs \in [Programs -> Files] /\ mainrs \in [Programs -> Files]
        /\ \A p \in Programs : ~HasFile(p)
    BY <1>1, Zenon DEF Files, HasFile
  <2>4. stopped \in Nat
    BY <1>1
  <2>5. InStep
    BY <1>2, <2>1, <2>2 DEF InStep
  <2> QED
    BY <1>2, <2>1, <2>2, <2>3, <2>4, <2>5, Zenon DEF AddInv
<1>5. BuildInv
  <2>1. elfs \in [Programs -> {NoFile} \cup Elf] /\ \A p \in Programs : elfs[p] = NoFile
    BY <1>1, Zenon
  <2>2. result \in Results /\ result.res = "none"
    BY <1>1, Zenon DEF Results
  <2> QED
    BY <1>1, <1>2, <2>1, <2>2, Zenon DEF BuildInv, BuildResultTrue
<1> QED
  BY <1>3, <1>4, <1>5, Zenon DEF CargoInv

-----------------------------------------------------------------------------
\* cargo bpf new keeps the invariant.
LEMMA NewStep == ASSUME CargoInv, New PROVE CargoInv'
<1>1. /\ cmd.pc \in {"idle"} \cup NewPcs /\ cmd' \in {Idle} \cup [pc : NewPcs]
      /\ UNCHANGED <<manifest, libmods, modrs, mainrs, version, elfs, result, stopped, lost>>
  <2>1. \A pc \in NewPcs : [pc |-> pc] \in [pc : NewPcs]
    BY Zenon
  <2>2. {"create", "write", "lib.rs"} = NewPcs
    BY Zenon DEF NewPcs
  <2>3. \/ cmd = Idle /\ cmd' = [pc |-> "create"]
        \/ cmd.pc = "create" /\ cmd' = [pc |-> "write"]
        \/ cmd.pc = "write" /\ cmd' = [pc |-> "lib.rs"]
        \/ cmd.pc = "lib.rs" /\ cmd' = Idle
    BY Zenon DEF New
  <2>4. UNCHANGED <<manifest, libmods, modrs, mainrs, version, elfs, result, stopped, lost>>
    BY Zenon DEF New
  <2> QED
    BY <2>1, <2>2, <2>3, <2>4, IdlePc, Zenon
<1>2. cmd'.pc \in {"idle"} \cup NewPcs
  BY <1>1, IdlePc, Zenon
<1>3. CmdOK'
  BY <1>1, Zenon DEF CmdOK, NewPcs
<1>4. AddInv' /\ BuildInv'
  BY <1>1, <1>2, PcsApart, AddFrame, BuildFrame, Zenon DEF CargoInv
<1> QED
  BY <1>3, <1>4, Zenon DEF CargoInv

\* One more element at the end of a sequence
LEMMA Appended ==
  ASSUME NEW S, NEW s \in Seq(S), NEW x \in S
  PROVE  /\ Append(s, x) \in Seq(S) /\ Len(s) \in Nat /\ Len(Append(s, x)) = Len(s) + 1
         /\ DOMAIN s = 1 .. Len(s) /\ DOMAIN Append(s, x) = 1 .. Len(s) + 1
         /\ \A i \in 1 .. Len(s) : Append(s, x)[i] = s[i]
         /\ Append(s, x)[Len(s) + 1] = x
         /\ Range(Append(s, x)) = Range(s) \cup {x}
<1>1. PICK t : t = Append(s, x)
  BY Zenon
<1>2. /\ t \in Seq(S) /\ Len(s) \in Nat /\ Len(t) = Len(s) + 1
      /\ DOMAIN s = 1 .. Len(s) /\ DOMAIN t = 1 .. Len(s) + 1
      /\ \A i \in 1 .. Len(s) : t[i] = s[i]
      /\ t[Len(s) + 1] = x
  BY <1>1, AppendProperties, LenProperties
<1>3. Range(t) = Range(s) \cup {x}
  <2>1. Len(s) + 1 \in DOMAIN t /\ 1 .. Len(s) \subseteq DOMAIN t
        /\ \A i \in DOMAIN t : i \in 1 .. Len(s) \/ i = Len(s) + 1
    BY <1>2
  <2>2. \A y \in Range(t) : y \in Range(s) \cup {x}
    BY <1>2, <2>1, Zenon DEF Range
  <2>3. \A y \in Range(s) \cup {x} : y \in Range(t)
    BY <1>2, <2>1, Zenon DEF Range
  <2> QED
    BY <2>2, <2>3, Zenon
<1> QED
  BY <1>1, <1>2, <1>3, Zenon

\* The first change of add, to the manifest, keeps the invariant.
LEMMA AddStep ==
  ASSUME CargoInv, NEW p \in Programs, Add(p)
  PROVE  CargoInv'
<1>1. /\ cmd = Idle /\ p \notin Range(manifest) /\ manifest' = <<>>
      /\ cmd' = [pc |-> "toml", prog |-> p, new |-> Append(manifest, p)]
      /\ UNCHANGED <<libmods, modrs, mainrs, version, elfs, result, stopped, lost>>
  BY Zenon DEF Add
<1>2. PICK new : new = Append(manifest, p)
  BY Zenon
<1>3. /\ cmd.pc = "idle" /\ cmd'.pc = "toml" /\ cmd'.prog = p
      /\ Targets = manifest /\ Targets' = new
  BY <1>1, <1>2, IdlePc, Zenon DEF Targets
<1>4. /\ manifest \in Seq(Programs) /\ IsInjective(manifest)
  BY Zenon DEF CargoInv, AddInv
<1>5. /\ new \in Seq(Programs) /\ Len(manifest) \in Nat /\ Len(new) = Len(manifest) + 1
      /\ DOMAIN manifest = 1 .. Len(manifest) /\ DOMAIN new = 1 .. Len(manifest) + 1
      /\ \A i \in 1 .. Len(manifest) : new[i] = manifest[i]
      /\ new[Len(manifest) + 1] = p
      /\ Range(new) = Range(manifest) \cup {p}
  BY <1>2, <1>4, Appended
<1>6. CmdOK'
  <2>1. cmd' \in AddCmd
    BY <1>1, <1>2, <1>5, Zenon DEF AddCmd, AddPcs, Early
  <2> QED
    BY <2>1, Zenon DEF CmdOK, AddCmd, AddPcs, Early
<1>7. BuildInv'
  BY <1>1, <1>3, BuildFrame, Zenon DEF CargoInv, BuildPcs
<1>8. \A i \in 1 .. Len(manifest) : manifest[i] # p
  BY <1>1, <1>5, Zenon DEF Range
<1>9. IsInjective(new)
  BY <1>4, <1>5, <1>8 DEF IsInjective
<1>10. manifest' \in Seq(Programs) /\ IsInjective(manifest')
  <2>1. <<>> \in Seq(Programs) /\ DOMAIN <<>> = {}
    OBVIOUS
  <2> QED
    BY <1>1, <2>1, Zenon DEF IsInjective
<1>11. stopped' = 0 => InStep'
  <2>1. SUFFICES ASSUME stopped = 0 PROVE InStep'
    BY Zenon, <1>1
  <2>2. /\ Len(libmods) = Len(manifest)
        /\ \A i \in 1 .. Len(libmods) : libmods[i] = IdentOf[manifest[i]]
        /\ \A i \in 1 .. Len(manifest) : modrs[manifest[i]] = "whole"
    BY <1>3, <2>1, PcsApart, Zenon DEF CargoInv, AddInv, InStep
  <2>3. /\ Len(libmods') = Len(new) - 1
        /\ \A i \in 1 .. Len(libmods') : libmods'[i] = IdentOf[new[i]]
    <3>1. libmods' = libmods
      BY <1>1, Zenon
    <3>2. Len(libmods) = Len(new) - 1
      BY <1>5, <2>2
    <3>3. \A i \in 1 .. Len(libmods) : libmods[i] = IdentOf[new[i]]
      BY <1>5, <2>2, Zenon
    <3> QED
      BY <3>1, <3>2, <3>3, Zenon
  <2>4. \A i \in 1 .. Len(new) : modrs'[new[i]] = "whole" \/ i = Len(new)
    <3>1. modrs' = modrs
      BY <1>1, Zenon
    <3>2. \A i \in 1 .. Len(new) : i \in 1 .. Len(manifest) \/ i = Len(new)
      BY <1>5
    <3>3. \A i \in 1 .. Len(manifest) : modrs[new[i]] = "whole"
      BY <1>5, <2>2, Zenon
    <3> QED
      BY <3>1, <3>2, <3>3, Zenon
  <2>5. new # <<>> /\ cmd'.prog = new[Len(new)]
    <3>1. Len(new) # 0
      BY <1>5
    <3>2. Len(<<>>) = 0
      OBVIOUS
    <3> QED
      BY <1>3, <1>5, <3>1, <3>2, Zenon
  <2> QED
    BY <1>3, <2>3, <2>4, <2>5, Zenon DEF InStep, Early
<1>12. AddInv'
  <2>1. cmd'.prog \in Range(Targets') /\ \A q \in Range(Targets) : q \in Range(Targets')
    BY <1>3, <1>5, Zenon
  <2> QED
    BY <1>1, <1>3, <1>5, <1>9, <1>10, <1>11, <2>1, Zenon DEF CargoInv, AddInv, HasFile
<1> QED
  BY <1>6, <1>7, <1>12, Zenon DEF CargoInv

\* The whole of the new manifest keeps the invariant.
LEMMA AddTomlStep == ASSUME CargoInv, AddToml PROVE CargoInv'
<1>1. /\ cmd.pc = "toml" /\ manifest' = cmd.new /\ cmd' = [cmd EXCEPT !.pc = "lib"]
      /\ UNCHANGED <<libmods, modrs, mainrs, version, elfs, result, stopped, lost>>
  BY Zenon DEF AddToml
<1>2. cmd \in AddCmd
  BY <1>1, CmdKind, Zenon DEF CargoInv, AddPcs, Early
<1>3. cmd' \in AddCmd /\ cmd'.pc = "lib" /\ cmd'.prog = cmd.prog
  BY <1>1, <1>2, Zenon DEF AddCmd, AddPcs, Early
<1>4. CmdOK'
  BY <1>3, Zenon DEF CmdOK, AddCmd, AddPcs, Early
<1>5. BuildInv'
  BY <1>1, <1>3, BuildFrame, Zenon DEF CargoInv, BuildPcs
<1>6. Targets' = Targets /\ manifest' = Targets
  BY <1>1, <1>3, Zenon DEF Targets
<1>7. stopped' = 0 => InStep'
  BY <1>1, <1>3, <1>6, Zenon DEF CargoInv, AddInv, InStep, AddPcs, Early
<1>8. AddInv'
  BY <1>1, <1>3, <1>6, <1>7, Zenon DEF CargoInv, AddInv, HasFile, AddPcs, Early
<1> QED
  BY <1>4, <1>5, <1>8, Zenon DEF CargoInv

\* The change of lib.rs keeps the invariant.
LEMMA AddLibStep == ASSUME CargoInv, AddLib PROVE CargoInv'
<1>1. /\ cmd.pc = "lib"
      /\ libmods' = Append(libmods, IdentOf[cmd.prog]) /\ cmd' = [cmd EXCEPT !.pc = "mod"]
      /\ UNCHANGED <<manifest, modrs, mainrs, version, elfs, result, stopped, lost>>
  BY Zenon DEF AddLib, NameToIdent
<1>2. cmd \in AddCmd
  BY <1>1, CmdKind, Zenon DEF CargoInv, AddPcs, Early
<1>3. cmd' \in AddCmd /\ cmd'.pc = "mod" /\ cmd'.prog = cmd.prog
  BY <1>1, <1>2, Zenon DEF AddCmd, AddPcs, Early
<1>4. CmdOK'
  BY <1>3, Zenon DEF CmdOK, AddCmd, AddPcs, Early
<1>5. BuildInv'
  BY <1>1, <1>3, BuildFrame, Zenon DEF CargoInv, BuildPcs
<1>6. PICK m, T : m = IdentOf[cmd.prog] /\ T = Targets
  BY Zenon
<1>7. Targets' = T /\ manifest = T
  BY <1>1, <1>3, <1>6, Zenon DEF Targets
<1>8. m \in Mods /\ libmods \in Seq(Mods)
  BY <1>2, <1>6, Zenon DEF CargoInv, AddInv, Mods, AddCmd
<1>9. /\ libmods' \in Seq(Mods) /\ Len(libmods) \in Nat /\ Len(libmods') = Len(libmods) + 1
      /\ \A i \in 1 .. Len(libmods) : libmods'[i] = libmods[i]
      /\ libmods'[Len(libmods) + 1] = m
      /\ Range(libmods') = Range(libmods) \cup {m}
  BY <1>1, <1>6, <1>8, Appended
<1>10. stopped' = 0 => InStep'
  <2>1. SUFFICES ASSUME stopped = 0 PROVE InStep'
    BY Zenon, <1>1
  <2>2. /\ Len(libmods) = Len(T) - 1 /\ T # <<>>
        /\ \A i \in 1 .. Len(libmods) : libmods[i] = IdentOf[T[i]]
        /\ \A i \in 1 .. Len(T) : modrs[T[i]] = "whole" \/ i = Len(T)
        /\ cmd.prog = T[Len(T)]
    BY <1>1, <1>6, <2>1, Zenon DEF CargoInv, AddInv, InStep, AddPcs, Early
  <2>3. Len(T) \in Nat
    BY <1>6, LenProperties, Zenon DEF CargoInv, AddInv
  <2>4. m = IdentOf[T[Len(T)]]
    BY <1>6, <2>2, Zenon
  <2>5. /\ Len(libmods') = Len(T)
        /\ \A i \in 1 .. Len(libmods') : libmods'[i] = IdentOf[T[i]]
    <3>1. Len(libmods') = Len(T) /\ Len(libmods) + 1 = Len(T)
      <4>1. PICK a, b, c : a = Len(libmods) /\ b = Len(libmods') /\ c = Len(T)
        BY Zenon
      <4>2. a \in Nat /\ b = a + 1 /\ a = c - 1 /\ c \in Nat
        BY <1>9, <2>2, <2>3, <4>1, Zenon
      <4>3. b = c /\ a + 1 = c
        BY <4>2
      <4> QED
        BY <4>1, <4>3, Zenon
    <3>2. ASSUME NEW i \in 1 .. Len(libmods') PROVE libmods'[i] = IdentOf[T[i]]
      <4>1. i \in 1 .. Len(libmods) \/ i = Len(libmods) + 1
        BY <1>9
      <4>2. CASE i \in 1 .. Len(libmods)
        BY Zenon, <1>9, <2>2, <4>2
      <4>3. CASE i = Len(libmods) + 1
        BY <1>9, <2>4, <3>1, <4>3, Zenon
      <4> QED
        BY <4>1, <4>2, <4>3, Zenon
    <3> QED
      BY <3>1, <3>2, Zenon
  <2> QED
    BY <1>1, <1>3, <1>7, <2>2, <2>5, Zenon DEF InStep, Early
<1>11. AddInv'
  BY <1>1, <1>3, <1>6, <1>7, <1>9, <1>10, Zenon DEF CargoInv, AddInv, HasFile, AddPcs, Early
<1> QED
  BY <1>4, <1>5, <1>11, Zenon DEF CargoInv

\* The new source files keep the invariant.
LEMMA AddSourceStep == ASSUME CargoInv, AddSource PROVE CargoInv'
<1>1. PICK p : p = cmd.prog
  BY Zenon
<1>2. /\ cmd.pc \in {"mod", "mod.rs", "main", "main.rs"}
      /\ UNCHANGED <<manifest, libmods, version, elfs, result, stopped, lost>>
  BY Zenon DEF AddSource
<1>3. cmd \in AddCmd /\ p \in Programs
  BY <1>1, <1>2, CmdKind, Zenon DEF CargoInv, AddPcs, Early, AddCmd
<1>4. /\ modrs \in [Programs -> Files] /\ mainrs \in [Programs -> Files]
      /\ p \in Range(Targets) /\ IdentOf[p] \in Range(libmods)
  BY <1>1, <1>2, Zenon DEF CargoInv, AddInv, AddPcs, Early
<1>5. /\ modrs' \in [Programs -> Files] /\ mainrs' \in [Programs -> Files]
      /\ \A q \in Programs : q # p => modrs'[q] = modrs[q] /\ mainrs'[q] = mainrs[q]
      /\ cmd.pc = "mod.rs" => modrs'[p] = "whole"
      /\ cmd.pc \in {"main", "main.rs"} => modrs' = modrs
  BY <1>1, <1>3, <1>4, Zenon DEF AddSource, Files
<1>6. \/ cmd.pc = "main.rs" /\ cmd' = Idle /\ cmd'.pc = "idle"
      \/ /\ cmd.pc # "main.rs" /\ cmd' \in AddCmd /\ cmd'.prog = p
         /\ cmd.pc = "mod" => cmd'.pc = "mod.rs"
         /\ cmd.pc = "mod.rs" => cmd'.pc = "main"
         /\ cmd.pc = "main" => cmd'.pc = "main.rs"
  BY <1>1, <1>3, IdlePc, Zenon DEF AddSource, AddCmd, AddPcs, Early
<1>7. CmdOK'
  BY <1>6, Zenon DEF CmdOK, AddCmd, AddPcs, Early
<1>8. cmd'.pc \in {"idle", "mod.rs", "main", "main.rs"}
  BY <1>2, <1>6, Zenon
<1>9. BuildInv'
  <2>1. cmd.pc \notin BuildPcs /\ cmd'.pc \notin BuildPcs
    BY <1>2, <1>8, Zenon DEF BuildPcs
  <2> QED
    BY <1>2, <2>1, BuildFrame, Zenon DEF CargoInv
<1>10. PICK T : T = Targets
  BY Zenon
<1>11. Targets' = T /\ manifest = T /\ T \in Seq(Programs) /\ IsInjective(T)
  BY <1>2, <1>8, <1>10, Zenon DEF CargoInv, AddInv, Targets
<1>12. stopped' = 0 => InStep'
  <2>1. SUFFICES ASSUME stopped = 0 PROVE InStep'
    BY Zenon, <1>2
  <2>2. /\ Len(libmods) = Len(T) /\ T # <<>>
        /\ \A i \in 1 .. Len(libmods) : libmods[i] = IdentOf[T[i]]
        /\ \A i \in 1 .. Len(T) :
             modrs[T[i]] = "whole" \/ (cmd.pc \in {"mod", "mod.rs"} /\ i = Len(T))
        /\ p = T[Len(T)]
    BY <1>1, <1>2, <1>10, <2>1, ZenonT(30) DEF CargoInv, AddInv, InStep, AddPcs, Early
  <2>3. Len(T) \in Nat /\ \A i \in 1 .. Len(T) : T[i] \in Programs
    BY <1>11, LenProperties, ElementOfSeq, Zenon
  <2>4. \A i \in 1 .. Len(T) : i # Len(T) => T[i] # p
    <3>1. DOMAIN T = 1 .. Len(T) /\ Len(T) \in DOMAIN T
      BY <1>11, <2>2, <2>3, EmptySeq, LenProperties
    <3> QED
      BY <1>11, <2>2, <3>1, Zenon DEF IsInjective
  <2>5. \A i \in 1 .. Len(T) :
          modrs'[T[i]] = "whole" \/ (cmd'.pc = "mod.rs" /\ i = Len(T))
    <3>1. SUFFICES ASSUME NEW i \in 1 .. Len(T)
                   PROVE  modrs'[T[i]] = "whole" \/ (cmd'.pc = "mod.rs" /\ i = Len(T))
      BY Zenon
    <3>2. modrs[T[i]] = "whole" \/ (cmd.pc \in {"mod", "mod.rs"} /\ i = Len(T))
      BY <2>2, <3>1, Zenon
    <3>3. i # Len(T) => T[i] # p /\ T[i] \in Programs
      BY <2>3, <2>4, <3>1, Zenon
    <3>4. CASE i # Len(T)
      BY <1>5, <3>2, <3>3, <3>4, Zenon
    <3>5. CASE i = Len(T)
      BY <1>2, <1>5, <1>6, <2>2, <3>2, <3>5, Zenon
    <3> QED
      BY <3>4, <3>5, Zenon
  <2> QED
    BY <1>2, <1>6, <1>8, <1>11, <2>2, <2>5, ZenonT(30) DEF InStep, AddPcs, Early
<1>13. AddInv'
  <2>1. \A q \in Programs : HasFile(q)' =>
          IdentOf[q] \in Range(libmods') /\ q \in Range(Targets') \cup lost'
    BY <1>2, <1>4, <1>5, <1>10, <1>11, Zenon DEF CargoInv, AddInv, HasFile
  <2>2. cmd'.pc \in AddPcs => cmd'.prog = p
    BY <1>6, PcsApart, Zenon
  <2> QED
    BY <1>2, <1>4, <1>5, <1>10, <1>11, <1>12, <2>1, <2>2, Zenon DEF CargoInv, AddInv
<1> QED
  BY <1>7, <1>9, <1>13, Zenon DEF CargoInv

\* The first elements of a sequence without repetitions
LEMMA Prefix ==
  ASSUME NEW S, NEW s \in Seq(S), IsInjective(s), NEW n \in 0 .. Len(s)
  PROVE  SubSeq(s, 1, n) \in Seq(S) /\ IsInjective(SubSeq(s, 1, n))
<1>1. Len(s) \in Nat /\ DOMAIN s = 1 .. Len(s) /\ \A i \in 1 .. Len(s) : s[i] \in S
  BY LenProperties, ElementOfSeq, Zenon
<1>2. PICK t : t = SubSeq(s, 1, n)
  BY Zenon
<1>3. t \in Seq(S) /\ DOMAIN t = 1 .. n /\ \A i \in 1 .. n : t[i] = s[i]
  BY <1>1, <1>2
<1>4. \A i \in 1 .. n : i \in DOMAIN s
  BY <1>1
<1>5. IsInjective(t)
  BY <1>3, <1>4, Zenon DEF IsInjective
<1> QED
  BY <1>2, <1>3, <1>5, Zenon

\* A command that stops half-way keeps the invariant.
LEMMA StopsStep == ASSUME CargoInv, Stops PROVE CargoInv'
<1>1. /\ cmd' = Idle /\ stopped' = stopped + 1 /\ stopped \in Nat
      /\ UNCHANGED <<modrs, mainrs, version, elfs, result>>
      /\ cmd.pc \in NewPcs \cup AddPcs
  BY Zenon DEF Stops, NewPcs, AddPcs, Early, CargoInv, AddInv
<1>2. cmd'.pc = "idle" /\ cmd'.pc \notin AddPcs /\ Targets' = manifest'
  BY <1>1, IdlePc, PcsApart, Zenon DEF Targets
<1>3. CmdOK'
  BY <1>1, Zenon DEF CmdOK
<1>4. BuildInv'
  BY <1>1, <1>2, PcsApart, BuildFrame, Zenon DEF CargoInv
<1>5. stopped' \in Nat /\ stopped' # 0
  BY <1>1
<1>6. /\ libmods' \in Seq(Mods) /\ \A m \in Range(libmods) : m \in Range(libmods')
  <2>1. libmods \in Seq(Mods) /\ Garbled \in Mods
    BY Zenon DEF CargoInv, AddInv, Mods
  <2>2. libmods' = libmods \/ libmods' = Append(libmods, Garbled)
    BY Zenon DEF Stops, TomlCut
  <2>3. /\ Append(libmods, Garbled) \in Seq(Mods)
        /\ Range(Append(libmods, Garbled)) = Range(libmods) \cup {Garbled}
    BY <2>1, Appended
  <2> QED
    BY <2>1, <2>2, <2>3, Zenon
<1>7. /\ manifest' \in Seq(Programs) /\ IsInjective(manifest')
      /\ \A p \in Range(Targets) \cup lost : p \in Range(manifest') \cup lost'
  <2>1. CASE cmd.pc # "toml"
    <3>1. manifest' = manifest /\ lost' = lost
      BY <2>1, Zenon DEF Stops
    <3>2. Targets = manifest
      BY <2>1, Zenon DEF Targets
    <3> QED
      BY <3>1, <3>2, Zenon DEF CargoInv, AddInv
  <2>2. CASE cmd.pc = "toml"
    <3>1. Targets = cmd.new /\ Targets \in Seq(Programs) /\ IsInjective(Targets)
      BY <2>2, Zenon DEF CargoInv, AddInv, Targets
    <3>2. TomlCut
      BY <2>2, Zenon DEF Stops
    <3>3. PICK T : T = Targets
      BY Zenon
    <3>4. /\ lost' = lost \cup (Range(T) \ Range(manifest'))
          /\ manifest' = <<>> \/ \E n \in 0 .. Len(T) : manifest' = SubSeq(T, 1, n)
      BY <3>1, <3>2, <3>3, Zenon DEF TomlCut
    <3>5. <<>> \in Seq(Programs) /\ IsInjective(<<>>)
      <4>1. <<>> \in Seq(Programs) /\ DOMAIN <<>> = {}
        OBVIOUS
      <4> QED
        BY <4>1, Zenon DEF IsInjective
    <3>6. manifest' \in Seq(Programs) /\ IsInjective(manifest')
      BY <3>1, <3>3, <3>4, <3>5, Prefix, Zenon
    <3> QED
      BY <3>3, <3>4, <3>6, Zenon
  <2> QED
    BY <2>1, <2>2, Zenon
<1>8. AddInv'
  BY <1>1, <1>2, <1>5, <1>6, <1>7, Zenon DEF CargoInv, AddInv, HasFile
<1> QED
  BY <1>3, <1>4, <1>8, Zenon DEF CargoInv

\* An edit makes the sources newer than every object.
LEMMA EditStep == ASSUME CargoInv, Edit PROVE CargoInv'
<1>1. /\ version' = version + 1
      /\ UNCHANGED <<manifest, libmods, modrs, mainrs, stopped, lost, elfs, cmd, result>>
  BY Zenon DEF Edit, package
<1>2. CmdOK'
  BY <1>1, Zenon DEF CargoInv, CmdOK
<1>3. AddInv'
  BY <1>1, Zenon DEF CargoInv, AddInv, InStep, Targets, HasFile
<1>4. version \in Nat /\ version' \in Nat
  BY <1>1 DEF CargoInv, BuildInv
<1>5. cmd.pc \in BuildPcs => cmd.since <= version'
  <2>1. cmd.pc \in BuildPcs => cmd.since \in Nat /\ cmd.since <= version
    BY CmdKind, Zenon DEF CargoInv, BuildInv, BuildCmd
  <2> QED
    BY <1>1, <1>4, <2>1
<1>6. BuildInv'
  BY Zenon, <1>1, <1>4, <1>5 DEF CargoInv, BuildInv, BuildResultTrue, Progress, Current
<1> QED
  BY <1>2, <1>3, <1>6, Zenon DEF CargoInv

-----------------------------------------------------------------------------
\* What an invariant of a running build says of its lists of programs.
LEMMA Lists ==
  ASSUME CargoInv, cmd.pc \in BuildPcs
  PROVE  /\ cmd \in BuildCmd /\ cmd.left \in Seq(Programs) /\ cmd.all \in Seq(Programs)
         /\ Len(cmd.left) \in Nat /\ Len(cmd.all) \in Nat
         /\ DOMAIN cmd.left = 1 .. Len(cmd.left) /\ DOMAIN cmd.all = 1 .. Len(cmd.all)
         /\ cmd.since \in Nat /\ cmd.cleared \in BOOLEAN
         /\ cmd.left # <<>> => /\ Len(cmd.left) > 0 /\ Head(cmd.left) = cmd.left[1]
                               /\ cmd.left[1] \in Programs
<1>1. cmd \in BuildCmd
  BY CmdKind, Zenon DEF CargoInv
<1>2. cmd.left \in Seq(Programs) /\ cmd.all \in Seq(Programs) /\ cmd.since \in Nat /\ cmd.cleared \in BOOLEAN
  BY <1>1, Zenon DEF BuildCmd
<1>3. PICK left, all : left = cmd.left /\ all = cmd.all
  BY Zenon
<1>4. left \in Seq(Programs) /\ all \in Seq(Programs)
  BY <1>2, <1>3, Zenon
<1>5. /\ Len(left) \in Nat /\ Len(all) \in Nat
      /\ DOMAIN left = 1 .. Len(left) /\ DOMAIN all = 1 .. Len(all)
  BY <1>4, LenProperties, Zenon
<1>6. left # <<>> => Len(left) > 0 /\ Head(left) = left[1] /\ left[1] \in Programs
  BY <1>4, <1>5, EmptySeq, ElementOfSeq, HeadTailProperties
<1> QED
  BY <1>1, <1>2, <1>3, <1>5, <1>6, Zenon

\* A step of a build that ends it.
LEMMA EndStep ==
  ASSUME CargoInv, cmd.pc \in BuildPcs, cmd' = Idle,
         UNCHANGED <<manifest, libmods, modrs, mainrs, stopped, lost, version>>,
         elfs' \in [Programs -> {NoFile} \cup Elf],
         \A p \in Programs : elfs'[p] # NoFile => Checked(elfs'[p]) /\ TcRight(elfs'[p]),
         result' \in Results, BuildResultTrue'
  PROVE  CargoInv'
<1>1. cmd'.pc = "idle"
  BY IdlePc, Zenon
<1>2. cmd.pc \notin AddPcs /\ cmd'.pc \notin AddPcs \cup BuildPcs
  BY <1>1, PcsApart, Zenon
<1>3. CmdOK'
  BY Zenon DEF CmdOK
<1>4. AddInv'
  BY <1>2, AddFrame, Zenon DEF CargoInv
<1>5. BuildInv'
  BY <1>2, Zenon DEF CargoInv, BuildInv, Checked, TcRight
<1> QED
  BY <1>3, <1>4, <1>5, Zenon DEF CargoInv

\* A step of build_probe that fails
LEMMA FailsStep ==
  ASSUME CargoInv, cmd.pc \in BuildPcs, cmd.pc # "next", Fails,
         UNCHANGED <<package, version, elfs>>
  PROVE  CargoInv'
<1>1. /\ cmd' = Idle
      /\ result' = [res |-> "Err", at |-> Head(cmd.left), cleared |-> cmd.cleared]
      /\ UNCHANGED <<manifest, libmods, modrs, mainrs, stopped, lost>>
  BY Zenon DEF Fails, package
<1>2. Current
  BY Zenon DEF CargoInv, BuildInv
<1>3. cmd.left # <<>> /\ Head(cmd.left) = cmd.left[1] /\ cmd.left[1] \in Programs
      /\ cmd.cleared \in BOOLEAN
  BY <1>2, Lists, Zenon DEF Current
<1>4. PICK at : at = cmd.left[1]
  BY Zenon
<1>5. result' = [res |-> "Err", at |-> at, cleared |-> cmd.cleared] /\ at \in Programs
  BY <1>1, <1>3, <1>4, Zenon
<1>6. result'.res = "Err" /\ result'.at = at /\ result'.cleared = cmd.cleared
  BY <1>5, Zenon
<1>7. result' \in Results
  BY <1>3, <1>5, Zenon DEF Results
<1>8. cmd.cleared = TRUE => elfs[at] = NoFile
  BY <1>2, <1>4, Zenon DEF Current
<1>9. BuildResultTrue'
  BY <1>3, <1>6, <1>8, Zenon DEF BuildResultTrue
<1> QED
  BY <1>1, <1>7, <1>9, EndStep, Zenon DEF CargoInv, BuildInv

\* A step of build_probe that goes on with the same program
LEMMA GoesStep ==
  ASSUME CargoInv, cmd.pc \in BuildPcs, cmd.pc # "next",
         cmd' \in BuildCmd, cmd'.pc # "next",
         cmd'.left = cmd.left, cmd'.all = cmd.all, cmd'.since = cmd.since,
         cmd'.cleared = cmd.cleared,
         UNCHANGED <<package, version, elfs, result>>,
         cmd'.pc \in {"compile", "scan", "emit"} => cmd'.bc \in Bitcode /\ cmd'.bc.ver >= cmd'.since,
         cmd'.pc = "scan" => Scanned(cmd'.bc.code.funcs, cmd'.scan),
         cmd'.pc = "emit" => (MisalignedGet(cmd'.scan.maps) <=> RefToMisaligned(cmd'.bc.code)),
         cmd'.pc \in {"tc", "strip", "rename"} =>
           cmd'.tmp \in Elf /\ cmd'.tmp.ver >= cmd'.since /\ Checked(cmd'.tmp),
         cmd'.pc \in {"strip", "rename"} => TcRight(cmd'.tmp)
  PROVE  CargoInv'
<1>1. cmd'.pc \in BuildPcs
  BY Zenon DEF BuildCmd
<1>2. CmdOK'
  BY Zenon DEF CmdOK, BuildCmd, BuildPcs, Bitcode, Elf, NoFile, Scans, Methods, MapsOf
<1>3. AddInv'
  <2>1. UNCHANGED <<manifest, libmods, modrs, mainrs, stopped, lost>>
    BY Zenon DEF package
  <2> QED
    BY <1>1, <2>1, PcsApart, AddFrame, Zenon DEF CargoInv
<1>4. Progress /\ Current /\ result.res = "none" /\ cmd.since <= version
  BY Zenon DEF CargoInv, BuildInv
<1>5. Progress'
  BY Zenon, <1>4 DEF Progress
<1>6. Current'
  BY <1>4, Zenon DEF Current, Checked, TcRight, Scanned
<1>7. BuildInv'
  BY <1>1, <1>4, <1>5, <1>6, Zenon DEF CargoInv, BuildInv, BuildResultTrue, Checked, TcRight
<1> QED
  BY <1>2, <1>3, <1>7, Zenon DEF CargoInv

\* A build that meets another version of LLVM ends before it changes a file.
LEMMA CheckLLVMStep ==
  ASSUME CargoInv, NEW rustc, CheckLLVM(rustc)
  PROVE  CargoInv'
<1>1. cmd.pc = "llvm" /\ UNCHANGED <<package, version, elfs>> /\ (Fails \/ Goes("rustc"))
  BY Zenon DEF CheckLLVM
<1>2. cmd.pc \in BuildPcs /\ cmd.pc # "next"
  BY <1>1, Zenon DEF BuildPcs
<1>3. CASE Fails
  BY <1>1, <1>2, <1>3, FailsStep, Zenon
<1>4. CASE Goes("rustc")
  <2>1. cmd' = [cmd EXCEPT !.pc = "rustc"] /\ result' = result /\ cmd \in BuildCmd
    BY <1>2, <1>4, Lists, Zenon DEF Goes
  <2>2. /\ cmd' \in BuildCmd /\ cmd'.pc = "rustc"
        /\ cmd'.left = cmd.left /\ cmd'.all = cmd.all /\ cmd'.since = cmd.since
        /\ cmd'.cleared = cmd.cleared
    BY <2>1, Zenon DEF BuildCmd, BuildPcs
  <2> QED
    BY <1>1, <1>2, <2>1, <2>2, GoesStep, Zenon
<1> QED
  BY <1>1, <1>3, <1>4, Zenon

\* The bitcode is that of the sources at the time it is made.
LEMMA CargoRustcStep ==
  ASSUME CargoInv, NEW code \in Bitcodes, NEW ok, CargoRustc(code, ok)
  PROVE  CargoInv'
<1>1. /\ cmd.pc = "rustc" /\ UNCHANGED <<package, version, elfs>>
      /\ \/ Fails
         \/ /\ cmd' = [cmd EXCEPT !.pc = "compile", !.bc = [ver |-> version, code |-> code]]
            /\ result' = result
  BY Zenon DEF CargoRustc
<1>2. cmd.pc \in BuildPcs /\ cmd.pc # "next"
  BY <1>1, Zenon DEF BuildPcs
<1>3. CASE Fails
  BY <1>1, <1>2, <1>3, FailsStep, Zenon
<1>4. CASE /\ cmd' = [cmd EXCEPT !.pc = "compile", !.bc = [ver |-> version, code |-> code]]
           /\ result' = result
  <2>1. cmd \in BuildCmd /\ cmd.since \in Nat
    BY <1>2, Lists, Zenon
  <2>2. version \in Nat /\ cmd.since <= version
    BY <1>2, Zenon DEF CargoInv, BuildInv
  <2>3. PICK bc : bc = [ver |-> version, code |-> code]
    BY Zenon
  <2>4. bc \in Bitcode /\ bc.ver = version
    BY <2>2, <2>3, Zenon DEF Bitcode
  <2>5. cmd' = [cmd EXCEPT !.pc = "compile", !.bc = bc]
    BY <1>4, <2>3, Zenon
  <2>6. /\ cmd' \in BuildCmd /\ cmd'.pc = "compile" /\ cmd'.bc = bc
        /\ cmd'.left = cmd.left /\ cmd'.all = cmd.all /\ cmd'.since = cmd.since
        /\ cmd'.cleared = cmd.cleared
    BY Zenon, <2>1, <2>4, <2>5 DEF BuildCmd, BuildPcs
  <2>7. cmd'.bc.ver >= cmd'.since
    BY <2>1, <2>2, <2>4, <2>6, Zenon
  <2> QED
    BY <1>1, <1>2, <1>4, <2>4, <2>6, <2>7, GoesStep, Zenon
<1> QED
  BY <1>1, <1>3, <1>4, Zenon

\* A scan begins with nothing read.
LEMMA ScanBegins ==
  /\ ScanStart \in Scans
  /\ \A code \in Bitcodes : Scanned(code.funcs, ScanStart)
<1>1. ScanStart \in Scans
  <2>1. 0 \in Nat /\ 1 \in Nat /\ "" \in Methods /\ {} \in SUBSET MapsOf
    BY Zenon DEF Methods
  <2> QED
    BY <2>1, Zenon DEF Scans, ScanStart
<1>2. ASSUME NEW code \in Bitcodes PROVE Scanned(code.funcs, ScanStart)
  <2>1. PICK funcs : funcs = code.funcs
    BY Zenon
  <2>2. /\ ScanStart.func = 1 /\ ScanStart.at = 0 /\ ScanStart.method = ""
        /\ ScanStart.maps = {}
    BY Zenon DEF ScanStart
  <2>3. funcs \in Seq(Seq(Insts))
    BY <1>2, <2>1, BitcodeAssumption, Zenon
  <2>4. /\ Len(funcs) \in Nat /\ DOMAIN funcs = 1 .. Len(funcs)
        /\ \A f \in 1 .. Len(funcs) : funcs[f] \in Seq(Insts)
    BY <2>3, LenProperties, ElementOfSeq, Zenon
  <2>5. \A f \in 1 .. Len(funcs) : Len(funcs[f]) \in Nat /\ DOMAIN funcs[f] = 1 .. Len(funcs[f])
    BY <2>4, LenProperties, Zenon
  <2>6. 1 \in 1 .. Len(funcs) + 1 /\ (1 <= Len(funcs) => 1 \in 1 .. Len(funcs))
        /\ \A f \in DOMAIN funcs : ~(f < 1)
    BY <2>4
  <2>7. \A f \in 1 .. Len(funcs) : 0 \in 0 .. Len(funcs[f])
    BY <2>5
  <2>8. \A f : Pending(funcs[f], 0, "")
    <3>1. 1 .. 0 = {}
      OBVIOUS
    <3> QED
      BY <3>1, Zenon DEF Pending
  <2>9. \A f \in 1 .. Len(funcs) : \A m : ~Refers(funcs[f], 0, m)
    <3>1. \A f \in 1 .. Len(funcs) : \A j \in DOMAIN funcs[f] : ~(j <= 0)
      BY <2>5
    <3> QED
      BY <3>1, Zenon DEF Refers
  <2>10. Scanned(funcs, ScanStart)
    BY <2>2, <2>6, <2>7, <2>8, <2>9, Zenon DEF Scanned
  <2> QED
    BY <2>1, <2>10, Zenon
<1> QED
  BY <1>1, <1>2, Zenon

\* llvm.rs looks at an instruction as one or the other.
LEMMA RecordOrLookup == \A inst : MapMethod(inst) # "" => LookupMap(inst) = ""
  BY DEF MapMethod, LookupMap

\* The method after one more instruction
NextMethod(method, inst) ==
  IF MapMethod(inst) # "" THEN MapMethod(inst) ELSE IF LookupMap(inst) # "" THEN "" ELSE method

\* One more instruction of a function: the method that is pending, and the map it
\* refers to, are those that the records and lookups before it tell.
LEMMA OneInst ==
  ASSUME NEW func \in Seq(Insts), NEW n \in Nat, n < Len(func), NEW method,
         Pending(func, n, method)
  PROVE  /\ Pending(func, n + 1, NextMethod(method, func[n + 1]))
         /\ \A m : Refers(func, n + 1, m) <=>
              \/ Refers(func, n, m)
              \/ /\ LookupMap(func[n + 1]) # "" /\ LookupMap(func[n + 1]) = m
                 /\ method \in {"get", "get_mut"}
<1>1. PICK inst, new : inst = func[n + 1] /\ new = NextMethod(method, inst)
  BY Zenon
<1>2. /\ Len(func) \in Nat /\ DOMAIN func = 1 .. Len(func)
      /\ n + 1 \in DOMAIN func /\ n + 1 \in 1 .. n + 1 /\ 1 .. n \subseteq DOMAIN func
      /\ 1 .. n \subseteq 1 .. n + 1
      /\ \A i \in 1 .. n + 1 : i \in 1 .. n \/ i = n + 1
      /\ \A i \in DOMAIN func : i <= n + 1 <=> i <= n \/ i = n + 1
      /\ \A i \in DOMAIN func : i < n + 1 <=> i \in 1 .. n
      /\ \A i \in DOMAIN func : i <= n <=> i \in 1 .. n
      /\ \A i \in 1 .. n : i < n + 1 /\ ~(n + 1 < i)
      /\ ~(n + 1 <= n)
  BY LenProperties
<1>3. \A i \in 1 .. n : Quiet(func, i, n + 1) <=>
        Quiet(func, i, n) /\ MapMethod(inst) = "" /\ LookupMap(inst) = ""
  BY <1>1, <1>2, Zenon DEF Quiet
<1>4. Quiet(func, n + 1, n + 1)
  BY <1>2 DEF Quiet
<1>5. Pending(func, n + 1, new)
  <2>1. CASE MapMethod(inst) # ""
    <3>1. new = MapMethod(inst)
      BY <1>1, <2>1, Zenon DEF NextMethod
    <3>2. \E i \in 1 .. n + 1 : MapMethod(func[i]) = new /\ Quiet(func, i, n + 1)
      BY <1>1, <1>2, <1>4, <3>1, Zenon
    <3>3. ASSUME NEW i \in 1 .. n + 1, MapMethod(func[i]) # "", Quiet(func, i, n + 1)
          PROVE  new = MapMethod(func[i])
      BY <1>1, <1>2, <1>3, <2>1, <3>1, <3>3, Zenon
    <3> QED
      BY <3>2, <3>3, Zenon DEF Pending
  <2>2. CASE MapMethod(inst) = "" /\ LookupMap(inst) # ""
    <3>1. new = ""
      BY <1>1, <2>2, Zenon DEF NextMethod
    <3>2. ASSUME NEW i \in 1 .. n + 1, MapMethod(func[i]) # "", Quiet(func, i, n + 1)
          PROVE  FALSE
      BY <1>1, <1>2, <1>3, <2>2, <3>2, Zenon
    <3> QED
      BY <3>1, <3>2, Zenon DEF Pending
  <2>3. CASE MapMethod(inst) = "" /\ LookupMap(inst) = ""
    <3>1. new = method
      BY <1>1, <2>3, Zenon DEF NextMethod
    <3>2. method # "" => \E i \in 1 .. n + 1 : MapMethod(func[i]) = method /\ Quiet(func, i, n + 1)
      BY <1>2, <1>3, <2>3, Zenon DEF Pending
    <3>3. ASSUME NEW i \in 1 .. n + 1, MapMethod(func[i]) # "", Quiet(func, i, n + 1)
          PROVE  method = MapMethod(func[i])
      BY <1>1, <1>2, <1>3, <2>3, <3>3, Zenon DEF Pending
    <3> QED
      BY <3>1, <3>2, <3>3, Zenon DEF Pending
  <2> QED
    BY <2>1, <2>2, <2>3, Zenon
<1>6. \A i \in DOMAIN func : GetThenLookup(func, i, n + 1) <=>
        /\ i \in 1 .. n /\ MapMethod(func[i]) \in {"get", "get_mut"} /\ LookupMap(inst) # ""
        /\ Quiet(func, i, n)
  <2>1. \A i, k \in DOMAIN func : k < n + 1 <=> k <= n
    BY <1>2, Zenon
  <2> QED
    BY <1>1, <1>2, <2>1, Zenon DEF GetThenLookup, Quiet
<1>7. (\E i \in DOMAIN func : GetThenLookup(func, i, n + 1)) <=>
        LookupMap(inst) # "" /\ method \in {"get", "get_mut"}
  <2>1. ASSUME NEW i \in DOMAIN func, GetThenLookup(func, i, n + 1)
        PROVE  LookupMap(inst) # "" /\ method \in {"get", "get_mut"}
    <3>1. /\ i \in 1 .. n /\ MapMethod(func[i]) \in {"get", "get_mut"} /\ LookupMap(inst) # ""
          /\ Quiet(func, i, n)
      BY <1>6, <2>1, Zenon
    <3>2. MapMethod(func[i]) # ""
      BY <3>1
    <3> QED
      BY <3>1, <3>2, Zenon DEF Pending
  <2>2. ASSUME LookupMap(inst) # "", method \in {"get", "get_mut"}
        PROVE  \E i \in DOMAIN func : GetThenLookup(func, i, n + 1)
    <3>1. method # ""
      BY <2>2
    <3>2. PICK i \in 1 .. n : MapMethod(func[i]) = method /\ Quiet(func, i, n)
      BY <3>1, Zenon DEF Pending
    <3> QED
      BY <1>2, <1>6, <2>2, <3>2, Zenon
  <2> QED
    BY <2>1, <2>2, Zenon
<1>8. \A m : Refers(func, n + 1, m) <=>
        \/ Refers(func, n, m)
        \/ LookupMap(inst) # "" /\ LookupMap(inst) = m /\ method \in {"get", "get_mut"}
  BY <1>1, <1>2, <1>7, Zenon DEF Refers
<1> QED
  BY <1>1, <1>5, <1>8, Zenon

\* The bitcode is loaded, and the scan begins.
LEMMA LoadModuleStep ==
  ASSUME CargoInv, NEW ok, LoadModule(ok)
  PROVE  CargoInv'
<1>1. /\ cmd.pc = "compile" /\ UNCHANGED <<package, version, elfs>>
      /\ \/ Fails
         \/ cmd' = [cmd EXCEPT !.pc = "scan", !.scan = ScanStart] /\ result' = result
  BY Zenon DEF LoadModule
<1>2. cmd.pc \in BuildPcs /\ cmd.pc # "next"
  BY <1>1, Zenon DEF BuildPcs
<1>3. CASE Fails
  BY <1>1, <1>2, <1>3, FailsStep, Zenon
<1>4. CASE cmd' = [cmd EXCEPT !.pc = "scan", !.scan = ScanStart] /\ result' = result
  <2>1. cmd \in BuildCmd
    BY <1>2, Lists, Zenon
  <2>2. cmd.bc \in Bitcode /\ cmd.bc.ver >= cmd.since
    BY <1>1, <1>2, Zenon DEF CargoInv, BuildInv, Current
  <2>3. /\ cmd' \in BuildCmd /\ cmd'.pc = "scan" /\ cmd'.bc = cmd.bc /\ cmd'.scan = ScanStart
        /\ cmd'.left = cmd.left /\ cmd'.all = cmd.all /\ cmd'.since = cmd.since
        /\ cmd'.cleared = cmd.cleared
    BY <1>4, <2>1, ScanBegins, Zenon DEF BuildCmd, BuildPcs
  <2>4. Scanned(cmd'.bc.code.funcs, cmd'.scan)
    BY <2>2, <2>3, ScanBegins, Zenon DEF Bitcode
  <2> QED
    BY <1>1, <1>2, <1>4, <2>2, <2>3, <2>4, GoesStep, Zenon
<1> QED
  BY <1>1, <1>3, <1>4, Zenon

\* What is known of the functions of the bitcode
LEMMA FunctionsAre ==
  ASSUME NEW code \in Bitcodes, NEW funcs, funcs = code.funcs
  PROVE  /\ funcs \in Seq(Seq(Insts)) /\ Len(funcs) \in Nat /\ DOMAIN funcs = 1 .. Len(funcs)
         /\ \A f \in 1 .. Len(funcs) :
              /\ funcs[f] \in Seq(Insts) /\ Len(funcs[f]) \in Nat
              /\ DOMAIN funcs[f] = 1 .. Len(funcs[f])
              /\ \A i \in 1 .. Len(funcs[f]) : funcs[f][i] \in Insts
<1>1. funcs \in Seq(Seq(Insts))
  BY BitcodeAssumption, Zenon
<1>2. /\ Len(funcs) \in Nat /\ DOMAIN funcs = 1 .. Len(funcs)
      /\ \A f \in 1 .. Len(funcs) : funcs[f] \in Seq(Insts)
  BY <1>1, LenProperties, ElementOfSeq, Zenon
<1>3. \A f \in 1 .. Len(funcs) : Len(funcs[f]) \in Nat /\ DOMAIN funcs[f] = 1 .. Len(funcs[f])
  BY <1>2, LenProperties, Zenon
<1>4. \A f \in 1 .. Len(funcs) : \A i \in 1 .. Len(funcs[f]) : funcs[f][i] \in Insts
  BY <1>2, ElementOfSeq, Zenon
<1> QED
  BY <1>1, <1>2, <1>3, <1>4, Zenon

\* The end of a function, or one more of its instructions
LEMMA ScanGoesOn ==
  ASSUME NEW code \in Bitcodes, NEW funcs, funcs = code.funcs, NEW scan \in Scans,
         Scanned(funcs, scan), scan.func <= Len(funcs), NEW next,
         next = IF scan.at = Len(funcs[scan.func])
                THEN [scan EXCEPT !.func = @ + 1, !.at = 0, !.method = ""]
                ELSE ScanInst(scan, funcs[scan.func][scan.at + 1])
  PROVE  next \in Scans /\ Scanned(funcs, next)
<1>1. PICK f, n, method, maps, func :
        /\ f = scan.func /\ n = scan.at /\ method = scan.method /\ maps = scan.maps
        /\ func = funcs[f]
  BY Zenon
<1>2. f \in Nat /\ n \in Nat /\ method \in Methods /\ maps \in SUBSET MapsOf
  BY <1>1, Zenon DEF Scans
<1>3. /\ f \in 1 .. Len(funcs) + 1 /\ f <= Len(funcs) /\ n \in 0 .. Len(func)
      /\ Pending(func, n, method)
      /\ \A m : m \in maps <=> \/ \E g \in DOMAIN funcs : g < f /\ Refers(funcs[g], Len(funcs[g]), m)
                               \/ Refers(func, n, m)
  BY <1>1, Zenon DEF Scanned
<1>4. /\ Len(funcs) \in Nat /\ DOMAIN funcs = 1 .. Len(funcs)
      /\ \A g \in 1 .. Len(funcs) :
           /\ funcs[g] \in Seq(Insts) /\ Len(funcs[g]) \in Nat
           /\ DOMAIN funcs[g] = 1 .. Len(funcs[g])
           /\ \A i \in 1 .. Len(funcs[g]) : funcs[g][i] \in Insts
  BY FunctionsAre, Zenon
<1>5. f \in 1 .. Len(funcs)
  BY <1>3, <1>4
<1>6. func \in Seq(Insts) /\ Len(func) \in Nat /\ \A i \in 1 .. Len(func) : func[i] \in Insts
  BY <1>1, <1>4, <1>5, Zenon
<1>7. CASE n = Len(func)
  <2>1. next = [scan EXCEPT !.func = f + 1, !.at = 0, !.method = ""]
    BY <1>1, <1>7, Zenon
  <2>2. f + 1 \in Nat /\ 0 \in Nat /\ "" \in Methods
    <3>1. f + 1 \in Nat /\ 0 \in Nat
      BY <1>2
    <3> QED
      BY <3>1, Zenon DEF Methods
  <2>3. /\ next \in Scans /\ next.func = f + 1 /\ next.at = 0 /\ next.method = ""
        /\ next.maps = maps
    BY <1>1, <2>1, <2>2, Zenon DEF Scans
  <2>4. /\ f + 1 \in 1 .. Len(funcs) + 1
        /\ \A g \in DOMAIN funcs : g < f + 1 <=> g < f \/ g = f
        /\ f + 1 <= Len(funcs) => f + 1 \in 1 .. Len(funcs)
    BY <1>3, <1>4
  <2>5. f + 1 <= Len(funcs) => 0 \in 0 .. Len(funcs[f + 1]) /\ \A j \in DOMAIN funcs[f + 1] : ~(j <= 0)
    <3>1. \A l \in Nat : 0 \in 0 .. l /\ \A j \in 1 .. l : ~(j <= 0)
      OBVIOUS
    <3> QED
      BY <1>4, <2>4, <3>1, Zenon
  <2>6. Pending(funcs[f + 1], 0, "")
    <3>1. 1 .. 0 = {}
      OBVIOUS
    <3> QED
      BY <3>1, Zenon DEF Pending
  <2>7. f + 1 <= Len(funcs) => \A m : ~Refers(funcs[f + 1], 0, m)
    BY <2>5, Zenon DEF Refers
  <2>8. \A m : m \in maps <=>
          \/ \E g \in DOMAIN funcs : g < f + 1 /\ Refers(funcs[g], Len(funcs[g]), m)
          \/ f + 1 <= Len(funcs) /\ Refers(funcs[f + 1], 0, m)
    BY <1>1, <1>3, <1>4, <1>5, <1>7, <2>4, <2>7, Zenon
  <2> QED
    BY <2>3, <2>4, <2>5, <2>6, <2>8, Zenon DEF Scanned
<1>8. CASE n # Len(func)
  <2>1. n < Len(func) /\ n + 1 \in 1 .. Len(func) /\ n + 1 \in 0 .. Len(func) /\ n + 1 \in Nat
    BY <1>2, <1>3, <1>6, <1>8
  <2>2. PICK inst : inst = func[n + 1]
    BY Zenon
  <2>3. inst \in Insts
    BY <1>6, <2>1, <2>2, Zenon
  <2>4. PICK after, found :
          /\ after = NextMethod(method, inst)
          /\ found = IF LookupMap(inst) # "" /\ method \in {"get", "get_mut"}
                     THEN maps \cup {LookupMap(inst)} ELSE maps
    BY Zenon
  <2>5. after \in Methods /\ found \in SUBSET MapsOf
    BY <1>2, <2>3, <2>4, Zenon DEF NextMethod, Methods, MapsOf
  <2>6. next = [scan EXCEPT !.at = n + 1, !.method = after, !.maps = found]
    BY <1>1, <1>8, <2>2, <2>4, Zenon DEF ScanInst, NextMethod
  <2>7. /\ next \in Scans /\ next.func = f /\ next.at = n + 1 /\ next.method = after
        /\ next.maps = found
    BY <1>1, <1>2, <2>1, <2>5, <2>6, Zenon DEF Scans
  <2>8. /\ Pending(func, n + 1, after)
        /\ \A m : Refers(func, n + 1, m) <=>
             \/ Refers(func, n, m)
             \/ LookupMap(inst) # "" /\ LookupMap(inst) = m /\ method \in {"get", "get_mut"}
    BY <1>2, <1>3, <1>6, <2>1, <2>2, <2>4, OneInst, Zenon
  <2>9. \A m : m \in found <=>
          m \in maps \/ (LookupMap(inst) # "" /\ LookupMap(inst) = m /\ method \in {"get", "get_mut"})
    BY <2>4, Zenon
  <2>10. \A m : m \in found <=>
           \/ \E g \in DOMAIN funcs : g < f /\ Refers(funcs[g], Len(funcs[g]), m)
           \/ Refers(func, n + 1, m)
    BY <1>3, <2>8, <2>9, Zenon
  <2> QED
    BY <1>1, <1>3, <2>1, <2>7, <2>8, <2>10, Zenon DEF Scanned
<1> QED
  BY <1>7, <1>8, Zenon

\* At its end a scan has found the maps that the functions refer to.
LEMMA ScanEnds ==
  ASSUME NEW code \in Bitcodes, NEW scan \in Scans, Scanned(code.funcs, scan),
         ~(scan.func <= Len(code.funcs))
  PROVE  MisalignedGet(scan.maps) <=> RefToMisaligned(code)
<1>1. PICK funcs : funcs = code.funcs
  BY Zenon
<1>2. /\ Len(funcs) \in Nat /\ DOMAIN funcs = 1 .. Len(funcs)
      /\ \A f \in 1 .. Len(funcs) :
           Len(funcs[f]) \in Nat /\ DOMAIN funcs[f] = 1 .. Len(funcs[f])
  BY <1>1, FunctionsAre, Zenon
<1>3. \A f \in DOMAIN funcs : f < scan.func
  <2>1. scan.func \in 1 .. Len(funcs) + 1 /\ ~(scan.func <= Len(funcs))
    BY <1>1, Zenon DEF Scanned
  <2> QED
    BY <1>2, <2>1
<1>4. \A f \in DOMAIN funcs : \A j \in DOMAIN funcs[f] : j <= Len(funcs[f])
  BY <1>2
<1>5. \A m : m \in scan.maps <=> \E f \in DOMAIN funcs : Refers(funcs[f], Len(funcs[f]), m)
  BY <1>1, <1>3, Zenon DEF Scanned
<1>6. ASSUME MisalignedGet(scan.maps) PROVE RefToMisaligned(code)
  <2>1. PICK m \in scan.maps : MapAlign[m] > 8
    BY <1>6, Zenon DEF MisalignedGet
  <2>2. PICK f \in DOMAIN funcs : Refers(funcs[f], Len(funcs[f]), m)
    BY <1>5, <2>1, Zenon
  <2>3. PICK i, j \in DOMAIN funcs[f] : GetThenLookup(funcs[f], i, j) /\ LookupMap(funcs[f][j]) = m
    BY <2>2, Zenon DEF Refers
  <2>4. MapAlign[LookupMap(funcs[f][j])] > 8
    BY <2>1, <2>3, Zenon
  <2> QED
    BY <1>1, <2>3, <2>4, Zenon DEF RefToMisaligned
<1>7. ASSUME RefToMisaligned(code) PROVE MisalignedGet(scan.maps)
  <2>1. PICK f \in DOMAIN funcs :
          \E i, j \in DOMAIN funcs[f] :
            GetThenLookup(funcs[f], i, j) /\ MapAlign[LookupMap(funcs[f][j])] > 8
    BY <1>1, <1>7, Zenon DEF RefToMisaligned
  <2>2. PICK i, j \in DOMAIN funcs[f] :
          GetThenLookup(funcs[f], i, j) /\ MapAlign[LookupMap(funcs[f][j])] > 8
    BY <2>1, Zenon
  <2>3. Refers(funcs[f], Len(funcs[f]), LookupMap(funcs[f][j]))
    BY <1>4, <2>2, Zenon DEF Refers
  <2> QED
    BY <1>5, <2>2, <2>3, Zenon DEF MisalignedGet
<1> QED
  BY <1>6, <1>7, Zenon

\* A step of the scan keeps the invariant.
LEMMA ScanStep == ASSUME CargoInv, Scan PROVE CargoInv'
<1>1. PICK code, funcs, scan, next :
        /\ code = cmd.bc.code /\ funcs = code.funcs /\ scan = cmd.scan
        /\ next = IF scan.at = Len(funcs[scan.func])
                  THEN [scan EXCEPT !.func = @ + 1, !.at = 0, !.method = ""]
                  ELSE ScanInst(scan, funcs[scan.func][scan.at + 1])
  BY Zenon
<1>2. /\ cmd.pc = "scan" /\ UNCHANGED <<package, version, elfs, result>>
      /\ \/ scan.func > Len(funcs) /\ cmd' = [cmd EXCEPT !.pc = "emit"]
         \/ ~(scan.func > Len(funcs)) /\ cmd' = [cmd EXCEPT !.scan = next]
  BY <1>1, Zenon DEF Scan, Goes
<1>3. cmd.pc \in BuildPcs /\ cmd.pc # "next"
  BY <1>2, Zenon DEF BuildPcs
<1>4. cmd \in BuildCmd /\ scan \in Scans
  BY <1>1, <1>3, Lists, Zenon DEF BuildCmd
<1>5. /\ cmd.bc \in Bitcode /\ cmd.bc.ver >= cmd.since /\ Scanned(funcs, scan)
  BY <1>1, <1>2, <1>3, Zenon DEF CargoInv, BuildInv, Current
<1>6. code \in Bitcodes
  BY <1>1, <1>5, Zenon DEF Bitcode
<1>7. scan.func > Len(funcs) <=> ~(scan.func <= Len(funcs))
  <2>1. scan.func \in Nat /\ Len(funcs) \in Nat
    BY <1>1, <1>4, <1>6, FunctionsAre, Zenon DEF Scans
  <2> QED
    BY <2>1
<1>8. CASE scan.func > Len(funcs) /\ cmd' = [cmd EXCEPT !.pc = "emit"]
  <2>1. /\ cmd' \in BuildCmd /\ cmd'.pc = "emit" /\ cmd'.bc = cmd.bc /\ cmd'.scan = cmd.scan
        /\ cmd'.left = cmd.left /\ cmd'.all = cmd.all /\ cmd'.since = cmd.since
        /\ cmd'.cleared = cmd.cleared
    BY <1>4, <1>8, Zenon DEF BuildCmd, BuildPcs
  <2>2. MisalignedGet(scan.maps) <=> RefToMisaligned(code)
    BY <1>1, <1>4, <1>5, <1>6, <1>7, <1>8, ScanEnds, Zenon
  <2>3. MisalignedGet(cmd'.scan.maps) <=> RefToMisaligned(cmd'.bc.code)
    BY <1>1, <2>1, <2>2, Zenon
  <2> QED
    BY <1>2, <1>3, <1>5, <2>1, <2>3, GoesStep, Zenon
<1>9. CASE ~(scan.func > Len(funcs)) /\ cmd' = [cmd EXCEPT !.scan = next]
  <2>1. next \in Scans /\ Scanned(funcs, next)
    BY <1>1, <1>4, <1>5, <1>6, <1>7, <1>9, ScanGoesOn, Zenon
  <2>2. /\ cmd' \in BuildCmd /\ cmd'.pc = "scan" /\ cmd'.bc = cmd.bc /\ cmd'.scan = next
        /\ cmd'.left = cmd.left /\ cmd'.all = cmd.all /\ cmd'.since = cmd.since
        /\ cmd'.cleared = cmd.cleared
    BY <1>2, <1>4, <1>9, <2>1, Zenon DEF BuildCmd
  <2>3. Scanned(cmd'.bc.code.funcs, cmd'.scan)
    BY <1>1, <2>1, <2>2, Zenon
  <2> QED
    BY <1>2, <1>3, <1>5, <2>2, <2>3, GoesStep, Zenon
<1> QED
  BY <1>2, <1>8, <1>9, Zenon

\* The object gets the version of the bitcode it is made of.
LEMMA CompileStep ==
  ASSUME CargoInv, NEW outcome, Compile(outcome)
  PROVE  CargoInv'
<1>1. /\ cmd.pc = "emit" /\ UNCHANGED <<package, version, elfs>>
      /\ \/ Fails
         \/ /\ outcome = "Ok" /\ ~MisalignedGet(cmd.scan.maps)
            /\ cmd' = [cmd EXCEPT !.pc = "tc", !.tmp = CompileModule(cmd.bc, outcome)]
            /\ result' = result
  BY Zenon DEF Compile
<1>2. cmd.pc \in BuildPcs /\ cmd.pc # "next"
  BY <1>1, Zenon DEF BuildPcs
<1>3. CASE Fails
  BY <1>1, <1>2, <1>3, FailsStep, Zenon
<1>4. CASE /\ outcome = "Ok" /\ ~MisalignedGet(cmd.scan.maps)
           /\ cmd' = [cmd EXCEPT !.pc = "tc", !.tmp = CompileModule(cmd.bc, outcome)]
           /\ result' = result
  <2>1. cmd \in BuildCmd /\ cmd.since \in Nat
    BY <1>2, Lists, Zenon
  <2>2. cmd.bc \in Bitcode /\ cmd.bc.ver >= cmd.since /\ ~RefToMisaligned(cmd.bc.code)
    BY <1>1, <1>2, <1>4, Zenon DEF CargoInv, BuildInv, Current
  <2>3. PICK tmp : tmp = CompileModule(cmd.bc, outcome)
    BY Zenon
  <2>4. /\ tmp \in Elf /\ tmp.ver = cmd.bc.ver /\ tmp.code = cmd.bc.code
    BY <1>4, <2>2, <2>3, Zenon DEF CompileModule, Elf, Bitcode
  <2>5. tmp.whole = TRUE
    BY Zenon, <1>4, <2>3 DEF CompileModule
  <2>6. Checked(tmp)
    BY <2>2, <2>4, <2>5, Zenon DEF Checked
  <2>7. cmd' = [cmd EXCEPT !.pc = "tc", !.tmp = tmp]
    BY <1>4, <2>3, Zenon
  <2>8. /\ cmd' \in BuildCmd /\ cmd'.pc = "tc" /\ cmd'.tmp = tmp
        /\ cmd'.left = cmd.left /\ cmd'.all = cmd.all /\ cmd'.since = cmd.since
        /\ cmd'.cleared = cmd.cleared
    BY Zenon, <2>1, <2>4, <2>7 DEF BuildCmd, BuildPcs
  <2>9. cmd'.tmp.ver >= cmd'.since /\ Checked(cmd'.tmp) /\ cmd'.tmp \in Elf
    BY <2>2, <2>4, <2>6, <2>8, Zenon
  <2> QED
    BY <1>1, <1>2, <1>4, <2>8, <2>9, GoesStep, Zenon
<1> QED
  BY <1>1, <1>3, <1>4, Zenon

\* fix_tc changes the object of the program that is compiled, or ends the build.
LEMMA FixTcStep ==
  ASSUME CargoInv, NEW read, NEW outcome, FixTc(read, outcome)
  PROVE  CargoInv'
<1>1. PICK code : code = cmd.tmp.code
  BY Zenon
<1>2. PICK mark : mark = IF ~code.tc THEN "no" ELSE IF read THEN "fixed" ELSE "unread"
  BY Zenon
<1>3. /\ cmd.pc = "tc" /\ UNCHANGED <<package, version, elfs>>
      /\ \/ Fails
         \/ /\ ~(ContainsTc(code, read) /\ (outcome # "Ok" \/ BadTcReloc(code.relocs)))
            /\ cmd' = [cmd EXCEPT !.pc = "strip", !.tmp.tc = mark]
            /\ result' = result
  BY <1>1, <1>2, Zenon DEF FixTc
<1>4. cmd.pc \in BuildPcs /\ cmd.pc # "next"
  BY <1>3, Zenon DEF BuildPcs
<1>5. CASE Fails
  BY <1>3, <1>4, <1>5, FailsStep, Zenon
<1>6. CASE /\ ~(ContainsTc(code, read) /\ (outcome # "Ok" \/ BadTcReloc(code.relocs)))
           /\ cmd' = [cmd EXCEPT !.pc = "strip", !.tmp.tc = mark]
           /\ result' = result
  <2>1. cmd \in BuildCmd /\ cmd.since \in Nat
    BY <1>4, Lists, Zenon
  <2>2. cmd.tmp \in Elf /\ cmd.tmp.ver >= cmd.since /\ Checked(cmd.tmp)
    BY <1>3, <1>4, Zenon DEF CargoInv, BuildInv, Current
  <2>3. mark \in {"no", "fixed", "unread"}
    BY <1>2, Zenon
  <2>4. PICK tmp : tmp = [cmd.tmp EXCEPT !.tc = mark]
    BY Zenon
  <2>5. /\ tmp \in Elf /\ tmp.ver = cmd.tmp.ver /\ tmp.code = code /\ tmp.whole = cmd.tmp.whole
        /\ tmp.tc = mark
    BY <1>1, <2>2, <2>3, <2>4, Zenon DEF Elf
  <2>6. Checked(tmp)
    BY <1>1, <2>2, <2>5, Zenon DEF Checked
  <2>7. TcRight(tmp)
    <3>1. code.tc => mark \in {"fixed", "unread"}
      BY <1>2, Zenon
    <3> QED
      BY <2>5, <3>1, Zenon DEF TcRight
  <2>8. cmd' = [cmd EXCEPT !.pc = "strip", !.tmp = tmp]
    BY <1>6, <2>1, <2>4, Zenon DEF BuildCmd
  <2>9. /\ cmd' \in BuildCmd /\ cmd'.pc = "strip" /\ cmd'.tmp = tmp
        /\ cmd'.left = cmd.left /\ cmd'.all = cmd.all /\ cmd'.since = cmd.since
        /\ cmd'.cleared = cmd.cleared
    BY Zenon, <2>1, <2>5, <2>8 DEF BuildCmd, BuildPcs
  <2>10. cmd'.tmp.ver >= cmd'.since /\ Checked(cmd'.tmp) /\ cmd'.tmp \in Elf /\ TcRight(cmd'.tmp)
    BY <2>2, <2>5, <2>6, <2>7, <2>9, Zenon
  <2> QED
    BY <1>3, <1>4, <1>6, <2>9, <2>10, GoesStep, Zenon
<1> QED
  BY <1>3, <1>5, <1>6, Zenon

\* Debug sections are taken out of the object that is compiled.
LEMMA StripStep == ASSUME CargoInv, Strip PROVE CargoInv'
<1>1. /\ cmd.pc = "strip" /\ cmd' = [cmd EXCEPT !.pc = "rename"]
      /\ UNCHANGED <<package, version, elfs, result>>
  BY Zenon DEF Strip, Goes
<1>2. cmd.pc \in BuildPcs /\ cmd.pc # "next"
  BY <1>1, Zenon DEF BuildPcs
<1>3. cmd \in BuildCmd
  BY <1>2, Lists, Zenon
<1>4. cmd.tmp \in Elf /\ cmd.tmp.ver >= cmd.since /\ Checked(cmd.tmp) /\ TcRight(cmd.tmp)
  BY <1>1, <1>2, Zenon DEF CargoInv, BuildInv, Current
<1>5. /\ cmd' \in BuildCmd /\ cmd'.pc = "rename" /\ cmd'.tmp = cmd.tmp
      /\ cmd'.left = cmd.left /\ cmd'.all = cmd.all /\ cmd'.since = cmd.since
      /\ cmd'.cleared = cmd.cleared
  BY <1>1, <1>3, Zenon DEF BuildCmd, BuildPcs
<1>6. cmd'.tmp.ver >= cmd'.since /\ Checked(cmd'.tmp) /\ cmd'.tmp \in Elf /\ TcRight(cmd'.tmp)
  BY <1>4, <1>5, Zenon
<1> QED
  BY <1>1, <1>2, <1>5, <1>6, GoesStep, Zenon

-----------------------------------------------------------------------------
\* A build begins with all its programs left.
LEMMA BuildBegins ==
  ASSUME CargoInv, cmd = Idle, NEW probes \in Seq(Programs), IsInjective(probes),
         cmd' = [pc |-> "next", left |-> probes, all |-> probes,
                 since |-> version, cleared |-> TRUE,
                 bc |-> NoFile, scan |-> ScanStart, tmp |-> NoFile],
         result' = [res |-> "none"], UNCHANGED <<package, version, elfs>>
  PROVE  CargoInv'
<1>1. version \in Nat /\ Len(probes) \in Nat
  BY LenProperties, Zenon DEF CargoInv, BuildInv
<1>2. /\ cmd'.pc = "next" /\ cmd'.left = probes /\ cmd'.all = probes /\ cmd'.since = version
  BY Zenon
<1>3. cmd' \in BuildCmd
  BY <1>1, ScanBegins, Zenon DEF BuildCmd, BuildPcs
<1>4. CmdOK'
  BY <1>3, Zenon DEF CmdOK, BuildCmd, BuildPcs, Bitcode, Elf, NoFile, Scans, Methods, MapsOf
<1>5. AddInv'
  <2>1. cmd.pc \notin AddPcs /\ cmd'.pc \notin AddPcs
    BY <1>2, IdlePc, Zenon DEF AddPcs, Early
  <2>2. UNCHANGED <<manifest, libmods, modrs, mainrs, stopped, lost>>
    BY Zenon DEF package
  <2> QED
    BY <2>1, <2>2, AddFrame, Zenon DEF CargoInv
<1>6. Progress'
  <2>1. \A i \in 1 .. Len(probes) : probes[i] = probes[Len(probes) - Len(probes) + i]
    BY <1>1
  <2>2. Len(probes) <= Len(probes) /\ 1 .. Len(probes) - Len(probes) = {}
    BY <1>1
  <2> QED
    BY <1>2, <2>1, <2>2, Zenon DEF Progress
<1>7. result' \in Results /\ result'.res = "none" /\ BuildResultTrue'
  BY Zenon DEF Results, BuildResultTrue
<1>8. BuildInv'
  BY <1>1, <1>2, <1>6, <1>7 DEF CargoInv, BuildInv, Checked, TcRight
<1> QED
  BY <1>4, <1>5, <1>8, Zenon DEF CargoInv

\* probe_names of a manifest, and a single program, name nothing twice.
LEMMA BuildStarts ==
  ASSUME CargoInv, NEW named, named = <<>> \/ \E p \in Programs : named = <<p>>, Build(named)
  PROVE  CargoInv'
<1>1. PICK probes : probes = IF named = <<>> THEN ProbeNames ELSE named
  BY Zenon
<1>2. /\ cmd = Idle /\ UNCHANGED <<package, version, elfs>>
      /\ \/ /\ cmd' = [pc |-> "next", left |-> probes, all |-> probes,
                       since |-> version, cleared |-> TRUE,
                       bc |-> NoFile, scan |-> ScanStart, tmp |-> NoFile]
            /\ result' = [res |-> "none"]
         \/ cmd' = cmd /\ result' = [res |-> "Refused"]
  BY <1>1, Zenon DEF Build
<1>3. probes \in Seq(Programs) /\ IsInjective(probes)
  <2>1. CASE named = <<>>
    BY <1>1, <2>1, Zenon DEF CargoInv, AddInv, ProbeNames
  <2>2. ASSUME NEW p \in Programs, named = <<p>> PROVE probes \in Seq(Programs) /\ IsInjective(probes)
    <3>1. <<p>> \in Seq(Programs) /\ DOMAIN <<p>> = {1} /\ <<p>> # <<>>
      OBVIOUS
    <3>2. probes = <<p>>
      BY <1>1, <2>2, <3>1, Zenon
    <3> QED
      BY <3>1, <3>2, Zenon DEF IsInjective
  <2> QED
    BY <2>1, <2>2, Zenon
<1>4. CASE cmd' = cmd /\ result' = [res |-> "Refused"]
  <2>1. cmd.pc = "idle" /\ cmd'.pc = "idle"
    BY <1>2, <1>4, IdlePc, Zenon
  <2>2. UNCHANGED <<manifest, libmods, modrs, mainrs, stopped, lost>>
    BY <1>2, Zenon DEF package
  <2>3. CmdOK' /\ AddInv'
    BY <1>4, <2>1, <2>2, PcsApart, AddFrame, Zenon DEF CargoInv, CmdOK
  <2>4. result' \in Results /\ result'.res = "Refused" /\ BuildResultTrue'
    BY <1>4, Zenon DEF Results, BuildResultTrue
  <2>5. BuildInv'
    BY <1>2, <2>1, <2>4, PcsApart, Zenon DEF CargoInv, BuildInv, Checked, TcRight
  <2> QED
    BY <2>3, <2>5, Zenon DEF CargoInv
<1> QED
  BY <1>2, <1>3, <1>4, BuildBegins, Zenon

\* A build ends with Ok only when no program is left.
LEMMA BuildEndsStep == ASSUME CargoInv, BuildEnds PROVE CargoInv'
<1>1. /\ cmd.pc = "next" /\ cmd.left = <<>> /\ cmd' = Idle
      /\ result' = [res |-> "Ok", probes |-> cmd.all, since |-> cmd.since]
      /\ UNCHANGED <<manifest, libmods, modrs, mainrs, stopped, lost, version, elfs>>
  BY Zenon DEF BuildEnds, package
<1>2. cmd.pc \in BuildPcs
  BY <1>1, Zenon DEF BuildPcs
<1>3. /\ cmd.all \in Seq(Programs) /\ DOMAIN cmd.all = 1 .. Len(cmd.all) /\ cmd.since \in Nat
      /\ Len(cmd.all) \in Nat
  BY <1>2, Lists, Zenon
<1>4. Len(cmd.left) = 0
  BY <1>1, EmptySeq, Zenon
<1>5. \A i \in DOMAIN cmd.all : elfs[cmd.all[i]].ver >= cmd.since
  <2>1. \A i \in 1 .. Len(cmd.all) - Len(cmd.left) : elfs[cmd.all[i]].ver >= cmd.since
    BY Zenon, <1>2 DEF CargoInv, BuildInv, Progress
  <2> QED
    BY <1>3, <1>4, <2>1
<1>6. /\ result' \in Results /\ result'.res = "Ok" /\ result'.probes = cmd.all
      /\ result'.since = cmd.since
  BY <1>1, <1>3, Zenon DEF Results
<1>7. BuildResultTrue'
  BY <1>1, <1>5, <1>6, Zenon DEF BuildResultTrue
<1> QED
  BY <1>1, <1>2, <1>6, <1>7, EndStep, Zenon DEF CargoInv, BuildInv

\* A build that is killed leaves its files and returns nothing.
LEMMA BuildKilledStep == ASSUME CargoInv, BuildKilled PROVE CargoInv'
<1>1. /\ cmd.pc \in BuildPcs /\ cmd' = Idle
      /\ UNCHANGED <<manifest, libmods, modrs, mainrs, stopped, lost, version, elfs, result>>
  BY Zenon DEF BuildKilled, package, BuildPcs
<1>2. BuildResultTrue'
  BY <1>1, Zenon DEF CargoInv, BuildInv, BuildResultTrue
<1> QED
  BY <1>1, <1>2, EndStep, Zenon DEF CargoInv, BuildInv

\* The program that is next is none of those that are done.
LEMMA NotDone ==
  ASSUME CargoInv, cmd.pc \in BuildPcs, cmd.left # <<>>
  PROVE  \A i \in 1 .. Len(cmd.all) - Len(cmd.left) :
           cmd.all[i] \in Programs /\ cmd.all[i] # cmd.left[1]
<1>1. PICK left, all, n, m : left = cmd.left /\ all = cmd.all /\ n = Len(cmd.all) /\ m = Len(cmd.left)
  BY Zenon
<1>2. /\ all \in Seq(Programs) /\ n \in Nat /\ m \in Nat /\ m > 0 /\ m <= n
      /\ DOMAIN all = 1 .. n /\ left[1] = all[n - m + 1] /\ IsInjective(all)
  <2>1. /\ all \in Seq(Programs) /\ n \in Nat /\ m \in Nat /\ m > 0 /\ DOMAIN all = 1 .. n
    BY <1>1, Lists, Zenon
  <2>2. Progress
    BY Zenon DEF CargoInv, BuildInv
  <2>3. m <= n /\ IsInjective(all) /\ \A i \in 1 .. m : left[i] = all[n - m + i]
    BY Zenon, <1>1, <2>2 DEF Progress
  <2> QED
    BY <2>1, <2>3
<1>3. ASSUME NEW i \in 1 .. n - m PROVE all[i] \in Programs /\ all[i] # left[1]
  <2>1. i \in 1 .. n /\ n - m + 1 \in 1 .. n /\ i # n - m + 1
    BY <1>2
  <2>2. all[i] \in Programs
    BY <1>1, <1>2, <2>1, ElementOfSeq, Zenon
  <2> QED
    BY <1>2, <2>1, <2>2, Zenon DEF IsInjective
<1> QED
  BY <1>1, <1>3, Zenon

\* The old directory goes, or stays when it cannot be removed.
LEMMA PrepareStep ==
  ASSUME CargoInv, NEW kept \in BOOLEAN, NEW ok, Prepare(kept, ok)
  PROVE  CargoInv'
<1>1. /\ cmd.pc = "next" /\ cmd.left # <<>>
      /\ elfs' = [elfs EXCEPT ![Head(cmd.left)] = IF kept THEN elfs[Head(cmd.left)] ELSE NoFile]
      /\ UNCHANGED <<manifest, libmods, modrs, mainrs, stopped, lost, version>>
      /\ \/ cmd' = [cmd EXCEPT !.pc = "llvm", !.cleared = ~kept] /\ result' = result
         \/ cmd' = Idle /\ result' = [res |-> "Err", at |-> Head(cmd.left), cleared |-> ~kept]
  BY Zenon DEF Prepare, Cur, package
<1>2. cmd.pc \in BuildPcs
  BY <1>1, Zenon DEF BuildPcs
<1>3. PICK at : at = cmd.left[1]
  BY Zenon
<1>4. at \in Programs /\ Head(cmd.left) = at
  BY <1>1, <1>2, <1>3, Lists, Zenon
<1>5. elfs \in [Programs -> {NoFile} \cup Elf]
  BY Zenon DEF CargoInv, BuildInv
<1>6. /\ elfs' \in [Programs -> {NoFile} \cup Elf]
      /\ kept = FALSE => elfs'[at] = NoFile
      /\ \A p \in Programs : elfs'[p] = elfs[p] \/ elfs'[p] = NoFile
      /\ \A p \in Programs : p # at => elfs'[p] = elfs[p]
  <2>1. elfs' = [elfs EXCEPT ![at] = IF kept THEN elfs[at] ELSE NoFile]
    BY Zenon, <1>1, <1>4
  <2>2. CASE kept = TRUE
    BY <1>4, <1>5, <2>1, <2>2, Zenon
  <2>3. CASE kept = FALSE
    BY <1>4, <1>5, <2>1, <2>3, Zenon
  <2> QED
    BY Zenon, <2>2, <2>3
<1>7. \A p \in Programs : elfs'[p] # NoFile => Checked(elfs'[p]) /\ TcRight(elfs'[p])
  BY <1>6, Zenon DEF CargoInv, BuildInv
<1>8. CASE cmd' = Idle /\ result' = [res |-> "Err", at |-> Head(cmd.left), cleared |-> ~kept]
  <2>1. PICK c \in BOOLEAN : c = ~kept
    BY Zenon
  <2>2. result' = [res |-> "Err", at |-> at, cleared |-> c]
    BY <1>4, <1>8, <2>1, Zenon
  <2>3. result' \in Results
    BY <1>4, <2>2, Zenon DEF Results
  <2>4. result'.res = "Err" /\ result'.at = at /\ result'.cleared = c
    BY <2>2, Zenon
  <2>5. c => elfs'[at] = NoFile
    BY Zenon, <1>6, <2>1
  <2>6. BuildResultTrue'
    BY <2>4, <2>5, Zenon DEF BuildResultTrue
  <2> QED
    BY <1>1, <1>2, <1>6, <1>7, <1>8, <2>3, <2>6, EndStep, Zenon
<1>9. CASE cmd' = [cmd EXCEPT !.pc = "llvm", !.cleared = ~kept] /\ result' = result
  <2>1. PICK c \in BOOLEAN : c = ~kept
    BY Zenon
  <2>2. cmd' = [cmd EXCEPT !.pc = "llvm", !.cleared = c]
    BY <1>9, <2>1, Zenon
  <2>3. /\ cmd' \in BuildCmd /\ cmd'.pc = "llvm" /\ cmd'.cleared = c
        /\ cmd'.left = cmd.left /\ cmd'.all = cmd.all /\ cmd'.since = cmd.since
    <3>1. cmd \in BuildCmd
      BY <1>2, Lists, Zenon
    <3> QED
      BY Zenon, <2>2, <3>1 DEF BuildCmd, BuildPcs
  <2>4. CmdOK'
    BY <2>3, Zenon DEF CmdOK, BuildCmd, BuildPcs, Bitcode, Elf, NoFile, Scans, Methods, MapsOf
  <2>5. AddInv'
    <3>1. cmd'.pc \notin AddPcs
      BY <2>3, Zenon DEF AddPcs, Early
    <3> QED
      BY <1>1, <1>2, <3>1, PcsApart, AddFrame, Zenon DEF CargoInv
  <2>6. Progress /\ result.res = "none" /\ cmd.since <= version
    BY <1>2, Zenon DEF CargoInv, BuildInv
  <2>7. Progress'
    <3>1. \A i \in 1 .. Len(cmd.all) - Len(cmd.left) : elfs'[cmd.all[i]] = elfs[cmd.all[i]]
      BY Zenon, <1>1, <1>2, <1>3, <1>6, NotDone
    <3> QED
      BY Zenon, <2>3, <2>6, <3>1 DEF Progress
  <2>8. Current'
    <3>1. c = TRUE => elfs'[cmd.left[1]] = NoFile
      BY Zenon, <1>3, <1>6, <2>1
    <3> QED
      BY <1>1, <2>3, <3>1, Zenon DEF Current
  <2>9. BuildResultTrue'
    BY <1>9, <2>6, Zenon DEF BuildResultTrue
  <2>10. BuildInv'
    BY Zenon, <1>1, <1>6, <1>7, <1>9, <2>3, <2>6, <2>7, <2>8, <2>9 DEF CargoInv, BuildInv, Checked, TcRight
  <2> QED
    BY <2>4, <2>5, <2>10, Zenon DEF CargoInv
<1> QED
  BY <1>1, <1>8, <1>9, Zenon

\* The object gets its final name, and the next program has its turn.
LEMMA RenameStep ==
  ASSUME CargoInv, NEW ok, Rename(ok)
  PROVE  CargoInv'
<1>1. /\ cmd.pc = "rename" /\ UNCHANGED <<package, version>>
      /\ \/ Fails /\ elfs' = elfs
         \/ elfs' = [elfs EXCEPT ![Head(cmd.left)] = cmd.tmp] /\ NextProbe /\ result' = result
  BY Zenon DEF Rename, Cur
<1>2. cmd.pc \in BuildPcs /\ cmd.pc # "next"
  BY <1>1, Zenon DEF BuildPcs
<1>3. CASE Fails /\ elfs' = elfs
  BY <1>1, <1>2, <1>3, FailsStep, Zenon
<1>4. CASE elfs' = [elfs EXCEPT ![Head(cmd.left)] = cmd.tmp] /\ NextProbe /\ result' = result
  <2>1. /\ Progress /\ Current /\ result.res = "none" /\ cmd.since <= version
        /\ elfs \in [Programs -> {NoFile} \cup Elf]
    BY <1>2, Zenon DEF CargoInv, BuildInv
  <2>2. /\ cmd.left # <<>> /\ cmd.tmp \in Elf /\ cmd.tmp.ver >= cmd.since
        /\ Checked(cmd.tmp) /\ TcRight(cmd.tmp)
    BY <1>1, <2>1, Zenon DEF Current
  <2>3. PICK at, left, all, n, m, rest :
          /\ at = cmd.left[1] /\ left = cmd.left /\ all = cmd.all
          /\ n = Len(cmd.all) /\ m = Len(cmd.left) /\ rest = Tail(cmd.left)
    BY Zenon
  <2>4. /\ at \in Programs /\ Head(cmd.left) = at
        /\ left \in Seq(Programs) /\ n \in Nat /\ m \in Nat /\ m > 0
    BY <1>2, <2>2, <2>3, Lists, Zenon
  <2>5. /\ rest \in Seq(Programs) /\ Len(rest) = m - 1
        /\ \A i \in 1 .. m - 1 : rest[i] = left[i + 1]
    BY <2>2, <2>3, <2>4, HeadTailProperties, Zenon
  <2>6. /\ elfs' \in [Programs -> {NoFile} \cup Elf] /\ elfs'[at] = cmd.tmp
        /\ \A p \in Programs : p # at => elfs'[p] = elfs[p]
    <3>1. elfs' = [elfs EXCEPT ![at] = cmd.tmp]
      BY Zenon, <1>4, <2>4
    <3> QED
      BY <2>1, <2>2, <2>4, <3>1, Zenon
  <2>7. \A p \in Programs : elfs'[p] # NoFile => Checked(elfs'[p]) /\ TcRight(elfs'[p])
    BY <2>2, <2>6, Zenon DEF CargoInv, BuildInv
  <2>8. /\ cmd' \in BuildCmd /\ cmd'.pc = "next" /\ cmd'.left = rest
        /\ cmd'.all = all /\ cmd'.since = cmd.since
    <3>1. cmd \in BuildCmd
      BY <1>2, Lists, Zenon
    <3>2. cmd' = [cmd EXCEPT !.pc = "next", !.left = rest,
                               !.bc = NoFile, !.scan = ScanStart, !.tmp = NoFile]
      BY <1>4, <2>3, <3>1, Zenon DEF NextProbe, BuildCmd
    <3> QED
      BY Zenon, <2>3, <2>5, <3>1, <3>2, ScanBegins DEF BuildCmd, BuildPcs
  <2>9. CmdOK'
    BY <2>8, Zenon DEF CmdOK, BuildCmd, BuildPcs, Bitcode, Elf, NoFile, Scans, Methods, MapsOf
  <2>10. AddInv'
    <3>1. cmd'.pc \notin AddPcs
      BY <2>8, Zenon DEF AddPcs, Early
    <3>2. UNCHANGED <<manifest, libmods, modrs, mainrs, stopped, lost>>
      BY <1>1, Zenon DEF package
    <3> QED
      BY <1>2, <3>1, <3>2, PcsApart, AddFrame, Zenon DEF CargoInv
  <2>11. Progress'
    <3>1. /\ IsInjective(all) /\ m <= n /\ \A i \in 1 .. m : left[i] = all[n - m + i]
          /\ \A i \in 1 .. n - m : elfs[all[i]].ver >= cmd.since
      BY Zenon, <2>1, <2>3 DEF Progress
    <3>2. \A i \in 1 .. n - m : all[i] \in Programs /\ all[i] # at
      BY <1>2, <2>2, <2>3, NotDone, Zenon
    <3>3. \A i \in 1 .. m - 1 : rest[i] = all[n - (m - 1) + i]
      <4>1. ASSUME NEW i \in 1 .. m - 1 PROVE rest[i] = all[n - (m - 1) + i]
        <5>1. i + 1 \in 1 .. m /\ n - (m - 1) + i = n - m + (i + 1)
          BY <2>4
        <5> QED
          BY <2>5, <3>1, <5>1, Zenon
      <4> QED
        BY <4>1, Zenon
    <3>4. \A i \in 1 .. n - (m - 1) : elfs'[all[i]].ver >= cmd.since
      <4>1. ASSUME NEW i \in 1 .. n - (m - 1) PROVE elfs'[all[i]].ver >= cmd.since
        <5>1. i \in 1 .. n - m \/ i = n - m + 1
          BY <2>4
        <5>2. CASE i \in 1 .. n - m
          BY <2>6, <3>1, <3>2, <5>2, Zenon
        <5>3. CASE i = n - m + 1
          <6>1. all[i] = at
            <7>1. 1 \in 1 .. m
              BY <2>4
            <7>2. left[1] = all[n - m + 1]
              BY <3>1, <7>1, Zenon
            <7> QED
              BY <2>3, <5>3, <7>2, Zenon
          <6> QED
            BY <2>2, <2>6, <6>1, Zenon
        <5> QED
          BY <5>1, <5>2, <5>3, Zenon
      <4> QED
        BY <4>1, Zenon
    <3>5. m - 1 <= n
      BY <2>4, <3>1
    <3>6. /\ cmd'.left = rest /\ cmd'.all = all /\ cmd'.since = cmd.since
          /\ Len(cmd'.left) = m - 1 /\ Len(cmd'.all) = n
      BY <2>3, <2>5, <2>8, Zenon
    <3> QED
      BY <3>1, <3>3, <3>4, <3>5, <3>6, Zenon DEF Progress
  <2>12. BuildResultTrue'
    BY <1>4, <2>1, Zenon DEF BuildResultTrue
  <2>13. BuildInv'
    BY <1>1, <1>4, <2>1, <2>6, <2>7, <2>8, <2>11, <2>12, Zenon DEF CargoInv, BuildInv, Checked, TcRight
  <2> QED
    BY <2>9, <2>10, <2>13, Zenon DEF CargoInv
<1> QED
  BY <1>1, <1>3, <1>4, Zenon

-----------------------------------------------------------------------------
\* Every step keeps the invariant.
LEMMA CargoStep == CargoInv /\ [Next]_vars => CargoInv'
<1> SUFFICES ASSUME CargoInv, [Next]_vars PROVE CargoInv'
  BY Zenon
<1>1. CASE UNCHANGED vars
  <2> USE <1>1 DEF vars
  <2>1. CmdOK'
    BY Zenon DEF CargoInv, CmdOK
  <2>2. AddInv'
    BY Zenon DEF CargoInv, AddInv, InStep, Targets, HasFile
  <2>3. BuildInv'
    BY Zenon DEF CargoInv, BuildInv, BuildResultTrue, Checked, TcRight, Results, Progress, Current
  <2> QED
    BY <2>1, <2>2, <2>3, Zenon DEF CargoInv
<1>2. ASSUME NEW named, named = <<>> \/ \E p \in Programs : named = <<p>>, Build(named)
      PROVE  CargoInv'
  BY <1>2, BuildStarts, Zenon
<1> QED
  BY <1>1, <1>2, NewStep, AddStep, AddTomlStep, AddLibStep, AddSourceStep, StopsStep, EditStep,
     LoadModuleStep, ScanStep, BuildEndsStep, BuildKilledStep, PrepareStep, CheckLLVMStep, CargoRustcStep, CompileStep,
     FixTcStep, StripStep, RenameStep, Zenon DEF Next

\* The invariant holds in every state of every behaviour.
LEMMA CargoAlways == Spec => []CargoInv
  BY CargoStart, CargoStep, PTL DEF Spec

\* What a build returns is true of the files: Ok means an ELF file of sources at
\* least as new as the build for every program, and an error means that no file
\* of an earlier build stands in for the program that failed.
THEOREM BuildsTellTheTruth == Spec => []BuildResultTrue
<1>1. CargoInv => BuildResultTrue
  BY Zenon DEF CargoInv, BuildInv
<1> QED
  BY <1>1, CargoAlways, PTL

\* Whatever stops, and wherever: as long as every new and add has come to its
\* end, the library compiles after each of them; no mod.rs or main.rs is ever
\* without its module in lib.rs, and only a write of Cargo.toml that was cut off
\* leaves one without its target.
THEOREM AddsAgree == Spec => []AddsConsistent
<1>1. CargoInv => AddsConsistent
  <2> SUFFICES ASSUME CargoInv PROVE AddsConsistent
    BY Zenon
  <2>1. ASSUME cmd = Idle, stopped = 0, \A p \in Range(manifest) : IdentOf[p] = p
        PROVE  LibCompiles({"whole"})
    <3>1. cmd.pc \notin AddPcs /\ Targets = manifest
      BY <2>1, IdlePc, PcsApart, TargetsIdle, Zenon
    <3>2. /\ Len(libmods) = Len(manifest)
          /\ \A i \in 1 .. Len(libmods) : libmods[i] = IdentOf[manifest[i]]
          /\ \A i \in 1 .. Len(manifest) : modrs[manifest[i]] = "whole"
      BY <2>1, <3>1, PcsApart, Zenon DEF CargoInv, AddInv, InStep
    <3>3. /\ DOMAIN libmods = 1 .. Len(manifest) /\ DOMAIN manifest = 1 .. Len(manifest)
          /\ \A i \in 1 .. Len(manifest) : manifest[i] \in Programs
      <4>1. manifest \in Seq(Programs) /\ libmods \in Seq(Mods)
        BY Zenon DEF CargoInv, AddInv
      <4> QED
        BY <3>2, <4>1, LenProperties, ElementOfSeq, Zenon
    <3>4. \A i \in 1 .. Len(manifest) : libmods[i] = manifest[i]
      <4>1. \A i \in 1 .. Len(manifest) : manifest[i] \in Range(manifest)
        BY <3>3, Zenon DEF Range
      <4> QED
        BY <2>1, <3>2, <4>1, Zenon
    <3>5. IsInjective(libmods)
      BY <3>3, <3>4, Zenon DEF CargoInv, AddInv, IsInjective
    <3>6. ASSUME NEW m \in Range(libmods)
          PROVE  \E p \in Programs : p = m /\ modrs[p] \in {"whole"}
      <4>1. PICK i \in 1 .. Len(manifest) : m = libmods[i]
        BY <3>3, Zenon DEF Range
      <4> QED
        BY <3>2, <3>3, <3>4, <4>1, Zenon
    <3> QED
      BY <3>5, <3>6, Zenon DEF LibCompiles
  <2>2. IsInjective(manifest)
    BY Zenon DEF CargoInv, AddInv
  <2>3. ASSUME NEW p \in Programs, modrs[p] # "none" \/ mainrs[p] # "none"
        PROVE  /\ IdentOf[p] \in Range(libmods)
               /\ \/ p \in Range(manifest) \cup lost
                  \/ cmd.pc = "toml" /\ p \in Range(cmd.new)
    <3>1. IdentOf[p] \in Range(libmods) /\ p \in Range(Targets) \cup lost
      BY <2>3, Zenon DEF CargoInv, AddInv, HasFile
    <3> QED
      BY <3>1, Zenon DEF Targets
  <2> QED
    BY <2>1, <2>2, <2>3, Zenon DEF AddsConsistent
<1> QED
  BY <1>1, CargoAlways, PTL

\* Every file <probe>.elf is whole and has passed the checks, whenever builds
\* fail or are killed, and for functions of any instructions in any order the
\* scan refuses exactly those with a reference to a misaligned value.
THEOREM ElfsChecked == Spec => []ElfsSound
<1>1. CargoInv => ElfsSound
  <2> SUFFICES ASSUME CargoInv PROVE ElfsSound
    BY Zenon
  <2>1. ASSUME NEW p \in Programs, elfs[p].ver # None
        PROVE  /\ elfs[p].whole /\ ~RefToMisaligned(elfs[p].code)
               /\ elfs[p].code.tc => elfs[p].tc \in {"fixed", "unread"}
    <3>1. elfs[p] # NoFile
      BY <2>1 DEF NoFile
    <3>2. Checked(elfs[p]) /\ TcRight(elfs[p])
      BY <3>1, Zenon DEF CargoInv, BuildInv
    <3> QED
      BY <3>2, Zenon DEF Checked, TcRight
  <2>2. cmd.pc = "emit" => (MisalignedGet(cmd.scan.maps) <=> RefToMisaligned(cmd.bc.code))
    BY Zenon DEF CargoInv, BuildInv, BuildPcs, Current
  <2> QED
    BY <2>1, <2>2, Zenon DEF ElfsSound
<1> QED
  BY <1>1, CargoAlways, PTL

-----------------------------------------------------------------------------
(* Sequences of batches                                                    *)

Batch == Buffers \X Seq(Nat)
Elems(r) == {r[k] : k \in DOMAIN r}
Increasing(r) == \A k, l \in DOMAIN r : k < l => r[k] < r[l]

\* The records of a buffer in a sequence of batches.
LEMMA RecordsOfFact ==
  ASSUME NEW b, NEW s, NEW x
  PROVE  x \in RecordsOf(b, s)
           <=> \E i \in DOMAIN s : s[i][1] = b /\ \E k \in DOMAIN s[i][2] : x = s[i][2][k]
  BY DEF RecordsOf

\* A batch of another buffer changes nothing.
LEMMA AppendOther ==
  ASSUME NEW s \in Seq(Batch), NEW b \in Buffers, NEW c \in Buffers, c # b, NEW r \in Seq(Nat),
         InOrder(b, s)
  PROVE  /\ InOrder(b, Append(s, <<c, r>>))
         /\ RecordsOf(b, Append(s, <<c, r>>)) = RecordsOf(b, s)
<1> DEFINE t == Append(s, <<c, r>>)
<1>1. /\ Len(s) \in Nat /\ DOMAIN s = 1 .. Len(s) /\ DOMAIN t = 1 .. Len(s) + 1
      /\ \A i \in DOMAIN s : t[i] = s[i]
      /\ t[Len(s) + 1] = <<c, r>>
  <2>1. <<c, r>> \in Batch
    BY Zenon DEF Batch
  <2> QED
    BY <2>1, AppendProperties, LenProperties
<1> HIDE DEF t
<1>2. \A i \in DOMAIN t : t[i][1] = b => i \in DOMAIN s
  BY <1>1
<1>3. \A i \in DOMAIN s : i \in DOMAIN t
  BY <1>1
<1>4. InOrder(b, t)
  BY <1>1, <1>2, Zenon DEF InOrder
<1>5. ASSUME NEW x
      PROVE  x \in RecordsOf(b, t) <=> x \in RecordsOf(b, s)
  <2>1. ASSUME x \in RecordsOf(b, t)
        PROVE  x \in RecordsOf(b, s)
    <3>1. PICK i \in DOMAIN t : t[i][1] = b /\ \E k \in DOMAIN t[i][2] : x = t[i][2][k]
      BY <2>1, RecordsOfFact
    <3>2. i \in DOMAIN s /\ t[i] = s[i]
      BY <1>1, <1>2, <3>1, Zenon
    <3> QED
      BY <3>1, <3>2, RecordsOfFact
  <2>2. ASSUME x \in RecordsOf(b, s)
        PROVE  x \in RecordsOf(b, t)
    <3>1. PICK i \in DOMAIN s : s[i][1] = b /\ \E k \in DOMAIN s[i][2] : x = s[i][2][k]
      BY <2>2, RecordsOfFact
    <3>2. i \in DOMAIN t /\ t[i] = s[i]
      BY <1>1, <1>3, Zenon
    <3> QED
      BY <3>1, <3>2, RecordsOfFact
  <2> QED
    BY <2>1, <2>2, Zenon
<1>6. RecordsOf(b, t) = RecordsOf(b, s)
  BY Zenon, <1>5
<1> QED
  BY <1>4, <1>6, Zenon DEF t

\* A batch of later records of the buffer adds them.
LEMMA AppendSame ==
  ASSUME NEW s \in Seq(Batch), NEW b \in Buffers, NEW r \in Seq(Nat),
         InOrder(b, s), Increasing(r),
         \A x \in RecordsOf(b, s) : \A k \in DOMAIN r : x < r[k]
  PROVE  /\ InOrder(b, Append(s, <<b, r>>))
         /\ RecordsOf(b, Append(s, <<b, r>>)) = RecordsOf(b, s) \cup Elems(r)
<1> DEFINE t == Append(s, <<b, r>>)
           n == Len(s) + 1
<1>1. /\ Len(s) \in Nat /\ DOMAIN s = 1 .. Len(s) /\ DOMAIN t = 1 .. n
      /\ \A i \in DOMAIN s : t[i] = s[i]
      /\ t[n] = <<b, r>>
  <2>1. <<b, r>> \in Batch
    BY Zenon DEF Batch
  <2> QED
    BY <2>1, AppendProperties, LenProperties
<1> HIDE DEF t
<1>2. \A i \in DOMAIN t : i \in DOMAIN s \/ i = n
  BY <1>1
<1>3. n \in DOMAIN t /\ n \notin DOMAIN s /\ (\A i \in DOMAIN s : i \in DOMAIN t /\ i < n)
  BY <1>1
<1>4. t[n][1] = b /\ t[n][2] = r
  BY <1>1
<1> HIDE DEF n
<1>5. ASSUME NEW i \in DOMAIN t, NEW j \in DOMAIN t, t[i][1] = b, t[j][1] = b,
             NEW k \in DOMAIN t[i][2], NEW l \in DOMAIN t[j][2], i < j \/ (i = j /\ k < l)
      PROVE  t[i][2][k] < t[j][2][l]
  <2>1. CASE j \in DOMAIN s
    <3>1. i \in DOMAIN s
      BY <1>1, <1>2, <1>3, <1>5, <2>1
    <3> QED
      BY <1>1, <1>5, <2>1, <3>1, Zenon DEF InOrder
  <2>2. CASE j = n /\ i = n
    <3>1. k < l
      BY <1>1, <1>5, <2>2 DEF n
    <3> QED
      BY <1>4, <1>5, <2>2, <3>1, Zenon DEF Increasing
  <2>3. CASE j = n /\ i \in DOMAIN s
    <3>1. t[i][2][k] \in RecordsOf(b, s)
      <4>1. t[i] = s[i]
        BY <1>1, <2>3, Zenon
      <4> QED
        BY <1>5, <2>3, <4>1, RecordsOfFact, Zenon
    <3> QED
      BY <1>4, <1>5, <2>3, <3>1, Zenon
  <2> QED
    BY <1>2, <2>1, <2>2, <2>3, Zenon
<1>6. InOrder(b, t)
  BY <1>5, Zenon DEF InOrder
<1>7. RecordsOf(b, t) = RecordsOf(b, s) \cup Elems(r)
  <2>1. ASSUME NEW x \in RecordsOf(b, t)
        PROVE  x \in RecordsOf(b, s) \cup Elems(r)
    <3>1. PICK i \in DOMAIN t : t[i][1] = b /\ \E k \in DOMAIN t[i][2] : x = t[i][2][k]
      BY <2>1, Zenon DEF RecordsOf
    <3>2. CASE i \in DOMAIN s
      BY <1>1, <3>1, <3>2 DEF RecordsOf
    <3>3. CASE i = n
      BY <1>4, <3>1, <3>3, Zenon DEF Elems
    <3> QED
      BY <1>2, <3>2, <3>3, Zenon
  <2>2. ASSUME NEW x \in RecordsOf(b, s)
        PROVE  x \in RecordsOf(b, t)
    <3>1. PICK i \in DOMAIN s : s[i][1] = b /\ \E k \in DOMAIN s[i][2] : x = s[i][2][k]
      BY <2>2, Zenon DEF RecordsOf
    <3> QED
      BY <1>1, <1>3, <3>1 DEF RecordsOf
  <2>3. ASSUME NEW x \in Elems(r)
        PROVE  x \in RecordsOf(b, t)
    BY <1>3, <1>4, <2>3 DEF RecordsOf, Elems
  <2> QED
    BY <2>1, <2>2, <2>3, Zenon
<1> QED
  BY Zenon, <1>6, <1>7 DEF t

\* Sending adds a batch to the whole.
LEMMA AppendBatch ==
  ASSUME NEW s \in Seq(Batch), NEW t \in Seq(Batch), NEW x \in Batch
  PROVE  s \o Append(t, x) = Append(s \o t, x)
<1>1. Len(s) \in Nat /\ Len(t) \in Nat
  BY LenProperties, Zenon
<1>2. /\ Append(t, x) \in Seq(Batch) /\ Len(Append(t, x)) = Len(t) + 1
      /\ \A i \in 1 .. Len(t) : Append(t, x)[i] = t[i]
      /\ Append(t, x)[Len(t) + 1] = x
  BY AppendProperties
<1>3. /\ s \o t \in Seq(Batch) /\ Len(s \o t) = Len(s) + Len(t)
      /\ \A i \in 1 .. Len(s) + Len(t) : (s \o t)[i] = IF i <= Len(s) THEN s[i] ELSE t[i - Len(s)]
  BY ConcatProperties, Zenon
<1>4. /\ Append(s \o t, x) \in Seq(Batch) /\ Len(Append(s \o t, x)) = Len(s) + Len(t) + 1
      /\ \A i \in 1 .. Len(s) + Len(t) : Append(s \o t, x)[i] = (s \o t)[i]
      /\ Append(s \o t, x)[Len(s) + Len(t) + 1] = x
  BY <1>3, AppendProperties
<1>5. /\ s \o Append(t, x) \in Seq(Batch) /\ Len(s \o Append(t, x)) = Len(s) + Len(t) + 1
      /\ \A i \in 1 .. Len(s) + Len(t) + 1 :
           (s \o Append(t, x))[i] = IF i <= Len(s) THEN s[i] ELSE Append(t, x)[i - Len(s)]
  <2>1. /\ s \o Append(t, x) \in Seq(Batch)
        /\ Len(s \o Append(t, x)) = Len(s) + Len(Append(t, x))
        /\ \A i \in 1 .. Len(s) + Len(Append(t, x)) :
             (s \o Append(t, x))[i] = IF i <= Len(s) THEN s[i] ELSE Append(t, x)[i - Len(s)]
    BY <1>2, ConcatProperties, Zenon
  <2>2. Len(s) + Len(Append(t, x)) = Len(s) + Len(t) + 1
    BY <1>1, <1>2
  <2> QED
    BY <2>1, <2>2, Zenon
<1>6. ASSUME NEW i \in 1 .. Len(s) + Len(t) + 1
      PROVE  (s \o Append(t, x))[i] = Append(s \o t, x)[i]
  <2>1. CASE i <= Len(s)
    <3>1. i \in 1 .. Len(s) + Len(t)
      BY <1>1, <2>1
    <3> QED
      BY <1>3, <1>4, <1>5, <2>1, <3>1, Zenon
  <2>2. CASE i > Len(s) /\ i <= Len(s) + Len(t)
    <3>1. i \in 1 .. Len(s) + Len(t) /\ i - Len(s) \in 1 .. Len(t) /\ ~(i <= Len(s))
      BY <1>1, <2>2
    <3> QED
      BY <1>2, <1>3, <1>4, <1>5, <3>1, Zenon
  <2>3. CASE i = Len(s) + Len(t) + 1
    <3>1. i - Len(s) = Len(t) + 1 /\ ~(i <= Len(s))
      BY <1>1, <2>3
    <3> QED
      BY <1>2, <1>4, <1>5, <2>3, <3>1, Zenon
  <2>4. i <= Len(s) \/ (i > Len(s) /\ i <= Len(s) + Len(t)) \/ i = Len(s) + Len(t) + 1
    BY <1>1
  <2> QED
    BY <2>1, <2>2, <2>3, <2>4, Zenon
<1> QED
  BY <1>4, <1>5, <1>6, SeqEqual, Zenon

\* Receiving takes nothing out of the whole.
LEMMA ReceiveWhole ==
  ASSUME NEW s \in Seq(Batch), NEW t \in Seq(Batch), t # <<>>
  PROVE  Append(s, Head(t)) \o Tail(t) = s \o t
<1>1. /\ Len(s) \in Nat /\ Len(t) \in Nat \ {0}
      /\ Head(t) = t[1] /\ Head(t) \in Batch
      /\ Tail(t) \in Seq(Batch) /\ Len(Tail(t)) = Len(t) - 1
      /\ \A i \in 1 .. Len(Tail(t)) : Tail(t)[i] = t[i + 1]
  BY HeadTailProperties, EmptySeq, LenProperties
<1> DEFINE a == Append(s, Head(t))
<1>2. /\ a \in Seq(Batch) /\ Len(a) = Len(s) + 1
      /\ \A i \in 1 .. Len(s) : a[i] = s[i]
      /\ a[Len(s) + 1] = t[1]
  BY <1>1, AppendProperties
<1> HIDE DEF a
<1>3. /\ a \o Tail(t) \in Seq(Batch) /\ Len(a \o Tail(t)) = Len(s) + Len(t)
      /\ \A i \in 1 .. Len(s) + Len(t) :
           (a \o Tail(t))[i] = IF i <= Len(s) + 1 THEN a[i] ELSE Tail(t)[i - (Len(s) + 1)]
  <2>1. /\ a \o Tail(t) \in Seq(Batch) /\ Len(a \o Tail(t)) = Len(a) + Len(Tail(t))
        /\ \A i \in 1 .. Len(a) + Len(Tail(t)) :
             (a \o Tail(t))[i] = IF i <= Len(a) THEN a[i] ELSE Tail(t)[i - Len(a)]
    <3>1. PICK u : u = Tail(t)
      BY Zenon
    <3>2. u \in Seq(Batch) /\ a \in Seq(Batch)
      BY <1>1, <1>2, <3>1, Zenon
    <3>3. /\ a \o u \in Seq(Batch) /\ Len(a \o u) = Len(a) + Len(u)
          /\ \A i \in 1 .. Len(a) + Len(u) : (a \o u)[i] = IF i <= Len(a) THEN a[i] ELSE u[i - Len(a)]
      BY <3>2, ConcatProperties, Zenon
    <3> QED
      BY <3>1, <3>3, Zenon
  <2>2. Len(a) + Len(Tail(t)) = Len(s) + Len(t)
    BY <1>1, <1>2
  <2> QED
    BY <1>2, <2>1, <2>2, Zenon
<1>4. /\ s \o t \in Seq(Batch) /\ Len(s \o t) = Len(s) + Len(t)
      /\ \A i \in 1 .. Len(s) + Len(t) :
           (s \o t)[i] = IF i <= Len(s) THEN s[i] ELSE t[i - Len(s)]
  BY ConcatProperties, Zenon
<1>5. ASSUME NEW i \in 1 .. Len(s) + Len(t)
      PROVE  (a \o Tail(t))[i] = (s \o t)[i]
  <2>1. CASE i <= Len(s)
    BY <1>1, <1>2, <1>3, <1>4, <2>1
  <2>2. CASE i = Len(s) + 1
    <3>1. i - Len(s) = 1 /\ ~(i <= Len(s)) /\ i <= Len(s) + 1
      BY <1>1, <2>2
    <3> QED
      BY <1>2, <1>3, <1>4, <2>2, <3>1, Zenon
  <2>3. CASE i > Len(s) + 1
    <3>1. /\ i - (Len(s) + 1) \in 1 .. Len(Tail(t)) /\ ~(i <= Len(s)) /\ ~(i <= Len(s) + 1)
          /\ (i - (Len(s) + 1)) + 1 = i - Len(s)
      BY <1>1, <2>3
    <3>2. Tail(t)[i - (Len(s) + 1)] = t[i - Len(s)]
      BY <1>1, <3>1, Zenon
    <3> QED
      BY <1>3, <1>4, <3>1, <3>2, Zenon
  <2>4. i <= Len(s) \/ i = Len(s) + 1 \/ i > Len(s) + 1
    BY <1>1
  <2> QED
    BY Zenon, <2>1, <2>2, <2>3, <2>4
<1> QED
  BY <1>3, <1>4, <1>5, SeqEqual, Zenon DEF a

-----------------------------------------------------------------------------
(* Loader                                                                  *)

Passed == got \o chan

LoaderTypes ==
  /\ got \in Seq(Batch) /\ chan \in Seq(Batch)
  /\ ring \in [Buffers -> Seq(Nat)] /\ emitted \in [Buffers -> Nat]
  /\ rx \in BOOLEAN
  /\ \A b \in Buffers : \A n \in Nat : <<b, n>> \in missed => n <= emitted[b]

\* Until the first buffer is bound there is nothing a failed load could leave.
NothingYet ==
  /\ phase \in {"load", "err"} => /\ events = {} /\ array = {}
                                  /\ \A b \in Buffers : task[b] = "none"
  /\ phase = "err" => loaded = 0

\* The records of the ring come after all that was passed on.
StreamRight(b) ==
  /\ InOrder(b, Passed) /\ Increasing(ring[b])
  /\ \A x \in RecordsOf(b, Passed) : \A k \in DOMAIN ring[b] : x < ring[b][k]
  /\ RecordsOf(b, Passed) \cup Elems(ring[b]) = {n \in 1 .. emitted[b] : <<b, n>> \notin missed}

LoaderInv == LoaderTypes /\ NothingYet /\ (rx = TRUE => \A b \in Buffers : StreamRight(b))

\* Before load nothing is bound.
LEMMA LoaderStart == LoaderInit => LoaderInv
<1> SUFFICES ASSUME LoaderInit PROVE LoaderInv
  BY Zenon
<1>1. LoaderTypes
  BY DEF LoaderInit, LoaderTypes
<1>2. NothingYet
  BY Zenon DEF LoaderInit, NothingYet
<1>3. Passed = <<>>
  BY DEF LoaderInit, Passed
<1>4. ASSUME NEW b \in Buffers
      PROVE  StreamRight(b)
  <2>1. ring[b] = <<>> /\ emitted[b] = 0
    BY Zenon DEF LoaderInit
  <2>2. DOMAIN Passed = {} /\ DOMAIN ring[b] = {}
    BY <1>3, <2>1
  <2>3. RecordsOf(b, Passed) = {} /\ Elems(ring[b]) = {}
    BY <2>2, Zenon DEF RecordsOf, Elems
  <2> QED
    BY <2>1, <2>2, <2>3 DEF StreamRight, InOrder, Increasing
<1> QED
  BY <1>1, <1>2, <1>4, Zenon DEF LoaderInv

\* What has passed is a sequence of batches.
LEMMA PassedType ==
  ASSUME LoaderTypes
  PROVE  Passed \in Seq(Batch)
  BY ConcatProperties, Zenon DEF LoaderTypes, Passed

\* Steps of load, of the CPUs and of the owner that leave the streams alone.
LEMMA SameStreams ==
  ASSUME LoaderInv, Passed' = Passed, UNCHANGED <<ring, emitted, missed>>, rx' = TRUE => rx = TRUE
  PROVE  rx' = TRUE => \A b \in Buffers : StreamRight(b)'
<1> SUFFICES ASSUME rx' = TRUE, NEW b \in Buffers
             PROVE  StreamRight(b)'
  BY Zenon
<1>1. StreamRight(b)
  BY Zenon DEF LoaderInv
<1> QED
  BY <1>1, Zenon DEF StreamRight

\* An event is the last of its buffer.
LEMMA EmitStep ==
  ASSUME LoaderInv, NEW c \in Buffers, Emit(c)
  PROVE  LoaderInv'
<1> USE DEF LoaderInv
<1>1. /\ UNCHANGED <<phase, loaded, events, array, task, chan, rx, got>>
      /\ emitted' = [emitted EXCEPT ![c] = @ + 1]
  BY Zenon DEF Emit
<1>2. emitted[c] \in Nat /\ ring[c] \in Seq(Nat)
  BY Zenon DEF LoaderTypes
<1> DEFINE m == emitted[c] + 1
<1>8. \/ ring' = [ring EXCEPT ![c] = Append(ring[c], m)] /\ missed' = missed
      \/ ring' = ring /\ missed' = missed \cup {<<c, m>>}
  BY Zenon DEF Emit
<1>3. LoaderTypes'
  <2>1. ring' \in [Buffers -> Seq(Nat)]
    <3>1. Append(ring[c], m) \in Seq(Nat)
      BY <1>2, AppendProperties
    <3> QED
      BY Zenon, <1>8, <3>1 DEF LoaderTypes
  <2>2. emitted' \in [Buffers -> Nat] /\ emitted'[c] = m /\ m \in Nat
        /\ \A b \in Buffers : b # c => emitted'[b] = emitted[b]
    BY <1>1, <1>2 DEF LoaderTypes
  <2>3. ASSUME NEW b \in Buffers, NEW n \in Nat, <<b, n>> \in missed'
        PROVE  n <= emitted'[b]
    <3>1. CASE <<b, n>> \in missed
      <4>1. n <= emitted[b] /\ emitted[b] \in Nat /\ emitted'[b] \in Nat
        BY <2>2, <3>1, Zenon DEF LoaderTypes
      <4>2. emitted[b] <= emitted'[b]
        BY <2>2, <4>1
      <4> QED
        BY <4>1, <4>2
    <3>2. CASE <<b, n>> = <<c, m>>
      BY <2>2, <3>2
    <3> QED
      BY <1>8, <2>3, <3>1, <3>2, Zenon
  <2> QED
    BY <1>1, <2>1, <2>2, <2>3, Zenon DEF LoaderTypes
<1>4. NothingYet'
  BY <1>1, Zenon DEF NothingYet
<1>5. Passed' = Passed
  BY <1>1, Zenon DEF Passed
<1>6. ASSUME NEW b \in Buffers, rx' = TRUE
      PROVE  StreamRight(b)'
  <2>1. StreamRight(b)
    BY <1>1, <1>6, Zenon
  <2>2. CASE b # c
    <3>1. ring'[b] = ring[b] /\ emitted'[b] = emitted[b]
      BY <1>1, <2>2, Zenon DEF Emit, LoaderTypes
    <3>2. \A n : <<b, n>> \in missed' <=> <<b, n>> \in missed
      BY <2>2 DEF Emit
    <3> QED
      BY <1>5, <2>1, <3>1, <3>2, Zenon DEF StreamRight
  <2>3. CASE b = c
    <3>1. emitted'[b] = emitted[b] + 1
      BY <1>1, <2>3, Zenon DEF LoaderTypes
    <3>2. CASE ring' = ring /\ missed' = missed \cup {<<b, emitted[b] + 1>>}
      <4>1. {n \in 1 .. emitted'[b] : <<b, n>> \notin missed'}
              = {n \in 1 .. emitted[b] : <<b, n>> \notin missed}
        BY <1>2, <2>3, <3>1, <3>2
      <4> QED
        BY <1>5, <2>1, <3>2, <4>1, Zenon DEF StreamRight
    <3>3. CASE ring' = [ring EXCEPT ![b] = Append(@, emitted[b] + 1)] /\ missed' = missed
      <4> DEFINE r == ring[b]
      <4>0. <<b, m>> \notin missed
        BY <1>2, <2>3 DEF LoaderTypes
      <4>1. /\ Len(r) \in Nat /\ DOMAIN r = 1 .. Len(r) /\ DOMAIN ring'[b] = 1 .. Len(r) + 1
            /\ \A k \in DOMAIN r : ring'[b][k] = r[k]
            /\ ring'[b][Len(r) + 1] = m
        <5>1. r \in Seq(Nat) /\ m \in Nat
          BY <1>2, <2>3
        <5>2. ring'[b] = Append(r, m)
          BY <2>3, <3>3, Zenon DEF LoaderTypes
        <5> QED
          BY <5>1, <5>2, AppendProperties, LenProperties
      <4>2. \A x \in RecordsOf(b, Passed) \cup Elems(r) : x \in Nat /\ x < m
        <5>1. \A x \in RecordsOf(b, Passed) \cup Elems(r) : x \in 1 .. emitted[b]
          BY Zenon, <2>1 DEF StreamRight
        <5> QED
          BY <1>2, <2>3, <5>1
      <4>3. \A k \in DOMAIN r : r[k] < m
        BY <4>2, Zenon DEF Elems
      <4>4. Increasing(ring'[b])
        BY <2>1, <4>1, <4>3 DEF Increasing, StreamRight
      <4>5. \A x \in RecordsOf(b, Passed) : \A k \in DOMAIN ring'[b] : x < ring'[b][k]
        BY SMTT(20), <2>1, <4>1, <4>2 DEF StreamRight
      <4>6. Elems(ring'[b]) = Elems(r) \cup {m}
        BY <4>1 DEF Elems
      <4>7. {n \in 1 .. emitted'[b] : <<b, n>> \notin missed'}
              = {n \in 1 .. emitted[b] : <<b, n>> \notin missed} \cup {m}
        BY SMTT(20), <1>2, <2>3, <3>1, <3>3, <4>0
      <4> QED
        BY <1>5, <2>1, <4>4, <4>5, <4>6, <4>7, Zenon DEF StreamRight
    <3> QED
      BY <1>8, <2>3, <3>2, <3>3, Zenon
  <2> QED
    BY <2>2, <2>3, Zenon
<1> QED
  BY Zenon, <1>3, <1>4, <1>6

\* A task takes the events of its own buffer from its front.
LEMMA StreamTaskStep ==
  ASSUME LoaderInv, NEW c \in Buffers, StreamTask(c)
  PROVE  LoaderInv'
<1> USE DEF LoaderInv
<1>1. /\ task[c] = "running"
      /\ ring' = [ring EXCEPT ![c] = <<>>]
      /\ UNCHANGED <<phase, loaded, array, rx, got, emitted, missed>>
  BY Zenon DEF StreamTask
<1>2. phase \notin {"load", "err"}
  BY <1>1, Zenon DEF NothingYet
<1>3. NothingYet'
  BY <1>1, <1>2, Zenon DEF NothingYet
<1>4. /\ got \in Seq(Batch) /\ chan \in Seq(Batch) /\ ring[c] \in Seq(Nat)
      /\ Passed \in Seq(Batch) /\ <<c, ring[c]>> \in Batch
  BY PassedType, Zenon DEF LoaderTypes, Batch
<1>5. ring' \in [Buffers -> Seq(Nat)]
  BY <1>1, EmptySeq, Zenon DEF LoaderTypes
<1>6. CASE rx = TRUE
  <2>1. chan' = Append(chan, <<c, ring[c]>>)
    BY <1>6, Zenon DEF StreamTask
  <2>2. chan' \in Seq(Batch)
    BY <1>4, <2>1, AppendProperties, Zenon
  <2>3. LoaderTypes'
    BY <1>1, <1>5, <2>2, Zenon DEF LoaderTypes
  <2>4. Passed' = Append(Passed, <<c, ring[c]>>)
    BY <1>1, <1>4, <2>1, AppendBatch, Zenon DEF Passed
  <2>5. ASSUME NEW b \in Buffers
        PROVE  StreamRight(b)'
    <3>1. StreamRight(b)
      BY <1>6, Zenon
    <3>2. CASE b = c
      <4>1. /\ InOrder(b, Passed')
            /\ RecordsOf(b, Passed') = RecordsOf(b, Passed) \cup Elems(ring[b])
        BY <1>4, <2>4, <3>1, <3>2, AppendSame DEF StreamRight
      <4>2. ring'[b] = <<>>
        BY <1>1, <3>2, Zenon DEF LoaderTypes
      <4>3. DOMAIN ring'[b] = {} /\ Elems(ring'[b]) = {}
        BY <4>2 DEF Elems
      <4>4. RecordsOf(b, Passed') \cup Elems(ring'[b])
              = {n \in 1 .. emitted'[b] : <<b, n>> \notin missed'}
        BY <1>1, <3>1, <4>1, <4>3, Zenon DEF StreamRight
      <4> QED
        BY <4>1, <4>3, <4>4, Zenon DEF StreamRight, Increasing
    <3>3. CASE b # c
      <4>1. /\ InOrder(b, Passed')
            /\ RecordsOf(b, Passed') = RecordsOf(b, Passed)
        BY <1>4, <2>4, <3>1, <3>3, AppendOther, Zenon DEF StreamRight
      <4>2. ring'[b] = ring[b]
        BY <1>1, <3>3, Zenon DEF LoaderTypes
      <4> QED
        BY <1>1, <3>1, <4>1, <4>2, Zenon DEF StreamRight
    <3> QED
      BY <3>2, <3>3, Zenon
  <2> QED
    BY <1>3, <2>3, <2>5, Zenon
<1>7. CASE rx # TRUE
  <2>1. chan' = chan /\ rx' # TRUE
    BY Zenon, <1>1, <1>7 DEF StreamTask, LoaderTypes
  <2>2. LoaderTypes'
    BY <1>1, <1>5, <2>1, Zenon DEF LoaderTypes
  <2> QED
    BY Zenon, <1>3, <2>1, <2>2
<1> QED
  BY Zenon, <1>6, <1>7

\* The owner takes the first batch of the channel.
LEMMA ReceiveStep ==
  ASSUME LoaderInv, Receive
  PROVE  LoaderInv'
<1> USE DEF LoaderInv
<1>1. /\ chan # <<>> /\ got' = Append(got, Head(chan)) /\ chan' = Tail(chan)
      /\ UNCHANGED <<phase, loaded, events, array, task, ring, rx, emitted, missed>>
  BY Zenon DEF Receive
<1>2. got \in Seq(Batch) /\ chan \in Seq(Batch)
  BY Zenon DEF LoaderTypes
<1>3. Head(chan) \in Batch /\ Tail(chan) \in Seq(Batch)
  BY <1>1, <1>2, HeadTailProperties, Zenon
<1>4. got' \in Seq(Batch) /\ chan' \in Seq(Batch)
  BY <1>1, <1>2, <1>3, AppendProperties, Zenon
<1>5. Passed' = Passed
  BY <1>1, <1>2, ReceiveWhole, Zenon DEF Passed
<1>6. LoaderTypes'
  BY <1>1, <1>4, Zenon DEF LoaderTypes
<1>7. NothingYet'
  BY <1>1, Zenon DEF NothingYet
<1> QED
  BY Zenon, <1>1, <1>5, <1>6, <1>7, SameStreams

\* One turn of the loops of Loader::load, or any other step.
LEMMA LoadStep ==
  ASSUME LoaderInv,
         \/ LoadProgram \/ GetOnline \/ LoadDone \/ DropModule \/ DropEvents
         \/ \E b \in Buffers : Bind(b)
         \/ \E c \in Cpus : HotplugCpu(c)
         \/ UNCHANGED loaderVars
  PROVE  LoaderInv'
<1> USE DEF LoaderInv
<1>1. CASE DropEvents
  <2>1. LoaderTypes' /\ rx' # TRUE
    BY Zenon, <1>1, EmptySeq DEF DropEvents, LoaderTypes
  <2>2. NothingYet'
    BY <1>1, Zenon DEF DropEvents, NothingYet
  <2> QED
    BY Zenon, <2>1, <2>2
<1>2. ASSUME UNCHANGED <<ring, chan, got, emitted, missed>>, rx' = rx \/ rx' = FALSE, NothingYet'
      PROVE  LoaderInv'
  <2>1. LoaderTypes'
    BY Zenon, <1>2 DEF LoaderTypes
  <2>2. Passed' = Passed
    BY <1>2, Zenon DEF Passed
  <2>3. rx' = TRUE => rx = TRUE
    BY Zenon, <1>2
  <2> QED
    BY Zenon, <1>2, <2>1, <2>2, <2>3, SameStreams
<1>3. CASE LoadProgram
  <2>1. NothingYet'
    BY <1>3, Zenon DEF LoadProgram, NothingYet
  <2> QED
    BY Zenon, <1>2, <1>3, <2>1 DEF LoadProgram
<1>4. CASE GetOnline \/ LoadDone \/ DropModule
  <2>1. NothingYet'
    BY <1>4, Zenon DEF GetOnline, LoadDone, DropModule, NothingYet
  <2> QED
    BY Zenon, <1>2, <1>4, <2>1 DEF GetOnline, LoadDone, DropModule
<1>5. ASSUME NEW b \in Buffers, Bind(b)
      PROVE  LoaderInv'
  <2>1. phase' \notin {"load", "err"}
    BY <1>5, Zenon DEF Bind
  <2>2. NothingYet'
    BY <2>1, Zenon DEF NothingYet
  <2> QED
    BY Zenon, <1>2, <1>5, <2>2 DEF Bind
<1>6. CASE \/ \E c \in Cpus : HotplugCpu(c)
           \/ UNCHANGED loaderVars
  <2>1. UNCHANGED <<phase, loaded, events, array, task, ring, chan, got, emitted, missed, rx>>
    BY <1>6, Zenon DEF HotplugCpu, loaderVars
  <2>2. NothingYet'
    BY <2>1, Zenon DEF NothingYet
  <2> QED
    BY Zenon, <1>2, <2>1, <2>2
<1> QED
  BY Zenon, <1>1, <1>3, <1>4, <1>5, <1>6

\* Every step keeps the invariant.
LEMMA LoaderStep == LoaderInv /\ [LoaderNext]_loaderVars => LoaderInv'
  BY EmitStep, StreamTaskStep, ReceiveStep, LoadStep, Zenon DEF LoaderNext

\* The invariant implies the property.
LEMMA LoaderInvEnough == LoaderInv => NothingLostOrLeft
<1> SUFFICES ASSUME LoaderInv PROVE NothingLostOrLeft
  BY Zenon
<1>1. ASSUME rx, NEW b \in Buffers
      PROVE  /\ InOrder(b, Batches(b))
             /\ RecordsOf(b, Batches(b)) = {n \in 1 .. emitted[b] : <<b, n>> \notin missed}
  <2>1. StreamRight(b)
    BY <1>1, Zenon DEF LoaderInv, LoaderTypes
  <2>2. Passed \in Seq(Batch) /\ ring[b] \in Seq(Nat) /\ <<b, ring[b]>> \in Batch
    BY PassedType, Zenon DEF LoaderInv, LoaderTypes, Batch
  <2>3. Batches(b) = Append(Passed, <<b, ring[b]>>)
    BY <2>2, AppendIsConcat, Zenon DEF Batches, Passed
  <2> QED
    BY <2>1, <2>2, <2>3, AppendSame DEF StreamRight
<1> QED
  BY <1>1, Zenon DEF LoaderInv, NothingYet, NothingLostOrLeft

\* For any number of CPUs, maps, programs and events, however the tasks and
\* hotplug interleave: the owner of Loaded gets the events of each buffer in
\* order and exactly once, and a load that fails leaves nothing.
THEOREM StreamsDeliver == LoaderSpec => []NothingLostOrLeft
  BY LoaderStart, LoaderStep, LoaderInvEnough, PTL DEF LoaderSpec
=============================================================================
