----------------------------- MODULE CargoBuild -----------------------------
(***************************************************************************)
(* cargo-bpf: `cargo bpf new' (new.rs), which makes a package, `cargo bpf  *)
(* add' (new_program.rs), which extends it by a program, and `cargo bpf    *)
(* build' (build.rs, llvm.rs), which compiles its programs one after the   *)
(* other.                                                                  *)
(*                                                                         *)
(* Every step that touches files may fail, the commands may be killed      *)
(* between two steps or while they write a file, and sources are edited    *)
(* while a build is running.  An object is represented by the version of   *)
(* the sources it was made of.  Of the bitcode of a program we keep the    *)
(* instructions of its functions that llvm.rs looks for, the sections and  *)
(* the relocations.                                                        *)
(***************************************************************************)
EXTENDS Integers, Sequences, FiniteSets, Functions

CONSTANTS
  Programs,   \* names of programs
  IdentOf,    \* name_to_ident: the module of a program
  Insts,      \* instructions: [op, callee, ofMap, method], [op, helper, map] or [op]
  Bitcodes,   \* what rustc may make of a program: [funcs, tc, relocs]
  MapAlign,   \* per map: alignment of its values, MAP_VALUE_ALIGN_<map>
  Linked,     \* the LLVM version of cargo-bpf: <<major, minor>>
  RustcLLVM,  \* LLVM versions that rustc may have
  MaxEdits,   \* bound on the edits of the sources
  MaxStops    \* bound on the commands new and add that stop before another add

\* A function is the sequence of its instructions, in the order of its blocks.
ASSUME BitcodeAssumption == \A code \in Bitcodes : code.funcs \in Seq(Seq(Insts))

None == -1

\* Part of a line of lib.rs: what is appended next is on the same line, and
\* lib.rs does not compile any more.
Garbled == "?"

VARIABLES
  pkg,       \* what `cargo bpf new' has made: "", "dir", "lib.rs"
  toml,      \* the file Cargo.toml: "none", "part", which cannot be read, or "whole"
  manifest,  \* the [[bin]] targets of Cargo.toml
  libmods,   \* the modules that `pub mod <module>;' in src/lib.rs names
  modrs,     \* per program: the file src/<name>/mod.rs: "none", "part", "whole"
  mainrs,    \* per program: the file src/<name>/main.rs
  version,   \* version of the sources
  elfs,      \* per program: the file <probe>.elf
  cmd,       \* the command that is running: [pc, ...], with the files <probe>.bc
             \* and <probe>.elf.tmp of a build, which every build makes anew
  result,    \* what the last build has returned: [res, ...]
  stopped,   \* history: how many new and add commands have stopped half-way
  lost       \* history: the programs whose target went when add wrote Cargo.toml

package == <<pkg, toml, manifest, libmods, modrs, mainrs, stopped, lost>>
vars == <<pkg, toml, manifest, libmods, modrs, mainrs, version, elfs, cmd, result, stopped, lost>>

Idle == [pc |-> "idle"]
NoFile == [ver |-> None]

Init ==
  /\ pkg = "" /\ toml = "none" /\ manifest = <<>> /\ libmods = <<>>
  /\ modrs = [p \in Programs |-> "none"] /\ mainrs = [p \in Programs |-> "none"]
  /\ version = 0
  /\ elfs = [p \in Programs |-> NoFile]
  /\ cmd = Idle
  /\ result = [res |-> "none"]
  /\ stopped = 0 /\ lost = {}

-----------------------------------------------------------------------------
(* cargo bpf new, and cargo bpf add: new_program                           *)

\* An existing path is an error.  The directories, Cargo.toml, which is created
\* and written, and lib.rs
New ==
  /\ \/ /\ cmd = Idle /\ pkg = "" /\ pkg' = "dir" /\ toml' = toml
        /\ cmd' = [pc |-> "create"]
     \/ /\ cmd.pc = "create" /\ toml' = "part" /\ pkg' = pkg
        /\ cmd' = [pc |-> "write"]
     \/ /\ cmd.pc = "write" /\ toml' = "whole" /\ pkg' = pkg
        /\ cmd' = [pc |-> "lib.rs"]
     \/ /\ cmd.pc = "lib.rs" /\ pkg' = "lib.rs" /\ toml' = toml
        /\ cmd' = Idle
  /\ UNCHANGED <<manifest, libmods, modrs, mainrs, version, elfs, result, stopped, lost>>

\* Cargo.toml is read, and truncated by fs::write; where it cannot be read, or
\* has the name, there is an error and nothing happens.
Add(p) ==
  /\ cmd = Idle /\ toml = "whole" /\ p \notin Range(manifest) /\ stopped <= MaxStops
  /\ toml' = "part" /\ manifest' = <<>>
  /\ cmd' = [pc |-> "toml", prog |-> p, new |-> Append(manifest, p)]
  /\ UNCHANGED <<pkg, libmods, modrs, mainrs, version, elfs, result, stopped, lost>>

\* The rest of fs::write: the new contents
AddToml ==
  /\ cmd.pc = "toml"
  /\ toml' = "whole" /\ manifest' = cmd.new
  /\ cmd' = [cmd EXCEPT !.pc = "lib"]
  /\ UNCHANGED <<pkg, libmods, modrs, mainrs, version, elfs, result, stopped, lost>>

\* Mutant: the module gets the name of the program.
NameToIdentKeeps(p) == p

NameToIdent(p) == IdentOf[p]

\* A line is appended to lib.rs, which must exist; the directory
AddLib ==
  /\ cmd.pc = "lib" /\ pkg = "lib.rs"
  /\ libmods' = Append(libmods, NameToIdent(cmd.prog))
  /\ cmd' = [cmd EXCEPT !.pc = "mod"]
  /\ UNCHANGED <<pkg, toml, manifest, modrs, mainrs, version, elfs, result, stopped, lost>>

\* mod.rs and main.rs are created, or truncated, and written.
AddSource ==
  /\ \/ /\ cmd.pc = "mod" /\ modrs' = [modrs EXCEPT ![cmd.prog] = "part"] /\ mainrs' = mainrs
        /\ cmd' = [cmd EXCEPT !.pc = "mod.rs"]
     \/ /\ cmd.pc = "mod.rs" /\ modrs' = [modrs EXCEPT ![cmd.prog] = "whole"] /\ mainrs' = mainrs
        /\ cmd' = [cmd EXCEPT !.pc = "main"]
     \/ /\ cmd.pc = "main" /\ mainrs' = [mainrs EXCEPT ![cmd.prog] = "part"] /\ modrs' = modrs
        /\ cmd' = [cmd EXCEPT !.pc = "main.rs"]
     \/ /\ cmd.pc = "main.rs" /\ mainrs' = [mainrs EXCEPT ![cmd.prog] = "whole"] /\ modrs' = modrs
        /\ cmd' = Idle
  /\ UNCHANGED <<pkg, toml, manifest, libmods, version, elfs, result, stopped, lost>>

\* What is in Cargo.toml when the write is cut off: nothing that can be read, or
\* the first of the targets.
TomlCut ==
  /\ \/ toml' = "part" /\ manifest' = <<>>
     \/ toml' = "whole" /\ \E n \in 0 .. Len(cmd.new) : manifest' = SubSeq(cmd.new, 1, n)
  /\ lost' = lost \cup (Range(cmd.new) \ Range(manifest'))
  /\ UNCHANGED <<pkg, libmods>>

\* A write fails, or the command is killed.  The file that is written has part
\* of its contents.
Stops ==
  /\ stopped' = stopped + 1
  /\ \/ cmd.pc \in {"create", "mod", "mod.rs", "main", "main.rs"} /\ UNCHANGED <<pkg, toml, manifest, libmods, lost>>
     \/ cmd.pc = "write" /\ toml' \in {"part", "whole"} /\ UNCHANGED <<pkg, manifest, libmods, lost>>
     \/ cmd.pc = "toml" /\ TomlCut
     \/ /\ cmd.pc \in {"lib.rs", "lib"}
        /\ \/ pkg' = pkg /\ libmods' = libmods
           \/ /\ cmd.pc = "lib.rs" \/ pkg = "lib.rs"
              /\ pkg' = "lib.rs" /\ libmods' \in {libmods, Append(libmods, Garbled)}
        /\ UNCHANGED <<toml, manifest, lost>>
  /\ cmd' = Idle
  /\ UNCHANGED <<modrs, mainrs, version, elfs, result>>

Edit ==
  /\ version < MaxEdits
  /\ version' = version + 1
  /\ UNCHANGED <<package, elfs, cmd, result>>

\* rustc (external) finds every module of lib.rs, in a file of these kinds, once.
LibCompiles(kinds) ==
  /\ IsInjective(libmods)
  /\ \A m \in Range(libmods) : \E p \in Programs : p = m /\ modrs[p] \in kinds

-----------------------------------------------------------------------------
(* llvm.rs: check_map_value_alignment                                      *)

\* find_redbpf_map_method_type_str: the method of a map that a llvm.dbg.value
\* is about
MapMethod(inst) ==
  IF inst.op = "dbg" /\ inst.callee = "llvm.dbg.value" /\ inst.ofMap THEN inst.method ELSE ""

\* find_map_calling_bpf_map_lookup_elem: the map of a call of helper 1
LookupMap(inst) ==
  IF inst.op = "call" /\ inst.helper = 1 THEN inst.map ELSE ""

\* Mutant: the method is not taken.
ScanInstNoTake(scan, inst) ==
  LET method == MapMethod(inst)
      map == LookupMap(inst)
  IN  [scan EXCEPT
         !.at = @ + 1,
         !.method = IF method # "" THEN method ELSE @,
         !.maps = IF map # "" /\ scan.method \in {"get", "get_mut"} THEN @ \cup {map} ELSE @]

\* One instruction: the method is remembered in map_method_type_str; a lookup
\* takes it, and its map goes to get_called_maps.
ScanInst(scan, inst) ==
  LET method == MapMethod(inst)
      map == LookupMap(inst)
  IN  [scan EXCEPT
         !.at = @ + 1,
         !.method = IF method # "" THEN method ELSE IF map # "" THEN "" ELSE @,
         !.maps = IF map # "" /\ scan.method \in {"get", "get_mut"} THEN @ \cup {map} ELSE @]

\* The functions that are read, the instructions of the next one that are, its
\* map_method_type_str, and get_called_maps
ScanStart == [func |-> 1, at |-> 0, method |-> "", maps |-> {}]

\* Is there an error?  PROBES_ALIGNMENT_MAX is 8.
MisalignedGet(maps) == \E m \in maps : MapAlign[m] > 8

-----------------------------------------------------------------------------
(* build.rs                                                                *)

\* check_tc_action_relocs: a relocation of a tc section against a section; what
\* has no section header, symbol or name is passed over.
BadTcReloc(relocs) ==
  \E r \in relocs : r.sec = ".reltc_action/" /\ r.found /\ r.type = "STT_SECTION"

Fails ==
  /\ cmd' = Idle
  /\ result' = [res |-> "Err", at |-> Head(cmd.left), cleared |-> cmd.cleared]
Goes(pc) == cmd' = [cmd EXCEPT !.pc = pc] /\ result' = result
Cur == Head(cmd.left)

\* load_package and probe_names: the targets whose required features are built;
\* those that new_program adds require the feature "probes" only.
ProbeNames == manifest

\* build_with_features: the programs that are named, or all those of the
\* manifest, if there is one
Build(named) ==
  LET probes == IF named = <<>> THEN ProbeNames ELSE named
  IN  /\ cmd = Idle
      /\ IF toml # "none" /\ probes # <<>>
         THEN /\ cmd' = [pc |-> "next", left |-> probes, all |-> probes,
                         since |-> version, cleared |-> TRUE,
                         bc |-> NoFile, scan |-> ScanStart, tmp |-> NoFile]
              /\ result' = [res |-> "none"]
         ELSE cmd' = cmd /\ result' = [res |-> "Refused"]
      /\ UNCHANGED <<package, version, elfs>>

BuildEnds ==
  /\ cmd.pc = "next" /\ cmd.left = <<>>
  /\ cmd' = Idle
  /\ result' = [res |-> "Ok", probes |-> cmd.all, since |-> cmd.since]
  /\ UNCHANGED <<package, version, elfs>>

\* build_probe: remove_dir_all, whose failure is ignored, and create_dir_all
Prepare(kept, ok) ==
  /\ cmd.pc = "next" /\ cmd.left # <<>>
  /\ elfs' = [elfs EXCEPT ![Cur] = IF kept THEN @ ELSE NoFile]
  /\ IF ok
     THEN cmd' = [cmd EXCEPT !.pc = "llvm", !.cleared = ~kept] /\ result' = result
     ELSE cmd' = Idle /\ result' = [res |-> "Err", at |-> Cur, cleared |-> ~kept]
  /\ UNCHANGED <<package, version>>

\* The LLVM of cargo-bpf may not be older than that of rustc.
CheckLLVM(rustc) ==
  /\ cmd.pc = "llvm"
  /\ IF Linked[1] < rustc[1] \/ (Linked[1] = rustc[1] /\ Linked[2] < rustc[2])
     THEN Fails ELSE Goes("rustc")
  /\ UNCHANGED <<package, version, elfs>>

\* cargo rustc, and the search for the one file with bitcode.  Part of a mod.rs
\* may compile, part of a main.rs does not.
CargoRustc(code, ok) ==
  /\ cmd.pc = "rustc"
  /\ IF /\ ok /\ toml = "whole" /\ LibCompiles({"part", "whole"})
        /\ mainrs[Cur] = "whole" /\ Cur \in Range(manifest)
     THEN /\ cmd' = [cmd EXCEPT !.pc = "compile", !.bc = [ver |-> version, code |-> code]]
          /\ result' = result
     ELSE Fails
  /\ UNCHANGED <<package, version, elfs>>

\* compile_module: the object is emitted, or part of it
CompileModule(bc, outcome) ==
  [ver |-> bc.ver, code |-> bc.code, whole |-> outcome = "Ok", tc |-> "no"]

\* llvm::compile: load_module
LoadModule(ok) ==
  /\ cmd.pc = "compile"
  /\ IF ok THEN cmd' = [cmd EXCEPT !.pc = "scan", !.scan = ScanStart] /\ result' = result ELSE Fails
  /\ UNCHANGED <<package, version, elfs>>

\* check_map_value_alignment: the next instruction, or the next function
Scan ==
  LET funcs == cmd.bc.code.funcs
      scan == cmd.scan
  IN  /\ cmd.pc = "scan"
      /\ IF scan.func > Len(funcs) THEN Goes("emit")
         ELSE /\ cmd' = [cmd EXCEPT !.scan =
                     IF scan.at = Len(funcs[scan.func])
                     THEN [scan EXCEPT !.func = @ + 1, !.at = 0, !.method = ""]
                     ELSE ScanInst(scan, funcs[scan.func][scan.at + 1])]
              /\ result' = result
      /\ UNCHANGED <<package, version, elfs>>

\* The result of check_map_value_alignment, process_ir and compile_module
Compile(outcome) ==
  /\ cmd.pc = "emit"
  /\ IF outcome = "Ok" /\ ~MisalignedGet(cmd.scan.maps)
     THEN /\ cmd' = [cmd EXCEPT !.pc = "tc", !.tmp = CompileModule(cmd.bc, outcome)]
          /\ result' = result
     ELSE Fails
  /\ UNCHANGED <<package, version, elfs>>

\* get_function_section_names: is there a tc_action program?  A failure counts
\* as no.
ContainsTc(code, read) == read /\ code.tc

\* The check of the relocations and tc_legacy_fix_btf_section, whose result is
\* written over the object.
FixTc(read, outcome) ==
  LET code == cmd.tmp.code
  IN  /\ cmd.pc = "tc"
      /\ IF ContainsTc(code, read) /\ (outcome # "Ok" \/ BadTcReloc(code.relocs)) THEN Fails
         ELSE /\ cmd' = [cmd EXCEPT !.pc = "strip", !.tmp.tc = IF ~code.tc THEN "no"
                                                            ELSE IF read THEN "fixed" ELSE "unread"]
              /\ result' = result
      /\ UNCHANGED <<package, version, elfs>>

\* strip_unnecessary: the result is ignored.
Strip ==
  /\ cmd.pc = "strip"
  /\ Goes("rename")
  /\ UNCHANGED <<package, version, elfs>>

NextProbe == cmd' = [cmd EXCEPT !.pc = "next", !.left = Tail(@),
                                !.bc = NoFile, !.scan = ScanStart, !.tmp = NoFile]

\* Mutant: the result of the rename is ignored, too.
RenameIgnored(ok) ==
  /\ cmd.pc = "rename"
  /\ elfs' = IF ok THEN [elfs EXCEPT ![Cur] = cmd.tmp] ELSE elfs
  /\ NextProbe /\ result' = result
  /\ UNCHANGED <<package, version>>

\* The rename to <probe>.elf
Rename(ok) ==
  /\ cmd.pc = "rename"
  /\ IF ok
     THEN elfs' = [elfs EXCEPT ![Cur] = cmd.tmp] /\ NextProbe /\ result' = result
     ELSE Fails /\ elfs' = elfs
  /\ UNCHANGED <<package, version>>

BuildKilled ==
  /\ cmd.pc \in {"next", "llvm", "rustc", "compile", "scan", "emit", "tc", "strip", "rename"}
  /\ cmd' = Idle
  /\ UNCHANGED <<package, version, elfs, result>>

Outcomes == {"Ok", "Err", "Part"}   \* "Part": an error after part of a file was written

Next ==
  \/ \E p \in Programs : Add(p) \/ Build(<<p>>)
  \/ New \/ AddToml \/ AddLib \/ AddSource \/ Stops \/ Edit
  \/ Build(<<>>) \/ BuildEnds \/ BuildKilled
  \/ \E kept, ok \in BOOLEAN : Prepare(kept, ok)
  \/ \E rustc \in RustcLLVM : CheckLLVM(rustc)
  \/ \E code \in Bitcodes, ok \in BOOLEAN : CargoRustc(code, ok)
  \/ \E ok \in BOOLEAN : LoadModule(ok)
  \/ Scan
  \/ \E outcome \in Outcomes : Compile(outcome)
  \/ \E read \in BOOLEAN, outcome \in Outcomes : FixTc(read, outcome)
  \/ Strip
  \/ \E ok \in BOOLEAN : Rename(ok)

Spec == Init /\ [][Next]_vars

-----------------------------------------------------------------------------
(* Properties                                                              *)

\* After a build that returned Ok every program has an ELF file of sources at
\* least as new as when the build began; after an error the program it failed on
\* has no ELF file of an earlier build, unless the old directory could not be
\* removed.
BuildResultTrue ==
  /\ result.res = "Ok" =>
       \A i \in DOMAIN result.probes : elfs[result.probes[i]].ver >= result.since
  /\ result.res = "Err" /\ result.cleared => elfs[result.at] = NoFile

\* A reference to a value: a lookup whose last map method, with no other lookup
\* in between, is get or get_mut.
GetThenLookup(func, i, j) ==
  /\ i < j /\ MapMethod(func[i]) \in {"get", "get_mut"} /\ LookupMap(func[j]) # ""
  /\ \A k \in DOMAIN func : i < k /\ k < j => MapMethod(func[k]) = "" /\ LookupMap(func[k]) = ""

RefToMisaligned(code) ==
  \E f \in DOMAIN code.funcs : \E i, j \in DOMAIN code.funcs[f] :
    GetThenLookup(code.funcs[f], i, j) /\ MapAlign[LookupMap(code.funcs[f][j])] > 8

\* A file <probe>.elf is never part of an object, whenever a build fails or is
\* killed.  No function in it refers to a value of a map with an alignment above
\* 8, as far as debug information tells, and what the scan refuses is exactly
\* such bitcode; a tc program in it has the BTF section that tc accepts, unless
\* its sections could not be read, which build takes for no tc program.
ElfsSound ==
  /\ cmd.pc = "emit" => (MisalignedGet(cmd.scan.maps) <=> RefToMisaligned(cmd.bc.code))
  /\ \A p \in Programs :
       LET elf == elfs[p]
       IN  elf.ver # None =>
             /\ elf.whole
             /\ ~RefToMisaligned(elf.code)
             /\ elf.code.tc => elf.tc \in {"fixed", "unread"}

\* As long as every new and add has come to its end, the library of the package
\* compiles after each of them, for programs whose names are identifiers.  One
\* that stopped never leaves a mod.rs or main.rs whose module lib.rs does not
\* name, and only one that stopped while it wrote Cargo.toml leaves a program
\* without its target.
AddsConsistent ==
  /\ cmd = Idle /\ stopped = 0 /\ (\A p \in Range(manifest) : IdentOf[p] = p) => LibCompiles({"whole"})
  /\ IsInjective(manifest)
  /\ \A p \in Programs : modrs[p] # "none" \/ mainrs[p] # "none" =>
       /\ IdentOf[p] \in Range(libmods)
       /\ \/ p \in Range(manifest) \cup lost
          \/ cmd.pc = "toml" /\ p \in Range(cmd.new)
=============================================================================
