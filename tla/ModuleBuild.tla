---------------------------- MODULE ModuleBuild ----------------------------
(***************************************************************************)
(* ModuleBuilder of redbpf/src/lib.rs: parse, replace_map, to_module and   *)
(* the relocation of the programs, with the descriptors that are opened on *)
(* the way and given up when a step fails.                                 *)
(*                                                                         *)
(* An ELF object is abstracted to its sections and symbols:                *)
(*   secs[i] = [kind, name, def, target, rels]                             *)
(* kind is "map" (a section maps/<name>), "maps" (the section maps that    *)
(* clang uses for all maps), "data" (.data, .rodata or .bss), "prog",      *)
(* "task_iter", "rel" or "other"; def is the map definition; a "rel"       *)
(* section holds the relocations rels of section target, each              *)
(* [sym, insn, addend].  syms[i] = [sec, value, name], sec being 0 for an      *)
(* undefined symbol.                                                       *)
(***************************************************************************)
EXTENDS Integers, Sequences, FiniteSets, FiniteSetsExt, Functions

CONSTANTS
  Objects,   \* the ELF objects
  Typed,     \* symbol names of maps that BTF describes
  NewMaps,   \* maps the caller may open and pass to replace_map
  MaxFds     \* RLIMIT_NOFILE

ASSUME BuildAssumption == MaxFds \in Nat

SecsOf(o, kinds) == {i \in DOMAIN o.secs : o.secs[i].kind \in kinds}

\* Objects as compilers write them: an instruction has one relocation, and there
\* is one section maps.
ASSUME ObjectAssumption ==
  \A o \in Objects :
    /\ DOMAIN o.secs = 1 .. Len(o.secs) /\ Len(o.secs) \in Nat
    /\ DOMAIN o.syms = 1 .. Len(o.syms) /\ Len(o.syms) \in Nat
    /\ \A i \in SecsOf(o, {"rel"}) :
         o.secs[i].rels \in Seq([sym : DOMAIN o.syms, insn : Nat, addend : Int])
    /\ \A i, j \in SecsOf(o, {"rel"}) : o.secs[i].target = o.secs[j].target =>
         \A a \in DOMAIN o.secs[i].rels, b \in DOMAIN o.secs[j].rels :
           o.secs[i].rels[a].insn = o.secs[j].rels[b].insn => i = j /\ a = b
    /\ \A i, j \in SecsOf(o, {"maps"}) : i = j

\* A map given to replace_map is one of section data if and only if the map it is
\* given for is, as far as their definitions tell.  (replace_map compares the
\* definitions, and looks at this only when it finds the builder of a section.)
NewMapsFit ==
  /\ \A n \in NewMaps : n.section \in BOOLEAN
  /\ \A m, n \in NewMaps : m.def = n.def => m.section = n.section
  /\ \A o \in Objects : \A i \in SecsOf(o, {"map"}) : \A n \in NewMaps :
       n.def = o.secs[i].def => n.section = FALSE

Fds  == 1 .. MaxFds
NoFd == 0

VARIABLES
  obj,       \* the object that is parsed
  bpc,       \* "parse", "builder", "create", "reloc", "built", "failed"
  sec,       \* the section parse has reached
  programs,  \* section => instructions that relocations may patch
  builders,  \* section => MapBuilder
  symval,    \* symbol value => MapBuilder
  rels,      \* RelocationInfo, in order
  btf,       \* descriptor of the BTF
  maps,      \* <<"sec", section>> => Map, and symval_to_maps: <<"sym", value>> => Map
  next,      \* the relocation to_module has reached
  fdt,       \* descriptor => what it refers to
  user,      \* maps the caller has opened: new map => descriptor
  replaced   \* section => the map given for it last (history)

buildVars ==
  <<obj, bpc, sec, programs, builders, symval, rels, btf, maps, next, fdt, user, replaced>>

Free == [type |-> "free"]
NoEntries == [x \in {} |-> x]

BuildInit ==
  /\ obj \in Objects
  /\ bpc = "parse" /\ sec = 0
  /\ programs = NoEntries /\ builders = NoEntries /\ symval = NoEntries /\ rels = <<>>
  /\ btf = NoFd /\ maps = NoEntries /\ next = 1
  /\ fdt = [f \in Fds |-> Free] /\ user = NoEntries /\ replaced = NoEntries

Put(f, k, v)  == [x \in DOMAIN f \cup {k} |-> IF x = k THEN v ELSE f[x]]
Over(f, g)    == [x \in DOMAIN f \cup DOMAIN g |-> IF x \in DOMAIN g THEN g[x] ELSE f[x]]
Without(f, k) == Restrict(f, DOMAIN f \ {k})
Unused        == {f \in Fds : fdt[f] = Free}
Opened(o)     == [fdt EXCEPT ![Min(Unused)] = o]
Closed(F)     == [f \in Fds |-> IF f \in F THEN Free ELSE fdt[f]]

\* Descriptors owned by maps, by builders of existing maps and by the BTF.
Held == ({maps[k].fd : k \in DOMAIN maps} \cup {btf}
         \cup {builders[k].fd : k \in {j \in DOMAIN builders : builders[j].type = "Existing"}})
        \ {NoFd}

\* Mutant of Fail: the maps of builders are not closed.
FailKeepsExisting ==
  /\ bpc' = "failed"
  /\ fdt' = Closed({maps[k].fd : k \in DOMAIN maps} \cup {btf})
  /\ maps' = NoEntries /\ builders' = NoEntries /\ symval' = NoEntries /\ programs' = NoEntries
  /\ btf' = NoFd

\* An error: everything the builder owns is dropped.
Fail ==
  /\ bpc' = "failed"
  /\ fdt' = Closed(Held)
  /\ maps' = NoEntries /\ builders' = NoEntries /\ symval' = NoEntries /\ programs' = NoEntries
  /\ btf' = NoFd

-----------------------------------------------------------------------------
(* ModuleBuilder::parse                                                    *)

\* BTF is optional: it may be missing, or the kernel may refuse it.
ParseBtf ==
  /\ bpc = "parse" /\ sec = 0
  /\ sec' = 1
  /\ \/ UNCHANGED <<btf, fdt>>
     \/ /\ Unused # {}
        /\ btf' = Min(Unused)
        /\ fdt' = Opened([type |-> "btf"])
  /\ UNCHANGED <<obj, bpc, programs, builders, symval, rels, maps, next, user, replaced>>

SymsOf(i) == {s \in DOMAIN obj.syms : obj.syms[s].sec = i}

Normal(name, def, sym) ==
  [type |-> "Normal", name |-> name, def |-> def, btf |-> IF sym \in Typed THEN btf ELSE NoFd]

\* The maps of a section maps: one per symbol, the last one at a value stays.
MapsSection(s) ==
  LET i == sec
  IN  [v \in {obj.syms[j].value : j \in SymsOf(i)} |->
         LET j == Max({j \in SymsOf(i) : obj.syms[j].value = v})
             name == obj.syms[j].name
         IN  Normal(name, s.def[name], name)]

\* One turn of the loop over the section headers.  Two symbols in a section
\* maps/<name> are always an error.
ParseSection ==
  /\ bpc = "parse" /\ sec \in DOMAIN obj.secs
  /\ LET s == obj.secs[sec]
     IN  \/ /\ s.kind \in {"map", "maps", "task_iter"}   \* no name, or no BTF of vmlinux
            /\ Fail
            /\ UNCHANGED <<rels, sec>>
         \/ /\ ~ (s.kind = "map" /\ Cardinality(SymsOf(sec)) > 1)
            /\ sec' = sec + 1
            /\ builders' =
                 CASE s.kind = "map" ->
                        LET name == IF SymsOf(sec) = {} THEN ""
                                    ELSE obj.syms[CHOOSE j \in SymsOf(sec) : TRUE].name
                        IN  Put(builders, sec, Normal(s.name, s.def, name))
                   [] s.kind = "data" ->
                        Put(builders, sec, [type |-> "SectionData", name |-> s.name, def |-> s.def])
                   [] OTHER -> builders
            /\ symval' = IF s.kind = "maps" THEN Over(symval, MapsSection(s)) ELSE symval
            /\ rels' = IF s.kind = "rel"
                       THEN rels \o [j \in DOMAIN s.rels |-> [target |-> s.target, rel |-> s.rels[j]]]
                       ELSE rels
            /\ programs' = IF s.kind \in {"prog", "task_iter"}
                           THEN Put(programs, sec, NoEntries) ELSE programs
            /\ UNCHANGED <<bpc, btf, maps, fdt>>
  /\ UNCHANGED <<obj, next, user, replaced>>

ParseDone ==
  /\ bpc = "parse" /\ sec = Len(obj.secs) + 1
  /\ bpc' = "builder"
  /\ UNCHANGED <<obj, sec, programs, builders, symval, rels, btf, maps, next, fdt, user, replaced>>

-----------------------------------------------------------------------------
(* ModuleBuilder::replace_map                                              *)

\* The caller opens a map, from a pin or from another module (external).
OpenMap(n) ==
  /\ bpc = "builder"
  /\ n \notin DOMAIN user /\ Unused # {}
  /\ \A f \in Fds : fdt[f] # [type |-> "map", of |-> <<"new", n.id>>, btf |-> FALSE]
  /\ user' = Put(user, n, Min(Unused))
  /\ fdt' = Opened([type |-> "map", of |-> <<"new", n.id>>, btf |-> FALSE])
  /\ UNCHANGED <<obj, bpc, sec, programs, builders, symval, rels, btf, maps, next, replaced>>

\* The comparison replace_map makes for the kind of builder it finds.
Matches(b, n) ==
  IF b.type = "SectionData" THEN n.section ELSE b.def = n.def

Existing(n, f) ==
  [type |-> "Existing", name |-> n.name, def |-> n.def, section |-> n.section, fd |-> f]

\* The builders are visited in the order of a hash table.  new is moved into
\* the call: on an error it is dropped, and so is the map it replaces.
ReplaceMap(name, n) ==
  /\ bpc = "builder" /\ n \in DOMAIN user
  /\ user' = Without(user, n)
  /\ LET found == {k \in DOMAIN builders : builders[k].name = name}
         agree == {k \in found : Matches(builders[k], n)}
     IN  \/ \E k \in agree :
              /\ builders' = [builders EXCEPT ![k] = Existing(n, user[n])]
              /\ fdt' = Closed(IF builders[k].type = "Existing" THEN {builders[k].fd} ELSE {})
              /\ replaced' = Put(replaced, k, n.id)
         \/ /\ found = {} \/ found # agree
            /\ fdt' = Closed({user[n]})
            /\ UNCHANGED <<builders, replaced>>
  /\ UNCHANGED <<obj, bpc, sec, programs, symval, rels, btf, maps, next>>

-----------------------------------------------------------------------------
(* ModuleBuilder::to_module                                                *)

ToModule ==
  /\ bpc = "builder"
  /\ bpc' = "create"
  /\ UNCHANGED <<obj, sec, programs, builders, symval, rels, btf, maps, next, fdt, user, replaced>>

\* A new map of the kernel, for a section or for a symbol of that name; its BTF
\* ids refer to what the descriptor in the builder stands for now.
NewMap(b, key) ==
  LET typed == b.type = "Normal" /\ b.btf # NoFd
  IN  /\ Unused # {}
      /\ fdt' = Opened([type |-> "map", of |-> <<key[1], IF key[1] = "sym" THEN b.name ELSE key[2]>>,
                        btf |-> typed /\ fdt[b.btf].type = "btf"])
      /\ maps' = Put(maps, key, [name |-> b.name, fd |-> Min(Unused), typed |-> typed,
                                 section |-> b.type = "SectionData"])

\* MapBuilder::to_map for the builder of section k, in any order.
CreateMap(k) ==
  /\ bpc = "create" /\ k \in DOMAIN builders
  /\ LET b == builders[k]
     IN  \/ /\ b.type = "Existing"
            /\ maps' = Put(maps, <<"sec", k>>, [name |-> b.name, fd |-> b.fd, typed |-> FALSE,
                                             section |-> b.section])
            /\ builders' = Without(builders, k)
            /\ UNCHANGED <<bpc, programs, symval, btf, fdt>>
         \/ /\ b.type # "Existing"
            /\ NewMap(b, <<"sec", k>>)
            /\ builders' = Without(builders, k)
            /\ UNCHANGED <<bpc, programs, symval, btf>>
         \/ b.type # "Existing" /\ Fail
  /\ UNCHANGED <<obj, sec, rels, next, user, replaced>>

\* The same for the maps of a section maps, after all the others.
CreateSymMap(v) ==
  /\ bpc = "create" /\ builders = NoEntries /\ v \in DOMAIN symval
  /\ \/ /\ NewMap(symval[v], <<"sym", v>>)
        /\ symval' = Without(symval, v)
        /\ UNCHANGED <<bpc, programs, builders, btf>>
     \/ Fail
  /\ UNCHANGED <<obj, sec, rels, next, user, replaced>>

CreateDone ==
  /\ bpc = "create" /\ builders = NoEntries /\ symval = NoEntries
  /\ bpc' = "reloc"
  /\ UNCHANGED <<obj, sec, programs, builders, symval, rels, btf, maps, next, fdt, user, replaced>>

\* Mutant of Apply: the descriptor is stored before the offset is computed.
ApplyFdFirst(r, m, value) ==
  LET code == programs[r.target]
      imm == m.fd
  IN  programs' = [programs EXCEPT ![r.target] =
        Put(code, r.rel.insn,
            [src |-> IF m.section THEN "value" ELSE "fd", fd |-> m.fd,
             off |-> IF m.section THEN imm + value ELSE 0])]

\* RelocationInfo::apply: the instruction gets the descriptor of map m; for a
\* map of section data the next one gets the offset in the section.
Apply(r, m, value) ==
  LET code == programs[r.target]
      imm == IF r.rel.insn \in DOMAIN code THEN code[r.rel.insn].fd ELSE r.rel.addend
  IN  programs' = [programs EXCEPT ![r.target] =
        Put(code, r.rel.insn,
            [src |-> IF m.section THEN "value" ELSE "fd", fd |-> m.fd,
             off |-> IF m.section THEN imm + value ELSE 0])]

\* RelocationInfo::apply_with_symmap: as apply, for a map found by the value of
\* its symbol.
ApplyWithSymmap(r, value) ==
  /\ programs' = [programs EXCEPT ![r.target] =
       Put(programs[r.target], r.rel.insn,
           [src |-> "fd", fd |-> maps[<<"sym", value>>].fd, off |-> 0])]

Relocate ==
  /\ bpc = "reloc" /\ next \in DOMAIN rels
  /\ LET r == rels[next]
         s == obj.syms[r.rel.sym]
     IN  \/ /\ r.target \notin DOMAIN programs
            /\ UNCHANGED <<bpc, programs, builders, symval, btf, maps, fdt>>
         \/ /\ r.target \in DOMAIN programs
            /\ <<"sec", s.sec>> \in DOMAIN maps
            /\ Apply(r, maps[<<"sec", s.sec>>], s.value)
            /\ UNCHANGED <<bpc, builders, symval, btf, maps, fdt>>
         \/ /\ r.target \in DOMAIN programs
            /\ <<"sec", s.sec>> \notin DOMAIN maps
            /\ <<"sym", s.value>> \in DOMAIN maps
            /\ ApplyWithSymmap(r, s.value)
            /\ UNCHANGED <<bpc, builders, symval, btf, maps, fdt>>
         \/ /\ r.target \in DOMAIN programs
            /\ <<"sec", s.sec>> \notin DOMAIN maps
            /\ <<"sym", s.value>> \notin DOMAIN maps
            /\ Fail
  /\ next' = next + 1
  /\ UNCHANGED <<obj, sec, rels, user, replaced>>

\* The module is returned; what is left of the builder is dropped.
RelocateDone ==
  /\ bpc = "reloc" /\ next = Len(rels) + 1
  /\ bpc' = "built"
  /\ fdt' = Closed({btf})
  /\ btf' = NoFd
  /\ UNCHANGED <<obj, sec, programs, builders, symval, rels, maps, next, user, replaced>>

BuildNext ==
  \/ ParseBtf \/ ParseSection \/ ParseDone
  \/ \E n \in NewMaps : OpenMap(n)
  \/ \E n \in NewMaps, name \in {m.name : m \in NewMaps} : ReplaceMap(name, n)
  \/ ToModule \/ CreateDone \/ Relocate \/ RelocateDone
  \/ \E k \in DOMAIN obj.secs : CreateMap(k)
  \/ \E v \in DOMAIN symval : CreateSymMap(v)

BuildSpec == BuildInit /\ [][BuildNext]_buildVars

-----------------------------------------------------------------------------
(* Properties                                                              *)

\* The kernel object a symbol stands for: the map of its section or what replaced
\* it, or else the map that was made for a symbol of that value in the section
\* maps.
Denotes(o, s) ==
  IF s.sec \in SecsOf(obj, {"map", "data"})
  THEN o.of = IF s.sec \in DOMAIN replaced THEN <<"new", replaced[s.sec]>> ELSE <<"sec", s.sec>>
  ELSE \E t \in DOMAIN obj.syms :
         /\ obj.syms[t].sec \in SecsOf(obj, {"maps"}) /\ obj.syms[t].value = s.value
         /\ o.of = <<"sym", obj.syms[t].name>>

\* In a module that was built, every instruction of a program that refers to
\* a map holds an open descriptor of that very map, also when the map was
\* replaced, and the reference into section data keeps its offset.  A reference
\* to a function or to an undefined symbol is in no built module, unless the
\* section maps has a symbol of the same value: apply_with_symmap takes the one
\* for the other.
RelocatedRight ==
  bpc = "built" =>
    \A i \in DOMAIN rels : rels[i].target \in DOMAIN programs =>
      LET r == rels[i].rel
          s == obj.syms[r.sym]
          c == programs[rels[i].target][r.insn]
      IN  /\ fdt[c.fd].type = "map" /\ Denotes(fdt[c.fd], s)
          /\ c.src = "value" => c.off = r.addend + s.value
          /\ c.src = "value" <=> s.sec \in SecsOf(obj, {"data"})

\* Every open descriptor has an owner: the caller, the builder, or in the end
\* the module.  Whatever step fails, nothing is left open, and nothing that is
\* in use was closed.  lib.rs, on ModuleBuilder::btf: "BTF should survive until
\* all maps are created with it. So keep it": a map created with type ids refers
\* to BTF that is still loaded.
NoDescriptorLost ==
  /\ {f \in Fds : fdt[f] # Free} = Held \cup {user[n] : n \in DOMAIN user}
  /\ bpc = "failed" => Held = {}
  /\ \A k \in DOMAIN maps : maps[k].typed => fdt[maps[k].fd].btf
=============================================================================
