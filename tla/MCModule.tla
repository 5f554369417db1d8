------------------------------ MODULE MCModule ------------------------------
(* From an object file to a loaded program, in four parts: the types of the *)
(* section .BTF as they are parsed, fixed and given to the kernel           *)
(* (BtfTypes), the filter that cargo-bpf applies to that section            *)
(* (BtfFilter), maps and relocations (ModuleBuild), and Program::load       *)
(* (ProgramLoad).  The parts hand on results, and share no state while they *)
(* run: a behaviour is one of the part it begins with, the others rest.     *)
EXTENDS BtfFilter, ModuleBuild, ProgramLoad

CONSTANTS
  N,         \* bound: the number of types that are filtered
  NewKinds   \* kinds of types that redBPF does not know

VARIABLES
  part,
  object, words, tpc, tpos, table, ttypes, dumped, ids

typeVars == <<object, words, tpc, tpos, table, ttypes, dumped, ids>>

-----------------------------------------------------------------------------
(* All sections of up to N types that refer to each other and to void      *)

MCUnknown == {"Variable", "DataSection", "FloatingPoint"}
MCKinds == {"Integer", "Enumeration", "Pointer", "Structure", "FunctionProtocol"} \cup MCUnknown

T(kind, refs) == [kind |-> kind, refs |-> refs, vals |-> 0]
MCTypes(n) ==
  {T("Integer", <<>>), T("FloatingPoint", <<>>), [T("Enumeration", <<>>) EXCEPT !.vals = 2]}
  \cup {T(k, <<r>>) : k \in {"Pointer", "Variable", "FunctionProtocol"}, r \in 0 .. n}
  \cup {T("DataSection", <<r>>) : r \in 1 .. n}
  \cup {T("Structure", <<r, q>>) : r \in 1 .. n, q \in {1, n}}

MCSections ==
  UNION {[types : [1 .. n -> MCTypes(n)], gap : {4}, strLen : {1}] : n \in 0 .. N}

-----------------------------------------------------------------------------
(* Objects with five types: one of any kind, the type and the variable that *)
(* describe a map, another variable, and the section of both.  Names need   *)
(* fixing in every way and are shared where rustc may share them.           *)

D(kind, off, ref, items) == [kind |-> kind, off |-> off, ref |-> ref, items |-> items]
Names == {<<"a">>, <<"a", "9">>, <<"9", ".">>, <<".", "a">>, <<"a", "/", "b">>, <<"a", "c3", "a9">>}
Table(p, q) == << <<"S">>, <<"k">>, <<"v">>, <<"M">>, p, q, <<"9", "/">> >>

Firsts(off) ==
  {D(k, off, 4, <<>>) : k \in {"Pointer", "Structure", "FunctionProtocol", "TypeDef", "Function",
                               "Unknown"} \cup NewKinds}
  \cup {D("Array", off, 0, << <<1, 1, 4>> >>), D("Enumeration", off, 4, << <<2, 0>>, <<6, 1>> >>),
        D("Integer", off, 4, << <<32>> >>), D("FunctionProtocol", off, 0, << <<5, 2>> >>)}

Odd == D("Structure", 1, 8, << <<3, 4, 0>>, <<2, 1, 32>>, <<2, 2, 64>> >>)
Structs ==
  {Odd, D("Structure", 1, 8, << <<2, 1, 0>>, <<3, 4, 32>> >>),
   D("Union", 1, 8, << <<2, 1, 0>>, <<3, 4, 32>> >>),
   D("Structure", 1, 8, << <<2, 1, 0>>, <<5, 4, 32>> >>)}

Object(f, st, linkage, p, q, has, g) ==
  [decl |-> <<f, st, D("Variable", 4, 2, << <<1>> >>), D("Variable", 5, 1, << <<linkage>> >>),
              D("DataSection", 6, 0, << <<4, 0, 4>>, <<3, 0, 8>> >>)>>,
   table |-> Table(p, q),
   sections |-> {[name |-> n, size |-> IF n = q THEN 16 ELSE 32] :
                    n \in IF has THEN {q, <<"_">>} ELSE {<<"_">>}},
   symbols |-> {[name |-> <<"M">>, global |-> TRUE, value |-> 8],
                [name |-> p, global |-> g, value |-> 4]}]

MapBtfNames == [m \in {"m", "n"} |-> IF m = "m" THEN <<"M">> ELSE <<"b">>]

\* The names of a section and of a variable differ, and are not those of a type
\* that would have them changed, unless they are identifiers.
IsName(name) == \A i \in DOMAIN name : name[i] \in {"a", "b", "9"} /\ name[1] # "9"
Realistic(o) ==
  LET f == o.decl[1]
      shared == f.off = 6 \/ (f.off = 5 /\ o.decl[4].items[1][1] = 1)
  IN  /\ o.table[5] # o.table[6]
      /\ shared => f.kind \in {"Pointer", "Array", "FunctionProtocol"} \/ IsName(o.table[f.off])

TypeObjects ==
  {o \in {Object(f, Odd, linkage, p, q, TRUE, TRUE) :
            f \in UNION {Firsts(off) : off \in {0, 5, 6, 7, 8}}, linkage \in {0, 1},
            p \in Names, q \in Names} : Realistic(o)}
  \cup {Object(D("Pointer", 0, 4, <<>>), st, linkage, <<"a", "9">>, <<"a", "/", "b">>, has, g) :
          st \in Structs, linkage \in {0, 1}, has \in BOOLEAN, g \in BOOLEAN}

Types == INSTANCE BtfTypes WITH
  Objects <- TypeObjects, Maps <- {"m", "n"}, MapBtfOf <- MapBtfNames,
  pc <- tpc, pos <- tpos, types <- ttypes

-----------------------------------------------------------------------------
(* Seven objects: what cargo-bpf makes of a probe with a map, a section of  *)
(* data and two programs; what clang makes of a C program, all maps in one  *)
(* section, also with references to a function and to undefined symbols;    *)
(* both styles in one object; objects that are refused.                     *)

Sec(kind, name, def) == [kind |-> kind, name |-> name, def |-> def, target |-> 0, rels |-> <<>>]
Rel(target, r) == [kind |-> "rel", name |-> "", def |-> "", target |-> target, rels |-> r]
R(sym, insn, addend) == [sym |-> sym, insn |-> insn, addend |-> addend]
Sym(s, value, name) == [sec |-> s, value |-> value, name |-> name]

RustObject ==
  [secs |-> << Sec("prog", "p", ""), Rel(1, <<R(1, 1, 0), R(2, 3, 4)>>),
               Sec("map", "a", "d1"), Sec("data", ".data", "d3"),
               Sec("task_iter", "q", ""), Rel(5, <<R(1, 2, 0)>>),
               Rel(3, <<R(1, 0, 0)>>) >>,
   syms |-> << Sym(3, 0, "A"), Sym(4, 8, "X") >>]

CObject ==
  [secs |-> << Sec("prog", "p", ""), Rel(1, <<R(3, 1, 0), R(2, 3, 0)>>),
               Sec("maps", "", [n \in {"a", "b", ""} |-> IF n = "a" THEN "d1" ELSE "d2"]) >>,
   syms |-> << Sym(3, 0, ""), Sym(3, 0, "a"), Sym(3, 20, "b") >>]

CallObject ==
  [secs |-> << Sec("prog", "p", ""), Rel(1, <<R(2, 1, 0), R(3, 3, 0), R(4, 4, 0)>>),
               Sec("maps", "", [n \in {"a", "b"} |-> IF n = "a" THEN "d1" ELSE "d2"]),
               Sec("other", ".text", ""), Rel(1, <<R(5, 5, 0)>>) >>,
   syms |-> << Sym(3, 0, "a"), Sym(3, 20, "b"), Sym(4, 20, "f"), Sym(0, 0, "g"), Sym(4, 8, "h") >>]

ValueObject == [CallObject EXCEPT !.secs = SubSeq(@, 1, 4)]

MixedObject ==
  [secs |-> << Sec("map", "a", "d1"),
               Sec("maps", "", [n \in {"a", "b"} |-> "d2"]),
               Sec("prog", "p", ""), Rel(3, <<R(1, 1, 0), R(2, 3, 0), R(1, 5, 0)>>) >>,
   syms |-> << Sym(1, 0, "A"), Sym(2, 0, "b"), Sym(2, 20, "a") >>]

BadObject ==
  [secs |-> << Sec("prog", "p", ""), Sec("map", "a", "d1") >>,
   syms |-> << Sym(2, 0, "A"), Sym(2, 20, "B") >>]

StrayObject ==
  [secs |-> << Sec("map", "a", "d1"), Sec("prog", "p", ""), Rel(2, <<R(1, 1, 0), R(2, 2, 0)>>),
               Sec("other", ".text", "") >>,
   syms |-> << Sym(1, 0, "A"), Sym(4, 0, "f") >>]

New(id, name, def, data) == [id |-> id, name |-> name, def |-> def, section |-> data]
MCNewMaps ==
  {New(1, "a", "d1", FALSE), New(2, "a", "d2", FALSE), New(3, ".data", "d3", TRUE),
   New(4, ".data", "d4", TRUE), New(5, "other", "d1", FALSE)}

MCObjects == {RustObject, CObject, CallObject, ValueObject, MixedObject, BadObject, StrayObject}

ASSUME TheoremHypotheses == NewMapsFit /\ RefsInside

-----------------------------------------------------------------------------
(* Log sizes below, at and between the buffer sizes, and beyond the limit  *)

MCLogSizes == {0, 1, 2, 3, 4, 5, 8, 9}

-----------------------------------------------------------------------------
RestObject == Object(D("Pointer", 0, 4, <<>>), Odd, 0, <<"a", "9">>, <<"a", "/", "b">>, TRUE, TRUE)
RestEnv == [accepted |-> TRUE, log |-> 0, bpf |-> TRUE, memlock |-> TRUE, fits |-> TRUE,
            resource |-> TRUE]

MCInit ==
  /\ part \in {"filter", "types", "build", "load"}
  /\ part = "filter" \/ section = [types |-> <<>>, gap |-> 4, strLen |-> 1]
  /\ part = "types" \/ object = RestObject
  /\ part = "build" \/ obj = BadObject
  /\ part = "load" \/ env = RestEnv
  /\ FilterInit /\ Types!Init /\ BuildInit /\ LoadInit

MCNext ==
  \/ part = "filter" /\ FilterNext /\ UNCHANGED <<part, typeVars, buildVars, loadVars>>
  \/ part = "types" /\ Types!Next /\ UNCHANGED <<part, filterVars, buildVars, loadVars>>
  \/ part = "build" /\ BuildNext /\ UNCHANGED <<part, filterVars, typeVars, loadVars>>
  \/ part = "load" /\ LoadNext /\ UNCHANGED <<part, filterVars, typeVars, buildVars>>

MCSpec ==
  /\ MCInit
  /\ [][MCNext]_<<part, filterVars, typeVars, buildVars, loadVars>>
  /\ WF_filterVars(part = "filter" /\ FilterNext)
  /\ WF_loadVars(part = "load" /\ Call)

-----------------------------------------------------------------------------
\* BtfFilter: the walk over a graph with cycles ends.
WalkEnds == part = "filter" => FilterEnds

\* BtfTypes: names are fixed, each by the rules of its kind
NamesFixed == Types!NamesFixed

\* BtfTypes: types, sections, symbols and maps are found by their names
LookupsRight == Types!LookupsRight

\* BtfTypes: a kind that redBPF does not know is an error
NewKindsRefused == Types!NewKindsRefused

\* ProgramLoad: load() returns
LoadCallReturns == part = "load" => LoadReturns
=============================================================================
