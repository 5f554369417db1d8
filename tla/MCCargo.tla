------------------------------ MODULE MCCargo -------------------------------
(* Three programs, one of them with a name that is no identifier, and one   *)
(* edit of the sources (CargoBuild); and the generated bindings, for all    *)
(* environments and trees of headers below (Bindings).  A behaviour is one  *)
(* of the part it begins with, the other rests.                             *)
EXTENDS CargoBuild, TLC

CONSTANTS a, b, dashed   \* the programs; the name of the last one is no identifier

VARIABLES part, env, fs, defs, bpc, stage, out, numbers

bindVars == <<env, fs, defs, bpc, stage, out, numbers>>

-----------------------------------------------------------------------------
MCIdentOf == [p \in Programs |-> IF p = dashed THEN "ident" ELSE p]

\* Names that are identifiers may be exchanged for each other.
Names == Permutations({a, b})

\* Debug information about a method of a map, or about something else; a call of
\* a helper; another instruction
Dbg(method) == [op |-> "dbg", callee |-> "llvm.dbg.value", ofMap |-> TRUE, method |-> method]
OtherDbg == [op |-> "dbg", callee |-> "llvm.dbg.value", ofMap |-> FALSE, method |-> "get"]
Helper(n, map) == [op |-> "call", helper |-> n, map |-> map]
Lookup(map) == Helper(1, map)
Update(map) == Helper(2, map)
Load == [op |-> "load"]

MCInsts == {Dbg(m) : m \in {"get", "get_mut", "get_val", "set"}}
           \cup {Helper(n, m) : n \in {1, 2}, m \in {"wide", "slim"}} \cup {OtherDbg, Load}

\* One object has a reference to a misaligned value, behind an update; in the
\* other the records and lookups of one map stand next to those of another, in
\* two functions, or behind each other.
MCFuncs == {
  << <<Dbg("set"), Lookup("wide")>>, <<Dbg("get_mut"), OtherDbg, Update("wide"), Lookup("wide")>> >>,
  << <<Dbg("get"), Lookup("slim"), Lookup("wide"), Dbg("get")>>,
     <<Lookup("wide"), Load, Dbg("get_mut"), Dbg("get_val"), Lookup("wide")>> >> }

Reloc(sec, type) == [sec |-> sec, found |-> TRUE, type |-> type]
MCBitcodes ==
  [funcs : MCFuncs, tc : {FALSE}, relocs : {{Reloc(".relkprobe/", "STT_SECTION")}}]
  \cup [funcs : {<<>>}, tc : {TRUE},
        relocs : {{Reloc(".reltc_action/", "STT_SECTION")},
                  {Reloc(".reltc_action/", "STT_OBJECT"), Reloc(".relkprobe/", "STT_SECTION")}}]

MCMapAlign == [m \in {"wide", "slim"} |-> IF m = "wide" THEN 16 ELSE 8]
MCLinked == <<13, 0>>
MCRustcLLVM == {<<13, 0>>, <<13, 1>>}

-----------------------------------------------------------------------------
NoVar == "none"

MCEnvs == [DOCS_RS : BOOLEAN, KERNEL_SOURCE : {NoVar, "src"}, KERNEL_VERSION : {NoVar, "5.4"},
           REDBPF_VMLINUX : {NoVar, "system", "/boot/vmlinux"}]

MCTrees ==
  {[t \in {"src", "5.4", "5.11"} |-> IF t = "src" THEN s ELSE IF t = "5.4" THEN o ELSE n] :
     s \in SUBSET {"kconfig.h", "source/kconfig.h", "build/version.h"},
     o \in {{}, {"build/kconfig.h"}},
     n \in {{}, {"source/kconfig.h", "build/kconfig.h", "build/version.h"}}}

MCBtf == [p \in {"system", "/boot/vmlinux"} |-> IF p = "system" THEN "raw" ELSE "elf"]

Def(name, type) == [name |-> name, type |-> type]
MCHelpers ==
  {<<Def("bpf_map_lookup_elem", "Option"), Def("bpf_trace_printk", "Option"),
     Def("bpf_attr", "struct"), Def("bpf_get_smp_processor_id", "Option")>>}

Bind == INSTANCE Bindings WITH
  Envs <- MCEnvs, Trees <- MCTrees, LibModules <- <<"5.11", "5.4">>, Running <- "5.11",
  Btf <- MCBtf, Helpers <- MCHelpers, pc <- bpc

-----------------------------------------------------------------------------
RestEnv == [DOCS_RS |-> FALSE, KERNEL_SOURCE |-> NoVar, KERNEL_VERSION |-> NoVar,
            REDBPF_VMLINUX |-> NoVar]

MCInit ==
  /\ part \in {"build", "bindings"}
  /\ part = "bindings" \/ env = RestEnv
  /\ part = "bindings" \/ fs = [t \in {"src", "5.4", "5.11"} |-> {}]
  /\ Init /\ Bind!Init

MCNext ==
  \/ part = "build" /\ Next /\ UNCHANGED <<part, bindVars>>
  \/ part = "bindings" /\ Bind!Next /\ UNCHANGED <<part, vars>>

MCSpec == MCInit /\ [][MCNext]_<<part, vars, bindVars>>

-----------------------------------------------------------------------------
\* Bindings: generated files come from the chosen kernel and number the helpers
BindingsRight == Bind!BindingsRight
=============================================================================
