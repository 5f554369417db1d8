------------------------------ MODULE Bindings ------------------------------
(***************************************************************************)
(* The build script of redbpf-probes (redbpf-probes/build.rs): it finds    *)
(* kernel headers (bpf-sys/src/headers.rs) or BTF of a kernel              *)
(* (bpf-sys/src/type_gen.rs), and makes gen_bindings.rs and gen_helpers.rs *)
(* of them, which BPF programs are compiled with.                          *)
(*                                                                         *)
(* A generated file is represented by what it was made of.  Every step may *)
(* fail.  Headers are in trees of directories: a tree has some of the      *)
(* files that the search tests.                                            *)
(***************************************************************************)
EXTENDS Integers, Sequences, SequencesExt

CONSTANTS
  Envs,       \* environments: [DOCS_RS, KERNEL_SOURCE, KERNEL_VERSION, REDBPF_VMLINUX]
  Trees,      \* file systems: per tree the files it has
  LibModules, \* the trees under /lib/modules in the order of their names
  Running,    \* the version of the running kernel
  Btf,        \* what is at the paths of vmlinux: "raw", "elf", "none"
  Helpers     \* headers of helpers: sequences of [name, type]

None == "none"

VARIABLES
  env,      \* the environment
  fs,       \* the trees
  defs,     \* the declarations that bindgen finds in bpf_helpers.h
  pc,
  stage,    \* what is made next: "gen_bindings.rs" or "gen_helpers.rs"
  out,      \* the generated files: [from, whole]
  numbers   \* the helpers of gen_helpers.rs: sequence of [name, idx, shown]

vars == <<env, fs, defs, pc, stage, out, numbers>>

NoFile == [from |-> <<>>, whole |-> FALSE]
Gen == {"gen_bindings.rs", "gen_helpers.rs"}

-----------------------------------------------------------------------------
(* headers.rs                                                              *)

\* split_kernel_headers: <<>>, or <<[source, build]>>; VERSION_H decides whether
\* the generated headers are taken from build.
SplitKernelHeaders(t) ==
  LET source == IF "source/kconfig.h" \in fs[t] THEN <<t, "source">> ELSE <<t, "build">>
  IN  IF fs[t] \cap {"source/kconfig.h", "build/kconfig.h"} = {} THEN <<>>
      ELSE <<[source |-> source,
              build |-> IF "build/version.h" \in fs[t] THEN <<t, "build">> ELSE source]>>

\* running_kernel_version: get_custom_header_version, or uname
RunningKernelVersion == IF env.KERNEL_VERSION # None THEN env.KERNEL_VERSION ELSE Running

LibModulesKernelHeaders ==
  IF RunningKernelVersion \in DOMAIN fs THEN SplitKernelHeaders(RunningKernelVersion) ELSE <<>>

\* kernel_headers_path: KERNEL_SOURCE as a split tree, as a plain one, and then
\* /lib/modules
KernelHeadersPath ==
  LET t == env.KERNEL_SOURCE
  IN  IF t # None /\ SplitKernelHeaders(t) # <<>> THEN SplitKernelHeaders(t)
      ELSE IF t # None /\ "kconfig.h" \in fs[t]
      THEN <<[source |-> <<t, ".">>, build |-> <<t, ".">>]>>
      ELSE LibModulesKernelHeaders

\* prefix_kernel_headers: the directories of headers, generated ones in build
PrefixKernelHeaders(path) ==
  [plain |-> path.source, generated |-> path.build]

\* available_kernel_header_paths
AvailableKernelHeaderPaths == SelectSeq(LibModules, LAMBDA t : SplitKernelHeaders(t) # <<>>)

-----------------------------------------------------------------------------
(* type_gen.rs                                                             *)

WithSystemDefault == IF Btf["system"] # "none" THEN <<"system">> ELSE <<>>
WithRawFile(path) == IF Btf[path] = "raw" THEN <<path>> ELSE <<>>
WithElfFile(path) == IF Btf[path] = "elf" THEN <<path>> ELSE <<>>

\* vmlinux_btf_dump: <<>>, or what the BTF was read of
VmlinuxBtfDump ==
  LET path == env.REDBPF_VMLINUX
  IN  IF path \in {None, "system"} THEN WithSystemDefault
      ELSE IF WithRawFile(path) # <<>> THEN WithRawFile(path) ELSE WithElfFile(path)

-----------------------------------------------------------------------------
(* build.rs                                                                *)

\* visit_foreign_item_static: a helper gets the next number; printk is commented
\* out.
VisitForeignItemStatic(acc, item) ==
  IF item.type = "Option"
  THEN Append(acc, [name |-> item.name, idx |-> Len(acc) + 1, shown |-> item.name # "bpf_trace_printk"])
  ELSE acc

GenHelpers(items) == FoldLeft(VisitForeignItemStatic, <<>>, items)

Init ==
  /\ env \in Envs /\ fs \in Trees /\ defs \in Helpers
  /\ pc = "main" /\ stage = "gen_bindings.rs"
  /\ out = [f \in Gen |-> NoFile]
  /\ numbers = <<>>

\* main: on docs.rs the headers are the last in the order of names, which need not
\* be the newest (5.4 follows 5.11); the source is chosen by the environment
Main ==
  LET paths == AvailableKernelHeaderPaths
      env2 == IF env.DOCS_RS /\ paths # <<>> THEN [env EXCEPT !.KERNEL_SOURCE = Last(paths)] ELSE env
  IN  /\ pc = "main"
      /\ env' = env2
      /\ pc' = IF env2.REDBPF_VMLINUX # None THEN "vmlinux"
               ELSE IF env2.KERNEL_SOURCE # None \/ env2.KERNEL_VERSION # None THEN "headers"
               ELSE "headers_or_vmlinux"
      /\ UNCHANGED <<fs, defs, stage, out, numbers>>

\* create_module: the file is written, or part of it
CreateModule(from, whole) ==
  /\ out' = [out EXCEPT ![stage] = [from |-> from, whole |-> whole]]
  /\ numbers' = IF stage = "gen_helpers.rs" THEN GenHelpers(defs) ELSE numbers

Advance ==
  IF stage = "gen_bindings.rs" THEN stage' = "gen_helpers.rs" /\ pc' = pc
  ELSE stage' = stage /\ pc' = "Ok"

\* Mutant: the fallback goes on where the headers failed.
HeadersFailResumes ==
  IF pc = "headers" THEN pc' = "Err" /\ stage' = stage
  ELSE pc' = "vmlinux" /\ stage' = stage

\* The error of generate_bindings_kernel_headers: unwrap, or the fallback
HeadersFail ==
  IF pc = "headers" THEN pc' = "Err" /\ stage' = stage
  ELSE pc' = "vmlinux" /\ stage' = "gen_bindings.rs"

\* generate_bindings_kernel_headers: get_builder_kernel_headers, bindgen and
\* create_module, once for each file
GenerateKernelHeaders(outcome) ==
  LET path == KernelHeadersPath
  IN  /\ pc \in {"headers", "headers_or_vmlinux"}
      /\ IF path = <<>> \/ outcome = "Err" THEN HeadersFail /\ UNCHANGED <<out, numbers>>
         ELSE /\ CreateModule(<<"headers", PrefixKernelHeaders(path[1])>>, outcome = "Ok")
              /\ IF outcome = "Ok" THEN Advance ELSE HeadersFail
      /\ UNCHANGED <<env, fs, defs>>

\* generate_bindings_vmlinux: get_builder_vmlinux (the dump of the types into a
\* header), bindgen, the supplement and create_module, once for each file
GenerateVmlinux(outcome) ==
  LET dump == VmlinuxBtfDump
  IN  /\ pc = "vmlinux"
      /\ IF dump = <<>> \/ outcome = "Err" THEN pc' = "Err" /\ UNCHANGED <<stage, out, numbers>>
         ELSE /\ CreateModule(<<"vmlinux", dump[1]>>, outcome = "Ok")
              /\ IF outcome = "Ok" THEN Advance ELSE pc' = "Err" /\ stage' = stage
      /\ UNCHANGED <<env, fs, defs>>

\* The script is run again with another environment or other headers, over what
\* the last run has left.
Rerun ==
  /\ pc \in {"Ok", "Err"}
  /\ env' \in Envs
  /\ fs' = fs /\ defs' = defs
  /\ pc' = "main" /\ stage' = "gen_bindings.rs"
  /\ UNCHANGED <<out, numbers>>

Outcomes == {"Ok", "Err", "Part"}   \* "Part": an error after part of a file was written

Next ==
  \/ Main
  \/ \E outcome \in Outcomes : GenerateKernelHeaders(outcome) \/ GenerateVmlinux(outcome)
  \/ Rerun

Spec == Init /\ [][Next]_vars

-----------------------------------------------------------------------------
(* Properties                                                              *)

\* The number of a helper in the kernel is its place in bpf_helpers.h.
KernelNumber(name) ==
  LET helpers == SelectSeq(defs, LAMBDA d : d.type = "Option")
  IN  CHOOSE i \in DOMAIN helpers : helpers[i].name = name

\* When the build script succeeds, both files are whole and made of the same
\* headers or the same BTF, also after runs that failed half-way.  It is the one
\* that the environment names: REDBPF_VMLINUX, or else headers in KERNEL_SOURCE
\* if there are any, or else those of KERNEL_VERSION; BTF of the running kernel
\* is used only if no variable is set.  Plain and generated headers are of one
\* tree.  Every helper has the number that the kernel knows it by.
BindingsRight ==
  pc = "Ok" =>
    LET from == out["gen_bindings.rs"].from
        tree == from[2].plain[1]
    IN  /\ \A f \in Gen : out[f].whole /\ out[f].from = from
        /\ IF env.REDBPF_VMLINUX # None THEN from = <<"vmlinux", env.REDBPF_VMLINUX>>
           ELSE IF env.KERNEL_SOURCE # None \/ env.KERNEL_VERSION # None
           THEN /\ from[1] = "headers" /\ from[2].generated[1] = tree
                /\ IF env.KERNEL_SOURCE # None /\ fs[env.KERNEL_SOURCE] \ {"build/version.h"} # {}
                   THEN tree = env.KERNEL_SOURCE
                   ELSE tree = IF env.KERNEL_VERSION # None THEN env.KERNEL_VERSION ELSE Running
           ELSE from[1] = "headers" => tree = Running /\ from[2].generated[1] = tree
        /\ \A i \in DOMAIN numbers : numbers[i].idx = KernelNumber(numbers[i].name)
=============================================================================
