------------------------------ MODULE Symbols ------------------------------
(***************************************************************************)
(* How attach_uprobe finds the place of a probe (redbpf/src/lib.rs,        *)
(* symbols.rs): the library among the mappings of the process or in        *)
(* ld.so.cache, which is loaded once; the value of the symbol in the file  *)
(* as it is read; and then perf_event_open, which opens the path again and *)
(* takes what it is given for an offset in the file.  Meanwhile packages   *)
(* are upgraded: a path gets another file, processes keep the one they     *)
(* have mapped.                                                            *)
(*                                                                         *)
(* The value of a symbol is an address.  In the file its function is bias  *)
(* bytes before that, as the linker laid out the segment of the code.      *)
(* A name of a library is the sequence of its parts, such as               *)
(* <<"libc", ".so", ".6">>.                                                *)
(***************************************************************************)
EXTENDS Integers, Sequences, SequencesExt

CONSTANTS
  Paths,       \* paths of files
  NameOf,      \* file name of each path
  Versions,    \* what may be installed: [dynsyms, syms, bias], with sequences of
               \* symbols [name, value, defined]
  Targets,     \* what attach_uprobe is called for: [lib, path]: parts, or an absolute path
  Fns,         \* names of functions, NoFn among them
  Offsets,     \* offsets in a function, or in the file if none is named
  Mappings,    \* sequences of paths that the process may have mapped
  Caches,      \* sequences of paths that ld.so.cache may have, NoCache among them
  MaxUpgrades, \* bound on the upgrades
  MaxCalls     \* bound on the calls

NoPath == ""
NoFn == ""                \* fn_name is None
NoCache == <<NoPath>>     \* ld.so.cache is missing or has another header
NoSyms == [dynsyms |-> <<>>, syms |-> <<>>, bias |-> 0]
File(id, v) == [id |-> id, dynsyms |-> v.dynsyms, syms |-> v.syms, bias |-> v.bias]
Missing == File(-1, NoSyms)

VARIABLES
  disk,     \* per path: its file, or Missing
  mapped,   \* what the process has mapped: a sequence of [path, file]
  ldCache,  \* /etc/ld.so.cache: [ok, entries], entries a sequence of [key, value]
  loaded,   \* LD_SO_CACHE: <<>>, or <<[ok, entries]>> once it was loaded
  call,     \* the call of attach_uprobe
  probe,    \* the last probe, if any: {[target, fn, offset, pid, path, file, at, ...]}
  upgrades,
  calls

vars == <<disk, mapped, ldCache, loaded, call, probe, upgrades, calls>>

Idle == [pc |-> "idle"]

-----------------------------------------------------------------------------
(* symbols.rs                                                              *)

FirstOf(s, Test(_)) == s[CHOOSE i \in DOMAIN s : Test(s[i]) /\ \A j \in 1..(i - 1) : ~Test(s[j])]

HasSo(lib) == ".so" \in Range(lib)

\* LdSoCache::load and parse: the entries or an error, which is kept as well
LoadCache == ldCache

\* LdSoCache::resolve: the first entry that starts with the library; without a
\* cache the target is the path.
CacheResolve(cache, target) ==
  LET lib == IF HasSo(target.lib) THEN target.lib ELSE target.lib \o <<".so">>
      match(e) == IsPrefix(lib, e.key)
  IN  IF cache.ok /\ \E i \in DOMAIN cache.entries : match(cache.entries[i])
      THEN FirstOf(cache.entries, match).value ELSE target.path

\* proc_maps_libs: file names and paths of the mappings.  The line of a file
\* that was replaced ends in "(deleted)" and is passed over.
ProcMapsLibs ==
  LET here == SelectSeq(mapped, LAMBDA m : disk[m.path] = m.file)
  IN  [i \in DOMAIN here |-> [key |-> NameOf[here[i].path], value |-> here[i].path]]

\* Mutant: any name that the library is a prefix of
MatchesAnyPrefix(lib, key) == IsPrefix(lib, key)

Matches(lib, key) ==
  IF HasSo(lib) THEN IsPrefix(lib, key)
  ELSE IsPrefix(lib \o <<".so">>, key) \/ IsPrefix(lib \o <<"-">>, key)

\* resolve_proc_maps_lib
ResolveProcMapsLib(target) ==
  LET libs == ProcMapsLibs
      match(e) == target.lib # <<>> /\ Matches(target.lib, e.key)
  IN  IF \E i \in DOMAIN libs : match(libs[i]) THEN FirstOf(libs, match).value ELSE target.path

\* resolve_dyn_syms and resolve_syms: the first symbol of the name
ResolveDynSyms(file, fn) == SelectSeq(file.dynsyms, LAMBDA s : s.name = fn)
ResolveSyms(file, fn) == SelectSeq(file.syms, LAMBDA s : s.name = fn)

\* ElfSymbols::resolve: <<>>, or <<symbol>>
ResolveSym(file, fn) ==
  LET found == ResolveDynSyms(file, fn) \o ResolveSyms(file, fn)
  IN  IF found = <<>> THEN <<>> ELSE <<Head(found)>>

-----------------------------------------------------------------------------
Installed == [p \in Paths |-> File(0, CHOOSE v \in Versions : TRUE)]

Init ==
  /\ disk = Installed
  /\ \E m \in Mappings : mapped = [i \in DOMAIN m |-> [path |-> m[i], file |-> disk[m[i]]]]
  /\ \E c \in Caches :
       ldCache = IF c = NoCache THEN [ok |-> FALSE, entries |-> <<>>]
                 ELSE [ok |-> TRUE, entries |-> [i \in DOMAIN c |-> [key |-> NameOf[c[i]], value |-> c[i]]]]
  /\ loaded = <<>>
  /\ call = Idle /\ probe = {} /\ upgrades = 0 /\ calls = 0

\* A package installs another file under a path, or removes it.
Upgrade(p, v) ==
  /\ upgrades < MaxUpgrades
  /\ upgrades' = upgrades + 1
  /\ disk' = [disk EXCEPT ![p] = IF v = NoSyms THEN Missing ELSE File(upgrades', v)]
  /\ call' = IF call.pc # "idle" /\ call.path = p THEN [call EXCEPT !.moved = TRUE] ELSE call
  /\ UNCHANGED <<mapped, ldCache, loaded, probe, calls>>

\* ldconfig: entries of what is installed
Ldconfig ==
  /\ ldCache' = [ok |-> TRUE, entries |-> SelectSeq(ldCache.entries, LAMBDA e : disk[e.value] # Missing)]
  /\ ldCache' # ldCache
  /\ UNCHANGED <<disk, mapped, loaded, call, probe, upgrades, calls>>

\* attach_uprobe: the path
FindPath(target, fn, offset, pid) ==
  LET load == ~pid /\ loaded = <<>>
      cache == IF load THEN <<LoadCache>> ELSE loaded
      path == IF pid THEN ResolveProcMapsLib(target)
              ELSE IF target.lib # <<>> THEN CacheResolve(cache[1], target)
              ELSE target.path
  IN  /\ call = Idle /\ calls < MaxCalls
      /\ calls' = calls + 1
      /\ loaded' = cache
      /\ call' = [pc |-> IF fn = NoFn THEN "open" ELSE "read", target |-> target, fn |-> fn,
                  offset |-> offset, pid |-> pid, path |-> path,
                  value |-> 0, moved |-> FALSE, was |-> ProcMapsLibs]
      /\ UNCHANGED <<disk, mapped, ldCache, probe, upgrades>>

\* The file is read and its symbol resolved; it may not be there.
ReadSymbol ==
  LET sym == IF call.path = NoPath THEN <<>> ELSE ResolveSym(disk[call.path], call.fn)
  IN  /\ call.pc = "read"
      /\ call' = IF sym = <<>> THEN Idle
                 ELSE [call EXCEPT !.pc = "open", !.value = sym[1].value, !.moved = FALSE]
      /\ UNCHANGED <<disk, mapped, ldCache, loaded, probe, upgrades, calls>>

\* open_uprobe_perf_event opens the path; the kernel puts the probe at that
\* offset of the file.
OpenProbe ==
  /\ call.pc = "open"
  /\ probe' = IF call.path = NoPath \/ disk[call.path] = Missing THEN {}
              ELSE {[target |-> call.target, fn |-> call.fn, offset |-> call.offset,
                     pid |-> call.pid, path |-> call.path, file |-> disk[call.path],
                     at |-> call.offset + call.value, moved |-> call.moved, was |-> call.was]}
  /\ call' = Idle
  /\ UNCHANGED <<disk, mapped, ldCache, loaded, upgrades, calls>>

Next ==
  \/ \E p \in Paths, v \in Versions \cup {NoSyms} : Upgrade(p, v)
  \/ Ldconfig
  \/ \E t \in Targets, fn \in Fns, o \in Offsets, pid \in BOOLEAN : FindPath(t, fn, o, pid)
  \/ ReadSymbol \/ OpenProbe

Spec == Init /\ [][Next]_vars

-----------------------------------------------------------------------------
(* Properties                                                              *)

\* A library without its version: the parts before ".so" or "-"
Stem(name) ==
  LET ends == {i \in DOMAIN name : name[i] \in {".so", "-"}}
  IN  {name[i] : i \in {j \in DOMAIN name : \A e \in ends : j < e}}

\* The places in the file of the functions of that name
PlacesOf(file, fn) ==
  {s.value - file.bias : s \in {t \in Range(file.dynsyms \o file.syms) : t.name = fn /\ t.defined}}

\* lib.rs: "Attach the probe to the function `fn_name` defined in the library or
\* binary at `path`. If an `offset` is given, the probe will be attached at that
\* byte offset inside the function. If `fn_name` is `None`, then `offset` is
\* treated as an absolute address."  This holds for a file whose code has the
\* same addresses as offsets and which defines the first symbol it has of that
\* name, unless the path got another file between the read and the open: the
\* value of the symbol is used as it is.  The probe is in a library of the name,
\* or at the path, that was asked for; and with a pid it is in a library that the
\* process had mapped, if one of that name was there.
ProbeAtFunction ==
  \A p \in probe :
    /\ IF p.fn = NoFn THEN p.at = p.offset
       ELSE \/ p.moved
            \/ p.file.bias # 0
            \/ ~ResolveSym(p.file, p.fn)[1].defined
            \/ p.at - p.offset \in PlacesOf(p.file, p.fn)
    /\ \/ p.path = p.target.path
       \/ Stem(p.target.lib) = Stem(NameOf[p.path])
    /\ \/ ~p.pid \/ HasSo(p.target.lib) \/ p.target.lib = <<>>
       \/ \A e \in Range(p.was) :
            Stem(e.key) = Stem(p.target.lib) => \E f \in Range(p.was) : f.value = p.path
=============================================================================
