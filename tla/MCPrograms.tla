----------------------------- MODULE MCPrograms -----------------------------
(* Three small modules of programs: one that uses perf events, one that     *)
(* uses links and sockets, one with two XDP programs.  They have nothing in *)
(* common but the descriptor table, which each fills.                       *)
(*                                                                          *)
(* The other part is the search for the place of a uprobe, with three       *)
(* libraries whose names begin alike, four versions of them that have the   *)
(* function at different places, at an address that is not its offset, or   *)
(* import it, and one upgrade.  A behaviour is one of the part it begins    *)
(* with, the other rests.                                                   *)
EXTENDS Programs, TLC, Sequences

VARIABLES part, disk, mapped, ldCache, loaded, call, probe, upgrades, calls

symVars == <<disk, mapped, ldCache, loaded, call, probe, upgrades, calls>>

MCPerfKind == "kp" :> "kprobe" @@ "tp" :> "tracepoint"
MCLinkKind == "sl" :> "sk_lookup" @@ "ti" :> "task_iter" @@ "sf" :> "socketfilter"
              @@ "sp" :> "streamparser"
MCXdpKind  == "x1" :> "xdp" @@ "x2" :> "xdp"

MCKind       == MCPerfKind @@ MCLinkKind @@ MCXdpKind
MCProgs      == DOMAIN MCKind
MCModules    == {DOMAIN MCPerfKind, DOMAIN MCLinkKind, DOMAIN MCXdpKind}
MCXdpModules == {DOMAIN MCXdpKind}

MCNameOf ==
  "/lib/libc.so.6" :> <<"libc", ".so", ".6">> @@
  "/lib/libc-2.31.so" :> <<"libc", "-", "2.31", ".so">> @@
  "/lib/libcrypto.so" :> <<"libc", "rypto", ".so">>
Sym(n, v) == [name |-> n, value |-> v, defined |-> v # 0]
MCVersions ==
  {[dynsyms |-> <<Sym("f", 4)>>, syms |-> <<Sym("g", 6), Sym("f", 5)>>, bias |-> 0],
   [dynsyms |-> <<Sym("g", 4)>>, syms |-> <<Sym("f", 5)>>, bias |-> 0],
   [dynsyms |-> <<Sym("f", 4)>>, syms |-> <<>>, bias |-> 2],
   [dynsyms |-> <<Sym("f", 0)>>, syms |-> <<Sym("f", 4)>>, bias |-> 0]}
MCTargets ==
  [lib : {<<"libc">>, <<"libc", ".so">>}, path : {""}]
    \cup {[lib |-> <<>>, path |-> "/lib/libc.so.6"]}
MCMappings ==
  {<<>>, <<"/lib/libcrypto.so", "/lib/libc.so.6">>, <<"/lib/libc-2.31.so", "/lib/libc.so.6">>}
MCCaches == {<<"/lib/libcrypto.so", "/lib/libc.so.6">>, <<"/lib/libcrypto.so">>, <<"">>}

Symbols == INSTANCE Symbols WITH
  Paths <- DOMAIN MCNameOf, NameOf <- MCNameOf, Versions <- MCVersions, Targets <- MCTargets,
  Fns <- {"", "f"}, Offsets <- {1}, Mappings <- MCMappings, Caches <- MCCaches, MaxUpgrades <- 1, MaxCalls <- 2

MCInit ==
  /\ part \in {"programs", "symbols"}
  /\ Init /\ (part = "symbols" => alive = DOMAIN MCXdpKind)
  /\ Symbols!Init /\ (part = "programs" => mapped = <<>> /\ Len(ldCache.entries) = 1)

MCNext ==
  \/ part = "programs" /\ Next /\ UNCHANGED <<part, symVars>>
  \/ part = "symbols" /\ Symbols!Next /\ UNCHANGED <<part, vars>>

MCSpec == MCInit /\ [][MCNext]_<<part, vars, symVars>>

\* Symbols: a uprobe is at the function that was asked for
ProbeAtFunction == Symbols!ProbeAtFunction
=============================================================================
