------------------------------ MODULE MapIter ------------------------------
(***************************************************************************)
(* HashMap, LruHashMap, PerCpuHashMap and LruPerCpuHashMap of              *)
(* redbpf/src/lib.rs: set, get, delete and the iterator MapIter, while BPF *)
(* programs and other users of the map change it.                          *)
(*                                                                         *)
(* MapIter::next makes two system calls, get_next_key and lookup, and the  *)
(* map may change before, between and after them.  The kernel walks its    *)
(* buckets in order and each from its head, and starts over from the first *)
(* bucket when the key it is given is gone.  It puts new elements at the   *)
(* head of their bucket.  An update makes a new element, too, so that the  *)
(* key moves; only in the per-CPU maps it changes the element in place.    *)
(***************************************************************************)
EXTENDS Integers, FiniteSets

CONSTANTS
  NumKeys,     \* the keys are 1 .. NumKeys
  BucketOf,    \* the bucket of each key
  MaxEntries   \* max_entries of the map definition

Keys == 1 .. NumKeys
NoKey == 0

ASSUME IterAssumption ==
  NumKeys \in Nat /\ MaxEntries \in Nat /\ BucketOf \in [Keys -> Nat]

VARIABLES
  lru,     \* the kind of the map: it evicts an entry when it is full;
  percpu,  \* it has a value for every CPU
  map,     \* the keys in the map
  before,  \* pairs of keys in the map, in the order of the kernel's walk
  busy,    \* the map is still being changed
  last,    \* MapIter::last_key
  pc,      \* "idle"; in next() before "next_key" or "get"; "end": it returned None
  out,     \* the keys returned so far (history)
  again,   \* the keys returned more than once (history)
  stable,  \* the keys whose elements are in the map since the iteration began (history)
  jumps    \* the element of the iterator's key was taken from under it (history)

kind == <<lru, percpu>>
mapVars == <<lru, percpu, map, before, busy, last, pc, out, again, stable, jumps>>

IterInit ==
  /\ lru \in BOOLEAN /\ percpu \in BOOLEAN
  /\ map = {} /\ before = {}
  /\ busy = TRUE
  /\ last = NoKey /\ pc = "idle" /\ out = {} /\ again = {}
  /\ stable = {} /\ jumps = FALSE

iterVars == <<lru, percpu, busy, last, pc, out, again>>

-----------------------------------------------------------------------------
(* The hash table of the kernel (external): bpf_map_update_elem,           *)
(* bpf_map_delete_elem and bpf_map_get_next_key                            *)

\* The order of the keys S, which are in the map
Among(S) == {p \in before : p[1] \in S /\ p[2] \in S}

\* The order of S and k, with k at the head of its bucket
AtHead(S, k) ==
  Among(S \ {k})
  \cup {<<j, k>> : j \in {i \in S \ {k} : BucketOf[i] < BucketOf[k]}}
  \cup {<<k, j>> : j \in {i \in S \ {k} : BucketOf[i] >= BucketOf[k]}}

\* The elements of the keys G are taken out of the table.
Removed(G) ==
  /\ stable' = stable \ G
  /\ jumps' = (jumps \/ (last \in G /\ pc # "end"))

\* k is stored, after the keys V were evicted.
Put(k, V) ==
  LET rest == map \ V
  IN  /\ map' = rest \cup {k}
      /\ before' = IF percpu /\ k \in rest THEN Among(rest) ELSE AtHead(rest, k)
      /\ Removed(IF percpu THEN V ELSE V \cup {k})

\* HashMap::set ignores the result of bpf_map_set: a full map drops the entry
\* silently.
HashSet(k) ==
  /\ busy /\ ~lru
  /\ IF k \in map \/ Cardinality(map) < MaxEntries
     THEN Put(k, {}) ELSE UNCHANGED <<map, before, stable, jumps>>
  /\ UNCHANGED iterVars

\* LruHashMap::set: the kernel takes an element before it looks for the key, and
\* may evict an entry to get one; a full map has to.
LruSet(k) ==
  /\ busy /\ lru
  /\ \E V \in {{}} \cup {{v} : v \in map} :
       Cardinality((map \ V) \cup {k}) <= MaxEntries /\ Put(k, V)
  /\ UNCHANGED iterVars

Delete(k) ==
  /\ busy /\ k \in map
  /\ map' = map \ {k}
  /\ before' = Among(map \ {k})
  /\ Removed({k})
  /\ UNCHANGED iterVars

\* From some point on the map is left alone.
Quiesce ==
  /\ busy
  /\ busy' = FALSE
  /\ UNCHANGED <<kind, map, before, last, pc, out, again, stable, jumps>>

\* The first of the keys S, NoKey when there is none
FirstOf(S) ==
  IF S = {} THEN {NoKey} ELSE {j \in S : \A i \in S \ {j} : <<j, i>> \in before}

\* The key the kernel returns after k
KeyAfter(k) ==
  FirstOf(IF k \in map THEN {j \in map : <<k, j>> \in before} ELSE map)

-----------------------------------------------------------------------------
(* HashMap::iter and MapIter::next                                         *)

\* Mutant: iter() already fetches the first key, which next() then steps over.
IterPrimed ==
  /\ pc = "idle"
  /\ pc' = "next_key"
  /\ last' \in KeyAfter(NoKey)
  /\ stable' = map
  /\ UNCHANGED <<kind, map, before, busy, out, again, jumps>>

Iter ==
  /\ pc = "idle"
  /\ pc' = "next_key"
  /\ last' = NoKey
  /\ stable' = map
  /\ UNCHANGED <<kind, map, before, busy, out, again, jumps>>

\* Mutant: next() asks for the first key again, last_key being dropped.
NextKeyForgets ==
  /\ pc = "next_key"
  /\ last' \in KeyAfter(NoKey)
  /\ pc' = IF last' = NoKey THEN "end" ELSE "get"
  /\ UNCHANGED <<kind, map, before, busy, out, again, stable, jumps>>

NextKey ==
  /\ pc = "next_key"
  /\ last' \in KeyAfter(last)
  /\ pc' = IF last' = NoKey THEN "end" ELSE "get"
  /\ UNCHANGED <<kind, map, before, busy, out, again, stable, jumps>>

\* The entry may be gone by now: then next() returns None.  Otherwise the
\* caller has the item and calls next() again.
Get ==
  /\ pc = "get"
  /\ IF last \in map
     THEN /\ out' = out \cup {last}
          /\ again' = IF last \in out THEN again \cup {last} ELSE again
          /\ pc' = "next_key"
     ELSE /\ pc' = "end"
          /\ UNCHANGED <<out, again>>
  /\ UNCHANGED <<kind, map, before, busy, last, stable, jumps>>

IterStep == Iter \/ NextKey \/ Get

IterNext ==
  \/ \E k \in Keys : HashSet(k) \/ LruSet(k) \/ Delete(k)
  \/ Quiesce
  \/ IterStep

\* The thread that iterates keeps running.
IterSpec == IterInit /\ [][IterNext]_mapVars /\ WF_mapVars(IterStep)

-----------------------------------------------------------------------------
\* lib.rs, on iter(): "Return an iterator over all items in the map".  When
\* the kernel has no further key, every entry has been returned that was in the
\* map all the time and was not replaced by an update, even if the iterator was
\* thrown back on the way; and on the way it passes over none of them, thrown
\* back or not.  (An entry that is updated meanwhile may move behind the
\* iterator and be left out, except in per-CPU maps; and the iteration that ends
\* because its entry was deleted between the two system calls stands on that
\* key, and promises nothing.)  An entry is returned twice only when the element
\* the iterator stood on was deleted, evicted or replaced.
StableReturned ==
  /\ pc = "end" /\ last = NoKey => stable \subseteq out
  /\ pc # "end" => \A k \in stable : <<k, last>> \in before => k \in out
  /\ ~jumps => again = {}

\* Once the map is left alone, the iteration ends.
IterationEnds == (pc # "idle" /\ ~busy) ~> (pc = "end")
=============================================================================
