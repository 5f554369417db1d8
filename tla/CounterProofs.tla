---------------------------- MODULE CounterProofs ----------------------------
(***************************************************************************)
(* Proofs about Counters, for any finite set of CPUs and any sizes: every  *)
(* probe that has been counted exactly and has not reached the other map   *)
(* yet makes the other count smaller by one (Behind), so the bound         *)
(* survives lost updates.  Both counts are sums over the CPUs; the facts   *)
(* about sums that this takes come first.                                  *)
(*                                                                         *)
(* The last part is about BtfFilter: which types the filter takes out of a *)
(* section, and that the types left over make up the same graph.           *)
(***************************************************************************)
EXTENDS Counters, BtfFilter, FiniteSetTheorems, WellFoundedInduction, TLAPS
-----------------------------------------------------------------------------
(* Sums over finite sets                                                   *)

\* An element with the least measure.
LEMMA Least ==
  ASSUME NEW T, NEW m, \A s \in T : m[s] \in Nat, T # {}
  PROVE  \E s \in T : \A t \in T : m[s] <= m[t]
<1>1. PICK N : N = {m[s] : s \in T}
  BY Zenon
<1>2. N \subseteq Nat /\ N # {}
  BY <1>1, Zenon
<1>3. PICK x \in N : \A y \in N : ~(<<y, x>> \in OpToRel(<, Nat))
  BY <1>2, WFMin, NatLessThanWellFounded, Zenon
<1>4. \A y \in N : x <= y
  <2>1. SUFFICES ASSUME NEW y \in N, y < x PROVE FALSE
    BY <1>2
  <2>2. <<y, x>> \in OpToRel(<, Nat)
    BY <1>2, <2>1, Zenon DEF OpToRel
  <2> QED
    BY <1>3, <2>2, Zenon
<1> QED
  BY <1>1, <1>4, Zenon

\* A property of subsets that fails somewhere fails on a least subset.
LEMMA LeastSubset ==
  ASSUME NEW S, IsFiniteSet(S), NEW B, B \subseteq SUBSET S, B # {}
  PROVE  \E s \in B : \A x \in s : s \ {x} \notin B
<1>1. \A s \in SUBSET S : IsFiniteSet(s) /\ Cardinality(s) \in Nat
  BY FS_Subset, FS_CardinalityType, Zenon
<1>2. PICK m : m = [t \in SUBSET S |-> Cardinality(t)]
  BY Zenon
<1>3. \A t \in B : m[t] = Cardinality(t) /\ m[t] \in Nat
  BY <1>1, <1>2, Zenon
<1>4. PICK s \in B : \A t \in B : m[s] <= m[t]
  BY <1>3, Least, Zenon
<1>5. ASSUME NEW x \in s, s \ {x} \in B PROVE FALSE
  <2>1. Cardinality(s \ {x}) = Cardinality(s) - 1
    BY <1>1, FS_RemoveElement, Zenon
  <2>2. m[s \ {x}] = m[s] - 1 /\ m[s] \in Nat
    BY <1>3, <1>5, <2>1, Zenon
  <2> QED
    BY <1>4, <1>5, <2>2
<1> QED
  BY <1>4, <1>5, Zenon

Chosen(s) == CHOOSE x \in s : TRUE

\* g adds up f over the subsets of S.
Sums(g, f, S) ==
  g = [s \in SUBSET S |-> IF s = {} THEN 0 ELSE f[Chosen(s)] + g[s \ {Chosen(s)}]]

\* A function that does so up to sets of n elements.
SumsUpTo(g, f, S, n) ==
  /\ g \in [SUBSET S -> Int]
  /\ \A s \in SUBSET S : Cardinality(s) <= n =>
       g[s] = IF s = {} THEN 0 ELSE f[Chosen(s)] + g[s \ {Chosen(s)}]

\* CHOOSE takes an element of a set that has one.
LEMMA ChosenIn == ASSUME NEW s, s # {} PROVE Chosen(s) \in s
  BY Zenon DEF Chosen

\* A function that sums up all sets of n elements extends to n + 1 elements.
LEMMA SumsGrow ==
  ASSUME NEW S, IsFiniteSet(S), NEW f, \A x \in S : f[x] \in Int, NEW n \in Nat, NEW g,
         SumsUpTo(g, f, S, n)
  PROVE  \E h : SumsUpTo(h, f, S, n + 1)
<1> DEFINE h == [s \in SUBSET S |-> IF Cardinality(s) <= n THEN g[s]
                                    ELSE f[Chosen(s)] + g[s \ {Chosen(s)}]]
<1>1. \A s \in SUBSET S : IsFiniteSet(s) /\ Cardinality(s) \in Nat
  BY FS_Subset, FS_CardinalityType, Zenon
<1>2. Cardinality({}) = 0
  BY FS_EmptySet, Zenon
<1>3. \A s \in SUBSET S : s # {} =>
        /\ Chosen(s) \in S /\ s \ {Chosen(s)} \in SUBSET S
        /\ Cardinality(s \ {Chosen(s)}) = Cardinality(s) - 1
  <2> SUFFICES ASSUME NEW s \in SUBSET S, s # {}
               PROVE  /\ Chosen(s) \in S /\ s \ {Chosen(s)} \in SUBSET S
                      /\ Cardinality(s \ {Chosen(s)}) = Cardinality(s) - 1
    BY Zenon
  <2>1. PICK x : x = Chosen(s)
    BY Zenon
  <2>2. x \in s
    BY <2>1, ChosenIn, Zenon
  <2>3. Cardinality(s \ {x}) = Cardinality(s) - 1
    BY <1>1, <2>2, FS_RemoveElement, Zenon
  <2> QED
    BY <2>1, <2>2, <2>3, Zenon
<1>4. h \in [SUBSET S -> Int]
  <2> SUFFICES ASSUME NEW s \in SUBSET S PROVE h[s] \in Int
    BY Zenon
  <2>1. CASE Cardinality(s) <= n
    BY <2>1, Zenon DEF SumsUpTo
  <2>2. CASE ~(Cardinality(s) <= n)
    <3>1. s # {}
      BY <1>2, <2>2
    <3>2. f[Chosen(s)] \in Int /\ g[s \ {Chosen(s)}] \in Int
      BY <1>3, <3>1, Zenon DEF SumsUpTo
    <3> QED
      BY <2>2, <3>2
  <2> QED
    BY <2>1, <2>2, Zenon
<1>5. ASSUME NEW s \in SUBSET S, Cardinality(s) <= n + 1
      PROVE  h[s] = IF s = {} THEN 0 ELSE f[Chosen(s)] + h[s \ {Chosen(s)}]
  <2>1. CASE s = {}
    <3>1. h[s] = g[s] /\ g[s] = 0
      BY <1>2, <2>1 DEF SumsUpTo
    <3> QED
      BY <2>1, <3>1, Zenon
  <2>2. CASE s # {}
    <3>1. PICK t : t = s \ {Chosen(s)}
      BY Zenon
    <3>2. t \in SUBSET S /\ Cardinality(t) <= n /\ Cardinality(s) \in Nat
      BY <1>1, <1>3, <1>5, <2>2, <3>1
    <3>3. h[t] = g[t]
      BY <3>2, Zenon
    <3>4. h[s] = f[Chosen(s)] + g[t]
      BY <2>2, <3>1, Zenon DEF SumsUpTo
    <3> QED
      BY <2>2, <3>1, <3>3, <3>4, Zenon
  <2> QED
    BY <2>1, <2>2, Zenon
<1>6. SumsUpTo(h, f, S, n + 1)
  BY <1>4, <1>5, Zenon DEF SumsUpTo
<1> QED
  BY <1>6, Zenon

\* There is such a function for every finite set.
LEMMA SumsExist ==
  ASSUME NEW S, IsFiniteSet(S), NEW f, \A x \in S : f[x] \in Int
  PROVE  \E g \in [SUBSET S -> Int] : Sums(g, f, S)
<1>1. \A n \in Nat : \E g : SumsUpTo(g, f, S, n)
  <2> DEFINE Bad == {n \in Nat : ~\E g : SumsUpTo(g, f, S, n)}
  <2>1. SUFFICES ASSUME Bad # {} PROVE FALSE
    BY Zenon
  <2>2. PICK m \in Bad : \A k \in Bad : m <= k
    <3>1. PICK id : id = [n \in Nat |-> n]
      BY Zenon
    <3>2. PICK m \in Bad : \A k \in Bad : id[m] <= id[k]
      BY <2>1, <3>1, Least, Zenon
    <3> QED
      BY <3>1, <3>2, Zenon
  <2>3. CASE m = 0
    <3> DEFINE g == [s \in SUBSET S |-> 0]
    <3>1. g \in [SUBSET S -> Int]
      OBVIOUS
    <3>2. ASSUME NEW s \in SUBSET S, Cardinality(s) <= 0 PROVE s = {}
      <4>1. IsFiniteSet(s) /\ Cardinality(s) \in Nat
        BY FS_Subset, FS_CardinalityType, Zenon
      <4>2. Cardinality(s) = 0
        BY <3>2, <4>1
      <4> QED
        BY <4>1, <4>2, FS_EmptySet, Zenon
    <3>3. SumsUpTo(g, f, S, 0)
      BY <3>1, <3>2, Zenon DEF SumsUpTo
    <3> QED
      BY <2>3, <3>3, Zenon
  <2>4. CASE m # 0
    <3>1. m - 1 \in Nat /\ m - 1 \notin Bad
      BY <2>2, <2>4
    <3>2. PICK g : SumsUpTo(g, f, S, m - 1)
      BY <3>1, Zenon
    <3>3. \E h : SumsUpTo(h, f, S, (m - 1) + 1)
      BY <3>1, <3>2, SumsGrow, Zenon
    <3> QED
      BY <3>3
  <2> QED
    BY <2>3, <2>4, Zenon
<1>2. Cardinality(S) \in Nat /\ \A s \in SUBSET S : Cardinality(s) <= Cardinality(S)
  BY FS_Subset, FS_CardinalityType, Zenon
<1>3. PICK g : SumsUpTo(g, f, S, Cardinality(S))
  BY <1>1, <1>2, Zenon
<1>4. g \in [SUBSET S -> Int]
      /\ \A s \in SUBSET S : g[s] = IF s = {} THEN 0 ELSE f[Chosen(s)] + g[s \ {Chosen(s)}]
  BY <1>2, <1>3, Zenon DEF SumsUpTo
<1> QED
  BY <1>4, Zenon DEF Sums

SumsAll(g, f, S) ==
  /\ IsFiniteSet(S) /\ \A x \in S : f[x] \in Int
  /\ g \in [SUBSET S -> Int] /\ Sums(g, f, S)

LosesAny(g, f, S) == \A r \in SUBSET S : \A c \in r : g[r] = f[c] + g[r \ {c}]

\* Whatever element is taken out, it is what the sum loses.
LEMMA SumsAny ==
  ASSUME NEW S, NEW f, NEW g, SumsAll(g, f, S)
  PROVE  LosesAny(g, f, S)
<1>0. /\ IsFiniteSet(S) /\ \A x \in S : f[x] \in Int
      /\ g \in [SUBSET S -> Int] /\ Sums(g, f, S)
  BY Zenon DEF SumsAll
<1> DEFINE Bad == {s \in SUBSET S : ~\A d \in s : g[s] = f[d] + g[s \ {d}]}
<1>1. SUFFICES ASSUME Bad # {} PROVE FALSE
  BY Zenon DEF LosesAny
<1>2. PICK s \in Bad : \A x \in s : s \ {x} \notin Bad
  BY <1>0, <1>1, LeastSubset, Zenon
<1>4. PICK d \in s : g[s] # f[d] + g[s \ {d}]
  BY Zenon
<1>5. PICK x : x = Chosen(s)
  BY Zenon
<1>6. x \in s /\ s \in SUBSET S
  BY <1>4, <1>5, ChosenIn, Zenon
<1>7. g[s] = f[x] + g[s \ {x}]
  BY <1>0, <1>4, <1>5, <1>6, Zenon DEF Sums
<1>8. x # d
  BY <1>4, <1>7, Zenon
<1>9. PICK t, u : t = s \ {x} /\ u = s \ {d}
  BY Zenon
<1>10. t \in SUBSET S /\ u \in SUBSET S /\ d \in t /\ x \in u /\ t \ {d} = u \ {x}
  BY <1>6, <1>8, <1>9, Zenon
<1>13. t \notin Bad /\ u \notin Bad
  BY <1>2, <1>4, <1>6, <1>9, Zenon
<1>14. g[t] = f[d] + g[t \ {d}] /\ g[u] = f[x] + g[u \ {x}]
  BY <1>10, <1>13, Zenon
<1>15. PICK w : w = t \ {d}
  BY Zenon
<1>16. w \in SUBSET S /\ g[w] \in Int /\ f[d] \in Int /\ f[x] \in Int
  BY <1>0, <1>6, <1>10, <1>15, Zenon
<1>17. g[s] = f[x] + (f[d] + g[w]) /\ g[u] = f[x] + g[w]
  BY <1>7, <1>9, <1>10, <1>14, <1>15, Zenon
<1> QED
  BY <1>4, <1>9, <1>16, <1>17

\* The function that SumFunctionOnSet takes.
LEMMA SumFunctionIs ==
  ASSUME NEW f, NEW S
  PROVE  SumFunctionOnSet(f, S) = (CHOOSE g : Sums(g, f, S))[S]
  BY Zenon DEF SumFunctionOnSet, FoldFunctionOnSet, MapThenFoldSet, Sums, Chosen

\* Functions that add up f agree on the sets both know.
LEMMA SumsAgree ==
  ASSUME NEW S, IsFiniteSet(S), NEW R \in SUBSET S, NEW f, NEW g, NEW h,
         Sums(g, f, S), Sums(h, f, R)
  PROVE  g[R] = h[R]
<1> DEFINE B == {s \in SUBSET R : g[s] # h[s]}
<1>1. SUFFICES ASSUME B # {} PROVE FALSE
  BY Zenon
<1>2. PICK s \in B : \A x \in s : s \ {x} \notin B
  <2>1. B \subseteq SUBSET S
    BY Zenon
  <2> QED
    BY <1>1, <2>1, LeastSubset, Zenon
<1>3. s \in SUBSET S /\ s \in SUBSET R
  BY Zenon
<1>4. /\ g[s] = IF s = {} THEN 0 ELSE f[Chosen(s)] + g[s \ {Chosen(s)}]
      /\ h[s] = IF s = {} THEN 0 ELSE f[Chosen(s)] + h[s \ {Chosen(s)}]
  BY <1>3, Zenon DEF Sums
<1>5. s # {}
  BY <1>4, Zenon
<1>6. Chosen(s) \in s
  BY <1>5, ChosenIn, Zenon
<1>7. g[s \ {Chosen(s)}] = h[s \ {Chosen(s)}]
  BY <1>2, <1>6, Zenon
<1> QED
  BY <1>4, <1>5, <1>7, Zenon

\* What SumFunctionOnSet is: nothing for the empty set, and one more term for
\* one more element.
LEMMA SumOfNone == ASSUME NEW f PROVE SumFunctionOnSet(f, {}) = 0
<1>1. IsFiniteSet({}) /\ \A x \in {} : f[x] \in Int
  BY FS_EmptySet, Zenon
<1>2. \E g : Sums(g, f, {})
  BY <1>1, SumsExist, Zenon
<1>3. PICK g : g = CHOOSE k : Sums(k, f, {})
  BY Zenon
<1>4. Sums(g, f, {})
  BY <1>2, <1>3, Zenon
<1>5. g[{}] = 0
  BY <1>4, Zenon DEF Sums
<1> QED
  BY <1>3, <1>5, SumFunctionIs, Zenon

\* A sum is a number, and any of its terms can be taken out.
LEMMA SumOfMore ==
  ASSUME NEW S, IsFiniteSet(S), NEW f, \A x \in S : f[x] \in Int
  PROVE  /\ SumFunctionOnSet(f, S) \in Int
         /\ \A c \in S : SumFunctionOnSet(f, S) = f[c] + SumFunctionOnSet(f, S \ {c})
<1>1. ASSUME NEW R \in SUBSET S
      PROVE  \E g \in [SUBSET R -> Int] : Sums(g, f, R)
  BY FS_Subset, SumsExist, Zenon
<1>2. ASSUME NEW R \in SUBSET S, NEW g, Sums(g, f, R)
      PROVE  g \in [SUBSET R -> Int]
  <2>1. PICK h \in [SUBSET R -> Int] : Sums(h, f, R)
    BY <1>1, Zenon
  <2>2. ASSUME NEW s \in SUBSET R PROVE g[s] \in Int
    <3>1. Sums([t \in SUBSET s |-> h[t]], f, s)
      <4>1. ASSUME NEW t \in SUBSET s
            PROVE  h[t] = IF t = {} THEN 0
                          ELSE f[Chosen(t)] + [u \in SUBSET s |-> h[u]][t \ {Chosen(t)}]
        <5>1. t \in SUBSET R /\ t \ {Chosen(t)} \in SUBSET s
          BY <4>1, Zenon
        <5> QED
          BY <2>1, <5>1, Zenon DEF Sums
      <4> QED
        BY <4>1, Zenon DEF Sums
    <3>2. PICK k : k = [t \in SUBSET s |-> h[t]]
      BY Zenon
    <3>3. IsFiniteSet(R) /\ Sums(k, f, s)
      BY <3>1, <3>2, FS_Subset, Zenon
    <3>4. g[s] = k[s]
      BY <1>2, <2>2, <3>3, SumsAgree
    <3> QED
      BY <2>1, <3>2, <3>4, Zenon
  <2>3. g = [s \in SUBSET R |-> g[s]]
    BY <1>2, Zenon DEF Sums
  <2> QED
    BY <2>2, <2>3, Zenon
<1>3. PICK g : g = CHOOSE k : Sums(k, f, S)
  BY Zenon
<1>4. Sums(g, f, S) /\ g \in [SUBSET S -> Int] /\ SumFunctionOnSet(f, S) = g[S]
  BY <1>1, <1>2, <1>3, SumFunctionIs, Zenon
<1>5. ASSUME NEW c \in S PROVE SumFunctionOnSet(f, S \ {c}) = g[S \ {c}]
  <2>1. PICK R : R = S \ {c}
    BY Zenon
  <2>2. R \in SUBSET S
    BY <2>1, Zenon
  <2>3. PICK h : h = CHOOSE k : Sums(k, f, R)
    BY Zenon
  <2>4. Sums(h, f, R) /\ SumFunctionOnSet(f, R) = h[R]
    BY <1>1, <2>2, <2>3, SumFunctionIs, Zenon
  <2>5. g[R] = h[R]
    BY <1>4, <2>2, <2>4, SumsAgree
  <2> QED
    BY <2>1, <2>4, <2>5, Zenon
<1>6. ASSUME NEW c \in S PROVE g[S] = f[c] + g[S \ {c}]
  <2>1. S \in SUBSET S
    BY Zenon
  <2>2. SumsAll(g, f, S)
    BY <1>4, Zenon DEF SumsAll
  <2>3. LosesAny(g, f, S)
    BY <2>2, SumsAny, Zenon
  <2> QED
    BY <2>1, <2>3, Zenon DEF LosesAny
<1> QED
  BY <1>4, <1>5, <1>6, Zenon

\* A sum of larger terms is larger.
LEMMA SumGrows ==
  ASSUME NEW S, IsFiniteSet(S), NEW f, NEW h,
         \A x \in S : f[x] \in Int /\ h[x] \in Int /\ f[x] <= h[x]
  PROVE  SumFunctionOnSet(f, S) <= SumFunctionOnSet(h, S)
<1> DEFINE B == {s \in SUBSET S : ~(SumFunctionOnSet(f, s) <= SumFunctionOnSet(h, s))}
<1>1. SUFFICES ASSUME B # {} PROVE FALSE
  BY Zenon
<1>2. PICK s \in B : \A x \in s : s \ {x} \notin B
  BY <1>1, LeastSubset, Zenon
<1>3. s # {}
  BY SumOfNone
<1>4. PICK x \in s : TRUE
  BY <1>3, Zenon
<1>5. PICK r : r = s \ {x}
  BY Zenon
<1>6. IsFiniteSet(s) /\ IsFiniteSet(r) /\ r \subseteq S
  BY <1>5, FS_Subset, Zenon
<1>7. /\ SumFunctionOnSet(f, s) = f[x] + SumFunctionOnSet(f, r)
      /\ SumFunctionOnSet(h, s) = h[x] + SumFunctionOnSet(h, r)
  BY <1>5, <1>6, SumOfMore
<1>8. SumFunctionOnSet(f, r) \in Int /\ SumFunctionOnSet(h, r) \in Int
  BY <1>6, SumOfMore, Zenon
<1>9. SumFunctionOnSet(f, r) <= SumFunctionOnSet(h, r)
  BY <1>2, <1>5, <1>6, Zenon
<1>10. f[x] \in Int /\ h[x] \in Int /\ f[x] <= h[x] /\ s \in B
  BY Zenon
<1>11. ~(SumFunctionOnSet(f, s) <= SumFunctionOnSet(h, s))
  BY <1>10, Zenon
<1> QED
  BY <1>7, <1>8, <1>9, <1>10, <1>11

\* One term changes.
LEMMA SumChanges ==
  ASSUME NEW S, IsFiniteSet(S), NEW c \in S, NEW f, NEW h,
         \A x \in S : f[x] \in Int /\ h[x] \in Int,
         \A x \in S \ {c} : f[x] = h[x]
  PROVE  SumFunctionOnSet(h, S) = SumFunctionOnSet(f, S) + (h[c] - f[c])
<1>1. PICK r : r = S \ {c}
  BY Zenon
<1>2. IsFiniteSet(r) /\ r \subseteq S
  BY <1>1, FS_Subset, Zenon
<1>3. SumFunctionOnSet(f, r) \in Int /\ SumFunctionOnSet(h, r) \in Int
  BY <1>2, SumOfMore, Zenon
<1>4. SumFunctionOnSet(f, r) <= SumFunctionOnSet(h, r)
  <2>1. \A x \in r : f[x] \in Int /\ h[x] \in Int /\ f[x] <= h[x]
    BY <1>1
  <2> QED
    BY <1>2, <2>1, SumGrows, Zenon
<1>5. SumFunctionOnSet(h, r) <= SumFunctionOnSet(f, r)
  <2>1. \A x \in r : f[x] \in Int /\ h[x] \in Int /\ h[x] <= f[x]
    BY <1>1
  <2> QED
    BY <1>2, <2>1, SumGrows, Zenon
<1>6. /\ SumFunctionOnSet(f, S) = f[c] + SumFunctionOnSet(f, r)
      /\ SumFunctionOnSet(h, S) = h[c] + SumFunctionOnSet(h, r)
  BY <1>1, SumOfMore
<1>7. f[c] \in Int /\ h[c] \in Int
  BY Zenon
<1> QED
  BY <1>3, <1>4, <1>5, <1>6, <1>7

\* A sum of zeros.
LEMMA SumOfZeros ==
  ASSUME NEW S, IsFiniteSet(S), NEW f, \A x \in S : f[x] = 0
  PROVE  SumFunctionOnSet(f, S) = 0
<1> DEFINE B == {s \in SUBSET S : SumFunctionOnSet(f, s) # 0}
<1>1. SUFFICES ASSUME B # {} PROVE FALSE
  BY Zenon
<1>2. PICK s \in B : \A x \in s : s \ {x} \notin B
  BY <1>1, LeastSubset, Zenon
<1>3. s # {}
  BY SumOfNone, Zenon
<1>4. PICK x \in s : TRUE
  BY <1>3, Zenon
<1>5. SumFunctionOnSet(f, s) = f[x] + SumFunctionOnSet(f, s \ {x})
  BY FS_Subset, SumOfMore
<1>6. SumFunctionOnSet(f, s \ {x}) = 0 /\ f[x] = 0
  BY <1>2, Zenon
<1> QED
  BY <1>5, <1>6
-----------------------------------------------------------------------------
(* The example hashmaps                                                    *)

\* Where a probe can be.
CountPlaces ==
  {Resting} \cup [pc : {"inc_pcpu", "get_mem", "set_pcpu", "set_mem"}, key : Keys]
    \cup [pc : {"inc_mem"}, ptr : Elems, val : Int]

ReadPlaces ==
  {Resting} \cup [pc : {"get"}, key : Keys, left : SUBSET Cpus, total : Int, exact : Int]

CountTypes ==
  /\ pcpu \in [Keys -> [Cpus -> Int]] /\ elem \in [Keys -> Elems \cup {NoElem}]
  /\ cells \in [Elems -> Int] /\ spare \in [Cpus -> Elems]
  /\ prog \in [Cpus -> CountPlaces] /\ user \in ReadPlaces
  /\ calls \in [Keys -> Int] /\ reused \in BOOLEAN

\* The counts of a size are there on all CPUs or on none.
Whole == \A k \in Keys : \/ \A c \in Cpus : pcpu[k][c] = Absent
                         \/ \A c \in Cpus : pcpu[k][c] >= 0

\* The probe is about the size k, and has its key.
KeyOf(p, k) == p.pc \in {"inc_pcpu", "get_mem", "set_pcpu", "set_mem"} /\ p.key = k

\* Who has passed the lookup finds counts, and who has not has counted nothing.
Placed ==
  \A k \in Keys :
    /\ elem[k] # NoElem => HasElem(k)
    /\ user.pc = "get" /\ user.key = k => HasElem(k)
    /\ \A c \in Cpus : KeyOf(prog[c], k) =>
         /\ prog[c].pc \in {"inc_pcpu", "get_mem", "set_mem"} => HasElem(k)
         /\ prog[c].pc = "set_pcpu" => pcpu[k][c] \in {Absent, 0}

\* No element of MEM_ALLOC is used twice.
Apart ==
  /\ \A k, j \in Keys : elem[k] = elem[j] /\ elem[k] # NoElem => k = j
  /\ \A k \in Keys, c \in Cpus : elem[k] # spare[c]
  /\ \A c, d \in Cpus : spare[c] = spare[d] => c = d
  /\ \A k \in Keys : elem[k] = NoElem =>
       /\ \A j \in Keys : elem[j] # KeyElem(k)
       /\ \A c \in Cpus : /\ spare[c] # KeyElem(k)
                          /\ prog[c].pc = "inc_mem" => prog[c].ptr # KeyElem(k)
  /\ \A e \in Elems : cells[e] >= 0
  /\ \A c \in Cpus : prog[c].pc = "inc_mem" => prog[c].val >= 0

\* The calls that are not in the per-CPU counts yet, and those that are and
\* have not reached the other count.
AddsTo(p, k) == p.pc \in {"inc_pcpu", "set_pcpu"} /\ p.key = k
Adding(k) == {c \in Cpus : AddsTo(prog[c], k)}

IsBehind(p, k, e) ==
  \/ p.pc \in {"get_mem", "set_mem"} /\ p.key = k
  \/ p.pc = "inc_mem" /\ p.ptr = e
Behind(k) == {c \in Cpus : IsBehind(prog[c], k, elem[k])}

Exact == \A k \in Keys : Counted(k) + Cardinality(Adding(k)) = calls[k]

Below ==
  reused = FALSE => \A k \in Keys :
    /\ Cardinality(Behind(k)) <= Counted(k)
    /\ elem[k] # NoElem => cells[elem[k]] + Cardinality(Behind(k)) <= Counted(k)
    /\ \A c \in Cpus : prog[c].pc = "inc_mem" /\ prog[c].ptr = elem[k] =>
         prog[c].val + Cardinality(Behind(k)) <= Counted(k)

\* What the reader will have summed up is not below what it has read.
ReadBelow ==
  user.pc = "get" /\ reused = FALSE =>
    user.total <= user.exact + SumFunctionOnSet(pcpu[user.key], user.left)

CountInv == CountTypes /\ Whole /\ Placed /\ Apart /\ Exact /\ Below /\ ReadBelow

\* Where a probe can stand, and what it then knows.
LEMMA PlaceCases ==
  ASSUME NEW p \in CountPlaces
  PROVE  /\ \/ p = Resting
            \/ /\ p.pc \in {"inc_pcpu", "get_mem", "set_pcpu", "set_mem"}
               /\ p.key \in Keys /\ p = [pc |-> p.pc, key |-> p.key]
            \/ p.pc = "inc_mem" /\ p.ptr \in Elems /\ p.val \in Int
         /\ p.pc = "idle" => p = Resting
  BY Zenon DEF CountPlaces, Resting

\* The records that the actions make are places of a probe.
LEMMA PlacesAre ==
  /\ Resting \in CountPlaces /\ Resting.pc = "idle"
  /\ \A q \in {"inc_pcpu", "get_mem", "set_pcpu", "set_mem"}, k \in Keys :
       /\ [pc |-> q, key |-> k] \in CountPlaces
       /\ [pc |-> q, key |-> k].pc = q /\ [pc |-> q, key |-> k].key = k
  /\ \A e \in Elems, v \in Int :
       /\ [pc |-> "inc_mem", ptr |-> e, val |-> v] \in CountPlaces
       /\ [pc |-> "inc_mem", ptr |-> e, val |-> v].pc = "inc_mem"
       /\ [pc |-> "inc_mem", ptr |-> e, val |-> v].ptr = e
       /\ [pc |-> "inc_mem", ptr |-> e, val |-> v].val = v
  BY Zenon DEF CountPlaces, Resting

\* Where the reader can stand, and what it then knows.
LEMMA ReadCases ==
  ASSUME NEW u \in ReadPlaces
  PROVE  \/ u = Resting /\ u.pc = "idle"
         \/ /\ u.pc = "get" /\ u.key \in Keys /\ u.left \in SUBSET Cpus /\ u.total \in Int
            /\ u.exact \in Int
            /\ u = [pc |-> "get", key |-> u.key, left |-> u.left, total |-> u.total,
                    exact |-> u.exact]
  BY DEF ReadPlaces, Resting

\* The elements of the sizes and the spare ones of the CPUs are all different.
LEMMA ElemsDiffer ==
  /\ NoElem \notin Elems
  /\ \A k \in Keys : KeyElem(k) \in Elems
  /\ \A c \in Cpus : CpuElem(c) \in Elems
  /\ \A k, j \in Keys : KeyElem(k) = KeyElem(j) => k = j
  /\ \A c, d \in Cpus : CpuElem(c) = CpuElem(d) => c = d
  /\ \A k \in Keys, c \in Cpus : KeyElem(k) # CpuElem(c)
  BY Zenon DEF NoElem, Elems, KeyElem, CpuElem

\* One CPU more or less changes a number of CPUs by one.
LEMMA CardOne ==
  ASSUME NEW T \in SUBSET Cpus, NEW c \in Cpus
  PROVE  /\ Cardinality(T) \in Nat
         /\ c \notin T => Cardinality(T \cup {c}) = Cardinality(T) + 1
         /\ c \in T => Cardinality(T \ {c}) = Cardinality(T) - 1
  BY CountAssumption, FS_Subset, FS_CardinalityType, FS_AddElement, FS_RemoveElement, Zenon

\* A part of a set of CPUs has no more of them.
LEMMA CardLess ==
  ASSUME NEW T \in SUBSET Cpus, NEW R \in SUBSET T
  PROVE  Cardinality(R) <= Cardinality(T) /\ Cardinality(R) \in Nat /\ Cardinality(T) \in Nat
  BY CountAssumption, FS_Subset, FS_CardinalityType, Zenon

\* The counts of a size as a sum.
LEMMA CountedIs ==
  ASSUME CountTypes, Whole, NEW k \in Keys
  PROVE  /\ HasElem(k) => /\ \A c \in Cpus : pcpu[k][c] \in Nat
                          /\ Counted(k) = SumFunctionOnSet(pcpu[k], Cpus)
         /\ ~HasElem(k) => Counted(k) = 0 /\ \A c \in Cpus : pcpu[k][c] = Absent
         /\ Counted(k) \in Int
<1>1. pcpu[k] \in [Cpus -> Int]
  BY Zenon DEF CountTypes
<1>2. SumFunctionOnSet(pcpu[k], Cpus) \in Int
  BY <1>1, CountAssumption, SumOfMore, Zenon
<1>3. SumFunction(pcpu[k]) = SumFunctionOnSet(pcpu[k], Cpus)
  BY <1>1, Zenon DEF SumFunction, SumFunctionOnSet, FoldFunction
<1>4. HasElem(k) => \A c \in Cpus : pcpu[k][c] \in Nat
  BY <1>1 DEF HasElem, Whole, Absent
<1>5. ~HasElem(k) => \A c \in Cpus : pcpu[k][c] = Absent
  BY Zenon DEF HasElem
<1>6. /\ HasElem(k) => Counted(k) = SumFunctionOnSet(pcpu[k], Cpus)
      /\ ~HasElem(k) => Counted(k) = 0
  BY <1>3, Zenon DEF Counted
<1>7. Counted(k) \in Int
  BY <1>2, <1>6
<1> QED
  BY <1>4, <1>5, <1>6, <1>7, Zenon

\* Empty maps satisfy the invariant.
LEMMA CountStart == CountInit => CountInv
<1> SUFFICES ASSUME CountInit PROVE CountInv
  BY Zenon
<1>1. CountTypes
  <2>2. spare \in [Cpus -> Elems] /\ prog \in [Cpus -> CountPlaces] /\ user \in ReadPlaces
    BY ElemsDiffer, PlacesAre, Zenon DEF CountInit, ReadPlaces
  <2>3. /\ pcpu \in [Keys -> [Cpus -> Int]] /\ cells \in [Elems -> Int]
        /\ calls \in [Keys -> Int]
    BY DEF CountInit, Absent
  <2>4. elem \in [Keys -> Elems \cup {NoElem}] /\ reused \in BOOLEAN
    BY Zenon DEF CountInit
  <2> QED
    BY <2>2, <2>3, <2>4, Zenon DEF CountTypes
<1>2. \A k \in Keys : ~HasElem(k) /\ elem[k] = NoElem
  BY Zenon DEF CountInit, HasElem
<1>3. \A c \in Cpus : prog[c].pc = "idle" /\ spare[c] = CpuElem(c)
  BY PlacesAre, Zenon DEF CountInit
<1>4. user.pc = "idle"
  BY PlacesAre, Zenon DEF CountInit
<1>5. Whole
  BY Zenon DEF CountInit, Whole
<1>6. Placed
  BY <1>2, <1>3, <1>4, Zenon DEF Placed
<1>7. Apart
  BY <1>2, <1>3, ElemsDiffer DEF Apart, CountInit
<1>8. \A k \in Keys : Adding(k) = {} /\ Behind(k) = {} /\ Counted(k) = 0
  BY <1>2, <1>3, Zenon DEF Adding, Behind, AddsTo, IsBehind, Counted
<1>9. \A k \in Keys : Cardinality(Adding(k)) = 0 /\ Cardinality(Behind(k)) = 0 /\ calls[k] = 0
  <2>1. Cardinality({}) = 0
    BY FS_EmptySet, Zenon
  <2> QED
    BY <1>8, <2>1, Zenon DEF CountInit
<1>10. Exact
  BY <1>8, <1>9 DEF Exact
<1>11. Below
  BY <1>2, <1>3, <1>8, <1>9 DEF Below
<1> QED
  BY <1>1, <1>4, <1>5, <1>6, <1>7, <1>10, <1>11, Zenon DEF CountInv, ReadBelow

\* Without a change of the per-CPU map the exact counts stay.
LEMMA CountedSame ==
  ASSUME pcpu' = pcpu
  PROVE  /\ \A k \in Keys : Counted(k)' = Counted(k) /\ (HasElem(k)' <=> HasElem(k))
         /\ Whole => Whole'
  BY Zenon DEF Counted, HasElem, Whole

\* One CPU moves: what becomes of the two sets.
LEMMA SetsStep ==
  ASSUME CountTypes, NEW c \in Cpus, NEW p, prog' = [prog EXCEPT ![c] = p], elem' = elem
  PROVE  \A k \in Keys :
           /\ Adding(k)' = IF AddsTo(p, k) THEN Adding(k) \cup {c} ELSE Adding(k) \ {c}
           /\ Behind(k)' = IF IsBehind(p, k, elem[k]) THEN Behind(k) \cup {c}
                           ELSE Behind(k) \ {c}
<1>1. prog'[c] = p /\ \A d \in Cpus \ {c} : prog'[d] = prog[d]
  BY Zenon DEF CountTypes
<1>2. \A k \in Keys : /\ Adding(k)' = {d \in Cpus : AddsTo(prog'[d], k)}
                      /\ Behind(k)' = {d \in Cpus : IsBehind(prog'[d], k, elem[k])}
  BY Zenon DEF Adding, Behind, AddsTo, IsBehind
<1> QED
  BY <1>1, <1>2 DEF Adding, Behind

\* A call that enters the probe has counted nothing yet.
LEMMA KmallocKeeps ==
  ASSUME CountInv, NEW c \in Cpus, NEW size \in Sizes, Kmalloc(c, size)
  PROVE  CountInv'
<1>0. CountTypes /\ Whole /\ Placed /\ Apart /\ Exact /\ Below /\ ReadBelow
  BY Zenon DEF CountInv
<1>1. PICK k, q : k = Bucket(size) /\ q = IF HasElem(k) THEN "inc_pcpu" ELSE "set_pcpu"
  BY Zenon
<1>2. PICK p : p = [pc |-> q, key |-> k]
  BY Zenon
<1>3. k \in Keys /\ p \in CountPlaces /\ p.pc = q /\ p.key = k
      /\ q \in {"inc_pcpu", "set_pcpu"}
  BY <1>1, <1>2, PlacesAre DEF Keys
<1>4. /\ prog' = [prog EXCEPT ![c] = p] /\ calls' = [calls EXCEPT ![k] = @ + 1]
      /\ pcpu' = pcpu /\ user' = user /\ elem' = elem /\ cells' = cells /\ spare' = spare
      /\ reused' = reused /\ prog[c].pc = "idle"
  BY <1>1, <1>2, Zenon DEF Kmalloc, Step, memVars
<1>5. prog'[c] = p /\ (\A d \in Cpus \ {c} : prog'[d] = prog[d]) /\ prog' \in [Cpus -> CountPlaces]
  BY <1>0, <1>3, <1>4, Zenon DEF CountTypes
<1>6. /\ \A j \in Keys : Counted(j)' = Counted(j) /\ (HasElem(j)' <=> HasElem(j))
      /\ Whole'
  BY <1>0, <1>4, CountedSame, Zenon
<1>7. CountTypes'
  <2>1. calls' \in [Keys -> Int]
    BY <1>0, <1>3, <1>4 DEF CountTypes
  <2> QED
    BY <1>0, <1>4, <1>5, <2>1, Zenon DEF CountTypes
<1>8. Placed'
  <2>1. ASSUME NEW j \in Keys, NEW d \in Cpus, KeyOf(prog'[d], j)
        PROVE  /\ prog'[d].pc \in {"inc_pcpu", "get_mem", "set_mem"} => HasElem(j)
               /\ prog'[d].pc = "set_pcpu" => pcpu[j][d] \in {Absent, 0}
    <3>1. CASE d = c
      <4>1. j = k
        BY <1>3, <1>5, <2>1, <3>1, Zenon DEF KeyOf
      <4> QED
        BY <1>1, <1>3, <1>5, <3>1, <4>1, Zenon DEF HasElem
    <3>2. CASE d # c
      BY <1>0, <1>5, <2>1, <3>2, Zenon DEF Placed
    <3> QED
      BY <3>1, <3>2, Zenon
  <2> QED
    BY <1>0, <1>4, <1>6, <2>1, Zenon DEF Placed, KeyOf
<1>9. Apart'
  BY <1>0, <1>3, <1>4, <1>5 DEF Apart
<1>10. \A j \in Keys : c \notin Adding(j) /\ c \notin Behind(j)
  BY <1>4, Zenon DEF Adding, Behind, AddsTo, IsBehind
<1>11. \A j \in Keys : (AddsTo(p, j) <=> j = k) /\ ~IsBehind(p, j, elem[j])
  BY <1>3, Zenon DEF AddsTo, IsBehind
<1>12. /\ Adding(k)' = Adding(k) \cup {c}
       /\ \A j \in Keys : Behind(j)' = Behind(j) /\ (j # k => Adding(j)' = Adding(j))
  <2>1. \A j \in Keys :
           /\ Adding(j)' = IF AddsTo(p, j) THEN Adding(j) \cup {c} ELSE Adding(j) \ {c}
           /\ Behind(j)' = IF IsBehind(p, j, elem[j]) THEN Behind(j) \cup {c}
                           ELSE Behind(j) \ {c}
    BY <1>0, <1>4, SetsStep, Zenon
  <2>2. \A j \in Keys : Adding(j) \ {c} = Adding(j) /\ Behind(j) \ {c} = Behind(j)
    BY <1>10, Zenon
  <2> QED
    BY <1>3, <1>11, <2>1, <2>2, Zenon
<1>13. Exact'
  <2>1. ASSUME NEW j \in Keys PROVE Counted(j)' + Cardinality(Adding(j)') = calls'[j]
    <3>1. /\ Counted(j) \in Int /\ Counted(j) + Cardinality(Adding(j)) = calls[j]
          /\ Adding(j) \in SUBSET Cpus
      BY <1>0, CountedIs, Zenon DEF Exact, Adding
    <3>2. CASE j = k
      <4>1. Cardinality(Adding(j)') = Cardinality(Adding(j)) + 1 /\ Cardinality(Adding(j)) \in Nat
        BY <1>10, <1>12, <3>1, <3>2, CardOne, Zenon
      <4> QED
        BY SMTT(20), <1>0, <1>3, <1>4, <1>6, <3>1, <3>2, <4>1 DEF CountTypes
    <3>3. CASE j # k
      BY <1>0, <1>3, <1>4, <1>6, <1>12, <3>1, <3>3, ZenonT(30) DEF CountTypes
    <3> QED
      BY <3>2, <3>3, Zenon
  <2> QED
    BY <2>1, Zenon DEF Exact
<1>14. Below'
  BY <1>0, <1>3, <1>4, <1>5, <1>6, <1>12 DEF Below
<1>15. ReadBelow'
  BY <1>0, <1>4, Zenon DEF ReadBelow
<1> QED
  BY <1>6, <1>7, <1>8, <1>9, <1>13, <1>14, <1>15, Zenon DEF CountInv

\* A call is added to the count of a size.
OneMore(c, k) ==
  /\ pcpu' \in [Keys -> [Cpus -> Int]]
  /\ \A j \in Keys \ {k} : pcpu'[j] = pcpu[j]
  /\ \A d \in Cpus : pcpu'[k][d] >= 0
  /\ HasElem(k) => /\ pcpu'[k][c] = pcpu[k][c] + 1
                   /\ \A d \in Cpus \ {c} : pcpu'[k][d] = pcpu[k][d]
  /\ ~HasElem(k) => pcpu'[k][c] = 1 /\ \A d \in Cpus \ {c} : pcpu'[k][d] = 0

\* One more in the slot of one CPU is one more in the exact count.
LEMMA OneMoreCounted ==
  ASSUME CountTypes, Whole, NEW c \in Cpus, NEW k \in Keys, OneMore(c, k)
  PROVE  /\ Whole' /\ HasElem(k)'
         /\ \A j \in Keys : HasElem(j) => HasElem(j)'
         /\ \A j \in Keys \ {k} : Counted(j)' = Counted(j)
         /\ Counted(k)' = Counted(k) + 1
<1>1. pcpu'[k][c] # Absent
  BY DEF OneMore, Absent, CountTypes
<1>2. HasElem(k)'
  BY <1>1, Zenon DEF HasElem
<1>3. \A j \in Keys \ {k} : Counted(j)' = Counted(j) /\ (HasElem(j)' <=> HasElem(j))
  BY Zenon DEF OneMore, Counted, HasElem
<1>4. Whole'
  BY DEF OneMore, Whole
<1>5. PICK g : g = pcpu'[k]
  BY Zenon
<1>6. PICK f : f = pcpu[k]
  BY Zenon
<1>7. g \in [Cpus -> Int] /\ f \in [Cpus -> Int]
  BY <1>5, <1>6, Zenon DEF OneMore, CountTypes
<1>8. Counted(k)' = SumFunctionOnSet(g, Cpus)
  <2>1. Counted(k)' = SumFunction(g)
    BY <1>2, <1>5, Zenon DEF Counted
  <2>2. SumFunction(g) = SumFunctionOnSet(g, Cpus)
    BY <1>7, Zenon DEF SumFunction, SumFunctionOnSet, FoldFunction
  <2> QED
    BY <2>1, <2>2, Zenon
<1>9. CASE HasElem(k)
  <2>1. /\ g[c] = f[c] + 1 /\ \A d \in Cpus \ {c} : f[d] = g[d]
    BY <1>5, <1>6, <1>9, Zenon DEF OneMore
  <2>2. SumFunctionOnSet(g, Cpus) = SumFunctionOnSet(f, Cpus) + (g[c] - f[c])
    BY <1>7, <2>1, CountAssumption, SumChanges
  <2>3. Counted(k) = SumFunctionOnSet(f, Cpus) /\ Counted(k) \in Int
    BY <1>6, <1>9, CountedIs, Zenon
  <2>4. Counted(k)' = Counted(k) + 1
    BY <1>7, <1>8, <2>1, <2>2, <2>3
  <2> QED
    BY <1>2, <1>3, <1>4, <2>4, Zenon
<1>10. CASE ~HasElem(k)
  <2>1. PICK z : z = [d \in Cpus |-> 0]
    BY Zenon
  <2>2. g[c] = 1 /\ \A d \in Cpus \ {c} : z[d] = g[d]
    BY <1>5, <1>10, <2>1, Zenon DEF OneMore
  <2>3. SumFunctionOnSet(z, Cpus) = 0
    BY <2>1, CountAssumption, SumOfZeros, Zenon
  <2>4. SumFunctionOnSet(g, Cpus) = SumFunctionOnSet(z, Cpus) + (g[c] - z[c])
    <3>1. \A d \in Cpus : z[d] \in Int /\ g[d] \in Int
      BY <1>7, <2>1
    <3> QED
      BY <2>2, <3>1, CountAssumption, SumChanges
  <2>5. Counted(k) = 0
    BY <1>10, Zenon DEF Counted
  <2>6. Counted(k)' = Counted(k) + 1
    BY <1>8, <2>1, <2>2, <2>3, <2>4, <2>5
  <2> QED
    BY <1>2, <1>3, <1>4, <1>10, <2>6, Zenon
<1> QED
  BY <1>9, <1>10, Zenon

\* The increment of a slot that exists adds one.
LEMMA IncGrows ==
  ASSUME CountTypes, Whole, Placed, NEW c \in Cpus, IncPcpu(c)
  PROVE  prog[c].key \in Keys /\ OneMore(c, prog[c].key)
<1>1. PICK k : k = prog[c].key
  BY Zenon
<1>2. prog[c] \in CountPlaces /\ prog[c].pc = "inc_pcpu"
  BY Zenon DEF CountTypes, IncPcpu
<1>3. k \in Keys /\ KeyOf(prog[c], k)
  BY <1>1, <1>2, PlaceCases, PlacesAre, Zenon DEF KeyOf
<1>4. HasElem(k)
  BY <1>2, <1>3, Zenon DEF Placed
<1>5. \A d \in Cpus : pcpu[k][d] \in Nat
  BY <1>3, <1>4, CountedIs, Zenon
<1>6. pcpu' = [pcpu EXCEPT ![k][c] = @ + 1]
  BY <1>1, Zenon DEF IncPcpu
<1>7. pcpu \in [Keys -> [Cpus -> Int]]
  BY Zenon DEF CountTypes
<1>8. /\ pcpu'[k][c] = pcpu[k][c] + 1 /\ \A d \in Cpus \ {c} : pcpu'[k][d] = pcpu[k][d]
      /\ \A j \in Keys \ {k} : pcpu'[j] = pcpu[j]
      /\ pcpu' \in [Keys -> [Cpus -> Int]]
  BY <1>3, <1>5, <1>6, <1>7
<1>9. \A d \in Cpus : pcpu'[k][d] >= 0
  BY <1>5, <1>8
<1> QED
  BY <1>1, <1>3, <1>4, <1>8, <1>9, Zenon DEF OneMore

\* The insertion of a slot adds one.
LEMMA SetGrows ==
  ASSUME CountTypes, Whole, Placed, NEW c \in Cpus, SetPcpu(c)
  PROVE  prog[c].key \in Keys /\ OneMore(c, prog[c].key)
<1>1. PICK k : k = prog[c].key
  BY Zenon
<1>2. prog[c] \in CountPlaces /\ prog[c].pc = "set_pcpu"
  BY Zenon DEF CountTypes, SetPcpu
<1>3. k \in Keys /\ KeyOf(prog[c], k)
  BY <1>1, <1>2, PlaceCases, PlacesAre, Zenon DEF KeyOf
<1>4. pcpu[k][c] \in {Absent, 0}
  BY <1>2, <1>3, Zenon DEF Placed
<1>5. PICK g : g = [d \in Cpus |-> IF d = c THEN 1 ELSE IF HasElem(k) THEN pcpu[k][d] ELSE 0]
  BY Zenon
<1>6. pcpu' = [pcpu EXCEPT ![k] = g]
  BY <1>1, <1>5, Zenon DEF SetPcpu, PcpuSet
<1>7. pcpu \in [Keys -> [Cpus -> Int]]
  BY Zenon DEF CountTypes
<1>8. pcpu'[k] = g /\ \A j \in Keys \ {k} : pcpu'[j] = pcpu[j]
  BY <1>3, <1>6, <1>7, Zenon
<1>9. g \in [Cpus -> Int]
  BY <1>3, <1>5, <1>7
<1>10. pcpu' \in [Keys -> [Cpus -> Int]]
  BY <1>6, <1>7, <1>9, Zenon
<1>11. CASE HasElem(k)
  <2>1. \A d \in Cpus : pcpu[k][d] \in Nat
    BY <1>3, <1>11, CountedIs, Zenon
  <2>2. pcpu[k][c] = 0
    BY <1>4, <2>1 DEF Absent
  <2>3. g[c] = pcpu[k][c] + 1 /\ \A d \in Cpus \ {c} : g[d] = pcpu[k][d]
    BY <1>5, <1>11, <2>2
  <2>4. \A d \in Cpus : g[d] >= 0
    BY <2>1, <2>3
  <2> QED
    BY <1>1, <1>3, <1>8, <1>10, <1>11, <2>3, <2>4, Zenon DEF OneMore
<1>12. CASE ~HasElem(k)
  <2>1. g[c] = 1 /\ \A d \in Cpus \ {c} : g[d] = 0
    BY <1>5, <1>12, Zenon
  <2>2. \A d \in Cpus : g[d] >= 0
    BY <2>1
  <2> QED
    BY <1>1, <1>3, <1>8, <1>10, <1>12, <2>1, <2>2, Zenon DEF OneMore
<1> QED
  BY <1>11, <1>12, Zenon

\* A call counted exactly and not in the plain map yet widens the gap by one.
LEMMA AddsKeep ==
  ASSUME CountInv, NEW c \in Cpus, NEW k \in Keys, OneMore(c, k), prog[c].key = k,
         prog[c].pc \in {"inc_pcpu", "set_pcpu"}, NEW q \in {"get_mem", "set_mem"},
         prog' = [prog EXCEPT ![c] = [prog[c] EXCEPT !.pc = q]], user' = user, calls' = calls,
         elem' = elem, cells' = cells, spare' = spare, reused' = reused
  PROVE  CountInv'
<1>0. CountTypes /\ Whole /\ Placed /\ Apart /\ Exact /\ Below /\ ReadBelow
  BY Zenon DEF CountInv
<1>1. prog[c] = [pc |-> prog[c].pc, key |-> k]
  BY <1>0, PlaceCases, PlacesAre, ZenonT(30) DEF CountTypes
<1>2. PICK p : p = [pc |-> q, key |-> k]
  BY Zenon
<1>3. p \in CountPlaces /\ p.pc = q /\ p.key = k
  BY <1>2, PlacesAre, Zenon
<1>4. prog' = [prog EXCEPT ![c] = p]
  <2>1. [prog[c] EXCEPT !.pc = q] = p
    BY <1>1, <1>2
  <2> QED
    BY <2>1, Zenon
<1>5. prog'[c] = p /\ (\A d \in Cpus \ {c} : prog'[d] = prog[d]) /\ prog' \in [Cpus -> CountPlaces]
  BY <1>0, <1>3, <1>4, Zenon DEF CountTypes
<1>6. /\ Whole' /\ HasElem(k)'
      /\ \A j \in Keys : HasElem(j) => HasElem(j)'
      /\ \A j \in Keys \ {k} : Counted(j)' = Counted(j)
      /\ Counted(k)' = Counted(k) + 1
  BY <1>0, OneMoreCounted, Zenon
<1>7. CountTypes'
  <2>1. pcpu' \in [Keys -> [Cpus -> Int]]
    BY Zenon DEF OneMore
  <2> QED
    BY <1>0, <1>5, <2>1, Zenon DEF CountTypes
<1>8. Placed'
  <2>1. ASSUME NEW j \in Keys, NEW d \in Cpus, KeyOf(prog'[d], j)
        PROVE  /\ prog'[d].pc \in {"inc_pcpu", "get_mem", "set_mem"} => HasElem(j)'
               /\ prog'[d].pc = "set_pcpu" => pcpu'[j][d] \in {Absent, 0}
    <3>1. CASE d = c
      <4>1. j = k /\ prog'[d].pc = q
        BY <1>3, <1>5, <2>1, <3>1, Zenon DEF KeyOf
      <4> QED
        BY <1>6, <4>1, Zenon
    <3>2. CASE d # c
      <4>1. /\ prog'[d] = prog[d]
            /\ prog[d].pc \in {"inc_pcpu", "get_mem", "set_mem"} => HasElem(j)
            /\ prog[d].pc = "set_pcpu" => pcpu[j][d] \in {Absent, 0}
        BY <1>0, <1>5, <2>1, <3>2, Zenon DEF Placed
      <4>2. pcpu[j][d] \in {Absent, 0} => pcpu'[j][d] \in {Absent, 0}
        BY <3>2 DEF OneMore
      <4> QED
        BY <1>6, <4>1, <4>2, Zenon
    <3> QED
      BY <3>1, <3>2, Zenon
  <2> QED
    BY <1>0, <1>6, <2>1, Zenon DEF Placed, KeyOf
<1>9. Apart'
  BY <1>0, <1>3, <1>5 DEF Apart
<1>10. /\ \A j \in Keys : (AddsTo(prog[c], j) <=> j = k) /\ ~IsBehind(prog[c], j, elem[j])
       /\ \A j \in Keys : ~AddsTo(p, j) /\ (IsBehind(p, j, elem[j]) <=> j = k)
  BY <1>3, Zenon DEF AddsTo, IsBehind
<1>11. /\ Adding(k)' = Adding(k) \ {c} /\ Behind(k)' = Behind(k) \cup {c}
       /\ c \in Adding(k) /\ c \notin Behind(k)
       /\ \A j \in Keys : j # k => Behind(j)' = Behind(j) /\ Adding(j)' = Adding(j)
  <2>1. \A j \in Keys :
           /\ Adding(j)' = IF AddsTo(p, j) THEN Adding(j) \cup {c} ELSE Adding(j) \ {c}
           /\ Behind(j)' = IF IsBehind(p, j, elem[j]) THEN Behind(j) \cup {c}
                           ELSE Behind(j) \ {c}
    BY <1>0, <1>4, SetsStep, Zenon
  <2>2. \A j \in Keys : (c \in Adding(j) <=> j = k) /\ c \notin Behind(j)
    BY <1>10, Zenon DEF Adding, Behind
  <2>3. \A j \in Keys : j # k => Adding(j) \ {c} = Adding(j) /\ Behind(j) \ {c} = Behind(j)
    BY <2>2, Zenon
  <2> QED
    BY <1>10, <2>1, <2>2, <2>3, Zenon
<1>12. /\ Adding(k) \in SUBSET Cpus /\ Behind(k) \in SUBSET Cpus
  BY Zenon DEF Adding, Behind
<1>13. /\ Cardinality(Adding(k)') = Cardinality(Adding(k)) - 1
       /\ Cardinality(Behind(k)') = Cardinality(Behind(k)) + 1
       /\ Cardinality(Adding(k)) \in Nat /\ Cardinality(Behind(k)) \in Nat
  BY <1>11, <1>12, CardOne, ZenonT(30)
<1>14. Counted(k) \in Int
  BY <1>0, CountedIs, Zenon
<1>15. Exact'
  <2>1. ASSUME NEW j \in Keys PROVE Counted(j)' + Cardinality(Adding(j)') = calls[j]
    <3>1. Counted(j) + Cardinality(Adding(j)) = calls[j]
      BY <1>0, Zenon DEF Exact
    <3>2. CASE j = k
      BY <1>6, <1>13, <1>14, <3>1, <3>2
    <3>3. CASE j # k
      BY <1>6, <1>11, <3>1, <3>3, Zenon
    <3> QED
      BY <3>2, <3>3, Zenon
  <2> QED
    BY <2>1, Zenon DEF Exact
<1>16. Below'
  <2>1. SUFFICES ASSUME reused = FALSE, NEW j \in Keys
                 PROVE  /\ Cardinality(Behind(j)') <= Counted(j)'
                        /\ elem[j] # NoElem =>
                             cells[elem[j]] + Cardinality(Behind(j)') <= Counted(j)'
                        /\ \A d \in Cpus : prog'[d].pc = "inc_mem" /\ prog'[d].ptr = elem[j] =>
                             prog'[d].val + Cardinality(Behind(j)') <= Counted(j)'
    BY Zenon DEF Below
  <2>2. /\ Cardinality(Behind(j)) <= Counted(j)
        /\ elem[j] # NoElem => cells[elem[j]] + Cardinality(Behind(j)) <= Counted(j)
        /\ \A d \in Cpus : prog'[d].pc = "inc_mem" /\ prog'[d].ptr = elem[j] =>
             prog'[d].val + Cardinality(Behind(j)) <= Counted(j)
    BY <1>0, <1>3, <1>5, <2>1, Zenon DEF Below
  <2>3. CASE j # k
    <3>1. Behind(j)' = Behind(j) /\ Counted(j)' = Counted(j)
      BY <1>6, <1>11, <2>3, Zenon
    <3> QED
      BY <2>2, <3>1, Zenon
  <2>4. CASE j = k
    <3>1. elem[j] # NoElem => cells[elem[j]] \in Int
      BY <1>0, Zenon DEF CountTypes
    <3>2. \A d \in Cpus : prog'[d].pc = "inc_mem" => prog'[d].val \in Int
      BY <1>5, PlaceCases, PlacesAre, Zenon
    <3>3. PICK n, m : n = Cardinality(Behind(k)) /\ m = Counted(k)
      BY Zenon
    <3>4. n \in Nat /\ m \in Int /\ Cardinality(Behind(j)') = n + 1 /\ Counted(j)' = m + 1
      BY <1>6, <1>13, <1>14, <2>4, <3>3, Zenon
    <3>5. /\ n <= m
          /\ elem[j] # NoElem => cells[elem[j]] + n <= m
          /\ \A d \in Cpus : prog'[d].pc = "inc_mem" /\ prog'[d].ptr = elem[j] =>
               prog'[d].val + n <= m
      BY <2>2, <2>4, <3>3, Zenon
    <3> QED
      BY <3>1, <3>2, <3>4, <3>5
  <2> QED
    BY <2>3, <2>4, Zenon
<1>17. ReadBelow'
  <2>1. SUFFICES ASSUME user.pc = "get", reused = FALSE
                 PROVE  user.total <= user.exact + SumFunctionOnSet(pcpu'[user.key], user.left)
    BY Zenon DEF ReadBelow
  <2>2. PICK j, l : j = user.key /\ l = user.left
    BY Zenon
  <2>3. j \in Keys /\ l \in SUBSET Cpus /\ user.total \in Int /\ user.exact \in Int
    BY <1>0, <2>1, <2>2, ReadCases, PlacesAre, Zenon DEF CountTypes
  <2>4. HasElem(j)
    BY <1>0, <2>1, <2>2, <2>3, Zenon DEF Placed
  <2>5. PICK f, g : f = pcpu[j] /\ g = pcpu'[j]
    BY Zenon
  <2>6. \A d \in Cpus : f[d] \in Int /\ g[d] \in Int /\ f[d] <= g[d]
    <3>1. f \in [Cpus -> Int] /\ g \in [Cpus -> Int]
      BY <1>0, <1>7, <2>3, <2>5, Zenon DEF CountTypes
    <3>2. CASE j = k
      BY <2>4, <2>5, <3>1, <3>2 DEF OneMore
    <3>3. CASE j # k
      BY <2>3, <2>5, <3>1, <3>3 DEF OneMore
    <3> QED
      BY <3>2, <3>3, Zenon
  <2>7. IsFiniteSet(l)
    BY <2>3, CountAssumption, FS_Subset, Zenon
  <2>8. SumFunctionOnSet(f, l) <= SumFunctionOnSet(g, l)
    BY <2>3, <2>6, <2>7, SumGrows, Zenon
  <2>9. SumFunctionOnSet(f, l) \in Int /\ SumFunctionOnSet(g, l) \in Int
    BY <2>3, <2>6, <2>7, SumOfMore, Zenon
  <2>10. user.total <= user.exact + SumFunctionOnSet(f, l)
    BY <1>0, <2>1, <2>2, <2>5, Zenon DEF ReadBelow
  <2>11. user.total <= user.exact + SumFunctionOnSet(g, l)
    BY <2>3, <2>8, <2>9, <2>10
  <2> QED
    BY <2>2, <2>5, <2>11, Zenon
<1> QED
  BY <1>6, <1>7, <1>8, <1>9, <1>15, <1>16, <1>17, Zenon DEF CountInv

\* Both ways to count exactly keep the invariant.
LEMMA PcpuKeeps ==
  ASSUME CountInv, NEW c \in Cpus, IncPcpu(c) \/ SetPcpu(c)
  PROVE  CountInv'
<1>0. CountTypes /\ Whole /\ Placed
  BY Zenon DEF CountInv
<1>1. CASE IncPcpu(c)
  <2>1. PICK k : k = prog[c].key
    BY Zenon
  <2>2. k \in Keys /\ OneMore(c, k)
    BY <1>0, <1>1, <2>1, IncGrows, Zenon
  <2>3. /\ prog[c].pc = "inc_pcpu" /\ prog' = [prog EXCEPT ![c] = [prog[c] EXCEPT !.pc = "get_mem"]]
        /\ user' = user /\ calls' = calls /\ elem' = elem /\ cells' = cells /\ spare' = spare
        /\ reused' = reused
    BY <1>1, Zenon DEF IncPcpu, Step, memVars
  <2> QED
    BY <2>1, <2>2, <2>3, AddsKeep, Zenon
<1>2. CASE SetPcpu(c)
  <2>1. PICK k : k = prog[c].key
    BY Zenon
  <2>2. k \in Keys /\ OneMore(c, k)
    BY <1>0, <1>2, <2>1, SetGrows, Zenon
  <2>3. /\ prog[c].pc = "set_pcpu" /\ prog' = [prog EXCEPT ![c] = [prog[c] EXCEPT !.pc = "set_mem"]]
        /\ user' = user /\ calls' = calls /\ elem' = elem /\ cells' = cells /\ spare' = spare
        /\ reused' = reused
    BY <1>2, Zenon DEF SetPcpu, Step, memVars
  <2> QED
    BY <2>1, <2>2, <2>3, AddsKeep, Zenon
<1> QED
  BY <1>1, <1>2, Zenon

\* A probe leaves its key behind.
LEMMA LeavesPlaced ==
  ASSUME CountTypes, Placed, NEW c \in Cpus, NEW p, prog' = [prog EXCEPT ![c] = p],
         p.pc \in {"idle", "inc_mem"}, pcpu' = pcpu, user' = user,
         \A k \in Keys : elem'[k] # NoElem => HasElem(k)
  PROVE  Placed'
<1>1. prog'[c] = p /\ \A d \in Cpus \ {c} : prog'[d] = prog[d]
  BY Zenon DEF CountTypes
<1>2. \A k \in Keys : (HasElem(k)' <=> HasElem(k))
  BY CountedSame, Zenon
<1>3. ASSUME NEW k \in Keys, NEW d \in Cpus, KeyOf(prog'[d], k)
      PROVE  d # c /\ prog'[d] = prog[d] /\ KeyOf(prog[d], k)
  BY <1>1, <1>3, Zenon DEF KeyOf
<1> QED
  BY <1>2, <1>3, ZenonT(30) DEF Placed, KeyOf

\* The value a probe reads is not above what the count may be.
LEMMA GetMemKeeps ==
  ASSUME CountInv, NEW c \in Cpus, GetMem(c)
  PROVE  CountInv'
<1>0. CountTypes /\ Whole /\ Placed /\ Apart /\ Exact /\ Below /\ ReadBelow
  BY Zenon DEF CountInv
<1>1. PICK k : k = prog[c].key
  BY Zenon
<1>2. k \in Keys /\ prog[c].pc = "get_mem"
  BY <1>0, <1>1, PlaceCases, PlacesAre, Zenon DEF CountTypes, GetMem
<1>3. PICK p : p = IF elem[k] = NoElem THEN Resting
                   ELSE [pc |-> "inc_mem", ptr |-> elem[k], val |-> cells[elem[k]]]
  BY Zenon
<1>4. /\ prog' = [prog EXCEPT ![c] = p]
      /\ pcpu' = pcpu /\ user' = user /\ calls' = calls /\ elem' = elem /\ cells' = cells
      /\ spare' = spare /\ reused' = reused
  BY <1>1, <1>3, Zenon DEF GetMem, Step, memVars
<1>5. /\ elem[k] = NoElem => p = Resting /\ p.pc = "idle" /\ p \in CountPlaces
      /\ elem[k] # NoElem => /\ p.pc = "inc_mem" /\ p.ptr = elem[k] /\ p.val = cells[elem[k]]
                             /\ p \in CountPlaces /\ elem[k] \in Elems /\ cells[elem[k]] \in Int
  <2>1. elem[k] # NoElem => elem[k] \in Elems /\ cells[elem[k]] \in Int
    BY <1>0, <1>2, Zenon DEF CountTypes
  <2> QED
    BY <1>3, <2>1, PlacesAre, Zenon
<1>6. prog'[c] = p /\ (\A d \in Cpus \ {c} : prog'[d] = prog[d]) /\ prog' \in [Cpus -> CountPlaces]
  BY <1>0, <1>4, <1>5, Zenon DEF CountTypes
<1>7. /\ \A j \in Keys : Counted(j)' = Counted(j) /\ (HasElem(j)' <=> HasElem(j))
      /\ Whole'
  BY <1>0, <1>4, CountedSame, Zenon
<1>8. CountTypes'
  BY <1>0, <1>4, <1>6, Zenon DEF CountTypes
<1>9. Placed'
  <2>1. p.pc \in {"idle", "inc_mem"}
    BY <1>5, Zenon
  <2>2. \A j \in Keys : elem'[j] # NoElem => HasElem(j)
    BY <1>0, <1>4, Zenon DEF Placed
  <2> QED
    BY <1>0, <1>4, <2>1, <2>2, LeavesPlaced, Zenon
<1>10. Apart'
  <2>1. p.pc = "inc_mem" => /\ p.val >= 0
                            /\ \A j \in Keys : elem[j] = NoElem => p.ptr # KeyElem(j)
    BY <1>0, <1>2, <1>5, Zenon DEF Apart
  <2> QED
    BY <1>0, <1>4, <1>6, <2>1, ZenonT(30) DEF Apart
<1>11. \A j \in Keys : /\ ~AddsTo(prog[c], j) /\ ~AddsTo(p, j)
                       /\ IsBehind(p, j, elem[j]) => IsBehind(prog[c], j, elem[j])
  <2>1. \A j \in Keys : ~AddsTo(prog[c], j) /\ ~AddsTo(p, j)
    BY <1>2, <1>5, Zenon DEF AddsTo
  <2>2. \A j \in Keys : IsBehind(p, j, elem[j]) => j = k
    BY <1>0, <1>2, <1>5, Zenon DEF IsBehind, Apart
  <2>3. IsBehind(prog[c], k, elem[k])
    BY <1>1, <1>2, Zenon DEF IsBehind
  <2> QED
    BY <2>1, <2>2, <2>3, Zenon
<1>12. \A j \in Keys : Adding(j)' = Adding(j) /\ Behind(j)' \in SUBSET Behind(j)
  <2>1. \A j \in Keys :
           /\ Adding(j)' = IF AddsTo(p, j) THEN Adding(j) \cup {c} ELSE Adding(j) \ {c}
           /\ Behind(j)' = IF IsBehind(p, j, elem[j]) THEN Behind(j) \cup {c}
                           ELSE Behind(j) \ {c}
    BY <1>0, <1>4, SetsStep, Zenon
  <2>2. \A j \in Keys : c \notin Adding(j) /\ (IsBehind(p, j, elem[j]) => c \in Behind(j))
    BY <1>11, Zenon DEF Adding, Behind
  <2> QED
    BY <1>11, <2>1, <2>2, Zenon
<1>13. Exact'
  BY <1>0, <1>4, <1>7, <1>12, Zenon DEF Exact
<1>14. Below'
  <2>1. SUFFICES ASSUME reused = FALSE, NEW j \in Keys
                 PROVE  /\ Cardinality(Behind(j)') <= Counted(j)
                        /\ elem[j] # NoElem =>
                             cells[elem[j]] + Cardinality(Behind(j)') <= Counted(j)
                        /\ \A d \in Cpus : prog'[d].pc = "inc_mem" /\ prog'[d].ptr = elem[j] =>
                             prog'[d].val + Cardinality(Behind(j)') <= Counted(j)
    BY <1>4, <1>7, Zenon DEF Below
  <2>2. PICK n, m : n = Cardinality(Behind(j)) /\ m = Cardinality(Behind(j)')
    BY Zenon
  <2>3. n \in Nat /\ m \in Nat /\ m <= n
    <3>1. Behind(j) \in SUBSET Cpus
      BY Zenon DEF Behind
    <3> QED
      BY <1>12, <2>2, <3>1, CardLess, Zenon
  <2>4. /\ n <= Counted(j)
        /\ elem[j] # NoElem => cells[elem[j]] + n <= Counted(j)
        /\ \A d \in Cpus : prog[d].pc = "inc_mem" /\ prog[d].ptr = elem[j] =>
             prog[d].val + n <= Counted(j)
    BY <1>0, <2>1, <2>2, Zenon DEF Below
  <2>5. \A d \in Cpus : prog'[d].pc = "inc_mem" /\ prog'[d].ptr = elem[j] =>
             prog'[d].val + n <= Counted(j)
    <3>1. SUFFICES ASSUME NEW d \in Cpus, prog'[d].pc = "inc_mem", prog'[d].ptr = elem[j]
                   PROVE  prog'[d].val + n <= Counted(j)
      BY Zenon
    <3>2. CASE d = c
      <4>1. p.pc = "inc_mem" /\ p.ptr = elem[j] /\ elem[k] # NoElem
        BY <1>5, <1>6, <3>1, <3>2, Zenon
      <4>2. p.val = cells[elem[j]] /\ elem[j] # NoElem
        BY <1>5, <4>1, Zenon
      <4> QED
        BY <1>6, <2>4, <3>2, <4>2, Zenon
    <3>3. CASE d # c
      BY <1>6, <2>4, <3>1, <3>3, Zenon
    <3> QED
      BY <3>2, <3>3, Zenon
  <2>6. Counted(j) \in Int
    BY <1>0, CountedIs, Zenon
  <2>7. elem[j] # NoElem => cells[elem[j]] \in Int
    BY <1>0, Zenon DEF CountTypes
  <2>8. \A d \in Cpus : prog'[d].pc = "inc_mem" => prog'[d].val \in Int
    BY <1>6, PlaceCases, PlacesAre, Zenon
  <2>9. /\ m <= Counted(j) /\ (elem[j] # NoElem => cells[elem[j]] + m <= Counted(j))
        /\ \A d \in Cpus : prog'[d].pc = "inc_mem" /\ prog'[d].ptr = elem[j] =>
             prog'[d].val + m <= Counted(j)
    BY <2>3, <2>4, <2>5, <2>6, <2>7, <2>8
  <2> QED
    BY <2>2, <2>9, Zenon
<1>15. ReadBelow'
  BY <1>0, <1>4, Zenon DEF ReadBelow
<1> QED
  BY <1>7, <1>8, <1>9, <1>10, <1>13, <1>14, <1>15, Zenon DEF CountInv

\* A store of a value read earlier stays below the exact count.
LEMMA IncMemKeeps ==
  ASSUME CountInv, NEW c \in Cpus, IncMem(c)
  PROVE  CountInv'
<1>0. CountTypes /\ Whole /\ Placed /\ Apart /\ Exact /\ Below /\ ReadBelow
  BY Zenon DEF CountInv
<1>1. PICK e, v : e = prog[c].ptr /\ v = prog[c].val
  BY Zenon
<1>2. prog[c].pc = "inc_mem" /\ e \in Elems /\ v \in Int /\ v >= 0
  <2>1. prog[c].pc = "inc_mem" /\ prog[c] \in CountPlaces
    BY <1>0, Zenon DEF CountTypes, IncMem
  <2>2. e \in Elems /\ v \in Int
    BY <1>1, <2>1, PlaceCases, PlacesAre, Zenon
  <2>3. v >= 0
    BY <1>0, <1>1, <2>1, Zenon DEF Apart
  <2> QED
    BY <2>1, <2>2, <2>3, Zenon
<1>3. PICK p : p = Resting
  BY Zenon
<1>4. /\ prog' = [prog EXCEPT ![c] = p] /\ cells' = [cells EXCEPT ![e] = v + 1]
      /\ pcpu' = pcpu /\ user' = user /\ calls' = calls /\ elem' = elem
      /\ spare' = spare /\ reused' = reused
  BY <1>1, <1>3, Zenon DEF IncMem, Step
<1>5. p \in CountPlaces /\ p.pc = "idle"
  BY <1>3, PlacesAre, Zenon
<1>6. prog'[c] = p /\ (\A d \in Cpus \ {c} : prog'[d] = prog[d]) /\ prog' \in [Cpus -> CountPlaces]
  BY <1>0, <1>4, <1>5, Zenon DEF CountTypes
<1>7. /\ \A j \in Keys : Counted(j)' = Counted(j) /\ (HasElem(j)' <=> HasElem(j))
      /\ Whole'
  BY <1>0, <1>4, CountedSame, Zenon
<1>8. /\ cells' \in [Elems -> Int] /\ cells'[e] = v + 1
      /\ \A f \in Elems \ {e} : cells'[f] = cells[f]
  BY <1>0, <1>2, <1>4 DEF CountTypes
<1>9. CountTypes'
  BY <1>0, <1>4, <1>6, <1>8, Zenon DEF CountTypes
<1>10. Placed'
  <2>1. \A j \in Keys : elem'[j] # NoElem => HasElem(j)
    BY <1>0, <1>4, Zenon DEF Placed
  <2>2. p.pc \in {"idle", "inc_mem"}
    BY <1>5, Zenon
  <2> QED
    BY <1>0, <1>4, <2>1, <2>2, LeavesPlaced, Zenon
<1>11. Apart'
  <2>1. \A f \in Elems : cells'[f] >= 0
    BY <1>0, <1>2, <1>8 DEF Apart, CountTypes
  <2> QED
    BY SMTT(20), <1>0, <1>4, <1>5, <1>6, <2>1 DEF Apart
<1>12. \A j \in Keys : /\ ~AddsTo(prog[c], j) /\ ~AddsTo(p, j) /\ ~IsBehind(p, j, elem[j])
                       /\ IsBehind(prog[c], j, elem[j]) <=> e = elem[j]
  BY <1>1, <1>2, <1>5, Zenon DEF AddsTo, IsBehind
<1>13. \A j \in Keys : Adding(j)' = Adding(j) /\ Behind(j)' = Behind(j) \ {c}
                       /\ (c \in Behind(j) <=> e = elem[j])
  <2>1. \A j \in Keys :
           /\ Adding(j)' = IF AddsTo(p, j) THEN Adding(j) \cup {c} ELSE Adding(j) \ {c}
           /\ Behind(j)' = IF IsBehind(p, j, elem[j]) THEN Behind(j) \cup {c}
                           ELSE Behind(j) \ {c}
    BY <1>0, <1>4, SetsStep, Zenon
  <2>2. \A j \in Keys : c \notin Adding(j) /\ (c \in Behind(j) <=> e = elem[j])
    BY <1>12, Zenon DEF Adding, Behind
  <2>3. \A j \in Keys : Adding(j) \ {c} = Adding(j)
    BY <2>2, Zenon
  <2> QED
    BY <1>12, <2>1, <2>2, <2>3, Zenon
<1>14. Exact'
  BY <1>0, <1>4, <1>7, <1>13, Zenon DEF Exact
<1>15. Below'
  <2>1. SUFFICES ASSUME reused = FALSE, NEW j \in Keys
                 PROVE  /\ Cardinality(Behind(j)') <= Counted(j)
                        /\ elem[j] # NoElem =>
                             cells'[elem[j]] + Cardinality(Behind(j)') <= Counted(j)
                        /\ \A d \in Cpus : prog'[d].pc = "inc_mem" /\ prog'[d].ptr = elem[j] =>
                             prog'[d].val + Cardinality(Behind(j)') <= Counted(j)
    BY <1>4, <1>7, Zenon DEF Below
  <2>2. PICK n, m : n = Cardinality(Behind(j)) /\ m = Cardinality(Behind(j)')
    BY Zenon
  <2>3. n \in Nat /\ m \in Nat /\ m <= n /\ (e = elem[j] => m = n - 1)
    <3>1. Behind(j) \in SUBSET Cpus /\ Behind(j)' \in SUBSET Behind(j)
      BY <1>13, Zenon DEF Behind
    <3>2. n \in Nat /\ m \in Nat /\ m <= n
      BY <2>2, <3>1, CardLess, Zenon
    <3>3. e = elem[j] => m = n - 1
      BY <1>13, <2>2, <3>1, CardOne, Zenon
    <3> QED
      BY <3>2, <3>3, Zenon
  <2>4. /\ n <= Counted(j)
        /\ elem[j] # NoElem => cells[elem[j]] + n <= Counted(j)
        /\ \A d \in Cpus : prog[d].pc = "inc_mem" /\ prog[d].ptr = elem[j] =>
             prog[d].val + n <= Counted(j)
    BY <1>0, <2>1, <2>2, Zenon DEF Below
  <2>5. Counted(j) \in Int
    BY <1>0, CountedIs, Zenon
  <2>6. elem[j] # NoElem => cells'[elem[j]] + m <= Counted(j)
    <3>1. CASE e = elem[j]
      <4>1. v + n <= Counted(j)
        BY <1>1, <1>2, <2>4, <3>1, Zenon
      <4> QED
        BY SMTT(20), <1>2, <1>8, <2>3, <2>5, <3>1, <4>1
    <3>2. CASE e # elem[j]
      <4>1. elem[j] # NoElem => cells'[elem[j]] = cells[elem[j]] /\ cells[elem[j]] \in Int
        BY <1>0, <1>8, <3>2, Zenon DEF CountTypes
      <4> QED
        BY <2>3, <2>4, <2>5, <4>1
    <3> QED
      BY <3>1, <3>2, Zenon
  <2>7. \A d \in Cpus : prog'[d].pc = "inc_mem" /\ prog'[d].ptr = elem[j] =>
             prog'[d].val + m <= Counted(j)
    <3>1. SUFFICES ASSUME NEW d \in Cpus, prog'[d].pc = "inc_mem", prog'[d].ptr = elem[j]
                   PROVE  prog'[d].val + m <= Counted(j)
      BY Zenon
    <3>2. d # c /\ prog'[d] = prog[d]
      BY <1>5, <1>6, <3>1, Zenon
    <3>3. prog[d].val \in Int
      BY <1>6, <3>1, <3>2, PlaceCases, PlacesAre
    <3>4. prog[d].val + n <= Counted(j)
      BY <2>4, <3>1, <3>2, Zenon
    <3> QED
      BY <2>3, <2>5, <3>2, <3>3, <3>4
  <2>8. m <= Counted(j)
    BY <2>3, <2>4, <2>5
  <2> QED
    BY <2>2, <2>6, <2>7, <2>8, Zenon
<1>16. ReadBelow'
  BY <1>0, <1>4, Zenon DEF ReadBelow
<1> QED
  BY <1>7, <1>9, <1>10, <1>11, <1>14, <1>15, <1>16, Zenon DEF CountInv

\* The element that set puts in the table belonged to nobody.
LEMMA SetMemIs ==
  ASSUME CountInv, NEW c \in Cpus, SetMem(c)
  PROVE  \E k \in Keys, e \in Elems :
           /\ prog[c].pc = "set_mem" /\ prog[c].key = k /\ HasElem(k)
           /\ e = IF elem[k] = NoElem THEN KeyElem(k) ELSE spare[c]
           /\ elem' = [elem EXCEPT ![k] = e] /\ cells' = [cells EXCEPT ![e] = 1]
           /\ spare' = IF elem[k] = NoElem THEN spare ELSE [spare EXCEPT ![c] = elem[k]]
           /\ \A j \in Keys : elem[j] # e
           /\ reused' = (reused \/ \E d \in Cpus : prog[d].pc = "inc_mem" /\ prog[d].ptr = e)
<1>0. CountTypes /\ Placed /\ Apart
  BY Zenon DEF CountInv
<1>1. PICK k : k = prog[c].key
  BY Zenon
<1>2. PICK e : e = IF elem[k] = NoElem THEN KeyElem(k) ELSE spare[c]
  BY Zenon
<1>3. prog[c].pc = "set_mem" /\ prog[c] \in CountPlaces
  BY <1>0, Zenon DEF SetMem, CountTypes
<1>4. k \in Keys
  BY <1>1, <1>3, PlaceCases, PlacesAre, Zenon
<1>5. HasElem(k)
  <2>1. KeyOf(prog[c], k)
    BY <1>1, <1>3, Zenon DEF KeyOf
  <2> QED
    BY <1>0, <1>3, <1>4, <2>1, Zenon DEF Placed
<1>6. e \in Elems
  BY <1>0, <1>2, <1>4, ElemsDiffer, Zenon DEF CountTypes
<1>7. \A j \in Keys : elem[j] # e
  BY <1>0, <1>2, <1>4, Zenon DEF Apart
<1>8. /\ elem' = [elem EXCEPT ![k] = e] /\ cells' = [cells EXCEPT ![e] = 1]
      /\ spare' = IF elem[k] = NoElem THEN spare ELSE [spare EXCEPT ![c] = elem[k]]
      /\ reused' = (reused \/ \E d \in Cpus : prog[d].pc = "inc_mem" /\ prog[d].ptr = e)
  BY <1>1, <1>2, Zenon DEF SetMem, MemSet
<1> QED
  BY <1>1, <1>2, <1>3, <1>4, <1>5, <1>6, <1>7, <1>8, Zenon

\* A new or replaced element of the plain map stays below the exact count.
LEMMA SetMemKeeps ==
  ASSUME CountInv, NEW c \in Cpus, SetMem(c)
  PROVE  CountInv'
<1>0. CountTypes /\ Whole /\ Placed /\ Apart /\ Exact /\ Below /\ ReadBelow
  BY Zenon DEF CountInv
<1>1. PICK k \in Keys, e \in Elems :
        /\ prog[c].pc = "set_mem" /\ prog[c].key = k /\ HasElem(k)
        /\ e = IF elem[k] = NoElem THEN KeyElem(k) ELSE spare[c]
        /\ elem' = [elem EXCEPT ![k] = e] /\ cells' = [cells EXCEPT ![e] = 1]
        /\ spare' = IF elem[k] = NoElem THEN spare ELSE [spare EXCEPT ![c] = elem[k]]
        /\ \A j \in Keys : elem[j] # e
        /\ reused' = (reused \/ \E d \in Cpus : prog[d].pc = "inc_mem" /\ prog[d].ptr = e)
  BY SetMemIs, Zenon
<1>2. PICK p : p = Resting
  BY Zenon
<1>3. p \in CountPlaces /\ p.pc = "idle"
  BY <1>2, PlacesAre, Zenon
<1>4. /\ prog' = [prog EXCEPT ![c] = p] /\ pcpu' = pcpu /\ user' = user /\ calls' = calls
  BY <1>2, Zenon DEF SetMem, Step
<1>5. prog'[c] = p /\ (\A d \in Cpus \ {c} : prog'[d] = prog[d]) /\ prog' \in [Cpus -> CountPlaces]
  BY <1>0, <1>3, <1>4, Zenon DEF CountTypes
<1>6. /\ \A j \in Keys : Counted(j)' = Counted(j) /\ (HasElem(j)' <=> HasElem(j))
      /\ Whole'
  BY <1>0, <1>4, CountedSame, Zenon
<1>7. /\ elem'[k] = e /\ \A j \in Keys \ {k} : elem'[j] = elem[j]
      /\ elem' \in [Keys -> Elems \cup {NoElem}] /\ e # NoElem
  BY <1>0, <1>1, ElemsDiffer, Zenon DEF CountTypes
<1>8. /\ cells'[e] = 1 /\ (\A f \in Elems \ {e} : cells'[f] = cells[f])
      /\ cells' \in [Elems -> Int]
  BY <1>0, <1>1 DEF CountTypes
<1>9. /\ elem[k] = NoElem => spare' = spare
      /\ elem[k] # NoElem => spare'[c] = elem[k] /\ \A d \in Cpus \ {c} : spare'[d] = spare[d]
      /\ spare' \in [Cpus -> Elems]
  BY <1>0, <1>1, Zenon DEF CountTypes
<1>10. reused' \in BOOLEAN
  BY <1>1, Zenon
<1>11. CountTypes'
  BY <1>0, <1>4, <1>5, <1>7, <1>8, <1>9, <1>10, Zenon DEF CountTypes
<1>12. Placed'
  <2>1. \A j \in Keys : elem'[j] # NoElem => HasElem(j)
    BY <1>0, <1>1, <1>7, Zenon DEF Placed
  <2>2. p.pc \in {"idle", "inc_mem"}
    BY <1>3, Zenon
  <2> QED
    BY <1>0, <1>4, <2>1, <2>2, LeavesPlaced, Zenon
<1>13. Apart'
  <2>1. \A i, j \in Keys : elem'[i] = elem'[j] /\ elem'[i] # NoElem => i = j
    BY <1>0, <1>1, <1>7 DEF Apart
  <2>2. \A j \in Keys, d \in Cpus : elem'[j] # spare'[d]
    <3>1. CASE elem[k] = NoElem
      BY SMTT(20), <1>0, <1>1, <1>7, <1>9, <3>1 DEF Apart
    <3>2. CASE elem[k] # NoElem
      BY SMTT(20), <1>0, <1>1, <1>7, <1>9, <3>2 DEF Apart
    <3> QED
      BY <3>1, <3>2, Zenon
  <2>3. \A d, b \in Cpus : spare'[d] = spare'[b] => d = b
    <3>1. CASE elem[k] = NoElem
      BY <1>0, <1>9, <3>1, Zenon DEF Apart
    <3>2. CASE elem[k] # NoElem
      BY <1>0, <1>9, <3>2 DEF Apart
    <3> QED
      BY <3>1, <3>2, Zenon
  <2>4. ASSUME NEW i \in Keys, elem'[i] = NoElem
        PROVE  /\ \A j \in Keys : elem'[j] # KeyElem(i)
               /\ \A d \in Cpus : /\ spare'[d] # KeyElem(i)
                                  /\ prog'[d].pc = "inc_mem" => prog'[d].ptr # KeyElem(i)
    <3>1. i # k /\ elem[i] = NoElem
      BY <1>7, <2>4, Zenon
    <3>2. e # KeyElem(i)
      BY <1>0, <1>1, <3>1, ElemsDiffer, Zenon DEF Apart
    <3>3. \A j \in Keys : elem'[j] # KeyElem(i)
      BY <1>0, <1>7, <3>1, <3>2, Zenon DEF Apart
    <3>4. \A d \in Cpus : spare'[d] # KeyElem(i)
      <4>1. CASE elem[k] = NoElem
        BY <1>0, <1>9, <3>1, <4>1, Zenon DEF Apart
      <4>2. CASE elem[k] # NoElem
        BY <1>0, <1>9, <3>1, <4>2, Zenon DEF Apart
      <4> QED
        BY <4>1, <4>2, Zenon
    <3>5. \A d \in Cpus : prog'[d].pc = "inc_mem" => prog'[d].ptr # KeyElem(i)
      BY <1>0, <1>3, <1>5, <3>1, Zenon DEF Apart
    <3> QED
      BY <3>3, <3>4, <3>5, Zenon
  <2>5. \A f \in Elems : cells'[f] >= 0
    BY <1>0, <1>8 DEF Apart
  <2>6. \A d \in Cpus : prog'[d].pc = "inc_mem" => prog'[d].val >= 0
    BY <1>0, <1>3, <1>5, Zenon DEF Apart
  <2> QED
    BY <2>1, <2>2, <2>3, <2>4, <2>5, <2>6, ZenonT(30) DEF Apart, KeyElem
<1>14. \A j \in Keys : Adding(j)' = Adding(j)
  <2>1. \A j \in Keys : ~AddsTo(prog[c], j) /\ ~AddsTo(p, j)
    BY <1>1, <1>3, Zenon DEF AddsTo
  <2>2. \A j \in Keys : Adding(j)' = {d \in Cpus : AddsTo(prog'[d], j)}
    BY Zenon DEF Adding, AddsTo
  <2>3. \A j \in Keys, d \in Cpus : AddsTo(prog'[d], j) <=> AddsTo(prog[d], j)
    BY <1>5, <2>1, Zenon
  <2> QED
    BY <2>2, <2>3, Zenon DEF Adding
<1>15. Exact'
  BY <1>0, <1>4, <1>6, <1>14, Zenon DEF Exact
<1>16. ASSUME reused' = FALSE
       PROVE  reused = FALSE /\ \A d \in Cpus : ~(prog[d].pc = "inc_mem" /\ prog[d].ptr = e)
  <2>1. reused \in BOOLEAN
    BY <1>0, Zenon DEF CountTypes
  <2> QED
    BY <1>1, <1>16, <2>1, Zenon
<1>17. Below'
  <2>1. SUFFICES ASSUME reused' = FALSE, NEW j \in Keys
                 PROVE  /\ Cardinality(Behind(j)') <= Counted(j)
                        /\ elem'[j] # NoElem =>
                             cells'[elem'[j]] + Cardinality(Behind(j)') <= Counted(j)
                        /\ \A d \in Cpus : prog'[d].pc = "inc_mem" /\ prog'[d].ptr = elem'[j] =>
                             prog'[d].val + Cardinality(Behind(j)') <= Counted(j)
    BY <1>6, Zenon DEF Below
  <2>2. reused = FALSE /\ \A d \in Cpus : ~(prog[d].pc = "inc_mem" /\ prog[d].ptr = e)
    BY <1>16, <2>1, Zenon
  <2>3. Behind(j)' = {d \in Cpus : IsBehind(prog'[d], j, elem'[j])}
    BY Zenon DEF Behind, IsBehind
  <2>4. PICK n, m : n = Cardinality(Behind(j)) /\ m = Cardinality(Behind(j)')
    BY Zenon
  <2>5. /\ n <= Counted(j)
        /\ elem[j] # NoElem => cells[elem[j]] + n <= Counted(j)
        /\ \A d \in Cpus : prog[d].pc = "inc_mem" /\ prog[d].ptr = elem[j] =>
             prog[d].val + n <= Counted(j)
    BY <1>0, <2>2, <2>4, Zenon DEF Below
  <2>6. Counted(j) \in Int
    BY <1>0, CountedIs, Zenon
  <2>7. CASE j = k
    <3>1. c \in Behind(j)
      BY <1>1, <2>7, Zenon DEF Behind, IsBehind
    <3>2. Behind(j)' \in SUBSET (Behind(j) \ {c})
      <4>1. ASSUME NEW d \in Cpus, IsBehind(prog'[d], j, elem'[j])
            PROVE  d # c /\ IsBehind(prog[d], j, elem[j])
        <5>1. d # c
          BY <1>3, <1>5, <4>1, Zenon DEF IsBehind
        <5>2. prog'[d] = prog[d] /\ elem'[j] = e
          BY <1>5, <1>7, <2>7, <5>1, Zenon
        <5> QED
          BY <2>2, <4>1, <5>1, <5>2, Zenon DEF IsBehind
      <4> QED
        BY <2>3, <4>1, Zenon DEF Behind
    <3>3. Behind(j) \in SUBSET Cpus
      BY Zenon DEF Behind
    <3>4. n \in Nat /\ Cardinality(Behind(j) \ {c}) = n - 1
      BY <2>4, <3>1, <3>3, CardOne, Zenon
    <3>5. PICK R : R = Behind(j) \ {c}
      BY Zenon
    <3>6. m \in Nat /\ m <= n - 1
      BY <2>4, <3>2, <3>3, <3>4, <3>5, CardLess, ZenonT(30)
    <3>7. elem'[j] = e /\ cells'[elem'[j]] = 1
      BY <1>7, <1>8, <2>7, Zenon
    <3>8. \A d \in Cpus : ~(prog'[d].pc = "inc_mem" /\ prog'[d].ptr = elem'[j])
      BY <1>3, <1>5, <2>2, <3>7, Zenon
    <3>9. m <= Counted(j) /\ cells'[elem'[j]] + m <= Counted(j)
      BY SMTT(20), <2>5, <2>6, <3>4, <3>6, <3>7
    <3> QED
      BY <2>4, <3>8, <3>9, Zenon
  <2>8. CASE j # k
    <3>1. elem'[j] = elem[j] /\ elem[j] # e
      BY <1>1, <1>7, <2>8, Zenon
    <3>2. Behind(j)' \in SUBSET Behind(j)
      <4>1. ASSUME NEW d \in Cpus, IsBehind(prog'[d], j, elem'[j])
            PROVE  IsBehind(prog[d], j, elem[j])
        <5>1. d # c
          BY <1>3, <1>5, <4>1, Zenon DEF IsBehind
        <5> QED
          BY <1>5, <3>1, <4>1, <5>1, ZenonT(30)
      <4> QED
        BY <2>3, <4>1, Zenon DEF Behind
    <3>3. n \in Nat /\ m \in Nat /\ m <= n
      <4>1. Behind(j) \in SUBSET Cpus
        BY Zenon DEF Behind
      <4> QED
        BY <2>4, <3>2, <4>1, CardLess, Zenon
    <3>4. elem[j] # NoElem => cells'[elem[j]] = cells[elem[j]] /\ cells[elem[j]] \in Int
      BY <1>0, <1>8, <3>1, Zenon DEF CountTypes
    <3>5. elem'[j] # NoElem => cells'[elem'[j]] + m <= Counted(j)
      BY SMTT(20), <2>5, <2>6, <3>1, <3>3, <3>4
    <3>6. ASSUME NEW d \in Cpus, prog'[d].pc = "inc_mem", prog'[d].ptr = elem'[j]
          PROVE  prog'[d].val + m <= Counted(j)
      <4>1. prog'[d] = prog[d]
        BY <1>3, <1>5, <3>6, Zenon
      <4>2. prog[d].val \in Int
        BY SMTT(20), <1>5, <3>6, <4>1, PlaceCases, PlacesAre
      <4>3. prog[d].val + n <= Counted(j)
        BY <2>5, <3>1, <3>6, <4>1, Zenon
      <4> QED
        BY SMTT(20), <2>6, <3>3, <4>1, <4>2, <4>3
    <3>7. m <= Counted(j)
      BY <2>5, <2>6, <3>3
    <3> QED
      BY <2>4, <3>5, <3>6, <3>7, Zenon
  <2> QED
    BY <2>7, <2>8, Zenon
<1>18. ReadBelow'
  BY <1>0, <1>4, <1>16, Zenon DEF ReadBelow
<1> QED
  BY <1>6, <1>11, <1>12, <1>13, <1>15, <1>17, <1>18, Zenon DEF CountInv

-----------------------------------------------------------------------------
\* A step of the reader alone keeps what it does not look at.
LEMMA ReaderKeeps ==
  ASSUME CountInv, user' \in ReadPlaces, \A k \in Keys : user'.pc = "get" /\ user'.key = k => HasElem(k),
         ReadBelow', UNCHANGED <<pcpu, prog, calls>>, UNCHANGED memVars
  PROVE  CountInv'
<1>0. CountTypes /\ Whole /\ Placed /\ Apart /\ Exact /\ Below
  BY Zenon DEF CountInv
<1>1. /\ pcpu' = pcpu /\ prog' = prog /\ calls' = calls /\ elem' = elem /\ cells' = cells
      /\ spare' = spare /\ reused' = reused
  BY Zenon DEF memVars
<1>2. CountTypes'
  BY <1>0, <1>1, Zenon DEF CountTypes
<1>3. /\ \A j \in Keys : Counted(j)' = Counted(j) /\ (HasElem(j)' <=> HasElem(j))
      /\ Whole'
  BY <1>0, <1>1, CountedSame, Zenon
<1>4. Placed'
  BY <1>0, <1>1, <1>3, Zenon DEF Placed, KeyOf
<1>5. Apart'
  BY <1>0, <1>1, Zenon DEF Apart
<1>6. \A j \in Keys : Adding(j)' = Adding(j) /\ Behind(j)' = Behind(j)
  BY <1>1, Zenon DEF Adding, Behind, AddsTo, IsBehind
<1>7. Exact' /\ Below'
  BY <1>0, <1>1, <1>3, <1>6, Zenon DEF Exact, Below
<1> QED
  BY <1>2, <1>3, <1>4, <1>5, <1>7, Zenon DEF CountInv

\* The reader begins with a key that has a per-CPU element.
LEMMA ReadMemKeeps ==
  ASSUME CountInv, NEW k \in Keys, ReadMem(k)
  PROVE  CountInv'
<1>0. CountTypes /\ Whole /\ Placed /\ Below
  BY Zenon DEF CountInv
<1>1. PICK t : t = cells[elem[k]]
  BY Zenon
<1>2. elem[k] # NoElem /\ t \in Int
  BY <1>0, <1>1, Zenon DEF ReadMem, CountTypes
<1>3. user' = [pc |-> "get", key |-> k, left |-> Cpus, total |-> t, exact |-> 0]
  BY <1>1, Zenon DEF ReadMem
<1>4. /\ user'.pc = "get" /\ user'.key = k /\ user'.left = Cpus /\ user'.total = t
      /\ user'.exact = 0
  BY <1>3, Zenon
<1>5. user' \in ReadPlaces
  BY <1>2, <1>3 DEF ReadPlaces
<1>6. HasElem(k)
  BY <1>0, <1>2, Zenon DEF Placed
<1>7. UNCHANGED <<pcpu, prog, calls>> /\ UNCHANGED memVars
  BY Zenon DEF ReadMem
<1>8. ReadBelow'
  <2>1. SUFFICES ASSUME reused = FALSE PROVE t <= 0 + SumFunctionOnSet(pcpu[k], Cpus)
    BY <1>4, <1>7, Zenon DEF ReadBelow, memVars
  <2>2. t + Cardinality(Behind(k)) <= Counted(k)
    BY <1>0, <1>1, <1>2, <2>1, Zenon DEF Below
  <2>3. Cardinality(Behind(k)) \in Nat
    <3>1. Behind(k) \in SUBSET Cpus
      BY Zenon DEF Behind
    <3> QED
      BY <3>1, CardLess, Zenon
  <2>4. Counted(k) = SumFunctionOnSet(pcpu[k], Cpus) /\ Counted(k) \in Int
    BY <1>0, <1>6, CountedIs, Zenon
  <2> QED
    BY <1>2, <2>2, <2>3, <2>4
<1> QED
  BY <1>4, <1>5, <1>6, <1>7, <1>8, ReaderKeeps, Zenon

\* What the reader has summed up is not above the sum of its slots.
LEMMA ReadPcpuKeeps ==
  ASSUME CountInv, NEW c \in Cpus, ReadPcpu(c)
  PROVE  CountInv'
<1>0. CountTypes /\ Whole /\ Placed /\ ReadBelow
  BY Zenon DEF CountInv
<1>1. PICK k, l, t, x : k = user.key /\ l = user.left /\ t = user.total /\ x = user.exact
  BY Zenon
<1>2. user.pc = "get" /\ c \in l
  BY <1>1, Zenon DEF ReadPcpu
<1>3. /\ k \in Keys /\ l \in SUBSET Cpus /\ t \in Int /\ x \in Int
      /\ user = [pc |-> "get", key |-> k, left |-> l, total |-> t, exact |-> x]
  BY <1>0, <1>1, <1>2, ReadCases, PlacesAre, Zenon DEF CountTypes
<1>4. HasElem(k)
  BY <1>0, <1>1, <1>2, <1>3, Zenon DEF Placed
<1>5. PICK v : v = pcpu[k][c]
  BY Zenon
<1>6. v \in Int
  BY <1>0, <1>3, <1>5, Zenon DEF CountTypes
<1>7. user' = [pc |-> "get", key |-> k, left |-> l \ {c}, total |-> t, exact |-> x + v]
  <2>1. user' = [user EXCEPT !.left = @ \ {c}, !.exact = @ + pcpu[k][c]]
    BY <1>1, <1>4, Zenon DEF ReadPcpu
  <2> QED
    BY <1>3, <1>5, <2>1, Zenon
<1>8. /\ user'.pc = "get" /\ user'.key = k /\ user'.left = l \ {c} /\ user'.total = t
      /\ user'.exact = x + v
  BY <1>7, Zenon
<1>9. user' \in ReadPlaces
  BY <1>3, <1>6, <1>7 DEF ReadPlaces
<1>10. UNCHANGED <<pcpu, prog, calls>> /\ UNCHANGED memVars
  BY Zenon DEF ReadPcpu
<1>11. ReadBelow'
  <2>1. SUFFICES ASSUME reused = FALSE
                 PROVE  t <= (x + v) + SumFunctionOnSet(pcpu[k], l \ {c})
    BY <1>8, <1>10, Zenon DEF ReadBelow, memVars
  <2>2. PICK f : f = pcpu[k]
    BY Zenon
  <2>3. \A d \in Cpus : f[d] \in Int
    BY <1>0, <1>3, <2>2, Zenon DEF CountTypes
  <2>4. IsFiniteSet(l) /\ IsFiniteSet(l \ {c})
    BY <1>3, CountAssumption, FS_Subset, Zenon
  <2>5. SumFunctionOnSet(f, l) = f[c] + SumFunctionOnSet(f, l \ {c})
    BY <1>2, <1>3, <2>3, <2>4, SumOfMore, Zenon
  <2>6. SumFunctionOnSet(f, l \ {c}) \in Int
    <3>1. \A d \in l \ {c} : f[d] \in Int
      BY <1>3, <2>3, Zenon
    <3> QED
      BY <2>4, <3>1, SumOfMore, Zenon
  <2>7. t <= x + SumFunctionOnSet(f, l)
    BY <1>0, <1>1, <1>2, <2>1, <2>2, Zenon DEF ReadBelow
  <2>8. f[c] = v
    BY <1>5, <2>2, Zenon
  <2>9. t <= (x + v) + SumFunctionOnSet(f, l \ {c})
    BY SMTT(20), <1>3, <1>6, <2>5, <2>6, <2>7, <2>8
  <2> QED
    BY <2>2, <2>9, Zenon
<1> QED
  BY <1>4, <1>8, <1>9, <1>10, <1>11, ReaderKeeps, Zenon

\* The reader is back at its start.
LEMMA ReportKeeps == ASSUME CountInv, Report PROVE CountInv'
<1>1. user' = Resting /\ UNCHANGED <<pcpu, prog, calls>> /\ UNCHANGED memVars
  BY Zenon DEF Report
<1>2. user'.pc = "idle" /\ user' \in ReadPlaces
  BY <1>1, PlacesAre, Zenon DEF ReadPlaces
<1>3. ReadBelow'
  BY <1>2, Zenon DEF ReadBelow
<1> QED
  BY <1>1, <1>2, <1>3, ReaderKeeps, Zenon

\* Every step keeps the invariant.
LEMMA CountKeeps == CountInv /\ [CountNext]_countVars => CountInv'
<1> SUFFICES ASSUME CountInv, [CountNext]_countVars PROVE CountInv'
  BY Zenon
<1>1. ASSUME NEW c \in Cpus, NEW size \in Sizes, Kmalloc(c, size) PROVE CountInv'
  BY <1>1, KmallocKeeps, Zenon
<1>2. ASSUME NEW c \in Cpus, IncPcpu(c) \/ SetPcpu(c) PROVE CountInv'
  BY <1>2, PcpuKeeps, Zenon
<1>3. ASSUME NEW c \in Cpus, GetMem(c) PROVE CountInv'
  BY <1>3, GetMemKeeps, Zenon
<1>4. ASSUME NEW c \in Cpus, IncMem(c) PROVE CountInv'
  BY <1>4, IncMemKeeps, Zenon
<1>5. ASSUME NEW c \in Cpus, SetMem(c) PROVE CountInv'
  BY <1>5, SetMemKeeps, Zenon
<1>6. ASSUME NEW c \in Cpus, ReadPcpu(c) PROVE CountInv'
  BY <1>6, ReadPcpuKeeps, Zenon
<1>7. ASSUME NEW k \in Keys, ReadMem(k) PROVE CountInv'
  BY <1>7, ReadMemKeeps, Zenon
<1>8. CASE Report
  BY <1>8, ReportKeeps, Zenon
<1>9. CASE UNCHANGED countVars
  <2>1. user' = user /\ UNCHANGED <<pcpu, prog, calls>> /\ UNCHANGED memVars
    BY <1>9, Zenon DEF countVars, memVars
  <2>2. CountTypes /\ Placed /\ ReadBelow
    BY Zenon DEF CountInv
  <2>3. ReadBelow' /\ user' \in ReadPlaces
    BY <2>1, <2>2, Zenon DEF ReadBelow, CountTypes, memVars
  <2>4. \A k \in Keys : user'.pc = "get" /\ user'.key = k => HasElem(k)
    BY <2>1, <2>2, Zenon DEF Placed
  <2> QED
    BY <2>1, <2>3, <2>4, ReaderKeeps, Zenon
<1> QED
  BY <1>1, <1>2, <1>3, <1>4, <1>5, <1>6, <1>7, <1>8, <1>9, Zenon DEF CountNext

\* examples/example-probes/src/hashmaps/main.rs and hashmaps.rs, for any number
\* of CPUs and any sizes: a call is in the per-CPU counts from the line on that
\* adds it, the reader never meets a missing entry, and the shared count is
\* never above the exact one while no element changes hands under a probe.
THEOREM CountsCorrect == CountSpec => []CountsRight
<1>1. CountInv => CountsRight
  <2> SUFFICES ASSUME CountInv PROVE CountsRight
    BY Zenon
  <2>0. CountTypes /\ Whole /\ Exact /\ Below /\ ReadBelow
    BY Zenon DEF CountInv
  <2>1. ASSUME NEW k \in Keys
        PROVE  Counted(k) + Cardinality({c \in Cpus : /\ prog[c].pc \in {"inc_pcpu", "set_pcpu"}
                                                      /\ prog[c].key = k}) = calls[k]
    BY <2>0, Zenon DEF Exact, Adding, AddsTo
  <2>2. ASSUME NEW k \in Keys, elem[k] # NoElem, ~reused
        PROVE  cells[elem[k]] <= Counted(k)
    <3>1. reused = FALSE
      BY <2>0, <2>2, Zenon DEF CountTypes
    <3>2. cells[elem[k]] + Cardinality(Behind(k)) <= Counted(k)
      BY <2>0, <2>2, <3>1, Zenon DEF Below
    <3>3. Behind(k) \in SUBSET Cpus
      BY Zenon DEF Behind
    <3>4. Cardinality(Behind(k)) \in Nat
      BY <3>3, CardLess, Zenon
    <3>5. Counted(k) \in Int /\ cells[elem[k]] \in Int
      BY <2>0, <2>2, CountedIs, Zenon DEF CountTypes
    <3> QED
      BY <3>2, <3>4, <3>5
  <2>3. user.pc # "panic"
    BY <2>0, ReadCases, PlacesAre, Zenon DEF CountTypes
  <2>4. ASSUME user.pc = "get", user.left = {}, ~reused
        PROVE  user.total <= user.exact
    <3>1. reused = FALSE
      BY <2>0, <2>4, Zenon DEF CountTypes
    <3>2. user.total <= user.exact + SumFunctionOnSet(pcpu[user.key], {})
      BY <2>0, <2>4, <3>1, Zenon DEF ReadBelow
    <3>3. SumFunctionOnSet(pcpu[user.key], {}) = 0
      BY SumOfNone, Zenon
    <3>4. user.total \in Int /\ user.exact \in Int
      BY <2>0, <2>4, ReadCases, PlacesAre, Zenon DEF CountTypes
    <3> QED
      BY <3>2, <3>3, <3>4
  <2> QED
    BY <2>1, <2>2, <2>3, <2>4, Zenon DEF CountsRight
<1> QED
  BY CountStart, CountKeeps, <1>1, PTL DEF CountSpec

-----------------------------------------------------------------------------
(* BTF::filter.  While the walk is on its way, a type may be left that      *)
(* refers to a removed one.  The invariant says where such types are: among *)
(* those that are still to be visited (Pending).                            *)


Looping == pc \in {"next", "walk", "renumber"}
Pending == IF pc = "walk" THEN stack \cup {rem} ELSE {}
AllIds  == DOMAIN section.types \cup Used(section.types)

Shape ==
  /\ section \in Sections
  /\ pc \in {"parse", "next", "walk", "renumber", "dump", "Ok", "inconsistent", "mismatch",
             "bloated", "shrunk"}
  /\ pos \in 1 .. Len(section.types) + 1
  /\ stack \subseteq DOMAIN section.types
  /\ pc \in {"next", "renumber"} => stack = {}
  /\ pc = "parse" => stack = {} /\ pos = 1
  /\ pc = "walk" => /\ pos \in DOMAIN section.types /\ rem \in DOMAIN section.types
                    /\ section.types[pos].kind \in Unknown
  /\ pc = "renumber" => pos = Len(section.types) + 1
  /\ Looping => /\ types = section.types
                /\ DOMAIN link \subseteq AllIds
                /\ AllIds \ DOMAIN section.types \subseteq DOMAIN link
                /\ \A id \in DOMAIN link : link[id] = Referrers(section.types, id)

\* What refers to a removed type is removed or pending.
RemovalClosed ==
  Looping => \A id \in AllIds \ DOMAIN link :
               Referrers(section.types, id) \cap DOMAIN link \subseteq Pending

\* The rejected types the outer loop has passed are removed, and the one it
\* is at is removed or pending.
LoopPassed ==
  Looping => /\ \A j \in 1 .. pos - 1 : section.types[j].kind \in Unknown => j \notin DOMAIN link
             /\ pc = "walk" => pos \notin DOMAIN link \/ pos \in Pending

\* No type that can be kept is removed or pending.
Spared ==
  Looping => \A S \in SUBSET DOMAIN section.types :
               Independent(section.types, S) => S \subseteq DOMAIN link /\ S \cap Pending = {}

FilterInv == Shape /\ RemovalClosed /\ LoopPassed /\ Spared /\ NeverInconsistent

\* The types of a section are a sequence.
LEMMA TypesSeq ==
  ASSUME NEW s \in Sections
  PROVE  /\ s.types \in Seq([kind : Kinds, refs : Seq(Nat), vals : Nat])
         /\ Len(s.types) \in Nat /\ DOMAIN s.types = 1 .. Len(s.types)
<1>1. s.types \in Seq([kind : Kinds, refs : Seq(Nat), vals : Nat])
  BY Zenon, FilterAssumption DEF FilterAssumption
<1> QED BY <1>1

\* Referrers are types, and refer to what they refer to.
LEMMA ReferrersFact ==
  ASSUME NEW ts, NEW id
  PROVE  /\ Referrers(ts, id) \subseteq DOMAIN ts
         /\ \A x \in Referrers(ts, id) : id \in RefsOf(ts[x])
         /\ \A x \in DOMAIN ts : id \in RefsOf(ts[x]) => x \in Referrers(ts, id) /\ id \in Used(ts)
  BY Zenon DEF Referrers, Used

\* The state before anything is parsed.
LEMMA FilterStart == FilterInit => FilterInv
<1> SUFFICES ASSUME FilterInit PROVE FilterInv BY Zenon
<1>1. Len(section.types) \in Nat /\ section \in Sections BY TypesSeq, Zenon DEF FilterInit
<1>2. pc = "parse" /\ pos = 1 /\ stack = {} BY Zenon DEF FilterInit
<1>3. Shape BY <1>1, <1>2 DEF Shape, Looping
<1> QED BY <1>2, <1>3, Zenon DEF FilterInv, RemovalClosed, LoopPassed, Spared, Looping, NeverInconsistent

\* in_link starts with every id, so that nothing is removed.
LEMMA ParseKeeps == ASSUME FilterInv, Parse PROVE FilterInv'
<1> USE DEF FilterInv
<1>1. /\ pc' = "next" /\ section' = section /\ pos' = 1 /\ stack' = {} /\ types' = section.types
      /\ link' = [id \in AllIds |-> Referrers(section.types, id)]
  BY Zenon DEF Parse, Shape, AllIds
<1>2. AllIds' = AllIds BY <1>1, Zenon DEF AllIds
<1>3. DOMAIN link' = AllIds BY <1>1, Zenon
<1>4. Len(section.types) \in Nat BY TypesSeq, Zenon DEF Shape
<1>5. Shape' BY <1>1, <1>2, <1>3, <1>4 DEF Shape, Looping
<1>6. RemovalClosed' BY <1>2, <1>3, Zenon DEF RemovalClosed
<1>7. LoopPassed' BY <1>1 DEF LoopPassed
<1>8. Pending' = {} BY <1>1, Zenon DEF Pending
<1>9. Spared' BY <1>1, <1>3, <1>8, Zenon DEF Spared, AllIds
<1> QED BY <1>1, <1>5, <1>6, <1>7, <1>9, Zenon DEF NeverInconsistent

\* A rejected type becomes pending; one that is not rejected is passed.
LEMMA NextTypeKeeps == ASSUME FilterInv, NextType PROVE FilterInv'
<1> USE DEF FilterInv
<1> DEFINE ts == section.types
<1>1. Len(ts) \in Nat /\ DOMAIN ts = 1 .. Len(ts) BY TypesSeq, Zenon DEF Shape
<1>2. pc = "next" /\ types = ts /\ stack = {} /\ pos \in DOMAIN ts
  BY Zenon DEF NextType, Shape, Looping
<1>3. section' = section /\ link' = link /\ stack' = stack /\ types' = types
  BY Zenon DEF NextType
<1>4. AllIds' = AllIds BY <1>3, Zenon DEF AllIds
<1>5. Pending = {} BY <1>2, Zenon DEF Pending
<1>6. CASE ts[pos].kind \in Unknown
  <2>1. rem' = pos /\ pc' = "walk" /\ pos' = pos BY <1>2, <1>6, Zenon DEF NextType
  <2>2. Pending' = {pos} BY <1>2, <1>3, <2>1, Zenon DEF Pending
  <2>3. Shape' BY <1>1, <1>2, <1>3, <1>4, <1>6, <2>1, Zenon DEF Shape, Looping
  <2>4. RemovalClosed' BY <1>2, <1>3, <1>4, <1>5, Zenon DEF RemovalClosed, Looping
  <2>5. LoopPassed' BY <1>2, <1>3, <2>1, <2>2, Zenon DEF LoopPassed, Looping
  <2>6. \A S \in SUBSET DOMAIN ts : Independent(ts, S) => pos \notin S
    BY <1>6, Zenon DEF Independent
  <2>7. Spared' BY <1>2, <1>3, <2>2, <2>6, Zenon DEF Spared, Looping
  <2> QED BY <2>1, <2>3, <2>4, <2>5, <2>7, Zenon DEF NeverInconsistent
<1>7. CASE ts[pos].kind \notin Unknown
  <2>1. rem' = rem /\ pc' = "next" /\ pos' = pos + 1 BY <1>2, <1>7, Zenon DEF NextType
  <2>2. Pending' = {} BY <2>1, Zenon DEF Pending
  <2>3. Shape' BY SMTT(20), <1>1, <1>2, <1>3, <1>4, <2>1 DEF Shape, Looping
  <2>4. RemovalClosed' BY <1>2, <1>3, <1>4, <1>5, <2>2, Zenon DEF RemovalClosed, Looping
  <2>5. LoopPassed' BY <1>1, <1>2, <1>3, <1>7, <2>1 DEF LoopPassed, Looping
  <2>6. Spared' BY <1>2, <1>3, <1>5, <2>2, Zenon DEF Spared, Looping
  <2> QED BY <2>1, <2>3, <2>4, <2>5, <2>6, Zenon DEF NeverInconsistent
<1> QED BY <1>6, <1>7, Zenon

\* What one turn of the walk does to the pending types: rem goes, and its
\* referrers come in if its entry was still there.
LEMMA WalkPending ==
  ASSUME FilterInv, Walk
  PROVE  LET in == IF rem \in DOMAIN link THEN link[rem] ELSE {}
         IN  /\ DOMAIN link' = DOMAIN link \ {rem}
             /\ \A id \in DOMAIN link' : link'[id] = link[id]
             /\ (stack \cup in) \ {rem} \subseteq Pending'
             /\ Pending' \subseteq stack \cup in
<1> DEFINE in == IF rem \in DOMAIN link THEN link[rem] ELSE {}
<1>1. pc = "walk" /\ link' = [id \in DOMAIN link \ {rem} |-> link[id]] BY Zenon DEF Walk
<1>2. CASE in # {}
  <2>1. PICK x \in in : rem' = x /\ stack' = stack \cup (in \ {x}) BY <1>2, Zenon DEF Walk
  <2>2. pc' = "walk" BY <1>1, <1>2, Zenon DEF Walk
  <2> QED BY <1>1, <2>1, <2>2, Zenon DEF Pending
<1>3. CASE in = {}
  <2>1. Pop BY <1>3, Zenon DEF Walk
  <2>2. CASE stack # {}
    <3>1. PICK x \in stack : rem' = x /\ stack' = stack \ {x} BY <2>1, <2>2, Zenon DEF Pop
    <3>2. pc' = "walk" BY <1>1, <2>1, <2>2, Zenon DEF Pop
    <3> QED BY <1>1, <1>3, <3>1, <3>2, Zenon DEF Pending
  <2>3. CASE stack = {}
    <3>1. pc' = "next" BY <2>1, <2>3, Zenon DEF Pop
    <3> QED BY <1>1, <1>3, <2>3, <3>1, Zenon DEF Pending
  <2> QED BY <2>2, <2>3, Zenon
<1> QED BY <1>2, <1>3, Zenon

\* The heart of the argument: a turn of the walk removes rem, and all of its
\* referrers that are left become pending.
LEMMA WalkKeeps == ASSUME FilterInv, Walk PROVE FilterInv'
<1> USE DEF FilterInv
<1> DEFINE ts == section.types
           in == IF rem \in DOMAIN link THEN link[rem] ELSE {}
<1>1. Len(ts) \in Nat /\ DOMAIN ts = 1 .. Len(ts) BY TypesSeq, Zenon DEF Shape
<1>2. /\ pc = "walk" /\ types = ts /\ pos \in DOMAIN ts /\ rem \in DOMAIN ts
      /\ ts[pos].kind \in Unknown /\ Pending = stack \cup {rem}
  BY Zenon DEF Walk, Shape, Looping, Pending
<1>3. section' = section /\ types' = types BY Zenon DEF Walk
<1>4. AllIds' = AllIds BY <1>3, Zenon DEF AllIds
<1>5. /\ DOMAIN link' = DOMAIN link \ {rem}
      /\ \A id \in DOMAIN link' : link'[id] = link[id]
      /\ (stack \cup in) \ {rem} \subseteq Pending'
      /\ Pending' \subseteq stack \cup in
  BY WalkPending, Zenon
<1>6. rem \in DOMAIN link => link[rem] = Referrers(ts, rem) BY <1>2, Zenon DEF Shape, Looping
<1>7. in \subseteq DOMAIN ts BY <1>6, ReferrersFact, Zenon
<1>8. \/ pc' = "walk" /\ pos' = pos /\ rem' \in stack \cup in /\ stack' \subseteq stack \cup in
      \/ pc' = "next" /\ pos' = pos + 1 /\ stack' = {}
  BY <1>2, Zenon DEF Walk, Pop
<1>9. Shape'
  <2>1. DOMAIN link' \subseteq AllIds /\ AllIds \ DOMAIN ts \subseteq DOMAIN link'
    BY <1>2, <1>5, Zenon DEF Shape, Looping
  <2>2. \A id \in DOMAIN link' : link'[id] = Referrers(ts, id)
    BY <1>2, <1>5, Zenon DEF Shape, Looping
  <2>3. stack \subseteq DOMAIN ts BY Zenon DEF Shape
  <2> HIDE DEF in
  <2>4. CASE pc' = "walk" /\ pos' = pos /\ rem' \in stack \cup in /\ stack' \subseteq stack \cup in
    BY <1>1, <1>2, <1>3, <1>4, <1>7, <2>1, <2>2, <2>3, <2>4, ZenonT(30) DEF Shape, Looping
  <2>5. CASE pc' = "next" /\ pos' = pos + 1 /\ stack' = {}
    BY SMTT(20), <1>1, <1>2, <1>3, <1>4, <2>1, <2>2, <2>5 DEF Shape, Looping
  <2> QED BY <1>8, <2>4, <2>5, Zenon
<1>10. RemovalClosed'
  <2> SUFFICES ASSUME NEW id \in AllIds, id \notin DOMAIN link',
                      NEW x \in Referrers(ts, id), x \in DOMAIN link'
               PROVE  x \in Pending'
    BY <1>3, <1>4, Zenon DEF RemovalClosed
  <2>1. x # rem /\ x \in DOMAIN link BY <1>5, Zenon
  <2>2. CASE id \notin DOMAIN link
    <3>1. x \in Pending BY <1>2, <2>1, <2>2, Zenon DEF RemovalClosed, Looping
    <3> QED BY <1>2, <1>5, <2>1, <3>1, Zenon
  <2>3. CASE id \in DOMAIN link
    <3>1. id = rem BY <1>5, <2>3, Zenon
    <3>2. x \in in BY <1>6, <2>3, <3>1, Zenon
    <3> QED BY <1>5, <2>1, <3>2, Zenon
  <2> QED BY <2>2, <2>3, Zenon
<1>11. LoopPassed'
  <2>1. \A j \in 1 .. pos - 1 : ts[j].kind \in Unknown => j \notin DOMAIN link'
    BY <1>2, <1>5, Zenon DEF LoopPassed, Looping
  <2>2. pos \notin DOMAIN link' \/ pos \in Pending'
    <3>1. pos \notin DOMAIN link \/ pos \in stack \cup {rem} BY <1>2, Zenon DEF LoopPassed, Looping
    <3> QED BY <1>5, <3>1, Zenon
  <2>3. CASE pc' = "walk" /\ pos' = pos BY <1>3, <2>1, <2>2, <2>3, ZenonT(30) DEF LoopPassed
  <2>4. CASE pc' = "next" /\ pos' = pos + 1
    <3>1. pos \notin DOMAIN link' BY <2>2, <2>4, Zenon DEF Pending
    <3> QED BY SMTT(20), <1>1, <1>2, <1>3, <2>1, <2>4, <3>1 DEF LoopPassed
  <2> QED BY <1>8, <2>3, <2>4, Zenon
<1>12. Spared'
  <2> SUFFICES ASSUME NEW S \in SUBSET DOMAIN ts, Independent(ts, S)
               PROVE  S \subseteq DOMAIN link' /\ S \cap Pending' = {}
    BY <1>3, Zenon DEF Spared
  <2>1. S \subseteq DOMAIN link /\ S \cap (stack \cup {rem}) = {}
    BY <1>2, Zenon DEF Spared, Looping
  <2>2. S \cap in = {}
    <3> SUFFICES ASSUME NEW x \in S, x \in in PROVE FALSE BY Zenon
    <3>1. x \in Referrers(ts, rem) BY <1>6, Zenon
    <3>2. rem \in RefsOf(ts[x]) BY <3>1, ReferrersFact, Zenon
    <3>3. rem \in S BY <1>2, <3>2, Zenon DEF Independent
    <3> QED BY <2>1, <3>3, Zenon
  <2> QED BY <1>5, <2>1, <2>2, Zenon
<1> QED BY <1>8, <1>9, <1>10, <1>11, <1>12, Zenon DEF NeverInconsistent

\* The end of the outer loop.
LEMMA LoopDoneKeeps == ASSUME FilterInv, LoopDone PROVE FilterInv'
<1> USE DEF FilterInv
<1>1. Len(section.types) \in Nat /\ DOMAIN section.types = 1 .. Len(section.types)
  BY TypesSeq, Zenon DEF Shape
<1>2. /\ pc = "next" /\ pc' = "renumber" /\ section' = section /\ link' = link /\ pos' = pos
      /\ rem' = rem /\ stack' = stack /\ types' = types /\ types = section.types
      /\ pos \notin DOMAIN section.types
  BY Zenon DEF LoopDone, Shape, Looping
<1>3. AllIds' = AllIds /\ Pending = {} /\ Pending' = {} BY <1>2, Zenon DEF AllIds, Pending
<1>4. pos = Len(section.types) + 1 BY <1>1, <1>2 DEF Shape
<1>5. Shape' BY <1>2, <1>3, <1>4, Zenon DEF Shape, Looping
<1>6. RemovalClosed' BY <1>2, <1>3, Zenon DEF RemovalClosed, Looping
<1>7. LoopPassed' BY <1>2, Zenon DEF LoopPassed, Looping
<1>8. Spared' BY <1>2, <1>3, Zenon DEF Spared, Looping
<1> QED BY <1>2, <1>5, <1>6, <1>7, <1>8, Zenon DEF NeverInconsistent

\* When the loop is over nothing is pending: no type that is left refers to a
\* removed one.
LEMMA LeftConsistent == ASSUME FilterInv, pc = "renumber" PROVE Consistent
<1> USE DEF FilterInv
<1>1. types = section.types /\ Pending = {} BY Zenon DEF Shape, Looping, Pending
<1> SUFFICES ASSUME NEW j \in DOMAIN link, j \in DOMAIN section.types,
                    NEW r \in RefsOf(section.types[j]), r \notin DOMAIN link
             PROVE  FALSE
  BY <1>1, Zenon DEF Consistent
<1>2. j \in Referrers(section.types, r) /\ r \in AllIds BY ReferrersFact, Zenon DEF AllIds
<1>3. j \in Pending BY <1>2, Zenon DEF RemovalClosed, Looping
<1> QED BY <1>1, <1>3, Zenon

\* The types are rewritten without an error.
LEMMA RenumberKeeps == ASSUME FilterInv, Renumber PROVE FilterInv'
<1> USE DEF FilterInv
<1>1. /\ pc = "renumber" /\ section' = section /\ pos' = pos /\ stack' = stack
  BY Zenon DEF Renumber
<1>2. pc' = "dump" BY <1>1, LeftConsistent, Zenon DEF Renumber
<1>3. Shape' BY <1>1, <1>2, Zenon DEF Shape, Looping
<1> QED BY <1>2, <1>3, Zenon DEF RemovalClosed, LoopPassed, Spared, Looping, NeverInconsistent

\* Writing the section changes nothing the invariant speaks of.
LEMMA DumpKeeps == ASSUME FilterInv, Dump PROVE FilterInv'
<1> USE DEF FilterInv
<1>1. section' = section /\ pos' = pos /\ stack' = stack BY Zenon DEF Dump
<1>2. pc' \in {"mismatch", "bloated", "shrunk", "Ok"} BY Zenon DEF Dump
<1>3. Shape' BY <1>1, <1>2, Zenon DEF Shape, Looping
<1> QED BY <1>2, <1>3, Zenon DEF RemovalClosed, LoopPassed, Spared, Looping, NeverInconsistent

\* Every step keeps the invariant.
LEMMA FilterStep == FilterInv /\ [FilterNext]_filterVars => FilterInv'
<1> SUFFICES ASSUME FilterInv, [FilterNext]_filterVars PROVE FilterInv' BY Zenon
<1>1. CASE UNCHANGED filterVars
  BY <1>1, ZenonT(30) DEF FilterInv, Shape, RemovalClosed, LoopPassed, Spared, NeverInconsistent, Looping,
     Pending, AllIds, filterVars
<1>2. CASE FilterNext
  BY <1>2, ParseKeeps, NextTypeKeeps, WalkKeeps, LoopDoneKeeps, RenumberKeeps, DumpKeeps, Zenon DEF FilterNext
<1> QED BY <1>1, <1>2, Zenon

\* The invariant holds in every state of every behaviour.
LEMMA FilterAlways == FilterSpec => []FilterInv
BY FilterStart, FilterStep, PTL DEF FilterSpec

\* The walk of BTF::filter stays within the types of the section.
THEOREM FilterTypeCorrect == FilterSpec => []FilterTypeOK
<1>1. FilterInv => FilterTypeOK BY Zenon DEF FilterInv, Shape, FilterTypeOK
<1> QED BY <1>1, FilterAlways, PTL

\* BTF::filter never meets a reference to a type it has removed: its error
\* paths "inconsistency detected in BTF" are dead code, for any section.
THEOREM NoInconsistency == FilterSpec => []NeverInconsistent
<1>1. FilterInv => NeverInconsistent BY Zenon DEF FilterInv
<1> QED BY <1>1, FilterAlways, PTL

\* What is left when the walk is over is exactly what can be kept.
LEMMA LeftIsKept == FilterInv => RemovesExactly
<1> SUFFICES ASSUME FilterInv, pc = "renumber"
             PROVE  DOMAIN link \cap DOMAIN section.types = Kept(section.types)
  BY Zenon DEF RemovesExactly
<1> DEFINE ts == section.types
           K == DOMAIN link \cap DOMAIN ts
<1>1. types = ts /\ pos = Len(ts) + 1 BY Zenon DEF FilterInv, Shape, Looping
<1>2. Len(ts) \in Nat /\ DOMAIN ts = 1 .. Len(ts) BY TypesSeq, Zenon DEF FilterInv, Shape
<1>3. \A j \in K : ts[j].kind \notin Unknown BY <1>1, <1>2 DEF FilterInv, LoopPassed, Looping
<1>4. \A j \in K : RefsOf(ts[j]) \subseteq DOMAIN link
  BY <1>1, LeftConsistent, Zenon DEF Consistent
<1>5. Independent(ts, K) BY <1>3, <1>4, Zenon DEF Independent
<1>6. K \subseteq Kept(ts) BY <1>5, Zenon DEF Kept
<1>7. \A S \in SUBSET DOMAIN ts : Independent(ts, S) => S \subseteq K
  BY Zenon DEF FilterInv, Spared, Looping
<1>8. Kept(ts) \subseteq K BY <1>7, Zenon DEF Kept
<1> QED BY <1>6, <1>8, Zenon

\* BTF::filter removes the rejected types and their dependents and no others.
THEOREM ExactRemoval == FilterSpec => []RemovesExactly
BY LeftIsKept, FilterAlways, PTL

-----------------------------------------------------------------------------
(* Numbers in increasing order                                             *)

\* A set of natural numbers that is not empty has a least one.
LEMMA LeastNumber ==
  ASSUME NEW S, S \subseteq Nat, S # {}
  PROVE  \E x \in S : \A y \in S : x <= y
<1>1. PICK x \in S : \A y \in S : ~(<<y, x>> \in OpToRel(<, Nat))
  BY WFMin, NatLessThanWellFounded, Zenon
<1>2. \A y \in S : x <= y
  <2>1. SUFFICES ASSUME NEW y \in S, y < x PROVE FALSE
    OBVIOUS
  <2>2. <<y, x>> \in OpToRel(<, Nat)
    BY <2>1, Zenon DEF OpToRel
  <2> QED
    BY <1>1, <2>2, Zenon
<1> QED
  BY <1>2, Zenon

\* The number of smaller elements is a number.
LEMMA SmallerFinite ==
  ASSUME NEW S, IsFiniteSet(S), NEW x
  PROVE  IsFiniteSet(Smaller(S, x)) /\ Cardinality(Smaller(S, x)) \in Nat
<1>1. Smaller(S, x) \in SUBSET S
  BY Zenon DEF Smaller
<1> QED
  BY <1>1, FS_Subset, FS_CardinalityType, Zenon

\* A larger element has more elements below it.
LEMMA SmallerGrow ==
  ASSUME NEW S, S \subseteq Int, IsFiniteSet(S), NEW x \in S, NEW z \in S, x < z
  PROVE  Cardinality(Smaller(S, x)) < Cardinality(Smaller(S, z))
<1>1. PICK A, B : A = Smaller(S, x) /\ B = Smaller(S, z)
  BY Zenon
<1>2. IsFiniteSet(A) /\ IsFiniteSet(B) /\ Cardinality(A) \in Nat /\ Cardinality(B) \in Nat
  BY <1>1, SmallerFinite, Zenon
<1>3. x \notin A /\ A \cup {x} \subseteq B
  <2>1. ~(x < x) /\ \A y \in S : y < x => y < z
    OBVIOUS
  <2> QED
    BY <1>1, <2>1, Zenon DEF Smaller
<1>4. Cardinality(A \cup {x}) = Cardinality(A) + 1
  BY <1>2, <1>3, FS_AddElement, Zenon
<1>5. Cardinality(A \cup {x}) <= Cardinality(B)
  BY <1>2, <1>3, FS_Subset, Zenon
<1> QED
  BY SMTT(20), <1>1, <1>2, <1>4, <1>5

\* The place of an element is between 1 and the size of the set.
LEMMA SmallerBound ==
  ASSUME NEW S, S \subseteq Int, IsFiniteSet(S), NEW x \in S
  PROVE  Cardinality(Smaller(S, x)) + 1 \in 1 .. Cardinality(S)
<1>1. PICK A : A = Smaller(S, x)
  BY Zenon
<1>2. A \in SUBSET S /\ x \notin A
  BY <1>1 DEF Smaller
<1>3. Cardinality(A) \in Nat /\ Cardinality(S) \in Nat
  BY <1>1, SmallerFinite, FS_CardinalityType, Zenon
<1>4. Cardinality(A) <= Cardinality(S) /\ Cardinality(S) # Cardinality(A)
  BY <1>2, FS_Subset, Zenon
<1> QED
  BY <1>1, <1>3, <1>4

\* InOrder(S) lists the elements of S: x is at the place after the smaller ones.
LEMMA OrderFact ==
  ASSUME NEW S, S \subseteq Int, IsFiniteSet(S)
  PROVE  /\ DOMAIN InOrder(S) = 1 .. Cardinality(S) /\ Cardinality(S) \in Nat
         /\ \A x \in S : LET i == Cardinality(Smaller(S, x)) + 1
                         IN  i \in DOMAIN InOrder(S) /\ InOrder(S)[i] = x
         /\ \A i \in DOMAIN InOrder(S) : InOrder(S)[i] \in S
<1>1. DOMAIN InOrder(S) = 1 .. Cardinality(S) /\ Cardinality(S) \in Nat
  BY FS_CardinalityType, Zenon DEF InOrder
<1>2. \A x, z \in S : Cardinality(Smaller(S, x)) = Cardinality(Smaller(S, z)) => x = z
  <2>1. SUFFICES ASSUME NEW x \in S, NEW z \in S, x < z
                 PROVE  Cardinality(Smaller(S, x)) # Cardinality(Smaller(S, z))
    OBVIOUS
  <2>2. Cardinality(Smaller(S, x)) < Cardinality(Smaller(S, z))
    BY <2>1, SmallerGrow, Zenon
  <2>3. Cardinality(Smaller(S, x)) \in Nat /\ Cardinality(Smaller(S, z)) \in Nat
    BY SmallerFinite, Zenon
  <2> QED
    BY <2>2, <2>3
<1>3. ASSUME NEW x \in S
      PROVE  /\ Cardinality(Smaller(S, x)) + 1 \in DOMAIN InOrder(S)
             /\ InOrder(S)[Cardinality(Smaller(S, x)) + 1] = x
  <2>1. PICK c : c = Cardinality(Smaller(S, x))
    BY Zenon
  <2>2. PICK i : i = c + 1
    BY Zenon
  <2>3. i \in 1 .. Cardinality(S) /\ c = i - 1
    <3>1. c + 1 \in 1 .. Cardinality(S) /\ c \in Nat
      BY <2>1, SmallerBound, SmallerFinite, Zenon
    <3> QED
      BY <2>2, <3>1
  <2>4. InOrder(S)[i] = CHOOSE y \in S : Cardinality(Smaller(S, y)) = i - 1
    BY <2>3, Zenon DEF InOrder
  <2>5. \A y \in S : Cardinality(Smaller(S, y)) = i - 1 <=> y = x
    BY <1>2, <2>1, <2>3, Zenon
  <2>6. InOrder(S)[i] = x
    BY <2>4, <2>5, Zenon
  <2> QED
    BY <1>1, <2>1, <2>2, <2>3, <2>6, Zenon
<1>4. PICK f : f = [x \in S |-> Cardinality(Smaller(S, x)) + 1]
  BY Zenon
<1>5. f \in Injection(S, 1 .. Cardinality(S))
  <2>1. f \in [S -> 1 .. Cardinality(S)]
    BY <1>4, SmallerBound, Zenon
  <2>2. \A x, z \in S : f[x] = f[z] => x = z
    <3>1. SUFFICES ASSUME NEW x \in S, NEW z \in S, f[x] = f[z] PROVE x = z
      BY Zenon
    <3>2. Cardinality(Smaller(S, x)) \in Nat /\ Cardinality(Smaller(S, z)) \in Nat
      BY SmallerFinite, Zenon
    <3>3. Cardinality(Smaller(S, x)) = Cardinality(Smaller(S, z))
      BY <1>4, <3>1, <3>2
    <3> QED
      BY <1>2, <3>3, Zenon
  <2> QED
    BY <2>1, <2>2, Zenon DEF Injection, IsInjective
<1>6. f \in Surjection(S, 1 .. Cardinality(S))
  <2>1. IsFiniteSet(1 .. Cardinality(S)) /\ Cardinality(1 .. Cardinality(S)) = Cardinality(S)
    BY <1>1, FS_Interval
  <2> QED
    BY <1>5, <2>1, FS_Injection, Zenon
<1>7. ASSUME NEW i \in DOMAIN InOrder(S) PROVE InOrder(S)[i] \in S
  <2>1. PICK x \in S : f[x] = i
    BY <1>1, <1>6, Zenon DEF Surjection
  <2> QED
    BY <1>3, <1>4, <2>1, Zenon
<1> QED
  BY <1>1, <1>3, <1>7, Zenon

-----------------------------------------------------------------------------
(* The new ids                                                             *)

\* A reference to void stays one, any other id becomes the place of its type
\* among those that are left.
LEMMA NewIdFact ==
  ASSUME NEW n \in Nat, DOMAIN link \subseteq 0 .. n, NEW r \in DOMAIN link,
         NEW S, S = DOMAIN link \cap (1 .. n)
  PROVE  /\ IsFiniteSet(S) /\ S \subseteq Int
         /\ r = 0 => NewId(r) = 0
         /\ r # 0 => r \in S /\ NewId(r) = Cardinality(Smaller(S, r)) + 1
         /\ NewId(r) \in Nat
<1>1. PICK L : L = DOMAIN link
  BY Zenon
<1>2. IsFiniteSet(L) /\ IsFiniteSet(S) /\ S \subseteq Int
  <2>1. IsFiniteSet(0 .. n)
    BY FS_Interval
  <2>2. L \in SUBSET (0 .. n) /\ S \in SUBSET (0 .. n) /\ S \subseteq Int
    BY <1>1
  <2> QED
    BY <2>1, <2>2, FS_Subset, Zenon
<1>3. NewId(r) = Cardinality(Smaller(L, r)) + (IF 0 \in L THEN 0 ELSE 1)
  BY <1>1, Zenon DEF NewId, Smaller
<1>4. CASE r = 0
  <2>1. Smaller(L, r) = {}
    BY <1>1, <1>4 DEF Smaller
  <2>2. Cardinality(Smaller(L, r)) = 0
    BY <2>1, FS_EmptySet, Zenon
  <2>3. 0 \in L
    BY <1>1, <1>4, Zenon
  <2> QED
    BY SMTT(20), <1>2, <1>3, <1>4, <2>2, <2>3
<1>5. CASE r # 0
  <2>1. r \in S
    BY <1>5
  <2>2. PICK A : A = Smaller(S, r)
    BY Zenon
  <2>3. IsFiniteSet(A) /\ Cardinality(A) \in Nat
    BY <1>2, <2>2, SmallerFinite, Zenon
  <2>4. CASE 0 \in L
    <3>1. Smaller(L, r) = A \cup {0} /\ 0 \notin A
      BY SMTT(20), <1>1, <1>5, <2>2, <2>4 DEF Smaller
    <3>2. Cardinality(Smaller(L, r)) = Cardinality(A) + 1
      BY <2>3, <3>1, FS_AddElement, Zenon
    <3>3. NewId(r) = Cardinality(Smaller(L, r)) + 0
      BY <1>3, <2>4, Zenon
    <3> QED
      BY SMTT(20), <1>2, <1>5, <2>1, <2>2, <2>3, <3>2, <3>3
  <2>5. CASE 0 \notin L
    <3>1. Smaller(L, r) = A
      BY <1>1, <2>2, <2>5 DEF Smaller
    <3>2. NewId(r) = Cardinality(A) + 1
      BY <1>3, <2>5, <3>1, Zenon
    <3> QED
      BY SMTT(20), <1>2, <1>5, <2>1, <2>2, <2>3, <3>2
  <2> QED
    BY <2>4, <2>5, Zenon
<1> QED
  BY <1>4, <1>5, Zenon

-----------------------------------------------------------------------------
(* The lengths of the encoding                                             *)

BtfType == [kind : Kinds, refs : Seq(Nat), vals : Nat]

\* The length of an encoded type is a number.
LEMMA ByteLenInt == ASSUME NEW t \in BtfType PROVE ByteLen(t) \in Int
<1>1. PICK n : n = Len(t.refs)
  BY Zenon
<1>2. n \in Nat /\ t.vals \in Nat
  BY <1>1 DEF BtfType
<1>3. ByteLen(t) = 12 + CASE t.kind \in {"Integer", "Variable"} -> 4
                          [] t.kind = "Array" -> 12
                          [] t.kind \in {"Structure", "Union", "DataSection"} -> 12 * n
                          [] t.kind = "FunctionProtocol" -> 8 * (n - 1)
                          [] t.kind = "Enumeration" -> 8 * t.vals
                          [] OTHER -> 0
  BY <1>1, Zenon DEF ByteLen
<1> QED
  BY <1>2, <1>3

\* The length of an encoded sequence of types is a number.
LEMMA TypesLenInt == ASSUME NEW ts \in Seq(BtfType) PROVE TypesLen(ts) \in Int
<1>1. PICK n : n = Len(ts)
  BY Zenon
<1>2. n \in Nat /\ \A i \in 1 .. n : ByteLen(ts[i]) \in Int
  <2>1. n \in Nat /\ \A i \in 1 .. n : ts[i] \in BtfType
    BY <1>1
  <2> QED
    BY <2>1, ByteLenInt, Zenon
<1> DEFINE Totals(m, f) == f = [i \in 0 .. m |-> IF i = 0 THEN 0 ELSE f[i - 1] + ByteLen(ts[i])]
<1> DEFINE Has(m) == \E f : Totals(m, f)
<1> HIDE DEF Has
<1>3. \A m \in Nat : m <= n => Has(m)
  <2>0. SUFFICES ASSUME NEW B, B = {m \in Nat : m <= n /\ ~Has(m)}, B # {} PROVE FALSE
    BY Zenon
  <2>1. B = {m \in Nat : m <= n /\ ~Has(m)} /\ B # {} /\ B \subseteq Nat
    BY <2>0, Zenon
  <2>2. PICK m \in B : \A k \in B : m <= k
    BY <2>1, LeastNumber, Zenon
  <2>3. m \in Nat /\ m <= n /\ ~\E f : Totals(m, f)
    BY <2>1, Zenon DEF Has
  <2>4. CASE m = 0
    <3>1. PICK f : f = [i \in 0 .. m |-> 0]
      BY Zenon
    <3>2. Totals(m, f)
      BY SMTT(20), <2>4, <3>1
    <3> QED
      BY <2>3, <3>2, Zenon
  <2>5. CASE m # 0
    <3>1. m - 1 \in Nat /\ m - 1 <= n /\ ~(m <= m - 1)
      BY <1>2, <2>3, <2>5
    <3>2. m - 1 \notin B
      BY <2>2, <3>1, Zenon
    <3>3. PICK f : Totals(m - 1, f)
      BY <2>1, <3>1, <3>2, Zenon DEF Has
    <3>4. PICK g : g = [i \in 0 .. m |-> IF i = 0 THEN 0 ELSE f[i - 1] + ByteLen(ts[i])]
      BY Zenon
    <3>5. \A i \in 0 .. m - 1 : g[i] = f[i]
      BY <2>3, <3>3, <3>4
    <3>6. \A i \in 0 .. m : i # 0 => i - 1 \in 0 .. m - 1
      BY <2>3
    <3>7. Totals(m, g)
      BY <3>4, <3>5, <3>6, Zenon
    <3> QED
      BY <2>3, <3>7, Zenon
  <2> QED
    BY <2>4, <2>5, Zenon
<1>4. PICK f : f = CHOOSE g : Totals(n, g)
  BY Zenon
<1>5. Totals(n, f)
  <2>1. n <= n
    BY <1>2
  <2>2. \E g : Totals(n, g)
    BY <1>2, <1>3, <2>1, Zenon DEF Has
  <2> QED
    BY <1>4, <2>2, Zenon
<1>6. TypesLen(ts) = f[n]
  BY <1>1, <1>4, Zenon DEF TypesLen
<1>7. \A i \in 0 .. n : f[i] = IF i = 0 THEN 0 ELSE f[i - 1] + ByteLen(ts[i])
  BY <1>5, Zenon
<1>8. \A m \in 0 .. n : f[m] \in Int
  <2>1. SUFFICES ASSUME NEW B, B = {m \in 0 .. n : f[m] \notin Int}, B # {} PROVE FALSE
    BY Zenon
  <2>2. B \subseteq Nat
    BY <2>1
  <2>3. PICK m \in B : \A k \in B : m <= k
    BY <2>1, <2>2, LeastNumber, Zenon
  <2>4. m \in 0 .. n /\ f[m] \notin Int
    BY <2>1, Zenon
  <2>5. m # 0
    BY <1>7, <2>4
  <2>6. m - 1 \in 0 .. n /\ ~(m <= m - 1) /\ m \in 1 .. n
    BY <1>2, <2>4, <2>5
  <2>7. f[m - 1] \in Int
    BY <2>1, <2>3, <2>6, Zenon
  <2> QED
    BY SMTT(20), <1>2, <1>7, <2>4, <2>5, <2>6, <2>7
<1>9. n \in 0 .. n
  BY <1>2
<1> QED
  BY <1>6, <1>8, <1>9, Zenon

-----------------------------------------------------------------------------
(* The graph                                                               *)

\* What filter leaves of a section: the types that can be kept, in order, and
\* their references by position.
Arranged(all, old, ts) ==
  /\ Len(ts) = Len(old)
  /\ \A i \in DOMAIN ts :
       /\ ts[i].kind = all[old[i]].kind
       /\ \A k \in DOMAIN ts[i].refs :
            LET r == all[old[i]].refs[k]
            IN  IF r = 0 THEN ts[i].refs[k] = 0
                ELSE ts[i].refs[k] \in DOMAIN old /\ old[ts[i].refs[k]] = r

Mapped(s, ts) == Arranged(s.types, InOrder(Kept(s.types)), ts)

\* The lengths in the header fit the types and the section.
Lengths ==
  /\ Looping =>
       /\ hdr = [typeLen |-> TypesLen(section.types),
                 strOff |-> TypesLen(section.types) + section.gap, strLen |-> section.strLen]
       /\ strs = section.strLen
  /\ pc = "dump" =>
       /\ TypesLen(types) = hdr.typeLen /\ hdr.typeLen \in Int
       /\ hdr.strOff = hdr.typeLen + section.gap
       /\ strs = hdr.strLen /\ hdr.strOff + strs = SectionLen(section)

GraphInv == Lengths /\ SameGraph

\* The property SameGraph, in the words of the proof.
LEMMA SameGraphIs ==
  SameGraph <=> /\ pc \in {"dump", "Ok"} => Mapped(section, types)
                /\ pc \notin {"mismatch", "bloated", "shrunk"}
                /\ pc = "Ok" => fixed = SectionLen(section)
  BY Zenon DEF SameGraph, Mapped, Arranged

\* The types that are left have their new references.
LEMMA Renumbered ==
  ASSUME FilterInv, pc = "renumber", RefsInside
  PROVE  NewTypes \in Seq(BtfType) /\ Mapped(section, NewTypes)
<1>1. PICK T : T = section.types
  BY Zenon
<1>2. PICK n : n = Len(T)
  BY Zenon
<1>3. /\ n \in Nat /\ DOMAIN T = 1 .. n /\ T \in Seq(BtfType) /\ section \in Sections
      /\ types = T
  <2>1. section \in Sections /\ types = T
    BY <1>1, Zenon DEF FilterInv, Shape, Looping
  <2> QED
    BY <1>1, <1>2, <2>1, TypesSeq, Zenon DEF BtfType
<1>4. PICK S : S = DOMAIN link \cap (1 .. n)
  BY Zenon
<1>5. S = Kept(T) /\ DOMAIN link \cap DOMAIN types = S
  BY <1>1, <1>3, <1>4, LeftIsKept, Zenon DEF RemovesExactly
<1>6. DOMAIN link \subseteq 0 .. n
  <2>1. DOMAIN link \subseteq (1 .. n) \cup Used(T)
    BY <1>1, <1>3, Zenon DEF FilterInv, Shape, Looping, AllIds
  <2>2. Used(T) \subseteq 0 .. n
    BY <1>1, <1>2, <1>3, Zenon DEF RefsInside
  <2>3. 1 .. n \subseteq 0 .. n
    BY <1>3
  <2> QED
    BY <2>1, <2>2, <2>3, Zenon
<1>7. IsFiniteSet(S) /\ S \subseteq Int
  <2>1. IsFiniteSet(1 .. n) /\ S \in SUBSET (1 .. n) /\ S \subseteq Int
    BY <1>3, <1>4, FS_Interval
  <2> QED
    BY <2>1, FS_Subset, Zenon
<1>8. PICK old : old = InOrder(S)
  BY Zenon
<1>9. PICK c : c = Cardinality(S)
  BY Zenon
<1>10. /\ c \in Nat /\ DOMAIN old = 1 .. c /\ \A i \in 1 .. c : old[i] \in S
       /\ \A r \in S : /\ Cardinality(Smaller(S, r)) + 1 \in 1 .. c
                       /\ old[Cardinality(Smaller(S, r)) + 1] = r
  <2>1. /\ DOMAIN InOrder(S) = 1 .. Cardinality(S) /\ Cardinality(S) \in Nat
        /\ \A x \in S : /\ Cardinality(Smaller(S, x)) + 1 \in DOMAIN InOrder(S)
                        /\ InOrder(S)[Cardinality(Smaller(S, x)) + 1] = x
        /\ \A i \in DOMAIN InOrder(S) : InOrder(S)[i] \in S
    BY <1>7, OrderFact, Zenon
  <2>2. /\ DOMAIN old = 1 .. Cardinality(S) /\ Cardinality(S) \in Nat
        /\ \A x \in S : /\ Cardinality(Smaller(S, x)) + 1 \in DOMAIN old
                        /\ old[Cardinality(Smaller(S, x)) + 1] = x
        /\ \A i \in DOMAIN old : old[i] \in S
    BY <1>8, <2>1, Zenon
  <2> QED
    BY <1>9, <2>2, Zenon
<1>11. \A j \in S : RefsOf(T[j]) \subseteq DOMAIN link
  BY <1>3, <1>5, LeftConsistent, Zenon DEF Consistent
<1>12. PICK N : N = NewTypes
  BY Zenon
<1>13. N = [i \in 1 .. c |-> [T[old[i]] EXCEPT
              !.refs = [k \in DOMAIN T[old[i]].refs |-> NewId(T[old[i]].refs[k])]]]
  BY <1>3, <1>5, <1>8, <1>10, <1>12, Zenon DEF NewTypes, OldIds
<1>14. \A i \in 1 .. c :
         /\ N[i] \in BtfType
         /\ N[i].kind = T[old[i]].kind /\ DOMAIN N[i].refs = DOMAIN T[old[i]].refs
         /\ \A k \in DOMAIN T[old[i]].refs :
              /\ N[i].refs[k] = NewId(T[old[i]].refs[k])
              /\ T[old[i]].refs[k] \in DOMAIN link
  <2> TAKE i \in 1 .. c
  <2>1. PICK t : t = T[old[i]]
    BY Zenon
  <2>2. t \in BtfType /\ old[i] \in S /\ old[i] \in 1 .. n
    BY SMTT(20), <1>2, <1>3, <1>4, <1>10, <2>1
  <2>3. PICK q : q = t.refs
    BY Zenon
  <2>4. \A k \in DOMAIN q : q[k] \in DOMAIN link
    BY <1>11, <2>1, <2>2, <2>3, Zenon DEF RefsOf
  <2>5. q \in Seq(Nat) /\ t.kind \in Kinds /\ t.vals \in Nat
    BY <2>2, <2>3, Zenon DEF BtfType
  <2>6. \A k \in DOMAIN q : NewId(q[k]) \in Nat
    BY <1>3, <1>4, <1>6, <2>4, NewIdFact, Zenon
  <2>7. PICK p : p = [k \in DOMAIN q |-> NewId(q[k])]
    BY Zenon
  <2>8. p \in Seq(Nat)
    <3>1. Len(q) \in Nat /\ DOMAIN q = 1 .. Len(q)
      BY <2>5
    <3>2. \A k \in 1 .. Len(q) : p[k] \in Nat
      BY <2>6, <2>7, <3>1, Zenon
    <3> QED
      BY <2>7, <3>1, <3>2
  <2>9. N[i] = [t EXCEPT !.refs = p]
    BY <1>13, <2>1, <2>3, <2>7, Zenon
  <2>10. N[i] = [kind |-> t.kind, refs |-> p, vals |-> t.vals]
    BY <2>2, <2>9, Zenon DEF BtfType
  <2> QED
    <3>1. N[i].kind = t.kind /\ N[i].refs = p /\ N[i] \in BtfType
      BY <2>5, <2>8, <2>10 DEF BtfType
    <3>2. DOMAIN p = DOMAIN q /\ \A k \in DOMAIN q : p[k] = NewId(q[k])
      BY <2>7, Zenon
    <3>3. T[old[i]].refs = q /\ T[old[i]].kind = t.kind
      BY <2>1, <2>3, Zenon
    <3> QED
      BY <2>4, <3>1, <3>2, <3>3, Zenon
<1>15. N \in Seq(BtfType) /\ Len(N) = c /\ DOMAIN N = 1 .. c
  <2>1. N \in [1 .. c -> BtfType]
    BY <1>13, <1>14, Zenon
  <2> QED
    BY <1>10, <2>1
<1>16. Len(old) = c
  BY <1>8, <1>9, <1>10 DEF InOrder
<1>17. ASSUME NEW i \in 1 .. c, NEW k \in DOMAIN N[i].refs
       PROVE  LET r == T[old[i]].refs[k]
              IN  IF r = 0 THEN N[i].refs[k] = 0
                  ELSE N[i].refs[k] \in 1 .. c /\ old[N[i].refs[k]] = r
  <2>1. PICK r : r = T[old[i]].refs[k]
    BY Zenon
  <2>2. r \in DOMAIN link /\ N[i].refs[k] = NewId(r)
    BY <1>14, <1>17, <2>1, Zenon
  <2>3. /\ r = 0 => NewId(r) = 0
        /\ r # 0 => r \in S /\ NewId(r) = Cardinality(Smaller(S, r)) + 1
    BY <1>3, <1>4, <1>6, <2>2, NewIdFact, Zenon
  <2>4. CASE r = 0
    BY <2>1, <2>2, <2>3, <2>4, Zenon
  <2>5. CASE r # 0
    <3>1. PICK j : j = Cardinality(Smaller(S, r)) + 1
      BY Zenon
    <3>2. N[i].refs[k] = j /\ j \in 1 .. c /\ old[j] = r
      BY <1>10, <2>2, <2>3, <2>5, <3>1, Zenon
    <3> QED
      BY <2>1, <2>5, <3>2, Zenon
  <2> QED
    BY <2>4, <2>5, Zenon
<1>18. Mapped(section, N)
  <2>1. Arranged(T, old, N)
    BY <1>10, <1>14, <1>15, <1>16, <1>17, Zenon DEF Arranged
  <2> QED
    BY <1>1, <1>5, <1>8, <2>1, Zenon DEF Mapped
<1> QED
  BY <1>12, <1>15, <1>18, Zenon

\* parse_raw sets the header to the lengths of the section.
LEMMA GraphParse == ASSUME FilterInv, GraphInv, Parse PROVE GraphInv'
<1>1. pc' = "next" /\ section' = section /\ strs' = section.strLen
  BY Zenon DEF Parse
<1>2. hdr' = [typeLen |-> TypesLen(section.types),
              strOff |-> TypesLen(section.types) + section.gap, strLen |-> section.strLen]
  BY Zenon DEF Parse
<1>3. Lengths'
  BY <1>1, <1>2, Zenon DEF Lengths
<1>4. SameGraph'
  BY <1>1, SameGraphIs, Zenon DEF SameGraph
<1> QED
  BY <1>3, <1>4, Zenon DEF GraphInv

\* The walk leaves header and strings alone.
LEMMA GraphLoop ==
  ASSUME FilterInv, GraphInv, NextType \/ Walk \/ LoopDone PROVE GraphInv'
<1>1. /\ pc \in {"next", "walk"} /\ pc' \in {"next", "walk", "renumber"}
      /\ section' = section /\ strs' = strs /\ hdr' = hdr
  <2>1. CASE NextType
    BY <2>1, Zenon DEF NextType
  <2>2. CASE Walk
    BY <2>2, Zenon DEF Walk, Pop
  <2>3. CASE LoopDone
    BY <2>3, Zenon DEF LoopDone
  <2> QED
    BY <2>1, <2>2, <2>3, Zenon
<1>2. Lengths'
  BY <1>1, Zenon DEF Lengths, GraphInv, Looping
<1>3. SameGraph'
  BY <1>1, Zenon DEF SameGraph
<1> QED
  BY <1>2, <1>3, Zenon DEF GraphInv

\* The bytes that the types free go to the strings.
LEMMA GraphRenumber ==
  ASSUME FilterInv, GraphInv, Renumber, RefsInside PROVE GraphInv'
<1>1. pc = "renumber" /\ Consistent
  BY LeftConsistent, Zenon DEF Renumber
<1>2. PICK N : N = NewTypes
  BY Zenon
<1>3. PICK l : l = TypesLen(N)
  BY Zenon
<1>4. /\ types' = N /\ pc' = "dump" /\ section' = section
      /\ hdr' = [typeLen |-> l, strOff |-> hdr.strOff - (hdr.typeLen - l),
                 strLen |-> hdr.strLen + (hdr.typeLen - l)]
      /\ strs' = strs + (hdr.typeLen - l)
  BY <1>1, <1>2, <1>3, Zenon DEF Renumber
<1>5. N \in Seq(BtfType) /\ Mapped(section, N)
  BY <1>1, <1>2, Renumbered, Zenon
<1>6. section \in Sections
  BY Zenon DEF FilterInv, Shape
<1>7. PICK m : m = TypesLen(section.types)
  BY Zenon
<1>8. l \in Int /\ m \in Int
  <2>1. section.types \in Seq(BtfType)
    BY <1>6, TypesSeq, Zenon DEF BtfType
  <2> QED
    BY <1>3, <1>5, <1>7, <2>1, TypesLenInt, Zenon
<1>9. PICK g : g = section.gap
  BY Zenon
<1>10. PICK z : z = section.strLen
  BY Zenon
<1>11. g \in Nat /\ z \in Nat
  BY <1>6, <1>9, <1>10, FilterAssumption, Zenon DEF FilterAssumption
<1>12. hdr = [typeLen |-> m, strOff |-> m + g, strLen |-> z] /\ strs = z
  BY <1>1, <1>7, <1>9, <1>10, Zenon DEF GraphInv, Lengths, Looping
<1>13. hdr' = [typeLen |-> l, strOff |-> l + g, strLen |-> z + (m - l)] /\ strs' = z + (m - l)
  BY SMTT(20), <1>4, <1>8, <1>11, <1>12
<1>14. SectionLen(section) = m + g + z
  BY <1>7, <1>9, <1>10, Zenon DEF SectionLen
<1>15. /\ TypesLen(N) = hdr'.typeLen /\ hdr'.typeLen \in Int
       /\ hdr'.strOff = hdr'.typeLen + g
       /\ strs' = hdr'.strLen /\ hdr'.strOff + strs' = m + g + z
  BY SMTT(20), <1>3, <1>8, <1>11, <1>13
<1>16. Lengths'
  <2>1. ~Looping'
    BY <1>4, Zenon DEF Looping
  <2>2. SectionLen(section') = m + g + z /\ section'.gap = g
    BY <1>4, <1>9, <1>14, Zenon
  <2> QED
    BY <1>4, <1>15, <2>1, <2>2, Zenon DEF Lengths
<1>17. SameGraph'
  <2>1. Mapped(section', types')
    BY <1>4, <1>5, Zenon
  <2> QED
    BY <1>4, <2>1, Zenon DEF SameGraph, Mapped, Arranged
<1> QED
  BY <1>16, <1>17, Zenon DEF GraphInv

\* The checks of dump pass, and the section is as long as before.
LEMMA GraphDump == ASSUME FilterInv, GraphInv, Dump PROVE GraphInv'
<1>1. pc = "dump" /\ section' = section /\ types' = types /\ fixed' = hdr.strOff + strs
  BY Zenon DEF Dump
<1>2. /\ TypesLen(types) = hdr.typeLen /\ hdr.typeLen \in Int
      /\ hdr.strOff = hdr.typeLen + section.gap
      /\ strs = hdr.strLen /\ hdr.strOff + strs = SectionLen(section)
  BY <1>1, Zenon DEF GraphInv, Lengths
<1>3. section.gap \in Nat /\ section.types \in Seq(BtfType) /\ section.strLen \in Nat
  BY FilterAssumption, Zenon DEF FilterInv, Shape, FilterAssumption, BtfType
<1>4. PICK b : b = SectionLen(section)
  BY Zenon
<1>5. b \in Int
  <2>1. PICK m : m = TypesLen(section.types)
    BY Zenon
  <2>2. m \in Int
    BY <1>3, <2>1, TypesLenInt, Zenon
  <2>3. b = m + section.gap + section.strLen
    BY <1>4, <2>1, Zenon DEF SectionLen
  <2> QED
    BY SMTT(20), <1>3, <2>2, <2>3
<1>6. ~(hdr.strOff < hdr.typeLen) /\ ~(hdr.strOff + strs > b) /\ ~(hdr.strOff + strs < b)
  BY SMTT(20), <1>2, <1>3, <1>4, <1>5
<1>7. pc' = "Ok"
  BY <1>2, <1>4, <1>6, Zenon DEF Dump
<1>8. Lengths'
  BY <1>7, Zenon DEF Lengths, Looping
<1>9. SameGraph'
  <2>1. Mapped(section', types')
    BY <1>1, SameGraphIs, Zenon DEF GraphInv
  <2>2. fixed' = SectionLen(section')
    BY <1>1, <1>2, Zenon
  <2> QED
    BY <1>7, <2>1, <2>2, Zenon DEF SameGraph, Mapped, Arranged
<1> QED
  BY <1>8, <1>9, Zenon DEF GraphInv

\* Before anything is parsed there is nothing to compare.
LEMMA GraphStart == FilterInit => GraphInv
  BY Zenon DEF FilterInit, GraphInv, Lengths, Looping, SameGraph

\* Every step keeps the invariant.
LEMMA GraphStep ==
  ASSUME RefsInside, FilterInv, GraphInv, [FilterNext]_filterVars PROVE GraphInv'
<1>1. CASE UNCHANGED filterVars
  BY <1>1, Zenon DEF GraphInv, Lengths, Looping, SameGraph, filterVars
<1>2. CASE FilterNext
  BY <1>2, GraphParse, GraphLoop, GraphRenumber, GraphDump, Zenon DEF FilterNext
<1> QED
  BY <1>1, <1>2, Zenon

\* When every reference of a section leads to one of its types, filter keeps
\* the graph and dump writes a section of the same size without an error.
THEOREM GraphKept == ASSUME RefsInside PROVE FilterSpec => []SameGraph
<1>1. FilterInit => GraphInv
  BY GraphStart, Zenon
<1>2. FilterInv /\ GraphInv /\ [FilterNext]_filterVars => GraphInv'
  BY GraphStep, Zenon
<1>3. GraphInv => SameGraph
  BY Zenon DEF GraphInv
<1> QED
  BY <1>1, <1>2, <1>3, FilterAlways, PTL DEF FilterSpec
=============================================================================
