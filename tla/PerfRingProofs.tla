--------------------------- MODULE PerfRingProofs ---------------------------
(***************************************************************************)
(* For every ring size, every set of sample sizes and any number of        *)
(* samples: the buffer of PerfMap::read always holds one whole record, the *)
(* samples are delivered once and in order, those that are not are         *)
(* accounted for, and what the task sends is a stream of events.           *)
(***************************************************************************)
EXTENDS PerfRing, SequenceTheorems, TLAPS

-----------------------------------------------------------------------------
(* Positions modulo the ring size.                                         *)

\* Division with remainder.
LEMMA DivMod ==
  ASSUME NEW n \in Nat \ {0}, NEW a \in Int
  PROVE  /\ a % n \in 0 .. n - 1
         /\ a \div n \in Int
         /\ a = n * (a \div n) + (a % n)
  BY SMT

\* The remainder is unique.
LEMMA ModUnique ==
  ASSUME NEW n \in Nat \ {0}, NEW k \in Int, NEW d \in 0 .. n - 1
  PROVE  (n * k + d) % n = d
<1> DEFINE a == n * k + d
           q == a \div n
           r == a % n
<1>1. q \in Int /\ r \in 0 .. n - 1 /\ a = n * q + r
  BY DivMod
<1> HIDE DEF q, r
<1>2. n * (k - q) = r - d
  BY <1>1
<1>3. CASE k - q >= 1
  <2>1. n * (k - q) >= n
    BY <1>1, <1>3
  <2> QED
    BY <1>1, <1>2, <2>1
<1>4. CASE k - q <= -1
  <2>1. n * (k - q) <= -n
    BY <1>1, <1>4
  <2> QED
    BY <1>1, <1>2, <2>1
<1>5. CASE k = q
  <2>1. r = d
    BY <1>1, <1>2, <1>5
  <2> QED
    BY <2>1, Zenon DEF r
<1> QED
  BY <1>1, <1>3, <1>4, <1>5

\* A position less than a turn beyond h is found again from its cell and h.
LEMMA ModShift ==
  ASSUME NEW n \in Nat \ {0}, NEW a \in Int, NEW h \in Int, a - h \in 0 .. n - 1
  PROVE  ((a % n) - h) % n = a - h
<1> DEFINE q == a \div n
<1>1. a % n \in 0 .. n - 1 /\ q \in Int /\ a = n * q + (a % n)
  BY DivMod, Zenon
<1> HIDE DEF q
<1>2. (a % n) - h = n * (0 - q) + (a - h)
  BY <1>1
<1>3. 0 - q \in Int
  BY <1>1
<1> QED
  BY SMTT(30), <1>2, <1>3, ModUnique

\* A whole turn leads back to the same cell.
LEMMA ModTurn ==
  ASSUME NEW n \in Nat \ {0}, NEW a \in Int
  PROVE  (a + n) % n = a % n
<1> DEFINE q == a \div n
           r == a % n
<1>1. r \in 0 .. n - 1 /\ q \in Int /\ a = n * q + r
  BY DivMod, Zenon
<1> HIDE DEF q, r
<1>2. a + n = n * (q + 1) + r /\ q + 1 \in Int
  BY <1>1
<1>3. (n * (q + 1) + r) % n = r
  BY <1>1, <1>2, ModUnique, Zenon
<1> QED
  BY Zenon, <1>2, <1>3 DEF r

\* The cell k places after that of position a, with at most one wrap.
LEMMA ModWrap ==
  ASSUME NEW n \in Nat \ {0}, NEW a \in Int, NEW k \in 0 .. n - 1
  PROVE  (a + k) % n = IF (a % n) + k < n THEN (a % n) + k ELSE (a % n) + k - n
<1> DEFINE q == a \div n
           r == a % n
<1>1. r \in 0 .. n - 1 /\ q \in Int /\ a = n * q + r
  BY DivMod, Zenon
<1> HIDE DEF q, r
<1>2. CASE r + k < n
  <2>1. a + k = n * q + (r + k) /\ r + k \in 0 .. n - 1
    BY <1>1, <1>2
  <2>2. (n * q + (r + k)) % n = r + k
    BY <1>1, <2>1, ModUnique, Zenon
  <2> QED
    BY <1>2, <2>1, <2>2, Zenon DEF r
<1>3. CASE ~(r + k < n)
  <2>1. /\ a + k = n * (q + 1) + (r + k - n)
        /\ r + k - n \in 0 .. n - 1
        /\ q + 1 \in Int
    BY <1>1, <1>3
  <2>2. (n * (q + 1) + (r + k - n)) % n = r + k - n
    BY Zenon, <2>1, ModUnique
  <2> QED
    BY <1>3, <2>1, <2>2, Zenon DEF r
<1> QED
  BY <1>2, <1>3, Zenon

-----------------------------------------------------------------------------
(* The inductive invariant.                                                *)

IInv == TypeOK /\ RingInv /\ CopyIsWholeRecord

ringVars == <<mem, head, tail, log, pending, pub, rd>>

\* The numeric part of the type invariant.
LEMMA NumberTypes ==
  ASSUME TypeOK
  PROVE  /\ head \in Nat /\ tail \in Nat /\ pending \in Nat
         /\ pub \in Nat /\ rd \in Nat /\ Len(log) \in Nat
         /\ head \in Int /\ tail \in Int
         /\ RingCells \in Nat \ {0}
  BY RingAssumption, LenProperties DEF TypeOK

\* The part of the ring's invariant that is about positions only.
LEMMA RingOrder ==
  ASSUME IInv
  PROVE  /\ pub <= Len(log) /\ rd <= pub
         /\ tail = EndOf(rd) /\ head = EndOf(pub) /\ head + pending = EndOf(Len(log))
         /\ \A i \in 1 .. Len(log) : log[i].pos = EndOf(i - 1)
         /\ \A i, j \in 0 .. Len(log) : i <= j => EndOf(i) <= EndOf(j)
         /\ pc = "type" => rd > 0
  BY Zenon DEF IInv, RingInv

\* The header cell of the next unread record, and its size, whenever there is
\* one to read.
LEMMA NextHeader ==
  ASSUME IInv, rd < pub
  PROVE  /\ rd + 1 \in 1 .. Len(log)
         /\ log[rd + 1] \in Record
         /\ log[rd + 1].pos = tail
         /\ log[rd + 1].size < RingCells
         /\ mem[tail % RingCells] = <<rd + 1, 0>>
         /\ SizesAt(mem[tail % RingCells]) = {log[rd + 1].size}
         /\ tail % RingCells \in Cells
         /\ EndOf(rd + 1) = tail + log[rd + 1].size
<1>1. rd + 1 \in 1 .. Len(log) /\ rd + 1 \in rd + 1 .. Len(log)
  BY SMTT(30), NumberTypes DEF IInv, RingInv
<1>2. log[rd + 1] \in Record
  BY <1>1, ElementOfSeq, Zenon DEF IInv, TypeOK
<1>3. log[rd + 1].size \in Nat \ {0} /\ log[rd + 1].pos \in Nat
  BY <1>2, Zenon DEF Record
<1>4. log[rd + 1].pos = tail
  <2>1. log[rd + 1].pos = EndOf((rd + 1) - 1)
    BY <1>1, Zenon DEF IInv, RingInv
  <2>2. tail = EndOf(rd)
    BY Zenon DEF IInv, RingInv
  <2> QED
    BY NumberTypes, <2>1, <2>2 DEF IInv
<1>5. EndOf(rd + 1) = tail + log[rd + 1].size
  BY <1>1, <1>4, NumberTypes DEF EndOf, IInv
<1>6. log[rd + 1].size < RingCells
  <2>1. EndOf(rd + 1) <= EndOf(Len(log))
    <3>1. rd + 1 \in 0 .. Len(log) /\ Len(log) \in 0 .. Len(log) /\ rd + 1 <= Len(log)
      BY <1>1, NumberTypes DEF IInv
    <3> QED
      BY <3>1, Zenon DEF IInv, RingInv
  <2>2. EndOf(Len(log)) = head + pending /\ head + pending - tail <= RingCells - 1
    BY Zenon DEF IInv, RingInv
  <2> QED
    BY SMTT(30), <1>3, <1>5, <2>1, <2>2, NumberTypes DEF IInv
<1>7. tail % RingCells \in Cells
  BY Zenon, DivMod, NumberTypes DEF Cells, IInv
<1>8. mem[tail % RingCells] = <<rd + 1, 0>>
  <2>1. 0 \in 0 .. log[rd + 1].size - 1
    BY <1>3
  <2>2. mem[(log[rd + 1].pos + 0) % RingCells] = <<rd + 1, 0>>
    BY Zenon, <1>1, <2>1 DEF IInv, RingInv
  <2>3. log[rd + 1].pos + 0 = tail
    BY <1>3, <1>4
  <2> QED
    BY <2>2, <2>3, Zenon
<1>9. SizesAt(mem[tail % RingCells]) = {log[rd + 1].size}
  <2>1. rd + 1 # 0
    BY NumberTypes DEF IInv
  <2> QED
    BY <1>8, <2>1 DEF SizesAt
<1> QED
  BY <1>1, <1>2, <1>4, <1>5, <1>6, <1>7, <1>8, <1>9, Zenon

\* The two branches of the copy yield the cells of the record.
LEMMA CopyNext ==
  ASSUME IInv, rd < pub
  PROVE  /\ Copy(tail % RingCells, log[rd + 1].size) = RecordCells(rd + 1)
         /\ RecordCells(rd + 1) \in Seq(Nat \X Nat)
<1> DEFINE n == RingCells
           start == tail % n
           size == log[rd + 1].size
<1>1. /\ rd + 1 \in 1 .. Len(log)
      /\ log[rd + 1].pos = tail
      /\ size < n
      /\ start \in 0 .. n - 1
      /\ size \in Nat \ {0}
      /\ n \in Nat \ {0}
      /\ tail \in Int /\ rd \in Nat
  BY NextHeader, NumberTypes, Zenon DEF Cells, Record, IInv
<1>2. ASSUME NEW k \in 0 .. size - 1
      PROVE  mem[IF start + k < n THEN start + k ELSE start + k - n] = <<rd + 1, k>>
  <2>1. mem[(log[rd + 1].pos + k) % n] = <<rd + 1, k>>
    <3>1. rd + 1 \in rd + 1 .. Len(log)
      BY <1>1
    <3> QED
      BY Zenon, <3>1 DEF IInv, RingInv
  <2>2. k \in 0 .. n - 1
    BY SMTT(20), <1>1
  <2>3. (tail + k) % n = IF start + k < n THEN start + k ELSE start + k - n
    BY ONLY Zenon, <1>1, <2>2, ModWrap
  <2> QED
    BY SMTT(30), <1>1, <2>1, <2>3
<1>3. (tail + size) % n = IF start + size < n THEN start + size ELSE start + size - n
  <2>1. size \in 0 .. n - 1
    BY <1>1
  <2> QED
    BY ONLY Zenon, <1>1, <2>1, ModWrap
<1> DEFINE end == (tail + size) % n
           len == n - start
<1>4. RecordCells(rd + 1) = [k \in 1 .. size |-> <<rd + 1, k - 1>>]
  BY Zenon DEF RecordCells
<1>5. RecordCells(rd + 1) \in Seq(Nat \X Nat)
  <2>1. \A k \in 1 .. size : <<rd + 1, k - 1>> \in Nat \X Nat
    BY SMTT(30), <1>1
  <2>2. [k \in 1 .. size |-> <<rd + 1, k - 1>>] \in [1 .. size -> Nat \X Nat]
    BY <2>1, Zenon
  <2>3. size \in Nat
    BY <1>1, Zenon
  <2> HIDE DEF size
  <2> QED
    BY <1>4, <2>2, <2>3
<1> HIDE DEF n, start, size
<1>6. CASE end < start
  <2>1. size >= len /\ len \in Nat \ {0} /\ size - len \in Nat
    BY <1>1, <1>3, <1>6
  <2> DEFINE s1 == Slice(start, len)
             s2 == Slice(0, size - len)
  <2>2. s1 = [k \in 1 .. len |-> <<rd + 1, k - 1>>]
    <3>1. ASSUME NEW k \in 1 .. len
          PROVE  mem[start + k - 1] = <<rd + 1, k - 1>>
      <4>1. k - 1 \in 0 .. size - 1 /\ start + (k - 1) < n
        BY <1>1, <2>1
      <4>2. mem[start + (k - 1)] = <<rd + 1, k - 1>>
        BY <1>2, <4>1, Zenon
      <4>3. start + (k - 1) = start + k - 1
        BY <1>1, Zenon
      <4> QED
        BY <4>2, <4>3, Zenon
    <3> QED
      BY <3>1, Zenon DEF Slice
  <2>3. s2 = [k \in 1 .. size - len |-> <<rd + 1, len + k - 1>>]
    <3>1. ASSUME NEW k \in 1 .. size - len
          PROVE  mem[0 + k - 1] = <<rd + 1, len + k - 1>>
      <4>1. len + k - 1 \in 0 .. size - 1 /\ ~(start + (len + k - 1) < n)
        BY <1>1, <2>1
      <4>2. mem[start + (len + k - 1) - n] = <<rd + 1, len + k - 1>>
        BY <1>2, <4>1, Zenon
      <4>3. start + (len + k - 1) - n = 0 + k - 1
        BY <1>1
      <4> QED
        BY <4>2, <4>3, Zenon
    <3> QED
      BY <3>1, Zenon DEF Slice
  <2>4. s1 \in Seq(Nat \X Nat) /\ Len(s1) = len
    <3>1. \A k \in 1 .. len : <<rd + 1, k - 1>> \in Nat \X Nat
      BY SMTT(30), <1>1
    <3> QED
      BY <2>1, <2>2, <3>1
  <2>5. s2 \in Seq(Nat \X Nat) /\ Len(s2) = size - len
    <3>1. \A k \in 1 .. size - len : <<rd + 1, len + k - 1>> \in Nat \X Nat
      BY <1>1, <2>1
    <3> QED
      BY <2>1, <2>3, <3>1
  <2>6. /\ Len(s1 \o s2) = size
        /\ s1 \o s2 \in Seq(Nat \X Nat)
        /\ \A k \in 1 .. size : (s1 \o s2)[k] = IF k <= len THEN s1[k] ELSE s2[k - len]
    <3> HIDE DEF s1, s2, len
    <3>1. len + (size - len) = size
      BY <1>1, <2>1
    <3>2. /\ s1 \o s2 \in Seq(Nat \X Nat)
          /\ Len(s1 \o s2) = Len(s1) + Len(s2)
          /\ \A k \in 1 .. Len(s1) + Len(s2) :
               (s1 \o s2)[k] = IF k <= Len(s1) THEN s1[k] ELSE s2[k - Len(s1)]
      BY Zenon, <2>4, <2>5, ConcatProperties
    <3> QED
      BY <2>4, <2>5, <3>1, <3>2, Zenon
  <2>7. \A k \in 1 .. size : (s1 \o s2)[k] = <<rd + 1, k - 1>>
    <3> TAKE k \in 1 .. size
    <3>1. CASE k <= len
      <4>1. k \in 1 .. len
        BY <1>1, <2>1, <3>1
      <4>2. s1[k] = <<rd + 1, k - 1>>
        BY Zenon, <2>2, <4>1
      <4> QED
        BY SMTT(30), <2>6, <3>1, <4>2
    <3>2. CASE ~(k <= len)
      <4>1. k - len \in 1 .. size - len
        BY <1>1, <2>1, <3>2
      <4>2. s2[k - len] = <<rd + 1, len + (k - len) - 1>>
        BY Zenon, <2>3, <4>1
      <4>3. len + (k - len) - 1 = k - 1
        BY <1>1, <2>1
      <4> QED
        BY SMTT(30), <2>6, <3>2, <4>2, <4>3
    <3> QED
      BY Zenon, <3>1, <3>2
  <2>8. s1 \o s2 = [k \in 1 .. size |-> <<rd + 1, k - 1>>]
    <3> HIDE DEF s1, s2
    <3> DEFINE s == s1 \o s2
    <3>1. s \in [1 .. size -> Nat \X Nat]
      BY Zenon, <2>6, LenProperties
    <3> HIDE DEF s
    <3>2. \A k \in 1 .. size : s[k] = <<rd + 1, k - 1>>
      BY Zenon, <2>7 DEF s
    <3> QED
      BY Zenon, <3>1, <3>2 DEF s
  <2> QED
    BY <1>4, <1>5, <1>6, <2>8, Zenon DEF Copy, n, start, size
<1>7. CASE ~(end < start)
  <2>1. start + size < n
    BY <1>1, <1>3, <1>7
  <2>2. Slice(start, size) = [k \in 1 .. size |-> <<rd + 1, k - 1>>]
    <3>1. ASSUME NEW k \in 1 .. size
          PROVE  mem[start + k - 1] = <<rd + 1, k - 1>>
      <4>1. k - 1 \in 0 .. size - 1 /\ start + (k - 1) < n
        BY <1>1, <2>1
      <4>2. mem[start + (k - 1)] = <<rd + 1, k - 1>>
        BY <1>2, <4>1, Zenon
      <4>3. start + (k - 1) = start + k - 1
        BY <1>1, Zenon
      <4> QED
        BY <4>2, <4>3, Zenon
    <3> QED
      BY <3>1, Zenon DEF Slice
  <2> QED
    BY <1>4, <1>5, <1>7, <2>2, Zenon DEF Copy, n, start, size
<1> QED
  BY <1>6, <1>7, Zenon

-----------------------------------------------------------------------------
(* The kernel's output.                                                    *)

\* Steps that leave the ring alone keep RingInv if they keep its part about
\* the task.
LEMMA Frame ==
  ASSUME RingInv, UNCHANGED ringVars,
         pc' \in {"copy", "release"} => rd < pub,
         pc' = "release" => event' = tail % RingCells,
         pc' = "type" => rd > 0
  PROVE  RingInv'
<1>1. \A i : EndOf(i)' = EndOf(i)
  BY Zenon DEF EndOf, ringVars
<1> QED
  BY Zenon, <1>1 DEF RingInv, ringVars

\* What the records of one output look like, and what they do to log.
LEMMA NewLog ==
  ASSUME IInv, pending = 0, NEW size \in SampleSizes,
         log' = log \o NewRecords(size)
  PROVE  /\ log' \in Seq(Record)
         /\ NeededCells(size) \in Nat \ {0}
         /\ Len(log') = IF lost = 0 THEN Len(log) + 1 ELSE Len(log) + 2
         /\ \A i \in 1 .. Len(log) : log'[i] = log[i]
         /\ lost = 0 => /\ log'[Len(log) + 1].pos = head
                        /\ log'[Len(log) + 1].size = size
                        /\ log'[Len(log) + 1].count = 1
                        /\ log'[Len(log) + 1].upto = nOut + 1
                        /\ NeededCells(size) = size
         /\ lost # 0 => /\ log'[Len(log) + 1].pos = head
                        /\ log'[Len(log) + 1].size = LostCells
                        /\ log'[Len(log) + 1].type = "lost"
                        /\ log'[Len(log) + 1].count = lost
                        /\ log'[Len(log) + 1].upto = nOut
                        /\ log'[Len(log) + 2].pos = head + LostCells
                        /\ log'[Len(log) + 2].size = size
                        /\ log'[Len(log) + 2].count = 1
                        /\ log'[Len(log) + 2].upto = nOut + 1
                        /\ NeededCells(size) = LostCells + size
<1>1. /\ size \in Nat \ {0} /\ LostCells \in Nat \ {0}
      /\ lost \in Nat /\ nOut \in Nat /\ head \in Nat /\ log \in Seq(Record)
  BY RingAssumption, Zenon DEF IInv, TypeOK
<1>2. Len(log) \in Nat
  BY <1>1, LenProperties, Zenon
<1> DEFINE s(p) == [type |-> "sample", size |-> size, pos |-> p, count |-> 1, upto |-> nOut + 1]
           l == [type |-> "lost", size |-> LostCells, pos |-> head, count |-> lost, upto |-> nOut]
<1>3. CASE lost = 0
  <2>1. NewRecords(size) = <<s(head)>>
    BY <1>3, Zenon DEF NewRecords
  <2>2. s(head) \in Record
    BY <1>1 DEF Record
  <2>3. <<s(head)>> \in Seq(Record) /\ Len(<<s(head)>>) = 1 /\ <<s(head)>>[1] = s(head)
    BY <2>2
  <2>4. /\ log' \in Seq(Record)
        /\ Len(log') = Len(log) + 1
        /\ \A i \in 1 .. Len(log) + 1 :
             log'[i] = IF i <= Len(log) THEN log[i] ELSE <<s(head)>>[i - Len(log)]
    BY <1>1, <2>1, <2>3, ConcatProperties
  <2>5. log'[Len(log) + 1] = s(head)
    <3>1. Len(log) + 1 \in 1 .. Len(log) + 1 /\ ~(Len(log) + 1 <= Len(log))
          /\ Len(log) + 1 - Len(log) = 1
      BY <1>2
    <3> QED
      BY <2>3, <2>4, <3>1
  <2>6. \A i \in 1 .. Len(log) : log'[i] = log[i]
    BY <1>2, <2>4
  <2> QED
    BY <1>1, <1>3, <2>4, <2>5, <2>6 DEF NeededCells
<1>4. CASE lost # 0
  <2> DEFINE t == <<l, s(head + LostCells)>>
  <2>1. NewRecords(size) = t
    BY <1>4, Zenon DEF NewRecords
  <2>2. l \in Record /\ s(head + LostCells) \in Record
    BY <1>1, <1>4 DEF Record
  <2>3. t \in Seq(Record) /\ Len(t) = 2 /\ t[1] = l /\ t[2] = s(head + LostCells)
    BY <2>2
  <2>4. /\ log' \in Seq(Record)
        /\ Len(log') = Len(log) + 2
        /\ \A i \in 1 .. Len(log) + 2 :
             log'[i] = IF i <= Len(log) THEN log[i] ELSE t[i - Len(log)]
    BY <1>1, <2>1, <2>3, ConcatProperties
  <2> HIDE DEF t
  <2>5. log'[Len(log) + 1] = l /\ log'[Len(log) + 2] = s(head + LostCells)
    <3>1. /\ Len(log) + 1 \in 1 .. Len(log) + 2 /\ ~(Len(log) + 1 <= Len(log))
          /\ Len(log) + 2 \in 1 .. Len(log) + 2 /\ ~(Len(log) + 2 <= Len(log))
          /\ Len(log) + 1 - Len(log) = 1 /\ Len(log) + 2 - Len(log) = 2
      BY <1>2
    <3> QED
      BY <2>3, <2>4, <3>1
  <2>6. \A i \in 1 .. Len(log) : log'[i] = log[i]
    BY <1>2, <2>4
  <2> QED
    BY <1>1, <1>4, <2>4, <2>5, <2>6 DEF NeededCells
<1> QED
  BY <1>3, <1>4, Zenon

\* An output that fits overwrites no cell of an unread record, and leaves its
\* own records in the cells it claims.
LEMMA OutputCells ==
  ASSUME NEW n \in Nat \ {0}, NEW h \in Int, NEW t \in Int, NEW need \in Nat,
         t <= h, h - t + need <= n - 1
  PROVE  /\ \A p \in Int : t <= p /\ p < h => ~(((p % n) - h) % n < need)
         /\ \A d \in Nat : d < need => (((h + d) % n) - h) % n = d
<1>1. ASSUME NEW p \in Int, t <= p, p < h
      PROVE  ~(((p % n) - h) % n < need)
  <2>1. (p + n) % n = p % n
    BY Zenon, ModTurn
  <2>2. p + n \in Int /\ (p + n) - h \in 0 .. n - 1
    BY <1>1
  <2>3. (((p + n) % n) - h) % n = (p + n) - h
    BY Zenon, <2>2, ModShift
  <2>4. (p + n) - h > need
    BY <1>1
  <2> QED
    BY <2>1, <2>2, <2>3, <2>4
<1>2. ASSUME NEW d \in Nat, d < need
      PROVE  (((h + d) % n) - h) % n = d
  <2>1. h + d \in Int /\ (h + d) - h \in 0 .. n - 1 /\ (h + d) - h = d
    BY <1>2
  <2>2. (((h + d) % n) - h) % n = (h + d) - h
    BY Zenon, <2>1, ModShift
  <2> QED
    BY <2>1, <2>2, Zenon
<1> QED
  BY <1>1, <1>2, Zenon

\* Where an unread record lies.
LEMMA UnreadPositions ==
  ASSUME IInv, NEW i \in rd + 1 .. Len(log), NEW k \in 0 .. log[i].size - 1
  PROVE  /\ log[i].pos + k \in Int
         /\ tail <= log[i].pos + k
         /\ log[i].pos + k < head + pending
<1>1. /\ i \in 1 .. Len(log) /\ i \in Nat /\ i - 1 \in 0 .. Len(log)
      /\ rd \in 0 .. Len(log) /\ i \in 0 .. Len(log) /\ Len(log) \in 0 .. Len(log)
      /\ rd <= i - 1 /\ i <= Len(log)
  BY NumberTypes DEF IInv
<1>2. log[i].pos \in Nat /\ log[i].size \in Nat \ {0}
  <2>1. log[i] \in Record
    BY <1>1, ElementOfSeq, Zenon DEF IInv, TypeOK
  <2> QED
    BY <2>1, Zenon DEF Record
<1>3. /\ log[i].pos = EndOf(i - 1) /\ tail = EndOf(rd)
      /\ head + pending = EndOf(Len(log))
      /\ EndOf(rd) <= EndOf(i - 1) /\ EndOf(i) <= EndOf(Len(log))
  BY <1>1, Zenon DEF IInv, RingInv
<1>4. EndOf(i) = log[i].pos + log[i].size
  BY <1>1 DEF EndOf
<1>5. tail \in Nat /\ head \in Nat /\ pending \in Nat
  BY NumberTypes, Zenon DEF IInv
<1>6. k \in Nat /\ k < log[i].size
  BY SMTT(30), <1>2
<1> QED
  BY SMTT(30), <1>2, <1>3, <1>4, <1>5, <1>6

\* An output that fits preserves the ring part of the invariant.
LEMMA OutputRing ==
  ASSUME IInv, NEW size \in SampleSizes, KernelOutput(size),
         head - tail + NeededCells(size) <= RingCells - 1
  PROVE  RingInv' /\ mem' \in [Cells -> Nat \X Nat]
<1> DEFINE need == NeededCells(size)
           L == Len(log)
           E(i) == IF i = 0 THEN 0 ELSE log'[i].pos + log'[i].size
<1>1. /\ pending = 0 /\ pending' = need
      /\ log' = log \o NewRecords(size)
      /\ mem' = [c \in Cells |->
                   LET d == (c - head) % RingCells
                   IN  IF d < need THEN WrittenCell(d) ELSE mem[c]]
      /\ UNCHANGED <<head, tail, pub, rd, pc, event>>
  BY Zenon DEF KernelOutput, taskVars
<1>2. /\ head \in Nat /\ tail \in Nat /\ pub \in Nat /\ rd \in Nat /\ L \in Nat
      /\ RingCells \in Nat \ {0} /\ head \in Int /\ tail \in Int
      /\ LostCells \in Nat \ {0} /\ size \in Nat \ {0}
  BY NumberTypes, RingAssumption, Zenon DEF IInv
<1>3. /\ pub <= L /\ rd <= pub
      /\ tail = EndOf(rd) /\ head = EndOf(pub) /\ head = EndOf(L)
  BY <1>1, <1>2 DEF IInv, RingInv
<1>4. /\ need \in Nat \ {0}
      /\ \A i \in 1 .. L : log'[i] = log[i]
      /\ Len(log') = IF lost = 0 THEN L + 1 ELSE L + 2
      /\ lost = 0 => /\ log'[L + 1].pos = head
                     /\ log'[L + 1].size = size
                     /\ need = size
      /\ lost # 0 => /\ log'[L + 1].pos = head
                     /\ log'[L + 1].size = LostCells
                     /\ log'[L + 2].pos = head + LostCells
                     /\ log'[L + 2].size = size
                     /\ need = LostCells + size
  BY <1>1, NewLog, Zenon
<1> HIDE DEF need, L, E
<1>5. \A i \in 0 .. L : E(i) = EndOf(i)
  <2> TAKE i \in 0 .. L
  <2>1. CASE i = 0
    BY <2>1, Zenon DEF EndOf, E
  <2>2. CASE i # 0
    <3>1. i \in 1 .. L
      BY <1>2, <2>2
    <3>2. log'[i] = log[i]
      BY <1>4, <3>1, Zenon
    <3> QED
      BY <3>2, Zenon DEF EndOf, E
  <2> QED
    BY <2>1, <2>2, Zenon
<1>6. \A i \in 0 .. L : EndOf(i) \in Nat /\ EndOf(i) <= head
  <2> TAKE i \in 0 .. L
  <2>1. EndOf(i) \in Nat
    <3>1. CASE i = 0
      BY <3>1, Zenon DEF EndOf
    <3>2. CASE i # 0
      <4>1. i \in 1 .. L
        BY <1>2, <3>2
      <4>2. log[i] \in Record
        BY <4>1, ElementOfSeq, Zenon DEF IInv, TypeOK, L
      <4> QED
        BY <3>2, <4>2 DEF EndOf, Record
    <3> QED
      BY <3>1, <3>2, Zenon
  <2>2. L \in 0 .. L /\ i <= L
    BY <1>2
  <2>3. EndOf(i) <= EndOf(L)
    BY <2>2, Zenon DEF IInv, RingInv, L
  <2> QED
    BY <1>3, <2>1, <2>3, Zenon
<1>7. /\ lost = 0 => E(L + 1) = head + need
      /\ lost # 0 => /\ E(L + 1) = head + LostCells
                     /\ E(L + 2) = head + need
  <2>1. L + 1 # 0 /\ L + 2 # 0
    BY <1>2
  <2>2. E(L + 1) = log'[L + 1].pos + log'[L + 1].size
    BY <2>1, Zenon DEF E
  <2>3. E(L + 2) = log'[L + 2].pos + log'[L + 2].size
    BY <2>1, Zenon DEF E
  <2>4. lost = 0 => E(L + 1) = head + need
    BY <1>4, <2>2, Zenon
  <2>5. lost # 0 => E(L + 1) = head + LostCells
    BY <1>4, <2>2, Zenon
  <2>6. lost # 0 => E(L + 2) = (head + LostCells) + size /\ need = LostCells + size
    BY <1>4, <2>3, Zenon
  <2>7. (head + LostCells) + size = head + (LostCells + size)
    BY <1>2
  <2> QED
    BY <2>4, <2>5, <2>6, <2>7, Zenon
<1>8. /\ pub' <= Len(log') /\ rd' <= pub'
      /\ tail' = E(rd') /\ head' = E(pub')
      /\ head' + pending' = E(Len(log'))
      /\ head' + pending' - tail' <= RingCells - 1
  <2>1. rd \in 0 .. L /\ pub \in 0 .. L
    BY <1>2, <1>3
  <2>2. E(rd) = EndOf(rd) /\ E(pub) = EndOf(pub)
    BY <1>5, <2>1, Zenon
  <2>3. pub <= Len(log')
    BY SMTT(20), <1>2, <1>3, <1>4
  <2>4. head + need = E(Len(log'))
    BY <1>4, <1>7, Zenon
  <2>5. head + need - tail <= RingCells - 1
    BY <1>2, <1>4 DEF need
  <2> QED
    BY Zenon, <1>1, <1>3, <2>2, <2>3, <2>4, <2>5
<1>9. \A i \in 1 .. Len(log') : log'[i].pos = E(i - 1)
  <2> TAKE i \in 1 .. Len(log')
  <2>1. CASE i \in 1 .. L
    <3>1. i - 1 \in 0 .. L
      BY SMTT(30), <1>2, <2>1
    <3>2. log[i].pos = EndOf(i - 1)
      BY <2>1, Zenon DEF IInv, RingInv, L
    <3> QED
      BY <1>4, <1>5, <2>1, <3>1, <3>2, Zenon
  <2>2. CASE i = L + 1
    <3>1. i - 1 = L /\ L \in 0 .. L
      BY <1>2, <2>2
    <3>2. E(L) = head
      BY <1>3, <1>5, <3>1, Zenon
    <3> QED
      BY <1>4, <2>2, <3>1, <3>2, Zenon
  <2>3. CASE i = L + 2 /\ lost # 0
    <3>1. i - 1 = L + 1
      BY SMTT(20), <1>2, <2>3
    <3> QED
      BY <1>4, <1>7, <2>3, <3>1, Zenon
  <2> QED
    BY <1>2, <1>4, <2>1, <2>2, <2>3
<1>10. \A i, j \in 0 .. Len(log') : i <= j => E(i) <= E(j)
  <2> TAKE i, j \in 0 .. Len(log')
  <2> HAVE i <= j
  <2>1. CASE i \in 0 .. L /\ j \in 0 .. L
    <3>1. EndOf(i) <= EndOf(j)
      BY <2>1, Zenon DEF IInv, RingInv, L
    <3> QED
      BY SMTT(30), <1>5, <2>1, <3>1
  <2>2. CASE j = L + 1 \/ (j = L + 2 /\ lost # 0)
    <3>1. E(j) >= head /\ E(j) \in Nat
      BY SMTT(30), <1>2, <1>4, <1>7, <2>2
    <3>2. CASE i \in 0 .. L
      BY SMTT(20), <1>2, <1>5, <1>6, <3>1, <3>2
    <3>3. CASE i = L + 1 /\ j = L + 1
      BY SMTT(20), <3>1, <3>3
    <3>4. CASE i = L + 1 /\ j = L + 2 /\ lost # 0
      BY <1>2, <1>4, <1>7, <3>4
    <3>5. CASE i = L + 2 /\ j = L + 2 /\ lost # 0
      BY <3>1, <3>5
    <3> QED
      BY SMTT(20), <1>2, <2>2, <3>2, <3>3, <3>4, <3>5
  <2> QED
    BY <1>2, <1>4, <2>1, <2>2
<1>11. /\ \A p \in Int : tail <= p /\ p < head => ~(((p % RingCells) - head) % RingCells < need)
       /\ \A d \in Nat : d < need => (((head + d) % RingCells) - head) % RingCells = d
  <2>1. tail <= head
    BY <1>2, <1>3, <1>6
  <2>2. head - tail + need <= RingCells - 1
    BY Zenon DEF need
  <2> QED
    BY Zenon, <1>2, <1>4, <2>1, <2>2, OutputCells
<1>12. \A p \in Int : p % RingCells \in Cells
  BY <1>2, DivMod, Zenon DEF Cells
<1>13. \A d \in Nat : d < need => mem'[(head + d) % RingCells] = WrittenCell(d)
  <2> TAKE d \in Nat
  <2> HAVE d < need
  <2>1. head + d \in Int
    BY SMTT(30), <1>2
  <2> QED
    BY <1>1, <1>11, <1>12, <2>1, Zenon
<1>14. \A i \in rd + 1 .. Len(log') : \A k \in 0 .. log'[i].size - 1 :
         mem'[(log'[i].pos + k) % RingCells] = <<i, k>>
  <2> TAKE i \in rd + 1 .. Len(log')
  <2> TAKE k \in 0 .. log'[i].size - 1
  <2>1. CASE i \in 1 .. L
    <3>1. i \in rd + 1 .. Len(log) /\ log'[i] = log[i] /\ k \in 0 .. log[i].size - 1
      <4>1. log'[i] = log[i]
        BY <1>4, <2>1, Zenon
      <4>2. i \in rd + 1 .. Len(log)
        BY <1>2, <2>1 DEF L
      <4> QED
        BY <4>1, <4>2, Zenon
    <3> DEFINE q == log[i].pos + k
    <3>2. q \in Int /\ tail <= q /\ q < head
      <4>1. q \in Int /\ tail <= q /\ q < head + pending
        BY SMTT(30), <3>1, UnreadPositions
      <4> HIDE DEF q
      <4> QED
        BY <1>1, <1>2, <4>1
    <3>3. mem[q % RingCells] = <<i, k>>
      BY Zenon, <3>1 DEF IInv, RingInv
    <3>4. (log'[i].pos + k) % RingCells = q % RingCells
      BY <3>1, Zenon
    <3> HIDE DEF q
    <3>5. mem'[q % RingCells] = mem[q % RingCells]
      BY <1>1, <1>11, <1>12, <3>2, Zenon
    <3> QED
      BY <3>3, <3>4, <3>5, Zenon
  <2>2. CASE i = L + 1
    <3>1. k \in Nat /\ k < need /\ (lost = 0 \/ k < LostCells)
      <4>1. CASE lost = 0
        <5>1. log'[i].size = size /\ need = size
          BY <1>4, <2>2, <4>1, Zenon
        <5> QED
          BY SMTT(20), <1>2, <4>1, <5>1
      <4>2. CASE lost # 0
        <5>1. log'[i].size = LostCells /\ need = LostCells + size
          BY <1>4, <2>2, <4>2, Zenon
        <5> QED
          BY <1>2, <5>1
      <4> QED
        BY <4>1, <4>2, Zenon
    <3>2. mem'[(head + k) % RingCells] = <<L + 1, k>>
      BY Zenon, <1>13, <3>1 DEF WrittenCell, L
    <3> QED
      BY <1>4, <2>2, <3>2, Zenon
  <2>3. CASE i = L + 2 /\ lost # 0
    <3>1. /\ LostCells + k \in Nat /\ LostCells + k < need
          /\ ~(LostCells + k < LostCells) /\ (LostCells + k) - LostCells = k
          /\ head + (LostCells + k) = head + LostCells + k
      <4>1. log'[i].size = size /\ need = LostCells + size
        BY <1>4, <2>3, Zenon
      <4>2. k \in Nat /\ k < size
        BY <1>2, <4>1
      <4> QED
        BY <1>2, <4>1, <4>2
    <3>2. mem'[(head + (LostCells + k)) % RingCells] = <<L + 2, (LostCells + k) - LostCells>>
      BY Zenon, <1>13, <2>3, <3>1 DEF WrittenCell, L
    <3> QED
      BY <1>4, <2>3, <3>1, <3>2, Zenon
  <2> QED
    BY SMTT(30), <1>2, <1>4, <2>1, <2>2, <2>3
<1>15. mem' \in [Cells -> Nat \X Nat]
  <2>1. ASSUME NEW c \in Cells, NEW d \in Nat
        PROVE  WrittenCell(d) \in Nat \X Nat
    BY <1>2 DEF WrittenCell, L
  <2>2. ASSUME NEW c \in Cells
        PROVE  (c - head) % RingCells \in Nat
    <3>1. c - head \in Int
      BY <1>2 DEF Cells
    <3>2. (c - head) % RingCells \in 0 .. RingCells - 1
      BY Zenon, <1>2, <3>1, DivMod
    <3> QED
      BY <3>2
  <2>3. \A c \in Cells : mem[c] \in Nat \X Nat
    BY SMTT(30) DEF IInv, TypeOK
  <2> QED
    BY <1>1, <2>1, <2>2, <2>3, Zenon
<1>16. /\ pc' \in {"copy", "release"} => rd' < pub'
       /\ pc' = "release" => event' = tail' % RingCells
       /\ pc' = "type" => rd' > 0
  BY <1>1, Zenon DEF IInv, RingInv
<1> QED
  BY Zenon, <1>1, <1>8, <1>9, <1>10, <1>14, <1>15, <1>16 DEF RingInv, EndOf, E

-----------------------------------------------------------------------------
(* The theorems.                                                           *)

\* The invariant holds when the ring is bound and empty.
LEMMA InitIInv == Init => IInv
<1> SUFFICES ASSUME Init PROVE IInv
  BY Zenon
<1> USE DEF Init
<1>1. TypeOK
  <2>1. 0 \in Cells
    BY RingAssumption DEF Cells
  <2>2. mem \in [Cells -> Nat \X Nat]
    BY Zenon
  <2>3. \A S : <<>> \in Seq(S)
    BY Zenon, EmptySeq
  <2>4. /\ log \in Seq(Record) /\ buf \in Seq(Nat \X Nat)
        /\ batch \in Seq(Nat) /\ sent \in Seq(Nat)
    BY Zenon, <2>3
  <2>5. /\ head \in Nat /\ tail \in Nat /\ pending \in Nat /\ lost \in Nat /\ nOut \in Nat
        /\ pub \in Nat /\ hd \in Nat /\ reported \in Nat /\ rd \in Nat
    BY Zenon DEF Init
  <2>6. wakeup \in BOOLEAN /\ ready \in BOOLEAN /\ pc \in PCs /\ event \in Cells
    BY Zenon, <2>1 DEF PCs
  <2> QED
    BY Zenon, <2>2, <2>4, <2>5, <2>6 DEF TypeOK
<1>2. RingInv
  <2>1. Len(log) = 0 /\ EndOf(0) = 0
    BY Zenon DEF EndOf
  <2> QED
    BY <2>1, RingAssumption DEF RingInv
<1>3. CopyIsWholeRecord
  BY Zenon DEF CopyIsWholeRecord
<1> QED
  BY <1>1, <1>2, <1>3, Zenon DEF IInv

\* The kernel writes a record that user space does not see yet.
LEMMA OutputIInv ==
  ASSUME IInv, NEW size \in SampleSizes, KernelOutput(size)
  PROVE  IInv'
<1>1. CASE head - tail + NeededCells(size) <= RingCells - 1
  <2>1. RingInv' /\ mem' \in [Cells -> Nat \X Nat]
    BY <1>1, OutputRing, Zenon
  <2>2. /\ pending = 0 /\ pending' = NeededCells(size)
        /\ log' = log \o NewRecords(size)
        /\ lost' = 0 /\ nOut' = nOut + 1
        /\ UNCHANGED <<head, tail, pub, wakeup, ready, driver, rx, taskVars>>
    BY <1>1, Zenon DEF KernelOutput
  <2>3. /\ log' \in Seq(Record) /\ NeededCells(size) \in Nat
        /\ \A i \in 1 .. Len(log) : log'[i] = log[i]
    BY <2>2, NewLog, Zenon
  <2>4. TypeOK'
    BY SMTT(30), <2>1, <2>2, <2>3 DEF IInv, TypeOK, taskVars
  <2>5. pc = "release" => rd + 1 \in 1 .. Len(log)
    BY Zenon, NextHeader DEF IInv, RingInv
  <2>6. pc = "type" => rd \in 1 .. Len(log)
    BY SMTT(20), NumberTypes DEF IInv, RingInv
  <2>7. UNCHANGED <<pc, rd, buf>>
    BY <2>2, Zenon DEF taskVars
  <2>8. CopyIsWholeRecord'
    BY <2>3, <2>5, <2>6, <2>7, Zenon DEF IInv, CopyIsWholeRecord, RecordCells
  <2> QED
    BY <2>1, <2>4, <2>8, Zenon DEF IInv
<1>2. CASE ~(head - tail + NeededCells(size) <= RingCells - 1)
  <2>1. /\ lost' = lost + 1 /\ nOut' = nOut + 1
        /\ UNCHANGED <<mem, head, tail, log, pending, pub,
                       wakeup, ready, driver, rx, taskVars>>
    BY <1>2, Zenon DEF KernelOutput
  <2>2. TypeOK'
    BY SMTT(30), <2>1 DEF IInv, TypeOK, taskVars
  <2>3. RingInv'
    BY Zenon, <2>1, Frame DEF IInv, RingInv, ringVars, taskVars
  <2>4. CopyIsWholeRecord'
    BY <2>1, Zenon DEF IInv, CopyIsWholeRecord, RecordCells, taskVars
  <2> QED
    BY <2>2, <2>3, <2>4, Zenon DEF IInv
<1> QED
  BY <1>1, <1>2, Zenon

\* The kernel moves data_head.
LEMMA PublishIInv ==
  ASSUME IInv, KernelPublish
  PROVE  IInv'
<1>1. /\ head' = head + pending /\ pending' = 0 /\ pub' = Len(log) /\ pending > 0
      /\ wakeup' = TRUE
      /\ UNCHANGED <<mem, tail, log, lost, nOut, ready, driver, rx, taskVars>>
  BY Zenon DEF KernelPublish
<1>2. /\ head \in Nat /\ pending \in Nat /\ Len(log) \in Nat /\ tail \in Nat
      /\ pub \in Nat /\ rd \in Nat
  BY NumberTypes, Zenon DEF IInv
<1>3. TypeOK'
  BY SMTT(30), <1>1, <1>2 DEF IInv, TypeOK, taskVars
<1>4. RingInv'
  <2>1. \A i : EndOf(i)' = EndOf(i)
    BY <1>1, Zenon DEF EndOf
  <2>2. /\ pub <= Len(log) /\ rd <= pub /\ tail = EndOf(rd)
        /\ head + pending = EndOf(Len(log))
        /\ head + pending - tail <= RingCells - 1
    BY Zenon DEF IInv, RingInv
  <2>3. UNCHANGED <<rd, pc, event>>
    BY <1>1, Zenon DEF taskVars
  <2>4. /\ pub' <= Len(log)' /\ rd' <= pub'
        /\ tail' = EndOf(rd)' /\ head' = EndOf(pub)'
        /\ head' + pending' = EndOf(Len(log))'
        /\ head' + pending' - tail' <= RingCells - 1
    <3>1. /\ head + pending + 0 = head + pending
          /\ Len(log) <= Len(log) /\ rd <= Len(log)
      BY <1>2, <2>2
    <3>2. EndOf(rd)' = EndOf(rd) /\ EndOf(pub)' = EndOf(Len(log))
          /\ EndOf(Len(log))' = EndOf(Len(log))
      BY <1>1, <2>3, Zenon DEF EndOf
    <3>3. head' + pending' = head + pending /\ tail' = tail /\ log' = log
      BY <1>1, <3>1, Zenon
    <3>4. pub' <= Len(log)' /\ rd' <= pub'
      BY <1>1, <2>3, <3>1, <3>3, Zenon
    <3>5. tail' = EndOf(rd)' /\ head' = EndOf(pub)' /\ head' + pending' = EndOf(Len(log))'
      BY <1>1, <2>2, <3>2, <3>3, Zenon
    <3>6. head' + pending' - tail' <= RingCells - 1
      <4>1. (head + pending) + 0 - tail <= RingCells - 1
        BY SMTT(30), <1>2, <2>2, <3>1
      <4> QED
        BY <1>1, <4>1, Zenon
    <3> QED
      BY <3>4, <3>5, <3>6, Zenon
  <2>5. /\ pc' \in {"copy", "release"} => rd' < pub'
        /\ pc' = "release" => event' = tail' % RingCells
        /\ pc' = "type" => rd' > 0
    BY SMTT(30), <1>1, <1>2, <2>2, <2>3 DEF IInv, RingInv
  <2>6. /\ \A i \in 1 .. Len(log) : log[i].pos = EndOf(i - 1)
        /\ \A i, j \in 0 .. Len(log) : i <= j => EndOf(i) <= EndOf(j)
        /\ \A i \in rd + 1 .. Len(log) : \A k \in 0 .. log[i].size - 1 :
             mem[(log[i].pos + k) % RingCells] = <<i, k>>
    BY Zenon DEF IInv, RingInv
  <2> QED
    BY Zenon, <1>1, <2>1, <2>3, <2>4, <2>5, <2>6 DEF RingInv
<1>5. CopyIsWholeRecord'
  BY <1>1, Zenon DEF IInv, CopyIsWholeRecord, RecordCells, taskVars
<1> QED
  BY <1>3, <1>4, <1>5, Zenon DEF IInv

\* PerfMap::read moves data_tail.
LEMMA ReleaseIInv ==
  ASSUME IInv, ReadRelease
  PROVE  IInv'
<1>1. /\ pc = "release" /\ pc' = "type" /\ rd' = rd + 1
      /\ \E size \in SizesAt(mem[event]) : tail' = tail + size
      /\ UNCHANGED <<mem, head, kernelVars, wakeup, ready, driver, rx,
                     hd, event, buf, batch, sent, reported, misread>>
  BY Zenon DEF ReadRelease
<1>2. rd < pub /\ event = tail % RingCells
  BY <1>1, Zenon DEF IInv, RingInv
<1>3. /\ tail' = tail + log[rd + 1].size
      /\ tail + log[rd + 1].size = EndOf(rd + 1)
      /\ log[rd + 1].size \in Nat
      /\ rd + 1 \in 1 .. Len(log)
  BY SMTT(30), <1>1, <1>2, NextHeader DEF Record
<1>4. /\ head \in Nat /\ pending \in Nat /\ Len(log) \in Nat /\ tail \in Nat
      /\ pub \in Nat /\ rd \in Nat
  BY NumberTypes, Zenon DEF IInv
<1>5. TypeOK'
  <2>1. tail' \in Nat /\ rd' \in Nat
    <3> DEFINE z == log[rd + 1].size
    <3>1. z \in Nat /\ tail' = tail + z
      BY <1>3, Zenon
    <3> HIDE DEF z
    <3> QED
      BY <1>1, <1>4, <3>1
  <2>2. pc' \in PCs
    BY <1>1, Zenon DEF PCs
  <2> QED
    BY Zenon, <1>1, <2>1, <2>2 DEF IInv, TypeOK, kernelVars
<1>6. RingInv'
  <2>1. UNCHANGED <<mem, head, log, pending, pub>>
    BY Zenon, <1>1 DEF kernelVars
  <2>2. \A i : EndOf(i)' = EndOf(i)
    BY <2>1, Zenon DEF EndOf
  <2>3. /\ pub <= Len(log) /\ head = EndOf(pub)
        /\ head + pending = EndOf(Len(log))
        /\ head + pending - tail <= RingCells - 1
    BY Zenon DEF IInv, RingInv
  <2>4. /\ pub' <= Len(log)' /\ rd' <= pub'
        /\ tail' = EndOf(rd)' /\ head' = EndOf(pub)'
        /\ head' + pending' = EndOf(Len(log))'
        /\ head' + pending' - tail' <= RingCells - 1
    <3>1. rd + 1 <= pub
      BY <1>2, <1>4
    <3>2. head + pending - (tail + log[rd + 1].size) <= RingCells - 1
      <4> DEFINE z == log[rd + 1].size
      <4>1. z \in Nat /\ RingCells \in Nat
        BY <1>3, RingAssumption, Zenon
      <4> HIDE DEF z
      <4>2. head + pending - (tail + z) <= RingCells - 1
        BY <1>4, <2>3, <4>1
      <4> QED
        BY <4>2, Zenon DEF z
    <3> QED
      BY <1>1, <1>3, <2>1, <2>3, <3>1, <3>2, Zenon DEF EndOf
  <2>5. /\ pc' \in {"copy", "release"} => rd' < pub'
        /\ pc' = "release" => event' = tail' % RingCells
        /\ pc' = "type" => rd' > 0
    BY SMTT(30), <1>1, <1>4
  <2>6. /\ \A i \in 1 .. Len(log) : log[i].pos = EndOf(i - 1)
        /\ \A i, j \in 0 .. Len(log) : i <= j => EndOf(i) <= EndOf(j)
        /\ \A i \in rd + 1 .. Len(log) : \A k \in 0 .. log[i].size - 1 :
             mem[(log[i].pos + k) % RingCells] = <<i, k>>
    BY Zenon DEF IInv, RingInv
  <2>7. \A i : i \in (rd + 1) + 1 .. Len(log) => i \in rd + 1 .. Len(log)
    BY <1>4
  <2> QED
    BY ZenonT(30), <1>1, <2>1, <2>2, <2>4, <2>5, <2>6, <2>7 DEF RingInv
<1>7. CopyIsWholeRecord'
  <2>1. log' = log /\ buf' = buf
    BY <1>1, Zenon DEF kernelVars
  <2>2. buf = RecordCells(rd + 1)
    BY <1>1, Zenon DEF IInv, CopyIsWholeRecord
  <2> QED
    BY <1>1, <2>1, <2>2, Zenon DEF CopyIsWholeRecord, RecordCells
<1> QED
  BY <1>5, <1>6, <1>7, Zenon DEF IInv

\* The record that read() has released and not handled yet.
LEMMA HandledRecord ==
  ASSUME IInv, pc = "type"
  PROVE  /\ rd \in 1 .. Len(log) /\ rd \in Nat /\ log[rd] \in Record
         /\ buf[1][1] = rd
<1>1. rd \in 1 .. Len(log) /\ rd \in Nat
  BY SMTT(20), NumberTypes DEF IInv, RingInv
<1>2. log[rd] \in Record
  BY <1>1, ElementOfSeq, Zenon DEF IInv, TypeOK
<1>3. buf = RecordCells(rd)
  BY Zenon DEF IInv, CopyIsWholeRecord
<1>4. 1 \in 1 .. log[rd].size
  BY <1>2 DEF Record
<1>5. buf[1] = <<rd, 1 - 1>>
  BY SMTT(30), <1>3, <1>4 DEF RecordCells
<1> QED
  BY SMTT(30), <1>1, <1>2, <1>5

\* PerfMap::read looks at the type of the record it has copied.
LEMMA TypeIInv ==
  ASSUME IInv, ReadType
  PROVE  IInv'
<1> DEFINE i == buf[1][1]
<1>1. /\ pc = "type"
      /\ UNCHANGED <<mem, head, tail, kernelVars, wakeup, ready, driver, rx,
                     hd, event, buf, sent, rd>>
  BY Zenon DEF ReadType
<1>2. i = rd /\ rd \in Nat /\ log[rd] \in Record
  BY <1>1, HandledRecord, Zenon
<1>3. PICK type \in TypesAt(mem[event]) :
         /\ batch' = IF type = "sample" THEN Append(batch, i) ELSE batch
         /\ reported' = IF type = "lost" /\ type = log[i].type
                        THEN reported + log[i].count ELSE reported
         /\ misread' = IF type = log[i].type THEN misread ELSE misread \cup {i}
         /\ pc' = IF type = "other" THEN "send" ELSE "load"
  BY Zenon DEF ReadType
<1>4. log[rd].count \in Nat
  BY <1>2, Zenon DEF Record
<1> HIDE DEF i
<1>5. batch' \in Seq(Nat) /\ reported' \in Nat /\ misread' \subseteq Nat
  <2>1. batch \in Seq(Nat) /\ reported \in Nat /\ misread \subseteq Nat
    BY Zenon DEF IInv, TypeOK
  <2>2. Append(batch, i) \in Seq(Nat)
    BY <1>2, <2>1, AppendProperties, Zenon
  <2>3. batch' \in Seq(Nat)
    BY <1>3, <2>1, <2>2, Zenon
  <2>4. reported' \in Nat
    BY <1>2, <1>3, <1>4, <2>1
  <2>5. misread' \subseteq Nat
    BY <1>2, <1>3, <2>1, Zenon
  <2> QED
    BY <2>3, <2>4, <2>5, Zenon
<1>6. pc' \in {"send", "load"}
  BY <1>3, Zenon
<1>7. TypeOK'
  BY <1>1, <1>5, <1>6, Zenon DEF IInv, TypeOK, PCs, kernelVars
<1>8. RingInv'
  BY <1>1, <1>6, Frame, Zenon DEF IInv, ringVars, kernelVars
<1>9. CopyIsWholeRecord'
  BY <1>6, Zenon DEF CopyIsWholeRecord
<1> QED
  BY SMTT(30), <1>7, <1>8, <1>9 DEF IInv

\* The remaining steps of the task and of the runtime.
LEMMA OtherIInv ==
  ASSUME IInv,
         \/ ReadLoad \/ ReadCopy \/ PollReady \/ PollError \/ SendBatch
         \/ EpollNotify \/ DriverShutdown \/ DropReceiver \/ UNCHANGED vars
  PROVE  IInv'
<1>1. UNCHANGED ringVars
  BY Zenon DEF ReadLoad, ReadCopy, PollReady, PollError, SendBatch, EpollNotify,
         DriverShutdown, DropReceiver, vars, kernelVars, taskVars, ringVars
<1>2. CASE ReadLoad
  <2>1. TypeOK'
    BY <1>2, Zenon DEF IInv, TypeOK, ReadLoad, PCs, kernelVars
  <2>2. pc' \in {"send", "copy"} /\ (pc' = "copy" => tail # head)
    BY SMTT(30), <1>2 DEF ReadLoad
  <2>3. tail # head => rd < pub
    BY NumberTypes DEF IInv, RingInv
  <2>4. RingInv'
    BY <1>1, <2>2, <2>3, Frame, Zenon DEF IInv
  <2>5. CopyIsWholeRecord'
    BY SMTT(30), <2>2 DEF CopyIsWholeRecord
  <2> QED
    BY SMTT(30), <2>1, <2>4, <2>5 DEF IInv
<1>3. CASE ReadCopy
  <2>1. rd < pub
    BY SMTT(30), <1>3 DEF ReadCopy, IInv, RingInv
  <2>2. buf' = RecordCells(rd + 1) /\ buf' \in Seq(Nat \X Nat)
    BY SMTT(30), <1>3, <2>1, NextHeader, CopyNext DEF ReadCopy
  <2>3. event' \in Cells /\ event' = tail % RingCells /\ pc' = "release"
    BY SMTT(30), <1>3, <2>1, NextHeader DEF ReadCopy
  <2>4. TypeOK'
    BY SMTT(30), <1>3, <2>2, <2>3 DEF IInv, TypeOK, ReadCopy, PCs, kernelVars
  <2>5. RingInv'
    BY <1>1, <2>1, <2>3, Frame, Zenon DEF IInv
  <2>6. CopyIsWholeRecord'
    BY <1>1, <2>2, <2>3, Zenon DEF CopyIsWholeRecord, RecordCells, ringVars
  <2> QED
    BY <2>4, <2>5, <2>6, Zenon DEF IInv
<1>4. CASE PollReady \/ PollError \/ SendBatch
  <2>1. pc' \in {"load", "gone", "poll"}
    BY SMTT(30), <1>4 DEF PollReady, PollError, SendBatch
  <2>2. batch' \in Seq(Nat) /\ sent' \in Seq(Nat) /\ ready' \in BOOLEAN
    <3>1. batch \in Seq(Nat) /\ sent \in Seq(Nat) /\ ready \in BOOLEAN
      BY Zenon DEF IInv, TypeOK
    <3>2. sent \o batch \in Seq(Nat) /\ <<>> \in Seq(Nat)
      BY SMTT(30), <3>1, ConcatProperties
    <3> QED
      BY Zenon, <1>4, <3>1, <3>2 DEF PollReady, PollError, SendBatch
  <2>3. UNCHANGED <<mem, head, tail, kernelVars, wakeup, driver, rx,
                    hd, event, buf, reported, rd, misread>>
    BY <1>4, Zenon DEF PollReady, PollError, SendBatch
  <2>4. TypeOK'
    BY <2>1, <2>2, <2>3, Zenon DEF IInv, TypeOK, PCs, kernelVars
  <2>5. RingInv'
    BY <1>1, <2>1, Frame, Zenon DEF IInv
  <2>6. CopyIsWholeRecord'
    BY SMTT(30), <2>1 DEF CopyIsWholeRecord
  <2> QED
    BY <2>4, <2>5, <2>6, Zenon DEF IInv
<1>5. CASE EpollNotify \/ DriverShutdown \/ DropReceiver \/ UNCHANGED vars
  <2>1. UNCHANGED taskVars /\ UNCHANGED kernelVars
    BY SMTT(30), <1>5 DEF EpollNotify, DriverShutdown, DropReceiver, vars
  <2>2. /\ wakeup' \in BOOLEAN /\ ready' \in BOOLEAN
        /\ driver' \in {"up", "down"} /\ rx' \in {"open", "closed"}
    BY Zenon, <1>5 DEF IInv, TypeOK, EpollNotify, DriverShutdown, DropReceiver, vars
  <2>3. TypeOK'
    BY <1>1, <2>1, <2>2, Zenon DEF IInv, TypeOK, taskVars, kernelVars, ringVars
  <2>4. RingInv'
    BY Zenon, <1>1, <2>1, Frame DEF IInv, RingInv, taskVars
  <2>5. CopyIsWholeRecord'
    BY <2>1, Zenon DEF IInv, CopyIsWholeRecord, RecordCells, taskVars, kernelVars
  <2> QED
    BY <2>3, <2>4, <2>5, Zenon DEF IInv
<1> QED
  BY SMTT(30), <1>2, <1>3, <1>4, <1>5

\* Every step of the kernel and of the stream.
LEMMA NextIInv == IInv /\ [Next]_vars => IInv'
<1> SUFFICES ASSUME IInv, [Next]_vars PROVE IInv'
  BY Zenon
<1>1. CASE \E size \in SampleSizes : KernelOutput(size)
  BY <1>1, OutputIInv, Zenon
<1>2. CASE KernelPublish
  BY <1>2, PublishIInv, Zenon
<1>3. CASE ReadRelease
  BY <1>3, ReleaseIInv, Zenon
<1>4. CASE ReadType
  BY <1>4, TypeIInv, Zenon
<1>5. CASE \/ ReadLoad \/ ReadCopy \/ PollReady \/ PollError \/ SendBatch
           \/ EpollNotify \/ DriverShutdown \/ DropReceiver \/ UNCHANGED vars
  BY <1>5, OtherIInv, Zenon
<1> QED
  BY <1>1, <1>2, <1>3, <1>4, <1>5, Zenon DEF Next, Task

\* Type correctness of the ring, the stream task and the channel.
THEOREM TypeCorrect == Spec => []TypeOK
<1>1. IInv => TypeOK
  BY Zenon DEF IInv
<1> QED
  BY InitIInv, NextIInv, <1>1, PTL DEF Spec

\* The kernel never overwrites a record that data_tail has not passed, and
\* data_tail always stands at the start of the next record: read() advances it
\* by exactly the size of the record it copied.
THEOREM RingSound == Spec => []RingInv
<1>1. IInv => RingInv
  BY Zenon DEF IInv
<1> QED
  BY InitIInv, NextIInv, <1>1, PTL DEF Spec

\* The buffer from which PerfMap::read builds an event holds exactly one whole
\* record, the next one in order, for every size of the ring and of records,
\* with or without wrap around, whatever the kernel writes meanwhile.
THEOREM CopyCorrect == Spec => []CopyIsWholeRecord
<1>1. IInv => CopyIsWholeRecord
  BY Zenon DEF IInv
<1> QED
  BY InitIInv, NextIInv, <1>1, PTL DEF Spec

-----------------------------------------------------------------------------
(* The stream of messages.                                                 *)

Delivered == sent \o batch

\* read_messages returns an empty vector's worth to the next call.
BatchInv == pc = "poll" => batch = <<>>

\* Every step keeps the batch and the channel in order.
LEMMA BatchInvNext ==
  ASSUME BatchInv, [Next]_vars
  PROVE  BatchInv'
<1>1. CASE SendBatch
  BY <1>1, Zenon DEF SendBatch, BatchInv
<1>2. CASE PollReady \/ PollError \/ ReadLoad \/ ReadCopy \/ ReadRelease \/ ReadType
  BY <1>2, Zenon DEF PollReady, PollError, ReadLoad, ReadCopy, ReadRelease, ReadType, BatchInv
<1>3. CASE UNCHANGED taskVars
  BY <1>3, Zenon DEF taskVars, BatchInv
<1>4. CASE \/ \E size \in SampleSizes : KernelOutput(size)
           \/ KernelPublish \/ EpollNotify \/ DriverShutdown \/ DropReceiver \/ UNCHANGED vars
  BY <1>3, <1>4, Zenon DEF KernelOutput, KernelPublish, EpollNotify, DriverShutdown, DropReceiver, vars
<1> QED
  BY <1>1, <1>2, <1>4, Zenon DEF Next, Task

\* Appending to the batch appends to what is delivered.
LEMMA AppendLater ==
  ASSUME NEW s \in Seq(Nat), NEW t \in Seq(Nat), NEW x \in Nat
  PROVE  s \o Append(t, x) = Append(s \o t, x)
<1>1. Append(t, x) \in Seq(Nat) /\ Len(Append(t, x)) = Len(t) + 1
  BY AppendProperties, Zenon
<1>2. s \o t \in Seq(Nat) /\ Len(s \o t) = Len(s) + Len(t)
  BY ConcatProperties, Zenon
<1>3. /\ s \o Append(t, x) \in Seq(Nat) /\ Append(s \o t, x) \in Seq(Nat)
      /\ Len(s \o Append(t, x)) = Len(s) + Len(t) + 1
      /\ Len(Append(s \o t, x)) = Len(s) + Len(t) + 1
  BY <1>1, <1>2, ConcatProperties, AppendProperties, LenProperties
<1>4. ASSUME NEW i \in 1 .. Len(s) + Len(t) + 1
      PROVE  (s \o Append(t, x))[i] = Append(s \o t, x)[i]
  <2>1. CASE i <= Len(s)
    BY <1>1, <1>2, <2>1, LenProperties, ConcatProperties, AppendProperties
  <2>2. CASE i > Len(s) /\ i <= Len(s) + Len(t)
    BY <1>1, <1>2, <2>2, LenProperties, ConcatProperties, AppendProperties
  <2>3. CASE i = Len(s) + Len(t) + 1
    BY <1>1, <1>2, <2>3, LenProperties, ConcatProperties, AppendProperties
  <2> QED
    BY <2>1, <2>2, <2>3, LenProperties
<1> QED
  BY <1>3, <1>4, SeqEqual, Zenon

\* A turn of the loop in read_messages handles the next record.
LEMMA TypeStep ==
  ASSUME IInv, ReadType
  PROVE  /\ pc = "type" /\ pc' \in {"send", "load"}
         /\ Handled = rd - 1 /\ Handled' = rd /\ rd \in 1 .. pub /\ rd \in 1 .. Len(log)
         /\ UNCHANGED <<mem, tail, kernelVars, event, rd, sent>>
         /\ \E type \in TypesAt(mem[event]) :
              /\ Delivered' = IF type = "sample" THEN Append(Delivered, rd) ELSE Delivered
              /\ reported' = IF type = "lost" /\ type = log[rd].type
                             THEN reported + log[rd].count ELSE reported
              /\ misread' = IF type = log[rd].type THEN misread ELSE misread \cup {rd}
<1>1. pc = "type" /\ UNCHANGED <<mem, tail, kernelVars, event, rd, sent>>
  BY Zenon DEF ReadType
<1>2. /\ rd \in 1 .. Len(log) /\ rd \in Nat /\ buf[1][1] = rd
  BY <1>1, HandledRecord, Zenon
<1>3. rd \in 1 .. pub
  BY <1>2, NumberTypes DEF IInv, RingInv
<1>4. PICK type \in TypesAt(mem[event]) :
         /\ batch' = IF type = "sample" THEN Append(batch, rd) ELSE batch
         /\ reported' = IF type = "lost" /\ type = log[rd].type
                        THEN reported + log[rd].count ELSE reported
         /\ misread' = IF type = log[rd].type THEN misread ELSE misread \cup {rd}
         /\ pc' = IF type = "other" THEN "send" ELSE "load"
  BY <1>2, Zenon DEF ReadType
<1>5. sent \o Append(batch, rd) = Append(sent \o batch, rd)
  BY Zenon, <1>2, AppendLater DEF IInv, TypeOK
<1>6. pc' \in {"send", "load"}
  BY <1>4, Zenon
<1>7. Handled = rd - 1 /\ Handled' = rd
  BY <1>1, <1>6, Zenon DEF Handled
<1>8. Delivered' = IF type = "sample" THEN Append(Delivered, rd) ELSE Delivered
  <2>1. sent' = sent
    BY Zenon, <1>1
  <2>2. CASE type = "sample"
    BY Zenon, <1>4, <1>5, <2>1, <2>2 DEF Delivered
  <2>3. CASE type # "sample"
    BY Zenon, <1>4, <2>1, <2>3 DEF Delivered
  <2> QED
    BY Zenon, <2>2, <2>3
<1> QED
  BY <1>1, <1>2, <1>3, <1>4, <1>6, <1>7, <1>8, Zenon

\* Every other step delivers nothing and handles nothing.
LEMMA QuietStep ==
  ASSUME IInv, BatchInv, [Next]_vars, ~ReadType
  PROVE  /\ Delivered' = Delivered /\ Handled' = Handled
         /\ UNCHANGED <<reported, misread>>
         /\ pc = "gone" => pc' = "gone"
         /\ pub' = pub \/ (KernelPublish /\ pc' = pc)
<1>1. CASE SendBatch
  <2>1. /\ pc = "send" /\ pc' \in {"poll", "gone"}
        /\ (sent' = sent \o batch /\ batch' = <<>>) \/ (sent' = sent /\ batch' = batch)
        /\ UNCHANGED <<pub, rd, reported, misread>>
    BY <1>1, Zenon DEF SendBatch, kernelVars
  <2>2. sent \o batch \in Seq(Nat) /\ (sent \o batch) \o <<>> = sent \o batch
    BY DEF IInv, TypeOK
  <2>3. Delivered' = Delivered
    BY Zenon, <2>1, <2>2 DEF Delivered
  <2> QED
    BY <2>1, <2>3, Zenon DEF Handled
<1>2. CASE PollReady
  <2>1. pc = "poll" /\ pc' = "load" /\ batch' = batch /\ UNCHANGED <<pub, rd, reported, misread, sent>>
    BY <1>2, Zenon DEF PollReady, kernelVars, BatchInv
  <2> QED
    BY <2>1, Zenon DEF Handled, Delivered
<1>3. CASE PollError \/ ReadLoad \/ ReadCopy
  <2>1. /\ pc \in {"poll", "load", "copy"} /\ pc' \in {"gone", "send", "copy", "release"}
        /\ UNCHANGED <<pub, rd, reported, misread, sent, batch>>
    BY <1>3, Zenon DEF PollError, ReadLoad, ReadCopy, kernelVars
  <2> QED
    BY <2>1, Zenon DEF Handled, Delivered
<1>4. CASE ReadRelease
  <2>1. /\ pc = "release" /\ pc' = "type" /\ rd' = rd + 1
        /\ UNCHANGED <<pub, reported, misread, sent, batch>>
    BY <1>4, Zenon DEF ReadRelease, kernelVars
  <2> QED
    BY <2>1, NumberTypes DEF Handled, Delivered, IInv
<1>5. CASE UNCHANGED taskVars /\ UNCHANGED pub
  BY <1>5, Zenon DEF taskVars, Handled, Delivered
<1>6. CASE \E size \in SampleSizes : KernelOutput(size)
  BY <1>5, <1>6, Zenon DEF KernelOutput
<1>7. CASE EpollNotify \/ DriverShutdown \/ DropReceiver \/ UNCHANGED vars
  BY <1>5, <1>7, Zenon DEF EpollNotify, DriverShutdown, DropReceiver, vars, kernelVars
<1>8. CASE KernelPublish
  <2>1. UNCHANGED taskVars
    BY <1>8, Zenon DEF KernelPublish
  <2> QED
    BY <1>8, <2>1, Zenon DEF taskVars, Handled, Delivered
<1> QED
  BY <1>1, <1>2, <1>3, <1>4, <1>6, <1>7, <1>8, Zenon DEF Next, Task


\* Initial states of the ring are initial states of the stream.
LEMMA StreamInit == Init => Stream!Init
<1> SUFFICES ASSUME Init PROVE Stream!Init
  BY Zenon
<1>1. Handled = 0 /\ (pc # "gone") = TRUE /\ sent = <<>> /\ batch = <<>> /\ pub = 0
  BY Zenon DEF Init, Handled
<1>2. sent \o batch = <<>>
  BY <1>1
<1> QED
  BY <1>1, <1>2, Zenon DEF Stream!Init

\* Each step of the kernel, the runtime and the task is a step of the stream or
\* leaves it alone.
LEMMA StreamNext == IInv /\ BatchInv /\ [Next]_vars => [Stream!Next]_(Stream!vars)
<1> SUFFICES ASSUME IInv, BatchInv, [Next]_vars
             PROVE  [Stream!Next]_(Stream!vars)
  BY Zenon
<1>1. CASE ReadType
  <2>1. /\ (pc # "gone") = TRUE /\ (pc # "gone")' = (pc # "gone")
        /\ Handled < pub /\ Handled' = Handled + 1 /\ pub' = pub
        /\ Delivered' \in {Delivered, Append(Delivered, Handled + 1)}
    <3>1. /\ pc = "type" /\ pc' \in {"send", "load"} /\ UNCHANGED kernelVars
          /\ Handled = rd - 1 /\ Handled' = rd /\ rd \in 1 .. pub
          /\ \E type \in TypesAt(mem[event]) :
               Delivered' = IF type = "sample" THEN Append(Delivered, rd) ELSE Delivered
      BY Zenon, <1>1, TypeStep
    <3>2. pub \in Nat /\ rd \in Nat
      BY Zenon, NumberTypes DEF IInv
    <3>3. Handled < pub /\ Handled' = Handled + 1 /\ Handled + 1 = rd
      BY <3>1, <3>2
    <3>4. Delivered' \in {Delivered, Append(Delivered, Handled + 1)}
      BY Zenon, <3>1, <3>3
    <3>5. pub' = pub /\ (pc # "gone") = TRUE /\ (pc' # "gone") = TRUE
      BY <3>1, Zenon DEF kernelVars
    <3> QED
      BY Zenon, <3>3, <3>4, <3>5
  <2>2. Stream!Take
    BY Zenon, <2>1 DEF Stream!Take, Delivered
  <2> QED
    BY <2>2, Zenon DEF Stream!Next
<1>2. CASE ~ReadType
  <2>1. /\ Delivered' = Delivered /\ Handled' = Handled
        /\ pc = "gone" => pc' = "gone"
        /\ pub' = pub \/ (KernelPublish /\ pc' = pc)
    BY <1>2, QuietStep, Zenon
  <2>2. CASE KernelPublish /\ pc' = pc
    <3>1. pub' = Len(log) /\ pub \in Nat /\ pub' \in Nat /\ pub' >= pub
      BY <2>2, NumberTypes, Zenon DEF KernelPublish, IInv, RingInv
    <3>2. CASE pub' > pub
      <4>1. Stream!Publish
        BY <2>1, <2>2, <3>1, <3>2, Zenon DEF Stream!Publish, Delivered
      <4> QED
        BY <4>1, Zenon DEF Stream!Next
    <3>3. CASE pub' = pub
      BY <2>1, <2>2, <3>3, Zenon DEF Stream!vars, Delivered
    <3> QED
      BY <3>1, <3>2, <3>3
  <2>3. CASE pub' = pub
    <3>1. CASE pc # "gone" /\ pc' = "gone"
      <4>1. (pc # "gone") = TRUE /\ (pc # "gone")' = FALSE
        BY <3>1, Zenon
      <4>2. Stream!End
        BY <2>1, <2>3, <4>1, Zenon DEF Stream!End, Delivered
      <4> QED
        BY <4>2, Zenon DEF Stream!Next
    <3>2. CASE ~(pc # "gone" /\ pc' = "gone")
      <4>1. (pc # "gone")' = (pc # "gone")
        BY <2>1, <3>2, Zenon
      <4> QED
        BY <2>1, <2>3, <4>1, Zenon DEF Stream!vars, Delivered
    <3> QED
      BY <3>1, <3>2, Zenon
  <2> QED
    BY <2>1, <2>2, <2>3, Zenon
<1> QED
  BY <1>1, <1>2, Zenon

\* Everything the owner of Loaded may rely on (module EventStream) holds of the
\* mapping, the readiness protocol and the task of PerfMessageStream: the
\* records are taken one by one in the kernel's order and at most once, none
\* before it is published and none after the stream has ended.
THEOREM StreamImplemented == Spec => ImplementsEventStream
<1>1. Init => BatchInv
  BY Zenon DEF Init, BatchInv
<1>2. BatchInv /\ [Next]_vars => BatchInv'
  BY BatchInvNext, Zenon
<1> QED
  BY <1>1, <1>2, InitIInv, NextIInv, StreamInit, StreamNext, PTL
     DEF Spec, ImplementsEventStream, Stream!Spec

-----------------------------------------------------------------------------
(* The type is read after the release.                                     *)

\* A record starts at or before, and ends after, the position one turn beyond
\* the start of record i: the kernel has reused the cell of its header.
Overwritten(i) ==
  \E j \in 1 .. Len(log) : /\ log[j].pos <= log[i].pos + RingCells
                           /\ log[i].pos + RingCells < log[j].pos + log[j].size

\* Until its type is read, the header of the released record is in its cell or
\* the kernel has come round to it; only then can a record be misread.
HeaderInv ==
  /\ \A i \in 1 .. Len(log) : log[i].size < RingCells
  /\ \A i \in misread : i \in 1 .. Handled /\ Overwritten(i)
  /\ pc = "type" => /\ event = log[rd].pos % RingCells
                    /\ mem[event] = <<rd, 0>> \/ Overwritten(rd)

\* Only records that were written are handled.
LEMMA HandledInLog == IInv => Handled \in 0 .. Len(log)
<1> SUFFICES ASSUME IInv PROVE Handled \in 0 .. Len(log)
  BY Zenon
<1>1. pub <= Len(log) /\ rd <= pub /\ (pc = "type" => rd > 0)
  BY Zenon, RingOrder
<1>2. pub \in Nat /\ rd \in Nat /\ Len(log) \in Nat
  BY Zenon, NumberTypes DEF IInv
<1> QED
  BY <1>1, <1>2 DEF Handled

\* The reader is not ahead of the kernel.
LEMMA TailBehind ==
  ASSUME IInv
  PROVE  tail <= head
<1>1. rd \in 0 .. Len(log) /\ pub \in 0 .. Len(log) /\ rd <= pub
  BY NumberTypes DEF IInv, RingInv
<1>2. EndOf(rd) <= EndOf(pub)
  BY <1>1, Zenon DEF IInv, RingInv
<1> QED
  BY <1>2, Zenon DEF IInv, RingInv

\* An output only adds records.
LEMMA OutputLog ==
  ASSUME IInv, NEW size \in SampleSizes, KernelOutput(size)
  PROVE  /\ log' \in Seq(Record) /\ Len(log') \in Nat /\ Len(log) <= Len(log')
         /\ \A i \in 1 .. Len(log) : log'[i] = log[i]
<1>1. log \in Seq(Record) /\ Len(log) \in Nat
  BY NumberTypes, Zenon DEF IInv, TypeOK
<1>2. CASE log' = log
  BY SMTT(20), <1>1, <1>2
<1>3. CASE log' = log \o NewRecords(size)
  <2>1. pending = 0
    BY Zenon DEF KernelOutput
  <2>2. /\ log' \in Seq(Record)
        /\ Len(log') = IF lost = 0 THEN Len(log) + 1 ELSE Len(log) + 2
        /\ \A i \in 1 .. Len(log) : log'[i] = log[i]
    BY <1>3, <2>1, NewLog, Zenon
  <2> QED
    BY <1>1, <2>2
<1> QED
  BY <1>2, <1>3, Zenon DEF KernelOutput

\* A cell the kernel came round to stays overwritten.
LEMMA OverwrittenStays ==
  ASSUME Len(log) \in Nat, Len(log') \in Nat, Len(log) <= Len(log'),
         \A i \in 1 .. Len(log) : log'[i] = log[i],
         NEW i \in 1 .. Len(log), Overwritten(i)
  PROVE  Overwritten(i)'
<1>1. PICK j \in 1 .. Len(log) : /\ log[j].pos <= log[i].pos + RingCells
                                 /\ log[i].pos + RingCells < log[j].pos + log[j].size
  BY Zenon DEF Overwritten
<1>2. j \in 1 .. Len(log') /\ log'[j] = log[j] /\ log'[i] = log[i]
  BY SMTT(20), <1>1
<1> QED
  BY <1>1, <1>2, Zenon DEF Overwritten

\* The only position an output can write into a given cell is the first one
\* beyond its start that falls into it.
LEMMA CellPosition ==
  ASSUME NEW n \in Nat \ {0}, NEW h \in Int, NEW p \in Int, NEW t \in Int, NEW need \in Nat,
         p < t, t - p < n, t <= h, h - t + need <= n - 1,
         (((p % n) - h) % n) < need
  PROVE  h <= p + n /\ p + n < h + need
<1>1. (p + n) % n = p % n /\ ((p + n) + n) % n = (p + n) % n
  <2>1. p + n \in Int
    OBVIOUS
  <2> QED
    BY <2>1, ModTurn, Zenon
<1>2. CASE h <= p + n
  <2>1. p + n \in Int /\ (p + n) - h \in 0 .. n - 1
    BY <1>2
  <2>2. (((p + n) % n) - h) % n = (p + n) - h
    BY <2>1, ModShift, Zenon
  <2>3. (p + n) - h < need
    BY <1>1, <2>2, Zenon
  <2> QED
    BY <1>2, <2>3
<1>3. CASE h > p + n
  <2>1. (p + n) + n \in Int /\ ((p + n) + n) - h \in 0 .. n - 1
    BY <1>3
  <2>2. ((((p + n) + n) % n) - h) % n = ((p + n) + n) - h
    BY <2>1, ModShift, Zenon
  <2>3. ((p + n) + n) - h < need
    BY <1>1, <2>2, Zenon
  <2> QED
    BY <1>3, <2>3
<1> QED
  BY <1>2, <1>3

\* When an output writes over the header of the record being handled, one of
\* its records lies a turn beyond it.
LEMMA OutputOverHeader ==
  ASSUME IInv, HeaderInv, pc = "type", NEW size \in SampleSizes, KernelOutput(size),
         NEW r, r = rd, mem'[event] # mem[event]
  PROVE  Overwritten(r)'
<1>1. /\ pending = 0
      /\ head - tail + NeededCells(size) <= RingCells - 1
      /\ log' = log \o NewRecords(size)
      /\ mem' = [c \in Cells |->
                   LET d == (c - head) % RingCells
                   IN  IF d < NeededCells(size) THEN WrittenCell(d) ELSE mem[c]]
  BY Zenon DEF KernelOutput
<1>2. r \in 1 .. Len(log) /\ r \in Nat /\ log[r] \in Record
  BY HandledRecord, Zenon
<1>3. event \in Cells /\ event = log[r].pos % RingCells
  BY Zenon DEF HeaderInv, IInv, TypeOK
<1>4. ((event - head) % RingCells) < NeededCells(size)
  BY <1>1, <1>3, Zenon
<1> DEFINE p == log[r].pos
<1>5. /\ p \in Int /\ log[r].size \in Nat \ {0} /\ log[r].size < RingCells
      /\ tail = p + log[r].size
  <2>1. tail = EndOf(r) /\ log[r].size < RingCells
    BY Zenon, <1>2, RingOrder DEF HeaderInv
  <2>2. EndOf(r) = log[r].pos + log[r].size
    BY <1>2 DEF EndOf
  <2>3. log[r].pos \in Int /\ log[r].size \in Nat \ {0}
    BY <1>2 DEF Record
  <2> QED
    BY <2>1, <2>2, <2>3, Zenon
<1>6. tail <= head
  BY TailBehind, Zenon
<1>7. /\ log' \in Seq(Record)
      /\ NeededCells(size) \in Nat \ {0}
      /\ Len(log') = IF lost = 0 THEN Len(log) + 1 ELSE Len(log) + 2
      /\ \A i \in 1 .. Len(log) : log'[i] = log[i]
      /\ lost = 0 => /\ log'[Len(log) + 1].pos = head
                     /\ log'[Len(log) + 1].size = size
                     /\ NeededCells(size) = size
      /\ lost # 0 => /\ log'[Len(log) + 1].pos = head
                     /\ log'[Len(log) + 1].size = LostCells
                     /\ log'[Len(log) + 2].pos = head + LostCells
                     /\ log'[Len(log) + 2].size = size
                     /\ NeededCells(size) = LostCells + size
  BY Zenon, <1>1, NewLog
<1>8. /\ head \in Int /\ tail \in Int /\ RingCells \in Nat \ {0} /\ Len(log) \in Nat
      /\ size \in Nat /\ LostCells \in Nat
  BY NumberTypes, RingAssumption, Zenon DEF IInv
<1> HIDE DEF p
<1>9. (((p % RingCells) - head) % RingCells) < NeededCells(size)
  BY <1>3, <1>4, Zenon DEF p
<1>10. p < tail /\ tail - p < RingCells /\ NeededCells(size) \in Nat
  <2>1. PICK z \in Nat \ {0} : z < RingCells /\ tail = p + z
    BY <1>5, Zenon
  <2>2. p \in Int /\ RingCells \in Int /\ NeededCells(size) \in Nat
    BY <1>5, <1>7, <1>8
  <2> QED
    BY <2>1, <2>2
<1>11. head <= p + RingCells /\ p + RingCells < head + NeededCells(size)
  BY Zenon, <1>1, <1>5, <1>6, <1>8, <1>9, <1>10, CellPosition
<1>12. log'[r].pos = p
  BY <1>2, <1>7, Zenon DEF p
<1>13. PICK j \in 1 .. Len(log') : /\ log'[j].pos <= p + RingCells
                                   /\ p + RingCells < log'[j].pos + log'[j].size
  <2>1. CASE lost = 0
    BY <1>7, <1>8, <1>11, <2>1
  <2>2. CASE lost # 0 /\ p + RingCells < head + LostCells
    <3>1. Len(log) + 1 \in 1 .. Len(log')
      BY <1>7, <1>8, <2>2
    <3>2. /\ log'[Len(log) + 1].pos <= p + RingCells
          /\ p + RingCells < log'[Len(log) + 1].pos + log'[Len(log) + 1].size
      BY Zenon, <1>5, <1>7, <1>8, <1>11, <2>2
    <3> QED
      BY <3>1, <3>2, Zenon
  <2>3. CASE lost # 0 /\ p + RingCells >= head + LostCells
    <3>1. Len(log) + 2 \in 1 .. Len(log')
      BY SMTT(20), <1>7, <1>8, <2>3
    <3>2. /\ log'[Len(log) + 2].pos <= p + RingCells
          /\ p + RingCells < log'[Len(log) + 2].pos + log'[Len(log) + 2].size
      <4>1. PICK n : n = NeededCells(size)
        BY Zenon
      <4>2. /\ log'[Len(log) + 2].pos = head + LostCells /\ log'[Len(log) + 2].size = size
            /\ n = LostCells + size
        BY <1>7, <2>3, <4>1, Zenon
      <4>3. p + RingCells < head + n
        BY <1>11, <4>1, Zenon
      <4> QED
        BY <1>5, <1>8, <2>3, <4>2, <4>3
    <3> QED
      BY <3>1, <3>2, Zenon
  <2>4. p + RingCells < head + LostCells \/ p + RingCells >= head + LostCells
    <3>1. p \in Int /\ RingCells \in Int /\ head \in Int /\ LostCells \in Int
      BY <1>5, <1>8
    <3> QED
      BY SMTT(20), <3>1
  <2> QED
    BY <2>1, <2>2, <2>3, <2>4, Zenon
<1> QED
  BY <1>12, <1>13, Zenon DEF Overwritten

\* A record of an output that fits is smaller than the ring.
LEMMA OutputSizes ==
  ASSUME IInv, HeaderInv, NEW size \in SampleSizes, KernelOutput(size),
         NEW i \in 1 .. Len(log')
  PROVE  log'[i].size < RingCells
<1>1. /\ log \in Seq(Record) /\ Len(log) \in Nat /\ head \in Nat /\ tail \in Nat
      /\ RingCells \in Nat /\ size \in Nat /\ LostCells \in Nat
  BY NumberTypes, RingAssumption, Zenon DEF IInv, TypeOK
<1>2. CASE i \in 1 .. Len(log)
  <2>1. log'[i] = log[i]
    BY <1>2, OutputLog, Zenon
  <2> QED
    BY <1>2, <2>1, Zenon DEF HeaderInv
<1>3. CASE i \notin 1 .. Len(log)
  <2>1. log' # log
    BY <1>3, Zenon
  <2>2. /\ log' = log \o NewRecords(size) /\ pending = 0
        /\ head - tail + NeededCells(size) <= RingCells - 1
    BY <2>1, Zenon DEF KernelOutput
  <2>3. tail <= head
    BY TailBehind, Zenon
  <2>4. CASE lost = 0
    <3>1. /\ Len(log') = Len(log) + 1 /\ log'[Len(log) + 1].size = size
          /\ NeededCells(size) = size
      BY <2>2, <2>4, NewLog, Zenon
    <3>2. i = Len(log) + 1
      BY <1>1, <1>3, <3>1
    <3> QED
      BY <1>1, <2>2, <2>3, <3>1, <3>2
  <2>5. CASE lost # 0
    <3>1. /\ Len(log') = Len(log) + 2
          /\ log'[Len(log) + 1].size = LostCells /\ log'[Len(log) + 2].size = size
          /\ NeededCells(size) = LostCells + size
      BY <2>2, <2>5, NewLog, Zenon
    <3>2. i = Len(log) + 1 \/ i = Len(log) + 2
      BY <1>1, <1>3, <3>1
    <3>3. size < RingCells /\ LostCells < RingCells
      BY <1>1, <2>2, <2>3, <3>1
    <3> QED
      BY <3>1, <3>2, <3>3, Zenon
  <2> QED
    BY <2>4, <2>5, Zenon
<1> QED
  BY <1>2, <1>3, Zenon

\* An output leaves the header of the released record or overwrites its cell.
LEMMA OutputHeader ==
  ASSUME IInv, HeaderInv, NEW size \in SampleSizes, KernelOutput(size)
  PROVE  HeaderInv'
<1>1. /\ Len(log) \in Nat /\ Len(log') \in Nat /\ Len(log) <= Len(log')
      /\ \A i \in 1 .. Len(log) : log'[i] = log[i]
  BY OutputLog, NumberTypes, Zenon DEF IInv
<1>2. UNCHANGED taskVars
  BY Zenon DEF KernelOutput
<1>3. \A i \in 1 .. Len(log') : log'[i].size < RingCells
  BY OutputSizes, Zenon
<1>4. Handled' = Handled /\ Handled <= Len(log) /\ Handled \in Int
  <2>1. Handled \in 0 .. Len(log)
    BY Zenon, HandledInLog
  <2>2. Len(log) \in Nat
    BY Zenon, NumberTypes DEF IInv
  <2>3. Handled' = Handled
    BY <1>2, Zenon DEF taskVars, Handled
  <2> QED
    BY <2>1, <2>2, <2>3
<1>5. ASSUME NEW i \in misread'
      PROVE  i \in 1 .. Handled' /\ Overwritten(i)'
  <2>1. i \in 1 .. Handled /\ Overwritten(i)
    BY <1>2, <1>5, Zenon DEF taskVars, HeaderInv
  <2>2. i \in 1 .. Len(log)
    BY <1>1, <1>4, <2>1
  <2>3. Overwritten(i)'
    BY <1>1, <2>1, <2>2, OverwrittenStays, Zenon
  <2> QED
    BY <1>4, <2>1, <2>3, Zenon
<1>6. ASSUME pc' = "type"
      PROVE  /\ event' = log'[rd'].pos % RingCells
             /\ mem'[event'] = <<rd', 0>> \/ Overwritten(rd)'
  <2>1. pc = "type" /\ event' = event /\ rd' = rd
    BY <1>2, <1>6, Zenon DEF taskVars
  <2>2. PICK r : r = rd
    BY Zenon
  <2>3. r \in 1 .. Len(log) /\ log'[r] = log[r]
    BY <1>1, <2>1, <2>2, HandledRecord, Zenon
  <2>4. event = log[r].pos % RingCells /\ (mem[event] = <<r, 0>> \/ Overwritten(r))
    BY <2>1, <2>2, Zenon DEF HeaderInv
  <2>5. mem'[event] = <<r, 0>> \/ Overwritten(r)'
    <3>1. CASE Overwritten(r)
      BY <1>1, <2>3, <3>1, OverwrittenStays, Zenon
    <3>2. CASE mem'[event] # mem[event]
      BY <2>1, <2>2, <3>2, OutputOverHeader, Zenon
    <3> QED
      BY Zenon, <2>4, <3>1, <3>2
  <2>6. Overwritten(r)' => Overwritten(rd)'
    BY <2>1, <2>2, Zenon DEF Overwritten
  <2> QED
    BY Zenon, <2>1, <2>2, <2>3, <2>4, <2>5, <2>6
<1> QED
  BY <1>3, <1>5, <1>6, Zenon DEF HeaderInv

\* What the type that read() sees in the ring says about the record.
LEMMA TypeSeen ==
  ASSUME IInv, HeaderInv, pc = "type", NEW type \in TypesAt(mem[event]), type # log[rd].type
  PROVE  Overwritten(rd)
<1>1. rd # 0
  BY HandledRecord
<1>2. mem[event] # <<rd, 0>>
  BY <1>1 DEF TypesAt
<1> QED
  BY <1>2, Zenon DEF HeaderInv

\* Every step keeps the header where it is, or overwritten.
LEMMA HeaderInvNext == IInv /\ BatchInv /\ HeaderInv /\ [Next]_vars => HeaderInv'
<1> SUFFICES ASSUME IInv, BatchInv, HeaderInv, [Next]_vars
             PROVE  HeaderInv'
  BY Zenon
<1>1. CASE \E size \in SampleSizes : KernelOutput(size)
  BY <1>1, OutputHeader, Zenon
<1>2. CASE ReadType
  <2>1. /\ pc = "type" /\ pc' # "type" /\ log' = log /\ Handled' = rd /\ Handled = rd - 1
        /\ rd \in Nat /\ rd \in 1 .. rd
    BY SMTT(20), <1>2, TypeStep, NumberTypes DEF kernelVars, IInv
  <2>2. misread' = misread \/ (misread' = misread \cup {rd} /\ Overwritten(rd))
    BY <1>2, <2>1, TypeStep, TypeSeen, Zenon
  <2>3. ASSUME NEW i \in misread'
        PROVE  i \in 1 .. rd /\ Overwritten(i)
    <3>1. CASE i \in misread
      BY <2>1, <3>1 DEF HeaderInv
    <3>2. CASE i = rd /\ Overwritten(rd)
      BY <2>1, <3>2, Zenon
    <3> QED
      BY <2>2, <2>3, <3>1, <3>2, Zenon
  <2>4. \A i : Overwritten(i)' = Overwritten(i)
    BY <2>1, Zenon DEF Overwritten
  <2> QED
    BY <2>1, <2>3, <2>4, Zenon DEF HeaderInv
<1>3. CASE ReadRelease
  <2>1. /\ pc = "release" /\ pc' = "type" /\ rd' = rd + 1 /\ UNCHANGED <<mem, log, event, misread>>
    BY <1>3, Zenon DEF ReadRelease, kernelVars
  <2>2. Handled' = Handled
    BY <2>1, NumberTypes DEF Handled, IInv
  <2>3. /\ log[rd + 1].pos = tail /\ mem[tail % RingCells] = <<rd + 1, 0>>
        /\ event = tail % RingCells
    BY Zenon, <2>1, NextHeader DEF IInv, RingInv
  <2>4. \A i : Overwritten(i)' = Overwritten(i)
    BY <2>1, Zenon DEF Overwritten
  <2> QED
    BY <2>1, <2>2, <2>3, <2>4, Zenon DEF HeaderInv
<1>4. ASSUME UNCHANGED <<mem, log, misread>>, Handled' = Handled,
             pc' # "type" \/ UNCHANGED <<pc, event, rd>>
      PROVE  HeaderInv'
  <2>1. \A i : Overwritten(i)' = Overwritten(i)
    BY <1>4, Zenon DEF Overwritten
  <2>2. pc' = "type" => Overwritten(rd)' = Overwritten(rd)
    BY <1>4, Zenon DEF Overwritten
  <2> QED
    BY <1>4, <2>1, <2>2, Zenon DEF HeaderInv
<1>5. CASE ~ReadType /\ (PollReady \/ PollError \/ SendBatch \/ ReadLoad \/ ReadCopy)
  <2>1. UNCHANGED <<mem, log, misread>> /\ pc' # "type"
    BY Zenon, <1>5 DEF PollReady, PollError, SendBatch, ReadLoad, ReadCopy, kernelVars
  <2>2. Handled' = Handled
    BY <1>5, QuietStep, Zenon
  <2> QED
    BY <1>4, <2>1, <2>2, Zenon
<1>6. CASE KernelPublish \/ EpollNotify \/ DriverShutdown \/ DropReceiver \/ UNCHANGED vars
  <2>1. UNCHANGED taskVars /\ UNCHANGED <<mem, log>>
    BY <1>6, Zenon DEF KernelPublish, EpollNotify, DriverShutdown, DropReceiver, vars, kernelVars
  <2>2. UNCHANGED <<pc, event, rd, misread>> /\ Handled' = Handled
    BY <2>1, Zenon DEF taskVars, Handled
  <2> QED
    BY <1>4, <2>1, <2>2, Zenon
<1> QED
  BY <1>1, <1>2, <1>3, <1>5, <1>6, Zenon DEF Next, Task

-----------------------------------------------------------------------------
(* What is delivered, and what is counted.                                 *)

OrderInv ==
  /\ \A j, k \in 1 .. Len(Delivered) : j < k => Delivered[j] < Delivered[k]
  /\ \A j \in 1 .. Len(Delivered) : Delivered[j] \in 1 .. Handled
  /\ \A i \in 1 .. Handled : i \notin misread =>
       (log[i].type = "sample" <=> \E j \in 1 .. Len(Delivered) : Delivered[j] = i)

\* The samples accounted for by the first n records.
CountOf(n) == IF n = 0 THEN 0 ELSE log[n].upto

CountInv ==
  /\ \A i \in 1 .. Len(log) : /\ log[i].upto = CountOf(i - 1) + log[i].count
                              /\ log[i].type = "sample" => log[i].count = 1
  /\ CountOf(Len(log)) + lost = nOut
  /\ misread = {} => Len(Delivered) + reported = CountOf(Handled)

\* What is handled and delivered has its type.
LEMMA HandledRange ==
  ASSUME IInv
  PROVE  Handled \in 0 .. Len(log) /\ Delivered \in Seq(Nat)
<1>1. Delivered \in Seq(Nat)
  BY ConcatProperties, Zenon DEF Delivered, IInv, TypeOK
<1> QED
  BY Zenon, <1>1, HandledInLog

\* The record that is handed over is the next one.
LEMMA TypeOrder ==
  ASSUME IInv, HeaderInv, OrderInv, ReadType
  PROVE  OrderInv'
<1>1. /\ Handled = rd - 1 /\ Handled' = rd /\ rd \in 1 .. Len(log) /\ log' = log
  BY TypeStep, Zenon DEF kernelVars
<1>2. rd \in Nat \ {0} /\ Len(log) \in Nat /\ Delivered \in Seq(Nat) /\ Len(Delivered) \in Nat
  BY <1>1, NumberTypes, HandledRange, LenProperties DEF IInv
<1>3. PICK type :
        /\ Delivered' = IF type = "sample" THEN Append(Delivered, rd) ELSE Delivered
        /\ misread' = IF type = log[rd].type THEN misread ELSE misread \cup {rd}
  BY Zenon, TypeStep
<1>4. \A i \in misread : i # rd
  BY <1>1, <1>2 DEF HeaderInv
<1>5. CASE type = "sample"
  <2>1. /\ Len(Delivered') = Len(Delivered) + 1
        /\ \A j \in 1 .. Len(Delivered) : Delivered'[j] = Delivered[j]
        /\ Delivered'[Len(Delivered) + 1] = rd
    BY <1>2, <1>3, <1>5, AppendProperties
  <2>2. ASSUME NEW j \in 1 .. Len(Delivered')
        PROVE  Delivered'[j] \in 1 .. rd /\ (j \in 1 .. Len(Delivered) => Delivered'[j] < rd)
    <3>1. CASE j \in 1 .. Len(Delivered)
      BY SMTT(20), <1>1, <1>2, <2>1, <3>1 DEF OrderInv
    <3>2. CASE j = Len(Delivered) + 1
      BY <1>2, <2>1, <3>2
    <3> QED
      BY SMTT(20), <1>2, <2>1, <3>1, <3>2
  <2>3. ASSUME NEW j \in 1 .. Len(Delivered'), NEW k \in 1 .. Len(Delivered'), j < k
        PROVE  Delivered'[j] < Delivered'[k]
    <3>1. j \in 1 .. Len(Delivered)
      BY <1>2, <2>1, <2>3
    <3>2. CASE k \in 1 .. Len(Delivered)
      BY <2>1, <2>3, <3>1, <3>2, Zenon DEF OrderInv
    <3>3. CASE k = Len(Delivered) + 1
      BY <2>1, <2>2, <3>1, <3>3, Zenon
    <3> QED
      BY <1>2, <2>1, <3>2, <3>3
  <2>4. ASSUME NEW i \in 1 .. rd, i \notin misread'
        PROVE  log[i].type = "sample" <=> \E j \in 1 .. Len(Delivered') : Delivered'[j] = i
    <3>1. CASE i = rd
      <4>1. log[i].type = "sample"
        BY <1>3, <1>5, <2>4, <3>1, Zenon
      <4> QED
        BY <1>2, <2>1, <3>1, <4>1
    <3>2. CASE i # rd
      <4>1. i \in 1 .. Handled /\ i \notin misread
        BY <1>1, <1>2, <1>3, <2>4, <3>2
      <4>2. log[i].type = "sample" <=> \E j \in 1 .. Len(Delivered) : Delivered[j] = i
        BY <4>1, Zenon DEF OrderInv
      <4>3. ASSUME NEW j \in 1 .. Len(Delivered'), Delivered'[j] = i
            PROVE  j \in 1 .. Len(Delivered) /\ Delivered[j] = i
        BY <1>2, <2>1, <3>2, <4>3
      <4>4. \A j \in 1 .. Len(Delivered) : j \in 1 .. Len(Delivered') /\ Delivered'[j] = Delivered[j]
        BY <1>2, <2>1
      <4> QED
        BY <4>2, <4>3, <4>4, Zenon
    <3> QED
      BY <3>1, <3>2, Zenon
  <2> QED
    BY <1>1, <2>2, <2>3, <2>4, Zenon DEF OrderInv
<1>6. CASE type # "sample"
  <2>1. Delivered' = Delivered
    BY <1>3, <1>6, Zenon
  <2>2. \A j \in 1 .. Len(Delivered) : Delivered[j] \in 1 .. rd /\ Delivered[j] # rd
    BY <1>1, <1>2 DEF OrderInv
  <2>3. ASSUME NEW i \in 1 .. rd, i \notin misread'
        PROVE  log[i].type = "sample" <=> \E j \in 1 .. Len(Delivered) : Delivered[j] = i
    <3>1. CASE i = rd
      BY <1>3, <1>6, <2>2, <2>3, <3>1, Zenon
    <3>2. CASE i # rd
      <4>1. i \in 1 .. Handled /\ i \notin misread
        BY <1>1, <1>2, <1>3, <2>3, <3>2
      <4> QED
        BY <4>1, Zenon DEF OrderInv
    <3> QED
      BY <3>1, <3>2, Zenon
  <2> QED
    BY <1>1, <2>1, <2>2, <2>3, Zenon DEF OrderInv
<1> QED
  BY <1>5, <1>6, Zenon

\* A record that is handled is counted as a sample or as lost ones.
LEMMA TypeCount ==
  ASSUME IInv, HeaderInv, CountInv, ReadType
  PROVE  CountInv'
<1>1. /\ pc = "type" /\ Handled = rd - 1 /\ Handled' = rd /\ rd \in 1 .. Len(log)
      /\ UNCHANGED <<log, lost, nOut>>
  BY TypeStep, Zenon DEF kernelVars
<1>2. /\ rd \in Nat \ {0} /\ Len(log) \in Nat /\ Delivered \in Seq(Nat) /\ Len(Delivered) \in Nat
      /\ reported \in Nat /\ log[rd] \in Record
  <2>1. /\ log \in Seq(Record) /\ reported \in Nat /\ Len(log) \in Nat /\ Delivered \in Seq(Nat)
    BY Zenon, NumberTypes, HandledRange DEF IInv, TypeOK
  <2>2. log[rd] \in Record
    BY Zenon, <1>1, <2>1, ElementOfSeq
  <2>3. Len(Delivered) \in Nat
    BY Zenon, <2>1, LenProperties
  <2>4. rd \in Nat \ {0}
    BY <1>1, <2>1
  <2> QED
    BY Zenon, <2>1, <2>2, <2>3, <2>4
<1>3. PICK type :
        /\ Delivered' = IF type = "sample" THEN Append(Delivered, rd) ELSE Delivered
        /\ reported' = IF type = "lost" /\ type = log[rd].type
                       THEN reported + log[rd].count ELSE reported
        /\ misread' = IF type = log[rd].type THEN misread ELSE misread \cup {rd}
  BY TypeStep, Zenon
<1>4. \A n : CountOf(n)' = CountOf(n)
  BY <1>1, Zenon DEF CountOf
<1>5. ASSUME misread' = {}
      PROVE  Len(Delivered') + reported' = CountOf(rd)
  <2>1. misread = {} /\ type = log[rd].type
    BY <1>3, <1>5, Zenon
  <2>2. Len(Delivered) + reported = CountOf(rd - 1)
    BY <1>1, <2>1, Zenon DEF CountInv
  <2>3. CountOf(rd) = CountOf(rd - 1) + log[rd].count
    BY <1>1, <1>2, Zenon DEF CountInv, CountOf
  <2>4. CASE type = "sample"
    <3>1. Len(Delivered') = Len(Delivered) + 1 /\ reported' = reported /\ log[rd].count = 1
      <4>1. Delivered' = Append(Delivered, rd) /\ reported' = reported
        BY <1>3, <2>1, <2>4, Zenon
      <4>2. Len(Append(Delivered, rd)) = Len(Delivered) + 1
        BY <1>2, AppendProperties, Zenon
      <4>3. log[rd].count = 1
        BY Zenon, <1>1, <2>1, <2>4 DEF CountInv
      <4> QED
        BY Zenon, <4>1, <4>2, <4>3
    <3> QED
      BY <1>2, <2>2, <2>3, <3>1
  <2>5. CASE type = "lost"
    <3>1. Delivered' = Delivered /\ reported' = reported + log[rd].count
      BY Zenon, <1>3, <2>1, <2>5
    <3>2. log[rd].count \in Nat
      BY <1>2, Zenon DEF Record
    <3> QED
      BY SMTT(20), <1>2, <2>2, <2>3, <3>1, <3>2
  <2> QED
    BY <1>2, <2>1, <2>4, <2>5, Zenon DEF Record
<1> QED
  BY Zenon, <1>1, <1>4, <1>5 DEF CountInv

\* Records are added behind the handled ones.
LEMMA QuietOrder ==
  ASSUME IInv, OrderInv, Delivered' = Delivered, Handled' = Handled, misread' = misread,
         \A i \in 1 .. Len(log) : log'[i] = log[i]
  PROVE  OrderInv'
<1>1. \A i \in 1 .. Handled : i \in 1 .. Len(log)
  BY HandledRange, NumberTypes DEF IInv
<1>2. \A i \in 1 .. Handled : log'[i] = log[i]
  BY <1>1, Zenon
<1> QED
  BY <1>2, Zenon DEF OrderInv

\* A sample is counted when it is written, or when it is dropped.
LEMMA OutputCount ==
  ASSUME IInv, CountInv, NEW size \in SampleSizes, KernelOutput(size),
         Delivered' = Delivered, Handled' = Handled, UNCHANGED <<reported, misread>>
  PROVE  CountInv'
<1>1. /\ Len(log) \in Nat /\ Len(log') \in Nat /\ lost \in Nat /\ nOut \in Nat /\ nOut' = nOut + 1
      /\ \A i \in 1 .. Len(log) : log'[i] = log[i]
      /\ Handled \in 0 .. Len(log)
  BY Zenon, OutputLog, NumberTypes, HandledRange DEF IInv, TypeOK, KernelOutput
<1>2. \A n \in 0 .. Len(log) : CountOf(n)' = CountOf(n)
  BY <1>1 DEF CountOf
<1>3. misread' = {} => Len(Delivered') + reported' = CountOf(Handled)'
  <2>1. PICK h : h = Handled
    BY Zenon
  <2>2. CountOf(h)' = CountOf(h) /\ CountOf(Handled)' = CountOf(h)'
    BY <1>1, <1>2, <2>1, Zenon DEF CountOf
  <2> QED
    BY <2>1, <2>2, Zenon DEF CountInv
<1>4. PICK n : n = Len(log)
  BY Zenon
<1>5. /\ n \in Nat /\ CountOf(n)' = CountOf(n) /\ CountOf(n) + lost = nOut
      /\ CountOf(n) \in Nat
  <2>1. n # 0 => log[n] \in Record
    BY <1>1, <1>4, ElementOfSeq DEF IInv, TypeOK
  <2> QED
    BY <1>1, <1>2, <1>4, <2>1 DEF CountInv, CountOf, Record
<1>6. CASE log' = log /\ lost' = lost + 1
  <2>1. CountOf(Len(log))' + lost' = nOut'
    <3>1. CountOf(Len(log))' = CountOf(n)
      BY <1>4, <1>6, Zenon DEF CountOf
    <3> QED
      BY <1>1, <1>5, <1>6, <3>1
  <2>2. \A i \in 1 .. Len(log') : /\ log'[i].upto = CountOf(i - 1)' + log'[i].count
                                  /\ log'[i].type = "sample" => log'[i].count = 1
    BY <1>6, Zenon DEF CountInv, CountOf
  <2> QED
    BY Zenon, <1>3, <2>1, <2>2 DEF CountInv
<1>7. CASE log' = log \o NewRecords(size) /\ lost' = 0
  <2>1. pending = 0
    BY Zenon DEF KernelOutput
  <2>2. /\ Len(log') = IF lost = 0 THEN n + 1 ELSE n + 2
        /\ lost = 0 => /\ log'[n + 1].count = 1
                       /\ log'[n + 1].upto = nOut + 1
        /\ lost # 0 => /\ log'[n + 1].type = "lost"
                       /\ log'[n + 1].count = lost
                       /\ log'[n + 1].upto = nOut
                       /\ log'[n + 2].count = 1
                       /\ log'[n + 2].upto = nOut + 1
    BY <1>4, <1>7, <2>1, NewLog, Zenon
  <2>3. CountOf(Len(log))' = nOut + 1
    BY SMTT(20), <1>5, <2>2 DEF CountOf
  <2>4. ASSUME NEW i \in 1 .. Len(log')
        PROVE  /\ log'[i].upto = CountOf(i - 1)' + log'[i].count
               /\ log'[i].type = "sample" => log'[i].count = 1
    <3>1. CASE i \in 1 .. n
      <4>1. log'[i] = log[i] /\ CountOf(i - 1)' = CountOf(i - 1)
        BY SMTT(20), <1>1, <1>2, <1>4, <3>1
      <4> QED
        BY <1>4, <3>1, <4>1, Zenon DEF CountInv
    <3>2. CASE i = n + 1
      <4>1. CountOf(i - 1)' = CountOf(n)
        BY SMTT(20), <1>5, <3>2
      <4>2. CASE lost = 0
        BY SMTT(20), <1>1, <1>5, <2>2, <3>2, <4>1, <4>2
      <4>3. CASE lost # 0
        BY <1>1, <1>5, <2>2, <3>2, <4>1, <4>3, Zenon
      <4> QED
        BY <4>2, <4>3, Zenon
    <3>3. CASE i = n + 2 /\ lost # 0
      <4>1. CountOf(i - 1)' = nOut
        BY SMTT(20), <1>5, <2>2, <3>3 DEF CountOf
      <4> QED
        BY <1>1, <2>2, <3>3, <4>1, ZenonT(30)
    <3> QED
      BY <1>5, <2>2, <3>1, <3>2, <3>3
  <2>5. CountOf(Len(log))' + lost' = nOut'
    BY <1>1, <1>7, <2>3
  <2> QED
    BY <1>3, <2>4, <2>5, Zenon DEF CountInv
<1> QED
  BY <1>6, <1>7, Zenon DEF KernelOutput

DInv == HeaderInv /\ OrderInv /\ CountInv

\* Every step keeps the invariant.
LEMMA DInvNext == IInv /\ BatchInv /\ DInv /\ [Next]_vars => DInv'
<1> SUFFICES ASSUME IInv, BatchInv, DInv, [Next]_vars
             PROVE  DInv'
  BY Zenon
<1>1. HeaderInv'
  BY HeaderInvNext, Zenon DEF DInv
<1>2. CASE ReadType
  BY <1>1, <1>2, TypeOrder, TypeCount, Zenon DEF DInv
<1>3. CASE ~ReadType
  <2>1. Delivered' = Delivered /\ Handled' = Handled /\ UNCHANGED <<reported, misread>>
    BY <1>3, QuietStep, Zenon
  <2>2. ASSUME NEW size \in SampleSizes, KernelOutput(size)
        PROVE  OrderInv' /\ CountInv'
    BY Zenon, <2>1, <2>2, OutputLog, OutputCount, QuietOrder DEF DInv
  <2>3. CASE UNCHANGED <<log, lost, nOut>>
    <3>1. OrderInv'
      BY <2>1, <2>3, QuietOrder, Zenon DEF DInv
    <3>2. CountInv'
      BY <2>1, <2>3, Zenon DEF DInv, CountInv, CountOf
    <3> QED
      BY <1>1, <3>1, <3>2, Zenon DEF DInv
  <2>4. \/ \E size \in SampleSizes : KernelOutput(size)
        \/ UNCHANGED <<log, lost, nOut>>
    <3>1. CASE KernelPublish \/ EpollNotify \/ DriverShutdown \/ DropReceiver \/ UNCHANGED vars
      BY <3>1, Zenon DEF KernelPublish, EpollNotify, DriverShutdown, DropReceiver, vars, kernelVars
    <3>2. CASE Task
      BY <3>2, Zenon DEF Task, PollReady, PollError, SendBatch, ReadLoad, ReadCopy, ReadRelease,
                  ReadType, kernelVars
    <3> QED
      BY <3>1, <3>2, Zenon DEF Next
  <2> QED
    BY <1>1, <2>2, <2>3, <2>4, Zenon DEF DInv
<1> QED
  BY <1>2, <1>3, Zenon

\* An empty ring satisfies the invariant.
LEMMA InitDInv == Init => DInv
<1> SUFFICES ASSUME Init PROVE DInv
  BY Zenon
<1>1. /\ log = <<>> /\ sent = <<>> /\ batch = <<>> /\ misread = {} /\ pc = "poll" /\ rd = 0
      /\ lost = 0 /\ nOut = 0 /\ reported = 0
  BY Zenon DEF Init
<1>2. Len(log) = 0 /\ Delivered = <<>> /\ Len(Delivered) = 0 /\ Handled = 0
  BY <1>1 DEF Delivered, Handled
<1>3. HeaderInv
  BY <1>1, <1>2 DEF HeaderInv
<1>4. OrderInv
  BY SMTT(20), <1>1, <1>2 DEF OrderInv
<1>5. CountInv
  <2>1. CountOf(0) = 0
    BY Zenon DEF CountOf
  <2> QED
    BY <1>1, <1>2, <2>1 DEF CountInv
<1> QED
  BY Zenon, <1>3, <1>4, <1>5 DEF DInv

\* With the ring drained every record has been handled.
LEMMA Drained ==
  ASSUME IInv, tail = head, pending = 0
  PROVE  rd = Len(log)
<1>1. /\ rd \in Nat /\ Len(log) \in Nat /\ rd <= Len(log) /\ head \in Nat
      /\ EndOf(rd) = EndOf(Len(log))
  <2>1. /\ rd \in Nat /\ Len(log) \in Nat /\ head \in Nat /\ pub \in Nat
    BY Zenon, NumberTypes DEF IInv
  <2>2. /\ pub <= Len(log) /\ rd <= pub
        /\ tail = EndOf(rd) /\ head + pending = EndOf(Len(log))
    BY Zenon, RingOrder
  <2> QED
    BY <2>1, <2>2
<1>2. ASSUME rd < Len(log)
      PROVE  FALSE
  <2>1. rd + 1 \in 1 .. Len(log) /\ rd + 1 \in 0 .. Len(log) /\ Len(log) \in 0 .. Len(log)
    BY <1>1, <1>2
  <2>2. log[rd + 1].pos \in Nat /\ log[rd + 1].size \in Nat \ {0}
    <3>1. log[rd + 1] \in Record
      BY <2>1, ElementOfSeq, Zenon DEF IInv, TypeOK
    <3> QED
      BY <3>1, Zenon DEF Record
  <2>3. log[rd + 1].pos = EndOf(rd)
    <3>1. log[rd + 1].pos = EndOf((rd + 1) - 1)
      BY Zenon, <2>1, RingOrder
    <3> QED
      BY <1>1, <3>1
  <2>4. EndOf(rd + 1) = log[rd + 1].pos + log[rd + 1].size /\ EndOf(rd + 1) <= EndOf(Len(log))
    <3>1. EndOf(rd + 1) <= EndOf(Len(log))
      <4>1. rd + 1 <= Len(log)
        BY <1>1, <2>1
      <4> QED
        BY Zenon, <2>1, <4>1, RingOrder
    <3>2. EndOf(rd + 1) = log[rd + 1].pos + log[rd + 1].size
      BY <1>1 DEF EndOf
    <3> QED
      BY Zenon, <3>1, <3>2
  <2> QED
    BY <1>1, <2>2, <2>3, <2>4
<1> QED
  BY <1>1, <1>2

\* The invariant implies the property.
LEMMA DInvDelivered == IInv /\ BatchInv /\ DInv => DeliveredInOrder
<1> SUFFICES ASSUME IInv, BatchInv, DInv
             PROVE  DeliveredInOrder
  BY Zenon
<1>1. \A j, k \in 1 .. Len(Delivered) : j < k => Delivered[j] < Delivered[k]
  BY Zenon DEF DInv, OrderInv
<1>2. {Delivered[j] : j \in 1 .. Len(Delivered)} \ misread
        = {i \in 1 .. Handled : log[i].type = "sample"} \ misread
  <2>1. ASSUME NEW j \in 1 .. Len(Delivered), Delivered[j] \notin misread
        PROVE  Delivered[j] \in 1 .. Handled /\ log[Delivered[j]].type = "sample"
    BY <2>1, Zenon DEF DInv, OrderInv
  <2>2. ASSUME NEW i \in 1 .. Handled, log[i].type = "sample", i \notin misread
        PROVE  \E j \in 1 .. Len(Delivered) : Delivered[j] = i
    BY <2>2, Zenon DEF DInv, OrderInv
  <2> QED
    BY <2>1, <2>2
<1>3. \A i \in misread : \E j \in 1 .. Len(log) :
        /\ log[j].pos <= log[i].pos + RingCells
        /\ log[i].pos + RingCells < log[j].pos + log[j].size
  BY Zenon DEF DInv, HeaderInv, Overwritten
<1>4. ASSUME pc = "poll", tail = head, pending = 0, misread = {}
      PROVE  nOut = Len(sent) + reported + lost
  <2>1. Handled = Len(log)
    BY <1>4, Drained, Zenon DEF Handled
  <2>2. Delivered = sent /\ Len(sent) \in Nat /\ reported \in Nat /\ lost \in Nat
    BY <1>4, LenProperties DEF Delivered, BatchInv, IInv, TypeOK
  <2>3. Len(Delivered) + reported = CountOf(Len(log)) /\ CountOf(Len(log)) + lost = nOut
    BY Zenon, <1>4, <2>1 DEF DInv, CountInv
  <2> QED
    BY <2>2, <2>3, Zenon
<1> QED
  BY <1>1, <1>2, <1>3, <1>4, Zenon DEF DeliveredInOrder, Delivered

\* For every ring and any samples, nothing is delivered twice or out of order,
\* nothing is lost unless the kernel dropped it or its header was overwritten in
\* the window between the release and the reading of the type, and every drop
\* is accounted for.
THEOREM DeliveryCorrect == Spec => []DeliveredInOrder
<1>1. Init => BatchInv
  BY Zenon DEF Init, BatchInv
<1>2. BatchInv /\ [Next]_vars => BatchInv'
  BY BatchInvNext, Zenon
<1> QED
  BY <1>1, <1>2, InitIInv, NextIInv, InitDInv, DInvNext, DInvDelivered, PTL DEF Spec

=============================================================================
