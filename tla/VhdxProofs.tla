----------------------------- MODULE VhdxProofs -----------------------------
(***************************************************************************)
(* Proofs about VhdxCrash, for any length of the log ring, any entries and *)
(* any number of sessions of the writer: whenever it stopped, the image    *)
(* opens, and there is one sequence of log entries to find.                *)
(***************************************************************************)
EXTENDS VhdxCrash, FiniteInduction, TLAPS

-----------------------------------------------------------------------------
(* Positions in the ring.                                                  *)

\* A number is some rounds and a remainder.
LEMMA Remainder ==
  ASSUME NEW x \in Nat, NEW n \in Nat \ {0}
  PROVE  /\ x % n \in 0..(n - 1)
         /\ x \div n \in Nat
         /\ x = (n * (x \div n)) + (x % n)
         /\ x < n => x % n = x
<1>1. x % n \in 0..(n - 1)
  OBVIOUS
<1>2. x = (n * (x \div n)) + (x % n)
  OBVIOUS
<1>3. x \div n \in Nat
  OBVIOUS
<1>4. x < n => x % n = x
  OBVIOUS
<1> QED
  BY <1>1, <1>2, <1>3, <1>4

\* The remainder is the only such one.
LEMMA RemainderUnique ==
  ASSUME NEW n \in Nat \ {0}, NEW q \in Nat, NEW r \in 0..(n - 1)
  PROVE  ((n * q) + r) % n = r
  OBVIOUS

\* Stepping on from a wrapped position is wrapping the step.
LEMMA Wrapped ==
  ASSUME NEW x \in Nat, NEW i \in Nat, NEW n \in Nat \ {0}
  PROVE  ((x % n) + i) % n = (x + i) % n
<1> DEFINE q == x \div n
           r == x % n
           p == (r + i) \div n
           t == (r + i) % n
<1>1. q \in Nat /\ r \in 0..(n - 1) /\ x = (n * q) + r
  BY Remainder, Zenon
<1> HIDE DEF r
<1>2. p \in Nat /\ t \in 0..(n - 1) /\ r + i = (n * p) + t
  <2>1. r + i \in Nat
    BY <1>1
  <2> QED
    BY <2>1, Remainder, Zenon
<1> HIDE DEF q, p, t
<1>3. n * (q + p) = (n * q) + (n * p)
  BY <1>1, <1>2
<1>4. x + i = (n * (q + p)) + t /\ q + p \in Nat
  BY <1>1, <1>2, <1>3
<1>5. (x + i) % n = t
  BY <1>2, <1>4, RemainderUnique, Zenon
<1> QED
  BY <1>5 DEF t, r

\* Positions less than a round apart do not meet.
LEMMA Apart ==
  ASSUME NEW x \in Nat, NEW y \in Nat, NEW n \in Nat \ {0},
         x < y, y < x + n
  PROVE  x % n # y % n
<1> DEFINE q == x \div n
           r == x % n
           p == y \div n
<1> SUFFICES ASSUME y % n = r PROVE FALSE
  OBVIOUS
<1>1. q \in Nat /\ r \in 0..(n - 1) /\ x = (n * q) + r
  BY Remainder, Zenon
<1>2. p \in Nat /\ y = (n * p) + r
  BY Remainder, Zenon
<1> HIDE DEF q, r, p
<1>3. (n * p) - (n * q) = n * (p - q) /\ p - q \in Int
  BY <1>1, <1>2
<1>4. 0 < n * (p - q) /\ n * (p - q) < n
  BY <1>1, <1>2, <1>3
<1>5. CASE p - q <= 0
  BY <1>3, <1>4, <1>5
<1>6. CASE p - q >= 1
  BY <1>3, <1>4, <1>6
<1> QED
  BY <1>3, <1>5, <1>6

\* An offset of the ring needs no wrapping.
LEMMA InRing ==
  ASSUME NEW o \in 0..(LogSectors - 1)
  PROVE  (o + 0) % LogSectors = o /\ o % LogSectors = o
<1>1. o \in Nat /\ o < LogSectors /\ LogSectors \in Nat \ {0}
  BY LogAssumption
<1>2. o % LogSectors = o
  BY <1>1, Remainder
<1>3. o + 0 = o
  OBVIOUS
<1> QED
  BY <1>2, <1>3

-----------------------------------------------------------------------------
(* What the recursive functions compute, step by step.                     *)

\* The chain with its n-th entry, if there is one.
Link(entries, start, prev, n) ==
  LET at   == IF n = 1
                THEN start
                ELSE (LastEntry(prev).offset + LastEntry(prev).entry.length) % LogSectors
      next == {x \in EntryAt(entries, at) :
                 /\ n > 1 => x.entry.sequence = LastEntry(prev).entry.sequence + 1
                 /\ \A i \in DOMAIN prev : prev[i].offset # at}
  IN  IF Len(prev) < n - 1 \/ next = {}
        THEN prev
        ELSE Append(prev, CHOOSE x \in next : TRUE)

\* Chain goes from link to link; ReservedSectors adds up lengths.
Base(kind) == IF kind = "chain" THEN <<>> ELSE 0
Step(kind, a, b, prev, n) ==
  IF kind = "chain" THEN Link(a, b, prev, n) ELSE prev + a[n].entry.length
IsFold(f, kind, a, b, m) ==
  f = [n \in 0..m |-> IF n = 0 THEN Base(kind) ELSE Step(kind, a, b, f[n - 1], n)]

\* Chain, written as the recursion that it is.
LEMMA ChainUnfolds ==
  ASSUME NEW entries, NEW start
  PROVE  Chain(entries, start) =
           (CHOOSE f : IsFold(f, "chain", entries, start, Cardinality(entries)))
             [Cardinality(entries)]
  BY DEF Chain, IsFold, Base, Step, Link

\* The same for ReservedSectors.
LEMMA SumUnfoldsTo ==
  ReservedSectors =
    (CHOOSE f : IsFold(f, "sum", w.reserved, 0, Len(w.reserved)))[Len(w.reserved)]
  BY DEF ReservedSectors, IsFold, Base, Step

\* The recursion has a solution.
LEMMA FoldExists ==
  ASSUME NEW kind, NEW a, NEW b, NEW m \in Nat
  PROVE  \E f : IsFold(f, kind, a, b, m)
<1> DEFINE F(f, i) == IF i = 0 THEN Base(kind) ELSE Step(kind, a, b, f[i - 1], i)
           N == {k \in Nat : \E f : f = [i \in 0..k |-> F(f, i)]}
<1>1. 0 \in N
  <2> DEFINE h == [i \in 0..0 |-> Base(kind)]
  <2>1. h = [i \in 0..0 |-> F(h, i)]
    OBVIOUS
  <2> QED
    BY <2>1, Zenon
<1>2. ASSUME NEW k \in Nat, k \in N PROVE k + 1 \in N
  <2>1. PICK g : g = [i \in 0..k |-> F(g, i)]
    BY <1>2
  <2> DEFINE h == [i \in 0..(k + 1) |-> IF i \in 0..k THEN g[i] ELSE F(g, i)]
  <2>2. ASSUME NEW i \in 0..(k + 1) PROVE F(h, i) = F(g, i)
    BY <2>2
  <2>3. \A i \in 0..(k + 1) : h[i] = F(g, i)
    BY <2>1
  <2>4. h = [i \in 0..(k + 1) |-> F(h, i)]
    BY <2>2, <2>3
  <2> HIDE DEF h, F
  <2>5. \E f : f = [i \in 0..(k + 1) |-> F(f, i)]
    BY <2>4, Zenon
  <2>6. k + 1 \in Nat
    OBVIOUS
  <2> QED
    BY <2>5, <2>6, Zenon
<1>3. Nat \subseteq N
  BY <1>1, <1>2, NatInductive, Zenon
<1> HIDE DEF F
<1>4. \E f : f = [i \in 0..m |-> F(f, i)]
  BY <1>3, Zenon
<1> QED
  BY <1>4, Zenon DEF F, IsFold

\* What a solution holds.
LEMMA FoldSteps ==
  ASSUME NEW f, NEW kind, NEW a, NEW b, NEW m \in Nat, IsFold(f, kind, a, b, m)
  PROVE  f[0] = Base(kind) /\ \A i \in 1..m : f[i] = Step(kind, a, b, f[i - 1], i)
<1>1. \A i \in 0..m : f[i] = IF i = 0 THEN Base(kind) ELSE Step(kind, a, b, f[i - 1], i)
  BY Zenon DEF IsFold
<1> QED
  BY <1>1

\* Chain and its links.
LEMMA ChainLinks ==
  ASSUME NEW entries, NEW start, Cardinality(entries) \in Nat
  PROVE  \E f : /\ f[0] = <<>>
                /\ \A n \in 1..Cardinality(entries) : f[n] = Link(entries, start, f[n - 1], n)
                /\ Chain(entries, start) = f[Cardinality(entries)]
<1> DEFINE m == Cardinality(entries)
<1>1. PICK f : IsFold(f, "chain", entries, start, m) /\ Chain(entries, start) = f[m]
  <2>1. \E f : IsFold(f, "chain", entries, start, m)
    BY FoldExists
  <2> QED
    BY <2>1, ChainUnfolds, Zenon
<1>2. f[0] = Base("chain") /\ \A i \in 1..m : f[i] = Step("chain", entries, start, f[i - 1], i)
  BY <1>1, FoldSteps
<1> QED
  BY <1>1, <1>2 DEF Base, Step

-----------------------------------------------------------------------------
(* Chains of entries.                                                      *)

\* The entry y comes right behind x in the ring and in the numbering.
Behind(x, y) ==
  /\ y.offset = (x.offset + x.entry.length) % LogSectors
  /\ y.entry.sequence = x.entry.sequence + 1

\* s is a sequence of the entries, each behind the one before it.
Follows(s, entries) ==
  s \in Seq(entries) /\ \A i \in 1..(Len(s) - 1) : Behind(s[i], s[i + 1])

\* Appending to a sequence.
LEMMA AppendSeq ==
  ASSUME NEW S, NEW s \in Seq(S), NEW x \in S
  PROVE  /\ Append(s, x) \in Seq(S) /\ Len(Append(s, x)) = Len(s) + 1
         /\ Append(s, x)[Len(s) + 1] = x /\ \A i \in 1..Len(s) : Append(s, x)[i] = s[i]
  OBVIOUS

\* A link leaves the chain or lengthens it by an entry that comes behind.
LEMMA LinkIs ==
  ASSUME NEW entries, NEW start, NEW prev \in Seq(entries), NEW n \in Nat \ {0}
  PROVE  \/ Link(entries, start, prev, n) = prev
         \/ \E x \in entries : /\ Link(entries, start, prev, n) = Append(prev, x)
                               /\ Len(prev) >= n - 1
                               /\ n > 1 => Behind(LastEntry(prev), x)
<1> DEFINE at == IF n = 1 THEN start
                 ELSE (LastEntry(prev).offset + LastEntry(prev).entry.length) % LogSectors
           next == {x \in EntryAt(entries, at) :
                      /\ n > 1 => x.entry.sequence = LastEntry(prev).entry.sequence + 1
                      /\ \A i \in DOMAIN prev : prev[i].offset # at}
           new == CHOOSE x \in next : TRUE
<1>1. Link(entries, start, prev, n) = IF Len(prev) < n - 1 \/ next = {} THEN prev
                                      ELSE Append(prev, new)
  BY DEF Link
<1>2. ASSUME ~(Len(prev) < n - 1), next # {}
      PROVE  \E x \in entries : /\ Append(prev, new) = Append(prev, x)
                                /\ Len(prev) >= n - 1
                                /\ n > 1 => Behind(LastEntry(prev), x)
  <2>1. new \in next
    BY <1>2
  <2> HIDE DEF new
  <2>2. /\ new \in entries /\ new.offset = at
        /\ n > 1 => new.entry.sequence = LastEntry(prev).entry.sequence + 1
    BY <2>1 DEF EntryAt
  <2>3. n > 1 => Behind(LastEntry(prev), new)
    BY <2>2 DEF Behind
  <2>4. Len(prev) >= n - 1
    BY <1>2
  <2> QED
    BY <2>2, <2>3, <2>4
<1> HIDE DEF next, new
<1> QED
  BY <1>1, <1>2, Zenon

\* The chain from an entry is a sequence of entries each behind the one before.
LEMMA ChainFollows ==
  ASSUME NEW entries, NEW start, Cardinality(entries) \in Nat
  PROVE  Follows(Chain(entries, start), entries)
<1> DEFINE m == Cardinality(entries)
<1>1. PICK f : /\ f[0] = <<>>
               /\ \A n \in 1..m : f[n] = Link(entries, start, f[n - 1], n)
               /\ Chain(entries, start) = f[m]
  BY ChainLinks
<1> HIDE DEF m
<1> DEFINE N == {n \in Nat : n <= m => Follows(f[n], entries)}
<1>2. 0 \in N
  <2>1. Follows(<<>>, entries)
    BY DEF Follows
  <2> QED
    BY <1>1, <2>1
<1>3. ASSUME NEW n \in Nat, n \in N PROVE n + 1 \in N
  <2> SUFFICES ASSUME n + 1 <= m PROVE Follows(f[n + 1], entries)
    OBVIOUS
  <2> DEFINE prev == f[n]
  <2>1. m \in Nat /\ n + 1 \in 1..m /\ (n + 1) - 1 = n /\ n + 1 \in Nat \ {0}
    BY DEF m
  <2>2. Follows(prev, entries) /\ f[n + 1] = Link(entries, start, prev, n + 1)
    BY <1>1, <1>3, <2>1
  <2>3. n = 0 => prev = <<>>
    BY <1>1
  <2> HIDE DEF prev
  <2>4. \/ f[n + 1] = prev
        \/ \E x \in entries : /\ f[n + 1] = Append(prev, x)
                              /\ Len(prev) >= n
                              /\ n + 1 > 1 => Behind(LastEntry(prev), x)
    <3> DEFINE k == n + 1
    <3>1. prev \in Seq(entries)
      BY <2>2 DEF Follows
    <3>2. k \in Nat \ {0} /\ k - 1 = n
      BY <2>1
    <3> HIDE DEF k
    <3>3. \/ Link(entries, start, prev, k) = prev
          \/ \E x \in entries : /\ Link(entries, start, prev, k) = Append(prev, x)
                                /\ Len(prev) >= k - 1
                                /\ k > 1 => Behind(LastEntry(prev), x)
      BY <3>1, <3>2, LinkIs
    <3> QED
      BY <2>2, <3>2, <3>3 DEF k
  <2>5. ASSUME NEW x \in entries, Len(prev) >= n, n + 1 > 1 => Behind(LastEntry(prev), x)
        PROVE  Follows(Append(prev, x), entries)
    <3> DEFINE s == Append(prev, x)
    <3>1. /\ s \in Seq(entries) /\ Len(s) = Len(prev) + 1 /\ Len(prev) \in Nat
          /\ s[Len(prev) + 1] = x /\ \A i \in 1..Len(prev) : s[i] = prev[i]
      BY <2>2, AppendSeq DEF Follows
    <3> HIDE DEF s
    <3>2. ASSUME NEW i \in 1..(Len(s) - 1) PROVE Behind(s[i], s[i + 1])
      <4>1. CASE i < Len(prev)
        <5>1. i \in 1..(Len(prev) - 1) /\ i \in 1..Len(prev) /\ i + 1 \in 1..Len(prev)
          BY <3>1, <4>1
        <5> QED
          BY <2>2, <3>1, <5>1 DEF Follows
      <4>2. CASE i = Len(prev)
        <5>1. i \in 1..Len(prev) /\ Len(prev) # 0
          BY <3>1, <4>2
        <5>2. n # 0
          BY <2>3, <5>1
        <5>3. Behind(prev[Len(prev)], x)
          BY <2>5, <5>2 DEF LastEntry
        <5> QED
          BY <3>1, <4>2, <5>1, <5>3
      <4> QED
        BY <3>1, <4>1, <4>2
    <3>3. Follows(s, entries)
      BY <3>1, <3>2 DEF Follows
    <3> QED
      BY <3>3 DEF s
  <2> QED
    BY <2>2, <2>4, <2>5, Zenon
<1>4. m \in N
  <2>1. m \in Nat
    BY DEF m
  <2> HIDE DEF N
  <2>2. Nat \subseteq N
    BY <1>2, <1>3, NatInductive
  <2> QED
    BY <2>1, <2>2
<1>5. m \in Nat /\ m <= m
  BY DEF m
<1> QED
  BY <1>1, <1>4, <1>5

\* At every offset there is one entry.
OnePerOffset(entries) == \A x, y \in entries : x.offset = y.offset => x = y

\* The entry x comes next in the chain, and is taken by the next link.
Fits(entries, start, prev, n, x) ==
  /\ OnePerOffset(entries) /\ prev \in Seq(entries) /\ x \in entries
  /\ n \in Nat \ {0} /\ Len(prev) = n - 1
  /\ n = 1 => x.offset = start
  /\ n > 1 => Behind(LastEntry(prev), x)
  /\ \A i \in DOMAIN prev : prev[i].offset # x.offset
Takes(entries, start, prev, n, x) == Link(entries, start, prev, n) = Append(prev, x)

\* A link takes the entry that comes behind, if it is not in the chain.
LEMMA LinkTakes ==
  ASSUME NEW entries, NEW start, NEW prev, NEW n, NEW x, Fits(entries, start, prev, n, x)
  PROVE  Takes(entries, start, prev, n, x)
<1> USE DEF Fits, Takes
<1> DEFINE at == IF n = 1 THEN start
                 ELSE (LastEntry(prev).offset + LastEntry(prev).entry.length) % LogSectors
           next == {y \in EntryAt(entries, at) :
                      /\ n > 1 => y.entry.sequence = LastEntry(prev).entry.sequence + 1
                      /\ \A i \in DOMAIN prev : prev[i].offset # at}
           new == CHOOSE y \in next : TRUE
<1>1. Link(entries, start, prev, n) = IF Len(prev) < n - 1 \/ next = {} THEN prev
                                      ELSE Append(prev, new)
  BY DEF Link
<1>2. n > 1 \/ n = 1
  OBVIOUS
<1>3. x.offset = at /\ (n > 1 => x.entry.sequence = LastEntry(prev).entry.sequence + 1)
  BY <1>2 DEF Behind
<1>4. x \in next
  BY <1>3 DEF EntryAt
<1>5. \A y \in next : y = x
  BY <1>3 DEF EntryAt, OnePerOffset
<1> HIDE DEF next
<1>6. new = x
  BY <1>4, <1>5
<1>7. ~(Len(prev) < n - 1) /\ next # {}
  BY <1>4
<1> QED
  BY <1>1, <1>6, <1>7

\* What is left of a sequence of entries at distinct offsets is no more than there
\* are entries.
LEMMA NoMoreThanEntries ==
  ASSUME NEW entries, IsFiniteSet(entries), NEW r \in Seq(entries),
         \A i, j \in 1..Len(r) : r[i].offset = r[j].offset => i = j
  PROVE  Len(r) <= Cardinality(entries)
<1>1. Len(r) \in Nat /\ IsFiniteSet(1..Len(r)) /\ Cardinality(1..Len(r)) = Len(r)
  <2>1. Len(r) \in Nat /\ 1 \in Int
    OBVIOUS
  <2>2. /\ IsFiniteSet(1..Len(r))
        /\ Cardinality(1..Len(r)) = IF 1 > Len(r) THEN 0 ELSE Len(r) - 1 + 1
    BY <2>1, FS_Interval, SMTT(20)
  <2> QED
    BY <2>1, <2>2
<1>2. r \in [1..Len(r) -> entries]
  OBVIOUS
<1>3. r \in Injection(1..Len(r), entries)
  BY <1>2 DEF Injection, IsInjective
<1>4. Cardinality(1..Len(r)) <= Cardinality(entries)
  BY <1>3, FS_Injection
<1> QED
  BY <1>1, <1>4

\* The chain from the first of a sequence of entries, each behind the one before
\* and at offsets of their own, begins with that sequence.
LEMMA ChainHolds ==
  ASSUME NEW entries, IsFiniteSet(entries), OnePerOffset(entries),
         NEW r, Follows(r, entries), r # <<>>,
         \A i, j \in 1..Len(r) : r[i].offset = r[j].offset => i = j
  PROVE  LET c == Chain(entries, r[1].offset)
         IN  Len(r) <= Len(c) /\ \A i \in 1..Len(r) : c[i] = r[i]
<1> DEFINE m == Cardinality(entries)
           start == r[1].offset
           Begins(c, n) == /\ c \in Seq(entries) /\ Len(c) <= n
                           /\ n <= Len(r) => Len(c) = n
                           /\ n >= Len(r) => Len(c) >= Len(r)
                           /\ \A i \in 1..Len(r) : i <= Len(c) => c[i] = r[i]
<1>1. m \in Nat
  BY FS_CardinalityType
<1>2. PICK f : /\ f[0] = <<>>
               /\ \A n \in 1..m : f[n] = Link(entries, start, f[n - 1], n)
               /\ Chain(entries, start) = f[m]
  BY <1>1, ChainLinks, Zenon
<1>3. r \in Seq(entries) /\ Len(r) \in Nat \ {0}
  BY DEF Follows
<1>4. Len(r) <= m
  BY <1>3, NoMoreThanEntries
<1> HIDE DEF m, start
<1> DEFINE N == {n \in Nat : n <= m => Begins(f[n], n)}
<1>5. 0 \in N
  <2>1. <<>> \in Seq(entries) /\ Len(<<>>) = 0
    OBVIOUS
  <2>2. Begins(<<>>, 0)
    BY <1>3, <2>1
  <2> HIDE DEF Begins
  <2> QED
    BY <1>2, <2>2
<1>6. ASSUME NEW n \in Nat, n \in N PROVE n + 1 \in N
  <2> SUFFICES ASSUME n + 1 <= m PROVE Begins(f[n + 1], n + 1)
    OBVIOUS
  <2> DEFINE prev == f[n]
             k == n + 1
  <2>1. k \in 1..m /\ k - 1 = n /\ k \in Nat \ {0} /\ n <= m
    BY <1>1
  <2>2. Begins(prev, n) /\ f[k] = Link(entries, start, prev, k)
    <3> HIDE DEF Begins
    <3> QED
      BY <1>2, <1>6, <2>1
  <2> HIDE DEF prev, k
  <2>3. CASE k <= Len(r)
    <3>1. n < Len(r) /\ k \in 1..Len(r) /\ Len(prev) = k - 1 /\ Len(prev) = n
      BY <1>3, <2>1, <2>2, <2>3
    <3>2. prev \in Seq(entries) /\ \A i \in 1..n : prev[i] = r[i] /\ i \in 1..Len(r)
      BY <1>3, <2>2, <3>1
    <3>3. r[k] \in entries
      BY <1>3, <3>1
    <3>4. \A i \in DOMAIN prev : prev[i].offset # r[k].offset
      <4>1. DOMAIN prev = 1..n
        BY <3>1, <3>2
      <4>2. \A i \in 1..n : i # k
        BY <2>1
      <4> QED
        BY <3>1, <3>2, <4>1, <4>2
    <3>5. k = 1 => r[k].offset = start
      BY DEF start
    <3>6. k > 1 => Behind(LastEntry(prev), r[k])
      <4>1. k > 1 => n \in 1..(Len(r) - 1) /\ n + 1 = k /\ n \in 1..n
        BY <1>3, <2>1, <3>1
      <4>2. k > 1 => LastEntry(prev) = r[n]
        BY <3>1, <3>2, <4>1 DEF LastEntry
      <4>3. k > 1 => Behind(r[n], r[k])
        BY <4>1 DEF Follows
      <4> QED
        BY <4>2, <4>3
    <3>7. f[k] = Append(prev, r[k])
      <4>1. Fits(entries, start, prev, k, r[k])
        BY <2>1, <3>1, <3>2, <3>3, <3>4, <3>5, <3>6 DEF Fits
      <4>2. Takes(entries, start, prev, k, r[k])
        BY <4>1, LinkTakes, Zenon
      <4> QED
        BY <2>2, <4>2 DEF Takes
    <3>8. /\ f[k] \in Seq(entries) /\ Len(f[k]) = k
          /\ f[k][k] = r[k] /\ \A i \in 1..n : f[k][i] = prev[i]
      BY <2>1, <3>1, <3>2, <3>3, <3>7, AppendSeq
    <3>9. \A i \in 1..Len(r) : i <= k => f[k][i] = r[i]
      BY <2>1, <3>2, <3>8
    <3> QED
      BY <1>3, <2>1, <2>3, <3>8, <3>9 DEF k
  <2>4. CASE k > Len(r)
    <3>1. /\ prev \in Seq(entries) /\ Len(prev) >= Len(r) /\ Len(prev) <= n
          /\ \A i \in 1..Len(r) : prev[i] = r[i]
      BY <1>3, <2>1, <2>2, <2>4
    <3>2. \/ f[k] = prev
          \/ \E x \in entries : f[k] = Append(prev, x)
      BY <2>1, <2>2, <3>1, LinkIs
    <3>3. ASSUME NEW x \in entries PROVE Begins(Append(prev, x), k)
      <4>1. /\ Append(prev, x) \in Seq(entries) /\ Len(Append(prev, x)) = Len(prev) + 1
            /\ \A i \in 1..Len(prev) : Append(prev, x)[i] = prev[i] /\ Len(prev) \in Nat
        BY <3>1, AppendSeq
      <4> QED
        BY <1>3, <2>1, <2>4, <3>1, <4>1
    <3>4. Begins(prev, k)
      BY <1>3, <2>1, <2>4, <3>1
    <3> HIDE DEF Begins
    <3>5. Begins(f[k], k)
      BY <3>2, <3>3, <3>4, Zenon
    <3> QED
      BY <3>5 DEF k
  <2> QED
    BY <1>3, <2>1, <2>3, <2>4
<1>7. m \in N
  <2> HIDE DEF N
  <2>1. Nat \subseteq N
    BY <1>5, <1>6, NatInductive
  <2> QED
    BY <1>1, <2>1
<1>8. Begins(f[m], m)
  <2> HIDE DEF Begins
  <2> QED
    BY <1>1, <1>7
<1>9. Len(r) <= Len(f[m]) /\ \A i \in 1..Len(r) : f[m][i] = r[i]
  BY <1>1, <1>3, <1>4, <1>8
<1> QED
  BY <1>2, <1>9 DEF start

-----------------------------------------------------------------------------
(* The inductive invariant.                                                *)

Ring == 0..(LogSectors - 1)
Write == [block : AllBlocks, value : Nat]
Entry == [guid : Nat, sequence : Nat \ {0}, length : 1..LogSectors, tail : Ring,
          writes : Seq(Write), flushed : Nat, last : Nat]
Placed == [offset : Ring, entry : Entry]
Writer == [pc : {"closed", "starting", "running", "on", "off", "stopped"},
           sessions : Nat, guid : Nat, sequence : Nat \ {0}, head : Ring,
           entry : Entry \cup {NoEntry}, pending : SUBSET Nat,
           reserved : Seq(Placed), live : Seq(Placed), applied : Nat]

Types ==
  /\ headers \in [1..2 -> [ok : BOOLEAN, sequence : Nat, log_guid : Nat]]
  /\ log \in [Ring -> [entry : Entry \cup {NoEntry}, index : Nat]]
  /\ length \in Nat /\ flushed \in Nat /\ flushed <= length
  /\ w \in Writer
  /\ states \in Seq([AllBlocks -> Nat]) /\ states # <<>>

\* The newer header is whole.  It names the log that the writer keeps, if it names
\* one, and then there is an entry to find.
InForce == IF headers[1].sequence < headers[2].sequence THEN headers[2] ELSE headers[1]
HeadersOk ==
  /\ headers[1].sequence # headers[2].sequence
  /\ InForce.ok
  /\ InForce.log_guid # NoGuid => InForce.log_guid = w.guid /\ w.reserved # <<>>
  /\ w.pc \in {"closed", "starting", "on"} => InForce.log_guid = NoGuid

\* Where the writer is between its steps.
PhaseOk ==
  /\ w.guid = w.sessions
  /\ w.pc \in {"closed", "off"} => w.entry = NoEntry /\ w.live = <<>>
  /\ w.pc = "on" => w.live # <<>>

\* What a sector of the log holds is older than the entry that comes next, or is a
\* part of the entry that is being written, and no entry has two first sectors.
Past(o) ==
  LET e == log[o].entry
  IN  \/ e.guid < w.guid
      \/ e.guid = w.guid /\ e.sequence < w.sequence
      \/ e = w.entry /\ (log[o].index = 0 => o = w.head)
First(o) == log[o].entry # NoEntry /\ log[o].index = 0
LogOk ==
  /\ \A o \in Ring : log[o].entry # NoEntry => Past(o) /\ log[o].entry.flushed <= flushed
  /\ \A o, p \in Ring :
       /\ First(o) /\ First(p)
       /\ log[o].entry.guid = log[p].entry.guid
       /\ log[o].entry.sequence = log[p].entry.sequence
       => o = p

\* c is where the reserved entries lie, and then the head, on the unrolled ring.
At(c, reserved, head) ==
  /\ c \in [1..(Len(reserved) + 1) -> Nat]
  /\ \A k \in 1..Len(reserved) :
       /\ reserved[k].offset = c[k] % LogSectors
       /\ c[k + 1] = c[k] + reserved[k].entry.length
  /\ head = c[Len(reserved) + 1] % LogSectors
RoomFor(c, reserved, entry) ==
  c[Len(reserved) + 1] + (IF entry = NoEntry THEN 0 ELSE entry.length) <= c[1] + LogSectors
RingOk == \E c : At(c, w.reserved, w.head) /\ RoomFor(c, w.reserved, w.entry)

\* The entries that the last whole one reaches back to are in the log, numbered one
\* after the other.
Intact(x) ==
  \A i \in 0..(x.entry.length - 1) :
    Sector(log, x.offset, i) = [entry |-> x.entry, index |-> i]
ReservedOk ==
  /\ \A k \in 1..Len(w.reserved) :
       /\ w.reserved[k].entry.guid = w.guid
       /\ w.reserved[k].entry.sequence = w.sequence - Len(w.reserved) + k - 1
       /\ Intact(w.reserved[k])
  /\ w.reserved # <<>> =>
       w.reserved[1].offset = w.reserved[Len(w.reserved)].entry.tail

\* The entry that is being written, and where it reaches back to: no further than
\* what is reserved, and not behind the first entry that is still live.
InFlight == [offset |-> w.head, entry |-> w.entry]
ReachesTo(t) == w.entry.tail = Append(w.reserved, InFlight)[t].offset
EntryOk ==
  /\ w.entry = NoEntry => w.pending = {}
  /\ w.entry # NoEntry =>
       /\ w.entry.guid = w.guid /\ w.entry.sequence = w.sequence
       /\ w.entry.flushed <= flushed
       /\ w.pending \subseteq 0..(w.entry.length - 1)
       /\ \A i \in 0..(w.entry.length - 1) :
            i \in w.pending \/ Sector(log, w.head, i) = [entry |-> w.entry, index |-> i]
LiveOk ==
  \E m \in 1..(Len(w.reserved) + 1) :
    /\ w.live = SubSeq(w.reserved, m, Len(w.reserved))
    /\ w.entry # NoEntry => \E t \in 1..m : ReachesTo(t)

IInv ==
  /\ Types /\ HeadersOk /\ PhaseOk /\ LogOk /\ RingOk /\ ReservedOk /\ EntryOk /\ LiveOk
  /\ res.status # "refused"

-----------------------------------------------------------------------------
(* The entries that are found, and the sequences of them.                  *)

\* Every number belongs to one entry.
OnePerNumber(entries) ==
  \A x, y \in entries : x.entry.sequence = y.entry.sequence => x = y

\* What a scan of the log finds.
LEMMA Scanned ==
  ASSUME Types, NEW guid
  PROVE  LET entries == scan_valid_entries(log, guid)
         IN  /\ IsFiniteSet(entries) /\ OnePerOffset(entries)
             /\ entries \subseteq Placed
             /\ \A x \in entries : /\ First(x.offset) /\ log[x.offset].entry = x.entry
                                   /\ x.entry.guid = guid
<1> DEFINE entries == scan_valid_entries(log, guid)
           good == {p \in Ring : validate_entry(log, p, guid)}
           Found(o) == [offset |-> o, entry |-> log[o].entry]
<1>1. entries = {Found(o) : o \in good}
  BY DEF scan_valid_entries, Ring
<1>2. ASSUME NEW o \in good
      PROVE  /\ Found(o) \in Placed /\ First(o) /\ Found(o).offset = o
             /\ Found(o).entry = log[o].entry /\ log[o].entry.guid = guid
  <2>1. o \in Ring /\ validate_entry(log, o, guid)
    OBVIOUS
  <2>2. log[o].entry.sequence # 0 /\ log[o].entry.length \in 1..LogSectors
        /\ log[o].entry.guid = guid
    BY <2>1 DEF validate_entry
  <2>3. log[o].entry # NoEntry
    BY <2>2 DEF NoEntry
  <2>4. log[o].entry \in Entry
    BY <2>1, <2>3 DEF Types
  <2>5. 0 \in 0..(log[o].entry.length - 1) /\ (o + 0) % LogSectors = o
    BY <2>1, <2>2, InRing DEF Ring
  <2>6. log[o] = [entry |-> log[o].entry, index |-> 0]
    BY <2>1, <2>5 DEF validate_entry, Sector
  <2> QED
    BY <2>1, <2>2, <2>3, <2>4, <2>6 DEF First, Placed
<1>3. IsFiniteSet(entries)
  <2>1. IsFiniteSet(good)
    <3>1. IsFiniteSet(Ring) /\ good \subseteq Ring
      BY LogAssumption, FS_Interval DEF Ring
    <3> QED
      BY <3>1, FS_Subset
  <2> DEFINE f == [o \in good |-> Found(o)]
  <2>2. f \in Surjection(good, entries)
    BY <1>1 DEF Surjection
  <2> QED
    BY <2>1, <2>2, FS_Surjection
<1>4. OnePerOffset(entries)
  BY <1>1, <1>2 DEF OnePerOffset
<1> HIDE DEF entries, good
<1>5. /\ entries \subseteq Placed
      /\ \A x \in entries : /\ First(x.offset) /\ log[x.offset].entry = x.entry
                            /\ x.entry.guid = guid
  BY <1>1, <1>2
<1> QED
  BY <1>3, <1>4, <1>5 DEF entries

\* No two entries of a log have the same number.
LEMMA ScannedOnce ==
  ASSUME Types, LogOk, NEW guid
  PROVE  OnePerNumber(scan_valid_entries(log, guid))
<1> DEFINE entries == scan_valid_entries(log, guid)
<1>1. /\ OnePerOffset(entries) /\ entries \subseteq Placed
      /\ \A x \in entries : /\ First(x.offset) /\ log[x.offset].entry = x.entry
                            /\ x.entry.guid = guid
  BY Scanned
<1> HIDE DEF entries
<1>2. ASSUME NEW x \in entries, NEW y \in entries, x.entry.sequence = y.entry.sequence
      PROVE  x = y
  <2>1. x.offset \in Ring /\ y.offset \in Ring
    BY <1>1 DEF Placed
  <2>2. x.offset = y.offset
    BY <1>1, <1>2, <2>1 DEF LogOk
  <2> QED
    BY <1>1, <2>2 DEF OnePerOffset
<1> QED
  BY <1>2 DEF OnePerNumber, entries

\* s is the part of c from p to q, a sequence of entries that follow each other.
IsPart(s, c, p, q, entries) ==
  /\ Follows(s, entries) /\ Len(s) = q - p + 1
  /\ s # <<>> /\ s[1] = c[p] /\ LastEntry(s) = c[q]

\* A part of a sequence of entries that follow each other is one.
LEMMA PartFollows ==
  ASSUME NEW entries, NEW c, Follows(c, entries), NEW p \in 1..Len(c), NEW q \in 1..Len(c),
         p <= q
  PROVE  IsPart(SubSeq(c, p, q), c, p, q, entries)
<1> DEFINE s == SubSeq(c, p, q)
<1>1. c \in Seq(entries) /\ Len(c) \in Nat
  BY DEF Follows
<1>2. /\ s \in Seq(entries) /\ Len(s) = q - p + 1
      /\ \A i \in 1..(q - p + 1) : s[i] = c[p + i - 1]
  BY <1>1
<1> HIDE DEF s
<1>3. ASSUME NEW i \in 1..(Len(s) - 1) PROVE Behind(s[i], s[i + 1])
  <2>1. /\ i \in 1..(q - p + 1) /\ i + 1 \in 1..(q - p + 1) /\ p + i - 1 \in 1..(Len(c) - 1)
        /\ p + (i + 1) - 1 = (p + i - 1) + 1
    BY <1>1, <1>2
  <2>2. s[i] = c[p + i - 1] /\ s[i + 1] = c[(p + i - 1) + 1]
    BY <1>2, <2>1
  <2> QED
    BY <2>1, <2>2 DEF Follows
<1>4. 1 \in 1..(q - p + 1) /\ p + 1 - 1 = p /\ q - p + 1 \in 1..(q - p + 1)
      /\ p + (q - p + 1) - 1 = q
  BY <1>1
<1>5. s[1] = c[p] /\ LastEntry(s) = c[q]
  BY <1>2, <1>4 DEF LastEntry
<1>6. s # <<>>
  BY <1>2, <1>4
<1> QED
  BY <1>2, <1>3, <1>5, <1>6 DEF Follows, IsPart, s

\* A sequence that may be the active one is not empty, and begins where its last
\* entry's tail is.
LEMMA SequenceIs ==
  ASSUME NEW entries, IsFiniteSet(entries), NEW s \in Sequences(entries)
  PROVE  /\ Follows(s, entries) /\ s # <<>>
         /\ s[1].offset = LastEntry(s).entry.tail
<1>1. PICK start \in entries :
        LET c == Chain(entries, start.offset)
        IN  \E p, q \in DOMAIN c : /\ s = SubSeq(c, p, q) /\ p <= q
                                   /\ c[p].offset = c[q].entry.tail
  BY DEF Sequences
<1> DEFINE c == Chain(entries, start.offset)
<1>2. Follows(c, entries)
  BY FS_CardinalityType, ChainFollows
<1>3. PICK p \in DOMAIN c, q \in DOMAIN c : /\ s = SubSeq(c, p, q) /\ p <= q
                                            /\ c[p].offset = c[q].entry.tail
  BY <1>1, Zenon
<1> HIDE DEF c
<1>4. p \in 1..Len(c) /\ q \in 1..Len(c)
  BY <1>2 DEF Follows
<1>5. IsPart(SubSeq(c, p, q), c, p, q, entries)
  BY <1>2, <1>3, <1>4, PartFollows, Zenon
<1> QED
  BY <1>3, <1>5 DEF IsPart

\* Entries that follow each other are numbered one after the other.
LEMMA FollowNumbered ==
  ASSUME NEW entries, entries \subseteq Placed, NEW s, Follows(s, entries), s # <<>>
  PROVE  \A i \in 1..Len(s) : s[i].entry.sequence = s[1].entry.sequence + (i - 1)
<1>1. /\ s \in Seq(entries) /\ Len(s) \in Nat
      /\ \A i \in 1..Len(s) : s[i].entry.sequence \in Nat
  <2>1. s \in Seq(entries) /\ \A x \in entries : x.entry.sequence \in Nat
    BY DEF Follows, Placed, Entry
  <2> QED
    BY <2>1
<1> DEFINE N == {n \in Nat : n < Len(s) => s[n + 1].entry.sequence = s[1].entry.sequence + n}
<1>2. 0 \in N
  BY <1>1
<1>3. ASSUME NEW n \in Nat, n \in N PROVE n + 1 \in N
  <2> SUFFICES ASSUME n + 1 < Len(s)
               PROVE  s[(n + 1) + 1].entry.sequence = s[1].entry.sequence + (n + 1)
    OBVIOUS
  <2>1. n + 1 \in 1..(Len(s) - 1) /\ n < Len(s) /\ 1 \in 1..Len(s) /\ n + 1 \in 1..Len(s)
    BY <1>1
  <2>2. Behind(s[n + 1], s[(n + 1) + 1])
    BY <2>1 DEF Follows
  <2>3. s[n + 1].entry.sequence = s[1].entry.sequence + n
    BY <1>3, <2>1
  <2>4. s[(n + 1) + 1].entry.sequence = s[n + 1].entry.sequence + 1
    BY <2>2 DEF Behind
  <2>5. s[1].entry.sequence \in Nat
    BY <1>1, <2>1
  <2> QED
    BY <2>3, <2>4, <2>5, SMTT(20)
<1> HIDE DEF N
<1>4. Nat \subseteq N
  BY <1>2, <1>3, NatInductive
<1>5. ASSUME NEW i \in 1..Len(s) PROVE s[i].entry.sequence = s[1].entry.sequence + (i - 1)
  <2>1. i - 1 \in Nat /\ i - 1 < Len(s) /\ (i - 1) + 1 = i
    BY <1>1
  <2>2. i - 1 \in N
    BY <1>4, <2>1
  <2> QED
    BY <2>1, <2>2 DEF N
<1> QED
  BY <1>5

\* Two sequences that reach back from entries of the same number are the same.
LEMMA SameSequence ==
  ASSUME NEW entries, entries \subseteq Placed, OnePerOffset(entries), OnePerNumber(entries),
         NEW s, Follows(s, entries), s # <<>>, s[1].offset = LastEntry(s).entry.tail,
         NEW r, Follows(r, entries), r # <<>>, r[1].offset = LastEntry(r).entry.tail,
         LastEntry(s).entry.sequence = LastEntry(r).entry.sequence
  PROVE  s = r
<1>1. /\ s \in Seq(entries) /\ Len(s) \in Nat \ {0} /\ 1 \in 1..Len(s) /\ Len(s) \in 1..Len(s)
      /\ r \in Seq(entries) /\ Len(r) \in Nat \ {0} /\ 1 \in 1..Len(r) /\ Len(r) \in 1..Len(r)
  BY DEF Follows
<1>2. s[1] \in entries /\ r[1] \in entries /\ LastEntry(s) \in entries /\ LastEntry(r) \in entries
  BY <1>1 DEF LastEntry
<1>3. LastEntry(s) = LastEntry(r)
  BY <1>2 DEF OnePerNumber
<1>4. s[1] = r[1]
  BY <1>2, <1>3 DEF OnePerOffset
<1>5. /\ \A i \in 1..Len(s) : s[i].entry.sequence = s[1].entry.sequence + (i - 1)
      /\ \A i \in 1..Len(r) : r[i].entry.sequence = s[1].entry.sequence + (i - 1)
  <2>1. \A i \in 1..Len(s) : s[i].entry.sequence = s[1].entry.sequence + (i - 1)
    BY FollowNumbered
  <2>2. \A i \in 1..Len(r) : r[i].entry.sequence = r[1].entry.sequence + (i - 1)
    BY FollowNumbered
  <2> QED
    BY <1>4, <2>1, <2>2
<1>6. s[1].entry.sequence \in Nat
  BY <1>2, Zenon DEF Placed, Entry
<1>7. Len(s) = Len(r)
  <2>1. s[Len(s)].entry.sequence = r[Len(r)].entry.sequence
    BY <1>3 DEF LastEntry
  <2>2. s[1].entry.sequence + (Len(s) - 1) = s[1].entry.sequence + (Len(r) - 1)
    BY <1>1, <1>5, <2>1
  <2> QED
    BY <1>1, <1>6, <2>2
<1>8. ASSUME NEW i \in 1..Len(s) PROVE s[i] = r[i]
  <2>1. i \in 1..Len(r) /\ s[i] \in entries /\ r[i] \in entries
    BY <1>1, <1>7
  <2>2. s[i].entry.sequence = r[i].entry.sequence
    BY <1>5, <2>1
  <2> QED
    BY <2>1, <2>2 DEF OnePerNumber
<1> QED
  BY <1>1, <1>7, <1>8

\* In every log of the ring there is at most one active sequence to find.
LEMMA OneToFind ==
  ASSUME Types, LogOk, NEW guid
  PROVE  Cardinality(ActiveSequences(scan_valid_entries(log, guid))) <= 1
<1> DEFINE entries == scan_valid_entries(log, guid)
           active == ActiveSequences(entries)
<1>1. /\ IsFiniteSet(entries) /\ OnePerOffset(entries) /\ entries \subseteq Placed
      /\ OnePerNumber(entries)
  BY Scanned, ScannedOnce
<1> HIDE DEF entries
<1>2. ASSUME NEW s \in active, NEW r \in active PROVE s = r
  <2>1. s \in Sequences(entries) /\ r \in Sequences(entries)
    BY DEF ActiveSequences
  <2>2. /\ Follows(s, entries) /\ s # <<>> /\ s[1].offset = LastEntry(s).entry.tail
        /\ Follows(r, entries) /\ r # <<>> /\ r[1].offset = LastEntry(r).entry.tail
    BY <1>1, <2>1, SequenceIs
  <2>3. /\ LastEntry(s).entry.sequence <= LastEntry(r).entry.sequence
        /\ LastEntry(r).entry.sequence <= LastEntry(s).entry.sequence
    BY <2>1 DEF ActiveSequences
  <2>4. LastEntry(s) \in entries /\ LastEntry(r) \in entries
    BY <2>2 DEF Follows, LastEntry
  <2>5. LastEntry(s).entry.sequence \in Nat /\ LastEntry(r).entry.sequence \in Nat
    BY <1>1, <2>4 DEF Placed, Entry
  <2>6. LastEntry(s).entry.sequence = LastEntry(r).entry.sequence
    BY <2>3, <2>5
  <2> QED
    BY <1>1, <2>2, <2>6, SameSequence
<1> HIDE DEF active
<1>3. active = {} \/ \E x : active = {x}
  BY <1>2
<1>4. Cardinality(active) = 0 \/ Cardinality(active) = 1
  BY <1>3, FS_EmptySet, FS_Singleton, Zenon
<1>5. Cardinality(active) <= 1
  BY <1>4
<1> QED
  BY <1>5 DEF active, entries

-----------------------------------------------------------------------------
(* The image opens.                                                        *)

\* On the unrolled ring each entry lies behind the ones before it.
LEMMA Rising ==
  ASSUME NEW reserved \in Seq(Placed), NEW c, NEW head, At(c, reserved, head)
  PROVE  \A i, j \in 1..(Len(reserved) + 1) : i < j => c[i] < c[j]
<1> DEFINE n == Len(reserved)
<1>1. n \in Nat /\ \A k \in 1..(n + 1) : c[k] \in Nat
  BY DEF At
<1>2. \A k \in 1..n : c[k] < c[k + 1]
  <2>1. ASSUME NEW k \in 1..n PROVE c[k] < c[k + 1]
    <3>1. reserved[k] \in Placed
      OBVIOUS
    <3>2. reserved[k].entry.length \in Nat /\ reserved[k].entry.length >= 1
      BY <3>1 DEF Placed, Entry
    <3>3. c[k + 1] = c[k] + reserved[k].entry.length /\ c[k] \in Nat
      BY <1>1 DEF At
    <3> QED
      BY <3>2, <3>3
  <2> QED
    BY <2>1
<1> HIDE DEF n
<1>3. ASSUME NEW i \in 1..(n + 1) PROVE \A j \in 1..(n + 1) : i < j => c[i] < c[j]
  <2> DEFINE N == {d \in Nat : i + d + 1 <= n + 1 => c[i] < c[i + d + 1]}
  <2>1. 0 \in N
    BY <1>1, <1>2
  <2>2. ASSUME NEW d \in Nat, d \in N PROVE d + 1 \in N
    <3> SUFFICES ASSUME i + (d + 1) + 1 <= n + 1 PROVE c[i] < c[i + (d + 1) + 1]
      OBVIOUS
    <3>1. i + d + 1 \in 1..n /\ (i + d + 1) + 1 = i + (d + 1) + 1
      BY <1>1
    <3>2. c[i] < c[i + d + 1]
      BY <1>1, <2>2, <3>1
    <3>3. c[i + d + 1] < c[i + (d + 1) + 1]
      BY <1>2, <3>1
    <3>4. c[i] \in Nat /\ c[i + d + 1] \in Nat /\ c[i + (d + 1) + 1] \in Nat
      BY <1>1, <3>1
    <3> QED
      BY <3>2, <3>3, <3>4
  <2> HIDE DEF N
  <2>3. Nat \subseteq N
    BY <2>1, <2>2, NatInductive
  <2>4. ASSUME NEW j \in 1..(n + 1), i < j PROVE c[i] < c[j]
    <3>1. j - i - 1 \in Nat /\ i + (j - i - 1) + 1 = j
      BY <1>1, <2>4
    <3>2. j - i - 1 \in N
      BY <2>3, <3>1
    <3> QED
      BY <1>1, <3>1, <3>2 DEF N
  <2> QED
    BY <2>4
<1> QED
  BY <1>3 DEF n

\* Entries that lie one after the other within one round of the ring start at
\* distinct offsets.
LEMMA OffsetsApart ==
  ASSUME NEW r \in Seq(Placed), NEW c, NEW head, At(c, r, head),
         c[Len(r) + 1] <= c[1] + LogSectors
  PROVE  \A i, j \in 1..Len(r) : r[i].offset = r[j].offset => i = j
<1> DEFINE n == Len(r)
<1>1. n \in Nat
  OBVIOUS
<1>2. \A i, j \in 1..(n + 1) : i < j => c[i] < c[j]
  BY Rising
<1>3. /\ \A k \in 1..(n + 1) : c[k] \in Nat
      /\ \A k \in 1..n : r[k].offset = c[k] % LogSectors
      /\ c[n + 1] <= c[1] + LogSectors
  BY Zenon DEF At
<1> HIDE DEF n
<1>4. ASSUME NEW i \in 1..n, NEW j \in 1..n, i < j PROVE r[i].offset # r[j].offset
  <2>1. i \in 1..(n + 1) /\ j \in 1..(n + 1) /\ j < n + 1 /\ n + 1 \in 1..(n + 1)
        /\ 1 \in 1..(n + 1) /\ (i = 1 \/ 1 < i)
    BY <1>1
  <2>2. c[i] \in Nat /\ c[j] \in Nat /\ c[1] \in Nat /\ c[n + 1] \in Nat
    BY <1>3, <2>1
  <2>3. c[i] < c[j] /\ c[j] < c[n + 1] /\ c[1] <= c[i]
    BY <1>2, <1>4, <2>1, <2>2, SMTT(20)
  <2>4. c[j] < c[i] + LogSectors
    <3>1. c[n + 1] <= c[1] + LogSectors /\ LogSectors \in Nat
      BY <1>3, LogAssumption, Zenon
    <3> QED
      BY <2>2, <2>3, <3>1
  <2>5. c[i] % LogSectors # c[j] % LogSectors
    BY <2>2, <2>3, <2>4, LogAssumption, Apart
  <2> QED
    BY <1>3, <2>5
<1>5. ASSUME NEW i \in 1..n, NEW j \in 1..n, r[i].offset = r[j].offset PROVE i = j
  <2>1. i < j \/ j < i \/ i = j
    BY <1>1
  <2> QED
    BY <1>4, <1>5, <2>1
<1> QED
  BY <1>5 DEF n

\* The offsets of the reserved entries are distinct.
LEMMA ReservedApart ==
  ASSUME Types, RingOk
  PROVE  \A i, j \in 1..Len(w.reserved) : w.reserved[i].offset = w.reserved[j].offset => i = j
<1> DEFINE r == w.reserved
           n == Len(r)
<1>1. r \in Seq(Placed) /\ n \in Nat
  BY DEF Types, Writer
<1>2. PICK c : At(c, r, w.head) /\ RoomFor(c, r, w.entry)
  BY DEF RingOk
<1>3. w.entry # NoEntry => w.entry.length \in Nat
  <2>1. w.entry # NoEntry => w.entry \in Entry
    BY DEF Types, Writer
  <2> QED
    BY <2>1 DEF Entry
<1>4. \A k \in 1..(n + 1) : c[k] \in Nat
  BY <1>2 DEF At
<1> HIDE DEF r, n
<1>5. c[n + 1] <= c[1] + LogSectors
  <2>1. c[n + 1] \in Nat /\ c[1] \in Nat
    BY <1>1, <1>4
  <2> QED
    BY <1>2, <1>3, <2>1, LogAssumption DEF RoomFor, n
<1> QED
  BY <1>1, <1>2, <1>5, OffsetsApart, Zenon DEF r, n

\* The reserved entries are found, each behind the one before it.
LEMMA ReservedFollows ==
  ASSUME Types, RingOk, ReservedOk
  PROVE  Follows(w.reserved, scan_valid_entries(log, w.guid))
<1> DEFINE r == w.reserved
           n == Len(r)
           entries == scan_valid_entries(log, w.guid)
<1>1. r \in Seq(Placed) /\ n \in Nat /\ w.sequence \in Nat
  BY DEF Types, Writer
<1>2. PICK c : At(c, r, w.head) /\ RoomFor(c, r, w.entry)
  BY DEF RingOk
<1>3. ASSUME NEW k \in 1..n PROVE r[k] \in entries
  <2> DEFINE x == r[k]
  <2>1. x \in Placed /\ x.entry.guid = w.guid /\ Intact(x)
    BY <1>1 DEF ReservedOk
  <2> HIDE DEF x
  <2>2. x.offset \in Ring /\ x.entry \in Entry /\ x = [offset |-> x.offset, entry |-> x.entry]
    BY <2>1 DEF Placed
  <2>3. /\ x.entry.sequence # 0 /\ x.entry.length \in 1..LogSectors
        /\ x.entry.tail \in 0..(LogSectors - 1)
    BY <2>2 DEF Entry, Ring
  <2>4. 0 \in 0..(x.entry.length - 1) /\ (x.offset + 0) % LogSectors = x.offset
    BY <2>2, <2>3, InRing DEF Ring
  <2>5. log[x.offset] = [entry |-> x.entry, index |-> 0]
    BY <2>1, <2>4 DEF Intact, Sector
  <2>6. log[x.offset].entry = x.entry
    BY <2>5
  <2>7. validate_entry(log, x.offset, w.guid)
    BY <2>1, <2>3, <2>6 DEF validate_entry, Intact
  <2>8. x.offset \in 0..(LogSectors - 1)
    BY <2>2 DEF Ring
  <2>9. x \in entries
    BY <2>2, <2>6, <2>7, <2>8 DEF scan_valid_entries
  <2> QED
    BY <2>9 DEF x
<1>4. ASSUME NEW k \in 1..(n - 1) PROVE Behind(r[k], r[k + 1])
  <2>1. k \in 1..n /\ k + 1 \in 1..n /\ r[k] \in Placed /\ r[k + 1] \in Placed
    BY <1>1
  <2>2. /\ c[k] \in Nat /\ r[k].offset = c[k] % LogSectors
        /\ r[k + 1].offset = c[k + 1] % LogSectors /\ c[k + 1] = c[k] + r[k].entry.length
    BY <1>1, <1>2, <2>1, SMTT(20) DEF At
  <2>3. r[k].entry.length \in Nat
    <3>1. \A x \in Placed : x.entry.length \in Nat
      BY DEF Placed, Entry
    <3> QED
      BY <2>1, <3>1
  <2>4. r[k + 1].offset = (r[k].offset + r[k].entry.length) % LogSectors
    <3> DEFINE x == c[k]
               l == r[k].entry.length
    <3>1. x \in Nat /\ l \in Nat /\ LogSectors \in Nat \ {0}
      BY <2>2, <2>3, LogAssumption
    <3>2. r[k].offset = x % LogSectors /\ r[k + 1].offset = (x + l) % LogSectors
      BY <2>2
    <3> HIDE DEF x, l
    <3>3. ((x % LogSectors) + l) % LogSectors = (x + l) % LogSectors
      BY <3>1, Wrapped, Zenon
    <3> QED
      BY <3>2, <3>3 DEF l
  <2>5. /\ r[k].entry.sequence = w.sequence - n + k - 1
        /\ r[k + 1].entry.sequence = w.sequence - n + (k + 1) - 1
    BY <2>1 DEF ReservedOk
  <2>6. r[k + 1].entry.sequence = r[k].entry.sequence + 1
    BY <1>1, <2>5
  <2> QED
    BY <2>4, <2>6 DEF Behind
<1> HIDE DEF entries
<1>5. r \in Seq(entries)
  BY <1>1, <1>3
<1> QED
  BY <1>4, <1>5 DEF Follows, entries

\* There is an active sequence in the log that the writer keeps.
LEMMA ActiveExists ==
  ASSUME Types, LogOk, RingOk, ReservedOk, EntryOk, w.reserved # <<>>
  PROVE  ActiveSequences(scan_valid_entries(log, w.guid)) # {}
<1> DEFINE r == w.reserved
           n == Len(r)
           entries == scan_valid_entries(log, w.guid)
           c == Chain(entries, r[1].offset)
<1>1. /\ IsFiniteSet(entries) /\ OnePerOffset(entries) /\ entries \subseteq Placed
      /\ \A x \in entries : /\ First(x.offset) /\ log[x.offset].entry = x.entry
                            /\ x.entry.guid = w.guid
  BY Scanned
<1>2. Follows(r, entries)
  BY ReservedFollows
<1>3. \A i, j \in 1..n : r[i].offset = r[j].offset => i = j
  BY ReservedApart
<1>4. r[1].offset = r[n].entry.tail
  BY DEF ReservedOk
<1>5. w.sequence \in Nat
  BY DEF Types, Writer
<1> HIDE DEF entries
<1>6. \A x \in entries : x.entry.sequence \in 1..w.sequence
  <2> SUFFICES ASSUME NEW x \in entries PROVE x.entry.sequence \in 1..w.sequence
    OBVIOUS
  <2>1. x.offset \in Ring /\ x.entry.sequence \in Nat \ {0}
    BY <1>1 DEF Placed, Entry
  <2>2. First(x.offset) /\ log[x.offset].entry = x.entry /\ x.entry.guid = w.guid
    BY <1>1
  <2>3. Past(x.offset)
    BY <2>1, <2>2 DEF LogOk, First
  <2>4. w.guid \in Nat
    BY DEF Types, Writer
  <2>5. x.entry.sequence < w.sequence \/ x.entry = w.entry
    BY <2>2, <2>3, <2>4, SMTT(20) DEF Past
  <2>6. x.entry = w.entry => x.entry.sequence = w.sequence
    BY <2>2 DEF EntryOk, First
  <2> QED
    BY <1>5, <2>1, <2>5, <2>6
<1> HIDE DEF r
<1>7. r \in Seq(entries) /\ r # <<>>
  BY <1>2 DEF Follows, r
<1>8. n \in Nat \ {0} /\ 1 \in 1..n /\ n \in 1..n
  BY <1>7
<1>9. n <= Len(c) /\ \A i \in 1..n : c[i] = r[i]
  BY <1>1, <1>2, <1>3, <1>7, ChainHolds, SMTT(20)
<1>10. c \in Seq(entries)
  BY <1>1, FS_CardinalityType, ChainFollows DEF Follows
<1>11. SubSeq(c, 1, n) \in Sequences(entries)
  <2>1. r[1] \in entries
    BY <1>7, <1>8, SMTT(20)
  <2>2. c[1].offset = c[n].entry.tail
    BY <1>4, <1>8, <1>9
  <2> HIDE DEF c, n
  <2>3. 1 \in DOMAIN c /\ n \in DOMAIN c /\ 1 <= n
    BY <1>8, <1>9, <1>10
  <2> DEFINE PartsOf(chain) ==
               {SubSeq(chain, p[1], p[2]) :
                  p \in {q \in (DOMAIN chain) \X (DOMAIN chain) :
                           q[1] <= q[2] /\ chain[q[1]].offset = chain[q[2]].entry.tail}}
  <2>4. SubSeq(c, 1, n) \in PartsOf(c)
    <3> DEFINE q == <<1, n>>
    <3>1. q \in (DOMAIN c) \X (DOMAIN c) /\ q[1] = 1 /\ q[2] = n
      BY <2>3
    <3> QED
      BY <2>2, <2>3, <3>1, Zenon
  <2>5. Sequences(entries) = UNION {PartsOf(Chain(entries, x.offset)) : x \in entries}
    BY DEF Sequences
  <2> HIDE DEF PartsOf
  <2> QED
    BY <2>1, <2>4, <2>5 DEF c
<1> DEFINE T == {LastEntry(s).entry.sequence : s \in Sequences(entries)}
<1> HIDE DEF c
<1>12. ASSUME NEW s \in Sequences(entries) PROVE LastEntry(s).entry.sequence \in 1..w.sequence
  <2>1. Follows(s, entries) /\ s # <<>>
    BY <1>1, SequenceIs
  <2>2. LastEntry(s) \in entries
    BY <2>1 DEF Follows, LastEntry
  <2> QED
    BY <1>6, <2>2
<1>13. T \subseteq 1..w.sequence /\ T # {}
  BY <1>11, <1>12
<1>14. PICK g \in T : \A h \in T : h <= g
  BY <1>5, <1>13, GreatestNumber, Zenon
<1>15. PICK s \in Sequences(entries) : g = LastEntry(s).entry.sequence
  BY <1>14
<1>16. \A q \in Sequences(entries) : LastEntry(q).entry.sequence <= LastEntry(s).entry.sequence
  BY <1>14, <1>15
<1> HIDE DEF T
<1>17. s \in ActiveSequences(entries)
  BY <1>15, <1>16 DEF ActiveSequences
<1> QED
  BY <1>17 DEF entries

\* The header in force is the one that parse_active_header takes.
LEMMA OneHeader ==
  ASSUME Types, HeadersOk
  PROVE  ActiveHeaders(headers) = {InForce}
<1> DEFINE a == headers[1]
           b == headers[2]
<1>1. /\ a.sequence \in Nat /\ b.sequence \in Nat /\ a.sequence # b.sequence
      /\ IF a.sequence < b.sequence THEN b.ok ELSE a.ok
  BY DEF Types, HeadersOk, InForce
<1>2. InForce = IF a.sequence < b.sequence THEN b ELSE a
  BY DEF InForce
<1>3. ActiveHeaders(headers) =
        {h \in {a, b} : h.ok /\ \A g \in {a, b} : g.ok => g.sequence <= h.sequence}
  BY <1>1 DEF ActiveHeaders
<1> HIDE DEF a, b
<1>4. CASE a.sequence < b.sequence
  BY <1>1, <1>2, <1>3, <1>4
<1>5. CASE ~(a.sequence < b.sequence)
  BY <1>1, <1>2, <1>3, <1>5
<1> QED
  BY <1>4, <1>5

\* Whatever opening may produce, it is not a refusal.
LEMMA OpensAlways ==
  ASSUME Types, HeadersOk, LogOk, RingOk, ReservedOk, EntryOk,
         NEW v \in OpenedViews(headers, log, file, length)
  PROVE  v.status # "refused"
<1> DEFINE guid == InForce.log_guid
           entries == scan_valid_entries(log, guid)
           active == ActiveSequences(entries)
<1>1. ActiveHeaders(headers) = {InForce} /\ (CHOOSE h \in ActiveHeaders(headers) : TRUE) = InForce
  BY OneHeader
<1>2. \A rs, e : View(file, length, rs, e).status = "open"
  BY DEF View
<1>3. CASE guid = NoGuid
  <2>1. OpenedViews(headers, log, file, length) = {View(file, length, <<>>, length)}
    BY <1>1, <1>3 DEF OpenedViews
  <2> QED
    BY <1>2, <2>1
<1>4. CASE guid # NoGuid
  <2>1. guid = w.guid /\ w.reserved # <<>>
    BY <1>4 DEF HeadersOk
  <2>2. active # {}
    BY <2>1, ActiveExists
  <2>3. ASSUME NEW s \in active PROVE ~(length < LastEntry(s).entry.flushed)
    <3>1. /\ IsFiniteSet(entries) /\ entries \subseteq Placed
          /\ \A x \in entries : First(x.offset) /\ log[x.offset].entry = x.entry
      BY Scanned
    <3> HIDE DEF entries
    <3>2. s \in Sequences(entries)
      BY DEF ActiveSequences
    <3>3. Follows(s, entries) /\ s # <<>>
      BY <3>1, <3>2, SequenceIs
    <3>4. LastEntry(s) \in entries
      BY <3>3 DEF Follows, LastEntry
    <3> DEFINE x == LastEntry(s)
    <3>5. x.offset \in Ring /\ x.entry.flushed \in Nat
      BY <3>1, <3>4 DEF Placed, Entry
    <3>6. x.entry.flushed <= flushed
      BY <3>1, <3>4, <3>5 DEF LogOk, First
    <3>7. flushed \in Nat /\ length \in Nat /\ flushed <= length
      BY DEF Types
    <3> QED
      BY <3>5, <3>6, <3>7, SMTT(20)
  <2>4. OpenedViews(headers, log, file, length) =
          {IF length < LastEntry(s).entry.flushed
             THEN Refused
             ELSE View(file, length, Runs(s), Larger(length, LastEntry(s).entry.last)) :
             s \in active}
    BY <1>1, <1>4, <2>2 DEF OpenedViews
  <2> HIDE DEF active
  <2>5. PICK s \in active :
          v = IF length < LastEntry(s).entry.flushed
                THEN Refused
                ELSE View(file, length, Runs(s), Larger(length, LastEntry(s).entry.last))
    BY <2>4
  <2>6. v = View(file, length, Runs(s), Larger(length, LastEntry(s).entry.last))
    BY <2>3, <2>5
  <2> QED
    BY <1>2, <2>6
<1> QED
  BY <1>3, <1>4

-----------------------------------------------------------------------------
(* The steps of the writer keep the invariant.                             *)

\* The image as it is made satisfies the invariant.
LEMMA InitOk == Init => IInv
<1> SUFFICES ASSUME Init PROVE IInv
  OBVIOUS
<1>1. 0 \in Ring /\ Ring \subseteq Nat
  BY LogAssumption DEF Ring
<1>2. w \in Writer
  BY <1>1 DEF Init, Writer, NoGuid
<1>3. Types
  <2>1. headers \in [1..2 -> [ok : BOOLEAN, sequence : Nat, log_guid : Nat]]
    <3> DEFINE S == [ok : BOOLEAN, sequence : Nat, log_guid : Nat]
    <3>1. Header(TRUE, 1, NoGuid) \in S /\ Header(TRUE, 2, NoGuid) \in S
      BY DEF Header, NoGuid
    <3>2. headers = <<Header(TRUE, 1, NoGuid), Header(TRUE, 2, NoGuid)>>
      BY DEF Init
    <3> HIDE DEF S
    <3>3. \A a, b \in S : <<a, b>> \in [1..2 -> S]
      OBVIOUS
    <3>4. headers \in [1..2 -> S]
      BY <3>1, <3>2, <3>3, Zenon
    <3> QED
      BY <3>4 DEF S
  <2>2. log \in [Ring -> [entry : Entry \cup {NoEntry}, index : Nat]]
    BY DEF Init, Blank, Ring
  <2>3. states \in Seq([AllBlocks -> Nat]) /\ states # <<>>
    BY DEF Init
  <2> QED
    BY <1>2, <2>1, <2>2, <2>3 DEF Types, Init
<1>4. HeadersOk /\ PhaseOk
  BY DEF Init, HeadersOk, PhaseOk, InForce, Header, NoGuid
<1>5. LogOk
  BY DEF Init, LogOk, First, Blank, Ring
<1>6. RingOk
  <2> DEFINE c == [k \in 1..1 |-> 0]
  <2>1. w.reserved = <<>> /\ w.head = 0 /\ w.entry = NoEntry /\ Len(<<>>) = 0
    BY DEF Init
  <2>2. 0 % LogSectors = 0
    BY <1>1, InRing DEF Ring
  <2>3. At(c, <<>>, 0) /\ RoomFor(c, <<>>, NoEntry)
    BY <2>1, <2>2, LogAssumption, SMTT(20) DEF At, RoomFor
  <2> QED
    BY <2>1, <2>3 DEF RingOk
<1>7. ReservedOk /\ EntryOk
  BY DEF Init, ReservedOk, EntryOk
<1>8. LiveOk
  <2>1. w.reserved = <<>> /\ w.live = <<>> /\ w.entry = NoEntry
    BY DEF Init
  <2>2. Len(<<>>) = 0 /\ SubSeq(<<>>, 1, 0) = <<>>
    OBVIOUS
  <2> QED
    BY <2>1, <2>2 DEF LiveOk
<1>9. res.status # "refused"
  BY DEF Init, NotOpened
<1> QED
  BY <1>3, <1>4, <1>5, <1>6, <1>7, <1>8, <1>9 DEF IInv

\* A step that writes neither a sector nor an entry.
SameEntries ==
  /\ log' = log
  /\ w'.guid = w.guid /\ w'.sequence = w.sequence /\ w'.head = w.head
  /\ w'.entry = w.entry /\ w'.pending = w.pending /\ w'.reserved = w.reserved

\* It keeps what is known of the log, the ring and the entry being written: a
\* write to a header or to the file itself, a crash, or fsmnt opening the image
\* leaves the log region as it is.
LEMMA EntriesKept ==
  ASSUME Types, LogOk, RingOk, ReservedOk, EntryOk, SameEntries,
         flushed' \in Nat, flushed <= flushed'
  PROVE  LogOk' /\ RingOk' /\ ReservedOk' /\ EntryOk'
<1>1. \A e \in Entry : e.flushed \in Nat
  BY DEF Entry
<1>2. \A e \in Entry : e.flushed <= flushed => e.flushed <= flushed'
  BY <1>1 DEF Types
<1>3. LogOk'
  <2>1. \A o \in Ring : log[o].entry # NoEntry => log[o].entry \in Entry
    BY DEF Types
  <2>2. \A o \in Ring : log'[o].entry # NoEntry => Past(o)' /\ log'[o].entry.flushed <= flushed'
    BY <1>2, <2>1 DEF LogOk, SameEntries, Past
  <2>3. \A o \in Ring : First(o)' <=> First(o)
    BY DEF First, SameEntries
  <2> QED
    BY <2>2, <2>3 DEF LogOk, SameEntries
<1>4. RingOk'
  BY DEF RingOk, SameEntries
<1>5. ReservedOk'
  BY DEF ReservedOk, SameEntries, Intact
<1>6. EntryOk'
  <2>1. w.entry # NoEntry => w.entry \in Entry
    BY DEF Types, Writer
  <2> QED
    BY <1>2, <2>1 DEF EntryOk, SameEntries
<1> QED
  BY <1>3, <1>4, <1>5, <1>6

\* What is live is untouched as well.
LEMMA LiveKept ==
  ASSUME LiveOk, SameEntries, w'.live = w.live
  PROVE  LiveOk'
  BY DEF LiveOk, SameEntries, ReachesTo, InFlight

\* The length of the file changes.
LEMMA ExtendOk == IInv /\ Extend => IInv'
<1> SUFFICES ASSUME IInv, Extend PROVE IInv'
  OBVIOUS
<1> USE DEF IInv
<1>1. w' = w /\ headers' = headers /\ log' = log /\ states' = states /\ res' = res
      /\ flushed' = flushed /\ length' = length + 1
  BY DEF Extend
<1>2. SameEntries /\ w'.live = w.live
  BY <1>1 DEF SameEntries
<1>3. Types'
  BY <1>1 DEF Types
<1>4. LogOk' /\ RingOk' /\ ReservedOk' /\ EntryOk'
  BY <1>1, <1>2, EntriesKept DEF Types
<1>5. LiveOk'
  BY <1>2, LiveKept
<1>6. HeadersOk' /\ PhaseOk'
  BY <1>1 DEF HeadersOk, PhaseOk, InForce
<1> QED
  BY <1>1, <1>3, <1>4, <1>5, <1>6

\* A logged write is made in the file.
LEMMA ApplyOk == IInv /\ ApplyWrite => IInv'
<1> SUFFICES ASSUME IInv, ApplyWrite PROVE IInv'
  OBVIOUS
<1> USE DEF IInv
<1>1. /\ headers' = headers /\ log' = log /\ states' = states /\ res' = res
      /\ flushed' = flushed /\ length' = length
      /\ w' = [w EXCEPT !.applied = w.applied + 1]
  BY DEF ApplyWrite
<1>2. /\ w' \in Writer /\ w'.live = w.live /\ w'.pc = w.pc /\ w'.sessions = w.sessions
      /\ w'.guid = w.guid /\ w'.sequence = w.sequence /\ w'.head = w.head
      /\ w'.entry = w.entry /\ w'.pending = w.pending /\ w'.reserved = w.reserved
  <2> DEFINE k == w.applied + 1
  <2>1. w' = [w EXCEPT !.applied = k]
    BY <1>1
  <2>2. k \in Nat
    BY DEF Types, Writer
  <2> HIDE DEF k
  <2> QED
    BY <2>1, <2>2, Zenon DEF Types, Writer
<1>3. SameEntries
  BY <1>1, <1>2 DEF SameEntries
<1>4. Types'
  BY <1>1, <1>2 DEF Types
<1>5. LogOk' /\ RingOk' /\ ReservedOk' /\ EntryOk'
  BY <1>1, <1>3, EntriesKept DEF Types
<1>6. LiveOk'
  BY <1>2, <1>3, LiveKept
<1>7. HeadersOk' /\ PhaseOk'
  BY <1>1, <1>2 DEF HeadersOk, PhaseOk, InForce
<1> QED
  BY <1>1, <1>4, <1>5, <1>6, <1>7, Zenon

\* The writer stops; of what the file grew by, any part may be lost that was not
\* flushed.
LEMMA CrashOk == IInv /\ Crash => IInv'
<1> SUFFICES ASSUME IInv, Crash PROVE IInv'
  OBVIOUS
<1> USE DEF IInv
<1>1. /\ headers' = headers /\ log' = log /\ states' = states /\ res' = res
      /\ flushed' = flushed /\ length' \in flushed..length
      /\ w' = [w EXCEPT !.pc = "stopped"]
  BY DEF Crash
<1>2. /\ w' \in Writer /\ w'.live = w.live /\ w'.pc = "stopped" /\ w'.sessions = w.sessions
      /\ w'.guid = w.guid /\ w'.sequence = w.sequence /\ w'.head = w.head
      /\ w'.entry = w.entry /\ w'.pending = w.pending /\ w'.reserved = w.reserved
  BY <1>1, Zenon DEF Types, Writer
<1>3. SameEntries
  BY <1>1, <1>2 DEF SameEntries
<1>4. Types'
  BY <1>1, <1>2 DEF Types
<1>5. LogOk' /\ RingOk' /\ ReservedOk' /\ EntryOk'
  BY <1>1, <1>3, EntriesKept DEF Types
<1>6. LiveOk'
  BY <1>2, <1>3, LiveKept
<1>7. HeadersOk' /\ PhaseOk'
  BY <1>1, <1>2 DEF HeadersOk, PhaseOk, InForce
<1> QED
  BY <1>1, <1>4, <1>5, <1>6, <1>7

\* fsmnt opens what is left.
LEMMA OpenOk == IInv /\ open_layer => IInv'
<1> SUFFICES ASSUME IInv, open_layer PROVE IInv'
  OBVIOUS
<1> USE DEF IInv
<1>1. /\ headers' = headers /\ log' = log /\ states' = states /\ w' = w
      /\ flushed' = flushed /\ length' = length
      /\ res' \in OpenedViews(headers, log, file, length)
  BY DEF open_layer
<1>2. SameEntries /\ w'.live = w.live
  BY <1>1 DEF SameEntries
<1>3. Types'
  BY <1>1 DEF Types
<1>4. LogOk' /\ RingOk' /\ ReservedOk' /\ EntryOk'
  BY <1>1, <1>2, EntriesKept, SMTT(20) DEF Types
<1>5. LiveOk'
  BY <1>2, LiveKept
<1>6. HeadersOk' /\ PhaseOk'
  BY <1>1 DEF HeadersOk, PhaseOk, InForce
<1>7. res'.status # "refused"
  BY <1>1, OpensAlways
<1> QED
  BY <1>3, <1>4, <1>5, <1>6, <1>7

\* The first live entry is durable in the file.
LEMMA RetireOk == IInv /\ Retire => IInv'
<1> SUFFICES ASSUME IInv, Retire PROVE IInv'
  OBVIOUS
<1> USE DEF IInv
<1>1. /\ headers' = headers /\ log' = log /\ states' = states /\ res' = res
      /\ flushed' = length /\ length' = length /\ w.pc = "running" /\ w.live # <<>>
      /\ w' = [w EXCEPT !.live = Tail(w.live), !.applied = 0]
  BY DEF Retire
<1>2. Tail(w.live) \in Seq(Placed)
  <2>1. w.live \in Seq(Placed)
    BY DEF Types, Writer
  <2> QED
    BY <1>1, <2>1
<1>3. /\ w' \in Writer /\ w'.live = Tail(w.live) /\ w'.pc = "running" /\ w'.sessions = w.sessions
      /\ w'.guid = w.guid /\ w'.sequence = w.sequence /\ w'.head = w.head
      /\ w'.entry = w.entry /\ w'.pending = w.pending /\ w'.reserved = w.reserved
  <2> DEFINE l == Tail(w.live)
  <2>1. w' = [w EXCEPT !.live = l, !.applied = 0] /\ l \in Seq(Placed)
    BY <1>1, <1>2
  <2> HIDE DEF l
  <2>2. /\ w' \in Writer /\ w'.live = l /\ w'.pc = w.pc /\ w'.sessions = w.sessions
        /\ w'.guid = w.guid /\ w'.sequence = w.sequence /\ w'.head = w.head
        /\ w'.entry = w.entry /\ w'.pending = w.pending /\ w'.reserved = w.reserved
    BY <2>1, Zenon DEF Types, Writer
  <2> QED
    BY <1>1, <2>2 DEF l
<1>4. SameEntries
  BY <1>1, <1>3 DEF SameEntries
<1>5. Types'
  BY <1>1, <1>3 DEF Types
<1>6. LogOk' /\ RingOk' /\ ReservedOk' /\ EntryOk'
  BY <1>1, <1>4, EntriesKept DEF Types
<1>7. LiveOk'
  <2> DEFINE r == w.reserved
             n == Len(r)
  <2>1. PICK m \in 1..(n + 1) :
          /\ w.live = SubSeq(r, m, n)
          /\ w.entry # NoEntry => \E t \in 1..m : ReachesTo(t)
    BY DEF LiveOk
  <2>2. r \in Seq(Placed) /\ n \in Nat
    BY DEF Types, Writer
  <2> HIDE DEF r
  <2>3. m <= n
    BY <1>1, <2>1, <2>2
  <2>4. Tail(SubSeq(r, m, n)) = SubSeq(r, m + 1, n)
    BY <2>2, <2>3
  <2>5. w'.live = SubSeq(w'.reserved, m + 1, Len(w'.reserved))
    BY <1>3, <2>1, <2>4 DEF r
  <2>6. \A t : ReachesTo(t)' <=> ReachesTo(t)
    BY <1>3 DEF ReachesTo, InFlight
  <2>7. m + 1 \in 1..(Len(w'.reserved) + 1) /\ 1..m \subseteq 1..(m + 1)
    BY <1>3, <2>2, <2>3 DEF r
  <2>8. w'.entry # NoEntry => \E t \in 1..(m + 1) : ReachesTo(t)'
    BY <1>3, <2>1, <2>6, <2>7
  <2> QED
    BY <2>5, <2>7, <2>8 DEF LiveOk
<1>8. HeadersOk' /\ PhaseOk'
  BY <1>1, <1>3 DEF HeadersOk, PhaseOk, InForce
<1> QED
  BY <1>1, <1>5, <1>6, <1>7, <1>8

\* The header that is rewritten is the older one.
LEMMA OlderIs ==
  ASSUME Types, HeadersOk
  PROVE  OlderHeader = IF headers[1].sequence < headers[2].sequence THEN 1 ELSE 2
  BY DEF Types, HeadersOk, InForce, OlderHeader

\* The older header is torn.
LEMMA BeginHeaderOk ==
  ASSUME IInv, NEW pc \in {"on", "off"}, BeginHeader(pc, TRUE),
         pc = "on" => w.pc = "starting" /\ w.live # <<>>,
         pc = "off" => w.pc = "running" /\ w.live = <<>> /\ w.entry = NoEntry
  PROVE  IInv'
<1> USE DEF IInv
<1>1. /\ headers' = [headers EXCEPT ![OlderHeader].ok = FALSE]
      /\ log' = log /\ states' = states /\ res' = res
      /\ flushed' = flushed /\ length' = length
      /\ w' = [w EXCEPT !.pc = pc]
  BY DEF BeginHeader
<1>2. /\ w' \in Writer /\ w'.live = w.live /\ w'.pc = pc /\ w'.sessions = w.sessions
      /\ w'.guid = w.guid /\ w'.sequence = w.sequence /\ w'.head = w.head
      /\ w'.entry = w.entry /\ w'.pending = w.pending /\ w'.reserved = w.reserved
  BY <1>1, Zenon DEF Types, Writer
<1>3. SameEntries
  BY <1>1, <1>2 DEF SameEntries
<1>4. OlderHeader \in 1..2
  BY DEF OlderHeader
<1>5. headers' \in [1..2 -> [ok : BOOLEAN, sequence : Nat, log_guid : Nat]]
  BY <1>1, <1>4, Zenon DEF Types
<1>6. Types'
  BY <1>1, <1>2, <1>5 DEF Types
<1>7. LogOk' /\ RingOk' /\ ReservedOk' /\ EntryOk'
  BY <1>1, <1>3, EntriesKept DEF Types
<1>8. LiveOk'
  BY <1>2, <1>3, LiveKept
<1>9. /\ headers'[1].sequence = headers[1].sequence
      /\ headers'[2].sequence = headers[2].sequence
      /\ InForce' = InForce
  BY <1>1, OlderIs, SMTT(20) DEF Types, HeadersOk, InForce
<1>10. HeadersOk'
  BY <1>2, <1>9 DEF HeadersOk
<1>11. PhaseOk'
  BY <1>2 DEF PhaseOk
<1> QED
  BY <1>1, <1>6, <1>7, <1>8, <1>10, <1>11

\* A live entry is a reserved one.
LEMMA LiveIsReserved ==
  ASSUME Types, LiveOk, w.live # <<>>
  PROVE  w.reserved # <<>>
<1> DEFINE r == w.reserved
<1>1. PICK m \in 1..(Len(r) + 1) : w.live = SubSeq(r, m, Len(r))
  BY DEF LiveOk
<1>2. r = <<>> => SubSeq(r, m, Len(r)) = <<>>
  BY <1>1
<1> QED
  BY <1>1, <1>2

\* The torn header is whole again, and in force.
LEMMA HeaderWholeOk == IInv /\ HeaderWhole => IInv'
<1> SUFFICES ASSUME IInv, HeaderWhole PROVE IInv'
  OBVIOUS
<1> USE DEF IInv
<1> DEFINE pc == IF w.pc = "on" THEN "running" ELSE "closed"
           guid == IF w.pc = "on" THEN w.guid ELSE NoGuid
           new == Header(TRUE, NewestSequence + 1, guid)
<1>1. /\ headers' = [headers EXCEPT ![OlderHeader] = new]
      /\ log' = log /\ states' = states /\ res' = res
      /\ flushed' = flushed /\ length' = length /\ w.pc \in {"on", "off"}
      /\ w' = [w EXCEPT !.pc = pc]
  BY DEF HeaderWhole
<1>2. /\ w' \in Writer /\ w'.live = w.live /\ w'.pc = pc /\ w'.sessions = w.sessions
      /\ w'.guid = w.guid /\ w'.sequence = w.sequence /\ w'.head = w.head
      /\ w'.entry = w.entry /\ w'.pending = w.pending /\ w'.reserved = w.reserved
  <2>1. pc \in {"closed", "running"}
    OBVIOUS
  <2> HIDE DEF pc, new
  <2> QED
    BY <1>1, <2>1, Zenon DEF Types, Writer
<1>3. SameEntries
  BY <1>1, <1>2 DEF SameEntries
<1>4. /\ OlderHeader \in 1..2 /\ NewestSequence \in Nat /\ guid \in Nat
      /\ headers[1].sequence <= NewestSequence /\ headers[2].sequence <= NewestSequence
  <2>1. headers[1].sequence \in Nat /\ headers[2].sequence \in Nat /\ w.guid \in Nat
    BY DEF Types, Writer
  <2> QED
    BY <2>1 DEF OlderHeader, NewestSequence, NoGuid
<1>5. /\ new \in [ok : BOOLEAN, sequence : Nat, log_guid : Nat]
      /\ new.ok /\ new.sequence = NewestSequence + 1 /\ new.log_guid = guid
  BY <1>4 DEF Header
<1> HIDE DEF new
<1>6. headers' \in [1..2 -> [ok : BOOLEAN, sequence : Nat, log_guid : Nat]]
  BY <1>1, <1>4, <1>5 DEF Types
<1>7. Types'
  BY <1>1, <1>2, <1>6 DEF Types
<1>8. LogOk' /\ RingOk' /\ ReservedOk' /\ EntryOk'
  BY <1>1, <1>3, EntriesKept DEF Types
<1>9. LiveOk'
  BY <1>2, <1>3, LiveKept
<1>10. InForce' = new /\ headers'[1].sequence # headers'[2].sequence
  <2>1. headers[1].sequence \in Nat /\ headers[2].sequence \in Nat
    BY DEF Types
  <2>2. DOMAIN headers = 1..2
    BY DEF Types
  <2>3. CASE OlderHeader = 1
    <3>1. headers'[1] = new /\ headers'[2] = headers[2]
      BY <1>1, <2>2, <2>3, SMTT(20)
    <3> QED
      BY <1>4, <1>5, <2>1, <3>1, SMTT(20) DEF InForce
  <2>4. CASE OlderHeader = 2
    <3>1. headers'[2] = new /\ headers'[1] = headers[1]
      BY <1>1, <2>2, <2>4
    <3> QED
      BY <1>4, <1>5, <2>1, <3>1 DEF InForce
  <2> QED
    BY <1>4, <2>3, <2>4
<1>11. HeadersOk'
  <2>1. w.pc = "on" => w.reserved # <<>>
    BY LiveIsReserved DEF PhaseOk
  <2> QED
    BY <1>1, <1>2, <1>5, <1>10, <2>1, SMTT(20) DEF HeadersOk
<1>12. PhaseOk'
  BY <1>1, <1>2 DEF PhaseOk
<1> QED
  BY <1>1, <1>7, <1>8, <1>9, <1>11, <1>12

\* Another session begins, with a log of its own.
LEMMA SessionOk == IInv /\ OpenSession => IInv'
<1> SUFFICES ASSUME IInv, OpenSession PROVE IInv'
  OBVIOUS
<1> USE DEF IInv
<1>1. /\ headers' = headers /\ log' = log /\ states' = states /\ res' = res
      /\ flushed' = flushed /\ length' = length /\ w.pc = "closed"
      /\ w' = [w EXCEPT !.pc = "starting", !.sessions = w.sessions + 1, !.sequence = 1,
                        !.guid = w.sessions + 1, !.reserved = <<>>]
  BY DEF OpenSession
<1>2. /\ w' \in Writer /\ w'.live = w.live /\ w'.pc = "starting"
      /\ w'.sessions = w.sessions + 1
      /\ w'.guid = w.sessions + 1 /\ w'.sequence = 1 /\ w'.head = w.head
      /\ w'.entry = w.entry /\ w'.pending = w.pending /\ w'.reserved = <<>>
  <2> DEFINE k == w.sessions + 1
  <2>1. w' = [w EXCEPT !.pc = "starting", !.sessions = k, !.sequence = 1,
                       !.guid = k, !.reserved = <<>>]
    BY <1>1
  <2>2. k \in Nat /\ <<>> \in Seq(Placed)
    BY SMTT(20) DEF Types, Writer
  <2>3. w \in Writer /\ 1 \in Nat \ {0}
    BY DEF Types
  <2> DEFINE none == <<>>
             one == 1
  <2>4. none \in Seq(Placed) /\ one \in Nat \ {0}
    BY <2>2, <2>3
  <2>5. w' = [w EXCEPT !.pc = "starting", !.sessions = k, !.sequence = one,
                       !.guid = k, !.reserved = none]
    BY <2>1
  <2> HIDE DEF k, none, one
  <2>6. /\ w'.live = w.live /\ w'.pc = "starting"
        /\ w'.sessions = k
        /\ w'.guid = k /\ w'.sequence = one /\ w'.head = w.head
        /\ w'.entry = w.entry /\ w'.pending = w.pending /\ w'.reserved = none
    BY <2>3, <2>5 DEF Writer
  <2>7. w' \in Writer
    BY <2>2, <2>3, <2>4, <2>5, Zenon DEF Writer
  <2> QED
    BY <2>6, <2>7 DEF k, none, one
<1>3. /\ w.entry = NoEntry /\ w.live = <<>>
      /\ w.guid \in Nat /\ w'.guid \in Nat /\ w.guid < w'.guid
  <2>1. w.entry = NoEntry /\ w.live = <<>> /\ w.guid = w.sessions
    BY <1>1 DEF PhaseOk
  <2>2. w.sessions \in Nat
    BY DEF Types, Writer
  <2> QED
    BY <1>2, <2>1, <2>2
<1>4. Types'
  BY <1>1, <1>2 DEF Types
<1>5. LogOk'
  <2>1. ASSUME NEW o \in Ring, log[o].entry # NoEntry PROVE Past(o)'
    <3>1. log[o].entry.guid \in Nat
      <4>1. log[o].entry \in Entry
        BY <2>1 DEF Types
      <4> QED
        BY <4>1 DEF Entry
    <3>2. Past(o)
      BY <2>1 DEF LogOk
    <3>3. log[o].entry.guid <= w.guid
      BY <1>3, <2>1, <3>1, <3>2, SMTT(20) DEF Past
    <3>4. log[o].entry.guid < w'.guid
      BY <1>3, <3>1, <3>3
    <3> QED
      BY <1>1, <3>4 DEF Past
  <2>2. \A o \in Ring : First(o)' <=> First(o)
    BY <1>1 DEF First
  <2> QED
    BY <1>1, <2>1, <2>2 DEF LogOk
<1>6. RingOk'
  <2> DEFINE c == [k \in 1..1 |-> w.head]
  <2>1. w.head \in Ring /\ w.head \in Nat /\ Len(<<>>) = 0
    BY LogAssumption DEF Types, Writer, Ring
  <2>2. w.head % LogSectors = w.head
    BY <2>1, InRing DEF Ring
  <2>3. At(c, <<>>, w.head) /\ RoomFor(c, <<>>, NoEntry)
    BY <2>1, <2>2, LogAssumption, SMTT(20) DEF At, RoomFor
  <2> HIDE DEF c
  <2> QED
    BY <1>2, <1>3, <2>3 DEF RingOk
<1>7. ReservedOk' /\ EntryOk'
  BY <1>1, <1>2, <1>3, SMTT(20) DEF ReservedOk, EntryOk
<1>8. LiveOk'
  <2>1. Len(<<>>) = 0 /\ SubSeq(<<>>, 1, 0) = <<>>
    OBVIOUS
  <2> QED
    BY <1>2, <1>3, <2>1 DEF LiveOk
<1>9. HeadersOk'
  BY <1>1, <1>2 DEF HeadersOk, InForce
<1>10. PhaseOk'
  BY <1>2 DEF PhaseOk
<1> QED
  BY <1>1, <1>4, <1>5, <1>6, <1>7, <1>8, <1>9, <1>10

\* ReservedSectors is the distance from the first reserved entry to the head.
LEMMA SumIs ==
  ASSUME Types, NEW c, At(c, w.reserved, w.head)
  PROVE  ReservedSectors = c[Len(w.reserved) + 1] - c[1]
<1> DEFINE r == w.reserved
           n == Len(r)
<1>1. r \in Seq(Placed) /\ n \in Nat
  BY DEF Types, Writer
<1>2. PICK f : IsFold(f, "sum", r, 0, n) /\ ReservedSectors = f[n]
  <2>1. \E f : IsFold(f, "sum", r, 0, n)
    BY <1>1, FoldExists
  <2> QED
    BY <2>1, SumUnfoldsTo, Zenon
<1>3. f[0] = Base("sum") /\ \A i \in 1..n : f[i] = Step("sum", r, 0, f[i - 1], i)
  BY <1>1, <1>2, FoldSteps, Zenon
<1>4. f[0] = 0 /\ \A i \in 1..n : f[i] = f[i - 1] + r[i].entry.length
  BY <1>3 DEF Base, Step
<1>5. /\ \A k \in 1..(n + 1) : c[k] \in Nat
      /\ \A k \in 1..n : c[k + 1] = c[k] + r[k].entry.length
  BY DEF At
<1> HIDE DEF r, n
<1>6. \A k \in 1..n : r[k].entry.length \in Nat
  <2>1. \A k \in 1..n : r[k] \in Placed
    BY <1>1 DEF n
  <2>2. \A k \in 1..n : r[k].entry \in Entry
    BY <2>1 DEF Placed
  <2> QED
    BY <2>2 DEF Entry
<1> DEFINE N == {k \in Nat : k <= n => f[k] = c[k + 1] - c[1]}
<1>7. 0 \in N
  <2>1. c[1] \in Nat
    BY <1>1, <1>5, SMTT(20)
  <2> QED
    BY <1>4, <2>1
<1>8. ASSUME NEW k \in Nat, k \in N PROVE k + 1 \in N
  <2> SUFFICES ASSUME k + 1 <= n PROVE f[k + 1] = c[k + 1 + 1] - c[1]
    OBVIOUS
  <2>1. k + 1 \in 1..n /\ k <= n /\ (k + 1) - 1 = k /\ 1 \in 1..(n + 1) /\ k + 1 \in 1..(n + 1)
    BY <1>1
  <2>2. f[k] = c[k + 1] - c[1]
    BY <1>8, <2>1
  <2>3. f[k + 1] = f[k] + r[k + 1].entry.length
    BY <1>4, <2>1
  <2>4. c[k + 1 + 1] = c[k + 1] + r[k + 1].entry.length
    BY <1>5, <2>1
  <2>5. c[k + 1] \in Nat /\ c[1] \in Nat /\ r[k + 1].entry.length \in Nat
    BY <1>5, <1>6, <2>1
  <2> QED
    BY <2>2, <2>3, <2>4, <2>5
<1>9. n \in N
  BY <1>1, <1>7, <1>8, NatInductive, Zenon
<1> QED
  BY <1>1, <1>2, <1>9 DEF n, r

\* Patching a block with logged writes leaves it a value.
LEMMA PatchIsValue ==
  ASSUME NEW runs \in Seq(Write), NEW b, NEW v \in Nat
  PROVE  Patch(runs, b, v) \in Nat
<1> DEFINE hits == {i \in DOMAIN runs : runs[i].block = b}
           x == CHOOSE i \in hits : \A j \in hits : j <= i
<1>1. CASE hits = {}
  BY <1>1 DEF Patch
<1>2. CASE hits # {}
  <2>1. Len(runs) \in Nat /\ hits \subseteq 1..Len(runs)
    OBVIOUS
  <2>2. \E i \in hits : \A j \in hits : j <= i
    BY <1>2, <2>1, GreatestNumber, Zenon
  <2>3. x \in hits
    BY <2>2
  <2>4. runs[x] \in Write
    BY <2>1, <2>3
  <2>5. Patch(runs, b, v) = runs[x].value
    BY <1>2 DEF Patch
  <2> HIDE DEF x
  <2> QED
    BY <2>4, <2>5 DEF Write
<1> QED
  BY <1>1, <1>2

\* The entry that BeginEntry makes of a payload.
Logged(payload) ==
  [i \in DOMAIN payload |-> [block |-> payload[i].block,
                             value |-> IF payload[i].zero THEN 0 ELSE Len(states)]]
Data(payload) == Cardinality({i \in DOMAIN payload : ~payload[i].zero})
NewTail == IF w.live = <<>> THEN w.head ELSE w.live[1].offset
NewEntry(payload) ==
  [guid |-> w.guid, sequence |-> w.sequence, length |-> 1 + Data(payload),
   tail |-> NewTail, writes |-> Logged(payload), flushed |-> flushed, last |-> length]

\* The entry is one, when there is room for it.
LEMMA NewEntryIs ==
  ASSUME IInv, NEW p \in Payloads, ReservedSectors + (1 + Data(p)) <= LogSectors
  PROVE  /\ NewEntry(p) \in Entry /\ Data(p) \in Nat
         /\ \E m \in 1..(Len(w.reserved) + 1) :
              /\ w.live = SubSeq(w.reserved, m, Len(w.reserved))
              /\ NewTail = (IF m = Len(w.reserved) + 1 THEN w.head ELSE w.reserved[m].offset)
<1> USE DEF IInv
<1> DEFINE r == w.reserved
           n == Len(r)
<1>1. r \in Seq(Placed) /\ n \in Nat /\ w.head \in Ring
  BY DEF Types, Writer
<1>2. PICK m \in 1..(n + 1) : w.live = SubSeq(r, m, n)
  BY DEF LiveOk
<1>3. NewTail = IF m = n + 1 THEN w.head ELSE r[m].offset
  <2>1. CASE m = n + 1
    <3>1. SubSeq(r, m, n) = <<>>
      BY <1>1, <2>1
    <3> QED
      BY <1>2, <2>1, <3>1 DEF NewTail
  <2>2. CASE m # n + 1
    <3>1. Len(SubSeq(r, m, n)) = n - m + 1 /\ SubSeq(r, m, n)[1] = r[m]
      BY <1>1, <2>2
    <3>2. SubSeq(r, m, n) # <<>>
      <4> DEFINE sub == SubSeq(r, m, n)
      <4>1. Len(sub) # 0
        <5>1. n - m + 1 # 0
          <6> HIDE DEF n
          <6> QED
            BY <1>1, <2>2
        <5> QED
          BY <3>1, <5>1
      <4> HIDE DEF sub
      <4>2. sub # <<>>
        BY <4>1
      <4> QED
        BY <4>2 DEF sub
    <3> QED
      BY <1>2, <2>2, <3>1, <3>2 DEF NewTail
  <2> QED
    BY <2>1, <2>2
<1>4. NewTail \in Ring
  <2>1. m # n + 1 => r[m] \in Placed
    BY <1>1
  <2> QED
    BY <1>1, <1>3, <2>1 DEF Placed
<1> DEFINE Part == [block : AllBlocks, zero : BOOLEAN]
<1>5. p \in Seq(Part)
  BY CrashAssumption, Zenon DEF AllBlocks
<1> HIDE DEF Part
<1>6. Data(p) \in Nat
  <2>1. DOMAIN p = 1..Len(p) /\ Len(p) \in Nat
    BY <1>5
  <2>2. IsFiniteSet(DOMAIN p)
    BY <2>1, FS_Interval
  <2>3. IsFiniteSet({i \in DOMAIN p : ~p[i].zero})
    BY <2>2, FS_Subset
  <2> QED
    BY <2>3, FS_CardinalityType DEF Data
<1>7. 1 + Data(p) \in 1..LogSectors
  <2>1. PICK c : At(c, r, w.head)
    BY DEF RingOk
  <2>2. ReservedSectors = c[n + 1] - c[1]
    BY <2>1, SumIs
  <2>3. c[n + 1] \in Nat /\ c[1] \in Nat /\ (n = 0 \/ c[1] < c[n + 1])
    <3>1. c \in [1..(n + 1) -> Nat]
      BY <2>1 DEF At
    <3>2. \A i, j \in 1..(n + 1) : i < j => c[i] < c[j]
      BY <1>1, <2>1, Rising
    <3> HIDE DEF n
    <3> QED
      BY <1>1, <3>1, <3>2, SMTT(20)
  <2> HIDE DEF n
  <2> QED
    BY <1>1, <1>6, <2>2, <2>3, LogAssumption, SMTT(20)
<1>8. Logged(p) \in Seq(Write)
  <2>1. DOMAIN p = 1..Len(p) /\ Len(p) \in Nat /\ Len(states) \in Nat
    BY <1>5, SMTT(20) DEF Types
  <2>2. ASSUME NEW i \in 1..Len(p) PROVE Logged(p)[i] \in Write
    <3>1. p[i] \in Part
      BY <1>5
    <3>2. p[i].block \in AllBlocks
      BY <3>1 DEF Part
    <3>3. Logged(p)[i] = [block |-> p[i].block,
                          value |-> IF p[i].zero THEN 0 ELSE Len(states)]
      BY <2>1 DEF Logged
    <3> QED
      BY <2>1, <3>2, <3>3 DEF Write
  <2>3. Logged(p) = [i \in 1..Len(p) |-> Logged(p)[i]]
    BY <2>1 DEF Logged
  <2>4. Logged(p) \in [1..Len(p) -> Write]
    BY <2>2, <2>3
  <2> QED
    BY <2>1, <2>4
<1>9. NewEntry(p) \in Entry
  <2>1. w.guid \in Nat /\ w.sequence \in Nat \ {0} /\ flushed \in Nat /\ length \in Nat
    BY DEF Types, Writer
  <2> DEFINE d == 1 + Data(p)
  <2>2. NewEntry(p) = [guid |-> w.guid, sequence |-> w.sequence, length |-> d,
                       tail |-> NewTail, writes |-> Logged(p), flushed |-> flushed,
                       last |-> length]
    BY DEF NewEntry
  <2>3. d \in 1..LogSectors
    BY <1>7
  <2> HIDE DEF d
  <2> QED
    BY <1>4, <1>8, <2>1, <2>2, <2>3, SMTT(20) DEF Entry
<1> QED
  BY <1>2, <1>3, <1>6, <1>9

\* An entry is begun: nothing of it is in the log yet, and it fits.
LEMMA BeginEntryOk ==
  ASSUME IInv, NEW p \in Payloads, BeginEntry(p)
  PROVE  IInv'
<1> USE DEF IInv
<1> DEFINE new == NewEntry(p)
           old == states[Len(states)]
<1>1. /\ w.pc = "running" \/ w.pc = "starting"
      /\ w.entry = NoEntry
      /\ ReservedSectors + (1 + Data(p)) <= LogSectors
      /\ w' = [w EXCEPT !.entry = new, !.pending = 0..Data(p)]
      /\ states' = Append(states, After(old, Logged(p)))
      /\ headers' = headers /\ log' = log /\ res' = res
      /\ flushed' = flushed /\ length' = length
  BY DEF BeginEntry, NewEntry, Data, Logged, NewTail
<1>2. new \in Entry /\ Data(p) \in Nat
  BY <1>1, NewEntryIs
<1>3. PICK m \in 1..(Len(w.reserved) + 1) :
        /\ w.live = SubSeq(w.reserved, m, Len(w.reserved))
        /\ NewTail = (IF m = Len(w.reserved) + 1 THEN w.head ELSE w.reserved[m].offset)
  BY <1>1, NewEntryIs
<1>4. /\ new.guid = w.guid /\ new.sequence = w.sequence /\ new.length = 1 + Data(p)
      /\ new.tail = NewTail /\ new.writes = Logged(p) /\ new.flushed = flushed
  BY DEF NewEntry
<1>5. Logged(p) \in Seq(Write)
  BY <1>2, <1>4 DEF Entry
<1> DEFINE P == 0..Data(p)
<1>6. P \subseteq Nat
  BY <1>2
<1>7. new # NoEntry
  <2>1. new.sequence \in Nat \ {0} /\ NoEntry.sequence = 0
    BY <1>2 DEF Entry, NoEntry
  <2> HIDE DEF new
  <2> QED
    BY <2>1
<1>8. w' = [w EXCEPT !.entry = new, !.pending = P]
  BY <1>1
<1> HIDE DEF new, P
<1>9. /\ w' \in Writer /\ w'.live = w.live /\ w'.pc = w.pc /\ w'.sessions = w.sessions
      /\ w'.guid = w.guid /\ w'.sequence = w.sequence /\ w'.head = w.head
      /\ w'.entry = new /\ w'.pending = P /\ w'.reserved = w.reserved
  BY <1>2, <1>6, <1>8, Zenon DEF Types, Writer
<1>10. states' \in Seq([AllBlocks -> Nat]) /\ states' # <<>>
  <2> DEFINE Content == [AllBlocks -> Nat]
  <2>1. states \in Seq(Content) /\ states # <<>>
    BY DEF Types
  <2> HIDE DEF Content
  <2>2. Len(states) \in 1..Len(states)
    BY <2>1
  <2>3. old \in Content
    BY <2>1, <2>2
  <2>4. After(old, Logged(p)) \in Content
    <3>1. ASSUME NEW b \in AllBlocks PROVE Patch(Logged(p), b, old[b]) \in Nat
      <4>1. old[b] \in Nat
        BY <2>3 DEF Content
      <4> QED
        BY <1>5, <4>1, PatchIsValue
    <3> QED
      BY <3>1 DEF After, Content
  <2> DEFINE a == After(old, Logged(p))
  <2> HIDE DEF a
  <2>5. Append(states, a) \in Seq(Content) /\ Len(Append(states, a)) = Len(states) + 1
    BY <2>1, <2>4 DEF a
  <2>6. states' = Append(states, a)
    BY <1>1 DEF a
  <2>7. states' \in Seq(Content) /\ Len(states') # 0
    BY <2>1, <2>5, <2>6
  <2>8. states' # <<>>
    BY <2>7
  <2> QED
    BY <2>7, <2>8 DEF Content
<1>11. Types'
  BY <1>1, <1>9, <1>10, Zenon DEF Types
<1>12. LogOk'
  <2>1. ASSUME NEW o \in Ring, log[o].entry # NoEntry PROVE Past(o)'
    <3>1. Past(o)
      BY <2>1 DEF LogOk
    <3>2. \/ log[o].entry.guid < w.guid
          \/ log[o].entry.guid = w.guid /\ log[o].entry.sequence < w.sequence
      BY <1>1, <2>1, <3>1 DEF Past
    <3> QED
      BY <1>1, <1>9, <3>2 DEF Past
  <2>2. \A o \in Ring : First(o)' <=> First(o)
    BY <1>1 DEF First
  <2> QED
    BY <1>1, <2>1, <2>2 DEF LogOk
<1>13. RingOk'
  <2>1. PICK c : At(c, w.reserved, w.head)
    BY DEF RingOk
  <2>2. ReservedSectors = c[Len(w.reserved) + 1] - c[1]
    BY <2>1, SumIs
  <2> DEFINE n == Len(w.reserved)
  <2>3. n \in Nat
    BY DEF Types, Writer
  <2>4. c[n + 1] \in Nat /\ c[1] \in Nat
    <3>1. c \in [1..(n + 1) -> Nat]
      BY <2>1 DEF At
    <3> HIDE DEF n
    <3> QED
      BY <2>3, <3>1, SMTT(20)
  <2>5. (c[n + 1] - c[1]) + (1 + Data(p)) <= LogSectors
    BY <1>1, <2>2
  <2> HIDE DEF n
  <2>6. c[n + 1] + new.length <= c[1] + LogSectors
    BY <1>2, <1>4, <2>4, <2>5, LogAssumption, SMTT(20)
  <2>7. RoomFor(c, w.reserved, new)
    BY <1>7, <2>6 DEF RoomFor, n
  <2> QED
    BY <1>9, <2>1, <2>7 DEF RingOk
<1>14. ReservedOk'
  BY <1>1, <1>9 DEF ReservedOk, Intact
<1>15. EntryOk'
  <2>1. new.length - 1 = Data(p)
    BY <1>2, <1>4
  <2>2. P = 0..(new.length - 1)
    BY <2>1 DEF P
  <2>3. new.flushed <= flushed
    BY <1>4 DEF Types
  <2> QED
    BY <1>1, <1>4, <1>7, <1>9, <2>2, <2>3, Zenon DEF EntryOk
<1>16. LiveOk'
  <2> DEFINE n == Len(w.reserved)
             x == [offset |-> w.head, entry |-> new]
  <2>1. n \in Nat /\ w.reserved \in Seq(Placed)
    BY DEF Types, Writer
  <2>2. x.offset = w.head
    OBVIOUS
  <2> HIDE DEF x
  <2>3. Append(w.reserved, x)[m].offset = NewTail
    <3>1. m = n + 1 => Append(w.reserved, x)[m] = x
      BY <2>1
    <3>2. m # n + 1 => Append(w.reserved, x)[m] = w.reserved[m]
      BY <2>1, SMTT(20)
    <3> QED
      BY <1>3, <2>2, <3>1, <3>2
  <2>4. InFlight' = x
    BY <1>9 DEF InFlight, x
  <2>5. ReachesTo(m)'
    BY <1>4, <1>9, <2>3, <2>4 DEF ReachesTo
  <2>6. m \in 1..m
    BY <2>1
  <2> HIDE DEF n
  <2> QED
    BY <1>3, <1>9, <2>5, <2>6, Zenon DEF LiveOk
<1>17. HeadersOk'
  BY <1>1, <1>9 DEF HeadersOk, InForce
<1>18. PhaseOk'
  BY <1>1, <1>9 DEF PhaseOk
<1> QED
  BY <1>1, <1>11, <1>12, <1>13, <1>14, <1>15, <1>16, <1>17, <1>18, Zenon

\* A sector of the entry that is being written lies on no reserved entry, and on no
\* other sector of that entry.
LEMMA FreshSector ==
  ASSUME IInv, w.entry # NoEntry, NEW i \in 0..(w.entry.length - 1)
  PROVE  /\ (w.head + i) % LogSectors \in Ring
         /\ \A k \in 1..Len(w.reserved) : \A j \in 0..(w.reserved[k].entry.length - 1) :
              (w.reserved[k].offset + j) % LogSectors # (w.head + i) % LogSectors
         /\ \A j \in 0..(w.entry.length - 1) :
              j # i => (w.head + j) % LogSectors # (w.head + i) % LogSectors
<1> USE DEF IInv
<1> DEFINE r == w.reserved
           n == Len(r)
           l == w.entry.length
           L == LogSectors
<1>1. r \in Seq(Placed) /\ n \in Nat /\ w.head \in Nat
  BY LogAssumption DEF Types, Writer, Ring
<1>2. l \in 1..L /\ L \in Nat \ {0}
  <2>1. w.entry \in Entry
    BY DEF Types, Writer
  <2> QED
    BY <2>1, LogAssumption DEF Entry
<1>3. PICK c : At(c, r, w.head) /\ RoomFor(c, r, w.entry)
  BY DEF RingOk
<1>4. /\ \A k \in 1..(n + 1) : c[k] \in Nat
      /\ \A k \in 1..n : /\ r[k].offset = c[k] % L
                         /\ c[k + 1] = c[k] + r[k].entry.length
      /\ w.head = c[n + 1] % L
      /\ c[n + 1] + l <= c[1] + L
  BY <1>3, Zenon DEF At, RoomFor
<1>5. \A a, b \in 1..(n + 1) : a < b => c[a] < c[b]
  BY <1>1, <1>3, Rising
<1>6. i \in 0..(l - 1)
  OBVIOUS
<1>7. \A k \in 1..n : r[k].entry.length \in Nat
  <2> HIDE DEF r
  <2>1. \A k \in 1..n : r[k] \in Placed
    BY <1>1
  <2> HIDE DEF n
  <2>2. \A k \in 1..n : r[k].entry \in Entry
    BY <2>1 DEF Placed
  <2> QED
    BY <2>2 DEF Entry
<1> HIDE DEF r, n, l, L
<1>8. (w.head + i) % L \in 0..(L - 1)
  <2>1. w.head + i \in Nat
    BY <1>1, <1>2, <1>6, SMTT(20)
  <2> QED
    BY <1>2, <2>1, Remainder
<1>9. ASSUME NEW k \in 1..n, NEW j \in 0..(r[k].entry.length - 1)
      PROVE  (r[k].offset + j) % L # (w.head + i) % L
  <2>1. /\ k \in 1..(n + 1) /\ k + 1 \in 1..(n + 1) /\ n + 1 \in 1..(n + 1) /\ 1 \in 1..(n + 1)
        /\ (k = 1 \/ 1 < k) /\ (k + 1 = n + 1 \/ k + 1 < n + 1)
    BY <1>1, SMTT(20)
  <2>2. c[k] \in Nat /\ c[k + 1] \in Nat /\ c[n + 1] \in Nat /\ c[1] \in Nat
    BY <1>4, <2>1
  <2>3. c[1] <= c[k] /\ c[k + 1] <= c[n + 1]
    BY <1>5, <2>1, <2>2, SMTT(20)
  <2>4. r[k].entry.length \in Nat /\ c[k + 1] = c[k] + r[k].entry.length
    BY <1>4, <1>7
  <2>5. j \in Nat /\ i \in Nat /\ j < r[k].entry.length /\ i < l
    BY <1>2, <1>6, <2>4, SMTT(20)
  <2> DEFINE x == c[k] + j
             y == c[n + 1] + i
  <2>6. x \in Nat /\ y \in Nat /\ x < y /\ y < x + L
    <3>1. c[n + 1] + l <= c[1] + L /\ L \in Nat /\ l \in Nat
      BY <1>2, <1>4
    <3> QED
      BY <2>2, <2>3, <2>4, <2>5, <3>1, SMTT(20)
  <2>7. x % L # y % L
    <3> HIDE DEF x, y
    <3> QED
      BY <1>2, <2>6, Apart, Zenon
  <2>8. ((c[k] % L) + j) % L = x % L
    BY <1>2, <2>2, <2>5, Wrapped
  <2>9. ((c[n + 1] % L) + i) % L = y % L
    BY <1>2, <2>2, <2>5, Wrapped
  <2> HIDE DEF x, y
  <2> QED
    BY <1>4, <2>7, <2>8, <2>9
<1>10. ASSUME NEW j \in 0..(l - 1), j # i
       PROVE  (w.head + j) % L # (w.head + i) % L
  <2> DEFINE x == w.head + j
             y == w.head + i
  <2>1. x \in Nat /\ y \in Nat /\ x < y + L /\ y < x + L /\ (x < y \/ y < x)
    BY <1>1, <1>2, <1>6, <1>10, SMTT(20)
  <2> HIDE DEF x, y
  <2>2. x % L # y % L
    BY <1>2, <2>1, Apart, Zenon
  <2> QED
    BY <2>2, Zenon DEF x, y
<1> QED
  BY <1>8, <1>9, <1>10 DEF r, n, l, L, Ring

\* A sector of the entry reaches the log, in any order.
LEMMA WriteSectorOk ==
  ASSUME IInv, NEW i, WriteSector(i)
  PROVE  IInv'
<1> USE DEF IInv
<1> DEFINE z == (w.head + i) % LogSectors
           part == [entry |-> w.entry, index |-> i]
           P == w.pending \ {i}
<1>1. /\ w.pc \in {"starting", "running"} /\ i \in w.pending
      /\ log' = [log EXCEPT ![z] = part]
      /\ w' = [w EXCEPT !.pending = P]
      /\ headers' = headers /\ states' = states /\ res' = res
      /\ flushed' = flushed /\ length' = length
  BY DEF WriteSector
<1>2. w.entry # NoEntry /\ w.entry \in Entry
  BY <1>1, Zenon DEF EntryOk, Types, Writer
<1>3. /\ i \in 0..(w.entry.length - 1) /\ i \in Nat
      /\ w.entry.guid = w.guid /\ w.entry.sequence = w.sequence
      /\ w.entry.flushed <= flushed
  <2>1. w.entry.length \in Nat
    BY <1>2, LogAssumption DEF Entry
  <2>2. i \in 0..(w.entry.length - 1)
    BY <1>1, <1>2 DEF EntryOk
  <2> QED
    BY <1>2, <2>1, <2>2, SMTT(20) DEF EntryOk
<1>4. /\ z \in Ring
      /\ \A k \in 1..Len(w.reserved) : \A j \in 0..(w.reserved[k].entry.length - 1) :
           (w.reserved[k].offset + j) % LogSectors # z
      /\ \A j \in 0..(w.entry.length - 1) : j # i => (w.head + j) % LogSectors # z
  BY <1>2, <1>3, FreshSector
<1>5. i = 0 => z = w.head
  <2>1. w.head \in 0..(LogSectors - 1)
    BY DEF Types, Writer, Ring
  <2>2. (w.head + 0) % LogSectors = w.head
    BY <2>1, InRing
  <2> QED
    BY <2>2
<1>6. part.entry = w.entry /\ part.index = i
      /\ part \in [entry : Entry \cup {NoEntry}, index : Nat]
  BY <1>2, <1>3
<1>7. P \subseteq Nat /\ P \subseteq w.pending /\ \A j \in w.pending : j \in P \/ j = i
  BY DEF Types, Writer
<1> HIDE DEF z, part, P
<1>8. /\ w' \in Writer /\ w'.live = w.live /\ w'.pc = w.pc /\ w'.sessions = w.sessions
      /\ w'.guid = w.guid /\ w'.sequence = w.sequence /\ w'.head = w.head
      /\ w'.entry = w.entry /\ w'.pending = P /\ w'.reserved = w.reserved
  BY <1>1, <1>7, Zenon DEF Types, Writer
<1>9. log \in [Ring -> [entry : Entry \cup {NoEntry}, index : Nat]]
  BY DEF Types
<1>10. log'[z] = part /\ \A o \in Ring : o # z => log'[o] = log[o]
  BY <1>1, <1>4, <1>9
<1>11. log' \in [Ring -> [entry : Entry \cup {NoEntry}, index : Nat]]
  BY <1>1, <1>4, <1>6, <1>9
<1>12. Types'
  BY <1>1, <1>8, <1>11, Zenon DEF Types
<1>13. LogOk'
  <2>1. ASSUME NEW o \in Ring, o # z, log[o].entry # NoEntry
        PROVE  Past(o)' /\ log'[o].entry.flushed <= flushed'
    BY <1>1, <1>8, <1>10, <2>1 DEF LogOk, Past
  <2>2. ASSUME NEW o \in Ring, o = z
        PROVE  Past(o)' /\ log'[o].entry.flushed <= flushed'
    <3>1. log'[o] = part
      BY <1>10, <2>2
    <3> QED
      BY <1>1, <1>3, <1>5, <1>6, <1>8, <2>2, <3>1 DEF Past
  <2>3. ASSUME NEW o \in Ring, o # z, First(o),
               log[o].entry.guid = w.guid, log[o].entry.sequence = w.sequence
        PROVE  o = w.head
    <3>1. Past(o) /\ log[o].index = 0
      BY <2>3 DEF LogOk, First
    <3>2. w.guid \in Nat /\ w.sequence \in Nat
      BY DEF Types, Writer
    <3> QED
      BY <2>3, <3>1, <3>2, SMTT(20) DEF Past
  <2>4. ASSUME NEW o \in Ring, NEW p \in Ring, First(o)', First(p)',
               log'[o].entry.guid = log'[p].entry.guid,
               log'[o].entry.sequence = log'[p].entry.sequence
        PROVE  o = p
    <3>1. CASE o # z /\ p # z
      <4>1. log'[o] = log[o] /\ log'[p] = log[p]
        BY <1>10, <3>1
      <4>2. First(o) /\ First(p)
        BY <2>4, <4>1 DEF First
      <4> QED
        BY <2>4, <4>1, <4>2 DEF LogOk
    <3>2. CASE o # z /\ p = z
      <4>1. log'[o] = log[o] /\ log'[p] = part
        BY <1>10, <3>2
      <4>2. First(o) /\ i = 0
        BY <1>6, <2>4, <4>1, Zenon DEF First
      <4>3. o = w.head
        BY <1>3, <1>6, <2>3, <2>4, <3>2, <4>1, <4>2, Zenon
      <4> QED
        BY <1>5, <3>2, <4>2, <4>3
    <3>3. CASE o = z /\ p # z
      <4>1. log'[p] = log[p] /\ log'[o] = part
        BY <1>10, <3>3
      <4>2. First(p) /\ i = 0
        BY <1>6, <2>4, <4>1, Zenon DEF First
      <4>3. p = w.head
        BY <1>3, <1>6, <2>3, <2>4, <3>3, <4>1, <4>2, Zenon
      <4> QED
        BY <1>5, <3>3, <4>2, <4>3
    <3> QED
      BY <3>1, <3>2, <3>3, Zenon
  <2>5. \A o \in Ring : log'[o].entry # NoEntry =>
          Past(o)' /\ log'[o].entry.flushed <= flushed'
    BY <1>10, <2>1, <2>2
  <2> QED
    BY <2>4, <2>5 DEF LogOk
<1>14. RingOk'
  BY <1>8 DEF RingOk
<1>15. ReservedOk'
  <2>1. ASSUME NEW k \in 1..Len(w.reserved) PROVE Intact(w.reserved[k])'
    <3> DEFINE x == w.reserved[k]
    <3>1. Intact(x)
      BY DEF ReservedOk
    <3>2. x \in Placed
      BY SMTT(20) DEF Types, Writer
    <3>3. x.offset \in Ring /\ x.entry.length \in Nat
      <4>1. x.entry \in Entry /\ x.offset \in Ring
        BY <3>2, Zenon DEF Placed
      <4> QED
        BY <4>1, SMTT(20) DEF Entry
    <3>4. ASSUME NEW j \in 0..(x.entry.length - 1)
          PROVE  Sector(log', x.offset, j) = [entry |-> x.entry, index |-> j]
      <4> DEFINE y == (x.offset + j) % LogSectors
      <4>1. y # z
        BY <1>4
      <4>2. y \in Ring
        <5>1. x.offset + j \in Nat
          BY <3>3, LogAssumption, SMTT(20) DEF Ring
        <5> QED
          BY <5>1, Remainder, LogAssumption, ZenonT(40) DEF Ring
      <4>3. log'[y] = log[y]
        BY <1>10, <4>1, <4>2, Zenon
      <4>4. log[y] = [entry |-> x.entry, index |-> j]
        BY <3>1, <3>4 DEF Intact, Sector
      <4> QED
        BY <4>3, <4>4 DEF Sector
    <3> QED
      BY <1>8, <3>4 DEF Intact
  <2> QED
    BY <1>8, <2>1, Zenon DEF ReservedOk
<1>16. EntryOk'
  <2>1. ASSUME NEW j \in 0..(w.entry.length - 1), j \notin P
        PROVE  Sector(log', w.head, j) = [entry |-> w.entry, index |-> j]
    <3>1. CASE j = i
      BY <1>10, <3>1 DEF Sector, z, part
    <3>2. CASE j # i
      <4>1. Sector(log, w.head, j) = [entry |-> w.entry, index |-> j]
        BY <1>2, <1>7, <2>1, <3>2 DEF EntryOk
      <4> DEFINE y == (w.head + j) % LogSectors
      <4>2. y # z
        BY <1>4, <3>2
      <4>3. y \in Ring
        BY <1>2, FreshSector
      <4>4. log'[y] = log[y]
        BY <1>10, <4>2, <4>3
      <4> QED
        BY <4>1, <4>4, Zenon DEF Sector
    <3> QED
      BY <3>1, <3>2
  <2>2. P \subseteq 0..(w.entry.length - 1)
    BY <1>2, <1>7 DEF EntryOk
  <2> QED
    BY <1>1, <1>2, <1>3, <1>8, <2>1, <2>2, Zenon DEF EntryOk
<1>17. LiveOk'
  BY <1>8 DEF LiveOk, ReachesTo, InFlight
<1>18. HeadersOk'
  BY <1>1, <1>8 DEF HeadersOk, InForce
<1>19. PhaseOk'
  BY <1>1, <1>8 DEF PhaseOk
<1> QED
  BY <1>1, <1>12, <1>13, <1>14, <1>15, <1>16, <1>17, <1>18, <1>19

\* The entries that lie behind each other, with one more at the head.
LEMMA OneMoreAt ==
  ASSUME NEW r \in Seq(Placed), NEW c, NEW x \in Placed, At(c, r, x.offset)
  PROVE  \E d : /\ At(d, Append(r, x), (x.offset + x.entry.length) % LogSectors)
                /\ d[1] = c[1] /\ d[Len(r) + 2] = c[Len(r) + 1] + x.entry.length
<1> DEFINE n == Len(r)
           l == x.entry.length
           L == LogSectors
           all == Append(r, x)
           d == [k \in 1..(n + 2) |-> IF k = n + 2 THEN c[n + 1] + l ELSE c[k]]
<1>1. n \in Nat /\ Len(all) = n + 1 /\ all[n + 1] = x /\ \A k \in 1..n : all[k] = r[k]
  OBVIOUS
<1>2. l \in Nat /\ L \in Nat \ {0}
  <2>1. x.entry \in Entry
    BY DEF Placed
  <2> QED
    BY <2>1, LogAssumption DEF Entry
<1>3. /\ \A k \in 1..(n + 1) : c[k] \in Nat
      /\ \A k \in 1..n : r[k].offset = c[k] % L /\ c[k + 1] = c[k] + r[k].entry.length
      /\ x.offset = c[n + 1] % L
  BY DEF At
<1> HIDE DEF n, l, L, all
<1>4. c[n + 1] \in Nat
  BY <1>1, <1>3
<1>5. d \in [1..(n + 2) -> Nat]
  <2>1. ASSUME NEW k \in 1..(n + 2), k # n + 2 PROVE c[k] \in Nat
    BY <1>1, <1>3, <2>1
  <2>2. c[n + 1] + l \in Nat
    BY <1>2, <1>4, SMTT(20)
  <2> QED
    BY <2>1, <2>2
<1>6. d[n + 2] = c[n + 1] + l /\ d[n + 1] = c[n + 1] /\ d[1] = c[1]
      /\ \A k \in 1..n : d[k] = c[k] /\ d[k + 1] = c[k + 1]
  BY <1>1
<1> HIDE DEF d
<1>7. \A k \in 1..(n + 1) :
        all[k].offset = d[k] % L /\ d[k + 1] = d[k] + all[k].entry.length
  <2>1. ASSUME NEW k \in 1..n
        PROVE  all[k].offset = d[k] % L /\ d[k + 1] = d[k] + all[k].entry.length
    BY <1>1, <1>3, <1>6, Zenon
  <2>2. /\ all[n + 1].offset = d[n + 1] % L
        /\ d[(n + 1) + 1] = d[n + 1] + all[n + 1].entry.length
    <3>1. (n + 1) + 1 = n + 2
      BY <1>1
    <3> QED
      BY <1>1, <1>3, <1>6, <3>1 DEF l
  <2>3. \A k \in 1..(n + 1) : k \in 1..n \/ k = n + 1
    BY <1>1, SMTT(20)
  <2> QED
    BY <2>1, <2>2, <2>3, Zenon
<1>8. (x.offset + l) % L = d[n + 2] % L
  <2>1. ((c[n + 1] % L) + l) % L = (c[n + 1] + l) % L
    BY <1>2, <1>4, Wrapped
  <2> QED
    BY <1>3, <1>6, <2>1
<1>9. (n + 1) + 1 = n + 2
  BY <1>1
<1>10. At(d, all, (x.offset + l) % L)
  BY <1>1, <1>5, <1>7, <1>8, <1>9 DEF At, L
<1> QED
  BY <1>6, <1>10 DEF n, l, L, all

\* d is where c has the entries of r from t on.
LiesIn(d, c, r, t, head) ==
  /\ At(d, SubSeq(r, t, Len(r)), head)
  /\ d[1] = c[t] /\ d[Len(SubSeq(r, t, Len(r))) + 1] = c[Len(r) + 1]

\* The last ones of entries that lie behind each other lie behind each other.
LEMMA LastOnesAt ==
  ASSUME NEW r \in Seq(Placed), NEW c, NEW head, At(c, r, head), NEW t \in 1..Len(r)
  PROVE  \E d : LiesIn(d, c, r, t, head)
<1> DEFINE n == Len(r)
           s == SubSeq(r, t, n)
           m == (n - t) + 1
           d == [k \in 1..(m + 1) |-> c[(k + t) - 1]]
<1>1. n \in Nat /\ t \in 1..n
  OBVIOUS
<1>2. Len(s) = m /\ \A k \in 1..m : s[k] = r[(k + t) - 1]
  OBVIOUS
<1>3. /\ \A k \in 1..(n + 1) : c[k] \in Nat
      /\ \A k \in 1..n : /\ r[k].offset = c[k] % LogSectors
                         /\ c[k + 1] = c[k] + r[k].entry.length
      /\ head = c[n + 1] % LogSectors
  BY DEF At
<1> HIDE DEF n, s
<1>4. /\ m \in Nat /\ (1 + t) - 1 = t /\ ((m + 1) + t) - 1 = n + 1
      /\ \A k \in 1..m : /\ (k + t) - 1 \in 1..n
                         /\ ((k + 1) + t) - 1 = ((k + t) - 1) + 1
      /\ \A k \in 1..(m + 1) : (k + t) - 1 \in 1..(n + 1)
  BY <1>1, SMTT(20)
<1>5. /\ \A k \in 1..(m + 1) : d[k] = c[(k + t) - 1]
      /\ 1 \in 1..(m + 1) /\ m + 1 \in 1..(m + 1)
      /\ \A k \in 1..m : k \in 1..(m + 1) /\ k + 1 \in 1..(m + 1)
  BY <1>4, SMTT(20)
<1>6. d \in [1..(m + 1) -> Nat]
  BY <1>3, <1>4
<1> HIDE DEF d, m
<1>7. d[1] = c[t] /\ d[m + 1] = c[n + 1]
  BY <1>4, <1>5
<1>8. ASSUME NEW k \in 1..m
      PROVE  /\ s[k].offset = d[k] % LogSectors
             /\ d[k + 1] = d[k] + s[k].entry.length
  <2> DEFINE q == (k + t) - 1
  <2>1. q \in 1..n /\ s[k] = r[q] /\ d[k] = c[q]
    BY <1>2, <1>4, <1>5
  <2>2. d[k + 1] = c[q + 1]
    <3>1. k + 1 \in 1..(m + 1)
      BY <1>5
    <3>2. d[k + 1] = c[((k + 1) + t) - 1]
      BY <1>5, <3>1
    <3>3. ((k + 1) + t) - 1 = q + 1
      BY <1>4
    <3> QED
      BY <3>2, <3>3, Zenon
  <2> HIDE DEF q
  <2> QED
    BY <1>3, <2>1, <2>2, Zenon
<1>9. At(d, s, head)
  BY <1>2, <1>3, <1>6, <1>7, <1>8 DEF At
<1>10. LiesIn(d, c, r, t, head)
  BY <1>2, <1>7, <1>9, Zenon DEF n, s, LiesIn
<1> QED
  BY <1>10

\* The entry is whole.  What it reaches back to is one of the reserved entries, or
\* itself, and the room before that is free again.
Reserves(all, t) ==
  /\ all \in Seq(Placed) /\ Len(all) = Len(w.reserved) + 1 /\ t \in 1..Len(all)
  /\ (CHOOSE i \in DOMAIN all : all[i].offset = w.entry.tail) = t
  /\ \E d : /\ At(d, SubSeq(all, t, Len(all)), (w.head + w.entry.length) % LogSectors)
            /\ RoomFor(d, SubSeq(all, t, Len(all)), NoEntry)
  /\ \A k \in 1..Len(all) :
       /\ all[k].entry.guid = w.guid
       /\ all[k].entry.sequence = w.sequence - Len(w.reserved) + k - 1
       /\ Intact(all[k])
  /\ all[Len(all)].entry = w.entry /\ all[t].offset = w.entry.tail

\* That is so for the entry that EntryWhole finds written.
LEMMA WholeReserves ==
  ASSUME IInv, w.entry # NoEntry, w.pending = {}, NEW all, all = Append(w.reserved, InFlight),
         NEW m \in 1..(Len(w.reserved) + 1), NEW t \in 1..m, ReachesTo(t)
  PROVE  Reserves(all, t)
<1> USE DEF IInv
<1> DEFINE r == w.reserved
           n == Len(r)
           x == InFlight
<1>1. r \in Seq(Placed) /\ n \in Nat
  BY DEF Types, Writer
<1>2. x \in Placed /\ x.offset = w.head /\ x.entry = w.entry
  BY DEF Types, Writer, InFlight, Placed
<1> HIDE DEF x
<1>3. all = Append(r, x)
  BY DEF x
<1>4. /\ all \in Seq(Placed) /\ Len(all) = n + 1 /\ DOMAIN all = 1..(n + 1)
      /\ all[n + 1] = x /\ \A k \in 1..n : all[k] = r[k]
  <2> HIDE DEF r
  <2> QED
    BY <1>1, <1>2, <1>3
<1>5. all[t].offset = w.entry.tail
  BY DEF ReachesTo
<1>6. t \in 1..(n + 1)
  <2>1. m \in 1..(n + 1) /\ t \in 1..m
    OBVIOUS
  <2> HIDE DEF n
  <2> QED
    BY <1>1, <2>1
<1>7. PICK c : At(c, r, w.head) /\ RoomFor(c, r, w.entry)
  BY DEF RingOk
<1>8. PICK d : /\ At(d, all, (w.head + w.entry.length) % LogSectors)
               /\ d[1] = c[1] /\ d[n + 2] = c[n + 1] + w.entry.length
  <2>1. At(c, r, x.offset)
    BY <1>2, <1>7, Zenon
  <2> HIDE DEF r, n
  <2>2. \E d : /\ At(d, Append(r, x), (x.offset + x.entry.length) % LogSectors)
               /\ d[1] = c[1] /\ d[Len(r) + 2] = c[Len(r) + 1] + x.entry.length
    BY <1>1, <1>2, <2>1, OneMoreAt, Zenon
  <2> QED
    BY <1>2, <1>3, <2>2 DEF n
<1>9. d[n + 2] <= d[1] + LogSectors
  BY <1>7, <1>8 DEF RoomFor
<1>10. (n + 1) + 1 = n + 2
  <2> HIDE DEF n
  <2> QED
    BY <1>1
<1>11. \A i, j \in 1..(n + 1) : all[i].offset = all[j].offset => i = j
  <2>1. d[Len(all) + 1] <= d[1] + LogSectors
    BY <1>4, <1>9, <1>10
  <2> HIDE DEF n, r
  <2> QED
    BY <1>4, <1>8, <2>1, OffsetsApart, Zenon
<1>12. (CHOOSE i \in DOMAIN all : all[i].offset = w.entry.tail) = t
  <2> HIDE DEF n
  <2>1. \A i \in DOMAIN all : all[i].offset = w.entry.tail <=> i = t
    BY <1>4, <1>5, <1>6, <1>11
  <2>2. t \in DOMAIN all
    BY <1>4, <1>6
  <2> QED
    BY <2>1, <2>2, Zenon
<1>13. \E e : /\ At(e, SubSeq(all, t, Len(all)), (w.head + w.entry.length) % LogSectors)
              /\ RoomFor(e, SubSeq(all, t, Len(all)), NoEntry)
  <2> DEFINE s == SubSeq(all, t, Len(all))
             head == (w.head + w.entry.length) % LogSectors
  <2>1. t \in 1..Len(all) /\ At(d, all, head)
    BY <1>4, <1>6, <1>8
  <2> HIDE DEF head, n, r
  <2>2. PICK e : At(e, s, head) /\ e[1] = d[t] /\ e[Len(s) + 1] = d[Len(all) + 1]
    <3>1. \E e : LiesIn(e, d, all, t, head)
      BY <1>4, <2>1, LastOnesAt, ZenonT(40)
    <3> QED
      BY <3>1 DEF LiesIn
  <2>3. e[Len(s) + 1] = d[n + 2]
    BY <1>4, <1>10, <2>2
  <2>4. /\ \A k \in 1..(n + 2) : d[k] \in Nat
        /\ \A i, j \in 1..(n + 2) : i < j => d[i] < d[j]
    <3>1. \A k \in 1..(Len(all) + 1) : d[k] \in Nat
      BY <2>1, Zenon DEF At
    <3>2. \A i, j \in 1..(Len(all) + 1) : i < j => d[i] < d[j]
      BY <1>4, <2>1, Rising, Zenon
    <3> QED
      BY <1>4, <1>10, <3>1, <3>2, Zenon
  <2>5. d[1] \in Nat /\ d[t] \in Nat /\ d[n + 2] \in Nat /\ d[1] <= d[t]
    <3>1. 1 \in 1..(n + 2) /\ t \in 1..(n + 2) /\ n + 2 \in 1..(n + 2) /\ (t = 1 \/ 1 < t)
      BY <1>1, <1>6
    <3> QED
      BY <2>4, <3>1
  <2>6. d[n + 2] <= d[t] + LogSectors
    BY <1>9, <2>5, LogAssumption, SMTT(20)
  <2> HIDE DEF s
  <2>7. RoomFor(e, s, NoEntry)
    BY <2>2, <2>3, <2>5, <2>6, SMTT(20) DEF RoomFor
  <2> QED
    BY <2>2, <2>7 DEF s, head
<1>14. ASSUME NEW k \in 1..(n + 1)
       PROVE  /\ all[k].entry.guid = w.guid
              /\ all[k].entry.sequence = w.sequence - n + k - 1
              /\ Intact(all[k])
  <2>1. CASE k \in 1..n
    BY <1>4, <2>1, Zenon DEF ReservedOk
  <2>2. CASE k = n + 1
    <3>1. w.sequence \in Nat
      BY DEF Types, Writer
    <3>2. w.sequence = w.sequence - n + k - 1
      <4> HIDE DEF n
      <4> QED
        BY <1>1, <2>2, <3>1, SMTT(20)
    <3>3. x.entry.guid = w.guid /\ x.entry.sequence = w.sequence
      BY <1>2, Zenon DEF EntryOk
    <3>4. Intact(x)
      BY <1>2 DEF EntryOk, Intact
    <3>5. all[k] = x
      BY <1>4, <2>2, Zenon
    <3> HIDE DEF n
    <3> QED
      BY <3>2, <3>3, <3>4, <3>5, Zenon
  <2>3. k \in 1..n \/ k = n + 1
    <3> HIDE DEF n
    <3> QED
      BY <1>1
  <2> QED
    BY <2>1, <2>2, <2>3, Zenon
<1> QED
  BY <1>2, <1>4, <1>5, <1>6, <1>12, <1>13, <1>14, ZenonT(40) DEF Reserves

\* The entry is whole, and the writer goes on behind it.
LEMMA EntryWholeOk == IInv /\ EntryWhole => IInv'
<1> SUFFICES ASSUME IInv, EntryWhole PROVE IInv'
  OBVIOUS
<1> USE DEF IInv
<1>1. PICK m \in 1..(Len(w.reserved) + 1) :
        /\ w.live = SubSeq(w.reserved, m, Len(w.reserved))
        /\ w.entry # NoEntry => \E t \in 1..m : ReachesTo(t)
  BY DEF LiveOk
<1>2. w.entry # NoEntry /\ w.pending = {} /\ w.pc \in {"starting", "running"}
  BY DEF EntryWhole
<1>3. PICK t \in 1..m : ReachesTo(t)
  BY <1>1, <1>2
<1>4. PICK all : all = Append(w.reserved, InFlight)
  BY Zenon
<1>5. PICK n : n = Len(w.reserved)
  OBVIOUS
<1>6. PICK s : s = SubSeq(all, t, Len(all))
  BY Zenon
<1>7. PICK head : head = (w.head + w.entry.length) % LogSectors
  OBVIOUS
<1>8. PICK next : next = w.sequence + 1
  OBVIOUS
<1>9. PICK live : live = Append(w.live, InFlight)
  BY ZenonT(40)
<1>10. n \in Nat /\ w.reserved \in Seq(Placed) /\ m \in 1..(n + 1) /\ t \in 1..m
  BY <1>5 DEF Types, Writer
<1>11. /\ all \in Seq(Placed) /\ Len(all) = n + 1 /\ t \in 1..(n + 1)
       /\ (CHOOSE i \in DOMAIN all : all[i].offset = w.entry.tail) = t
       /\ \E d : At(d, s, head) /\ RoomFor(d, s, NoEntry)
       /\ \A k \in 1..(n + 1) :
            /\ all[k].entry.guid = w.guid
            /\ all[k].entry.sequence = w.sequence - n + k - 1
            /\ Intact(all[k])
       /\ all[n + 1].entry = w.entry /\ all[t].offset = w.entry.tail
  <2>1. Reserves(all, t)
    BY <1>2, <1>3, <1>4, WholeReserves, Zenon
  <2>2. Len(all) = n + 1
    BY <1>5, <2>1 DEF Reserves
  <2>3. all \in Seq(Placed) /\ t \in 1..(n + 1) /\ all[n + 1].entry = w.entry
        /\ all[t].offset = w.entry.tail
        /\ (CHOOSE i \in DOMAIN all : all[i].offset = w.entry.tail) = t
    BY <2>1, <2>2, Zenon DEF Reserves
  <2>4. \E d : At(d, s, head) /\ RoomFor(d, s, NoEntry)
    BY <1>6, <1>7, <2>1, Zenon DEF Reserves
  <2>5. \A k \in 1..(n + 1) :
          /\ all[k].entry.guid = w.guid
          /\ all[k].entry.sequence = w.sequence - n + k - 1
          /\ Intact(all[k])
    BY <1>5, <2>1, <2>2, Zenon DEF Reserves
  <2> QED
    BY <2>2, <2>3, <2>4, <2>5, Zenon
<1>12. /\ log' = log /\ headers' = headers /\ states' = states /\ res' = res
       /\ flushed' = flushed /\ length' = length
       /\ w' = [w EXCEPT !.entry = NoEntry, !.sequence = next, !.head = head,
                         !.reserved = s, !.live = live]
  BY <1>4, <1>6, <1>7, <1>8, <1>9, <1>11, ZenonT(40) DEF EntryWhole, InFlight
<1>13. w.entry \in Entry /\ w.entry.length \in Nat /\ w.head \in Nat
       /\ w.sequence \in Nat /\ w.guid \in Nat
  <2>1. w.entry \in Entry /\ w.head \in Nat /\ w.sequence \in Nat /\ w.guid \in Nat
    BY <1>2, LogAssumption, SMTT(20) DEF Types, Writer, Ring
  <2> QED
    BY <2>1 DEF Entry
<1>14. /\ s \in Seq(Placed) /\ Len(s) = (n - t) + 2 /\ Len(s) \in Nat \ {0}
       /\ \A k \in 1..Len(s) : s[k] = all[(k + t) - 1]
  <2>1. /\ s \in Seq(Placed) /\ Len(s) = ((n + 1) - t) + 1
        /\ \A k \in 1..(((n + 1) - t) + 1) : s[k] = all[(k + t) - 1]
    BY <1>6, <1>10, <1>11
  <2> QED
    BY <1>10, <1>11, <2>1, SMTT(20)
<1>15. head \in Ring /\ next \in Nat \ {0}
  <2>1. w.head + w.entry.length \in Nat /\ LogSectors \in Nat \ {0}
    BY <1>13, LogAssumption
  <2>2. head \in 0..(LogSectors - 1)
    BY <1>7, <2>1, Remainder, Zenon
  <2>3. next \in Nat \ {0}
    BY <1>8, <1>13, SMTT(20)
  <2> QED
    BY <2>2, <2>3 DEF Ring
<1>16. InFlight \in Placed
  BY <1>13 DEF Types, Writer, InFlight, Placed
<1>17. live \in Seq(Placed)
  <2>1. w.live \in Seq(Placed)
    BY DEF Types, Writer
  <2> QED
    BY <1>9, <1>16, <2>1, AppendSeq
<1>18. /\ w' \in Writer /\ w'.live = live /\ w'.pc = w.pc /\ w'.sessions = w.sessions
       /\ w'.guid = w.guid /\ w'.sequence = next /\ w'.head = head
       /\ w'.entry = NoEntry /\ w'.pending = w.pending /\ w'.reserved = s
  BY <1>12, <1>14, <1>15, <1>17, Zenon DEF Types, Writer
<1>19. Types'
  BY <1>12, <1>18 DEF Types
<1>20. LogOk'
  <2>1. ASSUME NEW o \in Ring, log[o].entry # NoEntry PROVE Past(o)'
    <3>1. Past(o)
      BY <2>1, Zenon DEF LogOk
    <3>2. w.entry.guid = w.guid /\ w.entry.sequence = w.sequence
      BY <1>2 DEF EntryOk
    <3>3. log[o].entry.sequence \in Nat
      <4>1. log[o].entry \in Entry
        BY <2>1, Zenon DEF Types
      <4> QED
        BY <4>1 DEF Entry
    <3>4. \/ log[o].entry.guid < w.guid
          \/ log[o].entry.guid = w.guid /\ log[o].entry.sequence < next
      BY <1>8, <1>13, <3>1, <3>2, <3>3, SMTT(20) DEF Past
    <3> QED
      BY <1>12, <1>18, <3>4, Zenon DEF Past
  <2>2. \A o \in Ring : First(o)' <=> First(o)
    BY <1>12, Zenon DEF First
  <2> QED
    BY <1>12, <2>1, <2>2 DEF LogOk
<1>21. RingOk'
  BY <1>11, <1>18, Zenon DEF RingOk
<1>22. ReservedOk'
  <2>1. ASSUME NEW k \in 1..Len(s)
        PROVE  /\ s[k].entry.guid = w.guid
               /\ s[k].entry.sequence = next - Len(s) + k - 1
               /\ Intact(s[k])
    <3> DEFINE q == (k + t) - 1
    <3>1. /\ k \in Nat /\ n \in Nat /\ t \in Nat /\ k >= 1 /\ t >= 1
          /\ k <= (n - t) + 2 /\ Len(s) = (n - t) + 2 /\ s[k] = all[q]
      <4>1. s[k] = all[q]
        BY <1>14
      <4> HIDE DEF q
      <4> QED
        <5>1. Len(s) = (n - t) + 2
          BY <1>14, Zenon
        <5> QED
          BY <1>10, <4>1, <5>1
    <3>2. q \in 1..(n + 1)
      BY <3>1, SMTT(20)
    <3>3. w.sequence - n + q - 1 = next - Len(s) + k - 1
      <4>1. w.sequence \in Nat /\ next = w.sequence + 1 /\ Len(s) = (n - t) + 2
        BY <1>8, <1>13, <3>1, Zenon
      <4> QED
        BY <3>1, <4>1, SMTT(20)
    <3> HIDE DEF q
    <3> QED
      BY <1>11, <3>1, <3>2, <3>3, Zenon
  <2>2. ASSUME NEW k \in 1..Len(s) PROVE Intact(s[k])'
    BY <1>12, <2>1 DEF Intact
  <2>3. s[1].offset = s[Len(s)].entry.tail
    <3>1. 1 \in 1..Len(s) /\ Len(s) \in 1..Len(s)
          /\ (1 + t) - 1 = t /\ (Len(s) + t) - 1 = n + 1
      BY <1>10, <1>11, <1>14
    <3>2. s[1] = all[t] /\ s[Len(s)] = all[n + 1]
      BY <1>14, <3>1, Zenon
    <3> QED
      BY <1>11, <3>2, Zenon
  <2> QED
    BY <1>18, <2>1, <2>2, <2>3, Zenon DEF ReservedOk
<1>23. EntryOk'
  BY <1>2, <1>18, Zenon DEF EntryOk
<1>24. LiveOk'
  <2> DEFINE k == (m - t) + 1
             len == Len(s)
             r == w.reserved
  <2>1. k \in 1..(len + 1) /\ k <= len /\ k \in Nat /\ k >= 1 /\ len \in Nat
        /\ (len - k) + 1 = (n - m) + 2
    BY <1>10, <1>11, <1>14, SMTT(20)
  <2>2. SubSeq(s, k, len) \in Seq(Placed) /\ Len(SubSeq(s, k, len)) = (n - m) + 2
        /\ \A i \in 1..((n - m) + 2) : SubSeq(s, k, len)[i] = s[(i + k) - 1]
    <3> HIDE DEF k, len
    <3> QED
      BY <1>14, <2>1, SMTT(20) DEF len
  <2>3. /\ Len(w.live) = (n - m) + 1
        /\ \A i \in 1..((n - m) + 1) : w.live[i] = r[(i + m) - 1]
    BY <1>1, <1>5, <1>10, SMTT(20)
  <2>4. w.live \in Seq(Placed)
    BY DEF Types, Writer
  <2>5. /\ Len(live) = (n - m) + 2 /\ live[(n - m) + 2] = InFlight
        /\ \A i \in 1..((n - m) + 1) : live[i] = w.live[i]
    <3> DEFINE z == (n - m) + 1
    <3>1. z \in Nat /\ Len(w.live) = z /\ z + 1 = (n - m) + 2
      BY <1>10, <2>3, SMTT(20)
    <3> HIDE DEF z
    <3>2. Len(live) = z + 1 /\ live[z + 1] = InFlight /\ \A i \in 1..z : live[i] = w.live[i]
      BY <1>9, <1>16, <2>4, <3>1, SMTT(20)
    <3> QED
      BY <3>1, <3>2 DEF z
  <2>6. all[n + 1] = InFlight /\ \A i \in 1..n : all[i] = r[i]
    <3>1. r = w.reserved /\ r \in Seq(Placed) /\ n = Len(r)
      BY <1>5, <1>10
    <3>2. all = Append(r, InFlight)
      BY <1>4, <3>1, Zenon
    <3> HIDE DEF r, InFlight
    <3> QED
      BY <1>16, <3>1, <3>2
  <2>7. ASSUME NEW i \in 1..((n - m) + 2) PROVE live[i] = SubSeq(s, k, len)[i]
    <3> DEFINE a == (i + k) - 1
               b == (i + m) - 1
    <3>1. a \in 1..len /\ (a + t) - 1 = b /\ b \in 1..(n + 1)
      BY <1>10, <1>11, <1>14, SMTT(20)
    <3>2. SubSeq(s, k, len)[i] = s[a]
      BY <2>2
    <3>3. s[a] = all[b]
      <4> HIDE DEF a, b
      <4> QED
        BY <1>14, <3>1
    <3>4. CASE i = (n - m) + 2
      <4>1. b = n + 1
        BY <1>10, <3>4, SMTT(20)
      <4> HIDE DEF a, b, k, len, r
      <4> QED
        BY <2>5, <2>6, <3>2, <3>3, <3>4, <4>1, Zenon
    <3>5. CASE i # (n - m) + 2
      <4>1. i \in 1..((n - m) + 1) /\ b \in 1..n
        BY <1>10, <3>5, SMTT(20)
      <4>2. live[i] = r[b]
        BY <2>3, <2>5, <4>1
      <4> HIDE DEF a, b, k, len, r
      <4> QED
        BY <2>6, <3>2, <3>3, <4>1, <4>2
    <3> QED
      BY <3>4, <3>5, Zenon
  <2>8. live = SubSeq(s, k, len)
    <3> DEFINE u == SubSeq(s, k, len)
               z == (n - m) + 2
    <3>1. z \in Nat
      BY <1>10
    <3>2. u \in Seq(Placed) /\ Len(u) = z /\ Len(live) = z /\ \A i \in 1..z : live[i] = u[i]
      BY <2>2, <2>5, <2>7, Zenon
    <3> HIDE DEF u, z
    <3>3. live = u
      BY <1>17, <3>1, <3>2, SMTT(20)
    <3> QED
      BY <3>3 DEF u
  <2> HIDE DEF k
  <2> QED
    BY <1>18, <2>1, <2>8, Zenon DEF LiveOk
<1>25. HeadersOk'
  <2>1. s # <<>>
    BY <1>14, SMTT(20)
  <2> QED
    BY <1>2, <1>12, <1>18, <2>1 DEF HeadersOk, InForce
<1>26. PhaseOk'
  BY <1>2, <1>18 DEF PhaseOk
<1> QED
  BY <1>12, <1>19, <1>20, <1>21, <1>22, <1>23, <1>24, <1>25, <1>26, Zenon

\* Every step keeps the invariant.
LEMMA VhdxInvariant == Spec => []IInv
<1>1. IInv /\ [Next]_vars => IInv'
  <2> SUFFICES ASSUME IInv, [Next]_vars PROVE IInv'
    OBVIOUS
  <2>1. CASE OpenSession
    BY <2>1, SessionOk
  <2>2. CASE Extend
    BY <2>2, ExtendOk
  <2>3. CASE \E p \in Payloads : BeginEntry(p)
    BY <2>3, BeginEntryOk
  <2>4. CASE \E i \in 0..(LogSectors - 1) : WriteSector(i)
    BY <2>4, WriteSectorOk
  <2>5. CASE EntryWhole
    BY <2>5, EntryWholeOk
  <2>6. CASE SwitchLogOn \/ SwitchLogOff
    <3>1. CASE SwitchLogOn
      <4>1. BeginHeader("on", TRUE) /\ w.pc = "starting" /\ w.live # <<>>
        BY <3>1 DEF SwitchLogOn, BeginHeader
      <4> QED
        BY <4>1, BeginHeaderOk, ZenonT(40)
    <3>2. CASE SwitchLogOff
      <4>1. /\ BeginHeader("off", TRUE)
            /\ w.pc = "running" /\ w.live = <<>> /\ w.entry = NoEntry
        BY <3>2, Zenon DEF SwitchLogOff, BeginHeader
      <4> QED
        BY <4>1, BeginHeaderOk
    <3> QED
      BY <2>6, <3>1, <3>2
  <2>7. CASE HeaderWhole
    BY <2>7, HeaderWholeOk
  <2>8. CASE ApplyWrite
    BY <2>8, ApplyOk
  <2>9. CASE Retire
    BY <2>9, RetireOk
  <2>10. CASE Crash
    BY <2>10, CrashOk
  <2>11. CASE open_layer
    BY <2>11, OpenOk
  <2>12. CASE UNCHANGED vars
    BY <2>12, ZenonT(40) DEF vars, IInv, Types, HeadersOk, InForce, PhaseOk, LogOk, Past, First, RingOk,
                 ReservedOk, Intact, EntryOk, LiveOk, ReachesTo, InFlight
  <2> QED
    BY <2>1, <2>2, <2>3, <2>4, <2>5, <2>6, <2>7, <2>8, <2>9, <2>10, <2>11, <2>12, Zenon DEF Next
<1> QED
  BY <1>1, InitOk, PTL DEF Spec

\* However long the log, whatever the entries and wherever the writer stops: opening
\* the image never refuses it, and there is at most one active sequence to find, so
\* the order in which the entries of the log are walked does not matter.
THEOREM VhdxOpensOneWay == Spec => []OpensOneWay
<1>1. IInv => OpensOneWay
  BY OneToFind DEF IInv, OpensOneWay
<1> QED
  BY <1>1, VhdxInvariant, PTL

=============================================================================
