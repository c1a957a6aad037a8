--------------------------- MODULE NamespaceProofs ---------------------------
(***************************************************************************)
(* Proofs about the mount namespace and its composition from an fstab, for *)
(* all trees, tables and volumes: a listing handle keeps its listing, a    *)
(* composition that succeeds is the declared one, and the namespace shows  *)
(* one tree to every call.                                                 *)
(***************************************************************************)
EXTENDS FstabCompose, FiniteInduction, TLAPS

-----------------------------------------------------------------------------
(* Paths and their beginnings.                                             *)

\* p is the beginning of q.
Pre(p, q) == Len(p) <= Len(q) /\ \A i \in 1..Len(p) : p[i] = q[i]

\* What a path is made of, and when two paths are the same.
LEMMA PathShape ==
  ASSUME NEW p \in AllPaths
  PROVE  /\ Len(p) \in Nat /\ DOMAIN p = 1..Len(p) /\ p = [i \in 1..Len(p) |-> p[i]]
         /\ p = <<>> <=> Len(p) = 0
         /\ \A i \in 1..Len(p) : p[i] \in STRING
<1>1. Len(p) \in Nat /\ DOMAIN p = 1..Len(p) /\ p = [i \in 1..Len(p) |-> p[i]]
        /\ \A i \in 1..Len(p) : p[i] \in STRING
  BY DEF AllPaths
<1>2. p = <<>> <=> Len(p) = 0
  BY DEF AllPaths
<1> QED
  BY <1>1, <1>2

\* The same components in the same places make the same path.
LEMMA PathEqual ==
  ASSUME NEW p \in AllPaths, NEW q \in AllPaths, Len(p) = Len(q),
         \A i \in 1..Len(p) : p[i] = q[i]
  PROVE  p = q
  BY DEF AllPaths

\* The first n components of a path.
LEMMA FirstPart ==
  ASSUME NEW p \in AllPaths, NEW n \in 0..Len(p)
  PROVE  /\ SubSeq(p, 1, n) \in AllPaths /\ Len(SubSeq(p, 1, n)) = n
         /\ \A i \in 1..n : SubSeq(p, 1, n)[i] = p[i]
  BY DEF AllPaths

\* r is made of the components of p from m to n.
Middle(r, p, m, n) ==
  r \in AllPaths /\ Len(r) = n - m + 1 /\ \A i \in 1..(n - m + 1) : r[i] = p[m + i - 1]

\* A part of a path.
LEMMA MiddlePart ==
  ASSUME NEW p \in AllPaths, NEW m \in Nat, NEW n \in Nat, m > 0, n <= Len(p), m <= n + 1
  PROVE  Middle(SubSeq(p, m, n), p, m, n)
  BY DEF AllPaths, Middle

\* The components of a path behind the first n.
LEMMA LastPart ==
  ASSUME NEW p \in AllPaths, NEW n \in 0..Len(p), NEW r, r = SubSeq(p, n + 1, Len(p))
  PROVE  /\ r \in AllPaths /\ Len(r) = Len(p) - n
         /\ \A i \in 1..(Len(p) - n) : r[i] = p[n + i]
<1> DEFINE m == n + 1
           k == Len(p)
<1>1. m \in Nat /\ k \in Nat /\ m > 0 /\ m <= k + 1 /\ k <= Len(p) /\ r = SubSeq(p, m, k)
  BY PathShape
<1>2. k - m + 1 = k - n /\ \A i \in Nat : m + i - 1 = n + i
  BY <1>1
<1> HIDE DEF m, k
<1>3. Middle(r, p, m, k)
  BY <1>1, MiddlePart, Zenon
<1>4. n \in Nat /\ k = Len(p)
  BY PathShape DEF k
<1> QED
  BY <1>1, <1>2, <1>3, <1>4, SMTT(20) DEF Middle

\* StartsWith, component by component.
LEMMA PrefixIsPre ==
  ASSUME NEW p \in AllPaths, NEW q \in AllPaths
  PROVE  StartsWith(q, p) <=> Pre(p, q)
<1>1. ASSUME Len(p) <= Len(q)
      PROVE  SubSeq(q, 1, Len(p)) = p <=> \A i \in 1..Len(p) : p[i] = q[i]
  <2> DEFINE b == SubSeq(q, 1, Len(p))
  <2>1. Len(p) \in 0..Len(q)
    BY <1>1, PathShape
  <2>2. b \in AllPaths /\ Len(b) = Len(p) /\ \A i \in 1..Len(p) : b[i] = q[i]
    BY <2>1, FirstPart
  <2> HIDE DEF b
  <2>3. b = p <=> \A i \in 1..Len(p) : p[i] = q[i]
    <3>1. ASSUME b = p PROVE \A i \in 1..Len(p) : p[i] = q[i]
      BY <2>2, <3>1
    <3>2. ASSUME \A i \in 1..Len(p) : p[i] = q[i] PROVE b = p
      <4>1. \A i \in 1..Len(b) : b[i] = p[i]
        BY <2>2, <3>2
      <4> QED
        BY <2>2, <4>1, PathEqual
    <3> QED
      BY <3>1, <3>2
  <2> QED
    BY <2>3 DEF b
<1> QED
  BY <1>1 DEF StartsWith, Pre

\* Being a beginning is an order, and the beginnings of a path are ordered by length.
LEMMA PreOrder ==
  ASSUME NEW a \in AllPaths, NEW b \in AllPaths
  PROVE  /\ Pre(a, a)
         /\ Pre(<<>>, a)
         /\ Pre(a, b) /\ Len(a) = Len(b) => a = b
         /\ \A c \in AllPaths : Pre(a, b) /\ Pre(b, c) => Pre(a, c)
         /\ \A c \in AllPaths : Pre(a, c) /\ Pre(b, c) /\ Len(a) <= Len(b) => Pre(a, b)
<1>0. /\ Len(a) \in Nat /\ Len(b) \in Nat /\ Len(<<>>) = 0 /\ \A c \in AllPaths : Len(c) \in Nat
  BY PathShape
<1>1. Pre(a, a) /\ Pre(<<>>, a)
  BY <1>0 DEF Pre
<1>2. Pre(a, b) /\ Len(a) = Len(b) => a = b
  BY PathEqual DEF Pre
<1>3. \A c \in AllPaths : Pre(a, b) /\ Pre(b, c) => Pre(a, c)
  BY <1>0 DEF Pre
<1>4. \A c \in AllPaths : Pre(a, c) /\ Pre(b, c) /\ Len(a) <= Len(b) => Pre(a, b)
  BY <1>0 DEF Pre
<1> QED
  BY <1>1, <1>2, <1>3, <1>4

\* is_below and is_at_or_below, for a mount point.
LEMMA BelowIsPre ==
  ASSUME NEW p \in AllPaths, NEW mp \in AllPaths, mp # <<>>
  PROVE  /\ is_at_or_below(p, mp) <=> Pre(mp, p)
         /\ is_below(p, mp) <=> Pre(mp, p) /\ mp # p
<1>1. is_below(p, mp) <=> Pre(mp, p) /\ mp # p
  BY PrefixIsPre DEF is_below
<1>2. p = mp => Pre(mp, p)
  BY PreOrder
<1> QED
  BY <1>1, <1>2 DEF is_at_or_below

-----------------------------------------------------------------------------
(* Routing.                                                                *)

\* A mount table: functions from paths below the root.
MountTable(m) == DOMAIN m \subseteq AllPaths \ {<<>>}

\* The mount points at and above a path.
Above(m, path) == {mp \in DOMAIN m : Pre(mp, path)}

\* r is where the path is routed.
Routed(m, path, r) ==
  /\ r \in AllPaths /\ Pre(r, path)
  /\ r = <<>> \/ r \in DOMAIN m
  /\ \A mp \in DOMAIN m : Pre(mp, path) => Len(mp) <= Len(r) /\ Pre(mp, r)

\* The set `route` takes its maximum of.
LEMMA AboveIs ==
  ASSUME NEW m, MountTable(m), NEW path \in AllPaths
  PROVE  {mp \in DOMAIN m : is_at_or_below(path, mp)} = Above(m, path)
<1>1. \A mp \in DOMAIN m : is_at_or_below(path, mp) <=> Pre(mp, path)
  BY BelowIsPre DEF MountTable
<1> QED
  BY <1>1 DEF Above

\* The longest of a set of mount points, or the root.
Longest(A) ==
  IF A = {} THEN <<>> ELSE CHOOSE mp \in A : \A other \in A : Len(other) <= Len(mp)

\* `route`, in those words.
LEMMA RouteLongest ==
  ASSUME NEW m, MountTable(m), NEW path \in AllPaths
  PROVE  route(m, path) = Longest(Above(m, path))
<1> DEFINE B == {mp \in DOMAIN m : is_at_or_below(path, mp)}
<1>1. B = Above(m, path)
  BY AboveIs, Zenon
<1>2. route(m, path) = Longest(B)
  BY Zenon DEF route, Longest
<1> HIDE DEF B
<1> QED
  BY <1>1, <1>2, Zenon

\* A longest mount point above a path exists.
LEMMA LongestAbove ==
  ASSUME NEW m, MountTable(m), NEW path \in AllPaths, Above(m, path) # {}
  PROVE  \E mp \in Above(m, path) : \A other \in Above(m, path) : Len(other) <= Len(mp)
<1> DEFINE A == Above(m, path)
           L == {Len(mp) : mp \in A}
           n == Len(path)
<1>1. n \in Nat /\ \A mp \in A : Len(mp) \in 1..n
  <2>1. \A mp \in A : mp \in AllPaths /\ mp # <<>> /\ Len(mp) <= Len(path)
    BY DEF MountTable, Above, Pre
  <2> QED
    BY <2>1, PathShape
<1> HIDE DEF A, n
<1>2. L \subseteq 1..n /\ L # {}
  <2>1. A # {}
    BY DEF A
  <2> QED
    BY <1>1, <2>1, Zenon
<1> HIDE DEF L
<1>3. PICK x \in L : \A y \in L : y <= x
  BY <1>1, <1>2, GreatestNumber, Zenon
<1>4. PICK mp \in A : x = Len(mp)
  BY DEF L
<1>5. \A other \in A : Len(other) \in L
  BY DEF L
<1> QED
  BY <1>3, <1>4, <1>5 DEF A

\* `route` goes to the longest mount point above the path.
LEMMA RouteIs ==
  ASSUME NEW m, MountTable(m), NEW path \in AllPaths
  PROVE  Routed(m, path, route(m, path))
<1> DEFINE A == Above(m, path)
           r == route(m, path)
<1>1. r = IF A = {} THEN <<>>
          ELSE CHOOSE mp \in A : \A other \in A : Len(other) <= Len(mp)
  BY RouteLongest, Zenon DEF Longest
<1>2. \A mp \in DOMAIN m : mp \in AllPaths /\ mp # <<>> /\ (Pre(mp, path) <=> mp \in A)
  BY DEF MountTable, Above
<1>3. A \subseteq DOMAIN m
  BY DEF Above
<1>4. CASE A = {}
  <2>1. r = <<>>
    BY <1>1, <1>4
  <2>2. <<>> \in AllPaths /\ Pre(<<>>, path)
    BY PreOrder DEF AllPaths
  <2> QED
    BY <2>1, <2>2, <1>2, <1>4 DEF Routed
<1>5. CASE A # {}
  <2>1. \E mp \in A : \A other \in A : Len(other) <= Len(mp)
    BY <1>5, LongestAbove
  <2>2. r = CHOOSE mp \in A : \A other \in A : Len(other) <= Len(mp)
    BY <1>1, <1>5
  <2>3. r \in A /\ \A other \in A : Len(other) <= Len(r)
    <3> HIDE DEF r, A
    <3> QED
      BY <2>1, <2>2, Zenon
  <2> HIDE DEF r, A
  <2>4. r \in DOMAIN m /\ r \in AllPaths /\ Pre(r, path)
    BY <1>2, <1>3, <2>3
  <2>5. \A mp \in DOMAIN m : Pre(mp, path) => Len(mp) <= Len(r) /\ Pre(mp, r)
    BY <1>2, <2>3, <2>4, PreOrder
  <2> QED
    BY <2>4, <2>5 DEF Routed, r
<1> QED
  BY <1>4, <1>5

\* Only one place is where a path is routed.
LEMMA RouteUnique ==
  ASSUME NEW m, MountTable(m), NEW path \in AllPaths, NEW r, Routed(m, path, r)
  PROVE  route(m, path) = r
<1> DEFINE s == route(m, path)
<1>1. Routed(m, path, s)
  BY RouteIs
<1> HIDE DEF s
<1>2. r \in AllPaths /\ s \in AllPaths /\ Pre(r, path) /\ Pre(s, path)
  BY <1>1 DEF Routed
<1>3. r = <<>> \/ Pre(r, s)
  BY <1>1 DEF Routed
<1>4. s = <<>> \/ Pre(s, r)
  BY <1>1 DEF Routed
<1>5. Pre(r, s) /\ Pre(s, r)
  BY <1>2, <1>3, <1>4, PreOrder
<1>6. Len(r) = Len(s)
  <2>1. Len(r) \in Nat /\ Len(s) \in Nat
    BY <1>2, PathShape
  <2> QED
    BY <1>5, <2>1 DEF Pre
<1>7. s = r
  BY <1>2, <1>5, <1>6, PreOrder
<1> QED
  BY <1>7 DEF s

\* A mount point is routed to itself, and tables with the same mount points above a
\* path route it alike.
LEMMA RouteFacts ==
  ASSUME NEW m, MountTable(m)
  PROVE  /\ \A mp \in DOMAIN m : route(m, mp) = mp
         /\ \A path \in AllPaths : \A k : MountTable(k) /\ Above(k, path) = Above(m, path)
              => route(k, path) = route(m, path)
<1>1. ASSUME NEW mp \in DOMAIN m PROVE route(m, mp) = mp
  <2>1. mp \in AllPaths
    BY DEF MountTable
  <2>2. Routed(m, mp, mp)
    BY <2>1, PreOrder DEF Routed, MountTable, Pre
  <2> QED
    BY <2>1, <2>2, RouteUnique
<1>2. ASSUME NEW path \in AllPaths, NEW k, MountTable(k), Above(k, path) = Above(m, path)
      PROVE  route(k, path) = route(m, path)
  BY <1>2, RouteLongest, Zenon
<1> QED
  BY <1>1, <1>2

-----------------------------------------------------------------------------
(* Trees.                                                                  *)

\* What the answers of a filesystem say about its tree.
LEMMA LookupIs ==
  ASSUME NEW fs \in Filesystems, NEW p
  PROVE  /\ Lookup(fs, p) \in {"dir", "file", "NotADirectory", "NotFound"}
         /\ Lookup(fs, p) \in {"dir", "file"} <=> p \in DOMAIN Tree[fs]
         /\ p \in DOMAIN Tree[fs] => Lookup(fs, p) = Tree[fs][p]
<1>1. p \in DOMAIN Tree[fs] => Tree[fs][p] \in {"dir", "file"}
  BY TreesAreTrees
<1> QED
  BY <1>1 DEF Lookup

\* Everything above something in a tree is a directory.
LEMMA DirectoriesAbove ==
  ASSUME NEW fs \in Filesystems, NEW q \in DOMAIN Tree[fs], NEW p \in AllPaths,
         Pre(p, q), p # q
  PROVE  p \in DOMAIN Tree[fs] /\ Tree[fs][p] = "dir"
<1> DEFINE T == Tree[fs]
           n == Len(q)
           N == {k \in Nat : k < n => /\ SubSeq(q, 1, n - (k + 1)) \in DOMAIN T
                                      /\ T[SubSeq(q, 1, n - (k + 1))] = "dir"}
<1>1. q \in AllPaths /\ n \in Nat
  BY TreesAreTrees, PathShape
<1>2. ASSUME NEW x \in DOMAIN T, Len(x) > 0
      PROVE  SubSeq(x, 1, Len(x) - 1) \in DOMAIN T /\ T[SubSeq(x, 1, Len(x) - 1)] = "dir"
  <2>1. x \in AllPaths
    BY TreesAreTrees
  <2>2. x # <<>>
    BY <1>2, <2>1, PathShape
  <2> QED
    BY <2>2, TreesAreTrees DEF Parent
<1>3. 0 \in N
  BY <1>1, <1>2
<1>4. ASSUME NEW k \in Nat, k \in N PROVE k + 1 \in N
  <2> SUFFICES ASSUME k + 1 < n
               PROVE  /\ SubSeq(q, 1, n - (k + 2)) \in DOMAIN T
                      /\ T[SubSeq(q, 1, n - (k + 2))] = "dir"
    BY <1>1
  <2> DEFINE j == n - (k + 1)
             x == SubSeq(q, 1, j)
  <2>1. x \in DOMAIN T /\ j \in 0..Len(q) /\ j > 0 /\ n - (k + 2) = j - 1 /\ j - 1 \in 0..Len(q)
    BY <1>1, <1>4
  <2> HIDE DEF j
  <2>2. x \in AllPaths /\ Len(x) = j /\ \A i \in 1..j : x[i] = q[i]
    BY <1>1, <2>1, FirstPart
  <2> HIDE DEF x
  <2> DEFINE y == SubSeq(x, 1, j - 1)
             z == SubSeq(q, 1, j - 1)
  <2>3. y \in DOMAIN T /\ T[y] = "dir"
    BY <1>2, <2>1, <2>2
  <2>4. /\ y \in AllPaths /\ Len(y) = j - 1 /\ \A i \in 1..(j - 1) : y[i] = x[i]
        /\ z \in AllPaths /\ Len(z) = j - 1 /\ \A i \in 1..(j - 1) : z[i] = q[i]
    <3>1. j - 1 \in 0..Len(x)
      BY <2>1, <2>2
    <3> QED
      BY <1>1, <2>1, <2>2, <3>1, FirstPart
  <2> HIDE DEF y, z
  <2>5. y = z
    <3>1. \A i \in 1..Len(y) : y[i] = z[i]
      BY <2>1, <2>2, <2>4
    <3> QED
      BY <2>4, <3>1, PathEqual
  <2> QED
    BY <2>1, <2>3, <2>5 DEF z
<1>5. Nat \subseteq N
  <2> HIDE DEF N
  <2> QED
    BY <1>3, <1>4, NatInductive
<1> DEFINE k == n - (Len(p) + 1)
<1>6. k \in Nat /\ k < n /\ n - (k + 1) = Len(p) /\ Len(p) \in 0..Len(q)
  <2>1. Len(p) \in Nat /\ Len(p) <= n /\ Len(p) # n
    BY <1>1, PathShape, PreOrder DEF Pre
  <2> QED
    BY <1>1, <2>1
<1>7. SubSeq(q, 1, Len(p)) \in DOMAIN T /\ T[SubSeq(q, 1, Len(p))] = "dir"
  BY <1>5, <1>6
<1>8. SubSeq(q, 1, Len(p)) = p
  <2> DEFINE x == SubSeq(q, 1, Len(p))
  <2>1. x \in AllPaths /\ Len(x) = Len(p) /\ \A i \in 1..Len(p) : x[i] = q[i]
    BY <1>1, <1>6, FirstPart
  <2> HIDE DEF x
  <2>2. x = p
    BY <2>1, PathEqual DEF Pre
  <2> QED
    BY <2>2 DEF x
<1> QED
  BY <1>7, <1>8, Zenon

\* A path as the filesystem at r sees it.
LEMMA RelativeIs ==
  ASSUME NEW p \in AllPaths, NEW r \in AllPaths, Pre(r, p)
  PROVE  /\ relative(p, r) \in AllPaths /\ Len(relative(p, r)) = Len(p) - Len(r)
         /\ \A i \in 1..(Len(p) - Len(r)) : relative(p, r)[i] = p[Len(r) + i]
<1>1. Len(r) \in 0..Len(p)
  BY PathShape DEF Pre
<1> QED
  BY <1>1, LastPart, Zenon DEF relative

\* At its mount point a filesystem shows its root.
LEMMA RelativeRoot ==
  ASSUME NEW p \in AllPaths
  PROVE  relative(p, p) = <<>>
<1>1. Pre(p, p) /\ Len(p) - Len(p) = 0
  BY PreOrder, PathShape
<1>2. relative(p, p) \in AllPaths /\ Len(relative(p, p)) = 0
  BY <1>1, RelativeIs
<1> QED
  BY <1>2, PathShape

\* Below a mount point beginnings stay beginnings.
LEMMA RelativePre ==
  ASSUME NEW p \in AllPaths, NEW q \in AllPaths, NEW r \in AllPaths, Pre(r, p), Pre(p, q)
  PROVE  /\ Pre(relative(p, r), relative(q, r))
         /\ p # q => relative(p, r) # relative(q, r)
<1> DEFINE a == relative(p, r)
           b == relative(q, r)
<1>1. Pre(r, q)
  BY PreOrder
<1>2. /\ a \in AllPaths /\ Len(a) = Len(p) - Len(r)
      /\ \A i \in 1..(Len(p) - Len(r)) : a[i] = p[Len(r) + i]
      /\ b \in AllPaths /\ Len(b) = Len(q) - Len(r)
      /\ \A i \in 1..(Len(q) - Len(r)) : b[i] = q[Len(r) + i]
  BY <1>1, RelativeIs
<1>3. Len(p) \in Nat /\ Len(q) \in Nat /\ Len(r) \in Nat /\ Len(r) <= Len(p) /\ Len(p) <= Len(q)
  BY PathShape DEF Pre
<1> HIDE DEF a, b
<1>4. \A i \in 1..(Len(p) - Len(r)) : Len(r) + i \in 1..Len(p) /\ i \in 1..(Len(q) - Len(r))
  BY <1>3
<1>5. Pre(a, b)
  BY <1>2, <1>3, <1>4, SMTT(20) DEF Pre
<1>6. p # q => Len(p) # Len(q)
  BY PreOrder
<1>7. p # q => a # b
  BY <1>2, <1>3, <1>6
<1> QED
  BY <1>5, <1>7 DEF a, b

-----------------------------------------------------------------------------
(* canonical_path.                                                         *)

\* A sequence with one more element.
LEMMA AppendSeq ==
  ASSUME NEW S, NEW s \in Seq(S), NEW c \in S
  PROVE  /\ Append(s, c) \in Seq(S) /\ Len(Append(s, c)) = Len(s) + 1
         /\ Append(s, c)[Len(s) + 1] = c /\ \A i \in 1..Len(s) : Append(s, c)[i] = s[i]
  OBVIOUS

\* A path with one more component.
LEMMA AppendPath ==
  ASSUME NEW p \in AllPaths, NEW c \in STRING
  PROVE  /\ Append(p, c) \in AllPaths /\ Len(Append(p, c)) = Len(p) + 1
         /\ Append(p, c)[Len(p) + 1] = c /\ \A i \in 1..Len(p) : Append(p, c)[i] = p[i]
<1> DEFINE S == STRING
<1>1. p \in Seq(S) /\ c \in S
  BY Zenon DEF AllPaths
<1>2. AllPaths = Seq(S)
  BY DEF AllPaths
<1> HIDE DEF S
<1>3. \A s \in Seq(S), d \in S :
        /\ Append(s, d) \in Seq(S) /\ Len(Append(s, d)) = Len(s) + 1
        /\ Append(s, d)[Len(s) + 1] = d /\ \A i \in 1..Len(s) : Append(s, d)[i] = s[i]
  BY AppendSeq
<1> QED
  BY <1>1, <1>2, <1>3, Zenon

\* A path without its last component.
LEMMA FrontPath ==
  ASSUME NEW q \in AllPaths, q # <<>>
  PROVE  /\ Parent(q) \in AllPaths /\ Len(Parent(q)) = Len(q) - 1 /\ Pre(Parent(q), q)
         /\ Name(q) = q[Len(q)] /\ Name(q) \in STRING
<1>1. Len(q) \in Nat /\ Len(q) # 0 /\ Len(q) - 1 \in 0..Len(q) /\ Len(q) \in 1..Len(q)
  BY PathShape
<1>2. /\ Parent(q) \in AllPaths /\ Len(Parent(q)) = Len(q) - 1
      /\ \A i \in 1..(Len(q) - 1) : Parent(q)[i] = q[i]
  BY <1>1, FirstPart, Zenon DEF Parent
<1>3. Pre(Parent(q), q)
  BY <1>1, <1>2 DEF Pre
<1>4. Name(q) = q[Len(q)] /\ Name(q) \in STRING
  BY <1>1, PathShape DEF Name
<1> QED
  BY <1>2, <1>3, <1>4

\* What canonical_path does component by component, and mount_entries entry by
\* entry.
Step(kind, acc, e) ==
  IF kind = "path" THEN Component(acc, e)
  ELSE IF e.mount_point = <<>> THEN acc ELSE sort_by_key(acc, e)

\* f holds the outcome after each number of the elements of s.
IsFold(f, kind, base, s, n) ==
  f = [i \in 0..n |-> IF i = 0 THEN base ELSE Step(kind, f[i - 1], s[i])]

\* canonical_path, written as the recursion that it is.
LEMMA CanonicalUnfolds ==
  ASSUME NEW raw
  PROVE  canonical_path(raw) =
           (CHOOSE f : IsFold(f, "path", [ok |-> TRUE, path |-> <<>>], raw, Len(raw)))[Len(raw)]
  BY DEF canonical_path, IsFold, Step

\* The same for mount_entries.
LEMMA EntriesUnfold ==
  ASSUME NEW table
  PROVE  mount_entries(table) =
           (CHOOSE f : IsFold(f, "sort", <<>>, table, Len(table)))[Len(table)]
  BY DEF mount_entries, IsFold, Step

\* The recursion has a solution.
LEMMA FoldExists ==
  ASSUME NEW kind, NEW base, NEW s, NEW n \in Nat
  PROVE  \E f : IsFold(f, kind, base, s, n)
<1> DEFINE F(f, i) == IF i = 0 THEN base ELSE Step(kind, f[i - 1], s[i])
           N == {m \in Nat : \E f : f = [i \in 0..m |-> F(f, i)]}
<1>1. 0 \in N
  <2> DEFINE h == [i \in 0..0 |-> base]
  <2>1. h = [i \in 0..0 |-> F(h, i)]
    OBVIOUS
  <2> QED
    BY <2>1, Zenon
<1>2. ASSUME NEW m \in Nat, m \in N PROVE m + 1 \in N
  <2>1. PICK g : g = [i \in 0..m |-> F(g, i)]
    BY <1>2
  <2> DEFINE h == [i \in 0..(m + 1) |-> IF i \in 0..m THEN g[i] ELSE F(g, i)]
  <2>2. ASSUME NEW i \in 0..(m + 1) PROVE F(h, i) = F(g, i)
    BY <2>2
  <2>3. \A i \in 0..(m + 1) : h[i] = F(g, i)
    BY <2>1
  <2>4. h = [i \in 0..(m + 1) |-> F(h, i)]
    BY <2>2, <2>3
  <2> HIDE DEF h, F
  <2>5. \E f : f = [i \in 0..(m + 1) |-> F(f, i)]
    BY <2>4, Zenon
  <2>6. m + 1 \in Nat
    OBVIOUS
  <2> QED
    BY <2>5, <2>6, Zenon
<1>3. Nat \subseteq N
  BY <1>1, <1>2, NatInductive, Zenon
<1> HIDE DEF F
<1>4. \E f : f = [i \in 0..n |-> F(f, i)]
  BY <1>3, Zenon
<1> QED
  BY <1>4, Zenon DEF F, IsFold

\* What a solution holds, element by element.
LEMMA FoldSteps ==
  ASSUME NEW f, NEW kind, NEW base, NEW s, NEW n \in Nat, IsFold(f, kind, base, s, n)
  PROVE  f[0] = base /\ \A i \in 1..n : f[i] = Step(kind, f[i - 1], s[i])
<1>1. \A i \in 0..n : f[i] = IF i = 0 THEN base ELSE Step(kind, f[i - 1], s[i])
  BY Zenon DEF IsFold
<1> QED
  BY <1>1

\* What has been seen of a path is a path.
SeenOk(x) == x = [ok |-> x.ok, path |-> x.path] /\ x.path \in AllPaths

\* One component more keeps it one.
LEMMA ComponentOk ==
  ASSUME NEW x, SeenOk(x), NEW c \in STRING
  PROVE  SeenOk(Component(x, c))
<1>1. CASE Component(x, c) = x
  BY <1>1
<1>2. CASE Component(x, c) = [ok |-> TRUE, path |-> Append(x.path, c)]
  BY <1>2, AppendPath DEF SeenOk
<1>3. CASE Component(x, c) = [ok |-> FALSE, path |-> <<>>]
  BY <1>3 DEF SeenOk, AllPaths
<1>4. CASE x.path # <<>> /\ Component(x, c) = [ok |-> TRUE, path |-> Parent(x.path)]
  <2>1. Parent(x.path) \in AllPaths
    BY <1>4, FrontPath DEF SeenOk
  <2> QED
    BY <1>4, <2>1 DEF SeenOk
<1> QED
  BY <1>1, <1>2, <1>3, <1>4, Zenon DEF Component

\* canonical_path gives a path.
LEMMA CanonicalIsPath ==
  ASSUME NEW raw \in AllPaths
  PROVE  canonical_path(raw).path \in AllPaths
<1> DEFINE n == Len(raw)
           start == [ok |-> TRUE, path |-> <<>>]
<1>1. n \in Nat /\ \A i \in 1..n : raw[i] \in STRING
  BY PathShape
<1>2. PICK f : IsFold(f, "path", start, raw, n) /\ canonical_path(raw) = f[n]
  <2>1. \E f : IsFold(f, "path", start, raw, n)
    BY <1>1, FoldExists, Zenon
  <2> QED
    BY <2>1, CanonicalUnfolds, Zenon
<1>3. SeenOk(start)
  BY DEF SeenOk, AllPaths
<1> HIDE DEF n, start
<1>4. f[0] = start /\ \A i \in 1..n : f[i] = Step("path", f[i - 1], raw[i])
  BY <1>1, <1>2, FoldSteps
<1> DEFINE N == {m \in Nat : m <= n => SeenOk(f[m])}
<1>5. 0 \in N
  BY <1>3, <1>4
<1>6. ASSUME NEW m \in Nat, m \in N PROVE m + 1 \in N
  <2> SUFFICES ASSUME m + 1 <= n PROVE SeenOk(f[m + 1])
    OBVIOUS
  <2>1. m + 1 \in 1..n /\ (m + 1) - 1 = m /\ SeenOk(f[m])
    BY <1>1, <1>6
  <2>2. f[m + 1] = Component(f[m], raw[m + 1]) /\ raw[m + 1] \in STRING
    BY <1>1, <1>4, <2>1, Zenon DEF Step
  <2> QED
    BY <2>1, <2>2, ComponentOk, Zenon
<1>7. Nat \subseteq N
  <2> HIDE DEF N
  <2> QED
    BY <1>5, <1>6, NatInductive
<1>8. n \in N /\ n <= n
  BY <1>1, <1>7
<1> QED
  BY <1>2, <1>8 DEF SeenOk

\* The paths of callers are paths.
LEMMA PathsArePaths == Paths \subseteq AllPaths
  BY RawPathsAreSequences, CanonicalIsPath DEF Paths

-----------------------------------------------------------------------------
(* What a namespace answers.                                               *)

\* The mount table of a namespace: every volume has a directory as its root.
ViewTable(m) ==
  /\ MountTable(m)
  /\ \A mp \in DOMAIN m : m[mp] \in Filesystems /\ Tree[m[mp]][<<>>] = "dir"

\* What is behind a path is an answer of one of the volumes.
LEMMA BehindIs ==
  ASSUME NEW m, ViewTable(m), NEW p \in AllPaths
  PROVE  LET r == route(m, p) IN
         /\ Routed(m, p, r)
         /\ filesystem_mut(m, r) \in Filesystems
         /\ Behind(m, p) = Lookup(filesystem_mut(m, r), relative(p, r))
<1>1. Routed(m, p, route(m, p))
  BY RouteIs DEF ViewTable
<1>2. filesystem_mut(m, route(m, p)) \in Filesystems
  BY <1>1, TreesAreTrees DEF Routed, ViewTable, filesystem_mut
<1> QED
  BY <1>1, <1>2 DEF Behind

\* At a mount point is the root of its volume.
LEMMA MountedRoot ==
  ASSUME NEW m, ViewTable(m), NEW mp \in DOMAIN m
  PROVE  Behind(m, mp) = "dir"
<1>1. mp \in AllPaths /\ mp # <<>> /\ MountTable(m)
        /\ m[mp] \in Filesystems /\ Tree[m[mp]][<<>>] = "dir"
  BY DEF ViewTable, MountTable
<1>2. route(m, mp) = mp
  BY <1>1, RouteFacts
<1>3. filesystem_mut(m, mp) = m[mp]
  BY <1>1 DEF filesystem_mut
<1>4. Behind(m, mp) = Lookup(m[mp], <<>>)
  BY <1>1, <1>2, <1>3, RelativeRoot DEF Behind
<1>5. <<>> \in DOMAIN Tree[m[mp]]
  BY <1>1, TreesAreTrees
<1> QED
  BY <1>1, <1>4, <1>5, LookupIs

\* Something is mounted further down.
LEMMA DescendantIs ==
  ASSUME NEW m, MountTable(m), NEW p \in AllPaths
  PROVE  has_mounted_descendant(m, p) <=> \E mp \in DOMAIN m : Pre(p, mp) /\ p # mp
<1>1. \A mp \in DOMAIN m : mp \in AllPaths /\ mp # <<>>
  BY DEF MountTable
<1>2. CASE p = <<>>
  BY <1>1, <1>2, PreOrder DEF has_mounted_descendant
<1>3. CASE p # <<>>
  BY <1>1, <1>3, BelowIsPre DEF has_mounted_descendant
<1> QED
  BY <1>2, <1>3

\* The names of the mount points below a directory.
LEMMA ChildrenAre ==
  ASSUME NEW m, MountTable(m), NEW p \in AllPaths, NEW c
  PROVE  c \in direct_mount_children(m, p) <=>
           \E mp \in DOMAIN m : Pre(p, mp) /\ p # mp /\ c = mp[Len(p) + 1]
<1>1. \A mp \in DOMAIN m : StartsWith(mp, p) <=> Pre(p, mp)
  BY PrefixIsPre DEF MountTable
<1> QED
  BY <1>1 DEF direct_mount_children

\* The entries a volume lists.
LEMMA EntriesAre ==
  ASSUME NEW fs \in Filesystems, NEW p \in AllPaths, NEW c \in STRING
  PROVE  /\ c \in DOMAIN Entries(fs, p) <=> Append(p, c) \in DOMAIN Tree[fs]
         /\ c \in DOMAIN Entries(fs, p) => Entries(fs, p)[c] = Tree[fs][Append(p, c)]
<1> DEFINE T == Tree[fs]
           below == {q \in DOMAIN T : Len(q) = Len(p) + 1 /\ StartsWith(q, p)}
           names == {Name(q) : q \in below}
<1>1. Entries(fs, p) = [n \in names |-> T[Append(p, n)]]
  BY DEF Entries
<1>2. DOMAIN T \subseteq AllPaths
  BY TreesAreTrees
<1>3. Len(p) \in Nat /\ Len(p) + 1 # 0
  BY PathShape
<1>4. ASSUME Append(p, c) \in DOMAIN T PROVE c \in names
  <2> DEFINE q == Append(p, c)
  <2>1. /\ q \in AllPaths /\ Len(q) = Len(p) + 1 /\ q[Len(p) + 1] = c
        /\ \A i \in 1..Len(p) : q[i] = p[i]
    BY AppendPath, Zenon
  <2>2. q \in DOMAIN T
    BY <1>4, Zenon
  <2> HIDE DEF q
  <2>3. StartsWith(q, p)
    BY <1>3, <2>1, PrefixIsPre DEF Pre
  <2>4. Name(q) = c
    BY <2>1 DEF Name
  <2> QED
    BY <2>1, <2>2, <2>3, <2>4, Zenon
<1>5. ASSUME c \in names PROVE Append(p, c) \in DOMAIN T
  <2>1. PICK q \in DOMAIN T : Len(q) = Len(p) + 1 /\ StartsWith(q, p) /\ c = Name(q)
    BY <1>5, Zenon
  <2> DEFINE a == Append(p, c)
  <2>2. /\ a \in AllPaths /\ Len(a) = Len(p) + 1 /\ a[Len(p) + 1] = c
        /\ \A i \in 1..Len(p) : a[i] = p[i]
    BY AppendPath, Zenon
  <2> HIDE DEF a
  <2>3. q \in AllPaths /\ q[Len(p) + 1] = c /\ \A i \in 1..Len(p) : q[i] = p[i]
    BY <1>2, <2>1, PrefixIsPre DEF Pre, Name
  <2>4. \A i \in 1..Len(a) : i = Len(p) + 1 \/ i \in 1..Len(p)
    BY <1>3, <2>2
  <2>5. \A i \in 1..Len(a) : a[i] = q[i]
    BY <2>2, <2>3, <2>4, Zenon
  <2>6. a = q
    BY <2>1, <2>2, <2>3, <2>5, PathEqual
  <2> QED
    BY <2>1, <2>6 DEF a
<1> HIDE DEF names
<1> QED
  BY <1>1, <1>4, <1>5, Zenon

\* Below a mount point the name of an entry stays its name.
LEMMA RelativeEntry ==
  ASSUME NEW q \in AllPaths, q # <<>>, NEW r \in AllPaths, Pre(r, Parent(q))
  PROVE  relative(q, r) = Append(relative(Parent(q), r), Name(q))
<1> DEFINE p == Parent(q)
           a == Append(relative(p, r), Name(q))
           b == relative(q, r)
           n == Len(q) - Len(r)
<1>1. /\ p \in AllPaths /\ Len(p) = Len(q) - 1 /\ Pre(p, q)
      /\ Name(q) = q[Len(q)] /\ Name(q) \in STRING
  BY FrontPath
<1>2. Len(q) \in Nat /\ Len(r) \in Nat /\ Len(p) \in Nat /\ Len(r) <= Len(p) /\ Pre(r, q)
  BY <1>1, PathShape, PreOrder DEF Pre
<1>3. /\ relative(p, r) \in AllPaths /\ Len(relative(p, r)) = Len(p) - Len(r)
      /\ \A i \in 1..(Len(p) - Len(r)) : relative(p, r)[i] = p[Len(r) + i]
  BY <1>1, RelativeIs
<1>4. b \in AllPaths /\ Len(b) = n /\ \A i \in 1..n : b[i] = q[Len(r) + i]
  BY <1>2, RelativeIs
<1>5. /\ a \in AllPaths /\ Len(a) = Len(relative(p, r)) + 1
      /\ a[Len(relative(p, r)) + 1] = Name(q)
      /\ \A i \in 1..Len(relative(p, r)) : a[i] = relative(p, r)[i]
  BY <1>1, <1>3, AppendPath, Zenon
<1>6. \A i \in 1..Len(p) : p[i] = q[i]
  BY <1>1 DEF Pre
<1> HIDE DEF a, b, p
<1>7. ASSUME NEW i \in 1..n PROVE b[i] = a[i]
  <2>1. b[i] = q[Len(r) + i]
    BY <1>4
  <2>2. CASE i = n
    <3>1. n = Len(relative(p, r)) + 1 /\ Len(r) + n = Len(q)
      BY <1>1, <1>2, <1>3
    <3> QED
      BY <1>1, <1>5, <2>1, <2>2, <3>1
  <2>3. CASE i # n
    <3>1. i \in 1..(Len(p) - Len(r)) /\ Len(r) + i \in 1..Len(p)
      BY <1>1, <1>2, <2>3
    <3>2. a[i] = p[Len(r) + i]
      BY <1>3, <1>5, <3>1
    <3> QED
      BY <1>6, <2>1, <3>1, <3>2
  <2> QED
    BY <2>2, <2>3
<1>8. Len(a) = Len(b)
  BY <1>1, <1>2, <1>3, <1>4, <1>5, SMTT(20)
<1> QED
  BY <1>4, <1>5, <1>7, <1>8, PathEqual, Zenon DEF a, b, p

-----------------------------------------------------------------------------
(* One tree to listings and lookups.                                       *)

\* Where a listing succeeds it holds what the volume lists, if anything, and the
\* mounted children.
LEMMA ListingIs ==
  ASSUME NEW m, ViewTable(m), NEW p \in AllPaths, read_dir(m, p).ok
  PROVE  LET listed == read_dir(m, p).entries
             own    == IF Behind(m, p) = "dir"
                       THEN Entries(filesystem_mut(m, route(m, p)), relative(p, route(m, p)))
                       ELSE Nothing
         IN  /\ Behind(m, p) \in {"dir", "NotFound"}
             /\ DOMAIN listed = DOMAIN own \cup direct_mount_children(m, p)
             /\ \A c \in DOMAIN listed :
                  listed[c] = IF c \in direct_mount_children(m, p) THEN "dir" ELSE own[c]
<1> DEFINE rel == relative(p, route(m, p))
           own == IF Behind(m, p) = "dir"
                  THEN Entries(filesystem_mut(m, route(m, p)), rel) ELSE Nothing
           over == merge_directory_entries(m, p, own)
<1>1. /\ DOMAIN over = DOMAIN own \cup direct_mount_children(m, p)
      /\ \A c \in DOMAIN over :
           over[c] = IF c \in direct_mount_children(m, p) THEN "dir" ELSE own[c]
  <2> HIDE DEF own
  <2> QED
    BY DEF merge_directory_entries
<1> HIDE DEF over
<1>2. CASE Behind(m, p) = "dir"
  <2>1. read_dir(m, p) = [ok |-> TRUE, entries |-> over]
    BY <1>2 DEF read_dir, Behind, over
  <2>2. read_dir(m, p).entries = over
    BY <2>1, SMTT(20)
  <2> QED
    BY <1>1, <1>2, <2>2
<1>3. CASE Behind(m, p) # "dir"
  <2>1. /\ Behind(m, p) = "NotFound"
        /\ read_dir(m, p) = [ok |-> TRUE, entries |-> over]
    BY <1>3 DEF read_dir, Behind, over
  <2>2. read_dir(m, p).entries = over
    BY <2>1
  <2> QED
    BY <1>1, <2>1, <2>2
<1> QED
  BY <1>2, <1>3

\* A name at or above a mount point is listed, as a directory, and is one.
LEMMA ListedAbove ==
  ASSUME NEW m, ViewTable(m), NEW p \in AllPaths, NEW q \in AllPaths,
         q # <<>>, Parent(q) = p, read_dir(m, p).ok, NEW mp \in DOMAIN m, Pre(q, mp)
  PROVE  /\ Name(q) \in DOMAIN read_dir(m, p).entries
         /\ read_dir(m, p).entries[Name(q)] = "dir"
         /\ metadata(m, q) = "dir"
<1>1. mp \in AllPaths /\ MountTable(m) /\ Len(q) \in Nat /\ Len(q) # 0 /\ Len(mp) \in Nat
  BY PathShape DEF ViewTable, MountTable
<1>2. Len(p) = Len(q) - 1 /\ Pre(p, q) /\ Name(q) = q[Len(q)]
  BY FrontPath
<1>3. Pre(p, mp) /\ p # mp /\ Name(q) = mp[Len(p) + 1]
  <2>1. Len(p) < Len(mp) /\ Len(q) = Len(p) + 1 /\ Len(q) \in 1..Len(q)
    BY <1>1, <1>2 DEF Pre
  <2>2. Pre(p, mp)
    BY <1>1, <1>2, PreOrder
  <2> QED
    BY <1>1, <1>2, <2>1, <2>2 DEF Pre
<1>4. Name(q) \in direct_mount_children(m, p)
  BY <1>1, <1>3, ChildrenAre
<1>5. /\ Name(q) \in DOMAIN read_dir(m, p).entries
      /\ read_dir(m, p).entries[Name(q)] = "dir"
  BY <1>4, ListingIs
<1>6. CASE q \in DOMAIN m
  BY <1>5, <1>6, MountedRoot DEF metadata
<1>7. CASE q \notin DOMAIN m
  <2>1. has_mounted_descendant(m, q)
    BY <1>1, <1>7, DescendantIs
  <2> QED
    BY <1>5, <1>7, <2>1 DEF metadata, AboveMount
<1> QED
  BY <1>5, <1>6, <1>7

\* A name with nothing mounted at or below it is listed by the volume of its
\* directory or not at all, and that volume answers for it.
LEMMA ListedElsewhere ==
  ASSUME NEW m, ViewTable(m), NEW p \in AllPaths, NEW q \in AllPaths,
         q # <<>>, Parent(q) = p, read_dir(m, p).ok, \A mp \in DOMAIN m : ~Pre(q, mp)
  PROVE  LET listed == read_dir(m, p).entries
             found  == metadata(m, q)
         IN  IF Name(q) \in DOMAIN listed THEN found = listed[Name(q)]
             ELSE found \notin {"dir", "file"}
<1> DEFINE r == route(m, p)
           fs == filesystem_mut(m, r)
           rel == relative(p, r)
           c == Name(q)
<1>1. /\ MountTable(m) /\ Len(q) \in Nat /\ Len(q) # 0 /\ Len(p) = Len(q) - 1 /\ Pre(p, q)
      /\ c = q[Len(q)] /\ c \in STRING
  BY FrontPath, PathShape DEF ViewTable
<1>2. \A mp \in DOMAIN m : mp \in AllPaths /\ mp # <<>> /\ Len(mp) \in Nat
  BY PathShape DEF ViewTable, MountTable
<1>3. c \notin direct_mount_children(m, p)
  <2> SUFFICES ASSUME NEW mp \in DOMAIN m, Pre(p, mp), p # mp, c = mp[Len(p) + 1] PROVE FALSE
    BY <1>1, ChildrenAre
  <2>1. mp \in AllPaths /\ Len(mp) \in Nat /\ Len(p) \in Nat
    BY <1>2, PathShape
  <2>2. Len(p) < Len(mp)
    <3>1. Len(p) # Len(mp)
      BY <2>1, PathEqual DEF Pre
    <3> QED
      BY <2>1, <3>1 DEF Pre
  <2>3. ASSUME NEW i \in 1..Len(q) PROVE q[i] = mp[i]
    <3>1. CASE i = Len(q)
      BY <3>1, <1>1
    <3>2. CASE i # Len(q)
      <4>1. i \in 1..Len(p)
        BY <1>1, <3>2
      <4> QED
        BY <1>1, <4>1 DEF Pre
    <3> QED
      BY <3>1, <3>2
  <2>4. Pre(q, mp)
    BY <1>1, <2>1, <2>2, <2>3, SMTT(20) DEF Pre
  <2> QED
    BY <2>4
<1>4. Above(m, q) = Above(m, p)
  <2>1. ASSUME NEW mp \in DOMAIN m PROVE Pre(mp, q) <=> Pre(mp, p)
    <3>1. mp \in AllPaths /\ Len(mp) \in Nat /\ Len(p) \in Nat
      BY <1>2, PathShape
    <3>2. ASSUME Pre(mp, q) PROVE Pre(mp, p)
      <4>1. Len(mp) # Len(q)
        <5> SUFFICES ASSUME Len(mp) = Len(q) PROVE Pre(q, mp)
          OBVIOUS
        <5> QED
          BY <3>2 DEF Pre
      <4>2. Len(mp) <= Len(p)
        BY <1>1, <3>1, <3>2, <4>1, SMTT(20) DEF Pre
      <4> QED
        BY <1>1, <3>1, <3>2, <4>2 DEF Pre
    <3>3. ASSUME Pre(mp, p) PROVE Pre(mp, q)
      BY <1>1, <3>1, <3>3, PreOrder
    <3> QED
      BY <3>2, <3>3
  <2> QED
    BY <2>1 DEF Above
<1>6. Routed(m, p, r) /\ fs \in Filesystems /\ Behind(m, p) = Lookup(fs, rel)
  BY BehindIs
<1>5. route(m, q) = r
  <2>1. r \in AllPaths /\ Pre(r, p) /\ (r = <<>> \/ r \in DOMAIN m)
    BY <1>6 DEF Routed
  <2>2. Pre(r, q)
    BY <1>1, <2>1, PreOrder
  <2>3. \A mp \in DOMAIN m : Pre(mp, q) => Len(mp) <= Len(r) /\ Pre(mp, r)
    BY <1>4, <1>6 DEF Routed, Above
  <2>4. Routed(m, q, r)
    BY <2>1, <2>2, <2>3 DEF Routed
  <2> QED
    BY <1>1, <2>4, RouteUnique
<1>7. rel \in AllPaths /\ relative(q, r) = Append(rel, c)
  <2>1. r \in AllPaths /\ Pre(r, p)
    BY <1>6 DEF Routed
  <2> QED
    BY <2>1, RelativeIs, RelativeEntry
<1>8. metadata(m, q) = Lookup(fs, Append(rel, c))
  <2>1. ~has_mounted_descendant(m, q)
    BY <1>1, DescendantIs
  <2> QED
    BY <2>1, <1>5, <1>7 DEF metadata, AboveMount, Behind
<1> DEFINE listed == read_dir(m, p).entries
           own == IF Behind(m, p) = "dir" THEN Entries(fs, rel) ELSE Nothing
           a == Append(rel, c)
<1>9. /\ Behind(m, p) \in {"dir", "NotFound"}
      /\ c \in DOMAIN listed <=> c \in DOMAIN own
      /\ c \in DOMAIN listed => listed[c] = own[c]
  BY <1>3, ListingIs
<1>10. a \in AllPaths /\ Pre(rel, a) /\ rel # a
  BY <1>1, <1>7, AppendPath, PathShape DEF Pre
<1>11. /\ c \in DOMAIN Entries(fs, rel) <=> a \in DOMAIN Tree[fs]
       /\ c \in DOMAIN Entries(fs, rel) => Entries(fs, rel)[c] = Tree[fs][a]
  BY <1>1, <1>6, <1>7, EntriesAre, Zenon
<1> HIDE DEF r, fs, rel, c, a, listed
<1>12. CASE Behind(m, p) = "dir"
  <2>1. CASE c \in DOMAIN listed
    BY <1>6, <1>8, <1>9, <1>11, <1>12, <2>1, LookupIs, Zenon DEF a, c, listed
  <2>2. CASE c \notin DOMAIN listed
    BY <1>6, <1>8, <1>9, <1>11, <1>12, <2>2, LookupIs, Zenon DEF a, c, listed
  <2> QED
    BY <2>1, <2>2
<1>13. CASE Behind(m, p) = "NotFound"
  <2>1. c \notin DOMAIN listed
    BY <1>9, <1>13 DEF Nothing
  <2>2. a \notin DOMAIN Tree[fs]
    <3> SUFFICES ASSUME a \in DOMAIN Tree[fs] PROVE FALSE
      OBVIOUS
    <3>1. rel \in DOMAIN Tree[fs] /\ Tree[fs][rel] = "dir"
      BY <1>6, <1>7, <1>10, DirectoriesAbove
    <3> QED
      BY <3>1, <1>6, <1>13, LookupIs, Zenon
  <2> QED
    BY <1>6, <1>8, <2>1, <2>2, LookupIs DEF a, c, listed
<1> QED
  BY <1>9, <1>12, <1>13

\* The namespace is one tree (ListedIffThere).
LEMMA TreeOfListings ==
  ASSUME ViewTable(mounts)
  PROVE  ListedIffThere
<1> SUFFICES ASSUME NEW p \in Paths, read_dir(mounts, p).ok,
                    NEW q \in Paths, q # <<>>, Parent(q) = p
             PROVE  LET listed == read_dir(mounts, p).entries
                        found  == metadata(mounts, q)
                    IN  IF Name(q) \in DOMAIN listed THEN found = listed[Name(q)]
                        ELSE found \notin {"dir", "file"}
  BY DEF ListedIffThere
<1>1. p \in AllPaths /\ q \in AllPaths
  BY PathsArePaths
<1>2. CASE \E mp \in DOMAIN mounts : Pre(q, mp)
  BY <1>1, <1>2, ListedAbove
<1>3. CASE \A mp \in DOMAIN mounts : ~Pre(q, mp)
  BY <1>1, <1>3, ListedElsewhere, Zenon
<1> QED
  BY <1>2, <1>3

\* Every mount is in its place (MountsStayReachable).
LEMMA MountsInPlace ==
  ASSUME ViewTable(mounts)
  PROVE  MountsStayReachable
<1> SUFFICES ASSUME NEW mp \in DOMAIN mounts
             PROVE  /\ metadata(mounts, mp) = "dir"
                    /\ open(mounts, mp) = "dir"
                    /\ read_dir(mounts, mp).ok
                    /\ \A n \in 0..Len(mp) : try_is_dir(mounts, SubSeq(mp, 1, n)) = "yes"
  BY Zenon DEF MountsStayReachable
<1>1. mp \in AllPaths /\ MountTable(mounts) /\ Len(mp) \in Nat
  BY PathShape DEF ViewTable, MountTable
<1>2. Behind(mounts, mp) = "dir"
  BY MountedRoot
<1>3. metadata(mounts, mp) = "dir" /\ open(mounts, mp) = "dir"
  BY <1>2 DEF metadata, open
<1>4. read_dir(mounts, mp).ok
  BY <1>2 DEF read_dir, Behind
<1>5. ASSUME NEW n \in 0..Len(mp) PROVE try_is_dir(mounts, SubSeq(mp, 1, n)) = "yes"
  <2> DEFINE up == SubSeq(mp, 1, n)
  <2>1. up \in AllPaths /\ Len(up) = n /\ \A i \in 1..n : up[i] = mp[i]
    BY <1>1, FirstPart
  <2>2. Pre(up, mp)
    BY <1>1, <2>1 DEF Pre
  <2> HIDE DEF up
  <2>3. CASE up = mp
    BY <1>2, <2>3, Zenon DEF try_is_dir, Verdict, up
  <2>4. CASE up # mp
    <3>1. has_mounted_descendant(mounts, up)
      BY <1>1, <2>1, <2>2, <2>4, DescendantIs
    <3> QED
      BY <3>1 DEF try_is_dir, up
  <2> QED
    BY <2>3, <2>4
<1> QED
  BY <1>3, <1>4, <1>5


-----------------------------------------------------------------------------
(* mount_entries sorts.                                                    *)

\* The entries of a table of a root volume.
LEMMA EntriesOfTable ==
  ASSUME NEW table \in Fstabs
  PROVE  /\ Len(table) \in Nat /\ DOMAIN table = 1..Len(table)
         /\ \A i \in 1..Len(table) :
              table[i].mount_point # <<>> => table[i] \in Children(table)
         /\ \A e \in Children(table) : /\ e.mount_point \in AllPaths /\ Depth(e) \in Nat
                                       /\ e.mount_point # <<>>
                                       /\ \E i \in 1..Len(table) : table[i] = e
<1>1. Len(table) \in Nat /\ DOMAIN table = 1..Len(table)
        /\ \A i \in DOMAIN table : table[i].mount_point \in AllPaths
  BY TablesAreSequences
<1>2. \A i \in 1..Len(table) : table[i].mount_point # <<>> => table[i] \in Children(table)
  BY <1>1 DEF Children, Range
<1>3. ASSUME NEW e \in Children(table)
      PROVE  /\ e.mount_point \in AllPaths /\ e.mount_point # <<>>
             /\ \E i \in 1..Len(table) : table[i] = e
  BY <1>1 DEF Children, Range
<1>4. \A e \in Children(table) : Depth(e) \in Nat
  BY <1>3, PathShape DEF Depth
<1> QED
  BY <1>1, <1>2, <1>3, <1>4

\* s holds entries of C in the order of their depth.
InOrder(s, C) == s \in Seq(C) /\ \A i, j \in 1..Len(s) : i < j => Depth(s[i]) <= Depth(s[j])

\* n entries of s are no deeper than e, and the others are deeper.
PlaceOf(s, e, n) ==
  /\ \A i \in 1..n : Depth(s[i]) <= Depth(e)
  /\ \A i \in (n + 1)..Len(s) : Depth(s[i]) > Depth(e)

\* The place of an entry exists.
LEMMA PlaceExists ==
  ASSUME NEW C, \A e \in C : Depth(e) \in Nat, NEW s, InOrder(s, C), NEW e \in C
  PROVE  \E n \in 0..Len(s) : PlaceOf(s, e, n)
<1>1. /\ Len(s) \in Nat /\ Depth(e) \in Nat /\ \A i \in 1..Len(s) : Depth(s[i]) \in Nat
      /\ \A i, j \in 1..Len(s) : i < j => Depth(s[i]) <= Depth(s[j])
  BY DEF InOrder
<1> DEFINE T == {i \in 1..Len(s) : Depth(s[i]) <= Depth(e)}
<1>2. CASE T = {}
  <2>1. PlaceOf(s, e, 0)
    BY <1>1, <1>2 DEF PlaceOf
  <2> QED
    BY <1>1, <2>1
<1>3. CASE T # {}
  <2>1. PICK n \in T : \A y \in T : y <= n
    <3> T \subseteq 1..Len(s)
      OBVIOUS
    <3> HIDE DEF T
    <3> QED
      BY <1>1, <1>3, GreatestNumber, Zenon
  <2>2. n \in 1..Len(s) /\ Depth(s[n]) <= Depth(e)
    OBVIOUS
  <2>3. ASSUME NEW i \in 1..n PROVE Depth(s[i]) <= Depth(e)
    <3>1. i \in 1..Len(s) /\ (i < n \/ i = n)
      BY <1>1, <2>2
    <3> QED
      BY <1>1, <2>2, <3>1
  <2>4. ASSUME NEW i \in (n + 1)..Len(s) PROVE Depth(s[i]) > Depth(e)
    <3>1. i \in 1..Len(s) /\ ~(i <= n)
      BY <1>1, <2>2
    <3>2. ~(Depth(s[i]) <= Depth(e))
      BY <2>1, <3>1
    <3> QED
      BY <1>1, <3>1, <3>2
  <2> QED
    BY <1>1, <2>2, <2>3, <2>4 DEF PlaceOf
<1> QED
  BY <1>2, <1>3

\* e behind the first n entries of s.
Inserted(s, e, n) == Append(SubSeq(s, 1, n), e) \o SubSeq(s, n + 1, Len(s))

\* In r, e is at its place, the others are where they were or one further on.
PlacedAt(s, e, n, r, C) ==
  /\ r \in Seq(C) /\ Len(r) = Len(s) + 1 /\ r[n + 1] = e
  /\ \A i \in 1..n : r[i] = s[i]
  /\ \A i \in (n + 2)..(Len(s) + 1) : r[i] = s[i - 1]

\* What an insertion leaves.
LEMMA InsertedAt ==
  ASSUME NEW C, NEW s \in Seq(C), NEW e \in C, NEW n \in 0..Len(s)
  PROVE  PlacedAt(s, e, n, Inserted(s, e, n), C)
<1> DEFINE r == Inserted(s, e, n)
           a == SubSeq(s, 1, n)
           b == SubSeq(s, n + 1, Len(s))
           f == Append(a, e)
<1>0. Len(s) \in Nat
  OBVIOUS
<1>1. a \in Seq(C) /\ Len(a) = n /\ \A i \in 1..n : a[i] = s[i]
  OBVIOUS
<1>2. b \in Seq(C) /\ Len(b) = Len(s) - n /\ \A i \in 1..(Len(s) - n) : b[i] = s[n + i]
  OBVIOUS
<1> HIDE DEF a, b
<1>3. f \in Seq(C) /\ Len(f) = n + 1 /\ f[n + 1] = e /\ \A i \in 1..n : f[i] = s[i]
  BY <1>1
<1> HIDE DEF f, r
<1>4. r = f \o b
  BY DEF f, a, b, r, Inserted
<1>5. /\ r \in Seq(C) /\ Len(r) = Len(f) + Len(b)
      /\ \A i \in 1..Len(f) : r[i] = f[i]
      /\ \A i \in 1..Len(b) : r[Len(f) + i] = b[i]
  <2>1. /\ f \o b \in Seq(C) /\ Len(f \o b) = Len(f) + Len(b)
        /\ \A i \in 1..Len(f) : (f \o b)[i] = f[i]
        /\ \A i \in 1..Len(b) : (f \o b)[Len(f) + i] = b[i]
    <3>1. f \in Seq(C) /\ b \in Seq(C)
      BY <1>2, <1>3
    <3> QED
      BY <3>1
  <2> QED
    BY <1>4, <2>1, Zenon
<1>6. ASSUME NEW i \in (n + 2)..(Len(s) + 1) PROVE r[i] = s[i - 1]
  <2> DEFINE j == i - (n + 1)
  <2>1. j \in 1..Len(b) /\ j \in 1..(Len(s) - n) /\ Len(f) + j = i /\ n + j = i - 1
    BY <1>0, <1>2, <1>3
  <2> HIDE DEF j
  <2>2. r[i] = b[j]
    BY <1>5, <2>1
  <2> QED
    BY <1>2, <2>1, <2>2, Zenon
<1>7. r[n + 1] = e /\ \A i \in 1..n : r[i] = s[i]
  <2>1. n + 1 \in 1..Len(f) /\ \A i \in 1..n : i \in 1..Len(f)
    BY <1>0, <1>3
  <2> QED
    BY <1>3, <1>5, <2>1
<1>8. Len(r) = Len(s) + 1
  <2>1. Len(r) = (n + 1) + (Len(s) - n)
    BY <1>2, <1>3, <1>5, Zenon
  <2> QED
    BY <1>0, <2>1
<1> QED
  BY <1>5, <1>6, <1>7, <1>8 DEF r, PlacedAt

\* r holds what s holds and e besides, in order.
SortsInto(s, e, r, C) ==
  /\ InOrder(r, C)
  /\ \E k \in 1..Len(r) : r[k] = e
  /\ \A j \in 1..Len(s) : \E k \in 1..Len(r) : r[k] = s[j]

\* One insertion keeps the order and every entry (sort_by_key).
LEMMA SortStep ==
  ASSUME NEW C, \A e \in C : Depth(e) \in Nat, NEW s, InOrder(s, C), NEW e \in C
  PROVE  SortsInto(s, e, sort_by_key(s, e), C)
<1> DEFINE r == sort_by_key(s, e)
<1>1. PICK n \in 0..Len(s) : PlaceOf(s, e, n) /\ r = Inserted(s, e, n)
  <2>1. r = Inserted(s, e, CHOOSE n \in 0..Len(s) : PlaceOf(s, e, n))
    BY DEF sort_by_key, PlaceOf, Inserted
  <2>2. \E n \in 0..Len(s) : PlaceOf(s, e, n)
    BY PlaceExists
  <2> HIDE DEF r
  <2> QED
    BY <2>1, <2>2, Zenon
<1> HIDE DEF r
<1>2. /\ s \in Seq(C) /\ Len(s) \in Nat /\ Depth(e) \in Nat
      /\ \A i \in 1..Len(s) : Depth(s[i]) \in Nat
      /\ \A i, j \in 1..Len(s) : i < j => Depth(s[i]) <= Depth(s[j])
  BY DEF InOrder
<1>3. /\ r \in Seq(C) /\ Len(r) = Len(s) + 1 /\ r[n + 1] = e
      /\ \A i \in 1..n : r[i] = s[i]
      /\ \A i \in (n + 2)..(Len(s) + 1) : r[i] = s[i - 1]
  <2>1. PlacedAt(s, e, n, r, C)
    BY <1>1, <1>2, InsertedAt, Zenon
  <2> QED
    BY <2>1, Zenon DEF PlacedAt
<1>4. /\ \A i \in 1..n : i \in 1..Len(s) /\ Depth(s[i]) <= Depth(e)
      /\ \A i \in (n + 1)..Len(s) : i \in 1..Len(s) /\ Depth(s[i]) > Depth(e)
  BY <1>1, <1>2 DEF PlaceOf
<1>5. \A i \in 1..(Len(s) + 1) : i \in 1..n \/ i = n + 1 \/ i \in (n + 2)..(Len(s) + 1)
  BY <1>2
<1>6. \A i \in (n + 2)..(Len(s) + 1) : i - 1 \in (n + 1)..Len(s)
  BY <1>2
<1>7. ASSUME NEW i \in 1..Len(r), NEW j \in 1..Len(r), i < j
      PROVE  Depth(r[i]) <= Depth(r[j])
  <2>1. CASE i \in 1..n /\ j \in 1..n
    BY <1>2, <1>3, <1>4, <1>7, <2>1
  <2>2. CASE i \in 1..n /\ j = n + 1
    BY <1>3, <1>4, <2>2
  <2>3. CASE i \in 1..n /\ j \in (n + 2)..(Len(s) + 1)
    <3>1. /\ r[i] = s[i] /\ r[j] = s[j - 1]
          /\ i \in 1..Len(s) /\ j - 1 \in 1..Len(s) /\ i < j - 1
      BY <1>3, <1>4, <1>6, <2>3, SMTT(20)
    <3> QED
      BY <3>1, <1>2
  <2>4. CASE i = n + 1 /\ j \in (n + 2)..(Len(s) + 1)
    <3>1. r[i] = e /\ r[j] = s[j - 1] /\ j - 1 \in (n + 1)..Len(s)
      BY <1>3, <1>6, <2>4
    <3>2. Depth(s[j - 1]) > Depth(e) /\ Depth(s[j - 1]) \in Nat
      BY <1>2, <1>4, <3>1
    <3> QED
      BY <1>2, <3>1, <3>2
  <2>5. CASE i \in (n + 2)..(Len(s) + 1) /\ j \in (n + 2)..(Len(s) + 1)
    <3>1. r[i] = s[i - 1] /\ r[j] = s[j - 1]
      BY <1>3, <2>5, Zenon
    <3>2. i - 1 \in 1..Len(s) /\ j - 1 \in 1..Len(s) /\ i - 1 < j - 1
      BY <1>2, <1>7, <2>5
    <3> QED
      BY <3>1, <3>2, <1>2, Zenon
  <2>6. \/ i \in 1..n /\ j \in 1..n
        \/ i \in 1..n /\ j = n + 1
        \/ i \in 1..n /\ j \in (n + 2)..(Len(s) + 1)
        \/ i = n + 1 /\ j \in (n + 2)..(Len(s) + 1)
        \/ i \in (n + 2)..(Len(s) + 1) /\ j \in (n + 2)..(Len(s) + 1)
    BY <1>2, <1>3, <1>7, SMTT(20)
  <2> QED
    BY <2>1, <2>2, <2>3, <2>4, <2>5, <2>6, Zenon
<1>8. \E k \in 1..Len(r) : r[k] = e
  <2>1. n + 1 \in 1..Len(r)
    BY <1>2, <1>3
  <2> QED
    BY <1>3, <2>1
<1>9. ASSUME NEW j \in 1..Len(s) PROVE \E k \in 1..Len(r) : r[k] = s[j]
  <2>1. CASE j \in 1..n
    <3>1. j \in 1..Len(r) /\ r[j] = s[j]
      BY <1>2, <1>3, <2>1
    <3> QED
      BY <3>1
  <2>2. CASE j \notin 1..n
    <3>1. j + 1 \in (n + 2)..(Len(s) + 1) /\ j + 1 \in 1..Len(r) /\ (j + 1) - 1 = j
      BY <1>2, <1>3, <2>2
    <3>2. r[j + 1] = s[j]
      BY <1>3, <3>1, Zenon
    <3> QED
      BY <3>1, <3>2
  <2> QED
    BY <2>1, <2>2
<1> QED
  BY <1>3, <1>7, <1>8, <1>9 DEF InOrder, SortsInto, r

\* mount_entries holds the child mounts of the table, all of them, shallow to deep.
LEMMA MountEntriesSorted ==
  ASSUME NEW table \in Fstabs
  PROVE  LET s == mount_entries(table) IN
         /\ InOrder(s, Children(table))
         /\ \A e \in Children(table) : \E k \in 1..Len(s) : s[k] = e
<1> DEFINE n == Len(table)
           C == Children(table)
           Upto(x, i) == /\ InOrder(x, C)
                         /\ \A j \in 1..i : table[j].mount_point # <<>> =>
                              \E k \in 1..Len(x) : x[k] = table[j]
<1>1. /\ n \in Nat
      /\ \A i \in 1..n : table[i].mount_point # <<>> => table[i] \in C
      /\ \A e \in C : Depth(e) \in Nat /\ e.mount_point # <<>> /\ \E i \in 1..n : table[i] = e
  BY EntriesOfTable
<1>2. PICK f : IsFold(f, "sort", <<>>, table, n) /\ mount_entries(table) = f[n]
  <2>1. \E f : IsFold(f, "sort", <<>>, table, n)
    BY <1>1, FoldExists
  <2> QED
    BY <2>1, EntriesUnfold, Zenon
<1> HIDE DEF n, C
<1>3. f[0] = <<>> /\ \A i \in 1..n : f[i] = Step("sort", f[i - 1], table[i])
  BY <1>1, <1>2, FoldSteps, SMTT(20)
<1> DEFINE N == {m \in Nat : m <= n => Upto(f[m], m)}
<1>4. 0 \in N
  <2>1. InOrder(<<>>, C)
    BY DEF InOrder
  <2> QED
    BY <1>3, <2>1
<1>5. ASSUME NEW m \in Nat, m \in N PROVE m + 1 \in N
  <2> SUFFICES ASSUME m + 1 <= n PROVE Upto(f[m + 1], m + 1)
    OBVIOUS
  <2> DEFINE x == f[m]
             e == table[m + 1]
  <2>1. m + 1 \in 1..n /\ (m + 1) - 1 = m /\ m <= n
    BY <1>1
  <2>2. /\ InOrder(x, C)
        /\ \A j \in 1..m : table[j].mount_point # <<>> => \E k \in 1..Len(x) : x[k] = table[j]
    BY <1>5, <2>1
  <2>3. f[m + 1] = IF e.mount_point = <<>> THEN x ELSE sort_by_key(x, e)
    <3>1. f[m + 1] = Step("sort", f[m], table[m + 1])
      BY <1>3, <2>1, Zenon
    <3>2. "sort" # "path"
      OBVIOUS
    <3> QED
      BY <3>1, <3>2, Zenon DEF Step
  <2>4. \A j \in 1..(m + 1) : j \in 1..m \/ j = m + 1
    OBVIOUS
  <2>5. CASE e.mount_point = <<>>
    <3>1. f[m + 1] = x
      BY <2>3, <2>5
    <3> HIDE DEF x
    <3> QED
      BY <2>2, <2>4, <2>5, <3>1
  <2>6. CASE e.mount_point # <<>>
    <3> DEFINE r == sort_by_key(x, e)
    <3>1. f[m + 1] = r /\ e \in C
      BY <1>1, <2>1, <2>3, <2>6
    <3>2. /\ InOrder(r, C) /\ \E k \in 1..Len(r) : r[k] = e
          /\ \A j \in 1..Len(x) : \E k \in 1..Len(r) : r[k] = x[j]
      <4>1. \A y \in C : Depth(y) \in Nat
        BY <1>1
      <4> HIDE DEF x, e
      <4>2. SortsInto(x, e, r, C)
        BY <2>2, <3>1, <4>1, SortStep, Zenon
      <4> QED
        BY <4>2, Zenon DEF SortsInto
    <3> HIDE DEF x, r
    <3>3. ASSUME NEW j \in 1..(m + 1), table[j].mount_point # <<>>
          PROVE  \E k \in 1..Len(r) : r[k] = table[j]
      <4>1. CASE j \in 1..m
        <5>1. PICK i \in 1..Len(x) : x[i] = table[j]
          BY <2>2, <3>3, <4>1
        <5> QED
          BY <3>2, <5>1
      <4>2. CASE j = m + 1
        BY <3>2, <4>2
      <4> QED
        BY <2>4, <4>1, <4>2
    <3> QED
      BY <3>1, <3>2, <3>3
  <2> QED
    BY <2>5, <2>6
<1>6. Nat \subseteq N
  <2> HIDE DEF N
  <2> QED
    BY <1>4, <1>5, NatInductive
<1>7. Upto(f[n], n)
  <2>1. n \in N /\ n <= n
    BY <1>1, <1>6, SMTT(20)
  <2> HIDE DEF Upto
  <2> QED
    BY <2>1
<1>8. \A e \in C : \E k \in 1..Len(f[n]) : f[n][k] = e
  BY <1>1, <1>7
<1> QED
  BY <1>2, <1>7, <1>8 DEF C

-----------------------------------------------------------------------------
(* The composition.                                                        *)

\* The volume of the entry is at its mount point.
InPlace(e) == /\ MountPoint(e).path \in DOMAIN mounts
              /\ Uuid[mounts[MountPoint(e).path]] = e.uuid

\* While it composes: the table is one of a root volume and belongs to it, a UUID
\* is resolved to a volume that has it, and the entries behind are in place unless
\* they may be left out.
ComposeOk ==
  /\ ViewTable(mounts)
  /\ at \in Nat
  /\ phase \in {"validate", "discover", "attach", "done", "failed"}
  /\ phase \in {"discover", "attach"} => at # 0 /\ RootAgrees(fstab)
  /\ phase # "done" =>
       /\ fstab \in Fstabs
       /\ \A u \in DOMAIN resolved : resolved[u] \in Filesystems /\ Uuid[resolved[u]] = u
  /\ phase = "attach" =>
       \A k \in 1..Len(mount_entries(fstab)) :
         LET e == mount_entries(fstab)[k]
         IN  (k < at /\ e.auto /\ ~e.nofail) => InPlace(e)

\* Without the volumes at and below a mount point.
Others(m, mp) == [p \in {q \in DOMAIN m : ~is_at_or_below(q, mp)} |-> m[p]]

\* Every mount point, and every directory above it, is a directory of the volume it
\* covers.
Stand(m) == \A mp \in DOMAIN m : \A n \in 0..Len(mp) :
              Behind(Others(m, mp), SubSeq(mp, 1, n)) = "dir"

\* What is mounted so far stands, and is no deeper than what is still to come.
StandOk ==
  /\ phase # "done" => Stand(mounts)
  /\ phase \in {"validate", "discover"} => DOMAIN mounts = {}
  /\ phase = "attach" => \A mp \in DOMAIN mounts : \A k \in 1..Len(mount_entries(fstab)) :
       at <= k => Len(mp) <= Depth(mount_entries(fstab)[k])

\* A mount point that is not in the table is put into it.
LEMMA InsertOk ==
  ASSUME ViewTable(mounts), NEW mp \in AllPaths, mp # <<>>, NEW fs \in Filesystems,
         Tree[fs][<<>>] = "dir", NEW m,
         m = [p \in DOMAIN mounts \cup {mp} |-> IF p = mp THEN fs ELSE mounts[p]]
  PROVE  ViewTable(m)
  BY DEF ViewTable, MountTable

\* The initial state.
LEMMA ComposeStarts == ComposeInit => ComposeOk
<1> SUFFICES ASSUME ComposeInit PROVE ComposeOk
  OBVIOUS
<1>1. DOMAIN mounts = {} /\ DOMAIN resolved = {} /\ phase = "validate" /\ at = 0 /\ fstab \in Fstabs
  BY DEF ComposeInit, Init, Empty
<1>2. ViewTable(mounts)
  BY <1>1 DEF ViewTable, MountTable
<1> QED
  BY <1>1, <1>2 DEF ComposeOk

\* The entry being worked on.
LEMMA EntryIs ==
  ASSUME ComposeOk, Working
  PROVE  /\ fstab \in Fstabs /\ at \in 1..Len(mount_entries(fstab))
         /\ Entry \in Children(fstab) /\ Entry.mount_point \in AllPaths
         /\ MountPoint(Entry).path \in AllPaths
<1> DEFINE s == mount_entries(fstab)
<1>1. fstab \in Fstabs /\ at \in Nat /\ at # 0 /\ at <= Len(s)
  BY DEF ComposeOk, Working
<1>2. s \in Seq(Children(fstab))
  BY <1>1, MountEntriesSorted DEF InOrder
<1> HIDE DEF s
<1>3. at \in 1..Len(s) /\ s[at] \in Children(fstab)
  BY <1>1, <1>2
<1>4. Entry \in Children(fstab)
  BY <1>3 DEF Entry, s
<1>5. Entry.mount_point \in AllPaths
  BY <1>1, <1>4, EntriesOfTable
<1> QED
  BY <1>1, <1>3, <1>4, <1>5, CanonicalIsPath DEF s, MountPoint

\* What the entries behind have is kept when a volume is attached elsewhere, and
\* when none is; and the entry that is attached has it then.
LEMMA InPlaceKept ==
  ASSUME NEW e, NEW x, NEW v, x \notin DOMAIN mounts,
         mounts' = mounts \/ mounts' = Insert(mounts, x, v)
  PROVE  /\ InPlace(e) => InPlace(e)'
         /\ (MountPoint(e).path = x /\ e.uuid = Uuid[v] /\ mounts' # mounts) => InPlace(e)'
<1>1. MountPoint(e)' = MountPoint(e)
  BY DEF MountPoint, canonical_path, Component
<1>2. /\ \A q \in DOMAIN mounts : q \in DOMAIN mounts' /\ mounts'[q] = mounts[q]
      /\ mounts' # mounts => x \in DOMAIN mounts' /\ mounts'[x] = v
  BY DEF Insert
<1> QED
  BY <1>1, <1>2 DEF InPlace

\* The steps that leave the mount table alone until it is complete.
LEMMA SearchKeeps ==
  ASSUME ComposeOk,
         validate_root_entry \/ candidates_failed \/ discover_candidate \/ discover_done
  PROVE  ComposeOk'
<1>1. mounts' = mounts /\ fstab' = fstab /\ phase \in {"validate", "discover"} /\ fstab \in Fstabs
  BY DEF ComposeOk, validate_root_entry, candidates_failed, discover_candidate, discover_done, vars
<1>2. ViewTable(mounts)'
  BY <1>1 DEF ComposeOk, ViewTable, MountTable
<1>3. RootAgrees(fstab)' <=> RootAgrees(fstab)
  BY <1>1 DEF RootAgrees, RootEntries
<1> DEFINE Found(f) == \A u \in DOMAIN f : f[u] \in Filesystems /\ Uuid[f[u]] = u
<1>4. Found(resolved) /\ at \in Nat
  BY <1>1 DEF ComposeOk
<1>5. ASSUME validate_root_entry PROVE ComposeOk'
  <2>1. Found(Empty) /\ Found(Insert(Empty, Uuid[RootFs], RootFs))
    BY TreesAreTrees DEF Empty, Insert
  <2>2. CASE RootAgrees(fstab)
    <3>1. phase' = "discover" /\ at' = 1 /\ Found(resolved')
      BY <1>5, <2>1, <2>2, Zenon DEF validate_root_entry
    <3> QED
      BY <1>1, <1>2, <1>3, <2>2, <3>1, SMTT(20) DEF ComposeOk
  <2>3. CASE ~RootAgrees(fstab)
    <3>1. phase' = "failed" /\ at' = at /\ resolved' = resolved
      BY <1>5, <2>3 DEF validate_root_entry
    <3> QED
      BY <1>1, <1>2, <1>4, <3>1 DEF ComposeOk
  <2> QED
    BY <2>2, <2>3
<1>6. ASSUME candidates_failed PROVE ComposeOk'
  <2>1. phase' = "failed" /\ at' = at /\ resolved' = resolved
    BY <1>6 DEF candidates_failed
  <2> QED
    BY <1>1, <1>2, <1>4, <2>1 DEF ComposeOk
<1>7. ASSUME discover_candidate PROVE ComposeOk'
  <2>1. phase = "discover" /\ phase' = phase /\ at' = at + 1 /\ at \in 1..Len(Candidates)
    <3>1. phase = "discover" /\ phase' = phase /\ at' = at + 1 /\ at <= Len(Candidates)
      BY <1>7, Zenon DEF discover_candidate
    <3>2. at \in Nat /\ at # 0
      BY <3>1, Zenon DEF ComposeOk
    <3>3. Len(Candidates) \in Nat
      BY CandidatesAreVolumes, SMTT(20)
    <3> QED
      BY <3>1, <3>2, <3>3
  <2>2. Candidates[at] \in Filesystems
    BY <2>1, CandidatesAreVolumes, SMTT(20) DEF Volumes
  <2>3. Found(resolved')
    <3>1. CASE resolved' = resolved
      BY <1>4, <3>1
    <3>2. CASE resolved' = Insert(resolved, Uuid[Candidates[at]], Candidates[at])
      <4> DEFINE v == Candidates[at]
      <4> HIDE DEF v
      <4>1. resolved' = Insert(resolved, Uuid[v], v) /\ v \in Filesystems
        BY <2>2, <3>2 DEF v
      <4> QED
        BY <1>4, <4>1 DEF Insert
    <3> QED
      BY <1>7, <3>1, <3>2 DEF discover_candidate
  <2>4. at' \in Nat /\ at' # 0 /\ RootAgrees(fstab)
    BY <1>4, <2>1, SMTT(20) DEF ComposeOk
  <2> HIDE DEF Found
  <2> QED
    BY <1>1, <1>2, <1>3, <2>1, <2>3, <2>4, Zenon DEF ComposeOk, Found
<1>8. ASSUME discover_done PROVE ComposeOk'
  <2>1. phase = "discover" /\ phase' = "attach" /\ at' = 1 /\ resolved' = resolved
    BY <1>8 DEF discover_done
  <2>2. \A k \in 1..Len(mount_entries(fstab)') : ~(k < at')
    BY <2>1
  <2>3. RootAgrees(fstab)'
    BY <1>3, <2>1 DEF ComposeOk
  <2> QED
    <3>1. at' \in Nat /\ at' # 0
      BY <2>1
    <3>2. Found(resolved')
      BY <1>4, <2>1, Zenon
    <3> HIDE DEF Found
    <3> QED
      BY <1>1, <1>2, <2>1, <2>2, <2>3, <3>1, <3>2, Zenon DEF ComposeOk, Found
<1> QED
  BY <1>5, <1>6, <1>7, <1>8, Zenon

\* The entries before the next are in place, or may be left out.
Settled == \A k \in 1..Len(mount_entries(fstab)) :
             LET e == mount_entries(fstab)[k]
             IN  (k < at /\ e.auto /\ ~e.nofail) => InPlace(e)

\* Passing an entry that may be left out.
LEMMA PassKeeps ==
  ASSUME ComposeOk, Working, mounts' = mounts, fstab' = fstab, at' = at + 1,
         phase' = phase, resolved' = resolved, ~Entry.auto \/ Entry.nofail
  PROVE  ComposeOk'
<1>1. phase = "attach" /\ at \in 1..Len(mount_entries(fstab)) /\ Settled
  BY EntryIs DEF Working, ComposeOk, Settled
<1>2. ViewTable(mounts)' /\ (RootAgrees(fstab)' <=> RootAgrees(fstab))
  BY DEF ComposeOk, ViewTable, MountTable, RootAgrees, RootEntries
<1>3. mount_entries(fstab)' = mount_entries(fstab)
  BY DEF mount_entries, sort_by_key, Depth
<1>4. Settled'
  <2> SUFFICES ASSUME NEW k \in 1..Len(mount_entries(fstab)), k < at',
                      mount_entries(fstab)[k].auto, ~mount_entries(fstab)[k].nofail
               PROVE  InPlace(mount_entries(fstab)[k])'
    BY <1>3 DEF Settled
  <2>1. k < at
    BY <1>1 DEF Entry
  <2>2. PICK e : e = mount_entries(fstab)[k]
    OBVIOUS
  <2>3. InPlace(e)
    BY <1>1, <2>1, <2>2 DEF Settled
  <2>4. <<>> \notin DOMAIN mounts
    BY DEF ComposeOk, ViewTable, MountTable
  <2>5. InPlace(e)'
    BY <2>3, <2>4, InPlaceKept
  <2> QED
    BY <1>3, <2>2, <2>5 DEF InPlace
<1>5. at' \in Nat /\ at' # 0
  BY <1>1, SMTT(20)
<1> QED
  BY <1>1, <1>2, <1>4, <1>5, Zenon DEF ComposeOk, Settled

\* Attaching an entry.
LEMMA AttachKeeps ==
  ASSUME ComposeOk, attach_entry
  PROVE  ComposeOk'
<1> DEFINE x == MountPoint(Entry).path
           v == resolved[Entry.uuid]
<1>1. /\ phase = "attach" /\ at \in 1..Len(mount_entries(fstab)) /\ Settled
      /\ fstab \in Fstabs /\ x \in AllPaths /\ Working
  BY EntryIs, Zenon DEF attach_entry, Working, ComposeOk, Settled
<1>2. /\ mounts' = Insert(mounts, x, v) /\ at' = at + 1 /\ fstab' = fstab /\ phase' = phase
      /\ resolved' = resolved /\ x # <<>> /\ x \notin DOMAIN mounts
      /\ Tree[v][<<>>] = "dir" /\ Entry.uuid \in DOMAIN resolved
  BY Zenon DEF attach_entry, AttachAccepted, AttachRefused
<1>3. v \in Filesystems /\ Uuid[v] = Entry.uuid
  BY <1>1, <1>2 DEF ComposeOk
<1> HIDE DEF x, v
<1>4. ViewTable(mounts')
  BY <1>1, <1>2, <1>3, InsertOk, Zenon DEF ComposeOk, Insert
<1>5. mount_entries(fstab)' = mount_entries(fstab) /\ (RootAgrees(fstab)' <=> RootAgrees(fstab))
  BY <1>2, SMTT(20) DEF mount_entries, sort_by_key, Depth, RootAgrees, RootEntries
<1>7. Settled'
  <2> SUFFICES ASSUME NEW k \in 1..Len(mount_entries(fstab)), k < at',
                      mount_entries(fstab)[k].auto, ~mount_entries(fstab)[k].nofail
               PROVE  InPlace(mount_entries(fstab)[k])'
    BY <1>2, <1>5 DEF Settled
  <2>1. k < at \/ k = at
    BY <1>1, <1>2
  <2>2. PICK e : e = mount_entries(fstab)[k]
    OBVIOUS
  <2>3. PICK y : y = x
    OBVIOUS
  <2>4. PICK w : w = v
    OBVIOUS
  <2>5. y \notin DOMAIN mounts /\ mounts' = Insert(mounts, y, w) /\ mounts' # mounts
    BY <1>2, <2>3, <2>4, SMTT(20) DEF Insert
  <2>6. ASSUME k < at PROVE InPlace(e)'
    <3>1. InPlace(e)
      BY <1>1, <2>2, <2>6 DEF Settled
    <3> QED
      BY <2>5, <3>1, InPlaceKept
  <2>7. ASSUME k = at PROVE InPlace(e)'
    <3>1. MountPoint(e).path = y /\ e.uuid = Uuid[w]
      BY <1>3, <2>2, <2>3, <2>4, <2>7 DEF Entry, x
    <3> QED
      BY <2>5, <3>1, InPlaceKept
  <2>8. InPlace(e)'
    BY <2>1, <2>6, <2>7
  <2> QED
    BY <1>5, <2>2, <2>8 DEF InPlace
<1>8. at' \in Nat /\ at' # 0
  BY <1>1, <1>2, SMTT(20)
<1> QED
  BY <1>1, <1>2, <1>4, <1>5, <1>7, <1>8 DEF ComposeOk, Settled, ViewTable, MountTable

\* The calls on the composed namespace.
LEMMA UseKeeps ==
  ASSUME ComposeOk, UseNamespace
  PROVE  ComposeOk'
<1>1. phase = "done" /\ phase' = phase /\ at' = at /\ Next /\ ViewTable(mounts) /\ at \in Nat
  BY DEF UseNamespace, composeVars, ComposeOk
<1>2. ASSUME NEW raw \in RawPaths, NEW fs \in Filesystems, attach(raw, fs) PROVE ViewTable(mounts')
  <2> DEFINE mp == canonical_path(raw).path
  <2>1. mp \in AllPaths /\ mp # <<>> /\ Tree[fs][<<>>] = "dir"
    BY <1>2, RawPathsAreSequences, CanonicalIsPath, Zenon DEF attach, AttachRefused
  <2>2. mounts' = [p \in DOMAIN mounts \cup {mp} |-> IF p = mp THEN fs ELSE mounts[p]]
    BY <1>2 DEF attach
  <2> HIDE DEF mp
  <2> QED
    BY <1>1, <2>1, <2>2, InsertOk, Zenon
<1>3. ASSUME NEW raw \in RawPaths, detach(raw) PROVE ViewTable(mounts')
  <2>1. mounts' = [p \in DOMAIN mounts \ {canonical_path(raw).path} |-> mounts[p]]
    BY <1>3 DEF detach
  <2> QED
    BY <1>1, <2>1 DEF ViewTable, MountTable
<1>4. ASSUME mounts' = mounts PROVE ViewTable(mounts')
  BY <1>1, <1>4 DEF ViewTable, MountTable
<1>5. ViewTable(mounts')
  BY <1>1, <1>2, <1>3, <1>4
     DEF Next, OpenHandle, read_open_file, opened_directory_entries, Close
<1> QED
  BY <1>1, <1>5 DEF ComposeOk, ViewTable, MountTable

\* Every step.
LEMMA ComposeKeeps ==
  ASSUME ComposeOk, [Compose \/ UseNamespace]_allVars
  PROVE  ComposeOk'
<1>1. CASE validate_root_entry \/ candidates_failed \/ discover_candidate \/ discover_done
  BY <1>1, SearchKeeps
<1>2. CASE skip_entry
  BY <1>2, PassKeeps DEF skip_entry, Working, vars
<1>3. CASE attach_entry
  BY <1>3, AttachKeeps
<1>4. CASE entry_failed
  <2>1. mounts' = mounts /\ fstab' = fstab /\ resolved' = resolved /\ Working
    BY <1>4 DEF entry_failed, vars
  <2>2. CASE Entry.nofail
    BY <1>4, <2>1, <2>2, PassKeeps, Zenon DEF entry_failed, Forgiven
  <2>3. CASE ~Entry.nofail
    <3>1. phase' = "failed" /\ at' = at /\ phase = "attach"
      BY <1>4, <2>3 DEF entry_failed, Forgiven, Working
    <3> QED
      BY <2>1, <3>1 DEF ComposeOk, ViewTable, MountTable
  <2> QED
    BY <2>2, <2>3
<1>5. CASE compose_done
  BY <1>5 DEF compose_done, vars, ComposeOk, ViewTable, MountTable
<1>6. CASE UseNamespace
  BY <1>6, UseKeeps, Zenon
<1>7. CASE UNCHANGED allVars
  <2>1. /\ mounts' = mounts /\ phase' = phase /\ at' = at /\ fstab' = fstab
        /\ resolved' = resolved
    BY <1>7 DEF allVars, vars, composeVars
  <2>2. ViewTable(mounts)' /\ (RootAgrees(fstab)' <=> RootAgrees(fstab))
          /\ mount_entries(fstab)' = mount_entries(fstab)
    <3>1. ViewTable(mounts)'
      BY <2>1 DEF ComposeOk, ViewTable, MountTable
    <3>2. RootAgrees(fstab)' <=> RootAgrees(fstab)
      BY <2>1 DEF RootAgrees, RootEntries
    <3>3. mount_entries(fstab)' = mount_entries(fstab)
      BY <2>1 DEF mount_entries, sort_by_key, Depth
    <3> QED
      BY <3>1, <3>2, <3>3, Zenon
  <2>3. ASSUME phase = "attach" PROVE Settled'
    <3> SUFFICES ASSUME NEW k \in 1..Len(mount_entries(fstab)), k < at,
                        mount_entries(fstab)[k].auto, ~mount_entries(fstab)[k].nofail
                 PROVE  InPlace(mount_entries(fstab)[k])'
      BY <2>1, <2>2 DEF Settled
    <3>1. PICK e : e = mount_entries(fstab)[k]
      OBVIOUS
    <3>2. InPlace(e) /\ <<>> \notin DOMAIN mounts
      BY <2>3, <3>1, Zenon DEF ComposeOk, ViewTable, MountTable
    <3>3. InPlace(e)'
      BY <2>1, <3>2, InPlaceKept
    <3> QED
      BY <2>2, <3>1, <3>3 DEF InPlace
  <2> QED
    BY <2>1, <2>2, <2>3 DEF ComposeOk, Settled
<1> QED
  BY <1>1, <1>2, <1>3, <1>4, <1>5, <1>6, <1>7 DEF Compose

\* ComposeOk holds in every state.
LEMMA ComposeInvariant == ComposeSpec => []ComposeOk
<1>1. ComposeOk /\ [Compose \/ UseNamespace]_allVars => ComposeOk'
  BY ComposeKeeps
<1> QED
  BY <1>1, ComposeStarts, PTL DEF ComposeSpec

\* The first entry of a set of positions.
LEMMA FirstIs ==
  ASSUME NEW S, S \subseteq Nat, NEW n \in S, \A k \in S : n <= k
  PROVE  Min(S) = n
<1>1. \A x \in S : (\A y \in S : x <= y) => x = n
  OBVIOUS
<1>2. \E x \in S : \A y \in S : x <= y
  OBVIOUS
<1> QED
  BY <1>1, <1>2, Zenon DEF Min

\* compose_fstab_namespace: a composition that succeeds has every entry that it may
\* not leave out at its mount point, from the volume with the UUID the entry names,
\* and stands on the root volume the table names, whatever volumes fail to open and
\* whatever the table holds.
THEOREM FstabComposedAsDeclared == ComposeSpec => []ComposedAsDeclared
<1>1. ComposeOk => ComposedAsDeclared
  <2> SUFFICES ASSUME ComposeOk PROVE ComposedAsDeclared
    OBVIOUS
  <2>1. ASSUME Composed, NEW e \in Children(fstab), e.auto, ~e.nofail PROVE InPlace(e)
    <3>1. phase = "attach" /\ fstab \in Fstabs /\ at \in Nat /\ at > Len(mount_entries(fstab))
      BY <2>1 DEF Composed, ComposeOk
    <3>2. PICK k \in 1..Len(mount_entries(fstab)) : mount_entries(fstab)[k] = e
      BY <3>1, MountEntriesSorted
    <3>3. Len(mount_entries(fstab)) \in Nat
      BY <3>1, MountEntriesSorted DEF InOrder
    <3>4. k < at
      BY <3>1, <3>2, <3>3, SMTT(20)
    <3> QED
      BY <2>1, <3>1, <3>2, <3>4, Zenon DEF ComposeOk
  <2>2. RequiredEntriesMounted
    BY <2>1 DEF RequiredEntriesMounted, InPlace
  <2>3. ASSUME phase = "attach", NEW n \in DOMAIN fstab, fstab[n].mount_point = <<>>,
               \A k \in 1..(n - 1) : fstab[k].mount_point # <<>>
        PROVE  fstab[n].uuid \in {NoUuid, Uuid[RootFs]}
    <3> DEFINE S == RootEntries(fstab)
    <3>1. fstab \in Fstabs /\ RootAgrees(fstab)
      BY <2>3 DEF ComposeOk
    <3>2. Len(fstab) \in Nat /\ DOMAIN fstab = 1..Len(fstab)
      BY <3>1, TablesAreSequences
    <3>3. S \subseteq Nat /\ n \in S /\ \A k \in S : n <= k
      BY <2>3, <3>2 DEF RootEntries
    <3>4. Min(S) = n /\ S # {}
      <4> HIDE DEF S
      <4> QED
        BY <3>3, FirstIs, Zenon
    <3> QED
      BY <3>1, <3>4 DEF RootAgrees
  <2>4. OnlyOnItsOwnRoot
    BY <2>3 DEF OnlyOnItsOwnRoot
  <2> QED
    BY <2>2, <2>4 DEF ComposedAsDeclared
<1> QED
  BY <1>1, ComposeInvariant, PTL

\* The namespace is one tree, during and after the composition and whatever is
\* attached and detached: read_dir lists a name exactly when metadata finds it, as
\* the same kind, and every mounted volume is reached by its path.
THEOREM NamespaceIsOneTree == ComposeSpec => []OneTree
<1>1. ComposeOk => OneTree
  BY TreeOfListings, MountsInPlace DEF ComposeOk, OneTree
<1> QED
  BY <1>1, ComposeInvariant, PTL

\* There is a handle for every number.
HandlesOk == handle = [h \in Handles |-> handle[h]]

\* No step but the first load changes the listing of a handle that stays open.
LEMMA ListingKept ==
  ASSUME HandlesOk, Next \/ handle' = handle
  PROVE  /\ HandlesOk'
         /\ \A h \in Handles :
              (handle[h] # Closed /\ handle'[h] # Closed /\ handle[h].listing.ok)
                => handle'[h].listing = handle[h].listing
<1> DEFINE Kept == \A h \in Handles :
              (handle[h] # Closed /\ handle'[h] # Closed /\ handle[h].listing.ok)
                => handle'[h].listing = handle[h].listing
<1>1. CASE handle' = handle
  BY <1>1 DEF HandlesOk
<1>2. ASSUME NEW g \in Handles, NEW raw \in RawPaths, OpenHandle(g, raw) PROVE HandlesOk' /\ Kept
  <2>1. PICK x : handle' = [handle EXCEPT ![g] = x]
    BY <1>2, Zenon DEF OpenHandle
  <2>2. handle[g] = Closed
    BY <1>2 DEF OpenHandle
  <2> QED
    BY <2>1, <2>2 DEF HandlesOk
<1>3. ASSUME NEW g \in Handles, opened_directory_entries(g) PROVE HandlesOk' /\ Kept
  <2>1. CASE handle' = handle
    BY <2>1 DEF HandlesOk
  <2>2. CASE handle' # handle
    <3>1. PICK x : handle' = [handle EXCEPT ![g].listing = x]
      BY <1>3, <2>2 DEF opened_directory_entries
    <3>2. ~handle[g].listing.ok
      BY <1>3, <2>2 DEF opened_directory_entries, MustLoad
    <3> QED
      BY <3>1, <3>2 DEF HandlesOk
  <2> QED
    BY <2>1, <2>2
<1>4. ASSUME NEW g \in Handles, Close(g) PROVE HandlesOk' /\ Kept
  <2>1. handle' = [handle EXCEPT ![g] = Closed]
    BY <1>4 DEF Close
  <2> QED
    BY <2>1 DEF HandlesOk
<1> QED
  BY <1>1, <1>2, <1>3, <1>4, Zenon DEF Next, attach, detach, read_open_file

\* opened_directory_entries: while a directory handle stays open its listing never
\* changes once it was loaded, whatever is attached and detached meanwhile.
THEOREM NamespaceListingRetained == ComposeSpec => ListingRetained
<1>1. ComposeInit => HandlesOk
  BY Zenon DEF ComposeInit, Init, HandlesOk
<1>2. ASSUME [Compose \/ UseNamespace]_allVars PROVE Next \/ handle' = handle
  BY <1>2 DEF Compose, UseNamespace, validate_root_entry, candidates_failed, discover_candidate,
              discover_done, skip_entry, attach_entry, entry_failed, compose_done, allVars, vars
<1> DEFINE Kept == \A h \in Handles :
             (handle[h] # Closed /\ handle'[h] # Closed /\ handle[h].listing.ok)
               => handle'[h].listing = handle[h].listing
<1>3. HandlesOk /\ [Compose \/ UseNamespace]_allVars => HandlesOk' /\ Kept
  BY <1>2, ListingKept
<1>4. HandlesOk /\ [Compose \/ UseNamespace]_allVars => HandlesOk' /\ [Kept]_vars
  BY <1>3
<1> QED
  BY <1>1, <1>4, PTL DEF ComposeSpec, ListingRetained

-----------------------------------------------------------------------------
(* Mount points stand when they are attached shallow to deep.              *)

\* The directories above a path are its beginnings.
LEMMA Beginnings ==
  ASSUME NEW q \in AllPaths
  PROVE  /\ \A n \in 0..Len(q) : SubSeq(q, 1, n) \in AllPaths /\ Pre(SubSeq(q, 1, n), q)
         /\ \A p \in AllPaths : Pre(p, q) => Len(p) \in 0..Len(q) /\ SubSeq(q, 1, Len(p)) = p
<1>1. Len(q) \in Nat
  BY PathShape
<1>2. \A n \in 0..Len(q) :
        /\ SubSeq(q, 1, n) \in AllPaths /\ Len(SubSeq(q, 1, n)) = n
        /\ \A i \in 1..n : SubSeq(q, 1, n)[i] = q[i]
  BY FirstPart
<1>3. \A n \in 0..Len(q) : SubSeq(q, 1, n) \in AllPaths /\ Pre(SubSeq(q, 1, n), q)
  BY <1>1, <1>2 DEF Pre
<1>4. ASSUME NEW p \in AllPaths, Pre(p, q) PROVE Len(p) \in 0..Len(q) /\ SubSeq(q, 1, Len(p)) = p
  <2>1. Len(p) \in 0..Len(q) /\ \A i \in 1..Len(p) : p[i] = q[i]
    BY <1>1, <1>4, PathShape DEF Pre
  <2> DEFINE b == SubSeq(q, 1, Len(p))
  <2>2. b \in AllPaths /\ Len(b) = Len(p) /\ \A i \in 1..Len(p) : b[i] = q[i]
    BY <1>2, <2>1
  <2> HIDE DEF b
  <2>3. b = p
    BY <2>1, <2>2, PathEqual
  <2> QED
    BY <2>1, <2>3 DEF b
<1> QED
  BY <1>3, <1>4

\* What is behind a path depends on the mounts above it only.
LEMMA BehindSame ==
  ASSUME NEW m, ViewTable(m), NEW k, ViewTable(k), NEW p \in AllPaths,
         Above(k, p) = Above(m, p), \A q \in Above(m, p) : k[q] = m[q]
  PROVE  Behind(k, p) = Behind(m, p)
<1>1. MountTable(m) /\ MountTable(k)
  BY DEF ViewTable
<1>2. route(k, p) = route(m, p)
  BY <1>1, RouteFacts
<1>3. Routed(m, p, route(m, p))
  BY <1>1, RouteIs
<1> DEFINE r == route(m, p)
<1> HIDE DEF r
<1>4. r = <<>> \/ r \in Above(m, p)
  BY <1>3 DEF Routed, Above, r
<1>5. filesystem_mut(k, r) = filesystem_mut(m, r)
  BY <1>4 DEF filesystem_mut
<1> QED
  BY <1>2, <1>5 DEF Behind, r

\* The table without a mount point and what is below it.
LEMMA OthersIs ==
  ASSUME NEW m, ViewTable(m), NEW mp \in AllPaths, mp # <<>>
  PROVE  /\ ViewTable(Others(m, mp))
         /\ \A q : q \in DOMAIN Others(m, mp) <=> q \in DOMAIN m /\ ~Pre(mp, q)
         /\ \A q \in DOMAIN Others(m, mp) : Others(m, mp)[q] = m[q]
<1>1. \A q \in DOMAIN m : is_at_or_below(q, mp) <=> Pre(mp, q)
  BY BelowIsPre DEF ViewTable, MountTable
<1>2. /\ DOMAIN Others(m, mp) = {q \in DOMAIN m : ~is_at_or_below(q, mp)}
      /\ \A q \in DOMAIN Others(m, mp) : Others(m, mp)[q] = m[q]
  BY DEF Others
<1>3. \A q : q \in DOMAIN Others(m, mp) <=> q \in DOMAIN m /\ ~Pre(mp, q)
  BY <1>1, <1>2
<1>4. ViewTable(Others(m, mp))
  BY <1>2 DEF ViewTable, MountTable
<1> QED
  BY <1>2, <1>3, <1>4

\* A volume does not matter to the paths that are not below its mount point.
LEMMA OthersAnswer ==
  ASSUME NEW m, ViewTable(m), NEW mp \in AllPaths, mp # <<>>, NEW p \in AllPaths, ~Pre(mp, p)
  PROVE  Behind(Others(m, mp), p) = Behind(m, p)
<1> DEFINE k == Others(m, mp)
<1>1. /\ ViewTable(k) /\ \A q : q \in DOMAIN k <=> q \in DOMAIN m /\ ~Pre(mp, q)
      /\ \A q \in DOMAIN k : k[q] = m[q]
  BY OthersIs
<1> HIDE DEF k
<1>2. \A q \in DOMAIN m : q \in AllPaths
  BY DEF ViewTable, MountTable
<1>3. \A q \in DOMAIN m : Pre(q, p) => ~Pre(mp, q)
  BY <1>2, PreOrder
<1>4. Above(k, p) = Above(m, p)
  BY <1>1, <1>3 DEF Above
<1>5. \A q \in Above(m, p) : k[q] = m[q]
  BY <1>1, <1>4 DEF Above
<1> QED
  BY <1>1, <1>4, <1>5, BehindSame, Zenon DEF k

\* Above a mount point is a directory of a volume.
LEMMA StandAbove ==
  ASSUME NEW m, ViewTable(m), Stand(m), NEW mp \in DOMAIN m, NEW p \in AllPaths,
         Pre(p, mp), p # mp
  PROVE  Behind(m, p) = "dir"
<1>1. mp \in AllPaths /\ mp # <<>>
  BY DEF ViewTable, MountTable
<1>2. ~Pre(mp, p)
  <2> SUFFICES ASSUME Pre(mp, p) PROVE FALSE
    OBVIOUS
  <2>1. Len(p) \in Nat /\ Len(mp) \in Nat /\ Len(p) = Len(mp)
    BY <1>1, PathShape DEF Pre
  <2> QED
    BY <1>1, <2>1, PreOrder
<1>3. Behind(Others(m, mp), p) = "dir"
  <2>1. Len(p) \in 0..Len(mp) /\ SubSeq(mp, 1, Len(p)) = p
    BY <1>1, Beginnings
  <2>2. \A n \in 0..Len(mp) : Behind(Others(m, mp), SubSeq(mp, 1, n)) = "dir"
    BY DEF Stand
  <2>3. Behind(Others(m, mp), SubSeq(mp, 1, Len(p))) = "dir"
    BY <2>1, <2>2
  <2> QED
    BY <2>1, <2>3, Zenon
<1> QED
  BY <1>1, <1>2, <1>3, OthersAnswer

\* So is everything above a directory.
LEMMA DirectoriesStand ==
  ASSUME NEW m, ViewTable(m), Stand(m), NEW x \in AllPaths, Behind(m, x) = "dir",
         NEW p \in AllPaths, Pre(p, x)
  PROVE  Behind(m, p) = "dir"
<1> DEFINE r == route(m, x)
           fs == filesystem_mut(m, r)
<1>1. Routed(m, x, r) /\ fs \in Filesystems /\ Lookup(fs, relative(x, r)) = "dir"
  BY BehindIs, Zenon
<1>2. r \in AllPaths /\ Pre(r, x) /\ (r = <<>> \/ r \in DOMAIN m)
  BY <1>1 DEF Routed
<1>3. MountTable(m) /\ \A q \in DOMAIN m : q \in AllPaths
  BY DEF ViewTable, MountTable
<1>4. CASE Pre(r, p)
  <2>1. \A mp \in DOMAIN m : Pre(mp, p) => Len(mp) <= Len(r) /\ Pre(mp, r)
    BY <1>1, <1>3, PreOrder, Zenon DEF Routed
  <2>2. Routed(m, p, r)
    BY <1>2, <1>4, <2>1 DEF Routed
  <2>3. route(m, p) = r
    BY <1>3, <2>2, RouteUnique
  <2> DEFINE a == relative(p, r)
             b == relative(x, r)
  <2>4. Behind(m, p) = Lookup(fs, a)
    BY <2>3, Zenon DEF Behind
  <2>5. a \in AllPaths /\ Pre(a, b)
    BY <1>2, <1>4, RelativeIs, RelativePre, Zenon
  <2> HIDE DEF a, b, fs
  <2>6. b \in DOMAIN Tree[fs] /\ Tree[fs][b] = "dir"
    BY <1>1, LookupIs, Zenon DEF b
  <2>7. a \in DOMAIN Tree[fs] /\ Tree[fs][a] = "dir"
    BY <1>1, <2>5, <2>6, DirectoriesAbove, Zenon
  <2> QED
    BY <1>1, <2>4, <2>7, LookupIs, Zenon
<1>5. CASE ~Pre(r, p)
  <2>1. Len(r) \in Nat /\ Len(p) \in Nat
    BY <1>2, PathShape
  <2>2. ~(Len(r) <= Len(p))
    BY <1>2, <1>5, PreOrder, Zenon
  <2>3. Pre(p, r) /\ p # r /\ r # <<>>
    BY <1>2, <1>5, <2>1, <2>2, PreOrder, SMTT(20)
  <2> QED
    BY <1>2, <2>3, StandAbove
<1> QED
  BY <1>4, <1>5

\* A volume attached at a directory, with nothing mounted there or below, leaves all
\* mount points standing.
LEMMA StandInsert ==
  ASSUME NEW m, ViewTable(m), Stand(m), NEW x \in AllPaths, x # <<>>, Behind(m, x) = "dir",
         \A mp \in DOMAIN m : ~Pre(x, mp), NEW v, NEW k, k = Insert(m, x, v), ViewTable(k)
  PROVE  Stand(k)
<1>1. DOMAIN k = DOMAIN m \cup {x} /\ \A q \in DOMAIN m : k[q] = m[q]
  <2>1. \A q \in DOMAIN m : q # x
    BY PreOrder, Zenon
  <2> QED
    BY <2>1 DEF Insert
<1>2. \A q \in DOMAIN k : q \in AllPaths /\ q # <<>>
  BY DEF ViewTable, MountTable
<1> SUFFICES ASSUME NEW mp \in DOMAIN k, NEW n \in 0..Len(mp)
             PROVE  Behind(Others(k, mp), SubSeq(mp, 1, n)) = "dir"
  BY DEF Stand
<1> DEFINE p == SubSeq(mp, 1, n)
           o == Others(k, mp)
<1>3. mp \in AllPaths /\ mp # <<>> /\ p \in AllPaths /\ Pre(p, mp)
  BY <1>2, Beginnings, Zenon
<1>4. /\ ViewTable(o) /\ \A q : q \in DOMAIN o <=> q \in DOMAIN k /\ ~Pre(mp, q)
      /\ \A q \in DOMAIN o : o[q] = k[q]
  BY <1>3, OthersIs, SMTT(20)
<1> HIDE DEF p, o
<1>5. CASE mp = x
  <2>1. \A q \in DOMAIN o : q \in DOMAIN m
    BY <1>1, <1>4, <1>5, PreOrder, Zenon
  <2>2. \A q \in DOMAIN m : q \in DOMAIN o
    BY <1>1, <1>4, <1>5
  <2>3. Above(o, p) = Above(m, p)
    BY <2>1, <2>2 DEF Above
  <2>4. \A q \in Above(m, p) : o[q] = m[q]
    BY <1>1, <1>4, <2>2, Zenon DEF Above
  <2>5. Behind(o, p) = Behind(m, p)
    BY <1>3, <1>4, <2>3, <2>4, BehindSame, Zenon
  <2>6. Behind(m, p) = "dir"
    BY <1>3, <1>5, DirectoriesStand
  <2> QED
    BY <2>5, <2>6, Zenon DEF o, p
<1>6. CASE mp # x
  <2> DEFINE w == Others(m, mp)
  <2>1. mp \in DOMAIN m
    BY <1>1, <1>6, Zenon
  <2>2. /\ ViewTable(w) /\ \A q : q \in DOMAIN w <=> q \in DOMAIN m /\ ~Pre(mp, q)
        /\ \A q \in DOMAIN w : w[q] = m[q]
    BY <1>3, OthersIs
  <2>3. Behind(w, p) = "dir"
    BY <2>1, Zenon DEF Stand, p
  <2> HIDE DEF w
  <2>4. ~Pre(x, p)
    BY <1>3, <2>1, PreOrder, Zenon
  <2>5. Above(o, p) = Above(w, p)
    BY <1>1, <1>4, <2>2, <2>4, Zenon DEF Above
  <2>6. \A q \in Above(w, p) : o[q] = w[q]
    BY <1>1, <1>4, <2>2, <2>5, Zenon DEF Above
  <2>7. Behind(o, p) = Behind(w, p)
    BY <1>3, <1>4, <2>2, <2>5, <2>6, BehindSame, Zenon
  <2> QED
    BY <2>3, <2>7 DEF o, p
<1> QED
  BY <1>5, <1>6

\* The tables of the root volumes are plainly written.
PlainTables == \A table \in Fstabs : WrittenPlainly(table)

\* After m of its components, a path without "." and ".." has been taken as it is.
TakenAsIs(x, raw, m) ==
  x.ok /\ x.path \in AllPaths /\ Len(x.path) = m /\ \A i \in 1..m : x.path[i] = raw[i]

\* One component more.
LEMMA TakeOne ==
  ASSUME NEW x, NEW raw, NEW m \in Nat, TakenAsIs(x, raw, m), raw[m + 1] \in STRING \ {".", ".."}
  PROVE  TakenAsIs(Component(x, raw[m + 1]), raw, m + 1)
<1> DEFINE q == Append(x.path, raw[m + 1])
<1>1. Component(x, raw[m + 1]) = [ok |-> TRUE, path |-> q]
  BY DEF Component, TakenAsIs
<1>2. /\ q \in AllPaths /\ Len(q) = m + 1 /\ q[m + 1] = raw[m + 1]
      /\ \A i \in 1..m : q[i] = x.path[i]
  BY AppendPath, Zenon DEF TakenAsIs
<1> HIDE DEF q
<1>3. \A i \in 1..(m + 1) : q[i] = raw[i]
  BY <1>2, SMTT(20) DEF TakenAsIs
<1> QED
  BY <1>1, <1>2, <1>3, SMTT(20) DEF TakenAsIs

\* canonical_path leaves a path without "." and ".." as it is.
LEMMA CanonicalKeepsPlain ==
  ASSUME NEW raw \in AllPaths, \A i \in 1..Len(raw) : raw[i] \notin {".", ".."}
  PROVE  canonical_path(raw).ok /\ canonical_path(raw).path = raw
<1> DEFINE n == Len(raw)
           start == [ok |-> TRUE, path |-> <<>>]
<1>1. n \in Nat /\ \A i \in 1..n : raw[i] \in STRING \ {".", ".."}
  BY PathShape
<1>2. PICK f : IsFold(f, "path", start, raw, n) /\ canonical_path(raw) = f[n]
  <2>1. \E f : IsFold(f, "path", start, raw, n)
    BY <1>1, FoldExists, Zenon
  <2> QED
    BY <2>1, CanonicalUnfolds, Zenon
<1>3. TakenAsIs(start, raw, 0)
  BY DEF TakenAsIs, AllPaths
<1> HIDE DEF n, start
<1>4. f[0] = start /\ \A i \in 1..n : f[i] = Step("path", f[i - 1], raw[i])
  BY <1>1, <1>2, FoldSteps, SMTT(20)
<1> DEFINE N == {m \in Nat : m <= n => TakenAsIs(f[m], raw, m)}
<1>5. 0 \in N
  BY <1>3, <1>4
<1>6. ASSUME NEW m \in Nat, m \in N PROVE m + 1 \in N
  <2> SUFFICES ASSUME m + 1 <= n PROVE TakenAsIs(f[m + 1], raw, m + 1)
    OBVIOUS
  <2>1. m + 1 \in 1..n /\ (m + 1) - 1 = m /\ TakenAsIs(f[m], raw, m)
    BY <1>1, <1>6
  <2>2. f[m + 1] = Component(f[m], raw[m + 1]) /\ raw[m + 1] \in STRING \ {".", ".."}
    BY <1>1, <1>4, <2>1, Zenon DEF Step
  <2> QED
    BY <2>1, <2>2, TakeOne
<1>7. Nat \subseteq N
  <2> HIDE DEF N
  <2> QED
    BY <1>5, <1>6, NatInductive
<1>8. n \in N /\ n <= n
  BY <1>1, <1>7
<1>9. TakenAsIs(canonical_path(raw), raw, Len(raw))
  BY <1>2, <1>8 DEF n
<1> QED
  BY <1>9, PathEqual DEF TakenAsIs

\* A table whose mount points have no "." and no ".." is plainly written.
LEMMA DotFreeIsPlain ==
  ASSUME NEW table \in Fstabs,
         \A i \in DOMAIN table : \A j \in 1..Len(table[i].mount_point) :
           table[i].mount_point[j] \notin {".", ".."}
  PROVE  WrittenPlainly(table)
<1>1. \A i \in DOMAIN table : MountPoint(table[i]).path = table[i].mount_point
  BY CanonicalKeepsPlain, TablesAreSequences DEF MountPoint
<1> QED
  BY <1>1 DEF WrittenPlainly

\* Attaching the next entry leaves all mount points standing.
LEMMA StandAttach ==
  ASSUME PlainTables, ComposeOk, StandOk, attach_entry
  PROVE  StandOk'
<1> DEFINE x == Entry.mount_point
           s == mount_entries(fstab)
           v == resolved[Entry.uuid]
<1>1. /\ phase = "attach" /\ at \in 1..Len(s) /\ fstab \in Fstabs /\ x \in AllPaths
      /\ Entry \in Children(fstab) /\ Len(s) \in Nat
  <2>1. Working
    BY DEF attach_entry
  <2>2. phase = "attach"
    BY <2>1 DEF Working
  <2>3. fstab \in Fstabs /\ at \in 1..Len(s) /\ Entry \in Children(fstab) /\ x \in AllPaths
    BY <2>1, EntryIs
  <2>4. Len(s) \in Nat
    BY <2>3, MountEntriesSorted DEF InOrder
  <2> QED
    BY <2>2, <2>3, <2>4
<1>2. MountPoint(Entry).path = x /\ x # <<>>
  <2>1. MountPoint(Entry).ok /\ MountPoint(Entry).path # <<>>
    BY DEF attach_entry, AttachAccepted, AttachRefused
  <2>2. PICK i \in 1..Len(fstab) : fstab[i] = Entry
    BY <1>1, EntriesOfTable
  <2>3. i \in DOMAIN fstab
    BY <1>1, EntriesOfTable
  <2>4. MountPoint(fstab[i]).ok => MountPoint(fstab[i]).path \in {fstab[i].mount_point, <<>>}
    BY <1>1, <2>3, Zenon DEF PlainTables, WrittenPlainly
  <2> QED
    BY <2>1, <2>2, <2>4, Zenon
<1>3. /\ mounts' = Insert(mounts, x, v) /\ at' = at + 1 /\ fstab' = fstab /\ phase' = phase
      /\ x \notin DOMAIN mounts /\ try_is_dir(mounts, x) = "yes"
  BY <1>2, Zenon DEF attach_entry, AttachAccepted, AttachRefused
<1>4. ViewTable(mounts) /\ Stand(mounts) /\ ViewTable(mounts')
  <2>1. ComposeOk'
    BY AttachKeeps
  <2> QED
    BY <1>1, <2>1 DEF ComposeOk, StandOk, ViewTable, MountTable
<1>5. \A mp \in DOMAIN mounts : mp \in AllPaths /\ Len(mp) \in Nat /\ Len(mp) <= Len(x)
  <2>1. \A mp \in DOMAIN mounts : Len(mp) <= Depth(s[at])
    BY <1>1 DEF StandOk
  <2>2. Depth(s[at]) = Len(x)
    BY Zenon DEF Depth, Entry
  <2>3. \A mp \in DOMAIN mounts : mp \in AllPaths
    BY <1>4 DEF ViewTable, MountTable
  <2> QED
    BY <2>1, <2>2, <2>3, PathShape
<1>6. s' = s /\ InOrder(s, Children(fstab))
  <2>1. s' = s
    BY <1>3 DEF mount_entries, sort_by_key, Depth
  <2> QED
    BY <1>1, <2>1, MountEntriesSorted, Zenon
<1>7. Len(x) \in Nat /\ Len(x) = Depth(s[at])
  BY <1>1, PathShape, Zenon DEF Depth, Entry
<1> HIDE DEF x, s, v
<1>8. ASSUME NEW mp \in DOMAIN mounts PROVE ~Pre(x, mp)
  <2> SUFFICES ASSUME Pre(x, mp) PROVE FALSE
    OBVIOUS
  <2>1. mp \in AllPaths /\ Len(x) = Len(mp)
    BY <1>5, <1>7 DEF Pre
  <2> QED
    BY <1>1, <1>3, <2>1, PreOrder
<1>9. Behind(mounts, x) = "dir"
  <2>1. MountTable(mounts)
    BY <1>4 DEF ViewTable
  <2>2. ~has_mounted_descendant(mounts, x)
    BY <1>1, <1>8, <2>1, DescendantIs, Zenon
  <2> QED
    BY <1>3, <2>2 DEF try_is_dir, Verdict
<1>10. Stand(mounts')
  BY <1>1, <1>2, <1>3, <1>4, <1>8, <1>9, StandInsert, Zenon
<1>11. ASSUME NEW mp \in DOMAIN mounts', NEW k \in 1..Len(s), at + 1 <= k
       PROVE  Len(mp) <= Depth(s[k])
  <2>1. at < k /\ at <= k
    BY <1>1, <1>11
  <2>2. CASE mp = x
    BY <1>1, <1>6, <1>7, <2>1, <2>2, Zenon DEF InOrder
  <2>3. CASE mp # x
    <3>1. mp \in DOMAIN mounts
      BY <1>3, <2>3 DEF Insert
    <3> QED
      BY <1>1, <2>1, <3>1 DEF StandOk, s
  <2> QED
    BY <2>2, <2>3
<1>12. (Stand(mounts))'
  BY <1>10, Zenon DEF Stand, Behind, Others, Lookup, filesystem_mut, relative, route, is_at_or_below, is_below
<1> QED
  BY <1>1, <1>3, <1>6, <1>11, <1>12 DEF StandOk, s, Depth

\* The entries are those of the table read.
LEMMA SameTable ==
  ASSUME fstab' = fstab
  PROVE  mount_entries(fstab)' = mount_entries(fstab)
BY DEF mount_entries, sort_by_key, Depth

\* A step that leaves the mount table alone.
LEMMA StandSame ==
  ASSUME StandOk, mounts' = mounts, phase # "done",
         phase' \in {"validate", "discover", "attach"} =>
           /\ phase' \in {"validate", "discover"} => phase \in {"validate", "discover"}
           /\ \/ DOMAIN mounts = {}
              \/ phase = phase' /\ fstab' = fstab /\ at \in Nat /\ at' \in Nat /\ at <= at'
  PROVE  StandOk'
<1>0. Stand(mounts')
  BY DEF StandOk
<1>1. (Stand(mounts))'
  BY <1>0, Zenon DEF Stand, Behind, Others, Lookup, filesystem_mut, relative, route, is_at_or_below, is_below
<1>2. phase' \in {"validate", "discover"} => DOMAIN mounts' = {}
  BY DEF StandOk
<1>3. ASSUME phase' = "attach", NEW mp \in DOMAIN mounts', NEW k \in 1..Len(mount_entries(fstab)'),
             at' <= k
      PROVE  Len(mp) <= Depth(mount_entries(fstab)[k])'
  <2>1. phase = "attach" /\ fstab' = fstab /\ at \in Nat /\ at' \in Nat /\ at <= at'
    BY <1>3
  <2>2. mount_entries(fstab)' = mount_entries(fstab)
    BY <2>1, SameTable
  <2>3. k \in 1..Len(mount_entries(fstab)) /\ at <= k
    BY <1>3, <2>1, <2>2
  <2>4. Len(mp) <= Depth(mount_entries(fstab)[k])
    BY <2>1, <2>3 DEF StandOk
  <2> QED
    BY <2>2, <2>4 DEF Depth
<1> QED
  BY <1>1, <1>2, <1>3 DEF StandOk

\* Every step.
LEMMA StandKeeps ==
  ASSUME PlainTables, ComposeOk, StandOk, [Compose \/ UseNamespace]_allVars
  PROVE  StandOk'
<1>0. at \in Nat
  BY DEF ComposeOk
<1>1. CASE validate_root_entry \/ candidates_failed \/ discover_candidate \/ discover_done
  <2>1. mounts' = mounts /\ phase \in {"validate", "discover"}
    BY <1>1 DEF validate_root_entry, candidates_failed, discover_candidate, discover_done, vars
  <2>2. DOMAIN mounts = {} /\ phase # "done"
    BY <2>1 DEF StandOk
  <2> QED
    BY <2>1, <2>2, StandSame, Zenon
<1>2. CASE attach_entry
  BY <1>2, StandAttach
<1>3. CASE skip_entry \/ entry_failed
  <2>1. /\ mounts' = mounts /\ phase = "attach" /\ fstab' = fstab
        /\ phase' = "failed" \/ (phase' = phase /\ at' = at + 1)
    BY <1>3 DEF skip_entry, entry_failed, Working, vars
  <2> QED
    BY <1>0, <2>1, StandSame
<1>4. CASE compose_done
  BY <1>4 DEF compose_done, StandOk
<1>5. CASE UseNamespace
  BY <1>5 DEF UseNamespace, composeVars, StandOk
<1>6. CASE UNCHANGED allVars
  <2>1. mounts' = mounts /\ phase' = phase /\ fstab' = fstab /\ at' = at
    BY <1>6 DEF allVars, vars, composeVars
  <2>2. CASE phase = "done"
    BY <2>1, <2>2 DEF StandOk
  <2>3. CASE phase # "done"
    BY <1>0, <2>1, <2>3, StandSame
  <2> QED
    BY <2>2, <2>3
<1> QED
  BY <1>1, <1>2, <1>3, <1>4, <1>5, <1>6, Zenon DEF Compose

\* StandOk holds in every state.
LEMMA StandInvariant ==
  ASSUME PlainTables
  PROVE  ComposeSpec => []StandOk
<1>1. ComposeInit => StandOk
  BY DEF ComposeInit, Init, StandOk, Stand
<1>2. ComposeOk /\ StandOk /\ [Compose \/ UseNamespace]_allVars => StandOk'
  BY StandKeeps
<1> QED
  BY <1>1, <1>2, ComposeInvariant, PTL DEF ComposeSpec

\* mount_entries attaches shallow to deep: where every mount point is attached where
\* it is written, each one is a directory of the volume it covers when all are
\* attached, and so is every directory above it.
THEOREM ComposedMountPointsStand ==
  ASSUME \A table \in Fstabs : WrittenPlainly(table)
  PROVE  ComposeSpec => []MountPointsStand
<1>1. StandOk => MountPointsStand
  BY DEF StandOk, Stand, MountPointsStand, Others
<1>2. PlainTables
  BY DEF PlainTables
<1> QED
  BY <1>1, <1>2, StandInvariant, PTL

\* Where mount points stand, a directory that something is mounted below is one of
\* the volume behind it.
LEMMA AboveIsDirectory ==
  ASSUME NEW m, ViewTable(m), Stand(m), NEW p \in AllPaths, has_mounted_descendant(m, p)
  PROVE  Behind(m, p) = "dir"
<1>1. PICK mp \in DOMAIN m : Pre(p, mp) /\ p # mp
  BY DescendantIs DEF ViewTable
<1> QED
  BY <1>1, StandAbove

\* The calls agree on a path.
AgreeOn(m, p) ==
  LET kind == open(m, p)
  IN  /\ metadata(m, p) = kind
      /\ (kind = "dir")  <=> read_dir(m, p).ok
      /\ (kind = "file") <=> (read_at(m, p) = "file")
      /\ (kind = "dir")  <=> (try_is_dir(m, p) = "yes")
      /\ (kind = "file") <=> (try_is_file(m, p) = "yes")
      /\ (kind \in {"dir", "file"}) <=> (try_exists(m, p) = "yes")

\* They do where mount points stand.
LEMMA CallsAgreeOn ==
  ASSUME NEW m, ViewTable(m), Stand(m), NEW p \in AllPaths
  PROVE  AgreeOn(m, p)
<1>1. Behind(m, p) \in {"dir", "file", "NotADirectory", "NotFound"}
  BY BehindIs, LookupIs
<1>2. CASE has_mounted_descendant(m, p)
  <2>1. Behind(m, p) = "dir"
    BY <1>2, AboveIsDirectory
  <2>2. open(m, p) = "dir" /\ metadata(m, p) = "dir" /\ read_at(m, p) = "NotAFile"
    BY <2>1 DEF open, metadata, read_at
  <2>3. read_dir(m, p).ok
    BY <2>1, Zenon DEF read_dir, Behind
  <2>4. try_is_dir(m, p) = "yes" /\ try_is_file(m, p) = "no" /\ try_exists(m, p) = "yes"
    BY <1>2 DEF try_is_dir, try_is_file, try_exists
  <2> QED
    BY <2>2, <2>3, <2>4 DEF AgreeOn
<1>3. CASE ~has_mounted_descendant(m, p)
  <2>1. direct_mount_children(m, p) = {}
    BY <1>3, DescendantIs, ChildrenAre DEF ViewTable
  <2>2. open(m, p) = Behind(m, p) /\ metadata(m, p) = Behind(m, p)
    BY <1>3 DEF open, metadata, AboveMount
  <2>3. Behind(m, p) = "dir" <=> read_dir(m, p).ok
    BY <2>1, Zenon DEF read_dir, Behind
  <2>4. (Behind(m, p) = "file") <=> (read_at(m, p) = "file")
    BY <1>3 DEF read_at, AboveMount
  <2>5. /\ (Behind(m, p) = "dir")  <=> (try_is_dir(m, p) = "yes")
        /\ (Behind(m, p) = "file") <=> (try_is_file(m, p) = "yes")
        /\ (Behind(m, p) \in {"dir", "file"}) <=> (try_exists(m, p) = "yes")
    BY <1>1, <1>3 DEF try_is_dir, try_is_file, try_exists, Verdict
  <2> QED
    BY <2>2, <2>3, <2>4, <2>5, Zenon DEF AgreeOn
<1> QED
  BY <1>2, <1>3, Zenon

\* There is one tree, whichever call looks at it (open, metadata, read_dir, read_at
\* and the try_ questions): they agree on every path of a composed namespace, a name
\* is listed exactly when it is there, and every mounted volume can be reached.
THEOREM ComposedViewsAgree ==
  ASSUME \A table \in Fstabs : WrittenPlainly(table)
  PROVE  ComposeSpec => []ViewsAgree
<1>1. ComposeOk => ViewTable(mounts)
  BY DEF ComposeOk
<1>2. StandOk /\ phase # "done" => Stand(mounts)
  BY DEF StandOk
<1>3. ComposeOk /\ StandOk => CallsAgree
  <2> SUFFICES ASSUME ComposeOk, StandOk, phase # "done",
                      NEW p \in {q \o r : q \in DOMAIN mounts \cup {<<>>}, r \in PathsOf}
               PROVE  AgreeOn(mounts, p)
    BY SMTT(20) DEF CallsAgree, AgreeOn
  <2>1. PICK q \in DOMAIN mounts \cup {<<>>}, r \in PathsOf : p = q \o r
    OBVIOUS
  <2>2. ViewTable(mounts) /\ Stand(mounts)
    BY <1>1, <1>2, SMTT(20)
  <2>3. q \in AllPaths
    BY <2>2, TreesAreTrees, SMTT(20) DEF ViewTable, MountTable
  <2>4. r \in AllPaths
    BY TreesAreTrees, SMTT(20) DEF PathsOf, Volumes
  <2>5. q \o r \in AllPaths
    BY <2>3, <2>4, SMTT(20) DEF AllPaths
  <2> QED
    BY <2>1, <2>2, <2>5, CallsAgreeOn, SMTT(20)
<1>4. PlainTables
  BY DEF PlainTables
<1>5. ComposeOk /\ StandOk /\ OneTree => ViewsAgree
  BY <1>3 DEF ViewsAgree
<1> QED
  BY <1>4, <1>5, ComposeInvariant, StandInvariant, NamespaceIsOneTree, PTL

=============================================================================
