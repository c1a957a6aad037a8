------------------------ MODULE MountedVolumeProofs -------------------------
(***************************************************************************)
(* Proofs about MountedVolume, for any tree, any number of callback        *)
(* threads, directory streams and cache entries: what the metadata cache   *)
(* and the handles of a Dokan volume say is true, and the inodes of a FUSE *)
(* volume are identities of its paths.                                     *)
(***************************************************************************)
EXTENDS MountedVolume, MountBackendProofs, FiniteInduction, TLAPS

-----------------------------------------------------------------------------
(* The metadata cache of the Dokan volume.                                 *)

\* A cache that is within its capacity, whose insertion_order lists the paths it
\* holds, each once, and that holds for each of them what is there.
CacheOk(c) ==
  /\ c = [entries |-> c.entries, order |-> c.order]
  /\ c.order \in Seq(Handles!Paths)
  /\ Len(c.order) <= Capacity
  /\ \A i, j \in 1..Len(c.order) : c.order[i] = c.order[j] => i = j
  /\ DOMAIN c.entries = {c.order[i] : i \in 1..Len(c.order)}
  /\ \A p \in DOMAIN c.entries : c.entries[p] = Truth[p]

\* A handle is of a path that exists, and its information and its target are those
\* of the path.
HandleOk(h) ==
  /\ h = [path |-> h.path, info |-> h.info, target |-> h.target]
  /\ h.path \in Handles!Paths
  /\ h.info = Truth[h.path] /\ h.info \in {"file", "dir"}
  /\ h.target \in {"none", h.info}

\* An operation between two locks of open_path, read_file or fill_directory: what it
\* has learned is true, and the handle it works for is of the path it resolves.
StepOk(d, h) ==
  \/ d = Handles!Idle
  \/ d = [step |-> "read"]
  \/ d = [step |-> "list"]
  \/ /\ d.step \in {"resolve", "record"} /\ d.path \in Handles!Paths
     /\ d.for \in {"open", "read", "list"}
     /\ d.for # "open" => HandleOk(h) /\ h.path = d.path
     /\ d.step = "record" => d.result \in {Truth[d.path], "error"}

\* The inductive invariant of the callbacks of a Dokan volume.
DokanOk ==
  /\ CacheOk(Handles!Cache)
  /\ handle = [t \in Threads |-> handle[t]]
  /\ doing = [t \in Threads |-> doing[t]]
  /\ \A t \in Threads : handle[t] = Handles!NoHandle \/ HandleOk(handle[t])
  /\ \A t \in Threads : StepOk(doing[t], handle[t])

\* The paths that are looked at are files, directories or missing, and a listing of a
\* directory names paths among them.
LEMMA TreeShape ==
  /\ \A p \in Handles!Paths : Truth[p] \in {"file", "dir", "missing"}
  /\ \A p \in Handles!Paths : Truth[p] = "dir" =>
       /\ DOMAIN Visible[p] = 1..Len(Listing[p]) /\ Len(Listing[p]) \in Nat
       /\ \A i \in DOMAIN Visible[p] : Visible[p][i] \in Handles!Paths
<1>1. Handles!Paths = Probed
  BY DEF Handles!Paths, Truth
<1>2. ASSUME NEW p \in Probed, Truth[p] = "dir"
      PROVE  /\ DOMAIN Visible[p] = 1..Len(Listing[p]) /\ Len(Listing[p]) \in Nat
             /\ \A i \in DOMAIN Visible[p] : Visible[p][i] \in Probed
  <2>1. p \in DOMAIN Listing
    BY <1>2 DEF Truth
  <2>2. Listing[p] \in Seq(Names)
    BY <2>1, ListingAssumption
  <2>3. DOMAIN Visible[p] = DOMAIN Listing[p]
          /\ \A i \in DOMAIN Listing[p] : Visible[p][i] = Append(p, Listing[p][i])
    BY <2>1, Zenon DEF Visible
  <2>4. \A i \in DOMAIN Listing[p] : Listing[p][i] \in Names
    BY <2>2
  <2>5. \A i \in DOMAIN Listing[p] : Append(p, Listing[p][i]) \in Probed
    <3>1. ASSUME NEW d \in DOMAIN Listing, NEW name \in Names PROVE Append(d, name) \in Probed
      BY DEF Probed
    <3> QED
      BY <2>1, <2>4, <3>1, Zenon
  <2>6. DOMAIN Listing[p] = 1..Len(Listing[p]) /\ Len(Listing[p]) \in Nat
    BY <2>2
  <2> QED
    BY <2>3, <2>5, <2>6, Zenon
<1> QED
  BY <1>1, <1>2 DEF Truth

\* A cache holds as many paths as its insertion_order is long.
LEMMA CacheSize ==
  ASSUME NEW c, CacheOk(c)
  PROVE  IsFiniteSet(DOMAIN c.entries) /\ Cardinality(DOMAIN c.entries) = Len(c.order)
<1> DEFINE n == Len(c.order)
           f == [i \in 1..n |-> c.order[i]]
           E == DOMAIN c.entries
<1>1. n \in Nat
  BY DEF CacheOk
<1>2. f \in Bijection(1..n, E)
  BY DEF CacheOk, Bijection, Injection, Surjection, IsInjective
<1> HIDE DEF f, E, n
<1>3. ExistsBijection(1..n, E)
  BY <1>2 DEF ExistsBijection
<1>4. Cardinality(E) = n /\ IsFiniteSet(E)
  BY <1>1, <1>3, FS_CountingElements, FS_NatBijection
<1> QED
  BY <1>4 DEF n, E

\* The cardinality that the cache compares with its capacity.
LEMMA CacheCardinality ==
  ASSUME NEW S
  PROVE  Handles!Cardinality(S) = Cardinality(S)
  BY Zenon DEF Handles!Cardinality, Cardinality, Handles!IsFiniteSet, IsFiniteSet

\* A new value for the entries of a cache.
LEMMA WithEntries ==
  ASSUME NEW a, NEW b, NEW e, NEW c, c = [entries |-> a, order |-> b]
  PROVE  [c EXCEPT !.entries = e] = [entries |-> e, order |-> b]
  OBVIOUS

\* The parts of a cache that make it so.
LEMMA CacheOkIntro ==
  ASSUME NEW e, NEW q \in Seq(Handles!Paths), Len(q) <= Capacity,
         \A i, j \in 1..Len(q) : q[i] = q[j] => i = j,
         DOMAIN e = {q[i] : i \in 1..Len(q)},
         \A p \in DOMAIN e : e[p] = Truth[p],
         NEW c, c = [entries |-> e, order |-> q]
  PROVE  CacheOk(c) /\ c.entries = e /\ c.order = q
<1>1. c.entries = e /\ c.order = q
  OBVIOUS
<1> QED
  BY <1>1, Zenon DEF CacheOk

\* Evicting the oldest path leaves a cache with room for one.
LEMMA EvictedOk ==
  ASSUME NEW c, CacheOk(c), c.order # <<>>
  PROVE  CacheOk(Handles!Evicted(c)) /\ Len(Handles!Evicted(c).order) < Capacity
<1> DEFINE o == c.order
           oldest == Head(o)
           D == DOMAIN c.entries \ {oldest}
           e == [p \in D |-> c.entries[p]]
           v == [entries |-> e, order |-> Tail(o)]
<1>1. /\ o \in Seq(Handles!Paths) /\ Len(o) <= Capacity /\ Len(o) \in Nat \ {0}
      /\ oldest = o[1] /\ Capacity \in Nat
  BY CapacityIsPositive DEF CacheOk
<1>2. /\ Tail(o) \in Seq(Handles!Paths) /\ Len(Tail(o)) = Len(o) - 1
      /\ \A i \in 1..Len(Tail(o)) : Tail(o)[i] = o[i + 1]
  BY <1>1
<1>3. \A i, j \in 1..Len(o) : o[i] = o[j] => i = j
  BY DEF CacheOk
<1>4. ASSUME NEW i \in 1..Len(Tail(o)), NEW j \in 1..Len(Tail(o)), Tail(o)[i] = Tail(o)[j]
      PROVE  i = j
  <2>1. i + 1 \in 1..Len(o) /\ j + 1 \in 1..Len(o) /\ o[i + 1] = o[j + 1]
    BY <1>1, <1>2, <1>4
  <2> QED
    BY <1>3, <2>1
<1>5. D = {Tail(o)[i] : i \in 1..Len(Tail(o))}
  <2>1. ASSUME NEW p \in D PROVE \E i \in 1..Len(Tail(o)) : p = Tail(o)[i]
    <3>1. PICK i \in 1..Len(o) : p = o[i]
      BY DEF CacheOk
    <3>2. i # 1
      BY <1>1, <3>1
    <3>3. i - 1 \in 1..Len(Tail(o)) /\ Tail(o)[i - 1] = o[i]
      BY <1>1, <1>2, <3>2, SMTT(20)
    <3> QED
      BY <3>1, <3>3
  <2>2. ASSUME NEW i \in 1..Len(Tail(o)) PROVE Tail(o)[i] \in D
    <3>1. i + 1 \in 1..Len(o) /\ 1 \in 1..Len(o) /\ i + 1 # 1 /\ Tail(o)[i] = o[i + 1]
      BY <1>1, <1>2
    <3>2. o[i + 1] # o[1]
      BY <1>3, <3>1
    <3> QED
      BY <3>1, <3>2, <1>1 DEF CacheOk
  <2> QED
    BY <2>1, <2>2
<1>6. \A p \in D : e[p] = Truth[p]
  BY DEF CacheOk
<1>7. Handles!Evicted(c) = v
  BY DEF Handles!Evicted
<1>8. DOMAIN e = D
  OBVIOUS
<1>9. Len(Tail(o)) < Capacity /\ Len(Tail(o)) <= Capacity
  BY <1>1, <1>2
<1>10. CacheOk(v) /\ v.order = Tail(o)
  <2> DEFINE q == Tail(o)
  <2>1. v = [entries |-> e, order |-> q] /\ q \in Seq(Handles!Paths) /\ DOMAIN e = D
          /\ D = {q[i] : i \in 1..Len(q)} /\ Len(q) <= Capacity
          /\ (\A i, j \in 1..Len(q) : q[i] = q[j] => i = j)
          /\ (\A p \in D : e[p] = Truth[p])
    BY <1>2, <1>4, <1>5, <1>6, <1>8, <1>9, Zenon
  <2> HIDE DEF q, v, e, D
  <2>2. CacheOk(v) /\ v.order = q
    BY <2>1, CacheOkIntro, Zenon
  <2> QED
    BY <2>2 DEF q
<1> QED
  BY <1>7, <1>9, <1>10

\* insert puts a path and what is there into the cache, and keeps it a cache.
LEMMA InsertOk ==
  ASSUME NEW c, CacheOk(c), NEW path \in Handles!Paths
  PROVE  CacheOk(Handles!insert(c, path, Truth[path]))
<1>1. CASE path \in DOMAIN c.entries
  <2> DEFINE e == [c.entries EXCEPT ![path] = Truth[path]]
             v == [c EXCEPT !.entries = e]
  <2>1. Handles!insert(c, path, Truth[path]) = v
    BY <1>1 DEF Handles!insert
  <2>2. DOMAIN e = DOMAIN c.entries /\ \A p \in DOMAIN e : e[p] = Truth[p]
    BY <1>1 DEF CacheOk
  <2>3. v = [entries |-> e, order |-> c.order]
    <3> DEFINE a == c.entries
               b == c.order
    <3>1. c = [entries |-> a, order |-> b]
      BY DEF CacheOk
    <3> HIDE DEF a, b, e
    <3>2. [c EXCEPT !.entries = e] = [entries |-> e, order |-> b]
      BY <3>1, WithEntries
    <3> QED
      BY <3>2 DEF b
  <2> HIDE DEF e, v
  <2>4. CacheOk(v)
    BY <2>2, <2>3, CacheOkIntro, SMTT(20) DEF CacheOk
  <2> QED
    BY <2>1, <2>4
<1>2. CASE path \notin DOMAIN c.entries
  <2> DEFINE room == IF Handles!Full(c) /\ c.order # <<>> THEN Handles!Evicted(c) ELSE c
             e == [p \in DOMAIN room.entries \cup {path} |->
                     IF p = path THEN Truth[path] ELSE room.entries[p]]
             q == Append(room.order, path)
             v == [entries |-> e, order |-> q]
  <2>1. Handles!insert(c, path, Truth[path]) = v
    BY <1>2 DEF Handles!insert
  <2>2. CacheOk(room) /\ Len(room.order) < Capacity /\ path \notin DOMAIN room.entries
    <3>1. CASE Handles!Full(c) /\ c.order # <<>>
      <4>1. CacheOk(room) /\ Len(room.order) < Capacity
        BY <3>1, EvictedOk
      <4>2. DOMAIN room.entries \subseteq DOMAIN c.entries
        BY <3>1 DEF Handles!Evicted
      <4> QED
        BY <4>1, <4>2, <1>2
    <3>2. CASE ~(Handles!Full(c) /\ c.order # <<>>)
      <4>1. room = c
        BY <3>2
      <4>2. Cardinality(DOMAIN c.entries) = Len(c.order) /\ Len(c.order) \in Nat
        <5>1. Cardinality(DOMAIN c.entries) = Len(c.order)
          BY CacheSize
        <5>2. Len(c.order) \in Nat
          BY DEF CacheOk
        <5> QED
          BY <5>1, <5>2
      <4>3. c.order = <<>> => Len(c.order) = 0
        BY DEF CacheOk
      <4>4. Len(c.order) < Capacity
        BY <3>2, <4>2, <4>3, CapacityIsPositive, CacheCardinality, SMTT(20) DEF Handles!Full
      <4> QED
        BY <4>1, <4>4, <1>2
    <3> QED
      BY <3>1, <3>2
  <2> HIDE DEF room
  <2> DEFINE o == room.order
             n == Len(o)
  <2>3. o \in Seq(Handles!Paths) /\ n \in Nat /\ n < Capacity /\ Capacity \in Nat
    BY <2>2, CapacityIsPositive DEF CacheOk
  <2>4. q \in Seq(Handles!Paths) /\ Len(q) = n + 1 /\ q[n + 1] = path
          /\ \A i \in 1..n : q[i] = o[i]
    BY <2>3
  <2>5. /\ \A i, j \in 1..n : o[i] = o[j] => i = j
        /\ DOMAIN room.entries = {o[i] : i \in 1..n}
        /\ \A p \in DOMAIN room.entries : room.entries[p] = Truth[p]
    BY <2>2 DEF CacheOk
  <2> HIDE DEF o, n, q
  <2>6. ASSUME NEW i \in 1..Len(q), NEW j \in 1..Len(q), q[i] = q[j] PROVE i = j
    <3>1. \A k \in 1..n : o[k] # path
      BY <2>2, <2>5
    <3>2. \A k \in 1..Len(q) : k = n + 1 \/ k \in 1..n
      BY <2>3, <2>4
    <3> QED
      BY <2>4, <2>5, <2>6, <3>1, <3>2
  <2>7. DOMAIN e = {q[i] : i \in 1..Len(q)}
    <3>1. 1..Len(q) = (1..n) \cup {n + 1}
      BY <2>3, <2>4
    <3>2. DOMAIN e = DOMAIN room.entries \cup {path}
      OBVIOUS
    <3> HIDE DEF e
    <3> QED
      BY <2>4, <2>5, <3>1, <3>2, SMTT(20)
  <2>8. \A p \in DOMAIN e : e[p] = Truth[p]
    BY <2>5
  <2>9. Len(q) <= Capacity
    BY <2>3, <2>4
  <2> HIDE DEF e, v
  <2>10. CacheOk(v)
    <3>1. v = [entries |-> e, order |-> q]
      BY DEF v
    <3>2. q \in Seq(Handles!Paths) /\ (\A i, j \in 1..Len(q) : q[i] = q[j] => i = j)
      BY <2>4, <2>6
    <3> QED
      BY <3>1, <3>2, <2>7, <2>8, <2>9, CacheOkIntro, Zenon
  <2> QED
    BY <2>1, <2>10 DEF v
<1> QED
  BY <1>1, <1>2

-----------------------------------------------------------------------------
(* What a listing does entry by entry: it seeds the metadata cache, or      *)
(* gives inodes to the entries of the directory with number above.         *)

\* One entry.
Step(kind, above, acc, e) ==
  IF kind = "cache" THEN Handles!insert(acc, e, Truth[e])
  ELSE Inodes!lookup_or_insert(acc, above, e)

\* f holds the outcome after each number of the entries of s.
IsFold(f, kind, above, base, s, n) ==
  f = [i \in 0..n |-> IF i = 0 THEN base ELSE Step(kind, above, f[i - 1], s[i])]

\* cache_directory_entries and readdir, written as the recursion that they are.
LEMMA FillUnfolds ==
  ASSUME NEW s
  PROVE  Handles!cache_directory_entries(s) =
           (CHOOSE f : IsFold(f, "cache", 0, Handles!Cache, s, Len(s)))[Len(s)]
  BY DEF Handles!cache_directory_entries, IsFold, Step

\* The same for the inodes of a listing.
LEMMA NumberUnfolds ==
  ASSUME NEW above, NEW names
  PROVE  Inodes!NumberAll(above, names) =
           (CHOOSE f : IsFold(f, "inodes", above, Inodes!Table, names, Len(names)))[Len(names)]
  BY DEF Inodes!NumberAll, IsFold, Step

\* The recursion has a solution.
LEMMA FoldExists ==
  ASSUME NEW kind, NEW above, NEW base, NEW n \in Nat, NEW s
  PROVE  \E f : IsFold(f, kind, above, base, s, n)
<1> DEFINE F(f, i) == IF i = 0 THEN base ELSE Step(kind, above, f[i - 1], s[i])
           N == {m \in Nat : \E f : f = [i \in 0..m |-> F(f, i)]}
<1>1. 0 \in N
  <2> DEFINE h == [i \in 0..0 |-> base]
  <2>1. h = [i \in 0..0 |-> F(h, i)]
    OBVIOUS
  <2> QED
    BY <2>1, Zenon
<1>2. ASSUME NEW m \in Nat, m \in N PROVE m + 1 \in N
  <2>1. PICK g : g = [i \in 0..m |-> F(g, i)]
    BY <1>2
  <2> DEFINE h == [i \in 0..(m + 1) |-> IF i \in 0..m THEN g[i] ELSE F(g, i)]
  <2>2. ASSUME NEW i \in 0..(m + 1) PROVE F(h, i) = F(g, i)
    BY <2>2
  <2>3. \A i \in 0..(m + 1) : h[i] = F(g, i)
    BY <2>1
  <2>4. h = [i \in 0..(m + 1) |-> F(h, i)]
    BY <2>2, <2>3
  <2> HIDE DEF h, F
  <2>5. \E f : f = [i \in 0..(m + 1) |-> F(f, i)]
    BY <2>4, Zenon
  <2>6. m + 1 \in Nat
    OBVIOUS
  <2> QED
    BY <2>5, <2>6, Zenon
<1>3. Nat \subseteq N
  BY <1>1, <1>2, NatInductive, Zenon
<1> HIDE DEF F
<1>4. \E f : f = [i \in 0..n |-> F(f, i)]
  BY <1>3, Zenon
<1> QED
  BY <1>4, Zenon DEF F, IsFold

\* What a solution holds, entry by entry.
LEMMA FoldSteps ==
  ASSUME NEW f, NEW kind, NEW above, NEW base, NEW n \in Nat, NEW s,
         IsFold(f, kind, above, base, s, n)
  PROVE  f[0] = base /\ \A i \in 1..n : f[i] = Step(kind, above, f[i - 1], s[i])
<1>1. \A i \in 0..n : f[i] = IF i = 0 THEN base ELSE Step(kind, above, f[i - 1], s[i])
  BY Zenon DEF IsFold
<1> QED
  BY <1>1

\* cache_directory_entries leaves a cache.
LEMMA FillOk ==
  ASSUME CacheOk(Handles!Cache), NEW n \in Nat, NEW s, Len(s) = n,
         \A i \in 1..n : s[i] \in Handles!Paths
  PROVE  CacheOk(Handles!cache_directory_entries(s))
<1>1. PICK f : /\ IsFold(f, "cache", 0, Handles!Cache, s, n)
               /\ Handles!cache_directory_entries(s) = f[n]
  <2>1. \E f : IsFold(f, "cache", 0, Handles!Cache, s, n)
    BY FoldExists, Zenon
  <2> QED
    BY <2>1, FillUnfolds, Zenon
<1>2. f[0] = Handles!Cache
        /\ \A i \in 1..n : f[i] = Handles!insert(f[i - 1], s[i], Truth[s[i]])
  <2>1. f[0] = Handles!Cache /\ \A i \in 1..n : f[i] = Step("cache", 0, f[i - 1], s[i])
    BY <1>1, FoldSteps
  <2> QED
    BY <2>1, Zenon DEF Step
<1> DEFINE N == {m \in Nat : m <= n => CacheOk(f[m])}
<1>3. 0 \in N
  BY <1>2
<1>4. ASSUME NEW m \in Nat, m \in N PROVE m + 1 \in N
  <2> SUFFICES ASSUME m + 1 <= n PROVE CacheOk(f[m + 1])
    OBVIOUS
  <2>1. m + 1 \in 1..n /\ (m + 1) - 1 = m /\ CacheOk(f[m])
    BY <1>4
  <2>2. f[m + 1] = Handles!insert(f[m], s[m + 1], Truth[s[m + 1]])
    BY <1>2, <2>1
  <2> QED
    BY <2>1, <2>2, InsertOk
<1>5. Nat \subseteq N
  <2> HIDE DEF N
  <2> QED
    BY <1>3, <1>4, NatInductive, Zenon
<1> QED
  BY <1>1, <1>5

-----------------------------------------------------------------------------
(* The handles of the Dokan volume.                                        *)

\* An empty cache and no handles.
LEMMA InitDokanOk == Handles!Init => DokanOk
<1> SUFFICES ASSUME Handles!Init PROVE DokanOk
  OBVIOUS
<1>1. CacheOk(Handles!Cache)
  <2> DEFINE e == [p \in {} |-> "missing"]
  <2>1. Handles!Cache = [entries |-> e, order |-> <<>>]
    BY DEF Handles!Init, Handles!Cache
  <2>2. DOMAIN e = {} /\ <<>> \in Seq(Handles!Paths) /\ Len(<<>>) = 0
    OBVIOUS
  <2>3. Len(<<>>) <= Capacity /\ 1..Len(<<>>) = {}
    BY <2>2, CapacityIsPositive
  <2> HIDE DEF e
  <2>4. DOMAIN e = {<<>>[i] : i \in 1..Len(<<>>)}
    BY <2>2, <2>3
  <2> QED
    BY <2>1, <2>2, <2>3, <2>4, CacheOkIntro, Zenon
<1> QED
  BY <1>1 DEF Handles!Init, DokanOk, StepOk

\* A step of one thread that leaves the cache alone.
LEMMA ThreadStep ==
  ASSUME DokanOk, NEW t \in Threads, NEW h, NEW d,
         handle' = [handle EXCEPT ![t] = h], doing' = [doing EXCEPT ![t] = d],
         h = Handles!NoHandle \/ HandleOk(h), StepOk(d, h),
         CacheOk(Handles!Cache)'
  PROVE  DokanOk'
<1>0. handle = [u \in Threads |-> handle[u]] /\ doing = [u \in Threads |-> doing[u]]
  BY DEF DokanOk
<1>1. handle' = [u \in Threads |-> handle'[u]] /\ doing' = [u \in Threads |-> doing'[u]]
  BY <1>0, Zenon
<1>2. ASSUME NEW u \in Threads
      PROVE  /\ handle'[u] = Handles!NoHandle \/ HandleOk(handle'[u])
             /\ StepOk(doing'[u], handle'[u])
  <2>1. CASE u = t
    <3>1. handle'[u] = h /\ doing'[u] = d
      BY <2>1 DEF DokanOk
    <3> QED
      BY <3>1, Zenon
  <2>2. CASE u # t
    <3>1. handle'[u] = handle[u] /\ doing'[u] = doing[u]
      BY <2>2, Zenon DEF DokanOk
    <3> QED
      BY <3>1, Zenon DEF DokanOk
  <2> QED
    BY <2>1, <2>2
<1>3. ASSUME NEW u \in Threads
      PROVE  /\ (handle[u] = Handles!NoHandle \/ HandleOk(handle[u]))'
             /\ StepOk(doing[u], handle[u])'
  BY <1>2 DEF HandleOk, StepOk, Handles!NoHandle, Handles!Idle, Handles!Paths, Truth
<1> QED
  BY <1>1, <1>3 DEF DokanOk

\* The cache is where it was.
LEMMA CacheKept ==
  ASSUME DokanOk, UNCHANGED <<entries, order>>
  PROVE  CacheOk(Handles!Cache)'
<1>1. Handles!Cache' = Handles!Cache
  BY DEF Handles!Cache
<1>2. CacheOk(Handles!Cache')
  BY <1>1 DEF DokanOk
<1> QED
  BY <1>2 DEF CacheOk, Handles!Paths, Truth, Handles!Cache

\* What insert and cache_directory_entries leave is stored.
LEMMA CacheStored ==
  ASSUME NEW c, CacheOk(c), Handles!Store(c)
  PROVE  CacheOk(Handles!Cache)'
<1>1. Handles!Cache' = c
  BY DEF Handles!Store, Handles!Cache, CacheOk
<1>2. CacheOk(Handles!Cache')
  BY <1>1
<1> QED
  BY <1>2, Zenon DEF CacheOk, Handles!Paths, Truth, Handles!Cache

\* A step that leaves the handle, or the operation, of its thread alone.
LEMMA SameHandle ==
  ASSUME DokanOk, NEW t \in Threads
  PROVE  /\ handle = [handle EXCEPT ![t] = handle[t]]
         /\ doing = [doing EXCEPT ![t] = doing[t]]
         /\ handle[t] = Handles!NoHandle \/ HandleOk(handle[t])
         /\ StepOk(doing[t], handle[t])
<1>1. handle = [u \in Threads |-> handle[u]] /\ doing = [u \in Threads |-> doing[u]]
  BY DEF DokanOk
<1>2. /\ handle = [handle EXCEPT ![t] = handle[t]]
      /\ doing = [doing EXCEPT ![t] = doing[t]]
  BY <1>1, Zenon
<1> QED
  BY <1>2 DEF DokanOk

\* The path of a handle made from the cache is there, and is what the cache says.
LEMMA OpenOk ==
  ASSUME DokanOk, NEW t \in Threads, NEW path \in Handles!Paths, Handles!open_path(t, path)
  PROVE  DokanOk'
<1>0. CacheOk(Handles!Cache)'
  BY CacheKept DEF Handles!open_path
<1>1. CASE path \in DOMAIN entries /\ entries[path] = "missing"
  <2>1. handle' = handle /\ doing' = doing
    BY <1>1 DEF Handles!open_path, Handles!FromCache
  <2> QED
    BY <1>0, <2>1, SameHandle, ThreadStep
<1>2. CASE path \in DOMAIN entries /\ entries[path] # "missing"
  <2> DEFINE h == [path |-> path, info |-> entries[path], target |-> "none"]
  <2>1. handle' = [handle EXCEPT ![t] = h] /\ doing' = doing /\ doing[t] = Handles!Idle
    BY <1>2 DEF Handles!open_path, Handles!FromCache
  <2>2. entries[path] = Truth[path]
    BY <1>2 DEF DokanOk, CacheOk, Handles!Cache
  <2>3. HandleOk(h)
    BY <1>2, <2>2, TreeShape DEF HandleOk
  <2>4. StepOk(doing[t], h)
    BY <2>1 DEF StepOk
  <2> HIDE DEF h
  <2> QED
    BY <1>0, <2>1, <2>3, <2>4, SameHandle, ThreadStep, Zenon
<1>3. CASE path \notin DOMAIN entries
  <2> DEFINE d == [step |-> "resolve", path |-> path, for |-> "open"]
  <2>1. handle' = handle /\ doing' = [doing EXCEPT ![t] = d]
    BY <1>3 DEF Handles!open_path
  <2>2. StepOk(d, handle[t])
    BY DEF StepOk
  <2> HIDE DEF d
  <2> QED
    BY <1>0, <2>1, <2>2, SameHandle, ThreadStep, Zenon
<1> QED
  BY <1>1, <1>2, <1>3

\* An operation that is resolving or recording a path.
LEMMA MidStep ==
  ASSUME DokanOk, NEW t \in Threads, doing[t].step \in {"resolve", "record"}
  PROVE  /\ doing[t].path \in Handles!Paths
         /\ doing[t].for \in {"open", "read", "list"}
         /\ doing[t].for # "open" => HandleOk(handle[t]) /\ handle[t].path = doing[t].path
         /\ doing[t].step = "record" => doing[t].result \in {Truth[doing[t].path], "error"}
  BY SameHandle DEF StepOk, Handles!Idle

\* What fs.open answers is true, or an error.
LEMMA ResolveOk ==
  ASSUME DokanOk, NEW t \in Threads, NEW result, Handles!resolve_target(t, result)
  PROVE  DokanOk'
<1> DEFINE d == [step |-> "record", path |-> doing[t].path, for |-> doing[t].for,
                 result |-> result]
<1>1. CacheOk(Handles!Cache)'
  BY CacheKept DEF Handles!resolve_target
<1>2. /\ handle' = handle /\ doing' = [doing EXCEPT ![t] = d] /\ doing[t].step = "resolve"
      /\ result \in {Truth[doing[t].path], "error"}
  BY DEF Handles!resolve_target
<1>3. StepOk(d, handle[t])
  BY <1>2, MidStep DEF StepOk
<1> HIDE DEF d
<1> QED
  BY <1>1, <1>2, <1>3, SameHandle, ThreadStep, Zenon

\* What was learned goes into the cache and the handle, unless it is an error.
LEMMA RecordOk ==
  ASSUME DokanOk, NEW t \in Threads, Handles!record_target(t)
  PROVE  DokanOk'
<1> DEFINE path == doing[t].path
           for == doing[t].for
           result == doing[t].result
           hh == [path |-> path, target |-> result,
                  info |-> IF for = "open" THEN result ELSE handle[t].info]
           After(cont) == IF cont = "open" THEN Handles!Idle ELSE [step |-> cont]
<1>1. /\ path \in Handles!Paths /\ for \in {"open", "read", "list"}
      /\ for # "open" => HandleOk(handle[t]) /\ handle[t].path = path
      /\ result \in {Truth[path], "error"}
  BY MidStep DEF Handles!record_target
<1>2. CacheOk(Handles!Cache)'
  <2>1. CASE result = "error"
    BY <2>1, CacheKept DEF Handles!record_target, Handles!Recorded
  <2>2. CASE result # "error"
    <3> DEFINE c == Handles!insert(Handles!Cache, path, Truth[path])
    <3>1. Handles!Store(c)
      BY <1>1, <2>2 DEF Handles!record_target, Handles!Recorded
    <3>2. CacheOk(c)
      BY <1>1, InsertOk DEF DokanOk
    <3> HIDE DEF c
    <3> QED
      BY <3>1, <3>2, CacheStored, Zenon
  <2> QED
    BY <2>1, <2>2, Zenon
<1>3. \A h : \A cont \in {"open", "read", "list"} : StepOk(After(cont), h)
  BY DEF StepOk
<1>4. CASE result \in {"file", "dir"}
  <2>1. handle' = [handle EXCEPT ![t] = hh] /\ doing' = [doing EXCEPT ![t] = After(for)]
    BY <1>4 DEF Handles!record_target, Handles!Recorded, Handles!After
  <2>2. HandleOk(hh)
    <3>1. result = Truth[path]
      BY <1>1, <1>4
    <3>2. for # "open" => handle[t].info = Truth[path]
      BY <1>1 DEF HandleOk
    <3> HIDE DEF path, for, result
    <3> QED
      BY <1>1, <1>4, <3>1, <3>2, Zenon DEF HandleOk
  <2>3. StepOk(After(for), hh)
    BY <1>1, <1>3
  <2> HIDE DEF hh, After, for
  <2> QED
    BY <1>2, <2>1, <2>2, <2>3, ThreadStep, Zenon
<1>5. CASE result \notin {"file", "dir"}
  <2>1. handle' = handle /\ doing' = [doing EXCEPT ![t] = After("open")]
    BY <1>5 DEF Handles!record_target, Handles!Recorded, Handles!After
  <2>2. StepOk(After("open"), handle[t])
    BY <1>3
  <2> HIDE DEF After
  <2> QED
    BY <1>2, <2>1, <2>2, SameHandle, ThreadStep, Zenon
<1> QED
  BY <1>4, <1>5, Zenon

\* read_file and find_files resolve the target of a handle that has none.
LEMMA UseOk ==
  ASSUME DokanOk, NEW t \in Threads, NEW operation \in {"read", "list"},
         Handles!Use(t, operation)
  PROVE  DokanOk'
<1> DEFINE d == IF handle[t].target = "none"
                THEN [step |-> "resolve", path |-> handle[t].path, for |-> operation]
                ELSE [step |-> operation]
<1>1. CacheOk(Handles!Cache)'
  BY CacheKept DEF Handles!Use
<1>2. handle' = handle /\ doing' = [doing EXCEPT ![t] = d] /\ handle[t] # Handles!NoHandle
  BY DEF Handles!Use
<1>3. HandleOk(handle[t])
  BY <1>2, SameHandle, Zenon
<1>4. StepOk(d, handle[t])
  <2>1. handle[t].path \in Handles!Paths
    BY <1>3 DEF HandleOk
  <2> QED
    BY <1>3, <2>1 DEF StepOk
<1> HIDE DEF d
<1> QED
  BY <1>1, <1>2, <1>4, SameHandle, ThreadStep, Zenon

\* The listing of a directory seeds the cache with what is there.
LEMMA FillDirectoryOk ==
  ASSUME DokanOk, NEW t \in Threads, Handles!fill_directory(t)
  PROVE  DokanOk'
<1>1. /\ handle' = handle /\ doing' = [doing EXCEPT ![t] = Handles!Idle]
  BY DEF Handles!fill_directory
<1>2. CacheOk(Handles!Cache)'
  <2>1. CASE UNCHANGED <<entries, order>>
    BY <2>1, CacheKept
  <2>2. CASE ~UNCHANGED <<entries, order>>
    <3> DEFINE s == Visible[handle[t].path]
               c == Handles!cache_directory_entries(s)
    <3>0. handle[t].target = "dir"
      BY <2>2, Zenon DEF Handles!fill_directory
    <3>1. Handles!Store(c)
      BY <2>2, Zenon DEF Handles!fill_directory
    <3>2. HandleOk(handle[t])
      <4>1. handle[t] # Handles!NoHandle
        BY <3>0, SMTT(20) DEF Handles!NoHandle
      <4> QED
        BY <4>1, SameHandle, Zenon
    <3>3. handle[t].path \in Handles!Paths /\ Truth[handle[t].path] = "dir"
      BY <3>0, <3>2 DEF HandleOk
    <3>4. PICK n \in Nat : DOMAIN s = 1..n /\ \A i \in 1..n : s[i] \in Handles!Paths
      BY <3>3, TreeShape
    <3>7. Len(s) = n
      BY <3>4
    <3>5. CacheOk(Handles!Cache)
      BY DEF DokanOk
    <3> HIDE DEF s
    <3>6. CacheOk(c)
      BY <3>4, <3>5, <3>7, FillOk, Zenon
    <3> HIDE DEF c
    <3> QED
      BY <3>1, <3>6, CacheStored
  <2> QED
    BY <2>1, <2>2
<1>3. StepOk(Handles!Idle, handle[t])
  BY DEF StepOk
<1> QED
  BY <1>1, <1>2, <1>3, SameHandle, ThreadStep, Zenon

\* Every step of a callback thread keeps the invariant.
LEMMA NextDokanOk ==
  ASSUME DokanOk, Handles!Next
  PROVE  DokanOk'
<1>1. PICK t \in Threads :
        \/ \E path \in Handles!Paths : Handles!open_path(t, path)
        \/ \E result \in {"file", "dir", "missing", "error"} : Handles!resolve_target(t, result)
        \/ Handles!record_target(t) \/ Handles!read_target(t) \/ Handles!fill_directory(t)
        \/ Handles!read_file(t) \/ Handles!find_files(t) \/ Handles!close_file(t)
  BY Zenon DEF Handles!Next
<1>2. CASE Handles!read_target(t)
  <2>1. handle' = handle /\ doing' = [doing EXCEPT ![t] = Handles!Idle]
          /\ UNCHANGED <<entries, order>>
    BY <1>2 DEF Handles!read_target
  <2>2. StepOk(Handles!Idle, handle[t])
    BY DEF StepOk
  <2> QED
    BY <2>1, <2>2, CacheKept, SameHandle, ThreadStep, Zenon
<1>3. CASE Handles!close_file(t)
  <2>1. /\ handle' = [handle EXCEPT ![t] = Handles!NoHandle] /\ doing' = doing
        /\ doing[t] = Handles!Idle /\ UNCHANGED <<entries, order>>
    BY <1>3 DEF Handles!close_file
  <2>2. StepOk(doing[t], Handles!NoHandle)
    BY <2>1 DEF StepOk
  <2> QED
    BY <2>1, <2>2, CacheKept, SameHandle, ThreadStep, Zenon
<1>4. CASE Handles!read_file(t) \/ Handles!find_files(t)
  BY <1>4, UseOk DEF Handles!read_file, Handles!find_files
<1> QED
  BY <1>1, <1>2, <1>3, <1>4, OpenOk, ResolveOk, RecordOk, FillDirectoryOk, Zenon

\* The invariant says what AnswersTruthful does.
LEMMA DokanOkSuffices == DokanOk => AnswersTruthful
<1> SUFFICES ASSUME DokanOk PROVE AnswersTruthful
  OBVIOUS
<1> DEFINE c == Handles!Cache
<1>1. c.entries = entries /\ c.order = order /\ CacheOk(c)
  BY DEF Handles!Cache, DokanOk
<1> HIDE DEF c
<1>2. Handles!CacheTruthful
  BY <1>1 DEF Handles!CacheTruthful, CacheOk
<1>3. Handles!HandleTruthful
  <2>1. ASSUME NEW t \in Threads, handle[t] # Handles!NoHandle
        PROVE  /\ handle[t].info = Truth[handle[t].path] /\ handle[t].info # "missing"
               /\ handle[t].target \in {"none", handle[t].info}
    BY <2>1, SameHandle, Zenon DEF HandleOk
  <2> QED
    BY <2>1 DEF Handles!HandleTruthful
<1>4. Handles!CacheBounded
  <2>1. Cardinality(DOMAIN entries) = Len(order)
    BY <1>1, CacheSize
  <2>2. order \in Seq(Handles!Paths) /\ Len(order) <= Capacity
          /\ DOMAIN entries = {order[i] : i \in 1..Len(order)}
    BY <1>1 DEF CacheOk
  <2>3. {order[i] : i \in DOMAIN order} = DOMAIN entries
    BY <2>2
  <2> QED
    BY <2>1, <2>2, <2>3, CacheCardinality, Zenon DEF Handles!CacheBounded
<1> QED
  BY <1>2, <1>3, <1>4 DEF AnswersTruthful

\* What a Dokan volume answers is true, for any tree, any number of callback threads
\* and any capacity of the metadata cache: however the threads interleave between
\* their locks and whichever calls fail, the cache holds for a path what is there, a
\* handle carries the information and the target of its path, and insertion_order
\* lists exactly the cached paths, each once.
THEOREM DokanAnswersTruthful == MountSpec => []AnswersTruthful
<1>1. MountInit => DokanOk
  BY InitDokanOk DEF MountInit
<1>2. DokanOk /\ [MountNext]_mountVars => DokanOk'
  <2> SUFFICES ASSUME DokanOk, [MountNext]_mountVars PROVE DokanOk'
    BY Zenon
  <2>1. CASE UNCHANGED handleVars
    <3>1. UNCHANGED <<entries, order, handle, doing>>
      BY <2>1 DEF handleVars
    <3>2. CacheOk(Handles!Cache)'
      BY <3>1, CacheKept
    <3> QED
      BY <3>1, <3>2 DEF DokanOk, HandleOk, StepOk, Handles!NoHandle, Handles!Idle, Handles!Paths,
           Truth
  <2>2. CASE Handles!Next
    BY <2>2, NextDokanOk
  <2> QED
    BY <2>1, <2>2 DEF MountNext, mountVars
<1> QED
  BY <1>1, <1>2, DokanOkSuffices, PTL DEF MountSpec

-----------------------------------------------------------------------------
(* The inodes of the FUSE volume.                                          *)

\* An inode table: numbers are handed out without a gap, every number but the root's
\* is the entry of by_name for its parent and its last name, and no two numbers have
\* the same path.
TableOk(T) ==
  /\ T = [by_ino |-> T.by_ino, by_name |-> T.by_name, next_ino |-> T.next_ino]
  /\ T.next_ino \in Nat /\ T.next_ino > 1
  /\ DOMAIN T.by_ino = 1..(T.next_ino - 1)
  /\ \A i \in DOMAIN T.by_ino : T.by_ino[i] \in Seq(Names)
  /\ T.by_ino[1] = <<>>
  /\ \A i, j \in DOMAIN T.by_ino : T.by_ino[i] = T.by_ino[j] => i = j
  /\ \A p \in DOMAIN T.by_ino, n \in Names : <<p, n>> \in DOMAIN T.by_name =>
       /\ T.by_name[<<p, n>>] \in DOMAIN T.by_ino
       /\ T.by_ino[T.by_name[<<p, n>>]] = Append(T.by_ino[p], n)
  /\ \A i \in DOMAIN T.by_ino \ {1} : \E p \in DOMAIN T.by_ino, n \in Names :
       <<p, n>> \in DOMAIN T.by_name /\ T.by_name[<<p, n>>] = i
  /\ DOMAIN T.by_name \subseteq (DOMAIN T.by_ino) \X Names

\* Table U has the numbers of table T, each with its path.
Keeps(T, U) ==
  \A i \in DOMAIN T.by_ino : i \in DOMAIN U.by_ino /\ U.by_ino[i] = T.by_ino[i]

\* A directory stream has been given the first offset entries of its directory, all of
\* them once it has ended.
StreamOk(d) ==
  /\ d = [ino |-> d.ino, offset |-> d.offset, got |-> d.got, end |-> d.end]
  /\ d.ino # 0 =>
       /\ d.ino \in DOMAIN by_ino /\ by_ino[d.ino] \in DOMAIN Listing
       /\ LET all == <<".", "..">> \o Listing[by_ino[d.ino]]
          IN  /\ d.offset \in 0..Len(all)
              /\ d.got = SubSeq(all, 1, d.offset)
              /\ d.end \in BOOLEAN /\ (d.end => d.offset = Len(all))

\* The inductive invariant of the callbacks of a FUSE volume.
FuseOk ==
  /\ TableOk(Inodes!Table)
  /\ known \subseteq DOMAIN by_ino
  /\ reader = [r \in Readers |-> reader[r]]
  /\ \A r \in Readers : StreamOk(reader[r])

\* Paths that end in the same name below the same directory are the same.
LEMMA SameParentSameName ==
  ASSUME NEW a \in Seq(Names), NEW b \in Seq(Names), NEW x \in Names, NEW y \in Names,
         Append(a, x) = Append(b, y)
  PROVE  a = b /\ x = y
<1>1. Len(Append(a, x)) = Len(a) + 1 /\ Len(Append(b, y)) = Len(b) + 1
        /\ Len(a) \in Nat /\ Len(b) \in Nat
  OBVIOUS
<1>2. Len(a) = Len(b)
  BY <1>1
<1>3. Append(a, x)[Len(a) + 1] = x /\ Append(b, y)[Len(b) + 1] = y
  OBVIOUS
<1>4. \A i \in 1..Len(a) : Append(a, x)[i] = a[i] /\ Append(b, y)[i] = b[i]
  BY <1>2
<1>5. a = b
  BY <1>2, <1>4
<1> QED
  BY <1>2, <1>3, <1>5

\* A number for a path that had none: the path is new to the table.
LEMMA AllocatedOk ==
  ASSUME NEW T, TableOk(T), NEW p \in DOMAIN T.by_ino, NEW n \in Names,
         <<p, n>> \notin DOMAIN T.by_name
  PROVE  LET U == Inodes!Allocated(T, p, n)
         IN  TableOk(U) /\ Keeps(T, U) /\ <<p, n>> \in DOMAIN U.by_name
<1> DEFINE m == T.next_ino
           path == Append(T.by_ino[p], n)
           key == <<p, n>>
           bi == Inodes!With(T.by_ino, m, path)
           bn == Inodes!With(T.by_name, key, m)
           U == [by_ino |-> bi, by_name |-> bn, next_ino |-> m + 1]
           D == DOMAIN T.by_ino
<1>1. Inodes!Allocated(T, p, n) = U
  BY DEF Inodes!Allocated
<1>2. m \in Nat /\ m > 1 /\ D = 1..(m - 1) /\ m \notin D /\ 1 \in D
  BY DEF TableOk
<1>3. /\ DOMAIN bi = D \cup {m} /\ bi[m] = path /\ \A i \in D : bi[i] = T.by_ino[i]
  <2>1. /\ DOMAIN bi = D \cup {m} /\ bi[m] = path
        /\ \A i \in D \ {m} : bi[i] = T.by_ino[i]
    <3> HIDE DEF path, m
    <3> QED
      BY DEF Inodes!With
  <2> HIDE DEF bi, path, D, m
  <2> QED
    BY <2>1, <1>2
<1>4. /\ DOMAIN bn = DOMAIN T.by_name \cup {key} /\ bn[key] = m
      /\ \A k \in DOMAIN T.by_name : bn[k] = T.by_name[k]
  <2>1. /\ DOMAIN bn = DOMAIN T.by_name \cup {key} /\ bn[key] = m
        /\ \A k \in DOMAIN T.by_name \ {key} : bn[k] = T.by_name[k]
    <3> HIDE DEF key, m
    <3> QED
      BY DEF Inodes!With
  <2>2. key \notin DOMAIN T.by_name
    OBVIOUS
  <2> HIDE DEF bn, key, m
  <2> QED
    BY <2>1, <2>2
<1>5. /\ \A i \in D : T.by_ino[i] \in Seq(Names)
      /\ T.by_ino[1] = <<>>
      /\ \A i, j \in D : T.by_ino[i] = T.by_ino[j] => i = j
      /\ \A q \in D, x \in Names : <<q, x>> \in DOMAIN T.by_name =>
           /\ T.by_name[<<q, x>>] \in D
           /\ T.by_ino[T.by_name[<<q, x>>]] = Append(T.by_ino[q], x)
      /\ \A i \in D \ {1} : \E q \in D, x \in Names :
           <<q, x>> \in DOMAIN T.by_name /\ T.by_name[<<q, x>>] = i
      /\ DOMAIN T.by_name \subseteq D \X Names
  BY Zenon DEF TableOk
<1>6. path \in Seq(Names) /\ path # <<>>
  <2>1. T.by_ino[p] \in Seq(Names) /\ n \in Names
    BY <1>5, Zenon
  <2> QED
    BY <2>1
<1>7. \A j \in D : T.by_ino[j] # path
  <2> SUFFICES ASSUME NEW j \in D, T.by_ino[j] = path PROVE FALSE
    BY Zenon
  <2>1. j # 1
    BY <1>5, <1>6
  <2>2. PICK q \in D, x \in Names : <<q, x>> \in DOMAIN T.by_name /\ T.by_name[<<q, x>>] = j
    BY <2>1, <1>5, Zenon
  <2>3. Append(T.by_ino[q], x) = Append(T.by_ino[p], n)
    BY <2>2, <1>5, Zenon
  <2>4. T.by_ino[q] = T.by_ino[p] /\ x = n
    <3> DEFINE a == T.by_ino[q]
               b == T.by_ino[p]
    <3>1. a \in Seq(Names) /\ b \in Seq(Names) /\ n \in Names
      BY <2>2, <1>5, Zenon
    <3>2. Append(a, x) = Append(b, n)
      BY <2>3, Zenon
    <3> HIDE DEF a, b
    <3>3. a = b /\ x = n
      BY <3>1, <3>2, SameParentSameName
    <3> QED
      BY <3>3, Zenon DEF a, b
  <2>5. q = p
    BY <2>4, <1>5, Zenon
  <2> QED
    BY <2>2, <2>4, <2>5
<1> HIDE DEF path, bi, bn, key, D, m
<1>8. \A i \in DOMAIN bi : bi[i] \in Seq(Names)
  BY <1>3, <1>5, <1>6, Zenon
<1>9. bi[1] = <<>>
  BY <1>2, <1>3, <1>5, Zenon
<1>10. \A i, j \in DOMAIN bi : bi[i] = bi[j] => i = j
  <2> SUFFICES ASSUME NEW i \in DOMAIN bi, NEW j \in DOMAIN bi, bi[i] = bi[j], i # j PROVE FALSE
    BY Zenon
  <2>1. CASE i \in D /\ j \in D
    BY <1>3, <1>5, <2>1, Zenon
  <2>2. CASE i = m \/ j = m
    BY <1>3, <1>7, <2>2, Zenon
  <2> QED
    BY <1>3, <2>1, <2>2, Zenon
<1>11. p \in D /\ key = <<p, n>>
  BY DEF D, key
<1>12. ASSUME NEW q \in DOMAIN bi, NEW x \in Names, <<q, x>> \in DOMAIN bn
       PROVE  bn[<<q, x>>] \in DOMAIN bi /\ bi[bn[<<q, x>>]] = Append(bi[q], x)
  <2>1. CASE <<q, x>> = key
    <3>1. q = p /\ x = n
      BY <2>1, <1>11
    <3>2. bi[q] = T.by_ino[p] /\ bn[<<q, x>>] = m /\ path = Append(T.by_ino[p], n)
      BY <2>1, <3>1, <1>3, <1>4, <1>11, Zenon DEF path
    <3> QED
      BY <3>1, <3>2, <1>3
  <2>2. CASE <<q, x>> # key
    <3>1. <<q, x>> \in DOMAIN T.by_name /\ bn[<<q, x>>] = T.by_name[<<q, x>>]
      BY <2>2, <1>12, <1>4, Zenon
    <3>2. q \in D
      BY <3>1, <1>5
    <3>3. /\ T.by_name[<<q, x>>] \in D
          /\ T.by_ino[T.by_name[<<q, x>>]] = Append(T.by_ino[q], x)
      BY <3>1, <3>2, <1>5, Zenon
    <3>4. bi[q] = T.by_ino[q] /\ bi[T.by_name[<<q, x>>]] = T.by_ino[T.by_name[<<q, x>>]]
      BY <3>2, <3>3, <1>3, Zenon
    <3> QED
      BY <3>1, <3>3, <3>4, <1>3, Zenon
  <2> QED
    BY <2>1, <2>2, Zenon
<1>13. ASSUME NEW i \in DOMAIN bi \ {1}
       PROVE  \E q \in DOMAIN bi, x \in Names : <<q, x>> \in DOMAIN bn /\ bn[<<q, x>>] = i
  <2>1. CASE i = m
    BY <2>1, <1>3, <1>4, <1>11, Zenon
  <2>2. CASE i # m
    <3>1. PICK q \in D, x \in Names : <<q, x>> \in DOMAIN T.by_name /\ T.by_name[<<q, x>>] = i
      BY <2>2, <1>3, <1>5, Zenon
    <3> QED
      BY <3>1, <1>3, <1>4
  <2> QED
    BY <2>1, <2>2, Zenon
<1>14. DOMAIN bn \subseteq (DOMAIN bi) \X Names
  <2>1. DOMAIN bi = D \cup {m} /\ DOMAIN bn = DOMAIN T.by_name \cup {key}
    BY <1>3, <1>4, Zenon
  <2>2. D \X Names \subseteq (D \cup {m}) \X Names
    OBVIOUS
  <2>3. key \in (D \cup {m}) \X Names
    BY <1>11, Zenon
  <2> QED
    BY <1>5, <2>1, <2>2, <2>3, Zenon
<1>15. DOMAIN bi = 1..((m + 1) - 1) /\ m + 1 \in Nat /\ m + 1 > 1
  BY <1>2, <1>3, SMTT(20)
<1>16. U.by_ino = bi /\ U.by_name = bn /\ U.next_ino = m + 1
  OBVIOUS
<1>17. U = [by_ino |-> U.by_ino, by_name |-> U.by_name, next_ino |-> U.next_ino]
  OBVIOUS
<1> HIDE DEF U
<1>18. TableOk(U)
  <2>1. \A q \in DOMAIN bi, x \in Names : <<q, x>> \in DOMAIN bn =>
          bn[<<q, x>>] \in DOMAIN bi /\ bi[bn[<<q, x>>]] = Append(bi[q], x)
    BY <1>12, Zenon
  <2>2. \A i \in DOMAIN bi \ {1} : \E q \in DOMAIN bi, x \in Names :
          <<q, x>> \in DOMAIN bn /\ bn[<<q, x>>] = i
    BY <1>13, Zenon
  <2>3. /\ U.next_ino \in Nat /\ U.next_ino > 1
        /\ DOMAIN U.by_ino = 1..(U.next_ino - 1)
    BY <1>15, <1>16
  <2>4. /\ \A i \in DOMAIN U.by_ino : U.by_ino[i] \in Seq(Names)
        /\ U.by_ino[1] = <<>>
        /\ \A i, j \in DOMAIN U.by_ino : U.by_ino[i] = U.by_ino[j] => i = j
        /\ DOMAIN U.by_name \subseteq (DOMAIN U.by_ino) \X Names
    BY <1>8, <1>9, <1>10, <1>14, <1>16, Zenon
  <2>5. \A q \in DOMAIN U.by_ino, x \in Names : <<q, x>> \in DOMAIN U.by_name =>
          /\ U.by_name[<<q, x>>] \in DOMAIN U.by_ino
          /\ U.by_ino[U.by_name[<<q, x>>]] = Append(U.by_ino[q], x)
    BY <2>1, <1>16, Zenon
  <2>6. \A i \in DOMAIN U.by_ino \ {1} : \E q \in DOMAIN U.by_ino, x \in Names :
          <<q, x>> \in DOMAIN U.by_name /\ U.by_name[<<q, x>>] = i
    BY <2>2, <1>16, ZenonT(40)
  <2> QED
    BY <1>17, <2>3, <2>4, <2>5, <2>6, Zenon DEF TableOk
<1>19. Keeps(T, U)
  BY <1>3, <1>16 DEF Keeps, D
<1>20. <<p, n>> \in DOMAIN U.by_name
  BY <1>4, <1>11, <1>16
<1> QED
  BY <1>1, <1>18, <1>19, <1>20, Zenon

\* Looking a name up numbers it and leaves every other number alone.
LEMMA LookupOk ==
  ASSUME NEW T, TableOk(T), NEW p \in DOMAIN T.by_ino, NEW n \in Names
  PROVE  LET U == Inodes!lookup_or_insert(T, p, n)
         IN  TableOk(U) /\ Keeps(T, U) /\ <<p, n>> \in DOMAIN U.by_name
<1>1. CASE <<p, n>> \in DOMAIN T.by_name
  <2>1. Inodes!lookup_or_insert(T, p, n) = T
    BY <1>1 DEF Inodes!lookup_or_insert
  <2> QED
    BY <1>1, <2>1 DEF Keeps
<1>2. CASE <<p, n>> \notin DOMAIN T.by_name
  <2>1. Inodes!lookup_or_insert(T, p, n) = Inodes!Allocated(T, p, n)
    BY <1>2 DEF Inodes!lookup_or_insert
  <2> QED
    BY <1>2, <2>1, AllocatedOk, Zenon
<1> QED
  BY <1>1, <1>2

\* Listing a directory numbers its entries one after another, which keeps the table.
LEMMA NumberAllOk ==
  ASSUME TableOk(Inodes!Table), NEW above \in DOMAIN by_ino, NEW s \in Seq(Names)
  PROVE  LET U == Inodes!NumberAll(above, s)
         IN  TableOk(U) /\ Keeps(Inodes!Table, U)
<1> DEFINE n == Len(s)
           Good(U) == TableOk(U) /\ Keeps(Inodes!Table, U)
<1>1. PICK f : /\ IsFold(f, "inodes", above, Inodes!Table, s, n)
               /\ Inodes!NumberAll(above, s) = f[n]
  <2>1. \E f : IsFold(f, "inodes", above, Inodes!Table, s, n)
    BY Len(s) \in Nat, FoldExists, Zenon
  <2> QED
    BY <2>1, NumberUnfolds, Zenon
<1>2. n \in Nat /\ \A i \in 1..n : s[i] \in Names
  OBVIOUS
<1>3. f[0] = Inodes!Table
        /\ \A i \in 1..n : f[i] = Inodes!lookup_or_insert(f[i - 1], above, s[i])
  <2> HIDE DEF n
  <2>1. f[0] = Inodes!Table /\ \A i \in 1..n : f[i] = Step("inodes", above, f[i - 1], s[i])
    BY <1>1, <1>2, FoldSteps, SMTT(20)
  <2>2. "inodes" # "cache"
    OBVIOUS
  <2> QED
    BY <2>1, <2>2, Zenon DEF Step
<1> HIDE DEF n
<1> DEFINE N == {m \in Nat : m <= n => Good(f[m])}
<1>4. 0 \in N
  BY <1>3 DEF Keeps
<1>5. ASSUME NEW m \in Nat, m \in N PROVE m + 1 \in N
  <2> SUFFICES ASSUME m + 1 <= n PROVE Good(f[m + 1])
    OBVIOUS
  <2> DEFINE before == f[m]
  <2>1. m + 1 \in 1..n /\ (m + 1) - 1 = m /\ Good(before)
    BY <1>2, <1>5, SMTT(20)
  <2>2. f[m + 1] = Inodes!lookup_or_insert(before, above, s[m + 1]) /\ s[m + 1] \in Names
    BY <1>2, <1>3, <2>1
  <2>3. above \in DOMAIN before.by_ino
    <3>1. Inodes!Table.by_ino = by_ino
      BY DEF Inodes!Table
    <3> QED
      BY <2>1, <3>1 DEF Keeps
  <2>4. TableOk(f[m + 1]) /\ Keeps(before, f[m + 1])
    <3> HIDE DEF before
    <3> QED
      BY <2>1, <2>2, <2>3, LookupOk, Zenon
  <2> HIDE DEF before
  <2> QED
    BY <2>1, <2>4 DEF Keeps
<1>6. Nat \subseteq N
  <2> HIDE DEF N
  <2> QED
    BY <1>4, <1>5, NatInductive
<1>7. Good(f[n])
  BY <1>2, <1>6, SMTT(20)
<1> QED
  BY <1>1, <1>7, Zenon

\* The empty table of a fresh mount.
LEMMA InitFuseOk ==
  ASSUME Inodes!Init
  PROVE  FuseOk
<1>1. /\ by_ino = [i \in {1} |-> <<>>] /\ by_name = [k \in {} |-> 1] /\ next_ino = 2
      /\ known = {1} /\ reader = [r \in Readers |-> Inodes!NotReading]
  BY SMTT(20) DEF Inodes!Init, Inodes!ROOT_INO, Inodes!FirstFree
<1>2. TableOk(Inodes!Table)
  BY <1>1, SMTT(20) DEF TableOk, Inodes!Table
<1>3. \A r \in Readers : StreamOk(reader[r])
  BY <1>1 DEF StreamOk, Inodes!NotReading
<1> QED
  BY <1>1, <1>2, <1>3 DEF FuseOk

\* A stream stays as it is while the table keeps its numbers.
LEMMA StreamKept ==
  ASSUME Keeps(Inodes!Table, Inodes!Table'), NEW r, StreamOk(reader[r]),
         reader'[r] = reader[r]
  PROVE  StreamOk(reader[r])'
<1>1. \A i \in DOMAIN by_ino : i \in DOMAIN by_ino' /\ by_ino'[i] = by_ino[i]
  BY DEF Keeps, Inodes!Table
<1> QED
  BY <1>1, Zenon DEF StreamOk

\* The names a directory stream shows.
Shown == Names \cup {".", ".."}

\* The part of a sequence between two of its places.
LEMMA PieceOf ==
  ASSUME NEW s \in Seq(Shown), NEW m \in Nat, NEW n \in Nat, m > 0, n <= Len(s),
         m <= n + 1, NEW p, p = SubSeq(s, m, n)
  PROVE  p \in Seq(Shown) /\ Len(p) = n - m + 1 /\ \A i \in 1..(n - m + 1) : p[i] = s[m + i - 1]
  OBVIOUS

\* The second part of a concatenation.
LEMMA SecondPart ==
  ASSUME NEW s \in Seq(Shown), NEW t \in Seq(Shown), NEW i \in 1..Len(t)
  PROVE  (s \o t)[Len(s) + i] = t[i]
  OBVIOUS

\* The page `readdir` adds.
PageOf(all, skip, fits) ==
  SubSeq(all, skip + 1, IF skip + fits < Len(all) THEN skip + fits ELSE Len(all))

\* When two sequences are the same, what is empty, and what a whole piece is.
LEMMA ShownSequences ==
  ASSUME NEW s \in Seq(Shown)
  PROVE  /\ \A t \in Seq(Shown) : Len(s) = Len(t) /\ (\A i \in 1..Len(s) : s[i] = t[i]) => s = t
         /\ s = <<>> => Len(s) = 0
         /\ s # <<>> => Len(s) \in Nat \ {0}
         /\ SubSeq(s, 1, Len(s)) = s
  OBVIOUS

\* A page goes on where the stream is, is not empty before the end of the directory,
\* and leaves the stream with a longer prefix.
LEMMA PageOk ==
  ASSUME NEW all \in Seq(Shown), NEW skip \in 0..Len(all), NEW fits \in 1..2
  PROVE  LET page == PageOf(all, skip, fits) IN
         /\ Len(page) \in Nat /\ skip + Len(page) \in 0..Len(all)
         /\ SubSeq(all, 1, skip) \o page = SubSeq(all, 1, skip + Len(page))
         /\ (page = <<>>) => skip = Len(all) /\ Len(page) = 0
         /\ (page # <<>>) => Len(page) > 0
<1> DEFINE page == PageOf(all, skip, fits)
           hi == IF skip + fits < Len(all) THEN skip + fits ELSE Len(all)
<1>1. hi \in Nat /\ skip <= hi /\ hi <= Len(all) /\ (skip < Len(all) => skip < hi)
  OBVIOUS
<1> HIDE DEF hi, page
<1>2. page = SubSeq(all, skip + 1, hi)
  BY DEF hi, page, PageOf
<1>3. page \in Seq(Shown) /\ Len(page) = hi - skip /\ \A i \in 1..Len(page) : page[i] = all[skip + i]
  <2> DEFINE m == skip + 1
  <2>1. m \in Nat /\ m > 0 /\ hi \in Nat /\ hi <= Len(all) /\ m <= hi + 1
          /\ page = SubSeq(all, m, hi)
    BY <1>1, <1>2
  <2>2. hi - m + 1 = hi - skip /\ \A i \in Nat : m + i - 1 = skip + i
    BY <1>1, SMTT(20)
  <2> HIDE DEF m
  <2>3. page \in Seq(Shown) /\ Len(page) = hi - m + 1
          /\ \A i \in 1..(hi - m + 1) : page[i] = all[m + i - 1]
    BY <2>1, PieceOf
  <2>4. Len(page) = hi - skip
    BY <2>2, <2>3, Zenon
  <2>5. ASSUME NEW i \in 1..Len(page) PROVE page[i] = all[skip + i]
    <3>1. i \in 1..(hi - m + 1)
      BY <2>3, <2>5, Zenon
    <3>2. m + i - 1 = skip + i
      BY <2>2, <3>1, <1>1, SMTT(20)
    <3> QED
      BY <2>3, <3>1, <3>2, Zenon
  <2> QED
    BY <2>3, <2>4, <2>5, Zenon
<1> DEFINE got == SubSeq(all, 1, skip)
<1>4. got \in Seq(Shown) /\ Len(got) = skip /\ \A i \in 1..skip : got[i] = all[i]
  OBVIOUS
<1>5. /\ SubSeq(all, 1, hi) \in Seq(Shown) /\ Len(SubSeq(all, 1, hi)) = hi
      /\ \A i \in 1..hi : SubSeq(all, 1, hi)[i] = all[i]
  BY <1>1
<1> HIDE DEF got
<1>6. /\ got \o page \in Seq(Shown) /\ Len(got \o page) = hi
      /\ \A i \in 1..hi : (got \o page)[i] = all[i]
  <2>1. got \o page \in Seq(Shown) /\ Len(got \o page) = hi
    <3>1. Len(page) = hi - skip /\ Len(got) = skip /\ page \in Seq(Shown) /\ got \in Seq(Shown)
      BY <1>3, <1>4
    <3>2. got \o page \in Seq(Shown) /\ Len(got \o page) = Len(got) + Len(page)
      BY <3>1, SMTT(20)
    <3> QED
      BY <1>1, <3>1, <3>2, SMTT(20)
  <2>2. ASSUME NEW i \in 1..skip PROVE (got \o page)[i] = all[i]
    BY <1>1, <1>3, <1>4, SMTT(20)
  <2>3. ASSUME NEW i \in (skip + 1)..hi PROVE (got \o page)[i] = all[i]
    <3> DEFINE j == i - skip
    <3>1. j \in 1..Len(page) /\ Len(got) + j = i /\ skip + j = i
      <4>1. Len(page) = hi - skip /\ Len(got) = skip
        BY <1>3, <1>4
      <4> QED
        BY <1>1, <4>1, SMTT(20)
    <3> HIDE DEF j
    <3>2. (got \o page)[Len(got) + j] = page[j] /\ page[j] = all[skip + j]
      BY <1>3, <1>4, <3>1, SecondPart, Zenon
    <3> QED
      BY <3>1, <3>2
  <2> QED
    BY <2>1, <2>2, <2>3, <1>1, SMTT(20)
<1>7. got \o page = SubSeq(all, 1, hi)
  <2> DEFINE x == got \o page
             y == SubSeq(all, 1, hi)
  <2>1. x \in Seq(Shown) /\ y \in Seq(Shown) /\ Len(x) = Len(y) /\ \A i \in 1..Len(x) : x[i] = y[i]
    BY <1>5, <1>6, Zenon
  <2> HIDE DEF x, y
  <2>2. x = y
    BY <2>1, ShownSequences
  <2> QED
    BY <2>2 DEF x, y
<1>8. skip + Len(page) = hi
  BY <1>1, <1>3
<1>9. (page = <<>> => Len(page) = 0) /\ (page # <<>> => Len(page) \in Nat \ {0})
  BY <1>3, ShownSequences
<1>10. SubSeq(all, 1, skip) \o page = SubSeq(all, 1, skip + Len(page))
  BY <1>7, <1>8 DEF got
<1>11. Len(page) = 0 => skip = Len(all)
  BY <1>1, <1>8, SMTT(20)
<1>12. Len(page) \in Nat /\ skip + Len(page) \in 0..Len(all)
  BY <1>1, <1>3, <1>8, SMTT(20)
<1>13. (page = <<>> => skip = Len(all) /\ Len(page) = 0)
  BY <1>9, <1>11, Zenon
<1>14. (page # <<>> => Len(page) > 0)
  BY <1>9
<1> QED
  BY <1>10, <1>12, <1>13, <1>14, Zenon DEF page

\* What a directory stream gives has its two dots.
LEMMA AllOk ==
  ASSUME NEW d \in DOMAIN Listing
  PROVE  <<".", "..">> \o Listing[d] \in Seq(Shown)
<1>1. Listing[d] \in Seq(Names)
  BY ListingAssumption
<1>2. Listing[d] \in Seq(Shown) /\ <<".", "..">> \in Seq(Shown)
  BY <1>1 DEF Shown
<1> QED
  BY <1>2

\* A lookup keeps the invariant.
LEMMA LookupStep ==
  ASSUME FuseOk, NEW above \in known, NEW name \in Names, Inodes!lookup(above, name)
  PROVE  FuseOk' /\ Keeps(Inodes!Table, Inodes!Table')
<1> DEFINE U == Inodes!lookup_or_insert(Inodes!Table, above, name)
<1>1. above \in DOMAIN Inodes!Table.by_ino /\ TableOk(Inodes!Table)
  BY DEF FuseOk, Inodes!Table
<1>2. TableOk(U) /\ Keeps(Inodes!Table, U) /\ <<above, name>> \in DOMAIN U.by_name
  BY <1>1, LookupOk, Zenon
<1>3. /\ by_ino' = U.by_ino /\ by_name' = U.by_name /\ next_ino' = U.next_ino
      /\ known' = known \/ known' = known \cup {U.by_name[<<above, name>>]}
      /\ reader' = reader
  BY DEF Inodes!lookup, Inodes!Commit
<1> HIDE DEF U
<1>4. Inodes!Table' = U
  BY <1>2, <1>3 DEF Inodes!Table, TableOk
<1>5. above \in DOMAIN U.by_ino /\ known \subseteq DOMAIN U.by_ino
  BY <1>1, <1>2, Zenon DEF Keeps, FuseOk, Inodes!Table
<1>6. U.by_name[<<above, name>>] \in DOMAIN U.by_ino
  BY <1>2, <1>5 DEF TableOk
<1>7. TableOk(Inodes!Table)' /\ Keeps(Inodes!Table, Inodes!Table')
  BY <1>2, <1>4
<1>8. known' \subseteq DOMAIN by_ino'
  BY <1>3, <1>5, <1>6, Zenon
<1>9. \A r \in Readers : StreamOk(reader[r])'
  BY <1>3, <1>7, StreamKept DEF FuseOk
<1> QED
  BY <1>3, <1>7, <1>8, <1>9, Zenon DEF FuseOk

\* A page of a directory keeps the invariant.
LEMMA ReaddirStep ==
  ASSUME FuseOk, NEW r \in Readers, NEW fits \in 1..2, Inodes!readdir(r, fits)
  PROVE  FuseOk' /\ Keeps(Inodes!Table, Inodes!Table')
<1> DEFINE ino   == reader[r].ino
           names == Listing[by_ino[ino]]
           all   == <<".", "..">> \o names
           skip  == reader[r].offset
           page  == SubSeq(all, skip + 1, IF skip + fits < Len(all) THEN skip + fits
                                          ELSE Len(all))
           U     == Inodes!NumberAll(ino, names)
<1>1. /\ ino # 0 /\ by_ino' = U.by_ino /\ by_name' = U.by_name /\ next_ino' = U.next_ino
      /\ known' = known
      /\ reader' = [reader EXCEPT ![r].got = @ \o page,
                      ![r].offset = IF page = <<>> THEN @ ELSE skip + Len(page) - 1 + 1,
                      ![r].end = (page = <<>>)]
  BY Zenon DEF Inodes!readdir, Inodes!Commit, Inodes!next_offset
<1>2. /\ ino \in DOMAIN by_ino /\ by_ino[ino] \in DOMAIN Listing
      /\ skip \in 0..Len(all) /\ reader[r].got = SubSeq(all, 1, skip)
  BY <1>1, Zenon DEF FuseOk, StreamOk
<1>3. names \in Seq(Names) /\ all \in Seq(Shown)
  BY <1>2, ListingAssumption, AllOk
<1>4. TableOk(U) /\ Keeps(Inodes!Table, U)
  BY <1>2, <1>3, NumberAllOk, ZenonT(40) DEF FuseOk
<1> HIDE DEF U
<1>5. Inodes!Table' = U
  BY <1>1, <1>4, Zenon DEF Inodes!Table, TableOk
<1>6. TableOk(Inodes!Table)' /\ Keeps(Inodes!Table, Inodes!Table')
  BY <1>4, <1>5, Zenon
<1>7. \A i \in DOMAIN by_ino : i \in DOMAIN by_ino' /\ by_ino'[i] = by_ino[i]
  BY <1>6 DEF Keeps, Inodes!Table
<1>8. known' \subseteq DOMAIN by_ino'
  BY <1>1, <1>7, Zenon DEF FuseOk
<1>9. reader = [x \in Readers |-> reader[x]]
        /\ reader[r] = [ino |-> ino, offset |-> skip, got |-> reader[r].got, end |-> reader[r].end]
  BY DEF FuseOk, StreamOk
<1> HIDE DEF names, all, page, skip, ino
<1>10. /\ reader' = [x \in Readers |-> reader'[x]]
       /\ \A x \in Readers \ {r} : reader'[x] = reader[x]
       /\ reader'[r] = [ino |-> ino,
                        offset |-> IF page = <<>> THEN skip ELSE skip + Len(page) - 1 + 1,
                        got |-> reader[r].got \o page, end |-> (page = <<>>)]
  <2> DEFINE o == IF page = <<>> THEN skip ELSE skip + Len(page) - 1 + 1
             e == (page = <<>>)
             g == reader[r].got \o page
  <2>1. reader' = [reader EXCEPT ![r].got = g, ![r].offset = o, ![r].end = e]
    BY <1>1 DEF skip
  <2> HIDE DEF o, e, g
  <2>2. /\ reader' = [x \in Readers |-> reader'[x]]
        /\ \A x \in Readers \ {r} : reader'[x] = reader[x]
        /\ reader'[r] = [ino |-> ino, offset |-> o, got |-> g, end |-> e]
    <3>1. reader'[r] = [reader[r] EXCEPT !.got = g, !.offset = o, !.end = e]
      BY <1>9, <2>1
    <3>3. reader'[r] = [ino |-> ino, offset |-> o, got |-> g, end |-> e]
      <4> DEFINE a1 == [reader[r] EXCEPT !.got = g]
                 a2 == [a1 EXCEPT !.offset = o]
      <4>1. a1 = [ino |-> ino, offset |-> skip, got |-> g, end |-> reader[r].end]
        BY <1>9
      <4>2. a2 = [a1 EXCEPT !.offset = o] /\ reader'[r] = [a2 EXCEPT !.end = e]
        BY <3>1
      <4> HIDE DEF a1, a2
      <4>3. a2 = [ino |-> ino, offset |-> o, got |-> g, end |-> reader[r].end]
        BY <4>1, <4>2
      <4>4. reader'[r] = [[ino |-> ino, offset |-> o, got |-> g, end |-> reader[r].end]
                            EXCEPT !.end = e]
        BY <4>2, <4>3, Zenon
      <4>5. \A x : [[ino |-> ino, offset |-> o, got |-> g, end |-> x] EXCEPT !.end = e]
              = [ino |-> ino, offset |-> o, got |-> g, end |-> e]
        OBVIOUS
      <4> QED
        BY <4>4, <4>5, Zenon
    <3>4. reader' = [x \in Readers |-> reader'[x]]
      BY <1>9, <2>1, Zenon
    <3>5. \A x \in Readers \ {r} : reader'[x] = reader[x]
      BY <1>9, <2>1
    <3> QED
      BY <3>3, <3>4, <3>5
  <2> QED
    BY <2>2 DEF o, e, g
<1>11. /\ Len(page) \in Nat /\ skip + Len(page) \in 0..Len(all)
       /\ SubSeq(all, 1, skip) \o page = SubSeq(all, 1, skip + Len(page))
       /\ (page = <<>>) => skip = Len(all) /\ Len(page) = 0
       /\ (page # <<>>) => Len(page) > 0
  <2>1. page = PageOf(all, skip, fits)
    BY DEF page, PageOf
  <2> QED
    BY <1>2, <1>3, <2>1, PageOk, Zenon
<1>12. (IF page = <<>> THEN skip ELSE skip + Len(page) - 1 + 1) = skip + Len(page)
  BY <1>2, <1>11, SMTT(20)
<1>13. reader'[r] = [ino |-> ino, offset |-> skip + Len(page),
                     got |-> SubSeq(all, 1, skip + Len(page)), end |-> (page = <<>>)]
  BY <1>2, <1>10, <1>11, <1>12, Zenon
<1>14. all = <<".", "..">> \o Listing[by_ino'[ino]] /\ ino \in DOMAIN by_ino'
         /\ by_ino'[ino] \in DOMAIN Listing
  BY <1>2, <1>7 DEF all, names
<1>15. StreamOk(reader[r])'
  <2> DEFINE d == reader'[r]
             o == skip + Len(page)
             g == SubSeq(all, 1, o)
             e == (page = <<>>)
  <2>1. d = [ino |-> ino, offset |-> o, got |-> g, end |-> e]
    BY <1>13, Zenon
  <2>2. o \in 0..Len(all) /\ g = SubSeq(all, 1, o) /\ e \in BOOLEAN /\ (e => o = Len(all))
    <3>1. e \in BOOLEAN
      BY Zenon
    <3>2. e => o = Len(all)
      <4> SUFFICES ASSUME page = <<>> PROVE skip + Len(page) = Len(all)
        BY Zenon
      <4>1. skip = Len(all) /\ Len(page) = 0
        BY <1>11, Zenon
      <4> QED
        BY <1>2, <4>1, SMTT(20)
    <3> QED
      BY <1>11, <3>1, <3>2, Zenon
  <2> HIDE DEF d, o, g, e
  <2>3. d.ino = ino /\ d.offset = o /\ d.got = g /\ d.end = e
          /\ d = [ino |-> d.ino, offset |-> d.offset, got |-> d.got, end |-> d.end]
    BY <2>1
  <2> QED
    BY <1>14, <2>2, <2>3, Zenon DEF StreamOk, d
<1>16. \A x \in Readers \ {r} : StreamOk(reader[x])'
  BY <1>6, <1>10, StreamKept, Zenon DEF FuseOk
<1> QED
  BY <1>6, <1>8, <1>10, <1>15, <1>16, ZenonT(40) DEF FuseOk

\* Every callback of the FUSE volume keeps the invariant and every number's path.
LEMMA NextFuseOk ==
  ASSUME FuseOk, Inodes!Next
  PROVE  FuseOk' /\ Keeps(Inodes!Table, Inodes!Table')
<1>1. CASE \E above \in known, name \in Names : Inodes!lookup(above, name)
  BY <1>1, LookupStep
<1>2. CASE \E r \in Readers : \E fits \in 1..2 : Inodes!readdir(r, fits)
  BY <1>2, ReaddirStep
<1>3. ASSUME NEW r \in Readers, NEW d, reader' = [reader EXCEPT ![r] = d],
             UNCHANGED <<by_ino, by_name, next_ino, known>>, StreamOk(d)
      PROVE  FuseOk' /\ Keeps(Inodes!Table, Inodes!Table')
  <2>1. Inodes!Table' = Inodes!Table /\ Keeps(Inodes!Table, Inodes!Table')
    BY <1>3 DEF Inodes!Table, Keeps
  <2>2. /\ reader' = [x \in Readers |-> reader'[x]] /\ reader'[r] = d
        /\ \A x \in Readers \ {r} : reader'[x] = reader[x]
    BY <1>3, Zenon DEF FuseOk
  <2>3. StreamOk(reader[r])'
    BY <1>3, <2>2 DEF StreamOk
  <2>4. \A x \in Readers \ {r} : StreamOk(reader[x])'
    BY <2>1, <2>2, StreamKept DEF FuseOk
  <2>5. TableOk(Inodes!Table)' /\ known' \subseteq DOMAIN by_ino'
    BY <1>3, <2>1 DEF FuseOk
  <2> QED
    BY <2>1, <2>2, <2>3, <2>4, <2>5, Zenon DEF FuseOk
<1>4. CASE \E r \in Readers : \E ino \in known : Inodes!opendir(r, ino)
  <2>1. PICK r \in Readers, ino \in known : Inodes!opendir(r, ino)
    BY <1>4, Zenon
  <2> DEFINE d == [ino |-> ino, offset |-> 0, got |-> <<>>, end |-> FALSE]
  <2>2. /\ reader' = [reader EXCEPT ![r] = d] /\ by_ino[ino] \in DOMAIN Listing
        /\ UNCHANGED <<by_ino, by_name, next_ino, known>>
    BY <2>1 DEF Inodes!opendir, Inodes!Dirs
  <2>3. ino \in DOMAIN by_ino
    BY Zenon DEF FuseOk
  <2>4. <<".", "..">> \o Listing[by_ino[ino]] \in Seq(Shown)
    BY <2>2, AllOk, Zenon
  <2>5. StreamOk(d)
    BY <2>2, <2>3, <2>4, SMTT(20) DEF StreamOk
  <2> HIDE DEF d
  <2> QED
    BY <1>3, <2>2, <2>5, Zenon
<1>5. CASE \E r \in Readers : Inodes!releasedir(r)
  <2>1. PICK r \in Readers : Inodes!releasedir(r)
    BY <1>5, Zenon
  <2>2. StreamOk(Inodes!NotReading)
    BY DEF StreamOk, Inodes!NotReading
  <2> QED
    BY <1>3, <2>1, <2>2, Zenon DEF Inodes!releasedir
<1> QED
  BY <1>1, <1>2, <1>4, <1>5, Zenon DEF Inodes!Next

\* A step of the mount is one of the FUSE callbacks or leaves the table and the streams.
LEMMA MountStepFuse == FuseOk /\ [MountNext]_mountVars
                         => FuseOk' /\ Keeps(Inodes!Table, Inodes!Table')
<1> SUFFICES ASSUME FuseOk, [MountNext]_mountVars
             PROVE  FuseOk' /\ Keeps(Inodes!Table, Inodes!Table')
  OBVIOUS
<1>1. CASE UNCHANGED inodeVars
  <2>1. UNCHANGED <<by_ino, by_name, next_ino, known, reader>>
    BY <1>1 DEF inodeVars
  <2>2. Inodes!Table' = Inodes!Table
    BY <2>1 DEF Inodes!Table
  <2>3. Keeps(Inodes!Table, Inodes!Table')
    BY <2>2 DEF Keeps
  <2>4. \A r \in Readers : StreamOk(reader[r])'
    BY <2>1, <2>3, StreamKept DEF FuseOk
  <2> QED
    BY <2>1, <2>2, <2>3, <2>4, Zenon DEF FuseOk
<1>2. CASE Inodes!Next
  BY <1>2, NextFuseOk
<1> QED
  BY <1>1, <1>2 DEF MountNext, mountVars

\* The invariant says what StreamsAreWhole does.
LEMMA StreamsFromInv == FuseOk => StreamsAreWhole
<1> SUFFICES ASSUME FuseOk, NEW r \in Readers, reader[r].ino # 0
             PROVE  LET all == <<".", "..">> \o Listing[by_ino[reader[r].ino]]
                    IN  /\ \E n \in 0..Len(all) : reader[r].got = SubSeq(all, 1, n)
                        /\ reader[r].end => reader[r].got = all
  BY ZenonT(40) DEF StreamsAreWhole, Inodes!StreamsAreWhole
<1> DEFINE all == <<".", "..">> \o Listing[by_ino[reader[r].ino]]
           o == reader[r].offset
           g == reader[r].got
<1>1. /\ o \in 0..Len(all) /\ g = SubSeq(all, 1, o)
      /\ reader[r].end => o = Len(all)
  BY DEF FuseOk, StreamOk
<1>2. all \in Seq(Shown)
  BY AllOk, Zenon DEF FuseOk, StreamOk
<1> HIDE DEF all, o, g
<1>5. \E n \in 0..Len(all) : g = SubSeq(all, 1, n)
  BY <1>1, Zenon
<1>6. o = Len(all) => g = all
  BY <1>1, <1>2, ShownSequences
<1> QED
  BY <1>1, <1>5, <1>6, ZenonT(40) DEF all, o, g

\* `readdir`, called page by page with other callbacks of the mount in between, gives a
\* directory stream every entry exactly once and in order, however many streams are open.
THEOREM FuseStreamsAreWhole == MountSpec => []StreamsAreWhole
<1>1. MountInit => FuseOk
  BY InitFuseOk DEF MountInit
<1> QED
  BY <1>1, MountStepFuse, StreamsFromInv, PTL DEF MountSpec

\* The inode table of a FUSE mount never has two numbers for a path, looked up or listed
\* by any stream, and no number ever changes its path (`lookup_or_insert`).
THEOREM FuseInodesAreIdentities == MountSpec => InodesAreIdentities
<1>1. MountInit => FuseOk
  BY InitFuseOk DEF MountInit
<1>2. FuseOk => Inodes!OneInodePerPath
  BY Zenon DEF FuseOk, TableOk, Inodes!Table, Inodes!OneInodePerPath
<1>3. FuseOk /\ [MountNext]_mountVars
        => [\A i \in DOMAIN by_ino : i \in DOMAIN by_ino' /\ by_ino'[i] = by_ino[i]]_Inodes!vars
  BY MountStepFuse DEF Keeps, Inodes!Table
<1> QED
  BY <1>1, <1>2, <1>3, MountStepFuse, PTL
     DEF MountSpec, InodesAreIdentities, Inodes!InodeKeepsItsPath

-----------------------------------------------------------------------------
(* The command and the volume together.                                    *)

\* A behaviour of the composed machine is the life of a mount or the callbacks of a
\* volume that is served; the callbacks leave the mount as it is.
LEMMA MountStepMounts == [MountNext]_mountVars => [Next]_vars
  BY DEF MountNext, mountVars

\* So the composed machine keeps what MountBackend promises: `mount` has unmounted its
\* volume by the time it returns, and Dokan's `unmount` reports that nothing is mounted
\* only when nothing is.
THEOREM ServedResultsAreTrue == MountSpec => []ResultsAreTrue
<1>1. MountInit => IInv
  BY InitInv DEF MountInit
<1> QED
  BY <1>1, MountStepMounts, ResultsFromInv, NextInv, PTL DEF MountSpec

\* And a FUSE mount leaves its loop without a signal only when its volume is no longer
\* mounted.
THEOREM ServedEndsOnlyWhenGone == MountSpec => EndsOnlyWhenGone
<1>1. MountInit => IInv
  BY InitInv DEF MountInit
<1> QED
  BY <1>1, MountStepMounts, StepStays, NextInv, PTL
     DEF MountSpec, Stays, EndsOnlyWhenGone, Fuse!EndsOnlyWhenGone

=============================================================================
