--------------------------- MODULE MCOrphanReplay ---------------------------
(***************************************************************************)
(* Three files that share an attribute block and a value inode, each free, *)
(* live, unlinked or truncating, on either list; and one file whose block  *)
(* map ranges over small extent trees and pointer maps, truncated to every *)
(* size.                                                                   *)
(***************************************************************************)
EXTENDS OrphanReplay

CONSTANT Kinds   \* which of the families of volumes below

Rec(l, n, p) == [logical |-> l, len |-> n, pblk |-> p]
Idx(l, b) == [at |-> l, child |-> b]
Leaf(recs) == [depth |-> 0, recs |-> recs]
Tree(kind, root, nodes) == [kind |-> kind, root |-> root, nodes |-> nodes]
FlatTree(recs) == Tree("extents", Leaf(recs), <<>>)

\* Blocks 2-5, 6-13 and 36-52; the attribute block is 16 and the value is at 18.
TreeOf(i, bpc) ==
  CASE i = 1 -> FlatTree(<<Rec(0, 4, 2)>>)
    [] i = 2 -> Tree("extents", [depth |-> 1, recs |-> <<Idx(0, 6), Idx(2, 8)>>],
                     (6 :> Leaf(<<Rec(0, 2, 10)>>)) @@ (8 :> Leaf(<<Rec(2, 1, 12)>>)))
    [] i = 3 /\ bpc = 1 ->
         Tree("pointers", [direct |-> <<36>>, roots |-> <<38, 40, 0>>],
              (38 :> <<42, 0>>) @@ (40 :> <<44, 0>>) @@ (44 :> <<46, 48>>))
    [] i = 3 /\ bpc = 2 -> FlatTree(<<Rec(0, 2, 36), Rec(4, 2, 40)>>)

File(st, on, size, tree) ==
  [st |-> st, on |-> on, x |-> FALSE, ea |-> FALSE, dir |-> FALSE, size |-> size,
   tree |-> tree]
Absent == File("free", {}, 0, FlatTree(<<>>))
\* i_block holds the file's bytes, which read as a pointer name a block of file 1.
InlineTree == Tree("raw", [direct |-> <<4>>, roots |-> <<0, 0, 0>>], <<>>)

Menu(i, bpc, lists, sizes) ==
  LET t == TreeOf(i, bpc) IN
  {Absent, File("live", {}, 8, t)}
  \cup (IF i = 2 THEN {File("unlinked", l, 1, InlineTree) : l \in lists} ELSE {})
  \cup {File("unlinked", l, 8, t) : l \in lists}
  \cup {File("truncating", l, s, t) : l \in lists, s \in sizes}

\* Which files use the attribute block and which the value inode.
Sharing == {<<{}, {}>>, <<{1, 2, 3}, {}>>, <<{1, 3}, {1, 2}>>, <<{}, {1, 2, 3}>>}
Shared(f, share) ==
  [i \in Files |-> [f[i] EXCEPT !.x = f[i].st # "free" /\ i \in share[1],
                                !.ea = f[i].st # "free" /\ i \in share[2],
                                !.dir = i = 1 /\ f[i].st = "unlinked"]]
Volume(f, share, present, bpc, late, damage) ==
  [file |-> Shared(f, share), present |-> present, bpc |-> bpc, late |-> late,
   damage |-> damage]
Assign(a, b, c) == (1 :> a) @@ (2 :> b) @@ (3 :> c)

Mixed ==
  {Volume(Assign(a, b, c), share, TRUE, 1, late, "none") :
     a \in Menu(1, 1, {{"L"}, {"F"}}, {3}), b \in Menu(2, 1, {{"L"}, {"F"}}, {4}),
     c \in Menu(3, 1, {{"L"}, {"F"}}, {2}),
     share \in Sharing, late \in {{}, {2}}}
Bigalloc ==
  {Volume(Assign(a, b, c), share, TRUE, 2, {}, "none") :
     a \in Menu(1, 2, {{"L"}}, {0, 3}), b \in Menu(2, 2, {{"F"}}, {4, 5}),
     c \in Menu(3, 2, {{"L", "F"}}, {1, 9}), share \in Sharing}
Quiet ==
  {Volume(Assign(a, b, Absent), share, FALSE, 1, late, "none") :
     a \in Menu(1, 1, {}, {}), b \in Menu(2, 1, {}, {}), share \in Sharing, late \in {{}, {2}}}
Damaged ==
  {Volume(Assign(a, b, c), <<{1, 2, 3}, {1, 2, 3}>>, TRUE, 1, {}, damage) :
     a \in Menu(1, 1, {{"L"}}, {3}), b \in Menu(2, 1, {{"L"}, {"F"}}, {4}),
     c \in {Absent, File("live", {}, 8, TreeOf(3, 1))},
     damage \in {"cycle", "range", "slot", "tail", "eaFlag", "eaZero", "eaLow", "eaSize",
                 "eaHash", "eaNested", "xZero", "xLow", "xHigh", "xSound"}}

\* Volumes on which the code and what is said of it part: a list that nothing
\* announces, and descriptors that the journal rewrote.
Unannounced ==
  {Volume(Assign(a, Absent, Absent), <<{}, {}>>, FALSE, 1, {}, "none") :
     a \in Menu(1, 1, {{"L"}}, {3})}
Rewritten ==
  {Volume(Assign(a, b, Absent), <<{}, {}>>, TRUE, 1, {2}, "none") :
     a \in Menu(1, 1, {{"F"}}, {3}), b \in Menu(2, 1, {{"F"}}, {4})}
\* One file that is being truncated.  Extents over six blocks, in a leaf, under
\* an index, or under two.
RecordLists ==
  {<<Rec(0, 6, 2)>>, <<Rec(1, 2, 2), Rec(3, 3, 6)>>, <<Rec(0, 1, 2), Rec(4, 1, 6)>>,
   <<Rec(0, 2, 4), Rec(2, 2, 8), Rec(4, 2, 2)>>}
DeepTrees(recs) ==
  LET n == Len(recs)
      leaf(k) == Leaf(SubSeq(recs, k, k))
      index(k) == Idx(recs[k].logical, 40 + 2 * k)
      leaves == [b \in {40 + 2 * k : k \in 1 .. n} |-> leaf((b - 40) \div 2)]
  IN  {Tree("extents", Leaf(recs), <<>>),
       Tree("extents", [depth |-> 1, recs |-> [k \in 1 .. n |-> index(k)]], leaves),
       Tree("extents", [depth |-> 2, recs |-> <<Idx(recs[1].logical, 50)>>
                                      \o (IF n = 1 THEN <<>> ELSE <<Idx(recs[2].logical, 52)>>)],
            (50 :> [depth |-> 1, recs |-> <<index(1)>>])
            @@ (IF n = 1 THEN <<>>
                ELSE 52 :> [depth |-> 1, recs |-> [k \in 1 .. n - 1 |-> index(k + 1)]])
            @@ leaves)}

\* A pointer map of the logical blocks in S, of the fifteen that one direct
\* pointer and three levels of two reach.
PointerTree(S) ==
  LET data(l) == IF l \in S THEN 20 + l ELSE 0
      under(first, n, b) == IF \E l \in first .. first + n - 1 : l \in S THEN b ELSE 0
      pair(first) == <<data(first), data(first + 1)>>
      node == (40 :> pair(1))
              @@ (41 :> <<under(3, 2, 42), under(5, 2, 43)>>) @@ (42 :> pair(3)) @@ (43 :> pair(5))
              @@ (44 :> <<under(7, 4, 45), under(11, 4, 46)>>)
              @@ (45 :> <<under(7, 2, 47), under(9, 2, 48)>>)
              @@ (46 :> <<under(11, 2, 49), under(13, 2, 50)>>)
              @@ (47 :> pair(7)) @@ (48 :> pair(9)) @@ (49 :> pair(11)) @@ (50 :> pair(13))
      used == {b \in DOMAIN node : node[b] # <<0, 0>>}
  IN  Tree("pointers", [direct |-> <<data(0)>>,
                        roots |-> <<under(1, 2, 40), under(3, 4, 41), under(7, 8, 44)>>],
           [b \in used |-> node[b]])

Alone(tree, size, bpc) ==
  Volume(Assign(File("truncating", {"L"}, size, tree), Absent, Absent), <<{}, {}>>, TRUE, bpc,
         {}, "none")
Truncated ==
  {Alone(t, size, 1) : t \in UNION {DeepTrees(recs) : recs \in RecordLists}, size \in 0 .. 13}
  \cup {Alone(t, size, 2) :
          t \in DeepTrees(<<Rec(0, 2, 4), Rec(2, 2, 8), Rec(4, 2, 2)>>), size \in 0 .. 13}
  \cup {Alone(PointerTree(S), size, 1) :
          S \in {0 .. 14, {0, 2, 5, 10, 13}, {4, 6, 7}, {1, 3, 11, 14}, {12}},
          size \in 0 .. 31}

Families ==
  [mixed |-> Mixed, bigalloc |-> Bigalloc, quiet |-> Quiet, damaged |-> Damaged,
   truncated |-> Truncated, unannounced |-> Unannounced, rewritten |-> Rewritten]
MCVolumes == UNION {Families[k] : k \in Kinds}
=============================================================================
