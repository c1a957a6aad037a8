---------------------------- MODULE ExtentReplay ----------------------------
(***************************************************************************)
(* One file's extent tree under any sequence of ADD_RANGE and DEL_RANGE    *)
(* records, each the only record of a replay: an edit that is not applied  *)
(* drops the scratch it worked on, and the last pass marks the blocks of   *)
(* the edited file.  map is what the records say, kept beside the tree.    *)
(*                                                                         *)
(* The blocks the records map lie apart from GrowBlocks, the free blocks   *)
(* new tree nodes are taken from; what happens when they do not is the     *)
(* subject of FastCommitApply.                                             *)
(***************************************************************************)
EXTENDS ExtentSurgery

CONSTANTS
  Adds,         \* the extents of the ADD_RANGE records
  Dels,         \* the ranges of the DEL_RANGE records
  GrowBlocks    \* the blocks free at the start

VARIABLES
  s,       \* the tree and its bitmap
  map,     \* what the records say: <<logical, physical, unwritten>>
  lost,    \* units in use that the last edit released
  stuck    \* whether a growth was not enough for the last edit

treeVars == <<s, map, lost, stuck>>

TreeInit ==
  /\ s = [root |-> LeafRoot(<<>>), node |-> [b \in Blocks |-> <<>>],
          alloc |-> {}, freed |-> 0, used |-> 0]
  /\ map = {} /\ lost = {} /\ stuck = FALSE

Used(t) == UnitsOf({m[2] : m \in Mapping(t)} \cup NodeBlocks(t))
\* The last pass marks what the file uses.  The tallies end with the replay, and
\* the content of a block that is out of the tree is not read again.
mark_in_use(t, used) ==
  [t EXCEPT !.alloc = @ \cup used, !.freed = 0, !.used = 0,
            !.node = [b \in Blocks |-> IF b \in NodeBlocks(t) THEN @[b] ELSE <<>>]]
Unmapped(from, to) == {t \in map : t[1] < from \/ t[1] >= to}

\* An edit that is not applied leaves the tree as it was.  A unit that it releases
\* while the edited tree uses it could be taken by a growth later in the same
\* transaction.
Settle(o, mapped) ==
  LET used == Used(o.s)
      done == o.out \in {"Applied", "AppliedNeedsShrink"}
  IN  /\ s' = IF done THEN mark_in_use(o.s, used) ELSE s
      /\ map' = IF done THEN mapped ELSE map
      /\ lost' = (s.alloc \ o.s.alloc) \cap used
      /\ stuck' = (o.grew /\ ~done)

AddRange(new) ==
  Settle(add_range(s, new),
         Unmapped(new.logical, logical_end(new))
           \cup {<<new.logical + i, new.pblk + i, new.unwritten>> : i \in 0 .. new.len - 1})

DelRange(range) == Settle(del_range(s, range), Unmapped(range.start, range.end))

(***************************************************************************)
(* Properties.                                                             *)
(***************************************************************************)
\* The tree maps what the records say and nothing else, whatever merges,
\* splits, growths and removals of nodes add_range and del_range went through.
MapsTheRecords == Mapping(s) = map

Sorted(records) ==
  \A i \in 1 .. Len(records) - 1 : logical_end(records[i]) <= records[i + 1].logical

\* The tree stays one that find_target_leaf and choose_child_entry can search:
\* every leaf is sorted, keyed by its first block, ends before the next key and
\* within its node's capacity, and no two children are one block.
TreeIsSearchable ==
  /\ Len(s.root.records) <= RootMax /\ Len(s.root.kids) <= RootMax
  /\ \A k \in DOMAIN Leaves(s) :
       /\ Sorted(Leaves(s)[k]) /\ Len(Leaves(s)[k]) <= LeafMax
       /\ \A r \in Range(Leaves(s)[k]) : extent_len_encodes(r.len, r.unwritten)
  /\ \A k \in DOMAIN s.root.kids :
       /\ LeafAt(s, k) # <<>> /\ LeafAt(s, k)[1].logical = s.root.kids[k].logical
       /\ k < Len(s.root.kids) =>
            logical_end(Last(LeafAt(s, k))) <= s.root.kids[k + 1].logical
  /\ Cardinality(NodeBlocks(s)) = Len(s.root.kids)

\* No edit releases a unit that the edited tree still uses, for data or for a
\* node; and after a replay the bitmap has exactly the units the file uses: an edit
\* releases all it unmaps and every emptied leaf, and the growths leak nothing.
EditsAccounted == lost = {} /\ s.alloc = Used(s)

\* "A single grow always creates enough room": no edit needs a second one.
OneGrowIsEnough == ~stuck
=============================================================================
