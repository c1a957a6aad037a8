--------------------------- MODULE ExtentSurgery ----------------------------
(***************************************************************************)
(* The edits fast-commit replay makes to one file's extent tree            *)
(* (journal/fast_commit/extents): `add_range` maps a run of logical blocks *)
(* to physical ones, `del_range` unmaps a run.  Both edit the tree in      *)
(* place, grow it once when a leaf is full and then try again.             *)
(*                                                                         *)
(* A surgery works on a record                                             *)
(*   [root, node, alloc, freed, used]                                      *)
(* where root is the inode's inline node, node the content of the external *)
(* leaf blocks, alloc the allocation units set in the block bitmap, and    *)
(* freed and used the units the group tally counts.  Trees have at most    *)
(* MaxDepth = 1 index levels here (MAX_EXTENT_DEPTH is 5 in the code): a   *)
(* full index root halts the growth as it does in the code at the limit.   *)
(* Checksums, generations and the byte layout of nodes are left out.       *)
(***************************************************************************)
EXTENDS Integers, FiniteSets, SequencesExt

CONSTANTS
  Blocks,           \* the file system's block numbers
  Ratio,            \* blocks_per_cluster
  RootMax,          \* records of the inline root: 4 in the code
  LeafMax,          \* records of an external leaf: 83 or more in the code
  MaxInitialized,   \* MAX_INITIALIZED_EXTENT_LEN
  MaxUnwritten      \* MAX_UNWRITTEN_EXTENT_LEN

\* An external leaf is so much larger than the root that one growth is enough.
ASSUME LeafIsLarger == LeafMax >= RootMax + 2 /\ LeafMax >= 4
ASSUME BlocksAreNumbered == Blocks \subseteq Nat /\ Ratio \in Nat \ {0}

MaxDepth == 1
None == -1

(***************************************************************************)
(* Leaf records.                                                           *)
(***************************************************************************)
LeafRecord(logical, len, pblk, unwritten) ==
  [logical |-> logical, len |-> len, pblk |-> pblk, unwritten |-> unwritten]

logical_end(r) == r.logical + r.len

extent_len_encodes(len, unwritten) ==
  len > 0 /\ len <= IF unwritten THEN MaxUnwritten ELSE MaxInitialized

can_merge(left, right) ==
  /\ left.unwritten = right.unwritten
  /\ logical_end(left) = right.logical
  /\ left.pblk + left.len = right.pblk
  /\ extent_len_encodes(left.len + right.len, left.unwritten)
  /\ Ratio > 1 => left.pblk % Ratio = 0 /\ right.pblk % Ratio = 0

merge_records_keeps_len(left, right) == left
merge_records(left, right) == [left EXCEPT !.len = @ + right.len]

coalesce_records(records) ==
  FoldLeft(LAMBDA out, r : IF out # <<>> /\ can_merge(Last(out), r)
                           THEN Append(Front(out), merge_records(Last(out), r))
                           ELSE Append(out, r),
           <<>>, records)

(***************************************************************************)
(* `edit_leaf`: the result of adding new to a leaf of at most max records, *)
(* with the blocks it stops using.  bound is the first logical block of    *)
(* the leaf's right neighbour.                                             *)
(***************************************************************************)
Edit(kind, records, pblk, len) ==
  [kind |-> kind, records |-> records, pblk |-> pblk, len |-> len]
LeafFull == Edit("LeafFull", <<>>, 0, 0)
StructurallyUnsupported == Edit("StructurallyUnsupported", <<>>, 0, 0)
Unchanged == Edit("Unchanged", <<>>, 0, 0)

Piece(r, from, to) ==
  IF from < to THEN <<[r EXCEPT !.logical = from, !.len = to - from,
                                !.pblk = @ + (from - r.logical)]>>
               ELSE <<>>

\* What a record that replaces a part of another one releases.
free_old_physical(old, new, at) ==
  [pblk |-> at, len |-> IF at # new.pblk THEN new.len ELSE 0]

edit_mapped_record(records, max, idx, new) ==
  LET old == records[idx]
      newEnd == logical_end(new)
      at == old.pblk + (new.logical - old.logical)
      free == free_old_physical(old, new, at)
      patched == coalesce_records(
                   SubSeq(records, 1, idx - 1) \o Piece(old, old.logical, new.logical)
                   \o <<new>> \o Piece(old, newEnd, logical_end(old))
                   \o SubSeq(records, idx + 1, Len(records)))
  IN IF newEnd > logical_end(old) THEN StructurallyUnsupported
     ELSE IF at = new.pblk /\ old.unwritten = new.unwritten THEN Unchanged
     ELSE IF Len(patched) > max THEN LeafFull
     ELSE Edit("Patched", patched, free.pblk, free.len)

\* A record merged with its left neighbour may then touch the right one.
insert_record(records, max, pos, new) ==
  LET n == Len(records)
      mergesLeft == pos > 1 /\ can_merge(records[pos - 1], new)
      merged == IF mergesLeft THEN merge_records(records[pos - 1], new) ELSE new
      mergesRight == pos <= n /\ can_merge(merged, records[pos])
      all == SubSeq(records, 1, pos - (IF mergesLeft THEN 2 ELSE 1))
             \o <<IF mergesRight THEN merge_records(merged, records[pos]) ELSE merged>>
             \o SubSeq(records, pos + (IF mergesRight THEN 1 ELSE 0), n)
  IN IF ~mergesLeft /\ ~mergesRight /\ n >= max THEN LeafFull
     ELSE Edit("Patched", all, 0, 0)

BeyondLeaf(new, bound) == bound # None /\ logical_end(new) > bound

edit_leaf(records, max, new, bound) ==
  LET idx == SelectInSeq(records, LAMBDA r : new.logical < logical_end(r))
  IN IF BeyondLeaf(new, bound) THEN StructurallyUnsupported
     ELSE IF idx = 0 THEN insert_record(records, max, Len(records) + 1, new)
     ELSE IF new.logical >= records[idx].logical
     THEN edit_mapped_record(records, max, idx, new)
     ELSE IF logical_end(new) > records[idx].logical THEN StructurallyUnsupported
     ELSE insert_record(records, max, idx, new)

(***************************************************************************)
(* The block bitmap: one bit for each cluster of Ratio blocks.             *)
(***************************************************************************)
Unit(b) == b \div Ratio
Units == {Unit(b) : b \in Blocks}
Run(pblk, len) == pblk .. (pblk + len - 1)
UnitsOf(bs) == {Unit(b) : b \in bs}

mark_free(s, bs) ==
  [s EXCEPT !.alloc = @ \ UnitsOf(bs), !.freed = @ + Cardinality(s.alloc \cap UnitsOf(bs))]

FreeUnits(s) == Units \ s.alloc
\* allocate_metadata_block: the first clear bit.
Lowest(us) == CHOOSE u \in us : \A v \in us : u <= v
allocate_grow_block(s) ==
  LET unit == Lowest(FreeUnits(s))
  IN [block |-> unit * Ratio,
      s |-> [s EXCEPT !.alloc = @ \cup {unit}, !.used = @ + 1]]

(***************************************************************************)
(* The tree.  location 0 is the inline root, location k its k-th child.    *)
(***************************************************************************)
Child(logical, child) == [logical |-> logical, child |-> child]
LeafRoot(records) == [depth |-> 0, records |-> records, kids |-> <<>>]
IndexRoot(kids) == [depth |-> 1, records |-> <<>>, kids |-> kids]

choose_child_entry(kids, logical) ==
  LET k == SelectLastInSeq(kids, LAMBDA c : c.logical <= logical)
  IN IF k = 0 THEN 1 ELSE k

find_target_leaf(s, logical) ==
  IF s.root.depth = 0 THEN 0 ELSE choose_child_entry(s.root.kids, logical)
LeafAt(s, k) == IF k = 0 THEN s.root.records ELSE s.node[s.root.kids[k].child]
successor_logical_bound(s, k) ==
  IF k > 0 /\ k < Len(s.root.kids) THEN s.root.kids[k + 1].logical ELSE None

\* A leaf whose first record changed has its key in the root changed.
patch_leaf_keeps_key(s, k, records) ==
  IF k = 0 THEN [s EXCEPT !.root.records = records]
  ELSE [s EXCEPT !.node[s.root.kids[k].child] = records]
patch_leaf(s, k, records) ==
  IF k = 0 THEN [s EXCEPT !.root.records = records]
  ELSE [s EXCEPT !.node[s.root.kids[k].child] = records,
                 !.root.kids[k].logical =
                   IF LeafAt(s, k) # <<>> /\ LeafAt(s, k)[1].logical = records[1].logical
                   THEN @ ELSE records[1].logical]

\* grew: the tree was grown, and the edit tried once more.
Outcome(out, end, s) == [out |-> out, end |-> end, s |-> s, grew |-> FALSE]

try_add_range_in_place(s, new) ==
  LET k == find_target_leaf(s, new.logical)
      e == edit_leaf(LeafAt(s, k), IF k = 0 THEN RootMax ELSE LeafMax, new,
                     successor_logical_bound(s, k))
  IN CASE e.kind = "Unchanged" -> Outcome("Applied", 0, s)
       [] e.kind = "LeafFull" -> Outcome("NeedsGrow", 0, s)
       [] e.kind = "StructurallyUnsupported" -> Outcome("RequiresMetadataAllocation", 0, s)
       [] e.kind = "Patched" ->
            Outcome("Applied", 0, patch_leaf(mark_free(s, Run(e.pblk, e.len)), k, e.records))

(***************************************************************************)
(* Growing: a full root leaf moves into a block of its own, a full         *)
(* external leaf is split in two.  When the root has no room for the new   *)
(* child the upper half of the leaf is already gone from the tree: the     *)
(* caller drops the whole transaction.                                     *)
(***************************************************************************)
insert_index_record_sorted(kids, new) ==
  LET k == SelectInSeq(kids, LAMBDA c : c.logical >= new.logical)
  IN InsertAt(kids, IF k = 0 THEN Len(kids) + 1 ELSE k, new)

grow_root_leaf(s) ==
  LET a == allocate_grow_block(s)
  IN [a.s EXCEPT !.node[a.block] = s.root.records,
                 !.root = IndexRoot(<<Child(s.root.records[1].logical, a.block)>>)]

SplitPoint(records) == Len(records) \div 2

\* The tree with its k-th leaf split; its root may have a child too many.
split_leaf(s, k) ==
  LET a == allocate_grow_block(s)
      records == LeafAt(s, k)
      mid == SplitPoint(records)
      high == SubSeq(records, mid + 1, Len(records))
  IN [a.s EXCEPT !.node[s.root.kids[k].child] = SubSeq(records, 1, mid),
                 !.node[a.block] = high,
                 !.root.kids = insert_index_record_sorted(@, Child(high[1].logical, a.block))]

grow_for_add(s, logical) ==
  LET k == find_target_leaf(s, logical)
      split == split_leaf(s, k)
  IN IF FreeUnits(s) = {} THEN Outcome("Err", 0, s)
     ELSE IF k = 0 THEN Outcome("Grown", 0, grow_root_leaf(s))
     ELSE IF Len(s.root.kids) < RootMax THEN Outcome("Grown", 0, split)
     ELSE Outcome("RequiresMetadataAllocation", 0, [split EXCEPT !.root = s.root])

add_range(s, new) ==
  LET first == try_add_range_in_place(s, new)
      grown == grow_for_add(s, new.logical)
      second == try_add_range_in_place(grown.s, new)
  IN IF Ratio > 1 /\ new.pblk % Ratio # 0 THEN Outcome("Failed", 0, s)
     ELSE IF ~extent_len_encodes(new.len, new.unwritten) THEN Outcome("Failed", 0, s)
     ELSE IF first.out # "NeedsGrow" THEN first
     ELSE IF grown.out # "Grown" THEN grown
     ELSE [second EXCEPT !.out = IF @ = "NeedsGrow" THEN "RequiresMetadataAllocation" ELSE @,
                         !.grew = TRUE]

(***************************************************************************)
(* `del_range`.  range is [start, end), end exclusive.                     *)
(***************************************************************************)
Least(a, b) == IF a <= b THEN a ELSE b
Greatest(a, b) == IF a >= b THEN a ELSE b

delete_record_overlap(r, range) ==
  Piece(r, r.logical, Least(logical_end(r), range.start))
  \o Piece(r, Greatest(r.logical, range.end), logical_end(r))

\* Where no range covers a record, what the leaf keeps is the record itself.
Replacement(records, range) ==
  coalesce_records(FlattenSeq([i \in DOMAIN records |->
                                 delete_record_overlap(records[i], range)]))

FreeRanges(records, range) ==
  UNION {Range(Piece(r, Greatest(r.logical, range.start), Least(logical_end(r), range.end)))
         : r \in Range(records)}

Touched(s, range) ==
  {k \in DOMAIN s.root.kids :
     /\ range.end > s.root.kids[k].logical
     /\ k < Len(s.root.kids) => range.start < s.root.kids[k + 1].logical}

\* The leaves after the deletion, those outside the range as they are.
LeavesAfter(s, range) ==
  IF s.root.depth = 0 THEN <<Replacement(s.root.records, range)>>
  ELSE [k \in DOMAIN s.root.kids |->
          IF k \in Touched(s, range) THEN Replacement(LeafAt(s, k), range) ELSE LeafAt(s, k)]

Leaves(s) ==
  IF s.root.depth = 0 THEN <<s.root.records>> ELSE [k \in DOMAIN s.root.kids |-> LeafAt(s, k)]

AllFreed(s, range) ==
  IF s.root.depth = 0 THEN FreeRanges(s.root.records, range)
  ELSE UNION {FreeRanges(LeafAt(s, k), range) : k \in Touched(s, range)}

DataBlocks(records) == UNION {Run(r.pblk, r.len) : r \in records}

validate_bigalloc_del_frees(freed, surviving) ==
  Ratio > 1 =>
    /\ \A f \in freed : f.pblk % Ratio = 0 /\ f.len % Ratio = 0
    /\ UnitsOf(DataBlocks(freed)) \cap UnitsOf(DataBlocks(surviving)) = {}

\* The tree once the emptied leaves are out of it, and their blocks.
EmptiedBlocks(s, leaves) ==
  {s.root.kids[k].child : k \in {j \in DOMAIN s.root.kids : leaves[j] = <<>>}}

SurvivingKids(s, range, leaves) ==
  LET kept == SelectSeq([k \in DOMAIN leaves |-> k], LAMBDA k : leaves[k] # <<>>)
      kid(k) == IF k \in Touched(s, range)
                THEN Child(leaves[k][1].logical, s.root.kids[k].child) ELSE s.root.kids[k]
  IN [i \in DOMAIN kept |-> kid(kept[i])]

TreeAfter(s, range, leaves) ==
  IF s.root.depth = 0 THEN [s EXCEPT !.root.records = leaves[1]]
  ELSE LET kids == SurvivingKids(s, range, leaves)
           block(k) == s.root.kids[k].child
       IN [s EXCEPT !.root = IF kids = <<>> THEN LeafRoot(<<>>) ELSE IndexRoot(kids),
                    !.node = [b \in DOMAIN @ |->
                                IF \E k \in DOMAIN leaves : block(k) = b /\ leaves[k] # <<>>
                                THEN leaves[CHOOSE k \in DOMAIN leaves : block(k) = b]
                                ELSE @[b]]]

LastEnd(leaves) ==
  LET records == UNION {Range(l) : l \in Range(leaves)}
  IN IF records = {} THEN 0
     ELSE CHOOSE e \in {logical_end(r) : r \in records} :
            \A r \in records : logical_end(r) <= e

apply_delete_edit(s, range) ==
  LET leaves == LeavesAfter(s, range)
      freed == AllFreed(s, range)
      emptied == EmptiedBlocks(s, leaves)
  IN IF ~validate_bigalloc_del_frees(freed, UNION {Range(l) : l \in Range(leaves)})
     THEN Outcome("Failed", 0, s)
     ELSE IF leaves = Leaves(s) /\ freed = {} THEN Outcome("Applied", 0, s)
     ELSE Outcome("AppliedNeedsShrink", LastEnd(leaves),
                  mark_free(TreeAfter(s, range, leaves), DataBlocks(freed) \cup emptied))

Overflows(s, range) ==
  \E l \in Range(LeavesAfter(s, range)) :
    Len(l) > IF s.root.depth = 0 THEN RootMax ELSE LeafMax

del_range(s, range) ==
  LET grown == grow_for_add(s, range.start)
  IN IF ~Overflows(s, range) THEN apply_delete_edit(s, range)
     ELSE IF grown.out # "Grown" THEN grown
     ELSE IF Overflows(grown.s, range)
     THEN [Outcome("RequiresMetadataAllocation", 0, grown.s) EXCEPT !.grew = TRUE]
     ELSE apply_delete_edit(grown.s, range)

\* The logical-to-physical mapping a tree stands for.
Mapping(s) ==
  UNION {{<<r.logical + i, r.pblk + i, r.unwritten>> : i \in 0 .. r.len - 1}
         : r \in UNION {Range(l) : l \in Range(Leaves(s))}}

\* The blocks of the tree's own external nodes.
NodeBlocks(s) == {s.root.kids[k].child : k \in DOMAIN s.root.kids}
=============================================================================
