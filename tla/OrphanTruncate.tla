--------------------------- MODULE OrphanTruncate ---------------------------
(***************************************************************************)
(* Completing an interrupted truncate (fs-ext orphan/truncate): the walks  *)
(* that split a file's block map at a cutoff into what is freed and what   *)
(* survives.  A map is an extent tree or the classic ext2 pointer array.   *)
(*                                                                         *)
(* A node of an extent tree is [depth, recs]: records                      *)
(* [logical, len, pblk] in a leaf, [at, child] in an index.  A block of    *)
(* pointers is a sequence of PPB block numbers, 0 for a hole.  The reader  *)
(* is a function from block numbers to such contents.  The unwritten flag, *)
(* the checksums and the byte layout of nodes are left out.                *)
(***************************************************************************)
EXTENDS Integers, FiniteSets, SequencesExt

CONSTANTS
  NDirect,   \* direct pointers of an inode: 12 in the code
  PPB        \* pointers in a block: block_size / 4

ASSUME PointersArePositive == NDirect \in Nat /\ PPB \in Nat \ {0}

NoNode == [depth |-> -1, recs |-> <<>>]

(***************************************************************************)
(* Runs of blocks to free.  A data run knows the logical cluster it starts *)
(* at, which `free_allocations` uses to find two maps of one cluster.      *)
(***************************************************************************)
DataRun(start, len, lc) ==
  [start |-> start, len |-> len, kind |-> "Data", lc |-> lc]
MetadataRun(block) ==
  [start |-> block, len |-> 1, kind |-> "Metadata", lc |-> 0]
RunBlocks(run) == run.start .. run.start + run.len - 1
BlocksOf(runs) == UNION {RunBlocks(run) : run \in runs}

\* The first logical cluster that is freed.
retain_cutoff_floors(size, cluster_size) == size \div cluster_size
retain_cutoff_logical_cluster(size, cluster_size) ==
  IF size = 0 THEN 0 ELSE (size - 1) \div cluster_size + 1

(***************************************************************************)
(* Extent trees.  p is [cut, bpc]: the first block to free, a multiple of  *)
(* the blocks per cluster bpc.                                             *)
(***************************************************************************)
NodeResult(freed, meta, data, survivor, patches, err) ==
  [freed |-> freed, meta |-> meta, data |-> data, survivor |-> survivor,
   patches |-> patches, err |-> err]

SumLen(recs) == FoldLeft(LAMBDA n, r : n + r.len, 0, recs)

\* `finish_extent_leaf`/`finish_extent_index`: a node on disk with nothing left
\* is freed with its records.
Finish(this, depth, recs, freed, patches, meta, data) ==
  IF recs = <<>>
  THEN NodeResult(freed \cup (IF this = 0 THEN {} ELSE {MetadataRun(this)}),
                  0, 0, NoNode, patches, FALSE)
  ELSE NodeResult(freed, meta + (IF this = 0 THEN 0 ELSE 1), data,
                  [depth |-> depth, recs |-> recs], patches, FALSE)

walk_extent_leaf(p, node, this) ==
  LET cut == p.cut \div p.bpc
      past(r) == r.logical \div p.bpc >= cut
      before(r) == (r.logical + r.len - 1) \div p.bpc < cut
      kept == SelectSeq(node.recs, LAMBDA r : ~past(r))
      recs == [i \in DOMAIN kept |->
                 IF before(kept[i]) THEN kept[i]
                 ELSE [kept[i] EXCEPT !.len = p.cut - kept[i].logical]]
      freed == {IF past(r) THEN DataRun(r.pblk, r.len, r.logical \div p.bpc)
                ELSE LET n == p.cut - r.logical
                     IN  DataRun(r.pblk + n, r.len - n, cut) :
                  r \in {r \in ToSet(node.recs) : ~before(r)}}
  IN  Finish(this, 0, recs, freed, {}, 0, SumLen(recs))

RECURSIVE walk_extent_node(_, _, _, _)

\* One child of an index node.  The last child has no right bound and is always
\* walked as if it straddled the cutoff, unless it starts past it.
walk_extent_child(p, rd, entry, next, acc) ==
  LET child == walk_extent_node(p, rd, rd[entry.child], entry.child)
      before == next # NoNode /\ next.at - 1 < p.cut
      past == entry.at >= p.cut
      lives == child.survivor # NoNode
      Keep(patches) ==
        [acc EXCEPT !.recs = Append(@, entry), !.meta = @ + child.meta,
                    !.data = @ + child.data, !.patches = @ \cup patches,
                    !.freed = @ \cup child.freed]
  IN  CASE acc.err \/ child.err -> [acc EXCEPT !.err = TRUE]
        [] before -> IF lives /\ child.freed = {} THEN Keep({})
                     ELSE [acc EXCEPT !.err = TRUE]
        [] ~before /\ past -> [acc EXCEPT !.freed = @ \cup child.freed]
        [] OTHER -> IF lives
                    THEN Keep(child.patches \cup
                              {[block |-> entry.child, node |-> child.survivor]})
                    ELSE [acc EXCEPT !.freed = @ \cup child.freed,
                                     !.patches = @ \cup child.patches]

walk_extent_index(p, rd, node, this) ==
  LET start == [recs |-> <<>>, freed |-> {}, meta |-> 0, data |-> 0,
                patches |-> {}, err |-> FALSE]
      Next(i) == IF i < Len(node.recs) THEN node.recs[i + 1] ELSE NoNode
      end == FoldLeft(LAMBDA acc, i :
                        walk_extent_child(p, rd, node.recs[i], Next(i), acc),
                      start, [i \in 1 .. Len(node.recs) |-> i])
  IN  IF end.err THEN NodeResult({}, 0, 0, NoNode, {}, TRUE)
      ELSE Finish(this, node.depth, end.recs, end.freed, end.patches,
                  end.meta, end.data)

walk_extent_node(p, rd, node, this) ==
  IF node.depth = 0 THEN walk_extent_leaf(p, node, this)
                    ELSE walk_extent_index(p, rd, node, this)

\* `complete_truncate` of an extent file: the freed runs, the new root, the
\* rewritten nodes and the new block count.
TruncateExtents(rd, root, cut, bpc) ==
  LET walk == walk_extent_node([cut |-> cut, bpc |-> bpc], rd, root, 0)
  IN  [freed |-> walk.freed, patches |-> walk.patches, err |-> walk.err,
       root |-> IF walk.survivor = NoNode THEN [depth |-> 0, recs |-> <<>>]
                ELSE walk.survivor,
       blocks |-> walk.data + walk.meta]

\* `collect_tagged_extent_blocks_into`: everything an extent tree allocates.
RECURSIVE collect_tagged_node(_, _, _)
collect_tagged_node(rd, node, bpc) ==
  IF node.depth = 0
  THEN {DataRun(r.pblk, r.len, r.logical \div bpc) : r \in ToSet(node.recs)}
  ELSE UNION {{MetadataRun(e.child)} \cup collect_tagged_node(rd, rd[e.child], bpc) :
                e \in ToSet(node.recs)}

(***************************************************************************)
(* Pointer arrays.  A map is [direct, roots]: NDirect pointers and the     *)
(* roots of the single, double and triple indirect trees.                  *)
(***************************************************************************)
level_span(level) == CASE level = 2 -> PPB [] level = 3 -> PPB * PPB [] OTHER -> 1

RECURSIVE walk_indirect_block(_, _, _, _, _)

\* One slot of a block of pointers whose children start at logical block first.
IndirectSlot(cut, rd, ptr, first, level, slot, acc) ==
  LET start == first + (slot - 1) * level_span(level)
      last == start + level_span(level) - 1
      child == walk_indirect_block(cut, rd, ptr, start, level - 1)
      Drop(freed) == [acc EXCEPT !.freed = @ \cup freed, !.buf[slot] = 0,
                                 !.mutated = TRUE]
      Patch(c) == IF c.mutated THEN {[block |-> ptr, node |-> c.buf]} ELSE {}
      Keep(freed) ==
        [acc EXCEPT !.kept = TRUE, !.freed = @ \cup freed,
                    !.meta = @ + 1 + child.meta,
                    !.patches = @ \cup child.patches \cup Patch(child)]
  IN  CASE ptr = 0 -> acc
        [] ptr # 0 /\ level = 1 ->
             IF start < cut THEN [acc EXCEPT !.kept = TRUE]
             ELSE Drop({DataRun(ptr, 1, start)})
        [] ptr # 0 /\ level > 1 ->
             IF last < cut THEN Keep({})
             ELSE IF start >= cut THEN Drop(child.freed \cup {MetadataRun(ptr)})
             ELSE IF child.kept THEN Keep(child.freed)
             ELSE [Drop(child.freed \cup {MetadataRun(ptr)})
                     EXCEPT !.patches = @ \cup child.patches]

walk_indirect_block(cut, rd, block, first, level) ==
  FoldLeft(LAMBDA acc, slot :
             IndirectSlot(cut, rd, rd[block][slot], first, level, slot, acc),
           [freed |-> {}, buf |-> rd[block], mutated |-> FALSE, kept |-> FALSE,
            meta |-> 0, patches |-> {}],
           [slot \in 1 .. PPB |-> slot])

RootFirst(level) ==
  CASE level = 1 -> NDirect
    [] level = 2 -> NDirect + PPB
    [] level = 3 -> NDirect + PPB + PPB * PPB
RootSpan(level) == level_span(level) * PPB

\* A root wholly before the cutoff frees nothing; the walk below it only counts.
process_indirect_root(cut, rd, level, acc) ==
  LET ptr == acc.map.roots[level]
      walk == walk_indirect_block(cut, rd, ptr, RootFirst(level), level)
      patch == IF walk.mutated THEN {[block |-> ptr, node |-> walk.buf]} ELSE {}
      Drop == [acc EXCEPT !.freed = @ \cup walk.freed \cup {MetadataRun(ptr)},
                          !.map.roots[level] = 0]
      Keep(freed, patches) ==
        [acc EXCEPT !.freed = @ \cup freed, !.meta = @ + 1 + walk.meta,
                    !.patches = @ \cup patches]
  IN  CASE ptr = 0 -> acc
        [] ptr # 0 /\ RootFirst(level) + RootSpan(level) - 1 < cut ->
             IF level = 1 THEN [acc EXCEPT !.meta = @ + 1]
             ELSE Keep({}, walk.patches \cup patch)
        [] ptr # 0 /\ RootFirst(level) >= cut -> Drop
        [] OTHER -> IF walk.kept THEN Keep(walk.freed, walk.patches \cup patch)
                    ELSE [Drop EXCEPT !.patches = @ \cup walk.patches]

walk_indirect_map(rd, map, cut) ==
  LET past == {i \in 1 .. NDirect : map.direct[i] # 0 /\ i - 1 >= cut}
      start == [freed |-> {DataRun(map.direct[i], 1, i - 1) : i \in past},
                map |-> [map EXCEPT !.direct =
                           [i \in 1 .. NDirect |-> IF i \in past THEN 0 ELSE @[i]]],
                meta |-> 0, patches |-> {}]
  IN  FoldLeft(LAMBDA acc, level : process_indirect_root(cut, rd, level, acc),
               start, <<1, 2, 3>>)

count_surviving_direct_blocks(map) ==
  Cardinality({i \in 1 .. NDirect : map.direct[i] # 0})

\* `complete_truncate_indirect`.  The data under a surviving pointer block is
\* not counted: blocks holds the direct blocks and the pointer blocks only.
TruncateIndirect(rd, map, cut) ==
  LET walk == walk_indirect_map(rd, map, cut)
  IN  [freed |-> walk.freed, patches |-> walk.patches, err |-> FALSE,
       root |-> walk.map,
       blocks |-> count_surviving_direct_blocks(walk.map) + walk.meta]
=============================================================================
