---------------------------- MODULE OrphanVolume ----------------------------
(***************************************************************************)
(* The ext volumes that orphan recovery meets: the disk a kernel leaves    *)
(* when files were unlinked while open, or were being truncated, at the    *)
(* time of the crash.                                                      *)
(*                                                                         *)
(* A volume v gives each file its state, the orphan lists it is on, its    *)
(* block map, and whether it uses the shared attribute block and the inode *)
(* that holds an attribute value.  `DiskOf(v)` is the consistent disk of   *)
(* those files - bitmaps, counters, reference counts, lists - but for the  *)
(* one damage v names.  A disk is [sb, meta, node]: the superblock, the    *)
(* named metadata blocks, and the blocks that hold nodes of block maps.    *)
(* Only blocks that files can own are numbered, from 0.                    *)
(***************************************************************************)
EXTENDS OrphanTruncate, TLC

CONSTANTS
  Files,        \* inode numbers of ordinary files
  EaInode,      \* the inode that holds an attribute value
  EaBlock,      \* its first data block
  XBlock,       \* the block of shared attributes
  IPG, BPG,     \* inodes and blocks in a group
  Groups,       \* group numbers
  Slots,        \* slots of the orphan file
  XattrRefMax   \* EXT4_XATTR_REFCOUNT_MAX

Inodes == Files \cup {EaInode}
NoInode == EaInode + 1    \* past s_inodes_count

GroupOf(i) == (i - 1) \div IPG
ClusterGroup(c, bpc) == (c * bpc) \div BPG
ITab(i) == <<"itab", GroupOf(i)>>
IBitmap(g) == <<"ibitmap", g>>
BBitmap(g) == <<"bbitmap", g>>
Gdt == <<"gdt", 0>>
XAttr == <<"xattr", 0>>
OFile == <<"ofile", 0>>

(***************************************************************************)
(* What the kernel left on disk.                                           *)
(***************************************************************************)
ZeroInode == [links |-> 0, dtime |-> 0, size |-> 0, dir |-> FALSE, ea |-> FALSE,
              kind |-> "extents", root |-> [depth |-> 0, recs |-> <<>>],
              blocks |-> 0, xblock |-> 0, value |-> 0, ref |-> 0, hash |-> TRUE]

Used(v) == {i \in Files : v.file[i].st # "free"}
WithX(v) == {i \in Used(v) : v.file[i].x}
WithEa(v) == {i \in Used(v) : v.file[i].ea}
OnList(v, l) == {i \in Used(v) : l \in v.file[i].on}
Gone(v) == {i \in Used(v) : v.file[i].st = "unlinked"}

\* The blocks of a map: pairs of a logical and a physical block, and the blocks
\* that hold its nodes.
RECURSIVE PointersAt(_, _, _, _)
PointersAt(nodes, ptr, first, level) ==
  IF ptr = 0 THEN {}
  ELSE IF level = 0 THEN {<<first, ptr>>}
  ELSE UNION {PointersAt(nodes, nodes[ptr][s], first + (s - 1) * level_span(level),
                         level - 1) : s \in 1 .. PPB}
RECURSIVE PointerNodes(_, _, _)
PointerNodes(nodes, ptr, level) ==
  IF ptr = 0 \/ level = 0 THEN {}
  ELSE {ptr} \cup UNION {PointerNodes(nodes, nodes[ptr][s], level - 1) : s \in 1 .. PPB}
RECURSIVE ExtentPairs(_, _)
ExtentPairs(nodes, n) ==
  IF n.depth = 0
  THEN UNION {{<<r.logical + k, r.pblk + k>> : k \in 0 .. r.len - 1} : r \in ToSet(n.recs)}
  ELSE UNION {ExtentPairs(nodes, nodes[e.child]) : e \in ToSet(n.recs)}
RECURSIVE ExtentNodes(_, _)
ExtentNodes(nodes, n) ==
  IF n.depth = 0 THEN {}
  ELSE UNION {{e.child} \cup ExtentNodes(nodes, nodes[e.child]) : e \in ToSet(n.recs)}

Mapping(nodes, kind, root) ==
  CASE kind = "raw" -> {}
    [] kind = "extents" -> ExtentPairs(nodes, root)
    [] kind = "pointers" ->
         {<<i - 1, root.direct[i]>> : i \in {i \in 1 .. NDirect : root.direct[i] # 0}}
         \cup UNION {PointersAt(nodes, root.roots[l], RootFirst(l), l) : l \in 1 .. 3}
NodeBlocks(nodes, kind, root) ==
  CASE kind = "raw" -> {}
    [] kind = "extents" -> ExtentNodes(nodes, root)
    [] kind = "pointers" -> UNION {PointerNodes(nodes, root.roots[l], l) : l \in 1 .. 3}
Owned(nodes, kind, root) ==
  {m[2] : m \in Mapping(nodes, kind, root)} \cup NodeBlocks(nodes, kind, root)

\* The legacy list starts at the inode added last; the last inode of a damaged
\* list points back into it, or to an inode there is not.
Chain(v) == SetToSortSeq(OnList(v, "L"), LAMBDA a, b : a > b)
ChainNext(v, i) ==
  LET c == Chain(v) IN
  LET k == CHOOSE k \in DOMAIN c : c[k] = i
  IN  IF k < Len(c) THEN c[k + 1]
      ELSE CASE v.damage = "cycle" -> c[1]
             [] v.damage = "range" -> NoInode
             [] OTHER -> 0

FileInode(v, i) ==
  LET f == v.file[i] IN
  IF f.st = "free" THEN ZeroInode
  ELSE [links |-> IF f.st = "unlinked" THEN 0 ELSE 1,
        dtime |-> IF i \in OnList(v, "L") THEN ChainNext(v, i) ELSE 0,
        size |-> f.size, dir |-> f.dir, ea |-> FALSE,
        kind |-> f.tree.kind, root |-> f.tree.root,
        blocks |-> Cardinality(Owned(f.tree.nodes, f.tree.kind, f.tree.root)),
        xblock |-> IF f.x THEN XBlock ELSE 0,
        value |-> IF f.ea THEN EaInode ELSE 0, ref |-> 0, hash |-> TRUE]

ValueSize == 1   \* the size every attribute entry states for the value
EaRecord(v) ==
  IF WithEa(v) = {} THEN ZeroInode
  ELSE [ZeroInode EXCEPT
          !.links = 1, !.ea = v.damage # "eaFlag", !.hash = v.damage # "eaHash",
          !.size = IF v.damage = "eaSize" THEN ValueSize + 1 ELSE ValueSize,
          !.xblock = IF v.damage = "eaNested" THEN XBlock ELSE 0,
          !.root = [depth |-> 0,
                    recs |-> <<[logical |-> 0, len |-> v.bpc, pblk |-> EaBlock]>>],
          !.blocks = v.bpc,
          !.ref = CASE v.damage = "eaZero" -> 0
                    [] v.damage = "eaLow" -> Cardinality(WithEa(v) \cap Gone(v)) - 1
                    [] OTHER -> Cardinality(WithEa(v))]

Clusters(blocks, bpc) == {b \div bpc : b \in blocks}
AllocatedClusters(v) ==
  Clusters(UNION {Owned(v.file[i].tree.nodes, v.file[i].tree.kind, v.file[i].tree.root) :
                    i \in Used(v)}
           \cup (IF WithX(v) = {} THEN {} ELSE {XBlock})
           \cup (IF WithEa(v) = {} THEN {} ELSE {EaBlock}), v.bpc)
AllocatedInodes(v) == Used(v) \cup (IF WithEa(v) = {} THEN {} ELSE {EaInode})

DescriptorOf(cl, ino, dirs, g, bpc) ==
  [clusters |-> BPG \div bpc - Cardinality({c \in cl : ClusterGroup(c, bpc) = g}),
   inodes |-> IPG - Cardinality({i \in ino : GroupOf(i) = g}),
   dirs |-> Cardinality({i \in dirs : GroupOf(i) = g})]

SlotOf(v, s) ==
  LET l == SetToSortSeq(OnList(v, "F"), <)
  IN  IF s <= Len(l) THEN l[s]
      ELSE IF s = Len(l) + 1 /\ v.damage = "slot" THEN NoInode ELSE 0

DiskOf(v) ==
  LET cl == AllocatedClusters(v)
      ino == AllocatedInodes(v)
      dirs == {i \in Used(v) : v.file[i].dir}
      names == UNION {DOMAIN v.file[i].tree.nodes : i \in Used(v)}
  IN  [sb |-> [clusters |-> (BPG \div v.bpc) * Cardinality(Groups) - Cardinality(cl),
               inodes |-> IPG * Cardinality(Groups) - Cardinality(ino),
               head |-> IF OnList(v, "L") = {} THEN 0 ELSE Chain(v)[1],
               present |-> v.present, recover |-> v.late # {}],
       node |-> [b \in names |->
                   LET i == CHOOSE i \in Used(v) : b \in DOMAIN v.file[i].tree.nodes
                   IN  v.file[i].tree.nodes[b]],
       meta |->
         [n \in {<<"itab", g>> : g \in Groups} |->
            [i \in {i \in Inodes : GroupOf(i) = n[2]} |->
               IF i = EaInode THEN EaRecord(v) ELSE FileInode(v, i)]]
         @@ [n \in {IBitmap(g) : g \in Groups} |-> {i \in ino : GroupOf(i) = n[2]}]
         @@ [n \in {BBitmap(g) : g \in Groups} |-> 
              {c \in cl : ClusterGroup(c, v.bpc) = n[2]}]
         @@ (Gdt :> [g \in Groups |-> DescriptorOf(cl, ino, dirs, g, v.bpc)])
         @@ (XAttr :> [sound |-> v.damage # "xSound",
                       ref |-> CASE v.damage = "xZero" -> 0
                                 [] v.damage = "xHigh" -> XattrRefMax + 1
                                 [] v.damage = "xLow" ->
                                      Cardinality(WithX(v) \cap Gone(v)) - 1
                                 [] OTHER -> Cardinality(WithX(v))])
         @@ (OFile :> [sound |-> v.damage # "tail",
                       slot |-> [s \in Slots |-> SlotOf(v, s)]])]

(***************************************************************************)
(* What it is for a disk to be consistent, stated of its blocks alone.     *)
(***************************************************************************)
InodeAt(d, i) == d.meta[ITab(i)][i]
InUse(d) == {i \in Inodes : InodeAt(d, i).links > 0}
MappingAt(d, i) == LET n == InodeAt(d, i) IN Mapping(d.node, n.kind, n.root)
OwnedAt(d, i) == LET n == InodeAt(d, i) IN Owned(d.node, n.kind, n.root)
RefsTo(d, b) == {i \in InUse(d) \ {EaInode} : InodeAt(d, i).xblock = b}
HoldersOf(d, e) == {i \in InUse(d) : InodeAt(d, i).value = e}

BitmapsAgree(d, bpc) ==
  /\ UNION {d.meta[IBitmap(g)] : g \in Groups} = InUse(d)
  /\ UNION {d.meta[BBitmap(g)] : g \in Groups} =
       Clusters(UNION {OwnedAt(d, i) : i \in InUse(d)}
                \cup {b \in {XBlock} : RefsTo(d, b) # {}}, bpc)
SuperblockAgrees(d, bpc) ==
  /\ d.sb.clusters = (BPG \div bpc) * Cardinality(Groups)
                      - Cardinality(UNION {d.meta[BBitmap(g)] : g \in Groups})
  /\ d.sb.inodes = IPG * Cardinality(Groups)
                      - Cardinality(UNION {d.meta[IBitmap(g)] : g \in Groups})
DescriptorsAgree(d, bpc) ==
  \A g \in Groups :
    d.meta[Gdt][g] = DescriptorOf(d.meta[BBitmap(g)], d.meta[IBitmap(g)],
                                  {i \in InUse(d) : InodeAt(d, i).dir}, g, bpc)
ReferencesAgree(d) ==
  /\ RefsTo(d, XBlock) # {} => d.meta[XAttr].ref = Cardinality(RefsTo(d, XBlock))
  /\ InodeAt(d, EaInode).ref = Cardinality(HoldersOf(d, EaInode))
NoOrphans(d) ==
  /\ d.sb.head = 0 /\ ~d.sb.present
  /\ \A s \in Slots : d.meta[OFile].slot[s] = 0
  /\ \A i \in InUse(d) : InodeAt(d, i).dtime = 0
=============================================================================
