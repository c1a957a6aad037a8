-------------------------------- MODULE Apfs --------------------------------
(***************************************************************************)
(* The APFS reader (fs-apfs and its driver): a container that was left at  *)
(* any moment is opened at its newest whole checkpoint; the objects of a   *)
(* volume are found through an object map that holds them as of several    *)
(* transactions, for the live volume and for its snapshots; deleted files  *)
(* come back from a snapshot, and old catalog leaves from free space.      *)
(*                                                                         *)
(* A block is <<transaction, type, checksum valid, body>>.  Lengths and    *)
(* offsets are in blocks.  The key of a catalog record is one number: the  *)
(* object, the kind of record and a subkey (a name, a logical offset).     *)
(***************************************************************************)
EXTENDS Integers, FiniteSets, FiniteSetsExt, SequencesExt

CONSTANTS
  RingLen,      \* blocks of the checkpoint descriptor area
  NumAddrs,     \* blocks of the container
  LeafCap,      \* records of a catalog leaf
  MapCap,       \* entries of an object-map leaf
  ChunkBlocks,  \* blocks of a chunk of the space manager
  ChunksPerCib,
  Containers,   \* [fragmented, hashed, cabs, roles, active]
  ApfsFormat,   \* what the volume holds at first: [items, streams]
  ApfsChanges,  \* what a transaction may do
  MaxXid,
  ApfsScript,   \* the calls on the open volume
  HealsAt,      \* the call before which the unreadable block can be read again
  BadAddrs,     \* blocks that may be unreadable
  Diverging     \* names whose stored hash is not the one this code computes

VARIABLES
  container,    \* the container of this behaviour
  checkpoints,  \* what each transaction wrote, as a sequence by number
  store,        \* the medium
  left,         \* how the container was left: "running", "whole", "crashed" or "rotten"
  bad,          \* the block that cannot be read, None, or Unset before it is decided
  apfs,         \* the opened container and volume, or why it was refused
  path_cache,   \* the driver's path cache
  apfs_calls,   \* how many calls were made
  reply         \* the answer to the last one

apfsSession == <<bad, apfs, path_cache, apfs_calls, reply>>

None == -1
Unset == -2
RootDir == 2
CatalogOid == 100
SnapMetaOid == 200
SpacemanOid == 400
VolumeOid(i) == 300 + i
\* Record kinds.
SnapMetadata == 1
Inode == 3
Xattr == 4
FileExtent == 8
DirRec == 9
SnapName == 11
Key(obj, kind, sub) == obj * 1000 + kind * 10 + sub
header(key) == key \div 10
obj_id(key) == key \div 1000
kind_of(key) == (key \div 10) % 100
sub_of(key) == key % 10
NameHash(name) == name % 2
StoredHash(name) == IF name \in Diverging THEN 1 - NameHash(name) ELSE NameHash(name)

(***************************************************************************)
(* The writer (external).  A transaction writes what it changed, with the  *)
(* object maps that lead to it, to blocks that neither the last checkpoint *)
(* nor a snapshot uses; then a checkpoint map and a container superblock   *)
(* to the next places of the ring.                                         *)
(***************************************************************************)
Sorted(S) == [i \in 1 .. Cardinality(S) |-> CHOOSE r \in S : Cardinality({q \in S : q.key < r.key}) = i - 1]
Ascending(S) == [i \in 1 .. Cardinality(S) |-> CHOOSE x \in S : Cardinality({y \in S : y < x}) = i - 1]
Pieces(s, cap) ==
  [i \in 1 .. (Len(s) + cap - 1) \div cap |-> SubSeq(s, (i - 1) * cap + 1, Min({i * cap, Len(s)}))]

CatalogRecords(c) ==
  {[key |-> Key(o, Inode, 0),
    val |-> [kind |-> c.items[o].kind, parent |-> c.items[o].parent, private_id |-> c.items[o].stream,
             size |-> c.items[o].size]] : o \in DOMAIN c.items} \cup
  {[key |-> Key(o, Xattr, 0), val |-> [name |-> "decmpfs"]] : o \in {o \in DOMAIN c.items : c.items[o].compressed}} \cup
  {[key |-> Key(c.items[o].parent, DirRec, c.items[o].name),
    val |-> [hash |-> StoredHash(c.items[o].name), file_id |-> o, kind |-> c.items[o].kind]] :
     o \in DOMAIN c.items \ {RootDir}} \cup
  UNION {{[key |-> Key(s, FileExtent, e.logical), val |-> [length |-> e.length, phys |-> e.phys]] :
            e \in c.streams[s]} : s \in DOMAIN c.streams}
SnapRecords(snaps) ==
  {[key |-> Key(s.xid, SnapMetadata, 0), val |-> [name |-> s.name, sblock |-> s.sblock]] : s \in snaps} \cup
  {[key |-> Key(99, SnapName, s.name), val |-> [xid |-> s.xid]] : s \in snaps}

Node(sub, leaf, entries) == [sub |-> sub, leaf |-> leaf, entries |-> entries]
\* The nodes of a tree by their identifiers: the root, and its leaves behind it.
TreeNodes(root, sub, s, p) ==
  IF Len(p) <= 1 THEN [o \in {root} |-> Node(sub, TRUE, s)]
  ELSE [o \in root .. root + Len(p) |->
          IF o = root THEN Node(sub, FALSE, [i \in DOMAIN p |-> [key |-> p[i][1].key, val |-> root + i]])
          ELSE Node(sub, TRUE, p[o - root])]
TreeOf(root, sub, s) == TreeNodes(root, sub, s, Pieces(s, LeafCap))
SameNode(m, n) == m.leaf = n.leaf /\ m.entries = n.entries

\* What the map gives for oid as of transaction x.
Visible(map, oid, x) ==
  {e \in map : /\ e.oid = oid /\ e.xid <= x
               /\ \A f \in map : f.oid = oid /\ f.xid <= x => f.xid <= e.xid}
\* Mappings that the live volume or a snapshot needs stay; what is gone from the
\* live volume but not from a snapshot is marked deleted.
MapAfter(map, p) ==
  LET kept == {e \in map : \/ e \in Visible(map, e.oid, p.n) /\ e.oid \notin DOMAIN p.at \cup p.removed
                           \/ \E s \in p.snaps : e \in Visible(map, e.oid, s.xid)}
  IN  kept
      \cup {[oid |-> o, xid |-> p.n, paddr |-> 0, del |-> TRUE] :
              o \in {o \in p.removed : \E e \in kept : e.oid = o}}
      \cup {[oid |-> o, xid |-> p.n, paddr |-> p.at[o], del |-> FALSE] : o \in DOMAIN p.at}
MapRecords(map) ==
  {[key |-> e.oid * 100 + e.xid, val |-> [paddr |-> e.paddr, del |-> e.del]] : e \in map}

\* The ring, the tree of its fragments, and the rest.
Fragments ==
  IF container.fragmented
  THEN {[start |-> 0, phys |-> RingLen - 1, count |-> 2], [start |-> 2, phys |-> 1, count |-> RingLen - 2]}
  ELSE {[start |-> 0, phys |-> 1, count |-> RingLen]}
RingAddr(i) ==
  LET f == CHOOSE f \in Fragments : i % RingLen \in f.start .. f.start + f.count - 1
  IN  f.phys + (i % RingLen) - f.start
FirstHeap == RingLen + 4
OtherVolumes == DOMAIN container.roles \ {container.active}
Reserved == 0 .. FirstHeap - 1 + Cardinality(OtherVolumes)
Chunks == NumAddrs \div ChunkBlocks
Cibs == Chunks \div ChunksPerCib
ChunkOf(c) == c * ChunkBlocks .. (c + 1) * ChunkBlocks - 1

NoCheckpoint == [nodes |-> [o \in {} |-> 0], map |-> {}, used |-> {}, own |-> {}, snaps |-> {}]
DataOf(c) == UNION {UNION {e.phys .. e.phys + e.length - 1 : e \in c.streams[s]} : s \in DOMAIN c.streams}
Free(prev, snaps) ==
  (0 .. NumAddrs - 1) \ (Reserved \cup prev.used \cup UNION {checkpoints[s.xid].own : s \in snaps})

\* A transaction in steps: its number n, contents c, snapshots, the data it writes,
\* the checkpoint before it and the free blocks a, in order.
WithNodes(p) ==
  p @@ [nodes |-> TreeOf(CatalogOid, "fs", Sorted(CatalogRecords(p.c))) @@
                  TreeOf(SnapMetaOid, "snap", Sorted(SnapRecords(p.snaps)))]
WithChanged(p) ==
  p @@ [changed |-> Ascending({o \in DOMAIN p.nodes :
                      o \notin DOMAIN p.prev.nodes \/ ~SameNode(p.nodes[o], p.prev.nodes[o])}),
        removed |-> DOMAIN p.prev.nodes \ DOMAIN p.nodes]
WithAt(p) ==
  p @@ [at |-> [o \in ToSet(p.changed) |-> p.a[CHOOSE i \in DOMAIN p.changed : p.changed[i] = o]]]
WithMap(p) == p @@ [map |-> MapAfter(p.prev.map, p)]
WithPieces(p) == p @@ [pieces |-> Pieces(Sorted(MapRecords(p.map)), MapCap)]
\* The blocks behind those of the nodes: m leaves of the object map, its root, and
\* then one for each other thing.
WithPlaces(p) ==
  p @@ [leaf |-> [i \in DOMAIN p.pieces |-> p.a[Len(p.changed) + i]],
        place |-> [i \in 1 .. 7 + Cibs + Chunks |-> p.a[Len(p.changed) + Len(p.pieces) + i]]]
OwnBlocks(p) ==
  {e.paddr : e \in {e \in p.map : ~e.del}} \cup DataOf(p.c) \cup Range(p.leaf)
  \cup {p.place[1], p.place[2]} \cup {s.sblock : s \in p.snaps}
WithUsed(p) ==
  p @@ [own |-> OwnBlocks(p),
        used |-> OwnBlocks(p) \cup UNION {checkpoints[s.xid].own : s \in {s \in p.snaps : s.xid < p.n}}
                 \cup Range(p.place) \cup Reserved]
VolumeBlock(p) ==
  [role |-> container.roles[container.active], omap |-> p.place[2], root |-> CatalogOid,
   snap_meta |-> SnapMetaOid]
Single(x, type, n, body) == [b \in {x} |-> <<n, type, TRUE, body>>]
SpaceBlocks(p) ==
  Single(p.place[6], "spaceman", p.n,
    [addrs |-> IF container.cabs THEN <<p.place[7]>> ELSE [i \in 1 .. Cibs |-> p.place[7 + i]],
     cabs |-> IF container.cabs THEN 1 ELSE 0]) @@
  Single(p.place[7], "cab", p.n, [i \in 1 .. Cibs |-> p.place[7 + i]]) @@
  [x \in {p.place[7 + i] : i \in 1 .. Cibs} |->
     LET i == CHOOSE i \in 1 .. Cibs : p.place[7 + i] = x
     IN  <<p.n, "cib", TRUE, [k \in 1 .. ChunksPerCib |->
             LET c == (i - 1) * ChunksPerCib + k - 1
                 busy == ChunkOf(c) \cap p.used
             IN  [count |-> ChunkBlocks, free |-> ChunkBlocks - Cardinality(busy),
                  bitmap |-> IF busy \in {{}, ChunkOf(c)} THEN 0 ELSE p.place[8 + Cibs + c]]]>>] @@
  [x \in {p.place[7 + Cibs + i] : i \in 1 .. Chunks} |->
     LET c == (CHOOSE i \in 1 .. Chunks : p.place[7 + Cibs + i] = x) - 1
     IN  <<p.n, "bitmap", TRUE, {b - c * ChunkBlocks : b \in ChunkOf(c) \cap p.used}>>]
HeapBlocks(p) ==
  [x \in Range(p.at) |-> <<p.n, "node", TRUE, p.nodes[CHOOSE o \in DOMAIN p.at : p.at[o] = x]>>] @@
  [x \in DOMAIN p.data |-> <<p.n, "data", TRUE, p.data[x]>>] @@
  [x \in Range(p.leaf) |-> <<p.n, "node", TRUE,
     Node("omap", TRUE, p.pieces[CHOOSE i \in DOMAIN p.leaf : p.leaf[i] = x])>>] @@
  Single(p.place[1], "node", p.n,
    Node("omap", FALSE, [i \in DOMAIN p.leaf |-> [key |-> p.pieces[i][1].key, val |-> p.leaf[i]]])) @@
  Single(p.place[2], "omap", p.n, [tree |-> IF Len(p.leaf) = 1 THEN p.leaf[1] ELSE p.place[1]]) @@
  Single(p.place[3], "fs", p.n, VolumeBlock(p)) @@
  [x \in {s.sblock : s \in {s \in p.snaps : s.xid = p.n}} |-> <<p.n, "fs", TRUE, VolumeBlock(p)>>] @@
  Single(p.place[4], "node", p.n, Node("omap", TRUE,
    [i \in DOMAIN container.roles |->
       [key |-> VolumeOid(i) * 100 + (IF i = container.active THEN p.n ELSE 1),
        val |-> [paddr |-> IF i = container.active THEN p.place[3] ELSE FirstHeap, del |-> FALSE]]])) @@
  Single(p.place[5], "omap", p.n, [tree |-> p.place[4]]) @@
  SpaceBlocks(p)
\* The two blocks of checkpoint n in the ring.
RingIndex(n) == ((n - 1) * 2) % RingLen
MapBlock(p) == <<p.n, "map", TRUE, <<[oid |-> SpacemanOid, paddr |-> p.place[6]]>>>>
SuperBlock(p) ==
  <<p.n, "nx", TRUE, [xid |-> p.n, index |-> RingIndex(p.n), len |-> 2, omap |-> p.place[5],
                      fs_oids |-> [i \in DOMAIN container.roles |-> VolumeOid(i)]]>>
Transaction(p) == WithUsed(WithPlaces(WithPieces(WithMap(WithAt(WithChanged(WithNodes(p)))))))
Record(p) ==
  [c |-> p.c, snaps |-> p.snaps, nodes |-> p.nodes, map |-> p.map, own |-> p.own, used |-> p.used]
\* Of a checkpoint that no transaction follows up, the trees need not be kept.
Past(k) == [k EXCEPT !.nodes = NoCheckpoint.nodes, !.map = {}]
PastCheckpoints == [n \in DOMAIN checkpoints |-> Past(checkpoints[n])]

Torn(block) == [block EXCEPT ![3] = FALSE]
\* The medium after a transaction of which the ring got map and super.
Written(p, map, super) ==
  HeapBlocks(p) @@ [x \in {RingAddr(RingIndex(p.n))} |-> map] @@
  [x \in {RingAddr(RingIndex(p.n) + 1)} |-> super] @@ store

Formatted ==
  [x \in {0} |-> <<1, "nx", TRUE, [base |-> IF container.fragmented THEN RingLen + 1 ELSE 1,
                                   is_tree |-> container.fragmented]>>] @@
  Single(RingLen + 1, "node", 1, Node("desc", FALSE,
    <<[key |-> 0, val |-> RingLen + 2], [key |-> 2, val |-> RingLen + 3]>>)) @@
  [x \in {RingLen + 2, RingLen + 3} |-> <<1, "node", TRUE, Node("desc", TRUE,
     LET f == CHOOSE f \in Fragments : ~container.fragmented \/ (f.start = 0 <=> x = RingLen + 2)
     IN  <<[key |-> f.start, val |-> [phys |-> f.phys, count |-> f.count]]>>)>>] @@
  [x \in {FirstHeap} |-> <<1, "fs", TRUE, [role |-> "none", omap |-> 0, root |-> 0, snap_meta |-> 0]>>] @@
  [x \in 0 .. NumAddrs - 1 |-> <<0, "free", FALSE, 0>>]
\* The first contents lie in the first free blocks, from Base on.
Placed(c, from) ==
  [c EXCEPT !.streams = [s \in DOMAIN c.streams |-> {[e EXCEPT !.phys = @ + from] : e \in c.streams[s]}]]
FirstFree == FirstHeap + Cardinality(OtherVolumes)
DataValues(c) ==
  [x \in DataOf(c) |->
     LET e == CHOOSE e \in UNION {c.streams[s] : s \in DOMAIN c.streams} : x \in e.phys .. e.phys + e.length - 1
     IN  e.vals[x - e.phys + 1]]
FirstPlan(c) ==
  [n |-> 1, c |-> c, snaps |-> {}, data |-> DataValues(c), prev |-> NoCheckpoint,
   a |-> Ascending((FirstFree .. NumAddrs - 1) \ DataOf(c))]


\* The contents after a change, whose data went to the blocks d.
Dropped(c, s, at) ==
  UNION {LET inside == at \in e.logical .. e.logical + e.length - 1
             k == at - e.logical
         IN  IF ~inside THEN {e}
             ELSE {f \in {[e EXCEPT !.length = k, !.vals = SubSeq(e.vals, 1, k)],
                          [logical |-> at + 1, length |-> e.length - k - 1, phys |-> e.phys + k + 1,
                           vals |-> SubSeq(e.vals, k + 2, e.length)]} : f.length > 0} : e \in c.streams[s]}
Without(f, x) == [y \in DOMAIN f \ {x} |-> f[y]]
Possible(k, ch) ==
  CASE ch.op = "clone" -> ch.new \notin DOMAIN k.c.items /\ ch.obj \in DOMAIN k.c.items
    [] ch.op \in {"write", "punch", "delete", "rename"} -> ch.obj \in DOMAIN k.c.items
    [] OTHER -> \A s \in k.snaps : s.name # ch.name
NewItem(ch, stream, size) ==
  [kind |-> ch.kind, parent |-> ch.parent, name |-> ch.name, stream |-> stream, size |-> size, compressed |-> FALSE]
Contents(c, ch, d) ==
  CASE ch.op = "clone" ->
         [items |-> [o \in {ch.new} |-> NewItem(ch, ch.stream, c.items[ch.obj].size)] @@ c.items,
          streams |-> [s \in {ch.stream} |-> c.streams[c.items[ch.obj].stream]] @@ c.streams]
    [] ch.op = "write" ->
         [items |-> [c.items EXCEPT ![ch.obj].size = Max({@, ch.at + 1})],
          streams |-> [c.streams EXCEPT ![c.items[ch.obj].stream] =
                         Dropped(c, c.items[ch.obj].stream, ch.at) \cup
                         {[logical |-> ch.at, length |-> 1, phys |-> d, vals |-> <<ch.val>>]}]]
    [] ch.op = "punch" ->
         [c EXCEPT !.streams[c.items[ch.obj].stream] = Dropped(c, c.items[ch.obj].stream, ch.at)]
    [] ch.op = "delete" ->
         [items |-> Without(c.items, ch.obj), streams |-> Without(c.streams, c.items[ch.obj].stream)]
    [] ch.op = "rename" -> [c EXCEPT !.items[ch.obj].parent = ch.parent, !.items[ch.obj].name = ch.name]
    [] OTHER -> c
Plan(ch, prev, a) ==
  [n |-> Len(checkpoints) + 1, prev |-> prev, c |-> Contents(prev.c, ch, a[1]),
   snaps |-> prev.snaps \cup IF ch.op = "snapshot"
                             THEN {[xid |-> Len(checkpoints) + 1, name |-> ch.name, sblock |-> a[1]]} ELSE {},
   data |-> IF ch.op = "write" THEN [x \in {a[1]} |-> ch.val] ELSE [x \in {} |-> 0],
   a |-> Tail(a)]
Doing(ch) ==
  Transaction(Plan(ch, Last(checkpoints), Ascending(Free(Last(checkpoints), Last(checkpoints).snaps))))

NoReply == [err |-> "", val |-> <<>>]
ApfsInit ==
  /\ container \in Containers
  /\ store = Formatted
  /\ checkpoints = <<>> /\ left = "running" /\ bad = Unset
  /\ apfs = <<>> /\ path_cache = <<>> /\ apfs_calls = 0 /\ reply = NoReply

Format ==
  /\ checkpoints = <<>>
  /\ \E p \in {Transaction(FirstPlan(Placed(ApfsFormat, FirstFree)))} :
       /\ store' = Written(p, MapBlock(p), SuperBlock(p))
       /\ checkpoints' = <<Record(p)>>
  /\ UNCHANGED <<container, left, apfsSession>>
Commit(ch) ==
  /\ left = "running" /\ Len(checkpoints) \in 1 .. MaxXid - 1 /\ Possible(Last(checkpoints), ch)
  /\ \E p \in {Doing(ch)} :
       /\ store' = Written(p, MapBlock(p), SuperBlock(p))
       /\ checkpoints' = Append(PastCheckpoints, Record(p))
  /\ UNCHANGED <<container, left, apfsSession>>
\* A crash in a transaction whose other blocks were written: the map may be old, torn
\* or new, and behind a new map the superblock may be torn.
CrashIn(ch, map, super) ==
  /\ left = "running" /\ Len(checkpoints) \in 1 .. MaxXid - 1 /\ Possible(Last(checkpoints), ch)
  /\ super = "torn" => map = "new"
  /\ \E p \in {Doing(ch)} :
       store' = Written(p, CASE map = "old" -> store[RingAddr(RingIndex(p.n))]
                             [] map = "torn" -> Torn(MapBlock(p))
                             [] OTHER -> MapBlock(p),
                        IF super = "torn" THEN Torn(SuperBlock(p)) ELSE store[RingAddr(RingIndex(p.n) + 1)])
  /\ left' = "crashed" /\ checkpoints' = PastCheckpoints
  /\ UNCHANGED <<container, apfsSession>>
Eject ==
  /\ left = "running" /\ checkpoints # <<>>
  /\ left' = "whole" /\ checkpoints' = PastCheckpoints
  /\ UNCHANGED <<container, store, apfsSession>>
\* A block of the ring is lost.
Rot(i) ==
  /\ left = "whole" /\ bad = Unset /\ store[RingAddr(i)][3]
  /\ store' = [store EXCEPT ![RingAddr(i)] = Torn(@)]
  /\ left' = "rotten"
  /\ UNCHANGED <<container, checkpoints, apfsSession>>

(***************************************************************************)
(* Opening the container.                                                  *)
(***************************************************************************)
Ok(v) == [err |-> "", val |-> v]
Err(e) == [err |-> e, val |-> <<>>]

\* The block that cannot be read is readable again after some calls.
unreadable == IF apfs_calls < HealsAt THEN bad ELSE None
read_block(x) == IF x = unreadable THEN Err("Io") ELSE Ok(store[x])
\* A block parsed as an object of a type.
Parsed(got, type) ==
  IF got.err # "" THEN got ELSE IF got.val[2] # type THEN Err("Malformed") ELSE Ok(got.val[4])

block_addr(area, index) ==
  {f.phys + index - f.start : f \in {f \in area : index >= f.start /\ index - f.start < f.count}}

RECURSIVE DescriptorNodes(_, _)
RECURSIVE AtDescriptor(_, _, _)
DescriptorNodes(pending, fragments) ==
  IF pending = <<>> THEN Ok(fragments)
  ELSE AtDescriptor(read_block(Last(pending)), Front(pending), fragments)
AtDescriptor(got, pending, fragments) ==
  CASE got.err # "" -> got
    [] got.err = "" /\ ~got.val[3] -> Err("ChecksumMismatch")
    [] got.err = "" /\ got.val[3] /\ got.val[4].leaf ->
         DescriptorNodes(pending, fragments \cup
           {[start |-> e.key, phys |-> e.val.phys, count |-> e.val.count] : e \in ToSet(got.val[4].entries)})
    [] OTHER -> DescriptorNodes(pending \o [i \in DOMAIN got.val[4].entries |-> got.val[4].entries[i].val], fragments)
read_descriptor_tree(root) == DescriptorNodes(<<root>>, {})

\* The superblocks of the ring whose checksum is valid; an unreadable block ends the scan.
CandidateAt(sofar, addr) ==
  IF sofar.err # "" \/ addr = {} THEN sofar
  ELSE LET got == read_block(CHOOSE x \in addr : TRUE)
       IN  IF got.err # "" THEN got
           ELSE IF ~got.val[3] \/ got.val[2] # "nx" THEN sofar
           ELSE Ok(sofar.val \cup {got.val[4]})
Candidates(area) ==
  FoldLeft(LAMBDA sofar, i : CandidateAt(sofar, block_addr(area, i - 1)), Ok({}), [i \in 1 .. RingLen |-> i])

\* The mappings of a checkpoint, or no answer when one of its blocks is not what it
\* should be.
MappingAt(sofar, addr) ==
  IF sofar.err # "" \/ sofar.val = {} THEN sofar
  ELSE IF addr = {} THEN Ok({})
  ELSE LET got == read_block(CHOOSE x \in addr : TRUE)
       IN  CASE got.err # "" -> got
             [] got.err = "" /\ (~got.val[3] \/ got.val[2] \notin {"nx", "map"}) -> Ok({})
             [] got.err = "" /\ got.val[3] /\ got.val[2] = "map" -> Ok({m \o got.val[4] : m \in sofar.val})
             [] OTHER -> sofar
gather_mappings(area, sb) ==
  IF sb.len = 0 \/ sb.len > RingLen \/ sb.index >= RingLen THEN Ok({})
  ELSE FoldLeft(LAMBDA sofar, j : MappingAt(sofar, block_addr(area, (sb.index + j - 1) % RingLen)),
                Ok({<<>>}), [j \in 1 .. sb.len |-> j])

RECURSIVE NewestOf(_, _)
RECURSIVE WithMappings(_, _, _, _)
NewestOf(area, candidates) ==
  IF candidates = {} THEN Err("NotFound")
  ELSE LET sb == CHOOSE sb \in candidates : \A other \in candidates : other.xid <= sb.xid
       IN  WithMappings(gather_mappings(area, sb), area, sb, candidates \ {sb})
WithMappings(got, area, sb, older) ==
  IF got.err # "" THEN got
  ELSE IF got.val = {} THEN NewestOf(area, older)
  ELSE Ok([superblock |-> sb, mappings |-> CHOOSE m \in got.val : TRUE])
InArea(area, candidates) ==
  IF candidates.err # "" THEN candidates ELSE NewestOf(area, candidates.val)
WithArea(area) == IF area.err # "" THEN area ELSE InArea(area.val, Candidates(area.val))
latest_checkpoint(zero) ==
  WithArea(IF zero.is_tree THEN read_descriptor_tree(zero.base)
           ELSE Ok({[start |-> 0, phys |-> zero.base, count |-> RingLen]}))

(***************************************************************************)
(* The object map and the catalog.  Both are B-trees; a search takes, in   *)
(* an inner node, the last child whose first key is not above the key.     *)
(***************************************************************************)
\* The last entry not above the key, under the order of whole keys.
find_le(entries, key) == {i \in DOMAIN entries : entries[i].key <= key /\ (i = Len(entries) \/ entries[i + 1].key > key)}
child_index(entries, key) == IF entries[1].key > key THEN 1 ELSE CHOOSE i \in find_le(entries, key) : TRUE

RECURSIVE descend_le(_, _)
descend_le(got, key) ==
  IF got.err # "" THEN got
  ELSE IF got.val.leaf THEN Ok({got.val.entries[i] : i \in find_le(got.val.entries, key)})
  ELSE descend_le(Parsed(read_block(got.val.entries[child_index(got.val.entries, key)].val), "node"), key)
\* The address of an object as of a transaction: that of the newest mapping not after
\* it, unless it belongs to another object or says the object is deleted.
Mapped(got, oid) ==
  IF got.err # "" THEN got
  ELSE Ok({e.val.paddr : e \in {e \in got.val : e.key \div 100 = oid /\ ~e.val.del}})
omap_resolve(omap, oid, xid) ==
  Mapped(descend_le(Parsed(read_block(omap.tree), "node"), oid * 100 + xid), oid)

NodeAt(mapping) ==
  IF mapping.err # "" THEN mapping
  ELSE IF mapping.val = {} THEN Err("NotFound")
  ELSE Parsed(read_block(CHOOSE x \in mapping.val : TRUE), "node")
resolve_node(catalog, oid) == NodeAt(omap_resolve(catalog.omap, oid, catalog.xid))

\* One record of (object, kind), by descent.
Headers(entries) == [i \in DOMAIN entries |-> [key |-> header(entries[i].key), val |-> entries[i].val]]
RECURSIVE descend(_, _, _)
descend(catalog, got, key) ==
  IF got.err # "" THEN got
  ELSE IF got.val.leaf THEN Ok({e.val : e \in {e \in ToSet(got.val.entries) : header(e.key) = key}})
  ELSE descend(catalog, resolve_node(catalog,
         got.val.entries[child_index(Headers(got.val.entries), key)].val), key)
find_record(catalog, obj, kind) ==
  descend(catalog, resolve_node(catalog, catalog.root), header(Key(obj, kind, 0)))

\* The records of an object (of every object: None) in order, and how the walk ended.
\* A subtree that ends before the object, or starts behind it, is left out.
subtree_ends_at(entries, i, target) == i < Len(entries) /\ obj_id(entries[i + 1].key) <= target
subtree_ends_before(entries, i, target) == i < Len(entries) /\ obj_id(entries[i + 1].key) < target
MaxDepth == 32
RECURSIVE walk(_, _, _, _, _)
walk(catalog, got, bound, depth, sofar) ==
  IF got.err # "" THEN [err |-> got.err, val |-> sofar]
  ELSE IF depth >= MaxDepth THEN [err |-> "Malformed", val |-> sofar]
  ELSE IF got.val.leaf
  THEN Ok(sofar \o SelectSeq(got.val.entries, LAMBDA e : bound = None \/ obj_id(e.key) = bound))
  ELSE FoldLeft(LAMBDA acc, i :
         IF acc.err # "" \/ (bound # None /\ (\/ obj_id(got.val.entries[i].key) > bound
                                               \/ subtree_ends_before(got.val.entries, i, bound)))
         THEN acc
         ELSE walk(catalog, resolve_node(catalog, got.val.entries[i].val), bound, depth + 1, acc.val),
         Ok(sofar), [i \in DOMAIN got.val.entries |-> i])
visit_records_for(catalog, obj) == walk(catalog, resolve_node(catalog, catalog.root), obj, 0, <<>>)
OfKind(got, kind) ==
  IF got.err # "" THEN Err(got.err) ELSE Ok(SelectSeq(got.val, LAMBDA e : kind_of(e.key) = kind))
records_of_kind(catalog, kind) == OfKind(visit_records_for(catalog, None), kind)

(***************************************************************************)
(* The volume, its files and directories.                                  *)
(***************************************************************************)
\* The superblock of volume i through the container's object map.
SuperblockAt(mapping) ==
  IF mapping.err # "" THEN mapping
  ELSE IF mapping.val = {} THEN Err("NotFound")
  ELSE Parsed(read_block(CHOOSE x \in mapping.val : TRUE), "fs")
volume(sb, omap, i) == SuperblockAt(omap_resolve(omap, sb.fs_oids[i], sb.xid))
Joined(sofar, got) ==
  IF sofar.err # "" THEN sofar ELSE IF got.err # "" THEN got ELSE Ok(Append(sofar.val, got.val))
volumes(sb, omap) ==
  FoldLeft(LAMBDA sofar, i : Joined(sofar, volume(sb, omap, i)), Ok(<<>>), [i \in DOMAIN sb.fs_oids |-> i])
\* The Data volume, else the System volume, else the first.
select_volume_index(found) ==
  Min({i \in DOMAIN found : \/ found[i].role = "data"
                            \/ found[i].role = "system" /\ \A j \in DOMAIN found : found[j].role # "data"
                            \/ \A j \in DOMAIN found : found[j].role \notin {"data", "system"}})

OpenedVolume(checkpoint, i, sb, omap) ==
  IF omap.err # "" THEN omap
  ELSE Ok([xid |-> checkpoint.superblock.xid, mappings |-> checkpoint.mappings, index |-> i,
           catalog |-> [root |-> sb.root, omap |-> omap.val, xid |-> checkpoint.superblock.xid],
           snap_meta |-> sb.snap_meta])
OpenVolume(checkpoint, i, sb) == OpenedVolume(checkpoint, i, sb, Parsed(read_block(sb.omap), "omap"))
WithVolumes(checkpoint, found) ==
  IF found.err # "" THEN found
  ELSE OpenVolume(checkpoint, select_volume_index(found.val), found.val[select_volume_index(found.val)])
WithContainerMap(checkpoint, omap) ==
  IF omap.err # "" THEN omap ELSE WithVolumes(checkpoint, volumes(checkpoint.superblock, omap.val))
WithCheckpoint(checkpoint) ==
  IF checkpoint.err # "" THEN checkpoint
  ELSE WithContainerMap(checkpoint.val, Parsed(read_block(checkpoint.val.superblock.omap), "omap"))
WithZero(zero) == IF zero.err # "" THEN zero ELSE WithCheckpoint(latest_checkpoint(zero.val))
OpenContainer == WithZero(Parsed(read_block(0), "nx"))

\* A child by name: among the entries whose stored hash is that of the name, or else
\* among the others.  The walk ends at the entry that is found.
EntryNamed(e, name, by_hash) ==
  /\ kind_of(e.key) = DirRec /\ sub_of(e.key) = name
  /\ container.hashed => (e.val.hash = NameHash(name)) = by_hash
Looked(got, name) ==
  LET first == SelectSeq(got.val, LAMBDA e : EntryNamed(e, name, TRUE))
      second == SelectSeq(got.val, LAMBDA e : EntryNamed(e, name, FALSE))
  IN  IF first # <<>> THEN Ok(first[1].val.file_id)
      ELSE IF got.err # "" THEN Err(got.err)
      ELSE IF second = <<>> THEN Err("NotFound")
      ELSE Ok(second[1].val.file_id)
Descended(catalog, dir, name) ==
  IF dir.err # "" THEN dir ELSE Looked(visit_records_for(catalog, dir.val), name)
resolve_path(catalog, path) ==
  FoldLeft(LAMBDA dir, name : Descended(catalog, dir, name), Ok(RootDir), path)
inode_lookup(catalog, obj) == find_record(catalog, obj, Inode)

ByLogical(got) ==
  IF got.err # "" THEN got
  ELSE Ok([i \in DOMAIN got.val |-> [logical |-> sub_of(got.val[i].key), length |-> got.val[i].val.length,
                                     phys |-> got.val[i].val.phys]])
FileWith(extents, size) == IF extents.err # "" THEN extents ELSE Ok([size |-> size, extents |-> extents.val])
File_open(catalog, stream, size) ==
  FileWith(ByLogical(OfKind(visit_records_for(catalog, stream), FileExtent)), size)
\* The last extent that starts at or before a position, when it reaches it.
ExtentAt(extents, pos) ==
  {e \in ToSet(extents) : /\ pos \in e.logical .. e.logical + e.length - 1
                          /\ \A f \in ToSet(extents) : f.logical <= pos => f.logical <= e.logical}
BlocksAt(file, offset, n) == [i \in 1 .. n |-> {e.phys + offset + i - 1 - e.logical : e \in ExtentAt(file.extents, offset + i - 1)}]
DataBlock(x) == IF store[x][2] = "data" THEN store[x][4] ELSE None
ReadBlocks(at) ==
  IF \E i \in DOMAIN at : unreadable \in at[i] THEN Err("Io")
  ELSE Ok([i \in DOMAIN at |-> IF at[i] = {} THEN 0 ELSE DataBlock(CHOOSE x \in at[i] : TRUE)])
File_read_at(file, offset, len) ==
  IF offset >= file.size THEN Ok(<<>>) ELSE ReadBlocks(BlocksAt(file, offset, Min({len, file.size - offset})))
read_all(file) == File_read_at(file, 0, file.size)
ReadWhole(file) == IF file.err # "" THEN file ELSE read_all(file.val)

(***************************************************************************)
(* The calls of the driver.  They resolve a path once while it is the last *)
(* one used: the cache holds its object, its inode and its file once they  *)
(* were read.  A call leaves what it resolved before it failed.            *)
(***************************************************************************)
Fs(e) == IF e \in {"", "NotFound", "Io", "NotAFile", "NotADirectory"} THEN e ELSE "Filesystem"
Navigated(path, obj) ==
  IF obj.err # "" THEN [err |-> obj.err, cache |-> path_cache]
  ELSE [err |-> "", cache |-> <<[path |-> path, obj |-> obj.val, inode |-> {}, file |-> {}]>>]
navigate(path) ==
  IF path_cache # <<>> /\ path_cache[1].path = path THEN [err |-> "", cache |-> path_cache]
  ELSE Navigated(path, resolve_path(apfs.val.catalog, path))
InodeOf(at, inode) ==
  IF inode.err # "" THEN [at EXCEPT !.err = inode.err]
  ELSE IF inode.val = {} THEN [at EXCEPT !.err = "NotFound"]
  ELSE [at EXCEPT !.cache[1].inode = inode.val]
WithInode(at) ==
  IF at.err # "" \/ at.cache[1].inode # {} THEN at
  ELSE InodeOf(at, inode_lookup(apfs.val.catalog, at.cache[1].obj))
cache_inode(path) == WithInode(navigate(path))
TheInode(at) == CHOOSE inode \in at.cache[1].inode : TRUE
FileOf(at, file) == IF file.err # "" THEN [at EXCEPT !.err = file.err] ELSE [at EXCEPT !.cache[1].file = {file.val}]
Uncompressed(at, got) ==
  IF \E e \in ToSet(got.val) : kind_of(e.key) = Xattr /\ e.val.name = "decmpfs"
  THEN [at EXCEPT !.err = "Filesystem"]
  ELSE IF got.err # "" THEN [at EXCEPT !.err = got.err]
  ELSE FileOf(at, File_open(apfs.val.catalog, TheInode(at).private_id, TheInode(at).size))
WithFile(at) ==
  IF at.err # "" \/ at.cache[1].file # {} THEN at
  ELSE IF TheInode(at).kind # "file" THEN [at EXCEPT !.err = "NotAFile"]
  ELSE Uncompressed(at, visit_records_for(apfs.val.catalog, at.cache[1].obj))
cache_regular_file(path) == WithFile(cache_inode(path))

\* An entry of a listing: what its inode says or, when that cannot be read, what the
\* directory says of it.
ListedAs(e, inode) ==
  [name |-> sub_of(e.key), file_id |-> e.val.file_id,
   is_dir |-> IF inode.err = "" /\ inode.val # {} THEN \E n \in inode.val : n.kind = "dir" ELSE e.val.kind = "dir",
   size |-> IF inode.err = "" THEN Max({0} \cup {n.size : n \in inode.val}) ELSE 0]
Listed(got) ==
  IF got.err # "" THEN got
  ELSE Ok([i \in DOMAIN got.val |-> ListedAs(got.val[i], inode_lookup(apfs.val.catalog, got.val[i].val.file_id))])
read_object_directory(obj) == Listed(OfKind(visit_records_for(apfs.val.catalog, obj), DirRec))

Answer(at, got) == [err |-> Fs(got.err), val |-> got.val, cache |-> at.cache]
Failed(at) == [err |-> Fs(at.err), val |-> <<>>, cache |-> at.cache]
TheFile(at) == CHOOSE file \in at.cache[1].file : TRUE
ReadFrom(at, offset, len) ==
  IF at.err # "" THEN Failed(at) ELSE Answer(at, File_read_at(TheFile(at), offset, len))
ReadAll(at) == IF at.err # "" THEN Failed(at) ELSE Answer(at, read_all(TheFile(at)))
ReadDir(at) ==
  CASE at.err # "" -> Failed(at)
    [] at.err = "" /\ TheInode(at).kind # "dir" -> Failed([at EXCEPT !.err = "NotADirectory"])
    [] OTHER -> Answer(at, read_object_directory(at.cache[1].obj))
Metadata(at) ==
  IF at.err # "" THEN Failed(at)
  ELSE Answer(at, Ok([is_dir |-> TheInode(at).kind = "dir", size |-> TheInode(at).size]))
found(at) ==
  IF at.err \in {"", "NotFound"} THEN Answer(at, Ok(at.err = "")) ELSE Failed(at)
IsDir(at) ==
  IF at.err \in {"", "NotFound"} THEN Answer(at, Ok(at.err = "" /\ TheInode(at).kind = "dir")) ELSE Failed(at)
\* An open moves what was cached into the handle, through which the file is then read
\* or the directory listed.
Taken(answer) == [answer EXCEPT !.cache = <<>>]
OpenFile(at) == IF at.err # "" THEN Failed(at) ELSE Taken(ReadAll(at))
OpenAndRead(at) ==
  CASE at.err # "" -> Failed(at)
    [] at.err = "" /\ TheInode(at).kind = "dir" -> Taken(ReadDir(at))
    [] OTHER -> OpenFile(WithFile(at))

(***************************************************************************)
(* Snapshots, and what was deleted since.                                  *)
(***************************************************************************)
SnapshotList(got) ==
  IF got.err # "" THEN got
  ELSE Ok([i \in DOMAIN got.val |-> [xid |-> obj_id(got.val[i].key), name |-> got.val[i].val.name,
                                     sblock |-> got.val[i].val.sblock]])
snapshots == SnapshotList(records_of_kind([apfs.val.catalog EXCEPT !.root = apfs.val.snap_meta], SnapMetadata))
SnapshotWith(snapshot, sb, omap) ==
  IF omap.err # "" THEN omap ELSE Ok([root |-> sb.root, omap |-> omap.val, xid |-> snapshot.xid])
SnapshotOver(snapshot, sb) ==
  IF sb.err # "" THEN sb ELSE SnapshotWith(snapshot, sb.val, Parsed(read_block(sb.val.omap), "omap"))
open_snapshot(snapshot) == SnapshotOver(snapshot, Parsed(read_block(snapshot.sblock), "fs"))
NamedIn(list, name) ==
  LET hits == SelectSeq(list.val, LAMBDA s : s.name = name)
  IN  IF list.err # "" THEN list ELSE IF hits = <<>> THEN Err("NotFound") ELSE open_snapshot(hits[1])
open_snapshot_by_name(name) == NamedIn(snapshots, name)

\* A file of a snapshot by its path.
InodeRead(catalog, inode) ==
  CASE inode.err # "" -> inode
    [] inode.err = "" /\ inode.val = {} -> Err("NotFound")
    [] OTHER -> LET n == CHOOSE n \in inode.val : TRUE
                IN  ReadWhole(File_open(catalog, n.private_id, n.size))
PathRead(catalog, obj) == IF obj.err # "" THEN obj ELSE InodeRead(catalog, inode_lookup(catalog, obj.val))
SnapshotRead(catalog, path) ==
  IF catalog.err # "" THEN catalog ELSE PathRead(catalog.val, resolve_path(catalog.val, path))

\* The name of each step up to the root; a step without one ends the path.
RECURSIVE reconstruct_path(_, _, _, _)
reconstruct_path(inodes, names, obj, depth) ==
  LET named == {e \in ToSet(names) : \E n \in ToSet(inodes) :
                  /\ obj_id(n.key) = obj /\ obj_id(e.key) = n.val.parent /\ e.val.file_id = obj}
      step == CHOOSE e \in named : TRUE
  IN  IF obj = RootDir \/ depth = 0 \/ named = {} THEN <<>>
      ELSE Append(reconstruct_path(inodes, names, obj_id(step.key), depth - 1), sub_of(step.key))
\* What the snapshot has and the live volume has not, with its path and its content.
Deleted(catalog, live, inodes, names) ==
  IF live.err # "" THEN live ELSE IF inodes.err # "" THEN inodes ELSE IF names.err # "" THEN names
  ELSE Ok({[obj |-> obj_id(n.key), path |-> reconstruct_path(inodes.val, names.val, obj_id(n.key), 4),
            content |-> ReadWhole(File_open(catalog, n.val.private_id, n.val.size))] :
             n \in {n \in ToSet(inodes.val) : \A l \in ToSet(live.val) : obj_id(l.key) # obj_id(n.key)}})
diff_snapshot(catalog) ==
  IF catalog.err # "" THEN catalog
  ELSE Deleted(catalog.val, records_of_kind(apfs.val.catalog, Inode),
               records_of_kind(catalog.val, Inode), records_of_kind(catalog.val, DirRec))

(***************************************************************************)
(* The space manager, and catalog leaves in free space.                    *)
(***************************************************************************)
resolve_ephemeral(oid) == {m.paddr : m \in {m \in ToSet(apfs.val.mappings) : m.oid = oid}}
spaceman == Parsed(read_block(CHOOSE x \in resolve_ephemeral(SpacemanOid) : TRUE), "spaceman")
CibIn(cab, index) == IF cab.err # "" THEN cab ELSE IF index >= Len(cab.val) THEN Err("Malformed") ELSE Ok(cab.val[index + 1])
cib_address(sm, chunk) ==
  LET index == chunk \div ChunksPerCib
  IN  IF index >= Cibs THEN Err("Malformed")
      ELSE IF sm.cabs = 0 THEN Ok(sm.addrs[index + 1])
      ELSE CibIn(Parsed(read_block(sm.addrs[index \div Cibs + 1]), "cab"), index % Cibs)
InfoIn(cib, i) == IF cib.err # "" THEN cib ELSE Ok(cib.val[i + 1])
InfoAt(address, chunk) ==
  IF address.err # "" THEN address ELSE InfoIn(Parsed(read_block(address.val), "cib"), chunk % ChunksPerCib)
chunk_info(sm, chunk) == InfoAt(cib_address(sm, chunk), chunk)
\* The blocks of a chunk, by their place in it, that are allocated.
BitmapOf(info) ==
  CASE info.err # "" -> info
    [] info.err = "" /\ info.val.bitmap = 0 ->
         Ok(IF info.val.free = 0 /\ info.val.count # 0 THEN 0 .. info.val.count - 1 ELSE {})
    [] OTHER -> Parsed(read_block(info.val.bitmap), "bitmap")
ChunkBitmap(sm, chunk) == BitmapOf(chunk_info(sm, chunk))

push_free(extents, run) ==
  IF extents # <<>> /\ Last(extents).start + Last(extents).length = run.start
  THEN [extents EXCEPT ![Len(extents)].length = @ + run.length]
  ELSE Append(extents, run)
\* The runs of free blocks of a chunk.
RunsFrom(chunk, free, starts) ==
  [i \in DOMAIN starts |-> [start |-> chunk * ChunkBlocks + starts[i],
                            length |-> Min({e \in starts[i] .. ChunkBlocks : e \notin free}) - starts[i]]]
Runs(chunk, free) == RunsFrom(chunk, free, Ascending({s \in free : s - 1 \notin free}))
FreeIn(sofar, chunk, bitmap) ==
  IF sofar.err # "" THEN sofar ELSE IF bitmap.err # "" THEN bitmap
  ELSE Ok(FoldLeft(push_free, sofar.val, Runs(chunk, (0 .. ChunkBlocks - 1) \ bitmap.val)))
free_extents(sm) ==
  IF sm.err # "" THEN sm
  ELSE FoldLeft(LAMBDA sofar, c : FreeIn(sofar, c - 1, ChunkBitmap(sm.val, c - 1)), Ok(<<>>), [c \in 1 .. Chunks |-> c])

salvage_block(block) == block[3] /\ block[2] = "node" /\ block[4].sub = "fs" /\ block[4].leaf
\* The stale leaves of a chunk; the allocated blocks are not read.
ScanChunk(sofar, chunk, bitmap) ==
  IF sofar.err # "" THEN sofar ELSE IF bitmap.err # "" THEN bitmap
  ELSE IF \E k \in 0 .. ChunkBlocks - 1 : k \notin bitmap.val /\ unreadable = chunk * ChunkBlocks + k THEN Err("Io")
  ELSE Ok(sofar.val \cup {x \in ChunkOf(chunk) : x % ChunkBlocks \notin bitmap.val /\ salvage_block(store[x])})
scan_unallocated(sm) ==
  IF sm.err # "" THEN sm
  ELSE FoldLeft(LAMBDA sofar, c : ScanChunk(sofar, c - 1, ChunkBitmap(sm.val, c - 1)), Ok({}), [c \in 1 .. Chunks |-> c])

(***************************************************************************)
(* The steps.                                                              *)
(***************************************************************************)
Library(got) == [err |-> got.err, val |-> got.val, cache |-> path_cache]
Perform(call) ==
  CASE call.op = "read" -> ReadAll(cache_regular_file(call.path))
    [] call.op = "read_at" -> ReadFrom(cache_regular_file(call.path), call.offset, call.len)
    [] call.op = "open" -> OpenAndRead(cache_inode(call.path))
    [] call.op = "read_dir" -> ReadDir(cache_inode(call.path))
    [] call.op = "metadata" -> Metadata(cache_inode(call.path))
    [] call.op = "try_exists" -> found(navigate(call.path))
    [] call.op = "try_is_dir" -> IsDir(cache_inode(call.path))
    [] call.op = "snapshot_read" -> Library(SnapshotRead(open_snapshot_by_name(call.name), call.path))
    [] call.op = "deleted" -> Library(diff_snapshot(open_snapshot_by_name(call.name)))
    [] call.op = "free_extents" -> Library(free_extents(spaceman))
    [] call.op = "scan" -> Library(scan_unallocated(spaceman))

Attach(b) ==
  /\ left # "running" /\ bad = Unset
  /\ left # "whole" => b = None
  /\ bad' = b
  /\ UNCHANGED <<container, checkpoints, store, left, apfs, path_cache, apfs_calls, reply>>
OpenApfs ==
  /\ bad # Unset /\ apfs = <<>>
  /\ apfs' = OpenContainer
  /\ UNCHANGED <<container, checkpoints, store, left, bad, path_cache, apfs_calls, reply>>
CallApfs ==
  /\ apfs # <<>> /\ apfs.err = "" /\ apfs_calls < Len(ApfsScript)
  /\ \E answer \in {Perform(ApfsScript[apfs_calls + 1])} :
       /\ reply' = [err |-> answer.err, val |-> answer.val]
       /\ path_cache' = answer.cache
  /\ apfs_calls' = apfs_calls + 1
  /\ UNCHANGED <<container, checkpoints, store, left, bad, apfs>>

(***************************************************************************)
(* What must hold.                                                         *)
(***************************************************************************)
\* Checkpoints of which both blocks still stand in the ring as they were written.
Standing ==
  {n \in DOMAIN checkpoints : \A j \in 0 .. 1 : LET b == store[RingAddr(RingIndex(n) + j)] IN b[1] = n /\ b[3]}
\* latest_checkpoint, volumes: what is opened is the newest checkpoint that stands and
\* its Data (else System) volume, whatever a crash or a lost block left in the ring
\* around it; and the open fails only for an unreadable block or when none stands.
NewestCheckpointOpened ==
  apfs # <<>> =>
    IF apfs.err = "" THEN apfs.val.xid = Max(Standing) /\ apfs.val.index = container.active
    ELSE (apfs.err = "Io" /\ bad # None) \/ (apfs.err = "NotFound" /\ Standing = {})

\* What a volume holds, by its items and streams.
ChildOf(c, dir, name) == {o \in DOMAIN c.items \ {RootDir} : c.items[o].parent = dir /\ c.items[o].name = name}
ObjectAt(c, path) == FoldLeft(LAMBDA at, name : UNION {ChildOf(c, o, name) : o \in at}, {RootDir}, path)
ValueAt(c, o, i) ==
  Max({0} \cup {e.vals[i - e.logical + 1] :
                  e \in {e \in c.streams[c.items[o].stream] : i \in e.logical .. e.logical + e.length - 1}})
ContentOf(c, o) ==
  IF c.items[o].kind = "dir" THEN <<>> ELSE [i \in 1 .. c.items[o].size |-> ValueAt(c, o, i - 1)]
EntriesOf(c, dir) ==
  {[name |-> c.items[o].name, file_id |-> o, is_dir |-> c.items[o].kind = "dir", size |-> c.items[o].size] :
     o \in {o \in DOMAIN c.items \ {RootDir} : c.items[o].parent = dir}}
RECURSIVE PathTo(_, _)
PathTo(c, o) == IF o = RootDir THEN <<>> ELSE Append(PathTo(c, c.items[o].parent), c.items[o].name)
WhyNot(c, at, want) ==
  IF at = {} THEN "NotFound"
  ELSE LET o == CHOOSE o \in at : TRUE
       IN  CASE want = "dir" /\ c.items[o].kind # "dir" -> "NotADirectory"
             [] want = "file" /\ c.items[o].kind # "file" -> "NotAFile"
             [] want \in {"file", "any"} /\ c.items[o].compressed -> "Filesystem"
             [] OTHER -> ""
\* A listing in which the inode of an entry may not have been readable.
ListsAll(val, entries) ==
  /\ Len(val) = Cardinality(entries)
  /\ \A e \in entries : \E i \in DOMAIN val :
       val[i] = e \/ (unreadable # None /\ val[i] = [e EXCEPT !.size = 0])
Wanted(op) ==
  CASE op \in {"read", "read_at"} -> "file" [] op = "read_dir" -> "dir" [] op = "open" -> "any" [] OTHER -> ""
\* A call on the live volume answers what it holds.
LiveTrue(c, call, at) ==
  LET o == CHOOSE o \in at : TRUE
      why == WhyNot(c, at, Wanted(call.op))
  IN  CASE call.op = "try_exists" -> reply = Ok(at # {})
        [] call.op = "try_is_dir" -> reply = Ok(at # {} /\ c.items[o].kind = "dir")
        [] call.op \notin {"try_exists", "try_is_dir"} /\ why # "" -> reply = Err(why)
        [] call.op = "read" /\ why = "" -> reply = Ok(ContentOf(c, o))
        [] call.op = "read_at" /\ why = "" ->
             reply = Ok(SubSeq(ContentOf(c, o), call.offset + 1, Min({call.offset + call.len, c.items[o].size})))
        [] call.op = "metadata" /\ why = "" ->
             reply = Ok([is_dir |-> c.items[o].kind = "dir", size |-> c.items[o].size])
        [] OTHER -> /\ reply.err = ""
                    /\ IF c.items[o].kind = "dir" THEN ListsAll(reply.val, EntriesOf(c, o))
                       ELSE reply.val = ContentOf(c, o)
DeletedSince(old, c) ==
  {[obj |-> o, path |-> PathTo(old, o), content |-> Ok(ContentOf(old, o))] : o \in DOMAIN old.items \ DOMAIN c.items}
\* A call on a snapshot answers what the volume held when it was taken.
SnapshotTrue(k, call) ==
  LET taken == {s \in k.snaps : s.name = call.name}
      old == checkpoints[(CHOOSE s \in taken : TRUE).xid].c
      at == ObjectAt(old, call.path)
  IN  CASE taken = {} -> reply = Err("NotFound")
        [] taken # {} /\ call.op = "deleted" ->
             /\ reply.err = ""
             /\ {d.obj : d \in reply.val} = {d.obj : d \in DeletedSince(old, k.c)}
             /\ \A d \in reply.val : \E e \in DeletedSince(old, k.c) :
                  d.obj = e.obj /\ d.path = e.path /\ (d.content = e.content \/ d.content = Err("Io"))
        [] OTHER -> reply = IF at = {} THEN Err("NotFound") ELSE Ok(ContentOf(old, CHOOSE o \in at : TRUE))
\* The free space is what neither the checkpoint nor a snapshot uses, in maximal runs,
\* and the scan finds the stale leaves there and nowhere else.
SpaceTrue(k, op) ==
  LET free == (0 .. NumAddrs - 1) \ k.used
  IN  IF op = "scan"
      THEN reply.val = {x \in free : store[x][2] = "node" /\ store[x][4].sub = "fs" /\ store[x][4].leaf}
      ELSE /\ UNION {e.start .. e.start + e.length - 1 : e \in ToSet(reply.val)} = free
           /\ \A i \in 1 .. Len(reply.val) - 1 : reply.val[i].start + reply.val[i].length < reply.val[i + 1].start
\* The driver's calls, open_snapshot, diff_snapshot, scan_unallocated: every call
\* answers what the volume, or its snapshot, held at the transaction of the opened
\* checkpoint, the fallback to the one before the newest included; an unreadable block
\* is an I/O error while it lasts, never a file that does not exist or another content,
\* and leaves nothing wrong in the path cache for the calls after it.
CheckpointServed ==
  apfs_calls > 0 =>
    LET k == checkpoints[apfs.val.xid]
        call == ApfsScript[apfs_calls]
    IN  \/ reply.err = "Io" /\ bad # None /\ apfs_calls <= HealsAt
        \/ call.op \in {"deleted", "snapshot_read"} /\ SnapshotTrue(k, call)
        \/ call.op \in {"scan", "free_extents"} /\ SpaceTrue(k, call.op)
        \/ call.op \notin {"deleted", "snapshot_read", "scan", "free_extents"}
           /\ LiveTrue(k.c, call, ObjectAt(k.c, call.path))
=============================================================================
