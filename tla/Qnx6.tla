-------------------------------- MODULE Qnx6 --------------------------------
(***************************************************************************)
(* The QNX6 reader (fs-qnx6, its driver, and the block and path caches): a *)
(* Power-Safe volume that was left at any moment is opened through one of  *)
(* its two superblocks, the snapshot of the other one gives back deleted   *)
(* names, and all of it is read through trees of pointers and a cache of   *)
(* one pointer block per level while reads of the medium may fail.         *)
(*                                                                         *)
(* A block is a sequence of Cells cells <<kind, value>>: a pointer, an     *)
(* inode, a directory record, the length or the text of a long name, or    *)
(* data.  Byte order and checksums are left out: a superblock is whole or  *)
(* not.                                                                    *)
(***************************************************************************)
EXTENDS Integers, FiniteSets, FiniteSetsExt, SequencesExt

CONSTANTS
  NumBlocks,
  NumInodes,
  Cells,      \* cells of a block, and so pointers_per_block
  Direct,     \* pointers of a tree descriptor
  MaxLevels,
  Format,     \* the inodes that the first snapshot holds
  FormatLong, \* and its long names
  Changes,    \* what a writer may do
  MaxTime,    \* how many changes it makes
  MaxSerial,
  Quirks,     \* [second, tail, garble]
  Script,     \* the calls on the mounted volume
  Faults      \* which read of the medium fails, 0 for none

VARIABLES
  tree,       \* the writer's view: [nodes, longs, time]
  stable,     \* the last snapshots written, the newest first
  blocks,     \* the medium
  superblock, \* its two superblocks
  writing,    \* the snapshot being written, as a sequence of at most one
  quirk,      \* what else the medium holds, and how a reused block reads
  stage,      \* "running", "down", "mounted" or "refused"
  rotten,     \* whether a superblock was damaged
  qnx6,       \* the open volume: [active, alternate]
  reader,     \* its pointer cache, and the reads left before one fails
  resolved,   \* the path cache
  calls,      \* how many calls were made
  answer      \* the last call's answer

sessionVars == <<qnx6, reader, resolved, calls, answer>>

Unused == -1
Zero == <<"zero", 0>>
NoNode == [kind |-> "none", created |-> 0, size |-> 0, levels |-> 0, data |-> <<>>]
NamesId == NumInodes + 1
TableId == NumInodes + 2
Span(levels) == Cells ^ levels

(***************************************************************************)
(* The writer (external).  A file is its blocks, <<>> where it has none; a *)
(* snapshot writes what changed to blocks that the last snapshot does not  *)
(* use, and then the older superblock.                                     *)
(***************************************************************************)
\* The blocks of a file's tree: <<level, index>>, the data at level 0.
Nodes(o) ==
  {<<d, k \div Span(d)>> : d \in 0 .. o.levels,
                           k \in {k \in 0 .. Len(o.data) - 1 : o.data[k + 1] # <<>>}}
Rank(n, nodes) == Cardinality({m \in nodes : m[1] < n[1] \/ (m[1] = n[1] /\ m[2] < n[2])})
NthFree(free, n) == CHOOSE b \in free : Cardinality({c \in free : c < b}) = n
Pointed(at, n) == IF n \in DOMAIN at THEN at[n] ELSE Unused

Descriptor(o, at) ==
  [size |-> o.size, levels |-> o.levels,
   pointers |-> [j \in 1 .. Direct |-> Pointed(at, <<o.levels, j - 1>>)]]
BlockOf(o, at, n) ==
  IF n[1] = 0 THEN o.data[n[2] + 1]
  ELSE [c \in 1 .. Cells |-> <<"pointer", Pointed(at, <<n[1] - 1, n[2] * Cells + c - 1>>)>>]

TableBlocks == (NumInodes + Cells - 1) \div Cells
Table(nodes, at) ==
  [NoNode EXCEPT !.size = NumInodes, !.data =
     [b \in 1 .. TableBlocks |-> [c \in 1 .. Cells |->
        LET i == (b - 1) * Cells + c
        IN  IF i > NumInodes THEN Zero
            ELSE <<"inode", [kind |-> nodes[i].kind, created |-> nodes[i].created,
                             tree |-> Descriptor(nodes[i], at[i])]>>]]]

Snapshot(serial, nodes, longs, old) ==
  LET free == (0 .. NumBlocks - 1) \ UNION {DOMAIN s.image : s \in ToSet(old)}
      objects == Append(nodes, longs)
      Same(i) == old # <<>> /\ i # TableId /\ old[1].objects[i] = objects[i]
      nodesOf == [i \in 1 .. TableId |-> IF i = TableId THEN {<<0, b - 1>> : b \in 1 .. TableBlocks}
                                         ELSE Nodes(objects[i])]
      New(i) == IF Same(i) THEN {} ELSE nodesOf[i]
      first == [i \in 1 .. TableId |-> MapThenSumSet(LAMBDA j : Cardinality(New(j)), 1 .. i - 1)]
      at == [i \in 1 .. TableId |->
               IF Same(i) THEN old[1].at[i]
               ELSE [n \in nodesOf[i] |-> NthFree(free, first[i] + Rank(n, nodesOf[i]))]]
      whole == Append(objects, Table(nodes, at))
      used == UNION {{<<i, n>> : n \in nodesOf[i]} : i \in 1 .. TableId}
      Here(b) == CHOOSE u \in used : at[u[1]][u[2]] = b
  IN  [serial |-> serial, objects |-> objects, at |-> at,
       image |-> [b \in {at[u[1]][u[2]] : u \in used} |->
                    LET u == Here(b) IN BlockOf(whole[u[1]], at[u[1]], u[2])],
       inodes |-> Descriptor(whole[TableId], at[TableId]),
       longs |-> Descriptor(longs, at[NamesId])]

SuperblockOf(s) ==
  [ok |-> TRUE, volume |-> 1, blocks |-> NumBlocks, serial |-> s.serial,
   inode_root |-> s.inodes, long_name_root |-> s.longs]
Invalid(sb) == [sb EXCEPT !.ok = FALSE]
CopyOf(serial) == IF serial % 2 = 1 THEN "Primary" ELSE "Secondary"
Over(medium, image) == [b \in DOMAIN medium |-> IF b \in DOMAIN image THEN image[b] ELSE medium[b]]

NoCache == [d \in 1 .. MaxLevels |-> [start |-> Unused, bytes |-> [c \in 1 .. Cells |-> Zero]]]
NoAnswer == [err |-> "", val |-> <<>>, failed |-> FALSE]

\* The second superblock is a copy of the first at first, or still one of an
\* earlier format.
Qnx6Init ==
  /\ quirk \in Quirks
  /\ tree = [nodes |-> Format, longs |-> FormatLong, time |-> 0]
  /\ stable = <<Snapshot(1, Format, FormatLong, <<>>)>>
  /\ blocks = Over([b \in 0 .. NumBlocks - 1 |-> [c \in 1 .. Cells |-> Zero]], stable[1].image)
  /\ LET sb == SuperblockOf(stable[1])
     IN  superblock = [Primary |-> sb,
                       Secondary |-> [sb EXCEPT !.serial = 0,
                                        !.volume = IF quirk.second = "earlier" THEN 2 ELSE 1]]
  /\ writing = <<>> /\ stage = "running" /\ rotten = FALSE /\ qnx6 = <<>>
  /\ reader = [cache |-> NoCache, left |-> 0] /\ resolved = <<>> /\ calls = 0 /\ answer = NoAnswer

\* Record k of a directory.
Record(o, k) == o.data[(k \div Cells) + 1][(k % Cells) + 1]
Records(o) == {k \in 0 .. o.size - 1 : Record(o, k)[1] = "record"}
Child(o, name) ==
  LET own == {k \in Records(o) : Record(o, k)[2].inode # 0 /\ Record(o, k)[2].name = name}
  IN  IF own = {} THEN 0 ELSE Record(o, CHOOSE k \in own : TRUE)[2].inode
\* A directory with record k set, after a new block where it has no room.
WithRecord(o, k, record) ==
  LET more == IF k < Len(o.data) * Cells THEN o.data ELSE Append(o.data, [c \in 1 .. Cells |-> Zero])
  IN  [o EXCEPT !.size = IF k < @ THEN @ ELSE k + 1,
                !.data = [more EXCEPT ![(k \div Cells) + 1][(k % Cells) + 1] = <<"record", record>>]]

\* Deleting a name leaves its record with the inode zero.
Change(c) ==
  /\ stage = "running" /\ writing = <<>> /\ tree.time < MaxTime
  /\ LET now == tree.time + 1
         dir == tree.nodes[c.inode]
     IN  tree' =
           CASE c.op = "create" ->
                  LET i == Min({j \in 1 .. NumInodes : tree.nodes[j].kind = "none"})
                      record == [inode |-> i, name |-> c.name, long |-> c.long]
                      text == <<<<"length", 1>>, <<"name", c.name>>>>
                      longs == IF c.long = Unused THEN tree.longs
                               ELSE [tree.longs EXCEPT !.data[c.long + 1] = text,
                                                       !.size = Cells * Len(tree.longs.data)]
                  IN  [nodes |-> [tree.nodes EXCEPT ![c.inode] = WithRecord(@, c.slot, record),
                                    ![i] = [NoNode EXCEPT !.kind = c.kind, !.created = now]],
                       longs |-> longs, time |-> now]
             [] c.op = "delete" ->
                  LET k == CHOOSE k \in Records(dir) : Record(dir, k)[2].inode # 0
                                                       /\ Record(dir, k)[2].name = c.name
                      record == Record(dir, k)[2]
                  IN  [tree EXCEPT !.time = now,
                         !.nodes = [@ EXCEPT ![c.inode] = WithRecord(@, k, [record EXCEPT !.inode = 0]),
                                             ![record.inode] = NoNode]]
             [] c.op = "write" ->
                  [tree EXCEPT !.time = now, !.nodes[c.inode] =
                     [@ EXCEPT !.size = c.size, !.levels = c.levels,
                        !.data = [b \in DOMAIN c.data |-> IF ~c.data[b] THEN <<>> ELSE
                                    [k \in 1 .. Cells |-> <<"data", 10 * now + b>>]]]]
  /\ UNCHANGED <<stable, blocks, superblock, writing, quirk, stage, rotten, sessionVars>>

\* What a directory, a name and a file allow.
Possible(c) ==
  LET dir == tree.nodes[c.inode]
      kept == {Record(dir, k)[2].inode : k \in Records(dir)}
  IN  CASE c.op = "create" ->
             /\ dir.kind = "directory" /\ Child(dir, c.name) = 0 /\ c.slot <= dir.size
             /\ c.slot \in Records(dir) => Record(dir, c.slot)[2].inode = 0
             /\ \E j \in 1 .. NumInodes : tree.nodes[j].kind = "none"
             /\ c.long # Unused => \A i \in 1 .. NumInodes : tree.nodes[i].kind = "directory" =>
                  \A k \in Records(tree.nodes[i]) :
                    Record(tree.nodes[i], k)[2].inode # 0 => Record(tree.nodes[i], k)[2].long # c.long
        [] c.op = "delete" ->
             /\ dir.kind = "directory" /\ Child(dir, c.name) # 0
             /\ LET o == tree.nodes[Child(dir, c.name)]
                IN  o.kind = "directory" => \A k \in Records(o) : Record(o, k)[2].inode = 0
        [] c.op = "write" -> dir.kind = "file"

Begin ==
  /\ stage = "running" /\ writing = <<>> /\ stable[1].serial < MaxSerial
  /\ Append(tree.nodes, tree.longs) # stable[1].objects
  /\ writing' = <<Snapshot(stable[1].serial + 1, tree.nodes, tree.longs, <<stable[1]>>)>>
  /\ UNCHANGED <<tree, stable, blocks, superblock, quirk, stage, rotten, sessionVars>>

Complete ==
  /\ stage = "running" /\ writing # <<>>
  /\ blocks' = Over(blocks, writing[1].image)
  /\ superblock' = [superblock EXCEPT ![CopyOf(writing[1].serial)] = SuperblockOf(writing[1])]
  /\ stable' = <<writing[1], stable[1]>> /\ writing' = <<>>
  /\ UNCHANGED <<tree, quirk, stage, rotten, sessionVars>>

\* The power fails when none, one or all of the blocks were written, or while the
\* superblock was.
Stop ==
  /\ stage = "running" /\ writing = <<>> /\ stage' = "down"
  /\ UNCHANGED <<tree, stable, blocks, superblock, writing, quirk, rotten, sessionVars>>
CrashBlocks(which) ==
  /\ stage = "running" /\ writing # <<>> /\ stage' = "down"
  /\ LET fresh == DOMAIN writing[1].image \ DOMAIN stable[1].image
         done == CASE which = "none" -> {} [] which = "first" -> {Min(fresh)}
                   [] which = "last" -> {Max(fresh)} [] which = "all" -> fresh
     IN  blocks' = [b \in DOMAIN blocks |-> IF b \in done THEN writing[1].image[b] ELSE blocks[b]]
  /\ writing' = <<>>
  /\ UNCHANGED <<tree, stable, superblock, quirk, rotten, sessionVars>>
CrashSuperblock ==
  /\ stage = "running" /\ writing # <<>> /\ stage' = "down"
  /\ blocks' = Over(blocks, writing[1].image)
  /\ superblock' = [superblock EXCEPT ![CopyOf(writing[1].serial)] = Invalid(@)]
  /\ writing' = <<>>
  /\ UNCHANGED <<tree, stable, quirk, rotten, sessionVars>>

Rot(copy) ==
  /\ stage = "down" /\ ~rotten /\ superblock[copy].ok
  /\ rotten' = TRUE /\ superblock' = [superblock EXCEPT ![copy] = Invalid(@)]
  /\ UNCHANGED <<tree, stable, blocks, writing, quirk, stage, sessionVars>>

(***************************************************************************)
(* The reader.  Its operators take the reader r = [cache, left] and return *)
(* it with a value or an error.                                            *)
(***************************************************************************)
Ok(r, val) == [r |-> r, err |-> "", val |-> val]
Err(r, err) == [r |-> r, err |-> err, val |-> <<>>]
Fails(r) == r.left = 1
Tick(r) == [r EXCEPT !.left = IF @ > 0 THEN @ - 1 ELSE 0]

\* What a cell reads as where a block was used again for something else: a value
\* that is refused, or one that means there is nothing.
As(cell, kind, refused, empty) ==
  IF cell[1] = kind THEN cell[2] ELSE IF cell[1] # "zero" /\ quirk.garble = "refused" THEN refused ELSE empty
AsPointer(cell) == As(cell, "pointer", NumBlocks, Unused)
AsInode(cell) ==
  LET none == [kind |-> "none", created |-> 0, tree |-> [size |-> 0, levels |-> 0, pointers |-> <<>>]]
  IN  As(cell, "inode", [none EXCEPT !.tree.levels = MaxLevels + 1], none)
AsRecord(cell) ==
  LET none == [inode |-> 0, name |-> "", long |-> Unused]
  IN  As(cell, "record", [none EXCEPT !.inode = NumInodes + 1], none)

\* A read that fails leaves a part of the new block in the cache.
read_block(r, depth, block) ==
  LET was == r.cache[depth]
  IN  CASE was.start = block -> Ok(r, was.bytes)
        [] was.start # block /\ Fails(r) ->
             Err([Tick(r) EXCEPT !.cache[depth] =
                    [start |-> Unused, bytes |-> [was.bytes EXCEPT ![1] = blocks[block][1]]]], "Io")
        [] OTHER -> Ok([Tick(r) EXCEPT !.cache[depth] = [start |-> block, bytes |-> blocks[block]]],
                       blocks[block])

\* The pointer at an index of a pointer block that was read.
AtIndex(got, index) == IF got.err # "" THEN got ELSE Ok(got.r, AsPointer(got.val[index + 1]))
validate_block(leaf) ==
  IF leaf.err = "" /\ leaf.val >= NumBlocks THEN Err(leaf.r, "InvalidBlockPointer") ELSE leaf
read_indirect_pointer(acc, levels, logical, depth) ==
  IF acc.err # "" \/ acc.val = Unused THEN acc
  ELSE IF acc.val >= NumBlocks THEN Err(acc.r, "InvalidBlockPointer")
  ELSE AtIndex(read_block(acc.r, depth, acc.val),
               (logical % Span(levels - depth + 1)) \div Span(levels - depth))
map_tree_block(r, d, logical) ==
  IF logical \div Span(d.levels) >= Direct THEN Err(r, "TreeCapacityExceeded")
  ELSE validate_block(FoldLeft(LAMBDA acc, depth : read_indirect_pointer(acc, d.levels, logical, depth),
                               Ok(r, d.pointers[(logical \div Span(d.levels)) + 1]),
                               [depth \in 1 .. d.levels |-> depth]))

\* Cells `from` to `to` of a mapped block, counted from 0, behind `filled`.
Chunk(filled, mapped, from, to) ==
  IF mapped.err # "" THEN Err(mapped.r, mapped.err)
  ELSE IF mapped.val = Unused THEN Ok(mapped.r, filled \o [c \in 1 .. to - from |-> Zero])
  ELSE IF Fails(mapped.r) THEN Err(Tick(mapped.r), "Io")
  ELSE Ok(Tick(mapped.r), filled \o SubSeq(blocks[mapped.val], from + 1, to))
read_tree_range(r, d, offset, length) ==
  LET end == Min({offset + length, d.size})
      first == offset \div Cells
  IN  IF length = 0 \/ offset >= d.size THEN Ok(r, <<>>)
      ELSE FoldLeft(LAMBDA acc, b :
                      IF acc.err # "" THEN acc
                      ELSE Chunk(acc.val, map_tree_block(acc.r, d, b),
                                 Max({offset - b * Cells, 0}), Min({end - b * Cells, Cells})),
                    Ok(r, <<>>), [b \in 1 .. ((end - 1) \div Cells) - first + 1 |-> first + b - 1])

Exactly(got, length) ==
  IF got.err = "" /\ Len(got.val) < length THEN Err(got.r, "MetadataTooShort") ELSE got
read_tree_exact(r, d, offset, length) == Exactly(read_tree_range(r, d, offset, length), length)

superblock_for(copy) == IF copy = qnx6[1].active THEN qnx6[1].superblock ELSE qnx6[1].alternate[1]
Other(copy) == IF copy = "Primary" THEN "Secondary" ELSE "Primary"
\* As a set of at most one.
recovery_snapshot ==
  {c \in {Other(qnx6[1].active)} :
     /\ qnx6[1].alternate # <<>>
     /\ \/ qnx6[1].alternate[1].inode_root # qnx6[1].superblock.inode_root
        \/ qnx6[1].alternate[1].long_name_root # qnx6[1].superblock.long_name_root}

from_bytes(r, inode, copy, number) ==
  IF inode.tree.levels > MaxLevels THEN Err(r, "InvalidTreeLevels")
  ELSE Ok(r, [number |-> number, snapshot |-> copy, kind |-> inode.kind, created |-> inode.created,
              tree |-> inode.tree])
AtInode(got, copy, number) ==
  IF got.err # "" THEN got ELSE from_bytes(got.r, AsInode(got.val[1]), copy, number)
inode_from(r, root, copy, number) ==
  IF number \notin 1 .. NumInodes THEN Err(r, "InvalidInodeNumber")
  ELSE IF number > root.size THEN Err(r, "MetadataTooShort")
  ELSE AtInode(read_tree_exact(r, root, number - 1, 1), copy, number)
inode_from_snapshot(r, copy, number) == inode_from(r, superblock_for(copy).inode_root, copy, number)

AtText(text) == IF text.err # "" THEN text ELSE Ok(text.r, As(text.val[1], "name", "?", "?"))
long_name_location(length, root, index) ==
  IF length.err # "" THEN length
  ELSE IF As(length.val[1], "length", 2, 0) > 1 THEN Err(length.r, "InvalidLongName")
  ELSE IF As(length.val[1], "length", 2, 0) = 0 THEN Ok(length.r, "")
  ELSE AtText(read_tree_exact(length.r, root, index * Cells + 1, 1))
read_long_name(r, root, index) ==
  long_name_location(read_tree_exact(r, root, index * Cells, 1), root, index)
NameOf(r, copy, record) ==
  IF record.long = Unused THEN Ok(r, record.name)
  ELSE read_long_name(r, superblock_for(copy).long_name_root, record.long)

(***************************************************************************)
(* Directories.  A tombstone is [slot, name, long]: where a record with    *)
(* the inode zero is, and its short name or the index and the checksum of  *)
(* its long one; no two names have the same checksum.  A walk through the  *)
(* records is [r, err, found, tombstones], with the inode or the entries   *)
(* found.                                                                  *)
(***************************************************************************)
AtRecord(r, record) ==
  IF record.inode > NumInodes THEN Err(r, "InvalidDirectoryEntry") ELSE Ok(r, record)
parse_directory_record(got) == IF got.err # "" THEN got ELSE AtRecord(got.r, AsRecord(got.val[1]))
Vacant(record) == record.name = "" /\ record.long = Unused
Tombstone(record, k) == [slot |-> k, name |-> record.name, long |-> record.long]

Walk(r) == [r |-> r, err |-> "", found |-> <<>>, tombstones |-> {}]
Went(walk, got) == [walk EXCEPT !.r = got.r, !.err = got.err]
\* A record that ends a step by itself: unreadable, vacant, or a tombstone.
Passed(got) == got.err # "" \/ Vacant(got.val) \/ got.val.inode = 0
Pass(walk, got, k) ==
  [Went(walk, got) EXCEPT !.tombstones =
     IF got.err # "" \/ Vacant(got.val) THEN @ ELSE @ \cup {Tombstone(got.val, k)}]

\* `lookup_in_snapshot`, and `lookup_recovered` where only the records that match
\* a tombstone count.
Take(walk, inode) == [Went(walk, inode) EXCEPT !.found = <<inode.val>>]
directory_name_matches(walk, named, name, copy, number) ==
  IF named.err # "" \/ named.val # name THEN Went(walk, named)
  ELSE Take(walk, inode_from_snapshot(named.r, copy, number))
LookAt(walk, got, k, copy, name, counts) ==
  IF Passed(got) THEN Pass(walk, got, k)
  ELSE IF counts # <<>> /\ Tombstone(got.val, k) \notin counts[1] THEN Went(walk, got)
  ELSE directory_name_matches(walk, NameOf(got.r, copy, got.val), name, copy, got.val.inode)
Slots(directory) == [k \in 1 .. directory.tree.size |-> k - 1]
lookup_in_snapshot(r, directory, name, counts) ==
  IF directory.kind # "directory" THEN [Walk(r) EXCEPT !.err = "NotADirectory"]
  ELSE FoldLeft(LAMBDA walk, k :
                  IF walk.err # "" \/ walk.found # <<>> THEN walk
                  ELSE LookAt(walk, parse_directory_record(read_tree_exact(walk.r, directory.tree, k, 1)),
                              k, directory.snapshot, name, counts),
                Walk(r), Slots(directory))

\* As a sequence of at most one.
SameDirectory(inode, directory) ==
  Ok(inode.r, IF inode.err # "" \/ inode.val.kind # "directory" \/ inode.val.created # directory.created
              THEN <<>> ELSE <<inode.val>>)
alternate_directory(r, directory) ==
  SameDirectory(inode_from_snapshot(r, Other(qnx6[1].active), directory.number), directory)
Recovers(directory) == directory.snapshot = qnx6[1].active /\ recovery_snapshot # {}

lookup_recovered(walk) ==
  IF walk.err # "" \/ walk.found = <<>> THEN Err(walk.r, "NotFound") ELSE Ok(walk.r, walk.found[1])
LookInAlternate(alternate, name, tombstones) ==
  IF alternate.val = <<>> THEN Err(alternate.r, "NotFound")
  ELSE lookup_recovered(lookup_in_snapshot(alternate.r, alternate.val[1], name, <<tombstones>>))
Looked(walk, directory, name) ==
  IF walk.err # "" THEN Err(walk.r, walk.err)
  ELSE IF walk.found # <<>> THEN Ok(walk.r, walk.found[1])
  ELSE IF ~Recovers(directory) \/ walk.tombstones = {} THEN Err(walk.r, "NotFound")
  ELSE LookInAlternate(alternate_directory(walk.r, directory), name, walk.tombstones)
lookup(r, directory, name) == Looked(lookup_in_snapshot(r, directory, name, <<>>), directory, name)

directory_entry_from_record(walk, named, record, k, copy) ==
  IF named.err # "" THEN Went(walk, named)
  ELSE [Went(walk, named) EXCEPT !.found =
          Append(@, [name |-> named.val, inode |-> record.inode, snapshot |-> copy,
                     deleted |-> copy # qnx6[1].active, from |-> Tombstone(record, k)])]
ListAt(walk, got, k, copy) ==
  IF Passed(got) THEN Pass(walk, got, k)
  ELSE directory_entry_from_record(walk, NameOf(got.r, copy, got.val), got.val, k, copy)
read_directory_snapshot(r, directory) ==
  IF directory.kind # "directory" THEN [Walk(r) EXCEPT !.err = "NotADirectory"]
  ELSE FoldLeft(LAMBDA walk, k :
                  IF walk.err # "" THEN walk
                  ELSE ListAt(walk, parse_directory_record(read_tree_exact(walk.r, directory.tree, k, 1)),
                              k, directory.snapshot),
                Walk(r), Slots(directory))

Recover(entries, e, tombstones) ==
  IF e.from \notin tombstones \/ \E i \in DOMAIN entries : entries[i].name = e.name
  THEN entries ELSE Append(entries, e)
WithRecovered(old, walk) ==
  Ok(old.r, IF old.err # "" THEN walk.found
            ELSE FoldLeft(LAMBDA entries, e : Recover(entries, e, walk.tombstones), walk.found, old.found))
ListInAlternate(alternate, walk) ==
  IF alternate.val = <<>> THEN Ok(alternate.r, walk.found)
  ELSE WithRecovered(read_directory_snapshot(alternate.r, alternate.val[1]), walk)
Listed(walk, directory) ==
  IF walk.err # "" THEN Err(walk.r, walk.err)
  ELSE IF ~Recovers(directory) \/ walk.tombstones = {} THEN Ok(walk.r, walk.found)
  ELSE ListInAlternate(alternate_directory(walk.r, directory), walk)
read_directory(r, directory) == Listed(read_directory_snapshot(r, directory), directory)

resolve_path(r, path) ==
  FoldLeft(LAMBDA acc, name : IF acc.err # "" THEN acc ELSE lookup(acc.r, acc.val, name),
           inode_from_snapshot(r, qnx6[1].active, 1), path)

(***************************************************************************)
(* Opening, and the driver's calls.                                        *)
(***************************************************************************)
\* The sectors where a second superblock is looked for, by their distance from
\* the first in blocks: behind the volume there may be one of another volume.
TailBlocks == IF quirk.tail = "none" THEN 0 ELSE 1
read_superblock(at) ==
  CASE at = NumBlocks -> superblock["Secondary"]
    [] at # NumBlocks /\ quirk.tail = "other" ->
         [superblock["Secondary"] EXCEPT !.ok = TRUE, !.volume = 3, !.blocks = NumBlocks - 1, !.serial = 100]
    [] OTHER -> Invalid(superblock["Secondary"])
immutable_geometry_matches(a, b) == a.volume = b.volume /\ a.blocks = b.blocks

\* The chosen superblock and the other one, or the reason for none.
choose_superblock ==
  LET primary == superblock["Primary"]
      at == IF primary.ok THEN primary.blocks ELSE NumBlocks + TailBlocks
      found == read_superblock(at)
      secondary == IF ~primary.ok /\ found.blocks # at THEN Invalid(found) ELSE found
      Chosen(copy, sb, alternate) ==
        [err |-> "", open |-> [active |-> copy, superblock |-> sb, alternate |-> alternate]]
  IN  CASE primary.ok /\ secondary.ok /\ ~immutable_geometry_matches(primary, secondary) ->
             [err |-> "ConflictingSuperblocks", open |-> <<>>]
        [] primary.ok /\ secondary.ok /\ immutable_geometry_matches(primary, secondary) ->
             IF primary.serial >= secondary.serial THEN Chosen("Primary", primary, <<secondary>>)
             ELSE Chosen("Secondary", secondary, <<primary>>)
        [] primary.ok /\ ~secondary.ok -> Chosen("Primary", primary, <<>>)
        [] ~primary.ok /\ secondary.ok -> Chosen("Secondary", secondary, <<>>)
        [] OTHER -> [err |-> "NoValidSuperblock", open |-> <<>>]

\* `Qnx6::new`: the volume must have a root directory.
Open(fault) ==
  /\ stage = "down"
  /\ LET chosen == choose_superblock
         root == inode_from(reader, chosen.open.superblock.inode_root, chosen.open.active, 1)
         ok == chosen.err = "" /\ root.err = "" /\ root.val.kind = "directory"
     IN  /\ stage' = IF ok THEN "mounted" ELSE "refused"
         /\ qnx6' = IF ok THEN <<chosen.open>> ELSE <<>>
         /\ reader' = [cache |-> IF ok THEN root.r.cache ELSE NoCache, left |-> IF ok THEN fault ELSE 0]
  /\ UNCHANGED <<tree, stable, blocks, superblock, writing, quirk, rotten, resolved, calls, answer>>

resolve(r, path) ==
  IF resolved # <<>> /\ resolved[1].path = path THEN Ok(r, resolved[1].inode) ELSE resolve_path(r, path)

\* Every entry's inode is read; of a directory no size is shown.
metadata_of(acc, inode, e) ==
  IF inode.err # "" THEN Err(inode.r, inode.err)
  ELSE Ok(inode.r, Append(acc.val,
         [name |-> e.name, deleted |-> e.deleted, is_dir |-> inode.val.kind = "directory",
          size |-> IF inode.val.kind = "directory" THEN 0 ELSE inode.val.tree.size]))
read_inode_directory(raw) ==
  IF raw.err # "" THEN Err(raw.r, raw.err)
  ELSE FoldLeft(LAMBDA acc, e :
                  IF acc.err # "" THEN acc
                  ELSE metadata_of(acc, inode_from_snapshot(acc.r, e.snapshot, e.inode), e),
                Ok(raw.r, <<>>), raw.val)

read_file_range(r, inode, offset, length) ==
  IF inode.kind = "directory" THEN Err(r, "NotAFile") ELSE read_tree_range(r, inode.tree, offset, length)

\* `try_exists`, `read`, `read_at` and `read_dir`.
Perform(call, found) ==
  CASE call.op = "try_exists" ->
         IF found.err \in {"", "NotFound"} THEN Ok(found.r, <<found.err = "">>) ELSE Err(found.r, found.err)
    [] call.op # "try_exists" /\ found.err # "" -> Err(found.r, found.err)
    [] call.op = "read" /\ found.err = "" -> read_file_range(found.r, found.val, 0, found.val.tree.size)
    [] call.op = "read_at" /\ found.err = "" -> read_file_range(found.r, found.val, call.offset, call.length)
    [] call.op = "read_dir" /\ found.err = "" -> read_inode_directory(read_directory(found.r, found.val))

Call ==
  /\ stage = "mounted" /\ calls < Len(Script)
  /\ calls' = calls + 1
  /\ \E found \in {resolve(reader, Script[calls'].path)} : \E out \in {Perform(Script[calls'], found)} :
       /\ reader' = out.r
       /\ answer' = [err |-> out.err, val |-> out.val, failed |-> reader.left # 0 /\ out.r.left = 0]
       /\ resolved' = IF found.err # "" THEN resolved
                      ELSE <<[path |-> Script[calls'].path, inode |-> found.val]>>
  /\ UNCHANGED <<tree, stable, blocks, superblock, writing, quirk, stage, rotten, qnx6>>

(***************************************************************************)
(* Properties.                                                             *)
(***************************************************************************)
OfThisVolume == {c \in {"Primary", "Secondary"} : superblock[c].ok /\ superblock[c].volume = 1}
Intact(s) == \A b \in DOMAIN s.image : blocks[b] = s.image[b]
Served == {i \in DOMAIN stable : stable[i].serial = qnx6[1].superblock.serial}

\* `Qnx6::new` opens the snapshot that was written last, wherever the power failed
\* and whatever lies behind the volume: never an older one while the newest is
\* whole, never another volume.  It refuses a volume only for damage, a superblock
\* of an earlier format, or a torn first superblock where the source goes on behind
\* the volume.
NewestSnapshotIsOpened ==
  /\ stage = "mounted" =>
       /\ qnx6[1].superblock.volume = 1
       /\ \A c \in OfThisVolume : superblock[c].serial <= qnx6[1].superblock.serial
  /\ stage = "refused" =>
       \/ rotten
       \/ ~superblock["Primary"].ok /\ quirk.tail # "none"
       \/ quirk.second = "earlier" /\ Len(stable) = 1

\* What lies at a path, as <<snapshot, inode>>: a live name, or one that the last
\* snapshot deleted from a directory that was there before.
Has(i) == i + 1 \in DOMAIN stable /\ superblock[Other(qnx6[1].active)].ok
Deleted(i, d) ==
  LET new == stable[i].objects[d]
      old == stable[i + 1].objects[d]
  IN  IF ~Has(i) \/ old.kind # "directory" \/ old.created # new.created THEN {}
      ELSE {k \in Records(new) \cap Records(old) :
              /\ Record(new, k)[2].inode = 0 /\ Record(old, k)[2].inode # 0
              /\ Tombstone(Record(new, k)[2], k) = Tombstone(Record(old, k)[2], k)
              /\ Child(new, Record(old, k)[2].name) = 0}
At(served, path) ==
  LET Step(acc, name) ==
        IF acc = <<>> \/ stable[acc[1]].objects[acc[2]].kind # "directory" THEN <<>>
        ELSE LET o == stable[acc[1]].objects[acc[2]]
                 gone == IF acc[1] # served THEN {}
                         ELSE {k \in Deleted(served, acc[2]) : Record(o, k)[2].name = name}
                 old == stable[served + 1].objects[acc[2]]
             IN  IF Child(o, name) # 0 THEN <<acc[1], Child(o, name)>>
                 ELSE IF gone # {} THEN <<served + 1, Record(old, CHOOSE k \in gone : TRUE)[2].inode>>
                 ELSE <<>>
  IN  FoldLeft(Step, <<served, 1>>, path)

Shown(i, record, deleted) ==
  LET o == stable[i].objects[record.inode]
      is_dir == o.kind = "directory"
  IN  [name |-> record.name, deleted |-> deleted, is_dir |-> is_dir, size |-> IF is_dir THEN 0 ELSE o.size]
Live(i, d) ==
  LET o == stable[i].objects[d]
  IN  {Shown(i, Record(o, k)[2], FALSE) : k \in {k \in Records(o) : Record(o, k)[2].inode # 0}}
Undeleted(i, d) ==
  {Shown(i + 1, Record(stable[i + 1].objects[d], k)[2], TRUE) : k \in Deleted(i, d)}
Data(o, offset, length) ==
  [j \in 1 .. Max({0, Min({length, o.size - offset})}) |->
     LET p == offset + j - 1
         block == o.data[(p \div Cells) + 1]
     IN  IF block = <<>> THEN Zero ELSE block[(p % Cells) + 1]]

Right(call, i, at, listing) ==
  LET o == stable[at[1]].objects[at[2]]
  IN  CASE call.op = "try_exists" -> answer.val = <<TRUE>>
        [] call.op = "read" -> answer.val = Data(o, 0, o.size)
        [] call.op = "read_at" -> answer.val = Data(o, call.offset, call.length)
        [] call.op = "read_dir" -> listing

\* The volume shows the names and the data of the snapshot it was opened with: an
\* error of a live path means that a read of the medium failed in this very call, no
\* earlier failure and no block of the older snapshot that was used again changes
\* what is read (`BlockCache::read_block`, `lookup`, `read_directory`).  Only a
\* listing also fails when the older snapshot's inodes were overwritten.
SnapshotIsServed ==
  calls > 0 => \A i \in Served : Intact(stable[i]) =>
    LET call == Script[calls]
        at == At(i, call.path)
        o == stable[i].objects[at[2]]
    IN  at # <<>> /\ at[1] = i =>
          IF answer.err = ""
          THEN Right(call, i, at, /\ {e \in ToSet(answer.val) : ~e.deleted} = Live(i, at[2])
                                  /\ \A m, n \in DOMAIN answer.val :
                                       answer.val[m].name = answer.val[n].name => m = n)
          ELSE \/ answer.err = "Io" /\ answer.failed
               \/ answer.err = "NotAFile" /\ o.kind = "directory" /\ call.op \in {"read", "read_at"}
               \/ call.op = "read_dir" /\ Has(i) /\ \E n \in DOMAIN stable[i + 1].at[TableId] :
                    LET b == stable[i + 1].at[TableId][n] IN blocks[b] # stable[i + 1].image[b]

\* While the older snapshot is whole, `lookup` and `read_directory` agree on the
\* deleted names: they give back those that the last snapshot deleted, from the
\* same directory and the same place, with what the older snapshot had in them.
DeletedAreRecovered ==
  calls > 0 /\ ~answer.failed => \A i \in Served :
    Intact(stable[i]) /\ (Has(i) => Intact(stable[i + 1])) =>
      LET call == Script[calls]
          at == At(i, call.path)
      IN  CASE at = <<>> -> answer.err \in {"NotFound", "NotADirectory"} \/ answer.val = <<FALSE>>
            [] at # <<>> /\ answer.err = "" ->
                 Right(call, i, at,
                       ToSet(answer.val) = IF at[1] = i THEN Live(i, at[2]) \cup Undeleted(i, at[2])
                                           ELSE {[e EXCEPT !.deleted = TRUE] : e \in Live(at[1], at[2])})
            [] OTHER -> answer.err \in {"NotAFile", "NotADirectory"}
=============================================================================
