----------------------------- MODULE BtrfsOpen ------------------------------
(***************************************************************************)
(* Opening a Btrfs volume that was left at any moment.  The writer         *)
(* (external: a running Btrfs) never overwrites a tree block that the last *)
(* committed trees use: a transaction writes new blocks, waits for them,   *)
(* and then writes the superblocks of every device; an fsync writes a log  *)
(* tree, waits, and then the first superblock of every device, with the    *)
(* generation it had.  Then there is a crash, some damage, and the devices *)
(* are handed to the reader in some order.                                 *)
(*                                                                         *)
(* A file system tree has one node and a leaf for each of two files; the   *)
(* content of a file is a version number.  A tree block is                 *)
(*   [sum, at, level, owner, gen, key, chunks, ptrs, vals]                 *)
(* where sum tells whether its checksum is right, and a superblock is      *)
(*   [sum, gen, root, chunk, log, backups].                                *)
(***************************************************************************)
EXTENDS BtrfsChunks, TLC

CONSTANTS
  Setups,       \* [devices, zoned] and the bounds [gens, versions, fsyncs, damage]
  SuperMirrors, \* superblock mirrors of a device that is not zoned: 3 in the code
  NumBackups,   \* BTRFS_NUM_BACKUP_ROOTS: 4 in the code
  ZoneCapacity  \* superblocks a zone holds

Files == {1, 2}

VARIABLES
  setup,     \* the setup of this behaviour
  copies,    \* the tree blocks on the devices
  supers,    \* their superblocks: the mirrors, or the records of two zones
  tip,       \* the committed trees
  cur,       \* the files in memory
  log,       \* the log tree
  synced,    \* the versions that a commit or an fsync has made durable
  pend,      \* the writes on their way
  hist,      \* the trees of every generation
  logs,      \* every log tree
  dropped,   \* devices that writes no longer reach
  fsyncs, damage,
  phase,     \* "run", "down", "supplied", "served" or "failed"
  vol        \* the reader

openVars == <<setup, copies, supers, tip, cur, log, synced, pend, hist, logs, dropped,
              fsyncs, damage, phase, vol>>

(***************************************************************************)
(* The layout.  The system chunk is known from the superblock; the chunk   *)
(* tree describes a metadata chunk, and a second one when it has grown.    *)
(***************************************************************************)
MetaAddresses(grown) == IF grown THEN 2 .. 12 ELSE 2 .. 8
Addresses == 0 .. 12
DupDistance == 13

Profile(s) == CASE s.zoned -> "Single" [] Cardinality(s.devices) = 2 -> "Raid1" [] OTHER -> "Dup"
StripesAt(s, off) ==
  CASE s.zoned -> <<[dev |-> 1, off |-> off]>>
    [] ~s.zoned /\ Cardinality(s.devices) = 2 ->
         <<[dev |-> 1, off |-> off], [dev |-> 2, off |-> off]>>
    [] OTHER -> <<[dev |-> 1, off |-> off], [dev |-> 1, off |-> off + DupDistance]>>
ChunkOver(s, first, n) ==
  [logical |-> first, length |-> n, profile |-> Profile(s), sub |-> 0,
   stripes |-> StripesAt(s, first), data |-> FALSE, remapped |-> FALSE]
SystemChunk(s) == ChunkOver(s, 0, 2)
MetaChunks(s, grown) == {ChunkOver(s, 2, 7)} \cup (IF grown THEN {ChunkOver(s, 9, 4)} ELSE {})
HomesOf(s, at) == ToSet(StripesAt(s, at))

Ptr(at, gen) == [at |-> at, gen |-> gen]
Block(at, level, owner, gen, key) ==
  [sum |-> TRUE, at |-> at, level |-> level, owner |-> owner, gen |-> gen, key |-> key,
   chunks |-> {}, ptrs |-> <<>>, vals |-> <<>>]

(***************************************************************************)
(* The trees of a generation, [gen, chunk, root, node, leaf, vals, grown], *)
(* and a log tree, [at, gen, vals, used], as blocks.                       *)
(***************************************************************************)
ChunkBlock(s, t) ==
  [Block(t.chunk.at, 0, "chunk", t.chunk.gen, 0) EXCEPT !.chunks = MetaChunks(s, t.grown)]
RootBlock(t) == [Block(t.root.at, 0, "root", t.root.gen, 0) EXCEPT !.ptrs = <<t.node>>]
NodeBlock(t) == [Block(t.node.at, 1, "fs", t.node.gen, 1) EXCEPT !.ptrs = t.leaf]
LeafBlock(t, f) == [Block(t.leaf[f].at, 0, "fs", t.leaf[f].gen, f) EXCEPT !.vals = <<t.vals[f]>>]
TreeBlocks(s, t) ==
  {ChunkBlock(s, t), RootBlock(t), NodeBlock(t)} \cup {LeafBlock(t, f) : f \in Files}
UsedBy(t) == {t.chunk.at, t.root.at, t.node.at} \cup {t.leaf[f].at : f \in Files}

NoLog == [at |-> <<>>, gen |-> 0, vals |-> <<0, 0>>, used |-> {}]
LogBlocks(l) ==
  {[Block(l.at[1], 0, "log", l.gen, 0) EXCEPT !.ptrs = <<Ptr(l.at[2], l.gen)>>],
   [Block(l.at[2], 0, "log", l.gen, 0) EXCEPT !.vals = l.vals]}

\* The backups hold the newest generations, this one included.
Backups(h, gen) ==
  {[slot |-> g % NumBackups, root |-> h[g].root, chunk |-> h[g].chunk] :
     g \in {g \in DOMAIN h : gen - NumBackups < g /\ g <= gen}}
Super(h, t, l) ==
  [sum |-> TRUE, gen |-> t.gen, root |-> t.root, chunk |-> t.chunk,
   log |-> SubSeq(l.at, 1, 1 % (Len(l.at) + 1)), backups |-> Backups(h, t.gen)]

\* The copies of blocks, on the devices that writes still reach.
Copies(s, blocks, out) ==
  LET homes == {h \in UNION {HomesOf(s, b.at) : b \in blocks} : h.dev \notin out}
  IN  [h \in homes |-> CHOOSE b \in blocks : h \in HomesOf(s, b.at)]

(***************************************************************************)
(* The writer (external).                                                  *)
(***************************************************************************)
NoPend == [kind |-> "none", blocks |-> {}, tip |-> <<>>, log |-> NoLog]
NoVol == [order |-> <<>>, sb |-> <<>>, cands |-> <<>>, k |-> 0, recovery |-> <<>>,
          active |-> 0, view |-> <<>>]

Mkfs == [gen |-> 1, chunk |-> Ptr(0, 1), root |-> Ptr(2, 1), node |-> Ptr(3, 1),
         leaf |-> <<Ptr(4, 1), Ptr(5, 1)>>, vals |-> <<0, 0>>, grown |-> FALSE]

OpenInit ==
  /\ setup \in Setups
  /\ tip = Mkfs /\ hist = (1 :> Mkfs)
  /\ copies = Copies(setup, TreeBlocks(setup, Mkfs), {})
  /\ LET sb == Super(hist, Mkfs, NoLog)
     IN  supers = [d \in setup.devices |-> IF setup.zoned THEN <<<<sb>>, <<>>>>
                                           ELSE [m \in 1 .. SuperMirrors |-> sb]]
  /\ cur = <<0, 0>> /\ synced = <<0, 0>> /\ log = NoLog
  /\ pend = NoPend /\ logs = {} /\ dropped = {} /\ fsyncs = 0 /\ damage = 0
  /\ phase = "run" /\ vol = NoVol

Idle == phase = "run" /\ pend.kind = "none"

Write(f) ==
  /\ Idle /\ cur[f] < setup.versions[f]
  /\ cur' = [cur EXCEPT ![f] = @ + 1]
  /\ UNCHANGED <<setup, copies, supers, tip, log, synced, pend, hist, logs, dropped, fsyncs, damage,
                 phase, vol>>

\* Free blocks are taken from the newest chunk first.
Free(grown) == MetaAddresses(grown) \ (UsedBy(tip) \cup log.used)
NthFree(grown, n) ==
  CHOOSE a \in Free(grown) :
    n = Cardinality({b \in Free(grown) : IF grown THEN b >= a ELSE b <= a})

\* The log holds the files fsynced since the last commit.
Fsync(f) ==
  /\ Idle /\ cur[f] > synced[f] /\ fsyncs < setup.fsyncs
  /\ Cardinality(Free(tip.grown)) >= 2
  /\ LET at == <<NthFree(tip.grown, 1), NthFree(tip.grown, 2)>>
         l == [at |-> at, gen |-> tip.gen + 1, vals |-> [log.vals EXCEPT ![f] = cur[f]],
               used |-> log.used \cup ToSet(at)]
     IN  pend' = [kind |-> "log", blocks |-> LogBlocks(l), tip |-> tip, log |-> l]
  /\ fsyncs' = fsyncs + 1
  /\ UNCHANGED <<setup, copies, supers, tip, cur, log, synced, hist, logs, dropped, damage, phase, vol>>

\* A transaction, which may add a chunk.
Commit(grow) ==
  /\ Idle /\ tip.gen < setup.gens
  /\ grow => ~tip.grown
  /\ LET dirty == {f \in Files : cur[f] # tip.vals[f]}
         gen == tip.gen + 1
         New(i) == Ptr(NthFree(tip.grown \/ grow, i), gen)
         leaf == [f \in Files |-> IF f \notin dirty THEN tip.leaf[f]
                                  ELSE New(2 + Cardinality({g \in dirty : g <= f}))]
         t == [tip EXCEPT !.gen = gen, !.root = New(1), !.node = New(2), !.leaf = leaf,
                          !.vals = cur, !.grown = @ \/ grow,
                          !.chunk = IF grow THEN Ptr(1 - @.at, gen) ELSE @]
     IN  /\ dirty # {} /\ Cardinality(Free(tip.grown \/ grow)) >= 2 + Cardinality(dirty)
         /\ pend' = [kind |-> "commit", tip |-> t, log |-> NoLog,
                     blocks |-> TreeBlocks(setup, t) \ TreeBlocks(setup, tip)]
  /\ UNCHANGED <<setup, copies, supers, tip, cur, log, synced, hist, logs, dropped, fsyncs, damage,
                 phase, vol>>

\* The device cache is flushed before the superblocks are written.
Flush ==
  /\ phase = "run" /\ pend.blocks # {}
  /\ copies' = Copies(setup, pend.blocks, dropped) @@ copies
  /\ hist' = (pend.tip.gen :> pend.tip) @@ hist
  /\ logs' = logs \cup ({pend.log} \ {NoLog})
  /\ pend' = [pend EXCEPT !.blocks = {}]
  /\ UNCHANGED <<setup, supers, tip, cur, log, synced, dropped, fsyncs, damage, phase, vol>>

\* The record of a zoned device is appended to the zone being filled.  Of two
\* full zones the one whose last record is older is reset first.
ZoneFull(z) == Len(z) = ZoneCapacity
WriteZone(zones) ==
  CASE ZoneFull(zones[1]) /\ ZoneFull(zones[2]) ->
         IF Last(zones[1]).gen > Last(zones[2]).gen THEN 2 ELSE 1
    [] ZoneFull(zones[1]) /\ ~ZoneFull(zones[2]) -> 2
    [] OTHER -> 1
Reset(zones) == IF ZoneFull(zones[WriteZone(zones)]) THEN [zones EXCEPT ![WriteZone(zones)] = <<>>]
                ELSE zones

\* The superblocks after the writes S: pairs of a device and a mirror; for a
\* zoned device mirror 1 is the reset of a zone and mirror 2 the record.
SuperWrites(S, sb) ==
  [d \in DOMAIN supers |->
     IF setup.zoned
     THEN LET zones == IF <<d, 1>> \in S THEN Reset(supers[d]) ELSE supers[d]
          IN  IF <<d, 2>> \in S THEN [zones EXCEPT ![WriteZone(zones)] = Append(@, sb)] ELSE zones
     ELSE [m \in DOMAIN supers[d] |-> IF <<d, m>> \in S THEN sb ELSE supers[d][m]]]
SuperTargets(kind) == IF setup.zoned THEN 1 .. 2 ELSE IF kind = "log" THEN {1} ELSE 1 .. SuperMirrors
Targets == (setup.devices \ dropped) \X SuperTargets(pend.kind)
NewSuper == Super(hist, pend.tip, pend.log)

Finish ==
  /\ phase = "run" /\ pend.kind # "none" /\ pend.blocks = {}
  /\ supers' = SuperWrites(Targets, NewSuper)
  /\ tip' = pend.tip /\ log' = pend.log
  /\ synced' = IF pend.kind = "commit" THEN pend.tip.vals
               ELSE [f \in Files |-> IF pend.log.vals[f] > 0 THEN pend.log.vals[f] ELSE synced[f]]
  /\ pend' = NoPend
  /\ UNCHANGED <<setup, copies, cur, hist, logs, dropped, fsyncs, damage, phase, vol>>

\* From here on writes to the device are lost.
DropOut(d) ==
  /\ Idle /\ dropped = {} /\ Cardinality(setup.devices) > 1
  /\ dropped' = {d}
  /\ UNCHANGED <<setup, copies, supers, tip, cur, log, synced, pend, hist, logs, fsyncs, damage, phase,
                 vol>>

\* A crash leaves any part of the writes that were on their way.
CrashQuiet ==
  /\ Idle /\ phase' = "down"
  /\ UNCHANGED <<setup, copies, supers, tip, cur, log, synced, pend, hist, logs, dropped, fsyncs, damage,
                 vol>>
CrashBlocks(S) ==
  /\ phase = "run" /\ S # {}
  /\ copies' = Copies(setup, S, dropped) @@ copies /\ phase' = "down"
  /\ UNCHANGED <<setup, supers, tip, cur, log, synced, pend, hist, logs, dropped, fsyncs, damage, vol>>
CrashSupers(S) ==
  /\ phase = "run" /\ pend.kind # "none" /\ pend.blocks = {}
  /\ supers' = SuperWrites(S, NewSuper) /\ phase' = "down"
  /\ setup.zoned => \A d \in setup.devices : <<d, 2>> \in S => <<d, 1>> \in S
  /\ UNCHANGED <<setup, copies, tip, cur, log, synced, pend, hist, logs, dropped, fsyncs, damage, vol>>

\* Damage to one copy of a block, to all of them, or to a superblock.
RotBlock(at, devs) ==
  /\ phase = "down" /\ damage < setup.damage
  /\ LET homes == {h \in DOMAIN copies : h \in HomesOf(setup, at) /\ h.dev \in devs}
     IN  /\ \E h \in homes : copies[h].sum
         /\ copies' = [h \in homes |-> [copies[h] EXCEPT !.sum = FALSE]] @@ copies
  /\ damage' = damage + 1
  /\ UNCHANGED <<setup, supers, tip, cur, log, synced, pend, hist, logs, dropped, fsyncs, phase, vol>>
RotSuper(d, m) ==
  /\ phase = "down" /\ damage < setup.damage /\ ~setup.zoned
  /\ supers' = [supers EXCEPT ![d][m].sum = FALSE] /\ supers' # supers
  /\ damage' = damage + 1
  /\ UNCHANGED <<setup, copies, tip, cur, log, synced, pend, hist, logs, dropped, fsyncs, phase, vol>>

(***************************************************************************)
(* Superblocks.                                                            *)
(***************************************************************************)
\* The zone report gives the current record, or both last ones to compare.
pair_candidates(zones) ==
  LET first == zones[1]
      second == zones[2]
  IN  CASE first = <<>> /\ second = <<>> -> <<>>
        [] ZoneFull(first) /\ ZoneFull(second) -> <<Last(first), Last(second)>>
        [] ~ZoneFull(first) /\ (second = <<>> \/ ZoneFull(second)) ->
             IF first = <<>> THEN <<second[ZoneCapacity]>> ELSE <<Last(first)>>
        [] ZoneFull(first) /\ ~ZoneFull(second) ->
             IF second = <<>> THEN <<first[ZoneCapacity]>> ELSE <<Last(second)>>
        [] OTHER -> <<>>

read_best_superblock_at_locations(records) ==
  FoldLeft(LAMBDA best, sb : IF sb.sum /\ (best = <<>> \/ sb.gen > best[1].gen) THEN <<sb>> ELSE best,
           <<>>, records)
read_best_superblock(d) ==
  read_best_superblock_at_locations(IF setup.zoned THEN pair_candidates(supers[d]) ELSE supers[d])

\* Mutant: of equal generations the last one is taken.
should_select_last(current, candidate) == candidate.gen >= current.gen

should_select_primary(current, candidate) == candidate.gen > current.gen

\* Backups are tried from the newest to the oldest, first with the live chunk
\* tree and then with their own.
Candidate(gen, root, chunk, replay_log, recovery) ==
  [gen |-> gen, root |-> root, chunk |-> chunk, replay_log |-> replay_log, recovery |-> recovery]
append_unique(cands, c) ==
  IF \E e \in ToSet(cands) : e.root = c.root /\ e.chunk = c.chunk THEN cands ELSE Append(cands, c)
append_backup_candidates(cands, live, b) ==
  append_unique(append_unique(cands, Candidate(b.root.gen, b.root, live, FALSE, <<b.slot>>)),
                Candidate(b.root.gen, b.root, b.chunk, FALSE, <<b.slot>>))
bootstrap_candidates(sb) ==
  FoldLeft(LAMBDA cands, b : append_backup_candidates(cands, sb.chunk, b),
           <<Candidate(sb.gen, sb.root, sb.chunk, TRUE, <<>>)>>,
           SetToSortSeq(sb.backups, LAMBDA a, b : a.root.gen > b.root.gen))

\* The orders in which some of the devices may be supplied.
Orders == {order \in UNION {[1 .. n -> setup.devices] : n \in 1 .. Cardinality(setup.devices)} :
             \A i, j \in DOMAIN order : order[i] = order[j] => i = j}

\* `from_device_sources`: every source needs a superblock of its own.
from_device_sources(order) ==
  /\ phase = "down"
  /\ \E sbs \in {[i \in DOMAIN order |-> read_best_superblock(order[i])]} :
       IF \E i \in DOMAIN sbs : sbs[i] = <<>>
       THEN phase' = "failed" /\ vol' = [NoVol EXCEPT !.order = order]
       ELSE LET primary == FoldLeft(LAMBDA p, i : IF should_select_primary(sbs[p][1], sbs[i][1])
                                                  THEN i ELSE p,
                                    1, [i \in DOMAIN order |-> i])
                sb == sbs[primary][1]
            IN  /\ phase' = "supplied"
                /\ vol' = [NoVol EXCEPT !.order = order, !.sb = <<sb>>, !.k = 1,
                                        !.cands = bootstrap_candidates(sb)]
  /\ UNCHANGED <<setup, copies, supers, tip, cur, log, synced, pend, hist, logs, dropped, fsyncs, damage>>

(***************************************************************************)
(* Trees.                                                                  *)
(***************************************************************************)
\* Mutant: any generation of the block will do.
validate_tree_owner(owner, gen, key, block) ==
  block.owner = owner /\ (key = <<>> \/ key[1] = block.key)

validate_tree_identity(owner, gen, key, block) ==
  block.owner = owner /\ block.gen = gen /\ (key = <<>> \/ key[1] = block.key)

\* `TreeBlock::parse_with_uuids`.
parse_with_uuids(b, at, level) == b.sum /\ b.at = at /\ b.level = level

\* The first replica that holds the block that was asked for.
read_tree_block(chunks, at, level, owner, gen, key) ==
  LET homes == {c \in chunks : contains(c, at)}
      chunk == CHOOSE c \in homes : TRUE
      Good(b) == parse_with_uuids(b, at, level) /\ validate_tree_identity(owner, gen, key, b)
      replicas == SelectSeq(map_mirrored(chunk, at - chunk.logical, 1).locations,
                    LAMBDA l : l.dev \in ToSet(vol.order) /\ l \in DOMAIN copies /\ Good(copies[l]))
  IN  IF homes = {} \/ replicas = <<>> THEN <<>>
      ELSE <<copies[replicas[1]]>>

NoOverlay == <<0, 0>>

\* The log tree belongs to the transaction that was open: one generation on.
read_log_overlay(chunks, c) ==
  LET root == read_tree_block(chunks, vol.sb[1].log[1], 0, "log", c.gen + 1, <<>>)
      leaf == read_tree_block(chunks, root[1].ptrs[1].at, 0, "log", root[1].ptrs[1].gen, <<>>)
  IN  CASE vol.sb[1].log = <<>> -> <<NoOverlay>>
        [] vol.sb[1].log # <<>> /\ (root = <<>> \/ root[1].ptrs[1].gen # c.gen + 1 \/ leaf = <<>>) -> <<>>
        [] OTHER -> <<leaf[1].vals>>

\* `find_default_tree_id` and `lookup_tree_root`: the root of the files' tree.
lookup_tree_root(chunks, c) ==
  LET leaf == read_tree_block(chunks, c.root.at, 0, "root", c.root.gen, <<>>)
  IN  IF leaf = <<>> \/ leaf[1].ptrs[1].gen > c.gen + 1 THEN <<>> ELSE <<leaf[1].ptrs[1]>>

\* `collect_block` down to the leaf of a file.
collect_items_raw(chunks, root, f) ==
  LET node == read_tree_block(chunks, root.at, 1, "fs", root.gen, <<>>)
      leaf == node[1].ptrs[f]
  IN  IF node = <<>> THEN <<>> ELSE read_tree_block(chunks, leaf.at, 0, "fs", leaf.gen, <<f>>)

\* What reading a file gives: the logged version hides the committed one.
collect_items(chunks, root, overlay, f) ==
  LET leaf == collect_items_raw(chunks, root, f)
  IN  IF leaf = <<>> THEN <<>> ELSE IF overlay[f] > 0 THEN <<overlay[f]>> ELSE leaf[1].vals

load_chunk_mappings(c) ==
  LET tree == read_tree_block({SystemChunk(setup)}, c.chunk.at, 0, "chunk", c.chunk.gen, <<>>)
  IN  IF tree = <<>> THEN {} ELSE {SystemChunk(setup)} \cup tree[1].chunks

\* A loop round of `initialize`: the root inode is in the leaf of the first file.
initialize_from ==
  /\ phase = "supplied" /\ vol.k <= Len(vol.cands)
  /\ LET c == vol.cands[vol.k]
     IN  \E chunks \in {load_chunk_mappings(c)} :
         \E root \in {IF chunks = {} \/ ~validate_chunk_devices(chunks, ToSet(vol.order)) THEN <<>>
                      ELSE lookup_tree_root(chunks, c)} :
         \E overlay \in {IF root = <<>> THEN <<>>
                         ELSE IF c.replay_log THEN read_log_overlay(chunks, c) ELSE <<NoOverlay>>} :
         \E view \in {IF overlay = <<>> THEN <<<<>>, <<>>>>
                      ELSE [f \in Files |-> collect_items(chunks, root[1], overlay[1], f)]} :
           IF view[1] = <<>> THEN phase' = phase /\ vol' = [vol EXCEPT !.k = @ + 1]
           ELSE /\ phase' = "served"
                /\ vol' = [vol EXCEPT !.recovery = c.recovery, !.active = c.gen, !.view = view]
  /\ UNCHANGED <<setup, copies, supers, tip, cur, log, synced, pend, hist, logs, dropped, fsyncs, damage>>

NoCandidate ==
  /\ phase = "supplied" /\ vol.k > Len(vol.cands)
  /\ phase' = "failed"
  /\ UNCHANGED <<setup, copies, supers, tip, cur, log, synced, pend, hist, logs, dropped, fsyncs, damage, vol>>

(***************************************************************************)
(* Properties.                                                             *)
(***************************************************************************)
Intact(b) ==
  \E h \in HomesOf(setup, b.at) \cap DOMAIN copies : h.dev \in ToSet(vol.order) /\ copies[h] = b

\* All that opening a generation needs of its own trees: not the second leaf.
Whole(g) == \A b \in TreeBlocks(setup, hist[g]) \ {LeafBlock(hist[g], 2)} : Intact(b)

\* The log that a superblock points at.
LogOf(sb) == {l \in logs : sb.log = <<l.at[1]>> /\ l.gen = sb.gen + 1}
Opens(sb, g) ==
  Whole(g) /\ (g = sb.gen => \A l \in LogOf(sb) : \A b \in LogBlocks(l) : Intact(b))

\* What a file holds in generation g, opened through superblock sb.
Content(sb, g, f) ==
  LET logged == {l.vals[f] : l \in {l \in LogOf(sb) : g = sb.gen}} \ {0}
  IN  IF logged = {} THEN hist[g].vals[f] ELSE CHOOSE v \in logged : TRUE

\* Whatever a crash, a device that dropped out and damage have left, what is
\* opened is one generation, its log included, never a mix of two; it is the
\* newest one of the superblock and its backups whose trees can be read, and it is
\* called a recovery exactly when it is not the superblock's own.
OpensNewestWhole ==
  vol.sb # <<>> =>
    LET sb == vol.sb[1]
    IN  /\ phase = "served" =>
             /\ vol.active = sb.gen <=> vol.recovery = <<>>
             /\ \A f \in Files : vol.view[f] \in {<<>>, <<Content(sb, vol.active, f)>>}
             /\ \A g \in vol.active + 1 .. sb.gen : ~Opens(sb, g)
        /\ phase = "failed" => \A b \in sb.backups : ~Opens(sb, b.root.gen)

\* Two full zones whose last records have one generation cannot be told apart.
Tied == /\ setup.zoned /\ ZoneFull(supers[1][1]) /\ ZoneFull(supers[1][2])
        /\ Last(supers[1][1]).gen = Last(supers[1][2]).gen

\* On undamaged devices the volume opens and every file is at least as new as its
\* last completed commit or fsync.  (The device supplied first has to be one that
\* did not drop out: of equal generations the first one is taken.)
FsyncedIsServed ==
  phase \in {"served", "failed"} /\ damage = 0 /\ vol.order[1] \notin dropped /\ ~Tied =>
    phase = "served" /\ \A f \in Files : vol.view[f] # <<>> /\ vol.view[f][1] >= synced[f]
=============================================================================
