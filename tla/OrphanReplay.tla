---------------------------- MODULE OrphanReplay ----------------------------
(***************************************************************************)
(* Opening an ext volume (fsmnt-drivers ext `opened`/`recover`) and orphan *)
(* recovery (fs-ext orphan): replay the journal into an overlay, collect   *)
(* the inodes on the legacy list and in the orphan file, free the unlinked *)
(* ones with the attribute blocks and attribute inodes only they used,     *)
(* complete the interrupted truncates, clear the lists, and open the       *)
(* volume again through the resulting overlay.  Nothing is written to the  *)
(* image.                                                                  *)
(*                                                                         *)
(* raw is the image and journal the blocks the journal replay lays over    *)
(* it.  mut is the scratch copy of the blocks that recovery changes, which *)
(* `Finalize` turns into a second overlay.  Checksums, generations,        *)
(* deletion times and the descriptor fields other than the free and        *)
(* directory counts are left out.                                          *)
(***************************************************************************)
EXTENDS OrphanVolume

CONSTANTS
  BlockSize,   \* bytes in a block
  Volumes      \* the volumes to open, see OrphanVolume

VARIABLES
  vol,      \* the volume that was left behind; only the properties read it
  raw, journal,
  pc,       \* where `opened` is
  plan,     \* OrphanPlan
  todo,     \* inodes left in the loop that is running
  cls,      \* ClassifiedApply
  mut,      \* Mutator
  overlay   \* OrphanOverlayDelta

vars == <<vol, raw, journal, pc, plan, todo, cls, mut, overlay>>

NoBlocks == [meta |-> <<>>, node |-> <<>>]
NoPlan == [cur |-> 0, legacy |-> {}, at |-> 1, file |-> {}, warnings |-> {},
           stop |-> "none"]
NoActions == [unlinked |-> {}, truncate |-> {}, ea |-> -1, xattr |-> -1]
NoTally == [clusters |-> 0, inodes |-> 0, dirs |-> 0]
NewMutator == [meta |-> <<>>, node |-> <<>>, tally |-> [g \in Groups |-> NoTally]]

(***************************************************************************)
(* Views.  A block is read from the overlay laid on top, if it has it.     *)
(***************************************************************************)
Over(base, top) == [base EXCEPT !.meta = top.meta @@ @, !.node = top.node @@ @]
OverJournal == [Over(raw, journal) EXCEPT !.sb = journal.sb]
Served == IF overlay = NoBlocks THEN OverJournal
          ELSE [Over(OverJournal, overlay) EXCEPT !.sb = overlay.sb]
InodeOutOfRange(i) == i \notin Inodes
Inode(i) == InodeAt(OverJournal, i)
Disposition(i) == IF Inode(i).links = 0 THEN "Unlinked" ELSE "TruncateDeferred"

(***************************************************************************)
(* The mutator.  A block is copied into the scratch on its first use, and  *)
(* every later use sees the copy.                                          *)
(***************************************************************************)
seed_block(m, n, base) == IF n \in DOMAIN m.meta THEN m.meta[n] ELSE base.meta[n]
PutBlock(m, n, content) == [m EXCEPT !.meta = (n :> content) @@ @]

patch_inode_scratch(m, i, rec) ==
  PutBlock(m, ITab(i), [seed_block(m, ITab(i), OverJournal) EXCEPT ![i] = rec])
ScratchInode(m, i) == seed_block(m, ITab(i), OverJournal)[i]
PatchNodes(m, patches) ==
  [m EXCEPT !.node = [b \in {p.block : p \in patches} |->
                        (CHOOSE p \in patches : p.block = b).node] @@ @]

clear_inode_bitmap_bit_always(m, i, dir) ==
  LET bits == seed_block(m, IBitmap(GroupOf(i)), OverJournal)
  IN  [PutBlock(m, IBitmap(GroupOf(i)), bits \ {i})
         EXCEPT !.tally[GroupOf(i)].inodes = @ + 1]
clear_inode_bitmap_bit(m, i, dir) ==
  LET bits == seed_block(m, IBitmap(GroupOf(i)), OverJournal)
      cleared == PutBlock(m, IBitmap(GroupOf(i)), bits \ {i})
  IN  IF i \in bits
      THEN [cleared EXCEPT !.tally[GroupOf(i)].inodes = @ + 1,
                           !.tally[GroupOf(i)].dirs = @ + (IF dir THEN 1 ELSE 0)]
      ELSE cleared

\* `free_allocations`, first pass: one physical cluster that two different
\* logical clusters map to is an overlap.
Owners(runs, bpc) ==
  UNION {{<<(run.start + off) \div bpc, run.lc + off \div bpc>> : off \in 0 .. run.len - 1} :
           run \in {run \in runs : run.kind = "Data"}}
BigallocClusterOverlap(runs, bpc) ==
  \E a, b \in Owners(runs, bpc) : a[1] = b[1] /\ a[2] # b[2]

\* Second pass: each cluster once, and a bit that is already clear counts for
\* nothing.
free_allocations(m, runs, bpc) ==
  LET clusters == Clusters(BlocksOf(runs), bpc)
      mine(g) == {c \in clusters : ClusterGroup(c, bpc) = g}
      hit == {g \in Groups : mine(g) # {}}
      bits == [g \in Groups |-> seed_block(m, BBitmap(g), OverJournal)]
  IN  [m EXCEPT
         !.meta = [n \in {BBitmap(g) : g \in hit} |-> bits[n[2]] \ mine(n[2])] @@ @,
         !.tally = [g \in Groups |->
                      [@[g] EXCEPT !.clusters = @ + Cardinality(mine(g) \cap bits[g])]]]

(***************************************************************************)
(* `opened` and `recover`                                                  *)
(***************************************************************************)
\* `validate_clean_state`: what a strict open refuses.
Clean(sb) == ~sb.recover /\ ~sb.present

Before(v) == [v EXCEPT !.file = [i \in Files |->
                IF i \in v.late THEN [@[i] EXCEPT !.st = "free"] ELSE @[i]]]

Init ==
  /\ vol \in Volumes
  /\ raw = DiskOf(Before(vol))
  /\ journal = [sb |-> raw.sb, meta |-> <<>>, node |-> <<>>]
  /\ pc = "open"
  /\ plan = NoPlan
  /\ todo = {}
  /\ cls = NoActions
  /\ mut = NewMutator
  /\ overlay = NoBlocks

Open ==
  /\ pc = "open"
  /\ pc' = IF Clean(raw.sb) THEN "served" ELSE "journal"
  /\ UNCHANGED <<vol, raw, journal, plan, todo, cls, mut, overlay>>

\* `JournalReplay::build`: every block the journal rewrites.  JournalReplay
\* models how the overlay comes about.
ReplayJournal ==
  LET after == DiskOf(vol)
      changed == {n \in DOMAIN after.meta : after.meta[n] # raw.meta[n]}
      nodes == DOMAIN after.node \ DOMAIN raw.node
      sb == [after.sb EXCEPT !.recover = FALSE]
  IN  /\ pc = "journal"
      /\ journal' = [sb |-> sb, meta |-> Restrict(after.meta, changed),
                     node |-> Restrict(after.node, nodes)]
      /\ pc' = IF Clean(sb) THEN "served" ELSE "legacy"
      /\ plan' = [plan EXCEPT !.cur = sb.head]
      /\ UNCHANGED <<vol, raw, todo, cls, mut, overlay>>

(***************************************************************************)
(* Parse: the legacy list, then the orphan file.                           *)
(***************************************************************************)
\* A stop leaves the overlay empty, so the volume still says ORPHAN_PRESENT.
Stop(reason) ==
  /\ plan' = [plan EXCEPT !.stop = reason,
                          !.warnings = plan.legacy \cap {e[2] : e \in plan.file}]
  /\ pc' = "reopen"

WalkAgain(i) ==
  /\ plan' = [plan EXCEPT !.legacy = @ \cup {i}, !.cur = Inode(i).dtime]
  /\ pc' = pc

walk_legacy_chain_unguarded(i) ==
  IF i = 0 THEN plan' = plan /\ pc' = "slots"
  ELSE IF InodeOutOfRange(i) THEN Stop("LegacyChainInodeOutOfRange")
  ELSE WalkAgain(i)
walk_legacy_chain(i) ==
  IF i = 0 THEN plan' = plan /\ pc' = "slots"
  ELSE IF i \in plan.legacy THEN Stop("LegacyChainCycle")
  ELSE IF InodeOutOfRange(i) THEN Stop("LegacyChainInodeOutOfRange")
  ELSE WalkAgain(i)

WalkLegacy ==
  /\ pc = "legacy"
  /\ walk_legacy_chain(plan.cur)
  /\ UNCHANGED <<vol, raw, journal, todo, cls, mut, overlay>>

scan_slot(raw_inode) ==
  IF raw_inode = 0 THEN plan' = [plan EXCEPT !.at = @ + 1] /\ pc' = pc
  ELSE IF InodeOutOfRange(raw_inode) THEN Stop("OrphanFileInodeOutOfRange")
  ELSE /\ plan' = [plan EXCEPT !.at = @ + 1, !.file = @ \cup {<<plan.at, raw_inode>>}]
       /\ pc' = pc

\* `scan_orphan_file`, a slot at a time, and `detect_duplicates` at its end.
ScanOrphanFile ==
  LET file == OverJournal.meta[OFile] IN
  /\ pc = "slots"
  /\ IF plan.at \notin Slots
     THEN /\ plan' = [plan EXCEPT !.warnings = plan.legacy \cap {e[2] : e \in plan.file}]
          /\ pc' = "classify"
     ELSE IF ~file.sound THEN Stop("OrphanFileTailMagicInvalid")
     ELSE scan_slot(file.slot[plan.at])
  /\ UNCHANGED <<vol, raw, journal, todo, cls, mut, overlay>>

(***************************************************************************)
(* Classify: what each orphan needs, and what becomes of the attribute     *)
(* inode and the attribute block once the unlinked hosts are gone.  A plan *)
(* is a reason to stop, or the reference count that is left, -1 if there   *)
(* is nothing to do.                                                       *)
(***************************************************************************)
Orphans == plan.legacy \cup {e[2] : e \in plan.file}
With(d) == {i \in Orphans : Disposition(i) = d}

plan_ea_inode_cascade(hosts) ==
  LET e == Inode(EaInode)
      count == Cardinality(hosts)
      Halt(reason) == [stop |-> reason, ref |-> -1]
  IN  CASE hosts = {} -> Halt("none")
        [] hosts # {} /\ ~e.ea -> Halt("EaInodeMissingFlag")
        [] hosts # {} /\ e.ea /\ e.ref = 0 -> Halt("EaInodeRefcountZero")
        [] OTHER ->
             IF e.size # ValueSize THEN Halt("EaInodeSizeMismatch")
             ELSE IF ~e.hash THEN Halt("EaInodeChecksumInvalid")
             ELSE IF e.xblock # 0 THEN Halt("EaInodeNestedReference")
             ELSE IF count > e.ref THEN Halt("EaInodeRefcountZero")
             ELSE [stop |-> "none", ref |-> e.ref - count]

plan_keeps_a_reference(hosts) ==
  LET x == OverJournal.meta[XAttr]
      count == Cardinality(hosts)
  IN  IF hosts = {} THEN [stop |-> "none", ref |-> -1]
      ELSE IF count >= x.ref THEN [stop |-> "SharedXattrBlockRefcountZero", ref |-> -1]
      ELSE [stop |-> "none", ref |-> x.ref - count]
plan_shared_xattr_blocks(hosts) ==
  LET x == OverJournal.meta[XAttr]
      count == Cardinality(hosts)
      Halt(reason) == [stop |-> reason, ref |-> -1]
  IN  IF hosts = {} THEN Halt("none")
      ELSE IF ~x.sound THEN Halt("InvalidXattrBlock")
      ELSE IF x.ref = 0 THEN Halt("SharedXattrBlockRefcountZero")
      ELSE IF x.ref > XattrRefMax THEN Halt("SharedXattrBlockRefcountOverflow")
      ELSE IF count > x.ref THEN Halt("SharedXattrBlockRefcountZero")
      ELSE [stop |-> "none", ref |-> x.ref - count]

\* An attribute block that does not parse is an error of `build`, not a stop.
Classify ==
  LET un == With("Unlinked")
      ea == plan_ea_inode_cascade({i \in un : Inode(i).value # 0})
      xattr == plan_shared_xattr_blocks({i \in un : Inode(i).xblock # 0})
  IN  /\ pc = "classify"
      /\ IF ea.stop # "none" THEN Stop(ea.stop) /\ UNCHANGED <<cls, todo>>
         ELSE IF xattr.stop = "InvalidXattrBlock"
         THEN pc' = "refused" /\ UNCHANGED <<plan, cls, todo>>
         ELSE IF xattr.stop # "none" THEN Stop(xattr.stop) /\ UNCHANGED <<cls, todo>>
         ELSE /\ cls' = [unlinked |-> un, truncate |-> With("TruncateDeferred"),
                         ea |-> ea.ref, xattr |-> xattr.ref]
              /\ todo' = un
              /\ pc' = "free"
              /\ plan' = plan
      /\ UNCHANGED <<vol, raw, journal, mut, overlay>>

(***************************************************************************)
(* Apply                                                                   *)
(***************************************************************************)
flags_indicate_raw_iblock_storage(n) == n.kind = "raw"

collect_unlinked_host_runs(i) ==
  LET n == Inode(i) IN
  IF n.kind = "extents" THEN collect_tagged_node(OverJournal.node, n.root, vol.bpc)
  ELSE IF flags_indicate_raw_iblock_storage(n) THEN {}
  ELSE walk_indirect_map(OverJournal.node, n.root, 0).freed

FreeUnlinkedHost ==
  /\ pc = "free" /\ todo # {}
  /\ LET i == Min(todo)
         runs == collect_unlinked_host_runs(i)
         freed == free_allocations(mut, runs, vol.bpc)
     IN  IF BigallocClusterOverlap(runs, vol.bpc)
         THEN Stop("BigallocClusterOverlap") /\ UNCHANGED <<mut, todo>>
         ELSE /\ mut' = patch_inode_scratch(
                          clear_inode_bitmap_bit(freed, i, Inode(i).dir), i, ZeroInode)
              /\ todo' = todo \ {i}
              /\ UNCHANGED <<pc, plan>>
  /\ UNCHANGED <<vol, raw, journal, cls, overlay>>

\* `apply_ea_inode_plan`: the value inode is freed with its last reference.
apply_ea_inode_plan(m) ==
  LET e == Inode(EaInode)
      runs == {DataRun(r.pblk, r.len, r.logical \div vol.bpc) : r \in ToSet(e.root.recs)}
  IN  CASE cls.ea = -1 -> m
        [] cls.ea = 0 ->
             patch_inode_scratch(
               clear_inode_bitmap_bit(free_allocations(m, runs, vol.bpc), EaInode, FALSE),
               EaInode, ZeroInode)
        [] OTHER -> patch_inode_scratch(m, EaInode,
                      [ScratchInode(m, EaInode) EXCEPT !.ref = cls.ea])

\* `apply_shared_xattr_plan`: the block's content is left alone when it is freed.
apply_shared_xattr_plan(m) ==
  CASE cls.xattr = -1 -> m
    [] cls.xattr = 0 -> free_allocations(m, {MetadataRun(XBlock)}, vol.bpc)
    [] OTHER -> PutBlock(m, XAttr,
                  [seed_block(m, XAttr, OverJournal) EXCEPT !.ref = cls.xattr])

ApplyReferencePlans ==
  /\ pc = "free" /\ todo = {}
  /\ mut' = apply_shared_xattr_plan(apply_ea_inode_plan(mut))
  /\ todo' = cls.truncate
  /\ pc' = "truncate"
  /\ UNCHANGED <<vol, raw, journal, plan, cls, overlay>>

\* `complete_truncate` reads the map over the journal, never the scratch, and
\* takes whatever is not an extent tree for a pointer map.
complete_truncate(i) ==
  LET n == Inode(i)
      cut == retain_cutoff_logical_cluster(n.size, BlockSize * vol.bpc) * vol.bpc
  IN  IF n.kind = "extents" THEN TruncateExtents(OverJournal.node, n.root, cut, vol.bpc)
      ELSE TruncateIndirect(OverJournal.node, n.root, cut)

TruncateDeferredInode ==
  /\ pc = "truncate" /\ todo # {}
  /\ LET i == Min(todo)
         t == complete_truncate(i)
         freed == free_allocations(mut, t.freed, vol.bpc)
     IN  IF t.err THEN pc' = "refused" /\ UNCHANGED <<mut, todo, plan>>
         ELSE IF BigallocClusterOverlap(t.freed, vol.bpc)
         THEN Stop("BigallocClusterOverlap") /\ UNCHANGED <<mut, todo>>
         ELSE /\ mut' = PatchNodes(
                          patch_inode_scratch(freed, i,
                            [ScratchInode(freed, i) EXCEPT !.root = t.root,
                                                           !.blocks = t.blocks]),
                          t.patches)
              /\ todo' = todo \ {i}
              /\ UNCHANGED <<pc, plan>>
  /\ UNCHANGED <<vol, raw, journal, cls, overlay>>

\* `clear_source_linkage`: the list link of each truncated inode, and the slots.
clear_source_linkage(m) ==
  LET legacy == plan.legacy \cap With("TruncateDeferred")
      links == FoldSet(LAMBDA i, acc :
                 patch_inode_scratch(acc, i, [ScratchInode(acc, i) EXCEPT !.dtime = 0]),
                 m, legacy)
      slots == {e[1] : e \in plan.file}
      file == seed_block(links, OFile, OverJournal)
  IN  IF slots = {} THEN links
      ELSE PutBlock(links, OFile,
             [file EXCEPT !.slot = [s \in Slots |-> IF s \in slots THEN 0 ELSE @[s]]])

ClearSourceLinkage ==
  /\ pc = "truncate" /\ todo = {}
  /\ mut' = clear_source_linkage(mut)
  /\ pc' = "finalize"
  /\ UNCHANGED <<vol, raw, journal, plan, todo, cls, overlay>>

apply_group_tally(d, t) ==
  [clusters |-> d.clusters + t.clusters, inodes |-> d.inodes + t.inodes,
   dirs |-> d.dirs - t.dirs]

\* `patch_orphan_linkage_in_sb` and `finalize`.  The descriptors are seeded from
\* the image: `build` passes the bare reader here, not one over the journal.
Finalize ==
  LET dirty == {g \in Groups : mut.tally[g] # NoTally
                               \/ {BBitmap(g), IBitmap(g)} \cap DOMAIN mut.meta # {}}
      gdt == seed_block(mut, Gdt, raw)
      tallied == PutBlock(mut, Gdt, [g \in Groups |-> apply_group_tally(gdt[g], mut.tally[g])])
  IN  /\ pc = "finalize"
      /\ overlay' = [sb |-> [journal.sb EXCEPT
                               !.head = 0, !.present = FALSE,
                               !.clusters = @ + MapThenSumSet(LAMBDA g : mut.tally[g].clusters, Groups),
                               !.inodes = @ + MapThenSumSet(LAMBDA g : mut.tally[g].inodes, Groups)],
                     meta |-> IF dirty = {} THEN mut.meta ELSE tallied.meta,
                     node |-> mut.node]
      /\ pc' = "reopen"
      /\ UNCHANGED <<vol, raw, journal, plan, todo, cls, mut>>

Reopen ==
  /\ pc = "reopen"
  /\ pc' = IF Clean(Served.sb) THEN "served" ELSE "refused"
  /\ UNCHANGED <<vol, raw, journal, plan, todo, cls, mut, overlay>>

Returned == pc \in {"served", "refused"}
Done == Returned /\ UNCHANGED vars

Next ==
  \/ Open \/ ReplayJournal \/ WalkLegacy \/ ScanOrphanFile \/ Classify
  \/ FreeUnlinkedHost \/ ApplyReferencePlans \/ TruncateDeferredInode
  \/ ClearSourceLinkage \/ Finalize \/ Reopen \/ Done

\* `opened` is one call: it runs until it returns.  This is weak fairness of Next,
\* with "a step is enabled" spelled out: one is until the call has returned.
Runs == []<>Returned \/ []<><<TRUE>>_vars
Spec == Init /\ [][Next]_vars /\ Runs

(***************************************************************************)
(* Properties                                                              *)
(***************************************************************************)
\* A list without ORPHAN_PRESENT is never looked at: `validate_clean_state` does
\* not read s_last_orphan.
Announced(v) == v.present \/ OnList(v, "L") = {}

Consistent(d, bpc) ==
  /\ BitmapsAgree(d, bpc)
  /\ SuperblockAgrees(d, bpc)
  /\ ReferencesAgree(d)
  /\ NoOrphans(d)

\* What `opened` serves after recovery is a consistent volume.  The bitmaps hold
\* exactly the inodes in use and the clusters their maps and attributes reach; the
\* free counts of the superblock and of the descriptors follow the bitmaps; the
\* reference counts of the attribute block and of the value inode are the numbers
\* of inodes that use them; and no orphan is left on a list.  (A descriptor block
\* that the journal rewrote is left out, see `Finalize`.)
Recovered ==
  pc = "served" /\ vol.damage = "none" /\ Announced(vol) =>
    /\ Consistent(Served, vol.bpc)
    /\ Gdt \notin DOMAIN journal.meta => DescriptorsAgree(Served, vol.bpc)

\* Recovery changes no file but the orphans, and those exactly as the kernel meant
\* to: an unlinked inode is gone, and a truncated file keeps the mapping of every
\* block below its size and nothing above the cluster the size ends in.  Its
\* block count is that of what is left (for pointer maps the code counts less).
FilesAsMeant ==
  pc = "served" /\ Announced(vol) =>
    \A i \in Files :
      LET f == vol.file[i]
          was == Mapping(f.tree.nodes, f.tree.kind, f.tree.root)
          cluster == BlockSize * vol.bpc
          kept == {m \in was : \E c \in 0 .. f.size :
                                 c * cluster < f.size /\ m[1] \div vol.bpc = c}
          now == InodeAt(Served, i)
      IN  /\ f.st \in {"free", "unlinked"} => i \notin InUse(Served)
          /\ f.st = "live" => now = InodeAt(DiskOf(vol), i) /\ MappingAt(Served, i) = was
          /\ f.st = "truncating" =>
               /\ MappingAt(Served, i) = kept
               /\ now.kind = "extents" => now.blocks = Cardinality(OwnedAt(Served, i))

\* A volume whose metadata agrees is never refused: no stop of the parser, of the
\* two planners or of the overlap check fires on what a kernel leaves behind.
OpensUnlessDamaged == pc = "refused" => vol.damage # "none"

\* Whatever the lists hold, a cycle in the legacy list included, `opened` returns.
Terminates == <>Returned

\* The handle is onto the recovered state, for every volume that is served.
ServedIsRecovered ==
  pc = "served" /\ vol.damage = "none" =>
    Consistent(Served, vol.bpc) /\ DescriptorsAgree(Served, vol.bpc)
=============================================================================
