-------------------------- MODULE FastCommitApply ---------------------------
(***************************************************************************)
(* The second and third pass of fast-commit recovery                       *)
(* (journal/fast_commit/apply): the validated records are applied          *)
(* transaction by transaction, each to a scratch copy that is kept when    *)
(* its TAIL is reached and dropped when a record cannot be applied; then   *)
(* every block of the files touched is marked in the block bitmap.         *)
(*                                                                         *)
(* fs is the file system as the overlay shows it:                          *)
(*   links, size, root   of every inode (size in blocks)                   *)
(*   dir                 the entries of every directory, one block of      *)
(*                       a few slots each, an entry being one slot and     *)
(*                       the slack behind it                               *)
(*   node, alloc         external tree nodes and the block bitmap          *)
(*   free, sbfree        the free counts of the group and the superblock   *)
(* The file system has one block group.  Indexed directories are those     *)
(* HtreeSurgeon declines (SkippedHtree).                                   *)
(***************************************************************************)
EXTENDS ExtentSurgery, FastCommitScan

CONSTANTS
  Files, LinearDirs, HtreeDirs,   \* the inode numbers in use
  MaxLinks,                       \* 65535 in the code
  Logs,                           \* the logs to recover from
  Base                            \* the file system classic replay left

Dirs == LinearDirs \cup HtreeDirs
Inodes == Files \cup Dirs

VARIABLES
  fs,        \* the composed overlay
  tx,        \* tx_state
  apos,      \* the cursor of the second pass
  applied,   \* records consumed; remaining is valid - applied
  plan,      \* FastCommitPlan: replayed transactions, stop, warnings
  modified   \* modified_inodes

applyVars == <<fs, tx, apos, applied, plan, modified>>
vars == <<scanVars, applyVars>>

NoTx == [open |-> FALSE, fs |-> Base, freed |-> 0, used |-> 0, modified |-> {}, warnings |-> {}]

(***************************************************************************)
(* A log is a sequence of transactions [ops, whole]; one that is not whole *)
(* lacks its TAIL.  Every transaction begins a block.                      *)
(***************************************************************************)
Slots(t) ==
  LET covered == <<HEAD(1)>> \o t.ops
  IN IF t.whole THEN Append(covered, TAIL(1, covered)) ELSE covered
Padded(slots) ==
  slots \o [i \in 1 .. (SlotsPerBlock - (Len(slots) % SlotsPerBlock)) % SlotsPerBlock |-> ZERO]
Layout(log) == FlattenSeq([i \in DOMAIN log |-> Padded(Slots(log[i]))])
BlockOf(slots, k) ==
  [i \in 1 .. SlotsPerBlock |->
     LET p == k * SlotsPerBlock + i IN IF p <= Len(slots) THEN slots[p] ELSE ZERO]

Init ==
  /\ \E log \in Logs :
       journal = [b \in fc_first .. JournalBlocks - 1 |-> BlockOf(Layout(log), b - fc_first)]
  /\ region = <<>> /\ expected = 1 /\ pass = "open" /\ pos = 1
  /\ crc = <<>> /\ valid = 0 /\ good = <<>> /\ stop = "none"
  /\ fs = Base /\ tx = NoTx /\ apos = 1 /\ applied = 0 /\ modified = {}
  /\ plan = [replayed |-> 0, stop |-> "none", warnings |-> {}]

(***************************************************************************)
(* Directories (orphan/mutator).                                           *)
(***************************************************************************)
Entry(name, ino, len) == [name |-> name, ino |-> ino, len |-> len]

dir_append_entry(entries, name, ino) ==
  LET last == Last(entries)
  IN IF last.len < 2 THEN <<"Err", entries>>
     ELSE <<"Applied", Append(Append(Front(entries), [last EXCEPT !.len = 1]),
                              Entry(name, ino, last.len - 1))>>

dir_remove_entry(entries, name, ino) ==
  LET k == SelectInSeq(entries, LAMBDA e : e.name = name /\ e.ino = ino)
  IN IF k = 0 THEN <<"SkippedTargetMissing", entries>>
     ELSE <<"Applied", RemoveAt([entries EXCEPT ![k - 1].len = @ + entries[k].len], k)>>

mutate_dentry(r, entries) ==
  IF r.body.parent \in HtreeDirs THEN <<"SkippedHtree", entries>>
  ELSE IF r.tag = "UNLINK" THEN dir_remove_entry(entries, r.body.name, r.body.child)
  ELSE dir_append_entry(entries, r.body.name, r.body.child)

(***************************************************************************)
(* What a record does to an open transaction t: the transaction after it,  *)
(* or the reason it is dropped, or "Err", which fails the recovery.        *)
(***************************************************************************)
Goes(t) == [how |-> "goes", tx |-> t]
Stops(t, reason) == [how |-> reason, tx |-> t]
Warned(t, w) == Goes([t EXCEPT !.warnings = @ \cup {w}])

begin_transaction(r) == [NoTx EXCEPT !.open = TRUE, !.fs = fs]

apply_inode_pass_record(t, r) ==
  IF r.body.short THEN Stops(t, "MalformedRecord")
  ELSE IF r.body.ino \notin Inodes THEN Warned(t, "InodeOutOfRange")
  ELSE Goes([t EXCEPT !.fs.links[r.body.ino] = r.body.links,
                      !.fs.size[r.body.ino] = r.body.size,
                      !.fs.root[r.body.ino] = r.body.root,
                      !.modified = @ \cup {r.body.ino}])

link_delta(r) == IF r.tag = "UNLINK" THEN -1 ELSE 1

finish_dentry_keeps_unlinked(t, adjusted, r, outcome) ==
  LET c == r.body.child
      p == r.body.parent
      put == [adjusted EXCEPT !.fs.dir[p] = outcome[2]]
  IN CASE outcome[1] = "Err" -> Stops(t, "Err")
       [] outcome[1] = "Applied" -> Goes([put EXCEPT !.modified = @ \cup {p, c}])
       [] outcome[1] = "SkippedHtree" ->
            Warned([adjusted EXCEPT !.modified = @ \cup {c}], "HtreeNotMaintained")
       [] outcome[1] = "SkippedTargetMissing" -> Warned(adjusted, "UnlinkTargetMissing")
finish_dentry(t, adjusted, r, outcome) ==
  LET c == r.body.child
      p == r.body.parent
      put == [adjusted EXCEPT !.fs.dir[p] = outcome[2]]
  IN CASE outcome[1] = "Err" -> Stops(t, "Err")
       [] outcome[1] = "Applied" -> Goes([put EXCEPT !.modified = @ \cup {p, c}])
       [] outcome[1] = "SkippedHtree" ->
            Warned([adjusted EXCEPT !.modified = @ \cup {c}], "HtreeNotMaintained")
       [] outcome[1] = "SkippedTargetMissing" -> Warned(t, "UnlinkTargetMissing")

apply_dentry_record(t, r) ==
  LET c == r.body.child
      p == r.body.parent
      next == t.fs.links[c] + link_delta(r)
  IN IF p \notin Inodes THEN Warned(t, "ParentInodeMissing")
     ELSE IF p \notin Dirs THEN Warned(t, "ParentNotADirectory")
     ELSE IF next \notin 0 .. MaxLinks THEN Stops(t, "LinkCountOverflow")
     ELSE finish_dentry(t, [t EXCEPT !.fs.links[c] = next], r, mutate_dentry(r, t.fs.dir[p]))

(***************************************************************************)
(* Extents: the surgeon works on the inode's root in the scratch.          *)
(***************************************************************************)
Surgeon(t, i) ==
  [root |-> t.fs.root[i], node |-> t.fs.node, alloc |-> t.fs.alloc,
   freed |-> t.freed, used |-> t.used]
Operated(t, i, s) ==
  [t EXCEPT !.fs.root[i] = s.root, !.fs.node = s.node, !.fs.alloc = s.alloc,
            !.freed = s.freed, !.used = s.used]

physical_range_invalid(e) == ~(Run(e.pblk, e.len) \subseteq Blocks)

apply_add_range_record(t, r) ==
  LET i == r.body.ino
      o == add_range(Surgeon(t, i), r.body.extent)
  IN IF i \notin Inodes THEN Warned(t, "InodeOutOfRange")
     ELSE IF physical_range_invalid(r.body.extent) THEN Warned(t, "PhysicalBlockOutOfRange")
     ELSE IF o.out = "Applied"
     THEN Goes([Operated(t, i, o.s) EXCEPT !.modified = @ \cup {i}])
     ELSE Stops(Operated(t, i, o.s), o.out)

logical_range_invalid(t, r) ==
  r.body.len = 0 \/ r.body.start + r.body.len > t.fs.size[r.body.ino]

\* shrink_inode: the size is lowered to the end of the last extent left.
apply_del_range_record(t, r) ==
  LET i == r.body.ino
      o == del_range(Surgeon(t, i), [start |-> r.body.start, end |-> r.body.start + r.body.len])
  IN IF i \notin Inodes THEN Warned(t, "InodeOutOfRange")
     ELSE IF logical_range_invalid(t, r) THEN Warned(t, "LogicalRangeInvalid")
     ELSE IF o.out = "Applied" THEN Goes(t)
     ELSE IF o.out = "AppliedNeedsShrink"
     THEN Goes([Operated(t, i, o.s) EXCEPT !.fs.size[i] = Least(@, o.end),
                                           !.modified = @ \cup {i}])
     ELSE Stops(Operated(t, i, o.s), o.out)

(***************************************************************************)
(* The second pass.                                                        *)
(***************************************************************************)
Applying ==
  pass = "apply" /\ applied < valid /\ plan.stop = "none" /\ apos <= Len(region)
r_ == region[apos]

skip_padding ==
  /\ Applying /\ r_.tag = "ZERO" /\ ~tx.open
  /\ apos' = next_block(apos)
  /\ UNCHANGED <<scanVars, fs, tx, applied, plan, modified>>

Consumed == apos' = apos + 1 /\ applied' = applied + 1
Same == <<journal, region, expected, pos, crc, valid, good, stop>>

apply_head ==
  /\ Applying /\ r_.tag = "HEAD" /\ Consumed
  /\ tx' = begin_transaction(r_)
  /\ UNCHANGED <<Same, pass, fs, plan, modified>>

apply_pad ==
  /\ Applying /\ r_.tag = "PAD" /\ Consumed
  /\ UNCHANGED <<Same, pass, fs, tx, plan, modified>>

\* stop_current_tx drops the scratch.
stop_current_tx_keeps_trees(o) ==
  /\ fs' = [fs EXCEPT !.root = o.tx.fs.root, !.node = o.tx.fs.node]
  /\ tx' = NoTx /\ plan' = [plan EXCEPT !.stop = o.how]
stop_current_tx(o) ==
  /\ tx' = NoTx /\ plan' = [plan EXCEPT !.stop = o.how] /\ UNCHANGED fs

Effect(o) ==
  IF o.how = "goes" THEN tx' = o.tx /\ UNCHANGED <<pass, fs, plan>>
  ELSE IF o.how = "Err" THEN pass' = "err" /\ UNCHANGED <<fs, tx, plan>>
  ELSE stop_current_tx(o) /\ UNCHANGED pass

apply_op ==
  /\ Applying /\ tx.open /\ Consumed
  /\ \/ r_.tag = "INODE" /\ Effect(apply_inode_pass_record(tx, r_))
     \/ r_.tag \in {"CREAT", "LINK", "UNLINK"} /\ Effect(apply_dentry_record(tx, r_))
     \/ r_.tag = "ADD_RANGE" /\ Effect(apply_add_range_record(tx, r_))
     \/ r_.tag = "DEL_RANGE" /\ Effect(apply_del_range_record(tx, r_))
  /\ UNCHANGED <<Same, modified>>

\* apply_group_tally; the superblock's count follows only the frees that the
\* orphan code makes (total_clusters_freed).
tallied_ignores_used(f, freed, used) == [f EXCEPT !.free = @ + freed]
tallied(f, freed, used) == [f EXCEPT !.free = Greatest(0, @ + freed - used)]

commit_transaction ==
  /\ Applying /\ r_.tag = "TAIL" /\ Consumed
  /\ fs' = tallied(tx.fs, tx.freed, tx.used)
  /\ modified' = modified \cup tx.modified
  /\ plan' = [plan EXCEPT !.replayed = @ + 1, !.warnings = @ \cup tx.warnings]
  /\ tx' = NoTx
  /\ UNCHANGED <<Same, pass>>

propagate_scan_stop ==
  /\ pass = "apply" /\ ~Applying
  /\ plan' = [plan EXCEPT !.stop = IF @ = "none" THEN stop ELSE @]
  /\ pass' = "finalize"
  /\ UNCHANGED <<Same, fs, tx, apos, applied, modified>>

(***************************************************************************)
(* The third pass.                                                         *)
(***************************************************************************)
BlocksUsed(f, i) ==
  LET s == [root |-> f.root[i], node |-> f.node]
  IN {m[2] : m \in Mapping(s)} \cup NodeBlocks(s)

BlocksToMark(f, is) == UNION {BlocksUsed(f, i) : i \in is}

finalize_pass ==
  /\ pass = "finalize"
  /\ LET new == UnitsOf(BlocksToMark(fs, modified)) \ fs.alloc
     IN fs' = tallied([fs EXCEPT !.alloc = @ \cup new], 0, Cardinality(new))
  /\ pass' = "done"
  /\ UNCHANGED <<Same, tx, apos, applied, plan, modified>>

Apply == \/ skip_padding \/ apply_head \/ apply_pad \/ apply_op \/ commit_transaction
         \/ propagate_scan_stop \/ finalize_pass

Finished == pass \in {"done", "err"} /\ UNCHANGED vars

Next == (Scan /\ UNCHANGED applyVars) \/ Apply \/ Finished

Spec == Init /\ [][Next]_vars

(***************************************************************************)
(* Properties.                                                             *)
(***************************************************************************)
Replayed == Range(FlattenSeq(SubSeq(good, 1, plan.replayed)))
Logged(tags) == {r.body : r \in {q \in Replayed : q.tag \in tags}}

MapOf(f, i) == Mapping([root |-> f.root[i], node |-> f.node])
HoldsBlock(e, m) ==
  \E k \in 0 .. e.len - 1 : m = <<e.logical + k, e.pblk + k, e.unwritten>>

\* Nothing of a dropped transaction stays: every mapping and every directory
\* entry was there before or was logged by a transaction that was replayed whole.
OnlyWholeTransactions ==
  /\ \A i \in Files : \A m \in MapOf(fs, i) :
       \/ m \in MapOf(Base, i)
       \/ \E b \in Logged({"ADD_RANGE"}) : b.ino = i /\ HoldsBlock(b.extent, m)
       \/ \E b \in Logged({"INODE"}) :
            b.ino = i /\ m \in Mapping([root |-> b.root, node |-> fs.node])
  /\ \A d \in Dirs : \A e \in Range(fs.dir[d]) :
       \/ \E o \in Range(Base.dir[d]) : o.name = e.name /\ o.ino = e.ino
       \/ \E b \in Logged({"CREAT", "LINK"}) :
            b.parent = d /\ b.name = e.name /\ b.child = e.ino

\* A transaction the scan validated is replayed, unless a stop is reported:
\* the second pass consumes the records the first one counted.
DroppedIsReported ==
  pass = "done" /\ plan.replayed < Len(good) => plan.stop # "none"

\* The group's free count is the number of clear bits after every transaction
\* and after the last pass, whatever was freed, replaced, grown or marked.
FreeCountIsBitmap == fs.free = Cardinality(Units \ fs.alloc)

\* When recovery is done every block a file uses is marked in the bitmap,
\* blocks mapped by ADD_RANGE and new tree nodes included.
UsedIsMarked ==
  pass = "done" => \A i \in Inodes : UnitsOf(BlocksUsed(fs, i)) \subseteq fs.alloc

EntriesOf(f, c) ==
  UNION {{<<d, k>> : k \in {j \in DOMAIN f.dir[d] : f.dir[d][j].ino = c}} : d \in Dirs}

\* A file's link count moves with its directory entries: an UNLINK that finds
\* no entry and a transaction that is dropped leave both alone.  (INODE records
\* set the count, and an htree directory may be left as it is, with a warning.)
LinksMatchEntries ==
  \A c \in Files :
    \/ \E b \in Logged({"INODE"}) : b.ino = c
    \/ "HtreeNotMaintained" \in plan.warnings
    \/ fs.links[c] - Base.links[c]
         = Cardinality(EntriesOf(fs, c)) - Cardinality(EntriesOf(Base, c))

(***************************************************************************)
(* Statements of the repository's documents and comments.                  *)
(***************************************************************************)
\* "CREAT/LINK for a directory entry that already exists with the correct inode
\* does nothing": no directory gets a second entry of the same name.
NamesAreUnique ==
  \A d \in Dirs : \A j, k \in DOMAIN fs.dir[d] : fs.dir[d][j].name = fs.dir[d][k].name => j = k

\* "UNLINK for a directory entry that is already absent does nothing": such a
\* record does not stop the replay.
AbsentUnlinkIsNothing ==
  pass = "done" /\ good # <<>> /\ (\A r \in Range(FlattenSeq(good)) :
     r.tag \in {"HEAD", "TAIL"} \/ (r.tag = "UNLINK" /\ \A e \in Range(Base.dir[r.body.parent]) :
                                       e.name # r.body.name))
    => plan.stop = "none"

\* "Allocate one free metadata block": a block taken for a tree node holds no
\* data of a file.
NodesAreNotData ==
  \A i, j \in Inodes : {m[2] : m \in MapOf(fs, i)} \cap NodeBlocks([root |-> fs.root[j]]) = {}

\* "apply sb totals when any group tally is non-zero": the superblock's free
\* count follows the groups'.
SuperblockFollowsGroups == fs.sbfree = fs.free
=============================================================================
