-------------------------- MODULE FastCommitReplay --------------------------
(***************************************************************************)
(* The three views of fast-commit replay, in one machine of which each     *)
(* behaviour takes one part:                                               *)
(*   "crash"    a writer, a crash and the scan of what it left             *)
(*   "apply"    the scan and the second pass over whole logs               *)
(*   "extents"  one extent tree under any sequence of range records        *)
(* The parts share the scan and the extent operators, not their state: the *)
(* variables of the other parts keep the values they start with.           *)
(***************************************************************************)
EXTENDS FastCommitApply, ExtentReplay

CONSTANTS
  CrashSlots, WriterFirst, Ops, MaxOps, MaxTid   \* "crash"

VARIABLES
  part,
  tid, wblock, durable, flight, unwritten

Crashed == INSTANCE FastCommitCrash WITH SlotsPerBlock <- CrashSlots

ASSUME NodesAreApart ==
  UnitsOf(GrowBlocks) \cap UnitsOf(DataBlocks(Adds)) = {}

writerVars == <<tid, wblock, durable, flight, unwritten>>
replayVars == <<part, vars, writerVars, treeVars>>

NoWriter == tid = 1 /\ wblock = 0 /\ durable = <<>> /\ flight = <<>> /\ unwritten = {}
NoApply ==
  /\ fs = Base /\ tx = NoTx /\ apos = 1 /\ applied = 0 /\ modified = {}
  /\ plan = [replayed |-> 0, stop |-> "none", warnings |-> {}]

ReplayInit ==
  /\ TreeInit
  /\ \/ part = "crash" /\ Crashed!Init /\ NoApply
     \/ part = "apply" /\ Init /\ NoWriter
     \/ part = "extents" /\ Crashed!Init /\ NoApply

InCrash == part = "crash" /\ UNCHANGED <<part, applyVars, treeVars>>
InApply == part = "apply" /\ UNCHANGED <<part, writerVars, treeVars>>
InExtents == part = "extents" /\ UNCHANGED <<part, vars, writerVars>>

ReplayNext ==
  \/ InCrash /\ Crashed!BeginFastCommit
  \/ InCrash /\ Crashed!WriteBlock
  \/ InCrash /\ Crashed!EndFastCommit
  \/ InCrash /\ Crashed!FullCommit
  \/ InCrash /\ Crashed!Crash
  \/ InCrash /\ Crashed!Recover
  \/ InCrash /\ pass \in {"apply", "err"} /\ UNCHANGED replayVars
  \/ InApply /\ Scan /\ UNCHANGED applyVars
  \/ InApply /\ Apply
  \/ InApply /\ Finished
  \/ \E new \in Adds : InExtents /\ AddRange(new)
  \/ \E range \in Dels : InExtents /\ DelRange(range)

\* One thread scans and nothing in the scan waits.
ReplaySpec == ReplayInit /\ [][ReplayNext]_replayVars /\ WF_replayVars(InCrash /\ Crashed!Recover)

(***************************************************************************)
(* Properties.                                                             *)
(***************************************************************************)
\* From the second pass on; the first one only reads.
Applied == part = "apply" /\ pass \notin {"open", "scan"}

\* What the scan validates after a crash is every transaction that was synced
\* under the current tid, and at most the one being written besides: never a part
\* of a transaction, never one of an earlier tid that the region still holds.  And
\* one whose first block reached the disk and which is not recovered is reported
\* ("discard it and all subsequent fast commit data").
RecoversWhatWasSynced ==
  part = "crash" => Crashed!RecoversWhatWasSynced /\ Crashed!TornIsReported

\* The scan of whatever the crash left comes to an end, past any padding.
ScanEnds == part = "crash" => Crashed!ScanEnds

\* A transaction is applied whole or not at all, and one the scan validated and
\* the second pass dropped is reported.
WholeOrReported == Applied => OnlyWholeTransactions /\ DroppedIsReported

\* Trees, bitmap and free count tell the same story of the volume's space: the
\* group's free count is the number of clear bits after every transaction and the
\* last pass, and in the end every block that a file uses is marked.  Within an
\* edit of an extent tree no block in use is released, and after it none is leaked.
SpaceAccounted ==
  /\ Applied => FreeCountIsBitmap /\ UsedIsMarked
  /\ part = "extents" => EditsAccounted

\* A file's link count moves with its directory entries: an UNLINK that finds no
\* entry and a transaction that is dropped leave both alone.  (INODE records set
\* the count, and an htree directory may be left as it is, with a warning.)
LinksFollowEntries == Applied => LinksMatchEntries

\* The tree maps what the range records say and nothing else, whatever merges,
\* splits, growths and removals of nodes add_range and del_range went through.
MapsWhatWasLogged == part = "extents" => MapsTheRecords

\* The tree stays one that find_target_leaf and choose_child_entry can search, and
\* "a single grow always creates enough room" for the next edit.
Searchable == part = "extents" => TreeIsSearchable /\ OneGrowIsEnough

\* "The fast commit area (last s_num_fc_blocks blocks of the journal) is
\* scanned": see RegionIsReadable of FastCommitCrash.
RegionIsReadable == part = "crash" => Crashed!RegionIsReadable

-----------------------------------------------------------------------------
(***************************************************************************)
(* Two files, a linear directory with room for one more entry and an       *)
(* indexed one.  Blocks 0 to 2 are free, 3 to 7 belong to file 11 and the  *)
(* directories; 8 and up are what the logs map.                            *)
(*                                                                         *)
(* The extent tree is that of a file of Logical blocks that may be mapped  *)
(* to either of two runs of blocks, the second one unwritten, in records   *)
(* of one to MaxInitialized blocks, above three clusters for tree nodes.   *)
(***************************************************************************)
CONSTANTS
  FirstLinks,   \* the link count of file 12, which no directory names
  Logical

MCBlocks == 0 .. (3 * Ratio + 2 * Logical - 1)
E(l, n, p, u) == LeafRecord(l, n, p, u)
MCBase ==
  [links |-> (11 :> 1) @@ (12 :> FirstLinks) @@ (1 :> 2) @@ (2 :> 2),
   size  |-> (11 :> 3) @@ (12 :> 3) @@ (1 :> 1) @@ (2 :> 1),
   root  |-> (11 :> LeafRoot(<<E(0, 3, 3, FALSE)>>)) @@ (12 :> LeafRoot(<<>>))
             @@ (1 :> LeafRoot(<<E(0, 1, 6, FALSE)>>)) @@ (2 :> LeafRoot(<<E(0, 1, 7, FALSE)>>)),
   dir   |-> (1 :> <<Entry(".", 1, 1), Entry("a", 11, 2)>>) @@ (2 :> <<Entry(".", 2, 3)>>),
   node  |-> [b \in MCBlocks |-> <<>>],
   alloc |-> 3 .. 7,
   free  |-> 10, sbfree |-> 10]

Dentry(tag, p, c, n) == Rec(tag, 0, [parent |-> p, child |-> c, name |-> n])
Add(i, l, n, p, u) == Rec("ADD_RANGE", 0, [ino |-> i, extent |-> E(l, n, p, u)])
Del(i, l, n) == Rec("DEL_RANGE", 0, [ino |-> i, start |-> l, len |-> n])
Inode(i, links, short) ==
  Rec("INODE", 0, [ino |-> i, links |-> links, size |-> 4,
                   root |-> LeafRoot(<<E(2, 1, 10, FALSE)>>), short |-> short])

DentryOps == {Dentry("CREAT", 1, 12, "b"), Dentry("LINK", 1, 11, "c"), Dentry("LINK", 2, 12, "b"),
              Dentry("UNLINK", 1, 11, "a"), Dentry("UNLINK", 1, 12, "b"),
              Dentry("UNLINK", 2, 11, "a"), Dentry("CREAT", 11, 12, "b"), Dentry("LINK", 9, 12, "b")}
ExtentOps == {Add(12, 0, 2, 8, FALSE), Add(12, 2, 1, 11, TRUE), Add(12, 1, 1, 12, FALSE),
              Add(11, 1, 1, 12, FALSE), Add(11, 2, 2, 10, FALSE), Add(9, 0, 1, 8, FALSE),
              Add(12, 0, 1, 15, FALSE), Del(11, 1, 1), Del(12, 0, 1), Del(11, 0, 4), Del(9, 0, 1)}
OtherOps == {Inode(12, 1, FALSE), Inode(12, 1, TRUE), Inode(9, 1, FALSE),
             Rec("PAD", 0, <<>>), Rec("BAD", 0, <<>>)}
MCOps == DentryOps \cup ExtentOps \cup OtherOps

Tx(ops) == [ops |-> ops, whole |-> TRUE]
Torn(ops) == [ops |-> ops, whole |-> FALSE]
\* Two records that may touch the same state, then a transaction that follows on.
Pairs == (DentryOps \X (DentryOps \cup OtherOps)) \cup ((ExtentOps \cup OtherOps) \X ExtentOps)
Follow == {Dentry("UNLINK", 1, 12, "b"), Add(12, 2, 1, 11, TRUE), Del(11, 1, 1)}
MCLogs == {<<Tx(p), Tx(<<c>>)>> : p \in Pairs, c \in Follow}
          \cup {<<Tx(<<a>>), t>> : a \in MCOps,
                                     t \in {Torn(<<b>>) : b \in Follow} \cup {Tx(<<b>>) : b \in Follow}}
          \cup {<<Tx(<<a>>)>> : a \in MCOps}

\* Logs on which the statements at the end of FastCommitApply fail.
CreateTwice == {<<Tx(<<Dentry("CREAT", 1, 11, "a")>>)>>}
UnlinkAbsent == {<<Tx(<<Dentry("UNLINK", 1, 12, "b")>>)>>}
\* Three separate extents for a root of two, the first mapped to a low free block.
GrowOverData == {<<Tx(<<Add(12, 0, 1, 0, FALSE), Add(12, 2, 1, 8, FALSE), Add(12, 4, 1, 10, FALSE)>>)>>}

MCGrowBlocks == 0 .. (3 * Ratio - 1)
RunBase(area) == 3 * Ratio + area * Logical
MCAdds == {LeafRecord(l, n, RunBase(a) + l, a = 1) :
             l \in 0 .. Logical - 1, n \in 1 .. MaxInitialized, a \in {0, 1}}
MCAddsIn == {r \in MCAdds : logical_end(r) <= Logical}
MCDels == {[start |-> a, end |-> b] : a \in 0 .. Logical - 1, b \in 1 .. Logical}
MCDelsIn == {d \in MCDels : d.start < d.end}
=============================================================================
