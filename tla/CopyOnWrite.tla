---------------------------- MODULE CopyOnWrite -----------------------------
(***************************************************************************)
(* The readers of file systems that never write in place.  Of Btrfs: how a *)
(* volume that was left at any moment is opened ("open"), how its          *)
(* redundancy is used while devices fail ("reads"), and how a pending tree *)
(* log shows in a file ("file") and in a directory ("dir").  These share   *)
(* the mapping of chunks and meet in a tree block and in a log item, which *)
(* each takes from the other as whole.  Of QNX6 the whole reader ("qnx6"). *)
(* A behaviour is of one part.                                             *)
(***************************************************************************)
EXTENDS BtrfsOpen, BtrfsReads, BtrfsFile, BtrfsDir

CONSTANTS NumBlocks, NumInodes, Cells, Direct, MaxLevels, Format, FormatLong, Changes, MaxTime,
          MaxSerial, Quirks, Script, Faults

VARIABLES
  part,
  tree, stable, blocks, superblock, writing, quirk, stage, rotten, qnx6, reader, resolved, calls, answer

Q == INSTANCE Qnx6

qnxVars == <<tree, stable, blocks, superblock, writing, quirk, stage, rotten, qnx6, reader,
             resolved, calls, answer>>
copyVars == <<part, openVars, readVars, fileVars, dirVars, qnxVars>>

OpenIdle ==
  /\ setup = <<>> /\ copies = <<>> /\ supers = <<>> /\ tip = <<>> /\ cur = <<>> /\ log = <<>>
  /\ synced = <<>> /\ pend = <<>> /\ hist = <<>> /\ logs = {} /\ dropped = {} /\ fsyncs = 0
  /\ damage = 0 /\ phase = "idle" /\ vol = <<>>
ReadIdle ==
  /\ layout = <<>> /\ ideal = <<>> /\ sectors = <<>> /\ gone = {} /\ harm = "devices"
  /\ faults = 0 /\ mounted = "no" /\ absent = {} /\ read = <<>>
FileIdle ==
  /\ no_holes = FALSE /\ file = <<>> /\ extents = <<>> /\ base = <<>> /\ filelog = <<>>
  /\ dirty = {} /\ durable = <<>> /\ edits = 0 /\ handle = <<>> /\ got = <<>>

QnxIdle ==
  /\ tree = <<>> /\ stable = <<>> /\ blocks = <<>> /\ superblock = <<>> /\ writing = <<>>
  /\ quirk = <<>> /\ stage = "idle" /\ rotten = FALSE /\ qnx6 = <<>> /\ reader = <<>>
  /\ resolved = <<>> /\ calls = 0 /\ answer = <<>>

CopyInit ==
  \/ part = "open" /\ OpenInit /\ ReadIdle /\ FileIdle /\ DirInit /\ QnxIdle
  \/ part = "reads" /\ OpenIdle /\ ReadInit /\ FileIdle /\ DirInit /\ QnxIdle
  \/ part = "file" /\ OpenIdle /\ ReadIdle /\ FileInit /\ DirInit /\ QnxIdle
  \/ part = "dir" /\ OpenIdle /\ ReadIdle /\ FileIdle /\ DirInit /\ QnxIdle
  \/ part = "qnx6" /\ OpenIdle /\ ReadIdle /\ FileIdle /\ DirInit /\ Q!Qnx6Init

InOpen == part = "open" /\ UNCHANGED <<part, readVars, fileVars, dirVars, qnxVars>>
InReads == part = "reads" /\ UNCHANGED <<part, openVars, fileVars, dirVars, qnxVars>>
InFile == part = "file" /\ UNCHANGED <<part, openVars, readVars, dirVars, qnxVars>>
InDir == part = "dir" /\ UNCHANGED <<part, openVars, readVars, fileVars, qnxVars>>
InQnx6 == part = "qnx6" /\ UNCHANGED <<part, openVars, readVars, fileVars, dirVars>>

CopyNext ==
  \/ \E f \in Files : InOpen /\ Write(f)
  \/ \E f \in Files : InOpen /\ Fsync(f)
  \/ \E grow \in BOOLEAN : InOpen /\ Commit(grow)
  \/ InOpen /\ Flush
  \/ InOpen /\ Finish
  \/ InOpen /\ CrashQuiet
  \/ InOpen /\ \E S \in SUBSET pend.blocks : CrashBlocks(S)
  \/ InOpen /\ \E S \in SUBSET Targets : CrashSupers(S)
  \/ InOpen /\ \E d \in setup.devices : DropOut(d)
  \/ InOpen /\ \E at \in Addresses, devs \in SUBSET setup.devices : RotBlock(at, devs)
  \/ InOpen /\ \E d \in setup.devices, m \in 1 .. SuperMirrors : RotSuper(d, m)
  \/ InOpen /\ \E order \in Orders : from_device_sources(order)
  \/ InOpen /\ initialize_from
  \/ InOpen /\ NoCandidate
  \/ InReads /\ \E d \in layout.devices : Lose(d)
  \/ InReads /\ \E d \in layout.devices, o \in layout.sites : Fail(d, o)
  \/ InReads /\ \E d \in layout.devices, o \in layout.sites : Change(d, o)
  \/ InReads /\ OpenVolume
  \/ InReads /\ \E window \in layout.windows, sums \in BOOLEAN : BeginRead(window, sums)
  \/ InReads /\ TryReplica
  \/ InFile /\ \E edit \in Edits : WriteExtent(edit)
  \/ InFile /\ \E edit \in Edits : WriteInline(edit)
  \/ InFile /\ \E edit \in Edits : Punch(edit)
  \/ InFile /\ \E edit \in Edits : Allocate(edit)
  \/ InFile /\ \E edit \in Edits : Truncate(edit)
  \/ InFile /\ FsyncFile
  \/ InFile /\ CommitFile
  \/ InFile /\ open_file
  \/ InFile /\ \E window \in Windows : ReadFile(window)
  \/ InDir /\ \E name \in Names : Create(name)
  \/ InDir /\ \E name \in Names : Unlink(name)
  \/ InDir /\ \E old, new \in Names : Rename(old, new)
  \/ InDir /\ CommitDir
  \/ InDir /\ \E style \in {"gaps", "pieces", "whole", "new"} : FsyncDir(style)
  \/ InDir /\ Mount
  \/ InQnx6 /\ \E c \in Changes : Q!Possible(c) /\ Q!Change(c)
  \/ InQnx6 /\ Q!Begin
  \/ InQnx6 /\ Q!Complete
  \/ InQnx6 /\ Q!Stop
  \/ InQnx6 /\ \E which \in {"none", "first", "last", "all"} : Q!CrashBlocks(which)
  \/ InQnx6 /\ Q!CrashSuperblock
  \/ InQnx6 /\ \E copy \in {"Primary", "Secondary"} : Q!Rot(copy)
  \/ InQnx6 /\ \E fault \in Faults : Q!Open(fault)
  \/ InQnx6 /\ Q!Call

CopySpec == CopyInit /\ [][CopyNext]_copyVars

(***************************************************************************)
(* Properties.                                                             *)
(***************************************************************************)
\* Of what a crash, a lagging device and damage left, the newest generation that
\* can be read is opened, whole, and called a recovery only if it is an old one
\* ("valid embedded backup roots are tried from newest to oldest"); QNX6 "selects
\* the newest valid snapshot", and never that of another volume.
NewestWholeIsOpened ==
  /\ part = "open" => OpensNewestWhole
  /\ part = "qnx6" => Q!NewestSnapshotIsOpened

\* What was committed, or fsynced and not damaged, is served.  From a QNX6 volume
\* it is whatever became of the older snapshot and whichever reads failed before,
\* and beside it the names that the last snapshot deleted ("recovers exact directory
\* tombstones from the preceding valid snapshot"), by `lookup` and `read_directory`
\* alike.
DurableIsServed ==
  /\ part = "open" => FsyncedIsServed
  /\ part = "qnx6" => Q!SnapshotIsServed /\ Q!DeletedAreRecovered

\* "Missing members are accepted when the chunk profile remains readable": the
\* volume opens exactly then; a read gives what was written or an error, whatever
\* fails and lies meanwhile; and it fails only beyond what the profile tolerates.
ReadsWithinRedundancy ==
  part = "reads" => RightOrRefused /\ FailsOnlyBeyond /\ MountedIffReadable

\* "A pending fsync tree log is projected over committed filesystem trees": files
\* and directories are what the last fsync of them made durable.
LogIsProjected == (part = "file" => ReadsWhatWasSynced) /\ (part = "dir" => NamesAsSynced)

-----------------------------------------------------------------------------
(* Small volumes, files and directories for TLC. *)
(***************************************************************************)
(* Volumes left at any moment: [devices, zoned] and how many generations,  *)
(* versions of each file, fsyncs and pieces of damage there may be.        *)
(***************************************************************************)
S(devices, zoned, gens, versions, syncs, harms) ==
  [devices |-> devices, zoned |-> zoned, gens |-> gens, versions |-> versions,
   fsyncs |-> syncs, damage |-> harms]
MCSetups ==
  {S({1}, FALSE, 3, <<2, 0>>, 0, 2),     \* two pieces of damage, three backups
   S({1}, FALSE, 2, <<2, 1>>, 1, 1),     \* a damaged log
   S({1, 2}, FALSE, 3, <<2, 0>>, 1, 0),  \* a device that drops out
   S({1}, TRUE, 2, <<3, 1>>, 3, 0)}      \* superblocks in a pair of zones

(***************************************************************************)
(* Volumes of every profile, with moved ranges and with a stripe tree.     *)
(***************************************************************************)
Stripes(n, off) == [i \in 1 .. n |-> [dev |-> i, off |-> off]]
Chunk(at, length, profile, stripes) ==
  [logical |-> at, length |-> length, profile |-> profile, sub |-> 2, stripes |-> stripes,
   data |-> TRUE, remapped |-> FALSE]
Window(at, n, purpose) == [logical |-> at, length |-> n, purpose |-> purpose]
Plain(length, profile, stripes, devs) ==
  [volume |-> [chunks |-> {Chunk(0, length, profile, stripes)}, remap |-> {}, strides |-> <<>>],
   devices |-> 1 .. devs, rows |-> 4, moved |-> {}, live |-> 0 .. length - 1, sites |-> {1, 2},
   windows |-> {Window(1, 1, "data"), Window(2, 1, "data"), Window(1, 2, "data"),
                Window(length - 2, 1, "data")}]
Item(source, length, target, backref) ==
  [source |-> source, length |-> length, target |-> target, backref |-> backref]

Remapped ==
  [volume |-> [chunks |-> {[Chunk(0, 4, "Raid1", Stripes(2, 0)) EXCEPT !.remapped = TRUE],
                           Chunk(10, 4, "Raid1", Stripes(2, 4))},
               remap |-> {Item(0, 1, 0, FALSE), Item(1, 2, 11, FALSE), Item(3, 1, 3, FALSE),
                          Item(11, 2, 1, TRUE)},
               strides |-> <<>>],
   devices |-> 1 .. 2, rows |-> 4, moved |-> {[from |-> 1, length |-> 2, to |-> 11]},
   live |-> {0, 1, 2, 3, 10, 13}, sites |-> {1, 3, 5},
   windows |-> {Window(1, 1, "data"), Window(0, 3, "data"), Window(2, 2, "metadata"),
                Window(13, 1, "remap")}]

\* All of a chunk has moved and its own stripes are gone.
Emptied ==
  [volume |-> [chunks |-> {[Chunk(0, 4, "Raid1", <<>>) EXCEPT !.remapped = TRUE],
                           Chunk(10, 4, "Raid0", Stripes(2, 0))},
               remap |-> {Item(0, 4, 10, FALSE), Item(10, 4, 0, TRUE)}, strides |-> <<>>],
   devices |-> 1 .. 2, rows |-> 2, moved |-> {[from |-> 0, length |-> 4, to |-> 10]},
   live |-> 0 .. 3, sites |-> {0, 1}, windows |-> {Window(1, 1, "data"), Window(1, 2, "data")}]

Strided2(profile, strides) ==
  [volume |-> [chunks |-> {Chunk(0, 4, profile, Stripes(2, 0)),
                           [Chunk(10, 4, "Raid1", Stripes(2, 6)) EXCEPT !.data = FALSE]},
               remap |-> {}, strides |-> <<strides>>],
   devices |-> 1 .. 2, rows |-> 4, moved |-> {}, live |-> (0 .. 3) \cup (10 .. 13),
   sites |-> {1, 3, 7},
   windows |-> {Window(1, 1, "data"), Window(2, 1, "data"), Window(1, 2, "data"),
                Window(11, 1, "metadata")}]
Stride1(source, stripes) == [source |-> source, length |-> 2, stripes |-> stripes]
At(dev, off) == [dev |-> dev, off |-> off]

MCLayouts ==
  {Plain(4, "Single", Stripes(1, 0), 1), Plain(4, "Dup", <<At(1, 0), At(1, 4)>>, 1),
   Plain(8, "Raid0", Stripes(2, 0), 2), Plain(4, "Raid1", Stripes(2, 0), 2),
   Plain(4, "Raid1C3", Stripes(3, 0), 3), Plain(8, "Raid10", Stripes(4, 0), 4),
   Plain(8, "Raid5", Stripes(3, 0), 3), Plain(8, "Raid6", Stripes(4, 0), 4),
   Remapped, Emptied,
   Strided2("Raid1", {Stride1(0, <<At(2, 3), At(1, 0)>>), Stride1(2, <<At(1, 2), At(2, 1)>>)}),
   Strided2("Raid0", {Stride1(0, <<At(2, 2)>>), Stride1(2, <<At(1, 0)>>)})}

(***************************************************************************)
(* What may be done to a file, and what is read of it.                     *)
(***************************************************************************)
E(op, first, n, comp, short) ==
  [op |-> op, first |-> first, n |-> n, comp |-> comp, short |-> short]
MCEdits ==
  {E("write", 0, 3, TRUE, 0), E("write", 0, 3, FALSE, 1), E("write", 1, 1, FALSE, 0),
   E("write", 0, 2, TRUE, 0), E("write", 1, 2, FALSE, 0), E("inline", 0, 1, FALSE, 1),
   E("inline", 0, 1, TRUE, 0), E("punch", 1, 1, FALSE, 0), E("punch", 0, 2, FALSE, 0),
   E("allocate", 1, 2, FALSE, 0), E("allocate", 0, 2, FALSE, 0), E("truncate", 0, 1, FALSE, 0),
   E("truncate", 0, 3, FALSE, 0), E("truncate", 0, 6, FALSE, 0)}
W(offset, length) == [offset |-> offset, length |-> length]
MCWindows == {W(0, 6), W(1, 3), W(3, 2)}

\* Two names share a hash.
MCHash == ("a" :> 1) @@ ("b" :> 1) @@ ("c" :> 2)

(***************************************************************************)
(* A QNX6 volume with a file two levels deep, a directory and a long name. *)
(***************************************************************************)
None == [kind |-> "none", created |-> 0, size |-> 0, levels |-> 0, data |-> <<>>]
Blank == <<"zero", 0>>
Entered(i, n, l) == <<"record", [inode |-> i, name |-> n, long |-> l]>>
MCFormat ==
  <<[None EXCEPT !.kind = "directory", !.size = 2, !.data = <<<<Entered(2, "a", -1), Entered(3, "d", -1)>>>>],
    [None EXCEPT !.kind = "file", !.size = 5, !.levels = 2,
       !.data = <<<<<<"data", 1>>, <<"data", 2>>>>, <<>>, <<<<"data", 3>>, <<"data", 4>>>>>>],
    [None EXCEPT !.kind = "directory", !.size = 1, !.data = <<<<Entered(4, "L", 0), Blank>>>>],
    [None EXCEPT !.kind = "file", !.size = 1, !.data = <<<<<<"data", 5>>, Blank>>>>]>>
MCFormatLong == [None EXCEPT !.size = 2, !.data = <<<<<<"length", 1>>, <<"name", "L">>>>, <<>>>>]
Deleting(i, n) == [op |-> "delete", inode |-> i, name |-> n]
Creating(i, n, k, l, kind) ==
  [op |-> "create", inode |-> i, name |-> n, slot |-> k, long |-> l, kind |-> kind]
Writing(i, s, l, d) == [op |-> "write", inode |-> i, size |-> s, levels |-> l, data |-> d]
MCChanges ==
  {Deleting(1, "a"), Deleting(3, "L"), Deleting(1, "d"),
   Creating(3, "L", 0, 1, "file"), Creating(3, "L", 1, 0, "file"), Creating(1, "a", 2, -1, "file"),
   Creating(1, "M", 2, 0, "file"), Creating(1, "d", 1, -1, "directory"),
   Writing(2, 4, 1, <<TRUE, TRUE>>), Writing(2, 6, 2, <<FALSE, TRUE, TRUE>>)}
\* The second superblock at first, what lies behind the volume, and how a block
\* reads that was used again for something else.
MCQuirks ==
  {[second |-> "same", tail |-> "none", garble |-> "refused"],
   [second |-> "earlier", tail |-> "other", garble |-> "empty"],
   [second |-> "same", tail |-> "zeros", garble |-> "empty"]}
CallOf(op, path) == [op |-> op, path |-> path, offset |-> 1, length |-> 2]
MCScript ==
  <<CallOf("read_dir", <<>>), CallOf("read", <<"a">>), CallOf("read_at", <<"a">>),
    CallOf("read_dir", <<"d">>), CallOf("read", <<"d", "L">>), CallOf("try_exists", <<"M">>)>>
=============================================================================
