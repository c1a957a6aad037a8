---------------------------- MODULE CrashedMedia ----------------------------
(***************************************************************************)
(* What a writer left when it stopped at any moment, opened read-only: a   *)
(* VHDX image with its log ("vhdx"), and an APFS container with its ring   *)
(* of checkpoints ("apfs").  A behaviour is of one part.                   *)
(***************************************************************************)
EXTENDS VhdxCrash

CONSTANTS RingLen, NumAddrs, LeafCap, MapCap, ChunkBlocks, ChunksPerCib, Containers, ApfsFormat,
          ApfsChanges, MaxXid, ApfsScript, HealsAt, BadAddrs, Diverging

VARIABLES part, container, checkpoints, store, left, bad, apfs, path_cache, apfs_calls, reply

A == INSTANCE Apfs

apfsVars == <<container, checkpoints, store, left, bad, apfs, path_cache, apfs_calls, reply>>
mediaVars == <<part, vars, apfsVars>>

ApfsIdle ==
  /\ container = <<>> /\ checkpoints = <<>> /\ store = <<>> /\ left = "idle" /\ bad = -1
  /\ apfs = <<>> /\ path_cache = <<>> /\ apfs_calls = 0 /\ reply = <<>>

MediaInit ==
  \/ part = "vhdx" /\ Init /\ ApfsIdle
  \/ part = "apfs" /\ Init /\ A!ApfsInit

InVhdx == part = "vhdx" /\ UNCHANGED <<part, apfsVars>>
InApfs == part = "apfs" /\ UNCHANGED <<part, vars>>

MediaNext ==
  \/ InVhdx /\ OpenSession
  \/ InVhdx /\ Extend
  \/ InVhdx /\ \E p \in Payloads : BeginEntry(p)
  \/ InVhdx /\ \E i \in 0..(LogSectors - 1) : WriteSector(i)
  \/ InVhdx /\ EntryWhole
  \/ InVhdx /\ SwitchLogOn
  \/ InVhdx /\ SwitchLogOff
  \/ InVhdx /\ HeaderWhole
  \/ InVhdx /\ ApplyWrite
  \/ InVhdx /\ Retire
  \/ InVhdx /\ Crash
  \/ InVhdx /\ open_layer
  \/ InApfs /\ A!Format
  \/ InApfs /\ \E change \in ApfsChanges : A!Commit(change)
  \/ InApfs /\ \E change \in ApfsChanges, map \in {"old", "torn", "new"}, super \in {"old", "torn"} :
       A!CrashIn(change, map, super)
  \/ InApfs /\ A!Eject
  \/ InApfs /\ \E i \in 0 .. RingLen - 1 : A!Rot(i)
  \/ InApfs /\ \E b \in BadAddrs \cup {-1} : A!Attach(b)
  \/ InApfs /\ A!OpenApfs
  \/ InApfs /\ A!CallApfs

MediaSpec == MediaInit /\ [][MediaNext]_mediaVars

(***************************************************************************)
(* Properties.                                                             *)
(***************************************************************************)
\* Whenever the writer stopped, the opened medium shows what it held after one of its
\* transactions, all that it had made durable, and none by halves.  Of APFS that is
\* the newest checkpoint whose superblock and maps are whole ("superblocks are tried in
\* descending transaction order until one whose mapping blocks all verify is found"),
\* and every call on the volume answers from it or from the snapshot it names.
RecoveredAsLeft ==
  /\ part = "vhdx" => RecoversAPrefix
  /\ part = "apfs" => A!NewestCheckpointOpened /\ A!CheckpointServed

-----------------------------------------------------------------------------
(* Small images and containers for TLC. *)
(***************************************************************************)
(* VHDX payloads of up to two writes: none (an entry that only moves the   *)
(* tail), data, zeros, and data overwritten by zeros.                      *)
(***************************************************************************)
Data(b) == [block |-> b, zero |-> FALSE]
Zeroed(b) == [block |-> b, zero |-> TRUE]

MCPayloads == {<<>>, <<Data(0)>>, <<Data(1), Zeroed(0)>>}

(***************************************************************************)
(* APFS: the Data volume of a container whose ring is one range, and the   *)
(* System volume of one whose ring is in fragments and whose space manager *)
(* has address blocks.  Name 3 has another hash on the medium.  The calls  *)
(* resolve a path, use it again, and come back to it after another one.    *)
(***************************************************************************)
MCContainers ==
  {[fragmented |-> FALSE, hashed |-> TRUE, cabs |-> FALSE, roles |-> <<"none", "data">>, active |-> 2],
   [fragmented |-> TRUE, hashed |-> FALSE, cabs |-> TRUE, roles |-> <<"system", "none">>, active |-> 1]}
Item(kind, parent, name, stream, size, compressed) ==
  [kind |-> kind, parent |-> parent, name |-> name, stream |-> stream, size |-> size,
   compressed |-> compressed]
MCApfsFormat ==
  [items |-> [o \in 2 .. 6 |->
     CASE o = 2 -> Item("dir", 1, 0, 2, 0, FALSE)
       [] o = 3 -> Item("dir", 2, 1, 3, 0, FALSE)
       [] o = 4 -> Item("file", 3, 2, 4, 4, FALSE)
       [] o = 5 -> Item("file", 2, 3, 5, 1, FALSE)
       [] OTHER -> Item("file", 2, 4, 6, 0, TRUE)],
   streams |-> [s \in 2 .. 6 |->
     CASE s = 4 -> {[logical |-> 0, length |-> 3, phys |-> 0, vals |-> <<11, 12, 13>>]}
       [] s = 5 -> {[logical |-> 0, length |-> 1, phys |-> 3, vals |-> <<21>>]}
       [] OTHER -> {}]]
MCApfsChanges ==
  {[op |-> "snapshot", name |-> 1],
   [op |-> "write", obj |-> 4, at |-> 1, val |-> 31],
   [op |-> "punch", obj |-> 4, at |-> 0],
   [op |-> "delete", obj |-> 4],
   [op |-> "delete", obj |-> 7],
   [op |-> "clone", obj |-> 4, new |-> 7, stream |-> 8, kind |-> "file", parent |-> 2, name |-> 5],
   [op |-> "rename", obj |-> 5, parent |-> 3, name |-> 4]}
MCApfsScript ==
  <<[op |-> "read_dir", path |-> <<>>],
    [op |-> "read", path |-> <<1, 2>>],
    [op |-> "open", path |-> <<1, 2>>],
    [op |-> "deleted", name |-> 1, path |-> <<>>],
    [op |-> "read_at", path |-> <<1, 2>>, offset |-> 1, len |-> 2],
    [op |-> "open", path |-> <<5>>],
    [op |-> "try_is_dir", path |-> <<1>>],
    [op |-> "open", path |-> <<1>>],
    [op |-> "try_exists", path |-> <<3>>],
    [op |-> "metadata", path |-> <<3>>],
    [op |-> "read", path |-> <<4>>],
    [op |-> "snapshot_read", name |-> 1, path |-> <<1, 2>>],
    [op |-> "scan", path |-> <<>>],
    [op |-> "free_extents", path |-> <<>>]>>
=============================================================================
