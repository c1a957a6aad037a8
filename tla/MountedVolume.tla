---------------------------- MODULE MountedVolume ---------------------------
(***************************************************************************)
(* A mount (see MountBackend) and the callbacks that serve it, under       *)
(* either backend: the handles and the metadata cache of the Dokan volume, *)
(* or the inodes and directory streams of the FUSE volume.  The callbacks  *)
(* neither read nor change the state of the mount's own life, and run in   *)
(* the middle of it, so a behaviour shows one or the other: serving never  *)
(* changes.  One tree is given to both backends: a path is a sequence of   *)
(* names.                                                                  *)
(***************************************************************************)
EXTENDS MountBackend, FiniteSets, Sequences

CONSTANTS
  Listing, Files, Names,   \* the tree, and the names that are looked up
  Threads, Capacity,       \* Dokan
  Readers, MaxInode        \* FUSE

ASSUME CapacityIsPositive == Capacity \in Nat \ {0}

\* The names that filter_entries leaves are among those that may be looked up.
ASSUME ListingAssumption == \A d \in DOMAIN Listing : Listing[d] \in Seq(Names)

VARIABLES
  serving,
  entries, order, handle, doing,
  by_ino, by_name, next_ino, known, reader

\* What there is at the paths one name from a directory, and at the root.
Probed == {<<>>} \cup {Append(d, name) : d \in DOMAIN Listing, name \in Names}
Truth ==
  [p \in Probed |-> IF p \in DOMAIN Listing THEN "dir"
                    ELSE IF p \in Files THEN "file" ELSE "missing"]
Visible ==
  [d \in DOMAIN Listing |-> [i \in DOMAIN Listing[d] |-> Append(d, Listing[d][i])]]

Handles == INSTANCE DokanHandles
Inodes == INSTANCE FuseVolume

handleVars == <<entries, order, handle, doing>>
inodeVars == <<by_ino, by_name, next_ino, known, reader>>
mountVars == <<serving, vars, handleVars, inodeVars>>

MountInit ==
  /\ serving \in BOOLEAN /\ Init /\ Handles!Init /\ Inodes!Init
  /\ serving => ~directory /\ link = "plain"

MountNext ==
  \/ ~serving /\ Next /\ UNCHANGED <<serving, handleVars, inodeVars>>
  \/ serving /\ backend = "dokan" /\ Handles!Next /\ UNCHANGED <<serving, vars, inodeVars>>
  \/ serving /\ backend = "fuse" /\ Inodes!Next /\ UNCHANGED <<serving, vars, handleVars>>

MountSpec == MountInit /\ [][MountNext]_mountVars /\ (~serving => Fairness)

-----------------------------------------------------------------------------
(* Dokan.  Whatever the threads interleave and whichever calls fail, what   *)
(* the metadata cache holds for a path is what is there, and the file       *)
(* information and target of a handle are those of its path, also when it   *)
(* was made from the cache and its target resolved later.  The cache stays  *)
(* within PATH_CACHE_CAPACITY, and insertion_order lists exactly the paths  *)
(* it holds, each once.                                                     *)
AnswersTruthful ==
  Handles!CacheTruthful /\ Handles!HandleTruthful /\ Handles!CacheBounded

(* FUSE.  One path, one number, looked up or listed by any stream, and a    *)
(* number the kernel holds names its path as long as the volume is mounted. *)
InodesAreIdentities == []Inodes!OneInodePerPath /\ Inodes!InodeKeepsItsPath

(* FUSE.  Page by page, with the table changing in between, a stream is     *)
(* given every entry of the directory exactly once and in order.            *)
StreamsAreWhole == Inodes!StreamsAreWhole

-----------------------------------------------------------------------------
(* The tree of the run: a root with a directory a, which holds one file,    *)
(* and a file f.                                                            *)
MCListing == [p \in {<<>>, <<"a">>} |-> IF p = <<>> THEN <<"a", "f">> ELSE <<"f">>]
MCFiles == {<<"f">>, <<"a", "f">>}
=============================================================================
