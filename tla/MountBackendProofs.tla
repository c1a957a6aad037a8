------------------------- MODULE MountBackendProofs -------------------------
(***************************************************************************)
(* Proofs about MountBackend, for any number of refusals of the Dokan      *)
(* driver and any number of unmount helpers: `mount` and `unmount` return  *)
(* what is true, and a FUSE mount ends by itself only when its volume is   *)
(* gone.                                                                   *)
(***************************************************************************)
EXTENDS MountBackend, TLAPS

\* The places of the thread in Dokan's `mount` behind the close of the volume, and of
\* `unmount` behind its request.
Closed == {"joining", "check", "remove", "create", "finish", "returned"}
Asked == {"waiting", "check", "remove", "create", "ok", "err"}

\* The volume and its directory: the reparse point is live as long as the volume is
\* there, and once one of the two processes has removed a dangling one, nothing brings
\* it back.
LinkFollowsVolume ==
  /\ directory \in BOOLEAN
  /\ volume \in {"live", "removing", "gone"}
  /\ link \in {"live", "dangling", "plain", "missing"}
  /\ directory => (link = "live" <=> volume # "gone")
  /\ ~directory => link = "plain"

\* Who has taken the directory away: the process that is about to make it again, or
\* one that was killed before it could.
MissingIsBeingMade ==
  link = "missing" => mounter \in {"create", "killed"} \/ unmounter = "create"

\* The inductive invariant of a Dokan mount.
DokanInv ==
  /\ mounter \in {"mounted", "dropping", "killed"} \cup Closed
  /\ unmounter \in {"idle", "asking"} \cup Asked
  /\ LinkFollowsVolume
  /\ MissingIsBeingMade
  /\ mounter \in Closed => volume = "gone"
  /\ mounter \in {"create", "finish", "returned"} => link \in {"plain", "missing"}
  /\ unmounter \in Asked => volume # "live"
  /\ mounter \in {"remove", "create"} \/ unmounter \in {"remove", "create"} => directory

\* The inductive invariant of a FUSE mount.
FuseInv ==
  /\ mounter \in {"armed", "waiting", "leaving", "returned", "failed"}
  /\ mounter \in {"returned", "failed"} => place # "own"

\* The inductive invariant of either backend.
IInv ==
  /\ backend \in {"dokan", "fuse"}
  /\ backend = "dokan" => DokanInv
  /\ backend = "fuse" => FuseInv

-----------------------------------------------------------------------------
\* A mount that was just made.
LEMMA InitInv == Init => IInv
<1> SUFFICES ASSUME Init PROVE IInv
  OBVIOUS
<1>1. CASE backend = "dokan"
  BY <1>1 DEF Init, IInv, Dokan!Init, DokanInv, LinkFollowsVolume, MissingIsBeingMade, Closed, Asked
<1>2. CASE backend = "fuse"
  BY <1>2 DEF Init, IInv, Fuse!Init, FuseInv
<1> QED
  BY <1>1, <1>2 DEF Init

\* One of the two processes clears the directory: it looks, removes, makes it again.
LEMMA ClearingKeepsInvariant ==
  ASSUME DokanInv, Dokan!clear_in_mount \/ Dokan!clear_in_unmount
  PROVE  DokanInv'
<1>1. CASE Dokan!clear_in_mount
  <2>1. /\ UNCHANGED <<directory, volume, unmounter>>
        /\ mounter \in {"check", "remove", "create"}
        /\ Dokan!ClearStep(mounter, mounter', "finish", "finish")
    BY <1>1 DEF Dokan!clear_in_mount
  <2>2. volume = "gone"
    BY <2>1 DEF DokanInv, Closed
  <2>3. CASE mounter = "check"
    BY <2>1, <2>2, <2>3 DEF Dokan!ClearStep, Dokan!LooksDangling, DokanInv, LinkFollowsVolume,
         MissingIsBeingMade, Closed
  <2>4. CASE mounter = "remove"
    BY <2>1, <2>2, <2>4 DEF Dokan!ClearStep, DokanInv, LinkFollowsVolume, MissingIsBeingMade, Closed
  <2>5. CASE mounter = "create"
    BY <2>1, <2>2, <2>5 DEF Dokan!ClearStep, DokanInv, LinkFollowsVolume, MissingIsBeingMade, Closed
  <2> QED
    BY <2>1, <2>3, <2>4, <2>5
<1>2. CASE Dokan!clear_in_unmount
  <2>1. /\ UNCHANGED <<directory, volume, mounter>>
        /\ unmounter \in {"check", "remove", "create"}
        /\ Dokan!ClearStep(unmounter, unmounter', "ok", IF removed THEN "ok" ELSE "err")
    BY <1>2 DEF Dokan!clear_in_unmount
  <2>2. volume # "live"
    BY <2>1 DEF DokanInv, Asked
  <2>3. CASE unmounter = "check"
    BY <2>1, <2>2, <2>3 DEF Dokan!ClearStep, Dokan!LooksDangling, DokanInv, LinkFollowsVolume,
         MissingIsBeingMade, Asked
  <2>4. CASE unmounter = "remove"
    BY <2>1, <2>2, <2>4 DEF Dokan!ClearStep, DokanInv, LinkFollowsVolume, MissingIsBeingMade, Asked
  <2>5. CASE unmounter = "create"
    BY <2>1, <2>2, <2>5 DEF Dokan!ClearStep, DokanInv, LinkFollowsVolume, MissingIsBeingMade, Asked
  <2> QED
    BY <2>1, <2>3, <2>4, <2>5
<1> QED
  BY <1>1, <1>2

\* A request to the driver leaves the directory alone and a volume that is not live as
\* it is.
LEMMA RequestKeepsVolume ==
  ASSUME LinkFollowsVolume, NEW accepted \in BOOLEAN, Dokan!DokanUnmount(accepted)
  PROVE  /\ volume' \in {"live", "removing", "gone"}
         /\ volume' = "gone" <=> volume = "gone"
         /\ volume # "live" => volume' = volume
         /\ accepted => volume' = "removing"
  BY DEF Dokan!DokanUnmount, Dokan!RemovalRefused, LinkFollowsVolume

\* Every step of a Dokan mount, of the driver, or of an `unmount` elsewhere.
LEMMA DokanStep ==
  ASSUME DokanInv, Dokan!Next
  PROVE  DokanInv'
<1> USE DEF Closed, Asked
<1>1. CASE Dokan!Release
  BY <1>1 DEF Dokan!Release, DokanInv, LinkFollowsVolume, MissingIsBeingMade
<1>2. CASE Dokan!ctrl_handler
  BY <1>2 DEF Dokan!ctrl_handler, DokanInv, LinkFollowsVolume, MissingIsBeingMade
<1>3. CASE Dokan!Kill
  BY <1>3 DEF Dokan!Kill, DokanInv, LinkFollowsVolume, MissingIsBeingMade
<1>4. CASE Dokan!arm
  BY <1>4 DEF Dokan!arm, DokanInv, LinkFollowsVolume, MissingIsBeingMade
<1>5. CASE Dokan!drop_file_system
  BY <1>5 DEF Dokan!drop_file_system, DokanInv, LinkFollowsVolume, MissingIsBeingMade
<1>6. CASE Dokan!join_watcher
  BY <1>6 DEF Dokan!join_watcher, DokanInv, LinkFollowsVolume, MissingIsBeingMade
<1>7. CASE Dokan!clear_in_mount \/ Dokan!clear_in_unmount
  BY <1>7, ClearingKeepsInvariant
<1>8. CASE Dokan!mount_returns
  BY <1>8 DEF Dokan!mount_returns, DokanInv, LinkFollowsVolume, MissingIsBeingMade
<1>9. CASE Dokan!watcher_thread
  <2>1. UNCHANGED <<directory, link, mounter, unmounter>>
    BY <1>9 DEF Dokan!watcher_thread
  <2>2. CASE STOP
    <3>1. PICK accepted \in BOOLEAN : Dokan!DokanUnmount(accepted)
      BY <1>9, <2>2 DEF Dokan!watcher_thread
    <3> QED
      BY <2>1, <3>1, RequestKeepsVolume DEF DokanInv, LinkFollowsVolume, MissingIsBeingMade
  <2>3. CASE ~STOP
    BY <1>9, <2>1, <2>3 DEF Dokan!watcher_thread, DokanInv, LinkFollowsVolume, MissingIsBeingMade
  <2> QED
    BY <2>2, <2>3
<1>10. CASE Dokan!unmount
  BY <1>10 DEF Dokan!unmount, DokanInv, LinkFollowsVolume, MissingIsBeingMade
<1>11. CASE Dokan!remove_mount_point
  <2>1. PICK accepted \in BOOLEAN :
          /\ Dokan!DokanUnmount(accepted)
          /\ unmounter' = IF Dokan!Retries(accepted) THEN "asking" ELSE Dokan!AfterAsking(accepted)
    BY <1>11 DEF Dokan!remove_mount_point
  <2>2. UNCHANGED <<directory, link, mounter>> /\ unmounter = "asking"
    BY <1>11 DEF Dokan!remove_mount_point
  <2>3. unmounter' \in Asked => volume' # "live"
    BY <2>1, <2>2, RequestKeepsVolume
       DEF Dokan!Retries, Dokan!AfterAsking, Dokan!is_mounted, DokanInv, LinkFollowsVolume
  <2> QED
    BY <2>1, <2>2, <2>3, RequestKeepsVolume
       DEF Dokan!AfterAsking, DokanInv, LinkFollowsVolume, MissingIsBeingMade
<1>12. CASE Dokan!wait_released
  BY <1>12 DEF Dokan!wait_released, DokanInv, LinkFollowsVolume, MissingIsBeingMade
<1> QED
  BY <1>1, <1>2, <1>3, <1>4, <1>5, <1>6, <1>7, <1>8, <1>9, <1>10, <1>11, <1>12
     DEF Dokan!Next, Dokan!MountSteps, Dokan!UnmountSteps

\* Every step of a FUSE mount, of the helpers, or of its surroundings.
LEMMA FuseStep ==
  ASSUME FuseInv, Fuse!Next
  PROVE  FuseInv'
<1>1. CASE Fuse!MountSteps
  BY <1>1 DEF Fuse!MountSteps, Fuse!set_handler, Fuse!recv_signal, Fuse!recv_timeout,
       Fuse!drop_session, Fuse!Dropped, FuseInv
<1>2. CASE Fuse!unmount \/ Fuse!UnmountSteps
  BY <1>2 DEF Fuse!unmount, Fuse!UnmountSteps, Fuse!helper_succeeds, Fuse!helper_fails, FuseInv
<1>3. CASE Fuse!Signal \/ Fuse!UnmountElsewhere \/ Fuse!MountAnother
           \/ Fuse!ParentUnreadable \/ Fuse!ParentReadable
  BY <1>3 DEF Fuse!Signal, Fuse!UnmountElsewhere, Fuse!MountAnother, Fuse!ParentUnreadable,
       Fuse!ParentReadable, FuseInv
<1> QED
  BY <1>1, <1>2, <1>3 DEF Fuse!Next

\* Every step of either backend.
LEMMA NextInv == IInv /\ [Next]_vars => IInv'
<1> SUFFICES ASSUME IInv, [Next]_vars PROVE IInv'
  OBVIOUS
<1>1. CASE backend = "dokan" /\ Dokan!Next /\ UNCHANGED <<backend, fuseOnly>>
  <2>1. DokanInv'
    BY <1>1, DokanStep DEF IInv
  <2> QED
    BY <1>1, <2>1 DEF IInv
<1>2. CASE backend = "fuse" /\ Fuse!Next /\ UNCHANGED <<backend, dokanOnly>>
  <2>1. FuseInv'
    BY <1>2, FuseStep DEF IInv
  <2> QED
    BY <1>2, <2>1 DEF IInv
<1>3. CASE UNCHANGED vars
  BY <1>3 DEF vars, dokanOnly, fuseOnly, IInv, DokanInv, FuseInv, LinkFollowsVolume, MissingIsBeingMade
<1> QED
  BY <1>1, <1>2, <1>3 DEF Next

\* The inductive invariant says what ResultsAreTrue does.
LEMMA ResultsFromInv == IInv => ResultsAreTrue
  BY DEF IInv, DokanInv, FuseInv, LinkFollowsVolume, MissingIsBeingMade, Closed, Asked,
       ResultsAreTrue, Dokan!ReturnedClean, Dokan!ErrorMeansNothingMounted, Fuse!Running

\* A step that leaves the FUSE loop without a signal.
Stays == (mounter = "waiting" /\ mounter' = "leaving" /\ ~signal) => place # "own"

\* No step leaves the loop without a signal while the volume is there.
LEMMA StepStays == IInv /\ [Next]_vars => [Stays]_Fuse!vars
<1> SUFFICES ASSUME IInv, [Next]_vars PROVE Stays \/ UNCHANGED Fuse!vars
  BY DEF Fuse!vars
<1>1. CASE backend = "dokan"
  BY <1>1 DEF IInv, DokanInv, Closed, Stays
<1>2. CASE backend = "fuse" /\ Fuse!Next
  <2>1. CASE Fuse!recv_timeout
    BY <2>1 DEF Fuse!recv_timeout, Fuse!is_mounted, Stays
  <2>2. CASE ~Fuse!recv_timeout
    BY <1>2, <2>2 DEF Stays, Fuse!Next, Fuse!MountSteps, Fuse!set_handler, Fuse!recv_signal,
         Fuse!drop_session, Fuse!unmount, Fuse!UnmountSteps, Fuse!helper_succeeds,
         Fuse!helper_fails, Fuse!Signal, Fuse!UnmountElsewhere, Fuse!MountAnother,
         Fuse!ParentUnreadable, Fuse!ParentReadable
  <2> QED
    BY <2>1, <2>2
<1>3. CASE UNCHANGED vars
  BY <1>3 DEF vars, fuseOnly, dokanOnly, Fuse!vars
<1> QED
  BY <1>1, <1>2, <1>3 DEF Next

\* `mount` has unmounted its volume by the time it returns, under either backend and
\* however it ended; Dokan leaves an ordinary directory unless another process is
\* clearing it at that moment; and Dokan's `unmount` reports that nothing is mounted
\* only when nothing is.
THEOREM MountResultsAreTrue == Spec => []ResultsAreTrue
  BY ResultsFromInv, InitInv, NextInv, PTL DEF Spec

\* A FUSE mount leaves its loop without a signal only when its volume is no longer
\* mounted, whatever else happens to the mount point and its parent directory.
THEOREM FuseEndsOnlyWhenGone == Spec => EndsOnlyWhenGone
  BY StepStays, InitInv, NextInv, PTL DEF Spec, Stays, EndsOnlyWhenGone, Fuse!EndsOnlyWhenGone
=============================================================================
