---------------------------- MODULE MountBackend ----------------------------
(***************************************************************************)
(* `mount` and `unmount` as the program's callers have them                *)
(* (src/src/backend.rs).  The backend is chosen when the program is built, *)
(* Dokan on Windows and FUSE elsewhere: `backend` never changes, and the   *)
(* variables of the other one keep the values they are given at the start. *)
(* The two share the places of the thread in `mount` and of the process in *)
(* `unmount`.                                                              *)
(***************************************************************************)
EXTENDS Naturals

CONSTANTS MaxRejections, Helpers

ASSUME DriversAnswer == MaxRejections \in Nat /\ Helpers \in Nat \ {0}

VARIABLES
  backend,                                          \* "dokan" or "fuse"
  mounter, unmounter,
  directory, volume, link, rejections, STOP, UNMOUNTED, closed, watcher, removed,
  place, parent, signal, failures

Dokan == INSTANCE DokanMount
Fuse == INSTANCE FuseMount

dokanOnly == <<directory, volume, link, rejections, STOP, UNMOUNTED, closed, watcher, removed>>
fuseOnly == <<place, parent, signal, failures>>
vars == <<backend, mounter, unmounter, dokanOnly, fuseOnly>>

Init ==
  \/ /\ backend = "dokan"
     /\ Dokan!Init
     /\ place = "none" /\ parent = "ok" /\ signal = FALSE /\ failures = 0
  \/ /\ backend = "fuse"
     /\ Fuse!Init
     /\ directory = FALSE /\ volume = "gone" /\ link = "plain" /\ rejections = 0
     /\ STOP = FALSE /\ UNMOUNTED = FALSE /\ closed = FALSE
     /\ watcher = "none" /\ removed = FALSE

Next ==
  \/ backend = "dokan" /\ Dokan!Next /\ UNCHANGED <<backend, fuseOnly>>
  \/ backend = "fuse" /\ Fuse!Next /\ UNCHANGED <<backend, dokanOnly>>

\* The places of the two backends have different names, so the fairness of one
\* asks nothing of the other.
Fairness == Dokan!Fairness /\ Fuse!Fairness
Spec == Init /\ [][Next]_vars /\ Fairness

-----------------------------------------------------------------------------
(* "The volume is unmounted by the time the function returns", under either *)
(* backend and however the mount ended; Dokan also leaves its directory as  *)
(* an ordinary one, while another process may be clearing it.  And Dokan's  *)
(* `unmount` never reports that nothing is mounted while the volume is      *)
(* still being served.                                                      *)
ResultsAreTrue ==
  /\ backend = "dokan" => Dokan!ReturnedClean /\ Dokan!ErrorMeansNothingMounted
  /\ backend = "fuse" /\ ~Fuse!Running => place # "own"

(* A request to stop ends the mount: a termination signal under FUSE, and   *)
(* Ctrl+C under Dokan if the volume has a drive letter.  So does an unmount *)
(* from elsewhere, without another signal: under Dokan once `unmount`       *)
(* reports success, under FUSE unless another volume takes the place before *)
(* the next look.                                                           *)
MountEnds ==
  /\ backend = "dokan" => Dokan!StopEndsLetterMount /\ Dokan!UnmountEndsMount
  /\ backend = "fuse" => Fuse!SignalEndsMount /\ Fuse!UnmountIsSeen

(* Dokan.  An `unmount` that finds a directory left dangling by a killed    *)
(* mount leaves it an ordinary one.                                         *)
UnmountClearsStale == backend = "dokan" => Dokan!UnmountClearsStale

(* FUSE.  The mount ends by itself only once its volume has been unmounted, *)
(* also when the parent directory could not be read for a while.            *)
EndsOnlyWhenGone == Fuse!EndsOnlyWhenGone

(***************************************************************************)
(* Statements of the repository that the backends do not meet.             *)
(***************************************************************************)
(* Dokan.  Ctrl+C: "the mount loop gets to unmount and return on its own".  *)
StopEndsEveryMount == backend = "dokan" => Dokan!StopEndsMount

(* FUSE.  "A mount blocked on that mountpoint returns once the volume is    *)
(* gone."                                                                   *)
GoneEndsMount == backend = "fuse" => Fuse!GoneEndsMount
=============================================================================
