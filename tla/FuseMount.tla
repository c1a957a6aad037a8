----------------------------- MODULE FuseMount ------------------------------
(***************************************************************************)
(* The life of a FUSE mount (src/crates/fsmnt-fuse/src/fuse.rs): `mount`   *)
(* waits for a termination signal in 200 ms slices and looks after each    *)
(* one whether a volume is still mounted; `unmount`, in any process, tries *)
(* a list of helper programs.                                              *)
(*                                                                         *)
(* The kernel is external.  A helper can succeed only while a volume is    *)
(* mounted, the parent directory may be unreadable for a while, and once   *)
(* the volume is gone someone else may mount another one in its place.     *)
(* The channel is never disconnected: the installed handler owns its       *)
(* sender for the rest of the process.                                     *)
(***************************************************************************)
EXTENDS Naturals

CONSTANT Helpers      \* the number of UNMOUNT_HELPERS

VARIABLES
  place,        \* what is mounted at the mount point: "own", "none" or "other"
  parent,       \* the parent directory: "ok", "unreadable", "ok again"
  signal,       \* a termination signal is in the channel
  mounter,      \* "armed", "waiting", "leaving", "returned" or "failed"
  unmounter,    \* "idle", "trying", "ok" or "err"
  failures      \* how many helpers failed

vars == <<place, parent, signal, mounter, unmounter, failures>>

Running == mounter \in {"armed", "waiting", "leaving"}

\* `spawn_mount2` has succeeded and `on_mount` has been called.
Init == /\ place = "own" /\ parent = "ok" /\ signal = FALSE
        /\ mounter = "armed"
        /\ unmounter = "idle" /\ failures = 0

is_mounted_unless_unreadable == parent # "unreadable" /\ place # "none"
is_mounted == parent = "unreadable" \/ place # "none"

(***************************************************************************)
(* `mount`.  Dropping the session unmounts the volume, unless it is gone;  *)
(* an error of `ctrlc::set_handler` drops it on the way out.               *)
(***************************************************************************)
Dropped == IF place = "own" THEN "none" ELSE place

set_handler ==
  /\ mounter = "armed"
  /\ \/ mounter' = "waiting" /\ UNCHANGED place
     \/ mounter' = "failed" /\ place' = Dropped
  /\ UNCHANGED <<parent, signal, unmounter, failures>>

recv_signal ==
  /\ mounter = "waiting" /\ signal
  /\ signal' = FALSE
  /\ mounter' = "leaving"
  /\ UNCHANGED <<place, parent, unmounter, failures>>

recv_timeout ==
  /\ mounter = "waiting" /\ ~signal
  /\ mounter' = IF is_mounted THEN "waiting" ELSE "leaving"
  /\ UNCHANGED <<place, parent, signal, unmounter, failures>>

drop_session ==
  /\ mounter = "leaving"
  /\ place' = Dropped
  /\ mounter' = "returned"
  /\ UNCHANGED <<parent, signal, unmounter, failures>>

(***************************************************************************)
(* `unmount`: each helper is missing, fails or succeeds.                   *)
(***************************************************************************)
unmount ==
  /\ unmounter = "idle"
  /\ unmounter' = "trying"
  /\ UNCHANGED <<place, parent, signal, mounter, failures>>

helper_succeeds ==
  /\ unmounter = "trying" /\ place # "none"
  /\ place' = "none"
  /\ unmounter' = "ok"
  /\ UNCHANGED <<parent, signal, mounter, failures>>

helper_fails ==
  /\ unmounter = "trying"
  /\ failures' = failures + 1
  /\ unmounter' = IF failures + 1 = Helpers THEN "err" ELSE "trying"
  /\ UNCHANGED <<place, parent, signal, mounter>>

(***************************************************************************)
(* The surroundings.                                                       *)
(***************************************************************************)
Signal ==
  /\ mounter \in {"waiting", "leaving"}
  /\ signal' = TRUE
  /\ UNCHANGED <<place, parent, mounter, unmounter, failures>>

UnmountElsewhere ==
  /\ place = "own" /\ place' = "none"
  /\ UNCHANGED <<parent, signal, mounter, unmounter, failures>>

MountAnother ==
  /\ place = "none" /\ place' = "other"
  /\ UNCHANGED <<parent, signal, mounter, unmounter, failures>>

ParentUnreadable ==
  /\ parent = "ok" /\ parent' = "unreadable"
  /\ UNCHANGED <<place, signal, mounter, unmounter, failures>>
ParentReadable ==
  /\ parent = "unreadable" /\ parent' = "ok again"
  /\ UNCHANGED <<place, signal, mounter, unmounter, failures>>

MountSteps == set_handler \/ recv_signal \/ recv_timeout \/ drop_session
UnmountSteps == helper_succeeds \/ helper_fails
Next == \/ MountSteps \/ unmount \/ UnmountSteps
        \/ Signal \/ UnmountElsewhere \/ MountAnother \/ ParentUnreadable \/ ParentReadable

\* The loop runs as long as the process does, a helper command ends, and the
\* parent directory does not stay unreadable.
Fairness == WF_vars(MountSteps) /\ WF_vars(UnmountSteps) /\ WF_vars(ParentReadable)

Spec == Init /\ [][Next]_vars /\ Fairness

-----------------------------------------------------------------------------
(* A volume that is being served is not mistaken for one that is gone: the  *)
(* mount ends by itself only once its volume has been unmounted, also when  *)
(* the parent directory could not be read for a while.                      *)
EndsOnlyWhenGone ==
  [][(mounter = "waiting" /\ mounter' = "leaving" /\ ~signal) => place # "own"]_vars

(* A termination signal ends the mount, and so does an unmount from         *)
(* elsewhere unless another volume takes the place before the next look.    *)
SignalEndsMount == signal ~> ~Running
UnmountIsSeen == (place = "none") ~> (~Running \/ place = "other")

(* "A mount blocked on that mountpoint returns once the volume is gone."    *)
GoneEndsMount == (place # "own") ~> ~Running
=============================================================================
