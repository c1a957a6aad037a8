----------------------------- MODULE DokanMount -----------------------------
(***************************************************************************)
(* The life of a Dokan mount (src/crates/fsmnt-dokan/src/dokan.rs): the    *)
(* thread in `mount`, its watcher thread, the console control handler, and *)
(* `unmount` called in another process, all against the Dokan driver.      *)
(*                                                                         *)
(* The driver is external.  It may refuse to remove a mount point that was *)
(* registered a moment ago (MaxRejections times in all; a drive letter is  *)
(* registered at once), it releases a volume some time after accepting the *)
(* removal, and it may leave the reparse point of a directory mount point  *)
(* dangling.  `link` is that directory: "live" while a volume is behind    *)
(* it, "dangling", "plain" (an ordinary directory) or "missing".  The      *)
(* deadlines of `unmount` (5 s and 10 s) are longer than what the driver   *)
(* is assumed to need; the handler's deadline is part of Kill.             *)
(***************************************************************************)
EXTENDS Naturals

CONSTANT MaxRejections    \* how often the driver may refuse a removal

VARIABLES
  directory,    \* whether the mount point is a directory or a drive letter
  volume,       \* "live", "removing" or "gone"
  link,         \* the directory the volume is mounted on
  rejections,   \* refusals the driver has left
  STOP, UNMOUNTED, closed,   \* the flags of dokan.rs
  mounter,      \* where the thread in `mount` is
  watcher,      \* where the watcher thread is
  unmounter,    \* where `unmount` is, in another process
  removed       \* its local variable of that name

vars == <<directory, volume, link, rejections, STOP, UNMOUNTED, closed, mounter, watcher,
          unmounter, removed>>
flags == <<STOP, UNMOUNTED, closed>>

Running == mounter \notin {"returned", "killed"}

\* `mounter.mount()` has succeeded and `on_mount` has been called.
Init == /\ directory \in BOOLEAN
        /\ volume = "live"
        /\ link = IF directory THEN "live" ELSE "plain"
        /\ rejections \in IF directory THEN 0..MaxRejections ELSE {0}
        /\ STOP = FALSE /\ UNMOUNTED = FALSE /\ closed = FALSE
        /\ mounter = "mounted" /\ watcher = "none"
        /\ unmounter = "idle" /\ removed = FALSE

(***************************************************************************)
(* The driver.                                                             *)
(***************************************************************************)
RemovalRefused == rejections > 0 /\ volume = "live"

Release ==
  /\ volume = "removing"
  /\ volume' = "gone"
  /\ link' \in IF directory THEN {"plain", "dangling"} ELSE {link}
  /\ UNCHANGED <<directory, rejections, flags, mounter, watcher, unmounter, removed>>

\* `dokan::unmount`: accepted is what the call returns.
DokanUnmount(accepted) ==
  \/ /\ RemovalRefused /\ ~accepted
     /\ rejections' = rejections - 1 /\ UNCHANGED volume
  \/ /\ ~RemovalRefused
     /\ accepted = (volume = "live")
     /\ volume' = IF volume = "live" THEN "removing" ELSE volume
     /\ UNCHANGED rejections

is_mounted == IF directory THEN link = "live" ELSE volume # "gone"

(***************************************************************************)
(* The process that mounted.                                               *)
(***************************************************************************)
arm ==
  /\ mounter = "mounted"
  /\ STOP' = FALSE /\ UNMOUNTED' = FALSE /\ UNCHANGED closed
  /\ mounter' = "dropping" /\ watcher' = "watch"
  /\ UNCHANGED <<directory, volume, link, rejections, unmounter, removed>>

ctrl_handler ==
  /\ mounter \notin {"mounted", "returned", "killed"}
  /\ STOP' = TRUE /\ UNCHANGED <<UNMOUNTED, closed>>
  /\ UNCHANGED <<directory, volume, link, rejections, mounter, watcher, unmounter, removed>>

\* `taskkill /F`, a Ctrl+C before the handler is installed, or the end of a
\* close event's grace period: the driver drops the volume.
Kill ==
  /\ Running
  /\ mounter' = "killed" /\ watcher' = "exited"
  /\ volume' = "gone"
  /\ link' = IF link = "live" THEN "dangling" ELSE link
  /\ UNCHANGED <<directory, rejections, flags, unmounter, removed>>

WatcherWakesOnClose == closed
WatcherWakes == STOP \/ closed

watcher_thread ==
  /\ watcher = "watch" /\ Running
  /\ WatcherWakes
  /\ watcher' = "exited"
  /\ IF STOP THEN \E accepted \in BOOLEAN : DokanUnmount(accepted)
             ELSE UNCHANGED <<volume, rejections>>
  /\ UNCHANGED <<directory, link, flags, mounter, unmounter, removed>>

\* `drop(file_system)` returns once the volume is closed.
drop_file_system ==
  /\ mounter = "dropping" /\ volume = "gone"
  /\ closed' = TRUE /\ UNCHANGED <<STOP, UNMOUNTED>>
  /\ mounter' = "joining"
  /\ UNCHANGED <<directory, volume, link, rejections, watcher, unmounter, removed>>

join_watcher ==
  /\ mounter = "joining" /\ watcher = "exited"
  /\ mounter' = "check"
  /\ UNCHANGED <<directory, volume, link, rejections, flags, watcher, unmounter, removed>>

(***************************************************************************)
(* `clear_dangling_directory_mountpoint`, which both processes run: look,  *)
(* remove the directory, create it again.  The caller goes on at `cleared` *)
(* or at `untouched`.                                                      *)
(***************************************************************************)
LooksDangling == directory /\ link = "dangling"

ClearStep(at, next, cleared, untouched) ==
  \/ /\ at = "check"
     /\ next = IF LooksDangling THEN "remove" ELSE untouched
     /\ UNCHANGED link
  \/ /\ at = "remove"
     /\ IF link \in {"dangling", "plain"}
        THEN link' = "missing" /\ next = "create"
        ELSE UNCHANGED link /\ next = untouched
  \/ /\ at = "create"
     /\ link' = IF link = "missing" THEN "plain" ELSE link
     /\ next = cleared

clear_in_mount ==
  /\ mounter \in {"check", "remove", "create"}
  /\ ClearStep(mounter, mounter', "finish", "finish")
  /\ UNCHANGED <<directory, volume, rejections, flags, watcher, unmounter, removed>>

mount_returns ==
  /\ mounter = "finish"
  /\ UNMOUNTED' = TRUE /\ UNCHANGED <<STOP, closed>>
  /\ mounter' = "returned"
  /\ UNCHANGED <<directory, volume, link, rejections, watcher, unmounter, removed>>

(***************************************************************************)
(* `unmount` in another process.                                           *)
(***************************************************************************)
unmount ==
  /\ unmounter = "idle"
  /\ unmounter' = "asking"
  /\ UNCHANGED <<directory, volume, link, rejections, flags, mounter, watcher, removed>>

RetriesNever(accepted) == FALSE
Retries(accepted) == ~accepted /\ is_mounted

AfterAskingGivesUp(accepted) == IF accepted THEN "waiting" ELSE "err"
AfterAsking(accepted) == IF accepted THEN "waiting" ELSE "check"

remove_mount_point ==
  /\ unmounter = "asking"
  /\ \E accepted \in BOOLEAN :
       /\ DokanUnmount(accepted)
       /\ removed' = accepted
       /\ unmounter' = IF Retries(accepted) THEN "asking" ELSE AfterAsking(accepted)
  /\ UNCHANGED <<directory, link, flags, mounter, watcher>>

wait_released ==
  /\ unmounter = "waiting" /\ ~is_mounted
  /\ unmounter' = "check"
  /\ UNCHANGED <<directory, volume, link, rejections, flags, mounter, watcher, removed>>

clear_in_unmount ==
  /\ unmounter \in {"check", "remove", "create"}
  /\ ClearStep(unmounter, unmounter', "ok", IF removed THEN "ok" ELSE "err")
  /\ UNCHANGED <<directory, volume, rejections, flags, mounter, watcher, removed>>

MountSteps == arm \/ drop_file_system \/ join_watcher \/ clear_in_mount \/ mount_returns
UnmountSteps == remove_mount_point \/ wait_released \/ clear_in_unmount
Next == \/ Release \/ ctrl_handler \/ Kill
        \/ MountSteps \/ watcher_thread
        \/ unmount \/ UnmountSteps

Fairness == /\ WF_vars(Release)
            /\ WF_vars(MountSteps)
            /\ WF_vars(watcher_thread)
            /\ WF_vars(UnmountSteps)

Spec == Init /\ [][Next]_vars /\ Fairness

-----------------------------------------------------------------------------
(* "The volume is always unmounted before this returns, and a directory     *)
(* mountpoint is left as an ordinary directory rather than a dangling       *)
(* reparse point".  Another process may be clearing the same directory at   *)
(* the same time: between its two steps the directory may be missing, and   *)
(* never otherwise.                                                         *)
ReturnedClean ==
  mounter = "returned" =>
    /\ volume = "gone"
    /\ link = "plain" \/ (link = "missing" /\ unmounter = "create")

(* The error of `unmount` means what it says, "no Dokan volume is mounted   *)
(* at ...": it is never reported while the volume is still being served.    *)
ErrorMeansNothingMounted == unmounter = "err" => volume # "live"

(* Ctrl+C: "the mount loop gets to unmount and return on its own".          *)
StopEndsMount == STOP ~> ~Running

(* The same for a drive letter, which the driver registers at once.         *)
StopEndsLetterMount == (STOP /\ ~directory) ~> ~Running

(* `unmount` "stops a running mount -- its call returns": once it reports   *)
(* success the mounting process comes to its end without another signal.    *)
UnmountEndsMount == (unmounter = "ok") ~> ~Running

(* "A directory mountpoint is restored to an ordinary empty directory       *)
(* afterwards, including one left dangling by a mount process that was      *)
(* killed": an `unmount` that finds such a directory leaves it ordinary.    *)
UnmountClearsStale ==
  (mounter = "killed" /\ link = "dangling" /\ unmounter = "asking") ~> (link = "plain")
=============================================================================
