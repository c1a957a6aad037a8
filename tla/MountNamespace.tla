--------------------------- MODULE MountNamespace ---------------------------
(***************************************************************************)
(* The mount namespace as a library object (src/crates/fsmnt-core/src/     *)
(* namespace.rs): filesystems are attached and detached in any order, and  *)
(* handles opened before a change of the mount table are used after it.    *)
(*                                                                         *)
(* A handle keeps the mount point it was routed to, not the filesystem:    *)
(* every later use looks the mount point up again.  `panicked` is the      *)
(* `expect` of that lookup failing.                                        *)
(***************************************************************************)
EXTENDS NamespaceViews, Functions

CONSTANTS
  RawPaths,   \* the paths callers pass, "." and ".." included
  Handles     \* the handles that can be open at once

ASSUME RawPathsAreSequences == RawPaths \subseteq AllPaths

VARIABLES
  mounts,     \* mount point -> filesystem
  handle,     \* handle -> what it holds
  panicked    \* an `expect` failed

vars == <<mounts, handle, panicked>>

Paths == {canonical_path(raw).path : raw \in RawPaths}
Closed == [kind |-> "closed"]
Unlisted == [ok |-> FALSE, entries |-> Nothing]

TypeOK ==
  /\ DOMAIN mounts \subseteq Paths \ {<<>>}
  /\ \A mp \in DOMAIN mounts : mounts[mp] \in Filesystems
  /\ \A h \in Handles : handle[h].kind \in {"closed", "file", "dir", "synthetic"}
  /\ panicked \in BOOLEAN

Init == /\ mounts = [mp \in {} |-> RootFs]
        /\ handle = [h \in Handles |-> Closed]
        /\ panicked = FALSE

(***************************************************************************)
(* Changing the table.  A filesystem value is moved in by `attach` and out *)
(* by `detach`, so it is in at most one place.                             *)
(***************************************************************************)
AttachRefused(mp) ==
  \/ mp = <<>>
  \/ mp \in DOMAIN mounts
  \/ try_is_dir(mounts, mp) # "yes"

attach(raw, fs) ==
  LET mp == canonical_path(raw).path
  IN  /\ ~panicked
      /\ canonical_path(raw).ok
      /\ fs \notin Range(mounts) \cup {RootFs}
      /\ ~AttachRefused(mp)
      /\ Tree[fs][<<>>] = "dir"
      /\ mounts' = [p \in DOMAIN mounts \cup {mp} |-> IF p = mp THEN fs ELSE mounts[p]]
      /\ UNCHANGED <<handle, panicked>>

detach(raw) ==
  LET mp == canonical_path(raw).path
  IN  /\ ~panicked
      /\ canonical_path(raw).ok
      /\ mp \in DOMAIN mounts
      /\ mounts' = [p \in DOMAIN mounts \ {mp} |-> mounts[p]]
      /\ UNCHANGED <<handle, panicked>>

(***************************************************************************)
(* Handles.                                                                *)
(***************************************************************************)
OpenHandle(h, raw) ==
  LET path == canonical_path(raw).path
      kind == open(mounts, path)
  IN  /\ ~panicked
      /\ canonical_path(raw).ok
      /\ handle[h] = Closed
      /\ kind \in {"file", "dir", "synthetic"}
      /\ handle' = [handle EXCEPT ![h] =
           [kind |-> kind, path |-> path, mount_point |-> route(mounts, path),
            opened_on |-> filesystem_mut(mounts, route(mounts, path)), listing |-> Unlisted]]
      /\ UNCHANGED <<mounts, panicked>>

\* `filesystem_mut` on the mount point the handle remembers.
RouteGone(h) == /\ handle[h].kind \in {"file", "dir"}
                /\ handle[h].mount_point \notin DOMAIN mounts \cup {<<>>}

read_open_file(h) ==
  /\ ~panicked
  /\ handle[h].kind = "file"
  /\ panicked' = RouteGone(h)
  /\ UNCHANGED <<mounts, handle>>

\* The entries the handle's own filesystem gives it, and the mounted children
\* of the moment laid over them.
Loaded(h) ==
  LET path == handle[h].path
      fs   == filesystem_mut(mounts, handle[h].mount_point)
      rel  == relative(path, handle[h].mount_point)
  IN  IF handle[h].kind = "synthetic"
      THEN [ok |-> TRUE, entries |-> merge_directory_entries(mounts, path, Nothing)]
      ELSE IF Lookup(fs, rel) # "dir" THEN Unlisted
      ELSE [ok |-> TRUE, entries |-> merge_directory_entries(mounts, path, Entries(fs, rel))]

\* Another filesystem has taken the mount point since the handle was opened:
\* one of another driver refuses the handle, one of the same driver does not.
MayRefuse(h) == /\ handle[h].kind = "dir" /\ ~RouteGone(h)
                /\ filesystem_mut(mounts, handle[h].mount_point) # handle[h].opened_on

\* `opened_directory_entries`: the first successful load is kept.
AlwaysLoads(h) == TRUE
MustLoad(h) == ~handle[h].listing.ok

opened_directory_entries(h) ==
  /\ ~panicked
  /\ handle[h].kind \in {"dir", "synthetic"}
  /\ panicked' = (MustLoad(h) /\ RouteGone(h))
  /\ \/ /\ ~MustLoad(h) \/ RouteGone(h) \/ MayRefuse(h)
        /\ UNCHANGED handle
     \/ /\ MustLoad(h) /\ ~RouteGone(h)
        /\ handle' = [handle EXCEPT ![h].listing = Loaded(h)]
  /\ UNCHANGED mounts

Close(h) == /\ ~panicked
            /\ handle[h] # Closed
            /\ handle' = [handle EXCEPT ![h] = Closed]
            /\ UNCHANGED <<mounts, panicked>>

Next ==
  \/ \E raw \in RawPaths, fs \in Filesystems : attach(raw, fs)
  \/ \E raw \in RawPaths : detach(raw)
  \/ \E h \in Handles, raw \in RawPaths : OpenHandle(h, raw)
  \/ \E h \in Handles : read_open_file(h) \/ opened_directory_entries(h) \/ Close(h)

Spec == Init /\ [][Next]_vars

-----------------------------------------------------------------------------
(* A listing and the path-by-path answers describe the same tree: wherever  *)
(* `read_dir` succeeds, a name is listed exactly when `metadata` finds it,  *)
(* with the same kind, whatever was attached and detached above and below.  *)
ListedIffThere ==
  \A p \in Paths : read_dir(mounts, p).ok =>
    \A q \in Paths : (q # <<>> /\ Parent(q) = p) =>
      LET listed == read_dir(mounts, p).entries
          found  == metadata(mounts, q)
      IN  IF Name(q) \in DOMAIN listed THEN found = listed[Name(q)]
          ELSE found \notin {"dir", "file"}

(* `attach` hides nothing but its own mount point: a mount that is attached *)
(* stays reachable by its path, as a directory, whatever is mounted over    *)
(* the directories above it afterwards.                                     *)
MountsStayReachable ==
  \A mp \in DOMAIN mounts :
    /\ metadata(mounts, mp) = "dir"
    /\ open(mounts, mp) = "dir"
    /\ read_dir(mounts, mp).ok
    /\ \A up \in {SubSeq(mp, 1, n) : n \in 0..Len(mp)} : try_is_dir(mounts, up) = "yes"

(* The namespace is one tree, to listings and lookups alike, with every     *)
(* mount in its place.                                                      *)
OneTree == ListedIffThere /\ MountsStayReachable

(* "A successful listing is retained on the handle": while a directory      *)
(* handle stays open its listing never changes once it was loaded, though   *)
(* filesystems come and go below the directory.                             *)
ListingRetained ==
  [][\A h \in Handles :
       (handle[h] # Closed /\ handle'[h] # Closed /\ handle[h].listing.ok)
         => handle'[h].listing = handle[h].listing]_vars

(* The `expect` of filesystem_mut: "route mount point must remain           *)
(* attached".                                                               *)
RouteRemainsAttached == ~panicked
=============================================================================
