--------------------------- MODULE NamespaceViews ---------------------------
(***************************************************************************)
(* What a mount namespace answers: how fsmnt-core's MountNamespace         *)
(* (src/crates/fsmnt-core/src/namespace.rs) turns a path into an answer of *)
(* one of the filesystems it is assembled from.  The operators take the    *)
(* mount table as a parameter and change nothing, so that the two state    *)
(* machines that build such tables share them: MountNamespace (the library *)
(* calls) and FstabCompose (the table an fstab describes).                 *)
(*                                                                         *)
(* A path is the sequence of its components, the root being <<>>.  A       *)
(* filesystem is its tree: a function from the paths that exist in it to   *)
(* "dir" or "file".                                                        *)
(***************************************************************************)
EXTENDS Naturals, FiniteSets, Sequences

CONSTANTS
  Tree,     \* Tree[fs]: the tree of the filesystem fs
  RootFs    \* the filesystem the namespace is rooted at

Filesystems == DOMAIN Tree

\* The sequences of components.
AllPaths == Seq(STRING)

Parent(path) == SubSeq(path, 1, Len(path) - 1)
Name(path) == path[Len(path)]
StartsWith(path, above) ==
  Len(above) <= Len(path) /\ SubSeq(path, 1, Len(above)) = above

\* What lies below something lies below a directory.
ASSUME TreesAreTrees ==
  /\ RootFs \in Filesystems
  /\ \A fs \in Filesystems :
       /\ <<>> \in DOMAIN Tree[fs]
       /\ DOMAIN Tree[fs] \subseteq AllPaths
       /\ \A p \in DOMAIN Tree[fs] :
            /\ Tree[fs][p] \in {"dir", "file"}
            /\ p # <<>> => Parent(p) \in DOMAIN Tree[fs] /\ Tree[fs][Parent(p)] = "dir"

(***************************************************************************)
(* Paths.  `canonical_path` resolves "." and ".." and refuses a path that  *)
(* climbs out of the root.  `is_below` compares strings: nothing is below  *)
(* the empty path, because no relative path starts with a slash.           *)
(***************************************************************************)
Component(seen, c) ==
  IF ~seen.ok \/ c = "." THEN seen
  ELSE IF c # ".." THEN [ok |-> TRUE, path |-> Append(seen.path, c)]
  ELSE IF seen.path = <<>> THEN [ok |-> FALSE, path |-> <<>>]
  ELSE [ok |-> TRUE, path |-> Parent(seen.path)]

canonical_path(raw) ==
  LET seen[i \in 0..Len(raw)] ==
        IF i = 0 THEN [ok |-> TRUE, path |-> <<>>] ELSE Component(seen[i - 1], raw[i])
  IN  seen[Len(raw)]

is_below(path, parent) == parent # <<>> /\ path # parent /\ StartsWith(path, parent)
is_at_or_below(path, parent) == path = parent \/ is_below(path, parent)

(***************************************************************************)
(* Routing.  A mount table m maps mount points to filesystems; the root is *)
(* never in it, so <<>> stands for the code's "no mount point".            *)
(***************************************************************************)
route(m, path) ==
  LET above == {mp \in DOMAIN m : is_at_or_below(path, mp)}
  IN  IF above = {} THEN <<>>
      ELSE CHOOSE mp \in above : \A other \in above : Len(other) <= Len(mp)

relative(path, mp) == SubSeq(path, Len(mp) + 1, Len(path))

filesystem_mut(m, mp) == IF mp = <<>> THEN RootFs ELSE m[mp]

\* What a backing filesystem finds at a path of its own.  Every driver
\* refuses a path that goes through a file with an error that is not NotFound.
Lookup(fs, path) ==
  IF path \in DOMAIN Tree[fs] THEN Tree[fs][path]
  ELSE IF \E n \in 1..Len(path) : /\ SubSeq(path, 1, n) \in DOMAIN Tree[fs]
                                  /\ Tree[fs][SubSeq(path, 1, n)] = "file"
       THEN "NotADirectory"
       ELSE "NotFound"

Behind(m, path) ==
  LET mp == route(m, path) IN Lookup(filesystem_mut(m, mp), relative(path, mp))

has_mounted_descendant(m, path) ==
  \E mp \in DOMAIN m : path = <<>> \/ is_below(mp, path)

\* `has_synthetic_fallback`: something is mounted further down, and the path
\* is not itself a mount point.
AboveMount(m, path) == has_mounted_descendant(m, path) /\ path \notin DOMAIN m

(***************************************************************************)
(* The names the mount points themselves give a directory.                 *)
(***************************************************************************)
direct_mount_children(m, parent) ==
  {mp[Len(parent) + 1] : mp \in {q \in DOMAIN m : q # parent /\ StartsWith(q, parent)}}

(***************************************************************************)
(* The read-only interface.  An answer is "dir", "file", or an error; a    *)
(* directory invented because something is mounted below it is             *)
(* "synthetic" where the code keeps the difference.                        *)
(***************************************************************************)
open(m, path) ==
  LET behind == Behind(m, path)
  IN  IF behind = "NotFound" /\ AboveMount(m, path) THEN "synthetic" ELSE behind

metadata(m, path) == IF AboveMount(m, path) THEN "dir" ELSE Behind(m, path)

read_at(m, path) ==
  IF AboveMount(m, path) THEN "NotAFile"
  ELSE IF Behind(m, path) = "dir" THEN "NotAFile" ELSE Behind(m, path)

Verdict(behind, wanted) ==
  IF behind = "NotADirectory" THEN "error"
  ELSE IF behind \in wanted THEN "yes" ELSE "no"

try_exists(m, path) ==
  IF has_mounted_descendant(m, path) THEN "yes"
  ELSE Verdict(Behind(m, path), {"dir", "file"})
try_is_dir(m, path) ==
  IF has_mounted_descendant(m, path) THEN "yes" ELSE Verdict(Behind(m, path), {"dir"})
try_is_file_as_exists(m, path) ==
  IF has_mounted_descendant(m, path) THEN "no" ELSE Verdict(Behind(m, path), {"dir", "file"})
try_is_file(m, path) ==
  IF has_mounted_descendant(m, path) THEN "no" ELSE Verdict(Behind(m, path), {"file"})

\* The entries of a directory of a backing filesystem, as a function from
\* names to kinds.
Entries(fs, path) ==
  LET below == {q \in DOMAIN Tree[fs] : Len(q) = Len(path) + 1 /\ StartsWith(q, path)}
  IN  [n \in {Name(q) : q \in below} |-> Tree[fs][Append(path, n)]]

\* A mounted child replaces an entry of the same name.
merge_directory_entries(m, path, entries) ==
  LET children == direct_mount_children(m, path)
  IN  [n \in DOMAIN entries \cup children |-> IF n \in children THEN "dir" ELSE entries[n]]

Nothing == [n \in {} |-> "dir"]

read_dir(m, path) ==
  LET mp     == route(m, path)
      fs     == filesystem_mut(m, mp)
      behind == Lookup(fs, relative(path, mp))
  IN  IF behind = "dir"
      THEN [ok |-> TRUE, entries |-> merge_directory_entries(m, path, Entries(fs, relative(path, mp)))]
      ELSE IF behind = "NotFound" /\ direct_mount_children(m, path) # {}
      THEN [ok |-> TRUE, entries |-> merge_directory_entries(m, path, Nothing)]
      ELSE [ok |-> FALSE, entries |-> Nothing]
=============================================================================
