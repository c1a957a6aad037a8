---------------------------- MODULE FstabCompose ----------------------------
(***************************************************************************)
(* Composing the tree a guest's /etc/fstab describes                       *)
(* (src/src/fstab_mount.rs, compose_fstab_namespace): the root entry is    *)
(* checked against the volume already open, the UUIDs the table asks for   *)
(* are looked up by opening candidate volumes one after another, and the   *)
(* entries are attached in order of depth.  Any open of a candidate may    *)
(* fail; an entry marked nofail may then be left out, any other entry      *)
(* fails the composition.                                                  *)
(*                                                                         *)
(* UUIDs are taken up to letter case (both comparisons of the code ignore  *)
(* it); an entry whose source names no UUID, and a volume that exposes     *)
(* none, has NoUuid.  A noauto entry and one of a virtual filesystem are   *)
(* skipped alike: both are entries with auto = FALSE.                      *)
(*                                                                         *)
(* The namespace that comes out is then in the hands of its user: from     *)
(* "done" on the steps are the calls of MountNamespace, and the tables of  *)
(* the composition are gone.  An empty fstab leaves the bare namespace.    *)
(***************************************************************************)
EXTENDS MountNamespace, FiniteSetsExt

CONSTANTS
  Fstabs,       \* the tables the root volume may hold: sequences of entries
                \* [mount_point, uuid, auto, nofail], mount points as written
  Uuid,         \* Uuid[v]: the UUID of volume v, or NoUuid
  Candidates,   \* the volumes of the medium in search order, the root included
  NoUuid

Volumes == Filesystems

ASSUME CandidatesAreVolumes ==
  /\ Candidates \in Seq(Volumes)
  /\ DOMAIN Uuid = Volumes

ASSUME TablesAreSequences ==
  \A table \in Fstabs :
    /\ Len(table) \in Nat /\ DOMAIN table = 1..Len(table)
    /\ \A i \in DOMAIN table : table[i].mount_point \in AllPaths

VARIABLES
  fstab,      \* the table read through the root filesystem
  phase,      \* "validate", "discover", "attach", "done" or "failed"
  at,         \* the next candidate to open, or the next entry to attach
  resolved    \* UUID -> volume

composeVars == <<fstab, phase, at, resolved>>
allVars == <<vars, composeVars>>

Insert(f, k, v) == [x \in DOMAIN f \cup {k} |-> IF x = k THEN v ELSE f[x]]
Empty == [x \in {} |-> RootFs]

Depth(entry) == Len(entry.mount_point)

(***************************************************************************)
(* `mount_entries`: the child mounts, by the number of components of the   *)
(* mount point as it is written, in file order among equals: each goes     *)
(* behind those that are no deeper.                                        *)
(***************************************************************************)
Children(table) == {e \in Range(table) : e.mount_point # <<>>}

sort_by_file(sorted, e) == Append(sorted, e)
sort_by_key(sorted, e) ==
  LET n == CHOOSE n \in 0..Len(sorted) :
             /\ \A i \in 1..n : Depth(sorted[i]) <= Depth(e)
             /\ \A i \in (n + 1)..Len(sorted) : Depth(sorted[i]) > Depth(e)
  IN  Append(SubSeq(sorted, 1, n), e) \o SubSeq(sorted, n + 1, Len(sorted))

mount_entries(table) ==
  LET sorted[i \in 0..Len(table)] ==
        IF i = 0 THEN <<>>
        ELSE IF table[i].mount_point = <<>> THEN sorted[i - 1]
        ELSE sort_by_key(sorted[i - 1], table[i])
  IN  sorted[Len(table)]

requested(table) == {e.uuid : e \in Children(table)} \ {NoUuid}

ComposeInit ==
  /\ Init
  /\ fstab \in Fstabs
  /\ phase = "validate"
  /\ at = 0
  /\ resolved = Empty

(***************************************************************************)
(* `validate_root_entry`, then the root answers for its own UUID.          *)
(***************************************************************************)
RootEntries(table) == {i \in DOMAIN table : table[i].mount_point = <<>>}

RootAgrees(table) ==
  RootEntries(table) = {} \/ table[Min(RootEntries(table))].uuid \in {NoUuid, Uuid[RootFs]}

validate_root_entry ==
  /\ phase = "validate"
  /\ IF RootAgrees(fstab)
     THEN /\ phase' = "discover" /\ at' = 1
          /\ resolved' = IF Uuid[RootFs] \in requested(fstab)
                         THEN Insert(Empty, Uuid[RootFs], RootFs) ELSE Empty
     ELSE phase' = "failed" /\ UNCHANGED <<at, resolved>>
  /\ UNCHANGED <<fstab, vars>>

(***************************************************************************)
(* `discover_uuid_addresses`: candidates are opened until every requested  *)
(* UUID is accounted for; one that does not open is passed over, and the   *)
(* first that carries a UUID keeps it.                                     *)
(***************************************************************************)
AllFound == requested(fstab) \subseteq DOMAIN resolved

candidates_failed ==    \* the medium cannot be enumerated
  /\ phase = "discover" /\ at = 1 /\ ~AllFound
  /\ phase' = "failed"
  /\ UNCHANGED <<fstab, at, resolved, vars>>

discover_candidate ==
  /\ phase = "discover" /\ ~AllFound /\ at <= Len(Candidates)
  /\ LET v == Candidates[at]
     IN  \/ resolved' = resolved
         \/ /\ v # RootFs
            /\ Uuid[v] \in requested(fstab) \ DOMAIN resolved
            /\ resolved' = Insert(resolved, Uuid[v], v)
  /\ at' = at + 1
  /\ UNCHANGED <<fstab, phase, vars>>

discover_done ==
  /\ phase = "discover"
  /\ AllFound \/ at > Len(Candidates)
  /\ phase' = "attach" /\ at' = 1
  /\ UNCHANGED <<fstab, resolved, vars>>

(***************************************************************************)
(* One entry: `open_fstab_entry` and the namespace's `attach`.             *)
(***************************************************************************)
Entry == mount_entries(fstab)[at]
Working == phase = "attach" /\ at <= Len(mount_entries(fstab))
MountPoint(e) == canonical_path(e.mount_point)

AttachAccepted(e) == MountPoint(e).ok /\ ~AttachRefused(MountPoint(e).path)

skip_entry ==
  /\ Working /\ ~Entry.auto
  /\ at' = at + 1
  /\ UNCHANGED <<fstab, phase, resolved, vars>>

attach_entry ==
  /\ Working /\ Entry.auto
  /\ Entry.uuid \in DOMAIN resolved
  /\ AttachAccepted(Entry)
  /\ Tree[resolved[Entry.uuid]][<<>>] = "dir"
  /\ mounts' = Insert(mounts, MountPoint(Entry).path, resolved[Entry.uuid])
  /\ at' = at + 1
  /\ UNCHANGED <<fstab, phase, resolved, handle, panicked>>

\* The source is not resolved, its volume does not open (which may happen to
\* any volume, also to one that opened during the search), or the namespace
\* refuses the mount point.
ForgivenAll(e) == TRUE
Forgiven(e) == e.nofail

entry_failed ==
  /\ Working /\ Entry.auto
  /\ IF Forgiven(Entry) THEN at' = at + 1 /\ UNCHANGED phase
                        ELSE phase' = "failed" /\ UNCHANGED at
  /\ UNCHANGED <<fstab, resolved, vars>>

Composed == phase = "attach" /\ at > Len(mount_entries(fstab))

compose_done ==
  /\ Composed
  /\ phase' = "done"
  /\ fstab' = <<>> /\ at' = 0 /\ resolved' = Empty
  /\ UNCHANGED vars

Compose == \/ validate_root_entry
           \/ candidates_failed \/ discover_candidate \/ discover_done
           \/ skip_entry \/ attach_entry \/ entry_failed \/ compose_done

UseNamespace == phase = "done" /\ Next /\ UNCHANGED composeVars

ComposeSpec == ComposeInit /\ [][Compose \/ UseNamespace]_allVars

\* Every mount point is attached where it is written, if anywhere: the order
\* of attaching is by what is written.
WrittenPlainly(table) ==
  \A i \in DOMAIN table :
    MountPoint(table[i]).ok => MountPoint(table[i]).path \in {table[i].mount_point, <<>>}

-----------------------------------------------------------------------------
(* Depth order is what makes the checks of `attach` mean anything in the    *)
(* end: in the composed namespace every mount point is still a directory of *)
(* the volume it covers, and so is every directory above it, so no mounted  *)
(* volume hangs below a path that another volume has since hidden.          *)
MountPointsStand ==
  phase # "done" => \A mp \in DOMAIN mounts :
    LET over == {p \in DOMAIN mounts : ~is_at_or_below(p, mp)}
        table == [p \in over |-> mounts[p]]
    IN  \A n \in 0..Len(mp) : Behind(table, SubSeq(mp, 1, n)) = "dir"

PathsOf == UNION {DOMAIN Tree[v] : v \in Volumes}

(* The calls of the interface agree on every path of the composed tree: a   *)
(* path `open` resolves to a directory is one `metadata` and `try_is_dir`   *)
(* call a directory and `read_dir` lists; a file is a file to all of them.  *)
CallsAgree ==
  phase # "done" => \A p \in {q \o r : q \in DOMAIN mounts \cup {<<>>}, r \in PathsOf} :
    LET kind == open(mounts, p)
    IN  /\ metadata(mounts, p) = kind
        /\ (kind = "dir")  <=> read_dir(mounts, p).ok
        /\ (kind = "file") <=> (read_at(mounts, p) = "file")
        /\ (kind = "dir")  <=> (try_is_dir(mounts, p) = "yes")
        /\ (kind = "file") <=> (try_is_file(mounts, p) = "yes")
        /\ (kind \in {"dir", "file"}) <=> (try_exists(mounts, p) = "yes")

(* There is one tree, whichever call looks at it: the calls agree on what a *)
(* path is, a name is listed exactly when it is there, and every mounted    *)
(* volume can be reached.                                                   *)
ViewsAgree == CallsAgree /\ OneTree

(* A composition that succeeds dropped nothing it may not drop: every entry *)
(* that is neither noauto, nor virtual, nor nofail has its volume, the one  *)
(* with the UUID it names, at its mount point.                              *)
RequiredEntriesMounted ==
  Composed =>
    \A e \in Children(fstab) : (e.auto /\ ~e.nofail) =>
      /\ MountPoint(e).path \in DOMAIN mounts
      /\ Uuid[mounts[MountPoint(e).path]] = e.uuid

(* "A / entry naming a UUID must name this one": nothing is composed on top *)
(* of a root volume the table does not belong to.                           *)
OnlyOnItsOwnRoot ==
  phase = "attach" =>
    \A n \in DOMAIN fstab :
      (/\ fstab[n].mount_point = <<>>
       /\ \A k \in 1..(n - 1) : fstab[k].mount_point # <<>>)
        => fstab[n].uuid \in {NoUuid, Uuid[RootFs]}

(* A composition that succeeds is the one the table declares.               *)
ComposedAsDeclared == RequiredEntriesMounted /\ OnlyOnItsOwnRoot

(* "Child mounts are attached shallow-to-deep so a nested mount point such  *)
(* as /boot/efi is attached after the /boot it lives in."                   *)
ShallowToDeep ==
  [][\A mp \in DOMAIN mounts' \ DOMAIN mounts : ~has_mounted_descendant(mounts, mp)]_vars
=============================================================================
