------------------------------ MODULE BtrfsDir ------------------------------
(***************************************************************************)
(* A directory through a pending tree log (fs-btrfs volume/log and         *)
(* volume): the committed entries, and over them the entries and the       *)
(* ranges of keys that an fsync of the directory put in the log.           *)
(*                                                                         *)
(* An entry is [index, name, ino].  It has an item by index, and one by    *)
(* the hash of its name that it shares with the names of the same hash.    *)
(* A log is [index, hash, ranges]: items by index, items by hash as pairs  *)
(* of a hash and its entries, and ranges [kind, start, end].               *)
(***************************************************************************)
EXTENDS Integers, FiniteSets, SequencesExt

CONSTANTS
  Names,
  Hash,      \* the hash of each name
  MaxIndex,  \* entries made, counted from 1
  MaxChanges

VARIABLES
  entries,       \* the directory in memory
  next_index,
  committed_dir, \* the directory in the committed tree
  dirlog,        \* the log, as a sequence of at most one
  synced_dir,    \* the names that the last commit or fsync made durable
  changes,       \* how many changes there were
  answers        \* what the mounted directory answers

dirVars == <<entries, next_index, committed_dir, dirlog, synced_dir, changes, answers>>

NamesOf(es) == {[name |-> e.name, ino |-> e.ino] : e \in es}

(***************************************************************************)
(* The writer (external).                                                  *)
(***************************************************************************)
DirInit ==
  /\ entries = {} /\ next_index = 1 /\ committed_dir = {} /\ dirlog = <<>>
  /\ synced_dir = {} /\ changes = 0 /\ answers = <<>>

ChangeTo(es, made) ==
  /\ answers = <<>> /\ changes < MaxChanges
  /\ entries' = es /\ next_index' = next_index + made /\ changes' = changes + 1
  /\ UNCHANGED <<committed_dir, dirlog, synced_dir, answers>>

Entry(name, ino) == [index |-> next_index, name |-> name, ino |-> ino]
Named(name) == {e \in entries : e.name = name}

Create(name) ==
  /\ next_index <= MaxIndex /\ Named(name) = {}
  /\ ChangeTo(entries \cup {Entry(name, next_index)}, 1)
Unlink(name) ==
  /\ Named(name) # {}
  /\ ChangeTo(entries \ Named(name), 0)
\* The new entry has an index of its own; a file of the new name is replaced.
Rename(old, new) ==
  /\ next_index <= MaxIndex /\ Named(old) # {} /\ old # new
  /\ ChangeTo((entries \ (Named(old) \cup Named(new))) \cup {Entry(new, e.ino) : e \in Named(old)}, 1)

CommitDir ==
  /\ answers = <<>> /\ committed_dir # entries
  /\ committed_dir' = entries /\ dirlog' = <<>> /\ synced_dir' = NamesOf(entries)
  /\ UNCHANGED <<entries, next_index, changes, answers>>

ByHash(es, hashes) ==
  {[hash |-> h, entries |-> {e \in es : Hash[e.name] = h}] :
     h \in {h \in hashes : \E e \in es : Hash[e.name] = h}}
AllHashes == {Hash[n] : n \in Names}

\* An fsync logs ranges of indexes and all that is left in them: either the gaps
\* between the entries that stayed, or everything, by hash also; one range may
\* be logged in two pieces.
Stayed == {e.index : e \in committed_dir \cap entries}
Gaps ==
  LET last == MaxIndex + 1
      Free(a, b) == a <= b /\ (a = 1 \/ a - 1 \in Stayed) /\ (b = last \/ b + 1 \in Stayed)
                    /\ \A i \in a .. b : i \notin Stayed
  IN  {r \in {[kind |-> "index", start |-> a, end |-> b] : a \in 1 .. last, b \in 1 .. last} :
         Free(r.start, r.end)}
Pieces(ranges) ==
  UNION {{[r EXCEPT !.end = r.start], [r EXCEPT !.start = IF r.end > @ THEN @ + 1 ELSE @]} :
           r \in ranges}
EveryRange == {[kind |-> "index", start |-> 1, end |-> MaxIndex + 1],
          [kind |-> "hash", start |-> 0, end |-> Cardinality(Names)]}

\* Only new entries need no range.
FsyncDir(style) ==
  /\ answers = <<>> /\ NamesOf(entries) # synced_dir
  /\ LET ranges == CASE style = "gaps" -> Gaps [] style = "pieces" -> Pieces(Gaps)
                     [] style = "whole" -> EveryRange [] style = "new" -> {}
         In(e) == \E r \in ranges : r.kind = "index" /\ e.index \in r.start .. r.end
     IN  /\ style = "new" => committed_dir \subseteq entries
         /\ dirlog' = <<[index |-> {e \in entries : In(e)} \cup (entries \ committed_dir),
                         hash |-> IF style = "whole" THEN ByHash(entries, AllHashes) ELSE {},
                         ranges |-> ranges]>>
  /\ synced_dir' = NamesOf(entries)
  /\ UNCHANGED <<entries, next_index, committed_dir, changes, answers>>

(***************************************************************************)
(* The overlay.                                                            *)
(***************************************************************************)
\* `normalize_ranges`: ranges of a kind that touch become one.
Touch(r, s) == r.kind = s.kind /\ s.start <= r.end + 1 /\ r.start <= s.start
Merge(ranges, r) ==
  LET near == {s \in ranges : Touch(s, r)}
      s == CHOOSE s \in near : TRUE
  IN  IF near = {} THEN ranges \cup {r}
      ELSE (ranges \ {s}) \cup {[s EXCEPT !.end = IF r.end > @ THEN r.end ELSE @]}
InOrder(ranges) ==
  LET Before(r, s) == \/ r.kind # s.kind /\ r.kind = "hash"
                      \/ r.kind = s.kind /\ (r.start < s.start \/ (r.start = s.start /\ r.end < s.end))
  IN  SetToSortSeq(ranges, Before)
normalize_ranges(ranges) == FoldLeft(Merge, {}, InOrder(ranges))

Replaced(ranges, kind, key) == \E r \in ranges : r.kind = kind /\ key \in r.start .. r.end

overlay_index(log, ranges) ==
  LET replaced(e) == (\E l \in log.index : l.index = e.index) \/ Replaced(ranges, "index", e.index)
  IN  {e \in committed_dir : ~replaced(e)} \cup log.index
overlay_hash(log, ranges, h) ==
  LET own == {x.entries : x \in {x \in log.hash : x.hash = h}}
  IN  IF own # {} THEN UNION own
      ELSE IF Replaced(ranges, "hash", h) THEN {}
      ELSE {e \in committed_dir : Hash[e.name] = h}

directory_index_changed(log, ranges) == (\E r \in ranges : r.kind = "index") \/ log.index # {}

NoDirLog == [index |-> {}, hash |-> {}, ranges |-> {}]
lookup(log, ranges, name) ==
  LET from == IF directory_index_changed(log, ranges) THEN overlay_index(log, ranges)
              ELSE overlay_hash(log, ranges, Hash[name])
  IN  {e.ino : e \in {e \in from : e.name = name}}

\* The mounted directory: a listing, and a lookup of every name.
Mount ==
  /\ answers = <<>>
  /\ LET log == IF dirlog = <<>> THEN NoDirLog ELSE dirlog[1]
     IN  \E ranges \in {normalize_ranges(log.ranges)} :
           answers' = <<[listing |-> NamesOf(overlay_index(log, ranges)),
                         found |-> [n \in Names |-> lookup(log, ranges, n)]]>>
  /\ UNCHANGED <<entries, next_index, committed_dir, dirlog, synced_dir, changes>>

(***************************************************************************)
(* Properties.                                                             *)
(***************************************************************************)
\* `read_dir` and `lookup` both show the directory as the last commit or fsync
\* left it: what was deleted or renamed away since the commit is not found by
\* either, what was made is found by both.
NamesAsSynced ==
  answers # <<>> =>
    /\ answers[1].listing = synced_dir
    /\ \A n \in Names : answers[1].found[n] = {e.ino : e \in {e \in synced_dir : e.name = n}}
=============================================================================
