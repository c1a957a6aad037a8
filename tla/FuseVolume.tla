----------------------------- MODULE FuseVolume -----------------------------
(***************************************************************************)
(* The FUSE view of a volume (src/crates/fsmnt-fuse/src/fuse.rs): the      *)
(* inode table that gives paths numbers, and `readdir`, which lists a      *)
(* directory afresh on every call and skips to the offset the kernel asks  *)
(* for.  One mutex serialises the callbacks, so each is one step.          *)
(*                                                                         *)
(* The volume is a read-only tree.  Its calls may fail at any time, which  *)
(* the callbacks answer with an error and without a change of state.  The  *)
(* kernel is external: it uses the inodes it was given and the root, and   *)
(* reads directories page by page, several at once.                        *)
(***************************************************************************)
EXTENDS Naturals, FiniteSets, Sequences

CONSTANTS
  Names,        \* the names that are looked up
  Listing,      \* directory path -> the names filter_entries leaves, in order
  Files,        \* the paths that are files
  Readers,      \* the directory streams the kernel has open at once
  MaxInode      \* bound on the inodes handed out

ROOT_INO == 1

Dirs == DOMAIN Listing
Exists(path) == path \in Dirs \cup Files

VARIABLES
  by_ino,       \* inode -> path
  by_name,      \* <<parent, name>> -> inode
  next_ino,
  known,        \* the inodes the kernel was given
  reader        \* directory stream -> [ino, offset, got, end]

vars == <<by_ino, by_name, next_ino, known, reader>>

NotReading == [ino |-> 0, offset |-> 0, got |-> <<>>, end |-> FALSE]

TypeOK ==
  /\ next_ino \in (ROOT_INO + 1)..MaxInode
  /\ DOMAIN by_ino \subseteq 1..next_ino
  /\ \A k \in DOMAIN by_name : by_name[k] \in DOMAIN by_ino \ {ROOT_INO}
  /\ known \subseteq DOMAIN by_ino
  /\ \A r \in Readers : reader[r].ino \in known \cup {0}

FirstFree == ROOT_INO + 1

Init == /\ by_ino = [i \in {ROOT_INO} |-> <<>>]
        /\ by_name = [k \in {} |-> ROOT_INO]
        /\ next_ino = FirstFree
        /\ known = {ROOT_INO}
        /\ reader = [r \in Readers |-> NotReading]

(***************************************************************************)
(* `InodeTable::lookup_or_insert`, on a table so that a listing can insert *)
(* its entries one after another.                                          *)
(***************************************************************************)
Table == [by_ino |-> by_ino, by_name |-> by_name, next_ino |-> next_ino]

With(f, k, v) == [x \in DOMAIN f \cup {k} |-> IF x = k THEN v ELSE f[x]]

AllocatedAgain(table, parent, name) ==
  [by_ino   |-> With(table.by_ino, table.next_ino, Append(table.by_ino[parent], name)),
   by_name  |-> With(table.by_name, <<parent, name>>, table.next_ino),
   next_ino |-> table.next_ino]
Allocated(table, parent, name) ==
  [by_ino   |-> With(table.by_ino, table.next_ino, Append(table.by_ino[parent], name)),
   by_name  |-> With(table.by_name, <<parent, name>>, table.next_ino),
   next_ino |-> table.next_ino + 1]

lookup_or_insert(table, parent, name) ==
  IF <<parent, name>> \in DOMAIN table.by_name THEN table
  ELSE Allocated(table, parent, name)

Commit(table) == /\ by_ino' = table.by_ino
                 /\ by_name' = table.by_name
                 /\ next_ino' = table.next_ino

(***************************************************************************)
(* `lookup`: a number is allocated before the volume is asked, and the     *)
(* kernel learns it only when the volume answers.                          *)
(***************************************************************************)
lookup(parent, name) ==
  LET table == lookup_or_insert(Table, parent, name)
      ino   == table.by_name[<<parent, name>>]
  IN  /\ Commit(table)
      /\ \/ known' = known                                  \* ENOENT
         \/ Exists(table.by_ino[ino]) /\ known' = known \cup {ino}
      /\ UNCHANGED reader

(***************************************************************************)
(* `readdir`: the entries from the offset on, as many as the kernel's      *)
(* buffer takes.  ".", ".." come first; the offset given with an entry is  *)
(* that of the one after it.                                               *)
(***************************************************************************)
NumberAll(parent, names) ==
  LET table[i \in 0..Len(names)] ==
        IF i = 0 THEN Table ELSE lookup_or_insert(table[i - 1], parent, names[i])
  IN  table[Len(names)]

next_offset_same(idx) == idx
next_offset(idx) == idx + 1

opendir(r, ino) ==
  /\ reader[r].ino = 0
  /\ by_ino[ino] \in Dirs
  /\ reader' = [reader EXCEPT ![r] = [ino |-> ino, offset |-> 0, got |-> <<>>, end |-> FALSE]]
  /\ UNCHANGED <<by_ino, by_name, next_ino, known>>

readdir(r, fits) ==
  LET ino   == reader[r].ino
      names == Listing[by_ino[ino]]
      all   == <<".", "..">> \o names
      skip  == reader[r].offset
      page  == SubSeq(all, skip + 1, IF skip + fits < Len(all) THEN skip + fits ELSE Len(all))
      last  == skip + Len(page) - 1
  IN  /\ ino # 0 /\ ~reader[r].end
      /\ Commit(NumberAll(ino, names))
      /\ reader' = [reader EXCEPT ![r].got = @ \o page,
                                  ![r].offset = IF page = <<>> THEN @ ELSE next_offset(last),
                                  ![r].end = (page = <<>>)]
      /\ UNCHANGED known

releasedir(r) ==
  /\ reader[r].ino # 0
  /\ reader' = [reader EXCEPT ![r] = NotReading]
  /\ UNCHANGED <<by_ino, by_name, next_ino, known>>

Bounded == next_ino + Cardinality(Names) <= MaxInode

Next ==
  \/ Bounded /\ \E parent \in known, name \in Names :
       by_ino[parent] \in Dirs /\ lookup(parent, name)
  \/ \E r \in Readers : \/ \E ino \in known : opendir(r, ino)
                        \/ Bounded /\ \E fits \in 1..2 : readdir(r, fits)
                        \/ releasedir(r)

Spec == Init /\ [][Next]_vars

-----------------------------------------------------------------------------
(* A number the kernel holds names one path for as long as the volume is    *)
(* mounted: the kernel caches attributes and pages by inode for an hour.    *)
InodeKeepsItsPath ==
  [][\A i \in DOMAIN by_ino : i \in DOMAIN by_ino' /\ by_ino'[i] = by_ino[i]]_vars

(* One path, one number, however it was come by (looked up, or listed by    *)
(* any of the streams): otherwise the kernel would see one file as two.     *)
OneInodePerPath == \A i, j \in DOMAIN by_ino : by_ino[i] = by_ino[j] => i = j

(* Page by page, with the table changing in between, a stream is given      *)
(* every entry of the directory exactly once and in order.                  *)
StreamsAreWhole ==
  \A r \in Readers : reader[r].ino # 0 =>
    LET all == <<".", "..">> \o Listing[by_ino[reader[r].ino]]
    IN  /\ \E n \in 0..Len(all) : reader[r].got = SubSeq(all, 1, n)
        /\ reader[r].end => reader[r].got = all
=============================================================================
