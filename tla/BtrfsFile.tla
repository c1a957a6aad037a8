----------------------------- MODULE BtrfsFile ------------------------------
(***************************************************************************)
(* Reading a file through a pending tree log (fs-btrfs file,               *)
(* volume/log, volume/checksum): the committed extents, and over them the  *)
(* extents that an fsync put in the log.                                   *)
(*                                                                         *)
(* The writer (external) holds a file as a map of its sectors, a sector    *)
(* being [kind, ext, at]: kind "none", "hole", "reg", "pre" or "inline",   *)
(* and a place in an extent.  An extent [data, comp] starts at the address *)
(* its number times Stride; a compressed one is one sector on disk.  A     *)
(* result is <<x>>, or <<>> for an error.                                  *)
(***************************************************************************)
EXTENDS Integers, FiniteSets, SequencesExt

CONSTANTS
  Sector,    \* bytes of a sector
  Sectors,   \* sectors of the longest file
  Edits,     \* what the writer may do: [op, first, n, comp, short]
  Windows,   \* [offset, length] of reads
  MaxEdits, MaxReads

VARIABLES
  no_holes,  \* the feature: a hole has no item
  file,      \* the file in memory: [size, map]
  extents,   \* the extents written so far
  base,      \* the committed file: [size, items, sums]
  filelog,   \* what the log holds of it, as a sequence of at most one
  dirty,     \* the sectors an fsync has to log
  durable,   \* the bytes that the last commit or fsync made durable
  edits,     \* how many edits there were
  handle,    \* `BtrfsFile`, as a sequence of at most one
  got        \* the last read: through the handle, and without it

fileVars == <<no_holes, file, extents, base, filelog, dirty, durable, edits, handle, got>>

SectorNumbers == 0 .. Sectors - 1
Stride == 2 * Sector * Sectors
Rounded(bytes) == (bytes + Sector - 1) \div Sector
Bytes(n) == n * Sector

(***************************************************************************)
(* The disk.                                                               *)
(***************************************************************************)
\* One sector of an extent as it is on disk; a compressed one names its extent.
OnDisk(logical) ==
  LET e == logical \div Stride
      at == logical % Stride
  IN  [k \in 1 .. Sector |-> IF extents[e].comp THEN e ELSE extents[e].data[at + k]]
decompress_into(encoded) == extents[encoded[1]].data

NoSector == [kind |-> "none", ext |-> 0, at |-> 0]
Hole == [NoSector EXCEPT !.kind = "hole"]
EmptyMap == [i \in SectorNumbers |-> NoSector]

ByteOf(map, exts, p) ==
  LET m == map[p \div Sector]
      q == Bytes(m.at) + (p % Sector) + 1
  IN  IF m.kind \in {"reg", "inline"} /\ q <= Len(exts[m.ext].data) THEN exts[m.ext].data[q] ELSE 0
ContentOf(f, exts) == [p \in 1 .. f.size |-> ByteOf(f.map, exts, p - 1)]

(***************************************************************************)
(* The items of the sectors S: one for each run within an extent.  Holes   *)
(* have items in the log always, in the tree only without `no_holes`.      *)
(***************************************************************************)
Joined(map, i) ==
  /\ map[i].kind = map[i - 1].kind /\ map[i].ext = map[i - 1].ext
  /\ map[i].kind = "hole" \/ map[i].at = map[i - 1].at + 1
Starts(map, S) == {i \in S : i = 0 \/ i - 1 \notin S \/ ~Joined(map, i)}
RunEnd(map, S, i) ==
  CHOOSE j \in S : /\ j >= i /\ \A k \in i + 1 .. j : k \in S /\ Joined(map, k)
                   /\ j + 1 \notin S \/ ~Joined(map, j + 1)

ExtentItem(map, exts, i, n) ==
  LET m == map[i]
      x == [file_offset |-> Bytes(i), kind |-> "Regular", comp |-> FALSE, inline |-> <<>>,
            disk_logical |-> 0, disk_bytes |-> 0, extent_offset |-> 0,
            logical_bytes |-> Bytes(n), ram_bytes |-> Bytes(n)]
  IN  CASE m.kind = "hole" -> x
        [] m.kind = "inline" ->
             [x EXCEPT !.kind = "Inline", !.comp = exts[m.ext].comp,
                       !.inline = IF exts[m.ext].comp THEN <<m.ext>> ELSE exts[m.ext].data,
                       !.logical_bytes = Len(exts[m.ext].data), !.ram_bytes = Len(exts[m.ext].data)]
        [] OTHER ->
             [x EXCEPT !.kind = IF m.kind = "pre" THEN "Preallocated" ELSE "Regular",
                       !.comp = exts[m.ext].comp, !.disk_logical = m.ext * Stride,
                       !.disk_bytes = IF exts[m.ext].comp THEN Sector ELSE Len(exts[m.ext].data),
                       !.extent_offset = Bytes(m.at), !.ram_bytes = Len(exts[m.ext].data)]

ItemsOf(map, exts, S) ==
  LET starts == SelectSeq([i \in 1 .. Sectors |-> i - 1], LAMBDA i : i \in Starts(map, S))
  IN  [k \in DOMAIN starts |-> ExtentItem(map, exts, starts[k], RunEnd(map, S, starts[k]) - starts[k] + 1)]

\* The checksum items of extents; a checksum tells any two sectors apart.
SumsOf(items, exts) ==
  LET Of(x) == IF x.comp THEN [at |-> x.disk_logical, n |-> 1]
               ELSE [at |-> x.disk_logical + x.extent_offset, n |-> x.logical_bytes \div Sector]
      DiskSector(at) == LET e == at \div Stride
                        IN  [k \in 1 .. Sector |-> IF exts[e].comp THEN e
                                                   ELSE exts[e].data[(at % Stride) + k]]
  IN  {[at |-> Of(x).at, sums |-> [k \in 1 .. Of(x).n |-> DiskSector(Of(x).at + Bytes(k - 1))]] :
         x \in {x \in ToSet(items) : x.kind = "Regular" /\ x.disk_logical # 0}}

(***************************************************************************)
(* The writer.                                                             *)
(***************************************************************************)
FileInit ==
  /\ no_holes \in BOOLEAN
  /\ file = [size |-> 0, map |-> EmptyMap] /\ extents = <<>>
  /\ base = [size |-> 0, items |-> <<>>, sums |-> {}] /\ filelog = <<>> /\ dirty = {}
  /\ durable = <<>> /\ edits = 0 /\ handle = <<>> /\ got = <<>>

Covered(edit) == edit.first .. edit.first + edit.n - 1
Fresh(n, last) == [k \in 1 .. n |-> IF k <= last THEN 10 * (Len(extents) + 1) + k ELSE 0]

\* Holes before the end of the file; a file past its inline extent has none.
Settled(map, size) ==
  [i \in SectorNumbers |-> IF map[i].kind = "none" /\ i < Rounded(size) THEN Hole ELSE map[i]]

Edit(f, exts, touched) ==
  /\ edits < MaxEdits /\ handle = <<>>
  /\ file' = [f EXCEPT !.map = Settled(@, f.size)] /\ extents' = exts
  /\ dirty' = dirty \cup touched \cup {i \in SectorNumbers : file'.map[i] # file.map[i]}
  /\ edits' = edits + 1
  /\ UNCHANGED <<no_holes, base, filelog, durable, handle, got>>

\* Whole sectors, the last one without its `short` last bytes.  Preallocated space
\* of one extent is written in place.
InPlace(S) ==
  LET m == file.map
  IN  \A i \in S : m[i].kind = "pre" /\ (i - 1 \in S => Joined(m, i))
WriteExtent(edit) ==
  /\ edit.op = "write"
  /\ file.map[0].kind = "inline" => edit.first = 0
  /\ LET S == Covered(edit)
         e == Len(extents) + 1
         end == Bytes(edit.first + edit.n) - edit.short
         size == IF end > file.size THEN end ELSE file.size
         data == Fresh(Bytes(edit.n), Bytes(edit.n) - (IF end = size THEN edit.short ELSE 0))
         place == InPlace(S) /\ ~edit.comp
         m == file.map
         home == m[edit.first]
     IN  IF place
         THEN Edit([size |-> size,
                      map |-> [i \in SectorNumbers |-> IF i \in S THEN [m[i] EXCEPT !.kind = "reg"]
                                                       ELSE m[i]]],
                     [extents EXCEPT ![home.ext].data =
                        [k \in DOMAIN @ |-> IF k - Bytes(home.at) \in DOMAIN data
                                            THEN data[k - Bytes(home.at)] ELSE @[k]]], S)
         ELSE Edit([size |-> size,
                      map |-> [i \in SectorNumbers |->
                                 IF i \in S THEN [kind |-> "reg", ext |-> e, at |-> i - edit.first]
                                 ELSE m[i]]],
                     Append(extents, [data |-> data, comp |-> edit.comp]), S)

\* A file of one sector at most goes into its item.
WriteInline(edit) ==
  /\ edit.op = "inline" /\ file.size <= Sector - edit.short
  /\ LET n == Sector - edit.short
     IN  Edit([size |-> n, map |-> [EmptyMap EXCEPT ![0] = [kind |-> "inline", ext |-> Len(extents) + 1, at |-> 0]]],
                Append(extents, [data |-> Fresh(n, n), comp |-> edit.comp]), SectorNumbers)

Punch(edit) ==
  /\ edit.op = "punch" /\ file.map[0].kind # "inline"
  /\ LET S == {i \in Covered(edit) : file.map[i].kind \notin {"none", "hole"}}
     IN  /\ S # {}
         /\ Edit([file EXCEPT !.map = [i \in SectorNumbers |-> IF i \in S THEN Hole ELSE @[i]]], extents, S)

\* The space of holes, also past the end of the file.
Allocate(edit) ==
  /\ edit.op = "allocate" /\ file.map[0].kind # "inline"
  /\ LET S == Covered(edit)
     IN  /\ \A i \in S : file.map[i].kind \in {"none", "hole"}
         /\ Edit([file EXCEPT !.map = [i \in SectorNumbers |->
                      IF i \in S THEN [kind |-> "pre", ext |-> Len(extents) + 1, at |-> i - edit.first]
                      ELSE @[i]]],
                   Append(extents, [data |-> [k \in 1 .. Bytes(edit.n) |-> 9], comp |-> FALSE]), S)

\* A cut within a sector, or growth out of one, writes the sector anew with zeros
\* behind the end.  After it an fsync logs the whole file.
Truncate(edit) ==
  /\ edit.op = "truncate" /\ file.size # edit.n
  /\ LET cut == IF edit.n < file.size THEN edit.n ELSE file.size
         tail == cut \div Sector
         torn == cut % Sector # 0 /\ file.map[tail].kind \in {"reg", "inline"}
         e == Len(extents) + 1
         kept == [k \in 1 .. Sector |-> IF Bytes(tail) + k <= cut
                                        THEN ByteOf(file.map, extents, Bytes(tail) + k - 1) ELSE 0]
         turned == file.map[0].kind = "inline" /\ edit.n > file.size /\ ~torn
         map == [i \in SectorNumbers |->
                   CASE torn /\ i = tail -> [kind |-> "reg", ext |-> e, at |-> 0]
                     [] ~(torn /\ i = tail) /\ i >= Rounded(cut) -> NoSector
                     [] OTHER -> file.map[i]]
     IN  /\ ~turned
         /\ Edit([size |-> edit.n, map |-> map],
                   IF torn THEN Append(extents, [data |-> kept, comp |-> FALSE]) ELSE extents,
                   SectorNumbers)

Present(map) == {i \in SectorNumbers : map[i].kind # "none"}
FsyncFile ==
  /\ handle = <<>> /\ dirty # {}
  /\ LET items == ItemsOf(file.map, extents, dirty \cap Present(file.map))
     IN  filelog' = <<[size |-> file.size, items |-> items, sums |-> SumsOf(items, extents)]>>
  /\ durable' = ContentOf(file, extents)
  /\ UNCHANGED <<no_holes, file, extents, base, dirty, edits, handle, got>>

CommitFile ==
  /\ handle = <<>> /\ dirty # {}
  /\ LET kept == {i \in Present(file.map) : ~(no_holes /\ file.map[i].kind = "hole")}
         items == ItemsOf(file.map, extents, kept)
     IN  base' = [size |-> file.size, items |-> items, sums |-> SumsOf(items, extents)]
  /\ durable' = ContentOf(file, extents)
  /\ dirty' = {} /\ filelog' = <<>>
  /\ UNCHANGED <<no_holes, file, extents, edits, handle, got>>

(***************************************************************************)
(* Checksums: a logged one goes before the committed ones.                 *)
(***************************************************************************)
LoggedSums == IF filelog = <<>> THEN {} ELSE filelog[1].sums
checksum(logical) ==
  {x.sums[((logical - x.at) \div Sector) + 1] :
     x \in {x \in LoggedSums : logical \in x.at .. x.at + Bytes(Len(x.sums)) - 1}}

committed_checksum(items, logical) ==
  LET below == {x \in items : x.at <= logical}
      x == CHOOSE x \in below : \A y \in below : y.at <= x.at
      k == ((logical - x.at) \div Sector) + 1
  IN  IF below = {} THEN {} ELSE {x.sums[j] : j \in {k} \cap DOMAIN x.sums}

\* Without an item at or below the first sector no committed item is looked at.
verify_data_checksums(logical, n) ==
  LET below == {x \in base.sums : x.at <= logical}
      items == IF below = {} THEN {} ELSE {x \in base.sums : x.at < logical + Bytes(n)}
  IN  \A k \in 0 .. n - 1 :
        LET at == logical + Bytes(k)
            expected == IF checksum(at) # {} THEN checksum(at) ELSE committed_checksum(items, at)
        IN  expected = {OnDisk(at)}

read_extent_bytes(logical, length) ==
  IF ~verify_data_checksums(logical, length \div Sector) THEN <<>>
  ELSE <<[k \in 1 .. length |-> OnDisk(logical + Bytes((k - 1) \div Sector))[((k - 1) % Sector) + 1]]>>

(***************************************************************************)
(* Extents.                                                                *)
(***************************************************************************)
extent_window(x, offset, length) ==
  LET end == x.file_offset + (IF x.kind = "Inline" THEN x.ram_bytes ELSE x.logical_bytes)
      from == IF x.file_offset > offset THEN x.file_offset ELSE offset
      to == IF end < offset + length THEN end ELSE offset + length
  IN  [dst |-> from - offset, off |-> from - x.file_offset, len |-> IF to > from THEN to - from ELSE 0]

uncompressed_read_window(x, off, length) ==
  LET requested == x.disk_logical + x.extent_offset + off
      logical == requested - (requested % Sector)
      source == requested - logical
      n == Bytes(Rounded(source + length))
  IN  [logical |-> logical, length |-> n, source |-> source,
       ok |-> logical - x.disk_logical + n <= x.disk_bytes]

copy_window(out, dst, source, at, length) ==
  IF at + length > Len(source) THEN <<>>
  ELSE <<[k \in DOMAIN out |-> IF k \in dst + 1 .. dst + length THEN source[at + k - dst] ELSE out[k]]>>

\* Mutant: the offset alone tells a decoded extent.
matches_offset(decoded, layer, x) == decoded.file_offset = x.file_offset

\* The decoded extent is kept for the next read; it is known by its layer and
\* offset.
matches(decoded, layer, x) == decoded.layer = layer /\ decoded.file_offset = x.file_offset
decode_extent(x, layer, cache) ==
  LET encoded == IF x.kind = "Inline" THEN <<x.inline>> ELSE read_extent_bytes(x.disk_logical, x.disk_bytes)
  IN  IF cache # <<>> /\ matches(cache[1], layer, x) THEN cache
      ELSE IF encoded = <<>> THEN <<>>
      ELSE <<[layer |-> layer, file_offset |-> x.file_offset, data |-> decompress_into(encoded[1])]>>

Failed(acc) == [acc EXCEPT !.out = <<>>]

\* acc is [out, cache]; out is <<>> after an error.
apply_extent_range(acc, x, layer, offset) ==
  LET w == extent_window(x, offset, Len(acc.out[1]))
      u == uncompressed_read_window(x, w.off, w.len)
      plain == read_extent_bytes(u.logical, u.length)
      decoded == decode_extent(x, layer, acc.cache)
  IN  IF acc.out = <<>> THEN acc
      ELSE IF w.len = 0 \/ x.kind = "Preallocated" \/ (x.kind = "Regular" /\ x.disk_logical = 0) THEN acc
      ELSE IF x.comp
      THEN IF x.extent_offset + w.off + w.len > x.ram_bytes \/ decoded = <<>> THEN Failed(acc)
           ELSE [out |-> copy_window(acc.out[1], w.dst, decoded[1].data, x.extent_offset + w.off, w.len),
                 cache |-> decoded]
      ELSE IF x.kind = "Inline"
      THEN [acc EXCEPT !.out = copy_window(@[1], w.dst, x.inline, w.off, w.len)]
      ELSE IF ~u.ok THEN Failed(acc)
      ELSE IF plain = <<>> THEN Failed(acc)
      ELSE [acc EXCEPT !.out = copy_window(@[1], w.dst, plain[1], u.source, w.len)]

clear_extent_range(acc, x, offset) ==
  LET w == extent_window(x, offset, Len(acc.out[1]))
  IN  IF acc.out = <<>> THEN acc
      ELSE [acc EXCEPT !.out = <<[k \in DOMAIN @[1] |-> IF k \in w.dst + 1 .. w.dst + w.len THEN 0 ELSE @[1][k]]>>]

file_range_end(x) ==
  x.file_offset + (IF x.kind = "Inline" THEN Bytes(Rounded(x.ram_bytes)) ELSE x.logical_bytes)
parse_extent_layer(items) == \A i \in 2 .. Len(items) : file_range_end(items[i - 1]) <= items[i].file_offset

\* The items from the one at or before the first byte to the last byte.
Between(items, first, last) ==
  LET after == {i \in DOMAIN items : items[i].file_offset > first}
      n == Len(items) - Cardinality(after)
      from == IF n = 0 THEN 1 ELSE n
  IN  SelectSeq(SubSeq(items, from, Len(items)), LAMBDA x : x.file_offset <= last)
extent_candidates(items, first, end) == Between(items, first, end - 1)
logged_extents(first, last) == IF filelog = <<>> THEN <<>> ELSE Between(filelog[1].items, first, last)

ApplyLayers(committed, logged, offset, length, cache) ==
  LET below == FoldLeft(LAMBDA acc, x : apply_extent_range(acc, x, "Committed", offset),
                        [out |-> <<[k \in 1 .. length |-> 0]>>, cache |-> cache], committed)
  IN  FoldLeft(LAMBDA acc, x : apply_extent_range(clear_extent_range(acc, x, offset), x, "Logged", offset),
               below, logged)

NotRead == [window |-> [offset |-> 0, length |-> 0], handle |-> <<>>, ranged |-> <<>>]
inode_size == IF filelog = <<>> THEN base.size ELSE filelog[1].size
ReadLength(size, offset, length) ==
  IF size <= offset THEN 0 ELSE IF size - offset < length THEN size - offset ELSE length

\* Each layer is parsed up to the last byte of the file, once.
open_file ==
  /\ handle = <<>> /\ got = <<>>
  /\ LET size == inode_size
         committed == SelectSeq(base.items, LAMBDA x : x.file_offset < size)
         logged == IF size = 0 THEN <<>> ELSE logged_extents(0, size - 1)
     IN  IF parse_extent_layer(committed) /\ parse_extent_layer(logged)
         THEN /\ handle' = <<[size |-> size, committed |-> committed, logged |-> logged,
                              cache |-> <<>>]>>
              /\ got' = got
         ELSE handle' = handle /\ got' = <<NotRead>>
  /\ UNCHANGED <<no_holes, file, extents, base, filelog, dirty, durable, edits>>

read_at(h, offset, length) ==
  LET n == ReadLength(h.size, offset, length)
  IN  IF n = 0 THEN [out |-> <<<<>>>>, cache |-> h.cache]
      ELSE ApplyLayers(extent_candidates(h.committed, offset, offset + n),
                       extent_candidates(h.logged, offset, offset + n), offset, n, h.cache)

read_file_range(offset, length) ==
  LET n == ReadLength(inode_size, offset, length)
      committed == Between(base.items, offset, offset + n - 1)
      logged == logged_extents(offset, offset + n - 1)
  IN  IF n = 0 THEN <<<<>>>>
      ELSE IF ~parse_extent_layer(committed) \/ ~parse_extent_layer(logged) THEN <<>>
      ELSE ApplyLayers(committed, logged, offset, n, <<>>).out

ReadFile(window) ==
  /\ handle # <<>> /\ Len(got) < MaxReads
  /\ \E r \in {read_at(handle[1], window.offset, window.length)} :
       /\ handle' = [handle EXCEPT ![1].cache = r.cache]
       /\ got' = Append(got, [window |-> window, handle |-> r.out,
                              ranged |-> read_file_range(window.offset, window.length)])
  /\ UNCHANGED <<no_holes, file, extents, base, filelog, dirty, durable, edits>>

(***************************************************************************)
(* Properties.                                                             *)
(***************************************************************************)
\* A read through a handle, whatever it read before, and a read without one both
\* give the bytes that the last commit or fsync made durable.
ReadsWhatWasSynced ==
  got # <<>> =>
    LET read == Last(got)
        n == ReadLength(Len(durable), read.window.offset, read.window.length)
        want == <<[k \in 1 .. n |-> durable[read.window.offset + k]]>>
    IN  read.handle = want /\ read.ranged = want
=============================================================================
