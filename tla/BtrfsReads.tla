----------------------------- MODULE BtrfsReads -----------------------------
(***************************************************************************)
(* Reading through the redundancy of a volume while its devices fail.  The *)
(* volume is filled by the file system's writer (external), which also     *)
(* keeps the parity; then devices go missing, sectors cannot be read or    *)
(* silently change, and an interrupted write of a sector that nothing      *)
(* refers to leaves the parity of its stripe behind.  A read tries the     *)
(* replicas one after another, and faults may come in between.             *)
(***************************************************************************)
EXTENDS BtrfsChunks

CONSTANTS
  Layouts,     \* the volumes: [volume, devices, rows, moved, live, sites, windows]
  MaxFaults

\* What `ChunkMapping::validate` lets pass.
ASSUME LayoutsAreValid ==
  \A l \in Layouts : \A c \in l.volume.chunks :
    \/ c.remapped /\ c.stripes = <<>>
    \/ valid_profile_geometry(c.profile, Len(c.stripes), c.sub)

VARIABLES
  layout,   \* the layout of this behaviour
  ideal,    \* the medium as the writer left it
  sectors,  \* the medium as it is
  gone,     \* the devices that are missing
  harm,     \* "devices": only whole devices failed; "sectors": some cannot be
            \* read; "lies": some that can be read are wrong
  faults,   \* how many faults there were
  mounted,  \* "no", "yes" or "refused"
  absent,   \* the devices that were missing at the mount
  read      \* the read in progress or the last one

readVars == <<layout, ideal, sectors, gone, harm, faults, mounted, absent, read>>

(***************************************************************************)
(* The writer: what it puts on each sector of a device extent.             *)
(***************************************************************************)
Byte(logical) == (logical * 37 + 11) % 256

\* The address that row o of the stripe j, counted from 0, holds: relative to its
\* chunk for data, or -1 for P and -2 for Q.
Holds(chunk, j, o) ==
  LET n == Len(chunk.stripes)
      row == o \div StripeLength
      data == n - ParityStripes(chunk.profile)
      k == (j - row) % n
      Striped(width, column) == (row * width + column) * StripeLength + Within(o)
  IN  CASE chunk.profile \in {"Single"} \cup Mirrors -> o
        [] chunk.profile = "Raid0" -> Striped(n, j)
        [] chunk.profile = "Raid10" -> Striped(n \div 2, j \div 2)
        [] OTHER -> IF k < data THEN Striped(data, k) ELSE data - k - 1

\* What was moved is found at its new address; its old place holds something else.
Value(l, address) ==
  LET from == {m \in l.moved : address \in m.to .. m.to + m.length - 1}
      m == CHOOSE m \in from : TRUE
  IN  CASE from # {} -> Byte(m.from + address - m.to)
        [] \E n \in l.moved : address \in n.from .. n.from + n.length - 1 -> (Byte(address) + 128) % 256
        [] OTHER -> Byte(address)

Parity(l, chunk, which, o) ==
  LET n == Len(chunk.stripes)
      data == n - ParityStripes(chunk.profile)
      row == o \div StripeLength
      At(k) == Value(l, chunk.logical + (row * data + k) * StripeLength + Within(o))
  IN  FoldLeft(LAMBDA acc, k :
                 acc ^^ (IF which = -1 THEN At(k) ELSE gf_multiply(At(k), gf_pow2[k])),
               0, [k \in 1 .. data |-> k - 1])

Stored(l, chunk, j, o) ==
  LET held == Holds(chunk, j, o)
  IN  IF held < 0 THEN Parity(l, chunk, held, o) ELSE Value(l, chunk.logical + held)

\* The members of a stripe tree's items hold their data wherever the item says.
StridesOf(l) ==
  IF l.volume.strides = <<>> THEN {}
  ELSE UNION {{[dev |-> item.stripes[i].dev, off |-> item.stripes[i].off + k,
                at |-> item.source + k] : i \in DOMAIN item.stripes, k \in 0 .. item.length - 1} :
                item \in l.volume.strides[1]}
Strided(l, chunk) == l.volume.strides # <<>> /\ uses_raid_stripe_tree(chunk)
Written(l) ==
  {[dev |-> s.dev, off |-> s.off, value |-> Value(l, s.at)] : s \in StridesOf(l)} \cup
  UNION {{[dev |-> c.stripes[j].dev, off |-> c.stripes[j].off + o, value |-> Stored(l, c, j - 1, o)] :
            j \in DOMAIN c.stripes, o \in 0 .. l.rows - 1} :
            c \in {c \in l.volume.chunks : ~Strided(l, c)}}

Fill(l) ==
  LET all == Written(l)
      Here(d, o) == {w \in all : w.dev = d /\ w.off = o}
      last == CHOOSE o \in {w.off : w \in all} : \A w \in all : w.off <= o
  IN  [d \in l.devices |-> [o \in 0 .. last |->
         IF Here(d, o) = {} THEN <<0>> ELSE <<(CHOOSE w \in Here(d, o) : TRUE).value>>]]

NoRead == [logical |-> 0, length |-> 0, purpose |-> "data", sums |-> FALSE,
           count |-> 0, replica |-> 0, out |-> "none", data |-> <<>>]

ReadInit ==
  /\ layout \in Layouts
  /\ ideal = Fill(layout) /\ sectors = ideal
  /\ gone = {} /\ harm = "devices" /\ faults = 0 /\ mounted = "no" /\ absent = {} /\ read = NoRead

(***************************************************************************)
(* Faults.                                                                 *)
(***************************************************************************)
Faulty == faults < MaxFaults /\ mounted # "refused" /\ faults' = faults + 1

Lose(d) ==
  /\ Faulty /\ d \notin gone
  /\ gone' = gone \cup {d}
  /\ sectors' = [sectors EXCEPT ![d] = [o \in DOMAIN @ |-> <<>>]]
  /\ UNCHANGED <<layout, ideal, harm, mounted, absent, read>>

Fail(d, o) ==
  /\ Faulty /\ sectors[d][o] # <<>>
  /\ sectors' = [sectors EXCEPT ![d][o] = <<>>]
  /\ harm' = IF harm = "devices" THEN "sectors" ELSE harm
  /\ UNCHANGED <<layout, ideal, gone, mounted, absent, read>>

\* Rot, and the write that never brought its stripe's parity up to date.
Change(d, o) ==
  /\ Faulty /\ sectors[d][o] # <<>> /\ sectors[d][o] = ideal[d][o]
  /\ sectors' = [sectors EXCEPT ![d][o] = <<(@[1] + 1) % 256>>]
  /\ harm' = "lies"
  /\ UNCHANGED <<layout, ideal, gone, mounted, absent, read>>

(***************************************************************************)
(* `validate_chunk_devices`, and reads of data and of tree blocks.         *)
(***************************************************************************)
OpenVolume ==
  /\ mounted = "no"
  /\ mounted' = IF validate_chunk_devices(layout.volume.chunks, layout.devices \ gone)
                THEN "yes" ELSE "refused"
  /\ absent' = gone
  /\ UNCHANGED <<layout, ideal, sectors, gone, harm, faults, read>>

\* `read_extent_bytes_into` and `read_tree_block` up to the loop: data without
\* checksums is tried once.
BeginRead(window, sums) ==
  /\ mounted = "yes" /\ read = NoRead
  /\ LET segment == map_segment(layout.volume, window.logical, 1, window.purpose)
     IN  read' = [NoRead EXCEPT !.logical = window.logical, !.length = window.length,
                    !.purpose = window.purpose, !.sums = sums,
                    !.count = IF ~sums THEN 1 ELSE IF segment = <<>> THEN 0
                              ELSE replica_count(segment[1]),
                    !.out = "reading"]
  /\ UNCHANGED <<layout, ideal, sectors, gone, harm, faults, mounted, absent>>

\* The checksum of a sector, or the header of a tree block, tells it from others.
verify(logical, data) == \A i \in DOMAIN data : data[i] = Byte(logical + i - 1)

TryReplica ==
  /\ read.out = "reading"
  /\ IF read.replica = read.count THEN read' = [read EXCEPT !.out = "failed"]
     ELSE \E got \in {read_exact_from_replica(layout.volume, sectors, read.logical, read.length,
                                               read.replica, read.purpose)} :
          read' = IF got # <<>> /\ (~read.sums \/ verify(read.logical, got[1]))
                  THEN [read EXCEPT !.out = "done", !.data = got[1]]
                  ELSE [read EXCEPT !.replica = @ + 1]
  /\ UNCHANGED <<layout, ideal, sectors, gone, harm, faults, mounted, absent>>

(***************************************************************************)
(* Properties.                                                             *)
(***************************************************************************)
\* Where the writer put an address: its copies, or the whole row of a stripe with
\* parity, and how many of those sectors it can do without.
Resident(address) ==
  LET from == {m \in layout.moved : address \in m.from .. m.from + m.length - 1}
  IN  IF from = {} THEN address
      ELSE LET m == CHOOSE m \in from : TRUE IN m.to + address - m.from

Members(address) ==
  LET at == Resident(address)
      c == CHOOSE c \in layout.volume.chunks : contains(c, at)
      slots == (DOMAIN c.stripes) \X (0 .. layout.rows - 1)
      own == {s \in slots : Holds(c, s[1] - 1, s[2]) = at - c.logical}
      all == IF ParityStripes(c.profile) = 0 THEN own
             ELSE {s \in slots : \E t \in own : s[2] = t[2]}
  IN  IF Strided(layout, c)
      THEN {Location(s, 0) : s \in {s \in StridesOf(layout) : s.at = at}}
      ELSE {Location(c.stripes[s[1]], s[2]) : s \in all}

Tolerance(address) ==
  LET c == CHOOSE c \in layout.volume.chunks : contains(c, Resident(address))
  IN  IF ParityStripes(c.profile) > 0 THEN ParityStripes(c.profile)
      ELSE Cardinality(Members(address)) - 1

Bad(address) == {m \in Members(address) : sectors[m.dev][m.off] # ideal[m.dev][m.off]}
Lost(address, devices) == {m \in Members(address) : m.dev \in devices}

\* What is read is what was written, unless a sector without checksum lies.
RightOrRefused ==
  read.out = "done" /\ (read.sums \/ harm # "lies")
    => \A i \in 1 .. read.length : read.data[i] = Byte(read.logical + i - 1)

\* A read fails only where more sectors are bad than the profile can do without.
\* Of a wider window that holds when whole devices failed.
FailsOnlyBeyond ==
  read.out = "failed" /\ (read.sums \/ harm # "lies") /\ (read.length = 1 \/ harm = "devices")
    => \E a \in read.logical .. read.logical + read.length - 1 : Cardinality(Bad(a)) > Tolerance(a)

\* The volume is mounted exactly when the devices at hand hold every address.
MountedIffReadable ==
  mounted # "no" =>
    (mounted = "yes" <=> \A a \in layout.live : Cardinality(Lost(a, absent)) <= Tolerance(a))
=============================================================================
