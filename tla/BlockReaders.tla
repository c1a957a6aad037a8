---------------------------- MODULE BlockReaders ----------------------------
(***************************************************************************)
(* The adapters fsmnt puts between a medium and a filesystem parser:       *)
(* PartitionReader (a window of the medium), SectorReader (whole-sector    *)
(* I/O), LeadingGapReader (a medium that begins inside its volume) and     *)
(* TolerantReader (zeros for what cannot be read).  Each is the record of  *)
(* its fields and the operators its read and seek are made of; DriveStack  *)
(* and ImageStack put them on top of each other.                           *)
(*                                                                         *)
(* A byte is the offset it was read from on the medium, so that a byte     *)
(* served for the wrong place is visible; Zero is a substituted byte.      *)
(***************************************************************************)
EXTENDS Integers, Sequences, FiniteSets

CONSTANTS
  Base,        \* PartitionReader.base_offset
  Size,        \* PartitionReader.size
  SectorSize,  \* SectorReader.sector_size
  Granule      \* ERROR_ZERO_FILL_GRANULE

ASSUME ReadersAssumption ==
  /\ Base \in Nat /\ Size \in Nat
  /\ SectorSize \in Nat \ {0} /\ Granule \in Nat \ {0}

None == -1
Zero == -2

Smaller(a, b) == IF a < b THEN a ELSE b
Larger(a, b) == IF a < b THEN b ELSE a

-----------------------------------------------------------------------------
(* PartitionReader                                                          *)

PartitionInit == [position |-> 0, inner_position |-> None]

PartitionSeek(p, to) == [p EXCEPT !.position = to]

\* Bytes a read of n may ask of the inner reader: never past the window.
MaxRead(p, n) == Smaller(Larger(Size - p.position, 0), n)

AbsPos(p) == Base + p.position

\* The inner reader is only seeked when it is not believed to be there already.
MustSeek(p) == p.inner_position # AbsPos(p)

\* Where the inner reader, standing at pos, stands when it is asked to read.
InnerStart(p, pos) == IF MustSeek(p) THEN AbsPos(p) ELSE pos

\* After k bytes were read.
PartitionAdvance(p, k) ==
  [position |-> p.position + k, inner_position |-> AbsPos(p) + k]

-----------------------------------------------------------------------------
(* SectorReader                                                             *)

SectorInit == [position |-> 0, cached_sector |-> None, sector |-> <<>>]

SectorStart(pos) == pos - (pos % SectorSize)

\* What read does next at pos with remaining bytes of the request to serve.
Phase(pos, remaining) ==
  CASE remaining = 0 -> "done"
    [] remaining > 0 /\ pos % SectorSize # 0 -> "head"
    [] remaining >= SectorSize /\ pos % SectorSize = 0 -> "aligned"
    [] OTHER -> "tail"

\* How many bytes that phase serves, and how many it reads.
PhaseServes(pos, remaining) ==
  IF Phase(pos, remaining) = "aligned"
    THEN remaining - (remaining % SectorSize)
    ELSE Smaller(SectorSize - (pos % SectorSize), remaining)

\* What a sector buffer holds once read_exact has put only buf into it.
Clobbered(sector, buf) ==
  [i \in 1..Larger(Len(sector), Len(buf)) |->
     IF i <= Len(buf) THEN buf[i] ELSE sector[i]]

\* What the cached sector holds for the count bytes at pos.
FromSectorStart(s, pos, count) == SubSeq(s.sector, 1, count)
FromSector(s, pos, count) ==
  SubSeq(s.sector, (pos % SectorSize) + 1, (pos % SectorSize) + count)

-----------------------------------------------------------------------------
(* TolerantReader and what it substituted (ReadSubstitutions, as sets of    *)
(* the bytes its three range maps cover).                                   *)

NothingSubstituted ==
  [missing |-> {}, errored |-> {}, absent |-> {}, read_errors |-> 0]

Substituted(stats) == stats.missing \cup stats.errored \cup stats.absent

TolerantInit(inner_len, declared) ==
  [position |-> 0, inner_len |-> inner_len,
   length |-> Larger(inner_len, declared)]

AtEnd(t) == t.position >= t.length

Want(t, n) == Smaller(t.length - t.position, n)

PastSource(t) == t.position >= t.inner_len

\* What is asked of the source: never across its end in one call.
AskSource(t, n) == Smaller(Want(t, n), t.inner_len - t.position)

Zeros(count) == [i \in 1..count |-> Zero]

RecordFromNext(stats, why, start, end) ==
  [stats EXCEPT ![why] = @ \cup (start + 1)..(end - 1)]
Record(stats, why, start, end) ==
  [stats EXCEPT ![why] = @ \cup start..(end - 1)]

=============================================================================
