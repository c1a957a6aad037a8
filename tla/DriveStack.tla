----------------------------- MODULE DriveStack -----------------------------
(***************************************************************************)
(* The stack of readers open_raw_member builds over a drive for            *)
(* best-effort reads: the drive, a PartitionReader over it, a SectorReader *)
(* over that and a TolerantReader on top, asked by a parser that seeks and *)
(* reads.  Whole calls are sequences of steps, one per call of the drive.  *)
(*                                                                         *)
(* The drive is external: a file with a position, DriveLen bytes long,     *)
(* whose reads may be short, end at its end, and fail on the bytes of bad  *)
(* sectors without moving the position.                                    *)
(***************************************************************************)
EXTENDS BlockReaders

CONSTANTS DriveLen, MaxRequest, MaxErrors

ASSUME DriveAssumption ==
  /\ DriveLen \in Nat /\ MaxRequest \in Nat \ {0} /\ MaxErrors \in Nat
  /\ Size % SectorSize = 0

VARIABLES
  bad,    \* offsets of the drive that cannot be read
  dpos,   \* the drive's file position
  part,   \* the PartitionReader
  sect,   \* the SectorReader
  tol,    \* the TolerantReader
  stats,  \* its ReadSubstitutions
  call,   \* the call in progress
  out,    \* the bytes the last finished call returned
  at      \* the position it was made at (at first, the end)

vars == <<bad, dpos, part, sect, tol, stats, call, out, at>>

Idle == [pc |-> "idle", ask |-> 0, served |-> <<>>, todo |-> 0, buf |-> <<>>]

\* The drive sectors a set of sector indices stands for.
SectorBytes(indices) ==
  {o \in 0..(DriveLen - 1) : (o \div SectorSize) \in indices}

Init ==
  /\ bad \in {SectorBytes(x) : x \in SUBSET (0..((DriveLen - 1) \div SectorSize))}
  /\ dpos = 0
  /\ part = PartitionInit
  /\ sect = SectorInit
  /\ tol = TolerantInit(Size, Size)
  /\ stats = NothingSubstituted
  /\ call = Idle
  /\ out = <<>>
  /\ at = Size

-----------------------------------------------------------------------------
\* The parser seeks to pos and reads up to n bytes.  The SectorReader claims to
\* be Size long and never answers a read before its end with nothing, so the
\* TolerantReader's "past the source" branch is not reached in this stack.
Request(pos, n) ==
  /\ call.pc = "idle"
  /\ stats.read_errors < MaxErrors
  /\ tol' = [tol EXCEPT !.position = pos]
  /\ IF AtEnd(tol')
       THEN /\ out' = <<>>
            /\ at' = pos
            /\ UNCHANGED <<sect, call>>
       ELSE /\ sect' = [sect EXCEPT !.position = pos]
            /\ call' = [Idle EXCEPT !.pc = "sector", !.ask = AskSource(tol', n)]
            /\ UNCHANGED <<out, at>>
  /\ UNCHANGED <<bad, dpos, part, stats>>

Remaining == call.ask - Len(call.served)

\* The SectorReader moves on by the bytes it served.
Serve(bytes) ==
  /\ call' = [call EXCEPT !.pc = "sector", !.served = @ \o bytes,
                          !.todo = 0, !.buf = <<>>]
  /\ sect' = [sect EXCEPT !.position = @ + Len(bytes)]

\* A head or tail inside the cached sector needs no I/O.
SectorCached ==
  LET count == PhaseServes(sect.position, Remaining)
  IN  /\ call.pc = "sector"
      /\ Phase(sect.position, Remaining) \in {"head", "tail"}
      /\ sect.cached_sector = SectorStart(sect.position)
      /\ Serve(FromSector(sect, sect.position, count))
      /\ UNCHANGED <<bad, dpos, part, tol, stats, out, at>>

\* load_sector forgets the cached sector before it reads another.
LoadSector ==
  /\ call.pc = "sector"
  /\ Phase(sect.position, Remaining) \in {"head", "tail"}
  /\ sect.cached_sector # SectorStart(sect.position)
  /\ sect' = [sect EXCEPT !.cached_sector = None]
  /\ part' = PartitionSeek(part, SectorStart(sect.position))
  /\ call' = [call EXCEPT !.pc = "load", !.todo = SectorSize, !.buf = <<>>]
  /\ UNCHANGED <<bad, dpos, tol, stats, out, at>>

\* Whole sectors are read straight into the caller's buffer.
ReadAligned ==
  /\ call.pc = "sector"
  /\ Phase(sect.position, Remaining) = "aligned"
  /\ part' = PartitionSeek(part, sect.position)
  /\ call' = [call EXCEPT !.pc = "aligned", !.buf = <<>>,
                          !.todo = PhaseServes(sect.position, Remaining)]
  /\ UNCHANGED <<bad, dpos, sect, tol, stats, out, at>>

-----------------------------------------------------------------------------
(* read_exact: PartitionReader.read until nothing is left to do.            *)

Reading == call.pc \in {"load", "aligned"} /\ call.todo > 0

Start == InnerStart(part, dpos)

\* The bytes the drive holds at Start, up to the next bad one.
Readable(k) == \A o \in Start..(Start + k - 1) : o < DriveLen /\ o \notin bad

DriveRead(k) ==
  /\ Reading
  /\ k \in 1..MaxRead(part, call.todo)
  /\ Readable(k)
  /\ call' = [call EXCEPT !.todo = @ - k,
                          !.buf = @ \o [i \in 1..k |-> Start + i - 1]]
  /\ dpos' = Start + k
  /\ part' = PartitionAdvance(part, k)
  /\ UNCHANGED <<bad, sect, tol, stats, out, at>>

\* TolerantReader's answer to a failed read: one granule of zeros, charged.  The
\* SectorReader's buffer holds what was read into it before the failure.
WriteOffNothing ==
  /\ stats' = [stats EXCEPT !.read_errors = @ + 1]
  /\ out' = <<>>
  /\ at' = tol.position
  /\ call' = Idle
  /\ UNCHANGED <<tol, sect>>
WriteOff ==
  LET count == Smaller(Granule, call.ask)
  IN  /\ stats' = Record([stats EXCEPT !.read_errors = @ + 1], "errored",
                         tol.position, tol.position + count)
      /\ out' = Zeros(count)
      /\ at' = tol.position
      /\ tol' = [tol EXCEPT !.position = @ + count]
      /\ sect' = IF call.pc = "load"
                   THEN [sect EXCEPT !.sector = Clobbered(@, call.buf)]
                   ELSE sect
      /\ call' = Idle

\* The drive fails on a bad sector of the range asked for (a file reads up to it
\* first, a raw device may refuse the range): it stands where it was seeked to,
\* and the PartitionReader returns before it notes that.
DriveFails ==
  /\ Reading
  /\ Start < DriveLen
  /\ \E o \in Start..(Start + MaxRead(part, call.todo) - 1) : o \in bad
  /\ dpos' = Start
  /\ WriteOff
  /\ UNCHANGED <<bad, part>>

\* The drive has ended before the window: it reads nothing, so read_exact fails.
DriveEndRetried ==
  /\ Reading
  /\ Start >= DriveLen
  /\ dpos' = Start
  /\ part' = PartitionAdvance(part, 0)
  /\ UNCHANGED <<bad, sect, tol, stats, call, out, at>>
DriveEnds ==
  /\ Reading
  /\ Start >= DriveLen
  /\ dpos' = Start
  /\ part' = PartitionAdvance(part, 0)
  /\ WriteOff
  /\ UNCHANGED bad

-----------------------------------------------------------------------------
Filled == call.pc \in {"load", "aligned"} /\ call.todo = 0

SectorLoaded ==
  LET loaded == [sect EXCEPT !.cached_sector = SectorStart(sect.position),
                             !.sector = call.buf]
      count  == PhaseServes(sect.position, Remaining)
  IN  /\ Filled
      /\ call.pc = "load"
      /\ call' = [call EXCEPT !.pc = "sector", !.buf = <<>>,
                    !.served = @ \o FromSector(loaded, sect.position, count)]
      /\ sect' = [loaded EXCEPT !.position = @ + count]
      /\ UNCHANGED <<bad, dpos, part, tol, stats, out, at>>

AlignedDone ==
  /\ Filled
  /\ call.pc = "aligned"
  /\ Serve(call.buf)
  /\ UNCHANGED <<bad, dpos, part, tol, stats, out, at>>

\* The SectorReader returns; the TolerantReader moves on and returns too.
Return ==
  /\ call.pc = "sector"
  /\ Phase(sect.position, Remaining) = "done"
  /\ out' = call.served
  /\ at' = tol.position
  /\ tol' = [tol EXCEPT !.position = @ + Len(call.served)]
  /\ call' = Idle
  /\ UNCHANGED <<bad, dpos, part, sect, stats>>

Work ==
  \/ SectorCached \/ LoadSector \/ ReadAligned
  \/ \E k \in 1..MaxRequest + SectorSize : DriveRead(k)
  \/ DriveFails \/ DriveEnds
  \/ SectorLoaded \/ AlignedDone \/ Return

Next ==
  \/ \E pos \in 0..Size, n \in 1..MaxRequest : Request(pos, n)
  \/ Work

Spec == Init /\ [][Next]_vars /\ WF_vars(Work)

-----------------------------------------------------------------------------
TypeOK ==
  /\ bad \subseteq 0..(DriveLen - 1)
  /\ dpos \in Nat
  /\ part \in [position : 0..Size, inner_position : Nat \cup {None}]
  /\ sect.position \in 0..Size
  /\ sect.cached_sector \in (0..Size) \cup {None}
  /\ tol \in [position : 0..Size, inner_len : {Size}, length : {Size}]
  /\ Substituted(stats) \subseteq 0..(Size - 1)
  /\ stats.read_errors \in 0..MaxErrors
  /\ call.pc \in {"idle", "sector", "load", "aligned"}
  /\ at \in 0..Size

\* Every byte a call returned is the byte of the partition at the position it
\* was asked for, or a zero.
BytesFromTheirPlace ==
  call.pc = "idle" =>
    \A i \in DOMAIN out : out[i] \in {Zero, Base + at + i - 1}

\* The same while no sector is bad: short reads, a drive that ends inside the
\* window and the seeks the PartitionReader skips move no byte.
SoundBytesFromTheirPlace == bad = {} => BytesFromTheirPlace

\* Zeros are never served silently: every one lies in a range that was charged
\* to the substitution counters.
ZerosAccounted ==
  call.pc = "idle" =>
    \A i \in DOMAIN out : out[i] = Zero => at + i - 1 \in Substituted(stats)

\* A read that returns nothing was made at the end: failures of the drive never
\* look like the end of the volume.
NoFalseEnd ==
  (call.pc = "idle" /\ out = <<>>) => at = Size

\* "A bad-sector error costs 512 bytes, not the whole request": a sector that is
\* written off whole is one that cannot be read, or is past the drive's end.
GoodSectorsKept ==
  \A s \in 0..(Size \div SectorSize - 1) :
    LET bytes == (s * SectorSize)..(s * SectorSize + SectorSize - 1)
    IN  bytes \subseteq stats.errored =>
          \E b \in bytes : Base + b >= DriveLen \/ Base + b \in bad

\* Every read returns.
ReadsReturn == (call.pc # "idle") ~> (call.pc = "idle")

=============================================================================
