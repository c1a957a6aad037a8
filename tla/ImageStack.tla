----------------------------- MODULE ImageStack -----------------------------
(***************************************************************************)
(* The stack of readers built over an image file: the image, behind a      *)
(* LeadingGapReader when the acquisition began inside the volume, a        *)
(* TolerantReader over that and a PartitionReader on top, asked by a       *)
(* parser.  A call of the parser makes at most one call of the image, so   *)
(* it is one step.                                                         *)
(*                                                                         *)
(* The image is external: a file that states Claimed bytes and holds       *)
(* ImageLen of them, whose reads may be short, fail on the bytes in bad,   *)
(* or be interrupted.  Offsets in the volume count the absent head.        *)
(***************************************************************************)
EXTENDS BlockReaders

CONSTANTS
  Gap,        \* LeadingGapReader.gap; 0 stands for no such reader
  Claimed,    \* length the image reports
  ImageLen,   \* bytes it holds
  MaxRequest,
  MaxErrors

ASSUME ImageAssumption ==
  /\ Gap \in Nat /\ ImageLen \in Nat /\ Claimed \in Nat /\ ImageLen <= Claimed
  /\ MaxRequest \in Nat \ {0} /\ MaxErrors \in Nat

VARIABLES
  bad,    \* volume offsets whose bytes the image fails to read
  tol,    \* the TolerantReader
  stats,  \* its ReadSubstitutions
  part,   \* the PartitionReader
  out,    \* the bytes the last call returned
  at      \* the partition position it was made at (at first, the end)

vars == <<bad, tol, stats, part, out, at>>

\* The volume offset at which the image's bytes end.
Carried == Gap + ImageLen

Init ==
  /\ bad \in SUBSET (Gap..(Carried - 1))
  /\ tol = TolerantInit(Gap + Claimed, Base + Size)
  /\ stats = NothingSubstituted
  /\ part = PartitionInit
  /\ out = <<>>
  /\ at = Size

-----------------------------------------------------------------------------
\* The PartitionReader once the parser has seeked it, and the TolerantReader
\* once the PartitionReader has seeked it, or chosen not to.
Seeked(pos) == PartitionSeek(part, pos)
Reached(pos) ==
  [tol EXCEPT !.position = InnerStart(Seeked(pos), tol.position)]

\* A read at pos returns bytes; each layer moves on by as many.
Finish(pos, t, bytes) ==
  /\ tol' = [t EXCEPT !.position = @ + Len(bytes)]
  /\ part' = PartitionAdvance(Seeked(pos), Len(bytes))
  /\ out' = bytes
  /\ at' = pos
  /\ UNCHANGED bad

\* zero_fill: count zeros, charged to the reason why.
ZeroFill(pos, t, count, why) ==
  /\ stats' = Record(stats, why, t.position, t.position + count)
  /\ Finish(pos, t, Zeros(count))

\* The read ends at the PartitionReader's window.
ReadAtWindowEnd(pos, n) ==
  /\ MaxRead(Seeked(pos), n) = 0
  /\ part' = Seeked(pos)
  /\ out' = <<>>
  /\ at' = pos
  /\ UNCHANGED <<bad, tol, stats>>

\* The read lies past the source: zeros up to the declared length.
ReadPastSource(pos, n) ==
  LET m == MaxRead(Seeked(pos), n)
      t == Reached(pos)
  IN  /\ m > 0
      /\ ~AtEnd(t)
      /\ PastSource(t)
      /\ ZeroFill(pos, t, Want(t, m), "missing")

\* The read is passed on to the source, which is asked for Ask(pos, n) bytes.
Passed(pos, n) ==
  /\ MaxRead(Seeked(pos), n) > 0
  /\ ~AtEnd(Reached(pos))
  /\ ~PastSource(Reached(pos))

Ask(pos, n) == AskSource(Reached(pos), MaxRead(Seeked(pos), n))

\* The image offset a LeadingGapReader reads for a volume offset.
InnerOffsetKept(position) == position
InnerOffset(position) == position - Gap

\* What the image holds at an offset of its own, named by its volume offset.
ImageByte(offset) == Gap + offset

\* The source serves k bytes.
ReadServed(pos, n, k) ==
  LET t == Reached(pos)
      start == InnerOffset(t.position)
  IN  /\ Passed(pos, n)
      /\ k <= Ask(pos, n)
      /\ t.position >= Gap
      /\ \A o \in start..(start + k - 1) :
           o < ImageLen /\ ImageByte(o) \notin bad
      /\ Finish(pos, t, [i \in 1..k |-> ImageByte(start + i - 1)])
      /\ UNCHANGED stats

\* The source is shorter than it said: its end is moved here.
ReadShortSource(pos, n) ==
  LET t == Reached(pos)
  IN  /\ Passed(pos, n)
      /\ t.position >= Gap
      /\ InnerOffset(t.position) >= ImageLen
      /\ ZeroFill(pos, [t EXCEPT !.inner_len = t.position], Ask(pos, n), "missing")

\* The read starts in the absent head: the LeadingGapReader refuses it whole and
\* the TolerantReader writes off what of it lies in the head.
ReadAbsentHeadErrored(pos, n) ==
  LET t == Reached(pos)
  IN  /\ Passed(pos, n)
      /\ t.position < Gap
      /\ ZeroFill(pos, t, Smaller(Granule, Ask(pos, n)), "errored")
ReadAbsentHead(pos, n) ==
  LET t == Reached(pos)
  IN  /\ Passed(pos, n)
      /\ t.position < Gap
      /\ ZeroFill(pos, t, Smaller(Gap - t.position, Ask(pos, n)), "absent")

\* The image fails on an unreadable byte: one granule is written off.
ReadFails(pos, n) ==
  LET t == Reached(pos)
      count == Smaller(Granule, Ask(pos, n))
  IN  /\ Passed(pos, n)
      /\ t.position >= Gap
      /\ ImageByte(InnerOffset(t.position)) \in bad
      /\ stats.read_errors < MaxErrors
      /\ stats' = Record([stats EXCEPT !.read_errors = @ + 1], "errored",
                         t.position, t.position + count)
      /\ Finish(pos, t, Zeros(count))

\* The image's read was interrupted: the TolerantReader returns Ok(0).
ReadInterrupted(pos, n) ==
  /\ Passed(pos, n)
  /\ Reached(pos).position >= Gap
  /\ Finish(pos, Reached(pos), <<>>)
  /\ UNCHANGED stats

Next ==
  \E pos \in 0..Size, n \in 1..MaxRequest :
    \/ ReadAtWindowEnd(pos, n)
    \/ ReadPastSource(pos, n)
    \/ \E k \in 1..MaxRequest : ReadServed(pos, n, k)
    \/ ReadShortSource(pos, n)
    \/ ReadAbsentHead(pos, n)
    \/ ReadFails(pos, n)
    \/ ReadInterrupted(pos, n)

Spec == Init /\ [][Next]_vars

-----------------------------------------------------------------------------
\* The bytes of the window, which are all a mount can be charged for.
Window == Base..(Base + Size - 1)

TypeOK ==
  /\ bad \subseteq Gap..(Carried - 1)
  /\ tol \in [position : Nat, inner_len : Nat,
              length : {Larger(Gap + Claimed, Base + Size)}]
  /\ stats \in [missing : SUBSET Window, errored : SUBSET Window,
                absent : SUBSET Window, read_errors : 0..MaxErrors]
  /\ part \in [position : 0..Size, inner_position : Nat \cup {None}]
  /\ out \in Seq(Window \cup {Zero})
  /\ at \in 0..Size

\* The position the PartitionReader believes the TolerantReader has is the one
\* it has: the reason its skipped seeks are right in this stack, whose inner
\* reader never fails.
BelievedPositionHeld ==
  part.inner_position # None => part.inner_position = tol.position

\* Every byte a call returned is the volume's byte for the position it was asked
\* for, or a zero.
BytesFromTheirPlace ==
  \A i \in DOMAIN out : out[i] \in {Zero, Base + at + i - 1}

\* Every zero served was charged: the mount's report names every byte invented.
ZerosAccounted ==
  \A i \in DOMAIN out :
    out[i] = Zero => Base + at + i - 1 \in Substituted(stats)

\* The three counters keep the three causes apart: bytes in front of the medium
\* are absent, bytes past its end are missing, and what is charged as errored
\* lies within one granule of a byte that failed.
ReasonsKeptApart ==
  /\ \A b \in stats.absent : b < Gap
  /\ \A b \in stats.missing : b >= Carried
  /\ \A b \in stats.errored : \E o \in bad : o <= b /\ b < o + Granule

\* Where the TolerantReader believes the image ends, no byte of it is cut off.
EndNeverBeforeBytes == tol.inner_len >= Carried

\* A read that returns nothing was made at the end of the window: "reads at or
\* beyond `length` return 0 bytes like any end of file", and no others do.
NoFalseEnd == out = <<>> => at = Size

=============================================================================
