-------------------------- MODULE DriveStackProofs --------------------------
(***************************************************************************)
(* Proofs about DriveStack, for every window, sector, granule, drive and   *)
(* request size and any set of bad sectors: no zero is served silently, no *)
(* failure looks like the end of the volume and, on a drive without bad    *)
(* sectors, every byte comes from its place.                               *)
(***************************************************************************)
EXTENDS DriveStack, SequenceTheorems, TLAPS

\* The bytes of s are those of the drive from an offset on.
Placed(s, from) == \A i \in DOMAIN s : s[i] = from + i - 1

\* What is known of a call between two steps: how much of the request was served, and
\* where the layers below stand.
CallShape ==
  /\ call \in [pc : {"idle", "sector", "load", "aligned"}, ask : Nat, served : Seq(Nat),
               todo : Nat, buf : Seq(Nat)]
  /\ call.pc # "idle" =>
       /\ call.ask >= 1 /\ tol.position + call.ask <= Size
       /\ Len(call.served) <= call.ask
       /\ sect.position = tol.position + Len(call.served)
  /\ call.pc = "load" =>
       /\ Phase(sect.position, Remaining) \in {"head", "tail"}
       /\ Len(call.buf) + call.todo = SectorSize
       /\ part.position = SectorStart(sect.position) + Len(call.buf)
       /\ sect.cached_sector = None
  /\ call.pc = "aligned" =>
       /\ Phase(sect.position, Remaining) = "aligned"
       /\ Len(call.buf) + call.todo = PhaseServes(sect.position, Remaining)
       /\ part.position = sect.position + Len(call.buf)

\* The report of what was substituted.
Counters == [missing : SUBSET Int, errored : SUBSET Int, absent : SUBSET Int, read_errors : Nat]

\* A SectorReader that caches a sector has all of it.
SectorShape ==
  /\ sect \in [position : Nat, cached_sector : Nat \cup {None}, sector : Seq(Nat)]
  /\ sect.cached_sector # None => Len(sect.sector) = SectorSize

\* The types of the three layers above the drive.
LayerShape ==
  /\ SectorShape
  /\ dpos \in Nat
  /\ part \in [position : Nat, inner_position : Nat \cup {None}]
  /\ tol \in [position : 0..Size, inner_len : {Size}, length : {Size}]
  /\ stats \in Counters
  /\ at \in 0..Size
  /\ out \in Seq(Nat \cup {Zero})

\* On a drive without bad sectors the position the PartitionReader believes is the
\* drive's, and everything that is buffered is in its place.
AllPlaced ==
  /\ part.inner_position # None => dpos = part.inner_position
  /\ sect.cached_sector # None => Placed(sect.sector, Base + sect.cached_sector)
  /\ call.pc # "idle" => Placed(call.served, Base + tol.position)
  /\ call.pc = "load" => Placed(call.buf, Base + SectorStart(sect.position))
  /\ call.pc = "aligned" => Placed(call.buf, Base + sect.position)

\* The inductive invariant.
IInv ==
  /\ LayerShape
  /\ CallShape
  /\ ZerosAccounted
  /\ NoFalseEnd
  /\ bad = {} => AllPlaced /\ BytesFromTheirPlace
-----------------------------------------------------------------------------
\* What the phases of a SectorReader's read serve: something, no more than was asked
\* and, for a head or a tail, nothing past the sector.
LEMMA SectorFacts ==
  ASSUME NEW pos \in Nat, NEW r \in Nat
  PROVE  /\ pos % SectorSize \in Nat
         /\ SectorStart(pos) \in Nat
         /\ SectorStart(pos) + (pos % SectorSize) = pos
         /\ Phase(pos, r) \in {"done", "head", "tail", "aligned"}
         /\ Phase(pos, r) = "done" => r = 0
         /\ Phase(pos, r) \in {"head", "tail"} =>
              /\ PhaseServes(pos, r) \in 1..r
              /\ (pos % SectorSize) + PhaseServes(pos, r) <= SectorSize
         /\ Phase(pos, r) = "aligned" => PhaseServes(pos, r) \in 1..r
<1> USE ReadersAssumption
<1>1. pos % SectorSize \in 0..(SectorSize - 1) /\ r % SectorSize \in 0..(SectorSize - 1)
  OBVIOUS
<1>2. pos % SectorSize <= pos
  OBVIOUS
<1> DEFINE off == pos % SectorSize
           over == r % SectorSize
<1>0. off \in Nat /\ off <= pos /\ SectorStart(pos) = pos - off
  BY <1>1, <1>2 DEF SectorStart
<1> HIDE DEF off, over
<1>3. SectorStart(pos) \in Nat /\ SectorStart(pos) + (pos % SectorSize) = pos
  BY <1>0 DEF off
<1>4. CASE r = 0
  BY <1>1, <1>3, <1>4 DEF Phase, off
<1>5. CASE r > 0 /\ off # 0
  <2>1. Phase(pos, r) = "head"
    BY <1>5 DEF Phase, off
  <2>2. PhaseServes(pos, r) = Smaller(SectorSize - off, r)
    BY <2>1 DEF PhaseServes, off
  <2> QED
    BY <1>1, <1>3, <1>5, <2>1, <2>2 DEF Smaller, off
<1>6. CASE r >= SectorSize /\ off = 0
  <2>1. Phase(pos, r) = "aligned"
    BY <1>6 DEF Phase, off
  <2>2. PhaseServes(pos, r) = r - over
    BY <2>1 DEF PhaseServes, over
  <2> QED
    BY <1>1, <1>3, <1>6, <2>1, <2>2 DEF off, over
<1>7. CASE r > 0 /\ r < SectorSize /\ off = 0
  <2>1. Phase(pos, r) = "tail"
    BY <1>7 DEF Phase, off
  <2>2. PhaseServes(pos, r) = Smaller(SectorSize - off, r)
    BY <2>1 DEF PhaseServes, off
  <2> QED
    BY <1>1, <1>3, <1>7, <2>1, <2>2 DEF Smaller, off
<1> QED
  BY <1>4, <1>5, <1>6, <1>7

\* Sequences of bytes in their place: one behind the other, a part of one, and a run
\* of the drive.
LEMMA ConcatTyped ==
  ASSUME NEW s \in Seq(Nat), NEW t \in Seq(Nat)
  PROVE  s \o t \in Seq(Nat) /\ Len(s \o t) = Len(s) + Len(t)
  BY ConcatProperties

\* Two runs of the drive that follow each other are one: what read_sector puts together
\* from short reads.
LEMMA PlacedConcat ==
  ASSUME NEW s \in Seq(Nat), NEW t \in Seq(Nat), NEW from \in Int,
         Placed(s, from), Placed(t, from + Len(s))
  PROVE  Placed(s \o t, from)
<1>1. /\ Len(s \o t) = Len(s) + Len(t) /\ s \o t \in Seq(Nat)
      /\ \A i \in 1..(Len(s) + Len(t)) :
           (s \o t)[i] = IF i <= Len(s) THEN s[i] ELSE t[i - Len(s)]
  BY ConcatProperties
<1> SUFFICES ASSUME NEW i \in 1..(Len(s) + Len(t))
             PROVE  (s \o t)[i] = from + i - 1
  BY <1>1 DEF Placed
<1>2. CASE i <= Len(s)
  BY <1>1, <1>2 DEF Placed
<1>3. CASE i > Len(s)
  <2>1. i - Len(s) \in DOMAIN t
    BY <1>3
  <2> QED
    BY <1>1, <1>3, <2>1 DEF Placed
<1> QED
  BY <1>2, <1>3

\* A part of the sector that SectorReader cached, where it belongs.
LEMMA PartOfSector ==
  ASSUME NEW s \in Seq(Nat), NEW a \in Nat, NEW n \in Nat, a + n <= Len(s)
  PROVE  /\ SubSeq(s, a + 1, a + n) \in Seq(Nat)
         /\ Len(SubSeq(s, a + 1, a + n)) = n
         /\ \A from \in Int : Placed(s, from) => Placed(SubSeq(s, a + 1, a + n), from + a)
<1> DEFINE lo == a + 1
           hi == a + n
           sub == SubSeq(s, lo, hi)
<1>1. lo \in Int /\ hi \in Int /\ \A i \in lo..hi : s[i] \in Nat
  OBVIOUS
<1>2. /\ sub \in Seq(Nat)
      /\ Len(sub) = (IF lo <= hi THEN hi - lo + 1 ELSE 0)
      /\ \A i \in 1..(hi - lo + 1) : sub[i] = s[lo + i - 1]
  <2> HIDE DEF lo, hi
  <2> QED
    BY <1>1, SubSeqProperties
<1>3. Len(sub) = n
  BY <1>2
<1>4. ASSUME NEW from \in Int, Placed(s, from)
      PROVE  Placed(sub, from + a)
  <2>0. DOMAIN sub = 1..n
    <3> HIDE DEF sub
    <3> QED
      BY <1>2, <1>3
  <2> SUFFICES ASSUME NEW i \in 1..n
               PROVE  sub[i] = from + a + i - 1
    <3> HIDE DEF sub
    <3> QED
      BY <2>0 DEF Placed
  <2>1. sub[i] = s[a + i] /\ a + i \in DOMAIN s
    BY <1>2
  <2> QED
    BY <1>4, <2>1 DEF Placed
<1> QED
  BY <1>2, <1>3, <1>4

\* What one read of the drive gives.
LEMMA RunOfDrive ==
  ASSUME NEW from \in Nat, NEW k \in Nat
  PROVE  /\ [i \in 1..k |-> from + i - 1] \in Seq(Nat)
         /\ Len([i \in 1..k |-> from + i - 1]) = k
         /\ Placed([i \in 1..k |-> from + i - 1], from)
  BY DEF Placed

-----------------------------------------------------------------------------
\* What is left of a request, and where the SectorReader stands, while a call runs.
LEMMA InCall ==
  ASSUME LayerShape, CallShape, call.pc # "idle"
  PROVE  /\ call.served \in Seq(Nat) /\ call.buf \in Seq(Nat) /\ call.todo \in Nat
         /\ Len(call.served) \in Nat /\ Len(call.buf) \in Nat
         /\ Remaining \in Nat /\ Remaining = call.ask - Len(call.served)
         /\ tol.position \in 0..Size /\ sect.position \in Nat
         /\ call.ask \in Nat
<1> USE ReadersAssumption
<1>1. /\ call.served \in Seq(Nat) /\ call.buf \in Seq(Nat) /\ call.todo \in Nat
      /\ call.ask \in Nat /\ tol.position \in 0..Size /\ sect.position \in Nat
  BY DEF LayerShape, SectorShape, CallShape
<1>2. Len(call.served) \in Nat /\ Len(call.buf) \in Nat /\ Len(call.served) <= call.ask
  BY <1>1 DEF CallShape
<1> QED
  BY <1>1, <1>2 DEF Remaining

\* Init.
LEMMA InitInv == Init => IInv
<1> SUFFICES ASSUME Init PROVE IInv
  OBVIOUS
<1> USE ReadersAssumption, DriveAssumption
<1>1. LayerShape
  BY DEF Init, LayerShape, SectorShape, Counters, PartitionInit, SectorInit, TolerantInit, NothingSubstituted,
         Larger, None
<1>2. CallShape
  BY DEF Init, CallShape, Idle
<1>3. ZerosAccounted /\ NoFalseEnd /\ BytesFromTheirPlace
  BY DEF Init, ZerosAccounted, NoFalseEnd, BytesFromTheirPlace
<1>4. AllPlaced
  BY DEF Init, AllPlaced, PartitionInit, SectorInit, Idle, None
<1> QED
  BY <1>1, <1>2, <1>3, <1>4 DEF IInv

\* A read that is made.
LEMMA RequestKeepsInvariant ==
  ASSUME IInv, NEW pos \in 0..Size, NEW n \in 1..MaxRequest, Request(pos, n)
  PROVE  IInv'
<1> USE ReadersAssumption, DriveAssumption
<1>1. LayerShape /\ CallShape /\ call.pc = "idle"
  BY DEF IInv, Request
<1>2. tol' = [position |-> pos, inner_len |-> Size, length |-> Size]
  BY <1>1, Zenon DEF Request, LayerShape
<1>3. UNCHANGED <<bad, dpos, part, stats>>
  BY DEF Request
<1>4. CASE pos = Size
  <2>1. out' = <<>> /\ at' = pos /\ UNCHANGED <<sect, call>>
    BY <1>2, <1>4 DEF Request, AtEnd
  <2>2. LayerShape'
    BY <1>1, <1>2, <1>3, <2>1 DEF LayerShape, SectorShape
  <2>3. CallShape'
    BY <1>1, <2>1 DEF CallShape
  <2>4. ZerosAccounted' /\ NoFalseEnd' /\ BytesFromTheirPlace'
    BY <1>4, <2>1 DEF ZerosAccounted, NoFalseEnd, BytesFromTheirPlace
  <2>5. bad' = {} => AllPlaced'
    BY <1>1, <1>3, <2>1 DEF IInv, AllPlaced, Placed
  <2> QED
    BY <2>2, <2>3, <2>4, <2>5 DEF IInv
<1>5. CASE pos < Size
  <2>1. /\ sect' = [sect EXCEPT !.position = pos]
        /\ call' = [Idle EXCEPT !.pc = "sector", !.ask = AskSource(tol', n)]
        /\ UNCHANGED <<out, at>>
    BY <1>2, <1>5 DEF Request, AtEnd
  <2>2. AskSource(tol', n) \in Nat /\ AskSource(tol', n) >= 1 /\ pos + AskSource(tol', n) <= Size
    BY <1>2, <1>5 DEF AskSource, Want, Smaller
  <2>3. call' = [pc |-> "sector", ask |-> AskSource(tol', n), served |-> <<>>,
                 todo |-> 0, buf |-> <<>>]
    BY <2>1, Zenon DEF Idle
  <2>4. sect' = [position |-> pos, cached_sector |-> sect.cached_sector,
                 sector |-> sect.sector]
    BY <1>1, <2>1, Zenon DEF LayerShape, SectorShape
  <2>5. LayerShape'
    <3>1. SectorShape'
      BY <1>1, <2>4 DEF LayerShape, SectorShape
    <3> QED
      BY <1>1, <1>2, <1>3, <2>1, <3>1 DEF LayerShape
  <2>6. CallShape'
    BY <1>2, <2>2, <2>3, <2>4 DEF CallShape
  <2>7. ZerosAccounted' /\ NoFalseEnd' /\ BytesFromTheirPlace'
    BY <2>3 DEF ZerosAccounted, NoFalseEnd, BytesFromTheirPlace
  <2>8. bad' = {} => AllPlaced'
    BY <1>1, <1>3, <2>3, <2>4 DEF IInv, AllPlaced, Placed
  <2> QED
    BY <2>5, <2>6, <2>7, <2>8 DEF IInv
<1> QED
  BY <1>4, <1>5

\* Bytes are handed to the request, whether from the cached sector, from one just loaded
\* or from an aligned run.
LEMMA ServedKeepsInvariant ==
  ASSUME IInv, call.pc # "idle", NEW bytes \in Seq(Nat), Len(bytes) <= Remaining,
         bad = {} => Placed(bytes, Base + sect.position),
         NEW left \in Nat,
         call' = [pc |-> "sector", ask |-> call.ask, served |-> call.served \o bytes,
                  todo |-> left, buf |-> <<>>],
         NEW sector \in Seq(Nat), NEW cached \in Nat \cup {None},
         sect' = [position |-> sect.position + Len(bytes), cached_sector |-> cached,
                  sector |-> sector],
         cached # None => Len(sector) = SectorSize,
         bad = {} /\ cached # None => Placed(sector, Base + cached),
         UNCHANGED <<bad, dpos, part, tol, stats, out, at>>
  PROVE  IInv'
<1> USE ReadersAssumption, DriveAssumption
<1>1. LayerShape /\ CallShape
  BY DEF IInv
<1>2. /\ call.served \in Seq(Nat) /\ Len(call.served) \in Nat
      /\ Remaining = call.ask - Len(call.served)
      /\ tol.position \in 0..Size /\ sect.position \in Nat /\ call.ask \in Nat
  BY <1>1, InCall
<1>3. /\ call.served \o bytes \in Seq(Nat)
      /\ Len(call.served \o bytes) = Len(call.served) + Len(bytes)
      /\ Len(bytes) \in Nat
  BY <1>2, ConcatProperties
<1>4. LayerShape'
  <2>1. SectorShape'
    BY <1>2, <1>3, SMTT(20) DEF SectorShape
  <2> QED
    BY <1>1, <2>1 DEF LayerShape
<1>5. /\ call'.pc = "sector" /\ call'.ask = call.ask /\ call'.served = call.served \o bytes
      /\ sect'.position = sect.position + Len(bytes)
      /\ sect'.cached_sector = cached /\ sect'.sector = sector
  OBVIOUS
<1>6. CallShape'
  <2>1. call.ask >= 1 /\ tol.position + call.ask <= Size
        /\ sect.position = tol.position + Len(call.served)
    BY <1>1 DEF CallShape
  <2>2. call' \in [pc : {"idle", "sector", "load", "aligned"}, ask : Nat, served : Seq(Nat),
                   todo : Nat, buf : Seq(Nat)]
    BY <1>2, <1>3
  <2>3. Len(call'.served) <= call'.ask /\ sect'.position = tol'.position + Len(call'.served)
    <3> DEFINE len == Len(call.served)
               more == Len(bytes)
               total == Len(call.served \o bytes)
    <3>1. /\ len \in Nat /\ more \in Nat /\ total = len + more /\ more <= call.ask - len
          /\ sect.position = tol.position + len
      BY <1>2, <1>3, <2>1
    <3>2. Len(call'.served) = total /\ tol'.position = tol.position
      BY <1>5
    <3>3. call.ask \in Nat /\ tol.position \in Nat
      BY <1>2
    <3> HIDE DEF len, more, total
    <3>4. total <= call.ask /\ sect.position + more = tol.position + total
      BY <3>1, <3>3, SMTT(20)
    <3> QED
      BY <1>5, <3>2, <3>4 DEF more
  <2> QED
    BY <1>5, <2>1, <2>2, <2>3 DEF CallShape
<1>7. ZerosAccounted' /\ NoFalseEnd' /\ BytesFromTheirPlace'
  BY <1>5 DEF ZerosAccounted, NoFalseEnd, BytesFromTheirPlace
<1>8. bad' = {} => AllPlaced'
  <2> SUFFICES ASSUME bad = {} PROVE AllPlaced'
    OBVIOUS
  <2>1. Placed(call.served, Base + tol.position)
    BY DEF IInv, AllPlaced
  <2>2. Base + tol.position \in Int
    BY <1>2, SMTT(20)
  <2>3. Base + sect.position = (Base + tol.position) + Len(call.served)
    <3> DEFINE len == Len(call.served)
               from == tol.position
               pos == sect.position
    <3>1. pos = from + len
      BY <1>1 DEF CallShape
    <3>2. from \in Nat /\ len \in Nat
      BY <1>2
    <3> HIDE DEF len, from, pos
    <3>3. Base + pos = (Base + from) + len
      BY <3>1, <3>2
    <3> QED
      BY <3>3 DEF len, from, pos
  <2>4. Placed(call.served \o bytes, Base + tol.position)
    BY <1>2, <2>1, <2>2, <2>3, PlacedConcat, Zenon
  <2> QED
    BY <1>5, <2>4 DEF IInv, AllPlaced
<1> QED
  BY <1>4, <1>6, <1>7, <1>8 DEF IInv

\* From the cached sector.
LEMMA CachedKeepsInvariant ==
  ASSUME IInv, SectorCached
  PROVE  IInv'
<1> USE ReadersAssumption, DriveAssumption
<1>1. LayerShape /\ CallShape /\ SectorShape /\ call.pc = "sector"
  BY DEF IInv, LayerShape, SectorCached
<1>2. /\ call.served \in Seq(Nat) /\ Remaining \in Nat /\ sect.position \in Nat
      /\ call.ask \in Nat
  BY <1>1, InCall
<1> DEFINE off == sect.position % SectorSize
           count == PhaseServes(sect.position, Remaining)
           bytes == FromSector(sect, sect.position, count)
           cached == sect.cached_sector
           sector == sect.sector
<1>3. /\ off \in Nat /\ count \in 1..Remaining /\ off + count <= SectorSize
      /\ SectorStart(sect.position) \in Nat /\ SectorStart(sect.position) + off = sect.position
  <2>1. Phase(sect.position, Remaining) \in {"head", "tail"}
    BY DEF SectorCached
  <2> QED
    BY <1>2, <2>1, SectorFacts, Zenon
<1>4. /\ cached = SectorStart(sect.position) /\ cached \in Nat /\ cached # None
      /\ sector \in Seq(Nat) /\ Len(sector) = SectorSize
  <2>1. cached = SectorStart(sect.position)
    BY DEF SectorCached
  <2>2. cached \in Nat
    BY <1>3, <2>1, Zenon
  <2> HIDE DEF cached
  <2>3. cached # None
    BY <2>2 DEF None
  <2> QED
    BY <1>1, <2>1, <2>2, <2>3 DEF SectorShape, cached
<1>5. /\ bytes \in Seq(Nat) /\ Len(bytes) = count
      /\ \A from \in Int : Placed(sector, from) => Placed(bytes, from + off)
  <2>1. bytes = SubSeq(sector, off + 1, off + count)
    BY DEF FromSector
  <2>2. count \in Nat /\ off + count <= Len(sector)
    BY <1>2, <1>3, <1>4
  <2>3. off \in Nat /\ sector \in Seq(Nat)
    BY <1>3, <1>4
  <2> HIDE DEF off, count, bytes, sector
  <2>4. /\ SubSeq(sector, off + 1, off + count) \in Seq(Nat)
        /\ Len(SubSeq(sector, off + 1, off + count)) = count
        /\ \A from \in Int :
             Placed(sector, from) => Placed(SubSeq(sector, off + 1, off + count), from + off)
    BY <2>2, <2>3, PartOfSector, Zenon
  <2> QED
    BY <2>1, <2>4, Zenon
<1>6. ASSUME bad = {}
      PROVE  Placed(bytes, Base + sect.position) /\ Placed(sector, Base + cached)
  <2>1. Placed(sector, Base + cached)
    BY <1>4, <1>6 DEF IInv, AllPlaced
  <2>2. (Base + cached) + off = Base + sect.position /\ Base + cached \in Int
    <3> HIDE DEF off, cached
    <3> QED
      BY <1>2, <1>3, <1>4, SMTT(20)
  <2> HIDE DEF bytes, sector, cached, off
  <2>3. Placed(bytes, (Base + cached) + off)
    BY <1>5, <2>1, <2>2
  <2> QED
    BY <2>1, <2>2, <2>3
<1>7. /\ call' = [pc |-> "sector", ask |-> call.ask, served |-> call.served \o bytes,
                  todo |-> 0, buf |-> <<>>]
      /\ sect' = [position |-> sect.position + Len(bytes), cached_sector |-> cached,
                  sector |-> sector]
  <2>1. Serve(bytes)
    BY DEF SectorCached
  <2> HIDE DEF bytes
  <2> QED
    BY <1>1, <2>1, Zenon DEF Serve, CallShape, SectorShape
<1>8. UNCHANGED <<bad, dpos, part, tol, stats, out, at>>
  BY DEF SectorCached
<1>9. Len(bytes) <= Remaining
  BY <1>2, <1>3, <1>5
<1> HIDE DEF bytes, sector, cached, off, count
<1> QED
  BY <1>1, <1>4, <1>5, <1>6, <1>7, <1>8, <1>9, ServedKeepsInvariant, Zenon

\* From a sector that was just loaded.
LEMMA LoadedKeepsInvariant ==
  ASSUME IInv, SectorLoaded
  PROVE  IInv'
<1> USE ReadersAssumption, DriveAssumption
<1>1. LayerShape /\ CallShape /\ SectorShape /\ call.pc = "load" /\ call.todo = 0
  BY DEF IInv, LayerShape, SectorLoaded, Filled
<1>2. /\ call.served \in Seq(Nat) /\ Remaining \in Nat /\ sect.position \in Nat
      /\ call.ask \in Nat /\ call.buf \in Seq(Nat) /\ Len(call.buf) \in Nat
  BY <1>1, InCall
<1> DEFINE off == sect.position % SectorSize
           count == PhaseServes(sect.position, Remaining)
           cached == SectorStart(sect.position)
           sector == call.buf
           bytes == SubSeq(sector, off + 1, off + count)
<1>3. /\ off \in Nat /\ count \in 1..Remaining /\ off + count <= SectorSize
      /\ cached \in Nat /\ cached + off = sect.position
  <2>1. Phase(sect.position, Remaining) \in {"head", "tail"}
    BY <1>1 DEF CallShape
  <2> QED
    BY <1>2, <2>1, SectorFacts, Zenon
<1>4. /\ cached # None
      /\ sector \in Seq(Nat) /\ Len(sector) = SectorSize
  <2>1. Len(call.buf) + call.todo = SectorSize
    BY <1>1 DEF CallShape
  <2>2. cached \in Nat
    BY <1>3
  <2> HIDE DEF cached
  <2>3. cached # None
    BY <2>2 DEF None
  <2>4. Len(sector) = SectorSize
    BY <1>1, <1>2, <2>1
  <2> QED
    BY <1>2, <2>3, <2>4
<1>5. /\ bytes \in Seq(Nat) /\ Len(bytes) = count
      /\ \A from \in Int : Placed(sector, from) => Placed(bytes, from + off)
  <2>2. count \in Nat /\ off + count <= Len(sector)
    BY <1>2, <1>3, <1>4
  <2>3. off \in Nat /\ sector \in Seq(Nat)
    BY <1>3, <1>4
  <2> HIDE DEF off, count, sector
  <2>4. /\ SubSeq(sector, off + 1, off + count) \in Seq(Nat)
        /\ Len(SubSeq(sector, off + 1, off + count)) = count
        /\ \A from \in Int :
             Placed(sector, from) => Placed(SubSeq(sector, off + 1, off + count), from + off)
    BY <2>2, <2>3, PartOfSector, Zenon
  <2> QED
    BY <2>4, Zenon
<1>6. ASSUME bad = {}
      PROVE  Placed(bytes, Base + sect.position) /\ Placed(sector, Base + cached)
  <2>1. Placed(sector, Base + cached)
    BY <1>1, <1>6 DEF IInv, AllPlaced
  <2>2. (Base + cached) + off = Base + sect.position /\ Base + cached \in Int
    <3> HIDE DEF off, cached
    <3> QED
      BY <1>2, <1>3, <1>4
  <2> HIDE DEF bytes, sector, cached, off
  <2>3. Placed(bytes, (Base + cached) + off)
    BY <1>5, <2>1, <2>2
  <2> QED
    BY <2>1, <2>2, <2>3
<1>7. /\ call' = [pc |-> "sector", ask |-> call.ask, served |-> call.served \o bytes,
                  todo |-> 0, buf |-> <<>>]
      /\ sect' = [position |-> sect.position + Len(bytes), cached_sector |-> cached,
                  sector |-> sector]
  <2>1. /\ call' = [call EXCEPT !.pc = "sector", !.buf = <<>>, !.served = @ \o bytes]
        /\ sect' = [sect EXCEPT !.cached_sector = cached, !.sector = sector,
                                !.position = @ + count]
    BY <1>1 DEF SectorLoaded, FromSector, SectorShape
  <2> HIDE DEF bytes, sector, cached, count
  <2> QED
    BY <1>1, <1>5, <2>1, Zenon DEF CallShape, SectorShape
<1>8. UNCHANGED <<bad, dpos, part, tol, stats, out, at>>
  BY DEF SectorLoaded
<1>9. Len(bytes) <= Remaining
  BY <1>2, <1>3, <1>5
<1>10. call.pc # "idle"
  BY <1>1
<1> HIDE DEF bytes, sector, cached, off, count
<1> QED
  BY <1>3, <1>4, <1>5, <1>6, <1>7, <1>8, <1>9, <1>10, ServedKeepsInvariant, Zenon

\* From an aligned run, read straight into the caller's buffer.
LEMMA AlignedKeepsInvariant ==
  ASSUME IInv, AlignedDone
  PROVE  IInv'
<1> USE ReadersAssumption, DriveAssumption
<1>1. LayerShape /\ CallShape /\ SectorShape /\ call.pc = "aligned" /\ call.todo = 0
  BY DEF IInv, LayerShape, AlignedDone, Filled
<1>2. /\ Remaining \in Nat /\ sect.position \in Nat
      /\ call.buf \in Seq(Nat) /\ Len(call.buf) \in Nat
  BY <1>1, InCall
<1> DEFINE bytes == call.buf
           cached == sect.cached_sector
           sector == sect.sector
<1>3. Len(bytes) <= Remaining
  <2>1. Phase(sect.position, Remaining) = "aligned"
        /\ Len(call.buf) + call.todo = PhaseServes(sect.position, Remaining)
    BY <1>1 DEF CallShape
  <2>2. PhaseServes(sect.position, Remaining) \in 1..Remaining
    BY <1>2, <2>1, SectorFacts, Zenon
  <2> QED
    BY <1>1, <1>2, <2>1, <2>2
<1>4. /\ sector \in Seq(Nat) /\ cached \in Nat \cup {None}
      /\ cached # None => Len(sector) = SectorSize
  BY <1>1 DEF SectorShape
<1>5. /\ bad = {} => Placed(bytes, Base + sect.position)
      /\ bad = {} /\ cached # None => Placed(sector, Base + cached)
  BY <1>1 DEF IInv, AllPlaced
<1>6. /\ call' = [pc |-> "sector", ask |-> call.ask, served |-> call.served \o bytes,
                  todo |-> 0, buf |-> <<>>]
      /\ sect' = [position |-> sect.position + Len(bytes), cached_sector |-> cached,
                  sector |-> sector]
  BY <1>1, Zenon DEF AlignedDone, Serve, CallShape, SectorShape
<1>7. UNCHANGED <<bad, dpos, part, tol, stats, out, at>> /\ call.pc # "idle"
  BY <1>1 DEF AlignedDone
<1>8. bytes \in Seq(Nat) /\ 0 \in Nat
  BY <1>2
<1> HIDE DEF bytes, sector, cached
<1> QED
  BY <1>3, <1>4, <1>5, <1>6, <1>7, <1>8, ServedKeepsInvariant, Zenon

\* A sector that is not cached starts to be read, and an aligned run does.
LEMMA LoadKeepsInvariant ==
  ASSUME IInv, LoadSector
  PROVE  IInv'
<1> USE ReadersAssumption, DriveAssumption
<1>1. LayerShape /\ CallShape /\ SectorShape /\ call.pc = "sector"
  BY DEF IInv, LayerShape, LoadSector
<1>2. call.served \in Seq(Nat) /\ Remaining \in Nat /\ sect.position \in Nat
  BY <1>1, InCall
<1>3. SectorStart(sect.position) \in Nat
  BY <1>2, SectorFacts, Zenon
<1>4. /\ sect' = [position |-> sect.position, cached_sector |-> None, sector |-> sect.sector]
      /\ part' = [position |-> SectorStart(sect.position),
                  inner_position |-> part.inner_position]
      /\ call' = [pc |-> "load", ask |-> call.ask, served |-> call.served,
                  todo |-> SectorSize, buf |-> <<>>]
      /\ UNCHANGED <<bad, dpos, tol, stats, out, at>>
  BY <1>1, Zenon DEF LoadSector, PartitionSeek, LayerShape, CallShape, SectorShape
<1>5. LayerShape'
  <2>1. SectorShape'
    BY <1>1, <1>4 DEF SectorShape
  <2> QED
    BY <1>1, <1>3, <1>4, <2>1 DEF LayerShape
<1>6. CallShape'
  <2>1. Remaining' = Remaining
    BY <1>4 DEF Remaining
  <2>2. Phase(sect.position, Remaining) \in {"head", "tail"}
    BY DEF LoadSector
  <2>3. /\ call.ask \in Nat /\ call.ask >= 1 /\ tol.position + call.ask <= Size
        /\ Len(call.served) <= call.ask
        /\ sect.position = tol.position + Len(call.served)
    BY <1>1 DEF CallShape
  <2>4. Phase(sect.position, Remaining)' \in {"head", "tail"}
    BY <1>4, <2>1, <2>2 DEF Phase
  <2>5. call' \in [pc : {"idle", "sector", "load", "aligned"}, ask : Nat, served : Seq(Nat),
                   todo : Nat, buf : Seq(Nat)]
    BY <1>2, <1>4, <2>3
  <2>6. /\ Len(call'.buf) + call'.todo = SectorSize
        /\ part'.position = SectorStart(sect'.position) + Len(call'.buf)
        /\ sect'.cached_sector = None
    BY <1>3, <1>4
  <2> QED
    BY <1>4, <2>3, <2>4, <2>5, <2>6 DEF CallShape, SectorStart
<1>7. ZerosAccounted' /\ NoFalseEnd' /\ BytesFromTheirPlace'
  BY <1>4 DEF ZerosAccounted, NoFalseEnd, BytesFromTheirPlace
<1>8. bad' = {} => AllPlaced'
  BY <1>1, <1>4 DEF IInv, AllPlaced, Placed
<1> QED
  BY <1>5, <1>6, <1>7, <1>8 DEF IInv

\* The aligned phase of a SectorReader read, straight into the buffer of its caller.
LEMMA ReadAlignedKeepsInvariant ==
  ASSUME IInv, ReadAligned
  PROVE  IInv'
<1> USE ReadersAssumption, DriveAssumption
<1>1. LayerShape /\ CallShape /\ SectorShape /\ call.pc = "sector"
  BY DEF IInv, LayerShape, ReadAligned
<1>2. call.served \in Seq(Nat) /\ Remaining \in Nat /\ sect.position \in Nat
  BY <1>1, InCall
<1> DEFINE count == PhaseServes(sect.position, Remaining)
<1>3. Phase(sect.position, Remaining) = "aligned" /\ count \in Nat
  <2>1. Phase(sect.position, Remaining) = "aligned"
    BY DEF ReadAligned
  <2>2. count \in 1..Remaining
    BY <1>2, <2>1, SectorFacts, Zenon
  <2> HIDE DEF count
  <2> QED
    BY <1>2, <2>1, <2>2
<1>4. /\ part' = [position |-> sect.position, inner_position |-> part.inner_position]
      /\ call' = [pc |-> "aligned", ask |-> call.ask, served |-> call.served,
                  todo |-> count, buf |-> <<>>]
      /\ UNCHANGED <<bad, dpos, sect, tol, stats, out, at>>
  BY <1>1, Zenon DEF ReadAligned, PartitionSeek, LayerShape, CallShape
<1>5. Remaining' = Remaining /\ sect' = sect
  BY <1>4 DEF Remaining
<1>6. Phase(sect.position, Remaining)' = "aligned" /\ PhaseServes(sect.position, Remaining)' = count
  BY <1>3, <1>5 DEF Phase, PhaseServes
<1> HIDE DEF count
<1>7. LayerShape'
  <2>1. SectorShape'
    BY <1>1, <1>4 DEF SectorShape
  <2> QED
    BY <1>1, <1>2, <1>4, <2>1 DEF LayerShape
<1>8. CallShape'
  <2>1. /\ call.ask \in Nat /\ call.ask >= 1 /\ tol.position + call.ask <= Size
        /\ Len(call.served) <= call.ask
        /\ sect.position = tol.position + Len(call.served)
    BY <1>1 DEF CallShape
  <2>2. call' \in [pc : {"idle", "sector", "load", "aligned"}, ask : Nat, served : Seq(Nat),
                   todo : Nat, buf : Seq(Nat)]
    BY <1>2, <1>3, <1>4, <2>1
  <2>3. /\ Len(call'.buf) + call'.todo = count
        /\ part'.position = sect'.position + Len(call'.buf)
    BY <1>2, <1>3, <1>4
  <2> QED
    BY <1>4, <1>6, <2>1, <2>2, <2>3, Zenon DEF CallShape
<1>9. ZerosAccounted' /\ NoFalseEnd' /\ BytesFromTheirPlace'
  BY <1>4 DEF ZerosAccounted, NoFalseEnd, BytesFromTheirPlace
<1>10. bad' = {} => AllPlaced'
  BY <1>1, <1>4 DEF IInv, AllPlaced, Placed
<1> QED
  BY <1>7, <1>8, <1>9, <1>10 DEF IInv

-----------------------------------------------------------------------------
\* Where a read of the drive starts: at a byte of it and, while the position the
\* PartitionReader believes is the drive's, at the byte it means to read.
LEMMA StartIsRight ==
  ASSUME LayerShape
  PROVE  /\ Start \in Nat /\ AbsPos(part) \in Nat /\ AbsPos(part) = Base + part.position
         /\ part.position \in Nat
         /\ (part.inner_position # None => dpos = part.inner_position) => Start = AbsPos(part)
<1> USE ReadersAssumption
<1>1. part.position \in Nat /\ dpos \in Nat
  BY DEF LayerShape
<1>2. AbsPos(part) \in Nat /\ AbsPos(part) = Base + part.position
  BY <1>1 DEF AbsPos
<1>3. Start \in Nat
  BY <1>1, <1>2 DEF Start, InnerStart
<1>4. AbsPos(part) # None
  BY <1>2 DEF None
<1> QED
  BY <1>1, <1>2, <1>3, <1>4 DEF Start, InnerStart, MustSeek

\* The drive returns k bytes.
LEMMA DriveReadKeepsInvariant ==
  ASSUME IInv, NEW k \in 1..(MaxRequest + SectorSize), DriveRead(k)
  PROVE  IInv'
<1> USE ReadersAssumption, DriveAssumption
<1>1. /\ LayerShape /\ CallShape /\ SectorShape /\ call.pc \in {"load", "aligned"}
      /\ call.pc # "idle" /\ k \in Nat
  BY DEF IInv, LayerShape, DriveRead, Reading
<1>2. /\ call.served \in Seq(Nat) /\ Remaining \in Nat /\ sect.position \in Nat
      /\ call.buf \in Seq(Nat) /\ Len(call.buf) \in Nat /\ call.todo \in Nat
      /\ call.ask \in Nat
  BY <1>1, InCall
<1>3. /\ Start \in Nat /\ AbsPos(part) \in Nat /\ AbsPos(part) = Base + part.position
      /\ part.position \in Nat
  BY <1>1, StartIsRight
<1>4. k <= call.todo
  <2> DEFINE todo == call.todo
             room == Larger(Size - part.position, 0)
  <2>1. k \in 1..Smaller(room, todo)
    BY DEF DriveRead, MaxRead
  <2>2. todo \in Nat /\ room \in Nat
    BY <1>2, <1>3 DEF Larger
  <2> HIDE DEF todo, room
  <2>3. k <= todo
    BY <1>1, <2>1, <2>2 DEF Smaller
  <2> QED
    BY <2>3 DEF todo
<1> DEFINE run == [i \in 1..k |-> Start + i - 1]
           buf == call.buf \o run
           left == call.todo - k
<1>5. run \in Seq(Nat) /\ Len(run) = k /\ Placed(run, Start)
  BY <1>1, <1>3, RunOfDrive
<1>6. /\ call' = [pc |-> call.pc, ask |-> call.ask, served |-> call.served,
                  todo |-> left, buf |-> buf]
      /\ part' = [position |-> part.position + k, inner_position |-> AbsPos(part) + k]
      /\ dpos' = Start + k
      /\ UNCHANGED <<bad, sect, tol, stats, out, at>>
  BY <1>1, Zenon DEF DriveRead, PartitionAdvance, CallShape
<1>7. Remaining' = Remaining
  BY <1>6 DEF Remaining
<1>8. /\ Phase(sect.position, Remaining)' = Phase(sect.position, Remaining)
      /\ PhaseServes(sect.position, Remaining)' = PhaseServes(sect.position, Remaining)
      /\ SectorStart(sect.position)' = SectorStart(sect.position)
  BY <1>6, <1>7 DEF Phase, PhaseServes, SectorStart
<1> HIDE DEF run
<1>9. buf \in Seq(Nat) /\ Len(buf) = Len(call.buf) + k
  <2>1. /\ call.buf \o run \in Seq(Nat)
        /\ Len(call.buf \o run) = Len(call.buf) + Len(run)
    <3>1. call.buf \in Seq(Nat) /\ run \in Seq(Nat)
      BY <1>2, <1>5
    <3> QED
      BY <3>1, ConcatTyped, Zenon
  <2> QED
    BY <1>5, <2>1
<1>9a. left \in Nat /\ left + k = call.todo
  BY <1>1, <1>2, <1>4
<1> HIDE DEF buf, left
<1>10. LayerShape'
  <2>1. SectorShape'
    BY <1>1, <1>6 DEF SectorShape
  <2>2. Start + k \in Nat /\ part.position + k \in Nat /\ AbsPos(part) + k \in Nat
    BY <1>1, <1>3
  <2>3. dpos' \in Nat /\ part' \in [position : Nat, inner_position : Nat \cup {None}]
    BY <1>6, <2>2
  <2> QED
    BY <1>1, <1>6, <2>1, <2>3 DEF LayerShape
<1>11. CallShape'
  <2>1. /\ call.ask >= 1 /\ tol.position + call.ask <= Size
        /\ Len(call.served) <= call.ask
        /\ sect.position = tol.position + Len(call.served)
    BY <1>1 DEF CallShape
  <2>2. call' \in [pc : {"idle", "sector", "load", "aligned"}, ask : Nat, served : Seq(Nat),
                   todo : Nat, buf : Seq(Nat)]
    BY <1>1, <1>2, <1>6, <1>9, <1>9a, Zenon
  <2>3. /\ Len(call'.buf) + call'.todo = Len(call.buf) + call.todo
        /\ \A base \in Nat : part.position = base + Len(call.buf) =>
                               part'.position = base + Len(call'.buf)
    <3> DEFINE old == Len(call.buf)
               new == Len(buf)
               pos == part.position
    <3>1. old \in Nat /\ pos \in Nat /\ new = old + k
      BY <1>2, <1>3, <1>9
    <3>2. Len(call'.buf) = new /\ call'.todo = left /\ part'.position = pos + k
      BY <1>6
    <3> HIDE DEF old, new, pos
    <3>3. /\ new + left = old + (left + k)
          /\ \A base \in Nat : pos = base + old => pos + k = base + new
      BY <1>1, <1>9a, <3>1
    <3> QED
      BY <1>9a, <3>2, <3>3, Zenon DEF old, pos
  <2>4. CASE call.pc = "load"
    <3>1. /\ Phase(sect.position, Remaining) \in {"head", "tail"}
          /\ Len(call.buf) + call.todo = SectorSize
          /\ part.position = SectorStart(sect.position) + Len(call.buf)
          /\ sect.cached_sector = None
      BY <1>1, <2>4 DEF CallShape
    <3>2. SectorStart(sect.position) \in Nat
      BY <1>2, SectorFacts, Zenon
    <3>3. part'.position = SectorStart(sect.position) + Len(call'.buf)
      BY <2>3, <3>1, <3>2, Zenon
    <3> QED
      BY <1>6, <1>8, <2>1, <2>2, <2>3, <2>4, <3>1, <3>3 DEF CallShape
  <2>5. CASE call.pc = "aligned"
    <3>1. /\ Phase(sect.position, Remaining) = "aligned"
          /\ Len(call.buf) + call.todo = PhaseServes(sect.position, Remaining)
          /\ part.position = sect.position + Len(call.buf)
      BY <1>1, <2>5 DEF CallShape
    <3>2. part'.position = sect.position + Len(call'.buf)
      BY <1>2, <2>3, <3>1, Zenon
    <3> QED
      BY <1>6, <1>8, <2>1, <2>2, <2>3, <2>5, <3>1, <3>2 DEF CallShape
  <2> QED
    BY <1>1, <2>4, <2>5
<1>12. ZerosAccounted' /\ NoFalseEnd' /\ BytesFromTheirPlace'
  BY <1>1, <1>6 DEF ZerosAccounted, NoFalseEnd, BytesFromTheirPlace
<1>13. bad' = {} => AllPlaced'
  <2> SUFFICES ASSUME bad = {} PROVE AllPlaced'
    BY <1>6
  <2>1. AllPlaced
    BY DEF IInv
  <2>2. Start = AbsPos(part)
    BY <1>1, <2>1, StartIsRight DEF AllPlaced
  <2>3. ASSUME NEW base \in Nat, part.position = base + Len(call.buf),
               Placed(call.buf, Base + base)
        PROVE  Placed(buf, Base + base)
    <3>1. Start = (Base + base) + Len(call.buf) /\ Base + base \in Int
      <4> DEFINE old == Len(call.buf)
                 pos == part.position
      <4>1. old \in Nat /\ pos = base + old /\ Start = Base + pos
        BY <1>2, <1>3, <2>2, <2>3
      <4> HIDE DEF old, pos
      <4>2. Start = (Base + base) + old /\ Base + base \in Int
        BY <4>1
      <4> QED
        BY <4>2 DEF old
    <3> QED
      BY <1>2, <1>5, <2>3, <3>1, PlacedConcat, Zenon DEF buf
  <2>4. call.pc = "load" => Placed(buf, Base + SectorStart(sect.position))
    <3>1. SectorStart(sect.position) \in Nat
      BY <1>2, SectorFacts, Zenon
    <3> QED
      BY <1>1, <2>1, <2>3, <3>1, Zenon DEF AllPlaced, CallShape
  <2>5. call.pc = "aligned" => Placed(buf, Base + sect.position)
    BY <1>1, <1>2, <2>1, <2>3, Zenon DEF AllPlaced, CallShape
  <2>6. dpos' = part'.inner_position
    BY <1>6, <2>2
  <2> QED
    BY <1>1, <1>6, <1>8, <2>1, <2>4, <2>5, <2>6, Zenon DEF AllPlaced
<1> QED
  BY <1>6, <1>10, <1>11, <1>12, <1>13 DEF IInv

-----------------------------------------------------------------------------
\* Zeros of a granule, and the buffer a failed read leaves.
LEMMA ZerosTyped ==
  ASSUME NEW count \in Nat
  PROVE  /\ Zeros(count) \in Seq(Nat \cup {Zero})
         /\ DOMAIN Zeros(count) = 1..count
         /\ \A i \in 1..count : Zeros(count)[i] = Zero
         /\ count >= 1 => Zeros(count) # <<>>
<1>1. /\ DOMAIN Zeros(count) = 1..count
      /\ \A i \in 1..count : Zeros(count)[i] = Zero
  BY DEF Zeros
<1>2. Zeros(count) \in Seq(Nat \cup {Zero})
  BY DEF Zeros
<1>3. ASSUME count >= 1 PROVE Zeros(count) # <<>>
  <2>1. 1 \in DOMAIN Zeros(count)
    BY <1>1, <1>3
  <2> QED
    BY <2>1
<1> QED
  BY <1>1, <1>2, <1>3

\* A sector buffer that a failed read_sector has written into is still bytes.
LEMMA ClobberedTyped ==
  ASSUME NEW sector \in Seq(Nat), NEW buf \in Seq(Nat)
  PROVE  Clobbered(sector, buf) \in Seq(Nat)
<1> DEFINE len == Larger(Len(sector), Len(buf))
           val(i) == IF i <= Len(buf) THEN buf[i] ELSE sector[i]
<1>1. len \in Nat
  BY DEF Larger
<1>2. \A i \in 1..len : val(i) \in Nat
  <2> SUFFICES ASSUME NEW i \in 1..len PROVE val(i) \in Nat
    OBVIOUS
  <2>1. i <= Len(buf) \/ i <= Len(sector)
    BY DEF Larger
  <2>2. i <= Len(buf) => i \in DOMAIN buf
    OBVIOUS
  <2>3. i <= Len(sector) => i \in DOMAIN sector
    OBVIOUS
  <2>4. CASE i <= Len(buf)
    BY <2>2, <2>4
  <2>5. CASE ~(i <= Len(buf))
    BY <2>1, <2>3, <2>5
  <2> QED
    BY <2>4, <2>5
<1> HIDE DEF len, val
<1>3. [i \in 1..len |-> val(i)] \in Seq(Nat)
  BY <1>1, <1>2
<1> QED
  BY <1>3 DEF Clobbered, len, val

\* What record does to the counters.
LEMMA RecordCharges ==
  ASSUME NEW before \in Counters, NEW start \in Int, NEW end \in Int,
         NEW after, after = Record(before, "errored", start, end)
  PROVE  /\ after \in Counters
         /\ after.missing = before.missing /\ after.absent = before.absent
         /\ after.errored = before.errored \cup start..(end - 1)
  BY DEF Record, Counters

\* A failed read is charged one granule of zeros, wherever the failure left the layers.
LEMMA WriteOffKeepsInvariant ==
  ASSUME IInv, Reading, WriteOff, bad' = bad, dpos' \in Nat,
         part' \in [position : Nat, inner_position : Nat \cup {None}],
         bad = {} => part'.inner_position = dpos'
  PROVE  IInv'
<1> USE ReadersAssumption, DriveAssumption
<1>1. /\ LayerShape /\ CallShape /\ SectorShape /\ call.pc \in {"load", "aligned"}
      /\ call.pc # "idle"
  BY DEF IInv, LayerShape, Reading
<1>2. call.buf \in Seq(Nat) /\ call.ask \in Nat /\ tol.position \in 0..Size
  BY <1>1, InCall
<1> DEFINE count == Smaller(Granule, call.ask)
           from == tol.position
<1>3. count \in Nat /\ count >= 1 /\ from + count <= Size
  <2>1. call.ask >= 1 /\ tol.position + call.ask <= Size
    BY <1>1 DEF CallShape
  <2> QED
    BY <1>2, <2>1 DEF Smaller
<1>4. /\ stats' = Record([stats EXCEPT !.read_errors = @ + 1], "errored", from, from + count)
      /\ out' = Zeros(count)
      /\ at' = from
      /\ tol' = [position |-> from + count, inner_len |-> Size, length |-> Size]
      /\ call' = Idle
      /\ sect' = IF call.pc = "load"
                   THEN [sect EXCEPT !.sector = Clobbered(@, call.buf)]
                   ELSE sect
  BY <1>1, Zenon DEF WriteOff, LayerShape
<1>5. stats' \in Counters /\ stats'.errored = stats.errored \cup from..(from + count - 1)
  <2> DEFINE before == [stats EXCEPT !.read_errors = @ + 1]
             start == from
             end == from + count
  <2>1. stats \in Counters
    BY <1>1 DEF LayerShape, Counters
  <2>2. stats' = Record(before, "errored", start, end) /\ start \in Int /\ end \in Int
    BY <1>2, <1>3, <1>4, SMTT(20)
  <2>3. /\ before \in Counters
        /\ before.missing = stats.missing /\ before.errored = stats.errored
        /\ before.absent = stats.absent
    BY <2>1 DEF Counters
  <2>5. start..(end - 1) = from..(from + count - 1)
    BY <1>2, <1>3
  <2> HIDE DEF before, start, end
  <2>4. /\ stats' \in Counters
        /\ stats'.missing = before.missing /\ stats'.absent = before.absent
        /\ stats'.errored = before.errored \cup start..(end - 1)
    BY <2>2, <2>3, RecordCharges
  <2> QED
    BY <2>3, <2>4, <2>5, Zenon
<1> HIDE DEF count
<1>6. SectorShape'
  <2>1. sect.sector \in Seq(Nat)
    BY <1>1 DEF SectorShape
  <2>2. Clobbered(sect.sector, call.buf) \in Seq(Nat)
    BY <1>2, <2>1, ClobberedTyped
  <2>3. CASE call.pc = "load"
    <3>1. sect' = [position |-> sect.position, cached_sector |-> sect.cached_sector,
                   sector |-> Clobbered(sect.sector, call.buf)]
      BY <1>1, <1>4, <2>3 DEF SectorShape
    <3>2. sect.cached_sector = None
      BY <1>1, <2>3 DEF CallShape
    <3> QED
      BY <1>1, <2>2, <3>1, <3>2 DEF SectorShape
  <2>4. CASE call.pc # "load"
    BY <1>1, <1>4, <2>4 DEF SectorShape
  <2> QED
    BY <2>3, <2>4
<1>7. LayerShape'
  <2>4. tol' \in [position : 0..Size, inner_len : {Size}, length : {Size}] /\ at' \in 0..Size
    BY <1>2, <1>3, <1>4, SMTT(20)
  <2>5. out' \in Seq(Nat \cup {Zero})
    BY <1>3, <1>4, ZerosTyped
  <2> QED
    BY <1>5, <1>6, <2>4, <2>5 DEF LayerShape, Counters
<1>8. CallShape'
  BY <1>4 DEF CallShape, Idle
<1>9. ZerosAccounted' /\ NoFalseEnd' /\ BytesFromTheirPlace'
  <2>1. /\ DOMAIN out' = 1..count /\ out' # <<>>
        /\ \A i \in 1..count : out'[i] = Zero
    BY <1>3, <1>4, ZerosTyped
  <2>2. \A i \in 1..count : from + i - 1 \in from..(from + count - 1)
    BY <1>2, <1>3
  <2>3. \A i \in 1..count : at' + i - 1 \in Substituted(stats)'
    BY <1>4, <1>5, <2>2 DEF Substituted
  <2> QED
    BY <2>1, <2>3, Zenon DEF ZerosAccounted, NoFalseEnd, BytesFromTheirPlace
<1>10. bad' = {} => AllPlaced'
  <2>1. call'.pc = "idle"
    BY <1>4 DEF Idle
  <2>2. sect'.cached_sector # None => sect' = sect
    BY <1>1, <1>4 DEF CallShape, SectorShape
  <2> QED
    BY <2>1, <2>2 DEF IInv, AllPlaced, Placed
<1> QED
  BY <1>7, <1>8, <1>9, <1>10 DEF IInv

\* A bad sector, and the end of the drive.
LEMMA FailureKeepsInvariant ==
  ASSUME IInv, DriveFails \/ DriveEnds
  PROVE  IInv'
<1> USE ReadersAssumption, DriveAssumption
<1>1. LayerShape
  BY DEF IInv
<1>2. /\ Start \in Nat /\ AbsPos(part) \in Nat /\ AbsPos(part) = Base + part.position
      /\ part.position \in Nat
  BY <1>1, StartIsRight
<1>3. CASE DriveFails
  <2>1. Reading /\ WriteOff /\ bad' = bad /\ part' = part /\ dpos' = Start /\ bad # {}
    BY <1>3 DEF DriveFails
  <2>2. part' \in [position : Nat, inner_position : Nat \cup {None}] /\ dpos' \in Nat
    BY <1>1, <1>2, <2>1 DEF LayerShape
  <2> QED
    BY <2>1, <2>2, WriteOffKeepsInvariant
<1>4. CASE DriveEnds
  <2>1. /\ Reading /\ WriteOff /\ bad' = bad /\ dpos' = Start
        /\ part' = [position |-> part.position + 0, inner_position |-> AbsPos(part) + 0]
    BY <1>4 DEF DriveEnds, PartitionAdvance
  <2>2. /\ part' \in [position : Nat, inner_position : Nat \cup {None}] /\ dpos' \in Nat
        /\ part'.inner_position = AbsPos(part)
    BY <1>2, <2>1
  <2>3. bad = {} => Start = AbsPos(part)
    BY <1>1, StartIsRight DEF IInv, AllPlaced
  <2> QED
    BY <2>1, <2>2, <2>3, WriteOffKeepsInvariant
<1> QED
  BY <1>3, <1>4

\* Bytes of the drive are what a call may return.
LEMMA BytesTyped ==
  ASSUME NEW s \in Seq(Nat)
  PROVE  s \in Seq(Nat \cup {Zero})
<1>1. s \in [1..Len(s) -> Nat \cup {Zero}] /\ Len(s) \in Nat
  OBVIOUS
<1> QED
  BY <1>1

\* The request is served.
LEMMA ReturnKeepsInvariant ==
  ASSUME IInv, Return
  PROVE  IInv'
<1> USE ReadersAssumption, DriveAssumption
<1>1. LayerShape /\ CallShape /\ SectorShape /\ call.pc = "sector"
  BY DEF IInv, LayerShape, Return
<1>2. /\ call.served \in Seq(Nat) /\ Remaining \in Nat /\ sect.position \in Nat
      /\ call.ask \in Nat /\ Len(call.served) \in Nat /\ tol.position \in 0..Size
      /\ Remaining = call.ask - Len(call.served)
  BY <1>1, InCall
<1>3. Remaining = 0
  <2>1. Phase(sect.position, Remaining) = "done"
    BY DEF Return
  <2> QED
    BY <1>2, <2>1, SectorFacts, Zenon
<1>4. call.ask >= 1 /\ tol.position + call.ask <= Size /\ Len(call.served) = call.ask
  BY <1>1, <1>2, <1>3 DEF CallShape
<1>5. /\ out' = call.served /\ at' = tol.position /\ call' = Idle
      /\ tol' = [position |-> tol.position + Len(call.served), inner_len |-> Size,
                 length |-> Size]
      /\ UNCHANGED <<bad, dpos, part, sect, stats>>
  BY <1>1, Zenon DEF Return, LayerShape
<1>6. LayerShape'
  <2>1. SectorShape'
    BY <1>1, <1>5 DEF SectorShape
  <2>2. tol' \in [position : 0..Size, inner_len : {Size}, length : {Size}] /\ at' \in 0..Size
    BY <1>2, <1>4, <1>5
  <2>3. out' \in Seq(Nat \cup {Zero})
    BY <1>2, <1>5, BytesTyped
  <2> QED
    BY <1>1, <1>5, <2>1, <2>2, <2>3 DEF LayerShape
<1>7. CallShape'
  BY <1>5 DEF CallShape, Idle
<1>8. ZerosAccounted' /\ NoFalseEnd'
  <2>1. \A i \in DOMAIN out' : out'[i] \in Nat
    BY <1>2, <1>5, SMTT(20)
  <2>2. \A i \in DOMAIN out' : out'[i] # Zero
    BY <2>1 DEF Zero
  <2>3. out' # <<>>
    BY <1>2, <1>4, <1>5
  <2> QED
    BY <2>2, <2>3, Zenon DEF ZerosAccounted, NoFalseEnd
<1>9. bad' = {} => AllPlaced' /\ BytesFromTheirPlace'
  <2> SUFFICES ASSUME bad = {} PROVE AllPlaced' /\ BytesFromTheirPlace'
    BY <1>5
  <2>1. AllPlaced
    BY Zenon DEF IInv
  <2>2. AllPlaced'
    BY <1>5, <2>1 DEF AllPlaced, Idle, Placed
  <2>3. \A i \in DOMAIN out' : out'[i] = (Base + at') + i - 1
    BY <1>1, <1>5, <2>1 DEF AllPlaced, Placed
  <2> QED
    BY <2>2, <2>3 DEF BytesFromTheirPlace
<1> QED
  BY <1>5, <1>6, <1>7, <1>8, <1>9 DEF IInv

\* Every step keeps the invariant.
LEMMA NextInv ==
  ASSUME IInv, [Next]_vars
  PROVE  IInv'
<1>1. CASE UNCHANGED vars
  BY <1>1 DEF vars, IInv, LayerShape, SectorShape, CallShape, Remaining, ZerosAccounted,
              NoFalseEnd, AllPlaced, BytesFromTheirPlace
<1>2. ASSUME NEW pos \in 0..Size, NEW n \in 1..MaxRequest, Request(pos, n)
      PROVE  IInv'
  BY <1>2, RequestKeepsInvariant
<1>3. ASSUME NEW k \in 1..(MaxRequest + SectorSize), DriveRead(k)
      PROVE  IInv'
  BY <1>3, DriveReadKeepsInvariant
<1>4. CASE SectorCached
  BY <1>4, CachedKeepsInvariant
<1>5. CASE LoadSector
  BY <1>5, LoadKeepsInvariant
<1>6. CASE ReadAligned
  BY <1>6, ReadAlignedKeepsInvariant
<1>7. CASE DriveFails \/ DriveEnds
  BY <1>7, FailureKeepsInvariant
<1>8. CASE SectorLoaded
  BY <1>8, LoadedKeepsInvariant
<1>9. CASE AlignedDone
  BY <1>9, AlignedKeepsInvariant
<1>10. CASE Return
  BY <1>10, ReturnKeepsInvariant
<1> QED
  BY <1>1, <1>2, <1>3, <1>4, <1>5, <1>6, <1>7, <1>8, <1>9, <1>10, Zenon DEF Next, Work

-----------------------------------------------------------------------------
\* The inductive invariant holds throughout.
THEOREM DriveInvariant == Spec => []IInv
<1>1. Init => IInv
  BY InitInv
<1>2. IInv /\ [Next]_vars => IInv'
  BY NextInv
<1> QED
  BY <1>1, <1>2, PTL DEF Spec

\* A zero the drive stack serves is charged, whichever sectors are bad and however
\* short the drive is: zero_fill records what it fills.
THEOREM DriveZerosAccounted == Spec => []ZerosAccounted
<1>1. IInv => ZerosAccounted
  BY DEF IInv
<1> QED
  BY <1>1, DriveInvariant, PTL

\* A failure of the drive never looks like the end of the volume: a read of the
\* TolerantReader returns nothing at the end alone.
THEOREM DriveNoFalseEnd == Spec => []NoFalseEnd
<1>1. IInv => NoFalseEnd
  BY DEF IInv
<1> QED
  BY <1>1, DriveInvariant, PTL

\* On a drive without bad sectors every byte of a PartitionReader, a SectorReader and a
\* TolerantReader put together is the byte asked for, or a zero past the drive's end:
\* skipped seeks, short reads, the cached sector and unaligned requests move none.
THEOREM DriveBytesFromTheirPlace == Spec => []SoundBytesFromTheirPlace
<1>1. IInv => SoundBytesFromTheirPlace
  BY DEF IInv, SoundBytesFromTheirPlace
<1> QED
  BY <1>1, DriveInvariant, PTL
=============================================================================
