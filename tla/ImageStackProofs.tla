-------------------------- MODULE ImageStackProofs --------------------------
(***************************************************************************)
(* Proofs about ImageStack, for every window, gap, image and request size: *)
(* the bytes a parser is given are those of the place it asked for, every  *)
(* zero among them is charged, and to the reason it has.                   *)
(***************************************************************************)
EXTENDS ImageStack, TLAPS

\* A read of the image stack leaves the state it is made in: what the three
\* layers know when it starts, for a read of pos that is not past the window.
ReadStarts(pos, n) ==
  /\ MaxRead(Seeked(pos), n) \in 1..n
  /\ pos + MaxRead(Seeked(pos), n) <= Size
  /\ Reached(pos) = [position |-> Base + pos, inner_len |-> tol.inner_len,
                     length |-> tol.length]

\* The inductive invariant.
IInv ==
  /\ TypeOK
  /\ BelievedPositionHeld
  /\ BytesFromTheirPlace
  /\ ZerosAccounted
  /\ ReasonsKeptApart
  /\ EndNeverBeforeBytes

-----------------------------------------------------------------------------
\* The smaller of two numbers.
LEMMA SmallerIs ==
  ASSUME NEW a \in Int, NEW b \in Int
  PROVE  /\ Smaller(a, b) \in Int
         /\ Smaller(a, b) <= a /\ Smaller(a, b) <= b
         /\ Smaller(a, b) = a \/ Smaller(a, b) = b
  BY DEF Smaller

\* Whether the PartitionReader seeks or believes it need not, the TolerantReader
\* stands where the parser asked to read.
LEMMA ReadStartsAtItsPlace ==
  ASSUME TypeOK, BelievedPositionHeld,
         NEW pos \in 0..Size, NEW n \in 1..MaxRequest,
         MaxRead(Seeked(pos), n) # 0
  PROVE  ReadStarts(pos, n)
<1>1. Seeked(pos) = [position |-> pos, inner_position |-> part.inner_position]
  BY DEF Seeked, PartitionSeek, TypeOK
<1>2. MaxRead(Seeked(pos), n) \in 1..n /\ pos + MaxRead(Seeked(pos), n) <= Size
  BY <1>1, ReadersAssumption, ImageAssumption DEF MaxRead, Smaller, Larger
<1>3. InnerStart(Seeked(pos), tol.position) = Base + pos
  BY <1>1, ReadersAssumption
     DEF InnerStart, MustSeek, AbsPos, BelievedPositionHeld, TypeOK, None
<1> QED
  BY <1>2, <1>3 DEF ReadStarts, Reached, TypeOK

\* What a layer is asked for is something, and never more than the parser asked.
LEMMA AskIsBounded ==
  ASSUME TypeOK, BelievedPositionHeld,
         NEW pos \in 0..Size, NEW n \in 1..MaxRequest, Passed(pos, n)
  PROVE  /\ ReadStarts(pos, n)
         /\ Ask(pos, n) \in 1..n
         /\ pos + Ask(pos, n) <= Size
         /\ Base + pos + Ask(pos, n) <= tol.inner_len
<1>1. ReadStarts(pos, n)
  BY ReadStartsAtItsPlace DEF Passed
<1>2. /\ tol.length \in Nat /\ tol.inner_len \in Nat
      /\ Base + pos < tol.length /\ Base + pos < tol.inner_len
  BY <1>1, ReadersAssumption, ImageAssumption, SMTT(20)
     DEF ReadStarts, Passed, AtEnd, PastSource, TypeOK, Larger
<1> QED
  BY <1>1, <1>2, ReadersAssumption
     DEF Ask, AskSource, Want, ReadStarts, Smaller

\* A function on an initial segment of the positive integers is a sequence.
LEMMA FunctionIsSeq ==
  ASSUME NEW S, NEW n \in Nat, NEW f \in [1..n -> S]
  PROVE  f \in Seq(S) /\ Len(f) = n /\ DOMAIN f = 1..n
  OBVIOUS

\* Zeros and bytes of the window in their order are what out may hold.
LEMMA ZerosTyped ==
  ASSUME NEW count \in Nat
  PROVE  /\ Zeros(count) \in Seq(Window \cup {Zero})
         /\ Len(Zeros(count)) = count
         /\ DOMAIN Zeros(count) = 1..count
         /\ \A i \in 1..count : Zeros(count)[i] = Zero
  BY DEF Zeros

\* When a read returns, each layer stands behind the bytes it returned.
LEMMA FinishMoves ==
  ASSUME TypeOK, NEW pos \in 0..Size, NEW t, NEW bytes \in Seq(Window \cup {Zero}),
         t \in [position : {Base + pos}, inner_len : Nat, length : {tol.length}],
         pos + Len(bytes) <= Size,
         Finish(pos, t, bytes)
  PROVE  /\ tol' = [position |-> Base + pos + Len(bytes),
                    inner_len |-> t.inner_len, length |-> tol.length]
         /\ part' = [position |-> pos + Len(bytes),
                     inner_position |-> Base + pos + Len(bytes)]
         /\ out' = bytes /\ at' = pos /\ bad' = bad
         /\ BelievedPositionHeld'
         /\ tol' \in [position : Nat, inner_len : Nat,
                      length : {Larger(Gap + Claimed, Base + Size)}]
         /\ part' \in [position : 0..Size, inner_position : Nat \cup {None}]
<1>1. Len(bytes) \in Nat
  OBVIOUS
<1>2. tol' = [position |-> Base + pos + Len(bytes),
              inner_len |-> t.inner_len, length |-> tol.length]
  BY DEF Finish
<1>3. part' = [position |-> pos + Len(bytes),
               inner_position |-> Base + pos + Len(bytes)]
  BY DEF Finish, PartitionAdvance, Seeked, PartitionSeek, AbsPos, TypeOK
<1>4. out' = bytes /\ at' = pos /\ bad' = bad
  BY DEF Finish
<1>5. BelievedPositionHeld'
  BY <1>2, <1>3 DEF BelievedPositionHeld
<1>6. tol.length = Larger(Gap + Claimed, Base + Size)
  BY DEF TypeOK
<1> QED
  BY <1>1, <1>2, <1>3, <1>4, <1>5, <1>6, ReadersAssumption

-----------------------------------------------------------------------------
\* The three counters and the number of failures.
Counters == [missing : SUBSET Int, errored : SUBSET Int, absent : SUBSET Int,
             read_errors : 0..MaxErrors]

\* A counter that grew by a range: what record does to one of the three.
Charged(before, after, grows, range) ==
  after = IF grows THEN before \cup range ELSE before

\* Serving zeros keeps the invariant, provided the range is charged to a reason
\* that is its own.
LEMMA ZerosKeepInvariant ==
  ASSUME IInv, NEW pos \in 0..Size, NEW t, NEW count \in Nat,
         t \in [position : {Base + pos}, inner_len : Nat, length : {tol.length}],
         t.inner_len >= Carried,
         pos + count <= Size,
         Finish(pos, t, Zeros(count)),
         NEW why \in {"missing", "errored", "absent"},
         NEW range, range = (Base + pos)..(Base + pos + count - 1),
         stats' \in Counters,
         Charged(stats.missing, stats'.missing, why = "missing", range),
         Charged(stats.errored, stats'.errored, why = "errored", range),
         Charged(stats.absent, stats'.absent, why = "absent", range),
         why = "missing" => Base + pos >= Carried,
         why = "errored" => Base + pos \in bad /\ count <= Granule,
         why = "absent" => Base + pos + count <= Gap
  PROVE  IInv'
<1> USE ReadersAssumption, ImageAssumption
<1>0. /\ Zeros(count) \in Seq(Window \cup {Zero})
      /\ Len(Zeros(count)) = count
      /\ TypeOK
  BY ZerosTyped DEF IInv
<1>1. /\ tol' = [position |-> Base + pos + count,
                 inner_len |-> t.inner_len, length |-> tol.length]
      /\ out' = Zeros(count) /\ at' = pos /\ bad' = bad
      /\ BelievedPositionHeld'
      /\ tol' \in [position : Nat, inner_len : Nat,
                   length : {Larger(Gap + Claimed, Base + Size)}]
      /\ part' \in [position : 0..Size, inner_position : Nat \cup {None}]
  <2> HIDE ReadersAssumption, ImageAssumption
  <2> QED
    BY <1>0, FinishMoves
<1>2. range \subseteq Window
  BY DEF Window
<1>3. TypeOK'
  BY <1>1, <1>2, ZerosTyped, ZenonT(60) DEF IInv, TypeOK, Charged, Carried, Counters
<1>4. range \subseteq Substituted(stats)'
  BY DEF Substituted, Charged
<1>5. BytesFromTheirPlace'
  BY <1>1, ZerosTyped, ZenonT(60) DEF BytesFromTheirPlace
<1>6. ZerosAccounted'
  <2>1. DOMAIN out' = 1..count /\ at' = pos
    BY <1>1, ZerosTyped, ZenonT(60)
  <2>2. \A i \in 1..count : Base + pos + i - 1 \in range
    OBVIOUS
  <2>3. \A i \in DOMAIN out' : Base + at' + i - 1 \in Substituted(stats)'
    BY <2>1, <2>2, <1>4, ZenonT(60)
  <2> QED
    BY <2>3, ZenonT(60) DEF ZerosAccounted
<1>7. ReasonsKeptApart'
  <2>1. \A b \in stats'.absent : b < Gap
    <3>1. stats'.absent \subseteq stats.absent \cup (IF why = "absent" THEN range ELSE {})
      BY ZenonT(30) DEF Charged
    <3>2. \A b \in stats.absent : b < Gap
      BY DEF IInv, ReasonsKeptApart
    <3>3. why = "absent" => \A b \in range : b < Gap
      BY SMTT(30)
    <3> QED
      BY <3>1, <3>2, <3>3, ZenonT(30)
  <2>2. \A b \in stats'.missing : b >= Carried
    <3>1. stats'.missing \subseteq stats.missing \cup (IF why = "missing" THEN range ELSE {})
      BY ZenonT(30) DEF Charged
    <3>2. \A b \in stats.missing : b >= Carried
      BY DEF IInv, ReasonsKeptApart
    <3>3. why = "missing" => \A b \in range : b >= Carried
      BY SMTT(30) DEF Carried
    <3> QED
      BY <3>1, <3>2, <3>3, ZenonT(30)
  <2>3. \A b \in stats'.errored : \E o \in bad : o <= b /\ b < o + Granule
    <3>1. stats'.errored \subseteq stats.errored \cup (IF why = "errored" THEN range ELSE {})
      BY ZenonT(30) DEF Charged
    <3>2. \A b \in stats.errored : \E o \in bad : o <= b /\ b < o + Granule
      BY DEF IInv, ReasonsKeptApart
    <3>3. why = "errored" =>
            \A b \in range : Base + pos <= b /\ b < Base + pos + Granule
      BY SMTT(30)
    <3>4. why = "errored" => Base + pos \in bad
      OBVIOUS
    <3> QED
      BY <3>1, <3>2, <3>3, <3>4, ZenonT(30)
  <2> QED
    BY <1>1, <2>1, <2>2, <2>3 DEF ReasonsKeptApart, Carried
<1>8. EndNeverBeforeBytes'
  BY <1>1 DEF EndNeverBeforeBytes, Carried
<1> QED
  BY <1>1, <1>3, <1>5, <1>6, <1>7, <1>8 DEF IInv

\* What record does to the three counters.
LEMMA RecordCharges ==
  ASSUME NEW before \in Counters, NEW why \in {"missing", "errored", "absent"},
         NEW start \in Int, NEW end \in Int,
         NEW after, after = Record(before, why, start, end)
  PROVE  /\ after \in Counters
         /\ Charged(before.missing, after.missing, why = "missing", start..(end - 1))
         /\ Charged(before.errored, after.errored, why = "errored", start..(end - 1))
         /\ Charged(before.absent, after.absent, why = "absent", start..(end - 1))
<1>1. CASE why = "missing"
  BY <1>1 DEF Record, Charged, Counters
<1>2. CASE why = "errored"
  BY <1>2 DEF Record, Charged, Counters
<1>3. CASE why = "absent"
  BY <1>3 DEF Record, Charged, Counters
<1> QED
  BY <1>1, <1>2, <1>3

\* zero_fill keeps the invariant.
LEMMA ZeroFillKeepsInvariant ==
  ASSUME IInv, NEW pos \in 0..Size, NEW t, NEW count \in Nat,
         t \in [position : {Base + pos}, inner_len : Nat, length : {tol.length}],
         t.inner_len >= Carried,
         pos + count <= Size,
         NEW why \in {"missing", "absent"},
         ZeroFill(pos, t, count, why),
         why = "missing" => Base + pos >= Carried,
         why = "absent" => Base + pos + count <= Gap
  PROVE  IInv'
<1>1. stats' = Record(stats, why, Base + pos, Base + pos + count)
  BY DEF ZeroFill
<1>2. Finish(pos, t, Zeros(count))
  BY DEF ZeroFill
<1>3. stats \in Counters
  BY ReadersAssumption DEF IInv, TypeOK, Window, Counters
<1> DEFINE range == (Base + pos)..(Base + pos + count - 1)
<1>4. /\ stats' \in Counters
      /\ Charged(stats.missing, stats'.missing, why = "missing", range)
      /\ Charged(stats.errored, stats'.errored, why = "errored", range)
      /\ Charged(stats.absent, stats'.absent, why = "absent", range)
  <2>1. Base + pos \in Int /\ Base + pos + count \in Int
    BY ReadersAssumption
  <2>2. why \in {"missing", "errored", "absent"}
    OBVIOUS
  <2> DEFINE start == Base + pos
             end == Base + pos + count
  <2>3. start \in Int /\ end \in Int /\ stats' = Record(stats, why, start, end)
    BY <1>1, <2>1
  <2>4. range = start..(end - 1)
    BY <2>1 DEF range
  <2> HIDE DEF range, start, end
  <2> QED
    BY <1>3, <2>2, <2>3, <2>4, RecordCharges, ZenonT(60)
<1> QED
  BY <1>2, <1>4, ZerosKeepInvariant

-----------------------------------------------------------------------------
\* The TolerantReader as a read finds it, in the form the lemmas take it.
LEMMA ReachedTyped ==
  ASSUME IInv, NEW pos \in 0..Size, NEW n \in 1..MaxRequest, ReadStarts(pos, n)
  PROVE  /\ Reached(pos) \in [position : {Base + pos}, inner_len : Nat,
                              length : {tol.length}]
         /\ Reached(pos).position = Base + pos
         /\ Reached(pos).inner_len = tol.inner_len
         /\ Reached(pos).inner_len >= Carried
  BY DEF IInv, TypeOK, ReadStarts, EndNeverBeforeBytes

\* Zeros past the source are missing bytes.
LEMMA PastSourceKeepsInvariant ==
  ASSUME IInv, NEW pos \in 0..Size, NEW n \in 1..MaxRequest,
         ReadPastSource(pos, n)
  PROVE  IInv'
<1>1. TypeOK /\ BelievedPositionHeld /\ EndNeverBeforeBytes
  BY DEF IInv
<1>2. ReadStarts(pos, n)
  BY <1>1, ReadStartsAtItsPlace DEF ReadPastSource
<1> DEFINE t == Reached(pos)
           count == Want(t, MaxRead(Seeked(pos), n))
<1>3. /\ t \in [position : {Base + pos}, inner_len : Nat, length : {tol.length}]
      /\ t.inner_len >= Carried
      /\ t.position = Base + pos
  BY <1>2, ReachedTyped
<1>4. t.length \in Nat /\ t.position < t.length /\ t.position >= t.inner_len
  BY <1>1, <1>3, ReadersAssumption, ImageAssumption, SMTT(30)
     DEF ReadPastSource, AtEnd, PastSource, TypeOK, Larger
<1>5. count \in Nat /\ pos + count <= Size
  BY <1>2, <1>3, <1>4, ReadersAssumption DEF ReadStarts, Want, Smaller
<1>6. Base + pos >= Carried
  BY <1>3, <1>4, ReadersAssumption, ImageAssumption DEF Carried
<1>7. ZeroFill(pos, t, count, "missing")
  BY DEF ReadPastSource
<1> HIDE DEF t, count
<1> QED
  BY <1>3, <1>5, <1>6, <1>7, ZeroFillKeepsInvariant

\* A source shorter than it said: the end moves to where it answered nothing.
LEMMA ShortSourceKeepsInvariant ==
  ASSUME IInv, NEW pos \in 0..Size, NEW n \in 1..MaxRequest,
         ReadShortSource(pos, n)
  PROVE  IInv'
<1>1. TypeOK /\ BelievedPositionHeld /\ Passed(pos, n)
  BY DEF IInv, ReadShortSource
<1>2. /\ ReadStarts(pos, n) /\ Ask(pos, n) \in 1..n
      /\ pos + Ask(pos, n) <= Size
  BY <1>1, AskIsBounded
<1>3. /\ Reached(pos) \in [position : {Base + pos}, inner_len : Nat,
                           length : {tol.length}]
      /\ Reached(pos).position = Base + pos
  BY <1>2, ReachedTyped
<1> DEFINE t == [Reached(pos) EXCEPT !.inner_len = Reached(pos).position]
           count == Ask(pos, n)
<1>4. /\ t \in [position : {Base + pos}, inner_len : Nat, length : {tol.length}]
      /\ t.inner_len = Base + pos
  BY <1>3, ReadersAssumption
<1>5. Base + pos >= Carried
  BY <1>3, ReadersAssumption, ImageAssumption
     DEF ReadShortSource, InnerOffset, Carried
<1>6. ZeroFill(pos, t, count, "missing")
  BY DEF ReadShortSource
<1>7. count \in Nat /\ pos + count <= Size
  BY <1>2
<1> HIDE DEF t, count
<1> QED
  BY <1>4, <1>5, <1>6, <1>7, ZeroFillKeepsInvariant

\* Zeros for the absent head never reach past it.
LEMMA AbsentHeadKeepsInvariant ==
  ASSUME IInv, NEW pos \in 0..Size, NEW n \in 1..MaxRequest,
         ReadAbsentHead(pos, n)
  PROVE  IInv'
<1>1. TypeOK /\ BelievedPositionHeld /\ Passed(pos, n)
  BY DEF IInv, ReadAbsentHead
<1>2. /\ ReadStarts(pos, n) /\ Ask(pos, n) \in 1..n
      /\ pos + Ask(pos, n) <= Size
  BY <1>1, AskIsBounded
<1> DEFINE t == Reached(pos)
           count == Smaller(Gap - t.position, Ask(pos, n))
<1>3. /\ t \in [position : {Base + pos}, inner_len : Nat, length : {tol.length}]
      /\ t.position = Base + pos
      /\ t.inner_len >= Carried
  BY <1>2, ReachedTyped
<1>4. t.position < Gap
  BY DEF ReadAbsentHead
<1>5. count \in Nat /\ pos + count <= Size /\ Base + pos + count <= Gap
  BY <1>2, <1>3, <1>4, ReadersAssumption, ImageAssumption DEF Smaller
<1>6. ZeroFill(pos, t, count, "absent")
  BY DEF ReadAbsentHead
<1> HIDE DEF t, count
<1> QED
  BY <1>3, <1>5, <1>6, ZeroFillKeepsInvariant

\* A failed read is charged one granule from the byte that failed.
LEMMA FailureKeepsInvariant ==
  ASSUME IInv, NEW pos \in 0..Size, NEW n \in 1..MaxRequest, ReadFails(pos, n)
  PROVE  IInv'
<1>1. TypeOK /\ BelievedPositionHeld /\ Passed(pos, n)
  BY DEF IInv, ReadFails
<1>2. /\ ReadStarts(pos, n) /\ Ask(pos, n) \in 1..n
      /\ pos + Ask(pos, n) <= Size
  BY <1>1, AskIsBounded
<1> DEFINE t == Reached(pos)
           count == Smaller(Granule, Ask(pos, n))
           why == "errored"
           start == Base + pos
           end == Base + pos + count
           range == (Base + pos)..(Base + pos + count - 1)
           before == [stats EXCEPT !.read_errors = @ + 1]
<1>3. /\ t \in [position : {Base + pos}, inner_len : Nat, length : {tol.length}]
      /\ t.position = Base + pos
      /\ t.inner_len >= Carried
  BY <1>2, ReachedTyped
<1>4. Base + pos \in bad
  BY <1>3, ReadersAssumption, ImageAssumption
     DEF ReadFails, ImageByte, InnerOffset
<1>5. count \in Nat /\ pos + count <= Size /\ count <= Granule
  BY <1>2, ReadersAssumption DEF Smaller
<1>6. stats' = Record(before, why, start, end) /\ Finish(pos, t, Zeros(count))
  BY <1>3 DEF ReadFails
<1>7. /\ before \in Counters
      /\ before.missing = stats.missing
      /\ before.errored = stats.errored
      /\ before.absent = stats.absent
  <2>1. stats \in Counters
    BY <1>1, ReadersAssumption DEF TypeOK, Window, Counters
  <2>2. stats.read_errors < MaxErrors
    BY DEF ReadFails
  <2> QED
    BY <2>1, <2>2, ImageAssumption DEF Counters
<1>8. why = "errored" /\ why \in {"missing", "errored", "absent"}
  OBVIOUS
<1>9. start \in Int /\ end \in Int /\ range = start..(end - 1)
  BY <1>5, ReadersAssumption DEF range
<1>10. range = (Base + pos)..(Base + pos + count - 1)
  OBVIOUS
<1> HIDE DEF t, count, why, start, end, range, before
<1>11. /\ stats' \in Counters
       /\ Charged(before.missing, stats'.missing, why = "missing", range)
       /\ Charged(before.errored, stats'.errored, why = "errored", range)
       /\ Charged(before.absent, stats'.absent, why = "absent", range)
  BY <1>6, <1>7, <1>8, <1>9, RecordCharges
<1> QED
  BY <1>3, <1>4, <1>5, <1>6, <1>7, <1>8, <1>10, <1>11, ZerosKeepInvariant

\* Bytes served are those of the place asked for.
LEMMA ServedKeepsInvariant ==
  ASSUME IInv, NEW pos \in 0..Size, NEW n \in 1..MaxRequest,
         NEW k \in 1..MaxRequest, ReadServed(pos, n, k)
  PROVE  IInv'
<1> USE ReadersAssumption, ImageAssumption
<1>1. TypeOK /\ BelievedPositionHeld /\ Passed(pos, n)
  BY DEF IInv, ReadServed
<1>2. /\ ReadStarts(pos, n) /\ Ask(pos, n) \in 1..n
      /\ pos + Ask(pos, n) <= Size
  BY <1>1, AskIsBounded
<1> DEFINE t == Reached(pos)
           bytes == [i \in 1..k |-> ImageByte(InnerOffset(t.position) + i - 1)]
<1>3. /\ t \in [position : {Base + pos}, inner_len : Nat, length : {tol.length}]
      /\ t.position = Base + pos
      /\ t.inner_len >= Carried
  BY <1>2, ReachedTyped
<1>4. bytes = [i \in 1..k |-> Base + pos + i - 1]
  BY <1>3 DEF ImageByte, InnerOffset
<1>5. pos + k <= Size
  BY <1>2 DEF ReadServed
<1>6. Finish(pos, t, bytes) /\ stats' = stats
  BY DEF ReadServed
<1> HIDE DEF t, bytes
<1>7. /\ bytes \in Seq(Window \cup {Zero}) /\ Len(bytes) = k
      /\ DOMAIN bytes = 1..k
      /\ \A i \in 1..k : bytes[i] = Base + pos + i - 1
  <2>1. bytes \in [1..k -> Window \cup {Zero}]
    BY <1>4, <1>5 DEF Window
  <2>2. k \in Nat
    OBVIOUS
  <2>3. bytes \in Seq(Window \cup {Zero}) /\ Len(bytes) = k /\ DOMAIN bytes = 1..k
    BY <2>1, <2>2, FunctionIsSeq
  <2> QED
    BY <1>4, <2>3
<1>8. /\ out' = bytes /\ at' = pos /\ bad' = bad
      /\ BelievedPositionHeld'
      /\ tol' \in [position : Nat, inner_len : Nat,
                   length : {Larger(Gap + Claimed, Base + Size)}]
      /\ tol'.inner_len = t.inner_len
      /\ part' \in [position : 0..Size, inner_position : Nat \cup {None}]
  <2> HIDE ReadersAssumption, ImageAssumption
  <2>1. pos + Len(bytes) <= Size
    BY <1>5, <1>7
  <2>2. /\ tol' = [position |-> Base + pos + Len(bytes),
                   inner_len |-> t.inner_len, length |-> tol.length]
        /\ out' = bytes /\ at' = pos /\ bad' = bad
        /\ BelievedPositionHeld'
        /\ tol' \in [position : Nat, inner_len : Nat,
                     length : {Larger(Gap + Claimed, Base + Size)}]
        /\ part' \in [position : 0..Size, inner_position : Nat \cup {None}]
    BY <1>1, <1>3, <1>6, <1>7, <2>1, FinishMoves, Zenon
  <2> QED
    BY <2>2
<1>9. TypeOK'
  BY <1>1, <1>6, <1>7, <1>8, ZenonT(60) DEF TypeOK, Carried, Window
<1>10. BytesFromTheirPlace'
  BY <1>7, <1>8 DEF BytesFromTheirPlace
<1>z. ZerosAccounted'
  <2>1. \A i \in 1..k : bytes[i] # Zero
    BY <1>7 DEF Zero
  <2> QED
    BY <1>7, <1>8, <2>1 DEF ZerosAccounted
<1>11. ReasonsKeptApart' /\ EndNeverBeforeBytes'
  BY <1>3, <1>6, <1>8
     DEF IInv, ReasonsKeptApart, EndNeverBeforeBytes, Carried
<1> QED
  BY <1>8, <1>9, <1>10, <1>z, <1>11 DEF IInv

\* An interrupted read moves nothing and returns nothing.
LEMMA InterruptedKeepsInvariant ==
  ASSUME IInv, NEW pos \in 0..Size, NEW n \in 1..MaxRequest,
         ReadInterrupted(pos, n)
  PROVE  IInv'
<1> USE ReadersAssumption, ImageAssumption
<1>1. TypeOK /\ BelievedPositionHeld /\ Passed(pos, n)
  BY DEF IInv, ReadInterrupted
<1>2. ReadStarts(pos, n)
  BY <1>1, AskIsBounded
<1> DEFINE t == Reached(pos)
<1>3. /\ t \in [position : {Base + pos}, inner_len : Nat, length : {tol.length}]
      /\ t.inner_len >= Carried
  BY <1>2, ReachedTyped
<1>4. Finish(pos, t, <<>>) /\ stats' = stats
  BY DEF ReadInterrupted
<1>5. <<>> \in Seq(Window \cup {Zero}) /\ Len(<<>>) = 0
  OBVIOUS
<1> HIDE DEF t
<1>6. /\ out' = <<>> /\ at' = pos /\ bad' = bad
      /\ BelievedPositionHeld'
      /\ tol' \in [position : Nat, inner_len : Nat,
                   length : {Larger(Gap + Claimed, Base + Size)}]
      /\ tol'.inner_len = t.inner_len
      /\ part' \in [position : 0..Size, inner_position : Nat \cup {None}]
  <2> HIDE ReadersAssumption, ImageAssumption
  <2> DEFINE bytes == <<>>
  <2>1. /\ bytes \in Seq(Window \cup {Zero}) /\ pos + Len(bytes) <= Size
        /\ Finish(pos, t, bytes) /\ bytes = <<>>
    BY <1>4, <1>5, ReadersAssumption
  <2> HIDE DEF bytes
  <2>2. /\ tol' = [position |-> Base + pos + Len(bytes),
                   inner_len |-> t.inner_len, length |-> tol.length]
        /\ out' = bytes /\ at' = pos /\ bad' = bad
        /\ BelievedPositionHeld'
        /\ tol' \in [position : Nat, inner_len : Nat,
                     length : {Larger(Gap + Claimed, Base + Size)}]
        /\ part' \in [position : 0..Size, inner_position : Nat \cup {None}]
    BY <1>1, <1>3, <2>1, FinishMoves, ZenonT(60)
  <2> QED
    BY <2>1, <2>2
<1>7. TypeOK'
  BY <1>1, <1>4, <1>5, <1>6, Zenon DEF TypeOK, Carried, Window
<1>8. BytesFromTheirPlace' /\ ZerosAccounted'
  BY <1>6 DEF BytesFromTheirPlace, ZerosAccounted
<1>9. ReasonsKeptApart' /\ EndNeverBeforeBytes'
  BY <1>3, <1>4, <1>6
     DEF IInv, ReasonsKeptApart, EndNeverBeforeBytes, Carried
<1> QED
  BY <1>6, <1>7, <1>8, <1>9 DEF IInv

\* A read at the end of the window only moves the PartitionReader.
LEMMA WindowEndKeepsInvariant ==
  ASSUME IInv, NEW pos \in 0..Size, NEW n \in 1..MaxRequest,
         ReadAtWindowEnd(pos, n)
  PROVE  IInv'
<1>1. /\ part' \in [position : 0..Size, inner_position : Nat \cup {None}]
      /\ part'.inner_position = part.inner_position
      /\ out' = <<>> /\ at' = pos
      /\ bad' = bad /\ tol' = tol /\ stats' = stats
  BY DEF ReadAtWindowEnd, Seeked, PartitionSeek, IInv, TypeOK
<1> QED
  BY <1>1
     DEF IInv, TypeOK, BelievedPositionHeld, BytesFromTheirPlace, ZerosAccounted,
         ReasonsKeptApart, EndNeverBeforeBytes, Carried, Window

\* The stack starts in the invariant.
LEMMA InitInvariant == Init => IInv
  BY ReadersAssumption, ImageAssumption
     DEF Init, IInv, TypeOK, BelievedPositionHeld, BytesFromTheirPlace,
         ZerosAccounted, ReasonsKeptApart, EndNeverBeforeBytes, TolerantInit,
         NothingSubstituted, PartitionInit, Carried, Window, Larger, None

\* Every read keeps it.
LEMMA NextInvariant == IInv /\ [Next]_vars => IInv'
<1> SUFFICES ASSUME IInv, [Next]_vars PROVE IInv'
  OBVIOUS
<1>1. CASE UNCHANGED vars
  BY <1>1
     DEF vars, IInv, TypeOK, BelievedPositionHeld, BytesFromTheirPlace,
         ZerosAccounted, ReasonsKeptApart, EndNeverBeforeBytes, Carried, Window,
         Substituted
<1>2. CASE Next
  <2> PICK pos \in 0..Size, n \in 1..MaxRequest :
        \/ ReadAtWindowEnd(pos, n)
        \/ ReadPastSource(pos, n)
        \/ \E k \in 1..MaxRequest : ReadServed(pos, n, k)
        \/ ReadShortSource(pos, n)
        \/ ReadAbsentHead(pos, n)
        \/ ReadFails(pos, n)
        \/ ReadInterrupted(pos, n)
    BY <1>2 DEF Next
  <2> QED
    BY WindowEndKeepsInvariant, PastSourceKeepsInvariant, ServedKeepsInvariant,
       ShortSourceKeepsInvariant, AbsentHeadKeepsInvariant,
       FailureKeepsInvariant, InterruptedKeepsInvariant
<1> QED
  BY <1>1, <1>2

\* The invariant holds throughout.
LEMMA AlwaysInvariant == Spec => []IInv
  BY InitInvariant, NextInvariant, PTL DEF Spec

\* The state of the stack is always of its type, and nothing outside the window
\* is ever charged.
THEOREM ImageTypeCorrect == Spec => []TypeOK
<1>1. IInv => TypeOK
  BY DEF IInv
<1> QED
  BY <1>1, AlwaysInvariant, PTL

\* PartitionReader.read over a TolerantReader: whatever fails, is interrupted or
\* is missing below, a byte that is not a zero is the byte asked for.
THEOREM ImageBytesFromTheirPlace == Spec => []BytesFromTheirPlace
<1>1. IInv => BytesFromTheirPlace
  BY DEF IInv
<1> QED
  BY <1>1, AlwaysInvariant, PTL

\* TolerantReader.zero_fill: every zero the parser is given for a byte that could
\* not be read is in the report.
THEOREM ImageZerosAccounted == Spec => []ZerosAccounted
<1>1. IInv => ZerosAccounted
  BY DEF IInv
<1> QED
  BY <1>1, AlwaysInvariant, PTL

\* ReadSubstitutions.record: an absent head, a missing tail and a bad sector are
\* never charged to each other's counters.
THEOREM ImageReasonsKeptApart == Spec => []ReasonsKeptApart
<1>1. IInv => ReasonsKeptApart
  BY DEF IInv
<1> QED
  BY <1>1, AlwaysInvariant, PTL

=============================================================================
