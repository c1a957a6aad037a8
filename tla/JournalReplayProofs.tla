------------------------- MODULE JournalReplayProofs -------------------------
(***************************************************************************)
(* Proofs about JournalReplay, for every set of images, every number of    *)
(* filesystem blocks and every ring: the types of the recovery state, that *)
(* the single pass over the log redoes transactions in order, and that the *)
(* report agrees with what a reader sees.                                  *)
(***************************************************************************)
EXTENDS JournalReplay, FiniteInduction, FiniteSetTheorems,
        WellFoundedInduction, TLAPS

-----------------------------------------------------------------------------
(* First and last element of a set of sequence positions.                  *)

\* Strict inclusion of intervals has minimal elements: the library's theorem
\* on finite sets in the form the next two lemmas use it.
LEMMA SmallestSubset ==
  ASSUME NEW I, IsFiniteSet(I), NEW T, T \subseteq SUBSET I, T # {}
  PROVE  \E x \in T : \A y \in T : ~(y \subseteq x /\ y # x)
<1>1. IsWellFoundedOn(StrictSubsetOrdering(I), SUBSET I)
  BY FS_FiniteSubsetsOfFinite, FS_StrictSubsetOrderingWellFounded, ZenonT(60)
<1>2. \E x \in T : \A y \in T : ~(<<y, x>> \in StrictSubsetOrdering(I))
  BY <1>1, WFMin
<1> QED
  BY <1>2, ZenonT(60) DEF StrictSubsetOrdering

\* FirstOf picks the least element: the first tag of a descriptor that
\* process_descriptor stumbles over exists if any tag is faulty.
LEMMA FirstOfIsLeast ==
  ASSUME NEW n \in Nat, NEW S \in SUBSET (1..n), S # {}
  PROVE  FirstOf(S) \in S /\ \A j \in S : FirstOf(S) <= j
<1> DEFINE below(i) == {k \in 1..n : k <= i}
           T == {below(i) : i \in S}
           I == 1..n
<1>0. IsFiniteSet(I)
  BY FS_Interval
<1>1. T \subseteq SUBSET I /\ T # {}
  BY ZenonT(60)
<1> HIDE DEF T, I
<1>2. PICK x \in T : \A y \in T : ~(y \subseteq x /\ y # x)
  BY <1>0, <1>1, SmallestSubset
<1>3. PICK i \in S : x = below(i)
  BY <1>2, Zenon DEF T
<1>4. ASSUME NEW j \in S, j < i PROVE FALSE
  <2>1. below(j) \subseteq below(i) /\ i \in below(i) /\ i \notin below(j)
    BY <1>4
  <2> QED
    BY <2>1, <1>2, <1>3, ZenonT(60) DEF T
<1>5. \A j \in S : i <= j
  BY <1>4
<1> QED
  BY <1>5, ZenonT(60) DEF FirstOf

\* LastOf picks the greatest element: of several writes of one transaction to
\* a block, process_commit keeps the last.
LEMMA LastOfIsGreatest ==
  ASSUME NEW n \in Nat, NEW S \in SUBSET (1..n), S # {}
  PROVE  LastOf(S) \in S /\ \A j \in S : j <= LastOf(S)
<1> DEFINE above(i) == {k \in 1..n : i <= k}
           T == {above(i) : i \in S}
           I == 1..n
<1>0. IsFiniteSet(I)
  BY FS_Interval
<1>1. T \subseteq SUBSET I /\ T # {}
  BY ZenonT(60)
<1> HIDE DEF T, I
<1>2. PICK x \in T : \A y \in T : ~(y \subseteq x /\ y # x)
  BY <1>0, <1>1, SmallestSubset
<1>3. PICK i \in S : x = above(i)
  BY <1>2 DEF T
<1>4. ASSUME NEW j \in S, i < j PROVE FALSE
  <2>1. above(j) \subseteq above(i) /\ i \in above(i) /\ i \notin above(j)
    BY <1>4
  <2> QED
    BY <2>1, <1>2, <1>3, ZenonT(60) DEF T
<1>5. \A j \in S : j <= i
  BY <1>4
<1> QED
  BY <1>5, ZenonT(60) DEF LastOf

-----------------------------------------------------------------------------
(* The ring.                                                               *)

\* next_block and the slots of a descriptor's data blocks are block indices.
LEMMA SlotsAreNat ==
  ASSUME source \in Sources, source.first < source.maxlen, cur \in Nat
  PROVE  next_block(cur) \in Nat /\ \A i \in Nat : DataSlot(i) \in Nat
<1>1. source.first \in Nat /\ source.maxlen \in Nat
  BY DEF Sources
<1>2. next_block(cur) \in Nat
  BY <1>1 DEF next_block
<1>3. ASSUME NEW i \in Nat PROVE DataSlot(i) \in Nat
  <2> DEFINE n == next_block(cur) + i
             k == source.maxlen - source.first + 1
  <2>1. n \in Nat /\ k \in Nat /\ k > 0
    BY <1>1, <1>2
  <2>2. CASE n <= source.maxlen
    BY <2>1, <2>2, <1>1 DEF DataSlot
  <2>3. CASE n > source.maxlen
    <3>1. (n - source.maxlen - 1) % k \in Nat
      BY <2>1, <2>3, <1>1
    <3> QED
      BY <3>1, <2>1, <2>3, <1>1 DEF DataSlot
  <2> QED
    BY <2>1, <2>2, <2>3, <1>1
<1> QED
  BY <1>2, <1>3

-----------------------------------------------------------------------------
(* Types.                                                                  *)

\* What the header of a journal block says decides which fields it has.
LEMMA BlockFields ==
  ASSUME NEW b \in AnyBlock
  PROVE  /\ b.kind = "desc" => b.tags \in Seq(Tags)
         /\ b.kind = "revoke" => b.blocks \in Seq(FsBlocks)
         /\ HasMagic(b) \/ b \in DataBlocks
  BY DEF AnyBlock, Blocks, Superblocks, DataBlocks, HasMagic

\* Every block that can be read from the journal is a journal block.
LEMMA JournalBlocks ==
  ASSUME IsJournal(journal), NEW i \in DOMAIN journal
  PROVE  journal[i] \in AnyBlock
  BY DEF IsJournal, AnyBlock

\* Escaping and the superblock's RECOVER bit aside, a journal block is a
\* filesystem block.
LEMMA PayloadTyped ==
  ASSUME NEW b \in AnyBlock, NEW e \in BOOLEAN
  PROVE  Unescape(Payload(b), e) \in Contents
<1>1. Payload(b) \in Contents
  BY BlockFields, FsAssumption DEF Payload, Contents, DataBlocks
<1> QED
  BY <1>1 DEF Unescape, Contents

\* A function on an initial segment of the positive integers is a sequence.
LEMMA FunctionIsSeq ==
  ASSUME NEW S, NEW n \in Nat, NEW f \in [1..n -> S]
  PROVE  f \in Seq(S) /\ Len(f) = n /\ DOMAIN f = 1..n
  OBVIOUS

\* The elements of a sequence of a set.
LEMMA SeqElement ==
  ASSUME NEW S, NEW s \in Seq(S), NEW n \in 1..Len(s)
  PROVE  s[n] \in S
  OBVIOUS

\* The concatenation of two sequences of a set is one, and begins with the first.
LEMMA JoinedSeq ==
  ASSUME NEW S, NEW s \in Seq(S), NEW t \in Seq(S)
  PROVE  /\ s \o t \in Seq(S)
         /\ Len(s \o t) = Len(s) + Len(t)
         /\ \A i \in 1..Len(s) : (s \o t)[i] = s[i]
  OBVIOUS

\* A descriptor is given up at one of its tags, if at all, and the data blocks
\* of the tags before it can be read.
LEMMA TagWritesTyped ==
  ASSUME TypeOK, AtMember("desc")
  PROVE  /\ TagsRead(journal[cur]) \in 0..Len(journal[cur].tags)
         /\ TagWrites(journal[cur], TagsRead(journal[cur])) \in Seq(Writes)
         /\ Len(TagWrites(journal[cur], TagsRead(journal[cur])))
              = TagsRead(journal[cur])
<1> DEFINE d == journal[cur]
           n == TagsRead(d)
<1>1. d \in AnyBlock /\ d.tags \in Seq(Tags)
  BY JournalBlocks, BlockFields DEF TypeOK, AtMember, AtBlock
<1>2. Len(d.tags) \in Nat /\ DOMAIN d.tags = 1..Len(d.tags)
  BY <1>1
<1>3. FaultyTags(d) \in SUBSET (1..Len(d.tags))
  BY <1>2 DEF FaultyTags
<1> HIDE DEF d
<1>4. n \in 0..Len(d.tags) /\ \A i \in 1..n : i \notin FaultyTags(d)
  <2>1. CASE FaultyTags(d) = {}
    BY <2>1, <1>2 DEF TagsRead
  <2>2. CASE FaultyTags(d) # {}
    <3>1. /\ FirstOf(FaultyTags(d)) \in 1..Len(d.tags)
          /\ \A j \in FaultyTags(d) : FirstOf(FaultyTags(d)) <= j
      BY <2>2, <1>2, <1>3, FirstOfIsLeast, ZenonT(60)
    <3> QED
      BY <3>1, <2>2, <1>2, <1>3 DEF TagsRead
  <2> QED
    BY <2>1, <2>2
<1>5. ASSUME NEW i \in 1..n
      PROVE  /\ DataSlot(i - 1) \in DOMAIN journal
             /\ d.tags[i] \in Tags
  <2>1. i \in DOMAIN d.tags /\ TagFault(d, i) = "none"
    BY <1>2, <1>4 DEF FaultyTags
  <2>2. DataSlot(i - 1) \in DOMAIN journal
    BY <2>1 DEF TagFault
  <2> QED
    BY <2>1, <2>2, <1>1
<1>6. \A i \in 1..n : journal[DataSlot(i - 1)] \in AnyBlock
  BY <1>5, JournalBlocks DEF TypeOK
<1>7. \A i \in 1..n : [fs_block |-> d.tags[i].fs_block,
                       content |-> journal[DataSlot(i - 1)],
                       escape |-> d.tags[i].escape] \in Writes
  BY <1>5, <1>6 DEF Tags, Writes
<1>8. n \in Nat
  BY <1>2, <1>4
<1>9. TagWrites(d, n) \in Seq(Writes) /\ Len(TagWrites(d, n)) = n
  <2> HIDE DEF n
  <2>1. TagWrites(d, n) \in [1..n -> Writes]
    BY <1>7 DEF TagWrites
  <2> QED
    BY <2>1, <1>8, FunctionIsSeq
<1> QED
  BY <1>4, <1>9 DEF d

\* The writes a descriptor adds to the pending transaction (process_descriptor) are
\* typed.
LEMMA AddWritesTyped ==
  ASSUME TypeOK, AtMember("desc")
  PROVE  AddWrites(journal[cur]) \in
           [writes : Seq(Writes), revocations : Seq(FsBlocks),
            descriptor_count : Nat]
<1> DEFINE ws == TagWrites(journal[cur], TagsRead(journal[cur]))
<1>1. ws \in Seq(Writes)
  BY TagWritesTyped
<1> HIDE DEF ws
<1>2. pending.writes \o ws \in Seq(Writes)
  BY <1>1, JoinedSeq DEF TypeOK
<1>3. pending.revocations \in Seq(FsBlocks) /\ pending.descriptor_count \in Nat
  BY DEF TypeOK
<1> QED
  BY <1>2, <1>3 DEF AddWrites, ws

\* The last of the pending writes to a block is a pending write to that block.
LEMMA LastWriteTyped ==
  ASSUME TypeOK, NEW b \in FsBlocks, WritesTo(b) # {}
  PROVE  LastWrite(b) \in Writes /\ LastWrite(b).fs_block = b
<1>1. /\ pending.writes \in Seq(Writes)
      /\ Len(pending.writes) \in Nat
      /\ DOMAIN pending.writes = 1..Len(pending.writes)
  BY DEF TypeOK
<1>2. WritesTo(b) \in SUBSET (1..Len(pending.writes))
  BY <1>1 DEF WritesTo
<1>3. LastOf(WritesTo(b)) \in WritesTo(b)
  BY <1>1, <1>2, LastOfIsGreatest, ZenonT(60)
<1> DEFINE k == LastOf(WritesTo(b))
<1>4. k \in 1..Len(pending.writes) /\ pending.writes[k].fs_block = b
  BY <1>1, <1>3 DEF WritesTo
<1> HIDE DEF k
<1>5. pending.writes[k] \in Writes
  BY <1>1, <1>4, SeqElement
<1> QED
  BY <1>4, <1>5 DEF LastWrite, k

\* Before the journal is opened, the state is typed.
LEMMA InitTypeOK == Init => TypeOK
<1> SUFFICES ASSUME Init PROVE TypeOK
  OBVIOUS
<1> USE DEF Init, Untouched
<1>1. IsImage(image)
  BY ImageAssumption
<1>2. IsJournal(journal)
  BY DEF IsJournal
<1>3. pending \in [writes : Seq(Writes), revocations : Seq(FsBlocks),
                  descriptor_count : Nat]
  BY DEF NoPending
<1>4. 0 \in Seqs
  BY FsAssumption DEF Seqs
<1>5. latest \in [FsBlocks -> [sequence : Seqs \cup {-1},
                              content : AnyBlock \cup {NoWrite},
                              escape : BOOLEAN]]
  BY DEF NoLatest
<1>6. \A b \in FsBlocks : latest[b].sequence = -1
  BY DEF NoLatest
<1> QED
  BY <1>1, <1>2, <1>3, <1>4, <1>5, <1>6 DEF TypeOK

\* Opening the journal.
LEMMA StartWalkTypeOK ==
  ASSUME TypeOK, NEW j, IsJournal(j), Usable(j), NEW how,
         how \in {"inode", "backup", "device"}, StartWalk(j, how)
  PROVE  TypeOK'
<1>1. j[0] \in Superblocks
  BY DEF Usable, IsJournal
<1>2. ParsedSource(j[0]) \in Sources
  BY <1>1 DEF ParsedSource, Sources, Superblocks, checksum_mode
<1>3. ParsedSource(j[0]).first < ParsedSource(j[0]).maxlen
  BY DEF Usable, SuperblockAccepted, ParsedSource
<1>4. j[0].start \in Nat /\ j[0].sequence \in Seqs
  BY <1>1 DEF Superblocks
<1> QED
  BY <1>2, <1>3, <1>4 DEF TypeOK, StartWalk, planVars

\* A failure of the device during opening or walking keeps the types.
LEMMA FailTypeOK ==
  ASSUME TypeOK, Fail
  PROVE  TypeOK'
  BY DEF TypeOK, Fail, openVars, walkVars, planVars

\* A walk that stops keeps everything but the transaction being read.
LEMMA StopHereTypeOK ==
  ASSUME TypeOK, NEW reason, phase = "walk", StopHere(reason),
         pending' \in [writes : Seq(Writes), revocations : Seq(FsBlocks),
                      descriptor_count : Nat]
  PROVE  TypeOK'
  BY DEF TypeOK, StopHere, openVars

\* process_descriptor, process_revocation and process_commit.
LEMMA DescriptorTypeOK ==
  ASSUME TypeOK, process_descriptor
  PROVE  TypeOK'
<1>1. source \in Sources /\ source.first < source.maxlen /\ cur \in Nat
  BY DEF TypeOK, process_descriptor, AtMember, AtBlock
<1>2. Len(journal[cur].tags) \in Nat
  BY JournalBlocks, BlockFields DEF TypeOK, process_descriptor, AtMember, AtBlock
<1>3. cur' \in Nat
  BY <1>1, <1>2, SlotsAreNat, ZenonT(60) DEF process_descriptor
<1>4. pending' \in [writes : Seq(Writes), revocations : Seq(FsBlocks),
                   descriptor_count : Nat]
  BY AddWritesTyped DEF process_descriptor
<1>5. phase' \in {"walk", "apply"} /\ phase = "walk"
  BY DEF process_descriptor, LoopBack, AtMember, AtBlock
<1>6. UNCHANGED <<openVars, expected_seq, committed_meta, latest, revocations,
                  planVars>>
  BY DEF process_descriptor
<1> QED
  BY <1>1, <1>3, <1>4, <1>5, <1>6 DEF TypeOK, openVars, planVars

\* Reading a revocation block (process_revocation) keeps the types.
LEMMA RevocationTypeOK ==
  ASSUME TypeOK, process_revocation
  PROVE  TypeOK'
<1>1. source \in Sources /\ source.first < source.maxlen /\ cur \in Nat
  BY DEF TypeOK, process_revocation, AtMember, AtBlock
<1>2. journal[cur].blocks \in Seq(FsBlocks)
  BY JournalBlocks, BlockFields DEF TypeOK, process_revocation, AtMember, AtBlock
<1>3. cur' \in Nat
  BY <1>1, SlotsAreNat DEF process_revocation
<1>4. pending.revocations \o journal[cur].blocks \in Seq(FsBlocks)
  BY <1>2, JoinedSeq DEF TypeOK
<1>5. pending' \in [writes : Seq(Writes), revocations : Seq(FsBlocks),
                   descriptor_count : Nat]
  BY <1>4 DEF TypeOK, process_revocation
<1>6. phase' \in {"walk", "apply"} /\ phase = "walk"
  BY DEF process_revocation, LoopBack, AtMember, AtBlock
<1>7. UNCHANGED <<openVars, expected_seq, committed_meta, latest, revocations,
                  planVars>>
  BY DEF process_revocation
<1> QED
  BY <1>1, <1>3, <1>5, <1>6, <1>7 DEF TypeOK, openVars, planVars

\* Committing the pending transaction (process_commit) keeps the types.
LEMMA CommitTypeOK ==
  ASSUME TypeOK, process_commit
  PROVE  TypeOK'
<1>0. /\ pending.writes \in Seq(Writes) /\ pending.revocations \in Seq(FsBlocks)
      /\ pending.descriptor_count \in Nat /\ expected_seq \in Seqs
      /\ committed \in Seq(CommittedTx) /\ committed_meta \in Seq(CommittedWrites)
      /\ latest \in [FsBlocks -> [sequence : Seqs \cup {-1},
                                 content : AnyBlock \cup {NoWrite},
                                 escape : BOOLEAN]]
  BY DEF TypeOK
<1>1. source \in Sources /\ source.first < source.maxlen /\ cur \in Nat
  BY DEF process_commit, TypeOK, AtMember, AtBlock
<1>2. cur' \in Nat
  BY <1>1, SlotsAreNat DEF process_commit
<1>3. expected_seq' \in Seqs
  <2>1. expected_seq' = NextSeq(expected_seq)
    BY DEF process_commit
  <2> QED
    BY <2>1, <1>0, FsAssumption, SMTT(20) DEF NextSeq, Seqs
<1>4. pending' \in [writes : Seq(Writes), revocations : Seq(FsBlocks),
                   descriptor_count : Nat]
  <2>1. pending' = NoPending
    BY DEF process_commit
  <2> QED
    BY <2>1, SMTT(20) DEF NoPending
<1>5. revocations' \in [FsBlocks -> Seqs \cup {-1}]
  BY <1>0 DEF process_commit, TypeOK
<1>6. ASSUME NEW b \in FsBlocks
      PROVE  /\ latest'[b] \in [sequence : Seqs \cup {-1},
                                content : AnyBlock \cup {NoWrite},
                                escape : BOOLEAN]
             /\ latest'[b].sequence # -1 => latest'[b].content \in AnyBlock
  <2>1. CASE WritesTo(b) = {}
    BY <2>1 DEF process_commit, TypeOK
  <2>2. CASE WritesTo(b) # {}
    <3>1. LastWrite(b) \in Writes
      BY <2>2, LastWriteTyped
    <3> QED
      BY <2>2, <3>1, <1>0 DEF process_commit, Writes
  <2> QED
    BY <2>1, <2>2
<1>7. latest' \in [FsBlocks -> [sequence : Seqs \cup {-1},
                               content : AnyBlock \cup {NoWrite},
                               escape : BOOLEAN]]
  <2>1. latest' = [b \in FsBlocks |-> latest'[b]]
    BY DEF process_commit
  <2> QED
    BY <2>1, <1>6
<1>8. committed' \in Seq(CommittedTx)
  <2>1. Len(pending.revocations) \in Nat
    BY <1>0
  <2> DEFINE tx == [sequence |-> expected_seq,
                    data_blocks_applied |-> 0, data_blocks_revoked |-> 0,
                    data_blocks_escaped |-> 0,
                    revocation_entries |-> Len(pending.revocations),
                    descriptor_blocks |-> pending.descriptor_count]
  <2>2. tx \in CommittedTx
    BY <2>1, <1>0 DEF CommittedTx
  <2>3. committed' = Append(committed, tx)
    BY DEF process_commit
  <2> HIDE DEF tx
  <2> QED
    BY <2>2, <2>3, <1>0
<1>9. committed_meta' \in Seq(CommittedWrites)
  <2> DEFINE ms == [i \in DOMAIN pending.writes |->
                      [fs_block |-> pending.writes[i].fs_block,
                       sequence |-> expected_seq,
                       tx_index |-> Len(committed) + 1,
                       escape |-> pending.writes[i].escape]]
  <2>1. DOMAIN pending.writes = 1..Len(pending.writes) /\ Len(pending.writes) \in Nat
    BY <1>0
  <2>2. \A i \in DOMAIN pending.writes : pending.writes[i] \in Writes
    BY <1>0, <2>1, SeqElement
  <2>3. Len(committed) + 1 \in Nat
    BY <1>0
  <2>4. \A i \in DOMAIN pending.writes : ms[i] \in CommittedWrites
    BY <2>2, <2>3, <1>0 DEF Writes, CommittedWrites
  <2>5. ms \in [1..Len(pending.writes) -> CommittedWrites]
    BY <2>1, <2>4, ZenonT(60)
  <2>6. committed_meta' = committed_meta \o ms
    BY DEF process_commit
  <2> HIDE DEF ms
  <2>7. ms \in Seq(CommittedWrites)
    BY <2>1, <2>5, FunctionIsSeq, Zenon
  <2> QED
    BY <2>6, <2>7, <1>0, JoinedSeq
<1>10. phase' \in {"walk", "apply"} /\ phase = "walk"
  BY Zenon DEF process_commit, LoopBack, AtMember, AtBlock
<1>11. UNCHANGED <<openVars, stop, summary, overlay>>
  BY DEF process_commit
<1> QED
  BY <1>1, <1>2, <1>3, <1>4, <1>5, <1>6, <1>7, <1>8, <1>9, <1>10, <1>11
     DEF TypeOK, openVars

\* The positions of the committed writes are finitely many.
LEMMA WritesOfFinite ==
  ASSUME TypeOK, NEW k
  PROVE  IsFiniteSet(WritesOf(k))
<1>1. DOMAIN committed_meta = 1..Len(committed_meta) /\ Len(committed_meta) \in Nat
  BY DEF TypeOK
<1>2. IsFiniteSet(1..Len(committed_meta))
  BY <1>1, FS_Interval
<1>3. WritesOf(k) \in SUBSET (1..Len(committed_meta))
  BY <1>1 DEF WritesOf
<1> QED
  BY <1>2, <1>3, FS_Subset

\* What apply_pass counts for a transaction (applied, suppressed, out of range) is
\* typed.
LEMMA AccountTyped ==
  ASSUME TypeOK, NEW k \in DOMAIN committed
  PROVE  Account(k) \in CommittedTx
<1> DEFINE live == {i \in WritesOf(k) : ~SuppressedWrite(i)}
           gone == WritesOf(k) \ live
           escaped == {i \in live : committed_meta[i].escape}
<1>1. committed[k] \in CommittedTx
  BY SeqElement DEF TypeOK
<1>2. /\ live \in SUBSET WritesOf(k)
      /\ gone \in SUBSET WritesOf(k)
      /\ escaped \in SUBSET WritesOf(k)
  OBVIOUS
<1>3. Account(k) = [committed[k] EXCEPT
                      !.data_blocks_applied = Cardinality(live),
                      !.data_blocks_revoked = Cardinality(gone),
                      !.data_blocks_escaped = Cardinality(escaped)]
  BY DEF Account
<1> HIDE DEF live, gone, escaped
<1>4. IsFiniteSet(live) /\ IsFiniteSet(gone) /\ IsFiniteSet(escaped)
  BY <1>2, WritesOfFinite, FS_Subset
<1>5. /\ Cardinality(live) \in Nat
      /\ Cardinality(gone) \in Nat
      /\ Cardinality(escaped) \in Nat
  BY <1>4, FS_CardinalityType
<1> QED
  BY <1>1, <1>3, <1>5, ZenonT(60) DEF CommittedTx

\* What the overlay shows for a block is a filesystem block.
LEMMA ShownTyped ==
  ASSUME TypeOK, NEW b \in FsBlocks
  PROVE  /\ Shown(b) => ShownContent(b) \in Contents
         /\ ~Shown(b) => ShownContent(b) = NoWrite
<1>1. CASE Shown(b)
  <2>1. latest[b].content \in AnyBlock /\ latest[b].escape \in BOOLEAN
    BY <1>1 DEF Shown, TypeOK
  <2> QED
    BY <1>1, <2>1, PayloadTyped DEF ShownContent
<1> QED
  BY <1>1 DEF ShownContent

\* Building the overlay (apply_pass) keeps the types.
LEMMA ApplyTypeOK ==
  ASSUME TypeOK, apply_pass
  PROVE  TypeOK'
<1>1. committed' \in Seq(CommittedTx)
  <2>1. DOMAIN committed = 1..Len(committed) /\ Len(committed) \in Nat
    BY DEF TypeOK
  <2>2. committed' \in [1..Len(committed) -> CommittedTx]
    BY <2>1, AccountTyped DEF apply_pass
  <2> QED
    BY <2>1, <2>2, FunctionIsSeq
<1>2. \A b \in FsBlocks : ShownContent(b) \in Contents \cup {NoWrite}
  BY ShownTyped
<1>3. overlay'.blocks \in [FsBlocks -> Contents \cup {NoWrite}]
  BY <1>2 DEF apply_pass
<1>4. overlay'.sb_host \in Contents
  <2> DEFINE c == IF SbStashed THEN ShownContent(SbHostBlock)
                  ELSE image.disk[SbHostBlock]
  <2>1. c \in Contents
    BY ShownTyped, FsAssumption DEF SbStashed, TypeOK, IsImage
  <2>2. overlay'.sb_host = ClearRecover(c)
    BY DEF apply_pass
  <2> HIDE DEF c
  <2> QED
    BY <2>1, <2>2, ZenonT(60) DEF ClearRecover, Contents
<1>5. overlay' = [blocks |-> overlay'.blocks, sb_host |-> overlay'.sb_host]
  BY DEF apply_pass
<1>6. overlay' \in [blocks : [FsBlocks -> Contents \cup {NoWrite}],
                   sb_host : Contents]
  BY <1>3, <1>4, <1>5
<1>7. phase = "apply" /\ phase' = "done" /\ UNCHANGED <<openVars, walkVars, stop>>
  BY DEF apply_pass
<1> QED
  BY <1>1, <1>6, <1>7 DEF TypeOK, openVars, walkVars

\* Every step of recovery keeps the types.
LEMMA NextTypeOK == TypeOK /\ [Next]_vars => TypeOK'
<1> SUFFICES ASSUME TypeOK, [Next]_vars PROVE TypeOK'
  OBVIOUS
<1>0. pending \in [writes : Seq(Writes), revocations : Seq(FsBlocks),
                  descriptor_count : Nat]
  BY DEF TypeOK
<1>1. CASE OpenThroughInode
  BY <1>1, StartWalkTypeOK DEF OpenThroughInode, TypeOK, IsImage
<1>2. CASE OpenThroughBackup
  BY <1>2, StartWalkTypeOK, Zenon DEF OpenThroughBackup, TypeOK, IsImage
<1>3. CASE OpenThroughDevice
  BY <1>3, StartWalkTypeOK DEF OpenThroughDevice, DeviceUsable, TypeOK, IsImage
<1>4. CASE OpenFails \/ DeviceEnds \/ ReadFails
  BY <1>4, FailTypeOK DEF OpenFails, DeviceEnds, ReadFails
<1>5. CASE WalkEof
  BY <1>0, <1>5, StopHereTypeOK DEF WalkEof
<1>6. CASE WalkBadMagic
  BY <1>0, <1>6, StopHereTypeOK DEF WalkBadMagic, AtBlock
<1>7. CASE WalkBadSequence
  BY <1>0, <1>7, StopHereTypeOK DEF WalkBadSequence, AtBlock
<1>8. CASE process_descriptor
  BY <1>8, DescriptorTypeOK
<1>9. CASE StopAtDescriptor
  BY <1>9, StopHereTypeOK, AddWritesTyped DEF StopAtDescriptor, AtMember, AtBlock
<1>10. CASE process_revocation
  BY <1>10, RevocationTypeOK
<1>11. CASE StopAtRevocation
  BY <1>0, <1>11, StopHereTypeOK DEF StopAtRevocation, AtMember, AtBlock
<1>12. CASE process_commit
  BY <1>12, CommitTypeOK
<1>13. CASE StopAtCommit
  BY <1>0, <1>13, StopHereTypeOK DEF StopAtCommit, AtMember, AtBlock
<1>14. CASE apply_pass
  BY <1>14, ApplyTypeOK
<1>15. CASE UNCHANGED vars
  BY <1>15 DEF TypeOK, vars, openVars, walkVars, planVars
<1> QED
  BY <1>1, <1>2, <1>3, <1>4, <1>5, <1>6, <1>7, <1>8, <1>9, <1>10, <1>11,
     <1>12, <1>13, <1>14, <1>15 DEF Next, Recover

\* Whatever the journal holds, WalkState, ReplayPlan and BlockOverlay keep the
\* types that replay.rs gives them.
THEOREM TypeCorrect == Spec => []TypeOK
<1> QED
  BY InitTypeOK, NextTypeOK, PTL DEF Spec

-----------------------------------------------------------------------------
(* The walk redoes transactions in order.                                  *)

\* Nothing is recorded before the walk.
LEMMA InitRecordedIsOlder == Init => RecordedIsOlder
  BY FsAssumption DEF Init, Untouched, RecordedIsOlder, NoLatest

\* A step that leaves the maps and the expected number alone keeps the order.
LEMMA RecordedIsOlderKept ==
  ASSUME RecordedIsOlder, phase' # "open",
         UNCHANGED <<expected_seq, latest, revocations>>
  PROVE  RecordedIsOlder'
  BY DEF RecordedIsOlder

\* A commit (process_commit) records its own number and moves on to the next one.
LEMMA CommitRecordedIsOlder ==
  ASSUME TypeOK, RecordedIsOlder, NoWrap, process_commit
  PROVE  RecordedIsOlder'
<1>1. expected_seq \in Nat /\ expected_seq' = expected_seq + 1
  <2>1. expected_seq \in 0..(TidLimit - 1) /\ TidLimit \in Nat
    BY FsAssumption DEF TypeOK, Seqs
  <2>2. expected_seq + 1 \in 0..(TidLimit - 1)
    BY <2>1 DEF NoWrap
  <2>3. (expected_seq + 1) % TidLimit = expected_seq + 1
    BY <2>1, <2>2, SMTT(20)
  <2>4. expected_seq' = NextSeq(expected_seq)
    BY DEF process_commit
  <2> QED
    BY <2>1, <2>3, <2>4 DEF NextSeq
<1>2. phase' # "open"
  BY DEF process_commit, LoopBack
<1>3. ASSUME NEW b \in FsBlocks
      PROVE  latest'[b].sequence < expected_seq' /\ revocations'[b] < expected_seq'
  <2>1. latest[b].sequence \in Int /\ revocations[b] \in Int
    BY FsAssumption, SMTT(20) DEF TypeOK, Seqs
  <2>2. revocations'[b] \in {expected_seq, revocations[b]}
    BY DEF process_commit
  <2>3. latest'[b].sequence \in {expected_seq, latest[b].sequence}
    BY DEF process_commit
  <2> QED
    BY <2>1, <2>2, <2>3, <1>1, SMTT(20) DEF RecordedIsOlder
<1> QED
  BY <1>2, <1>3 DEF RecordedIsOlder

\* The walk starts with nothing recorded (WalkState::new).
LEMMA StartWalkRecordedIsOlder ==
  ASSUME TypeOK, RecordedIsOlder, phase = "open",
         NEW j, NEW how, IsJournal(j), Usable(j), StartWalk(j, how)
  PROVE  RecordedIsOlder'
<1>1. expected_seq' \in Nat
  BY FsAssumption DEF StartWalk, Usable, IsJournal, Superblocks, Seqs
<1>2. phase' # "open"
  BY ZenonT(60) DEF StartWalk
<1>3. latest' = latest /\ revocations' = revocations
  BY ZenonT(60) DEF StartWalk
<1>4. \A b \in FsBlocks : latest[b].sequence = -1 /\ revocations[b] = -1
  BY ZenonT(60) DEF RecordedIsOlder
<1>5. \A b \in FsBlocks : latest'[b].sequence = -1 /\ revocations'[b] = -1
  BY <1>3, <1>4, ZenonT(60)
<1>6. \A b \in FsBlocks :
        latest'[b].sequence < expected_seq' /\ revocations'[b] < expected_seq'
  BY <1>1, <1>5, SMTT(30)
<1> QED
  BY <1>2, <1>6, ZenonT(60) DEF RecordedIsOlder

\* While the number of the transaction being read does not wrap, every step keeps
\* RecordedIsOlder.
LEMMA NextRecordedIsOlder ==
  TypeOK /\ RecordedIsOlder /\ NoWrap /\ [Next]_vars => RecordedIsOlder'
<1> SUFFICES ASSUME TypeOK, RecordedIsOlder, NoWrap, [Next]_vars
             PROVE  RecordedIsOlder'
  BY Zenon
<1>1. CASE OpenThroughInode
  BY <1>1, StartWalkRecordedIsOlder, Zenon DEF OpenThroughInode, TypeOK, IsImage
<1>2. CASE OpenThroughBackup
  BY <1>2, StartWalkRecordedIsOlder, Zenon DEF OpenThroughBackup, TypeOK, IsImage
<1>3. CASE OpenThroughDevice
  BY <1>3, StartWalkRecordedIsOlder, Zenon
     DEF OpenThroughDevice, DeviceUsable, TypeOK, IsImage
<1>4. CASE OpenFails \/ DeviceEnds \/ ReadFails
  BY <1>4, RecordedIsOlderKept DEF OpenFails, DeviceEnds, ReadFails, Fail, walkVars
<1>5. CASE WalkEof \/ WalkBadMagic \/ WalkBadSequence
  BY <1>5, RecordedIsOlderKept DEF WalkEof, WalkBadMagic, WalkBadSequence, StopHere
<1>6. CASE StopAtDescriptor \/ StopAtRevocation \/ StopAtCommit
  BY <1>6, RecordedIsOlderKept
     DEF StopAtDescriptor, StopAtRevocation, StopAtCommit, StopHere
<1>7. CASE process_descriptor
  BY <1>7, RecordedIsOlderKept DEF process_descriptor, LoopBack
<1>8. CASE process_revocation
  BY <1>8, RecordedIsOlderKept DEF process_revocation, LoopBack
<1>9. CASE process_commit
  BY <1>9, CommitRecordedIsOlder
<1>10. CASE apply_pass
  BY <1>10, RecordedIsOlderKept DEF apply_pass, walkVars
<1>11. CASE UNCHANGED vars
  BY <1>11 DEF RecordedIsOlder, vars, walkVars
<1> QED
  BY <1>1, <1>2, <1>3, <1>4, <1>5, <1>6, <1>7, <1>8, <1>9, <1>10, <1>11 DEF Next, Recover

\* Nothing is pending when the log is not being walked.
LEMMA NothingOpen ==
  ASSUME phase # "walk"
  PROVE  /\ [b \in FsBlocks |-> PendingContent(b)] = Redo!Empty
         /\ (IF phase = "walk" THEN {b \in FsBlocks : Revoked(b)} ELSE {}) = {}
  BY DEF PendingContent, Redo!Empty

\* ... and so does every next state in which nothing is pending.
LEMMA NothingOpenNext ==
  ASSUME phase' # "walk"
  PROVE  /\ [b \in FsBlocks |-> PendingContent(b)]' = Redo!Empty
         /\ (IF phase = "walk" THEN {b \in FsBlocks : Revoked(b)} ELSE {})' = {}
  BY DEF PendingContent, Redo!Empty

\* A step that leaves the two maps alone leaves the redone contents alone.
LEMMA RedoneKept ==
  ASSUME UNCHANGED <<latest, revocations>>
  PROVE  [b \in FsBlocks |-> ShownContent(b)]' = [b \in FsBlocks |-> ShownContent(b)]
  BY DEF ShownContent, Shown, Suppressed

\* The log ends, for whatever reason: the open transaction is dropped.
LEMMA EndIsStop ==
  ASSUME phase \in {"open", "walk"}, phase' \in {"apply", "failed"},
         UNCHANGED <<latest, revocations>>
  PROVE  Redo!Stop
  BY NothingOpenNext, RedoneKept DEF Redo!Stop

\* Nothing is redone once the log has ended.
LEMMA AfterEndStutters ==
  ASSUME phase \notin {"open", "walk"}, phase' \notin {"open", "walk"},
         UNCHANGED <<latest, revocations>>
  PROVE  UNCHANGED Redo!vars
<1>1. /\ [b \in FsBlocks |-> PendingContent(b)]' = [b \in FsBlocks |-> PendingContent(b)]
      /\ (IF phase = "walk" THEN {b \in FsBlocks : Revoked(b)} ELSE {})'
           = (IF phase = "walk" THEN {b \in FsBlocks : Revoked(b)} ELSE {})
  BY NothingOpen, NothingOpenNext
<1> QED
  BY <1>1, RedoneKept DEF Redo!vars

\* Opening a dirty journal redoes nothing; a clean one ends at once.
LEMMA OpenRefines ==
  ASSUME RecordedIsOlder, phase = "open", NEW j, NEW how, StartWalk(j, how)
  PROVE  Redo!Next \/ UNCHANGED Redo!vars
<1>1. UNCHANGED <<latest, revocations>> /\ phase' \in {"walk", "apply"}
  BY DEF StartWalk
<1>2. CASE phase' = "apply"
  BY <1>1, <1>2, EndIsStop DEF Redo!Next
<1>3. CASE phase' = "walk"
  <2>1. pending = NoPending /\ pending' = NoPending
    BY DEF RecordedIsOlder, StartWalk
  <2>2. \A b \in FsBlocks : PendingContent(b) = NoWrite /\ PendingContent(b)' = NoWrite
    BY <2>1, SMTT(30) DEF PendingContent, WritesTo, NoPending
  <2>3. {b \in FsBlocks : Revoked(b)}' = {}
    BY <2>1 DEF Revoked, NoPending
  <2>4. (IF phase = "walk" THEN {b \in FsBlocks : Revoked(b)} ELSE {})'
          = (IF phase = "walk" THEN {b \in FsBlocks : Revoked(b)} ELSE {})
    BY <2>3, <1>3
  <2>5. [b \in FsBlocks |-> PendingContent(b)]' = [b \in FsBlocks |-> PendingContent(b)]
    BY <2>2
  <2> QED
    BY <1>1, <1>3, <2>4, <2>5, RedoneKept DEF Redo!vars
<1> QED
  BY <1>1, <1>2, <1>3

\* What is pending for a block is a filesystem block.
LEMMA PendingTyped ==
  ASSUME TypeOK, NEW b \in FsBlocks
  PROVE  /\ phase = "walk" /\ WritesTo(b) # {} => PendingContent(b) \in Contents
         /\ ~(phase = "walk" /\ WritesTo(b) # {}) => PendingContent(b) = NoWrite
<1>1. CASE phase = "walk" /\ WritesTo(b) # {}
  <2>1. LastWrite(b) \in Writes
    BY <1>1, LastWriteTyped
  <2>2. LastWrite(b).content \in AnyBlock /\ LastWrite(b).escape \in BOOLEAN
    BY <2>1 DEF Writes
  <2> QED
    BY <1>1, <2>2, PayloadTyped DEF PendingContent
<1> QED
  BY <1>1 DEF PendingContent

\* The open transaction only grows while its blocks are read.
LEMMA LogStep ==
  ASSUME TypeOK, TypeOK', phase = "walk", phase' = "walk",
         UNCHANGED <<latest, revocations>>,
         \A b \in FsBlocks : WritesTo(b) # {} => WritesTo(b)' # {},
         \A b \in FsBlocks : Revoked(b) => Revoked(b)'
  PROVE  Redo!Log
<1>1. ASSUME NEW b \in FsBlocks
      PROVE  /\ PendingContent(b)' \in Contents \cup {NoWrite}
             /\ PendingContent(b) # NoWrite => PendingContent(b)' # NoWrite
  <2>1. (phase = "walk" /\ WritesTo(b) # {} => PendingContent(b) \in Contents)'
    BY PendingTyped, PTL
  <2>2. (~(phase = "walk" /\ WritesTo(b) # {}) => PendingContent(b) = NoWrite)'
    BY PendingTyped, PTL
  <2>3. PendingContent(b) # NoWrite => WritesTo(b) # {}
    BY PendingTyped
  <2> QED
    BY <2>1, <2>2, <2>3, FsAssumption
<1> DEFINE W == [b \in FsBlocks |-> PendingContent(b)]
<1>2. W' \in [FsBlocks -> Contents \cup {NoWrite}]
  BY <1>1
<1>3. \A b \in FsBlocks : W[b] # NoWrite => W'[b] # NoWrite
  BY <1>1
<1> DEFINE R == IF phase = "walk" THEN {b \in FsBlocks : Revoked(b)} ELSE {}
<1>4. R \subseteq R' /\ R' \subseteq FsBlocks
  OBVIOUS
<1>5. (phase \notin {"open", "walk"})' = (phase \notin {"open", "walk"})
  OBVIOUS
<1> QED
  BY <1>2, <1>3, <1>4, <1>5, RedoneKept DEF Redo!Log

\* Positions of writes survive when the sequence of pending writes is extended.
LEMMA WritesToGrows ==
  ASSUME TypeOK, NEW ws \in Seq(Writes), pending'.writes = pending.writes \o ws,
         NEW b \in FsBlocks, WritesTo(b) # {}
  PROVE  WritesTo(b)' # {}
<1>1. pending.writes \in Seq(Writes)
  BY DEF TypeOK
<1>2. PICK i \in 1..Len(pending.writes) : pending.writes[i].fs_block = b
  BY <1>1 DEF WritesTo
<1>3. /\ i \in DOMAIN pending'.writes
      /\ pending'.writes[i] = pending.writes[i]
  BY <1>1, <1>2, JoinedSeq
<1> QED
  BY <1>2, <1>3 DEF WritesTo

\* A descriptor (process_descriptor) adds writes to the open transaction of the
\* abstract log.
LEMMA DescriptorRefines ==
  ASSUME TypeOK, TypeOK', process_descriptor
  PROVE  Redo!Next
<1>1. phase = "walk" /\ phase' \in {"walk", "apply"} /\ UNCHANGED <<latest, revocations>>
  BY DEF process_descriptor, AtMember, AtBlock, LoopBack
<1>2. CASE phase' = "apply"
  BY <1>1, <1>2, EndIsStop DEF Redo!Next
<1>3. CASE phase' = "walk"
  <2> DEFINE ws == TagWrites(journal[cur], TagsRead(journal[cur]))
  <2>1. ws \in Seq(Writes)
    BY TagWritesTyped DEF process_descriptor
  <2>2. pending'.writes = pending.writes \o ws /\ pending'.revocations = pending.revocations
    BY ZenonT(60) DEF process_descriptor, AddWrites
  <2> HIDE DEF ws
  <2>3. \A b \in FsBlocks : WritesTo(b) # {} => WritesTo(b)' # {}
    BY <2>1, <2>2, WritesToGrows, Zenon
  <2>4. \A b \in FsBlocks : Revoked(b) => Revoked(b)'
    BY <2>2 DEF Revoked
  <2> QED
    BY <1>1, <1>3, <2>3, <2>4, LogStep DEF Redo!Next
<1> QED
  BY <1>1, <1>2, <1>3

\* A revocation block (process_revocation) adds revocations to the open transaction.
LEMMA RevocationRefines ==
  ASSUME TypeOK, TypeOK', process_revocation
  PROVE  Redo!Next
<1>1. phase = "walk" /\ phase' \in {"walk", "apply"} /\ UNCHANGED <<latest, revocations>>
  BY DEF process_revocation, AtMember, AtBlock, LoopBack
<1>2. CASE phase' = "apply"
  BY <1>1, <1>2, EndIsStop DEF Redo!Next
<1>3. CASE phase' = "walk"
  <2> DEFINE bs == journal[cur].blocks
  <2>1. bs \in Seq(FsBlocks) /\ pending.revocations \in Seq(FsBlocks)
    BY JournalBlocks, BlockFields DEF TypeOK, process_revocation, AtMember, AtBlock
  <2>2. pending'.revocations = pending.revocations \o bs /\ pending'.writes = pending.writes
    BY ZenonT(60) DEF process_revocation
  <2> HIDE DEF bs
  <2>3. \A b \in FsBlocks : WritesTo(b) # {} => WritesTo(b)' # {}
    BY <2>2 DEF WritesTo
  <2>4. ASSUME NEW b \in FsBlocks, Revoked(b) PROVE Revoked(b)'
    <3>1. PICK i \in 1..Len(pending.revocations) : pending.revocations[i] = b
      BY <2>1, <2>4 DEF Revoked
    <3>2. i \in DOMAIN pending'.revocations /\ pending'.revocations[i] = b
      BY <2>1, <2>2, <3>1, JoinedSeq
    <3> QED
      BY <3>2 DEF Revoked
  <2> QED
    BY <1>1, <1>3, <2>3, <2>4, LogStep, Zenon DEF Redo!Next
<1> QED
  BY <1>1, <1>2, <1>3

\* A commit redoes its transaction and nothing else.  The writes it installs
\* carry its own number, which no revocation exceeds; the revocations it
\* installs exceed the number of every earlier write.
LEMMA CommitRefines ==
  ASSUME TypeOK, RecordedIsOlder, process_commit
  PROVE  Redo!Commit
<1>1. phase = "walk" /\ phase' \in {"walk", "apply"} /\ pending' = NoPending
  BY ZenonT(60) DEF process_commit, AtMember, AtBlock, LoopBack
<1>2. expected_seq \in Nat
  BY FsAssumption DEF TypeOK, Seqs
<1>3. ASSUME NEW b \in FsBlocks
      PROVE  ShownContent(b)' =
               IF PendingContent(b) # NoWrite THEN PendingContent(b)
               ELSE IF Revoked(b) THEN NoWrite
               ELSE ShownContent(b)
  <2>0. latest[b].sequence \in Int /\ revocations[b] \in Int
    BY FsAssumption DEF TypeOK, Seqs
  <2>1. revocations'[b] = IF Revoked(b) THEN expected_seq ELSE revocations[b]
    BY <2>0, <1>2, ZenonT(60) DEF process_commit, RecordedIsOlder
  <2>2. revocations'[b] <= expected_seq
    BY <2>0, <2>1, <1>2 DEF RecordedIsOlder
  <2>3. CASE WritesTo(b) # {}
    <3>1. PendingContent(b) \in Contents /\ PendingContent(b) # NoWrite
      BY <1>1, <2>3, PendingTyped, FsAssumption
    <3>2. latest'[b] = [sequence |-> expected_seq,
                        content |-> LastWrite(b).content,
                        escape |-> LastWrite(b).escape]
      BY <2>3, ZenonT(60) DEF process_commit
    <3>3. Shown(b)'
      BY <3>2, <2>2, <2>0, <2>1, <1>2, SMTT(30) DEF Shown, Suppressed
    <3>4. ShownContent(b)' = PendingContent(b)
      <4>1. /\ latest'[b].content = LastWrite(b).content
            /\ latest'[b].escape = LastWrite(b).escape
        BY <3>2, SMTT(30)
      <4>2. ShownContent(b)'
              = Unescape(Payload(latest'[b].content), latest'[b].escape)
        BY <3>3, ZenonT(60) DEF ShownContent
      <4>3. PendingContent(b)
              = Unescape(Payload(LastWrite(b).content), LastWrite(b).escape)
        BY <1>1, <2>3, ZenonT(60) DEF PendingContent
      <4> QED
        BY <4>1, <4>2, <4>3, ZenonT(60)
    <3> QED
      BY <3>1, <3>4
  <2>4. CASE WritesTo(b) = {}
    <3>1. PendingContent(b) = NoWrite
      BY <2>4 DEF PendingContent
    <3>2. latest'[b] = latest[b]
      BY <2>4, <2>0, ZenonT(60) DEF process_commit, TypeOK
    <3>3. CASE Revoked(b)
      <4>1. ~Shown(b)'
        BY <3>2, <3>3, <2>1, <2>0, <1>2 DEF Shown, Suppressed, RecordedIsOlder
      <4> QED
        BY <4>1, <3>1, <3>3 DEF ShownContent
    <3>4. CASE ~Revoked(b)
      <4>1. revocations'[b] = revocations[b]
        BY <3>4, <2>1
      <4>2. ShownContent(b)' = ShownContent(b)
        BY <4>1, <3>2 DEF ShownContent, Shown, Suppressed
      <4> QED
        BY <4>2, <3>1, <3>4
    <3> QED
      BY <3>3, <3>4
  <2> QED
    BY <2>3, <2>4
<1>4. \A b \in FsBlocks : PendingContent(b)' = NoWrite
  BY <1>1 DEF PendingContent, WritesTo, NoPending
<1>5. {b \in FsBlocks : Revoked(b)}' = {}
  BY <1>1 DEF Revoked, NoPending
<1>6. (IF phase = "walk" THEN {b \in FsBlocks : Revoked(b)} ELSE {})' = {}
  BY <1>5
<1>7. [b \in FsBlocks |-> PendingContent(b)]' = Redo!Empty
  BY <1>4 DEF Redo!Empty
<1>8. [b \in FsBlocks |-> ShownContent(b)]' =
        [b \in FsBlocks |->
           IF [c \in FsBlocks |-> PendingContent(c)][b] # NoWrite
           THEN [c \in FsBlocks |-> PendingContent(c)][b]
           ELSE IF b \in (IF phase = "walk" THEN {c \in FsBlocks : Revoked(c)} ELSE {})
                THEN NoWrite
           ELSE [c \in FsBlocks |-> ShownContent(c)][b]]
  BY <1>1, <1>3
<1> QED
  BY <1>1, <1>6, <1>7, <1>8 DEF Redo!Commit

\* The walk starts where the abstract redo starts.
LEMMA InitRefines == Init => Redo!Init
<1> SUFFICES ASSUME Init PROVE Redo!Init
  OBVIOUS
<1>1. phase # "walk"
  BY DEF Init
<1>2. \A b \in FsBlocks : ShownContent(b) = NoWrite
  BY DEF Init, Untouched, NoLatest, ShownContent, Shown
<1>3. [b \in FsBlocks |-> ShownContent(b)] = Redo!Empty
  BY <1>2 DEF Redo!Empty
<1>4. (phase \notin {"open", "walk"}) \in BOOLEAN
  OBVIOUS
<1> QED
  BY <1>1, <1>3, <1>4, NothingOpen DEF Redo!Init

\* Every step of the walk is a step of the abstract redo, or leaves it alone.
LEMMA NextRefines ==
  TypeOK /\ TypeOK' /\ RecordedIsOlder /\ [Next]_vars => [Redo!Next]_(Redo!vars)
<1> SUFFICES ASSUME TypeOK, TypeOK', RecordedIsOlder, [Next]_vars
             PROVE  Redo!Next \/ UNCHANGED Redo!vars
  OBVIOUS
<1>1. CASE OpenThroughInode
  BY <1>1, OpenRefines DEF OpenThroughInode
<1>2. CASE OpenThroughBackup
  BY <1>2, OpenRefines DEF OpenThroughBackup
<1>3. CASE OpenThroughDevice
  BY <1>3, OpenRefines DEF OpenThroughDevice
<1>4. CASE OpenFails \/ DeviceEnds
  BY <1>4, EndIsStop, Zenon
     DEF OpenFails, DeviceEnds, AtMember, AtBlock, Fail, walkVars, Redo!Next
<1>5. CASE WalkEof \/ WalkBadMagic \/ WalkBadSequence
  BY <1>5, EndIsStop, Zenon
     DEF WalkEof, WalkBadMagic, WalkBadSequence, AtBlock, StopHere, Redo!Next
<1>6. CASE StopAtDescriptor \/ StopAtRevocation \/ StopAtCommit
  BY <1>6, EndIsStop
     DEF StopAtDescriptor, StopAtRevocation, StopAtCommit, AtMember, AtBlock,
         StopHere, Redo!Next
<1>7. CASE process_descriptor
  BY <1>7, DescriptorRefines
<1>8. CASE process_revocation
  BY <1>8, RevocationRefines
<1>9. CASE process_commit
  BY <1>9, CommitRefines DEF Redo!Next
<1>10. CASE apply_pass
  BY <1>10, AfterEndStutters, ZenonT(60) DEF apply_pass, walkVars
<1>11. CASE ReadFails
  <2>1. phase' = "failed" /\ UNCHANGED <<latest, revocations>>
    BY <1>11 DEF ReadFails, Fail, walkVars
  <2>2. CASE phase \in {"open", "walk"}
    BY <2>1, <2>2, EndIsStop DEF Redo!Next
  <2>3. CASE phase = "apply"
    BY <2>1, <2>3, AfterEndStutters
  <2> QED
    BY <1>11, <2>2, <2>3 DEF ReadFails
<1>12. CASE UNCHANGED vars
  <2>1. UNCHANGED <<phase, pending, latest, revocations>>
    BY <1>12 DEF vars, walkVars
  <2>2. [b \in FsBlocks |-> PendingContent(b)]' = [b \in FsBlocks |-> PendingContent(b)]
    BY <2>1 DEF PendingContent, WritesTo, LastWrite
  <2>3. (IF phase = "walk" THEN {b \in FsBlocks : Revoked(b)} ELSE {})'
          = (IF phase = "walk" THEN {b \in FsBlocks : Revoked(b)} ELSE {})
    BY <2>1 DEF Revoked
  <2> QED
    BY <2>1, <2>2, <2>3, RedoneKept DEF Redo!vars
<1> QED
  BY <1>1, <1>2, <1>3, <1>4, <1>5, <1>6, <1>7, <1>8, <1>9, <1>10, <1>11, <1>12
     DEF Next, Recover

\* Everything process_commit has recorded is older than the transaction the walk
\* is reading, as long as transaction numbers do not wrap.
THEOREM RecordedIsOlderHolds == Spec /\ []NoWrap => []RecordedIsOlder
<1>1. TypeOK /\ RecordedIsOlder /\ NoWrap /\ [Next]_vars => RecordedIsOlder'
  BY NextRecordedIsOlder
<1> QED
  BY <1>1, InitRecordedIsOlder, TypeCorrect, PTL DEF Spec

\* As long as transaction numbers do not wrap, the one pass that walk makes over
\* the log, whatever the log holds, redoes the transactions with a valid commit
\* block whole and in commit order, and revocations cancel exactly the writes of
\* earlier transactions.
THEOREM WalkRedoesInOrder == Spec /\ []NoWrap => RedoesInOrder
<1>1. TypeOK /\ TypeOK' /\ RecordedIsOlder /\ [Next]_vars => [Redo!Next]_(Redo!vars)
  BY NextRefines
<1> QED
  BY <1>1, InitRefines, TypeCorrect, RecordedIsOlderHolds, PTL
     DEF Spec, RedoesInOrder, Redo!Spec

\* What apply_pass puts into the overlay is what is redone, and only apply_pass
\* makes recovery done.
LEMMA ApplyShowsRedone ==
  ASSUME TypeOK, apply_pass
  PROVE  OverlayShowsRedone'
<1>1. SbHostBlock \in FsBlocks /\ BlocksCount \in Nat /\ FsBlocks \subseteq Nat
  BY FsAssumption, Zenon
<1>2. UNCHANGED <<image, latest, revocations>>
  BY Zenon DEF apply_pass, openVars, walkVars
<1>3. \A b \in FsBlocks : ShownContent(b)' = ShownContent(b)
  BY <1>2 DEF ShownContent, Shown, Suppressed
<1>4. \A b \in FsBlocks : Shown(b) => ShownContent(b) \in Contents
  BY ShownTyped
<1>5. NoWrite \notin Contents
  BY FsAssumption
<1>6. SbStashed <=> SbHostBlock < BlocksCount /\ ShownContent(SbHostBlock) # NoWrite
  BY <1>1, <1>4, <1>5 DEF SbStashed, InRange, ShownContent
<1> DEFINE Left(b) == IF b < BlocksCount /\ ShownContent(b) # NoWrite
                      THEN ShownContent(b) ELSE image.disk[b]
<1>7. overlay'.sb_host = [Left(SbHostBlock) EXCEPT !.recover = FALSE]
  BY <1>6, ZenonT(60) DEF apply_pass, ClearRecover
<1>8. \A b \in FsBlocks \ {SbHostBlock} :
        overlay'.blocks[b] = IF b < BlocksCount THEN ShownContent(b) ELSE NoWrite
  BY ZenonT(60) DEF apply_pass, InRange
<1>9. \A b \in FsBlocks :
        OverlayRead(b)' = IF b = SbHostBlock THEN [Left(b) EXCEPT !.recover = FALSE]
                          ELSE Left(b)
  BY <1>2, <1>7, <1>8, ZenonT(60) DEF OverlayRead
<1>10. \A b \in FsBlocks : Left(b)' = Left(b)
  BY <1>2, <1>3
<1> QED
  BY <1>9, <1>10 DEF OverlayShowsRedone

\* Only apply_pass ends recovery, and it leaves an overlay that shows the redone
\* contents; nothing happens after it.
LEMMA NextShowsRedone ==
  TypeOK /\ OverlayShowsRedone /\ [Next]_vars => OverlayShowsRedone'
<1> SUFFICES ASSUME TypeOK, OverlayShowsRedone, [Next]_vars PROVE OverlayShowsRedone'
  OBVIOUS
<1>1. CASE apply_pass
  BY <1>1, ApplyShowsRedone
<1>2. CASE Next /\ ~apply_pass
  <2>1. phase' # "done"
    BY <1>2, ZenonT(60) DEF Next, Recover, OpenThroughInode, OpenThroughBackup, OpenThroughDevice,
       StartWalk, OpenFails, DeviceEnds, ReadFails, Fail, WalkEof, WalkBadMagic,
       WalkBadSequence, StopAtDescriptor, StopAtRevocation, StopAtCommit, StopHere,
       process_descriptor, process_revocation, process_commit, LoopBack
  <2> QED
    BY <2>1 DEF OverlayShowsRedone
<1>3. CASE UNCHANGED vars
  BY <1>3 DEF OverlayShowsRedone, OverlayRead, ShownContent, Shown, Suppressed, vars,
              openVars, walkVars, planVars
<1> QED
  BY <1>1, <1>2, <1>3

\* When recovery is done, a read through the overlay returns what the redone
\* transactions leave in a block, the block of the image where they leave nothing,
\* and a superblock without its RECOVER bit, for every image and every journal.
THEOREM OverlayCorrect == Spec => []OverlayShowsRedone
<1>1. Init => OverlayShowsRedone
  BY DEF Init, OverlayShowsRedone
<1> QED
  BY <1>1, NextShowsRedone, TypeCorrect, PTL DEF Spec

-----------------------------------------------------------------------------
(* The report agrees with the overlay.                                     *)

\* The transactions committed so far are numbered from s_sequence on, and nothing
\* has been reported about the end of the log while it is being walked.
Numbered ==
  /\ phase \in {"open", "walk"} => stop = <<>>
  /\ phase = "open" => committed = <<>>
  /\ phase \in {"walk", "apply", "done"} =>
       expected_seq = source.sequence + Len(committed)
  /\ ReportedSequencesAreConsecutive

\* committed_meta, from which the report counts, and latest, from which the overlay
\* is built, are about the same writes.
SameWrites ==
  /\ \A i \in DOMAIN committed_meta :
       /\ committed_meta[i].tx_index \in DOMAIN committed
       /\ committed_meta[i].sequence <= latest[committed_meta[i].fs_block].sequence
  /\ \A b \in FsBlocks :
       latest[b].sequence # -1 =>
         \E i \in DOMAIN committed_meta :
           /\ committed_meta[i].fs_block = b
           /\ committed_meta[i].sequence = latest[b].sequence

\* Before the walk nothing is committed.
LEMMA InitReport == Init => Numbered /\ SameWrites
  BY DEF Init, Untouched, Numbered, ReportedSequencesAreConsecutive, SameWrites,
         NoLatest

\* A step that leaves what the two invariants speak of alone keeps them.
LEMMA NumberedKept ==
  ASSUME Numbered, phase \in {"walk", "apply", "done"} \/ phase' = "failed",
         phase' \in {"apply", "done", "failed"} \/ phase' = phase,
         UNCHANGED <<source, expected_seq, committed, stop>>
  PROVE  Numbered'
  BY DEF Numbered, ReportedSequencesAreConsecutive

\* A step of walk that commits nothing leaves both records of the writes as they are.
LEMMA SameWritesKept ==
  ASSUME SameWrites, UNCHANGED <<committed_meta, committed, latest>>
  PROVE  SameWrites'
  BY DEF SameWrites

\* The walk starts at s_sequence with nothing committed (WalkState::new).
LEMMA StartWalkReport ==
  ASSUME TypeOK, Numbered, SameWrites, phase = "open",
         NEW j, NEW how, IsJournal(j), Usable(j), StartWalk(j, how)
  PROVE  Numbered' /\ SameWrites'
<1>1. committed' = <<>> /\ stop' = <<>> /\ committed_meta' = committed_meta
        /\ latest' = latest /\ committed' = committed
  BY DEF StartWalk, planVars, Numbered
<1>2. source'.sequence = j[0].sequence /\ expected_seq' = j[0].sequence
        /\ phase' \in {"walk", "apply"}
  BY DEF StartWalk, ParsedSource
<1>3. expected_seq' \in Nat
  <2>1. j[0] \in Superblocks
    BY Zenon DEF Usable, IsJournal
  <2>2. j[0].sequence \in Seqs
    BY <2>1, Zenon DEF Superblocks
  <2>3. Seqs \subseteq Nat
    BY FsAssumption DEF Seqs
  <2> QED
    BY <1>2, <2>2, <2>3, Zenon
<1>4. Numbered'
  BY <1>1, <1>2, <1>3 DEF Numbered, ReportedSequencesAreConsecutive
<1> QED
  BY <1>1, <1>4, SameWritesKept

\* The number of the last transaction is what stop_here reports.
LEMMA StopHereReport ==
  ASSUME TypeOK, Numbered, SameWrites, phase = "walk",
         NEW reason, StopHere(reason)
  PROVE  Numbered' /\ SameWrites'
<1>1. UNCHANGED <<source, expected_seq, committed, committed_meta, latest>>
        /\ phase' = "apply"
  BY DEF StopHere, openVars
<1>2. source.sequence \in Nat /\ expected_seq = source.sequence + Len(committed)
        /\ committed \in Seq(CommittedTx)
  BY FsAssumption DEF TypeOK, Sources, Seqs, Numbered
<1>3. stop'.last_good_sequence = (source.sequence + Len(committed) - 1) % TidLimit
  <2>1. CASE committed = <<>>
    <3>1. stop'.last_good_sequence = (expected_seq - 1) % TidLimit
      BY <2>1 DEF StopHere
    <3>2. expected_seq - 1 = source.sequence + Len(committed) - 1
      BY <1>2
    <3> QED
      BY <3>1, <3>2
  <2>2. CASE committed # <<>>
    <3>1. Len(committed) \in DOMAIN committed
      BY <1>2, <2>2, SMTT(20)
    <3>2. stop'.last_good_sequence = committed[Len(committed)].sequence
      BY <2>2 DEF StopHere
    <3> QED
      BY <3>1, <3>2 DEF Numbered, ReportedSequencesAreConsecutive
  <2> QED
    BY <2>1, <2>2
<1>4. ReportedSequencesAreConsecutive'
  BY <1>1, <1>3 DEF ReportedSequencesAreConsecutive, Numbered
<1>5. Numbered'
  BY <1>1, <1>2, <1>4 DEF Numbered
<1> QED
  BY <1>1, <1>5, SameWritesKept

\* A number below the limit is its own remainder.
LEMMA ModSmall ==
  ASSUME NEW a \in Nat, NEW t \in Nat, a < t
  PROVE  a % t = a
  OBVIOUS

\* The number of a committed transaction follows that of the one before it.
LEMMA CommitNumbered ==
  ASSUME TypeOK, Numbered, NoWrap, process_commit
  PROVE  Numbered'
<1>1. /\ phase = "walk" /\ phase' \in {"walk", "apply"} /\ stop = <<>> /\ stop' = <<>>
      /\ source' = source
  BY Zenon DEF process_commit, AtMember, AtBlock, LoopBack, Numbered, openVars
<1>2. /\ source.sequence \in Nat /\ expected_seq = source.sequence + Len(committed)
      /\ committed \in Seq(CommittedTx) /\ TidLimit \in Nat \ {0}
      /\ expected_seq < TidLimit - 1
  <2>1. source \in Sources /\ committed \in Seq(CommittedTx)
    BY <1>1, Zenon DEF TypeOK
  <2>2. expected_seq = source.sequence + Len(committed) /\ expected_seq < TidLimit - 1
    BY <1>1, Zenon DEF Numbered, NoWrap
  <2>3. source.sequence \in Seqs
    BY <2>1, Zenon DEF Sources
  <2>4. TidLimit \in Nat \ {0}
    BY FsAssumption, Zenon
  <2> QED
    BY <2>1, <2>2, <2>3, <2>4 DEF Seqs
<1>3. expected_seq' = expected_seq + 1
  <2>1. expected_seq + 1 \in Nat /\ expected_seq + 1 < TidLimit /\ TidLimit \in Nat
    BY <1>2
  <2>2. (expected_seq + 1) % TidLimit = expected_seq + 1
    BY <2>1, ModSmall
  <2> QED
    BY <2>2, Zenon DEF process_commit, NextSeq
<1>4. PICK tx : committed' = Append(committed, tx) /\ tx.sequence = expected_seq
  <2> DEFINE t == [sequence |-> expected_seq,
                   data_blocks_applied |-> 0, data_blocks_revoked |-> 0, data_blocks_escaped |-> 0,
                   revocation_entries |-> Len(pending.revocations),
                   descriptor_blocks |-> pending.descriptor_count]
  <2>1. committed' = Append(committed, t)
    BY Zenon DEF process_commit
  <2>2. t.sequence = expected_seq
    OBVIOUS
  <2> HIDE DEF t
  <2> QED
    BY <2>1, <2>2, Zenon
<1>5. /\ DOMAIN committed' = 1..(Len(committed) + 1)
      /\ Len(committed') = Len(committed) + 1
      /\ \A k \in DOMAIN committed : committed'[k] = committed[k]
      /\ committed'[Len(committed) + 1] = tx
  BY <1>2, <1>4
<1>6. expected_seq = (source.sequence + (Len(committed) + 1) - 1) % TidLimit
  <2>1. source.sequence + (Len(committed) + 1) - 1 = expected_seq
    BY <1>2
  <2>2. expected_seq \in Nat /\ expected_seq < TidLimit /\ TidLimit \in Nat
    BY <1>2
  <2>3. expected_seq % TidLimit = expected_seq
    BY <2>2, ModSmall
  <2> QED
    BY <2>1, <2>3
<1>7. ASSUME NEW k \in DOMAIN committed'
      PROVE  committed'[k].sequence = (source.sequence + k - 1) % TidLimit
  <2>1. CASE k = Len(committed) + 1
    BY <2>1, <1>4, <1>5, <1>6
  <2>2. CASE k # Len(committed) + 1
    <3>1. k \in DOMAIN committed
      BY <2>2, <1>2, <1>5
    <3> QED
      BY <3>1, <1>5 DEF Numbered, ReportedSequencesAreConsecutive
  <2> QED
    BY <2>1, <2>2
<1>8. ReportedSequencesAreConsecutive'
  BY <1>1, <1>7 DEF ReportedSequencesAreConsecutive
<1>9. expected_seq' = source'.sequence + Len(committed')
  <2>1. source'.sequence = source.sequence /\ Len(committed) \in Nat
    BY <1>1, <1>2
  <2> QED
    BY <2>1, <1>2, <1>3, <1>5
<1> QED
  BY <1>1, <1>8, <1>9, Zenon DEF Numbered

\* Where the elements of a concatenation are.
LEMMA ConcatIndices ==
  ASSUME NEW s \in Seq(CommittedWrites), NEW t \in Seq(CommittedWrites)
  PROVE  /\ DOMAIN (s \o t) = 1..(Len(s) + Len(t)) /\ Len(s) \in Nat
         /\ \A i \in 1..Len(s) : (s \o t)[i] = s[i]
         /\ \A i \in DOMAIN t : (s \o t)[Len(s) + i] = t[i]
  BY SMTT(20)

\* The committed writes of a transaction are kept with it, and latest is set for
\* the block of each (process_commit).
LEMMA CommitSameWrites ==
  ASSUME TypeOK, RecordedIsOlder, SameWrites, process_commit
  PROVE  SameWrites'
<1> DEFINE n == Len(committed_meta)
           old == pending.writes
           new == [i \in DOMAIN pending.writes |->
                     [fs_block |-> pending.writes[i].fs_block,
                      sequence |-> expected_seq,
                      tx_index |-> Len(committed) + 1,
                      escape |-> pending.writes[i].escape]]
<1>1. /\ committed_meta \in Seq(CommittedWrites)
      /\ committed \in Seq(CommittedTx) /\ expected_seq \in Nat
  BY FsAssumption, SMTT(20) DEF TypeOK, Seqs
<1>0. /\ old \in Seq(Writes) /\ Len(old) \in Nat /\ DOMAIN old = 1..Len(old)
      /\ \A i \in DOMAIN old : old[i].fs_block \in FsBlocks /\ old[i].escape \in BOOLEAN
  <2>1. old \in Seq(Writes) /\ Len(old) \in Nat /\ DOMAIN old = 1..Len(old)
    BY DEF TypeOK
  <2>2. \A i \in DOMAIN old : old[i] \in Writes
    BY <2>1, SeqElement
  <2> QED
    BY <2>1, <2>2 DEF Writes
<1>2. new \in Seq(CommittedWrites) /\ Len(new) = Len(old)
  <2>1. expected_seq \in Seqs /\ Len(committed) + 1 \in Nat
    BY DEF TypeOK
  <2>2. new \in [1..Len(old) -> CommittedWrites]
    BY <2>1, <1>0, Zenon DEF CommittedWrites
  <2> HIDE DEF new, old
  <2> QED
    BY <2>2, <1>0, FunctionIsSeq
<1>3. committed_meta' = committed_meta \o new
  BY Zenon DEF process_commit
<1> HIDE DEF new
<1>4. /\ DOMAIN committed_meta' = 1..(n + Len(old)) /\ n \in Nat
      /\ \A i \in 1..n : committed_meta'[i] = committed_meta[i]
      /\ \A i \in DOMAIN old : committed_meta'[n + i] = new[i]
  <2> HIDE DEF old
  <2>1. /\ DOMAIN (committed_meta \o new) = 1..(n + Len(new)) /\ n \in Nat
        /\ \A i \in 1..n : (committed_meta \o new)[i] = committed_meta[i]
        /\ \A i \in DOMAIN new : (committed_meta \o new)[n + i] = new[i]
    BY <1>1, <1>2, ConcatIndices, Zenon
  <2>2. DOMAIN new = DOMAIN old
    BY <1>0, <1>2
  <2> QED
    BY <1>2, <1>3, <2>1, <2>2, Zenon
<1>5. DOMAIN committed' = 1..(Len(committed) + 1)
  <2>1. PICK tx : committed' = Append(committed, tx)
    BY Zenon DEF process_commit
  <2> QED
    BY <2>1, <1>1, SMTT(20)
<1>6. \A b \in FsBlocks :
        latest'[b].sequence = IF WritesTo(b) = {} THEN latest[b].sequence ELSE expected_seq
  BY Zenon DEF process_commit
<1>7. \A b \in FsBlocks : latest[b].sequence \in Int /\ latest[b].sequence < expected_seq
  BY FsAssumption DEF TypeOK, Seqs, RecordedIsOlder
<1>8. ASSUME NEW i \in DOMAIN committed_meta'
      PROVE  /\ committed_meta'[i].tx_index \in DOMAIN committed'
             /\ committed_meta'[i].sequence <= latest'[committed_meta'[i].fs_block].sequence
  <2>1. CASE i \in 1..n
    <3>1. i \in DOMAIN committed_meta /\ committed_meta'[i] = committed_meta[i]
            /\ committed_meta[i] \in CommittedWrites
      BY <2>1, <1>1, <1>4, SMTT(20)
    <3> DEFINE w == committed_meta[i]
    <3>2. w.fs_block \in FsBlocks /\ w.sequence \in Int
            /\ w.tx_index \in DOMAIN committed /\ w.sequence <= latest[w.fs_block].sequence
      BY <3>1, FsAssumption, SMTT(20) DEF CommittedWrites, SameWrites, Seqs
    <3> HIDE DEF w
    <3>3. w.sequence <= latest'[w.fs_block].sequence
      BY <3>2, <1>1, <1>6, <1>7, SMTT(20)
    <3>4. w.tx_index \in DOMAIN committed'
      BY <3>2, <1>1, <1>5, SMTT(20)
    <3> QED
      BY <3>1, <3>3, <3>4 DEF w
  <2>2. CASE i \notin 1..n
    <3>1. PICK k \in DOMAIN old : i = n + k
      <4>1. i - n \in 1..Len(old) /\ i = n + (i - n)
        BY <2>2, <1>0, <1>4
      <4> QED
        BY <4>1, <1>0
    <3>2. committed_meta'[i] = [fs_block |-> old[k].fs_block,
                                sequence |-> expected_seq,
                                tx_index |-> Len(committed) + 1,
                                escape |-> old[k].escape]
      BY <3>1, <1>4, Zenon DEF new
    <3>3. k \in WritesTo(old[k].fs_block) /\ old[k].fs_block \in FsBlocks
      BY <1>0 DEF WritesTo
    <3>4. latest'[old[k].fs_block].sequence = expected_seq
      BY <3>3, <1>6
    <3>5. Len(committed) + 1 \in DOMAIN committed' /\ expected_seq <= expected_seq
      BY <1>1, <1>5, SMTT(20)
    <3>6. /\ committed_meta'[i].fs_block = old[k].fs_block
          /\ committed_meta'[i].sequence = expected_seq
          /\ committed_meta'[i].tx_index = Len(committed) + 1
      BY <3>2, SMTT(20)
    <3> QED
      BY <3>4, <3>5, <3>6, Zenon
  <2> QED
    BY <2>1, <2>2, Zenon
<1>9. ASSUME NEW b \in FsBlocks, latest'[b].sequence # -1
      PROVE  \E i \in DOMAIN committed_meta' :
               /\ committed_meta'[i].fs_block = b
               /\ committed_meta'[i].sequence = latest'[b].sequence
  <2>1. CASE WritesTo(b) = {}
    <3>1. PICK i \in DOMAIN committed_meta :
            committed_meta[i].fs_block = b /\ committed_meta[i].sequence = latest[b].sequence
      BY <2>1, <1>6, <1>9 DEF SameWrites
    <3>2. i \in 1..n
      BY <3>1, <1>1
    <3> HIDE DEF n, old
    <3>3. i \in DOMAIN committed_meta' /\ committed_meta'[i] = committed_meta[i]
      <4>1. i \in 1..(n + Len(old))
        <5>1. n \in Nat /\ Len(old) \in Nat
          BY <1>0, <1>4, Zenon
        <5> QED
          BY <3>2, <5>1
      <4> QED
        BY <4>1, <3>2, <1>4, Zenon
    <3> QED
      BY <3>1, <3>3, <2>1, <1>6, Zenon
  <2>2. CASE WritesTo(b) # {}
    <3>1. PICK k \in DOMAIN old : old[k].fs_block = b
      BY <2>2 DEF WritesTo
    <3>2. n + k \in DOMAIN committed_meta' /\ committed_meta'[n + k] = new[k]
      BY <1>0, <1>4, SMTT(20)
    <3>3. committed_meta'[n + k].fs_block = b /\ committed_meta'[n + k].sequence = expected_seq
      BY <3>1, <3>2, SMTT(20) DEF new
    <3> QED
      BY <3>2, <3>3, <2>2, <1>6
  <2> QED
    BY <2>1, <2>2
<1> QED
  BY <1>8, <1>9 DEF SameWrites

\* The writes the report counts as applied, and those it counts as suppressed.
LiveWrites ==
  {i \in DOMAIN committed_meta :
     InRange(committed_meta[i].fs_block) /\ ~SuppressedWrite(i)}
GoneWrites ==
  {i \in DOMAIN committed_meta :
     InRange(committed_meta[i].fs_block) /\ SuppressedWrite(i)}

\* The blocks the overlay shows are those that some applied write is about: the
\* last write to a block survives if any of them does.
LEMMA ShownBlocksAreWritten ==
  ASSUME TypeOK, SameWrites
  PROVE  {b \in FsBlocks : InRange(b) /\ Shown(b)} =
           {committed_meta[i].fs_block : i \in LiveWrites}
<1>1. ASSUME NEW b \in FsBlocks, InRange(b), Shown(b)
      PROVE  \E i \in LiveWrites : committed_meta[i].fs_block = b
  <2>1. PICK i \in DOMAIN committed_meta :
          committed_meta[i].fs_block = b /\ committed_meta[i].sequence = latest[b].sequence
    BY <1>1 DEF Shown, SameWrites
  <2>2. i \in LiveWrites
    BY <1>1, <2>1, Zenon DEF Shown, LiveWrites, SuppressedWrite
  <2> QED
    BY <2>1, <2>2
<1>2. ASSUME NEW i \in LiveWrites
      PROVE  /\ committed_meta[i].fs_block \in FsBlocks
             /\ InRange(committed_meta[i].fs_block)
             /\ Shown(committed_meta[i].fs_block)
  <2> DEFINE w == committed_meta[i]
             b == w.fs_block
  <2>1. w \in CommittedWrites
    BY SeqElement DEF TypeOK, LiveWrites
  <2>2. b \in FsBlocks /\ w.sequence \in Nat
    BY <2>1, FsAssumption, SMTT(20) DEF CommittedWrites, Seqs
  <2>3. InRange(b) /\ ~Suppressed(b, w.sequence) /\ w.sequence <= latest[b].sequence
    BY DEF LiveWrites, SuppressedWrite, SameWrites
  <2> HIDE DEF w, b
  <2>4. latest[b].sequence \in Int /\ revocations[b] \in Int
    BY <2>2, FsAssumption, SMTT(20) DEF TypeOK, Seqs
  <2>5. latest[b].sequence # -1 /\ ~(revocations[b] > latest[b].sequence)
    BY <2>2, <2>3, <2>4, SMTT(20) DEF Suppressed
  <2> QED
    BY <2>2, <2>3, <2>5 DEF Shown, Suppressed, w, b
<1> QED
  BY <1>1, <1>2

\* The applied writes of all transactions together are LiveWrites, and the
\* suppressed ones GoneWrites: no write is counted twice and none is left out.
LEMMA SumOverTransactions ==
  ASSUME TypeOK, SameWrites, NEW W, W \subseteq DOMAIN committed_meta
  PROVE  LET Of(k) == {i \in W : committed_meta[i].tx_index = k}
         IN  /\ IsFiniteSet(W)
             /\ SumFunction([k \in DOMAIN committed |-> Cardinality(Of(k))]) = Cardinality(W)
<1> DEFINE Of(k) == {i \in W : committed_meta[i].tx_index = k}
           K == DOMAIN committed
           A == [k \in K |-> Of(k)]
<1>1. IsFiniteSet(K) /\ IsFiniteSet(W)
  <2>1. K = 1..Len(committed) /\ Len(committed) \in Nat
          /\ W \in SUBSET (1..Len(committed_meta)) /\ Len(committed_meta) \in Nat
    BY DEF TypeOK
  <2> QED
    BY <2>1, FS_Interval, FS_Subset, SMTT(20)
<1>2. \A k \in K : A[k] \in SUBSET W
  OBVIOUS
<1>3. \A k, l \in K : k # l => A[k] \cap A[l] = {}
  OBVIOUS
<1>4. UNION {A[k] : k \in K} = W
  BY DEF SameWrites
<1>5. DOMAIN A = K
  OBVIOUS
<1>6. [k \in K |-> Cardinality(A[k])] = [k \in K |-> Cardinality(Of(k))]
  OBVIOUS
<1> HIDE DEF A
<1>7. \A k \in K : IsFiniteSet(A[k])
  BY <1>1, <1>2, FS_Subset
<1> HIDE DEF K
<1>8. SumFunction([k \in K |-> Cardinality(Of(k))]) = Cardinality(W)
  <2> DEFINE f == [k \in K |-> Cardinality(Of(k))]
  <2>1. f = [k \in K |-> Cardinality(A[k])]
    BY <1>6, Zenon
  <2> HIDE DEF f
  <2>2. SumFunction(f) = Cardinality(W)
    BY <2>1, <1>1, <1>3, <1>4, <1>5, <1>7, SumOfSizes, SMTT(20)
  <2> QED
    BY <2>2, Zenon DEF f
<1> QED
  BY <1>1, <1>8 DEF K

\* The counts that apply_pass reports, and the blocks that its overlay shows.
LEMMA ApplyCounts ==
  ASSUME TypeOK, SameWrites, apply_pass
  PROVE  /\ SumFunction([k \in DOMAIN committed' |-> committed'[k].data_blocks_applied])
              = Cardinality(LiveWrites)
         /\ SumFunction([k \in DOMAIN committed' |-> committed'[k].data_blocks_revoked])
              = Cardinality(GoneWrites)
         /\ summary'.suppressed_writes = Cardinality(GoneWrites)
         /\ IsFiniteSet(LiveWrites)
<1> DEFINE Live(k) == {i \in LiveWrites : committed_meta[i].tx_index = k}
           Gone(k) == {i \in GoneWrites : committed_meta[i].tx_index = k}
<1>1. committed' = [k \in DOMAIN committed |-> Account(k)]
  BY Zenon DEF apply_pass
<1>2. ASSUME NEW k \in DOMAIN committed
      PROVE  /\ committed'[k].data_blocks_applied = Cardinality(Live(k))
             /\ committed'[k].data_blocks_revoked = Cardinality(Gone(k))
  <2> DEFINE live == {i \in WritesOf(k) : ~SuppressedWrite(i)}
             escaped == {i \in live : committed_meta[i].escape}
  <2>1. live = Live(k) /\ WritesOf(k) \ live = Gone(k)
    BY DEF WritesOf, LiveWrites, GoneWrites
  <2>2. committed[k] \in CommittedTx
    BY SeqElement DEF TypeOK
  <2>3. committed'[k] = [committed[k] EXCEPT
                           !.data_blocks_applied = Cardinality(live),
                           !.data_blocks_revoked = Cardinality(WritesOf(k) \ live),
                           !.data_blocks_escaped = Cardinality(escaped)]
    BY <1>1, Zenon DEF Account
  <2> HIDE DEF live, escaped
  <2>4. /\ committed'[k].data_blocks_applied = Cardinality(live)
        /\ committed'[k].data_blocks_revoked = Cardinality(WritesOf(k) \ live)
    BY <2>2, <2>3 DEF CommittedTx
  <2> QED
    BY <2>1, <2>4, Zenon
<1>3. DOMAIN committed' = DOMAIN committed
  BY <1>1
<1>4. /\ [k \in DOMAIN committed' |-> committed'[k].data_blocks_applied] =
           [k \in DOMAIN committed |-> Cardinality(Live(k))]
      /\ [k \in DOMAIN committed' |-> committed'[k].data_blocks_revoked] =
           [k \in DOMAIN committed |-> Cardinality(Gone(k))]
  BY <1>2, <1>3, Zenon
<1>5. LiveWrites \subseteq DOMAIN committed_meta /\ GoneWrites \subseteq DOMAIN committed_meta
  BY DEF LiveWrites, GoneWrites
<1>6. /\ IsFiniteSet(LiveWrites)
      /\ SumFunction([k \in DOMAIN committed |-> Cardinality(Live(k))])
           = Cardinality(LiveWrites)
  BY <1>5, SumOverTransactions, Zenon
<1>7. SumFunction([k \in DOMAIN committed |-> Cardinality(Gone(k))])
        = Cardinality(GoneWrites)
  BY <1>5, SumOverTransactions, Zenon
<1>8. summary'.suppressed_writes = Cardinality(GoneWrites)
  BY Zenon DEF apply_pass, GoneWrites
<1> HIDE DEF Live, Gone
<1> QED
  BY <1>4, <1>6, <1>7, <1>8, Zenon

\* When apply_pass is done, the report and the overlay agree.
LEMMA ApplyReport ==
  ASSUME TypeOK, SameWrites, apply_pass
  PROVE  ReportAgreesWithOverlay'
<1> DEFINE applied == SumFunction([k \in DOMAIN committed' |->
                                     committed'[k].data_blocks_applied])
           revoked == SumFunction([k \in DOMAIN committed' |->
                                     committed'[k].data_blocks_revoked])
           visible == {b \in FsBlocks : overlay'.blocks[b] # NoWrite}
                        \cup (IF SbStashed' THEN {SbHostBlock} ELSE {})
<1>1. /\ applied = Cardinality(LiveWrites) /\ IsFiniteSet(LiveWrites)
      /\ summary'.suppressed_writes = revoked
  BY ApplyCounts
<1>2. visible = {b \in FsBlocks : InRange(b) /\ Shown(b)}
  <2>1. SbStashed' = SbStashed
    BY Zenon DEF apply_pass, walkVars, SbStashed, Shown, Suppressed, InRange
  <2>2. \A b \in FsBlocks :
          overlay'.blocks[b] = IF InRange(b) /\ b # SbHostBlock THEN ShownContent(b)
                               ELSE NoWrite
    BY Zenon DEF apply_pass
  <2>3. \A b \in FsBlocks : ShownContent(b) # NoWrite <=> Shown(b)
    BY ShownTyped, FsAssumption, Zenon DEF ShownContent
  <2> QED
    BY <2>1, <2>2, <2>3, FsAssumption, Zenon DEF SbStashed
<1>3. visible = {committed_meta[i].fs_block : i \in LiveWrites}
  BY <1>2, ShownBlocksAreWritten, Zenon
<1>4. Cardinality(visible) <= Cardinality(LiveWrites)
  <2> DEFINE f == [i \in LiveWrites |-> committed_meta[i].fs_block]
  <2>1. f \in Surjection(LiveWrites, visible)
    BY <1>3 DEF Surjection
  <2> HIDE DEF f, visible
  <2> QED
    BY <2>1, <1>1, FS_Surjection
<1>5. applied > 0 => visible # {}
  <2>1. LiveWrites = {} => Cardinality(LiveWrites) = 0
    BY FS_EmptySet
  <2>2. LiveWrites # {} => visible # {}
    BY <1>3, Zenon
  <2> HIDE DEF applied, visible
  <2> QED
    BY <2>1, <2>2, <1>1
<1>6. Cardinality(visible) \in Int /\ Cardinality(LiveWrites) \in Int
  <2>1. IsFiniteSet(visible)
    <3> DEFINE f == [i \in LiveWrites |-> committed_meta[i].fs_block]
    <3>1. f \in Surjection(LiveWrites, visible)
      BY <1>3 DEF Surjection
    <3> HIDE DEF f, visible
    <3> QED
      BY <3>1, <1>1, FS_Surjection
  <2> HIDE DEF visible
  <2> QED
    BY <2>1, <1>1, FS_CardinalityType, SMTT(20)
<1>7. applied >= Cardinality(visible)
  <2> HIDE DEF applied, visible
  <2> QED
    BY <1>1, <1>4, <1>6
<1> HIDE DEF applied, revoked, visible
<1>8. /\ applied >= Cardinality(visible) /\ (applied > 0 => visible # {})
      /\ summary'.suppressed_writes = revoked
  BY <1>1, <1>5, <1>7
<1> QED
  BY <1>8, Zenon DEF ReportAgreesWithOverlay, applied, revoked, visible

\* apply_pass counts for the transactions but renumbers none.
LEMMA ApplyNumbered ==
  ASSUME TypeOK, Numbered, SameWrites, apply_pass
  PROVE  Numbered' /\ SameWrites'
<1>1. /\ phase = "apply" /\ phase' = "done"
      /\ UNCHANGED <<source, expected_seq, stop, committed_meta, latest>>
      /\ committed' = [k \in DOMAIN committed |-> Account(k)]
  BY Zenon DEF apply_pass, openVars, walkVars
<1>2. \A k \in DOMAIN committed : committed'[k].sequence = committed[k].sequence
  <2>1. ASSUME NEW k \in DOMAIN committed
        PROVE  committed'[k].sequence = committed[k].sequence
    <3>1. committed[k] \in CommittedTx
      BY SeqElement, SMTT(20) DEF TypeOK
    <3> QED
      BY <3>1, <1>1, Zenon DEF Account, CommittedTx
  <2> QED
    BY <2>1
<1>3. DOMAIN committed' = DOMAIN committed /\ Len(committed') = Len(committed)
  BY <1>1, SMTT(20) DEF TypeOK
<1>4. SameWrites'
  BY <1>1, <1>3 DEF SameWrites
<1>5. ReportedSequencesAreConsecutive'
  BY <1>1, <1>2, <1>3 DEF ReportedSequencesAreConsecutive, Numbered
<1> QED
  BY <1>1, <1>3, <1>4, <1>5, Zenon DEF Numbered

\* Every step keeps the report in agreement with the walk.
LEMMA NextReport ==
  TypeOK /\ RecordedIsOlder /\ NoWrap /\ Numbered /\ SameWrites /\ [Next]_vars
    => Numbered' /\ SameWrites'
<1> SUFFICES ASSUME TypeOK, RecordedIsOlder, NoWrap, Numbered, SameWrites, [Next]_vars
             PROVE  Numbered' /\ SameWrites'
  BY Zenon
<1>1. CASE OpenThroughInode
  BY <1>1, StartWalkReport, Zenon DEF OpenThroughInode, TypeOK, IsImage
<1>2. CASE OpenThroughBackup
  BY <1>2, StartWalkReport, Zenon DEF OpenThroughBackup, TypeOK, IsImage
<1>3. CASE OpenThroughDevice
  BY <1>3, StartWalkReport, ZenonT(40) DEF OpenThroughDevice, DeviceUsable, TypeOK, IsImage
<1>4. CASE OpenFails \/ DeviceEnds \/ ReadFails
  BY <1>4, NumberedKept, SameWritesKept
     DEF OpenFails, DeviceEnds, ReadFails, Fail, walkVars, openVars, planVars
<1>5. CASE WalkEof \/ WalkBadMagic \/ WalkBadSequence
  BY <1>5, StopHereReport, Zenon DEF WalkEof, WalkBadMagic, WalkBadSequence, AtBlock
<1>6. CASE StopAtDescriptor \/ StopAtRevocation \/ StopAtCommit
  BY <1>6, StopHereReport, ZenonT(40)
     DEF StopAtDescriptor, StopAtRevocation, StopAtCommit, AtMember, AtBlock
<1>7. CASE process_descriptor
  <2>1. phase = "walk" /\ UNCHANGED <<openVars, expected_seq, committed_meta, latest, planVars>>
    BY <1>7, Zenon DEF process_descriptor, AtMember, AtBlock
  <2>2. phase' \in {"apply", "walk"}
    BY <1>7, Zenon DEF process_descriptor, LoopBack
  <2>3. Numbered'
    BY <2>1, <2>2, NumberedKept DEF openVars, planVars
  <2>4. SameWrites'
    BY <2>1, SameWritesKept DEF planVars
  <2> QED
    BY <2>3, <2>4
<1>8. CASE process_revocation
  <2>1. phase = "walk" /\ UNCHANGED <<openVars, expected_seq, committed_meta, latest, planVars>>
    BY <1>8, Zenon DEF process_revocation, AtMember, AtBlock
  <2>2. phase' \in {"apply", "walk"}
    BY <1>8, Zenon DEF process_revocation, LoopBack
  <2>3. Numbered'
    BY <2>1, <2>2, NumberedKept DEF openVars, planVars
  <2>4. SameWrites'
    BY <2>1, SameWritesKept DEF planVars
  <2> QED
    BY <2>3, <2>4
<1>9. CASE process_commit
  BY <1>9, CommitNumbered, CommitSameWrites
<1>10. CASE apply_pass
  BY <1>10, ApplyNumbered, Zenon
<1>11. CASE UNCHANGED vars
  BY <1>11, Zenon DEF Numbered, SameWrites, ReportedSequencesAreConsecutive, vars, walkVars,
               openVars, planVars
<1> QED
  BY <1>1, <1>2, <1>3, <1>4, <1>5, <1>6, <1>7, <1>8, <1>9, <1>10, <1>11 DEF Next, Recover

\* Only apply_pass ends recovery, and with a report that agrees with its overlay.
LEMMA NextAgrees ==
  TypeOK /\ SameWrites /\ ReportAgreesWithOverlay /\ [Next]_vars => ReportAgreesWithOverlay'
<1> SUFFICES ASSUME TypeOK, SameWrites, ReportAgreesWithOverlay, [Next]_vars
             PROVE  ReportAgreesWithOverlay'
  OBVIOUS
<1>1. CASE apply_pass
  BY <1>1, ApplyReport
<1>2. CASE Next /\ ~apply_pass
  <2>1. phase' # "done"
    BY <1>2, ZenonT(60) DEF Next, Recover, OpenThroughInode, OpenThroughBackup, OpenThroughDevice,
       StartWalk, OpenFails, DeviceEnds, ReadFails, Fail, WalkEof, WalkBadMagic,
       WalkBadSequence, StopAtDescriptor, StopAtRevocation, StopAtCommit, StopHere,
       process_descriptor, process_revocation, process_commit, LoopBack
  <2> QED
    BY <2>1, Zenon DEF ReportAgreesWithOverlay
<1>3. CASE UNCHANGED vars
  <2>1. UNCHANGED <<phase, committed, overlay, summary, latest, revocations>>
    BY <1>3 DEF vars, walkVars, planVars
  <2>2. SbStashed' = SbStashed
    BY <2>1 DEF SbStashed, Shown, Suppressed, InRange
  <2> QED
    BY <2>1, <2>2, Zenon DEF ReportAgreesWithOverlay
<1> QED
  BY <1>1, <1>2, <1>3

\* The report of a recovery is true, for every image and every journal in which
\* transaction numbers do not wrap: the transactions it lists are numbered without
\* a gap from s_sequence on, a stop names the last of them, the blocks that the
\* overlay redirects are at most the writes reported as applied and none only if
\* that count is zero, and every suppressed write is charged to one transaction.
\* apply_pass counts from committed_meta and builds the overlay from latest; that
\* the two hold the same writes is the invariant SameWrites.
THEOREM ReportIsTrueHolds == Spec /\ []NoWrap => []ReportIsTrue
<1>1. Init => Numbered /\ SameWrites
  BY InitReport
<1>2. Init => ReportAgreesWithOverlay
  BY DEF Init, ReportAgreesWithOverlay
<1>3. TypeOK /\ RecordedIsOlder /\ NoWrap /\ Numbered /\ SameWrites /\ [Next]_vars
        => Numbered' /\ SameWrites'
  BY NextReport
<1>4. TypeOK /\ SameWrites /\ ReportAgreesWithOverlay /\ [Next]_vars
        => ReportAgreesWithOverlay'
  BY NextAgrees
<1>5. Numbered /\ ReportAgreesWithOverlay => ReportIsTrue
  BY DEF Numbered, ReportIsTrue
<1> QED
  BY <1>1, <1>2, <1>3, <1>4, <1>5, TypeCorrect, RecordedIsOlderHolds, PTL DEF Spec

=============================================================================
