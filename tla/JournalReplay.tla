---------------------------- MODULE JournalReplay ----------------------------
(***************************************************************************)
(* Recovery of an ext3/ext4 (jbd2) journal into a read overlay: opening    *)
(* the journal, walking its ring of blocks transaction by transaction, and *)
(* turning the committed transactions into the overlay that every later    *)
(* read goes through.  crates/formats/fs-ext/src/journal/{source,          *)
(* superblock,tags,replay,overlay}.rs.                                     *)
(*                                                                         *)
(* A journal is a function from block index to block.  Block 0 is the      *)
(* journal superblock; every other block is a record whose "kind" is what  *)
(* its header decodes to ("data" when it has no journal header).  A        *)
(* checksum is a collision-free function: it is the value it is computed   *)
(* from.  A block also has a "head", its first word, which is what the     *)
(* ESCAPE flag of a tag is about.                                          *)
(***************************************************************************)
EXTENDS Integers, Sequences, FiniteSets, Functions

CONSTANTS
  FsBlocks,     \* filesystem block numbers a tag or a revocation may name
  BlocksCount,  \* s_blocks_count: numbers at or above it are out of range
  SbHostBlock,  \* the filesystem block that holds the ext superblock
  Bodies,       \* block contents but for the first word
  Checksums,    \* the checksums a tag may carry
  Images,       \* the filesystems recovery is run on
  TidLimit,       \* transaction numbers are counted modulo TidLimit (2^32)
  NoWrite       \* no content

Seqs == 0..(TidLimit - 1)

\* Blocks as the filesystem sees them.  recover is the RECOVER bit of the
\* ext superblock in the block, if it holds one.
Contents == [head : {"magic", "zero", "other"}, body : Bodies, recover : BOOLEAN]

Superblocks ==
  [kind : {"super"}, seq : Seqs, version : {"V1", "V2", "other"},
   blocksize_ok : BOOLEAN, maxlen : Nat, first : Nat, start : Nat,
   sequence : Seqs, unknown_incompat : BOOLEAN, csum_v2 : BOOLEAN,
   csum_v3 : BOOLEAN, async_commit : BOOLEAN, compat_checksum : BOOLEAN,
   crc32c_type : BOOLEAN, checksum_ok : BOOLEAN, uuid_ok : BOOLEAN,
   fast_commit : BOOLEAN]
DataBlocks ==
  [kind : {"data"}, head : {"magic", "zero", "other"}, body : Bodies,
   recover : BOOLEAN]
Tags == [fs_block : FsBlocks, escape : BOOLEAN, checksum : Checksums]
Blocks ==
  DataBlocks
    \cup [kind : {"desc"}, seq : Seqs, tail_ok : BOOLEAN, tags : Seq(Tags),
          has_last_tag : BOOLEAN]
    \cup [kind : {"revoke"}, seq : Seqs, tail_ok : BOOLEAN, count_ok : BOOLEAN,
          blocks : Seq(FsBlocks)]
    \cup [kind : {"commit"}, seq : Seqs, tail_ok : BOOLEAN,
          checksum : Seq(DataBlocks)]
    \cup [kind : {"unknown"}, seq : Seqs]

\* The empty function stands for a journal that cannot be read at all.
IsJournal(j) ==
  /\ DOMAIN j \subseteq Nat
  /\ \A i \in DOMAIN j : j[i] \in IF i = 0 THEN Superblocks ELSE Blocks

IsImage(im) ==
  /\ im.has_journal \in BOOLEAN
  /\ im.inum_zero \in BOOLEAN
  /\ im.journal_dev \in BOOLEAN
  /\ IsJournal(im.via_inode)
  /\ IsJournal(im.via_backup)
  /\ IsJournal(im.via_device)
  /\ im.disk \in [FsBlocks -> Contents]

ASSUME FsAssumption ==
  /\ FsBlocks \subseteq Nat
  /\ BlocksCount \in Nat
  /\ SbHostBlock \in FsBlocks
  /\ "header" \in Bodies
  /\ TidLimit \in Nat \ {0}
  /\ NoWrite \notin Contents

ASSUME ImageAssumption == \A im \in Images : IsImage(im)

VARIABLES
  image,          \* the filesystem: its blocks and the ways to its journal
  phase,          \* "open", "walk", "apply", "done" or "failed"
  source,         \* JournalSource: the parsed journal superblock
  locator,        \* how the journal is read: "inode", "backup" or "device"
  journal,        \* the blocks JournalBlockReader::read_block delivers
  cur,            \* WalkState.cur
  expected_seq,   \* WalkState.expected_seq
  pending,        \* WalkState.pending: the transaction being read
  committed_meta, \* WalkState.committed_meta: every committed write
  latest,         \* WalkState.latest: the last committed write to a block
  revocations,    \* WalkState.revocations: last revoking sequence, -1 if none
  committed,      \* ReplayPlan.committed
  stop,           \* ReplayPlan.stop, <<>> when the walk came full circle
  summary,        \* ReplayPlan.revocation_summary
  overlay         \* BlockOverlay, <<>> until apply_pass has built it

walkVars == <<cur, expected_seq, pending, committed_meta, latest, revocations>>
openVars == <<image, source, locator, journal>>
planVars == <<committed, stop, summary, overlay>>
vars == <<openVars, phase, walkVars, planVars>>

-----------------------------------------------------------------------------
(* The journal superblock and how the journal is reached.                  *)

Modern(mode) == mode \in {"V2", "V3"}

checksum_mode(sb) ==
  CASE sb.version = "V1" -> "None"
    [] sb.version # "V1" /\ sb.csum_v3 -> "V3"
    [] sb.version # "V1" /\ ~sb.csum_v3 /\ sb.csum_v2 -> "V2"
    [] OTHER -> IF sb.compat_checksum THEN "Compat" ELSE "None"

\* What parse_journal_superblock and validate_journal_source insist on.
SuperblockAccepted(sb) ==
  /\ sb.version \in {"V1", "V2"}
  /\ sb.blocksize_ok
  /\ sb.maxlen # 0
  /\ sb.first < sb.maxlen
  /\ sb.version = "V2" =>
       /\ ~sb.unknown_incompat
       /\ ~(sb.csum_v2 /\ sb.csum_v3)
       /\ sb.async_commit => Modern(checksum_mode(sb))
       /\ Modern(checksum_mode(sb)) => sb.crc32c_type /\ sb.checksum_ok

\* A journal that can be read at all and whose superblock is accepted.
Usable(j) == 0 \in DOMAIN j /\ SuperblockAccepted(j[0])

ParsedSource(sb) ==
  [first |-> sb.first, maxlen |-> sb.maxlen, start |-> sb.start,
   sequence |-> sb.sequence, mode |-> checksum_mode(sb)]

NoPending == [writes |-> <<>>, revocations |-> <<>>, descriptor_count |-> 0]
NoLatest == [sequence |-> -1, content |-> NoWrite, escape |-> FALSE]

\* Nothing of the journal has been looked at.
Untouched ==
  /\ source = <<>>
  /\ locator = "none"
  /\ journal = <<>>
  /\ cur = 0
  /\ expected_seq = 0
  /\ pending = NoPending
  /\ committed_meta = <<>>
  /\ latest = [b \in FsBlocks |-> NoLatest]
  /\ revocations = [b \in FsBlocks |-> -1]
  /\ committed = <<>>
  /\ stop = <<>>
  /\ summary = <<>>
  /\ overlay = <<>>

Init == image \in Images /\ phase = "open" /\ Untouched

\* WalkState::new; a journal whose s_start is 0 is clean and is not walked.
StartWalk(j, how) ==
  /\ journal' = j
  /\ locator' = how
  /\ source' = ParsedSource(j[0])
  /\ cur' = j[0].start
  /\ expected_seq' = j[0].sequence
  /\ phase' = IF j[0].start = 0 THEN "apply" ELSE "walk"
  /\ UNCHANGED <<image, pending, committed_meta, latest, revocations, planVars>>

Fail ==
  /\ phase' = "failed"
  /\ UNCHANGED <<openVars, walkVars, planVars>>

HasInternal == ~image.journal_dev /\ image.has_journal /\ ~image.inum_zero

OpenThroughInode ==
  /\ phase = "open"
  /\ HasInternal
  /\ Usable(image.via_inode)
  /\ StartWalk(image.via_inode, "inode")

\* The journal inode is damaged: s_jnl_blocks of the superblock maps the log.
OpenThroughBackup ==
  /\ phase = "open"
  /\ HasInternal
  /\ ~Usable(image.via_inode)
  /\ Usable(image.via_backup)
  /\ StartWalk(image.via_backup, "backup")

\* The device must carry the UUID the filesystem names and no fast-commit area
\* (the superblock of a V1 journal has no feature words).
DeviceUsable ==
  /\ Usable(image.via_device)
  /\ image.via_device[0].uuid_ok
  /\ ~(image.via_device[0].version = "V2" /\ image.via_device[0].fast_commit)

OpenThroughDevice ==
  /\ phase = "open"
  /\ image.journal_dev
  /\ DeviceUsable
  /\ StartWalk(image.via_device, "device")

OpenFails ==
  /\ phase = "open"
  /\ ~(HasInternal /\ (Usable(image.via_inode) \/ Usable(image.via_backup)))
  /\ ~(image.journal_dev /\ DeviceUsable)
  /\ Fail

-----------------------------------------------------------------------------
(* walk: one block of the log per step.                                    *)

\* The ring runs from s_first up to and including index s_maxlen.
next_block(b) == IF b + 1 > source.maxlen THEN source.first ELSE b + 1

NextSeq(s) == (s + 1) % TidLimit

\* The loop's tail: a walk that is back where it began is over.
LoopBack(c) == phase' = IF c = source.start THEN "apply" ELSE "walk"

\* stop_here: the log ends at the current block.
StopHere(reason) ==
  /\ stop' = [last_good_sequence |->
                 IF committed = <<>> THEN (expected_seq - 1) % TidLimit
                 ELSE committed[Len(committed)].sequence,
              journal_block |-> cur,
              reason |-> reason]
  /\ phase' = "apply"
  /\ UNCHANGED <<openVars, cur, expected_seq, committed_meta, latest,
                 revocations, committed, summary, overlay>>

AtBlock == phase = "walk" /\ cur \in DOMAIN journal

\* The current block is a journal block of the transaction being read.
AtMember(kind) ==
  /\ AtBlock
  /\ journal[cur].kind = kind
  /\ journal[cur].seq = expected_seq

HasMagic(b) == b.kind # "data"
Typed(b) == b.kind \in {"desc", "revoke", "commit"}

\* Mutant: the end of the file is not the end of the loop.
WalkEofRetries == phase = "walk" /\ cur \notin DOMAIN journal /\ UNCHANGED vars

\* Only a journal file has an end; past the end of a device reads fail.
WalkEof ==
  /\ phase = "walk"
  /\ cur \notin DOMAIN journal
  /\ locator # "device"
  /\ StopHere("Truncated")
  /\ UNCHANGED pending

\* No journal header, or one of a type that has no place in the log.
WalkBadMagic ==
  /\ AtBlock
  /\ HasMagic(journal[cur]) =>
       journal[cur].seq = expected_seq /\ ~Typed(journal[cur])
  /\ StopHere("BadMagic")
  /\ UNCHANGED pending

WalkBadSequence ==
  /\ AtBlock
  /\ HasMagic(journal[cur])
  /\ journal[cur].seq # expected_seq
  /\ StopHere("SequenceMismatch")
  /\ UNCHANGED pending

\* The slot i places after the one that follows the current block: next_block
\* applied i + 1 times.
DataSlot(i) ==
  LET n == next_block(cur) + i
  IN  IF n <= source.maxlen THEN n
      ELSE source.first + ((n - source.maxlen - 1)
                             % (source.maxlen - source.first + 1))

tag_block_checksum(b) == <<expected_seq, b>>

\* What stops the descriptor at its i-th tag, "none" if nothing does.
TagFault(d, i) ==
  LET at == DataSlot(i - 1)
  IN  CASE at \notin DOMAIN journal -> "Truncated"
        [] /\ at \in DOMAIN journal
           /\ Modern(source.mode)
           /\ d.tags[i].checksum # tag_block_checksum(journal[at])
             -> "DataBlockChecksumInvalid"
        [] OTHER -> "none"

FaultyTags(d) == {i \in DOMAIN d.tags : TagFault(d, i) # "none"}

FirstOf(S) == CHOOSE i \in S : \A j \in S : i <= j

\* The first n tags of descriptor d as pending writes.
TagWrites(d, n) ==
  [i \in 1..n |-> [fs_block |-> d.tags[i].fs_block,
                   content |-> journal[DataSlot(i - 1)],
                   escape |-> d.tags[i].escape]]

DescriptorReason(d) ==
  IF Modern(source.mode) /\ ~d.tail_ok THEN "DescriptorTailChecksumInvalid"
  ELSE IF FaultyTags(d) # {} THEN TagFault(d, FirstOf(FaultyTags(d)))
  ELSE IF ~d.has_last_tag THEN "DescriptorBodyInvalid"
  ELSE "none"

\* How many tags are read before the descriptor is given up.
TagsRead(d) ==
  IF Modern(source.mode) /\ ~d.tail_ok THEN 0
  ELSE IF FaultyTags(d) # {} THEN FirstOf(FaultyTags(d)) - 1
  ELSE Len(d.tags)

\* pending after the first TagsRead tags of d were read.
AddWrites(d) ==
  [writes |-> pending.writes \o TagWrites(d, TagsRead(d)),
   revocations |-> pending.revocations,
   descriptor_count |->
     pending.descriptor_count + (IF Modern(source.mode) /\ ~d.tail_ok THEN 0 ELSE 1)]

process_descriptor ==
  /\ AtMember("desc")
  /\ LET d == journal[cur]
     IN  /\ DescriptorReason(d) = "none"
         /\ pending' = AddWrites(d)
         /\ cur' = DataSlot(Len(d.tags))
         /\ LoopBack(cur')
  /\ UNCHANGED <<openVars, expected_seq, committed_meta, latest, revocations,
                 planVars>>

StopAtDescriptor ==
  /\ AtMember("desc")
  /\ LET d == journal[cur]
     IN  /\ DescriptorReason(d) # "none"
         /\ ~(DescriptorReason(d) = "Truncated" /\ locator = "device")
         /\ pending' = AddWrites(d)
         /\ StopHere(DescriptorReason(d))

\* A device that ends before the log does makes recovery fail.
DeviceEnds ==
  /\ locator = "device"
  /\ \/ phase = "walk" /\ cur \notin DOMAIN journal
     \/ AtMember("desc") /\ DescriptorReason(journal[cur]) = "Truncated"
  /\ Fail

RevocationAccepted(r) == r.count_ok /\ (Modern(source.mode) => r.tail_ok)

process_revocation ==
  /\ AtMember("revoke")
  /\ RevocationAccepted(journal[cur])
  /\ pending' = [writes |-> pending.writes,
                 revocations |-> pending.revocations \o journal[cur].blocks,
                 descriptor_count |-> pending.descriptor_count]
  /\ cur' = next_block(cur)
  /\ LoopBack(cur')
  /\ UNCHANGED <<openVars, expected_seq, committed_meta, latest, revocations,
                 planVars>>

StopAtRevocation ==
  /\ AtMember("revoke")
  /\ ~RevocationAccepted(journal[cur])
  /\ StopHere("RevocationTailChecksumInvalid")
  /\ UNCHANGED pending

CommitAccepted(c) ==
  CASE Modern(source.mode) -> c.tail_ok
    [] source.mode = "Compat" ->
         c.checksum = [i \in DOMAIN pending.writes |-> pending.writes[i].content]
    [] OTHER -> TRUE

\* The last of the pending writes to block b.
WritesTo(b) == {i \in DOMAIN pending.writes : pending.writes[i].fs_block = b}
LastOf(S) == CHOOSE i \in S : \A j \in S : j <= i
LastWrite(b) == pending.writes[LastOf(WritesTo(b))]

Revoked(b) == \E i \in DOMAIN pending.revocations : pending.revocations[i] = b

process_commit ==
  /\ AtMember("commit")
  /\ CommitAccepted(journal[cur])
  /\ revocations' = [b \in FsBlocks |->
                        IF Revoked(b) /\ expected_seq > revocations[b]
                        THEN expected_seq ELSE revocations[b]]
  /\ latest' = [b \in FsBlocks |->
                   IF WritesTo(b) = {} THEN latest[b]
                   ELSE [sequence |-> expected_seq,
                         content |-> LastWrite(b).content,
                         escape |-> LastWrite(b).escape]]
  /\ committed_meta' = committed_meta \o
       [i \in DOMAIN pending.writes |->
          [fs_block |-> pending.writes[i].fs_block,
           sequence |-> expected_seq,
           tx_index |-> Len(committed) + 1,
           escape |-> pending.writes[i].escape]]
  /\ committed' = Append(committed,
       [sequence |-> expected_seq,
        data_blocks_applied |-> 0, data_blocks_revoked |-> 0,
        data_blocks_escaped |-> 0,
        revocation_entries |-> Len(pending.revocations),
        descriptor_blocks |-> pending.descriptor_count])
  /\ pending' = NoPending
  /\ expected_seq' = NextSeq(expected_seq)
  /\ cur' = next_block(cur)
  /\ LoopBack(cur')
  /\ UNCHANGED <<openVars, stop, summary, overlay>>

StopAtCommit ==
  /\ AtMember("commit")
  /\ ~CommitAccepted(journal[cur])
  /\ StopHere("CommitChecksumInvalid")
  /\ UNCHANGED pending

-----------------------------------------------------------------------------
(* apply_pass: the committed transactions become the overlay.              *)

\* Mutant: one block too many.
InRangeOffByOne(b) == b <= BlocksCount

InRange(b) == b < BlocksCount

\* Mutants: a revocation also cancels the writes of its own transaction; it
\* cancels nothing.
SuppressedOwn(b, sequence) == revocations[b] >= sequence
SuppressedNever(b, sequence) == FALSE

Suppressed(b, sequence) == revocations[b] > sequence

\* A journal block as the filesystem content its bytes are.
Payload(b) ==
  IF HasMagic(b) THEN [head |-> "magic", body |-> "header", recover |-> FALSE]
  ELSE [head |-> b.head, body |-> b.body, recover |-> b.recover]

\* The first word of an escaped block is the journal magic again.
Unescape(content, escape) ==
  IF escape THEN [content EXCEPT !.head = "magic"] ELSE content

\* What the overlay shows for block b.
Shown(b) == latest[b].sequence # -1 /\ ~Suppressed(b, latest[b].sequence)
ShownContent(b) ==
  IF Shown(b) THEN Unescape(Payload(latest[b].content), latest[b].escape)
  ELSE NoWrite

ClearRecover(content) == [content EXCEPT !.recover = FALSE]

\* The committed writes of transaction k that are in range.
WritesOf(k) ==
  {i \in DOMAIN committed_meta :
     committed_meta[i].tx_index = k /\ InRange(committed_meta[i].fs_block)}
\* Mutant: the report counts with >= where the overlay decides with >.
SuppressedWriteOwn(i) ==
  revocations[committed_meta[i].fs_block] >= committed_meta[i].sequence
SuppressedWrite(i) ==
  Suppressed(committed_meta[i].fs_block, committed_meta[i].sequence)

Account(k) ==
  LET live == {i \in WritesOf(k) : ~SuppressedWrite(i)}
  IN  [committed[k] EXCEPT
         !.data_blocks_applied = Cardinality(live),
         !.data_blocks_revoked = Cardinality(WritesOf(k) \ live),
         !.data_blocks_escaped =
            Cardinality({i \in live : committed_meta[i].escape})]

SbStashed == InRange(SbHostBlock) /\ Shown(SbHostBlock)

apply_pass ==
  /\ phase = "apply"
  /\ committed' = [k \in DOMAIN committed |-> Account(k)]
  /\ summary' =
       [total_records |->
          SumFunction([k \in DOMAIN committed |-> committed[k].revocation_entries]),
        suppressed_writes |->
          Cardinality({i \in DOMAIN committed_meta :
                         InRange(committed_meta[i].fs_block) /\ SuppressedWrite(i)}),
        distinct_blocks_revoked |->
          Cardinality({b \in FsBlocks : revocations[b] # -1})]
  /\ overlay' =
       [blocks |-> [b \in FsBlocks |->
                      IF InRange(b) /\ b # SbHostBlock THEN ShownContent(b)
                      ELSE NoWrite],
        sb_host |-> ClearRecover(IF SbStashed THEN ShownContent(SbHostBlock)
                                 ELSE image.disk[SbHostBlock])]
  /\ phase' = "done"
  /\ UNCHANGED <<openVars, walkVars, stop>>

\* A read fails other than by running off the end of the journal file.  With
\* the walk over, only the block of the ext superblock may still be read.
ReadFails ==
  /\ \/ phase \in {"open", "walk"}
     \/ phase = "apply" /\ ~SbStashed
  /\ Fail

Recover ==
  \/ OpenThroughInode \/ OpenThroughBackup \/ OpenThroughDevice \/ OpenFails
  \/ WalkEof \/ WalkBadMagic \/ WalkBadSequence \/ DeviceEnds
  \/ process_descriptor \/ StopAtDescriptor
  \/ process_revocation \/ StopAtRevocation
  \/ process_commit \/ StopAtCommit
  \/ apply_pass

Next == Recover \/ ReadFails

Spec == Init /\ [][Next]_vars

\* Recovery is a plain sequential call: once begun it keeps taking steps.  That
\* some read fails is never relied on.
FairSpec == Spec /\ WF_vars(Recover)

-----------------------------------------------------------------------------
(* OverlayReader::read, block by block.                                    *)
OverlayRead(b) ==
  IF b = SbHostBlock THEN overlay.sb_host
  ELSE IF overlay.blocks[b] # NoWrite THEN overlay.blocks[b]
  ELSE image.disk[b]

-----------------------------------------------------------------------------
(* Properties.                                                             *)

Sources ==
  [first : Nat, maxlen : Nat, start : Nat, sequence : Seqs,
   mode : {"None", "Compat", "V2", "V3"}]
AnyBlock == Blocks \cup Superblocks
Writes == [fs_block : FsBlocks, content : AnyBlock, escape : BOOLEAN]
CommittedTx ==
  [sequence : Seqs, data_blocks_applied : Nat, data_blocks_revoked : Nat,
   data_blocks_escaped : Nat, revocation_entries : Nat, descriptor_blocks : Nat]
CommittedWrites ==
  [fs_block : FsBlocks, sequence : Seqs, tx_index : Nat, escape : BOOLEAN]

\* The state of WalkState, ReplayPlan and BlockOverlay has the types that
\* replay.rs declares, through every block of the log that is processed.
TypeOK ==
  /\ IsImage(image)
  /\ phase \in {"open", "walk", "apply", "done", "failed"}
  /\ phase \in {"walk", "apply", "done"} =>
       source \in Sources /\ source.first < source.maxlen
  /\ locator \in {"none", "inode", "backup", "device"}
  /\ IsJournal(journal)
  /\ cur \in Nat
  /\ expected_seq \in Seqs
  /\ pending \in [writes : Seq(Writes), revocations : Seq(FsBlocks),
                  descriptor_count : Nat]
  /\ committed_meta \in Seq(CommittedWrites)
  /\ latest \in [FsBlocks -> [sequence : Seqs \cup {-1},
                              content : AnyBlock \cup {NoWrite},
                              escape : BOOLEAN]]
  /\ \A b \in FsBlocks : latest[b].sequence # -1 => latest[b].content \in AnyBlock
  /\ revocations \in [FsBlocks -> Seqs \cup {-1}]
  /\ committed \in Seq(CommittedTx)
  /\ phase = "done" =>
       overlay \in [blocks : [FsBlocks -> Contents \cup {NoWrite}],
                   sb_host : Contents]

\* What the open transaction has logged for block b.
PendingContent(b) ==
  IF phase = "walk" /\ WritesTo(b) # {}
  THEN Unescape(Payload(LastWrite(b).content), LastWrite(b).escape)
  ELSE NoWrite

Redo == INSTANCE OrderedRedo WITH
  writes <- [b \in FsBlocks |-> PendingContent(b)],
  revokes <- IF phase = "walk" THEN {b \in FsBlocks : Revoked(b)} ELSE {},
  redone <- [b \in FsBlocks |-> ShownContent(b)],
  finished <- phase \notin {"open", "walk"}

\* The one pass of walk, with its map of last writes and its map of last
\* revocations, redoes whole transactions in commit order: a revocation
\* cancels the copies of earlier transactions and none of its own or of a
\* later one, and nothing of a transaction without a valid commit block is
\* ever redone.
RedoesInOrder == Redo!Spec

\* Transaction numbers do not run past their limit during the walk: process_commit
\* counts them with wrapping_add, but compares those of writes and revocations as
\* plain integers.
NoWrap == expected_seq < TidLimit - 1

\* Everything the walk has recorded is older than the transaction it is reading.
RecordedIsOlder ==
  /\ phase = "open" =>
       /\ pending = NoPending
       /\ \A b \in FsBlocks : latest[b].sequence = -1 /\ revocations[b] = -1
  /\ \A b \in FsBlocks :
       latest[b].sequence < expected_seq /\ revocations[b] < expected_seq

\* When apply_pass is done, a read of a block through OverlayReader returns
\* what the redone transactions leave there, and the block of the underlying
\* image where they leave nothing; the superblock never asks for recovery, and
\* a block beyond s_blocks_count is never redirected.
OverlayShowsRedone ==
  phase = "done" =>
    \A b \in FsBlocks :
      LET c == IF b < BlocksCount /\ ShownContent(b) # NoWrite THEN ShownContent(b)
               ELSE image.disk[b]
      IN  OverlayRead(b) = IF b = SbHostBlock THEN [c EXCEPT !.recover = FALSE]
                           ELSE c

\* The transactions reported in ReplayPlan.committed are numbered without a
\* gap from s_sequence on, and the sequence a stop reports as the last good
\* one is that of the last of them (the one before s_sequence if none).
ReportedSequencesAreConsecutive ==
  /\ \A k \in DOMAIN committed :
       committed[k].sequence = (source.sequence + k - 1) % TidLimit
  /\ stop # <<>> =>
       stop.last_good_sequence = (source.sequence + Len(committed) - 1) % TidLimit

\* The counts of the report agree with the overlay, which apply_pass computes
\* from another structure: there are at least as many applied writes as blocks
\* shown, none at all only if nothing is shown, and every suppressed write is
\* charged to exactly one transaction.
ReportAgreesWithOverlay ==
  phase = "done" =>
    LET applied == SumFunction([k \in DOMAIN committed |->
                                  committed[k].data_blocks_applied])
        revoked == SumFunction([k \in DOMAIN committed |->
                                  committed[k].data_blocks_revoked])
        visible == {b \in FsBlocks : overlay.blocks[b] # NoWrite}
                     \cup (IF SbStashed THEN {SbHostBlock} ELSE {})
    IN  /\ applied >= Cardinality(visible)
        /\ applied > 0 => visible # {}
        /\ summary.suppressed_writes = revoked

\* The report tells the truth: about the numbers of what was replayed, and
\* about how much of it a reader sees.
ReportIsTrue == ReportedSequencesAreConsecutive /\ ReportAgreesWithOverlay

\* Recovery ends, whatever block the log breaks off at.
Terminates == <>(phase \in {"done", "failed"})

=============================================================================
