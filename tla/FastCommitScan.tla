--------------------------- MODULE FastCommitScan ---------------------------
(***************************************************************************)
(* The first pass of fast-commit recovery (journal/fast_commit): the       *)
(* blocks of the fast-commit region are read from the end of the journal   *)
(* and walked record by record, transaction by transaction, up to the      *)
(* first thing that is not a whole transaction of the expected tid.        *)
(*                                                                         *)
(* A record takes one slot of a block, a block SlotsPerBlock slots.  The   *)
(* CRC of a transaction is the sequence of the records it covers.  The tag *)
(* "BAD" stands for the headers that end the walk inside a transaction: an *)
(* unsupported tag, a length that is not valid for its tag or that exceeds *)
(* the region.                                                             *)
(***************************************************************************)
EXTENDS Integers, Sequences, SequencesExt

CONSTANTS
  MaxLen,          \* s_maxlen: the journal's length in blocks
  NumFc,           \* effective_num_fc_blocks
  JournalBlocks,   \* blocks the journal file really has
  SlotsPerBlock

ASSUME RegionFits == NumFc \in 1 .. MaxLen - 1 /\ SlotsPerBlock \in Nat \ {0}

VARIABLES
  journal,      \* the slots of each journal block
  region,       \* the slots read from the fast-commit blocks
  expected,     \* expected_tid
  pass,         \* "run", "open", "scan", "apply", "finalize", "done" or "err"
  pos,          \* the cursor
  crc,          \* the records covered by running_crc; empty: no transaction is open
  valid,        \* valid_tag_count
  good,         \* the transactions whose TAIL validated
  stop          \* the reason the walk stopped, or "none"

scanVars == <<journal, region, expected, pass, pos, crc, valid, good, stop>>

Rec(tag, tid, body) == [tag |-> tag, tid |-> tid, body |-> body]
ZERO == Rec("ZERO", 0, <<>>)
HEAD(tid) == Rec("HEAD", tid, <<>>)
TAIL(tid, covered) == Rec("TAIL", tid, covered)

transaction_open == crc # <<>>
at_end == pos > Len(region)
next_block(p) == (((p - 1) \div SlotsPerBlock) + 1) * SlotsPerBlock + 1

(***************************************************************************)
(* Reading the region.  A block that cannot be read fails the recovery.    *)
(***************************************************************************)
fc_first == MaxLen - NumFc + 1

read_region ==
  /\ pass = "open"
  /\ IF fc_first + NumFc <= JournalBlocks
     THEN /\ region' = FlattenSeq([i \in 1 .. NumFc |-> journal[fc_first + i - 1]])
          /\ pass' = "scan"
     ELSE pass' = "err" /\ UNCHANGED region
  /\ UNCHANGED <<journal, expected, pos, crc, valid, good, stop>>

(***************************************************************************)
(* The walk.                                                               *)
(***************************************************************************)
StopWith(reason) ==
  /\ stop' = reason /\ pass' = "apply"
  /\ UNCHANGED <<pos, crc, valid, good>>

Scanned(covered) ==
  /\ pos' = pos + 1 /\ crc' = covered
  /\ UNCHANGED <<pass, valid, good, stop>>

skip_zero_stays ==
  IF transaction_open THEN StopWith("RegionExhaustedMidTransaction")
  ELSE UNCHANGED <<pos, pass, crc, valid, good, stop>>
skip_zero ==
  IF transaction_open THEN StopWith("RegionExhaustedMidTransaction")
  ELSE pos' = next_block(pos) /\ UNCHANGED <<pass, crc, valid, good, stop>>

process_head(r) ==
  IF transaction_open THEN StopWith("nested HEAD")
  ELSE IF r.tid # expected THEN StopWith("HeadTidMismatch")
  ELSE Scanned(<<r>>)

process_tail_any_crc(r) ==
  IF r.tid # expected THEN StopWith("TailChecksumInvalid")
  ELSE /\ pos' = pos + 1 /\ crc' = <<>>
       /\ valid' = valid + Len(crc) + 1
       /\ good' = Append(good, Append(crc, r))
       /\ UNCHANGED <<pass, stop>>
process_tail(r) ==
  IF r.tid # expected \/ r.body # crc THEN StopWith("TailChecksumInvalid")
  ELSE /\ pos' = pos + 1 /\ crc' = <<>>
       /\ valid' = valid + Len(crc) + 1
       /\ good' = Append(good, Append(crc, r))
       /\ UNCHANGED <<pass, stop>>

\* A region that does not begin with a HEAD holds nothing and stops nothing.
nothing_to_scan ==
  /\ pass = "scan" /\ pos = 1 /\ region[1].tag # "HEAD"
  /\ pass' = "apply"
  /\ UNCHANGED <<journal, region, expected, pos, crc, valid, good, stop>>

scan_one_record ==
  /\ pass = "scan" /\ ~at_end /\ (pos = 1 => region[1].tag = "HEAD")
  /\ LET r == region[pos] IN
     CASE r.tag = "ZERO" -> skip_zero
       [] r.tag # "ZERO" /\ r.tag # "HEAD" /\ ~transaction_open ->
            StopWith("record outside transaction")
       [] r.tag = "BAD" /\ transaction_open -> StopWith("UnsupportedTag")
       [] r.tag = "HEAD" -> process_head(r)
       [] r.tag = "TAIL" /\ transaction_open -> process_tail(r)
       [] r.tag \notin {"ZERO", "BAD", "HEAD", "TAIL"} /\ transaction_open ->
            Scanned(Append(crc, r))
  /\ UNCHANGED <<journal, region, expected>>

scan_ends ==
  /\ pass = "scan" /\ at_end
  /\ pass' = "apply"
  /\ stop' = IF transaction_open THEN "RegionExhaustedMidTransaction" ELSE stop
  /\ UNCHANGED <<journal, region, expected, pos, crc, valid, good>>

Scan == read_region \/ nothing_to_scan \/ scan_one_record \/ scan_ends
=============================================================================
