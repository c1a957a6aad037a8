-------------------------- MODULE FastCommitCrash ---------------------------
(***************************************************************************)
(* The fast-commit region across a crash.  The writer (external: a running *)
(* ext4) appends transactions of the running tid to the region, each from  *)
(* a block of its own and padded with zeros to a whole block, and waits    *)
(* for its blocks to reach the disk in whatever order the disk chooses.  A *)
(* full commit makes the tid the next one and starts the region over       *)
(* without erasing it.  A crash may come at any moment, with any part of   *)
(* the last transaction on disk.                                           *)
(***************************************************************************)
EXTENDS FastCommitScan

CONSTANTS
  WriterFirst,    \* the journal block the writer's region begins at
  Ops, MaxOps, MaxTid

VARIABLES
  tid,        \* the tid of the running transaction
  wblock,     \* the region's next free block, from 0
  durable,    \* the transactions of this tid known to be on disk
  flight,     \* the records of the transaction being written, or none
  unwritten   \* the region blocks of flight not yet on disk

vars == <<scanVars, tid, wblock, durable, flight, unwritten>>

EmptyBlock == [i \in 1 .. SlotsPerBlock |-> ZERO]

Init ==
  /\ journal = [b \in 0 .. JournalBlocks - 1 |-> EmptyBlock]
  /\ region = <<>> /\ expected = 0 /\ pass = "run" /\ pos = 1
  /\ crc = <<>> /\ valid = 0 /\ good = <<>> /\ stop = "none"
  /\ tid = 1 /\ wblock = 0 /\ durable = <<>> /\ flight = <<>> /\ unwritten = {}

Transaction(ops) ==
  LET covered == <<HEAD(tid)>> \o [i \in DOMAIN ops |-> Rec("OP", 0, ops[i])]
  IN Append(covered, TAIL(tid, covered))

BlocksOf(tx) == (Len(tx) + SlotsPerBlock - 1) \div SlotsPerBlock
SlotsOfBlock(tx, k) ==
  [i \in 1 .. SlotsPerBlock |->
     LET p == k * SlotsPerBlock + i IN IF p <= Len(tx) THEN tx[p] ELSE ZERO]

BeginFastCommit ==
  /\ pass = "run" /\ flight = <<>>
  /\ \E ops \in UNION {[1 .. n -> Ops] : n \in 0 .. MaxOps} :
       /\ wblock + BlocksOf(Transaction(ops)) <= NumFc
       /\ flight' = Transaction(ops)
       /\ unwritten' = 0 .. BlocksOf(Transaction(ops)) - 1
  /\ UNCHANGED <<scanVars, tid, wblock, durable>>

WriteBlock ==
  /\ pass = "run"
  /\ \E k \in unwritten :
       /\ journal' = [journal EXCEPT ![WriterFirst + wblock + k] = SlotsOfBlock(flight, k)]
       /\ unwritten' = unwritten \ {k}
  /\ UNCHANGED <<region, expected, pass, pos, crc, valid, good, stop,
                 tid, wblock, durable, flight>>

EndFastCommit ==
  /\ pass = "run" /\ flight # <<>> /\ unwritten = {}
  /\ durable' = Append(durable, flight)
  /\ wblock' = wblock + BlocksOf(flight)
  /\ flight' = <<>>
  /\ UNCHANGED <<scanVars, tid, unwritten>>

FullCommit ==
  /\ pass = "run" /\ flight = <<>> /\ tid < MaxTid
  /\ tid' = tid + 1 /\ wblock' = 0 /\ durable' = <<>>
  /\ UNCHANGED <<scanVars, flight, unwritten>>

\* The tid recovery expects is the one after the last full commit's.
Crash ==
  /\ pass = "run"
  /\ pass' = "open" /\ expected' = tid
  /\ UNCHANGED <<journal, region, pos, crc, valid, good, stop,
                 tid, wblock, durable, flight, unwritten>>

Recover == Scan /\ UNCHANGED <<tid, wblock, durable, flight, unwritten>>

Next == BeginFastCommit \/ WriteBlock \/ EndFastCommit \/ FullCommit \/ Crash \/ Recover

\* One thread scans and nothing in the scan waits.
Spec == Init /\ [][Next]_vars /\ WF_vars(Recover)

(***************************************************************************)
(* Properties.                                                             *)
(***************************************************************************)
\* What the scan validates is every transaction that was synced under the
\* current tid, and at most the one being written besides: never a part of a
\* transaction, never one of an earlier tid that the region still holds.
RecoversWhatWasSynced ==
  pass = "apply" =>
    good = durable \/ (flight # <<>> /\ good = Append(durable, flight))

\* A transaction whose first block reached the disk and which is not recovered
\* leaves a reported stop ("discard it and all subsequent fast commit data").
TornIsReported ==
  pass = "apply" /\ flight # <<>> /\ 0 \notin unwritten /\ good = durable => stop # "none"

\* The scan of whatever the crash left comes to an end, past any padding.
ScanEnds == (pass = "open") ~> (pass \in {"apply", "err"})

\* "The fast commit area (last s_num_fc_blocks blocks of the journal) is
\* scanned": in a journal of s_maxlen blocks recovery can read the area.
RegionIsReadable == pass # "err"
=============================================================================
