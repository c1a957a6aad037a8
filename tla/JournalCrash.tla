---------------------------- MODULE JournalCrash ----------------------------
(***************************************************************************)
(* Journal recovery after a crash.  A running ext filesystem logs its      *)
(* metadata through jbd2 (the kernel's side, known here only through the   *)
(* journals that JournalReplay has to understand), checkpoints it to its   *)
(* home blocks, reuses freed metadata blocks for file data that never goes *)
(* through the log, and stops at any moment with any part of the last      *)
(* transaction on disk.  Recovery then reads what is there.                *)
(***************************************************************************)
EXTENDS JournalReplay

CONSTANTS
  MaxLen,    \* s_maxlen
  RingLast,  \* the last slot the writer uses before it wraps to slot 1
  Modes,     \* checksum modes of the journals considered
  Vals,      \* Vals[t]: the body of every block that transaction t logs
  FirstTid,  \* number of the first transaction
  LastTid,   \* bound: number of the last transaction
  Heads      \* where in the ring the log may begin

VARIABLES
  disk,      \* the home blocks
  ring,      \* the journal as it is on disk
  head,      \* the slot the next log block goes to
  tid,       \* the number of the next transaction
  inflight,  \* slot -> log block that has been submitted but is not on disk
  log,       \* transactions on disk that the journal superblock still covers
  state,     \* what each block holds: "meta", "free" or "data"
  durable    \* what each block must hold after a crash, NoWrite if anything

writerVars == <<disk, ring, head, tid, inflight, log, state, durable>>
crashVars == <<vars, writerVars>>

Home(body, magic, b) ==
  [head |-> IF magic THEN "magic" ELSE "other", body |-> body,
   recover |-> b = SbHostBlock]

\* A block as it is logged: one that begins with the journal magic has its
\* first word zeroed.
Logged(c) ==
  [kind |-> "data", head |-> IF c.head = "magic" THEN "zero" ELSE c.head,
   body |-> c.body, recover |-> c.recover]

Async(mode) == mode = "V3"

EmptyRing(mode) ==
  [i \in 0..RingLast |->
     IF i = 0
     THEN [kind |-> "super", seq |-> 0, version |-> "V2", blocksize_ok |-> TRUE,
           maxlen |-> MaxLen, first |-> 1, start |-> 0, sequence |-> FirstTid,
           unknown_incompat |-> FALSE, csum_v2 |-> mode = "V2",
           csum_v3 |-> mode = "V3", async_commit |-> Async(mode),
           compat_checksum |-> mode = "Compat", crc32c_type |-> TRUE,
           checksum_ok |-> TRUE, uuid_ok |-> TRUE, fast_commit |-> FALSE]
     ELSE Logged(Home("old", FALSE, 1))]

\* Recovery has not begun; the filesystem is mounted read-write elsewhere.
CrashInit ==
  /\ \E mode \in Modes : ring = EmptyRing(mode)
  /\ disk = [b \in FsBlocks |-> Home("old", FALSE, b)]
  /\ head \in Heads
  /\ tid = FirstTid
  /\ inflight = <<>>
  /\ log = <<>>
  /\ state = [b \in FsBlocks |-> "meta"]
  /\ durable = disk
  /\ image = <<>>
  /\ phase = "mounted"
  /\ Untouched

-----------------------------------------------------------------------------
(* The running filesystem.                                                 *)

SlotFrom(slot, i) == ((slot + i - 2) % RingLast) + 1

UsedSlots == SumFunction([k \in DOMAIN log |-> log[k].len])

\* The log blocks of a transaction that revokes the blocks rs and writes
\* content c[b] to the blocks b of the sequence ws.
LogBlocks(rs, ws, c) ==
  (IF rs = <<>> THEN <<>>
   ELSE <<[kind |-> "revoke", seq |-> tid, tail_ok |-> TRUE, count_ok |-> TRUE,
           blocks |-> rs]>>)
  \o (IF ws = <<>> THEN <<>>
      ELSE <<[kind |-> "desc", seq |-> tid, tail_ok |-> TRUE, has_last_tag |-> TRUE,
              tags |-> [i \in DOMAIN ws |->
                          [fs_block |-> ws[i], escape |-> c[ws[i]].head = "magic",
                           checksum |-> <<tid, Logged(c[ws[i]])>>]]]>>
           \o [i \in DOMAIN ws |-> Logged(c[ws[i]])])
  \o <<[kind |-> "commit", seq |-> tid, tail_ok |-> TRUE,
        checksum |-> [i \in DOMAIN ws |-> Logged(c[ws[i]])]]>>

Ascending(S) == {s \in [1..Cardinality(S) -> S] :
                   \A i, j \in 1..Cardinality(S) : i < j => s[i] < s[j]}

\* A transaction is closed and its log blocks are submitted.  Blocks that hold
\* metadata may be freed, which revokes them; an empty journal is marked as in
\* use first.
Submit ==
  /\ phase = "mounted"
  /\ inflight = <<>>
  /\ tid <= LastTid
  /\ \E W \in SUBSET FsBlocks, R \in SUBSET {b \in FsBlocks : state[b] = "meta"},
        magic \in BOOLEAN :
       /\ W \cap R = {}
       /\ W \cup R # {}
       /\ SbHostBlock \notin R
       /\ \E ws \in Ascending(W), rs \in Ascending(R) :
            LET c == [b \in FsBlocks |-> Home(Vals[tid - FirstTid + 1], magic, b)]
                blocks == LogBlocks(rs, ws, c)
            IN  /\ UsedSlots + Len(blocks) <= RingLast
                /\ inflight' = [slot \in {SlotFrom(head, i) : i \in DOMAIN blocks} |->
                                  blocks[((slot - head) % RingLast) + 1]]
                /\ head' = SlotFrom(head, Len(blocks) + 1)
                /\ log' = Append(log, [tid |-> tid, first |-> head,
                                       len |-> Len(blocks), writes |-> W,
                                       revokes |-> R, content |-> c])
  /\ ring' = IF ring[0].start = 0
             THEN [ring EXCEPT ![0].start = head, ![0].sequence = tid]
             ELSE ring
  /\ UNCHANGED <<vars, disk, tid, state, durable>>

CommitSlots == {slot \in DOMAIN inflight : inflight[slot].kind = "commit"}

\* One submitted block reaches the disk, in any order; the commit block waits
\* for the others unless the journal commits asynchronously.  With the last
\* block the transaction is durable.
Land ==
  /\ phase = "mounted"
  /\ \E slot \in DOMAIN inflight :
       /\ slot \in CommitSlots =>
            DOMAIN inflight = CommitSlots \/ ring[0].async_commit
       /\ ring' = [ring EXCEPT ![slot] = inflight[slot]]
       /\ inflight' = [s \in DOMAIN inflight \ {slot} |-> inflight[s]]
       /\ IF DOMAIN inflight # {slot}
          THEN UNCHANGED <<tid, state, durable>>
          ELSE LET tx == log[Len(log)]
               IN  /\ tid' = tid + 1
                   /\ state' = [b \in FsBlocks |->
                                  IF b \in tx.writes THEN "meta"
                                  ELSE IF b \in tx.revokes THEN "free" ELSE state[b]]
                   /\ durable' = [b \in FsBlocks |->
                                    IF b \in tx.writes THEN tx.content[b]
                                    ELSE IF b \in tx.revokes THEN NoWrite
                                    ELSE durable[b]]
  /\ UNCHANGED <<vars, disk, head, log>>

\* A freed block gets file data, which is not logged.
WriteData ==
  /\ phase = "mounted"
  /\ \E b \in FsBlocks :
       /\ state[b] = "free"
       /\ disk' = [disk EXCEPT ![b] = Home("file", FALSE, b)]
       /\ state' = [state EXCEPT ![b] = "data"]
       /\ durable' = [durable EXCEPT ![b] = Home("file", FALSE, b)]
  /\ UNCHANGED <<vars, ring, head, tid, inflight, log>>

\* A metadata block is written home.
WriteHome ==
  /\ phase = "mounted"
  /\ \E b \in FsBlocks :
       /\ state[b] = "meta"
       /\ disk[b] # durable[b]
       /\ disk' = [disk EXCEPT ![b] = durable[b]]
  /\ UNCHANGED <<vars, ring, head, tid, inflight, log, state, durable>>

Settled(k) ==
  \A b \in log[k].writes : state[b] = "meta" => disk[b] = durable[b]

\* The tail of the log moves past transactions all of whose blocks are home.
Checkpoint ==
  /\ phase = "mounted"
  /\ inflight = <<>>
  /\ log # <<>>
  /\ Settled(1)
  /\ log' = Tail(log)
  /\ ring' = [ring EXCEPT
                ![0].start = IF Len(log) = 1 THEN 0 ELSE log[2].first,
                ![0].sequence = log[1].tid + 1]
  /\ UNCHANGED <<vars, disk, head, tid, inflight, state, durable>>

\* The machine stops.  The journal inode may be damaged, in which case the
\* superblock's copy of its block map leads to the log.
Crash ==
  /\ phase = "mounted"
  /\ \E damaged \in BOOLEAN :
       image' = [has_journal |-> TRUE, inum_zero |-> FALSE, journal_dev |-> FALSE,
                 via_inode |-> IF damaged THEN <<>> ELSE ring,
                 via_backup |-> ring, via_device |-> <<>>, disk |-> disk]
  /\ phase' = "open"
  /\ UNCHANGED <<source, locator, journal, walkVars, planVars, writerVars>>

CrashNext ==
  \/ Submit \/ Land \/ WriteData \/ WriteHome \/ Checkpoint \/ Crash
  \/ Recover /\ UNCHANGED writerVars

\* The media can be read.  Recovery runs to its end; nothing else has to happen.
CrashSpec ==
  CrashInit /\ [][CrashNext]_crashVars

-----------------------------------------------------------------------------
(* Properties.                                                             *)

\* Through the overlay that JournalReplay::build makes after a crash, every block
\* reads as the last transaction that was wholly on disk left it, wherever the
\* crash fell: in the middle of a commit, between a checkpoint's writes and the
\* move of the log's tail, or after freed metadata was overwritten with file data
\* that a log copy of it must not undo.  A log that jbd2 wrote never makes
\* recovery fail.
RecoversDurableState ==
  /\ phase # "failed"
  /\ phase = "done" =>
       \A b \in FsBlocks :
         durable[b] # NoWrite =>
           OverlayRead(b) = IF b = SbHostBlock THEN [durable[b] EXCEPT !.recover = FALSE]
                            ELSE durable[b]

-----------------------------------------------------------------------------
(* Small instances for TLC.                                                *)

MCVals == <<"v1", "v2", "v3", "v4">>
MCBodies == {"old", "file", "header", "v1", "v2", "v3", "v4"}
MCChecksums == Seqs \X DataBlocks
=============================================================================
