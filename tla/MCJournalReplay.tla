--------------------------- MODULE MCJournalReplay ---------------------------
(***************************************************************************)
(* Small journals for JournalReplay: logs of up to MaxTx transactions of a *)
(* few shapes, laid around a ring that wraps, whole or damaged in one      *)
(* block.                                                                  *)
(***************************************************************************)
EXTENDS JournalReplay, SequencesExt

CONSTANTS MaxTx, Modes, Starts, MaxLen

MCBodies == {"old", "a", "b", "c", "sb", "header"}
Data(head, body, recover) ==
  [kind |-> "data", head |-> head, body |-> body, recover |-> recover]
Zero == Data("zero", "old", FALSE)
MCChecksums == Seqs \X DataBlocks

\* What is logged for a filesystem block.  A block that begins with the journal
\* magic is logged with its first word zeroed and the ESCAPE flag.
Log(b, body, magic) ==
  [fs_block |-> b,
   data |-> Data(IF magic THEN "zero" ELSE "other", body, b = SbHostBlock),
   escape |-> magic]

\* The shapes of a transaction: blocks revoked and blocks written.  Block 3 is
\* out of range, block 0 holds the superblock.
Shapes ==
  {[rev |-> <<>>, wr |-> <<Log(1, "a", FALSE)>>],
   [rev |-> <<>>, wr |-> <<Log(1, "b", TRUE), Log(2, "b", FALSE)>>],
   [rev |-> <<1>>, wr |-> <<>>],
   [rev |-> <<1, 3>>, wr |-> <<Log(2, "c", FALSE)>>],
   [rev |-> <<2>>, wr |-> <<Log(2, "a", TRUE)>>],
   [rev |-> <<>>, wr |-> <<Log(0, "sb", FALSE), Log(3, "c", FALSE)>>]}

Tag(w, seq) ==
  [fs_block |-> w.fs_block, escape |-> w.escape, checksum |-> <<seq, w.data>>]

\* The blocks a writer puts into the log for one transaction.
Encode(tx, seq) ==
  (IF tx.rev = <<>> THEN <<>>
   ELSE <<[kind |-> "revoke", seq |-> seq, tail_ok |-> TRUE, count_ok |-> TRUE,
           blocks |-> tx.rev]>>)
  \o (IF tx.wr = <<>> THEN <<>>
      ELSE <<[kind |-> "desc", seq |-> seq, tail_ok |-> TRUE,
              tags |-> [i \in DOMAIN tx.wr |-> Tag(tx.wr[i], seq)],
              has_last_tag |-> TRUE]>>
           \o [i \in DOMAIN tx.wr |-> tx.wr[i].data])
  \o <<[kind |-> "commit", seq |-> seq, tail_ok |-> TRUE,
        checksum |-> [i \in DOMAIN tx.wr |-> tx.wr[i].data]]>>

FirstSeq == 7 % TidLimit

LogOf(txs) ==
  FlattenSeq([i \in DOMAIN txs |-> Encode(txs[i], (FirstSeq + i - 1) % TidLimit)])

Super(mode, start) ==
  [kind |-> "super", seq |-> 0, version |-> "V2", blocksize_ok |-> TRUE,
   maxlen |-> MaxLen, first |-> 1, start |-> start, sequence |-> FirstSeq,
   unknown_incompat |-> FALSE, csum_v2 |-> mode = "V2", csum_v3 |-> mode = "V3",
   async_commit |-> FALSE, compat_checksum |-> mode = "Compat",
   crc32c_type |-> TRUE, checksum_ok |-> TRUE, uuid_ok |-> TRUE,
   fast_commit |-> FALSE]

\* The log in the ring of slots 1..MaxLen, from slot start on.
Ring(log, mode, start) ==
  [i \in 0..MaxLen |->
     IF i = 0 THEN Super(mode, start)
     ELSE LET at == ((i - start) % MaxLen) + 1
          IN  IF at \in DOMAIN log THEN log[at] ELSE Zero]

Truncate(j, i) == [k \in 0..(i - 1) |-> j[k]]

\* The ways a block may be damaged.
Damaged(b) ==
  {Zero, Data("other", "c", FALSE), [kind |-> "unknown", seq |-> FirstSeq]}
  \cup CASE b.kind = "desc" ->
              {[b EXCEPT !.tail_ok = FALSE], [b EXCEPT !.has_last_tag = FALSE],
               [b EXCEPT !.seq = (@ + 1) % TidLimit]}
         [] b.kind = "revoke" ->
              {[b EXCEPT !.tail_ok = FALSE], [b EXCEPT !.count_ok = FALSE]}
         [] b.kind = "commit" ->
              {[b EXCEPT !.tail_ok = FALSE], [b EXCEPT !.seq = (@ + 1) % TidLimit]}
         [] OTHER -> {}

Slot(start, at) == ((start + at - 2) % MaxLen) + 1

Logs == {LogOf(txs) : txs \in SeqOf(Shapes, MaxTx)}
FittingLogs == {log \in Logs : Len(log) <= MaxLen}

Rings(mode, start) ==
  UNION {LET j == Ring(log, mode, start)
         IN  {j} \cup {Truncate(j, i) : i \in 1..MaxLen}
                 \cup UNION {{[j EXCEPT ![Slot(start, at)] = d] :
                                d \in Damaged(log[at])} : at \in DOMAIN log}
         : log \in FittingLogs}

MCDisk ==
  [b \in FsBlocks |->
     [head |-> "other", body |-> "old", recover |-> b = SbHostBlock]]

Through(how, j) ==
  [has_journal |-> TRUE, inum_zero |-> FALSE, journal_dev |-> how = "device",
   via_inode |-> IF how = "inode" THEN j ELSE <<>>,
   via_backup |-> IF how = "backup" THEN j ELSE <<>>,
   via_device |-> IF how = "device" THEN j ELSE <<>>,
   disk |-> MCDisk]

LogImages ==
  {Through("inode", j) : j \in UNION {Rings(m, s) : m \in Modes, s \in Starts}}

(***************************************************************************)
(* One log under every combination of superblock fields, reached through   *)
(* the journal inode, the backup map and an external device.               *)
(***************************************************************************)
SampleLog ==
  LogOf(<<[rev |-> <<>>, wr |-> <<Log(1, "a", FALSE)>>],
          [rev |-> <<2>>, wr |-> <<>>]>>)
SampleSupers ==
  [kind : {"super"}, seq : {0}, version : {"V1", "V2", "other"},
   blocksize_ok : BOOLEAN, maxlen : {0, MaxLen}, first : {1, MaxLen},
   start : {0, MaxLen - 1}, sequence : {FirstSeq}, unknown_incompat : BOOLEAN,
   csum_v2 : BOOLEAN, csum_v3 : BOOLEAN, async_commit : BOOLEAN,
   compat_checksum : {FALSE}, crc32c_type : BOOLEAN, checksum_ok : BOOLEAN,
   uuid_ok : {TRUE}, fast_commit : {FALSE}]
WithSuper(sb) == [Ring(SampleLog, "None", MaxLen - 1) EXCEPT ![0] = sb]
Good == WithSuper(Super("None", MaxLen - 1))

DeviceSupers ==
  {[Super("V2", MaxLen - 1) EXCEPT !.version = v, !.blocksize_ok = k,
                                   !.uuid_ok = u, !.fast_commit = f] :
     v \in {"V1", "V2"}, k \in BOOLEAN, u \in BOOLEAN, f \in BOOLEAN}

SuperImages ==
  {[Through("inode", WithSuper(sb)) EXCEPT !.via_backup = j] :
     sb \in SampleSupers, j \in {<<>>, Good}}
  \cup {Through("device", WithSuper(sb)) : sb \in DeviceSupers}
  \cup {Through(how, Truncate(Good, i)) :
          how \in {"inode", "backup", "device"}, i \in 0..MaxLen}
  \cup [has_journal : BOOLEAN, inum_zero : BOOLEAN, journal_dev : BOOLEAN,
        via_inode : {<<>>, Good}, via_backup : {Good}, via_device : {<<>>},
        disk : {MCDisk}]

MCImages == LogImages \cup SuperImages
=============================================================================
