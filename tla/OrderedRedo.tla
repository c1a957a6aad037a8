----------------------------- MODULE OrderedRedo -----------------------------
(***************************************************************************)
(* What journal recovery promises: transactions are redone one after the   *)
(* other, in commit order and each as a whole.  A transaction first        *)
(* cancels the earlier journal copies of the blocks it revokes and then    *)
(* installs its own writes; a transaction that does not commit leaves no   *)
(* trace.                                                                  *)
(***************************************************************************)
CONSTANTS
  FsBlocks,   \* filesystem block numbers
  Contents,   \* block contents
  NoWrite     \* "the journal says nothing about this block"

VARIABLES
  writes,     \* writes[b]: what the open transaction wrote to b, or NoWrite
  revokes,    \* the blocks the open transaction revokes
  redone,     \* redone[b]: what the redone transactions leave in b, or NoWrite
  finished    \* TRUE once recovery has stopped reading the log

vars == <<writes, revokes, redone, finished>>

Empty == [b \in FsBlocks |-> NoWrite]

TypeOK ==
  /\ writes \in [FsBlocks -> Contents \cup {NoWrite}]
  /\ revokes \subseteq FsBlocks
  /\ redone \in [FsBlocks -> Contents \cup {NoWrite}]
  /\ finished \in BOOLEAN

Init ==
  /\ writes = Empty
  /\ revokes = {}
  /\ redone = Empty
  /\ finished \in BOOLEAN

\* The open transaction grows: a block once written stays written, though
\* possibly with a newer content, and a block once revoked stays revoked.
Log ==
  /\ ~finished
  /\ writes' \in [FsBlocks -> Contents \cup {NoWrite}]
  /\ \A b \in FsBlocks : writes[b] # NoWrite => writes'[b] # NoWrite
  /\ revokes \subseteq revokes'
  /\ revokes' \subseteq FsBlocks
  /\ UNCHANGED <<redone, finished>>

\* The open transaction is redone as a whole; recovery may end with it.
Commit ==
  /\ ~finished
  /\ redone' = [b \in FsBlocks |->
                  IF writes[b] # NoWrite THEN writes[b]
                  ELSE IF b \in revokes THEN NoWrite
                  ELSE redone[b]]
  /\ writes' = Empty
  /\ revokes' = {}
  /\ finished' \in BOOLEAN

\* The log ends: whatever transaction is still open is dropped.
Stop ==
  /\ ~finished
  /\ finished' = TRUE
  /\ writes' = Empty
  /\ revokes' = {}
  /\ UNCHANGED redone

Next == Log \/ Commit \/ Stop

Spec == Init /\ [][Next]_vars
=============================================================================
