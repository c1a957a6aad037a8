------------------------------ MODULE VhdxCrash ------------------------------
(***************************************************************************)
(* A VHDX image as a writer left it, opened by VhdxLog.  The writer is     *)
(* external (the hypervisor that owned the image): it logs a write whole   *)
(* before it makes it, makes logged writes in order, lets the tail of the  *)
(* log follow what the file holds durably, never writes over an entry the  *)
(* last whole entry reaches back to, and switches the log on and off by    *)
(* rewriting the older of the two headers.  It may stop after any sector.  *)
(***************************************************************************)
EXTENDS VhdxLog

CONSTANTS
  Payloads,     \* the writes of an entry: sequences of [block, zero]
  MaxBlocks,    \* blocks the file may grow to
  MaxEntries,   \* bound on entries written
  MaxSessions   \* bound on times the writer opens the image

ASSUME CrashAssumption ==
  /\ MaxBlocks \in Nat \ {0} /\ MaxEntries \in Nat /\ MaxSessions \in Nat
  /\ Payloads \subseteq Seq([block : 0..(MaxBlocks - 1), zero : BOOLEAN])

VARIABLES
  headers,   \* the two headers
  log,       \* the log ring's sectors
  file,      \* the value of every block
  length,    \* the file's length
  flushed,   \* how much of that length is durable
  w,         \* the writer
  states,    \* the contents after each entry begun, oldest first
  durable,   \* how many entries must survive
  res        \* what opening the image produced

vars == <<headers, log, file, length, flushed, w, states, durable, res>>

NotOpened == [status |-> "none"]
AllBlocks == 0..(MaxBlocks - 1)
Header(ok, sequence, guid) == [ok |-> ok, sequence |-> sequence, log_guid |-> guid]

Init ==
  /\ headers = <<Header(TRUE, 1, NoGuid), Header(TRUE, 2, NoGuid)>>
  /\ log = [o \in 0..(LogSectors - 1) |-> Blank]
  /\ file = [b \in AllBlocks |-> 0]
  /\ length = 1
  /\ flushed = 1
  /\ w = [pc |-> "closed", sessions |-> 0, guid |-> NoGuid, sequence |-> 1,
          head |-> 0, entry |-> NoEntry, pending |-> {}, reserved |-> <<>>,
          live |-> <<>>, applied |-> 0]
  /\ states = <<[b \in AllBlocks |-> 0]>>
  /\ durable = 1
  /\ res = NotOpened

-----------------------------------------------------------------------------
(* The writer.                                                              *)

OpenSession ==
  /\ w.pc = "closed"
  /\ w.sessions < MaxSessions
  /\ w' = [w EXCEPT !.pc = "starting", !.sessions = @ + 1, !.sequence = 1,
                    !.guid = w.sessions + 1, !.reserved = <<>>]
  /\ UNCHANGED <<headers, log, file, length, flushed, states, durable, res>>

Extend ==
  /\ w.pc = "running"
  /\ length < MaxBlocks
  /\ length' = length + 1
  /\ UNCHANGED <<headers, log, file, flushed, w, states, durable, res>>

\* The contents once the writes have been made.
After(content, writes) ==
  [b \in AllBlocks |-> Patch(writes, b, content[b])]

ReservedSectors ==
  LET sum[n \in 0..Len(w.reserved)] ==
        IF n = 0 THEN 0 ELSE sum[n - 1] + w.reserved[n].entry.length
  IN  sum[Len(w.reserved)]

BeginEntry(payload) ==
  LET number == Len(states)
      writes == [i \in DOMAIN payload |->
                   [block |-> payload[i].block,
                    value |-> IF payload[i].zero THEN 0 ELSE number]]
      data   == Cardinality({i \in DOMAIN payload : ~payload[i].zero})
      entry  == [guid |-> w.guid, sequence |-> w.sequence, length |-> 1 + data,
                 tail |-> IF w.live = <<>> THEN w.head ELSE w.live[1].offset,
                 writes |-> writes, flushed |-> flushed, last |-> length]
  IN  /\ w.pc = "running" \/ (w.pc = "starting" /\ w.live = <<>>)
      /\ w.entry = NoEntry
      /\ number <= MaxEntries
      /\ \A i \in DOMAIN payload : payload[i].block < length
      /\ ReservedSectors + entry.length <= LogSectors
      /\ w' = [w EXCEPT !.entry = entry, !.pending = 0..data]
      /\ states' = Append(states, After(states[number], writes))
      /\ UNCHANGED <<headers, log, file, length, flushed, durable, res>>

WriteSector(i) ==
  /\ w.pc \in {"starting", "running"}
  /\ i \in w.pending
  /\ log' = [log EXCEPT ![(w.head + i) % LogSectors] =
                          [entry |-> w.entry, index |-> i]]
  /\ w' = [w EXCEPT !.pending = @ \ {i}]
  /\ UNCHANGED <<headers, file, length, flushed, states, durable, res>>

\* The entry is whole.  The first of a session takes effect with its header.
EntryWhole ==
  LET placed == [offset |-> w.head, entry |-> w.entry]
      all    == Append(w.reserved, placed)
      tail   == CHOOSE i \in DOMAIN all : all[i].offset = w.entry.tail
  IN  /\ w.pc \in {"starting", "running"}
      /\ w.entry # NoEntry
      /\ w.pending = {}
      /\ w' = [w EXCEPT !.entry = NoEntry, !.sequence = @ + 1,
                        !.head = (@ + w.entry.length) % LogSectors,
                        !.reserved = SubSeq(all, tail, Len(all)),
                        !.live = Append(@, placed)]
      /\ durable' = IF w.pc = "running" THEN Len(states) ELSE durable
      /\ UNCHANGED <<headers, log, file, length, flushed, states, res>>

\* The older header is rewritten: torn, then whole.
OlderHeader ==
  IF ~headers[1].ok \/ (headers[2].ok /\ headers[1].sequence < headers[2].sequence)
    THEN 1 ELSE 2

BeginHeader(pc, enabled) ==
  /\ enabled
  /\ w' = [w EXCEPT !.pc = pc]
  /\ headers' = [headers EXCEPT ![OlderHeader].ok = FALSE]
  /\ UNCHANGED <<log, file, length, flushed, states, durable, res>>

NewestSequence == IF headers[1].sequence < headers[2].sequence
                    THEN headers[2].sequence ELSE headers[1].sequence

SwitchLogOn == BeginHeader("on", w.pc = "starting" /\ w.live # <<>>)
SwitchLogOff ==
  BeginHeader("off", w.pc = "running" /\ w.live = <<>> /\ w.entry = NoEntry)

HeaderWhole ==
  /\ w.pc \in {"on", "off"}
  /\ headers' = [headers EXCEPT ![OlderHeader] =
       Header(TRUE, NewestSequence + 1, IF w.pc = "on" THEN w.guid ELSE NoGuid)]
  /\ w' = [w EXCEPT !.pc = IF @ = "on" THEN "running" ELSE "closed"]
  /\ durable' = Len(states)
  /\ UNCHANGED <<log, file, length, flushed, states, res>>

ApplyWrite ==
  /\ w.pc = "running"
  /\ w.live # <<>>
  /\ w.applied < Len(w.live[1].entry.writes)
  /\ LET write == w.live[1].entry.writes[w.applied + 1]
     IN  file' = [file EXCEPT ![write.block] = write.value]
  /\ w' = [w EXCEPT !.applied = @ + 1]
  /\ UNCHANGED <<headers, log, length, flushed, states, durable, res>>

Retire ==
  /\ w.pc = "running"
  /\ w.live # <<>>
  /\ w.applied = Len(w.live[1].entry.writes)
  /\ flushed' = length
  /\ w' = [w EXCEPT !.live = Tail(@), !.applied = 0]
  /\ UNCHANGED <<headers, log, file, length, states, durable, res>>

Crash ==
  /\ w.pc # "stopped"
  /\ w' = [w EXCEPT !.pc = "stopped"]
  /\ length' \in flushed..length
  /\ UNCHANGED <<headers, log, file, flushed, states, durable, res>>

-----------------------------------------------------------------------------
(* fsmnt opens what is left.                                                *)

open_layer ==
  /\ w.pc = "stopped"
  /\ res = NotOpened
  /\ res' \in OpenedViews(headers, log, file, length)
  /\ UNCHANGED <<headers, log, file, length, flushed, w, states, durable>>

Next ==
  \/ OpenSession \/ Extend
  \/ \E p \in Payloads : BeginEntry(p)
  \/ \E i \in 0..(LogSectors - 1) : WriteSector(i)
  \/ EntryWhole \/ SwitchLogOn \/ SwitchLogOff \/ HeaderWhole
  \/ ApplyWrite \/ Retire \/ Crash
  \/ open_layer

Spec == Init /\ [][Next]_vars

-----------------------------------------------------------------------------
Shows(view, content) ==
  \A b \in AllBlocks :
    content[b] = IF b < view.length THEN view.content[b] ELSE 0

\* Whenever the writer stopped, the opened image shows the contents after one of
\* its entries: all that it had made durable, and no entry by halves.
RecoversAPrefix ==
  res.status = "open" =>
    \E k \in durable..Len(states) : Shows(res, states[k])

\* An image left by a writer that keeps its protocol is never refused, and the
\* order in which the hash map of entries is walked does not matter: there is at
\* most one active sequence to find.
OpensOneWay ==
  /\ res.status # "refused"
  /\ \A guid \in 1..MaxSessions :
       Cardinality(ActiveSequences(scan_valid_entries(log, guid))) <= 1

=============================================================================
