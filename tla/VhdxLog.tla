------------------------------- MODULE VhdxLog -------------------------------
(***************************************************************************)
(* How a VHDX image with a dirty log is read: the header that is in force, *)
(* the entries of the log ring that are whole, the sequence of them that   *)
(* is active, and the view of the file with that sequence replayed into    *)
(* memory.  Pure operators; VhdxCrash applies them to what a writer that   *)
(* stopped anywhere leaves behind.                                         *)
(*                                                                         *)
(* A log sector is the entry it was written for and its index in it.  The  *)
(* checksum of an entry covers all its sectors, so an entry is valid when  *)
(* all of them are its own.                                                *)
(***************************************************************************)
EXTENDS Integers, Sequences, FiniteSets

CONSTANT LogSectors   \* length of the log ring

ASSUME LogAssumption == LogSectors \in Nat \ {0}

NoGuid == 0    \* the GUID of a header whose log is empty
Refused == [status |-> "refused"]

NoEntry == [sequence |-> 0]
Blank == [entry |-> NoEntry, index |-> 0]

LastEntry(chain) == chain[Len(chain)]

-----------------------------------------------------------------------------
\* A header is a record [ok, sequence, log_guid]; ok says its checksum holds.
\* The headers parse_active_header may take: of two good ones the newer.
ActiveHeadersBoth(headers) ==
  {h \in {headers[1], headers[2]} :
     \A g \in {headers[1], headers[2]} : g.ok /\ g.sequence <= h.sequence}
ActiveHeaders(headers) ==
  IF headers[1].ok /\ headers[2].ok /\ headers[1].sequence = headers[2].sequence
    THEN {}
    ELSE {h \in {headers[1], headers[2]} :
            /\ h.ok
            /\ \A g \in {headers[1], headers[2]} :
                 g.ok => g.sequence <= h.sequence}

-----------------------------------------------------------------------------
\* The sectors of an entry of the given length at offset, around the ring.
Sector(log, offset, i) == log[(offset + i) % LogSectors]

validate_entry(log, offset, guid) ==
  LET e == log[offset].entry
  IN  /\ e.sequence # 0
      /\ e.length \in 1..LogSectors
      /\ e.tail \in 0..(LogSectors - 1)
      /\ e.guid = guid
      /\ \A i \in 0..(e.length - 1) :
           Sector(log, offset, i) = [entry |-> e, index |-> i]

\* scan_valid_entries: the entries found, each with its offset.
scan_valid_entries(log, guid) ==
  {[offset |-> o, entry |-> log[o].entry] :
     o \in {p \in 0..(LogSectors - 1) : validate_entry(log, p, guid)}}

EntryAt(entries, offset) == {x \in entries : x.offset = offset}

\* The chain of entries that follow each other from start: one after the other
\* around the ring, in consecutive sequence, none of them twice.
Chain(entries, start) ==
  LET chain[n \in 0..Cardinality(entries)] ==
        IF n = 0
          THEN <<>>
          ELSE LET prev == chain[n - 1]
                   at   == IF n = 1
                             THEN start
                             ELSE (LastEntry(prev).offset + LastEntry(prev).entry.length)
                                    % LogSectors
                   next == {x \in EntryAt(entries, at) :
                              /\ n > 1 => x.entry.sequence
                                            = LastEntry(prev).entry.sequence + 1
                              /\ \A i \in DOMAIN prev : prev[i].offset # at}
               IN  IF Len(prev) < n - 1 \/ next = {}
                     THEN prev
                     ELSE Append(prev, CHOOSE x \in next : TRUE)
  IN  chain[Cardinality(entries)]

\* The sequences that end at an entry whose tail they reach back to.
Sequences(entries) ==
  UNION {LET chain == Chain(entries, start.offset)
         IN  {SubSeq(chain, p[1], p[2]) :
                p \in {q \in (DOMAIN chain) \X (DOMAIN chain) :
                         /\ q[1] <= q[2]
                         /\ chain[q[1]].offset = chain[q[2]].entry.tail}} :
         start \in entries}

\* find_active_sequence visits the starts in the order of a hash map and keeps
\* the first sequence with the greatest head: any of these.
ActiveSequences(entries) ==
  {s \in Sequences(entries) :
     \A r \in Sequences(entries) :
       LastEntry(r).entry.sequence <= LastEntry(s).entry.sequence}

-----------------------------------------------------------------------------
\* The file's blocks are 0..(length - 1); a write is [block, value].
\* LogOverlay.patch: the runs of the active sequence in replay order.
Runs(active) ==
  LET runs[n \in 0..Len(active)] ==
        IF n = 0 THEN <<>> ELSE runs[n - 1] \o active[n].entry.writes
  IN  runs[Len(active)]

Patch(runs, block, value) ==
  LET hits == {i \in DOMAIN runs : runs[i].block = block}
  IN  IF hits = {}
        THEN value
        ELSE runs[CHOOSE i \in hits : \A j \in hits : j <= i].value

Larger(a, b) == IF a < b THEN b ELSE a

\* What a reader of the container sees: blocks past the physical end are zeros,
\* and every read is patched.
View(file, length, runs, effective) ==
  [status |-> "open",
   length |-> effective,
   content |-> [b \in 0..(effective - 1) |->
                  Patch(runs, b, IF b < length THEN file[b] ELSE 0)]]

\* open_layer up to the log: the views that opening the container may produce.
OpenedViews(headers, log, file, length) ==
  IF ActiveHeaders(headers) = {}
    THEN {Refused}
    ELSE LET header == CHOOSE h \in ActiveHeaders(headers) : TRUE
             active == ActiveSequences(scan_valid_entries(log, header.log_guid))
         IN  IF header.log_guid = NoGuid
               THEN {View(file, length, <<>>, length)}
               ELSE IF active = {}
                 THEN {Refused}
                 ELSE {IF length < LastEntry(s).entry.flushed
                         THEN Refused
                         ELSE View(file, length, Runs(s),
                                   Larger(length, LastEntry(s).entry.last)) :
                       s \in active}

=============================================================================
