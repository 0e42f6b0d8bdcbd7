------------------------------- MODULE EventLog -------------------------------
(* The room event log: EventRepo's chained append and payload redaction, the    *)
(* verification of the chain (security/audit.py) and the audit export           *)
(* (services/audit.py).  A row keeps the hash it was chained with for ever;     *)
(* redaction replaces its payload by a marker and records what it stood for.    *)
(* Readers run on connections of their own, so a verification is several reads  *)
(* with anybody's commits between them.  A hash is the tuple it is taken over.  *)
EXTENDS Integers, Sequences, FiniteSets

CONSTANTS Rooms, Texts, Auditors,
          MaxEvents,       \* bound: events per room
          MaxAudits,       \* bound: audits started
          PageSize         \* rows of one page of an export (500 in the code)

ASSUME EventLogAssumption ==
    MaxEvents \in Nat /\ MaxAudits \in Nat /\ PageSize \in Nat \ {0}

VARIABLES log,             \* [Rooms -> Seq(row)]: room_events
          counter,         \* [Rooms -> Nat]: room_sequences
          redactions,      \* event_redactions, one per event at most
          audits, started  \* readers in progress; how many were started
logVars == <<log, counter, redactions>>
auditVars == <<audits, started>>

Genesis == <<>>
Marker == [about |-> {}, words |-> FALSE, names |-> {}, marker |-> TRUE]
(* A payload names what it is about (messages, tasks ...), carries their words or *)
(* only points at them, and, when it announces an erasure, names the redactions.  *)
Payload(xs, words, names) ==
    [about |-> xs, words |-> words, names |-> names, marker |-> FALSE]

(* event_chain_hash and header_snapshot_hash. *)
ChainHash(prev, r, n, type, actor, payload) == <<prev, r, n, type, actor, payload>>
HeaderHash(row) == <<row.type, row.actor, row.seq, row.prev>>

(* ensure_room_sequence and the UPDATE that takes the next number: rows holds    *)
(* what the transaction has appended so far.                                     *)
NextSequence(r, rows) == counter[r] + 1 + (Len(rows) - Len(log[r]))

(* _insert_chained: the hash of the row before, or genesis. *)
Chained_FromHead(r, rows, type, actor, payload) ==
    LET n == NextSequence(r, rows) IN
    [seq |-> n, type |-> type, actor |-> actor, payload |-> payload, prev |-> Genesis,
     hash |-> ChainHash(Genesis, r, n, type, actor, payload)]
Chained(r, rows, type, actor, payload) ==
    LET n == NextSequence(r, rows)
        prev == IF n = 1 THEN Genesis ELSE rows[n - 1].hash
    IN [seq |-> n, type |-> type, actor |-> actor, payload |-> payload, prev |-> prev,
        hash |-> ChainHash(prev, r, n, type, actor, payload)]

(* append_with_next_sequence_in_transaction over rows the same transaction may   *)
(* have redacted; the counter and the row commit together.                       *)
AppendTo(r, rows, type, actor, payload) ==
    /\ counter[r] < MaxEvents
    /\ counter' = [counter EXCEPT ![r] = NextSequence(r, rows)]
    /\ log' = [log EXCEPT ![r] = Append(rows, Chained(r, rows, type, actor, payload))]

Event(r, type, actor, xs, words) ==
    AppendTo(r, log[r], type, actor, Payload(xs, words, {})) /\ UNCHANGED redactions

(* Several events appended by one transaction, the n-th about xs[n].             *)
Events(r, types, actor, xs) ==
    LET rows[n \in 0 .. Len(types)] ==
            IF n = 0 THEN log[r]
            ELSE Append(rows[n - 1],
                        Chained(r, rows[n - 1], types[n], actor, Payload(xs[n], FALSE, {})))
    IN /\ counter[r] + Len(types) <= MaxEvents
       /\ counter' = [counter EXCEPT ![r] = @ + Len(types)]
       /\ log' = [log EXCEPT ![r] = rows[Len(types)]]
       /\ UNCHANGED redactions

(* redact_payload_in_transaction touches the payload and nothing else. *)
Redacted_Anonymous(rows, hit) ==
    [n \in DOMAIN rows |->
        IF n \in hit THEN [rows[n] EXCEPT !.payload = Marker, !.actor = "anonymous"] ELSE rows[n]]
Redacted(rows, hit) ==
    [n \in DOMAIN rows |-> IF n \in hit THEN [rows[n] EXCEPT !.payload = Marker] ELSE rows[n]]

(* The event_redactions row of one event, and what the announcement says of it.  *)
RedactionOf(r, row) ==
    [room |-> r, seq |-> row.seq, hash |-> row.hash, header |-> HeaderHash(row)]

-----------------------------------------------------------------------------
(* verify_event_chain on one room.                                              *)
RecordOf(r, n) == { d \in redactions : d.room = r /\ d.seq = n }

PrevOf(rows, n) == IF n = 1 THEN Genesis ELSE rows[n - 1].hash
RowSound(r, rows, n) ==
    LET row == rows[n] IN
    /\ row.seq = n
    /\ row.prev = PrevOf(rows, n)
    /\ IF row.payload.marker
       THEN \E d \in RecordOf(r, n) : d.hash = row.hash /\ d.header = HeaderHash(row)
       ELSE row.hash = ChainHash(row.prev, r, n, row.type, row.actor, row.payload)
    /\ \A d \in row.payload.names :
           d.seq < n /\ rows[d.seq].payload.marker => d \in RecordOf(r, d.seq)

(* A marker row waits for a later event.redacted that names its redaction. *)
Announced(rows, n) ==
    \E m \in n + 1 .. Len(rows) : \E d \in rows[m].payload.names : d.seq = n

BreakIn(r, rows, reached) ==
    IF \E n \in DOMAIN rows : ~RowSound(r, rows, n) THEN {[room |-> r, why |-> "chain"]}
    ELSE IF \E n \in DOMAIN rows : rows[n].payload.marker /\ ~Announced(rows, n)
    THEN {[room |-> r, why |-> "unannounced"]}
    ELSE IF reached # Len(rows) THEN {[room |-> r, why |-> "counter"]}
    ELSE {}

-----------------------------------------------------------------------------
(* Readers.  An audit reads every counter, then each room's rows in its own      *)
(* statement.  An export pages one room, reads its counter, and verifies it.     *)
Idle == [at |-> "idle", out |-> <<>>, size |-> 0, reached |-> [r \in Rooms |-> 0],
         todo |-> {}, breaks |-> {}]

LogInit ==
    /\ log = [r \in Rooms |-> <<>>] /\ counter = [r \in Rooms |-> 0] /\ redactions = {}
    /\ audits = [a \in Auditors |-> Idle] /\ started = 0

StartAudit(a) ==
    /\ audits[a].at \in {"idle", "done"} /\ started < MaxAudits
    /\ started' = started + 1
    /\ audits' = [audits EXCEPT ![a] =
           [Idle EXCEPT !.at = "rows", !.reached = counter, !.todo = Rooms]]

StartExport(a, r) ==
    /\ audits[a].at \in {"idle", "done"} /\ started < MaxAudits
    /\ started' = started + 1
    /\ audits' = [audits EXCEPT ![a] = [Idle EXCEPT !.at = "paging", !.todo = {r}]]

PageFrom(rows, after) ==
    SubSeq(rows, after + 1, IF after + PageSize < Len(rows) THEN after + PageSize ELSE Len(rows))

ExportPage(a, r) ==
    /\ audits[a].at = "paging" /\ audits[a].todo = {r}
    /\ LET out == audits[a].out
           page == PageFrom(log[r], IF out = <<>> THEN 0 ELSE out[Len(out)].seq)
       IN audits' = [audits EXCEPT ![a] =
              IF page = <<>> THEN [@ EXCEPT !.at = "counting"]
                             ELSE [@ EXCEPT !.out = out \o [n \in DOMAIN page |->
                                       [seq |-> page[n].seq, hash |-> page[n].hash]]]]
    /\ UNCHANGED started

(* The export's own reading of the counter, then the verification's. *)
ExportCount(a, r) ==
    /\ audits[a].at = "counting" /\ audits[a].todo = {r}
    /\ audits' = [audits EXCEPT ![a] = [@ EXCEPT !.at = "counted", !.size = counter[r]]]
    /\ UNCHANGED started
VerifyCount(a, r) ==
    /\ audits[a].at = "counted" /\ audits[a].todo = {r}
    /\ audits' = [audits EXCEPT ![a] = [@ EXCEPT !.at = "rows", !.reached[r] = counter[r]]]
    /\ UNCHANGED started

VerifyRoom(a, r) ==
    /\ audits[a].at = "rows" /\ r \in audits[a].todo
    /\ LET rest == audits[a].todo \ {r}
           breaks == audits[a].breaks \cup BreakIn(r, log[r], audits[a].reached[r])
       IN audits' = [audits EXCEPT ![a] =
           [@ EXCEPT !.breaks = breaks, !.todo = rest, !.at = IF rest = {} THEN "done" ELSE "rows"]]
    /\ UNCHANGED started

(* chain_verified in the export's summary. *)
ChainVerified_NoCount(a) == audits[a].breaks = {}
ChainVerified(a) == audits[a].breaks = {} /\ Len(audits[a].out) = audits[a].size

AuditNext ==
    /\ \E a \in Auditors :
          \/ StartAudit(a)
          \/ \E r \in Rooms : \/ StartExport(a, r) \/ ExportPage(a, r) \/ ExportCount(a, r)
                              \/ VerifyCount(a, r) \/ VerifyRoom(a, r)
    /\ UNCHANGED logVars

-----------------------------------------------------------------------------
(* Properties.                                                                  *)

(* At every instant the log of every room verifies: no gap, no repeat, every     *)
(* link and hash as it was written, every marker backed by a record of the same  *)
(* hash and header and announced by a later chained event, and the counter at    *)
(* the end of the log -- through any interleaving of appends and erasures.       *)
LogVerifies == \A r \in Rooms : BreakIn(r, log[r], counter[r]) = {}

(* An export that calls itself verified handed out exactly the first rows of the *)
(* log, in order and without a gap, and all that the counter it read had counted.*)
VerifiedExportIsWhole ==
    \A a \in Auditors :
        audits[a].at = "done" /\ audits[a].out # <<>> /\ ChainVerified(a) =>
            \E s \in Rooms :
                /\ Len(audits[a].out) = audits[a].size
                /\ audits[a].size <= Len(log[s])
                /\ \A n \in DOMAIN audits[a].out :
                       audits[a].out[n] = [seq |-> n, hash |-> log[s][n].hash]
=============================================================================
