--------------------------- MODULE RoomRecordsProofs ---------------------------
(***************************************************************************)
(* What a room's log and its records promise, for any number of rooms,     *)
(* texts, members, readers and operators; then what the ontology promises  *)
(* that is derived from them, and that its own writes keep the rest.       *)
(***************************************************************************)
EXTENDS Ontology, SequenceTheorems, TLAPS

(* A sequence, whatever it is of.                                              *)
IsLine(s) == s \in Seq({ s[n] : n \in DOMAIN s })

(* The log.  A row is what its fields say; a payload is a marker or names       *)
(* redactions that were recorded.                                              *)
IsRow(row) ==
    row = [seq |-> row.seq, type |-> row.type, actor |-> row.actor, payload |-> row.payload,
           prev |-> row.prev, hash |-> row.hash]
Payloads == [about : SUBSET Texts, words : BOOLEAN, names : SUBSET redactions, marker : BOOLEAN]
Recorded(r, row) ==
    \E d \in redactions : d.room = r /\ d.seq = row.seq /\ d.hash = row.hash /\ d.header = HeaderHash(row)

LogTypeOK ==
    /\ counter \in [Rooms -> Nat] /\ log = [r \in Rooms |-> log[r]]
    /\ \A r \in Rooms : IsLine(log[r]) /\ counter[r] = Len(log[r])
    /\ \A r \in Rooms : \A n \in 1 .. Len(log[r]) : IsRow(log[r][n]) /\ log[r][n].payload \in Payloads

\* Every row is where it was put, chained to the one before, hashed or recorded, and
\* the redactions it names are of rows before it.
RowKept(r, n) ==
    /\ log[r][n].seq = n /\ log[r][n].prev = PrevOf(log[r], n)
    /\ IF log[r][n].payload.marker
       THEN Recorded(r, log[r][n]) /\ Announced(log[r], n)
       ELSE log[r][n].hash = ChainHash(log[r][n].prev, r, n, log[r][n].type, log[r][n].actor, log[r][n].payload)
    /\ \A d \in log[r][n].payload.names : d.room = r /\ d.seq \in 1 .. n - 1
RowsKept == \A r \in Rooms : \A n \in 1 .. Len(log[r]) : RowKept(r, n)

\* Only the announcement of an erasure names redactions, and it carries no words.
Announcing ==
    \A r \in Rooms : \A n \in 1 .. Len(log[r]) :
        log[r][n].payload.names # {} => log[r][n].type = "event.redacted" /\ ~log[r][n].payload.words

\* A row that an erasure listed is of the member it erases, and no announcement.
Listed ==
    \A o \in Operators : \A w \in erasures[o].rows :
        /\ w.room \in Rooms /\ w.seq \in 1 .. Len(log[w.room])
        /\ log[w.room][w.seq].actor = erasures[o].user
        /\ w.personal => log[w.room][w.seq].payload.names = {}
LogInv == LogTypeOK /\ RowsKept /\ Announcing /\ Listed


-----------------------------------------------------------------------------
(* The words.  Where the words of an event of each type may be shown, and where   *)
(* those that no event carries.                                                *)
Shown == {<<"message.created", "messages">>, <<"message.created", "search_documents">>,
          <<"message.created", "notifications">>, <<"task.created", "tasks">>,
          <<"task.created", "search_documents">>, <<"decision.created", "decisions">>,
          <<"decision.created", "search_documents">>, <<"artifact.created", "artifacts">>,
          <<"room.created", "rooms">>, <<"human.redirected_agent", "interventions">>,
          <<"task.delegated", "agent_task_messages">>}
Silent == {"attachments", "branch_syntheses", "branches", "executions", "memories", "approvals"}

\* A text that was typed is in its room's log, or in none.
TypedRows == [by : Users, room : Rooms, seq : Nat]
RecTypeOK ==
    /\ typed \in [Texts -> TypedRows \cup {Nobody}]
    /\ \A c \in held : c = <<c[1], c[2]>> /\ c[1] \in Texts
    /\ DOMAIN erasures = Operators
    /\ \A o \in Operators :
          /\ erasures[o].known \subseteq Texts
          /\ erasures[o] = [at |-> erasures[o].at, user |-> erasures[o].user, rows |-> erasures[o].rows,
                            known |-> erasures[o].known, todo |-> erasures[o].todo]
InTheLog ==
    \A x \in Texts : Authored(x) /\ typed[x].seq > 0 =>
        /\ typed[x].seq \in 1 .. Len(log[typed[x].room])
        /\ EventOf(x).actor = typed[x].by
        /\ \E p \in Shown : p[1] = EventOf(x).type
        /\ ~EventOf(x).payload.marker =>
               EventOf(x).payload.about = {x} /\ (EventOf(x).payload.words \/ EventOf(x).type = "task.delegated")

\* A table that shows a text is one its event, or the lack of one, put it in.
InPlace ==
    \A c \in held : Authored(c[1]) /\
        IF typed[c[1]].seq = 0 THEN c[2] \in Silent
        ELSE c[2] \in Unreached \cup {"snapshots"} \/ <<EventOf(c[1]).type, c[2]>> \in Shown

\* What an erasure has left to do.
Unswept(at) ==
    CASE at \in {"rooms", "attachments"} -> Silent
      [] at = "branch_syntheses" -> Silent \ {"attachments"}
      [] at = "branches" -> Silent \ {"attachments", "branch_syntheses"}
      [] at = "memories" -> {"memories", "approvals"}
      [] at = "approvals" -> {"approvals"}
      [] OTHER -> {}
ToSweep(e, c) == c[2] \in Unswept(e.at) /\ (c[2] \in AlsoSwept(e.at) => c[1] \in e.todo)
Reaching ==
    \A o \in Operators : \A x \in erasures[o].known :
        /\ Authored(x) /\ typed[x].by = erasures[o].user
        /\ typed[x].seq > 0 /\ ~EventOf(x).payload.marker =>
              /\ erasures[o].at = "rooms"
              /\ \E w \in erasures[o].rows : w.room = typed[x].room /\ w.seq = typed[x].seq /\ w.personal
        /\ \A c \in held : c[1] = x /\ c[2] \in Silent => ToSweep(erasures[o], c)
RecInv == RecTypeOK /\ InTheLog /\ InPlace /\ Reaching /\ NothingErasedComesBack

-----------------------------------------------------------------------------
(* How a log moves: rows are added at its end, or an erasure blanks some and    *)
(* announces it.                                                               *)
SameElsewhere(r) ==
    /\ log' = [s \in Rooms |-> log'[s]] /\ counter' \in [Rooms -> Nat]
    /\ \A s \in Rooms \ {r} : log'[s] = log[s] /\ counter'[s] = counter[s]
    /\ IsLine(log'[r]) /\ counter'[r] = Len(log'[r])
NewRow(r, n) ==
    /\ IsRow(log[r][n]) /\ log[r][n].payload \in Payloads /\ ~log[r][n].payload.marker
    /\ log[r][n].seq = n /\ log[r][n].prev = PrevOf(log[r], n)
    /\ log[r][n].hash = ChainHash(log[r][n].prev, r, n, log[r][n].type, log[r][n].actor, log[r][n].payload)
Grows(r) ==
    /\ SameElsewhere(r) /\ UNCHANGED redactions
    /\ Len(log'[r]) > Len(log[r])
    /\ \A n \in 1 .. Len(log[r]) : log'[r][n] = log[r][n]
    /\ \A n \in Len(log[r]) + 1 .. Len(log'[r]) : NewRow(r, n)' /\ log'[r][n].payload.names = {}
Names(r, hit) == { RedactionOf(r, log[r][n]) : n \in hit }
Blanks(r, hit) ==
    /\ SameElsewhere(r) /\ redactions' = redactions \cup Names(r, hit)
    /\ Len(log'[r]) = Len(log[r]) + 1
    /\ \A n \in 1 .. Len(log[r]) :
          log'[r][n] = IF n \in hit THEN [log[r][n] EXCEPT !.payload = Marker] ELSE log[r][n]
    /\ \A n \in Len(log[r]) + 1 .. Len(log'[r]) :
          /\ NewRow(r, n)' /\ log'[r][n].payload.names = Names(r, hit)
          /\ log'[r][n].type = "event.redacted" /\ ~log'[r][n].payload.words
          /\ log'[r][n].payload.about = {}

\* Appending to a sequence, whatever it is of.
LEMMA Appended ==
    ASSUME NEW s, IsLine(s), NEW x
    PROVE  /\ IsLine(Append(s, x))
           /\ Len(Append(s, x)) = Len(s) + 1 /\ Len(s) \in Nat
           /\ \A n \in 1 .. Len(s) : Append(s, x)[n] = s[n]
           /\ Append(s, x)[Len(s) + 1] = x
<1> DEFINE T == { s[n] : n \in DOMAIN s } \cup {x}
<1>1. s \in Seq(T) /\ x \in T
  BY SeqMonotonic DEF IsLine
<1> HIDE DEF T
<1>2. Len(s) \in Nat /\ DOMAIN s = 1 .. Len(s)
  BY <1>1, LenProperties
<1>3. /\ Append(s, x) \in Seq(T) /\ Len(Append(s, x)) = Len(s) + 1
      /\ \A n \in 1 .. Len(s) : Append(s, x)[n] = s[n]
      /\ Append(s, x)[Len(s) + 1] = x
  BY <1>1, AppendProperties
<1>4. PICK t : t = Append(s, x)
  OBVIOUS
<1>5. IsLine(t)
  BY <1>3, <1>4, SeqOfRange DEF Range, IsLine
<1> QED
  BY <1>2, <1>3, <1>4, <1>5

\* A sequence has a length, and the numbers up to it for its domain.
LEMMA LineFacts ==
    ASSUME NEW s, IsLine(s)
    PROVE  Len(s) \in Nat /\ DOMAIN s = 1 .. Len(s)
<1> DEFINE T == { s[n] : n \in DOMAIN s }
<1>1. s \in Seq(T)
  BY DEF IsLine
<1> HIDE DEF T
<1> QED
  BY <1>1, LenProperties

\* Blanked rows are as many, and each still where it was.
LEMMA RedactedLine ==
    ASSUME NEW rows, IsLine(rows), NEW hit
    PROVE  /\ IsLine(Redacted(rows, hit)) /\ Len(Redacted(rows, hit)) = Len(rows)
           /\ \A n \in 1 .. Len(rows) :
                 Redacted(rows, hit)[n] = IF n \in hit THEN [rows[n] EXCEPT !.payload = Marker] ELSE rows[n]
<1>1. Len(rows) \in Nat /\ DOMAIN rows = 1 .. Len(rows)
  BY LineFacts
<1>2. PICK k \in Nat : k = Len(rows)
  BY <1>1
<1>3. PICK t : t = Redacted(rows, hit)
  OBVIOUS
<1>4. /\ t = [n \in 1 .. k |-> t[n]]
      /\ \A n \in 1 .. k : t[n] = IF n \in hit THEN [rows[n] EXCEPT !.payload = Marker] ELSE rows[n]
  BY <1>1, <1>2, <1>3 DEF Redacted
<1> DEFINE T == { t[n] : n \in DOMAIN t }
<1>5. t \in [1 .. k -> T]
  BY <1>4
<1>6. t \in Seq(T)
  BY <1>2, <1>5, SeqDef
<1>7. IsLine(t)
  BY <1>6 DEF IsLine
<1> HIDE DEF T
<1>8. Len(t) \in Nat /\ DOMAIN t = 1 .. Len(t)
  BY <1>7, LineFacts
<1>9. Len(t) = k
  BY <1>2, <1>4, <1>8
<1> QED
  BY <1>2, <1>3, <1>4, <1>7, <1>9

\* _insert_chained at the end of what the transaction has so far.
LEMMA RowChained ==
    ASSUME LogTypeOK, NEW r \in Rooms, NEW rows, IsLine(rows), Len(rows) = Len(log[r]),
           NEW type, NEW actor, NEW payload, AppendTo(r, rows, type, actor, payload)
    PROVE  /\ SameElsewhere(r) /\ Len(log'[r]) = Len(log[r]) + 1
           /\ \A n \in 1 .. Len(log[r]) : log'[r][n] = rows[n]
           /\ LET new == log'[r][Len(log[r]) + 1] IN
              /\ IsRow(new) /\ new.seq = Len(log[r]) + 1 /\ new.prev = PrevOf(log'[r], Len(log[r]) + 1)
              /\ new.type = type /\ new.actor = actor /\ new.payload = payload
              /\ new.hash = ChainHash(new.prev, r, Len(log[r]) + 1, type, actor, payload)
<1>1. /\ counter \in [Rooms -> Nat] /\ DOMAIN log = Rooms /\ counter[r] = Len(log[r]) /\ Len(log[r]) \in Nat
  BY LineFacts DEF LogTypeOK
<1>2. PICK k \in Nat : k = Len(log[r]) /\ k = Len(rows) /\ k = counter[r]
  BY <1>1
<1>3. NextSequence(r, rows) = k + 1
  BY <1>2 DEF NextSequence
<1>4. PICK prev : prev = IF k + 1 = 1 THEN Genesis ELSE rows[k].hash
  OBVIOUS
<1>5. PICK new : new = [seq |-> k + 1, type |-> type, actor |-> actor, payload |-> payload, prev |-> prev,
                        hash |-> ChainHash(prev, r, k + 1, type, actor, payload)]
  OBVIOUS
<1>6. Chained(r, rows, type, actor, payload) = new
  <2>1. (k + 1) - 1 = k
    BY <1>2
  <2> QED
    BY <1>3, <1>4, <1>5, <2>1 DEF Chained
<1>7. log' = [log EXCEPT ![r] = Append(rows, new)] /\ counter' = [counter EXCEPT ![r] = k + 1]
  BY <1>3, <1>6 DEF AppendTo
<1>8. PICK t : t = Append(rows, new)
  OBVIOUS
<1>9. IsLine(t) /\ Len(t) = k + 1 /\ (\A n \in 1 .. k : t[n] = rows[n]) /\ t[k + 1] = new
  BY <1>2, <1>8, Appended
<1>10. log' = [s \in Rooms |-> log'[s]] /\ log'[r] = t /\ \A s \in Rooms \ {r} : log'[s] = log[s]
  BY <1>1, <1>7, <1>8
<1>11. counter' \in [Rooms -> Nat] /\ counter'[r] = k + 1 /\ \A s \in Rooms \ {r} : counter'[s] = counter[s]
  BY <1>1, <1>2, <1>7
<1>12. SameElsewhere(r)
  BY <1>9, <1>10, <1>11 DEF SameElsewhere
<1>13. prev = PrevOf(t, k + 1)
  <2>1. CASE k = 0
    BY <1>4, <2>1 DEF PrevOf
  <2>2. CASE k # 0
    <3>1. k + 1 # 1 /\ (k + 1) - 1 = k /\ k \in 1 .. k
      BY <1>2, <2>2
    <3> QED
      BY <1>4, <1>9, <3>1 DEF PrevOf
  <2> QED
    BY <2>1, <2>2
<1>14. /\ IsRow(new) /\ new.seq = k + 1 /\ new.prev = prev /\ new.type = type /\ new.actor = actor
       /\ new.payload = payload /\ new.hash = ChainHash(prev, r, k + 1, type, actor, payload)
  BY <1>5 DEF IsRow
<1> QED
  BY <1>2, <1>9, <1>10, <1>12, <1>13, <1>14

\* append_with_next_sequence_in_transaction: the log is one event longer.
LEMMA EventGrows ==
    ASSUME LogTypeOK, NEW r \in Rooms, NEW type, NEW actor, NEW xs \in SUBSET Texts, NEW words \in BOOLEAN,
           Event(r, type, actor, xs, words)
    PROVE  /\ Grows(r) /\ Len(log'[r]) = Len(log[r]) + 1
           /\ LET new == log'[r][Len(log[r]) + 1] IN
              new.type = type /\ new.actor = actor /\ new.payload = Payload(xs, words, {})
<1>1. AppendTo(r, log[r], type, actor, Payload(xs, words, {})) /\ UNCHANGED redactions
  BY DEF Event
<1>2. IsLine(log[r]) /\ Len(log[r]) \in Nat
  BY LineFacts DEF LogTypeOK
<1>3. PICK payload : payload = Payload(xs, words, {})
  OBVIOUS
<1>4. payload \in Payloads /\ payload \in Payloads' /\ payload.names = {} /\ ~payload.marker
  BY <1>3 DEF Payload, Payloads
<1>5. /\ SameElsewhere(r) /\ Len(log'[r]) = Len(log[r]) + 1
      /\ \A n \in 1 .. Len(log[r]) : log'[r][n] = log[r][n]
      /\ LET new == log'[r][Len(log[r]) + 1] IN
         /\ IsRow(new) /\ new.seq = Len(log[r]) + 1 /\ new.prev = PrevOf(log'[r], Len(log[r]) + 1)
         /\ new.type = type /\ new.actor = actor /\ new.payload = payload
         /\ new.hash = ChainHash(new.prev, r, Len(log[r]) + 1, type, actor, payload)
  BY <1>1, <1>2, <1>3, RowChained
<1>6. PICK k \in Nat : k = Len(log[r]) + 1
  BY <1>2
<1>7. \A n \in k .. Len(log'[r]) : NewRow(r, n)' /\ log'[r][n].payload.names = {}
  <2>1. \A n \in k .. Len(log'[r]) : n = k
    BY <1>2, <1>5, <1>6
  <2>2. NewRow(r, k)' /\ log'[r][k].payload.names = {}
    BY <1>4, <1>5, <1>6 DEF NewRow
  <2> QED
    BY <2>1, <2>2
<1>8. Len(log'[r]) > Len(log[r])
  BY <1>2, <1>5
<1>9. Grows(r)
  BY <1>1, <1>5, <1>6, <1>7, <1>8 DEF Grows
<1> QED
  BY <1>3, <1>5, <1>9

\* A row that is not the first is chained to one that is there.
LEMMA PrevKept ==
    ASSUME NEW old, NEW new, NEW k \in Nat, NEW n \in 1 .. k, \A m \in 1 .. k : new[m].hash = old[m].hash
    PROVE  PrevOf(new, n) = PrevOf(old, n)
<1>1. CASE n = 1
  BY <1>1 DEF PrevOf
<1>2. CASE n # 1
  <2>1. n - 1 \in 1 .. k
    BY <1>2
  <2> QED
    BY <1>2, <2>1 DEF PrevOf
<1> QED
  BY <1>1, <1>2

\* A log that grows is still one line of rows.
LEMMA GrowsTyped ==
    ASSUME LogTypeOK, NEW r \in Rooms, Grows(r)
    PROVE  LogTypeOK'
<1>1. counter' \in [Rooms -> Nat] /\ log' = [s \in Rooms |-> log'[s]]
  BY DEF Grows, SameElsewhere
<1>2. ASSUME NEW s \in Rooms PROVE IsLine(log'[s]) /\ counter'[s] = Len(log'[s])
  BY DEF Grows, SameElsewhere, LogTypeOK
<1>3. ASSUME NEW s \in Rooms, NEW n \in 1 .. Len(log'[s])
      PROVE  IsRow(log'[s][n]) /\ log'[s][n].payload \in Payloads'
  <2>1. CASE s # r
    BY <2>1 DEF Grows, SameElsewhere, LogTypeOK, Payloads
  <2>2. CASE s = r
    <3>1. Len(log[r]) \in Nat /\ Len(log'[r]) \in Nat
      BY LineFacts DEF LogTypeOK, Grows, SameElsewhere
    <3>2. CASE n \in 1 .. Len(log[r])
      <4>1. log'[r][n] = log[r][n] /\ UNCHANGED redactions
        BY <3>2 DEF Grows
      <4>2. IsRow(log[r][n]) /\ log[r][n].payload \in Payloads
        BY <3>2 DEF LogTypeOK
      <4> QED
        BY <2>2, <4>1, <4>2 DEF Payloads
    <3>3. CASE n \in Len(log[r]) + 1 .. Len(log'[r])
      <4>1. NewRow(r, n)'
        BY <3>3 DEF Grows
      <4> QED
        BY <2>2, <4>1 DEF NewRow
    <3> QED
      BY <2>2, <3>1, <3>2, <3>3
  <2> QED
    BY <2>1, <2>2
<1> QED
  BY <1>1, <1>2, <1>3 DEF LogTypeOK

\* Rows added at the end leave the ones before as they are kept.
LEMMA GrowsKept ==
    ASSUME LogTypeOK, RowsKept, NEW r \in Rooms, Grows(r)
    PROVE  RowsKept'
<1> SUFFICES ASSUME NEW s \in Rooms, NEW n \in 1 .. Len(log'[s]) PROVE RowKept(s, n)'
  BY DEF RowsKept
<1>1. CASE s # r
  <2>1. log'[s] = log[s] /\ UNCHANGED redactions
    BY <1>1 DEF Grows, SameElsewhere
  <2>2. RowKept(s, n)
    BY <2>1 DEF RowsKept
  <2> QED
    BY <2>1, <2>2 DEF RowKept, Recorded
<1>2. CASE s = r
  <2>1. Len(log[r]) \in Nat /\ Len(log'[r]) \in Nat
    BY LineFacts DEF LogTypeOK, Grows, SameElsewhere
  <2>2. CASE n \in 1 .. Len(log[r])
    <3>1. log'[r][n] = log[r][n] /\ UNCHANGED redactions /\ \A m \in 1 .. Len(log[r]) : log'[r][m] = log[r][m]
      BY <2>2 DEF Grows
    <3>2. RowKept(r, n)
      BY <2>2 DEF RowsKept
    <3>3. PrevOf(log'[r], n) = PrevOf(log[r], n)
      BY <2>1, <2>2, <3>1, PrevKept
    <3>4. ASSUME Announced(log[r], n) PROVE Announced(log'[r], n)
      <4>1. PICK m \in n + 1 .. Len(log[r]) : \E d \in log[r][m].payload.names : d.seq = n
        BY <3>4 DEF Announced
      <4>2. m \in n + 1 .. Len(log'[r]) /\ m \in 1 .. Len(log[r])
        BY <2>1, <2>2 DEF Grows
      <4> QED
        BY <3>1, <4>1, <4>2 DEF Announced
    <3> QED
      BY <1>2, <3>1, <3>2, <3>3, <3>4 DEF RowKept, Recorded
  <2>3. CASE n \in Len(log[r]) + 1 .. Len(log'[r])
    <3>1. NewRow(r, n)' /\ log'[r][n].payload.names = {}
      BY <2>3 DEF Grows
    <3> QED
      BY <1>2, <3>1 DEF NewRow, RowKept
  <2> QED
    BY <1>2, <2>1, <2>2, <2>3
<1> QED
  BY <1>1, <1>2

\* What redact_payload_in_transaction leaves of a row.
LEMMA BlankedRow ==
    ASSUME NEW row, IsRow(row)
    PROVE  LET new == [row EXCEPT !.payload = Marker] IN
           /\ IsRow(new) /\ new.payload = Marker /\ new.seq = row.seq /\ new.type = row.type
           /\ new.actor = row.actor /\ new.prev = row.prev /\ new.hash = row.hash
           /\ HeaderHash(new) = HeaderHash(row)
<1>1. PICK seq, type, actor, payload, prev, hash :
         row = [seq |-> seq, type |-> type, actor |-> actor, payload |-> payload, prev |-> prev, hash |-> hash]
  BY DEF IsRow
<1>2. PICK new : new = [row EXCEPT !.payload = Marker]
  OBVIOUS
<1>3. new = [seq |-> seq, type |-> type, actor |-> actor, payload |-> Marker, prev |-> prev, hash |-> hash]
  BY <1>1, <1>2
<1>4. /\ IsRow(new) /\ new.payload = Marker /\ new.seq = row.seq /\ new.type = row.type
      /\ new.actor = row.actor /\ new.prev = row.prev /\ new.hash = row.hash
  BY <1>1, <1>3 DEF IsRow
<1> QED
  BY <1>2, <1>4 DEF HeaderHash

\* An erasure of rows that are not recorded yet: each is blanked, recorded and announced.
LEMMA BlanksTyped ==
    ASSUME LogTypeOK, NEW r \in Rooms, NEW hit, Blanks(r, hit)
    PROVE  LogTypeOK'
<1>1. counter' \in [Rooms -> Nat] /\ log' = [s \in Rooms |-> log'[s]] /\ redactions \subseteq redactions'
  BY DEF Blanks, SameElsewhere
<1>2. ASSUME NEW s \in Rooms PROVE IsLine(log'[s]) /\ counter'[s] = Len(log'[s])
  BY DEF Blanks, SameElsewhere, LogTypeOK
<1>3. Payloads \subseteq Payloads'
  BY <1>1 DEF Payloads
<1>4. ASSUME NEW s \in Rooms, NEW n \in 1 .. Len(log'[s])
      PROVE  IsRow(log'[s][n]) /\ log'[s][n].payload \in Payloads'
  <2>1. CASE s # r
    BY <1>3, <2>1 DEF Blanks, SameElsewhere, LogTypeOK
  <2>2. CASE s = r
    <3>1. Len(log[r]) \in Nat /\ Len(log'[r]) \in Nat
      BY LineFacts DEF LogTypeOK, Blanks, SameElsewhere
    <3>2. CASE n \in 1 .. Len(log[r])
      <4>1. log'[r][n] = IF n \in hit THEN [log[r][n] EXCEPT !.payload = Marker] ELSE log[r][n]
        BY <3>2 DEF Blanks
      <4>2. IsRow(log[r][n]) /\ log[r][n].payload \in Payloads
        BY <3>2 DEF LogTypeOK
      <4>3. Marker \in Payloads
        BY DEF Marker, Payloads
      <4>4. PICK row : row = log[r][n]
        OBVIOUS
      <4>5. IsRow([row EXCEPT !.payload = Marker]) /\ [row EXCEPT !.payload = Marker].payload = Marker
        BY <4>2, <4>4, BlankedRow
      <4> QED
        BY <1>3, <2>2, <4>1, <4>2, <4>3, <4>4, <4>5
    <3>3. CASE n \in Len(log[r]) + 1 .. Len(log'[r])
      <4>1. NewRow(r, n)'
        BY <3>3 DEF Blanks
      <4> QED
        BY <2>2, <4>1 DEF NewRow
    <3> QED
      BY <2>2, <3>1, <3>2, <3>3
  <2> QED
    BY <2>1, <2>2
<1> QED
  BY <1>1, <1>2, <1>4 DEF LogTypeOK

\* A blanking of rows that list nothing leaves every row as its transaction
\* left it, or the marker.
LEMMA BlanksKept ==
    ASSUME LogTypeOK, RowsKept, NEW r \in Rooms, NEW hit \in SUBSET (1 .. Len(log[r])), Blanks(r, hit),
           \A n \in hit : log[r][n].payload.names = {}
    PROVE  RowsKept'
<1> SUFFICES ASSUME NEW s \in Rooms, NEW n \in 1 .. Len(log'[s]) PROVE RowKept(s, n)'
  BY DEF RowsKept
<1>0. redactions \subseteq redactions'
  BY DEF Blanks
<1>1. CASE s # r
  <2>1. log'[s] = log[s]
    BY <1>1 DEF Blanks, SameElsewhere
  <2>2. RowKept(s, n)
    BY <2>1 DEF RowsKept
  <2>3. Recorded(s, log[s][n]) => Recorded(s, log[s][n])'
    BY <1>0, <2>1 DEF Recorded, HeaderHash
  <2> QED
    BY <2>1, <2>2, <2>3 DEF RowKept
<1>2. CASE s = r
  <2>1. Len(log[r]) \in Nat /\ Len(log'[r]) = Len(log[r]) + 1
    BY LineFacts DEF LogTypeOK, Blanks
  <2>2. ASSUME NEW m \in 1 .. Len(log[r])
        PROVE  /\ log'[r][m].seq = log[r][m].seq /\ log'[r][m].type = log[r][m].type
               /\ log'[r][m].actor = log[r][m].actor /\ log'[r][m].prev = log[r][m].prev
               /\ log'[r][m].hash = log[r][m].hash /\ HeaderHash(log'[r][m]) = HeaderHash(log[r][m])
               /\ log'[r][m].payload = IF m \in hit THEN Marker ELSE log[r][m].payload
               /\ log'[r][m].payload.names = log[r][m].payload.names
    <3>1. IsRow(log[r][m])
      BY DEF LogTypeOK
    <3>2. PICK row : row = log[r][m]
      OBVIOUS
    <3>3. log'[r][m] = IF m \in hit THEN [row EXCEPT !.payload = Marker] ELSE row
      BY <3>2 DEF Blanks
    <3>4. Marker.names = {}
      BY DEF Marker
    <3>5. CASE m \in hit
      <4>1. PICK new : new = [row EXCEPT !.payload = Marker]
        OBVIOUS
      <4>2. /\ new.payload = Marker /\ new.seq = row.seq /\ new.type = row.type
            /\ new.actor = row.actor /\ new.prev = row.prev /\ new.hash = row.hash
            /\ HeaderHash(new) = HeaderHash(row)
        BY <3>1, <3>2, <4>1, BlankedRow
      <4>3. log'[r][m] = new
        BY <3>3, <3>5, <4>1
      <4>4. row.payload.names = {}
        BY <3>2, <3>5
      <4> QED
        BY <3>2, <3>4, <3>5, <4>2, <4>3, <4>4
    <3>6. CASE m \notin hit
      <4>1. log'[r][m] = log[r][m]
        BY <3>2, <3>3, <3>6
      <4> QED
        BY <3>6, <4>1
    <3> QED
      BY <3>5, <3>6
  <2>3. ASSUME NEW m \in Len(log[r]) + 1 .. Len(log'[r])
        PROVE  NewRow(r, m)' /\ log'[r][m].payload.names = Names(r, hit)
    BY DEF Blanks
  <2>4. ASSUME NEW m \in hit
        PROVE  \E d \in Names(r, hit) : /\ d.room = r /\ d.seq = m /\ d.hash = log[r][m].hash
                                        /\ d.header = HeaderHash(log[r][m])
    <3>1. PICK d : d = RedactionOf(r, log[r][m])
      OBVIOUS
    <3>2. log[r][m].seq = m
      BY DEF RowsKept, RowKept
    <3>3. d \in Names(r, hit)
      BY <3>1 DEF Names
    <3> QED
      BY <3>1, <3>2, <3>3 DEF RedactionOf
  <2>5. CASE n \in 1 .. Len(log[r])
    <3>1. RowKept(r, n)
      BY <2>5 DEF RowsKept
    <3>2. log'[r][n].seq = n
      BY <2>2, <2>5, <3>1 DEF RowKept
    <3>3. log'[r][n].prev = PrevOf(log'[r], n)
      <4>1. \A m \in 1 .. Len(log[r]) : log'[r][m].hash = log[r][m].hash
        BY <2>2
      <4>2. PrevOf(log'[r], n) = PrevOf(log[r], n)
        BY <2>1, <2>5, <4>1, PrevKept
      <4> QED
        BY <2>2, <2>5, <3>1, <4>2 DEF RowKept
    <3>4. \A d \in log'[r][n].payload.names : d.room = r /\ d.seq \in 1 .. n - 1
      BY <2>2, <2>5, <3>1 DEF RowKept
    <3>5. CASE n \in hit
      <4>1. PICK d \in Names(r, hit) : /\ d.room = r /\ d.seq = n /\ d.hash = log[r][n].hash
                                       /\ d.header = HeaderHash(log[r][n])
        BY <2>4, <3>5
      <4>2. d \in redactions'
        BY <4>1 DEF Blanks
      <4>3. Recorded(r, log[r][n])'
        BY <2>2, <2>5, <3>2, <4>1, <4>2 DEF Recorded
      <4>4. Announced(log'[r], n)
        <5>1. PICK k \in Nat : k = Len(log[r]) + 1
          BY <2>1
        <5>2. log'[r][k].payload.names = Names(r, hit) /\ k \in n + 1 .. Len(log'[r])
          BY <2>1, <2>3, <2>5, <5>1
        <5> QED
          BY <4>1, <5>2 DEF Announced
      <4>5. log'[r][n].payload.marker
        BY <2>2, <2>5, <3>5 DEF Marker
      <4> QED
        BY <1>2, <3>2, <3>3, <3>4, <4>3, <4>4, <4>5 DEF RowKept
    <3>6. CASE n \notin hit
      <4>1. log'[r][n].payload = log[r][n].payload
        BY <2>2, <2>5, <3>6
      <4>2. CASE log[r][n].payload.marker
        <5>1. Recorded(r, log[r][n])'
          <6>1. PICK d \in redactions : /\ d.room = r /\ d.seq = log[r][n].seq /\ d.hash = log[r][n].hash
                                        /\ d.header = HeaderHash(log[r][n])
            BY <3>1, <4>2 DEF RowKept, Recorded
          <6> QED
            BY <1>0, <2>2, <2>5, <6>1 DEF Recorded
        <5>2. Announced(log'[r], n)
          <6>1. PICK m \in n + 1 .. Len(log[r]) : \E d \in log[r][m].payload.names : d.seq = n
            BY <3>1, <4>2 DEF RowKept, Announced
          <6>2. m \in n + 1 .. Len(log'[r]) /\ m \in 1 .. Len(log[r])
            BY <2>1, <2>5
          <6> QED
            BY <2>2, <6>1, <6>2 DEF Announced
        <5> QED
          BY <1>2, <3>2, <3>3, <3>4, <4>1, <4>2, <5>1, <5>2 DEF RowKept
      <4>3. CASE ~log[r][n].payload.marker
        <5>1. log'[r][n].hash = ChainHash(log'[r][n].prev, r, n, log'[r][n].type, log'[r][n].actor, log'[r][n].payload)
          BY <2>2, <2>5, <3>1, <4>1, <4>3 DEF RowKept
        <5> QED
          BY <1>2, <3>2, <3>3, <3>4, <4>1, <4>3, <5>1 DEF RowKept
      <4> QED
        BY <4>2, <4>3
    <3> QED
      BY <3>5, <3>6
  <2>6. CASE n \in Len(log[r]) + 1 .. Len(log'[r])
    <3>1. NewRow(r, n)' /\ log'[r][n].payload.names = Names(r, hit) /\ n = Len(log[r]) + 1
      BY <2>1, <2>3, <2>6
    <3>2. \A d \in Names(r, hit) : d.room = r /\ d.seq \in 1 .. n - 1
      <4> SUFFICES ASSUME NEW m \in hit
                   PROVE  RedactionOf(r, log[r][m]).room = r /\ RedactionOf(r, log[r][m]).seq \in 1 .. n - 1
        BY DEF Names
      <4>1. log[r][m].seq = m /\ m \in 1 .. n - 1
        BY <2>1, <3>1 DEF RowsKept, RowKept
      <4> QED
        BY <4>1 DEF RedactionOf
    <3> QED
      BY <1>2, <3>1, <3>2 DEF NewRow, RowKept
  <2> QED
    BY <1>2, <2>1, <2>5, <2>6
<1> QED
  BY <1>1, <1>2

\* What no step takes from a row: only its payload may become a marker.
RowsStay ==
    \A s \in Rooms :
        /\ Len(log[s]) \in Nat /\ Len(log'[s]) \in Nat /\ Len(log[s]) <= Len(log'[s])
        /\ \A n \in 1 .. Len(log[s]) :
              /\ log'[s][n].seq = log[s][n].seq /\ log'[s][n].type = log[s][n].type
              /\ log'[s][n].actor = log[s][n].actor /\ log'[s][n].hash = log[s][n].hash
              /\ log'[s][n].payload \in {log[s][n].payload, Marker}

\* Appending to a log leaves the rows it has.
LEMMA GrowsStay ==
    ASSUME LogTypeOK, NEW r \in Rooms, Grows(r)
    PROVE  RowsStay
<1> SUFFICES ASSUME NEW s \in Rooms
             PROVE  /\ Len(log[s]) \in Nat /\ Len(log'[s]) \in Nat /\ Len(log[s]) <= Len(log'[s])
                    /\ \A n \in 1 .. Len(log[s]) : log'[s][n] = log[s][n]
  BY DEF RowsStay
<1>1. LogTypeOK'
  BY GrowsTyped
<1>2. Len(log[s]) \in Nat /\ Len(log'[s]) \in Nat
  BY <1>1, LineFacts DEF LogTypeOK
<1>3. CASE s = r
  BY <1>2, <1>3 DEF Grows
<1>4. CASE s # r
  BY <1>2, <1>4 DEF Grows, SameElsewhere
<1> QED
  BY <1>2, <1>3, <1>4

\* Blanking changes a payload to the marker and nothing else of a row.
LEMMA BlanksStay ==
    ASSUME LogTypeOK, NEW r \in Rooms, NEW hit, Blanks(r, hit)
    PROVE  RowsStay
<1> SUFFICES ASSUME NEW s \in Rooms
             PROVE  /\ Len(log[s]) \in Nat /\ Len(log'[s]) \in Nat /\ Len(log[s]) <= Len(log'[s])
                    /\ \A n \in 1 .. Len(log[s]) :
                          /\ log'[s][n].seq = log[s][n].seq /\ log'[s][n].type = log[s][n].type
                          /\ log'[s][n].actor = log[s][n].actor /\ log'[s][n].hash = log[s][n].hash
                          /\ log'[s][n].payload \in {log[s][n].payload, Marker}
  BY DEF RowsStay
<1>1. LogTypeOK'
  BY BlanksTyped
<1>2. Len(log[s]) \in Nat /\ Len(log'[s]) \in Nat
  BY <1>1, LineFacts DEF LogTypeOK
<1>3. CASE s = r
  <2>1. Len(log[s]) <= Len(log'[s])
    BY <1>2, <1>3 DEF Blanks
  <2>2. ASSUME NEW n \in 1 .. Len(log[s])
        PROVE  /\ log'[s][n].seq = log[s][n].seq /\ log'[s][n].type = log[s][n].type
               /\ log'[s][n].actor = log[s][n].actor /\ log'[s][n].hash = log[s][n].hash
               /\ log'[s][n].payload \in {log[s][n].payload, Marker}
    <3>1. PICK row : row = log[s][n] /\ IsRow(row)
      BY DEF LogTypeOK
    <3>2. PICK new : new = [row EXCEPT !.payload = Marker]
      OBVIOUS
    <3>3. /\ new.payload = Marker /\ new.seq = row.seq /\ new.type = row.type
          /\ new.actor = row.actor /\ new.prev = row.prev /\ new.hash = row.hash
      BY <3>1, <3>2, BlankedRow
    <3>4. log'[s][n] = new \/ log'[s][n] = row
      BY <1>3, <3>1, <3>2 DEF Blanks
    <3> QED
      BY <3>1, <3>3, <3>4
  <2> QED
    BY <1>2, <2>1, <2>2
<1>4. CASE s # r
  BY <1>2, <1>4 DEF Blanks, SameElsewhere
<1> QED
  BY <1>2, <1>3, <1>4

\* With the logs unchanged, so are their rows.
LEMMA NothingStays ==
    ASSUME LogTypeOK, UNCHANGED log
    PROVE  RowsStay
<1>1. \A s \in Rooms : Len(log[s]) \in Nat
  BY LineFacts DEF LogTypeOK
<1> QED
  BY <1>1 DEF RowsStay

\* What an erasure listed stays as it was listed, blanked or not.
LEMMA ListedStays ==
    ASSUME Listed, RowsStay,
           \A o \in Operators : \A w \in erasures'[o].rows :
               w \in erasures[o].rows /\ erasures'[o].user = erasures[o].user
    PROVE  Listed'
<1> SUFFICES ASSUME NEW o \in Operators, NEW w \in erasures'[o].rows
             PROVE  /\ w.room \in Rooms /\ w.seq \in 1 .. Len(log'[w.room])
                    /\ log'[w.room][w.seq].actor = erasures'[o].user
                    /\ w.personal => log'[w.room][w.seq].payload.names = {}
  BY DEF Listed
<1>1. /\ w.room \in Rooms /\ w.seq \in 1 .. Len(log[w.room])
      /\ log[w.room][w.seq].actor = erasures[o].user /\ erasures'[o].user = erasures[o].user
      /\ w.personal => log[w.room][w.seq].payload.names = {}
  BY DEF Listed
<1>2. Marker.names = {}
  BY DEF Marker
<1> QED
  BY <1>1, <1>2 DEF RowsStay

\* Only the announcements of an erasure list names, and they carry no words
\* of anybody.
LEMMA AnnouncingStays ==
    ASSUME LogTypeOK, Announcing,
           \/ UNCHANGED logVars
           \/ \E r \in Rooms : Grows(r) \/ \E hit : Blanks(r, hit)
    PROVE  Announcing'
<1> SUFFICES ASSUME NEW s \in Rooms, NEW n \in 1 .. Len(log'[s]), log'[s][n].payload.names # {}
             PROVE  log'[s][n].type = "event.redacted" /\ ~log'[s][n].payload.words
  BY DEF Announcing
<1>1. CASE UNCHANGED logVars
  BY <1>1 DEF logVars, Announcing
<1>2. ASSUME RowsStay, n \in 1 .. Len(log[s])
      PROVE  log'[s][n].type = "event.redacted" /\ ~log'[s][n].payload.words
  <2>1. Marker.names = {}
    BY DEF Marker
  <2> QED
    BY <1>2, <2>1 DEF RowsStay, Announcing
<1>3. ASSUME NEW r \in Rooms, Grows(r)
      PROVE  log'[s][n].type = "event.redacted" /\ ~log'[s][n].payload.words
  <2>1. RowsStay
    BY <1>3, GrowsStay
  <2>2. CASE n \in 1 .. Len(log[s])
    BY <1>2, <2>1, <2>2
  <2>3. CASE n \notin 1 .. Len(log[s])
    BY <1>3, <2>1, <2>3 DEF Grows, SameElsewhere, RowsStay
  <2> QED
    BY <2>2, <2>3
<1>4. ASSUME NEW r \in Rooms, NEW hit, Blanks(r, hit)
      PROVE  log'[s][n].type = "event.redacted" /\ ~log'[s][n].payload.words
  <2>1. RowsStay
    BY <1>4, BlanksStay
  <2>2. CASE n \in 1 .. Len(log[s])
    BY <1>2, <2>1, <2>2
  <2>3. CASE n \notin 1 .. Len(log[s])
    <3>1. s = r
      BY <1>4, <2>3 DEF Blanks, SameElsewhere
    <3>2. n \in Len(log[r]) + 1 .. Len(log'[r])
      BY <2>1, <2>3, <3>1 DEF RowsStay
    <3> QED
      BY <1>4, <3>1, <3>2 DEF Blanks
  <2> QED
    BY <2>2, <2>3
<1> QED
  BY <1>1, <1>3, <1>4

\* A log kept this way verifies.
LEMMA KeptVerifies ==
    ASSUME LogTypeOK, RowsKept
    PROVE  LogVerifies
<1> SUFFICES ASSUME NEW r \in Rooms PROVE BreakIn(r, log[r], counter[r]) = {}
  BY DEF LogVerifies
<1>1. DOMAIN log[r] = 1 .. Len(log[r]) /\ counter[r] = Len(log[r]) /\ Len(log[r]) \in Nat
  BY LineFacts DEF LogTypeOK
<1>2. ASSUME NEW n \in 1 .. Len(log[r]) PROVE RowSound(r, log[r], n)
  <2>1. RowKept(r, n)
    BY DEF RowsKept
  <2>2. log[r][n].payload.names \subseteq redactions
    BY DEF LogTypeOK, Payloads
  <2>3. \A d \in log[r][n].payload.names : d.seq < n /\ d \in RecordOf(r, d.seq)
    BY <1>1, <2>1, <2>2 DEF RowKept, RecordOf
  <2>4. log[r][n].payload.marker =>
           \E d \in RecordOf(r, n) : d.hash = log[r][n].hash /\ d.header = HeaderHash(log[r][n])
    BY <2>1 DEF RowKept, Recorded, RecordOf
  <2> QED
    BY <2>1, <2>3, <2>4 DEF RowKept, RowSound
<1>3. ASSUME NEW n \in 1 .. Len(log[r]), log[r][n].payload.marker PROVE Announced(log[r], n)
  BY <1>3 DEF RowsKept, RowKept
<1> QED
  BY <1>1, <1>2, <1>3 DEF BreakIn

-----------------------------------------------------------------------------
(* An erasure's transaction over one room.                                     *)
Hit(o, r) == { w.seq : w \in { v \in { u \in erasures[o].rows : u.room = r } : v.personal } }

\* The events it blanks: of the member, in the log, and no announcement.
LEMMA HitListed ==
    ASSUME Listed, NEW o \in Operators, NEW r \in Rooms
    PROVE  /\ Hit(o, r) \in SUBSET (1 .. Len(log[r]))
           /\ \A n \in Hit(o, r) : log[r][n].payload.names = {} /\ log[r][n].actor = erasures[o].user
BY DEF Hit, Listed

\* redact_payload_in_transaction and the announcement, in one transaction.
LEMMA RedactionBlanks ==
    ASSUME LogTypeOK, NEW r \in Rooms, NEW hit \in SUBSET (1 .. Len(log[r])),
           redactions' = redactions \cup Names(r, hit),
           AppendTo(r, Redacted(log[r], hit), "event.redacted", System, Payload({}, FALSE, Names(r, hit)))
    PROVE  Blanks(r, hit)
<1>1. IsLine(log[r]) /\ Len(log[r]) \in Nat
  BY LineFacts DEF LogTypeOK
<1>2. PICK rows : rows = Redacted(log[r], hit)
  OBVIOUS
<1>3. /\ IsLine(rows) /\ Len(rows) = Len(log[r])
      /\ \A n \in 1 .. Len(log[r]) : rows[n] = IF n \in hit THEN [log[r][n] EXCEPT !.payload = Marker] ELSE log[r][n]
  BY <1>1, <1>2, RedactedLine
<1>4. PICK payload : payload = Payload({}, FALSE, Names(r, hit))
  OBVIOUS
<1>5. payload \in Payloads' /\ payload.names = Names(r, hit) /\ ~payload.marker /\ ~payload.words
      /\ payload.about = {}
  BY <1>4 DEF Payload, Payloads
<1>6. /\ SameElsewhere(r) /\ Len(log'[r]) = Len(log[r]) + 1
      /\ \A n \in 1 .. Len(log[r]) : log'[r][n] = rows[n]
      /\ LET new == log'[r][Len(log[r]) + 1] IN
         /\ IsRow(new) /\ new.seq = Len(log[r]) + 1 /\ new.prev = PrevOf(log'[r], Len(log[r]) + 1)
         /\ new.type = "event.redacted" /\ new.actor = System /\ new.payload = payload
         /\ new.hash = ChainHash(new.prev, r, Len(log[r]) + 1, "event.redacted", System, payload)
  <2>1. AppendTo(r, rows, "event.redacted", System, payload)
    BY <1>2, <1>4 DEF AppendTo
  <2> QED
    BY <1>3, <2>1, RowChained
<1>7. PICK k \in Nat : k = Len(log[r]) + 1
  BY <1>1
<1>8. ASSUME NEW n \in k .. Len(log'[r])
      PROVE  /\ NewRow(r, n)' /\ log'[r][n].payload.names = Names(r, hit)
             /\ log'[r][n].type = "event.redacted" /\ ~log'[r][n].payload.words
             /\ log'[r][n].payload.about = {}
  <2>1. n = k
    BY <1>1, <1>6, <1>7
  <2>2. /\ NewRow(r, k)' /\ log'[r][k].payload.names = Names(r, hit)
        /\ log'[r][k].type = "event.redacted" /\ ~log'[r][k].payload.words
        /\ log'[r][k].payload.about = {}
    BY <1>5, <1>6, <1>7 DEF NewRow
  <2> QED
    BY <2>1, <2>2
<1>9. \A n \in 1 .. Len(log[r]) :
         log'[r][n] = IF n \in hit THEN [log[r][n] EXCEPT !.payload = Marker] ELSE log[r][n]
  BY <1>3, <1>6
<1> QED
  BY <1>6, <1>7, <1>8, <1>9 DEF Blanks

\* The transaction: it meets a record that is there and is given up, or it takes the rows
\* of the room off the list, clears the tables, and blanks what it has to.
LEMMA RoomErased ==
    ASSUME LogTypeOK, Listed, RecTypeOK, NEW o \in Operators, NEW r \in Rooms, EraseRoom(o, r)
    PROVE  /\ UNCHANGED <<typed, status, child, signedIn, pending, begun>>
           /\ \/ erasures' = [erasures EXCEPT ![o] = IdleErasure] /\ UNCHANGED <<held, logVars>>
              \/ /\ erasures[o].at = "rooms"
                 /\ \A n \in Hit(o, r) : RecordOf(r, n) = {}
                 /\ erasures' = [erasures EXCEPT ![o] =
                        [erasures[o] EXCEPT !.rows = erasures[o].rows \ { w \in erasures[o].rows : w.room = r }]]
                 /\ held' = held \ Taken(erasures[o].user, r, Hit(o, r))
                 /\ \/ Hit(o, r) = {} /\ UNCHANGED logVars
                    \/ Blanks(r, Hit(o, r))
<1>1. PICK hit : hit = Hit(o, r)
  OBVIOUS
<1>2. hit = { w.seq : w \in { v \in { u \in erasures[o].rows : u.room = r } : v.personal } }
  BY <1>1 DEF Hit
<1>3. UNCHANGED <<typed, status, child, signedIn, pending, begun>> /\ erasures[o].at = "rooms"
  BY DEF EraseRoom
<1>4. CASE \E n \in hit : RecordOf(r, n) # {}
  <2>1. erasures' = [erasures EXCEPT ![o] = IdleErasure] /\ UNCHANGED <<held, logVars>>
    BY <1>2, <1>4 DEF EraseRoom
  <2> QED
    BY <1>3, <2>1
<1>5. CASE ~\E n \in hit : RecordOf(r, n) # {}
  <2>1. /\ erasures' = [erasures EXCEPT ![o] =
               [erasures[o] EXCEPT !.rows = erasures[o].rows \ { w \in erasures[o].rows : w.room = r }]]
        /\ held' = held \ Taken(erasures[o].user, r, hit)
        /\ IF hit = {} THEN UNCHANGED logVars
           ELSE /\ redactions' = redactions \cup { RedactionOf(r, log[r][n]) : n \in hit }
                /\ AppendTo(r, Redacted(log[r], hit), "event.redacted", System,
                            Payload({}, FALSE, { RedactionOf(r, log[r][n]) : n \in hit }))
    BY <1>2, <1>5 DEF EraseRoom
  <2>2. CASE hit = {}
    BY <1>1, <1>3, <1>5, <2>1, <2>2
  <2>3. CASE hit # {}
    <3>1. hit \in SUBSET (1 .. Len(log[r]))
      BY <1>1, HitListed
    <3>2. /\ redactions' = redactions \cup Names(r, hit)
          /\ AppendTo(r, Redacted(log[r], hit), "event.redacted", System, Payload({}, FALSE, Names(r, hit)))
      BY <2>1, <2>3 DEF Names
    <3>3. Blanks(r, hit)
      BY <3>1, <3>2, RedactionBlanks
    <3> QED
      BY <1>1, <1>3, <1>5, <2>1, <3>3
  <2> QED
    BY <2>2, <2>3
<1> QED
  BY <1>4, <1>5

-----------------------------------------------------------------------------
(* The words.                                                                  *)

\* A table shows the words of an event, or words that no event carries.
LEMMA ShownNotSilent ==
    ASSUME NEW type, NEW table, <<type, table>> \in Shown
    PROVE  table \notin Silent
<1>1. table \in {"messages", "search_documents", "notifications", "tasks", "decisions", "artifacts", "rooms",
                  "interventions", "agent_task_messages"}
  BY DEF Shown
<1> QED
  BY <1>1 DEF Silent

\* What one transaction may type, and where it may show a text.
NewText(x) ==
    /\ ~Authored(x) /\ typed'[x] \in TypedRows
    /\ typed'[x].seq > 0 =>
          /\ typed'[x].seq \in 1 .. Len(log'[typed'[x].room])
          /\ EventOf(x)'.actor = typed'[x].by /\ \E p \in Shown : p[1] = EventOf(x)'.type
          /\ ~EventOf(x)'.payload.marker /\ EventOf(x)'.payload.about = {x}
          /\ EventOf(x)'.payload.words \/ EventOf(x)'.type = "task.delegated"
NewPlace(c) ==
    /\ c = <<c[1], c[2]>> /\ c[1] \in Texts
    /\ \/ /\ NewText(c[1])
          /\ IF typed'[c[1]].seq = 0 THEN c[2] \in Silent ELSE <<EventOf(c[1])'.type, c[2]>> \in Shown
       \/ /\ Authored(c[1]) /\ typed[c[1]].seq > 0
          /\ \/ c[2] \in Unreached
             \/ /\ ~EventOf(c[1]).payload.marker
                /\ c[2] = "snapshots" \/ <<EventOf(c[1]).type, c[2]>> \in Shown
Writes ==
    /\ typed' \in [Texts -> TypedRows \cup {Nobody}] /\ \A x \in Texts : typed'[x] = typed[x] \/ NewText(x)
    /\ \A c \in held' : c \in held \/ NewPlace(c)
    /\ UNCHANGED erasures
    /\ UNCHANGED logVars \/ \E r \in Rooms : Grows(r)

\* Rows that were there are the same rows when a log grows, or nothing is logged.
LEMMA OldRowsSame ==
    ASSUME LogTypeOK, UNCHANGED logVars \/ \E r \in Rooms : Grows(r)
    PROVE  /\ RowsStay
           /\ \A s \in Rooms : \A n \in 1 .. Len(log[s]) : log'[s][n] = log[s][n]
<1>1. CASE UNCHANGED logVars
  BY <1>1, NothingStays DEF logVars
<1>2. ASSUME NEW r \in Rooms, Grows(r)
      PROVE  RowsStay /\ \A s \in Rooms : \A n \in 1 .. Len(log[s]) : log'[s][n] = log[s][n]
  BY <1>2, GrowsStay DEF Grows, SameElsewhere
<1> QED
  BY <1>1, <1>2

\* A text typed before is where it was, and so is its event.
LEMMA OldTextsSame ==
    ASSUME LogTypeOK, RecTypeOK, InTheLog, Writes, NEW x \in Texts, Authored(x)
    PROVE  /\ typed'[x] = typed[x] /\ typed[x] \in TypedRows /\ Authored(x)' /\ ~NewText(x)
           /\ typed[x].seq > 0 => /\ EventOf(x)' = EventOf(x)
                                  /\ typed[x].seq \in 1 .. Len(log'[typed[x].room])
<1>1. typed'[x] = typed[x] /\ typed[x] \in TypedRows /\ Authored(x)' /\ ~NewText(x)
  BY DEF Writes, NewText, Authored, RecTypeOK
<1>2. ASSUME typed[x].seq > 0
      PROVE  EventOf(x)' = EventOf(x) /\ typed[x].seq \in 1 .. Len(log'[typed[x].room])
  <2>1. PICK s \in Rooms, n \in Nat : s = typed[x].room /\ n = typed[x].seq
    BY <1>1 DEF TypedRows
  <2>2. n \in 1 .. Len(log[s])
    BY <1>2, <2>1 DEF InTheLog
  <2>3. /\ Len(log[s]) \in Nat /\ Len(log'[s]) \in Nat /\ Len(log[s]) <= Len(log'[s])
        /\ log'[s][n] = log[s][n]
    BY <2>2, OldRowsSame DEF Writes, RowsStay
  <2> QED
    BY <1>1, <2>1, <2>2, <2>3 DEF EventOf
<1> QED
  BY <1>1, <1>2

\* A transaction that types, moves or points keeps what is said of the words.
LEMMA WritesKeep ==
    ASSUME LogTypeOK, RecInv, Writes
    PROVE  RecInv'
<1>1. RecTypeOK /\ InTheLog /\ InPlace /\ Reaching /\ NothingErasedComesBack
  BY DEF RecInv
<1>2. ASSUME NEW x \in Texts, NEW w \in Texts, typed'[x] # typed[x] PROVE NewText(x)
  BY <1>2 DEF Writes
<1>3. RecTypeOK'
  <2>1. typed' \in [Texts -> TypedRows \cup {Nobody}]
    BY DEF Writes
  <2>2. \A c \in held' : c = <<c[1], c[2]>> /\ c[1] \in Texts
    BY <1>1 DEF Writes, NewPlace, RecTypeOK
  <2> QED
    BY <1>1, <2>1, <2>2 DEF RecTypeOK, Writes
<1>4. InTheLog'
  <2> SUFFICES ASSUME NEW x \in Texts, Authored(x)', typed'[x].seq > 0
               PROVE  /\ typed'[x].seq \in 1 .. Len(log'[typed'[x].room])
                      /\ EventOf(x)'.actor = typed'[x].by
                      /\ \E p \in Shown : p[1] = EventOf(x)'.type
                      /\ ~EventOf(x)'.payload.marker => /\ EventOf(x)'.payload.about = {x}
                             /\ (EventOf(x)'.payload.words \/ EventOf(x)'.type = "task.delegated")
    BY DEF InTheLog
  <2>1. CASE Authored(x)
    BY <1>1, <2>1, OldTextsSame DEF InTheLog
  <2>2. CASE ~Authored(x)
    <3>1. NewText(x)
      BY <2>2 DEF Writes, Authored
    <3> QED
      BY <3>1 DEF NewText
  <2> QED
    BY <2>1, <2>2
<1>5. ASSUME NEW c \in held', c \in held
      PROVE  c[1] \in Texts /\ Authored(c[1]) /\ typed'[c[1]] = typed[c[1]] /\ Authored(c[1])' /\
                (typed[c[1]].seq > 0 => EventOf(c[1])' = EventOf(c[1]))
  BY <1>1, <1>5, OldTextsSame DEF RecTypeOK, InPlace
<1>6. InPlace'
  <2> SUFFICES ASSUME NEW c \in held'
               PROVE  Authored(c[1])' /\
                        IF typed'[c[1]].seq = 0 THEN c[2] \in Silent
                        ELSE c[2] \in Unreached \cup {"snapshots"} \/ <<EventOf(c[1])'.type, c[2]>> \in Shown
    BY DEF InPlace
  <2>1. CASE c \in held
    <3>1. typed[c[1]].seq \in Nat
      BY <1>1, <1>5, <2>1 DEF RecTypeOK, TypedRows, Authored
    <3>2. IF typed[c[1]].seq = 0 THEN c[2] \in Silent
          ELSE c[2] \in Unreached \cup {"snapshots"} \/ <<EventOf(c[1]).type, c[2]>> \in Shown
      BY <1>1, <2>1 DEF InPlace
    <3>3. typed[c[1]].seq = 0 \/ EventOf(c[1])' = EventOf(c[1])
      BY <1>5, <2>1, <3>1
    <3>4. typed'[c[1]] = typed[c[1]] /\ Authored(c[1])'
      BY <1>5, <2>1
    <3> QED
      BY <3>2, <3>3, <3>4
  <2>2. CASE c \notin held
    <3>1. NewPlace(c)
      BY <2>2 DEF Writes
    <3>2. CASE NewText(c[1])
      <4>1. typed'[c[1]] # Nobody /\ c[1] \in Texts /\ ~Authored(c[1])
        BY <3>1, <3>2, RecordsAssumption DEF NewPlace, NewText, TypedRows
      <4> QED
        BY <3>1, <4>1 DEF NewPlace, Authored
    <3>3. CASE ~NewText(c[1])
      <4>1. Authored(c[1]) /\ c[1] \in Texts /\ typed[c[1]].seq > 0
        BY <3>1, <3>3 DEF NewPlace
      <4>2. /\ typed'[c[1]] = typed[c[1]] /\ typed[c[1]].seq \in Nat /\ Authored(c[1])'
            /\ EventOf(c[1])' = EventOf(c[1])
        BY <1>1, <4>1, OldTextsSame DEF TypedRows
      <4>3. c[2] \in Unreached \cup {"snapshots"} \/ <<EventOf(c[1]).type, c[2]>> \in Shown
        BY <3>1, <3>3 DEF NewPlace
      <4>4. typed'[c[1]].seq # 0
        BY <4>1, <4>2
      <4> QED
        BY <4>2, <4>3, <4>4
    <3> QED
      BY <3>2, <3>3
  <2> QED
    BY <2>1, <2>2
<1>7. ASSUME NEW type, NEW table, <<type, table>> \in Shown PROVE table \notin Silent
  BY <1>7, ShownNotSilent
<1>8. Reaching'
  <2> SUFFICES ASSUME NEW o \in Operators, NEW x \in erasures[o].known, x \in Texts
               PROVE  /\ Authored(x)' /\ typed'[x].by = erasures[o].user
                      /\ typed'[x].seq > 0 /\ ~EventOf(x)'.payload.marker =>
                            /\ erasures[o].at = "rooms"
                            /\ \E w \in erasures[o].rows :
                                  w.room = typed'[x].room /\ w.seq = typed'[x].seq /\ w.personal
                      /\ \A c \in held' : c[1] = x /\ c[2] \in Silent => ToSweep(erasures[o], c)
    BY <1>1 DEF Reaching, Writes, RecTypeOK
  <2>1. /\ Authored(x) /\ typed[x].by = erasures[o].user
        /\ typed[x].seq > 0 /\ ~EventOf(x).payload.marker =>
              /\ erasures[o].at = "rooms"
              /\ \E w \in erasures[o].rows : w.room = typed[x].room /\ w.seq = typed[x].seq /\ w.personal
        /\ \A c \in held : c[1] = x /\ c[2] \in Silent => ToSweep(erasures[o], c)
    BY <1>1 DEF Reaching
  <2>2. /\ typed'[x] = typed[x] /\ Authored(x)' /\ ~NewText(x)
        /\ (typed[x].seq > 0 => EventOf(x)' = EventOf(x))
    BY <1>1, <2>1, OldTextsSame
  <2>3. ASSUME NEW c \in held', c[1] = x, c[2] \in Silent PROVE c \in held
    <3>1. "snapshots" \notin Silent /\ c[2] \notin Unreached
      BY <2>3 DEF Silent, Unreached, Delegated, Quoted
    <3>2. ASSUME NewPlace(c) PROVE FALSE
      <4>1. <<EventOf(x).type, c[2]>> \in Shown
        BY <2>2, <2>3, <3>1, <3>2 DEF NewPlace
      <4> QED
        BY <1>7, <2>3, <4>1
    <3> QED
      BY <3>2 DEF Writes
  <2> QED
    BY <2>1, <2>2, <2>3
<1>9. NothingErasedComesBack'
  <2> SUFFICES ASSUME NEW x \in Texts, Gone(x)', NEW c \in held', c[1] = x PROVE c[2] \in Unreached
    BY DEF NothingErasedComesBack
  <2>1. Authored(x)
    <3>1. CASE NewText(x)
      BY <3>1 DEF NewText, Gone
    <3>2. CASE ~NewText(x)
      BY <3>2 DEF Writes, Gone, Authored
    <3> QED
      BY <3>1, <3>2
  <2>2. Gone(x) /\ ~NewText(x)
    BY <1>1, <2>1, OldTextsSame DEF Gone
  <2>3. CASE c \in held
    BY <1>1, <2>2, <2>3 DEF NothingErasedComesBack
  <2>4. CASE c \notin held
    BY <2>2, <2>4 DEF Writes, NewPlace, Gone
  <2> QED
    BY <2>3, <2>4
<1> QED
  BY <1>3, <1>4, <1>6, <1>8, <1>9 DEF RecInv

\* A transaction whose event carries, or points at, what a member typed.
LEMMA TypedWrites ==
    ASSUME LogTypeOK, RecInv, NEW u \in Users, NEW r \in Rooms, NEW x \in Texts, NEW tables, NEW type,
           NEW words \in BOOLEAN, words \/ type = "task.delegated",
           \A t \in tables : <<type, t>> \in Shown, tables # {},
           Types(u, r, x, tables, counter[r] + 1), Event(r, type, u, {x}, words)
    PROVE  Writes
<1>1. RecTypeOK
  BY DEF RecInv
<1>2. /\ ~Authored(x) /\ typed' = [typed EXCEPT ![x] = [by |-> u, room |-> r, seq |-> counter[r] + 1]]
      /\ held' = held \cup ({x} \X tables) /\ UNCHANGED erasures
  BY DEF Types
<1>3. /\ Grows(r) /\ Len(log'[r]) = Len(log[r]) + 1
      /\ LET new == log'[r][Len(log[r]) + 1] IN
         new.type = type /\ new.actor = u /\ new.payload = Payload({x}, words, {})
  BY EventGrows
<1>4. PICK k \in Nat : k = counter[r] + 1 /\ k = Len(log[r]) + 1 /\ k \in 1 .. Len(log'[r])
  BY <1>3, LineFacts DEF LogTypeOK
<1>5. PICK row \in TypedRows : row = [by |-> u, room |-> r, seq |-> k]
  BY DEF TypedRows
<1>6. row.by = u /\ row.room = r /\ row.seq = k /\ row # Nobody
  BY <1>5, RecordsAssumption DEF TypedRows
<1>7. typed' \in [Texts -> TypedRows \cup {Nobody}] /\ typed'[x] = row /\ \A y \in Texts \ {x} : typed'[y] = typed[y]
  BY <1>1, <1>2, <1>4, <1>5 DEF RecTypeOK
<1>8. EventOf(x)'.type = type /\ EventOf(x)'.actor = u /\ EventOf(x)'.payload = Payload({x}, words, {})
  BY <1>3, <1>4, <1>6, <1>7 DEF EventOf
<1>9. Payload({x}, words, {}).about = {x} /\ Payload({x}, words, {}).words = words
      /\ ~Payload({x}, words, {}).marker
  BY DEF Payload
<1>10. NewText(x)
  <2>1. \E p \in Shown : p[1] = type
    <3>1. PICK t \in tables : <<type, t>> \in Shown
      OBVIOUS
    <3>2. <<type, t>>[1] = type
      OBVIOUS
    <3> QED
      BY <3>1, <3>2
  <2> QED
    BY <1>2, <1>4, <1>6, <1>7, <1>8, <1>9, <2>1 DEF NewText
<1>11. ASSUME NEW c \in held', c \notin held PROVE NewPlace(c)
  <2>1. PICK t \in tables : c = <<x, t>>
    BY <1>2, <1>11
  <2> QED
    BY <1>4, <1>6, <1>7, <1>8, <1>10, <2>1 DEF NewPlace
<1> QED
  BY <1>2, <1>3, <1>7, <1>10, <1>11 DEF Writes

\* A transaction that types what no event carries, and may copy what others typed.
LEMMA SilentWrites ==
    ASSUME LogTypeOK, RecInv, NEW u \in Users, NEW r \in Rooms, NEW x \in Texts, NEW tables \in SUBSET Silent,
           NEW copies, \A c \in copies : NewPlace(c),
           ~Authored(x), typed' = [typed EXCEPT ![x] = [by |-> u, room |-> r, seq |-> 0]],
           held' = held \cup ({x} \X tables) \cup copies, UNCHANGED erasures,
           UNCHANGED logVars \/ \E type : Event(r, type, u, {}, FALSE)
    PROVE  Writes
<1>1. RecTypeOK
  BY DEF RecInv
<1>2. PICK row \in TypedRows : row = [by |-> u, room |-> r, seq |-> 0]
  BY DEF TypedRows
<1>2a. row.seq = 0
  BY <1>2
<1>3. typed' \in [Texts -> TypedRows \cup {Nobody}] /\ typed'[x] = row /\ \A y \in Texts \ {x} : typed'[y] = typed[y]
  BY <1>1, <1>2 DEF RecTypeOK
<1>4. NewText(x)
  BY <1>2, <1>2a, <1>3 DEF NewText
<1>5. ASSUME NEW c \in held', c \notin held PROVE NewPlace(c)
  <2>1. CASE c \in copies
    BY <2>1
  <2>2. CASE c \notin copies
    <3>1. PICK t \in tables : c = <<x, t>>
      BY <1>5, <2>2
    <3> QED
      BY <1>2a, <1>3, <1>4, <3>1 DEF NewPlace
  <2> QED
    BY <2>1, <2>2
<1>6. UNCHANGED logVars \/ Grows(r)
  BY EventGrows
<1> QED
  BY <1>3, <1>4, <1>5, <1>6 DEF Writes

\* A transaction that types nothing, and shows a text where its event may.
LEMMA MovesWrite ==
    ASSUME LogTypeOK, RecInv, UNCHANGED <<typed, erasures>>,
           \A c \in held' : c \in held \/ NewPlace(c),
           UNCHANGED logVars \/ \E r \in Rooms : Grows(r)
    PROVE  Writes
BY DEF Writes, RecInv, RecTypeOK

\* start_branch copies what the room still shows of its messages and events.
LEMMA SnapshotPlaces ==
    ASSUME LogTypeOK, RecInv, NEW r \in Rooms, NEW c \in SnapshotOf(r) \X {"snapshots"}
    PROVE  NewPlace(c)
<1>1. RecTypeOK /\ InPlace /\ NothingErasedComesBack
  BY DEF RecInv
<1>2. PICK y \in SnapshotOf(r) : c = <<y, "snapshots">>
  OBVIOUS
<1>3. y \in Texts /\ Authored(y) /\ (<<y, "messages">> \in held \/ Said(y))
  BY <1>2 DEF SnapshotOf
<1>4. typed[y].seq \in Nat
  BY <1>1, <1>3 DEF RecTypeOK, TypedRows, Authored
<1>5. typed[y].seq > 0 /\ ~EventOf(y).payload.marker
  <2>1. CASE Said(y)
    BY <2>1 DEF Said
  <2>2. CASE <<y, "messages">> \in held
    <3>1. "messages" \notin Silent /\ "messages" \notin Unreached
      BY DEF Silent, Unreached, Delegated, Quoted
    <3>2. IF typed[y].seq = 0 THEN "messages" \in Silent ELSE TRUE
      BY <1>1, <2>2 DEF InPlace
    <3>3. typed[y].seq > 0
      BY <1>4, <3>1, <3>2
    <3>4. ~Gone(y)
      BY <1>1, <1>3, <2>2, <3>1 DEF NothingErasedComesBack
    <3> QED
      BY <1>3, <3>3, <3>4 DEF Gone
  <2> QED
    BY <1>3, <2>1, <2>2
<1> QED
  BY <1>2, <1>3, <1>5 DEF NewPlace

\* Starting a branch writes the branch, its first execution and its
\* snapshot, and no erasure.
LEMMA BranchWrites ==
    ASSUME LogTypeOK, RecInv, NEW u \in Users, NEW r \in Rooms, NEW x \in Texts, StartBranch(u, r, x)
    PROVE  Writes
<1>1. /\ ~Authored(x) /\ typed' = [typed EXCEPT ![x] = [by |-> u, room |-> r, seq |-> 0]]
      /\ held' = held \cup ({x} \X {"branches", "executions"}) \cup (SnapshotOf(r) \X {"snapshots"})
      /\ UNCHANGED erasures /\ Event(r, "branch.started", u, {}, FALSE)
  BY DEF StartBranch
<1>2. {"branches", "executions"} \in SUBSET Silent
  BY DEF Silent
<1>3. \A c \in SnapshotOf(r) \X {"snapshots"} : NewPlace(c)
  BY SnapshotPlaces
<1>4. \E type : Event(r, type, u, {}, FALSE)
  BY <1>1
<1> QED
  BY <1>1, <1>2, <1>3, <1>4, SilentWrites

\* Everything a member may type.
LEMMA AuthorWrites ==
    ASSUME LogTypeOK, RecInv, NEW u \in Users, NEW r \in Rooms, NEW x \in Texts, Author(u, r, x)
    PROVE  Writes
<1>a. ASSUME NEW tables, NEW type, \A t \in tables : <<type, t>> \in Shown, tables # {},
             Types(u, r, x, tables, counter[r] + 1), Event(r, type, u, {x}, TRUE)
      PROVE  Writes
  <2>1. TRUE \in BOOLEAN /\ (TRUE \/ type = "task.delegated")
    OBVIOUS
  <2> QED
    BY <1>a, <2>1, TypedWrites
<1>b. ASSUME NEW tables, \A t \in tables : <<"task.delegated", t>> \in Shown, tables # {},
             Types(u, r, x, tables, counter[r] + 1), Event(r, "task.delegated", u, {x}, FALSE)
      PROVE  Writes
  <2>1. FALSE \in BOOLEAN /\ (FALSE \/ "task.delegated" = "task.delegated")
    OBVIOUS
  <2> QED
    BY <1>b, <2>1, TypedWrites
<1>1. CASE SendMessage(u, r, x)
  <2>1. /\ Types(u, r, x, {"messages", "search_documents", "notifications"}, counter[r] + 1)
        /\ Event(r, "message.created", u, {x}, TRUE)
    BY <1>1 DEF SendMessage, Typed
  <2>2. (\A t \in {"messages", "search_documents", "notifications"} : <<"message.created", t>> \in Shown) /\ {"messages", "search_documents", "notifications"} # {}
    BY DEF Shown
  <2> QED
    BY <1>a, <2>1, <2>2
<1>2. CASE CreateTask(u, r, x)
  <2>1. /\ Types(u, r, x, {"tasks", "search_documents"}, counter[r] + 1)
        /\ Event(r, "task.created", u, {x}, TRUE)
    BY <1>2 DEF CreateTask, Typed
  <2>2. (\A t \in {"tasks", "search_documents"} : <<"task.created", t>> \in Shown) /\ {"tasks", "search_documents"} # {}
    BY DEF Shown
  <2> QED
    BY <1>a, <2>1, <2>2
<1>3. CASE CreateDecision(u, r, x)
  <2>1. /\ Types(u, r, x, {"decisions", "search_documents"}, counter[r] + 1)
        /\ Event(r, "decision.created", u, {x}, TRUE)
    BY <1>3 DEF CreateDecision, Typed
  <2>2. (\A t \in {"decisions", "search_documents"} : <<"decision.created", t>> \in Shown) /\ {"decisions", "search_documents"} # {}
    BY DEF Shown
  <2> QED
    BY <1>a, <2>1, <2>2
<1>4. CASE CreateArtifact(u, r, x)
  <2>1. Types(u, r, x, {"artifacts"}, counter[r] + 1) /\ Event(r, "artifact.created", u, {x}, TRUE)
    BY <1>4 DEF CreateArtifact, Typed
  <2>2. (\A t \in {"artifacts"} : <<"artifact.created", t>> \in Shown) /\ {"artifacts"} # {}
    BY DEF Shown
  <2> QED
    BY <1>a, <2>1, <2>2
<1>5. CASE CreateRoom(u, r, x)
  <2>1. Types(u, r, x, {"rooms"}, counter[r] + 1) /\ Event(r, "room.created", u, {x}, TRUE)
    BY <1>5 DEF CreateRoom, Typed
  <2>2. (\A t \in {"rooms"} : <<"room.created", t>> \in Shown) /\ {"rooms"} # {}
    BY DEF Shown
  <2> QED
    BY <1>a, <2>1, <2>2
<1>6. CASE Intervene(u, r, x)
  <2>1. /\ Types(u, r, x, {"interventions"}, counter[r] + 1)
        /\ Event(r, "human.redirected_agent", u, {x}, TRUE)
    BY <1>6 DEF Intervene, Typed
  <2>2. (\A t \in {"interventions"} : <<"human.redirected_agent", t>> \in Shown) /\ {"interventions"} # {}
    BY DEF Shown
  <2> QED
    BY <1>a, <2>1, <2>2
<1>7. CASE OpenAgentTask(u, r, x)
  <2>1. /\ Types(u, r, x, {"agent_task_messages"}, counter[r] + 1)
        /\ Event(r, "task.delegated", u, {x}, FALSE)
    BY <1>7 DEF OpenAgentTask
  <2>2. (\A t \in {"agent_task_messages"} : <<"task.delegated", t>> \in Shown) /\ {"agent_task_messages"} # {}
    BY DEF Shown
  <2> QED
    BY <1>b, <2>1, <2>2
<1>8. ASSUME NEW tables \in SUBSET Silent, Types(u, r, x, tables, 0),
             UNCHANGED logVars \/ \E type : Event(r, type, u, {}, FALSE)
      PROVE  Writes
  <2> DEFINE none == {}
  <2>1. /\ ~Authored(x) /\ typed' = [typed EXCEPT ![x] = [by |-> u, room |-> r, seq |-> 0]]
        /\ held' = held \cup ({x} \X tables) \cup none /\ UNCHANGED erasures
    BY <1>8 DEF Types
  <2>2. \A c \in none : NewPlace(c)
    OBVIOUS
  <2> HIDE DEF none
  <2> QED
    BY <1>8, <2>1, <2>2, SilentWrites
<1>9. CASE UploadAttachment(u, r, x)
  <2>1. {"attachments"} \in SUBSET Silent
    BY DEF Silent
  <2> QED
    BY <1>8, <1>9, <2>1 DEF UploadAttachment
<1>10. CASE CreateMemory(u, r, x)
  <2>1. {"memories"} \in SUBSET Silent
    BY DEF Silent
  <2> QED
    BY <1>8, <1>10, <2>1 DEF CreateMemory
<1>11. CASE ReviewApproval(u, r, x)
  <2>1. {"approvals"} \in SUBSET Silent
    BY DEF Silent
  <2> QED
    BY <1>8, <1>11, <2>1 DEF ReviewApproval
<1>12. CASE StartSynthesis(u, r, x)
  <2>1. {"branch_syntheses"} \in SUBSET Silent
    BY DEF Silent
  <2> QED
    BY <1>8, <1>12, <2>1 DEF StartSynthesis
<1>13. CASE StartBranch(u, r, x)
  BY <1>13, BranchWrites
<1> QED
  BY <1>1, <1>2, <1>3, <1>4, <1>5, <1>6, <1>7, <1>9, <1>10, <1>11, <1>12, <1>13 DEF Author

\* A task that is still shown is one whose event still says its words.
LEMMA TaskPlaces ==
    ASSUME RecInv, NEW x \in Texts, <<x, "tasks">> \in held
    PROVE  /\ Authored(x) /\ typed[x].seq > 0 /\ ~EventOf(x).payload.marker
           /\ EventOf(x).type = "task.created"
<1>1. RecTypeOK /\ InPlace /\ NothingErasedComesBack
  BY DEF RecInv
<1>2. "tasks" \notin Silent /\ "tasks" \notin Unreached
  BY DEF Silent, Unreached, Delegated, Quoted
<1>3. Authored(x) /\ IF typed[x].seq = 0 THEN "tasks" \in Silent
                     ELSE "tasks" \in Unreached \cup {"snapshots"} \/ <<EventOf(x).type, "tasks">> \in Shown
  BY <1>1 DEF InPlace
<1>4. typed[x].seq \in Nat
  BY <1>1, <1>3 DEF RecTypeOK, TypedRows, Authored
<1>5. typed[x].seq > 0 /\ <<EventOf(x).type, "tasks">> \in Shown
  BY <1>2, <1>3, <1>4
<1>6. EventOf(x).type = "task.created"
  BY <1>5 DEF Shown
<1>7. ~Gone(x)
  BY <1>1, <1>2 DEF NothingErasedComesBack
<1> QED
  BY <1>3, <1>5, <1>6, <1>7 DEF Gone

\* Every move of a task or a decision.
LEMMA MoveWrites ==
    ASSUME LogTypeOK, RecInv, NEW u \in Users, NEW x \in Texts, Move(u, x)
    PROVE  Writes
<1>1. RecTypeOK
  BY DEF RecInv
<1>2. ASSUME Authored(x) PROVE typed[x].room \in Rooms
  BY <1>1, <1>2 DEF RecTypeOK, TypedRows, Authored
<1>3. ASSUME NEW to, NEW type, NEW actor, MoveTask(u, x, to, type, actor)
      PROVE  Writes
  <2>1. /\ Authored(x) /\ UNCHANGED <<typed, erasures>> /\ held' = held \cup Reindexed(x)
        /\ Event(typed[x].room, type, actor, {x}, FALSE)
    BY <1>3 DEF MoveTask
  <2>2. Grows(typed[x].room)
    BY <1>2, <2>1, EventGrows
  <2>3. ASSUME NEW c \in held', c \notin held PROVE NewPlace(c)
    <3>1. c = <<x, "search_documents">> /\ <<x, "tasks">> \in held
      BY <2>1, <2>3 DEF Reindexed
    <3>2. <<"task.created", "search_documents">> \in Shown
      BY DEF Shown
    <3> QED
      BY <3>1, <3>2, TaskPlaces DEF NewPlace
  <2> QED
    BY <1>2, <2>1, <2>2, <2>3, MovesWrite
<1>4. CASE DelegateTask(u, x)
  <2>1. /\ Authored(x) /\ UNCHANGED <<typed, erasures>>
        /\ held' = held \cup (IF <<x, "tasks">> \in held
                              THEN {<<x, "delegated tasks">>, <<x, "delegated search_documents">>} ELSE {})
        /\ Event(typed[x].room, "task.delegated", Agent, {x}, FALSE)
    BY <1>4 DEF DelegateTask
  <2>2. Grows(typed[x].room)
    BY <1>2, <2>1, EventGrows
  <2>3. ASSUME NEW c \in held', c \notin held PROVE NewPlace(c)
    <3>1. <<x, "tasks">> \in held /\ \E t \in Delegated : c = <<x, t>>
      BY <2>1, <2>3 DEF Delegated
    <3> QED
      BY <3>1, TaskPlaces DEF NewPlace, Unreached
  <2> QED
    BY <1>2, <2>1, <2>2, <2>3, MovesWrite
<1>5. ASSUME NEW to, UpdateDecision(u, x, to)
      PROVE  Writes
  <2>1. PICK type : /\ Authored(x) /\ UNCHANGED <<typed, erasures, held>>
                    /\ Event(typed[x].room, type, u, {x}, FALSE)
    BY <1>5 DEF UpdateDecision
  <2>2. Grows(typed[x].room)
    BY <1>2, <2>1, EventGrows
  <2> QED
    BY <1>2, <2>1, <2>2, MovesWrite
<1> QED
  BY <1>3, <1>4, <1>5 DEF Move, AssignTask, CompleteTask, CancelTask

-----------------------------------------------------------------------------
(* Erasures.                                                                   *)

\* Where nothing is typed and no place is added, texts stay in the log and in place.
LEMMA TextsStay ==
    ASSUME RecTypeOK, InTheLog, InPlace, RowsStay, UNCHANGED typed, held' \subseteq held
    PROVE  /\ InTheLog' /\ InPlace'
           /\ \A x \in Texts : Authored(x) /\ typed[x].seq > 0 /\ ~EventOf(x)'.payload.marker =>
                  ~EventOf(x).payload.marker
<1>1. Marker.marker
  BY DEF Marker
<1>2. ASSUME NEW x \in Texts, Authored(x), typed[x].seq > 0
      PROVE  /\ typed[x].seq \in 1 .. Len(log'[typed[x].room])
             /\ EventOf(x)'.actor = EventOf(x).actor /\ EventOf(x)'.type = EventOf(x).type
             /\ EventOf(x)'.payload \in {EventOf(x).payload, Marker}
  <2>1. typed[x] \in TypedRows
    BY <1>2 DEF RecTypeOK, Authored
  <2>2. PICK s \in Rooms, n \in Nat : s = typed[x].room /\ n = typed[x].seq
    BY <2>1 DEF TypedRows
  <2>3. n \in 1 .. Len(log[s])
    BY <1>2, <2>2 DEF InTheLog
  <2>4. n \in 1 .. Len(log'[s])
    BY <2>3 DEF RowsStay
  <2>5. /\ log'[s][n].actor = log[s][n].actor /\ log'[s][n].type = log[s][n].type
        /\ log'[s][n].payload \in {log[s][n].payload, Marker}
    BY <2>3 DEF RowsStay
  <2> QED
    BY <2>2, <2>4, <2>5 DEF EventOf
<1>3. InTheLog'
  <2> SUFFICES ASSUME NEW x \in Texts, Authored(x), typed[x].seq > 0
               PROVE  /\ typed[x].seq \in 1 .. Len(log'[typed[x].room])
                      /\ EventOf(x)'.actor = typed[x].by
                      /\ \E p \in Shown : p[1] = EventOf(x)'.type
                      /\ ~EventOf(x)'.payload.marker => /\ EventOf(x)'.payload.about = {x}
                             /\ (EventOf(x)'.payload.words \/ EventOf(x)'.type = "task.delegated")
    BY DEF InTheLog, Authored
  <2>1. /\ EventOf(x).actor = typed[x].by /\ \E p \in Shown : p[1] = EventOf(x).type
        /\ ~EventOf(x).payload.marker => /\ EventOf(x).payload.about = {x}
                /\ (EventOf(x).payload.words \/ EventOf(x).type = "task.delegated")
    BY DEF InTheLog
  <2> QED
    BY <1>1, <1>2, <2>1
<1>4. InPlace'
  <2> SUFFICES ASSUME NEW c \in held, c \in held'
               PROVE  Authored(c[1]) /\
                        IF typed[c[1]].seq = 0 THEN c[2] \in Silent
                        ELSE c[2] \in Unreached \cup {"snapshots"} \/ <<EventOf(c[1])'.type, c[2]>> \in Shown
    BY DEF InPlace, Authored
  <2>1. Authored(c[1]) /\ c[1] \in Texts /\
           IF typed[c[1]].seq = 0 THEN c[2] \in Silent
           ELSE c[2] \in Unreached \cup {"snapshots"} \/ <<EventOf(c[1]).type, c[2]>> \in Shown
    BY DEF InPlace, RecTypeOK
  <2>2. typed[c[1]].seq \in Nat
    BY <2>1 DEF RecTypeOK, TypedRows, Authored
  <2>3. typed[c[1]].seq = 0 \/ EventOf(c[1])'.type = EventOf(c[1]).type
    BY <1>2, <2>1, <2>2
  <2> QED
    BY <2>1, <2>3
<1> QED
  BY <1>1, <1>2, <1>3, <1>4

\* A step of an erasure that only moves it on, and may clear a table.
LEMMA ErasureMoves ==
    ASSUME LogTypeOK, RecInv, UNCHANGED <<typed, logVars>>, held' \subseteq held,
           NEW o \in Operators, NEW row, erasures' = [erasures EXCEPT ![o] = row],
           row = [at |-> row.at, user |-> row.user, rows |-> row.rows, known |-> row.known, todo |-> row.todo],
           row.known \subseteq Texts,
           \A x \in row.known :
               /\ Authored(x) /\ typed[x].by = row.user
               /\ typed[x].seq > 0 /\ ~EventOf(x).payload.marker =>
                     /\ row.at = "rooms"
                     /\ \E w \in row.rows : w.room = typed[x].room /\ w.seq = typed[x].seq /\ w.personal
               /\ \A c \in held' : c[1] = x /\ c[2] \in Silent => ToSweep(row, c)
    PROVE  RecInv'
<1>1. RecTypeOK /\ InTheLog /\ InPlace /\ Reaching /\ NothingErasedComesBack
  BY DEF RecInv
<1>2. DOMAIN erasures' = Operators /\ erasures'[o] = row /\ \A p \in Operators \ {o} : erasures'[p] = erasures[p]
  BY <1>1 DEF RecTypeOK
<1>3. RecTypeOK'
  BY <1>1, <1>2 DEF RecTypeOK
<1>4. RowsStay /\ UNCHANGED log
  BY NothingStays DEF logVars
<1>5. InTheLog' /\ InPlace'
  BY <1>1, <1>4, TextsStay
<1>6. \A x \in Texts : EventOf(x)' = EventOf(x) /\ (Authored(x)' <=> Authored(x)) /\ (Gone(x)' <=> Gone(x))
  BY <1>4 DEF EventOf, Authored, Gone
<1>7. NothingErasedComesBack'
  BY <1>1, <1>6 DEF NothingErasedComesBack
<1>8. Reaching'
  <2> SUFFICES ASSUME NEW p \in Operators, NEW x \in erasures'[p].known
               PROVE  /\ Authored(x)' /\ typed'[x].by = erasures'[p].user
                      /\ typed'[x].seq > 0 /\ ~EventOf(x)'.payload.marker =>
                            /\ erasures'[p].at = "rooms"
                            /\ \E w \in erasures'[p].rows :
                                  w.room = typed'[x].room /\ w.seq = typed'[x].seq /\ w.personal
                      /\ \A c \in held' : c[1] = x /\ c[2] \in Silent => ToSweep(erasures'[p], c)
    BY DEF Reaching
  <2>1. x \in Texts
    BY <1>3 DEF RecTypeOK
  <2>2. CASE p = o
    BY <1>2, <1>6, <2>1, <2>2
  <2>3. CASE p # o
    <3>1. /\ Authored(x) /\ typed[x].by = erasures[p].user
          /\ typed[x].seq > 0 /\ ~EventOf(x).payload.marker =>
                /\ erasures[p].at = "rooms"
                /\ \E w \in erasures[p].rows : w.room = typed[x].room /\ w.seq = typed[x].seq /\ w.personal
          /\ \A c \in held : c[1] = x /\ c[2] \in Silent => ToSweep(erasures[p], c)
      BY <1>1, <1>2, <2>3 DEF Reaching
    <3> QED
      BY <1>2, <1>6, <2>1, <2>3, <3>1
  <2> QED
    BY <2>2, <2>3
<1> QED
  BY <1>3, <1>5, <1>7, <1>8 DEF RecInv

\* The listing an erasure begins with: rows of the member, none of them an announcement.
LEMMA RowsListed ==
    ASSUME LogTypeOK, Announcing, NEW u \in Users, NEW w \in RowsOf(u)
    PROVE  /\ w.room \in Rooms /\ w.seq \in 1 .. Len(log[w.room]) /\ log[w.room][w.seq].actor = u
           /\ w.personal => log[w.room][w.seq].payload.names = {}
<1>1. PICK r \in Rooms : w \in RowsIn(u, r)
  BY DEF RowsOf
<1>2. PICK n \in DOMAIN log[r] : log[r][n].actor = u /\
                                 w = [room |-> r, seq |-> n, personal |-> CarriesPersonal(log[r][n])]
  BY <1>1 DEF RowsIn
<1>3. w.room = r /\ w.seq = n /\ w.personal = CarriesPersonal(log[r][n])
  BY <1>2
<1>4. n \in 1 .. Len(log[r])
  BY <1>2, LineFacts DEF LogTypeOK
<1>5. CarriesPersonal(log[r][n]) => log[r][n].payload.names = {}
  BY <1>4 DEF CarriesPersonal, Announcing
<1> QED
  BY <1>2, <1>3, <1>4, <1>5

\* It lists what still carries the member's words.
LEMMA WordsListed ==
    ASSUME LogTypeOK, RecTypeOK, InTheLog, NEW u \in Users, NEW x \in Texts, Authored(x), typed[x].by = u,
           typed[x].seq > 0, ~EventOf(x).payload.marker
    PROVE  \E w \in RowsOf(u) : w.room = typed[x].room /\ w.seq = typed[x].seq /\ w.personal
<1>1. PICK r \in Rooms, n \in Nat : r = typed[x].room /\ n = typed[x].seq
  BY DEF RecTypeOK, TypedRows, Authored
<1>2. /\ n \in 1 .. Len(log[r]) /\ log[r][n].actor = u /\ ~log[r][n].payload.marker
      /\ log[r][n].payload.words \/ log[r][n].type = "task.delegated"
  BY <1>1 DEF InTheLog, EventOf
<1>3. u # Agent
  BY RecordsAssumption
<1>4. CarriesPersonal(log[r][n])
  BY <1>2, <1>3 DEF CarriesPersonal
<1>5. n \in DOMAIN log[r]
  BY <1>2, LineFacts DEF LogTypeOK
<1>6. PICK w : w = [room |-> r, seq |-> n, personal |-> CarriesPersonal(log[r][n])]
  OBVIOUS
<1>7. w \in RowsIn(u, r)
  BY <1>2, <1>5, <1>6 DEF RowsIn
<1>8. w \in RowsOf(u)
  BY <1>7 DEF RowsOf
<1> QED
  BY <1>1, <1>4, <1>6, <1>8

\* erase_user begins.
LEMMA BeginKeeps ==
    ASSUME LogTypeOK, Announcing, Listed, RecInv, NEW o \in Operators, NEW u \in Users, BeginErasure(o, u)
    PROVE  RecInv' /\ Listed'
<1>1. RecTypeOK /\ InTheLog /\ InPlace
  BY DEF RecInv
<1>2. PICK row : row = [at |-> "rooms", user |-> u, rows |-> RowsOf(u),
                        known |-> { x \in Texts : Authored(x) /\ typed[x].by = u }, todo |-> {}]
  OBVIOUS
<1>3. UNCHANGED <<typed, held, logVars>> /\ erasures' = [erasures EXCEPT ![o] = row]
  BY <1>2 DEF BeginErasure
<1>4. /\ row.at = "rooms" /\ row.user = u /\ row.rows = RowsOf(u)
      /\ row.known = { x \in Texts : Authored(x) /\ typed[x].by = u }
      /\ row = [at |-> row.at, user |-> row.user, rows |-> row.rows, known |-> row.known, todo |-> row.todo]
  BY <1>2
<1>5. row.known \subseteq Texts
  BY <1>4
<1>6. ASSUME NEW x \in row.known
      PROVE  /\ Authored(x) /\ typed[x].by = row.user
             /\ typed[x].seq > 0 /\ ~EventOf(x).payload.marker =>
                   /\ row.at = "rooms"
                   /\ \E w \in row.rows : w.room = typed[x].room /\ w.seq = typed[x].seq /\ w.personal
             /\ \A c \in held' : c[1] = x /\ c[2] \in Silent => ToSweep(row, c)
  <2>1. x \in Texts /\ Authored(x) /\ typed[x].by = u
    BY <1>4
  <2>2. \A c : c[2] \in Silent => ToSweep(row, c)
    BY <1>4 DEF ToSweep, Unswept, AlsoSwept, Silent
  <2>3. typed[x].seq > 0 /\ ~EventOf(x).payload.marker =>
            \E w \in RowsOf(u) : w.room = typed[x].room /\ w.seq = typed[x].seq /\ w.personal
    BY <1>1, <2>1, WordsListed
  <2> QED
    BY <1>4, <2>1, <2>2, <2>3
<1>7. RecInv'
  BY <1>3, <1>4, <1>5, <1>6, ErasureMoves
<1>8. Listed'
  <2> SUFFICES ASSUME NEW p \in Operators, NEW w \in erasures'[p].rows
               PROVE  /\ w.room \in Rooms /\ w.seq \in 1 .. Len(log[w.room])
                      /\ log[w.room][w.seq].actor = erasures'[p].user
                      /\ w.personal => log[w.room][w.seq].payload.names = {}
    BY <1>3 DEF Listed, logVars
  <2>1. CASE p = o
    <3>1. erasures'[p] = row
      BY <1>1, <1>3, <2>1 DEF RecTypeOK
    <3> QED
      BY <1>4, <3>1, RowsListed
  <2>2. CASE p # o
    <3>1. erasures'[p] = erasures[p]
      BY <1>1, <1>3, <2>2 DEF RecTypeOK
    <3> QED
      BY <3>1 DEF Listed
  <2> QED
    BY <2>1, <2>2
<1> QED
  BY <1>7, <1>8

\* An erasure given up, or whose process died, has nothing left to answer for.
LEMMA GivenUpKeeps ==
    ASSUME LogTypeOK, Listed, RecInv, NEW o \in Operators, erasures' = [erasures EXCEPT ![o] = IdleErasure],
           UNCHANGED <<typed, held, logVars>>
    PROVE  RecInv' /\ Listed'
<1>1. RecTypeOK
  BY DEF RecInv
<1>2. PICK row : row = IdleErasure
  OBVIOUS
<1>3. /\ row = [at |-> row.at, user |-> row.user, rows |-> row.rows, known |-> row.known, todo |-> row.todo]
      /\ row.rows = {} /\ row.known = {}
  BY <1>2 DEF IdleErasure
<1>4. erasures' = [erasures EXCEPT ![o] = row]
  BY <1>2
<1>5. held' \subseteq held /\ row.known \subseteq Texts /\ (\A x \in row.known : FALSE) /\ UNCHANGED <<typed, logVars>>
  BY <1>3
<1>6. RecInv'
  BY <1>3, <1>4, <1>5, ErasureMoves
<1>7. RowsStay
  BY NothingStays DEF logVars
<1>8. \A p \in Operators : \A w \in erasures'[p].rows : w \in erasures[p].rows /\ erasures'[p].user = erasures[p].user
  BY <1>1, <1>3, <1>4 DEF RecTypeOK
<1>9. Listed'
  BY <1>7, <1>8, ListedStays
<1> QED
  BY <1>6, <1>9

\* The order of the sweep.
LEMMA Stages ==
    /\ AfterStage("rooms") = "attachments" /\ AfterStage("attachments") = "branch_syntheses"
    /\ AfterStage("branch_syntheses") = "branches" /\ AfterStage("branches") = "memories"
    /\ AfterStage("memories") = "approvals" /\ AfterStage("approvals") = "user"
<1> DEFINE Stage(at) == CHOOSE n \in 1 .. 6 : SweepOrder[n] = at
<1>1. /\ SweepOrder[1] = "rooms" /\ SweepOrder[2] = "attachments" /\ SweepOrder[3] = "branch_syntheses"
      /\ SweepOrder[4] = "branches" /\ SweepOrder[5] = "memories" /\ SweepOrder[6] = "approvals"
      /\ SweepOrder[7] = "user"
  BY DEF SweepOrder
<1>2. \A n \in 1 .. 6 : n \in {1, 2, 3, 4, 5, 6}
  OBVIOUS
<1>3. /\ Stage("rooms") = 1 /\ Stage("attachments") = 2 /\ Stage("branch_syntheses") = 3
      /\ Stage("branches") = 4 /\ Stage("memories") = 5 /\ Stage("approvals") = 6
  <2>1. Stage("rooms") = 1
    BY <1>1, <1>2
  <2>2. Stage("attachments") = 2
    BY <1>1, <1>2
  <2>3. Stage("branch_syntheses") = 3
    BY <1>1, <1>2
  <2>4. Stage("branches") = 4
    BY <1>1, <1>2
  <2>5. Stage("memories") = 5
    BY <1>1, <1>2
  <2>6. Stage("approvals") = 6
    BY <1>1, <1>2
  <2> QED
    BY <2>1, <2>2, <2>3, <2>4, <2>5, <2>6
<1>4. \A at : AfterStage(at) = SweepOrder[1 + Stage(at)]
  BY DEF AfterStage
<1> HIDE DEF Stage
<1> QED
  BY <1>1, <1>3, <1>4

\* A stage clears its own tables, and nothing comes back to be cleared.
LEMMA SweepsOn ==
    ASSUME NEW at
    PROVE  at # "rooms" => Unswept(at) \ AlsoSwept(at) \subseteq Unswept(AfterStage(at))
<1> SUFFICES ASSUME at # "rooms" PROVE Unswept(at) \ AlsoSwept(at) \subseteq Unswept(AfterStage(at))
  OBVIOUS
<1>1. CASE at = "attachments"
  BY <1>1, Stages DEF Unswept, AlsoSwept
<1>2. CASE at = "branch_syntheses"
  BY <1>2, Stages DEF Unswept, AlsoSwept
<1>3. CASE at = "branches"
  BY <1>3, Stages DEF Unswept, AlsoSwept, Silent
<1>4. CASE at = "memories"
  BY <1>4, Stages DEF Unswept, AlsoSwept
<1>5. CASE at = "approvals"
  BY <1>5, Stages DEF Unswept, AlsoSwept
<1>6. CASE at \notin {"attachments", "branch_syntheses", "branches", "memories", "approvals"}
  <2>1. Unswept(at) = {}
    BY <1>6 DEF Unswept
  <2> QED
    BY <2>1
<1> QED
  BY <1>1, <1>2, <1>3, <1>4, <1>5, <1>6

\* Between the rooms and the tombstone an erasure moves on, row by row and table by table.
LEMMA StageKeeps ==
    ASSUME LogTypeOK, Listed, RecInv, NEW o \in Operators, NEW to, NEW rest,
           erasures' = [erasures EXCEPT ![o] = [[erasures[o] EXCEPT !.at = to] EXCEPT !.todo = rest]],
           UNCHANGED <<typed, logVars>>, held' \subseteq held,
           erasures[o].at = "rooms" => erasures[o].rows = {} \/ to = "rooms",
           \A c \in held' :
               c[1] \in Texts /\ Authored(c[1]) /\ typed[c[1]].by = erasures[o].user /\ c[2] \in Silent
                     /\ ToSweep(erasures[o], c) =>
                   c[2] \in Unswept(to) /\ (c[2] \in AlsoSwept(to) => c[1] \in rest)
    PROVE  RecInv' /\ Listed'
<1>1. RecTypeOK /\ Reaching
  BY DEF RecInv
<1>2. PICK at, user, rows, known, todo :
          erasures[o] = [at |-> at, user |-> user, rows |-> rows, known |-> known, todo |-> todo]
  BY <1>1 DEF RecTypeOK
<1>3. PICK row : row = [[erasures[o] EXCEPT !.at = to] EXCEPT !.todo = rest]
  OBVIOUS
<1>4. row = [at |-> to, user |-> user, rows |-> rows, known |-> known, todo |-> rest]
  <2>1. PICK moved : moved = [erasures[o] EXCEPT !.at = to]
    OBVIOUS
  <2>2. moved = [at |-> to, user |-> user, rows |-> rows, known |-> known, todo |-> todo]
    BY <1>2, <2>1
  <2>3. row = [moved EXCEPT !.todo = rest]
    BY <1>3, <2>1
  <2> QED
    BY <2>2, <2>3
<1>5. /\ row = [at |-> row.at, user |-> row.user, rows |-> row.rows, known |-> row.known, todo |-> row.todo]
      /\ row.at = to /\ row.user = user /\ row.rows = rows /\ row.known = known /\ row.todo = rest
      /\ erasures[o].at = at /\ erasures[o].user = user /\ erasures[o].rows = rows /\ erasures[o].known = known
  BY <1>2, <1>4
<1>6. erasures' = [erasures EXCEPT ![o] = row] /\ row.known \subseteq Texts
  BY <1>1, <1>3, <1>5 DEF RecTypeOK
<1>7. ASSUME NEW x \in row.known
      PROVE  /\ Authored(x) /\ typed[x].by = row.user
             /\ typed[x].seq > 0 /\ ~EventOf(x).payload.marker =>
                   /\ row.at = "rooms"
                   /\ \E w \in row.rows : w.room = typed[x].room /\ w.seq = typed[x].seq /\ w.personal
             /\ \A c \in held' : c[1] = x /\ c[2] \in Silent => ToSweep(row, c)
  <2>1. /\ Authored(x) /\ typed[x].by = erasures[o].user
        /\ typed[x].seq > 0 /\ ~EventOf(x).payload.marker =>
              /\ erasures[o].at = "rooms"
              /\ \E w \in erasures[o].rows : w.room = typed[x].room /\ w.seq = typed[x].seq /\ w.personal
        /\ \A c \in held : c[1] = x /\ c[2] \in Silent => ToSweep(erasures[o], c)
    BY <1>1, <1>5 DEF Reaching
  <2>2. typed[x].seq > 0 /\ ~EventOf(x).payload.marker =>
            to = "rooms" /\ \E w \in rows : w.room = typed[x].room /\ w.seq = typed[x].seq /\ w.personal
    BY <1>5, <2>1
  <2>3. ASSUME NEW c \in held', c[1] = x, c[2] \in Silent PROVE ToSweep(row, c)
    <3>1. x \in Texts /\ ToSweep(erasures[o], c)
      BY <1>6, <2>1, <2>3
    <3>2. c[2] \in Unswept(to) /\ (c[2] \in AlsoSwept(to) => c[1] \in rest)
      BY <2>1, <2>3, <3>1
    <3> QED
      BY <1>5, <3>2 DEF ToSweep
  <2> QED
    BY <1>5, <2>1, <2>2, <2>3
<1>8. RecInv'
  BY <1>5, <1>6, <1>7, ErasureMoves
<1>9. RowsStay
  BY NothingStays DEF logVars
<1>10. \A p \in Operators : \A w \in erasures'[p].rows : w \in erasures[p].rows /\ erasures'[p].user = erasures[p].user
  BY <1>1, <1>5, <1>6 DEF RecTypeOK
<1>11. Listed'
  BY <1>9, <1>10, ListedStays
<1> QED
  BY <1>8, <1>11

\* Taking a row off what is left of a stage, or moving the stage, leaves the rest of the record.
LEMMA ErasureRow ==
    ASSUME RecTypeOK, NEW o \in Operators, NEW to, NEW rest
    PROVE  /\ [[erasures[o] EXCEPT !.at = erasures[o].at] EXCEPT !.todo = rest] =
                  [erasures[o] EXCEPT !.todo = rest]
           /\ [[erasures[o] EXCEPT !.at = to] EXCEPT !.todo = erasures[o].todo] = [erasures[o] EXCEPT !.at = to]
<1>1. PICK old, at, user, rows, known, todo :
          old = erasures[o] /\ old = [at |-> at, user |-> user, rows |-> rows, known |-> known, todo |-> todo]
  BY DEF RecTypeOK
<1>2. old.at = at /\ old.todo = todo
  BY <1>1
<1>3. [old EXCEPT !.at = at] = old
  BY <1>1
<1>4. PICK moved : moved = [old EXCEPT !.at = to]
  OBVIOUS
<1>5. moved = [at |-> to, user |-> user, rows |-> rows, known |-> known, todo |-> todo]
  BY <1>1, <1>4
<1>6. [moved EXCEPT !.todo = todo] = moved
  BY <1>5
<1> QED
  BY <1>1, <1>2, <1>3, <1>4, <1>6

\* An erasure that goes on to the next table, sweeps a row or comes to its end
\* keeps the invariant.
LEMMA StagesKeep ==
    ASSUME LogTypeOK, Listed, RecInv, NEW o \in Operators,
           (\E x \in Texts : SweepRow(o, x)) \/ NextTable(o) \/ Tombstone(o)
    PROVE  RecInv' /\ Listed'
<1>1. CASE NextTable(o)
  <2>1. PICK at, to, rest : at = erasures[o].at /\ to = AfterStage(at) /\ rest = TextsIn(erasures[o].user, to)
    OBVIOUS
  <2>2. /\ erasures[o].rows = {} /\ erasures[o].todo = {} /\ UNCHANGED <<typed, held, logVars>>
        /\ erasures' = [erasures EXCEPT ![o] = [[erasures[o] EXCEPT !.at = to] EXCEPT !.todo = rest]]
    BY <1>1, <2>1 DEF NextTable
  <2>3. ASSUME NEW c \in held', c[1] \in Texts, Authored(c[1]), typed[c[1]].by = erasures[o].user,
               c[2] \in Silent, ToSweep(erasures[o], c)
        PROVE  c[2] \in Unswept(to) /\ (c[2] \in AlsoSwept(to) => c[1] \in rest)
    <3>1. c[2] \in Unswept(at) /\ c[2] \notin AlsoSwept(at)
      BY <2>1, <2>2, <2>3 DEF ToSweep
    <3>2. c[2] \in Unswept(to)
      <4>1. CASE at = "rooms"
        BY <2>1, <3>1, <4>1, Stages DEF Unswept
      <4>2. CASE at # "rooms"
        BY <2>1, <3>1, <4>2, SweepsOn
      <4> QED
        BY <4>1, <4>2
    <3>3. c \in held
      BY <2>2, <2>3
    <3>4. ASSUME c[2] \in AlsoSwept(to) PROVE c[1] \in TextsIn(erasures[o].user, to)
      BY <2>3, <3>3, <3>4 DEF TextsIn
    <3> QED
      BY <2>1, <3>2, <3>4
  <2>4. held' \subseteq held
    BY <2>2
  <2> QED
    BY <2>2, <2>3, <2>4, StageKeeps
<1>2. ASSUME NEW x \in Texts, SweepRow(o, x) PROVE RecInv' /\ Listed'
  <2>1. PICK at, rest : at = erasures[o].at /\ rest = erasures[o].todo \ {x}
    OBVIOUS
  <2>2. /\ x \in erasures[o].todo /\ UNCHANGED <<typed, logVars>>
        /\ held' = held \ ({x} \X AlsoSwept(at))
    BY <1>2, <2>1 DEF SweepRow
  <2>3. erasures' = [erasures EXCEPT ![o] = [[erasures[o] EXCEPT !.at = at] EXCEPT !.todo = rest]]
    <3>1. erasures' = [erasures EXCEPT ![o] = [erasures[o] EXCEPT !.todo = rest]]
      BY <1>2, <2>1 DEF SweepRow, RecInv, RecTypeOK
    <3> QED
      BY <2>1, <3>1, ErasureRow DEF RecInv
  <2>4. erasures[o].at = "rooms" => erasures[o].rows = {} \/ at = "rooms"
    BY <2>1
  <2>5. ASSUME NEW c \in held', c[1] \in Texts, Authored(c[1]), typed[c[1]].by = erasures[o].user,
               c[2] \in Silent, ToSweep(erasures[o], c)
        PROVE  c[2] \in Unswept(at) /\ (c[2] \in AlsoSwept(at) => c[1] \in rest)
    <3>1. c[2] \in Unswept(at) /\ (c[2] \in AlsoSwept(at) => c[1] \in erasures[o].todo)
      BY <2>1, <2>5 DEF ToSweep
    <3>2. c = <<c[1], c[2]>>
      BY <2>2 DEF RecInv, RecTypeOK
    <3>3. c[2] \in AlsoSwept(at) => c[1] # x
      BY <2>2, <3>2
    <3> QED
      BY <2>1, <3>1, <3>3
  <2>6. held' \subseteq held
    BY <2>2
  <2>7. UNCHANGED <<typed, logVars>>
    BY <2>2
  <2> QED
    BY <2>3, <2>4, <2>5, <2>6, <2>7, StageKeeps
<1>3. CASE Tombstone(o)
  <2>1. PICK rest : rest = erasures[o].todo
    OBVIOUS
  <2>2. /\ erasures[o].at = "user" /\ UNCHANGED <<typed, held, logVars>>
        /\ erasures' = [erasures EXCEPT ![o] = [[erasures[o] EXCEPT !.at = "done"] EXCEPT !.todo = rest]]
    BY <1>3, <2>1, ErasureRow DEF Tombstone, RecInv, RecTypeOK
  <2>3. Unswept(erasures[o].at) = {}
    BY <2>2 DEF Unswept
  <2>4. held' \subseteq held /\ erasures[o].at # "rooms"
    BY <2>2
  <2> QED
    BY <2>2, <2>3, <2>4, StageKeeps DEF ToSweep
<1> QED
  BY <1>1, <1>2, <1>3

\* Every copy of a text whose event is blanked is one the erasure takes with it, but for a
\* delegated child.
LEMMA CopiesTaken ==
    ASSUME RecTypeOK, InTheLog, InPlace, NEW r, NEW hit, NEW u, NEW x \in Texts,
           Authored(x), typed[x].room = r, typed[x].by = u, typed[x].seq > 0, typed[x].seq \in hit,
           ~EventOf(x).payload.marker, NEW c \in held, c[1] = x, c[2] \notin Unreached
    PROVE  c \in Taken(u, r, hit)
<1>1. PICK n \in hit : n = typed[x].seq
  OBVIOUS
<1>2. EventOf(x) = log[r][n] /\ log[r][n].payload.about = {x}
  BY <1>1 DEF EventOf, InTheLog
<1>3. c = <<x, c[2]>>
  BY DEF RecTypeOK
<1>4. c[2] = "snapshots" \/ <<log[r][n].type, c[2]>> \in Shown
  BY <1>1, <1>2 DEF InPlace
<1>5. ASSUME NEW S, n \in S PROVE x \in Abouts(r, S)
  BY <1>2, <1>5 DEF Abouts
<1>6. ASSUME NEW type, type = log[r][n].type PROVE x \in Created(r, hit, type)
  <2>1. n \in { m \in hit : log[r][m].type = type }
    BY <1>6
  <2> QED
    BY <1>5, <2>1 DEF Created
<1>7. ASSUME NEW table, c[2] = table PROVE c = <<x, table>>
  BY <1>3, <1>7
<1>8. \/ c \in InMessages(r, hit) \/ c \in InTasks(r, hit) \/ c \in InDecisions(r, hit)
      \/ c \in InAgentTasks(r, hit) \/ c \in InRoom(r, hit) \/ c \in InArtifacts(r, hit)
      \/ c \in InSnapshots(r, hit) \/ c \in InNotifications(r) \/ c \in InSteers(u, r)
  <2>1. CASE c[2] = "snapshots"
    BY <1>5, <1>7, <2>1 DEF InSnapshots
  <2>2. CASE log[r][n].type = "message.created" /\ c[2] \in {"messages", "search_documents"}
    <3>1. x \in Created(r, hit, "message.created")
      BY <1>6, <2>2
    <3> QED
      BY <1>7, <2>2, <3>1 DEF InMessages
  <2>3. CASE c[2] = "notifications"
    BY <2>3 DEF InNotifications
  <2>4. CASE log[r][n].type = "task.created" /\ c[2] \in {"tasks", "search_documents"}
    <3>1. x \in Created(r, hit, "task.created")
      BY <1>6, <2>4
    <3> QED
      BY <1>7, <2>4, <3>1 DEF InTasks
  <2>5. CASE log[r][n].type = "decision.created" /\ c[2] \in {"decisions", "search_documents"}
    <3>1. x \in Created(r, hit, "decision.created")
      BY <1>6, <2>5
    <3> QED
      BY <1>7, <2>5, <3>1 DEF InDecisions
  <2>6. CASE log[r][n].type = "artifact.created" /\ c[2] = "artifacts"
    <3>1. x \in Created(r, hit, "artifact.created")
      BY <1>6, <2>6
    <3> QED
      BY <1>7, <2>6, <3>1 DEF InArtifacts
  <2>7. CASE log[r][n].type = "room.created" /\ c[2] = "rooms"
    <3>1. x \in Created(r, hit, "room.created")
      BY <1>6, <2>7
    <3> QED
      BY <1>7, <2>7, <3>1 DEF InRoom
  <2>8. CASE c[2] = "interventions"
    BY <2>8 DEF InSteers
  <2>9. CASE log[r][n].type = "task.delegated" /\ c[2] = "agent_task_messages"
    <3>1. x \in Created(r, hit, "task.delegated")
      BY <1>6, <2>9
    <3> QED
      BY <1>7, <2>9, <3>1 DEF InAgentTasks
  <2>10. <<log[r][n].type, c[2]>> \in Shown =>
            \/ log[r][n].type = "message.created" /\ c[2] \in {"messages", "search_documents"}
            \/ c[2] = "notifications"
            \/ log[r][n].type = "task.created" /\ c[2] \in {"tasks", "search_documents"}
            \/ log[r][n].type = "decision.created" /\ c[2] \in {"decisions", "search_documents"}
            \/ log[r][n].type = "artifact.created" /\ c[2] = "artifacts"
            \/ log[r][n].type = "room.created" /\ c[2] = "rooms"
            \/ c[2] = "interventions"
            \/ log[r][n].type = "task.delegated" /\ c[2] = "agent_task_messages"
    BY DEF Shown
  <2> QED
    BY <1>4, <2>1, <2>2, <2>3, <2>4, <2>5, <2>6, <2>7, <2>8, <2>9, <2>10
<1> QED
  BY <1>8 DEF Taken

\* An erasure's transaction over a room blanks the events it listed there, and takes every
\* copy of their words.
LEMMA RoomKeeps ==
    ASSUME LogTypeOK, Listed, RecInv, NEW o \in Operators, NEW r \in Rooms, UNCHANGED typed,
           erasures[o].at = "rooms",
           erasures' = [erasures EXCEPT ![o] =
               [erasures[o] EXCEPT !.rows = erasures[o].rows \ { w \in erasures[o].rows : w.room = r }]],
           held' = held \ Taken(erasures[o].user, r, Hit(o, r)),
           (Hit(o, r) = {} /\ UNCHANGED logVars) \/ Blanks(r, Hit(o, r))
    PROVE  RecInv' /\ Listed'
<1>1. RecTypeOK /\ InTheLog /\ InPlace /\ Reaching /\ NothingErasedComesBack
  BY DEF RecInv
<1>2. RowsStay
  BY BlanksStay, NothingStays DEF logVars
<1>3. held' \subseteq held
  OBVIOUS
<1>4. /\ InTheLog' /\ InPlace'
      /\ \A x \in Texts : Authored(x) /\ typed[x].seq > 0 /\ ~EventOf(x)'.payload.marker =>
             ~EventOf(x).payload.marker
  BY <1>1, <1>2, <1>3, TextsStay
<1>5. PICK hit \in SUBSET (1 .. Len(log[r])) : hit = Hit(o, r)
  BY HitListed
<1>6. \A n \in hit : log[r][n].actor = erasures[o].user
  BY <1>5, HitListed
<1>7. PICK at, user, rows, known, todo :
          erasures[o] = [at |-> at, user |-> user, rows |-> rows, known |-> known, todo |-> todo]
  BY <1>1 DEF RecTypeOK
<1>8. PICK rest : rest = rows \ { w \in rows : w.room = r }
  OBVIOUS
<1>9. /\ erasures[o].at = at /\ erasures[o].user = user /\ erasures[o].rows = rows /\ erasures[o].known = known
      /\ erasures[o].todo = todo
      /\ [erasures[o] EXCEPT !.rows = erasures[o].rows \ { w \in erasures[o].rows : w.room = r }] =
             [at |-> at, user |-> user, rows |-> rest, known |-> known, todo |-> todo]
  <2>1. /\ erasures[o].at = at /\ erasures[o].user = user /\ erasures[o].rows = rows /\ erasures[o].known = known
        /\ erasures[o].todo = todo
    BY <1>7
  <2>2. erasures[o].rows \ { w \in erasures[o].rows : w.room = r } = rest
    BY <1>8, <2>1
  <2>3. [erasures[o] EXCEPT !.rows = rest] = [at |-> at, user |-> user, rows |-> rest, known |-> known, todo |-> todo]
    BY <1>7
  <2> QED
    BY <2>1, <2>2, <2>3
<1>10. PICK row : row = [at |-> at, user |-> user, rows |-> rest, known |-> known, todo |-> todo]
  OBVIOUS
<1>11. /\ row = [at |-> row.at, user |-> row.user, rows |-> row.rows, known |-> row.known, todo |-> row.todo]
       /\ row.at = at /\ row.user = user /\ row.rows = rest /\ row.known = known /\ row.todo = todo
  BY <1>10
<1>12. erasures' = [erasures EXCEPT ![o] = row]
  BY <1>9, <1>10
<1>13. DOMAIN erasures' = Operators /\ erasures'[o] = row /\ \A p \in Operators \ {o} : erasures'[p] = erasures[p]
  BY <1>1, <1>12 DEF RecTypeOK
<1>14. RecTypeOK'
  <2>1. \A p \in Operators :
          /\ erasures'[p].known \subseteq Texts
          /\ erasures'[p] = [at |-> erasures'[p].at, user |-> erasures'[p].user, rows |-> erasures'[p].rows,
                             known |-> erasures'[p].known, todo |-> erasures'[p].todo]
    BY <1>1, <1>9, <1>11, <1>13 DEF RecTypeOK
  <2> QED
    BY <1>1, <1>3, <1>13, <2>1 DEF RecTypeOK
\* What becomes of a text's event.
<1>15. ASSUME NEW x \in Texts, Authored(x), typed[x].seq > 0
       PROVE  /\ typed[x].room = r /\ typed[x].seq \in hit => EventOf(x)'.payload.marker
              /\ ~(typed[x].room = r /\ typed[x].seq \in hit) => EventOf(x)' = EventOf(x)
  <2>1. PICK s \in Rooms, n \in Nat : s = typed[x].room /\ n = typed[x].seq
    BY <1>1, <1>15 DEF RecTypeOK, TypedRows, Authored
  <2>2. n \in 1 .. Len(log[s])
    BY <1>1, <1>15, <2>1 DEF InTheLog
  <2>3. CASE Blanks(r, hit)
    <3>1. CASE s # r
      <4>1. log'[s] = log[s]
        BY <2>3, <3>1 DEF Blanks, SameElsewhere
      <4> QED
        BY <2>1, <3>1, <4>1 DEF EventOf
    <3>2. CASE s = r /\ n \notin hit
      <4>1. log'[r][n] = log[r][n]
        BY <2>2, <2>3, <3>2 DEF Blanks
      <4> QED
        BY <2>1, <3>2, <4>1 DEF EventOf
    <3>3. CASE s = r /\ n \in hit
      <4>1. PICK old : old = log[r][n] /\ IsRow(old)
        BY <2>2, <3>3 DEF LogTypeOK
      <4>2. PICK new : new = [old EXCEPT !.payload = Marker]
        OBVIOUS
      <4>3. new.payload = Marker
        BY <4>1, <4>2, BlankedRow
      <4>4. log'[r][n] = new
        BY <2>2, <2>3, <3>3, <4>1, <4>2 DEF Blanks
      <4> QED
        BY <2>1, <3>3, <4>3, <4>4 DEF EventOf, Marker
    <3> QED
      BY <3>1, <3>2, <3>3
  <2>4. CASE hit = {} /\ UNCHANGED logVars
    BY <2>4 DEF EventOf, logVars
  <2> QED
    BY <1>5, <2>3, <2>4
<1>16. NothingErasedComesBack'
  <2> SUFFICES ASSUME NEW x \in Texts, Gone(x)', NEW c \in held', c[1] = x, c[2] \notin Unreached PROVE FALSE
    BY DEF NothingErasedComesBack
  <2>1. Authored(x) /\ typed[x].seq > 0 /\ EventOf(x)'.payload.marker
    BY DEF Gone, Authored
  <2>2. c \in held /\ c \notin Taken(user, r, hit)
    BY <1>5, <1>9
  <2>3. ~EventOf(x).payload.marker
    BY <1>1, <2>1, <2>2 DEF NothingErasedComesBack, Gone
  <2>4. typed[x].room = r /\ typed[x].seq \in hit
    BY <1>15, <2>1, <2>3
  <2>5. typed[x].by = user
    BY <1>1, <1>6, <1>9, <2>1, <2>4 DEF InTheLog, EventOf
  <2> QED
    BY <1>1, <2>1, <2>2, <2>3, <2>4, <2>5, CopiesTaken
<1>17. Reaching'
  <2> SUFFICES ASSUME NEW p \in Operators, NEW x \in erasures'[p].known
               PROVE  /\ Authored(x) /\ typed[x].by = erasures'[p].user
                      /\ typed[x].seq > 0 /\ ~EventOf(x)'.payload.marker =>
                            /\ erasures'[p].at = "rooms"
                            /\ \E w \in erasures'[p].rows :
                                  w.room = typed[x].room /\ w.seq = typed[x].seq /\ w.personal
                      /\ \A c \in held' : c[1] = x /\ c[2] \in Silent => ToSweep(erasures'[p], c)
    BY DEF Reaching, Authored
  <2>1. /\ x \in Texts /\ erasures'[p].at = erasures[p].at /\ erasures'[p].user = erasures[p].user
        /\ x \in erasures[p].known /\ erasures'[p].todo = erasures[p].todo
    BY <1>9, <1>11, <1>13, <1>14 DEF RecTypeOK
  <2>2. /\ Authored(x) /\ typed[x].by = erasures[p].user
        /\ typed[x].seq > 0 /\ ~EventOf(x).payload.marker =>
              /\ erasures[p].at = "rooms"
              /\ \E w \in erasures[p].rows : w.room = typed[x].room /\ w.seq = typed[x].seq /\ w.personal
        /\ \A c \in held : c[1] = x /\ c[2] \in Silent => ToSweep(erasures[p], c)
    BY <1>1, <2>1 DEF Reaching
  <2>3. ASSUME typed[x].seq > 0, ~EventOf(x)'.payload.marker
        PROVE  /\ erasures'[p].at = "rooms"
               /\ \E w \in erasures'[p].rows : w.room = typed[x].room /\ w.seq = typed[x].seq /\ w.personal
    <3>1. ~EventOf(x).payload.marker
      BY <1>4, <2>1, <2>2, <2>3
    <3>2. PICK w \in erasures[p].rows : w.room = typed[x].room /\ w.seq = typed[x].seq /\ w.personal
      BY <2>2, <2>3, <3>1
    <3>3. CASE p # o
      BY <1>13, <2>1, <2>2, <2>3, <3>1, <3>2, <3>3
    <3>4. CASE p = o
      <4>1. w.room # r
        <5> SUFFICES ASSUME w.room = r PROVE FALSE
          OBVIOUS
        <5>1. w.seq \in hit
          BY <1>5, <3>2, <3>4 DEF Hit
        <5> QED
          BY <1>15, <2>1, <2>2, <2>3, <3>2, <5>1
      <4>2. w \in row.rows
        BY <1>8, <1>9, <1>11, <3>2, <3>4, <4>1
      <4> QED
        BY <1>13, <2>1, <2>2, <2>3, <3>1, <3>2, <3>4, <4>2
    <3> QED
      BY <3>3, <3>4
  <2>4. \A c \in held' : c[1] = x /\ c[2] \in Silent => ToSweep(erasures'[p], c)
    BY <1>3, <2>1, <2>2 DEF ToSweep
  <2> QED
    BY <2>1, <2>2, <2>3, <2>4
<1>18. \A p \in Operators : \A w \in erasures'[p].rows : w \in erasures[p].rows /\ erasures'[p].user = erasures[p].user
  BY <1>8, <1>9, <1>11, <1>13
<1>19. Listed'
  BY <1>2, <1>18, ListedStays
<1> QED
  BY <1>4, <1>14, <1>16, <1>17, <1>19 DEF RecInv

-----------------------------------------------------------------------------
(* The invariant.                                                              *)

\* All that a step may do to the logs.
LogMoves ==
    \/ UNCHANGED logVars
    \/ \E r \in Rooms : Grows(r)
    \/ \E o \in Operators, r \in Rooms : Blanks(r, Hit(o, r))

\* Whatever it does, the rows stay chained, recorded and announced.
LEMMA LogKeeps ==
    ASSUME LogInv, LogMoves
    PROVE  LogTypeOK' /\ RowsKept' /\ Announcing' /\ RowsStay
<1>1. LogTypeOK /\ RowsKept /\ Announcing /\ Listed
  BY DEF LogInv
<1>2. CASE UNCHANGED logVars
  <2>1. LogTypeOK' /\ RowsKept'
    BY <1>1, <1>2 DEF logVars, LogTypeOK, RowsKept, RowKept, Payloads, Recorded
  <2> QED
    BY <1>1, <1>2, <2>1, AnnouncingStays, NothingStays DEF logVars
<1>3. ASSUME NEW r \in Rooms, Grows(r) PROVE LogTypeOK' /\ RowsKept' /\ Announcing' /\ RowsStay
  BY <1>1, <1>3, GrowsTyped, GrowsKept, AnnouncingStays, GrowsStay
<1>4. ASSUME NEW o \in Operators, NEW r \in Rooms, Blanks(r, Hit(o, r))
      PROVE  LogTypeOK' /\ RowsKept' /\ Announcing' /\ RowsStay
  <2>1. PICK hit \in SUBSET (1 .. Len(log[r])) : hit = Hit(o, r)
    BY <1>1, HitListed
  <2>2. Blanks(r, hit) /\ \A n \in hit : log[r][n].payload.names = {}
    BY <1>1, <1>4, <2>1, HitListed
  <2> QED
    BY <1>1, <2>2, BlanksTyped, BlanksKept, AnnouncingStays, BlanksStay
<1> QED
  BY <1>2, <1>3, <1>4 DEF LogMoves

\* Every step of the service.
LEMMA StepKeeps ==
    ASSUME LogInv, RecInv, [Next]_vars
    PROVE  LogMoves /\ LogInv' /\ RecInv'
<1>1. LogTypeOK /\ RowsKept /\ Announcing /\ Listed
  BY DEF LogInv
<1>2. ASSUME Writes PROVE LogMoves /\ Listed' /\ RecInv'
  <2>1. LogMoves /\ RecInv'
    BY <1>1, <1>2, WritesKeep DEF Writes, LogMoves
  <2>2. RowsStay
    BY <2>1, LogKeeps
  <2>3. Listed'
    BY <1>1, <1>2, <2>2, ListedStays DEF Writes
  <2> QED
    BY <2>1, <2>3
<1>3. ASSUME UNCHANGED <<typed, held, erasures, logVars>> PROVE LogMoves /\ Listed' /\ RecInv'
  <2>1. Writes
    <3>1. \A c \in held' : c \in held \/ NewPlace(c)
      BY <1>3
    <3> QED
      BY <1>1, <1>3, <3>1, MovesWrite
  <2> QED
    BY <1>2, <2>1
<1>4. ASSUME NEW u \in Users, Request(u) PROVE LogMoves /\ Listed' /\ RecInv'
  BY <1>3, <1>4 DEF Request, logVars
<1>5. ASSUME NEW u \in Users, NEW r \in Rooms, NEW x \in Texts, Author(u, r, x)
      PROVE  LogMoves /\ Listed' /\ RecInv'
  BY <1>1, <1>2, <1>5, AuthorWrites
<1>6. ASSUME NEW u \in Users, NEW x \in Texts, Move(u, x) PROVE LogMoves /\ Listed' /\ RecInv'
  BY <1>1, <1>2, <1>6, MoveWrites
<1>7. ASSUME NEW o \in Operators, EraseNext(o) PROVE LogMoves /\ Listed' /\ RecInv'
  <2>1. ASSUME NEW u \in Users, BeginErasure(o, u) PROVE LogMoves /\ Listed' /\ RecInv'
    BY <1>1, <2>1, BeginKeeps DEF BeginErasure, LogMoves
  <2>2. ASSUME NEW r \in Rooms, EraseRoom(o, r) PROVE LogMoves /\ Listed' /\ RecInv'
    <3>1. RecTypeOK
      BY DEF RecInv
    <3>2. /\ UNCHANGED <<typed, status, child, signedIn, pending, begun>>
          /\ \/ erasures' = [erasures EXCEPT ![o] = IdleErasure] /\ UNCHANGED <<held, logVars>>
             \/ /\ erasures[o].at = "rooms"
                /\ \A n \in Hit(o, r) : RecordOf(r, n) = {}
                /\ erasures' = [erasures EXCEPT ![o] =
                       [erasures[o] EXCEPT !.rows = erasures[o].rows \ { w \in erasures[o].rows : w.room = r }]]
                /\ held' = held \ Taken(erasures[o].user, r, Hit(o, r))
                /\ (Hit(o, r) = {} /\ UNCHANGED logVars) \/ Blanks(r, Hit(o, r))
      BY <1>1, <2>2, <3>1, RoomErased
    <3>3. CASE erasures' = [erasures EXCEPT ![o] = IdleErasure] /\ UNCHANGED <<held, logVars>>
      BY <1>1, <3>2, <3>3, GivenUpKeeps DEF LogMoves
    <3>4. CASE /\ erasures[o].at = "rooms"
               /\ erasures' = [erasures EXCEPT ![o] =
                      [erasures[o] EXCEPT !.rows = erasures[o].rows \ { w \in erasures[o].rows : w.room = r }]]
               /\ held' = held \ Taken(erasures[o].user, r, Hit(o, r))
               /\ (Hit(o, r) = {} /\ UNCHANGED logVars) \/ Blanks(r, Hit(o, r))
      <4>1. LogMoves
        BY <3>4 DEF LogMoves
      <4>2. RecInv' /\ Listed'
        BY <1>1, <3>2, <3>4, RoomKeeps
      <4> QED
        BY <4>1, <4>2
    <3> QED
      BY <3>2, <3>3, <3>4
  <2>3. ASSUME (\E x \in Texts : SweepRow(o, x)) \/ NextTable(o) \/ Tombstone(o)
        PROVE  LogMoves /\ Listed' /\ RecInv'
    BY <1>1, <2>3, StagesKeep DEF SweepRow, NextTable, Tombstone, LogMoves
  <2>4. ASSUME CrashErasure(o) PROVE LogMoves /\ Listed' /\ RecInv'
    <3>1. erasures' = [erasures EXCEPT ![o] = IdleErasure] /\ UNCHANGED <<typed, held, logVars>>
      BY <2>4 DEF CrashErasure
    <3> QED
      BY <1>1, <3>1, GivenUpKeeps DEF LogMoves
  <2> QED
    BY <1>7, <2>1, <2>2, <2>3, <2>4 DEF EraseNext
<1>8. ASSUME AuditNext, UNCHANGED recVars PROVE LogMoves /\ Listed' /\ RecInv'
  BY <1>3, <1>8 DEF AuditNext, recVars
<1>9. ASSUME UNCHANGED vars PROVE LogMoves /\ Listed' /\ RecInv'
  BY <1>3, <1>9 DEF vars, logVars
<1>10. LogMoves /\ Listed' /\ RecInv'
  BY <1>4, <1>5, <1>6, <1>7, <1>8, <1>9 DEF Next
<1> QED
  BY <1>10, LogKeeps DEF LogInv

\* Nothing is logged, typed or being erased when the service starts.
LEMMA StartKept ==
    ASSUME Init
    PROVE  LogInv /\ RecInv
<1>1. LogInit /\ RecInit
  BY DEF Init
<1>2. PICK none : none = <<>>
  OBVIOUS
<1>3. Len(none) = 0 /\ IsLine(none)
  BY <1>2 DEF IsLine
<1>4. log = [r \in Rooms |-> none] /\ counter = [r \in Rooms |-> 0]
  BY <1>1, <1>2 DEF LogInit
<1>5. \A r \in Rooms : log[r] = none /\ counter[r] = 0
  BY <1>4
<1>6. LogTypeOK /\ RowsKept /\ Announcing
  BY <1>3, <1>4, <1>5 DEF LogTypeOK, RowsKept, Announcing
<1>7. erasures = [o \in Operators |-> IdleErasure] /\ typed = [x \in Texts |-> Nobody] /\ held = {}
  BY <1>1 DEF RecInit
<1>8. IdleErasure.rows = {} /\ IdleErasure.known = {}
  BY DEF IdleErasure
<1>9. IdleErasure = [at |-> IdleErasure.at, user |-> IdleErasure.user, rows |-> IdleErasure.rows,
                     known |-> IdleErasure.known, todo |-> IdleErasure.todo]
  BY DEF IdleErasure
<1>10. Listed /\ Reaching /\ RecTypeOK
  BY <1>7, <1>8, <1>9 DEF Listed, Reaching, RecTypeOK
<1>11. \A x \in Texts : ~Authored(x)
  BY <1>7 DEF Authored
<1>12. InTheLog /\ InPlace /\ NothingErasedComesBack
  BY <1>7, <1>11 DEF InTheLog, InPlace, NothingErasedComesBack, Gone
<1> QED
  BY <1>6, <1>10, <1>12 DEF LogInv, RecInv

\* The state of a room's log and records, always.
THEOREM RecordsSafe == Spec => [](LogInv /\ RecInv)
<1>1. Init => LogInv /\ RecInv
  BY StartKept
<1>2. (LogInv /\ RecInv) /\ [Next]_vars => (LogInv /\ RecInv)'
  BY StepKeeps
<1> QED
  BY <1>1, <1>2, PTL DEF Spec

\* The log of every room verifies at every instant, whoever appends to it and erases from it.
THEOREM LogsVerify == Spec => []LogVerifies
<1>1. LogInv /\ RecInv => LogVerifies
  BY KeptVerifies DEF LogInv
<1> QED
  BY <1>1, RecordsSafe, PTL

\* Once the event that recorded a text is redacted, no table the erasure answers for shows it.
THEOREM ErasedStaysErased == Spec => []NothingErasedComesBack
<1>1. LogInv /\ RecInv => NothingErasedComesBack
  BY DEF RecInv
<1> QED
  BY <1>1, RecordsSafe, PTL

\* What is left to do of an erasure that is done.
LEMMA ReachesAll ==
    ASSUME RecInv
    PROVE  ErasureReachesAll
<1>1. RecTypeOK /\ InPlace /\ Reaching /\ NothingErasedComesBack
  BY DEF RecInv
<1> SUFFICES ASSUME NEW o \in Operators, erasures[o].at = "done", NEW x \in erasures[o].known
             PROVE  ~Said(x) /\ \A c \in held : c[1] = x => c[2] \in Unreached
  BY DEF ErasureReachesAll
<1>2. /\ x \in Texts /\ Authored(x)
      /\ ~(typed[x].seq > 0 /\ ~EventOf(x).payload.marker)
      /\ \A c \in held : c[1] = x /\ c[2] \in Silent => c[2] \in Unswept("done")
  BY <1>1 DEF Reaching, RecTypeOK, ToSweep
<1>3. typed[x].seq \in Nat
  BY <1>1, <1>2 DEF RecTypeOK, TypedRows, Authored
<1>4. ~Said(x)
  BY <1>2 DEF Said
<1>5. CASE typed[x].seq > 0
  <2>1. Gone(x)
    BY <1>2, <1>5 DEF Gone
  <2> QED
    BY <1>1, <1>2, <1>4, <2>1 DEF NothingErasedComesBack
<1>6. CASE typed[x].seq = 0
  <2>1. Unswept("done") = {}
    BY DEF Unswept
  <2>2. \A c \in held : c[1] = x => c[2] \in Silent
    BY <1>1, <1>6 DEF InPlace
  <2> QED
    BY <1>2, <1>4, <2>1, <2>2
<1> QED
  BY <1>3, <1>5, <1>6

\* A finished erasure has reached everything the member had typed when it began.
THEOREM ErasuresReachAll == Spec => []ErasureReachesAll
<1>1. LogInv /\ RecInv => ErasureReachesAll
  BY ReachesAll
<1> QED
  BY <1>1, RecordsSafe, PTL

-----------------------------------------------------------------------------
(* The history the logs tell.                                                  *)
Account(row) ==
    [type |-> row.type, actor |-> row.actor, said |-> IF row.payload.marker THEN Genesis ELSE row.hash]

\* It has an entry for every row.
LEMMA LineTells ==
    ASSUME NEW line, IsLine(line), NEW t, t = [n \in DOMAIN line |-> Account(line[n])]
    PROVE  /\ Len(t) = Len(line) /\ Len(line) \in Nat /\ DOMAIN t = 1 .. Len(line)
           /\ \A n \in 1 .. Len(line) : t[n] = Account(line[n])
<1>1. PICK k \in Nat : k = Len(line) /\ DOMAIN line = 1 .. k
  BY LineFacts
<1>2. t = [n \in 1 .. k |-> t[n]] /\ \A n \in 1 .. k : t[n] = Account(line[n])
  BY <1>1
<1> DEFINE T == { t[n] : n \in DOMAIN t }
<1>3. t \in [1 .. k -> T]
  BY <1>2
<1>4. t \in Seq(T)
  BY <1>1, <1>3, SeqDef
<1>5. IsLine(t)
  BY <1>4 DEF IsLine
<1> HIDE DEF T
<1>6. Len(t) \in Nat /\ DOMAIN t = 1 .. Len(t)
  BY <1>5, LineFacts
<1>7. Len(t) = k
  BY <1>1, <1>2, <1>6
<1> QED
  BY <1>1, <1>2, <1>6, <1>7

\* The history mapped from the logs is as long as they are and accounts for
\* every row.
LEMMA HistoryTells ==
    ASSUME NEW l, DOMAIN l = Rooms, \A r \in Rooms : IsLine(l[r]),
           NEW h, h = [r \in Rooms |-> [n \in DOMAIN l[r] |-> Account(l[r][n])]]
    PROVE  \A r \in Rooms :
               /\ Len(h[r]) = Len(l[r]) /\ Len(l[r]) \in Nat /\ DOMAIN h[r] = 1 .. Len(l[r])
               /\ \A n \in 1 .. Len(l[r]) : h[r][n] = Account(l[r][n])
<1> SUFFICES ASSUME NEW r \in Rooms
             PROVE  /\ Len(h[r]) = Len(l[r]) /\ Len(l[r]) \in Nat /\ DOMAIN h[r] = 1 .. Len(l[r])
                    /\ \A n \in 1 .. Len(l[r]) : h[r][n] = Account(l[r][n])
  OBVIOUS
<1>1. PICK line : line = l[r] /\ IsLine(line)
  OBVIOUS
<1>2. PICK t : t = h[r]
  OBVIOUS
<1>3. t = [n \in DOMAIN line |-> Account(line[n])]
  BY <1>1, <1>2
<1> QED
  BY <1>1, <1>2, <1>3, LineTells

\* An entry keeps its type and its author whatever is said.
LEMMA AccountFacts ==
    ASSUME NEW row
    PROVE  /\ Account(row).type = row.type /\ Account(row).actor = row.actor
           /\ Account(row).said = IF row.payload.marker THEN Genesis ELSE row.hash
BY DEF Account

\* A new event says something.
LEMMA NewRowSays ==
    ASSUME NEW row, NEW prev, NEW r, NEW n, NEW type, NEW actor, NEW payload,
           ~row.payload.marker, row.hash = ChainHash(prev, r, n, type, actor, payload)
    PROVE  Account(row).said # Genesis
<1>1. Account(row).said = ChainHash(prev, r, n, type, actor, payload)
  BY AccountFacts
<1>2. \A a, b, c, d, e, f : <<a, b, c, d, e, f>> # <<>>
  OBVIOUS
<1> QED
  BY <1>1, <1>2 DEF ChainHash, Genesis

\* A transaction that appends says more.
LEMMA GrowingSays ==
    ASSUME LogInv, NEW r \in Rooms, Grows(r)
    PROVE  History!Say(r)
<1>1. LogTypeOK /\ LogTypeOK' /\ RowsStay
  BY GrowsTyped, GrowsStay DEF LogInv
<1>2. PICK h : h = HistoryOf /\ h = [s \in Rooms |-> [n \in DOMAIN log[s] |-> Account(log[s][n])]]
  BY DEF HistoryOf, Account
<1>3. PICK g : g = HistoryOf' /\ g = [s \in Rooms |-> [n \in DOMAIN log'[s] |-> Account(log'[s][n])]]
  BY DEF HistoryOf, Account
<1>4. \A s \in Rooms : /\ Len(h[s]) = Len(log[s]) /\ Len(log[s]) \in Nat /\ DOMAIN h[s] = 1 .. Len(log[s])
                       /\ \A n \in 1 .. Len(log[s]) : h[s][n] = Account(log[s][n])
  BY <1>1, <1>2, HistoryTells DEF LogTypeOK
<1>5. \A s \in Rooms : /\ Len(g[s]) = Len(log'[s]) /\ Len(log'[s]) \in Nat /\ DOMAIN g[s] = 1 .. Len(log'[s])
                       /\ \A n \in 1 .. Len(log'[s]) : g[s][n] = Account(log'[s][n])
  BY <1>1, <1>3, HistoryTells DEF LogTypeOK
<1>6. \A s \in Rooms \ {r} : g[s] = h[s]
  BY <1>2, <1>3 DEF Grows, SameElsewhere, HistoryOf
<1>7. Len(g[r]) > Len(h[r])
  BY <1>4, <1>5 DEF Grows
<1>8. \A n \in DOMAIN h[r] : g[r][n] = h[r][n]
  <2> SUFFICES ASSUME NEW n \in 1 .. Len(log[r]) PROVE g[r][n] = h[r][n]
    BY <1>4
  <2>1. log'[r][n] = log[r][n] /\ n \in 1 .. Len(log'[r])
    BY <1>1 DEF Grows, RowsStay
  <2> QED
    BY <1>4, <1>5, <2>1
<1>9. \A n \in DOMAIN g[r] \ DOMAIN h[r] : g[r][n].said # Genesis
  <2> SUFFICES ASSUME NEW n \in 1 .. Len(log'[r]), n \notin 1 .. Len(log[r]) PROVE g[r][n].said # Genesis
    BY <1>4, <1>5
  <2>1. n \in Len(log[r]) + 1 .. Len(log'[r])
    BY <1>4, <1>5
  <2>2. NewRow(r, n)'
    BY <2>1 DEF Grows
  <2>3. Account(log'[r][n]).said # Genesis
    BY <2>2, NewRowSays DEF NewRow
  <2> QED
    BY <1>5, <2>3
<1> QED
  BY <1>2, <1>3, <1>6, <1>7, <1>8, <1>9 DEF History!Say, History!OnlyRoom

\* What an erasure's transaction does to a room is what RoomHistory allows an erasure.
LEMMA BlankingErases ==
    ASSUME LogInv, NEW o \in Operators, NEW r \in Rooms, Blanks(r, Hit(o, r))
    PROVE  History!Erase(r)
<1>1. LogTypeOK /\ LogTypeOK' /\ RowsStay /\ Listed
  BY BlanksTyped, BlanksStay DEF LogInv
<1>2. PICK h : h = HistoryOf /\ h = [s \in Rooms |-> [n \in DOMAIN log[s] |-> Account(log[s][n])]]
  BY DEF HistoryOf, Account
<1>3. PICK g : g = HistoryOf' /\ g = [s \in Rooms |-> [n \in DOMAIN log'[s] |-> Account(log'[s][n])]]
  BY DEF HistoryOf, Account
<1>4. \A s \in Rooms : /\ Len(h[s]) = Len(log[s]) /\ Len(log[s]) \in Nat /\ DOMAIN h[s] = 1 .. Len(log[s])
                       /\ \A n \in 1 .. Len(log[s]) : h[s][n] = Account(log[s][n])
  BY <1>1, <1>2, HistoryTells DEF LogTypeOK
<1>5. \A s \in Rooms : /\ Len(g[s]) = Len(log'[s]) /\ Len(log'[s]) \in Nat /\ DOMAIN g[s] = 1 .. Len(log'[s])
                       /\ \A n \in 1 .. Len(log'[s]) : g[s][n] = Account(log'[s][n])
  BY <1>1, <1>3, HistoryTells DEF LogTypeOK
<1>6. \A s \in Rooms \ {r} : g[s] = h[s]
  BY <1>2, <1>3 DEF Blanks, SameElsewhere, HistoryOf
<1>7. Len(g[r]) = Len(h[r]) + 1
  BY <1>4, <1>5 DEF Blanks
<1>8. ASSUME NEW n \in DOMAIN h[r], g[r][n] # h[r][n]
      PROVE  g[r][n] = [h[r][n] EXCEPT !.said = Genesis] /\ h[r][n].actor = erasures[o].user
  <2>1. n \in 1 .. Len(log[r]) /\ n \in 1 .. Len(log'[r])
    BY <1>1, <1>4 DEF RowsStay
  <2>2. PICK old, new : old = log[r][n] /\ new = log'[r][n]
    OBVIOUS
  <2>3. h[r][n] = Account(old) /\ g[r][n] = Account(new)
    BY <1>4, <1>5, <2>1, <2>2
  <2>4. n \in Hit(o, r) /\ new = [old EXCEPT !.payload = Marker]
    BY <1>8, <2>1, <2>2, <2>3 DEF Blanks
  <2>5. IsRow(old) /\ old.actor = erasures[o].user
    BY <1>1, <2>1, <2>2, <2>4, HitListed DEF LogTypeOK
  <2>6. new.payload = Marker /\ new.type = old.type /\ new.actor = old.actor
    BY <2>4, <2>5, BlankedRow
  <2>7. Account(new) = [type |-> old.type, actor |-> old.actor, said |-> Genesis]
    BY <2>6 DEF Account, Marker
  <2>8. [Account(old) EXCEPT !.said = Genesis] = [type |-> old.type, actor |-> old.actor, said |-> Genesis]
    BY DEF Account
  <2>9. Account(old).actor = erasures[o].user
    BY <2>5, AccountFacts
  <2> QED
    BY <2>3, <2>7, <2>8, <2>9
<1>9. g[r][Len(g[r])].type = "event.redacted"
  <2>1. PICK k \in Nat : k = Len(log'[r]) /\ k = Len(log[r]) + 1
    BY <1>4, <1>5 DEF Blanks
  <2>2. log'[r][k].type = "event.redacted"
    BY <1>4, <2>1 DEF Blanks
  <2>0. Len(log[r]) \in Nat /\ Len(g[r]) = Len(log'[r])
    BY <1>4, <1>5
  <2>3. k \in 1 .. Len(log'[r]) /\ Len(g[r]) = k
    BY <2>0, <2>1
  <2>4. g[r][k] = Account(log'[r][k])
    BY <1>5, <2>3
  <2> QED
    BY <2>2, <2>3, <2>4, AccountFacts
<1> QED
  BY <1>2, <1>3, <1>6, <1>7, <1>8, <1>9 DEF History!Erase, History!OnlyRoom, History!OneMore

\* Every step of the service is a step of the history, or no step of it.
LEMMA HistoryMoves ==
    ASSUME LogInv, LogMoves
    PROVE  [History!Next]_HistoryOf
<1>1. CASE UNCHANGED logVars
  BY <1>1 DEF logVars, HistoryOf
<1>2. ASSUME NEW r \in Rooms, Grows(r) PROVE History!Next
  BY <1>2, GrowingSays DEF History!Next
<1>3. ASSUME NEW o \in Operators, NEW r \in Rooms, Blanks(r, Hit(o, r)) PROVE History!Next
  BY <1>3, BlankingErases DEF History!Next
<1> QED
  BY <1>1, <1>2, <1>3 DEF LogMoves

\* No history is told before anything happened.
LEMMA HistoryStart ==
    ASSUME Init
    PROVE  History!Init
<1> SUFFICES HistoryOf = [r \in Rooms |-> <<>>]
  BY DEF History!Init
<1>1. log = [r \in Rooms |-> <<>>]
  BY DEF Init, LogInit
<1>2. ASSUME NEW r \in Rooms PROVE HistoryOf[r] = <<>>
  <2>1. log[r] = <<>>
    BY <1>1
  <2> QED
    BY <2>1 DEF HistoryOf
<1> QED
  BY <1>2 DEF HistoryOf

\* The logs of the service, read by anybody at any time, implement RoomHistory.
THEOREM LogsKeepHistory == Spec => KeepsHistory
<1>1. Init => History!Init
  BY HistoryStart
<1>2. LogInv /\ RecInv /\ [Next]_vars => [History!Next]_HistoryOf
  BY StepKeeps, HistoryMoves
<1> QED
  BY <1>1, <1>2, RecordsSafe, PTL DEF Spec, KeepsHistory, History!Spec

-----------------------------------------------------------------------------
(* Exports.  What an export has handed out are the first rows of one log.       *)
Reader(at, out, size, reads, todo, breaks) ==
    [at |-> at, out |-> out, size |-> size, reached |-> reads, todo |-> todo, breaks |-> breaks]
IsAudit(v) == v = Reader(v.at, v.out, v.size, v.reached, v.todo, v.breaks)
Copied(out, line) ==
    /\ Len(out) <= Len(line)
    /\ \A n \in 1 .. Len(out) : out[n] = [seq |-> n, hash |-> line[n].hash]
Exports(v, l) ==
    /\ IsAudit(v) /\ IsLine(v.out)
    /\ v.out # <<>> => \E s \in Rooms : Copied(v.out, l[s]) /\ (v.at = "paging" => v.todo = {s})
ExportInv == DOMAIN audits = Auditors /\ \A a \in Auditors : Exports(audits[a], log)

\* Rows that are appended, and rows that are blanked, are the rows that were handed out.
LEMMA ExportsStay ==
    ASSUME RowsStay, NEW v, Exports(v, log)
    PROVE  Exports(v, log')
<1>1. Len(v.out) \in Nat
  BY LineFacts DEF Exports
<1>2. ASSUME NEW s \in Rooms, Copied(v.out, log[s]) PROVE Copied(v.out, log'[s])
  BY <1>1, <1>2 DEF Copied, RowsStay
<1> QED
  BY <1>2 DEF Exports

\* One page more.
LEMMA PageCopied ==
    ASSUME NEW line, IsLine(line), \A n \in 1 .. Len(line) : line[n].seq = n,
           NEW out, IsLine(out), Copied(out, line), NEW more, NEW page,
           page = PageFrom(line, IF out = <<>> THEN 0 ELSE out[Len(out)].seq),
           more = out \o [n \in DOMAIN page |-> [seq |-> page[n].seq, hash |-> page[n].hash]]
    PROVE  IsLine(more) /\ Copied(more, line)
<1>1. Len(line) \in Nat /\ Len(out) \in Nat /\ Len(out) <= Len(line)
  BY LineFacts DEF Copied
<1>2. PICK k \in Nat : k = Len(out) /\ k <= Len(line)
  BY <1>1
<1>3. (IF out = <<>> THEN 0 ELSE out[Len(out)].seq) = k
  <2>1. CASE out = <<>>
    BY <1>2, <2>1
  <2>2. CASE out # <<>>
    <3>1. k # 0
      BY <1>2, <2>2, EmptySeq DEF IsLine
    <3>2. out[k] = [seq |-> k, hash |-> line[k].hash]
      BY <1>2, <3>1 DEF Copied
    <3> QED
      BY <1>2, <2>2, <3>2
  <2> QED
    BY <2>1, <2>2
<1>4. PICK last \in Nat : last = IF k + PageSize < Len(line) THEN k + PageSize ELSE Len(line)
  BY <1>1, EventLogAssumption
<1>5. k <= last /\ last <= Len(line)
  BY <1>1, <1>2, <1>4, EventLogAssumption
<1>6. page = SubSeq(line, k + 1, last)
  BY <1>3, <1>4 DEF PageFrom
<1>0. PICK T : T = { line[n] : n \in 1 .. Len(line) }
  OBVIOUS
<1>7. PICK m \in Int : m = k + 1
  OBVIOUS
<1>8. /\ page \in Seq(T) /\ Len(page) = IF m <= last THEN last - m + 1 ELSE 0
      /\ \A n \in 1 .. last - m + 1 : page[n] = line[m + n - 1]
  <2>1. \A n \in m .. last : line[n] \in T
    BY <1>0, <1>1, <1>5, <1>7
  <2>2. last \in Int /\ page = SubSeq(line, m, last)
    BY <1>6, <1>7
  <2> QED
    <3>1. SubSeq(line, m, last) \in Seq(T)
      BY <1>7, <2>1, <2>2, SubSeqProperties, Zenon
    <3>2. Len(page) = IF m <= last THEN last - m + 1 ELSE 0
      BY <1>7, <2>1, <2>2
    <3>3. \A n \in 1 .. last - m + 1 : page[n] = line[m + n - 1]
      BY <1>7, <2>1, <2>2
    <3> QED
      BY <2>2, <3>1, <3>2, <3>3
<1>9. Len(page) = last - k /\ DOMAIN page = 1 .. last - k /\ \A n \in 1 .. last - k : page[n] = line[k + n]
  <2>0. \A n \in Int : n - m + 1 = n - k /\ m + n - 1 = k + n
    <3>1. k \in Int /\ m \in Int /\ m = k + 1
      BY <1>1, <1>2, <1>7
    <3> QED
      BY <3>1
  <2>1. last - m + 1 = last - k /\ \A n \in 1 .. last - k : m + n - 1 = k + n
    BY <1>4, <2>0
  <2>2. Len(page) = last - k
    BY <1>2, <1>4, <1>5, <1>7, <1>8, <2>1
  <2> QED
    BY <1>8, <2>1, <2>2, LenProperties
<1>10. PICK tail : tail = [n \in DOMAIN page |-> [seq |-> page[n].seq, hash |-> page[n].hash]]
  OBVIOUS
<1>11. PICK size \in Nat : size = last - k
  BY <1>5
<1>12. tail = [n \in 1 .. size |-> tail[n]] /\ \A n \in 1 .. size : tail[n] = [seq |-> k + n, hash |-> line[k + n].hash]
  <2>1. \A n \in 1 .. size : k + n \in 1 .. Len(line)
    BY <1>1, <1>5, <1>11
  <2> QED
    BY <1>9, <1>10, <1>11, <2>1
<1> DEFINE U == { tail[n] : n \in 1 .. size } \cup { out[n] : n \in DOMAIN out }
<1>13. tail \in [1 .. size -> U]
  BY <1>12
<1>15. out \in Seq(U)
  BY SeqMonotonic DEF IsLine
<1> HIDE DEF U
<1>14. tail \in Seq(U)
  BY <1>11, <1>13, SeqDef
<1>16. Len(tail) = size
  <2>1. Len(tail) \in Nat /\ DOMAIN tail = 1 .. Len(tail)
    BY <1>14, LenProperties
  <2>2. DOMAIN tail = 1 .. size
    BY <1>12
  <2>3. \A i, j \in Nat : 1 .. i = 1 .. j => i = j
    OBVIOUS
  <2> QED
    BY <1>11, <2>1, <2>2, <2>3
<1>17. /\ more \in Seq(U) /\ Len(more) = k + size
       /\ \A n \in 1 .. k + size : more[n] = IF n <= k THEN out[n] ELSE tail[n - k]
  <2>1. more = out \o tail
    BY <1>10
  <2> QED
    BY <1>2, <1>11, <1>14, <1>15, <1>16, <2>1
<1>18. IsLine(more)
  <2>1. more \in Seq(Range(more))
    BY <1>17, SeqOfRange
  <2> QED
    BY <2>1 DEF IsLine, Range
<1>19. ASSUME NEW n \in 1 .. k + size PROVE more[n] = [seq |-> n, hash |-> line[n].hash]
  <2>1. CASE n <= k
    <3>1. out[n] = [seq |-> n, hash |-> line[n].hash]
      BY <1>2, <2>1 DEF Copied
    <3> QED
      BY <1>17, <2>1, <3>1
  <2>2. CASE n > k
    <3>1. PICK i \in 1 .. size : i = n - k /\ k + i = n
      BY <1>11, <2>2
    <3>2. more[n] = tail[i]
      BY <1>17, <2>2, <3>1
    <3> QED
      BY <1>12, <3>1, <3>2
  <2> QED
    BY <2>1, <2>2
<1> QED
  BY <1>1, <1>5, <1>11, <1>17, <1>18, <1>19 DEF Copied

\* Every step of a reader.
LEMMA AuditKeeps ==
    ASSUME LogTypeOK, RowsKept, ExportInv, AuditNext
    PROVE  ExportInv'
<1>1. PICK a \in Auditors :
          \/ StartAudit(a)
          \/ \E r \in Rooms : \/ StartExport(a, r) \/ ExportPage(a, r) \/ ExportCount(a, r)
                              \/ VerifyCount(a, r) \/ VerifyRoom(a, r)
  BY DEF AuditNext
<1>2. UNCHANGED log
  BY DEF AuditNext, logVars
<1>3. ASSUME NEW v, audits' = [audits EXCEPT ![a] = v], Exports(v, log) PROVE ExportInv'
  BY <1>2, <1>3 DEF ExportInv
<1>4. PICK at, out, size, reads, todo, breaks : audits[a] = Reader(at, out, size, reads, todo, breaks)
  BY DEF ExportInv, Exports, IsAudit
<1>5. /\ audits[a].at = at /\ audits[a].out = out /\ audits[a].size = size /\ audits[a].reached = reads
      /\ audits[a].todo = todo /\ audits[a].breaks = breaks
  BY <1>4 DEF Reader
<1>6. IsLine(out) /\ (out # <<>> => \E s \in Rooms : Copied(out, log[s]) /\ (at = "paging" => todo = {s}))
  BY <1>5 DEF ExportInv, Exports
<1>7. PICK none : none = <<>>
  OBVIOUS
<1>8. IsLine(none)
  BY <1>7 DEF IsLine
<1>9. ASSUME NEW to, NEW news, NEW rooms,
             audits' = [audits EXCEPT ![a] = Reader(to, none, 0, news, rooms, {})]
      PROVE  ExportInv'
  <2>1. PICK v : v = Reader(to, none, 0, news, rooms, {})
    OBVIOUS
  <2>2. IsAudit(v) /\ v.out = none
    BY <2>1 DEF IsAudit, Reader
  <2>3. Exports(v, log)
    BY <1>7, <1>8, <2>2 DEF Exports
  <2> QED
    BY <1>3, <1>9, <2>1, <2>3
\* A reader that hands out nothing more has handed out what it had.
<1>10. ASSUME NEW to, NEW count, NEW news, NEW rooms, NEW found, to # "paging",
              audits' = [audits EXCEPT ![a] = Reader(to, out, count, news, rooms, found)]
       PROVE  ExportInv'
  <2>1. PICK v : v = Reader(to, out, count, news, rooms, found)
    OBVIOUS
  <2>2. IsAudit(v) /\ v.out = out /\ v.at # "paging"
    BY <1>10, <2>1 DEF IsAudit, Reader
  <2>3. Exports(v, log)
    BY <1>6, <2>2 DEF Exports
  <2> QED
    BY <1>3, <1>10, <2>1, <2>3
<1>11. CASE StartAudit(a)
  <2>1. audits' = [audits EXCEPT ![a] = [Idle EXCEPT !.at = "rows", !.reached = counter, !.todo = Rooms]]
    BY <1>11 DEF StartAudit
  <2>2. Idle = Reader("idle", none, 0, [s \in Rooms |-> 0], {}, {})
    BY <1>7 DEF Idle, Reader
  <2>3. [Idle EXCEPT !.at = "rows", !.reached = counter, !.todo = Rooms] =
            Reader("rows", none, 0, counter, Rooms, {})
    <3>1. PICK v : v = [Idle EXCEPT !.at = "rows"]
      OBVIOUS
    <3>2. PICK w : w = [v EXCEPT !.reached = counter]
      OBVIOUS
    <3>3. v = Reader("rows", none, 0, [s \in Rooms |-> 0], {}, {})
      BY <2>2, <3>1 DEF Reader
    <3>4. w = Reader("rows", none, 0, counter, {}, {})
      BY <3>2, <3>3 DEF Reader
    <3>5. [w EXCEPT !.todo = Rooms] = Reader("rows", none, 0, counter, Rooms, {})
      BY <3>4 DEF Reader
    <3>6. [Idle EXCEPT !.at = "rows", !.reached = counter, !.todo = Rooms] =
              [[[Idle EXCEPT !.at = "rows"] EXCEPT !.reached = counter] EXCEPT !.todo = Rooms]
      OBVIOUS
    <3> QED
      BY <3>1, <3>2, <3>5, <3>6
  <2> QED
    BY <1>9, <2>1, <2>3
<1>12. ASSUME NEW r \in Rooms, StartExport(a, r) PROVE ExportInv'
  <2>1. audits' = [audits EXCEPT ![a] = [Idle EXCEPT !.at = "paging", !.todo = {r}]]
    BY <1>12 DEF StartExport
  <2>2. PICK news : news = [s \in Rooms |-> 0]
    OBVIOUS
  <2>3. Idle = Reader("idle", none, 0, news, {}, {})
    BY <1>7, <2>2 DEF Idle, Reader
  <2>4. [Idle EXCEPT !.at = "paging", !.todo = {r}] = Reader("paging", none, 0, news, {r}, {})
    <3>1. PICK v : v = [Idle EXCEPT !.at = "paging"]
      OBVIOUS
    <3>2. v = Reader("paging", none, 0, news, {}, {})
      BY <2>3, <3>1 DEF Reader
    <3>3. [v EXCEPT !.todo = {r}] = Reader("paging", none, 0, news, {r}, {})
      BY <3>2 DEF Reader
    <3>4. [Idle EXCEPT !.at = "paging", !.todo = {r}] = [[Idle EXCEPT !.at = "paging"] EXCEPT !.todo = {r}]
      OBVIOUS
    <3> QED
      BY <3>1, <3>3, <3>4
  <2> QED
    BY <1>9, <2>1, <2>4
<1>13. ASSUME NEW r \in Rooms, ExportPage(a, r) PROVE ExportInv'
  <2>1. PICK page : page = PageFrom(log[r], IF out = <<>> THEN 0 ELSE out[Len(out)].seq)
    OBVIOUS
  <2>2. PICK more : more = out \o [n \in DOMAIN page |-> [seq |-> page[n].seq, hash |-> page[n].hash]]
    OBVIOUS
  <2>3. /\ at = "paging" /\ todo = {r}
        /\ audits' = [audits EXCEPT ![a] = IF page = <<>> THEN [audits[a] EXCEPT !.at = "counting"]
                                           ELSE [audits[a] EXCEPT !.out = more]]
    BY <1>5, <1>13, <2>1, <2>2 DEF ExportPage, ExportInv
  <2>4. CASE page = <<>>
    <3>1. [audits[a] EXCEPT !.at = "counting"] = Reader("counting", out, size, reads, todo, breaks)
      BY <1>4 DEF Reader
    <3>2. audits' = [audits EXCEPT ![a] = Reader("counting", out, size, reads, todo, breaks)]
      BY <2>3, <2>4, <3>1
    <3>3. "counting" # "paging"
      OBVIOUS
    <3> QED
      BY <1>10, <3>2, <3>3
  <2>5. CASE page # <<>>
    <3>1. PICK v : v = Reader(at, more, size, reads, todo, breaks)
      OBVIOUS
    <3>2. audits' = [audits EXCEPT ![a] = v]
      <4>1. [audits[a] EXCEPT !.out = more] = v
        BY <1>4, <3>1 DEF Reader
      <4> QED
        BY <2>3, <2>5, <4>1
    <3>3. IsAudit(v) /\ v.out = more /\ v.at = "paging" /\ v.todo = {r}
      BY <2>3, <3>1 DEF IsAudit, Reader
    <3>4. Copied(out, log[r])
      <4>1. CASE out = <<>>
        <5>1. Len(log[r]) \in Nat /\ Len(out) = 0
          BY <4>1, LineFacts DEF LogTypeOK
        <5> QED
          BY <5>1 DEF Copied
      <4>2. CASE out # <<>>
        BY <1>6, <2>3, <4>2
      <4> QED
        BY <4>1, <4>2
    <3>5. IsLine(log[r]) /\ \A n \in 1 .. Len(log[r]) : log[r][n].seq = n
      BY DEF LogTypeOK, RowsKept, RowKept
    <3>6. IsLine(more) /\ Copied(more, log[r])
      <4>1. PICK line : line = log[r]
        OBVIOUS
      <4> QED
        BY <1>6, <2>1, <2>2, <3>4, <3>5, <4>1, PageCopied
    <3>7. Exports(v, log)
      BY <3>3, <3>6 DEF Exports
    <3> QED
      BY <1>3, <3>2, <3>7
  <2> QED
    BY <2>4, <2>5
<1>14. ASSUME NEW r \in Rooms, ExportCount(a, r) PROVE ExportInv'
  <2>1. audits' = [audits EXCEPT ![a] = [audits[a] EXCEPT !.at = "counted", !.size = counter[r]]]
    BY <1>14 DEF ExportCount, ExportInv
  <2>2. PICK count : count = counter[r]
    OBVIOUS
  <2>3. [audits[a] EXCEPT !.at = "counted", !.size = count] = Reader("counted", out, count, reads, todo, breaks)
    <3>1. PICK v : v = [audits[a] EXCEPT !.at = "counted"]
      OBVIOUS
    <3>2. v = Reader("counted", out, size, reads, todo, breaks)
      BY <1>4, <3>1 DEF Reader
    <3>3. [v EXCEPT !.size = count] = Reader("counted", out, count, reads, todo, breaks)
      BY <3>2 DEF Reader
    <3>4. [audits[a] EXCEPT !.at = "counted", !.size = count] =
              [[audits[a] EXCEPT !.at = "counted"] EXCEPT !.size = count]
      OBVIOUS
    <3> QED
      BY <3>1, <3>3, <3>4
  <2>4. audits' = [audits EXCEPT ![a] = Reader("counted", out, count, reads, todo, breaks)]
    BY <2>1, <2>2, <2>3
  <2>5. "counted" # "paging"
    OBVIOUS
  <2> QED
    BY <1>10, <2>4, <2>5
<1>15. ASSUME NEW r \in Rooms, VerifyCount(a, r) PROVE ExportInv'
  <2>1. audits' = [audits EXCEPT ![a] = [audits[a] EXCEPT !.at = "rows", !.reached[r] = counter[r]]]
    BY <1>15 DEF VerifyCount, ExportInv
  <2>2. PICK count : count = counter[r]
    OBVIOUS
  <2>3. PICK news : news = [reads EXCEPT ![r] = count]
    OBVIOUS
  <2>4. [audits[a] EXCEPT !.at = "rows", !.reached[r] = count] = Reader("rows", out, size, news, todo, breaks)
    <3>1. PICK v : v = [audits[a] EXCEPT !.at = "rows"]
      OBVIOUS
    <3>2. v = Reader("rows", out, size, reads, todo, breaks)
      BY <1>4, <3>1 DEF Reader
    <3>3. [v EXCEPT !.reached = news] = Reader("rows", out, size, news, todo, breaks)
      BY <3>2 DEF Reader
    <3>4. v.reached = reads
      BY <3>2 DEF Reader
    <3>5. [v EXCEPT !.reached[r] = count] = [v EXCEPT !.reached = [v.reached EXCEPT ![r] = count]]
      BY <3>2 DEF Reader
    <3>6. [audits[a] EXCEPT !.at = "rows", !.reached[r] = count] =
              [[audits[a] EXCEPT !.at = "rows"] EXCEPT !.reached[r] = count]
      OBVIOUS
    <3> QED
      BY <2>3, <3>1, <3>3, <3>4, <3>5, <3>6
  <2>5. audits' = [audits EXCEPT ![a] = Reader("rows", out, size, news, todo, breaks)]
    BY <2>1, <2>2, <2>4
  <2>6. "rows" # "paging"
    OBVIOUS
  <2> QED
    BY <1>10, <2>5, <2>6
<1>16. ASSUME NEW r \in Rooms, VerifyRoom(a, r) PROVE ExportInv'
  <2>1. PICK rest, found : rest = audits[a].todo \ {r} /\
                           found = audits[a].breaks \cup BreakIn(r, log[r], audits[a].reached[r])
    OBVIOUS
  <2>2. PICK to : to = IF rest = {} THEN "done" ELSE "rows"
    OBVIOUS
  <2>3. audits' = [audits EXCEPT ![a] = [audits[a] EXCEPT !.breaks = found, !.todo = rest, !.at = to]]
    BY <1>16, <2>1, <2>2 DEF VerifyRoom, ExportInv
  <2>4. [audits[a] EXCEPT !.breaks = found, !.todo = rest, !.at = to] =
            Reader(to, out, size, reads, rest, found)
    <3>1. PICK v : v = [audits[a] EXCEPT !.breaks = found]
      OBVIOUS
    <3>2. PICK w : w = [v EXCEPT !.todo = rest]
      OBVIOUS
    <3>3. v = Reader(at, out, size, reads, todo, found)
      BY <1>4, <3>1 DEF Reader
    <3>4. w = Reader(at, out, size, reads, rest, found)
      BY <3>2, <3>3 DEF Reader
    <3>5. [w EXCEPT !.at = to] = Reader(to, out, size, reads, rest, found)
      BY <3>4 DEF Reader
    <3>6. [audits[a] EXCEPT !.breaks = found, !.todo = rest, !.at = to] =
              [[[audits[a] EXCEPT !.breaks = found] EXCEPT !.todo = rest] EXCEPT !.at = to]
      OBVIOUS
    <3> QED
      BY <3>1, <3>2, <3>5, <3>6
  <2>5. to # "paging"
    BY <2>2
  <2>6. audits' = [audits EXCEPT ![a] = Reader(to, out, size, reads, rest, found)]
    BY <2>3, <2>4
  <2> QED
    BY <1>10, <2>5, <2>6
<1> QED
  BY <1>1, <1>11, <1>12, <1>13, <1>14, <1>15, <1>16

\* What exports have handed out, always.
LEMMA ExportStep ==
    ASSUME LogInv, RecInv, ExportInv, [Next]_vars
    PROVE  ExportInv'
<1>1. LogTypeOK /\ RowsKept /\ RowsStay
  BY StepKeeps, LogKeeps DEF LogInv
<1>2. CASE UNCHANGED auditVars
  BY <1>1, <1>2, ExportsStay DEF auditVars, ExportInv
<1>3. CASE AuditNext
  BY <1>1, <1>3, AuditKeeps
<1>4. CASE UNCHANGED vars
  BY <1>2, <1>4 DEF vars, auditVars
<1> QED
  BY <1>2, <1>3, <1>4 DEF Next

\* No export has handed out anything when the service starts.
LEMMA ExportStart ==
    ASSUME Init
    PROVE  ExportInv
<1>1. audits = [a \in Auditors |-> Idle]
  BY DEF Init, LogInit
<1>2. IsAudit(Idle) /\ Idle.out = <<>>
  BY DEF Idle, IsAudit, Reader
<1>3. IsLine(<<>>)
  BY DEF IsLine
<1>4. Exports(Idle, log)
  BY <1>2, <1>3 DEF Exports
<1> QED
  BY <1>1, <1>4 DEF ExportInv

\* A verified export has as many rows as it counted, and they are the first of a log.
LEMMA ExportsWhole ==
    ASSUME ExportInv
    PROVE  VerifiedExportIsWhole
<1> SUFFICES ASSUME NEW a \in Auditors, audits[a].at = "done", audits[a].out # <<>>, ChainVerified(a)
             PROVE  \E s \in Rooms :
                        /\ Len(audits[a].out) = audits[a].size
                        /\ audits[a].size <= Len(log[s])
                        /\ \A n \in DOMAIN audits[a].out :
                               audits[a].out[n] = [seq |-> n, hash |-> log[s][n].hash]
  BY DEF VerifiedExportIsWhole
<1>1. PICK s \in Rooms : Copied(audits[a].out, log[s])
  BY DEF ExportInv, Exports
<1>2. DOMAIN audits[a].out = 1 .. Len(audits[a].out)
  BY LineFacts DEF ExportInv, Exports
<1>3. Len(audits[a].out) = audits[a].size
  BY DEF ChainVerified
<1> QED
  BY <1>1, <1>2, <1>3 DEF Copied

\* An export that calls itself verified handed out exactly the first rows of the log, in
\* order, and all that the counter it read had counted.
THEOREM VerifiedExportsAreWhole == Spec => []VerifiedExportIsWhole
<1>1. Init => ExportInv
  BY ExportStart
<1>2. LogInv /\ RecInv /\ ExportInv /\ [Next]_vars => ExportInv'
  BY ExportStep
<1>3. ExportInv => VerifiedExportIsWhole
  BY ExportsWhole
<1> QED
  BY <1>1, <1>2, <1>3, RecordsSafe, PTL DEF Spec
-----------------------------------------------------------------------------
(***************************************************************************)
(* The ontology says what the rows say, or is told to be older, or stands  *)
(* on a person's review, for any number of rooms, texts, members and       *)
(* passes, while rows move and are erased.                                 *)
(*                                                                         *)
(* AssertionsFollow and ReviewsStand are not inductive: they speak of an   *)
(* assertion only when its room's passes have gone by every event of its   *)
(* row, or none of its class came after it.  The invariant says what holds *)
(* in between -- an assertion that differs from its row is awaited by a    *)
(* later event of that row, or reviewed and its difference told -- and     *)
(* what makes it so: a row moves only in a transaction that logs an event  *)
(* about it, an event is about texts of its room, a task or decision has   *)
(* its event and shows its title until the erasure that blanks it.         *)
(***************************************************************************)
(* The ontology.  A pass and a review append to a log like anybody else.        *)
RowAfter(r, rows, type, actor, about) ==
    Append(rows, Chained(r, rows, type, actor, Payload(about, FALSE, {})))
RowTold(r, t, n, type, actor, about) ==
    /\ IsRow(t[n]) /\ t[n].seq = n /\ t[n].prev = PrevOf(t, n)
    /\ t[n].type = type /\ t[n].actor = actor /\ t[n].payload = Payload(about, FALSE, {})
    /\ t[n].hash = ChainHash(t[n].prev, r, n, type, actor, t[n].payload)
Longer(r, t, k, types, actor, xs) ==
    /\ IsLine(t) /\ Len(t) = Len(log[r]) + k
    /\ \A n \in 1 .. Len(log[r]) : t[n] = log[r][n]
    /\ \A n \in 1 .. k : RowTold(r, t, Len(log[r]) + n, types[n], actor, xs[n])

RowSays(row, type, actor, about) ==
    row.type = type /\ row.actor = actor /\ row.payload = Payload(about, FALSE, {})
EventRows(rows, r, types, actor, xs, k) ==
    /\ rows[0] = log[r]
    /\ \A n \in 1 .. k : rows[n] = RowAfter(r, rows[n - 1], types[n], actor, xs[n])
    /\ counter' = [counter EXCEPT ![r] = counter[r] + k]
    /\ log' = [log EXCEPT ![r] = rows[k]] /\ UNCHANGED redactions

\* The rows of the several events of one transaction, one after the other.
LEMMA EventsRows ==
    ASSUME NEW r, NEW types, NEW actor, NEW xs, NEW k \in 0 .. 3, Len(types) = k, Events(r, types, actor, xs)
    PROVE  \E rows : EventRows(rows, r, types, actor, xs, k)
<1> DEFINE IsRows(rows) == rows = [n \in 0 .. k |-> IF n = 0 THEN log[r]
                                     ELSE RowAfter(r, rows[n - 1], types[n], actor, xs[n])]
<1>1. PICK f0, f1, f2, f3 : /\ f0 = log[r] /\ f1 = RowAfter(r, f0, types[1], actor, xs[1])
                            /\ f2 = RowAfter(r, f1, types[2], actor, xs[2])
                            /\ f3 = RowAfter(r, f2, types[3], actor, xs[3])
  OBVIOUS
<1>2. PICK w : w = [n \in 0 .. k |-> IF n = 0 THEN f0 ELSE IF n = 1 THEN f1 ELSE IF n = 2 THEN f2 ELSE f3]
  OBVIOUS
<1>3. IsRows(w)
  <2> SUFFICES ASSUME NEW n \in 0 .. k
               PROVE  w[n] = IF n = 0 THEN log[r] ELSE RowAfter(r, w[n - 1], types[n], actor, xs[n])
    BY <1>2
  <2>1. CASE n = 0
    BY <1>1, <1>2, <2>1
  <2>2. CASE n = 1
    <3>1. w[0] = f0 /\ n - 1 = 0
      BY <1>2, <2>2
    <3>2. w[n] = f1
      BY <1>2, <2>2
    <3> QED
      BY <1>1, <2>2, <3>1, <3>2
  <2>3. CASE n = 2
    <3>1. w[1] = f1 /\ n - 1 = 1
      BY <1>2, <2>3
    <3>2. w[n] = f2
      BY <1>2, <2>3
    <3> QED
      BY <1>1, <2>3, <3>1, <3>2
  <2>4. CASE n = 3
    <3>1. w[2] = f2 /\ n - 1 = 2
      BY <1>2, <2>4
    <3>2. w[n] = f3
      BY <1>2, <2>4
    <3> QED
      BY <1>1, <2>4, <3>1, <3>2
  <2> QED
    BY <2>1, <2>2, <2>3, <2>4
<1>4. PICK rows : rows = CHOOSE f : IsRows(f)
  OBVIOUS
<1>5. IsRows(rows)
  BY <1>3, <1>4
<1>6. /\ counter' = [counter EXCEPT ![r] = counter[r] + k]
      /\ log' = [log EXCEPT ![r] = rows[k]] /\ UNCHANGED redactions
  BY <1>4 DEF Events, RowAfter
<1>7. rows[0] = log[r]
  BY <1>5
<1>8. \A n \in 1 .. k : rows[n] = RowAfter(r, rows[n - 1], types[n], actor, xs[n])
  BY <1>5
<1> QED
  BY <1>6, <1>7, <1>8 DEF EventRows

\* Each is chained to the row before it.
LEMMA RowAppended ==
    ASSUME LogTypeOK, NEW r \in Rooms, NEW rows, IsLine(rows), NEW type, NEW actor, NEW about,
           NEW t, t = RowAfter(r, rows, type, actor, about)
    PROVE  /\ IsLine(t) /\ Len(t) = Len(rows) + 1 /\ \A n \in 1 .. Len(rows) : t[n] = rows[n]
           /\ RowTold(r, t, Len(rows) + 1, type, actor, about)
<1>1. counter[r] = Len(log[r]) /\ Len(log[r]) \in Nat /\ Len(rows) \in Nat
  BY LineFacts DEF LogTypeOK
<1>2. PICK k \in Nat : k = Len(rows)
  BY <1>1
<1>3. NextSequence(r, rows) = k + 1
  <2>1. PICK m \in Nat : m = Len(log[r]) /\ m = counter[r]
    BY <1>1
  <2>2. NextSequence(r, rows) = m + 1 + (k - m)
    BY <1>2, <2>1 DEF NextSequence
  <2> QED
    BY <1>2, <2>1, <2>2
<1>4. PICK prev : prev = IF k + 1 = 1 THEN Genesis ELSE rows[k].hash
  OBVIOUS
<1>5. PICK payload : payload = Payload(about, FALSE, {})
  OBVIOUS
<1>6. PICK new : new = [seq |-> k + 1, type |-> type, actor |-> actor, payload |-> payload, prev |-> prev,
                        hash |-> ChainHash(prev, r, k + 1, type, actor, payload)]
  OBVIOUS
<1>7. Chained(r, rows, type, actor, payload) = new
  <2>1. (k + 1) - 1 = k
    BY <1>2
  <2> QED
    BY <1>3, <1>4, <1>6, <2>1 DEF Chained
<1>8. t = Append(rows, new)
  BY <1>5, <1>7 DEF RowAfter
<1>9. IsLine(t) /\ Len(t) = k + 1 /\ (\A n \in 1 .. k : t[n] = rows[n]) /\ t[k + 1] = new
  BY <1>2, <1>8, Appended
<1>10. prev = PrevOf(t, k + 1)
  <2>1. CASE k = 0
    BY <1>4, <2>1 DEF PrevOf
  <2>2. CASE k # 0
    <3>1. k + 1 # 1 /\ (k + 1) - 1 = k /\ k \in 1 .. k
      BY <1>2, <2>2
    <3> QED
      BY <1>4, <1>9, <3>1 DEF PrevOf
  <2> QED
    BY <2>1, <2>2
<1>11. /\ IsRow(new) /\ new.seq = k + 1 /\ new.prev = prev /\ new.type = type /\ new.actor = actor
       /\ new.payload = payload /\ new.hash = ChainHash(prev, r, k + 1, type, actor, payload)
  BY <1>6 DEF IsRow
<1> QED
  BY <1>2, <1>5, <1>9, <1>10, <1>11 DEF RowTold

\* One event more.
LEMMA RowLonger ==
    ASSUME LogTypeOK, NEW r \in Rooms, NEW types, NEW actor, NEW xs, NEW k \in Nat,
           NEW s, Longer(r, s, k, types, actor, xs),
           NEW t, t = RowAfter(r, s, types[k + 1], actor, xs[k + 1])
    PROVE  Longer(r, t, k + 1, types, actor, xs)
<1>1. PICK m \in Nat : m = Len(log[r])
  BY LineFacts DEF LogTypeOK
<1>2. /\ IsLine(s) /\ Len(s) = m + k /\ \A n \in 1 .. m : s[n] = log[r][n]
      /\ \A n \in 1 .. k : RowTold(r, s, m + n, types[n], actor, xs[n])
  BY <1>1 DEF Longer
<1>3. /\ IsLine(t) /\ Len(t) = (m + k) + 1 /\ \A n \in 1 .. m + k : t[n] = s[n]
      /\ RowTold(r, t, (m + k) + 1, types[k + 1], actor, xs[k + 1])
  <2>1. PICK type, about : type = types[k + 1] /\ about = xs[k + 1]
    OBVIOUS
  <2>2. t = RowAfter(r, s, type, actor, about)
    BY <2>1
  <2>3. /\ IsLine(t) /\ Len(t) = Len(s) + 1 /\ \A n \in 1 .. Len(s) : t[n] = s[n]
        /\ RowTold(r, t, Len(s) + 1, type, actor, about)
    BY <1>2, <2>2, RowAppended
  <2> QED
    BY <1>2, <2>1, <2>3
<1>4. (m + k) + 1 = m + (k + 1) /\ \A n \in 1 .. m : n \in 1 .. m + k
  <2>1. m \in Nat
    BY <1>1
  <2> QED
    BY <2>1
<1>5. \A n \in 1 .. m : t[n] = log[r][n]
  BY <1>2, <1>3, <1>4
<1>6. ASSUME NEW n \in 1 .. k PROVE RowTold(r, t, m + n, types[n], actor, xs[n])
  <2>1. PICK j \in 1 .. m + k : j = m + n
    BY <1>1
  <2>2. t[j] = s[j]
    BY <1>3
  <2>3. PrevOf(t, j) = PrevOf(s, j)
    <3>1. \A i \in 1 .. m + k : t[i].hash = s[i].hash
      BY <1>3
    <3>2. m + k \in Nat
      BY <1>1
    <3> QED
      BY <3>1, <3>2, PrevKept
  <2> QED
    BY <1>2, <2>1, <2>2, <2>3 DEF RowTold
<1>7. \A n \in 1 .. k + 1 : n \in 1 .. k \/ n = k + 1
  OBVIOUS
<1>8. RowTold(r, t, m + (k + 1), types[k + 1], actor, xs[k + 1])
  BY <1>3, <1>4
<1>9. \A n \in 1 .. k + 1 : RowTold(r, t, m + n, types[n], actor, xs[n])
  BY <1>6, <1>7, <1>8
<1> QED
  BY <1>1, <1>3, <1>4, <1>5, <1>9 DEF Longer

\* All of them make the log that much longer.
LEMMA EventsGrow ==
    ASSUME LogTypeOK, NEW r \in Rooms, NEW types, NEW actor, NEW xs, NEW k \in 0 .. 3, Len(types) = k,
           \A n \in 1 .. k : xs[n] \in SUBSET Texts, Events(r, types, actor, xs)
    PROVE  /\ Grows(r) \/ UNCHANGED logVars
           /\ Len(log'[r]) = Len(log[r]) + k
           /\ \A n \in 1 .. k : RowSays(log'[r][Len(log[r]) + n], types[n], actor, xs[n])
<1>1. PICK m \in Nat : m = Len(log[r]) /\ m = counter[r]
  BY LineFacts DEF LogTypeOK
<1>0. \E rows : EventRows(rows, r, types, actor, xs, k)
  BY EventsRows
<1>2. PICK rows : /\ rows[0] = log[r]
                  /\ \A n \in 1 .. k : rows[n] = RowAfter(r, rows[n - 1], types[n], actor, xs[n])
                  /\ counter' = [counter EXCEPT ![r] = counter[r] + k]
                  /\ log' = [log EXCEPT ![r] = rows[k]] /\ UNCHANGED redactions
  BY <1>0 DEF EventRows
<1>3. Longer(r, rows[0], 0, types, actor, xs)
  BY <1>1, <1>2 DEF Longer, LogTypeOK
<1>4. ASSUME 1 \in 1 .. k PROVE Longer(r, rows[1], 1, types, actor, xs)
  <2>1. rows[1] = RowAfter(r, rows[0], types[0 + 1], actor, xs[0 + 1])
    BY <1>2, <1>4
  <2>2. Longer(r, rows[1], 0 + 1, types, actor, xs)
    BY <1>3, <2>1, RowLonger
  <2> QED
    BY <2>2
<1>5. ASSUME 2 \in 1 .. k PROVE Longer(r, rows[2], 2, types, actor, xs)
  <2>1. rows[2] = RowAfter(r, rows[1], types[1 + 1], actor, xs[1 + 1])
    BY <1>2, <1>5
  <2>2. Longer(r, rows[2], 1 + 1, types, actor, xs)
    BY <1>4, <1>5, <2>1, RowLonger
  <2> QED
    BY <2>2
<1>6. ASSUME 3 \in 1 .. k PROVE Longer(r, rows[3], 3, types, actor, xs)
  <2>1. rows[3] = RowAfter(r, rows[2], types[2 + 1], actor, xs[2 + 1])
    BY <1>2, <1>6
  <2>2. Longer(r, rows[3], 2 + 1, types, actor, xs)
    BY <1>5, <1>6, <2>1, RowLonger
  <2> QED
    BY <2>2
<1>7. PICK t : t = rows[k]
  OBVIOUS
<1>8. Longer(r, t, k, types, actor, xs)
  BY <1>3, <1>4, <1>5, <1>6, <1>7
<1>9. log' = [s \in Rooms |-> log'[s]] /\ log'[r] = t /\ \A s \in Rooms \ {r} : log'[s] = log[s]
  BY <1>2, <1>7 DEF LogTypeOK
<1>10. counter' \in [Rooms -> Nat] /\ counter'[r] = m + k /\ \A s \in Rooms \ {r} : counter'[s] = counter[s]
  BY <1>1, <1>2 DEF LogTypeOK
<1>11. IsLine(t) /\ Len(t) = m + k /\ \A n \in 1 .. m : t[n] = log[r][n]
  BY <1>1, <1>8 DEF Longer
<1>12. SameElsewhere(r)
  BY <1>9, <1>10, <1>11 DEF SameElsewhere
<1>13. ASSUME NEW n \in 1 .. k
       PROVE  /\ NewRow(r, m + n)' /\ log'[r][m + n].payload.names = {}
              /\ RowSays(log'[r][m + n], types[n], actor, xs[n])
  <2>1. PICK j : j = m + n
    OBVIOUS
  <2>2. RowTold(r, t, j, types[n], actor, xs[n])
    BY <1>1, <1>8, <2>1 DEF Longer
  <2>3. PICK payload : payload = Payload(xs[n], FALSE, {})
    OBVIOUS
  <2>4. payload \in Payloads' /\ payload.names = {} /\ ~payload.marker
    BY <2>3 DEF Payload, Payloads
  <2>5. /\ IsRow(t[j]) /\ t[j].seq = j /\ t[j].prev = PrevOf(t, j)
        /\ t[j].type = types[n] /\ t[j].actor = actor /\ t[j].payload = payload
        /\ t[j].hash = ChainHash(t[j].prev, r, j, t[j].type, t[j].actor, t[j].payload)
    BY <2>2, <2>3 DEF RowTold
  <2>6. NewRow(r, j)'
    BY <1>9, <2>4, <2>5 DEF NewRow
  <2> QED
    BY <1>9, <2>1, <2>3, <2>4, <2>5, <2>6 DEF RowSays
<1>14. CASE k = 0
  <2>1. log'[r] = log[r]
    BY <1>2, <1>9, <1>7, <1>14
  <2>2. log' = log
    BY <1>2, <1>7, <1>14 DEF LogTypeOK
  <2>3. counter' = counter
    BY <1>1, <1>2, <1>14 DEF LogTypeOK
  <2> QED
    BY <1>1, <1>2, <1>9, <1>11, <1>14, <2>2, <2>3 DEF logVars
<1>15. CASE k # 0
  <2>1. m + k > m /\ \A i \in m + 1 .. m + k : i - m \in 1 .. k /\ i = m + (i - m)
    BY <1>1, <1>15
  <2>2. \A i \in m + 1 .. m + k : NewRow(r, i)' /\ log'[r][i].payload.names = {}
    BY <1>13, <2>1
  <2>3. Grows(r)
    BY <1>1, <1>2, <1>9, <1>11, <1>12, <2>1, <2>2 DEF Grows
  <2> QED
    BY <1>1, <1>9, <1>11, <1>13, <2>3
<1> QED
  BY <1>14, <1>15

\* What an extraction pass appends: nothing, or what it wrote and what it found to differ.
MadeBy(xs) == <<"ontology.materialized", xs>>
FoundBy(xs) == <<"ontology.assertion_reconciled", xs>>
EndOfPass == <<"ontology.extraction.advanced", {}>>
\* An event that a pass appends, or does not.
LEMMA AtMostOne ==
    ASSUME NEW S, NEW e \in S, NEW there \in BOOLEAN, NEW f, f = IF there THEN <<e>> ELSE <<>>
    PROVE  f \in Seq(S) /\ Len(f) \in {0, 1} /\ (there => Len(f) = 1 /\ f[1] = e)
<1>1. CASE there
  <2>1. f = <<e>>
    BY <1>1
  <2> QED
    BY <2>1
<1>2. CASE ~there
  <2>1. f = <<>>
    BY <1>2
  <2> QED
    BY <1>2, <2>1
<1> QED
  BY <1>1, <1>2

\* The events of a pass are of these three kinds, and what it found to differ is told.
LEMMA NewsOf ==
    ASSUME NEW xs, NEW ys, NEW made \in BOOLEAN, NEW differ \in BOOLEAN,
           NEW found, found = (IF made THEN <<MadeBy(xs)>> ELSE <<>>) \o (IF differ THEN <<FoundBy(ys)>> ELSE <<>>),
           NEW news, news = IF found = <<>> THEN <<>> ELSE Append(found, EndOfPass)
    PROVE  \E k \in 0 .. 3 :
               /\ DOMAIN news = 1 .. k
               /\ \A n \in 1 .. k : news[n] \in {MadeBy(xs), FoundBy(ys), EndOfPass}
               /\ differ => \E n \in 1 .. k : news[n] = FoundBy(ys)
<1>1. PICK a, b, c : a = MadeBy(xs) /\ b = FoundBy(ys) /\ c = EndOfPass
  OBVIOUS
<1>2. PICK S : S = {a, b, c}
  OBVIOUS
<1>3. PICK f, g : f = (IF made THEN <<a>> ELSE <<>>) /\ g = (IF differ THEN <<b>> ELSE <<>>)
  OBVIOUS
<1>4. found = f \o g
  BY <1>1, <1>3
<1>5. f \in Seq(S) /\ Len(f) \in {0, 1}
  BY <1>2, <1>3, AtMostOne
<1>6. g \in Seq(S) /\ Len(g) \in {0, 1} /\ (differ => Len(g) = 1 /\ g[1] = b)
  BY <1>2, <1>3, AtMostOne
<1>7. PICK m \in {0, 1}, n \in {0, 1} : m = Len(f) /\ n = Len(g)
  BY <1>5, <1>6
<1>8. /\ found \in Seq(S) /\ Len(found) = m + n
      /\ \A i \in 1 .. m + n : found[i] = IF i <= m THEN f[i] ELSE g[i - m]
  <2>1. /\ f \o g \in Seq(S) /\ Len(f \o g) = Len(f) + Len(g)
        /\ \A i \in 1 .. Len(f) + Len(g) : (f \o g)[i] = IF i <= Len(f) THEN f[i] ELSE g[i - Len(f)]
    BY <1>5, <1>6, ConcatProperties, Zenon
  <2> QED
    BY <1>4, <1>7, <2>1
<1>9. PICK l \in 0 .. 2 : l = m + n /\ DOMAIN found = 1 .. l /\ Len(found) = l
  BY <1>7, <1>8, LenProperties
<1>10. ASSUME differ PROVE m + 1 \in 1 .. l /\ found[m + 1] = b
  <2>1. n = 1 /\ g[1] = b
    BY <1>6, <1>7, <1>10
  <2>2. m + 1 \in 1 .. m + n /\ ~(m + 1 <= m) /\ (m + 1) - m = 1
    BY <1>7, <2>1
  <2> QED
    BY <1>8, <1>9, <2>1, <2>2
<1>11. \A i \in 1 .. l : found[i] \in S
  BY <1>8, <1>9, ElementOfSeq
<1>12. CASE found = <<>>
  <2>1. news = <<>> /\ DOMAIN news = 1 .. 0
    BY <1>12
  <2>2. l = 0
    BY <1>9, <1>12
  <2>3. ~differ
    BY <1>10, <2>2
  <2> QED
    BY <2>1, <2>3
<1>13. CASE found # <<>>
  <2>1. news = Append(found, c)
    BY <1>1, <1>13
  <2>2. c \in S
    BY <1>2
  <2>3. /\ news \in Seq(S) /\ Len(news) = l + 1 /\ news[l + 1] = c
        /\ \A i \in 1 .. l : news[i] = found[i]
    BY <1>8, <1>9, <2>1, <2>2, AppendProperties
  <2>4. PICK k \in 0 .. 3 : k = l + 1
    BY <1>9
  <2>5. DOMAIN news = 1 .. k
    BY <2>3, <2>4, LenProperties
  <2>6. \A i \in 1 .. k : news[i] \in S
    <3>1. 1 .. Len(news) = 1 .. k
      BY <2>3, <2>4
    <3> QED
      BY <2>3, <3>1, ElementOfSeq
  <2>7. differ => \E i \in 1 .. k : news[i] = b
    <3> SUFFICES ASSUME differ PROVE \E i \in 1 .. k : news[i] = b
      OBVIOUS
    <3>1. PICK i \in 1 .. l : found[i] = b
      BY <1>10
    <3>2. i \in 1 .. k
      BY <1>9, <2>4, <3>1
    <3> QED
      BY <2>3, <3>1, <3>2
  <2> QED
    BY <1>1, <1>2, <2>5, <2>6, <2>7
<1> QED
  BY <1>12, <1>13

\* What a log has after a pass, in the room it read.
OntologyEvents == {"ontology.materialized", "ontology.assertion_reconciled", "ontology.extraction.advanced"}
Differing(r) == Reconciled(Projected(r) \ Written(Projected(r), PassEnd(r)), PassEnd(r))

\* It is longer by events of those kinds, about texts the pass read of.
LEMMA ExtractionGrows ==
    ASSUME LogTypeOK, NEW u, NEW r \in Rooms, ExtractOntology(u, r)
    PROVE  /\ UNCHANGED logVars \/ Grows(r)
           /\ Len(log[r]) \in Nat /\ Len(log'[r]) \in Nat /\ Len(log[r]) <= Len(log'[r])
           /\ \A n \in Len(log[r]) + 1 .. Len(log'[r]) :
                 /\ log'[r][n].type \in OntologyEvents /\ ~log'[r][n].payload.words
                 /\ log'[r][n].payload.about \subseteq Projected(r)
           /\ \A x \in Differing(r) : \E n \in Len(log[r]) + 1 .. Len(log'[r]) :
                 log'[r][n].type = "ontology.assertion_reconciled" /\ x \in log'[r][n].payload.about
<1>1. PICK to, xs, written : to = PassEnd(r) /\ xs = Projected(r) /\ written = Written(xs, to)
  OBVIOUS
<1>2. PICK ys : ys = Reconciled(xs \ written, to)
  OBVIOUS
<1>3. xs \subseteq Texts /\ ys \subseteq xs /\ ys = Differing(r)
  BY <1>1, <1>2 DEF Projected, Reconciled, Differing
<1>4. PICK found : found = (IF written # {} THEN <<MadeBy(xs)>> ELSE <<>>)
                           \o (IF ys # {} THEN <<FoundBy(ys)>> ELSE <<>>)
  OBVIOUS
<1>5. PICK news : news = IF found = <<>> THEN <<>> ELSE Append(found, EndOfPass)
  OBVIOUS
<1>6. Events(r, [n \in DOMAIN news |-> news[n][1]], u, [n \in DOMAIN news |-> news[n][2]])
  BY <1>1, <1>2, <1>4, <1>5 DEF ExtractOntology, MadeBy, FoundBy, EndOfPass
<1>7. \E k \in 0 .. 3 :
          /\ DOMAIN news = 1 .. k
          /\ \A n \in 1 .. k : news[n] \in {MadeBy(xs), FoundBy(ys), EndOfPass}
          /\ ys # {} => \E n \in 1 .. k : news[n] = FoundBy(ys)
  <2>1. PICK made \in BOOLEAN, differ \in BOOLEAN : (made <=> written # {}) /\ (differ <=> ys # {})
    OBVIOUS
  <2>2. found = (IF made THEN <<MadeBy(xs)>> ELSE <<>>) \o (IF differ THEN <<FoundBy(ys)>> ELSE <<>>)
    BY <1>4, <2>1
  <2>3. \E k \in 0 .. 3 :
            /\ DOMAIN news = 1 .. k
            /\ \A n \in 1 .. k : news[n] \in {MadeBy(xs), FoundBy(ys), EndOfPass}
            /\ differ => \E n \in 1 .. k : news[n] = FoundBy(ys)
    BY <1>5, <2>2, NewsOf
  <2> QED
    BY <2>1, <2>3
<1>8. PICK k \in 0 .. 3 :
          /\ DOMAIN news = 1 .. k
          /\ \A n \in 1 .. k : news[n] \in {MadeBy(xs), FoundBy(ys), EndOfPass}
          /\ ys # {} => \E n \in 1 .. k : news[n] = FoundBy(ys)
  BY <1>7
<1>9. PICK types, abouts : types = [n \in 1 .. k |-> news[n][1]] /\ abouts = [n \in 1 .. k |-> news[n][2]]
  OBVIOUS
<1>10. Events(r, types, u, abouts) /\ Len(types) = k
  <2>1. Events(r, types, u, abouts)
    BY <1>6, <1>8, <1>9
  <2>2. Len(types) = k
    BY <1>9
  <2> QED
    BY <2>1, <2>2
<1>11. \A n \in 1 .. k : types[n] \in OntologyEvents /\ abouts[n] \subseteq xs
  BY <1>3, <1>8, <1>9 DEF OntologyEvents, MadeBy, FoundBy, EndOfPass
<1>12. ys # {} => \E n \in 1 .. k : types[n] = "ontology.assertion_reconciled" /\ abouts[n] = ys
  BY <1>8, <1>9 DEF FoundBy
<1>13. \A n \in 1 .. k : abouts[n] \in SUBSET Texts
  BY <1>3, <1>11
<1>14. PICK m \in Nat : m = Len(log[r])
  BY LineFacts DEF LogTypeOK
<1>15. /\ Grows(r) \/ UNCHANGED logVars
       /\ Len(log'[r]) = m + k
       /\ \A n \in 1 .. k : RowSays(log'[r][m + n], types[n], u, abouts[n])
  <2>1. /\ Grows(r) \/ UNCHANGED logVars
        /\ Len(log'[r]) = Len(log[r]) + k
        /\ \A n \in 1 .. k : RowSays(log'[r][Len(log[r]) + n], types[n], u, abouts[n])
    BY <1>8, <1>10, <1>13, EventsGrow
  <2> QED
    BY <1>14, <2>1
<1>16. \A n \in 1 .. k : /\ log'[r][m + n].type = types[n] /\ ~log'[r][m + n].payload.words
                         /\ log'[r][m + n].payload.about = abouts[n]
  <2> SUFFICES ASSUME NEW n \in 1 .. k
               PROVE  /\ log'[r][m + n].type = types[n] /\ ~log'[r][m + n].payload.words
                      /\ log'[r][m + n].payload.about = abouts[n]
    OBVIOUS
  <2>1. PICK row : row = log'[r][m + n]
    OBVIOUS
  <2>2. RowSays(row, types[n], u, abouts[n])
    BY <1>15, <2>1
  <2>3. row.type = types[n] /\ ~row.payload.words /\ row.payload.about = abouts[n]
    BY <2>2 DEF RowSays, Payload
  <2> QED
    BY <2>1, <2>3
<1>17. \A i \in m + 1 .. m + k : i - m \in 1 .. k /\ i = m + (i - m)
  BY <1>14
<1>18. \A n \in 1 .. k : m + n \in m + 1 .. m + k
  BY <1>14
<1>19. ASSUME NEW i \in m + 1 .. m + k
       PROVE  /\ log'[r][i].type \in OntologyEvents /\ ~log'[r][i].payload.words
              /\ log'[r][i].payload.about \subseteq xs
  <2>1. PICK n \in 1 .. k : i = m + n
    BY <1>17
  <2> QED
    BY <1>11, <1>16, <2>1
<1>20. ASSUME NEW x \in ys
       PROVE  \E i \in m + 1 .. m + k :
                 log'[r][i].type = "ontology.assertion_reconciled" /\ x \in log'[r][i].payload.about
  <2>1. PICK n \in 1 .. k : types[n] = "ontology.assertion_reconciled" /\ abouts[n] = ys
    BY <1>12
  <2> QED
    BY <1>16, <1>18, <2>1
<1>21. m + k \in Nat /\ m <= m + k
  BY <1>14
<1> QED
  BY <1>1, <1>3, <1>14, <1>15, <1>19, <1>20, <1>21

\* A review appends one event about the assertion's text.
LEMMA ReviewGrows ==
    ASSUME LogTypeOK, RecTypeOK, NEW u, NEW x \in Texts, Authored(x), NEW account, NEW type, Reviews(u, x, account, type)
    PROVE  /\ Grows(typed[x].room) /\ Len(log'[typed[x].room]) = Len(log[typed[x].room]) + 1
           /\ LET new == log'[typed[x].room][Len(log[typed[x].room]) + 1] IN
              new.type = type /\ new.actor = u /\ new.payload = Payload({x}, FALSE, {})
<1>1. Event(typed[x].room, type, u, {x}, FALSE)
  BY DEF Reviews
<1>2. PICK r \in Rooms : r = typed[x].room
  BY DEF RecTypeOK, TypedRows, Authored
<1>3. PICK xs \in SUBSET Texts, words \in BOOLEAN : xs = {x} /\ words = FALSE
  OBVIOUS
<1>4. Event(r, type, u, xs, words)
  BY <1>1, <1>2, <1>3
<1>5. /\ Grows(r) /\ Len(log'[r]) = Len(log[r]) + 1
      /\ LET new == log'[r][Len(log[r]) + 1] IN
         new.type = type /\ new.actor = u /\ new.payload = Payload(xs, words, {})
  BY <1>4, EventGrows
<1> QED
  BY <1>2, <1>3, <1>5

-----------------------------------------------------------------------------
(* What the rows, the log and an erasure's list say of each other.             *)

\* A task or decision has its event, and shows its title until that is blanked.
RowShown(x) ==
    /\ Authored(x) /\ typed[x].seq > 0
    /\ EventOf(x).type = (IF IsTask(x) THEN "task.created" ELSE "decision.created")
    /\ ~Gone(x) => <<x, IF IsTask(x) THEN "tasks" ELSE "decisions">> \in held
RowsShown == \A x \in Texts : IsTask(x) \/ IsDecision(x) => RowShown(x)

\* An event is about texts of its room, and carries words only of the text it recorded.
AboutHere ==
    \A r \in Rooms : \A n \in 1 .. Len(log[r]) : \A x \in log[r][n].payload.about :
        /\ Authored(x) /\ typed[x].room = r
        /\ CarriesPersonal(log[r][n]) => typed[x].seq = n

\* What an erasure listed as personal carries words, or has been blanked.
ListedWords ==
    \A o \in Operators : \A w \in erasures[o].rows :
        w.personal => log[w.room][w.seq].payload.marker \/ CarriesPersonal(log[w.room][w.seq])
EraseStages == {"idle", "rooms", "attachments", "branch_syntheses", "branches", "memories", "approvals", "user",
           "done"}
StagesTyped == \A o \in Operators : erasures[o].at \in EraseStages
ShownInv ==
    /\ RowsShown /\ AboutHere /\ ListedWords /\ StagesTyped /\ status \in [Texts -> Statuses]

(* How a step moves them.                                                      *)
RowsTell ==
    \A s \in Rooms : \A n \in 1 .. Len(log[s]) :
        log'[s][n] = log[s][n] \/ \A x \in log[s][n].payload.about : Gone(x)'
NewTells(s, n) ==
    \A x \in log[s][n].payload.about :
        Authored(x) /\ typed[x].room = s /\ (CarriesPersonal(log[s][n]) => typed[x].seq = n)
NewRowsTell == \A s \in Rooms : \A n \in Len(log[s]) + 1 .. Len(log'[s]) : NewTells(s, n)'
TextsKept == \A x \in Texts : Authored(x) => typed'[x] = typed[x]
Tells == RowsStay /\ RowsTell /\ NewRowsTell /\ TextsKept

SameClass(x) == (IsTask(x)' <=> IsTask(x)) /\ (IsDecision(x)' <=> IsDecision(x))
SaysMove(x) ==
    \E n \in Len(log[typed[x].room]) + 1 .. Len(log'[typed[x].room]) :
        log'[typed[x].room][n].type \in ClassOf(x) /\ x \in log'[typed[x].room][n].payload.about
Turns(x) ==
    status'[x] # status[x] =>
        \/ ~Authored(x) /\ RowShown(x)'
        \/ Authored(x) /\ SameClass(x) /\ SaysMove(x)
HeldKept ==
    \A x \in Texts : ~Gone(x)' => \A t \in {"tasks", "decisions"} : <<x, t>> \in held => <<x, t>> \in held'
StepTells ==
    /\ Tells /\ HeldKept /\ \A x \in Texts : Turns(x)
    /\ ListedWords' /\ StagesTyped' /\ status' \in [Texts -> Statuses]

\* A blanked row is about nothing and names nothing.
LEMMA MarkerFacts == Marker.marker /\ Marker.about = {} /\ Marker.names = {}
BY DEF Marker

\* An event stays about texts of its room.
LEMMA AboutKeeps ==
    ASSUME LogTypeOK, AboutHere, Tells
    PROVE  AboutHere'
<1> SUFFICES ASSUME NEW s \in Rooms, NEW n \in 1 .. Len(log'[s]), NEW x \in log'[s][n].payload.about
             PROVE  /\ Authored(x)' /\ typed'[x].room = s
                    /\ CarriesPersonal(log[s][n])' => typed'[x].seq = n
  BY DEF AboutHere
<1>1. Len(log[s]) \in Nat /\ Len(log'[s]) \in Nat
  BY DEF Tells, RowsStay
<1>2. CASE n \in Len(log[s]) + 1 .. Len(log'[s])
  BY <1>2 DEF Tells, NewRowsTell, NewTells
<1>3. CASE n \in 1 .. Len(log[s])
  <2>1. /\ log'[s][n].type = log[s][n].type /\ log'[s][n].actor = log[s][n].actor
        /\ log'[s][n].payload \in {log[s][n].payload, Marker}
    BY <1>3 DEF Tells, RowsStay
  <2>2. log'[s][n].payload = log[s][n].payload
    BY <2>1, MarkerFacts
  <2>3. x \in Texts
    BY <1>3, <2>2 DEF LogTypeOK, Payloads
  <2>4. /\ Authored(x) /\ typed[x].room = s /\ (CarriesPersonal(log[s][n]) => typed[x].seq = n)
    BY <1>3, <2>2 DEF AboutHere
  <2>5. typed'[x] = typed[x] /\ Authored(x)'
    BY <2>3, <2>4 DEF Tells, TextsKept, Authored
  <2>6. CarriesPersonal(log[s][n])' => CarriesPersonal(log[s][n])
    BY <2>1, <2>2 DEF CarriesPersonal
  <2> QED
    BY <2>4, <2>5, <2>6
<1> QED
  BY <1>1, <1>2, <1>3

\* A text typed before is where it was; its event keeps its type, and stays blanked.
LEMMA EventsKept ==
    ASSUME RecTypeOK, InTheLog, Tells, NEW x \in Texts, Authored(x)
    PROVE  /\ typed'[x] = typed[x] /\ Authored(x)' /\ typed[x].room \in Rooms /\ typed[x].seq \in Nat
           /\ typed[x].seq > 0 => EventOf(x)'.type = EventOf(x).type
           /\ Gone(x) => Gone(x)'
<1>1. typed'[x] = typed[x] /\ Authored(x)'
  BY DEF Tells, TextsKept, Authored
<1>2. typed[x] \in TypedRows
  BY DEF RecTypeOK, Authored
<1>3. PICK s \in Rooms, n \in Nat : s = typed[x].room /\ n = typed[x].seq
  BY <1>2 DEF TypedRows
<1>4. ASSUME n > 0
      PROVE  EventOf(x)'.type = EventOf(x).type /\ (EventOf(x).payload.marker => EventOf(x)'.payload.marker)
  <2>1. n \in 1 .. Len(log[s])
    BY <1>3, <1>4 DEF InTheLog
  <2>2. log'[s][n].type = log[s][n].type /\ log'[s][n].payload \in {log[s][n].payload, Marker}
    BY <2>1 DEF Tells, RowsStay
  <2> QED
    BY <1>1, <1>3, <2>2, MarkerFacts DEF EventOf
<1> QED
  BY <1>1, <1>3, <1>4 DEF Gone

\* A task or decision keeps its event and, until that is blanked, its title.
LEMMA RowsShownKeep ==
    ASSUME RecTypeOK, InTheLog, RowsShown, StepTells
    PROVE  RowsShown'
<1> SUFFICES ASSUME NEW x \in Texts, IsTask(x)' \/ IsDecision(x)' PROVE RowShown(x)'
  BY DEF RowsShown
<1>1. Turns(x) /\ Tells /\ HeldKept
  BY DEF StepTells
<1>2. CASE Authored(x) /\ SameClass(x)
  <2>1. RowShown(x)
    BY <1>2 DEF RowsShown, SameClass
  <2>2. /\ typed'[x] = typed[x] /\ Authored(x)' /\ typed[x].seq > 0
        /\ EventOf(x)'.type = EventOf(x).type /\ (Gone(x) => Gone(x)')
    BY <1>1, <1>2, <2>1, EventsKept DEF RowShown
  <2>3. EventOf(x)'.type = IF IsTask(x)' THEN "task.created" ELSE "decision.created"
    BY <1>2, <2>1, <2>2 DEF RowShown, SameClass
  <2>4. ~Gone(x)' => <<x, IF IsTask(x)' THEN "tasks" ELSE "decisions">> \in held'
    <3>1. PICK t \in {"tasks", "decisions"} : t = IF IsTask(x) THEN "tasks" ELSE "decisions"
      OBVIOUS
    <3>2. t = IF IsTask(x)' THEN "tasks" ELSE "decisions"
      BY <1>2, <3>1 DEF SameClass
    <3>3. ~Gone(x) => <<x, t>> \in held
      BY <2>1, <3>1 DEF RowShown
    <3>4. ~Gone(x)' => <<x, t>> \in held'
      BY <1>1, <2>2, <3>3 DEF HeldKept
    <3> QED
      BY <3>2, <3>4
  <2> QED
    BY <2>2, <2>3, <2>4 DEF RowShown
<1>3. CASE status'[x] = status[x]
  <2>1. SameClass(x)
    BY <1>3 DEF SameClass, IsTask, IsDecision
  <2>2. Authored(x)
    BY <2>1 DEF RowsShown, RowShown, SameClass
  <2> QED
    BY <1>2, <2>1, <2>2
<1> QED
  BY <1>1, <1>2, <1>3 DEF Turns

\* All a step does to them keeps what is said of them.
LEMMA ShownKeeps ==
    ASSUME LogTypeOK, RecInv, ShownInv, StepTells
    PROVE  ShownInv'
<1>1. RecTypeOK /\ InTheLog /\ RowsShown /\ AboutHere /\ Tells
  BY DEF RecInv, ShownInv, StepTells
<1>2. RowsShown' /\ AboutHere'
  BY <1>1, RowsShownKeep, AboutKeeps
<1> QED
  BY <1>2 DEF ShownInv, StepTells

\* A log that grows, by rows of its room.
LEMMA GrowTells ==
    ASSUME LogTypeOK, NEW r \in Rooms, Grows(r), TextsKept,
           \A n \in Len(log[r]) + 1 .. Len(log'[r]) : NewTells(r, n)'
    PROVE  Tells
<1>1. RowsStay /\ \A s \in Rooms : \A n \in 1 .. Len(log[s]) : log'[s][n] = log[s][n]
  BY OldRowsSame
<1>2. RowsTell
  BY <1>1 DEF RowsTell
<1>3. ASSUME NEW s \in Rooms, NEW n \in Len(log[s]) + 1 .. Len(log'[s]) PROVE NewTells(s, n)'
  <2>1. CASE s = r
    BY <1>3, <2>1
  <2>2. CASE s # r
    <3>1. Len(log'[s]) = Len(log[s]) /\ Len(log[s]) \in Nat
      BY <1>1, <2>2 DEF Grows, SameElsewhere, RowsStay
    <3> QED
      BY <1>3, <3>1
  <2> QED
    BY <2>1, <2>2
<1> QED
  BY <1>1, <1>2, <1>3 DEF Tells, NewRowsTell

\* Nothing is logged.
LEMMA StillTells ==
    ASSUME LogTypeOK, UNCHANGED log, TextsKept
    PROVE  Tells
<1>1. RowsStay
  BY NothingStays
<1>2. \A s \in Rooms : Len(log[s]) \in Nat
  BY LineFacts DEF LogTypeOK
<1> QED
  BY <1>1, <1>2 DEF Tells, RowsTell, NewRowsTell

\* What an erasure has listed stays as it was listed.
LEMMA ListedWordsKeep ==
    ASSUME Listed, ListedWords, RowsStay,
           \A o \in Operators : \A w \in erasures'[o].rows : w \in erasures[o].rows
    PROVE  ListedWords'
<1> SUFFICES ASSUME NEW o \in Operators, NEW w \in erasures'[o].rows, w.personal
             PROVE  log'[w.room][w.seq].payload.marker \/ CarriesPersonal(log[w.room][w.seq])'
  BY DEF ListedWords
<1>1. PICK s, n : s = w.room /\ n = w.seq
  OBVIOUS
<1>2. s \in Rooms /\ n \in 1 .. Len(log[s]) /\ (log[s][n].payload.marker \/ CarriesPersonal(log[s][n]))
  BY <1>1 DEF Listed, ListedWords
<1>3. /\ log'[s][n].type = log[s][n].type /\ log'[s][n].actor = log[s][n].actor
      /\ log'[s][n].payload \in {log[s][n].payload, Marker}
  BY <1>2 DEF RowsStay
<1> QED
  BY <1>1, <1>2, <1>3, MarkerFacts DEF CarriesPersonal

\* A step that leaves the erasures and the titles alone.
LEMMA PlainTells ==
    ASSUME LogInv, ShownInv, Tells, UNCHANGED erasures, held \subseteq held',
           \A x \in Texts : Turns(x), status' \in [Texts -> Statuses]
    PROVE  StepTells
<1>1. Listed /\ ListedWords /\ StagesTyped /\ RowsStay
  BY DEF LogInv, ShownInv, Tells
<1>2. ListedWords'
  BY <1>1, ListedWordsKeep
<1>3. StagesTyped'
  BY <1>1 DEF StagesTyped
<1>4. HeldKept
  BY DEF HeldKept
<1> QED
  BY <1>2, <1>3, <1>4 DEF StepTells

\* Nothing moves.
LEMMA QuietTurns ==
    ASSUME UNCHANGED status
    PROVE  \A x \in Texts : Turns(x)
BY DEF Turns

\* Nothing is logged, nothing typed, nothing moves.
LEMMA StillStep ==
    ASSUME LogInv, ShownInv, UNCHANGED <<log, typed, held, status, erasures>>
    PROVE  StepTells
<1>1. LogTypeOK /\ TextsKept
  BY DEF LogInv, TextsKept
<1>2. Tells
  BY <1>1, StillTells
<1>3. status' \in [Texts -> Statuses] /\ held \subseteq held'
  BY DEF ShownInv
<1> QED
  BY <1>2, <1>3, PlainTells, QuietTurns

\* One event about the text that the transaction typed.
LEMMA WordTells ==
    ASSUME LogTypeOK, RecTypeOK, NEW u \in Users, NEW r \in Rooms, NEW x \in Texts, NEW tables, NEW type,
           NEW words \in BOOLEAN, Types(u, r, x, tables, counter[r] + 1), Event(r, type, u, {x}, words)
    PROVE  /\ Tells /\ UNCHANGED erasures /\ held' = held \cup ({x} \X tables)
           /\ ~Authored(x) /\ Authored(x)' /\ typed'[x].seq > 0 /\ EventOf(x)'.type = type
<1>1. /\ ~Authored(x) /\ typed' = [typed EXCEPT ![x] = [by |-> u, room |-> r, seq |-> counter[r] + 1]]
      /\ held' = held \cup ({x} \X tables) /\ UNCHANGED erasures
  BY DEF Types
<1>2. /\ Grows(r) /\ Len(log'[r]) = Len(log[r]) + 1
      /\ LET new == log'[r][Len(log[r]) + 1] IN
         new.type = type /\ new.actor = u /\ new.payload = Payload({x}, words, {})
  BY EventGrows
<1>3. PICK k \in Nat : k = counter[r] + 1 /\ k = Len(log[r]) + 1 /\ k = Len(log'[r]) /\ k > 0
  BY <1>2, LineFacts DEF LogTypeOK
<1>4. PICK row \in TypedRows : row = [by |-> u, room |-> r, seq |-> k]
  BY DEF TypedRows
<1>5. row.by = u /\ row.room = r /\ row.seq = k /\ row # Nobody
  BY <1>4, RecordsAssumption DEF TypedRows
<1>6. typed'[x] = row /\ \A y \in Texts \ {x} : typed'[y] = typed[y]
  BY <1>1, <1>3, <1>4 DEF RecTypeOK
<1>7. TextsKept
  BY <1>1, <1>6 DEF TextsKept
<1>8. log'[r][k].type = type /\ log'[r][k].payload.about = {x}
  BY <1>2, <1>3 DEF Payload
<1>9. Authored(x)' /\ typed'[x].seq > 0 /\ EventOf(x)'.type = type
  BY <1>3, <1>5, <1>6, <1>8 DEF Authored, EventOf
<1>10. \A n \in Len(log[r]) + 1 .. Len(log'[r]) : NewTells(r, n)'
  <2>1. \A n \in Len(log[r]) + 1 .. Len(log'[r]) : n = k
    BY <1>3
  <2>2. NewTells(r, k)'
    BY <1>5, <1>6, <1>8, <1>9 DEF NewTells
  <2> QED
    BY <2>1, <2>2
<1>11. Tells
  BY <1>2, <1>7, <1>10, GrowTells
<1> QED
  BY <1>1, <1>9, <1>11

\* A text that no event carries, told by an event about nothing or by none.
LEMMA SilentTells ==
    ASSUME LogTypeOK, RecTypeOK, NEW u \in Users, NEW r \in Rooms, NEW x \in Texts, ~Authored(x), NEW row,
           typed' = [typed EXCEPT ![x] = row],
           UNCHANGED logVars \/ \E type : Event(r, type, u, {}, FALSE)
    PROVE  Tells
<1>1. TextsKept
  BY DEF TextsKept, RecTypeOK
<1>2. CASE UNCHANGED logVars
  BY <1>1, <1>2, StillTells DEF logVars
<1>3. ASSUME NEW type, Event(r, type, u, {}, FALSE) PROVE Tells
  <2>1. PICK none \in SUBSET Texts, words \in BOOLEAN : none = {} /\ words = FALSE
    OBVIOUS
  <2>2. Event(r, type, u, none, words)
    BY <1>3, <2>1
  <2>3. /\ Grows(r) /\ Len(log'[r]) = Len(log[r]) + 1
        /\ LET new == log'[r][Len(log[r]) + 1] IN
           new.type = type /\ new.actor = u /\ new.payload = Payload(none, words, {})
    BY <2>2, EventGrows
  <2>4. PICK k \in Nat : k = Len(log[r]) + 1 /\ k = Len(log'[r])
    BY <2>3, LineFacts DEF LogTypeOK
  <2>5. log'[r][k].payload.about = {}
    BY <2>1, <2>3, <2>4 DEF Payload
  <2>6. \A n \in Len(log[r]) + 1 .. Len(log'[r]) : NewTells(r, n)'
    <3>1. \A n \in Len(log[r]) + 1 .. Len(log'[r]) : n = k
      BY <2>4
    <3>2. NewTells(r, k)'
      BY <2>5 DEF NewTells
    <3> QED
      BY <3>1, <3>2
  <2> QED
    BY <1>1, <2>3, <2>6, GrowTells
<1> QED
  BY <1>2, <1>3

\* Whoever types a task or a decision gives it its row and its title.
LEMMA AuthorTells ==
    ASSUME LogInv, RecInv, ShownInv, NEW u \in Users, NEW r \in Rooms, NEW x \in Texts, Author(u, r, x)
    PROVE  StepTells
<1>1. LogTypeOK /\ RecTypeOK /\ status \in [Texts -> Statuses]
  BY DEF LogInv, RecInv, ShownInv
<1>a. ASSUME NEW tables, NEW type, NEW words \in BOOLEAN,
             Types(u, r, x, tables, counter[r] + 1), Event(r, type, u, {x}, words), UNCHANGED status
      PROVE  StepTells
  <2>0. /\ Tells /\ UNCHANGED erasures /\ held' = held \cup ({x} \X tables)
        /\ ~Authored(x) /\ Authored(x)' /\ typed'[x].seq > 0 /\ EventOf(x)'.type = type
    BY <1>a, <1>1, WordTells
  <2>1. held \subseteq held'
    BY <2>0
  <2> QED
    BY <1>a, <1>1, <2>0, <2>1, PlainTells, QuietTurns
<1>b. ASSUME NEW tables, Types(u, r, x, tables, 0), UNCHANGED logVars \/ \E type : Event(r, type, u, {}, FALSE),
             UNCHANGED status
      PROVE  StepTells
  <2>1. /\ ~Authored(x) /\ typed' = [typed EXCEPT ![x] = [by |-> u, room |-> r, seq |-> 0]]
        /\ held \subseteq held' /\ UNCHANGED erasures
    BY <1>b DEF Types
  <2>2. Tells
    BY <1>b, <1>1, <2>1, SilentTells
  <2> QED
    BY <1>b, <1>1, <2>1, <2>2, PlainTells, QuietTurns
<1>c. ASSUME NEW tables, NEW type, NEW to \in Statuses,
             Types(u, r, x, tables, counter[r] + 1), Event(r, type, u, {x}, TRUE),
             status' = [status EXCEPT ![x] = to],
             \/ to \in DOMAIN TaskMoves /\ type = "task.created" /\ "tasks" \in tables
             \/ to \in DOMAIN DecisionMoves /\ type = "decision.created" /\ "decisions" \in tables
      PROVE  StepTells
  <2>0. PICK words \in BOOLEAN : words = TRUE
    OBVIOUS
  <2>1. Event(r, type, u, {x}, words)
    BY <1>c, <2>0
  <2>2. /\ Tells /\ UNCHANGED erasures /\ held' = held \cup ({x} \X tables)
        /\ ~Authored(x) /\ Authored(x)' /\ typed'[x].seq > 0 /\ EventOf(x)'.type = type
    BY <1>c, <1>1, <2>1, WordTells
  <2>3. status' \in [Texts -> Statuses] /\ status'[x] = to /\ \A y \in Texts \ {x} : status'[y] = status[y]
    BY <1>c, <1>1
  <2>4. RowShown(x)'
    <3>1. CASE to \in DOMAIN TaskMoves /\ type = "task.created" /\ "tasks" \in tables
      <4>1. IsTask(x)' /\ <<x, "tasks">> \in held'
        BY <2>2, <2>3, <3>1 DEF IsTask
      <4> QED
        BY <2>2, <3>1, <4>1 DEF RowShown
    <3>2. CASE to \in DOMAIN DecisionMoves /\ type = "decision.created" /\ "decisions" \in tables
      <4>1. ~IsTask(x)' /\ <<x, "decisions">> \in held'
        BY <2>2, <2>3, <3>2 DEF IsTask, TaskMoves, DecisionMoves
      <4> QED
        BY <2>2, <3>2, <4>1 DEF RowShown
    <3> QED
      BY <1>c, <3>1, <3>2
  <2>5. \A y \in Texts : Turns(y)
    BY <2>2, <2>3, <2>4 DEF Turns
  <2>6. held \subseteq held'
    BY <2>2
  <2> QED
    BY <2>2, <2>3, <2>5, <2>6, PlainTells
<1>2. CASE SendMessage(u, r, x)
  BY <1>a, <1>2 DEF SendMessage, Typed
<1>3. CASE CreateTask(u, r, x)
  <2>1. "created" \in DOMAIN TaskMoves /\ "created" \in Statuses
    BY DEF TaskMoves, Statuses
  <2>2. /\ Types(u, r, x, {"tasks", "search_documents"}, counter[r] + 1)
        /\ Event(r, "task.created", u, {x}, TRUE) /\ status' = [status EXCEPT ![x] = "created"]
    BY <1>3 DEF CreateTask, Typed
  <2>3. "tasks" \in {"tasks", "search_documents"}
    OBVIOUS
  <2> QED
    BY <1>c, <2>1, <2>2, <2>3
<1>4. CASE CreateDecision(u, r, x)
  <2>1. "proposed" \in DOMAIN DecisionMoves /\ "proposed" \in Statuses
    BY DEF DecisionMoves, Statuses
  <2>2. /\ Types(u, r, x, {"decisions", "search_documents"}, counter[r] + 1)
        /\ Event(r, "decision.created", u, {x}, TRUE) /\ status' = [status EXCEPT ![x] = "proposed"]
    BY <1>4 DEF CreateDecision, Typed
  <2>3. "decisions" \in {"decisions", "search_documents"}
    OBVIOUS
  <2> QED
    BY <1>c, <2>1, <2>2, <2>3
<1>5. CASE CreateArtifact(u, r, x)
  BY <1>a, <1>5 DEF CreateArtifact, Typed
<1>6. CASE CreateRoom(u, r, x)
  BY <1>a, <1>6 DEF CreateRoom, Typed
<1>7. CASE Intervene(u, r, x)
  BY <1>a, <1>7 DEF Intervene, Typed
<1>8. CASE OpenAgentTask(u, r, x)
  BY <1>a, <1>8 DEF OpenAgentTask
<1>9. CASE UploadAttachment(u, r, x)
  BY <1>b, <1>9 DEF UploadAttachment
<1>10. CASE CreateMemory(u, r, x)
  BY <1>b, <1>10 DEF CreateMemory
<1>11. CASE ReviewApproval(u, r, x)
  BY <1>b, <1>11 DEF ReviewApproval
<1>12. CASE StartSynthesis(u, r, x)
  BY <1>b, <1>12 DEF StartSynthesis
<1>13. CASE StartBranch(u, r, x)
  <2>1. /\ ~Authored(x) /\ typed' = [typed EXCEPT ![x] = [by |-> u, room |-> r, seq |-> 0]]
        /\ held \subseteq held' /\ UNCHANGED <<erasures, status>> /\ Event(r, "branch.started", u, {}, FALSE)
    BY <1>13 DEF StartBranch
  <2>2. Tells
    BY <1>1, <2>1, SilentTells
  <2> QED
    BY <1>1, <2>1, <2>2, PlainTells, QuietTurns
<1> QED
  BY <1>2, <1>3, <1>4, <1>5, <1>6, <1>7, <1>8, <1>9, <1>10, <1>11, <1>12, <1>13 DEF Author

\* Every move of a task or a decision has its event, about it and of its class.
LEMMA MoveTells ==
    ASSUME LogInv, RecInv, ShownInv, NEW u \in Users, NEW x \in Texts, Move(u, x)
    PROVE  StepTells
<1>1. LogTypeOK /\ RecTypeOK /\ status \in [Texts -> Statuses]
  BY DEF LogInv, RecInv, ShownInv
<1>2. ASSUME NEW type, NEW actor, type = "task.delegated" => actor = Agent, type \in ClassOf(x),
             Authored(x), UNCHANGED <<typed, erasures>>, held \subseteq held',
             Event(typed[x].room, type, actor, {x}, FALSE),
             UNCHANGED status \/ (SameClass(x) /\ \E to \in Statuses : status' = [status EXCEPT ![x] = to])
      PROVE  StepTells
  <2>1. PICK r \in Rooms : r = typed[x].room
    BY <1>1, <1>2 DEF RecTypeOK, TypedRows, Authored
  <2>2. PICK words \in BOOLEAN : words = FALSE
    OBVIOUS
  <2>3. Event(r, type, actor, {x}, words)
    BY <1>2, <2>1, <2>2
  <2>4. /\ Grows(r) /\ Len(log'[r]) = Len(log[r]) + 1
        /\ LET new == log'[r][Len(log[r]) + 1] IN
           new.type = type /\ new.actor = actor /\ new.payload = Payload({x}, words, {})
    BY <1>1, <2>3, EventGrows
  <2>5. PICK k \in Nat : k = Len(log[r]) + 1 /\ k = Len(log'[r])
    BY <1>1, <2>4, LineFacts DEF LogTypeOK
  <2>6. /\ log'[r][k].type = type /\ log'[r][k].actor = actor
        /\ log'[r][k].payload.about = {x} /\ ~log'[r][k].payload.words
    BY <2>2, <2>4, <2>5 DEF Payload
  <2>7. ~CarriesPersonal(log[r][k])'
    BY <1>2, <2>6 DEF CarriesPersonal
  <2>8. \A n \in Len(log[r]) + 1 .. Len(log'[r]) : NewTells(r, n)'
    <3>1. \A n \in Len(log[r]) + 1 .. Len(log'[r]) : n = k
      BY <2>5
    <3>2. Authored(x)' /\ typed'[x].room = r
      BY <1>2, <2>1 DEF Authored
    <3>3. NewTells(r, k)'
      BY <2>5, <2>6, <2>7, <3>2 DEF NewTells
    <3> QED
      BY <3>1, <3>3
  <2>9. Tells
    BY <1>1, <1>2, <2>4, <2>8, GrowTells DEF TextsKept
  <2>10. SaysMove(x)
    BY <1>2, <2>1, <2>5, <2>6 DEF SaysMove
  <2>11. status' \in [Texts -> Statuses] /\ \A y \in Texts : Turns(y)
    BY <1>1, <1>2, <2>10 DEF Turns
  <2> QED
    BY <1>2, <2>9, <2>11, PlainTells
<1>3. ASSUME NEW to, NEW type \in {"task.assigned", "task.completed", "task.cancelled"}, NEW actor,
             MoveTask(u, x, to, type, actor)
      PROVE  StepTells
  <2>1. /\ Authored(x) /\ status[x] \in DOMAIN TaskMoves /\ to \in TaskMoves[status[x]]
        /\ status' = [status EXCEPT ![x] = to] /\ held \subseteq held' /\ UNCHANGED <<typed, erasures>>
        /\ Event(typed[x].room, type, actor, {x}, FALSE)
    BY <1>3 DEF MoveTask
  <2>2. to \in DOMAIN TaskMoves
    BY <2>1 DEF TaskMoves
  <2>3. to \in Statuses /\ SameClass(x)
    BY <1>1, <2>1, <2>2 DEF Statuses, SameClass, IsTask, IsDecision, TaskMoves, DecisionMoves
  <2>4. type \in ClassOf(x) /\ type # "task.delegated"
    BY <2>1 DEF ClassOf, IsTask, TaskEvents
  <2> QED
    BY <1>2, <2>1, <2>3, <2>4
<1>4. CASE DelegateTask(u, x)
  <2>1. /\ Authored(x) /\ status[x] \in DOMAIN TaskMoves
        /\ held \subseteq held' /\ UNCHANGED <<typed, erasures, status>>
        /\ Event(typed[x].room, "task.delegated", Agent, {x}, FALSE)
    BY <1>4 DEF DelegateTask
  <2>2. "task.delegated" \in ClassOf(x)
    BY <2>1 DEF ClassOf, IsTask, TaskEvents
  <2> QED
    BY <1>2, <2>1, <2>2
<1>5. ASSUME NEW to, UpdateDecision(u, x, to) PROVE StepTells
  <2>1. PICK type \in {"decision.superseded", "decision.updated"} :
            type = IF to = "superseded" THEN "decision.superseded" ELSE "decision.updated"
    OBVIOUS
  <2>2. /\ Authored(x) /\ status[x] \in DOMAIN DecisionMoves /\ to \in DecisionMoves[status[x]]
        /\ status' = [status EXCEPT ![x] = to] /\ held \subseteq held' /\ UNCHANGED <<typed, erasures>>
        /\ Event(typed[x].room, type, u, {x}, FALSE)
    BY <1>5, <2>1 DEF UpdateDecision
  <2>3. to \in DOMAIN DecisionMoves
    BY <2>2 DEF DecisionMoves
  <2>4. to \in Statuses /\ SameClass(x)
    BY <1>1, <2>2, <2>3 DEF Statuses, SameClass, IsTask, IsDecision, TaskMoves, DecisionMoves
  <2>5. type \in ClassOf(x) /\ type # "task.delegated"
    BY <2>1, <2>2 DEF ClassOf, IsTask, DecisionEvents, TaskMoves, DecisionMoves
  <2> QED
    BY <1>2, <2>2, <2>4, <2>5
<1> QED
  BY <1>3, <1>4, <1>5 DEF Move, AssignTask, CompleteTask, CancelTask

\* A step of an erasure that types nothing and logs nothing.
LEMMA ErasureTells ==
    ASSUME LogInv, RecInv, ShownInv, NEW o \in Operators, NEW row, erasures' = [erasures EXCEPT ![o] = row],
           row.at \in EraseStages, UNCHANGED <<log, typed, status>>,
           \A c \in held : c[2] \in {"tasks", "decisions"} => c \in held',
           \A w \in row.rows : w \in erasures[o].rows \/ \E u \in Users : w \in RowsOf(u)
    PROVE  StepTells
<1>1. LogTypeOK /\ RecTypeOK /\ ListedWords /\ StagesTyped /\ status' \in [Texts -> Statuses]
  BY DEF LogInv, RecInv, ShownInv
<1>2. Tells
  BY <1>1, StillTells DEF TextsKept
<1>3. \A x \in Texts : Turns(x)
  BY QuietTurns
<1>4. HeldKept
  BY DEF HeldKept
<1>5. erasures'[o] = row /\ \A p \in Operators \ {o} : erasures'[p] = erasures[p]
  BY <1>1 DEF RecTypeOK
<1>6. StagesTyped'
  BY <1>1, <1>5 DEF StagesTyped
<1>7. ASSUME NEW u \in Users, NEW w \in RowsOf(u), w.personal PROVE CarriesPersonal(log[w.room][w.seq])
  <2>1. PICK r \in Rooms : w \in RowsIn(u, r)
    BY <1>7 DEF RowsOf
  <2>2. PICK n : w = [room |-> r, seq |-> n, personal |-> CarriesPersonal(log[r][n])]
    BY <2>1 DEF RowsIn
  <2>3. w.room = r /\ w.seq = n /\ w.personal = CarriesPersonal(log[r][n])
    BY <2>2
  <2> QED
    BY <1>7, <2>3
<1>8. ASSUME NEW p \in Operators, NEW w \in erasures'[p].rows, w.personal
      PROVE  log[w.room][w.seq].payload.marker \/ CarriesPersonal(log[w.room][w.seq])
  <2>1. CASE w \in erasures[p].rows
    BY <1>1, <1>8, <2>1 DEF ListedWords
  <2>2. CASE w \notin erasures[p].rows
    <3>1. p = o /\ w \in row.rows
      BY <1>5, <1>8, <2>2
    <3>2. \E u \in Users : w \in RowsOf(u)
      BY <2>2, <3>1
    <3> QED
      BY <1>7, <1>8, <3>2
  <2> QED
    BY <2>1, <2>2
<1>9. ListedWords'
  BY <1>8 DEF ListedWords, CarriesPersonal
<1> QED
  BY <1>1, <1>2, <1>3, <1>4, <1>6, <1>9 DEF StepTells

\* What an erasure blanks carries words, of a text that is gone with them.
LEMMA BlankedGone ==
    ASSUME LogInv, RecInv, ShownInv, NEW o \in Operators, NEW r \in Rooms,
           \A n \in Hit(o, r) : RecordOf(r, n) = {}, Blanks(r, Hit(o, r)), UNCHANGED typed,
           NEW n \in Hit(o, r), NEW x \in log[r][n].payload.about
    PROVE  Gone(x)'
<1>1. LogTypeOK /\ RowsKept /\ Listed /\ ListedWords /\ AboutHere
  BY DEF LogInv, ShownInv
<1>2. PICK w \in erasures[o].rows : w.room = r /\ w.personal /\ w.seq = n
  BY DEF Hit
<1>3. n \in 1 .. Len(log[r])
  BY <1>1, HitListed
<1>4. ~log[r][n].payload.marker
  <2> SUFFICES ASSUME log[r][n].payload.marker PROVE FALSE
    OBVIOUS
  <2>1. log[r][n].seq = n /\ Recorded(r, log[r][n])
    BY <1>1, <1>3 DEF RowsKept, RowKept
  <2> QED
    BY <2>1 DEF Recorded, RecordOf
<1>5. CarriesPersonal(log[r][n])
  BY <1>1, <1>2, <1>4 DEF ListedWords
<1>6. Authored(x) /\ typed[x].room = r /\ typed[x].seq = n
  BY <1>1, <1>3, <1>5 DEF AboutHere
<1>7. log'[r][n] = [log[r][n] EXCEPT !.payload = Marker]
  BY <1>3 DEF Blanks
<1>8. IsRow(log[r][n])
  BY <1>1, <1>3 DEF LogTypeOK
<1>9. log'[r][n].payload.marker
  BY <1>7, <1>8, MarkerFacts DEF IsRow
<1> QED
  BY <1>3, <1>6, <1>9 DEF Gone, EventOf, Authored

\* An erasure's transaction blanks events of texts that are then gone.
LEMMA BlanksTell ==
    ASSUME LogInv, RecInv, ShownInv, NEW o \in Operators, NEW r \in Rooms,
           \A n \in Hit(o, r) : RecordOf(r, n) = {}, Blanks(r, Hit(o, r)), UNCHANGED typed
    PROVE  Tells
<1>1. LogTypeOK /\ Listed
  BY DEF LogInv
<1>2. PICK hit : hit = Hit(o, r)
  OBVIOUS
<1>3. RowsStay
  BY <1>1, <1>2, BlanksStay
<1>4. RowsTell
  <2> SUFFICES ASSUME NEW s \in Rooms, NEW n \in 1 .. Len(log[s]), log'[s][n] # log[s][n],
                      NEW x \in log[s][n].payload.about
               PROVE  Gone(x)'
    BY DEF RowsTell
  <2>1. s = r /\ n \in Hit(o, r)
    BY DEF Blanks, SameElsewhere
  <2> QED
    BY <2>1, BlankedGone
<1>5. NewRowsTell
  <2> SUFFICES ASSUME NEW s \in Rooms, NEW n \in Len(log[s]) + 1 .. Len(log'[s]) PROVE NewTells(s, n)'
    BY DEF NewRowsTell
  <2>1. Len(log[s]) \in Nat /\ Len(log'[s]) \in Nat
    BY <1>3 DEF RowsStay
  <2>2. s = r
    BY <2>1 DEF Blanks, SameElsewhere
  <2>3. log'[r][n].payload.about = {}
    BY <2>2 DEF Blanks
  <2> QED
    BY <2>2, <2>3 DEF NewTells
<1> QED
  BY <1>3, <1>4, <1>5 DEF Tells, TextsKept

\* Titles are cleared only with their events.
LEMMA TitlesStay ==
    ASSUME NEW u, NEW r, NEW hit, NEW c, c \in Taken(u, r, hit), c[2] \in {"tasks", "decisions"}
    PROVE  \E n \in hit : c[1] \in log[r][n].payload.about
<1>1. \/ c \in InMessages(r, hit) \/ c \in InTasks(r, hit) \/ c \in InDecisions(r, hit)
      \/ c \in InAgentTasks(r, hit) \/ c \in InRoom(r, hit) \/ c \in InArtifacts(r, hit)
      \/ c \in InSnapshots(r, hit) \/ c \in InNotifications(r) \/ c \in InSteers(u, r)
  BY DEF Taken
<1>2. /\ c \notin InMessages(r, hit) /\ c \notin InAgentTasks(r, hit) /\ c \notin InRoom(r, hit)
      /\ c \notin InArtifacts(r, hit) /\ c \notin InSnapshots(r, hit)
  BY DEF InMessages, InAgentTasks, InRoom, InArtifacts, InSnapshots
<1>3. c \notin InNotifications(r) /\ c \notin InSteers(u, r)
  BY DEF InNotifications, InSteers
<1>4. PICK type : c[1] \in Created(r, hit, type)
  BY <1>1, <1>2, <1>3 DEF InTasks, InDecisions
<1> QED
  BY <1>4 DEF Created, Abouts

\* Every step of an erasure.
LEMMA EraseTells ==
    ASSUME LogInv, RecInv, ShownInv, NEW o \in Operators, EraseNext(o)
    PROVE  StepTells
<1>1. /\ LogTypeOK /\ Listed /\ RecTypeOK /\ ListedWords /\ StagesTyped /\ erasures[o].at \in EraseStages
      /\ status \in [Texts -> Statuses]
  BY DEF LogInv, RecInv, ShownInv, StagesTyped
<1>2. ASSUME NEW u \in Users, BeginErasure(o, u) PROVE StepTells
  <2>1. PICK row : row = [at |-> "rooms", user |-> u, rows |-> RowsOf(u),
                          known |-> { x \in Texts : Authored(x) /\ typed[x].by = u }, todo |-> {}]
    OBVIOUS
  <2>2. erasures' = [erasures EXCEPT ![o] = row] /\ UNCHANGED <<log, typed, held, status>>
    BY <1>2, <2>1 DEF BeginErasure, logVars
  <2>3. row.at \in EraseStages /\ row.rows = RowsOf(u)
    BY <2>1 DEF EraseStages
  <2> QED
    BY <2>2, <2>3, ErasureTells
<1>3. ASSUME erasures' = [erasures EXCEPT ![o] = IdleErasure], UNCHANGED <<log, typed, held, status>>
      PROVE  StepTells
  <2>1. IdleErasure.at \in EraseStages /\ IdleErasure.rows = {}
    BY DEF IdleErasure, EraseStages
  <2> QED
    BY <1>3, <2>1, ErasureTells
<1>4. ASSUME NEW to \in EraseStages, NEW rest,
             erasures' = [erasures EXCEPT ![o] = [[erasures[o] EXCEPT !.at = to] EXCEPT !.todo = rest]],
             UNCHANGED <<log, typed, status>>, \A c \in held : c[2] \in {"tasks", "decisions"} => c \in held'
      PROVE  StepTells
  <2>1. PICK row : row = [[erasures[o] EXCEPT !.at = to] EXCEPT !.todo = rest]
    OBVIOUS
  <2>2. row.at = to /\ row.rows = erasures[o].rows
    BY <1>1, <2>1 DEF RecTypeOK
  <2> QED
    BY <1>4, <2>1, <2>2, ErasureTells
<1>5. CASE NextTable(o)
  <2>1. PICK to, rest : to = AfterStage(erasures[o].at) /\ rest = TextsIn(erasures[o].user, to)
    OBVIOUS
  <2>2. /\ erasures[o].at \notin {"idle", "user", "done"} /\ UNCHANGED <<log, typed, held, status>>
        /\ erasures' = [erasures EXCEPT ![o] = [[erasures[o] EXCEPT !.at = to] EXCEPT !.todo = rest]]
    BY <1>5, <2>1 DEF NextTable, logVars
  <2>3. erasures[o].at \in {"rooms", "attachments", "branch_syntheses", "branches", "memories", "approvals"}
    BY <1>1, <2>2 DEF EraseStages
  <2>4. to \in EraseStages
    BY <2>1, <2>3, Stages DEF EraseStages
  <2> QED
    BY <1>4, <2>2, <2>4
<1>6. ASSUME NEW x \in Texts, SweepRow(o, x) PROVE StepTells
  <2>1. PICK at, rest : at = erasures[o].at /\ rest = erasures[o].todo \ {x}
    OBVIOUS
  <2>2. /\ UNCHANGED <<log, typed, status>> /\ held' = held \ ({x} \X AlsoSwept(at))
        /\ erasures' = [erasures EXCEPT ![o] = [erasures[o] EXCEPT !.todo = rest]]
    BY <1>1, <1>6, <2>1 DEF SweepRow, logVars, RecTypeOK
  <2>3. erasures' = [erasures EXCEPT ![o] = [[erasures[o] EXCEPT !.at = at] EXCEPT !.todo = rest]]
    BY <1>1, <2>1, <2>2, ErasureRow
  <2>4. "tasks" \notin AlsoSwept(at) /\ "decisions" \notin AlsoSwept(at)
    BY <1>1, <2>1 DEF AlsoSwept, EraseStages
  <2>5. \A c \in held : c[2] \in {"tasks", "decisions"} => c \in held'
    BY <2>2, <2>4
  <2> QED
    BY <1>1, <1>4, <2>1, <2>2, <2>3, <2>5
<1>7. CASE Tombstone(o)
  <2>1. PICK rest : rest = erasures[o].todo
    OBVIOUS
  <2>2. /\ UNCHANGED <<log, typed, held, status>>
        /\ erasures' = [erasures EXCEPT ![o] = [[erasures[o] EXCEPT !.at = "done"] EXCEPT !.todo = rest]]
    BY <1>1, <1>7, <2>1, ErasureRow DEF Tombstone, logVars, RecTypeOK
  <2>3. "done" \in EraseStages
    BY DEF EraseStages
  <2> QED
    BY <1>4, <2>2, <2>3
<1>8. CASE CrashErasure(o)
  BY <1>3, <1>8 DEF CrashErasure, logVars
<1>9. ASSUME NEW r \in Rooms, EraseRoom(o, r) PROVE StepTells
  <2>1. /\ UNCHANGED <<typed, status, child, signedIn, pending, begun>>
        /\ \/ erasures' = [erasures EXCEPT ![o] = IdleErasure] /\ UNCHANGED <<held, logVars>>
           \/ /\ erasures[o].at = "rooms"
              /\ \A n \in Hit(o, r) : RecordOf(r, n) = {}
              /\ erasures' = [erasures EXCEPT ![o] =
                     [erasures[o] EXCEPT !.rows = erasures[o].rows \ { w \in erasures[o].rows : w.room = r }]]
              /\ held' = held \ Taken(erasures[o].user, r, Hit(o, r))
              /\ \/ Hit(o, r) = {} /\ UNCHANGED logVars
                 \/ Blanks(r, Hit(o, r))
    BY <1>1, <1>9, RoomErased
  <2>2. CASE erasures' = [erasures EXCEPT ![o] = IdleErasure] /\ UNCHANGED <<held, logVars>>
    BY <1>3, <2>1, <2>2 DEF logVars
  <2>3. CASE /\ \A n \in Hit(o, r) : RecordOf(r, n) = {}
             /\ erasures' = [erasures EXCEPT ![o] =
                    [erasures[o] EXCEPT !.rows = erasures[o].rows \ { w \in erasures[o].rows : w.room = r }]]
             /\ held' = held \ Taken(erasures[o].user, r, Hit(o, r))
             /\ (Hit(o, r) = {} /\ UNCHANGED logVars) \/ Blanks(r, Hit(o, r))
    <3>2. Tells
      <4>1. CASE Blanks(r, Hit(o, r))
        BY <2>1, <2>3, <4>1, BlanksTell
      <4>2. CASE UNCHANGED logVars
        BY <1>1, <2>1, <4>2, StillTells DEF logVars, TextsKept
      <4> QED
        BY <2>3, <4>1, <4>2
    <3>3. HeldKept
      <4> SUFFICES ASSUME NEW x \in Texts, ~Gone(x)', NEW t \in {"tasks", "decisions"}, <<x, t>> \in held,
                          <<x, t>> \notin held'
                   PROVE  FALSE
        BY DEF HeldKept
      <4>1. PICK c : c = <<x, t>> /\ c[1] = x /\ c[2] = t
        OBVIOUS
      <4>2. c \in Taken(erasures[o].user, r, Hit(o, r))
        BY <2>3, <4>1
      <4>3. PICK n \in Hit(o, r) : x \in log[r][n].payload.about
        BY <4>1, <4>2, TitlesStay
      <4>4. Blanks(r, Hit(o, r))
        BY <2>3, <4>3
      <4> QED
        BY <2>1, <2>3, <4>3, <4>4, BlankedGone
    <3>4. PICK row : row = [erasures[o] EXCEPT !.rows = erasures[o].rows \ { w \in erasures[o].rows : w.room = r }]
      OBVIOUS
    <3>5. row.at = erasures[o].at /\ row.rows \subseteq erasures[o].rows
      BY <1>1, <3>4 DEF RecTypeOK
    <3>6. erasures'[o] = row /\ \A p \in Operators \ {o} : erasures'[p] = erasures[p]
      BY <1>1, <2>3, <3>4 DEF RecTypeOK
    <3>7. \A p \in Operators : \A w \in erasures'[p].rows : w \in erasures[p].rows
      BY <3>5, <3>6
    <3>8. ListedWords'
      BY <1>1, <3>2, <3>7, ListedWordsKeep DEF Tells
    <3>9. StagesTyped'
      BY <1>1, <3>5, <3>6 DEF StagesTyped
    <3>10. (\A x \in Texts : Turns(x)) /\ status' \in [Texts -> Statuses]
      BY <1>1, <2>1, QuietTurns
    <3> QED
      BY <3>2, <3>3, <3>8, <3>9, <3>10 DEF StepTells
  <2> QED
    BY <2>1, <2>2, <2>3
<1> QED
  BY <1>2, <1>5, <1>6, <1>7, <1>8, <1>9 DEF EraseNext

\* Every step of the service but the ontology's.
LEMMA NextTells ==
    ASSUME LogInv, RecInv, ShownInv, [Next]_vars
    PROVE  StepTells
<1>1. ASSUME NEW u \in Users, Request(u) PROVE StepTells
  BY <1>1, StillStep DEF Request
<1>2. CASE AuditNext /\ UNCHANGED recVars
  BY <1>2, StillStep DEF AuditNext, recVars, logVars
<1>3. CASE UNCHANGED vars
  BY <1>3, StillStep DEF vars
<1> QED
  BY <1>1, <1>2, <1>3, AuthorTells, MoveTells, EraseTells DEF Next
-----------------------------------------------------------------------------
(* What the assertions say.                                                    *)
OntTyped ==
    /\ shown \in [Texts -> Assertions \cup {NoAssertion}]
    /\ reached \in [Rooms -> Nat] /\ \A r \in Rooms : reached[r] <= Len(log[r])
    /\ DOMAIN reviews = Texts /\ \A x \in Texts : IsLine(reviews[x])

\* An assertion is of a row, made by a pass that has been, and says what was last reviewed.
Asserted ==
    \A x \in Texts :
        /\ shown[x] = NoAssertion => reviews[x] = <<>>
        /\ shown[x] # NoAssertion =>
              /\ IsTask(x) \/ IsDecision(x)
              /\ shown[x].at <= reached[typed[x].room]
              /\ shown[x].reviewed <=> reviews[x] # <<>>
              /\ shown[x].reviewed => shown[x].account = reviews[x][Len(reviews[x])]

\* Where no pass has been past an event of its row, an assertion may wait.  Otherwise it is
\* there, says what the row says, or is reviewed and its difference told.
Awaited(x) == \E n \in Happened(x) : n > reached[typed[x].room]
Follows(x) ==
    /\ shown[x] = NoAssertion => \A n \in Happened(x) : n > reached[typed[x].room]
    /\ shown[x] # NoAssertion /\ shown[x].account # RowAccount(x) =>
          \/ Awaited(x)
          \/ /\ shown[x].reviewed
             /\ \A n \in Happened(x) : (\A k \in Told(x, ReviewEvents) : k < n) =>
                    \E m \in Told(x, {"ontology.assertion_reconciled"}) : m > n
Following == \A x \in Texts : (IsTask(x) \/ IsDecision(x)) /\ ~Gone(x) => Follows(x)
OntInv == ShownInv /\ OntTyped /\ Asserted /\ Following

\* What the log tells of a text that is not gone, it goes on telling.
LEMMA ToldStays ==
    ASSUME LogTypeOK, LogTypeOK', RecTypeOK, InTheLog, Tells, NEW x \in Texts, Authored(x), ~Gone(x)', NEW types
    PROVE  /\ Told(x, types) \subseteq 1 .. Len(log[typed[x].room])
           /\ Told(x, types)' \subseteq 1 .. Len(log'[typed[x].room])
           /\ \A n \in 1 .. Len(log[typed[x].room]) : n \in Told(x, types)' <=> n \in Told(x, types)
<1>1. PICK s \in Rooms : s = typed[x].room /\ s = typed'[x].room
  BY EventsKept
<1>2. counter[s] = Len(log[s]) /\ counter'[s] = Len(log'[s])
  BY DEF LogTypeOK
<1>3. ASSUME NEW n \in 1 .. Len(log[s]) PROVE n \in Told(x, types)' <=> n \in Told(x, types)
  <2>1. /\ Len(log[s]) \in Nat /\ Len(log'[s]) \in Nat /\ Len(log[s]) <= Len(log'[s])
        /\ log'[s][n].type = log[s][n].type /\ log'[s][n].payload \in {log[s][n].payload, Marker}
    BY DEF Tells, RowsStay
  <2>2. n \in 1 .. Len(log'[s])
    BY <2>1
  <2>3. x \in log[s][n].payload.about => log'[s][n] = log[s][n]
    BY DEF Tells, RowsTell
  <2>4. x \in log'[s][n].payload.about <=> x \in log[s][n].payload.about
    BY <2>1, <2>3, MarkerFacts
  <2> QED
    BY <1>1, <1>2, <2>1, <2>2, <2>4 DEF Told
<1> QED
  BY <1>1, <1>2, <1>3 DEF Told

\* What happened to a row is what is told of it in its class.
LEMMA ToldHappens ==
    ASSUME NEW x
    PROVE  Happened(x) = Told(x, ClassOf(x))
BY DEF Happened, Told

\* A row that is not gone says its own title.
LEMMA AccountShown ==
    ASSUME RowsShown, NEW x \in Texts, IsTask(x) \/ IsDecision(x), ~Gone(x)
    PROVE  RowAccount(x) = [title |-> "typed", status |-> status[x]]
<1>1. PICK t \in {"tasks", "decisions"} : <<x, t>> \in held
  BY DEF RowsShown, RowShown
<1>2. PICK c \in held : c = <<x, t>>
  BY <1>1
<1>3. c[1] = x /\ c[2] \in {"tasks", "decisions"}
  BY <1>1, <1>2
<1> QED
  BY <1>3 DEF RowAccount

\* An assertion that nobody touched follows its row, which moved with an event or not at all.
LEMMA FollowsOn ==
    ASSUME LogTypeOK, LogTypeOK', RecTypeOK, InTheLog, OntTyped, Tells, NEW x \in Texts, Authored(x),
           SameClass(x), ~Gone(x)', shown'[x] = shown[x],
           reached'[typed[x].room] = reached[typed[x].room],
           RowAccount(x)' = RowAccount(x) \/ SaysMove(x), Follows(x)
    PROVE  Follows(x)'
<1>1. PICK s \in Rooms : s = typed[x].room /\ s = typed'[x].room
  BY EventsKept
<1>2. PICK types : types = ClassOf(x) /\ types = ClassOf(x)'
  BY DEF SameClass, ClassOf
<1>3. /\ Happened(x) = Told(x, types) /\ Happened(x)' = Told(x, types)'
  BY <1>2, ToldHappens DEF Happened, Told
<1>4. PICK m \in Nat : m = Len(log[s])
  BY LineFacts DEF LogTypeOK
<1>5. PICK d \in Nat : d = reached[s] /\ d <= m /\ d = reached'[s]
  BY <1>1, <1>4 DEF OntTyped
<1>6. /\ Happened(x) \subseteq 1 .. m
      /\ Happened(x)' \subseteq 1 .. Len(log'[s])
      /\ \A n \in 1 .. m : n \in Happened(x)' <=> n \in Happened(x)
  BY <1>1, <1>3, <1>4, ToldStays
<1>7. Len(log'[s]) \in Nat
  BY LineFacts DEF LogTypeOK
<1>8. shown[x] = NoAssertion => \A n \in Happened(x)' : n > d
  BY <1>1, <1>5, <1>6, <1>7 DEF Follows
<1>9. Awaited(x) => Awaited(x)'
  BY <1>1, <1>5, <1>6 DEF Awaited
<1>10. SaysMove(x) => Awaited(x)'
  <2> SUFFICES ASSUME SaysMove(x) PROVE Awaited(x)'
    OBVIOUS
  <2>1. PICK n \in m + 1 .. Len(log'[s]) : log'[s][n].type \in types /\ x \in log'[s][n].payload.about
    BY <1>1, <1>2, <1>4 DEF SaysMove
  <2>2. n \in 1 .. counter'[s] /\ n > d
    BY <1>4, <1>5, <1>7, <2>1 DEF LogTypeOK
  <2>3. n \in Told(x, types)'
    BY <1>1, <2>1, <2>2 DEF Told
  <2> QED
    BY <1>1, <1>3, <1>5, <2>2, <2>3 DEF Awaited
<1>11. ASSUME shown[x] # NoAssertion, shown[x].account # RowAccount(x), ~Awaited(x)'
       PROVE  /\ shown[x].reviewed
              /\ \A n \in Happened(x)' : (\A k \in Told(x, ReviewEvents)' : k < n) =>
                     \E i \in Told(x, {"ontology.assertion_reconciled"})' : i > n
  <2>1. /\ shown[x].reviewed
        /\ \A n \in Happened(x) : (\A k \in Told(x, ReviewEvents) : k < n) =>
               \E i \in Told(x, {"ontology.assertion_reconciled"}) : i > n
    BY <1>9, <1>11 DEF Follows
  <2>2. PICK asked, told : asked = ReviewEvents /\ told = {"ontology.assertion_reconciled"}
    OBVIOUS
  <2>3. /\ Told(x, asked) \subseteq 1 .. m /\ Told(x, told) \subseteq 1 .. m
        /\ \A n \in 1 .. m : n \in Told(x, asked)' <=> n \in Told(x, asked)
        /\ \A n \in 1 .. m : n \in Told(x, told)' <=> n \in Told(x, told)
    BY <1>1, <1>4, ToldStays
  <2>4. ASSUME NEW n \in Happened(x)', \A k \in Told(x, asked)' : k < n
        PROVE  \E i \in Told(x, told)' : i > n
    <3>1. n \in 1 .. Len(log'[s]) /\ ~(n > d)
      BY <1>1, <1>5, <1>6, <1>11, <2>4 DEF Awaited
    <3>2. n \in 1 .. m
      BY <1>4, <1>5, <1>7, <3>1
    <3>3. n \in Happened(x)
      BY <1>6, <2>4, <3>2
    <3>4. \A k \in Told(x, asked) : k < n
      BY <2>3, <2>4
    <3>5. PICK i \in Told(x, told) : i > n
      BY <2>1, <2>2, <3>3, <3>4
    <3> QED
      BY <2>3, <3>5
  <2> QED
    BY <2>1, <2>2, <2>4
<1> QED
  BY <1>1, <1>5, <1>8, <1>9, <1>10, <1>11 DEF Follows

\* So it does after the step.
LEMMA AccountShownAfter ==
    ASSUME RowsShown', NEW x \in Texts, IsTask(x)' \/ IsDecision(x)', ~Gone(x)'
    PROVE  RowAccount(x)' = [title |-> "typed", status |-> status'[x]]
<1>1. RowShown(x)'
  BY DEF RowsShown
<1>2. PICK t \in {"tasks", "decisions"} : <<x, t>> \in held'
  BY <1>1 DEF RowShown
<1>3. PICK c \in held' : c = <<x, t>>
  BY <1>2
<1>4. c[1] = x /\ c[2] \in {"tasks", "decisions"}
  BY <1>2, <1>3
<1> QED
  BY <1>4 DEF RowAccount

\* A text that was typed stays a task, or a decision, or neither.
LEMMA ClassKept ==
    ASSUME StepTells, NEW x \in Texts, Authored(x)
    PROVE  SameClass(x)
<1>1. Turns(x)
  BY DEF StepTells
<1>2. CASE status'[x] = status[x]
  BY <1>2 DEF SameClass, IsTask, IsDecision
<1> QED
  BY <1>1, <1>2 DEF Turns

\* A row says what it said, or the log tells of its move.
LEMMA AccountMoves ==
    ASSUME RecInv, ShownInv, ShownInv', StepTells, NEW x \in Texts, IsTask(x)' \/ IsDecision(x)', Authored(x),
           ~Gone(x)'
    PROVE  RowAccount(x)' = RowAccount(x) \/ SaysMove(x)
<1>1. SameClass(x)
  BY ClassKept
<1>2. ~Gone(x)
  BY EventsKept DEF RecInv, StepTells
<1>3. RowAccount(x)' = [title |-> "typed", status |-> status'[x]]
  BY AccountShownAfter DEF ShownInv
<1>4. RowAccount(x) = [title |-> "typed", status |-> status[x]]
  BY <1>1, <1>2, AccountShown DEF ShownInv, SameClass
<1>5. Turns(x)
  BY DEF StepTells
<1> QED
  BY <1>3, <1>4, <1>5 DEF Turns

\* Only the new events of a step can tell of a text typed in it.
LEMMA NewTextFollows ==
    ASSUME LogTypeOK, LogTypeOK', ShownInv, OntTyped, Asserted, StepTells, NEW x \in Texts, ~Authored(x),
           RowShown(x)', NEW s \in Rooms, s = typed'[x].room, shown'[x] = shown[x], reached'[s] = reached[s]
    PROVE  Follows(x)'
<1>1. shown'[x] = NoAssertion
  BY DEF ShownInv, RowsShown, RowShown, Asserted
<1>2. Len(log[s]) \in Nat /\ Len(log'[s]) \in Nat /\ counter'[s] = Len(log'[s])
  BY DEF StepTells, Tells, RowsStay, LogTypeOK
<1>3. PICK d \in Nat : d = reached[s] /\ d <= Len(log[s])
  BY DEF OntTyped
<1>4. ASSUME NEW n \in Happened(x)' PROVE n > d
  <2>1. n \in 1 .. Len(log'[s]) /\ x \in log'[s][n].payload.about
    BY <1>2, <1>4 DEF Happened
  <2>2. ASSUME n \in 1 .. Len(log[s]) PROVE FALSE
    <3>1. log'[s][n].payload \in {log[s][n].payload, Marker}
      BY <2>2 DEF StepTells, Tells, RowsStay
    <3>2. x \in log[s][n].payload.about
      BY <2>1, <3>1, MarkerFacts
    <3> QED
      BY <2>2, <3>2 DEF ShownInv, AboutHere
  <2> QED
    BY <1>2, <1>3, <2>1, <2>2
<1> QED
  BY <1>1, <1>3, <1>4 DEF Follows

\* What no step of the ontology does keeps what is said of it.
LEMMA OntStays ==
    ASSUME LogTypeOK, LogTypeOK', RecInv, RecInv', OntInv, ShownInv', StepTells, UNCHANGED ontVars
    PROVE  OntInv'
<1>1. /\ ShownInv /\ OntTyped /\ Asserted /\ Following /\ RecTypeOK /\ InTheLog /\ Tells /\ RowsShown
      /\ UNCHANGED <<shown, reached, reviews>>
  BY DEF OntInv, RecInv, StepTells, ShownInv, ontVars
<1>2. OntTyped'
  <2>1. ASSUME NEW r \in Rooms PROVE reached'[r] <= Len(log'[r])
    <3>1. Len(log[r]) \in Nat /\ Len(log'[r]) \in Nat /\ Len(log[r]) <= Len(log'[r])
      BY <1>1 DEF Tells, RowsStay
    <3>2. reached[r] \in Nat /\ reached[r] <= Len(log[r]) /\ reached'[r] = reached[r]
      BY <1>1 DEF OntTyped
    <3> QED
      BY <3>1, <3>2
  <2> QED
    BY <1>1, <2>1 DEF OntTyped
<1>3. Asserted'
  <2> SUFFICES ASSUME NEW x \in Texts, shown[x] # NoAssertion
               PROVE  (IsTask(x)' \/ IsDecision(x)') /\ shown[x].at <= reached[typed'[x].room]
    BY <1>1 DEF Asserted
  <2>1. Authored(x)
    BY <1>1 DEF Asserted, RowsShown, RowShown
  <2>2. typed'[x] = typed[x] /\ SameClass(x)
    BY <1>1, <2>1, ClassKept DEF Tells, TextsKept
  <2> QED
    BY <1>1, <2>2 DEF Asserted, SameClass
<1>4. Following'
  <2> SUFFICES ASSUME NEW x \in Texts, IsTask(x)' \/ IsDecision(x)', ~Gone(x)' PROVE Follows(x)'
    BY DEF Following
  <2>1. CASE Authored(x)
    <3>1. SameClass(x) /\ ~Gone(x) /\ typed[x].room \in Rooms
      BY <1>1, <2>1, ClassKept, EventsKept
    <3>2. Follows(x)
      BY <1>1, <3>1 DEF Following, SameClass
    <3>3. RowAccount(x)' = RowAccount(x) \/ SaysMove(x)
      BY <1>1, <2>1, AccountMoves
    <3> QED
      BY <1>1, <2>1, <3>1, <3>2, <3>3, FollowsOn
  <2>2. CASE ~Authored(x)
    <3>1. RowShown(x)'
      BY DEF ShownInv, RowsShown
    <3>2. typed'[x].room \in Rooms
      BY <3>1 DEF RecInv, RecTypeOK, TypedRows, RowShown, Authored
    <3> QED
      BY <1>1, <2>2, <3>1, <3>2, NewTextFollows
  <2> QED
    BY <2>1, <2>2
<1> QED
  BY <1>2, <1>3, <1>4 DEF OntInv

\* Whatever else the service does.
LEMMA NextKeepsOnt ==
    ASSUME LogInv, RecInv, OntInv, [Next]_vars, UNCHANGED ontVars
    PROVE  OntInv'
<1>1. LogInv' /\ RecInv' /\ LogTypeOK
  BY StepKeeps DEF LogInv
<1>2. StepTells /\ ShownInv
  BY NextTells DEF OntInv
<1>3. ShownInv'
  BY <1>1, <1>2, ShownKeeps
<1> QED
  BY <1>1, <1>2, <1>3, OntStays DEF LogInv

\* A transaction of the ontology only appends.
LEMMA OntologyAppends ==
    ASSUME LogInv, RecInv, ExportInv, UNCHANGED <<typed, erasures, audits>>,
           \A c \in held' : c \in held \/ NewPlace(c),
           UNCHANGED logVars \/ \E r \in Rooms : Grows(r)
    PROVE  LogMoves /\ LogInv' /\ RecInv' /\ ExportInv'
<1>1. LogTypeOK /\ Listed
  BY DEF LogInv
<1>2. Writes
  BY <1>1, MovesWrite
<1>3. RecInv' /\ LogMoves
  BY <1>1, <1>2, WritesKeep DEF LogMoves
<1>4. LogTypeOK' /\ RowsKept' /\ Announcing' /\ RowsStay
  BY <1>3, LogKeeps
<1>5. Listed'
  BY <1>1, <1>4, ListedStays
<1>6. ExportInv'
  BY <1>4, ExportsStay DEF ExportInv
<1> QED
  BY <1>3, <1>4, <1>5, <1>6 DEF LogInv

\* A pass ends where it stopped reading, between its cursor and the end of the log.
LEMMA PassReads ==
    ASSUME LogTypeOK, OntTyped, NEW r \in Rooms
    PROVE  /\ PassEnd(r) = LastRead(r) /\ PassEnd(r) \in Nat /\ reached[r] \in Nat
           /\ reached[r] <= PassEnd(r) /\ PassEnd(r) <= Len(log[r])
<1>1. PICK m \in Nat : m = Len(log[r]) /\ m = counter[r]
  BY LineFacts DEF LogTypeOK
<1>2. PICK d \in Nat : d = reached[r] /\ d <= m
  BY <1>1 DEF OntTyped
<1>3. PICK k \in Nat : k = PassLimit
  BY OntologyAssumption
<1>4. LastRead(r) = IF m - d < k THEN m ELSE d + k
  BY <1>1, <1>2, <1>3 DEF LastRead
<1>5. PassEnd(r) = IF LastRead(r) - d < k THEN m ELSE LastRead(r)
  BY <1>1, <1>2, <1>3 DEF PassEnd
<1>6. CASE m - d < k
  BY <1>1, <1>2, <1>3, <1>4, <1>5, <1>6
<1>7. CASE ~(m - d < k)
  <2>1. LastRead(r) = d + k
    BY <1>4, <1>7
  <2>2. PassEnd(r) = d + k
    BY <1>2, <1>3, <1>5, <2>1
  <2> QED
    BY <1>1, <1>2, <1>3, <1>7, <2>1, <2>2
<1> QED
  BY <1>6, <1>7

\* A pass reads of the texts of its room.
LEMMA ProjectedHere ==
    ASSUME LogTypeOK, OntTyped, AboutHere, NEW r \in Rooms, NEW x \in Projected(r)
    PROVE  x \in Texts /\ (IsTask(x) \/ IsDecision(x)) /\ Authored(x) /\ typed[x].room = r
<1>1. /\ x \in Texts /\ (IsTask(x) \/ IsDecision(x))
      /\ \E n \in reached[r] + 1 .. LastRead(r) : x \in log[r][n].payload.about
  BY DEF Projected
<1>2. PICK n \in reached[r] + 1 .. LastRead(r) : x \in log[r][n].payload.about
  BY <1>1
<1>3. n \in 1 .. Len(log[r])
  <2>1. PICK d \in Nat, l \in Nat, m \in Nat : d = reached[r] /\ l = LastRead(r) /\ m = Len(log[r]) /\ l <= m
    BY PassReads, LineFacts DEF LogTypeOK
  <2> QED
    BY <1>2, <2>1
<1> QED
  BY <1>1, <1>2, <1>3 DEF AboutHere

\* What a pass appends is of its room, and carries no words.
LEMMA ExtractTells ==
    ASSUME LogInv, RecInv, OntInv, NEW u \in Users, NEW r \in Rooms, ExtractOntology(u, r)
    PROVE  StepTells
<1>1. LogTypeOK /\ ShownInv /\ OntTyped /\ AboutHere /\ status \in [Texts -> Statuses]
  BY DEF LogInv, OntInv, ShownInv
<1>2. /\ UNCHANGED <<typed, held, status, erasures>> /\ TextsKept
  BY DEF ExtractOntology, TextsKept
<1>3. /\ UNCHANGED logVars \/ Grows(r)
      /\ \A n \in Len(log[r]) + 1 .. Len(log'[r]) :
            /\ log'[r][n].type \in OntologyEvents /\ ~log'[r][n].payload.words
            /\ log'[r][n].payload.about \subseteq Projected(r)
  BY <1>1, ExtractionGrows
<1>4. ASSUME NEW n \in Len(log[r]) + 1 .. Len(log'[r]) PROVE NewTells(r, n)'
  <2>1. ~CarriesPersonal(log[r][n])'
    BY <1>3 DEF CarriesPersonal, OntologyEvents
  <2>2. \A x \in log'[r][n].payload.about : Authored(x)' /\ typed'[x].room = r
    BY <1>1, <1>2, <1>3, ProjectedHere DEF Authored
  <2> QED
    BY <2>1, <2>2 DEF NewTells
<1>5. Tells
  BY <1>1, <1>2, <1>3, <1>4, GrowTells, StillTells DEF logVars
<1> QED
  BY <1>1, <1>2, <1>5, PlainTells, QuietTurns

\* What a pass writes is an assertion, of what the row says, that nobody reviewed.
LEMMA AssertionMade ==
    ASSUME RecTypeOK, ShownInv, OntTyped, NEW to \in Nat, NEW xs \in SUBSET Texts, NEW x \in Written(xs, to)
    PROVE  /\ Assertion(x, to) \in Assertions /\ Assertion(x, to) # NoAssertion
           /\ Assertion(x, to).account = RowAccount(x) /\ Assertion(x, to).at = to /\ ~Assertion(x, to).reviewed
           /\ shown[x] # NoAssertion => ~shown[x].reviewed
<1>1. x \in Texts
  BY DEF Written
<1>2. RowAccount(x) \in Accounts
  <2>1. status[x] \in Statuses
    BY <1>1 DEF ShownInv
  <2> QED
    BY <2>1 DEF RowAccount, Accounts
<1>3. PICK rev \in BOOLEAN : rev = (shown[x] # NoAssertion /\ shown[x].reviewed)
  <2>1. shown[x] # NoAssertion => shown[x].reviewed \in BOOLEAN
    BY <1>1 DEF OntTyped, Assertions
  <2> QED
    BY <2>1
<1>4. Assertion(x, to) = [account |-> RowAccount(x), at |-> to, reviewed |-> rev]
  BY <1>3 DEF Assertion
<1>5. Assertion(x, to) \in Assertions
  BY <1>2, <1>4 DEF Assertions
<1>6. NoAssertion \notin Assertions
  BY OntologyAssumption
<1>7. shown[x] # NoAssertion => ~shown[x].reviewed
  BY DEF Written, Rewritable
<1>8. /\ Assertion(x, to).account = RowAccount(x) /\ Assertion(x, to).at = to
      /\ Assertion(x, to).reviewed = rev
  BY <1>4
<1> QED
  BY <1>3, <1>5, <1>6, <1>7, <1>8

\* The new events of a pass are not of tasks and decisions, and no reviews.
LEMMA TypesApart ==
    ASSUME NEW x, NEW type \in OntologyEvents \cup ReviewEvents
    PROVE  type \notin ClassOf(x)
BY DEF ClassOf, TaskEvents, DecisionEvents, OntologyEvents, ReviewEvents

\* Where a pass has read, the rows it read of are asserted.
LEMMA PassFollows ==
    ASSUME LogTypeOK, LogTypeOK', RecInv, OntInv, Tells, NEW u, NEW r \in Rooms, ExtractOntology(u, r),
           NEW x \in Texts, IsTask(x) \/ IsDecision(x), Authored(x), typed[x].room = r, ~Gone(x)'
    PROVE  Follows(x)'
<1>0. RecTypeOK /\ InTheLog /\ ShownInv /\ OntTyped /\ Asserted /\ AboutHere /\ Follows(x)
  <2>1. ~Gone(x)
    BY EventsKept DEF RecInv
  <2> QED
    BY <2>1 DEF RecInv, OntInv, ShownInv, Following
<1>1. PICK to \in Nat, d \in Nat, m \in Nat :
          /\ to = PassEnd(r) /\ to = LastRead(r) /\ d = reached[r] /\ m = Len(log[r]) /\ d <= to /\ to <= m
  BY <1>0, PassReads, LineFacts DEF LogTypeOK
<1>2. PICK xs, written : xs = Projected(r) /\ written = Written(xs, to)
  OBVIOUS
<1>3. /\ shown' = [y \in Texts |-> IF y \in written THEN Assertion(y, to) ELSE shown[y]]
      /\ reached' = [reached EXCEPT ![r] = to] /\ UNCHANGED <<typed, held, status>>
  BY <1>1, <1>2 DEF ExtractOntology
<1>4. reached'[r] = to /\ typed'[x] = typed[x] /\ RowAccount(x)' = RowAccount(x)
  BY <1>0, <1>3 DEF OntTyped, RowAccount
<1>5. PICK types : types = ClassOf(x) /\ types = ClassOf(x)'
  BY <1>3 DEF ClassOf, IsTask
<1>6. PICK h : h = Happened(x)
  OBVIOUS
<1>7. h = Told(x, types) /\ Happened(x)' = Told(x, types)'
  BY <1>5, <1>6, ToldHappens DEF Happened, Told
<1>8. PICK k \in Nat : k = Len(log'[r]) /\ m <= k /\ counter'[r] = k
  BY <1>1 DEF Tells, RowsStay, LogTypeOK
<1>9. /\ \A n \in m + 1 .. k : log'[r][n].type \in OntologyEvents
      /\ \A y \in Differing(r) : \E n \in m + 1 .. k :
             log'[r][n].type = "ontology.assertion_reconciled" /\ y \in log'[r][n].payload.about
  BY <1>0, <1>1, <1>8, ExtractionGrows
<1>10. h \subseteq 1 .. m /\ Happened(x)' = h
  <2>1. /\ Told(x, types) \subseteq 1 .. m /\ Told(x, types)' \subseteq 1 .. k
        /\ \A n \in 1 .. m : n \in Told(x, types)' <=> n \in Told(x, types)
    BY <1>0, <1>1, <1>8, ToldStays
  <2>2. ASSUME NEW n \in Told(x, types)' PROVE n \in 1 .. m
    <3>1. log'[r][n].type \in types
      BY <1>4, <2>2 DEF Told
    <3>2. n \notin m + 1 .. k
      BY <1>5, <1>9, <3>1, TypesApart
    <3> QED
      BY <1>1, <1>8, <2>1, <2>2, <3>2
  <2> QED
    BY <1>7, <2>1, <2>2
<1>11. x \in xs <=> \E n \in d + 1 .. to : n \in h
  <2>1. ASSUME NEW n \in d + 1 .. to
        PROVE  n \in h <=> (x \in log[r][n].payload.about /\ log[r][n].type \in types)
    <3>1. n \in 1 .. m /\ counter[r] = m
      BY <1>1, <2>1 DEF LogTypeOK
    <3> QED
      BY <1>7, <3>1 DEF Told
  <2>2. x \in xs <=> \E n \in d + 1 .. to : x \in log[r][n].payload.about /\ log[r][n].type \in types
    BY <1>1, <1>2, <1>5 DEF Projected
  <2> QED
    BY <2>1, <2>2
<1>12. ASSUME x \in written PROVE shown'[x] # NoAssertion /\ shown'[x].account = RowAccount(x)
  <2>1. xs \in SUBSET Texts /\ x \in Written(xs, to)
    BY <1>2, <1>12 DEF Projected
  <2> QED
    BY <1>0, <1>3, <1>12, <2>1, AssertionMade
<1>13. x \notin written => shown'[x] = shown[x]
  BY <1>3
<1>14. ASSUME shown'[x] = NoAssertion, NEW n \in h PROVE n > to
  <2>1. shown[x] = NoAssertion /\ x \notin written
    BY <1>12, <1>13, <1>14
  <2>2. x \notin xs
    BY <1>2, <2>1 DEF Written
  <2>3. n > d
    BY <1>0, <1>1, <1>6, <1>14, <2>1 DEF Follows
  <2>4. n \notin d + 1 .. to /\ n \in 1 .. m
    BY <1>10, <1>11, <1>14, <2>2
  <2> QED
    BY <1>1, <2>3, <2>4
<1>15. ASSUME shown'[x] # NoAssertion, shown'[x].account # RowAccount(x), \A n \in h : ~(n > to)
       PROVE  /\ shown'[x].reviewed
              /\ \A n \in h : (\A i \in Told(x, ReviewEvents)' : i < n) =>
                    \E i \in Told(x, {"ontology.assertion_reconciled"})' : i > n
  <2>1. x \notin written /\ shown'[x] = shown[x]
    BY <1>12, <1>13, <1>15
  <2>2. PICK asked, told : asked = ReviewEvents /\ told = {"ontology.assertion_reconciled"}
    OBVIOUS
  <2>3. CASE Awaited(x)
    <3>1. PICK n \in h : n > d
      BY <1>1, <1>6, <2>3 DEF Awaited
    <3>2. n \in d + 1 .. to
      BY <1>1, <1>10, <1>15, <3>1
    <3>3. x \in xs
      BY <1>11, <3>1, <3>2
    <3>4. shown[x].at \in Nat /\ shown[x].at <= d
      BY <1>0, <1>1, <1>15, <2>1 DEF Asserted, OntTyped, Assertions
    <3>5. Differs(x, to)
      BY <1>1, <1>15, <2>1, <3>2, <3>4 DEF Differs
    <3>6. shown[x].reviewed
      BY <1>2, <2>1, <3>3, <3>5 DEF Written, Rewritable
    <3>7. x \in Differing(r)
      BY <1>1, <1>2, <1>15, <2>1, <3>3, <3>5, <3>6 DEF Differing, Reconciled
    <3>8. PICK i \in m + 1 .. k :
              log'[r][i].type = "ontology.assertion_reconciled" /\ x \in log'[r][i].payload.about
      BY <1>9, <3>7
    <3>9. i \in Told(x, told)'
      BY <1>1, <1>4, <1>8, <2>2, <3>8 DEF Told
    <3>10. \A j \in h : i > j
      BY <1>1, <1>8, <1>10, <3>8
    <3> QED
      BY <2>1, <2>2, <3>6, <3>9, <3>10
  <2>4. CASE ~Awaited(x)
    <3>1. /\ shown[x].reviewed
          /\ \A n \in h : (\A i \in Told(x, asked) : i < n) => \E i \in Told(x, told) : i > n
      BY <1>0, <1>6, <1>15, <2>1, <2>2, <2>4 DEF Follows
    <3>2. Told(x, asked) \subseteq Told(x, asked)' /\ Told(x, told) \subseteq Told(x, told)'
      <4>1. /\ Told(x, asked) \subseteq 1 .. m /\ Told(x, told) \subseteq 1 .. m
            /\ \A n \in 1 .. m : n \in Told(x, asked)' <=> n \in Told(x, asked)
            /\ \A n \in 1 .. m : n \in Told(x, told)' <=> n \in Told(x, told)
        BY <1>0, <1>1, ToldStays
      <4> QED
        BY <4>1
    <3>3. ASSUME NEW n \in h, \A i \in Told(x, asked)' : i < n PROVE \E i \in Told(x, told)' : i > n
      BY <3>1, <3>2, <3>3
    <3> QED
      BY <2>1, <2>2, <3>1, <3>3
  <2> QED
    BY <2>3, <2>4
<1> QED
  BY <1>4, <1>10, <1>14, <1>15 DEF Follows, Awaited

\* A pass keeps what is said of the assertions.
LEMMA PassKeeps ==
    ASSUME LogInv, RecInv, ExportInv, OntInv, NEW u \in Users, NEW r \in Rooms, ExtractOntology(u, r),
           UNCHANGED auditVars
    PROVE  LogMoves /\ LogInv' /\ RecInv' /\ ExportInv' /\ OntInv'
<1>1. /\ LogTypeOK /\ RecTypeOK /\ InTheLog /\ ShownInv /\ OntTyped /\ Asserted /\ Following /\ AboutHere /\ RowsShown
  BY DEF LogInv, RecInv, OntInv, ShownInv
<1>2. UNCHANGED <<typed, held, status, erasures, reviews, audits>>
  BY DEF ExtractOntology, auditVars
<1>3. LogMoves /\ LogInv' /\ RecInv' /\ ExportInv' /\ LogTypeOK'
  <2>1. UNCHANGED logVars \/ Grows(r)
    BY <1>1, ExtractionGrows
  <2> QED
    BY <1>2, <2>1, OntologyAppends DEF LogInv
<1>4. StepTells /\ ShownInv' /\ Tells
  BY <1>1, ExtractTells, ShownKeeps DEF StepTells
<1>5. PICK to \in Nat : to = PassEnd(r) /\ reached[r] <= to /\ to <= Len(log[r]) /\ reached[r] \in Nat
  BY <1>1, PassReads
<1>6. PICK xs, written : xs = Projected(r) /\ written = Written(xs, to)
  OBVIOUS
<1>7. /\ shown' = [x \in Texts |-> IF x \in written THEN Assertion(x, to) ELSE shown[x]]
      /\ reached' = [reached EXCEPT ![r] = to]
  BY <1>5, <1>6 DEF ExtractOntology
<1>8. reached' \in [Rooms -> Nat] /\ reached'[r] = to /\ \A s \in Rooms \ {r} : reached'[s] = reached[s]
  BY <1>1, <1>5, <1>7 DEF OntTyped
<1>9. \A x \in xs : x \in Texts /\ (IsTask(x) \/ IsDecision(x)) /\ Authored(x) /\ typed[x].room = r
  BY <1>1, <1>6, ProjectedHere
<1>10. ASSUME NEW x \in written
       PROVE  /\ x \in xs /\ shown'[x] \in Assertions /\ shown'[x] # NoAssertion /\ shown'[x].at = to
              /\ ~shown'[x].reviewed /\ (shown[x] # NoAssertion => ~shown[x].reviewed)
  <2>1. x \in xs /\ xs \in SUBSET Texts /\ x \in Written(xs, to)
    BY <1>6, <1>9, <1>10 DEF Written
  <2>2. shown'[x] = Assertion(x, to)
    BY <1>7, <1>10, <2>1
  <2> QED
    BY <1>1, <2>1, <2>2, AssertionMade
<1>11. \A x \in Texts : x \notin written => shown'[x] = shown[x]
  BY <1>7
<1>12. OntTyped'
  <2>1. shown' \in [Texts -> Assertions \cup {NoAssertion}]
    <3>1. \A x \in Texts : shown'[x] \in Assertions \cup {NoAssertion}
      BY <1>1, <1>10, <1>11 DEF OntTyped
    <3> QED
      BY <1>7, <3>1
  <2>2. ASSUME NEW s \in Rooms PROVE reached'[s] <= Len(log'[s])
    <3>1. Len(log[s]) \in Nat /\ Len(log'[s]) \in Nat /\ Len(log[s]) <= Len(log'[s])
      BY <1>4 DEF Tells, RowsStay
    <3>2. reached'[s] \in Nat /\ reached'[s] <= Len(log[s])
      BY <1>1, <1>5, <1>8 DEF OntTyped
    <3> QED
      BY <3>1, <3>2
  <2> QED
    BY <1>1, <1>2, <1>8, <2>1, <2>2 DEF OntTyped
<1>13. \A x \in Texts : (IsTask(x)' <=> IsTask(x)) /\ (IsDecision(x)' <=> IsDecision(x)) /\ typed'[x] = typed[x]
  BY <1>2 DEF IsTask, IsDecision
<1>14. Asserted'
  <2> SUFFICES ASSUME NEW x \in Texts
               PROVE  /\ shown'[x] = NoAssertion => reviews[x] = <<>>
                      /\ shown'[x] # NoAssertion =>
                            /\ IsTask(x) \/ IsDecision(x)
                            /\ shown'[x].at <= reached'[typed[x].room]
                            /\ shown'[x].reviewed <=> reviews[x] # <<>>
                            /\ shown'[x].reviewed => shown'[x].account = reviews[x][Len(reviews[x])]
    BY <1>2, <1>13 DEF Asserted
  <2>1. CASE x \in written
    <3>1. reviews[x] = <<>>
      BY <1>1, <1>10, <2>1 DEF Asserted
    <3> QED
      BY <1>5, <1>8, <1>9, <1>10, <2>1, <3>1
  <2>2. CASE x \notin written
    <3>1. ASSUME shown[x] # NoAssertion PROVE shown[x].at <= reached'[typed[x].room]
      <4>1. PICK s \in Rooms : s = typed[x].room
        BY <1>1, <3>1 DEF Asserted, RowsShown, RowShown, RecTypeOK, TypedRows, Authored
      <4>2. shown[x].at \in Nat /\ shown[x].at <= reached[s] /\ reached[s] \in Nat
        BY <1>1, <3>1, <4>1 DEF Asserted, OntTyped, Assertions
      <4>3. reached[s] <= reached'[s] /\ reached'[s] \in Nat
        BY <1>5, <1>8, <4>2
      <4> QED
        BY <4>1, <4>2, <4>3
    <3> QED
      BY <1>1, <1>11, <2>2, <3>1 DEF Asserted
  <2> QED
    BY <2>1, <2>2
<1>15. Following'
  <2> SUFFICES ASSUME NEW x \in Texts, IsTask(x) \/ IsDecision(x), ~Gone(x)' PROVE Follows(x)'
    BY <1>13 DEF Following
  <2>1. Authored(x)
    BY <1>1 DEF RowsShown, RowShown
  <2>2. CASE typed[x].room = r
    BY <1>1, <1>3, <1>4, <2>1, <2>2, PassFollows
  <2>3. CASE typed[x].room # r
    <3>1. /\ ~Gone(x) /\ typed[x].room \in Rooms
      BY <1>1, <1>4, <2>1, EventsKept
    <3>2. shown'[x] = shown[x] /\ reached'[typed[x].room] = reached[typed[x].room]
      BY <1>8, <1>9, <1>10, <1>11, <2>3, <3>1
    <3>3. RowAccount(x)' = RowAccount(x) /\ SameClass(x)
      BY <1>2, <1>13 DEF RowAccount, SameClass
    <3>4. Follows(x)
      BY <1>1, <3>1 DEF Following
    <3> QED
      BY <1>1, <1>3, <1>4, <2>1, <3>2, <3>3, <3>4, FollowsOn
  <2> QED
    BY <2>2, <2>3
<1> QED
  BY <1>3, <1>4, <1>12, <1>14, <1>15 DEF OntInv

\* So does a review.
LEMMA ReviewKeeps ==
    ASSUME LogInv, RecInv, ExportInv, OntInv, NEW u \in Users, NEW x \in Texts, shown[x] # NoAssertion,
           NEW account \in Accounts, NEW type \in ReviewEvents, Reviews(u, x, account, type), UNCHANGED auditVars
    PROVE  LogMoves /\ LogInv' /\ RecInv' /\ ExportInv' /\ OntInv'
<1>1. /\ LogTypeOK /\ RecTypeOK /\ InTheLog /\ ShownInv /\ OntTyped /\ Asserted /\ Following /\ RowsShown
  BY DEF LogInv, RecInv, OntInv, ShownInv
<1>2. UNCHANGED <<typed, status, erasures, reached, audits>> /\ held' = held \cup Quotes(x)
  BY DEF Reviews, auditVars
<1>3. (IsTask(x) \/ IsDecision(x)) /\ Authored(x) /\ typed[x].seq > 0
  BY <1>1 DEF Asserted, RowsShown, RowShown
<1>23. ASSUME NEW c \in held', c \notin held
       PROVE  NewPlace(c) /\ c[2] \notin {"tasks", "decisions"}
  <2>1. PICK t \in Quoted : c = <<x, t>>
    BY <1>2, <1>23 DEF Quotes
  <2>2. t \in Unreached /\ t \notin {"tasks", "decisions"}
    BY DEF Unreached, Quoted
  <2> QED
    BY <1>3, <2>1, <2>2 DEF NewPlace
<1>4. PICK r \in Rooms : r = typed[x].room
  BY <1>1, <1>3 DEF RecTypeOK, TypedRows, Authored
<1>5. PICK m \in Nat : m = Len(log[r])
  BY <1>1, LineFacts DEF LogTypeOK
<1>6. /\ Grows(r) /\ Len(log'[r]) = m + 1
      /\ log'[r][m + 1].type = type /\ log'[r][m + 1].payload = Payload({x}, FALSE, {})
  BY <1>1, <1>3, <1>4, <1>5, ReviewGrows
<1>7. log'[r][m + 1].payload.about = {x} /\ ~log'[r][m + 1].payload.words
  BY <1>6 DEF Payload
<1>8. LogMoves /\ LogInv' /\ RecInv' /\ ExportInv' /\ LogTypeOK'
  BY <1>2, <1>6, <1>23, OntologyAppends DEF LogInv
<1>9. StepTells /\ Tells
  <2>1. TextsKept
    BY <1>2 DEF TextsKept
  <2>2. ASSUME NEW n \in Len(log[r]) + 1 .. Len(log'[r]) PROVE NewTells(r, n)'
    <3>1. n = m + 1
      BY <1>5, <1>6, <2>2
    <3>2. ~CarriesPersonal(log[r][n])'
      BY <1>6, <1>7, <3>1 DEF CarriesPersonal, ReviewEvents
    <3>3. \A y \in log'[r][n].payload.about : Authored(y)' /\ typed'[y].room = r
      BY <1>2, <1>3, <1>4, <1>7, <3>1 DEF Authored
    <3> QED
      BY <3>2, <3>3 DEF NewTells
  <2>3. Tells
    BY <1>1, <1>6, <2>1, <2>2, GrowTells
  <2>4. status' \in [Texts -> Statuses] /\ held \subseteq held'
    BY <1>1, <1>2 DEF ShownInv
  <2> QED
    BY <1>1, <1>2, <2>3, <2>4, PlainTells, QuietTurns
<1>10. ShownInv'
  BY <1>1, <1>9, ShownKeeps
<1>11. PICK old \in Assertions : old = shown[x]
  BY <1>1 DEF OntTyped
<1>12. PICK row \in Assertions : row = [account |-> account, at |-> old.at, reviewed |-> TRUE]
  BY <1>11 DEF Assertions
<1>13. row # NoAssertion /\ row.account = account /\ row.at = old.at /\ row.reviewed
  BY <1>12, OntologyAssumption
<1>14. /\ shown' \in [Texts -> Assertions \cup {NoAssertion}] /\ shown'[x] = row
       /\ \A y \in Texts \ {x} : shown'[y] = shown[y]
  <2>1. shown' = [shown EXCEPT ![x] = [account |-> account, at |-> shown[x].at, reviewed |-> TRUE]]
    BY DEF Reviews
  <2>2. shown' = [shown EXCEPT ![x] = row]
    BY <1>11, <1>12, <2>1
  <2> QED
    BY <1>1, <2>2 DEF OntTyped
<1>15. PICK lines : lines = Append(reviews[x], account)
  OBVIOUS
<1>16. IsLine(lines) /\ Len(lines) \in Nat /\ lines[Len(lines)] = account /\ lines # <<>>
  <2>1. IsLine(reviews[x]) /\ Len(reviews[x]) \in Nat
    BY <1>1, LineFacts DEF OntTyped
  <2>2. IsLine(lines) /\ Len(lines) = Len(reviews[x]) + 1 /\ lines[Len(reviews[x]) + 1] = account
    BY <1>15, <2>1, Appended
  <2> QED
    BY <2>1, <2>2
<1>17. DOMAIN reviews' = Texts /\ reviews'[x] = lines /\ \A y \in Texts \ {x} : reviews'[y] = reviews[y]
  BY <1>1, <1>15 DEF Reviews, OntTyped
<1>18. OntTyped'
  <2>1. ASSUME NEW s \in Rooms PROVE reached'[s] <= Len(log'[s])
    <3>1. Len(log[s]) \in Nat /\ Len(log'[s]) \in Nat /\ Len(log[s]) <= Len(log'[s])
      BY <1>9 DEF Tells, RowsStay
    <3>2. reached'[s] \in Nat /\ reached'[s] <= Len(log[s])
      BY <1>1, <1>2 DEF OntTyped
    <3> QED
      BY <3>1, <3>2
  <2>2. \A y \in Texts : IsLine(reviews'[y])
    BY <1>1, <1>16, <1>17 DEF OntTyped
  <2> QED
    BY <1>1, <1>2, <1>14, <1>17, <2>1, <2>2 DEF OntTyped
<1>19. \A y \in Texts : SameClass(y) /\ typed'[y] = typed[y] /\ RowAccount(y)' = RowAccount(y)
  <2>1. ASSUME NEW y \in Texts
        PROVE  (\E c \in held' : c[1] = y /\ c[2] \in {"tasks", "decisions"})
               <=> (\E c \in held : c[1] = y /\ c[2] \in {"tasks", "decisions"})
    BY <1>2, <1>23
  <2> QED
    BY <1>2, <2>1 DEF SameClass, IsTask, IsDecision, RowAccount
<1>20. Asserted'
  <2> SUFFICES ASSUME NEW y \in Texts
               PROVE  /\ shown'[y] = NoAssertion => reviews'[y] = <<>>
                      /\ shown'[y] # NoAssertion =>
                            /\ IsTask(y) \/ IsDecision(y)
                            /\ shown'[y].at <= reached[typed[y].room]
                            /\ shown'[y].reviewed <=> reviews'[y] # <<>>
                            /\ shown'[y].reviewed => shown'[y].account = reviews'[y][Len(reviews'[y])]
    BY <1>2, <1>19 DEF Asserted, SameClass
  <2>1. CASE y = x
    BY <1>1, <1>3, <1>11, <1>13, <1>14, <1>16, <1>17, <2>1 DEF Asserted
  <2>2. CASE y # x
    BY <1>1, <1>14, <1>17, <2>2 DEF Asserted
  <2> QED
    BY <2>1, <2>2
<1>21. ASSUME NEW n \in Happened(x)', NEW asked, asked = ReviewEvents, \A k \in Told(x, asked)' : k < n PROVE FALSE
  <2>1. /\ counter'[r] = m + 1 /\ typed'[x].room = r
    BY <1>2, <1>4, <1>6, <1>8 DEF LogTypeOK
  <2>2. m + 1 \in Told(x, asked)'
    <3>1. m + 1 \in 1 .. counter'[r]
      BY <1>5, <2>1
    <3>2. log'[r][m + 1].type \in asked /\ x \in log'[r][m + 1].payload.about
      BY <1>6, <1>7, <1>21
    <3> QED
      BY <2>1, <3>1, <3>2 DEF Told
  <2>3. n \in 1 .. m + 1
    BY <1>21, <2>1 DEF Happened
  <2> QED
    BY <1>5, <1>21, <2>2, <2>3
<1>22. Following'
  <2> SUFFICES ASSUME NEW y \in Texts, IsTask(y) \/ IsDecision(y), ~Gone(y)' PROVE Follows(y)'
    BY <1>19 DEF Following, SameClass
  <2>1. CASE y = x
    BY <1>13, <1>14, <1>21, <2>1 DEF Follows
  <2>2. CASE y # x
    <3>1. Authored(y)
      BY <1>1 DEF RowsShown, RowShown
    <3>2. ~Gone(y) /\ typed[y].room \in Rooms
      BY <1>1, <1>9, <3>1, EventsKept
    <3>3. shown'[y] = shown[y] /\ reached'[typed[y].room] = reached[typed[y].room]
      BY <1>2, <1>14, <2>2
    <3>4. Follows(y)
      BY <1>1, <3>2 DEF Following
    <3> QED
      BY <1>1, <1>8, <1>9, <1>19, <3>1, <3>3, <3>4, FollowsOn
  <2> QED
    BY <2>1, <2>2
<1> QED
  BY <1>8, <1>10, <1>18, <1>20, <1>22 DEF OntInv

\* Whatever anybody does.
LEMMA OntologyStep ==
    ASSUME LogInv, RecInv, ExportInv, OntInv, [OntologyNext]_<<vars, ontVars>>
    PROVE  LogMoves /\ LogInv' /\ RecInv' /\ ExportInv' /\ OntInv'
<1>1. ASSUME [Next]_vars, UNCHANGED ontVars PROVE LogMoves /\ LogInv' /\ RecInv' /\ ExportInv' /\ OntInv'
  BY <1>1, StepKeeps, ExportStep, NextKeepsOnt
<1>2. ASSUME NEW u \in Users, NEW r \in Rooms, ExtractOntology(u, r), UNCHANGED auditVars
      PROVE  LogMoves /\ LogInv' /\ RecInv' /\ ExportInv' /\ OntInv'
  BY <1>2, PassKeeps
<1>3. ASSUME NEW u \in Users, NEW x \in Texts, ConfirmAssertion(u, x) \/ CorrectAssertion(u, x),
             UNCHANGED auditVars
      PROVE  LogMoves /\ LogInv' /\ RecInv' /\ ExportInv' /\ OntInv'
  <2>1. shown[x] # NoAssertion /\ shown[x].account \in Accounts
    BY <1>3 DEF ConfirmAssertion, CorrectAssertion, OntInv, OntTyped, Assertions
  <2>2. Corrected(shown[x].account) \in Accounts
    BY <2>1 DEF Corrected, Accounts
  <2>3. PICK account \in Accounts, type \in ReviewEvents : Reviews(u, x, account, type)
    BY <1>3, <2>1, <2>2 DEF ConfirmAssertion, CorrectAssertion, ReviewEvents
  <2> QED
    BY <1>3, <2>1, <2>3, ReviewKeeps
<1>4. CASE UNCHANGED <<vars, ontVars>>
  BY <1>1, <1>4
<1> QED
  BY <1>1, <1>2, <1>3, <1>4 DEF OntologyNext

\* Nothing is asserted when the service starts.
LEMMA OntologyStart ==
    ASSUME Init, OntInit
    PROVE  LogInv /\ RecInv /\ ExportInv /\ OntInv
<1>1. LogInv /\ RecInv /\ ExportInv
  BY StartKept, ExportStart
<1>2. \A x \in Texts : status[x] = "none"
  BY DEF Init, RecInit
<1>3. \A x \in Texts : ~IsTask(x) /\ ~IsDecision(x)
  BY <1>2 DEF IsTask, IsDecision, TaskMoves, DecisionMoves
<1>4. \A r \in Rooms : log[r] = <<>> /\ Len(log[r]) = 0
  BY DEF Init, LogInit
<1>5. erasures = [o \in Operators |-> IdleErasure] /\ IdleErasure.rows = {} /\ IdleErasure.at = "idle"
  BY DEF Init, RecInit, IdleErasure
<1>6. ShownInv
  <2>1. AboutHere
    BY <1>4 DEF AboutHere
  <2>2. status \in [Texts -> Statuses]
    BY DEF Init, RecInit, Statuses
  <2> QED
    BY <1>3, <1>5, <2>1, <2>2 DEF ShownInv, RowsShown, ListedWords, StagesTyped, EraseStages
<1>7. IsLine(<<>>)
  BY DEF IsLine
<1>8. OntTyped
  <2>1. shown \in [Texts -> Assertions \cup {NoAssertion}]
    BY DEF OntInit
  <2>2. reached \in [Rooms -> Nat] /\ \A r \in Rooms : reached[r] <= Len(log[r])
    BY <1>4 DEF OntInit
  <2>3. DOMAIN reviews = Texts /\ \A x \in Texts : IsLine(reviews[x])
    BY <1>7 DEF OntInit
  <2> QED
    BY <2>1, <2>2, <2>3 DEF OntTyped
<1>9. Asserted /\ Following
  BY <1>3 DEF Asserted, Following, OntInit
<1> QED
  BY <1>1, <1>6, <1>8, <1>9 DEF OntInv

\* The state of a room's log, records, exports and ontology, always.
THEOREM OntologySafe == OntologySpec => [](LogInv /\ RecInv /\ ExportInv /\ OntInv)
<1>1. Init /\ OntInit => LogInv /\ RecInv /\ ExportInv /\ OntInv
  BY OntologyStart
<1>2. (LogInv /\ RecInv /\ ExportInv /\ OntInv) /\ [OntologyNext]_<<vars, ontVars>>
          => (LogInv /\ RecInv /\ ExportInv /\ OntInv)'
  BY OntologyStep
<1> QED
  BY <1>1, <1>2, PTL DEF OntologySpec

\* A task or decision whose events the passes have gone through is asserted, as its row
\* stands; and what is told as current is what the row says, unless a person reviewed it.
THEOREM AssertionsAlwaysFollow == OntologySpec => []AssertionsFollow
<1>1. ASSUME LogInv, RecInv, OntInv PROVE AssertionsFollow
  <2> SUFFICES ASSUME NEW x \in Texts, IsTask(x) \/ IsDecision(x), ~Gone(x)
               PROVE  /\ Passed(x) => shown[x] # NoAssertion
                      /\ shown[x] # NoAssertion /\ ~shown[x].reviewed /\ (Passed(x) \/ Current(x)) =>
                             shown[x].account = RowAccount(x)
    BY DEF AssertionsFollow
  <2>1. /\ LogTypeOK /\ RecTypeOK /\ InTheLog /\ OntTyped /\ Asserted /\ Follows(x) /\ RowShown(x)
    BY <1>1 DEF LogInv, RecInv, OntInv, ShownInv, RowsShown, Following
  <2>2. PICK r \in Rooms, c \in Nat : r = typed[x].room /\ c = typed[x].seq /\ c > 0
    BY <2>1 DEF RowShown, RecTypeOK, TypedRows, Authored
  <2>3. PICK m \in Nat, d \in Nat : m = counter[r] /\ m = Len(log[r]) /\ d = reached[r]
    BY <2>1, <2>2, LineFacts DEF LogTypeOK, OntTyped
  <2>4. c \in Happened(x)
    <3>1. c \in 1 .. m /\ log[r][c].payload.about = {x}
      BY <2>1, <2>2, <2>3 DEF InTheLog, RowShown, Gone, EventOf
    <3>2. log[r][c].type \in ClassOf(x)
      BY <2>1, <2>2 DEF RowShown, EventOf, ClassOf, TaskEvents, DecisionEvents
    <3> QED
      BY <2>2, <2>3, <3>1, <3>2 DEF Happened
  <2>5. Happened(x) \subseteq 1 .. m
    BY <2>2, <2>3 DEF Happened
  <2>6. ASSUME Passed(x), shown[x] = NoAssertion PROVE FALSE
    <3>1. c <= d
      BY <2>2, <2>3, <2>4, <2>6 DEF Passed
    <3>2. c > d
      BY <2>1, <2>2, <2>3, <2>4, <2>6 DEF Follows
    <3> QED
      BY <2>2, <2>3, <3>1, <3>2
  <2>7. ASSUME shown[x] # NoAssertion, ~shown[x].reviewed, shown[x].account # RowAccount(x),
               Passed(x) \/ Current(x)
        PROVE  FALSE
    <3>1. PICK n \in Happened(x) : n > d
      BY <2>1, <2>2, <2>3, <2>7 DEF Follows, Awaited
    <3>2. CASE Passed(x)
      BY <2>2, <2>3, <2>5, <3>1, <3>2 DEF Passed
    <3>3. CASE Current(x)
      <4>1. PICK t \in Nat : t = shown[x].at /\ t <= d
        BY <2>1, <2>2, <2>3, <2>7 DEF Asserted, OntTyped, Assertions
      <4>2. n \in t + 1 .. m
        BY <2>3, <2>5, <3>1, <4>1
      <4>3. log[r][n].type \in ClassOf(x)
        BY <2>2, <3>1 DEF Happened
      <4> QED
        BY <2>2, <2>3, <3>3, <4>1, <4>2, <4>3 DEF Current
    <3> QED
      BY <2>7, <3>2, <3>3
  <2> QED
    BY <2>6, <2>7
<1> QED
  BY <1>1, OntologySafe, PTL

\* A reviewed assertion says what its last review left, and a move of its row that the
\* passes went by is told after it.
THEOREM ReviewsAlwaysStand == OntologySpec => []ReviewsStand
<1>1. ASSUME RecInv, OntInv PROVE ReviewsStand
  <2> SUFFICES ASSUME NEW x \in Texts, shown[x] # NoAssertion, reviews[x] # <<>>
               PROVE  /\ shown[x].account = reviews[x][Len(reviews[x])]
                      /\ ~Gone(x) /\ Passed(x) /\ shown[x].account # RowAccount(x) =>
                            \A n \in Happened(x) :
                                (\A k \in Told(x, ReviewEvents) : k < n) =>
                                    \E m \in Told(x, {"ontology.assertion_reconciled"}) : m > n
    BY DEF ReviewsStand
  <2>1. OntTyped /\ Asserted /\ Following /\ RowsShown
    BY <1>1 DEF OntInv, ShownInv
  <2>2. shown[x].reviewed /\ shown[x].account = reviews[x][Len(reviews[x])] /\ (IsTask(x) \/ IsDecision(x))
    BY <2>1 DEF Asserted
  <2>3. ASSUME ~Gone(x), Passed(x), shown[x].account # RowAccount(x)
        PROVE  \A n \in Happened(x) :
                   (\A k \in Told(x, ReviewEvents) : k < n) =>
                       \E m \in Told(x, {"ontology.assertion_reconciled"}) : m > n
    <3>1. Follows(x)
      BY <2>1, <2>2, <2>3 DEF Following
    <3>2. ~Awaited(x)
      <4>1. ASSUME NEW n \in Happened(x), n > reached[typed[x].room] PROVE FALSE
        <5>1. PICK d : d = reached[typed[x].room]
          OBVIOUS
        <5>2. n \in Nat /\ n <= d /\ n > d
          BY <2>3, <4>1, <5>1 DEF Passed, Happened
        <5>3. d \in Nat
          <6>1. d \in { reached[r] : r \in Rooms }
            BY <1>1, <2>1, <2>2, <5>1 DEF RecInv, RecTypeOK, TypedRows, RowsShown, RowShown, Authored
          <6> QED
            BY <2>1, <6>1 DEF OntTyped
        <5> QED
          BY <5>2, <5>3
      <4> QED
        BY <4>1 DEF Awaited
    <3> QED
      BY <2>3, <3>1, <3>2 DEF Follows
  <2> QED
    BY <2>2, <2>3
<1> QED
  BY <1>1, OntologySafe, PTL

\* What the log and the records promise, they promise while passes and reviews go on.
THEOREM OntologyKeepsRecords ==
    OntologySpec => [](LogVerifies /\ NothingErasedComesBack /\ ErasureReachesAll /\ VerifiedExportIsWhole)
<1>1. LogInv /\ RecInv /\ ExportInv =>
          LogVerifies /\ NothingErasedComesBack /\ ErasureReachesAll /\ VerifiedExportIsWhole
  BY KeptVerifies, ReachesAll, ExportsWhole DEF LogInv, RecInv
<1> QED
  BY <1>1, OntologySafe, PTL

\* Passes and reviews only say more: the logs still implement RoomHistory.
THEOREM OntologyKeepsHistory == OntologySpec => KeepsHistory
<1>1. Init => History!Init
  BY HistoryStart
<1>2. LogInv /\ RecInv /\ ExportInv /\ OntInv /\ [OntologyNext]_<<vars, ontVars>> => [History!Next]_HistoryOf
  BY OntologyStep, HistoryMoves
<1> QED
  BY <1>1, <1>2, OntologySafe, PTL DEF OntologySpec, KeepsHistory, History!Spec
===============================================================================
