--------------------------- MODULE ConnectionProofs ---------------------------
(***************************************************************************)
(* A transaction is in the database whole or not at all, for any number of *)
(* tasks, rows, readers, cancellations and faults, at any await; and only  *)
(* a task cancelled at its last rollback takes the lock with it.           *)
(*                                                                         *)
(* WholeOrNothing is not inductive: a cancelled task leaves calls behind   *)
(* that the worker makes later, when another task may hold the connection. *)
(* Line says in what order the worker can find them: statements and reads  *)
(* of their own first, then one BEGIN, write or COMMIT, then rollbacks     *)
(* only; a write or a COMMIT finds exactly the rows staged that were       *)
(* written before it.  Places is what each task may count on where it      *)
(* stands, Apart that no unit is both a transaction and a statement.       *)
(***************************************************************************)
EXTENDS Connection, FiniteSetTheorems, SequenceTheorems, TLAPS

\* Where a task stands in a transaction, with the connection, or without it.
Within == {"begin", "body", "write", "commit", "undo", "final"}
HeldAt == Within \cup {"single", "read"}
FreeAt == {"idle", "lock", "pool", "reading"}

CallType == [by : Tasks, op : {"begin", "write", "commit", "rollback", "read"},
             unit : Nat, row : Nat, awaited : BOOLEAN]
RowType == [by : Tasks, unit : Nat, row : Nat]
TaskType == [at : HeldAt \cup FreeAt, for : DOMAIN Entry \cup {"none"},
             unit : Nat, row : Nat, good : BOOLEAN]

\* The types of the state.
TypeOK ==
    /\ file \in BOOLEAN /\ open \in BOOLEAN /\ torn \in BOOLEAN
    /\ holder \in Tasks \cup {Nobody, Gone} /\ owner \in Tasks \cup {Nobody, Gone}
    /\ waiting \in Seq(Tasks) /\ calls \in Seq(CallType)
    /\ staged \in SUBSET RowType /\ stored \in SUBSET RowType
    /\ readers \in SUBSET Tasks /\ task \in [Tasks -> TaskType]
    /\ told \in SUBSET (Tasks \X Nat)
    /\ cancels \in Nat /\ lates \in Nat /\ faults \in Nat

\* Whoever is in the lock's queue waits for it, and is there once.
Queue ==
    /\ \A n \in DOMAIN waiting : task[waiting[n]].at = "lock"
    /\ \A m, n \in DOMAIN waiting : waiting[m] = waiting[n] => m = n

\* A statement or a read of its own; the rows of a transaction's first k writes.
Alone(c) == c.op = "read" \/ (c.op = "write" /\ c.row = 0)
Written(t, n, k) == { Row(t, n, i) : i \in 1 .. k }

\* The connection is in a transaction, or was when its task went.
Inside == holder = Gone \/ (holder \in Tasks /\ task[holder].at \in Within)

\* What the worker still has to do, in its order.
Line ==
    \A i \in DOMAIN calls :
        LET c == calls[i] IN
        /\ c.awaited => i = Len(calls) /\ holder = c.by /\ task[c.by].at \in DOMAIN Awaiting
        /\ IF Alone(c) THEN ~open
           ELSE Inside /\ \A j \in DOMAIN calls : j > i => calls[j].op = "rollback"
        /\ c.op = "begin" => ~open
        /\ c.op = "commit" => i = 1 /\ open /\ staged = Written(c.by, c.unit, Rows)
        /\ c.op = "write" /\ c.row > 0 =>
               i = 1 /\ open /\ c.row <= Rows /\ staged = Written(c.by, c.unit, c.row - 1)

\* What task t may count on at each await; the call it waits for is the last one.
AtLine(t, k) ==
    /\ (k.at \in HeldAt) <=> (holder = t)
    /\ k.at \in DOMAIN Awaiting =>
           /\ calls # <<>>
           /\ calls[Len(calls)] = Call(t, k.at, k.unit, IF k.at = "write" THEN k.row + 1 ELSE 0)
    /\ k.at \in {"lock", "begin"} => k.row = 0
    /\ k.at = "lock" => k.for \in DOMAIN Entry
    /\ k.at = "body" => calls = <<>> /\ open /\ k.row <= Rows /\ staged = Written(t, k.unit, k.row)
Places == \A t \in Tasks : AtLine(t, task[t])

\* Without a transaction the connection's is closed, and closed it stages nothing.
Closed ==
    /\ ~Inside => ~open
    /\ ~open => staged = {}

\* The n-th unit of t is a statement of its own, or a transaction; it never is both,
\* and a unit that only waits for the lock is neither yet.
Single(t, n) ==
    \/ Row(t, n, 0) \in stored
    \/ \E i \in DOMAIN calls :
           calls[i].by = t /\ calls[i].unit = n /\ calls[i].op = "write" /\ calls[i].row = 0
Together(t, n) ==
    \/ \E r \in stored \cup staged : r.by = t /\ r.unit = n /\ r.row > 0
    \/ \E i \in DOMAIN calls : calls[i].by = t /\ calls[i].unit = n /\ ~Alone(calls[i])
    \/ (task[t].at \in Within /\ task[t].unit = n)
Apart ==
    \A t \in Tasks : \A n \in Nat :
        /\ ~(Single(t, n) /\ Together(t, n))
        /\ Single(t, n) \/ Together(t, n) =>
               n <= task[t].unit /\ (task[t].at = "lock" => n < task[t].unit)

\* What is stored stays whole, and is there for whoever was told so.
Kept ==
    /\ \A r \in staged : r.row > 0
    /\ \A r \in stored : r.row > 0 => r.row <= Rows /\ Written(r.by, r.unit, Rows) \subseteq stored
    /\ \A t \in Tasks : task[t].good => task[t].at = "final" /\ UnitRows(stored, t, task[t].unit) # {}
    /\ \A u \in told : UnitRows(stored, u[1], u[2]) # {}
    /\ ~torn

\* The lock is lost with a task that was cancelled at its last rollback.
Lost == holder = Gone => lates > 0

Inv == TypeOK /\ Queue /\ Line /\ Places /\ Closed /\ Apart /\ Kept /\ Lost
-----------------------------------------------------------------------------
\* What the rows of a transaction's first k writes are.
LEMMA WrittenHas ==
    ASSUME NEW t \in Tasks, NEW n \in Nat, NEW k \in Nat, NEW r \in Written(t, n, k)
    PROVE  r \in RowType /\ r.by = t /\ r.unit = n /\ r.row \in 1 .. k
BY DEF Written, Row, RowType

\* One more write adds its row to those before it.
LEMMA WrittenGrows ==
    ASSUME NEW t \in Tasks, NEW n \in Nat, NEW k \in Nat
    PROVE  /\ Written(t, n, 0) = {}
           /\ Written(t, n, k + 1) = Written(t, n, k) \cup {Row(t, n, k + 1)}
           /\ Written(t, n, k + 1) # {}
<1>1. Written(t, n, 0) = {}
  BY DEF Written
<1>2. 1 .. k + 1 = (1 .. k) \cup {k + 1}
  OBVIOUS
<1>3. Written(t, n, k + 1) = Written(t, n, k) \cup {Row(t, n, k + 1)}
  BY <1>2, Zenon DEF Written
<1> QED
  BY <1>1, <1>3

\* A unit whose rows are all stored counts Rows of them: stored is not torn.
LEMMA WholeUnits ==
    ASSUME Rows \in Nat \ {0}, TypeOK, Kept, Apart
    PROVE  ~Torn(stored)
<1> SUFFICES ASSUME NEW r \in stored, r.row > 0
             PROVE  Cardinality(UnitRows(stored, r.by, r.unit)) = Rows
  BY DEF Torn
<1> DEFINE S == UnitRows(stored, r.by, r.unit)
<1>1. r.by \in Tasks /\ r.unit \in Nat /\ r \in RowType
  BY DEF TypeOK, RowType
<1>2. Together(r.by, r.unit) /\ ~Single(r.by, r.unit)
  BY <1>1 DEF Apart, Together
<1>3. ASSUME NEW s \in S PROVE s \in Written(r.by, r.unit, Rows)
  <2>1. s \in RowType /\ s.by = r.by /\ s.unit = r.unit /\ s \in stored
    BY <1>3 DEF UnitRows, TypeOK
  <2>2. s = Row(r.by, r.unit, s.row)
    BY <2>1 DEF Row, RowType
  <2>3. s.row # 0
    BY <2>1, <2>2, <1>2 DEF Single
  <2>4. s.row \in 1 .. Rows
    BY <2>1, <2>3 DEF Kept, RowType
  <2> QED
    BY <2>2, <2>4 DEF Written
<1>4. Written(r.by, r.unit, Rows) \subseteq S
  BY <1>1, WrittenHas DEF Kept, UnitRows
<1>5. S = Written(r.by, r.unit, Rows)
  BY <1>3, <1>4
<1> DEFINE f == [i \in 1 .. Rows |-> Row(r.by, r.unit, i)]
<1>6. f \in Bijection(1 .. Rows, S)
  <2>1. f \in [1 .. Rows -> S]
    BY <1>5 DEF Written
  <2>2. \A i, j \in 1 .. Rows : f[i] = f[j] => i = j
    BY DEF Row
  <2>3. \A s \in S : \E i \in 1 .. Rows : f[i] = s
    BY <1>5 DEF Written
  <2> HIDE DEF f
  <2> QED
    BY <2>1, <2>2, <2>3 DEF Bijection, Injection, Surjection, IsInjective
<1> QED
  BY <1>6, FS_CountingElements DEF ExistsBijection

\* Every call of the line is a call.
LEMMA CallsTyped ==
    ASSUME TypeOK, NEW i \in DOMAIN calls
    PROVE  calls[i] \in CallType /\ i \in 1 .. Len(calls)
BY DEF TypeOK

\* A task that does not hold the connection moves.
LEMMA Elsewhere ==
    ASSUME Inv, NEW t \in Tasks, NEW k \in TaskType, task' = [task EXCEPT ![t] = k],
           task[t].at \in FreeAt, k.at \in FreeAt, k.unit >= task[t].unit, ~k.good,
           k.at = "lock" => k.row = 0 /\ k.unit > task[t].unit /\ k.for \in DOMAIN Entry,
           UNCHANGED <<holder, calls, open, staged, stored, told, torn>>
    PROVE  Line' /\ Places' /\ Closed' /\ Apart' /\ Kept'
<1>1. task \in [Tasks -> TaskType] /\ calls \in Seq(CallType)
  BY DEF Inv, TypeOK
<1>2. \A u \in Tasks : task'[u] = IF u = t THEN k ELSE task[u]
  BY <1>1
<1>3. holder # t
  BY DEF Inv, Places, AtLine, HeldAt, FreeAt, Within
<1>4. Inside' = Inside
  BY <1>2, <1>3 DEF Inside
<1>5. Line'
  <2>1. \A i \in DOMAIN calls : calls[i].by \in Tasks
    BY CallsTyped DEF Inv, CallType
  <2>2. \A i \in DOMAIN calls : calls[i].awaited => calls[i].by # t
    BY <1>3 DEF Inv, Line
  <2> QED
    BY <1>2, <1>4, <2>1, <2>2 DEF Inv, Line, Alone
<1>6. Places'
  BY <1>2, <1>3 DEF Inv, Places, AtLine, FreeAt, HeldAt, Within, Awaiting
<1>7. Closed'
  BY <1>4 DEF Inv, Closed
<1>8. Apart'
  <2>1. ASSUME NEW u \in Tasks, NEW n \in Nat
        PROVE  Single(u, n)' = Single(u, n) /\ Together(u, n)' = Together(u, n)
    BY <1>2 DEF Single, Together, Alone, Within, FreeAt
  <2>2. k.unit \in Nat /\ task[t].unit \in Nat
    BY <1>1 DEF TaskType
  <2> QED
    BY <1>2, <2>1, <2>2 DEF Inv, Apart
<1>9. Kept'
  BY <1>2 DEF Inv, Kept
<1> QED
  BY <1>5, <1>6, <1>7, <1>8, <1>9

\* A task takes the lock and hands over its first call, behind what cancelled tasks left.
LEMMA AcquireKeeps ==
    ASSUME ConnectionAssumption, Inv, NEW t \in Tasks, Acquire(t)
    PROVE  Line' /\ Places' /\ Closed' /\ Apart' /\ Kept'
<1>1. task \in [Tasks -> TaskType] /\ calls \in Seq(CallType) /\ waiting \in Seq(Tasks)
  BY DEF Inv, TypeOK
<1>2. task[t].at = "lock" /\ task[t].row = 0 /\ task[t].for \in DOMAIN Entry /\ task[t] \in TaskType
  <2>1. waiting[1] = t /\ 1 \in DOMAIN waiting
    BY <1>1 DEF Acquire
  <2> QED
    BY <1>1, <2>1 DEF Inv, Queue, Places, AtLine
<1> DEFINE to == Entry[task[t].for]
           n == task[t].unit
           c == Call(t, to, n, 0)
<1>3. to \in {"begin", "single", "read"}
  BY <1>2 DEF Entry
<1>4. task' = [task EXCEPT ![t].at = to] /\ calls' = Append(calls, c) /\ n \in Nat
  BY <1>2, <1>3 DEF Acquire, GoesOn, Awaiting, TaskType
<1>5. \A u \in Tasks : u # t => task'[u] = task[u]
  BY <1>1, <1>4
<1>6. task'[t].at = to /\ task'[t].row = 0 /\ task'[t].unit = n /\ task'[t].good = task[t].good
  BY <1>1, <1>2, <1>4 DEF TaskType
<1>7. c.by = t /\ c.unit = n /\ c.row = 0 /\ c.awaited
      /\ (Alone(c) <=> to # "begin") /\ c.op \in {"begin", "write", "read"}
      /\ (c.op = "begin" <=> to = "begin") /\ (c.op = "write" <=> to = "single")
  BY <1>3 DEF Call, Awaiting, Alone
<1>8. holder = Nobody /\ holder' = t /\ ~Inside /\ ~open /\ (Inside' <=> to = "begin")
  BY <1>3, <1>6, <1>2 DEF Acquire, Inside, ConnectionAssumption, Inv, Closed, Within, TaskType
<1>9. UNCHANGED <<open, staged, stored, told, torn>>
  BY DEF Acquire, db
<1>10. Len(calls') = Len(calls) + 1 /\ calls'[Len(calls) + 1] = c /\ Len(calls) \in Nat
       /\ DOMAIN calls' = DOMAIN calls \cup {Len(calls) + 1} /\ calls' # <<>>
       /\ \A h \in DOMAIN calls : calls'[h] = calls[h] /\ h \in 1 .. Len(calls)
  BY <1>1, <1>4
<1>11. \A h \in DOMAIN calls : Alone(calls[h]) /\ ~calls[h].awaited /\ calls[h].by \in Tasks
  BY <1>8, CallsTyped DEF Inv, Line, ConnectionAssumption, CallType
<1> HIDE DEF c, to, n
<1>12. Line'
  <2>1. ASSUME NEW i \in DOMAIN calls'
        PROVE  (i \in DOMAIN calls /\ calls'[i] = calls[i]) \/ (i = Len(calls) + 1 /\ calls'[i] = c)
    BY <1>10
  <2>2. task'[t].at = to /\ to \in DOMAIN Awaiting
    BY <1>3, <1>6 DEF Awaiting
  <2>3. ASSUME NEW i \in DOMAIN calls'
        PROVE  /\ calls'[i].awaited =>
                      i = Len(calls') /\ holder' = calls'[i].by /\ task'[calls'[i].by].at \in DOMAIN Awaiting
               /\ IF Alone(calls'[i]) THEN ~open'
                  ELSE Inside' /\ \A j \in DOMAIN calls' : j > i => calls'[j].op = "rollback"
               /\ calls'[i].op = "begin" => ~open'
               /\ calls'[i].op \notin {"commit"} /\ ~(calls'[i].op = "write" /\ calls'[i].row > 0)
    <3>1. CASE i \in DOMAIN calls /\ calls'[i] = calls[i]
      BY <3>1, <1>8, <1>9, <1>11 DEF Alone
    <3>2. CASE i = Len(calls) + 1 /\ calls'[i] = c
      <4>1. i = Len(calls') /\ \A j \in DOMAIN calls' : ~(j > i)
        BY <3>2, <1>10
      <4>2. calls'[i] = c /\ c.by = t
        BY <3>2, <1>7
      <4> QED
        BY <4>1, <4>2, <2>2, <1>7, <1>8, <1>9
    <3> QED
      BY <3>1, <3>2, <2>1
  <2> QED
    BY <2>3 DEF Line, Alone
<1>13. Places'
  <2>1. AtLine(t, task[t])'
    <3>1. c = Call(t, to, n, 0)
      BY DEF c
    <3> QED
      BY <3>1, <1>3, <1>6, <1>8, <1>9, <1>10 DEF AtLine, HeldAt, Within
  <2>2. ASSUME NEW u \in Tasks, u # t PROVE AtLine(u, task[u])'
    <3>1. task'[u] = task[u] /\ task[u].at \notin HeldAt
      BY <2>2, <1>5, <1>8 DEF Inv, Places, AtLine, ConnectionAssumption
    <3> QED
      BY <3>1, <2>2, <1>8 DEF AtLine, Inv, Places, HeldAt, Within, Awaiting
  <2> QED
    BY <2>1, <2>2 DEF Places
<1>14. Closed'
  BY <1>8, <1>9 DEF Inv, Closed
<1>15. Apart'
  <2>1. ASSUME NEW u \in Tasks, NEW m \in Nat
        PROVE  /\ Single(u, m)' => Single(u, m) \/ (u = t /\ m = n /\ to = "single")
               /\ Together(u, m)' => Together(u, m) \/ (u = t /\ m = n /\ to = "begin")
    <3>1. Single(u, m)' => Single(u, m) \/ (u = t /\ m = n /\ to = "single")
      BY <1>7, <1>9, <1>10 DEF Single
    <3>2. (task[u].at \in Within /\ task[u].unit = m)' =>
              (task[u].at \in Within /\ task[u].unit = m) \/ (u = t /\ m = n /\ to = "begin")
      BY <1>3, <1>5, <1>6 DEF Within
    <3>3. (\E i \in DOMAIN calls : calls[i].by = u /\ calls[i].unit = m /\ ~Alone(calls[i]))'
              => u = t /\ m = n /\ to = "begin"
      BY <1>7, <1>10, <1>11 DEF Alone
    <3> QED
      BY <3>1, <3>2, <3>3, <1>9 DEF Together
  <2>2. ~Single(t, n) /\ ~Together(t, n)
    BY <1>2, <1>4 DEF Inv, Apart, n
  <2> QED
    BY <2>1, <2>2, <1>4, <1>5, <1>6, <1>2, <1>3 DEF Inv, Apart, TaskType, n
<1>16. Kept'
  <2>1. ~task[t].good
    BY <1>2 DEF Inv, Kept
  <2> QED
    BY <2>1, <1>5, <1>6, <1>9 DEF Inv, Kept
<1> QED
  BY <1>12, <1>13, <1>14, <1>15, <1>16

\* While the holder moves, every other task stands where it stood.
LEMMA OthersStand ==
    ASSUME ConnectionAssumption, Inv, NEW t \in Tasks, holder = t, holder' \in {t, Nobody, Gone},
           \A u \in Tasks : u # t => task'[u] = task[u]
    PROVE  \A u \in Tasks : u # t => task[u].at \in FreeAt /\ AtLine(u, task[u])'
<1> SUFFICES ASSUME NEW u \in Tasks, u # t
             PROVE  task[u].at \in FreeAt /\ AtLine(u, task[u])'
  OBVIOUS
<1>1. task'[u] = task[u] /\ task[u] \in TaskType /\ AtLine(u, task[u]) /\ holder # u /\ holder' # u
  BY DEF Inv, TypeOK, Places, ConnectionAssumption
<1>2. task[u].at \in FreeAt
  BY <1>1 DEF AtLine, TaskType
<1> QED
  BY <1>1, <1>2 DEF AtLine, FreeAt, HeldAt, Within, Awaiting

\* The body of a transaction hands over a write, its COMMIT, or the rollback of an exception.
LEMMA BodyKeeps ==
    ASSUME ConnectionAssumption, Inv, NEW t \in Tasks, task[t].at = "body",
           NEW w \in {"write", "commit", "undo"},
           w = "write" => task[t].row < Rows, w = "commit" => task[t].row = Rows,
           GoesOn(t, w, calls), UNCHANGED <<gate, db, told, torn>>
    PROVE  Line' /\ Places' /\ Closed' /\ Apart' /\ Kept'
<1> DEFINE n == task[t].unit
           row == IF w = "write" THEN task[t].row + 1 ELSE 0
           c == Call(t, w, n, row)
<1>1. task \in [Tasks -> TaskType] /\ task[t] \in TaskType /\ AtLine(t, task[t])
  BY DEF Inv, TypeOK, Places
<1>2. holder = t /\ holder' = t /\ calls = <<>> /\ open /\ task[t].row <= Rows
      /\ staged = Written(t, n, task[t].row) /\ n \in Nat /\ task[t].row \in Nat
  BY <1>1 DEF AtLine, HeldAt, Within, TaskType, gate
<1>3. \A u \in Tasks : u # t => task'[u] = task[u]
  BY <1>1 DEF GoesOn
<1>4. task'[t].at = w /\ task'[t].row = task[t].row /\ task'[t].unit = n /\ task'[t].good = task[t].good
  BY <1>1 DEF GoesOn, TaskType
<1>5. calls' = <<c>>
  BY <1>2 DEF GoesOn, Awaiting
<1>6. DOMAIN calls' = {1} /\ calls'[1] = c /\ Len(calls') = 1 /\ calls' # <<>>
  BY <1>5
<1>7. c.by = t /\ c.unit = n /\ c.row = row /\ c.awaited /\ ~Alone(c) /\ c.op = Awaiting[w]
      /\ (c.op = "write" <=> w = "write") /\ (c.op = "commit" <=> w = "commit") /\ c.op # "begin"
  BY <1>2 DEF Call, Awaiting, Alone
<1>8. UNCHANGED <<open, staged, stored, told, torn>>
  BY DEF db
<1>9. Inside'
  BY <1>2, <1>4 DEF Inside, Within
<1> HIDE DEF c
<1>10. Line'
  <2>1. w \in DOMAIN Awaiting
    BY DEF Awaiting
  <2>2. \A i \in DOMAIN calls' : i = 1 /\ calls'[i] = c /\ \A j \in DOMAIN calls' : ~(j > i)
    BY <1>6
  <2> QED
    BY <1>2, <1>4, <1>6, <1>7, <1>8, <1>9, <2>1, <2>2 DEF Line
<1>11. Places'
  <2>1. AtLine(t, task[t])'
    BY <1>2, <1>4, <1>6 DEF AtLine, HeldAt, Within, c
  <2> QED
    BY <1>2, <1>3, <2>1, OthersStand DEF Places
<1>12. Closed'
  BY <1>2, <1>8, <1>9 DEF Closed
<1>13. Apart'
  <2>1. ASSUME NEW u \in Tasks, NEW m \in Nat
        PROVE  (Single(u, m)' => Single(u, m)) /\ (Together(u, m)' => Together(u, m))
    <3>1. Single(u, m)' => Single(u, m)
      BY <1>2, <1>6, <1>7, <1>8 DEF Single
    <3>2. Together(t, n)
      BY DEF Together, Within
    <3>3. Together(u, m)' => Together(u, m) \/ (u = t /\ m = n)
      BY <1>3, <1>4, <1>6, <1>7, <1>8 DEF Together
    <3> QED
      BY <3>1, <3>2, <3>3
  <2> QED
    BY <2>1, <1>3, <1>4 DEF Inv, Apart
<1>14. Kept'
  BY <1>3, <1>4, <1>8 DEF Inv, Kept
<1> QED
  BY <1>10, <1>11, <1>12, <1>13, <1>14

\* The calls of a task that stops waiting for them.
Unheard(t) ==
    [i \in DOMAIN calls |-> IF calls[i].by = t THEN [calls[i] EXCEPT !.awaited = FALSE]
                                               ELSE calls[i]]

\* Cancelled calls stay in line as they are, and nobody waits for them.
LEMMA UnheardStand ==
    ASSUME Inv, NEW t \in Tasks, holder = t
    PROVE  /\ Unheard(t) \in Seq(CallType) /\ Len(Unheard(t)) = Len(calls)
           /\ \A i \in DOMAIN calls :
                  LET c == Unheard(t)[i] IN
                  /\ ~c.awaited
                  /\ c.by = calls[i].by /\ c.unit = calls[i].unit
                  /\ c.op = calls[i].op /\ c.row = calls[i].row
<1>1. calls \in Seq(CallType)
  BY DEF Inv, TypeOK
<1>2. ASSUME NEW i \in DOMAIN calls
      PROVE  /\ Unheard(t)[i] \in CallType
             /\ LET c == Unheard(t)[i] IN
                  /\ ~c.awaited
                  /\ c.by = calls[i].by /\ c.unit = calls[i].unit
                  /\ c.op = calls[i].op /\ c.row = calls[i].row
  <2>1. calls[i] \in CallType
    BY <1>1
  <2>2. calls[i].awaited => calls[i].by = t
    BY DEF Inv, Line
  <2> QED
    BY <2>1, <2>2 DEF Unheard, CallType
<1>3. DOMAIN Unheard(t) = 1 .. Len(calls) /\ Len(calls) \in Nat /\ DOMAIN calls = 1 .. Len(calls)
  BY <1>1 DEF Unheard
<1>4. Unheard(t) \in [1 .. Len(calls) -> CallType]
  BY <1>2, <1>3 DEF Unheard
<1>5. Unheard(t) \in Seq(CallType)
  BY <1>3, <1>4
<1>6. Len(Unheard(t)) = Len(calls)
  BY <1>3, <1>5
<1> QED
  BY <1>2, <1>5, <1>6

\* A task is cancelled while it holds the connection: it rolls back, or goes.
LEMMA CancelKeeps ==
    ASSUME ConnectionAssumption, Inv, NEW t \in Tasks, Cancel(t), task[t].at \notin FreeAt
    PROVE  Line' /\ Places' /\ Closed' /\ Apart' /\ Kept'
<1> DEFINE at == task[t].at
           to == AfterCancel(at)
           n == task[t].unit
           cs == Unheard(t)
           c == Call(t, to, n, 0)
           back == to \in {"undo", "final"}
<1>1. task \in [Tasks -> TaskType] /\ task[t] \in TaskType /\ AtLine(t, task[t]) /\ calls \in Seq(CallType)
  BY DEF Inv, TypeOK, Places
<1>2. holder = t /\ n \in Nat /\ at \in HeldAt
  BY <1>1 DEF AtLine, TaskType
<1>3. Unwinds(t, to, cs, FALSE) /\ UNCHANGED <<open, staged, stored, torn>>
  BY DEF Cancel, FreeAt, Unheard, db
<1>4. /\ at \in {"begin", "body", "write", "commit", "undo"} => back
      /\ at = "final" => to = "escaped"
      /\ at \in {"single", "read"} => to = "freed"
      /\ at \in {"begin", "body", "write", "commit", "undo", "final", "single", "read"}
  BY <1>2 DEF AfterCancel, HeldAt, Within
<1>5. \A u \in Tasks : u # t => task'[u] = task[u]
  BY <1>1, <1>3 DEF Unwinds
<1>6. task'[t].unit = n /\ ~task'[t].good /\ (back => task'[t].at = to) /\ (~back => task'[t].at = "idle")
  BY <1>1, <1>3, <1>4 DEF Unwinds, TaskType
<1>7. /\ back => holder' = t /\ calls' = Append(cs, c)
      /\ to = "escaped" => holder' = Gone /\ calls' = cs
      /\ to = "freed" => holder' = Nobody /\ calls' = cs
  BY <1>2, <1>3 DEF Unwinds, Released, gate, Awaiting
<1>8. UNCHANGED told
  BY <1>3 DEF Unwinds
<1>9. c.by = t /\ c.unit = n /\ c.row = 0 /\ c.awaited /\ (back => c.op = "rollback" /\ ~Alone(c))
  BY DEF Call, Awaiting, Alone
<1>10. /\ cs \in Seq(CallType) /\ Len(cs) = Len(calls) /\ Len(calls) \in Nat
       /\ DOMAIN cs = DOMAIN calls /\ DOMAIN calls = 1 .. Len(calls)
       /\ \A i \in DOMAIN calls :
              /\ ~cs[i].awaited
              /\ cs[i].by = calls[i].by /\ cs[i].unit = calls[i].unit
              /\ cs[i].op = calls[i].op /\ cs[i].row = calls[i].row
  BY <1>1, <1>2, UnheardStand
<1>11. (Inside' <=> Inside) /\ (Inside <=> at \in Within)
  BY <1>2, <1>4, <1>6, <1>7 DEF Inside, Within, ConnectionAssumption
<1> HIDE DEF c, cs
<1>12. /\ back => /\ Len(calls') = Len(calls) + 1 /\ DOMAIN calls' = DOMAIN calls \cup {Len(calls) + 1}
                  /\ calls'[Len(calls) + 1] = c /\ calls' # <<>>
       /\ ~back => DOMAIN calls' = DOMAIN calls
       /\ \A i \in DOMAIN calls : calls'[i] = cs[i]
  <2>1. CASE back
    <3>1. calls' = Append(cs, c)
      BY <2>1, <1>7
    <3>2. DOMAIN calls' = 1 .. Len(calls) + 1 /\ Len(calls') = Len(calls) + 1 /\ calls'[Len(calls) + 1] = c
          /\ \A i \in 1 .. Len(calls) : calls'[i] = cs[i]
      BY <3>1, <1>10
    <3>3. 1 .. Len(calls) + 1 = (1 .. Len(calls)) \cup {Len(calls) + 1} /\ Len(calls) + 1 > 0
      BY <1>10
    <3>4. calls' # <<>>
      BY <3>2, <3>3
    <3> QED
      BY <2>1, <3>2, <3>3, <3>4, <1>10
  <2>2. CASE ~back
    BY <2>2, <1>4, <1>7, <1>10
  <2> QED
    BY <2>1, <2>2
<1>13. Line'
  <2>1. ASSUME NEW i \in DOMAIN calls'
        PROVE  i \in DOMAIN calls \/ (back /\ i = Len(calls) + 1 /\ calls'[i] = c)
    BY <1>12
  <2>2. ASSUME NEW i \in DOMAIN calls'
        PROVE  /\ calls'[i].awaited =>
                      i = Len(calls') /\ holder' = calls'[i].by /\ task'[calls'[i].by].at \in DOMAIN Awaiting
               /\ IF Alone(calls'[i]) THEN ~open'
                  ELSE Inside' /\ \A j \in DOMAIN calls' : j > i => calls'[j].op = "rollback"
               /\ calls'[i].op = "begin" => ~open'
               /\ calls'[i].op = "commit" =>
                      i = 1 /\ open' /\ staged' = Written(calls'[i].by, calls'[i].unit, Rows)
               /\ calls'[i].op = "write" /\ calls'[i].row > 0 =>
                      i = 1 /\ open' /\ calls'[i].row <= Rows
                      /\ staged' = Written(calls'[i].by, calls'[i].unit, calls'[i].row - 1)
    <3>1. CASE i \in DOMAIN calls
      <4> DEFINE a == calls'[i]
                 b == calls[i]
      <4>1. ~a.awaited /\ a.by = b.by /\ a.unit = b.unit /\ a.op = b.op /\ a.row = b.row
        BY <3>1, <1>10, <1>12
      <4>2. Alone(a) <=> Alone(b)
        BY <4>1 DEF Alone
      <4>3. ~Alone(b) => \A j \in DOMAIN calls' : j > i => calls'[j].op = "rollback"
        BY <3>1, <2>1, <1>9, <1>10, <1>12 DEF Inv, Line
      <4>4. /\ IF Alone(b) THEN ~open ELSE Inside
            /\ b.op = "begin" => ~open
            /\ b.op = "commit" => i = 1 /\ open /\ staged = Written(b.by, b.unit, Rows)
            /\ b.op = "write" /\ b.row > 0 =>
                   i = 1 /\ open /\ b.row <= Rows /\ staged = Written(b.by, b.unit, b.row - 1)
        BY <3>1 DEF Inv, Line
      <4> HIDE DEF a, b
      <4>5. /\ ~a.awaited
            /\ IF Alone(a) THEN ~open'
               ELSE Inside' /\ \A j \in DOMAIN calls' : j > i => calls'[j].op = "rollback"
            /\ a.op = "begin" => ~open'
            /\ a.op = "commit" => i = 1 /\ open' /\ staged' = Written(a.by, a.unit, Rows)
            /\ a.op = "write" /\ a.row > 0 =>
                   i = 1 /\ open' /\ a.row <= Rows /\ staged' = Written(a.by, a.unit, a.row - 1)
        BY <4>1, <4>2, <4>3, <4>4, <1>3, <1>11
      <4> QED
        BY <4>5 DEF a
    <3>2. CASE back /\ i = Len(calls) + 1 /\ calls'[i] = c
      <4>1. i = Len(calls') /\ \A j \in DOMAIN calls' : ~(j > i)
        BY <3>2, <1>10, <1>12
      <4>2. to \in DOMAIN Awaiting /\ Inside'
        BY <3>2, <1>6, <1>7 DEF Awaiting, Inside, Within
      <4> QED
        BY <3>2, <4>1, <4>2, <1>6, <1>7, <1>9
    <3> QED
      BY <3>1, <3>2, <2>1
  <2> QED
    BY <2>2 DEF Line
<1>14. Places'
  <2>1. AtLine(t, task[t])'
    <3>1. CASE back
      BY <3>1, <1>6, <1>7, <1>12 DEF AtLine, HeldAt, Within, c
    <3>2. CASE ~back
      BY <3>2, <1>4, <1>6, <1>7 DEF AtLine, HeldAt, Within, Awaiting, ConnectionAssumption
    <3> QED
      BY <3>1, <3>2
  <2> QED
    BY <1>2, <1>4, <1>5, <1>7, <2>1, OthersStand DEF Places
<1>15. Closed'
  BY <1>3, <1>11 DEF Inv, Closed
<1>16. Apart'
  <2>1. ASSUME NEW u \in Tasks, NEW m \in Nat
        PROVE  (Single(u, m)' => Single(u, m)) /\ (Together(u, m)' => Together(u, m))
    <3>1. Single(u, m)' => Single(u, m)
      <4>1. ASSUME NEW i \in DOMAIN calls', calls'[i].by = u, calls'[i].unit = m,
                   calls'[i].op = "write", calls'[i].row = 0
            PROVE  Single(u, m)
        <5>1. CASE i \in DOMAIN calls
          BY <4>1, <5>1, <1>10, <1>12 DEF Single
        <5>2. CASE back /\ i = Len(calls) + 1 /\ calls'[i] = c
          BY <4>1, <5>2, <1>9
        <5> QED
          BY <5>1, <5>2, <1>12
      <4> QED
        BY <4>1, <1>3 DEF Single
    <3>2. at \in Within => Together(t, n)
      BY DEF Together
    <3>3. back => at \in Within
      BY <1>4 DEF Within
    <3>4. (task[u].at \in Within /\ task[u].unit = m)' => Together(u, m)
      BY <1>5, <1>6, <3>2, <3>3 DEF Together, Within
    <3>5. (\E i \in DOMAIN calls : calls[i].by = u /\ calls[i].unit = m /\ ~Alone(calls[i]))'
              => Together(u, m)
      <4>1. ASSUME NEW i \in DOMAIN calls', calls'[i].by = u, calls'[i].unit = m, ~Alone(calls'[i])
            PROVE  Together(u, m)
        <5>1. CASE i \in DOMAIN calls
          BY <4>1, <5>1, <1>10, <1>12 DEF Together, Alone
        <5>2. CASE back /\ i = Len(calls) + 1 /\ calls'[i] = c
          BY <4>1, <5>2, <1>9, <3>2, <3>3
        <5> QED
          BY <5>1, <5>2, <1>12
      <4> QED
        BY <4>1
    <3> QED
      BY <3>1, <3>4, <3>5, <1>3 DEF Together
  <2> QED
    BY <2>1, <1>4, <1>5, <1>6 DEF Inv, Apart
<1>17. Kept'
  BY <1>3, <1>5, <1>6, <1>8 DEF Inv, Kept
<1> QED
  BY <1>13, <1>14, <1>15, <1>16, <1>17

\* What the worker did to the database, when it made call c.
Served(c, ok) ==
    /\ open' \in BOOLEAN /\ (open' => open \/ c.op = "begin") /\ (~open' => staged' = {})
    /\ Alone(c) => ~open'
    /\ c.op = "rollback" => ~open'
    /\ c.op = "begin" /\ ok => open' /\ staged' = {}
    /\ c.op = "write" /\ c.row > 0 /\ ok => open' /\ staged' = Written(c.by, c.unit, c.row)
    /\ c.op = "write" /\ c.row = 0 /\ ok => Row(c.by, c.unit, 0) \in stored'
    /\ c.op = "commit" /\ ok => Written(c.by, c.unit, Rows) \subseteq stored'
    /\ stored \subseteq stored' /\ stored' \in SUBSET RowType /\ staged' \in SUBSET RowType
    /\ \A r \in stored' :
           r \in stored \/ r \in staged \/ (r = Row(c.by, c.unit, 0) /\ Alone(c) /\ c.op = "write")
    /\ \A r \in staged' :
           r.row > 0 /\ (r \in staged \/ (r = Row(c.by, c.unit, c.row) /\ ~Alone(c)))
    /\ \A r \in stored' : r.row > 0 => r.row <= Rows /\ Written(r.by, r.unit, Rows) \subseteq stored'
    /\ torn' = FALSE

\* The worker makes a call: what the line says of it is enough for what it does.
LEMMA CallServed ==
    ASSUME ConnectionAssumption, Inv, calls # <<>>, NEW ok \in BOOLEAN, NEW c, c = Head(calls),
           IF ok THEN Works(c) /\ Done(c)
                 ELSE (~Works(c) \/ c.op # "rollback") /\ UNCHANGED <<db, torn>>
    PROVE  Served(c, ok)
<1>1. c \in CallType /\ 1 \in DOMAIN calls /\ c = calls[1]
  BY DEF Inv, TypeOK
<1>2. /\ c.by \in Tasks /\ c.unit \in Nat /\ c.row \in Nat
      /\ c.op \in {"begin", "write", "commit", "rollback", "read"}
  BY <1>1 DEF CallType
<1>3. /\ Alone(c) => ~open
      /\ c.op = "begin" => ~open
      /\ c.op = "commit" => open /\ staged = Written(c.by, c.unit, Rows)
      /\ c.op = "write" /\ c.row > 0 =>
             open /\ c.row <= Rows /\ staged = Written(c.by, c.unit, c.row - 1)
  BY <1>1 DEF Inv, Line
<1>4. open \in BOOLEAN /\ staged \in SUBSET RowType /\ stored \in SUBSET RowType
      /\ (~open => staged = {}) /\ torn = FALSE /\ Rows \in Nat \ {0}
      /\ (\A r \in staged : r.row > 0)
      /\ \A r \in stored : r.row > 0 => r.row <= Rows /\ Written(r.by, r.unit, Rows) \subseteq stored
  BY DEF Inv, TypeOK, Closed, Kept, ConnectionAssumption
<1>5. CASE ~ok
  BY <1>2, <1>3, <1>4, <1>5 DEF Served, Works, db, Alone
<1>6. CASE ok /\ c.op = "begin"
  BY <1>2, <1>3, <1>4, <1>6 DEF Served, Works, Done, Alone
<1>7. CASE ok /\ c.op = "commit"
  <2>1. open' = FALSE /\ stored' = stored \cup staged /\ staged' = {} /\ torn' = torn
    BY <1>7 DEF Done
  <2>2. \A r \in staged : r.row <= Rows /\ r.by = c.by /\ r.unit = c.unit
    BY <1>2, <1>3, <1>4, <1>7, WrittenHas
  <2> QED
    BY <1>2, <1>3, <1>4, <1>7, <2>1, <2>2 DEF Served, Alone
<1>8. CASE ok /\ c.op = "rollback"
  BY <1>2, <1>3, <1>4, <1>8 DEF Served, Works, Done, Alone
<1>9. CASE ok /\ c.op = "read"
  <2>1. UNCHANGED db /\ torn' = (torn \/ Torn(stored \cup staged)) /\ ~open /\ staged = {}
    BY <1>3, <1>4, <1>9 DEF Done, Alone
  <2>2. ~Torn(stored)
    BY <1>4, WholeUnits DEF Inv
  <2>3. stored \cup staged = stored
    BY <2>1
  <2> QED
    BY <1>4, <1>9, <2>1, <2>2, <2>3 DEF Served, db, Alone
<1>10. CASE ok /\ c.op = "write" /\ c.row > 0
  <2>1. staged' = staged \cup {Row(c.by, c.unit, c.row)} /\ UNCHANGED <<open, stored, torn>>
    BY <1>3, <1>10 DEF Done
  <2>2. staged' = Written(c.by, c.unit, c.row)
    <3>1. PICK k \in Nat : c.row = k + 1 /\ c.row - 1 = k
      <4>1. c.row - 1 \in Nat /\ c.row = (c.row - 1) + 1
        BY <1>2, <1>10
      <4> QED
        BY <4>1
    <3>2. staged = Written(c.by, c.unit, k)
      BY <1>3, <1>10, <3>1
    <3>3. Written(c.by, c.unit, k + 1) = Written(c.by, c.unit, k) \cup {Row(c.by, c.unit, k + 1)}
      <4>1. c.by \in Tasks /\ c.unit \in Nat
        BY <1>2
      <4>2. \A u \in Tasks : \A m, l \in Nat : Written(u, m, l + 1) = Written(u, m, l) \cup {Row(u, m, l + 1)}
        BY WrittenGrows
      <4> QED
        BY <3>1, <4>1, <4>2
    <3> QED
      BY <2>1, <3>1, <3>2, <3>3
  <2>3. Row(c.by, c.unit, c.row) \in RowType /\ Row(c.by, c.unit, c.row).row = c.row
    BY <1>2 DEF Row, RowType
  <2> QED
    BY <1>2, <1>3, <1>4, <1>10, <2>1, <2>2, <2>3 DEF Served, Alone
<1>11. CASE ok /\ c.op = "write" /\ c.row = 0
  <2>1. stored' = stored \cup {Row(c.by, c.unit, 0)} /\ UNCHANGED <<open, staged, torn>> /\ ~open
    BY <1>3, <1>11 DEF Done, Alone
  <2>2. Row(c.by, c.unit, 0) \in RowType /\ Row(c.by, c.unit, 0).row = 0
    BY <1>2 DEF Row, RowType
  <2> QED
    BY <1>2, <1>4, <1>11, <2>1, <2>2 DEF Served, Alone
<1> QED
  BY <1>2, <1>5, <1>6, <1>7, <1>8, <1>9, <1>10, <1>11

\* A row that is there afterwards belongs to a unit of its own kind.
LEMMA ServedRows ==
    ASSUME Inv, calls # <<>>, NEW ok, NEW c, c = Head(calls), Served(c, ok),
           NEW u \in Tasks, NEW m \in Nat
    PROVE  /\ Row(u, m, 0) \in stored' => Single(u, m)
           /\ (\E r \in stored' \cup staged' : r.by = u /\ r.unit = m /\ r.row > 0) => Together(u, m)
<1>1. c \in CallType /\ 1 \in DOMAIN calls /\ c = calls[1]
  BY DEF Inv, TypeOK
<1>2. c.row \in Nat /\ \A t, n, i : Row(t, n, i).by = t /\ Row(t, n, i).unit = n /\ Row(t, n, i).row = i
  BY <1>1 DEF CallType, Row
<1>3. ASSUME Row(u, m, 0) \in stored' PROVE Single(u, m)
  <2>1. Row(u, m, 0) \notin staged
    BY <1>2 DEF Inv, Kept
  <2>2. CASE Row(u, m, 0) = Row(c.by, c.unit, 0) /\ Alone(c) /\ c.op = "write"
    BY <1>1, <1>2, <2>2 DEF Single, Alone
  <2> QED
    BY <1>3, <2>1, <2>2 DEF Served, Single
<1>4. ASSUME NEW r \in stored' \cup staged', r.by = u, r.unit = m, r.row > 0 PROVE Together(u, m)
  <2>1. CASE r = Row(c.by, c.unit, c.row) /\ ~Alone(c)
    BY <1>1, <1>2, <1>4, <2>1 DEF Together
  <2>2. r # Row(c.by, c.unit, 0)
    BY <1>2, <1>4
  <2>3. CASE r \in stored \cup staged
    BY <1>4, <2>3 DEF Together
  <2> QED
    BY <1>4, <2>1, <2>2, <2>3 DEF Served
<1> QED
  BY <1>3, <1>4

\* A call that nobody waits for any more is made.
LEMMA UnawaitedKeeps ==
    ASSUME ConnectionAssumption, Inv, calls # <<>>, NEW ok \in BOOLEAN, NEW c, c = Head(calls),
           Served(c, ok), ~c.awaited, calls' = Tail(calls), UNCHANGED <<gate, task, told>>
    PROVE  Line' /\ Places' /\ Closed' /\ Apart' /\ Kept'
<1>1. c \in CallType /\ 1 \in DOMAIN calls /\ c = calls[1] /\ calls \in Seq(CallType)
      /\ task \in [Tasks -> TaskType]
  BY DEF Inv, TypeOK
<1>2. /\ Len(calls') = Len(calls) - 1 /\ Len(calls) \in Nat \ {0} /\ Len(calls') \in Nat
      /\ DOMAIN calls' = 1 .. Len(calls') /\ DOMAIN calls = 1 .. Len(calls)
  BY <1>1
<1>3. \A i \in DOMAIN calls' : i + 1 \in DOMAIN calls /\ calls'[i] = calls[i + 1] /\ i + 1 > 1
  BY <1>1, <1>2
<1>4. Inside' = Inside /\ UNCHANGED <<holder, task, told>>
  BY DEF Inside, gate
<1>5. ASSUME NEW i \in DOMAIN calls', open' PROVE calls'[i].op = "rollback"
  <2>1. CASE open
    <3>1. ~Alone(c)
      BY <1>1, <2>1 DEF Inv, Line
    <3> QED
      BY <1>1, <1>3, <3>1 DEF Inv, Line
  <2>2. CASE c.op = "begin"
    <3>1. ~Alone(c)
      BY <2>2 DEF Alone
    <3> QED
      BY <1>1, <1>3, <3>1 DEF Inv, Line
  <2> QED
    BY <1>5, <2>1, <2>2 DEF Served
<1>6. Line'
  <2>1. ASSUME NEW i \in DOMAIN calls'
        PROVE  /\ calls'[i].awaited =>
                      i = Len(calls') /\ holder' = calls'[i].by /\ task'[calls'[i].by].at \in DOMAIN Awaiting
               /\ IF Alone(calls'[i]) THEN ~open'
                  ELSE Inside' /\ \A j \in DOMAIN calls' : j > i => calls'[j].op = "rollback"
               /\ calls'[i].op = "begin" => ~open'
               /\ calls'[i].op # "commit" /\ ~(calls'[i].op = "write" /\ calls'[i].row > 0)
    <3> DEFINE a == calls'[i]
    <3>1. a = calls[i + 1] /\ i + 1 \in DOMAIN calls /\ i + 1 # 1 /\ i \in Nat
      BY <1>2, <1>3
    <3>2. a.awaited => i + 1 = Len(calls) /\ holder = a.by /\ task[a.by].at \in DOMAIN Awaiting
      BY <3>1 DEF Inv, Line
    <3>3. a.op # "commit" /\ ~(a.op = "write" /\ a.row > 0)
      BY <3>1 DEF Inv, Line
    <3>4. ~Alone(a) => Inside /\ \A j \in DOMAIN calls : j > i + 1 => calls[j].op = "rollback"
      BY <3>1 DEF Inv, Line
    <3>5. ASSUME ~Alone(a), NEW j \in DOMAIN calls', j > i PROVE calls'[j].op = "rollback"
      BY <3>1, <3>4, <3>5, <1>2, <1>3
    <3>6. open' => a.op = "rollback" /\ ~Alone(a)
      BY <1>5 DEF Alone
    <3> QED
      BY <3>1, <3>2, <3>3, <3>4, <3>5, <3>6, <1>2, <1>4
  <2> QED
    BY <2>1 DEF Line
<1>7. Places'
  <2>1. ASSUME NEW u \in Tasks PROVE AtLine(u, task[u])'
    <3>1. AtLine(u, task[u])
      BY DEF Inv, Places
    <3>2. ASSUME task[u].at \in DOMAIN Awaiting
          PROVE  calls' # <<>> /\ calls'[Len(calls')] = calls[Len(calls)]
      <4>1. calls[Len(calls)].awaited
        BY <3>1, <3>2 DEF AtLine, Call
      <4>2. Len(calls) # 1
        BY <4>1, <1>1
      <4>3. PICK i \in DOMAIN calls' : i = Len(calls') /\ i + 1 = Len(calls)
        BY <1>2, <4>2
      <4>4. calls'[i] = calls[i + 1]
        BY <1>3
      <4>5. calls' # <<>>
        BY <4>3, <1>2
      <4> QED
        BY <4>3, <4>4, <4>5
    <3> QED
      BY <3>1, <3>2, <1>4 DEF AtLine
  <2> QED
    BY <2>1 DEF Places
<1>8. Closed'
  <2>1. ASSUME ~Inside PROVE ~open'
    <3>1. Alone(c)
      BY <2>1, <1>1 DEF Inv, Line
    <3> QED
      BY <3>1 DEF Served
  <2> QED
    BY <2>1, <1>4 DEF Closed, Served
<1>9. Apart'
  <2>1. ASSUME NEW u \in Tasks, NEW m \in Nat
        PROVE  (Single(u, m)' => Single(u, m)) /\ (Together(u, m)' => Together(u, m))
    <3>1. Row(u, m, 0) \in stored' => Single(u, m)
      BY ServedRows
    <3>2. (\E r \in stored' \cup staged' : r.by = u /\ r.unit = m /\ r.row > 0) => Together(u, m)
      BY ServedRows
    <3>3. Single(u, m)' => Single(u, m)
      BY <3>1, <1>3 DEF Single
    <3>4. Together(u, m)' => Together(u, m)
      BY <3>2, <1>3, <1>4 DEF Together, Alone
    <3> QED
      BY <3>3, <3>4
  <2> QED
    BY <2>1, <1>4 DEF Inv, Apart
<1>10. Kept'
  BY <1>4 DEF Inv, Kept, Served, UnitRows
<1> QED
  BY <1>6, <1>7, <1>8, <1>9, <1>10

\* A call is made and its task goes on, or comes to the end of its unit.
LEMMA AnsweredKeeps ==
    ASSUME ConnectionAssumption, Inv, calls # <<>>, NEW ok \in BOOLEAN, NEW c, c = Head(calls),
           Served(c, ok), c.awaited, NEW t, t = c.by, NEW at, at = task[t].at,
           Unwinds(t, AfterAnswer(at, ok), Tail(calls),
                   IF at \in {"commit", "single"} THEN ok ELSE task[t].good)
    PROVE  Line' /\ Places' /\ Closed' /\ Apart' /\ Kept'
<1> DEFINE to == AfterAnswer(at, ok)
           n == task[t].unit
           k == task'[t]
           d == Call(t, to, n, 0)
           good == IF at \in {"commit", "single"} THEN ok ELSE task[t].good
<1>1. c \in CallType /\ 1 \in DOMAIN calls /\ c = calls[1] /\ calls \in Seq(CallType)
      /\ task \in [Tasks -> TaskType] /\ t \in Tasks
  <2>1. c \in CallType /\ 1 \in DOMAIN calls /\ c = calls[1] /\ calls \in Seq(CallType)
        /\ task \in [Tasks -> TaskType]
    BY DEF Inv, TypeOK
  <2> QED
    BY <2>1 DEF CallType
<1>2. Len(calls) = 1 /\ holder = t /\ at \in DOMAIN Awaiting
  <2>1. calls[1].awaited /\ calls[1].by = t
    BY <1>1
  <2> QED
    BY <1>1, <2>1 DEF Inv, Line
<1>3. AtLine(t, task[t]) /\ task[t] \in TaskType /\ n \in Nat /\ task[t].row \in Nat
  BY <1>1 DEF Inv, Places, TaskType
<1>4. c.by = t /\ c.unit = n /\ c.op = Awaiting[at] /\ c.row = (IF at = "write" THEN task[t].row + 1 ELSE 0)
  BY <1>1, <1>2, <1>3 DEF AtLine, Call
<1>5. /\ at \in {"begin", "write", "commit", "undo", "final", "single", "read"}
      /\ (at = "begin" <=> c.op = "begin") /\ (at = "commit" <=> c.op = "commit")
      /\ (at \in {"undo", "final"} <=> c.op = "rollback")
      /\ (at \in {"write", "single"} <=> c.op = "write")
      /\ (at \in {"single", "read"} <=> Alone(c))
  BY <1>2, <1>3, <1>4 DEF Awaiting, Alone
<1>6. /\ to \in {"body", "undo", "final", "freed"}
      /\ to = "freed" <=> at \in {"final", "single", "read"}
      /\ to = "body" <=> ok /\ at \in {"begin", "write"}
  <2>1. CASE at \in {"begin", "write", "commit", "undo"}
    BY <2>1 DEF AfterAnswer
  <2>2. CASE at \in {"final", "single", "read"}
    BY <2>2 DEF AfterAnswer
  <2> QED
    BY <1>5, <2>1, <2>2
<1>7. Tail(calls) = <<>>
  <2>1. Tail(calls) \in Seq(CallType) /\ Len(Tail(calls)) = 0
    BY <1>1, <1>2
  <2> QED
    BY <2>1, EmptySeq
<1>8. Unwinds(t, to, <<>>, good)
  BY <1>7
<1> HIDE DEF to, good
<1>9. \A u \in Tasks : u # t => task'[u] = task[u]
  BY <1>1, <1>6, <1>8 DEF Unwinds
<1>10. /\ to # "freed" => k.at = to /\ k.unit = n /\ k.good = good
                          /\ k.row = IF at = "write" /\ to = "body" THEN task[t].row + 1 ELSE task[t].row
       /\ to = "freed" => k.at = "idle" /\ k.unit = n /\ ~k.good
  BY <1>1, <1>3, <1>6, <1>8 DEF Unwinds, TaskType
<1>11. /\ to = "freed" => holder' = Nobody /\ calls' = <<>>
                          /\ told' = IF good THEN told \cup {<<t, n>>} ELSE told
       /\ to = "body" => holder' = t /\ calls' = <<>> /\ told' = told
       /\ to \in {"undo", "final"} => holder' = t /\ calls' = <<d>> /\ told' = told
  <2>1. CASE to = "freed"
    BY <2>1, <1>8 DEF Unwinds, Released
  <2>2. CASE to = "body"
    BY <2>2, <1>2, <1>8 DEF Unwinds, gate, Awaiting
  <2>3. CASE to \in {"undo", "final"}
    <3>1. UNCHANGED <<gate, told>> /\ calls' = Append(<<>>, d)
      BY <2>3, <1>8 DEF Unwinds, Awaiting
    <3> QED
      BY <2>3, <3>1, <1>2 DEF gate
  <2> QED
    BY <1>6, <2>1, <2>2, <2>3
<1>12. ASSUME to \in {"undo", "final"}
       PROVE  /\ d.by = t /\ d.unit = n /\ d.op = "rollback" /\ d.awaited /\ ~Alone(d)
              /\ DOMAIN calls' = {1} /\ Len(calls') = 1 /\ calls'[1] = d /\ calls' # <<>>
  <2>1. d.by = t /\ d.unit = n /\ d.op = "rollback" /\ d.awaited
    BY <1>12 DEF Call, Awaiting
  <2>2. calls' = <<d>>
    BY <1>11, <1>12
  <2> HIDE DEF d
  <2>3. DOMAIN calls' = {1} /\ Len(calls') = 1 /\ calls'[1] = d /\ calls' # <<>>
    BY <2>2
  <2> QED
    BY <2>1, <2>3 DEF Alone
<1>13. ASSUME to \in {"body", "freed"} PROVE DOMAIN calls' = {}
  BY <1>11, <1>13
<1> HIDE DEF d
<1>14. Inside' <=> to # "freed"
  BY <1>1, <1>6, <1>10, <1>11 DEF Inside, Within, ConnectionAssumption
<1>15. at \in Within <=> at \notin {"single", "read"}
  BY <1>5 DEF Within
<1>16. Line'
  <2>1. CASE to \in {"undo", "final"}
    <3>1. \A i \in DOMAIN calls' : i = 1 /\ calls'[i] = d /\ \A j \in DOMAIN calls' : ~(j > i)
      BY <2>1, <1>12
    <3>2. holder' = t /\ task'[t].at \in DOMAIN Awaiting
      BY <2>1, <1>10, <1>11 DEF Awaiting
    <3> QED
      BY <2>1, <3>1, <3>2, <1>12, <1>14 DEF Line
  <2>2. CASE to \in {"body", "freed"}
    BY <2>2, <1>13 DEF Line
  <2> QED
    BY <2>1, <2>2, <1>6
<1>17. Places'
  <2>1. AtLine(t, task[t])'
    <3>1. CASE to \in {"undo", "final"}
      BY <3>1, <1>10, <1>11, <1>12 DEF AtLine, HeldAt, Within, d
    <3>2. CASE to = "freed"
      BY <3>2, <1>1, <1>10, <1>11 DEF AtLine, HeldAt, Within, Awaiting, ConnectionAssumption
    <3>3. CASE to = "body"
      <4>1. open' /\ k.row <= Rows /\ staged' = Written(t, n, k.row)
        <5>1. CASE at = "begin"
          <6>1. k.row = 0 /\ open' /\ staged' = {}
            BY <3>3, <5>1, <1>3, <1>5, <1>6, <1>10 DEF AtLine, Served
          <6>2. Written(t, n, 0) = {}
            BY <1>1, <1>3 DEF Written
          <6> QED
            BY <6>1, <6>2 DEF ConnectionAssumption
        <5>2. CASE at = "write"
          <6>1. k.row = c.row /\ c.op = "write" /\ c.row > 0 /\ ok
            BY <3>3, <5>2, <1>3, <1>4, <1>5, <1>6, <1>10
          <6>2. open' /\ staged' = Written(t, n, c.row)
            BY <6>1, <1>4 DEF Served
          <6>3. c.row <= Rows
            BY <6>1, <1>1 DEF Inv, Line
          <6> QED
            BY <6>1, <6>2, <6>3
        <5> QED
          BY <3>3, <5>1, <5>2, <1>6
      <4> QED
        BY <3>3, <4>1, <1>10, <1>11 DEF AtLine, HeldAt, Within, Awaiting
    <3> QED
      BY <3>1, <3>2, <3>3, <1>6
  <2> QED
    BY <1>1, <1>2, <1>6, <1>9, <1>11, <2>1, OthersStand DEF Places
<1>18. Closed'
  BY <1>5, <1>6, <1>14 DEF Closed, Served
<1>19. Apart'
  <2>1. ASSUME NEW u \in Tasks, NEW m \in Nat
        PROVE  (Single(u, m)' => Single(u, m)) /\ (Together(u, m)' => Together(u, m))
    <3>1. Row(u, m, 0) \in stored' => Single(u, m)
      BY ServedRows
    <3>2. (\E r \in stored' \cup staged' : r.by = u /\ r.unit = m /\ r.row > 0) => Together(u, m)
      BY ServedRows
    <3>3. to # "freed" => Together(t, n)
      BY <1>6, <1>5, <1>15 DEF Together
    <3>4. Single(u, m)' => Single(u, m)
      BY <3>1, <1>6, <1>12, <1>13 DEF Single
    <3>5. Together(u, m)' => Together(u, m)
      <4>1. (\E i \in DOMAIN calls : calls[i].by = u /\ calls[i].unit = m /\ ~Alone(calls[i]))'
              => Together(u, m)
        BY <3>3, <1>6, <1>12, <1>13
      <4>2. (task[u].at \in Within /\ task[u].unit = m)' => Together(u, m)
        BY <3>3, <1>6, <1>9, <1>10 DEF Together, Within
      <4> QED
        BY <3>2, <4>1, <4>2 DEF Together
    <3> QED
      BY <3>4, <3>5
  <2>2. \A u \in Tasks : task'[u].unit = task[u].unit /\ (task'[u].at = "lock" => task[u].at = "lock")
    BY <1>6, <1>9, <1>10
  <2> QED
    BY <2>1, <2>2 DEF Inv, Apart
<1>20. Kept'
  <2>1. stored \subseteq stored'
    BY DEF Served
  <2>2. ASSUME good PROVE UnitRows(stored', t, n) # {} /\ to \in {"final", "freed"}
    <3>1. CASE at = "commit"
      <4>1. ok /\ Written(t, n, Rows) \subseteq stored'
        BY <2>2, <3>1, <1>4, <1>5 DEF Served, good
      <4>2. Row(t, n, 1) \in Written(t, n, Rows)
        BY DEF Written, ConnectionAssumption
      <4> QED
        BY <4>1, <4>2, <3>1 DEF UnitRows, Row, to, AfterAnswer
    <3>2. CASE at = "single"
      BY <2>2, <3>2, <1>4, <1>5, <1>6 DEF Served, good, UnitRows, Row
    <3>3. CASE at \notin {"commit", "single"}
      <4>1. task[t].good
        BY <2>2, <3>3 DEF good
      <4> QED
        BY <4>1, <2>1, <1>1, <1>6 DEF Inv, Kept, UnitRows
    <3> QED
      BY <3>1, <3>2, <3>3
  <2>3. ASSUME NEW u \in Tasks, task'[u].good
        PROVE  task'[u].at = "final" /\ UnitRows(stored', u, task'[u].unit) # {}
    <3>1. CASE u = t
      BY <2>2, <2>3, <3>1, <1>6, <1>10
    <3>2. CASE u # t
      BY <2>1, <2>3, <3>2, <1>9 DEF Inv, Kept, UnitRows
    <3> QED
      BY <3>1, <3>2
  <2>4. ASSUME NEW u \in told' PROVE UnitRows(stored', u[1], u[2]) # {}
    <3>1. CASE u \in told
      BY <3>1, <2>1 DEF Inv, Kept, UnitRows
    <3>2. CASE u = <<t, n>> /\ good
      BY <3>2, <2>2
    <3> QED
      BY <2>4, <3>1, <3>2, <1>6, <1>11
  <2> QED
    BY <2>3, <2>4 DEF Kept, Served
<1> QED
  BY <1>16, <1>17, <1>18, <1>19, <1>20

-----------------------------------------------------------------------------
(* The steps.                                                                  *)

\* The part of the types that a task's way changes.
WayTyped ==
    /\ holder \in Tasks \cup {Nobody, Gone} /\ owner \in Tasks \cup {Nobody, Gone}
    /\ waiting \in Seq(Tasks) /\ calls \in Seq(CallType) /\ task \in [Tasks -> TaskType]
    /\ told \in SUBSET (Tasks \X Nat)

\* A task's way keeps the types.
LEMMA UnwindsTyped ==
    ASSUME TypeOK, NEW t \in Tasks, NEW at \in {"body", "undo", "final", "freed", "escaped"},
           NEW cs \in Seq(CallType), NEW good \in BOOLEAN, Unwinds(t, at, cs, good)
    PROVE  WayTyped'
<1>1. task \in [Tasks -> TaskType] /\ task[t] \in TaskType
  BY DEF TypeOK
<1>2. CASE at = "freed"
  <2>1. [task[t] EXCEPT !.at = "idle", !.good = FALSE] \in TaskType
    BY <1>1 DEF TaskType, FreeAt
  <2>2. <<t, task[t].unit>> \in Tasks \X Nat
    BY <1>1 DEF TaskType
  <2>3. task' = [task EXCEPT ![t] = [task[t] EXCEPT !.at = "idle", !.good = FALSE]]
    BY <1>1, <1>2 DEF Unwinds
  <2> QED
    BY <1>1, <1>2, <2>1, <2>2, <2>3 DEF Unwinds, Released, TypeOK, WayTyped
<1>3. CASE at = "escaped"
  <2>1. [task[t] EXCEPT !.at = "idle", !.good = FALSE] \in TaskType
    BY <1>1 DEF TaskType, FreeAt
  <2>2. task' = [task EXCEPT ![t] = [task[t] EXCEPT !.at = "idle", !.good = FALSE]]
    BY <1>1, <1>3 DEF Unwinds
  <2> QED
    BY <1>1, <1>3, <2>1, <2>2 DEF Unwinds, TypeOK, WayTyped
<1>4. CASE at \in {"body", "undo", "final"}
  <2> DEFINE row == IF task[t].at = "write" /\ at = "body" THEN task[t].row + 1 ELSE task[t].row
             k == [task[t] EXCEPT !.at = at, !.good = good, !.row = row]
             c == Call(t, at, task[t].unit, 0)
  <2>1. k \in TaskType
    <3>1. row \in Nat
      BY <1>1 DEF TaskType
    <3> HIDE DEF row
    <3> QED
      BY <1>1, <1>4, <3>1 DEF TaskType, HeldAt, Within
  <2>2. task' = [task EXCEPT ![t] = k]
    BY <1>1, <1>4 DEF Unwinds
  <2>3. c \in CallType \/ at \notin DOMAIN Awaiting
    BY <1>1, <1>4 DEF Call, CallType, Awaiting, TaskType
  <2>4. calls' \in Seq(CallType)
    <3>1. calls' = IF at \in DOMAIN Awaiting THEN Append(cs, c) ELSE cs
      BY <1>4 DEF Unwinds
    <3> HIDE DEF c
    <3> QED
      BY <2>3, <3>1
  <2>5. UNCHANGED <<gate, told>>
    BY <1>4 DEF Unwinds
  <2> HIDE DEF k, c
  <2> QED
    BY <1>1, <2>1, <2>2, <2>4, <2>5 DEF gate, TypeOK, WayTyped
<1> QED
  BY <1>2, <1>3, <1>4

\* So does handing over a call.
LEMMA GoesOnTyped ==
    ASSUME TypeOK, NEW t \in Tasks, NEW at \in DOMAIN Awaiting, GoesOn(t, at, calls)
    PROVE  task' \in [Tasks -> TaskType] /\ calls' \in Seq(CallType)
<1> DEFINE c == Call(t, at, task[t].unit, IF at = "write" THEN task[t].row + 1 ELSE 0)
<1>1. task \in [Tasks -> TaskType] /\ task[t] \in TaskType /\ calls \in Seq(CallType)
  BY DEF TypeOK
<1>2. c \in CallType
  BY <1>1 DEF Call, CallType, Awaiting, TaskType
<1>3. [task[t] EXCEPT !.at = at] \in TaskType
  BY <1>1 DEF TaskType, HeldAt, Within, Awaiting
<1>4. task' = [task EXCEPT ![t] = [task[t] EXCEPT !.at = at]] /\ calls' = Append(calls, c)
  BY <1>1 DEF GoesOn
<1> HIDE DEF c
<1> QED
  BY <1>1, <1>2, <1>3, <1>4

\* Who waits for the lock, when another task than one of those moves.
LEMMA QueueStands ==
    ASSUME Inv, NEW t \in Tasks, task[t].at # "lock", waiting' = waiting,
           \A u \in Tasks : u # t => task'[u] = task[u]
    PROVE  Queue'
<1>1. \A n \in DOMAIN waiting : waiting[n] \in Tasks /\ waiting[n] # t
  BY DEF Inv, TypeOK, Queue
<1> QED
  BY <1>1 DEF Inv, Queue

\* A task that neither holds the connection nor waits for it: a read of a file.
LEMMA ReadersKeep ==
    ASSUME Inv, NEW t \in Tasks, AskReader(t) \/ TakeReader(t) \/ Read(t) \/ CancelRead(t)
    PROVE  Inv'
<1>1. task \in [Tasks -> TaskType] /\ task[t] \in TaskType /\ task[t].unit \in Nat
  BY DEF Inv, TypeOK, TaskType
<1>2. task[t].at \in {"idle", "pool", "reading"} /\ ~task[t].good
  <2>1. task[t].at \in {"idle", "pool", "reading"}
    BY DEF AskReader, TakeReader, Read, CancelRead
  <2> QED
    BY <2>1 DEF Inv, Kept
<1>3. PICK k \in TaskType : /\ task' = [task EXCEPT ![t] = k] /\ k.at \in {"idle", "pool", "reading"}
                            /\ k.unit >= task[t].unit /\ ~k.good
  <2>1. CASE AskReader(t)
    <3> DEFINE k == [task[t] EXCEPT !.at = "pool", !.for = "read", !.unit = task[t].unit + 1]
    <3>1. k.at = "pool" /\ k.unit = task[t].unit + 1 /\ k.good = task[t].good
      BY <1>1 DEF TaskType
    <3>2. k \in TaskType
      <4>1. "read" \in DOMAIN Entry /\ "pool" \in FreeAt
        BY DEF Entry, FreeAt
      <4>2. task[t].unit + 1 \in Nat
        BY <1>1
      <4> QED
        BY <1>1, <4>1, <4>2 DEF TaskType
    <3>3. task' = [task EXCEPT ![t] = k]
      BY <1>1, <2>1 DEF AskReader, TaskType
    <3> HIDE DEF k
    <3>4. k.unit >= task[t].unit
      BY <1>1, <3>1
    <3> QED
      BY <1>2, <3>1, <3>2, <3>3, <3>4
  <2>2. CASE TakeReader(t)
    <3> DEFINE k == [task[t] EXCEPT !.at = "reading"]
    <3>1. k \in TaskType /\ k.at = "reading" /\ k.unit = task[t].unit /\ k.good = task[t].good
      BY <1>1 DEF TaskType, FreeAt
    <3>2. task' = [task EXCEPT ![t] = k]
      BY <1>1, <2>2 DEF TakeReader
    <3> HIDE DEF k
    <3>3. k.unit >= task[t].unit /\ ~k.good
      BY <1>1, <1>2, <3>1
    <3> QED
      BY <3>1, <3>2, <3>3
  <2>3. CASE Read(t) \/ CancelRead(t)
    <3> DEFINE k == [task[t] EXCEPT !.at = "idle"]
    <3>1. k \in TaskType /\ k.at = "idle" /\ k.unit = task[t].unit /\ k.good = task[t].good
      BY <1>1 DEF TaskType, FreeAt
    <3>2. task' = [task EXCEPT ![t] = k]
      BY <1>1, <2>3 DEF Read, CancelRead
    <3> HIDE DEF k
    <3>3. k.unit >= task[t].unit /\ ~k.good
      BY <1>1, <1>2, <3>1
    <3> QED
      BY <3>1, <3>2, <3>3
  <2> QED
    BY <2>1, <2>2, <2>3
<1>4. UNCHANGED <<holder, waiting, owner, calls, open, staged, stored, told, file, lates, faults>>
      /\ readers' \in SUBSET Tasks /\ cancels' \in Nat
  BY DEF AskReader, TakeReader, Read, CancelRead, gate, db, Inv, TypeOK
<1>5. torn' = torn /\ torn = FALSE
  <2>1. torn = FALSE
    BY DEF Inv, TypeOK, Kept
  <2>2. CASE Read(t)
    <3>1. ~Torn(stored) \/ Rows \notin Nat \ {0}
      BY WholeUnits DEF Inv
    <3>2. Rows \in Nat \ {0}
      BY ConnectionAssumption DEF ConnectionAssumption
    <3> QED
      BY <2>1, <2>2, <3>1, <3>2 DEF Read
  <2>3. CASE AskReader(t) \/ TakeReader(t) \/ CancelRead(t)
    BY <2>1, <2>3 DEF AskReader, TakeReader, CancelRead
  <2> QED
    BY <2>2, <2>3
<1>6. TypeOK'
  BY <1>1, <1>3, <1>4, <1>5 DEF Inv, TypeOK
<1>7. Queue'
  BY <1>1, <1>2, <1>3, <1>4, QueueStands
<1>8. Line' /\ Places' /\ Closed' /\ Apart' /\ Kept'
  <2>1. task[t].at \in FreeAt
    BY <1>2 DEF FreeAt
  <2> QED
    BY <1>3, <1>4, <1>5, <2>1, Elsewhere DEF FreeAt
<1> QED
  BY <1>4, <1>6, <1>7, <1>8 DEF Inv, Lost

\* A task asks for the lock.
LEMMA AskKeeps ==
    ASSUME Inv, NEW t \in Tasks, NEW kind \in DOMAIN Entry, Ask(t, kind)
    PROVE  Inv'
<1> DEFINE k == [at |-> "lock", for |-> kind, unit |-> task[t].unit + 1, row |-> 0, good |-> FALSE]
<1>1. task \in [Tasks -> TaskType] /\ task[t] \in TaskType /\ task[t].unit \in Nat /\ waiting \in Seq(Tasks)
  BY DEF Inv, TypeOK, TaskType
<1>2. k \in TaskType /\ task' = [task EXCEPT ![t] = k] /\ task[t].at = "idle"
  BY <1>1 DEF Ask, TaskType, FreeAt
<1>3. k.at = "lock" /\ k.for \in DOMAIN Entry /\ k.unit = task[t].unit + 1 /\ k.row = 0 /\ ~k.good
  OBVIOUS
<1> HIDE DEF k
<1>4. waiting' = Append(waiting, t)
      /\ UNCHANGED <<file, holder, owner, calls, open, staged, stored, readers, told, torn, cancels, lates, faults>>
  BY DEF Ask, db
<1>5. TypeOK'
  BY <1>1, <1>2, <1>4 DEF Inv, TypeOK
<1>6. Queue'
  <2>1. \A u \in Tasks : task'[u] = IF u = t THEN k ELSE task[u]
    BY <1>1, <1>2
  <2>2. \A n \in DOMAIN waiting : waiting[n] \in Tasks /\ task[waiting[n]].at = "lock" /\ waiting[n] # t
    BY <1>1, <1>2 DEF Inv, Queue
  <2>3. \A n \in DOMAIN waiting' : (n \in DOMAIN waiting /\ waiting'[n] = waiting[n])
                                  \/ (n = Len(waiting) + 1 /\ waiting'[n] = t)
    BY <1>1, <1>4
  <2>4. \A m, n \in DOMAIN waiting : waiting[m] = waiting[n] => m = n
    BY DEF Inv, Queue
  <2> QED
    BY <1>1, <1>3, <2>1, <2>2, <2>3, <2>4 DEF Queue
<1>7. Line' /\ Places' /\ Closed' /\ Apart' /\ Kept'
  <2>1. task[t].at \in FreeAt /\ k.at \in FreeAt /\ k.unit >= task[t].unit /\ k.unit > task[t].unit
    BY <1>1, <1>2, <1>3 DEF FreeAt
  <2> QED
    BY <1>2, <1>3, <1>4, <2>1, Elsewhere
<1> QED
  BY <1>4, <1>5, <1>6, <1>7 DEF Inv, Lost

\* The lock goes to the first of its queue.
LEMMA LockTaken ==
    ASSUME Inv, NEW t \in Tasks, Acquire(t)
    PROVE  Inv'
<1>1. task \in [Tasks -> TaskType] /\ waiting \in Seq(Tasks) /\ Len(waiting) \in Nat
  BY DEF Inv, TypeOK
<1>2. waiting[1] = t /\ 1 \in DOMAIN waiting /\ task[t].at = "lock" /\ task[t].for \in DOMAIN Entry
  <2>1. waiting[1] = t /\ 1 \in DOMAIN waiting
    BY <1>1 DEF Acquire
  <2> QED
    BY <1>1, <2>1 DEF Inv, Queue, Places, AtLine
<1>3. Entry[task[t].for] \in DOMAIN Awaiting /\ GoesOn(t, Entry[task[t].for], calls)
  BY <1>2 DEF Entry, Awaiting, Acquire
<1>4. task' \in [Tasks -> TaskType] /\ calls' \in Seq(CallType)
  BY <1>3, GoesOnTyped DEF Inv
<1>5. waiting' = Tail(waiting) /\ holder' = t /\ owner' \in {t, owner}
      /\ UNCHANGED <<file, open, staged, stored, readers, told, torn, cancels, lates, faults>>
  BY DEF Acquire, db
<1>6. TypeOK'
  <2>1. waiting' \in Seq(Tasks)
    BY <1>1, <1>2, <1>5
  <2>2. owner' \in Tasks \cup {Nobody, Gone}
    BY <1>5 DEF Inv, TypeOK
  <2> QED
    BY <1>4, <1>5, <2>1, <2>2 DEF Inv, TypeOK
<1>7. Queue'
  <2>1. \A u \in Tasks : u # t => task'[u] = task[u]
    BY <1>1, <1>3 DEF GoesOn
  <2>2. \A n \in DOMAIN waiting' : n + 1 \in DOMAIN waiting /\ waiting'[n] = waiting[n + 1] /\ n \in Nat /\ n + 1 # 1
    BY <1>1, <1>5
  <2>3. \A m, n \in DOMAIN waiting : waiting[m] = waiting[n] => m = n
    BY DEF Inv, Queue
  <2>4. \A n \in DOMAIN waiting' : waiting'[n] # t /\ waiting'[n] \in Tasks
    BY <1>1, <1>2, <2>2, <2>3
  <2> QED
    BY <2>1, <2>2, <2>3, <2>4 DEF Inv, Queue
<1>8. Line' /\ Places' /\ Closed' /\ Apart' /\ Kept'
  BY AcquireKeeps, ConnectionAssumption
<1>9. Lost'
  BY <1>5, ConnectionAssumption DEF Lost, ConnectionAssumption
<1> QED
  BY <1>6, <1>7, <1>8, <1>9 DEF Inv

\* The body of a transaction goes on, ends or raises.
LEMMA BodyGoesOn ==
    ASSUME Inv, NEW t \in Tasks, Execute(t) \/ Leave(t) \/ Raise(t)
    PROVE  Inv'
<1>1. PICK w \in {"write", "commit", "undo"} :
          /\ GoesOn(t, w, calls)
          /\ w = "write" => task[t].row < Rows
          /\ w = "commit" => task[t].row = Rows
  BY DEF Execute, Leave, Raise
<1>2. task[t].at = "body" /\ UNCHANGED <<gate, db, file, readers, told, torn, cancels, lates, faults>>
  BY DEF Execute, Leave, Raise
<1>3. w \in DOMAIN Awaiting
  BY <1>1 DEF Awaiting
<1>4. task' \in [Tasks -> TaskType] /\ calls' \in Seq(CallType)
  BY <1>1, <1>3, GoesOnTyped DEF Inv
<1>5. TypeOK'
  BY <1>2, <1>4 DEF Inv, TypeOK, gate, db
<1>6. Queue'
  <2>1. \A u \in Tasks : u # t => task'[u] = task[u]
    BY <1>1 DEF GoesOn, Inv, TypeOK
  <2> QED
    BY <1>2, <2>1, QueueStands DEF gate
<1>7. Line' /\ Places' /\ Closed' /\ Apart' /\ Kept'
  BY <1>1, <1>2, BodyKeeps, ConnectionAssumption
<1> QED
  BY <1>2, <1>5, <1>6, <1>7 DEF Inv, Lost, gate

\* The queue without one of its tasks keeps the others, in their order.
LEMMA WithoutOne ==
    ASSUME TypeOK, Queue, NEW n \in DOMAIN waiting
    PROVE  /\ Without(n) \in Seq(Tasks)
           /\ \A i \in DOMAIN Without(n) : \E j \in DOMAIN waiting :
                  Without(n)[i] = waiting[j] /\ j = (IF i < n THEN i ELSE i + 1)
<1> DEFINE a == SubSeq(waiting, 1, n - 1)
           b == SubSeq(waiting, n + 1, Len(waiting))
<1>1. waiting \in Seq(Tasks) /\ n \in 1 .. Len(waiting) /\ Len(waiting) \in Nat
  BY DEF TypeOK
<1>2. a \in Seq(Tasks) /\ Len(a) = n - 1 /\ \A i \in 1 .. n - 1 : a[i] = waiting[i]
  BY <1>1
<1>3. b \in Seq(Tasks) /\ Len(b) = Len(waiting) - n
      /\ \A i \in 1 .. Len(waiting) - n : b[i] = waiting[i + n]
  BY <1>1
<1> HIDE DEF a, b
<1>4. a \o b \in Seq(Tasks) /\ Len(a \o b) = Len(waiting) - 1
      /\ \A i \in 1 .. Len(waiting) - 1 : (a \o b)[i] = IF i < n THEN a[i] ELSE b[i - n + 1]
  <2>1. a \o b \in Seq(Tasks) /\ Len(a \o b) = Len(a) + Len(b)
        /\ \A i \in 1 .. Len(a) + Len(b) : (a \o b)[i] = IF i <= Len(a) THEN a[i] ELSE b[i - Len(a)]
    BY <1>2, <1>3, ConcatProperties, Zenon
  <2>2. Len(a) + Len(b) = Len(waiting) - 1
    BY <1>1, <1>2, <1>3
  <2>3. ASSUME NEW i \in 1 .. Len(waiting) - 1
        PROVE  (i <= n - 1 <=> i < n) /\ i - (n - 1) = i - n + 1
    BY <1>1
  <2> QED
    BY <1>2, <2>1, <2>2, <2>3
<1>5. ASSUME NEW i \in 1 .. Len(waiting) - 1
      PROVE  (a \o b)[i] = waiting[IF i < n THEN i ELSE i + 1] /\ (IF i < n THEN i ELSE i + 1) \in DOMAIN waiting
  <2>1. CASE i < n
    BY <1>1, <1>2, <1>4, <1>5, <2>1
  <2>2. CASE ~(i < n)
    <3>1. i - n + 1 \in 1 .. Len(waiting) - n /\ i - n + 1 + n = i + 1
      BY <1>1, <2>2
    <3>2. b[i - n + 1] = waiting[i - n + 1 + n]
      BY <1>3, <3>1
    <3>3. (a \o b)[i] = b[i - n + 1]
      BY <1>4, <2>2
    <3>4. i + 1 \in DOMAIN waiting
      BY <1>1
    <3> QED
      BY <2>2, <3>1, <3>2, <3>3, <3>4
  <2> QED
    BY <2>1, <2>2
<1>6. Without(n) = a \o b
  BY DEF Without, a, b
<1>7. DOMAIN (a \o b) = 1 .. Len(waiting) - 1
  BY <1>4
<1> QED
  BY <1>4, <1>5, <1>6, <1>7

\* A task is cancelled, in the queue or with the connection.
LEMMA CancelledStands ==
    ASSUME Inv, NEW t \in Tasks, Cancel(t)
    PROVE  Inv'
<1>1. task \in [Tasks -> TaskType] /\ task[t] \in TaskType /\ waiting \in Seq(Tasks)
      /\ calls \in Seq(CallType) /\ lates \in Nat /\ cancels \in Nat
  BY DEF Inv, TypeOK
<1>2. UNCHANGED <<file, open, staged, stored, readers, torn, faults>>
      /\ cancels' \in Nat /\ lates' \in Nat /\ lates' >= lates
  BY <1>1 DEF Cancel, db
<1>3. CASE task[t].at = "lock"
  <2> DEFINE k == [task[t] EXCEPT !.at = "idle"]
  <2>1. k \in TaskType /\ k.at = "idle" /\ k.unit = task[t].unit /\ k.good = task[t].good
    BY <1>1 DEF TaskType, FreeAt
  <2>2. task' = [task EXCEPT ![t] = k] /\ UNCHANGED <<holder, owner, calls, told>>
    BY <1>1, <1>3 DEF Cancel
  <2>3. PICK n \in DOMAIN waiting : waiting[n] = t /\ waiting' = Without(n)
    BY <1>3 DEF Cancel
  <2> HIDE DEF k
  <2>4. waiting' \in Seq(Tasks)
        /\ \A i \in DOMAIN waiting' : \E j \in DOMAIN waiting :
               waiting'[i] = waiting[j] /\ j = (IF i < n THEN i ELSE i + 1)
    BY <2>3, WithoutOne DEF Inv
  <2>5. TypeOK'
    BY <1>1, <1>2, <2>1, <2>2, <2>4 DEF Inv, TypeOK
  <2>6. Queue'
    <3>1. \A i \in DOMAIN waiting' : i \in Nat
      BY <2>4
    <3>2. \A i, j \in DOMAIN waiting : waiting[i] = waiting[j] => i = j
      BY DEF Inv, Queue
    <3>3. n \in Nat
      BY <1>1
    <3>4. ASSUME NEW i \in DOMAIN waiting'
          PROVE  waiting'[i] # t /\ task[waiting'[i]].at = "lock" /\ waiting'[i] \in Tasks
      <4>1. PICK j \in DOMAIN waiting : waiting'[i] = waiting[j] /\ j = (IF i < n THEN i ELSE i + 1)
        BY <2>4
      <4>2. j # n
        BY <3>1, <3>3, <4>1
      <4> QED
        BY <1>1, <2>3, <3>2, <4>1, <4>2 DEF Inv, Queue
    <3>5. ASSUME NEW h \in DOMAIN waiting', NEW i \in DOMAIN waiting', waiting'[h] = waiting'[i] PROVE h = i
      <4>1. PICK j \in DOMAIN waiting : waiting'[i] = waiting[j] /\ j = (IF i < n THEN i ELSE i + 1)
        BY <2>4
      <4>2. PICK m \in DOMAIN waiting : waiting'[h] = waiting[m] /\ m = (IF h < n THEN h ELSE h + 1)
        BY <2>4
      <4>3. j = m
        BY <3>2, <3>5, <4>1, <4>2
      <4> QED
        BY <3>1, <3>3, <4>1, <4>2, <4>3
    <3> QED
      BY <1>1, <2>2, <3>4, <3>5 DEF Queue
  <2>7. Line' /\ Places' /\ Closed' /\ Apart' /\ Kept'
    <3>1. task[t].at \in FreeAt /\ k.at \in FreeAt /\ k.unit >= task[t].unit /\ ~k.good
      BY <1>1, <1>3, <2>1 DEF FreeAt, Inv, Kept, TaskType
    <3> QED
      BY <1>2, <2>1, <2>2, <3>1, Elsewhere
  <2> QED
    BY <1>1, <1>2, <2>2, <2>5, <2>6, <2>7 DEF Inv, Lost
<1>4. CASE task[t].at # "lock"
  <2> DEFINE to == AfterCancel(task[t].at)
  <2>1. task[t].at \notin FreeAt
    BY <1>4 DEF Cancel, FreeAt
  <2>2. holder = t
    BY <1>1, <2>1 DEF Inv, Places, AtLine, TaskType
  <2>3. Unwinds(t, to, Unheard(t), FALSE)
    BY <1>4 DEF Cancel, Unheard
  <2>4. to \in {"undo", "final", "freed", "escaped"} /\ (to = "escaped" <=> task[t].at = "final")
    BY <1>1, <2>1 DEF AfterCancel, TaskType, HeldAt, Within
  <2>5. Unheard(t) \in Seq(CallType)
    BY <2>2, UnheardStand
  <2>6. WayTyped'
    BY <2>3, <2>4, <2>5, UnwindsTyped DEF Inv
  <2>7. TypeOK'
    BY <1>2, <2>6 DEF Inv, TypeOK, WayTyped
  <2>8. Queue'
    <3>1. waiting' = waiting /\ \A u \in Tasks : u # t => task'[u] = task[u]
      BY <1>1, <2>3, <2>4 DEF Unwinds, gate
    <3> QED
      BY <1>4, <3>1, QueueStands
  <2>9. Lost'
    <3>1. CASE to = "escaped"
      BY <1>1, <2>4, <3>1 DEF Cancel, Lost
    <3>2. CASE to # "escaped"
      <4>1. holder' # Gone
        BY <2>2, <2>3, <2>4, <3>2, ConnectionAssumption DEF Unwinds, Released, gate, ConnectionAssumption
      <4> QED
        BY <4>1 DEF Lost
    <3> QED
      BY <3>1, <3>2
  <2> QED
    BY <2>1, <2>7, <2>8, <2>9, CancelKeeps, ConnectionAssumption DEF Inv
<1> QED
  BY <1>3, <1>4

\* The worker makes its next call, for a task that waits or for nobody.
LEMMA MakeKeeps ==
    ASSUME Inv, NEW ok \in BOOLEAN, Make(ok)
    PROVE  Inv'
<1> DEFINE c == Head(calls)
           at == task[c.by].at
           to == AfterAnswer(at, ok)
           good == IF at \in {"commit", "single"} THEN ok ELSE task[c.by].good
<1>1. calls # <<>> /\ calls \in Seq(CallType) /\ task \in [Tasks -> TaskType] /\ faults \in Nat
      /\ c \in CallType /\ c.by \in Tasks /\ 1 \in DOMAIN calls /\ c = calls[1]
  <2>1. calls # <<>> /\ calls \in Seq(CallType) /\ task \in [Tasks -> TaskType] /\ faults \in Nat
    BY DEF Inv, TypeOK, Make
  <2>2. c \in CallType /\ 1 \in DOMAIN calls /\ c = calls[1]
    BY <2>1
  <2> QED
    BY <2>1, <2>2 DEF CallType
<1>2. UNCHANGED <<file, readers, cancels, lates>> /\ faults' \in Nat
  BY <1>1 DEF Make
<1>3. IF ok THEN Works(c) /\ Done(c)
            ELSE (~Works(c) \/ c.op # "rollback") /\ UNCHANGED <<db, torn>>
  BY DEF Make
<1>4. IF c.awaited THEN Unwinds(c.by, to, Tail(calls), good)
                   ELSE calls' = Tail(calls) /\ UNCHANGED <<gate, task, told>>
  BY DEF Make
<1> HIDE DEF c
<1>5. Served(c, ok)
  BY <1>1, <1>3, CallServed, ConnectionAssumption DEF c
<1>6. Tail(calls) \in Seq(CallType)
  BY <1>1
<1>7. CASE ~c.awaited
  <2>1. calls' = Tail(calls) /\ UNCHANGED <<holder, waiting, owner, task, told>>
    BY <1>4, <1>7 DEF gate
  <2>2. TypeOK'
    BY <1>2, <1>5, <1>6, <2>1 DEF Inv, TypeOK, Served
  <2>3. Queue' /\ Lost'
    BY <1>2, <2>1 DEF Inv, Queue, Lost
  <2>4. Line' /\ Places' /\ Closed' /\ Apart' /\ Kept'
    BY <1>1, <1>5, <1>7, <1>4, UnawaitedKeeps, ConnectionAssumption DEF c
  <2> QED
    BY <2>2, <2>3, <2>4 DEF Inv
<1>8. CASE c.awaited
  <2>1. holder = c.by /\ at \in DOMAIN Awaiting
    BY <1>1, <1>8 DEF Inv, Line
  <2>2. to \in {"body", "undo", "final", "freed"}
    BY <2>1 DEF AfterAnswer, Awaiting
  <2>3. good \in BOOLEAN
    BY <1>1 DEF TaskType
  <2>4. Unwinds(c.by, to, Tail(calls), good)
    BY <1>4, <1>8
  <2> HIDE DEF good, to
  <2>5. WayTyped'
    BY <1>1, <1>6, <2>2, <2>3, <2>4, UnwindsTyped DEF Inv
  <2>6. TypeOK'
    BY <1>2, <1>5, <2>5 DEF Inv, TypeOK, Served, WayTyped
  <2>7. waiting' = waiting /\ \A u \in Tasks : u # c.by => task'[u] = task[u]
    BY <1>1, <2>2, <2>4 DEF Unwinds, gate
  <2>8. at # "lock"
    BY <2>1 DEF Awaiting
  <2>9. Queue'
    BY <1>1, <2>7, <2>8, QueueStands
  <2>10. Lost'
    <3>1. holder' # Gone
      BY <1>1, <2>1, <2>2, <2>4, ConnectionAssumption DEF Unwinds, Released, gate, ConnectionAssumption
    <3> QED
      BY <3>1 DEF Lost
  <2>11. Line' /\ Places' /\ Closed' /\ Apart' /\ Kept'
    BY <1>1, <1>5, <1>8, <2>4, AnsweredKeeps, ConnectionAssumption DEF c, to, good
  <2> QED
    BY <2>6, <2>9, <2>10, <2>11 DEF Inv
<1> QED
  BY <1>7, <1>8

\* An empty database, and nobody at it.
LEMMA InitHolds == Init => Inv
<1> SUFFICES ASSUME Init PROVE Inv
  OBVIOUS
<1> DEFINE k == [at |-> "idle", for |-> "none", unit |-> 0, row |-> 0, good |-> FALSE]
<1>1. k \in TaskType /\ task \in [Tasks -> {k}] /\ \A t \in Tasks : task[t] = k
  BY DEF Init, TaskType, FreeAt
<1>2. holder = Nobody /\ waiting = <<>> /\ owner = Nobody /\ calls = <<>> /\ open = FALSE
      /\ staged = {} /\ stored = {} /\ readers = {} /\ told = {} /\ torn = FALSE
      /\ cancels = 0 /\ lates = 0 /\ faults = 0 /\ file \in BOOLEAN
  BY DEF Init
<1>3. k.at = "idle" /\ ~k.good
  OBVIOUS
<1> HIDE DEF k
<1>4. waiting \in Seq(Tasks) /\ calls \in Seq(CallType) /\ DOMAIN waiting = {} /\ DOMAIN calls = {}
  BY <1>2
<1>5. TypeOK
  BY <1>1, <1>2, <1>4 DEF TypeOK
<1>6. Queue /\ Line /\ Closed /\ Kept /\ Lost
  BY <1>1, <1>2, <1>3, <1>4, ConnectionAssumption DEF Queue, Line, Closed, Kept, Lost, ConnectionAssumption
<1>7. Places
  BY <1>1, <1>2, <1>3, ConnectionAssumption DEF Places, AtLine, HeldAt, Within, Awaiting, ConnectionAssumption
<1>8. Apart
  BY <1>1, <1>2, <1>3, <1>4 DEF Apart, Single, Together, Within
<1> QED
  BY <1>5, <1>6, <1>7, <1>8 DEF Inv

\* Every step keeps the invariant.
LEMMA NextKeeps == Inv /\ [Next]_vars => Inv'
<1> SUFFICES ASSUME Inv, [Next]_vars PROVE Inv'
  OBVIOUS
<1>1. CASE UNCHANGED vars
  BY <1>1 DEF vars, gate, db, Inv, TypeOK, Queue, Line, Alone, Inside, Places, AtLine, Closed, Apart,
     Single, Together, Kept, UnitRows, Lost
<1>2. ASSUME NEW t \in Tasks, TaskNext(t) PROVE Inv'
  <2>1. CASE \E kind \in DOMAIN Entry : Ask(t, kind)
    BY <2>1, AskKeeps
  <2>2. CASE Acquire(t)
    BY <2>2, LockTaken
  <2>3. CASE Execute(t) \/ Leave(t) \/ Raise(t)
    BY <2>3, BodyGoesOn
  <2>4. CASE Cancel(t)
    BY <2>4, CancelledStands
  <2>5. CASE AskReader(t) \/ TakeReader(t) \/ Read(t) \/ CancelRead(t)
    BY <2>5, ReadersKeep
  <2> QED
    BY <1>2, <2>1, <2>2, <2>3, <2>4, <2>5 DEF TaskNext
<1>3. ASSUME NEW ok \in BOOLEAN, Make(ok) PROVE Inv'
  BY <1>3, MakeKeeps
<1> QED
  BY <1>1, <1>2, <1>3 DEF Next

\* The inductive invariant, always.
THEOREM ConnectionSafe == Spec => []Inv
BY InitHolds, NextKeeps, PTL DEF Spec

\* db/connection.py: whatever task is cancelled at whatever await, whichever statement
\* fails, a transaction's rows are stored all or none, an acknowledged commit or
\* statement is stored, and no read sees a part of a transaction.
THEOREM TransactionsAreWhole == Spec => []WholeOrNothing
<1>1. Inv => WholeOrNothing
  BY WholeUnits, ConnectionAssumption DEF Inv, Kept, WholeOrNothing, ConnectionAssumption
<1> QED
  BY <1>1, ConnectionSafe, PTL

\* The lock comes back from every transaction, statement and read, whatever fails in it,
\* unless a task is cancelled while it awaits its last rollback: the outer finally
\* suppresses Exception, and a CancelledError is none.
THEOREM LockLostOnlyLate == Spec => [](lates = 0 => LockComesBack)
<1>1. Inv => (lates = 0 => LockComesBack)
  BY DEF Inv, Lost, LockComesBack
<1> QED
  BY <1>1, ConnectionSafe, PTL
=============================================================================
