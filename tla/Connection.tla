----------------------------- MODULE Connection ------------------------------
(* One SQLite connection shared by every asyncio task of a process              *)
(* (db/connection.py).  A task that runs a transaction holds the connection's    *)
(* lock and is the transaction's owner from BEGIN to COMMIT or ROLLBACK; a       *)
(* single statement takes the lock for itself; a read takes a connection of the  *)
(* read pool when the database is a file.  aiosqlite hands every call to one     *)
(* worker thread, in order, and a task that is cancelled stops waiting for its   *)
(* call without taking it back.                                                 *)
EXTENDS Integers, Sequences, FiniteSets

CONSTANTS Tasks, Nobody,
          Gone,            \* a task that is over and still holds the lock
          Rows,            \* what one transaction writes: 1 .. Rows
          PoolSize,        \* _READER_POOL_SIZE
          MaxUnits,        \* bound: transactions, statements and reads of a task
          MaxCancels, MaxFaults,  \* bounds: cancellations, statements that fail
          MaxLate          \* bound: cancellations of a task awaiting its last rollback

ASSUME ConnectionAssumption ==
    /\ {Rows, PoolSize} \subseteq Nat \ {0}
    /\ {MaxUnits, MaxCancels, MaxFaults, MaxLate} \subseteq Nat
    /\ Nobody \notin Tasks /\ Gone \notin Tasks \cup {Nobody}

VARIABLES file,            \* a database file, or ":memory:" with its one connection
          holder, waiting, \* _connection_lock and the tasks in its queue
          owner,           \* _transaction_owner
          calls,           \* Seq of calls the worker thread has not made yet
          open, staged,    \* the connection's transaction and what it wrote
          stored,          \* what is committed
          readers,         \* tasks that have a read connection
          task,            \* [Tasks -> [at, unit, row]]
          told,            \* units whose task was told they are done
          torn,            \* history: a read saw some of a transaction's rows only
          cancels, lates, faults
gate == <<holder, waiting, owner>>
db == <<open, staged, stored>>
vars == <<file, gate, calls, db, readers, task, told, torn, cancels, lates, faults>>

Row(t, n, i) == [by |-> t, unit |-> n, row |-> i]
UnitRows(rows, t, n) == { r \in rows : r.by = t /\ r.unit = n }
Torn(rows) ==
    \E r \in rows : r.row > 0 /\ Cardinality(UnitRows(rows, r.by, r.unit)) # Rows

Init ==
    /\ file \in BOOLEAN
    /\ holder = Nobody /\ waiting = <<>> /\ owner = Nobody
    /\ calls = <<>> /\ open = FALSE /\ staged = {} /\ stored = {} /\ readers = {}
    /\ task = [t \in Tasks |-> [at |-> "idle", for |-> "none", unit |-> 0, row |-> 0, good |-> FALSE]]
    /\ told = {} /\ torn = FALSE /\ cancels = 0 /\ lates = 0 /\ faults = 0

-----------------------------------------------------------------------------
(* The calls a task hands to the worker, and where it waits for each.           *)
Awaiting == [begin |-> "begin", write |-> "write", commit |-> "commit",
             undo |-> "rollback", final |-> "rollback", single |-> "write", read |-> "read"]

Call(t, at, unit, row) ==
    [by |-> t, op |-> Awaiting[at], unit |-> unit, row |-> row, awaited |-> TRUE]

(* A task goes on at `at`, handing over the call it waits for there, after cs.   *)
GoesOn(t, at, cs) ==
    /\ task' = [task EXCEPT ![t].at = at]
    /\ calls' = IF at \in DOMAIN Awaiting
                THEN Append(cs, Call(t, at, task[t].unit,
                                     IF at = "write" THEN task[t].row + 1 ELSE 0))
                ELSE cs

(* The lock is handed on in the order it was asked for.                          *)
Entry == [transaction |-> "begin", statement |-> "single", read |-> "read"]

Ask(t, kind) ==
    /\ task[t].at = "idle" /\ task[t].unit < MaxUnits
    /\ kind = "read" => ~file
    /\ task' = [task EXCEPT ![t] = [at |-> "lock", for |-> kind, unit |-> @.unit + 1, row |-> 0,
                                    good |-> FALSE]]
    /\ waiting' = Append(waiting, t)
    /\ UNCHANGED <<file, holder, owner, calls, db, readers, told, torn, cancels, lates, faults>>

\* The queue once the n-th task of it no longer waits.
Without(n) == SubSeq(waiting, 1, n - 1) \o SubSeq(waiting, n + 1, Len(waiting))

Acquire(t) ==
    /\ holder = Nobody /\ waiting # <<>> /\ Head(waiting) = t
    /\ holder' = t /\ waiting' = Tail(waiting)
    /\ owner' = IF task[t].for = "transaction" THEN t ELSE owner
    /\ GoesOn(t, Entry[task[t].for], calls)
    /\ UNCHANGED <<file, db, readers, told, torn, cancels, lates, faults>>

(* The body of a transaction: another statement, its end, or an exception.       *)
Owns(t) == owner = t
Execute(t) ==
    /\ task[t].at = "body" /\ Owns(t) /\ task[t].row < Rows
    /\ GoesOn(t, "write", calls)
    /\ UNCHANGED <<file, gate, db, readers, told, torn, cancels, lates, faults>>
Leave(t) ==
    /\ task[t].at = "body" /\ task[t].row = Rows
    /\ GoesOn(t, "commit", calls)
    /\ UNCHANGED <<file, gate, db, readers, told, torn, cancels, lates, faults>>
Raise(t) ==
    /\ task[t].at = "body"
    /\ GoesOn(t, "undo", calls)
    /\ UNCHANGED <<file, gate, db, readers, told, torn, cancels, lates, faults>>

(* The end of the outer finally, and of a single statement's `async with`.       *)
Released(t) == holder' = Nobody /\ owner' = IF Owns(t) THEN Nobody ELSE owner

(* Where a task goes when its call is answered, or fails.                        *)
AfterAnswer_Strict(at, ok) ==
    CASE at = "begin"  -> IF ok THEN "body" ELSE "final"
      [] at = "write"  -> IF ok THEN "body" ELSE "undo"
      [] at = "commit" -> IF ok THEN "final" ELSE "undo"
      [] at = "undo"   -> "final"
      [] at = "final"  -> IF ok THEN "freed" ELSE "escaped"
      [] OTHER         -> "freed"
AfterAnswer(at, ok) ==
    CASE at = "begin"  -> IF ok THEN "body" ELSE "final"
      [] at = "write"  -> IF ok THEN "body" ELSE "undo"
      [] at = "commit" -> IF ok THEN "final" ELSE "undo"
      [] at = "undo"   -> "final"
      [] OTHER         -> "freed"     \* "any failure here is swallowed"

(* Where it goes when it is cancelled there: a BEGIN is outside the inner try,   *)
(* and what the outer finally suppresses is Exception, not CancelledError.       *)
AfterCancel_NoLastRollback(at) ==
    CASE at \in {"body", "write", "commit"} -> "undo"
      [] at = "undo"                        -> "final"
      [] at = "final"                       -> "escaped"
      [] OTHER                              -> "freed"
AfterCancel(at) ==
    CASE at \in {"body", "write", "commit"} -> "undo"
      [] at \in {"begin", "undo"}           -> "final"
      [] at = "final"                       -> "escaped"
      [] OTHER                              -> "freed"

(* A task takes the way `at` with cs still to be called; good: what it is told.  *)
Unwinds(t, at, cs, good) ==
    CASE at = "freed" ->
            /\ Released(t) /\ calls' = cs /\ UNCHANGED waiting
            /\ task' = [task EXCEPT ![t].at = "idle", ![t].good = FALSE]
            /\ told' = IF good THEN told \cup {<<t, task[t].unit>>} ELSE told
      [] at = "escaped" ->
            /\ holder' = Gone /\ owner' = Gone /\ calls' = cs /\ UNCHANGED <<waiting, told>>
            /\ task' = [task EXCEPT ![t].at = "idle", ![t].good = FALSE]
      [] OTHER ->
            /\ calls' = IF at \in DOMAIN Awaiting THEN Append(cs, Call(t, at, task[t].unit, 0)) ELSE cs
            /\ task' = [task EXCEPT ![t].at = at, ![t].good = good,
                            ![t].row = IF task[t].at = "write" /\ at = "body" THEN @ + 1 ELSE @]
            /\ UNCHANGED <<gate, told>>

Cancel(t) ==
    /\ cancels < MaxCancels /\ cancels' = cancels + 1
    /\ task[t].at \notin {"idle", "pool", "reading"}
    /\ task[t].at = "final" => lates < MaxLate
    /\ lates' = IF task[t].at = "final" THEN lates + 1 ELSE lates
    /\ IF task[t].at = "lock"
       THEN /\ \E n \in DOMAIN waiting : waiting[n] = t /\ waiting' = Without(n)
            /\ task' = [task EXCEPT ![t].at = "idle"]
            /\ UNCHANGED <<holder, owner, calls, told>>
       ELSE Unwinds(t, AfterCancel(task[t].at),
                    [k \in DOMAIN calls |-> IF calls[k].by = t THEN [calls[k] EXCEPT !.awaited = FALSE]
                                            ELSE calls[k]], FALSE)
    /\ UNCHANGED <<file, db, readers, torn, faults>>

-----------------------------------------------------------------------------
(* aiosqlite's worker thread makes the next call on the connection.              *)
Works(c) ==
    CASE c.op = "begin"    -> ~open
      [] c.op = "commit"   -> open
      [] c.op = "rollback" -> open
      [] OTHER             -> TRUE

Done(c) ==
    LET new == {Row(c.by, c.unit, c.row)} IN
    CASE c.op = "begin"    -> open' = TRUE /\ UNCHANGED <<staged, stored, torn>>
      [] c.op = "commit"   -> open' = FALSE /\ stored' = stored \cup staged /\ staged' = {}
                              /\ UNCHANGED torn
      [] c.op = "rollback" -> open' = FALSE /\ staged' = {} /\ UNCHANGED <<stored, torn>>
      [] c.op = "write"    -> IF open THEN staged' = staged \cup new /\ UNCHANGED <<open, stored, torn>>
                              ELSE stored' = stored \cup new /\ UNCHANGED <<open, staged, torn>>
      [] c.op = "read"     -> torn' = (torn \/ Torn(stored \cup staged)) /\ UNCHANGED db

Make(ok) ==
    /\ calls # <<>>
    /\ LET c == Head(calls) IN
       /\ IF ok THEN Works(c) /\ Done(c) /\ UNCHANGED faults
          ELSE /\ \/ ~Works(c) /\ UNCHANGED faults
                  \/ c.op # "rollback" /\ Works(c) /\ faults < MaxFaults /\ faults' = faults + 1
               /\ UNCHANGED <<db, torn>>
       /\ IF c.awaited
          THEN Unwinds(c.by, AfterAnswer(task[c.by].at, ok), Tail(calls),
                       IF task[c.by].at \in {"commit", "single"} THEN ok ELSE task[c.by].good)
          ELSE calls' = Tail(calls) /\ UNCHANGED <<gate, task, told>>
    /\ UNCHANGED <<file, readers, cancels, lates>>

(* A read of a file database: a connection of the pool, which sees what is       *)
(* committed, and is put back however the read ends.                             *)
AskReader(t) ==
    /\ file /\ task[t].at = "idle" /\ task[t].unit < MaxUnits
    /\ task' = [task EXCEPT ![t].at = "pool", ![t].for = "read", ![t].unit = @ + 1]
    /\ UNCHANGED <<file, gate, calls, db, readers, told, torn, cancels, lates, faults>>
TakeReader(t) ==
    /\ task[t].at = "pool" /\ Cardinality(readers) < PoolSize
    /\ readers' = readers \cup {t}
    /\ task' = [task EXCEPT ![t].at = "reading"]
    /\ UNCHANGED <<file, gate, calls, db, told, torn, cancels, lates, faults>>
Read(t) ==
    /\ task[t].at = "reading"
    /\ torn' = (torn \/ Torn(stored))
    /\ readers' = readers \ {t}
    /\ task' = [task EXCEPT ![t].at = "idle"]
    /\ UNCHANGED <<file, gate, calls, db, told, cancels, lates, faults>>
CancelRead(t) ==
    /\ cancels < MaxCancels /\ cancels' = cancels + 1
    /\ task[t].at \in {"pool", "reading"}
    /\ readers' = readers \ {t}
    /\ task' = [task EXCEPT ![t].at = "idle"]
    /\ UNCHANGED <<file, gate, calls, db, told, torn, lates, faults>>

-----------------------------------------------------------------------------
TaskNext(t) ==
    \/ \E kind \in DOMAIN Entry : Ask(t, kind)
    \/ Acquire(t) \/ Execute(t) \/ Leave(t) \/ Raise(t) \/ Cancel(t)
    \/ AskReader(t) \/ TakeReader(t) \/ Read(t) \/ CancelRead(t)
Next == (\E t \in Tasks : TaskNext(t)) \/ (\E ok \in BOOLEAN : Make(ok))

(* The worker makes every call; the event loop resumes whoever can go on.  The   *)
(* lock is a queue and a body ends; the pool's queue is fair as well.            *)
Fairness ==
    /\ WF_vars(\E ok \in BOOLEAN : Make(ok))
    /\ \A t \in Tasks :
          /\ WF_vars(Acquire(t)) /\ WF_vars(Execute(t) \/ Leave(t) \/ Raise(t))
          /\ SF_vars(TakeReader(t)) /\ WF_vars(Read(t))
Spec == Init /\ [][Next]_vars /\ Fairness

-----------------------------------------------------------------------------
(* What a transaction writes is in the database whole or not at all, whole when  *)
(* its task was told it committed; a single statement that was acknowledged is   *)
(* there too; and no read ever saw part of a transaction.  So it is for any       *)
(* cancellation or failure at any await.                                        *)
WholeOrNothing ==
    /\ ~Torn(stored) /\ ~torn
    /\ \A u \in told : UnitRows(stored, u[1], u[2]) # {}

(* Whoever asks for the connection gets it and comes to an end, unless a task    *)
(* was cancelled while it awaited its last rollback.                             *)
EveryUnitEnds == \A t \in Tasks : task[t].at # "idle" ~> task[t].at = "idle"

(* "Must not leave the connection lock held forever: a later, independent        *)
(* transaction has to still be able to acquire it."                              *)
LockComesBack == holder # Gone
=============================================================================
