----------------------------- MODULE RoomRecords -----------------------------
(* The words people type into a room and every place the service keeps a copy  *)
(* of them: messages, tasks, decisions, artifacts, memories, branch prompts and *)
(* context snapshots, steers, attachments, the search index, notifications, and *)
(* the chained event that records each act (services/records.py,                *)
(* conversation.py, branches.py, runs.py).  Erasing a member                    *)
(* (services/erasure.py) has to reach all of them, in many transactions, while  *)
(* the room goes on.  A text is typed once; held says which tables still show   *)
(* it.                                                                          *)
EXTENDS EventLog

CONSTANTS Users, Agent, System, Nobody,
          Members,         \* room_members: a set of <<user, room>>
          Operators,       \* processes that run erase_user
          MaxErasures      \* bound: erasures begun

ASSUME RecordsAssumption ==
    /\ Members \subseteq Users \X Rooms /\ MaxErasures \in Nat
    /\ Agent \notin Users /\ Nobody \notin [by : Users, room : Rooms, seq : Nat]

VARIABLES typed,           \* [Texts -> Nobody or who typed it, where, in which event]
          held,            \* set of <<text, table>>
          status,          \* [Texts -> status of the task or decision named by the text]
          child,           \* [Texts -> status of the task delegated from it]
          signedIn, pending,  \* users with a live session; with a request under way
          erasures, begun  \* [Operators -> erasure in progress], erasures begun
recVars == <<typed, held, status, child, signedIn, pending, erasures, begun>>
vars == <<log, counter, redactions, audits, started, typed, held, status, child, signedIn,
          pending, erasures, begun>>

TaskMoves == [created   |-> {"assigned", "cancelled"}, assigned  |-> {"completed", "cancelled"},
              completed |-> {}, cancelled |-> {}]
DecisionMoves == [proposed |-> {"active", "rejected"}, active |-> {"superseded"},
                  superseded |-> {}, rejected |-> {}]

IdleErasure == [at |-> "idle", user |-> Nobody, rows |-> {}, known |-> {}, todo |-> {}]

RecInit ==
    /\ typed = [x \in Texts |-> Nobody] /\ held = {}
    /\ status = [x \in Texts |-> "none"] /\ child = [x \in Texts |-> "none"]
    /\ signedIn = Users /\ pending = {}
    /\ erasures = [o \in Operators |-> IdleErasure] /\ begun = 0

(* A request is authenticated when it arrives and commits later; the commit       *)
(* re-reads the membership, not the session (_require_mutate_in_transaction).    *)
Request(u) ==
    /\ u \in signedIn \ pending /\ pending' = pending \cup {u}
    /\ UNCHANGED <<typed, held, status, child, signedIn, erasures, begun, log, counter, redactions>>

MayMutate(u, r) == u \in pending /\ <<u, r>> \in Members

Authored(x) == typed[x] # Nobody
EventOf(x) == log[typed[x].room][typed[x].seq]
Said(x) == Authored(x) /\ typed[x].seq > 0 /\ ~EventOf(x).payload.marker /\ EventOf(x).payload.words

(* One transaction in which a member types x and tables store it; seq is the     *)
(* event that carries it, 0 when none does.                                      *)
Types(u, r, x, tables, seq) ==
    /\ MayMutate(u, r) /\ ~Authored(x)
    /\ typed' = [typed EXCEPT ![x] = [by |-> u, room |-> r, seq |-> seq]]
    /\ held' = held \cup ({x} \X tables)
    /\ pending' = pending \ {u}
    /\ UNCHANGED <<child, signedIn, erasures, begun>>

Typed(u, r, x, tables, type) ==
    Types(u, r, x, tables, counter[r] + 1) /\ Event(r, type, u, {x}, TRUE)

SendMessage(u, r, x) ==
    /\ Typed(u, r, x, {"messages", "search_documents", "notifications"}, "message.created")
    /\ UNCHANGED status
UploadAttachment(u, r, x) ==
    Types(u, r, x, {"attachments"}, 0) /\ UNCHANGED <<status, logVars>>
CreateTask(u, r, x) ==
    /\ Typed(u, r, x, {"tasks", "search_documents"}, "task.created")
    /\ status' = [status EXCEPT ![x] = "created"]
CreateDecision(u, r, x) ==
    /\ Typed(u, r, x, {"decisions", "search_documents"}, "decision.created")
    /\ status' = [status EXCEPT ![x] = "proposed"]
CreateArtifact(u, r, x) ==
    Typed(u, r, x, {"artifacts"}, "artifact.created") /\ UNCHANGED status
CreateRoom(u, r, x) ==
    Typed(u, r, x, {"rooms"}, "room.created") /\ UNCHANGED status
Intervene(u, r, x) ==
    Typed(u, r, x, {"interventions"}, "human.redirected_agent") /\ UNCHANGED status
CreateMemory(u, r, x) ==
    /\ Types(u, r, x, {"memories"}, 0) /\ Event(r, "memory.created", u, {}, FALSE)
    /\ UNCHANGED status
ReviewApproval(u, r, x) ==
    /\ Types(u, r, x, {"approvals"}, 0) /\ Event(r, "approval.granted", u, {}, FALSE)
    /\ UNCHANGED status
StartSynthesis(u, r, x) ==
    /\ Types(u, r, x, {"branch_syntheses"}, 0)
    /\ Event(r, "branch.synthesis.started", u, {}, FALSE) /\ UNCHANGED status

(* open_agent_task: the event points at the words, agent_task_messages has them. *)
OpenAgentTask(u, r, x) ==
    /\ Types(u, r, x, {"agent_task_messages"}, counter[r] + 1)
    /\ Event(r, "task.delegated", u, {x}, FALSE) /\ UNCHANGED status

(* start_branch freezes the room's recent messages and events as a copy.         *)
SnapshotOf(r) ==
    { y \in Texts : Authored(y) /\ typed[y].room = r /\ (<<y, "messages">> \in held \/ Said(y)) }
StartBranch(u, r, x) ==
    /\ MayMutate(u, r) /\ ~Authored(x)
    /\ typed' = [typed EXCEPT ![x] = [by |-> u, room |-> r, seq |-> 0]]
    /\ held' = held \cup ({x} \X {"branches", "executions"}) \cup (SnapshotOf(r) \X {"snapshots"})
    /\ pending' = pending \ {u}
    /\ Event(r, "branch.started", u, {}, FALSE)
    /\ UNCHANGED <<status, child, signedIn, erasures, begun>>

-----------------------------------------------------------------------------
(* A task or a decision moves: the row is read, judged and written back inside  *)
(* one transaction, and the title that was read is indexed again.               *)
Reindexed_FromMemory(x) == {<<x, "tasks">>, <<x, "search_documents">>}
Reindexed(x) == IF <<x, "tasks">> \in held THEN {<<x, "search_documents">>} ELSE {}

MoveTask(u, x, to, type, actor) ==
    /\ Authored(x) /\ status[x] \in DOMAIN TaskMoves
    /\ MayMutate(u, typed[x].room) /\ to \in TaskMoves[status[x]]
    /\ status' = [status EXCEPT ![x] = to]
    /\ held' = held \cup Reindexed(x)
    /\ pending' = pending \ {u}
    /\ Event(typed[x].room, type, actor, {x}, FALSE)
    /\ UNCHANGED <<typed, child, signedIn, erasures, begun>>

AssignTask(u, x) == MoveTask(u, x, "assigned", "task.assigned", Agent)
CompleteTask(u, x) == MoveTask(u, x, "completed", "task.completed", Agent)
CancelTask(u, x) == MoveTask(u, x, "cancelled", "task.cancelled", typed[x].by)

(* delegate_task writes a second task whose title and description are the first's.*)
DelegateTask(u, x) ==
    /\ Authored(x) /\ status[x] \in DOMAIN TaskMoves /\ child[x] = "none"
    /\ MayMutate(u, typed[x].room)
    /\ child' = [child EXCEPT ![x] = "assigned"]
    /\ held' = held \cup (IF <<x, "tasks">> \in held
                          THEN {<<x, "delegated tasks">>, <<x, "delegated search_documents">>} ELSE {})
    /\ pending' = pending \ {u}
    /\ Event(typed[x].room, "task.delegated", Agent, {x}, FALSE)
    /\ UNCHANGED <<typed, status, signedIn, erasures, begun>>

UpdateDecision(u, x, to) ==
    /\ Authored(x) /\ status[x] \in DOMAIN DecisionMoves
    /\ MayMutate(u, typed[x].room) /\ to \in DecisionMoves[status[x]]
    /\ status' = [status EXCEPT ![x] = to]
    /\ pending' = pending \ {u}
    /\ Event(typed[x].room, IF to = "superseded" THEN "decision.superseded" ELSE "decision.updated",
             u, {x}, FALSE)
    /\ UNCHANGED <<typed, held, child, signedIn, erasures, begun>>

-----------------------------------------------------------------------------
(* erase_user.  The member's events are listed once, outside any transaction;   *)
(* every row is judged on the payload read then.                                *)
CarriesPersonal(row) ==
    ~row.payload.marker /\ (row.payload.words \/ (row.type = "task.delegated" /\ row.actor # Agent))

RowsIn(u, r) ==
    { [room |-> r, seq |-> n, personal |-> CarriesPersonal(log[r][n])] :
          n \in { m \in DOMAIN log[r] : log[r][m].actor = u } }
RowsOf(u) == UNION { RowsIn(u, r) : r \in Rooms }

BeginErasure(o, u) ==
    /\ erasures[o].at \in {"idle", "done"} /\ begun < MaxErasures
    /\ begun' = begun + 1
    /\ erasures' = [erasures EXCEPT ![o] =
           [at |-> "rooms", user |-> u,
            rows |-> RowsOf(u),
            known |-> { x \in Texts : Authored(x) /\ typed[x].by = u }, todo |-> {}]]
    /\ UNCHANGED <<typed, held, status, child, signedIn, pending, logVars>>

(* What the redacted events take with them: the rows they wrote, the copies of    *)
(* those rows for searching, and the snapshots branches took of them;             *)
(* notifications of the room and the member's steers in it go too.               *)
Abouts(r, hit) == UNION { log[r][n].payload.about : n \in hit }
Created(r, hit, type) == Abouts(r, { n \in hit : log[r][n].type = type })
InMessages(r, hit) == Created(r, hit, "message.created") \X {"messages", "search_documents"}
InTasks(r, hit) == Created(r, hit, "task.created") \X {"tasks", "search_documents"}
InDecisions(r, hit) == Created(r, hit, "decision.created") \X {"decisions", "search_documents"}
InAgentTasks(r, hit) == Created(r, hit, "task.delegated") \X {"agent_task_messages"}
InRoom(r, hit) == Created(r, hit, "room.created") \X {"rooms"}
InArtifacts(r, hit) == Created(r, hit, "artifact.created") \X {"artifacts"}
InSnapshots(r, hit) == Abouts(r, hit) \X {"snapshots"}
InNotifications(r) == { c \in held : typed[c[1]].room = r /\ c[2] = "notifications" }
InSteers(u, r) ==
    { c \in held : typed[c[1]].room = r /\ typed[c[1]].by = u /\ c[2] = "interventions" }
Taken(u, r, hit) ==
    UNION {InMessages(r, hit), InTasks(r, hit), InDecisions(r, hit), InAgentTasks(r, hit),
           InRoom(r, hit), InArtifacts(r, hit), InSnapshots(r, hit), InNotifications(r), InSteers(u, r)}

EraseRoom(o, r) ==
    LET e == erasures[o]
        rows == { w \in e.rows : w.room = r }
        hit == { w.seq : w \in { v \in rows : v.personal } }
    IN
    /\ e.at = "rooms" /\ rows # {}
    /\ IF \E n \in hit : RecordOf(r, n) # {}
       THEN \* event_redactions refuses the second record: the transaction rolls back, the call raises
            erasures' = [erasures EXCEPT ![o] = IdleErasure] /\ UNCHANGED <<held, logVars>>
       ELSE /\ erasures' = [erasures EXCEPT ![o].rows = @ \ rows]
            /\ held' = held \ Taken(e.user, r, hit)
            /\ IF hit = {} THEN UNCHANGED logVars
               ELSE LET names == { RedactionOf(r, log[r][n]) : n \in hit } IN
                    /\ redactions' = redactions \cup names
                    /\ AppendTo(r, Redacted(log[r], hit), "event.redacted", System,
                                Payload({}, FALSE, names))
    /\ UNCHANGED <<typed, status, child, signedIn, pending, begun>>

(* Then one table after another, each by its own author column: its rows are      *)
(* listed when the one before is through, and each goes in its own transaction.  *)
SweepOrder == <<"rooms", "attachments", "branch_syntheses", "branches", "memories", "approvals", "user">>
AfterStage(at) == SweepOrder[1 + CHOOSE n \in 1 .. 6 : SweepOrder[n] = at]
AlsoSwept_OneTable(at) == {at}
AlsoSwept(at) == IF at = "branches" THEN {"branches", "executions"} ELSE {at}
TextsIn(u, at) ==
    { x \in Texts : Authored(x) /\ typed[x].by = u /\ \E c \in held : c[1] = x /\ c[2] \in AlsoSwept(at) }

NextTable(o) ==
    LET e == erasures[o]
        next == AfterStage(e.at)
    IN
    /\ e.at \notin {"idle", "user", "done"} /\ e.rows = {} /\ e.todo = {}
    /\ erasures' = [erasures EXCEPT ![o] = [e EXCEPT !.at = next, !.todo = TextsIn(e.user, next)]]
    /\ UNCHANGED <<typed, held, status, child, signedIn, pending, begun, logVars>>

SweepRow(o, x) ==
    /\ x \in erasures[o].todo
    /\ held' = held \ ({x} \X AlsoSwept(erasures[o].at))
    /\ erasures' = [erasures EXCEPT ![o].todo = @ \ {x}]
    /\ UNCHANGED <<typed, status, child, signedIn, pending, begun, logVars>>

(* The tombstone, and every session of the member revoked.                       *)
Tombstone(o) ==
    /\ erasures[o].at = "user"
    /\ signedIn' = signedIn \ {erasures[o].user}
    /\ erasures' = [erasures EXCEPT ![o].at = "done"]
    /\ UNCHANGED <<typed, held, status, child, pending, begun, logVars>>

(* The process that runs the erasure dies between two of its transactions.       *)
CrashErasure(o) ==
    /\ erasures[o].at \notin {"idle", "done"}
    /\ erasures' = [erasures EXCEPT ![o] = IdleErasure]
    /\ UNCHANGED <<typed, held, status, child, signedIn, pending, begun, logVars>>

-----------------------------------------------------------------------------
Author(u, r, x) ==
    \/ SendMessage(u, r, x) \/ UploadAttachment(u, r, x) \/ CreateTask(u, r, x)
    \/ CreateDecision(u, r, x) \/ CreateArtifact(u, r, x) \/ CreateRoom(u, r, x)
    \/ Intervene(u, r, x) \/ CreateMemory(u, r, x) \/ ReviewApproval(u, r, x)
    \/ StartSynthesis(u, r, x) \/ OpenAgentTask(u, r, x) \/ StartBranch(u, r, x)

Move(u, x) ==
    \/ AssignTask(u, x) \/ CompleteTask(u, x) \/ CancelTask(u, x) \/ DelegateTask(u, x)
    \/ \E to \in DOMAIN DecisionMoves : UpdateDecision(u, x, to)

EraseNext(o) ==
    \/ \E u \in Users : BeginErasure(o, u)
    \/ \E r \in Rooms : EraseRoom(o, r)
    \/ \E x \in Texts : SweepRow(o, x)
    \/ NextTable(o) \/ Tombstone(o) \/ CrashErasure(o)

Init == LogInit /\ RecInit
Next ==
    \/ /\ \/ \E u \in Users : Request(u)
          \/ \E u \in Users, r \in Rooms, x \in Texts : Author(u, r, x)
          \/ \E u \in Users, x \in Texts : Move(u, x)
          \/ \E o \in Operators : EraseNext(o)
       /\ UNCHANGED auditVars
    \/ AuditNext /\ UNCHANGED recVars
Spec == Init /\ [][Next]_vars

-----------------------------------------------------------------------------
Gone(x) == Authored(x) /\ typed[x].seq > 0 /\ EventOf(x).payload.marker
Delegated == {"delegated tasks", "delegated search_documents"}

(* Where the code leaves a title for good: with the delegated task, and where a   *)
(* review of what the ontology says of the row quoted it, in ontology_reviews and *)
(* in the payload of the review's event, which no redaction looks into.           *)
Quoted == {"ontology_reviews", "review events"}
Unreached == Delegated \cup Quoted

(* Once the event that recorded a text is redacted, none but those places shows  *)
(* the text, then or ever after: no re-indexed title, no branch snapshot taken    *)
(* across the erasure, no notification brings it back.                           *)
NothingErasedComesBack ==
    \A x \in Texts : Gone(x) => \A c \in held : c[1] = x => c[2] \in Unreached

(* A finished erasure has reached everything the member had typed when it began, *)
(* in every table but those, whatever other erasures ran, failed or died          *)
(* meanwhile.                                                                    *)
ErasureReachesAll ==
    \A o \in Operators : erasures[o].at = "done" =>
        \A x \in erasures[o].known :
            ~Said(x) /\ \A c \in held : c[1] = x => c[2] \in Unreached

(* "redacted -- actively scrubbed by erasure code today: a message, a task/decision *)
(* title": no row of tasks shows a title whose author was erased from the room.  *)
NoTitleOutlivesErasure ==
    \A x \in Texts : Gone(x) => <<x, "tasks">> \notin held /\ <<x, "delegated tasks">> \notin held

(* The log keeps what RoomHistory promises.                                      *)
HistoryOf == [r \in Rooms |-> [n \in DOMAIN log[r] |->
    [type |-> log[r][n].type, actor |-> log[r][n].actor,
     said |-> IF log[r][n].payload.marker THEN Genesis ELSE log[r][n].hash]]]
History == INSTANCE RoomHistory WITH Blank <- Genesis, history <- HistoryOf
KeepsHistory == History!Spec
=============================================================================
