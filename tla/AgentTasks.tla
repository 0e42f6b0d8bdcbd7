----------------------------- MODULE AgentTasks -----------------------------
(* Agent tasks, the A2A surface: a person asks an agent, an agent asks another  *)
(* (services/agent_tasks.py, AgentTaskRepo), a background dispatcher runs the    *)
(* task, the end of its run ends it, sweeps heal what a dead process left, and   *)
(* callers watch it over a stream (api/a2a.py).  A run is seen only as open or   *)
(* settled: RunLifecycle is the module about how it gets from one to the other.  *)
(* Every move compares and swaps the state its handler had read, so a handler    *)
(* that read another state changes nothing; a move is one step here.             *)
EXTENDS Integers, Sequences, FiniteSets, Functions

CONSTANTS Tasks, Agents, People, Streams, NoTask, NoAgent,
          MaxDepth,        \* MAX_DELEGATION_DEPTH
          TaskQueueSize,   \* the hub's queue
          MaxRuns, MaxMoves, MaxStartups, MaxCrashes, MaxRefusals  \* bounds

ASSUME TasksAssumption ==
    MaxDepth \in Nat /\ TaskQueueSize \in Nat \ {0} /\ NoTask \notin Tasks

VARIABLES task,            \* [Tasks -> NoTask or agent_tasks row with its chain]
          run,             \* Seq of executions made for tasks, in order
          asks,            \* delegations past their gates, not committed
          handed,          \* {<<task, by>>}: turns a process owes in memory
          driven,          \* runs this process is driving
          unlogged,        \* {<<task, state>>}: moves whose event comes in a second transaction
          told,            \* Seq(<<task, state>>): task events of the room log
          onAir,           \* events logged and not yet broadcast
          stream,          \* [Streams -> one _task_events generator]
          startups, crashed, refused, moves
taskVars == <<task, run, asks, handed, driven, unlogged, told, onAir, stream,
              startups, crashed, refused, moves>>

Done == {"COMPLETED", "FAILED", "CANCELED", "REJECTED"}
Waiting == {"INPUT_REQUIRED", "AUTH_REQUIRED"}
LegalTransitions ==
    [s \in {"SUBMITTED", "WORKING"} \cup Waiting \cup Done |->
        CASE s = "SUBMITTED"      -> {"WORKING", "REJECTED", "CANCELED", "AUTH_REQUIRED"}
          [] s = "WORKING"        -> Waiting \cup {"COMPLETED", "FAILED", "CANCELED"}
          [] s = "INPUT_REQUIRED" -> {"WORKING", "CANCELED", "FAILED"}
          [] s = "AUTH_REQUIRED"  -> {"WORKING", "CANCELED", "FAILED", "REJECTED"}
          [] OTHER                -> {}]
AnyState == DOMAIN LegalTransitions

(* An agent_tasks row: its chain and the person at its root are those its parent  *)
(* rows give; legacy marks the row an older process left.                        *)
TaskRows ==
    [state : AnyState, run : Nat, agent : Agents, by : Agents \cup {NoAgent}, root : People,
     chain : Seq(Agents), legacy : BOOLEAN]
ASSUME NoTaskAssumption == NoTask \notin TaskRows

Exists(t) == task[t] # NoTask
Over(t) == task[t].state \in Done
Answering(t) == task[t].run # 0 /\ ~run[task[t].run].settled

NewTask(agent, by, root, chain) ==
    [state |-> "SUBMITTED", run |-> 0, agent |-> agent, by |-> by, root |-> root,
     chain |-> chain, legacy |-> FALSE]
NewRun(t) == [task |-> t, agent |-> task[t].agent, claimed |-> FALSE, settled |-> FALSE]
Quiet == [at |-> "off", of |-> NoTask, last |-> "SUBMITTED", queue |-> <<>>, behind |-> FALSE]

(* A row an older process left: WORKING behind a run that has settled.           *)
TaskInit ==
    /\ \/ task = [t \in Tasks |-> NoTask] /\ run = <<>>
       \/ \E t \in Tasks, a \in Agents, p \in People :
             /\ task = [u \in Tasks |-> IF u # t THEN NoTask ELSE
                   [NewTask(a, NoAgent, p, <<>>) EXCEPT !.state = "WORKING", !.run = 1, !.legacy = TRUE]]
             /\ run = <<[task |-> t, agent |-> a, claimed |-> TRUE, settled |-> TRUE]>>
    /\ asks = {} /\ handed = {} /\ driven = {} /\ unlogged = {} /\ told = <<>> /\ onAir = {}
    /\ stream = [s \in Streams |-> Quiet]
    /\ startups = 0 /\ crashed = 0 /\ refused = 0 /\ moves = 0

(* The room event of a move, committed with it; its broadcast comes later.       *)
Tells(ms) ==
    /\ told' = told \o ms
    /\ onAir' = onAir \cup (Len(told) + 1 .. Len(told) + Len(ms))
(* ... or committed and broadcast by _append_agent_task_event after it.          *)
TellsLater(t, state) ==
    unlogged' = unlogged \cup {<<t, state>>} /\ UNCHANGED <<told, onAir>>

-----------------------------------------------------------------------------
(* open_agent_task.                                                             *)

(* message/send, message/stream: committed, announced and handed to a background *)
(* task of this process.                                                         *)
Accept(t, p, a) ==
    /\ ~Exists(t)
    /\ task' = [task EXCEPT ![t] = NewTask(a, NoAgent, p, <<>>)]
    /\ Tells(<< <<t, "SUBMITTED">> >>)
    /\ handed' = handed \cup {<<t, "accept">>}
    /\ UNCHANGED <<run, asks, driven, unlogged, stream, startups, crashed, refused, moves>>

(* _delegating_task: the task an agent's latest open run is serving.              *)
OpenRuns(a) == { r \in DOMAIN run : run[r].agent = a /\ ~run[r].settled }
ServedBy(a) ==
    { t \in Tasks : /\ Exists(t) /\ ~Over(t) /\ task[t].agent = a
                    /\ \E r \in OpenRuns(a) : task[t].run = r /\ \A q \in OpenRuns(a) : q <= r }

(* require_delegable *)
Delegable_LastHop(chain, a) == chain[Len(chain)] # a /\ Len(chain) <= MaxDepth
Delegable(chain, a) == a \notin Range(chain) /\ Len(chain) <= MaxDepth

Ask(a, b) ==
    /\ \E parent \in ServedBy(a) :
          LET chain == Append(task[parent].chain, a) IN
          /\ Delegable(chain, b)
          /\ asks' = asks \cup {NewTask(b, a, task[parent].root, chain)}
    /\ UNCHANGED <<task, run, handed, driven, unlogged, told, onAir, stream, startups, crashed, refused, moves>>
CommitAsk(k, t) ==
    /\ k \in asks /\ asks' = asks \ {k}
    /\ ~Exists(t) /\ task' = [task EXCEPT ![t] = k]
    /\ Tells(<< <<t, "SUBMITTED">> >>)
    /\ UNCHANGED <<run, handed, driven, unlogged, stream, startups, crashed, refused, moves>>

-----------------------------------------------------------------------------
(* _dispatch_agent_task_run: start, claim, drive, end.                           *)

(* start_agent_task reads the task again, moves it to WORKING from wherever it    *)
(* stands, and attaches a new run, in one transaction.                           *)
MayStart(t) == "WORKING" \in LegalTransitions[task[t].state]
Attached(t, r) == [task EXCEPT ![t].state = "WORKING", ![t].run = r]
StartTask(h) ==
    /\ h \in handed /\ handed' = handed \ {h}
    /\ LET t == h[1] IN
       IF MayStart(t)
       THEN /\ Len(run) < MaxRuns
            /\ run' = Append(run, NewRun(t))
            /\ task' = Attached(t, Len(run) + 1)
            /\ driven' = driven \cup {Len(run) + 1}
            /\ Tells(<< <<t, "WORKING">> >>)
       ELSE UNCHANGED <<run, task, driven, told, onAir>>
    /\ UNCHANGED <<asks, unlogged, stream, startups, crashed, refused, moves>>
(* The start is refused (the grant went, the agent left, the budget is spent):   *)
(* logged, and the task stays as it was.                                         *)
StartRefused(h) ==
    /\ h \in handed /\ handed' = handed \ {h}
    /\ refused < MaxRefusals /\ refused' = refused + 1
    /\ UNCHANGED <<task, run, asks, driven, unlogged, told, onAir, stream, startups, crashed, moves>>
ClaimRun(r) ==
    /\ r \in driven /\ ~run[r].claimed
    /\ IF run[r].settled THEN driven' = driven \ {r} /\ UNCHANGED run
                         ELSE run' = [run EXCEPT ![r].claimed = TRUE] /\ UNCHANGED driven
    /\ UNCHANGED <<task, asks, handed, unlogged, told, onAir, stream, startups, crashed, refused, moves>>

-----------------------------------------------------------------------------
(* settle_for_execution_in_transaction: in the transaction that settles a run.   *)

ServedTask_Any(r) == { t \in Tasks : Exists(t) /\ run[r].task = t /\ ~Over(t) }
ServedTask_Working(r) == { t \in Tasks : Exists(t) /\ task[t].run = r /\ task[t].state = "WORKING" }
ServedTask_Open(r) == { t \in Tasks : Exists(t) /\ task[t].run = r /\ ~Over(t) /\ ~run[r].settled }
ServedTask(r) == { t \in Tasks : Exists(t) /\ task[t].run = r /\ ~Over(t) }

Outcome(t, kind) ==
    CASE kind = "END_TURN"                    -> "COMPLETED"
      [] kind \in {"CANCELLED", "AGENT_REMOVED"} -> "CANCELED"
      [] kind = "APPROVAL_REFUSED" /\ task[t].state = "AUTH_REQUIRED" -> "REJECTED"
      [] OTHER                                -> "FAILED"

SettledWith(t, kind) ==
    (IF kind = "END_TURN" /\ task[t].state # "WORKING" THEN << <<t, "WORKING">> >> ELSE <<>>)
        \o << <<t, Outcome(t, kind)>> >>

Settles(r, kind) ==
    IF ServedTask(r) = {} THEN UNCHANGED <<task, told, onAir>>
    ELSE \E t \in ServedTask(r) :
            /\ task' = [task EXCEPT ![t].state = Outcome(t, kind)]
            /\ Tells(SettledWith(t, kind))

Kinds == {"END_TURN", "FAILED", "CANCELLED", "APPROVAL_REFUSED"}
SettleRun(r, kind) ==
    /\ r \in DOMAIN run /\ ~run[r].settled
    /\ kind \in {"END_TURN", "APPROVAL_REFUSED"} => run[r].claimed
    /\ run' = [run EXCEPT ![r].settled = TRUE]
    /\ Settles(r, kind)
    /\ UNCHANGED <<asks, handed, driven, unlogged, stream, startups, crashed, refused, moves>>

(* The dispatcher's turn comes back: it waits for an approval, or the run is over *)
(* or is ended here.                                                             *)
TurnHeld(r) ==
    /\ r \in driven /\ run[r].claimed /\ ~run[r].settled
    /\ driven' = driven \ {r}
    /\ UNCHANGED <<task, run, asks, handed, unlogged, told, onAir, stream, startups, crashed, refused, moves>>
EndDispatch(r) ==
    /\ r \in driven /\ run[r].claimed
    /\ driven' = driven \ {r}
    /\ IF run[r].settled THEN UNCHANGED <<run, task, told, onAir>>
       ELSE run' = [run EXCEPT ![r].settled = TRUE] /\ Settles(r, "FAILED")
    /\ UNCHANGED <<asks, handed, unlogged, stream, startups, crashed, refused, moves>>

-----------------------------------------------------------------------------
(* What the asker and the agent do with a task.  The event follows the move.     *)

Moves(t, from, to) ==
    /\ moves < MaxMoves /\ moves' = moves + 1
    /\ Exists(t) /\ task[t].state \in from /\ to \in LegalTransitions[task[t].state]
    /\ task' = [task EXCEPT ![t].state = to]
    /\ TellsLater(t, to)
    /\ UNCHANGED <<run, asks, handed, driven, stream, startups, crashed, refused>>

ContinueTask(t) == Moves(t, AnyState, "WORKING")
RequireInput(t) == Moves(t, AnyState, "INPUT_REQUIRED")
Escalate(t) == Moves(t, AnyState, "AUTH_REQUIRED")
ResolveEscalation(t) == Moves(t, AnyState, "WORKING") \/ Moves(t, AnyState, "REJECTED")
CompleteTask(t) == Moves(t, AnyState, "COMPLETED")
FailTask(t) == Moves(t, AnyState, "FAILED")
RejectTask(t) == Moves(t, AnyState, "REJECTED")

(* _append_agent_task_event; a broadcast of any logged event.                     *)
LogMove(m) ==
    /\ m \in unlogged /\ unlogged' = unlogged \ {m}
    /\ Tells(<<m>>)
    /\ UNCHANGED <<task, run, asks, handed, driven, stream, startups, crashed, refused, moves>>

(* cancel_agent_task: the run is ended and takes the task with it, or the task    *)
(* moves alone; one transaction.                                                 *)
CancelTask(t) ==
    /\ Exists(t) /\ ~Over(t)
    /\ IF Answering(t)
       THEN run' = [run EXCEPT ![task[t].run].settled = TRUE] /\ Settles(task[t].run, "CANCELLED")
       ELSE /\ task' = [task EXCEPT ![t].state = "CANCELED"]
            /\ Tells(<< <<t, "CANCELED">> >>) /\ UNCHANGED run
    /\ UNCHANGED <<asks, handed, driven, unlogged, stream, startups, crashed, refused, moves>>

-----------------------------------------------------------------------------
(* Sweeps, starts and crashes of processes.                                     *)

(* Startup: tasks still SUBMITTED after 30 seconds are driven one by one, from a  *)
(* list read first.                                                              *)
StaleSubmitted == { t \in Tasks : Exists(t) /\ task[t].state = "SUBMITTED" }
SweepStaleSubmitted ==
    /\ startups < MaxStartups /\ startups' = startups + 1
    /\ handed' = handed \cup (StaleSubmitted \X {"sweep"})
    /\ UNCHANGED <<task, run, asks, driven, unlogged, told, onAir, stream, crashed, refused, moves>>

(* list_working_with_settled_run *)
Stranded(t) == Exists(t) /\ task[t].state = "WORKING" /\ task[t].run # 0 /\ run[task[t].run].settled
(* Startup and every minute: a task WORKING behind a settled run.                *)
SweepStranded(t) ==
    /\ Stranded(t)
    /\ Settles(task[t].run, "FAILED")
    /\ UNCHANGED <<run, asks, handed, driven, unlogged, stream, startups, crashed, refused, moves>>

Crash ==
    /\ crashed < MaxCrashes /\ crashed' = crashed + 1
    /\ asks' = {} /\ handed' = {} /\ driven' = {} /\ unlogged' = {} /\ onAir' = {}
    /\ stream' = [s \in Streams |-> Quiet]
    /\ UNCHANGED <<task, run, told, startups, refused, moves>>

-----------------------------------------------------------------------------
(* Streams.  behind: the task moved between the snapshot and the subscription.   *)

OpenStream(s, t) ==
    /\ stream[s].at = "off" /\ Exists(t)
    /\ stream' = [stream EXCEPT ![s] = [Quiet EXCEPT !.of = t, !.last = task[t].state,
                      !.at = IF Over(t) THEN "closed" ELSE "snapshot"]]
    /\ UNCHANGED <<task, run, asks, handed, driven, unlogged, told, onAir, startups, crashed, refused, moves>>
Listen(s) ==
    /\ stream[s].at = "snapshot"
    /\ stream' = [stream EXCEPT ![s].at = "listening",
                      ![s].behind = task[stream[s].of].state # stream[s].last]
    /\ UNCHANGED <<task, run, asks, handed, driven, unlogged, told, onAir, startups, crashed, refused, moves>>

Mark == 0   \* the resync marker; an entry is otherwise an index into told
PutTask(queue, n) ==
    IF Len(queue) < TaskQueueSize THEN Append(queue, n) ELSE Append(Tail(queue), Mark)
BroadcastTask(n) ==
    /\ n \in onAir /\ onAir' = onAir \ {n}
    /\ stream' = [s \in Streams |-> IF stream[s].at = "listening"
                     THEN [stream[s] EXCEPT !.queue = PutTask(@, n)] ELSE stream[s]]
    /\ UNCHANGED <<task, run, asks, handed, driven, unlogged, told, startups, crashed, refused, moves>>

Heard_Skips(s, n) == IF n # Mark /\ told[n][1] = stream[s].of THEN told[n][2] ELSE stream[s].last
Heard(s, n) ==
    CASE n = Mark -> task[stream[s].of].state
      [] n # Mark /\ told[n][1] = stream[s].of -> told[n][2]
      [] OTHER -> stream[s].last
TakeTaskEvent(s) ==
    /\ stream[s].at = "listening" /\ stream[s].queue # <<>>
    /\ LET now == Heard(s, Head(stream[s].queue)) IN
       stream' = [stream EXCEPT ![s].queue = Tail(@), ![s].last = now,
                      ![s].at = IF now \in Done THEN "closed" ELSE @]
    /\ UNCHANGED <<task, run, asks, handed, driven, unlogged, told, onAir, startups, crashed, refused, moves>>

-----------------------------------------------------------------------------
TaskMove(t) ==
    \/ \E p \in People, a \in Agents : Accept(t, p, a)
    \/ ContinueTask(t) \/ RequireInput(t) \/ Escalate(t) \/ ResolveEscalation(t)
    \/ CompleteTask(t) \/ FailTask(t) \/ RejectTask(t) \/ CancelTask(t)
StreamNext(s) == (\E t \in Tasks : OpenStream(s, t)) \/ Listen(s) \/ TakeTaskEvent(s)
TaskNext ==
    \/ \E t \in Tasks : TaskMove(t) \/ SweepStranded(t)
    \/ \E a, b \in Agents : Ask(a, b)
    \/ \E k \in asks, t \in Tasks : CommitAsk(k, t)
    \/ \E h \in handed : StartTask(h) \/ StartRefused(h)
    \/ \E r \in DOMAIN run : ClaimRun(r) \/ TurnHeld(r) \/ EndDispatch(r)
    \/ \E r \in DOMAIN run, kind \in Kinds : SettleRun(r, kind)
    \/ \E m \in unlogged : LogMove(m)
    \/ \E n \in onAir : BroadcastTask(n)
    \/ \E s \in Streams : StreamNext(s)
    \/ SweepStaleSubmitted \/ Crash

(* A process runs the tasks it scheduled; the sweep comes round every minute.    *)
TaskFairness ==
    /\ WF_taskVars(\E h \in handed : StartTask(h))
    /\ \A r \in 1 .. MaxRuns : WF_taskVars(r \in DOMAIN run /\ (ClaimRun(r) \/ EndDispatch(r)))
    /\ \A t \in Tasks : WF_taskVars(SweepStranded(t))
    /\ WF_taskVars(\E m \in unlogged : LogMove(m))
    /\ WF_taskVars(\E n \in onAir : BroadcastTask(n))
    /\ \A s \in Streams : WF_taskVars(TakeTaskEvent(s))
TaskSpec == TaskInit /\ [][TaskNext]_taskVars /\ TaskFairness

-----------------------------------------------------------------------------
(* "A task WORKING behind a settled run is a delegator waiting on an answer that   *)
(* will never come": whatever ends the run a task is served by -- its answer, a   *)
(* cancel, a refusal, a dead dispatcher -- ends the task in the same step, also   *)
(* when the task was restarted, escalated or asked for input meanwhile; and a task *)
(* that was cancelled leaves no open run behind that still works on it.           *)
TaskEndsWithRun ==
    \A t \in Tasks : Exists(t) /\ task[t].run # 0 =>
        /\ run[task[t].run].settled => Over(t) \/ task[t].legacy
        /\ task[t].state = "CANCELED" => run[task[t].run].settled

(* A run that was superseded by a restart cannot end the task: a task ends with   *)
(* a run's settlement only if that run is its own.                               *)
OnlyItsOwnRunEndsIt ==
    [][\A t \in Tasks :
        Exists(t) /\ ~Over(t) /\ task'[t].state \in Done /\ run' # run /\ task[t].run # 0 =>
            run'[task[t].run].settled]_taskVars

(* "depth is the length of the chain the database holds, and a cycle is            *)
(* membership in it": no agent is twice in a chain, the chain is the one of the   *)
(* task delegated from, and the person at its root is the person who asked first. *)
ChainsAreSound ==
    \A t \in Tasks : Exists(t) =>
        LET whole == Append(task[t].chain, task[t].agent) IN
        /\ \A i, j \in DOMAIN whole : whole[i] = whole[j] => i = j
        /\ Len(task[t].chain) <= MaxDepth
        /\ task[t].chain # <<>> =>
              \E u \in Tasks : /\ Exists(u) /\ task[u].agent = task[t].by
                               /\ Append(task[u].chain, task[u].agent) = task[t].chain
                               /\ task[u].root = task[t].root

(* The end of a task, on the log and on its way to a stream. *)
Endings(t) == { n \in DOMAIN told : told[n][1] = t /\ told[n][2] \in Done }
EndComing(s) ==
    \/ \E m \in unlogged : m[1] = stream[s].of /\ m[2] \in Done
    \/ Endings(stream[s].of) \cap (onAir \cup Range(stream[s].queue)) # {}
    \/ Mark \in Range(stream[s].queue)

(* "The task as it stands, then every move it makes until it stops moving": the    *)
(* room is told how a task ended once and as it ended, and a stream that listens   *)
(* to a task that is over has the end on its way to it, if the task did not move   *)
(* between its snapshot and its subscription; overflow and the events of other    *)
(* tasks cost it nothing.                                                        *)
EndIsToldOnce ==
    /\ \A t \in Tasks : Exists(t) =>
          /\ Cardinality(Endings(t)) <= 1
          /\ \A n \in Endings(t) : told[n][2] = task[t].state
          /\ Over(t) /\ crashed = 0 => Endings(t) # {} \/ <<t, task[t].state>> \in unlogged
    /\ \A s \in Streams :
          stream[s].at = "listening" /\ Over(stream[s].of) /\ ~stream[s].behind => EndComing(s)

AwaitsStart(t) == Exists(t) /\ task[t].state = "SUBMITTED" /\ task[t].by = NoAgent
(* "What turns a submitted task into a running one": with no crash and no refused  *)
(* start, an accepted task is started or ended; and whatever happens, a row that    *)
(* is stranded behind a settled run is ended.                                     *)
TasksAreServed ==
    \A t \in Tasks :
        /\ AwaitsStart(t) ~> (~AwaitsStart(t) \/ crashed > 0 \/ refused > 0 \/ Len(run) = MaxRuns)
        /\ Stranded(t) ~> ~Stranded(t)
=============================================================================
