----------------------------- MODULE RunLifecycle -----------------------------
(***************************************************************************)
(* The life of an agent run as the service drives it (services/runs.py,    *)
(* steps.py and _shared.py): a turn prompted over and over across provider *)
(* calls, tools decided by the gateway, reviewers who hold a turn for      *)
(* hours, cancellation, pause, removal, and the sweep that settles what    *)
(* nobody is carrying.                                                     *)
(*                                                                         *)
(* The code is asyncio: a handler runs alone between two awaits, every     *)
(* write transaction is serialised by BEGIN IMMEDIATE, and anything may    *)
(* happen at an await.  A task is one such handler in flight, on any       *)
(* process; its record holds the program counter (the await it stands at)  *)
(* and the locals it carries across that await.  One action runs from one  *)
(* await to the next.                                                      *)
(***************************************************************************)
EXTENDS AgentRuns, FiniteSets

CONSTANTS Tasks,        \* handlers that may be in flight at once
          Sweepers,     \* the tasks that also run server.py's lease-sweep loop
          Calls,        \* ids for a tool request and the approval that gates it
          NoCall,
          NoRun,
          MaxPauses,    \* bound: pauses of managed branch runs, and resumptions of pending ones
          MaxUpdates,   \* bound: harness updates received out of band
          MaxCrashes    \* bound: tasks or processes that die, processes that come up

ASSUME SweepersAssumption == Sweepers \subseteq Tasks
ASSUME NoRunAssumption == NoRun \notin Runs
ASSUME NoCallAssumption == NoCall \notin Calls
ASSUME BoundsAssumption == MaxPauses \in Nat /\ MaxUpdates \in Nat /\ MaxCrashes \in Nat

ApprovalStatus == {"PENDING", "APPROVED", "REJECTED", "EXPIRED"}
RequestStatus == {"PENDING_APPROVAL", "REJECTED", "FAILED", "EXECUTED"}

\* Who entered a turn, which decides what an exception does to the run:
\* an HTTP handler lets it escape, the three others account for it.
Entrances == {"route", "mention", "task", "review"}

PCs == {"idle",
        "enter", "claim", "begin", "mark", "prompt", "beat", "answer",  \* a step
        "tool", "resolve", "deny", "park", "resume", "advance",      \* its tools
        "cancelled", "undispatched", "unresumable", "orphan",        \* how it ends
        "settle", "discard", "list", "expire",                       \* _settle_run
        "cancel", "pause", "unpause", "update"}                      \* other doors

\* Why a settlement is under way: an exception to raise after it, or the turn
\* to go on with.
Excuses == {None, "domain", "auth", "park", "resume"}

ASSUME NullAssumption ==
    None \notin ApprovalStatus \cup RequestStatus \cup {"domain", "auth", "park", "resume"}

VARIABLES
    called,     \* [Calls -> run] : tool_requests/approvals.execution_id
    approval,   \* [Calls -> approvals.status], None when the call has no approval
    request,    \* [Calls -> tool_requests.status], None for an approval that gates nothing
    wrote,      \* the calls whose tool committed its effect
    suspended,  \* runs with a row in suspended_turns
    mentioned,  \* runs a mention opened (executions.triggered_by)
    claimed,    \* runs with executions.dispatch_claim
    named,      \* runs with executions.run_id: a turn has started them
    lends,      \* runs whose bounding principals all still lend the agent something
    live,       \* runs this process's bridge has a session for (_active_runs)
    flagged,    \* runs with a cancellation flag in the bridge
    task,       \* [Tasks -> the handler in flight]
    pauses, updates, crashes    \* how much of each bound is used

gateway == <<called, approval, request, wrote, suspended>>
dispatch == <<mentioned, claimed, named>>
bridge == <<live, flagged>>
bounds == <<pauses, updates, crashes>>
vars == <<ledger, gateway, dispatch, lends, bridge, task, bounds>>

TaskType ==
    [pc : PCs, run : Runs \cup {NoRun}, call : Calls \cup {NoCall},
     via : Entrances, first : BOOLEAN,
     read : ExecutionStatus \cup {None},   \* the execution status it last read
     state : HarnessState \cup {None},     \* the harness state a heartbeat read
     held : Nat,                           \* the lease a sweep read
     why : RunSettlement \cup RequestStatus \cup {None},
     then : Excuses,
     seen : SUBSET Calls]

Idle == [pc |-> "idle", run |-> NoRun, call |-> NoCall, via |-> "route",
         first |-> FALSE, read |-> None, state |-> None, held |-> NoLease,
         why |-> None, then |-> None, seen |-> {}]

TypeOK ==
    /\ LedgerTypeOK
    /\ called \in [Calls -> Runs \cup {NoRun}]
    /\ approval \in [Calls -> ApprovalStatus \cup {None}]
    /\ request \in [Calls -> RequestStatus \cup {None}]
    /\ wrote \subseteq Calls
    /\ suspended \subseteq Runs
    /\ mentioned \subseteq Runs
    /\ claimed \subseteq Runs
    /\ named \subseteq Runs
    /\ lends \subseteq Runs
    /\ live \subseteq Runs
    /\ flagged \subseteq Runs
    /\ task \in [Tasks -> TaskType]
    /\ pauses \in 0..MaxPauses
    /\ updates \in 0..MaxUpdates
    /\ crashes \in 0..MaxCrashes

Init ==
    /\ LedgerInit
    /\ called = [c \in Calls |-> NoRun]
    /\ approval = [c \in Calls |-> None]
    /\ request = [c \in Calls |-> None]
    /\ wrote = {} /\ suspended = {} /\ mentioned = {} /\ claimed = {} /\ named = {}
    /\ lends = {}
    /\ live = {} /\ flagged = {}
    /\ task = [t \in Tasks |-> Idle]
    /\ pauses = 0 /\ updates = 0 /\ crashes = 0

-----------------------------------------------------------------------------
(* A task and the await it stands at. *)

At(t, pc) == task[t].pc = pc
Become(t, next) == task' = [task EXCEPT ![t] = next]
Goto(t, pc) == Become(t, [task[t] EXCEPT !.pc = pc])

\* A handler that starts: an idle task takes it up for run e.
Starts(t, e, pc) ==
    /\ At(t, "idle")
    /\ Become(t, [Idle EXCEPT !.pc = pc, !.run = e, !.read = status[e]])

\* What an exception escaping the turn makes its caller do: an HTTP handler
\* answers an error, the mention dispatcher settles the run undispatched, the
\* task dispatcher and the reviewer's door settle whatever is still open.
\* `found` is the status _settle_undispatched_run then reads.
AfterRaise(k, kind, found) ==
    CASE k.via = "route" -> Idle
      [] k.via = "mention" ->
            [k EXCEPT !.pc = "undispatched", !.via = "route", !.why = "FAILED",
                      !.read = found, !.then = None]
      [] k.via = "task" -> [k EXCEPT !.pc = "unresumable", !.via = "route", !.why = "FAILED"]
      [] k.via = "review" ->
            [k EXCEPT !.pc = "unresumable", !.via = "route",
                      !.why = IF kind = "auth" THEN "AUTHORITY_REVOKED" ELSE "FAILED"]
Raise(t, kind) == Become(t, AfterRaise(task[t], kind, status'[task[t].run]))

\* The turn loop returned.  Only the task dispatcher then looks at the run
\* again (_end_agent_task_dispatch).
AfterReturn(k) ==
    IF k.via = "task" THEN [k EXCEPT !.pc = "unresumable", !.via = "route", !.why = "FAILED"]
                      ELSE Idle
Return(t) == Become(t, AfterReturn(task[t]))

\* Where a settlement goes once it is done, whether or not it took.
AfterSettle(k) ==
    CASE k.then = "park" -> [k EXCEPT !.pc = "park", !.why = None, !.then = None]
      [] k.then = "resume" -> [k EXCEPT !.pc = "resume", !.why = None, !.then = None]
      [] OTHER -> AfterReturn(k)

\* _settle_run begins by reading the execution outside any transaction.
SettleRun(k, why, held, then) ==
    [k EXCEPT !.pc = "settle", !.read = status[k.run], !.why = why,
              !.held = held, !.then = then]

-----------------------------------------------------------------------------
(* Opening and entering a run. *)

\* start_execution, the mention and the agent-task launch: the execution row
\* and its envelope in one transaction, authority checked as it is written.
OpenRun(e) ==
    /\ OpenRow(e, 1)
    /\ mentioned' \in {mentioned, mentioned \cup {e}}
    /\ lends' = lends \cup {e}
    /\ UNCHANGED <<gateway, claimed, named, bridge, task, bounds>>

\* resume_agent_run: a settled run, unless it was parked, continues as a new
\* one that starts an attempt further, with the same trigger.
ResumeAgentRun(previous, e) ==
    /\ Settled(previous) /\ settlement[previous] # "PARKED"
    /\ OpenRow(e, attempts[previous] + 1)
    /\ mentioned' = IF previous \in mentioned THEN mentioned \cup {e} ELSE mentioned
    /\ lends' = lends \cup {e}
    /\ UNCHANGED <<gateway, claimed, named, bridge, task, bounds>>

\* execute_agent_step from a route; from _dispatch_mention_run and
\* _dispatch_agent_task_run once claim_for_dispatch took the pending run they
\* launched.  Nobody dispatches a resumed run, which starts past attempt 1.
EnterTurn(t, e, via) ==
    /\ At(t, "idle") /\ Exists(e)
    /\ IF via = "route"
       THEN ~Terminal(e) /\ UNCHANGED claimed
       ELSE /\ status[e] = "PENDING" /\ attempts[e] = 1
            /\ via = "mention" <=> e \in mentioned
            /\ e \notin claimed /\ claimed' = claimed \cup {e}
    /\ Become(t, [Idle EXCEPT !.pc = "enter", !.run = e, !.via = via, !.first = TRUE])
    /\ UNCHANGED <<ledger, gateway, mentioned, named, lends, bridge, bounds>>

\* The dispatchers act as nobody; a route and a resumed turn act as a caller.
HasCaller(k) == k.via \in {"route", "review"}

\* The head of _execute_one_agent_step_inner, before the claim: terminal runs
\* refuse, a run whose own principal lends nothing (or a delegated run nobody
\* lends anything) settles undispatched, so does one over its token budget (no
\* prompt was paid for before the first), and a caller who may no longer act on
\* the run is refused without settling it.  A run that only a caller or a steer
\* has left without terms goes on, to answer in words.
Step(t) ==
    LET k == task[t]
        e == k.run
        undispatched(why, then) ==
            [k EXCEPT !.pc = "undispatched", !.read = status[e], !.why = why, !.then = then]
    IN  /\ At(t, "enter")
        /\ UNCHANGED <<ledger, gateway, dispatch, lends, bridge, bounds>>
        /\ \/ Terminal(e) /\ Raise(t, "domain")
           \/ ~Terminal(e) /\ e \notin lends
              /\ Become(t, undispatched("AUTHORITY_REVOKED", "auth"))
           \/ ~Terminal(e) /\ ~k.first
              /\ Become(t, undispatched("MAX_TOKENS", "domain"))
           \/ ~Terminal(e) /\ HasCaller(k) /\ Raise(t, "auth")
           \/ ~Terminal(e) /\ Become(t, [k EXCEPT !.pc = "claim", !.read = status[e]])

\* The claim: one transaction, from STARTING for a call from outside and from
\* whatever state the run is in for a turn already held.
Claim(t) ==
    LET k == task[t]
        expected == IF k.first THEN "STARTING" ELSE None
    IN  /\ At(t, "claim")
        /\ IF CanAdvance(k.run, expected)
           THEN /\ Advance(k.run, "STREAMING")
                /\ Become(t, [k EXCEPT !.pc = "begin", !.first = FALSE])
           ELSE /\ UNCHANGED ledger
                /\ IF k.first THEN Raise(t, "domain") ELSE Goto(t, "begin")
        /\ UNCHANGED <<gateway, dispatch, lends, bridge, bounds>>

\* The bridge looks at its cancellation flag before it calls the provider.
Prompts(e) == IF e \in flagged THEN "cancelled" ELSE "prompt"

\* session_new when this process has no live session; a run no turn has started
\* yet is then marked (only the holder of the turn writes executions.run_id) ...
NewSession(t) ==
    LET e == task[t].run IN
    /\ At(t, "begin")
    /\ live' = live \cup {e}
    /\ Goto(t, IF e \in named THEN Prompts(e) ELSE "mark")
    /\ UNCHANGED <<ledger, gateway, dispatch, lends, flagged, bounds>>

\* ... by mark_running, a compare and swap on the status read at the head.
MarkRunning(t) ==
    LET k == task[t]
        e == k.run
    IN  /\ At(t, "mark")
        /\ IF status[e] = k.read
           THEN /\ UpdateStatus(e, "RUNNING") /\ named' = named \cup {e}
                /\ Become(t, [k EXCEPT !.pc = Prompts(e), !.read = "RUNNING"])
           ELSE UNCHANGED <<ledger, named>> /\ Raise(t, "domain")
        /\ UNCHANGED <<gateway, mentioned, claimed, lends, bridge, bounds>>

\* The provider call failed: terminalize FAILED on the status read at the head.
ProviderFails(t) ==
    LET k == task[t] IN
    /\ At(t, "prompt")
    /\ IF CanTerminalize(k.run, k.read, NoLease)
       THEN Terminalize(k.run, "FAILED", "FAILED") /\ Return(t)
       ELSE UNCHANGED ledger /\ Raise(t, "domain")
    /\ UNCHANGED <<gateway, dispatch, lends, bridge, bounds>>

\* The provider answered: _renew_run_lease reads the run ...
ProviderAnswers(t) ==
    LET e == task[t].run IN
    /\ At(t, "prompt")
    /\ IF Settled(e) THEN Goto(t, "answer")
                     ELSE Become(t, [task[t] EXCEPT !.pc = "beat", !.state = harness[e]])
    /\ UNCHANGED <<ledger, gateway, dispatch, lends, bridge, bounds>>

\* ... and writes back the harness state it read, with a fresh lease.
RenewLease(t) ==
    LET k == task[t] IN
    /\ At(t, "beat")
    /\ IF CanAdvance(k.run, None) THEN Advance(k.run, k.state) ELSE UNCHANGED ledger
    /\ Become(t, [k EXCEPT !.pc = "answer", !.state = None])
    /\ UNCHANGED <<gateway, dispatch, lends, bridge, bounds>>

\* action "finish": the output and the settlement, or neither.
Finish(t) ==
    LET k == task[t] IN
    /\ At(t, "answer")
    /\ IF CanComplete(k.run, k.read)
       THEN CompleteExecution(k.run) /\ Return(t)
       ELSE UNCHANGED ledger /\ Raise(t, "domain")
    /\ UNCHANGED <<gateway, dispatch, lends, bridge, bounds>>

\* _settle_turn_without_answer: a cancelled turn, or an action nobody serves.
WithoutAnswer(t) ==
    LET k == task[t]
        why == IF k.pc = "cancelled" THEN "CANCELLED" ELSE "FAILED"
    IN  /\ k.pc \in {"cancelled", "answer"}
        /\ IF Settled(k.run) THEN Return(t)
                             ELSE Become(t, SettleRun(k, why, NoLease, None))
        /\ UNCHANGED <<ledger, gateway, dispatch, lends, bridge, bounds>>

-----------------------------------------------------------------------------
(* Tool calls: the gateway, the tool, the reviewer's hold. *)

Unused(c) == called[c] = NoRun

\* The gateway refuses: the run's terms do not hold the tool's capability.
GateDenies(t, c) ==
    LET k == task[t] IN
    /\ At(t, "answer") /\ Unused(c)
    /\ called' = [called EXCEPT ![c] = k.run]
    /\ request' = [request EXCEPT ![c] = "REJECTED"]
    /\ Goto(t, "park")
    /\ UNCHANGED <<ledger, approval, wrote, suspended, dispatch, lends, bridge, bounds>>

\* The gateway pauses the call: approval, request, the AWAITING_APPROVAL
\* advance and the suspended turn in one transaction, refused once settled.
AfterSuspend_RunsCall(k, c) ==                     \* mutant: the held call runs as well
    [k EXCEPT !.pc = "tool", !.call = c, !.then = "park"]
AfterSuspend(k, c) == Idle

GateSuspends(t, c) ==
    LET k == task[t]
        e == k.run
    IN  /\ At(t, "answer") /\ Unused(c) /\ e \in lends
        /\ IF CanAdvance(e, None)
           THEN /\ Advance(e, "AWAITING_APPROVAL")
                /\ called' = [called EXCEPT ![c] = e]
                /\ approval' = [approval EXCEPT ![c] = "PENDING"]
                /\ request' = [request EXCEPT ![c] = "PENDING_APPROVAL"]
                /\ suspended' = suspended \cup {e}
                /\ Become(t, AfterSuspend(k, c))
                /\ UNCHANGED wrote
           ELSE UNCHANGED <<ledger, gateway>> /\ Raise(t, "domain")
        /\ UNCHANGED <<dispatch, lends, bridge, bounds>>

\* The gateway lets the call through.
GateAllows(t, c) ==
    LET k == task[t] IN
    /\ At(t, "answer") /\ Unused(c) /\ k.run \in lends
    /\ called' = [called EXCEPT ![c] = k.run]
    /\ request' = [request EXCEPT ![c] = "PENDING_APPROVAL"]
    /\ Become(t, [k EXCEPT !.pc = "tool", !.call = c, !.then = "park"])
    /\ UNCHANGED <<ledger, approval, wrote, suspended, dispatch, lends, bridge, bounds>>

\* _run_tool: _require_run_authority_in_transaction and the tool's own write
\* are one transaction, so the effect commits only for an open run that is
\* still lent the capability.  Any other outcome writes nothing; a run with
\* some terms left may still lack the one capability this tool needs.
Authorized(e) == Open(e) /\ e \in lends

RunTool(t) ==
    LET k == task[t] IN
    /\ At(t, "tool")
    /\ \/ /\ Authorized(k.run)
          /\ wrote' = wrote \cup {k.call}
          /\ Become(t, [k EXCEPT !.pc = "resolve", !.why = "EXECUTED"])
       \/ /\ \E outcome \in {"FAILED", "REJECTED", "AUTHORITY_REVOKED"} :
                Become(t, [k EXCEPT !.pc = "resolve", !.why = outcome])
          /\ UNCHANGED wrote
    /\ UNCHANGED <<ledger, called, approval, request, suspended, dispatch, lends, bridge, bounds>>

\* _resolve_tool_request_terminal; a call whose authority was revoked then
\* settles its run.
ResolveCall(t) ==
    LET k == task[t]
        revoked == k.why = "AUTHORITY_REVOKED"
        done == [k EXCEPT !.call = NoCall, !.why = None]
    IN  /\ At(t, "resolve")
        /\ request' = [request EXCEPT ![k.call] = IF revoked THEN "REJECTED" ELSE k.why]
        /\ Become(t, IF revoked THEN SettleRun(done, "AUTHORITY_REVOKED", NoLease, k.then)
                                ELSE AfterSettle(done))
        /\ UNCHANGED <<ledger, called, approval, wrote, suspended, dispatch, lends, bridge, bounds>>

\* _park_if_attempts_spent: charge the next prompt to the run, or park it.
ParkIfSpent(t) ==
    LET k == task[t] IN
    /\ At(t, "park")
    /\ \/ /\ CanSpendAttempt(k.run) /\ SpendAttempt(k.run)
          /\ Goto(t, "enter")
       \/ /\ Settled(k.run) /\ Return(t) /\ UNCHANGED ledger
       \/ /\ Open(k.run) /\ ~CanSpendAttempt(k.run) /\ UNCHANGED ledger
          /\ Become(t, SettleRun(k, "PARKED", NoLease, None))
    /\ UNCHANGED <<gateway, dispatch, lends, bridge, bounds>>

-----------------------------------------------------------------------------
(* The reviewer's doors. *)

\* request_approval: a member asks a question that gates no tool call.  The
\* route checks the rooms match; nothing asks whether the run is still open.
RequestApproval(c, e) ==
    /\ Exists(e) /\ Unused(c)
    /\ called' = [called EXCEPT ![c] = e]
    /\ approval' = [approval EXCEPT ![c] = "PENDING"]
    /\ UNCHANGED <<ledger, request, wrote, suspended, dispatch, lends, bridge, task, bounds>>

\* _request_this_approval_gated: the undecided call an approval is holding.
Gates(c) == request[c] = "PENDING_APPROVAL"

\* approve_action's transaction: the decision, and for a gated call the
\* capability derived again, now bounded by the reviewer's own grant as well,
\* and refused if the run has settled meanwhile.
Approve(t, c) ==
    LET e == called[c]
        k == [Idle EXCEPT !.run = e, !.call = c, !.via = "review"]
    IN  /\ At(t, "idle")
        /\ approval[c] = "PENDING"
        /\ approval' = [approval EXCEPT ![c] = "APPROVED"]
        /\ \/ ~Gates(c) /\ UNCHANGED task
           \/ Gates(c) /\ Authorized(e) /\ Become(t, [k EXCEPT !.pc = "advance"])
           \/ Gates(c) /\ Become(t, [k EXCEPT !.pc = "deny"])
        /\ UNCHANGED <<ledger, called, request, wrote, suspended, dispatch, lends, bridge, bounds>>

\* After the commit: the run goes back to STREAMING and the call runs.
AdvanceApproved(t) ==
    LET k == task[t] IN
    /\ At(t, "advance")
    /\ IF CanAdvance(k.run, None) THEN Advance(k.run, "STREAMING") ELSE UNCHANGED ledger
    /\ Become(t, [k EXCEPT !.pc = "tool", !.then = "resume"])
    /\ UNCHANGED <<gateway, dispatch, lends, bridge, bounds>>

\* After the commit, but the policy no longer permits the call.
DenyApproved(t) ==
    LET k == task[t] IN
    /\ At(t, "deny")
    /\ request' = [request EXCEPT ![k.call] = "REJECTED"]
    /\ Become(t, [k EXCEPT !.pc = "resume", !.call = NoCall])
    /\ UNCHANGED <<ledger, called, approval, wrote, suspended, dispatch, lends, bridge, bounds>>

\* reject_action's transaction.  Refusing a gated call of an open run settles
\* it APPROVAL_REFUSED, or puts it back to STREAMING when the turn continues.
Reject(t, c, continue_turn) ==
    LET e == called[c]
        k == [Idle EXCEPT !.run = e, !.via = "review"]
        holding == Gates(c) /\ Open(e)
    IN  /\ At(t, "idle")
        /\ approval[c] = "PENDING"
        /\ approval' = [approval EXCEPT ![c] = "REJECTED"]
        /\ request' = [request EXCEPT ![c] = IF Gates(c) THEN "REJECTED" ELSE @]
        /\ CASE holding /\ continue_turn -> Advance(e, "STREAMING")
             [] holding /\ ~continue_turn /\ ~Terminal(e) ->
                    Terminalize(e, "CANCELLED", "APPROVAL_REFUSED")
             [] holding /\ ~continue_turn /\ Terminal(e) -> SettleOnly(e, "APPROVAL_REFUSED")
             [] OTHER -> UNCHANGED ledger
        /\ CASE Gates(c) /\ continue_turn -> Become(t, [k EXCEPT !.pc = "resume"])
             [] Gates(c) /\ ~continue_turn ->
                    Become(t, [k EXCEPT !.pc = "discard", !.why = "APPROVAL_REFUSED"])
             [] OTHER -> UNCHANGED task
        /\ UNCHANGED <<called, wrote, suspended, dispatch, lends, bridge, bounds>>

\* _resume_suspended_turn: claiming the row is what lets exactly one caller
\* carry the turn on; without it the run is settled ORPHANED.
ClaimTurn(e) == suspended' = suspended \ {e}

ResumeSuspendedTurn(t) ==
    LET k == task[t] IN
    /\ At(t, "resume")
    /\ IF k.run \in suspended
       THEN Goto(t, "park")
       ELSE Become(t, [k EXCEPT !.pc = "unresumable", !.via = "route", !.why = "ORPHANED"])
    /\ ClaimTurn(k.run)
    /\ UNCHANGED <<ledger, called, approval, request, wrote, dispatch, lends, bridge, bounds>>

-----------------------------------------------------------------------------
(* Settlement outside the turn's own answer. *)

\* _settle_unresumable_turn, _end_agent_task_dispatch: settle what is open.
Unresumable(t) ==
    LET k == task[t] IN
    /\ At(t, "unresumable")
    /\ IF Settled(k.run) THEN Become(t, Idle)
                         ELSE Become(t, SettleRun(k, k.why, NoLease, None))
    /\ UNCHANGED <<ledger, gateway, dispatch, lends, bridge, bounds>>

\* _settle_undispatched_run: FAILED on the status just read, or nothing.
SettleUndispatched(t) ==
    LET k == task[t]
        e == k.run
    IN  /\ At(t, "undispatched")
        /\ IF k.read \in OpenStatuses /\ CanTerminalize(e, k.read, NoLease)
           THEN Terminalize(e, "FAILED", k.why)
           ELSE UNCHANGED ledger
        /\ IF k.then = None THEN Become(t, Idle) ELSE Raise(t, k.then)
        /\ UNCHANGED <<gateway, dispatch, lends, bridge, bounds>>

\* _settle_run's transaction, on the status and perhaps the lease it read.
FinalStatus_Settlement(why) == why                 \* mutant: the settlement is the status
FinalStatus(why) == IF why \in {"CANCELLED", "AGENT_REMOVED"} THEN "CANCELLED" ELSE "FAILED"

Settle(t) ==
    LET k == task[t]
        e == k.run
        cleanup == [k EXCEPT !.pc = "discard", !.held = NoLease, !.read = None, !.why = None]
    IN  /\ At(t, "settle")
        /\ \/ /\ k.read \in TERMINAL_EXECUTION_STATUSES /\ LeaseHolds(e, k.held)
              /\ SettleOnly(e, k.why) /\ Become(t, cleanup)
           \/ /\ k.read \in OpenStatuses /\ CanTerminalize(e, k.read, k.held)
              /\ Terminalize(e, FinalStatus(k.why), k.why) /\ Become(t, cleanup)
           \/ /\ \/ ~LeaseHolds(e, k.held)
                 \/ k.read \in OpenStatuses /\ status[e] # k.read
              /\ UNCHANGED ledger
              /\ Become(t, AfterSettle([k EXCEPT !.held = NoLease]))
        /\ UNCHANGED <<gateway, dispatch, lends, bridge, bounds>>

\* Nothing will prompt a settled run again: its suspended turn goes first.
\* reject_action discards without looking for undecided approvals.
Discard_ClosesNothing(t) ==                        \* mutant: nothing is expired
    /\ At(t, "discard")
    /\ suspended' = suspended \ {task[t].run}
    /\ Become(t, Idle)
    /\ UNCHANGED <<ledger, called, approval, request, wrote, dispatch, lends, bridge, bounds>>
Discard(t) ==
    LET k == task[t] IN
    /\ At(t, "discard")
    /\ suspended' = suspended \ {k.run}
    /\ IF k.why = "APPROVAL_REFUSED" THEN Become(t, Idle) ELSE Goto(t, "list")
    /\ UNCHANGED <<ledger, called, approval, request, wrote, dispatch, lends, bridge, bounds>>

\* _expire_undecided_approvals reads the pending approvals of the run ...
ListPending(t) ==
    LET k == task[t] IN
    /\ At(t, "list")
    /\ Become(t, [k EXCEPT !.pc = "expire",
                           !.seen = {c \in Calls : called[c] = k.run /\ approval[c] = "PENDING"}])
    /\ UNCHANGED <<ledger, gateway, dispatch, lends, bridge, bounds>>

\* ... and expires, in a transaction, those no reviewer decided since.
StillUndecided_AsListed(seen) == seen              \* mutant: a decision since is overwritten
StillUndecided(seen) == {c \in seen : approval[c] = "PENDING"}

ExpireUndecided(t) ==
    LET k == task[t]
        expiring == StillUndecided(k.seen)
    IN  /\ At(t, "expire")
        /\ approval' = [c \in Calls |-> IF c \in expiring THEN "EXPIRED" ELSE approval[c]]
        /\ request' = [c \in Calls |-> IF c \in expiring /\ Gates(c) THEN "REJECTED"
                                                                    ELSE request[c]]
        /\ Become(t, AfterSettle([k EXCEPT !.seen = {}]))
        /\ UNCHANGED <<ledger, called, wrote, suspended, dispatch, lends, bridge, bounds>>

\* cancel_execution: read, tell the bridge of this process if it knows the
\* run, then terminalize on the status read.
Cancel(t, e) ==
    /\ Exists(e) /\ ~Terminal(e)
    /\ Starts(t, e, "cancel")
    /\ flagged' \in {flagged, flagged \cup ({e} \cap live)}
    /\ UNCHANGED <<ledger, gateway, dispatch, lends, live, bounds>>

CommitCancel(t) ==
    LET k == task[t] IN
    /\ At(t, "cancel")
    /\ IF CanTerminalize(k.run, k.read, NoLease)
       THEN /\ Terminalize(k.run, "CANCELLED", "CANCELLED")
            /\ Become(t, [Idle EXCEPT !.pc = "discard", !.run = k.run])
       ELSE Become(t, Idle) /\ UNCHANGED ledger
    /\ UNCHANGED <<gateway, dispatch, lends, bridge, bounds>>

\* remove_agent_from_room: every open run of the agent settles AGENT_REMOVED
\* in the transaction that ends its membership, suspended turn included; this
\* process's harness is told (session_cancel), if it knows the run.
RemoveAgent(t, e) ==
    /\ At(t, "idle") /\ Open(e)
    /\ IF Terminal(e) THEN SettleOnly(e, "AGENT_REMOVED")
                      ELSE Terminalize(e, "CANCELLED", "AGENT_REMOVED")
    /\ suspended' = suspended \ {e}
    /\ Become(t, [Idle EXCEPT !.pc = "list", !.run = e])
    /\ flagged' \in {flagged, flagged \cup ({e} \cap live)}
    /\ UNCHANGED <<called, approval, request, wrote, dispatch, lends, live, bounds>>

\* list_expired: the open runs whose lease has passed, whatever their state.
Sweepable_ExemptsHeld(e) ==                        \* mutant: a held run is never swept
    Open(e) /\ e \in expired /\ harness[e] # "AWAITING_APPROVAL"
Sweepable(e) == Open(e) /\ e \in expired

\* sweep_expired_run_leases, one run of its list.
Sweep(t, e) ==
    LET why == IF harness[e] = "AWAITING_APPROVAL" THEN "APPROVAL_EXPIRED"
               ELSE IF attempts[e] >= MaxAttempts THEN "PARKED" ELSE "ORPHANED"
    IN  /\ t \in Sweepers /\ At(t, "idle")
        /\ Sweepable(e)
        /\ Become(t, SettleRun([Idle EXCEPT !.run = e], why, lease[e], None))
        /\ UNCHANGED <<ledger, gateway, dispatch, lends, bridge, bounds>>

\* _settle_orphaned_mention_runs, when a process comes up beside the others: it
\* lists the pending mention runs nobody claimed ...
ListOrphan(t, e) ==
    /\ At(t, "idle") /\ crashes < MaxCrashes
    /\ status[e] = "PENDING" /\ e \in mentioned /\ e \notin claimed
    /\ crashes' = crashes + 1
    /\ Become(t, [Idle EXCEPT !.pc = "orphan", !.run = e])
    /\ UNCHANGED <<ledger, gateway, dispatch, lends, bridge, pauses, updates>>

\* ... and settles each, undispatched, on the status _settle_undispatched_run reads.
SettleOrphan(t) ==
    LET k == task[t] IN
    /\ At(t, "orphan")
    /\ Become(t, [k EXCEPT !.pc = "undispatched", !.read = status[k.run], !.why = "ORPHANED"])
    /\ UNCHANGED <<ledger, gateway, dispatch, lends, bridge, bounds>>

-----------------------------------------------------------------------------
(* Pause, out-of-band updates, withdrawn grants, time, and death. *)

\* pause_execution and resume_execution of a lifecycle-managed branch run: the
\* bridge of this process must know the run, then the status is swapped, by the
\* transitions an execution has: what goes to RUNNING may also be PENDING still.
PausesFrom(to) == IF to = "PAUSED" THEN {"RUNNING"} ELSE {"PENDING", "PAUSED"}

Pause(t, e, to) ==
    /\ e \in live /\ status[e] \in PausesFrom(to)
    /\ Starts(t, e, IF to = "PAUSED" THEN "pause" ELSE "unpause")
    /\ IF status[e] = "PAUSED" THEN UNCHANGED pauses
                               ELSE pauses < MaxPauses /\ pauses' = pauses + 1
    /\ UNCHANGED <<ledger, gateway, dispatch, lends, bridge, updates, crashes>>

CommitPause_Blind(t, to) ==                        \* mutant: no compare and swap
    /\ At(t, IF to = "PAUSED" THEN "pause" ELSE "unpause")
    /\ UpdateStatus(task[t].run, to)
    /\ Become(t, Idle)
    /\ UNCHANGED <<gateway, dispatch, lends, bridge, bounds>>

CommitPause(t, to) ==
    LET k == task[t] IN
    /\ At(t, IF to = "PAUSED" THEN "pause" ELSE "unpause")
    /\ IF status[k.run] = k.read THEN UpdateStatus(k.run, to) ELSE UNCHANGED ledger
    /\ Become(t, Idle)
    /\ UNCHANGED <<gateway, dispatch, lends, bridge, bounds>>

\* record_session_update: an update the harness sends on its own, checked
\* against the run it read and written unconditionally as STREAMING.
ReceiveUpdate(t, e) ==
    /\ Open(e) /\ updates < MaxUpdates
    /\ Starts(t, e, "update")
    /\ updates' = updates + 1
    /\ UNCHANGED <<ledger, gateway, dispatch, lends, bridge, pauses, crashes>>

RecordUpdate(t) ==
    LET e == task[t].run IN
    /\ At(t, "update")
    /\ IF CanAdvance(e, None) THEN Advance(e, "STREAMING") ELSE UNCHANGED ledger
    /\ Become(t, Idle)
    /\ UNCHANGED <<gateway, dispatch, lends, bridge, bounds>>

\* A grant is narrowed or a membership ends, so the terms bounding e are empty.
Withdraw(e) ==
    /\ e \in lends
    /\ lends' = lends \ {e}
    /\ UNCHANGED <<ledger, gateway, dispatch, bridge, task, bounds>>

LeaseExpires(e) ==
    /\ LeaseRunsOut(e)
    /\ UNCHANGED <<gateway, dispatch, lends, bridge, task, bounds>>

\* A task dies at an await: a client went away, its process was killed.  The
\* agent-task dispatcher alone survives being cancelled long enough to settle.
Die(t) ==
    /\ ~At(t, "idle") /\ crashes < MaxCrashes
    /\ crashes' = crashes + 1
    /\ \/ Become(t, Idle)
       \/ task[t].via = "task" /\ Raise(t, "domain")
    /\ UNCHANGED <<ledger, gateway, dispatch, lends, bridge, pauses, updates>>

\* A process restarts: its tasks and its bridge's memory are gone.
Restart ==
    /\ crashes < MaxCrashes
    /\ \/ \E t \in Tasks : ~At(t, "idle")
       \/ live # {}
    /\ crashes' = crashes + 1
    /\ task' = [t \in Tasks |-> Idle]
    /\ live' = {} /\ flagged' = {}
    /\ UNCHANGED <<ledger, gateway, dispatch, lends, pauses, updates>>

-----------------------------------------------------------------------------
\* The next step of a handler already in flight.
Proceed(t) ==
    \/ Step(t) \/ Claim(t) \/ NewSession(t) \/ MarkRunning(t) \/ ProviderFails(t)
    \/ ProviderAnswers(t) \/ RenewLease(t) \/ Finish(t) \/ WithoutAnswer(t)
    \/ \E c \in Calls : GateDenies(t, c) \/ GateSuspends(t, c) \/ GateAllows(t, c)
    \/ RunTool(t) \/ ResolveCall(t) \/ ParkIfSpent(t)
    \/ AdvanceApproved(t) \/ DenyApproved(t) \/ ResumeSuspendedTurn(t)
    \/ Unresumable(t) \/ SettleUndispatched(t) \/ SettleOrphan(t) \/ Settle(t)
    \/ Discard(t) \/ ListPending(t) \/ ExpireUndecided(t)
    \/ CommitCancel(t) \/ RecordUpdate(t)
    \/ \E to \in {"PAUSED", "RUNNING"} : CommitPause(t, to)

\* What a member, a reviewer or a dispatcher starts.
Request(t) ==
    \/ \E e \in Runs :
          \/ \E via \in {"route", "mention", "task"} : EnterTurn(t, e, via)
          \/ Cancel(t, e) \/ RemoveAgent(t, e) \/ ReceiveUpdate(t, e)
          \/ \E to \in {"PAUSED", "RUNNING"} : Pause(t, e, to)
    \/ \E c \in Calls :
          \/ Approve(t, c)
          \/ \E continue_turn \in BOOLEAN : Reject(t, c, continue_turn)

Environment ==
    \/ \E e \in Runs :
          \/ OpenRun(e) \/ Withdraw(e) \/ LeaseExpires(e)
          \/ \E previous \in Runs : ResumeAgentRun(previous, e)
          \/ \E c \in Calls : RequestApproval(c, e)
    \/ Restart

Next ==
    \/ Environment
    \/ \E t \in Tasks : Proceed(t) \/ Request(t) \/ Die(t)
                      \/ \E e \in Runs : Sweep(t, e) \/ ListOrphan(t, e)

Spec == Init /\ [][Next]_vars

\* The event loop runs every handler on, time passes, and server.py's loop
\* keeps sweeping.  Nothing makes a member, a reviewer or a dispatcher act.
Fairness ==
    /\ \A t \in Tasks : WF_vars(Proceed(t))
    /\ \A e \in Runs : WF_vars(LeaseExpires(e))
    /\ \A t \in Sweepers, e \in Runs : SF_vars(Sweep(t, e))

FairSpec == Spec /\ Fairness

-----------------------------------------------------------------------------
(* Safety, beside what AgentRuns promises of the ledger. *)

\* The awaits at which a task holds a run's turn, from the claim that let it
\* in, or the reviewer's decision it carries, until it lets go.
Drives(t, e) ==
    /\ task[t].run = e
    /\ \/ task[t].pc \in {"begin", "mark", "prompt", "beat", "answer", "cancelled", "tool", "resolve",
                          "park", "advance", "deny", "resume"}
       \/ task[t].pc \in {"enter", "claim"} /\ ~task[t].first

\* At most one task carries a run's turn: two entrances, two decisions, or a
\* decision and an entrance never prompt one run at once (execute_agent_step's
\* require_idle, approve/reject's PENDING check, SuspendedTurnRepo.claim).
SingleDriver ==
    \A e \in Runs : \A t, u \in Tasks : Drives(t, e) /\ Drives(u, e) => t = u

Undecided(e) == \E c \in Calls : called[c] = e /\ Gates(c) /\ approval[c] = "PENDING"

\* While a reviewer has a gated call of an open run to decide, the rest of the
\* turn is there to resume and the run stands on the reviewer's long lease
\* (_handle_tool_request: "either the reviewer has a question and the turn is
\* parked behind it, or neither exists").  And a suspended turn of an open run has
\* somebody who will come for it: that reviewer, or the decision's own task on its
\* way to claim it.
HeldTurn ==
    \A e \in Runs : Open(e) =>
        /\ Undecided(e) => e \in suspended /\ harness[e] = "AWAITING_APPROVAL"
        /\ e \in suspended =>
               Undecided(e) \/ \E t \in Tasks : task[t].run = e /\ task[t].via = "review"

\* A gated tool's effect exists only after a reviewer approved that very call:
\* neither a refusal nor an expiry racing the decision lets it run.
GatedEffectsApproved ==
    \A c \in wrote : approval[c] \in {None, "APPROVED"}

(* What a handler carries across an await is still true when it goes on: the *)
(* strengthening under which the ledger's promises are inductive.            *)

\* The awaits whose continuation writes from the status read earlier, on the
\* gated call it names, or with the settlement it was given.
WritesFromRead == {"claim", "begin", "mark", "prompt", "beat", "answer", "cancel", "pause", "unpause"}
WritesCall == {"tool", "resolve", "advance", "deny"}
WritesSettlement == {"undispatched", "unresumable", "settle"}

Fit(k) ==
    /\ k.pc # "idle" => k.run \in Runs /\ Exists(k.run)
    /\ k.pc \in WritesFromRead => k.read \in OpenStatuses
    /\ k.read \in TERMINAL_EXECUTION_STATUSES => k.run \in Runs /\ Terminal(k.run)
    /\ k.pc = "beat" => k.state \in OpenHarnessStates
    /\ k.pc \in WritesCall => k.call \in Calls /\ called[k.call] = k.run
    /\ k.pc = "resolve" => k.why \in {"EXECUTED", "FAILED", "REJECTED", "AUTHORITY_REVOKED"}
    /\ k.pc \in WritesSettlement => k.why \in RunSettlement \ {"END_TURN"}

\* A call that has an approval, a request or an effect belongs to an opened run.
Owned(c) == called[c] \in Runs /\ Exists(called[c])

\* No handler wakes holding something that is not so any more: a status that
\* reads terminal is terminal for good, a settlement about to be written never
\* claims an answer, a call is still the call of the run that made it.
CarriedFacts ==
    /\ \A t \in Tasks : Fit(task[t])
    /\ \A c \in Calls : approval[c] # None \/ request[c] # None \/ c \in wrote => Owned(c)

(* What a step may never do. *)

\* A decided approval is never decided again, by a reviewer or an expiry that
\* listed it before the decision (_expire_undecided_approvals).
DecisionFinal ==
    [][\A c \in Calls : approval[c] \notin {None, "PENDING"} => approval'[c] = approval[c]]_vars

\* A call acts once, and only while it has not been answered: whoever brings it to
\* its tool - the turn the gateway let go on, or a reviewer's decision hours later,
\* beside expiries, sweeps, second decisions and entrances - it has had no effect
\* yet and nobody has resolved or refused it (_run_tool and
\* _resolve_tool_request_terminal are two transactions; approve_action's and
\* SuspendedTurnRepo.claim's are what keeps others away from the call).
Acts(t) == At(t, "tool") /\ task'[t].pc = "resolve" /\ task'[t].why = "EXECUTED"

EffectOnce ==
    [][\A t \in Tasks : Acts(t) =>
          task[t].call \notin wrote /\ request[task[t].call] = "PENDING_APPROVAL"]_vars

(* What must eventually happen. *)

\* Every run that is opened is eventually settled, whoever died or walked
\* away: nothing exempts a state from the sweep (list_expired).
EventuallySettled == \A e \in Runs : Exists(e) ~> Settled(e)

\* The doors that settle only through _settle_run, cancel_execution or a
\* removal close the gate behind them: while a run they settled still has an
\* undecided gated call, the handler that settled it is on its way to expire
\* that call, unless it died first ("every settlement calls it",
\* _expire_undecided_approvals).  The other settlements may also come from
\* _settle_undispatched_run, which leaves the call to be decided for nothing.
ClosingSettlements == {"CANCELLED", "AGENT_REMOVED", "PARKED", "APPROVAL_EXPIRED"}

Closes(t, c) ==
    /\ task[t].run = called[c]
    /\ \/ task[t].pc \in {"discard", "list"}
       \/ task[t].pc = "expire" /\ c \in task[t].seen

SettledGateIsClosing ==
    \A c \in Calls :
        (/\ Gates(c) /\ approval[c] = "PENDING"
         /\ called[c] # NoRun /\ settlement[called[c]] \in ClosingSettlements)
            => crashes > 0 \/ \E t \in Tasks : Closes(t, c)

-----------------------------------------------------------------------------
(* The contract the service keeps with whoever opened the run. *)

Phase(e) ==
    IF ~Exists(e) THEN "unopened"
    ELSE IF ~Terminal(e) THEN "open"
    ELSE IF e \in outputs THEN "answered" ELSE "ended"

Contract == INSTANCE RunContract WITH
    Accounts <- RunSettlement,
    phase <- [e \in Runs |-> Phase(e)],
    account <- settlement,
    effects <- {<<c, called[c]>> : c \in wrote}

\* The service implements the contract: one ending, one account, no effect
\* outside the open phase (the whole of services/runs.py and steps.py).
ImplementsContract == Contract!Spec

-----------------------------------------------------------------------------
(* What a comment of the code says of every run, and the code does not        *)
(* always do: a run finds it violated.                                        *)

\* "Settling a run somebody else is advancing is exactly the damage this guard
\* exists to prevent" (_settle_undispatched_run): a dispatcher that was refused
\* the turn does not fail the run another task is carrying.
UndispatchedSparesDriven ==
    [][\A t, u \in Tasks :
          t # u /\ At(t, "undispatched") /\ task[t].why = "FAILED" /\ Drives(u, task[t].run)
              => task'[t] = task[t] \/ settlement' = settlement]_vars
=============================================================================
