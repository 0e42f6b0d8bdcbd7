---------------------------- MODULE RunDriverProofs ----------------------------
(***************************************************************************)
(* At most one task ever carries a run's turn, for any number of runs,     *)
(* handlers, calls, crashes, pauses and out-of-band updates.               *)
(*                                                                         *)
(* SingleDriver is not inductive.  A turn is handed over in three ways: an *)
(* entrance claims a STARTING run, a driver leaves it with a reviewer, a   *)
(* reviewer's decision takes it up again.  So the invariant also says that *)
(* a STARTING run and a run with an undecided gated call have no driver,   *)
(* that such a run has one undecided call only and is past STARTING, and   *)
(* that no heartbeat will write STARTING back.  A driver that has stopped  *)
(* to settle its run, and would go on with the turn afterwards, still      *)
(* counts.                                                                 *)
(***************************************************************************)
EXTENDS RunLifecycleProofs

Turning == {"begin", "mark", "prompt", "beat", "answer", "cancelled", "tool", "resolve", "park",
            "advance", "deny", "resume"}
Closing == {"settle", "discard", "list", "expire"}

Carrying(k) ==
    \/ k.pc \in Turning
    \/ k.pc \in {"enter", "claim"} /\ ~k.first
    \/ k.pc \in Closing /\ k.then \in {"park", "resume"}

Carries(t, e) == task[t].run = e /\ Carrying(task[t])

Asks(c) == Gates(c) /\ approval[c] = "PENDING"

OneCarrier == \A e \in Runs : \A t, u \in Tasks : Carries(t, e) /\ Carries(u, e) => t = u
OneQuestion == \A c, d \in Calls : Asks(c) /\ Asks(d) /\ called[c] = called[d] => c = d
FreeToStart == \A e \in Runs : harness[e] = "STARTING" => \A t \in Tasks : ~Carries(t, e)
FreeToDecide ==
    \A c \in Calls : Asks(c) => /\ harness[called[c]] # "STARTING"
                                /\ \A t \in Tasks : ~Carries(t, called[c])
BeatsOn == \A t \in Tasks : task[t].pc = "beat" => task[t].state # "STARTING"

DriverInv == OneCarrier /\ OneQuestion /\ FreeToStart /\ FreeToDecide /\ BeatsOn

\* What most steps do: nobody takes a turn up, no question is opened, no run
\* goes back to STARTING.
NoNewCarrier == \A t \in Tasks : \A e \in Runs : Carries(t, e)' => Carries(t, e)
NoNewQuestion == \A c \in Calls : Asks(c)' => Asks(c) /\ called'[c] = called[c]
NoNewStart == \A e \in Runs : harness'[e] = "STARTING" => harness[e] = "STARTING" \/ ~Exists(e)
Calm == NoNewCarrier /\ NoNewQuestion /\ NoNewStart /\ BeatsOn'

\* A carrier's run exists, and so does the run of an undecided call.
LEMMA CarriersExist ==
    ASSUME Inv
    PROVE  /\ \A t \in Tasks : \A e \in Runs : Carries(t, e) => Exists(e)
           /\ \A c \in Calls : Asks(c) => called[c] \in Runs /\ Exists(called[c])
<1>1. ASSUME NEW t \in Tasks, NEW e \in Runs, Carries(t, e) PROVE Exists(e)
  BY <1>1, Current DEF Carries, Carrying, At, Turning, Closing
<1>2. ASSUME NEW c \in Calls, Asks(c) PROVE called[c] \in Runs /\ Exists(called[c])
  BY <1>2, ReviewedRun DEF Asks
<1> QED
  BY <1>1, <1>2

\* Such a step keeps the invariant.
LEMMA CalmKeeps ==
    ASSUME Inv, DriverInv, Calm
    PROVE  DriverInv'
<1> USE DEF DriverInv, Calm
<1>1. OneCarrier'
  BY DEF OneCarrier, NoNewCarrier
<1>2. OneQuestion'
  BY DEF OneQuestion, NoNewQuestion
<1>3. FreeToStart'
  BY CarriersExist DEF FreeToStart, NoNewStart, NoNewCarrier
<1>4. FreeToDecide'
  <2>1. ASSUME NEW c \in Calls, Asks(c)'
        PROVE  /\ harness'[called'[c]] # "STARTING"
               /\ \A t \in Tasks : ~Carries(t, called[c])'
    <3>1. PICK e \in Runs : e = called[c] /\ e = called'[c] /\ Exists(e) /\ Asks(c)
      BY <2>1, CarriersExist DEF NoNewQuestion
    <3>2. harness'[e] # "STARTING"
      BY <3>1 DEF FreeToDecide, NoNewStart
    <3>3. \A t \in Tasks : ~Carries(t, e)'
      BY <3>1 DEF FreeToDecide, NoNewCarrier
    <3> QED
      BY <3>1, <3>2, <3>3 DEF Carries
  <2> QED
    BY <2>1 DEF FreeToDecide
<1> QED
  BY <1>1, <1>2, <1>3, <1>4

\* The writes of the ledger that open no row never bring STARTING back.
LEMMA NeverRestarts ==
    ASSUME Inv, NEW e \in Runs,
           \/ UNCHANGED ledger
           \/ \E state \in {"STREAMING", "AWAITING_APPROVAL"} : Advance(e, state)
           \/ SpendAttempt(e) \/ CompleteExecution(e) \/ LeaseRunsOut(e)
           \/ \E to : UpdateStatus(e, to)
           \/ \E final, why : Terminalize(e, final, why)
           \/ \E why : SettleOnly(e, why)
           \/ \E attempt : OpenRow(e, attempt)
    PROVE  NoNewStart
BY DEF NoNewStart, ledger, Advance, SpendAttempt, CompleteExecution, LeaseRunsOut, UpdateStatus,
   Terminalize, SettleOnly, SettleEnvelope, OpenRow, Inv, LedgerInv, LedgerTypeOK

\* The task that moves carries its turn on, or lets it go.
LEMMA HandsOff ==
    ASSUME Inv, DriverInv, NEW t \in Tasks, NEW n, Become(t, n),
           Carrying(n) => n.run = task[t].run /\ Carrying(task[t]),
           n.pc = "beat" => n.state # "STARTING"
    PROVE  NoNewCarrier /\ BeatsOn'
<1>1. task \in [Tasks -> TaskType]
  BY Current
<1>2. \A u \in Tasks : task'[u] = IF u = t THEN n ELSE task[u]
  BY <1>1 DEF Become
<1> QED
  BY <1>2 DEF NoNewCarrier, Carries, BeatsOn, DriverInv

\* A step that moves no task.
LEMMA NobodyMoves == ASSUME DriverInv, UNCHANGED task PROVE NoNewCarrier /\ BeatsOn'
BY DEF NoNewCarrier, Carries, BeatsOn, DriverInv

\* An exception, and a return, let the turn go.
LEMMA Drops ==
    ASSUME NEW k \in TaskType
    PROVE  /\ ~Carrying(Idle) /\ Idle.pc # "beat"
           /\ ~Carrying(AfterReturn(k)) /\ AfterReturn(k).pc # "beat"
           /\ \A kind, found : ~Carrying(AfterRaise(k, kind, found))
                               /\ AfterRaise(k, kind, found).pc # "beat"
<1> USE DEF Carrying, Turning, Closing
<1>1. ~Carrying(Idle) /\ Idle.pc # "beat"
  BY DEF Idle
<1>2. ~Carrying(AfterReturn(k)) /\ AfterReturn(k).pc # "beat"
  <2>1. CASE k.via = "task"
    <3>1. AfterReturn(k).pc = "unresumable"
      BY <2>1 DEF AfterReturn, TaskType
    <3> QED
      BY <3>1
  <2>2. CASE k.via # "task"
    BY <1>1, <2>2 DEF AfterReturn
  <2> QED
    BY <2>1, <2>2
<1>3. ASSUME NEW kind, NEW found
      PROVE  /\ ~Carrying(AfterRaise(k, kind, found))
             /\ AfterRaise(k, kind, found).pc # "beat"
  <2>1. CASE k.via = "route"
    BY <1>1, <2>1 DEF AfterRaise
  <2>2. CASE k.via # "route"
    <3>1. k.via \in {"mention", "task", "review"}
      BY <2>2 DEF TaskType, Entrances
    <3>2. AfterRaise(k, kind, found).pc \in {"undispatched", "unresumable"}
      BY <3>1 DEF AfterRaise, TaskType
    <3> QED
      BY <3>2
  <2> QED
    BY <2>1, <2>2
<1> QED
  BY <1>1, <1>2, <1>3

\* An exception escaping the turn takes no turn up (the callers of _continue_agent_turn).
LEMMA RaiseHandsOff ==
    ASSUME Inv, DriverInv, NEW t \in Tasks, NEW kind, Raise(t, kind)
    PROVE  NoNewCarrier /\ BeatsOn'
BY Current, Drops, HandsOff DEF Raise

\* Nor does the return of the turn loop.
LEMMA ReturnHandsOff ==
    ASSUME Inv, DriverInv, NEW t \in Tasks, Return(t)
    PROVE  NoNewCarrier /\ BeatsOn'
BY Current, Drops, HandsOff DEF Return

\* Nor does a handler that is done.
LEMMA IdleHandsOff ==
    ASSUME Inv, DriverInv, NEW t \in Tasks, Become(t, Idle)
    PROVE  NoNewCarrier /\ BeatsOn'
BY Current, Drops, HandsOff

\* A step that writes no approval and no request opens no question.
LEMMA SameQuestions == ASSUME UNCHANGED <<called, approval, request>> PROVE NoNewQuestion
BY DEF NoNewQuestion, Asks, Gates

\* A turn that goes on at another await stays with the task that has it.
LEMMA StillTurning ==
    ASSUME Inv, DriverInv, NEW t \in Tasks, NEW n, Become(t, n), Carrying(task[t]),
           n.run = task[t].run, n.pc # "beat"
    PROVE  NoNewCarrier /\ BeatsOn'
BY HandsOff

\* A record that starts, or settles without coming back, carries no turn.
LEMMA NotTurning ==
    ASSUME Inv, DriverInv, NEW t \in Tasks, NEW n, Become(t, n), ~Carrying(n), n.pc # "beat"
    PROVE  NoNewCarrier /\ BeatsOn'
BY HandsOff

\* A settlement keeps a turn only for a task that had it and goes on with it (_settle_run).
LEMMA SettleHandsOff ==
    ASSUME Inv, DriverInv, NEW t \in Tasks, NEW k \in TaskType, NEW why, NEW held, NEW then,
           Become(t, SettleRun(k, why, held, then)),
           then \in {"park", "resume"} => k.run = task[t].run /\ Carrying(task[t])
    PROVE  NoNewCarrier /\ BeatsOn'
<1>1. PICK n : n = SettleRun(k, why, held, then)
  OBVIOUS
<1>2. n.pc = "settle" /\ n.run = k.run /\ n.then = then
  BY <1>1 DEF SettleRun, TaskType
<1>3. Carrying(n) => then \in {"park", "resume"}
  BY <1>2 DEF Carrying, Turning, Closing
<1> QED
  BY <1>1, <1>2, <1>3, HandsOff

\* What follows a settlement takes the turn up again only if its own task had it.
LEMMA AfterSettleHandsOff ==
    ASSUME Inv, DriverInv, NEW t \in Tasks, NEW k \in TaskType, Become(t, AfterSettle(k)),
           k.then \in {"park", "resume"} => k.run = task[t].run /\ Carrying(task[t])
    PROVE  NoNewCarrier /\ BeatsOn'
<1>1. CASE k.then \in {"park", "resume"}
  <2>1. PICK n : n = AfterSettle(k)
    OBVIOUS
  <2>2. n.pc \in {"park", "resume"} /\ n.run = k.run
    BY <1>1, <2>1 DEF AfterSettle, TaskType
  <2> QED
    BY <1>1, <2>1, <2>2, StillTurning
<1>2. CASE k.then \notin {"park", "resume"}
  BY <1>2, Drops, NotTurning DEF AfterSettle
<1> QED
  BY <1>1, <1>2

\* The head of a step hands no turn over: it refuses, settles or goes on to claim
\* (_execute_one_agent_step_inner).
LEMMA StepCalm ==
    ASSUME Inv, DriverInv, NEW t \in Tasks, Step(t)
    PROVE  Calm
<1>1. NoNewCarrier /\ BeatsOn'
  <2>1. PICK k \in TaskType : k = task[t] /\ k.pc = "enter"
    BY Current DEF Step, At
  <2>2. ASSUME NEW n, Become(t, n), NEW why \in {"AUTHORITY_REVOKED", "MAX_TOKENS"},
               NEW then \in {"auth", "domain"},
               n = [k EXCEPT !.pc = "undispatched", !.read = status[k.run], !.why = why,
                             !.then = then]
        PROVE  NoNewCarrier /\ BeatsOn'
    <3>1. n.pc = "undispatched"
      BY <2>2 DEF TaskType
    <3> QED
      BY <2>2, <3>1, NotTurning DEF Carrying, Turning, Closing
  <2>3. ASSUME NEW n, Become(t, n), n = [k EXCEPT !.pc = "claim", !.read = status[k.run]]
        PROVE  NoNewCarrier /\ BeatsOn'
    <3>1. n.pc = "claim" /\ n.run = k.run /\ n.first = k.first
      BY <2>3 DEF TaskType
    <3>2. Carrying(n) => Carrying(k)
      BY <2>1, <3>1 DEF Carrying, Turning, Closing
    <3> QED
      BY <2>1, <2>3, <3>1, <3>2, HandsOff
  <2>4. ASSUME NEW kind, Raise(t, kind) PROVE NoNewCarrier /\ BeatsOn'
    BY <2>4, RaiseHandsOff
  <2> QED
    BY <2>1, <2>2, <2>3, <2>4 DEF Step
<1>2. NoNewQuestion
  BY SameQuestions DEF Step, gateway
<1>3. NoNewStart
  BY DEF NoNewStart, Step, ledger
<1> QED
  BY <1>1, <1>2, <1>3 DEF Calm

\* Starting the prompt stays within the task that claimed the run: its session,
LEMMA NewSessionCalm ==
    ASSUME Inv, DriverInv, NEW t \in Tasks, NewSession(t)
    PROVE  Calm
<1>1. PICK k \in TaskType : k = task[t] /\ k.pc = "begin" /\ k.run \in Runs
  BY Current DEF NewSession, At
<1>2. NoNewCarrier /\ BeatsOn'
  <2>1. PICK next \in {"cancelled", "prompt", "mark"} : Become(t, [k EXCEPT !.pc = next])
    BY <1>1 DEF NewSession, Prompts, Goto
  <2>2. PICK n : n = [k EXCEPT !.pc = next]
    OBVIOUS
  <2>3. n.pc = next /\ n.run = k.run
    BY <2>2 DEF TaskType
  <2> QED
    BY <1>1, <2>1, <2>2, <2>3, StillTurning DEF Carrying, Turning
<1>3. NoNewQuestion
  BY SameQuestions DEF NewSession, gateway
<1>4. NoNewStart
  BY <1>1, NeverRestarts DEF NewSession
<1> QED
  BY <1>2, <1>3, <1>4 DEF Calm

\* and its mark (mark_running).
LEMMA MarkRunningCalm ==
    ASSUME Inv, DriverInv, NEW t \in Tasks, MarkRunning(t)
    PROVE  Calm
<1>1. PICK k \in TaskType : k = task[t] /\ k.pc = "mark" /\ k.run \in Runs
  BY Current DEF MarkRunning, At
<1>2. NoNewCarrier /\ BeatsOn'
  <2>1. ASSUME NEW n, Become(t, n), NEW next \in {"cancelled", "prompt"},
               n = [k EXCEPT !.pc = next, !.read = "RUNNING"]
        PROVE  NoNewCarrier /\ BeatsOn'
    <3>1. n.pc = next /\ n.run = k.run
      BY <2>1 DEF TaskType
    <3> QED
      BY <1>1, <2>1, <3>1, StillTurning DEF Carrying, Turning
  <2> QED
    BY <1>1, <2>1, RaiseHandsOff DEF MarkRunning, Prompts
<1>3. NoNewQuestion
  BY SameQuestions DEF MarkRunning, gateway
<1>4. NoNewStart
  BY <1>1, NeverRestarts DEF MarkRunning
<1> QED
  BY <1>2, <1>3, <1>4 DEF Calm

\* A failed provider call ends the turn (terminalize_without_output).
LEMMA ProviderFailsCalm ==
    ASSUME Inv, DriverInv, NEW t \in Tasks, ProviderFails(t)
    PROVE  Calm
<1>1. task[t].run \in Runs
  BY Current DEF ProviderFails, At
<1>2. NoNewStart /\ NoNewQuestion
  BY <1>1, NeverRestarts, SameQuestions DEF ProviderFails, gateway
<1> QED
  BY <1>2, RaiseHandsOff, ReturnHandsOff DEF ProviderFails, Calm

\* So does an answer (complete_execution), or its refusal.
LEMMA FinishCalm ==
    ASSUME Inv, DriverInv, NEW t \in Tasks, Finish(t)
    PROVE  Calm
<1>1. task[t].run \in Runs
  BY Current DEF Finish, At
<1>2. NoNewStart /\ NoNewQuestion
  BY <1>1, NeverRestarts, SameQuestions DEF Finish, gateway
<1> QED
  BY <1>2, RaiseHandsOff, ReturnHandsOff DEF Finish, Calm

\* The heartbeat reads a state other than STARTING: its own task carries the run.
LEMMA ProviderAnswersCalm ==
    ASSUME Inv, DriverInv, NEW t \in Tasks, ProviderAnswers(t)
    PROVE  Calm
<1>1. PICK k \in TaskType : k = task[t] /\ k.pc = "prompt" /\ k.run \in Runs
  BY Current DEF ProviderAnswers, At
<1>2. Carries(t, k.run) /\ Carrying(k)
  BY <1>1 DEF Carries, Carrying, Turning
<1>3. harness[k.run] # "STARTING"
  BY <1>1, <1>2 DEF DriverInv, FreeToStart
<1>4. NoNewCarrier /\ BeatsOn'
  <2>1. ASSUME NEW n, n = [k EXCEPT !.pc = "answer"], Become(t, n) PROVE NoNewCarrier /\ BeatsOn'
    <3>1. n.pc = "answer" /\ n.run = k.run
      BY <2>1 DEF TaskType
    <3> QED
      BY <1>1, <1>2, <2>1, <3>1, StillTurning
  <2>2. ASSUME NEW n, n = [k EXCEPT !.pc = "beat", !.state = harness[k.run]], Become(t, n)
        PROVE  NoNewCarrier /\ BeatsOn'
    <3>1. n.pc = "beat" /\ n.run = k.run /\ n.state = harness[k.run]
      BY <2>2 DEF TaskType
    <3> QED
      BY <1>1, <1>2, <1>3, <2>2, <3>1, HandsOff
  <2> QED
    BY <1>1, <2>1, <2>2 DEF ProviderAnswers, Goto
<1>5. NoNewStart /\ NoNewQuestion
  BY <1>1, NeverRestarts, SameQuestions DEF ProviderAnswers, gateway
<1> QED
  BY <1>4, <1>5 DEF Calm

\* It writes that state back, so it never reopens the entrance (_renew_run_lease).
LEMMA RenewLeaseCalm ==
    ASSUME Inv, DriverInv, NEW t \in Tasks, RenewLease(t)
    PROVE  Calm
<1>1. PICK k \in TaskType : k = task[t] /\ k.pc = "beat" /\ k.run \in Runs /\ Fit(k)
  BY Current DEF RenewLease, At
<1>2. k.state \in {"STREAMING", "AWAITING_APPROVAL"}
  BY <1>1 DEF Fit, DriverInv, BeatsOn, OpenHarnessStates
<1>3. NoNewCarrier /\ BeatsOn'
  <2>1. PICK n : n = [k EXCEPT !.pc = "answer", !.state = None]
    OBVIOUS
  <2>2. n.pc = "answer" /\ n.run = k.run
    BY <2>1 DEF TaskType
  <2> QED
    BY <1>1, <2>1, <2>2, StillTurning DEF RenewLease, Carrying, Turning
<1>4. NoNewStart /\ NoNewQuestion
  BY <1>1, <1>2, NeverRestarts, SameQuestions DEF RenewLease, gateway
<1> QED
  BY <1>3, <1>4 DEF Calm

\* A turn that ends without an answer lets the run go (_settle_turn_without_answer).
LEMMA WithoutAnswerCalm ==
    ASSUME Inv, DriverInv, NEW t \in Tasks, WithoutAnswer(t)
    PROVE  Calm
<1>1. NoNewCarrier /\ BeatsOn'
  <2>1. None \notin {"park", "resume"} \/ Carrying(task[t])
    BY DEF WithoutAnswer, Carrying, Turning
  <2> QED
    BY <2>1, Current, ReturnHandsOff, SettleHandsOff DEF WithoutAnswer
<1>2. NoNewStart /\ NoNewQuestion
  BY SameQuestions DEF WithoutAnswer, gateway, ledger, NoNewStart
<1> QED
  BY <1>1, <1>2 DEF Calm

\* A call nobody has made yet has neither an approval nor a request.
LEMMA UnusedIsBlank ==
    ASSUME Inv, NEW c \in Calls, Unused(c)
    PROVE  approval[c] = None /\ request[c] = None /\ ~Asks(c)
BY NoRunAssumption, NullAssumption DEF Inv, CarriedFacts, Owned, Unused, Asks, Gates,
   ApprovalStatus, RequestStatus

\* A refused call opens no question and stays in its turn (_handle_tool_request).
LEMMA GateDeniesCalm ==
    ASSUME Inv, DriverInv, NEW t \in Tasks, NEW c \in Calls, GateDenies(t, c)
    PROVE  Calm
<1>1. PICK k \in TaskType : k = task[t] /\ k.pc = "answer"
  BY Current DEF GateDenies, At
<1>2. NoNewCarrier /\ BeatsOn'
  <2>1. PICK n : n = [k EXCEPT !.pc = "park"]
    OBVIOUS
  <2>2. n.pc = "park" /\ n.run = k.run
    BY <2>1 DEF TaskType
  <2> QED
    BY <1>1, <2>1, <2>2, StillTurning DEF GateDenies, Goto, Carrying, Turning
<1>3. NoNewQuestion
  BY UnusedIsBlank DEF GateDenies, NoNewQuestion, Asks, Gates, Inv, TypeOK
<1>4. NoNewStart
  BY DEF GateDenies, ledger, NoNewStart
<1> QED
  BY <1>2, <1>3, <1>4 DEF Calm

\* A call let through opens no question either: no approval names it.
LEMMA GateAllowsCalm ==
    ASSUME Inv, DriverInv, NEW t \in Tasks, NEW c \in Calls, GateAllows(t, c)
    PROVE  Calm
<1>1. PICK k \in TaskType : k = task[t] /\ k.pc = "answer"
  BY Current DEF GateAllows, At
<1>2. NoNewCarrier /\ BeatsOn'
  <2>1. PICK n : n = [k EXCEPT !.pc = "tool", !.call = c, !.then = "park"]
    OBVIOUS
  <2>2. n.pc = "tool" /\ n.run = k.run
    BY <2>1 DEF TaskType
  <2> QED
    BY <1>1, <2>1, <2>2, StillTurning DEF GateAllows, Carrying, Turning
<1>3. NoNewQuestion
  <2>1. approval[c] # "PENDING"
    BY UnusedIsBlank, NullAssumption DEF GateAllows, ApprovalStatus
  <2> QED
    BY <2>1 DEF GateAllows, NoNewQuestion, Asks, Gates, Inv, TypeOK
<1>4. NoNewStart
  BY DEF GateAllows, ledger, NoNewStart
<1> QED
  BY <1>2, <1>3, <1>4 DEF Calm

\* The tool runs inside the turn that asked for it (_run_tool).
LEMMA RunToolCalm ==
    ASSUME Inv, DriverInv, NEW t \in Tasks, RunTool(t)
    PROVE  Calm
<1>1. PICK k \in TaskType : k = task[t] /\ k.pc = "tool"
  BY Current DEF RunTool, At
<1>2. NoNewCarrier /\ BeatsOn'
  <2>1. ASSUME NEW n, Become(t, n), NEW why \in {"EXECUTED", "FAILED", "REJECTED", "AUTHORITY_REVOKED"},
               n = [k EXCEPT !.pc = "resolve", !.why = why]
        PROVE  NoNewCarrier /\ BeatsOn'
    <3>1. n.pc = "resolve" /\ n.run = k.run
      BY <2>1 DEF TaskType
    <3> QED
      BY <1>1, <2>1, <3>1, StillTurning DEF Carrying, Turning
  <2> QED
    BY <1>1, <2>1 DEF RunTool
<1>3. NoNewStart /\ NoNewQuestion
  BY SameQuestions DEF RunTool, ledger, NoNewStart
<1> QED
  BY <1>2, <1>3 DEF Calm

\* Resolving the call, or settling the run over it, keeps the turn where it was.
LEMMA ResolveCallCalm ==
    ASSUME Inv, DriverInv, NEW t \in Tasks, ResolveCall(t)
    PROVE  Calm
<1>1. PICK k \in TaskType : k = task[t] /\ k.pc = "resolve" /\ Fit(k)
  BY Current DEF ResolveCall, At
<1>2. PICK done : done = [k EXCEPT !.call = NoCall, !.why = None]
  OBVIOUS
<1>3. done \in TaskType /\ done.run = k.run
  BY <1>2 DEF TaskType
<1>4. NoNewCarrier /\ BeatsOn'
  <2>1. Carrying(task[t])
    BY <1>1 DEF Carrying, Turning
  <2> QED
    BY <1>1, <1>2, <1>3, <2>1, SettleHandsOff, AfterSettleHandsOff DEF ResolveCall
<1>5. NoNewQuestion
  BY <1>1 DEF ResolveCall, NoNewQuestion, Asks, Gates, Inv, TypeOK, Fit
<1>6. NoNewStart
  BY DEF ResolveCall, ledger, NoNewStart
<1> QED
  BY <1>4, <1>5, <1>6 DEF Calm

\* The next prompt, the parking and the return belong to the same task
\* (_park_if_attempts_spent).
LEMMA ParkIfSpentCalm ==
    ASSUME Inv, DriverInv, NEW t \in Tasks, ParkIfSpent(t)
    PROVE  Calm
<1>1. PICK k \in TaskType : k = task[t] /\ k.pc = "park" /\ k.run \in Runs
  BY Current DEF ParkIfSpent, At
<1>2. Carrying(k)
  BY <1>1 DEF Carrying, Turning
<1>3. NoNewCarrier /\ BeatsOn'
  <2>1. ASSUME NEW n, n = [k EXCEPT !.pc = "enter"], Become(t, n) PROVE NoNewCarrier /\ BeatsOn'
    <3>1. n.pc = "enter" /\ n.run = k.run
      BY <2>1 DEF TaskType
    <3> QED
      BY <1>1, <1>2, <2>1, <3>1, StillTurning
  <2> QED
    BY <1>1, <1>2, <2>1, ReturnHandsOff, SettleHandsOff DEF ParkIfSpent, Goto
<1>4. NoNewStart /\ NoNewQuestion
  BY <1>1, NeverRestarts, SameQuestions DEF ParkIfSpent, gateway
<1> QED
  BY <1>3, <1>4 DEF Calm

\* After a grant the run goes back to STREAMING under the task that decided (approve_action).
LEMMA AdvanceApprovedCalm ==
    ASSUME Inv, DriverInv, NEW t \in Tasks, AdvanceApproved(t)
    PROVE  Calm
<1>1. PICK k \in TaskType : k = task[t] /\ k.pc = "advance" /\ k.run \in Runs
  BY Current DEF AdvanceApproved, At
<1>2. NoNewCarrier /\ BeatsOn'
  <2>1. PICK n : n = [k EXCEPT !.pc = "tool", !.then = "resume"]
    OBVIOUS
  <2>2. n.pc = "tool" /\ n.run = k.run
    BY <2>1 DEF TaskType
  <2> QED
    BY <1>1, <2>1, <2>2, StillTurning DEF AdvanceApproved, Carrying, Turning
<1>3. NoNewStart /\ NoNewQuestion
  BY <1>1, NeverRestarts, SameQuestions DEF AdvanceApproved, gateway
<1> QED
  BY <1>2, <1>3 DEF Calm

\* After a grant the policy overrules, the same task goes on to resume the turn.
LEMMA DenyApprovedCalm ==
    ASSUME Inv, DriverInv, NEW t \in Tasks, DenyApproved(t)
    PROVE  Calm
<1>1. PICK k \in TaskType : k = task[t] /\ k.pc = "deny"
  BY Current DEF DenyApproved, At
<1>2. NoNewCarrier /\ BeatsOn'
  <2>1. PICK n : n = [k EXCEPT !.pc = "resume", !.call = NoCall]
    OBVIOUS
  <2>2. n.pc = "resume" /\ n.run = k.run
    BY <2>1 DEF TaskType
  <2> QED
    BY <1>1, <2>1, <2>2, StillTurning DEF DenyApproved, Carrying, Turning
<1>3. NoNewQuestion
  BY <1>1 DEF DenyApproved, NoNewQuestion, Asks, Gates, Inv, TypeOK
<1>4. NoNewStart
  BY DEF DenyApproved, ledger, NoNewStart
<1> QED
  BY <1>2, <1>3, <1>4 DEF Calm

\* Claiming the suspended turn, or finding none, moves no other task (_resume_suspended_turn).
LEMMA ResumeSuspendedTurnCalm ==
    ASSUME Inv, DriverInv, NEW t \in Tasks, ResumeSuspendedTurn(t)
    PROVE  Calm
<1>1. PICK k \in TaskType : k = task[t] /\ k.pc = "resume"
  BY Current DEF ResumeSuspendedTurn, At
<1>2. NoNewCarrier /\ BeatsOn'
  <2>1. ASSUME NEW n, n = [k EXCEPT !.pc = "park"], Become(t, n) PROVE NoNewCarrier /\ BeatsOn'
    <3>1. n.pc = "park" /\ n.run = k.run
      BY <2>1 DEF TaskType
    <3> QED
      BY <1>1, <2>1, <3>1, StillTurning DEF Carrying, Turning
  <2>2. ASSUME NEW n, Become(t, n),
               n = [k EXCEPT !.pc = "unresumable", !.via = "route", !.why = "ORPHANED"]
        PROVE  NoNewCarrier /\ BeatsOn'
    <3>1. n.pc = "unresumable"
      BY <2>2 DEF TaskType
    <3> QED
      BY <2>2, <3>1, NotTurning DEF Carrying, Turning, Closing
  <2> QED
    BY <1>1, <2>1, <2>2 DEF ResumeSuspendedTurn, Goto
<1>3. NoNewStart /\ NoNewQuestion
  BY SameQuestions DEF ResumeSuspendedTurn, ledger, NoNewStart
<1> QED
  BY <1>2, <1>3 DEF Calm

\* Settling what refused to resume takes no turn up (_settle_unresumable_turn).
LEMMA UnresumableCalm ==
    ASSUME Inv, DriverInv, NEW t \in Tasks, Unresumable(t)
    PROVE  Calm
<1>1. NoNewCarrier /\ BeatsOn'
  <2>1. None \notin {"park", "resume"}
    BY NullAssumption
  <2> QED
    BY <2>1, Current, IdleHandsOff, SettleHandsOff DEF Unresumable
<1>2. NoNewStart /\ NoNewQuestion
  BY SameQuestions DEF Unresumable, gateway, ledger, NoNewStart
<1> QED
  BY <1>1, <1>2 DEF Calm

\* Nor does settling a run nobody dispatched (_settle_undispatched_run).
LEMMA SettleUndispatchedCalm ==
    ASSUME Inv, DriverInv, NEW t \in Tasks, SettleUndispatched(t)
    PROVE  Calm
<1>1. task[t].run \in Runs
  BY Current DEF SettleUndispatched, At
<1>2. NoNewStart /\ NoNewQuestion
  BY <1>1, NeverRestarts, SameQuestions DEF SettleUndispatched, gateway
<1> QED
  BY <1>2, RaiseHandsOff, IdleHandsOff DEF SettleUndispatched, Calm

\* Nor does the startup sweep of orphans (_settle_orphaned_mention_runs).
LEMMA SettleOrphanCalm ==
    ASSUME Inv, DriverInv, NEW t \in Tasks, SettleOrphan(t)
    PROVE  Calm
<1>1. NoNewCarrier /\ BeatsOn'
  <2>1. PICK k \in TaskType : k = task[t]
    BY Current
  <2>2. PICK n : n = [k EXCEPT !.pc = "undispatched", !.read = status[k.run], !.why = "ORPHANED"]
    OBVIOUS
  <2>3. n.pc = "undispatched"
    BY <2>2 DEF TaskType
  <2> QED
    BY <2>1, <2>2, <2>3, NotTurning DEF SettleOrphan, Carrying, Turning, Closing
<1>2. NoNewStart /\ NoNewQuestion
  BY SameQuestions DEF SettleOrphan, gateway, ledger, NoNewStart
<1> QED
  BY <1>1, <1>2 DEF Calm

\* The settlement's transaction, taken or refused, goes on with the turn only where it was
\* (_settle_run).
LEMMA SettleCalm ==
    ASSUME Inv, DriverInv, NEW t \in Tasks, Settle(t)
    PROVE  Calm
<1>1. PICK k \in TaskType : k = task[t] /\ k.pc = "settle" /\ k.run \in Runs
  BY Current DEF Settle, At
<1>2. NoNewCarrier /\ BeatsOn'
  <2>1. ASSUME NEW n, Become(t, n),
               n = [k EXCEPT !.pc = "discard", !.held = NoLease, !.read = None, !.why = None]
        PROVE  NoNewCarrier /\ BeatsOn'
    <3>1. n.pc = "discard" /\ n.run = k.run /\ n.then = k.then
      BY <2>1 DEF TaskType
    <3>2. Carrying(n) => Carrying(k)
      BY <1>1, <3>1 DEF Carrying, Turning, Closing
    <3> QED
      BY <1>1, <2>1, <3>1, <3>2, HandsOff
  <2>2. ASSUME NEW j, j = [k EXCEPT !.held = NoLease], Become(t, AfterSettle(j))
        PROVE  NoNewCarrier /\ BeatsOn'
    <3>1. j \in TaskType /\ j.run = k.run /\ j.then = k.then
      BY <2>2 DEF TaskType, NoLease
    <3>2. k.then \in {"park", "resume"} => Carrying(k)
      BY <1>1 DEF Carrying, Closing
    <3> QED
      BY <1>1, <2>2, <3>1, <3>2, AfterSettleHandsOff
  <2> QED
    BY <1>1, <2>1, <2>2 DEF Settle
<1>3. NoNewStart /\ NoNewQuestion
  BY <1>1, NeverRestarts, SameQuestions DEF Settle, gateway
<1> QED
  BY <1>2, <1>3 DEF Calm

\* Discarding the suspended turn keeps the task where it was (SuspendedTurnRepo.discard).
LEMMA DiscardCalm ==
    ASSUME Inv, DriverInv, NEW t \in Tasks, Discard(t)
    PROVE  Calm
<1>1. PICK k \in TaskType : k = task[t] /\ k.pc = "discard"
  BY Current DEF Discard, At
<1>2. NoNewCarrier /\ BeatsOn'
  <2>1. ASSUME NEW n, n = [k EXCEPT !.pc = "list"], Become(t, n) PROVE NoNewCarrier /\ BeatsOn'
    <3>1. n.pc = "list" /\ n.run = k.run /\ n.then = k.then
      BY <2>1 DEF TaskType
    <3>2. Carrying(n) => Carrying(k)
      BY <1>1, <3>1 DEF Carrying, Turning, Closing
    <3> QED
      BY <1>1, <2>1, <3>1, <3>2, HandsOff
  <2> QED
    BY <1>1, <2>1, IdleHandsOff DEF Discard, Goto
<1>3. NoNewStart /\ NoNewQuestion
  BY SameQuestions DEF Discard, ledger, NoNewStart
<1> QED
  BY <1>2, <1>3 DEF Calm

\* So does listing the approvals to expire (_expire_undecided_approvals) ...
LEMMA ListPendingCalm ==
    ASSUME Inv, DriverInv, NEW t \in Tasks, ListPending(t)
    PROVE  Calm
<1>1. PICK k \in TaskType : k = task[t] /\ k.pc = "list"
  BY Current DEF ListPending, At
<1>2. NoNewCarrier /\ BeatsOn'
  <2>1. PICK n : n = [k EXCEPT !.pc = "expire",
                               !.seen = {c \in Calls : called[c] = k.run /\ approval[c] = "PENDING"}]
    OBVIOUS
  <2>2. n.pc = "expire" /\ n.run = k.run /\ n.then = k.then
    BY <2>1 DEF TaskType
  <2>3. Carrying(n) => Carrying(k)
    BY <1>1, <2>2 DEF Carrying, Turning, Closing
  <2> QED
    BY <1>1, <2>1, <2>2, <2>3, HandsOff DEF ListPending
<1>3. NoNewStart /\ NoNewQuestion
  BY SameQuestions DEF ListPending, gateway, ledger, NoNewStart
<1> QED
  BY <1>2, <1>3 DEF Calm

\* ... and expiring them, which only closes questions.
LEMMA ExpireUndecidedCalm ==
    ASSUME Inv, DriverInv, NEW t \in Tasks, ExpireUndecided(t)
    PROVE  Calm
<1>1. PICK k \in TaskType : k = task[t] /\ k.pc = "expire"
  BY Current DEF ExpireUndecided, At
<1>2. NoNewCarrier /\ BeatsOn'
  <2>1. PICK j : j = [k EXCEPT !.seen = {}]
    OBVIOUS
  <2>2. j \in TaskType /\ j.run = k.run /\ j.then = k.then
    BY <2>1 DEF TaskType
  <2>3. k.then \in {"park", "resume"} => Carrying(k)
    BY <1>1 DEF Carrying, Closing
  <2> QED
    BY <1>1, <2>1, <2>2, <2>3, AfterSettleHandsOff DEF ExpireUndecided
<1>3. NoNewQuestion
  BY DEF ExpireUndecided, NoNewQuestion, Asks, Gates
<1>4. NoNewStart
  BY DEF ExpireUndecided, ledger, NoNewStart
<1> QED
  BY <1>2, <1>3, <1>4 DEF Calm

\* A cancellation carries no turn (cancel_execution).
LEMMA CommitCancelCalm ==
    ASSUME Inv, DriverInv, NEW t \in Tasks, CommitCancel(t)
    PROVE  Calm
<1>1. task[t].run \in Runs
  BY Current DEF CommitCancel, At
<1>2. NoNewCarrier /\ BeatsOn'
  <2>1. ASSUME NEW n, n = [Idle EXCEPT !.pc = "discard", !.run = task[t].run], Become(t, n)
        PROVE  NoNewCarrier /\ BeatsOn'
    <3>1. n.pc = "discard" /\ n.then = None
      BY <2>1 DEF Idle
    <3> QED
      BY <2>1, <3>1, NullAssumption, NotTurning DEF Carrying, Turning, Closing
  <2> QED
    BY <2>1, IdleHandsOff DEF CommitCancel
<1>3. NoNewStart /\ NoNewQuestion
  BY <1>1, NeverRestarts, SameQuestions DEF CommitCancel, gateway
<1> QED
  BY <1>2, <1>3 DEF Calm

\* An out-of-band update writes STREAMING, never STARTING (record_session_update).
LEMMA RecordUpdateCalm ==
    ASSUME Inv, DriverInv, NEW t \in Tasks, RecordUpdate(t)
    PROVE  Calm
<1>1. task[t].run \in Runs
  BY Current DEF RecordUpdate, At
<1>2. NoNewStart /\ NoNewQuestion
  BY <1>1, NeverRestarts, SameQuestions DEF RecordUpdate, gateway
<1> QED
  BY <1>2, IdleHandsOff DEF RecordUpdate, Calm

\* A pause or a resume moves the status only (pause_execution, resume_execution).
LEMMA CommitPauseCalm ==
    ASSUME Inv, DriverInv, NEW t \in Tasks, NEW to \in {"PAUSED", "RUNNING"}, CommitPause(t, to)
    PROVE  Calm
<1>1. task[t].run \in Runs
  BY Current DEF CommitPause, At
<1>2. NoNewStart /\ NoNewQuestion
  BY <1>1, NeverRestarts, SameQuestions DEF CommitPause, gateway
<1> QED
  BY <1>2, IdleHandsOff DEF CommitPause, Calm

\* Everything a handler does, but claim a run and leave it with a reviewer.
LEMMA ProceedCalm ==
    ASSUME Inv, DriverInv, NEW t \in Tasks, Proceed(t), ~Claim(t),
           \A c \in Calls : ~GateSuspends(t, c)
    PROVE  Calm
BY StepCalm, NewSessionCalm, MarkRunningCalm, ProviderFailsCalm, ProviderAnswersCalm, RenewLeaseCalm, FinishCalm,
   WithoutAnswerCalm, GateDeniesCalm, GateAllowsCalm, RunToolCalm, ResolveCallCalm,
   ParkIfSpentCalm, AdvanceApprovedCalm, DenyApprovedCalm, ResumeSuspendedTurnCalm,
   UnresumableCalm, SettleUndispatchedCalm, SettleOrphanCalm, SettleCalm, DiscardCalm, ListPendingCalm,
   ExpireUndecidedCalm, CommitCancelCalm, RecordUpdateCalm, CommitPauseCalm DEF Proceed

\* An entrance that has not claimed the run yet carries no turn.
LEMMA EnterTurnCalm ==
    ASSUME Inv, DriverInv, NEW t \in Tasks, NEW e \in Runs, NEW via, EnterTurn(t, e, via)
    PROVE  Calm
<1>1. NoNewCarrier /\ BeatsOn'
  <2>1. PICK n : n = [Idle EXCEPT !.pc = "enter", !.run = e, !.via = via, !.first = TRUE]
    OBVIOUS
  <2>2. n.pc = "enter" /\ n.first = TRUE
    BY <2>1 DEF Idle
  <2> QED
    BY <2>1, <2>2, NotTurning DEF EnterTurn, Carrying, Turning, Closing
<1>2. NoNewStart /\ NoNewQuestion
  BY SameQuestions DEF EnterTurn, gateway, ledger, NoNewStart
<1> QED
  BY <1>1, <1>2 DEF Calm

\* A handler that starts on another door carries no turn.
LEMMA StartsCalm ==
    ASSUME Inv, DriverInv, NEW t \in Tasks, NEW e \in Runs, UNCHANGED ledger,
           UNCHANGED <<called, approval, request>>,
           NEW pc \in {"cancel", "pause", "unpause", "update"}, Starts(t, e, pc)
    PROVE  Calm
<1>1. NoNewCarrier /\ BeatsOn'
  <2>1. PICK n : n = [Idle EXCEPT !.pc = pc, !.run = e, !.read = status[e]]
    OBVIOUS
  <2>2. n.pc = pc
    BY <2>1 DEF Idle
  <2> QED
    BY <2>1, <2>2, NotTurning DEF Starts, Carrying, Turning, Closing
<1>2. NoNewStart /\ NoNewQuestion
  BY SameQuestions DEF ledger, NoNewStart
<1> QED
  BY <1>1, <1>2 DEF Calm

\* Removing an agent settles the run and closes its turn (remove_agent_from_room).
LEMMA RemoveAgentCalm ==
    ASSUME Inv, DriverInv, NEW t \in Tasks, NEW e \in Runs, RemoveAgent(t, e)
    PROVE  Calm
<1>1. NoNewCarrier /\ BeatsOn'
  <2>1. PICK n : n = [Idle EXCEPT !.pc = "list", !.run = e]
    OBVIOUS
  <2>2. n.pc = "list" /\ n.then = None
    BY <2>1 DEF Idle
  <2> QED
    BY <2>1, <2>2, NullAssumption, NotTurning DEF RemoveAgent, Carrying, Turning, Closing
<1>2. NoNewStart /\ NoNewQuestion
  BY NeverRestarts, SameQuestions DEF RemoveAgent
<1> QED
  BY <1>1, <1>2 DEF Calm

\* A sweep carries no turn (sweep_expired_run_leases).
LEMMA SweepCalm ==
    ASSUME Inv, DriverInv, NEW t \in Tasks, NEW e \in Runs, Sweep(t, e)
    PROVE  Calm
<1>1. NoNewCarrier /\ BeatsOn'
  <2>1. PICK k : k = [Idle EXCEPT !.run = e]
    OBVIOUS
  <2>2. k \in TaskType
    BY <2>1, NoneIsApart DEF TaskType, Idle, NoLease, PCs, Entrances, Excuses
  <2> QED
    BY <2>1, <2>2, NullAssumption, SettleHandsOff DEF Sweep
<1>2. NoNewStart /\ NoNewQuestion
  BY SameQuestions DEF Sweep, gateway, ledger, NoNewStart
<1> QED
  BY <1>1, <1>2 DEF Calm

\* Nor does a process that comes up and lists orphans.
LEMMA ListOrphanCalm ==
    ASSUME Inv, DriverInv, NEW t \in Tasks, NEW e \in Runs, ListOrphan(t, e)
    PROVE  Calm
<1>1. NoNewCarrier /\ BeatsOn'
  <2>1. PICK n : n = [Idle EXCEPT !.pc = "orphan", !.run = e]
    OBVIOUS
  <2>2. n.pc = "orphan"
    BY <2>1 DEF Idle
  <2> QED
    BY <2>1, <2>2, NotTurning DEF ListOrphan, Carrying, Turning, Closing
<1>2. NoNewStart /\ NoNewQuestion
  BY SameQuestions DEF ListOrphan, gateway, ledger, NoNewStart
<1> QED
  BY <1>1, <1>2 DEF Calm

\* Opening or resuming a run as a new row, a question that gates nothing, a withdrawn
\* grant, the clock and a restart hand no turn over.
LEMMA EnvironmentCalm ==
    ASSUME Inv, DriverInv, Environment
    PROVE  Calm
<1>1. ASSUME NEW e \in Runs, OpenRun(e) \/ \E previous \in Runs : ResumeAgentRun(previous, e)
      PROVE  Calm
  BY <1>1, NobodyMoves, NeverRestarts, SameQuestions DEF OpenRun, ResumeAgentRun, gateway, Calm
<1>2. ASSUME NEW e \in Runs, Withdraw(e) \/ LeaseExpires(e) PROVE Calm
  BY <1>2, NobodyMoves, NeverRestarts, SameQuestions DEF Withdraw, LeaseExpires, gateway, Calm
<1>3. ASSUME NEW c \in Calls, NEW e \in Runs, RequestApproval(c, e) PROVE Calm
  <2>1. request[c] # "PENDING_APPROVAL"
    BY <1>3, UnusedIsBlank, NullAssumption DEF RequestApproval, RequestStatus
  <2>2. NoNewQuestion
    BY <1>3, <2>1 DEF RequestApproval, NoNewQuestion, Asks, Gates, Inv, TypeOK
  <2>3. NoNewStart
    BY <1>3 DEF RequestApproval, ledger, NoNewStart
  <2> QED
    BY <1>3, <2>2, <2>3, NobodyMoves DEF RequestApproval, Calm
<1>4. CASE Restart
  <2>1. NoNewCarrier /\ BeatsOn'
    <3>1. ~Carrying(Idle) /\ Idle.pc # "beat"
      BY DEF Idle, Carrying, Turning, Closing
    <3> QED
      BY <1>4, <3>1 DEF Restart, NoNewCarrier, Carries, BeatsOn
  <2> QED
    BY <1>4, <2>1, SameQuestions DEF Restart, gateway, ledger, NoNewStart, Calm
<1> QED
  BY <1>1, <1>2, <1>3, <1>4 DEF Environment

\* A turn nobody has is taken up by one task, once no question is left on its
\* run and it is past STARTING.
LEMMA TakesUp ==
    ASSUME Inv, DriverInv, NEW t \in Tasks, NEW e \in Runs, NEW n, Become(t, n), n.run = e,
           n.pc # "beat", \A u \in Tasks : ~Carries(u, e), harness'[e] # "STARTING", NoNewStart,
           \A c \in Calls : Asks(c)' => Asks(c) /\ called'[c] = called[c] /\ called[c] # e
    PROVE  DriverInv'
<1>1. task \in [Tasks -> TaskType]
  BY Current
<1>2. \A u \in Tasks : task'[u] = IF u = t THEN n ELSE task[u]
  BY <1>1 DEF Become
<1>3. \A u \in Tasks : \A f \in Runs : Carries(u, f)' => (u = t /\ f = e) \/ (Carries(u, f) /\ f # e)
  BY <1>2 DEF Carries
<1>4. OneCarrier'
  <2>1. ASSUME NEW f \in Runs, NEW u \in Tasks, NEW v \in Tasks, Carries(u, f)', Carries(v, f)'
        PROVE  u = v
    BY <1>3, <2>1 DEF DriverInv, OneCarrier
  <2> QED
    BY <2>1 DEF OneCarrier
<1>5. OneQuestion'
  BY DEF DriverInv, OneQuestion
<1>6. FreeToStart'
  BY <1>3, CarriersExist DEF DriverInv, FreeToStart, NoNewStart
<1>7. FreeToDecide'
  <2>1. ASSUME NEW c \in Calls, Asks(c)'
        PROVE  /\ harness'[called'[c]] # "STARTING"
               /\ \A u \in Tasks : ~Carries(u, called[c])'
    <3>1. PICK f \in Runs : f = called[c] /\ f = called'[c] /\ Exists(f) /\ Asks(c) /\ f # e
      BY <2>1, CarriersExist
    <3>2. harness'[f] # "STARTING"
      BY <3>1 DEF DriverInv, FreeToDecide, NoNewStart
    <3>3. \A u \in Tasks : ~Carries(u, f)'
      BY <1>3, <3>1 DEF DriverInv, FreeToDecide
    <3> QED
      BY <3>1, <3>2, <3>3 DEF Carries
  <2> QED
    BY <2>1 DEF FreeToDecide
<1>8. BeatsOn'
  BY <1>2 DEF DriverInv, BeatsOn
<1> QED
  BY <1>4, <1>5, <1>6, <1>7, <1>8 DEF DriverInv

\* The claim takes up a STARTING run, or goes on with the turn it had.
LEMMA ClaimHands ==
    ASSUME Inv, DriverInv, NEW t \in Tasks, Claim(t)
    PROVE  DriverInv'
<1>1. PICK k \in TaskType : k = task[t] /\ k.pc = "claim" /\ k.run \in Runs
  BY Current DEF Claim, At
<1>2. NoNewQuestion
  BY SameQuestions DEF Claim, gateway
<1>3. NoNewStart
  BY <1>1, NeverRestarts DEF Claim
<1>4. CASE k.first /\ CanAdvance(k.run, "STARTING")
  <2>1. PICK n : n = [k EXCEPT !.pc = "begin", !.first = FALSE]
    OBVIOUS
  <2>2. n.pc = "begin" /\ n.run = k.run
    BY <2>1 DEF TaskType
  <2>3. PICK e \in Runs : e = k.run /\ harness[e] = "STARTING"
    BY <1>1, <1>4, NoneAssumption DEF CanAdvance, HarnessState, OpenHarnessStates
  <2>4. Become(t, n) /\ Advance(e, "STREAMING")
    BY <1>1, <1>4, <2>1, <2>3 DEF Claim
  <2>5. harness'[e] # "STARTING"
    BY <2>4 DEF Advance, Inv, TypeOK, LedgerTypeOK
  <2>6. \A u \in Tasks : ~Carries(u, e)
    BY <2>3 DEF DriverInv, FreeToStart
  <2>7. \A c \in Calls : Asks(c)' => Asks(c) /\ called'[c] = called[c] /\ called[c] # e
    BY <1>2, <2>3 DEF DriverInv, FreeToDecide, NoNewQuestion
  <2> QED
    BY <1>3, <2>2, <2>3, <2>4, <2>5, <2>6, <2>7, TakesUp
<1>5. CASE k.first /\ ~CanAdvance(k.run, "STARTING")
  BY <1>1, <1>2, <1>3, <1>5, RaiseHandsOff, CalmKeeps DEF Claim, Calm
<1>6. CASE ~k.first
  <2>1. ASSUME NEW n, Become(t, n),
               n = [k EXCEPT !.pc = "begin", !.first = FALSE] \/ n = [k EXCEPT !.pc = "begin"]
        PROVE  NoNewCarrier /\ BeatsOn'
    <3>1. n.pc = "begin" /\ n.run = k.run
      BY <2>1 DEF TaskType
    <3> QED
      BY <1>1, <1>6, <2>1, <3>1, StillTurning DEF Carrying
  <2> QED
    BY <1>1, <1>2, <1>3, <1>6, <2>1, CalmKeeps DEF Claim, Goto, Calm
<1> QED
  BY <1>4, <1>5, <1>6

\* The one task that has the turn leaves it with a reviewer.
LEMMA GateSuspendsHands ==
    ASSUME Inv, DriverInv, NEW t \in Tasks, NEW c \in Calls, GateSuspends(t, c)
    PROVE  DriverInv'
<1>1. PICK e \in Runs : e = task[t].run /\ Exists(e) /\ Carries(t, e)
  BY Current DEF GateSuspends, At, Carries, Carrying, Turning
<1>2. CASE ~CanAdvance(e, None)
  <2>1. NoNewStart /\ NoNewQuestion
    BY <1>1, <1>2, SameQuestions DEF GateSuspends, gateway, ledger, NoNewStart
  <2> QED
    BY <1>1, <1>2, <2>1, RaiseHandsOff, CalmKeeps DEF GateSuspends, Calm
<1>3. CASE CanAdvance(e, None)
  <2>1. Advance(e, "AWAITING_APPROVAL") /\ Become(t, Idle)
    BY <1>1, <1>3 DEF GateSuspends, AfterSuspend
  <2>2. NoNewCarrier /\ BeatsOn' /\ NoNewStart
    BY <2>1, IdleHandsOff, NeverRestarts
  <2>3. harness'[e] # "STARTING"
    BY <2>1 DEF Advance, Inv, TypeOK, LedgerTypeOK
  <2>4. \A u \in Tasks : ~Carries(u, e)'
    <3>1. ~Carries(t, e)'
      <4>1. task'[t] = Idle
        BY <2>1, Current DEF Become
      <4> QED
        BY <4>1, Drops, Current DEF Carries
    <3> QED
      BY <1>1, <2>2, <3>1 DEF DriverInv, OneCarrier, NoNewCarrier
  <2>5. \A d \in Calls : called'[d] = IF d = c THEN e ELSE called[d]
    BY <1>1, <1>3 DEF GateSuspends, Inv, TypeOK
  <2>6. \A d \in Calls : d # c => (Asks(d)' <=> Asks(d))
    BY <1>1, <1>3 DEF GateSuspends, Asks, Gates, Inv, TypeOK
  <2>7. \A d \in Calls : d # c /\ Asks(d)' => called'[d] # e
    BY <1>1, <2>5, <2>6 DEF DriverInv, FreeToDecide
  <2>8. OneCarrier' /\ FreeToStart'
    BY <2>2, CarriersExist DEF DriverInv, OneCarrier, FreeToStart, NoNewStart, NoNewCarrier
  <2>9. OneQuestion'
    BY <2>5, <2>6, <2>7 DEF DriverInv, OneQuestion
  <2>10. FreeToDecide'
    <3>1. ASSUME NEW d \in Calls, Asks(d)'
          PROVE  /\ harness'[called'[d]] # "STARTING"
                 /\ \A u \in Tasks : ~Carries(u, called[d])'
      <4>1. CASE d = c
        BY <2>3, <2>4, <2>5, <4>1 DEF Carries
      <4>2. CASE d # c
        <5>1. PICK f \in Runs : f = called[d] /\ f = called'[d] /\ Exists(f) /\ Asks(d)
          BY <2>5, <2>6, <3>1, <4>2, CarriersExist
        <5>2. harness'[f] # "STARTING"
          BY <2>2, <5>1 DEF DriverInv, FreeToDecide, NoNewStart
        <5>3. \A u \in Tasks : ~Carries(u, f)'
          BY <2>2, <5>1 DEF DriverInv, FreeToDecide, NoNewCarrier
        <5> QED
          BY <5>1, <5>2, <5>3 DEF Carries
      <4> QED
        BY <4>1, <4>2
    <3> QED
      BY <3>1 DEF FreeToDecide
  <2> QED
    BY <2>2, <2>8, <2>9, <2>10 DEF DriverInv
<1> QED
  BY <1>2, <1>3

\* An approved gated call closes the one question of its run, and the
\* reviewer's task takes the turn up.
LEMMA ApproveHands ==
    ASSUME Inv, DriverInv, NEW t \in Tasks, NEW c \in Calls, Approve(t, c)
    PROVE  DriverInv'
<1>1. NoNewStart
  BY DEF Approve, ledger, NoNewStart
<1>2. \A d \in Calls : Asks(d)' => Asks(d) /\ called'[d] = called[d] /\ d # c
  BY DEF Approve, Asks, Gates, Inv, TypeOK
<1>3. CASE ~Gates(c)
  <2>1. UNCHANGED task
    BY <1>3 DEF Approve
  <2> QED
    BY <1>1, <1>2, <2>1, NobodyMoves, CalmKeeps DEF NoNewQuestion, Calm
<1>4. CASE Gates(c)
  <2>1. Asks(c)
    BY <1>4 DEF Approve, Asks
  <2>2. PICK e \in Runs : e = called[c]
    BY <2>1, CarriersExist
  <2>3. PICK n : n \in {[[Idle EXCEPT !.run = e, !.call = c, !.via = "review"] EXCEPT !.pc = pc] :
                            pc \in {"advance", "deny"}} /\ Become(t, n)
    BY <1>4, <2>2 DEF Approve
  <2>4. n.pc \in {"advance", "deny"} /\ n.run = e
    BY <2>3 DEF Idle
  <2>5. harness'[e] # "STARTING" /\ \A u \in Tasks : ~Carries(u, e)
    BY <2>1, <2>2 DEF Approve, ledger, DriverInv, FreeToDecide
  <2>6. \A d \in Calls : Asks(d)' => called[d] # e
    BY <1>2, <2>1, <2>2 DEF DriverInv, OneQuestion
  <2> QED
    BY <1>1, <1>2, <2>3, <2>4, <2>5, <2>6, TakesUp
<1> QED
  BY <1>3, <1>4

\* So does a refused one whose turn is to continue; without that, the task
\* only puts the suspended turn away.
LEMMA RejectHands ==
    ASSUME Inv, DriverInv, NEW t \in Tasks, NEW c \in Calls, NEW continue_turn \in BOOLEAN,
           Reject(t, c, continue_turn)
    PROVE  DriverInv'
<1>1. PICK e \in Runs : e = called[c]
  BY ReviewedRun DEF Reject
<1>2. NoNewStart
  BY <1>1, NeverRestarts DEF Reject
<1>3. \A d \in Calls : Asks(d)' => Asks(d) /\ called'[d] = called[d] /\ d # c
  BY DEF Reject, Asks, Gates, Inv, TypeOK
<1>4. CASE ~Gates(c)
  <2>1. UNCHANGED task
    BY <1>4 DEF Reject
  <2> QED
    BY <1>2, <1>3, <2>1, NobodyMoves, CalmKeeps DEF NoNewQuestion, Calm
<1>5. CASE Gates(c) /\ ~continue_turn
  <2>1. PICK n : /\ n = [[Idle EXCEPT !.run = e, !.via = "review"]
                                 EXCEPT !.pc = "discard", !.why = "APPROVAL_REFUSED"]
                 /\ Become(t, n)
    BY <1>1, <1>5 DEF Reject
  <2>2. n.pc = "discard" /\ n.then = None
    BY <2>1 DEF Idle
  <2>3. NoNewCarrier /\ BeatsOn'
    BY <2>1, <2>2, NullAssumption, NotTurning DEF Carrying, Turning, Closing
  <2> QED
    BY <1>2, <1>3, <2>3, CalmKeeps DEF NoNewQuestion, Calm
<1>6. CASE Gates(c) /\ continue_turn
  <2>1. Asks(c)
    BY <1>6 DEF Reject, Asks
  <2>2. PICK n : n = [[Idle EXCEPT !.run = e, !.via = "review"] EXCEPT !.pc = "resume"]
                 /\ Become(t, n)
    BY <1>1, <1>6 DEF Reject
  <2>3. n.pc = "resume" /\ n.run = e
    BY <2>2 DEF Idle
  <2>4. harness[e] # "STARTING" /\ Exists(e) /\ \A u \in Tasks : ~Carries(u, e)
    BY <1>1, <2>1, CarriersExist DEF DriverInv, FreeToDecide
  <2>5. harness'[e] # "STARTING"
    BY <1>2, <2>4 DEF NoNewStart
  <2>6. \A d \in Calls : Asks(d)' => called[d] # e
    BY <1>1, <1>3, <2>1 DEF DriverInv, OneQuestion
  <2> QED
    BY <1>2, <1>3, <2>2, <2>3, <2>4, <2>5, <2>6, TakesUp
<1> QED
  BY <1>4, <1>5, <1>6

\* Everything a member, a reviewer or a dispatcher starts keeps the invariant.
LEMMA RequestHands ==
    ASSUME Inv, DriverInv, NEW t \in Tasks, Request(t)
    PROVE  DriverInv'
<1>1. ASSUME NEW e \in Runs, NEW via, EnterTurn(t, e, via) PROVE DriverInv'
  BY <1>1, EnterTurnCalm, CalmKeeps
<1>2. ASSUME NEW e \in Runs, Cancel(t, e) \/ ReceiveUpdate(t, e)
                             \/ \E to \in {"PAUSED", "RUNNING"} : Pause(t, e, to)
      PROVE DriverInv'
  BY <1>2, StartsCalm, CalmKeeps DEF Cancel, ReceiveUpdate, Pause, gateway
<1>3. ASSUME NEW e \in Runs, RemoveAgent(t, e) PROVE DriverInv'
  BY <1>3, RemoveAgentCalm, CalmKeeps
<1> QED
  BY <1>1, <1>2, <1>3, ApproveHands, RejectHands DEF Request

\* So does every step of the service.
LEMMA NextHands ==
    ASSUME Inv, DriverInv, [Next]_vars
    PROVE  DriverInv'
<1>1. CASE Environment
  BY <1>1, EnvironmentCalm, CalmKeeps
<1>2. ASSUME NEW t \in Tasks, Proceed(t) PROVE DriverInv'
  BY <1>2, ProceedCalm, CalmKeeps, ClaimHands, GateSuspendsHands
<1>3. ASSUME NEW t \in Tasks, Die(t) PROVE DriverInv'
  <2>1. NoNewStart /\ NoNewQuestion
    BY <1>3, SameQuestions DEF Die, gateway, ledger, NoNewStart
  <2> QED
    BY <1>3, <2>1, IdleHandsOff, RaiseHandsOff, CalmKeeps DEF Die, Calm
<1>4. ASSUME NEW t \in Tasks, NEW e \in Runs, Sweep(t, e) \/ ListOrphan(t, e) PROVE DriverInv'
  BY <1>4, SweepCalm, ListOrphanCalm, CalmKeeps
<1>5. CASE UNCHANGED vars
  <2>1. UNCHANGED task /\ NoNewStart /\ NoNewQuestion
    BY <1>5, SameQuestions DEF vars, gateway, ledger, NoNewStart
  <2> QED
    BY <2>1, NobodyMoves, CalmKeeps DEF Calm
<1> QED
  BY <1>1, <1>2, <1>3, <1>4, <1>5, RequestHands DEF Next

\* Nobody carries a turn, and nothing is asked, at the start.
LEMMA DriverInit == Init => DriverInv
<1> SUFFICES ASSUME Init PROVE DriverInv
  OBVIOUS
<1>1. \A t \in Tasks : ~Carrying(task[t]) /\ task[t].pc # "beat"
  BY DEF Init, Idle, Carrying, Turning, Closing
<1>2. \A c \in Calls : ~Asks(c)
  BY NullAssumption DEF Init, Asks, Gates, ApprovalStatus
<1> QED
  BY <1>1, <1>2 DEF DriverInv, OneCarrier, OneQuestion, FreeToStart, FreeToDecide, BeatsOn, Carries

\* Two entrances, two decisions, or a decision and an entrance never prompt
\* one run at once (execute_agent_step's require_idle, the PENDING check of
\* approve_action and reject_action, SuspendedTurnRepo.claim).
THEOREM OneDriver == Spec => []SingleDriver
<1>1. Inv /\ DriverInv /\ [Next]_vars => DriverInv'
  BY NextHands
<1>2. DriverInv => SingleDriver
  BY DEF DriverInv, OneCarrier, SingleDriver, Carries, Drives, Carrying, Turning
<1> QED
  BY <1>1, <1>2, DriverInit, Safe, PTL DEF Spec

-----------------------------------------------------------------------------
(* What the service promises whoever opens, reviews or bounds a run: decisions   *)
(* stand, and the whole service implements RunContract.                         *)

\* The steps of a handler that leave tool calls, approvals and effects alone,
LEMMA HandlersKeepCalls ==
    ASSUME NEW t \in Tasks,
           \/ Step(t) \/ Claim(t) \/ NewSession(t) \/ MarkRunning(t) \/ ProviderFails(t) \/ ProviderAnswers(t)
           \/ RenewLease(t) \/ Finish(t) \/ WithoutAnswer(t) \/ ParkIfSpent(t)
           \/ AdvanceApproved(t) \/ Unresumable(t) \/ SettleUndispatched(t) \/ SettleOrphan(t)
           \/ Settle(t) \/ ListPending(t) \/ CommitCancel(t) \/ RecordUpdate(t)
           \/ \E to \in {"PAUSED", "RUNNING"} : CommitPause(t, to)
    PROVE  UNCHANGED <<called, approval, request, wrote>>
<1>1. CASE Step(t) \/ Claim(t) \/ NewSession(t) \/ MarkRunning(t) \/ ProviderFails(t) \/ ProviderAnswers(t)
  BY <1>1 DEF Step, Claim, NewSession, MarkRunning, ProviderFails, ProviderAnswers, gateway
<1>2. CASE RenewLease(t) \/ Finish(t) \/ WithoutAnswer(t) \/ ParkIfSpent(t) \/ AdvanceApproved(t)
  BY <1>2 DEF RenewLease, Finish, WithoutAnswer, ParkIfSpent, AdvanceApproved, gateway
<1>3. CASE Unresumable(t) \/ SettleUndispatched(t) \/ SettleOrphan(t) \/ Settle(t) \/ ListPending(t)
  BY <1>3 DEF Unresumable, SettleUndispatched, SettleOrphan, Settle, ListPending, gateway
<1>4. CASE \/ CommitCancel(t) \/ RecordUpdate(t)
           \/ \E to \in {"PAUSED", "RUNNING"} : CommitPause(t, to)
  BY <1>4 DEF CommitCancel, RecordUpdate, CommitPause, gateway
<1> QED
  BY <1>1, <1>2, <1>3, <1>4

\* and those that start a handler, or happen around one.
LEMMA DoorsKeepCalls ==
    ASSUME \/ \E t \in Tasks :
                 \/ Die(t)
                 \/ \E e \in Runs :
                       \/ \E via \in {"route", "mention", "task"} : EnterTurn(t, e, via)
                       \/ Cancel(t, e) \/ ReceiveUpdate(t, e) \/ Sweep(t, e) \/ ListOrphan(t, e)
                       \/ \E to \in {"PAUSED", "RUNNING"} : Pause(t, e, to)
           \/ \E e \in Runs : \/ OpenRun(e) \/ Withdraw(e) \/ LeaseExpires(e)
                              \/ \E previous \in Runs : ResumeAgentRun(previous, e)
           \/ Restart
    PROVE  UNCHANGED <<called, approval, request, wrote>>
BY DEF Die, EnterTurn, Cancel, ReceiveUpdate, Sweep, ListOrphan, Pause, OpenRun, Withdraw,
   LeaseExpires, ResumeAgentRun, Restart, gateway

\* A call that is opened now was nobody's, and no other call changes.
OpensCall ==
    /\ UNCHANGED wrote
    /\ \E c \in Calls :
          /\ Unused(c)
          /\ \A d \in Calls \ {c} : called'[d] = called[d] /\ approval'[d] = approval[d]

\* A decision, or an expiry, of calls that were pending.
Decides ==
    /\ UNCHANGED <<called, wrote>>
    /\ \A c \in Calls : approval[c] # "PENDING" => approval'[c] = approval[c]

\* Whatever the service does, it is one of these to a call.
LEMMA CallMoves ==
    ASSUME Inv, [Next]_vars
    PROVE  \/ UNCHANGED <<called, approval, wrote>> \/ OpensCall \/ Decides
           \/ \E t \in Tasks : RunTool(t)
<1>1. ASSUME NEW t \in Tasks, NEW c \in Calls,
             GateDenies(t, c) \/ GateSuspends(t, c) \/ GateAllows(t, c)
      PROVE  OpensCall \/ UNCHANGED <<called, approval, wrote>>
  BY <1>1 DEF GateDenies, GateSuspends, GateAllows, OpensCall, gateway, Inv, TypeOK
<1>2. ASSUME NEW c \in Calls, NEW e \in Runs, RequestApproval(c, e) PROVE OpensCall
  BY <1>2 DEF RequestApproval, OpensCall, Inv, TypeOK
<1>3. ASSUME NEW t \in Tasks, NEW c \in Calls,
             Approve(t, c) \/ \E continue_turn \in BOOLEAN : Reject(t, c, continue_turn)
      PROVE  Decides
  BY <1>3 DEF Approve, Reject, Decides, Inv, TypeOK
<1>4. ASSUME NEW t \in Tasks, ExpireUndecided(t) PROVE Decides
  BY <1>4 DEF ExpireUndecided, StillUndecided, Decides, Inv, TypeOK
<1>5. ASSUME NEW t \in Tasks,
             \/ ResolveCall(t) \/ DenyApproved(t) \/ ResumeSuspendedTurn(t) \/ Discard(t)
             \/ \E e \in Runs : RemoveAgent(t, e)
      PROVE  UNCHANGED <<called, approval, wrote>>
  BY <1>5 DEF ResolveCall, DenyApproved, ResumeSuspendedTurn, Discard, RemoveAgent
<1>6. CASE UNCHANGED vars
  BY <1>6 DEF vars, gateway
<1>7. ASSUME NEW t \in Tasks, Proceed(t), ~RunTool(t)
      PROVE  UNCHANGED <<called, approval, wrote>> \/ OpensCall \/ Decides
  BY <1>1, <1>4, <1>5, <1>7, HandlersKeepCalls DEF Proceed
<1>8. ASSUME NEW t \in Tasks, Request(t)
      PROVE  UNCHANGED <<called, approval, wrote>> \/ Decides
  <2>1. ASSUME NEW e \in Runs,
               \/ \E via \in {"route", "mention", "task"} : EnterTurn(t, e, via)
               \/ Cancel(t, e) \/ ReceiveUpdate(t, e)
               \/ \E to \in {"PAUSED", "RUNNING"} : Pause(t, e, to)
        PROVE  UNCHANGED <<called, approval, wrote>>
    BY <2>1, DoorsKeepCalls
  <2> QED
    BY <1>3, <1>5, <1>8, <2>1 DEF Request
<1>9. CASE Environment
  BY <1>2, <1>9, DoorsKeepCalls DEF Environment
<1> QED
  BY <1>6, <1>7, <1>8, <1>9, DoorsKeepCalls DEF Next

\* A decided approval is never decided again, by a reviewer or an expiry.
THEOREM DecisionsStand == Spec => DecisionFinal
<1>1. ASSUME Inv, [Next]_vars
      PROVE  \A c \in Calls : approval[c] \notin {None, "PENDING"} => approval'[c] = approval[c]
  <2>1. CASE OpensCall
    BY <1>1, <2>1, UnusedIsBlank DEF OpensCall
  <2>2. ASSUME NEW t \in Tasks, RunTool(t) PROVE UNCHANGED approval
    BY <2>2 DEF RunTool
  <2> QED
    BY <1>1, <2>1, <2>2, CallMoves DEF Decides
<1> QED
  BY <1>1, Safe, PTL DEF Spec, DecisionFinal

\* The step that commits an effect, whose authority is derived in the same
\* transaction (_require_run_authority_in_transaction).
LEMMA ToolActs ==
    ASSUME Inv, NEW t \in Tasks, RunTool(t)
    PROVE  \/ UNCHANGED wrote
           \/ \E c \in Calls : /\ wrote' = wrote \cup {c}
                               /\ called[c] \in Runs /\ Open(called[c]) /\ called[c] \in lends
<1>1. task[t].run \in Runs /\ task[t].call \in Calls /\ called[task[t].call] = task[t].run
  BY Current DEF RunTool, At, Fit, WritesCall
<1> QED
  BY <1>1 DEF RunTool, Authorized

-----------------------------------------------------------------------------
(* The service implements RunContract under the mapping of RunLifecycle. *)

phases == [e \in Runs |-> Phase(e)]
effects == {<<c, called[c]>> : c \in wrote}

\* What a write of the ledger is, seen from outside the run.
SeenFrom(e) ==
    \/ /\ Phase(e) = "unopened"
       /\ phases' = [phases EXCEPT ![e] = "open"] /\ UNCHANGED settlement
    \/ /\ Phase(e) = "open"
       /\ phases' = [phases EXCEPT ![e] = "answered"]
       /\ settlement' = [settlement EXCEPT ![e] = "END_TURN"]
    \/ /\ Phase(e) = "open"
       /\ phases' = [phases EXCEPT ![e] = "ended"]
       /\ \E why \in RunSettlement \ {"END_TURN"} : settlement' = [settlement EXCEPT ![e] = why]
    \/ UNCHANGED phases /\ UNCHANGED settlement

\* A phase is read off the two records of one run, so a write to another run,
\* or one that touches neither, leaves it.
LEMMA PhaseMoves ==
    ASSUME LedgerInv, NEW e \in Runs, NEW p,
           \A f \in Runs \ {e} : status'[f] = status[f] /\ (f \in outputs' <=> f \in outputs),
           Phase(e)' = p
    PROVE  phases' = [phases EXCEPT ![e] = p]
<1>1. \A f \in Runs \ {e} : Phase(f)' = Phase(f)
  BY DEF Phase, Exists, Terminal
<1> QED
  BY <1>1 DEF phases

\* Every write of the ledger is a step of the contract for its run, or invisible to it.
LEMMA LedgerSeen ==
    ASSUME LedgerInv, NEW e \in Runs, LedgerStep(e)
    PROVE  SeenFrom(e)
<1> USE NoneIsApart DEF LedgerInv, LedgerTypeOK, OpenStatuses, TERMINAL_EXECUTION_STATUSES,
        ExecutionStatus
<1>1. CASE attempts'[e] \in Nat /\ OpenRow(e, attempts'[e])
  <2>1. Phase(e) = "unopened" /\ Phase(e)' = "open" /\ UNCHANGED settlement
    BY <1>1 DEF OpenRow, Phase, Exists, Terminal
  <2>2. phases' = [phases EXCEPT ![e] = "open"]
    BY <1>1, <2>1, PhaseMoves DEF OpenRow
  <2> QED
    BY <2>1, <2>2 DEF SeenFrom
<1>2. ASSUME NEW read \in OpenStatuses, CanComplete(e, read), CompleteExecution(e)
      PROVE  SeenFrom(e)
  <2>1. Phase(e) = "open" /\ Phase(e)' = "answered"
    BY <1>2 DEF CanComplete, CompleteExecution, Phase, Exists, Terminal
  <2>2. settlement' = [settlement EXCEPT ![e] = "END_TURN"]
    BY <1>2 DEF CanComplete, CompleteExecution, SettleEnvelope
  <2>3. phases' = [phases EXCEPT ![e] = "answered"]
    BY <1>2, <2>1, PhaseMoves DEF CompleteExecution
  <2> QED
    BY <2>1, <2>2, <2>3 DEF SeenFrom
<1>3. ASSUME NEW read \in OpenStatuses, status[e] = read,
             NEW final \in {"FAILED", "CANCELLED"}, NEW why \in RunSettlement \ {"END_TURN"},
             Terminalize(e, final, why)
      PROVE  SeenFrom(e)
  <2>1. Phase(e) = "open" /\ e \notin outputs
    BY <1>3 DEF Phase, Exists, Terminal, OutputIffAnswered
  <2>2. Phase(e)' = "ended"
    BY <1>3, <2>1 DEF Terminalize, Phase, Exists, Terminal
  <2>3. ~Settled(e)
    BY <1>3 DEF Coherent, Terminal
  <2>4. settlement' = [settlement EXCEPT ![e] = why]
    BY <1>3, <2>3 DEF Terminalize, SettleEnvelope
  <2>5. phases' = [phases EXCEPT ![e] = "ended"]
    BY <1>3, <2>2, PhaseMoves DEF Terminalize
  <2> QED
    BY <2>1, <2>4, <2>5 DEF SeenFrom
<1>4. ASSUME \/ \E state \in OpenHarnessStates : Advance(e, state)
             \/ SpendAttempt(e) \/ LeaseRunsOut(e)
      PROVE  SeenFrom(e)
  <2>1. UNCHANGED <<status, outputs, settlement>>
    BY <1>4 DEF Advance, SpendAttempt, LeaseRunsOut
  <2> QED
    BY <2>1 DEF SeenFrom, phases, Phase, Exists, Terminal
<1>5. ASSUME NEW read \in OpenStatuses, status[e] = read, NEW to \in OpenStatuses,
             UpdateStatus(e, to)
      PROVE  SeenFrom(e)
  <2>1. Phase(e) = "open" /\ Phase(e)' = "open" /\ UNCHANGED settlement
    BY <1>5 DEF UpdateStatus, Phase, Exists, Terminal
  <2>2. phases' = [phases EXCEPT ![e] = "open"]
    BY <1>5, <2>1, PhaseMoves DEF UpdateStatus
  <2>3. UNCHANGED phases
    BY <2>1, <2>2 DEF phases
  <2> QED
    BY <2>1, <2>3 DEF SeenFrom
<1>6. ASSUME Terminal(e), NEW why \in RunSettlement, SettleOnly(e, why) PROVE SeenFrom(e)
  <2>1. UNCHANGED <<status, outputs, settlement>>
    BY <1>6 DEF SettleOnly, SettleEnvelope, Coherent
  <2> QED
    BY <2>1 DEF SeenFrom, phases, Phase, Exists, Terminal
<1> QED
  BY <1>1, <1>2, <1>3, <1>4, <1>5, <1>6 DEF LedgerStep

\* A call that acted keeps its run, so what it did is seen to be that run's.
LEMMA EffectsStand ==
    ASSUME Inv, [Next]_vars, UNCHANGED wrote
    PROVE  UNCHANGED effects
<1>1. \A c \in wrote : c \in Calls /\ ~Unused(c)
  BY NoRunAssumption DEF Inv, TypeOK, CarriedFacts, Owned, Unused
<1>2. \A c \in wrote : called'[c] = called[c]
  <2>1. ASSUME NEW t \in Tasks, RunTool(t) PROVE UNCHANGED called
    BY <2>1 DEF RunTool
  <2> QED
    BY <1>1, <2>1, CallMoves DEF OpensCall, Decides
<1> QED
  BY <1>2 DEF effects

\* One ending, one account, and no effect outside the open phase.
THEOREM KeepsContract == Spec => ImplementsContract
<1>1. Init => Contract!Init
  <2> SUFFICES ASSUME Init PROVE Contract!Init
    OBVIOUS
  <2>1. phases = [e \in Runs |-> "unopened"]
    BY DEF Init, LedgerInit, phases, Phase, Exists
  <2>2. settlement = [e \in Runs |-> None] /\ effects = {}
    BY DEF Init, LedgerInit, effects
  <2> QED
    BY <2>1, <2>2 DEF Contract!Init, phases, effects
<1>2. Inv /\ [Next]_vars => [Contract!Next]_(Contract!vars)
  <2> SUFFICES ASSUME Inv, [Next]_vars PROVE [Contract!Next]_(Contract!vars)
    OBVIOUS
  <2>1. CASE UNCHANGED wrote
    <3>1. UNCHANGED effects
      BY <2>1, EffectsStand
    <3>2. [LedgerNext]_ledger
      BY Inductive
    <3>3. CASE UNCHANGED ledger
      <4>1. UNCHANGED phases /\ UNCHANGED settlement
        BY <3>3 DEF ledger, phases, Phase, Exists, Terminal
      <4> QED
        BY <3>1, <4>1 DEF Contract!vars, phases, effects
    <3>4. ASSUME NEW e \in Runs, SeenFrom(e) PROVE [Contract!Next]_(Contract!vars)
      <4>1. phases[e] = Phase(e)
        BY DEF phases
      <4> QED
        BY <3>1, <3>4, <4>1 DEF SeenFrom, Contract!Next, Contract!vars, Contract!OpenRun,
           Contract!Answer, Contract!End, phases, effects
    <3> QED
      BY <3>2, <3>3, <3>4, LedgerSeen DEF LedgerNext, Inv
  <2>2. CASE wrote' # wrote
    <3>1. PICK t \in Tasks : RunTool(t)
      BY <2>2, CallMoves DEF OpensCall, Decides
    <3>2. PICK c \in Calls : /\ wrote' = wrote \cup {c}
                             /\ called[c] \in Runs /\ Open(called[c])
      BY <2>2, <3>1, ToolActs
    <3>3. PICK e \in Runs : e = called[c] /\ Open(e)
      BY <3>2
    <3>4. UNCHANGED ledger /\ UNCHANGED called
      BY <3>1 DEF RunTool
    <3>5. phases[e] = "open"
      BY <3>3 DEF phases, Phase, Open, Inv, LedgerInv, Coherent
    <3>6. effects' = effects \cup {<<c, e>>}
      BY <3>2, <3>3, <3>4 DEF effects
    <3>7. UNCHANGED phases /\ UNCHANGED settlement
      BY <3>4 DEF ledger, phases, Phase, Exists, Terminal
    <3>8. Contract!Act(e, c)
      BY <3>5, <3>6, <3>7 DEF Contract!Act, phases, effects
    <3> QED
      BY <3>8 DEF Contract!Next
  <2> QED
    BY <2>1, <2>2
<1> QED
  BY <1>1, <1>2, Safe, PTL DEF Spec, ImplementsContract, Contract!Spec

-----------------------------------------------------------------------------
(***************************************************************************)
(* What the gate before a tool promises, for any number of runs, handlers, *)
(* calls, crashes, pauses and out-of-band updates: no gated tool acts      *)
(* unless a reviewer approved that call, a settled run's undecided calls   *)
(* are on their way to be expired, and a run that waits for a reviewer has *)
(* its turn kept for whoever decides.                                      *)
(*                                                                         *)
(* None of the three is inductive, as each speaks of a handler somewhere   *)
(* between two awaits.  AllPoised says what a handler at each await may    *)
(* count on, Held and Shut which one is on its way to a suspended turn, or *)
(* to an undecided call.  Steady sums up what a step does to them: a lemma *)
(* for each action shows it, for all of Next but GateSuspends, the one     *)
(* that asks a question, and SteadyKeeps that it is enough.                *)
(***************************************************************************)

Acting == {"tool", "resolve", "advance", "deny"}
Shutting == {"discard", "list", "expire"}
Back == {"tool", "resolve", "settle", "discard", "list", "expire"}

\* What a handler that stands at a decided call, at a settlement or at its way back
\* to the turn may count on.
Poised(k) ==
    /\ k.pc \in {"tool", "resolve"} => approval[k.call] \in {None, "APPROVED"}
    /\ k.pc \in {"advance", "deny"} => approval[k.call] = "APPROVED"
    /\ k.pc \in {"advance", "deny", "resume"} => k.via = "review"
    /\ k.then = "resume" => k.via = "review" /\ k.pc \in Back
    /\ k.pc = "undispatched" => k.why \notin ClosingSettlements
    /\ k.pc \in Shutting => Settled(k.run)
    /\ k.pc = "expire" => \A c \in k.seen : called[c] = k.run
    /\ k.pc = "update" => updates > 0
AllPoised == \A t \in Tasks : Poised(task[t])

\* A decision's own task, on its way to claim the suspended turn.
Comes(k) == k.pc \in {"advance", "deny", "resume"} \/ k.then = "resume"
Coming(t, e) == task[t].run = e /\ Comes(task[t])

Held ==
    /\ \A e \in suspended : Exists(e)
    /\ \A c \in Calls : Asks(c) /\ Open(called[c]) /\ updates = 0 =>
           called[c] \in suspended /\ harness[called[c]] = "AWAITING_APPROVAL"
    /\ \A e \in suspended : Open(e) /\ crashes = 0 =>
           (\E c \in Calls : called[c] = e /\ Asks(c)) \/ \E t \in Tasks : Coming(t, e)

\* A settlement's own task, on its way to expire the call.
Shuts(k, c) ==
    /\ k.run = called[c]
    /\ \/ k.pc = "discard" /\ k.why # "APPROVAL_REFUSED"
       \/ k.pc = "list"
       \/ k.pc = "expire" /\ c \in k.seen
Shut ==
    \A c \in Calls : Asks(c) /\ settlement[called[c]] \in ClosingSettlements =>
        crashes > 0 \/ \E t \in Tasks : Shuts(task[t], c)

GateInv == AllPoised /\ GatedEffectsApproved /\ Held /\ Shut

-----------------------------------------------------------------------------
(* What stands, whatever the service does.                                     *)

\* No call changes the run it belongs to, and a decided call, or one that was let
\* through, stays as it is.
LEMMA CallsStand ==
    ASSUME Inv, [Next]_vars, NEW c \in Calls, called[c] # NoRun
    PROVE  /\ called'[c] = called[c]
           /\ approval[c] # "PENDING" => approval'[c] = approval[c]
<1>1. ASSUME NEW t \in Tasks, RunTool(t) PROVE UNCHANGED <<called, approval>>
  BY <1>1 DEF RunTool
<1> QED
  BY <1>1, CallMoves DEF OpensCall, Decides, Unused

\* The counts of updates and of crashes stay, or one of them grows.
CountsMove ==
    \/ updates' = updates /\ crashes' = crashes
    \/ updates' = updates + 1 /\ crashes' = crashes
    \/ updates' = updates /\ crashes' = crashes + 1

\* No handler that is under way counts,
LEMMA ProceedCounts ==
    ASSUME NEW t \in Tasks, Proceed(t)
    PROVE  CountsMove
<1>1. CASE \/ Step(t) \/ Claim(t) \/ NewSession(t) \/ MarkRunning(t) \/ ProviderFails(t) \/ ProviderAnswers(t)
           \/ RenewLease(t) \/ Finish(t) \/ WithoutAnswer(t)
  BY <1>1 DEF Step, Claim, NewSession, MarkRunning, ProviderFails, ProviderAnswers, RenewLease, Finish,
     WithoutAnswer, bounds, CountsMove
<1>2. CASE \/ \E c \in Calls : GateDenies(t, c) \/ GateSuspends(t, c) \/ GateAllows(t, c)
           \/ RunTool(t) \/ ResolveCall(t) \/ ParkIfSpent(t)
           \/ AdvanceApproved(t) \/ DenyApproved(t) \/ ResumeSuspendedTurn(t)
  BY <1>2 DEF GateDenies, GateSuspends, GateAllows, RunTool, ResolveCall, ParkIfSpent,
     AdvanceApproved, DenyApproved, ResumeSuspendedTurn, bounds, CountsMove
<1>3. CASE \/ Unresumable(t) \/ SettleUndispatched(t) \/ SettleOrphan(t) \/ Settle(t)
           \/ Discard(t) \/ ListPending(t) \/ ExpireUndecided(t)
           \/ CommitCancel(t) \/ RecordUpdate(t)
           \/ \E to \in {"PAUSED", "RUNNING"} : CommitPause(t, to)
  BY <1>3 DEF Unresumable, SettleUndispatched, SettleOrphan, Settle, Discard, ListPending,
     ExpireUndecided, CommitCancel, RecordUpdate, CommitPause, bounds, CountsMove
<1> QED
  BY <1>1, <1>2, <1>3 DEF Proceed

\* a door counts an update at most, and only deaths, restarts and comings up are crashes.
LEMMA CountsGrow ==
    ASSUME Inv, [Next]_vars
    PROVE  /\ updates \in Nat /\ updates' \in Nat /\ crashes \in Nat /\ crashes' \in Nat
           /\ updates' >= updates /\ crashes' >= crashes
<1>1. updates \in Nat /\ crashes \in Nat
  BY BoundsAssumption DEF Inv, TypeOK
<1>2. CountsMove
  <2>1. ASSUME NEW t \in Tasks, NEW e \in Runs,
               \/ \E via \in {"route", "mention", "task"} : EnterTurn(t, e, via)
               \/ Cancel(t, e) \/ RemoveAgent(t, e) \/ ReceiveUpdate(t, e)
               \/ \E to \in {"PAUSED", "RUNNING"} : Pause(t, e, to)
        PROVE  CountsMove
    BY <2>1 DEF EnterTurn, Cancel, RemoveAgent, ReceiveUpdate, Pause, bounds, CountsMove
  <2>2. ASSUME NEW t \in Tasks, NEW c \in Calls,
               Approve(t, c) \/ \E continue_turn \in BOOLEAN : Reject(t, c, continue_turn)
        PROVE  CountsMove
    BY <2>2 DEF Approve, Reject, bounds, CountsMove
  <2>3. ASSUME NEW t \in Tasks, Request(t) PROVE CountsMove
    BY <2>1, <2>2, <2>3 DEF Request
  <2>4. ASSUME NEW e \in Runs,
               \/ OpenRun(e) \/ Withdraw(e) \/ LeaseExpires(e)
               \/ \E previous \in Runs : ResumeAgentRun(previous, e)
               \/ \E c \in Calls : RequestApproval(c, e)
        PROVE  CountsMove
    BY <2>4 DEF OpenRun, Withdraw, LeaseExpires, ResumeAgentRun, RequestApproval, bounds, CountsMove
  <2>5. CASE Restart
    BY <2>5 DEF Restart, CountsMove
  <2>6. CASE Environment
    BY <2>4, <2>5, <2>6 DEF Environment
  <2>7. ASSUME NEW t \in Tasks, Die(t) PROVE CountsMove
    BY <2>7 DEF Die, CountsMove
  <2>8. ASSUME NEW t \in Tasks, NEW e \in Runs, Sweep(t, e) \/ ListOrphan(t, e) PROVE CountsMove
    BY <2>8 DEF Sweep, ListOrphan, bounds, CountsMove
  <2>9. CASE UNCHANGED vars
    BY <2>9 DEF vars, bounds, CountsMove
  <2> QED
    BY <2>3, <2>6, <2>7, <2>8, <2>9, ProceedCounts DEF Next
<1> QED
  BY <1>1, <1>2 DEF CountsMove

\* A run that exists, or is settled, stays so, and keeps its settlement.
LEMMA RunsStand ==
    ASSUME Inv, [Next]_vars, NEW e \in Runs
    PROVE  /\ Exists(e) => Exists(e)'
           /\ Settled(e) => Settled(e)' /\ settlement'[e] = settlement[e]
           /\ Settled(e) <=> settlement[e] # None
<1>1. LedgerInv /\ [LedgerNext]_ledger
  BY Inductive DEF Inv
<1>2. Settled(e) => harness'[e] = harness[e] /\ settlement'[e] = settlement[e]
  BY <1>1, SettledStays
<1>3. Exists(e) => Exists(e)'
  BY <1>1, RunPersists
<1> QED
  BY <1>1, <1>2, <1>3 DEF Settled, LedgerInv, Coherent

\* So what a handler counts on stays so while it waits.
LEMMA PoisedStays ==
    ASSUME Inv, [Next]_vars, NEW k \in TaskType, Fit(k), Poised(k)
    PROVE  Poised(k)'
<1>1. k.pc \in Acting => k.call \in Calls /\ called[k.call] # NoRun
  BY NoRunAssumption DEF Fit, WritesCall, Acting
<1>2. k.pc \in {"tool", "resolve"} => approval'[k.call] \in {None, "APPROVED"}
  BY <1>1, CallsStand, NullAssumption DEF Poised, Acting, ApprovalStatus
<1>3. k.pc \in {"advance", "deny"} => approval'[k.call] = "APPROVED"
  BY <1>1, CallsStand DEF Poised, Acting
<1>4. k.pc \in Shutting => k.run \in Runs
  BY DEF Shutting, Fit
<1>5. k.pc \in Shutting => Settled(k.run)'
  BY <1>4, RunsStand DEF Poised
<1>6. k.pc = "update" => updates' > 0
  BY CountsGrow DEF Poised
<1>7. k.pc = "expire" => \A c \in k.seen : called'[c] = k.run
  <2>1. k.seen \subseteq Calls
    BY DEF TaskType
  <2>2. k.pc = "expire" => \A c \in k.seen : called[c] # NoRun
    BY <1>4, NoRunAssumption DEF Poised, Shutting
  <2> QED
    BY <2>1, <2>2, CallsStand DEF Poised
<1> QED
  BY <1>2, <1>3, <1>5, <1>6, <1>7 DEF Poised

-----------------------------------------------------------------------------
(* Where a step leaves its task.                                              *)

\* Nobody loses a turn that is waiting, or a call that is to be expired, unless the
\* turn is claimed, its run is settled or somebody dies.
GoOn ==
    /\ \A t \in Tasks : Poised(task[t])'
    /\ \A t \in Tasks : \A e \in Runs :
          Coming(t, e) => Coming(t, e)' \/ e \notin suspended' \/ Settled(e)' \/ crashes' > 0
    /\ \A t \in Tasks : \A c \in Calls :
          Shuts(task[t], c) /\ Asks(c)' => Shuts(task[t], c)' \/ crashes' > 0

\* The awaits at which a handler is on its way to a suspended turn or to undecided calls.
Bound == Acting \cup {"resume", "settle"} \cup Shutting

\* A task that comes or shuts is at one of them.
LEMMA OnlyBound ==
    ASSUME NEW k, Poised(k), k.pc \notin Bound
    PROVE  ~Comes(k) /\ k.then # "resume" /\ \A c \in Calls : ~Shuts(k, c) /\ ~Shuts(k, c)'
BY DEF Poised, Comes, Shuts, Bound, Acting, Shutting, Back

\* A call that is to be expired keeps its run.
LEMMA ShutsKnown ==
    ASSUME Inv, [Next]_vars, NEW t \in Tasks, NEW c \in Calls, Shuts(task[t], c)
    PROVE  called'[c] = called[c] /\ task[t].run \in Runs
<1>1. task[t].run \in Runs
  BY Current DEF Shuts, At
<1> QED
  BY <1>1, CallsStand, NoRunAssumption DEF Shuts

\* A task that does not move goes on.
LEMMA NobodyGoes ==
    ASSUME Inv, [Next]_vars, AllPoised, UNCHANGED task
    PROVE  GoOn
<1>1. ASSUME NEW t \in Tasks PROVE Poised(task[t])'
  BY Current, PoisedStays DEF AllPoised, Poised
<1>2. ASSUME NEW t \in Tasks, NEW c \in Calls, Shuts(task[t], c) PROVE Shuts(task[t], c)'
  BY <1>2, ShutsKnown DEF Shuts
<1> QED
  BY <1>1, <1>2 DEF GoOn, Coming, Comes

\* A step that moves one task.
LEMMA OneGoes ==
    ASSUME Inv, [Next]_vars, AllPoised, NEW t \in Tasks, NEW k, k = task[t],
           NEW n, Become(t, n), Poised(n)',
           Comes(k) => \/ n.run = k.run /\ Comes(n)
                       \/ k.run \notin suspended' \/ Settled(k.run)' \/ crashes' > 0,
           \A c \in Calls : Shuts(k, c) /\ Asks(c)' => Shuts(n, c)' \/ crashes' > 0
    PROVE  GoOn
<1>1. task \in [Tasks -> TaskType]
  BY Current
<1>2. \A u \in Tasks : task'[u] = IF u = t THEN n ELSE task[u]
  BY <1>1 DEF Become
<1>3. ASSUME NEW u \in Tasks PROVE Poised(task[u])'
  <2>1. PICK h \in TaskType : h = task[u] /\ Fit(h) /\ Poised(h)
    BY Current DEF AllPoised
  <2>2. Poised(h)'
    BY <2>1, PoisedStays
  <2>3. PICK j : j = task'[u]
    OBVIOUS
  <2>4. j = n \/ j = h
    BY <1>2, <2>1, <2>3
  <2>5. (Poised(n)' => (j = n => Poised(j)')) /\ (Poised(h)' => (j = h => Poised(j)'))
    OBVIOUS
  <2>6. Poised(j)'
    BY <2>2, <2>4, <2>5
  <2> QED
    BY <2>3, <2>6 DEF Poised
<1>4. ASSUME NEW u \in Tasks, NEW e \in Runs, Coming(u, e)
      PROVE  Coming(u, e)' \/ e \notin suspended' \/ Settled(e)' \/ crashes' > 0
  BY <1>2, <1>4 DEF Coming, Comes
<1>5. ASSUME NEW u \in Tasks, NEW c \in Calls, Shuts(task[u], c), Asks(c)'
      PROVE  Shuts(task[u], c)' \/ crashes' > 0
  <2>1. CASE u = t
    BY <1>2, <1>5, <2>1 DEF Shuts
  <2>2. CASE u # t
    BY <1>2, <1>5, <2>2, ShutsKnown DEF Shuts
  <2> QED
    BY <2>1, <2>2
<1> QED
  BY <1>3, <1>4, <1>5 DEF GoOn

\* One that moves a task from elsewhere.
LEMMA FreeGoes ==
    ASSUME Inv, [Next]_vars, AllPoised, NEW t \in Tasks, NEW n, Become(t, n), Poised(n)',
           task[t].pc \notin Bound
    PROVE  GoOn
<1>1. PICK k : k = task[t] /\ Poised(k) /\ k.pc \notin Bound
  BY DEF AllPoised
<1>2. ~Comes(k) /\ \A c \in Calls : ~Shuts(k, c)
  BY <1>1, OnlyBound
<1> QED
  BY <1>1, <1>2, OneGoes

\* What follows an await that counts on nothing.
LEMMA CountsOnNothing ==
    ASSUME NEW n, n.pc \notin Bound \cup {"undispatched", "update"}, n.then # "resume"
    PROVE  Poised(n)'
BY DEF Poised, Bound, Acting, Shutting

\* A free task counts on nothing.
LEMMA IdlePoised == Poised(Idle)'
<1>1. Idle.pc = "idle" /\ Idle.then = None
  BY DEF Idle
<1> QED
  BY <1>1, CountsOnNothing, NullAssumption DEF Bound, Acting, Shutting

\* An exception, or a return, leads to no such await, ...
LEMMA AfterReturnPoised ==
    ASSUME NEW k \in TaskType, k.then # "resume"
    PROVE  Poised(AfterReturn(k))'
<1>1. PICK n : n = [k EXCEPT !.pc = "unresumable", !.via = "route", !.why = "FAILED"]
  OBVIOUS
<1>2. n.pc = "unresumable" /\ n.then = k.then
  BY <1>1 DEF TaskType
<1>3. Poised(n)'
  BY <1>2, CountsOnNothing DEF Bound, Acting, Shutting
<1>4. CASE k.via = "task"
  <2>1. AfterReturn(k) = n
    BY <1>1, <1>4 DEF AfterReturn
  <2> QED
    BY <1>3, <2>1
<1>5. CASE k.via # "task"
  <2>1. AfterReturn(k) = Idle
    BY <1>5 DEF AfterReturn
  <2> QED
    BY <2>1, IdlePoised
<1> QED
  BY <1>4, <1>5

\* and whoever entered the turn accounts for an exception without closing the gate,
LEMMA AfterRaisePoised ==
    ASSUME NEW k \in TaskType, k.then # "resume", NEW kind, NEW found
    PROVE  Poised(AfterRaise(k, kind, found))'
<1>1. CASE k.via = "route"
  <2>1. AfterRaise(k, kind, found) = Idle
    BY <1>1 DEF AfterRaise
  <2> QED
    BY <2>1, IdlePoised
<1>2. CASE k.via = "mention"
  <2>1. PICK n : n = [k EXCEPT !.pc = "undispatched", !.via = "route", !.why = "FAILED",
                              !.read = found, !.then = None]
    OBVIOUS
  <2>2. n.pc = "undispatched" /\ n.why = "FAILED" /\ n.then = None
    BY <2>1 DEF TaskType
  <2>3. Poised(n)'
    BY <2>2, NullAssumption DEF Poised, Shutting, ClosingSettlements
  <2>4. AfterRaise(k, kind, found) = n
    BY <1>2, <2>1 DEF AfterRaise
  <2> QED
    BY <2>3, <2>4
<1>3. CASE k.via \in {"task", "review"}
  <2>1. PICK n : n = AfterRaise(k, kind, found)
    OBVIOUS
  <2>2. n.pc = "unresumable" /\ n.then = k.then
    BY <1>3, <2>1 DEF AfterRaise, TaskType
  <2> QED
    BY <2>1, <2>2, CountsOnNothing DEF Bound, Acting, Shutting
<1> QED
  BY <1>1, <1>2, <1>3 DEF TaskType, Entrances

\* nor does a settlement that starts, unless it comes back for the decision's task,
LEMMA SettleRunPoised ==
    ASSUME NEW k \in TaskType, NEW why, NEW held, NEW then, then = "resume" => k.via = "review",
           NEW n, n = SettleRun(k, why, held, then)
    PROVE  Poised(n)' /\ n.run = k.run /\ n.then = then
<1>1. n.pc = "settle" /\ n.then = then /\ n.via = k.via /\ n.run = k.run
  BY DEF SettleRun, TaskType
<1> QED
  BY <1>1 DEF Poised, Shutting, Back

\* which it then leads back to its turn.
LEMMA AfterSettlePoised ==
    ASSUME NEW k \in TaskType, k.then = "resume" => k.via = "review"
    PROVE  /\ Poised(AfterSettle(k))'
           /\ k.then = "resume" => AfterSettle(k).run = k.run /\ Comes(AfterSettle(k))
<1>1. CASE k.then = "park"
  <2>1. PICK n : n = AfterSettle(k)
    OBVIOUS
  <2>2. n.pc = "park" /\ n.then = None
    BY <1>1, <2>1 DEF AfterSettle, TaskType
  <2> QED
    BY <1>1, <2>1, <2>2, CountsOnNothing, NullAssumption DEF Bound, Acting, Shutting
<1>2. CASE k.then = "resume"
  <2>1. PICK n : n = AfterSettle(k)
    OBVIOUS
  <2>2. n.pc = "resume" /\ n.then = None /\ n.via = "review" /\ n.run = k.run
    BY <1>2, <2>1 DEF AfterSettle, TaskType
  <2>3. Poised(n)'
    BY <2>2, NullAssumption DEF Poised, Shutting
  <2>4. Comes(n)
    BY <2>2 DEF Comes
  <2> QED
    BY <1>2, <2>1, <2>2, <2>3, <2>4
<1>3. CASE k.then \notin {"park", "resume"}
  <2>1. AfterSettle(k) = AfterReturn(k)
    BY <1>3 DEF AfterSettle
  <2> QED
    BY <1>3, <2>1, AfterReturnPoised
<1> QED
  BY <1>1, <1>2, <1>3

\* The same of a step from an await that counts on nothing.
LEMMA RaiseGoes ==
    ASSUME Inv, [Next]_vars, AllPoised, NEW t \in Tasks, task[t].pc \notin Bound, NEW kind, Raise(t, kind)
    PROVE  GoOn
<1>1. PICK k \in TaskType : k = task[t] /\ Poised(k) /\ k.pc \notin Bound
  BY Current DEF AllPoised
<1>2. k.then # "resume"
  BY <1>1, OnlyBound
<1>3. PICK n : n = AfterRaise(k, kind, status'[k.run]) /\ Become(t, n)
  BY <1>1 DEF Raise
<1>4. Poised(n)'
  BY <1>2, <1>3, AfterRaisePoised
<1> QED
  BY <1>1, <1>3, <1>4, FreeGoes

\* So does one that returns,
LEMMA ReturnGoes ==
    ASSUME Inv, [Next]_vars, AllPoised, NEW t \in Tasks, task[t].pc \notin Bound, Return(t)
    PROVE  GoOn
<1>1. PICK k \in TaskType : k = task[t] /\ Poised(k) /\ k.pc \notin Bound
  BY Current DEF AllPoised
<1>2. k.then # "resume"
  BY <1>1, OnlyBound
<1>3. PICK n : n = AfterReturn(k) /\ Become(t, n)
  BY <1>1 DEF Return
<1>4. Poised(n)'
  BY <1>2, <1>3, AfterReturnPoised
<1> QED
  BY <1>1, <1>3, <1>4, FreeGoes

\* and one that ends its handler.
LEMMA IdleGoes ==
    ASSUME Inv, [Next]_vars, AllPoised, NEW t \in Tasks, task[t].pc \notin Bound, Become(t, Idle)
    PROVE  GoOn
BY IdlePoised, FreeGoes

-----------------------------------------------------------------------------
(* What a step does to the runs that are held and to the calls that are asked.  *)

\* A held run nobody carries keeps its reviewer's lease and its suspended turn while
\* it is open and its question stands, unless the harness reports out of band.
HoldsStay ==
    /\ suspended' \subseteq suspended
    /\ \A e \in Runs :
          (/\ Open(e)' /\ harness[e] = "AWAITING_APPROVAL" /\ updates' = 0
           /\ \E c \in Calls : called[c] = e /\ Asks(c)'
           /\ \A t \in Tasks : ~Carries(t, e))
              => harness'[e] = "AWAITING_APPROVAL" /\ (e \in suspended => e \in suspended')

\* An undecided call stays so, or its run is settled, or the decision's task comes.
Decided ==
    \A c \in Calls : Asks(c) =>
        \/ Asks(c)' /\ called'[c] = called[c]
        \/ Settled(called[c])'
        \/ \E t \in Tasks : Coming(t, called[c])'

\* Whoever writes a settlement that closes the gate goes on to expire what is asked.
SettlersShut ==
    \A e \in Runs : settlement'[e] # settlement[e] /\ settlement'[e] \in ClosingSettlements =>
        \E t \in Tasks : /\ task'[t].run = e
                         /\ \/ task'[t].pc = "discard" /\ task'[t].why # "APPROVAL_REFUSED"
                            \/ task'[t].pc = "list"

Steady == GoOn /\ NoNewQuestion /\ HoldsStay /\ Decided /\ SettlersShut

\* The writes that leave a held run as it is, or settle a run without closing its gate.
Harmless(e) ==
    \/ UNCHANGED ledger
    \/ SpendAttempt(e) \/ LeaseRunsOut(e)
    \/ \E to : UpdateStatus(e, to)
    \/ \E attempt : OpenRow(e, attempt)
    \/ \E state : Advance(e, state) /\ \/ updates' > 0 \/ harness[e] = "STARTING"
                                       \/ \E t \in Tasks : Carries(t, e)
    \/ CompleteExecution(e)
    \/ \E final : \E why \in RunSettlement \ ClosingSettlements : Terminalize(e, final, why)
    \/ Settled(e) /\ \E why : SettleOnly(e, why)

\* They leave the held runs held, and no gate to be closed.
LEMMA HarmlessHolds ==
    ASSUME Inv, [Next]_vars, NEW e \in Runs, Harmless(e), UNCHANGED suspended
    PROVE  HoldsStay /\ SettlersShut
<1>1. /\ harness \in [Runs -> HarnessState \cup {None}] /\ settlement \in [Runs -> RunSettlement \cup {None}]
      /\ \A f \in Runs : ~Exists(f) => harness[f] # "AWAITING_APPROVAL"
      /\ updates' \in Nat
  <2>1. None # "AWAITING_APPROVAL"
    BY NoneAssumption DEF HarnessState, OpenHarnessStates
  <2>2. LedgerTypeOK /\ Coherent
    BY DEF Inv, LedgerInv
  <2>3. \A f \in Runs : ~Exists(f) => harness[f] # "AWAITING_APPROVAL"
    BY <2>1, <2>2 DEF Coherent
  <2> QED
    BY <2>2, <2>3, CountsGrow DEF LedgerTypeOK
<1>2. "END_TURN" \notin ClosingSettlements
  BY DEF ClosingSettlements
<1>3. CASE UNCHANGED ledger \/ SpendAttempt(e) \/ LeaseRunsOut(e) \/ \E to : UpdateStatus(e, to)
  BY <1>3 DEF HoldsStay, SettlersShut, SpendAttempt, LeaseRunsOut, UpdateStatus, ledger
<1>4. ASSUME NEW attempt, OpenRow(e, attempt) PROVE HoldsStay /\ SettlersShut
  BY <1>1, <1>4 DEF HoldsStay, SettlersShut, OpenRow
<1>5. ASSUME NEW state, Advance(e, state),
             updates' > 0 \/ harness[e] = "STARTING" \/ \E t \in Tasks : Carries(t, e)
      PROVE  HoldsStay /\ SettlersShut
  <2>1. \A f \in Runs \ {e} : harness'[f] = harness[f]
    BY <1>1, <1>5 DEF Advance
  <2>2. ~(updates' > 0 /\ updates' = 0)
    BY <1>1
  <2> QED
    BY <1>5, <2>1, <2>2 DEF HoldsStay, SettlersShut, Advance
<1>6. ASSUME NEW why, why \notin ClosingSettlements \/ Settled(e), SettleEnvelope(e, why)
      PROVE  HoldsStay /\ SettlersShut
  <2>1. \A f \in Runs \ {e} : harness'[f] = harness[f] /\ settlement'[f] = settlement[f]
    BY <1>1, <1>6 DEF SettleEnvelope
  <2>2. Settled(e)'
    BY <1>1, <1>6 DEF SettleEnvelope, Settled
  <2>3. settlement'[e] = settlement[e] \/ settlement'[e] \notin ClosingSettlements
    BY <1>1, <1>6 DEF SettleEnvelope
  <2> QED
    BY <2>1, <2>2, <2>3 DEF HoldsStay, SettlersShut, Open
<1>7. CompleteExecution(e) => SettleEnvelope(e, "END_TURN")
  BY DEF CompleteExecution
<1>8. \A final, why : Terminalize(e, final, why) => SettleEnvelope(e, why)
  BY DEF Terminalize
<1>9. \A why : SettleOnly(e, why) => SettleEnvelope(e, why)
  BY DEF SettleOnly
<1> QED
  BY <1>2, <1>3, <1>4, <1>5, <1>6, <1>7, <1>8, <1>9 DEF Harmless

\* A step that writes to no call.
LEMMA SameCalls ==
    ASSUME UNCHANGED <<called, approval, request>>
    PROVE  NoNewQuestion /\ Decided
BY SameQuestions DEF Decided, Asks, Gates

\* Most steps are of this kind.
LEMMA HarmlessSteady ==
    ASSUME Inv, [Next]_vars, NEW e \in Runs, Harmless(e), GoOn, UNCHANGED gateway
    PROVE  Steady
BY HarmlessHolds, SameCalls DEF Steady, gateway

\* Somebody settles a run and goes on to expire what it asked.
LEMMA ClosingSteady ==
    ASSUME Inv, [Next]_vars, NEW e \in Runs, NEW final, NEW why, Terminalize(e, final, why), GoOn,
           UNCHANGED <<called, approval, request>>,
           suspended' \subseteq suspended, suspended \subseteq suspended' \cup {e},
           NEW t \in Tasks, task'[t].run = e,
           \/ task'[t].pc = "discard" /\ task'[t].why # "APPROVAL_REFUSED"
           \/ task'[t].pc = "list"
    PROVE  Steady
<1>1. harness \in [Runs -> HarnessState \cup {None}] /\ settlement \in [Runs -> RunSettlement \cup {None}]
  BY DEF Inv, LedgerInv, LedgerTypeOK
<1>2. \A f \in Runs \ {e} : harness'[f] = harness[f] /\ settlement'[f] = settlement[f]
  BY <1>1 DEF Terminalize, SettleEnvelope
<1>3. Settled(e)'
  BY <1>1 DEF Terminalize, SettleEnvelope, Settled
<1>4. HoldsStay
  BY <1>2, <1>3 DEF HoldsStay, Open
<1>5. SettlersShut
  BY <1>2 DEF SettlersShut
<1> QED
  BY <1>4, <1>5, SameCalls DEF Steady

-----------------------------------------------------------------------------
(* The steps, one by one.                                                       *)

\* The head of a step goes nowhere near a decision (_execute_one_agent_step_inner).
LEMMA StepSteady ==
    ASSUME Inv, [Next]_vars, AllPoised, NEW t \in Tasks, Step(t)
    PROVE  Steady
<1>1. PICK k \in TaskType : k = task[t] /\ k.pc = "enter" /\ Poised(k) /\ k.run \in Runs
  BY Current DEF Step, At, AllPoised
<1>2. k.pc \notin Bound /\ k.then # "resume"
  BY <1>1 DEF Bound, Acting, Shutting, Poised, Back
<1>3. ASSUME NEW n, Become(t, n), NEW why \in {"AUTHORITY_REVOKED", "MAX_TOKENS"},
             NEW then \in {"auth", "domain"},
             n = [k EXCEPT !.pc = "undispatched", !.read = status[k.run], !.why = why,
                           !.then = then]
      PROVE  GoOn
  <2>1. n.pc = "undispatched" /\ n.why = why /\ n.then = then
    BY <1>3 DEF TaskType
  <2>2. Poised(n)'
    BY <2>1 DEF Poised, Shutting, ClosingSettlements
  <2> QED
    BY <1>1, <1>2, <1>3, <2>2, FreeGoes
<1>4. ASSUME NEW n, Become(t, n), n = [k EXCEPT !.pc = "claim", !.read = status[k.run]]
      PROVE  GoOn
  <2>1. n.pc = "claim" /\ n.then = k.then
    BY <1>4 DEF TaskType
  <2>2. Poised(n)'
    BY <1>2, <2>1, CountsOnNothing DEF Bound, Acting, Shutting
  <2> QED
    BY <1>1, <1>2, <1>4, <2>2, FreeGoes
<1>5. ASSUME NEW kind, Raise(t, kind) PROVE GoOn
  BY <1>1, <1>2, <1>5, RaiseGoes
<1>6. GoOn
  BY <1>1, <1>3, <1>4, <1>5 DEF Step
<1>7. UNCHANGED gateway /\ Harmless(k.run)
  BY DEF Step, Harmless
<1> QED
  BY <1>1, <1>6, <1>7, HarmlessSteady

\* A turn that goes on at an await that counts on nothing.
LEMMA TurnGoes ==
    ASSUME Inv, [Next]_vars, AllPoised, NEW t \in Tasks, NEW k \in TaskType, k = task[t], k.pc \notin Bound,
           NEW n, Become(t, n), n.then = k.then, n.pc \notin Bound \cup {"undispatched", "update"}
    PROVE  GoOn
<1>1. Poised(k) /\ k.then # "resume"
  BY OnlyBound DEF AllPoised
<1>2. Poised(n)'
  BY <1>1, CountsOnNothing
<1> QED
  BY <1>2, FreeGoes

\* Nor does the claim: it takes a run that starts, or one its own turn carries.
LEMMA ClaimSteady ==
    ASSUME Inv, DriverInv, [Next]_vars, AllPoised, NEW t \in Tasks, Claim(t)
    PROVE  Steady
<1>1. PICK k \in TaskType : k = task[t] /\ k.pc = "claim" /\ k.run \in Runs
  BY Current DEF Claim, At
<1>2. k.pc \notin Bound
  BY <1>1 DEF Bound, Acting, Shutting
<1>3. ASSUME NEW n, Become(t, n),
             n = [k EXCEPT !.pc = "begin", !.first = FALSE] \/ n = [k EXCEPT !.pc = "begin"]
      PROVE  GoOn
  <2>1. n.pc = "begin" /\ n.then = k.then
    BY <1>3 DEF TaskType
  <2>2. n.pc \notin Bound \cup {"undispatched", "update"}
    BY <2>1 DEF Bound, Acting, Shutting
  <2> QED
    BY <1>1, <1>2, <1>3, <2>1, <2>2, TurnGoes
<1>4. GoOn
  BY <1>1, <1>2, <1>3, RaiseGoes DEF Claim, Goto
<1>5. Harmless(k.run)
  <2>1. CASE UNCHANGED ledger
    BY <2>1 DEF Harmless
  <2>2. CASE k.first /\ CanAdvance(k.run, "STARTING") /\ Advance(k.run, "STREAMING")
    <3>1. harness[k.run] = "STARTING"
      BY <2>2, NoneAssumption DEF CanAdvance, HarnessState, OpenHarnessStates
    <3> QED
      BY <2>2, <3>1 DEF Harmless
  <2>3. CASE ~k.first /\ Advance(k.run, "STREAMING")
    <3>1. Carries(t, k.run)
      BY <1>1, <2>3 DEF Carries, Carrying
    <3> QED
      BY <2>3, <3>1 DEF Harmless
  <2> QED
    BY <1>1, <2>1, <2>2, <2>3 DEF Claim
<1> QED
  BY <1>1, <1>4, <1>5, HarmlessSteady DEF Claim

\* Opening a session leaves the question and who comes for it alone (session_new).
LEMMA NewSessionSteady ==
    ASSUME Inv, [Next]_vars, AllPoised, NEW t \in Tasks, NewSession(t)
    PROVE  Steady
<1>1. PICK k \in TaskType : k = task[t] /\ k.pc = "begin" /\ k.run \in Runs
  BY Current DEF NewSession, At
<1>2. k.pc \notin Bound
  BY <1>1 DEF Bound, Acting, Shutting
<1>3. PICK next \in {"cancelled", "prompt", "mark"} : Become(t, [k EXCEPT !.pc = next])
  BY <1>1 DEF NewSession, Prompts, Goto
<1>4. GoOn
  <2>1. PICK n : n = [k EXCEPT !.pc = next]
    OBVIOUS
  <2>2. n.pc = next /\ n.then = k.then
    BY <2>1 DEF TaskType
  <2>3. n.pc \notin Bound \cup {"undispatched", "update"}
    BY <2>2 DEF Bound, Acting, Shutting
  <2> QED
    BY <1>1, <1>2, <1>3, <2>1, <2>2, <2>3, TurnGoes
<1>5. Harmless(k.run) /\ UNCHANGED gateway
  BY <1>1 DEF NewSession, Harmless, ledger
<1> QED
  BY <1>1, <1>4, <1>5, HarmlessSteady

\* What is marked RUNNING goes on within its turn (mark_running).
LEMMA MarkRunningSteady ==
    ASSUME Inv, [Next]_vars, AllPoised, NEW t \in Tasks, MarkRunning(t)
    PROVE  Steady
<1>1. PICK k \in TaskType : k = task[t] /\ k.pc = "mark" /\ k.run \in Runs
  BY Current DEF MarkRunning, At
<1>2. k.pc \notin Bound
  BY <1>1 DEF Bound, Acting, Shutting
<1>3. ASSUME NEW n, Become(t, n), NEW next \in {"cancelled", "prompt"},
             n = [k EXCEPT !.pc = next, !.read = "RUNNING"]
      PROVE  GoOn
  <2>1. n.pc = next /\ n.then = k.then
    BY <1>3 DEF TaskType
  <2>2. n.pc \notin Bound \cup {"undispatched", "update"}
    BY <2>1 DEF Bound, Acting, Shutting
  <2> QED
    BY <1>1, <1>2, <1>3, <2>1, <2>2, TurnGoes
<1>4. GoOn
  BY <1>1, <1>2, <1>3, RaiseGoes DEF MarkRunning, Prompts
<1>5. Harmless(k.run) /\ UNCHANGED gateway
  BY <1>1 DEF MarkRunning, Harmless
<1> QED
  BY <1>1, <1>4, <1>5, HarmlessSteady

\* A failed prompt settles its run FAILED, which closes no gate.
LEMMA ProviderFailsSteady ==
    ASSUME Inv, [Next]_vars, AllPoised, NEW t \in Tasks, ProviderFails(t)
    PROVE  Steady
<1>1. task[t].pc \notin Bound /\ task[t].run \in Runs
  BY Current DEF ProviderFails, At, Bound, Acting, Shutting
<1>2. GoOn
  BY <1>1, RaiseGoes, ReturnGoes DEF ProviderFails
<1>3. "FAILED" \in RunSettlement \ ClosingSettlements
  BY DEF RunSettlement, ClosingSettlements
<1>4. Harmless(task[t].run) /\ UNCHANGED gateway
  BY <1>3 DEF ProviderFails, Harmless
<1> QED
  BY <1>1, <1>2, <1>4, HarmlessSteady

\* Nor does an answer (complete_execution).
LEMMA FinishSteady ==
    ASSUME Inv, [Next]_vars, AllPoised, NEW t \in Tasks, Finish(t)
    PROVE  Steady
<1>1. task[t].pc \notin Bound /\ task[t].run \in Runs
  BY Current DEF Finish, At, Bound, Acting, Shutting
<1>2. GoOn
  BY <1>1, RaiseGoes, ReturnGoes DEF Finish
<1>3. Harmless(task[t].run) /\ UNCHANGED gateway
  BY DEF Finish, Harmless
<1> QED
  BY <1>1, <1>2, <1>3, HarmlessSteady

\* After a prompt the turn goes on to read its lease ...
LEMMA ProviderAnswersSteady ==
    ASSUME Inv, [Next]_vars, AllPoised, NEW t \in Tasks, ProviderAnswers(t)
    PROVE  Steady
<1>1. PICK k \in TaskType : k = task[t] /\ k.pc = "prompt" /\ k.run \in Runs
  BY Current DEF ProviderAnswers, At
<1>2. k.pc \notin Bound
  BY <1>1 DEF Bound, Acting, Shutting
<1>3. ASSUME NEW n, Become(t, n),
             n = [k EXCEPT !.pc = "answer"] \/ n = [k EXCEPT !.pc = "beat", !.state = harness[k.run]]
      PROVE  GoOn
  <2>1. n.pc \in {"answer", "beat"} /\ n.then = k.then
    BY <1>3 DEF TaskType
  <2>2. n.pc \notin Bound \cup {"undispatched", "update"}
    BY <2>1 DEF Bound, Acting, Shutting
  <2> QED
    BY <1>1, <1>2, <1>3, <2>1, <2>2, TurnGoes
<1>4. GoOn
  BY <1>1, <1>3 DEF ProviderAnswers, Goto
<1>5. Harmless(k.run) /\ UNCHANGED gateway
  BY DEF ProviderAnswers, Harmless
<1> QED
  BY <1>1, <1>4, <1>5, HarmlessSteady

\* ... and to renew it: the run is its own (_renew_run_lease).
LEMMA RenewLeaseSteady ==
    ASSUME Inv, [Next]_vars, AllPoised, NEW t \in Tasks, RenewLease(t)
    PROVE  Steady
<1>1. PICK k \in TaskType : k = task[t] /\ k.pc = "beat" /\ k.run \in Runs
  BY Current DEF RenewLease, At
<1>2. k.pc \notin Bound /\ Carries(t, k.run)
  BY <1>1 DEF Bound, Acting, Shutting, Carries, Carrying, Turning
<1>3. PICK n : n = [k EXCEPT !.pc = "answer", !.state = None] /\ Become(t, n)
  BY <1>1 DEF RenewLease
<1>4. n.pc = "answer" /\ n.then = k.then
  BY <1>3 DEF TaskType
<1>5. n.pc \notin Bound \cup {"undispatched", "update"}
  BY <1>4 DEF Bound, Acting, Shutting
<1>6. GoOn
  BY <1>1, <1>2, <1>3, <1>4, <1>5, TurnGoes
<1>7. Harmless(k.run) /\ UNCHANGED gateway
  BY <1>1, <1>2 DEF RenewLease, Harmless
<1> QED
  BY <1>1, <1>6, <1>7, HarmlessSteady

\* A settlement that starts from such an await, and does not come back.
LEMMA SettleRunGoes ==
    ASSUME Inv, [Next]_vars, AllPoised, NEW t \in Tasks, task[t].pc \notin Bound, NEW k \in TaskType,
           NEW why, NEW held, NEW then, then # "resume", Become(t, SettleRun(k, why, held, then))
    PROVE  GoOn
<1>1. PICK n : n = SettleRun(k, why, held, then)
  OBVIOUS
<1>2. Poised(n)'
  BY <1>1, SettleRunPoised
<1> QED
  BY <1>1, <1>2, FreeGoes

\* A turn without an answer goes on to settle its run (_settle_turn_without_answer).
LEMMA WithoutAnswerSteady ==
    ASSUME Inv, [Next]_vars, AllPoised, NEW t \in Tasks, WithoutAnswer(t)
    PROVE  Steady
<1>1. task[t].pc \notin Bound /\ task[t].run \in Runs /\ task[t] \in TaskType
  BY Current DEF WithoutAnswer, At, Bound, Acting, Shutting
<1>2. GoOn
  BY <1>1, NullAssumption, ReturnGoes, SettleRunGoes DEF WithoutAnswer
<1>3. Harmless(task[t].run) /\ UNCHANGED gateway
  BY DEF WithoutAnswer, Harmless
<1> QED
  BY <1>1, <1>2, <1>3, HarmlessSteady

\* A call nobody asks a reviewer about is nobody's question before and after.
LEMMA GateDeniesSteady ==
    ASSUME Inv, DriverInv, [Next]_vars, AllPoised, NEW t \in Tasks, NEW c \in Calls, GateDenies(t, c)
    PROVE  Steady
<1>1. PICK k \in TaskType : k = task[t] /\ k.pc = "answer" /\ k.run \in Runs
  BY Current DEF GateDenies, At
<1>2. k.pc \notin Bound
  BY <1>1 DEF Bound, Acting, Shutting
<1>3. PICK n : n = [k EXCEPT !.pc = "park"] /\ Become(t, n)
  BY <1>1 DEF GateDenies, Goto
<1>4. n.pc = "park" /\ n.then = k.then
  BY <1>3 DEF TaskType
<1>5. GoOn
  <2>1. n.pc \notin Bound \cup {"undispatched", "update"}
    BY <1>4 DEF Bound, Acting, Shutting
  <2> QED
    BY <1>1, <1>2, <1>3, <1>4, <2>1, TurnGoes
<1>6. HoldsStay /\ SettlersShut
  <2>1. Harmless(k.run) /\ UNCHANGED suspended
    BY DEF GateDenies, Harmless
  <2> QED
    BY <1>1, <2>1, HarmlessHolds
<1>7. NoNewQuestion
  BY GateDeniesCalm DEF Calm
<1>8. Decided
  <2>1. ~Asks(c)
    BY UnusedIsBlank DEF GateDenies
  <2> QED
    BY <2>1 DEF GateDenies, Decided, Asks, Gates, Inv, TypeOK
<1> QED
  BY <1>5, <1>6, <1>7, <1>8 DEF Steady

\* Nor is one the gateway lets through: its tool has no approval to wait for.
LEMMA GateAllowsSteady ==
    ASSUME Inv, DriverInv, [Next]_vars, AllPoised, NEW t \in Tasks, NEW c \in Calls, GateAllows(t, c)
    PROVE  Steady
<1>1. PICK k \in TaskType : k = task[t] /\ k.pc = "answer" /\ k.run \in Runs
  BY Current DEF GateAllows, At
<1>2. k.pc \notin Bound
  BY <1>1 DEF Bound, Acting, Shutting
<1>3. PICK n : n = [k EXCEPT !.pc = "tool", !.call = c, !.then = "park"] /\ Become(t, n)
  BY <1>1 DEF GateAllows
<1>4. n.pc = "tool" /\ n.call = c /\ n.then = "park"
  BY <1>3 DEF TaskType
<1>5. ~Asks(c) /\ approval[c] = None
  BY UnusedIsBlank DEF GateAllows
<1>6. Poised(n)'
  BY <1>4, <1>5 DEF GateAllows, Poised, Shutting
<1>7. GoOn
  BY <1>1, <1>2, <1>3, <1>6, FreeGoes
<1>8. HoldsStay /\ SettlersShut
  <2>1. Harmless(k.run) /\ UNCHANGED suspended
    BY DEF GateAllows, Harmless
  <2> QED
    BY <1>1, <2>1, HarmlessHolds
<1>9. NoNewQuestion
  BY GateAllowsCalm DEF Calm
<1>10. Decided
  BY <1>5 DEF GateAllows, Decided, Asks, Gates, Inv, TypeOK
<1> QED
  BY <1>7, <1>8, <1>9, <1>10 DEF Steady

\* The tool runs on the way from the decision to the turn, if there was a decision.
LEMMA RunToolSteady ==
    ASSUME Inv, [Next]_vars, AllPoised, NEW t \in Tasks, RunTool(t)
    PROVE  Steady
<1>1. PICK k \in TaskType : k = task[t] /\ k.pc = "tool" /\ Poised(k) /\ k.run \in Runs
  BY Current DEF RunTool, At, AllPoised
<1>2. ASSUME NEW n, Become(t, n), NEW why, n = [k EXCEPT !.pc = "resolve", !.why = why]
      PROVE  GoOn
  <2>1. /\ n.pc = "resolve" /\ n.run = k.run /\ n.call = k.call
        /\ n.via = k.via /\ n.then = k.then
    BY <1>2 DEF TaskType
  <2>2. Poised(n)'
    BY <1>1, <2>1 DEF RunTool, Poised, Shutting, Back
  <2>3. Comes(k) => n.run = k.run /\ Comes(n)
    BY <1>1, <2>1 DEF Comes
  <2>4. \A c \in Calls : ~Shuts(k, c)
    BY <1>1 DEF Shuts
  <2> QED
    BY <1>1, <1>2, <2>2, <2>3, <2>4, OneGoes
<1>3. GoOn
  BY <1>1, <1>2 DEF RunTool
<1>4. HoldsStay /\ SettlersShut
  <2>1. Harmless(k.run) /\ UNCHANGED suspended
    BY DEF RunTool, Harmless
  <2> QED
    BY <1>1, <2>1, HarmlessHolds
<1> QED
  BY <1>3, <1>4, SameCalls DEF RunTool, Steady

\* Resolving the call leads on to the turn, at once or after a settlement.
LEMMA ResolveCallSteady ==
    ASSUME Inv, DriverInv, [Next]_vars, AllPoised, NEW t \in Tasks, ResolveCall(t)
    PROVE  Steady
<1>1. PICK k \in TaskType : k = task[t] /\ k.pc = "resolve" /\ Poised(k) /\ Fit(k) /\ k.run \in Runs
  BY Current DEF ResolveCall, At, AllPoised
<1>2. PICK done : done = [k EXCEPT !.call = NoCall, !.why = None]
  OBVIOUS
<1>3. done \in TaskType /\ done.run = k.run /\ done.then = k.then /\ done.via = k.via
  BY <1>2 DEF TaskType
<1>4. done.then = "resume" => done.via = "review"
  BY <1>1, <1>3 DEF Poised
<1>5. Comes(k) <=> k.then = "resume"
  BY <1>1 DEF Comes
<1>6. \A c \in Calls : ~Shuts(k, c)
  BY <1>1 DEF Shuts
<1>7. GoOn
  <2>1. ASSUME NEW n, Become(t, n), NEW why, NEW held, n = SettleRun(done, why, held, k.then) PROVE GoOn
    <3>1. Poised(n)' /\ n.run = done.run /\ n.then = k.then
      BY <1>3, <1>4, <2>1, SettleRunPoised
    <3>2. Comes(k) => n.run = k.run /\ Comes(n)
      BY <1>3, <1>5, <3>1 DEF Comes
    <3> QED
      BY <1>1, <1>6, <2>1, <3>1, <3>2, OneGoes
  <2>2. ASSUME NEW n, Become(t, n), n = AfterSettle(done) PROVE GoOn
    <3>1. Poised(n)' /\ (done.then = "resume" => n.run = done.run /\ Comes(n))
      BY <1>3, <1>4, <2>2, AfterSettlePoised
    <3> QED
      BY <1>1, <1>3, <1>5, <1>6, <2>2, <3>1, OneGoes
  <2> QED
    BY <1>1, <1>2, <2>1, <2>2 DEF ResolveCall
<1>8. HoldsStay /\ SettlersShut
  <2>1. Harmless(k.run) /\ UNCHANGED suspended
    BY DEF ResolveCall, Harmless
  <2> QED
    BY <1>1, <2>1, HarmlessHolds
<1>9. NoNewQuestion
  BY ResolveCallCalm DEF Calm
<1>10. Decided
  <2>1. k.call \in Calls /\ ~Asks(k.call)
    BY <1>1, NullAssumption DEF Fit, WritesCall, Poised, Asks, ApprovalStatus
  <2> QED
    BY <1>1, <2>1 DEF ResolveCall, Decided, Asks, Gates, Inv, TypeOK
<1> QED
  BY <1>7, <1>8, <1>9, <1>10 DEF Steady

\* The next prompt is charged, or the run is handed to a settlement (_park_if_attempts_spent).
LEMMA ParkIfSpentSteady ==
    ASSUME Inv, [Next]_vars, AllPoised, NEW t \in Tasks, ParkIfSpent(t)
    PROVE  Steady
<1>1. PICK k \in TaskType : k = task[t] /\ k.pc = "park" /\ k.run \in Runs
  BY Current DEF ParkIfSpent, At
<1>2. k.pc \notin Bound
  BY <1>1 DEF Bound, Acting, Shutting
<1>3. ASSUME NEW n, Become(t, n), n = [k EXCEPT !.pc = "enter"] PROVE GoOn
  <2>1. n.pc = "enter" /\ n.then = k.then
    BY <1>3 DEF TaskType
  <2>2. n.pc \notin Bound \cup {"undispatched", "update"}
    BY <2>1 DEF Bound, Acting, Shutting
  <2> QED
    BY <1>1, <1>2, <1>3, <2>1, <2>2, TurnGoes
<1>4. GoOn
  BY <1>1, <1>2, <1>3, NullAssumption, ReturnGoes, SettleRunGoes DEF ParkIfSpent, Goto
<1>5. Harmless(k.run) /\ UNCHANGED gateway
  BY <1>1 DEF ParkIfSpent, Harmless
<1> QED
  BY <1>1, <1>4, <1>5, HarmlessSteady

\* After a grant the decision's task runs the call on the way to the turn (approve_action).
LEMMA AdvanceApprovedSteady ==
    ASSUME Inv, [Next]_vars, AllPoised, NEW t \in Tasks, AdvanceApproved(t)
    PROVE  Steady
<1>1. PICK k \in TaskType : k = task[t] /\ k.pc = "advance" /\ Poised(k) /\ k.run \in Runs
  BY Current DEF AdvanceApproved, At, AllPoised
<1>2. PICK n : n = [k EXCEPT !.pc = "tool", !.then = "resume"] /\ Become(t, n)
  BY <1>1 DEF AdvanceApproved
<1>3. n.pc = "tool" /\ n.run = k.run /\ n.call = k.call /\ n.via = k.via /\ n.then = "resume"
  BY <1>2 DEF TaskType
<1>4. UNCHANGED gateway
  BY DEF AdvanceApproved
<1>5. Poised(n)'
  BY <1>1, <1>3, <1>4 DEF gateway, Poised, Shutting, Back
<1>6. Comes(n) /\ \A c \in Calls : ~Shuts(k, c)
  BY <1>1, <1>3 DEF Comes, Shuts
<1>7. GoOn
  BY <1>1, <1>2, <1>3, <1>5, <1>6, OneGoes
<1>8. Harmless(k.run)
  <2>1. Carries(t, k.run)
    BY <1>1 DEF Carries, Carrying, Turning
  <2> QED
    BY <1>1, <2>1 DEF AdvanceApproved, Harmless
<1> QED
  BY <1>1, <1>4, <1>7, <1>8, HarmlessSteady

\* A decision that no longer permits the call goes straight to the turn.
LEMMA DenyApprovedSteady ==
    ASSUME Inv, DriverInv, [Next]_vars, AllPoised, NEW t \in Tasks, DenyApproved(t)
    PROVE  Steady
<1>1. PICK k \in TaskType : k = task[t] /\ k.pc = "deny" /\ Poised(k) /\ Fit(k) /\ k.run \in Runs
  BY Current DEF DenyApproved, At, AllPoised
<1>2. PICK n : n = [k EXCEPT !.pc = "resume", !.call = NoCall] /\ Become(t, n)
  BY <1>1 DEF DenyApproved
<1>3. n.pc = "resume" /\ n.run = k.run /\ n.via = k.via /\ n.then = k.then
  BY <1>2 DEF TaskType
<1>4. k.then # "resume"
  BY <1>1 DEF Poised, Back
<1>5. Poised(n)'
  BY <1>1, <1>3, <1>4 DEF Poised, Shutting
<1>6. Comes(n) /\ \A c \in Calls : ~Shuts(k, c)
  BY <1>1, <1>3 DEF Comes, Shuts
<1>7. GoOn
  BY <1>1, <1>2, <1>3, <1>5, <1>6, OneGoes
<1>8. HoldsStay /\ SettlersShut
  <2>1. Harmless(k.run) /\ UNCHANGED suspended
    BY DEF DenyApproved, Harmless
  <2> QED
    BY <1>1, <2>1, HarmlessHolds
<1>9. NoNewQuestion
  BY DenyApprovedCalm DEF Calm
<1>10. Decided
  <2>1. k.call \in Calls /\ ~Asks(k.call)
    BY <1>1 DEF Fit, WritesCall, Poised, Asks
  <2> QED
    BY <1>1, <2>1 DEF DenyApproved, Decided, Asks, Gates, Inv, TypeOK
<1> QED
  BY <1>7, <1>8, <1>9, <1>10 DEF Steady

\* Whoever comes for the suspended turn takes it (_resume_suspended_turn).
LEMMA ResumeSuspendedTurnSteady ==
    ASSUME Inv, [Next]_vars, AllPoised, NEW t \in Tasks, ResumeSuspendedTurn(t)
    PROVE  Steady
<1>1. PICK k \in TaskType : k = task[t] /\ k.pc = "resume" /\ Poised(k) /\ k.run \in Runs
  BY Current DEF ResumeSuspendedTurn, At, AllPoised
<1>2. k.then # "resume"
  BY <1>1 DEF Poised, Back
<1>3. suspended' = suspended \ {k.run} /\ UNCHANGED <<called, approval, request>> /\ UNCHANGED ledger
  BY <1>1 DEF ResumeSuspendedTurn, ClaimTurn
<1>4. ASSUME NEW n, Become(t, n), n.pc \in {"park", "unresumable"}, n.then = k.then PROVE GoOn
  <2>1. Poised(n)'
    BY <1>2, <1>4, CountsOnNothing DEF Bound, Acting, Shutting
  <2>2. \A c \in Calls : ~Shuts(k, c)
    BY <1>1 DEF Shuts
  <2> QED
    BY <1>1, <1>3, <1>4, <2>1, <2>2, OneGoes
<1>5. GoOn
  <2>1. ASSUME NEW n, Become(t, n),
               \/ n = [k EXCEPT !.pc = "park"]
               \/ n = [k EXCEPT !.pc = "unresumable", !.via = "route", !.why = "ORPHANED"]
        PROVE  GoOn
    <3>1. n.pc \in {"park", "unresumable"} /\ n.then = k.then
      BY <2>1 DEF TaskType
    <3> QED
      BY <1>4, <2>1, <3>1
  <2> QED
    BY <1>1, <2>1 DEF ResumeSuspendedTurn, Goto
<1>6. Carries(t, k.run)
  BY <1>1 DEF Carries, Carrying, Turning
<1>7. HoldsStay /\ SettlersShut
  BY <1>1, <1>3, <1>6 DEF HoldsStay, SettlersShut, ledger
<1> QED
  BY <1>3, <1>5, <1>7, SameCalls DEF Steady

\* A turn nobody can resume is handed to a settlement (_settle_unresumable_turn).
LEMMA UnresumableSteady ==
    ASSUME Inv, [Next]_vars, AllPoised, NEW t \in Tasks, Unresumable(t)
    PROVE  Steady
<1>1. task[t].pc \notin Bound /\ task[t].run \in Runs /\ task[t] \in TaskType
  BY Current DEF Unresumable, At, Bound, Acting, Shutting
<1>2. GoOn
  BY <1>1, NullAssumption, IdleGoes, SettleRunGoes DEF Unresumable
<1>3. Harmless(task[t].run) /\ UNCHANGED gateway
  BY DEF Unresumable, Harmless
<1> QED
  BY <1>1, <1>2, <1>3, HarmlessSteady

\* A run nobody dispatched is settled for a reason that closes no gate
\* (_settle_undispatched_run).
LEMMA SettleUndispatchedSteady ==
    ASSUME Inv, [Next]_vars, AllPoised, NEW t \in Tasks, SettleUndispatched(t)
    PROVE  Steady
<1>1. PICK k \in TaskType : /\ k = task[t] /\ k.pc = "undispatched" /\ Poised(k) /\ Fit(k)
                            /\ k.run \in Runs /\ k.pc \notin Bound
  BY Current DEF SettleUndispatched, At, AllPoised, Bound, Acting, Shutting
<1>2. GoOn
  BY <1>1, RaiseGoes, IdleGoes DEF SettleUndispatched
<1>3. k.why \in RunSettlement \ ClosingSettlements
  BY <1>1 DEF Fit, Poised, WritesSettlement
<1>4. Harmless(k.run) /\ UNCHANGED gateway
  BY <1>1, <1>3 DEF SettleUndispatched, Harmless
<1> QED
  BY <1>1, <1>2, <1>4, HarmlessSteady

\* So is a mention's run that nobody claimed (_settle_orphaned_mention_runs).
LEMMA SettleOrphanSteady ==
    ASSUME Inv, [Next]_vars, AllPoised, NEW t \in Tasks, SettleOrphan(t)
    PROVE  Steady
<1>1. PICK k \in TaskType : /\ k = task[t] /\ k.pc = "orphan" /\ k.run \in Runs /\ Poised(k)
                            /\ k.pc \notin Bound
  BY Current DEF SettleOrphan, At, AllPoised, Bound, Acting, Shutting
<1>2. PICK n : n = [k EXCEPT !.pc = "undispatched", !.read = status[k.run], !.why = "ORPHANED"]
               /\ Become(t, n)
  BY <1>1 DEF SettleOrphan
<1>3. n.pc = "undispatched" /\ n.why = "ORPHANED" /\ n.then = k.then
  BY <1>2 DEF TaskType
<1>4. Poised(n)'
  BY <1>1, <1>3, OnlyBound DEF Poised, Shutting, ClosingSettlements
<1>5. GoOn
  BY <1>1, <1>2, <1>4, FreeGoes
<1>6. Harmless(k.run) /\ UNCHANGED gateway
  BY DEF SettleOrphan, Harmless
<1> QED
  BY <1>1, <1>5, <1>6, HarmlessSteady

\* Settling (_settle_run): taken, it goes on to discard and expire; refused, back to the turn.
LEMMA SettleSteady ==
    ASSUME Inv, [Next]_vars, AllPoised, NEW t \in Tasks, Settle(t)
    PROVE  Steady
<1>1. PICK k \in TaskType : k = task[t] /\ k.pc = "settle" /\ Poised(k) /\ Fit(k) /\ k.run \in Runs
  BY Current DEF Settle, At, AllPoised
<1>2. Comes(k) <=> k.then = "resume"
  BY <1>1 DEF Comes
<1>3. \A c \in Calls : ~Shuts(k, c)
  BY <1>1 DEF Shuts
<1>4. UNCHANGED gateway
  BY DEF Settle
<1>5. ASSUME NEW n, Become(t, n), Settled(k.run)',
             n = [k EXCEPT !.pc = "discard", !.held = NoLease, !.read = None, !.why = None]
      PROVE  GoOn /\ task'[t].run = k.run /\ task'[t].pc = "discard" /\ task'[t].why # "APPROVAL_REFUSED"
  <2>1. n.pc = "discard" /\ n.run = k.run /\ n.why = None /\ n.via = k.via /\ n.then = k.then
    BY <1>5 DEF TaskType
  <2>2. Poised(n)'
    BY <1>1, <1>5, <2>1 DEF Poised, Shutting, Back
  <2>3. GoOn
    BY <1>1, <1>2, <1>3, <1>5, <2>1, <2>2, OneGoes DEF Comes
  <2>4. task'[t] = n
    BY <1>5, Current DEF Become
  <2>5. None # "APPROVAL_REFUSED"
    BY NoneIsApart DEF RunSettlement
  <2> QED
    BY <2>1, <2>3, <2>4, <2>5
<1>6. CASE k.read \in TERMINAL_EXECUTION_STATUSES /\ SettleOnly(k.run, k.why)
           /\ Become(t, [k EXCEPT !.pc = "discard", !.held = NoLease, !.read = None, !.why = None])
  <2>1. Settled(k.run)
    BY <1>1, <1>6 DEF Fit, Inv, LedgerInv, Coherent
  <2>2. Settled(k.run)'
    BY <1>1, <2>1, RunsStand
  <2>3. Harmless(k.run)
    BY <1>6, <2>1 DEF Harmless
  <2> QED
    BY <1>1, <1>4, <1>5, <1>6, <2>2, <2>3, HarmlessSteady
<1>7. CASE Terminalize(k.run, FinalStatus(k.why), k.why)
           /\ Become(t, [k EXCEPT !.pc = "discard", !.held = NoLease, !.read = None, !.why = None])
  <2>1. Settled(k.run)'
    BY <1>1, <1>7 DEF Terminalize, SettleEnvelope, Settled, Inv, LedgerInv, LedgerTypeOK
  <2>2. GoOn /\ task'[t].run = k.run /\ task'[t].pc = "discard" /\ task'[t].why # "APPROVAL_REFUSED"
    BY <1>5, <1>7, <2>1
  <2> QED
    BY <1>1, <1>4, <1>7, <2>2, ClosingSteady DEF gateway
<1>8. CASE UNCHANGED ledger /\ Become(t, AfterSettle([k EXCEPT !.held = NoLease]))
  <2>1. PICK j : j = [k EXCEPT !.held = NoLease]
    OBVIOUS
  <2>2. j \in TaskType /\ j.run = k.run /\ j.then = k.then /\ j.via = k.via
    BY <2>1 DEF TaskType, NoLease
  <2>3. PICK n : n = AfterSettle(j) /\ Become(t, n)
    BY <1>8, <2>1
  <2>4. Poised(n)' /\ (k.then = "resume" => n.run = k.run /\ Comes(n))
    BY <1>1, <2>2, <2>3, AfterSettlePoised DEF Poised
  <2>5. GoOn
    BY <1>1, <1>2, <1>3, <2>3, <2>4, OneGoes
  <2>6. Harmless(k.run)
    BY <1>8 DEF Harmless
  <2> QED
    BY <1>1, <1>4, <2>5, <2>6, HarmlessSteady
<1> QED
  BY <1>1, <1>6, <1>7, <1>8 DEF Settle

\* Discarding the suspended turn of a settled run takes nothing from one that is held.
LEMMA DiscardSteady ==
    ASSUME Inv, [Next]_vars, AllPoised, NEW t \in Tasks, Discard(t)
    PROVE  Steady
<1>1. PICK k \in TaskType : k = task[t] /\ k.pc = "discard" /\ Poised(k) /\ k.run \in Runs
  BY Current DEF Discard, At, AllPoised
<1>2. Settled(k.run)'
  <2>1. Settled(k.run)
    BY <1>1 DEF Poised, Shutting
  <2> QED
    BY <1>1, <2>1, RunsStand
<1>3. suspended' = suspended \ {k.run} /\ UNCHANGED <<called, approval, request>> /\ UNCHANGED ledger
  BY <1>1 DEF Discard
<1>4. CASE k.why = "APPROVAL_REFUSED" /\ Become(t, Idle)
  <2>1. \A c \in Calls : ~Shuts(k, c)
    BY <1>1, <1>4 DEF Shuts
  <2> QED
    <3>1. GoOn
      BY <1>1, <1>2, <1>4, <2>1, IdlePoised, OneGoes
    <3>2. HoldsStay /\ SettlersShut
      BY <1>2, <1>3 DEF HoldsStay, SettlersShut, Open, ledger
    <3> QED
      BY <1>3, <3>1, <3>2, SameCalls DEF Steady
<1>5. CASE Become(t, [k EXCEPT !.pc = "list"])
  <2>1. PICK n : n = [k EXCEPT !.pc = "list"] /\ Become(t, n)
    BY <1>5
  <2>2. n.pc = "list" /\ n.run = k.run /\ n.via = k.via /\ n.then = k.then
    BY <2>1 DEF TaskType
  <2>3. Poised(n)'
    BY <1>1, <1>2, <2>2 DEF Poised, Shutting, Back
  <2>4. \A c \in Calls : Shuts(k, c) => Shuts(n, c)'
    BY <1>3, <2>2 DEF Shuts
  <2>5. GoOn
    BY <1>1, <1>2, <2>1, <2>3, <2>4, OneGoes
  <2>6. HoldsStay /\ SettlersShut
    BY <1>2, <1>3 DEF HoldsStay, SettlersShut, Open, ledger
  <2> QED
    BY <1>3, <2>5, <2>6, SameCalls DEF Steady
<1> QED
  BY <1>1, <1>4, <1>5 DEF Discard, Goto

\* The list of what is to be expired misses nothing that is asked ...
LEMMA ListPendingSteady ==
    ASSUME Inv, [Next]_vars, AllPoised, NEW t \in Tasks, ListPending(t)
    PROVE  Steady
<1>1. PICK k \in TaskType : k = task[t] /\ k.pc = "list" /\ Poised(k) /\ k.run \in Runs
  BY Current DEF ListPending, At, AllPoised
<1>2. Settled(k.run)'
  <2>1. Settled(k.run)
    BY <1>1 DEF Poised, Shutting
  <2> QED
    BY <1>1, <2>1, RunsStand
<1>3. UNCHANGED gateway /\ Harmless(k.run)
  BY DEF ListPending, Harmless
<1>4. PICK n : /\ Become(t, n)
               /\ n = [k EXCEPT !.pc = "expire",
                                !.seen = {c \in Calls : called[c] = k.run /\ approval[c] = "PENDING"}]
  BY <1>1 DEF ListPending
<1>5. /\ n.pc = "expire" /\ n.run = k.run /\ n.via = k.via /\ n.then = k.then
      /\ n.seen = {c \in Calls : called[c] = k.run /\ approval[c] = "PENDING"}
  BY <1>4 DEF TaskType
<1>6. \A c \in n.seen : called'[c] = k.run
  BY <1>3, <1>5 DEF gateway
<1>7. Poised(n)'
  BY <1>1, <1>2, <1>5, <1>6 DEF Poised, Shutting, Back
<1>8. \A c \in Calls : Shuts(k, c) /\ Asks(c)' => Shuts(n, c)'
  BY <1>3, <1>5 DEF Shuts, Asks, gateway
<1>9. GoOn
  BY <1>1, <1>2, <1>4, <1>7, <1>8, OneGoes
<1> QED
  BY <1>1, <1>3, <1>9, HarmlessSteady

\* ... and what was not decided since is expired.
LEMMA ExpireUndecidedSteady ==
    ASSUME Inv, DriverInv, [Next]_vars, AllPoised, NEW t \in Tasks, ExpireUndecided(t)
    PROVE  Steady
<1>1. PICK k \in TaskType : k = task[t] /\ k.pc = "expire" /\ Poised(k) /\ k.run \in Runs
  BY Current DEF ExpireUndecided, At, AllPoised
<1>2. Settled(k.run)'
  <2>1. Settled(k.run)
    BY <1>1 DEF Poised, Shutting
  <2> QED
    BY <1>1, <2>1, RunsStand
<1>3. PICK j : j = [k EXCEPT !.seen = {}] /\ Become(t, AfterSettle(j))
  BY <1>1 DEF ExpireUndecided
<1>4. j \in TaskType /\ j.run = k.run /\ j.then = k.then /\ j.via = k.via
  BY <1>3 DEF TaskType
<1>5. PICK n : n = AfterSettle(j) /\ Become(t, n)
  BY <1>3
<1>6. Poised(n)'
  BY <1>1, <1>4, <1>5, AfterSettlePoised DEF Poised
<1>7. /\ approval' = [c \in Calls |-> IF c \in StillUndecided(k.seen) THEN "EXPIRED" ELSE approval[c]]
      /\ request' = [c \in Calls |-> IF c \in StillUndecided(k.seen) /\ Gates(c) THEN "REJECTED"
                                                                                 ELSE request[c]]
      /\ UNCHANGED <<called, suspended>> /\ UNCHANGED ledger
  BY <1>1 DEF ExpireUndecided
<1>8. \A c \in Calls : ~(Shuts(k, c) /\ Asks(c)')
  BY <1>1, <1>7 DEF Shuts, Asks, StillUndecided
<1>9. GoOn
  BY <1>1, <1>2, <1>5, <1>6, <1>8, OneGoes
<1>10. HoldsStay /\ SettlersShut
  <2>1. Harmless(k.run) /\ UNCHANGED suspended
    BY <1>7 DEF Harmless
  <2> QED
    BY <1>1, <2>1, HarmlessHolds
<1>11. NoNewQuestion
  BY ExpireUndecidedCalm DEF Calm
<1>12. Decided
  <2>1. ASSUME NEW c \in Calls, Asks(c) PROVE (Asks(c)' /\ called'[c] = called[c]) \/ Settled(called[c])'
    <3>1. CASE c \in k.seen
      <4>1. called'[c] = k.run
        BY <1>1, <1>7, <3>1 DEF Poised
      <4> QED
        BY <1>2, <4>1 DEF Settled
    <3>2. CASE c \notin k.seen
      BY <1>7, <2>1, <3>2 DEF Asks, Gates, StillUndecided
    <3> QED
      BY <3>1, <3>2
  <2> QED
    BY <2>1 DEF Decided
<1> QED
  BY <1>9, <1>10, <1>11, <1>12 DEF Steady

\* A cancellation that takes goes on like a settlement (cancel_execution).
LEMMA CommitCancelSteady ==
    ASSUME Inv, [Next]_vars, AllPoised, NEW t \in Tasks, CommitCancel(t)
    PROVE  Steady
<1>1. PICK k \in TaskType : k = task[t] /\ k.pc = "cancel" /\ k.run \in Runs /\ k.pc \notin Bound
  BY Current DEF CommitCancel, At, Bound, Acting, Shutting
<1>2. UNCHANGED gateway
  BY DEF CommitCancel
<1>3. CASE UNCHANGED ledger /\ Become(t, Idle)
  <2>1. Harmless(k.run)
    BY <1>3 DEF Harmless
  <2> QED
    BY <1>1, <1>2, <1>3, <2>1, IdleGoes, HarmlessSteady
<1>4. CASE /\ Terminalize(k.run, "CANCELLED", "CANCELLED")
           /\ Become(t, [Idle EXCEPT !.pc = "discard", !.run = k.run])
  <2>1. PICK n : n = [Idle EXCEPT !.pc = "discard", !.run = k.run] /\ Become(t, n)
    BY <1>4
  <2>2. n.pc = "discard" /\ n.run = k.run /\ n.why = None /\ n.then = None
    BY <2>1 DEF Idle
  <2>3. Settled(k.run)'
    BY <1>1, <1>4 DEF Terminalize, SettleEnvelope, Settled, Inv, LedgerInv, LedgerTypeOK
  <2>4. Poised(n)'
    BY <2>2, <2>3, NullAssumption DEF Poised, Shutting
  <2>5. GoOn
    BY <1>1, <2>1, <2>4, FreeGoes
  <2>6. task'[t] = n /\ None # "APPROVAL_REFUSED"
    BY <2>1, Current, NoneIsApart DEF Become, RunSettlement
  <2> QED
    BY <1>1, <1>2, <1>4, <2>2, <2>5, <2>6, ClosingSteady DEF gateway
<1> QED
  BY <1>1, <1>3, <1>4 DEF CommitCancel

\* An update that arrived out of band may move the run off its reviewer's lease
\* (record_session_update).
LEMMA RecordUpdateSteady ==
    ASSUME Inv, [Next]_vars, AllPoised, NEW t \in Tasks, RecordUpdate(t)
    PROVE  Steady
<1>1. PICK k \in TaskType : /\ k = task[t] /\ k.pc = "update" /\ Poised(k) /\ k.run \in Runs
                            /\ k.pc \notin Bound
  BY Current DEF RecordUpdate, At, AllPoised, Bound, Acting, Shutting
<1>2. updates > 0 /\ UNCHANGED updates
  BY <1>1 DEF Poised, RecordUpdate, bounds
<1>3. GoOn
  BY <1>1, IdleGoes DEF RecordUpdate
<1>4. Harmless(k.run) /\ UNCHANGED gateway
  BY <1>1, <1>2 DEF RecordUpdate, Harmless
<1> QED
  BY <1>1, <1>3, <1>4, HarmlessSteady

\* A pause swaps the status of its run and nothing else.
LEMMA CommitPauseSteady ==
    ASSUME Inv, [Next]_vars, AllPoised, NEW t \in Tasks, NEW to \in {"PAUSED", "RUNNING"}, CommitPause(t, to)
    PROVE  Steady
<1>1. task[t].pc \notin Bound /\ task[t].run \in Runs
  BY Current DEF CommitPause, At, Bound, Acting, Shutting
<1>2. GoOn
  BY <1>1, IdleGoes DEF CommitPause
<1>3. Harmless(task[t].run) /\ UNCHANGED gateway
  BY DEF CommitPause, Harmless
<1> QED
  BY <1>1, <1>2, <1>3, HarmlessSteady

\* Everything a handler does, but leave its run with a reviewer.
LEMMA ProceedSteady ==
    ASSUME Inv, DriverInv, [Next]_vars, AllPoised, NEW t \in Tasks, Proceed(t),
           \A c \in Calls : ~GateSuspends(t, c)
    PROVE  Steady
BY StepSteady, ClaimSteady, NewSessionSteady, MarkRunningSteady, ProviderFailsSteady, ProviderAnswersSteady,
   RenewLeaseSteady, FinishSteady, WithoutAnswerSteady, GateDeniesSteady, GateAllowsSteady,
   RunToolSteady, ResolveCallSteady, ParkIfSpentSteady, AdvanceApprovedSteady, DenyApprovedSteady,
   ResumeSuspendedTurnSteady, UnresumableSteady, SettleUndispatchedSteady, SettleOrphanSteady,
   SettleSteady, DiscardSteady, ListPendingSteady, ExpireUndecidedSteady, CommitCancelSteady,
   RecordUpdateSteady, CommitPauseSteady DEF Proceed
-----------------------------------------------------------------------------
(* The doors.                                                                   *)

\* An idle task takes something up, at an await that counts on nothing, or on an update
\* that has been counted.
LEMMA StartGoes ==
    ASSUME Inv, [Next]_vars, AllPoised, NEW t \in Tasks, At(t, "idle"), NEW n, Become(t, n),
           n.pc \notin Bound \cup {"undispatched"}, n.pc = "update" => updates' > 0, n.then = None
    PROVE  GoOn
<1>1. Poised(n)'
  BY NullAssumption DEF Poised, Bound, Acting, Shutting
<1>2. task[t].pc \notin Bound
  BY DEF At, Bound, Acting, Shutting
<1> QED
  BY <1>1, <1>2, FreeGoes

\* An entrance, a cancellation, a pause and an update only start a handler.
LEMMA StartsSteady ==
    ASSUME Inv, [Next]_vars, AllPoised, NEW t \in Tasks, NEW e \in Runs,
           \/ \E via \in {"route", "mention", "task"} : EnterTurn(t, e, via)
           \/ Cancel(t, e) \/ ReceiveUpdate(t, e)
           \/ \E to \in {"PAUSED", "RUNNING"} : Pause(t, e, to)
    PROVE  Steady
<1>1. PICK n : /\ Become(t, n) /\ At(t, "idle")
               /\ \/ \E via : n = [Idle EXCEPT !.pc = "enter", !.run = e, !.via = via, !.first = TRUE]
                  \/ /\ \E pc \in {"cancel", "pause", "unpause"} :
                            n = [Idle EXCEPT !.pc = pc, !.run = e, !.read = status[e]]
                  \/ /\ n = [Idle EXCEPT !.pc = "update", !.run = e, !.read = status[e]]
                     /\ updates' = updates + 1
  BY DEF EnterTurn, Cancel, ReceiveUpdate, Pause, Starts
<1>2. n.pc \in {"enter", "cancel", "pause", "unpause", "update"} /\ n.then = None
  BY <1>1 DEF Idle
<1>3. n.pc = "update" => updates' > 0
  <2>1. n.pc = "update" => updates' = updates + 1
    BY <1>1 DEF Idle
  <2> QED
    BY <2>1, CountsGrow
<1>4. GoOn
  BY <1>1, <1>2, <1>3, StartGoes DEF Bound, Acting, Shutting
<1>5. Harmless(e) /\ UNCHANGED gateway
  BY DEF EnterTurn, Cancel, ReceiveUpdate, Pause, Harmless
<1> QED
  BY <1>4, <1>5, HarmlessSteady

\* A removal settles the run, takes its suspended turn and goes on to expire what it
\* asked (remove_agent_from_room).
LEMMA RemoveAgentSteady ==
    ASSUME Inv, [Next]_vars, AllPoised, NEW t \in Tasks, NEW e \in Runs, RemoveAgent(t, e)
    PROVE  Steady
<1>1. Terminalize(e, "CANCELLED", "AGENT_REMOVED")
  BY DEF RemoveAgent, Open, Inv, LedgerInv, Coherent
<1>2. PICK n : n = [Idle EXCEPT !.pc = "list", !.run = e] /\ Become(t, n)
  BY DEF RemoveAgent
<1>3. n.pc = "list" /\ n.run = e /\ n.then = None
  BY <1>2 DEF Idle
<1>4. Settled(e)'
  BY <1>1 DEF Terminalize, SettleEnvelope, Settled, Inv, LedgerInv, LedgerTypeOK
<1>5. Poised(n)'
  BY <1>3, <1>4, NullAssumption DEF Poised, Shutting
<1>6. GoOn
  <2>1. task[t].pc \notin Bound
    BY DEF RemoveAgent, At, Bound, Acting, Shutting
  <2> QED
    BY <1>2, <1>5, <2>1, FreeGoes
<1>7. task'[t] = n
  BY <1>2, Current DEF Become
<1>8. /\ UNCHANGED <<called, approval, request>>
      /\ suspended' \subseteq suspended /\ suspended \subseteq suspended' \cup {e}
  BY DEF RemoveAgent
<1> QED
  BY <1>1, <1>3, <1>6, <1>7, <1>8, ClosingSteady

\* The sweep starts a settlement that comes back to nothing (sweep_expired_run_leases),
LEMMA SweepSteady ==
    ASSUME Inv, [Next]_vars, AllPoised, NEW t \in Tasks, NEW e \in Runs, Sweep(t, e)
    PROVE  Steady
<1>1. PICK k : k = [Idle EXCEPT !.run = e]
  OBVIOUS
<1>2. k \in TaskType
  BY <1>1, NoneIsApart DEF TaskType, Idle, NoLease, PCs, Entrances, Excuses
<1>3. task[t].pc \notin Bound
  BY DEF Sweep, At, Bound, Acting, Shutting
<1>4. GoOn
  BY <1>1, <1>2, <1>3, NullAssumption, SettleRunGoes DEF Sweep
<1>5. Harmless(e) /\ UNCHANGED gateway
  BY DEF Sweep, Harmless
<1> QED
  BY <1>4, <1>5, HarmlessSteady

\* and so does a process that comes up and finds a run nobody claimed.
LEMMA ListOrphanSteady ==
    ASSUME Inv, [Next]_vars, AllPoised, NEW t \in Tasks, NEW e \in Runs, ListOrphan(t, e)
    PROVE  Steady
<1>1. PICK n : n = [Idle EXCEPT !.pc = "orphan", !.run = e] /\ Become(t, n)
  BY DEF ListOrphan
<1>2. n.pc = "orphan" /\ n.then = None
  BY <1>1 DEF Idle
<1>3. GoOn
  BY <1>1, <1>2, StartGoes DEF ListOrphan, Bound, Acting, Shutting
<1>4. Harmless(e) /\ UNCHANGED gateway
  BY DEF ListOrphan, Harmless
<1> QED
  BY <1>3, <1>4, HarmlessSteady

\* A grant answers the question of one run; its task is on the way to the turn
\* (approve_action).
LEMMA ApproveSteady ==
    ASSUME Inv, DriverInv, [Next]_vars, AllPoised, NEW t \in Tasks, NEW c \in Calls, Approve(t, c)
    PROVE  Steady
<1>1. PICK e \in Runs : e = called[c]
  BY ReviewedRun DEF Approve
<1>2. HoldsStay /\ SettlersShut
  <2>1. Harmless(e) /\ UNCHANGED suspended
    BY DEF Approve, Harmless
  <2> QED
    BY <2>1, HarmlessHolds
<1>3. UNCHANGED <<called, request>> /\ approval' = [approval EXCEPT ![c] = "APPROVED"]
  BY DEF Approve
<1>4. NoNewQuestion /\ \A d \in Calls : d # c /\ Asks(d) => Asks(d)' /\ called'[d] = called[d]
  BY <1>3 DEF NoNewQuestion, Asks, Gates, Inv, TypeOK
<1>5. CASE ~Gates(c)
  <2>1. GoOn
    BY <1>5, NobodyGoes DEF Approve
  <2>2. Decided
    BY <1>4, <1>5 DEF Decided, Asks
  <2> QED
    BY <1>2, <1>4, <2>1, <2>2 DEF Steady
<1>6. CASE Gates(c)
  <2>1. PICK n : n \in {[[Idle EXCEPT !.run = e, !.call = c, !.via = "review"] EXCEPT !.pc = pc] :
                            pc \in {"advance", "deny"}} /\ Become(t, n)
    BY <1>1, <1>6 DEF Approve
  <2>2. n.pc \in {"advance", "deny"} /\ n.run = e /\ n.call = c /\ n.via = "review" /\ n.then = None
    BY <2>1 DEF Idle
  <2>3. approval'[c] = "APPROVED"
    BY <1>3 DEF Inv, TypeOK
  <2>4. Poised(n)'
    BY <2>2, <2>3, NullAssumption DEF Poised, Shutting
  <2>5. task[t].pc \notin Bound
    BY DEF Approve, At, Bound, Acting, Shutting
  <2>6. GoOn
    BY <2>1, <2>4, <2>5, FreeGoes
  <2>7. task'[t] = n
    BY <2>1, Current DEF Become
  <2>8. Coming(t, called[c])'
    BY <1>1, <1>3, <2>2, <2>7 DEF Coming, Comes
  <2>9. Decided
    BY <1>4, <2>8 DEF Decided
  <2> QED
    BY <1>2, <1>4, <2>6, <2>9 DEF Steady
<1> QED
  BY <1>5, <1>6

\* A refusal answers it too: its task comes for the turn, or the run is settled
\* (reject_action).
LEMMA RejectSteady ==
    ASSUME Inv, DriverInv, [Next]_vars, AllPoised, NEW t \in Tasks, NEW c \in Calls,
           NEW continue_turn \in BOOLEAN, Reject(t, c, continue_turn)
    PROVE  Steady
<1>1. PICK e \in Runs : e = called[c] /\ Exists(e)
  BY ReviewedRun DEF Reject
<1>2. /\ UNCHANGED <<called, suspended>> /\ approval' = [approval EXCEPT ![c] = "REJECTED"]
      /\ request' = [request EXCEPT ![c] = IF Gates(c) THEN "REJECTED" ELSE @]
  BY DEF Reject
<1>3. /\ \A d \in Calls : Asks(d)' => Asks(d) /\ called'[d] = called[d] /\ d # c
      /\ \A d \in Calls : d # c /\ Asks(d) => Asks(d)' /\ called'[d] = called[d]
  BY <1>2 DEF Asks, Gates, Inv, TypeOK
<1>4. NoNewQuestion
  BY <1>3 DEF NoNewQuestion
<1>5. task[t].pc \notin Bound
  BY DEF Reject, At, Bound, Acting, Shutting
<1>6. CASE ~Gates(c)
  <2>1. GoOn
    BY <1>6, NobodyGoes DEF Reject
  <2>2. Decided
    BY <1>3, <1>6 DEF Decided, Asks
  <2>3. Harmless(e)
    BY <1>6 DEF Reject, Harmless
  <2> QED
    BY <1>2, <1>4, <2>1, <2>2, <2>3, HarmlessHolds DEF Steady
<1>7. CASE Gates(c) /\ continue_turn
  <2>1. PICK n : n = [[Idle EXCEPT !.run = e, !.via = "review"] EXCEPT !.pc = "resume"] /\ Become(t, n)
    BY <1>1, <1>7 DEF Reject
  <2>2. n.pc = "resume" /\ n.run = e /\ n.via = "review" /\ n.then = None
    BY <2>1 DEF Idle
  <2>3. Poised(n)'
    BY <2>2, NullAssumption DEF Poised, Shutting
  <2>4. GoOn
    BY <1>5, <2>1, <2>3, FreeGoes
  <2>5. Decided
    <3>1. task'[t] = n
      BY <2>1, Current DEF Become
    <3>2. Coming(t, called[c])'
      BY <1>1, <1>2, <2>2, <3>1 DEF Coming, Comes
    <3> QED
      BY <1>3, <3>2 DEF Decided
  <2>6. UNCHANGED ledger \/ Advance(e, "STREAMING")
    BY <1>1, <1>7 DEF Reject
  <2>7. \A f \in Runs \ {e} : harness'[f] = harness[f]
    BY <2>6 DEF Advance, ledger, Inv, LedgerInv, LedgerTypeOK
  <2>8. \A d \in Calls : Asks(d)' => called[d] # e
    BY <1>1, <1>3, <1>7 DEF DriverInv, OneQuestion, Asks, Reject
  <2>9. HoldsStay /\ SettlersShut
    BY <1>2, <2>6, <2>7, <2>8 DEF HoldsStay, SettlersShut, Advance, ledger
  <2> QED
    BY <1>4, <2>4, <2>5, <2>9 DEF Steady
<1>8. CASE Gates(c) /\ ~continue_turn
  <2>1. PICK n : /\ n = [[Idle EXCEPT !.run = e, !.via = "review"]
                                 EXCEPT !.pc = "discard", !.why = "APPROVAL_REFUSED"]
                 /\ Become(t, n)
    BY <1>1, <1>8 DEF Reject
  <2>2. n.pc = "discard" /\ n.then = None
    BY <2>1 DEF Idle
  <2>3. Harmless(e) /\ Settled(n.run)'
    <3>1. n.run = e
      BY <2>1 DEF Idle
    <3>2. CASE Settled(e)
      BY <1>1, <1>8, <3>1, <3>2, RunsStand DEF Reject, Open, Harmless
    <3>3. CASE ~Settled(e)
      <4>1. Terminalize(e, "CANCELLED", "APPROVAL_REFUSED")
        BY <1>1, <1>8, <3>3 DEF Reject, Open, Inv, LedgerInv, Coherent
      <4>2. "APPROVAL_REFUSED" \in RunSettlement \ ClosingSettlements
        BY DEF RunSettlement, ClosingSettlements
      <4>3. Settled(e)'
        BY <4>1 DEF Terminalize, SettleEnvelope, Settled, Inv, LedgerInv, LedgerTypeOK
      <4>4. Harmless(e)
        BY <4>1, <4>2 DEF Harmless
      <4> QED
        BY <3>1, <4>3, <4>4
    <3> QED
      BY <3>2, <3>3
  <2>4. Poised(n)'
    BY <2>2, <2>3, NullAssumption DEF Poised, Shutting
  <2>5. GoOn
    BY <1>5, <2>1, <2>4, FreeGoes
  <2>6. Settled(e)'
    BY <2>1, <2>3 DEF Idle
  <2>7. Decided
    BY <1>1, <1>2, <1>3, <2>6 DEF Decided, Settled
  <2> QED
    BY <1>2, <1>4, <2>3, <2>5, <2>7, HarmlessHolds DEF Steady
<1> QED
  BY <1>6, <1>7, <1>8

\* A death excuses its task from what it was on the way to do.
LEMMA DeadGoes ==
    ASSUME Inv, [Next]_vars, AllPoised, NEW t \in Tasks, NEW n, Become(t, n), Poised(n)', crashes' > 0
    PROVE  GoOn
<1>1. PICK k : k = task[t]
  OBVIOUS
<1> QED
  BY <1>1, OneGoes

\* It leaves the run as it is,
LEMMA DieSteady ==
    ASSUME Inv, [Next]_vars, AllPoised, NEW t \in Tasks, Die(t)
    PROVE  Steady
<1>1. PICK k \in TaskType : k = task[t] /\ Poised(k) /\ k.run \in Runs
  BY Current DEF AllPoised, Die
<1>2. crashes' > 0
  BY CountsGrow DEF Die
<1>3. ASSUME Become(t, Idle) PROVE GoOn
  BY <1>2, <1>3, IdlePoised, DeadGoes
<1>4. ASSUME k.via = "task", Raise(t, "domain") PROVE GoOn
  <2>1. PICK n : n = AfterRaise(k, "domain", status'[k.run]) /\ Become(t, n)
    BY <1>1, <1>4 DEF Raise
  <2>2. k.then # "resume"
    BY <1>1, <1>4 DEF Poised
  <2>3. Poised(n)'
    BY <2>1, <2>2, AfterRaisePoised
  <2> QED
    BY <1>2, <2>1, <2>3, DeadGoes
<1>5. Harmless(k.run) /\ UNCHANGED gateway
  BY DEF Die, Harmless
<1>6. Become(t, Idle) \/ (k.via = "task" /\ Raise(t, "domain"))
  BY <1>1 DEF Die
<1>7. GoOn
  BY <1>3, <1>4, <1>6
<1> QED
  BY <1>1, <1>5, <1>7, HarmlessSteady

\* and so does a restart; nothing else that happens around the handlers touches them.
LEMMA EnvironmentSteady ==
    ASSUME Inv, DriverInv, [Next]_vars, AllPoised, Environment
    PROVE  Steady
<1>1. ASSUME NEW e \in Runs,
             \/ OpenRun(e) \/ Withdraw(e) \/ LeaseExpires(e)
             \/ \E previous \in Runs : ResumeAgentRun(previous, e)
      PROVE  Steady
  <2>1. UNCHANGED task /\ UNCHANGED gateway /\ Harmless(e)
    BY <1>1 DEF OpenRun, Withdraw, LeaseExpires, ResumeAgentRun, Harmless
  <2> QED
    BY <2>1, NobodyGoes, HarmlessSteady
<1>2. ASSUME NEW c \in Calls, NEW e \in Runs, RequestApproval(c, e) PROVE Steady
  <2>1. UNCHANGED task /\ UNCHANGED suspended /\ Harmless(e)
    BY <1>2 DEF RequestApproval, Harmless
  <2>2. ~Asks(c)
    BY <1>2, UnusedIsBlank DEF RequestApproval
  <2>3. Decided
    BY <1>2, <2>2 DEF RequestApproval, Decided, Asks, Gates, Inv, TypeOK
  <2>4. NoNewQuestion
    BY EnvironmentCalm DEF Calm
  <2> QED
    BY <2>1, <2>3, <2>4, NobodyGoes, HarmlessHolds DEF Steady
<1>3. CASE Restart
  <2>1. crashes' > 0
    BY <1>3, CountsGrow DEF Restart
  <2>2. \A u \in Tasks : task'[u] = Idle
    BY <1>3 DEF Restart
  <2>3. GoOn
    <3>1. PICK n : n = Idle /\ Poised(n)'
      BY IdlePoised
    <3>2. \A u \in Tasks : Poised(task[u])'
      BY <2>2, <3>1 DEF Poised
    <3> QED
      BY <2>1, <3>2 DEF GoOn
  <2>4. UNCHANGED gateway /\ UNCHANGED ledger
    BY <1>3 DEF Restart
  <2>5. HoldsStay /\ SettlersShut
    BY <2>4 DEF HoldsStay, SettlersShut, ledger, gateway
  <2> QED
    BY <2>3, <2>4, <2>5, SameCalls DEF Steady, gateway
<1> QED
  BY <1>1, <1>2, <1>3 DEF Environment

\* All that the service does, but leave a run with a reviewer.
LEMMA NextSteady ==
    ASSUME Inv, DriverInv, [Next]_vars, AllPoised,
           \A t \in Tasks : \A c \in Calls : ~GateSuspends(t, c)
    PROVE  Steady
<1>1. CASE UNCHANGED vars
  <2>1. UNCHANGED task /\ UNCHANGED gateway /\ UNCHANGED ledger
    BY <1>1 DEF vars
  <2>2. HoldsStay /\ SettlersShut
    BY <2>1 DEF HoldsStay, SettlersShut, ledger, gateway
  <2> QED
    BY <2>1, <2>2, NobodyGoes, SameCalls DEF Steady, gateway
<1>2. ASSUME NEW t \in Tasks, Request(t) PROVE Steady
  BY <1>2, StartsSteady, RemoveAgentSteady, ApproveSteady, RejectSteady DEF Request
<1> QED
  BY <1>1, <1>2, EnvironmentSteady, ProceedSteady, DieSteady, SweepSteady, ListOrphanSteady DEF Next

-----------------------------------------------------------------------------
(* The invariant.                                                               *)

\* A step of that kind keeps what is held, and what is on its way to be closed.
LEMMA SteadyKeeps ==
    ASSUME Inv, DriverInv, [Next]_vars, Held, Shut, Steady
    PROVE  AllPoised' /\ Held' /\ Shut'
<1> USE DEF Steady
<1>1. AllPoised'
  BY DEF GoOn, AllPoised
<1>2. \A e \in Runs : (Exists(e) => Exists(e)') /\ (Settled(e) => Settled(e)')
  BY RunsStand
<1>3. /\ suspended \subseteq Runs /\ suspended' \subseteq suspended
      /\ updates' = 0 => updates = 0
      /\ crashes' = 0 => crashes = 0
      /\ crashes > 0 => crashes' > 0
      /\ ~(crashes' > 0 /\ crashes' = 0)
  BY CountsGrow DEF HoldsStay, Inv, TypeOK
<1>4. ASSUME NEW c \in Calls, Asks(c)'
      PROVE  Asks(c) /\ called'[c] = called[c] /\ called[c] \in Runs /\ Exists(called[c])
  BY <1>4, CarriersExist DEF NoNewQuestion
<1>5. \A e \in suspended' : Exists(e)'
  BY <1>2, <1>3 DEF Held
<1>6. ASSUME NEW c \in Calls, Asks(c)', NEW e \in Runs, e = called'[c], Open(e)', updates' = 0
      PROVE  e \in suspended' /\ harness'[e] = "AWAITING_APPROVAL"
  <2>1. Asks(c) /\ e = called[c] /\ Open(e) /\ updates = 0
    BY <1>2, <1>3, <1>4, <1>6 DEF Open
  <2>2. e \in suspended /\ harness[e] = "AWAITING_APPROVAL"
    BY <2>1 DEF Held
  <2>3. \A t \in Tasks : ~Carries(t, e)
    BY <2>1 DEF DriverInv, FreeToDecide
  <2> QED
    BY <1>6, <2>1, <2>2, <2>3 DEF HoldsStay
<1>7. ASSUME NEW e \in suspended', Open(e)', crashes' = 0
      PROVE  (\E c \in Calls : called'[c] = e /\ Asks(c)') \/ \E t \in Tasks : Coming(t, e)'
  <2>1. e \in Runs /\ e \in suspended /\ Open(e) /\ crashes = 0
    BY <1>2, <1>3, <1>7 DEF Held, Open
  <2>2. ~Settled(e)'
    BY <1>7 DEF Open
  <2>3. ASSUME NEW c \in Calls, called[c] = e, Asks(c)
        PROVE  (Asks(c)' /\ called'[c] = e) \/ \E t \in Tasks : Coming(t, e)'
    <3>1. CASE called'[c] = e
      BY <2>2, <2>3, <3>1 DEF Decided, Settled, Coming
    <3>2. CASE called'[c] # e
      <4>1. called'[c] = called[c]
        BY <2>1, <2>3, NoRunAssumption, CallsStand
      <4> QED
        BY <2>3, <3>2, <4>1
    <3> QED
      BY <3>1, <3>2
  <2>4. ASSUME NEW t \in Tasks, Coming(t, e) PROVE Coming(t, e)'
    BY <1>3, <1>7, <2>1, <2>2, <2>4 DEF GoOn
  <2> QED
    BY <2>1, <2>3, <2>4 DEF Held
<1>8. Held'
  <2>1. ASSUME NEW c \in Calls, Asks(c)', Open(called[c])', updates' = 0
        PROVE  called'[c] \in suspended' /\ harness'[called'[c]] = "AWAITING_APPROVAL"
    <3>1. PICK e \in Runs : e = called'[c]
      BY <1>4, <2>1
    <3>2. Open(e)'
      BY <2>1, <3>1 DEF Open, Exists, Settled
    <3> QED
      BY <1>6, <2>1, <3>1, <3>2
  <2> QED
    BY <1>5, <1>7, <2>1 DEF Held
<1>9. Shut'
  <2>1. ASSUME NEW c \in Calls, Asks(c)', settlement'[called'[c]] \in ClosingSettlements
        PROVE  crashes' > 0 \/ \E t \in Tasks : Shuts(task[t], c)'
    <3>1. PICK e \in Runs : e = called[c] /\ e = called'[c] /\ Asks(c)
      BY <1>4, <2>1
    <3>2. CASE settlement'[e] = settlement[e]
      <4>1. crashes > 0 \/ \E t \in Tasks : Shuts(task[t], c)
        BY <2>1, <3>1, <3>2 DEF Shut
      <4> QED
        BY <1>3, <2>1, <4>1 DEF GoOn
    <3>3. CASE settlement'[e] # settlement[e]
      <4>1. PICK t \in Tasks : /\ task'[t].run = e
                               /\ \/ task'[t].pc = "discard" /\ task'[t].why # "APPROVAL_REFUSED"
                                  \/ task'[t].pc = "list"
        BY <2>1, <3>1, <3>3 DEF SettlersShut
      <4> QED
        BY <3>1, <4>1 DEF Shuts
    <3> QED
      BY <3>2, <3>3
  <2> QED
    BY <2>1 DEF Shut
<1> QED
  BY <1>1, <1>8, <1>9

\* So does the gateway when it leaves a run with a reviewer: the question, the reviewer's
\* lease and the suspended turn are there together (_handle_tool_request).
LEMMA GateSuspendsKeeps ==
    ASSUME Inv, DriverInv, [Next]_vars, AllPoised, Held, Shut,
           NEW t \in Tasks, NEW c \in Calls, GateSuspends(t, c)
    PROVE  AllPoised' /\ Held' /\ Shut'
<1>1. PICK e \in Runs : e = task[t].run /\ Exists(e) /\ Carries(t, e)
  BY Current DEF GateSuspends, At, Carries, Carrying, Turning
<1>2. task[t].pc \notin Bound
  BY DEF GateSuspends, At, Bound, Acting, Shutting
<1>3. CASE ~CanAdvance(e, None)
  <2>1. UNCHANGED ledger /\ UNCHANGED gateway /\ Raise(t, "domain")
    BY <1>1, <1>3 DEF GateSuspends
  <2>2. GoOn /\ Harmless(e)
    BY <1>2, <2>1, RaiseGoes DEF Harmless
  <2> QED
    BY <2>1, <2>2, HarmlessSteady, SteadyKeeps
<1>4. CASE CanAdvance(e, None)
  <2>1. /\ Advance(e, "AWAITING_APPROVAL") /\ Become(t, Idle)
        /\ called' = [called EXCEPT ![c] = e]
        /\ approval' = [approval EXCEPT ![c] = "PENDING"]
        /\ request' = [request EXCEPT ![c] = "PENDING_APPROVAL"]
        /\ suspended' = suspended \cup {e} /\ called[c] = NoRun
        /\ UNCHANGED updates /\ UNCHANGED crashes
    BY <1>1, <1>4 DEF GateSuspends, AfterSuspend, bounds, Unused
  <2>2. GoOn
    BY <1>2, <2>1, IdleGoes
  <2>3. AllPoised'
    BY <2>2 DEF GoOn, AllPoised
  <2>4. /\ \A d \in Calls : called'[d] = IF d = c THEN e ELSE called[d]
        /\ \A d \in Calls \ {c} : Asks(d)' <=> Asks(d)
        /\ Asks(c)'
    BY <2>1 DEF Asks, Gates, Inv, TypeOK
  <2>5. /\ harness'[e] = "AWAITING_APPROVAL"
        /\ \A f \in Runs \ {e} : harness'[f] = harness[f]
        /\ UNCHANGED status /\ UNCHANGED settlement
    BY <2>1 DEF Advance, Inv, LedgerInv, LedgerTypeOK
  <2>6. Open(e)
    BY <1>4 DEF CanAdvance
  <2>7. ASSUME NEW d \in Calls, d # c, Asks(d)
        PROVE  called[d] \in Runs /\ called[d] # e
    BY <1>1, <2>7, CarriersExist DEF DriverInv, FreeToDecide
  <2>8. \A f \in Runs : (Exists(f)' <=> Exists(f)) /\ (f # e => (Open(f)' <=> Open(f)))
    BY <2>5 DEF Exists, Open, Settled
  <2>9. \A f \in suspended' : Exists(f)'
    BY <1>1, <2>1, <2>8 DEF Held, Inv, TypeOK
  <2>10. ASSUME NEW d \in Calls, Asks(d)', Open(called[d])', updates' = 0
         PROVE  called'[d] \in suspended' /\ harness'[called'[d]] = "AWAITING_APPROVAL"
    <3>1. CASE d = c
      BY <2>1, <2>4, <2>5, <3>1
    <3>2. CASE d # c
      <4>1. PICK f \in Runs : f = called[d] /\ f = called'[d] /\ f # e /\ Asks(d)
        BY <2>4, <2>7, <2>10, <3>2
      <4>2. Open(f)
        BY <2>5, <2>10, <4>1 DEF Open, Exists, Settled
      <4> QED
        BY <2>1, <2>5, <2>10, <4>1, <4>2 DEF Held
    <3> QED
      BY <3>1, <3>2
  <2>11. ASSUME NEW f \in suspended', Open(f)', crashes' = 0
         PROVE  (\E d \in Calls : called'[d] = f /\ Asks(d)') \/ \E u \in Tasks : Coming(u, f)'
    <3>1. CASE f = e
      BY <2>4, <3>1
    <3>2. CASE f # e
      <4>1. f \in Runs /\ f \in suspended /\ Open(f) /\ crashes = 0
        BY <2>1, <2>8, <2>11, <3>2 DEF Inv, TypeOK
      <4>2. ASSUME NEW d \in Calls, called[d] = f, Asks(d) PROVE called'[d] = f /\ Asks(d)'
        BY <2>1, <2>4, <4>1, <4>2, NoRunAssumption
      <4>3. ASSUME NEW u \in Tasks, Coming(u, f) PROVE Coming(u, f)'
        <5>1. ~Settled(f)' /\ ~(crashes' > 0)
          BY <2>11 DEF Open
        <5> QED
          BY <2>2, <2>11, <4>1, <4>3, <5>1 DEF GoOn
      <4> QED
        BY <4>1, <4>2, <4>3 DEF Held
    <3> QED
      BY <3>1, <3>2
  <2>12. Held'
    BY <2>9, <2>10, <2>11 DEF Held
  <2>13. ASSUME NEW d \in Calls, Asks(d)', settlement'[called'[d]] \in ClosingSettlements
         PROVE  crashes' > 0 \/ \E u \in Tasks : Shuts(task[u], d)'
    <3>1. CASE d = c
      <4>1. settlement[e] \in ClosingSettlements
        BY <2>4, <2>5, <2>13, <3>1
      <4>2. settlement[e] = None
        BY <2>6 DEF Open, Inv, LedgerInv, Coherent
      <4>3. None \notin ClosingSettlements
        BY NoneIsApart DEF ClosingSettlements, RunSettlement
      <4> QED
        BY <4>1, <4>2, <4>3
    <3>2. CASE d # c
      <4>1. crashes > 0 \/ \E u \in Tasks : Shuts(task[u], d)
        BY <2>4, <2>5, <2>13, <3>2 DEF Shut
      <4> QED
        BY <2>1, <2>2, <2>13, <4>1 DEF GoOn
    <3> QED
      BY <3>1, <3>2
  <2>14. Shut'
    BY <2>13 DEF Shut
  <2> QED
    BY <2>3, <2>12, <2>14
<1> QED
  BY <1>3, <1>4

\* A tool that wrote had no reviewer's question, or was granted, and stays so.
LEMMA EffectsStayApproved ==
    ASSUME Inv, [Next]_vars, AllPoised, GatedEffectsApproved
    PROVE  GatedEffectsApproved'
<1>1. wrote \subseteq Calls /\ None # "PENDING"
  BY NullAssumption DEF Inv, TypeOK, ApprovalStatus
<1>2. \A c \in wrote : approval'[c] \in {None, "APPROVED"}
  <2>1. \A c \in wrote : called[c] # NoRun
    BY <1>1, NoRunAssumption DEF Inv, CarriedFacts, Owned
  <2> QED
    BY <1>1, <2>1, CallsStand DEF GatedEffectsApproved
<1>3. CASE UNCHANGED wrote
  BY <1>2, <1>3 DEF GatedEffectsApproved
<1>4. ASSUME NEW t \in Tasks, RunTool(t) PROVE GatedEffectsApproved'
  BY <1>2, <1>4 DEF RunTool, At, AllPoised, Poised, GatedEffectsApproved
<1> QED
  BY <1>3, <1>4, CallMoves DEF OpensCall, Decides

\* So the gate's invariant is kept by every step of the service,
LEMMA GateNext == Inv /\ DriverInv /\ GateInv /\ [Next]_vars => GateInv'
<1> SUFFICES ASSUME Inv, DriverInv, GateInv, [Next]_vars PROVE GateInv'
  OBVIOUS
<1>1. AllPoised' /\ Held' /\ Shut'
  <2>1. CASE \A t \in Tasks : \A c \in Calls : ~GateSuspends(t, c)
    BY <2>1, NextSteady, SteadyKeeps DEF GateInv
  <2>2. CASE \E t \in Tasks : \E c \in Calls : GateSuspends(t, c)
    BY <2>2, GateSuspendsKeeps DEF GateInv
  <2> QED
    BY <2>1, <2>2
<1>2. GatedEffectsApproved'
  BY EffectsStayApproved DEF GateInv
<1> QED
  BY <1>1, <1>2 DEF GateInv

\* and holds of a service that has opened nothing.
LEMMA GateInit == Init => GateInv
<1> SUFFICES ASSUME Init PROVE GateInv
  OBVIOUS
<1>1. AllPoised
  <2>1. Idle.pc = "idle" /\ Idle.then = None
    BY DEF Idle
  <2>2. \A t \in Tasks : task[t] = Idle
    BY DEF Init
  <2> QED
    BY <2>1, <2>2, NullAssumption DEF AllPoised, Poised, Shutting
<1>2. \A c \in Calls : ~Asks(c)
  BY NullAssumption DEF Init, Asks, Gates, ApprovalStatus
<1> QED
  BY <1>1, <1>2 DEF Init, GateInv, GatedEffectsApproved, Held, Shut

\* In every behaviour of the service what handlers count on is so.
THEOREM GateSafe == Spec => [](Inv /\ GateInv)
<1>1. Inv /\ DriverInv /\ [Next]_vars => DriverInv'
  BY NextHands
<1> QED
  BY <1>1, GateInit, GateNext, DriverInit, Safe, PTL DEF Spec

\* A gated tool's effect exists only after a reviewer approved that very call, however
\* the decision, an expiry and the tool interleave (approve_action, _run_tool).
THEOREM GatedCallsApproved == Spec => []GatedEffectsApproved
<1>1. GateInv => GatedEffectsApproved
  BY DEF GateInv
<1> QED
  BY <1>1, GateSafe, PTL

\* While a run that a closing door settled has an undecided gated call, its settler is on
\* its way to expire the call, unless somebody died (_expire_undecided_approvals).
THEOREM GatesClose == Spec => []SettledGateIsClosing
<1>1. Inv /\ GateInv => SettledGateIsClosing
  BY DEF GateInv, Shut, SettledGateIsClosing, Asks, Shuts, Closes
<1> QED
  BY <1>1, GateSafe, PTL

\* A run that waits for a reviewer stands on the reviewer's lease with its turn kept, and a
\* kept turn has somebody who will come for it, as long as nobody died, which only the
\* sweep answers, and no update came out of band, which record_session_update writes as
\* STREAMING whatever the run waits for.
THEOREM HeldTurns == Spec => [](updates = 0 /\ crashes = 0 => HeldTurn)
<1>1. Inv /\ GateInv => (updates = 0 /\ crashes = 0 => HeldTurn)
  <2> SUFFICES ASSUME Inv, GateInv, updates = 0, crashes = 0, NEW e \in Runs, Open(e)
               PROVE  /\ Undecided(e) => e \in suspended /\ harness[e] = "AWAITING_APPROVAL"
                      /\ e \in suspended =>
                             Undecided(e) \/ \E t \in Tasks : task[t].run = e /\ task[t].via = "review"
    BY DEF HeldTurn
  <2>1. Undecided(e) => e \in suspended /\ harness[e] = "AWAITING_APPROVAL"
    BY DEF Undecided, GateInv, Held, Asks
  <2>2. ASSUME NEW t \in Tasks, Coming(t, e) PROVE task[t].run = e /\ task[t].via = "review"
    BY <2>2 DEF GateInv, AllPoised, Poised, Coming, Comes
  <2> QED
    BY <2>1, <2>2 DEF Undecided, GateInv, Held, Asks
<1> QED
  BY <1>1, GateSafe, PTL

-----------------------------------------------------------------------------
(***************************************************************************)
(* A call acts once.  The invariant: a call on its way to its tool, whether *)
(* the gateway let it through or a reviewer did, has had no effect and no   *)
(* answer.  It is kept because the handler that acts on a call, resolves it *)
(* or refuses it is the run's one driver, and a decision or an expiry       *)
(* touches only calls still to be decided, which nobody is acting on.       *)
(***************************************************************************)

\* The awaits at which a handler is on its way to a call's tool, or to refuse it.
Ahead == {"tool", "advance", "deny"}
Unanswered == \A t \in Tasks : task[t].pc \in Ahead =>
    task[t].call \notin wrote /\ request[task[t].call] = "PENDING_APPROVAL"

\* What most steps do: nobody comes to act on a call.
NobodyActs == \A u \in Tasks : task'[u].pc \in Ahead => task'[u] = task[u]

\* A handler that goes on to anything else acts on no call:
LEMMA GoesElsewhere ==
    ASSUME Inv, NEW t \in Tasks, NEW n, n.pc \notin Ahead, Become(t, n)
    PROVE  NobodyActs
<1>1. task \in [Tasks -> TaskType]
  BY Current
<1> QED
  BY <1>1 DEF Become, NobodyActs

\* when an exception escapes it, when it returns, or once it settled,
LEMMA Elsewhere ==
    ASSUME NEW k \in TaskType
    PROVE  /\ \A kind, found : AfterRaise(k, kind, found).pc \notin Ahead
           /\ AfterReturn(k).pc \notin Ahead /\ AfterSettle(k).pc \notin Ahead
           /\ \A pc : [k EXCEPT !.pc = pc].pc = pc
           /\ Idle.pc = "idle" /\ "idle" \notin Ahead
           /\ \A why, held, then : SettleRun(k, why, held, then).pc = "settle"
<1>1. Idle.pc = "idle" /\ "idle" \notin Ahead
  BY DEF Idle, Ahead
<1>2. \A kind, found : AfterRaise(k, kind, found).pc \notin Ahead
  <2> SUFFICES ASSUME NEW kind, NEW found PROVE AfterRaise(k, kind, found).pc \notin Ahead
    OBVIOUS
  <2>1. k.via \in Entrances
    BY DEF TaskType
  <2>2. CASE k.via = "route"
    BY <1>1, <2>2 DEF AfterRaise
  <2>3. CASE k.via = "mention"
    BY <2>3 DEF AfterRaise, TaskType, Ahead
  <2>4. CASE k.via = "task"
    BY <2>4 DEF AfterRaise, TaskType, Ahead
  <2>5. CASE k.via = "review"
    BY <2>5 DEF AfterRaise, TaskType, Ahead
  <2> QED
    BY <2>1, <2>2, <2>3, <2>4, <2>5 DEF Entrances
<1>3. AfterReturn(k).pc \notin Ahead
  BY <1>1 DEF AfterReturn, TaskType, Ahead
<1>4. AfterSettle(k).pc \notin Ahead
  BY <1>3 DEF AfterSettle, TaskType, Ahead
<1>5. \A why, held, then : SettleRun(k, why, held, then).pc = "settle"
  BY DEF SettleRun, TaskType
<1>6. \A pc : [k EXCEPT !.pc = pc].pc = pc
  BY DEF TaskType
<1> QED
  BY <1>1, <1>2, <1>3, <1>4, <1>5, <1>6

\* and so for each of those as a step of the handler.
LEMMA RaiseActs == ASSUME Inv, NEW t \in Tasks, NEW kind, Raise(t, kind) PROVE NobodyActs
BY Current, Elsewhere, GoesElsewhere DEF Raise

\* Returning from a turn brings no handler to a call,
LEMMA ReturnActs == ASSUME Inv, NEW t \in Tasks, Return(t) PROVE NobodyActs
BY Current, Elsewhere, GoesElsewhere DEF Return

\* nor does ending,
LEMMA IdleActs == ASSUME Inv, NEW t \in Tasks, Become(t, Idle) PROVE NobodyActs
BY Current, Elsewhere, GoesElsewhere

\* nor going on to another await than those,
LEMMA GotoActs ==
    ASSUME Inv, NEW t \in Tasks, NEW pc, pc \notin Ahead, Goto(t, pc) PROVE NobodyActs
<1>1. Become(t, [task[t] EXCEPT !.pc = pc])
  BY DEF Goto
<1>2. [task[t] EXCEPT !.pc = pc].pc = pc
  BY Current, Elsewhere
<1> QED
  BY <1>1, <1>2, GoesElsewhere

\* nor starting to settle the run.
LEMMA SettleActs ==
    ASSUME Inv, NEW t \in Tasks, NEW k \in TaskType, NEW why, NEW held, NEW then,
           Become(t, SettleRun(k, why, held, then))
    PROVE  NobodyActs
BY Elsewhere, GoesElsewhere DEF Ahead

\* The head of a step leads to no call,
LEMMA StepActs == ASSUME Inv, NEW t \in Tasks, Step(t) PROVE NobodyActs
<1>1. PICK k \in TaskType : k = task[t]
  BY Current
<1>2. ASSUME NEW why, NEW then,
             Become(t, [k EXCEPT !.pc = "undispatched", !.read = status[k.run], !.why = why, !.then = then])
      PROVE  NobodyActs
  <2>1. [k EXCEPT !.pc = "undispatched", !.read = status[k.run], !.why = why, !.then = then].pc \notin Ahead
    BY DEF TaskType, Ahead
  <2> QED
    BY <1>2, <2>1, GoesElsewhere
<1>3. ASSUME Become(t, [k EXCEPT !.pc = "claim", !.read = status[k.run]])
      PROVE  NobodyActs
  <2>1. [k EXCEPT !.pc = "claim", !.read = status[k.run]].pc \notin Ahead
    BY DEF TaskType, Ahead
  <2> QED
    BY <1>3, <2>1, GoesElsewhere
<1> QED
  BY <1>1, <1>2, <1>3, RaiseActs DEF Step

\* nor do the awaits up to the provider's answer,
LEMMA PromptActs ==
    ASSUME Inv, NEW t \in Tasks,
           \/ Claim(t) \/ NewSession(t) \/ MarkRunning(t) \/ ProviderFails(t) \/ Finish(t)
           \/ ProviderAnswers(t) \/ RenewLease(t) \/ WithoutAnswer(t)
    PROVE  NobodyActs
<1>1. PICK k \in TaskType : k = task[t]
  BY Current
<1>2. /\ [k EXCEPT !.pc = "begin", !.first = FALSE].pc \notin Ahead
      /\ \A e : [k EXCEPT !.pc = Prompts(e), !.read = "RUNNING"].pc \notin Ahead
      /\ \A v : [k EXCEPT !.pc = "beat", !.state = v].pc \notin Ahead
      /\ [k EXCEPT !.pc = "answer", !.state = None].pc \notin Ahead
      /\ \A e : Prompts(e) \notin Ahead
      /\ {"begin", "mark", "answer"} \cap Ahead = {}
  BY DEF TaskType, Ahead, Prompts
<1>3. CASE Claim(t)
  BY <1>1, <1>2, <1>3, RaiseActs, GotoActs, GoesElsewhere DEF Claim
<1>4. CASE NewSession(t)
  <2>1. Goto(t, IF k.run \in named THEN Prompts(k.run) ELSE "mark")
    BY <1>1, <1>4 DEF NewSession
  <2>2. (IF k.run \in named THEN Prompts(k.run) ELSE "mark") \notin Ahead
    BY <1>2
  <2> QED
    BY <2>1, <2>2, GotoActs
<1>5. CASE MarkRunning(t)
  BY <1>1, <1>2, <1>5, RaiseActs, GoesElsewhere DEF MarkRunning
<1>6. CASE ProviderFails(t) \/ Finish(t)
  BY <1>6, RaiseActs, ReturnActs DEF ProviderFails, Finish
<1>7. CASE ProviderAnswers(t)
  BY <1>1, <1>2, <1>7, GotoActs, GoesElsewhere DEF ProviderAnswers
<1>8. CASE RenewLease(t)
  BY <1>1, <1>2, <1>8, GoesElsewhere DEF RenewLease
<1>9. CASE WithoutAnswer(t)
  BY <1>1, <1>9, ReturnActs, SettleActs DEF WithoutAnswer
<1> QED
  BY <1>3, <1>4, <1>5, <1>6, <1>7, <1>8, <1>9

\* nor a call that is refused, held, resolved, or over,
LEMMA CallActs ==
    ASSUME Inv, NEW t \in Tasks,
           \/ \E c \in Calls : GateDenies(t, c) \/ GateSuspends(t, c)
           \/ RunTool(t) \/ ResolveCall(t) \/ ParkIfSpent(t) \/ DenyApproved(t)
           \/ ResumeSuspendedTurn(t)
    PROVE  NobodyActs
<1>1. PICK k \in TaskType : k = task[t]
  BY Current
<1>2. /\ \A why : [k EXCEPT !.pc = "resolve", !.why = why].pc \notin Ahead
      /\ [k EXCEPT !.pc = "resume", !.call = NoCall].pc \notin Ahead
      /\ [k EXCEPT !.pc = "unresumable", !.via = "route", !.why = "ORPHANED"].pc \notin Ahead
      /\ {"park", "enter"} \cap Ahead = {}
  BY DEF TaskType, Ahead
<1>3. ASSUME NEW c \in Calls, GateDenies(t, c) PROVE NobodyActs
  BY <1>2, <1>3, GotoActs DEF GateDenies
<1>4. ASSUME NEW c \in Calls, GateSuspends(t, c) PROVE NobodyActs
  BY <1>4, RaiseActs, IdleActs DEF GateSuspends, AfterSuspend
<1>5. CASE RunTool(t)
  BY <1>1, <1>2, <1>5, GoesElsewhere DEF RunTool
<1>6. CASE ResolveCall(t)
  <2>1. PICK d \in TaskType : d = [k EXCEPT !.call = NoCall, !.why = None]
    BY DEF TaskType
  <2>2. CASE k.why = "AUTHORITY_REVOKED"
    BY <1>1, <1>6, <2>1, <2>2, SettleActs DEF ResolveCall
  <2>3. CASE k.why # "AUTHORITY_REVOKED"
    <3>1. Become(t, AfterSettle(d))
      BY <1>1, <1>6, <2>1, <2>3 DEF ResolveCall
    <3> QED
      BY <3>1, Elsewhere, GoesElsewhere
  <2> QED
    BY <2>2, <2>3
<1>7. CASE ParkIfSpent(t)
  BY <1>1, <1>2, <1>7, GotoActs, ReturnActs, SettleActs DEF ParkIfSpent
<1>8. CASE DenyApproved(t)
  BY <1>1, <1>2, <1>8, GoesElsewhere DEF DenyApproved
<1>9. CASE ResumeSuspendedTurn(t)
  BY <1>1, <1>2, <1>9, GotoActs, GoesElsewhere DEF ResumeSuspendedTurn
<1> QED
  BY <1>3, <1>4, <1>5, <1>6, <1>7, <1>8, <1>9

\* nor a settlement,
LEMMA EndActs ==
    ASSUME Inv, NEW t \in Tasks,
           \/ Unresumable(t) \/ SettleUndispatched(t) \/ SettleOrphan(t) \/ Settle(t)
           \/ Discard(t) \/ ListPending(t) \/ ExpireUndecided(t)
           \/ CommitCancel(t) \/ RecordUpdate(t)
           \/ \E to \in {"PAUSED", "RUNNING"} : CommitPause(t, to)
    PROVE  NobodyActs
<1>1. PICK k \in TaskType : k = task[t]
  BY Current
<1>2. /\ [k EXCEPT !.pc = "discard", !.held = NoLease, !.read = None, !.why = None].pc \notin Ahead
      /\ \A r : [k EXCEPT !.pc = "undispatched", !.read = r, !.why = "ORPHANED"].pc \notin Ahead
      /\ \A q : [k EXCEPT !.pc = "expire", !.seen = q].pc \notin Ahead
      /\ [Idle EXCEPT !.pc = "discard", !.run = k.run].pc \notin Ahead
      /\ "list" \notin Ahead
  BY DEF TaskType, Ahead, Idle
<1>3. CASE Settle(t)
  <2>1. PICK d \in TaskType : d = [k EXCEPT !.held = NoLease]
    BY DEF TaskType, NoLease
  <2>2. AfterSettle(d).pc \notin Ahead
    BY Elsewhere
  <2> QED
    BY <1>1, <1>2, <1>3, <2>1, <2>2, GoesElsewhere DEF Settle
<1>4. CASE ExpireUndecided(t)
  <2>1. PICK d \in TaskType : d = [k EXCEPT !.seen = {}]
    BY DEF TaskType
  <2>2. Become(t, AfterSettle(d))
    BY <1>1, <1>4, <2>1 DEF ExpireUndecided
  <2> QED
    BY <2>2, Elsewhere, GoesElsewhere
<1>5. CASE SettleUndispatched(t)
  BY <1>5, RaiseActs, IdleActs DEF SettleUndispatched
<1>6. CASE Unresumable(t)
  BY <1>1, <1>6, IdleActs, SettleActs DEF Unresumable
<1>7. CASE SettleOrphan(t)
  BY <1>1, <1>2, <1>7, GoesElsewhere DEF SettleOrphan
<1>8. CASE Discard(t)
  BY <1>2, <1>8, IdleActs, GotoActs DEF Discard
<1>9. CASE ListPending(t)
  BY <1>1, <1>2, <1>9, GoesElsewhere DEF ListPending
<1>10. CASE CommitCancel(t)
  BY <1>1, <1>2, <1>10, IdleActs, GoesElsewhere DEF CommitCancel
<1>11. CASE RecordUpdate(t) \/ \E to \in {"PAUSED", "RUNNING"} : CommitPause(t, to)
  BY <1>11, IdleActs DEF RecordUpdate, CommitPause
<1> QED
  BY <1>3, <1>4, <1>5, <1>6, <1>7, <1>8, <1>9, <1>10, <1>11

\* nor a door, but for a reviewer's approval.
LEMMA DoorActs ==
    ASSUME Inv, NEW t \in Tasks, NEW e \in Runs,
           \/ \E via \in {"route", "mention", "task"} : EnterTurn(t, e, via)
           \/ Cancel(t, e) \/ RemoveAgent(t, e) \/ ReceiveUpdate(t, e)
           \/ \E to \in {"PAUSED", "RUNNING"} : Pause(t, e, to)
           \/ Sweep(t, e) \/ ListOrphan(t, e)
    PROVE  NobodyActs
<1>1. /\ \A pc, r : [Idle EXCEPT !.pc = pc, !.run = e, !.read = r].pc = pc
      /\ \A pc : [Idle EXCEPT !.pc = pc, !.run = e].pc = pc
      /\ \A via : [Idle EXCEPT !.pc = "enter", !.run = e, !.via = via, !.first = TRUE].pc = "enter"
      /\ {"cancel", "update", "pause", "unpause", "enter", "list", "orphan", "settle"} \cap Ahead = {}
  BY DEF Idle, Ahead
<1>2. ASSUME NEW pc \in {"cancel", "update", "pause", "unpause"}, Starts(t, e, pc) PROVE NobodyActs
  <2>1. Become(t, [Idle EXCEPT !.pc = pc, !.run = e, !.read = status[e]])
    BY <1>2 DEF Starts
  <2>2. [Idle EXCEPT !.pc = pc, !.run = e, !.read = status[e]].pc \notin Ahead
    BY <1>1
  <2> QED
    BY <2>1, <2>2, GoesElsewhere
<1>3. ASSUME NEW via, EnterTurn(t, e, via) PROVE NobodyActs
  <2>1. Become(t, [Idle EXCEPT !.pc = "enter", !.run = e, !.via = via, !.first = TRUE])
    BY <1>3 DEF EnterTurn
  <2>2. [Idle EXCEPT !.pc = "enter", !.run = e, !.via = via, !.first = TRUE].pc \notin Ahead
    BY <1>1
  <2> QED
    BY <2>1, <2>2, GoesElsewhere
<1>4. CASE Cancel(t, e) \/ ReceiveUpdate(t, e) \/ \E to \in {"PAUSED", "RUNNING"} : Pause(t, e, to)
  BY <1>2, <1>4 DEF Cancel, ReceiveUpdate, Pause
<1>5. CASE RemoveAgent(t, e) \/ ListOrphan(t, e)
  <2>1. PICK pc \in {"list", "orphan"} : Become(t, [Idle EXCEPT !.pc = pc, !.run = e])
    BY <1>5 DEF RemoveAgent, ListOrphan
  <2>2. [Idle EXCEPT !.pc = pc, !.run = e].pc \notin Ahead
    BY <1>1
  <2> QED
    BY <2>1, <2>2, GoesElsewhere
<1>6. CASE Sweep(t, e)
  <2>1. PICK why, held : Become(t, SettleRun([Idle EXCEPT !.run = e], why, held, None))
    BY <1>6 DEF Sweep
  <2>2. SettleRun([Idle EXCEPT !.run = e], why, held, None).pc \notin Ahead
    BY DEF SettleRun, Idle, Ahead
  <2> QED
    BY <2>1, <2>2, GoesElsewhere
<1> QED
  BY <1>3, <1>4, <1>5, <1>6

\* A reviewer's refusal settles the run or resumes its turn; it runs no tool,
LEMMA RejectActs ==
    ASSUME Inv, NEW t \in Tasks, NEW c \in Calls, NEW continue_turn \in BOOLEAN,
           Reject(t, c, continue_turn)
    PROVE  NobodyActs
<1>1. CASE UNCHANGED task
  BY <1>1 DEF NobodyActs
<1>2. \A e : /\ [[Idle EXCEPT !.run = e, !.via = "review"] EXCEPT !.pc = "resume"].pc \notin Ahead
             /\ [[Idle EXCEPT !.run = e, !.via = "review"]
                    EXCEPT !.pc = "discard", !.why = "APPROVAL_REFUSED"].pc \notin Ahead
  BY DEF Idle, Ahead
<1>3. \/ UNCHANGED task
      \/ \E e : Become(t, [[Idle EXCEPT !.run = e, !.via = "review"] EXCEPT !.pc = "resume"])
      \/ \E e : Become(t, [[Idle EXCEPT !.run = e, !.via = "review"]
                              EXCEPT !.pc = "discard", !.why = "APPROVAL_REFUSED"])
  BY DEF Reject
<1> QED
  BY <1>1, <1>2, <1>3, GoesElsewhere

\* a handler that dies acts no more,
LEMMA DieActs == ASSUME Inv, NEW t \in Tasks, Die(t) PROVE NobodyActs
BY RaiseActs, IdleActs DEF Die

\* and what happens around the handlers moves none to a call.
LEMMA EnvironmentActs ==
    ASSUME Inv, Environment \/ UNCHANGED vars
    PROVE  NobodyActs
BY DEF Environment, OpenRun, Withdraw, LeaseExpires, ResumeAgentRun, RequestApproval, Restart, vars,
   Idle, Ahead, NobodyActs

\* Only a call the gateway lets through, a gated call that is approved, and a run put
\* back to STREAMING for one bring a handler to it.
LEMMA WhoActs ==
    ASSUME Inv, [Next]_vars
    PROVE  \/ NobodyActs
           \/ \E t \in Tasks : AdvanceApproved(t) \/ \E c \in Calls : GateAllows(t, c) \/ Approve(t, c)
<1>1. ASSUME NEW t \in Tasks, Proceed(t),
             ~AdvanceApproved(t) /\ \A c \in Calls : ~GateAllows(t, c)
      PROVE  NobodyActs
  BY <1>1, StepActs, PromptActs, CallActs, EndActs DEF Proceed
<1>2. ASSUME NEW t \in Tasks, Request(t), \A c \in Calls : ~Approve(t, c)
      PROVE  NobodyActs
  BY <1>2, DoorActs, RejectActs DEF Request
<1>3. ASSUME NEW t \in Tasks, NEW e \in Runs, Sweep(t, e) \/ ListOrphan(t, e) PROVE NobodyActs
  BY <1>3, DoorActs
<1> QED
  BY <1>1, <1>2, <1>3, DieActs, EnvironmentActs DEF Next

\* A call that is made and needs no decision keeps its request and its effect, but for
\* the handler that brings it to its tool, resolves it or refuses it.
LEMMA OthersKeep ==
    ASSUME Inv, [Next]_vars, NEW c \in Calls, called[c] # NoRun, approval[c] # "PENDING"
    PROVE  \/ request'[c] = request[c] /\ (c \in wrote' => c \in wrote)
           \/ \E t \in Tasks : /\ RunTool(t) \/ ResolveCall(t) \/ DenyApproved(t)
                              /\ task[t].call = c
<1> DEFINE Kept == request'[c] = request[c] /\ (c \in wrote' => c \in wrote)
<1> DEFINE Theirs == \E t \in Tasks : /\ RunTool(t) \/ ResolveCall(t) \/ DenyApproved(t)
                                     /\ task[t].call = c
<1>1. ASSUME NEW t \in Tasks, NEW d \in Calls, GateDenies(t, d) \/ GateSuspends(t, d) \/ GateAllows(t, d)
      PROVE  Kept
  BY <1>1 DEF GateDenies, GateSuspends, GateAllows, Unused, gateway, Inv, TypeOK
<1>2. ASSUME NEW t \in Tasks, RunTool(t) \/ ResolveCall(t) \/ DenyApproved(t) PROVE Kept \/ Theirs
  <2>1. task[t].call # c => Kept
    BY <1>2 DEF RunTool, ResolveCall, DenyApproved, Inv, TypeOK
  <2> QED
    BY <1>2, <2>1
<1>3. ASSUME NEW t \in Tasks, NEW d \in Calls,
             Approve(t, d) \/ \E continue_turn \in BOOLEAN : Reject(t, d, continue_turn)
      PROVE  Kept
  BY <1>3 DEF Approve, Reject, Inv, TypeOK
<1>4. ASSUME NEW t \in Tasks, ExpireUndecided(t) PROVE Kept
  BY <1>4 DEF ExpireUndecided, StillUndecided, Inv, TypeOK
<1>5. ASSUME NEW t \in Tasks,
             \/ ResumeSuspendedTurn(t) \/ Discard(t) \/ \E e \in Runs : RemoveAgent(t, e)
      PROVE  Kept
  BY <1>5 DEF ResumeSuspendedTurn, Discard, RemoveAgent
<1>6. ASSUME NEW d \in Calls, NEW e \in Runs, RequestApproval(d, e) PROVE Kept
  BY <1>6 DEF RequestApproval
<1>7. ASSUME UNCHANGED vars PROVE Kept
  BY <1>7 DEF vars, gateway
<1>8. ASSUME UNCHANGED <<called, approval, request, wrote>> PROVE Kept
  BY <1>8
<1> HIDE DEF Kept, Theirs
<1>9. ASSUME NEW t \in Tasks, Proceed(t) PROVE Kept \/ Theirs
  BY <1>1, <1>2, <1>4, <1>5, <1>8, <1>9, HandlersKeepCalls DEF Proceed
<1>10. ASSUME NEW t \in Tasks, Request(t) PROVE Kept
  <2>1. ASSUME NEW e \in Runs,
               \/ \E via \in {"route", "mention", "task"} : EnterTurn(t, e, via)
               \/ Cancel(t, e) \/ ReceiveUpdate(t, e)
               \/ \E to \in {"PAUSED", "RUNNING"} : Pause(t, e, to)
        PROVE  Kept
    BY <1>8, <2>1, DoorsKeepCalls
  <2> QED
    BY <1>3, <1>5, <1>10, <2>1 DEF Request
<1>11. ASSUME Environment PROVE Kept
  <2>1. CASE \E d \in Calls, e \in Runs : RequestApproval(d, e)
    <3>1. PICK d \in Calls, e \in Runs : RequestApproval(d, e)
      BY <2>1
    <3> QED
      BY <1>6, <3>1
  <2>2. CASE ~\E d \in Calls, e \in Runs : RequestApproval(d, e)
    <3>1. UNCHANGED <<called, approval, request, wrote>>
      BY <1>11, <2>2, DoorsKeepCalls DEF Environment
    <3> QED
      BY <1>8, <3>1
  <2> QED
    BY <2>1, <2>2
<1>12. Kept \/ Theirs
  <2>1. ASSUME NEW t \in Tasks, \/ Die(t) \/ \E e \in Runs : Sweep(t, e) \/ ListOrphan(t, e)
        PROVE  Kept
    <3>1. UNCHANGED <<called, approval, request, wrote>>
      BY <2>1, DoorsKeepCalls
    <3> QED
      BY <1>8, <3>1
  <2> QED
    <3>1. CASE \E t \in Tasks : Proceed(t)
      <4>1. PICK t \in Tasks : Proceed(t)
        BY <3>1
      <4> QED
        BY <1>9, <4>1
    <3>2. CASE \E t \in Tasks : Request(t)
      <4>1. PICK t \in Tasks : Request(t)
        BY <3>2
      <4> QED
        BY <1>10, <4>1
    <3>3. CASE \E t \in Tasks : Die(t) \/ \E e \in Runs : Sweep(t, e) \/ ListOrphan(t, e)
      <4>1. PICK t \in Tasks : Die(t) \/ \E e \in Runs : Sweep(t, e) \/ ListOrphan(t, e)
        BY <3>3
      <4> QED
        BY <2>1, <4>1
    <3> QED
      BY <1>7, <1>11, <3>1, <3>2, <3>3 DEF Next
<1> QED
  BY <1>12 DEF Kept, Theirs

\* A handler on its way to a call is the one driver of the run the call belongs to, and
\* the call needs no decision.
LEMMA AheadAlone ==
    ASSUME Inv, DriverInv, GateInv, NEW u \in Tasks, task[u].pc \in Ahead
    PROVE  /\ task[u].call \in Calls /\ called[task[u].call] # NoRun
           /\ approval[task[u].call] # "PENDING"
           /\ \A t \in Tasks : task[t].pc \in WritesCall /\ task[t].call = task[u].call => t = u
<1>1. \A t \in Tasks : task[t].pc \in WritesCall =>
          task[t].call \in Calls /\ task[t].run \in Runs /\ called[task[t].call] = task[t].run
  BY Current DEF Fit, WritesCall
<1>2. task[u].pc \in WritesCall
  BY DEF Ahead, WritesCall
<1>3. approval[task[u].call] # "PENDING"
  BY NullAssumption DEF Ahead, GateInv, AllPoised, Poised, ApprovalStatus
<1>4. ASSUME NEW t \in Tasks, task[t].pc \in WritesCall, task[t].call = task[u].call
      PROVE  t = u
  BY <1>1, <1>2, <1>4 DEF DriverInv, OneCarrier, Carries, Carrying, Turning, WritesCall
<1> QED
  BY <1>1, <1>2, <1>3, <1>4, NoRunAssumption

\* So whoever stands at a call finds it as it left it.
LEMMA UnansweredNext ==
    ASSUME Inv, DriverInv, GateInv, Unanswered, [Next]_vars
    PROVE  Unanswered'
<1>1. CASE NobodyActs
  <2> SUFFICES ASSUME NEW u \in Tasks, task'[u].pc \in Ahead
               PROVE  task'[u].call \notin wrote' /\ request'[task'[u].call] = "PENDING_APPROVAL"
    BY DEF Unanswered
  <2>1. task'[u] = task[u]
    BY <1>1 DEF NobodyActs
  <2>2. ~RunTool(u) /\ ~ResolveCall(u) /\ ~DenyApproved(u)
    <3>1. PICK k \in TaskType : k = task[u] /\ task \in [Tasks -> TaskType]
      BY Current
    <3>2. [k EXCEPT !.pc = "resume", !.call = NoCall].pc = "resume"
          /\ \A why : [k EXCEPT !.pc = "resolve", !.why = why].pc = "resolve"
      BY DEF TaskType
    <3>3. k.pc \in Ahead /\ task'[u] = k
      BY <2>1, <3>1
    <3>4. ~ResolveCall(u)
      BY <3>1, <3>3 DEF ResolveCall, At, Ahead
    <3>5. ~DenyApproved(u)
      BY <3>1, <3>2, <3>3 DEF DenyApproved, At, Become, Ahead
    <3>6. ~RunTool(u)
      BY <3>1, <3>2, <3>3 DEF RunTool, At, Become, Ahead
    <3> QED
      BY <3>4, <3>5, <3>6
  <2>3. \A t \in Tasks : RunTool(t) \/ ResolveCall(t) \/ DenyApproved(t) => task[t].pc \in WritesCall
    BY DEF RunTool, ResolveCall, DenyApproved, At, WritesCall
  <2>4. \A t \in Tasks : task[t].call = task[u].call =>
            ~RunTool(t) /\ ~ResolveCall(t) /\ ~DenyApproved(t)
    BY <2>1, <2>2, <2>3, AheadAlone
  <2> QED
    BY <2>1, <2>4, AheadAlone, OthersKeep DEF Unanswered
<1>2. ASSUME NEW t \in Tasks, AdvanceApproved(t) PROVE Unanswered'
  <2>1. UNCHANGED <<request, wrote>>
    BY <1>2, HandlersKeepCalls
  <2>2. \A u \in Tasks : task'[u].pc \in Ahead => task[u].pc \in Ahead /\ task'[u].call = task[u].call
    BY <1>2, Current DEF AdvanceApproved, At, Become, Ahead, TaskType
  <2> QED
    BY <2>1, <2>2 DEF Unanswered
<1>3. ASSUME NEW t \in Tasks, NEW c \in Calls, GateAllows(t, c) PROVE Unanswered'
  <2>1. c \notin wrote /\ called[c] = NoRun
    BY <1>3, NoRunAssumption DEF GateAllows, Unused, Inv, CarriedFacts, Owned
  <2>2. wrote' = wrote /\ request' = [request EXCEPT ![c] = "PENDING_APPROVAL"]
    BY <1>3 DEF GateAllows
  <2>3. \A u \in Tasks : task'[u].pc \in Ahead =>
            task'[u].call = c \/ (task[u].pc \in Ahead /\ task'[u].call = task[u].call)
    BY <1>3, Current DEF GateAllows, At, Become, Ahead, TaskType
  <2> QED
    BY <2>1, <2>2, <2>3, AheadAlone DEF Unanswered, Inv, TypeOK
<1>4. ASSUME NEW t \in Tasks, NEW c \in Calls, Approve(t, c) PROVE Unanswered'
  <2>1. UNCHANGED <<request, wrote>> /\ approval[c] = "PENDING"
    BY <1>4 DEF Approve
  <2>2. c \notin wrote
    BY <2>1, NullAssumption DEF GateInv, GatedEffectsApproved, ApprovalStatus
  <2>3. \A u \in Tasks : task'[u].pc \in Ahead =>
            (task'[u].call = c /\ Gates(c)) \/ task'[u] = task[u]
    <3>1. CASE UNCHANGED task
      BY <3>1
    <3>2. CASE Gates(c) /\ \E pc : Become(t, [[Idle EXCEPT !.run = called[c], !.call = c, !.via = "review"]
                                                EXCEPT !.pc = pc])
      <4>1. PICK pc : task' = [task EXCEPT ![t] =
                [[Idle EXCEPT !.run = called[c], !.call = c, !.via = "review"] EXCEPT !.pc = pc]]
        BY <3>2 DEF Become
      <4>2. [[Idle EXCEPT !.run = called[c], !.call = c, !.via = "review"] EXCEPT !.pc = pc].call = c
        BY DEF Idle
      <4>3. task \in [Tasks -> TaskType]
        BY Current
      <4> QED
        BY <3>2, <4>1, <4>2, <4>3
    <3> QED
      BY <1>4, <3>1, <3>2 DEF Approve
  <2> QED
    BY <2>1, <2>2, <2>3 DEF Unanswered, Gates
<1> QED
  BY <1>1, <1>2, <1>3, <1>4, WhoActs

\* A call acts once, and only while nobody has resolved or refused it: a tool whose effect
\* commits had none before and its request is still undecided, however turns, reviewers,
\* expiries, sweeps, crashes and restarts interleave (_run_tool and
\* _resolve_tool_request_terminal, two transactions; approve_action and
\* _resume_suspended_turn, which keep a second handler away from the call).
THEOREM CallsActOnce == Spec => EffectOnce
<1>1. Init => Unanswered
  BY DEF Init, Idle, Unanswered, Ahead
<1>2. Inv /\ DriverInv /\ GateInv /\ Unanswered /\ [Next]_vars => Unanswered'
  BY UnansweredNext
<1>3. Inv /\ DriverInv /\ [Next]_vars => DriverInv'
  BY NextHands
<1>4. Unanswered => [\A t \in Tasks : Acts(t) =>
          task[t].call \notin wrote /\ request[task[t].call] = "PENDING_APPROVAL"]_vars
  BY DEF Unanswered, Acts, At, Ahead
<1> QED
  BY <1>1, <1>2, <1>3, <1>4, DriverInit, GateSafe, PTL DEF Spec, EffectOnce
=============================================================================
