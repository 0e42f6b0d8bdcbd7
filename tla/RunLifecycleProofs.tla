-------------------------- MODULE RunLifecycleProofs --------------------------
(***************************************************************************)
(* The run ledger and the service that writes it, for any runs, tasks,     *)
(* calls and bounds.                                                       *)
(*                                                                         *)
(* The ledger's promises to its readers first: Coherent and                *)
(* OutputIffAnswered are inductive together once the types are known, as   *)
(* each write of AgentRuns starts from a row whose status its compare and  *)
(* swap names, so the two records can only end together.                   *)
(***************************************************************************)
EXTENDS RunLifecycle, TLAPS

\* The inductive invariant of the ledger: its promises and its types.
LedgerInv == LedgerTypeOK /\ Coherent /\ OutputIffAnswered

\* NULL is not a status, a state or a settlement.
LEMMA NoneIsApart ==
    /\ None \notin ExecutionStatus /\ None \notin HarnessState /\ None \notin RunSettlement
BY NoneAssumption

\* The empty ledger satisfies it.
LEMMA LedgerInitOK == LedgerInit => LedgerInv
BY NoneIsApart DEF LedgerInit, LedgerInv, LedgerTypeOK, Coherent, OutputIffAnswered,
   Exists, Terminal, Settled, NoLease, ExecutionStatus, HarnessState, RunSettlement,
   OpenStatuses, OpenHarnessStates, TERMINAL_EXECUTION_STATUSES

USE DEF OpenStatuses, OpenHarnessStates, TERMINAL_EXECUTION_STATUSES, ExecutionStatus,
        HarnessState, RunSettlement

\* Each write keeps both records of every run in step: one step per write.
LEMMA LedgerStepOK ==
    ASSUME LedgerInv, NEW e \in Runs, LedgerStep(e)
    PROVE  LedgerInv'
<1> USE NoneIsApart DEF LedgerInv, LedgerTypeOK, Coherent, OutputIffAnswered, Exists, Terminal,
        Settled, Open
<1>1. CASE attempts'[e] \in Nat /\ OpenRow(e, attempts'[e])
  BY <1>1 DEF OpenRow
<1>2. ASSUME Open(e), NEW state \in OpenHarnessStates, Advance(e, state)
      PROVE  LedgerInv'
  BY <1>2 DEF Advance
<1>3. CASE CanSpendAttempt(e) /\ SpendAttempt(e)
  BY <1>3 DEF SpendAttempt
<1>4. ASSUME NEW read \in OpenStatuses, status[e] = read,
             NEW to \in OpenStatuses, UpdateStatus(e, to)
      PROVE  LedgerInv'
  BY <1>4 DEF UpdateStatus
<1>5. ASSUME NEW read \in OpenStatuses, CanComplete(e, read), CompleteExecution(e)
      PROVE  LedgerInv'
  BY <1>5 DEF CanComplete, CompleteExecution, SettleEnvelope
<1>6. ASSUME NEW read \in OpenStatuses, status[e] = read,
             NEW final \in {"FAILED", "CANCELLED"}, NEW why \in RunSettlement \ {"END_TURN"},
             Terminalize(e, final, why)
      PROVE  LedgerInv'
  BY <1>6 DEF Terminalize, SettleEnvelope
<1>7. ASSUME Terminal(e), NEW why \in RunSettlement, SettleOnly(e, why)
      PROVE  LedgerInv'
  BY <1>7 DEF SettleOnly, SettleEnvelope
<1>8. CASE LeaseRunsOut(e)
  BY <1>8 DEF LeaseRunsOut
<1> QED
  BY <1>1, <1>2, <1>3, <1>4, <1>5, <1>6, <1>7, <1>8 DEF LedgerStep

\* No write of the ledger, and no step that leaves it alone, breaks it.
LEMMA LedgerInductive == LedgerInv /\ [LedgerNext]_ledger => LedgerInv'
<1>1. CASE LedgerNext
  BY <1>1, LedgerStepOK DEF LedgerNext
<1>2. CASE UNCHANGED ledger
  BY <1>2 DEF ledger, LedgerInv, LedgerTypeOK, Coherent, OutputIffAnswered, Exists, Terminal,
     Settled
<1> QED
  BY <1>1, <1>2

\* The types, coherence of the two records, and outputs exactly for answers,
\* in every behaviour of the ledger.
THEOREM LedgerSafe == LedgerSpec => []LedgerInv
BY LedgerInitOK, LedgerInductive, PTL DEF LedgerSpec

\* A run settled before a step keeps its settlement and its status through it.
LEMMA SettledStays ==
    ASSUME LedgerInv, [LedgerNext]_ledger, NEW e \in Runs, Settled(e)
    PROVE  /\ settlement'[e] = settlement[e]
           /\ harness'[e] = harness[e]
           /\ status'[e] = status[e]
<1>1. CASE UNCHANGED ledger
  BY <1>1 DEF ledger
<1>2. ASSUME NEW f \in Runs, LedgerStep(f), f # e
      PROVE  /\ settlement'[e] = settlement[e]
             /\ harness'[e] = harness[e]
             /\ status'[e] = status[e]
  BY <1>2 DEF LedgerInv, LedgerTypeOK, LedgerStep, OpenRow, Advance, SpendAttempt,
     UpdateStatus, CompleteExecution, Terminalize, SettleOnly, SettleEnvelope, LeaseRunsOut
<1>3. ASSUME LedgerStep(e)
      PROVE  /\ settlement'[e] = settlement[e]
             /\ harness'[e] = harness[e]
             /\ status'[e] = status[e]
  <2>1. Terminal(e) /\ Exists(e) /\ ~Open(e)
    BY NoneIsApart DEF LedgerInv, Coherent, Terminal, Exists, Open
  <2>2. status[e] \notin OpenStatuses
    BY <2>1 DEF Terminal
  <2>3. \/ CanSpendAttempt(e) /\ SpendAttempt(e)
        \/ \E why \in RunSettlement : SettleOnly(e, why)
        \/ LeaseRunsOut(e)
    BY <1>3, <2>1, <2>2 DEF LedgerStep, OpenRow, CanComplete
  <2> QED
    BY <2>3 DEF SpendAttempt, SettleOnly, SettleEnvelope, LeaseRunsOut, Settled, LedgerInv,
       LedgerTypeOK
<1> QED
  BY <1>1, <1>2, <1>3 DEF LedgerNext

\* A row is never deleted, and a terminal status is terminal for good.
LEMMA RunPersists ==
    ASSUME LedgerInv, [LedgerNext]_ledger, NEW e \in Runs
    PROVE  /\ Exists(e) => Exists(e)'
           /\ Terminal(e) => Terminal(e)'
<1>1. Terminal(e) => Terminal(e)'
  BY SettledStays DEF LedgerInv, Coherent, Terminal
<1>2. CASE UNCHANGED ledger
  BY <1>1, <1>2 DEF ledger, Exists
<1>3. ASSUME NEW f \in Runs, LedgerStep(f), Exists(e) PROVE Exists(e)'
  BY <1>3, NoneIsApart DEF LedgerInv, LedgerTypeOK, LedgerStep, OpenRow, Advance, SpendAttempt,
     UpdateStatus, CompleteExecution, Terminalize, SettleOnly, SettleEnvelope, LeaseRunsOut, Exists
<1> QED
  BY <1>1, <1>2, <1>3 DEF LedgerNext

\* No later writer changes what a settled run says (_settle_agent_run_in_transaction).
THEOREM LedgerSettlementFinal == LedgerSpec => SettlementFinal
<1>1. LedgerInv /\ [LedgerNext]_ledger =>
          [\A e \in Runs : Settled(e) => /\ settlement'[e] = settlement[e]
                                         /\ harness'[e] = harness[e]
                                         /\ status'[e] = status[e]]_ledger
  BY SettledStays
<1> QED
  BY <1>1, LedgerSafe, PTL DEF LedgerSpec, SettlementFinal

HIDE DEF OpenStatuses, OpenHarnessStates, TERMINAL_EXECUTION_STATUSES, ExecutionStatus,
         HarnessState, RunSettlement

-----------------------------------------------------------------------------
(***************************************************************************)
(* Then the types of RunLifecycle, and that everything the service does to *)
(* the ledger is one of the ledger's own moves (AgentRuns!LedgerSpec).     *)
(*                                                                         *)
(* Coherence of the two records is not inductive for the service by        *)
(* itself: a handler writes from a status, a state and a settlement it     *)
(* read or chose before an await, so the invariant carries CarriedFacts,   *)
(* which says those locals still fit the ledger when the handler goes on.  *)
(* Each action has a lemma: its write is a move of the ledger, its task    *)
(* lands on a record fit for the new state, and the calls it touches keep  *)
(* their run.                                                              *)
(***************************************************************************)

\* The second half of CarriedFacts.
OwnedCalls == \A c \in Calls : approval[c] # None \/ request[c] # None \/ c \in wrote => Owned(c)

\* The inductive invariant.
Inv == TypeOK /\ LedgerInv /\ CarriedFacts

\* No call changes the run it belongs to.
Grows == \A c \in Calls : called[c] # NoRun => called'[c] = called[c]

\* What a task carries stays true whatever one write of the ledger does, as long as
\* no call changes its run: a terminal status is final and rows are never deleted.
LEMMA FitPersists ==
    ASSUME Inv, [LedgerNext]_ledger, Grows, NEW k \in TaskType, Fit(k)
    PROVE  Fit(k)'
<1>1. k.run \in Runs => (Exists(k.run) => Exists(k.run)') /\ (Terminal(k.run) => Terminal(k.run)')
  BY RunPersists DEF Inv
<1>2. k.pc \in WritesCall => k.pc # "idle"
  BY DEF WritesCall
<1>3. k.pc \in WritesCall => k.call \in Calls /\ called'[k.call] = k.run
  BY <1>2, NoRunAssumption DEF Grows, Fit
<1> QED
  BY <1>1, <1>3 DEF Fit

\* Task t, and no other, moves, to a record that fits the new state.
Moves(t) ==
    /\ task' = [task EXCEPT ![t] = task'[t]]
    /\ task'[t] \in TaskType
    /\ Fit(task[t])'

\* So it stays true of every task when one of them moves to a fit record.
LEMMA TasksPersist ==
    ASSUME Inv, [LedgerNext]_ledger, Grows, UNCHANGED task \/ \E t \in Tasks : Moves(t)
    PROVE  /\ task' \in [Tasks -> TaskType]
           /\ (\A t \in Tasks : Fit(task[t]))'
<1>1. /\ task \in [Tasks -> TaskType]
      /\ \A t \in Tasks : Fit(task[t])
  BY DEF Inv, TypeOK, CarriedFacts
<1>2. task' \in [Tasks -> TaskType]
  BY <1>1 DEF Moves
<1>3. ASSUME NEW u \in Tasks PROVE Fit(task[u])'
  <2>1. CASE task'[u] = task[u]
    <3>1. PICK k \in TaskType : k = task[u]
      BY <1>1
    <3>2. Fit(k)'
      BY <3>1, <1>1, FitPersists
    <3> QED
      BY <2>1, <3>1, <3>2
  <2>2. CASE task'[u] # task[u]
    BY <2>2, <1>1 DEF Moves
  <2> QED
    BY <2>1, <2>2
<1> QED
  BY <1>2, <1>3

\* The types of everything but the ledger and the tasks.
OtherTypes ==
    /\ called \in [Calls -> Runs \cup {NoRun}]
    /\ approval \in [Calls -> ApprovalStatus \cup {None}]
    /\ request \in [Calls -> RequestStatus \cup {None}]
    /\ wrote \subseteq Calls
    /\ suspended \subseteq Runs
    /\ mentioned \subseteq Runs
    /\ claimed \subseteq Runs
    /\ named \subseteq Runs
    /\ lends \subseteq Runs
    /\ live \subseteq Runs
    /\ flagged \subseteq Runs
    /\ pauses \in 0..MaxPauses
    /\ updates \in 0..MaxUpdates
    /\ crashes \in 0..MaxCrashes

\* The invariant, from its parts after the step.
LEMMA Assemble ==
    ASSUME Inv, [LedgerNext]_ledger, Grows, UNCHANGED task \/ \E t \in Tasks : Moves(t),
           OtherTypes', OwnedCalls'
    PROVE  Inv'
<1>1. LedgerInv'
  BY LedgerInductive DEF Inv
<1>2. TypeOK' /\ CarriedFacts'
  BY <1>1, TasksPersist DEF TypeOK, CarriedFacts, OtherTypes, OwnedCalls, LedgerInv
<1> QED
  BY <1>1, <1>2 DEF Inv

\* The calls of the other handlers are untouched.
LEMMA OwnedPersists ==
    ASSUME Inv, [LedgerNext]_ledger, UNCHANGED called,
           \A c \in Calls : approval'[c] # None \/ request'[c] # None \/ c \in wrote' => Owned(c)
    PROVE  OwnedCalls'
<1>1. \A c \in Calls : Owned(c) => Owned(c)'
  BY RunPersists DEF Owned, Inv
<1> QED
  BY <1>1 DEF OwnedCalls

\* A step that touches no call keeps them all owned.
LEMMA Quiet ==
    ASSUME Inv, [LedgerNext]_ledger, UNCHANGED <<called, approval, request, wrote>>,
           UNCHANGED task \/ \E t \in Tasks : Moves(t), OtherTypes'
    PROVE  Inv'
<1>1. Grows
  BY DEF Grows
<1>2. OwnedCalls'
  BY OwnedPersists DEF Inv, CarriedFacts
<1> QED
  BY <1>1, <1>2, Assemble

\* Handing a run to _settle_run yields a well-typed record.
LEMMA SettleRecord ==
    ASSUME NEW k \in TaskType, NEW s \in ExecutionStatus \cup {None}, NEW why \in RunSettlement,
           NEW held \in Nat, NEW then \in Excuses
    PROVE  [k EXCEPT !.pc = "settle", !.read = s, !.why = why, !.held = held, !.then = then] \in TaskType
<1>1. "settle" \in PCs
  BY DEF PCs
<1> QED
  BY <1>1 DEF TaskType

USE DEF Excuses, Entrances, PCs, WritesFromRead, WritesCall, WritesSettlement, ExecutionStatus,
        OpenStatuses, OpenHarnessStates, HarnessState, TERMINAL_EXECUTION_STATUSES, RunSettlement,
        RequestStatus, ApprovalStatus

\* A free task carries nothing.
LEMMA IdleFit == Idle \in TaskType /\ Fit(Idle)'
BY NoneIsApart DEF Idle, TaskType, Fit, NoLease

\* A record at an await that writes nothing from what it carries.
Plain(pc) == pc \in PCs /\ pc \notin WritesFromRead \cup WritesCall \cup WritesSettlement \cup {"resolve"}

\* Such a record is fit as soon as its run is there.
LEMMA PlainFit ==
    ASSUME NEW n \in TaskType, Plain(n.pc), n.run \in Runs, Exists(n.run)',
           n.read \in TERMINAL_EXECUTION_STATUSES => Terminal(n.run)'
    PROVE  Fit(n)'
BY DEF Plain, Fit

\* A record about to write a settlement.
LEMMA EndingFit ==
    ASSUME NEW n \in TaskType, n.pc \in WritesSettlement, n.run \in Runs, Exists(n.run)',
           n.why \in RunSettlement \ {"END_TURN"},
           n.read \in TERMINAL_EXECUTION_STATUSES => Terminal(n.run)'
    PROVE  Fit(n)'
BY DEF Fit

\* What a turn's caller does with an exception is fit for the run as the step leaves it.
LEMMA AfterRaiseFit ==
    ASSUME NEW k \in TaskType, NEW kind, NEW found \in ExecutionStatus \cup {None},
           k.run \in Runs, Exists(k.run)', found \in TERMINAL_EXECUTION_STATUSES => Terminal(k.run)',
           Fit(k)'
    PROVE  AfterRaise(k, kind, found) \in TaskType /\ Fit(AfterRaise(k, kind, found))'
<1>1. CASE k.via = "route"
  BY <1>1, IdleFit DEF AfterRaise
<1>2. CASE k.via # "route"
  <2>1. PICK n : n = AfterRaise(k, kind, found)
    OBVIOUS
  <2>2. n \in TaskType
    <3>1. [k EXCEPT !.pc = "undispatched", !.via = "route", !.why = "FAILED", !.read = found,
                    !.then = None] \in TaskType
      BY DEF TaskType
    <3>2. [k EXCEPT !.pc = "unresumable", !.via = "route", !.why = "FAILED"] \in TaskType
      BY DEF TaskType
    <3>3. [k EXCEPT !.pc = "unresumable", !.via = "route", !.why = "AUTHORITY_REVOKED"] \in TaskType
      BY DEF TaskType
    <3>4. k.via \in Entrances
      BY DEF TaskType
    <3> QED
      BY <1>2, <2>1, <3>1, <3>2, <3>3, <3>4 DEF AfterRaise
  <2>3. /\ n.pc \in WritesSettlement /\ n.run = k.run
        /\ n.why \in RunSettlement \ {"END_TURN"} /\ n.read \in {k.read, found}
    BY <2>1, <1>2 DEF AfterRaise, TaskType
  <2> QED
    BY <2>1, <2>2, <2>3, EndingFit DEF Fit
<1> QED
  BY <1>1, <1>2

\* So is what it does when the turn returns,
LEMMA AfterReturnFit ==
    ASSUME NEW k \in TaskType, k.run \in Runs, Exists(k.run)',
           k.read \in TERMINAL_EXECUTION_STATUSES => Terminal(k.run)'
    PROVE  AfterReturn(k) \in TaskType /\ Fit(AfterReturn(k))'
<1>1. CASE k.via # "task"
  BY <1>1, IdleFit DEF AfterReturn
<1>2. CASE k.via = "task"
  <2>1. PICK n : n = AfterReturn(k)
    OBVIOUS
  <2>2. n \in TaskType
    BY <2>1, <1>2 DEF AfterReturn, TaskType
  <2>3. n.pc = "unresumable" /\ n.run = k.run /\ n.why = "FAILED" /\ n.read = k.read
    BY <2>1, <1>2 DEF AfterReturn, TaskType
  <2> QED
    BY <2>1, <2>2, <2>3, EndingFit
<1> QED
  BY <1>1, <1>2

\* and what follows a settlement.
LEMMA AfterSettleFit ==
    ASSUME NEW k \in TaskType, k.run \in Runs, Exists(k.run)',
           k.read \in TERMINAL_EXECUTION_STATUSES => Terminal(k.run)'
    PROVE  AfterSettle(k) \in TaskType /\ Fit(AfterSettle(k))'
<1>1. CASE k.then \notin {"park", "resume"}
  BY <1>1, AfterReturnFit DEF AfterSettle
<1>2. CASE k.then \in {"park", "resume"}
  <2>1. PICK n : n = AfterSettle(k)
    OBVIOUS
  <2>2. n \in TaskType
    <3>1. [k EXCEPT !.pc = "park", !.why = None, !.then = None] \in TaskType
      BY DEF TaskType
    <3>2. [k EXCEPT !.pc = "resume", !.why = None, !.then = None] \in TaskType
      BY DEF TaskType
    <3> QED
      BY <1>2, <2>1, <3>1, <3>2 DEF AfterSettle
  <2>3. Plain(n.pc) /\ n.run = k.run /\ n.read = k.read
    BY <2>1, <1>2 DEF AfterSettle, TaskType, Plain
  <2> QED
    BY <2>1, <2>2, <2>3, PlainFit
<1> QED
  BY <1>1, <1>2

\* The handler a step starts from.
LEMMA Current ==
    ASSUME Inv, NEW t \in Tasks
    PROVE  /\ task \in [Tasks -> TaskType] /\ task[t] \in TaskType /\ Fit(task[t])
           /\ ~At(t, "idle") => task[t].run \in Runs /\ Exists(task[t].run)
           /\ \A e \in Runs : status[e] \in ExecutionStatus \cup {None}
BY DEF Inv, TypeOK, LedgerTypeOK, CarriedFacts, Fit, At

\* The handler that goes on, as a constant record: its run is still there and
\* what it carries is still true whatever the ledger did meanwhile.
LEMMA Take ==
    ASSUME Inv, NEW t \in Tasks, ~At(t, "idle"), [LedgerNext]_ledger, Grows
    PROVE  \E k \in TaskType :
               /\ k = task[t] /\ Fit(k) /\ Fit(k)'
               /\ k.run \in Runs /\ Exists(k.run) /\ Exists(k.run)'
<1>1. PICK k \in TaskType : k = task[t]
  BY Current
<1>2. Fit(k) /\ Fit(k)' /\ k.run \in Runs /\ Exists(k.run)
  BY <1>1, Current, FitPersists
<1>3. Exists(k.run)'
  BY <1>2, RunPersists DEF Inv
<1> QED
  BY <1>1, <1>2, <1>3

\* A step may leave its task with any record that is fit for the new state.
LEMMA Land ==
    ASSUME Inv, NEW t \in Tasks, NEW n \in TaskType, Fit(n)', Become(t, n)
    PROVE  Moves(t)
BY Current DEF Moves, Become

\* The ways a step leaves its task: free,
LEMMA LandIdle == ASSUME Inv, NEW t \in Tasks, Become(t, Idle) PROVE Moves(t)
BY IdleFit, Land

\* at an await that writes nothing it carried,
LEMMA LandPlain ==
    ASSUME Inv, NEW t \in Tasks, NEW n \in TaskType, Become(t, n), Plain(n.pc), n.run \in Runs,
           Exists(n.run)', n.read \in TERMINAL_EXECUTION_STATUSES => Terminal(n.run)'
    PROVE  Moves(t)
BY PlainFit, Land

\* with an exception raised,
LEMMA LandRaise ==
    ASSUME Inv, NEW t \in Tasks, ~At(t, "idle"), [LedgerNext]_ledger, Grows, NEW kind, Raise(t, kind)
    PROVE  Moves(t)
<1>1. PICK k \in TaskType : k = task[t] /\ Fit(k)' /\ k.run \in Runs /\ Exists(k.run)'
  BY Take
<1>2. PICK s : s = status'[k.run]
  OBVIOUS
<1>3. s \in ExecutionStatus \cup {None} /\ (s \in TERMINAL_EXECUTION_STATUSES => Terminal(k.run)')
  BY <1>1, <1>2, LedgerInductive DEF Inv, LedgerInv, LedgerTypeOK, Terminal
<1> QED
  BY <1>1, <1>2, <1>3, AfterRaiseFit, Land DEF Raise

\* with the turn returned,
LEMMA LandReturn ==
    ASSUME Inv, NEW t \in Tasks, ~At(t, "idle"), [LedgerNext]_ledger, Grows, Return(t)
    PROVE  Moves(t)
BY Take, AfterReturnFit, Land DEF Return, Fit

\* A settlement about to be written for the run of a record that is fit for it.
LEMMA LandSettle ==
    ASSUME Inv, NEW t \in Tasks, NEW k \in TaskType, k.run \in Runs, Exists(k.run), UNCHANGED ledger,
           NEW why \in RunSettlement \ {"END_TURN"}, NEW held \in Nat, NEW then \in Excuses,
           Become(t, SettleRun(k, why, held, then))
    PROVE  Moves(t)
<1>1. PICK s : s = status[k.run] /\ s = status'[k.run]
  BY DEF ledger
<1>2. PICK n : n = [k EXCEPT !.pc = "settle", !.read = s, !.why = why, !.held = held, !.then = then]
  OBVIOUS
<1>3. s \in ExecutionStatus \cup {None} /\ (s \in TERMINAL_EXECUTION_STATUSES => Terminal(k.run)')
  BY <1>1, Current DEF Terminal
<1>4. n \in TaskType
  <2>1. s \in ExecutionStatus \cup {None} /\ why \in RunSettlement
    BY <1>3
  <2> HIDE DEF ExecutionStatus, RunSettlement, Excuses
  <2> QED
    BY <1>2, <2>1, SettleRecord
<1>5. n.pc = "settle" /\ n.run = k.run /\ n.why = why /\ n.read = s
  BY <1>2 DEF TaskType
<1>6. Exists(k.run)'
  BY DEF Exists, ledger
<1>7. Fit(n)'
  BY <1>3, <1>4, <1>5, <1>6, EndingFit
<1> QED
  BY <1>1, <1>2, <1>4, <1>7, Land DEF SettleRun

\* The head of a step: nothing is written, and the status it read is the one the claim uses.
LEMMA StepOK ==
    ASSUME Inv, NEW t \in Tasks, Step(t)
    PROVE  [LedgerNext]_ledger /\ Inv'
<1>1. UNCHANGED <<ledger, called>> /\ At(t, "enter") /\ Grows
  BY DEF Step, gateway, Grows
<1>2. PICK k \in TaskType : k = task[t] /\ Fit(k)'
  BY <1>1, Current, FitPersists
<1>3. PICK s : s = status[k.run] /\ s = status'[k.run]
  BY <1>1 DEF ledger
<1>4. /\ k.run \in Runs /\ Exists(k.run)' /\ s \in ExecutionStatus \cup {None}
      /\ s \in TERMINAL_EXECUTION_STATUSES => Terminal(k.run)'
  BY <1>1, <1>2, <1>3, Current DEF At, Terminal, Exists, ledger
<1>5. Moves(t)
  <2>1. ASSUME NEW kind, Become(t, AfterRaise(k, kind, s)) PROVE Moves(t)
    BY <2>1, <1>2, <1>4, AfterRaiseFit, Current DEF Moves, Become
  <2>2. ASSUME NEW why \in {"AUTHORITY_REVOKED", "MAX_TOKENS"}, NEW then \in {"auth", "domain"}, NEW n,
          n = [k EXCEPT !.pc = "undispatched", !.read = s, !.why = why, !.then = then], Become(t, n)
        PROVE Moves(t)
    <3>1. n \in TaskType
      BY <2>2, <1>4 DEF TaskType
    <3>2. n.pc = "undispatched" /\ n.run = k.run /\ n.why = why /\ n.read = s
      BY <2>2 DEF TaskType
    <3> QED
      BY <2>2, <3>1, <3>2, <1>4, EndingFit, Current DEF Moves, Become
  <2>3. ASSUME NEW n, n = [k EXCEPT !.pc = "claim", !.read = s], Become(t, n), ~Terminal(k.run)
        PROVE Moves(t)
    <3>1. n \in TaskType
      BY <2>3, <1>4 DEF TaskType
    <3>2. n.pc = "claim" /\ n.run = k.run /\ n.read \in OpenStatuses
      BY <2>3, <1>1, <1>2, <1>3, <1>4, Current DEF TaskType, Terminal, Exists, At
    <3>3. Fit(n)'
      BY <3>2, <1>4 DEF Fit
    <3> QED
      BY <2>3, <3>1, <3>3, Current DEF Moves, Become
  <2> QED
    BY <2>1, <2>2, <2>3, <1>2, <1>3 DEF Step, Raise
<1>6. OtherTypes'
  BY DEF OtherTypes, dispatch, Step, gateway, bridge, bounds, Inv, TypeOK
<1> QED
  BY <1>1, <1>5, <1>6, Quiet DEF Step, gateway

\* A claim starts from an open envelope.
LEMMA ClaimOK ==
    ASSUME Inv, NEW t \in Tasks, Claim(t)
    PROVE  [LedgerNext]_ledger /\ Inv'
<1>1. ~At(t, "idle") /\ Grows /\ UNCHANGED <<called, approval, request, wrote>>
  BY DEF Claim, At, gateway, Grows
<1>2. task[t].run \in Runs
  BY <1>1, Current
<1>3. [LedgerNext]_ledger
  BY <1>2, NoneIsApart DEF Claim, CanAdvance, LedgerNext, LedgerStep, Open, Exists, Settled, Inv,
     LedgerInv, Coherent
<1>4. PICK k \in TaskType : k = task[t] /\ Fit(k)' /\ k.run \in Runs /\ Exists(k.run)'
  BY <1>1, <1>3, Take
<1>5. Moves(t)
  <2>1. ASSUME NEW n, n = [k EXCEPT !.pc = "begin", !.first = FALSE] \/ n = [k EXCEPT !.pc = "begin"],
               Become(t, n)
        PROVE  Moves(t)
    <3>1. n \in TaskType
      <4>1. [k EXCEPT !.pc = "begin", !.first = FALSE] \in TaskType
        BY DEF TaskType
      <4>2. [k EXCEPT !.pc = "begin"] \in TaskType
        BY DEF TaskType
      <4> QED
        BY <2>1, <4>1, <4>2
    <3>2. n.pc = "begin" /\ n.run = k.run /\ n.read = k.read
      BY <2>1 DEF TaskType
    <3>3. k.pc = "claim"
      BY <1>4 DEF Claim, At
    <3>4. Fit(n)'
      BY <1>4, <3>2, <3>3 DEF Fit
    <3> QED
      BY <2>1, <3>1, <3>4, Land
  <2> QED
    BY <1>1, <1>3, <1>4, <2>1, LandRaise DEF Claim, Goto
<1>6. OtherTypes'
  BY DEF OtherTypes, dispatch, Claim, gateway, bridge, bounds, Inv, TypeOK
<1> QED
  BY <1>1, <1>3, <1>5, <1>6, Quiet

\* A session is opened, and a run no turn has started yet goes on to be marked,
LEMMA NewSessionOK ==
    ASSUME Inv, NEW t \in Tasks, NewSession(t)
    PROVE  [LedgerNext]_ledger /\ Inv'
<1>1. ~At(t, "idle") /\ At(t, "begin") /\ Grows /\ UNCHANGED <<ledger, called, approval, request, wrote>>
  BY DEF NewSession, At, gateway, Grows, ledger
<1>2. task[t].run \in Runs
  BY <1>1, Current
<1>3. [LedgerNext]_ledger
  BY <1>1
<1>4. PICK k \in TaskType : k = task[t] /\ Fit(k)' /\ k.run \in Runs /\ Exists(k.run)'
  BY <1>1, <1>3, Take
<1>5. Moves(t)
  <2>1. PICK next \in {"cancelled", "prompt", "mark"} : Become(t, [k EXCEPT !.pc = next])
    BY <1>4 DEF NewSession, Prompts, Goto
  <2>2. PICK n : n = [k EXCEPT !.pc = next]
    OBVIOUS
  <2>3. n \in TaskType /\ n.pc = next /\ n.run = k.run /\ n.read = k.read
    BY <2>1, <2>2 DEF TaskType, PCs
  <2>4. k.read \in OpenStatuses
    BY <1>1, <1>4 DEF At, Fit, WritesFromRead
  <2>5. Fit(n)'
    BY <1>4, <2>1, <2>3, <2>4 DEF Fit, WritesCall, WritesSettlement
  <2> QED
    BY <2>1, <2>2, <2>3, <2>5, Land
<1>6. OtherTypes'
  BY <1>2 DEF OtherTypes, dispatch, NewSession, gateway, bridge, bounds, Inv, TypeOK
<1> QED
  BY <1>1, <1>3, <1>5, <1>6, Quiet

\* which is a compare and swap on the status read at the head (mark_running).
LEMMA MarkRunningOK ==
    ASSUME Inv, NEW t \in Tasks, MarkRunning(t)
    PROVE  [LedgerNext]_ledger /\ Inv'
<1>1. /\ ~At(t, "idle") /\ At(t, "mark") /\ Grows
      /\ UNCHANGED <<called, approval, request, wrote>>
  BY DEF MarkRunning, At, gateway, Grows
<1>2. task[t].run \in Runs /\ task[t].read \in OpenStatuses
  BY <1>1, Current DEF At, Fit, WritesFromRead
<1>3. [LedgerNext]_ledger
  BY <1>2 DEF MarkRunning, LedgerNext, LedgerStep, OpenStatuses
<1>4. PICK k \in TaskType : k = task[t] /\ Fit(k)' /\ k.run \in Runs /\ Exists(k.run)'
  BY <1>1, <1>3, Take
<1>5. Moves(t)
  <2>1. ASSUME NEW next \in {"cancelled", "prompt"}, NEW n,
               n = [k EXCEPT !.pc = next, !.read = "RUNNING"], Become(t, n)
        PROVE  Moves(t)
    <3>1. n \in TaskType /\ n.pc = next /\ n.run = k.run /\ n.read = "RUNNING"
      BY <2>1 DEF TaskType, PCs, ExecutionStatus, OpenStatuses
    <3>2. Fit(n)'
      BY <1>4, <2>1, <3>1 DEF Fit, OpenStatuses, TERMINAL_EXECUTION_STATUSES, WritesCall, WritesSettlement
    <3> QED
      BY <2>1, <3>1, <3>2, Land
  <2>2. CASE status[k.run] = k.read
    BY <1>4, <2>1, <2>2 DEF MarkRunning, Prompts
  <2>3. CASE status[k.run] # k.read
    BY <1>1, <1>3, <1>4, <2>3, LandRaise DEF MarkRunning
  <2> QED
    BY <2>2, <2>3
<1>6. OtherTypes'
  BY <1>2 DEF OtherTypes, dispatch, MarkRunning, gateway, bridge, bounds, Inv, TypeOK
<1> QED
  BY <1>1, <1>3, <1>5, <1>6, Quiet

\* The status a prompt writes from was open when it was read.
LEMMA ReadIsOpen ==
    ASSUME Inv, NEW t \in Tasks, task[t].pc \in WritesFromRead
    PROVE  task[t].read \in OpenStatuses /\ task[t].run \in Runs
BY Current DEF Fit, At

\* A failed prompt terminalizes from the open status read at the head.
LEMMA ProviderFailsOK ==
    ASSUME Inv, NEW t \in Tasks, ProviderFails(t)
    PROVE  [LedgerNext]_ledger /\ Inv'
<1>1. ~At(t, "idle") /\ Grows /\ UNCHANGED <<called, approval, request, wrote>>
  BY DEF ProviderFails, At, gateway, Grows
<1>2. task[t].read \in OpenStatuses /\ task[t].run \in Runs
  BY ReadIsOpen DEF ProviderFails, At
<1>3. [LedgerNext]_ledger
  BY <1>2 DEF ProviderFails, CanTerminalize, LedgerNext, LedgerStep
<1>4. Moves(t)
  BY <1>1, <1>3, LandReturn, LandRaise DEF ProviderFails
<1>5. OtherTypes'
  BY DEF OtherTypes, dispatch, ProviderFails, gateway, bridge, bounds, Inv, TypeOK
<1> QED
  BY <1>1, <1>3, <1>4, <1>5, Quiet

\* The answer is published from that same status.
LEMMA FinishOK ==
    ASSUME Inv, NEW t \in Tasks, Finish(t)
    PROVE  [LedgerNext]_ledger /\ Inv'
<1>1. ~At(t, "idle") /\ Grows /\ UNCHANGED <<called, approval, request, wrote>>
  BY DEF Finish, At, gateway, Grows
<1>2. task[t].read \in OpenStatuses /\ task[t].run \in Runs
  BY ReadIsOpen DEF Finish, At
<1>3. [LedgerNext]_ledger
  BY <1>2 DEF Finish, LedgerNext, LedgerStep
<1>4. Moves(t)
  BY <1>1, <1>3, LandReturn, LandRaise DEF Finish
<1>5. OtherTypes'
  BY DEF OtherTypes, dispatch, Finish, gateway, bridge, bounds, Inv, TypeOK
<1> QED
  BY <1>1, <1>3, <1>4, <1>5, Quiet

\* A heartbeat reads an open envelope: its state is one of the three open ones,
LEMMA ProviderAnswersOK ==
    ASSUME Inv, NEW t \in Tasks, ProviderAnswers(t)
    PROVE  [LedgerNext]_ledger /\ Inv'
<1>1. /\ ~At(t, "idle") /\ At(t, "prompt") /\ Grows /\ UNCHANGED ledger
      /\ UNCHANGED <<called, approval, request, wrote>>
  BY DEF ProviderAnswers, At, gateway, Grows
<1>2. PICK k \in TaskType : k = task[t] /\ Fit(k)' /\ k.run \in Runs /\ Exists(k.run)' /\ Exists(k.run)
  BY <1>1, Take
<1>3. PICK h : h = harness[k.run]
  OBVIOUS
<1>4. k.read \in OpenStatuses
  BY <1>1, <1>2, ReadIsOpen DEF At
<1>5. Moves(t)
  <2>1. ASSUME NEW n, n = [k EXCEPT !.pc = "answer"], Become(t, n) PROVE Moves(t)
    <3>1. n \in TaskType
      BY <2>1 DEF TaskType
    <3>2. n.pc = "answer" /\ n.run = k.run /\ n.read = k.read
      BY <2>1 DEF TaskType
    <3> QED
      BY <1>2, <1>4, <2>1, <3>1, <3>2, Land DEF Fit
  <2>2. ASSUME ~Settled(k.run), NEW n, n = [k EXCEPT !.pc = "beat", !.state = h], Become(t, n)
        PROVE  Moves(t)
    <3>1. h \in OpenHarnessStates
      BY <1>2, <1>3, <2>2 DEF Inv, LedgerInv, LedgerTypeOK, Coherent, Settled
    <3>2. n \in TaskType
      BY <2>2, <3>1 DEF TaskType
    <3>3. n.pc = "beat" /\ n.run = k.run /\ n.read = k.read /\ n.state = h
      BY <2>2 DEF TaskType
    <3>4. Fit(n)'
      BY <1>2, <1>4, <3>1, <3>3 DEF Fit
    <3> QED
      BY <2>2, <3>2, <3>4, Land
  <2> QED
    BY <1>2, <1>3, <2>1, <2>2 DEF ProviderAnswers, Goto
<1>6. OtherTypes'
  BY DEF OtherTypes, dispatch, ProviderAnswers, gateway, bridge, bounds, Inv, TypeOK
<1> QED
  BY <1>1, <1>5, <1>6, Quiet

\* and that is the state it writes back.
LEMMA RenewLeaseOK ==
    ASSUME Inv, NEW t \in Tasks, RenewLease(t)
    PROVE  [LedgerNext]_ledger /\ Inv'
<1>1. /\ ~At(t, "idle") /\ At(t, "beat") /\ Grows
      /\ UNCHANGED <<called, approval, request, wrote>>
  BY DEF RenewLease, At, gateway, Grows
<1>2. task[t].run \in Runs /\ task[t].state \in OpenHarnessStates
  BY <1>1, Current DEF Fit, At
<1>3. [LedgerNext]_ledger
  BY <1>2 DEF RenewLease, CanAdvance, LedgerNext, LedgerStep
<1>4. PICK k \in TaskType : k = task[t] /\ Fit(k)' /\ k.run \in Runs /\ Exists(k.run)'
  BY <1>1, <1>3, Take
<1>5. Moves(t)
  <2>1. PICK n : n = [k EXCEPT !.pc = "answer", !.state = None]
    OBVIOUS
  <2>2. n \in TaskType
    BY <2>1 DEF TaskType
  <2>3. n.pc = "answer" /\ n.run = k.run /\ n.read = k.read
    BY <2>1 DEF TaskType
  <2>4. k.read \in OpenStatuses
    BY <1>1, <1>4, ReadIsOpen DEF At
  <2>5. Fit(n)'
    BY <1>4, <2>3, <2>4 DEF Fit
  <2> QED
    BY <1>4, <2>1, <2>2, <2>5, Land DEF RenewLease
<1>6. OtherTypes'
  BY DEF OtherTypes, dispatch, RenewLease, gateway, bridge, bounds, Inv, TypeOK
<1> QED
  BY <1>1, <1>3, <1>5, <1>6, Quiet

\* A turn without an answer is handed to _settle_run, or was settled by somebody else.
LEMMA WithoutAnswerOK ==
    ASSUME Inv, NEW t \in Tasks, WithoutAnswer(t)
    PROVE  [LedgerNext]_ledger /\ Inv'
<1>1. /\ ~At(t, "idle") /\ Grows /\ UNCHANGED ledger
      /\ UNCHANGED <<called, approval, request, wrote>>
  BY DEF WithoutAnswer, At, gateway, Grows
<1>2. PICK k \in TaskType : k = task[t] /\ k.run \in Runs /\ Exists(k.run)
  BY <1>1, Take
<1>3. Moves(t)
  BY <1>1, <1>2, LandReturn, LandSettle DEF WithoutAnswer, NoLease
<1>4. OtherTypes'
  BY DEF OtherTypes, dispatch, WithoutAnswer, gateway, bridge, bounds, Inv, TypeOK
<1> QED
  BY <1>1, <1>3, <1>4, Quiet

\* A handler that starts with the status it has just read.
LEMMA LandStart ==
    ASSUME Inv, NEW t \in Tasks, NEW e \in Runs, UNCHANGED ledger,
           NEW pc \in {"cancel", "pause", "unpause", "update"}, Exists(e),
           pc # "update" => status[e] \in OpenStatuses, Starts(t, e, pc)
    PROVE  Moves(t)
<1>1. PICK s : s = status[e] /\ s = status'[e]
  BY DEF ledger
<1>2. PICK n : n = [Idle EXCEPT !.pc = pc, !.run = e, !.read = s]
  OBVIOUS
<1>3. s \in ExecutionStatus /\ (s \in TERMINAL_EXECUTION_STATUSES => Terminal(e)') /\ Exists(e)'
  BY <1>1, Current DEF Exists, Terminal
<1>4. n \in TaskType
  BY <1>2, <1>3 DEF TaskType, Idle, NoLease
<1>5. n.pc = pc /\ n.run = e /\ n.read = s
  BY <1>2 DEF Idle
<1>6. Fit(n)'
  BY <1>1, <1>3, <1>5 DEF Fit
<1> QED
  BY <1>1, <1>2, <1>4, <1>6, Land DEF Starts

\* An attempt is charged to an open run only.
LEMMA ParkIfSpentOK ==
    ASSUME Inv, NEW t \in Tasks, ParkIfSpent(t)
    PROVE  [LedgerNext]_ledger /\ Inv'
<1>1. /\ ~At(t, "idle") /\ At(t, "park") /\ Grows
      /\ UNCHANGED <<called, approval, request, wrote>>
  BY DEF ParkIfSpent, At, gateway, Grows
<1>2. task[t].run \in Runs
  BY <1>1, Current
<1>3. [LedgerNext]_ledger
  BY <1>2 DEF ParkIfSpent, LedgerNext, LedgerStep
<1>4. PICK k \in TaskType : /\ k = task[t] /\ Fit(k)' /\ k.run \in Runs
                            /\ Exists(k.run)' /\ Exists(k.run)
  BY <1>1, <1>3, Take
<1>5. Moves(t)
  <2>1. ASSUME NEW n, n = [k EXCEPT !.pc = "enter"], Become(t, n) PROVE Moves(t)
    <3>1. n \in TaskType
      BY <2>1 DEF TaskType
    <3>2. n.pc = "enter" /\ n.run = k.run /\ n.read = k.read
      BY <2>1 DEF TaskType
    <3> QED
      BY <1>4, <2>1, <3>1, <3>2, LandPlain DEF Plain, Fit
  <2> QED
    BY <1>1, <1>3, <1>4, <2>1, LandReturn, LandSettle DEF ParkIfSpent, Goto, NoLease
<1>6. OtherTypes'
  BY DEF OtherTypes, dispatch, ParkIfSpent, gateway, bridge, bounds, Inv, TypeOK
<1> QED
  BY <1>1, <1>3, <1>5, <1>6, Quiet

\* An approved call still names the run its reviewer decided.
LEMMA AdvanceApprovedOK ==
    ASSUME Inv, NEW t \in Tasks, AdvanceApproved(t)
    PROVE  [LedgerNext]_ledger /\ Inv'
<1>1. /\ ~At(t, "idle") /\ At(t, "advance") /\ Grows
      /\ UNCHANGED <<called, approval, request, wrote>>
  BY DEF AdvanceApproved, At, gateway, Grows
<1>2. task[t].run \in Runs
  BY <1>1, Current
<1>3. [LedgerNext]_ledger
  BY <1>2 DEF AdvanceApproved, CanAdvance, LedgerNext, LedgerStep
<1>4. PICK k \in TaskType : k = task[t] /\ Fit(k)' /\ k.run \in Runs /\ Exists(k.run)'
  BY <1>1, <1>3, Take
<1>5. Moves(t)
  <2>1. PICK n : n = [k EXCEPT !.pc = "tool", !.then = "resume"]
    OBVIOUS
  <2>2. n \in TaskType
    BY <2>1 DEF TaskType
  <2>3. n.pc = "tool" /\ n.run = k.run /\ n.read = k.read /\ n.call = k.call
    BY <2>1 DEF TaskType
  <2>4. Fit(n)'
    BY <1>1, <1>4, <2>3 DEF Fit, At
  <2> QED
    BY <1>4, <2>1, <2>2, <2>4, Land DEF AdvanceApproved
<1>6. OtherTypes'
  BY DEF OtherTypes, dispatch, AdvanceApproved, gateway, bridge, bounds, Inv, TypeOK
<1> QED
  BY <1>1, <1>3, <1>5, <1>6, Quiet

\* Claiming the suspended turn changes no call and no record of the run.
LEMMA ResumeSuspendedTurnOK ==
    ASSUME Inv, NEW t \in Tasks, ResumeSuspendedTurn(t)
    PROVE  [LedgerNext]_ledger /\ Inv'
<1>1. /\ ~At(t, "idle") /\ Grows /\ UNCHANGED ledger
      /\ UNCHANGED <<called, approval, request, wrote>>
  BY DEF ResumeSuspendedTurn, At, Grows
<1>2. PICK k \in TaskType : k = task[t] /\ Fit(k)' /\ k.run \in Runs /\ Exists(k.run)'
  BY <1>1, Take
<1>3. Moves(t)
  <2>1. ASSUME NEW n, n = [k EXCEPT !.pc = "park"], Become(t, n) PROVE Moves(t)
    <3>1. n \in TaskType
      BY <2>1 DEF TaskType
    <3>2. n.pc = "park" /\ n.run = k.run /\ n.read = k.read
      BY <2>1 DEF TaskType
    <3> QED
      BY <1>2, <2>1, <3>1, <3>2, LandPlain DEF Plain, Fit
  <2>2. ASSUME NEW n, Become(t, n),
               n = [k EXCEPT !.pc = "unresumable", !.via = "route", !.why = "ORPHANED"]
        PROVE  Moves(t)
    <3>1. n \in TaskType
      BY <2>2 DEF TaskType
    <3>2. n.pc = "unresumable" /\ n.run = k.run /\ n.read = k.read /\ n.why = "ORPHANED"
      BY <2>2 DEF TaskType
    <3>3. Fit(n)'
      BY <1>2, <3>1, <3>2, EndingFit DEF Fit
    <3> QED
      BY <2>2, <3>1, <3>3, Land
  <2> QED
    BY <1>2, <2>1, <2>2 DEF ResumeSuspendedTurn, Goto
<1>4. OtherTypes'
  BY DEF OtherTypes, dispatch, ResumeSuspendedTurn, ClaimTurn, bridge, bounds, Inv, TypeOK
<1> QED
  BY <1>1, <1>3, <1>4, Quiet

\* A turn nobody can resume is handed to _settle_run under the name it was given.
LEMMA UnresumableOK ==
    ASSUME Inv, NEW t \in Tasks, Unresumable(t)
    PROVE  [LedgerNext]_ledger /\ Inv'
<1>1. /\ ~At(t, "idle") /\ At(t, "unresumable") /\ Grows /\ UNCHANGED ledger
      /\ UNCHANGED <<called, approval, request, wrote>>
  BY DEF Unresumable, At, gateway, Grows
<1>2. PICK k \in TaskType : /\ k = task[t] /\ k.run \in Runs /\ Exists(k.run)
                            /\ k.why \in RunSettlement \ {"END_TURN"}
  BY <1>1, Take DEF At, Fit
<1>3. Moves(t)
  BY <1>2, LandIdle, LandSettle, <1>1 DEF Unresumable, NoLease
<1>4. OtherTypes'
  BY DEF OtherTypes, dispatch, Unresumable, gateway, bridge, bounds, Inv, TypeOK
<1> QED
  BY <1>1, <1>3, <1>4, Quiet

\* An undispatched run is terminalized from an open status, never as an answer.
LEMMA SettleUndispatchedOK ==
    ASSUME Inv, NEW t \in Tasks, SettleUndispatched(t)
    PROVE  [LedgerNext]_ledger /\ Inv'
<1>1. /\ ~At(t, "idle") /\ At(t, "undispatched") /\ Grows
      /\ UNCHANGED <<called, approval, request, wrote>>
  BY DEF SettleUndispatched, At, gateway, Grows
<1>2. task[t].run \in Runs /\ task[t].why \in RunSettlement \ {"END_TURN"}
  BY <1>1, Current DEF Fit, At
<1>3. [LedgerNext]_ledger
  BY <1>2 DEF SettleUndispatched, CanTerminalize, LedgerNext, LedgerStep
<1>4. Moves(t)
  BY <1>1, <1>3, LandIdle, LandRaise DEF SettleUndispatched
<1>5. OtherTypes'
  BY DEF OtherTypes, dispatch, SettleUndispatched, gateway, bridge, bounds, Inv, TypeOK
<1> QED
  BY <1>1, <1>3, <1>4, <1>5, Quiet

\* _settle_run: a status that read terminal is terminal, so only the envelope may be
\* written; one that read open is swapped.
LEMMA SettleOK ==
    ASSUME Inv, NEW t \in Tasks, Settle(t)
    PROVE  [LedgerNext]_ledger /\ Inv'
<1>1. /\ ~At(t, "idle") /\ At(t, "settle") /\ Grows
      /\ UNCHANGED <<called, approval, request, wrote>>
  BY DEF Settle, At, gateway, Grows
<1>2. /\ task[t].run \in Runs /\ task[t].why \in RunSettlement \ {"END_TURN"}
      /\ task[t].read \in TERMINAL_EXECUTION_STATUSES => Terminal(task[t].run)
  BY <1>1, Current DEF Fit, At
<1>3. FinalStatus(task[t].why) \in {"FAILED", "CANCELLED"}
  BY DEF FinalStatus
<1>4. [LedgerNext]_ledger
  BY <1>2, <1>3 DEF Settle, CanTerminalize, LedgerNext, LedgerStep
<1>5. PICK k \in TaskType : k = task[t] /\ Fit(k)' /\ k.run \in Runs /\ Exists(k.run)'
  BY <1>1, <1>4, Take
<1>6. Moves(t)
  <2>1. ASSUME NEW n, Become(t, n),
               n = [k EXCEPT !.pc = "discard", !.held = NoLease, !.read = None, !.why = None]
        PROVE  Moves(t)
    <3>1. n \in TaskType
      BY <2>1 DEF TaskType, NoLease
    <3>2. n.pc = "discard" /\ n.run = k.run /\ n.read = None
      BY <2>1 DEF TaskType
    <3> QED
      BY <1>5, <2>1, <3>1, <3>2, NoneIsApart, LandPlain DEF Plain
  <2>2. ASSUME NEW j, j = [k EXCEPT !.held = NoLease], Become(t, AfterSettle(j)) PROVE Moves(t)
    <3>1. j \in TaskType
      BY <2>2 DEF TaskType, NoLease
    <3>2. /\ j.pc = k.pc /\ j.run = k.run /\ j.read = k.read /\ j.why = k.why
          /\ j.call = k.call /\ j.state = k.state
      BY <2>2 DEF TaskType
    <3>3. Fit(j)'
      BY <1>5, <3>2 DEF Fit
    <3> QED
      BY <1>5, <2>2, <3>1, <3>2, <3>3, AfterSettleFit, Land DEF Fit
  <2> QED
    BY <1>5, <2>1, <2>2 DEF Settle
<1>7. OtherTypes'
  BY DEF OtherTypes, dispatch, Settle, gateway, bridge, bounds, Inv, TypeOK
<1> QED
  BY <1>1, <1>4, <1>6, <1>7, Quiet

\* Discarding the suspended turn leaves every call and record alone.
LEMMA DiscardOK ==
    ASSUME Inv, NEW t \in Tasks, Discard(t)
    PROVE  [LedgerNext]_ledger /\ Inv'
<1>1. /\ ~At(t, "idle") /\ Grows /\ UNCHANGED ledger
      /\ UNCHANGED <<called, approval, request, wrote>>
  BY DEF Discard, At, Grows
<1>2. PICK k \in TaskType : k = task[t] /\ Fit(k)' /\ k.run \in Runs /\ Exists(k.run)'
  BY <1>1, Take
<1>3. Moves(t)
  <2>1. ASSUME NEW n, n = [k EXCEPT !.pc = "list"], Become(t, n) PROVE Moves(t)
    <3>1. n \in TaskType
      BY <2>1 DEF TaskType
    <3>2. n.pc = "list" /\ n.run = k.run /\ n.read = k.read
      BY <2>1 DEF TaskType
    <3> QED
      BY <1>2, <2>1, <3>1, <3>2, LandPlain DEF Plain, Fit
  <2> QED
    BY <1>2, <2>1, LandIdle DEF Discard, Goto
<1>4. OtherTypes'
  BY DEF OtherTypes, dispatch, Discard, bridge, bounds, Inv, TypeOK
<1> QED
  BY <1>1, <1>3, <1>4, Quiet

\* Listing the undecided approvals writes nothing.
LEMMA ListPendingOK ==
    ASSUME Inv, NEW t \in Tasks, ListPending(t)
    PROVE  [LedgerNext]_ledger /\ Inv'
<1>1. /\ ~At(t, "idle") /\ Grows /\ UNCHANGED ledger
      /\ UNCHANGED <<called, approval, request, wrote>>
  BY DEF ListPending, At, gateway, Grows
<1>2. PICK k \in TaskType : k = task[t] /\ Fit(k)' /\ k.run \in Runs /\ Exists(k.run)'
  BY <1>1, Take
<1>3. PICK seen : seen = {c \in Calls : called[c] = k.run /\ approval[c] = "PENDING"}
  OBVIOUS
<1>4. PICK n : n = [k EXCEPT !.pc = "expire", !.seen = seen]
  OBVIOUS
<1>5. seen \in SUBSET Calls
  BY <1>3
<1>6. n \in TaskType
  BY <1>4, <1>5 DEF TaskType
<1>7. n.pc = "expire" /\ n.run = k.run /\ n.read = k.read
  BY <1>4 DEF TaskType
<1>8. Moves(t)
  BY <1>2, <1>3, <1>4, <1>6, <1>7, LandPlain DEF ListPending, Plain, Fit
<1>9. OtherTypes'
  BY DEF OtherTypes, dispatch, ListPending, gateway, bridge, bounds, Inv, TypeOK
<1> QED
  BY <1>1, <1>8, <1>9, Quiet

\* A launch opens a row that did not exist.
LEMMA OpenRunOK ==
    ASSUME Inv, NEW e \in Runs, OpenRun(e)
    PROVE  [LedgerNext]_ledger /\ Inv'
<1>1. attempts' = [attempts EXCEPT ![e] = 1]
  BY DEF OpenRun, OpenRow
<1>2. attempts'[e] \in Nat /\ OpenRow(e, attempts'[e])
  BY <1>1 DEF OpenRun, Inv, LedgerInv, LedgerTypeOK
<1>3. [LedgerNext]_ledger
  BY <1>2 DEF LedgerNext, LedgerStep
<1>4. OtherTypes'
  BY DEF OtherTypes, dispatch, OpenRun, gateway, bridge, bounds, Inv, TypeOK
<1> QED
  BY <1>3, <1>4, Quiet DEF OpenRun, gateway

\* A resumed run is a new row that starts one attempt further.
LEMMA ResumeAgentRunOK ==
    ASSUME Inv, NEW previous \in Runs, NEW e \in Runs, ResumeAgentRun(previous, e)
    PROVE  [LedgerNext]_ledger /\ Inv'
<1>1. /\ attempts' = [attempts EXCEPT ![e] = attempts[previous] + 1]
      /\ attempts \in [Runs -> Nat]
  BY DEF ResumeAgentRun, OpenRow, Inv, LedgerInv, LedgerTypeOK
<1>2. attempts'[e] \in Nat /\ OpenRow(e, attempts'[e])
  BY <1>1 DEF ResumeAgentRun
<1>3. [LedgerNext]_ledger
  BY <1>2 DEF LedgerNext, LedgerStep
<1>4. OtherTypes'
  BY DEF OtherTypes, dispatch, ResumeAgentRun, gateway, bridge, bounds, Inv, TypeOK
<1> QED
  BY <1>3, <1>4, Quiet DEF ResumeAgentRun, gateway

\* Entering a turn reads an existing run.
LEMMA EnterTurnOK ==
    ASSUME Inv, NEW t \in Tasks, NEW e \in Runs, NEW via \in {"route", "mention", "task"},
           EnterTurn(t, e, via)
    PROVE  [LedgerNext]_ledger /\ Inv'
<1>1. Exists(e)' /\ UNCHANGED ledger /\ UNCHANGED <<called, approval, request, wrote>>
  BY DEF EnterTurn, gateway, ledger, Exists
<1>2. PICK n : n = [Idle EXCEPT !.pc = "enter", !.run = e, !.via = via, !.first = TRUE]
  OBVIOUS
<1>3. n \in TaskType
  BY <1>2 DEF TaskType, Idle, NoLease
<1>4. n.pc = "enter" /\ n.run = e /\ n.read = None
  BY <1>2 DEF Idle
<1>5. Moves(t)
  BY <1>1, <1>2, <1>3, <1>4, NoneIsApart, LandPlain DEF EnterTurn, Plain
<1>6. OtherTypes'
  BY DEF OtherTypes, dispatch, EnterTurn, gateway, bridge, bounds, Inv, TypeOK
<1> QED
  BY <1>1, <1>5, <1>6, Quiet

\* A cancellation carries the open status it read,
LEMMA CancelOK ==
    ASSUME Inv, NEW t \in Tasks, NEW e \in Runs, Cancel(t, e)
    PROVE  [LedgerNext]_ledger /\ Inv'
<1>1. status[e] \in OpenStatuses
  BY Current DEF Cancel, Exists, Terminal
<1>2. Moves(t)
  BY <1>1, LandStart DEF Cancel
<1>3. OtherTypes'
  BY DEF OtherTypes, dispatch, Cancel, gateway, bridge, bounds, Inv, TypeOK
<1> QED
  BY <1>2, <1>3, Quiet DEF Cancel, gateway

\* and swaps that status.
LEMMA CommitCancelOK ==
    ASSUME Inv, NEW t \in Tasks, CommitCancel(t)
    PROVE  [LedgerNext]_ledger /\ Inv'
<1>1. ~At(t, "idle") /\ Grows /\ UNCHANGED <<called, approval, request, wrote>>
  BY DEF CommitCancel, At, gateway, Grows
<1>2. task[t].read \in OpenStatuses /\ task[t].run \in Runs
  BY ReadIsOpen DEF CommitCancel, At
<1>3. [LedgerNext]_ledger
  BY <1>2 DEF CommitCancel, CanTerminalize, LedgerNext, LedgerStep
<1>4. PICK e \in Runs : e = task[t].run /\ Exists(e)'
  BY <1>1, <1>3, Take
<1>5. Moves(t)
  <2>1. ASSUME NEW n, n = [Idle EXCEPT !.pc = "discard", !.run = e], Become(t, n)
        PROVE  Moves(t)
    <3>1. n \in TaskType
      BY <2>1 DEF TaskType, Idle, NoLease
    <3>2. n.pc = "discard" /\ n.run = e /\ n.read = None
      BY <2>1 DEF Idle
    <3> QED
      BY <1>4, <2>1, <3>1, <3>2, NoneIsApart, LandPlain DEF Plain
  <2> QED
    BY <1>4, <2>1, LandIdle DEF CommitCancel
<1>6. OtherTypes'
  BY DEF OtherTypes, dispatch, CommitCancel, gateway, bridge, bounds, Inv, TypeOK
<1> QED
  BY <1>1, <1>3, <1>5, <1>6, Quiet

\* Removing an agent ends an open run from whatever open status it has.
LEMMA RemoveAgentOK ==
    ASSUME Inv, NEW t \in Tasks, NEW e \in Runs, RemoveAgent(t, e)
    PROVE  [LedgerNext]_ledger /\ Inv'
<1>1. status[e] \in OpenStatuses \cup TERMINAL_EXECUTION_STATUSES
  BY Current DEF RemoveAgent, Open, Exists
<1>2. [LedgerNext]_ledger
  BY <1>1 DEF RemoveAgent, LedgerNext, LedgerStep, Terminal
<1>3. Exists(e)'
  BY <1>2, RunPersists DEF RemoveAgent, Open, Inv
<1>4. PICK n : n = [Idle EXCEPT !.pc = "list", !.run = e]
  OBVIOUS
<1>5. n \in TaskType
  BY <1>4 DEF TaskType, Idle, NoLease
<1>6. n.pc = "list" /\ n.run = e /\ n.read = None
  BY <1>4 DEF Idle
<1>7. Moves(t)
  BY <1>3, <1>4, <1>5, <1>6, NoneIsApart, LandPlain DEF RemoveAgent, Plain
<1>8. OtherTypes'
  BY DEF OtherTypes, dispatch, RemoveAgent, bridge, bounds, Inv, TypeOK
<1> QED
  BY <1>2, <1>7, <1>8, Quiet DEF RemoveAgent

\* A sweep hands its settlement, never END_TURN, to _settle_run.
LEMMA SweepOK ==
    ASSUME Inv, NEW t \in Tasks, NEW e \in Runs, Sweep(t, e)
    PROVE  [LedgerNext]_ledger /\ Inv'
<1>1. PICK k : k = [Idle EXCEPT !.run = e]
  OBVIOUS
<1>2. k \in TaskType /\ k.run = e
  BY <1>1 DEF TaskType, Idle, NoLease
<1>3. lease[e] \in Nat
  BY DEF Inv, LedgerInv, LedgerTypeOK
<1>4. PICK held \in Nat : held = lease[e]
  BY <1>3
<1>5. PICK why \in {"APPROVAL_EXPIRED", "PARKED", "ORPHANED"} :
          Become(t, SettleRun([Idle EXCEPT !.run = e], why, held, None))
  BY <1>4 DEF Sweep
<1>6. Moves(t)
  BY <1>1, <1>2, <1>5, LandSettle DEF Sweep, Sweepable, Open
<1>7. OtherTypes'
  BY DEF OtherTypes, dispatch, Sweep, gateway, bridge, bounds, Inv, TypeOK
<1> QED
  BY <1>6, <1>7, Quiet DEF Sweep, gateway

\* The startup sweep carries a run it found, then the status it read of it.
LEMMA ListOrphanOK ==
    ASSUME Inv, NEW t \in Tasks, NEW e \in Runs, ListOrphan(t, e)
    PROVE  [LedgerNext]_ledger /\ Inv'
<1>1. Exists(e)' /\ UNCHANGED ledger /\ UNCHANGED <<called, approval, request, wrote>>
  BY NoneIsApart DEF ListOrphan, gateway, ledger, Exists
<1>2. PICK n : n = [Idle EXCEPT !.pc = "orphan", !.run = e]
  OBVIOUS
<1>3. n \in TaskType
  BY <1>2 DEF TaskType, Idle, NoLease
<1>4. n.pc = "orphan" /\ n.run = e /\ n.read = None
  BY <1>2 DEF Idle
<1>5. Moves(t)
  BY <1>1, <1>2, <1>3, <1>4, NoneIsApart, LandPlain DEF ListOrphan, Plain
<1>6. OtherTypes'
  BY BoundsAssumption DEF OtherTypes, dispatch, ListOrphan, gateway, bridge, Inv, TypeOK
<1> QED
  BY <1>1, <1>5, <1>6, Quiet

\* _settle_orphaned_mention_runs carries the status it read to the settlement.
LEMMA SettleOrphanOK ==
    ASSUME Inv, NEW t \in Tasks, SettleOrphan(t)
    PROVE  [LedgerNext]_ledger /\ Inv'
<1>1. /\ ~At(t, "idle") /\ At(t, "orphan") /\ Grows /\ UNCHANGED ledger
      /\ UNCHANGED <<called, approval, request, wrote>>
  BY DEF SettleOrphan, At, gateway, Grows
<1>2. PICK k \in TaskType : k = task[t] /\ Fit(k)' /\ k.run \in Runs /\ Exists(k.run)'
  BY <1>1, Take
<1>3. PICK s \in ExecutionStatus \cup {None} : s = status[k.run] /\ s = status'[k.run]
  BY <1>1, <1>2, Current DEF ledger
<1>4. PICK n : n = [k EXCEPT !.pc = "undispatched", !.read = s, !.why = "ORPHANED"]
  OBVIOUS
<1>5. n \in TaskType
  BY <1>4 DEF TaskType
<1>6. n.pc = "undispatched" /\ n.run = k.run /\ n.read = s /\ n.why = "ORPHANED"
  BY <1>4 DEF TaskType
<1>7. Fit(n)'
  BY <1>2, <1>3, <1>6 DEF Fit, Terminal
<1>8. Moves(t)
  BY <1>2, <1>3, <1>4, <1>5, <1>7, Land DEF SettleOrphan
<1>9. OtherTypes'
  BY DEF OtherTypes, dispatch, SettleOrphan, gateway, bridge, bounds, Inv, TypeOK
<1> QED
  BY <1>1, <1>8, <1>9, Quiet

\* A pause or a resumption carries an open status,
LEMMA PauseOK ==
    ASSUME Inv, NEW t \in Tasks, NEW e \in Runs, NEW to \in {"PAUSED", "RUNNING"}, Pause(t, e, to)
    PROVE  [LedgerNext]_ledger /\ Inv'
<1>1. status[e] \in OpenStatuses /\ Exists(e)
  BY NoneIsApart DEF Pause, PausesFrom, Exists
<1>2. Moves(t)
  BY <1>1, LandStart DEF Pause
<1>3. OtherTypes'
  BY BoundsAssumption DEF OtherTypes, dispatch, Pause, gateway, bridge, Inv, TypeOK
<1> QED
  BY <1>2, <1>3, Quiet DEF Pause, gateway

\* which is what the swap starts from.
LEMMA CommitPauseOK ==
    ASSUME Inv, NEW t \in Tasks, NEW to \in {"PAUSED", "RUNNING"}, CommitPause(t, to)
    PROVE  [LedgerNext]_ledger /\ Inv'
<1>1. task[t].read \in OpenStatuses /\ task[t].run \in Runs
  BY ReadIsOpen DEF CommitPause, At
<1>2. [LedgerNext]_ledger
  BY <1>1 DEF CommitPause, LedgerNext, LedgerStep
<1>3. Moves(t)
  BY LandIdle DEF CommitPause
<1>4. OtherTypes'
  BY DEF OtherTypes, dispatch, CommitPause, gateway, bridge, bounds, Inv, TypeOK
<1> QED
  BY <1>2, <1>3, <1>4, Quiet DEF CommitPause, gateway

\* An update from the harness is received for an open run,
LEMMA ReceiveUpdateOK ==
    ASSUME Inv, NEW t \in Tasks, NEW e \in Runs, ReceiveUpdate(t, e)
    PROVE  [LedgerNext]_ledger /\ Inv'
<1>1. Moves(t)
  BY LandStart DEF ReceiveUpdate, Open
<1>2. OtherTypes'
  BY BoundsAssumption DEF OtherTypes, dispatch, ReceiveUpdate, gateway, bridge, Inv, TypeOK
<1> QED
  BY <1>1, <1>2, Quiet DEF ReceiveUpdate, gateway

\* and advances it only if it is still open.
LEMMA RecordUpdateOK ==
    ASSUME Inv, NEW t \in Tasks, RecordUpdate(t)
    PROVE  [LedgerNext]_ledger /\ Inv'
<1>1. task[t].run \in Runs
  BY Current DEF RecordUpdate, At
<1>2. [LedgerNext]_ledger
  BY <1>1 DEF RecordUpdate, CanAdvance, LedgerNext, LedgerStep
<1>3. Moves(t)
  BY LandIdle DEF RecordUpdate
<1>4. OtherTypes'
  BY DEF OtherTypes, dispatch, RecordUpdate, gateway, bridge, bounds, Inv, TypeOK
<1> QED
  BY <1>2, <1>3, <1>4, Quiet DEF RecordUpdate, gateway

\* A withdrawn grant touches neither ledger nor tasks.
LEMMA WithdrawOK ==
    ASSUME Inv, NEW e \in Runs, Withdraw(e)
    PROVE  [LedgerNext]_ledger /\ Inv'
<1>1. OtherTypes'
  BY DEF OtherTypes, dispatch, Withdraw, gateway, bridge, bounds, Inv, TypeOK
<1> QED
  BY <1>1, Quiet DEF Withdraw, gateway

\* Time passes over open runs only.
LEMMA LeaseExpiresOK ==
    ASSUME Inv, NEW e \in Runs, LeaseExpires(e)
    PROVE  [LedgerNext]_ledger /\ Inv'
<1>1. [LedgerNext]_ledger
  BY DEF LeaseExpires, LedgerNext, LedgerStep
<1>2. OtherTypes'
  BY DEF OtherTypes, dispatch, LeaseExpires, gateway, bridge, bounds, Inv, TypeOK
<1> QED
  BY <1>1, <1>2, Quiet DEF LeaseExpires, gateway

\* A dead task carries nothing, or a settlement.
LEMMA DieOK ==
    ASSUME Inv, NEW t \in Tasks, Die(t)
    PROVE  [LedgerNext]_ledger /\ Inv'
<1>1. Moves(t)
  <2>1. ~At(t, "idle") /\ UNCHANGED ledger /\ Grows
    BY DEF Die, gateway, Grows
  <2> QED
    BY <2>1, LandIdle, LandRaise DEF Die
<1>2. OtherTypes'
  BY BoundsAssumption DEF OtherTypes, dispatch, Die, gateway, bridge, Inv, TypeOK
<1> QED
  BY <1>1, <1>2, Quiet DEF Die, gateway

\* A restarted process carries nothing; the ledger is on disk.
LEMMA RestartOK ==
    ASSUME Inv, Restart
    PROVE  [LedgerNext]_ledger /\ Inv'
<1>1. LedgerInv'
  BY LedgerInductive DEF Inv, Restart
<1>2. TypeOK'
  BY <1>1, IdleFit, BoundsAssumption DEF Restart, gateway, dispatch, Inv, TypeOK, LedgerInv
<1>3. CarriedFacts'
  BY IdleFit, OwnedPersists DEF Restart, gateway, OwnedCalls, Inv, CarriedFacts
<1> QED
  BY <1>1, <1>2, <1>3 DEF Inv, Restart

\* A call the gateway or a member opens for a run that exists.
LEMMA OwnedGrows ==
    ASSUME Inv, [LedgerNext]_ledger, NEW c \in Calls, NEW e \in Runs, Exists(e)', Unused(c),
           called' = [called EXCEPT ![c] = e], UNCHANGED wrote,
           \A d \in Calls \ {c} : approval'[d] = approval[d] /\ request'[d] = request[d]
    PROVE  OwnedCalls' /\ Grows
<1>1. called \in [Calls -> Runs \cup {NoRun}]
  BY DEF Inv, TypeOK
<1>2. ASSUME NEW d \in Calls, d # c, Owned(d) PROVE Owned(d)'
  BY <1>1, <1>2, RunPersists DEF Owned, Inv
<1>3. Owned(c)'
  BY <1>1 DEF Owned
<1> QED
  BY <1>1, <1>2, <1>3 DEF OwnedCalls, Grows, Unused, Inv, CarriedFacts

\* A refused call belongs to the run that asked.
LEMMA GateDeniesOK ==
    ASSUME Inv, NEW t \in Tasks, NEW c \in Calls, GateDenies(t, c)
    PROVE  [LedgerNext]_ledger /\ Inv'
<1>1. ~At(t, "idle") /\ UNCHANGED ledger /\ Grows
  BY DEF GateDenies, At, Grows, Unused, Inv, TypeOK
<1>2. task[t].run \in Runs
  BY <1>1, Current
<1>3. PICK k \in TaskType : k = task[t] /\ Fit(k)' /\ k.run \in Runs /\ Exists(k.run)'
  BY <1>1, Take
<1>4. OwnedCalls'
  BY <1>1, <1>3, OwnedGrows DEF GateDenies, Inv, TypeOK
<1>5. PICK n : n = [k EXCEPT !.pc = "park"]
  OBVIOUS
<1>6. n \in TaskType
  BY <1>5 DEF TaskType
<1>7. n.pc = "park" /\ n.run = k.run /\ n.read = k.read
  BY <1>5 DEF TaskType
<1>8. Moves(t)
  BY <1>3, <1>5, <1>6, <1>7, LandPlain DEF GateDenies, Goto, Plain, Fit
<1>9. OtherTypes'
  BY <1>2 DEF OtherTypes, dispatch, GateDenies, bridge, bounds, Inv, TypeOK
<1> QED
  BY <1>1, <1>4, <1>8, <1>9, Assemble

\* A held call belongs to the run that asked, and the suspension needs an open envelope.
LEMMA GateSuspendsOK ==
    ASSUME Inv, NEW t \in Tasks, NEW c \in Calls, GateSuspends(t, c)
    PROVE  [LedgerNext]_ledger /\ Inv'
<1>1. ~At(t, "idle")
  BY DEF GateSuspends, At
<1>2. task[t].run \in Runs /\ Exists(task[t].run)
  BY <1>1, Current
<1>3. [LedgerNext]_ledger
  BY <1>2 DEF GateSuspends, CanAdvance, LedgerNext, LedgerStep
<1>4. PICK e \in Runs : e = task[t].run /\ Exists(e)'
  BY <1>2, <1>3, RunPersists DEF Inv
<1>5. OtherTypes'
  BY <1>2 DEF OtherTypes, dispatch, GateSuspends, gateway, bridge, bounds, Inv, TypeOK
<1>6. CASE CanAdvance(task[t].run, None)
  <2>1. OwnedCalls' /\ Grows
    BY <1>3, <1>4, <1>6, OwnedGrows DEF GateSuspends, Inv, TypeOK
  <2>2. Moves(t)
    BY <1>6, LandIdle DEF GateSuspends, AfterSuspend
  <2> QED
    BY <1>3, <1>5, <2>1, <2>2, Assemble
<1>7. CASE ~CanAdvance(task[t].run, None)
  <2>1. UNCHANGED gateway /\ Grows
    BY <1>7 DEF GateSuspends, gateway, Grows
  <2>2. Moves(t)
    BY <1>1, <1>3, <1>7, <2>1, LandRaise DEF GateSuspends
  <2> QED
    BY <1>3, <1>5, <2>1, <2>2, Quiet DEF gateway
<1> QED
  BY <1>6, <1>7

\* A permitted call is carried to its tool under the run that asked.
LEMMA GateAllowsOK ==
    ASSUME Inv, NEW t \in Tasks, NEW c \in Calls, GateAllows(t, c)
    PROVE  [LedgerNext]_ledger /\ Inv'
<1>1. ~At(t, "idle") /\ UNCHANGED ledger /\ Grows
  BY DEF GateAllows, At, Grows, Unused, Inv, TypeOK
<1>2. task[t].run \in Runs
  BY <1>1, Current
<1>3. PICK k \in TaskType : k = task[t] /\ Fit(k)' /\ k.run \in Runs /\ Exists(k.run)'
  BY <1>1, Take
<1>4. OwnedCalls'
  BY <1>1, <1>3, OwnedGrows DEF GateAllows, Inv, TypeOK
<1>5. PICK n : n = [k EXCEPT !.pc = "tool", !.call = c, !.then = "park"]
  OBVIOUS
<1>6. n \in TaskType
  BY <1>5 DEF TaskType
<1>7. n.pc = "tool" /\ n.run = k.run /\ n.read = k.read /\ n.call = c
  BY <1>5 DEF TaskType
<1>8. called'[c] = k.run
  BY <1>3 DEF GateAllows, Inv, TypeOK
<1>9. Fit(n)'
  BY <1>3, <1>7, <1>8 DEF Fit
<1>10. Moves(t)
  BY <1>3, <1>5, <1>6, <1>9, Land DEF GateAllows
<1>11. OtherTypes'
  BY <1>2 DEF OtherTypes, dispatch, GateAllows, bridge, bounds, Inv, TypeOK
<1> QED
  BY <1>1, <1>4, <1>10, <1>11, Assemble

\* An effect is recorded for a call its run owns.
LEMMA RunToolOK ==
    ASSUME Inv, NEW t \in Tasks, RunTool(t)
    PROVE  [LedgerNext]_ledger /\ Inv'
<1>1. ~At(t, "idle") /\ At(t, "tool") /\ UNCHANGED ledger /\ UNCHANGED called /\ Grows
  BY DEF RunTool, At, Grows
<1>2. PICK k \in TaskType : k = task[t] /\ Fit(k) /\ Fit(k)' /\ k.run \in Runs /\ Exists(k.run)'
  BY <1>1, Take
<1>3. k.call \in Calls /\ called[k.call] = k.run /\ Owned(k.call)
  BY <1>1, <1>2, Current DEF Fit, At, Owned
<1>4. OwnedCalls'
  BY <1>1, <1>2, <1>3, OwnedPersists DEF RunTool, Inv, CarriedFacts
<1>5. Moves(t)
  <2>1. ASSUME NEW why \in {"EXECUTED", "FAILED", "REJECTED", "AUTHORITY_REVOKED"}, NEW n,
               n = [k EXCEPT !.pc = "resolve", !.why = why], Become(t, n)
        PROVE  Moves(t)
    <3>1. n \in TaskType
      BY <2>1 DEF TaskType
    <3>2. n.pc = "resolve" /\ n.run = k.run /\ n.read = k.read /\ n.call = k.call /\ n.why = why
      BY <2>1 DEF TaskType
    <3>3. Fit(n)'
      BY <1>1, <1>2, <1>3, <2>1, <3>2 DEF Fit
    <3> QED
      BY <2>1, <3>1, <3>3, Land
  <2> QED
    BY <1>2, <2>1 DEF RunTool
<1>6. OtherTypes'
  BY <1>2, <1>3 DEF OtherTypes, dispatch, RunTool, bridge, bounds, Inv, TypeOK
<1> QED
  BY <1>1, <1>4, <1>5, <1>6, Assemble

\* A call is resolved under one of the request statuses, or its authority was revoked.
LEMMA ResolveCallOK ==
    ASSUME Inv, NEW t \in Tasks, ResolveCall(t)
    PROVE  [LedgerNext]_ledger /\ Inv'
<1>1. /\ ~At(t, "idle") /\ At(t, "resolve") /\ UNCHANGED ledger /\ UNCHANGED called /\ Grows
      /\ UNCHANGED <<approval, wrote>>
  BY DEF ResolveCall, At, Grows
<1>2. PICK k \in TaskType : /\ k = task[t] /\ Fit(k) /\ Fit(k)' /\ k.run \in Runs
                            /\ Exists(k.run)' /\ Exists(k.run)
  BY <1>1, Take
<1>3. /\ k.call \in Calls /\ called[k.call] = k.run /\ Owned(k.call)
      /\ k.why \in {"EXECUTED", "FAILED", "REJECTED", "AUTHORITY_REVOKED"}
  BY <1>1, <1>2 DEF Fit, At, Owned
<1>4. \A c \in Calls : request'[c] # None => Owned(c)
  <2>1. \A c \in Calls : c # k.call => request'[c] = request[c]
    BY <1>2 DEF ResolveCall, Inv, TypeOK
  <2> QED
    BY <1>3, <2>1 DEF Inv, CarriedFacts
<1>5. OwnedCalls'
  BY <1>1, <1>4, OwnedPersists DEF Inv, CarriedFacts
<1>6. PICK done : done = [k EXCEPT !.call = NoCall, !.why = None]
  OBVIOUS
<1>7. done \in TaskType
  BY <1>6 DEF TaskType
<1>8. done.run = k.run /\ done.pc = "resolve" /\ done.read = k.read /\ done.then = k.then
  BY <1>1, <1>2, <1>6 DEF TaskType, At
<1>9. Moves(t)
  <2>1. ASSUME Become(t, SettleRun(done, "AUTHORITY_REVOKED", NoLease, k.then)) PROVE Moves(t)
    <3>1. k.then \in Excuses
      BY DEF TaskType
    <3> QED
      BY <1>1, <1>2, <1>7, <1>8, <2>1, <3>1, LandSettle DEF NoLease
  <2>2. ASSUME Become(t, AfterSettle(done)) PROVE Moves(t)
    BY <1>2, <1>7, <1>8, <2>2, AfterSettleFit, Land DEF Fit
  <2> QED
    BY <1>2, <1>6, <2>1, <2>2 DEF ResolveCall
<1>10. OtherTypes'
  <2>1. request' \in [Calls -> RequestStatus \cup {None}]
    <3>1. (IF k.why = "AUTHORITY_REVOKED" THEN "REJECTED" ELSE k.why) \in RequestStatus
      BY <1>3
    <3> QED
      BY <1>2, <3>1 DEF ResolveCall, Inv, TypeOK
  <2> QED
    BY <2>1 DEF OtherTypes, dispatch, ResolveCall, bridge, bounds, Inv, TypeOK
<1> QED
  BY <1>1, <1>5, <1>9, <1>10, Assemble

\* A member's question belongs to the run it is asked about.
LEMMA RequestApprovalOK ==
    ASSUME Inv, NEW c \in Calls, NEW e \in Runs, RequestApproval(c, e)
    PROVE  [LedgerNext]_ledger /\ Inv'
<1>1. Exists(e)' /\ UNCHANGED ledger /\ UNCHANGED task
  BY DEF RequestApproval, ledger, Exists
<1>2. OwnedCalls' /\ Grows
  BY <1>1, OwnedGrows DEF RequestApproval, Inv, TypeOK
<1>3. OtherTypes'
  BY DEF OtherTypes, dispatch, RequestApproval, bridge, bounds, Inv, TypeOK
<1> QED
  BY <1>1, <1>2, <1>3, Assemble

\* The reviewer's doors keep every call with its run: only decided calls and
\* resolved requests change, and those had an approval already.
LEMMA ReviewedRun ==
    ASSUME Inv, NEW c \in Calls, approval[c] = "PENDING"
    PROVE  called[c] \in Runs /\ Exists(called[c]) /\ Owned(c)
BY NoneIsApart, NoneAssumption DEF Inv, CarriedFacts, Owned, Exists

\* An approval changes one decided call and writes nothing to the ledger.
LEMMA ApproveOK ==
    ASSUME Inv, NEW t \in Tasks, NEW c \in Calls, Approve(t, c)
    PROVE  [LedgerNext]_ledger /\ Inv'
<1>1. UNCHANGED ledger /\ UNCHANGED <<called, request, wrote>> /\ Grows
  BY DEF Approve, Grows
<1>2. PICK e \in Runs : e = called[c] /\ e = called'[c] /\ Exists(e)' /\ Owned(c)
  BY <1>1, ReviewedRun DEF Approve, Exists, ledger
<1>3. OwnedCalls'
  BY <1>1, <1>2, OwnedPersists DEF Approve, Inv, TypeOK, CarriedFacts
<1>4. UNCHANGED task \/ Moves(t)
  <2>1. ASSUME NEW pc \in {"advance", "deny"}, NEW n, Become(t, n),
               n = [[Idle EXCEPT !.run = e, !.call = c, !.via = "review"] EXCEPT !.pc = pc]
        PROVE  Moves(t)
    <3>1. n \in TaskType
      BY <2>1 DEF TaskType, Idle, NoLease
    <3>2. n.pc = pc /\ n.run = e /\ n.read = None /\ n.call = c
      BY <2>1 DEF Idle
    <3>3. Fit(n)'
      BY <1>2, <2>1, <3>2, NoneIsApart DEF Fit
    <3> QED
      BY <2>1, <3>1, <3>3, Land
  <2> QED
    BY <1>2, <2>1 DEF Approve
<1>5. OtherTypes'
  BY DEF OtherTypes, dispatch, Approve, bridge, bounds, Inv, TypeOK
<1> QED
  BY <1>1, <1>3, <1>4, <1>5, Assemble

\* A call approved but no longer permitted is resolved as refused.
LEMMA DenyApprovedOK ==
    ASSUME Inv, NEW t \in Tasks, DenyApproved(t)
    PROVE  [LedgerNext]_ledger /\ Inv'
<1>1. /\ ~At(t, "idle") /\ At(t, "deny") /\ UNCHANGED ledger /\ Grows
      /\ UNCHANGED <<called, approval, wrote>>
  BY DEF DenyApproved, At, Grows
<1>2. PICK k \in TaskType : /\ k = task[t] /\ Fit(k) /\ Fit(k)' /\ k.run \in Runs
                            /\ Exists(k.run)' /\ Exists(k.run)
  BY <1>1, Take
<1>3. k.call \in Calls /\ Owned(k.call)
  BY <1>1, <1>2 DEF Fit, At, Owned
<1>4. OwnedCalls'
  BY <1>1, <1>2, <1>3, OwnedPersists DEF DenyApproved, Inv, TypeOK, CarriedFacts
<1>5. Moves(t)
  <2>1. PICK n : n = [k EXCEPT !.pc = "resume", !.call = NoCall]
    OBVIOUS
  <2>2. n \in TaskType
    BY <2>1 DEF TaskType
  <2>3. n.pc = "resume" /\ n.run = k.run /\ n.read = k.read
    BY <2>1 DEF TaskType
  <2> QED
    BY <1>2, <2>1, <2>2, <2>3, LandPlain DEF DenyApproved, Plain, Fit
<1>6. OtherTypes'
  BY <1>2, <1>3 DEF OtherTypes, dispatch, DenyApproved, bridge, bounds, Inv, TypeOK
<1> QED
  BY <1>1, <1>4, <1>5, <1>6, Assemble

\* A refusal advances an open run or ends it from the open status it has.
LEMMA RejectOK ==
    ASSUME Inv, NEW t \in Tasks, NEW c \in Calls, NEW continue_turn \in BOOLEAN,
           Reject(t, c, continue_turn)
    PROVE  [LedgerNext]_ledger /\ Inv'
<1>1. UNCHANGED <<called, wrote>> /\ Grows
  BY DEF Reject, Grows
<1>2. PICK e \in Runs : e = called[c] /\ Exists(e) /\ Owned(c)
  BY ReviewedRun DEF Reject
<1>3. status[e] \in OpenStatuses \cup TERMINAL_EXECUTION_STATUSES
  BY <1>2, Current DEF Exists
<1>4. [LedgerNext]_ledger
  <2>1. CASE UNCHANGED ledger
    BY <2>1
  <2>2. CASE Open(e) /\ Advance(e, "STREAMING")
    BY <2>2 DEF LedgerNext, LedgerStep
  <2>3. CASE ~Terminal(e) /\ Terminalize(e, "CANCELLED", "APPROVAL_REFUSED")
    BY <1>3, <2>3 DEF LedgerNext, LedgerStep, Terminal
  <2>4. CASE Terminal(e) /\ SettleOnly(e, "APPROVAL_REFUSED")
    BY <2>4 DEF LedgerNext, LedgerStep
  <2> QED
    BY <1>2, <2>1, <2>2, <2>3, <2>4 DEF Reject
<1>5. Exists(e)'
  BY <1>2, <1>4, RunPersists DEF Inv
<1>6. \A d \in Calls : d # c => approval'[d] = approval[d] /\ request'[d] = request[d]
  BY DEF Reject, Inv, TypeOK
<1>7. OwnedCalls'
  BY <1>1, <1>2, <1>4, <1>6, OwnedPersists DEF Inv, CarriedFacts
<1>8. UNCHANGED task \/ Moves(t)
  <2>1. ASSUME NEW n, n = [[Idle EXCEPT !.run = e, !.via = "review"] EXCEPT !.pc = "resume"], Become(t, n)
        PROVE  Moves(t)
    <3>1. n \in TaskType
      BY <2>1 DEF TaskType, Idle, NoLease
    <3>2. n.pc = "resume" /\ n.run = e /\ n.read = None
      BY <2>1 DEF Idle
    <3> QED
      BY <1>5, <2>1, <3>1, <3>2, NoneIsApart, LandPlain DEF Plain
  <2>2. ASSUME NEW n, Become(t, n),
               n = [[Idle EXCEPT !.run = e, !.via = "review"] EXCEPT !.pc = "discard",
                                                                     !.why = "APPROVAL_REFUSED"]
        PROVE  Moves(t)
    <3>1. n \in TaskType
      BY <2>2 DEF TaskType, Idle, NoLease
    <3>2. n.pc = "discard" /\ n.run = e /\ n.read = None
      BY <2>2 DEF Idle
    <3> QED
      BY <1>5, <2>2, <3>1, <3>2, NoneIsApart, LandPlain DEF Plain
  <2> QED
    BY <1>2, <2>1, <2>2 DEF Reject
<1>9. OtherTypes'
  BY DEF OtherTypes, dispatch, Reject, bridge, bounds, Inv, TypeOK
<1> QED
  BY <1>1, <1>4, <1>7, <1>8, <1>9, Assemble

\* Expiring touches only calls that had an approval.
LEMMA ExpireUndecidedOK ==
    ASSUME Inv, NEW t \in Tasks, ExpireUndecided(t)
    PROVE  [LedgerNext]_ledger /\ Inv'
<1>1. ~At(t, "idle") /\ UNCHANGED ledger /\ Grows /\ UNCHANGED <<called, wrote>>
  BY DEF ExpireUndecided, At, Grows
<1>2. PICK k \in TaskType : k = task[t] /\ Fit(k)' /\ k.run \in Runs /\ Exists(k.run)'
  BY <1>1, Take
<1>3. /\ approval' \in [Calls -> ApprovalStatus \cup {None}]
      /\ request' \in [Calls -> RequestStatus \cup {None}]
  BY DEF ExpireUndecided, Inv, TypeOK
<1>4. ASSUME NEW c \in Calls, approval'[c] # None \/ request'[c] # None
      PROVE  approval[c] # None \/ request[c] # None
  <2>1. CASE c \in StillUndecided(task[t].seen)
    BY <2>1, NoneIsApart DEF StillUndecided
  <2>2. CASE c \notin StillUndecided(task[t].seen)
    BY <1>4, <2>2 DEF ExpireUndecided
  <2> QED
    BY <2>1, <2>2
<1>5. OwnedCalls'
  BY <1>1, <1>4, OwnedPersists DEF Inv, CarriedFacts
<1>6. PICK j : j = [k EXCEPT !.seen = {}]
  OBVIOUS
<1>7. j \in TaskType /\ j.run = k.run /\ j.read = k.read
  BY <1>6 DEF TaskType
<1>8. Moves(t)
  BY <1>2, <1>6, <1>7, AfterSettleFit, Land DEF ExpireUndecided, Fit
<1>9. OtherTypes'
  BY <1>3 DEF OtherTypes, dispatch, ExpireUndecided, bridge, bounds, Inv, TypeOK
<1> QED
  BY <1>1, <1>5, <1>8, <1>9, Assemble

\* Nothing is opened at first.
LEMMA InitOK == Init => Inv
<1> SUFFICES ASSUME Init PROVE Inv
  OBVIOUS
<1>1. LedgerInv
  BY LedgerInitOK DEF Init
<1>2. Idle \in TaskType /\ Fit(Idle)
  BY NoneIsApart DEF Idle, TaskType, Fit, NoLease
<1>3. TypeOK /\ CarriedFacts
  BY <1>1, <1>2, BoundsAssumption DEF Init, LedgerInv, TypeOK, CarriedFacts
<1> QED
  BY <1>1, <1>3 DEF Inv

\* Every handler's next step keeps the invariant,
LEMMA ProceedOK ==
    ASSUME Inv, NEW t \in Tasks, Proceed(t)
    PROVE  [LedgerNext]_ledger /\ Inv'
BY StepOK, ClaimOK, NewSessionOK, MarkRunningOK, ProviderFailsOK, ProviderAnswersOK, RenewLeaseOK, FinishOK,
   WithoutAnswerOK, GateDeniesOK, GateSuspendsOK, GateAllowsOK, RunToolOK, ResolveCallOK,
   ParkIfSpentOK, AdvanceApprovedOK, DenyApprovedOK, ResumeSuspendedTurnOK, UnresumableOK,
   SettleUndispatchedOK, SettleOrphanOK, SettleOK, DiscardOK, ListPendingOK, ExpireUndecidedOK, CommitCancelOK,
   RecordUpdateOK, CommitPauseOK DEF Proceed

\* so does everything a member, a reviewer or a dispatcher starts,
LEMMA RequestOK ==
    ASSUME Inv, NEW t \in Tasks, Request(t)
    PROVE  [LedgerNext]_ledger /\ Inv'
BY EnterTurnOK, CancelOK, RemoveAgentOK, ReceiveUpdateOK, PauseOK, ApproveOK, RejectOK DEF Request

\* and everything that happens around them.
LEMMA EnvironmentOK ==
    ASSUME Inv, Environment
    PROVE  [LedgerNext]_ledger /\ Inv'
BY OpenRunOK, WithdrawOK, LeaseExpiresOK, ResumeAgentRunOK, RequestApprovalOK, RestartOK
   DEF Environment

\* The invariant is inductive, and each step of the service is a step of the ledger.
LEMMA Inductive == Inv /\ [Next]_vars => [LedgerNext]_ledger /\ Inv'
<1>1. ASSUME Inv, UNCHANGED vars PROVE [LedgerNext]_ledger /\ Inv'
  <2>1. UNCHANGED ledger
    BY <1>1 DEF vars
  <2>2. OtherTypes'
    BY <1>1 DEF vars, gateway, dispatch, bridge, bounds, OtherTypes, Inv, TypeOK
  <2> QED
    BY <1>1, <2>1, <2>2, Quiet DEF vars, gateway
<1>2. ASSUME Inv, Next PROVE [LedgerNext]_ledger /\ Inv'
  BY <1>2, EnvironmentOK, ProceedOK, RequestOK, DieOK, SweepOK, ListOrphanOK DEF Next
<1> QED
  BY <1>1, <1>2

\* In every behaviour of the service the inductive invariant holds.
THEOREM Safe == Spec => []Inv
BY InitOK, Inductive, PTL DEF Spec

\* Everything the handlers of services/ do to the two records of a run is one of
\* the moves the repositories' compare and swaps permit.
THEOREM ServiceKeepsLedger == Spec => LedgerSpec
<1>1. Init => LedgerInit
  BY DEF Init
<1>2. Inv /\ [Next]_vars => [LedgerNext]_ledger
  BY Inductive
<1> QED
  BY <1>1, <1>2, Safe, PTL DEF Spec, LedgerSpec

\* Every value the service keeps has its type.
THEOREM TypeCorrect == Spec => []TypeOK
<1>1. Inv => TypeOK
  BY DEF Inv
<1> QED
  BY <1>1, Safe, PTL

\* A run's two records end together, whichever handlers race.
THEOREM AlwaysCoherent == Spec => []Coherent
<1>1. Inv => Coherent
  BY DEF Inv, LedgerInv
<1> QED
  BY <1>1, Safe, PTL

\* An output is published exactly by a run that completed with END_TURN.
THEOREM AlwaysAnswered == Spec => []OutputIffAnswered
<1>1. Inv => OutputIffAnswered
  BY DEF Inv, LedgerInv
<1> QED
  BY <1>1, Safe, PTL

\* No handler wakes holding something that is not so any more.
THEOREM AlwaysCarried == Spec => []CarriedFacts
<1>1. Inv => CarriedFacts
  BY DEF Inv
<1> QED
  BY <1>1, Safe, PTL

\* No late answer, sweep or second settlement changes how a run ended.
THEOREM EndingsAreFinal == Spec => SettlementFinal
BY ServiceKeepsLedger, LedgerSettlementFinal, PTL
=============================================================================
