------------------------------ MODULE AgentRuns ------------------------------
(***************************************************************************)
(* The durable record of an agent run: one row of `executions` and the row *)
(* of `agent_runs` that envelopes it, with every write the repositories of *)
(* db/repositories.py make to the two.  Each operator below is the body of *)
(* one SQLite write transaction (or of one autocommitted statement); the   *)
(* services of RunLifecycle compose them.  A write that is refused raises  *)
(* DomainError in the code, which rolls the transaction back: here it is a *)
(* guard, and the caller decides what a refusal makes it do.               *)
(*                                                                         *)
(* lease_expires_at is a timestamp.  Only two things are ever asked of it: *)
(* has it passed, and is it the one a sweep read.  The model keeps a       *)
(* renewal number (each renewal writes a later timestamp, hence a value no *)
(* earlier reader holds) and whether it has run out.                       *)
(***************************************************************************)
EXTENDS Integers

CONSTANTS Runs,         \* execution ids; each has exactly one run envelope
          MaxAttempts,  \* agent_runs.max_attempts
          None          \* SQL NULL / no row

ASSUME MaxAttemptsAssumption == MaxAttempts \in Nat \ {0}

NoLease == 0            \* "no expected_lease_expires_at was given"

TERMINAL_EXECUTION_STATUSES == {"COMPLETED", "FAILED", "CANCELLED"}
OpenStatuses == {"PENDING", "RUNNING", "PAUSED"}
ExecutionStatus == OpenStatuses \cup TERMINAL_EXECUTION_STATUSES

OpenHarnessStates == {"STARTING", "STREAMING", "AWAITING_APPROVAL"}
HarnessState == OpenHarnessStates \cup {"SETTLED"}

RunSettlement == {"END_TURN", "CANCELLED", "MAX_TOKENS", "FAILED", "ORPHANED",
                  "AUTHORITY_REVOKED", "AGENT_REMOVED", "APPROVAL_REFUSED",
                  "APPROVAL_EXPIRED", "PARKED"}

ASSUME NoneAssumption == None \notin ExecutionStatus \cup HarnessState \cup RunSettlement

VARIABLES
    status,      \* executions.status, None while the row does not exist
    harness,     \* agent_runs.harness_state
    settlement,  \* agent_runs.settlement
    attempts,    \* agent_runs.attempts
    lease,       \* the renewal number standing for agent_runs.lease_expires_at
    expired,     \* the runs whose lease_expires_at has passed
    outputs      \* the executions with a row in agent_outputs

ledger == <<status, harness, settlement, attempts, lease, expired, outputs>>

LedgerTypeOK ==
    /\ status \in [Runs -> ExecutionStatus \cup {None}]
    /\ harness \in [Runs -> HarnessState \cup {None}]
    /\ settlement \in [Runs -> RunSettlement \cup {None}]
    /\ attempts \in [Runs -> Nat]
    /\ lease \in [Runs -> Nat]
    /\ expired \subseteq Runs
    /\ outputs \subseteq Runs

LedgerInit ==
    /\ status = [e \in Runs |-> None]
    /\ harness = [e \in Runs |-> None]
    /\ settlement = [e \in Runs |-> None]
    /\ attempts = [e \in Runs |-> 0]
    /\ lease = [e \in Runs |-> NoLease]
    /\ expired = {}
    /\ outputs = {}

Exists(e) == status[e] # None
Terminal(e) == status[e] \in TERMINAL_EXECUTION_STATUSES
Settled(e) == harness[e] = "SETTLED"
Open(e) == Exists(e) /\ ~Settled(e)

(***************************************************************************)
(* The two inserts of a launch, with the attempt the envelope starts on.   *)
(***************************************************************************)
OpenRow(e, attempt) ==
    /\ ~Exists(e)
    /\ status' = [status EXCEPT ![e] = "PENDING"]
    /\ harness' = [harness EXCEPT ![e] = "STARTING"]
    /\ attempts' = [attempts EXCEPT ![e] = attempt]
    /\ lease' = [lease EXCEPT ![e] = @ + 1]
    /\ UNCHANGED <<settlement, expired, outputs>>

(***************************************************************************)
(* AgentRunRepo.advance: move an open run and renew its lease.  `expected` *)
(* is None for the unconditional form.                                     *)
(***************************************************************************)
CanAdvance_AnyState(e, expected) == Open(e)        \* mutant: require_idle forgotten
CanAdvance(e, expected) ==
    IF expected = None THEN Open(e) ELSE harness[e] = expected

Advance_LeaseOnly(e, state) ==                     \* mutant: the state is not written
    /\ lease' = [lease EXCEPT ![e] = @ + 1]
    /\ expired' = expired \ {e}
    /\ UNCHANGED <<status, harness, settlement, attempts, outputs>>
Advance(e, state) ==
    /\ harness' = [harness EXCEPT ![e] = state]
    /\ lease' = [lease EXCEPT ![e] = @ + 1]
    /\ expired' = expired \ {e}
    /\ UNCHANGED <<status, settlement, attempts, outputs>>

(***************************************************************************)
(* AgentRunRepo.spend_attempt.                                             *)
(***************************************************************************)
CanSpendAttempt(e) == Open(e) /\ attempts[e] < MaxAttempts

SpendAttempt(e) ==
    /\ attempts' = [attempts EXCEPT ![e] = @ + 1]
    /\ UNCHANGED <<status, harness, settlement, lease, expired, outputs>>

(***************************************************************************)
(* _settle_agent_run_in_transaction: settle the envelope if it is still    *)
(* open, as a compare and swap on the lease when one was read.  A run      *)
(* already settled keeps the settlement it has.                            *)
(***************************************************************************)
LeaseHolds(e, held) == Settled(e) \/ held = NoLease \/ lease[e] = held

SettleEnvelope(e, why) ==
    /\ harness' = [harness EXCEPT ![e] = "SETTLED"]
    /\ settlement' = [settlement EXCEPT ![e] = IF Settled(e) THEN @ ELSE why]

(***************************************************************************)
(* terminalize_without_output_in_transaction: the execution's status, a    *)
(* compare and swap on the status the caller read, and the envelope's      *)
(* settlement, in one transaction.                                         *)
(***************************************************************************)
CanTerminalize_Blind(e, read, held) == LeaseHolds(e, held)   \* mutant: no compare and swap
CanTerminalize(e, read, held) == status[e] = read /\ LeaseHolds(e, held)

Terminalize_StatusOnly(e, final, why) ==           \* mutant: the envelope is left open
    /\ status' = [status EXCEPT ![e] = final]
    /\ UNCHANGED <<harness, settlement, attempts, lease, expired, outputs>>
Terminalize(e, final, why) ==
    /\ status' = [status EXCEPT ![e] = final]
    /\ SettleEnvelope(e, why)
    /\ UNCHANGED <<attempts, lease, expired, outputs>>

\* settle_in_transaction on an execution that is already terminal.
SettleOnly(e, why) ==
    /\ SettleEnvelope(e, why)
    /\ UNCHANGED <<status, attempts, lease, expired, outputs>>

(***************************************************************************)
(* AgentOutputRepo.complete_execution: the output, the terminal status and *)
(* the settlement commit together, and only for a run still open.          *)
(***************************************************************************)
CanComplete_Late(e, read) == Exists(e)             \* mutant: a late answer is accepted
CanComplete(e, read) == ~Settled(e) /\ status[e] = read

CompleteExecution(e) ==
    /\ outputs' = outputs \cup {e}
    /\ status' = [status EXCEPT ![e] = "COMPLETED"]
    /\ SettleEnvelope(e, "END_TURN")
    /\ UNCHANGED <<attempts, lease, expired>>

\* ExecutionRepo.update_status and mark_running.
UpdateStatus(e, to) ==
    /\ status' = [status EXCEPT ![e] = to]
    /\ UNCHANGED <<harness, settlement, attempts, lease, expired, outputs>>

\* The clock passes lease_expires_at.
LeaseRunsOut(e) ==
    /\ Open(e) /\ e \notin expired
    /\ expired' = expired \cup {e}
    /\ UNCHANGED <<status, harness, settlement, attempts, lease, outputs>>

-----------------------------------------------------------------------------
(***************************************************************************)
(* Every move the repositories make: the compare and swaps say from which  *)
(* committed row each of them may start.                                   *)
(***************************************************************************)
LedgerStep(e) ==
    \/ attempts'[e] \in Nat /\ OpenRow(e, attempts'[e])
    \/ Open(e) /\ \E state \in OpenHarnessStates : Advance(e, state)
    \/ CanSpendAttempt(e) /\ SpendAttempt(e)
    \/ \E read \in OpenStatuses :
          \/ status[e] = read /\ \E to \in OpenStatuses : UpdateStatus(e, to)
          \/ CanComplete(e, read) /\ CompleteExecution(e)
          \/ /\ status[e] = read
             /\ \E final \in {"FAILED", "CANCELLED"}, why \in RunSettlement \ {"END_TURN"} :
                    Terminalize(e, final, why)
    \/ Terminal(e) /\ \E why \in RunSettlement : SettleOnly(e, why)
    \/ LeaseRunsOut(e)

LedgerNext == \E e \in Runs : LedgerStep(e)

LedgerSpec == LedgerInit /\ [][LedgerNext]_ledger

(***************************************************************************)
(* What the ledger promises its readers.                                   *)
(***************************************************************************)

\* A run is never terminal in one of its two records and open in the other:
\* executions.status and agent_runs.harness_state end in one transaction, and
\* a settlement is written exactly then (terminalize_without_output_...).
Coherent ==
    \A e \in Runs :
        /\ Exists(e) <=> harness[e] # None
        /\ Settled(e) <=> Terminal(e)
        /\ Settled(e) <=> settlement[e] # None

\* An output is published exactly by the run that completed with END_TURN: no
\* answer without its settlement, no late answer beside another settlement
\* (complete_execution).
OutputIffAnswered ==
    \A e \in Runs :
        /\ e \in outputs <=> settlement[e] = "END_TURN"
        /\ e \in outputs <=> status[e] = "COMPLETED"

\* Settlement is final: no later writer - a sweep, a late answer, a second
\* settlement - changes what a settled run or its execution says.
SettlementFinal ==
    [][\A e \in Runs : Settled(e) => /\ settlement'[e] = settlement[e]
                                     /\ harness'[e] = harness[e]
                                     /\ status'[e] = status[e]]_ledger
=============================================================================
