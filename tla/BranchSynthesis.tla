--------------------------- MODULE BranchSynthesis ---------------------------
(* Branches and syntheses (services/branches.py): a branch puts a prompt to one *)
(* agent, holding the room's turn lock, or to several at once; people include or *)
(* exclude the outputs; a synthesis calls the provider with those included and   *)
(* publishes the answer as the next version of an artifact.  The gates and the   *)
(* lineage are read outside the transactions that rely on them, the provider is  *)
(* called between two of them, and requests are retried with the same key.       *)
EXTENDS Integers, FiniteSets

CONSTANTS Branches, Syntheses, Workers, Artifacts, Keys, None,
          MaxSelections     \* bound: selections made

VARIABLES branch,           \* [Branches -> None or branches row with its runs]
          lock,             \* the branch that holds the room's ACTIVE turn lock
          talked,           \* history: the branch whose lock a human message got past
          picked,           \* [Branches -> [run -> disposition]]: output_selections
          synthesis,        \* [Syntheses -> None or branch_syntheses row]
          outcomes,         \* [Syntheses -> completed and failed events in the log]
          key,              \* [Keys -> None or what the idempotency row refers to]
          artifact,         \* [Artifacts -> None or artifacts row]
          versions,         \* artifact_versions: a set of [of, number, by]
          work,             \* [Workers -> one request in progress]
          picks
synVars == <<branch, lock, talked, picked, synthesis, outcomes, key, artifact, versions, work, picks>>

Ended == {"COMPLETED", "FAILED", "CANCELLED"}
RunsOf(mode) == IF mode = "PARALLEL" THEN {1, 2} ELSE {1}
(* Rows of branches, branch_syntheses and artifacts.                             *)
BranchRows ==
    LET Runs(mode) == [RunsOf(mode) -> {"PENDING"} \cup Ended] IN
    [mode : {"PARALLEL", "TURN_LOCKED_SINGLE"}, status : {"RUNNING", "PARTIAL"} \cup Ended,
     runs : Runs("PARALLEL") \cup Runs("TURN_LOCKED_SINGLE")]
SynthesisRows ==
    [of : Branches, status : {"RUNNING", "COMPLETED", "FAILED"}, inputs : SUBSET {1, 2},
     key : Keys \cup {None}, old : BOOLEAN]
ArtifactRows == [byHand : BOOLEAN, current : Nat]
ASSUME NoneAssumption ==
    /\ None \notin BranchRows \cup SynthesisRows \cup ArtifactRows
    /\ None \notin Branches \cup Syntheses \cup Keys \cup {"earlier"} /\ "earlier" \notin Syntheses

Minimum(b) == IF branch[b].mode = "PARALLEL" THEN 2 ELSE 1
IdleWork == [at |-> "idle", branch |-> None, key |-> None, syn |-> None, inputs |-> {},
             art |-> None, number |-> 0, creates |-> FALSE]

SynInit ==
    /\ branch = [b \in Branches |-> None] /\ lock = None /\ talked = None
    /\ picked = [b \in Branches |-> [r \in {1, 2} |-> "none"]]
    /\ synthesis = [s \in Syntheses |-> None] /\ outcomes = [s \in Syntheses |-> 0]
    /\ key = [k \in Keys |-> None]
    /\ \E known \in SUBSET Artifacts : \* documents that earlier syntheses published
          /\ artifact = [a \in Artifacts |-> IF a \in known THEN [byHand |-> FALSE, current |-> 1] ELSE None]
          /\ versions = { [of |-> a, number |-> 1, by |-> "earlier"] : a \in known }
    /\ work = [w \in Workers |-> IdleWork] /\ picks = 0

-----------------------------------------------------------------------------
(* start_branch.  A key that is taken replays or conflicts and changes nothing.   *)
NewBranch(mode) ==
    [mode |-> mode, status |-> "RUNNING", runs |-> [r \in RunsOf(mode) |-> "PENDING"]]
TakesTurn(b, mode) == lock' = IF mode = "TURN_LOCKED_SINGLE" THEN b ELSE lock
RecordKey(k, result) == key' = [j \in Keys |-> IF j = k THEN result ELSE key[j]]
StartBranch(b, mode, k) ==
    /\ branch[b] = None /\ lock = None /\ (k # None => key[k] = None)
    /\ branch' = [branch EXCEPT ![b] = NewBranch(mode)]
    /\ TakesTurn(b, mode) /\ RecordKey(k, b)
    /\ UNCHANGED <<talked, picked, synthesis, outcomes, artifact, versions, work, picks>>

(* create_with_event_and_turn_guard_in_transaction: a person's message.          *)
TurnGuard_None == TRUE
TurnGuard == lock = None
SendHumanMessage ==
    /\ TurnGuard
    /\ talked' = IF lock # None THEN lock ELSE talked
    /\ UNCHANGED <<branch, lock, picked, synthesis, outcomes, key, artifact, versions, work, picks>>

(* _finish_managed_branch_if_terminal, in the transaction that ends a run.       *)
StatusFrom(runs) ==
    LET statuses == { runs[r] : r \in DOMAIN runs } IN
    IF ~(statuses \subseteq Ended) THEN "RUNNING"
    ELSE IF Cardinality(statuses) > 1 THEN "PARTIAL" ELSE CHOOSE s \in statuses : TRUE
LockAfter(b, status) == IF lock = b /\ status # "RUNNING" THEN None ELSE lock

EndBranchRun(b, r, how) ==
    /\ branch[b] # None /\ r \in DOMAIN branch[b].runs /\ branch[b].runs[r] \notin Ended
    /\ LET runs == [branch[b].runs EXCEPT ![r] = how] IN
       /\ branch' = [branch EXCEPT ![b] = [@ EXCEPT !.runs = runs, !.status = StatusFrom(runs)]]
       /\ lock' = LockAfter(b, StatusFrom(runs))
    /\ UNCHANGED <<talked, picked, synthesis, outcomes, key, artifact, versions, work, picks>>

(* select_output: an upsert, at any time.                                        *)
Outputs(b) == { r \in DOMAIN branch[b].runs : branch[b].runs[r] = "COMPLETED" }
Disposes(b, r, d) == picked' = [picked EXCEPT ![b][r] = d]
SelectOutput(b, r, d) ==
    /\ branch[b] # None /\ r \in Outputs(b) /\ picked[b][r] # d
    /\ picks < MaxSelections /\ picks' = picks + 1
    /\ Disposes(b, r, d)
    /\ UNCHANGED <<branch, lock, talked, synthesis, outcomes, key, artifact, versions, work>>

-----------------------------------------------------------------------------
(* synthesize_branch.                                                           *)
Work(w, at) == work[w].at = at
Goes(w, at) == work' = [work EXCEPT ![w].at = at]
SynOnly == UNCHANGED <<branch, lock, talked, picked, picks>>

(* The gates, read one after another before the transaction: the outputs, what    *)
(* was decided of them, and the runs.  A gate that is shut answers.               *)
ReadOutputs(w, b, k) ==
    /\ Work(w, "idle") /\ branch[b] # None /\ Cardinality(Outputs(b)) >= Minimum(b)
    /\ work' = [work EXCEPT ![w] = [IdleWork EXCEPT !.at = "outputs read", !.branch = b, !.key = k,
                                                    !.inputs = Outputs(b)]]
    /\ SynOnly /\ UNCHANGED <<synthesis, outcomes, key, artifact, versions>>

Included(b, outputs) == { r \in outputs : picked[b][r] = "INCLUDED" }
AllReviewed(b, outputs) ==
    /\ \A r \in outputs : picked[b][r] # "none"
    /\ Cardinality(Included(b, outputs)) >= Minimum(b)
ReadSelections(w) ==
    LET b == work[w].branch
        outputs == work[w].inputs
    IN
    /\ Work(w, "outputs read")
    /\ work' = [work EXCEPT ![w] = IF AllReviewed(b, outputs)
                                   THEN [@ EXCEPT !.at = "selections read", !.inputs = Included(b, outputs)]
                                   ELSE IdleWork]
    /\ SynOnly /\ UNCHANGED <<synthesis, outcomes, key, artifact, versions>>

ReadRuns(w) ==
    LET runs == branch[work[w].branch].runs IN
    /\ Work(w, "selections read")
    /\ work' = [work EXCEPT ![w] = IF \A r \in DOMAIN runs : runs[r] \in Ended
                                   THEN [@ EXCEPT !.at = "gated"] ELSE IdleWork]
    /\ SynOnly /\ UNCHANGED <<synthesis, outcomes, key, artifact, versions>>

(* The claim and the row in one transaction; a taken key answers or conflicts.    *)
Claimed(k) == k # None /\ key[k] # None
CommitSynthesis(w, s) ==
    /\ Work(w, "gated") /\ synthesis[s] = None
    /\ LET k == work[w].key IN
       IF Claimed(k)
       THEN work' = [work EXCEPT ![w] = IdleWork] /\ UNCHANGED <<synthesis, key>>
       ELSE /\ synthesis' = [synthesis EXCEPT ![s] =
                   [of |-> work[w].branch, status |-> "RUNNING", inputs |-> work[w].inputs,
                    key |-> k, old |-> FALSE]]
            /\ RecordKey(k, s)
            /\ work' = [work EXCEPT ![w].at = "calling", ![w].syn = s]
    /\ SynOnly /\ UNCHANGED <<outcomes, artifact, versions>>

(* The provider answers; or fails, runs past the deadline, or the request is      *)
(* cancelled.                                                                    *)
ProviderAnswers(w) ==
    /\ Work(w, "calling") /\ Goes(w, "answered")
    /\ SynOnly /\ UNCHANGED <<synthesis, outcomes, key, artifact, versions>>
ProviderFails(w) ==
    /\ work[w].at \in {"calling", "answered", "lined up"} /\ Goes(w, "failing")
    /\ SynOnly /\ UNCHANGED <<synthesis, outcomes, key, artifact, versions>>

(* _complete_branch_synthesis: the lineage a synthesis published under this name,  *)
(* or a new one, is chosen before the transaction.                               *)
ReadLineage(w, a) ==
    /\ Work(w, "answered")
    /\ LET published == { x \in Artifacts : artifact[x] # None /\ ~artifact[x].byHand }
           creates == published = {}
       IN /\ IF creates THEN artifact[a] = None /\ \A v \in Workers : work[v].art # a
                        ELSE a \in published
          /\ work' = [work EXCEPT ![w].at = "lined up", ![w].art = a, ![w].creates = creates,
                 ![w].number = IF creates THEN 1 ELSE artifact[a].current + 1]
    /\ SynOnly /\ UNCHANGED <<synthesis, outcomes, key, artifact, versions>>

Taken_Overwrite(a, n) == FALSE
Taken(a, n) == \E v \in versions : v.of = a /\ v.number = n   \* UNIQUE(artifact_id, version_number)
MayPublish_Answered(s) == TRUE
MayPublish(s) == synthesis[s].status = "RUNNING" /\ ~synthesis[s].old
Publish(w) ==
    /\ Work(w, "lined up")
    /\ LET s == work[w].syn
           a == work[w].art
           n == work[w].number
       IN IF MayPublish(s) /\ ~Taken(a, n)
          THEN /\ artifact' = [artifact EXCEPT ![a] = [byHand |-> FALSE, current |-> n]]
               /\ versions' = versions \cup {[of |-> a, number |-> n, by |-> s]}
               /\ synthesis' = [synthesis EXCEPT ![s].status = "COMPLETED"]
               /\ outcomes' = [outcomes EXCEPT ![s] = @ + 1]
               /\ Goes(w, "published")
          ELSE Goes(w, "failing") /\ UNCHANGED <<artifact, versions, synthesis, outcomes>>
    /\ SynOnly /\ UNCHANGED key

(* What comes after the commit may fail or be cancelled too.                     *)
Answered(w) ==
    /\ Work(w, "published")
    /\ \/ work' = [work EXCEPT ![w] = IdleWork]
       \/ Goes(w, "failing")
    /\ SynOnly /\ UNCHANGED <<synthesis, outcomes, key, artifact, versions>>

(* _fail_branch_synthesis: the row and its event, if it is still RUNNING.         *)
MayFail(s) == synthesis[s].status = "RUNNING"
Fails(s) ==
    IF MayFail(s)
    THEN /\ synthesis' = [synthesis EXCEPT ![s].status = "FAILED"]
         /\ outcomes' = [outcomes EXCEPT ![s] = @ + 1]
    ELSE UNCHANGED <<synthesis, outcomes>>
FailRequest(w) ==
    /\ Work(w, "failing") /\ Fails(work[w].syn)
    /\ work' = [work EXCEPT ![w] = IdleWork]
    /\ SynOnly /\ UNCHANGED <<key, artifact, versions>>

FiveMinutesPass(s) ==
    /\ synthesis[s] # None /\ ~synthesis[s].old
    /\ synthesis' = [synthesis EXCEPT ![s].old = TRUE]
    /\ SynOnly /\ UNCHANGED <<outcomes, key, artifact, versions, work>>
Expired_Fresh(s) == FALSE
Expired(s) == synthesis[s] # None /\ synthesis[s].status = "RUNNING" /\ synthesis[s].old
SweepSynthesis(s) ==
    /\ Expired(s) /\ Fails(s)
    /\ SynOnly /\ UNCHANGED <<key, artifact, versions, work>>

CrashWork(w) ==
    /\ ~Work(w, "idle") /\ work' = [work EXCEPT ![w] = IdleWork]
    /\ SynOnly /\ UNCHANGED <<synthesis, outcomes, key, artifact, versions>>

(* create_artifact: somebody writes a document by hand.  It has another name: the *)
(* names syntheses publish under are refused (RESERVED_ARTIFACT_NAMES).          *)
WriteByHand(a) ==
    /\ artifact[a] = None /\ \A v \in Workers : work[v].art # a
    /\ artifact' = [artifact EXCEPT ![a] = [byHand |-> TRUE, current |-> 1]]
    /\ versions' = versions \cup {[of |-> a, number |-> 1, by |-> None]}
    /\ SynOnly /\ UNCHANGED <<synthesis, outcomes, key, work>>

-----------------------------------------------------------------------------
WorkNext(w) ==
    \/ (\E b \in Branches, k \in Keys \cup {None} : ReadOutputs(w, b, k))
    \/ ReadSelections(w) \/ ReadRuns(w)
    \/ \E s \in Syntheses : CommitSynthesis(w, s)
    \/ ProviderAnswers(w) \/ ProviderFails(w) \/ (\E a \in Artifacts : ReadLineage(w, a))
    \/ Publish(w) \/ Answered(w) \/ FailRequest(w) \/ CrashWork(w)
SynNext ==
    \/ \E b \in Branches, k \in Keys \cup {None} :
          \E mode \in {"PARALLEL", "TURN_LOCKED_SINGLE"} : StartBranch(b, mode, k)
    \/ \E b \in Branches, r \in {1, 2} :
          \/ \E how \in Ended : EndBranchRun(b, r, how)
          \/ \E d \in {"INCLUDED", "EXCLUDED"} : SelectOutput(b, r, d)
    \/ SendHumanMessage
    \/ \E w \in Workers : WorkNext(w)
    \/ \E s \in Syntheses : FiveMinutesPass(s) \/ SweepSynthesis(s)
    \/ \E a \in Artifacts : WriteByHand(a)

(* Time passes, and the sweep of every minute comes round.                       *)
SynFairness == \A s \in Syntheses : WF_synVars(FiveMinutesPass(s)) /\ WF_synVars(SweepSynthesis(s))
SynSpec == SynInit /\ [][SynNext]_synVars /\ SynFairness

-----------------------------------------------------------------------------
(* The room's turn is locked exactly while a turn-locked branch runs, however its  *)
(* run ends, and nobody speaks in between.                                       *)
LockedExactlyWhileItRuns ==
    /\ talked = None
    /\ \A b \in Branches :
          lock = b <=> branch[b] # None /\ branch[b].mode = "TURN_LOCKED_SINGLE"
                                        /\ branch[b].status = "RUNNING"

(* A synthesis has one outcome: the room hears of it once, and it has published     *)
(* exactly one version when it is COMPLETED and none otherwise.  An answer that    *)
(* comes after the deadline, a sweep or a failure is not published, a request      *)
(* cancelled after its commit does not undo it, and requests retried with one key, *)
(* at the same time or later, are one synthesis.                                  *)
OneOutcome ==
    /\ \A s \in Syntheses :
          LET status == IF synthesis[s] = None THEN "RUNNING" ELSE synthesis[s].status IN
          /\ outcomes[s] = IF status = "RUNNING" THEN 0 ELSE 1
          /\ Cardinality({ v \in versions : v.by = s }) = IF status = "COMPLETED" THEN 1 ELSE 0
    /\ \A s, t \in { y \in Syntheses : synthesis[y] # None } :
          synthesis[s].key = synthesis[t].key => s = t \/ synthesis[s].key = None

(* "A synthesis only ever extends a lineage that a synthesis published": versions  *)
(* of an artifact are numbered without gap or repeat up to its current one, and    *)
(* none of a document written by hand comes from a synthesis.                     *)
LineagesAreWhole ==
    \A a \in Artifacts : artifact[a] # None =>
        LET own == { v \in versions : v.of = a } IN
        /\ { v.number : v \in own } = 1 .. artifact[a].current
        /\ Cardinality(own) = artifact[a].current
        /\ \A v \in own : artifact[a].byHand <=> v.by = None

Running(s) == synthesis[s] # None /\ synthesis[s].status = "RUNNING"
(* A synthesis ends, also when the process that drove it is gone.                 *)
SynthesisEnds == \A s \in Syntheses : Running(s) ~> ~Running(s)
=============================================================================
