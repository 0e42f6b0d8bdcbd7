------------------------------- MODULE Ontology -------------------------------
(* The room's ontology (services/ontology.py, OntologyRepo): what the log says   *)
(* of tasks and decisions, kept as assertions.  An extraction pass reads a       *)
(* bounded stretch of the log after its cursor, asserts the rows those events     *)
(* are about as they stand now, and moves the cursor, in one transaction; members *)
(* review assertions, and a reviewed one is never rewritten.  Rows move and are   *)
(* erased meanwhile.  A delegated child and the edges between assertions are      *)
(* asserted in the same way and left out.                                        *)
EXTENDS RoomRecords

CONSTANTS NoAssertion,
          PassLimit        \* _ASYNC_PASS_LIMIT: events one pass reads

(* What a row can say of itself, and an assertion of a row.                       *)
Statuses == {"none"} \cup DOMAIN TaskMoves \cup DOMAIN DecisionMoves
Accounts == [title : {"typed", "erased", "corrected"}, status : Statuses]
Assertions == [account : Accounts, at : Nat, reviewed : BOOLEAN]

ASSUME OntologyAssumption == PassLimit \in Nat \ {0} /\ NoAssertion \notin Assertions

VARIABLES shown,           \* [Texts -> NoAssertion or ontology_entities row]
          reached,         \* [Rooms -> Nat]: ontology_extraction_cursors
          reviews          \* [Texts -> Seq of the accounts reviews left]: ontology_reviews
ontVars == <<shown, reached, reviews>>

TaskEvents ==
    {"task.created", "task.assigned", "task.completed", "task.cancelled", "task.delegated"}
DecisionEvents == {"decision.created", "decision.updated", "decision.superseded"}
IsTask(x) == status[x] \in DOMAIN TaskMoves
IsDecision(x) == status[x] \in DOMAIN DecisionMoves
ClassOf(x) == IF IsTask(x) THEN TaskEvents ELSE DecisionEvents

(* _task_account, _decision_account: what the row says of itself now.             *)
RowAccount(x) ==
    [title |-> IF \E c \in held : c[1] = x /\ c[2] \in {"tasks", "decisions"} THEN "typed" ELSE "erased",
     status |-> status[x]]

OntInit ==
    /\ shown = [x \in Texts |-> NoAssertion] /\ reached = [r \in Rooms |-> 0]
    /\ reviews = [x \in Texts |-> <<>>]

-----------------------------------------------------------------------------
(* run_ontology_extraction.                                                     *)

(* list_since; a capped pass advances only as far as it read.                     *)
LastRead(r) ==
    IF counter[r] - reached[r] < PassLimit THEN counter[r] ELSE reached[r] + PassLimit
PassEnd_Head(r) == counter[r]
PassEnd(r) == IF LastRead(r) - reached[r] < PassLimit THEN counter[r] ELSE LastRead(r)

(* _project_structured: the tasks and decisions of the room that the events read  *)
(* are about.                                                                    *)
Projected(r) ==
    { x \in Texts : /\ IsTask(x) \/ IsDecision(x)
                    /\ \E n \in reached[r] + 1 .. LastRead(r) :
                          x \in log[r][n].payload.about /\ log[r][n].type \in ClassOf(x) }

(* materialize_in_transaction: an assertion follows its row, unless a person      *)
(* reviewed it; then the pass only records that the two differ.                  *)
Differs(x, to) == shown[x].at < to /\ shown[x].account # RowAccount(x)
Rewritable_Always(x) == TRUE
Rewritable(x) == ~shown[x].reviewed
Written(xs, to) ==
    { x \in xs : shown[x] = NoAssertion \/ (Differs(x, to) /\ Rewritable(x)) }
Reconciled(xs, to) ==
    { x \in xs : shown[x] # NoAssertion /\ shown[x].reviewed /\ Differs(x, to) }

Assertion(x, to) ==
    [account |-> RowAccount(x), at |-> to,
     reviewed |-> shown[x] # NoAssertion /\ shown[x].reviewed]

ExtractOntology(u, r) ==
    LET to == PassEnd(r)
        xs == Projected(r)
        written == Written(xs, to)
        reconciled == Reconciled(xs \ written, to)
        found == (IF written # {} THEN << <<"ontology.materialized", xs>> >> ELSE <<>>)
            \o (IF reconciled # {} THEN << <<"ontology.assertion_reconciled", reconciled>> >> ELSE <<>>)
        news == IF found = <<>> THEN <<>> ELSE Append(found, <<"ontology.extraction.advanced", {}>>)
    IN
    /\ u \in pending /\ pending' = pending \ {u}
    /\ shown' = [x \in Texts |-> IF x \in written THEN Assertion(x, to) ELSE shown[x]]
    /\ reached' = [reached EXCEPT ![r] = to]
    /\ Events(r, [n \in DOMAIN news |-> news[n][1]], u, [n \in DOMAIN news |-> news[n][2]])
    /\ UNCHANGED <<reviews, typed, held, status, child, signedIn, erasures, begun>>

-----------------------------------------------------------------------------
(* review_ontology_entity: a confirmation keeps the account, a correction has to  *)
(* change it; the one correction here is of the title.  The review's row and its  *)
(* event quote the label as it was, and as it is now.                            *)
Quotes(x) == IF shown[x].account.title = "typed" THEN {x} \X Quoted ELSE {}
Corrected(account) == [account EXCEPT !.title = "corrected"]

Reviews(u, x, account, type) ==
    /\ MayMutate(u, typed[x].room)
    /\ shown' = [shown EXCEPT ![x] = [account |-> account, at |-> shown[x].at, reviewed |-> TRUE]]
    /\ reviews' = [reviews EXCEPT ![x] = Append(@, account)]
    /\ held' = held \cup Quotes(x)
    /\ pending' = pending \ {u}
    /\ Event(typed[x].room, type, u, {x}, FALSE)
    /\ UNCHANGED <<reached, typed, status, child, signedIn, erasures, begun>>

ConfirmAssertion(u, x) ==
    /\ shown[x] # NoAssertion
    /\ Reviews(u, x, shown[x].account, "ontology.assertion_confirmed")
CorrectAssertion(u, x) ==
    /\ shown[x] # NoAssertion
    /\ Corrected(shown[x].account) # shown[x].account
    /\ Reviews(u, x, Corrected(shown[x].account), "ontology.assertion_corrected")

OntologyNext ==
    \/ /\ \E u \in Users :
             \/ \E r \in Rooms : ExtractOntology(u, r)
             \/ \E x \in Texts : ConfirmAssertion(u, x) \/ CorrectAssertion(u, x)
       /\ UNCHANGED auditVars
    \/ Next /\ UNCHANGED ontVars
OntologySpec == Init /\ OntInit /\ [][OntologyNext]_<<vars, ontVars>>

-----------------------------------------------------------------------------
(* What happened to the row of x, as the log still tells it. *)
Happened(x) ==
    { n \in 1 .. counter[typed[x].room] :
        /\ log[typed[x].room][n].type \in ClassOf(x)
        /\ x \in log[typed[x].room][n].payload.about }
Passed(x) == \A n \in Happened(x) : n <= reached[typed[x].room]

(* _ontology_currency: told as current while nothing of its class came after it.  *)
Current(x) ==
    \A n \in shown[x].at + 1 .. counter[typed[x].room] :
        log[typed[x].room][n].type \notin ClassOf(x)

(* "A false 'as-of' costs a caveat, a false 'current' costs a wrong answer": a task *)
(* or decision whose events the passes have gone through is asserted, however the  *)
(* passes were capped, and as its row stands; and an assertion that is told as     *)
(* current is what the row says, unless a person reviewed it or erased the row.    *)
AssertionsFollow ==
    \A x \in Texts : (IsTask(x) \/ IsDecision(x)) /\ ~Gone(x) =>
        /\ Passed(x) => shown[x] # NoAssertion
        /\ shown[x] # NoAssertion /\ ~shown[x].reviewed /\ (Passed(x) \/ Current(x)) =>
               shown[x].account = RowAccount(x)

Told(x, types) ==
    { n \in 1 .. counter[typed[x].room] :
        log[typed[x].room][n].type \in types /\ x \in log[typed[x].room][n].payload.about }
ReviewEvents == {"ontology.assertion_confirmed", "ontology.assertion_corrected"}

(* "A person's account is not overwritten by a later machine pass", and the pass    *)
(* "says so rather than ... passing over it in silence": a reviewed assertion says *)
(* what its last review left, and if its row moved after that review and the       *)
(* passes went by while the two differ, the log names it after the move.          *)
ReviewsStand ==
    \A x \in Texts : shown[x] # NoAssertion /\ reviews[x] # <<>> =>
        /\ shown[x].account = reviews[x][Len(reviews[x])]
        /\ ~Gone(x) /\ Passed(x) /\ shown[x].account # RowAccount(x) =>
              \A n \in Happened(x) :
                  (\A k \in Told(x, ReviewEvents) : k < n) =>
                      \E m \in Told(x, {"ontology.assertion_reconciled"}) : m > n
=============================================================================
