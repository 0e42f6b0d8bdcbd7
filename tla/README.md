# XYZZY, specified

TLA+ specifications of the multiplayer service under `src/multiplayer`, with
the TLC configurations that check them on small instances and the TLAPS proofs
that hold for every instance. Paths below are relative to `src/multiplayer`
unless they start with `tests/`.

XYZZY is a shared workspace: people and AI agents sit in rooms, people address
agents by mention, route or task, an agent's *run* prompts a model provider
over and over, calls tools under authority lent to it by people, stops for a
reviewer where a policy says so, and ends with an answer or a named reason
there is none. One FastAPI process (or several, over one SQLite file and
optionally Redis) runs everything as asyncio tasks.

## Inventory

| Component | State | Operations | What makes it correct |
|---|---|---|---|
| Run ledger: `db/repositories.py` (`ExecutionRepo`, `AgentRunRepo`, `AgentOutputRepo`) | rows of `executions`, `agent_runs`, `agent_outputs` | create, advance, spend_attempt, settle, terminalize, complete_execution, mark_running, update_status, claim_for_dispatch | the two records end together and once; an output is published with its settlement or not at all |
| Run service: `services/runs.py`, `steps.py`, `_shared.py` | nothing of its own but handlers in flight; rows of `suspended_turns`, `execution_interventions` | start, step, pause, resume, cancel, resume_agent_run, sweep, steer | one handler prompts a run at a time; every run ends; nobody's account of an ending is overwritten |
| Tool gateway and approvals: `steps.py`, `runs.py` | `tool_requests`, `approvals` | gate, run tool, approve, reject, expire | an effect needs a live grant at the moment it is written, and a reviewer where one was asked; a decision is final; a settled run asks nobody anything |
| Bridge and harness: `nexus_bridge/`, `harness/` | in-memory session table, cancellation flags | session_new, session_prompt, session_cancel, pause | memory of one process; nothing durable depends on it |
| Agent tasks: `services/agent_tasks.py`, `domain/agent_tasks.py`, `api/a2a.py` | `agent_tasks`, delegation chains, streams | open, start, ask for input, escalate, complete, cancel, two sweeps, stream | a task and the run that answers it end together; chains are bounded and acyclic; a watcher hears the end |
| Branches, syntheses, turn locks: `services/branches.py` | `branches`, `branch_syntheses`, `turn_locks`, published versions | start, select, synthesize, sweep | one outcome per synthesis; a late one publishes nothing; the turn is given back when its run ends |
| Event log: `db/repositories.py` (`EventRepo`), `security/audit.py`, `services/audit.py` | `room_events` with a hash chain, `event_redactions` | append, redact, verify, export | gap-free per-room order; the chain verifies at every instant; a verified export is whole |
| Records and conversation: `services/records.py`, `conversation.py` | messages, tasks, decisions, artifacts, memories and every copy of their words | create, move, delegate, steer, review, snapshot | an event for every act; no copy an erasure does not know of |
| Erasure: `services/erasure.py` | none of its own: it rewrites the others | erase_user, in many transactions | it reaches everything the member typed, and nothing comes back |
| Ontology: `services/ontology.py` | `ontology_entities`, extraction cursors, reviews | extract, review, tell currency | an assertion follows its row; a person's account stands |
| Realtime: `realtime/`, `web/js/socket.js` | subscriptions and their queues, Redis channel, a tab's cursor | subscribe, replay, broadcast, overflow, revoke, resync | no gap between replay and live that stays; a removed member hears nothing |
| Presence: `services/presence.py` | in-memory map or Redis keys | join, heartbeat, leave, cleanup | present while a socket is served |
| Sign-in sessions: `security/sessions.py`, `oidc.py`, `auth.py` | `user_sessions`, access and refresh tokens, login attempts | login, refresh, reuse detection, revoke, logout | one line of credentials per session; a spent token ends it; what is over stays over |
| Rooms, workspaces, agents: `services/rooms.py`, `organizations.py`, `agents.py` | `room_members`, `workspace_members`, handles, `agent_room_memberships`, templates | bootstrap, create, invite, leave, role, remove, expel, spawn, dismiss, rejoin, address | a room with members keeps an admin; a handle names one participant |
| Capabilities: `security/capabilities.py`, `authorization.py` | pure | terms, policies, postures, decide | intersection only ever narrows; a posture only ever adds a pause |
| Database: `db/connection.py` | one writer connection, the task that owns its transaction, a read pool | transaction, execute, fetch | a statement never lands in another task's transaction; the lock comes back |
| Meta, server, routes, start-up, migrations, metrics, rendering | decoding, periodic loops, scoring | | |

Components call one another inside one process, through the service object;
processes share only the database file and, for live delivery, Redis. The
callbacks that matter are the heartbeat (`session_prompt` calls
`_renew_run_lease` before it returns) and the background dispatchers started
after a commit.

**The hard behaviours** are all of one kind. A handler runs alone between two
`await`s; every write transaction is serialised (`BEGIN IMMEDIATE`); and
between two awaits anything else may happen: another entrance, a reviewer's
decision, a cancellation, the sweep, an erasure, a crash. What a handler read
before an await it may spend after it. `PROJECT.json` lists each such place as
a hazard, with the property aimed at it.

## Modules

| Module | What it is | Models |
|---|---|---|
| `AgentRuns` | the run ledger: the row pair of each run, one operator per repository write, with the compare-and-swap of each as a guard; as a specification of its own (`LedgerSpec`), what the repositories allow | `db/repositories.py`, `domain/models.py` |
| `RunLifecycle` | every handler that moves a run, one action from one await to the next; extends `AgentRuns` | `services/runs.py`, `steps.py`, `_shared.py`, and the parts of `conversation.py`, `agent_tasks.py`, `agents.py`, `bootstrap.py`, `server.py` and the bridge that reach a run |
| `RunContract` | the abstract specification: a run is opened, tools act while it is open, it ends once, answered or with a reason | what the rest of the product relies on |
| `EventLog` | the chained log of each room, redaction, verification and export | `EventRepo`, `EventRedactionRepo`, `security/audit.py`, `services/audit.py` |
| `RoomHistory` | the abstract specification of the log: it grows at its end; an erasure blanks what one author said and says so | what readers of the log rely on |
| `RoomRecords` | what people type, every table that keeps it, how tasks and decisions move, and the erasure of a member; extends `EventLog` | `services/records.py`, `conversation.py`, `erasure.py`, parts of `branches.py`, `runs.py`, `agent_tasks.py` |
| `Ontology` | extraction passes, reviews and currency over those records; extends `RoomRecords` | `services/ontology.py`, `OntologyRepo` |
| `Realtime` | one member watching one room over sockets, processes and reconnections | `realtime/`, `services/presence.py`, `web/js/socket.js` |
| `AgentTasks` | delegated tasks beside the runs that serve them, sweeps and streams | `services/agent_tasks.py`, `domain/agent_tasks.py`, `AgentTaskRepo`, `api/a2a.py` |
| `BranchSynthesis` | branches, the turn lock, synthesis requests and what they publish | `services/branches.py` and its repositories |
| `SignInSessions` | logins, rotation, the provider's word, the clocks, logouts | `security/sessions.py`, `oidc.py`, `auth.py`, `UserSessionRepo` |
| `Roster` | people, roles, agents, templates and handles of a workspace | `services/rooms.py`, `organizations.py`, `agents.py`, `security/authorization.py` |
| `Connection` | the connection every other module takes for granted | `db/connection.py` |
| `MC*` | instances for TLC: sets, symmetry, and which part of the module a behaviour belongs to | |
| `RunLifecycleProofs`, `RunDriverProofs` | proofs about the run ledger, the run service, its drivers and `RunContract`, the gate before a tool | |
| `RoomRecordsProofs` | proofs about the logs, erasures and exports; the same with extraction and reviews among the writers | |
| `RealtimeProofs` | proofs about what a tab is shown and what it misses | |
| `WorkProofs` | proofs about `AgentTasks` and `BranchSynthesis` | |
| `SignInProofs`, `RosterProofs`, `ConnectionProofs` | proofs about `SignInSessions`, `Roster` and `Connection` | |

Composition: `RunLifecycle` extends `AgentRuns`; `Ontology` extends
`RoomRecords` extends `EventLog`, so an extraction, an erasure, an export and a
message interleave in one state space; `AgentTasks` holds a run only as open or
settled, which is what `RunContract` leaves of it; `BranchSynthesis` shares the
room's turn with the messages of `RoomRecords` through its `TurnGuard`;
`Connection` justifies that an action of every other module is atomic.

### How `RunLifecycle` corresponds to the code

A *task* is one handler in flight on some process: a route, a dispatcher, a
decision's continuation, a cancellation, a sweep. Its record holds the await it
stands at (`pc`) and the locals it carries over it (`read`: the execution's
status as it read it; `held`: the lease a sweep read; `state`: the harness
state a heartbeat read; `why`, `then`, `seen`). Any idle task can take up any
door, so `Tasks` bounds concurrency and nothing else.

| Awaits | Code |
|---|---|
| `enter`, `claim`, `begin`, `mark`, `prompt`, `beat`, `answer` | `_execute_one_agent_step_inner`, with `_renew_run_lease` in `beat` |
| `tool`, `resolve` | `_run_tool`, `_execute_tool_request_inner` |
| `park` | `_park_if_attempts_spent` |
| `advance`, `deny`, `resume` | `approve_action` after its commit, `_resume_suspended_turn` |
| `settle`, `discard`, `list`, `expire` | `_settle_run`, `_expire_undecided_approvals` |
| `undispatched`, `unresumable`, `orphan` | `_settle_undispatched_run`, `_settle_unresumable_turn`, `_settle_orphaned_mention_runs` |
| `cancel`, `pause`, `unpause`, `update` | `cancel_execution`, `pause_execution`, `resume_execution`, `record_session_update` |

Abstractions, all deliberate:

* Time. A lease is a renewal number and whether it has run out. A renewal
  writes a later timestamp, so no earlier reader holds it; nothing else is ever
  asked of a lease.
* Authority. `lends` holds the runs whose bounding principals (authorizer,
  callers, steerers) all still lend the agent something; it is only ever
  withdrawn. A call may be refused even so: the one capability it needs, or the
  reviewer's own grant, may be missing.
* The token budget can only be found spent after a first prompt.
* A tool's effect is one element of `wrote`. Reads count: disclosure is checked
  in the same transaction as a write.
* Events, logs, agent status, the `sessions` row, branch completion and the
  agent-task row written beside a settlement are left out: no guard of a run
  reads them. Steers change the prompt only.
* Two reads with no write that matters between them are one step (the sweep's
  list and status read, `_park_if_attempts_spent`'s read and its
  compare-and-swap). `CANCEL_REQUESTED` exists only inside the removal
  transaction. An agent's removal is modelled per run.
* `Die` is a task lost at an await, `Restart` a process: all tasks, the session
  table and the flags are gone. The bridge of the model is one process's
  memory; a task of another process is one for which the run is not in `live`.

### How `EventLog`, `RoomRecords` and `Ontology` correspond to the code

A row of `log` is a row of `room_events`; `counter` is `room_sequences`. A hash
is the tuple it is taken over, so two hashes are equal exactly when what they
cover is. A payload says which texts it is about, whether it carries their
words, and, for `event.redacted`, which redactions it announces. Appending is
`append_with_next_sequence_in_transaction`, alone or as the last step of the
transaction that also redacts; `Events` is several appends of one transaction.
Verification and export are several reads on connections of their own, one step
each.

A *text* is something one person typed once. `typed` says who, where and in
which event; `held` says which tables still show it. Every operation that
stores words is one action with the tables it writes; a search row, a
notification, a branch's context snapshot or the label a review of the ontology
quotes is a copy. `Request` and `MayMutate`
separate the authentication of a request from its commit, because the commit
reads the membership again and not the session. `erase_user` lists the events
once (`BeginErasure`), then takes one transaction per room (`EraseRoom`), one
per row of each remaining table in the order of the code (`NextTable` lists a
table's rows, `SweepRow` takes one), and writes the tombstone (`Tombstone`); two operators may run it, and either may die. The
payloads are judged as they were listed, and `event_redactions` refuses a second
record of one event, which makes the slower operator's call raise.

`ExtractOntology` is one immediate pass: it reads at most `PassLimit` events
after the cursor, asserts the rows they are about as they stand *now*, tells
reviewed assertions whose row differs, and moves the cursor. Two reviews,
`ConfirmAssertion` and `CorrectAssertion`, are `review_ontology_entity`: the
review's row and the payload of its event quote the assertion as it was and as
it is (`Quotes`).

### How `Realtime` corresponds to the code

An event is its sequence number. A `conn` is one `websocket_endpoint`, at one of
its awaits: `asked`, `authorized`, `fit`, `subscribed`, `joining`, `replaying`,
`live`, `closing`, `leaving`; it has a bounded queue, the page it is replaying, and in `hand` the
event whose membership check has passed and whose send has not. A `tab` is
`socket.js` with its cursor `last`, the snapshot it is loading and what it keeps
of the live events meanwhile. `jobs` are handlers after their commit (revoke,
then broadcast, then presence, in the order of the code), `wire` the fan-out.
A fetch of the room is let in by the route (`AuthorizeState`), reads the head
(`ReadHead`), then the rows that no head bounds (`ReadRows`), and is applied
(`StateArrives`). `redis` says which deployment it is: without Redis there is one
process (`Alone`) and presence is its dictionary, changed between two awaits; with
it, presence is one key for all processes, set (`JoinPresence`) and deleted
(`LeavePresence`) over the network, and it may run out (`PresenceLapses`).
`entitled` remembers the log as it was when the member last could read it;
`late` how much a fetch read after the removal it was let in before; `refused`
that a tab's last fetch of the room brought nothing. None of them is read by any
other step. A tab starts at the cursor of a page that has just been opened, or, to
stand for a cursor of another database, at one the log never reaches
(`FirstCursors`); the code answers the latter with 4408.
Several events with the same fate are several `jobs`, broadcast in any order.

### How `AgentTasks` and `BranchSynthesis` correspond to the code

A task row carries its chain; `run` is the sequence of executions made for
tasks. `handed` are turns a process owes after a commit, `driven` runs it is
driving, `unlogged` moves whose event comes in a second transaction, `told` the
task events of the room, `onAir` those not yet broadcast. Each move is a
compare-and-swap on the state its handler read, so a handler that read another
state changes nothing and one step is enough. `Settles` is
`settle_for_execution_in_transaction`, part of whatever settles a run. One row
of the initial states is what an older version left: `WORKING` behind a run that
has settled, for the sweep to find.

A branch is its runs and their statuses; `lock` is the room's active turn lock.
A synthesis request passes its gates in three reads outside the transaction
(`ReadOutputs`, `ReadSelections`, `ReadRuns`), selections and runs moving on
between them,
commits the row with its idempotency key, calls the provider, reads the lineage
it will extend (`ReadLineage`), and publishes or fails. `old` says that the
synthesis is past its five minutes.

### How `SignInSessions`, `Roster` and `Connection` correspond to the code

Every handler of `SignInSessions` reads the clock once, before its network call,
and carries that `moment` into its transaction. `unspent` holds the refresh
tokens not consumed, `access` the access tokens not revoked. A refusal is two
transactions: the token is spent (`SpendRefresh`, to `doomed`), then the session
is revoked (`RevokeDoomed`); a refusal by the provider is the answer
(`Revalidate`), then the revocation (`Withdraw`). A logout token names a session
(sid), its subject, or both (`says`), and a login's ID token named its session or
did not (`named`); `Targets` is what the code makes of the two. The provider's own refresh token is a number that
grows with every use; it takes the latest only.

`Roster` separates a request's arrival (`Ask`) from the transaction that carries
it out, which judges the author again (`Fence`). A handle is a number per room;
the first one free stands for the suffix the unique index lets through. A room
is created bare, or from a room template with its agent in the same transaction
(`CreateRoomFromTemplate`; one agent stands for the template's list).

`Connection` has one step per await of a task and one per call of aiosqlite's
worker thread. A call is handed over at the await and made later, in order,
whether or not its task still waits; a cancellation lands at any await and the
task goes where the `except` and `finally` of the code send it (`AfterCancel`).
SQLite commits, rolls back or fails the call; what one transaction writes is
`Rows` rows.

## Runs

Every run states `CHECK_DEADLOCK FALSE`: when everything is settled, erased,
sent or ended and the bounds allow nothing more, the system really has nothing
left to do.

| Run | Instance | Question |
|---|---|---|
| `turns` | 1 run, 2 handlers, 2 calls, 2 attempts | no double prompting, a held turn is complete, a call acts once and before it is answered, a closing settlement leaves nothing to decide, `RunContract` implemented |
| `faults` | a settled run and the one that follows, 2 handlers, 1 call, 2 attempts; a crash, a pause or an out-of-band update | records coherent, effects approved, settlements and decisions final |
| `live` | 1 run, 2 handlers of which one sweeps, a crash, fairness | every run is eventually settled |
| `records` | 2 rooms, 2 texts, 1 member, 2 operators, 1 auditor, 7 events a room | the chain verifies, a verified export is whole, an erasure reaches everything and nothing returns, assertions follow, reviews stand, `RoomHistory` implemented |
| `realtime` | 2 processes with Redis or 1 without, 2 sockets, 1 tab, 3 events, queue and page of 1 | a removed member is given nothing a fetch had not let in, holes heal, presence, closing, catching up |
| `work` | 3 tasks, 2 agents, 1 stream; 2 branches, 2 syntheses, 2 workers, 1 key | tasks end with their runs, chains, streams, locks, one outcome, lineages; tasks and syntheses end |
| `signin` | 2 logins, 2 requests, 3 generations, short clocks | one line of credentials, replay ends the session, logged out stays out, whatever the logout token names |
| `roster` | 3 people, 2 rooms, 2 agents, 2 requests at once, 4 in all | admins, membership, handles |
| `connection` | 2 tasks with 2 units each, 2 rows, 2 cancellations, 1 failing statement | atomicity, no torn read, every unit ends |
| `finding_*` | the smallest instance that shows it | a sentence of the repository that the code does not keep |

**Parts.** An MC module often splits its behaviours into *parts* fixed in the
initial state, so that the state spaces of independent hazards add instead of
multiplying: `MCRoomRecords` (operators, members, rooms, audits, ontology),
`MCRealtime` (drops, removal, fetch, cursor), `MCWork` (chain, watch, heal, lock,
race), `MCSignIn` (signin, refresh, two), `MCRoster` (people, agents);
`MCRunFaults` does it by beginning with two of three bounds spent, behind a run
that was settled `FAILED`; the run `live` asks no question that gates no call, whose
approval neither holds a run nor ends one (`LiveSpec`). A part only forbids steps; the modules' own `Next` is
unrestricted. Where a run checks liveness, no part forbids for good a step whose
fairness is assumed: it forbids faults and inputs, and what it orders (a
broadcast made at once, say) it lets happen in the next step.

**Why the bounds are enough.** Every hazard listed for the runs is a race
between the handler that carries a run and one other, over one call; two
handlers and one run reach all of them, and handlers of different runs share
only the pool of idle tasks. Two calls are needed only where a turn goes on
after a decision and asks again, which `turns` has. Two attempts allow a turn
its second prompt, and a third is another loop. The theorems below remove the
bounds from the properties they state. Two texts and two operators give a copy
taken across an erasure and a second erasure beside the first; a page of two
events and a pass of two against seven events of a room make exports and passes
take several. A queue and a page of one overflow at the second event and page at
the first. Two requests are every race of a check and a commit; the third
person of `roster` is whom two admins leave behind. Two rows make a transaction
that can be half of something. `connection` has no
cancellation at the last rollback (`MaxLate = 0`); `finding_connection` has one.
Three generations are a token, its successor and the one a replayed token would
mint.

**Fairness.** Weak fairness of `Proceed`: the event loop resumes every handler
that can go on, and every provider call has a timeout. Weak fairness of
`LeaseExpires`: time passes. Strong fairness of `Sweep` for the sweeper tasks:
`server.py`'s `sweep_run_leases` loop wakes up for ever and settles every row of
the list, so a run that is sweepable again and again is swept; a sweeper in the
model also serves other doors, hence strong. Nothing is assumed of members,
reviewers or dispatchers: they may never act. `Realtime` assumes the same of the
event loop, of a browser that retries and of a socket's beat (`Reauthenticate`
comes round every `REAUTH_SECONDS`), and nothing of losses, removals or drops.
`AgentTasks` and `BranchSynthesis` assume the dispatchers of a living process
and the sweeps of every minute; `SignInSessions` that a handler goes on unless
it dies; `Connection` that the worker makes every call and that the lock, a
queue, hands itself on (strong fairness of `TakeReader`: the pool is a fair
queue, which the model does not keep in order).

## What the runs found

Each is a run that TLC ends with a counterexample, against a sentence of the
repository quoted in `PROJECT.json`.

* `UndispatchedSparesDriven`: a mention dispatcher that is refused its turn
  because a route is driving the run settles the run `FAILED` under that route.
  The compare-and-swap is on the execution's status, which the driving turn has
  not changed.
* `NoTitleOutlivesErasure`: `delegate_task` copies a task's title into a second
  row, and the event of that row has the agent as its actor. The erasure scrubs
  the tasks of events whose actor is the erased person, so the copy keeps what
  the person typed.
* `LockComesBack`: `transaction()` awaits a last `ROLLBACK` under
  `suppress(Exception)` before it clears the owner and releases the lock.
  `CancelledError` is not an `Exception`, so a cancellation at that await skips
  both lines, and every later writer of the process waits for ever.

### Observed, without a run of their own

Seen in the code or in counterexamples on the way; the properties above are
stated so that they say what does hold.

Runs:

* `_settle_undispatched_run` discards no suspended turn and expires no approval,
  so an approval can stay `PENDING` against a settled run.
* A turn entered from a route and refused between prompts leaves the run
  `STREAMING` with nobody carrying it until its lease runs out.
* A sweep between a decision's commit and the advance after it settles
  `APPROVAL_EXPIRED` a run whose reviewer answered in time.
* The startup sweep settles a run claimed since it listed it.
* A paused run is failed, which `VALID_EXECUTION_TRANSITIONS` does not list.
* An out-of-band harness update takes a held run off its reviewer's lease, and
  the sweep calls it orphaned. `HeldTurn` is checked without such updates.

Records and ontology:

* A label of `ontology_entities` is classified as not written by a user; it
  keeps an erased title, and currency says it is current.
* A review of an assertion quotes its label, the title of a task or a decision,
  as `before` and `after` in `ontology_reviews` and in the payload of its event.
  `_carries_personal_content` looks at the top-level keys of the author's own
  events, so no erasure finds the quotation in `room_events.payload`, which is
  classified `redacted`; and a review made after the erasure, of an assertion
  that still shows the title, writes it into the log again. The two tables are
  `Quoted`, and `NothingErasedComesBack` and `ErasureReachesAll` hold everywhere
  but there and in a delegated task (`Unreached`). The columns of
  `ontology_reviews` are `kept_by_ruling`.
* A second operator's erasure raises at the unique key of `event_redactions`.
* A mention turn in flight can park its prompt after the erasure has swept
  `suspended_turns`.
* A verification whose two reads have an append between them reports a counter
  that does not match.

Rooms and sign-in:

* `remove_workspace_member` counts no admins and can leave a room without one;
  `AdminsChangeHands` says what remains true.
* A person's handle is never released when they leave; a template deleted
  between the check and the spawn is spawned all the same; two claims of an
  agent's addressing may lose one.
* A login in flight when the provider's logout is accepted still establishes a
  session.
* A logout token that carries only a `sid` names nothing to this service when the
  ID token of the login carried none: its `jti` is burned, no session is revoked,
  and the session stays live until a refresh or a clock ends it.
  `LoggedOutStaysOut` is about tokens that name the session in a way the login
  knows (`CommonName`).

Live delivery and work:

* A second gap met while the reload for the first is in flight asks for no other
  reload; with a lost fan-out message that hole stays until the next reconnect.
* So does the hole of a tab that reconnects, is refused its reload while the member
  is out for a moment, and is readmitted before its socket is authorized.
* `get_room_state` is let in by the route and then reads the head and the room's
  rows, none of which asks for the membership again: a member removed in between
  is shown what was committed after the removal. `NothingPastRemoval` excepts
  exactly that (`late`).
* A presence key shared through Redis is cleared by the last socket of one
  process while another process still serves the member, and by a socket that
  found itself the last while another one was joining. Both are behaviours of
  the model; `PresentWhileServed` is stated for a deployment without Redis.
* A watcher of a task can miss a move made between its snapshot and its
  subscription.
* Two first publications of one artifact create two lineages, and a race of
  versions surfaces as a bare `IntegrityError`.
* A `COMMIT` cancelled while it executes takes effect, and its caller sees an
  error.

## What is proved

Each theorem holds for every value of the constants that satisfies the named
`ASSUME`s, hence for any number of runs, tasks, people, rooms, handlers and
operators. What the assumptions say: a null value is none of the data it stands
beside (`Nobody` no person, text or agent row, `NoTask` no task, `NoAssertion` no
assertion), bounds are naturals, pages, passes and queues hold at least one,
the log of `Realtime` has room for its first event, `Alone` is one of its processes and a tab starts at a cursor
it has reached or never will (`FirstCursors`), `MaxAttempts >= 1`, and in `Roster` people and agents are finitely many (else a
free handle need not exist). TLC evaluates every one of them on a run.

Each invariant below was checked by TLC on the run of its module before it was
proved. Where the property is not inductive the text says what was added and why.

* **The ledger** (first part of `RunLifecycleProofs`). `Coherent` and `OutputIffAnswered` are
  inductive together with the types: each write starts from a row whose status
  its compare-and-swap names. `LedgerSettlementFinal`: no write changes a
  settled run.
* **The service keeps the ledger** (second part of `RunLifecycleProofs`). The service writes
  from what it read earlier, so the ledger's guards are not the handlers'
  guards. The inductive invariant is `TypeOK`, the ledger's invariant and
  `CarriedFacts`: a status read as terminal is terminal for good, a settlement
  about to be written never claims an answer, a call named by a task is still
  that run's call. With it every step is a ledger step or leaves the ledger
  alone (`ServiceKeepsLedger`, a refinement), and `TypeCorrect`,
  `AlwaysCoherent`, `AlwaysAnswered`, `EndingsAreFinal` follow.
* **One driver** (first part of `RunDriverProofs`). `SingleDriver` is not inductive: a turn
  changes hands through the `STARTING` state, through a reviewer's question and
  through a settlement that comes back. The strengthening says that a
  `STARTING` run and a run with an undecided gated call have no driver, that
  such a run has one question, and that no heartbeat holds `STARTING`. Most
  actions are *calm* (they hand nothing over) and share one lemma; the claim,
  the gate's suspension and the two decisions are proved on their own. In the
  same module the promises: `DecisionsStand`, `CallsActOnce`, and
  `KeepsContract`: `RunLifecycle` implements `RunContract` under the mapping
  that reads a run's phase off the ledger.
* **The gate** (second part of `RunDriverProofs`). None of its three properties is inductive: each
  speaks of a handler somewhere between two awaits. `AllPoised` is what a handler
  at each await may count on (a call at its tool was let through, a decided call
  is approved, a closing settlement finds the run settled). `Held` says that an
  undecided call of an open run has a suspended turn and `AWAITING_APPROVAL`, as
  long as no out-of-band update came, and that the suspended turn of an open run
  has a question or a decision's task on its way to it, as long as no process
  died. `Shut` says that an undecided call of a closed run has a settler on its
  way, or a process died. `Steady` sums up what a step does to these facts; it is
  shown of every action but `GateSuspends`, which asks the question and has a
  lemma of its own. `GatedCallsApproved`, `GatesClose` and `HeldTurns` follow.
  `CallsActOnce` is an action property on top of them: a handler at a tool has a
  call that has had no effect and whose request is undecided (`Unanswered`),
  which the tool and the answer of the request, two transactions, could break.
  `HeldTurns` states `HeldTurn` for the histories without an out-of-band update
  and without a crash, because that is where the code keeps it:
  `record_session_update` writes `STREAMING` over a held run, and a decision whose
  process dies leaves the suspended turn to the sweep.
* **Logs and erasures** (`RoomRecordsProofs`, first part, for the `Spec` of `RoomRecords`). Three parts.
  `LogInv`: each row sits at its sequence number, is chained to the one before,
  and either has the hash of what it says or was blanked, recorded and announced
  by a later row. It takes care of the transaction in between: a redaction
  blanks rows and appends its announcement as one step, so the lemmas treat a
  step of a log as "rows added at the end" or "these rows blanked and this
  announcement added". `LogsVerify` and `LogsKeepHistory` (the refinement of
  `RoomHistory`) follow. `RecInv`: where the words of an event may be shown
  (`Shown`, by event type) and what an erasure in progress still has to do
  (`Reaching`: what it knows of and has not yet swept it has listed, or its stage
  is before that table's). `ErasedStaysErased` and `ErasuresReachAll` follow.
  `ExportInv`: what an exporter holds is a prefix of one log, which neither
  appends nor redactions disturb because a row keeps its hash for ever; so
  `VerifiedExportsAreWhole`.
* **Extraction and reviews** (`RoomRecordsProofs`, second part, for `OntologySpec`).
  `AssertionsFollow` speaks of the moment when a pass has gone through all the
  events; inductive is `Following`: an assertion that differs from its row is
  `Awaited` by an event of its class after the cursor, or was reviewed and the
  difference told. It needs `ShownInv`: a text that was moved or created is told
  of by an event that no erasure can reach without erasing the text. A
  pass that is capped at `PassLimit` moves the cursor only past what it read.
  `AssertionsAlwaysFollow` and `ReviewsAlwaysStand` follow, and
  `OntologyKeepsRecords`, `OntologyKeepsHistory` carry every result of the
  previous item over, since a pass is one more writer of the log and a review one
  more writer of copies (`Quoted`).
* **Tasks** (`WorkProofs`, first part). `TasksInv` is `TaskTypeOK` with
  `NamesAreKnown` (a name leads to a row; the run of a task is its own),
  `ChainsInv`, `TaskEndsWithRun` and `TellingInv`. `ChainsAreSound` is judged at
  the gates and committed later: `ChainsInv` says it of the asks in between. The
  end of a task is written and logged in two transactions and broadcast in a
  third step: `TellingInv` says that an end is in the log, or owed to it, once,
  and that a listening stream has it in its queue, has the resync marker, or will
  be sent it. `OnlyOwnRuns` is an action property.
* **Branches and syntheses** (`WorkProofs`, second part). `BranchesInv` and
  `SynthesesInv` (`SynthesesSafe`) say what a branch, its runs, a synthesis, the
  requests carrying it and the key it was asked under may say of each other;
  `TurnIsLocked`, `SynthesesEndOnce`, `LineagesStayWhole` follow. That versions
  are numbered without gap or repeat holds because the number is read and written
  in one transaction, whatever `ReadLineage` read before.
* **Sign-in** (`SignInProofs`). `SesInv`: the types; `HandlersKnow` and
  `SignsInOnce` (a handler that signs in holds its login's only attempt alone,
  one that refreshes works for a session that is there); `Begun`; `Lines` (a
  session that is over has nothing spendable, one that lives has no more than one
  token of each kind); `LoggedOut` (the logins the provider has ended and this
  service has been told of by a common name are neither live nor under way, those
  of `late` excepted). `SpendableOnce` and `LoggedOutForGood` follow.
* **Roster** (`RosterProofs`). `RosterInv`: the types, what a request keeps
  between its route and its transaction (`AsksKnow`, only what no step can undo),
  nothing of a workspace that is not there, and everybody in their place. That a
  seated agent or a new member finds a handle is an argument on its own: the
  participants are finitely many, so some number is free, and the first one is
  the least (`WellFoundedInduction`). `EverybodyPlaced`, and the action property
  `AdminsPass`, which needs the fence (`Fence`) evaluated in the step itself.
* **The connection** (`ConnectionProofs`). `WholeOrNothing` is not inductive: a
  cancelled task leaves calls behind that the worker makes later, when another
  task may hold the lock. `Line` gives the order in which they can lie in the
  worker's queue (statements and reads of their own, then one `BEGIN`, write or
  `COMMIT`, then rollbacks only) and what is staged when a write or a `COMMIT` is
  made; `Places` what a task may count on at each await; `Apart` that no unit is
  both a transaction and a statement. `TransactionsAreWhole` follows, also for
  tasks cancelled at their last rollback, which the run excludes for the sake of
  `EveryUnitEnds`. `LockLostOnlyLate` says that those are the only ones that
  take the lock with them: what the run `finding_connection` shows of `LockComesBack` is the one exception.
* **Live delivery** (`RealtimeProofs`). Three properties, none inductive, one
  invariant (`RealtimeInv`). `NothingPastRemoval` needs `Entitlement`: not only
  what a tab shows, but what it buffers, the rows a fetch has read, the snapshot it
  has not applied and the event in a socket's hand are of the log as it was when
  the member last could read it, or within what a fetch let in earlier excuses. `PresentWhileServed` needs that a handler clears a presence only after
  a removal, and that without Redis every socket is of one process. `HolesAreComing` speaks of a socket that is live, and is prepared while the socket still shakes
  hands: an event at or below its cursor is shown, or in a snapshot on its way,
  or was refused (`Kept`, in `AllLinked`); the page it replays is the log right
  after the cursor (`Fit`); and once it has read its last page, every later event
  is still with its handler, in the fan-out, in the queue, in the hand, or the
  socket is doomed by a resync or a revocation in its queue (`OnItsWay`, in
  `AllAhead`). The last is why `Subscribe` must come before the first page is
  read: an event committed after the page has a handler that will find the
  subscription. Losing messages is the one excuse. An overflow, which drops the
  oldest entry, leaves the resync behind; a step that only fills queues is one
  relation (`Fuller`), and a step of a tab that loses nothing another (`Goes`).

Some definitions were put in a form that can be reasoned about, without a change
in what they do (TLC counts the same states): a row is written as an explicit
record where several fields change at once, what an erasure lists is an operator
(`RowsOf`), `SignInSessions` builds its handlers and its rotated session with
`Handling` and `Refreshed`, the lock's queue in `Connection` loses the place
of a cancelled task (`Without`), and `TakeReplay` names the page it cuts.

One property had to be corrected before it could be proved. `HolesAreComing`
used to excuse every history in which a fetch had been lost, and to say nothing
of a fetch that was refused for cause; it held on the run, whose parts keep
removals and reconnections apart. The general statement is false: a tab that
reconnects with a hole, is refused its reload while the member is removed for a
moment (or its credential is gone), and is readmitted before the socket is
authorized, goes live with the hole, and nothing asks again. It now excuses
only a tab whose *last* fetch was refused or lost, which is what the code does
(`settleAndMaybeRetry` asks again only for a request made meanwhile), and holds
however many fetches failed before.

Model-checked only:

* all liveness, which is beyond the prover: `EventuallySettled`, `CaughtUp`,
  `TasksAreServed`, `SynthesisEnds`, `EveryUnitEnds` and the other properties of
  the runs that need fairness.

## Plan

Done, in this order: `AgentRuns`, `RunLifecycle`, `RunContract` and their
proofs, because every other component opens a run or reads how it ended; then
`EventLog`, `RoomHistory`, `RoomRecords`, `Ontology`; `Realtime`; `AgentTasks`
and `BranchSynthesis`; `SignInSessions`; `Roster`; `Connection`.

Proved since, in this order: the ledger, the run service, its drivers and
`RunContract`; `AgentTasks`; `BranchSynthesis`; `RoomRecords` with `EventLog` and
`RoomHistory`; `Ontology`; `SignInSessions`; `Roster`; the gate before a
tool; `Connection`; `Realtime`. Every safety and action property of a passing run
is now a theorem. None of the modules declares a `RECURSIVE` operator
(`EventLog` uses a recursive function).

To model next: the lattice of terms and postures as a pure module checked
against a reference; several rooms on one socket; the erasure's settling of parked turns.

## Not modelled

* Prompt assembly and the decoding of a provider's answer: their outcomes are
  choices of `RunLifecycle` and `BranchSynthesis`.
* `meta`: long sequential scoring over snapshots that are only read.
* The ontology's inference, consolidation, relationships and persons: text and
  scoring, or the same path as tasks and decisions.
* Extra rooms subscribed on the queue of one socket, the `away` of presence and
  its sweep, messages to one user over the fan-out.
* What an erasure does to parked and steered turns, to handles and to identity
  rows, and notifications addressed to the member it erases.
* Reactions, threads, read cursors, artifact shares, hand-written artifact
  versions, policies, postures, a member's own capabilities, the agent's
  status: single rows on which no handler modelled here decides anything that a
  property is about, or which only narrow what a model already lets be refused.
* Connecting to and closing the database, schema, migrations and seeding: done
  before any handler runs.
* Metrics, logs nothing reads back, rendering.

Each component is listed with its status and the reason in `PROJECT.json`.
