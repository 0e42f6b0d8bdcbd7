------------------------------- MODULE WorkProofs -------------------------------
(***************************************************************************)
(* What the work a room asks of agents promises, in two parts that share   *)
(* nothing: agent tasks (AgentTasks) and, below, branches and syntheses     *)
(* (BranchSynthesis).                                                      *)
(***************************************************************************)
EXTENDS AgentTasks, BranchSynthesis, SequenceTheorems, FiniteSetTheorems, TLAPS

(***************************************************************************)
(* What the A2A surface promises, for any number of tasks, agents, people,  *)
(* streams, runs and crashes: whatever ends a run ends its task, no chain   *)
(* of delegations turns back on itself, the room is told how a task ended   *)
(* once, and no stream that listens misses it.  The invariant is TasksInv;  *)
(* StepCases sorts the actions of AgentTasks by what they do to a row, and  *)
(* every conjunct is then shown kind by kind.                               *)
(***************************************************************************)

RunRows == [task : Tasks, agent : Agents, claimed : BOOLEAN, settled : BOOLEAN]
StreamRows ==
    [at : {"off", "snapshot", "listening", "closed"}, of : Tasks \cup {NoTask}, last : AnyState,
     queue : Seq(Nat), behind : BOOLEAN]

\* The types of the rows, of what a process holds in memory, and of the streams.
TaskTypeOK ==
    /\ task \in [Tasks -> TaskRows \cup {NoTask}]
    /\ run \in Seq(RunRows)
    /\ asks \subseteq TaskRows
    /\ handed \subseteq Tasks \X {"accept", "sweep"}
    /\ driven \subseteq DOMAIN run
    /\ unlogged \subseteq Tasks \X AnyState
    /\ told \in Seq(Tasks \X AnyState)
    /\ onAir \subseteq DOMAIN told
    /\ stream \in [Streams -> StreamRows]
    /\ crashed \in Nat

\* Whatever names a task names one that exists, and the run of a task is its own.
NamesAreKnown ==
    /\ \A h \in handed : Exists(h[1])
    /\ \A m \in unlogged : Exists(m[1])
    /\ \A n \in DOMAIN told : Exists(told[n][1])
    /\ \A s \in Streams : stream[s].at # "off" => stream[s].of \in Tasks /\ Exists(stream[s].of)
    /\ \A s \in Streams : Range(stream[s].queue) \subseteq DOMAIN told \cup {Mark}
    /\ \A t \in Tasks : Exists(t) /\ task[t].run # 0 =>
          task[t].run \in DOMAIN run /\ run[task[t].run].task = t

\* A chain without repeats, and the row it was handed on from.
HandedOn(k) ==
    LET whole == Append(k.chain, k.agent) IN
    /\ \A i, j \in DOMAIN whole : whole[i] = whole[j] => i = j
    /\ Len(k.chain) <= MaxDepth
    /\ k.chain # <<>> =>
          \E u \in Tasks : /\ Exists(u) /\ task[u].agent = k.by
                           /\ Append(task[u].chain, task[u].agent) = k.chain
                           /\ task[u].root = k.root
AsksAreSound ==
    \A k \in asks : k.state = "SUBMITTED" /\ k.run = 0 /\ HandedOn(k)

\* An end is told at most once, in the log or in the transaction that comes next.
EndsAreTold ==
    /\ \A t \in Tasks : \A n, m \in Endings(t) : n = m
    /\ \A t \in Tasks : \A n \in Endings(t) : told[n][2] = task[t].state
    /\ \A m \in unlogged : m[2] \in Done => m[2] = task[m[1]].state /\ Endings(m[1]) = {}
    /\ \A t \in Tasks : Exists(t) /\ Over(t) /\ crashed = 0 =>
          Endings(t) # {} \/ <<t, task[t].state>> \in unlogged
\* A stream that listens has not seen the end, and one that was not behind will.
StreamsHearEnds ==
    \A s \in Streams :
        /\ stream[s].at = "snapshot" => stream[s].last \notin Done
        /\ stream[s].at = "listening" /\ Over(stream[s].of) /\ ~stream[s].behind => EndComing(s)

States == {"SUBMITTED", "WORKING", "INPUT_REQUIRED", "AUTH_REQUIRED",
           "COMPLETED", "FAILED", "CANCELED", "REJECTED"}

\* The states of the protocol; nothing moves out of an end, and no move submits.
LEMMA Legal ==
    /\ AnyState = States
    /\ Done = {"COMPLETED", "FAILED", "CANCELED", "REJECTED"}
    /\ \A s \in States : LegalTransitions[s] \subseteq States
    /\ \A s \in Done : LegalTransitions[s] = {}
BY DEF AnyState, States, LegalTransitions, Done, Waiting

\* What is told is appended, and on its way to the streams.
LEMMA TellsAppends ==
    ASSUME TaskTypeOK, NEW ms \in Seq(Tasks \X AnyState), Tells(ms)
    PROVE  /\ told' \in Seq(Tasks \X AnyState)
           /\ onAir' \subseteq DOMAIN told'
           /\ Len(told') = Len(told) + Len(ms)
           /\ DOMAIN told = 1 .. Len(told) /\ DOMAIN told' = 1 .. Len(told')
           /\ \A n \in 1 .. Len(told) : told'[n] = told[n]
           /\ \A n \in Len(told) + 1 .. Len(told') : told'[n] = ms[n - Len(told)]
           /\ onAir' = onAir \cup (Len(told) + 1 .. Len(told'))
BY DEF TaskTypeOK, Tells

\* The outcome of a run is an end, and it is the last thing told of it.
LEMMA OutcomeEnds ==
    ASSUME NEW t \in Tasks, NEW kind
    PROVE  /\ Outcome(t, kind) \in Done
           /\ SettledWith(t, kind) \in Seq(Tasks \X AnyState)
           /\ \E k \in {1, 2} :
                 /\ Len(SettledWith(t, kind)) = k
                 /\ SettledWith(t, kind)[k] = <<t, Outcome(t, kind)>>
                 /\ \A i \in 1 .. k : /\ SettledWith(t, kind)[i][1] = t
                                      /\ i < k => SettledWith(t, kind)[i][2] = "WORKING"
<1>1. Outcome(t, kind) \in Done /\ Done \subseteq AnyState /\ "WORKING" \in AnyState
  BY Legal DEF Outcome, States
<1> DEFINE end == << <<t, Outcome(t, kind)>> >>
           again == << <<t, "WORKING">> >>
<1>2. end \in Seq(Tasks \X AnyState) /\ Len(end) = 1 /\ end[1] = <<t, Outcome(t, kind)>>
  BY <1>1
<1>3. again \in Seq(Tasks \X AnyState) /\ Len(again) = 1 /\ again[1] = <<t, "WORKING">>
  BY <1>1
<1>4. CASE kind = "END_TURN" /\ task[t].state # "WORKING"
  <2>1. SettledWith(t, kind) = again \o end
    BY <1>4 DEF SettledWith
  <2> HIDE DEF again, end
  <2>2. /\ SettledWith(t, kind) \in Seq(Tasks \X AnyState) /\ Len(SettledWith(t, kind)) = 2
        /\ SettledWith(t, kind)[1] = <<t, "WORKING">>
        /\ SettledWith(t, kind)[2] = <<t, Outcome(t, kind)>>
    BY <1>2, <1>3, <2>1, ConcatProperties
  <2> QED
    BY <1>1, <2>2
<1>5. CASE ~(kind = "END_TURN" /\ task[t].state # "WORKING")
  <2>1. SettledWith(t, kind) = <<>> \o end
    BY <1>5 DEF SettledWith
  <2> HIDE DEF end
  <2> QED
    BY <1>1, <1>2, <2>1
<1> QED
  BY <1>4, <1>5

\* The end of a run ends the one task that is still on it, or nobody.
LEMMA SettlesOne ==
    ASSUME TaskTypeOK, NamesAreKnown, NEW r \in DOMAIN run, NEW kind, Settles(r, kind)
    PROVE  \/ ServedTask(r) = {} /\ UNCHANGED <<task, told, onAir>>
           \/ \E t \in Tasks :
                 /\ ServedTask(r) = {t} /\ Exists(t) /\ task[t].run = r /\ ~Over(t)
                 /\ task' = [task EXCEPT ![t].state = Outcome(t, kind)]
                 /\ Tells(SettledWith(t, kind))
<1>1. \A t, u \in ServedTask(r) : t = u
  BY DEF ServedTask, NamesAreKnown, TaskTypeOK
<1> QED
  BY <1>1 DEF Settles, ServedTask

-----------------------------------------------------------------------------
(* Types and names.                                                            *)

TaskInv == TaskTypeOK /\ NamesAreKnown

\* The empty table, and the row an older process left, are typed.
LEMMA TaskInitTyped == TaskInit => TaskInv
<1> SUFFICES ASSUME TaskInit PROVE TaskInv
  OBVIOUS
<1>1. "SUBMITTED" \in AnyState /\ "WORKING" \in AnyState
  BY Legal DEF States
<1>0. /\ asks = {} /\ handed = {} /\ driven = {} /\ unlogged = {} /\ told = <<>> /\ onAir = {}
      /\ crashed = 0
  BY DEF TaskInit
<1>2. /\ task \in [Tasks -> TaskRows \cup {NoTask}] /\ run \in Seq(RunRows)
      /\ \A t \in Tasks : Exists(t) /\ task[t].run # 0 =>
            task[t].run \in DOMAIN run /\ run[task[t].run].task = t
  <2>1. CASE task = [t \in Tasks |-> NoTask] /\ run = <<>>
    BY <2>1 DEF Exists
  <2>2. ASSUME NEW t \in Tasks, NEW a \in Agents, NEW p \in People,
               task = [u \in Tasks |-> IF u # t THEN NoTask ELSE
                   [NewTask(a, NoAgent, p, <<>>) EXCEPT !.state = "WORKING", !.run = 1, !.legacy = TRUE]],
               run = <<[task |-> t, agent |-> a, claimed |-> TRUE, settled |-> TRUE]>>
        PROVE  <1>2
    <3>1. [task |-> t, agent |-> a, claimed |-> TRUE, settled |-> TRUE] \in RunRows
      BY DEF RunRows
    <3>2. run \in Seq(RunRows) /\ DOMAIN run = {1} /\ run[1].task = t
      BY <2>2, <3>1
    <3>3. task[t] = [state |-> "WORKING", run |-> 1, agent |-> a, by |-> NoAgent, root |-> p,
                     chain |-> <<>>, legacy |-> TRUE]
      BY <2>2 DEF NewTask
    <3>4. task[t] \in TaskRows
      BY <1>1, <3>3 DEF TaskRows
    <3> QED
      BY <2>2, <3>2, <3>3, <3>4 DEF Exists
  <2> QED
    BY <2>1, <2>2 DEF TaskInit
<1>3. Quiet \in StreamRows /\ Quiet.at = "off" /\ Range(Quiet.queue) = {}
  <2>1. <<>> \in Seq(Nat) /\ Range(<<>>) = {}
    BY DEF Range
  <2> QED
    BY <1>1, <2>1 DEF StreamRows, Quiet
<1>4. TaskTypeOK
  <2>1. asks \subseteq TaskRows /\ handed \subseteq Tasks \X {"accept", "sweep"}
        /\ driven \subseteq DOMAIN run /\ unlogged \subseteq Tasks \X AnyState
        /\ told \in Seq(Tasks \X AnyState) /\ onAir \subseteq DOMAIN told /\ crashed \in Nat
    BY <1>0
  <2>2. stream \in [Streams -> StreamRows]
    BY <1>3 DEF TaskInit
  <2> QED
    BY <1>2, <2>1, <2>2 DEF TaskTypeOK
<1>5. \A s \in Streams : stream[s].at = "off" /\ Range(stream[s].queue) = {}
  BY <1>3 DEF TaskInit
<1>6. NamesAreKnown
  <2>1. handed = {} /\ unlogged = {} /\ DOMAIN told = {}
    BY <1>0
  <2> QED
    BY <1>2, <1>5, <2>1 DEF NamesAreKnown
<1> QED
  BY <1>4, <1>6 DEF TaskInv

\* What a step may do to a row that exists: it keeps who asked whom, and the run
\* a row names is one that was made for it.
RowsKeep ==
    /\ task' \in [Tasks -> TaskRows \cup {NoTask}]
    /\ \A t \in Tasks : Exists(t) =>
          /\ Exists(t)'
          /\ task'[t].agent = task[t].agent /\ task'[t].by = task[t].by
          /\ task'[t].root = task[t].root /\ task'[t].chain = task[t].chain
          /\ task'[t].legacy = task[t].legacy

\* A row that is moved: only its state changes.
LEMMA MovedRow ==
    ASSUME TaskTypeOK, NEW t \in Tasks, Exists(t), NEW to \in AnyState,
           task' = [task EXCEPT ![t].state = to]
    PROVE  /\ RowsKeep
           /\ task'[t].state = to /\ task'[t].run = task[t].run
           /\ \A u \in Tasks \ {t} : task'[u] = task[u]
<1>1. task[t] \in TaskRows
  BY DEF TaskTypeOK, Exists
<1>2. task'[t] = [task[t] EXCEPT !.state = to]
  BY DEF TaskTypeOK
<1>3. task'[t] \in TaskRows
  BY <1>1, <1>2 DEF TaskRows
<1>4. task'[t] # NoTask
  BY <1>3, NoTaskAssumption
<1>5. task'[t].state = to /\ task'[t].run = task[t].run
  BY <1>1, <1>2 DEF TaskRows
<1> QED
  BY <1>1, <1>2, <1>3, <1>4, <1>5 DEF RowsKeep, TaskTypeOK, TaskRows, Exists

\* A row that is started: its state, and the run it is on.
LEMMA RestartedRow ==
    ASSUME TaskTypeOK, NEW t \in Tasks, Exists(t), NEW r \in Nat,
           task' = Attached(t, r)
    PROVE  /\ RowsKeep
           /\ task'[t].state = "WORKING" /\ task'[t].run = r
           /\ \A u \in Tasks \ {t} : task'[u] = task[u]
<1>1. task[t] \in TaskRows
  BY DEF TaskTypeOK, Exists
<1>2. task'[t] = [[task[t] EXCEPT !.state = "WORKING"] EXCEPT !.run = r]
  BY DEF TaskTypeOK, Attached
<1>3. task'[t] \in TaskRows
  <2>1. task'[t] = [state |-> "WORKING", run |-> r, agent |-> task[t].agent, by |-> task[t].by,
                    root |-> task[t].root, chain |-> task[t].chain, legacy |-> task[t].legacy]
    BY <1>1, <1>2 DEF TaskRows
  <2>2. "WORKING" \in AnyState
    BY Legal DEF States
  <2>3. /\ task[t].agent \in Agents /\ task[t].by \in Agents \cup {NoAgent} /\ task[t].root \in People
        /\ task[t].chain \in Seq(Agents) /\ task[t].legacy \in BOOLEAN
    BY <1>1 DEF TaskRows
  <2> QED
    BY <2>1, <2>2, <2>3 DEF TaskRows
<1>4. task'[t] # NoTask
  BY <1>3, NoTaskAssumption
<1>5. task'[t].state = "WORKING" /\ task'[t].run = r
  BY <1>1, <1>2 DEF TaskRows
<1> QED
  BY <1>1, <1>2, <1>3, <1>4, <1>5 DEF RowsKeep, TaskTypeOK, TaskRows, Exists, Attached

\* A row that is new keeps every other.
LEMMA NewRow ==
    ASSUME TaskTypeOK, NEW t \in Tasks, ~Exists(t), NEW k \in TaskRows,
           task' = [task EXCEPT ![t] = k]
    PROVE  RowsKeep /\ task'[t] = k /\ Exists(t)' /\ \A u \in Tasks \ {t} : task'[u] = task[u]
BY NoTaskAssumption DEF RowsKeep, TaskTypeOK, Exists

\* A step that leaves the table alone keeps the rows.
LEMMA SameRows == ASSUME TaskTypeOK, UNCHANGED task PROVE RowsKeep
BY DEF RowsKeep, TaskTypeOK, Exists

\* ... and to the runs: they stay, their task with them, and settle for good.
RunsKeep ==
    /\ run' \in Seq(RunRows) /\ DOMAIN run \subseteq DOMAIN run'
    /\ \A r \in DOMAIN run : run'[r].task = run[r].task /\ (run[r].settled => run'[r].settled)

\* A run that is claimed, or settles.
LEMMA MarkedRun ==
    ASSUME TaskTypeOK, NEW r \in DOMAIN run,
           run' = [run EXCEPT ![r].claimed = TRUE] \/ run' = [run EXCEPT ![r].settled = TRUE]
    PROVE  /\ RunsKeep /\ DOMAIN run' = DOMAIN run
           /\ \A q \in DOMAIN run \ {r} : run'[q] = run[q]
           /\ run' = [run EXCEPT ![r].settled = TRUE] => run'[r].settled
           /\ run' = [run EXCEPT ![r].claimed = TRUE] => run'[r].settled = run[r].settled
<1>1. run[r] \in RunRows
  BY DEF TaskTypeOK
<1>2. /\ run'[r] \in RunRows /\ run'[r].task = run[r].task /\ (run[r].settled => run'[r].settled)
      /\ run' = [run EXCEPT ![r].settled = TRUE] => run'[r].settled
      /\ run' = [run EXCEPT ![r].claimed = TRUE] => run'[r].settled = run[r].settled
  BY <1>1 DEF RunRows
<1>3. run' \in Seq(RunRows) /\ DOMAIN run' = DOMAIN run
  <2>1. run \in Seq(RunRows) /\ DOMAIN run = 1 .. Len(run) /\ Len(run) \in Nat
        /\ run \in [1 .. Len(run) -> RunRows]
    BY LenProperties DEF TaskTypeOK
  <2>2. run' = [run EXCEPT ![r] = run'[r]]
    BY <2>1
  <2> QED
    BY <1>2, <2>1, <2>2, ExceptSeq
<1> QED
  BY <1>2, <1>3 DEF RunsKeep

\* A run that is made for a task.
LEMMA AddedRun ==
    ASSUME TaskTypeOK, NEW t \in Tasks, Exists(t), run' = Append(run, NewRun(t))
    PROVE  /\ RunsKeep /\ Len(run) + 1 \in DOMAIN run' /\ Len(run) \in Nat
           /\ run'[Len(run) + 1].task = t /\ ~run'[Len(run) + 1].settled
           /\ \A q \in DOMAIN run : run'[q] = run[q] /\ q # Len(run) + 1
<1>1. NewRun(t) \in RunRows /\ NewRun(t).task = t /\ ~NewRun(t).settled
  BY DEF NewRun, RunRows, TaskTypeOK, TaskRows, Exists
<1> HIDE DEF NewRun
<1> QED
  BY <1>1, AppendProperties DEF RunsKeep, TaskTypeOK

\* A step that leaves the executions alone keeps the runs.
LEMMA SameRuns == ASSUME TaskTypeOK, UNCHANGED run PROVE RunsKeep
BY DEF RunsKeep, TaskTypeOK

\* The log only grows, and what is on its way is of the log.
LogKeeps ==
    /\ told' \in Seq(Tasks \X AnyState) /\ onAir' \subseteq DOMAIN told'
    /\ DOMAIN told \subseteq DOMAIN told'
    /\ \A n \in DOMAIN told : told'[n] = told[n]

\* A step keeps the types and the names if what it adds is known.
LEMMA KeepsInv ==
    ASSUME TaskInv, RowsKeep, RunsKeep, LogKeeps, crashed' \in Nat, asks' \subseteq TaskRows,
           \A n \in DOMAIN told' \ DOMAIN told : task'[told'[n][1]] # NoTask,
           \A h \in handed' \ handed : h \in Tasks \X {"accept", "sweep"} /\ task'[h[1]] # NoTask,
           driven' \ driven \subseteq DOMAIN run',
           \A m \in unlogged' \ unlogged : m \in Tasks \X AnyState /\ task'[m[1]] # NoTask,
           stream' \in [Streams -> StreamRows],
           \A s \in Streams : stream'[s] = stream[s] \/
               /\ stream'[s].at # "off" => stream'[s].of \in Tasks /\ task'[stream'[s].of] # NoTask
               /\ Range(stream'[s].queue) \subseteq DOMAIN told' \cup {Mark},
           \A t \in Tasks : task'[t] # NoTask /\ task'[t].run # 0 =>
               \/ Exists(t) /\ task'[t].run = task[t].run
               \/ task'[t].run \in DOMAIN run' /\ run'[task'[t].run].task = t
    PROVE  TaskInv'
<1>1. TaskTypeOK'
  <2>1. handed' \subseteq Tasks \X {"accept", "sweep"}
    BY DEF TaskInv, TaskTypeOK
  <2>2. unlogged' \subseteq Tasks \X AnyState
    BY DEF TaskInv, TaskTypeOK
  <2>3. driven' \subseteq DOMAIN run'
    BY DEF TaskInv, TaskTypeOK, RunsKeep
  <2> QED
    BY <2>1, <2>2, <2>3 DEF TaskTypeOK, RowsKeep, RunsKeep, LogKeeps
<1>2. \A n \in DOMAIN told' : task'[told'[n][1]] # NoTask
  <2>1. ASSUME NEW n \in DOMAIN told PROVE task'[told'[n][1]] # NoTask
    <3>1. told[n][1] \in Tasks /\ Exists(told[n][1])
      BY DEF TaskInv, TaskTypeOK, NamesAreKnown
    <3> QED
      BY <3>1 DEF LogKeeps, RowsKeep, Exists
  <2> QED
    BY <2>1
<1>3. \A s \in Streams :
        /\ stream'[s].at # "off" => stream'[s].of \in Tasks /\ task'[stream'[s].of] # NoTask
        /\ Range(stream'[s].queue) \subseteq DOMAIN told' \cup {Mark}
  BY DEF TaskInv, NamesAreKnown, LogKeeps, RowsKeep, Exists
<1>4. \A t \in Tasks : Exists(t)' /\ task'[t].run # 0 =>
         task'[t].run \in DOMAIN run' /\ run'[task'[t].run].task = t
  BY DEF TaskInv, NamesAreKnown, RunsKeep, Exists
<1>5. (\A h \in handed' : task'[h[1]] # NoTask) /\ (\A m \in unlogged' : task'[m[1]] # NoTask)
  <2>1. (\A h \in handed : h[1] \in Tasks /\ Exists(h[1]))
        /\ (\A m \in unlogged : m[1] \in Tasks /\ Exists(m[1]))
    BY DEF TaskInv, TaskTypeOK, NamesAreKnown
  <2> QED
    BY <2>1 DEF RowsKeep, Exists
<1> QED
  BY <1>1, <1>2, <1>3, <1>4, <1>5 DEF TaskInv, NamesAreKnown, Exists

\* What a step tells of one task.
LEMMA TellsKeeps ==
    ASSUME TaskInv, NEW t \in Tasks, NEW ms \in Seq(Tasks \X AnyState), Tells(ms),
           \A i \in 1 .. Len(ms) : ms[i][1] = t
    PROVE  LogKeeps /\ \A n \in DOMAIN told' \ DOMAIN told : told'[n][1] = t
<1>1. TaskTypeOK /\ Len(ms) \in Nat /\ Len(told) \in Nat
  BY DEF TaskInv, TaskTypeOK
<1>2. /\ told' \in Seq(Tasks \X AnyState) /\ onAir' \subseteq DOMAIN told'
      /\ DOMAIN told = 1 .. Len(told) /\ DOMAIN told' = 1 .. Len(told')
      /\ Len(told') = Len(told) + Len(ms)
      /\ \A n \in 1 .. Len(told) : told'[n] = told[n]
      /\ \A n \in Len(told) + 1 .. Len(told') : told'[n] = ms[n - Len(told)]
  BY <1>1, TellsAppends
<1>3. ASSUME NEW n \in DOMAIN told' \ DOMAIN told PROVE told'[n][1] = t
  <2>1. n \in Len(told) + 1 .. Len(told') /\ n - Len(told) \in 1 .. Len(ms)
    BY <1>1, <1>2
  <2> QED
    BY <1>2, <2>1
<1> QED
  BY <1>1, <1>2, <1>3 DEF LogKeeps

\* One event, committed with its move.
LEMMA TellsOne ==
    ASSUME TaskInv, NEW t \in Tasks, NEW state \in AnyState, Tells(<< <<t, state>> >>)
    PROVE  /\ LogKeeps /\ \A n \in DOMAIN told' \ DOMAIN told : told'[n] = <<t, state>>
           /\ Len(told) + 1 \in DOMAIN told' \ DOMAIN told
           /\ DOMAIN told' = DOMAIN told \cup {Len(told) + 1}
           /\ onAir' = onAir \cup {Len(told) + 1}
<1> DEFINE ms == << <<t, state>> >>
<1>1. ms \in Seq(Tasks \X AnyState) /\ Len(ms) = 1 /\ ms[1] = <<t, state>>
  OBVIOUS
<1> HIDE DEF ms
<1>2. TaskTypeOK /\ Len(told) \in Nat /\ Tells(ms)
  BY DEF TaskInv, TaskTypeOK, ms
<1>3. /\ told' \in Seq(Tasks \X AnyState) /\ onAir' \subseteq DOMAIN told'
      /\ DOMAIN told = 1 .. Len(told) /\ DOMAIN told' = 1 .. Len(told')
      /\ Len(told') = Len(told) + Len(ms)
      /\ \A n \in 1 .. Len(told) : told'[n] = told[n]
      /\ \A n \in Len(told) + 1 .. Len(told') : told'[n] = ms[n - Len(told)]
      /\ onAir' = onAir \cup (Len(told) + 1 .. Len(told'))
  BY <1>1, <1>2, TellsAppends
<1>4. Len(told') = Len(told) + 1 /\ told'[Len(told) + 1] = <<t, state>>
  BY <1>1, <1>2, <1>3
<1> QED
  BY <1>2, <1>3, <1>4 DEF LogKeeps

\* A step that tells nothing keeps the log.
LEMMA SameLog ==
    ASSUME TaskInv, UNCHANGED <<told, onAir>>
    PROVE  LogKeeps /\ DOMAIN told' = DOMAIN told
BY DEF LogKeeps, TaskInv, TaskTypeOK

\* A run ends with what it does to its task.
LEMMA SettlesKeeps ==
    ASSUME TaskInv, NEW r \in DOMAIN run, NEW kind, Settles(r, kind)
    PROVE  /\ RowsKeep /\ LogKeeps
           /\ \A t \in Tasks : Exists(t)' => Exists(t) /\ task'[t].run = task[t].run
           /\ \A n \in DOMAIN told' \ DOMAIN told : told'[n][1] \in Tasks /\ task'[told'[n][1]] # NoTask
           /\ \A t \in Tasks : task'[t] = task[t] \/
                 /\ Exists(t) /\ task[t].run = r /\ ~Over(t) /\ task'[t].state = Outcome(t, kind)
           /\ \A t \in Tasks : Exists(t) /\ task[t].run = r => Over(t)'
<1>1. CASE ServedTask(r) = {} /\ UNCHANGED <<task, told, onAir>>
  BY <1>1, SameLog, SameRows DEF TaskInv, ServedTask, Exists, Over
<1>2. ASSUME NEW t \in Tasks,
             ServedTask(r) = {t}, Exists(t), task[t].run = r, ~Over(t),
             task' = [task EXCEPT ![t].state = Outcome(t, kind)],
             Tells(SettledWith(t, kind))
      PROVE  /\ RowsKeep /\ LogKeeps
             /\ \A u \in Tasks : Exists(u)' => Exists(u) /\ task'[u].run = task[u].run
             /\ \A n \in DOMAIN told' \ DOMAIN told : told'[n][1] = t /\ task'[t] # NoTask
             /\ task'[t].state = Outcome(t, kind) /\ \A u \in Tasks \ {t} : task'[u] = task[u]
             /\ \A u \in Tasks : Exists(u) /\ task[u].run = r => Over(u)'
  <2>1. Outcome(t, kind) \in AnyState /\ Outcome(t, kind) \in Done
    BY OutcomeEnds, Legal DEF States
  <2>2. /\ RowsKeep /\ task'[t].state = Outcome(t, kind) /\ task'[t].run = task[t].run
        /\ \A u \in Tasks \ {t} : task'[u] = task[u]
    BY <1>2, <2>1, MovedRow DEF TaskInv
  <2>3. LogKeeps /\ \A n \in DOMAIN told' \ DOMAIN told : told'[n][1] = t
    <3>1. /\ SettledWith(t, kind) \in Seq(Tasks \X AnyState)
          /\ \A i \in 1 .. Len(SettledWith(t, kind)) : SettledWith(t, kind)[i][1] = t
      BY OutcomeEnds
    <3> QED
      BY <1>2, <3>1, TellsKeeps
  <2>4. \A u \in Tasks : Exists(u) /\ task[u].run = r => Over(u)'
    <3>1. \A u \in Tasks \ {t} : Exists(u) /\ task[u].run = r => Over(u)
      BY <1>2 DEF ServedTask
    <3> QED
      BY <2>1, <2>2, <3>1 DEF Over
  <2> QED
    BY <1>2, <2>2, <2>3, <2>4 DEF RowsKeep, Exists
<1>3. TaskTypeOK /\ NamesAreKnown
  BY DEF TaskInv
<1> QED
  BY <1>1, <1>2, <1>3, SettlesOne

\* A task that is new: asked by a person, or handed on by an agent.
LEMMA AcceptTyped ==
    ASSUME TaskInv, NEW t \in Tasks, NEW p \in People, NEW a \in Agents, Accept(t, p, a)
    PROVE  TaskInv'
<1>1. "SUBMITTED" \in AnyState /\ TaskTypeOK
  BY Legal DEF States, TaskInv
<1>2. NewTask(a, NoAgent, p, <<>>) \in TaskRows /\ NewTask(a, NoAgent, p, <<>>).run = 0
  BY <1>1 DEF NewTask, TaskRows
<1>3. /\ RowsKeep /\ task'[t] # NoTask /\ task'[t].run = 0
      /\ \A u \in Tasks \ {t} : task'[u] = task[u]
  BY <1>1, <1>2, NewRow DEF Accept, Exists
<1>4. LogKeeps /\ \A n \in DOMAIN told' \ DOMAIN told : told'[n] = <<t, "SUBMITTED">>
  BY <1>1, TellsOne DEF Accept
<1>5. RunsKeep
  BY <1>1, SameRuns DEF Accept
<1>6. stream' \in [Streams -> StreamRows] /\ crashed' \in Nat /\ asks' \subseteq TaskRows
  BY <1>1 DEF TaskTypeOK, Accept
<1> QED
  BY <1>3, <1>4, <1>5, <1>6, KeepsInv DEF Accept, Exists

\* A delegation commits the row its ask has made up.
LEMMA CommitAskTyped ==
    ASSUME TaskInv, AsksAreSound, NEW k \in asks, NEW t \in Tasks, CommitAsk(k, t)
    PROVE  TaskInv'
<1>1. "SUBMITTED" \in AnyState /\ TaskTypeOK /\ k \in TaskRows /\ k.run = 0
  BY Legal DEF States, TaskInv, TaskTypeOK, AsksAreSound
<1>2. /\ RowsKeep /\ task'[t] # NoTask /\ task'[t].run = 0
      /\ \A u \in Tasks \ {t} : task'[u] = task[u]
  BY <1>1, NewRow DEF CommitAsk, Exists
<1>3. LogKeeps /\ \A n \in DOMAIN told' \ DOMAIN told : told'[n] = <<t, "SUBMITTED">>
  BY <1>1, TellsOne DEF CommitAsk
<1>4. RunsKeep
  BY <1>1, SameRuns DEF CommitAsk
<1>5. stream' \in [Streams -> StreamRows] /\ crashed' \in Nat /\ asks' \subseteq TaskRows
  BY <1>1 DEF TaskTypeOK, CommitAsk
<1> QED
  BY <1>2, <1>3, <1>4, <1>5, KeepsInv DEF CommitAsk, Exists

\* A task starts, or its turn is spent for nothing.
LEMMA StartTyped ==
    ASSUME TaskInv, NEW h \in handed, StartTask(h)
    PROVE  TaskInv'
<1> DEFINE t == h[1]
<1>1. /\ "WORKING" \in AnyState /\ TaskTypeOK /\ t \in Tasks /\ Exists(t)
      /\ handed' \subseteq handed /\ stream' \in [Streams -> StreamRows] /\ crashed' \in Nat
      /\ asks' \subseteq TaskRows
  <2>1. handed' \subseteq handed /\ UNCHANGED <<stream, crashed, asks>>
    BY DEF StartTask
  <2>2. "WORKING" \in AnyState
    BY Legal DEF States
  <2>3. TaskTypeOK /\ h \in Tasks \X {"accept", "sweep"} /\ Exists(h[1])
    BY DEF TaskInv, TaskTypeOK, NamesAreKnown
  <2>4. stream \in [Streams -> StreamRows] /\ crashed \in Nat /\ asks \subseteq TaskRows
    BY <2>3 DEF TaskTypeOK
  <2> QED
    BY <2>1, <2>2, <2>3, <2>4
<1>2. CASE MayStart(t)
  <2>1. /\ run' = Append(run, NewRun(t)) /\ task' = Attached(t, Len(run) + 1)
        /\ driven' = driven \cup {Len(run) + 1} /\ Tells(<< <<t, "WORKING">> >>)
        /\ UNCHANGED <<unlogged, stream>>
    BY <1>2 DEF StartTask
  <2>2. RunsKeep /\ Len(run) + 1 \in DOMAIN run' /\ run'[Len(run) + 1].task = t /\ Len(run) \in Nat
    BY <1>1, <2>1, AddedRun
  <2>3. /\ RowsKeep /\ task'[t].run = Len(run) + 1
        /\ \A u \in Tasks \ {t} : task'[u] = task[u]
    <3>1. Len(run) + 1 \in Nat
      BY <2>2
    <3> QED
      BY <1>1, <2>1, <3>1, RestartedRow
  <2>4. LogKeeps /\ \A n \in DOMAIN told' \ DOMAIN told : told'[n] = <<t, "WORKING">>
    BY <1>1, <2>1, TellsOne
  <2> HIDE DEF t
  <2>5. task'[t] # NoTask
    BY <1>1, <2>3 DEF RowsKeep, Exists
  <2> QED
    BY <1>1, <2>1, <2>2, <2>3, <2>4, <2>5, KeepsInv DEF Exists
<1>3. CASE ~MayStart(t)
  <2>1. UNCHANGED <<run, task, driven, told, onAir, unlogged, stream>>
    BY <1>3 DEF StartTask
  <2>2. RowsKeep /\ RunsKeep /\ LogKeeps /\ DOMAIN told' = DOMAIN told
    BY <1>1, <2>1, SameRows, SameRuns, SameLog
  <2> QED
    BY <1>1, <2>1, <2>2, KeepsInv DEF Exists
<1> QED
  BY <1>2, <1>3

\* The run of a task ends: told, cancelled, or found stranded.
EndStep(r, kind) ==
    /\ Settles(r, kind)
    /\ (run[r].settled /\ UNCHANGED run) \/ run' = [run EXCEPT ![r].settled = TRUE]
    /\ driven' \subseteq driven /\ UNCHANGED <<asks, handed, unlogged, stream, crashed>>

\* ... and it keeps the types, and settles that run only.
LEMMA EndTyped ==
    ASSUME TaskInv, NEW r \in DOMAIN run, NEW kind, EndStep(r, kind)
    PROVE  TaskInv' /\ RunsKeep /\ run'[r].settled /\ \A q \in DOMAIN run \ {r} : run'[q] = run[q]
<1>1. TaskTypeOK
  BY DEF TaskInv
<1>2. /\ Settles(r, kind)
      /\ (run[r].settled /\ UNCHANGED run) \/ run' = [run EXCEPT ![r].settled = TRUE]
      /\ driven' \subseteq driven /\ UNCHANGED <<asks, handed, unlogged, stream, crashed>>
  BY DEF EndStep
<1>3. RunsKeep /\ run'[r].settled /\ \A q \in DOMAIN run \ {r} : run'[q] = run[q]
  BY <1>1, <1>2, SameRuns, MarkedRun
<1>4. stream' \in [Streams -> StreamRows] /\ crashed' \in Nat /\ asks' \subseteq TaskRows
  BY <1>1, <1>2 DEF TaskTypeOK
<1> QED
  BY <1>2, <1>3, <1>4, SettlesKeeps, KeepsInv DEF RowsKeep, Exists

\* A task is moved by hand, and what it is told of waits; or it is cancelled alone.
MoveStep(t, to) ==
    /\ Exists(t) /\ ~Over(t) /\ (to # "CANCELED" \/ ~Answering(t))
    /\ task' = [task EXCEPT ![t].state = to]
    /\ \/ unlogged' = unlogged \cup {<<t, to>>} /\ UNCHANGED <<told, onAir>>
       \/ UNCHANGED unlogged /\ Tells(<< <<t, to>> >>)
    /\ UNCHANGED <<run, asks, handed, driven, stream, crashed>>

\* A move keeps the types.
LEMMA MoveTyped ==
    ASSUME TaskInv, NEW t \in Tasks, NEW to \in AnyState, MoveStep(t, to)
    PROVE  TaskInv'
<1>1. TaskTypeOK
  BY DEF TaskInv
<1>2. /\ Exists(t) /\ task' = [task EXCEPT ![t].state = to]
      /\ \/ unlogged' = unlogged \cup {<<t, to>>} /\ UNCHANGED <<told, onAir>>
         \/ UNCHANGED unlogged /\ Tells(<< <<t, to>> >>)
      /\ UNCHANGED <<run, asks, handed, driven, stream, crashed>>
  BY DEF MoveStep
<1>3. /\ RowsKeep /\ task'[t].run = task[t].run /\ task'[t] # NoTask
      /\ \A u \in Tasks \ {t} : task'[u] = task[u]
  BY <1>1, <1>2, MovedRow DEF RowsKeep, Exists
<1>4. LogKeeps /\ \A n \in DOMAIN told' \ DOMAIN told : told'[n] = <<t, to>>
  BY <1>2, TellsOne, SameLog
<1>5. stream' \in [Streams -> StreamRows] /\ crashed' \in Nat /\ asks' \subseteq TaskRows /\ RunsKeep
  BY <1>1, <1>2, SameRuns DEF TaskTypeOK
<1> QED
  BY <1>2, <1>3, <1>4, <1>5, KeepsInv DEF Exists

\* An agent asks another for something on behalf of the task it is serving.
LEMMA AskTyped ==
    ASSUME TaskInv, NEW a \in Agents, NEW b \in Agents, Ask(a, b)
    PROVE  TaskInv'
<1>1. TaskTypeOK /\ "SUBMITTED" \in AnyState
  BY Legal DEF TaskInv, States
<1>2. PICK parent \in ServedBy(a) :
         asks' = asks \cup {NewTask(b, a, task[parent].root, Append(task[parent].chain, a))}
  BY DEF Ask
<1>3. task[parent] \in TaskRows
  BY <1>1 DEF ServedBy, TaskTypeOK, Exists
<1>4. Append(task[parent].chain, a) \in Seq(Agents) /\ task[parent].root \in People
  BY <1>3, AppendProperties DEF TaskRows
<1>5. asks' \subseteq TaskRows
  <2>1. ASSUME NEW chain \in Seq(Agents), NEW root \in People
        PROVE  NewTask(b, a, root, chain) \in TaskRows
    BY <1>1 DEF NewTask, TaskRows
  <2> QED
    BY <1>1, <1>2, <1>4, <2>1 DEF TaskTypeOK
<1>6. /\ UNCHANGED <<task, run, handed, driven, unlogged, told, onAir, stream, crashed>>
      /\ stream' \in [Streams -> StreamRows] /\ crashed' \in Nat
  BY <1>1 DEF Ask, TaskTypeOK
<1>7. RowsKeep /\ RunsKeep /\ LogKeeps /\ DOMAIN told' = DOMAIN told
  BY <1>1, <1>6, SameRows, SameRuns, SameLog
<1> QED
  BY <1>5, <1>6, <1>7, KeepsInv DEF Exists

\* A refused start, a claim, a turn that is held or already over, a sweep at startup:
\* what a process holds in memory.
HeldStep ==
    /\ UNCHANGED <<task, asks, unlogged, told, onAir, stream, crashed>> /\ driven' \subseteq driven
    /\ handed' \subseteq handed \cup (StaleSubmitted \X {"sweep"})
    /\ \/ UNCHANGED run
       \/ \E r \in DOMAIN run : run' = [run EXCEPT ![r].claimed = TRUE]

\* ... keeps the types, and only marks runs as claimed.
LEMMA HeldTyped ==
    ASSUME TaskInv, HeldStep
    PROVE  TaskInv'
<1>1. TaskTypeOK
  BY DEF TaskInv
<1>2. /\ UNCHANGED <<task, asks, unlogged, told, onAir, stream, crashed>> /\ driven' \subseteq driven
      /\ handed' \subseteq handed \cup (StaleSubmitted \X {"sweep"})
      /\ \/ UNCHANGED run
         \/ \E r \in DOMAIN run : run' = [run EXCEPT ![r].claimed = TRUE]
  BY DEF HeldStep
<1>3. RowsKeep /\ RunsKeep /\ LogKeeps /\ DOMAIN told' = DOMAIN told
  BY <1>1, <1>2, SameRows, SameRuns, MarkedRun, SameLog
<1>4. stream' \in [Streams -> StreamRows] /\ crashed' \in Nat /\ asks' \subseteq TaskRows
  BY <1>1, <1>2 DEF TaskTypeOK
<1>5. \A h \in handed' \ handed : h \in Tasks \X {"accept", "sweep"} /\ task'[h[1]] # NoTask
  BY <1>2 DEF StaleSubmitted, Exists
<1> QED
  BY <1>2, <1>3, <1>4, <1>5, KeepsInv DEF Exists

\* The event of a move is logged.
LEMMA LogMoveTyped ==
    ASSUME TaskInv, NEW m \in unlogged, LogMove(m)
    PROVE  TaskInv'
<1>1. /\ TaskTypeOK /\ m \in Tasks \X AnyState /\ Exists(m[1])
  BY DEF TaskInv, TaskTypeOK, NamesAreKnown
<1>2. /\ UNCHANGED <<task, run, asks, handed, driven, stream, crashed>> /\ unlogged' \subseteq unlogged
      /\ Tells(<< <<m[1], m[2]>> >>)
  BY <1>1 DEF LogMove
<1>3. LogKeeps /\ \A n \in DOMAIN told' \ DOMAIN told : told'[n] = <<m[1], m[2]>>
  BY <1>1, <1>2, TellsOne
<1>4. RowsKeep /\ RunsKeep
  BY <1>1, <1>2, SameRows, SameRuns
<1>5. stream' \in [Streams -> StreamRows] /\ crashed' \in Nat /\ asks' \subseteq TaskRows
  BY <1>1, <1>2 DEF TaskTypeOK
<1> QED
  BY <1>1, <1>2, <1>3, <1>4, <1>5, KeepsInv DEF Exists

\* A stream that is not open holds nothing.
LEMMA QuietRow == Quiet \in StreamRows /\ Quiet.at = "off" /\ Range(Quiet.queue) = {}
<1>1. "SUBMITTED" \in AnyState
  BY Legal DEF States
<1>2. <<>> \in Seq(Nat) /\ Range(<<>>) = {}
  BY DEF Range
<1> QED
  BY <1>1, <1>2 DEF StreamRows, Quiet

\* A crash empties what was in memory.
LEMMA CrashTyped ==
    ASSUME TaskInv, Crash
    PROVE  TaskInv'
<1>1. TaskTypeOK
  BY DEF TaskInv
<1>2. /\ UNCHANGED <<task, run, told>> /\ asks' = {} /\ handed' = {} /\ driven' = {}
      /\ unlogged' = {} /\ onAir' = {} /\ crashed' = crashed + 1
      /\ stream' = [s \in Streams |-> Quiet]
  BY DEF Crash
<1>3. RowsKeep /\ RunsKeep /\ LogKeeps /\ DOMAIN told' = DOMAIN told
  BY <1>1, <1>2, SameRows, SameRuns DEF LogKeeps, TaskTypeOK
<1>4. stream' \in [Streams -> StreamRows] /\ crashed' \in Nat /\ asks' \subseteq TaskRows
  BY <1>1, <1>2, QuietRow DEF TaskTypeOK
<1>5. \A s \in Streams : stream'[s].at = "off" /\ Range(stream'[s].queue) = {}
  BY <1>2, QuietRow
<1> QED
  BY <1>2, <1>3, <1>4, <1>5, KeepsInv DEF Exists

\* A step of the streams leaves everything else alone.
LEMMA StreamsKeep ==
    ASSUME TaskInv, UNCHANGED <<task, run, asks, handed, driven, unlogged, told, crashed>>,
           onAir' \subseteq onAir, stream' \in [Streams -> StreamRows],
           \A s \in Streams : stream'[s] = stream[s] \/
               /\ stream'[s].at # "off" => stream'[s].of \in Tasks /\ Exists(stream'[s].of)
               /\ Range(stream'[s].queue) \subseteq DOMAIN told \cup {Mark}
    PROVE  TaskInv'
<1>1. TaskTypeOK
  BY DEF TaskInv
<1>2. RowsKeep /\ RunsKeep /\ LogKeeps /\ DOMAIN told' = DOMAIN told
  BY <1>1, SameRows, SameRuns DEF LogKeeps, TaskTypeOK
<1>3. crashed' \in Nat /\ asks' \subseteq TaskRows
  BY <1>1 DEF TaskTypeOK
<1> QED
  BY <1>2, <1>3, KeepsInv DEF Exists

\* Range of a queue that is appended to, or whose head is taken.
LEMMA QueueRange ==
    ASSUME NEW q \in Seq(Nat), NEW n \in Nat
    PROVE  /\ Append(q, n) \in Seq(Nat) /\ Range(Append(q, n)) = Range(q) \cup {n}
           /\ q # <<>> => /\ Tail(q) \in Seq(Nat) /\ Head(q) \in Range(q)
                          /\ Range(q) = {Head(q)} \cup Range(Tail(q))
<1>1. Append(q, n) \in Seq(Nat) /\ Range(Append(q, n)) = Range(q) \cup {n}
  <2>1. /\ Append(q, n) \in Seq(Nat) /\ DOMAIN Append(q, n) = 1 .. Len(q) + 1
        /\ DOMAIN q = 1 .. Len(q) /\ Len(q) \in Nat
        /\ \A i \in 1 .. Len(q) : Append(q, n)[i] = q[i]
        /\ Append(q, n)[Len(q) + 1] = n
    OBVIOUS
  <2> QED
    BY <2>1 DEF Range
<1>2. ASSUME q # <<>>
      PROVE  /\ Tail(q) \in Seq(Nat) /\ Head(q) \in Range(q)
             /\ Range(q) = {Head(q)} \cup Range(Tail(q))
  <2>1. /\ Tail(q) \in Seq(Nat) /\ Len(Tail(q)) = Len(q) - 1 /\ Len(q) \in Nat /\ Len(q) > 0
        /\ Head(q) = q[1]
    BY <1>2, HeadTailProperties
  <2>2. \A i \in 1 .. Len(q) - 1 : Tail(q)[i] = q[i + 1]
    BY <1>2
  <2>3. DOMAIN q = 1 .. Len(q) /\ DOMAIN Tail(q) = 1 .. Len(q) - 1
    BY <2>1
  <2>4. Range(Tail(q)) \subseteq Range(q) /\ Head(q) \in Range(q)
    BY <2>1, <2>2, <2>3 DEF Range
  <2>5. ASSUME NEW i \in 1 .. Len(q) PROVE q[i] \in {Head(q)} \cup Range(Tail(q))
    <3>1. CASE i = 1
      BY <2>1, <3>1
    <3>2. CASE i # 1
      <4>1. i - 1 \in 1 .. Len(q) - 1 /\ Tail(q)[i - 1] = q[i]
        BY <2>1, <2>2, <3>2
      <4> QED
        BY <2>3, <4>1 DEF Range
    <3> QED
      BY <3>1, <3>2
  <2> QED
    BY <2>1, <2>3, <2>4, <2>5 DEF Range
<1> QED
  BY <1>1, <1>2

\* The queue of a stream that is given an event has it, or the marker.
LEMMA PutTaskKeeps ==
    ASSUME NEW q \in Seq(Nat), NEW n \in Nat
    PROVE  /\ PutTask(q, n) \in Seq(Nat)
           /\ Range(PutTask(q, n)) \subseteq Range(q) \cup {n, Mark}
           /\ \/ Mark \in Range(PutTask(q, n))
              \/ Range(q) \cup {n} \subseteq Range(PutTask(q, n))
<1>1. CASE Len(q) < TaskQueueSize
  <2>1. PutTask(q, n) = Append(q, n)
    BY <1>1 DEF PutTask
  <2> QED
    BY <2>1, QueueRange
<1>2. CASE ~(Len(q) < TaskQueueSize)
  <2>1. PutTask(q, n) = Append(Tail(q), Mark) /\ Mark \in Nat
    BY <1>2 DEF PutTask, Mark
  <2>2. q # <<>>
    BY <1>2, TasksAssumption
  <2>3. Tail(q) \in Seq(Nat) /\ Range(Tail(q)) \subseteq Range(q)
    BY <2>2, QueueRange
  <2>4. /\ Append(Tail(q), Mark) \in Seq(Nat)
        /\ Range(Append(Tail(q), Mark)) = Range(Tail(q)) \cup {Mark}
    BY <2>1, <2>3, QueueRange
  <2> QED
    BY <2>1, <2>3, <2>4
<1> QED
  BY <1>1, <1>2

\* A stream opens with the state of its task, and then subscribes.
LEMMA OpenStreamTyped ==
    ASSUME TaskInv, NEW s \in Streams, NEW t \in Tasks, OpenStream(s, t)
    PROVE  TaskInv'
<1>1. TaskTypeOK /\ Exists(t)
  BY DEF TaskInv, OpenStream
<1>2. task[t].state \in AnyState
  BY <1>1 DEF TaskTypeOK, TaskRows, Exists
<1> DEFINE row == [Quiet EXCEPT !.of = t, !.last = task[t].state,
                      !.at = IF Over(t) THEN "closed" ELSE "snapshot"]
<1>3. row \in StreamRows /\ row.of = t /\ row.queue = Quiet.queue
  BY <1>2, QuietRow DEF StreamRows
<1>4. stream' = [stream EXCEPT ![s] = row]
      /\ UNCHANGED <<task, run, asks, handed, driven, unlogged, told, onAir, crashed>>
  BY DEF OpenStream
<1> HIDE DEF row
<1>5. stream' \in [Streams -> StreamRows] /\ stream'[s] = row
      /\ \A z \in Streams \ {s} : stream'[z] = stream[z]
  BY <1>1, <1>3, <1>4 DEF TaskTypeOK
<1>6. Range(stream'[s].queue) = {}
  BY <1>3, <1>5, QuietRow
<1> QED
  BY <1>1, <1>3, <1>4, <1>5, <1>6, StreamsKeep

\* A stream that subscribes keeps its snapshot.
LEMMA ListenTyped ==
    ASSUME TaskInv, NEW s \in Streams, Listen(s)
    PROVE  TaskInv'
<1>1. TaskTypeOK /\ stream[s] \in StreamRows /\ stream[s].at = "snapshot"
  BY DEF TaskInv, TaskTypeOK, Listen
<1> DEFINE behind == task[stream[s].of].state # stream[s].last
           row == [[stream[s] EXCEPT !.at = "listening"] EXCEPT !.behind = behind]
<1>2. stream' = [stream EXCEPT ![s].at = "listening", ![s].behind = behind]
      /\ UNCHANGED <<task, run, asks, handed, driven, unlogged, told, onAir, crashed>>
  BY DEF Listen
<1>3. behind \in BOOLEAN
  OBVIOUS
<1> HIDE DEF behind
<1>4. row \in StreamRows /\ row.of = stream[s].of /\ row.queue = stream[s].queue
  BY <1>1, <1>3 DEF StreamRows
<1>5. stream' \in [Streams -> StreamRows] /\ stream'[s] = row
      /\ \A z \in Streams \ {s} : stream'[z] = stream[z]
  BY <1>1, <1>2, <1>4 DEF TaskTypeOK
<1> HIDE DEF row
<1>6. /\ Range(stream[s].queue) \subseteq DOMAIN told \cup {Mark}
      /\ stream[s].of \in Tasks /\ Exists(stream[s].of)
  BY <1>1 DEF TaskInv, NamesAreKnown
<1> QED
  BY <1>2, <1>4, <1>5, <1>6, StreamsKeep

\* What a broadcast does to every stream that listens.
LEMMA BroadcastTyped ==
    ASSUME TaskInv, NEW n \in onAir, BroadcastTask(n)
    PROVE  /\ TaskInv'
           /\ \A s \in Streams :
                 /\ stream[s].at # "listening" => stream'[s] = stream[s]
                 /\ stream[s].at = "listening" =>
                       /\ stream'[s].at = "listening" /\ stream'[s].of = stream[s].of
                       /\ stream'[s].behind = stream[s].behind
                       /\ stream'[s].queue = PutTask(stream[s].queue, n)
<1>1. TaskTypeOK /\ n \in DOMAIN told /\ n \in Nat
  BY DEF TaskInv, TaskTypeOK
<1>2. UNCHANGED <<task, run, asks, handed, driven, unlogged, told, crashed>> /\ onAir' \subseteq onAir
      /\ stream' = [s \in Streams |-> IF stream[s].at = "listening"
                     THEN [stream[s] EXCEPT !.queue = PutTask(@, n)] ELSE stream[s]]
  BY DEF BroadcastTask
<1>3. ASSUME NEW s \in Streams, stream[s].at = "listening"
      PROVE  /\ stream'[s] \in StreamRows
             /\ stream'[s].at = "listening" /\ stream'[s].of = stream[s].of
             /\ stream'[s].behind = stream[s].behind
             /\ stream'[s].queue = PutTask(stream[s].queue, n)
             /\ Range(stream'[s].queue) \subseteq DOMAIN told \cup {Mark}
             /\ stream'[s].of \in Tasks /\ Exists(stream'[s].of)
  <2>1. stream[s] \in StreamRows /\ stream[s].queue \in Seq(Nat)
    BY <1>1 DEF TaskTypeOK, StreamRows
  <2> DEFINE q == PutTask(stream[s].queue, n)
  <2>2. q \in Seq(Nat) /\ Range(q) \subseteq Range(stream[s].queue) \cup {n, Mark}
    BY <1>1, <2>1, PutTaskKeeps
  <2>3. stream'[s] = [stream[s] EXCEPT !.queue = q]
    BY <1>2, <1>3
  <2> HIDE DEF q
  <2>4. stream'[s] \in StreamRows /\ stream'[s].at = "listening" /\ stream'[s].of = stream[s].of
        /\ stream'[s].queue = q /\ stream'[s].behind = stream[s].behind
    BY <1>3, <2>1, <2>2, <2>3 DEF StreamRows
  <2>5. /\ Range(stream[s].queue) \subseteq DOMAIN told \cup {Mark}
        /\ stream[s].of \in Tasks /\ Exists(stream[s].of)
    BY <1>3 DEF TaskInv, NamesAreKnown
  <2> QED
    BY <1>1, <2>2, <2>4, <2>5 DEF q
<1>4. ASSUME NEW s \in Streams, stream[s].at # "listening"
      PROVE  stream'[s] = stream[s] /\ stream'[s] \in StreamRows
  BY <1>1, <1>2, <1>4 DEF TaskTypeOK
<1>5. stream' \in [Streams -> StreamRows]
  <2>1. stream' = [s \in Streams |-> stream'[s]]
    BY <1>2
  <2> QED
    BY <1>3, <1>4, <2>1
<1> QED
  BY <1>2, <1>3, <1>4, <1>5, StreamsKeep

\* A stream takes what is first in its queue; it closes when that is an end.
LEMMA TakeTyped ==
    ASSUME TaskInv, NEW s \in Streams, TakeTaskEvent(s)
    PROVE  /\ TaskInv'
           /\ \A z \in Streams \ {s} : stream'[z] = stream[z]
           /\ stream[s].at = "listening" /\ stream[s].queue \in Seq(Nat) /\ stream[s].queue # <<>>
           /\ stream'[s].queue = Tail(stream[s].queue) /\ stream'[s].of = stream[s].of
           /\ stream'[s].behind = stream[s].behind
           /\ stream'[s].at = IF Heard(s, Head(stream[s].queue)) \in Done THEN "closed" ELSE "listening"
<1>1. TaskTypeOK /\ stream[s] \in StreamRows /\ stream[s].at = "listening"
      /\ stream[s].queue \in Seq(Nat) /\ stream[s].queue # <<>>
  BY DEF TaskInv, TaskTypeOK, StreamRows, TakeTaskEvent
<1> DEFINE now == Heard(s, Head(stream[s].queue))
           at == IF now \in Done THEN "closed" ELSE "listening"
           q == Tail(stream[s].queue)
           row == [[[stream[s] EXCEPT !.queue = q] EXCEPT !.last = now] EXCEPT !.at = at]
<1>2. stream' = [stream EXCEPT ![s].queue = q, ![s].last = now, ![s].at = at]
      /\ UNCHANGED <<task, run, asks, handed, driven, unlogged, told, onAir, crashed>>
  <2>1. stream' = [stream EXCEPT ![s].queue = Tail(@), ![s].last = now,
                      ![s].at = IF now \in Done THEN "closed" ELSE @]
        /\ UNCHANGED <<task, run, asks, handed, driven, unlogged, told, onAir, crashed>>
    BY DEF TakeTaskEvent
  <2> HIDE DEF now
  <2> QED
    BY <1>1, <2>1 DEF TaskTypeOK, StreamRows
<1>3. /\ Range(stream[s].queue) \subseteq DOMAIN told \cup {Mark}
      /\ stream[s].of \in Tasks /\ Exists(stream[s].of)
  BY <1>1 DEF TaskInv, NamesAreKnown
<1>4. q \in Seq(Nat) /\ Range(q) \subseteq DOMAIN told \cup {Mark}
      /\ Head(stream[s].queue) \in DOMAIN told \cup {Mark}
  BY <1>1, <1>3, QueueRange
<1>5. now \in AnyState
  <2>1. \A n \in DOMAIN told : told[n][2] \in AnyState
    BY <1>1 DEF TaskTypeOK
  <2>2. task[stream[s].of].state \in AnyState
    BY <1>1, <1>3 DEF TaskTypeOK, TaskRows, Exists
  <2>3. stream[s].last \in AnyState
    BY <1>1 DEF StreamRows
  <2> QED
    BY <1>4, <2>1, <2>2, <2>3 DEF Heard
<1>6. at \in {"listening", "closed"}
  OBVIOUS
<1> HIDE DEF now, at, q
<1>7. row \in StreamRows /\ row.of = stream[s].of /\ row.queue = q /\ row.at = at
      /\ row.behind = stream[s].behind
  BY <1>1, <1>4, <1>5, <1>6 DEF StreamRows
<1>8. stream' \in [Streams -> StreamRows] /\ stream'[s] = row
      /\ \A z \in Streams \ {s} : stream'[z] = stream[z]
  BY <1>1, <1>2, <1>7 DEF TaskTypeOK
<1> HIDE DEF row
<1>9. TaskInv'
  BY <1>2, <1>3, <1>4, <1>7, <1>8, StreamsKeep
<1> QED
  BY <1>1, <1>7, <1>8, <1>9 DEF q, at, now

\* The steps, by what they do to tasks and runs.
LEMMA StepCases ==
    ASSUME TaskInv, [TaskNext]_taskVars
    PROVE  \/ \E r \in DOMAIN run, kind \in Kinds : EndStep(r, kind)
           \/ \E t \in Tasks, to \in AnyState : MoveStep(t, to)
           \/ \E t \in Tasks, p \in People, a \in Agents : Accept(t, p, a)
           \/ \E k \in asks, t \in Tasks : CommitAsk(k, t)
           \/ \E h \in handed : StartTask(h)
           \/ \E a, b \in Agents : Ask(a, b)
           \/ HeldStep
           \/ \E m \in unlogged : LogMove(m)
           \/ Crash
           \/ \E s \in Streams, t \in Tasks : OpenStream(s, t)
           \/ \E s \in Streams : Listen(s) \/ TakeTaskEvent(s)
           \/ \E n \in onAir : BroadcastTask(n)
<1>1. CASE UNCHANGED taskVars
  BY <1>1 DEF taskVars, HeldStep
<1>2. ASSUME NEW t \in Tasks, NEW from, NEW to \in AnyState \ {"CANCELED"}, Moves(t, from, to)
      PROVE  MoveStep(t, to)
  <2>1. task[t].state \in States
    BY <1>2, Legal DEF Moves, TaskInv, TaskTypeOK, TaskRows, Exists
  <2>2. ~Over(t)
    BY <1>2, <2>1, Legal DEF Moves, Over
  <2> QED
    BY <1>2, <2>2 DEF Moves, TellsLater, MoveStep
<1>3. {"WORKING", "INPUT_REQUIRED", "AUTH_REQUIRED", "REJECTED", "COMPLETED", "FAILED"}
         \subseteq AnyState \ {"CANCELED"} /\ "CANCELED" \in AnyState
  BY Legal DEF States
<1>4. ASSUME NEW t \in Tasks,
             \/ ContinueTask(t) \/ RequireInput(t) \/ Escalate(t) \/ ResolveEscalation(t)
             \/ CompleteTask(t) \/ FailTask(t) \/ RejectTask(t)
      PROVE  \E to \in AnyState : MoveStep(t, to)
  BY <1>2, <1>3, <1>4 DEF ContinueTask, RequireInput, Escalate, ResolveEscalation, CompleteTask,
     FailTask, RejectTask
<1>5. ASSUME NEW t \in Tasks, CancelTask(t)
      PROVE  \/ \E r \in DOMAIN run, kind \in Kinds : EndStep(r, kind)
             \/ MoveStep(t, "CANCELED")
  <2>1. CASE Answering(t)
    <3>1. task[t].run \in DOMAIN run /\ "CANCELLED" \in Kinds
      BY <1>5, <2>1 DEF Answering, CancelTask, TaskInv, NamesAreKnown, Kinds
    <3>2. EndStep(task[t].run, "CANCELLED")
      BY <1>5, <2>1 DEF CancelTask, EndStep
    <3> QED
      BY <3>1, <3>2
  <2>2. CASE ~Answering(t)
    BY <1>5, <2>2 DEF CancelTask, MoveStep
  <2> QED
    BY <2>1, <2>2
<1>6. ASSUME NEW t \in Tasks, SweepStranded(t)
      PROVE  \E r \in DOMAIN run, kind \in Kinds : EndStep(r, kind)
  <2>1. task[t].run \in DOMAIN run /\ "FAILED" \in Kinds
    BY <1>6 DEF SweepStranded, Stranded, TaskInv, NamesAreKnown, Kinds
  <2>2. EndStep(task[t].run, "FAILED")
    BY <1>6 DEF SweepStranded, Stranded, EndStep
  <2> QED
    BY <2>1, <2>2
<1>7. ASSUME NEW r \in DOMAIN run, EndDispatch(r)
      PROVE  EndStep(r, "FAILED") \/ HeldStep
  BY <1>7 DEF EndDispatch, EndStep, HeldStep
<1>8. ASSUME NEW r \in DOMAIN run, NEW kind \in Kinds, SettleRun(r, kind)
      PROVE  EndStep(r, kind)
  BY <1>8 DEF SettleRun, EndStep
<1>9. ASSUME \/ \E h \in handed : StartRefused(h)
             \/ \E r \in DOMAIN run : ClaimRun(r) \/ TurnHeld(r)
             \/ SweepStaleSubmitted
      PROVE  HeldStep
  BY <1>9 DEF StartRefused, ClaimRun, TurnHeld, SweepStaleSubmitted, HeldStep
<1>10. "FAILED" \in Kinds
  BY DEF Kinds
<1> QED
  BY <1>1, <1>3, <1>4, <1>5, <1>6, <1>7, <1>8, <1>9, <1>10 DEF TaskNext, TaskMove, StreamNext

\* Every step keeps the types and the names.
LEMMA TaskInvStep ==
    ASSUME TaskInv, AsksAreSound, [TaskNext]_taskVars
    PROVE  TaskInv'
BY StepCases, EndTyped, MoveTyped, AcceptTyped, CommitAskTyped, StartTyped, AskTyped, HeldTyped,
   LogMoveTyped, CrashTyped, OpenStreamTyped, ListenTyped, TakeTyped, BroadcastTyped

-----------------------------------------------------------------------------
(* Chains.                                                                     *)

\* A chain stays sound while the rows keep who asked whom.
LEMMA HandedOnKeeps ==
    ASSUME RowsKeep, NEW k, HandedOn(k)
    PROVE  /\ \A i, j \in DOMAIN Append(k.chain, k.agent) :
                 Append(k.chain, k.agent)[i] = Append(k.chain, k.agent)[j] => i = j
           /\ Len(k.chain) <= MaxDepth
           /\ k.chain # <<>> =>
                 \E u \in Tasks : /\ task'[u] # NoTask /\ task'[u].agent = k.by
                                  /\ Append(task'[u].chain, task'[u].agent) = k.chain
                                  /\ task'[u].root = k.root
BY DEF HandedOn, RowsKeep, Exists

\* The chains of rows and of asks, told apart.
ChainsInv == AsksAreSound /\ \A t \in Tasks : Exists(t) => HandedOn(task[t])

\* The invariant is at least the property the runs check.
LEMMA ChainsInvIsSound == ChainsInv => ChainsAreSound
BY DEF ChainsInv, ChainsAreSound, HandedOn

\* A step that makes no row and no ask keeps the chains.
LEMMA ChainsKeep ==
    ASSUME ChainsInv, RowsKeep, asks' \subseteq asks,
           \A t \in Tasks : Exists(t)' => Exists(t) \/ HandedOn(task[t])' \/ \E k \in asks : task'[t] = k
    PROVE  ChainsInv'
<1>1. AsksAreSound'
  BY HandedOnKeeps DEF ChainsInv, AsksAreSound, HandedOn, Exists
<1>2. ASSUME NEW t \in Tasks, Exists(t)' PROVE HandedOn(task[t])'
  <2>1. CASE Exists(t)
    <3>1. HandedOn(task[t])
      BY <2>1 DEF ChainsInv
    <3>2. task'[t].chain = task[t].chain /\ task'[t].agent = task[t].agent
          /\ task'[t].by = task[t].by /\ task'[t].root = task[t].root
      BY <2>1 DEF RowsKeep
    <3>3. PICK k : k = task[t]
      OBVIOUS
    <3>4. /\ HandedOn(k) /\ task'[t].chain = k.chain /\ task'[t].agent = k.agent
          /\ task'[t].by = k.by /\ task'[t].root = k.root
      BY <3>1, <3>2, <3>3
    <3>5. /\ \A i, j \in DOMAIN Append(k.chain, k.agent) :
                 Append(k.chain, k.agent)[i] = Append(k.chain, k.agent)[j] => i = j
          /\ Len(k.chain) <= MaxDepth
          /\ k.chain # <<>> =>
                 \E u \in Tasks : /\ task'[u] # NoTask /\ task'[u].agent = k.by
                                  /\ Append(task'[u].chain, task'[u].agent) = k.chain
                                  /\ task'[u].root = k.root
      BY <3>4, HandedOnKeeps
    <3> QED
      BY <3>4, <3>5 DEF HandedOn, Exists
  <2>2. ASSUME NEW k \in asks, task'[t] = k PROVE HandedOn(task[t])'
    <3>1. HandedOn(k)
      BY DEF ChainsInv, AsksAreSound
    <3> QED
      BY <2>2, <3>1, HandedOnKeeps DEF HandedOn, Exists
  <2> QED
    BY <1>2, <2>1, <2>2
<1> QED
  BY <1>1, <1>2 DEF ChainsInv

\* What require_delegable refuses is what keeps an agent from being twice in a chain.
LEMMA DelegableIsSound ==
    ASSUME NEW chain \in Seq(Agents), NEW b \in Agents, Delegable(chain, b),
           \A i, j \in DOMAIN chain : chain[i] = chain[j] => i = j
    PROVE  \A i, j \in DOMAIN Append(chain, b) : Append(chain, b)[i] = Append(chain, b)[j] => i = j
<1>1. /\ DOMAIN Append(chain, b) = 1 .. Len(chain) + 1 /\ DOMAIN chain = 1 .. Len(chain)
      /\ Len(chain) \in Nat /\ \A i \in 1 .. Len(chain) : Append(chain, b)[i] = chain[i]
      /\ Append(chain, b)[Len(chain) + 1] = b
  OBVIOUS
<1>2. \A i \in 1 .. Len(chain) : chain[i] # b
  BY <1>1 DEF Delegable, Range
<1> DEFINE whole == Append(chain, b)
<1>3. \A i \in 1 .. Len(chain) : whole[i] = chain[i] /\ whole[i] # b
  BY <1>1, <1>2
<1>4. whole[Len(chain) + 1] = b /\ DOMAIN whole = 1 .. Len(chain) + 1
  BY <1>1
<1> HIDE DEF whole
<1>5. \A i, j \in DOMAIN whole : whole[i] = whole[j] => i = j
  <2> SUFFICES ASSUME NEW i \in DOMAIN whole, NEW j \in DOMAIN whole, whole[i] = whole[j]
               PROVE  i = j
    OBVIOUS
  <2>1. CASE i = Len(chain) + 1
    BY <1>1, <1>3, <1>4, <2>1
  <2>2. CASE i # Len(chain) + 1
    BY <1>1, <1>3, <1>4, <2>2
  <2> QED
    BY <2>1, <2>2
<1> QED
  BY <1>5 DEF whole

\* The ask of an agent hands on the chain of the task it is serving.
LEMMA AskChains ==
    ASSUME TaskInv, ChainsInv, NEW a \in Agents, NEW b \in Agents, Ask(a, b)
    PROVE  ChainsInv'
<1>1. TaskTypeOK
  BY DEF TaskInv
<1>2. PICK parent \in ServedBy(a) :
         /\ Delegable(Append(task[parent].chain, a), b)
         /\ asks' = asks \cup {NewTask(b, a, task[parent].root, Append(task[parent].chain, a))}
  BY DEF Ask
<1>3. parent \in Tasks /\ Exists(parent) /\ task[parent] \in TaskRows /\ task[parent].agent = a
  BY <1>1 DEF ServedBy, TaskTypeOK, Exists
<1>4. PICK chain : chain = Append(task[parent].chain, a)
  OBVIOUS
<1>5. /\ chain \in Seq(Agents) /\ chain # <<>> /\ Delegable(chain, b)
      /\ \A i, j \in DOMAIN chain : chain[i] = chain[j] => i = j
  <2>1. HandedOn(task[parent])
    BY <1>3 DEF ChainsInv
  <2>2. \A i, j \in DOMAIN chain : chain[i] = chain[j] => i = j
    BY <1>3, <1>4, <2>1 DEF HandedOn
  <2>3. task[parent].chain \in Seq(Agents)
    BY <1>3 DEF TaskRows
  <2>4. chain \in Seq(Agents) /\ chain # <<>>
    <3>1. PICK c : c = task[parent].chain
      OBVIOUS
    <3>2. c \in Seq(Agents) /\ chain = Append(c, a)
      BY <1>4, <2>3, <3>1
    <3> QED
      BY <3>2, AppendProperties
  <2> QED
    BY <1>2, <1>4, <2>2, <2>4
<1> DEFINE k == NewTask(b, a, task[parent].root, chain)
<1>6. /\ k.state = "SUBMITTED" /\ k.run = 0 /\ k.agent = b /\ k.by = a
      /\ k.root = task[parent].root /\ k.chain = chain
  BY DEF NewTask
<1>7. \A i, j \in DOMAIN Append(chain, b) : Append(chain, b)[i] = Append(chain, b)[j] => i = j
  BY <1>5, DelegableIsSound
<1>8. Len(chain) <= MaxDepth
  BY <1>5 DEF Delegable
<1> HIDE DEF k
<1>9. HandedOn(k)
  BY <1>3, <1>4, <1>5, <1>6, <1>7, <1>8 DEF HandedOn
<1>10. asks' = asks \cup {k} /\ UNCHANGED task
  BY <1>2, <1>4 DEF Ask, k
<1>11. \A q \in asks' : q.state = "SUBMITTED" /\ q.run = 0 /\ HandedOn(q)
  BY <1>6, <1>9, <1>10 DEF ChainsInv, AsksAreSound
<1>12. AsksAreSound'
  BY <1>10, <1>11 DEF AsksAreSound, HandedOn, Exists
<1>13. \A t \in Tasks : Exists(t)' => HandedOn(task[t])'
  BY <1>10 DEF ChainsInv, HandedOn, Exists
<1> QED
  BY <1>12, <1>13 DEF ChainsInv

\* What each kind of step does to the rows: who asked whom is never rewritten.
LEMMA StepRows ==
    ASSUME TaskInv, AsksAreSound, [TaskNext]_taskVars
    PROVE  /\ RowsKeep
           /\ asks' \subseteq asks \/ \E a, b \in Agents : Ask(a, b)
           /\ \A t \in Tasks : Exists(t)' => Exists(t) \/ HandedOn(task[t])' \/ \E k \in asks : task'[t] = k
<1>1. TaskTypeOK /\ {"SUBMITTED", "WORKING"} \subseteq AnyState
  BY Legal DEF TaskInv, States
<1>2. ASSUME NEW r \in DOMAIN run, NEW kind \in Kinds, EndStep(r, kind)
      PROVE  RowsKeep /\ asks' \subseteq asks /\ \A t \in Tasks : Exists(t)' => Exists(t)
  BY <1>2, SettlesKeeps DEF EndStep
<1>3. ASSUME NEW t \in Tasks, NEW to \in AnyState, MoveStep(t, to)
      PROVE  RowsKeep /\ asks' \subseteq asks /\ \A u \in Tasks : Exists(u)' => Exists(u)
  <2>1. Exists(t) /\ task' = [task EXCEPT ![t].state = to] /\ UNCHANGED asks
    BY <1>3 DEF MoveStep
  <2> QED
    BY <1>1, <2>1, MovedRow DEF Exists
<1>4. ASSUME NEW t \in Tasks, NEW p \in People, NEW a \in Agents, Accept(t, p, a)
      PROVE  /\ RowsKeep /\ asks' \subseteq asks
             /\ \A u \in Tasks : Exists(u)' => Exists(u) \/ HandedOn(task[u])'
  <2>1. NewTask(a, NoAgent, p, <<>>) \in TaskRows
    BY <1>1 DEF NewTask, TaskRows
  <2>2. ~Exists(t) /\ task' = [task EXCEPT ![t] = NewTask(a, NoAgent, p, <<>>)] /\ UNCHANGED asks
    BY <1>4 DEF Accept
  <2>3. /\ RowsKeep /\ task'[t] = NewTask(a, NoAgent, p, <<>>)
        /\ \A u \in Tasks \ {t} : task'[u] = task[u]
    BY <1>1, <2>1, <2>2, NewRow
  <2>4. task'[t].chain = <<>>
    BY <2>3 DEF NewTask
  <2>5. HandedOn(task[t])'
    <3>1. Append(<<>>, task'[t].agent) = <<task'[t].agent>> /\ Len(<<>>) = 0
      OBVIOUS
    <3>2. \A i, j \in DOMAIN <<task'[t].agent>> : i = j
      OBVIOUS
    <3> QED
      BY <2>4, <3>1, <3>2, TasksAssumption DEF HandedOn
  <2> QED
    BY <2>2, <2>3, <2>5 DEF Exists
<1>5. ASSUME NEW k \in asks, NEW t \in Tasks, CommitAsk(k, t)
      PROVE  /\ RowsKeep /\ asks' \subseteq asks
             /\ \A u \in Tasks : Exists(u)' => Exists(u) \/ \E q \in asks : task'[u] = q
  <2>1. k \in TaskRows /\ ~Exists(t) /\ task' = [task EXCEPT ![t] = k] /\ asks' \subseteq asks
    BY <1>1, <1>5 DEF CommitAsk, TaskTypeOK
  <2> QED
    BY <1>1, <2>1, NewRow DEF Exists
<1>6. ASSUME NEW h \in handed, StartTask(h)
      PROVE  RowsKeep /\ asks' \subseteq asks /\ \A t \in Tasks : Exists(t)' => Exists(t)
  <2>1. h[1] \in Tasks /\ Exists(h[1]) /\ UNCHANGED asks /\ Len(run) + 1 \in Nat
    BY <1>1, <1>6 DEF StartTask, TaskInv, NamesAreKnown, TaskTypeOK
  <2>2. task' = Attached(h[1], Len(run) + 1) \/ UNCHANGED task
    BY <1>6 DEF StartTask
  <2> QED
    BY <1>1, <2>1, <2>2, RestartedRow, SameRows DEF Exists
<1>7. ASSUME UNCHANGED task PROVE RowsKeep /\ \A t \in Tasks : Exists(t)' => Exists(t)
  BY <1>1, <1>7, SameRows DEF Exists
<1>8. ASSUME \/ \E a, b \in Agents : Ask(a, b)
             \/ HeldStep
             \/ \E m \in unlogged : LogMove(m)
             \/ Crash
             \/ \E s \in Streams, t \in Tasks : OpenStream(s, t)
             \/ \E s \in Streams : Listen(s) \/ TakeTaskEvent(s)
             \/ \E n \in onAir : BroadcastTask(n)
      PROVE  UNCHANGED task /\ (asks' \subseteq asks \/ \E a, b \in Agents : Ask(a, b))
  BY <1>8 DEF Ask, HeldStep, LogMove, Crash, OpenStream, Listen, TakeTaskEvent, BroadcastTask
<1> QED
  BY <1>2, <1>3, <1>4, <1>5, <1>6, <1>7, <1>8, StepCases

\* Every step keeps the chains.
LEMMA ChainsStep ==
    ASSUME TaskInv, ChainsInv, [TaskNext]_taskVars
    PROVE  ChainsInv'
<1>1. AsksAreSound
  BY DEF ChainsInv
<1> QED
  BY <1>1, StepRows, ChainsKeep, AskChains

-----------------------------------------------------------------------------
(* A task ends with its run.                                                   *)

\* A step that ends no run: a task that is touched is touched while it may still move.
LEMMA EndsWithRunKeeps ==
    ASSUME TaskInv, TaskEndsWithRun, RowsKeep,
           \A r \in DOMAIN run : run'[r].settled = run[r].settled,
           \A t \in Tasks : Exists(t)' =>
               \/ Exists(t) /\ task'[t] = task[t]
               \/ task'[t].run = 0
               \/ /\ Exists(t) /\ task'[t].run = task[t].run /\ ~Over(t)
                  /\ task'[t].state # "CANCELED" \/ ~Answering(t)
               \/ ~run'[task'[t].run].settled /\ task'[t].state # "CANCELED"
    PROVE  TaskEndsWithRun'
<1> SUFFICES ASSUME NEW t \in Tasks, Exists(t)', task'[t].run # 0
             PROVE  /\ run'[task'[t].run].settled => Over(t)' \/ task'[t].legacy
                    /\ task'[t].state = "CANCELED" => run'[task'[t].run].settled
  BY DEF TaskEndsWithRun, Exists
<1>1. Exists(t) /\ task[t].run # 0 => task[t].run \in DOMAIN run
  BY DEF TaskInv, NamesAreKnown
<1>2. CASE Exists(t) /\ task'[t] = task[t]
  BY <1>1, <1>2 DEF TaskEndsWithRun, Over
<1>3. CASE /\ Exists(t) /\ task'[t].run = task[t].run /\ ~Over(t)
           /\ task'[t].state # "CANCELED" \/ ~Answering(t)
  <2>1. task'[t].legacy = task[t].legacy
    BY <1>3 DEF RowsKeep
  <2> QED
    BY <1>1, <1>3, <2>1 DEF TaskEndsWithRun, Answering
<1> QED
  BY <1>2, <1>3

\* Every step keeps tasks and runs together.
LEMMA EndsWithRunStep ==
    ASSUME TaskInv, ChainsInv, TaskEndsWithRun, [TaskNext]_taskVars
    PROVE  TaskEndsWithRun'
<1>1. TaskTypeOK /\ AsksAreSound /\ RowsKeep
  BY StepRows DEF TaskInv, ChainsInv
<1>2. ASSUME NEW r \in DOMAIN run, NEW kind \in Kinds, EndStep(r, kind)
      PROVE  TaskEndsWithRun'
  <2>1. run'[r].settled /\ \A q \in DOMAIN run \ {r} : run'[q] = run[q]
    BY <1>2, EndTyped
  <2>2. /\ \A t \in Tasks : Exists(t)' => Exists(t) /\ task'[t].run = task[t].run
        /\ \A t \in Tasks : task'[t] = task[t] \/ task[t].run = r
        /\ \A t \in Tasks : Exists(t) /\ task[t].run = r => Over(t)'
    BY <1>2, SettlesKeeps DEF EndStep
  <2> SUFFICES ASSUME NEW t \in Tasks, Exists(t)', task'[t].run # 0
               PROVE  /\ run'[task'[t].run].settled => Over(t)' \/ task'[t].legacy
                      /\ task'[t].state = "CANCELED" => run'[task'[t].run].settled
    BY DEF TaskEndsWithRun, Exists
  <2>3. Exists(t) /\ task'[t].run = task[t].run /\ task[t].run \in DOMAIN run
    BY <2>2 DEF TaskInv, NamesAreKnown
  <2>4. CASE task[t].run = r
    BY <2>1, <2>2, <2>3, <2>4
  <2>5. CASE task[t].run # r
    <3>1. task'[t] = task[t] /\ run'[task[t].run] = run[task[t].run]
      BY <2>1, <2>2, <2>3, <2>5
    <3> QED
      BY <2>3, <3>1 DEF TaskEndsWithRun, Over
  <2> QED
    BY <2>4, <2>5
<1>3. ASSUME NEW t \in Tasks, NEW to \in AnyState, MoveStep(t, to)
      PROVE  TaskEndsWithRun'
  <2>1. /\ Exists(t) /\ ~Over(t) /\ task' = [task EXCEPT ![t].state = to] /\ UNCHANGED run
        /\ to # "CANCELED" \/ ~Answering(t)
    BY <1>3 DEF MoveStep
  <2>2. /\ task'[t].state = to /\ task'[t].run = task[t].run
        /\ \A u \in Tasks \ {t} : task'[u] = task[u]
    BY <1>1, <2>1, MovedRow
  <2> QED
    BY <1>1, <2>1, <2>2, EndsWithRunKeeps DEF Exists
<1>4. ASSUME NEW t \in Tasks, NEW k, ~Exists(t), task' = [task EXCEPT ![t] = k], k.run = 0, UNCHANGED run
      PROVE  TaskEndsWithRun'
  <2>1. task'[t] = k /\ \A u \in Tasks \ {t} : task'[u] = task[u]
    BY <1>1, <1>4 DEF TaskTypeOK
  <2> QED
    BY <1>1, <1>4, <2>1, EndsWithRunKeeps DEF Exists
<1>5. ASSUME NEW t \in Tasks, NEW p \in People, NEW a \in Agents, Accept(t, p, a)
      PROVE  TaskEndsWithRun'
  <2>1. NewTask(a, NoAgent, p, <<>>).run = 0
    BY DEF NewTask
  <2>2. ~Exists(t) /\ task' = [task EXCEPT ![t] = NewTask(a, NoAgent, p, <<>>)] /\ UNCHANGED run
    BY <1>5 DEF Accept
  <2> QED
    BY <1>4, <2>1, <2>2
<1>6. ASSUME NEW k \in asks, NEW t \in Tasks, CommitAsk(k, t)
      PROVE  TaskEndsWithRun'
  <2>1. k.run = 0
    BY <1>1 DEF AsksAreSound
  <2> QED
    BY <1>4, <1>6, <2>1 DEF CommitAsk
<1>7. ASSUME UNCHANGED task, \A r \in DOMAIN run : run'[r].settled = run[r].settled
      PROVE  TaskEndsWithRun'
  BY <1>1, <1>7, EndsWithRunKeeps DEF Exists
<1>8. ASSUME NEW h \in handed, StartTask(h)
      PROVE  TaskEndsWithRun'
  <2>1. h[1] \in Tasks /\ Exists(h[1])
    BY <1>1 DEF TaskInv, NamesAreKnown, TaskTypeOK
  <2>2. CASE MayStart(h[1])
    <3>1. run' = Append(run, NewRun(h[1])) /\ task' = Attached(h[1], Len(run) + 1)
      BY <1>8, <2>2 DEF StartTask
    <3>2. /\ Len(run) \in Nat /\ ~run'[Len(run) + 1].settled
          /\ \A q \in DOMAIN run : run'[q] = run[q]
      BY <1>1, <2>1, <3>1, AddedRun
    <3>3. /\ task'[h[1]].state = "WORKING" /\ task'[h[1]].run = Len(run) + 1
          /\ \A u \in Tasks \ {h[1]} : task'[u] = task[u]
      <4>1. Len(run) + 1 \in Nat
        BY <3>2
      <4> QED
        BY <1>1, <2>1, <3>1, <4>1, RestartedRow
    <3> QED
      BY <1>1, <3>2, <3>3, EndsWithRunKeeps DEF Exists
  <2>3. CASE ~MayStart(h[1])
    BY <1>7, <1>8, <2>3 DEF StartTask
  <2> QED
    BY <2>2, <2>3
<1>9. CASE HeldStep
  BY <1>1, <1>7, <1>9, MarkedRun DEF HeldStep
<1>10. ASSUME \/ \E a, b \in Agents : Ask(a, b)
              \/ \E m \in unlogged : LogMove(m)
              \/ Crash
              \/ \E s \in Streams, t \in Tasks : OpenStream(s, t)
              \/ \E s \in Streams : Listen(s) \/ TakeTaskEvent(s)
              \/ \E n \in onAir : BroadcastTask(n)
      PROVE  UNCHANGED <<task, run>>
  BY <1>10 DEF Ask, LogMove, Crash, OpenStream, Listen, TakeTaskEvent, BroadcastTask
<1> QED
  BY <1>2, <1>3, <1>5, <1>6, <1>7, <1>8, <1>9, <1>10, StepCases

\* The step of OnlyItsOwnRunEndsIt.
LEMMA OwnRunStep ==
    ASSUME TaskInv, ChainsInv, [TaskNext]_taskVars, NEW t \in Tasks,
           Exists(t), ~Over(t), task'[t].state \in Done, run' # run, task[t].run # 0
    PROVE  run'[task[t].run].settled
<1>1. TaskTypeOK
  BY DEF TaskInv
<1>2. task'[t] # task[t]
  BY DEF Over
<1>3. ASSUME NEW r \in DOMAIN run, NEW kind \in Kinds, EndStep(r, kind)
      PROVE  run'[task[t].run].settled
  BY <1>2, <1>3, EndTyped, SettlesKeeps DEF EndStep
<1>4. ASSUME NEW h \in handed, StartTask(h) PROVE FALSE
  <2>1. h[1] \in Tasks /\ Exists(h[1]) /\ Len(run) + 1 \in Nat
    BY <1>1 DEF TaskInv, NamesAreKnown, TaskTypeOK
  <2>2. task' = Attached(h[1], Len(run) + 1) \/ UNCHANGED task
    BY <1>4 DEF StartTask
  <2>3. task'[h[1]].state = "WORKING" /\ \A u \in Tasks \ {h[1]} : task'[u] = task[u]
    BY <1>1, <1>2, <2>1, <2>2, RestartedRow
  <2> QED
    BY <1>2, <2>3, Legal
<1>5. UNCHANGED task \/ UNCHANGED run
         \/ (\E r \in DOMAIN run, kind \in Kinds : EndStep(r, kind)) \/ \E h \in handed : StartTask(h)
  BY StepCases DEF MoveStep, Accept, CommitAsk, Ask, HeldStep, LogMove, Crash, OpenStream, Listen,
     TakeTaskEvent, BroadcastTask
<1> QED
  BY <1>2, <1>3, <1>4, <1>5

-----------------------------------------------------------------------------
(* The end is told once, and reaches the streams.                              *)

\* The endings of a task after a step that only adds to the log.
LEMMA EndingsGrow ==
    ASSUME LogKeeps, NEW t \in Tasks
    PROVE  /\ Endings(t) \subseteq Endings(t)'
           /\ Endings(t)' = Endings(t) \cup
                 { n \in DOMAIN told' \ DOMAIN told : told'[n][1] = t /\ told'[n][2] \in Done }
BY DEF LogKeeps, Endings

TellingInv == EndsAreTold /\ StreamsHearEnds

\* A task that is not over has no end in the log, nor one waiting to be logged.
LEMMA NotToldYet ==
    ASSUME TaskInv, EndsAreTold, NEW t \in Tasks, Exists(t), ~Over(t)
    PROVE  Endings(t) = {} /\ \A m \in unlogged : m[1] = t => m[2] \notin Done
BY DEF EndsAreTold, Endings, Over

\* What is on its way to a stream stays on its way, and a new end is put there.
LEMMA StreamsHearMore ==
    ASSUME TaskInv, StreamsHearEnds, RowsKeep, LogKeeps, onAir \subseteq onAir', UNCHANGED stream,
           \A m \in unlogged : m[2] \in Done =>
               m \in unlogged' \/ \E n \in onAir' : n \in DOMAIN told' /\ told'[n] = m,
           \A t \in Tasks : Exists(t) /\ Over(t)' =>
               \/ Over(t)
               \/ <<t, task'[t].state>> \in unlogged'
               \/ \E n \in onAir' : n \in DOMAIN told' /\ told'[n] = <<t, task'[t].state>>
    PROVE  StreamsHearEnds'
<1> SUFFICES ASSUME NEW s \in Streams, stream[s].at = "listening", Over(stream[s].of)', ~stream[s].behind
             PROVE  EndComing(s)'
  BY DEF StreamsHearEnds, Over
<1> DEFINE of == stream[s].of
<1>1. of \in Tasks /\ Exists(of) /\ UNCHANGED of
  BY DEF TaskInv, NamesAreKnown
<1>2. Over(of) => EndComing(s)
  BY DEF StreamsHearEnds
<1>3. \A t \in Tasks : Endings(t) \subseteq Endings(t)'
  BY EndingsGrow
<1>4. (\E m \in unlogged' : m[1] = of /\ m[2] \in Done) => EndComing(s)'
  BY <1>1 DEF EndComing
<1>5. (\E n \in onAir' : n \in DOMAIN told' /\ told'[n][1] = of /\ told'[n][2] \in Done) => EndComing(s)'
  BY <1>1 DEF EndComing, Endings
<1>6. CASE Over(of)
  <2>1. ASSUME NEW m \in unlogged, m[1] = of, m[2] \in Done PROVE EndComing(s)'
    BY <1>4, <1>5, <2>1
  <2>2. ASSUME Endings(of) \cap (onAir \cup Range(stream[s].queue)) # {} PROVE EndComing(s)'
    BY <1>1, <1>3, <2>2 DEF EndComing
  <2>3. ASSUME Mark \in Range(stream[s].queue) PROVE EndComing(s)'
    BY <2>3 DEF EndComing
  <2> QED
    BY <1>2, <1>6, <2>1, <2>2, <2>3 DEF EndComing
<1>7. CASE ~Over(of)
  <2>1. \/ <<of, task'[of].state>> \in unlogged'
        \/ \E n \in onAir' : n \in DOMAIN told' /\ told'[n] = <<of, task'[of].state>>
    BY <1>1, <1>7
  <2>2. task'[of].state \in Done
    BY <1>1 DEF Over
  <2> QED
    BY <1>4, <1>5, <2>1, <2>2
<1> QED
  BY <1>6, <1>7

\* A step that ends no task.
LEMMA NothingEnds ==
    ASSUME TaskInv, TellingInv, RowsKeep, LogKeeps, onAir \subseteq onAir', UNCHANGED <<stream, crashed>>,
           \A n \in DOMAIN told' \ DOMAIN told : told'[n][2] \notin Done,
           unlogged \subseteq unlogged', \A m \in unlogged' \ unlogged : m[2] \notin Done,
           \A t \in Tasks : Exists(t)' =>
               IF Exists(t) THEN task'[t].state = task[t].state \/ ~(Over(t) \/ Over(t)') ELSE ~Over(t)'
    PROVE  TellingInv'
<1>1. \A t \in Tasks : Endings(t)' = Endings(t)
  BY EndingsGrow
<1>2. /\ \A t \in Tasks : Endings(t) # {} => Exists(t) /\ Over(t)
      /\ \A m \in unlogged : m[1] \in Tasks /\ Exists(m[1])
  BY DEF TellingInv, EndsAreTold, Endings, Over, TaskInv, NamesAreKnown, TaskTypeOK
<1>3. \A t \in Tasks : Exists(t) => Exists(t)'
  BY DEF RowsKeep
<1>4. \A t \in Tasks : \A n \in Endings(t)' : told'[n][2] = task'[t].state
  <2>1. \A t \in Tasks : \A n \in Endings(t) : told'[n][2] = told[n][2]
    BY DEF Endings, LogKeeps
  <2> QED
    BY <1>1, <1>2, <1>3, <2>1 DEF TellingInv, EndsAreTold
<1>5. \A m \in unlogged' : m[2] \in Done =>
         m \in unlogged /\ m[2] = task'[m[1]].state /\ Endings(m[1])' = {}
  BY <1>1, <1>2, <1>3 DEF TellingInv, EndsAreTold, Over
<1>6. \A t \in Tasks : Exists(t)' /\ Over(t)' => Exists(t) /\ Over(t) /\ task'[t].state = task[t].state
  BY DEF Over
<1>7. EndsAreTold'
  <2>1. \A t \in Tasks : \A n, m \in Endings(t)' : n = m
    BY <1>1 DEF TellingInv, EndsAreTold
  <2>2. \A t \in Tasks : Exists(t)' /\ Over(t)' /\ crashed' = 0 =>
           Endings(t)' # {} \/ <<t, task'[t].state>> \in unlogged'
    BY <1>1, <1>6 DEF TellingInv, EndsAreTold
  <2> QED
    BY <1>4, <1>5, <2>1, <2>2 DEF EndsAreTold
<1>8. StreamsHearEnds'
  <2>1. \A t \in Tasks : Exists(t) /\ Over(t)' => Over(t)
    BY <1>3, <1>6
  <2> QED
    BY <2>1, StreamsHearMore DEF TellingInv
<1> QED
  BY <1>7, <1>8 DEF TellingInv

\* A step that ends one task: the end is logged with it, or waits to be.
LEMMA OneEnds ==
    ASSUME TaskInv, TellingInv, RowsKeep, LogKeeps, onAir \subseteq onAir', UNCHANGED <<stream, crashed>>,
           NEW t \in Tasks, Exists(t), ~Over(t), Over(t)',
           \A u \in Tasks \ {t} : task'[u] = task[u],
           \/ /\ UNCHANGED unlogged
              /\ \E n \in DOMAIN told' \ DOMAIN told :
                    /\ n \in onAir' /\ told'[n] = <<t, task'[t].state>>
                    /\ \A m \in DOMAIN told' \ DOMAIN told : m = n \/ told'[m][2] \notin Done
           \/ UNCHANGED told /\ unlogged' = unlogged \cup {<<t, task'[t].state>>}
    PROVE  TellingInv'
<1>1. Endings(t) = {} /\ \A m \in unlogged : m[1] = t => m[2] \notin Done
  BY NotToldYet DEF TellingInv
<1>2. \A m \in unlogged : m[1] \in Tasks /\ Exists(m[1])
  BY DEF TaskInv, NamesAreKnown, TaskTypeOK
<1>3. \A u \in Tasks \ {t} : Exists(u)' => Exists(u)
  BY DEF Exists
<1>4. CASE /\ UNCHANGED unlogged
           /\ \E n \in DOMAIN told' \ DOMAIN told :
                 /\ n \in onAir' /\ told'[n] = <<t, task'[t].state>>
                 /\ \A m \in DOMAIN told' \ DOMAIN told : m = n \/ told'[m][2] \notin Done
  <2>1. PICK n \in DOMAIN told' \ DOMAIN told :
            /\ n \in onAir' /\ told'[n] = <<t, task'[t].state>>
            /\ \A m \in DOMAIN told' \ DOMAIN told : m = n \/ told'[m][2] \notin Done
    BY <1>4
  <2>2. Endings(t)' = {n} /\ \A u \in Tasks \ {t} : Endings(u)' = Endings(u)
    BY <1>1, <2>1, EndingsGrow DEF Over
  <2>3. \A u \in Tasks : \A m \in Endings(u)' : told'[m][2] = task'[u].state
    <3>1. \A u \in Tasks : \A m \in Endings(u) : told'[m] = told[m]
      BY DEF Endings, LogKeeps
    <3> QED
      BY <2>1, <2>2, <3>1 DEF TellingInv, EndsAreTold
  <2>4. \A u \in Tasks : \A m, k \in Endings(u)' : m = k
    BY <2>2 DEF TellingInv, EndsAreTold
  <2>5. \A m \in unlogged' : m[2] \in Done => m[2] = task'[m[1]].state /\ Endings(m[1])' = {}
    BY <1>1, <1>2, <1>4, <2>2 DEF TellingInv, EndsAreTold
  <2>6. \A u \in Tasks : Exists(u)' /\ Over(u)' /\ crashed' = 0 =>
            Endings(u)' # {} \/ <<u, task'[u].state>> \in unlogged'
    BY <1>3, <1>4, <2>2 DEF TellingInv, EndsAreTold, Over
  <2>7. EndsAreTold'
    BY <2>3, <2>4, <2>5, <2>6 DEF EndsAreTold
  <2>8. StreamsHearEnds'
    <3>1. n \in onAir' /\ n \in DOMAIN told' /\ told'[n] = <<t, task'[t].state>>
      BY <2>1
    <3>2. \A u \in Tasks : Exists(u) /\ Over(u)' => Over(u) \/ u = t
      BY DEF Over
    <3> QED
      BY <1>4, <3>1, <3>2, StreamsHearMore DEF TellingInv
  <2> QED
    BY <2>7, <2>8 DEF TellingInv
<1>5. CASE UNCHANGED told /\ unlogged' = unlogged \cup {<<t, task'[t].state>>}
  <2>1. \A u \in Tasks : Endings(u)' = Endings(u)
    BY <1>5 DEF Endings
  <2>2. \A u \in Tasks : \A m \in Endings(u)' : told'[m][2] = task'[u].state
    BY <1>1, <1>5, <2>1 DEF TellingInv, EndsAreTold
  <2>3. \A m \in unlogged' : m[2] \in Done => m[2] = task'[m[1]].state /\ Endings(m[1])' = {}
    <3>1. \A m \in unlogged : m[2] \in Done => m[1] # t /\ m[2] = task'[m[1]].state /\ Endings(m[1])' = {}
      BY <1>1, <1>2, <2>1 DEF TellingInv, EndsAreTold
    <3> QED
      BY <1>1, <1>5, <2>1, <3>1
  <2>4. \A u \in Tasks : Exists(u)' /\ Over(u)' /\ crashed' = 0 =>
            Endings(u)' # {} \/ <<u, task'[u].state>> \in unlogged'
    BY <1>3, <1>5, <2>1 DEF TellingInv, EndsAreTold, Over
  <2>5. EndsAreTold'
    BY <2>1, <2>2, <2>3, <2>4 DEF TellingInv, EndsAreTold
  <2>6. StreamsHearEnds'
    <3>1. \A u \in Tasks : Exists(u) /\ Over(u)' => Over(u) \/ u = t
      BY DEF Over
    <3> QED
      BY <1>5, <3>1, StreamsHearMore DEF TellingInv
  <2> QED
    BY <2>5, <2>6 DEF TellingInv
<1> QED
  BY <1>4, <1>5

\* What the end of a run tells the room: the end of its task, last.
LEMMA SettlesTells ==
    ASSUME TaskInv, NEW r \in DOMAIN run, NEW kind, Settles(r, kind)
    PROVE  \/ UNCHANGED <<task, told, onAir>>
           \/ \E t \in Tasks :
                 /\ Exists(t) /\ ~Over(t) /\ Over(t)' /\ \A u \in Tasks \ {t} : task'[u] = task[u]
                 /\ onAir \subseteq onAir'
                 /\ \E n \in DOMAIN told' \ DOMAIN told :
                       /\ n \in onAir' /\ told'[n] = <<t, task'[t].state>>
                       /\ \A m \in DOMAIN told' \ DOMAIN told : m = n \/ told'[m][2] \notin Done
<1>1. TaskTypeOK /\ NamesAreKnown
  BY DEF TaskInv
<1>2. ASSUME NEW t \in Tasks,
             ServedTask(r) = {t}, Exists(t), task[t].run = r, ~Over(t),
             task' = [task EXCEPT ![t].state = Outcome(t, kind)],
             Tells(SettledWith(t, kind))
      PROVE  /\ Exists(t) /\ ~Over(t) /\ Over(t)' /\ \A u \in Tasks \ {t} : task'[u] = task[u]
             /\ onAir \subseteq onAir'
             /\ \E n \in DOMAIN told' \ DOMAIN told :
                   /\ n \in onAir' /\ told'[n] = <<t, task'[t].state>>
                   /\ \A m \in DOMAIN told' \ DOMAIN told : m = n \/ told'[m][2] \notin Done
  <2>1. Outcome(t, kind) \in AnyState /\ Outcome(t, kind) \in Done
    BY OutcomeEnds, Legal DEF States
  <2>2. task'[t].state = Outcome(t, kind) /\ \A u \in Tasks \ {t} : task'[u] = task[u]
    BY <1>1, <1>2, <2>1, MovedRow
  <2>3. PICK ms : ms = SettledWith(t, kind)
    OBVIOUS
  <2>4. ms \in Seq(Tasks \X AnyState) /\ Tells(ms)
    BY <1>2, <2>3, OutcomeEnds
  <2>5. PICK k \in {1, 2} :
           /\ Len(ms) = k /\ ms[k] = <<t, Outcome(t, kind)>>
           /\ \A i \in 1 .. k : ms[i][1] = t /\ (i < k => ms[i][2] = "WORKING")
    BY <2>3, OutcomeEnds
  <2>6. /\ Len(told') = Len(told) + k /\ Len(told) \in Nat
        /\ DOMAIN told = 1 .. Len(told) /\ DOMAIN told' = 1 .. Len(told')
        /\ \A n \in Len(told) + 1 .. Len(told') : told'[n] = ms[n - Len(told)]
        /\ onAir' = onAir \cup (Len(told) + 1 .. Len(told'))
    BY <1>1, <2>4, <2>5, TellsAppends DEF TaskTypeOK
  <2> DEFINE n == Len(told) + k
  <2>7. n \in DOMAIN told' \ DOMAIN told /\ n \in onAir' /\ told'[n] = <<t, Outcome(t, kind)>>
    BY <2>5, <2>6
  <2>8. ASSUME NEW m \in DOMAIN told' \ DOMAIN told, m # n PROVE told'[m][2] \notin Done
    <3>1. m - Len(told) \in 1 .. k /\ m - Len(told) < k /\ m \in Len(told) + 1 .. Len(told')
      BY <2>6, <2>8
    <3>2. told'[m][2] = "WORKING"
      BY <2>5, <2>6, <3>1
    <3> QED
      BY <3>2, Legal
  <2> HIDE DEF n
  <2> QED
    BY <1>2, <2>1, <2>2, <2>6, <2>7, <2>8 DEF Over
<1> QED
  BY <1>1, <1>2, SettlesOne

\* The event of a move is logged: what waited to be told is told.
LEMMA LogMoveTells ==
    ASSUME TaskInv, TellingInv, NEW m \in unlogged, LogMove(m)
    PROVE  TellingInv'
<1>1. TaskTypeOK /\ m \in Tasks \X AnyState /\ Exists(m[1])
  BY DEF TaskInv, TaskTypeOK, NamesAreKnown
<1>2. /\ UNCHANGED <<task, stream, crashed>> /\ unlogged' = unlogged \ {m}
      /\ Tells(<< <<m[1], m[2]>> >>)
  BY <1>1 DEF LogMove
<1> DEFINE n == Len(told) + 1
<1>3. /\ LogKeeps /\ n \in DOMAIN told' \ DOMAIN told /\ told'[n] = m
      /\ DOMAIN told' = DOMAIN told \cup {n} /\ onAir' = onAir \cup {n}
  <2>1. m = <<m[1], m[2]>> /\ m[1] \in Tasks /\ m[2] \in AnyState
    BY <1>1
  <2>2. /\ LogKeeps /\ \A k \in DOMAIN told' \ DOMAIN told : told'[k] = <<m[1], m[2]>>
        /\ n \in DOMAIN told' \ DOMAIN told
        /\ DOMAIN told' = DOMAIN told \cup {n} /\ onAir' = onAir \cup {n}
    BY <1>2, <2>1, TellsOne
  <2> QED
    BY <2>1, <2>2
<1> HIDE DEF n
<1>4. RowsKeep
  BY <1>1, <1>2, SameRows
<1>5. StreamsHearEnds'
  <2>1. \A k \in unlogged : k \in unlogged' \/ (n \in onAir' /\ n \in DOMAIN told' /\ told'[n] = k)
    BY <1>2, <1>3
  <2>2. \A t \in Tasks : Over(t)' => Over(t)
    BY <1>2 DEF Over
  <2> QED
    BY <1>2, <1>3, <1>4, <2>1, <2>2, StreamsHearMore DEF TellingInv
<1>6. \A t \in Tasks : Endings(t)' = Endings(t) \cup (IF t = m[1] /\ m[2] \in Done THEN {n} ELSE {})
  BY <1>3, EndingsGrow
<1>7. m[2] \in Done => m[2] = task[m[1]].state /\ Endings(m[1]) = {}
  BY DEF TellingInv, EndsAreTold
<1>8. \A t \in Tasks : \A k \in Endings(t)' : told'[k][2] = task'[t].state
  <2>1. \A t \in Tasks : \A k \in Endings(t) : told'[k] = told[k]
    BY <1>3 DEF Endings, LogKeeps
  <2> QED
    BY <1>2, <1>3, <1>6, <1>7, <2>1 DEF TellingInv, EndsAreTold
<1>9. \A t \in Tasks : \A j, k \in Endings(t)' : j = k
  BY <1>6, <1>7 DEF TellingInv, EndsAreTold
<1>10. \A k \in unlogged' : k[2] \in Done => k[2] = task'[k[1]].state /\ Endings(k[1])' = {}
  <2> SUFFICES ASSUME NEW k \in unlogged', k[2] \in Done
               PROVE  k[2] = task'[k[1]].state /\ Endings(k[1])' = {}
    OBVIOUS
  <2>1. k \in unlogged /\ k # m /\ k \in Tasks \X AnyState
    BY <1>1, <1>2 DEF TaskTypeOK
  <2>2. k[2] = task[k[1]].state /\ Endings(k[1]) = {}
    BY <2>1 DEF TellingInv, EndsAreTold
  <2>3. ~(k[1] = m[1] /\ m[2] \in Done)
    BY <1>1, <1>7, <2>1, <2>2
  <2>4. k[1] \in Tasks
    BY <2>1
  <2> QED
    BY <1>2, <1>6, <2>2, <2>3, <2>4
<1>11. \A t \in Tasks : Exists(t)' /\ Over(t)' /\ crashed' = 0 =>
          Endings(t)' # {} \/ <<t, task'[t].state>> \in unlogged'
  <2> SUFFICES ASSUME NEW t \in Tasks, Exists(t)', Over(t)', crashed' = 0,
                      <<t, task'[t].state>> \notin unlogged'
               PROVE  Endings(t)' # {}
    OBVIOUS
  <2>1. Exists(t) /\ Over(t) /\ crashed = 0
    BY <1>2 DEF Exists, Over
  <2>2. Endings(t) # {} \/ <<t, task[t].state>> \in unlogged
    BY <2>1 DEF TellingInv, EndsAreTold
  <2>3. CASE Endings(t) # {}
    BY <1>6, <2>3
  <2>4. CASE <<t, task[t].state>> \in unlogged
    BY <1>2, <1>6, <2>1, <2>4 DEF Over
  <2> QED
    BY <2>2, <2>3, <2>4
<1>12. EndsAreTold'
  BY <1>8, <1>9, <1>10, <1>11 DEF EndsAreTold
<1> QED
  BY <1>5, <1>12 DEF TellingInv

\* A crash loses what was not logged, and closes the streams.
LEMMA CrashTells ==
    ASSUME TaskInv, TellingInv, Crash
    PROVE  TellingInv'
<1>1. UNCHANGED <<task, told>> /\ unlogged' = {} /\ crashed' = crashed + 1
      /\ stream' = [s \in Streams |-> Quiet] /\ crashed \in Nat
  BY DEF Crash, TaskInv, TaskTypeOK
<1>2. EndsAreTold'
  <2>1. \A t \in Tasks : Endings(t)' = Endings(t)
    BY <1>1 DEF Endings
  <2>2. crashed' # 0
    BY <1>1
  <2> QED
    BY <1>1, <2>1, <2>2 DEF TellingInv, EndsAreTold
<1>3. \A s \in Streams : stream'[s].at = "off"
  BY <1>1, QuietRow
<1>4. StreamsHearEnds'
  BY <1>3 DEF StreamsHearEnds
<1> QED
  BY <1>2, <1>4 DEF TellingInv

\* A step of the streams tells nothing new.
LEMMA StreamsTell ==
    ASSUME TaskInv, EndsAreTold, UNCHANGED <<task, told, unlogged, crashed>>, StreamsHearEnds'
    PROVE  TellingInv'
<1>1. \A t \in Tasks : Endings(t)' = Endings(t)
  BY DEF Endings
<1>2. task' = task /\ told' = told /\ unlogged' = unlogged /\ crashed' = crashed
  OBVIOUS
<1>3. \A m \in unlogged : m[1] \in Tasks
  BY DEF TaskInv, TaskTypeOK
<1>4. EndsAreTold'
  BY <1>1, <1>2, <1>3 DEF EndsAreTold, Over, Exists
<1> QED
  BY <1>4 DEF TellingInv

\* A stream opens listening for nothing yet, and closed on a task that is over.
LEMMA OpenStreamTells ==
    ASSUME TaskInv, TellingInv, NEW s \in Streams, NEW t \in Tasks, OpenStream(s, t)
    PROVE  TellingInv'
<1>1. TaskTypeOK /\ EndsAreTold /\ StreamsHearEnds
  BY DEF TaskInv, TellingInv
<1> DEFINE row == [Quiet EXCEPT !.of = t, !.last = task[t].state,
                      !.at = IF Over(t) THEN "closed" ELSE "snapshot"]
<1>2. row.at = (IF Over(t) THEN "closed" ELSE "snapshot") /\ row.last = task[t].state
  BY DEF Quiet
<1>3. UNCHANGED <<task, told, unlogged, crashed, onAir>> /\ stream' = [stream EXCEPT ![s] = row]
  BY DEF OpenStream
<1> HIDE DEF row
<1>4. stream'[s] = row /\ \A z \in Streams \ {s} : stream'[z] = stream[z]
  BY <1>1, <1>3 DEF TaskTypeOK
<1>5. \A z \in Streams \ {s} : EndComing(z)' = EndComing(z)
  BY <1>3, <1>4 DEF EndComing, Endings
<1>6. StreamsHearEnds'
  BY <1>1, <1>2, <1>3, <1>4, <1>5 DEF StreamsHearEnds, Over
<1> QED
  BY <1>1, <1>3, <1>6, StreamsTell

\* A stream that subscribes to a task that ended meanwhile knows it is behind.
LEMMA ListenTells ==
    ASSUME TaskInv, TellingInv, NEW s \in Streams, Listen(s)
    PROVE  TellingInv'
<1>1. TaskTypeOK /\ EndsAreTold /\ StreamsHearEnds /\ stream[s] \in StreamRows
      /\ stream[s].at = "snapshot" /\ stream[s].last \notin Done
  BY DEF TaskInv, TaskTypeOK, TellingInv, StreamsHearEnds, Listen
<1> DEFINE behind == task[stream[s].of].state # stream[s].last
           row == [[stream[s] EXCEPT !.at = "listening"] EXCEPT !.behind = behind]
<1>2. row.at = "listening" /\ row.of = stream[s].of /\ row.behind = behind
  BY <1>1 DEF StreamRows
<1>3. UNCHANGED <<task, told, unlogged, crashed, onAir>>
      /\ stream' = [stream EXCEPT ![s].at = "listening", ![s].behind = behind]
  BY DEF Listen
<1>4. stream'[s] = row /\ \A z \in Streams \ {s} : stream'[z] = stream[z]
  <2> HIDE DEF behind
  <2> QED
    BY <1>1, <1>3 DEF TaskTypeOK
<1> HIDE DEF row
<1>5. \A z \in Streams \ {s} : EndComing(z)' = EndComing(z)
  BY <1>3, <1>4 DEF EndComing, Endings
<1>6. ~stream'[s].behind => ~Over(stream[s].of)
  BY <1>1, <1>2, <1>4 DEF Over
<1>7. StreamsHearEnds'
  <2> HIDE DEF behind
  <2> QED
    BY <1>1, <1>2, <1>3, <1>4, <1>5, <1>6 DEF StreamsHearEnds, Over
<1> QED
  BY <1>1, <1>3, <1>7, StreamsTell

\* A broadcast carries an end from the air into the queue, or leaves the marker there.
LEMMA BroadcastTells ==
    ASSUME TaskInv, TellingInv, NEW n \in onAir, BroadcastTask(n)
    PROVE  TellingInv'
<1>1. TaskTypeOK /\ EndsAreTold /\ StreamsHearEnds /\ n \in DOMAIN told /\ n \in Nat
  BY DEF TaskInv, TaskTypeOK, TellingInv
<1>2. UNCHANGED <<task, told, unlogged, crashed>> /\ onAir' = onAir \ {n}
  BY DEF BroadcastTask
<1>3. \A s \in Streams :
         /\ stream[s].at # "listening" => stream'[s] = stream[s]
         /\ stream[s].at = "listening" =>
               /\ stream'[s].at = "listening" /\ stream'[s].of = stream[s].of
               /\ stream'[s].behind = stream[s].behind
               /\ stream'[s].queue = PutTask(stream[s].queue, n)
  BY BroadcastTyped
<1>4. ASSUME NEW s \in Streams, stream[s].at = "listening", EndComing(s) PROVE EndComing(s)'
  <2>1. stream[s].queue \in Seq(Nat)
    BY <1>1 DEF TaskTypeOK, StreamRows
  <2>2. \/ Mark \in Range(stream'[s].queue)
        \/ Range(stream[s].queue) \cup {n} \subseteq Range(stream'[s].queue)
    BY <1>1, <1>3, <1>4, <2>1, PutTaskKeeps
  <2>3. onAir \cup Range(stream[s].queue) \subseteq onAir' \cup Range(stream'[s].queue)
           \/ Mark \in Range(stream'[s].queue)
    BY <1>2, <2>2
  <2>4. Endings(stream[s].of)' = Endings(stream[s].of) /\ UNCHANGED stream[s].of
    BY <1>2, <1>3, <1>4 DEF Endings
  <2>5. (Mark \in Range(stream[s].queue)) => Mark \in Range(stream'[s].queue)
    BY <2>2
  <2>6. CASE \E m \in unlogged : m[1] = stream[s].of /\ m[2] \in Done
    BY <1>2, <2>4, <2>6 DEF EndComing
  <2>7. CASE Endings(stream[s].of) \cap (onAir \cup Range(stream[s].queue)) # {}
    BY <2>3, <2>4, <2>7 DEF EndComing, Endings
  <2>8. CASE Mark \in Range(stream[s].queue)
    BY <2>5, <2>8 DEF EndComing
  <2> QED
    BY <1>4, <2>6, <2>7, <2>8 DEF EndComing
<1>5. StreamsHearEnds'
  BY <1>1, <1>2, <1>3, <1>4 DEF StreamsHearEnds, Over
<1> QED
  BY <1>1, <1>2, <1>5, StreamsTell

\* A stream that goes on listening has not taken the end, nor the marker of a lost one.
LEMMA TakeTells ==
    ASSUME TaskInv, TellingInv, NEW s \in Streams, TakeTaskEvent(s)
    PROVE  TellingInv'
<1>1. TaskTypeOK /\ EndsAreTold /\ StreamsHearEnds
  BY DEF TaskInv, TellingInv
<1>2. UNCHANGED <<task, told, unlogged, crashed, onAir>>
  BY DEF TakeTaskEvent
<1>3. /\ \A z \in Streams \ {s} : stream'[z] = stream[z]
      /\ stream[s].at = "listening" /\ stream[s].queue \in Seq(Nat) /\ stream[s].queue # <<>>
      /\ stream'[s].queue = Tail(stream[s].queue) /\ stream'[s].of = stream[s].of
      /\ stream'[s].behind = stream[s].behind
      /\ stream'[s].at = IF Heard(s, Head(stream[s].queue)) \in Done THEN "closed" ELSE "listening"
  BY TakeTyped
<1>4. \A z \in Streams \ {s} : EndComing(z)' = EndComing(z)
  BY <1>2, <1>3 DEF EndComing, Endings
<1>5. ASSUME stream'[s].at = "listening", Over(stream[s].of), EndComing(s)
      PROVE  EndComing(s)'
  <2> DEFINE h == Head(stream[s].queue)
             of == stream[s].of
  <2>1. Heard(s, h) \notin Done
    BY <1>3, <1>5
  <2>2. h # Mark
    BY <1>5, <2>1 DEF Heard, Over
  <2>3. h \notin Endings(of)
    BY <2>1, <2>2 DEF Heard, Endings
  <2>4. Range(stream[s].queue) = {h} \cup Range(stream'[s].queue)
    BY <1>3, QueueRange
  <2>5. Endings(of)' = Endings(of) /\ UNCHANGED of
    BY <1>2, <1>3 DEF Endings
  <2> HIDE DEF h
  <2>6. CASE \E m \in unlogged : m[1] = of /\ m[2] \in Done
    BY <1>2, <2>5, <2>6 DEF EndComing
  <2>7. CASE Endings(of) \cap (onAir \cup Range(stream[s].queue)) # {}
    BY <1>2, <2>3, <2>4, <2>5, <2>7 DEF EndComing
  <2>8. CASE Mark \in Range(stream[s].queue)
    BY <2>2, <2>4, <2>8 DEF EndComing
  <2> QED
    BY <1>5, <2>6, <2>7, <2>8 DEF EndComing
<1>6. StreamsHearEnds'
  BY <1>1, <1>2, <1>3, <1>4, <1>5 DEF StreamsHearEnds, Over
<1> QED
  BY <1>1, <1>2, <1>6, StreamsTell

\* Every step tells an end once, or leaves what was told alone.
LEMMA TellingStep ==
    ASSUME TaskInv, ChainsInv, TellingInv, [TaskNext]_taskVars
    PROVE  TellingInv'
<1>1. TaskTypeOK /\ AsksAreSound /\ RowsKeep
  BY StepRows DEF TaskInv, ChainsInv
<1>2. "SUBMITTED" \notin Done /\ "WORKING" \notin Done /\ {"SUBMITTED", "WORKING"} \subseteq AnyState
  BY Legal DEF States
<1>3. ASSUME NEW r \in DOMAIN run, NEW kind \in Kinds, EndStep(r, kind)
      PROVE  TellingInv'
  <2>1. Settles(r, kind) /\ UNCHANGED <<unlogged, stream, crashed>>
    BY <1>3 DEF EndStep
  <2>2. LogKeeps
    BY <2>1, SettlesKeeps
  <2>3. CASE UNCHANGED <<task, told, onAir>>
    BY <1>1, <2>1, <2>2, <2>3, NothingEnds DEF Exists, Over
  <2>4. CASE \E t \in Tasks :
               /\ Exists(t) /\ ~Over(t) /\ Over(t)' /\ \A u \in Tasks \ {t} : task'[u] = task[u]
               /\ onAir \subseteq onAir'
               /\ \E n \in DOMAIN told' \ DOMAIN told :
                     /\ n \in onAir' /\ told'[n] = <<t, task'[t].state>>
                     /\ \A m \in DOMAIN told' \ DOMAIN told : m = n \/ told'[m][2] \notin Done
    BY <1>1, <2>1, <2>2, <2>4, OneEnds
  <2> QED
    BY <2>1, <2>3, <2>4, SettlesTells
<1>4. ASSUME NEW t \in Tasks, NEW to \in AnyState, MoveStep(t, to)
      PROVE  TellingInv'
  <2>1. /\ Exists(t) /\ ~Over(t) /\ task' = [task EXCEPT ![t].state = to]
        /\ \/ unlogged' = unlogged \cup {<<t, to>>} /\ UNCHANGED <<told, onAir>>
           \/ UNCHANGED unlogged /\ Tells(<< <<t, to>> >>)
        /\ UNCHANGED <<stream, crashed>>
    BY <1>4 DEF MoveStep
  <2>2. task'[t].state = to /\ \A u \in Tasks \ {t} : task'[u] = task[u]
    BY <1>1, <2>1, MovedRow
  <2>3. /\ LogKeeps /\ onAir \subseteq onAir'
        /\ \A n \in DOMAIN told' \ DOMAIN told : told'[n] = <<t, to>>
        /\ UNCHANGED unlogged \/ UNCHANGED told
        /\ UNCHANGED unlogged => \/ \E n \in DOMAIN told' \ DOMAIN told :
                                     n \in onAir' /\ DOMAIN told' \ DOMAIN told = {n}
                                 \/ <<t, to>> \in unlogged
    <3>1. CASE unlogged' = unlogged \cup {<<t, to>>} /\ UNCHANGED <<told, onAir>>
      BY <3>1, SameLog
    <3>2. CASE UNCHANGED unlogged /\ Tells(<< <<t, to>> >>)
      <4>1. /\ LogKeeps /\ \A n \in DOMAIN told' \ DOMAIN told : told'[n] = <<t, to>>
            /\ Len(told) + 1 \in DOMAIN told' \ DOMAIN told
            /\ DOMAIN told' = DOMAIN told \cup {Len(told) + 1}
            /\ onAir' = onAir \cup {Len(told) + 1}
        BY <3>2, TellsOne
      <4> QED
        BY <3>2, <4>1
    <3> QED
      BY <2>1, <3>1, <3>2
  <2>4. CASE to \in Done
    <3>1. <<t, to>> \notin unlogged
      BY <2>1, <2>4, NotToldYet DEF TellingInv
    <3>2. Over(t)'
      BY <2>2, <2>4 DEF Over
    <3>3. CASE unlogged' = unlogged \cup {<<t, to>>} /\ UNCHANGED <<told, onAir>>
      BY <1>1, <2>1, <2>2, <2>3, <3>2, <3>3, OneEnds
    <3>4. CASE UNCHANGED unlogged /\ Tells(<< <<t, to>> >>)
      <4>1. \E n \in DOMAIN told' \ DOMAIN told :
                /\ n \in onAir' /\ told'[n] = <<t, task'[t].state>>
                /\ \A m \in DOMAIN told' \ DOMAIN told : m = n \/ told'[m][2] \notin Done
        BY <2>2, <2>3, <3>1, <3>4
      <4> QED
        BY <1>1, <2>1, <2>2, <2>3, <3>2, <3>4, <4>1, OneEnds
    <3> QED
      BY <2>1, <3>3, <3>4
  <2>5. CASE to \notin Done
    <3>1. \A u \in Tasks : Exists(u)' =>
             IF Exists(u) THEN task'[u].state = task[u].state \/ ~(Over(u) \/ Over(u)') ELSE ~Over(u)'
      BY <2>1, <2>2, <2>5 DEF Exists, Over
    <3>2. /\ \A n \in DOMAIN told' \ DOMAIN told : told'[n][2] \notin Done
          /\ unlogged \subseteq unlogged' /\ \A m \in unlogged' \ unlogged : m[2] \notin Done
      BY <2>1, <2>3, <2>5
    <3> QED
      BY <1>1, <2>1, <2>3, <3>1, <3>2, NothingEnds
  <2> QED
    BY <2>4, <2>5
<1>5. ASSUME NEW t \in Tasks, NEW k \in TaskRows, ~Exists(t), task' = [task EXCEPT ![t] = k],
             k.state = "SUBMITTED", Tells(<< <<t, "SUBMITTED">> >>), UNCHANGED <<unlogged, stream, crashed>>
      PROVE  TellingInv'
  <2>1. task'[t] = k /\ \A u \in Tasks \ {t} : task'[u] = task[u]
    BY <1>1, <1>5, NewRow
  <2>2. /\ LogKeeps /\ onAir \subseteq onAir'
        /\ \A n \in DOMAIN told' \ DOMAIN told : told'[n] = <<t, "SUBMITTED">>
    BY <1>2, <1>5, TellsOne
  <2>3. \A u \in Tasks : Exists(u)' =>
           IF Exists(u) THEN task'[u].state = task[u].state \/ ~(Over(u) \/ Over(u)') ELSE ~Over(u)'
    BY <1>2, <1>5, <2>1 DEF Exists, Over
  <2>4. \A n \in DOMAIN told' \ DOMAIN told : told'[n][2] \notin Done
    BY <1>2, <2>2
  <2> QED
    BY <1>1, <1>5, <2>2, <2>3, <2>4, NothingEnds
<1>6. ASSUME NEW t \in Tasks, NEW p \in People, NEW a \in Agents, Accept(t, p, a)
      PROVE  TellingInv'
  <2>1. NewTask(a, NoAgent, p, <<>>) \in TaskRows /\ NewTask(a, NoAgent, p, <<>>).state = "SUBMITTED"
    BY <1>2 DEF NewTask, TaskRows
  <2>2. /\ ~Exists(t) /\ task' = [task EXCEPT ![t] = NewTask(a, NoAgent, p, <<>>)]
        /\ Tells(<< <<t, "SUBMITTED">> >>) /\ UNCHANGED <<unlogged, stream, crashed>>
    BY <1>6 DEF Accept
  <2> QED
    BY <1>5, <2>1, <2>2
<1>7. ASSUME NEW k \in asks, NEW t \in Tasks, CommitAsk(k, t)
      PROVE  TellingInv'
  <2>1. k \in TaskRows /\ k.state = "SUBMITTED"
    BY <1>1 DEF TaskTypeOK, AsksAreSound
  <2>2. /\ ~Exists(t) /\ task' = [task EXCEPT ![t] = k]
        /\ Tells(<< <<t, "SUBMITTED">> >>) /\ UNCHANGED <<unlogged, stream, crashed>>
    BY <1>7 DEF CommitAsk
  <2> QED
    BY <1>5, <2>1, <2>2
<1>8. ASSUME UNCHANGED <<task, told, onAir, unlogged, stream, crashed>>
      PROVE  TellingInv'
  <2>1. LogKeeps /\ DOMAIN told' = DOMAIN told
    BY <1>8, SameLog
  <2> QED
    BY <1>1, <1>8, <2>1, NothingEnds DEF Exists, Over
<1>9. ASSUME NEW h \in handed, StartTask(h)
      PROVE  TellingInv'
  <2>1. h[1] \in Tasks /\ Exists(h[1]) /\ Len(run) + 1 \in Nat /\ UNCHANGED <<unlogged, stream, crashed>>
    BY <1>1, <1>9 DEF TaskInv, NamesAreKnown, TaskTypeOK, StartTask
  <2>2. CASE MayStart(h[1])
    <3>1. task' = Attached(h[1], Len(run) + 1) /\ Tells(<< <<h[1], "WORKING">> >>)
      BY <1>9, <2>2 DEF StartTask
    <3>2. /\ task'[h[1]].state = "WORKING" /\ \A u \in Tasks \ {h[1]} : task'[u] = task[u]
      BY <1>1, <2>1, <3>1, RestartedRow
    <3>3. /\ LogKeeps /\ onAir \subseteq onAir'
          /\ \A n \in DOMAIN told' \ DOMAIN told : told'[n] = <<h[1], "WORKING">>
      BY <1>2, <2>1, <3>1, TellsOne
    <3>4. ~Over(h[1])
      BY <2>2, Legal DEF MayStart, Over
    <3>5. \A u \in Tasks : Exists(u)' =>
             IF Exists(u) THEN task'[u].state = task[u].state \/ ~(Over(u) \/ Over(u)') ELSE ~Over(u)'
      BY <1>2, <2>1, <3>2, <3>4 DEF Exists, Over
    <3>6. \A n \in DOMAIN told' \ DOMAIN told : told'[n][2] \notin Done
      BY <1>2, <3>3
    <3> QED
      BY <1>1, <2>1, <3>3, <3>5, <3>6, NothingEnds
  <2>3. CASE ~MayStart(h[1])
    BY <1>8, <1>9, <2>1, <2>3 DEF StartTask
  <2> QED
    BY <2>2, <2>3
<1>10. ASSUME HeldStep \/ \E a, b \in Agents : Ask(a, b)
       PROVE  TellingInv'
  BY <1>8, <1>10 DEF HeldStep, Ask
<1> QED
  BY <1>3, <1>4, <1>6, <1>7, <1>9, <1>10, StepCases, LogMoveTells, CrashTells, OpenStreamTells,
     ListenTells, BroadcastTells, TakeTells

-----------------------------------------------------------------------------
(* The theorems.                                                               *)

TasksInv == TaskInv /\ ChainsInv /\ TaskEndsWithRun /\ TellingInv

\* The initial states satisfy the invariant, the stranded row of an older process too.
LEMMA TasksInvInit == TaskInit => TasksInv
<1> SUFFICES ASSUME TaskInit PROVE TasksInv
  OBVIOUS
<1>1. TaskInv
  BY TaskInitTyped
<1>2. asks = {} /\ unlogged = {} /\ told = <<>> /\ stream = [s \in Streams |-> Quiet]
  BY DEF TaskInit
<1>3. \A t \in Tasks : Exists(t) =>
         task[t].chain = <<>> /\ task[t].legacy /\ task[t].state = "WORKING"
  <2>1. CASE task = [t \in Tasks |-> NoTask]
    BY <2>1 DEF Exists
  <2>2. ASSUME NEW t \in Tasks, NEW a \in Agents, NEW p \in People,
               task = [u \in Tasks |-> IF u # t THEN NoTask ELSE
                   [NewTask(a, NoAgent, p, <<>>) EXCEPT !.state = "WORKING", !.run = 1, !.legacy = TRUE]]
        PROVE  <1>3
    BY <2>2 DEF Exists, NewTask
  <2> QED
    BY <2>1, <2>2 DEF TaskInit
<1>4. ChainsInv
  <2>1. ASSUME NEW t \in Tasks, Exists(t) PROVE HandedOn(task[t])
    <3>1. task[t].chain = <<>>
      BY <1>3, <2>1
    <3>2. Append(<<>>, task[t].agent) = <<task[t].agent>> /\ Len(<<>>) = 0
      OBVIOUS
    <3>3. \A i, j \in DOMAIN <<task[t].agent>> : i = j
      OBVIOUS
    <3> QED
      BY <3>1, <3>2, <3>3, TasksAssumption DEF HandedOn
  <2> QED
    BY <1>2, <2>1 DEF ChainsInv, AsksAreSound
<1>5. TaskEndsWithRun
  BY <1>3 DEF TaskEndsWithRun
<1>6. TellingInv
  <2>1. \A t \in Tasks : Endings(t) = {}
    BY <1>2 DEF Endings
  <2>2. \A t \in Tasks : Exists(t) => ~Over(t)
    BY <1>3, Legal DEF Over
  <2>3. \A s \in Streams : stream[s].at = "off"
    BY <1>2, QuietRow
  <2> QED
    BY <1>2, <2>1, <2>2, <2>3 DEF TellingInv, EndsAreTold, StreamsHearEnds
<1> QED
  BY <1>1, <1>4, <1>5, <1>6 DEF TasksInv

\* The invariant is inductive.
LEMMA TasksInvNext == TasksInv /\ [TaskNext]_taskVars => TasksInv'
<1> SUFFICES ASSUME TasksInv, [TaskNext]_taskVars PROVE TasksInv'
  OBVIOUS
<1>1. TaskInv /\ ChainsInv /\ TaskEndsWithRun /\ TellingInv /\ AsksAreSound
  BY DEF TasksInv, ChainsInv
<1>2. TaskInv' /\ ChainsInv' /\ TaskEndsWithRun' /\ TellingInv'
  BY <1>1, TaskInvStep, ChainsStep, EndsWithRunStep, TellingStep
<1> QED
  BY <1>2 DEF TasksInv

\* Every behaviour of the service keeps the invariant.
THEOREM TasksSafe == TaskSpec => []TasksInv
BY TasksInvInit, TasksInvNext, PTL DEF TaskSpec

\* Type correctness of rows, runs, memory, log and streams.
THEOREM TasksTyped == TaskSpec => [](TaskTypeOK /\ NamesAreKnown)
<1>1. TasksInv => TaskTypeOK /\ NamesAreKnown
  BY DEF TasksInv, TaskInv
<1> QED
  BY <1>1, TasksSafe, PTL

\* Whatever ends a run ends the task it serves, in the same transaction, and a
\* cancelled task leaves no open run (settle_for_execution_in_transaction).
THEOREM TasksEndWithRuns == TaskSpec => []TaskEndsWithRun
<1>1. TasksInv => TaskEndsWithRun
  BY DEF TasksInv
<1> QED
  BY <1>1, TasksSafe, PTL

\* Delegation never makes a cycle and never passes MAX_DELEGATION_DEPTH, however
\* many asks are in flight between require_delegable and their commit.
THEOREM ChainsStaySound == TaskSpec => []ChainsAreSound
<1>1. TasksInv => ChainsAreSound
  BY ChainsInvIsSound DEF TasksInv
<1> QED
  BY <1>1, TasksSafe, PTL

\* The room is told how a task ended once and as it ended; a listening stream that
\* was not behind when it subscribed has the end, or the resync marker, coming.
THEOREM EndsToldOnce == TaskSpec => []EndIsToldOnce
<1>1. TasksInv => EndIsToldOnce
  <2> SUFFICES ASSUME TasksInv PROVE EndIsToldOnce
    OBVIOUS
  <2>1. EndsAreTold /\ StreamsHearEnds
    BY DEF TasksInv, TellingInv
  <2>2. ASSUME NEW t \in Tasks PROVE Cardinality(Endings(t)) <= 1
    <3>1. CASE Endings(t) = {}
      BY <3>1, FS_EmptySet
    <3>2. CASE Endings(t) # {}
      <4>1. PICK n : Endings(t) = {n}
        BY <2>1, <3>2 DEF EndsAreTold
      <4>2. Cardinality({n}) = 1
        BY FS_Singleton
      <4> QED
        BY <4>1, <4>2
    <3> QED
      BY <3>1, <3>2
  <2> QED
    BY <2>1, <2>2 DEF EndIsToldOnce, EndsAreTold, StreamsHearEnds
<1> QED
  BY <1>1, TasksSafe, PTL

\* A run that a restart superseded ends nobody's task.
THEOREM OnlyOwnRuns == TaskSpec => OnlyItsOwnRunEndsIt
<1>1. TasksInv /\ [TaskNext]_taskVars =>
        [\A t \in Tasks :
            Exists(t) /\ ~Over(t) /\ task'[t].state \in Done /\ run' # run /\ task[t].run # 0 =>
                run'[task[t].run].settled]_taskVars
  <2> SUFFICES ASSUME TasksInv, [TaskNext]_taskVars
               PROVE  \A t \in Tasks :
                         Exists(t) /\ ~Over(t) /\ task'[t].state \in Done /\ run' # run /\ task[t].run # 0 =>
                             run'[task[t].run].settled
    OBVIOUS
  <2>1. TaskInv /\ ChainsInv
    BY DEF TasksInv
  <2> QED
    BY <2>1, OwnRunStep
<1> QED
  BY <1>1, TasksSafe, PTL DEF TaskSpec, OnlyItsOwnRunEndsIt

-----------------------------------------------------------------------------
(***************************************************************************)
(* What branches and syntheses promise, for any number of them, of workers *)
(* and of documents: the turn is locked exactly while a turn-locked branch  *)
(* runs, a synthesis has one outcome and publishes at most one version, and *)
(* the versions of a document stay one line.  The two halves share no       *)
(* state that matters: BranchesInv is about branches, SynthesesInv about    *)
(* syntheses, and SynTypeOK is their types.                                 *)
(***************************************************************************)

WorkRows ==
    [at : {"idle", "outputs read", "selections read", "gated", "calling", "answered", "lined up",
           "published", "failing"},
     branch : Branches \cup {None}, key : Keys \cup {None}, syn : Syntheses \cup {None},
     inputs : SUBSET {1, 2}, art : Artifacts \cup {None}, number : Nat, creates : BOOLEAN]
VersionRows == [of : Artifacts, number : Nat, by : Syntheses \cup {None, "earlier"}]

Gating == {"outputs read", "selections read", "gated"}

\* The types of the rows, and of the requests in progress.
SynTypeOK ==
    /\ branch \in [Branches -> BranchRows \cup {None}]
    /\ lock \in Branches \cup {None}
    /\ picked \in [Branches -> [{1, 2} -> {"none", "INCLUDED", "EXCLUDED"}]]
    /\ synthesis \in [Syntheses -> SynthesisRows \cup {None}]
    /\ outcomes \in [Syntheses -> Nat]
    /\ key \in [Keys -> Branches \cup Syntheses \cup {None}]
    /\ artifact \in [Artifacts -> ArtifactRows \cup {None}]
    /\ versions \subseteq VersionRows
    /\ work \in [Workers -> WorkRows]

\* A request that called the provider has its row, and one that lined up a document.
WorkIsKnown ==
    \A w \in Workers :
        /\ work[w].at \in Gating => work[w].branch \in Branches
        /\ work[w].at \in {"calling", "answered", "lined up", "published", "failing"} =>
              work[w].syn \in Syntheses /\ synthesis[work[w].syn] # None
        /\ work[w].at = "lined up" => work[w].art \in Artifacts

\* The status of a branch is the one its runs give it.
StatusIsTheirs ==
    \A b \in Branches : branch[b] # None => branch[b].status = StatusFrom(branch[b].runs)

\* The row of a key that a synthesis claimed refers to that synthesis.
KeysAreTheirs ==
    \A s \in Syntheses : synthesis[s] # None /\ synthesis[s].key # None => key[synthesis[s].key] = s

\* A synthesis is heard of once it has ended, and published if it completed.
ByIt(s) == { v \in versions : v.by = s }
StatusOf(s) == IF synthesis[s] = None THEN "RUNNING" ELSE synthesis[s].status
HeardOnce ==
    \A s \in Syntheses :
        /\ outcomes[s] = IF StatusOf(s) = "RUNNING" THEN 0 ELSE 1
        /\ IF StatusOf(s) = "COMPLETED" THEN \E v \in versions : ByIt(s) = {v} ELSE ByIt(s) = {}

\* A lineage is whole, and a request that means to extend one is not past its end.
Own(a) == { v \in versions : v.of = a }
WholeLine(a) ==
    /\ { v.number : v \in Own(a) } = 1 .. artifact[a].current
    /\ IsFiniteSet(Own(a)) /\ Cardinality(Own(a)) = artifact[a].current
    /\ \A v \in Own(a) : artifact[a].byHand <=> v.by = None
Whole == \A a \in Artifacts : IF artifact[a] = None THEN Own(a) = {} ELSE WholeLine(a)
LinedUp ==
    \A w \in Workers : work[w].at = "lined up" =>
        IF work[w].creates
        THEN /\ work[w].number = 1 /\ artifact[work[w].art] = None
             /\ \A v \in Workers : work[v].at = "lined up" /\ work[v].art = work[w].art => v = w
        ELSE /\ artifact[work[w].art] # None /\ ~artifact[work[w].art].byHand
             /\ work[w].number \in 1 .. artifact[work[w].art].current + 1

SynthesesInv == WorkIsKnown /\ KeysAreTheirs /\ HeardOnce /\ Whole /\ LinedUp
BranchesInv == StatusIsTheirs /\ LockedExactlyWhileItRuns
SynInv == SynTypeOK /\ SynthesesInv /\ BranchesInv

-----------------------------------------------------------------------------
(* Branches and the turn.                                                      *)

Branchy == UNCHANGED <<synthesis, outcomes, artifact, versions, work>>

\* What syntheses rely on survives the steps of branches: a key that was free may be taken.
LEMMA BranchesKeepSyntheses ==
    ASSUME SynTypeOK, SynthesesInv, Branchy,
           \A k \in Keys : key'[k] = key[k] \/ key[k] = None
    PROVE  SynthesesInv'
<1>1. WorkIsKnown' /\ LinedUp'
  BY DEF SynthesesInv, WorkIsKnown, LinedUp, Branchy
<1>2. Whole'
  BY DEF SynthesesInv, Whole, WholeLine, Own, Branchy
<1>3. HeardOnce'
  BY DEF SynthesesInv, HeardOnce, StatusOf, ByIt, Branchy
<1>4. KeysAreTheirs'
  <2> SUFFICES ASSUME NEW s \in Syntheses, synthesis[s] # None, synthesis[s].key # None
               PROVE  key'[synthesis[s].key] = s
    BY DEF KeysAreTheirs, Branchy
  <2>1. synthesis[s].key \in Keys
    BY DEF SynTypeOK, SynthesisRows
  <2>2. key[synthesis[s].key] = s
    BY DEF SynthesesInv, KeysAreTheirs
  <2> QED
    BY <2>1, <2>2, NoneAssumption
<1> QED
  BY <1>1, <1>2, <1>3, <1>4 DEF SynthesesInv

\* A key is recorded once, or there is none to record.
LEMMA KeyRecorded ==
    ASSUME SynTypeOK, NEW k \in Keys \cup {None}, k # None => key[k] = None,
           NEW result \in Branches \cup Syntheses, RecordKey(k, result)
    PROVE  /\ key' \in [Keys -> Branches \cup Syntheses \cup {None}]
           /\ \A j \in Keys : key'[j] = key[j] \/ key[j] = None
           /\ k # None => key'[k] = result
BY NoneAssumption DEF SynTypeOK, RecordKey

\* start_branch: the new branch runs, and holds the turn if it is turn-locked.
LEMMA BranchStarts ==
    ASSUME SynInv, NEW b \in Branches, NEW mode \in {"PARALLEL", "TURN_LOCKED_SINGLE"},
           NEW k \in Keys \cup {None}, StartBranch(b, mode, k)
    PROVE  SynInv'
<1>1. SynTypeOK /\ SynthesesInv /\ StatusIsTheirs /\ LockedExactlyWhileItRuns
  BY DEF SynInv, BranchesInv
<1>2. /\ branch[b] = None /\ lock = None /\ branch' = [branch EXCEPT ![b] = NewBranch(mode)]
      /\ lock' = IF mode = "TURN_LOCKED_SINGLE" THEN b ELSE lock
      /\ UNCHANGED <<talked, picked>> /\ Branchy
  BY DEF StartBranch, TakesTurn, Branchy
<1>3. /\ key' \in [Keys -> Branches \cup Syntheses \cup {None}]
      /\ \A j \in Keys : key'[j] = key[j] \/ key[j] = None
  BY <1>1, KeyRecorded DEF StartBranch
<1>4. /\ NewBranch(mode) \in BranchRows /\ NewBranch(mode).mode = mode
      /\ NewBranch(mode).status = "RUNNING"
  <2>1. [r \in RunsOf(mode) |-> "PENDING"] \in [RunsOf(mode) -> {"PENDING"} \cup Ended]
    OBVIOUS
  <2>2. [r \in RunsOf(mode) |-> "PENDING"] \in
           [RunsOf("PARALLEL") -> {"PENDING"} \cup Ended] \cup [RunsOf("TURN_LOCKED_SINGLE") -> {"PENDING"} \cup Ended]
    BY <2>1
  <2>3. PICK f : f = [r \in RunsOf(mode) |-> "PENDING"]
    OBVIOUS
  <2>4. NewBranch(mode) = [mode |-> mode, status |-> "RUNNING", runs |-> f]
    BY <2>3 DEF NewBranch
  <2>5. f \in [RunsOf("PARALLEL") -> {"PENDING"} \cup Ended] \cup
               [RunsOf("TURN_LOCKED_SINGLE") -> {"PENDING"} \cup Ended]
    BY <2>2, <2>3
  <2>6. [mode |-> mode, status |-> "RUNNING", runs |-> f] \in BranchRows
    BY <2>5 DEF BranchRows
  <2> QED
    BY <2>4, <2>6
<1>5. StatusFrom(NewBranch(mode).runs) = "RUNNING"
  <2>1. PICK runs : runs = NewBranch(mode).runs
    OBVIOUS
  <2>2. 1 \in DOMAIN runs /\ runs[1] = "PENDING"
    BY <2>1 DEF NewBranch, RunsOf
  <2>3. ~({ runs[r] : r \in DOMAIN runs } \subseteq Ended)
    BY <2>2 DEF Ended
  <2> QED
    BY <2>1, <2>3 DEF StatusFrom
<1> HIDE DEF NewBranch
<1>6. branch'[b] = NewBranch(mode) /\ \A c \in Branches \ {b} : branch'[c] = branch[c]
  BY <1>1, <1>2 DEF SynTypeOK
<1>7. SynTypeOK'
  <2>1. branch' \in [Branches -> BranchRows \cup {None}] /\ lock' \in Branches \cup {None}
    BY <1>1, <1>2, <1>4 DEF SynTypeOK
  <2> QED
    BY <1>1, <1>2, <1>3, <2>1 DEF SynTypeOK, Branchy
<1>8. SynthesesInv'
  BY <1>1, <1>2, <1>3, BranchesKeepSyntheses
<1>9. StatusIsTheirs'
  BY <1>1, <1>4, <1>5, <1>6 DEF StatusIsTheirs
<1>10. LockedExactlyWhileItRuns'
  <2>1. talked' = None /\ \A c \in Branches : ~(branch[c] # None
           /\ branch[c].mode = "TURN_LOCKED_SINGLE" /\ branch[c].status = "RUNNING")
    BY <1>1, <1>2, NoneAssumption DEF LockedExactlyWhileItRuns
  <2>2. branch'[b] # None
    BY <1>4, <1>6, NoneAssumption
  <2> QED
    BY <1>2, <1>4, <1>6, <2>1, <2>2, NoneAssumption DEF LockedExactlyWhileItRuns
<1> QED
  BY <1>7, <1>8, <1>9, <1>10 DEF SynInv, BranchesInv

\* The status that the runs of a branch give it.
LEMMA StatusTyped ==
    ASSUME NEW runs \in UNION { [RunsOf(mode) -> {"PENDING"} \cup Ended] : mode \in {"PARALLEL", "TURN_LOCKED_SINGLE"} }
    PROVE  /\ StatusFrom(runs) \in {"RUNNING", "PARTIAL"} \cup Ended
           /\ (\E r \in DOMAIN runs : runs[r] \notin Ended) => StatusFrom(runs) = "RUNNING"
<1> DEFINE statuses == { runs[r] : r \in DOMAIN runs }
<1>1. 1 \in DOMAIN runs
  <2>1. PICK mode \in {"PARALLEL", "TURN_LOCKED_SINGLE"} : runs \in [RunsOf(mode) -> {"PENDING"} \cup Ended]
    OBVIOUS
  <2> QED
    BY <2>1 DEF RunsOf
<1>2. statuses # {}
  BY <1>1
<1>3. CASE ~(statuses \subseteq Ended)
  BY <1>3 DEF StatusFrom
<1>4. CASE statuses \subseteq Ended
  <2>1. (CHOOSE s \in statuses : TRUE) \in statuses
    BY <1>2
  <2>2. StatusFrom(runs) = "PARTIAL" \/ StatusFrom(runs) = CHOOSE s \in statuses : TRUE
    BY <1>4 DEF StatusFrom
  <2> QED
    BY <1>4, <2>1, <2>2
<1> QED
  BY <1>3, <1>4

\* _finish_managed_branch_if_terminal: the run that ends a branch gives the turn back.
LEMMA BranchRunEnds ==
    ASSUME SynInv, NEW b \in Branches, NEW r \in {1, 2}, NEW how \in Ended, EndBranchRun(b, r, how)
    PROVE  SynInv'
<1>1. SynTypeOK /\ SynthesesInv /\ StatusIsTheirs /\ LockedExactlyWhileItRuns
  BY DEF SynInv, BranchesInv
<1> DEFINE runs == [branch[b].runs EXCEPT ![r] = how]
           row == [[branch[b] EXCEPT !.runs = runs] EXCEPT !.status = StatusFrom(runs)]
<1>2. /\ branch[b] # None /\ r \in DOMAIN branch[b].runs /\ branch[b].runs[r] \notin Ended
      /\ branch' = [branch EXCEPT ![b] = row] /\ lock' = LockAfter(b, StatusFrom(runs))
      /\ UNCHANGED <<talked, picked, key>> /\ Branchy
  BY DEF EndBranchRun, Branchy
<1>3. branch[b] \in BranchRows
  BY <1>1, <1>2 DEF SynTypeOK
<1> DEFINE Runs == UNION { [RunsOf(mode) -> {"PENDING"} \cup Ended] : mode \in {"PARALLEL", "TURN_LOCKED_SINGLE"} }
<1>4. branch[b].runs \in Runs
  BY <1>3 DEF BranchRows
<1>5. runs \in Runs
  <2>1. PICK mode \in {"PARALLEL", "TURN_LOCKED_SINGLE"} :
           branch[b].runs \in [RunsOf(mode) -> {"PENDING"} \cup Ended]
    BY <1>4
  <2>2. runs \in [RunsOf(mode) -> {"PENDING"} \cup Ended]
    BY <2>1
  <2> QED
    BY <2>2
<1>6. branch[b].status = "RUNNING"
  BY <1>1, <1>2, <1>4, StatusTyped DEF StatusIsTheirs
<1>7. StatusFrom(runs) \in {"RUNNING", "PARTIAL"} \cup Ended
  BY <1>5, StatusTyped
<1> HIDE DEF runs
<1>8. row \in BranchRows /\ row.mode = branch[b].mode /\ row.status = StatusFrom(runs) /\ row.runs = runs
  BY <1>3, <1>5, <1>7 DEF BranchRows
<1> HIDE DEF row
<1>9. branch'[b] = row /\ \A c \in Branches \ {b} : branch'[c] = branch[c]
  BY <1>1, <1>2 DEF SynTypeOK
<1>10. SynTypeOK'
  <2>1. branch' \in [Branches -> BranchRows \cup {None}] /\ lock' \in Branches \cup {None}
    BY <1>1, <1>2, <1>8 DEF SynTypeOK, LockAfter
  <2> QED
    BY <1>1, <1>2, <2>1 DEF SynTypeOK, Branchy
<1>11. SynthesesInv'
  BY <1>1, <1>2, BranchesKeepSyntheses
<1>12. StatusIsTheirs'
  BY <1>1, <1>8, <1>9 DEF StatusIsTheirs
<1>13. LockedExactlyWhileItRuns'
  <2>1. talked' = None /\ branch'[b] # None
    BY <1>1, <1>2, <1>8, <1>9, NoneAssumption DEF LockedExactlyWhileItRuns
  <2>2. \A c \in Branches : lock = c <=> branch[c] # None /\ branch[c].mode = "TURN_LOCKED_SINGLE"
                                                     /\ branch[c].status = "RUNNING"
    BY <1>1 DEF LockedExactlyWhileItRuns
  <2>3. lock' = b <=> branch'[b].mode = "TURN_LOCKED_SINGLE" /\ branch'[b].status = "RUNNING"
    BY <1>2, <1>6, <1>8, <1>9, <2>2, NoneAssumption DEF LockAfter
  <2>4. \A c \in Branches \ {b} : lock' = c <=> lock = c
    BY <1>2, NoneAssumption DEF LockAfter
  <2> QED
    BY <1>9, <2>1, <2>2, <2>3, <2>4 DEF LockedExactlyWhileItRuns
<1> QED
  BY <1>10, <1>11, <1>12, <1>13 DEF SynInv, BranchesInv

\* select_output, and a person's message, which the turn guard lets through.
LEMMA BranchesTalk ==
    ASSUME SynInv,
           \/ SendHumanMessage
           \/ \E b \in Branches, r \in {1, 2}, d \in {"INCLUDED", "EXCLUDED"} : SelectOutput(b, r, d)
    PROVE  SynInv'
<1>1. SynTypeOK /\ SynthesesInv /\ StatusIsTheirs /\ LockedExactlyWhileItRuns
  BY DEF SynInv, BranchesInv
<1>2. /\ UNCHANGED <<branch, lock, key>> /\ Branchy /\ talked' \in {talked, None}
      /\ picked' \in [Branches -> [{1, 2} -> {"none", "INCLUDED", "EXCLUDED"}]]
  <2>1. CASE SendHumanMessage
    BY <1>1, <2>1 DEF SendHumanMessage, TurnGuard, Branchy, SynTypeOK
  <2>2. ASSUME NEW b \in Branches, NEW r \in {1, 2}, NEW d \in {"INCLUDED", "EXCLUDED"}, SelectOutput(b, r, d)
        PROVE  <1>2
    BY <1>1, <2>2 DEF SelectOutput, Disposes, Branchy, SynTypeOK
  <2> QED
    BY <2>1, <2>2
<1>3. SynTypeOK'
  BY <1>1, <1>2 DEF SynTypeOK, Branchy
<1>4. SynthesesInv'
  BY <1>1, <1>2, BranchesKeepSyntheses
<1>5. StatusIsTheirs' /\ LockedExactlyWhileItRuns'
  BY <1>1, <1>2 DEF StatusIsTheirs, LockedExactlyWhileItRuns
<1> QED
  BY <1>3, <1>4, <1>5 DEF SynInv, BranchesInv

-----------------------------------------------------------------------------
(* Requests.                                                                   *)

\* Neither branches nor the turn move when a synthesis does.
LEMMA SynOnlyKeepsBranches ==
    ASSUME SynOnly, BranchesInv
    PROVE  BranchesInv'
BY DEF SynOnly, BranchesInv, StatusIsTheirs, LockedExactlyWhileItRuns

\* A request that only moves itself: to a row that is known, and lined up only behind
\* a document it may still extend.
LEMMA OnlyWork ==
    ASSUME SynInv, SynOnly, UNCHANGED <<synthesis, outcomes, key, artifact, versions>>,
           NEW w \in Workers, NEW row \in WorkRows, work' = [work EXCEPT ![w] = row],
           row.at \in Gating => row.branch \in Branches,
           row.at \in {"calling", "answered", "lined up", "published", "failing"} =>
               row.syn \in Syntheses /\ synthesis[row.syn] # None,
           row.at = "lined up" =>
               /\ row.art \in Artifacts
               /\ IF row.creates
                  THEN /\ row.number = 1 /\ artifact[row.art] = None
                       /\ \A v \in Workers : work[v].art # row.art
                  ELSE /\ artifact[row.art] # None /\ ~artifact[row.art].byHand
                       /\ row.number \in 1 .. artifact[row.art].current + 1
    PROVE  SynInv'
<1>1. SynTypeOK /\ WorkIsKnown /\ KeysAreTheirs /\ HeardOnce /\ Whole /\ LinedUp /\ BranchesInv
  BY DEF SynInv, SynthesesInv
<1>2. work' \in [Workers -> WorkRows] /\ work'[w] = row /\ \A v \in Workers \ {w} : work'[v] = work[v]
  BY <1>1 DEF SynTypeOK
<1>3. SynTypeOK'
  BY <1>1, <1>2 DEF SynTypeOK, SynOnly
<1>4. WorkIsKnown'
  BY <1>1, <1>2 DEF WorkIsKnown
<1>5. KeysAreTheirs'
  BY <1>1 DEF KeysAreTheirs
<1>6. HeardOnce'
  BY <1>1 DEF HeardOnce, StatusOf, ByIt
<1>7. Whole'
  BY <1>1 DEF Whole, WholeLine, Own
<1>8. LinedUp'
  <2> SUFFICES ASSUME NEW u \in Workers, work'[u].at = "lined up"
               PROVE  IF work'[u].creates
                      THEN /\ work'[u].number = 1 /\ artifact[work'[u].art] = None
                           /\ \A v \in Workers : work'[v].at = "lined up" /\ work'[v].art = work'[u].art => v = u
                      ELSE /\ artifact[work'[u].art] # None /\ ~artifact[work'[u].art].byHand
                           /\ work'[u].number \in 1 .. artifact[work'[u].art].current + 1
    BY DEF LinedUp
  <2>1. CASE u = w
    BY <1>2, <2>1
  <2>2. CASE u # w
    <3>1. work'[u] = work[u]
      BY <1>2, <2>2
    <3>2. IF work[u].creates
          THEN /\ work[u].number = 1 /\ artifact[work[u].art] = None
               /\ \A v \in Workers : work[v].at = "lined up" /\ work[v].art = work[u].art => v = u
          ELSE /\ artifact[work[u].art] # None /\ ~artifact[work[u].art].byHand
               /\ work[u].number \in 1 .. artifact[work[u].art].current + 1
      BY <1>1, <3>1 DEF LinedUp
    <3>3. ASSUME work[u].creates, row.at = "lined up", row.art = work[u].art PROVE FALSE
      BY <3>2, <3>3
    <3> QED
      BY <1>2, <3>1, <3>2, <3>3
  <2> QED
    BY <2>1, <2>2
<1> QED
  BY <1>1, <1>3, <1>4, <1>5, <1>6, <1>7, <1>8, SynOnlyKeepsBranches DEF SynInv, SynthesesInv

\* A request that is given up.
LEMMA IdleRow == IdleWork \in WorkRows /\ IdleWork.at = "idle"
BY DEF IdleWork, WorkRows

\* What a worker's row is, when only where it is changes.
LEMMA GoesTo ==
    ASSUME SynTypeOK, NEW w \in Workers,
           NEW at \in {"calling", "answered", "lined up", "published", "failing"}, Goes(w, at)
    PROVE  \E row \in WorkRows :
              /\ work' = [work EXCEPT ![w] = row] /\ row.at = at /\ row.syn = work[w].syn
              /\ row.art = work[w].art /\ row.key = work[w].key
<1>1. work[w] \in WorkRows
  BY DEF SynTypeOK
<1>2. PICK old \in WorkRows : old = work[w]
  BY <1>1
<1>3. PICK row : row = [old EXCEPT !.at = at]
  OBVIOUS
<1>4. row \in WorkRows /\ row.at = at /\ row.syn = old.syn /\ row.art = old.art /\ row.key = old.key
  BY <1>2, <1>3 DEF WorkRows
<1>5. work' = [work EXCEPT ![w] = [work[w] EXCEPT !.at = at]]
  BY DEF Goes
<1>6. work' = [work EXCEPT ![w] = row]
  BY <1>2, <1>3, <1>5
<1> QED
  BY <1>2, <1>4, <1>6

\* The outputs of a branch are of its two runs at most.
LEMMA OutputsTyped ==
    ASSUME SynTypeOK, NEW b \in Branches, branch[b] # None
    PROVE  Outputs(b) \in SUBSET {1, 2}
<1>1. branch[b] \in BranchRows
  BY DEF SynTypeOK
<1>2. PICK mode \in {"PARALLEL", "TURN_LOCKED_SINGLE"} :
         branch[b].runs \in [RunsOf(mode) -> {"PENDING"} \cup Ended]
  BY <1>1 DEF BranchRows
<1>3. DOMAIN branch[b].runs \subseteq {1, 2}
  BY <1>2 DEF RunsOf
<1> QED
  BY <1>3 DEF Outputs

\* synthesize_branch reads the outputs of its branch.
LEMMA OutputsRead ==
    ASSUME SynInv, NEW w \in Workers, NEW b \in Branches, NEW k \in Keys \cup {None}, ReadOutputs(w, b, k)
    PROVE  SynInv'
<1>1. SynTypeOK
  BY DEF SynInv
<1> DEFINE row == [IdleWork EXCEPT !.at = "outputs read", !.branch = b, !.key = k, !.inputs = Outputs(b)]
<1>2. /\ SynOnly /\ UNCHANGED <<synthesis, outcomes, key, artifact, versions>> /\ branch[b] # None
  BY DEF ReadOutputs
<1>3. work' = [work EXCEPT ![w] = row]
  BY DEF ReadOutputs
<1>4. PICK inputs \in SUBSET {1, 2} : inputs = Outputs(b)
  BY <1>1, <1>2, OutputsTyped
<1>5. row \in WorkRows /\ row.at = "outputs read" /\ row.branch = b
  <2>1. PICK idle \in WorkRows : idle = IdleWork
    BY IdleRow
  <2>2. row = [idle EXCEPT !.at = "outputs read", !.branch = b, !.key = k, !.inputs = inputs]
    BY <1>4, <2>1
  <2>3. PICK new : new = [idle EXCEPT !.at = "outputs read", !.branch = b, !.key = k, !.inputs = inputs]
    OBVIOUS
  <2>4. new \in WorkRows /\ new.at = "outputs read" /\ new.branch = b
    BY <2>1, <2>3 DEF WorkRows
  <2> QED
    BY <2>2, <2>3, <2>4
<1> HIDE DEF row
<1> QED
  BY <1>2, <1>3, <1>5, OnlyWork

\* It passes the next of its gates, or is given up there.
LEMMA GatePassed ==
    ASSUME SynInv, NEW w \in Workers, work[w].at \in Gating, NEW at \in Gating, NEW inputs \in SUBSET {1, 2},
           SynOnly, UNCHANGED <<synthesis, outcomes, key, artifact, versions>>,
           \/ work' = [work EXCEPT ![w] = IdleWork]
           \/ work' = [work EXCEPT ![w] = [[work[w] EXCEPT !.at = at] EXCEPT !.inputs = inputs]]
           \/ work' = [work EXCEPT ![w] = [work[w] EXCEPT !.at = at]]
    PROVE  SynInv'
<1>1. SynTypeOK /\ work[w].branch \in Branches
  BY DEF SynInv, SynthesesInv, WorkIsKnown
<1>2. PICK old \in WorkRows : old = work[w]
  BY <1>1 DEF SynTypeOK
<1>3. PICK moved : moved = [old EXCEPT !.at = at]
  OBVIOUS
<1>4. moved \in WorkRows /\ moved.at = at /\ moved.branch = old.branch
  BY <1>2, <1>3 DEF WorkRows, Gating
<1>5. PICK row : row = [moved EXCEPT !.inputs = inputs]
  OBVIOUS
<1>6. row \in WorkRows /\ row.at = at /\ row.branch = old.branch
  BY <1>4, <1>5 DEF WorkRows
<1>7. at \notin {"calling", "answered", "lined up", "published", "failing"}
  BY DEF Gating
<1>8. CASE work' = [work EXCEPT ![w] = IdleWork]
  <2>1. IdleWork.at \notin Gating \cup {"calling", "answered", "lined up", "published", "failing"}
    BY IdleRow DEF Gating
  <2> QED
    BY <1>8, <2>1, IdleRow, OnlyWork
<1>9. CASE work' = [work EXCEPT ![w] = row]
  BY <1>1, <1>2, <1>6, <1>7, <1>9, OnlyWork
<1>10. CASE work' = [work EXCEPT ![w] = moved]
  BY <1>1, <1>2, <1>4, <1>7, <1>10, OnlyWork
<1> QED
  BY <1>2, <1>3, <1>5, <1>8, <1>9, <1>10

\* The selections and the runs, read at the gates.
LEMMA GatesRead ==
    ASSUME SynInv, NEW w \in Workers, ReadSelections(w) \/ ReadRuns(w)
    PROVE  SynInv'
<1>1. work[w] \in WorkRows
  BY DEF SynInv, SynTypeOK
<1>2. work[w].inputs \in SUBSET {1, 2}
  BY <1>1 DEF WorkRows
<1>3. CASE ReadSelections(w)
  <2>1. PICK included \in SUBSET {1, 2} : included = Included(work[w].branch, work[w].inputs)
    BY <1>2 DEF Included
  <2>2. /\ work[w].at = "outputs read" /\ SynOnly /\ UNCHANGED <<synthesis, outcomes, key, artifact, versions>>
        /\ \/ work' = [work EXCEPT ![w] = IdleWork]
           \/ work' = [work EXCEPT ![w] =
                 [[work[w] EXCEPT !.at = "selections read"] EXCEPT !.inputs = included]]
    BY <1>3, <2>1 DEF ReadSelections, Work
  <2>3. "outputs read" \in Gating /\ "selections read" \in Gating
    BY DEF Gating
  <2> QED
    BY <2>2, <2>3, GatePassed
<1>4. CASE ReadRuns(w)
  <2>1. /\ work[w].at = "selections read" /\ SynOnly /\ UNCHANGED <<synthesis, outcomes, key, artifact, versions>>
        /\ \/ work' = [work EXCEPT ![w] = IdleWork]
           \/ work' = [work EXCEPT ![w] = [work[w] EXCEPT !.at = "gated"]]
    BY <1>4 DEF ReadRuns, Work
  <2>2. "gated" \in Gating /\ "selections read" \in Gating
    BY DEF Gating
  <2> QED
    BY <1>2, <2>1, <2>2, GatePassed
<1> QED
  BY <1>3, <1>4

\* A request that moves on with its synthesis, or is given up.
LEMMA RequestMoves ==
    ASSUME SynInv, NEW w \in Workers,
           SynOnly, UNCHANGED <<synthesis, outcomes, key, artifact, versions>>,
           \/ work' = [work EXCEPT ![w] = IdleWork]
           \/ /\ work[w].at \in {"calling", "answered", "lined up", "published", "failing"}
              /\ \E at \in {"answered", "failing"} : Goes(w, at)
    PROVE  SynInv'
<1>1. SynTypeOK /\ WorkIsKnown
  BY DEF SynInv, SynthesesInv
<1>2. CASE work' = [work EXCEPT ![w] = IdleWork]
  BY <1>2, IdleRow, OnlyWork DEF Gating
<1>3. ASSUME work[w].at \in {"calling", "answered", "lined up", "published", "failing"},
             NEW at \in {"answered", "failing"}, Goes(w, at)
      PROVE  SynInv'
  <2> SUFFICES ASSUME NEW row \in WorkRows, work' = [work EXCEPT ![w] = row], row.at = at,
                      row.syn = work[w].syn
               PROVE  SynInv'
    <3>1. \E row \in WorkRows :
              /\ work' = [work EXCEPT ![w] = row] /\ row.at = at /\ row.syn = work[w].syn
              /\ row.art = work[w].art /\ row.key = work[w].key
      <4>1. at \in {"calling", "answered", "lined up", "published", "failing"}
        OBVIOUS
      <4> QED
        BY <1>1, <1>3, <4>1, GoesTo
    <3> QED
      BY <3>1
  <2>2. work[w].syn \in Syntheses /\ synthesis[work[w].syn] # None
    BY <1>1, <1>3 DEF WorkIsKnown
  <2> QED
    BY <2>2, OnlyWork DEF Gating
<1> QED
  BY <1>2, <1>3

\* _complete_branch_synthesis lines its document up: an old one, or one of a new name.
LEMMA LineageRead ==
    ASSUME SynInv, NEW w \in Workers, NEW a \in Artifacts, ReadLineage(w, a)
    PROVE  SynInv'
<1>1. SynTypeOK /\ WorkIsKnown /\ work[w] \in WorkRows
  BY DEF SynInv, SynthesesInv, SynTypeOK
<1> DEFINE published == { x \in Artifacts : artifact[x] # None /\ ~artifact[x].byHand }
           creates == published = {}
           number == IF creates THEN 1 ELSE artifact[a].current + 1
           row == [[[[work[w] EXCEPT !.at = "lined up"] EXCEPT !.art = a] EXCEPT !.creates = creates]
                      EXCEPT !.number = number]
<1>2. /\ SynOnly /\ UNCHANGED <<synthesis, outcomes, key, artifact, versions>>
      /\ work[w].at = "answered" /\ work' = [work EXCEPT ![w] = row]
      /\ IF creates THEN artifact[a] = None /\ \A v \in Workers : work[v].art # a ELSE a \in published
  BY DEF ReadLineage, Work
<1>3. creates \in BOOLEAN
  OBVIOUS
<1>4. ~creates => artifact[a] # None /\ ~artifact[a].byHand /\ artifact[a].current \in Nat
  BY <1>1, <1>2 DEF SynTypeOK, ArtifactRows
<1>5. creates => artifact[a] = None /\ \A v \in Workers : work[v].art # a
  BY <1>2
<1>6. number \in Nat /\ (creates => number = 1) /\ (~creates => number \in 1 .. artifact[a].current + 1)
  BY <1>4
<1> HIDE DEF creates, number
<1>7. row \in WorkRows /\ row.at = "lined up" /\ row.syn = work[w].syn /\ row.art = a
      /\ row.creates = creates /\ row.number = number
  BY <1>1, <1>3, <1>6 DEF WorkRows
<1>8. work[w].syn \in Syntheses /\ synthesis[work[w].syn] # None
  BY <1>1, <1>2 DEF WorkIsKnown
<1> HIDE DEF row
<1>9. row.at = "lined up" => row.art \in Artifacts /\
         IF row.creates
         THEN /\ row.number = 1 /\ artifact[row.art] = None /\ \A v \in Workers : work[v].art # row.art
         ELSE /\ artifact[row.art] # None /\ ~artifact[row.art].byHand
              /\ row.number \in 1 .. artifact[row.art].current + 1
  BY <1>4, <1>5, <1>6, <1>7
<1> QED
  BY <1>2, <1>7, <1>8, <1>9, OnlyWork DEF Gating

\* A synthesis that has a row keeps one, and every request its own.
LEMMA KnownStays ==
    ASSUME SynTypeOK, WorkIsKnown, \A s \in Syntheses : synthesis[s] # None => synthesis'[s] # None,
           \A w \in Workers : work'[w] = work[w] \/ work'[w] = IdleWork
    PROVE  WorkIsKnown'
<1> SUFFICES ASSUME NEW w \in Workers
             PROVE  /\ work'[w].at \in Gating => work'[w].branch \in Branches
                    /\ work'[w].at \in {"calling", "answered", "lined up", "published", "failing"} =>
                          work'[w].syn \in Syntheses /\ synthesis'[work'[w].syn] # None
                    /\ work'[w].at = "lined up" => work'[w].art \in Artifacts
  BY DEF WorkIsKnown
<1>1. CASE work'[w] = work[w]
  BY <1>1 DEF WorkIsKnown
<1>2. CASE work'[w] = IdleWork
  BY <1>2, IdleRow DEF Gating
<1> QED
  BY <1>1, <1>2

\* A request that is given up leaves the documents that others lined up.
LEMMA LinedUpStays ==
    ASSUME LinedUp, UNCHANGED artifact,
           \A w \in Workers : work'[w] = work[w] \/ work'[w].at # "lined up"
    PROVE  LinedUp'
BY DEF LinedUp

\* A row whose status changes.
LEMMA StatusSet ==
    ASSUME NEW old \in SynthesisRows, NEW x \in {"RUNNING", "COMPLETED", "FAILED"}
    PROVE  \E row \in SynthesisRows : /\ row = [old EXCEPT !.status = x] /\ row.status = x
                                      /\ row.key = old.key
<1>1. PICK row : row = [old EXCEPT !.status = x]
  OBVIOUS
<1>2. row \in SynthesisRows /\ row.status = x /\ row.key = old.key
  BY <1>1 DEF SynthesisRows
<1> QED
  BY <1>1, <1>2

\* A synthesis that ends is heard of once, and only one that completed published a version.
LEMMA OutcomeHeard ==
    ASSUME SynTypeOK, KeysAreTheirs, HeardOnce, UNCHANGED key,
           NEW s \in Syntheses, synthesis[s] # None, synthesis[s].status = "RUNNING",
           NEW x \in {"COMPLETED", "FAILED"}, NEW v,
           synthesis' = [synthesis EXCEPT ![s].status = x], outcomes' = [outcomes EXCEPT ![s] = @ + 1],
           IF x = "COMPLETED" THEN v.by = s /\ versions' = versions \cup {v} ELSE versions' = versions
    PROVE  /\ synthesis' \in [Syntheses -> SynthesisRows \cup {None}]
           /\ outcomes' \in [Syntheses -> Nat]
           /\ \A t \in Syntheses : synthesis[t] # None => synthesis'[t] # None
           /\ KeysAreTheirs' /\ HeardOnce'
<1>1. PICK old \in SynthesisRows : old = synthesis[s]
  BY DEF SynTypeOK
<1>2. PICK row \in SynthesisRows : row = [old EXCEPT !.status = x] /\ row.status = x /\ row.key = old.key
  <2>1. x \in {"RUNNING", "COMPLETED", "FAILED"}
    OBVIOUS
  <2> QED
    BY <2>1, StatusSet
<1>3. synthesis' = [synthesis EXCEPT ![s] = row]
  BY <1>1, <1>2
<1>4. synthesis'[s] = row /\ row # None /\ \A t \in Syntheses \ {s} : synthesis'[t] = synthesis[t]
  BY <1>3, NoneAssumption DEF SynTypeOK
<1>5. synthesis' \in [Syntheses -> SynthesisRows \cup {None}] /\ outcomes' \in [Syntheses -> Nat]
  BY <1>3 DEF SynTypeOK
<1>6. KeysAreTheirs'
  BY <1>1, <1>2, <1>4 DEF KeysAreTheirs
<1>7. StatusOf(s)' = x /\ StatusOf(s) = "RUNNING" /\ \A t \in Syntheses \ {s} : StatusOf(t)' = StatusOf(t)
  <2>1. row.status = x
    BY <1>2
  <2>2. StatusOf(s)' = x
    BY <1>4, <2>1 DEF StatusOf
  <2>3. StatusOf(s) = "RUNNING"
    BY DEF StatusOf
  <2>4. \A t \in Syntheses \ {s} : StatusOf(t)' = StatusOf(t)
    BY <1>4 DEF StatusOf
  <2> QED
    BY <2>2, <2>3, <2>4
<1>8. outcomes'[s] = 1 /\ \A t \in Syntheses \ {s} : outcomes'[t] = outcomes[t]
  BY <1>7 DEF SynTypeOK, HeardOnce
<1>9. ByIt(s) = {} /\ \A t \in Syntheses \ {s} : ByIt(t)' = ByIt(t)
  BY <1>7 DEF HeardOnce, ByIt
<1>10. IF x = "COMPLETED" THEN v \in versions' /\ ByIt(s)' = {v} ELSE ByIt(s)' = {}
  BY <1>9 DEF ByIt
<1>11. HeardOnce'
  <2> SUFFICES ASSUME NEW t \in Syntheses
               PROVE  /\ outcomes'[t] = IF StatusOf(t)' = "RUNNING" THEN 0 ELSE 1
                      /\ IF StatusOf(t)' = "COMPLETED" THEN \E u \in versions' : ByIt(t)' = {u} ELSE ByIt(t)' = {}
    BY DEF HeardOnce
  <2>1. CASE t = s
    BY <1>7, <1>8, <1>10, <2>1
  <2>2. CASE t # s
    <3>1. /\ outcomes[t] = IF StatusOf(t) = "RUNNING" THEN 0 ELSE 1
          /\ IF StatusOf(t) = "COMPLETED" THEN \E u \in versions : ByIt(t) = {u} ELSE ByIt(t) = {}
      BY DEF HeardOnce
    <3>2. versions \subseteq versions'
      OBVIOUS
    <3> QED
      BY <1>7, <1>8, <1>9, <2>2, <3>1, <3>2
  <2> QED
    BY <2>1, <2>2
<1> QED
  BY <1>4, <1>5, <1>6, <1>11

\* _fail_branch_synthesis: the synthesis was running, and the request that drove it, or none, is given up.
LEMMA SynthesisFails ==
    ASSUME SynInv, SynOnly, UNCHANGED <<key, artifact, versions>>,
           NEW s \in Syntheses, synthesis[s] # None, MayFail(s), Fails(s),
           \/ UNCHANGED work
           \/ \E w \in Workers : work' = [work EXCEPT ![w] = IdleWork]
    PROVE  SynInv'
<1>1. SynTypeOK /\ WorkIsKnown /\ KeysAreTheirs /\ HeardOnce /\ Whole /\ LinedUp /\ BranchesInv
  BY DEF SynInv, SynthesesInv
<1>2. /\ synthesis' = [synthesis EXCEPT ![s].status = "FAILED"] /\ outcomes' = [outcomes EXCEPT ![s] = @ + 1]
      /\ synthesis[s].status = "RUNNING"
  BY DEF Fails, MayFail
<1>3. /\ synthesis' \in [Syntheses -> SynthesisRows \cup {None}]
      /\ outcomes' \in [Syntheses -> Nat]
      /\ \A t \in Syntheses : synthesis[t] # None => synthesis'[t] # None
      /\ KeysAreTheirs' /\ HeardOnce'
  BY <1>1, <1>2, OutcomeHeard
<1>4. work' \in [Workers -> WorkRows] /\ \A w \in Workers : work'[w] = work[w] \/ work'[w] = IdleWork
  BY <1>1, IdleRow DEF SynTypeOK
<1>5. SynTypeOK'
  BY <1>1, <1>3, <1>4 DEF SynTypeOK, SynOnly
<1>6. WorkIsKnown'
  BY <1>1, <1>3, <1>4, KnownStays
<1>7. LinedUp'
  BY <1>1, <1>4, IdleRow, LinedUpStays
<1>8. Whole'
  BY <1>1 DEF Whole, WholeLine, Own
<1> QED
  BY <1>1, <1>3, <1>5, <1>6, <1>7, <1>8, SynOnlyKeepsBranches DEF SynInv, SynthesesInv

\* The request that fails, and the sweep: a synthesis that has ended stays as it is.
LEMMA RequestFails ==
    ASSUME SynInv, NEW w \in Workers, FailRequest(w)
    PROVE  SynInv'
<1>1. WorkIsKnown
  BY DEF SynInv, SynthesesInv
<1>2. /\ work[w].at = "failing" /\ Fails(work[w].syn) /\ work' = [work EXCEPT ![w] = IdleWork]
      /\ SynOnly /\ UNCHANGED <<key, artifact, versions>>
  BY DEF FailRequest, Work
<1>3. work[w].syn \in Syntheses /\ synthesis[work[w].syn] # None
  BY <1>1, <1>2 DEF WorkIsKnown
<1>4. CASE MayFail(work[w].syn)
  BY <1>2, <1>3, <1>4, SynthesisFails
<1>5. CASE ~MayFail(work[w].syn)
  <2>1. UNCHANGED <<synthesis, outcomes>>
    BY <1>2, <1>5 DEF Fails
  <2> QED
    BY <1>2, <2>1, RequestMoves
<1> QED
  BY <1>4, <1>5

\* The sweep fails a synthesis nobody carries any more, as its worker would have.
LEMMA SynthesisSwept ==
    ASSUME SynInv, NEW s \in Syntheses, SweepSynthesis(s)
    PROVE  SynInv'
<1>1. /\ synthesis[s] # None /\ MayFail(s) /\ Fails(s)
      /\ SynOnly /\ UNCHANGED <<key, artifact, versions, work>>
  BY DEF SweepSynthesis, Expired, MayFail
<1> QED
  BY <1>1, SynthesisFails

\* Time only makes a synthesis old.
LEMMA TimePasses ==
    ASSUME SynInv, NEW s \in Syntheses, FiveMinutesPass(s)
    PROVE  SynInv'
<1>1. SynTypeOK /\ WorkIsKnown /\ KeysAreTheirs /\ HeardOnce /\ Whole /\ LinedUp /\ BranchesInv
  BY DEF SynInv, SynthesesInv
<1>2. /\ SynOnly /\ UNCHANGED <<outcomes, key, artifact, versions, work>>
      /\ synthesis[s] # None /\ synthesis' = [synthesis EXCEPT ![s].old = TRUE]
  BY DEF FiveMinutesPass
<1>3. PICK was \in SynthesisRows : was = synthesis[s]
  BY <1>1, <1>2 DEF SynTypeOK
<1>4. PICK row : row = [was EXCEPT !.old = TRUE]
  OBVIOUS
<1>5. row \in SynthesisRows /\ row.status = was.status /\ row.key = was.key
  BY <1>3, <1>4 DEF SynthesisRows
<1>6. synthesis' = [synthesis EXCEPT ![s] = row]
  BY <1>2, <1>3, <1>4
<1>7. /\ synthesis' \in [Syntheses -> SynthesisRows \cup {None}]
      /\ synthesis'[s] = row /\ row # None /\ \A t \in Syntheses \ {s} : synthesis'[t] = synthesis[t]
  BY <1>1, <1>5, <1>6, NoneAssumption DEF SynTypeOK
<1>8. SynTypeOK'
  BY <1>1, <1>2, <1>7 DEF SynTypeOK, SynOnly
<1>9. WorkIsKnown'
  BY <1>1, <1>2, <1>7, KnownStays
<1>10. KeysAreTheirs'
  BY <1>1, <1>2, <1>3, <1>5, <1>7 DEF KeysAreTheirs
<1>11. HeardOnce'
  <2>1. \A t \in Syntheses : StatusOf(t)' = StatusOf(t) /\ ByIt(t)' = ByIt(t)
    BY <1>2, <1>3, <1>5, <1>7 DEF StatusOf, ByIt
  <2> QED
    BY <1>1, <1>2, <2>1 DEF HeardOnce
<1>12. Whole' /\ LinedUp'
  BY <1>1, <1>2 DEF Whole, WholeLine, Own, LinedUp
<1> QED
  BY <1>1, <1>2, <1>8, <1>9, <1>10, <1>11, <1>12, SynOnlyKeepsBranches DEF SynInv, SynthesesInv

\* The claim and the row in one transaction: whoever comes second with a key finds it taken.
LEMMA SynthesisCommitted ==
    ASSUME SynInv, NEW w \in Workers, NEW s \in Syntheses, CommitSynthesis(w, s)
    PROVE  SynInv'
<1>1. SynTypeOK /\ WorkIsKnown /\ KeysAreTheirs /\ HeardOnce /\ Whole /\ LinedUp /\ BranchesInv
  BY DEF SynInv, SynthesesInv
<1> DEFINE k == work[w].key
<1>2. /\ work[w].at = "gated" /\ synthesis[s] = None /\ SynOnly /\ UNCHANGED <<outcomes, artifact, versions>>
  BY DEF CommitSynthesis, Work
<1>3. CASE Claimed(k)
  <2>1. work' = [work EXCEPT ![w] = IdleWork] /\ UNCHANGED <<synthesis, key>>
    BY <1>3 DEF CommitSynthesis
  <2> QED
    BY <1>2, <2>1, RequestMoves
<1>4. CASE ~Claimed(k)
  <2>1. PICK old \in WorkRows : old = work[w]
    BY <1>1 DEF SynTypeOK
  <2>2. old.branch \in Branches /\ old.key = k /\ old.key \in Keys \cup {None} /\ old.inputs \in SUBSET {1, 2}
    BY <1>1, <1>2, <2>1 DEF WorkIsKnown, WorkRows, Gating
  <2>3. PICK new : new = [of |-> old.branch, status |-> "RUNNING", inputs |-> old.inputs,
                          key |-> old.key, old |-> FALSE]
    OBVIOUS
  <2>4. new \in SynthesisRows /\ new.status = "RUNNING" /\ new.key = old.key
    BY <2>2, <2>3 DEF SynthesisRows
  <2>5. PICK row : row = [[old EXCEPT !.at = "calling"] EXCEPT !.syn = s]
    OBVIOUS
  <2>6. row \in WorkRows /\ row.at = "calling" /\ row.syn = s
    BY <2>1, <2>5 DEF WorkRows
  <2>7. /\ synthesis' = [synthesis EXCEPT ![s] = [of |-> work[w].branch, status |-> "RUNNING",
                              inputs |-> work[w].inputs, key |-> work[w].key, old |-> FALSE]]
        /\ RecordKey(work[w].key, s)
        /\ work' = [work EXCEPT ![w] = [[work[w] EXCEPT !.at = "calling"] EXCEPT !.syn = s]]
    BY <1>4 DEF CommitSynthesis
  <2>8. synthesis' = [synthesis EXCEPT ![s] = new] /\ RecordKey(old.key, s) /\ work' = [work EXCEPT ![w] = row]
    BY <2>1, <2>3, <2>5, <2>7
  <2>9. old.key # None => key[old.key] = None
    BY <1>4, <2>1 DEF Claimed
  <2>10. /\ key' \in [Keys -> Branches \cup Syntheses \cup {None}]
         /\ \A j \in Keys : key'[j] = key[j] \/ key[j] = None
         /\ old.key # None => key'[old.key] = s
    BY <1>1, <2>2, <2>8, <2>9, KeyRecorded
  <2>11. /\ synthesis' \in [Syntheses -> SynthesisRows \cup {None}]
         /\ synthesis'[s] = new /\ new # None /\ \A t \in Syntheses \ {s} : synthesis'[t] = synthesis[t]
    BY <1>1, <2>4, <2>8, NoneAssumption DEF SynTypeOK
  <2>12. work' \in [Workers -> WorkRows] /\ work'[w] = row /\ \A v \in Workers \ {w} : work'[v] = work[v]
    BY <1>1, <2>6, <2>8 DEF SynTypeOK
  <2>13. SynTypeOK'
    BY <1>1, <1>2, <2>10, <2>11, <2>12 DEF SynTypeOK, SynOnly
  <2>14. WorkIsKnown'
    <3>1. \A v \in Workers \ {w} :
             /\ work'[v].at \in Gating => work'[v].branch \in Branches
             /\ work'[v].at \in {"calling", "answered", "lined up", "published", "failing"} =>
                   work'[v].syn \in Syntheses /\ synthesis'[work'[v].syn] # None
             /\ work'[v].at = "lined up" => work'[v].art \in Artifacts
      BY <1>1, <2>11, <2>12 DEF WorkIsKnown
    <3> QED
      BY <2>6, <2>11, <2>12, <3>1 DEF WorkIsKnown, Gating
  <2>15. KeysAreTheirs'
    <3> SUFFICES ASSUME NEW t \in Syntheses, synthesis'[t] # None, synthesis'[t].key # None
                 PROVE  key'[synthesis'[t].key] = t
      BY DEF KeysAreTheirs
    <3>1. CASE t = s
      BY <2>4, <2>10, <2>11, <3>1
    <3>2. CASE t # s
      <4>1. synthesis'[t] = synthesis[t] /\ key[synthesis[t].key] = t
        BY <1>1, <2>11, <3>2 DEF KeysAreTheirs
      <4>2. synthesis[t].key \in Keys
        BY <1>1, <4>1 DEF SynTypeOK, SynthesisRows
      <4> QED
        BY <2>10, <4>1, <4>2, NoneAssumption
    <3> QED
      BY <3>1, <3>2
  <2>16. HeardOnce'
    <3>1. \A t \in Syntheses : StatusOf(t)' = StatusOf(t) /\ ByIt(t)' = ByIt(t)
      BY <1>2, <2>4, <2>11 DEF StatusOf, ByIt
    <3> QED
      BY <1>1, <1>2, <3>1 DEF HeardOnce
  <2>17. Whole'
    BY <1>1, <1>2 DEF Whole, WholeLine, Own
  <2>18. LinedUp'
    BY <1>1, <1>2, <2>6, <2>12, LinedUpStays
  <2> QED
    BY <1>1, <1>2, <2>13, <2>14, <2>15, <2>16, <2>17, <2>18, SynOnlyKeepsBranches DEF SynInv, SynthesesInv
<1> QED
  BY <1>3, <1>4

-----------------------------------------------------------------------------
(* Documents.                                                                  *)

\* The next version of a line makes it one longer, and leaves every other line.
LEMMA VersionAdded ==
    ASSUME SynTypeOK, Whole, NEW a \in Artifacts, NEW n \in Nat, NEW hand \in BOOLEAN,
           NEW by \in Syntheses \cup {None}, hand <=> by = None,
           IF artifact[a] = None THEN n = 1 ELSE n = artifact[a].current + 1 /\ artifact[a].byHand = hand,
           artifact' = [artifact EXCEPT ![a] = [byHand |-> hand, current |-> n]],
           versions' = versions \cup {[of |-> a, number |-> n, by |-> by]}
    PROVE  /\ artifact' \in [Artifacts -> ArtifactRows \cup {None}] /\ versions' \subseteq VersionRows
           /\ Whole'
<1>1. PICK v : v = [of |-> a, number |-> n, by |-> by]
  OBVIOUS
<1>2. v \in VersionRows /\ v.of = a /\ v.number = n /\ v.by = by
  BY <1>1 DEF VersionRows
<1>3. PICK row : row = [byHand |-> hand, current |-> n]
  OBVIOUS
<1>4. row \in ArtifactRows /\ row # None /\ row.byHand = hand /\ row.current = n
  BY <1>3, NoneAssumption DEF ArtifactRows
<1>5. artifact' = [artifact EXCEPT ![a] = row] /\ versions' = versions \cup {v}
  BY <1>1, <1>3
<1>6. /\ artifact' \in [Artifacts -> ArtifactRows \cup {None}]
      /\ artifact'[a] = row /\ \A c \in Artifacts \ {a} : artifact'[c] = artifact[c]
  BY <1>4, <1>5 DEF SynTypeOK
<1>7. versions' \subseteq VersionRows
  BY <1>2, <1>5 DEF SynTypeOK
<1>8. Own(a)' = Own(a) \cup {v} /\ \A c \in Artifacts \ {a} : Own(c)' = Own(c)
  BY <1>2, <1>5 DEF Own
<1>9. WholeLine(a)'
  <2>1. CASE artifact[a] = None
    <3>1. Own(a)' = {v} /\ n = 1
      BY <1>8, <2>1 DEF Whole
    <3>2. IsFiniteSet({v}) /\ Cardinality({v}) = 1
      BY FS_Singleton
    <3>3. { u.number : u \in Own(a)' } = 1 .. n
      BY <1>2, <3>1
    <3> QED
      BY <1>2, <1>4, <1>6, <3>1, <3>2, <3>3 DEF WholeLine
  <2>2. CASE artifact[a] # None
    <3>1. n = artifact[a].current + 1 /\ artifact[a].byHand = hand /\ artifact[a].current \in Nat
      BY <2>2 DEF SynTypeOK, ArtifactRows
    <3>2. /\ { u.number : u \in Own(a) } = 1 .. artifact[a].current
          /\ IsFiniteSet(Own(a)) /\ Cardinality(Own(a)) = artifact[a].current
          /\ \A u \in Own(a) : artifact[a].byHand <=> u.by = None
      BY <2>2 DEF Whole, WholeLine
    <3>3. v \notin Own(a)
      BY <1>2, <3>1, <3>2
    <3>4. IsFiniteSet(Own(a) \cup {v}) /\ Cardinality(Own(a) \cup {v}) = artifact[a].current + 1
      <4>1. PICK own : own = Own(a)
        OBVIOUS
      <4>2. IsFiniteSet(own) /\ v \notin own /\ Cardinality(own) = artifact[a].current
        BY <3>2, <3>3, <4>1
      <4>3. IsFiniteSet(own \cup {v}) /\ Cardinality(own \cup {v}) = Cardinality(own) + 1
        BY <4>2, FS_AddElement
      <4> QED
        BY <4>1, <4>2, <4>3
    <3>5. { u.number : u \in Own(a) \cup {v} } = { u.number : u \in Own(a) } \cup {n}
      BY <1>2
    <3>6. { u.number : u \in Own(a) } \cup {n} = 1 .. n
      BY <3>1, <3>2
    <3>7. \A u \in Own(a) \cup {v} : hand <=> u.by = None
      BY <1>2, <3>1, <3>2
    <3> QED
      BY <1>4, <1>6, <1>8, <3>1, <3>4, <3>5, <3>6, <3>7 DEF WholeLine
  <2> QED
    BY <2>1, <2>2
<1>10. Whole'
  <2> SUFFICES ASSUME NEW c \in Artifacts
               PROVE  IF artifact'[c] = None THEN Own(c)' = {} ELSE WholeLine(c)'
    BY DEF Whole
  <2>1. CASE c = a
    BY <1>4, <1>6, <1>9, <2>1
  <2>2. CASE c # a
    <3>1. artifact'[c] = artifact[c] /\ Own(c)' = Own(c)
      BY <1>6, <1>8, <2>2
    <3>2. IF artifact[c] = None THEN Own(c) = {} ELSE WholeLine(c)
      BY DEF Whole
    <3> QED
      BY <3>1, <3>2 DEF WholeLine
  <2> QED
    BY <2>1, <2>2
<1> QED
  BY <1>6, <1>7, <1>10

\* The number past a line.
LEMMA PastTheLine ==
    ASSUME NEW m \in Nat, NEW n \in Nat
    PROVE  /\ n \in 1 .. m + 1 /\ n \notin 1 .. m => n = m + 1
           /\ n = m + 1 => 1 .. m + 1 \subseteq 1 .. n + 1
OBVIOUS

\* A number that is free, of a request that lined up, is the next one.
LEMMA NumberIsNext ==
    ASSUME SynInv, NEW w \in Workers, work[w].at = "lined up", ~Taken(work[w].art, work[w].number)
    PROVE  IF artifact[work[w].art] = None
           THEN work[w].number = 1
           ELSE /\ work[w].number = artifact[work[w].art].current + 1
                /\ artifact[work[w].art].byHand = FALSE
<1>1. SynTypeOK /\ WorkIsKnown /\ Whole /\ LinedUp
  BY DEF SynInv, SynthesesInv
<1>2. PICK a \in Artifacts : a = work[w].art
  BY <1>1 DEF WorkIsKnown
<1>3. PICK n \in Nat : n = work[w].number
  BY <1>1 DEF SynTypeOK, WorkRows
<1>4. IF work[w].creates
      THEN n = 1 /\ artifact[a] = None
      ELSE artifact[a] # None /\ ~artifact[a].byHand /\ n \in 1 .. artifact[a].current + 1
  BY <1>1, <1>2, <1>3 DEF LinedUp
<1>5. CASE artifact[a] = None
  BY <1>2, <1>3, <1>4, <1>5
<1>6. CASE artifact[a] # None
  <2>1. artifact[a].current \in Nat /\ artifact[a].byHand \in BOOLEAN
    BY <1>1, <1>6 DEF SynTypeOK, ArtifactRows
  <2>2. { v.number : v \in Own(a) } = 1 .. artifact[a].current
    BY <1>1, <1>6 DEF Whole, WholeLine
  <2>3. n \notin { v.number : v \in Own(a) }
    BY <1>2, <1>3 DEF Own, Taken
  <2>4. n = artifact[a].current + 1
    <3>1. PICK m \in Nat : m = artifact[a].current
      BY <2>1
    <3>2. n \notin 1 .. m
      BY <2>2, <2>3, <3>1
    <3>3. n \in 1 .. m + 1
      BY <1>4, <1>6, <3>1
    <3>4. n = m + 1
      BY <3>2, <3>3, PastTheLine
    <3> QED
      BY <3>1, <3>4
  <2> QED
    BY <1>2, <1>3, <1>4, <1>6, <2>1, <2>4
<1> QED
  BY <1>5, <1>6

\* _complete_branch_synthesis publishes: the synthesis completes with one version, and others
\* that lined the document up will find their number taken or be next.
LEMMA SynthesisPublished ==
    ASSUME SynInv, NEW w \in Workers, Publish(w),
           MayPublish(work[w].syn), ~Taken(work[w].art, work[w].number)
    PROVE  SynInv'
<1>1. SynTypeOK /\ WorkIsKnown /\ KeysAreTheirs /\ HeardOnce /\ Whole /\ LinedUp /\ BranchesInv
  BY DEF SynInv, SynthesesInv
<1>2. /\ work[w].at = "lined up" /\ SynOnly /\ UNCHANGED key
      /\ artifact' = [artifact EXCEPT ![work[w].art] = [byHand |-> FALSE, current |-> work[w].number]]
      /\ versions' = versions \cup {[of |-> work[w].art, number |-> work[w].number, by |-> work[w].syn]}
      /\ synthesis' = [synthesis EXCEPT ![work[w].syn].status = "COMPLETED"]
      /\ outcomes' = [outcomes EXCEPT ![work[w].syn] = @ + 1]
      /\ Goes(w, "published")
  BY DEF Publish, Work
<1>3. PICK s \in Syntheses : s = work[w].syn /\ synthesis[s] # None /\ synthesis[s].status = "RUNNING"
  BY <1>1, <1>2 DEF WorkIsKnown, MayPublish
<1>4. PICK a \in Artifacts : a = work[w].art
  BY <1>1, <1>2 DEF WorkIsKnown
<1>5. PICK n \in Nat : n = work[w].number
  BY <1>1 DEF SynTypeOK, WorkRows
<1>6. IF artifact[a] = None THEN n = 1 ELSE n = artifact[a].current + 1 /\ artifact[a].byHand = FALSE
  BY <1>2, <1>4, <1>5, NumberIsNext
<1>7. /\ artifact' = [artifact EXCEPT ![a] = [byHand |-> FALSE, current |-> n]]
      /\ versions' = versions \cup {[of |-> a, number |-> n, by |-> s]}
      /\ synthesis' = [synthesis EXCEPT ![s].status = "COMPLETED"]
      /\ outcomes' = [outcomes EXCEPT ![s] = @ + 1]
  BY <1>2, <1>3, <1>4, <1>5
<1>8. /\ artifact' \in [Artifacts -> ArtifactRows \cup {None}] /\ versions' \subseteq VersionRows
      /\ Whole'
  <2>1. s # None /\ s \in Syntheses \cup {None}
    BY NoneAssumption
  <2> QED
    BY <1>1, <1>6, <1>7, <2>1, VersionAdded
<1>9. PICK v : v = [of |-> a, number |-> n, by |-> s]
  OBVIOUS
<1>10. v.by = s /\ versions' = versions \cup {v}
  BY <1>7, <1>9
<1>11. /\ synthesis' \in [Syntheses -> SynthesisRows \cup {None}]
       /\ outcomes' \in [Syntheses -> Nat]
       /\ \A t \in Syntheses : synthesis[t] # None => synthesis'[t] # None
       /\ KeysAreTheirs' /\ HeardOnce'
  BY <1>1, <1>2, <1>3, <1>7, <1>10, OutcomeHeard
<1>12. PICK row \in WorkRows : work' = [work EXCEPT ![w] = row] /\ row.at = "published" /\ row.syn = s
  BY <1>1, <1>2, <1>3, GoesTo
<1>13. work' \in [Workers -> WorkRows] /\ work'[w] = row /\ \A u \in Workers \ {w} : work'[u] = work[u]
  BY <1>1, <1>12 DEF SynTypeOK
<1>14. SynTypeOK'
  BY <1>1, <1>2, <1>8, <1>11, <1>13 DEF SynTypeOK, SynOnly
<1>15. WorkIsKnown'
  <2>1. \A u \in Workers \ {w} :
           /\ work'[u].at \in Gating => work'[u].branch \in Branches
           /\ work'[u].at \in {"calling", "answered", "lined up", "published", "failing"} =>
                 work'[u].syn \in Syntheses /\ synthesis'[work'[u].syn] # None
           /\ work'[u].at = "lined up" => work'[u].art \in Artifacts
    BY <1>1, <1>11, <1>13 DEF WorkIsKnown
  <2> QED
    BY <1>3, <1>11, <1>12, <1>13, <2>1 DEF WorkIsKnown, Gating
<1>16. LinedUp'
  <2>1. artifact'[a] # None /\ ~artifact'[a].byHand /\ artifact'[a].current = n
        /\ \A c \in Artifacts \ {a} : artifact'[c] = artifact[c]
    <3>1. PICK doc : doc = [byHand |-> FALSE, current |-> n]
      OBVIOUS
    <3>2. doc \in ArtifactRows /\ ~doc.byHand /\ doc.current = n
      BY <3>1 DEF ArtifactRows
    <3>3. doc # None
      BY <3>2, NoneAssumption
    <3>4. artifact' = [artifact EXCEPT ![a] = doc]
      BY <1>7, <3>1
    <3> QED
      BY <1>1, <3>2, <3>3, <3>4 DEF SynTypeOK
  <2>2. IF work[w].creates THEN \A u \in Workers : work[u].at = "lined up" /\ work[u].art = a => u = w
                           ELSE artifact[a] # None
    BY <1>1, <1>2, <1>4 DEF LinedUp
  <2>3. work[w].creates \in BOOLEAN
    BY <1>1 DEF SynTypeOK, WorkRows
  <2> SUFFICES ASSUME NEW u \in Workers, work'[u].at = "lined up"
               PROVE  IF work'[u].creates
                      THEN /\ work'[u].number = 1 /\ artifact'[work'[u].art] = None
                           /\ \A x \in Workers : work'[x].at = "lined up" /\ work'[x].art = work'[u].art => x = u
                      ELSE /\ artifact'[work'[u].art] # None /\ ~artifact'[work'[u].art].byHand
                           /\ work'[u].number \in 1 .. artifact'[work'[u].art].current + 1
    BY DEF LinedUp
  <2>4. u # w /\ work'[u] = work[u] /\ work[u].at = "lined up"
    BY <1>12, <1>13
  <2>5. PICK c \in Artifacts : c = work[u].art
    BY <1>1, <2>4 DEF WorkIsKnown
  <2>6. IF work[u].creates
        THEN /\ work[u].number = 1 /\ artifact[c] = None
             /\ \A x \in Workers : work[x].at = "lined up" /\ work[x].art = c => x = u
        ELSE /\ artifact[c] # None /\ ~artifact[c].byHand
             /\ work[u].number \in 1 .. artifact[c].current + 1
    BY <1>1, <2>4, <2>5 DEF LinedUp
  <2>7. CASE c = a
    <3>1. ~work[u].creates
      BY <1>2, <1>4, <2>4, <2>6, <2>7
    <3>2. n = artifact[a].current + 1 /\ artifact[a].current \in Nat
      BY <1>1, <1>6, <2>6, <2>7, <3>1 DEF SynTypeOK, ArtifactRows
    <3>3. work[u].number \in 1 .. n + 1
      <4>1. PICK m \in Nat : m = artifact[a].current /\ n = m + 1
        BY <3>2
      <4>2. work[u].number \in 1 .. m + 1
        BY <2>6, <2>7, <3>1, <4>1
      <4>3. 1 .. m + 1 \subseteq 1 .. n + 1
        BY <4>1, PastTheLine
      <4> QED
        BY <4>2, <4>3
    <3> QED
      BY <2>1, <2>4, <2>5, <2>7, <3>1, <3>3
  <2>8. CASE c # a
    <3>1. artifact'[c] = artifact[c]
      BY <2>1, <2>8
    <3>2. \A x \in Workers : work'[x].at = "lined up" => work'[x] = work[x]
      BY <1>12, <1>13
    <3>3. CASE work[u].creates
      BY <2>4, <2>5, <2>6, <3>1, <3>2, <3>3
    <3>4. CASE ~work[u].creates
      BY <2>4, <2>5, <2>6, <3>1, <3>4
    <3> QED
      BY <3>3, <3>4
  <2> QED
    BY <2>7, <2>8
<1> QED
  BY <1>1, <1>2, <1>8, <1>11, <1>14, <1>15, <1>16, SynOnlyKeepsBranches DEF SynInv, SynthesesInv

\* create_artifact by a person: a document of its own, that no synthesis lined up.
LEMMA WrittenByHand ==
    ASSUME SynInv, NEW a \in Artifacts, WriteByHand(a)
    PROVE  SynInv'
<1>1. SynTypeOK /\ WorkIsKnown /\ KeysAreTheirs /\ HeardOnce /\ Whole /\ LinedUp /\ BranchesInv
  BY DEF SynInv, SynthesesInv
<1>2. /\ artifact[a] = None /\ \A v \in Workers : work[v].art # a
      /\ artifact' = [artifact EXCEPT ![a] = [byHand |-> TRUE, current |-> 1]]
      /\ versions' = versions \cup {[of |-> a, number |-> 1, by |-> None]}
      /\ SynOnly /\ UNCHANGED <<synthesis, outcomes, key, work>>
  BY DEF WriteByHand
<1>3. /\ artifact' \in [Artifacts -> ArtifactRows \cup {None}] /\ versions' \subseteq VersionRows
      /\ Whole'
  BY <1>1, <1>2, VersionAdded
<1>4. \A c \in Artifacts \ {a} : artifact'[c] = artifact[c]
  BY <1>1, <1>2 DEF SynTypeOK
<1>5. SynTypeOK'
  BY <1>1, <1>2, <1>3 DEF SynTypeOK, SynOnly
<1>6. WorkIsKnown' /\ KeysAreTheirs'
  BY <1>1, <1>2 DEF WorkIsKnown, KeysAreTheirs
<1>7. HeardOnce'
  <2>1. \A s \in Syntheses : ByIt(s)' = ByIt(s) /\ StatusOf(s)' = StatusOf(s)
    <3> TAKE s \in Syntheses
    <3>1. s # None
      BY NoneAssumption
    <3>2. PICK v : v = [of |-> a, number |-> 1, by |-> None]
      OBVIOUS
    <3>3. v.by = None /\ versions' = versions \cup {v}
      BY <1>2, <3>2
    <3>4. ByIt(s)' = ByIt(s)
      BY <3>1, <3>3 DEF ByIt
    <3> QED
      BY <1>2, <3>4 DEF StatusOf
  <2>2. versions \subseteq versions'
    BY <1>2
  <2> QED
    BY <1>1, <1>2, <2>1, <2>2 DEF HeardOnce
<1>8. LinedUp'
  <2>1. \A w \in Workers : work[w].at = "lined up" => artifact'[work[w].art] = artifact[work[w].art]
    BY <1>1, <1>2, <1>4 DEF WorkIsKnown
  <2> QED
    BY <1>1, <1>2, <2>1 DEF LinedUp
<1> QED
  BY <1>1, <1>2, <1>3, <1>5, <1>6, <1>7, <1>8, SynOnlyKeepsBranches DEF SynInv, SynthesesInv

-----------------------------------------------------------------------------
(* The theorems.                                                               *)

\* Every step of a request.
LEMMA RequestSteps ==
    ASSUME SynInv, NEW w \in Workers, WorkNext(w)
    PROVE  SynInv'
<1>1. ASSUME NEW b \in Branches, NEW k \in Keys \cup {None}, ReadOutputs(w, b, k) PROVE SynInv'
  BY <1>1, OutputsRead
<1>2. ASSUME NEW s \in Syntheses, CommitSynthesis(w, s) PROVE SynInv'
  BY <1>2, SynthesisCommitted
<1>3. CASE ProviderAnswers(w)
  BY <1>3, RequestMoves DEF ProviderAnswers, Work
<1>4. CASE ProviderFails(w)
  BY <1>4, RequestMoves DEF ProviderFails
<1>5. ASSUME NEW a \in Artifacts, ReadLineage(w, a) PROVE SynInv'
  BY <1>5, LineageRead
<1>6. CASE Publish(w)
  <2>1. CASE MayPublish(work[w].syn) /\ ~Taken(work[w].art, work[w].number)
    BY <1>6, <2>1, SynthesisPublished
  <2>2. CASE ~(MayPublish(work[w].syn) /\ ~Taken(work[w].art, work[w].number))
    <3>1. work[w].at = "lined up" /\ Goes(w, "failing") /\ SynOnly
          /\ UNCHANGED <<synthesis, outcomes, key, artifact, versions>>
      BY <1>6, <2>2 DEF Publish, Work
    <3> QED
      BY <3>1, RequestMoves
  <2> QED
    BY <2>1, <2>2
<1>7. CASE Answered(w)
  BY <1>7, RequestMoves DEF Answered, Work
<1>8. CASE FailRequest(w)
  BY <1>8, RequestFails
<1>9. CASE CrashWork(w)
  BY <1>9, RequestMoves DEF CrashWork
<1>10. CASE ReadSelections(w) \/ ReadRuns(w)
  BY <1>10, GatesRead
<1> QED
  BY <1>1, <1>2, <1>3, <1>4, <1>5, <1>6, <1>7, <1>8, <1>9, <1>10 DEF WorkNext

\* The room before any branch, with the documents that earlier syntheses published.
LEMMA SynInitially == ASSUME SynInit PROVE SynInv
<1>1. PICK known \in SUBSET Artifacts :
         /\ artifact = [a \in Artifacts |-> IF a \in known THEN [byHand |-> FALSE, current |-> 1] ELSE None]
         /\ versions = { [of |-> a, number |-> 1, by |-> "earlier"] : a \in known }
  BY DEF SynInit
<1>2. /\ branch = [b \in Branches |-> None] /\ lock = None /\ talked = None
      /\ picked = [b \in Branches |-> [r \in {1, 2} |-> "none"]]
      /\ synthesis = [s \in Syntheses |-> None] /\ outcomes = [s \in Syntheses |-> 0]
      /\ key = [k \in Keys |-> None] /\ work = [w \in Workers |-> IdleWork]
  BY DEF SynInit
<1>3. versions \subseteq VersionRows
  BY <1>1 DEF VersionRows
<1>4. PICK first : first = [byHand |-> FALSE, current |-> 1]
  OBVIOUS
<1>5. first \in ArtifactRows /\ ~first.byHand /\ first.current = 1 /\ first # None
  <2>1. first \in ArtifactRows /\ ~first.byHand /\ first.current = 1
    BY <1>4 DEF ArtifactRows
  <2> QED
    BY <2>1, NoneAssumption
<1>6. artifact \in [Artifacts -> ArtifactRows \cup {None}]
  BY <1>1, <1>4, <1>5
<1>7. SynTypeOK
  BY <1>2, <1>3, <1>6, IdleRow DEF SynTypeOK
<1>8. WorkIsKnown /\ KeysAreTheirs /\ LinedUp
  BY <1>2, IdleRow DEF WorkIsKnown, KeysAreTheirs, LinedUp, Gating
<1>9. HeardOnce
  <2>1. \A v \in versions : v.by = "earlier"
    BY <1>1
  <2>2. \A s \in Syntheses : StatusOf(s) = "RUNNING" /\ ByIt(s) = {} /\ outcomes[s] = 0
    BY <1>2, <2>1, NoneAssumption DEF StatusOf, ByIt
  <2> QED
    BY <2>2 DEF HeardOnce
<1>10. Whole
  <2> SUFFICES ASSUME NEW a \in Artifacts PROVE IF artifact[a] = None THEN Own(a) = {} ELSE WholeLine(a)
    BY DEF Whole
  <2>1. CASE a \in known
    <3>1. PICK v : v = [of |-> a, number |-> 1, by |-> "earlier"]
      OBVIOUS
    <3>2. v.number = 1 /\ v.by = "earlier"
      BY <3>1
    <3>3. Own(a) = {v}
      BY <1>1, <2>1, <3>1 DEF Own
    <3>4. artifact[a] = first
      BY <1>1, <1>4, <2>1
    <3>5. IsFiniteSet({v}) /\ Cardinality({v}) = 1
      BY FS_Singleton
    <3>6. { u.number : u \in {v} } = 1 .. 1
      BY <3>2
    <3> QED
      BY <1>5, <3>2, <3>3, <3>4, <3>5, <3>6, NoneAssumption DEF WholeLine
  <2>2. CASE a \notin known
    BY <1>1, <2>2 DEF Own
  <2> QED
    BY <2>1, <2>2
<1>11. StatusIsTheirs /\ LockedExactlyWhileItRuns
  BY <1>2, NoneAssumption DEF StatusIsTheirs, LockedExactlyWhileItRuns
<1> QED
  BY <1>7, <1>8, <1>9, <1>10, <1>11 DEF SynInv, SynthesesInv, BranchesInv

\* Every step of branches, of requests, of the clock and of the sweep keeps the invariant.
THEOREM SynthesesSafe == SynSpec => []SynInv
<1>1. SynInit => SynInv
  BY SynInitially
<1>2. SynInv /\ [SynNext]_synVars => SynInv'
  <2> SUFFICES ASSUME SynInv, [SynNext]_synVars PROVE SynInv'
    OBVIOUS
  <2>1. ASSUME NEW b \in Branches, NEW k \in Keys \cup {None},
               NEW mode \in {"PARALLEL", "TURN_LOCKED_SINGLE"}, StartBranch(b, mode, k) PROVE SynInv'
    BY <2>1, BranchStarts
  <2>2. ASSUME NEW b \in Branches, NEW r \in {1, 2}, NEW how \in Ended, EndBranchRun(b, r, how) PROVE SynInv'
    BY <2>2, BranchRunEnds
  <2>3. ASSUME NEW b \in Branches, NEW r \in {1, 2}, NEW d \in {"INCLUDED", "EXCLUDED"},
               SelectOutput(b, r, d) PROVE SynInv'
    BY <2>3, BranchesTalk
  <2>4. CASE SendHumanMessage
    BY <2>4, BranchesTalk
  <2>5. ASSUME NEW w \in Workers, WorkNext(w) PROVE SynInv'
    BY <2>5, RequestSteps
  <2>6. ASSUME NEW s \in Syntheses, FiveMinutesPass(s) PROVE SynInv'
    BY <2>6, TimePasses
  <2>7. ASSUME NEW s \in Syntheses, SweepSynthesis(s) PROVE SynInv'
    BY <2>7, SynthesisSwept
  <2>8. ASSUME NEW a \in Artifacts, WriteByHand(a) PROVE SynInv'
    BY <2>8, WrittenByHand
  <2>9. CASE UNCHANGED synVars
    <3>1. UNCHANGED <<branch, lock, talked, picked, synthesis, outcomes, key, artifact, versions, work>>
      BY <2>9 DEF synVars
    <3>2. SynTypeOK'
      BY <3>1 DEF SynTypeOK, SynInv
    <3>3. SynthesesInv'
      BY <3>1, BranchesKeepSyntheses DEF SynInv, Branchy
    <3>4. BranchesInv'
      BY <3>1 DEF SynInv, BranchesInv, StatusIsTheirs, LockedExactlyWhileItRuns
    <3> QED
      BY <3>2, <3>3, <3>4 DEF SynInv
  <2> QED
    BY <2>1, <2>2, <2>3, <2>4, <2>5, <2>6, <2>7, <2>8, <2>9 DEF SynNext
<1> QED
  BY <1>1, <1>2, PTL DEF SynSpec

\* Rows, keys, versions and requests have their types throughout.
THEOREM SynthesesTyped == SynSpec => []SynTypeOK
<1>1. SynInv => SynTypeOK
  BY DEF SynInv
<1> QED
  BY <1>1, SynthesesSafe, PTL

\* The room's turn is locked exactly while a turn-locked branch runs, and nobody spoke in between.
THEOREM TurnIsLocked == SynSpec => []LockedExactlyWhileItRuns
<1>1. SynInv => LockedExactlyWhileItRuns
  BY DEF SynInv, BranchesInv
<1> QED
  BY <1>1, SynthesesSafe, PTL

\* A synthesis is heard of once, publishes at most one version, and a key is one synthesis's.
THEOREM SynthesesEndOnce == SynSpec => []OneOutcome
<1>1. SynInv => OneOutcome
  <2> SUFFICES ASSUME SynInv PROVE OneOutcome
    OBVIOUS
  <2>1. HeardOnce /\ KeysAreTheirs
    BY DEF SynInv, SynthesesInv
  <2>2. ASSUME NEW s \in Syntheses
        PROVE  /\ outcomes[s] = IF StatusOf(s) = "RUNNING" THEN 0 ELSE 1
               /\ Cardinality({ v \in versions : v.by = s }) = IF StatusOf(s) = "COMPLETED" THEN 1 ELSE 0
    <3>1. CASE StatusOf(s) = "COMPLETED"
      <4>1. PICK v \in versions : ByIt(s) = {v}
        BY <2>1, <3>1 DEF HeardOnce
      <4>2. Cardinality({v}) = 1
        BY FS_Singleton
      <4> QED
        BY <2>1, <3>1, <4>1, <4>2 DEF HeardOnce, ByIt
    <3>2. CASE StatusOf(s) # "COMPLETED"
      <4>1. ByIt(s) = {} /\ Cardinality({}) = 0
        BY <2>1, <3>2, FS_EmptySet DEF HeardOnce
      <4> QED
        BY <2>1, <3>2, <4>1 DEF HeardOnce, ByIt
    <3> QED
      BY <3>1, <3>2
  <2>3. \A s, t \in { y \in Syntheses : synthesis[y] # None } :
           synthesis[s].key = synthesis[t].key => s = t \/ synthesis[s].key = None
    BY <2>1 DEF KeysAreTheirs
  <2> QED
    BY <2>2, <2>3 DEF OneOutcome, StatusOf
<1> QED
  BY <1>1, SynthesesSafe, PTL

\* The versions of a document are one line up to its current one, and syntheses only extend
\* documents that a synthesis published.
THEOREM LineagesStayWhole == SynSpec => []LineagesAreWhole
<1>1. SynInv => LineagesAreWhole
  BY DEF SynInv, SynthesesInv, Whole, WholeLine, Own, LineagesAreWhole
<1> QED
  BY <1>1, SynthesesSafe, PTL
=============================================================================
