------------------------------- MODULE MCWork -------------------------------
(* Instances of the two modules about work a room asks of agents: three parts   *)
(* about agent tasks and two about branches and syntheses, chosen in the        *)
(* initial state.  In each part the other module stands still.                  *)
EXTENDS AgentTasks, BranchSynthesis

CONSTANTS t1, t2, t3, a1, a2, h1, s1, b1, b2, y1, y2, w1, w2, k1, x1, x2
VARIABLE part
workVars == <<taskVars, synVars, part>>

TaskParts == {"chain", "watch", "heal"}
BranchParts == {"lock", "race"}

MCInit ==
    /\ TaskInit /\ SynInit /\ part \in TaskParts \cup BranchParts
    /\ { a \in Artifacts : artifact[a] # None } \subseteq IF part = "race" THEN {x1} ELSE {}
    /\ part # "heal" => run = <<>>
    /\ part # "chain" => \A t \in Tasks \ {t1} : task[t] = NoTask

Unwatched == \A s \in Streams : stream'[s] = Quiet
(* Broadcasts change nothing that is not watched: each is made at once. *)
Drained == onAir # {} => onAir' \subseteq (onAir \ {CHOOSE n \in onAir : TRUE})
FromPeople == { t \in Tasks : task'[t] # NoTask /\ task'[t].by = NoAgent }

(* Agents are interchangeable: the first asked is a1. *)
AsksA1 == task'[t1] # NoTask => task'[t1].agent = a1

(* Delegation: t1 comes from a person, t2 and then t3 from agents.              *)
Chain ==
    /\ part = "chain" => /\ moves' = 0 /\ crashed' = 0 /\ refused' = 0 /\ Unwatched /\ Drained
                         /\ Cardinality(asks') <= 1 /\ FromPeople \subseteq {t1}
                         /\ (task'[t1] # NoTask => task'[t1].by = NoAgent)
                         /\ (task[t2] = NoTask => task'[t3] = NoTask)
(* One task is moved and watched over a stream; nothing fails.                  *)
Watch == part = "watch" => crashed' = 0 /\ refused' = 0 /\ startups' = 0
(* Crashes, refused starts, sweeps and a row an older process left behind.      *)
Heal == part = "heal" => Unwatched /\ Drained
OneTask == part # "chain" => asks' = {} /\ \A t \in Tasks \ {t1} : task'[t] = NoTask

(* Branches, turn lock and outputs; no synthesis.                               *)
Lock == part = "lock" => UNCHANGED <<synthesis, work, artifact, picks>>
Continued == \E v \in versions : v.by = "earlier"
Gates == {"outputs read", "selections read"}
(* One parallel branch; two workers, two syntheses, a document an earlier       *)
(* synthesis published or one written by hand.                                  *)
Race ==
    part = "race" =>
        /\ branch'[b2] = None /\ talked' = None
        /\ branch'[b1] # None => /\ branch'[b1].mode = "PARALLEL"
                                 /\ \A r \in {1, 2} : branch'[b1].runs[r] \in {"PENDING", "COMPLETED"}
        /\ work' # work => branch[b1] # None
        /\ branch'[b1] # branch[b1] => artifact' = artifact
        /\ \A k \in Keys : key'[k] # b1
        \* one request at a time is between its gates; selections move in them until there is a synthesis
        /\ Cardinality({ w \in Workers : work'[w].at \in Gates }) <= 1
        /\ (synthesis[y1] # None => picked' = picked)
        \* names are interchangeable: the first synthesis is y1, the document by hand x2
        /\ (synthesis[y1] = None => synthesis'[y2] = None)
        /\ (artifact'[x1] # None => ~artifact'[x1].byHand)
        /\ (Continued => artifact'[x2] = None /\ picks' <= 2 /\ \A k \in Keys : key'[k] = None)

MCNext ==
    /\ \/ /\ part \in TaskParts /\ TaskNext /\ UNCHANGED synVars
          /\ AsksA1 /\ Chain /\ Watch /\ Heal /\ OneTask
       \/ /\ part \in BranchParts /\ SynNext /\ UNCHANGED taskVars
          /\ Lock /\ Race
    /\ UNCHANGED part
MCSpec == MCInit /\ [][MCNext]_workVars /\ TaskFairness /\ SynFairness
=============================================================================
