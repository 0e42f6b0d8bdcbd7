-------------------------------- MODULE MCRoster --------------------------------
(* A workspace of three people, two rooms, two agents and two requests at once.  *)
EXTENDS Roster, TLC

VARIABLE part

PeopleOps == {"leave", "create", "remove", "expel", "invite", "role"}
Under == { q \in Requests : request'[q].op # "idle" }
Within ==
    /\ part = "people" => \A q \in Under : request'[q].op \in PeopleOps
    /\ part = "agents" => \A q \in Under : request'[q].op \notin PeopleOps \ {"invite"}
    /\ part = "people" => changes' = 0
    /\ part = "agents" => \A q \in Under : request'[q].by = owner

MCRosterInit == RosterInit /\ part \in {"people", "agents"}
MCRosterNext == RosterNext /\ Within /\ UNCHANGED part
MCRosterSpec == MCRosterInit /\ [][MCRosterNext]_<<rosterVars, part>>

Alike == Permutations(Users) \cup Permutations(Requests) \cup Permutations(Rooms)
             \cup Permutations(Names) \cup Permutations(Agents)
=============================================================================
