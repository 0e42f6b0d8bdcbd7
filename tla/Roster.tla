-------------------------------- MODULE Roster --------------------------------
(* Who is in a workspace and its rooms: people with roles, agents spawned from  *)
(* templates, and the handles they are addressed by (services/rooms.py,         *)
(* organizations.py, agents.py, security/authorization.py).  A request arrives, *)
(* may read something, and is carried out later in one transaction that judges  *)
(* its author again; whoever asked may have lost the right by then.             *)
EXTENDS Integers, Sequences, FiniteSets

CONSTANTS Users, Agents, Rooms, Names, Templates, Requests, Nobody,
          Foreign,         \* templates another workspace owns and may share
          MaxAsked, MaxChanges, MaxStays   \* bounds: requests, template changes, stays of an agent

(* agent_instances, with whom it answers to. *)
AgentRows == [r : Rooms, owner : Users \cup {Nobody}]

ASSUME RosterAssumption ==
    /\ IsFiniteSet(Users) /\ IsFiniteSet(Agents) /\ Nobody \notin AgentRows
    /\ Foreign \subseteq Templates /\ Users \cap Agents = {}
    /\ Nobody \notin Users \cup Agents /\ {MaxAsked, MaxChanges, MaxStays} \subseteq Nat

VARIABLES standing,        \* [Users -> workspace_members role, or "none"]
          owner,           \* bootstrap_contexts: whose workspace this is
          room,            \* [Rooms -> its name, or Nobody]
          member,          \* [Rooms -> [Users -> room_members role, or "none"]]
          agent,           \* [Agents -> Nobody or agent_instances with its addressing]
          stays,           \* [Agents -> Seq(still open)]: agent_room_memberships
          handle,          \* [Rooms -> [Users \cup Agents -> Nat]], 0: none
          template,        \* [Templates -> [deleted, shared]]
          request, asked, changes
rosterVars == <<standing, owner, room, member, agent, stays, handle, template, request, asked, changes>>

Participants == Users \cup Agents
IdleAsk == [op |-> "idle", by |-> Nobody, r |-> Nobody, who |-> Nobody, role |-> "none",
            read |-> Nobody]

RosterInit ==
    /\ standing = [u \in Users |-> "none"] /\ owner = Nobody
    /\ room = [r \in Rooms |-> Nobody]
    /\ member = [r \in Rooms |-> [u \in Users |-> "none"]]
    /\ agent = [a \in Agents |-> Nobody] /\ stays = [a \in Agents |-> <<>>]
    /\ handle = [r \in Rooms |-> [p \in Participants |-> 0]]
    /\ template = [t \in Templates |-> [deleted |-> FALSE, shared |-> t \in Foreign]]
    /\ request = [q \in Requests |-> IdleAsk] /\ asked = 0 /\ changes = 0

(* _ROLE_CAPABILITIES *)
Grants == [none |-> {}, viewer |-> {"read"}, editor |-> {"read", "mutate"},
           admin |-> {"read", "mutate", "administer"}]
Holds(u, r, capability) == capability \in Grants[member[r][u]]
Admins(r) == { u \in Users : member[r][u] = "admin" }
People(r) == { u \in Users : member[r][u] # "none" }
Seated(a) == stays[a] # <<>> /\ stays[a][Len(stays[a])]

(* _issue_handle: kept when there is one, else the first suffix the unique index  *)
(* takes.  The limit on attempts is left out.                                     *)
Held_ByPresent(h, r) ==
    { h[r][p] : p \in People(r) \cup { a \in Agents : Seated(a) /\ agent[a].r = r } }
Held(h, r) == { h[r][p] : p \in Participants }
FreeHandle(h, r) ==
    CHOOSE n \in 1 .. Cardinality(Participants) :
        n \notin Held(h, r) /\ \A m \in 1 .. n - 1 : m \in Held(h, r)
Addressed(h, r, p) == IF h[r][p] # 0 THEN h ELSE [h EXCEPT ![r][p] = FreeHandle(h, r)]

-----------------------------------------------------------------------------
(* bootstrap_user_workspace, the first time; later calls change nothing.          *)
Bootstrap(u, r, n) ==
    /\ owner = Nobody /\ owner' = u
    /\ standing' = [standing EXCEPT ![u] = "admin"]
    /\ room' = [room EXCEPT ![r] = n] /\ member' = [member EXCEPT ![r][u] = "admin"]
    /\ handle' = Addressed(handle, r, u)
    /\ UNCHANGED <<agent, stays, template, request, asked, changes>>

Needs == [invite |-> "mutate", role |-> "administer", remove |-> "administer", spawn |-> "mutate",
          dismiss |-> "administer", rejoin |-> "administer", address |-> "administer"]

(* A request is authenticated and its route reads what it reads.                 *)
Usable(t) == ~template[t].deleted /\ (t \in Foreign => template[t].shared)
Ask(q, op, u, r, who, role) ==
    /\ request[q].op = "idle" /\ asked < MaxAsked /\ asked' = asked + 1
    /\ op = "spawn" => Usable(role)
    /\ op \in {"role", "remove"} => who # u
    /\ op \in {"dismiss", "rejoin", "address"} => agent[who] # Nobody /\ agent[who].r = r
    /\ request' = [request EXCEPT ![q] =
           [op |-> op, by |-> u, r |-> r, who |-> who, role |-> role,
            read |-> IF op = "address" THEN agent[who].owner ELSE Nobody]]
    /\ UNCHANGED <<standing, owner, room, member, agent, stays, handle, template, changes>>

(* _require_capability_in_transaction *)
Fence(q) == Holds(q.by, q.r, Needs[q.op])

Carries(q, op) == request[q].op = op /\ request' = [request EXCEPT ![q] = IdleAsk]
Refused(q) ==
    /\ request[q].op # "idle" /\ request' = [request EXCEPT ![q] = IdleAsk]
    /\ UNCHANGED <<standing, owner, room, member, agent, stays, handle, template, asked, changes>>
RoomOnly == UNCHANGED <<owner, room, template, asked, changes>>
AgentsStay == UNCHANGED <<agent, stays>>

-----------------------------------------------------------------------------
(* People.                                                                      *)
StandingAfterInvite(u) == IF standing[u] = "none" THEN [standing EXCEPT ![u] = "member"] ELSE standing

InviteRoomMember(q) ==
    LET m == request[q] IN
    /\ Carries(q, "invite") /\ Fence(m) /\ member[m.r][m.who] = "none"
    /\ member' = [member EXCEPT ![m.r][m.who] = m.role]
    /\ standing' = StandingAfterInvite(m.who) /\ handle' = Addressed(handle, m.r, m.who)
    /\ RoomOnly /\ AgentsStay

(* What leave_room and a demotion must not do. *)
LastAdmin_CountsSelf(r, u) == Admins(r) = {}
LastAdmin(r, u) == Admins(r) = {u}
LeaveRoom(q) ==
    LET m == request[q] IN
    /\ Carries(q, "leave") /\ member[m.r][m.by] # "none"
    /\ ~(LastAdmin(m.r, m.by) /\ People(m.r) # {m.by})
    /\ member' = [member EXCEPT ![m.r][m.by] = "none"]
    /\ UNCHANGED <<standing, handle>> /\ RoomOnly /\ AgentsStay
UpdateRoomMemberRole(q) ==
    LET m == request[q] IN
    /\ Carries(q, "role") /\ Fence(m) /\ member[m.r][m.who] \notin {"none", m.role}
    /\ ~LastAdmin(m.r, m.who)
    /\ member' = [member EXCEPT ![m.r][m.who] = m.role]
    /\ UNCHANGED <<standing, handle>> /\ RoomOnly /\ AgentsStay
RemoveRoomMember(q) ==
    LET m == request[q] IN
    /\ Carries(q, "remove") /\ Fence(m) /\ member[m.r][m.who] \notin {"none", "admin"}
    /\ member' = [member EXCEPT ![m.r][m.who] = "none"]
    /\ UNCHANGED <<standing, handle>> /\ RoomOnly /\ AgentsStay
RemoveWorkspaceMember(q) ==
    LET m == request[q] IN
    /\ Carries(q, "expel") /\ standing[m.by] = "admin" /\ standing[m.who] # "none"
    /\ member' = [r \in Rooms |-> [member[r] EXCEPT ![m.who] = "none"]]
    /\ standing' = [standing EXCEPT ![m.who] = "none"]
    /\ UNCHANGED handle /\ RoomOnly /\ AgentsStay
NamesRoom(r, n) == room' = [room EXCEPT ![r] = n]
CreateRoom(q) ==
    LET m == request[q] IN
    /\ Carries(q, "create") /\ standing[m.by] # "none"
    /\ room[m.r] = Nobody /\ \A r \in Rooms : room[r] # m.role
    /\ NamesRoom(m.r, m.role)
    /\ member' = [member EXCEPT ![m.r][m.by] = "admin"] /\ handle' = Addressed(handle, m.r, m.by)
    /\ UNCHANGED <<standing, owner, template, asked, changes>> /\ AgentsStay

(* create_room from a room template: the agent it names is spawned in the same     *)
(* transaction, which judges its template afresh, deleted ones too.               *)
CreateRoomFromTemplate(q) ==
    LET m == request[q] IN
    /\ Carries(q, "furnish") /\ standing[m.by] # "none"
    /\ room[m.r] = Nobody /\ \E n \in Names : (\A r \in Rooms : room[r] # n) /\ NamesRoom(m.r, n)
    /\ Usable(m.role) /\ agent[m.who] = Nobody
    /\ member' = [member EXCEPT ![m.r][m.by] = "admin"]
    /\ agent' = [agent EXCEPT ![m.who] = [r |-> m.r, owner |-> m.by]]
    /\ stays' = [stays EXCEPT ![m.who] = <<TRUE>>]
    /\ handle' = Addressed(Addressed(handle, m.r, m.by), m.r, m.who)
    /\ UNCHANGED <<standing, owner, template, asked, changes>>

-----------------------------------------------------------------------------
(* Agents.                                                                      *)

(* spawn_agent: a template of another workspace is read again, though not whether  *)
(* it was deleted meanwhile.                                                      *)
SpawnWrites(m) ==
    /\ m.role \in Foreign => template[m.role].shared
    /\ agent' = [agent EXCEPT ![m.who] = [r |-> m.r, owner |-> m.by]]
    /\ stays' = [stays EXCEPT ![m.who] = <<TRUE>>]
    /\ handle' = Addressed(handle, m.r, m.who)
SpawnAgent(q) ==
    LET m == request[q] IN
    /\ Carries(q, "spawn") /\ Fence(m) /\ agent[m.who] = Nobody /\ SpawnWrites(m)
    /\ UNCHANGED <<standing, member>> /\ RoomOnly

Released(r, a) == [handle EXCEPT ![r][a] = 0]
Closed(s) == [i \in DOMAIN s |-> FALSE]
RemoveAgentFromRoom(q) ==
    LET m == request[q] IN
    /\ Carries(q, "dismiss") /\ Fence(m)
    /\ stays' = [stays EXCEPT ![m.who] = Closed(@)]
    /\ handle' = Released(m.r, m.who)
    /\ UNCHANGED <<standing, member, agent>> /\ RoomOnly

Rejoined(s) == Append(s, TRUE)
RejoinAgentToRoom(q) ==
    LET m == request[q] IN
    /\ Carries(q, "rejoin") /\ Fence(m) /\ ~Seated(m.who) /\ Len(stays[m.who]) < MaxStays
    /\ stays' = [stays EXCEPT ![m.who] = Rejoined(@)]
    /\ handle' = Addressed(handle, m.r, m.who)
    /\ UNCHANGED <<standing, member, agent>> /\ RoomOnly

(* set_agent_addressing: the owner it does not change is the one it read first.    *)
SetAgentAddressing(q) ==
    LET m == request[q] IN
    /\ Carries(q, "address") /\ Fence(m)
    /\ agent' = [agent EXCEPT ![m.who].owner = IF m.role = Nobody THEN m.read ELSE m.role]
    /\ UNCHANGED <<standing, member, stays, handle>> /\ RoomOnly

(* delete_, share_ and unshare_agent_template, by those who own the template.      *)
ChangeTemplate(t) ==
    /\ ~template[t].deleted /\ changes < MaxChanges /\ changes' = changes + 1
    /\ \/ template' = [template EXCEPT ![t].deleted = TRUE]
       \/ t \in Foreign /\ template' = [template EXCEPT ![t].shared = ~@]
    /\ UNCHANGED <<standing, owner, room, member, agent, stays, handle, request, asked>>

-----------------------------------------------------------------------------
Arrives(q, u, r) ==
    \/ Ask(q, "leave", u, r, u, "none")
    \/ \E n \in Names : Ask(q, "create", u, r, u, n)
    \/ \E who \in Users :
          \/ Ask(q, "remove", u, r, who, "none") \/ Ask(q, "expel", u, r, who, "none")
          \/ \E role \in {"viewer", "editor"} : Ask(q, "invite", u, r, who, role)
          \/ \E role \in {"viewer", "editor", "admin"} : Ask(q, "role", u, r, who, role)
    \/ \E a \in Agents :
          \/ \E t \in Templates : Ask(q, "spawn", u, r, a, t) \/ Ask(q, "furnish", u, r, a, t)
          \/ Ask(q, "dismiss", u, r, a, "none") \/ Ask(q, "rejoin", u, r, a, "none")
          \/ \E who \in Users \cup {Nobody} : Ask(q, "address", u, r, a, who)

CarriedOut(q) ==
    \/ InviteRoomMember(q) \/ LeaveRoom(q) \/ UpdateRoomMemberRole(q) \/ RemoveRoomMember(q)
    \/ RemoveWorkspaceMember(q) \/ CreateRoom(q) \/ CreateRoomFromTemplate(q)
    \/ SpawnAgent(q) \/ RemoveAgentFromRoom(q) \/ RejoinAgentToRoom(q) \/ SetAgentAddressing(q)

RosterNext ==
    \/ \E u \in Users, r \in Rooms, n \in Names : Bootstrap(u, r, n)
    \/ \E q \in Requests, u \in Users, r \in Rooms : owner # Nobody /\ Arrives(q, u, r)
    \/ \E q \in Requests : CarriedOut(q) \/ Refused(q)
    \/ \E t \in Templates : ChangeTemplate(t)
RosterSpec == RosterInit /\ [][RosterNext]_rosterVars

-----------------------------------------------------------------------------
(* "The channel must always keep one", as far as the code goes: only a removal     *)
(* from the workspace, which counts no admins, takes the last admin of a room that *)
(* still has members -- leaving, demoting and removing never do, in whatever order *)
(* admins do it to each other.  And nobody becomes admin of a room that exists but *)
(* by somebody who is admin of it at that moment, whatever they were when they     *)
(* asked.                                                                        *)
AdminsChangeHands ==
    [][\A r \in Rooms :
        /\ Admins(r) # {} /\ Admins(r)' = {} /\ People(r)' # {} => standing' # standing
        /\ \A u \in Admins(r)' \ Admins(r) :
              room[r] # Nobody =>
                  \E q \in Requests : request'[q] # request[q] /\ request[q].by \in Admins(r) \ {u}
      ]_rosterVars

(* Whoever is in a room is in its workspace, through invitations, rooms created by *)
(* somebody being removed, and removals from the workspace that run beside them;   *)
(* and has a handle there that names nobody else.  An agent that left holds none,  *)
(* however often agents and people come and go.                                   *)
MembersHaveTheirPlace ==
    \A r \in Rooms :
        /\ \A u \in People(r) : standing[u] # "none" /\ handle[r][u] # 0
        /\ \A p, o \in Participants : handle[r][p] = handle[r][o] /\ p # o => handle[r][p] = 0
        /\ \A a \in Agents : handle[r][a] # 0 <=> (agent[a] # Nobody /\ agent[a].r = r /\ Seated(a))
=============================================================================
