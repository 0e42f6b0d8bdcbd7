----------------------------- MODULE RosterProofs -----------------------------
(***************************************************************************)
(* Who is where, for any number of people, agents, rooms and requests:     *)
(* whoever is in a room is in the workspace and is addressed by a handle of *)
(* their own, a handle of an agent is held exactly while it is seated, and  *)
(* a room passes from admin to admin.  The invariant is RosterInv: the rows *)
(* are typed, a request under way knows of its author, room and agent what  *)
(* its route read and no step can undo (AsksKnow), and places are right.    *)
(***************************************************************************)
EXTENDS Roster, FiniteSetTheorems, WellFoundedInduction, SequenceTheorems, TLAPS

Roles == {"none", "viewer", "editor", "admin"}

\* The types of the rows.
RosterTypeOK ==
    /\ standing \in [Users -> {"none", "member", "admin"}]
    /\ owner \in Users \cup {Nobody}
    /\ room \in [Rooms -> Names \cup {Nobody}]
    /\ member \in [Rooms -> [Users -> Roles]]
    /\ agent \in [Agents -> AgentRows \cup {Nobody}]
    /\ stays \in [Agents -> Seq(BOOLEAN)]
    /\ handle \in [Rooms -> [Participants -> Nat]]
    /\ template \in [Templates -> [deleted : BOOLEAN, shared : BOOLEAN]]
    /\ request = [q \in Requests |-> request[q]]

\* What a route lets through, and what it read that stays so.
KnowsPeople(m) ==
    /\ m.op # "idle" => m.by \in Users /\ m.r \in Rooms
    /\ m.op \in {"invite", "role", "remove", "expel"} => m.who \in Users
    /\ m.op = "invite" => m.role \in {"viewer", "editor"}
    /\ m.op = "role" => m.role \in {"viewer", "editor", "admin"} /\ m.who # m.by
    /\ m.op = "create" => m.role \in Names
KnowsAgents(m, rows) ==
    /\ m.op \in {"spawn", "furnish", "dismiss", "rejoin", "address"} => m.who \in Agents
    /\ m.op \in {"dismiss", "rejoin", "address"} => rows[m.who] # Nobody /\ rows[m.who].r = m.r
    /\ m.op = "address" => m.role \in Users \cup {Nobody} /\ m.read \in Users \cup {Nobody}
AsksKnow == \A q \in Requests : KnowsPeople(request[q]) /\ KnowsAgents(request[q], agent)

\* Before the workspace is bootstrapped it has no room, and nobody asks for one.
Unopened ==
    owner = Nobody =>
        (\A r \in Rooms : room[r] = Nobody) /\ \A q \in Requests : request[q].op = "idle"

\* The three promises of MembersHaveTheirPlace, each for itself.
PeoplePlaced ==
    \A r \in Rooms, u \in Users : member[r][u] # "none" => standing[u] # "none" /\ handle[r][u] # 0
Apartness(h) ==
    \A r \in Rooms : \A p, o \in Participants : h[r][p] = h[r][o] /\ p # o => h[r][p] = 0
Distinct == Apartness(handle)
AgentsPlaced ==
    \A r \in Rooms, a \in Agents :
        handle[r][a] # 0 <=> agent[a] # Nobody /\ agent[a].r = r /\ Seated(a)

RosterInv ==
    RosterTypeOK /\ AsksKnow /\ Unopened /\ PeoplePlaced /\ Distinct /\ AgentsPlaced

-----------------------------------------------------------------------------
(* Handles.                                                                     *)

\* There are finitely many to be addressed.
LEMMA ParticipantsFinite ==
    IsFiniteSet(Participants) /\ Cardinality(Participants) \in Nat
<1>1. IsFiniteSet(Users) /\ IsFiniteSet(Agents)
  BY RosterAssumption
<1>2. IsFiniteSet(Participants)
  BY <1>1, FS_Union DEF Participants
<1> QED BY <1>2, FS_CardinalityType

\* A set of numbers that is not empty has a least one.
LEMMA LeastOne ==
    ASSUME NEW T \in SUBSET Nat, T # {}
    PROVE  \E n \in T : \A m \in T : ~(m < n)
<1>1. PICK R : R = OpToRel(<, Nat)
  OBVIOUS
<1>2. IsWellFoundedOn(R, Nat)
  BY <1>1, NatLessThanWellFounded
<1>3. PICK n \in T : \A m \in T : ~(<<m, n>> \in R)
  BY <1>2, WFMin
<1>4. ASSUME NEW m \in T, m < n
      PROVE  FALSE
  <2>1. <<m, n>> \in Nat \X Nat
    BY <1>3
  <2>2. <<m, n>> \in R
    BY <1>1, <1>4, <2>1 DEF OpToRel
  <2> QED BY <1>3, <2>2
<1> QED BY <1>3, <1>4

\* One whom no handle addresses leaves a number free, up to as many as there are.
LEMMA SomeHandleIsFree ==
    ASSUME NEW h, NEW r \in Rooms, NEW p \in Participants, h[r][p] = 0
    PROVE  \E n \in 1 .. Cardinality(Participants) : n \notin Held(h, r)
<1> DEFINE N == Cardinality(Participants)
           Q == { x \in Participants : h[r][x] \in 1 .. N }
           f == [x \in Q |-> h[r][x]]
<1>0. IsFiniteSet(Participants) /\ N \in Nat
  BY ParticipantsFinite
<1> HIDE DEF N
<1> SUFFICES ASSUME \A n \in 1 .. N : n \in Held(h, r)
             PROVE  FALSE
  BY DEF N
<1>1. f \in [Q -> 1 .. N]
  OBVIOUS
<1>2. \A n \in 1 .. N : \E x \in Q : f[x] = n
  BY DEF Held
<1>3. f \in Surjection(Q, 1 .. N)
  BY <1>1, <1>2 DEF Surjection
<1>4. p \notin Q /\ Q \subseteq Participants \ {p}
  OBVIOUS
<1>5. /\ IsFiniteSet(Participants \ {p})
      /\ Cardinality(Participants \ {p}) = N - 1
  BY <1>0, FS_RemoveElement DEF N
<1>6. IsFiniteSet(Q) /\ Cardinality(Q) <= N - 1
  BY <1>4, <1>5, FS_Subset
<1>7. Cardinality(Q) \in Nat
  BY <1>6, FS_CardinalityType
<1>8. Cardinality(1 .. N) <= Cardinality(Q)
  BY <1>3, <1>6, FS_Surjection
<1>9. Cardinality(1 .. N) = N
  <2>1. Cardinality(1 .. N) = IF 1 > N THEN 0 ELSE N - 1 + 1
    BY <1>0, FS_Interval
  <2> QED BY <1>0, <2>1
<1> QED BY <1>0, <1>6, <1>7, <1>8, <1>9

\* The first number that is free addresses nobody.
LEMMA FreeHandleIsFree ==
    ASSUME NEW h, NEW r \in Rooms, NEW p \in Participants, h[r][p] = 0
    PROVE  FreeHandle(h, r) \in Nat \ {0} /\ FreeHandle(h, r) \notin Held(h, r)
<1>1. PICK N : N = Cardinality(Participants)
  OBVIOUS
<1>2. N \in Nat
  BY <1>1, ParticipantsFinite
<1>3. PICK T : T = { n \in 1 .. N : n \notin Held(h, r) }
  OBVIOUS
<1>4. T \in SUBSET Nat /\ T # {}
  <2>1. \E n \in 1 .. N : n \notin Held(h, r)
    BY <1>1, SomeHandleIsFree
  <2> QED BY <1>2, <1>3, <2>1
<1>5. PICK n \in T : \A m \in T : ~(m < n)
  BY <1>4, LeastOne
<1>6. n \in 1 .. N /\ n \notin Held(h, r) /\ \A m \in 1 .. n - 1 : m \in Held(h, r)
  BY <1>2, <1>3, <1>5
<1>7. FreeHandle(h, r) \in 1 .. N /\ FreeHandle(h, r) \notin Held(h, r)
  BY <1>1, <1>6 DEF FreeHandle
<1> QED BY <1>2, <1>7

\* Whoever is given a handle has one afterwards that names nobody else; the others
\* keep theirs.
LEMMA AddressedKeeps ==
    ASSUME NEW h \in [Rooms -> [Participants -> Nat]], Apartness(h), NEW r \in Rooms, NEW p \in Participants,
           NEW g, g = Addressed(h, r, p)
    PROVE  /\ g \in [Rooms -> [Participants -> Nat]] /\ Apartness(g)
           /\ g[r][p] # 0
           /\ \A s \in Rooms, o \in Participants : s # r \/ o # p => g[s][o] = h[s][o]
           /\ \A s \in Rooms, o \in Participants : h[s][o] # 0 => g[s][o] = h[s][o]
<1>1. CASE h[r][p] # 0
  <2>1. g = h
    BY <1>1 DEF Addressed
  <2> QED BY <1>1, <2>1
<1>2. CASE h[r][p] = 0
  <2>1. PICK n : n = FreeHandle(h, r)
    OBVIOUS
  <2>2. n \in Nat \ {0} /\ n \notin Held(h, r)
    BY <1>2, <2>1, FreeHandleIsFree
  <2>3. g = [h EXCEPT ![r][p] = n]
    BY <1>2, <2>1 DEF Addressed
  <2>4. g \in [Rooms -> [Participants -> Nat]]
    BY <2>2, <2>3
  <2>5. /\ g[r][p] = n
        /\ \A s \in Rooms, o \in Participants : s # r \/ o # p => g[s][o] = h[s][o]
    BY <2>3
  <2>6. \A o \in Participants : h[r][o] # n
    BY <2>2 DEF Held
  <2>7. Apartness(g)
    <3> SUFFICES ASSUME NEW s \in Rooms, NEW x \in Participants, NEW o \in Participants,
                        g[s][x] = g[s][o], x # o
                 PROVE  g[s][x] = 0
      BY DEF Apartness
    <3>1. CASE s = r /\ x = p
      BY <2>5, <2>6, <3>1
    <3>2. CASE s = r /\ o = p
      BY <2>5, <2>6, <3>2
    <3>3. CASE ~(s = r /\ x = p) /\ ~(s = r /\ o = p)
      <4>1. g[s][x] = h[s][x] /\ g[s][o] = h[s][o]
        BY <2>5, <3>3
      <4> QED BY <4>1 DEF Apartness
    <3> QED BY <3>1, <3>2, <3>3
  <2> QED BY <1>2, <2>2, <2>4, <2>5, <2>7
<1> QED BY <1>1, <1>2

\* So the handles of the rooms stay apart when one more is given.
LEMMA HandlesKept ==
    ASSUME RosterTypeOK, Distinct, NEW r \in Rooms, NEW p \in Participants,
           handle' = Addressed(handle, r, p)
    PROVE  /\ handle' \in [Rooms -> [Participants -> Nat]] /\ Distinct'
           /\ handle'[r][p] # 0
           /\ \A s \in Rooms, o \in Participants : s # r \/ o # p => handle'[s][o] = handle[s][o]
           /\ \A s \in Rooms, o \in Participants : handle[s][o] # 0 => handle'[s][o] = handle[s][o]
<1>1. handle \in [Rooms -> [Participants -> Nat]]
  BY DEF RosterTypeOK
<1>2. Apartness(handle)
  BY DEF Distinct
<1>3. PICK h : h = handle
  OBVIOUS
<1>4. PICK g : g = Addressed(h, r, p)
  OBVIOUS
<1>5. /\ g \in [Rooms -> [Participants -> Nat]] /\ Apartness(g)
      /\ g[r][p] # 0
      /\ \A s \in Rooms, o \in Participants : s # r \/ o # p => g[s][o] = h[s][o]
      /\ \A s \in Rooms, o \in Participants : h[s][o] # 0 => g[s][o] = h[s][o]
  BY <1>1, <1>2, <1>3, <1>4, AddressedKeeps
<1>6. handle' = g
  BY <1>3, <1>4
<1>7. Distinct'
  BY <1>5, <1>6 DEF Distinct, Apartness
<1> QED BY <1>3, <1>5, <1>6, <1>7

\* An agent that leaves has none, and the others keep theirs.
LEMMA ReleasedKeeps ==
    ASSUME RosterTypeOK, Distinct, NEW r \in Rooms, NEW a \in Agents,
           handle' = Released(r, a)
    PROVE  /\ handle' \in [Rooms -> [Participants -> Nat]] /\ Distinct'
           /\ handle'[r][a] = 0
           /\ \A s \in Rooms, o \in Participants : s # r \/ o # a => handle'[s][o] = handle[s][o]
<1>0. handle \in [Rooms -> [Participants -> Nat]] /\ a \in Participants
  BY DEF RosterTypeOK, Participants
<1>1. handle' = [handle EXCEPT ![r][a] = 0]
  BY DEF Released
<1>2. handle' \in [Rooms -> [Participants -> Nat]]
  BY <1>0, <1>1
<1>3. /\ handle'[r][a] = 0
      /\ \A s \in Rooms, o \in Participants : s # r \/ o # a => handle'[s][o] = handle[s][o]
  BY <1>0, <1>1
<1>4. Distinct'
  <2> SUFFICES ASSUME NEW s \in Rooms, NEW x \in Participants, NEW o \in Participants,
                      handle'[s][x] = handle'[s][o], x # o
               PROVE  handle'[s][x] = 0
    BY DEF Distinct, Apartness
  <2>1. CASE s = r /\ x = a
    BY <1>3, <2>1
  <2>2. CASE s = r /\ o = a
    BY <1>3, <2>2
  <2>3. CASE ~(s = r /\ x = a) /\ ~(s = r /\ o = a)
    <3>1. handle'[s][x] = handle[s][x] /\ handle'[s][o] = handle[s][o]
      BY <1>3, <2>3
    <3> QED BY <3>1 DEF Distinct, Apartness
  <2> QED BY <2>1, <2>2, <2>3
<1> QED BY <1>2, <1>3, <1>4

-----------------------------------------------------------------------------
(* What a step leaves alone.                                                    *)

\* Agents stay where they are, whoever they answer to.
AgentsHere ==
    \A a \in Agents : agent[a] # Nobody => agent'[a] # Nobody /\ agent'[a].r = agent[a].r

\* A request that is carried out, or refused, takes nothing from the others.
LEMMA CarriedKnow ==
    ASSUME RosterInv, NEW q \in Requests, request' = [request EXCEPT ![q] = IdleAsk], AgentsHere
    PROVE  /\ request' = [p \in Requests |-> request'[p]] /\ AsksKnow'
           /\ request'[q].op = "idle"
           /\ \A p \in Requests : p # q => request'[p] = request[p]
<1>0. request = [p \in Requests |-> request[p]]
  BY DEF RosterInv, RosterTypeOK
<1>1. /\ request' = [p \in Requests |-> request'[p]]
      /\ request'[q] = IdleAsk
      /\ \A p \in Requests : p # q => request'[p] = request[p]
  BY <1>0
<1>2. IdleAsk.op = "idle"
  BY DEF IdleAsk
<1>3. ASSUME NEW p \in Requests
      PROVE  KnowsPeople(request'[p]) /\ KnowsAgents(request'[p], agent')
  <2>1. CASE p = q
    BY <1>1, <1>2, <2>1 DEF KnowsPeople, KnowsAgents
  <2>2. CASE p # q
    <3>1. KnowsPeople(request[p]) /\ KnowsAgents(request[p], agent) /\ request'[p] = request[p]
      BY <1>1, <2>2 DEF RosterInv, AsksKnow
    <3>2. KnowsAgents(request[p], agent')
      BY <3>1 DEF KnowsAgents, AgentsHere
    <3> QED BY <3>1, <3>2
  <2> QED BY <2>1, <2>2
<1>4. AsksKnow'
  BY <1>3 DEF AsksKnow
<1> QED BY <1>1, <1>2, <1>4

\* Where agents, their stays and their handles rest, agents are placed.
LEMMA AgentsRest ==
    ASSUME RosterInv, UNCHANGED <<agent, stays>>,
           \A r \in Rooms, a \in Agents : handle'[r][a] = handle[r][a]
    PROVE  AgentsPlaced' /\ AgentsHere
BY DEF RosterInv, AgentsPlaced, AgentsHere, Seated

\* Nobody loses their place where members, their standing and handles stay.
LEMMA PeopleRest ==
    ASSUME RosterInv, \A r \in Rooms, u \in Users : member'[r][u] # "none" => member[r][u] # "none",
           UNCHANGED standing,
           \A r \in Rooms, u \in Users : handle[r][u] # 0 => handle'[r][u] # 0
    PROVE  PeoplePlaced'
BY DEF RosterInv, PeoplePlaced

\* A request under way says that the workspace is there.
LEMMA OpenedByAsks ==
    ASSUME RosterInv, NEW q \in Requests, request[q].op # "idle"
    PROVE  owner # Nobody
BY DEF RosterInv, Unopened

\* Users and agents are apart.
LEMMA Apart ==
    /\ \A u \in Users : u \in Participants /\ u \notin Agents /\ u # Nobody
    /\ \A a \in Agents : a \in Participants /\ a \notin Users /\ a # Nobody
    /\ Nobody \notin AgentRows
BY RosterAssumption DEF Participants

\* A room's role of one person changes, and no other.
LEMMA RoleMoves ==
    ASSUME RosterTypeOK, NEW r \in Rooms, NEW u \in Users, NEW role \in Roles,
           member' = [member EXCEPT ![r][u] = role]
    PROVE  /\ member' \in [Rooms -> [Users -> Roles]] /\ member'[r][u] = role
           /\ \A s \in Rooms, v \in Users : s # r \/ v # u => member'[s][v] = member[s][v]
<1>1. member \in [Rooms -> [Users -> Roles]]
  BY DEF RosterTypeOK
<1> QED BY <1>1

-----------------------------------------------------------------------------
(* People.                                                                      *)

\* Somebody who has standing, and a handle in the room, gets a role in it.
LEMMA NewPerson ==
    ASSUME RosterInv, NEW r \in Rooms, NEW u \in Users, NEW role \in Roles,
           member' = [member EXCEPT ![r][u] = role], standing'[u] # "none", handle'[r][u] # 0,
           \A v \in Users : standing[v] # "none" => standing'[v] # "none",
           \A s \in Rooms, o \in Participants : handle[s][o] # 0 => handle'[s][o] # 0
    PROVE  member' \in [Rooms -> [Users -> Roles]] /\ PeoplePlaced'
<1>0. RosterTypeOK /\ PeoplePlaced
  BY DEF RosterInv
<1>1. /\ member' \in [Rooms -> [Users -> Roles]]
      /\ \A s \in Rooms, v \in Users : s # r \/ v # u => member'[s][v] = member[s][v]
  BY <1>0, RoleMoves
<1>2. ASSUME NEW s \in Rooms, NEW v \in Users, member'[s][v] # "none"
      PROVE  standing'[v] # "none" /\ handle'[s][v] # 0
  <2>1. CASE s = r /\ v = u
    BY <2>1
  <2>2. CASE s # r \/ v # u
    <3>1. member[s][v] # "none"
      BY <1>1, <1>2, <2>2
    <3>2. standing[v] # "none" /\ handle[s][v] # 0
      BY <1>0, <3>1 DEF PeoplePlaced
    <3>3. v \in Participants
      BY Apart
    <3> QED BY <3>2, <3>3
  <2> QED BY <2>1, <2>2
<1> QED BY <1>1, <1>2 DEF PeoplePlaced

\* Somebody joins a room they have standing for, and is addressed there.
LEMMA JoinPlaces ==
    ASSUME RosterInv, NEW r \in Rooms, NEW u \in Users, NEW role \in Roles,
           member' = [member EXCEPT ![r][u] = role],
           standing' \in [Users -> {"none", "member", "admin"}], standing'[u] # "none",
           \A v \in Users : standing[v] # "none" => standing'[v] # "none",
           handle' = Addressed(handle, r, u), UNCHANGED <<agent, stays>>
    PROVE  /\ member' \in [Rooms -> [Users -> Roles]]
           /\ handle' \in [Rooms -> [Participants -> Nat]]
           /\ PeoplePlaced' /\ Distinct' /\ AgentsPlaced' /\ AgentsHere
<1>0. RosterTypeOK /\ Distinct
  BY DEF RosterInv
<1>1. u \in Participants /\ u \notin Agents
  BY Apart
<1>2. /\ handle' \in [Rooms -> [Participants -> Nat]] /\ Distinct'
      /\ handle'[r][u] # 0
      /\ \A s \in Rooms, o \in Participants : s # r \/ o # u => handle'[s][o] = handle[s][o]
      /\ \A s \in Rooms, o \in Participants : handle[s][o] # 0 => handle'[s][o] = handle[s][o]
  BY <1>0, <1>1, HandlesKept
<1>3. member' \in [Rooms -> [Users -> Roles]] /\ PeoplePlaced'
  BY <1>2, NewPerson
<1>4. \A s \in Rooms, a \in Agents : handle'[s][a] = handle[s][a]
  BY <1>1, <1>2, Apart
<1>5. AgentsPlaced' /\ AgentsHere
  BY <1>4, AgentsRest
<1> QED BY <1>2, <1>3, <1>5

\* The workspace begins with one admin in one room.
LEMMA BootstrapKeeps ==
    ASSUME RosterInv, NEW u \in Users, NEW r \in Rooms, NEW n \in Names, Bootstrap(u, r, n)
    PROVE  RosterInv'
<1>0. RosterTypeOK
  BY DEF RosterInv
<1>1. PICK role : role = "admin"
  OBVIOUS
<1>2. role \in Roles /\ member' = [member EXCEPT ![r][u] = role]
  BY <1>1 DEF Bootstrap, Roles
<1>3. /\ standing' \in [Users -> {"none", "member", "admin"}] /\ standing'[u] # "none"
      /\ \A v \in Users : standing[v] # "none" => standing'[v] # "none"
  BY <1>0 DEF Bootstrap, RosterTypeOK
<1>4. handle' = Addressed(handle, r, u) /\ UNCHANGED <<agent, stays, template, request>>
  BY DEF Bootstrap
<1>5. /\ member' \in [Rooms -> [Users -> Roles]]
      /\ handle' \in [Rooms -> [Participants -> Nat]]
      /\ PeoplePlaced' /\ Distinct' /\ AgentsPlaced' /\ AgentsHere
  BY <1>2, <1>3, <1>4, JoinPlaces
<1>6. owner' = u /\ owner' \in Users \cup {Nobody} /\ owner' # Nobody
  BY Apart DEF Bootstrap
<1>7. room' \in [Rooms -> Names \cup {Nobody}]
  BY <1>0 DEF Bootstrap, RosterTypeOK
<1>8. RosterTypeOK'
  BY <1>0, <1>3, <1>4, <1>5, <1>6, <1>7 DEF RosterTypeOK
<1>9. AsksKnow'
  BY <1>4 DEF RosterInv, AsksKnow
<1>10. Unopened'
  BY <1>6 DEF Unopened
<1> QED BY <1>5, <1>8, <1>9, <1>10 DEF RosterInv

\* A request is carried out on people: what is left to show of each.
LEMMA CarriedOnPeople ==
    ASSUME RosterInv, NEW q \in Requests, request[q].op # "idle",
           request' = [request EXCEPT ![q] = IdleAsk],
           standing' \in [Users -> {"none", "member", "admin"}],
           room' \in [Rooms -> Names \cup {Nobody}],
           member' \in [Rooms -> [Users -> Roles]], handle' \in [Rooms -> [Participants -> Nat]],
           UNCHANGED <<owner, agent, stays, template>>,
           PeoplePlaced', Distinct', AgentsPlaced', AgentsHere
    PROVE  RosterInv'
<1>0. RosterTypeOK
  BY DEF RosterInv
<1>1. request' = [p \in Requests |-> request'[p]] /\ AsksKnow'
  BY CarriedKnow
<1>2. owner # Nobody
  BY OpenedByAsks
<1>3. Unopened'
  BY <1>2 DEF Unopened
<1>4. RosterTypeOK'
  BY <1>0, <1>1 DEF RosterTypeOK
<1> QED BY <1>1, <1>3, <1>4 DEF RosterInv

\* An invitation makes a member of the workspace as well.
LEMMA InviteKeeps ==
    ASSUME RosterInv, NEW q \in Requests, InviteRoomMember(q)
    PROVE  RosterInv'
<1>0. RosterTypeOK
  BY DEF RosterInv
<1>1. PICK m : m = request[q]
  OBVIOUS
<1>2. /\ m.op = "invite" /\ request' = [request EXCEPT ![q] = IdleAsk]
      /\ member' = [member EXCEPT ![m.r][m.who] = m.role]
      /\ standing' = StandingAfterInvite(m.who) /\ handle' = Addressed(handle, m.r, m.who)
      /\ UNCHANGED <<owner, room, template, agent, stays>>
  BY <1>1 DEF InviteRoomMember, Carries, RoomOnly, AgentsStay
<1>3. m.r \in Rooms /\ m.who \in Users /\ m.role \in Roles
  BY <1>1, <1>2 DEF RosterInv, AsksKnow, KnowsPeople, Roles
<1>4. /\ standing' \in [Users -> {"none", "member", "admin"}] /\ standing'[m.who] # "none"
      /\ \A v \in Users : standing[v] # "none" => standing'[v] # "none"
  <2>1. standing \in [Users -> {"none", "member", "admin"}]
    BY <1>0 DEF RosterTypeOK
  <2>2. CASE standing[m.who] = "none"
    BY <1>2, <1>3, <2>1, <2>2 DEF StandingAfterInvite
  <2>3. CASE standing[m.who] # "none"
    BY <1>2, <1>3, <2>1, <2>3 DEF StandingAfterInvite
  <2> QED BY <2>2, <2>3
<1>5. /\ member' \in [Rooms -> [Users -> Roles]]
      /\ handle' \in [Rooms -> [Participants -> Nat]]
      /\ PeoplePlaced' /\ Distinct' /\ AgentsPlaced' /\ AgentsHere
  BY <1>2, <1>3, <1>4, JoinPlaces
<1>6. request[q].op # "idle" /\ room' \in [Rooms -> Names \cup {Nobody}]
  BY <1>0, <1>1, <1>2 DEF RosterTypeOK
<1> QED BY <1>2, <1>4, <1>5, <1>6, CarriedOnPeople

\* Whoever creates a room has standing when it is created.
LEMMA CreateRoomKeeps ==
    ASSUME RosterInv, NEW q \in Requests, CreateRoom(q)
    PROVE  RosterInv'
<1>0. RosterTypeOK
  BY DEF RosterInv
<1>1. PICK m : m = request[q]
  OBVIOUS
<1>2. PICK role : role = "admin"
  OBVIOUS
<1>3. /\ m.op = "create" /\ request' = [request EXCEPT ![q] = IdleAsk]
      /\ standing[m.by] # "none" /\ room' = [room EXCEPT ![m.r] = m.role]
      /\ member' = [member EXCEPT ![m.r][m.by] = role]
      /\ handle' = Addressed(handle, m.r, m.by)
      /\ UNCHANGED <<standing, owner, template, agent, stays>>
  BY <1>1, <1>2 DEF CreateRoom, Carries, NamesRoom, AgentsStay
<1>4. m.r \in Rooms /\ m.by \in Users /\ m.role \in Names /\ role \in Roles
  BY <1>1, <1>2, <1>3 DEF RosterInv, AsksKnow, KnowsPeople, Roles
<1>5. /\ standing' \in [Users -> {"none", "member", "admin"}] /\ standing'[m.by] # "none"
      /\ \A v \in Users : standing[v] # "none" => standing'[v] # "none"
  BY <1>0, <1>3 DEF RosterTypeOK
<1>6. /\ member' \in [Rooms -> [Users -> Roles]]
      /\ handle' \in [Rooms -> [Participants -> Nat]]
      /\ PeoplePlaced' /\ Distinct' /\ AgentsPlaced' /\ AgentsHere
  BY <1>3, <1>4, <1>5, JoinPlaces
<1>7. request[q].op # "idle"
  BY <1>1, <1>3
<1>8. room' \in [Rooms -> Names \cup {Nobody}]
  BY <1>0, <1>3, <1>4 DEF RosterTypeOK
<1> QED BY <1>3, <1>5, <1>6, <1>7, <1>8, CarriedOnPeople

\* A role changes, or its holder goes: nobody else is touched.
LEMMA RoleKeeps ==
    ASSUME RosterInv, NEW q \in Requests, request[q].op # "idle",
           request' = [request EXCEPT ![q] = IdleAsk],
           NEW r \in Rooms, NEW u \in Users, NEW role \in Roles, member[r][u] # "none",
           member' = [member EXCEPT ![r][u] = role],
           UNCHANGED <<standing, handle, owner, room, template, agent, stays>>
    PROVE  RosterInv'
<1>0. RosterTypeOK
  BY DEF RosterInv
<1>1. /\ member' \in [Rooms -> [Users -> Roles]] /\ member'[r][u] = role
      /\ \A s \in Rooms, v \in Users : s # r \/ v # u => member'[s][v] = member[s][v]
  <2>1. member' = [member EXCEPT ![r][u] = role]
    OBVIOUS
  <2>2. member \in [Rooms -> [Users -> Roles]]
    BY <1>0 DEF RosterTypeOK
  <2> QED BY <2>1, <2>2
<1>2. \A s \in Rooms, v \in Users : member'[s][v] # "none" => member[s][v] # "none"
  BY <1>1
<1>3. PeoplePlaced'
  BY <1>2, PeopleRest
<1>4. AgentsPlaced' /\ AgentsHere
  BY AgentsRest
<1>5. Distinct'
  BY DEF RosterInv, Distinct
<1>6. /\ standing' \in [Users -> {"none", "member", "admin"}]
      /\ room' \in [Rooms -> Names \cup {Nobody}] /\ handle' \in [Rooms -> [Participants -> Nat]]
  BY <1>0 DEF RosterTypeOK
<1> QED BY <1>1, <1>3, <1>4, <1>5, <1>6, CarriedOnPeople

\* Leaving is such a change.
LEMMA LeaveRoomKeeps ==
    ASSUME RosterInv, NEW q \in Requests, LeaveRoom(q)
    PROVE  RosterInv'
<1>1. PICK m : m = request[q]
  OBVIOUS
<1>2. PICK role : role = "none"
  OBVIOUS
<1>3. /\ m.op = "leave" /\ request' = [request EXCEPT ![q] = IdleAsk]
      /\ member[m.r][m.by] # "none" /\ member' = [member EXCEPT ![m.r][m.by] = role]
      /\ UNCHANGED <<standing, handle, owner, room, template, agent, stays>>
  BY <1>1, <1>2 DEF LeaveRoom, Carries, RoomOnly, AgentsStay
<1>4. m.r \in Rooms /\ m.by \in Users /\ role \in Roles /\ request[q].op # "idle"
  BY <1>1, <1>2, <1>3 DEF RosterInv, AsksKnow, KnowsPeople, Roles
<1> QED BY <1>3, <1>4, RoleKeeps
\* A new role is such a change.
LEMMA UpdateRoleKeeps ==
    ASSUME RosterInv, NEW q \in Requests, UpdateRoomMemberRole(q)
    PROVE  RosterInv'
<1>1. PICK m : m = request[q]
  OBVIOUS
<1>2. /\ m.op = "role" /\ request' = [request EXCEPT ![q] = IdleAsk]
      /\ member[m.r][m.who] # "none" /\ member' = [member EXCEPT ![m.r][m.who] = m.role]
      /\ UNCHANGED <<standing, handle, owner, room, template, agent, stays>>
  BY <1>1 DEF UpdateRoomMemberRole, Carries, RoomOnly, AgentsStay
<1>3. m.r \in Rooms /\ m.who \in Users /\ m.role \in Roles /\ request[q].op # "idle"
  BY <1>1, <1>2 DEF RosterInv, AsksKnow, KnowsPeople, Roles
<1> QED BY <1>2, <1>3, RoleKeeps
\* A removal from the room is one, too.
LEMMA RemoveMemberKeeps ==
    ASSUME RosterInv, NEW q \in Requests, RemoveRoomMember(q)
    PROVE  RosterInv'
<1>1. PICK m : m = request[q]
  OBVIOUS
<1>2. PICK role : role = "none"
  OBVIOUS
<1>3. /\ m.op = "remove" /\ request' = [request EXCEPT ![q] = IdleAsk]
      /\ member[m.r][m.who] # "none" /\ member' = [member EXCEPT ![m.r][m.who] = role]
      /\ UNCHANGED <<standing, handle, owner, room, template, agent, stays>>
  BY <1>1, <1>2 DEF RemoveRoomMember, Carries, RoomOnly, AgentsStay
<1>4. m.r \in Rooms /\ m.who \in Users /\ role \in Roles /\ request[q].op # "idle"
  BY <1>1, <1>2, <1>3 DEF RosterInv, AsksKnow, KnowsPeople, Roles
<1> QED BY <1>3, <1>4, RoleKeeps

\* Whoever leaves the workspace leaves every room of it.
LEMMA ExpelKeeps ==
    ASSUME RosterInv, NEW q \in Requests, RemoveWorkspaceMember(q)
    PROVE  RosterInv'
<1>0. RosterTypeOK
  BY DEF RosterInv
<1>1. PICK m : m = request[q]
  OBVIOUS
<1>2. /\ m.op = "expel" /\ request' = [request EXCEPT ![q] = IdleAsk]
      /\ member' = [r \in Rooms |-> [member[r] EXCEPT ![m.who] = "none"]]
      /\ standing' = [standing EXCEPT ![m.who] = "none"]
      /\ UNCHANGED <<handle, owner, room, template, agent, stays>>
  BY <1>1 DEF RemoveWorkspaceMember, Carries, RoomOnly, AgentsStay
<1>3. m.who \in Users /\ request[q].op # "idle"
  BY <1>1, <1>2 DEF RosterInv, AsksKnow, KnowsPeople
<1>4. /\ member' \in [Rooms -> [Users -> Roles]]
      /\ \A r \in Rooms : member'[r][m.who] = "none"
      /\ \A r \in Rooms, v \in Users : v # m.who => member'[r][v] = member[r][v]
  BY <1>0, <1>2, <1>3 DEF RosterTypeOK, Roles
<1>5. /\ standing' \in [Users -> {"none", "member", "admin"}]
      /\ \A v \in Users : v # m.who => standing'[v] = standing[v]
  BY <1>0, <1>2, <1>3 DEF RosterTypeOK
<1>6. PeoplePlaced'
  BY <1>2, <1>4, <1>5 DEF RosterInv, PeoplePlaced
<1>7. AgentsPlaced' /\ AgentsHere
  BY <1>2, AgentsRest
<1>8. Distinct'
  BY <1>2 DEF RosterInv, Distinct
<1>9. room' \in [Rooms -> Names \cup {Nobody}] /\ handle' \in [Rooms -> [Participants -> Nat]]
  BY <1>0, <1>2 DEF RosterTypeOK
<1> QED BY <1>2, <1>3, <1>4, <1>5, <1>6, <1>7, <1>8, <1>9, CarriedOnPeople

-----------------------------------------------------------------------------
(* Agents.                                                                      *)

\* A request is carried out on agents: what is left to show of each.
LEMMA CarriedOnAgents ==
    ASSUME RosterInv, NEW q \in Requests, request[q].op # "idle",
           request' = [request EXCEPT ![q] = IdleAsk],
           agent' \in [Agents -> AgentRows \cup {Nobody}], stays' \in [Agents -> Seq(BOOLEAN)],
           handle' \in [Rooms -> [Participants -> Nat]],
           UNCHANGED <<standing, owner, room, member, template>>,
           \A r \in Rooms, u \in Users : handle'[r][u] = handle[r][u],
           Distinct', AgentsPlaced', AgentsHere
    PROVE  RosterInv'
<1>0. RosterTypeOK
  BY DEF RosterInv
<1>1. request' = [p \in Requests |-> request'[p]] /\ AsksKnow'
  BY CarriedKnow
<1>2. Unopened'
  BY OpenedByAsks DEF Unopened
<1>3. PeoplePlaced'
  BY PeopleRest
<1>4. RosterTypeOK'
  BY <1>0, <1>1 DEF RosterTypeOK
<1> QED BY <1>1, <1>2, <1>3, <1>4 DEF RosterInv

\* An agent gets its row, its seat and its handle in one room.
LEMMA NewAgent ==
    ASSUME RosterInv, NEW r \in Rooms, NEW a \in Agents, NEW u \in Users, agent[a] = Nobody,
           agent' = [agent EXCEPT ![a] = [r |-> r, owner |-> u]],
           stays' = [stays EXCEPT ![a] = <<TRUE>>], handle'[r][a] # 0,
           \A s \in Rooms, b \in Agents : s # r \/ b # a => handle'[s][b] = handle[s][b]
    PROVE  /\ agent' \in [Agents -> AgentRows \cup {Nobody}] /\ stays' \in [Agents -> Seq(BOOLEAN)]
           /\ AgentsHere /\ AgentsPlaced'
<1>0. RosterTypeOK /\ AgentsPlaced
  BY DEF RosterInv
<1>1. PICK row : row = [r |-> r, owner |-> u]
  OBVIOUS
<1>2. row \in AgentRows /\ row # Nobody /\ row.r = r
  BY <1>1, Apart DEF AgentRows
<1>3. /\ agent' \in [Agents -> AgentRows \cup {Nobody}] /\ agent'[a] = row
      /\ \A b \in Agents : b # a => agent'[b] = agent[b]
  BY <1>0, <1>1, <1>2 DEF RosterTypeOK
<1>4. PICK seat : seat = <<TRUE>>
  OBVIOUS
<1>5. seat \in Seq(BOOLEAN) /\ Len(seat) = 1 /\ seat[1] /\ seat # <<>>
  BY <1>4
<1>6. /\ stays' \in [Agents -> Seq(BOOLEAN)] /\ stays'[a] = seat
      /\ \A b \in Agents : b # a => stays'[b] = stays[b]
  BY <1>0, <1>4, <1>5 DEF RosterTypeOK
<1>7. Seated(a)'
  BY <1>5, <1>6 DEF Seated
<1>8. AgentsHere
  BY <1>3 DEF AgentsHere
<1>9. ASSUME NEW s \in Rooms, NEW b \in Agents
      PROVE  handle'[s][b] # 0 <=> agent'[b] # Nobody /\ agent'[b].r = s /\ Seated(b)'
  <2>1. handle[s][b] # 0 <=> agent[b] # Nobody /\ agent[b].r = s /\ Seated(b)
    BY <1>0 DEF AgentsPlaced
  <2>2. CASE b = a /\ s = r
    BY <1>2, <1>3, <1>7, <2>2
  <2>3. CASE b = a /\ s # r
    <3>1. handle[s][b] = 0
      BY <2>1, <2>3
    <3>2. handle'[s][b] = handle[s][b]
      BY <2>3
    <3> QED BY <1>2, <1>3, <2>3, <3>1, <3>2
  <2>4. CASE b # a
    <3>1. handle'[s][b] = handle[s][b]
      BY <2>4
    <3>2. Seated(b)' = Seated(b)
      BY <1>6, <2>4 DEF Seated
    <3> QED BY <1>3, <2>1, <2>4, <3>1, <3>2
  <2> QED BY <2>2, <2>3, <2>4
<1> QED BY <1>3, <1>6, <1>8, <1>9 DEF AgentsPlaced

\* An agent is spawned into one room, and seated there.
LEMMA SpawnAgentKeeps ==
    ASSUME RosterInv, NEW q \in Requests, SpawnAgent(q)
    PROVE  RosterInv'
<1>0. RosterTypeOK /\ Distinct
  BY DEF RosterInv
<1>1. PICK m : m = request[q]
  OBVIOUS
<1>2. /\ m.op = "spawn" /\ request' = [request EXCEPT ![q] = IdleAsk]
      /\ agent[m.who] = Nobody /\ agent' = [agent EXCEPT ![m.who] = [r |-> m.r, owner |-> m.by]]
      /\ stays' = [stays EXCEPT ![m.who] = <<TRUE>>] /\ handle' = Addressed(handle, m.r, m.who)
      /\ UNCHANGED <<standing, member, owner, room, template>>
  BY <1>1 DEF SpawnAgent, Carries, SpawnWrites, RoomOnly
<1>3. m.who \in Agents /\ m.r \in Rooms /\ m.by \in Users /\ request[q].op # "idle"
  BY <1>1, <1>2 DEF RosterInv, AsksKnow, KnowsPeople, KnowsAgents
<1>4. /\ handle' \in [Rooms -> [Participants -> Nat]] /\ Distinct'
      /\ handle'[m.r][m.who] # 0
      /\ \A s \in Rooms, o \in Participants : s # m.r \/ o # m.who => handle'[s][o] = handle[s][o]
  BY <1>0, <1>2, <1>3, Apart, HandlesKept
<1>4a. \A s \in Rooms, b \in Agents : s # m.r \/ b # m.who => handle'[s][b] = handle[s][b]
  BY <1>4, Apart
<1>5. /\ agent' \in [Agents -> AgentRows \cup {Nobody}] /\ stays' \in [Agents -> Seq(BOOLEAN)]
      /\ AgentsHere /\ AgentsPlaced'
  BY <1>2, <1>3, <1>4, <1>4a, NewAgent
<1>6. \A s \in Rooms, u \in Users : handle'[s][u] = handle[s][u]
  BY <1>3, <1>4, Apart
<1> QED BY <1>2, <1>3, <1>4, <1>5, <1>6, CarriedOnAgents

\* A room created from a template begins with its creator and its agent, each addressed.
LEMMA FurnishKeeps ==
    ASSUME RosterInv, NEW q \in Requests, CreateRoomFromTemplate(q)
    PROVE  RosterInv'
<1>0. RosterTypeOK /\ Distinct
  BY DEF RosterInv
<1>1. PICK m : m = request[q]
  OBVIOUS
<1>2. PICK role : role = "admin"
  OBVIOUS
<1>3. /\ m.op = "furnish" /\ request' = [request EXCEPT ![q] = IdleAsk] /\ standing[m.by] # "none"
      /\ agent[m.who] = Nobody /\ agent' = [agent EXCEPT ![m.who] = [r |-> m.r, owner |-> m.by]]
      /\ stays' = [stays EXCEPT ![m.who] = <<TRUE>>]
      /\ member' = [member EXCEPT ![m.r][m.by] = role]
      /\ handle' = Addressed(Addressed(handle, m.r, m.by), m.r, m.who)
      /\ UNCHANGED <<standing, owner, template>>
  BY <1>1, <1>2 DEF CreateRoomFromTemplate, Carries
<1>4. /\ m.who \in Agents /\ m.r \in Rooms /\ m.by \in Users /\ role \in Roles
      /\ request[q].op # "idle"
  BY <1>1, <1>2, <1>3 DEF RosterInv, AsksKnow, KnowsPeople, KnowsAgents, Roles
<1>5. PICK first : first = Addressed(handle, m.r, m.by)
  OBVIOUS
<1>5a. handle \in [Rooms -> [Participants -> Nat]]
  BY <1>0 DEF RosterTypeOK
<1>5b. Apartness(handle)
  BY <1>0 DEF Distinct
<1>5c. m.by \in Participants
  BY <1>4, Apart
<1>6. /\ first \in [Rooms -> [Participants -> Nat]] /\ Apartness(first) /\ first[m.r][m.by] # 0
      /\ \A s \in Rooms, o \in Participants : s # m.r \/ o # m.by => first[s][o] = handle[s][o]
      /\ \A s \in Rooms, o \in Participants : handle[s][o] # 0 => first[s][o] = handle[s][o]
  BY <1>4, <1>5, <1>5a, <1>5b, <1>5c, AddressedKeeps
<1>7. /\ handle' \in [Rooms -> [Participants -> Nat]] /\ Apartness(handle') /\ handle'[m.r][m.who] # 0
      /\ \A s \in Rooms, o \in Participants : s # m.r \/ o # m.who => handle'[s][o] = first[s][o]
      /\ \A s \in Rooms, o \in Participants : first[s][o] # 0 => handle'[s][o] = first[s][o]
  BY <1>3, <1>4, <1>5, <1>6, Apart, AddressedKeeps
<1>8. member' \in [Rooms -> [Users -> Roles]] /\ PeoplePlaced'
  <2>1. handle'[m.r][m.by] # 0
    BY <1>4, <1>6, <1>7, Apart
  <2>2. \A s \in Rooms, o \in Participants : handle[s][o] # 0 => handle'[s][o] # 0
    BY <1>6, <1>7
  <2> QED BY <1>3, <1>4, <2>1, <2>2, NewPerson
<1>9. /\ agent' \in [Agents -> AgentRows \cup {Nobody}] /\ stays' \in [Agents -> Seq(BOOLEAN)]
      /\ AgentsHere /\ AgentsPlaced'
  <2>1. \A s \in Rooms, b \in Agents : s # m.r \/ b # m.who => handle'[s][b] = handle[s][b]
    BY <1>4, <1>6, <1>7, Apart
  <2> QED BY <1>3, <1>4, <1>7, <2>1, NewAgent
<1>10. request' = [p \in Requests |-> request'[p]] /\ AsksKnow'
  BY <1>3, <1>9, CarriedKnow
<1>11. Unopened'
  BY <1>3, <1>4, OpenedByAsks DEF Unopened
<1>12. room' \in [Rooms -> Names \cup {Nobody}]
  BY <1>0, <1>1, <1>4 DEF CreateRoomFromTemplate, NamesRoom, RosterTypeOK
<1>13. RosterTypeOK'
  BY <1>0, <1>3, <1>7, <1>8, <1>9, <1>10, <1>12 DEF RosterTypeOK
<1> QED BY <1>7, <1>8, <1>9, <1>10, <1>11, <1>13 DEF RosterInv, Distinct

\* An agent takes its seat or leaves it, and its handle with it.
LEMMA SeatKeeps ==
    ASSUME RosterInv, NEW q \in Requests, request[q].op # "idle",
           request' = [request EXCEPT ![q] = IdleAsk],
           NEW r \in Rooms, NEW a \in Agents, agent[a] # Nobody, agent[a].r = r,
           NEW stay \in Seq(BOOLEAN), stays' = [stays EXCEPT ![a] = stay],
           handle' \in [Rooms -> [Participants -> Nat]], Distinct',
           \A s \in Rooms, o \in Participants : s # r \/ o # a => handle'[s][o] = handle[s][o],
           handle'[r][a] # 0 <=> stay # <<>> /\ stay[Len(stay)],
           UNCHANGED <<standing, owner, room, member, template, agent>>
    PROVE  RosterInv'
<1>0. RosterTypeOK /\ AgentsPlaced
  BY DEF RosterInv
<1>1. /\ stays' \in [Agents -> Seq(BOOLEAN)] /\ stays'[a] = stay
      /\ \A b \in Agents : b # a => stays'[b] = stays[b]
  BY <1>0 DEF RosterTypeOK
<1>2. AgentsHere
  BY DEF AgentsHere
<1>3. AgentsPlaced'
  <2> SUFFICES ASSUME NEW s \in Rooms, NEW b \in Agents
               PROVE  handle'[s][b] # 0 <=> agent'[b] # Nobody /\ agent'[b].r = s /\ Seated(b)'
    BY DEF AgentsPlaced
  <2>1. handle[s][b] # 0 <=> agent[b] # Nobody /\ agent[b].r = s /\ Seated(b)
    BY <1>0 DEF AgentsPlaced
  <2>2. CASE b = a /\ s = r
    <3>1. Seated(a)' <=> stay # <<>> /\ stay[Len(stay)]
      BY <1>1 DEF Seated
    <3> QED BY <2>2, <3>1
  <2>3. CASE b = a /\ s # r
    BY <2>1, <2>3, Apart
  <2>4. CASE b # a
    <3>1. handle'[s][b] = handle[s][b]
      BY <2>4, Apart
    <3>2. Seated(b)' = Seated(b)
      BY <1>1, <2>4 DEF Seated
    <3> QED BY <2>1, <3>1, <3>2
  <2> QED BY <2>2, <2>3, <2>4
<1>4. \A s \in Rooms, u \in Users : handle'[s][u] = handle[s][u]
  BY Apart
<1>5. agent' \in [Agents -> AgentRows \cup {Nobody}]
  BY <1>0 DEF RosterTypeOK
<1> QED BY <1>1, <1>2, <1>3, <1>4, <1>5, CarriedOnAgents

\* Closed stays say that nobody is seated.
LEMMA ClosedIsEmpty ==
    ASSUME NEW s \in Seq(BOOLEAN)
    PROVE  /\ Closed(s) \in Seq(BOOLEAN)
           /\ ~(Closed(s) # <<>> /\ Closed(s)[Len(Closed(s))])
<1>1. Len(s) \in Nat /\ DOMAIN s = 1 .. Len(s)
  OBVIOUS
<1>2. PICK c : c = [i \in 1 .. Len(s) |-> FALSE]
  OBVIOUS
<1>3. Closed(s) = c
  BY <1>1, <1>2 DEF Closed
<1>4. c \in Seq(BOOLEAN) /\ Len(c) = Len(s)
  BY <1>1, <1>2
<1>5. ASSUME c # <<>>
      PROVE  ~c[Len(c)]
  <2>1. Len(c) # 0
    BY <1>4, <1>5, EmptySeq
  <2>2. Len(c) \in 1 .. Len(s)
    BY <1>1, <1>4, <2>1
  <2> QED BY <1>2, <2>2
<1> QED BY <1>3, <1>4, <1>5

\* A dismissed agent is not addressed any more.
LEMMA RemoveAgentKeeps ==
    ASSUME RosterInv, NEW q \in Requests, RemoveAgentFromRoom(q)
    PROVE  RosterInv'
<1>0. RosterTypeOK /\ Distinct
  BY DEF RosterInv
<1>1. PICK m : m = request[q]
  OBVIOUS
<1>2. PICK stay : stay = Closed(stays[m.who])
  OBVIOUS
<1>3. /\ m.op = "dismiss" /\ request' = [request EXCEPT ![q] = IdleAsk]
      /\ stays' = [stays EXCEPT ![m.who] = stay] /\ handle' = Released(m.r, m.who)
      /\ UNCHANGED <<standing, member, agent, owner, room, template>>
  BY <1>1, <1>2 DEF RemoveAgentFromRoom, Carries, RoomOnly
<1>4. /\ m.who \in Agents /\ m.r \in Rooms /\ request[q].op # "idle"
      /\ agent[m.who] # Nobody /\ agent[m.who].r = m.r
  BY <1>1, <1>3 DEF RosterInv, AsksKnow, KnowsPeople, KnowsAgents
<1>5. /\ handle' \in [Rooms -> [Participants -> Nat]] /\ Distinct'
      /\ handle'[m.r][m.who] = 0
      /\ \A s \in Rooms, o \in Participants : s # m.r \/ o # m.who => handle'[s][o] = handle[s][o]
  BY <1>0, <1>3, <1>4, ReleasedKeeps
<1>6. stays[m.who] \in Seq(BOOLEAN)
  BY <1>0, <1>4 DEF RosterTypeOK
<1>7. stay \in Seq(BOOLEAN) /\ ~(stay # <<>> /\ stay[Len(stay)])
  BY <1>2, <1>6, ClosedIsEmpty
<1> QED BY <1>3, <1>4, <1>5, <1>7, SeatKeeps

\* One that comes back is addressed again.
LEMMA RejoinKeeps ==
    ASSUME RosterInv, NEW q \in Requests, RejoinAgentToRoom(q)
    PROVE  RosterInv'
<1>0. RosterTypeOK /\ Distinct
  BY DEF RosterInv
<1>1. PICK m : m = request[q]
  OBVIOUS
<1>2. PICK stay : stay = Rejoined(stays[m.who])
  OBVIOUS
<1>3. /\ m.op = "rejoin" /\ request' = [request EXCEPT ![q] = IdleAsk]
      /\ stays' = [stays EXCEPT ![m.who] = stay] /\ handle' = Addressed(handle, m.r, m.who)
      /\ UNCHANGED <<standing, member, agent, owner, room, template>>
  BY <1>1, <1>2 DEF RejoinAgentToRoom, Carries, RoomOnly
<1>4. /\ m.who \in Agents /\ m.r \in Rooms /\ request[q].op # "idle"
      /\ agent[m.who] # Nobody /\ agent[m.who].r = m.r
  BY <1>1, <1>3 DEF RosterInv, AsksKnow, KnowsPeople, KnowsAgents
<1>5. /\ handle' \in [Rooms -> [Participants -> Nat]] /\ Distinct'
      /\ handle'[m.r][m.who] # 0
      /\ \A s \in Rooms, o \in Participants : s # m.r \/ o # m.who => handle'[s][o] = handle[s][o]
  BY <1>0, <1>3, <1>4, Apart, HandlesKept
<1>6. stays[m.who] \in Seq(BOOLEAN)
  BY <1>0, <1>4 DEF RosterTypeOK
<1>7. stay \in Seq(BOOLEAN) /\ stay # <<>> /\ stay[Len(stay)]
  <2>1. PICK s \in Seq(BOOLEAN) : s = stays[m.who]
    BY <1>6
  <2>2. PICK open \in BOOLEAN : open = TRUE
    OBVIOUS
  <2>3. stay = Append(s, open)
    BY <1>2, <2>1, <2>2 DEF Rejoined
  <2>4. /\ Append(s, open) \in Seq(BOOLEAN) /\ Append(s, open) # <<>>
        /\ Len(Append(s, open)) = Len(s) + 1 /\ Append(s, open)[Len(s) + 1] = open
    BY AppendProperties
  <2> QED BY <2>2, <2>3, <2>4
<1> QED BY <1>3, <1>4, <1>5, <1>7, SeatKeeps

\* Whom an agent answers to says nothing of where it is.
LEMMA SetAddressingKeeps ==
    ASSUME RosterInv, NEW q \in Requests, SetAgentAddressing(q)
    PROVE  RosterInv'
<1>0. RosterTypeOK /\ AgentsPlaced
  BY DEF RosterInv
<1>1. PICK m : m = request[q]
  OBVIOUS
<1>2. PICK to : to = IF m.role = Nobody THEN m.read ELSE m.role
  OBVIOUS
<1>3. /\ m.op = "address" /\ request' = [request EXCEPT ![q] = IdleAsk]
      /\ agent' = [agent EXCEPT ![m.who].owner = to]
      /\ UNCHANGED <<standing, member, stays, handle, owner, room, template>>
  BY <1>1, <1>2 DEF SetAgentAddressing, Carries, RoomOnly
<1>4. /\ m.who \in Agents /\ request[q].op # "idle" /\ agent[m.who] # Nobody
      /\ m.role \in Users \cup {Nobody} /\ m.read \in Users \cup {Nobody}
  BY <1>1, <1>3 DEF RosterInv, AsksKnow, KnowsAgents
<1>5. to \in Users \cup {Nobody} /\ agent[m.who] \in AgentRows
  BY <1>0, <1>2, <1>4 DEF RosterTypeOK
<1>6. PICK row : row = [agent[m.who] EXCEPT !.owner = to]
  OBVIOUS
<1>7. row \in AgentRows /\ row.r = agent[m.who].r
  BY <1>5, <1>6 DEF AgentRows
<1>8. /\ agent' \in [Agents -> AgentRows \cup {Nobody}] /\ agent'[m.who] = row
      /\ \A a \in Agents : a # m.who => agent'[a] = agent[a]
  BY <1>0, <1>3, <1>4, <1>6, <1>7 DEF RosterTypeOK
<1>9. row # Nobody
  BY <1>7, Apart
<1>10. AgentsHere
  BY <1>4, <1>7, <1>8, <1>9 DEF AgentsHere
<1>11. \A a \in Agents : agent'[a] # Nobody => agent[a] # Nobody
  BY <1>4, <1>8
<1>12. AgentsPlaced'
  <2>1. \A a \in Agents : Seated(a)' = Seated(a)
    BY <1>3 DEF Seated
  <2> QED BY <1>0, <1>3, <1>10, <1>11, <2>1 DEF AgentsPlaced, AgentsHere
<1>13. Distinct'
  BY <1>3 DEF RosterInv, Distinct
<1>14. handle' \in [Rooms -> [Participants -> Nat]] /\ stays' \in [Agents -> Seq(BOOLEAN)]
  BY <1>0, <1>3 DEF RosterTypeOK
<1> QED BY <1>3, <1>4, <1>8, <1>10, <1>12, <1>13, <1>14, CarriedOnAgents

-----------------------------------------------------------------------------
(* Requests and templates.                                                      *)

\* Places stay where nothing of them changes.
LEMMA PlacesRest ==
    ASSUME RosterInv, UNCHANGED <<standing, owner, room, member, agent, stays, handle>>
    PROVE  /\ PeoplePlaced' /\ Distinct' /\ AgentsPlaced' /\ AgentsHere
           /\ RosterTypeOK /\ (request' = request /\ template' = template => RosterTypeOK')
<1>1. PeoplePlaced'
  BY DEF RosterInv, PeoplePlaced
<1>2. Distinct'
  BY DEF RosterInv, Distinct
<1>3. AgentsPlaced' /\ AgentsHere
  BY AgentsRest
<1> QED BY <1>1, <1>2, <1>3 DEF RosterInv, RosterTypeOK

\* A refusal changes nothing else.
LEMMA RefusedKeeps ==
    ASSUME RosterInv, NEW q \in Requests, Refused(q)
    PROVE  RosterInv'
<1>1. /\ request[q].op # "idle" /\ request' = [request EXCEPT ![q] = IdleAsk]
      /\ UNCHANGED <<standing, owner, room, member, agent, stays, handle, template>>
  BY DEF Refused
<1>2. PeoplePlaced' /\ Distinct' /\ AgentsPlaced' /\ AgentsHere /\ RosterTypeOK
  BY <1>1, PlacesRest
<1>3. request' = [p \in Requests |-> request'[p]] /\ AsksKnow'
  BY <1>1, <1>2, CarriedKnow
<1>4. Unopened'
  BY <1>1, OpenedByAsks DEF Unopened
<1>5. RosterTypeOK'
  BY <1>1, <1>2, <1>3 DEF RosterTypeOK
<1> QED BY <1>2, <1>3, <1>4, <1>5 DEF RosterInv

\* A request of a workspace that is open changes nothing but the request.
LEMMA AskKeeps ==
    ASSUME RosterInv, owner # Nobody, NEW q \in Requests, NEW m, KnowsPeople(m),
           KnowsAgents(m, agent), request' = [request EXCEPT ![q] = m],
           UNCHANGED <<standing, owner, room, member, agent, stays, handle, template>>
    PROVE  RosterInv'
<1>1. PeoplePlaced' /\ Distinct' /\ AgentsPlaced' /\ RosterTypeOK
  BY PlacesRest
<1>2. /\ request' = [p \in Requests |-> request'[p]]
      /\ request'[q] = m /\ \A p \in Requests : p # q => request'[p] = request[p]
  BY <1>1 DEF RosterTypeOK
<1>3. AsksKnow'
  BY <1>2 DEF RosterInv, AsksKnow
<1>4. Unopened'
  BY DEF Unopened
<1>5. RosterTypeOK'
  BY <1>1, <1>2 DEF RosterTypeOK
<1> QED BY <1>1, <1>3, <1>4, <1>5 DEF RosterInv

\* Every request that arrives says what its route let through.
LEMMA ArrivesKnow ==
    ASSUME RosterInv, NEW q \in Requests, NEW u \in Users, NEW r \in Rooms, Arrives(q, u, r)
    PROVE  \E m : /\ KnowsPeople(m) /\ KnowsAgents(m, agent)
                  /\ request' = [request EXCEPT ![q] = m]
                  /\ UNCHANGED <<standing, owner, room, member, agent, stays, handle, template>>
<1>1. ASSUME NEW op \in {"leave", "create", "remove", "expel", "invite", "role", "spawn", "furnish",
                         "dismiss", "rejoin", "address"},
             NEW who, NEW role, Ask(q, op, u, r, who, role),
             op \in {"invite", "role", "remove", "expel"} => who \in Users,
             op = "invite" => role \in {"viewer", "editor"},
             op = "role" => role \in {"viewer", "editor", "admin"},
             op = "create" => role \in Names,
             op \in {"spawn", "furnish", "dismiss", "rejoin", "address"} => who \in Agents,
             op = "address" => role \in Users \cup {Nobody}
      PROVE  \E m : /\ KnowsPeople(m) /\ KnowsAgents(m, agent)
                    /\ request' = [request EXCEPT ![q] = m]
                    /\ UNCHANGED <<standing, owner, room, member, agent, stays, handle, template>>
  <2>1. PICK read : read = IF op = "address" THEN agent[who].owner ELSE Nobody
    OBVIOUS
  <2>2. PICK m : m = [op |-> op, by |-> u, r |-> r, who |-> who, role |-> role, read |-> read]
    OBVIOUS
  <2>3. /\ m.op = op /\ m.by = u /\ m.r = r /\ m.who = who /\ m.role = role /\ m.read = read
    BY <2>2
  <2>4. /\ request' = [request EXCEPT ![q] = m]
        /\ UNCHANGED <<standing, owner, room, member, agent, stays, handle, template>>
        /\ op \in {"role", "remove"} => who # u
        /\ op \in {"dismiss", "rejoin", "address"} => agent[who] # Nobody /\ agent[who].r = r
    BY <1>1, <2>1, <2>2 DEF Ask
  <2>5. op = "address" => read \in Users \cup {Nobody}
    <3> SUFFICES ASSUME op = "address"
                 PROVE  agent[who].owner \in Users \cup {Nobody}
      BY <2>1
    <3>1. who \in Agents /\ agent[who] # Nobody
      BY <1>1, <2>4
    <3>2. agent[who] \in AgentRows
      BY <3>1 DEF RosterInv, RosterTypeOK
    <3> QED BY <3>2 DEF AgentRows
  <2>6. KnowsPeople(m)
    BY <1>1, <2>3, <2>4 DEF KnowsPeople
  <2>7. KnowsAgents(m, agent)
    BY <1>1, <2>3, <2>4, <2>5 DEF KnowsAgents
  <2> QED BY <2>4, <2>6, <2>7
<1>2. CASE Ask(q, "leave", u, r, u, "none")
  BY <1>1, <1>2
<1>3. CASE \E n \in Names : Ask(q, "create", u, r, u, n)
  BY <1>1, <1>3
<1>4. CASE \E who \in Users : Ask(q, "remove", u, r, who, "none")
  BY <1>1, <1>4
<1>5. CASE \E who \in Users : Ask(q, "expel", u, r, who, "none")
  BY <1>1, <1>5
<1>6. CASE \E who \in Users : \E role \in {"viewer", "editor"} : Ask(q, "invite", u, r, who, role)
  BY <1>1, <1>6
<1>7. CASE \E who \in Users : \E role \in {"viewer", "editor", "admin"} :
              Ask(q, "role", u, r, who, role)
  BY <1>1, <1>7
<1>8. CASE \E a \in Agents : \E t \in Templates : Ask(q, "spawn", u, r, a, t) \/ Ask(q, "furnish", u, r, a, t)
  BY <1>1, <1>8
<1>9. CASE \E a \in Agents : Ask(q, "dismiss", u, r, a, "none") \/ Ask(q, "rejoin", u, r, a, "none")
  BY <1>1, <1>9
<1>10. CASE \E a \in Agents : \E who \in Users \cup {Nobody} : Ask(q, "address", u, r, a, who)
  BY <1>1, <1>10
<1> QED BY <1>2, <1>3, <1>4, <1>5, <1>6, <1>7, <1>8, <1>9, <1>10 DEF Arrives

\* A template changes, and nothing else.
LEMMA ChangeTemplateKeeps ==
    ASSUME RosterInv, NEW t \in Templates, ChangeTemplate(t)
    PROVE  RosterInv'
<1>1. UNCHANGED <<standing, owner, room, member, agent, stays, handle, request>>
  BY DEF ChangeTemplate
<1>2. PeoplePlaced' /\ Distinct' /\ AgentsPlaced' /\ RosterTypeOK
  BY <1>1, PlacesRest
<1>3. AsksKnow' /\ Unopened'
  BY <1>1 DEF RosterInv, AsksKnow, Unopened
<1>4. template' \in [Templates -> [deleted : BOOLEAN, shared : BOOLEAN]]
  <2>1. template[t] \in [deleted : BOOLEAN, shared : BOOLEAN]
    BY <1>2 DEF RosterTypeOK
  <2>2. CASE template' = [template EXCEPT ![t].deleted = TRUE]
    <3>1. PICK row : row = [template[t] EXCEPT !.deleted = TRUE]
      OBVIOUS
    <3>2. row \in [deleted : BOOLEAN, shared : BOOLEAN]
      BY <2>1, <3>1
    <3>3. template' = [template EXCEPT ![t] = row]
      BY <2>2, <3>1
    <3> QED BY <1>2, <3>2, <3>3 DEF RosterTypeOK
  <2>3. CASE template' = [template EXCEPT ![t].shared = ~@]
    <3>1. PICK row : row = [template[t] EXCEPT !.shared = ~template[t].shared]
      OBVIOUS
    <3>2. row \in [deleted : BOOLEAN, shared : BOOLEAN]
      BY <2>1, <3>1
    <3>3. template' = [template EXCEPT ![t] = row]
      BY <2>3, <3>1
    <3> QED BY <1>2, <3>2, <3>3 DEF RosterTypeOK
  <2> QED BY <2>2, <2>3 DEF ChangeTemplate
<1>5. RosterTypeOK'
  BY <1>1, <1>2, <1>4 DEF RosterTypeOK
<1> QED BY <1>2, <1>3, <1>5 DEF RosterInv

-----------------------------------------------------------------------------
(* The specification.                                                           *)

\* Before the workspace is bootstrapped there is nobody anywhere.
LEMMA RosterStart ==
    RosterInit => RosterInv
<1> SUFFICES ASSUME RosterInit
             PROVE  RosterInv
  OBVIOUS
<1>1. RosterTypeOK
  <2>1. template \in [Templates -> [deleted : BOOLEAN, shared : BOOLEAN]]
    BY DEF RosterInit
  <2>2. stays \in [Agents -> Seq(BOOLEAN)]
    BY DEF RosterInit
  <2>3. request = [q \in Requests |-> request[q]]
    BY DEF RosterInit
  <2>4. member \in [Rooms -> [Users -> Roles]]
    BY DEF RosterInit, Roles
  <2>5. handle \in [Rooms -> [Participants -> Nat]]
    BY DEF RosterInit
  <2> QED BY <2>1, <2>2, <2>3, <2>4, <2>5 DEF RosterInit, RosterTypeOK
<1>2. \A q \in Requests : request[q].op = "idle"
  BY DEF RosterInit, IdleAsk
<1>3. AsksKnow
  BY <1>2 DEF AsksKnow, KnowsPeople, KnowsAgents
<1>4. Unopened
  BY <1>2 DEF RosterInit, Unopened
<1>5. PeoplePlaced /\ Distinct
  BY DEF RosterInit, PeoplePlaced, Distinct, Apartness
<1>6. AgentsPlaced
  BY Apart DEF RosterInit, AgentsPlaced
<1> QED BY <1>1, <1>3, <1>4, <1>5, <1>6 DEF RosterInv

\* Every request, and every step that carries one out.
LEMMA RosterStep ==
    RosterInv /\ [RosterNext]_rosterVars => RosterInv'
<1> SUFFICES ASSUME RosterInv, [RosterNext]_rosterVars
             PROVE  RosterInv'
  OBVIOUS
<1>1. CASE UNCHANGED rosterVars
  <2>1. UNCHANGED <<standing, owner, room, member, agent, stays, handle, template, request>>
    BY <1>1 DEF rosterVars
  <2>2. PeoplePlaced' /\ Distinct' /\ AgentsPlaced' /\ RosterTypeOK'
    BY <2>1, PlacesRest
  <2>3. AsksKnow' /\ Unopened'
    BY <2>1 DEF RosterInv, AsksKnow, Unopened
  <2> QED BY <2>2, <2>3 DEF RosterInv
<1>2. CASE \E u \in Users, r \in Rooms, n \in Names : Bootstrap(u, r, n)
  BY <1>2, BootstrapKeeps
<1>3. CASE \E q \in Requests, u \in Users, r \in Rooms : owner # Nobody /\ Arrives(q, u, r)
  <2>1. PICK q \in Requests, u \in Users, r \in Rooms : owner # Nobody /\ Arrives(q, u, r)
    BY <1>3
  <2>2. PICK m : /\ KnowsPeople(m) /\ KnowsAgents(m, agent)
                 /\ request' = [request EXCEPT ![q] = m]
                 /\ UNCHANGED <<standing, owner, room, member, agent, stays, handle, template>>
    BY <2>1, ArrivesKnow
  <2> QED BY <2>1, <2>2, AskKeeps
<1>4. CASE \E q \in Requests : CarriedOut(q)
  <2>1. PICK q \in Requests : CarriedOut(q)
    BY <1>4
  <2>2. CASE InviteRoomMember(q) \/ LeaveRoom(q) \/ UpdateRoomMemberRole(q)
    BY <2>2, InviteKeeps, LeaveRoomKeeps, UpdateRoleKeeps
  <2>3. CASE RemoveRoomMember(q) \/ RemoveWorkspaceMember(q) \/ CreateRoom(q)
    BY <2>3, RemoveMemberKeeps, ExpelKeeps, CreateRoomKeeps
  <2>4. CASE CreateRoomFromTemplate(q) \/ SpawnAgent(q) \/ RemoveAgentFromRoom(q)
    BY <2>4, FurnishKeeps, SpawnAgentKeeps, RemoveAgentKeeps
  <2>5. CASE RejoinAgentToRoom(q) \/ SetAgentAddressing(q)
    BY <2>5, RejoinKeeps, SetAddressingKeeps
  <2> QED BY <2>1, <2>2, <2>3, <2>4, <2>5 DEF CarriedOut
<1>5. CASE \E q \in Requests : Refused(q)
  BY <1>5, RefusedKeeps
<1>6. CASE \E t \in Templates : ChangeTemplate(t)
  BY <1>6, ChangeTemplateKeeps
<1> QED BY <1>1, <1>2, <1>3, <1>4, <1>5, <1>6 DEF RosterNext

\* The inductive invariant of the roster: the rows are typed, requests know what no step
\* can undo, and everybody has the place their rows give them.
THEOREM RosterSafe == RosterSpec => []RosterInv
<1> QED BY RosterStart, RosterStep, PTL DEF RosterSpec

\* Whoever is in a room is in its workspace and has a handle of their own there, and an
\* agent holds one exactly while it is seated, for any number of people, agents and rooms
\* and any invitations, removals and returns that run beside each other.
THEOREM EverybodyPlaced == RosterSpec => []MembersHaveTheirPlace
<1>1. RosterInv => MembersHaveTheirPlace
  BY DEF RosterInv, PeoplePlaced, Distinct, Apartness, AgentsPlaced, MembersHaveTheirPlace, People
<1> QED BY <1>1, RosterSafe, PTL

-----------------------------------------------------------------------------
(* How admins follow one another.                                               *)

\* What AdminsChangeHands says of a step.
HandsOver ==
    \A r \in Rooms :
        /\ Admins(r) # {} /\ Admins(r)' = {} /\ People(r)' # {} => standing' # standing
        /\ \A u \in Admins(r)' \ Admins(r) :
              room[r] # Nobody =>
                  \E q \in Requests : request'[q] # request[q] /\ request[q].by \in Admins(r) \ {u}

\* A step that leaves roles alone hands nothing over.
LEMMA RolesRest ==
    ASSUME UNCHANGED member
    PROVE  HandsOver
<1>1. \A r \in Rooms : Admins(r)' = Admins(r)
  BY DEF Admins
<1> QED BY <1>1 DEF HandsOver

\* Where one role changes, a room without admins had one, and a new one was made one.
LEMMA OneRoleHandsOver ==
    ASSUME RosterTypeOK, NEW r \in Rooms, NEW u \in Users, NEW role \in Roles,
           member' = [member EXCEPT ![r][u] = role],
           LastAdmin(r, u) /\ role # "admin" /\ People(r)' # {} => standing' # standing,
           role = "admin" /\ member[r][u] # "admin" /\ room[r] # Nobody =>
               \E q \in Requests : request'[q] # request[q] /\ request[q].by \in Admins(r) \ {u}
    PROVE  HandsOver
<1>1. /\ member'[r][u] = role
      /\ \A s \in Rooms, v \in Users : s # r \/ v # u => member'[s][v] = member[s][v]
  <2>1. member \in [Rooms -> [Users -> Roles]]
    BY DEF RosterTypeOK
  <2>2. member' = [member EXCEPT ![r][u] = role]
    OBVIOUS
  <2> QED BY <2>1, <2>2
<1>2. ASSUME NEW s \in Rooms, Admins(s) # {}, Admins(s)' = {}, People(s)' # {}
      PROVE  standing' # standing
  <2>1. PICK v \in Users : member[s][v] = "admin"
    BY <1>2 DEF Admins
  <2>2. ASSUME NEW w \in Users, member[s][w] = "admin"
        PROVE  s = r /\ w = u
    <3>1. member'[s][w] # "admin"
      BY <1>2 DEF Admins
    <3> QED BY <1>1, <2>2, <3>1
  <2>3. s = r /\ member[r][u] = "admin"
    BY <2>1, <2>2
  <2>4. LastAdmin(r, u)
    BY <2>2, <2>3 DEF LastAdmin, Admins
  <2>5. role # "admin"
    BY <1>1, <1>2, <2>3 DEF Admins
  <2> QED BY <1>2, <2>3, <2>4, <2>5
<1>3. ASSUME NEW s \in Rooms, NEW v \in Admins(s)' \ Admins(s), room[s] # Nobody
      PROVE  \E q \in Requests : request'[q] # request[q] /\ request[q].by \in Admins(s) \ {v}
  <2>1. v \in Users /\ member'[s][v] = "admin" /\ member[s][v] # "admin"
    BY DEF Admins
  <2>2. s = r /\ v = u
    BY <1>1, <2>1
  <2>3. role = "admin" /\ member[r][u] # "admin" /\ room[r] # Nobody
    BY <1>1, <1>3, <2>1, <2>2
  <2> QED BY <2>2, <2>3
<1> QED BY <1>2, <1>3 DEF HandsOver

\* Every step hands admin rights over as HandsOver says.
LEMMA StepHandsOver ==
    RosterInv /\ [RosterNext]_rosterVars => [HandsOver]_rosterVars
<1> SUFFICES ASSUME RosterInv, RosterNext
             PROVE  HandsOver
  BY DEF RosterNext
<1>0. RosterTypeOK
  BY DEF RosterInv
<1>1. ASSUME NEW u \in Users, NEW r \in Rooms, NEW n \in Names, Bootstrap(u, r, n)
      PROVE  HandsOver
  <2>1. PICK role : role = "admin"
    OBVIOUS
  <2>2. role \in Roles /\ member' = [member EXCEPT ![r][u] = role]
    BY <1>1, <2>1 DEF Bootstrap, Roles
  <2>3. room[r] = Nobody
    BY <1>1 DEF Bootstrap, RosterInv, Unopened
  <2> QED BY <1>0, <2>1, <2>2, <2>3, OneRoleHandsOver
<1>2. ASSUME NEW q \in Requests, NEW u \in Users, NEW r \in Rooms, Arrives(q, u, r)
      PROVE  HandsOver
  <2>1. UNCHANGED member
    BY <1>2, ArrivesKnow
  <2> QED BY <2>1, RolesRest
<1>3. ASSUME NEW q \in Requests, InviteRoomMember(q)
      PROVE  HandsOver
  <2>1. PICK m : m = request[q]
    OBVIOUS
  <2>2. /\ m.op = "invite" /\ member' = [member EXCEPT ![m.r][m.who] = m.role]
        /\ member[m.r][m.who] = "none"
    BY <1>3, <2>1 DEF InviteRoomMember, Carries
  <2>3. m.r \in Rooms /\ m.who \in Users /\ m.role \in {"viewer", "editor"}
    BY <2>1, <2>2 DEF RosterInv, AsksKnow, KnowsPeople
  <2>4. m.role \in Roles /\ m.role # "admin"
    BY <2>3 DEF Roles
  <2>5. ~LastAdmin(m.r, m.who)
    BY <2>2, <2>3 DEF LastAdmin, Admins
  <2> QED BY <1>0, <2>2, <2>3, <2>4, <2>5, OneRoleHandsOver
<1>4. ASSUME NEW q \in Requests, LeaveRoom(q)
      PROVE  HandsOver
  <2>1. PICK m : m = request[q]
    OBVIOUS
  <2>2. PICK role : role = "none"
    OBVIOUS
  <2>3. /\ m.op = "leave" /\ member' = [member EXCEPT ![m.r][m.by] = role]
        /\ ~(LastAdmin(m.r, m.by) /\ People(m.r) # {m.by})
    BY <1>4, <2>1, <2>2 DEF LeaveRoom, Carries
  <2>4. m.r \in Rooms /\ m.by \in Users /\ role \in Roles /\ role # "admin"
    BY <2>1, <2>2, <2>3 DEF RosterInv, AsksKnow, KnowsPeople, Roles
  <2>5. ASSUME LastAdmin(m.r, m.by)
        PROVE  People(m.r)' = {}
    <3>1. People(m.r) = {m.by}
      BY <2>3, <2>5
    <3>2. PICK r \in Rooms, u \in Users : r = m.r /\ u = m.by
      BY <2>4
    <3>3. /\ member' \in [Rooms -> [Users -> Roles]] /\ member'[r][u] = role
          /\ \A s \in Rooms, v \in Users : s # r \/ v # u => member'[s][v] = member[s][v]
      <4>1. member' = [member EXCEPT ![r][u] = role]
        BY <2>3, <3>2
      <4>2. member \in [Rooms -> [Users -> Roles]]
        BY <1>0 DEF RosterTypeOK
      <4> QED BY <2>4, <4>1, <4>2
    <3> QED BY <2>2, <3>1, <3>2, <3>3 DEF People
  <2> QED BY <1>0, <2>3, <2>4, <2>5, OneRoleHandsOver
<1>5. ASSUME NEW q \in Requests, UpdateRoomMemberRole(q)
      PROVE  HandsOver
  <2>1. PICK m : m = request[q]
    OBVIOUS
  <2>2. /\ m.op = "role" /\ member' = [member EXCEPT ![m.r][m.who] = m.role]
        /\ ~LastAdmin(m.r, m.who) /\ Fence(m) /\ request' = [request EXCEPT ![q] = IdleAsk]
    BY <1>5, <2>1 DEF UpdateRoomMemberRole, Carries
  <2>3. /\ m.r \in Rooms /\ m.who \in Users /\ m.role \in Roles /\ m.by \in Users
        /\ m.who # m.by
    BY <2>1, <2>2 DEF RosterInv, AsksKnow, KnowsPeople, Roles
  <2>4. member[m.r][m.by] = "admin"
    <3>1. member[m.r][m.by] \in Roles
      BY <1>0, <2>3 DEF RosterTypeOK
    <3>2. "administer" \in Grants[member[m.r][m.by]]
      BY <2>2 DEF Fence, Holds, Needs
    <3> QED BY <3>1, <3>2 DEF Roles, Grants
  <2>5. request'[q] # request[q]
    <3>1. request' = [p \in Requests |-> IF p = q THEN IdleAsk ELSE request[p]]
      BY <1>0, <2>2 DEF RosterTypeOK
    <3>2. request'[q].op = "idle"
      BY <3>1 DEF IdleAsk
    <3> QED BY <2>1, <2>2, <3>2
  <2>6. request[q].by \in Admins(m.r) \ {m.who}
    BY <2>1, <2>3, <2>4 DEF Admins
  <2> QED BY <1>0, <2>2, <2>3, <2>5, <2>6, OneRoleHandsOver
<1>6. ASSUME NEW q \in Requests, RemoveRoomMember(q)
      PROVE  HandsOver
  <2>1. PICK m : m = request[q]
    OBVIOUS
  <2>2. PICK role : role = "none"
    OBVIOUS
  <2>3. /\ m.op = "remove" /\ member' = [member EXCEPT ![m.r][m.who] = role]
        /\ member[m.r][m.who] # "admin"
    BY <1>6, <2>1, <2>2 DEF RemoveRoomMember, Carries
  <2>4. m.r \in Rooms /\ m.who \in Users /\ role \in Roles /\ role # "admin"
    BY <2>1, <2>2, <2>3 DEF RosterInv, AsksKnow, KnowsPeople, Roles
  <2>5. ~LastAdmin(m.r, m.who)
    BY <2>3, <2>4 DEF LastAdmin, Admins
  <2> QED BY <1>0, <2>3, <2>4, <2>5, OneRoleHandsOver
<1>7. ASSUME NEW q \in Requests, RemoveWorkspaceMember(q)
      PROVE  HandsOver
  <2>1. PICK m : m = request[q]
    OBVIOUS
  <2>2. /\ m.op = "expel" /\ standing[m.who] # "none"
        /\ member' = [r \in Rooms |-> [member[r] EXCEPT ![m.who] = "none"]]
        /\ standing' = [standing EXCEPT ![m.who] = "none"]
    BY <1>7, <2>1 DEF RemoveWorkspaceMember, Carries
  <2>3. m.who \in Users
    BY <2>1, <2>2 DEF RosterInv, AsksKnow, KnowsPeople
  <2>4. standing' # standing
    BY <1>0, <2>2, <2>3 DEF RosterTypeOK
  <2>5. \A r \in Rooms, v \in Users : member'[r][v] \in {member[r][v], "none"}
    BY <1>0, <2>2, <2>3 DEF RosterTypeOK
  <2>6. \A r \in Rooms : Admins(r)' \subseteq Admins(r)
    BY <2>5 DEF Admins
  <2> QED BY <2>4, <2>6 DEF HandsOver
<1>8. ASSUME NEW q \in Requests, CreateRoom(q) \/ CreateRoomFromTemplate(q)
      PROVE  HandsOver
  <2>1. PICK m : m = request[q]
    OBVIOUS
  <2>2. PICK role : role = "admin"
    OBVIOUS
  <2>3. /\ m.op \in {"create", "furnish"} /\ member' = [member EXCEPT ![m.r][m.by] = role]
        /\ room[m.r] = Nobody
    BY <1>8, <2>1, <2>2 DEF CreateRoom, CreateRoomFromTemplate, Carries
  <2>4. m.r \in Rooms /\ m.by \in Users /\ role \in Roles
    BY <2>1, <2>2, <2>3 DEF RosterInv, AsksKnow, KnowsPeople, Roles
  <2> QED BY <1>0, <2>2, <2>3, <2>4, OneRoleHandsOver
<1>9. ASSUME NEW q \in Requests,
             \/ SpawnAgent(q) \/ RemoveAgentFromRoom(q) \/ RejoinAgentToRoom(q)
             \/ SetAgentAddressing(q) \/ Refused(q)
      PROVE  HandsOver
  <2>1. UNCHANGED member
    BY <1>9 DEF SpawnAgent, RemoveAgentFromRoom, RejoinAgentToRoom, SetAgentAddressing, Refused
  <2> QED BY <2>1, RolesRest
<1>10. ASSUME NEW t \in Templates, ChangeTemplate(t)
       PROVE  HandsOver
  <2>1. UNCHANGED member
    BY <1>10 DEF ChangeTemplate
  <2> QED BY <2>1, RolesRest
<1>11. ASSUME NEW q \in Requests, CarriedOut(q)
       PROVE  HandsOver
  BY <1>3, <1>4, <1>5, <1>6, <1>7, <1>8, <1>9, <1>11 DEF CarriedOut
<1> QED BY <1>1, <1>2, <1>9, <1>10, <1>11 DEF RosterNext

\* Only a removal from the workspace takes the last admin of a room that has members, and
\* only an admin of the moment makes another one of a room that exists -- in whatever order
\* any number of admins demote, remove, invite and leave each other.
THEOREM AdminsPass == RosterSpec => AdminsChangeHands
<1>1. RosterInv /\ [RosterNext]_rosterVars => [HandsOver]_rosterVars
  BY StepHandsOver
<1>2. RosterSpec => [][HandsOver]_rosterVars
  BY <1>1, RosterSafe, PTL DEF RosterSpec
<1> QED BY <1>2 DEF AdminsChangeHands, HandsOver
=============================================================================
