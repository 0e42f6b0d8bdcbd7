------------------------------ MODULE Realtime ------------------------------
(* One member watching one room: committed events are broadcast by the handler  *)
(* that wrote them (realtime/hub.py), carried to other processes by a lossy     *)
(* fan-out (fanout.py), replayed and delivered by a socket (websocket.py) and   *)
(* shown by a browser tab (web/js/socket.js), while the member is removed and   *)
(* readmitted, processes die and connections drop.  An event is its sequence    *)
(* number; the log is 1 .. head.                                                *)
EXTENDS Integers, Sequences, FiniteSets, Functions

CONSTANTS Procs, Conns, Tabs, NoConn, NoProc,
          Alone,                   \* the process of a deployment without Redis
          Refreshing,              \* sequences of events that make a tab reload the room
          QueueSize, PageSize,     \* 256 and 500 in the code
          FirstCursors,            \* where a tab believes the log is when it starts:
                                   \* a point it has reached, or one it never will
          MaxEvents, MaxNotes, MaxLosses, MaxRefusals, MaxFaults, MaxRemovals   \* bounds

ASSUME RealtimeAssumption ==
    /\ QueueSize \in Nat \ {0} /\ PageSize \in Nat \ {0}
    /\ MaxEvents \in Nat \ {0} /\ Refreshing \subseteq Nat
    /\ FirstCursors \subseteq Nat /\ \A n \in FirstCursors : n <= 1 \/ n > MaxEvents
    /\ NoConn \notin Conns /\ Alone \in Procs

VARIABLES redis,                 \* the deployment has XYZZY_REDIS_URL
          head, member, token,   \* durable: latest sequence, membership, credential
          entitled,              \* history: the log when the member last could read it
          jobs,                  \* what handlers still have to do after their commit
          wire,                  \* fan-out messages under way
          present,               \* presence says ONLINE
          conn,                  \* [Conns -> one websocket_endpoint]
          tab,                   \* [Tabs -> one browser tab]
          losses, refusals, faults, removals, notes
durable == <<redis, head, member, token, entitled>>
counts == <<losses, refusals, faults, removals, notes>>
vars == <<redis, head, member, token, entitled, jobs, wire, present, conn, tab,
          losses, refusals, faults, removals, notes>>

Resync == [kind |-> "resync", seq |-> 0]
Revoked == [kind |-> "access_revoked", seq |-> 0]
Note == [kind |-> "note", seq |-> 0]
EventMsg(n) == [kind |-> "room_event", seq |-> n]

IdleConn == [at |-> "idle", of |-> NoConn, proc |-> NoProc, sub |-> FALSE, queue |-> <<>>,
             cursor |-> 0, page |-> <<>>, short |-> FALSE, through |-> -1, hand |-> 0]
FreshTab(n) == [mode |-> "retry", conn |-> NoConn, last |-> n, shown |-> {}, buffer |-> {},
                load |-> "none", snap |-> 0, rows |-> 0, again |-> FALSE, resync |-> FALSE,
                \* history: its last fetch brought nothing; the one under way was let
                \* in while the member could read, and what such a one read too late
                refused |-> FALSE, fair |-> FALSE, late |-> 0]

Init ==
    /\ redis \in BOOLEAN
    /\ head = 1 /\ member = TRUE /\ token = TRUE /\ entitled = 1   \* room.created
    /\ jobs = {} /\ wire = {} /\ present = FALSE
    /\ conn = [c \in Conns |-> IdleConn]
    /\ tab \in { [t \in Tabs |-> FreshTab(n)] : n \in FirstCursors }
    /\ losses = 0 /\ faults = 0 /\ removals = 0 /\ notes = 0 /\ refusals = 0

-----------------------------------------------------------------------------
(* The tab.                                                                     *)

LoadState(t) ==
    IF t.load = "none" THEN [t EXCEPT !.load = "asked"] ELSE [t EXCEPT !.again = TRUE]

(* handleRealtimeEvent *)
Handled_EveryGap(t, n) == [t EXCEPT !.last = n, !.shown = @ \cup {n}]
Handled(t, n) ==
    LET buffered == IF t.load # "none" THEN [t EXCEPT !.buffer = @ \cup {n}] ELSE t
        gap == t.last # 0 /\ n > t.last + 1 /\ ~t.resync
        checked == IF gap THEN LoadState([buffered EXCEPT !.resync = TRUE]) ELSE buffered
        seen == [checked EXCEPT !.last = IF n > @ THEN n ELSE @, !.shown = @ \cup {n}]
    IN IF n \in Refreshing THEN LoadState(seen) ELSE seen

(* onclose, by close code; 1006 and 1011 are a plain drop. *)
AfterClose(t, code) ==
    CASE code \in {4401, 4403} -> [t EXCEPT !.mode = "off", !.conn = NoConn]
      [] code = 4408 -> LoadState([t EXCEPT !.mode = "snapshot", !.conn = NoConn, !.last = 0])
      [] OTHER -> [t EXCEPT !.mode = "retry", !.conn = NoConn]

(* The server closes a connection; release_subscriptions comes later. *)
Closing(c, code) ==
    /\ conn' = [conn EXCEPT ![c].at = "closing", ![c].page = <<>>, ![c].hand = 0]
    /\ tab' = [t \in Tabs |-> IF tab[t].conn = c THEN AfterClose(tab[t], code) ELSE tab[t]]

(* Redis is what lets several processes serve: the fan-out and shared presence. *)
Serving == IF redis THEN Procs ELSE {Alone}

(* connectWS and onopen, which rehydrates. *)
Connect(t, c, p) ==
    /\ tab[t].mode = "retry" /\ conn[c].at = "idle" /\ p \in Serving
    /\ conn' = [conn EXCEPT ![c] = [IdleConn EXCEPT !.at = "asked", !.of = t, !.proc = p,
                                                    !.cursor = tab[t].last]]
    /\ tab' = [tab EXCEPT ![t] = LoadState([@ EXCEPT !.mode = "on", !.conn = c])]
    /\ UNCHANGED <<durable, jobs, wire, present, counts>>

(* GET /rooms/{id}/state: the route lets in a member who may read ... *)
AuthorizeState(t) ==
    /\ tab[t].load = "asked" /\ member /\ token
    /\ tab' = [tab EXCEPT ![t].load = "admitted", ![t].fair = member]
    /\ UNCHANGED <<durable, jobs, wire, present, conn, counts>>

(* ... get_room_state reads the head, which bounds messages and events, and then *)
(* the room's other rows, which nothing bounds; neither asks again.              *)
Overdue(t) == IF t.fair /\ ~member THEN head ELSE t.late
ReadHead(t) ==
    /\ tab[t].load = "admitted"
    /\ tab' = [tab EXCEPT ![t].load = "reading", ![t].snap = head, ![t].late = Overdue(tab[t])]
    /\ UNCHANGED <<durable, jobs, wire, present, conn, counts>>
ReadRows(t) ==
    /\ tab[t].load = "reading"
    /\ tab' = [tab EXCEPT ![t].load = "served", ![t].rows = head, ![t].late = Overdue(tab[t])]
    /\ UNCHANGED <<durable, jobs, wire, present, conn, counts>>

(* settleAndMaybeRetry *)
Settled(t, ok) ==
    IF t.again THEN [t EXCEPT !.again = FALSE, !.load = "asked"]
    ELSE [t EXCEPT !.load = "none", !.resync = FALSE, !.refused = ~ok,
                   !.mode = IF @ = "snapshot" /\ ok THEN "retry" ELSE @]

(* loadStateImpl applies the snapshot over what is shown, keeping what arrived    *)
(* live meanwhile; what the snapshot does not have is handled again, and an event *)
(* that reloads the room is then kept for that reload as well.                   *)
ApplyState(t) ==
    LET again == { n \in t.buffer \cap Refreshing : n > t.snap }
    IN [t EXCEPT !.shown = 1 .. t.snap \cup t.buffer, !.buffer = again,
                 !.last = IF t.snap > @ THEN t.snap ELSE @,
                 !.again = @ \/ again # {}, !.snap = 0, !.rows = 0, !.fair = FALSE]

StateArrives(t) ==
    /\ tab[t].load = "served"
    /\ tab' = [tab EXCEPT ![t] = Settled(ApplyState(@), TRUE)]
    /\ UNCHANGED <<durable, jobs, wire, present, conn, counts>>

(* The fetch is refused to somebody who may not read, or is lost. *)
StateRefused(t) ==
    /\ tab[t].load = "asked"
    /\ \/ ~(member /\ token) /\ UNCHANGED refusals
       \/ refusals < MaxRefusals /\ refusals' = refusals + 1
    /\ tab' = [tab EXCEPT ![t] = Settled(@, FALSE)]
    /\ UNCHANGED <<durable, jobs, wire, present, conn, losses, faults, removals, notes>>

(* awaitSnapshotThenReconnect, after its backoff. *)
RetryState(t) ==
    /\ tab[t].mode = "snapshot" /\ tab[t].load = "none"
    /\ tab' = [tab EXCEPT ![t] = LoadState(@)]
    /\ UNCHANGED <<durable, jobs, wire, present, conn, counts>>

-----------------------------------------------------------------------------
(* The hub.                                                                     *)

(* put_nowait, or _handle_queue_overflow: the oldest entry gives way to a resync. *)
Put_Drops(queue, m) == IF Len(queue) < QueueSize THEN Append(queue, m) ELSE queue
Put(queue, m) ==
    IF Len(queue) < QueueSize THEN Append(queue, m) ELSE Append(Tail(queue), Resync)

SubsOn(p) == { c \in Conns : conn[c].sub /\ conn[c].proc = p }
Deliver(p, m) ==
    conn' = [c \in Conns |-> IF c \in SubsOn(p) THEN [conn[c] EXCEPT !.queue = Put(@, m)] ELSE conn[c]]
RevokeAccess(p) ==
    conn' = [c \in Conns |-> IF c \in SubsOn(p)
                 THEN [conn[c] EXCEPT !.sub = FALSE, !.queue = Put(@, Revoked)] ELSE conn[c]]

(* RedisFanout.publish: to every other process, or to none when it fails. *)
Publish(p, m) ==
    \/ wire' = wire \cup { [to |-> q, msg |-> m] : q \in Serving \ {p} } /\ UNCHANGED losses
    \/ /\ losses < MaxLosses /\ Serving # {p}
       /\ losses' = losses + 1 /\ UNCHANGED wire

(* _handle_message on another process; pub/sub may drop it. *)
Receive(w) ==
    /\ w \in wire /\ wire' = wire \ {w}
    /\ IF w.msg = Revoked THEN RevokeAccess(w.to) ELSE Deliver(w.to, w.msg)
    /\ UNCHANGED <<durable, jobs, present, tab, counts>>
Dropped(w) ==
    /\ w \in wire /\ wire' = wire \ {w}
    /\ losses < MaxLosses /\ losses' = losses + 1
    /\ UNCHANGED <<durable, jobs, present, conn, tab, refusals, faults, removals, notes>>

(* A handler of process p commits an event; what follows is in-memory work. *)
CommitEvent(p) ==
    /\ head < MaxEvents /\ head' = head + 1 /\ p \in Serving
    /\ entitled' = IF member THEN head + 1 ELSE entitled
    /\ jobs' = jobs \cup {[todo |-> "event", seq |-> head + 1, proc |-> p, removal |-> FALSE]}
    /\ UNCHANGED <<redis, member, token, wire, present, conn, tab, counts>>

(* remove_room_member, leave_room, remove_workspace_member: revoke, broadcast,   *)
(* clear presence, in this order.                                                *)
RemoveMember(p) ==
    /\ member /\ head < MaxEvents /\ removals < MaxRemovals /\ p \in Serving
    /\ member' = FALSE /\ head' = head + 1 /\ removals' = removals + 1
    /\ jobs' = jobs \cup {[todo |-> "revoke", seq |-> head + 1, proc |-> p, removal |-> TRUE]}
    /\ UNCHANGED <<redis, token, entitled, wire, present, conn, tab, losses, refusals, faults, notes>>
InviteMember(p) ==
    /\ ~member /\ head < MaxEvents /\ p \in Serving
    /\ member' = TRUE /\ head' = head + 1 /\ entitled' = head + 1
    /\ jobs' = jobs \cup {[todo |-> "event", seq |-> head + 1, proc |-> p, removal |-> FALSE]}
    /\ tab' = [t \in Tabs |-> IF tab[t].mode = "off" /\ token THEN [tab[t] EXCEPT !.mode = "retry"] ELSE tab[t]]
    /\ UNCHANGED <<redis, token, wire, present, conn, counts>>

RevokeJob(j) ==
    /\ j \in jobs /\ j.todo = "revoke"
    /\ RevokeAccess(j.proc) /\ Publish(j.proc, Revoked)
    /\ jobs' = (jobs \ {j}) \cup {[j EXCEPT !.todo = "event"]}
    /\ UNCHANGED <<durable, present, tab, refusals, faults, removals, notes>>
BroadcastJob(j) ==
    /\ j \in jobs /\ j.todo = "event"
    /\ Deliver(j.proc, EventMsg(j.seq)) /\ Publish(j.proc, EventMsg(j.seq))
    /\ jobs' = (jobs \ {j}) \cup (IF j.removal THEN {[j EXCEPT !.todo = "left"]} ELSE {})
    /\ UNCHANGED <<durable, present, tab, refusals, faults, removals, notes>>
PresenceJob(j) ==
    /\ j \in jobs /\ j.todo = "left"
    /\ present' = FALSE /\ jobs' = jobs \ {j}
    /\ UNCHANGED <<durable, wire, conn, tab, counts>>

(* send_to_user: an unsequenced message in the same queues. *)
SendToUser(p) ==
    /\ notes < MaxNotes /\ notes' = notes + 1 /\ p \in Serving
    /\ Deliver(p, Note)
    /\ UNCHANGED <<durable, jobs, wire, present, tab, losses, refusals, faults, removals>>

-----------------------------------------------------------------------------
(* websocket_endpoint: every await is a step.                                   *)
ConnStep(c, at) == conn[c].at = at
Moves(c, to) == conn' = [conn EXCEPT ![c].at = to] /\ UNCHANGED tab
ConnOnly == UNCHANGED <<durable, jobs, wire, counts>>

Authorize(c) ==
    /\ ConnStep(c, "asked")
    /\ CASE ~token -> Closing(c, 4401)
         [] token /\ ~member -> Closing(c, 4403)
         [] OTHER -> Moves(c, "authorized")
    /\ ConnOnly /\ UNCHANGED present
CheckCursor(c) ==
    /\ ConnStep(c, "authorized")
    /\ IF conn[c].cursor > head THEN Closing(c, 4408) ELSE Moves(c, "fit")
    /\ ConnOnly /\ UNCHANGED present
Subscribe(c) ==
    /\ ConnStep(c, "fit")
    /\ conn' = [conn EXCEPT ![c].at = "subscribed", ![c].sub = TRUE]
    /\ ConnOnly /\ UNCHANGED <<tab, present>>
(* still_authorized, then presence.user_joined: the process's own dictionary, or  *)
(* a key of Redis, one for the member and the room, that is set over the network. *)
Recheck(c) ==
    /\ ConnStep(c, "subscribed")
    /\ IF member
       THEN Moves(c, IF redis THEN "joining" ELSE "replaying") /\ present' = (present \/ ~redis)
       ELSE Closing(c, 4403) /\ UNCHANGED present
    /\ ConnOnly
JoinPresence(c) ==
    /\ ConnStep(c, "joining")
    /\ Moves(c, "replaying") /\ present' = TRUE
    /\ ConnOnly

PageAfter(n) == [i \in 1 .. (IF n + PageSize < head THEN PageSize ELSE head - n) |-> n + i]
Through(c) == conn[c].cursor

ReadPage(c) ==
    /\ ConnStep(c, "replaying") /\ conn[c].page = <<>> /\ conn[c].hand = 0
    /\ LET page == PageAfter(conn[c].cursor) IN
       conn' = [conn EXCEPT ![c] =
           IF page = <<>> \/ @.short THEN [@ EXCEPT !.at = "live", !.through = Through(c)]
                                     ELSE [@ EXCEPT !.page = page, !.short = Len(page) < PageSize]]
    /\ ConnOnly /\ UNCHANGED <<tab, present>>
TakeReplay(c) ==
    /\ ConnStep(c, "replaying") /\ conn[c].page # <<>> /\ conn[c].hand = 0
    /\ IF member
       THEN /\ conn' = [conn EXCEPT ![c].hand = Head(conn[c].page),
                                 ![c].page = Tail(conn[c].page)]
            /\ UNCHANGED tab
       ELSE Closing(c, 4403)
    /\ ConnOnly /\ UNCHANGED present

(* send_loop: one entry of the queue; membership is read again before an event. *)
MayHear_Cached == TRUE
MayHear == member
TakeLive(c) ==
    /\ ConnStep(c, "live") /\ conn[c].hand = 0 /\ conn[c].queue # <<>>
    /\ LET m == Head(conn[c].queue)
           rest == [conn EXCEPT ![c].queue = Tail(@)]
           hears == m.kind = "room_event" /\ m.seq > conn[c].through
       IN CASE m = Revoked -> Closing(c, 4403)
            [] m = Resync -> Closing(c, 4408)
            [] hears /\ ~MayHear -> Closing(c, 4403)
            [] hears /\ MayHear -> conn' = [rest EXCEPT ![c].hand = m.seq] /\ UNCHANGED tab
            [] OTHER -> conn' = rest /\ UNCHANGED tab
    /\ ConnOnly /\ UNCHANGED present
SendEvent(c) ==
    /\ conn[c].hand # 0
    /\ conn' = [conn EXCEPT ![c].hand = 0, ![c].cursor = IF conn[c].at = "replaying" THEN conn[c].hand ELSE @]
    /\ tab' = [t \in Tabs |-> IF tab[t].conn = c THEN Handled(tab[t], conn[c].hand) ELSE tab[t]]
    /\ ConnOnly /\ UNCHANGED present

(* Every REAUTH_SECONDS: the credential, then the membership of every room the    *)
(* member's live subscriptions on this process name.                             *)
Rechecks_Token(c) == FALSE
Rechecks(c) == ~member /\ SubsOn(conn[c].proc) # {}
Reauthenticate(c) ==
    /\ ConnStep(c, "live") /\ conn[c].hand = 0
    /\ \/ /\ ~token /\ Closing(c, 4401) /\ UNCHANGED <<wire, losses>>
       \/ /\ token /\ Rechecks(c)
          /\ RevokeAccess(conn[c].proc) /\ Publish(conn[c].proc, Revoked) /\ UNCHANGED tab
    /\ UNCHANGED <<durable, jobs, present, refusals, faults, removals, notes>>

(* release_subscriptions: the last socket of this process also clears presence,   *)
(* at once in the process's own dictionary, over the network in Redis.           *)
LastSocket_Any(c) == TRUE
LastSocket(c) == SubsOn(conn[c].proc) \ {c} = {}
Release(c) ==
    /\ ConnStep(c, "closing")
    /\ conn' = [conn EXCEPT ![c] = IF redis /\ LastSocket(c)
                                   THEN [IdleConn EXCEPT !.at = "leaving", !.proc = conn[c].proc]
                                   ELSE IdleConn]
    /\ present' = (present /\ (redis \/ ~LastSocket(c)))
    /\ ConnOnly /\ UNCHANGED tab
(* user_left, which Redis may fail. *)
LeavePresence(c) ==
    /\ ConnStep(c, "leaving")
    /\ conn' = [conn EXCEPT ![c] = IdleConn]
    /\ present' \in {FALSE, present}
    /\ ConnOnly /\ UNCHANGED tab
(* A key that no live socket refreshes runs out. *)
PresenceLapses ==
    /\ redis /\ present /\ \A c \in Conns : conn[c].at # "live"
    /\ present' = FALSE
    /\ UNCHANGED <<durable, jobs, wire, conn, tab, counts>>

-----------------------------------------------------------------------------
(* Faults.                                                                      *)
Drop(c) ==
    /\ conn[c].at \notin {"idle", "closing", "leaving"} /\ faults < MaxFaults /\ faults' = faults + 1
    /\ Closing(c, 1006)
    /\ UNCHANGED <<durable, jobs, wire, present, losses, refusals, removals, notes>>
CrashProcess(p) ==
    /\ p \in Serving /\ faults < MaxFaults /\ faults' = faults + 1
    /\ \/ \E c \in Conns : conn[c].proc = p
       \/ \E j \in jobs : j.proc = p
    /\ IF \E j \in jobs : j.proc = p
       THEN losses < MaxLosses /\ losses' = losses + 1 ELSE UNCHANGED losses
    /\ jobs' = { j \in jobs : j.proc # p }
    /\ wire' = { w \in wire : w.to # p }
    /\ present' = (present /\ redis)
    /\ tab' = [t \in Tabs |-> IF tab[t].conn # NoConn /\ conn[tab[t].conn].proc = p
                              THEN AfterClose(tab[t], 1006) ELSE tab[t]]
    /\ conn' = [c \in Conns |-> IF conn[c].proc = p THEN IdleConn ELSE conn[c]]
    /\ UNCHANGED <<durable, refusals, removals, notes>>
RevokeToken ==
    /\ token /\ faults < MaxFaults /\ faults' = faults + 1 /\ token' = FALSE
    /\ UNCHANGED <<redis, head, member, entitled, jobs, wire, present, conn, tab, losses, refusals, removals, notes>>

-----------------------------------------------------------------------------
TabNext(t) ==
    \/ \E c \in Conns, p \in Procs : Connect(t, c, p)
    \/ AuthorizeState(t) \/ ReadHead(t) \/ ReadRows(t) \/ StateArrives(t) \/ StateRefused(t) \/ RetryState(t)
ConnNext(c) ==
    \/ Authorize(c) \/ CheckCursor(c) \/ Subscribe(c) \/ Recheck(c) \/ JoinPresence(c)
    \/ ReadPage(c) \/ TakeReplay(c) \/ TakeLive(c) \/ SendEvent(c)
    \/ Release(c) \/ LeavePresence(c)
HubNext ==
    \/ \E w \in wire : Receive(w) \/ Dropped(w)
    \/ \E j \in jobs : RevokeJob(j) \/ BroadcastJob(j) \/ PresenceJob(j)
RoomNext ==
    \E p \in Procs : CommitEvent(p) \/ RemoveMember(p) \/ InviteMember(p) \/ SendToUser(p)
FaultNext == (\E c \in Conns : Drop(c)) \/ (\E p \in Procs : CrashProcess(p)) \/ RevokeToken

Next ==
    \/ \E t \in Tabs : TabNext(t)
    \/ \E c \in Conns : ConnNext(c) \/ Reauthenticate(c)
    \/ HubNext \/ RoomNext \/ FaultNext \/ PresenceLapses
Spec == Init /\ [][Next]_vars

(* The event loop runs every task that can go on; a browser retries; the beat    *)
(* of a socket comes round.  A fetch is answered again and again by a server     *)
(* that can answer.                                                              *)
Fairness ==
    /\ \A t \in Tabs : WF_vars(TabNext(t))
    /\ \A c \in Conns : WF_vars(ConnNext(c)) /\ WF_vars(Reauthenticate(c))
    /\ WF_vars(\E w \in wire : Receive(w))
    /\ WF_vars(\E j \in jobs : RevokeJob(j) \/ BroadcastJob(j) \/ PresenceJob(j))
FairSpec == Spec /\ Fairness

-----------------------------------------------------------------------------
(* What is given to a tab: what it shows, and the rows of a state on its way. *)
Given(t) == t.shown \cup (IF t.load = "served" THEN 1 .. t.rows ELSE {})

(* A removed member is given nothing that was committed after the removal, by     *)
(* socket, replay or snapshot, whichever process learns of the removal when; but  *)
(* for what a fetch let in before the removal read after it, since get_room_state *)
(* does not ask a second time.                                                   *)
NothingPastRemoval ==
    \A t \in Tabs : \A n \in Given(tab[t]) : n <= entitled \/ n <= tab[t].late

(* A hole in what a tab shows: an event below the last one it saw. *)
Holes(t) == (1 .. tab[t].last) \ tab[t].shown
Coming(c, n) ==
    \/ conn[c].hand = n \/ n \in Range(conn[c].page)
    \/ conn[c].at # "live" \/ Resync \in Range(conn[c].queue) \/ Revoked \in Range(conn[c].queue)
    \/ EventMsg(n) \in Range(conn[c].queue)
    \/ \E j \in jobs : j.seq = n /\ j.todo # "left"
    \/ \E w \in wire : w.msg.seq = n

(* "rather than leaving a hole nothing heals until an unrelated reconnect": a tab *)
(* with a live socket that misses an event below its cursor is already reloading, *)
(* or was refused its last reload, or the event is still on its way to it, or its *)
(* socket is about to be closed.                                                 *)
NoSilentHole ==
    \A t \in Tabs : tab[t].mode = "on" /\ tab[t].load = "none" /\ ~tab[t].refused =>
        \A n \in Holes(t) : Coming(tab[t].conn, n)

(* The same while every message got through: reordering, queues that overflow,    *)
(* replays, removals, lost fetches and reconnections leave no hole of their own. *)
HolesAreComing == losses = 0 => NoSilentHole

(* "Only the last socket keeping this (user, room) pair subscribed marks them     *)
(* offline": without Redis, a member whose socket is being served is shown as     *)
(* present, until a removal of theirs clears it.  With Redis the last socket of   *)
(* one process clears the key of all, and may do it after a new one has joined.   *)
PresentWhileServed ==
    ~redis /\ removals = 0 =>
        \A c \in Conns : conn[c].at \in {"replaying", "live"} /\ conn[c].sub => present

(* A removal reaches every open socket even when every revoke message is lost.   *)
RemovedIsClosed == ~member ~> (member \/ \A c \in Conns : conn[c].at = "idle")

(* With no message lost, a tab that stays connected catches up with the log in    *)
(* the end, through overflows, replays, drops and refused cursors.               *)
CaughtUp ==
    \A t \in Tabs :
        TRUE ~> (tab[t].shown = 1 .. head \/ ~member \/ ~token \/ losses > 0 \/ tab[t].mode = "off")
=============================================================================
