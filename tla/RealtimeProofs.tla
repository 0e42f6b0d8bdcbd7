--------------------------- MODULE RealtimeProofs ---------------------------
(***************************************************************************)
(* A removed member is shown nothing past the removal, a tab misses no     *)
(* event silently, and a served member is present: for any number of tabs, *)
(* sockets, processes and faults, and for queues and pages of any length.  *)
(*                                                                         *)
(* None of the three is inductive.  Entitlement says it of an event on its *)
(* way too: in a hand, in a buffer, in a snapshot not yet applied.  That   *)
(* holes are coming speaks of a socket that is live; it is prepared while  *)
(* the socket shakes hands.  An event at or below its cursor is shown, or  *)
(* a snapshot that has it is on its way (Kept); the page being replayed is *)
(* the log right after the cursor (Fit); and an event above both, of a     *)
(* replay that has read its last page, is with a handler, in the fan-out,  *)
(* in the queue, or in the hand (OnItsWay), unless the socket is doomed.   *)
(***************************************************************************)
EXTENDS Realtime, SequenceTheorems, TLAPS

MsgType == [kind : {"resync", "access_revoked", "note", "room_event"}, seq : Nat]
JobType == [todo : {"event", "revoke", "left"}, seq : Nat, proc : Procs, removal : BOOLEAN]
ConnType == [at : {"idle", "asked", "authorized", "fit", "subscribed", "joining", "replaying",
                   "live", "closing", "leaving"},
             of : Tabs \cup {NoConn}, proc : Procs \cup {NoProc}, sub : BOOLEAN,
             queue : Seq(MsgType), cursor : Nat, page : Seq(Nat), short : BOOLEAN,
             through : Int, hand : Nat]
TabType == [mode : {"retry", "on", "snapshot", "off"}, conn : Conns \cup {NoConn}, last : Nat,
            shown : SUBSET Nat, buffer : SUBSET Nat,
            load : {"none", "asked", "admitted", "reading", "served"},
            snap : Nat, rows : Nat, again : BOOLEAN, resync : BOOLEAN, refused : BOOLEAN,
            fair : BOOLEAN, late : Nat]

\* The types of the state.
TypeOK ==
    /\ redis \in BOOLEAN /\ head \in Nat /\ member \in BOOLEAN /\ token \in BOOLEAN /\ entitled \in Nat
    /\ jobs \in SUBSET JobType /\ wire \in SUBSET [to : Procs, msg : MsgType]
    /\ present \in BOOLEAN
    /\ conn \in [Conns -> ConnType] /\ tab \in [Tabs -> TabType]
    /\ losses \in Nat /\ refusals \in Nat /\ faults \in Nat /\ removals \in Nat /\ notes \in Nat

\* A message that names an event names one of the log.
InLog(m, h) == m.kind = "room_event" => m.seq >= 1 /\ m.seq <= h
Logged(q, h) == \A i \in DOMAIN q : InLog(q[i], h)

\* Nobody is entitled to more than there is; who is a member is entitled to all.
Reached ==
    /\ head >= 1 /\ head <= MaxEvents /\ entitled <= head /\ (member => entitled = head)
    /\ \A j \in jobs : /\ j.seq >= 1 /\ j.seq <= head
                       /\ j.removal => removals > 0
                       /\ j.todo = "left" => j.removal
    /\ \A w \in wire : InLog(w.msg, head)
    /\ \A c \in Conns : Logged(conn[c].queue, head)

\* What a tab shows, keeps or is about to be given: up to event e, or what a fetch
\* let in before a removal has read after it.
Told(k, e) ==
    /\ k.shown \subseteq (1 .. e) \cup (1 .. k.late) /\ k.buffer \subseteq (1 .. e) \cup (1 .. k.late)
    /\ k.snap <= e \/ k.snap <= k.late
    /\ k.rows <= e \/ k.rows <= k.late
Entitlement ==
    /\ \A c \in Conns : conn[c].hand <= entitled
    /\ \A t \in Tabs : Told(tab[t], entitled)

\* A socket that is going to be closed by what is in its queue.
Doomed(s) == \E i \in DOMAIN s.queue : s.queue[i] = Resync \/ s.queue[i] = Revoked
Queued(s, n) == \E i \in DOMAIN s.queue : s.queue[i] = EventMsg(n)

\* The last event a socket has taken; the last one it knows of.
Sent(s) == IF s.hand # 0 THEN s.hand ELSE s.cursor
End(s) == IF s.at = "live" THEN s.cursor ELSE Sent(s) + Len(s.page)

\* A socket at each of its awaits, in a log of h events.
Fit(s, h) ==
    /\ s.at \in {"asked", "authorized"} => s.cursor <= h \/ s.cursor > MaxEvents
    /\ s.at \in {"fit", "subscribed", "joining", "replaying", "live"} => s.cursor <= h
    /\ s.at \notin {"replaying", "live"} => s.hand = 0 /\ s.page = <<>>
    /\ s.at \in {"asked", "authorized", "fit", "subscribed", "joining"} => ~s.short
    /\ s.at = "replaying" =>
           /\ s.hand = 0 \/ s.hand = s.cursor + 1
           /\ Sent(s) + Len(s.page) <= h
           /\ \A i \in DOMAIN s.page : s.page[i] = Sent(s) + i
    /\ s.at = "live" => s.page = <<>> /\ s.through = s.cursor
    /\ s.at \in {"subscribed", "joining", "replaying", "live"} /\ ~s.sub => Doomed(s)

\* A socket is with a process that serves; without Redis nobody waits for it.
Placed(s) ==
    /\ s.at # "idle" => s.proc \in Serving
    /\ s.at = "leaving" => redis

\* A tab, in a log of h events: what it shows beyond the snapshot it is about to
\* apply, it has kept, and no fetch of its was let in unfairly.
Within(k, h) ==
    /\ k.shown \subseteq 1 .. h /\ k.buffer \subseteq 1 .. h
    /\ k.snap <= h /\ k.rows <= h /\ k.late <= h
Whole(k, h) ==
    /\ k.mode = "on" => k.conn \in Conns
    /\ k.last <= h \/ k.last > MaxEvents
    /\ k.load \in {"reading", "served"} => k.shown \subseteq (1 .. k.snap) \cup k.buffer
    /\ k.load \in {"admitted", "reading"} => k.fair
    /\ k.again => k.load # "none"
    /\ Within(k, h)

\* Event n is shown, or a snapshot that has it is coming, or it was refused.
Kept(k, n) ==
    \/ n \in k.shown \/ k.load \in {"asked", "admitted"} \/ k.again
    \/ k.load \in {"reading", "served"} /\ n <= k.snap
    \/ k.load = "none" /\ k.refused

\* A tab and its socket: nothing at or below the cursor is missing for good.
Linked(k, s, h) ==
    /\ s.at \notin {"idle", "closing", "leaving"}
    /\ k.last <= h \/ s.cursor = k.last
    /\ s.cursor <= h => \A n \in 1 .. s.cursor : Kept(k, n)

\* With a handler, in the fan-out, in the queue, in the hand, or shown.
Underway(s, n, J, W) ==
    \/ \E j \in J : j.seq = n /\ j.todo # "left"
    \/ [to |-> s.proc, msg |-> EventMsg(n)] \in W
OnItsWay(k, s, n, J, W) ==
    n \in k.shown \/ s.hand = n \/ Doomed(s) \/ Queued(s, n) \/ Underway(s, n, J, W)

\* Once a socket has read its last page, every later event is on its way.
Tailing(s) == s.at = "live" \/ (s.at = "replaying" /\ s.short)
Ahead(k, s, h, J, W) ==
    Tailing(s) => \A n \in 1 .. h : n > End(s) => OnItsWay(k, s, n, J, W)

ConnsFit == \A c \in Conns : Fit(conn[c], head)
AllPlaced == \A c \in Conns : Placed(conn[c])
TabsWhole == \A t \in Tabs : Whole(tab[t], head)
AllLinked == \A t \in Tabs : tab[t].conn \in Conns => Linked(tab[t], conn[tab[t].conn], head)
AllAhead ==
    losses = 0 => \A t \in Tabs : tab[t].conn \in Conns =>
                      Ahead(tab[t], conn[tab[t].conn], head, jobs, wire)

RealtimeInv ==
    /\ TypeOK /\ Reached /\ Entitlement /\ AllPlaced /\ PresentWhileServed
    /\ ConnsFit /\ TabsWhole /\ AllLinked /\ AllAhead

-----------------------------------------------------------------------------
(* Queues and pages.                                                          *)

\* What Put leaves in a queue: the message or a resync, and what was there or a
\* resync; the queue of a bounded size drops its oldest entry.
LEMMA PutKeeps ==
    ASSUME NEW q \in Seq(MsgType), NEW m \in MsgType, NEW h \in Nat
    PROVE  /\ Put(q, m) \in Seq(MsgType)
           /\ \E i \in DOMAIN Put(q, m) : Put(q, m)[i] = m \/ Put(q, m)[i] = Resync
           /\ \A i \in DOMAIN q : \E l \in DOMAIN Put(q, m) :
                  Put(q, m)[l] = q[i] \/ Put(q, m)[l] = Resync
           /\ Logged(q, h) /\ InLog(m, h) => Logged(Put(q, m), h)
<1>r. Resync \in MsgType /\ InLog(Resync, h)  BY DEF Resync, MsgType, InLog
<1>1. CASE Len(q) < QueueSize
    <2>1. Put(q, m) = Append(q, m)  BY <1>1 DEF Put
    <2>2. /\ Append(q, m) \in Seq(MsgType) /\ Len(Append(q, m)) = Len(q) + 1
          /\ \A i \in 1 .. Len(q) : Append(q, m)[i] = q[i]
          /\ Append(q, m)[Len(q) + 1] = m
        OBVIOUS
    <2>3. Len(q) \in Nat /\ DOMAIN q = 1 .. Len(q) /\ DOMAIN Append(q, m) = 1 .. Len(q) + 1
        BY <2>2
    <2>4. Len(q) + 1 \in DOMAIN Append(q, m) /\ DOMAIN q \subseteq DOMAIN Append(q, m)
        BY <2>3
    <2>5. ASSUME Logged(q, h), InLog(m, h)  PROVE Logged(Append(q, m), h)
        <3>1. ASSUME NEW i \in 1 .. Len(q) + 1  PROVE InLog(Append(q, m)[i], h)
            <4>1. CASE i = Len(q) + 1  BY <4>1, <2>2, <2>5
            <4>2. CASE i # Len(q) + 1
                <5>1. i \in DOMAIN q  BY <4>2, <2>3
                <5> QED  BY <5>1, <2>2, <2>3, <2>5 DEF Logged
            <4> QED  BY <4>1, <4>2
        <3> QED  BY <3>1, <2>3 DEF Logged
    <2> QED  BY <2>1, <2>2, <2>3, <2>4, <2>5
<1>2. CASE ~(Len(q) < QueueSize)
    <2>1. Put(q, m) = Append(Tail(q), Resync)  BY <1>2 DEF Put
    <2>2. q # <<>> /\ Len(q) \in Nat /\ Len(q) >= 1  BY <1>2, RealtimeAssumption
    <2>3. /\ Tail(q) \in Seq(MsgType) /\ Len(Tail(q)) = Len(q) - 1
          /\ \A i \in 1 .. Len(q) - 1 : Tail(q)[i] = q[i + 1]
        BY <2>2
    <2>4. /\ Append(Tail(q), Resync) \in Seq(MsgType)
          /\ Len(Append(Tail(q), Resync)) = Len(q)
          /\ \A i \in 1 .. Len(q) - 1 : Append(Tail(q), Resync)[i] = q[i + 1]
          /\ Append(Tail(q), Resync)[Len(q)] = Resync
        BY <1>r, <2>2, <2>3
    <2>5. DOMAIN q = 1 .. Len(q) /\ DOMAIN Append(Tail(q), Resync) = 1 .. Len(q)
        BY <2>4
    <2>6. Len(q) \in DOMAIN Append(Tail(q), Resync)  BY <2>2, <2>5
    <2>7. ASSUME Logged(q, h)  PROVE Logged(Append(Tail(q), Resync), h)
        <3>1. ASSUME NEW i \in 1 .. Len(q)  PROVE InLog(Append(Tail(q), Resync)[i], h)
            <4>1. CASE i = Len(q)  BY <4>1, <2>4, <1>r
            <4>2. CASE i # Len(q)
                <5>0. i \in 1 .. Len(q) - 1 /\ i + 1 \in 1 .. Len(q)  BY <4>2, <3>1, <2>2
                <5>1. i + 1 \in DOMAIN q  BY <5>0, <2>5
                <5>2. InLog(q[i + 1], h)  BY <5>1, <2>7 DEF Logged
                <5>3. Append(Tail(q), Resync)[i] = q[i + 1]  BY <5>0, <2>4
                <5> QED  BY <5>2, <5>3
            <4> QED  BY <4>1, <4>2
        <3> QED  BY <3>1, <2>5 DEF Logged
    <2> QED  BY <2>1, <2>4, <2>5, <2>6, <2>7
<1> QED  BY <1>1, <1>2

\* A socket after something was put into its queue, or into none.
Fuller(s, r, h) ==
    /\ r = [s EXCEPT !.queue = r.queue, !.sub = r.sub]
    /\ Doomed(s) => Doomed(r)
    /\ \A n \in Nat : Queued(s, n) => Queued(r, n) \/ Doomed(r)
    /\ r.sub # s.sub => Doomed(r)
    /\ r.sub => s.sub
    /\ Logged(r.queue, h)

\* Delivering to a socket, or revoking it, makes its queue fuller, and the
\* message is in it or the socket is doomed.
LEMMA PutFuller ==
    ASSUME NEW s \in ConnType, NEW m \in MsgType, NEW h \in Nat, Logged(s.queue, h), InLog(m, h)
    PROVE  /\ LET r == [s EXCEPT !.queue = Put(@, m)] IN
                  /\ r \in ConnType /\ Fuller(s, r, h)
                  /\ \A n \in Nat : m = EventMsg(n) => Queued(r, n) \/ Doomed(r)
           /\ LET r == [s EXCEPT !.sub = FALSE, !.queue = Put(@, Revoked)] IN
                  r \in ConnType /\ Fuller(s, r, h)
<1>q. s.queue \in Seq(MsgType)  BY DEF ConnType
<1>v. Revoked \in MsgType /\ InLog(Revoked, h)  BY DEF Revoked, MsgType, InLog
<1>1. ASSUME NEW x \in MsgType, InLog(x, h), NEW b \in BOOLEAN, b => s.sub, b # s.sub => x = Revoked,
             NEW r, r = [s EXCEPT !.sub = b, !.queue = Put(s.queue, x)]
      PROVE  /\ r \in ConnType /\ Fuller(s, r, h)
             /\ \A n \in Nat : x = EventMsg(n) => Queued(r, n) \/ Doomed(r)
    <2>1. /\ Put(s.queue, x) \in Seq(MsgType)
          /\ \E i \in DOMAIN Put(s.queue, x) : Put(s.queue, x)[i] = x \/ Put(s.queue, x)[i] = Resync
          /\ \A i \in DOMAIN s.queue : \E l \in DOMAIN Put(s.queue, x) :
                  Put(s.queue, x)[l] = s.queue[i] \/ Put(s.queue, x)[l] = Resync
          /\ Logged(Put(s.queue, x), h)
        BY <1>q, <1>1, PutKeeps
    <2>2. r.queue = Put(s.queue, x) /\ r.sub = b  BY <1>1 DEF ConnType
    <2>3. r \in ConnType  BY <2>1, <1>1 DEF ConnType
    <2>4. r = [s EXCEPT !.queue = r.queue, !.sub = r.sub]  BY <2>2, <1>1 DEF ConnType
    <2>5. Doomed(s) => Doomed(r)  BY <2>1, <2>2 DEF Doomed
    <2>6. \A n \in Nat : Queued(s, n) => Queued(r, n) \/ Doomed(r)
        BY <2>1, <2>2 DEF Doomed, Queued
    <2>7. \A n \in Nat : x = EventMsg(n) => Queued(r, n) \/ Doomed(r)
        BY <2>1, <2>2 DEF Doomed, Queued
    <2>8. x = Revoked => Doomed(r)  BY <2>1, <2>2 DEF Doomed
    <2> QED  BY <2>1, <2>2, <2>3, <2>4, <2>5, <2>6, <2>7, <2>8, <1>1 DEF Fuller
<1>2. [s EXCEPT !.queue = Put(@, m)] = [s EXCEPT !.sub = s.sub, !.queue = Put(s.queue, m)]
      /\ s.sub \in BOOLEAN
    BY DEF ConnType
<1>3. [s EXCEPT !.sub = FALSE, !.queue = Put(@, Revoked)]
         = [s EXCEPT !.sub = FALSE, !.queue = Put(s.queue, Revoked)]
    OBVIOUS
<1>4. /\ [s EXCEPT !.queue = Put(@, m)] \in ConnType
      /\ Fuller(s, [s EXCEPT !.queue = Put(@, m)], h)
      /\ \A n \in Nat : m = EventMsg(n) => \/ Queued([s EXCEPT !.queue = Put(@, m)], n)
                                           \/ Doomed([s EXCEPT !.queue = Put(@, m)])
    BY <1>1, <1>2
<1>5. /\ [s EXCEPT !.sub = FALSE, !.queue = Put(@, Revoked)] \in ConnType
      /\ Fuller(s, [s EXCEPT !.sub = FALSE, !.queue = Put(@, Revoked)], h)
    BY <1>1, <1>3, <1>v
<1> QED  BY <1>4, <1>5

\* A socket whose queue is fuller is as it was in everything else.
LEMMA FullerKeeps ==
    ASSUME NEW s \in ConnType, NEW r \in ConnType, NEW h \in Nat, Fuller(s, r, h)
    PROVE  /\ r.at = s.at /\ r.proc = s.proc /\ r.cursor = s.cursor /\ r.page = s.page
           /\ r.hand = s.hand /\ r.short = s.short /\ r.through = s.through /\ r.of = s.of
           /\ Fit(s, h) => Fit(r, h)
           /\ Tailing(r) => Tailing(s)
           /\ End(r) = End(s)
           /\ \A k : Linked(k, s, h) => Linked(k, r, h)
<1>1. /\ r.at = s.at /\ r.proc = s.proc /\ r.cursor = s.cursor /\ r.page = s.page
      /\ r.hand = s.hand /\ r.short = s.short /\ r.through = s.through /\ r.of = s.of
    BY DEF Fuller, ConnType
<1>2. Sent(r) = Sent(s)  BY <1>1 DEF Sent
<1>3. End(r) = End(s)  BY <1>1, <1>2 DEF End
<1>4. Fit(s, h) => Fit(r, h)  BY <1>1, <1>2 DEF Fit, Fuller
<1>5. Tailing(r) => Tailing(s)  BY <1>1 DEF Tailing
<1>6. \A k : Linked(k, s, h) => Linked(k, r, h)  BY <1>1 DEF Linked
<1> QED  BY <1>1, <1>3, <1>4, <1>5, <1>6

\* And every event that was on its way to its tab still is, if what was under
\* way is under way or has come into the queue.
LEMMA FullerAhead ==
    ASSUME NEW s \in ConnType, NEW r \in ConnType, NEW h \in Nat, Fuller(s, r, h),
           NEW k, NEW J, NEW W, NEW J2, NEW W2, Ahead(k, s, h, J, W),
           \A n \in 1 .. h : Underway(s, n, J, W) => \/ Underway(r, n, J2, W2)
                                                     \/ Queued(r, n) \/ Doomed(r)
    PROVE  Ahead(k, r, h, J2, W2)
<1>1. r.hand = s.hand /\ (Tailing(r) => Tailing(s)) /\ End(r) = End(s)  BY FullerKeeps
<1>2. ASSUME NEW n \in 1 .. h, OnItsWay(k, s, n, J, W)  PROVE OnItsWay(k, r, n, J2, W2)
    <2>1. n \in Nat  OBVIOUS
    <2> QED  BY <1>1, <1>2, <2>1 DEF OnItsWay, Fuller
<1> QED  BY <1>1, <1>2 DEF Ahead

-----------------------------------------------------------------------------
(* The tab's own steps.                                                       *)

\* A tab l that was k, in a log of h events of which e may be shown: what was
\* shown stays, what was kept is kept, and it has the same socket.
Goes(k, l, h, e) ==
    /\ l \in TabType /\ l.conn = k.conn /\ k.shown \subseteq l.shown
    /\ \A n \in 1 .. h : Kept(k, n) => Kept(l, n)
    /\ l.last <= h \/ l.last = k.last
    /\ Whole(l, h) /\ Told(l, e)

\* A tab that goes on twice has gone on.
LEMMA GoesTwice ==
    ASSUME NEW k, NEW l, NEW m, NEW h, NEW e, Goes(k, l, h, e), Goes(l, m, h, e)
    PROVE  Goes(k, m, h, e)
BY DEF Goes

\* A tab that goes on stays linked to its socket, and what was on its way to it
\* still is.
LEMMA GoesLinked ==
    ASSUME NEW k \in TabType, NEW l, NEW s \in ConnType, NEW h \in Nat, NEW e, Goes(k, l, h, e)
    PROVE  /\ Linked(k, s, h) => Linked(l, s, h)
           /\ \A J, W : Ahead(k, s, h, J, W) => Ahead(l, s, h, J, W)
<1>1. ASSUME Linked(k, s, h)  PROVE Linked(l, s, h)
    <2>1. l.last <= h \/ s.cursor = l.last  BY <1>1 DEF Linked, Goes
    <2>2. ASSUME s.cursor <= h, NEW n \in 1 .. s.cursor  PROVE Kept(l, n)
        <3>1. n \in 1 .. h  BY <2>2 DEF ConnType
        <3>2. Kept(k, n)  BY <1>1, <2>2 DEF Linked
        <3> QED  BY <3>1, <3>2 DEF Goes
    <2> QED  BY <1>1, <2>1, <2>2 DEF Linked
<1>2. ASSUME NEW J, NEW W, Ahead(k, s, h, J, W)  PROVE Ahead(l, s, h, J, W)
    BY <1>2 DEF Ahead, OnItsWay, Goes
<1> QED  BY <1>1, <1>2

\* Asking for a state keeps everything.
LEMMA LoadStateGoes ==
    ASSUME NEW k \in TabType, NEW h \in Nat, NEW e \in Nat, Whole(k, h), Told(k, e)
    PROVE  /\ Goes(k, LoadState(k), h, e)
           /\ LoadState(k).load # "none"
           /\ LoadState(k).load = "asked" \/ LoadState(k).again
           /\ LoadState(k).buffer = k.buffer /\ LoadState(k).last = k.last
           /\ LoadState(k).load \in {"reading", "served"} => k.load \in {"reading", "served"}
           /\ LoadState(k).mode = k.mode
<1>1. CASE k.load = "none"
    <2> DEFINE l == [k EXCEPT !.load = "asked"]
    <2>1. LoadState(k) = l  BY <1>1 DEF LoadState
    <2>2. /\ l \in TabType /\ l.conn = k.conn /\ l.shown = k.shown /\ l.last = k.last
          /\ l.load = "asked" /\ l.buffer = k.buffer /\ l.snap = k.snap /\ l.again = k.again
          /\ l.mode = k.mode /\ l.rows = k.rows /\ l.late = k.late
        BY DEF TabType
    <2> HIDE DEF l
    <2>3. Whole(l, h) /\ Told(l, e)  BY <2>2 DEF Whole, Within, Told
    <2> QED  BY <2>1, <2>2, <2>3 DEF Goes, Kept
<1>2. CASE k.load # "none"
    <2> DEFINE l == [k EXCEPT !.again = TRUE]
    <2>1. LoadState(k) = l  BY <1>2 DEF LoadState
    <2>2. /\ l \in TabType /\ l.conn = k.conn /\ l.shown = k.shown /\ l.last = k.last
          /\ l.load = k.load /\ l.buffer = k.buffer /\ l.snap = k.snap /\ l.again
          /\ l.mode = k.mode /\ l.rows = k.rows /\ l.late = k.late /\ l.fair = k.fair
        BY DEF TabType
    <2> HIDE DEF l
    <2>3. Whole(l, h) /\ Told(l, e)  BY <1>2, <2>2 DEF Whole, Within, Told
    <2> QED  BY <1>2, <2>1, <2>2, <2>3 DEF Goes, Kept
<1> QED  BY <1>1, <1>2

\* Handling an event that may be shown shows it and keeps everything; while a
\* state is on its way, the event is buffered.
LEMMA HandledGoes ==
    ASSUME NEW k \in TabType, NEW h \in Nat, NEW e \in Nat, Whole(k, h), Told(k, e),
           e <= h, NEW n \in 1 .. e
    PROVE  Goes(k, Handled(k, n), h, e) /\ n \in Handled(k, n).shown
<1> DEFINE a == IF k.load # "none" THEN [k EXCEPT !.buffer = @ \cup {n}] ELSE k
           a2 == [a EXCEPT !.resync = TRUE]
           gap == k.last # 0 /\ n > k.last + 1 /\ ~k.resync
           b == IF gap THEN LoadState(a2) ELSE a
           d == [b EXCEPT !.last = IF n > @ THEN n ELSE @, !.shown = @ \cup {n}]
<1>0. Handled(k, n) = IF n \in Refreshing THEN LoadState(d) ELSE d
    BY DEF Handled
<1>1. Goes(k, k, h, e)  BY DEF Goes
<1>2. Goes(k, a, h, e) /\ (a.load \in {"reading", "served"} => n \in a.buffer)
    <2>1. CASE k.load = "none"  BY <1>1, <2>1
    <2>2. CASE k.load # "none"
        <3> DEFINE l == [k EXCEPT !.buffer = @ \cup {n}]
        <3>1. a = l  BY <2>2
        <3>2. /\ l \in TabType /\ l.conn = k.conn /\ l.shown = k.shown /\ l.last = k.last
              /\ l.load = k.load /\ l.buffer = k.buffer \cup {n} /\ l.snap = k.snap
              /\ l.again = k.again /\ l.mode = k.mode /\ l.refused = k.refused
              /\ l.rows = k.rows /\ l.late = k.late /\ l.fair = k.fair
            BY DEF TabType
        <3> HIDE DEF l
        <3>3. n \in 1 .. h  OBVIOUS
        <3>4. Whole(l, h) /\ Told(l, e)  BY <3>2, <3>3 DEF Whole, Within, Told
        <3>5. n \in l.buffer  BY <3>2
        <3> QED  BY <3>1, <3>2, <3>4, <3>5 DEF Goes, Kept
    <2> QED  BY <2>1, <2>2
<1>3. a \in TabType /\ Whole(a, h) /\ Told(a, e)  BY <1>2 DEF Goes
<1> HIDE DEF a
<1>4. Goes(k, a2, h, e) /\ (a2.load \in {"reading", "served"} => n \in a2.buffer)
    <2>1. /\ a2 \in TabType /\ a2.conn = a.conn /\ a2.shown = a.shown /\ a2.last = a.last
          /\ a2.load = a.load /\ a2.buffer = a.buffer /\ a2.snap = a.snap
          /\ a2.again = a.again /\ a2.mode = a.mode /\ a2.refused = a.refused
          /\ a2.rows = a.rows /\ a2.late = a.late /\ a2.fair = a.fair
        BY <1>3 DEF TabType
    <2>2. Goes(a, a2, h, e)  BY <1>3, <2>1 DEF Goes, Kept, Whole, Within, Told
    <2> QED  BY <1>2, <2>1, <2>2, GoesTwice
<1>5. a2 \in TabType /\ Whole(a2, h) /\ Told(a2, e)  BY <1>4 DEF Goes
<1> HIDE DEF a2
<1>6. Goes(k, b, h, e) /\ (b.load \in {"reading", "served"} => n \in b.buffer)
    <2>1. CASE gap
        <3>1. b = LoadState(a2)  BY <2>1
        <3>2. /\ Goes(a2, LoadState(a2), h, e) /\ LoadState(a2).buffer = a2.buffer
              /\ LoadState(a2).load \in {"reading", "served"} => a2.load \in {"reading", "served"}
            BY <1>5, LoadStateGoes
        <3> QED  BY <1>4, <3>1, <3>2, GoesTwice
    <2>2. CASE ~gap  BY <1>2, <2>2
    <2> QED  BY <2>1, <2>2
<1>7. b \in TabType /\ Whole(b, h) /\ Told(b, e)  BY <1>6 DEF Goes
<1> HIDE DEF b
<1>8. Goes(k, d, h, e) /\ n \in d.shown
    <2>0. n \in Nat /\ n <= h  OBVIOUS
    <2>1. /\ d \in TabType /\ d.conn = b.conn /\ d.shown = b.shown \cup {n}
          /\ d.last = (IF n > b.last THEN n ELSE b.last)
          /\ d.load = b.load /\ d.buffer = b.buffer /\ d.snap = b.snap
          /\ d.again = b.again /\ d.mode = b.mode /\ d.refused = b.refused
          /\ d.rows = b.rows /\ d.late = b.late /\ d.fair = b.fair
        BY <1>7, <2>0 DEF TabType
    <2> HIDE DEF d
    <2>2. d.last <= h \/ d.last = b.last  BY <2>0, <2>1
    <2>3. n \in 1 .. h  BY <2>0
    <2>4. Told(d, e) /\ Within(d, h)  BY <1>7, <2>1, <2>3 DEF Told, Within, Whole
    <2>5. Whole(d, h)  BY <1>6, <1>7, <2>1, <2>2, <2>4 DEF Whole
    <2>6. Goes(b, d, h, e)  BY <2>1, <2>2, <2>4, <2>5 DEF Goes, Kept
    <2> QED  BY <1>6, <2>1, <2>6, GoesTwice
<1>9. d \in TabType /\ Whole(d, h) /\ Told(d, e)  BY <1>8 DEF Goes
<1> HIDE DEF d
<1>10. CASE n \in Refreshing
    <2>1. Goes(d, LoadState(d), h, e)  BY <1>9, LoadStateGoes
    <2>2. Goes(k, LoadState(d), h, e)  BY <1>8, <2>1, GoesTwice
    <2>3. n \in LoadState(d).shown  BY <1>8, <2>1 DEF Goes
    <2> QED  BY <1>0, <1>10, <2>2, <2>3
<1>11. CASE n \notin Refreshing  BY <1>0, <1>8, <1>11
<1> QED  BY <1>10, <1>11

\* A fetch that was let in reads the head of the log, and then the rest; what it
\* reads once the member is gone is late.
LEMMA ReadGoes ==
    ASSUME NEW k \in TabType, NEW h \in Nat, NEW e \in Nat, Whole(k, h), Told(k, e), e <= h,
           NEW b \in Nat, b = h \/ (b = k.late /\ e = h)
    PROVE  /\ k.load = "asked" => Goes(k, [k EXCEPT !.load = "admitted", !.fair = TRUE], h, e)
           /\ k.load = "admitted" =>
                  Goes(k, [k EXCEPT !.load = "reading", !.snap = h, !.late = b], h, e)
           /\ k.load = "reading" =>
                  Goes(k, [k EXCEPT !.load = "served", !.rows = h, !.late = b], h, e)
<1>b. b <= h /\ k.late <= b /\ (h <= e \/ h <= b)  BY DEF Whole, Within, TabType
<1>1. ASSUME k.load = "asked", NEW l, l = [k EXCEPT !.load = "admitted", !.fair = TRUE]
      PROVE  Goes(k, l, h, e)
    <2>1. /\ l \in TabType /\ l.conn = k.conn /\ l.shown = k.shown /\ l.last = k.last
          /\ l.load = "admitted" /\ l.buffer = k.buffer /\ l.snap = k.snap /\ l.again = k.again
          /\ l.mode = k.mode /\ l.rows = k.rows /\ l.late = k.late /\ l.fair
        BY <1>1 DEF TabType
    <2>2. Told(l, e) /\ Whole(l, h)  BY <2>1 DEF Told, Whole, Within
    <2>3. \A n \in 1 .. h : Kept(l, n)  BY <2>1 DEF Kept
    <2> QED  BY <2>1, <2>2, <2>3 DEF Goes, Whole
<1>2. ASSUME k.load = "admitted",
             NEW l, l = [k EXCEPT !.load = "reading", !.snap = h, !.late = b]
      PROVE  Goes(k, l, h, e)
    <2>1. /\ l \in TabType /\ l.conn = k.conn /\ l.shown = k.shown /\ l.last = k.last
          /\ l.load = "reading" /\ l.buffer = k.buffer /\ l.snap = h /\ l.again = k.again
          /\ l.mode = k.mode /\ l.rows = k.rows /\ l.late = b /\ l.fair = k.fair
        BY <1>2 DEF TabType
    <2>2. k.late \in Nat /\ k.rows \in Nat /\ 1 .. k.late \subseteq 1 .. b
        BY <1>b DEF TabType
    <2>3. Told(l, e)  BY <1>b, <2>1, <2>2 DEF Told
    <2>4. Whole(l, h)  BY <1>2, <1>b, <2>1, <2>2 DEF Whole, Within
    <2>5. \A n \in 1 .. h : Kept(l, n)  BY <2>1 DEF Kept
    <2> QED  BY <2>1, <2>3, <2>4, <2>5 DEF Goes, Whole
<1>3. ASSUME k.load = "reading",
             NEW l, l = [k EXCEPT !.load = "served", !.rows = h, !.late = b]
      PROVE  Goes(k, l, h, e)
    <2>1. /\ l \in TabType /\ l.conn = k.conn /\ l.shown = k.shown /\ l.last = k.last
          /\ l.load = "served" /\ l.buffer = k.buffer /\ l.snap = k.snap /\ l.again = k.again
          /\ l.mode = k.mode /\ l.rows = h /\ l.late = b /\ l.fair = k.fair
          /\ l.refused = k.refused
        BY <1>3 DEF TabType
    <2>2. k.late \in Nat /\ k.snap \in Nat /\ 1 .. k.late \subseteq 1 .. b
        BY <1>b DEF TabType
    <2>3. Told(l, e)  BY <1>b, <2>1, <2>2 DEF Told
    <2>4. Whole(l, h)  BY <1>3, <1>b, <2>1, <2>2 DEF Whole, Within
    <2>5. \A n \in 1 .. h : Kept(k, n) => Kept(l, n)  BY <1>3, <2>1 DEF Kept
    <2> QED  BY <2>1, <2>3, <2>4, <2>5 DEF Goes, Whole
<1> QED  BY <1>1, <1>2, <1>3

\* A state that arrives shows what was shown and what it brings.
LEMMA ArrivesGoes ==
    ASSUME NEW k \in TabType, NEW h \in Nat, NEW e \in Nat, Whole(k, h), Told(k, e), e <= h,
           k.load = "served"
    PROVE  Goes(k, Settled(ApplyState(k), TRUE), h, e)
<1> DEFINE a == ApplyState(k)
           l == Settled(a, TRUE)
           kept == { n \in k.buffer \cap Refreshing : n > k.snap }
<1>1. /\ a \in TabType /\ a.conn = k.conn /\ a.shown = (1 .. k.snap) \cup k.buffer
      /\ a.last = (IF k.snap > k.last THEN k.snap ELSE k.last)
      /\ a.load = "served" /\ a.buffer \subseteq k.buffer /\ a.snap = 0 /\ a.rows = 0
      /\ k.again => a.again
      /\ a.mode = k.mode /\ a.late = k.late /\ a.refused = k.refused
    <2>1. /\ (1 .. k.snap) \cup k.buffer \in SUBSET Nat
          /\ (IF k.snap > k.last THEN k.snap ELSE k.last) \in Nat
          /\ kept \in SUBSET Nat /\ kept \subseteq k.buffer
        BY DEF TabType
    <2>2. PICK g \in BOOLEAN : g <=> k.again \/ kept # {}  OBVIOUS
    <2>3. (k.again \/ kept # {}) = g  BY <2>2 DEF TabType
    <2>4. a = [k EXCEPT !.shown = (1 .. k.snap) \cup k.buffer, !.buffer = kept, !.snap = 0,
                        !.last = IF k.snap > k.last THEN k.snap ELSE k.last,
                        !.again = g, !.rows = 0, !.fair = FALSE]
        BY <2>3 DEF ApplyState, TabType
    <2> HIDE DEF a, kept
    <2> QED  BY <2>1, <2>2, <2>4 DEF TabType
<1>2. /\ k.snap \in Nat /\ k.last \in Nat /\ k.late \in Nat /\ k.snap <= h /\ k.late <= h
      /\ k.snap <= e \/ k.snap <= k.late
      /\ k.buffer \subseteq (1 .. e) \cup (1 .. k.late) /\ k.buffer \subseteq 1 .. h
    BY DEF Told, Whole, Within, TabType
<1>3. a.shown \subseteq (1 .. e) \cup (1 .. k.late) /\ a.shown \subseteq 1 .. h
      /\ a.buffer \subseteq (1 .. e) \cup (1 .. k.late) /\ a.buffer \subseteq 1 .. h
    BY <1>1, <1>2
<1>4. a.last <= h \/ a.last = k.last  BY <1>1, <1>2
<1>5. k.shown \subseteq a.shown  BY <1>1 DEF Whole
<1> HIDE DEF a
<1>6. CASE a.again
    <2>1. l = [a EXCEPT !.again = FALSE, !.load = "asked"]  BY <1>6 DEF Settled
    <2>2. /\ l \in TabType /\ l.conn = a.conn /\ l.shown = a.shown /\ l.last = a.last
          /\ l.load = "asked" /\ l.buffer = a.buffer /\ l.snap = 0 /\ ~l.again /\ l.mode = a.mode
          /\ l.rows = 0 /\ l.late = a.late
        BY <1>1, <2>1 DEF TabType
    <2> HIDE DEF l
    <2>3. Told(l, e) /\ Within(l, h)  BY <1>1, <1>2, <1>3, <2>2 DEF Told, Within
    <2>4. Whole(l, h)  BY <1>1, <1>4, <2>2, <2>3 DEF Whole
    <2>5. Goes(k, l, h, e)  BY <1>1, <1>4, <1>5, <2>2, <2>3, <2>4 DEF Goes, Kept
    <2> QED  BY <2>5 DEF l, a
<1>7. CASE ~a.again
    <2>1. l = [a EXCEPT !.load = "none", !.resync = FALSE, !.refused = FALSE,
                        !.mode = IF @ = "snapshot" THEN "retry" ELSE @]
        BY <1>7 DEF Settled
    <2>2. /\ l \in TabType /\ l.conn = a.conn /\ l.shown = a.shown /\ l.last = a.last
          /\ l.load = "none" /\ l.buffer = a.buffer /\ l.snap = 0 /\ ~l.again
          /\ l.mode = "on" => a.mode = "on"
          /\ l.rows = 0 /\ l.late = a.late
        BY <1>1, <1>7, <2>1 DEF TabType
    <2> HIDE DEF l
    <2>3. Told(l, e) /\ Within(l, h)  BY <1>1, <1>2, <1>3, <2>2 DEF Told, Within
    <2>4. Whole(l, h)  BY <1>1, <1>4, <2>2, <2>3 DEF Whole
    <2>5. \A n \in 1 .. h : Kept(k, n) => n \in l.shown
        BY <1>1, <1>2, <1>5, <1>7, <2>2 DEF Kept
    <2>6. Goes(k, l, h, e)  BY <1>1, <1>4, <1>5, <2>2, <2>3, <2>4, <2>5 DEF Goes, Kept
    <2> QED  BY <2>6 DEF l, a
<1> QED  BY <1>6, <1>7

\* A fetch that is refused or lost is remembered as refused.
LEMMA RefusedGoes ==
    ASSUME NEW k \in TabType, NEW h \in Nat, NEW e \in Nat, Whole(k, h), Told(k, e),
           k.load = "asked"
    PROVE  Goes(k, Settled(k, FALSE), h, e)
<1> DEFINE l == Settled(k, FALSE)
<1>1. /\ l \in TabType /\ l.conn = k.conn /\ l.shown = k.shown /\ l.last = k.last
      /\ l.load = "asked" \/ (l.load = "none" /\ l.refused)
      /\ l.buffer = k.buffer /\ l.snap = k.snap /\ ~l.again /\ l.mode = k.mode
      /\ l.rows = k.rows /\ l.late = k.late
    <2>1. CASE k.again  BY <2>1 DEF Settled, TabType
    <2>2. CASE ~k.again
        <3>1. l = [k EXCEPT !.load = "none", !.resync = FALSE, !.refused = TRUE, !.mode = k.mode]
            BY <2>2 DEF Settled, TabType
        <3> QED  BY <2>2, <3>1 DEF TabType
    <2> QED  BY <2>1, <2>2 DEF TabType
<1> HIDE DEF l
<1>2. Told(l, e) /\ Whole(l, h)  BY <1>1 DEF Told, Whole, Within
<1>3. Goes(k, l, h, e)  BY <1>1, <1>2 DEF Goes, Kept
<1> QED  BY <1>3 DEF l

\* A tab whose socket was closed is whole, and has no socket.
LEMMA ClosedWhole ==
    ASSUME NEW k \in TabType, NEW h \in Nat, NEW e \in Nat, Whole(k, h), Told(k, e), NEW code
    PROVE  LET l == AfterClose(k, code) IN
           l \in TabType /\ l.conn = NoConn /\ Whole(l, h) /\ Told(l, e)
<1> DEFINE l == AfterClose(k, code)
<1>1. CASE code \in {4401, 4403}
    <2>1. l = [k EXCEPT !.mode = "off", !.conn = NoConn]  BY <1>1 DEF AfterClose
    <2> QED  BY <2>1 DEF TabType, Whole, Within, Told
<1>2. CASE code = 4408
    <2> DEFINE a == [k EXCEPT !.mode = "snapshot", !.conn = NoConn, !.last = 0]
    <2>1. l = LoadState(a)  BY <1>2 DEF AfterClose
    <2>2. /\ a \in TabType /\ a.conn = NoConn /\ a.mode = "snapshot" /\ a.last = 0
          /\ a.shown = k.shown /\ a.buffer = k.buffer /\ a.snap = k.snap
          /\ a.load = k.load /\ a.again = k.again
          /\ a.rows = k.rows /\ a.late = k.late /\ a.fair = k.fair
        BY DEF TabType
    <2> HIDE DEF a
    <2>3. Whole(a, h) /\ Told(a, e)  BY <2>2 DEF Whole, Within, Told
    <2>4. Goes(a, LoadState(a), h, e)  BY <2>2, <2>3, LoadStateGoes
    <2> QED  BY <2>1, <2>2, <2>4 DEF Goes
<1>3. CASE code \notin {4401, 4403, 4408}
    <2>1. l = [k EXCEPT !.mode = "retry", !.conn = NoConn]  BY <1>3 DEF AfterClose
    <2> QED  BY <2>1 DEF TabType, Whole, Within, Told
<1> QED  BY <1>1, <1>2, <1>3

-----------------------------------------------------------------------------
(* Kinds of steps.                                                            *)

\* What handlers still have to do and what is in the fan-out speak of the log.
WorkInLog(J, W, h, r) ==
    /\ \A j \in J : /\ j.seq >= 1 /\ j.seq <= h
                    /\ j.removal => r > 0
                    /\ j.todo = "left" => j.removal
    /\ \A w \in W : InLog(w.msg, h)

\* The log, the membership and who is shown as present stand.
LogStands == UNCHANGED <<redis, head, member, entitled, removals>>

\* A step that only fills queues: handlers hand on their events, or revoke.
LEMMA QueueStep ==
    ASSUME RealtimeInv, TypeOK', LogStands, UNCHANGED <<tab, present>>,
           WorkInLog(jobs', wire', head, removals),
           \A c \in Conns : Fuller(conn[c], conn'[c], head),
           losses' = 0 => losses = 0 /\ \A c \in Conns, n \in 1 .. head :
               /\ Tailing(conn[c]) /\ conn[c].sub /\ conn[c].proc \in Serving
               /\ Underway(conn[c], n, jobs, wire)
               => \/ Underway(conn'[c], n, jobs', wire')
                  \/ Queued(conn'[c], n) \/ Doomed(conn'[c])
    PROVE  RealtimeInv'
<1>a. TypeOK /\ Reached /\ Entitlement /\ AllPlaced /\ PresentWhileServed
      /\ ConnsFit /\ TabsWhole /\ AllLinked /\ AllAhead
    BY DEF RealtimeInv
<1>h. redis' = redis /\ head' = head /\ member' = member /\ entitled' = entitled /\ removals' = removals
      /\ tab' = tab /\ present' = present
    BY DEF LogStands
<1>n. head \in Nat  BY <1>a DEF TypeOK
<1>c. ASSUME NEW c \in Conns
      PROVE  /\ conn[c] \in ConnType /\ conn'[c] \in ConnType /\ Fit(conn[c], head)
             /\ conn'[c].at = conn[c].at /\ conn'[c].proc = conn[c].proc
             /\ conn'[c].hand = conn[c].hand /\ (conn'[c].sub => conn[c].sub)
             /\ Logged(conn'[c].queue, head)
             /\ Fit(conn'[c], head)
             /\ Tailing(conn'[c]) => Tailing(conn[c])
             /\ \A k : Linked(k, conn[c], head) => Linked(k, conn'[c], head)
    <2>1. conn[c] \in ConnType /\ conn'[c] \in ConnType  BY <1>a DEF TypeOK
    <2>2. Fuller(conn[c], conn'[c], head)  OBVIOUS
    <2>3. Fit(conn[c], head)  BY <1>a DEF ConnsFit
    <2> DEFINE s == conn[c]
               r == conn'[c]
    <2>4. (r.sub => s.sub) /\ Logged(r.queue, head)  BY <2>2 DEF Fuller
    <2> HIDE DEF s, r
    <2>5. s \in ConnType /\ r \in ConnType /\ Fuller(s, r, head) /\ Fit(s, head)
        BY <2>1, <2>2, <2>3 DEF s, r
    <2>6. /\ r.at = s.at /\ r.proc = s.proc /\ r.hand = s.hand
          /\ Fit(s, head) => Fit(r, head)
          /\ Tailing(r) => Tailing(s)
          /\ \A k : Linked(k, s, head) => Linked(k, r, head)
        BY <2>5, <1>n, FullerKeeps
    <2> QED  BY <2>4, <2>5, <2>6 DEF s, r
<1>1. Reached'
    <2>1. \A c \in Conns : Logged(conn'[c].queue, head)  BY <1>c
    <2> QED  BY <1>a, <1>h, <2>1 DEF Reached, WorkInLog
<1>2. Entitlement'
    <2>1. \A c \in Conns : conn'[c].hand <= entitled  BY <1>a, <1>c DEF Entitlement
    <2> QED  BY <1>a, <1>h, <2>1 DEF Entitlement
<1>3. AllPlaced' /\ PresentWhileServed'
    BY <1>a, <1>h, <1>c DEF AllPlaced, Placed, Serving, PresentWhileServed
<1>4. ConnsFit'  BY <1>h, <1>c DEF ConnsFit
<1>5. TabsWhole'  BY <1>a, <1>h DEF TabsWhole
<1>6. AllLinked'  BY <1>a, <1>h, <1>c DEF AllLinked
<1>7. AllAhead'
    <2> SUFFICES ASSUME losses' = 0, NEW t \in Tabs, tab[t].conn \in Conns
                 PROVE  Ahead(tab[t], conn'[tab[t].conn], head, jobs', wire')
        BY <1>h DEF AllAhead
    <2> DEFINE c == tab[t].conn
               s == conn[c]
               r == conn'[c]
    <2>1. losses = 0 /\ Ahead(tab[t], s, head, jobs, wire)  BY <1>a DEF AllAhead
    <2>2. s \in ConnType /\ r \in ConnType /\ Fuller(s, r, head) /\ Fit(s, head)
          /\ (Tailing(r) => Tailing(s))
        BY <1>c
    <2>3. s.proc \in Serving  BY <1>a DEF AllLinked, Linked, AllPlaced, Placed
    <2>4. CASE ~Tailing(s)  BY <2>2, <2>4 DEF Ahead
    <2>5. CASE Tailing(s) /\ ~s.sub
        <3>1. Doomed(s)  BY <2>2, <2>5 DEF Fit, Tailing
        <3>2. Doomed(r)  BY <2>2, <3>1 DEF Fuller
        <3> QED  BY <3>2 DEF Ahead, OnItsWay
    <2>6. CASE Tailing(s) /\ s.sub
        <3>1. \A n \in 1 .. head : Underway(s, n, jobs, wire) =>
                  Underway(r, n, jobs', wire') \/ Queued(r, n) \/ Doomed(r)
            BY <2>3, <2>6
        <3> HIDE DEF s, r
        <3> QED  BY <1>n, <2>1, <2>2, <3>1, FullerAhead DEF s, r
    <2> QED  BY <2>4, <2>5, <2>6
<1> QED  BY <1>1, <1>2, <1>3, <1>4, <1>5, <1>6, <1>7 DEF RealtimeInv

\* A step of tabs alone.
LEMMA TabStep ==
    ASSUME RealtimeInv, TypeOK', LogStands, UNCHANGED <<conn, present, jobs, wire, losses>>,
           \A t \in Tabs : Goes(tab[t], tab'[t], head, entitled)
    PROVE  RealtimeInv'
<1>a. TypeOK /\ Reached /\ Entitlement /\ AllPlaced /\ PresentWhileServed
      /\ ConnsFit /\ TabsWhole /\ AllLinked /\ AllAhead
    BY DEF RealtimeInv
<1>h. redis' = redis /\ head' = head /\ member' = member /\ entitled' = entitled /\ removals' = removals
      /\ conn' = conn /\ present' = present /\ jobs' = jobs /\ wire' = wire /\ losses' = losses
    BY DEF LogStands
<1>1. Reached'  BY <1>a, <1>h DEF Reached
<1>2. Entitlement'
    <2>1. \A t \in Tabs : Told(tab'[t], entitled)  BY DEF Goes
    <2> QED  BY <1>a, <1>h, <2>1 DEF Entitlement
<1>3. AllPlaced' /\ PresentWhileServed'
    BY <1>a, <1>h DEF AllPlaced, Placed, Serving, PresentWhileServed
<1>4. ConnsFit'  BY <1>a, <1>h DEF ConnsFit
<1>5. TabsWhole'
    <2>1. \A t \in Tabs : Whole(tab'[t], head)  BY DEF Goes
    <2> QED  BY <1>h, <2>1 DEF TabsWhole
<1>t. ASSUME NEW t \in Tabs, tab'[t].conn \in Conns
      PROVE  LET c == tab[t].conn IN
             /\ tab'[t].conn = c /\ c \in Conns
             /\ Linked(tab[t], conn[c], head) => Linked(tab'[t], conn[c], head)
             /\ \A J, W : Ahead(tab[t], conn[c], head, J, W) => Ahead(tab'[t], conn[c], head, J, W)
    <2>1. Goes(tab[t], tab'[t], head, entitled) /\ tab[t] \in TabType /\ head \in Nat
        BY <1>a DEF TypeOK
    <2>2. tab'[t].conn = tab[t].conn  BY <2>1 DEF Goes
    <2>3. conn[tab[t].conn] \in ConnType  BY <1>a, <1>t, <2>2 DEF TypeOK
    <2> QED  BY <1>t, <2>1, <2>2, <2>3, GoesLinked
<1>6. AllLinked'  BY <1>a, <1>h, <1>t DEF AllLinked
<1>7. AllAhead'  BY <1>a, <1>h, <1>t DEF AllAhead
<1> QED  BY <1>1, <1>2, <1>3, <1>4, <1>5, <1>6, <1>7 DEF RealtimeInv

\* A step of one socket.
LEMMA SocketStep ==
    ASSUME RealtimeInv, TypeOK', LogStands, UNCHANGED <<tab, jobs, wire, losses>>,
           NEW c \in Conns, NEW r, conn' = [conn EXCEPT ![c] = r],
           Placed(r), present => present',
           r.at \in {"replaying", "live"} /\ r.sub /\ ~redis => present' \/ removals > 0,
           Fit(r, head), Logged(r.queue, head), r.hand <= entitled,
           \A k : Linked(k, conn[c], head) => Linked(k, r, head),
           \A k : Ahead(k, conn[c], head, jobs, wire) => Ahead(k, r, head, jobs, wire)
    PROVE  RealtimeInv'
<1>a. TypeOK /\ Reached /\ Entitlement /\ AllPlaced /\ PresentWhileServed
      /\ ConnsFit /\ TabsWhole /\ AllLinked /\ AllAhead
    BY DEF RealtimeInv
<1>h. redis' = redis /\ head' = head /\ member' = member /\ entitled' = entitled /\ removals' = removals
      /\ tab' = tab /\ jobs' = jobs /\ wire' = wire /\ losses' = losses
    BY DEF LogStands
<1>c. conn'[c] = r /\ \A d \in Conns : d # c => conn'[d] = conn[d]
    BY <1>a DEF TypeOK
<1>1. Reached'
    <2>1. \A d \in Conns : Logged(conn'[d].queue, head)  BY <1>a, <1>c DEF Reached
    <2> QED  BY <1>a, <1>h, <2>1 DEF Reached
<1>2. Entitlement'
    <2>1. \A d \in Conns : conn'[d].hand <= entitled  BY <1>a, <1>c DEF Entitlement
    <2> QED  BY <1>a, <1>h, <2>1 DEF Entitlement
<1>r0. removals \in Nat  BY <1>a DEF TypeOK
<1>3. PresentWhileServed'
    <2> SUFFICES ASSUME NEW d \in Conns, conn'[d].at \in {"replaying", "live"}, conn'[d].sub, ~redis
                 PROVE  present' \/ removals > 0
        BY <1>h, <1>r0 DEF PresentWhileServed
    <2>1. CASE d = c  BY <1>c, <1>h, <2>1
    <2>2. CASE d # c  BY <1>a, <1>c, <1>h, <1>r0, <2>2 DEF PresentWhileServed
    <2> QED  BY <2>1, <2>2
<1>p. AllPlaced'  BY <1>a, <1>h, <1>c DEF AllPlaced, Placed, Serving
<1>4. ConnsFit'  BY <1>a, <1>h, <1>c DEF ConnsFit
<1>5. TabsWhole'  BY <1>a, <1>h DEF TabsWhole
<1>6. AllLinked'  BY <1>a, <1>h, <1>c DEF AllLinked
<1>7. AllAhead'  BY <1>a, <1>h, <1>c DEF AllAhead
<1> QED  BY <1>1, <1>2, <1>3, <1>p, <1>4, <1>5, <1>6, <1>7 DEF RealtimeInv

\* The server closes a socket: its tab has none, and reconnects or stays off.
LEMMA ClosingStep ==
    ASSUME RealtimeInv, LogStands, UNCHANGED <<token, present, jobs, wire, losses, refusals, notes>>,
           faults' \in Nat, NEW c \in Conns, conn[c].at # "idle", NEW code, Closing(c, code)
    PROVE  RealtimeInv'
<1> DEFINE r == [conn[c] EXCEPT !.at = "closing", !.page = <<>>, !.hand = 0]
<1>a. TypeOK /\ Reached /\ Entitlement /\ AllPlaced /\ PresentWhileServed
      /\ ConnsFit /\ TabsWhole /\ AllLinked /\ AllAhead
    BY DEF RealtimeInv
<1>h. redis' = redis /\ head' = head /\ member' = member /\ entitled' = entitled /\ removals' = removals
      /\ present' = present /\ jobs' = jobs /\ wire' = wire /\ losses' = losses
    BY DEF LogStands
<1>n. head \in Nat /\ entitled \in Nat /\ conn \in [Conns -> ConnType] /\ tab \in [Tabs -> TabType]
    BY <1>a DEF TypeOK
<1>s. conn[c] \in ConnType  BY <1>n
<1>r. /\ r \in ConnType /\ r.at = "closing" /\ r.page = <<>> /\ r.hand = 0
      /\ r.queue = conn[c].queue /\ r.proc = conn[c].proc
    <2>1. <<>> \in Seq(Nat) /\ 0 \in Nat  BY EmptySeq
    <2> QED  BY <1>s, <2>1 DEF ConnType
<1>c. conn' = [conn EXCEPT ![c] = r]  BY <1>n DEF Closing
<1> HIDE DEF r
<1>d. /\ conn' \in [Conns -> ConnType] /\ conn'[c] = r
      /\ \A d \in Conns : d # c => conn'[d] = conn[d]
    BY <1>n, <1>r, <1>c
<1>t. ASSUME NEW t \in Tabs
      PROVE  /\ tab'[t] \in TabType /\ Whole(tab'[t], head) /\ Told(tab'[t], entitled)
             /\ tab'[t].conn \in Conns => tab'[t] = tab[t] /\ tab[t].conn # c
    <2>0. tab'[t] = IF tab[t].conn = c THEN AfterClose(tab[t], code) ELSE tab[t]
        BY DEF Closing
    <2>1. tab[t] \in TabType /\ Whole(tab[t], head) /\ Told(tab[t], entitled)
        BY <1>a, <1>n DEF TabsWhole, Entitlement
    <2>2. CASE tab[t].conn = c
        <3>1. /\ AfterClose(tab[t], code) \in TabType /\ AfterClose(tab[t], code).conn = NoConn
              /\ Whole(AfterClose(tab[t], code), head) /\ Told(AfterClose(tab[t], code), entitled)
            BY <2>1, <1>n, ClosedWhole
        <3> QED  BY <2>0, <2>2, <3>1, RealtimeAssumption
    <2>3. CASE tab[t].conn # c  BY <2>0, <2>1, <2>3
    <2> QED  BY <2>2, <2>3
<1>0. TypeOK'
    <2>1. tab' \in [Tabs -> TabType]  BY <1>t DEF Closing
    <2> QED  BY <1>a, <1>h, <1>d, <2>1 DEF TypeOK
<1>1. Reached'
    <2>1. \A d \in Conns : Logged(conn'[d].queue, head)  BY <1>a, <1>d, <1>r DEF Reached
    <2> QED  BY <1>a, <1>h, <2>1 DEF Reached
<1>2. Entitlement'
    <2>1. \A d \in Conns : conn'[d].hand <= entitled  BY <1>a, <1>d, <1>r, <1>n DEF Entitlement
    <2> QED  BY <1>t, <1>h, <2>1 DEF Entitlement
<1>r0. removals \in Nat  BY <1>a DEF TypeOK
<1>3. PresentWhileServed'
    <2> SUFFICES ASSUME NEW d \in Conns, conn'[d].at \in {"replaying", "live"}, conn'[d].sub, ~redis
                 PROVE  present' \/ removals > 0
        BY <1>h, <1>r0 DEF PresentWhileServed
    <2>1. d # c  BY <1>d, <1>r
    <2> QED  BY <2>1, <1>a, <1>d, <1>h, <1>r0 DEF PresentWhileServed
<1>4. ConnsFit'
    <2>1. Fit(r, head)  BY <1>r DEF Fit
    <2> QED  BY <1>a, <1>d, <1>h, <2>1 DEF ConnsFit
<1>5. TabsWhole'  BY <1>t, <1>h DEF TabsWhole
<1>6. AllLinked'  BY <1>a, <1>h, <1>t, <1>d DEF AllLinked
<1>7. AllAhead'  BY <1>a, <1>h, <1>t, <1>d DEF AllAhead
<1>p. AllPlaced'  BY <1>a, <1>h, <1>d, <1>r DEF AllPlaced, Placed, Serving
<1> QED  BY <1>0, <1>1, <1>2, <1>3, <1>p, <1>4, <1>5, <1>6, <1>7 DEF RealtimeInv

\* Nothing is lost on a tab or a socket by the log growing.
LEMMA LogGrows ==
    ASSUME NEW h \in Nat, h + 1 <= MaxEvents
    PROVE  /\ \A s \in ConnType : Fit(s, h) => Fit(s, h + 1)
           /\ \A q \in Seq(MsgType) : Logged(q, h) => Logged(q, h + 1)
           /\ \A k \in TabType : Whole(k, h) => Whole(k, h + 1)
           /\ \A k \in TabType, s \in ConnType :
                  Linked(k, s, h) /\ Fit(s, h) => Linked(k, s, h + 1)
<1>m. MaxEvents \in Nat  BY RealtimeAssumption
<1>1. ASSUME NEW s \in ConnType, Fit(s, h)  PROVE Fit(s, h + 1)
    <2>1. s.cursor <= h => s.cursor <= h + 1  BY DEF ConnType
    <2>2. Sent(s) + Len(s.page) <= h => Sent(s) + Len(s.page) <= h + 1
        <3>1. s.hand \in Nat /\ s.cursor \in Nat /\ s.page \in Seq(Nat)  BY DEF ConnType
        <3>2. Sent(s) \in Nat /\ Len(s.page) \in Nat  BY <3>1 DEF Sent
        <3> QED  BY <3>2
    <2> QED  BY <1>1, <2>1, <2>2 DEF Fit
<1>2. ASSUME NEW q \in Seq(MsgType), Logged(q, h)  PROVE Logged(q, h + 1)
    <2>1. ASSUME NEW i \in DOMAIN q  PROVE InLog(q[i], h + 1)
        <3>1. q[i] \in MsgType /\ InLog(q[i], h)  BY <1>2 DEF Logged
        <3>2. q[i].seq \in Nat  BY <3>1 DEF MsgType
        <3> QED  BY <3>1, <3>2 DEF InLog
    <2> QED  BY <2>1 DEF Logged
<1>3. ASSUME NEW k \in TabType, Whole(k, h)  PROVE Whole(k, h + 1)
    <2>1. k.last \in Nat /\ k.snap \in Nat  BY DEF TabType
    <2>2. k.last <= h => k.last <= h + 1  BY <2>1
    <2>3. Within(k, h) => Within(k, h + 1)
        <3>1. 1 .. h \subseteq 1 .. h + 1 /\ k.rows \in Nat /\ k.late \in Nat  BY DEF TabType
        <3> QED  BY <2>1, <3>1 DEF Within
    <2> QED  BY <1>3, <2>2, <2>3 DEF Whole
<1>4. ASSUME NEW k \in TabType, NEW s \in ConnType, Linked(k, s, h), Fit(s, h)
      PROVE  Linked(k, s, h + 1)
    <2>1. k.last \in Nat /\ s.cursor \in Nat  BY DEF TabType, ConnType
    <2>2. s.at \in {"asked", "authorized", "fit", "subscribed", "joining", "replaying", "live"}
        BY <1>4 DEF Linked, ConnType
    <2>3. s.cursor <= h \/ s.cursor > MaxEvents  BY <1>4, <2>2 DEF Fit
    <2>4. s.cursor <= h + 1 => s.cursor <= h  BY <1>m, <2>1, <2>3
    <2>5. k.last <= h => k.last <= h + 1  BY <2>1
    <2> QED  BY <1>4, <2>4, <2>5 DEF Linked
<1> QED  BY <1>1, <1>2, <1>3, <1>4

\* A step that commits an event and leaves a handler to tell of it.
LEMMA LogStep ==
    ASSUME RealtimeInv, TypeOK', head < MaxEvents, head' = head + 1,
           UNCHANGED <<redis, wire, present, conn, losses>>,
           NEW j, j.seq = head + 1, j.todo # "left", j.removal => removals' > 0,
           jobs' = jobs \cup {j}, removals' >= removals,
           entitled <= entitled', entitled' <= head', member' => entitled' = head',
           \A t \in Tabs : /\ tab'[t] = [tab[t] EXCEPT !.mode = tab'[t].mode]
                           /\ tab'[t].mode = "on" => tab[t].mode = "on"
    PROVE  RealtimeInv'
<1>a. TypeOK /\ Reached /\ Entitlement /\ AllPlaced /\ PresentWhileServed
      /\ ConnsFit /\ TabsWhole /\ AllLinked /\ AllAhead
    BY DEF RealtimeInv
<1>n. head \in Nat /\ entitled \in Nat /\ entitled' \in Nat /\ MaxEvents \in Nat
      /\ removals \in Nat /\ removals' \in Nat
    BY <1>a, RealtimeAssumption DEF TypeOK
<1>g. /\ \A s \in ConnType : Fit(s, head) => Fit(s, head + 1)
      /\ \A q \in Seq(MsgType) : Logged(q, head) => Logged(q, head + 1)
      /\ \A k \in TabType : Whole(k, head) => Whole(k, head + 1)
      /\ \A k \in TabType, s \in ConnType :
             Linked(k, s, head) /\ Fit(s, head) => Linked(k, s, head + 1)
    <2>1. head + 1 <= MaxEvents  BY <1>n
    <2> QED  BY <1>n, <2>1, LogGrows
<1>c. ASSUME NEW c \in Conns
      PROVE  conn[c] \in ConnType /\ Fit(conn[c], head) /\ conn[c].queue \in Seq(MsgType)
             /\ conn[c].hand \in Nat
    BY <1>a DEF TypeOK, ConnsFit, ConnType
<1>t. ASSUME NEW t \in Tabs
      PROVE  /\ tab[t] \in TabType /\ tab'[t].conn = tab[t].conn
             /\ tab'[t].shown = tab[t].shown
             /\ \A e : Told(tab[t], e) => Told(tab'[t], e)
             /\ \A h : Whole(tab[t], h) => Whole(tab'[t], h)
             /\ \A s, h : Linked(tab[t], s, h) => Linked(tab'[t], s, h)
    <2> DEFINE k == tab[t]
               l == tab'[t]
    <2>1. k \in TabType /\ l = [k EXCEPT !.mode = l.mode] /\ (l.mode = "on" => k.mode = "on")
        BY <1>a DEF TypeOK
    <2> HIDE DEF k, l
    <2>2. /\ l.conn = k.conn /\ l.shown = k.shown /\ l.last = k.last /\ l.load = k.load
          /\ l.buffer = k.buffer /\ l.snap = k.snap /\ l.again = k.again /\ l.refused = k.refused
          /\ l.rows = k.rows /\ l.late = k.late /\ l.fair = k.fair
        BY <2>1 DEF TabType
    <2>3. \A e : Told(k, e) => Told(l, e)  BY <2>2 DEF Told
    <2>4. \A h : Whole(k, h) => Whole(l, h)  BY <2>1, <2>2 DEF Whole, Within
    <2>5. \A s, h : Linked(k, s, h) => Linked(l, s, h)  BY <2>2 DEF Linked, Kept
    <2> QED  BY <2>1, <2>2, <2>3, <2>4, <2>5 DEF k, l
<1>1. Reached'
    <2>1. head' >= 1 /\ head' <= MaxEvents  BY <1>n
    <2>2. ASSUME NEW i \in jobs'
          PROVE  i.seq >= 1 /\ i.seq <= head' /\ (i.removal => removals' > 0)
                 /\ (i.todo = "left" => i.removal)
        <3>1. CASE i = j  BY <3>1, <1>n
        <3>2. CASE i \in jobs
            <4>1. i.seq \in Nat  BY <1>a, <3>2 DEF TypeOK, JobType
            <4>2. i.seq >= 1 /\ i.seq <= head /\ (i.removal => removals > 0)
                  /\ (i.todo = "left" => i.removal)
                BY <1>a, <3>2 DEF Reached
            <4> QED  BY <4>1, <4>2, <1>n
        <3> QED  BY <3>1, <3>2
    <2>3. ASSUME NEW w \in wire  PROVE InLog(w.msg, head')
        <3>1. w.msg \in MsgType /\ InLog(w.msg, head)  BY <1>a DEF TypeOK, Reached
        <3>2. w.msg.seq \in Nat  BY <3>1 DEF MsgType
        <3> QED  BY <3>1, <3>2, <1>n DEF InLog
    <2>4. \A c \in Conns : Logged(conn[c].queue, head')  BY <1>a, <1>c, <1>g DEF Reached
    <2> QED  BY <2>1, <2>2, <2>3, <2>4 DEF Reached
<1>2. Entitlement'
    <2>1. \A c \in Conns : conn[c].hand <= entitled'
        BY <1>a, <1>c, <1>n DEF Entitlement
    <2>2. ASSUME NEW t \in Tabs  PROVE Told(tab'[t], entitled')
        <3>1. Told(tab[t], entitled) /\ tab[t].snap \in Nat /\ tab[t].rows \in Nat
              /\ tab[t].late \in Nat
            BY <1>a, <1>t DEF Entitlement, TabType
        <3>2. 1 .. entitled \subseteq 1 .. entitled'  BY <1>n
        <3>3. Told(tab[t], entitled')  BY <3>1, <3>2, <1>n DEF Told
        <3> QED  BY <3>3, <1>t
    <2> QED  BY <2>1, <2>2 DEF Entitlement
<1>3. AllPlaced' /\ PresentWhileServed'
    BY <1>a, <1>n DEF AllPlaced, Placed, Serving, PresentWhileServed
<1>4. ConnsFit'  BY <1>c, <1>g DEF ConnsFit
<1>5. TabsWhole'  BY <1>a, <1>t, <1>g DEF TabsWhole
<1>6. AllLinked'
    <2> SUFFICES ASSUME NEW t \in Tabs, tab'[t].conn \in Conns
                 PROVE  Linked(tab'[t], conn[tab[t].conn], head + 1)
        BY <1>t DEF AllLinked
    <2>1. tab[t].conn \in Conns  BY <1>t
    <2>2. Linked(tab[t], conn[tab[t].conn], head)  BY <1>a, <2>1 DEF AllLinked
    <2>3. Linked(tab[t], conn[tab[t].conn], head + 1)  BY <2>1, <2>2, <1>t, <1>c, <1>g
    <2> QED  BY <2>3, <1>t
<1>7. AllAhead'
    <2> SUFFICES ASSUME losses = 0, NEW t \in Tabs, tab'[t].conn \in Conns
                 PROVE  Ahead(tab'[t], conn[tab[t].conn], head + 1, jobs', wire)
        BY <1>t DEF AllAhead
    <2> DEFINE s == conn[tab[t].conn]
    <2>1. tab[t].conn \in Conns  BY <1>t
    <2>2. Ahead(tab[t], s, head, jobs, wire)  BY <1>a, <2>1 DEF AllAhead
    <2>3. ASSUME Tailing(s), NEW n \in 1 .. head + 1, n > End(s)
          PROVE  OnItsWay(tab'[t], s, n, jobs', wire)
        <3>1. CASE n = head + 1
            <4>1. j \in jobs'  OBVIOUS
            <4>2. Underway(s, n, jobs', wire)  BY <3>1, <4>1 DEF Underway
            <4> QED  BY <4>2 DEF OnItsWay
        <3>2. CASE n # head + 1
            <4>1. n \in 1 .. head  BY <3>2, <1>n
            <4>2. OnItsWay(tab[t], s, n, jobs, wire)  BY <2>2, <2>3, <4>1 DEF Ahead
            <4>3. Underway(s, n, jobs, wire) => Underway(s, n, jobs', wire)  BY DEF Underway
            <4> QED  BY <4>2, <4>3, <1>t DEF OnItsWay
        <3> QED  BY <3>1, <3>2
    <2> QED  BY <2>3 DEF Ahead
<1> QED  BY <1>1, <1>2, <1>3, <1>4, <1>5, <1>6, <1>7 DEF RealtimeInv

-----------------------------------------------------------------------------
(* The steps of a tab.                                                        *)

\* A room that has just been created satisfies the invariant.
LEMMA InitRealtime == Init => RealtimeInv
<1> SUFFICES ASSUME Init  PROVE RealtimeInv
    OBVIOUS
<1>1. \A c \in Conns : conn[c] = IdleConn  BY DEF Init
<1>2. PICK n \in FirstCursors : tab = [t \in Tabs |-> FreshTab(n)]  BY DEF Init
<1>3. n \in Nat /\ (n <= 1 \/ n > MaxEvents) /\ MaxEvents \in Nat /\ MaxEvents >= 1
    BY RealtimeAssumption
<1>4. IdleConn \in ConnType
    <2>1. <<>> \in Seq(MsgType) /\ <<>> \in Seq(Nat)  BY EmptySeq
    <2> QED  BY <2>1 DEF IdleConn, ConnType
<1>5. FreshTab(n) \in TabType  BY <1>3 DEF FreshTab, TabType
<1>6. TypeOK
    <2>1. conn \in [Conns -> ConnType]  BY <1>4 DEF Init
    <2>2. tab \in [Tabs -> TabType]  BY <1>2, <1>5
    <2> QED  BY <2>1, <2>2 DEF Init, TypeOK
<1>7. Reached
    <2>1. Logged(IdleConn.queue, head)  BY DEF IdleConn, Logged
    <2> QED  BY <1>1, <1>3, <2>1 DEF Init, Reached
<1>8. Entitlement
    <2>1. Told(FreshTab(n), 1)  BY DEF FreshTab, Told
    <2>2. IdleConn.hand = 0  BY DEF IdleConn
    <2> QED  BY <1>1, <1>2, <2>1, <2>2 DEF Init, Entitlement
<1>9. AllPlaced /\ PresentWhileServed
    BY <1>1 DEF AllPlaced, Placed, PresentWhileServed, IdleConn
<1>10. ConnsFit
    <2>1. Fit(IdleConn, head)  BY DEF IdleConn, Fit
    <2> QED  BY <1>1, <2>1 DEF ConnsFit
<1>11. TabsWhole
    <2>1. Whole(FreshTab(n), 1)  BY <1>3 DEF FreshTab, Whole, Within
    <2> QED  BY <1>2, <2>1 DEF TabsWhole, Init
<1>12. \A t \in Tabs : tab[t].conn \notin Conns  BY <1>2, RealtimeAssumption DEF FreshTab
<1> QED  BY <1>6, <1>7, <1>8, <1>9, <1>10, <1>11, <1>12 DEF RealtimeInv, AllLinked, AllAhead

\* Connecting asks for a state, which is to bring what lies below the cursor.
LEMMA ConnectKeeps ==
    ASSUME RealtimeInv, NEW t \in Tabs, NEW c \in Conns, NEW p \in Procs, Connect(t, c, p)
    PROVE  RealtimeInv'
<1> DEFINE k == [tab[t] EXCEPT !.mode = "on", !.conn = c]
           l == LoadState(k)
           r == [IdleConn EXCEPT !.at = "asked", !.of = t, !.proc = p, !.cursor = tab[t].last]
<1>a. TypeOK /\ Reached /\ Entitlement /\ AllPlaced /\ PresentWhileServed
      /\ ConnsFit /\ TabsWhole /\ AllLinked /\ AllAhead
    BY DEF RealtimeInv
<1>h. redis' = redis /\ head' = head /\ member' = member /\ token' = token /\ entitled' = entitled
      /\ present' = present /\ jobs' = jobs /\ wire' = wire /\ losses' = losses
      /\ removals' = removals /\ refusals' = refusals /\ faults' = faults /\ notes' = notes
    BY DEF Connect, durable, counts
<1>n. head \in Nat /\ entitled \in Nat /\ conn \in [Conns -> ConnType] /\ tab \in [Tabs -> TabType]
    BY <1>a DEF TypeOK
<1>i. conn[c].at = "idle"  BY DEF Connect
<1>k. /\ k \in TabType /\ k.conn = c /\ k.last = tab[t].last /\ k.load = tab[t].load
      /\ k.shown = tab[t].shown /\ k.buffer = tab[t].buffer /\ k.snap = tab[t].snap
      /\ k.again = tab[t].again /\ k.rows = tab[t].rows /\ k.late = tab[t].late
      /\ k.fair = tab[t].fair
    <2>1. tab[t] \in TabType  BY <1>n
    <2> QED  BY <2>1 DEF TabType
<1>c. conn' = [conn EXCEPT ![c] = r] /\ tab' = [tab EXCEPT ![t] = l]
    BY DEF Connect
<1> HIDE DEF k
<1>w. Whole(k, head) /\ Told(k, entitled)
    <2>1. Whole(tab[t], head) /\ Told(tab[t], entitled)  BY <1>a DEF TabsWhole, Entitlement
    <2> QED  BY <2>1, <1>k DEF Whole, Within, Told
<1>l. /\ l \in TabType /\ l.conn = c /\ Whole(l, head) /\ Told(l, entitled)
      /\ l.last = tab[t].last /\ (l.load = "asked" \/ l.again)
    BY <1>k, <1>n, <1>w, LoadStateGoes DEF Goes
<1>r. /\ r \in ConnType /\ r.at = "asked" /\ r.proc = p /\ r.cursor = tab[t].last
      /\ r.hand = 0 /\ r.page = <<>> /\ r.queue = <<>> /\ ~r.short
    <2>1. <<>> \in Seq(MsgType) /\ <<>> \in Seq(Nat)  BY EmptySeq
    <2>2. tab[t].last \in Nat  BY <1>n DEF TabType
    <2>3. /\ IdleConn \in ConnType /\ IdleConn.hand = 0 /\ IdleConn.page = <<>>
          /\ IdleConn.queue = <<>> /\ ~IdleConn.short
        BY <2>1 DEF IdleConn, ConnType
    <2> QED  BY <2>2, <2>3 DEF ConnType
<1> HIDE DEF l, r
<1>d. /\ conn' \in [Conns -> ConnType] /\ conn'[c] = r
      /\ \A d \in Conns : d # c => conn'[d] = conn[d]
      /\ tab' \in [Tabs -> TabType] /\ tab'[t] = l
      /\ \A u \in Tabs : u # t => tab'[u] = tab[u]
    BY <1>c, <1>n, <1>r, <1>l
<1>o. \A u \in Tabs : tab[u].conn # c  BY <1>a, <1>i DEF AllLinked, Linked
<1>0. TypeOK'  BY <1>a, <1>h, <1>d DEF TypeOK
<1>1. Reached'
    <2>1. Logged(r.queue, head)  BY <1>r DEF Logged
    <2>2. \A d \in Conns : Logged(conn'[d].queue, head)  BY <1>a, <1>d, <2>1 DEF Reached
    <2> QED  BY <1>a, <1>h, <2>2 DEF Reached
<1>2. Entitlement'
    <2>1. \A d \in Conns : conn'[d].hand <= entitled  BY <1>a, <1>d, <1>r, <1>n DEF Entitlement
    <2>2. \A u \in Tabs : Told(tab'[u], entitled)  BY <1>a, <1>d, <1>l DEF Entitlement
    <2> QED  BY <2>1, <2>2, <1>h DEF Entitlement
<1>r0. removals \in Nat  BY <1>a DEF TypeOK
<1>3. PresentWhileServed'
    <2> SUFFICES ASSUME NEW d \in Conns, conn'[d].at \in {"replaying", "live"}, conn'[d].sub, ~redis
                 PROVE  present' \/ removals > 0
        BY <1>h, <1>r0 DEF PresentWhileServed
    <2>1. d # c  BY <1>d, <1>r
    <2> QED  BY <2>1, <1>a, <1>d, <1>h, <1>r0 DEF PresentWhileServed
<1>4. ConnsFit'
    <2>1. tab[t].last <= head \/ tab[t].last > MaxEvents  BY <1>a DEF TabsWhole, Whole
    <2>2. Fit(r, head)  BY <1>r, <2>1 DEF Fit
    <2> QED  BY <1>a, <1>d, <1>h, <2>2 DEF ConnsFit
<1>5. TabsWhole'  BY <1>a, <1>d, <1>h, <1>l DEF TabsWhole
<1>6. AllLinked'
    <2>1. Linked(l, r, head)
        <3>1. \A n : Kept(l, n)  BY <1>l DEF Kept
        <3> QED  BY <1>l, <1>r, <3>1 DEF Linked
    <2> QED  BY <2>1, <1>a, <1>d, <1>h, <1>l, <1>o DEF AllLinked
<1>7. AllAhead'
    <2>1. Ahead(l, r, head, jobs, wire)  BY <1>r DEF Ahead, Tailing
    <2> QED  BY <2>1, <1>a, <1>d, <1>h, <1>l, <1>o DEF AllAhead
<1>p. AllPlaced'  BY <1>a, <1>h, <1>d, <1>r DEF AllPlaced, Placed, Serving, Connect
<1> QED  BY <1>0, <1>1, <1>2, <1>3, <1>p, <1>4, <1>5, <1>6, <1>7 DEF RealtimeInv

\* One tab goes on, the others stand.
LEMMA OneTabStep ==
    ASSUME RealtimeInv, LogStands, UNCHANGED <<token, conn, present, jobs, wire, losses, faults, notes>>,
           refusals' \in Nat, NEW t \in Tabs, NEW l, tab' = [tab EXCEPT ![t] = l],
           Goes(tab[t], l, head, entitled)
    PROVE  RealtimeInv'
<1>a. TypeOK /\ Entitlement /\ TabsWhole  BY DEF RealtimeInv
<1>1. l \in TabType  BY DEF Goes
<1>2. tab' \in [Tabs -> TabType]  BY <1>a, <1>1 DEF TypeOK
<1>3. TypeOK'  BY <1>a, <1>2 DEF TypeOK, LogStands
<1>4. ASSUME NEW u \in Tabs  PROVE Goes(tab[u], tab'[u], head, entitled)
    <2>1. CASE u = t  BY <2>1, <1>a DEF TypeOK
    <2>2. CASE u # t
        <3>1. tab'[u] = tab[u] /\ tab[u] \in TabType  BY <2>2, <1>a DEF TypeOK
        <3>2. Whole(tab[u], head) /\ Told(tab[u], entitled)  BY <1>a DEF TabsWhole, Entitlement
        <3> QED  BY <3>1, <3>2 DEF Goes
    <2> QED  BY <2>1, <2>2
<1> QED  BY <1>3, <1>4, TabStep

\* A fetch keeps the invariant, and so do its answer, its refusal and the next one;
\* it is let in for members only, who are entitled to all of the log.
LEMMA LoadsKeep ==
    ASSUME RealtimeInv, NEW t \in Tabs,
           \/ AuthorizeState(t) \/ ReadHead(t) \/ ReadRows(t)
           \/ StateArrives(t) \/ StateRefused(t) \/ RetryState(t)
    PROVE  RealtimeInv'
<1>a. TypeOK /\ Reached /\ Entitlement /\ TabsWhole  BY DEF RealtimeInv
<1>n. head \in Nat /\ entitled \in Nat /\ entitled <= head /\ refusals \in Nat
    BY <1>a DEF TypeOK, Reached
<1>t. tab[t] \in TabType /\ Whole(tab[t], head) /\ Told(tab[t], entitled)
    BY <1>a DEF TypeOK, TabsWhole, Entitlement
<1>o. tab[t].load \in {"admitted", "reading"} =>
          /\ Overdue(tab[t]) \in Nat
          /\ Overdue(tab[t]) = head \/ (Overdue(tab[t]) = tab[t].late /\ entitled = head)
    BY <1>a, <1>n, <1>t DEF Overdue, Whole, Reached, TabType
<1>0. CASE AuthorizeState(t)
    <2> DEFINE l == [tab[t] EXCEPT !.load = "admitted", !.fair = TRUE]
    <2>1. tab[t].load = "asked" /\ member = TRUE  BY <1>0, <1>a DEF AuthorizeState, TypeOK
    <2>2. Goes(tab[t], l, head, entitled)
        <3>1. entitled = head  BY <1>a, <2>1 DEF Reached
        <3>2. tab[t].late \in Nat  BY <1>t DEF TabType
        <3> HIDE DEF l
        <3> QED  BY <1>n, <1>t, <2>1, <3>1, <3>2, ReadGoes DEF l
    <2>3. tab' = [tab EXCEPT ![t] = l]
        <3>1. tab' = [tab EXCEPT ![t].load = "admitted", ![t].fair = TRUE]
            BY <1>0, <2>1 DEF AuthorizeState
        <3> QED  BY <3>1, <1>a DEF TypeOK
    <2> QED  BY <1>0, <1>n, <2>2, <2>3, OneTabStep DEF AuthorizeState, LogStands, durable, counts
<1>1. CASE ReadHead(t)
    <2> DEFINE b == Overdue(tab[t])
               l == [tab[t] EXCEPT !.load = "reading", !.snap = head, !.late = b]
    <2>1. tab[t].load = "admitted"  BY <1>1 DEF ReadHead
    <2>2. b \in Nat /\ (b = head \/ (b = tab[t].late /\ entitled = head))  BY <1>o, <2>1
    <2>3. tab' = [tab EXCEPT ![t] = l]
        <3>1. tab' = [tab EXCEPT ![t].load = "reading", ![t].snap = head, ![t].late = b]
            BY <1>1 DEF ReadHead
        <3> HIDE DEF b
        <3> QED  BY <3>1, <1>a DEF TypeOK
    <2> HIDE DEF b
    <2>4. Goes(tab[t], l, head, entitled)  BY <1>n, <1>t, <2>1, <2>2, ReadGoes
    <2> HIDE DEF l
    <2> QED  BY <1>1, <1>n, <2>3, <2>4, OneTabStep DEF ReadHead, LogStands, durable, counts
<1>5. CASE ReadRows(t)
    <2> DEFINE b == Overdue(tab[t])
               l == [tab[t] EXCEPT !.load = "served", !.rows = head, !.late = b]
    <2>1. tab[t].load = "reading"  BY <1>5 DEF ReadRows
    <2>2. b \in Nat /\ (b = head \/ (b = tab[t].late /\ entitled = head))  BY <1>o, <2>1
    <2>3. tab' = [tab EXCEPT ![t] = l]
        <3>1. tab' = [tab EXCEPT ![t].load = "served", ![t].rows = head, ![t].late = b]
            BY <1>5 DEF ReadRows
        <3> HIDE DEF b
        <3> QED  BY <3>1, <1>a DEF TypeOK
    <2> HIDE DEF b
    <2>4. Goes(tab[t], l, head, entitled)  BY <1>n, <1>t, <2>1, <2>2, ReadGoes
    <2> HIDE DEF l
    <2> QED  BY <1>5, <1>n, <2>3, <2>4, OneTabStep DEF ReadRows, LogStands, durable, counts
<1>2. CASE StateArrives(t)
    <2>1. Goes(tab[t], Settled(ApplyState(tab[t]), TRUE), head, entitled)
        BY <1>2, <1>n, <1>t, ArrivesGoes DEF StateArrives
    <2>2. tab' = [tab EXCEPT ![t] = Settled(ApplyState(tab[t]), TRUE)]
        BY <1>2, <1>a DEF StateArrives, TypeOK
    <2> QED  BY <1>2, <1>n, <2>1, <2>2, OneTabStep DEF StateArrives, LogStands, durable, counts
<1>3. CASE StateRefused(t)
    <2>1. Goes(tab[t], Settled(tab[t], FALSE), head, entitled)
        BY <1>3, <1>n, <1>t, RefusedGoes DEF StateRefused
    <2>2. tab' = [tab EXCEPT ![t] = Settled(tab[t], FALSE)]
        BY <1>3, <1>a DEF StateRefused, TypeOK
    <2>3. refusals' \in Nat  BY <1>3, <1>n DEF StateRefused
    <2> QED  BY <1>3, <2>1, <2>2, <2>3, OneTabStep DEF StateRefused, LogStands, durable
<1>4. CASE RetryState(t)
    <2>1. Goes(tab[t], LoadState(tab[t]), head, entitled)
        BY <1>n, <1>t, LoadStateGoes
    <2>2. tab' = [tab EXCEPT ![t] = LoadState(tab[t])]
        BY <1>4, <1>a DEF RetryState, TypeOK
    <2> QED  BY <1>4, <1>n, <2>1, <2>2, OneTabStep DEF RetryState, LogStands, durable, counts
<1> QED  BY <1>0, <1>1, <1>2, <1>3, <1>4, <1>5

-----------------------------------------------------------------------------
(* The steps of a socket.                                                     *)

\* What a socket that is being served knows.
LEMMA ServingFacts ==
    ASSUME RealtimeInv, NEW c \in Conns
    PROVE  LET s == conn[c] IN
           /\ s \in ConnType /\ Fit(s, head) /\ s.hand <= entitled /\ Logged(s.queue, head)
           /\ Placed(s)
           /\ s.hand \in Nat /\ s.cursor \in Nat /\ s.page \in Seq(Nat) /\ s.queue \in Seq(MsgType)
           /\ s.through \in Int /\ s.short \in BOOLEAN /\ s.sub \in BOOLEAN
           /\ Len(s.page) \in Nat
           /\ conn' = [conn EXCEPT ![c] = conn'[c]] /\ conn'[c] \in ConnType
              => conn' \in [Conns -> ConnType]
<1>1. TypeOK /\ Entitlement /\ ConnsFit /\ Reached /\ AllPlaced  BY DEF RealtimeInv
<1>2. conn[c] \in ConnType /\ conn \in [Conns -> ConnType]  BY <1>1 DEF TypeOK
<1>3. conn[c].hand \in Nat /\ conn[c].cursor \in Nat /\ conn[c].page \in Seq(Nat)
      /\ conn[c].queue \in Seq(MsgType) /\ conn[c].through \in Int
      /\ conn[c].short \in BOOLEAN /\ conn[c].sub \in BOOLEAN
    BY <1>2 DEF ConnType
<1>4. Len(conn[c].page) \in Nat  BY <1>3
<1>5. Fit(conn[c], head) /\ conn[c].hand <= entitled /\ Logged(conn[c].queue, head)
      /\ Placed(conn[c])
    BY <1>1 DEF ConnsFit, Entitlement, Reached, AllPlaced
<1>6. conn' = [conn EXCEPT ![c] = conn'[c]] /\ conn'[c] \in ConnType
      => conn' \in [Conns -> ConnType]
    BY <1>2
<1> QED  BY <1>2, <1>3, <1>4, <1>5, <1>6

\* The types after a step of one socket.
LEMMA SocketTypes ==
    ASSUME RealtimeInv, NEW c \in Conns, NEW r \in ConnType, conn' = [conn EXCEPT ![c] = r],
           LogStands, UNCHANGED <<token, tab, jobs, wire, losses, refusals, faults, notes>>,
           present' \in BOOLEAN
    PROVE  TypeOK'
<1>1. TypeOK  BY DEF RealtimeInv
<1>2. conn' \in [Conns -> ConnType]  BY <1>1 DEF TypeOK
<1> QED  BY <1>1, <1>2 DEF TypeOK, LogStands

\* Sending an event shows it, and moves the cursor of a replay to it.
LEMMA SendKeeps ==
    ASSUME RealtimeInv, NEW c \in Conns, SendEvent(c)
    PROVE  RealtimeInv'
<1> DEFINE s == conn[c]
           n == s.hand
           r == [s EXCEPT !.hand = 0, !.cursor = IF s.at = "replaying" THEN n ELSE @]
<1>a. TypeOK /\ Reached /\ Entitlement /\ AllPlaced /\ PresentWhileServed
      /\ ConnsFit /\ TabsWhole /\ AllLinked /\ AllAhead
    BY DEF RealtimeInv
<1>h. redis' = redis /\ head' = head /\ member' = member /\ token' = token /\ entitled' = entitled
      /\ present' = present /\ jobs' = jobs /\ wire' = wire /\ losses' = losses
      /\ removals' = removals /\ refusals' = refusals /\ faults' = faults /\ notes' = notes
    BY DEF SendEvent, ConnOnly, durable, counts
<1>n. head \in Nat /\ entitled \in Nat /\ entitled <= head
      /\ conn \in [Conns -> ConnType] /\ tab \in [Tabs -> TabType]
    BY <1>a DEF TypeOK, Reached
<1>s. /\ s \in ConnType /\ Fit(s, head) /\ n <= entitled /\ Logged(s.queue, head)
      /\ n \in Nat /\ s.cursor \in Nat /\ s.page \in Seq(Nat) /\ Len(s.page) \in Nat
    BY ServingFacts
<1>m. n # 0 /\ n \in 1 .. entitled /\ n \in 1 .. head /\ s.at \in {"replaying", "live"}
    <2>1. n # 0  BY DEF SendEvent
    <2>2. s.at \in {"replaying", "live"}  BY <2>1, <1>s DEF Fit
    <2> QED  BY <2>1, <2>2, <1>s, <1>n
<1>c. conn' = [conn EXCEPT ![c] = r]  BY <1>n DEF SendEvent
<1> HIDE DEF s
<1>r. /\ r \in ConnType /\ r.at = s.at /\ r.hand = 0 /\ r.page = s.page /\ r.queue = s.queue
      /\ r.proc = s.proc /\ r.sub = s.sub /\ r.short = s.short /\ r.through = s.through
      /\ r.cursor = (IF s.at = "replaying" THEN n ELSE s.cursor)
    BY <1>s DEF ConnType
<1> HIDE DEF n, r
<1>d. /\ conn' \in [Conns -> ConnType] /\ conn'[c] = r
      /\ \A d \in Conns : d # c => conn'[d] = conn[d]
    BY <1>c, <1>n, <1>r
<1>e. End(r) = End(s) /\ (Tailing(r) => Tailing(s))
    BY <1>r, <1>m DEF End, Sent, Tailing, n
<1>t. ASSUME NEW t \in Tabs
      PROVE  /\ Goes(tab[t], tab'[t], head, entitled)
             /\ tab[t].conn = c => n \in tab'[t].shown
             /\ tab[t] \in TabType /\ tab'[t].conn = tab[t].conn
    <2>0. tab'[t] = IF tab[t].conn = c THEN Handled(tab[t], n) ELSE tab[t]
        BY DEF SendEvent, s, n
    <2>1. tab[t] \in TabType /\ Whole(tab[t], head) /\ Told(tab[t], entitled)
        BY <1>a, <1>n DEF TabsWhole, Entitlement
    <2>2. CASE tab[t].conn = c
        <3>1. Goes(tab[t], Handled(tab[t], n), head, entitled) /\ n \in Handled(tab[t], n).shown
            BY <2>1, <1>n, <1>m, HandledGoes
        <3> QED  BY <2>0, <2>1, <2>2, <3>1 DEF Goes
    <2>3. CASE tab[t].conn # c  BY <2>0, <2>1, <2>3 DEF Goes
    <2> QED  BY <2>2, <2>3
<1>0. TypeOK'
    <2>1. tab' \in [Tabs -> TabType]
        <3>1. \A t \in Tabs : tab'[t] \in TabType  BY <1>t DEF Goes
        <3> QED  BY <3>1 DEF SendEvent
    <2> QED  BY <1>a, <1>h, <1>d, <2>1 DEF TypeOK
<1>1. Reached'
    <2>1. \A d \in Conns : Logged(conn'[d].queue, head)
        BY <1>a, <1>d, <1>r, <1>s DEF Reached
    <2> QED  BY <1>a, <1>h, <2>1 DEF Reached
<1>2. Entitlement'
    <2>1. \A d \in Conns : conn'[d].hand <= entitled  BY <1>a, <1>d, <1>r, <1>n DEF Entitlement
    <2>2. \A t \in Tabs : Told(tab'[t], entitled)  BY <1>t DEF Goes
    <2> QED  BY <2>1, <2>2, <1>h DEF Entitlement
<1>r0. removals \in Nat  BY <1>a DEF TypeOK
<1>3. PresentWhileServed'
    <2> SUFFICES ASSUME NEW d \in Conns, conn'[d].at \in {"replaying", "live"}, conn'[d].sub, ~redis
                 PROVE  present' \/ removals > 0
        BY <1>h, <1>r0 DEF PresentWhileServed
    <2>1. conn'[d].at = conn[d].at /\ conn'[d].sub = conn[d].sub /\ conn'[d].proc = conn[d].proc
        BY <1>d, <1>r DEF s
    <2> QED  BY <2>1, <1>a, <1>h, <1>r0 DEF PresentWhileServed
<1>4. ConnsFit'
    <2>1. Fit(r, head)
        <3>1. CASE s.at = "replaying"
            <4>1. /\ s.hand = s.cursor + 1 /\ Sent(s) + Len(s.page) <= head
                  /\ \A i \in DOMAIN s.page : s.page[i] = Sent(s) + i
                  /\ ~s.sub => Doomed(s)
                BY <3>1, <1>s, <1>m DEF Fit, n
            <4>2. Sent(s) = n /\ Sent(r) = n /\ r.cursor = n
                BY <3>1, <1>m, <1>r DEF Sent, n
            <4>3. r.cursor <= head  BY <4>2, <1>m
            <4>4. Doomed(s) => Doomed(r)  BY <1>r DEF Doomed
            <4>5. /\ Sent(r) + Len(r.page) <= head
                  /\ \A i \in DOMAIN r.page : r.page[i] = Sent(r) + i
                BY <4>1, <4>2, <1>r
            <4> QED  BY <3>1, <4>1, <4>3, <4>4, <4>5, <1>r DEF Fit
        <3>2. CASE s.at = "live"
            <4>1. Doomed(s) => Doomed(r)  BY <1>r DEF Doomed
            <4> QED  BY <3>2, <4>1, <1>r, <1>s DEF Fit
        <3> QED  BY <3>1, <3>2, <1>m
    <2> QED  BY <1>a, <1>d, <1>h, <2>1 DEF ConnsFit
<1>5. TabsWhole'
    <2>1. \A t \in Tabs : Whole(tab'[t], head)  BY <1>t DEF Goes
    <2> QED  BY <2>1, <1>h DEF TabsWhole
<1>6. AllLinked'
    <2> SUFFICES ASSUME NEW t \in Tabs, tab[t].conn \in Conns
                 PROVE  Linked(tab'[t], conn'[tab[t].conn], head)
        BY <1>t, <1>h DEF AllLinked
    <2>1. Linked(tab[t], conn[tab[t].conn], head)  BY <1>a DEF AllLinked
    <2>2. CASE tab[t].conn = c
        <3>1. Linked(tab[t], s, head)  BY <2>1, <2>2 DEF s
        <3>2. Goes(tab[t], tab'[t], head, entitled) /\ n \in tab'[t].shown  BY <1>t, <2>2
        <3>3. Linked(tab'[t], s, head)  BY <3>1, <3>2, <1>n, <1>s, <1>t, GoesLinked
        <3>4. r.at \notin {"idle", "closing", "leaving"}
            BY <1>r, <1>m, <3>3 DEF Linked
        <3>5. s.cursor <= head  BY <1>m, <1>s DEF Fit
        <3>6. tab'[t].last <= head  BY <3>3, <3>5 DEF Linked
        <3>7. ASSUME NEW i \in 1 .. r.cursor  PROVE Kept(tab'[t], i)
            <4>1. CASE i = n  BY <4>1, <3>2 DEF Kept
            <4>2. CASE i # n
                <5>1. s.at = "replaying" => n = s.cursor + 1  BY <1>s, <1>m DEF Fit, n
                <5>2. i \in 1 .. s.cursor  BY <4>2, <5>1, <3>7, <1>r, <1>s
                <5> QED  BY <5>2, <3>3, <3>5 DEF Linked
            <4> QED  BY <4>1, <4>2
        <3>8. Linked(tab'[t], r, head)  BY <3>4, <3>6, <3>7 DEF Linked
        <3> QED  BY <3>8, <2>2, <1>d
    <2>3. CASE tab[t].conn # c
        <3>1. conn'[tab[t].conn] = conn[tab[t].conn] /\ conn[tab[t].conn] \in ConnType
            BY <2>3, <1>d, <1>n
        <3> QED  BY <3>1, <2>1, <1>t, <1>n, GoesLinked
    <2> QED  BY <2>2, <2>3
<1>7. AllAhead'
    <2> SUFFICES ASSUME losses = 0, NEW t \in Tabs, tab[t].conn \in Conns
                 PROVE  Ahead(tab'[t], conn'[tab[t].conn], head, jobs, wire)
        BY <1>t, <1>h DEF AllAhead
    <2>1. Ahead(tab[t], conn[tab[t].conn], head, jobs, wire)  BY <1>a DEF AllAhead
    <2>2. CASE tab[t].conn = c
        <3>1. Ahead(tab'[t], s, head, jobs, wire)
            BY <2>1, <2>2, <1>t, <1>n, <1>s, GoesLinked DEF s
        <3>2. n \in tab'[t].shown  BY <1>t, <2>2
        <3>3. \A i : OnItsWay(tab'[t], s, i, jobs, wire) => OnItsWay(tab'[t], r, i, jobs, wire)
            BY <3>2, <1>r DEF OnItsWay, Doomed, Queued, Underway, n
        <3>4. Ahead(tab'[t], r, head, jobs, wire)  BY <3>1, <3>3, <1>e DEF Ahead
        <3> QED  BY <3>4, <2>2, <1>d
    <2>3. CASE tab[t].conn # c
        <3>1. conn'[tab[t].conn] = conn[tab[t].conn] /\ conn[tab[t].conn] \in ConnType
            BY <2>3, <1>d, <1>n
        <3> QED  BY <3>1, <2>1, <1>t, <1>n, GoesLinked
    <2> QED  BY <2>2, <2>3
<1>p. AllPlaced'  BY <1>a, <1>h, <1>d, <1>r DEF AllPlaced, Placed, Serving, s
<1> QED  BY <1>0, <1>1, <1>2, <1>3, <1>p, <1>4, <1>5, <1>6, <1>7 DEF RealtimeInv

\* A page is the log right after its cursor, as far as a page goes.
LEMMA PageFacts ==
    ASSUME NEW n \in Nat, head \in Nat, n <= head
    PROVE  LET p == PageAfter(n) IN
           /\ p \in Seq(Nat) /\ Len(p) \in Nat /\ n + Len(p) <= head
           /\ \A i \in DOMAIN p : p[i] = n + i
           /\ Len(p) < PageSize => n + Len(p) = head
<1> DEFINE k == IF n + PageSize < head THEN PageSize ELSE head - n
           p == PageAfter(n)
<1>1. k \in Nat /\ n + k <= head /\ (k < PageSize => n + k = head)  BY RealtimeAssumption
<1>2. p = [i \in 1 .. k |-> n + i]  BY DEF PageAfter
<1> HIDE DEF k, p
<1>3. p \in Seq(Nat) /\ Len(p) = k /\ DOMAIN p = 1 .. k  BY <1>1, <1>2
<1>4. \A i \in DOMAIN p : p[i] = n + i  BY <1>2, <1>3
<1> QED  BY <1>1, <1>3, <1>4 DEF p

\* The steps of the handshake: authorize, check the cursor, subscribe.
LEMMA HandshakeKeeps ==
    ASSUME RealtimeInv, NEW c \in Conns, Authorize(c) \/ CheckCursor(c) \/ Subscribe(c)
    PROVE  RealtimeInv'
<1> DEFINE s == conn[c]
<1>a. TypeOK  BY DEF RealtimeInv
<1>n. head \in Nat /\ faults \in Nat /\ conn \in [Conns -> ConnType]  BY <1>a DEF TypeOK
<1>h. LogStands /\ UNCHANGED <<token, present, jobs, wire, losses, refusals, faults, notes>>
    BY DEF Authorize, CheckCursor, Subscribe, ConnOnly, LogStands, durable, counts
<1>s. s \in ConnType /\ Fit(s, head) /\ Logged(s.queue, head) /\ s.hand <= entitled
      /\ s.cursor \in Nat /\ Placed(s)
    BY ServingFacts
<1>o. s.at # "idle"
    BY DEF Authorize, CheckCursor, Subscribe, ConnStep
<1>1. ASSUME NEW code, Closing(c, code)  PROVE RealtimeInv'
    BY <1>1, <1>h, <1>n, <1>o, ClosingStep
<1>2. ASSUME NEW r \in ConnType, conn' = [conn EXCEPT ![c] = r], tab' = tab,
             s.at \in {"asked", "authorized", "fit"}, r.at \in {"authorized", "fit", "subscribed"},
             r.hand = s.hand, r.page = s.page, r.queue = s.queue, r.proc = s.proc,
             r.cursor = s.cursor, r.short = s.short,
             r.at \in {"fit", "subscribed"} => s.cursor <= head,
             r.at = "subscribed" => r.sub
      PROVE  RealtimeInv'
    <2> HIDE DEF s
    <2>1. Fit(r, head)  BY <1>2, <1>s DEF Fit
    <2>2. \A k : Linked(k, s, head) => Linked(k, r, head)  BY <1>2 DEF Linked
    <2>3. \A k : Ahead(k, r, head, jobs, wire)  BY <1>2 DEF Ahead, Tailing
    <2>4. TypeOK'
        <3>1. present' \in BOOLEAN  BY <1>a, <1>h DEF TypeOK
        <3> QED  BY <1>2, <1>h, <3>1, SocketTypes
    <2>5. Logged(r.queue, head) /\ r.hand <= entitled /\ r.at \notin {"replaying", "live"}
          /\ Placed(r) /\ (present => present')
        BY <1>2, <1>s, <1>h DEF Placed
    <2>6. \A k : Linked(k, conn[c], head) => Linked(k, r, head)  BY <2>2 DEF s
    <2> QED  BY <1>2, <1>h, <2>1, <2>3, <2>4, <2>5, <2>6, SocketStep
<1>3. ASSUME NEW at \in {"authorized", "fit"}, Moves(c, at), s.at \in {"asked", "authorized"},
             at = "fit" => s.cursor <= head
      PROVE  RealtimeInv'
    <2> DEFINE r == [s EXCEPT !.at = at]
    <2>1. conn' = [conn EXCEPT ![c] = r] /\ tab' = tab  BY <1>3, <1>n DEF Moves
    <2>2. /\ r \in ConnType /\ r.at = at /\ r.hand = s.hand /\ r.page = s.page
          /\ r.queue = s.queue /\ r.proc = s.proc /\ r.cursor = s.cursor /\ r.short = s.short
        BY <1>3, <1>s DEF ConnType
    <2> HIDE DEF s, r
    <2> QED  BY <1>2, <1>3, <2>1, <2>2
<1>4. CASE Authorize(c)
    <2>1. s.at = "asked"  BY <1>4 DEF Authorize, ConnStep
    <2>2. Closing(c, 4401) \/ Closing(c, 4403) \/ Moves(c, "authorized")
        <3>1. CASE ~token  BY <1>4, <3>1 DEF Authorize
        <3>2. CASE token /\ ~member  BY <1>4, <3>2 DEF Authorize
        <3>3. CASE token /\ member  BY <1>4, <3>3 DEF Authorize
        <3> QED  BY <3>1, <3>2, <3>3
    <2> QED  BY <2>1, <2>2, <1>1, <1>3
<1>5. CASE CheckCursor(c)
    <2>1. s.at = "authorized"  BY <1>5 DEF CheckCursor, ConnStep
    <2>2. CASE s.cursor > head  BY <1>5, <2>2, <1>1 DEF CheckCursor
    <2>3. CASE ~(s.cursor > head)
        <3>1. Moves(c, "fit")  BY <1>5, <2>3 DEF CheckCursor
        <3>2. s.cursor <= head  BY <2>3, <1>s, <1>n
        <3> QED  BY <2>1, <3>1, <3>2, <1>3
    <2> QED  BY <2>2, <2>3
<1>6. CASE Subscribe(c)
    <2> DEFINE r == [s EXCEPT !.at = "subscribed", !.sub = TRUE]
    <2>1. conn' = [conn EXCEPT ![c] = r] /\ tab' = tab /\ s.at = "fit"
        BY <1>6, <1>n DEF Subscribe, ConnStep
    <2>2. /\ r \in ConnType /\ r.at = "subscribed" /\ r.hand = s.hand /\ r.page = s.page
          /\ r.queue = s.queue /\ r.proc = s.proc /\ r.cursor = s.cursor /\ r.short = s.short
          /\ r.sub
        BY <1>s DEF ConnType
    <2>3. s.cursor <= head  BY <2>1, <1>s DEF Fit
    <2> HIDE DEF s, r
    <2> QED  BY <1>2, <2>1, <2>2, <2>3
<1> QED  BY <1>4, <1>5, <1>6

\* Being shown as present, and reading the log from the cursor on.
LEMMA ReplayKeeps ==
    ASSUME RealtimeInv, NEW c \in Conns,
           Recheck(c) \/ JoinPresence(c) \/ ReadPage(c) \/ TakeReplay(c)
    PROVE  RealtimeInv'
<1> DEFINE s == conn[c]
<1>a. TypeOK /\ Reached /\ PresentWhileServed  BY DEF RealtimeInv
<1>n. head \in Nat /\ faults \in Nat /\ conn \in [Conns -> ConnType] /\ entitled \in Nat
      /\ (member => entitled = head)
    BY <1>a DEF TypeOK, Reached
<1>h. LogStands /\ UNCHANGED <<token, jobs, wire, losses, refusals, faults, notes>>
    BY DEF Recheck, JoinPresence, ReadPage, TakeReplay, ConnOnly, LogStands, durable, counts
<1>s. /\ s \in ConnType /\ Fit(s, head) /\ Logged(s.queue, head) /\ s.hand <= entitled
      /\ s.cursor \in Nat /\ s.hand \in Nat /\ s.page \in Seq(Nat) /\ Len(s.page) \in Nat
      /\ s.short \in BOOLEAN /\ Placed(s)
    BY ServingFacts
<1>o. s.at # "idle"
    BY DEF Recheck, JoinPresence, ReadPage, TakeReplay, ConnStep
<1>1. ASSUME NEW code, Closing(c, code), present' = present  PROVE RealtimeInv'
    BY <1>1, <1>h, <1>n, <1>o, ClosingStep
<1>2. ASSUME NEW r \in ConnType, conn' = [conn EXCEPT ![c] = r], tab' = tab,
             s.at \in {"subscribed", "joining", "replaying"}, r.at \in {"joining", "replaying", "live"},
             r.queue = s.queue, r.proc = s.proc, r.cursor = s.cursor, r.hand <= entitled,
             present' \in BOOLEAN, present => present',
             r.at # "joining" /\ r.sub /\ ~redis => present' \/ removals > 0, Fit(r, head),
             \A k : Ahead(k, s, head, jobs, wire) => Ahead(k, r, head, jobs, wire)
      PROVE  RealtimeInv'
    <2>1. \A k : Linked(k, conn[c], head) => Linked(k, r, head)  BY <1>2 DEF Linked
    <2>2. TypeOK'  BY <1>2, <1>h, SocketTypes
    <2>3. Logged(r.queue, head) /\ Placed(r)  BY <1>2, <1>s DEF Placed
    <2> QED  BY <1>2, <1>h, <2>1, <2>2, <2>3, SocketStep
<1>p. /\ s.at = "replaying" /\ s.sub /\ ~redis => present \/ removals > 0
      /\ present \in BOOLEAN /\ redis \in BOOLEAN
    <2>1. removals \in Nat /\ present \in BOOLEAN /\ redis \in BOOLEAN  BY <1>a DEF TypeOK
    <2> QED  BY <2>1, <1>a DEF PresentWhileServed
<1>3. CASE (Recheck(c) /\ member) \/ JoinPresence(c)
    <2> DEFINE to == conn'[c].at
               r == [s EXCEPT !.at = to]
    <2>0. /\ s.at \in {"subscribed", "joining"} /\ to \in {"joining", "replaying"}
          /\ Moves(c, to) /\ present' \in BOOLEAN /\ (present => present')
          /\ to = "replaying" /\ ~redis => present'
        <3>1. CASE JoinPresence(c)
            <4>1. s.at = "joining" /\ Moves(c, "replaying") /\ present' = TRUE
                BY <3>1 DEF JoinPresence, ConnStep
            <4>2. to = "replaying"  BY <4>1, <1>n DEF Moves, ConnType
            <4> QED  BY <4>1, <4>2
        <3>2. CASE Recheck(c) /\ member /\ redis
            <4>1. s.at = "subscribed" /\ Moves(c, "joining") /\ present' = (present \/ ~redis)
                BY <3>2 DEF Recheck, ConnStep
            <4>2. to = "joining"  BY <4>1, <1>n DEF Moves, ConnType
            <4>3. present' \in BOOLEAN  BY <4>1
            <4> QED  BY <3>2, <4>1, <4>2, <4>3
        <3>3. CASE Recheck(c) /\ member /\ ~redis
            <4>1. s.at = "subscribed" /\ Moves(c, "replaying") /\ present' = (present \/ ~redis)
                BY <3>3 DEF Recheck, ConnStep
            <4>2. to = "replaying"  BY <4>1, <1>n DEF Moves, ConnType
            <4>3. present' \in BOOLEAN  BY <4>1
            <4> QED  BY <3>3, <4>1, <4>2, <4>3
        <3> QED  BY <1>3, <3>1, <3>2, <3>3
    <2>1. conn' = [conn EXCEPT ![c] = r] /\ tab' = tab
        BY <2>0, <1>n DEF Moves
    <2> HIDE DEF to
    <2>2. /\ r \in ConnType /\ r.at = to /\ r.queue = s.queue /\ r.proc = s.proc
          /\ r.cursor = s.cursor /\ r.hand = s.hand /\ r.page = s.page /\ r.sub = s.sub
          /\ r.short = s.short
        BY <1>s, <2>0 DEF ConnType
    <2> HIDE DEF s, r
    <2>3. s.hand = 0 /\ s.page = <<>> /\ ~s.short /\ s.cursor <= head /\ (~s.sub => Doomed(s))
        BY <2>0, <1>s DEF Fit
    <2>4. Fit(r, head)
        <3>1. Sent(r) = r.cursor /\ Len(r.page) = 0 /\ DOMAIN r.page = {}
            BY <2>2, <2>3 DEF Sent
        <3>2. ~r.sub => Doomed(r)  BY <2>2, <2>3 DEF Doomed
        <3>3. Sent(r) + Len(r.page) <= head  BY <3>1, <2>2, <2>3, <1>s
        <3> QED  BY <2>0, <2>2, <2>3, <3>1, <3>2, <3>3 DEF Fit
    <2>5. \A k : Ahead(k, r, head, jobs, wire)  BY <2>0, <2>2, <2>3 DEF Ahead, Tailing
    <2>6. r.at # "joining" /\ r.sub /\ ~redis => present' \/ removals > 0  BY <2>0, <2>2
    <2> QED  BY <1>2, <2>0, <2>1, <2>2, <2>4, <2>5, <2>6, <1>s
<1>6. CASE Recheck(c) /\ ~member
    BY <1>6, <1>1 DEF Recheck
<1>4. CASE ReadPage(c)
    <2> DEFINE p == PageAfter(s.cursor)
    <2>0. s.at = "replaying" /\ s.page = <<>> /\ s.hand = 0 /\ tab' = tab /\ present' = present
        BY <1>4 DEF ReadPage, ConnStep
    <2>1. s.cursor <= head /\ (~s.sub => Doomed(s))  BY <2>0, <1>s DEF Fit
    <2>2. /\ p \in Seq(Nat) /\ Len(p) \in Nat /\ s.cursor + Len(p) <= head
          /\ \A i \in DOMAIN p : p[i] = s.cursor + i
          /\ Len(p) < PageSize => s.cursor + Len(p) = head
        BY <2>1, <1>n, <1>s, PageFacts
    <2>3. CASE p = <<>> \/ s.short
        <3> DEFINE r == [s EXCEPT !.at = "live", !.through = s.cursor]
        <3>1. conn' = [conn EXCEPT ![c] = r]  BY <1>4, <2>3, <1>n DEF ReadPage, Through
        <3>2. /\ r \in ConnType /\ r.at = "live" /\ r.queue = s.queue /\ r.proc = s.proc
              /\ r.cursor = s.cursor /\ r.hand = s.hand /\ r.page = s.page /\ r.sub = s.sub
              /\ r.short = s.short /\ r.through = s.cursor
            <4>1. s.cursor \in Int  BY <1>s
            <4> QED  BY <1>s, <4>1 DEF ConnType
        <3> HIDE DEF s, r, p
        <3>3. Fit(r, head)
            <4>1. ~r.sub => Doomed(r)  BY <2>1, <3>2 DEF Doomed
            <4> QED  BY <2>0, <2>1, <3>2, <4>1 DEF Fit
        <3>4. ASSUME NEW k, Ahead(k, s, head, jobs, wire)  PROVE Ahead(k, r, head, jobs, wire)
            <4>1. End(r) = s.cursor /\ End(s) = s.cursor
                BY <2>0, <3>2, <1>s DEF End, Sent
            <4>2. \A n : OnItsWay(k, s, n, jobs, wire) => OnItsWay(k, r, n, jobs, wire)
                BY <3>2 DEF OnItsWay, Doomed, Queued, Underway
            <4>3. CASE s.short
                <5>1. Tailing(s)  BY <2>0, <4>3 DEF Tailing
                <5> QED  BY <3>4, <4>1, <4>2, <5>1 DEF Ahead
            <4>4. CASE ~s.short
                <5>1. Len(p) = 0 /\ 0 < PageSize  BY <2>3, <4>4, RealtimeAssumption
                <5>2. s.cursor = head  BY <5>1, <2>2, <1>s
                <5> QED  BY <5>2, <4>1, <1>n DEF Ahead
            <4> QED  BY <4>3, <4>4
        <3> QED  BY <1>2, <1>p, <2>0, <3>1, <3>2, <3>3, <3>4, <1>s
    <2>4. CASE ~(p = <<>> \/ s.short)
        <3> DEFINE r == [s EXCEPT !.page = p, !.short = Len(p) < PageSize]
        <3>1. conn' = [conn EXCEPT ![c] = r]  BY <1>4, <2>4, <1>n DEF ReadPage
        <3> HIDE DEF p
        <3>2. /\ r \in ConnType /\ r.at = s.at /\ r.queue = s.queue /\ r.proc = s.proc
              /\ r.cursor = s.cursor /\ r.hand = s.hand /\ r.page = p /\ r.sub = s.sub
              /\ r.short <=> Len(p) < PageSize
            <4>1. (Len(p) < PageSize) \in BOOLEAN  OBVIOUS
            <4>2. PICK b \in BOOLEAN : b = (Len(p) < PageSize)  BY <4>1
            <4>3. r = [s EXCEPT !.page = p, !.short = b]  BY <4>2
            <4> HIDE DEF r
            <4>4. /\ r \in ConnType /\ r.at = s.at /\ r.queue = s.queue /\ r.proc = s.proc
                  /\ r.cursor = s.cursor /\ r.hand = s.hand /\ r.page = p /\ r.sub = s.sub
                  /\ r.short = b
                BY <1>s, <2>2, <4>3 DEF ConnType
            <4> QED  BY <4>2, <4>4
        <3> HIDE DEF s, r
        <3>3. Sent(r) = s.cursor  BY <2>0, <3>2 DEF Sent
        <3>4. Fit(r, head)
            <4>1. ~r.sub => Doomed(r)  BY <2>1, <3>2 DEF Doomed
            <4>2. /\ Sent(r) + Len(r.page) <= head
                  /\ \A i \in DOMAIN r.page : r.page[i] = Sent(r) + i
                BY <2>2, <3>2, <3>3
            <4> QED  BY <2>0, <2>1, <3>2, <4>1, <4>2 DEF Fit
        <3>5. \A k : Ahead(k, r, head, jobs, wire)
            <4>1. Tailing(r) => End(r) = head
                BY <2>0, <2>2, <3>2, <3>3 DEF Tailing, End
            <4> QED  BY <4>1, <1>n DEF Ahead
        <3> QED  BY <1>2, <1>p, <2>0, <3>1, <3>2, <3>4, <3>5, <1>s
    <2> QED  BY <2>3, <2>4
<1>5. CASE TakeReplay(c)
    <2>0. s.at = "replaying" /\ s.page # <<>> /\ s.hand = 0 /\ present' = present
        BY <1>5 DEF TakeReplay, ConnStep
    <2>1. CASE ~member  BY <1>5, <2>0, <2>1, <1>1 DEF TakeReplay
    <2>2. CASE member
        <3> DEFINE r == [s EXCEPT !.hand = Head(s.page), !.page = Tail(s.page)]
        <3>1. conn' = [conn EXCEPT ![c] = r] /\ tab' = tab
            <4>1. conn' = [conn EXCEPT ![c].hand = Head(s.page), ![c].page = Tail(s.page)]
                  /\ tab' = tab
                BY <1>5, <2>2 DEF TakeReplay
            <4>2. \A x, y : [conn EXCEPT ![c].hand = x, ![c].page = y]
                            = [conn EXCEPT ![c] = [s EXCEPT !.hand = x, !.page = y]]
                BY <1>n
            <4> QED  BY <4>1, <4>2
        <3>2. /\ Head(s.page) = s.page[1] /\ Head(s.page) \in Nat
              /\ Tail(s.page) \in Seq(Nat) /\ Len(Tail(s.page)) = Len(s.page) - 1
              /\ \A i \in 1 .. Len(s.page) - 1 : Tail(s.page)[i] = s.page[i + 1]
              /\ Len(s.page) >= 1
            BY <2>0, <1>s
        <3>3. /\ r \in ConnType /\ r.at = s.at /\ r.queue = s.queue /\ r.proc = s.proc
              /\ r.cursor = s.cursor /\ r.hand = Head(s.page) /\ r.page = Tail(s.page)
              /\ r.sub = s.sub /\ r.short = s.short
            BY <1>s, <3>2 DEF ConnType
        <3> HIDE DEF s, r
        <3>4. /\ Sent(s) = s.cursor /\ s.cursor + Len(s.page) <= head /\ s.cursor <= head
              /\ \A i \in DOMAIN s.page : s.page[i] = s.cursor + i
              /\ ~s.sub => Doomed(s)
            BY <2>0, <1>s DEF Fit, Sent
        <3>5. 1 \in DOMAIN s.page /\ DOMAIN s.page = 1 .. Len(s.page)
            BY <3>2, <1>s
        <3>6. r.hand = s.cursor + 1 /\ r.hand # 0 /\ Sent(r) = s.cursor + 1
            BY <3>2, <3>3, <3>4, <3>5, <1>s DEF Sent
        <3>7. r.hand <= entitled  BY <2>2, <3>2, <3>4, <3>6, <1>n, <1>s
        <3>8. Fit(r, head)
            <4>1. ~r.sub => Doomed(r)  BY <3>3, <3>4 DEF Doomed
            <4>2. Sent(r) + Len(r.page) <= head  BY <3>2, <3>3, <3>4, <3>6, <1>n, <1>s
            <4>3. ASSUME NEW i \in DOMAIN r.page  PROVE r.page[i] = Sent(r) + i
                <5>1. i \in 1 .. Len(s.page) - 1  BY <3>2, <3>3
                <5>2. i + 1 \in 1 .. Len(s.page)  BY <5>1, <1>s
                <5>3. s.page[i + 1] = s.cursor + (i + 1)  BY <5>2, <3>4, <3>5
                <5>4. r.page[i] = s.page[i + 1]  BY <5>1, <3>2, <3>3
                <5>5. i \in Int /\ s.cursor \in Int  BY <5>1, <1>s
                <5>6. s.cursor + (i + 1) = (s.cursor + 1) + i  BY <5>5
                <5> QED  BY <5>3, <5>4, <5>6, <3>6
            <4> QED  BY <2>0, <3>3, <3>4, <3>6, <4>1, <4>2, <4>3 DEF Fit
        <3>9. ASSUME NEW k, Ahead(k, s, head, jobs, wire)  PROVE Ahead(k, r, head, jobs, wire)
            <4>1. End(r) = End(s)  BY <2>0, <3>2, <3>3, <3>4, <3>6, <1>s DEF End
            <4>2. Tailing(r) => Tailing(s)  BY <3>3 DEF Tailing
            <4>3. \A n \in 1 .. head : OnItsWay(k, s, n, jobs, wire) => OnItsWay(k, r, n, jobs, wire)
                BY <2>0, <3>3 DEF OnItsWay, Doomed, Queued, Underway
            <4> QED  BY <3>9, <4>1, <4>2, <4>3 DEF Ahead
        <3> QED  BY <1>2, <1>p, <2>0, <3>1, <3>3, <3>7, <3>8, <3>9
    <2> QED  BY <2>1, <2>2
<1> QED  BY <1>3, <1>4, <1>5, <1>6

\* Taking an entry of the queue: an event is taken for who may read it, and what
\* is passed over was replayed or is no event.
LEMMA LiveKeeps ==
    ASSUME RealtimeInv, NEW c \in Conns, TakeLive(c)
    PROVE  RealtimeInv'
<1> DEFINE s == conn[c]
           q == s.queue
           m == Head(q)
           hears == m.kind = "room_event" /\ m.seq > s.through
<1>a. TypeOK /\ Reached /\ PresentWhileServed  BY DEF RealtimeInv
<1>n. head \in Nat /\ faults \in Nat /\ conn \in [Conns -> ConnType] /\ entitled \in Nat
      /\ (member => entitled = head)
    BY <1>a DEF TypeOK, Reached
<1>h. LogStands /\ UNCHANGED <<token, present, jobs, wire, losses, refusals, faults, notes>>
    BY DEF TakeLive, ConnOnly, LogStands, durable, counts
<1>s. /\ s \in ConnType /\ Fit(s, head) /\ Logged(q, head) /\ s.hand <= entitled
      /\ s.cursor \in Nat /\ s.hand \in Nat /\ q \in Seq(MsgType) /\ Placed(s)
    BY ServingFacts
<1>0. s.at = "live" /\ s.hand = 0 /\ q # <<>>  BY DEF TakeLive, ConnStep
<1>l. s.page = <<>> /\ s.through = s.cursor /\ s.cursor <= head /\ (~s.sub => Doomed(s))
    BY <1>0, <1>s DEF Fit
<1>q. /\ Tail(q) \in Seq(MsgType) /\ Len(Tail(q)) = Len(q) - 1 /\ Len(q) >= 1 /\ Len(q) \in Nat
      /\ \A i \in 1 .. Len(q) - 1 : Tail(q)[i] = q[i + 1]
      /\ m = q[1] /\ m \in MsgType
    BY <1>0, <1>s
<1>d. DOMAIN q = 1 .. Len(q) /\ DOMAIN Tail(q) = 1 .. Len(q) - 1
    BY <1>q, <1>s
<1>m. InLog(m, head)
    <2>1. 1 \in DOMAIN q  BY <1>d, <1>q
    <2> QED  BY <2>1, <1>q, <1>s DEF Logged
<1>f. Logged(Tail(q), head)
    <2>1. ASSUME NEW i \in DOMAIN Tail(q)  PROVE InLog(Tail(q)[i], head)
        <3>1. i \in 1 .. Len(q) - 1 /\ i + 1 \in 1 .. Len(q)  BY <1>d, <1>q
        <3>2. InLog(q[i + 1], head)  BY <3>1, <1>d, <1>s DEF Logged
        <3> QED  BY <3>1, <3>2, <1>q
    <2> QED  BY <2>1 DEF Logged
<1>e. \A i \in DOMAIN q : q[i] = m \/ \E l \in DOMAIN Tail(q) : Tail(q)[l] = q[i]
    <2>1. ASSUME NEW i \in DOMAIN q, i # 1  PROVE \E l \in DOMAIN Tail(q) : Tail(q)[l] = q[i]
        <3>1. i - 1 \in 1 .. Len(q) - 1 /\ (i - 1) + 1 = i  BY <2>1, <1>d, <1>q
        <3>2. Tail(q)[i - 1] = q[i]  BY <3>1, <1>q
        <3> QED  BY <3>1, <3>2, <1>d
    <2> QED  BY <2>1, <1>q
<1>1. ASSUME NEW code, Closing(c, code)  PROVE RealtimeInv'
    BY <1>1, <1>0, <1>h, <1>n, ClosingStep
<1>2. ASSUME NEW x \in Nat, x <= entitled,
             conn' = [conn EXCEPT ![c] = [s EXCEPT !.queue = Tail(q), !.hand = x]], tab' = tab,
             m # Revoked, m # Resync,
             \A n \in Nat : m = EventMsg(n) => n <= s.cursor \/ x = n
      PROVE  RealtimeInv'
    <2> DEFINE r == [s EXCEPT !.queue = Tail(q), !.hand = x]
    <2>1. /\ r \in ConnType /\ r.at = "live" /\ r.queue = Tail(q) /\ r.proc = s.proc
          /\ r.cursor = s.cursor /\ r.hand = x /\ r.page = s.page /\ r.sub = s.sub
          /\ r.short = s.short /\ r.through = s.through
        BY <1>0, <1>2, <1>q, <1>s DEF ConnType
    <2>2. conn' = [conn EXCEPT ![c] = r]  BY <1>2
    <2> HIDE DEF q, m, s, r
    <2>3. Doomed(s) => Doomed(r)  BY <1>2, <1>e, <2>1 DEF Doomed, q
    <2>4. \A n \in Nat : Queued(s, n) => Queued(r, n) \/ n <= s.cursor \/ r.hand = n
        BY <1>2, <1>e, <2>1 DEF Queued, q
    <2>5. Fit(r, head)  BY <1>l, <2>1, <2>3 DEF Fit
    <2>6. \A k : Linked(k, s, head) => Linked(k, r, head)  BY <1>0, <2>1 DEF Linked
    <2>7. ASSUME NEW k, Ahead(k, s, head, jobs, wire)  PROVE Ahead(k, r, head, jobs, wire)
        <3>1. End(r) = s.cursor /\ End(s) = s.cursor /\ Tailing(s)
            BY <1>0, <2>1 DEF End, Tailing
        <3>2. ASSUME NEW n \in 1 .. head, n > s.cursor  PROVE OnItsWay(k, r, n, jobs, wire)
            <4>1. OnItsWay(k, s, n, jobs, wire)  BY <2>7, <3>1, <3>2 DEF Ahead
            <4>2. n \in Nat /\ n # 0 /\ ~(n <= s.cursor)  BY <3>2, <1>s
            <4>3. s.hand # n  BY <1>0, <4>2
            <4> QED  BY <4>1, <4>2, <4>3, <2>1, <2>3, <2>4 DEF OnItsWay, Underway
        <3> QED  BY <3>1, <3>2 DEF Ahead
    <2>8. TypeOK'
        <3>1. present' \in BOOLEAN  BY <1>a, <1>h DEF TypeOK
        <3> QED  BY <1>2, <1>h, <2>1, <2>2, <3>1, SocketTypes
    <2>9. /\ r.sub /\ ~redis => present' \/ removals > 0
          /\ present => present'
        <3>1. removals \in Nat  BY <1>a DEF TypeOK
        <3>2. s.sub /\ ~redis => present \/ removals > 0
            BY <3>1, <1>a, <1>0 DEF PresentWhileServed, s
        <3> QED  BY <3>2, <2>1, <1>h
    <2>10. Logged(r.queue, head) /\ r.hand <= entitled /\ Placed(r)
        <3>1. Logged(r.queue, head) /\ r.hand <= entitled  BY <1>2, <1>f, <2>1
        <3>2. Placed(r)  BY <1>0, <1>s, <2>1 DEF Placed
        <3> QED  BY <3>1, <3>2
    <2>11. /\ \A k : Linked(k, conn[c], head) => Linked(k, r, head)
           /\ \A k : Ahead(k, conn[c], head, jobs, wire) => Ahead(k, r, head, jobs, wire)
        BY <2>6, <2>7 DEF s
    <2> QED  BY <1>2, <1>h, <2>2, <2>5, <2>8, <2>9, <2>10, <2>11, SocketStep
<1>x. \A x : [[conn EXCEPT ![c].queue = Tail(q)] EXCEPT ![c].hand = x]
             = [conn EXCEPT ![c] = [s EXCEPT !.queue = Tail(q), !.hand = x]]
    BY <1>n
<1>y. [conn EXCEPT ![c].queue = Tail(q)] = [conn EXCEPT ![c] = [s EXCEPT !.queue = Tail(q), !.hand = 0]]
    <2>1. [s EXCEPT !.queue = Tail(q)] = [s EXCEPT !.queue = Tail(q), !.hand = 0]
        BY <1>0, <1>s DEF ConnType
    <2>2. [conn EXCEPT ![c].queue = Tail(q)] = [conn EXCEPT ![c] = [s EXCEPT !.queue = Tail(q)]]
        BY <1>n
    <2> QED  BY <2>1, <2>2
<1>3. CASE m = Revoked
    <2>1. Closing(c, 4403)  BY <1>3 DEF TakeLive, Resync, Revoked
    <2> QED  BY <2>1, <1>1
<1>4. CASE m = Resync
    <2>1. Closing(c, 4408)  BY <1>4 DEF TakeLive, Resync, Revoked
    <2> QED  BY <2>1, <1>1
<1>5. CASE hears /\ ~member
    <2>1. m # Revoked /\ m # Resync  BY <1>5 DEF Resync, Revoked
    <2>2. Closing(c, 4403)  BY <1>5, <2>1 DEF TakeLive, MayHear
    <2> QED  BY <2>2, <1>1
<1>6. CASE hears /\ member
    <2>1. m # Revoked /\ m # Resync  BY <1>6 DEF Resync, Revoked
    <2>2. conn' = [[conn EXCEPT ![c].queue = Tail(q)] EXCEPT ![c].hand = m.seq] /\ tab' = tab
        BY <1>6, <2>1 DEF TakeLive, MayHear
    <2>3. m.seq \in Nat /\ m.seq <= entitled  BY <1>6, <1>m, <1>n, <1>q DEF InLog, MsgType
    <2>4. \A n \in Nat : m = EventMsg(n) => m.seq = n  BY DEF EventMsg
    <2> QED  BY <1>2, <1>x, <2>1, <2>2, <2>3, <2>4
<1>7. CASE m # Revoked /\ m # Resync /\ ~hears
    <2>1. conn' = [conn EXCEPT ![c].queue = Tail(q)] /\ tab' = tab
        BY <1>7 DEF TakeLive
    <2>2. ASSUME NEW n \in Nat, m = EventMsg(n)  PROVE n <= s.cursor
        <3>1. m.kind = "room_event" /\ m.seq = n  BY <2>2 DEF EventMsg
        <3> QED  BY <3>1, <1>7, <1>l, <1>s
    <2>3. 0 \in Nat /\ 0 <= entitled  BY <1>n
    <2> QED  BY <1>2, <1>7, <1>y, <2>1, <2>2, <2>3
<1> QED  BY <1>3, <1>4, <1>5, <1>6, <1>7

\* A socket that is let go, at once or after Redis was told, leaves somebody shown
\* as present who has another one on the one process there is without Redis.
LEMMA ReleaseKeeps ==
    ASSUME RealtimeInv, NEW c \in Conns, Release(c) \/ LeavePresence(c)
    PROVE  RealtimeInv'
<1>a. TypeOK /\ Reached /\ Entitlement /\ AllPlaced /\ PresentWhileServed
      /\ ConnsFit /\ TabsWhole /\ AllLinked /\ AllAhead
    BY DEF RealtimeInv
<1>h. redis' = redis /\ head' = head /\ member' = member /\ token' = token /\ entitled' = entitled
      /\ jobs' = jobs /\ wire' = wire /\ losses' = losses /\ tab' = tab
      /\ removals' = removals /\ refusals' = refusals /\ faults' = faults /\ notes' = notes
    BY DEF Release, LeavePresence, ConnOnly, durable, counts
<1>n. head \in Nat /\ entitled \in Nat /\ conn \in [Conns -> ConnType]
    BY <1>a DEF TypeOK
<1>e. redis \in BOOLEAN /\ present \in BOOLEAN  BY <1>a DEF TypeOK
<1>s. conn[c] \in ConnType /\ Placed(conn[c]) /\ conn[c].at \in {"closing", "leaving"}
    BY ServingFacts DEF Release, LeavePresence, ConnStep
<1>v. IdleConn \in ConnType
    <2>1. <<>> \in Seq(MsgType) /\ <<>> \in Seq(Nat)  BY EmptySeq
    <2> QED  BY <2>1 DEF IdleConn, ConnType
<1> DEFINE away == [IdleConn EXCEPT !.at = "leaving", !.proc = conn[c].proc]
<1>w. /\ away \in ConnType /\ away.hand = 0 /\ away.page = <<>> /\ away.queue = <<>>
      /\ away.at = "leaving" /\ away.proc = conn[c].proc
    <2>1. conn[c].proc \in Procs \cup {NoProc}  BY <1>s DEF ConnType
    <2>2. IdleConn.hand = 0 /\ IdleConn.page = <<>> /\ IdleConn.queue = <<>>
        BY DEF IdleConn
    <2> QED  BY <1>v, <2>1, <2>2 DEF ConnType
<1> HIDE DEF away
<1>x. PICK r : /\ conn' = [conn EXCEPT ![c] = r]
               /\ r = IdleConn \/ (r = away /\ redis)
    BY DEF Release, LeavePresence, away
<1>i. /\ r \in ConnType /\ r.hand = 0 /\ r.page = <<>> /\ r.queue = <<>>
      /\ r.at \in {"idle", "leaving"} /\ Placed(r)
    <2>1. CASE r = IdleConn
        <3>1. r.hand = 0 /\ r.page = <<>> /\ r.queue = <<>> /\ r.at = "idle"
            BY <2>1 DEF IdleConn
        <3> QED  BY <2>1, <3>1, <1>v DEF Placed
    <2>2. CASE r = away /\ redis  BY <2>2, <1>w, <1>s DEF Placed
    <2> QED  BY <1>x, <2>1, <2>2
<1>d. /\ conn' \in [Conns -> ConnType] /\ conn'[c] = r
      /\ \A d \in Conns : d # c => conn'[d] = conn[d]
    BY <1>i, <1>n, <1>x
<1>q. present' \in BOOLEAN /\ (~redis => present' = (present /\ ~LastSocket(c)))
    <2>1. CASE Release(c)
        <3>1. present' = (present /\ (redis \/ ~LastSocket(c)))  BY <2>1 DEF Release
        <3>2. present' \in BOOLEAN  BY <3>1
        <3>3. ~redis => present' = (present /\ ~LastSocket(c))
            BY <3>1 DEF LastSocket
        <3> QED  BY <3>2, <3>3
    <2>2. CASE LeavePresence(c)
        <3>1. redis  BY <2>2, <1>s DEF LeavePresence, ConnStep, Placed
        <3> QED  BY <2>2, <3>1, <1>e DEF LeavePresence
    <2> QED  BY <2>1, <2>2
<1>o. \A t \in Tabs : tab[t].conn # c
    BY <1>a, <1>s DEF AllLinked, Linked
<1>0. TypeOK'
    BY <1>a, <1>h, <1>d, <1>q DEF TypeOK
<1>1. Reached'
    <2>1. Logged(r.queue, head)  BY <1>i DEF Logged
    <2>2. \A d \in Conns : Logged(conn'[d].queue, head)  BY <1>a, <1>d, <2>1 DEF Reached
    <2> QED  BY <1>a, <1>h, <2>2 DEF Reached
<1>2. Entitlement'
    <2>1. \A d \in Conns : conn'[d].hand <= entitled  BY <1>a, <1>d, <1>i, <1>n DEF Entitlement
    <2> QED  BY <2>1, <1>a, <1>h DEF Entitlement
<1>r0. removals \in Nat  BY <1>a DEF TypeOK
<1>3. PresentWhileServed'
    <2> SUFFICES ASSUME NEW d \in Conns, conn'[d].at \in {"replaying", "live"}, conn'[d].sub, ~redis
                 PROVE  present' \/ removals > 0
        BY <1>h, <1>r0 DEF PresentWhileServed
    <2>1. d # c /\ conn'[d] = conn[d]  BY <1>d, <1>i
    <2>2. present \/ removals > 0  BY <2>1, <1>a, <1>r0 DEF PresentWhileServed
    <2>3. conn[d].proc = conn[c].proc
        BY <2>1, <1>a, <1>s DEF AllPlaced, Placed, Serving
    <2>4. d \in SubsOn(conn[c].proc) \ {c}  BY <2>1, <2>3 DEF SubsOn
    <2>5. ~LastSocket(c)  BY <2>4 DEF LastSocket
    <2> QED  BY <2>2, <2>5, <1>q
<1>4. ConnsFit'
    <2>1. Fit(r, head)  BY <1>i DEF Fit
    <2> QED  BY <1>a, <1>d, <1>h, <2>1 DEF ConnsFit
<1>5. TabsWhole'  BY <1>a, <1>h DEF TabsWhole
<1>6. AllLinked'  BY <1>a, <1>h, <1>d, <1>o DEF AllLinked
<1>7. AllAhead'  BY <1>a, <1>h, <1>d, <1>o DEF AllAhead
<1>p. AllPlaced'  BY <1>a, <1>h, <1>d, <1>i DEF AllPlaced, Placed, Serving
<1> QED  BY <1>0, <1>1, <1>2, <1>3, <1>p, <1>4, <1>5, <1>6, <1>7 DEF RealtimeInv

\* A process that dies takes its sockets along, and the messages to it; if it takes
\* a handler along that is a loss.
LEMMA CrashKeeps ==
    ASSUME RealtimeInv, NEW p \in Procs, CrashProcess(p)
    PROVE  RealtimeInv'
<1>a. TypeOK /\ Reached /\ Entitlement /\ AllPlaced /\ PresentWhileServed
      /\ ConnsFit /\ TabsWhole /\ AllLinked /\ AllAhead
    BY DEF RealtimeInv
<1>h. redis' = redis /\ head' = head /\ member' = member /\ token' = token /\ entitled' = entitled
      /\ removals' = removals /\ refusals' = refusals /\ notes' = notes
      /\ jobs' = { j \in jobs : j.proc # p } /\ wire' = { w \in wire : w.to # p }
      /\ present' = (present /\ redis) /\ p \in Serving
    BY DEF CrashProcess, durable
<1>n. head \in Nat /\ entitled \in Nat /\ conn \in [Conns -> ConnType] /\ tab \in [Tabs -> TabType]
    BY <1>a DEF TypeOK
<1>i. /\ IdleConn \in ConnType /\ IdleConn.hand = 0 /\ IdleConn.page = <<>>
      /\ IdleConn.queue = <<>> /\ IdleConn.at = "idle"
    <2>1. <<>> \in Seq(MsgType) /\ <<>> \in Seq(Nat)  BY EmptySeq
    <2> QED  BY <2>1 DEF IdleConn, ConnType
<1>d. /\ conn' \in [Conns -> ConnType]
      /\ \A d \in Conns : conn'[d] = IF conn[d].proc = p THEN IdleConn ELSE conn[d]
    BY <1>i, <1>n DEF CrashProcess
<1>t. ASSUME NEW t \in Tabs
      PROVE  /\ tab'[t] \in TabType /\ Whole(tab'[t], head) /\ Told(tab'[t], entitled)
             /\ tab'[t].conn \in Conns =>
                    tab'[t] = tab[t] /\ conn'[tab[t].conn] = conn[tab[t].conn]
                    /\ conn[tab[t].conn].proc # p
    <2>0. tab'[t] = IF tab[t].conn # NoConn /\ conn[tab[t].conn].proc = p
                    THEN AfterClose(tab[t], 1006) ELSE tab[t]
        BY DEF CrashProcess
    <2>1. tab[t] \in TabType /\ Whole(tab[t], head) /\ Told(tab[t], entitled)
        BY <1>a, <1>n DEF TabsWhole, Entitlement
    <2>2. CASE tab[t].conn # NoConn /\ conn[tab[t].conn].proc = p
        <3>1. /\ AfterClose(tab[t], 1006) \in TabType /\ AfterClose(tab[t], 1006).conn = NoConn
              /\ Whole(AfterClose(tab[t], 1006), head) /\ Told(AfterClose(tab[t], 1006), entitled)
            BY <2>1, <1>n, ClosedWhole
        <3> QED  BY <2>0, <2>2, <3>1, RealtimeAssumption
    <2>3. CASE ~(tab[t].conn # NoConn /\ conn[tab[t].conn].proc = p)
        BY <2>0, <2>1, <2>3, <1>d, RealtimeAssumption
    <2> QED  BY <2>2, <2>3
<1>l. losses' \in Nat /\ (losses' = 0 => losses = 0 /\ jobs' = jobs)
    <2>1. losses \in Nat  BY <1>a DEF TypeOK
    <2>2. CASE \E j \in jobs : j.proc = p  BY <2>1, <2>2 DEF CrashProcess
    <2>3. CASE ~\E j \in jobs : j.proc = p
        <3>1. losses' = losses  BY <2>3 DEF CrashProcess
        <3> QED  BY <2>1, <2>3, <3>1, <1>h
    <2> QED  BY <2>2, <2>3
<1>0. TypeOK'
    <2>1. tab' \in [Tabs -> TabType]
        <3>1. \A t \in Tabs : tab'[t] \in TabType  BY <1>t
        <3> QED  BY <3>1 DEF CrashProcess
    <2>2. faults' \in Nat  BY <1>a DEF TypeOK, CrashProcess
    <2>3. jobs' \in SUBSET JobType /\ wire' \in SUBSET [to : Procs, msg : MsgType]
          /\ present' \in BOOLEAN
        BY <1>a, <1>h DEF TypeOK
    <2> QED  BY <1>a, <1>h, <1>d, <1>l, <2>1, <2>2, <2>3 DEF TypeOK
<1>1. Reached'
    <2>1. Logged(IdleConn.queue, head)  BY <1>i DEF Logged
    <2>2. \A d \in Conns : Logged(conn'[d].queue, head)  BY <1>a, <1>d, <2>1 DEF Reached
    <2> QED  BY <1>a, <1>h, <2>2 DEF Reached
<1>2. Entitlement'
    <2>1. \A d \in Conns : conn'[d].hand <= entitled  BY <1>a, <1>d, <1>i, <1>n DEF Entitlement
    <2> QED  BY <2>1, <1>t, <1>h DEF Entitlement
<1>r0. removals \in Nat  BY <1>a DEF TypeOK
<1>3. PresentWhileServed'
    <2> SUFFICES ASSUME NEW d \in Conns, conn'[d].at \in {"replaying", "live"}, conn'[d].sub, ~redis
                 PROVE  present' \/ removals > 0
        BY <1>h, <1>r0 DEF PresentWhileServed
    <2>1. conn[d].proc # p /\ conn'[d] = conn[d]  BY <1>d, <1>i
    <2>2. conn[d].proc = Alone /\ p = Alone
        BY <2>1, <1>a, <1>h DEF AllPlaced, Placed, Serving
    <2> QED  BY <2>1, <2>2
<1>4. ConnsFit'
    <2>1. Fit(IdleConn, head)  BY <1>i DEF Fit
    <2> QED  BY <1>a, <1>d, <1>h, <2>1 DEF ConnsFit
<1>5. TabsWhole'  BY <1>t, <1>h DEF TabsWhole
<1>6. AllLinked'  BY <1>a, <1>h, <1>t DEF AllLinked
<1>7. AllAhead'
    <2> SUFFICES ASSUME losses' = 0, NEW t \in Tabs, tab'[t].conn \in Conns
                 PROVE  Ahead(tab[t], conn[tab[t].conn], head, jobs', wire')
        BY <1>t, <1>h DEF AllAhead
    <2> DEFINE s == conn[tab[t].conn]
    <2>1. tab[t].conn \in Conns /\ s.proc # p  BY <1>t
    <2>2. Ahead(tab[t], s, head, jobs, wire)  BY <1>a, <1>l, <2>1 DEF AllAhead
    <2>3. \A n : Underway(s, n, jobs, wire) => Underway(s, n, jobs', wire')
        <3>1. \A w \in wire : w.to = s.proc => w \in wire'  BY <1>h, <2>1
        <3>2. \A n : [to |-> s.proc, msg |-> EventMsg(n)].to = s.proc  OBVIOUS
        <3> QED  BY <1>l, <3>1, <3>2 DEF Underway
    <2> HIDE DEF s
    <2>4. Ahead(tab[t], s, head, jobs', wire')  BY <2>2, <2>3 DEF Ahead, OnItsWay
    <2> QED  BY <2>4 DEF s
<1>p. AllPlaced'  BY <1>a, <1>h, <1>d, <1>i DEF AllPlaced, Placed, Serving
<1> QED  BY <1>0, <1>1, <1>2, <1>3, <1>p, <1>4, <1>5, <1>6, <1>7 DEF RealtimeInv

-----------------------------------------------------------------------------
(* The steps of the hub, of the room and of the faults.                       *)

\* A socket to which nothing is delivered is as full as it was.
LEMMA FullerSelf ==
    ASSUME NEW s \in ConnType, NEW h, Logged(s.queue, h)
    PROVE  Fuller(s, s, h)
<1>1. s = [s EXCEPT !.queue = s.queue, !.sub = s.sub]  BY DEF ConnType
<1> QED  BY <1>1 DEF Fuller

\* Delivering a message on a process fills the queues of the sockets subscribed
\* there, and only those; nobody's subscription changes.
LEMMA DeliverFills ==
    ASSUME RealtimeInv, NEW p, NEW m \in MsgType, InLog(m, head), Deliver(p, m)
    PROVE  /\ conn' \in [Conns -> ConnType]
           /\ \A c \in Conns :
                  /\ Fuller(conn[c], conn'[c], head)
                  /\ \A n \in Nat : conn[c].sub /\ conn[c].proc = p /\ m = EventMsg(n)
                                    => Queued(conn'[c], n) \/ Doomed(conn'[c])
<1>n. head \in Nat  BY DEF RealtimeInv, TypeOK
<1>1. ASSUME NEW c \in Conns
      PROVE  /\ conn'[c] \in ConnType /\ Fuller(conn[c], conn'[c], head)
             /\ \A n \in Nat : conn[c].sub /\ conn[c].proc = p /\ m = EventMsg(n)
                               => Queued(conn'[c], n) \/ Doomed(conn'[c])
    <2>1. conn[c] \in ConnType /\ Logged(conn[c].queue, head)  BY ServingFacts
    <2>2. conn'[c] = IF c \in SubsOn(p) THEN [conn[c] EXCEPT !.queue = Put(@, m)] ELSE conn[c]
        BY DEF Deliver
    <2>3. CASE c \in SubsOn(p)
        <3> DEFINE r == [conn[c] EXCEPT !.queue = Put(@, m)]
        <3>1. /\ r \in ConnType /\ Fuller(conn[c], r, head)
              /\ \A n \in Nat : m = EventMsg(n) => Queued(r, n) \/ Doomed(r)
            BY <2>1, <1>n, PutFuller
        <3>2. conn'[c] = r  BY <2>2, <2>3
        <3> HIDE DEF r
        <3> QED  BY <3>1, <3>2
    <2>4. CASE c \notin SubsOn(p)
        <3>1. conn'[c] = conn[c] /\ ~(conn[c].sub /\ conn[c].proc = p)
            BY <2>2, <2>4 DEF SubsOn
        <3> QED  BY <3>1, <2>1, FullerSelf
    <2> QED  BY <2>3, <2>4
<1>2. conn' \in [Conns -> ConnType]
    <2>1. \A c \in Conns : conn'[c] \in ConnType  BY <1>1
    <2> QED  BY <2>1 DEF Deliver
<1> QED  BY <1>1, <1>2

\* Revoking an access on a process dooms the sockets subscribed there.
LEMMA RevokeFills ==
    ASSUME RealtimeInv, NEW p, RevokeAccess(p)
    PROVE  /\ conn' \in [Conns -> ConnType]
           /\ \A c \in Conns : Fuller(conn[c], conn'[c], head)
<1>n. head \in Nat  BY DEF RealtimeInv, TypeOK
<1>m. Revoked \in MsgType /\ InLog(Revoked, head)  BY DEF Revoked, MsgType, InLog
<1>1. ASSUME NEW c \in Conns
      PROVE  conn'[c] \in ConnType /\ Fuller(conn[c], conn'[c], head)
    <2>1. conn[c] \in ConnType /\ Logged(conn[c].queue, head)  BY ServingFacts
    <2>2. conn'[c] = IF c \in SubsOn(p)
                     THEN [conn[c] EXCEPT !.sub = FALSE, !.queue = Put(@, Revoked)] ELSE conn[c]
        BY DEF RevokeAccess
    <2>3. CASE c \in SubsOn(p)
        <3> DEFINE r == [conn[c] EXCEPT !.sub = FALSE, !.queue = Put(@, Revoked)]
        <3>1. r \in ConnType /\ Fuller(conn[c], r, head)  BY <2>1, <1>n, <1>m, PutFuller
        <3>2. conn'[c] = r  BY <2>2, <2>3
        <3> HIDE DEF r
        <3> QED  BY <3>1, <3>2
    <2>4. CASE c \notin SubsOn(p)  BY <2>1, <2>2, <2>4, FullerSelf
    <2> QED  BY <2>3, <2>4
<1>2. conn' \in [Conns -> ConnType]
    <2>1. \A c \in Conns : conn'[c] \in ConnType  BY <1>1
    <2> QED  BY <2>1 DEF RevokeAccess
<1> QED  BY <1>1, <1>2

\* Publishing puts a message under way to every other process, or counts a loss.
LEMMA PublishFacts ==
    ASSUME TypeOK, NEW p, NEW m \in MsgType, Publish(p, m), NEW h,
           InLog(m, h), \A w \in wire : InLog(w.msg, h)
    PROVE  /\ wire' \in SUBSET [to : Procs, msg : MsgType] /\ losses' \in Nat
           /\ \A w \in wire' : InLog(w.msg, h)
           /\ wire \subseteq wire'
           /\ losses' = 0 => losses = 0 /\ \A q \in Serving \ {p} : [to |-> q, msg |-> m] \in wire'
<1>s. Serving \subseteq Procs  BY RealtimeAssumption DEF Serving
<1>n. losses \in Nat /\ wire \in SUBSET [to : Procs, msg : MsgType]  BY DEF TypeOK
<1>1. CASE wire' = wire \cup { [to |-> q, msg |-> m] : q \in Serving \ {p} } /\ losses' = losses
    <2>1. \A q \in Serving \ {p} : [to |-> q, msg |-> m] \in [to : Procs, msg : MsgType]
        BY <1>s
    <2>2. \A w \in wire' : w \in wire \/ \E q \in Serving \ {p} : w = [to |-> q, msg |-> m]
        BY <1>1
    <2>3. \A w \in wire' : InLog(w.msg, h)  BY <2>2
    <2>4. wire' \in SUBSET [to : Procs, msg : MsgType]  BY <1>n, <2>1, <2>2
    <2> QED  BY <1>1, <1>n, <2>3, <2>4
<1>2. CASE losses' = losses + 1 /\ wire' = wire  BY <1>2, <1>n
<1> QED  BY <1>1, <1>2 DEF Publish

\* A message of the fan-out comes to the sockets of its process, or is lost.
LEMMA WireKeeps ==
    ASSUME RealtimeInv, NEW w \in wire, Receive(w) \/ Dropped(w)
    PROVE  RealtimeInv'
<1>a. TypeOK /\ Reached  BY DEF RealtimeInv
<1>n. head \in Nat /\ losses \in Nat /\ removals \in Nat  BY <1>a DEF TypeOK
<1>h. LogStands /\ UNCHANGED <<token, present, jobs, tab, refusals, faults, notes>>
      /\ wire' = wire \ {w}
    BY DEF Receive, Dropped, LogStands, durable, counts
<1>w. w.msg \in MsgType /\ InLog(w.msg, head) /\ w.to \in Procs /\ w = [to |-> w.to, msg |-> w.msg]
    BY <1>a DEF TypeOK, Reached
<1>j. WorkInLog(jobs', wire', head, removals)
    BY <1>a, <1>h DEF Reached, WorkInLog
<1>1. ASSUME losses' \in Nat, conn' \in [Conns -> ConnType]  PROVE TypeOK'
    BY <1>1, <1>a, <1>h DEF TypeOK, LogStands
<1>2. CASE Dropped(w)
    <2>1. conn' = conn /\ losses' = losses + 1  BY <1>2 DEF Dropped
    <2>2. TypeOK'  BY <1>1, <1>a, <1>n, <2>1 DEF TypeOK
    <2>3. \A c \in Conns : Fuller(conn[c], conn'[c], head)
        <3>1. \A c \in Conns : conn[c] \in ConnType /\ Logged(conn[c].queue, head)
            BY ServingFacts
        <3> QED  BY <3>1, <2>1, FullerSelf
    <2>4. losses' # 0  BY <2>1, <1>n
    <2> QED  BY <1>h, <1>j, <2>2, <2>3, <2>4, QueueStep
<1>3. CASE Receive(w)
    <2>0. losses' = losses  BY <1>3 DEF Receive, counts
    <2>1. conn' \in [Conns -> ConnType] /\ (\A c \in Conns : Fuller(conn[c], conn'[c], head))
          /\ \A c \in Conns, n \in Nat : conn[c].sub /\ conn[c].proc = w.to /\ w.msg = EventMsg(n)
                                         => Queued(conn'[c], n) \/ Doomed(conn'[c])
        <3>1. CASE w.msg = Revoked
            <4>1. RevokeAccess(w.to)  BY <1>3, <3>1 DEF Receive
            <4>2. \A n : w.msg # EventMsg(n)  BY <3>1 DEF EventMsg, Revoked
            <4> QED  BY <4>1, <4>2, RevokeFills
        <3>2. CASE w.msg # Revoked
            <4>1. Deliver(w.to, w.msg)  BY <1>3, <3>2 DEF Receive
            <4> QED  BY <4>1, <1>w, DeliverFills
        <3> QED  BY <3>1, <3>2
    <2>2. TypeOK'  BY <1>1, <1>n, <2>0, <2>1
    <2>3. ASSUME NEW c \in Conns, NEW n \in 1 .. head, conn[c].sub,
                 Underway(conn[c], n, jobs, wire)
          PROVE  \/ Underway(conn'[c], n, jobs', wire')
                 \/ Queued(conn'[c], n) \/ Doomed(conn'[c])
        <3>0. n \in Nat /\ conn'[c].proc = conn[c].proc
            <4>0. n \in Nat  OBVIOUS
            <4>1. conn[c] \in ConnType  BY <1>a DEF TypeOK
            <4>2. Fuller(conn[c], conn'[c], head)  BY <2>1
            <4>3. conn'[c].proc = conn[c].proc  BY <4>1, <4>2 DEF Fuller, ConnType
            <4> QED  BY <4>0, <4>3
        <3>1. CASE \E j \in jobs : j.seq = n /\ j.todo # "left"
            BY <3>1, <1>h DEF Underway
        <3>2. CASE [to |-> conn[c].proc, msg |-> EventMsg(n)] \in wire
            <4>1. CASE w = [to |-> conn[c].proc, msg |-> EventMsg(n)]
                <5>1. w.to = conn[c].proc /\ w.msg = EventMsg(n)  BY <4>1
                <5> QED  BY <5>1, <2>1, <2>3, <3>0
            <4>2. CASE w # [to |-> conn[c].proc, msg |-> EventMsg(n)]
                BY <3>0, <3>2, <4>2, <1>h DEF Underway
            <4> QED  BY <4>1, <4>2
        <3> QED  BY <2>3, <3>1, <3>2 DEF Underway
    <2> QED  BY <1>h, <1>j, <2>0, <2>1, <2>2, <2>3, QueueStep
<1> QED  BY <1>2, <1>3

\* A handler revokes, then broadcasts; a user is sent a note; a socket's beat
\* revokes.  Who was to hear of an event has it queued or under way.
LEMMA RevokeJobKeeps ==
    ASSUME RealtimeInv, NEW j \in jobs, RevokeJob(j)
    PROVE  RealtimeInv'
<1>a. TypeOK /\ Reached  BY DEF RealtimeInv
<1>h. LogStands /\ UNCHANGED <<token, present, tab, refusals, faults, notes>>
      /\ jobs' = (jobs \ {j}) \cup {[j EXCEPT !.todo = "event"]} /\ j.todo = "revoke"
    BY DEF RevokeJob, LogStands, durable
<1>j. j \in JobType /\ j.seq >= 1 /\ j.seq <= head /\ (j.removal => removals > 0)
    BY <1>a DEF TypeOK, Reached
<1>i. /\ [j EXCEPT !.todo = "event"] \in JobType /\ [j EXCEPT !.todo = "event"].seq = j.seq
      /\ [j EXCEPT !.todo = "event"].todo = "event"
      /\ [j EXCEPT !.todo = "event"].removal = j.removal
    BY <1>j DEF JobType
<1>m. Revoked \in MsgType /\ InLog(Revoked, head)  BY DEF Revoked, MsgType, InLog
<1>c. conn' \in [Conns -> ConnType] /\ \A c \in Conns : Fuller(conn[c], conn'[c], head)
    BY RevokeFills DEF RevokeJob
<1>p. /\ wire' \in SUBSET [to : Procs, msg : MsgType] /\ losses' \in Nat
      /\ \A w \in wire' : InLog(w.msg, head)
      /\ wire \subseteq wire' /\ (losses' = 0 => losses = 0)
    <2>1. j.proc \in Procs /\ \A w \in wire : InLog(w.msg, head)
        BY <1>a, <1>j DEF Reached, JobType
    <2>2. Publish(j.proc, Revoked)  BY DEF RevokeJob
    <2> QED  BY <2>1, <2>2, <1>a, <1>m, PublishFacts
<1>1. TypeOK'
    <2>1. jobs' \in SUBSET JobType  BY <1>a, <1>h, <1>i DEF TypeOK
    <2> QED  BY <1>a, <1>h, <1>c, <1>p, <2>1 DEF TypeOK, LogStands
<1>2. WorkInLog(jobs', wire', head, removals)
    BY <1>a, <1>h, <1>i, <1>j, <1>p DEF WorkInLog, Reached
<1>3. ASSUME NEW c \in Conns, NEW n, Underway(conn[c], n, jobs, wire)
      PROVE  Underway(conn'[c], n, jobs', wire')
    <2>1. conn'[c].proc = conn[c].proc
        <3>1. conn[c] \in ConnType  BY <1>a DEF TypeOK
        <3> QED  BY <1>c, <3>1 DEF Fuller, ConnType
    <2>2. CASE \E i \in jobs : i.seq = n /\ i.todo # "left"
        <3>1. PICK i \in jobs : i.seq = n /\ i.todo # "left"  BY <2>2
        <3>2. CASE i = j
            <4>1. [j EXCEPT !.todo = "event"] \in jobs'  BY <1>h
            <4> QED  BY <3>1, <3>2, <4>1, <1>i DEF Underway
        <3>3. CASE i # j
            <4>1. i \in jobs'  BY <3>3, <1>h
            <4> QED  BY <3>1, <4>1 DEF Underway
        <3> QED  BY <3>2, <3>3
    <2>3. CASE [to |-> conn[c].proc, msg |-> EventMsg(n)] \in wire
        BY <2>1, <2>3, <1>p DEF Underway
    <2> QED  BY <1>3, <2>2, <2>3 DEF Underway
<1> QED  BY <1>h, <1>c, <1>p, <1>1, <1>2, <1>3, QueueStep

\* An event that is broadcast is in the queues of the process, or doomed them, and
\* under way to every other process.
LEMMA BroadcastKeeps ==
    ASSUME RealtimeInv, NEW j \in jobs, BroadcastJob(j)
    PROVE  RealtimeInv'
<1> DEFINE left == [j EXCEPT !.todo = "left"]
<1>a. TypeOK /\ Reached  BY DEF RealtimeInv
<1>h. LogStands /\ UNCHANGED <<token, present, tab, refusals, faults, notes>>
      /\ jobs' = (jobs \ {j}) \cup (IF j.removal THEN {left} ELSE {}) /\ j.todo = "event"
    BY DEF BroadcastJob, LogStands, durable
<1>j. j \in JobType /\ j.seq >= 1 /\ j.seq <= head /\ (j.removal => removals > 0)
      /\ j.seq \in Nat /\ j.proc \in Procs
    BY <1>a DEF TypeOK, Reached, JobType
<1>i. left \in JobType /\ left.seq = j.seq /\ left.todo = "left" /\ left.removal = j.removal
    BY <1>j DEF JobType
<1> HIDE DEF left
<1>m. EventMsg(j.seq) \in MsgType /\ InLog(EventMsg(j.seq), head)
    BY <1>j DEF EventMsg, MsgType, InLog
<1>c. /\ conn' \in [Conns -> ConnType] /\ \A c \in Conns : Fuller(conn[c], conn'[c], head)
      /\ \A c \in Conns : conn[c].sub /\ conn[c].proc = j.proc
                          => Queued(conn'[c], j.seq) \/ Doomed(conn'[c])
    <2>1. Deliver(j.proc, EventMsg(j.seq))  BY DEF BroadcastJob
    <2>2. /\ conn' \in [Conns -> ConnType]
          /\ \A c \in Conns :
                  /\ Fuller(conn[c], conn'[c], head)
                  /\ \A n \in Nat : conn[c].sub /\ conn[c].proc = j.proc
                                    /\ EventMsg(j.seq) = EventMsg(n)
                                    => Queued(conn'[c], n) \/ Doomed(conn'[c])
        BY <2>1, <1>m, DeliverFills
    <2> QED  BY <2>2, <1>j
<1>p. /\ wire' \in SUBSET [to : Procs, msg : MsgType] /\ losses' \in Nat
      /\ \A w \in wire' : InLog(w.msg, head)
      /\ wire \subseteq wire'
      /\ losses' = 0 => /\ losses = 0
                        /\ \A q \in Serving \ {j.proc} : [to |-> q, msg |-> EventMsg(j.seq)] \in wire'
    <2>1. \A w \in wire : InLog(w.msg, head)  BY <1>a DEF Reached
    <2>2. Publish(j.proc, EventMsg(j.seq))  BY DEF BroadcastJob
    <2> QED  BY <2>1, <2>2, <1>a, <1>j, <1>m, PublishFacts
<1>1. TypeOK'
    <2>1. jobs' \in SUBSET JobType  BY <1>a, <1>h, <1>i DEF TypeOK
    <2> QED  BY <1>a, <1>h, <1>c, <1>p, <2>1 DEF TypeOK, LogStands
<1>2. WorkInLog(jobs', wire', head, removals)
    BY <1>a, <1>h, <1>i, <1>j, <1>p DEF WorkInLog, Reached
<1>3. ASSUME losses' = 0, NEW c \in Conns, NEW n \in 1 .. head, conn[c].sub,
             conn[c].proc \in Serving, Underway(conn[c], n, jobs, wire)
      PROVE  \/ Underway(conn'[c], n, jobs', wire')
             \/ Queued(conn'[c], n) \/ Doomed(conn'[c])
    <2>1. conn'[c].proc = conn[c].proc
        <3>1. conn[c] \in ConnType  BY <1>a DEF TypeOK
        <3> QED  BY <1>c, <3>1 DEF Fuller, ConnType
    <2>2. CASE \E i \in jobs : i.seq = n /\ i.todo # "left"
        <3>1. PICK i \in jobs : i.seq = n /\ i.todo # "left"  BY <2>2
        <3>2. CASE i = j
            <4>1. CASE conn[c].proc = j.proc  BY <4>1, <3>1, <3>2, <1>3, <1>c
            <4>2. CASE conn[c].proc # j.proc
                <5>1. [to |-> conn[c].proc, msg |-> EventMsg(j.seq)] \in wire'
                    BY <4>2, <1>3, <1>p
                <5> QED  BY <5>1, <3>1, <3>2, <2>1 DEF Underway
            <4> QED  BY <4>1, <4>2
        <3>3. CASE i # j
            <4>1. i \in jobs'  BY <3>3, <1>h
            <4> QED  BY <3>1, <4>1 DEF Underway
        <3> QED  BY <3>2, <3>3
    <2>3. CASE [to |-> conn[c].proc, msg |-> EventMsg(n)] \in wire
        BY <2>1, <2>3, <1>p DEF Underway
    <2> QED  BY <1>3, <2>2, <2>3 DEF Underway
<1> QED  BY <1>h, <1>c, <1>p, <1>1, <1>2, <1>3, QueueStep

\* A note fills queues; a beat that finds the member gone revokes, one that finds
\* the credential gone closes; a drop closes.
LEMMA BeatsKeep ==
    ASSUME RealtimeInv,
           \/ \E p \in Procs : SendToUser(p)
           \/ \E c \in Conns : Reauthenticate(c) \/ Drop(c)
    PROVE  RealtimeInv'
<1>a. TypeOK /\ Reached  BY DEF RealtimeInv
<1>n. head \in Nat /\ losses \in Nat /\ notes \in Nat /\ faults \in Nat  BY <1>a DEF TypeOK
<1>1. ASSUME LogStands, UNCHANGED <<token, present, jobs, tab, refusals, faults>>,
             conn' \in [Conns -> ConnType], \A c \in Conns : Fuller(conn[c], conn'[c], head),
             wire' \in SUBSET [to : Procs, msg : MsgType], losses' \in Nat, notes' \in Nat,
             \A w \in wire' : InLog(w.msg, head),
             wire \subseteq wire', losses' = 0 => losses = 0
      PROVE  RealtimeInv'
    <2>1. TypeOK'  BY <1>1, <1>a DEF TypeOK, LogStands
    <2>2. WorkInLog(jobs', wire', head, removals)  BY <1>1, <1>a DEF WorkInLog, Reached
    <2>3. ASSUME NEW c \in Conns, NEW n, Underway(conn[c], n, jobs, wire)
          PROVE  Underway(conn'[c], n, jobs', wire')
        <3>1. conn'[c].proc = conn[c].proc
            <4>1. conn[c] \in ConnType  BY <1>a DEF TypeOK
            <4>2. Fuller(conn[c], conn'[c], head)  BY <1>1
            <4> QED  BY <4>1, <4>2 DEF Fuller, ConnType
        <3> QED  BY <3>1, <2>3, <1>1 DEF Underway
    <2> QED  BY <1>1, <2>1, <2>2, <2>3, QueueStep
<1>2. ASSUME NEW p \in Procs, SendToUser(p)  PROVE RealtimeInv'
    <2>1. Note \in MsgType /\ InLog(Note, head)  BY DEF Note, MsgType, InLog
    <2>2. conn' \in [Conns -> ConnType] /\ \A c \in Conns : Fuller(conn[c], conn'[c], head)
        BY <1>2, <2>1, DeliverFills DEF SendToUser
    <2>3. LogStands /\ UNCHANGED <<token, present, jobs, tab, refusals, faults, wire, losses>>
          /\ notes' \in Nat
        BY <1>2, <1>n DEF SendToUser, LogStands, durable
    <2>4. wire' \in SUBSET [to : Procs, msg : MsgType] /\ \A w \in wire' : InLog(w.msg, head)
        BY <1>a, <2>3 DEF TypeOK, Reached
    <2> QED  BY <1>1, <1>n, <2>2, <2>3, <2>4
<1>3. ASSUME NEW c \in Conns, Drop(c)  PROVE RealtimeInv'
    <2>1. LogStands /\ UNCHANGED <<token, present, jobs, wire, losses, refusals, notes>>
          /\ faults' \in Nat /\ Closing(c, 1006) /\ conn[c].at # "idle"
        BY <1>3, <1>n DEF Drop, LogStands, durable
    <2> QED  BY <2>1, ClosingStep
<1>4. ASSUME NEW c \in Conns, Reauthenticate(c)  PROVE RealtimeInv'
    <2>0. LogStands /\ UNCHANGED <<token, present, jobs, refusals, faults, notes>>
          /\ conn[c].at # "idle"
        BY <1>4 DEF Reauthenticate, ConnStep, LogStands, durable
    <2>1. CASE Closing(c, 4401) /\ UNCHANGED <<wire, losses>>
        BY <2>0, <2>1, <1>n, ClosingStep
    <2>2. CASE Rechecks(c) /\ RevokeAccess(conn[c].proc) /\ Publish(conn[c].proc, Revoked)
               /\ tab' = tab
        <3>1. conn' \in [Conns -> ConnType] /\ \A d \in Conns : Fuller(conn[d], conn'[d], head)
            BY <2>2, RevokeFills
        <3>2. Revoked \in MsgType /\ InLog(Revoked, head)  BY DEF Revoked, MsgType, InLog
        <3>4. \A w \in wire : InLog(w.msg, head)  BY <1>a DEF Reached
        <3>5. /\ wire' \in SUBSET [to : Procs, msg : MsgType] /\ losses' \in Nat
              /\ \A w \in wire' : InLog(w.msg, head)
              /\ wire \subseteq wire' /\ (losses' = 0 => losses = 0)
            BY <2>2, <3>2, <3>4, <1>a, PublishFacts
        <3>6. notes' \in Nat  BY <2>0, <1>n
        <3> QED  BY <1>1, <2>0, <2>2, <3>1, <3>5, <3>6
    <2> QED  BY <1>4, <2>1, <2>2 DEF Reauthenticate
<1> QED  BY <1>2, <1>3, <1>4

\* Presence is cleared only after a removal, or runs out in Redis; a credential is
\* revoked.
LEMMA QuietKeeps ==
    ASSUME RealtimeInv, RevokeToken \/ PresenceLapses \/ \E j \in jobs : PresenceJob(j)
    PROVE  RealtimeInv'
<1>a. TypeOK /\ Reached /\ Entitlement /\ AllPlaced /\ PresentWhileServed
      /\ ConnsFit /\ TabsWhole /\ AllLinked /\ AllAhead
    BY DEF RealtimeInv
<1>1. CASE RevokeToken
    <2>1. LogStands /\ UNCHANGED <<jobs, wire, present, conn, tab, losses, refusals, notes>>
          /\ faults' = faults + 1 /\ token' = FALSE
        BY <1>1 DEF RevokeToken, LogStands
    <2>2. TypeOK'
        <3>0. faults \in Nat  BY <1>a DEF TypeOK
        <3>1. faults' \in Nat  BY <2>1, <3>0
        <3>2. token' \in BOOLEAN  BY <2>1
        <3> QED  BY <1>a, <2>1, <3>1, <3>2 DEF TypeOK, LogStands
    <2>3. Reached' /\ Entitlement' /\ AllPlaced' /\ PresentWhileServed'
        BY <1>a, <2>1 DEF Reached, Entitlement, AllPlaced, Placed, Serving, PresentWhileServed, LogStands
    <2>4. ConnsFit' /\ TabsWhole' /\ AllLinked' /\ AllAhead'
        BY <1>a, <2>1 DEF ConnsFit, TabsWhole, AllLinked, AllAhead, LogStands
    <2> QED  BY <2>2, <2>3, <2>4 DEF RealtimeInv
<1>2. ASSUME NEW j \in jobs, PresenceJob(j)  PROVE RealtimeInv'
    <2>1. LogStands /\ UNCHANGED <<token, wire, conn, tab, losses, refusals, faults, notes>>
          /\ present' = FALSE /\ jobs' = jobs \ {j} /\ j.todo = "left"
        BY <1>2 DEF PresenceJob, LogStands, durable, counts
    <2>2. TypeOK'  BY <1>a, <2>1 DEF TypeOK, LogStands
    <2>3. removals > 0  BY <1>a, <1>2, <2>1 DEF Reached
    <2>4. Reached' /\ Entitlement'
        BY <1>a, <2>1 DEF Reached, Entitlement, LogStands
    <2>5. AllPlaced' /\ PresentWhileServed'
        BY <1>a, <2>1, <2>3 DEF AllPlaced, Placed, Serving, PresentWhileServed, LogStands
    <2>6. ConnsFit' /\ TabsWhole' /\ AllLinked'
        BY <1>a, <2>1 DEF ConnsFit, TabsWhole, AllLinked, LogStands
    <2>7. ASSUME NEW s, NEW n, Underway(s, n, jobs, wire)  PROVE Underway(s, n, jobs', wire')
        BY <2>1, <2>7 DEF Underway
    <2>8. \A k, s : Ahead(k, s, head, jobs, wire) => Ahead(k, s, head, jobs', wire')
        BY <2>7 DEF Ahead, OnItsWay
    <2>9. AllAhead'  BY <1>a, <2>1, <2>8 DEF AllAhead, LogStands
    <2> QED  BY <2>2, <2>4, <2>5, <2>6, <2>9 DEF RealtimeInv
<1>3. CASE PresenceLapses
    <2>1. LogStands /\ UNCHANGED <<token, jobs, wire, conn, tab, losses, refusals, faults, notes>>
          /\ present' = FALSE /\ redis
        BY <1>3 DEF PresenceLapses, LogStands, durable, counts
    <2>2. TypeOK'  BY <1>a, <2>1 DEF TypeOK, LogStands
    <2>3. Reached' /\ Entitlement'
        BY <1>a, <2>1 DEF Reached, Entitlement, LogStands
    <2>4. AllPlaced' /\ PresentWhileServed'
        BY <1>a, <2>1 DEF AllPlaced, Placed, Serving, PresentWhileServed, LogStands
    <2>5. ConnsFit' /\ TabsWhole' /\ AllLinked' /\ AllAhead'
        BY <1>a, <2>1 DEF ConnsFit, TabsWhole, AllLinked, AllAhead, LogStands
    <2> QED  BY <2>2, <2>3, <2>4, <2>5 DEF RealtimeInv
<1> QED  BY <1>1, <1>2, <1>3

\* An event, a removal and an invitation are each one more event of the log, with
\* a handler that will broadcast it.
LEMMA RoomKeeps ==
    ASSUME RealtimeInv, NEW p \in Procs, CommitEvent(p) \/ RemoveMember(p) \/ InviteMember(p)
    PROVE  RealtimeInv'
<1>a. TypeOK /\ Reached  BY DEF RealtimeInv
<1>n. head \in Nat /\ entitled \in Nat /\ removals \in Nat /\ entitled <= head
      /\ (member => entitled = head) /\ tab \in [Tabs -> TabType] /\ jobs \in SUBSET JobType
    BY <1>a DEF TypeOK, Reached
<1> DEFINE job(todo, away) == [todo |-> todo, seq |-> head + 1, proc |-> p, removal |-> away]
<1>j. /\ job("event", FALSE) \in JobType /\ job("event", FALSE).seq = head + 1
      /\ job("event", FALSE).todo # "left" /\ ~job("event", FALSE).removal
      /\ job("revoke", TRUE) \in JobType /\ job("revoke", TRUE).seq = head + 1
      /\ job("revoke", TRUE).todo # "left"
    BY <1>n DEF JobType
<1>1. CASE CommitEvent(p)
    <2>1. /\ head < MaxEvents /\ head' = head + 1 /\ jobs' = jobs \cup {job("event", FALSE)}
          /\ entitled' = IF member THEN head + 1 ELSE entitled
          /\ UNCHANGED <<redis, member, token, wire, present, conn, tab, losses, refusals, faults,
                         removals, notes>>
        BY <1>1 DEF CommitEvent, counts
    <2> HIDE DEF job
    <2>2. TypeOK'
        <3>1. jobs' \in SUBSET JobType  BY <1>n, <1>j, <2>1
        <3>2. head' \in Nat /\ entitled' \in Nat  BY <1>n, <2>1
        <3> QED  BY <1>a, <2>1, <3>1, <3>2 DEF TypeOK
    <2>3. entitled <= entitled' /\ entitled' <= head' /\ (member' => entitled' = head')
          /\ removals' >= removals
        BY <1>n, <2>1
    <2>4. \A t \in Tabs : tab'[t] = [tab[t] EXCEPT !.mode = tab'[t].mode] /\ tab'[t].mode = tab[t].mode
        BY <1>n, <2>1 DEF TabType
    <2> QED  BY <1>j, <2>1, <2>2, <2>3, <2>4, LogStep
<1>2. CASE RemoveMember(p)
    <2>1. /\ head < MaxEvents /\ head' = head + 1 /\ jobs' = jobs \cup {job("revoke", TRUE)}
          /\ member' = FALSE /\ removals' = removals + 1
          /\ UNCHANGED <<redis, token, entitled, wire, present, conn, tab, losses, refusals, faults, notes>>
        BY <1>2 DEF RemoveMember
    <2> HIDE DEF job
    <2>2. TypeOK'
        <3>1. jobs' \in SUBSET JobType  BY <1>n, <1>j, <2>1
        <3>2. head' \in Nat /\ removals' \in Nat  BY <1>n, <2>1
        <3>3. member' \in BOOLEAN  BY <2>1
        <3> QED  BY <1>a, <2>1, <3>1, <3>2, <3>3 DEF TypeOK
    <2>3. entitled <= entitled' /\ entitled' <= head' /\ ~member'
          /\ removals' >= removals /\ removals' > 0
        BY <1>n, <2>1
    <2>4. \A t \in Tabs : tab'[t] = [tab[t] EXCEPT !.mode = tab'[t].mode] /\ tab'[t].mode = tab[t].mode
        BY <1>n, <2>1 DEF TabType
    <2> QED  BY <1>j, <2>1, <2>2, <2>3, <2>4, LogStep
<1>3. CASE InviteMember(p)
    <2>1. /\ head < MaxEvents /\ head' = head + 1 /\ jobs' = jobs \cup {job("event", FALSE)}
          /\ member' = TRUE /\ entitled' = head + 1
          /\ tab' = [t \in Tabs |-> IF tab[t].mode = "off" /\ token
                                    THEN [tab[t] EXCEPT !.mode = "retry"] ELSE tab[t]]
          /\ UNCHANGED <<redis, token, wire, present, conn, losses, refusals, faults, removals, notes>>
        BY <1>3 DEF InviteMember, counts
    <2> HIDE DEF job
    <2>2. ASSUME NEW t \in Tabs
          PROVE  /\ tab'[t] \in TabType /\ tab'[t] = [tab[t] EXCEPT !.mode = tab'[t].mode]
                 /\ tab'[t].mode = "on" => tab[t].mode = "on"
        <3>1. tab'[t] = IF tab[t].mode = "off" /\ token
                        THEN [tab[t] EXCEPT !.mode = "retry"] ELSE tab[t]
            BY <2>1
        <3>2. tab[t] \in TabType  BY <1>n
        <3> QED  BY <3>1, <3>2 DEF TabType
    <2>3. tab' \in [Tabs -> TabType]
        <3>1. \A t \in Tabs : tab'[t] \in TabType  BY <2>2
        <3> QED  BY <2>1, <3>1
    <2>4. TypeOK'
        <3>1. jobs' \in SUBSET JobType  BY <1>n, <1>j, <2>1
        <3>2. head' \in Nat /\ entitled' \in Nat  BY <1>n, <2>1
        <3>3. member' \in BOOLEAN  BY <2>1
        <3> QED  BY <1>a, <2>1, <2>3, <3>1, <3>2, <3>3 DEF TypeOK
    <2>5. entitled <= entitled' /\ entitled' <= head' /\ (member' => entitled' = head')
          /\ removals' >= removals
        BY <1>n, <2>1
    <2> QED  BY <1>j, <2>1, <2>2, <2>4, <2>5, LogStep
<1> QED  BY <1>1, <1>2, <1>3

-----------------------------------------------------------------------------
(* The invariant, and what follows from it.                                   *)

\* A step of something else keeps the invariant.
LEMMA StutterKeeps == RealtimeInv /\ UNCHANGED vars => RealtimeInv'
<1> SUFFICES ASSUME RealtimeInv, UNCHANGED vars  PROVE RealtimeInv'
    OBVIOUS
<1>1. TypeOK' /\ Reached' /\ Entitlement' /\ AllPlaced' /\ PresentWhileServed'
    BY DEF RealtimeInv, vars, TypeOK, Reached, Entitlement, AllPlaced, Placed, Serving, PresentWhileServed
<1>2. ConnsFit' /\ TabsWhole' /\ AllLinked' /\ AllAhead'
    BY DEF RealtimeInv, vars, ConnsFit, TabsWhole, AllLinked, AllAhead
<1> QED  BY <1>1, <1>2 DEF RealtimeInv

\* So does every step of a tab, a socket, the hub, the room and the faults.
LEMMA NextKeeps == RealtimeInv /\ [Next]_vars => RealtimeInv'
<1> SUFFICES ASSUME RealtimeInv, [Next]_vars  PROVE RealtimeInv'
    OBVIOUS
<1>1. ASSUME NEW t \in Tabs, TabNext(t)  PROVE RealtimeInv'
    <2>1. ASSUME NEW c \in Conns, NEW p \in Procs, Connect(t, c, p)  PROVE RealtimeInv'
        BY <2>1, ConnectKeeps
    <2>2. CASE \/ AuthorizeState(t) \/ ReadHead(t) \/ ReadRows(t)
               \/ StateArrives(t) \/ StateRefused(t) \/ RetryState(t)
        BY <2>2, LoadsKeep
    <2> QED  BY <1>1, <2>1, <2>2 DEF TabNext
<1>2. ASSUME NEW c \in Conns, ConnNext(c)  PROVE RealtimeInv'
    <2>1. CASE Authorize(c) \/ CheckCursor(c) \/ Subscribe(c)  BY <2>1, HandshakeKeeps
    <2>2. CASE Recheck(c) \/ JoinPresence(c) \/ ReadPage(c) \/ TakeReplay(c)
        BY <2>2, ReplayKeeps
    <2>3. CASE TakeLive(c)  BY <2>3, LiveKeeps
    <2>4. CASE SendEvent(c)  BY <2>4, SendKeeps
    <2>5. CASE Release(c) \/ LeavePresence(c)  BY <2>5, ReleaseKeeps
    <2> QED  BY <1>2, <2>1, <2>2, <2>3, <2>4, <2>5 DEF ConnNext
<1>3. ASSUME NEW c \in Conns, Reauthenticate(c) \/ Drop(c)  PROVE RealtimeInv'
    BY <1>3, BeatsKeep
<1>4. CASE HubNext
    <2>1. ASSUME NEW w \in wire, Receive(w) \/ Dropped(w)  PROVE RealtimeInv'
        BY <2>1, WireKeeps
    <2>2. ASSUME NEW j \in jobs, RevokeJob(j)  PROVE RealtimeInv'  BY <2>2, RevokeJobKeeps
    <2>3. ASSUME NEW j \in jobs, BroadcastJob(j)  PROVE RealtimeInv'  BY <2>3, BroadcastKeeps
    <2>4. ASSUME NEW j \in jobs, PresenceJob(j)  PROVE RealtimeInv'  BY <2>4, QuietKeeps
    <2> QED  BY <1>4, <2>1, <2>2, <2>3, <2>4 DEF HubNext
<1>5. ASSUME NEW p \in Procs, CommitEvent(p) \/ RemoveMember(p) \/ InviteMember(p) \/ SendToUser(p)
      PROVE  RealtimeInv'
    <2>1. CASE CommitEvent(p) \/ RemoveMember(p) \/ InviteMember(p)  BY <2>1, RoomKeeps
    <2>2. CASE SendToUser(p)  BY <2>2, BeatsKeep
    <2> QED  BY <1>5, <2>1, <2>2
<1>6. ASSUME NEW p \in Procs, CrashProcess(p)  PROVE RealtimeInv'
    BY <1>6, CrashKeeps
<1>7. CASE RevokeToken \/ PresenceLapses  BY <1>7, QuietKeeps
<1>8. CASE UNCHANGED vars  BY <1>8, StutterKeeps
<1>9. CASE RoomNext  BY <1>9, <1>5 DEF RoomNext
<1>10. CASE FaultNext  BY <1>10, <1>3, <1>6, <1>7 DEF FaultNext
<1> QED  BY <1>1, <1>2, <1>3, <1>4, <1>7, <1>8, <1>9, <1>10 DEF Next

\* The inductive invariant: types, entitlement, presence, and where every event
\* that a connected tab has not been shown is to be found.
THEOREM RealtimeSafe == Spec => []RealtimeInv
BY InitRealtime, NextKeeps, PTL DEF Spec

\* The types of the log, the sockets and the tabs.
THEOREM RealtimeTyped == Spec => []TypeOK
<1>1. RealtimeInv => TypeOK  BY DEF RealtimeInv
<1> QED  BY <1>1, RealtimeSafe, PTL

\* A removed member is given nothing that was committed after the removal, by
\* socket, replay or snapshot, in any order of revokes, broadcasts and beats, but
\* for what a fetch that was let in before the removal reads after it.
THEOREM RemovedSeeNothingMore == Spec => []NothingPastRemoval
<1>1. ASSUME RealtimeInv, NEW t \in Tabs, NEW n \in Given(tab[t])
      PROVE  n <= entitled \/ n <= tab[t].late
    <2>1. Told(tab[t], entitled) /\ tab[t] \in TabType /\ entitled \in Nat
        BY <1>1 DEF RealtimeInv, Entitlement, TypeOK
    <2>2. CASE n \in tab[t].shown
        <3>1. n \in 1 .. entitled \/ n \in 1 .. tab[t].late  BY <2>1, <2>2 DEF Told
        <3> QED  BY <3>1
    <2>3. CASE n \in 1 .. tab[t].rows
        <3>1. tab[t].rows \in Nat /\ tab[t].late \in Nat  BY <2>1 DEF TabType
        <3> QED  BY <2>1, <2>3, <3>1 DEF Told
    <2> QED  BY <1>1, <2>2, <2>3 DEF Given
<1>2. RealtimeInv => NothingPastRemoval  BY <1>1 DEF NothingPastRemoval
<1> QED  BY <1>2, RealtimeSafe, PTL

\* While no message is lost, a hole in what a connected tab shows is never silent:
\* the event is on its way, the tab reloads or was refused, or the socket closes.
THEOREM NoHoleStays == Spec => []HolesAreComing
<1>1. ASSUME RealtimeInv, losses = 0, NEW t \in Tabs, tab[t].mode = "on",
             tab[t].load = "none", ~tab[t].refused, NEW n \in Holes(t)
      PROVE  Coming(tab[t].conn, n)
    <2> DEFINE k == tab[t]
               c == k.conn
               s == conn[c]
    <2>1. c \in Conns /\ (k.again => k.load # "none") /\ (k.last <= head \/ k.last > MaxEvents)
        BY <1>1 DEF RealtimeInv, TabsWhole, Whole
    <2>2. Linked(k, s, head) /\ Ahead(k, s, head, jobs, wire)
        BY <1>1, <2>1 DEF RealtimeInv, AllLinked, AllAhead
    <2>3. s \in ConnType /\ Fit(s, head) /\ head \in Nat /\ k \in TabType
        BY <1>1, <2>1 DEF RealtimeInv, TypeOK, ConnsFit
    <2>4. n \in 1 .. k.last /\ n \notin k.shown  BY <1>1 DEF Holes
    <2>5. CASE s.at # "live"  BY <2>5 DEF Coming
    <2>6. CASE s.at = "live"
        <3>1. s.cursor <= head /\ Tailing(s) /\ End(s) = s.cursor /\ s.cursor \in Nat
              /\ k.last \in Nat
            BY <2>3, <2>6 DEF Fit, Tailing, End, ConnType, TabType
        <3>2. k.last <= head  BY <2>2, <3>1 DEF Linked
        <3>3. n \in 1 .. head /\ n \in Nat  BY <2>3, <2>4, <3>1, <3>2
        <3>4. CASE n <= s.cursor
            <4>1. n \in 1 .. s.cursor  BY <3>1, <3>3, <3>4
            <4>2. Kept(k, n)  BY <2>2, <3>1, <4>1 DEF Linked
            <4> QED  BY <1>1, <2>1, <2>4, <4>2 DEF Kept
        <3>5. CASE n > s.cursor
            <4>1. OnItsWay(k, s, n, jobs, wire)  BY <2>2, <3>1, <3>3, <3>5 DEF Ahead
            <4>2. CASE s.hand = n  BY <4>2 DEF Coming
            <4>3. CASE Doomed(s)  BY <4>3 DEF Doomed, Coming, Range
            <4>4. CASE Queued(s, n)  BY <4>4 DEF Queued, Coming, Range
            <4>5. CASE Underway(s, n, jobs, wire)
                <5>1. CASE \E j \in jobs : j.seq = n /\ j.todo # "left"  BY <5>1 DEF Coming
                <5>2. CASE [to |-> s.proc, msg |-> EventMsg(n)] \in wire
                    <6>1. [to |-> s.proc, msg |-> EventMsg(n)].msg.seq = n  BY DEF EventMsg
                    <6>2. \E w \in wire : w.msg.seq = n  BY <5>2, <6>1
                    <6> QED  BY <6>2 DEF Coming
                <5> QED  BY <4>5, <5>1, <5>2 DEF Underway
            <4> QED  BY <2>4, <4>1, <4>2, <4>3, <4>4, <4>5 DEF OnItsWay
        <3> QED  BY <3>1, <3>3, <3>4, <3>5
    <2> QED  BY <2>5, <2>6
<1>2. RealtimeInv => HolesAreComing
    BY <1>1 DEF HolesAreComing, NoSilentHole
<1> QED  BY <1>2, RealtimeSafe, PTL

\* Without Redis, a member whose socket is being served is shown as present until
\* a removal.
THEOREM ServedIsPresent == Spec => []PresentWhileServed
<1>1. RealtimeInv => PresentWhileServed  BY DEF RealtimeInv
<1> QED  BY <1>1, RealtimeSafe, PTL
=============================================================================
