----------------------------- MODULE MCRealtime -----------------------------
(* Realtime on two processes, two sockets and one tab.  A behaviour is of one of *)
(* four parts, so that their state spaces add: "drops", a served connection or    *)
(* its process fails while events are committed, with Redis or without; "removal",*)
(* with Redis, the member is removed (and asked back) while a fan-out message may *)
(* be lost; "fetch", the same without Redis, while the tab's fetches are under    *)
(* way; "cursor", without Redis, the tab starts from a cursor the log never       *)
(* reaches, notes fill its queue and its credential may be revoked.              *)
EXTENDS Realtime, TLC

CONSTANTS p1, p2, c1, c2, t1

Parts == {"drops", "removal", "fetch", "cursor"}
Removal == {"removal", "fetch"}

VARIABLE part
MCInit ==
    /\ Init /\ part \in Parts
    /\ tab[t1].last = 0 <=> part # "cursor"
    /\ part # "drops" => (redis <=> part = "removal")
MCNext ==
    /\ Next /\ part' = part
    \* only a removal can tell the steps of a fetch apart
    /\ part # "fetch" /\ tab[t1].load \in {"admitted", "reading"} => tab'[t1].load # tab[t1].load
    /\ head' # head => conn' = conn /\ \A j \in jobs' \ jobs : j.proc = p1
    /\ part = "drops"   => /\ removals' = 0 /\ notes' = 0 /\ losses' = 0 /\ refusals' = 0
                           /\ token' /\ (redis => head' <= 2 /\ conn'[c1].proc # p1)
                           /\ (faults' # faults => \A c \in Conns : conn[c].at \in {"idle", "live"})
    /\ part \in Removal => /\ refusals' = 0 /\ notes' = 0 /\ faults' = 0 /\ conn'[c2] = conn[c2]
                           /\ (losses' # losses => ~member)
                           /\ (redis => conn'[c1].proc # p1)
                           /\ (head' # head => removals' = 1)
    /\ part = "cursor"  => /\ removals' = 0 /\ losses' = 0 /\ head' <= 2 /\ conn'[c2] = conn[c2]
                           /\ (faults' # faults => ~token')
MCVars == <<vars, part>>
MCSpec == MCInit /\ [][MCNext]_MCVars
MCFairSpec == MCSpec /\ Fairness
=============================================================================
