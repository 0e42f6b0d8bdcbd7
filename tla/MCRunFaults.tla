------------------------------ MODULE MCRunFaults ------------------------------
(***************************************************************************)
(* RunLifecycle for TLC where a run has failed and another follows it.  A  *)
(* behaviour begins with two of the three bounds spent, so that it has one *)
(* crash, one pause or one update of the harness; with a crash ahead, the  *)
(* second run is still to be opened or resumed, else it was just resumed.  *)
(***************************************************************************)
EXTENDS RunLifecycle, TLC

CONSTANTS e1, e2

Before ==
    /\ status = (e1 :> "FAILED" @@ e2 :> None)
    /\ harness = (e1 :> "SETTLED" @@ e2 :> None)
    /\ attempts = (e1 :> 1 @@ e2 :> 0)
    /\ lease = (e1 :> 1 @@ e2 :> NoLease)
    /\ lends = {}
    /\ pauses = MaxPauses /\ updates = MaxUpdates /\ crashes = 0

Resumed ==
    /\ status = (e1 :> "FAILED" @@ e2 :> "PENDING")
    /\ harness = (e1 :> "SETTLED" @@ e2 :> "STARTING")
    /\ attempts = (e1 :> 1 @@ e2 :> 2)
    /\ lease = (e1 :> 1 @@ e2 :> 1)
    /\ lends = {e2}
    /\ crashes = MaxCrashes
    /\ \/ pauses = 0 /\ updates = MaxUpdates
       \/ pauses = MaxPauses /\ updates = 0

MCInit ==
    /\ Before \/ Resumed
    /\ settlement = (e1 :> "FAILED" @@ e2 :> None)
    /\ expired = {} /\ outputs = {}
    /\ called = [c \in Calls |-> NoRun]
    /\ approval = [c \in Calls |-> None]
    /\ request = [c \in Calls |-> None]
    /\ wrote = {} /\ suspended = {} /\ mentioned = {} /\ claimed = {} /\ named = {}
    /\ live = {} /\ flagged = {}
    /\ task = [t \in Tasks |-> Idle]
MCSpec == MCInit /\ [][Next]_vars

Symmetry == Permutations(Tasks)
=============================================================================
