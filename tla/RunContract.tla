----------------------------- MODULE RunContract -----------------------------
(***************************************************************************)
(* What the rest of the product relies on when it opens an agent run: the  *)
(* run is open for a while, tools act only then, and it ends once, with    *)
(* one account - either an answer, published with it, or a named reason    *)
(* there is none.  RunLifecycle implements this.                           *)
(***************************************************************************)
CONSTANTS Runs, Calls, Accounts, None

VARIABLES
    phase,    \* [Runs -> "unopened", "open", "answered", "ended"]
    account,  \* [Runs -> the reason the run ended, None until then]
    effects   \* the <<call, run>> whose tool wrote something

vars == <<phase, account, effects>>

Init ==
    /\ phase = [e \in Runs |-> "unopened"]
    /\ account = [e \in Runs |-> None]
    /\ effects = {}

OpenRun(e) ==
    /\ phase[e] = "unopened"
    /\ phase' = [phase EXCEPT ![e] = "open"]
    /\ UNCHANGED <<account, effects>>

Act(e, c) ==
    /\ phase[e] = "open"
    /\ effects' = effects \cup {<<c, e>>}
    /\ UNCHANGED <<phase, account>>

Answer(e) ==
    /\ phase[e] = "open"
    /\ phase' = [phase EXCEPT ![e] = "answered"]
    /\ account' = [account EXCEPT ![e] = "END_TURN"]
    /\ UNCHANGED effects

End(e, why) ==
    /\ phase[e] = "open"
    /\ phase' = [phase EXCEPT ![e] = "ended"]
    /\ account' = [account EXCEPT ![e] = why]
    /\ UNCHANGED effects

Next ==
    \E e \in Runs :
        \/ OpenRun(e) \/ Answer(e)
        \/ \E why \in Accounts \ {"END_TURN"} : End(e, why)
        \/ \E c \in Calls : Act(e, c)

Spec == Init /\ [][Next]_vars
=============================================================================
