-------------------------------- MODULE MCSignIn --------------------------------
(* Small instances of SignInSessions, one for each question: two logins that     *)
(* race, one session long enough for several refreshes, and two sessions of one   *)
(* person.                                                                       *)
EXTENDS SignInSessions

CONSTANTS l1, l2, q1, q2

VARIABLE part

(* One session, begun at 0 by a login nothing interrupted; a handler that dies is *)
(* the one between its two transactions.                                         *)
Refreshing ==
    /\ callbacks' <= 1 /\ attempt'[l2].at = "none"
    /\ established[l1] = 0 => now' = 0 /\ deaths' = 0 /\ idp'[l1].ended < 0 /\ request'[q1].named
    /\ deaths' # deaths => \E q \in Requests : Is(q, "doomed") /\ request'[q].at = "idle"

(* Two sessions, before any clock moves. *)
TwoSessions ==
    /\ now' = 0 /\ deaths' = 0 /\ request'[q1].gen = 0
    /\ issued'[l1] <= 2 /\ issued'[l2] <= 1
    /\ attempt[l1].at = "none" => attempt'[l2].at = "none"

Within ==
    /\ part = "signin" => attempt'[l2].at = "none" /\ \A q \in Requests : request'[q].gen = 0
    /\ part # "signin" => request'[q2].at \notin {"exchange", "establish"}
    /\ part = "refresh" => Refreshing
    /\ part = "two" => TwoSessions

MCSignInInit == SesInit /\ part \in {"signin", "refresh", "two"}
MCSignInNext == SesNext /\ Within /\ UNCHANGED part
MCSignInSpec == MCSignInInit /\ [][MCSignInNext]_<<sesVars, part>> /\ SesFairness
=============================================================================
