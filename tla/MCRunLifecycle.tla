--------------------------- MODULE MCRunLifecycle ---------------------------
(***************************************************************************)
(* RunLifecycle for TLC: the ids are model values given by each .cfg; the  *)
(* ids of tool calls are interchangeable, and so are the tasks when every  *)
(* one of them may sweep.  For the liveness run nobody asks a question     *)
(* that gates no call: such an approval neither holds a run nor ends one.  *)
(***************************************************************************)
EXTENDS RunLifecycle, TLC

LiveNext == Next /\ \A c \in Calls : approval'[c] # None => request'[c] # None
LiveSpec == Init /\ [][LiveNext]_vars /\ Fairness

Symmetry == Permutations(Calls) \cup Permutations(Sweepers)
=============================================================================
