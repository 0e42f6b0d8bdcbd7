----------------------------- MODULE RoomHistory -----------------------------
(* What a room's event log promises its readers, whatever the service does to   *)
(* keep the promise: a history per room that only grows at its end, in which    *)
(* nothing is ever reordered, changed or removed; the one exception is an       *)
(* erasure, which blanks some of what one author said in one room and in the    *)
(* same step adds an entry that says so.                                        *)
EXTENDS Integers, Sequences

CONSTANTS Rooms, Blank     \* Blank: what an erased entry reads as
VARIABLE history           \* [Rooms -> Seq([type, actor, said])]

Init == history = [r \in Rooms |-> <<>>]

OnlyRoom(r) == \A s \in Rooms \ {r} : history'[s] = history[s]
OneMore(r) == Len(history'[r]) = Len(history[r]) + 1

Say(r) ==
    /\ OnlyRoom(r) /\ Len(history'[r]) > Len(history[r])
    /\ \A n \in DOMAIN history[r] : history'[r][n] = history[r][n]
    /\ \A n \in DOMAIN history'[r] \ DOMAIN history[r] : history'[r][n].said # Blank

Erase(r) ==
    LET old == history[r]
        new == history'[r]
        hit == { n \in DOMAIN old : new[n] # old[n] }
    IN
    /\ OnlyRoom(r) /\ OneMore(r)
    /\ \A n \in hit : new[n] = [old[n] EXCEPT !.said = Blank]
    /\ \A n, m \in hit : old[n].actor = old[m].actor
    /\ new[Len(new)].type = "event.redacted"

Next == \E r \in Rooms : Say(r) \/ Erase(r)

Spec == Init /\ [][Next]_history
=============================================================================
