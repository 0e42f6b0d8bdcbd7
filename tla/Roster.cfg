SPECIFICATION MCRosterSpec
SYMMETRY Alike
CONSTANTS
 Users = {u1, u2, u3}
 Agents = {a1, a2}
 Rooms = {r1, r2}
 Names = {n1, n2}
 Templates = {t1, t2}
 Foreign = {t2}
 Requests = {q1, q2}
 Nobody = Nobody
 MaxAsked = 4
 MaxChanges = 2
 MaxStays = 2
INVARIANTS
    MembersHaveTheirPlace
PROPERTIES
    AdminsChangeHands
CHECK_DEADLOCK FALSE
