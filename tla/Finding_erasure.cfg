SPECIFICATION MCSpec
CONSTANTS
    r1 = r1
    r2 = r2
    Rooms = {r1, r2}
    x1 = x1
    x2 = x2
    Texts = {x1, x2}
    NoAssertion = NoAssertion
    PassLimit = 2
    FewEvents = 3
    a1 = a1
    Auditors = {a1}
    MaxEvents = 7
    MaxAudits = 1
    PageSize = 2
    u1 = u1
    Users = {u1}
    Agent = Agent
    System = System
    Nobody = Nobody
    Members <- AllMembers
    o1 = o1
    o2 = o2
    Operators = {o1, o2}
    MaxErasures = 2
INVARIANTS
    NoTitleOutlivesErasure
CHECK_DEADLOCK FALSE
