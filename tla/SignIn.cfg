SPECIFICATION MCSignInSpec
CONSTANTS
 l1 = l1
 l2 = l2
 q1 = q1
 q2 = q2
 Logins = {l1, l2}
 Requests = {q1, q2}
 NoLogin = NoLogin
 LoginWindow = 1
 IdleTime = 2
 AbsoluteTime = 3
 ShortTime = 2
 AccessTime = 2
 MaxTime = 2
 MaxGenerations = 3
 MaxCallbacks = 2
 MaxDeaths = 1
INVARIANTS
    OneLineOfCredentials
    LoggedOutStaysOut
PROPERTIES
    ReplayEndsSession
CHECK_DEADLOCK FALSE
