\* Two starters, three calls, two jobs; a late answer can reach the window's end.
CONSTANTS
    s1 = s1
    s2 = s2
    Starter = {s1, s2}
    Intent = {i1, i2}
    Skew <- ClockSkew
    Window = 2
    Timeout = 1
    Slack = 0
    NoCall = NoCall
    NoPermission = NoPermission
    MaxCalls <- Calls
    MaxTime = 4
SPECIFICATION Spec
SYMMETRY IntentSymmetry
INVARIANTS
    TypeOK
    SolePermission
    PermissionForSentIntent
PROPERTY
    ImplementsPromise
\* Calls and time are bounded.
CHECK_DEADLOCK FALSE
