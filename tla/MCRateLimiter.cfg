\* Five buckets over a table for two; a window of four instants, in which three can be live. Time ends at
\* MaxTime, so the model stops there.
SPECIFICATION LimiterSpec
CONSTANTS
    q1 = q1
    u1 = u1
    u2 = u2
    ip1 = ip1
    ip2 = ip2
    None = None
    Metered = {q1}
    UserKeys = {u1, u2}
    IpKeys = {ip1, ip2}
    Limit <- MCLimit
    Window = 4
    Cap = 2
    MaxTime = 8
INVARIANTS
    TableBounded
PROPERTIES
    IsSlidingWindow
CHECK_DEADLOCK FALSE
