---------------------------- MODULE MCRateLimiter ----------------------------
EXTENDS RateLimiter

CONSTANTS q1, u1, u2, ip1, ip2

MCLimit == [k \in Keys |-> IF k \in IpKeys THEN 2 ELSE IF k \in Metered THEN 2 ELSE 1]
=============================================================================
