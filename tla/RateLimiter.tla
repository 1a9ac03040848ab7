----------------------------- MODULE RateLimiter -----------------------------
(***************************************************************************)
(* RateLimitMiddleware (core/api/middleware/rate_limit.py): one table of   *)
(* admission times per caller, pruned only when that caller is looked up,  *)
(* and cut back when it has outgrown its cap.  A login is checked on two   *)
(* tracks, the username's and then the address's, without an await between *)
(* them, so no other request is decided in the middle of a login.  Every   *)
(* decision reads the clock; two readings are never equal.                 *)
(***************************************************************************)
EXTENDS Naturals, FiniteSets

CONSTANTS
    Metered,    \* query and upload buckets: a credential's or an address's
    UserKeys,   \* login buckets of usernames
    IpKeys,     \* login buckets of addresses
    Limit,      \* requests per window; the capacity plan is computed once
    Window,
    Cap,        \* _MAX_TRACKED_KEYS
    MaxTime,    \* bound on the clock
    None

Keys == Metered \cup UserKeys \cup IpKeys

ASSUME LimiterAssumption ==
    /\ IsFiniteSet(Keys) /\ Keys # {}
    /\ None \notin Keys
    /\ Limit \in [Keys -> Nat]
    /\ Window \in Nat \ {0}
    /\ Cap \in Nat
    /\ MaxTime \in Nat

VARIABLES
    now,      \* the instant of the latest decision
    records,  \* _records: tracked keys with the times they were admitted at
    login,    \* the address a login in progress has still to be checked for
    answer    \* the latest decision

limiterVars == <<now, records, login, answer>>

LimiterInit == /\ now = 0
               /\ records = [k \in {} |-> {}]
               /\ login = None
               /\ answer = [key |-> CHOOSE k \in Keys : TRUE, ok |-> TRUE]

Within(S, t) == {s \in S : t - s < Window}

\* Keys the eviction takes for dead: the last admission is out of the window.
Stale(t) == {k \in DOMAIN records : Within(records[k], t) = {}}

Idler(F, S) == \A f \in F, b \in S : \A s \in records[f] : \E r \in records[b] : s <= r

\* Mutant: the most recently active keys are the ones dropped.
EvictMostActive(K, t) ==
    LET alive == DOMAIN records \ Stale(t)
    IN  IF Cardinality(DOMAIN records) <= Cap THEN K = DOMAIN records
        ELSE IF Cardinality(alive) <= Cap THEN K = alive
        ELSE /\ K \subseteq alive
             /\ Cardinality(K) = Cap
             /\ Idler(K, alive \ K)

\* Mutant: eviction stops at dead keys, however many are alive.
EvictStaleOnly(K, t) ==
    IF Cardinality(DOMAIN records) <= Cap
    THEN K = DOMAIN records
    ELSE K = DOMAIN records \ Stale(t)

\* _evict_if_overgrown keeps the keys K: within the cap, all; otherwise those
\* that are alive, and of these the Cap most recently active ones.
Evict(K, t) ==
    LET alive == DOMAIN records \ Stale(t)
    IN  IF Cardinality(DOMAIN records) <= Cap THEN K = DOMAIN records
        ELSE IF Cardinality(alive) <= Cap THEN K = alive
        ELSE /\ K \subseteq alive
             /\ Cardinality(K) = Cap
             /\ Idler(alive \ K, K)

\* _is_allowed: evict, prune the key's own records, count, record.  A refused
\* request leaves no record of itself.
IsAllowed(k) ==
    \E t \in (now + 1)..MaxTime, K \in SUBSET DOMAIN records :
        LET recent == IF k \in K THEN Within(records[k], t) ELSE {}
            ok     == Cardinality(recent) < Limit[k]
        IN  /\ Evict(K, t)
            /\ now' = t
            /\ records' = [j \in K \cup {k} |->
                             IF j # k THEN records[j]
                             ELSE IF ok THEN recent \cup {t} ELSE recent]
            /\ answer' = [key |-> k, ok |-> ok]

\* dispatch for the query, skill and upload paths.
Dispatch(k) == login = None /\ IsAllowed(k) /\ UNCHANGED login

\* _handle_login_rate_limit: the username's track first.
LoginUser(u, ip) == /\ login = None
                    /\ IsAllowed(u)
                    /\ login' = IF answer'.ok THEN ip ELSE None

\* A body without a username goes straight to the address's track.
LoginNameless(ip) == login = None /\ IsAllowed(ip) /\ UNCHANGED login

LoginIp == login # None /\ IsAllowed(login) /\ login' = None

LimiterNext == \/ \E k \in Metered : Dispatch(k)
               \/ \E u \in UserKeys, ip \in IpKeys : LoginUser(u, ip)
               \/ \E ip \in IpKeys : LoginNameless(ip)
               \/ LoginIp

LimiterSpec == LimiterInit /\ [][LimiterNext]_limiterVars

-----------------------------------------------------------------------------
(* Properties.                                                             *)

LimiterTypeOK == /\ now \in Nat
                 /\ DOMAIN records \subseteq Keys
                 /\ records = [k \in DOMAIN records |-> records[k]]
                 /\ \A k \in DOMAIN records : records[k] \subseteq 1..now
                 /\ login \in IpKeys \cup {None}
                 /\ answer \in [key : Keys, ok : BOOLEAN]

\* The table stays bounded however many callers there are: eviction runs before
\* the caller of the request is entered, so one more than the cap fits.
TableBounded == Cardinality(DOMAIN records) <= Cap + 1

\* The abstract window of a key: its recorded admissions that still count.
Live == [k \in Keys |-> IF k \in DOMAIN records THEN Within(records[k], now) ELSE {}]

SW == INSTANCE SlidingWindow WITH window <- Live

\* Lazy pruning and eviction of dead keys change no decision ("removing them
\* cannot change any future rate decision"), and a live key is forgotten only
\* when more than Cap keys are live: the limiter is a sliding window.
IsSlidingWindow == SW!Spec
=============================================================================
