--------------------------- MODULE Services_proofs ---------------------------
(***************************************************************************)
(* Proofs about the two objects that all requests of a process share.      *)
(*                                                                         *)
(* RateLimiter, for any finite set of callers, any limits, any window, any *)
(* cap: the table is bounded and the limiter implements the unbounded      *)
(* sliding window.                                                         *)
(*                                                                         *)
(* ModelClient, for any number of calls, saves and attempts: the types,    *)
(* that a call goes to a backend at least as new as the one in force when  *)
(* it began, that no request is repeated in vain, and that each caller     *)
(* learns the outcome of its own call.                                     *)
(***************************************************************************)
EXTENDS RateLimiter, ModelClient, FiniteSetTheorems, TLAPS

-----------------------------------------------------------------------------
(* The rate limiter.                                                       *)

\* Pruning now and pruning again later is pruning later.
LEMMA WithinTwice ==
  ASSUME NEW S, S \subseteq Nat, NEW t \in Nat, NEW u \in Nat, t <= u
  PROVE  Within(Within(S, t), u) = Within(S, u)
  <1>1. \A s \in S : u - s < Window => t - s < Window
    <2> SUFFICES ASSUME NEW s \in S, u - s < Window PROVE t - s < Window
      OBVIOUS
    <2>1. s \in Nat /\ Window \in Nat
      BY LimiterAssumption
    <2> QED BY <2>1
  <1> QED BY <1>1 DEF Within

\* What one decision does to the table, whatever handler takes it.
LEMMA CheckTypes ==
  ASSUME LimiterTypeOK, NEW k \in Keys, IsAllowed(k)
  PROVE  /\ now' \in Nat /\ now < now'
         /\ DOMAIN records' \subseteq Keys
         /\ records' = [j \in DOMAIN records' |-> records'[j]]
         /\ \A j \in DOMAIN records' : records'[j] \subseteq 1..now'
         /\ answer' \in [key : Keys, ok : BOOLEAN]
  <1>1. PICK t \in (now + 1)..MaxTime, K \in SUBSET DOMAIN records :
          LET recent == IF k \in K THEN Within(records[k], t) ELSE {}
              ok     == Cardinality(recent) < Limit[k]
          IN  /\ now' = t
              /\ records' = [j \in K \cup {k} |->
                               IF j # k THEN records[j]
                               ELSE IF ok THEN recent \cup {t} ELSE recent]
              /\ answer' = [key |-> k, ok |-> ok]
    BY DEF IsAllowed
  <1>2. now \in Nat /\ MaxTime \in Nat
    BY LimiterAssumption DEF LimiterTypeOK
  <1>3. t \in Nat /\ now < t /\ t \in 1..t /\ 1..now \subseteq 1..t
    BY <1>2
  <1>4. \A j \in K : j \in Keys /\ records[j] \subseteq 1..t
    BY <1>3 DEF LimiterTypeOK
  <1>5. k \in K => Within(records[k], t) \subseteq 1..t
    BY <1>4 DEF Within
  <1>6. DOMAIN records' = K \cup {k}
    BY <1>1
  <1>7. \A j \in K \cup {k} : records'[j] \subseteq 1..t
    <2>1. ASSUME NEW j \in K \cup {k}, j # k PROVE records'[j] \subseteq 1..t
      BY <1>1, <1>4, <2>1
    <2>2. records'[k] \subseteq 1..t
      BY <1>1, <1>3, <1>5
    <2> QED BY <2>1, <2>2
  <1>8. records' = [j \in DOMAIN records' |-> records'[j]]
    BY <1>1
  <1>9. answer' \in [key : Keys, ok : BOOLEAN]
    BY <1>1
  <1> QED BY <1>1, <1>3, <1>4, <1>6, <1>7, <1>8, <1>9

\* Every step that is not a stutter is one decision about one key.
LEMMA OneDecision ==
  ASSUME LimiterTypeOK, LimiterNext
  PROVE  \E k \in Keys : IsAllowed(k)
  <1>1. CASE \E k \in Metered : Dispatch(k)
    BY <1>1 DEF Dispatch, Keys
  <1>2. CASE \E u \in UserKeys, ip \in IpKeys : LoginUser(u, ip)
    BY <1>2 DEF LoginUser, Keys
  <1>3. CASE \E ip \in IpKeys : LoginNameless(ip)
    BY <1>3 DEF LoginNameless, Keys
  <1>4. CASE LoginIp
    BY <1>4 DEF LoginIp, LimiterTypeOK, Keys
  <1> QED BY <1>1, <1>2, <1>3, <1>4 DEF LimiterNext

LEMMA TypeInvariance ==
  ASSUME LimiterTypeOK, [LimiterNext]_limiterVars
  PROVE  LimiterTypeOK'
  <1>1. CASE LimiterNext
    <2>1. login' \in IpKeys \cup {None}
      BY <1>1 DEF LimiterTypeOK, LimiterNext, Dispatch, LoginUser, LoginNameless, LoginIp
    <2> QED BY <1>1, <2>1, OneDecision, CheckTypes DEF LimiterTypeOK
  <1>2. CASE UNCHANGED limiterVars
    BY <1>2 DEF LimiterTypeOK, limiterVars
  <1> QED BY <1>1, <1>2

LEMMA InitTypes == LimiterInit => LimiterTypeOK
  BY LimiterAssumption DEF LimiterInit, LimiterTypeOK

\* Type correctness of the limiter, for every instance.
THEOREM LimiterTypeCorrect == LimiterSpec => []LimiterTypeOK
  BY InitTypes, TypeInvariance, PTL DEF LimiterSpec

\* What eviction keeps fits into the cap.
LEMMA EvictBounds ==
  ASSUME LimiterTypeOK, NEW K \in SUBSET DOMAIN records, NEW t, Evict(K, t)
  PROVE  IsFiniteSet(K) /\ Cardinality(K) <= Cap
  <1>1. IsFiniteSet(DOMAIN records)
    BY FS_Subset, LimiterAssumption DEF LimiterTypeOK
  <1>2. IsFiniteSet(K)
    BY <1>1, FS_Subset
  <1>3. Cardinality(K) <= Cap
    <2>1. CASE Cardinality(DOMAIN records) <= Cap
      BY <2>1 DEF Evict
    <2>2. CASE /\ ~(Cardinality(DOMAIN records) <= Cap)
               /\ Cardinality(DOMAIN records \ Stale(t)) <= Cap
      BY <2>2 DEF Evict
    <2>3. CASE /\ ~(Cardinality(DOMAIN records) <= Cap)
               /\ ~(Cardinality(DOMAIN records \ Stale(t)) <= Cap)
      <3>1. Cardinality(K) = Cap
        BY <2>3 DEF Evict
      <3> QED BY <3>1, LimiterAssumption
    <2> QED BY <2>1, <2>2, <2>3
  <1> QED BY <1>2, <1>3

LEMMA AddOne ==
  ASSUME NEW S, IsFiniteSet(S), NEW x
  PROVE  Cardinality(S \cup {x}) \in Nat /\ Cardinality(S \cup {x}) <= Cardinality(S) + 1
  <1>1. Cardinality(S) \in Nat
    BY FS_CardinalityType
  <1>2. CASE x \in S
    <2>1. S \cup {x} = S
      BY <1>2
    <2> QED BY <1>1, <2>1
  <1>3. CASE x \notin S
    <2>1. Cardinality(S \cup {x}) = Cardinality(S) + 1
      BY <1>3, FS_AddElement
    <2> QED BY <1>1, <2>1
  <1> QED BY <1>2, <1>3

LEMMA CheckBounds ==
  ASSUME LimiterTypeOK, NEW k \in Keys, IsAllowed(k)
  PROVE  TableBounded'
  <1>1. PICK t \in (now + 1)..MaxTime, K \in SUBSET DOMAIN records :
          Evict(K, t) /\ DOMAIN records' = K \cup {k}
    BY DEF IsAllowed
  <1>2. IsFiniteSet(K) /\ Cardinality(K) <= Cap /\ Cardinality(K) \in Nat
    BY <1>1, EvictBounds, FS_CardinalityType
  <1>3. Cardinality(K \cup {k}) <= Cardinality(K) + 1
    BY <1>2, AddOne
  <1>4. Cardinality(K \cup {k}) \in Nat
    BY <1>2, AddOne
  <1> QED BY <1>1, <1>2, <1>3, <1>4, LimiterAssumption DEF TableBounded

\* However many callers there are, the table never holds more than Cap + 1.
THEOREM BoundedTable == LimiterSpec => []TableBounded
  <1>1. LimiterInit => TableBounded
    <2>1. LimiterInit => DOMAIN records = {}
      BY DEF LimiterInit
    <2> QED BY <2>1, FS_EmptySet, LimiterAssumption DEF TableBounded
  <1>2. LimiterTypeOK /\ TableBounded /\ [LimiterNext]_limiterVars => TableBounded'
    <2>1. LimiterTypeOK /\ LimiterNext => TableBounded'
      BY OneDecision, CheckBounds
    <2>2. TableBounded /\ UNCHANGED limiterVars => TableBounded'
      BY DEF TableBounded, limiterVars
    <2> QED BY <2>1, <2>2
  <1> QED BY <1>1, <1>2, LimiterTypeCorrect, PTL DEF LimiterSpec

-----------------------------------------------------------------------------
(* Refinement: a decision of the limiter is a decision of the window, which *)
(* forgets the live keys that eviction dropped.                            *)

LEMMA SameCardinality ==
  ASSUME NEW S
  PROVE  SW!Cardinality(S) = Cardinality(S)
  BY DEF SW!Cardinality, Cardinality

LEMMA LiveWithin ==
  ASSUME LimiterTypeOK, NEW t \in Nat, now <= t, NEW j \in Keys
  PROVE  SW!Within(Live[j], t) = IF j \in DOMAIN records THEN Within(records[j], t) ELSE {}
  <1>1. now \in Nat
    BY DEF LimiterTypeOK
  <1>2. CASE j \in DOMAIN records
    <2>1. records[j] \subseteq Nat
      BY <1>1, <1>2 DEF LimiterTypeOK
    <2>2. Live[j] = Within(records[j], now)
      BY <1>2 DEF Live
    <2> QED BY <1>1, <1>2, <2>1, <2>2, WithinTwice DEF SW!Within, Within
  <1>3. CASE j \notin DOMAIN records
    BY <1>3 DEF Live, SW!Within
  <1> QED BY <1>2, <1>3

LEMMA BusyIsAlive ==
  ASSUME LimiterTypeOK, NEW t \in Nat, now <= t
  PROVE  SW!Busy(t) = DOMAIN records \ Stale(t)
  BY LiveWithin DEF SW!Busy, Stale, LimiterTypeOK

LEMMA CheckRefines ==
  ASSUME LimiterTypeOK, NEW k \in Keys, IsAllowed(k)
  PROVE  SW!Next
  <1>1. PICK t \in (now + 1)..MaxTime, K \in SUBSET DOMAIN records :
          LET recent == IF k \in K THEN Within(records[k], t) ELSE {}
              ok     == Cardinality(recent) < Limit[k]
          IN  /\ Evict(K, t)
              /\ now' = t
              /\ records' = [j \in K \cup {k} |->
                               IF j # k THEN records[j]
                               ELSE IF ok THEN recent \cup {t} ELSE recent]
              /\ answer' = [key |-> k, ok |-> ok]
    BY DEF IsAllowed
  <1>2. now \in Nat /\ t \in Nat /\ now <= t
    BY LimiterAssumption DEF LimiterTypeOK
  <1> DEFINE alive  == DOMAIN records \ Stale(t)
             F      == alive \ K
             recent == IF k \in K THEN Within(records[k], t) ELSE {}
             ok     == Cardinality(recent) < Limit[k]
             kept   == [j \in Keys |-> IF j \in F THEN {} ELSE SW!Within(Live[j], t)]
  <1>3. SW!Busy(t) = alive
    BY <1>2, BusyIsAlive
  <1>4. SW!Forgettable(F, t)
    <2> SUFFICES ASSUME F # {}
                 PROVE  /\ Cardinality(alive \ F) = Cap
                        /\ \A f \in F, b \in alive \ F :
                              \A s \in Live[f] : \E r \in Live[b] : s <= r
      BY <1>3, SameCardinality DEF SW!Forgettable
    <2>1. K \subseteq alive /\ Cardinality(K) = Cap /\ Idler(alive \ K, K)
      BY <1>1 DEF Evict
    <2>2. alive \ F = K
      BY <2>1
    <2>3. ASSUME NEW f \in F, NEW b \in K, NEW s \in Live[f]
          PROVE  \E r \in Live[b] : s <= r
      <3>1. f \in DOMAIN records /\ b \in DOMAIN records /\ f \in Keys /\ b \in Keys
        BY DEF LimiterTypeOK
      <3>2. s \in records[f] /\ now - s < Window
        BY <3>1 DEF Live, Within
      <3>3. PICK r \in records[b] : s <= r
        BY <2>1, <2>3, <3>2 DEF Idler
      <3>4. s \in Nat /\ r \in Nat
        BY <1>2, <3>1, <3>2, <3>3 DEF LimiterTypeOK
      <3>5. now - r < Window
        BY <1>2, <3>2, <3>3, <3>4, LimiterAssumption
      <3>6. r \in Live[b]
        BY <3>1, <3>3, <3>5 DEF Live, Within
      <3> QED BY <3>3, <3>6
    <2> QED BY <2>1, <2>2, <2>3
  <1>5. \A j \in Keys : kept[j] = IF j \in K THEN Within(records[j], t) ELSE {}
    <2> SUFFICES ASSUME NEW j \in Keys
                 PROVE  kept[j] = IF j \in K THEN Within(records[j], t) ELSE {}
      OBVIOUS
    <2>1. SW!Within(Live[j], t) = IF j \in DOMAIN records THEN Within(records[j], t) ELSE {}
      BY <1>2, LiveWithin
    <2>2. CASE j \in K
      BY <2>1, <2>2
    <2>3. CASE j \notin K /\ j \in alive
      BY <2>3
    <2>4. CASE j \notin K /\ j \notin alive
      BY <2>1, <2>4 DEF Stale
    <2> QED BY <2>2, <2>3, <2>4
  <1>6. kept[k] = recent
    BY <1>5
  <1>7. Live' = IF ok THEN [kept EXCEPT ![k] = @ \cup {t}] ELSE kept
    <2>1. \A j \in Keys : Live'[j] = IF j \in K \cup {k} THEN Within(records'[j], t) ELSE {}
      BY <1>1 DEF Live
    <2>2. \A j \in Keys \ {k} : Live'[j] = kept[j]
      BY <1>1, <1>5, <2>1
    <2>3. Live'[k] = Within(records'[k], t)
      BY <2>1
    <2>4. recent \subseteq Nat /\ Within(recent, t) = recent
      <3>1. CASE k \in K
        <4>1. records[k] \subseteq Nat
          BY <1>2, <3>1 DEF LimiterTypeOK
        <4> QED BY <1>2, <3>1, <4>1 DEF Within
      <3>2. CASE k \notin K
        BY <3>2 DEF Within
      <3> QED BY <3>1, <3>2
    <2>5. Within(recent \cup {t}, t) = recent \cup {t}
      BY <1>2, <2>4, LimiterAssumption DEF Within
    <2>6. Live'[k] = IF ok THEN kept[k] \cup {t} ELSE kept[k]
      BY <1>1, <1>6, <2>3, <2>4, <2>5
    <2>7. Live' = [j \in Keys |-> Live'[j]]
      BY DEF Live
    <2> HIDE DEF kept, ok, recent
    <2>8. kept = [j \in Keys |-> kept[j]]
      BY DEF kept
    <2> QED BY <2>2, <2>6, <2>7, <2>8
  <1>8. SW!Decide(k, F, t)
    BY <1>1, <1>6, <1>7, SameCardinality DEF SW!Decide
  <1>9. F \in SUBSET SW!Busy(t)
    BY <1>3
  <1> QED BY <1>1, <1>4, <1>8, <1>9 DEF SW!Next

\* The limiter implements the sliding window: no pruning or eviction of dead
\* keys changes a decision, and live keys are forgotten only beyond the cap.
THEOREM LimiterRefinesWindow == LimiterSpec => IsSlidingWindow
  <1>1. LimiterInit => SW!Init
    BY DEF LimiterInit, SW!Init, Live
  <1>2. LimiterTypeOK /\ [LimiterNext]_limiterVars => [SW!Next]_(SW!swVars)
    <2>1. LimiterTypeOK /\ LimiterNext => SW!Next
      BY OneDecision, CheckRefines
    <2>2. UNCHANGED limiterVars => UNCHANGED SW!swVars
      BY DEF limiterVars, SW!swVars, Live
    <2> QED BY <2>1, <2>2
  <1> QED BY <1>1, <1>2, LimiterTypeCorrect, PTL DEF LimiterSpec, IsSlidingWindow, SW!Spec

-----------------------------------------------------------------------------
(* The model client: what a call does with an answer.                      *)

\* The reaction to an answer counts the attempt, never adds the grammar back
\* and never lengthens the message; it goes on only after a failure that
\* another request may avoid, and then with a request that differs from the
\* one that met a deterministic failure.
LEMMA Reaction ==
  ASSUME NEW k \in CallSet, k.at = "post", k.attempt < MaxRetries,
         NEW a \in AnswerSet
  PROVE  LET r == React(k, a) IN
         /\ r \in CallSet
         /\ r.at \in {"post", "answered"}
         /\ r.kind = k.kind /\ r.backend = k.backend
         /\ r.grammar => k.grammar
         /\ r.length <= k.length
         /\ r.at = "post" =>
               /\ r.attempt < MaxRetries
               /\ a.failure \in {"transient", "grammar", "context"}
               /\ a.failure = "grammar" => ~ r.grammar
               /\ a.failure = "context" => r.length < k.length
  <1> DEFINE stripped == [k EXCEPT !.grammar = FALSE]
             halved == [k EXCEPT !.length = @ \div 2]
  <1>1. MaxRetries \in Nat \ {0} BY ClientAssumption
  <1>2. a.failure \in {"none", "transient", "rejected", "context", "grammar"}
    BY DEF AnswerSet, Answer, Served, Failures, Replies
  <1>3. k.attempt + 1 \in 0 .. MaxRetries BY <1>1 DEF CallSet
  <1>4. ASSUME NEW m \in CallSet, m.attempt = k.attempt, m.at = "post"
        PROVE  /\ Leave(m) \in CallSet /\ Leave(m).at = "answered"
               /\ Leave(m).kind = m.kind /\ Leave(m).backend = m.backend
               /\ Leave(m).grammar = m.grammar /\ Leave(m).length = m.length
    BY <1>3, <1>4 DEF Leave, CallSet, Stages
  <1>5. ASSUME NEW m \in CallSet, m.attempt = k.attempt, m.at = "post"
        PROVE  /\ Again(m) \in CallSet /\ Again(m).at \in {"post", "answered"}
               /\ Again(m).kind = m.kind /\ Again(m).backend = m.backend
               /\ Again(m).grammar = m.grammar /\ Again(m).length = m.length
               /\ Again(m).at = "post" => Again(m).attempt < MaxRetries
    <2>1. CASE m.attempt + 1 < MaxRetries
      BY <1>3, <1>5, <2>1 DEF Again, CallSet, Stages
    <2>2. CASE ~ (m.attempt + 1 < MaxRetries)
      <3>1. Again(m) = Leave(m) BY <2>2 DEF Again
      <3> QED BY <1>4, <1>5, <3>1
    <2> QED BY <2>1, <2>2
  <1>6. CASE a.failure \in {"none", "rejected"}
    <2>1. React(k, a) = Leave(k) BY <1>6 DEF React
    <2>2. k.length \in Nat BY DEF CallSet
    <2> HIDE DEF React
    <2> QED BY <1>4, <2>1, <2>2
  <1>7. CASE a.failure = "transient"
    <2>1. React(k, a) = Again(k) BY <1>7 DEF React
    <2>2. k.length \in Nat BY DEF CallSet
    <2> QED BY <1>5, <1>7, <2>1, <2>2
  <1>8. CASE a.failure = "grammar"
    <2>1. React(k, a) = Again(stripped) BY <1>8 DEF React
    <2>2. /\ stripped \in CallSet /\ stripped.attempt = k.attempt /\ stripped.at = "post"
          /\ stripped.kind = k.kind /\ stripped.backend = k.backend
          /\ stripped.length = k.length /\ stripped.grammar = FALSE
          /\ k.length \in Nat
      BY DEF CallSet
    <2> HIDE DEF stripped
    <2> QED BY <1>5, <1>8, <2>1, <2>2
  <1>9. CASE a.failure = "context" /\ (k.length > Short /\ IsText(k.kind))
    <2>1. React(k, a) = Again(halved) BY <1>9 DEF React
    <2>2. k.length \in Nat /\ k.length \div 2 \in Nat /\ k.length \div 2 < k.length
      BY <1>9 DEF CallSet, Short
    <2>3. /\ halved \in CallSet /\ halved.attempt = k.attempt /\ halved.at = "post"
          /\ halved.kind = k.kind /\ halved.backend = k.backend
          /\ halved.length = k.length \div 2 /\ halved.grammar = k.grammar
      BY <2>2 DEF CallSet
    <2> HIDE DEF halved
    <2> QED BY <1>5, <1>9, <2>1, <2>2, <2>3
  <1>10. CASE a.failure = "context" /\ ~ (k.length > Short /\ IsText(k.kind))
    <2>1. React(k, a) = Leave(k) BY <1>10 DEF React
    <2>2. k.length \in Nat BY DEF CallSet
    <2> QED BY <1>4, <1>10, <2>1, <2>2
  <1> QED BY <1>2, <1>6, <1>7, <1>8, <1>9, <1>10

-----------------------------------------------------------------------------
(* The inductive invariant                                                 *)

\* A call that is still trying has an attempt left.
AttemptsLeft ==
    \A c \in Calls : call[c].at \notin {"answered", "done"} => call[c].attempt < MaxRetries

\* The save that every field of the client is at least as new as.
Applied == IF writes = << >> THEN stored ELSE stored - 1

\* A running reload has assigned the fields it no longer has to.
Swapping ==
    /\ writes \in {<< >>, <<"model">>, <<"api_key", "model">>, Assignments}
    /\ Applied >= 0
    /\ \A f \in Fields : client[f] \in Applied .. stored
    /\ writes # Assignments => client["base_url"] = stored
    /\ writes \in {<< >>, <<"model">>} => client["api_key"] = stored
    /\ writes = << >> => client["model"] = stored

\* The fields a call has captured are no older than its beginning.
Captured ==
    \A c \in Calls :
        /\ since[c] <= Applied
        /\ call[c].at \in {"url", "key", "post", "answered", "done"} =>
               call[c].backend["model"] \in since[c] .. stored
        /\ call[c].at \in {"key", "post", "answered", "done"} =>
               call[c].backend["base_url"] \in since[c] .. stored
        /\ call[c].at \in {"post", "answered", "done"} =>
               call[c].backend["api_key"] \in since[c] .. stored

\* A request with grammar g and length n may follow the answered request q.
Follows(q, g, n) ==
    /\ q.answer.failure \in {"transient", "grammar", "context"}
    /\ g => q.grammar
    /\ n <= q.length
    /\ q.answer.failure = "grammar" => ~ g
    /\ q.answer.failure = "context" => n < q.length

\* Each request of a call follows all of the earlier ones.
Lightening ==
    \A c \in Calls :
        /\ call[c].at \in {"idle", "model", "url", "key"} => sent[c] = << >>
        /\ call[c].at = "post" => \A i \in 1 .. Len(sent[c]) :
               Follows(sent[c][i], call[c].grammar, call[c].length)
        /\ \A i, j \in 1 .. Len(sent[c]) : i < j =>
               Follows(sent[c][i], sent[c][j].grammar, sent[c][j].length)
        /\ \A i \in 1 .. Len(sent[c]) :
               sent[c][i].answer.failure = "grammar" => sent[c][i].grammar
        /\ call[c].at \in {"answered", "done"} => Len(sent[c]) # 0

Inv == TypeOK /\ AttemptsLeft /\ Swapping /\ Captured /\ Lightening

\* Nothing has begun in the initial state.
LEMMA InitInv == Init => Inv
  <1> SUFFICES ASSUME Init PROVE Inv OBVIOUS
  <1>1. MaxRetries \in Nat \ {0} /\ MaxSaves \in Nat BY ClientAssumption
  <1>2. Idle \in CallSet
    BY <1>1 DEF Idle, CallSet, Stages, Kinds, Fields
  <1>3. TypeOK
    <2>1. << >> \in Seq(Fields) /\ << >> \in Seq(RequestSet) OBVIOUS
    <2>2. stored = 0 /\ stored \in 0 .. MaxSaves BY <1>1 DEF Init
    <2>3. client \in [Fields -> 0 .. MaxSaves] /\ since \in [Calls -> 0 .. MaxSaves]
      BY <1>1 DEF Init
    <2>4. NoResult \in [text : {"pending", "reply", "nothing", "object", "empty"},
                        reason : Reasons, error : BOOLEAN]
      BY DEF NoResult, Reasons
    <2>5. "none" \in Reasons BY DEF Reasons
    <2> QED BY <1>2, <2>1, <2>2, <2>3, <2>4, <2>5 DEF Init, TypeOK
  <1>4. AttemptsLeft BY <1>1 DEF Init, AttemptsLeft, Idle
  <1>5. Swapping BY DEF Init, Swapping, Applied, Fields
  <1>6. Captured
    <2>1. \A c \in Calls : call[c].at = "idle" /\ since[c] = 0 BY DEF Init, Idle
    <2>2. Applied = 0 BY DEF Init, Applied
    <2>3. \A c \in Calls : since[c] <= Applied
      <3>1. 0 <= 0 OBVIOUS
      <3> QED BY <2>1, <2>2, <3>1
    <2>4. \A c \in Calls : call[c].at \notin {"url", "key", "post", "answered", "done"}
      BY <2>1
    <2> QED BY <2>3, <2>4 DEF Captured
  <1>7. Lightening
    <2>1. \A c \in Calls : sent[c] = << >> /\ call[c].at = "idle" BY DEF Init, Idle
    <2>2. Len(<< >>) = 0 OBVIOUS
    <2>3. \A c \in Calls : Len(sent[c]) = 0 BY <2>1, <2>2
    <2>4. 1 .. 0 = {} OBVIOUS
    <2> QED BY <2>1, <2>3, <2>4 DEF Lightening
  <1> QED BY <1>3, <1>4, <1>5, <1>6, <1>7 DEF Inv

\* A request and its answer extend the record of a call consistently.
LEMMA PostLightens ==
  ASSUME Inv, NEW c \in Calls, Post(c)
  PROVE  Lightening'
  <1>1. call \in [Calls -> CallSet] /\ sent \in [Calls -> Seq(RequestSet)]
    BY DEF Inv, TypeOK
  <1>2. call[c] \in CallSet /\ call[c].at = "post" /\ call[c].attempt < MaxRetries
    BY <1>1 DEF Inv, AttemptsLeft, Post
  <1>3. PICK a \in Answers(c) :
           /\ sent' = [sent EXCEPT ![c] = Append(@,
                         [grammar |-> call[c].grammar, length |-> call[c].length,
                          answer |-> a])]
           /\ call' = [call EXCEPT ![c] = React(@, a)]
    BY DEF Post
  <1>4. a \in AnswerSet /\ (a.failure = "grammar" => call[c].grammar)
    BY DEF Answers, AnswerSet, Answer, Served, Replies
  <1> DEFINE q == [grammar |-> call[c].grammar, length |-> call[c].length, answer |-> a]
             r == React(call[c], a)
             s == sent[c]
  <1>5. q \in RequestSet /\ s \in Seq(RequestSet)
    BY <1>1, <1>2, <1>4 DEF RequestSet, CallSet
  <1>6. /\ r \in CallSet
        /\ r.at \in {"post", "answered"}
        /\ r.grammar => call[c].grammar
        /\ r.length <= call[c].length
        /\ r.at = "post" =>
               /\ a.failure \in {"transient", "grammar", "context"}
               /\ a.failure = "grammar" => ~ r.grammar
               /\ a.failure = "context" => r.length < call[c].length
    BY <1>2, <1>4, Reaction
  <1>7. call'[c] = r /\ sent'[c] = Append(s, q) BY <1>1, <1>3
  <1>8. \A d \in Calls \ {c} : call'[d] = call[d] /\ sent'[d] = sent[d] BY <1>1, <1>3
  <1>9. /\ Len(Append(s, q)) = Len(s) + 1 /\ Len(s) \in Nat
        /\ \A i \in 1 .. Len(s) : Append(s, q)[i] = s[i] /\ s[i] \in RequestSet
        /\ Append(s, q)[Len(s) + 1] = q
    BY <1>5
  <1>10. \A i \in 1 .. Len(s) : Follows(s[i], call[c].grammar, call[c].length)
    BY <1>2 DEF Inv, Lightening
  <1> HIDE DEF q, r, s
  <1>11. /\ q.grammar = call[c].grammar /\ q.length = call[c].length /\ q.answer = a
    BY DEF q
  <1>12. call[c].length \in Nat /\ r.length \in Nat BY <1>2, <1>6 DEF CallSet
  <1>13. r.at = "post" => \A i \in 1 .. Len(s) + 1 :
            Follows(Append(s, q)[i], r.grammar, r.length)
    <2> SUFFICES ASSUME r.at = "post", NEW i \in 1 .. Len(s) + 1
                 PROVE  Follows(Append(s, q)[i], r.grammar, r.length)
      OBVIOUS
    <2>1. CASE i = Len(s) + 1 BY <1>6, <1>9, <1>11, <2>1 DEF Follows
    <2>2. CASE i \in 1 .. Len(s)
      <3>1. s[i].length \in Nat BY <1>9, <2>2 DEF RequestSet
      <3> QED BY <1>6, <1>9, <1>10, <1>12, <2>2, <3>1 DEF Follows
    <2> QED BY <1>9, <2>1, <2>2
  <1>14. \A i, j \in 1 .. Len(s) + 1 : i < j =>
            Follows(Append(s, q)[i], Append(s, q)[j].grammar, Append(s, q)[j].length)
    <2> SUFFICES ASSUME NEW i \in 1 .. Len(s) + 1, NEW j \in 1 .. Len(s) + 1, i < j
                 PROVE  Follows(Append(s, q)[i], Append(s, q)[j].grammar,
                                Append(s, q)[j].length)
      OBVIOUS
    <2>1. i \in 1 .. Len(s) BY <1>9
    <2>2. CASE j = Len(s) + 1 BY <1>9, <1>10, <1>11, <2>1, <2>2
    <2>3. CASE j \in 1 .. Len(s) BY <1>9, <2>1, <2>3 DEF Inv, Lightening, s
    <2> QED BY <1>9, <2>2, <2>3
  <1>15. \A i \in 1 .. Len(s) + 1 :
            Append(s, q)[i].answer.failure = "grammar" => Append(s, q)[i].grammar
    <2> SUFFICES ASSUME NEW i \in 1 .. Len(s) + 1,
                        Append(s, q)[i].answer.failure = "grammar"
                 PROVE  Append(s, q)[i].grammar
      OBVIOUS
    <2>1. CASE i = Len(s) + 1 BY <1>4, <1>9, <1>11, <2>1
    <2>2. CASE i \in 1 .. Len(s) BY <1>9, <2>2 DEF Inv, Lightening, s
    <2> QED BY <1>9, <2>1, <2>2
  <1>16. Len(sent'[c]) = Len(s) + 1 BY <1>7, <1>9
  <1> SUFFICES ASSUME NEW d \in Calls
               PROVE  /\ call'[d].at \in {"idle", "model", "url", "key"} => sent'[d] = << >>
                      /\ call'[d].at = "post" => \A i \in 1 .. Len(sent'[d]) :
                             Follows(sent'[d][i], call'[d].grammar, call'[d].length)
                      /\ \A i, j \in 1 .. Len(sent'[d]) : i < j =>
                             Follows(sent'[d][i], sent'[d][j].grammar, sent'[d][j].length)
                      /\ \A i \in 1 .. Len(sent'[d]) :
                             sent'[d][i].answer.failure = "grammar" => sent'[d][i].grammar
                      /\ call'[d].at \in {"answered", "done"} => Len(sent'[d]) # 0
    BY DEF Lightening
  <1>17. CASE d = c
    <2>1. call'[d].at \in {"post", "answered"} BY <1>6, <1>7, <1>17
    <2>2. Len(sent'[d]) # 0 BY <1>9, <1>16, <1>17
    <2> QED BY <1>7, <1>13, <1>14, <1>15, <1>16, <1>17, <2>1, <2>2
  <1>18. CASE d # c BY <1>8, <1>18 DEF Inv, Lightening
  <1> QED BY <1>17, <1>18

\* A call that captures a field from the client captures one in force.
LEMMA CaptureKeeps ==
  ASSUME Inv, NEW c \in Calls, NEW at \in Stages, NEW field \in Fields,
         NEW next \in Stages, Capture(c, at, field, next),
         \/ at = "model" /\ field = "model" /\ next = "url"
         \/ at = "url" /\ field = "base_url" /\ next = "key"
         \/ at = "key" /\ field = "api_key" /\ next = "post"
  PROVE  Inv'
  <1>1. call \in [Calls -> CallSet] /\ stored \in 0 .. MaxSaves /\ MaxSaves \in Nat
        /\ client \in [Fields -> 0 .. MaxSaves] /\ since \in [Calls -> 0 .. MaxSaves]
    BY ClientAssumption DEF Inv, TypeOK
  <1>2. UNCHANGED <<stored, client, writes, sent, result, last_finish_reason,
                    last_json_error, since>>
    BY DEF Capture
  <1> DEFINE b == [call[c].backend EXCEPT ![field] = client[field]]
             k == [call[c] EXCEPT !.at = next, !.backend = b]
  <1>3. call[c] \in CallSet /\ call[c].at = at BY <1>1 DEF Capture
  <1>4. call' = [call EXCEPT ![c] = k] BY DEF Capture
  <1>5. client[field] \in 0 .. MaxSaves BY <1>1
  <1>6. b \in [Fields -> 0 .. MaxSaves] BY <1>3, <1>5 DEF CallSet
  <1>7. /\ k \in CallSet /\ k.at = next /\ k.backend = b
        /\ k.attempt = call[c].attempt /\ k.grammar = call[c].grammar
        /\ k.length = call[c].length
    BY <1>3, <1>6 DEF CallSet
  <1>8. /\ b[field] = client[field]
        /\ \A f \in Fields \ {field} : b[f] = call[c].backend[f]
    BY <1>3 DEF CallSet
  <1> HIDE DEF b, k
  <1>9. call'[c] = k /\ \A d \in Calls \ {c} : call'[d] = call[d] BY <1>1, <1>4
  <1>10. TypeOK'
    <2>1. call' \in [Calls -> CallSet] BY <1>1, <1>4, <1>7
    <2> QED BY <1>2, <2>1 DEF Inv, TypeOK
  <1>11. AttemptsLeft'
    <2>1. call[c].attempt < MaxRetries BY <1>3 DEF Inv, AttemptsLeft
    <2> QED BY <1>7, <1>9, <2>1 DEF Inv, AttemptsLeft
  <1>12. Swapping' BY <1>2 DEF Inv, Swapping, Applied
  <1>13. Applied' = Applied BY <1>2 DEF Applied
  <1>14. Captured'
    <2>1. Applied \in Int /\ since[c] \in Int /\ since[c] <= Applied
      BY <1>1 DEF Inv, Captured, Applied
    <2>2. client[field] \in Applied .. stored BY DEF Inv, Swapping
    <2>3. client[field] \in since[c] .. stored BY <1>1, <2>1, <2>2
    <2>4. "model" \in Fields /\ "base_url" \in Fields /\ "api_key" \in Fields BY DEF Fields
    <2>5. ASSUME NEW d \in Calls, d # c
          PROVE  call'[d] = call[d] /\ since'[d] = since[d] /\ stored' = stored
      BY <1>2, <1>9, <2>5
    <2>6. CASE at = "model" /\ field = "model" /\ next = "url"
      <3>1. k.at = "url" /\ k.backend["model"] \in since[c] .. stored
        BY <1>7, <1>8, <2>3, <2>6
      <3>2. /\ since'[c] <= Applied' /\ call'[c].at = "url"
            /\ call'[c].backend["model"] \in since'[c] .. stored'
        BY <1>2, <1>9, <1>13, <2>1, <3>1
      <3> QED BY <1>13, <2>5, <3>2 DEF Inv, Captured
    <2>7. CASE at = "url" /\ field = "base_url" /\ next = "key"
      <3>1. call[c].backend["model"] \in since[c] .. stored BY <1>3, <2>7 DEF Inv, Captured
      <3>2. /\ k.at = "key" /\ k.backend["base_url"] \in since[c] .. stored
            /\ k.backend["model"] \in since[c] .. stored
        BY <1>7, <1>8, <2>3, <2>4, <2>7, <3>1
      <3>3. /\ since'[c] <= Applied' /\ call'[c].at = "key"
            /\ call'[c].backend["model"] \in since'[c] .. stored'
            /\ call'[c].backend["base_url"] \in since'[c] .. stored'
        BY <1>2, <1>9, <1>13, <2>1, <3>2
      <3> QED BY <1>13, <2>5, <3>3 DEF Inv, Captured
    <2>8. CASE at = "key" /\ field = "api_key" /\ next = "post"
      <3>1. /\ call[c].backend["model"] \in since[c] .. stored
            /\ call[c].backend["base_url"] \in since[c] .. stored
        BY <1>3, <2>8 DEF Inv, Captured
      <3>2. /\ k.at = "post" /\ k.backend["api_key"] \in since[c] .. stored
            /\ k.backend["base_url"] \in since[c] .. stored
            /\ k.backend["model"] \in since[c] .. stored
        BY <1>7, <1>8, <2>3, <2>4, <2>8, <3>1
      <3>3. /\ since'[c] <= Applied' /\ call'[c].at = "post"
            /\ call'[c].backend["model"] \in since'[c] .. stored'
            /\ call'[c].backend["base_url"] \in since'[c] .. stored'
            /\ call'[c].backend["api_key"] \in since'[c] .. stored'
        BY <1>2, <1>9, <1>13, <2>1, <3>2
      <3> QED BY <1>13, <2>5, <3>3 DEF Inv, Captured
    <2> QED BY <2>6, <2>7, <2>8
  <1>15. Lightening'
    <2>1. call[c].at \in {"model", "url", "key"} BY <1>3
    <2>2. sent[c] = << >> BY <2>1 DEF Inv, Lightening
    <2>3. Len(sent[c]) = 0 /\ 1 .. 0 = {} BY <2>2
    <2>4. sent' = sent BY <1>2
    <2>5. call'[c].at \in {"url", "key", "post"} BY <1>7, <1>9
    <2> QED BY <1>9, <2>2, <2>3, <2>4, <2>5 DEF Inv, Lightening
  <1> QED BY <1>10, <1>11, <1>12, <1>14, <1>15 DEF Inv

\* A save makes every field of the client one save older.
LEMMA SaveKeeps == Inv /\ SaveSettings => Inv'
  <1> SUFFICES ASSUME Inv, SaveSettings PROVE Inv' OBVIOUS
  <1>1. /\ stored \in 0 .. MaxSaves /\ MaxSaves \in Nat /\ stored < MaxSaves
        /\ stored' = stored + 1 /\ writes = << >> /\ writes' = Assignments
        /\ UNCHANGED <<client, call, sent, result, last_finish_reason,
                       last_json_error, since>>
    BY ClientAssumption DEF Inv, TypeOK, SaveSettings
  <1>2. Assignments \in Seq(Fields) /\ Assignments # << >>
        /\ Assignments # <<"model">> /\ Assignments # <<"api_key", "model">>
    BY DEF Assignments, Fields
  <1>3. Applied = stored /\ Applied' = stored BY <1>1, <1>2 DEF Applied
  <1>4. TypeOK'
    <2>1. stored' \in 0 .. MaxSaves BY <1>1
    <2>2. writes' \in Seq(Fields) BY <1>1, <1>2
    <2> QED BY <1>1, <2>1, <2>2 DEF Inv, TypeOK
  <1>5. AttemptsLeft' BY <1>1 DEF Inv, AttemptsLeft
  <1>6. Swapping'
    <2>1. \A f \in Fields : client[f] \in stored .. stored BY <1>3 DEF Inv, Swapping
    <2>2. \A f \in Fields : client[f] \in stored .. stored + 1 BY <1>1, <2>1
    <2> QED BY <1>1, <1>2, <1>3, <2>2 DEF Swapping
  <1>7. Captured'
    <2>1. \A c \in Calls : since[c] \in Int
      <3>1. since \in [Calls -> 0 .. MaxSaves] BY DEF Inv, TypeOK
      <3> QED BY <1>1, <3>1
    <2>2. \A c \in Calls : since[c] .. stored \subseteq since[c] .. stored + 1
      BY <1>1, <2>1
    <2> QED BY <1>1, <1>3, <2>2 DEF Inv, Captured
  <1>8. Lightening' BY <1>1 DEF Inv, Lightening
  <1> QED BY <1>4, <1>5, <1>6, <1>7, <1>8 DEF Inv

\* A reload assigns its fields in order; the last one applies the save.
LEMMA AssignKeeps == Inv /\ AssignField => Inv'
  <1> SUFFICES ASSUME Inv, AssignField PROVE Inv' OBVIOUS
  <1>1. /\ stored \in 0 .. MaxSaves /\ MaxSaves \in Nat /\ writes # << >>
        /\ client \in [Fields -> 0 .. MaxSaves]
        /\ client' = [client EXCEPT ![Head(writes)] = stored]
        /\ writes' = Tail(writes)
        /\ UNCHANGED <<stored, call, sent, result, last_finish_reason,
                       last_json_error, since>>
    BY ClientAssumption DEF Inv, TypeOK, AssignField
  <1>2. writes \in {<<"model">>, <<"api_key", "model">>, <<"base_url", "api_key", "model">>}
    BY <1>1 DEF Inv, Swapping, Assignments
  <1>3. Applied = stored - 1 BY <1>1 DEF Applied
  <1>4. /\ Head(<<"model">>) = "model" /\ Tail(<<"model">>) = << >>
        /\ Head(<<"api_key", "model">>) = "api_key"
        /\ Tail(<<"api_key", "model">>) = <<"model">>
        /\ Head(<<"base_url", "api_key", "model">>) = "base_url"
        /\ Tail(<<"base_url", "api_key", "model">>) = <<"api_key", "model">>
    OBVIOUS
  <1>5. Head(writes) \in Fields /\ writes' \in Seq(Fields)
    <2>1. << >> \in Seq(Fields) /\ <<"model">> \in Seq(Fields)
          /\ <<"api_key", "model">> \in Seq(Fields)
      BY DEF Fields
    <2>2. Head(writes) \in Fields BY <1>2, <1>4 DEF Fields
    <2>3. writes' \in {<< >>, <<"model">>, <<"api_key", "model">>} BY <1>1, <1>2, <1>4
    <2> QED BY <2>1, <2>2, <2>3
  <1>6. Applied' \in {stored - 1, stored} BY <1>1 DEF Applied
  <1>7. TypeOK' BY <1>1, <1>5 DEF Inv, TypeOK
  <1>8. AttemptsLeft' BY <1>1 DEF Inv, AttemptsLeft
  <1>9. Swapping'
    <2>1. client'[Head(writes)] = stored
          /\ \A f \in Fields \ {Head(writes)} : client'[f] = client[f]
      BY <1>1, <1>5
    <2>2. Fields = {"base_url", "api_key", "model"} BY DEF Fields
    <2>3. \A f \in Fields : client[f] \in stored - 1 .. stored
      BY <1>3 DEF Inv, Swapping
    <2>4. stored - 1 >= 0 BY <1>3 DEF Inv, Swapping
    <2>5. CASE writes = <<"base_url", "api_key", "model">>
      <3>1. writes' = <<"api_key", "model">> /\ Head(writes) = "base_url"
        BY <1>1, <1>4, <2>5
      <3>2. Applied' = stored - 1 /\ stored' = stored
        <4>1. writes' # << >> BY <3>1
        <4> QED BY <1>1, <4>1 DEF Applied
      <3>3. client'["base_url"] = stored BY <2>1, <3>1
      <3>4. \A f \in Fields : client'[f] \in stored - 1 .. stored
        BY <1>1, <2>1, <2>3, <2>4
      <3>5. writes' # << >> /\ writes' # <<"model">> BY <3>1
      <3> QED BY <2>4, <3>1, <3>2, <3>3, <3>4, <3>5 DEF Swapping
    <2>6. CASE writes = <<"api_key", "model">>
      <3>1. writes' = <<"model">> /\ Head(writes) = "api_key" BY <1>1, <1>4, <2>6
      <3>2. Applied' = stored - 1 /\ stored' = stored
        <4>1. writes' # << >> BY <3>1
        <4> QED BY <1>1, <4>1 DEF Applied
      <3>3. client["base_url"] = stored
        <4>1. writes # Assignments BY <2>6 DEF Assignments
        <4> QED BY <4>1 DEF Inv, Swapping
      <3>4. client'["api_key"] = stored /\ client'["base_url"] = stored
        BY <2>1, <2>2, <3>1, <3>3
      <3>5. \A f \in Fields : client'[f] \in stored - 1 .. stored
        BY <1>1, <2>1, <2>3, <2>4
      <3>6. writes' # << >> BY <3>1
      <3> QED BY <2>4, <3>1, <3>2, <3>4, <3>5, <3>6 DEF Swapping
    <2>7. CASE writes = <<"model">>
      <3>1. writes' = << >> /\ Head(writes) = "model" BY <1>1, <1>4, <2>7
      <3>2. Applied' = stored /\ stored' = stored BY <1>1, <3>1 DEF Applied
      <3>3. client["base_url"] = stored /\ client["api_key"] = stored
        <4>1. writes # Assignments BY <2>7 DEF Assignments
        <4> QED BY <2>7, <4>1 DEF Inv, Swapping
      <3>4. \A f \in Fields : client'[f] = stored BY <2>1, <2>2, <3>1, <3>3
      <3>5. "model" \in Fields /\ "api_key" \in Fields /\ "base_url" \in Fields BY <2>2
      <3>6. stored \in stored .. stored /\ stored >= 0 BY <1>1
      <3> QED BY <3>1, <3>2, <3>4, <3>5, <3>6 DEF Swapping
    <2> QED BY <1>2, <2>5, <2>6, <2>7
  <1>10. Captured'
    <2>1. \A c \in Calls : since[c] \in Int /\ since[c] <= stored - 1
      <3>1. since \in [Calls -> 0 .. MaxSaves] BY DEF Inv, TypeOK
      <3> QED BY <1>1, <1>3, <3>1 DEF Inv, Captured
    <2>2. \A c \in Calls : since[c] <= Applied' BY <1>1, <1>6, <2>1
    <2> QED BY <1>1, <2>2 DEF Inv, Captured
  <1>11. Lightening' BY <1>1 DEF Inv, Lightening
  <1> QED BY <1>7, <1>8, <1>9, <1>10, <1>11 DEF Inv

\* A call begins with the backend in force and nothing sent.
LEMMA BeginKeeps == ASSUME Inv, NEW c \in Calls, Begin(c) PROVE Inv'
  <1>1. /\ call \in [Calls -> CallSet] /\ since \in [Calls -> 0 .. MaxSaves]
        /\ MaxSaves \in Nat /\ stored \in 0 .. MaxSaves /\ MaxPrompt \in Nat
        /\ Lengths \subseteq Nat
    BY ClientAssumption DEF Inv, TypeOK
  <1>2. PICK kind \in Uses[c], n \in Lengths :
           /\ call' = [call EXCEPT ![c] = [@ EXCEPT
                        !.at = "model", !.kind = kind, !.length = Guarded(kind, n),
                        !.grammar = (kind \in {"json", "strict"})]]
           /\ last_json_error' = IF kind = "json" THEN FALSE ELSE last_json_error
    BY DEF Begin
  <1>3. /\ call[c].at = "idle"
        /\ since' = [since EXCEPT ![c] = Applied]
        /\ UNCHANGED <<stored, client, writes, sent, result, last_finish_reason>>
    BY DEF Begin, Applied
  <1>4. Guarded(kind, n) \in Nat /\ kind \in Kinds
    BY <1>1, ClientAssumption DEF Guarded, Safety
  <1> DEFINE k == [call[c] EXCEPT !.at = "model", !.kind = kind, !.length = Guarded(kind, n),
                                  !.grammar = (kind \in {"json", "strict"})]
  <1>5. (kind \in {"json", "strict"}) \in BOOLEAN OBVIOUS
  <1>6. call[c] \in CallSet BY <1>1
  <1>7. k \in CallSet /\ k.at = "model" /\ k.attempt = call[c].attempt
    BY <1>4, <1>5, <1>6 DEF CallSet, Stages
  <1>8. call' = [call EXCEPT ![c] = k] BY <1>2
  <1> HIDE DEF k
  <1>9. call'[c] = k /\ \A d \in Calls \ {c} : call'[d] = call[d] BY <1>1, <1>8
  <1>10. Applied \in 0 .. MaxSaves /\ Applied' = Applied
    BY <1>1, <1>3 DEF Inv, Swapping, Applied
  <1>11. since'[c] = Applied /\ \A d \in Calls \ {c} : since'[d] = since[d]
    BY <1>1, <1>3
  <1>12. TypeOK'
    <2>1. call' \in [Calls -> CallSet] BY <1>1, <1>7, <1>8
    <2>2. since' \in [Calls -> 0 .. MaxSaves] BY <1>1, <1>3, <1>10
    <2>3. last_json_error' \in BOOLEAN BY <1>2 DEF Inv, TypeOK
    <2> QED BY <1>3, <2>1, <2>2, <2>3 DEF Inv, TypeOK
  <1>13. AttemptsLeft'
    <2>1. call[c].attempt < MaxRetries BY <1>3 DEF Inv, AttemptsLeft
    <2> QED BY <1>7, <1>9, <2>1 DEF Inv, AttemptsLeft
  <1>14. Swapping' BY <1>3 DEF Inv, Swapping, Applied
  <1>15. Captured'
    <2>1. since'[c] <= Applied' BY <1>1, <1>10, <1>11
    <2>2. call'[c].at = "model" BY <1>7, <1>9
    <2> QED BY <1>3, <1>9, <1>10, <1>11, <2>1, <2>2 DEF Inv, Captured
  <1>16. Lightening'
    <2>1. sent[c] = << >> BY <1>3 DEF Inv, Lightening
    <2>2. Len(sent[c]) = 0 /\ 1 .. 0 = {} BY <2>1
    <2>3. call'[c].at = "model" /\ sent' = sent BY <1>3, <1>7, <1>9
    <2> QED BY <1>9, <2>1, <2>2, <2>3 DEF Inv, Lightening
  <1> QED BY <1>12, <1>13, <1>14, <1>15, <1>16 DEF Inv

\* A request uses up an attempt.
LEMMA PostKeeps == ASSUME Inv, NEW c \in Calls, Post(c) PROVE Inv'
  <1>1. call \in [Calls -> CallSet] /\ sent \in [Calls -> Seq(RequestSet)]
    BY DEF Inv, TypeOK
  <1>2. call[c] \in CallSet /\ call[c].at = "post" /\ call[c].attempt < MaxRetries
    BY <1>1 DEF Inv, AttemptsLeft, Post
  <1>3. PICK a \in Answers(c) :
           /\ sent' = [sent EXCEPT ![c] = Append(@,
                         [grammar |-> call[c].grammar, length |-> call[c].length,
                          answer |-> a])]
           /\ call' = [call EXCEPT ![c] = React(@, a)]
           /\ last_finish_reason' = IF a.failure = "none" THEN a.reason
                                    ELSE last_finish_reason
    BY DEF Post
  <1>4. UNCHANGED <<stored, client, writes, result, last_json_error, since>> BY DEF Post
  <1>5. a \in AnswerSet /\ a.reason \in Reasons
    BY DEF Answers, AnswerSet, Answer, Served, Replies, Reasons
  <1> DEFINE q == [grammar |-> call[c].grammar, length |-> call[c].length, answer |-> a]
             r == React(call[c], a)
  <1>6. r \in CallSet /\ r.at \in {"post", "answered"} /\ r.backend = call[c].backend
        /\ (r.at = "post" => r.attempt < MaxRetries)
    BY <1>2, <1>5, Reaction
  <1>7. q \in RequestSet BY <1>2, <1>5 DEF RequestSet, CallSet
  <1>8. call' = [call EXCEPT ![c] = r] /\ sent' = [sent EXCEPT ![c] = Append(@, q)]
    BY <1>3
  <1> HIDE DEF q, r
  <1>9. call'[c] = r /\ \A d \in Calls \ {c} : call'[d] = call[d] BY <1>1, <1>8
  <1>10. TypeOK'
    <2>1. call' \in [Calls -> CallSet] BY <1>1, <1>6, <1>8
    <2>2. Append(sent[c], q) \in Seq(RequestSet) BY <1>1, <1>7
    <2>3. sent' \in [Calls -> Seq(RequestSet)] BY <1>1, <1>8, <2>2
    <2>4. last_finish_reason' \in Reasons BY <1>3, <1>5 DEF Inv, TypeOK
    <2> QED BY <1>4, <2>1, <2>3, <2>4 DEF Inv, TypeOK
  <1>11. AttemptsLeft' BY <1>6, <1>9 DEF Inv, AttemptsLeft
  <1>12. Swapping' BY <1>4 DEF Inv, Swapping, Applied
  <1>13. Captured'
    <2>1. Applied' = Applied BY <1>4 DEF Applied
    <2>2. call'[c].at \in {"post", "answered"} /\ call'[c].backend = call[c].backend
      BY <1>6, <1>9
    <2> QED BY <1>2, <1>4, <1>9, <2>1, <2>2 DEF Inv, Captured
  <1> QED BY <1>10, <1>11, <1>12, <1>13, PostLightens DEF Inv

\* A result is handed over; nothing else of the call changes.
LEMMA ReturnKeeps == ASSUME Inv, NEW c \in Calls, Return(c) PROVE Inv'
  <1>1. call \in [Calls -> CallSet] /\ sent \in [Calls -> Seq(RequestSet)]
    BY DEF Inv, TypeOK
  <1>2. /\ call[c].at = "answered"
        /\ call' = [call EXCEPT ![c].at = "done"]
        /\ result' = [result EXCEPT ![c] = Outcome(c)]
        /\ last_json_error' \in {TRUE, last_json_error}
        /\ UNCHANGED <<stored, client, writes, sent, last_finish_reason, since>>
    BY DEF Return
  <1> DEFINE k == [call[c] EXCEPT !.at = "done"]
  <1>3. k \in CallSet /\ k.at = "done" /\ k.backend = call[c].backend
    BY <1>1 DEF CallSet, Stages
  <1>4. call' = [call EXCEPT ![c] = k] BY <1>2
  <1> HIDE DEF k
  <1>5. call'[c] = k /\ \A d \in Calls \ {c} : call'[d] = call[d] BY <1>1, <1>4
  <1>6. TypeOK'
    <2>1. call' \in [Calls -> CallSet] BY <1>1, <1>3, <1>4
    <2>2. ParseError(c) \in BOOLEAN BY DEF ParseError
    <2>3. last_json_error' \in BOOLEAN
      <3>1. last_json_error \in BOOLEAN BY DEF Inv, TypeOK
      <3> QED BY <1>2, <3>1
    <2>4. Final(c).reason \in Reasons
      <3>1. Len(sent[c]) # 0 BY <1>2 DEF Inv, Lightening
      <3>2. sent[c][Len(sent[c])] \in RequestSet BY <1>1, <3>1
      <3>3. Final(c) \in AnswerSet BY <3>2 DEF Final, RequestSet
      <3> QED BY <3>3 DEF AnswerSet, Answer, Served, Replies, Reasons
    <2> DEFINE R == [text : {"pending", "reply", "nothing", "object", "empty"},
                     reason : Reasons, error : BOOLEAN]
    <2>5. Outcome(c) \in R
      <3>1. "none" \in Reasons BY DEF Reasons
      <3>2. ChatResult(c).text \in {"reply", "nothing"} /\ ChatResult(c).reason \in Reasons
        BY <2>4 DEF ChatResult
      <3>3. call[c].kind \in {"text", "image", "json", "strict"} BY <1>1 DEF CallSet, Kinds
      <3>4. CASE call[c].kind \in {"text", "image"} BY <3>1, <3>2, <3>4 DEF Outcome
      <3>5. CASE call[c].kind = "json" BY <3>1, <3>5 DEF Outcome
      <3>6. CASE call[c].kind = "strict" BY <2>2, <3>1, <3>6 DEF Outcome
      <3> QED BY <3>3, <3>4, <3>5, <3>6
    <2>6. result' \in [Calls -> R]
      <3>1. result \in [Calls -> R] BY DEF Inv, TypeOK
      <3> QED BY <1>2, <2>5, <3>1
    <2> QED BY <1>2, <2>1, <2>3, <2>6 DEF Inv, TypeOK
  <1>7. AttemptsLeft' BY <1>3, <1>5 DEF Inv, AttemptsLeft
  <1>8. Swapping' BY <1>2 DEF Inv, Swapping, Applied
  <1>9. Captured'
    <2>1. Applied' = Applied BY <1>2 DEF Applied
    <2> QED BY <1>2, <1>3, <1>5, <2>1 DEF Inv, Captured
  <1>10. Lightening' BY <1>2, <1>3, <1>5 DEF Inv, Lightening
  <1> QED BY <1>6, <1>7, <1>8, <1>9, <1>10 DEF Inv

\* Every step keeps the invariant.
LEMMA StepInv == Inv /\ [Next]_vars => Inv'
  <1> SUFFICES ASSUME Inv, [Next]_vars PROVE Inv' OBVIOUS
  <1>1. CASE SaveSettings BY <1>1, SaveKeeps
  <1>2. CASE AssignField BY <1>2, AssignKeeps
  <1>3. CASE UNCHANGED vars
    BY <1>3 DEF Inv, vars, TypeOK, AttemptsLeft, Swapping, Applied, Captured, Lightening
  <1>4. CASE Rest BY <1>3, <1>4 DEF Rest
  <1>5. ASSUME NEW c \in Calls, Begin(c) PROVE Inv' BY <1>5, BeginKeeps
  <1>6. ASSUME NEW c \in Calls, CaptureModel(c) \/ CaptureUrl(c) \/ CaptureKey(c)
        PROVE  Inv'
    <2>1. /\ {"model", "base_url", "api_key"} \subseteq Fields
          /\ {"model", "url", "key", "post"} \subseteq Stages
      BY DEF Fields, Stages
    <2>2. CASE CaptureModel(c) BY <2>1, <2>2, CaptureKeeps DEF CaptureModel
    <2>3. CASE CaptureUrl(c) BY <2>1, <2>3, CaptureKeeps DEF CaptureUrl
    <2>4. CASE CaptureKey(c) BY <2>1, <2>4, CaptureKeeps DEF CaptureKey
    <2> QED BY <1>6, <2>2, <2>3, <2>4
  <1>7. ASSUME NEW c \in Calls, Post(c) PROVE Inv' BY <1>7, PostKeeps
  <1>8. ASSUME NEW c \in Calls, Return(c) PROVE Inv' BY <1>8, ReturnKeeps
  <1> QED BY <1>1, <1>2, <1>3, <1>4, <1>5, <1>6, <1>7, <1>8 DEF Next

LEMMA InvHolds == Spec => []Inv
  BY InitInv, StepInv, PTL DEF Spec

-----------------------------------------------------------------------------
(* Theorems                                                                *)

\* Every variable keeps its type; no call makes more attempts than allowed.
THEOREM TypeCorrect == Spec => []TypeOK
  <1>1. Inv => TypeOK BY DEF Inv
  <1> QED BY <1>1, InvHolds, PTL

\* Each field a call has captured belongs to a backend at least as new as the
\* one in force when the call began (reload_model_client).
THEOREM BackendIsFresh == Spec => []FreshBackend
  <1>1. Inv => FreshBackend
    <2> SUFFICES ASSUME Inv, NEW c \in Calls, Addressed(c), NEW f \in Fields
                 PROVE  call[c].backend[f] \in since[c] .. stored
      BY DEF FreshBackend
    <2>1. f \in {"base_url", "api_key", "model"} BY DEF Fields
    <2> QED BY <2>1 DEF Inv, Captured, Addressed
  <1> QED BY <1>1, InvHolds, PTL

\* A call repeats a request only after transient failures, and sends nothing
\* after an answer or a rejection (_chat_completion_result).
THEOREM RetriesAreUseful == Spec => []NoFruitlessRetry
  <1>1. Inv => NoFruitlessRetry
    <2> SUFFICES ASSUME Inv, NEW c \in Calls, NEW i \in 1 .. Len(sent[c]),
                        NEW j \in 1 .. Len(sent[c]), i < j
                 PROVE  /\ sent[c][i].answer.failure \notin {"none", "rejected"}
                        /\ Request(sent[c][i]) = Request(sent[c][j]) =>
                              \A h \in i .. j - 1 :
                                  sent[c][h].answer.failure = "transient"
      BY DEF NoFruitlessRetry
    <2>1. sent[c] \in Seq(RequestSet) BY DEF Inv, TypeOK
    <2>2. Follows(sent[c][i], sent[c][j].grammar, sent[c][j].length)
      BY DEF Inv, Lightening
    <2>3. sent[c][i].answer.failure \notin {"none", "rejected"} BY <2>2 DEF Follows
    <2>4. ASSUME Request(sent[c][i]) = Request(sent[c][j]), NEW h \in i .. j - 1
          PROVE  sent[c][h].answer.failure = "transient"
      <3>1. Len(sent[c]) \in Nat BY <2>1
      <3>2. h \in 1 .. Len(sent[c]) /\ h < j /\ i <= h BY <3>1
      <3>3. /\ sent[c][i].length \in Nat /\ sent[c][h].length \in Nat
            /\ sent[c][j].length \in Nat
        <4>1. \A x \in 1 .. Len(sent[c]) : sent[c][x] \in RequestSet BY <2>1
        <4> QED BY <3>2, <4>1 DEF RequestSet
      <3>4. Follows(sent[c][h], sent[c][j].grammar, sent[c][j].length)
        BY <3>2 DEF Inv, Lightening
      <3>5. /\ sent[c][h].grammar => sent[c][i].grammar
            /\ sent[c][h].length <= sent[c][i].length
        <4>1. CASE h = i BY <3>3, <4>1
        <4>2. CASE h # i
          <5>1. i < h BY <3>2, <4>2
          <5> QED BY <3>2, <5>1 DEF Inv, Lightening, Follows
        <4> QED BY <4>1, <4>2
      <3>6. /\ sent[c][i].grammar = sent[c][j].grammar
            /\ sent[c][i].length = sent[c][j].length
        BY <2>4 DEF Request
      <3>7. sent[c][h].answer.failure # "context"
        <4> SUFFICES ASSUME sent[c][h].answer.failure = "context" PROVE FALSE OBVIOUS
        <4>1. sent[c][j].length < sent[c][h].length BY <3>4 DEF Follows
        <4> QED BY <3>3, <3>5, <3>6, <4>1
      <3>8. sent[c][h].answer.failure # "grammar"
        <4> SUFFICES ASSUME sent[c][h].answer.failure = "grammar" PROVE FALSE OBVIOUS
        <4>1. sent[c][h].grammar BY <3>2 DEF Inv, Lightening
        <4>2. ~ sent[c][j].grammar BY <3>4 DEF Follows
        <4> QED BY <3>5, <3>6, <4>1, <4>2
      <3> QED BY <3>4, <3>7, <3>8 DEF Follows
    <2> QED BY <2>3, <2>4
  <1> QED BY <1>1, InvHolds, PTL

-----------------------------------------------------------------------------
(* Outcomes                                                                *)

\* A caller is told the outcome of its call's own requests.
Told == \A c \in Calls : call[c].at = "done" => result[c] = Outcome(c)

\* What other calls do does not change it.
LEMMA OutcomeOfOwn ==
  ASSUME NEW c \in Calls, Told, UNCHANGED <<call[c], sent[c], result[c]>>
  PROVE  call'[c].at = "done" => result'[c] = Outcome(c)'
  <1>1. Final(c)' = Final(c) BY DEF Final
  <1>2. ChatResult(c)' = ChatResult(c) /\ ParseError(c)' = ParseError(c)
    BY <1>1 DEF ChatResult, ParseError
  <1>3. Outcome(c)' = Outcome(c) BY <1>2 DEF Outcome
  <1> QED BY <1>3 DEF Told

LEMMA ToldNext == Inv /\ Told /\ [Next]_vars => Told'
  <1> SUFFICES ASSUME Inv, Told, [Next]_vars, NEW c \in Calls, call'[c].at = "done"
               PROVE  result'[c] = Outcome(c)'
    BY DEF Told
  <1>0. call \in [Calls -> CallSet] /\ DOMAIN result = Calls /\ DOMAIN sent = Calls
    <2>1. call \in [Calls -> CallSet] /\ sent \in [Calls -> Seq(RequestSet)] BY DEF Inv, TypeOK
    <2>2. result \in [Calls -> [text : {"pending", "reply", "nothing", "object", "empty"},
                                reason : Reasons, error : BOOLEAN]]
      BY DEF Inv, TypeOK
    <2> QED BY <2>1, <2>2
  <1> DEFINE Untouched == UNCHANGED <<call[c], sent[c], result[c]>>
  <1>1. CASE SaveSettings \/ AssignField \/ Rest \/ UNCHANGED vars
    <2>1. Untouched BY <1>1 DEF SaveSettings, AssignField, Rest, vars
    <2> QED BY <2>1, OutcomeOfOwn
  <1>2. ASSUME NEW d \in Calls, Begin(d) PROVE result'[c] = Outcome(c)'
    <2>1. sent' = sent /\ result' = result BY <1>2 DEF Begin
    <2>2. PICK k \in Uses[d], n \in Lengths : call' = [call EXCEPT ![d] = [@ EXCEPT
                        !.at = "model", !.kind = k, !.length = Guarded(k, n),
                        !.grammar = (k \in {"json", "strict"})]]
      BY <1>2 DEF Begin
    <2>3. call'[d].at = "model" BY <1>0, <2>2 DEF CallSet
    <2>4. c # d /\ call'[c] = call[c] BY <1>0, <2>2, <2>3
    <2> QED BY <2>1, <2>4, OutcomeOfOwn
  <1>3. ASSUME NEW d \in Calls, NEW at, NEW field, NEW next \in {"url", "key", "post"},
               Capture(d, at, field, next)
        PROVE  result'[c] = Outcome(c)'
    <2>1. sent' = sent /\ result' = result BY <1>3 DEF Capture
    <2>2. call' = [call EXCEPT ![d] = [@ EXCEPT !.at = next, !.backend[field] = client[field]]]
      BY <1>3 DEF Capture
    <2>3. call'[d].at = next BY <1>0, <2>2 DEF CallSet
    <2>4. c # d /\ call'[c] = call[c] BY <1>0, <2>2, <2>3
    <2> QED BY <2>1, <2>4, OutcomeOfOwn
  <1>4. ASSUME NEW d \in Calls, Post(d) PROVE result'[c] = Outcome(c)'
    <2>1. call[d] \in CallSet /\ call[d].at = "post" /\ call[d].attempt < MaxRetries
      BY <1>0, <1>4 DEF Inv, AttemptsLeft, Post
    <2>2. PICK a \in Answers(d) :
             /\ call' = [call EXCEPT ![d] = React(call[d], a)]
             /\ \E q : sent' = [sent EXCEPT ![d] = Append(@, q)]
      BY <1>4 DEF Post
    <2>3. a \in AnswerSet BY DEF Answers, AnswerSet, Answer, Served, Replies
    <2>4. React(call[d], a).at \in {"post", "answered"} BY <2>1, <2>3, Reaction
    <2>5. c # d BY <1>0, <2>2, <2>4
    <2>6. Untouched BY <1>0, <1>4, <2>2, <2>5 DEF Post
    <2> QED BY <2>6, OutcomeOfOwn
  <1>5. ASSUME NEW d \in Calls, Return(d) PROVE result'[c] = Outcome(c)'
    <2>1. /\ call' = [call EXCEPT ![d].at = "done"]
          /\ result' = [result EXCEPT ![d] = Outcome(d)]
          /\ sent' = sent
      BY <1>5 DEF Return
    <2>2. CASE c # d
      <3>1. Untouched BY <1>0, <2>1, <2>2
      <3> QED BY <3>1, OutcomeOfOwn
    <2>3. CASE c = d
      <3>1. call'[c].kind = call[c].kind BY <1>0, <2>1, <2>3 DEF CallSet
      <3>2. Final(c)' = Final(c) BY <2>1 DEF Final
      <3>3. ChatResult(c)' = ChatResult(c) /\ ParseError(c)' = ParseError(c)
        BY <3>2 DEF ChatResult, ParseError
      <3>4. Outcome(c)' = Outcome(c) BY <3>1, <3>3 DEF Outcome
      <3> QED BY <1>0, <2>1, <2>3, <3>4
    <2> QED BY <2>2, <2>3
  <1> QED
    BY <1>1, <1>2, <1>3, <1>4, <1>5
    DEF Next, CaptureModel, CaptureUrl, CaptureKey

\* Only the last request of a call can have been answered.
LEMMA LastIsServed ==
  ASSUME Inv, NEW c \in Calls, call[c].at = "done"
  PROVE  /\ Len(sent[c]) \in 1 .. Len(sent[c])
         /\ Final(c) \in AnswerSet
         /\ \A i \in 1 .. Len(sent[c]) :
               sent[c][i].answer.failure = "none" => sent[c][i].answer = Final(c)
  <1>1. sent[c] \in Seq(RequestSet)
    <2>1. sent \in [Calls -> Seq(RequestSet)] BY DEF Inv, TypeOK
    <2> QED BY <2>1
  <1>2. Len(sent[c]) \in Nat /\ Len(sent[c]) # 0 BY <1>1 DEF Inv, Lightening
  <1>3. sent[c][Len(sent[c])] \in RequestSet BY <1>1, <1>2
  <1>4. Final(c) \in AnswerSet BY <1>3 DEF Final, RequestSet
  <1>5. ASSUME NEW i \in 1 .. Len(sent[c]), sent[c][i].answer.failure = "none"
        PROVE  i = Len(sent[c])
    <2>1. SUFFICES ASSUME i < Len(sent[c]) PROVE FALSE BY <1>2
    <2>2. Follows(sent[c][i], sent[c][Len(sent[c])].grammar, sent[c][Len(sent[c])].length)
      BY <1>2, <2>1 DEF Inv, Lightening
    <2> QED BY <1>5, <2>2 DEF Follows
  <1> QED BY <1>2, <1>4, <1>5 DEF Final

\* Whatever the other calls do to the shared mirrors, a caller learns why its own
\* call stopped, whether its JSON could be read, and a reply if there was one.
THEOREM OutcomesAreOwn == Spec => []OutcomeIsOwn
  <1>1. Inv /\ Told => OutcomeIsOwn
    <2> SUFFICES ASSUME Inv, Told, NEW c \in Calls, call[c].at = "done"
                 PROVE  LET served == {i \in 1 .. Len(sent[c]) : sent[c][i].answer.failure = "none"}
                            own(P(_)) == \E i \in served : P(sent[c][i].answer)
                        IN  CASE call[c].kind = "text" -> (result[c].text = "reply") <=> (served # {})
                              [] call[c].kind = "image" ->
                                   /\ (result[c].text = "reply") <=> (served # {})
                                   /\ served # {} => own(LAMBDA a : a.reason = result[c].reason)
                              [] call[c].kind = "json" ->
                                   (result[c].text = "object") <=> own(LAMBDA a : a.readable)
                              [] call[c].kind = "strict" ->
                                   /\ (result[c].text = "object") <=> own(LAMBDA a : a.readable)
                                   /\ result[c].error <=> ~ own(LAMBDA a : a.readable)
      BY DEF OutcomeIsOwn
    <2> DEFINE n == Len(sent[c])
               served == {i \in 1 .. n : sent[c][i].answer.failure = "none"}
    <2>1. /\ n \in 1 .. n /\ Final(c) \in AnswerSet /\ Final(c) = sent[c][n].answer
          /\ \A i \in served : sent[c][i].answer = Final(c)
      BY LastIsServed DEF Final
    <2>2. served # {} <=> Final(c).failure = "none" BY <2>1
    <2>3. Final(c).readable \in BOOLEAN /\ (Final(c).readable => Final(c).failure = "none")
      <3>1. CASE \E f \in Failures : Final(c) = Answer(f) BY <3>1 DEF Answer
      <3>2. CASE \E r \in Replies : Final(c) = Served(r)
        <4>1. PICK r \in Replies : Final(c) = Served(r) BY <3>2
        <4>2. \/ r = [reason |-> "stop", readable |-> TRUE]
              \/ r = [reason |-> "stop", readable |-> FALSE]
              \/ r = [reason |-> "length", readable |-> FALSE]
          BY DEF Replies
        <4>3. r.readable = TRUE \/ r.readable = FALSE BY <4>2
        <4>4. Final(c) = [failure |-> "none", reason |-> r.reason, readable |-> r.readable]
          BY <4>1 DEF Served
        <4>5. Final(c).readable = r.readable /\ Final(c).failure = "none" BY <4>4
        <4> QED BY <4>3, <4>5
      <3> QED BY <2>1, <3>1, <3>2 DEF AnswerSet
    <2>4. result[c] = Outcome(c) BY DEF Told
    <2>5. (\E i \in served : sent[c][i].answer.readable) <=> Final(c).readable
      BY <2>1, <2>2, <2>3
    <2>6. served # {} => \E i \in served : sent[c][i].answer.reason = Final(c).reason
      BY <2>1
    <2>7. call[c].kind \in {"text", "image", "json", "strict"}
      <3>1. call \in [Calls -> CallSet] BY DEF Inv, TypeOK
      <3> QED BY <3>1 DEF CallSet, Kinds
    <2>8. ChatResult(c).text = "reply" <=> Final(c).failure = "none" BY DEF ChatResult
    <2>9. ChatResult(c).reason = Final(c).reason BY DEF ChatResult
    <2>14. ParseError(c) \in BOOLEAN /\ (ParseError(c) <=> ~ Final(c).readable) BY DEF ParseError
    <2> HIDE DEF served, n
    <2>10. CASE call[c].kind = "text"
      <3>1. result[c].text = ChatResult(c).text BY <2>4, <2>10 DEF Outcome
      <3> QED BY <2>2, <2>8, <2>10, <3>1 DEF served, n
    <2>11. CASE call[c].kind = "image"
      <3>1. result[c].text = ChatResult(c).text /\ result[c].reason = ChatResult(c).reason
        BY <2>4, <2>11 DEF Outcome
      <3> QED BY <2>2, <2>6, <2>8, <2>9, <2>11, <3>1 DEF served, n
    <2>12. CASE call[c].kind = "json"
      <3>1. result[c].text = "object" <=> Final(c).readable
        BY <2>4, <2>12, <2>14 DEF Outcome
      <3> QED BY <2>5, <2>12, <3>1 DEF served, n
    <2>13. CASE call[c].kind = "strict"
      <3>1. /\ result[c].text = "object" <=> Final(c).readable
            /\ result[c].error <=> ~ Final(c).readable
        BY <2>4, <2>13, <2>14 DEF Outcome
      <3> QED BY <2>5, <2>13, <3>1 DEF served, n
    <2> QED BY <2>7, <2>10, <2>11, <2>12, <2>13
  <1>2. Init => Told BY DEF Init, Told, Idle
  <1> QED BY <1>1, <1>2, ToldNext, InitInv, StepInv, PTL DEF Spec

=============================================================================
