------------------------- MODULE QueryService_proofs -------------------------
(***************************************************************************)
(* Proofs about QueryService, for any numbers of questions, sessions,      *)
(* permits, streams, faults, restarts and deletions, and any even limit of *)
(* the history.                                                            *)
(***************************************************************************)
EXTENDS QueryService, FiniteSetTheorems, TLAPS

-----------------------------------------------------------------------------
(* The line and the permits of the query lock.                             *)

\* Whoever joins the line stands in it once, and behind everybody else.
LEMMA Joining ==
  ASSUME NEW r \in Requests, line \in Seq(Requests), IsInjective(line), r \notin ToSet(line),
         line' = Append(line, r)
  PROVE  /\ line' \in Seq(Requests) /\ IsInjective(line')
         /\ ToSet(line') = ToSet(line) \cup {r}
  <1>1. /\ Len(line) \in Nat /\ Len(line') = Len(line) + 1
        /\ \A i \in 1..Len(line) : line'[i] = line[i]
        /\ line'[Len(line) + 1] = r
        /\ line' \in Seq(Requests)
    OBVIOUS
  <1>2. \A i \in 1..Len(line) : line[i] # r BY DEF ToSet
  <1>3. ToSet(line') = ToSet(line) \cup {r} BY <1>1 DEF ToSet
  <1>4. IsInjective(line') BY <1>1, <1>2 DEF IsInjective
  <1> QED BY <1>1, <1>3, <1>4

\* The first in line leaves it to the others.
LEMMA Leaving ==
  ASSUME line \in Seq(Requests), IsInjective(line), line # <<>>, line' = Tail(line)
  PROVE  /\ Head(line) \in Requests /\ Head(line) \in ToSet(line)
         /\ line' \in Seq(Requests) /\ IsInjective(line')
         /\ ToSet(line') = ToSet(line) \ {Head(line)}
  <1>1. /\ Len(line) \in Nat \ {0} /\ Len(line') = Len(line) - 1
        /\ Head(line) = line[1] /\ line[1] \in Requests
        /\ \A i \in 1..Len(line') : line'[i] = line[i + 1]
        /\ line' \in Seq(Requests)
    OBVIOUS
  <1>2. \A i \in 2..Len(line) : line[i] # line[1] BY <1>1 DEF IsInjective
  <1>3. IsInjective(line') BY <1>1 DEF IsInjective
  <1>4. ToSet(line') = ToSet(line) \ {line[1]}
    <2>1. ASSUME NEW i \in 1..Len(line') PROVE i + 1 \in 2..Len(line) /\ line'[i] = line[i + 1]
      BY <1>1
    <2>2. ASSUME NEW i \in 2..Len(line)
          PROVE  i - 1 \in 1..Len(line') /\ line'[i - 1] = line[i]
      BY <1>1
    <2>3. \A i \in 1..Len(line) : i = 1 \/ i \in 2..Len(line) BY <1>1
    <2>4. \A i \in 2..Len(line) : i \in 1..Len(line) BY <1>1
    <2>5. /\ ToSet(line) = {line[i] : i \in 1..Len(line)}
          /\ ToSet(line') = {line'[i] : i \in 1..Len(line')}
      <3>1. DOMAIN line = 1..Len(line) /\ DOMAIN line' = 1..Len(line') BY <1>1
      <3> QED BY <3>1, Zenon DEF ToSet
    <2>6. ASSUME NEW q \in ToSet(line') PROVE q \in ToSet(line) /\ q # line[1]
      <3>1. PICK i \in 1..Len(line') : q = line'[i] BY <2>5, <2>6
      <3> QED BY <1>2, <2>1, <2>4, <2>5, <3>1
    <2>7. ASSUME NEW q \in ToSet(line), q # line[1] PROVE q \in ToSet(line')
      <3>1. PICK i \in 1..Len(line) : q = line[i] BY <2>5, <2>7
      <3> QED BY <2>2, <2>3, <2>5, <2>7, <3>1
    <2> QED BY <2>6, <2>7
  <1>5. line[1] \in ToSet(line) BY <1>1 DEF ToSet
  <1> QED BY <1>1, <1>3, <1>4, <1>5

LEMMA RunningIsFinite == IsFiniteSet(Running) /\ Cardinality(Running) \in Nat
  <1>1. Running \subseteq Requests BY DEF Running
  <1> QED BY <1>1, FS_Subset, FS_CardinalityType, QueryAssumption

\* What is running decides how many may still enter.
PermitsInv == /\ permits \in 0..Permits
              /\ permits + Cardinality(Running) = Permits

LEMMA PermitsKept ==
  ASSUME PermitsInv, UNCHANGED permits, Running' = Running
  PROVE  PermitsInv'
  BY DEF PermitsInv

LEMMA PermitTaken ==
  ASSUME PermitsInv, permits > 0, permits' = permits - 1,
         NEW r, r \notin Running, Running' = Running \cup {r}
  PROVE  PermitsInv'
  <1>1. Cardinality(Running') = Cardinality(Running) + 1 BY RunningIsFinite, FS_AddElement
  <1> QED BY <1>1, RunningIsFinite, QueryAssumption DEF PermitsInv

LEMMA PermitGiven ==
  ASSUME PermitsInv, permits' = permits + 1, NEW r \in Running, Running' = Running \ {r}
  PROVE  PermitsInv'
  <1>1. Cardinality(Running') = Cardinality(Running) - 1 BY RunningIsFinite, FS_RemoveElement
  <1>2. Cardinality(Running) > 0 BY RunningIsFinite, FS_EmptySet
  <1> QED BY <1>1, <1>2, RunningIsFinite, QueryAssumption DEF PermitsInv

-----------------------------------------------------------------------------
(* Types.                                                                  *)

LEMMA TargetType ==
  ASSUME TypeOK, NEW r \in Requests
  PROVE  Target(r) \in SessionIds /\ (ask[r].session # None => Target(r) = ask[r].session)
  BY DEF TypeOK, Target, SessionIds

LEMMA TurnType ==
  ASSUME NEW r \in Requests
  PROVE  Turn(r) \in Seq(Message) /\ <<Question(r)>> \in Seq(Message)
  BY DEF Turn, Question, Reply, Message

\* The last messages are as many as allowed, and the last ones.
LEMMA LastMessagesOf ==
  ASSUME NEW S, NEW ms \in Seq(S)
  PROVE  LET first == IF Len(ms) > HistoryLimit THEN Len(ms) - HistoryLimit + 1 ELSE 1
         IN  /\ LastMessages(ms) \in Seq(S)
             /\ first \in 1..(Len(ms) + 1)
             /\ Len(LastMessages(ms)) = Len(ms) - first + 1
             /\ \A i \in 1..Len(LastMessages(ms)) : /\ first + i - 1 \in 1..Len(ms)
                                                    /\ LastMessages(ms)[i] = ms[first + i - 1]
  <1> DEFINE first == IF Len(ms) > HistoryLimit THEN Len(ms) - HistoryLimit + 1 ELSE 1
  <1>1. Len(ms) \in Nat /\ HistoryLimit \in Nat BY QueryAssumption
  <1>2. first \in 1..(Len(ms) + 1) BY <1>1
  <1>3. LastMessages(ms) = SubSeq(ms, first, Len(ms)) BY DEF LastMessages
  <1> HIDE DEF first
  <1>4. /\ SubSeq(ms, first, Len(ms)) \in Seq(S)
        /\ Len(SubSeq(ms, first, Len(ms))) = Len(ms) - first + 1
        /\ \A i \in 1..(Len(ms) - first + 1) : SubSeq(ms, first, Len(ms))[i] = ms[first + i - 1]
    BY <1>1, <1>2
  <1>5. \A i \in 1..(Len(ms) - first + 1) : first + i - 1 \in 1..Len(ms) BY <1>1, <1>2
  <1> QED BY <1>2, <1>3, <1>4, <1>5 DEF first

LEMMA HydratedType ==
  ASSUME TypeOK, NEW s
  PROVE  Hydrated(s) \in Seq(Message)
  <1>1. CASE s \in sessions
    <2>1. messages[s] \in Seq(Message) BY <1>1 DEF TypeOK
    <2> QED BY <1>1, <2>1, LastMessagesOf DEF Hydrated
  <1> QED BY <1>1 DEF Hydrated

\* What a turn adds to its session, and to no other.
Added(r, upto) == CASE upto = "question" -> <<Question(r)>>
                    [] upto = "answer"   -> Turn(r)
                    [] OTHER             -> <<>>

LEMMA PersistSteps ==
  ASSUME TypeOK, NEW r \in Requests, NEW upto \in Steps, Persist(r, upto)
  PROVE  /\ sessions' \subseteq SessionIds
         /\ messages' \in [SessionIds -> Seq(Message)]
         /\ messages'[Target(r)] = messages[Target(r)] \o Added(r, upto)
         /\ Added(r, upto) \in Seq(Message)
         /\ \A s \in SessionIds \ {Target(r)} : messages'[s] = messages[s]
  <1>1. Target(r) \in SessionIds BY TargetType
  <1>2. Added(r, upto) \in Seq(Message) BY TurnType DEF Added
  <1>3. messages' = [messages EXCEPT ![Target(r)] = @ \o Added(r, upto)]
    BY DEF Persist, Added
  <1>4. messages[Target(r)] \o Added(r, upto) \in Seq(Message)
    BY <1>1, <1>2 DEF TypeOK
  <1>5. sessions' \subseteq SessionIds BY DEF Persist, TypeOK, SessionIds
  <1> QED BY <1>1, <1>2, <1>3, <1>4, <1>5 DEF TypeOK

\* The stages of a stream.
LEMMA StagesType ==
  Len(Stages) = 3 /\ \A i \in 1..3 : Stages[i] \in ToSet(Stages)
  BY DEF Stages, ToSet

LEMMA RunningSteps ==
  ASSUME NEW r \in Requests, TypeOK
  PROVE  /\ \A p : (pc' = [pc EXCEPT ![r] = p] /\ p # "running") => Running' = Running \ {r}
         /\ pc' = [pc EXCEPT ![r] = "running"] => Running' = Running \cup {r}
         /\ pc' = pc => Running' = Running
         /\ r \in Running <=> pc[r] = "running"
  BY DEF Running, TypeOK

LEMMA TypeInvariance ==
  ASSUME TypeOK, [Next]_vars
  PROVE  TypeOK'
  <1> USE QueryAssumption
  <1>0. PermitsInv BY DEF TypeOK, PermitsInv
  <1>1. ASSUME NEW s \in Sessions, CreateSession(s) PROVE TypeOK'
    <2>1. PermitsInv' BY <1>0, <1>1, PermitsKept DEF CreateSession, Running, lockVars
    <2> QED BY <1>1, <2>1
            DEF CreateSession, TypeOK, PermitsInv, callVars, lockVars, streamVars, countVars,
                SessionIds
  <1>2. ASSUME NEW s \in SessionIds, DeleteSession(s) PROVE TypeOK'
    <2>1. PermitsInv' BY <1>0, <1>2, PermitsKept DEF DeleteSession, Running, lockVars
    <2>2. messages' \in [SessionIds -> Seq(Message)] BY <1>2 DEF DeleteSession, TypeOK
    <2> QED BY <1>2, <2>1, <2>2
            DEF DeleteSession, TypeOK, PermitsInv, callVars, lockVars, streamVars, countVars
  <1>3. ASSUME NEW r \in Requests, Arrive(r) PROVE TypeOK'
    <2>1. PICK s \in sessions \cup removed \cup {None}, streamed \in BOOLEAN :
            /\ ask' = [ask EXCEPT ![r] = [session |-> s, streamed |-> streamed]]
            /\ history' = [history EXCEPT ![r] = Hydrated(s)]
            /\ \/ /\ pc' = [pc EXCEPT ![r] = "begun"]
                  /\ UNCHANGED line
               \/ /\ pc' = [pc EXCEPT ![r] = "queued"]
                  /\ line' = Append(line, r)
      BY <1>3 DEF Arrive
    <2>2. pc[r] = "idle" BY <1>3 DEF Arrive
    <2>3. PermitsInv'
      <3>1. Running' = Running BY <2>1, <2>2, RunningSteps
      <3> QED BY <1>0, <1>3, <3>1, PermitsKept DEF Arrive
    <2>4. /\ line' \in Seq(Requests) /\ IsInjective(line')
          /\ ToSet(line') = {q \in Requests : pc'[q] = "queued"}
      <3>1. r \notin ToSet(line) BY <2>2 DEF TypeOK
      <3>2. CASE pc' = [pc EXCEPT ![r] = "begun"] /\ UNCHANGED line
        <4>1. \A q \in Requests : pc'[q] = "queued" <=> pc[q] = "queued"
          BY <2>2, <3>2 DEF TypeOK
        <4> QED BY <3>2, <4>1 DEF TypeOK
      <3>3. CASE pc' = [pc EXCEPT ![r] = "queued"] /\ line' = Append(line, r)
        BY <3>1, <3>3, Joining DEF TypeOK
      <3> QED BY <2>1, <3>2, <3>3
    <2>5. /\ ask' \in [Requests -> [session : SessionIds \cup {None}, streamed : BOOLEAN]]
          /\ history' \in [Requests -> Seq(Message)]
      BY <2>1, HydratedType DEF TypeOK
    <2>6. pc' \in [Requests -> {"idle", "begun", "queued", "running", "done", "failed", "gone"}]
      BY <2>1 DEF TypeOK
    <2> QED BY <1>3, <2>3, <2>4, <2>5, <2>6
            DEF Arrive, TypeOK, PermitsInv, chatVars, streamVars, countVars
  <1>4. ASSUME NEW r \in Requests, OpenStream(r) PROVE TypeOK'
    <2>1. PermitsInv'
      <3>1. Running' = Running BY <1>4, RunningSteps DEF OpenStream
      <3> QED BY <1>0, <1>4, <3>1, PermitsKept DEF OpenStream
    <2>2. /\ line' \in Seq(Requests) /\ IsInjective(line')
          /\ ToSet(line') = {q \in Requests : pc'[q] = "queued"}
      <3>1. r \notin ToSet(line) BY <1>4 DEF OpenStream, TypeOK
      <3> QED BY <1>4, <3>1, Joining DEF OpenStream, TypeOK
    <2> QED BY <1>4, <2>1, <2>2
            DEF OpenStream, TypeOK, PermitsInv, callVars, chatVars, countVars
  <1>5. ASSUME NEW r \in Requests, Enter(r) PROVE TypeOK'
    <2>1. /\ r \in ToSet(line) /\ line' \in Seq(Requests) /\ IsInjective(line')
          /\ ToSet(line') = ToSet(line) \ {r}
      BY <1>5, Leaving DEF Enter, TypeOK
    <2>2. pc[r] = "queued" BY <2>1 DEF TypeOK
    <2>3. PermitsInv'
      <3>1. r \notin Running /\ Running' = Running \cup {r}
        BY <1>5, <2>2, RunningSteps DEF Enter
      <3> QED BY <1>0, <1>5, <3>1, PermitTaken DEF Enter
    <2>4. ToSet(line') = {q \in Requests : pc'[q] = "queued"}
      BY <1>5, <2>1 DEF Enter, TypeOK
    <2> QED BY <1>5, <2>1, <2>3, <2>4
            DEF Enter, TypeOK, PermitsInv, callVars, chatVars, streamVars, countVars
  <1>6. ASSUME NEW r \in Requests, Emit(r) PROVE TypeOK'
    <2>1. PermitsInv' BY <1>0, <1>6, PermitsKept DEF Emit, Running, lockVars
    <2>2. emitted[r] + 1 \in 1..3 /\ emitted' \in [Requests -> 0..Len(Stages)]
      <3>1. emitted[r] \in 0..3 /\ emitted[r] < 3 BY <1>6, StagesType DEF Emit, TypeOK
      <3>2. emitted' = [emitted EXCEPT ![r] = emitted[r] + 1] BY <1>6 DEF Emit
      <3> QED BY <3>1, <3>2, StagesType DEF TypeOK
    <2>3. queue' \in [Requests -> Seq(ToSet(Stages))]
      <3>1. Stages[emitted[r] + 1] \in ToSet(Stages) BY <2>2, StagesType
      <3>2. Append(queue[r], Stages[emitted[r] + 1]) \in Seq(ToSet(Stages))
        BY <3>1 DEF TypeOK
      <3> QED BY <1>6, <3>2 DEF Emit, TypeOK
    <2> QED BY <1>6, <2>1, <2>2, <2>3
            DEF Emit, TypeOK, PermitsInv, callVars, lockVars, chatVars, countVars
  <1>7. ASSUME NEW r \in Requests, EngineRaises(r) PROVE TypeOK'
    <2>1. PermitsInv'
      <3>1. r \in Running /\ Running' = Running \ {r} BY <1>7, RunningSteps DEF EngineRaises
      <3> QED BY <1>0, <1>7, <3>1, PermitGiven DEF EngineRaises
    <2> QED BY <1>7, <2>1
            DEF EngineRaises, Tell, TypeOK, PermitsInv, callVars, chatVars, streamVars
  <1>8. ASSUME NEW r \in Requests, Finish(r) PROVE TypeOK'
    <2>1. PICK upto \in Steps :
            /\ Persist(r, upto)
            /\ \/ /\ pc' = [pc EXCEPT ![r] = "done"]
                  /\ Tell(r, "result")
                  /\ UNCHANGED <<faults, torn>>
               \/ /\ faults < MaxFaults
                  /\ faults' = faults + 1
                  /\ torn' = IF upto = "question" THEN torn \cup {r} ELSE torn
                  /\ pc' = [pc EXCEPT ![r] = "failed"]
                  /\ Tell(r, "error")
      BY <1>8 DEF Finish
    <2>2. PermitsInv'
      <3>1. r \in Running /\ Running' = Running \ {r} BY <1>8, <2>1, RunningSteps DEF Finish
      <3> QED BY <1>0, <1>8, <3>1, PermitGiven DEF Finish
    <2>3. /\ pc' \in [Requests -> {"idle", "begun", "queued", "running", "done", "failed", "gone"}]
          /\ \A q \in Requests : pc'[q] = "queued" <=> pc[q] = "queued"
      BY <1>8, <2>1 DEF Finish, TypeOK
    <2>4. /\ answer' \in [Requests -> {"none", "result", "error"}]
          /\ faults' \in 0..MaxFaults /\ torn' \subseteq Requests
      <3>1. answer' \in [Requests -> {"none", "result", "error"}] BY <2>1 DEF Tell, TypeOK
      <3>2. faults' \in 0..MaxFaults BY <2>1 DEF TypeOK
      <3>3. torn' \subseteq Requests BY <2>1 DEF TypeOK
      <3> QED BY <3>1, <3>2, <3>3
    <2>5. sessions' \subseteq SessionIds /\ messages' \in [SessionIds -> Seq(Message)]
      BY <2>1, PersistSteps
    <2> QED BY <1>8, <2>2, <2>3, <2>4, <2>5
            DEF Finish, TypeOK, PermitsInv, callVars, streamVars
  <1>9. ASSUME NEW r \in Requests, Look(r) PROVE TypeOK'
    <2>1. PermitsInv' BY <1>0, <1>9, PermitsKept DEF Look, Running, lockVars
    <2>2. /\ answer' \in [Requests -> {"none", "result", "error"}]
          /\ sent' \in [Requests -> Seq(ToSet(Stages) \cup {"result", "error"})]
          /\ stream' \in [Requests -> {"none", "looking", "waiting", "closed", "left"}]
      <3>1. \A last \in {"result", "error"} :
              Append(sent[r], last) \in Seq(ToSet(Stages) \cup {"result", "error"})
        BY DEF TypeOK
      <3>2. stream' \in [Requests -> {"none", "looking", "waiting", "closed", "left"}]
        BY <1>9 DEF Look, TypeOK
      <3>3. CASE UNCHANGED <<sent, answer>> BY <3>2, <3>3 DEF TypeOK
      <3>4. ASSUME NEW last \in {"result", "error"},
                   sent' = [sent EXCEPT ![r] = Append(@, last)],
                   answer' = [answer EXCEPT ![r] = last]
            PROVE  /\ answer' \in [Requests -> {"none", "result", "error"}]
                   /\ sent' \in [Requests -> Seq(ToSet(Stages) \cup {"result", "error"})]
        BY <3>1, <3>4 DEF TypeOK
      <3> QED BY <1>9, <3>2, <3>3, <3>4 DEF Look
    <2> QED BY <1>9, <2>1, <2>2
            DEF Look, TypeOK, PermitsInv, callVars, lockVars, chatVars, countVars
  <1>10. ASSUME NEW r \in Requests, TakeEvent(r) PROVE TypeOK'
    <2>1. PermitsInv' BY <1>0, <1>10, PermitsKept DEF TakeEvent, Running, lockVars
    <2>2. /\ Head(queue[r]) \in ToSet(Stages) /\ Tail(queue[r]) \in Seq(ToSet(Stages))
      BY <1>10 DEF TakeEvent, TypeOK
    <2>3. Append(sent[r], Head(queue[r])) \in Seq(ToSet(Stages) \cup {"result", "error"})
      BY <2>2 DEF TypeOK
    <2>4. /\ queue' \in [Requests -> Seq(ToSet(Stages))]
          /\ sent' \in [Requests -> Seq(ToSet(Stages) \cup {"result", "error"})]
      BY <1>10, <2>2, <2>3 DEF TakeEvent, TypeOK
    <2> QED BY <1>10, <2>1, <2>4
            DEF TakeEvent, TypeOK, PermitsInv, callVars, lockVars, chatVars, countVars
  <1>11. ASSUME NEW r \in Requests, KeepAlive(r) PROVE TypeOK'
    <2>1. PermitsInv' BY <1>0, <1>11, PermitsKept DEF KeepAlive, Running, lockVars
    <2> QED BY <1>11, <2>1
            DEF KeepAlive, TypeOK, PermitsInv, callVars, lockVars, chatVars, countVars
  <1>12. ASSUME NEW r \in Requests, Leave(r) PROVE TypeOK'
    <2>1. PermitsInv'
      <3>1. Running' = Running BY <1>12, RunningSteps DEF Leave
      <3> QED BY <1>0, <1>12, <3>1, PermitsKept DEF Leave, lockVars
    <2>2. \A q \in Requests : pc'[q] = "queued" <=> pc[q] = "queued"
      BY <1>12 DEF Leave, TypeOK
    <2> QED BY <1>12, <2>1, <2>2
            DEF Leave, TypeOK, PermitsInv, callVars, lockVars, chatVars, countVars
  <1>13. CASE Crash
    <2>1. Running' = {} /\ \A q \in Requests : pc'[q] # "queued"
      BY <1>13 DEF Crash, Running
    <2>2. PermitsInv' BY <1>13, <2>1, FS_EmptySet DEF Crash, PermitsInv
    <2>3. line' \in Seq(Requests) /\ IsInjective(line') /\ ToSet(line') = {}
      BY <1>13 DEF Crash, IsInjective, ToSet
    <2> QED BY <1>13, <2>1, <2>2, <2>3
            DEF Crash, TypeOK, PermitsInv, callVars, chatVars
  <1>14. CASE UNCHANGED vars
    <2>1. PermitsInv' BY <1>0, <1>14, PermitsKept DEF vars, lockVars, Running
    <2> QED BY <1>14, <2>1
            DEF vars, TypeOK, PermitsInv, callVars, lockVars, chatVars, streamVars, countVars
  <1> QED BY <1>1, <1>2, <1>3, <1>4, <1>5, <1>6, <1>7, <1>8, <1>9, <1>10, <1>11, <1>12,
             <1>13, <1>14
          DEF Next, Ask, Serve

LEMMA TypeInit == Init => TypeOK
  <1> SUFFICES ASSUME Init PROVE TypeOK OBVIOUS
  <1> USE QueryAssumption DEF Init
  <1>1. Running = {} BY DEF Running
  <1>2. permits \in 0..Permits /\ permits + Cardinality(Running) = Permits
    BY <1>1, FS_EmptySet
  <1>3. messages \in [SessionIds -> Seq(Message)]
    BY TurnType DEF SessionIds
  <1>4. line \in Seq(Requests) /\ IsInjective(line) /\ ToSet(line) = {}
    BY DEF IsInjective, ToSet
  <1>5. {r \in Requests : pc[r] = "queued"} = {} OBVIOUS
  <1>6. emitted \in [Requests -> 0..Len(Stages)] BY StagesType
  <1> QED BY <1>2, <1>3, <1>4, <1>5, <1>6 DEF TypeOK, SessionIds

\* The types of the query service, and that never more questions run than the
\* lock permits, hold in every instance.
THEOREM TypeCorrect == Spec => []TypeOK
  BY TypeInit, TypeInvariance, PTL DEF Spec

-----------------------------------------------------------------------------
(* Which steps can disturb what.                                           *)

\* Once asked, a question stays what it is, and so does what it was told of its
\* session.
LEMMA AskSteps ==
  ASSUME TypeOK, [Next]_vars, NEW r \in Requests, pc[r] # "idle"
  PROVE  /\ ask'[r] = ask[r] /\ Target(r)' = Target(r)
         /\ history'[r] = history[r]
         /\ pc'[r] # "idle"
  <1>0. pc'[r] # "idle"
    <2>1. ASSUME NEW q \in Requests, \/ Arrive(q) \/ OpenStream(q) \/ Enter(q) \/ EngineRaises(q)
                                    \/ Finish(q) \/ Leave(q)
          PROVE  pc'[r] # "idle"
      <3>1. \E p \in {"begun", "queued", "running", "failed", "done", "gone"} :
              pc' = [pc EXCEPT ![q] = p] \/ UNCHANGED pc
        BY <2>1 DEF Arrive, OpenStream, Enter, EngineRaises, Finish, Leave
      <3> QED BY <3>1 DEF TypeOK
    <2>2. CASE Crash BY <2>2 DEF Crash
    <2>3. CASE UNCHANGED pc BY <2>3
    <2>4. \/ \E q \in Requests : \/ Arrive(q) \/ OpenStream(q) \/ Enter(q) \/ EngineRaises(q)
                                 \/ Finish(q) \/ Leave(q)
          \/ Crash \/ UNCHANGED pc
      BY DEF Next, vars, Ask, Serve, CreateSession, DeleteSession, Emit, Look, TakeEvent,
             KeepAlive
    <2> QED BY <2>1, <2>2, <2>3, <2>4
  <1>1. CASE UNCHANGED <<ask, history>>
    BY <1>1, <1>0 DEF Target
  <1>2. ASSUME NEW q \in Requests, Arrive(q)
        PROVE  ask'[r] = ask[r] /\ history'[r] = history[r] /\ pc'[r] # "idle"
    <2>1. q # r BY <1>2 DEF Arrive
    <2> QED BY <1>2, <2>1 DEF Arrive, TypeOK
  <1>3. UNCHANGED <<ask, history>> \/ \E q \in Requests : Arrive(q)
    BY DEF Next, vars, Ask, Serve, CreateSession, DeleteSession, OpenStream, Enter, Emit,
           EngineRaises, Finish, Look, TakeEvent, KeepAlive, Leave, Crash, callVars
  <1> QED BY <1>0, <1>1, <1>2, <1>3 DEF Target

\* A session's messages are deleted, or a question that runs adds its turn, or,
\* torn, only itself.
LEMMA MessageSteps ==
  ASSUME TypeOK, [Next]_vars, NEW s \in SessionIds
  PROVE  \/ messages'[s] = messages[s]
         \/ messages'[s] = <<>> /\ s \in removed'
         \/ \E r \in Requests :
              /\ pc[r] = "running" /\ Target(r) = s
              /\ \/ messages'[s] = messages[s] \o Turn(r)
                 \/ messages'[s] = messages[s] \o <<Question(r)>> /\ r \in torn'
  <1>1. ASSUME NEW q \in SessionIds, DeleteSession(q)
        PROVE  messages'[s] = messages[s] \/ (messages'[s] = <<>> /\ s \in removed')
    BY <1>1 DEF DeleteSession, TypeOK
  <1>2. ASSUME NEW r \in Requests, Finish(r)
        PROVE  \/ messages'[s] = messages[s]
               \/ /\ pc[r] = "running" /\ Target(r) = s
                  /\ \/ messages'[s] = messages[s] \o Turn(r)
                     \/ messages'[s] = messages[s] \o <<Question(r)>> /\ r \in torn'
    <2>1. PICK upto \in Steps : /\ Persist(r, upto)
                                /\ upto = "question" => r \in torn'
      BY <1>2 DEF Finish
    <2>2. CASE s # Target(r) BY <2>1, <2>2, PersistSteps
    <2>3. CASE s = Target(r)
      <3>1. messages'[s] = messages[s] \o Added(r, upto) BY <2>1, <2>3, PersistSteps
      <3>2. pc[r] = "running" BY <1>2 DEF Finish
      <3>3. CASE upto = "question" BY <2>1, <2>3, <3>1, <3>2, <3>3 DEF Added
      <3>4. CASE upto = "answer" BY <2>3, <3>1, <3>2, <3>4 DEF Added
      <3>5. CASE upto \in {"nothing", "session"}
        <4>1. messages'[s] = messages[s] \o <<>> BY <3>1, <3>5 DEF Added
        <4>2. messages[s] \in Seq(Message) BY DEF TypeOK
        <4> QED BY <4>1, <4>2
      <3> QED BY <3>3, <3>4, <3>5 DEF Steps
    <2> QED BY <2>2, <2>3
  <1>3. \/ UNCHANGED messages
        \/ \E q \in SessionIds : DeleteSession(q)
        \/ \E r \in Requests : Finish(r)
    BY DEF Next, vars, Ask, Serve, CreateSession, Arrive, OpenStream, Enter, Emit,
           EngineRaises, Look, TakeEvent, KeepAlive, Leave, Crash, chatVars
  <1> QED BY <1>1, <1>2, <1>3

\* A turn that was torn stays so.
LEMMA TornSteps ==
  ASSUME [Next]_vars
  PROVE  torn \subseteq torn'
  <1>1. ASSUME NEW r \in Requests, Finish(r) PROVE torn \subseteq torn'
    BY <1>1 DEF Finish
  <1> QED BY <1>1 DEF Next, vars, Ask, Serve, CreateSession, DeleteSession, Arrive, OpenStream,
                      Enter, Emit, EngineRaises, Look, TakeEvent, KeepAlive, Leave, Crash

\* A question is told of its session when it is asked.
LEMMA HistorySteps ==
  ASSUME TypeOK, [Next]_vars, NEW r \in Requests
  PROVE  \/ ask'[r] = ask[r] /\ history'[r] = history[r]
         \/ UNCHANGED messages /\ history'[r] = Hydrated(ask'[r].session)
  <1>1. ASSUME NEW q \in Requests, Arrive(q)
        PROVE  \/ ask'[r] = ask[r] /\ history'[r] = history[r]
               \/ UNCHANGED messages /\ history'[r] = Hydrated(ask'[r].session)
    BY <1>1 DEF Arrive, TypeOK, chatVars
  <1> QED BY <1>1 DEF Next, vars, Ask, Serve, CreateSession, DeleteSession, OpenStream, Enter,
                      Emit, EngineRaises, Finish, Look, TakeEvent, KeepAlive, Leave, Crash,
                      callVars

-----------------------------------------------------------------------------
(* Conversations.                                                          *)

\* Only questions that were asked are spoken of.
AskedInv ==
    \A s \in SessionIds : \A i \in DOMAIN messages[s] : pc[messages[s][i].of] # "idle"

\* Question and answer in turn.
Paired(ms) ==
    /\ Len(ms) % 2 = 0
    /\ \A i \in 1..Len(ms) : ms[i] = IF i % 2 = 1 THEN Question(ms[i].of)
                                                  ELSE Reply(ms[i - 1].of)

PairedInv == torn = {} => \A s \in SessionIds : Paired(messages[s])

\* What follows a text leaves it as it is.
LEMMA Appended ==
  ASSUME NEW S, NEW ms \in Seq(S), NEW add \in Seq(S)
  PROVE  /\ Len(ms \o add) = Len(ms) + Len(add)
         /\ DOMAIN ms = 1..Len(ms) /\ DOMAIN (ms \o add) = 1..(Len(ms) + Len(add))
         /\ \A i \in 1..Len(ms) : (ms \o add)[i] = ms[i]
         /\ \A i \in 1..Len(add) : (ms \o add)[Len(ms) + i] = add[i]
         /\ \A i \in 1..(Len(ms) + Len(add)) : i \in 1..Len(ms) \/ i - Len(ms) \in 1..Len(add)
  OBVIOUS

LEMMA TurnIs ==
  ASSUME NEW r
  PROVE  /\ Len(Turn(r)) = 2 /\ Turn(r)[1] = Question(r) /\ Turn(r)[2] = Reply(r)
         /\ Len(<<Question(r)>>) = 1 /\ <<Question(r)>>[1] = Question(r)
         /\ Question(r).role = "user" /\ Question(r).of = r
         /\ Reply(r).role = "assistant" /\ Reply(r).of = r
  BY DEF Turn, Question, Reply

\* A turn after turns makes turns.
LEMMA PairedAppended ==
  ASSUME NEW ms \in Seq(Message), Paired(ms), NEW r \in Requests
  PROVE  Paired(ms \o Turn(r))
  <1> DEFINE n == Len(ms)
             all == ms \o Turn(r)
  <1>1. n \in Nat /\ n % 2 = 0 BY DEF Paired
  <1>2. /\ Len(all) = n + 2
        /\ \A i \in 1..n : all[i] = ms[i]
        /\ all[n + 1] = Question(r) /\ all[n + 2] = Reply(r)
    BY Appended, TurnIs, TurnType
  <1> HIDE DEF all, n
  <1>3. \A i \in 1..(n + 2) : i \in 1..n \/ i = n + 1 \/ i = n + 2 BY <1>1
  <1>4. (n + 1) % 2 = 1 /\ (n + 2) % 2 = 0 /\ n + 2 - 1 = n + 1 BY <1>1
  <1>5. \A i \in 1..n : all[i] = IF i % 2 = 1 THEN Question(all[i].of) ELSE Reply(all[i - 1].of)
    <2> SUFFICES ASSUME NEW i \in 1..n
                 PROVE  all[i] = IF i % 2 = 1 THEN Question(all[i].of) ELSE Reply(all[i - 1].of)
      OBVIOUS
    <2>1. ms[i] = IF i % 2 = 1 THEN Question(ms[i].of) ELSE Reply(ms[i - 1].of)
      BY DEF Paired, n
    <2>2. i % 2 = 1 \/ i - 1 \in 1..n BY <1>1
    <2> QED BY <1>2, <2>1, <2>2
  <1>6. Question(r) = Question(Question(r).of) /\ Reply(r) = Reply(Question(r).of) BY TurnIs
  <1>7. ASSUME NEW i \in 1..(n + 2)
        PROVE  all[i] = IF i % 2 = 1 THEN Question(all[i].of) ELSE Reply(all[i - 1].of)
    <2>1. CASE i \in 1..n BY <1>5, <2>1
    <2>2. CASE i = n + 1
      <3>1. i % 2 = 1 BY <1>4, <2>2
      <3>2. all[i] = Question(r) BY <1>2, <2>2
      <3> QED BY <1>6, <3>1, <3>2
    <2>3. CASE i = n + 2
      <3>1. i % 2 # 1 /\ i - 1 = n + 1 BY <1>1, <2>3
      <3>2. all[i] = Reply(r) /\ all[i - 1] = Question(r) BY <1>2, <2>3, <3>1
      <3> QED BY <1>6, <3>1, <3>2
    <2> QED BY <1>3, <2>1, <2>2, <2>3
  <1> QED BY <1>2, <1>4, <1>7 DEF Paired, all

\* The last messages of turns are turns: their number is even.
LEMMA PairedLast ==
  ASSUME NEW ms \in Seq(Message), Paired(ms)
  PROVE  Paired(LastMessages(ms))
  <1> DEFINE first == IF Len(ms) > HistoryLimit THEN Len(ms) - HistoryLimit + 1 ELSE 1
             last == LastMessages(ms)
  <1>1. /\ first \in 1..(Len(ms) + 1)
        /\ Len(last) = Len(ms) - first + 1
        /\ \A i \in 1..Len(last) : first + i - 1 \in 1..Len(ms) /\ last[i] = ms[first + i - 1]
    BY LastMessagesOf
  <1>2. Len(ms) \in Nat /\ Len(ms) % 2 = 0 BY DEF Paired
  <1>3. HistoryLimit \in Nat /\ HistoryLimit % 2 = 0 BY QueryAssumption
  <1>4. first % 2 = 1
    <2>1. ASSUME NEW a \in Nat, NEW b \in Nat, a % 2 = 0, b % 2 = 0, a > b
          PROVE  (a - b + 1) % 2 = 1
      BY <2>1
    <2>2. CASE Len(ms) > HistoryLimit
      <3>1. (Len(ms) - HistoryLimit + 1) % 2 = 1 BY <1>2, <1>3, <2>1, <2>2
      <3> QED BY <2>2, <3>1
    <2>3. CASE ~(Len(ms) > HistoryLimit) BY <2>3
    <2> QED BY <2>2, <2>3
  <1> HIDE DEF first, last
  <1>5. Len(last) \in Nat /\ Len(last) % 2 = 0
    <2>1. ASSUME NEW a \in Nat, NEW b \in 1..(a + 1), a % 2 = 0, b % 2 = 1
          PROVE  a - b + 1 \in Nat /\ (a - b + 1) % 2 = 0
      BY <2>1
    <2> QED BY <1>1, <1>2, <1>4, <2>1
  <1>6. ASSUME NEW i \in 1..Len(last)
        PROVE  last[i] = IF i % 2 = 1 THEN Question(last[i].of) ELSE Reply(last[i - 1].of)
    <2>1. first \in Nat /\ i \in Nat BY <1>1, <1>2
    <2>2. PICK k \in 1..Len(ms) : k = first + i - 1 BY <1>1
    <2>3. k % 2 = i % 2 BY <1>4, <2>1, <2>2
    <2>4. ms[k] = IF k % 2 = 1 THEN Question(ms[k].of) ELSE Reply(ms[k - 1].of)
      BY DEF Paired
    <2>5. last[i] = ms[k] BY <1>1, <2>2
    <2>6. CASE i % 2 = 1 BY <2>3, <2>4, <2>5, <2>6
    <2>7. CASE i % 2 # 1
      <3>1. i - 1 \in 1..Len(last) BY <1>5, <2>1, <2>7
      <3>2. first + (i - 1) - 1 = k - 1 BY <2>1, <2>2
      <3>3. last[i - 1] = ms[k - 1] BY <1>1, <3>1, <3>2
      <3> QED BY <2>3, <2>4, <2>5, <2>7, <3>3
    <2> QED BY <2>6, <2>7
  <1> QED BY <1>5, <1>6 DEF Paired, last

\* What was said in a session goes on being said in it.
LEMMA AskedStep ==
  ASSUME TypeOK, [Next]_vars
  PROVE  \A r \in Requests : pc[r] # "idle" =>
           /\ pc'[r] # "idle" /\ ask'[r] = ask[r]
           /\ Target(r)' = Target(r)
  BY AskSteps DEF Target

LEMMA MessageOf ==
  ASSUME TypeOK, NEW s \in SessionIds
  PROVE  /\ messages[s] \in Seq(Message)
         /\ Len(messages[s]) \in Nat /\ DOMAIN messages[s] = 1..Len(messages[s])
         /\ \A i \in 1..Len(messages[s]) : messages[s][i].of \in Requests
  <1>1. messages[s] \in Seq(Message) BY DEF TypeOK
  <1>2. \A i \in 1..Len(messages[s]) : messages[s][i] \in Message BY <1>1
  <1>3. \A m \in Message : m.of \in Requests BY DEF Message
  <1> QED BY <1>1, <1>2, <1>3

LEMMA TurnsSteps ==
  ASSUME TypeOK, AskedInv, TurnsWhole, [Next]_vars, NEW s \in SessionIds,
         NEW i \in DOMAIN messages'[s]
  PROVE  LET m == messages'[s][i]
         IN  /\ \E r \in Requests : m.of = r /\ pc'[r] # "idle" /\ Target(r)' = s
             /\ m.role = "assistant" => i > 1 /\ messages'[s][i - 1] = Question(m.of)
  <1> DEFINE old == messages[s]
             new == messages'[s]
  <1>1. /\ old \in Seq(Message) /\ Len(old) \in Nat /\ DOMAIN old = 1..Len(old)
        /\ \A k \in 1..Len(old) :
             /\ old[k].of \in Requests /\ pc[old[k].of] # "idle"
             /\ Target(old[k].of) = s
             /\ old[k].role = "assistant" => k > 1 /\ old[k - 1] = Question(old[k].of)
    BY MessageOf DEF AskedInv, TurnsWhole
  <1>2. \A r \in Requests : pc[r] # "idle" => pc'[r] # "idle" /\ Target(r)' = Target(r)
    BY AskedStep
  <1>3. ASSUME NEW k \in 1..Len(old), k = i, new[k] = old[k],
               k > 1 => new[k - 1] = old[k - 1]
        PROVE  /\ \E r \in Requests : new[i].of = r /\ pc'[r] # "idle" /\ Target(r)' = s
               /\ new[i].role = "assistant" => i > 1 /\ new[i - 1] = Question(new[i].of)
    <2>1. PICK r \in Requests : r = old[k].of /\ pc[r] # "idle" /\ Target(r) = s BY <1>1
    <2>2. pc'[r] # "idle" /\ Target(r)' = s BY <1>2, <2>1
    <2>3. new[i].role = "assistant" => i > 1 /\ new[i - 1] = Question(new[i].of)
      BY <1>1, <1>3
    <2> QED BY <1>3, <2>1, <2>2, <2>3
  <1>4. CASE new = old BY <1>1, <1>3, <1>4
  <1>5. CASE new = <<>> BY <1>5
  <1>6. ASSUME NEW r \in Requests, pc[r] = "running", Target(r) = s,
               new = old \o Turn(r) \/ new = old \o <<Question(r)>>
        PROVE  /\ \E q \in Requests : new[i].of = q /\ pc'[q] # "idle" /\ Target(q)' = s
               /\ new[i].role = "assistant" => i > 1 /\ new[i - 1] = Question(new[i].of)
    <2>1. /\ \A k \in 1..Len(old) : new[k] = old[k]
          /\ new[Len(old) + 1] = Question(r)
          /\ i \in 1..Len(old) \/ i = Len(old) + 1 \/ (i = Len(old) + 2 /\ new[i] = Reply(r))
      <3>1. CASE new = old \o Turn(r)
        <4>1. /\ DOMAIN new = 1..(Len(old) + 2)
              /\ \A k \in 1..Len(old) : new[k] = old[k]
              /\ \A k \in 1..2 : new[Len(old) + k] = Turn(r)[k]
          <5>1. Turn(r) \in Seq(Message) /\ Len(Turn(r)) = 2 BY TurnType, TurnIs
          <5>2. \A ms, add \in Seq(Message) :
                  /\ DOMAIN (ms \o add) = 1..(Len(ms) + Len(add))
                  /\ \A k \in 1..Len(ms) : (ms \o add)[k] = ms[k]
                  /\ \A k \in 1..Len(add) : (ms \o add)[Len(ms) + k] = add[k]
            BY Appended
          <5>3. old \in Seq(Message) BY <1>1
          <5> HIDE DEF old, new
          <5>4. /\ DOMAIN (old \o Turn(r)) = 1..(Len(old) + Len(Turn(r)))
                /\ \A k \in 1..Len(old) : (old \o Turn(r))[k] = old[k]
                /\ \A k \in 1..Len(Turn(r)) : (old \o Turn(r))[Len(old) + k] = Turn(r)[k]
            BY <5>1, <5>2, <5>3, Zenon
          <5> QED BY <3>1, <5>1, <5>4, Zenon
        <4>2. new[Len(old) + 1] = Question(r) /\ new[Len(old) + 2] = Reply(r)
          BY <4>1, TurnIs
        <4> QED BY <1>1, <4>1, <4>2
      <3>2. CASE new = old \o <<Question(r)>>
        BY <1>1, <3>2, Appended, TurnType, TurnIs
      <3> QED BY <1>6, <3>1, <3>2
    <2>2. pc'[r] # "idle" /\ Target(r)' = s BY <1>2, <1>6
    <2>3. CASE i \in 1..Len(old)
      <3>1. i > 1 => i - 1 \in 1..Len(old) BY <1>1, <2>3
      <3> QED BY <1>3, <2>1, <2>3, <3>1
    <2>4. CASE i = Len(old) + 1 BY <2>1, <2>2, <2>4, TurnIs
    <2>5. CASE i = Len(old) + 2 /\ new[i] = Reply(r)
      <3>1. i > 1 /\ i - 1 = Len(old) + 1 BY <1>1, <2>5
      <3>2. new[i - 1] = Question(r) BY <2>1, <3>1
      <3> QED BY <2>2, <2>5, <3>1, <3>2, TurnIs
    <2> QED BY <2>1, <2>3, <2>4, <2>5
  <1>7. \/ new = old \/ new = <<>>
        \/ \E r \in Requests : /\ pc[r] = "running" /\ Target(r) = s
                               /\ new = old \o Turn(r) \/ new = old \o <<Question(r)>>
    BY MessageSteps
  <1> QED BY <1>4, <1>5, <1>6, <1>7

LEMMA PairedSteps ==
  ASSUME TypeOK, PairedInv, [Next]_vars
  PROVE  PairedInv'
  <1> SUFFICES ASSUME torn' = {}, NEW s \in SessionIds
               PROVE  Paired(messages'[s])
    BY DEF PairedInv, Paired
  <1>1. torn = {} BY TornSteps
  <1>2. Paired(messages[s]) /\ messages[s] \in Seq(Message) BY <1>1, MessageOf DEF PairedInv
  <1>3. CASE messages'[s] = messages[s] BY <1>2, <1>3 DEF Paired
  <1>4. CASE messages'[s] = <<>> BY <1>4 DEF Paired
  <1>5. ASSUME NEW r \in Requests, messages'[s] = messages[s] \o Turn(r)
        PROVE  Paired(messages'[s])
    <2>1. \A ms \in Seq(Message) : Paired(ms) => Paired(ms \o Turn(r)) BY PairedAppended
    <2>2. Paired(messages[s] \o Turn(r)) BY <1>2, <2>1
    <2> QED BY <1>5, <2>2
  <1> QED BY <1>3, <1>4, <1>5, MessageSteps

\* What a question is told of a session was said in it.
LEMMA HydratedFrom ==
  ASSUME TypeOK, AskedInv, TurnsWhole, PairedInv, NEW s
  PROVE  LET h == Hydrated(s)
         IN  /\ h \in Seq(Message)
             /\ \A i \in 1..Len(h) : pc[h[i].of] # "idle" /\ Target(h[i].of) = s
             /\ torn = {} => Paired(h)
  <1>1. CASE s \notin sessions BY <1>1 DEF Hydrated, Paired
  <1>2. CASE s \in sessions
    <2>1. s \in SessionIds /\ Hydrated(s) = LastMessages(messages[s])
      BY <1>2 DEF Hydrated, TypeOK
    <2>2. messages[s] \in Seq(Message) BY <2>1, MessageOf
    <2>3. \A k \in 1..Len(messages[s]) : /\ pc[messages[s][k].of] # "idle"
                                         /\ Target(messages[s][k].of) = s
      BY <2>1, MessageOf DEF AskedInv, TurnsWhole
    <2>4. torn = {} => Paired(LastMessages(messages[s]))
      <3>1. torn = {} => Paired(messages[s]) BY <2>1 DEF PairedInv
      <3>2. \A ms \in Seq(Message) : Paired(ms) => Paired(LastMessages(ms)) BY PairedLast
      <3> QED BY <2>2, <3>1, <3>2
    <2>5. /\ LastMessages(messages[s]) \in Seq(Message)
          /\ \A i \in 1..Len(LastMessages(messages[s])) :
               \E k \in 1..Len(messages[s]) : LastMessages(messages[s])[i] = messages[s][k]
      <3>1. \A ms \in Seq(Message) :
              /\ LastMessages(ms) \in Seq(Message)
              /\ \A i \in 1..Len(LastMessages(ms)) :
                   \E k \in 1..Len(ms) : LastMessages(ms)[i] = ms[k]
        BY LastMessagesOf
      <3> QED BY <2>2, <3>1
    <2>6. \A i \in 1..Len(LastMessages(messages[s])) :
            /\ pc[LastMessages(messages[s])[i].of] # "idle"
            /\ Target(LastMessages(messages[s])[i].of) = s
      BY <2>3, <2>5
    <2> QED BY <2>1, <2>4, <2>5, <2>6
  <1> QED BY <1>1, <1>2

\* The history of a question: of its session, asked, and in turns.
HistoryOf(r) ==
    /\ \A i \in 1..Len(history[r]) : /\ pc[history[r][i].of] # "idle"
                                     /\ Target(history[r][i].of) = ask[r].session
    /\ torn = {} => Paired(history[r])

HistoryInv == \A r \in Requests : HistoryOf(r)

LEMMA HistoryInvSteps ==
  ASSUME TypeOK, TypeOK', AskedInv, TurnsWhole, PairedInv, HistoryInv, [Next]_vars
  PROVE  HistoryInv'
  <1> SUFFICES ASSUME NEW r \in Requests PROVE HistoryOf(r)'
    BY DEF HistoryInv
  <1>1. torn' = {} => torn = {} BY TornSteps
  <1>2. \A q \in Requests : pc[q] # "idle" => pc'[q] # "idle" /\ Target(q)' = Target(q)
    BY AskedStep
  <1>3. ASSUME NEW h \in Seq(Message), NEW s, history'[r] = h, ask'[r].session = s,
               \A i \in 1..Len(h) : pc[h[i].of] # "idle" /\ Target(h[i].of) = s,
               torn = {} => Paired(h)
        PROVE  HistoryOf(r)'
    <2>1. ASSUME NEW i \in 1..Len(h)
          PROVE  \E q \in Requests : q = h[i].of /\ pc'[q] # "idle" /\ Target(q)' = s
      <3>1. h[i] \in Message OBVIOUS
      <3>2. h[i].of \in Requests BY <3>1 DEF Message
      <3> QED BY <1>2, <1>3, <3>2
    <2>2. \A i \in 1..Len(h) : pc'[h[i].of] # "idle" /\ Target(h[i].of)' = s
      BY <2>1 DEF Target
    <2>3. torn' = {} => Paired(history'[r]) BY <1>1, <1>3
    <2> QED BY <1>3, <2>2, <2>3 DEF HistoryOf, Paired
  <1>4. CASE ask'[r] = ask[r] /\ history'[r] = history[r]
    <2>1. history[r] \in Seq(Message) BY DEF TypeOK
    <2>2. HistoryOf(r) BY DEF HistoryInv
    <2> QED BY <1>3, <1>4, <2>1, <2>2 DEF HistoryOf
  <1>5. CASE history'[r] = Hydrated(ask'[r].session)
    <2>1. \A s : /\ Hydrated(s) \in Seq(Message)
                 /\ \A i \in 1..Len(Hydrated(s)) : /\ pc[Hydrated(s)[i].of] # "idle"
                                                   /\ Target(Hydrated(s)[i].of) = s
                 /\ torn = {} => Paired(Hydrated(s))
      BY HydratedFrom
    <2> QED BY <1>3, <1>5, <2>1
  <1> QED BY <1>4, <1>5, HistorySteps

ConversationInv == TypeOK /\ AskedInv /\ TurnsWhole /\ PairedInv /\ HistoryInv

LEMMA ConversationInit == Init => ConversationInv
  <1> SUFFICES ASSUME Init PROVE ConversationInv OBVIOUS
  <1>1. TypeOK BY TypeInit
  <1>2. \A r \in Requests : Target(r) = r BY DEF Init, Target
  <1>3. ASSUME NEW s \in SessionIds
        PROVE  \/ messages[s] = <<>>
               \/ s \in Earlier /\ messages[s] = Turn(s) /\ pc[s] = "done" /\ Target(s) = s
    BY <1>2, QueryAssumption DEF Init
  <1>4. ASSUME NEW s \in SessionIds, NEW i \in DOMAIN messages[s]
        PROVE  /\ pc[messages[s][i].of] # "idle" /\ Target(messages[s][i].of) = s
               /\ messages[s][i].role = "assistant" =>
                    i > 1 /\ messages[s][i - 1] = Question(messages[s][i].of)
    <2>1. CASE messages[s] = <<>> BY <1>4, <2>1
    <2>2. CASE s \in Earlier /\ messages[s] = Turn(s) /\ pc[s] = "done" /\ Target(s) = s
      <3>1. i \in 1..2 BY <1>4, <2>2 DEF Turn
      <3>2. CASE i = 1
        <4>1. messages[s][i] = Question(s) BY <2>2, <3>2, TurnIs
        <4> QED BY <2>2, <4>1, TurnIs
      <3>3. CASE i = 2
        <4>1. messages[s][i] = Reply(s) /\ messages[s][i - 1] = Question(s) /\ i > 1
          BY <2>2, <3>3, TurnIs
        <4> QED BY <2>2, <4>1, TurnIs
      <3> QED BY <3>1, <3>2, <3>3
    <2> QED BY <1>3, <2>1, <2>2
  <1>5. AskedInv /\ TurnsWhole BY <1>4 DEF AskedInv, TurnsWhole
  <1>6. Paired(<<>>) BY DEF Paired
  <1>7. \A r \in Requests : Paired(Turn(r))
    <2> SUFFICES ASSUME NEW r \in Requests PROVE Paired(Turn(r)) OBVIOUS
    <2>1. <<>> \in Seq(Message) /\ <<>> \o Turn(r) = Turn(r) BY TurnType
    <2>2. \A ms \in Seq(Message) : Paired(ms) => Paired(ms \o Turn(r)) BY PairedAppended
    <2>3. Paired(<<>> \o Turn(r)) BY <1>6, <2>1, <2>2
    <2> QED BY <2>1, <2>3
  <1>8. PairedInv BY <1>3, <1>6, <1>7, QueryAssumption DEF PairedInv
  <1>9. HistoryInv BY <1>6 DEF Init, HistoryInv, HistoryOf
  <1> QED BY <1>1, <1>5, <1>8, <1>9 DEF ConversationInv

LEMMA ConversationStep == ConversationInv /\ [Next]_vars => ConversationInv'
  <1> SUFFICES ASSUME ConversationInv, [Next]_vars PROVE ConversationInv' OBVIOUS
  <1> USE DEF ConversationInv
  <1>1. TypeOK' BY TypeInvariance
  <1>2. ASSUME NEW s \in SessionIds, NEW i \in DOMAIN messages'[s]
        PROVE  /\ pc'[messages'[s][i].of] # "idle"
               /\ \E r \in Requests : messages'[s][i].of = r /\ Target(r)' = s
               /\ messages'[s][i].role = "assistant" =>
                    i > 1 /\ messages'[s][i - 1] = Question(messages'[s][i].of)
    BY TurnsSteps
  <1>3. AskedInv' BY <1>2 DEF AskedInv
  <1>4. TurnsWhole'
    <2>1. ASSUME NEW s \in SessionIds, NEW i \in DOMAIN messages'[s]
          PROVE  /\ IF ask'[messages'[s][i].of].session = None
                    THEN messages'[s][i].of = s ELSE ask'[messages'[s][i].of].session = s
                 /\ messages'[s][i].role = "assistant" =>
                      i > 1 /\ messages'[s][i - 1] = Question(messages'[s][i].of)
      <3>1. PICK r \in Requests : messages'[s][i].of = r /\ Target(r)' = s BY <1>2
      <3>2. IF ask'[r].session = None THEN r = s ELSE ask'[r].session = s
        BY <3>1 DEF Target
      <3> QED BY <1>2, <3>1, <3>2
    <2> QED BY <2>1 DEF TurnsWhole, Target, Question
  <1>5. PairedInv' BY PairedSteps
  <1>6. HistoryInv' BY <1>1, HistoryInvSteps
  <1> QED BY <1>1, <1>3, <1>4, <1>5, <1>6

\* However many questions are asked, run and are stored at once, and whichever
\* writes fail or sessions are deleted in between, what a session holds are
\* whole turns of its own, and what a question is told of it too: the history
\* is read before the lock and the turn is written after it, but in one step of
\* the event loop.
THEOREM ConversationsAreWhole == Spec => []ConversationWhole
  <1>1. ConversationInv => ConversationWhole
    <2> SUFFICES ASSUME ConversationInv PROVE ConversationWhole OBVIOUS
    <2>1. TurnsWhole BY DEF ConversationInv
    <2>2. HistoryPaired
      <3> SUFFICES ASSUME torn = {}, NEW r \in Requests
                   PROVE  /\ Len(history[r]) % 2 = 0
                          /\ \A i \in DOMAIN history[r] :
                               /\ Target(history[r][i].of) = ask[r].session
                               /\ history[r][i] = IF i % 2 = 1 THEN Question(history[r][i].of)
                                                  ELSE Reply(history[r][i - 1].of)
        BY DEF HistoryPaired
      <3>1. DOMAIN history[r] = 1..Len(history[r]) BY DEF ConversationInv, TypeOK
      <3>2. HistoryOf(r) BY DEF ConversationInv, HistoryInv
      <3> QED BY <3>1, <3>2 DEF HistoryOf, Paired
    <2> QED BY <2>1, <2>2 DEF ConversationWhole
  <1> QED BY <1>1, ConversationInit, ConversationStep, PTL DEF Spec

-----------------------------------------------------------------------------
(* Answers.                                                                *)

\* Who was given an answer is done, and who is done has its turn stored.
StoredInv ==
    \A r \in Requests :
        /\ answer[r] = "result" => pc[r] = "done"
        /\ (pc[r] = "done" /\ Target(r) \notin removed)
              => {Question(r), Reply(r)} \subseteq ToSet(messages[Target(r)])

LEMMA DoneSteps ==
  ASSUME TypeOK, [Next]_vars, NEW r \in Requests
  PROVE  /\ pc[r] = "done" => pc'[r] = "done"
         /\ pc'[r] = "done" => \/ pc[r] = "done"
                               \/ /\ pc[r] = "running"
                                  /\ messages'[Target(r)] = messages[Target(r)] \o Turn(r)
         /\ answer'[r] = "result" => \/ answer[r] = "result"
                                     \/ pc'[r] = "done"
  <1>1. ASSUME NEW q \in Requests, Arrive(q) \/ OpenStream(q) \/ Enter(q) \/ EngineRaises(q)
        PROVE  /\ pc[r] = "done" => pc'[r] = "done"
               /\ pc'[r] = "done" => pc[r] = "done"
               /\ answer'[r] = "result" => answer[r] = "result"
    <2>1. CASE Arrive(q) BY <2>1 DEF Arrive, TypeOK
    <2>2. CASE OpenStream(q) BY <2>2 DEF OpenStream, TypeOK
    <2>3. CASE Enter(q)
      <3>1. q \in ToSet(line) BY <2>3, Leaving DEF Enter, TypeOK
      <3>2. pc[q] = "queued" BY <3>1 DEF TypeOK
      <3> QED BY <2>3, <3>2 DEF Enter, TypeOK
    <2>4. CASE EngineRaises(q) BY <2>4 DEF EngineRaises, Tell, TypeOK
    <2> QED BY <1>1, <2>1, <2>2, <2>3, <2>4
  <1>2. ASSUME NEW q \in Requests, Finish(q)
        PROVE  /\ pc[r] = "done" => pc'[r] = "done"
               /\ pc'[r] = "done" => \/ pc[r] = "done"
                                     \/ /\ pc[r] = "running"
                                        /\ messages'[Target(r)] = messages[Target(r)] \o Turn(r)
               /\ answer'[r] = "result" => \/ answer[r] = "result"
                                           \/ pc'[r] = "done"
    <2>1. PICK upto \in Steps :
            /\ Persist(q, upto)
            /\ \/ /\ upto = "answer"
                  /\ pc' = [pc EXCEPT ![q] = "done"]
                  /\ Tell(q, "result")
               \/ /\ pc' = [pc EXCEPT ![q] = "failed"]
                  /\ Tell(q, "error")
      BY <1>2 DEF Finish
    <2>2. pc[q] = "running" BY <1>2 DEF Finish
    <2>3. CASE upto = "answer" /\ pc' = [pc EXCEPT ![q] = "done"] /\ Tell(q, "result")
      <3>1. messages'[Target(q)] = messages[Target(q)] \o Turn(q)
        BY <2>1, <2>3, PersistSteps DEF Added
      <3> QED BY <2>2, <2>3, <3>1 DEF Tell, TypeOK
    <2>4. CASE pc' = [pc EXCEPT ![q] = "failed"] /\ Tell(q, "error")
      BY <2>2, <2>4 DEF Tell, TypeOK
    <2> QED BY <2>1, <2>3, <2>4
  <1>3. ASSUME NEW q \in Requests, Look(q) \/ Leave(q)
        PROVE  /\ pc[r] = "done" => pc'[r] = "done"
               /\ pc'[r] = "done" => pc[r] = "done"
               /\ answer'[r] = "result" => answer[r] = "result" \/ pc'[r] = "done"
    BY <1>3 DEF Look, Leave, Drained, TaskDone, TypeOK
  <1>4. CASE Crash BY <1>4 DEF Crash
  <1>5. CASE UNCHANGED <<pc, answer>> BY <1>5
  <1> QED BY <1>1, <1>2, <1>3, <1>4, <1>5
          DEF Next, Ask, Serve, vars, CreateSession, DeleteSession, Emit, TakeEvent, KeepAlive

\* A session that was deleted stays so.
LEMMA RemovedSteps ==
  ASSUME [Next]_vars
  PROVE  removed \subseteq removed'
  BY DEF Next, vars, Ask, Serve, CreateSession, DeleteSession, Arrive, OpenStream, Enter, Emit,
         EngineRaises, Finish, Look, TakeEvent, KeepAlive, Leave, Crash

LEMMA ToSetAppended ==
  ASSUME NEW S, NEW ms \in Seq(S), NEW add \in Seq(S)
  PROVE  ToSet(ms) \cup ToSet(add) \subseteq ToSet(ms \o add)
  <1> DEFINE all == ms \o add
  <1>1. /\ Len(ms) \in Nat /\ Len(add) \in Nat
        /\ DOMAIN ms = 1..Len(ms) /\ DOMAIN add = 1..Len(add)
        /\ DOMAIN all = 1..(Len(ms) + Len(add))
        /\ \A i \in 1..Len(ms) : all[i] = ms[i]
        /\ \A i \in 1..Len(add) : all[Len(ms) + i] = add[i]
    BY Appended
  <1> HIDE DEF all
  <1>2. ASSUME NEW i \in 1..Len(ms) PROVE \E k \in DOMAIN all : all[k] = ms[i]
    <2>1. i \in 1..(Len(ms) + Len(add)) BY <1>1
    <2> QED BY <1>1, <2>1
  <1>3. ASSUME NEW i \in 1..Len(add) PROVE \E k \in DOMAIN all : all[k] = add[i]
    <2>1. Len(ms) + i \in 1..(Len(ms) + Len(add)) BY <1>1
    <2> QED BY <1>1, <2>1
  <1>4. /\ ToSet(ms) = {ms[i] : i \in 1..Len(ms)}
        /\ ToSet(add) = {add[i] : i \in 1..Len(add)}
        /\ ToSet(all) = {all[i] : i \in DOMAIN all}
    BY <1>1, Zenon DEF ToSet
  <1>5. ToSet(ms) \cup ToSet(add) \subseteq ToSet(all) BY <1>2, <1>3, <1>4
  <1> QED BY <1>5 DEF all

LEMMA StoredStep ==
  ASSUME TypeOK, StoredInv, [Next]_vars
  PROVE  StoredInv'
  <1> SUFFICES ASSUME NEW r \in Requests
               PROVE  /\ answer'[r] = "result" => pc'[r] = "done"
                      /\ (pc'[r] = "done" /\ Target(r)' \notin removed')
                            => {Question(r), Reply(r)} \subseteq ToSet(messages'[Target(r)'])
    BY DEF StoredInv, Question, Reply
  <1>1. answer'[r] = "result" => pc'[r] = "done" BY DoneSteps DEF StoredInv
  <1>2. ASSUME pc'[r] = "done", Target(r)' \notin removed'
        PROVE  {Question(r), Reply(r)} \subseteq ToSet(messages'[Target(r)'])
    <2>1. Target(r) \in SessionIds /\ messages[Target(r)] \in Seq(Message)
      BY TargetType, MessageOf
    <2>2. \A ms, add \in Seq(Message) : ToSet(ms) \cup ToSet(add) \subseteq ToSet(ms \o add)
      BY ToSetAppended
    <2>3. {Question(r), Reply(r)} \subseteq ToSet(Turn(r)) BY TurnIs DEF Turn, ToSet
    <2>4. pc[r] # "idle" /\ Target(r)' = Target(r)
      <3>1. pc[r] # "idle" BY <1>2, DoneSteps
      <3> QED BY <3>1, AskSteps
    <2>5. CASE messages'[Target(r)] = messages[Target(r)] \o Turn(r)
      <3>1. ToSet(Turn(r)) \subseteq ToSet(messages'[Target(r)])
        BY <2>1, <2>2, <2>5, TurnType
      <3> QED BY <2>3, <2>4, <3>1
    <2>6. CASE pc[r] = "done"
      <3>1. {Question(r), Reply(r)} \subseteq ToSet(messages[Target(r)])
        BY <1>2, <2>4, <2>6, RemovedSteps DEF StoredInv
      <3>2. PICK add \in Seq(Message) :
              messages'[Target(r)] = messages[Target(r)] \o add
        <4>1. messages[Target(r)] = messages[Target(r)] \o <<>> /\ <<>> \in Seq(Message)
          BY <2>1
        <4>2. \A s \in SessionIds :
                \/ messages'[s] = messages[s]
                \/ s \in removed'
                \/ \E q \in Requests : \/ messages'[s] = messages[s] \o Turn(q)
                                       \/ messages'[s] = messages[s] \o <<Question(q)>>
          BY MessageSteps
        <4>3. Target(r) \notin removed' BY <1>2, <2>4
        <4> QED BY <2>1, <4>1, <4>2, <4>3, TurnType
      <3>3. ToSet(messages[Target(r)]) \subseteq ToSet(messages'[Target(r)])
        <4>1. ToSet(messages[Target(r)]) \cup ToSet(add)
                \subseteq ToSet(messages[Target(r)] \o add)
          BY <2>1, <2>2
        <4> QED BY <3>2, <4>1
      <3> QED BY <2>4, <3>1, <3>3
    <2> QED BY <1>2, <2>5, <2>6, DoneSteps
  <1> QED BY <1>1, <1>2

\* Whoever was given an answer finds its question and the answer in its session,
\* unless the session was deleted, whatever else is asked, fails, is deleted or
\* restarted: a turn is told only after it is written.
THEOREM AnswersAreStored == Spec => []AnswerIsStored
  <1>1. Init => TypeOK /\ StoredInv
    <2> SUFFICES ASSUME Init PROVE StoredInv BY TypeInit
    <2> SUFFICES ASSUME NEW r \in Requests, pc[r] = "done"
                 PROVE  {Question(r), Reply(r)} \subseteq ToSet(messages[Target(r)])
      BY DEF Init, StoredInv
    <2>1. Target(r) = r /\ messages[r] = Turn(r) BY DEF Init, Target, SessionIds
    <2> QED BY <2>1, TurnIs DEF Turn, ToSet
  <1>2. TypeOK /\ StoredInv /\ [Next]_vars => (TypeOK /\ StoredInv)'
    BY TypeInvariance, StoredStep
  <1>3. StoredInv => AnswerIsStored BY DEF StoredInv, AnswerIsStored
  <1> QED BY <1>1, <1>2, <1>3, PTL DEF Spec

-----------------------------------------------------------------------------
(* The frames of a stream.                                                 *)

Frames == ToSet(Stages) \cup {"result", "error"}

\* Of n stages, the first were sent, the others are in the queue.
InTransit(s, q, n) ==
    /\ Len(s) + Len(q) = n
    /\ \A i \in 1..Len(s) : s[i] = Stages[i]
    /\ \A i \in 1..Len(q) : q[i] = Stages[Len(s) + i]

\* All of them were sent, and one frame more.
Delivered(s, n) ==
    /\ Len(s) = n + 1
    /\ \A i \in 1..n : s[i] = Stages[i]

LEMMA Reported ==
  ASSUME NEW s \in Seq(Frames), NEW q \in Seq(ToSet(Stages)), NEW n \in Nat, n < 3,
         InTransit(s, q, n)
  PROVE  InTransit(s, Append(q, Stages[n + 1]), n + 1)
  <1> DEFINE x == Stages[n + 1]
             all == Append(q, x)
  <1>1. Len(s) \in Nat /\ Len(q) \in Nat /\ Len(s) + Len(q) = n BY DEF InTransit
  <1>2. x \in ToSet(Stages) BY StagesType
  <1> HIDE DEF x
  <1>3. Len(all) = Len(q) + 1 /\ all[Len(q) + 1] = x /\ \A i \in 1..Len(q) : all[i] = q[i]
    BY <1>2
  <1> HIDE DEF all
  <1>4. Len(all) = Len(q) + 1 BY <1>3
  <1>5. Len(s) + Len(all) = n + 1 BY <1>1, <1>4
  <1>6. ASSUME NEW i \in 1..Len(all) PROVE all[i] = Stages[Len(s) + i]
    <2>1. i \in 1..Len(q) \/ i = Len(q) + 1 BY <1>1, <1>4
    <2>2. CASE i \in 1..Len(q) BY <1>3, <2>2 DEF InTransit
    <2>3. CASE i = Len(q) + 1
      <3>1. Len(s) + i = n + 1 BY <1>1, <2>3
      <3> QED BY <1>3, <2>3, <3>1 DEF x
    <2> QED BY <2>1, <2>2, <2>3
  <1>7. \A i \in 1..Len(s) : s[i] = Stages[i] BY DEF InTransit
  <1>8. InTransit(s, all, n + 1) BY <1>5, <1>6, <1>7 DEF InTransit
  <1> QED BY <1>8 DEF all, x

LEMMA Taken ==
  ASSUME NEW s \in Seq(Frames), NEW q \in Seq(ToSet(Stages)), q # <<>>, NEW n \in Nat,
         InTransit(s, q, n)
  PROVE  InTransit(Append(s, Head(q)), Tail(q), n)
  <1> DEFINE all == Append(s, Head(q))
             rest == Tail(q)
  <1>1. Len(s) \in Nat /\ Len(q) \in Nat \ {0} BY DEF InTransit
  <1>2. Len(s) + Len(q) = n BY DEF InTransit
  <1>3. /\ Len(rest) = Len(q) - 1
        /\ \A i \in 1..Len(rest) : rest[i] = q[i + 1]
        /\ Head(q) = q[1] /\ Head(q) \in Frames
    BY DEF Frames
  <1>4. Len(all) = Len(s) + 1 /\ all[Len(s) + 1] = Head(q) /\ \A i \in 1..Len(s) : all[i] = s[i]
    BY <1>3
  <1> HIDE DEF all, rest
  <1>5. Len(all) = Len(s) + 1 /\ Len(rest) = Len(q) - 1 BY <1>3, <1>4
  <1>6. Len(all) + Len(rest) = n BY <1>1, <1>2, <1>5
  <1>7. ASSUME NEW i \in 1..Len(all) PROVE all[i] = Stages[i]
    <2>1. i \in 1..Len(s) \/ i = Len(s) + 1 BY <1>1, <1>5
    <2>2. CASE i \in 1..Len(s) BY <1>4, <2>2 DEF InTransit
    <2>3. CASE i = Len(s) + 1
      <3>1. 1 \in 1..Len(q) BY <1>1
      <3>2. q[1] = Stages[Len(s) + 1] BY <3>1 DEF InTransit
      <3> QED BY <1>3, <1>4, <2>3, <3>2
    <2> QED BY <2>1, <2>2, <2>3
  <1>8. ASSUME NEW i \in 1..Len(rest) PROVE rest[i] = Stages[Len(all) + i]
    <2>1. i + 1 \in 1..Len(q) BY <1>1, <1>5
    <2>2. q[i + 1] = Stages[Len(s) + (i + 1)] BY <2>1 DEF InTransit
    <2>3. Len(s) + (i + 1) = Len(all) + i BY <1>1, <1>5
    <2> QED BY <1>3, <2>2, <2>3
  <1>9. InTransit(all, rest, n) BY <1>6, <1>7, <1>8 DEF InTransit
  <1> QED BY <1>9 DEF all, rest

LEMMA Closed ==
  ASSUME NEW s \in Seq(Frames), NEW n \in Nat, InTransit(s, <<>>, n), NEW x \in Frames
  PROVE  Delivered(Append(s, x), n) /\ Last(Append(s, x)) = x
  <1> DEFINE all == Append(s, x)
  <1>1. Len(s) \in Nat OBVIOUS
  <1>2. Len(s) + Len(<<>>) = n BY DEF InTransit
  <1>3. Len(s) = n BY <1>1, <1>2
  <1>4. Len(all) = Len(s) + 1 /\ all[Len(s) + 1] = x /\ \A i \in 1..Len(s) : all[i] = s[i]
    OBVIOUS
  <1>5. \A i \in 1..Len(s) : s[i] = Stages[i] BY DEF InTransit
  <1> HIDE DEF all
  <1>6. Delivered(all, n) BY <1>3, <1>4, <1>5 DEF Delivered
  <1>7. Last(all) = x BY <1>4 DEF Last
  <1> QED BY <1>6, <1>7 DEF all

LEMMA InTransitIs ==
  ASSUME NEW s \in Seq(Frames), NEW q \in Seq(ToSet(Stages)), NEW n \in Nat, InTransit(s, q, n),
         NEW i \in DOMAIN s
  PROVE  i <= n /\ s[i] = Stages[i]
  <1>1. Len(s) \in Nat /\ Len(q) \in Nat /\ i \in 1..Len(s) OBVIOUS
  <1>2. Len(s) + Len(q) = n BY DEF InTransit
  <1>3. i <= n BY <1>1, <1>2
  <1> QED BY <1>1, <1>3 DEF InTransit

LEMMA DeliveredIs ==
  ASSUME NEW s \in Seq(Frames), NEW n \in Nat, Delivered(s, n)
  PROVE  /\ Len(s) = n + 1
         /\ \A i \in DOMAIN s : (i <= n /\ s[i] = Stages[i]) \/ i = Len(s)
  <1>1. Len(s) = n + 1 /\ DOMAIN s = 1..(n + 1) BY DEF Delivered
  <1>2. \A i \in 1..(n + 1) : i \in 1..n \/ i = n + 1 OBVIOUS
  <1>3. \A i \in 1..n : i <= n /\ s[i] = Stages[i] BY DEF Delivered
  <1> QED BY <1>1, <1>2, <1>3

\* Until its last frame, what a stream sent and what it still has in its queue
\* are the stages the engine reported; the last frame follows them all, and is
\* the answer.
FrameOf(r) ==
    /\ pc[r] = "idle" => ~ask[r].streamed
    /\ pc[r] = "begun" => ask[r].streamed
    /\ stream[r] # "none" => ask[r].streamed /\ pc[r] \notin {"idle", "begun"}
    /\ stream[r] # "closed" => InTransit(sent[r], queue[r], emitted[r])
    /\ stream[r] = "closed" => /\ TaskDone(r)
                               /\ Delivered(sent[r], emitted[r])
                               /\ answer[r] = Last(sent[r])

FrameInv == \A r \in Requests : FrameOf(r)

LEMMA FramePrimed ==
  ASSUME NEW r \in Requests,
         pc'[r] = "idle" => ~ask'[r].streamed,
         pc'[r] = "begun" => ask'[r].streamed,
         stream'[r] # "none" => ask'[r].streamed /\ pc'[r] \notin {"idle", "begun"},
         stream'[r] # "closed" => InTransit(sent'[r], queue'[r], emitted'[r]),
         stream'[r] = "closed" => /\ pc'[r] \in {"done", "failed"}
                                  /\ Delivered(sent'[r], emitted'[r])
                                  /\ answer'[r] = Last(sent'[r])
  PROVE  FrameOf(r)'
  BY DEF FrameOf, TaskDone, InTransit, Delivered, Last, Stages

\* The steps that leave a stream's frames alone.
LEMMA FrameKept ==
  ASSUME NEW r \in Requests, FrameOf(r),
         ask'[r] = ask[r], sent'[r] = sent[r], queue'[r] = queue[r], emitted'[r] = emitted[r],
         stream'[r] = stream[r] \/ (stream[r] # "closed" /\ stream'[r] # "closed" /\ ask[r].streamed),
         stream'[r] # "none" => pc'[r] \notin {"idle", "begun"},
         pc'[r] = pc[r] \/ pc'[r] \notin {"idle", "begun"},
         stream[r] = "closed" => pc'[r] = pc[r] /\ answer'[r] = answer[r]
  PROVE  FrameOf(r)'
  <1>1. InTransit(sent'[r], queue'[r], emitted'[r]) <=> InTransit(sent[r], queue[r], emitted[r])
    OBVIOUS
  <1>2. /\ Delivered(sent'[r], emitted'[r]) <=> Delivered(sent[r], emitted[r])
        /\ Last(sent'[r]) = Last(sent[r])
    OBVIOUS
  <1>3. /\ pc'[r] = "idle" => ~ask'[r].streamed
        /\ pc'[r] = "begun" => ask'[r].streamed
        /\ stream'[r] # "none" => ask'[r].streamed /\ pc'[r] \notin {"idle", "begun"}
    BY DEF FrameOf
  <1>4. stream'[r] # "closed" => InTransit(sent'[r], queue'[r], emitted'[r])
    BY <1>1 DEF FrameOf
  <1>5. stream'[r] = "closed" => /\ pc'[r] \in {"done", "failed"}
                                 /\ Delivered(sent'[r], emitted'[r])
                                 /\ answer'[r] = Last(sent'[r])
    BY <1>2 DEF FrameOf, TaskDone
  <1> QED BY <1>3, <1>4, <1>5, FramePrimed

LEMMA FrameTypes ==
  ASSUME TypeOK, NEW r \in Requests
  PROVE  /\ sent[r] \in Seq(Frames) /\ queue[r] \in Seq(ToSet(Stages)) /\ emitted[r] \in Nat
  <1>1. Len(Stages) = 3 BY StagesType
  <1>2. emitted[r] \in 0..3 BY <1>1 DEF TypeOK
  <1>3. sent[r] \in Seq(Frames) /\ queue[r] \in Seq(ToSet(Stages)) BY DEF TypeOK, Frames
  <1> QED BY <1>2, <1>3

LEMMA FrameSteps ==
  ASSUME TypeOK, FrameInv, [Next]_vars, NEW r \in Requests
  PROVE  FrameOf(r)'
  <1>0. FrameOf(r) BY DEF FrameInv
  <1>1. ASSUME NEW q \in Requests, Arrive(q) PROVE FrameOf(r)'
    <2>1. CASE q # r BY <1>0, <1>1, <2>1, FrameKept DEF Arrive, TypeOK, streamVars, FrameOf
    <2>2. CASE q = r
      <3>1. stream[r] = "none" /\ pc[r] = "idle" BY <1>0, <1>1, <2>2 DEF Arrive, FrameOf
      <3>2. \/ pc'[r] = "begun" /\ ask'[r].streamed
            \/ pc'[r] = "queued"
        BY <1>1, <2>2 DEF Arrive, TypeOK
      <3>3. UNCHANGED <<sent, queue, emitted, stream>> BY <1>1 DEF Arrive, streamVars
      <3>4. InTransit(sent'[r], queue'[r], emitted'[r]) BY <1>0, <3>1, <3>3 DEF FrameOf
      <3> QED BY <3>1, <3>2, <3>3, <3>4, FramePrimed
    <2> QED BY <2>1, <2>2
  <1>2. ASSUME NEW q \in Requests, OpenStream(q) PROVE FrameOf(r)'
    <2>1. CASE q # r
      BY <1>0, <1>2, <2>1, FrameKept DEF OpenStream, TypeOK, callVars, FrameOf
    <2>2. CASE q = r
      <3>1. /\ stream[r] = "none" /\ pc[r] = "begun" /\ ask[r].streamed
            /\ stream'[r] = "looking" /\ pc'[r] = "queued"
        BY <1>0, <1>2, <2>2 DEF OpenStream, FrameOf, TypeOK
      <3> QED BY <1>0, <1>2, <3>1, FrameKept DEF OpenStream, callVars
    <2> QED BY <2>1, <2>2
  <1>3. ASSUME NEW q \in Requests, Enter(q) PROVE FrameOf(r)'
    <2>1. q \in ToSet(line) BY <1>3, Leaving DEF Enter, TypeOK
    <2>2. pc[q] = "queued" BY <2>1 DEF TypeOK
    <2> QED BY <1>0, <1>3, <2>2, FrameKept
            DEF Enter, TypeOK, callVars, streamVars, FrameOf, TaskDone
  <1>4. ASSUME NEW q \in Requests, Emit(q) PROVE FrameOf(r)'
    <2>1. CASE q # r
      BY <1>0, <1>4, <2>1, FrameKept DEF Emit, TypeOK, callVars, FrameOf
    <2>2. CASE q = r
      <3>1. stream[r] # "closed" /\ pc'[r] = pc[r]
        BY <1>0, <1>4, <2>2 DEF Emit, FrameOf, TaskDone
      <3>2. /\ emitted[r] \in Nat /\ emitted[r] < 3 /\ emitted'[r] = emitted[r] + 1
            /\ queue'[r] = Append(queue[r], Stages[emitted[r] + 1])
            /\ sent'[r] = sent[r] /\ stream'[r] = stream[r] /\ ask'[r] = ask[r]
        <4>1. emitted[r] \in Nat BY FrameTypes
        <4>2. emitted[r] < 3
          <5>1. Len(Stages) = 3 BY StagesType
          <5> QED BY <1>4, <2>2, <5>1 DEF Emit
        <4>3. emitted'[r] = emitted[r] + 1 BY <1>4, <2>2 DEF Emit, TypeOK
        <4>4. queue'[r] = Append(queue[r], Stages[emitted[r] + 1])
          BY <1>4, <2>2 DEF Emit, TypeOK
        <4>5. sent'[r] = sent[r] /\ stream'[r] = stream[r] /\ ask'[r] = ask[r]
          BY <1>4 DEF Emit, callVars
        <4> QED BY <4>1, <4>2, <4>3, <4>4, <4>5
      <3>3. InTransit(sent[r], queue[r], emitted[r]) BY <1>0, <3>1 DEF FrameOf
      <3>4. \A s \in Seq(Frames), q2 \in Seq(ToSet(Stages)), n \in Nat :
              n < 3 /\ InTransit(s, q2, n) => InTransit(s, Append(q2, Stages[n + 1]), n + 1)
        BY Reported
      <3>5. InTransit(sent[r], Append(queue[r], Stages[emitted[r] + 1]), emitted[r] + 1)
        BY <3>2, <3>3, <3>4, FrameTypes
      <3>6. InTransit(sent'[r], queue'[r], emitted'[r]) BY <3>2, <3>5
      <3>7. /\ pc[r] = "idle" => ~ask[r].streamed
            /\ pc[r] = "begun" => ask[r].streamed
            /\ stream[r] # "none" => ask[r].streamed /\ pc[r] \notin {"idle", "begun"}
        BY <1>0 DEF FrameOf
      <3> QED BY <3>1, <3>2, <3>6, <3>7, FramePrimed
    <2> QED BY <2>1, <2>2
  <1>5. ASSUME NEW q \in Requests, EngineRaises(q) \/ Finish(q) PROVE FrameOf(r)'
    <2>1. /\ pc[q] = "running"
          /\ \E p \in {"done", "failed"} : pc' = [pc EXCEPT ![q] = p]
          /\ \E a \in {"result", "error"} : Tell(q, a)
          /\ UNCHANGED <<ask, sent, queue, stream, emitted>>
      BY <1>5 DEF EngineRaises, Finish, callVars, streamVars
    <2>2. pc'[r] = pc[r] \/ pc'[r] \in {"done", "failed"} BY <2>1 DEF TypeOK
    <2>3. stream[r] = "closed" => r # q BY <1>0, <2>1 DEF FrameOf, TaskDone
    <2>4. stream[r] = "closed" => pc'[r] = pc[r] /\ answer'[r] = answer[r]
      BY <2>1, <2>3 DEF Tell, TypeOK
    <2>5. stream'[r] # "none" => pc'[r] \notin {"idle", "begun"}
      BY <1>0, <2>1, <2>2 DEF FrameOf
    <2> QED BY <1>0, <2>1, <2>2, <2>4, <2>5, FrameKept
  <1>6. ASSUME NEW q \in Requests, Look(q) PROVE FrameOf(r)'
    <2>0. UNCHANGED <<ask, queue, emitted, pc>> BY <1>6 DEF Look, callVars
    <2>1. CASE q # r
      BY <1>0, <1>6, <2>0, <2>1, FrameKept DEF Look, TypeOK, FrameOf
    <2>2. CASE q = r /\ ~Drained(q)
      <3>1. stream[r] = "looking" /\ stream'[r] = "waiting" /\ UNCHANGED <<sent, answer>>
        BY <1>6, <2>2 DEF Look, TypeOK
      <3> QED BY <1>0, <2>0, <3>1, FrameKept DEF FrameOf
    <2>3. CASE q = r /\ Drained(q)
      <3>1. PICK last \in {"result", "error"} :
              /\ sent'[r] = Append(sent[r], last) /\ answer'[r] = last
              /\ stream[r] = "looking" /\ stream'[r] = "closed"
        BY <1>6, <2>3 DEF Look, TypeOK
      <3>2. pc'[r] \in {"done", "failed"} /\ queue[r] = <<>>
        BY <2>0, <2>3 DEF Drained, TaskDone
      <3>3. /\ ask[r].streamed /\ pc[r] \notin {"idle", "begun"}
            /\ InTransit(sent[r], queue[r], emitted[r])
        BY <1>0, <3>1 DEF FrameOf
      <3>4. \A s \in Seq(Frames), n \in Nat, x \in Frames :
              InTransit(s, <<>>, n) => Delivered(Append(s, x), n) /\ Last(Append(s, x)) = x
        BY Closed
      <3>5. /\ Delivered(Append(sent[r], last), emitted[r])
            /\ Last(Append(sent[r], last)) = last
        <4>1. last \in Frames BY DEF Frames
        <4> QED BY <3>2, <3>3, <3>4, <4>1, FrameTypes
      <3>6. Delivered(sent'[r], emitted'[r]) /\ answer'[r] = Last(sent'[r])
        BY <2>0, <3>1, <3>5
      <3> QED BY <2>0, <3>1, <3>2, <3>3, <3>6, FramePrimed
    <2> QED BY <2>1, <2>2, <2>3
  <1>7. ASSUME NEW q \in Requests, TakeEvent(q) PROVE FrameOf(r)'
    <2>0. UNCHANGED <<ask, emitted, pc, answer>> BY <1>7 DEF TakeEvent, callVars
    <2>1. CASE q # r
      BY <1>0, <1>7, <2>0, <2>1, FrameKept DEF TakeEvent, TypeOK, FrameOf
    <2>2. CASE q = r
      <3>1. /\ stream[r] = "waiting" /\ stream'[r] = "looking"
            /\ queue[r] # <<>>
            /\ sent'[r] = Append(sent[r], Head(queue[r])) /\ queue'[r] = Tail(queue[r])
        BY <1>7, <2>2 DEF TakeEvent, TypeOK
      <3>2. /\ ask[r].streamed /\ pc[r] \notin {"idle", "begun"}
            /\ InTransit(sent[r], queue[r], emitted[r])
        BY <1>0, <3>1 DEF FrameOf
      <3>3. \A s \in Seq(Frames), q2 \in Seq(ToSet(Stages)), n \in Nat :
              q2 # <<>> /\ InTransit(s, q2, n) => InTransit(Append(s, Head(q2)), Tail(q2), n)
        BY Taken
      <3>4. InTransit(Append(sent[r], Head(queue[r])), Tail(queue[r]), emitted[r])
        BY <3>1, <3>2, <3>3, FrameTypes
      <3>5. InTransit(sent'[r], queue'[r], emitted'[r]) BY <2>0, <3>1, <3>4
      <3> QED BY <2>0, <3>1, <3>2, <3>5, FramePrimed
    <2> QED BY <2>1, <2>2
  <1>8. ASSUME NEW q \in Requests, KeepAlive(q) \/ Leave(q) PROVE FrameOf(r)'
    <2>1. UNCHANGED <<ask, sent, queue, emitted, answer>>
      BY <1>8 DEF KeepAlive, Leave, callVars
    <2>2. CASE KeepAlive(q)
      BY <1>0, <2>1, <2>2, FrameKept DEF KeepAlive, TimesOut, TypeOK, FrameOf
    <2>3. CASE Leave(q)
      <3>1. CASE q # r BY <1>0, <2>1, <2>3, <3>1, FrameKept DEF Leave, TypeOK, FrameOf
      <3>2. CASE q = r
        <4>1. /\ pc[r] # "idle" /\ ask[r].streamed
              /\ stream[r] # "closed" /\ stream'[r] = "left"
              /\ pc'[r] = IF pc[r] = "begun" THEN "gone" ELSE pc[r]
          BY <1>0, <2>3, <3>2 DEF Leave, TypeOK, FrameOf
        <4> QED BY <1>0, <2>1, <4>1, FrameKept
      <3> QED BY <3>1, <3>2
    <2> QED BY <1>8, <2>2, <2>3
  <1>9. CASE Crash
    <2>1. /\ UNCHANGED <<ask, sent, queue, emitted, answer>>
          /\ pc'[r] = IF pc[r] \in {"begun", "queued", "running"} THEN "gone" ELSE pc[r]
          /\ stream'[r] = IF stream[r] \in {"looking", "waiting"} THEN "left" ELSE stream[r]
      BY <1>9 DEF Crash, callVars
    <2> QED BY <1>0, <2>1, FrameKept DEF FrameOf, TaskDone
  <1>10. CASE UNCHANGED <<ask, pc, sent, queue, emitted, stream, answer>>
    BY <1>0, <1>10, FrameKept DEF FrameOf
  <1> QED BY <1>1, <1>2, <1>3, <1>4, <1>5, <1>6, <1>7, <1>8, <1>9, <1>10
          DEF Next, Ask, Serve, vars, CreateSession, DeleteSession, callVars, streamVars

\* Whatever a stream's client is sent is, in order, what the engine reported,
\* none of it left out before the last frame, which is sent once and is the
\* answer: the loop ends only when the task is done and the queue is empty.
THEOREM FramesStayInOrder == Spec => []FramesInOrder
  <1>1. Init => TypeOK /\ FrameInv
    <2> SUFFICES ASSUME Init, NEW r \in Requests PROVE FrameOf(r) BY TypeInit DEF FrameInv
    <2>1. InTransit(<<>>, <<>>, 0) BY DEF InTransit
    <2> QED BY <2>1 DEF Init, FrameOf
  <1>2. TypeOK /\ FrameInv /\ [Next]_vars => (TypeOK /\ FrameInv)'
    <2> SUFFICES ASSUME TypeOK, FrameInv, [Next]_vars PROVE (TypeOK /\ FrameInv)' OBVIOUS
    <2>1. TypeOK' BY TypeInvariance
    <2>2. FrameInv' BY FrameSteps DEF FrameInv
    <2> QED BY <2>1, <2>2
  <1>3. TypeOK /\ FrameInv => FramesInOrder
    <2> SUFFICES ASSUME TypeOK, FrameInv, NEW r \in Requests
                 PROVE  /\ stream[r] = "closed" => /\ Len(sent[r]) = emitted[r] + 1
                                                   /\ answer[r] = Last(sent[r])
                        /\ \A i \in DOMAIN sent[r] :
                             \/ i <= emitted[r] /\ sent[r][i] = Stages[i]
                             \/ i = Len(sent[r]) /\ stream[r] = "closed"
      BY DEF FramesInOrder
    <2>1. FrameOf(r) BY DEF FrameInv
    <2>2. CASE stream[r] = "closed"
      <3>1. Delivered(sent[r], emitted[r]) /\ answer[r] = Last(sent[r]) BY <2>1, <2>2 DEF FrameOf
      <3>2. \A s \in Seq(Frames), n \in Nat : Delivered(s, n) =>
              /\ Len(s) = n + 1
              /\ \A i \in DOMAIN s : (i <= n /\ s[i] = Stages[i]) \/ i = Len(s)
        BY DeliveredIs
      <3> QED BY <2>2, <3>1, <3>2, FrameTypes
    <2>3. CASE stream[r] # "closed"
      <3>1. InTransit(sent[r], queue[r], emitted[r]) BY <2>1, <2>3 DEF FrameOf
      <3>2. \A s \in Seq(Frames), q \in Seq(ToSet(Stages)), n \in Nat : InTransit(s, q, n) =>
              \A i \in DOMAIN s : i <= n /\ s[i] = Stages[i]
        BY InTransitIs
      <3> QED BY <2>3, <3>1, <3>2, FrameTypes
    <2> QED BY <2>2, <2>3
  <1> QED BY <1>1, <1>2, <1>3, PTL DEF Spec
=============================================================================
