----------------------------- MODULE QueryService -----------------------------
(***************************************************************************)
(* Asking questions: /query, /query/stream and the chat sessions           *)
(* (core/api/routes/query.py), the chat tables of core/db/tenant_db.py and *)
(* the part of QueryEngine.query (core/retrieval/engine.py) its callers    *)
(* see.  One tenant, one user.                                             *)
(*                                                                         *)
(* Handlers run on the event loop and give way only where they await: to   *)
(* enter the global query lock, while the engine works on a thread of its  *)
(* own, and while a stream waits for progress.  The history of a session   *)
(* is read before the lock, the turn is written after it.                  *)
(***************************************************************************)
EXTENDS Naturals, FiniteSets, Sequences, SequencesExt

CONSTANTS
    Requests,       \* questions asked; a question without a session gets one,
                    \* which is named after it
    Earlier,        \* those answered before, each in a session of its own
    Sessions,       \* sessions created by POST /chat/sessions
    Permits,        \* 1 with the Lock, OPENLAD_QUERY_MAX_CONCURRENT otherwise
    HistoryLimit,   \* CHAT_HISTORY_LOAD_LIMIT
    MaxFaults,      \* bound on failing engines and writes
    MaxCrashes,     \* bound on restarts of the server
    MaxDeletes,     \* bound on DELETE requests
    MaxStreams,     \* bound on streamed questions
    None

ASSUME QueryAssumption ==
    /\ Permits \in Nat \ {0}
    /\ HistoryLimit \in Nat /\ HistoryLimit % 2 = 0
    /\ MaxFaults \in Nat /\ MaxCrashes \in Nat /\ MaxDeletes \in Nat /\ MaxStreams \in Nat
    /\ None \notin Sessions \cup Requests
    /\ Requests \cap Sessions = {} /\ Earlier \subseteq Requests
    /\ IsFiniteSet(Requests)

VARIABLES
    ask,        \* what is asked: in which session, and whether as a stream
    pc,         \* where the task of each question is
    history,    \* the messages the question was hydrated with
    line,       \* the tasks waiting for the query lock, first come first served
    permits,    \* how many may still enter
    sessions,   \* chat_sessions rows
    messages,   \* chat_messages rows of each session, in the order of their ids
    emitted,    \* the stages the engine has reported
    queue,      \* those a stream has not yet taken
    stream,     \* where the event generator of each stream is
    sent,       \* the frames the client was sent
    answer,     \* what the client was told in the end
    faults, crashes, deletes,
    torn,       \* history: questions whose turn was written only in part
    removed     \* history: the sessions that were deleted

callVars   == <<ask, history>>
lockVars   == <<line, permits>>
chatVars   == <<sessions, messages>>
streamVars == <<queue, stream, sent>>
countVars  == <<faults, crashes, deletes>>
vars == <<callVars, pc, lockVars, chatVars, emitted, streamVars, answer, countVars, torn, removed>>

SessionIds == Sessions \cup Requests
Stages     == <<"planning", "retrieving", "generating">>
Message    == [role : {"user", "assistant"}, of : Requests]
Question(r) == [role |-> "user", of |-> r]
Reply(r)    == [role |-> "assistant", of |-> r]
Running    == {r \in Requests : pc[r] = "running"}

\* The session a turn is written to.
Target(r) == IF ask[r].session = None THEN r ELSE ask[r].session

Turn(r) == <<Question(r), Reply(r)>>

Init ==
    /\ ask = [r \in Requests |-> [session |-> None, streamed |-> FALSE]]
    /\ pc = [r \in Requests |-> IF r \in Earlier THEN "done" ELSE "idle"]
    /\ history = [r \in Requests |-> <<>>]
    /\ line = <<>> /\ permits = Permits
    /\ sessions = Earlier
    /\ messages = [s \in SessionIds |-> IF s \in Earlier THEN Turn(s) ELSE <<>>]
    /\ emitted = [r \in Requests |-> 0]
    /\ queue = [r \in Requests |-> <<>>]
    /\ stream = [r \in Requests |-> "none"]
    /\ sent = [r \in Requests |-> <<>>]
    /\ answer = [r \in Requests |-> IF r \in Earlier THEN "result" ELSE "none"]
    /\ faults = 0 /\ crashes = 0 /\ deletes = 0
    /\ torn = {} /\ removed = {}

-----------------------------------------------------------------------------
(* Chat sessions.                                                          *)

CreateSession(s) ==
    /\ s \notin sessions \cup removed
    /\ sessions' = sessions \cup {s}
    /\ UNCHANGED <<callVars, pc, lockVars, messages, emitted, streamVars, answer, countVars,
                   torn, removed>>

\* One transaction removes the messages and the session.
DeleteSession(s) ==
    /\ deletes < MaxDeletes
    /\ s \in sessions
    /\ sessions' = sessions \ {s}
    /\ messages' = [messages EXCEPT ![s] = <<>>]
    /\ deletes' = deletes + 1
    /\ removed' = removed \cup {s}
    /\ UNCHANGED <<callVars, pc, lockVars, emitted, streamVars, answer, faults, crashes, torn>>

-----------------------------------------------------------------------------
(* A question, from its arrival to its turn.                               *)

\* stored[-CHAT_HISTORY_LOAD_LIMIT:]
LastMessages(ms) ==
    SubSeq(ms, IF Len(ms) > HistoryLimit THEN Len(ms) - HistoryLimit + 1 ELSE 1, Len(ms))

\* _hydrate_chat_history, unless the client brings a history of its own; the
\* session must still be there.
Hydrated(s) == IF s \in sessions THEN LastMessages(messages[s]) ELSE <<>>

\* A question about a session the client has seen, or without one.  /query goes
\* on to the lock at once, the generator of /query/stream starts later.
Arrive(r) ==
    /\ pc[r] = "idle"
    /\ \E s \in sessions \cup removed \cup {None}, streamed \in BOOLEAN :
         /\ streamed => Cardinality({q \in Requests : ask[q].streamed}) < MaxStreams
         /\ ask' = [ask EXCEPT ![r] = [session |-> s, streamed |-> streamed]]
         /\ history' = [history EXCEPT ![r] = Hydrated(s)]
         /\ \/ /\ streamed
               /\ pc' = [pc EXCEPT ![r] = "begun"]
               /\ UNCHANGED line
            \/ /\ ~streamed
               /\ pc' = [pc EXCEPT ![r] = "queued"]
               /\ line' = Append(line, r)
    /\ UNCHANGED <<permits, chatVars, emitted, streamVars, answer, countVars, torn, removed>>

\* The generator starts: it creates the task.
OpenStream(r) ==
    /\ pc[r] = "begun"
    /\ stream[r] = "none"
    /\ pc' = [pc EXCEPT ![r] = "queued"]
    /\ line' = Append(line, r)
    /\ stream' = [stream EXCEPT ![r] = "looking"]
    /\ UNCHANGED <<callVars, permits, chatVars, emitted, queue, sent, answer, countVars,
                   torn, removed>>

\* Into the lock, and on to a thread.
Enter(r) ==
    /\ line # <<>> /\ r = Head(line)
    /\ permits > 0
    /\ permits' = permits - 1
    /\ line' = Tail(line)
    /\ pc' = [pc EXCEPT ![r] = "running"]
    /\ UNCHANGED <<callVars, chatVars, emitted, streamVars, answer, countVars, torn, removed>>

\* The engine reports its next stage to a stream, whose loop gets it in order
\* and before the task ends.
Emit(r) ==
    /\ pc[r] = "running"
    /\ ask[r].streamed
    /\ emitted[r] < Len(Stages)
    /\ emitted' = [emitted EXCEPT ![r] = @ + 1]
    /\ queue' = [queue EXCEPT ![r] = Append(@, Stages[emitted[r] + 1])]
    /\ UNCHANGED <<callVars, pc, lockVars, chatVars, stream, sent, answer, countVars, torn, removed>>

\* What /query tells its client; a stream is told by its generator.
Tell(r, outcome) ==
    answer' = IF ask[r].streamed THEN answer ELSE [answer EXCEPT ![r] = outcome]

\* The engine raises: the lock is released, nothing is stored.
EngineRaises(r) ==
    /\ pc[r] = "running"
    /\ faults < MaxFaults
    /\ faults' = faults + 1
    /\ permits' = permits + 1
    /\ pc' = [pc EXCEPT ![r] = "failed"]
    /\ Tell(r, "error")
    /\ UNCHANGED <<callVars, line, chatVars, emitted, streamVars, crashes, deletes, torn, removed>>

Steps == {"nothing", "session", "question", "answer"}

\* Mutant: the answer is written first.
PersistReversed(r, upto) ==
    /\ sessions' = IF ask[r].session = None /\ upto # "nothing"
                   THEN sessions \cup {r} ELSE sessions
    /\ messages' = [messages EXCEPT ![Target(r)] = @ \o
         CASE upto = "question" -> <<Question(r)>>
           [] upto = "answer"   -> Reverse(Turn(r))
           [] OTHER             -> <<>>]

\* _persist_query_result: up to three transactions, without a check that the
\* session asked in is still there.
Persist(r, upto) ==
    /\ sessions' = IF ask[r].session = None /\ upto # "nothing"
                   THEN sessions \cup {r} ELSE sessions
    /\ messages' = [messages EXCEPT ![Target(r)] = @ \o
         CASE upto = "question" -> <<Question(r)>>
           [] upto = "answer"   -> Turn(r)
           [] OTHER             -> <<>>]

\* Mutant: a turn that could not be stored is answered all the same.
FinishRegardless(r) ==
    /\ pc[r] = "running"
    /\ ask[r].streamed => emitted[r] >= 2
    /\ permits' = permits + 1
    /\ \E upto \in Steps :
         /\ upto # "answer" => faults < MaxFaults
         /\ faults' = IF upto = "answer" THEN faults ELSE faults + 1
         /\ Persist(r, upto)
         /\ torn' = IF upto = "question" THEN torn \cup {r} ELSE torn
         /\ pc' = [pc EXCEPT ![r] = "done"]
         /\ Tell(r, "result")
    /\ UNCHANGED <<callVars, line, emitted, streamVars, crashes, deletes, removed>>

\* The engine returns, having reported at least two stages.  Releasing the lock
\* and writing the turn is one step of the loop; a write that fails is an error
\* to the client.
Finish(r) ==
    /\ pc[r] = "running"
    /\ ask[r].streamed => emitted[r] >= 2
    /\ permits' = permits + 1
    /\ \E upto \in Steps :
         /\ Persist(r, upto)
         /\ \/ /\ upto = "answer"
               /\ pc' = [pc EXCEPT ![r] = "done"]
               /\ Tell(r, "result")
               /\ UNCHANGED <<faults, torn>>
            \/ /\ upto # "answer"
               /\ faults < MaxFaults
               /\ faults' = faults + 1
               /\ torn' = IF upto = "question" THEN torn \cup {r} ELSE torn
               /\ pc' = [pc EXCEPT ![r] = "failed"]
               /\ Tell(r, "error")
    /\ UNCHANGED <<callVars, line, emitted, streamVars, crashes, deletes, removed>>

-----------------------------------------------------------------------------
(* The event generator.                                                    *)

TaskDone(r) == pc[r] \in {"done", "failed"}

\* Mutant: the loop ends with the task, whatever is still in the queue.
DrainedOrNot(r) == TaskDone(r)

Drained(r) == TaskDone(r) /\ queue[r] = <<>>

\* The top of the loop: the last frame, or back to waiting for progress.
Look(r) ==
    /\ stream[r] = "looking"
    /\ \/ /\ Drained(r)
          /\ stream' = [stream EXCEPT ![r] = "closed"]
          /\ LET last == IF pc[r] = "done" THEN "result" ELSE "error"
             IN  /\ sent' = [sent EXCEPT ![r] = Append(@, last)]
                 /\ answer' = [answer EXCEPT ![r] = last]
       \/ /\ ~Drained(r)
          /\ stream' = [stream EXCEPT ![r] = "waiting"]
          /\ UNCHANGED <<sent, answer>>
    /\ UNCHANGED <<callVars, pc, lockVars, chatVars, emitted, queue, countVars, torn, removed>>

\* Progress arrives within the 15 seconds.
TakeEvent(r) ==
    /\ stream[r] = "waiting"
    /\ queue[r] # <<>>
    /\ sent' = [sent EXCEPT ![r] = Append(@, Head(queue[r]))]
    /\ queue' = [queue EXCEPT ![r] = Tail(@)]
    /\ stream' = [stream EXCEPT ![r] = "looking"]
    /\ UNCHANGED <<callVars, pc, lockVars, chatVars, emitted, answer, countVars, torn, removed>>

\* Mutant: the wait for progress has no timeout.
TimesOutNever(r) == FALSE

TimesOut(r) == stream[r] = "waiting" /\ queue[r] = <<>>

\* It does not: a keep-alive comment, which also is what wakes the loop up when
\* the task ends while it waits.
KeepAlive(r) ==
    /\ TimesOut(r)
    /\ stream' = [stream EXCEPT ![r] = "looking"]
    /\ UNCHANGED <<callVars, pc, lockVars, chatVars, emitted, queue, sent, answer, countVars,
                   torn, removed>>

\* The client of a stream goes away: the generator is closed, its task goes on.
\* A generator that has not started never creates one.
Leave(r) ==
    /\ ask[r].streamed
    /\ stream[r] \in {"none", "looking", "waiting"}
    /\ stream' = [stream EXCEPT ![r] = "left"]
    /\ pc' = IF pc[r] = "begun" THEN [pc EXCEPT ![r] = "gone"] ELSE pc
    /\ UNCHANGED <<callVars, lockVars, chatVars, emitted, queue, sent, answer, countVars,
                   torn, removed>>

\* The server is restarted: the questions in progress are lost.
Crash ==
    /\ crashes < MaxCrashes
    /\ crashes' = crashes + 1
    /\ pc' = [r \in Requests |-> IF pc[r] \in {"begun", "queued", "running"} THEN "gone" ELSE pc[r]]
    /\ stream' = [r \in Requests |-> IF stream[r] \in {"looking", "waiting"} THEN "left" ELSE stream[r]]
    /\ line' = <<>> /\ permits' = Permits
    /\ UNCHANGED <<callVars, chatVars, emitted, queue, sent, answer, faults, deletes, torn, removed>>

Ask(r)   == Arrive(r) \/ OpenStream(r) \/ Enter(r) \/ Emit(r) \/ EngineRaises(r) \/ Finish(r)
Serve(r) == Look(r) \/ TakeEvent(r) \/ KeepAlive(r)

Next ==
    \/ \E s \in Sessions : CreateSession(s)
    \/ \E s \in SessionIds : DeleteSession(s)
    \/ \E r \in Requests : Ask(r) \/ Serve(r) \/ Leave(r)
    \/ Crash

Spec == Init /\ [][Next]_vars

\* The event loop runs what is ready, threads run, and every model call the
\* engine makes has a timeout.
FairSpec ==
    /\ Spec
    /\ \A r \in Requests :
         /\ WF_vars(OpenStream(r)) /\ WF_vars(Enter(r)) /\ WF_vars(Emit(r))
         /\ WF_vars(Finish(r)) /\ WF_vars(Serve(r))

-----------------------------------------------------------------------------
(* Properties.                                                             *)

TypeOK ==
    /\ ask \in [Requests -> [session : SessionIds \cup {None}, streamed : BOOLEAN]]
    /\ pc \in [Requests -> {"idle", "begun", "queued", "running", "done", "failed", "gone"}]
    /\ permits \in 0..Permits
    /\ permits + Cardinality(Running) = Permits
    /\ line \in Seq(Requests) /\ IsInjective(line)
    /\ ToSet(line) = {r \in Requests : pc[r] = "queued"}
    /\ history \in [Requests -> Seq(Message)]
    /\ sessions \subseteq SessionIds /\ removed \subseteq SessionIds
    /\ messages \in [SessionIds -> Seq(Message)]
    /\ torn \subseteq Requests
    /\ emitted \in [Requests -> 0..Len(Stages)]
    /\ stream \in [Requests -> {"none", "looking", "waiting", "closed", "left"}]
    /\ queue \in [Requests -> Seq(ToSet(Stages))]
    /\ sent \in [Requests -> Seq(ToSet(Stages) \cup {"result", "error"})]
    /\ answer \in [Requests -> {"none", "result", "error"}]
    /\ faults \in 0..MaxFaults /\ crashes \in 0..MaxCrashes /\ deletes \in 0..MaxDeletes

\* However many questions run at once, in a session's messages every answer
\* stands right behind its own question, so the conversation can be replayed.
TurnsWhole ==
    \A s \in SessionIds : LET ms == messages[s] IN
        \A i \in DOMAIN ms :
            /\ Target(ms[i].of) = s
            /\ ms[i].role = "assistant" => i > 1 /\ ms[i - 1] = Question(ms[i].of)

\* The history a question is asked with is made of whole turns of its session,
\* unless a turn was torn by a failed write.
HistoryPaired ==
    \A r \in Requests : LET h == history[r] IN
        \/ torn # {}
        \/ /\ Len(h) % 2 = 0
           /\ \A i \in DOMAIN h :
                /\ Target(h[i].of) = ask[r].session
                /\ h[i] = IF i % 2 = 1 THEN Question(h[i].of) ELSE Reply(h[i - 1].of)

\* However questions and writes interleave, a session's conversation is one of
\* whole turns, and so is what a question is told of it.
ConversationWhole == TurnsWhole /\ HistoryPaired

\* A client that was given an answer finds the turn in its session, unless it
\* deleted the session.
AnswerIsStored ==
    \A r \in Requests :
        (answer[r] = "result" /\ Target(r) \notin removed)
            => {Question(r), Reply(r)} \subseteq ToSet(messages[Target(r)])

\* A stream that ends has sent every stage the engine reported, in order, and
\* then one last frame.
FramesInOrder ==
    \A r \in Requests :
        /\ stream[r] = "closed" =>
             /\ Len(sent[r]) = emitted[r] + 1
             /\ answer[r] = Last(sent[r])
        /\ \A i \in DOMAIN sent[r] :
             \/ i <= emitted[r] /\ sent[r][i] = Stages[i]
             \/ i = Len(sent[r]) /\ stream[r] = "closed"

\* A question that waits for the lock is answered or refused, unless the server
\* restarts or the client goes away.
EveryQuestionEnds ==
    \A r \in Requests :
        pc[r] = "queued" ~> \/ answer[r] # "none" \/ pc[r] = "gone" \/ stream[r] = "left"

\* What the schema says ("REFERENCES chat_sessions(id) ON DELETE CASCADE"): no
\* message without its session.  Foreign keys are not switched on, and a turn
\* is written to a session deleted in the meantime.
MessagesHaveSession == \A s \in SessionIds : messages[s] # <<>> => s \in sessions

\* A question is asked with everything its session holds when the engine starts.
\* The history is read before the wait for the lock.
HistoryIsCurrent ==
    [][\A r \in Requests : (Enter(r) /\ ask[r].session # None)
            => history[r] = Hydrated(ask[r].session)]_vars

\* The stream's client is not left waiting once the task is done.
DeliveredAtOnce == \A r \in Requests :
    ~(stream[r] = "waiting" /\ TaskDone(r) /\ queue[r] = <<>>)
=============================================================================
