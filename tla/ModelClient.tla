---------------------------- MODULE ModelClient ----------------------------
(***************************************************************************)
(* The process-wide language model client (core/models/client.py) and the  *)
(* hot swap of its backend (core/services/model_config.py, reload).        *)
(*                                                                         *)
(* One client object serves every thread.  A chat call captures the model, *)
(* the address and the key of the backend in three separate reads, then    *)
(* makes at most MaxRetries requests; what it does after each depends on   *)
(* the answer.  An administrator's save stores new settings and assigns    *)
(* the fields of the client one after the other, taking no lock that a     *)
(* call takes.  A backend is identified by the number of the save that     *)
(* made it.  Message lengths are in units of 1000 characters.              *)
(***************************************************************************)
EXTENDS Integers, Sequences

CONSTANTS Calls,        \* the calls, each made once by some thread
          Uses,         \* the methods each call may use
          Lengths,      \* lengths the last message of a prompt may have
          MaxPrompt,    \* llm_max_tokens * token_to_char_ratio
          MaxRetries,   \* max_retries
          MaxSaves      \* bound: saves of the model settings

\* generate, generate_with_image_result, generate_json, generate_json_strict
Kinds == {"text", "image", "json", "strict"}

ASSUME ClientAssumption == /\ Uses \in [Calls -> SUBSET Kinds]
                           /\ Lengths \subseteq Nat
                           /\ MaxPrompt \in Nat
                           /\ MaxRetries \in Nat \ {0}
                           /\ MaxSaves \in Nat

VARIABLES stored,       \* the settings in the system database
          client,       \* the fields of the client, each a save's number
          writes,       \* the fields a running reload has still to assign
          call,         \* the local variables of every call
          sent,         \* per call, its requests with their answers
          result,       \* what each call returned to its caller
          last_finish_reason, last_json_error,   \* the shared mirrors
          since         \* history: the backend in force when a call began

vars == <<stored, client, writes, call, sent, result, last_finish_reason,
          last_json_error, since>>

Fields  == {"base_url", "api_key", "model"}
Reasons == {"stop", "length", "none"}
Safety  == 5            \* kept free for the chat template
Short   == 2            \* a message of this length is not cut further

(***************************************************************************)
(* What the endpoint may answer.  "transient" stands for a retryable status*)
(* and for any exception of the request; "rejected" for every other 4xx    *)
(* and for the server errors listed as permanent.                          *)
(***************************************************************************)
Failures == {"transient", "rejected", "context", "grammar"}
\* A reply cut at the token cap ("length") is not readable as JSON.
Replies  == {[reason |-> "stop", readable |-> TRUE],
             [reason |-> "stop", readable |-> FALSE],
             [reason |-> "length", readable |-> FALSE]}
Answer(failure) == [failure |-> failure, reason |-> "none", readable |-> FALSE]
Served(r) == [failure |-> "none", reason |-> r.reason, readable |-> r.readable]
Answers(c) == {Answer(f) : f \in Failures \ (IF call[c].grammar THEN {} ELSE {"grammar"})}
                  \union {Served(r) : r \in Replies}

Idle == [at |-> "idle", kind |-> "text", attempt |-> 0, grammar |-> FALSE,
         length |-> 0, backend |-> [f \in Fields |-> 0]]
NoResult == [text |-> "pending", reason |-> "none", error |-> FALSE]

Init == /\ stored = 0
        /\ client = [f \in Fields |-> 0]
        /\ writes = << >>
        /\ call = [c \in Calls |-> Idle]
        /\ sent = [c \in Calls |-> << >>]
        /\ result = [c \in Calls |-> NoResult]
        /\ last_finish_reason = "none"
        /\ last_json_error = FALSE
        /\ since = [c \in Calls |-> 0]

-----------------------------------------------------------------------------
(* Saving and swapping the backend                                         *)

\* A reload that forgets a field added later.
AssignmentsWithoutKey == <<"base_url", "model">>
\* Order in which reload assigns the fields of the chat backend.
Assignments == <<"base_url", "api_key", "model">>

SaveSettings ==
    /\ stored < MaxSaves
    /\ writes = << >>
    /\ stored' = stored + 1
    /\ writes' = Assignments
    /\ UNCHANGED <<client, call, sent, result, last_finish_reason,
                   last_json_error, since>>

AssignField ==
    /\ writes # << >>
    /\ client' = [client EXCEPT ![Head(writes)] = stored]
    /\ writes' = Tail(writes)
    /\ UNCHANGED <<stored, call, sent, result, last_finish_reason,
                   last_json_error, since>>

-----------------------------------------------------------------------------
(* One chat call                                                           *)

\* The last message of an image call is a list of parts, which is never cut.
IsText(kind) == kind # "image"

\* The prompt length guard cuts the last message so that the whole fits.
Guarded(kind, n) == LET safe == MaxPrompt - Safety IN
                    IF n > MaxPrompt /\ safe > 1 /\ IsText(kind) THEN safe ELSE n

Begin(c) ==
    /\ call[c].at = "idle"
    /\ \E k \in Uses[c], n \in Lengths :
         /\ call' = [call EXCEPT ![c] = [@ EXCEPT
                        !.at = "model", !.kind = k, !.length = Guarded(k, n),
                        !.grammar = (k \in {"json", "strict"})]]
         /\ last_json_error' = IF k = "json" THEN FALSE ELSE last_json_error
    /\ since' = [since EXCEPT ![c] = IF writes = << >> THEN stored ELSE stored - 1]
    /\ UNCHANGED <<stored, client, writes, sent, result, last_finish_reason>>

\* payload["model"], then target_url, then the authorization header.
Capture(c, at, field, next) ==
    /\ call[c].at = at
    /\ call' = [call EXCEPT ![c] = [@ EXCEPT
                   !.at = next, !.backend[field] = client[field]]]
    /\ UNCHANGED <<stored, client, writes, sent, result, last_finish_reason,
                   last_json_error, since>>

CaptureModel(c) == Capture(c, "model", "model", "url")
CaptureUrl(c)   == Capture(c, "url", "base_url", "key")
CaptureKey(c)   == Capture(c, "key", "api_key", "post")

\* Leaving the loop: with the answer served, or with the empty text.
Leave(k) == [k EXCEPT !.at = "answered", !.attempt = @ + 1]

\* The next turn of the loop, which the last attempt does not have.
Again(k) == IF k.attempt + 1 < MaxRetries
            THEN [k EXCEPT !.attempt = @ + 1]
            ELSE Leave(k)

\* Rejections retried like any other error.
ReactRetryingAll(k, a) ==
    CASE a.failure = "none"      -> Leave(k)
      [] a.failure \in {"transient", "rejected"} -> Again(k)
      [] a.failure = "grammar"   -> Again([k EXCEPT !.grammar = FALSE])
      [] a.failure = "context"   ->
            IF k.length > Short /\ IsText(k.kind)
            THEN Again([k EXCEPT !.length = @ \div 2])
            ELSE Leave(k)
\* What a call does about an answer (the body of the attempt loop).
React(k, a) ==
    CASE a.failure = "none"      -> Leave(k)
      [] a.failure = "rejected"  -> Leave(k)
      [] a.failure = "transient" -> Again(k)
      [] a.failure = "grammar"   ->
            Again([k EXCEPT !.grammar = FALSE])
      [] a.failure = "context"   ->
            IF k.length > Short /\ IsText(k.kind)
            THEN Again([k EXCEPT !.length = @ \div 2])
            ELSE Leave(k)

Post(c) ==
    /\ call[c].at = "post"
    /\ \E a \in Answers(c) :
         /\ sent' = [sent EXCEPT ![c] = Append(@,
                        [grammar |-> call[c].grammar, length |-> call[c].length,
                         answer |-> a])]
         /\ call' = [call EXCEPT ![c] = React(@, a)]
         /\ last_finish_reason' = IF a.failure = "none" THEN a.reason
                                  ELSE last_finish_reason
    /\ UNCHANGED <<stored, client, writes, result, last_json_error, since>>

\* The answer of a call's last request, the one its result is made of.
Final(c) == sent[c][Len(sent[c])].answer
\* The finish reason read back from the client after the call.
ChatResultOfMirror(c) ==
    [text |-> IF sent[c][Len(sent[c])].answer.failure = "none" THEN "reply" ELSE "nothing",
     reason |-> last_finish_reason]
\* The ChatResult: the text's presence and the reason, bound to the call.
ChatResult(c) == [text |-> IF Final(c).failure = "none" THEN "reply" ELSE "nothing",
                  reason |-> Final(c).reason]
\* The JSON paths parse the text; an empty or unreadable one is an error.
ParseError(c) == ~ Final(c).readable
\* What the caller gets: a ChatResult, an object, or an object with its error.
Outcome(c) ==
    CASE call[c].kind = "text"   -> [text |-> ChatResult(c).text,
                                     reason |-> "none", error |-> FALSE]
      [] call[c].kind = "image"  -> [text |-> ChatResult(c).text,
                                     reason |-> ChatResult(c).reason, error |-> FALSE]
      [] call[c].kind = "json"   -> [text |-> IF ParseError(c) THEN "empty" ELSE "object",
                                     reason |-> "none", error |-> FALSE]
      [] call[c].kind = "strict" -> [text |-> IF ParseError(c) THEN "empty" ELSE "object",
                                     reason |-> "none", error |-> ParseError(c)]

\* The shared error is set by an unreadable reply and cleared by Begin alone.
Return(c) ==
    /\ call[c].at = "answered"
    /\ call' = [call EXCEPT ![c].at = "done"]
    /\ result' = [result EXCEPT ![c] = Outcome(c)]
    /\ last_json_error' = IF call[c].kind = "json" /\ ParseError(c) THEN TRUE
                          ELSE last_json_error
    /\ UNCHANGED <<stored, client, writes, sent, last_finish_reason, since>>

\* Every call answered and every save applied: the client rests.
Rest == /\ \A c \in Calls : call[c].at = "done"
        /\ writes = << >>
        /\ UNCHANGED vars

Next == \/ SaveSettings \/ AssignField \/ Rest
        \/ \E c \in Calls : \/ Begin(c) \/ CaptureModel(c) \/ CaptureUrl(c)
                            \/ CaptureKey(c) \/ Post(c) \/ Return(c)

Spec == Init /\ [][Next]_vars

-----------------------------------------------------------------------------
(* Properties                                                              *)

Stages == {"idle", "model", "url", "key", "post", "answered", "done"}
AnswerSet == {Answer(f) : f \in Failures} \union {Served(r) : r \in Replies}
CallSet == [at : Stages, kind : Kinds, attempt : 0 .. MaxRetries,
            grammar : BOOLEAN, length : Nat, backend : [Fields -> 0 .. MaxSaves]]
RequestSet == [grammar : BOOLEAN, length : Nat, answer : AnswerSet]

\* The type invariant; an attempt counter never passes max_retries.
TypeOK ==
    /\ stored \in 0 .. MaxSaves
    /\ client \in [Fields -> 0 .. MaxSaves]
    /\ writes \in Seq(Fields)
    /\ call \in [Calls -> CallSet]
    /\ sent \in [Calls -> Seq(RequestSet)]
    /\ result \in [Calls -> [text : {"pending", "reply", "nothing", "object", "empty"},
                             reason : Reasons, error : BOOLEAN]]
    /\ last_finish_reason \in Reasons
    /\ last_json_error \in BOOLEAN
    /\ since \in [Calls -> 0 .. MaxSaves]

Addressed(c) == call[c].at \in {"post", "answered", "done"}

\* A call goes to a backend at least as new as the one in force when it
\* began, in each of its three fields, so that it can mix two backends only
\* if a save ran while it was being addressed ("the next request uses the
\* new backend", client.py reload_model_client).
FreshBackend == \A c \in Calls : Addressed(c) =>
                    \A f \in Fields : call[c].backend[f] \in since[c] .. stored

\* What a caller is told of its call is about that call, whatever other
\* calls did to the shared mirrors meanwhile: the reason it stopped, whether
\* its JSON could be read, and a reply whenever the endpoint gave one.
OutcomeIsOwn ==
    \A c \in Calls : call[c].at = "done" =>
        LET served == {i \in 1 .. Len(sent[c]) : sent[c][i].answer.failure = "none"}
            own(P(_)) == \E i \in served : P(sent[c][i].answer)
        IN  CASE call[c].kind = "text" -> (result[c].text = "reply") <=> (served # {})
              [] call[c].kind = "image" ->
                   /\ (result[c].text = "reply") <=> (served # {})
                   /\ served # {} => own(LAMBDA a : a.reason = result[c].reason)
              [] call[c].kind = "json" ->
                   (result[c].text = "object") <=> own(LAMBDA a : a.readable)
              [] call[c].kind = "strict" ->
                   /\ (result[c].text = "object") <=> own(LAMBDA a : a.readable)
                   /\ result[c].error <=> ~ own(LAMBDA a : a.readable)

Request(r) == <<r.grammar, r.length>>

\* A call sends the same request again only after answers that another try
\* can change; a refused request is never repeated, and nothing is sent
\* after an answer or a deterministic rejection (_RETRYABLE_STATUS).
NoFruitlessRetry ==
    \A c \in Calls : \A i, j \in 1 .. Len(sent[c]) : i < j =>
        /\ sent[c][i].answer.failure \notin {"none", "rejected"}
        /\ Request(sent[c][i]) = Request(sent[c][j]) =>
               \A h \in i .. j - 1 : sent[c][h].answer.failure = "transient"

-----------------------------------------------------------------------------
(* Claims of the code's comments that its behaviours do not keep           *)

\* A request carries the fields of one backend ("makes attr swaps safe",
\* model_config.py).
OneBackend == \A c \in Calls : Addressed(c) =>
                  \A f, g \in Fields : call[c].backend[f] = call[c].backend[g]

\* A call is not lost to a grammar rejection ("retried without the grammar
\* rather than losing the call", client.py).
GrammarIsNotFatal ==
    \A c \in Calls : call[c].at = "done" => Final(c).failure # "grammar"

=============================================================================
