----------------------------- MODULE AnswerEngine -----------------------------
(***************************************************************************)
(* One question on its way through QueryEngine.query                       *)
(* (core/retrieval/engine.py): classification, the planner (planner.py),   *)
(* the agentic retriever (agentic_retriever.py), decomposition, the steps  *)
(* of the executor (executor.py), spec facts and the synthesizer.          *)
(*                                                                         *)
(* A question and a document are known by the model numbers ("entities")   *)
(* and report years ("epochs") in them; every pattern of the code that     *)
(* looks for model numbers is taken to recognise the same ones.  What a    *)
(* language model answers is any value the code reads, unreadable, or a    *)
(* failed call; what a search finds is any part of what it searches (the   *)
(* searches themselves are RetrievalStep).                                 *)
(***************************************************************************)
EXTENDS Naturals, FiniteSets, FiniteSetsExt

CONSTANTS
    Docs,           \* the tenant's documents, numbers in the order they are listed
    Entities,       \* model numbers
    Titled,         \* the entities in a document's title
    Named,          \* the entities in its title or file name
    Untitled,       \* the documents whose title is empty
    Epoch,          \* the report year of a document, or None
    Indexed,        \* the entities that have spec facts
    Questions,      \* [entities, epochs, history]: history is the set of the
                    \* entities in the conversation so far, or None without one
    Ingesting,      \* the sets of documents whose ingestion may be under way
    MaxSteps,       \* bound on the steps of a plan
    MaxTargets,     \* bound on the agent's targets, unless more are mandatory
    SelfCheck,      \* whether answers are reviewed (self_check_enabled and a pack)
    MaxFaults,      \* bound on failing database calls
    None

ASSUME EngineAssumption ==
    /\ Docs \subseteq Nat /\ IsFiniteSet(Docs) /\ IsFiniteSet(Entities)
    /\ None \notin Entities /\ Indexed \subseteq Entities
    /\ Titled \in [Docs -> SUBSET Entities] /\ Named \in [Docs -> SUBSET Entities]
    /\ \A d \in Docs : Titled[d] \subseteq Named[d]
    /\ Untitled \subseteq Docs /\ \A d \in Untitled : Titled[d] = {}
    /\ MaxSteps \in Nat \ {0} /\ MaxTargets \in Nat /\ MaxFaults \in Nat
    /\ SelfCheck \in BOOLEAN
    /\ Ingesting \subseteq SUBSET Docs
    /\ \A q \in Questions : q.entities \subseteq Entities

VARIABLES
    question,
    unfinished,     \* documents at pending_meta: pages perhaps, no title yet
    pc,
    stage,          \* how many stages were reported to progress_cb
    deep,           \* whether the question takes the deep research path
    plan,
    index,          \* whether the agent holds the tenant's vector index
    targets,        \* the agent's targets still to ask: [doc, title, group]
    replies,        \* [doc, title, pages]: those answered, and whether with pages
    subs,           \* the entities whose sub-query is still to come
    found,          \* the documents whose pages are in the context
    headed,         \* whether the context has text even without a page
    cut,            \* whether the context carries a truncation marker
    facts,          \* the entities whose spec facts are in the context
    answer,         \* [by, framing, text, check, confidence, appendix]
    faults

vars == <<question, unfinished, pc, stage, deep, plan, index, targets, replies, subs,
          found, headed, cut, facts, answer, faults>>

agentVars   == <<index, targets, replies>>
contextVars == <<found, headed, cut>>

NoPlan   == [filters |-> {}, decomposed |-> FALSE, rewritten |-> {}]
NoAnswer == [by |-> "none", framing |-> {}, text |-> "void", check |-> "off",
             confidence |-> "none", appendix |-> FALSE]

\* _list_retrievable_documents
Retrievable == Docs \ unfinished

Naming(e) == {d \in Retrievable : e \in Named[d]}

Init ==
    /\ question \in Questions
    /\ unfinished \in Ingesting
    /\ pc = "start" /\ stage = 0 /\ deep = FALSE
    /\ plan = NoPlan
    /\ index = FALSE /\ targets = {} /\ replies = {} /\ subs = {}
    /\ found = {} /\ headed = FALSE /\ cut = FALSE
    /\ facts = {} /\ answer = NoAnswer /\ faults = 0

-----------------------------------------------------------------------------
(* Classification: the model's verdict, or two entities make it deep when   *)
(* there is none.  A conversation always takes the traditional path.        *)

Start ==
    /\ pc = "start"
    /\ pc' = "classify" /\ stage' = 1
    /\ UNCHANGED <<question, unfinished, deep, plan, subs, facts, answer, faults>>
    /\ UNCHANGED <<agentVars, contextVars>>

\* Mutant: the deep path does not report that it retrieves.
DeepInSilence ==
    /\ pc = "classify"
    /\ question.history = None
    /\ pc' = "agent" /\ deep' = TRUE
    /\ UNCHANGED <<question, unfinished, stage, plan, subs, facts, answer, faults>>
    /\ UNCHANGED <<agentVars, contextVars>>

Deep ==
    /\ pc = "classify"
    /\ question.history = None
    /\ pc' = "agent" /\ stage' = 2 /\ deep' = TRUE
    /\ UNCHANGED <<question, unfinished, plan, subs, facts, answer, faults>>
    /\ UNCHANGED <<agentVars, contextVars>>

Traditional ==
    /\ pc = "classify"
    /\ pc' = "plan"
    /\ UNCHANGED <<question, unfinished, stage, deep, plan, subs, facts, answer, faults>>
    /\ UNCHANGED <<agentVars, contextVars>>

-----------------------------------------------------------------------------
(* Planning.                                                               *)

\* The entities in the question and in the conversation before it.
Mentioned ==
    question.entities \cup (IF question.history = None THEN {} ELSE question.history)

\* Mutant: the conversation is not searched for entities.
CoverQuestion(candidates) ==
    {candidates \cup {Min(Naming(e)) : e \in {x \in question.entities :
                        Naming(x) # {} /\ Naming(x) \cap candidates = {}}}}

\* _ensure_entity_coverage: each entity none of whose documents is a candidate
\* gets the first of them, unless one added for another entity names it too.
EnsureEntityCoverage(candidates) ==
    LET missing == {e \in Mentioned : Naming(e) # {} /\ Naming(e) \cap candidates = {}}
        added   == {Min(Naming(e)) : e \in missing}
    IN  {candidates \cup a : a \in {s \in SUBSET added :
            \A e \in missing : Naming(e) \cap s # {}}}

\* scope_candidates_by_report_epoch: documents of another year than those the
\* question names are dropped, unless none would be left.
ScopedByEpoch(candidates) ==
    LET kept == {d \in candidates : Epoch[d] = None \/ Epoch[d] \in question.epochs}
    IN  IF question.epochs = {} \/ kept = {} THEN candidates ELSE kept

\* _coarse_filter: documents picked by the model, or none if the call fails.
Candidates ==
    {{}} \cup {ScopedByEpoch(c) :
                 c \in UNION {EnsureEntityCoverage(p) : p \in SUBSET Retrievable}}

\* The documents whose title, or without one file name, has the entity.
Catalogued(e) ==
    {d \in Retrievable : e \in IF d \in Untitled THEN Named[d] ELSE Titled[d]}

\* _fallback_plan: one step that asks the question itself, over a document of each
\* entity the caller passes (the first that no other entity has), or over all.
FallbackPlans(entities) ==
    LET filters == {f \in SUBSET UNION {Catalogued(e) : e \in entities} :
                        \A e \in entities : Catalogued(e) # {} => Catalogued(e) \cap f # {}}
    IN  [filters : {{[docs |-> f, cut |-> FALSE]} : f \in filters},
         decomposed : {FALSE}, rewritten : {question.entities}]

\* A step's filter is a list of strings the model wrote, each of which may match
\* any documents, with the candidates appended; if that made it longer, it is cut
\* at DOC_FILTER_CAP strings, whatever they match.
StepFilters(candidates) ==
    {f \in [docs : SUBSET Docs, cut : BOOLEAN] : f.cut \/ candidates \subseteq f.docs}

\* _fine_plan, _validate_plan and the merge in plan(): strategy, steps and
\* rewritten question are the model's; a plan that found nothing to search
\* may have no step.
FinePlans(candidates) ==
    [filters    : {s \in SUBSET StepFilters(candidates) : Cardinality(s) \in 0..MaxSteps},
     decomposed : BOOLEAN,
     rewritten  : SUBSET Entities]

\* plan(): without candidates, or when the call fails, the fallback.
Plans == FallbackPlans({}) \cup UNION {FinePlans(c) : c \in Candidates \ {{}}}

\* planner.plan on the traditional path.
Plan ==
    /\ pc = "plan"
    /\ plan' \in Plans
    /\ pc' = "retrieve" /\ stage' = 2
    /\ UNCHANGED <<question, unfinished, deep, subs, facts, answer, faults>>
    /\ UNCHANGED <<agentVars, contextVars>>

-----------------------------------------------------------------------------
(* Retrieval by the executor.                                              *)

\* _resolve_doc_filter: a filter that resolves to nothing is no filter at all.
Searched(p) ==
    LET resolved == {f.docs : f \in p.filters}
    IN  IF {} \in resolved THEN Docs ELSE UNION resolved

\* The steps of a plan.  A decomposed one writes headings whatever it finds.
Execute(p) ==
    /\ \E docs \in SUBSET Searched(p) : found' = found \cup docs
    /\ headed' = (headed \/ p.decomposed \/ found' # {})
    /\ cut' \in {cut, found' # {}}

\* Of the plan, later steps read how it rewrote the question.
Retrieve ==
    /\ pc = "retrieve"
    /\ Execute(plan)
    /\ plan' = [NoPlan EXCEPT !.rewritten = plan.rewritten]
    /\ pc' = "facts"
    /\ UNCHANGED <<question, unfinished, stage, deep, subs, facts, answer, faults>>
    /\ UNCHANGED agentVars

\* decompose, and a sub-query for each entity.  With fewer than two there is
\* the fallback plan instead.
Decompose ==
    /\ pc = "decompose"
    /\ IF Cardinality(question.entities) >= 2
         THEN pc' = "sub" /\ subs' = question.entities /\ UNCHANGED plan
         ELSE pc' = "retrieve" /\ plan' \in FallbackPlans(question.entities) /\ UNCHANGED subs
    /\ UNCHANGED <<question, unfinished, stage, deep, facts, answer, faults>>
    /\ UNCHANGED <<agentVars, contextVars>>

\* A sub-query is planned and executed on its own, under its own heading.
SubQuery(e) ==
    /\ pc = "sub"
    /\ e \in subs
    /\ \E docs \in SUBSET Docs : found' = found \cup docs
    /\ headed' = TRUE
    /\ cut' \in {cut, found' # {}}
    /\ subs' = subs \ {e}
    /\ pc' = IF subs' = {} THEN "facts" ELSE "sub"
    /\ UNCHANGED <<question, unfinished, stage, deep, plan, facts, answer, faults>>
    /\ UNCHANGED agentVars

\* A database call fails outside every handler of the planner and executor.
DatabaseFails ==
    /\ pc \in {"plan", "retrieve", "sub"}
    /\ faults < MaxFaults
    /\ faults' = faults + 1
    /\ pc' = "raised"
    /\ UNCHANGED <<question, unfinished, stage, deep, plan, subs, facts, answer>>
    /\ UNCHANGED <<agentVars, contextVars>>

-----------------------------------------------------------------------------
(* The agentic retriever.                                                  *)

\* A target is a document under the title that the model gives it, filed under
\* the first model number of that title, if it has one.
Target == {t \in [doc : Docs, title : SUBSET Entities, group : Entities \cup {None}] :
               IF t.title = {} THEN t.group = None ELSE t.group \in t.title}

\* The documents whose own titles name an entity of the question.
Mandatory == {d \in Docs : Titled[d] \cap question.entities # {}}

\* __init__: the whole vector index and the catalog, unfinished documents too.
OpenAgent ==
    /\ pc = "agent"
    /\ index' = TRUE
    /\ pc' = "target"
    /\ UNCHANGED <<question, unfinished, stage, deep, plan, targets, replies, subs, facts, answer, faults>>
    /\ UNCHANGED contextVars

\* The model names documents and titles them; of the mandatory ones, those it did
\* not name are added under their own titles.  A catalog entry without a title
\* ends the attempt (AgentFails).  Bound: no document is named twice.
ChooseTargets ==
    /\ pc = "target"
    /\ unfinished = {}
    /\ \E named \in SUBSET Docs :
         LET asked == named \cup Mandatory IN
         /\ Cardinality(asked) <= MaxTargets \/ named \subseteq Mandatory
         /\ \E chosen \in [asked -> Target] :
               /\ \A d \in asked : /\ chosen[d].doc = d
                                  /\ d \notin named => chosen[d].title = Titled[d]
               /\ targets' = {chosen[d] : d \in asked}
    /\ pc' = "ask"
    /\ UNCHANGED <<question, unfinished, stage, deep, plan, index, replies, subs, facts, answer, faults>>
    /\ UNCHANGED contextVars

\* _hybrid_search: strong full-text hits stand alone, weaker ones are joined by
\* chunks of the vector index, which carry their text but no page number.
Evidence == {{"page"}} \cup SUBSET {"page", "chunk"}

\* _query_single_document.  Without evidence there is no answer; the first answer
\* settles the group; one drawn from chunks alone cites no page.  The source
\* carries the title the model gave.
Ask(t) ==
    /\ pc = "ask"
    /\ t \in targets
    /\ \/ /\ \E e \in Evidence \ {{}} :
               replies' = replies \cup {[doc |-> t.doc, title |-> t.title, pages |-> "page" \in e]}
          /\ targets' = {u \in targets : u.group # t.group}
       \/ /\ targets' = targets \ {t}
          /\ UNCHANGED replies
    /\ UNCHANGED <<question, unfinished, pc, stage, deep, plan, index, subs, facts, answer, faults>>
    /\ UNCHANGED contextVars

\* What _execute_deep_research accepts: results with pages and, for two or more
\* entities, sources whose titles, as the model gave them, name each of them.
Accepted ==
    /\ \E r \in replies : r.pages
    /\ Cardinality(question.entities) >= 2
         => \A e \in question.entities : \E r \in replies : e \in r.title

\* The answers are merged or dropped, and the index is released.
MergeReplies ==
    /\ pc = "ask"
    /\ targets = {}
    /\ index' = FALSE /\ replies' = {}
    /\ IF Accepted
         THEN /\ answer' = [NoAnswer EXCEPT !.by = "agent", !.framing = question.entities]
              /\ found' = {r.doc : r \in replies}
              /\ headed' = TRUE
              /\ pc' = "guard"
         ELSE /\ pc' = "decompose"
              /\ UNCHANGED <<answer, found, headed>>
    /\ UNCHANGED <<question, unfinished, stage, deep, plan, targets, subs, cut, facts, faults>>

\* Mutant: a failed attempt is repeated.
AgentFailsAgain ==
    /\ pc \in {"agent", "target", "ask"}
    /\ index' = FALSE /\ targets' = {} /\ replies' = {}
    /\ pc' = "agent"
    /\ UNCHANGED <<question, unfinished, stage, deep, plan, subs, facts, answer, faults>>
    /\ UNCHANGED contextVars

\* _execute_agentic: any exception ends the attempt, not the query, and the
\* index is released all the same.
AgentFails ==
    /\ pc \in {"agent", "target", "ask"}
    /\ index' = FALSE /\ targets' = {} /\ replies' = {}
    /\ pc' = "decompose"
    /\ UNCHANGED <<question, unfinished, stage, deep, plan, subs, facts, answer, faults>>
    /\ UNCHANGED contextVars

-----------------------------------------------------------------------------
(* Spec facts, synthesis and the final guard.                              *)

\* The model numbers in the question and in what it was rewritten to; on the
\* deep path that is sub-queries with the whole question in each.
Tokens == question.entities \cup (IF deep THEN {} ELSE plan.rewritten)

\* lookup_spec_facts: facts that share enough words with the question, of the
\* named entities only if the index knows one of those.
FactsFor(tokens) ==
    SUBSET (IF tokens \cap Indexed = {} THEN Indexed ELSE tokens \cap Indexed)

\* Without a page and without a fact the deep path refuses at once.
LookUpFacts ==
    /\ pc = "facts"
    /\ facts' \in FactsFor(Tokens)
    /\ headed' = (headed \/ facts' # {})
    /\ pc' = IF deep /\ found = {} /\ facts' = {} THEN "guard" ELSE "synthesize"
    /\ UNCHANGED <<question, unfinished, stage, deep, plan, subs, found, cut, answer, faults>>
    /\ UNCHANGED agentVars

\* The question as the synthesizer gets it: as rewritten, unless that drops an
\* entity of the original (the rewrite-collapse guard).
Framing ==
    IF deep \/ ~ (question.entities \subseteq plan.rewritten)
      THEN question.entities
      ELSE plan.rewritten

\* A text is detailed, brief, says what the markers take for "not found", or only
\* "not mentioned"; it may be cleaned away by _post_process_answer, which deletes
\* from any word it takes for a thought to the end of the line.
Texts == {"detailed", "brief", "missing", "hedged", "void"}

\* What the model writes.  A garbled or empty reply is noticed, except where a
\* table was asked for: then it is one more void text (_generate_table_answer).
Replies(table) == IF table THEN Texts ELSE Texts \cup {"garbled"}

\* _self_check: what it makes of an answer.  One that says "not mentioned" is
\* not reviewed and counts as passed; an unreadable verdict changes nothing.
Checks(text) ==
    IF ~ SelfCheck THEN {[check |-> "off", text |-> text]}
    ELSE IF text = "hedged" THEN {[check |-> "skipped", text |-> text]}
    ELSE [check : {"stands", "unreadable"}, text : {text}] \cup [check : {"corrected"}, text : Texts]

\* _assess_confidence: high takes a passed check or a detailed answer, and a
\* context that was not cut short.
Confidences(checked) ==
    IF checked.text = "void" THEN {"none", "low"}
    ELSE IF checked.text = "missing" THEN {"low", "medium"}
    ELSE IF ~ cut /\ checked.check \in {"stands", "skipped"} THEN {"high"}
    ELSE IF checked.text = "detailed" THEN {IF cut THEN "medium" ELSE "high"}
    ELSE {"low", "medium"}

\* _build_fallback_answer: a list of what was found instead of an answer.
Excerpts(confidence) ==
    [by |-> "excerpts", framing |-> Framing, text |-> "void", check |-> "off",
     confidence |-> confidence, appendix |-> FALSE]

Written(checked, confidence) ==
    [by |-> "model", framing |-> Framing, text |-> checked.text, check |-> checked.check,
     confidence |-> confidence, appendix |-> FALSE]

\* synthesize: no text, no model call.  Excerpts replace a reply that is garbled
\* (low) or does not come (none).
Synthesize ==
    /\ pc = "synthesize"
    /\ stage' = IF deep THEN stage ELSE 3
    /\ \/ ~ headed /\ UNCHANGED answer
       \/ /\ headed
          /\ \E reply \in UNION {Replies(table) : table \in BOOLEAN} :
               IF reply = "garbled"
                 THEN answer' = Excerpts("low")
                 ELSE \E checked \in Checks(reply) : \E c \in Confidences(checked) :
                        answer' = Written(checked, c)
       \/ headed /\ answer' = Excerpts("none")
    /\ pc' = "guard"
    /\ UNCHANGED <<question, unfinished, deep, plan, subs, facts, faults>>
    /\ UNCHANGED <<agentVars, contextVars>>

\* Mutant: any text in the context counts as a result.
RefusesOnlyEmpty == ~ headed

\* Mutant: spec facts do not count as results.
RefusesWithoutPage == found = {}

\* Nothing was retrieved: total_results is 0.
NothingFound == found = {} /\ facts = {}

\* The final guard also refuses a context of less than fifty characters; with
\* facts or the answers of the agent it is longer.
Finish ==
    /\ pc = "guard"
    /\ \/ /\ NothingFound \/ (facts = {} /\ answer.by # "agent")
          /\ answer' = [NoAnswer EXCEPT !.by = "refusal"]
       \/ /\ ~ NothingFound
          /\ answer' = IF answer.by = "none" THEN [NoAnswer EXCEPT !.by = "refusal"]
                       ELSE [answer EXCEPT !.appendix = (facts # {})]
    /\ pc' = "done"
    /\ UNCHANGED <<question, unfinished, stage, deep, plan, subs, facts, faults>>
    /\ UNCHANGED <<agentVars, contextVars>>

-----------------------------------------------------------------------------
Next ==
    \/ Start \/ Traditional \/ Plan \/ Retrieve
    \/ Deep \/ OpenAgent \/ ChooseTargets \/ (\E t \in targets : Ask(t))
    \/ MergeReplies \/ AgentFails
    \/ Decompose \/ (\E e \in Entities : SubQuery(e))
    \/ LookUpFacts \/ Synthesize \/ Finish
    \/ DatabaseFails

Spec == Init /\ [][Next]_vars /\ WF_vars(Next)

-----------------------------------------------------------------------------
(* Properties.                                                             *)

TypeOK ==
    /\ question \in Questions /\ unfinished \in Ingesting
    /\ pc \in {"start", "classify", "plan", "retrieve", "agent", "target", "ask", "decompose",
               "sub", "facts", "synthesize", "guard", "done", "raised"}
    /\ stage \in 0..3 /\ faults \in 0..MaxFaults
    /\ deep \in BOOLEAN /\ index \in BOOLEAN /\ headed \in BOOLEAN /\ cut \in BOOLEAN
    /\ plan \in [filters : SUBSET [docs : SUBSET Docs, cut : BOOLEAN], decomposed : BOOLEAN, rewritten : SUBSET Entities]
    /\ targets \subseteq Target
    /\ replies \subseteq [doc : Docs, title : SUBSET Entities, pages : BOOLEAN]
    /\ subs \subseteq Entities /\ found \subseteq Docs /\ facts \subseteq Indexed
    /\ answer \in [by : {"none", "agent", "model", "excerpts", "refusal"},
                   framing : SUBSET Entities, text : Texts, appendix : BOOLEAN,
                   check : {"off", "stands", "skipped", "unreadable", "corrected"},
                   confidence : {"none", "low", "medium", "high"}]

\* "Refuse to let LLM fabricate": whatever path was taken, an answer of the
\* model rests on a retrieved page or a spec fact, although a decomposed
\* retrieval that found nothing hands the synthesizer a page of headings.
Grounded ==
    pc = "done" /\ answer.by \in {"agent", "model", "excerpts"} => found # {} \/ facts # {}

\* An entity named in the question or in the conversation before it is looked
\* for: where a document names it, so does one of every filtered step, even if
\* the model picked none (unless a report year or the cap narrows the filter, or
\* it resolves to nothing and everything is searched).
EntityCovered ==
    pc = "retrieve" /\ question.epochs = {} =>
        \A e \in Mentioned, f \in plan.filters :
            Naming(e) # {} /\ f.docs # {} /\ ~ f.cut => Naming(e) \cap f.docs # {}

\* Violated: "before accepting agentic result, verify it covers all entities in
\* the query" (engine.py).  The titles compared are what the model wrote of its
\* targets: one document under a title with both entities is taken for two.
AgentCovers ==
    answer.by = "agent" /\ Cardinality(question.entities) >= 2
        => question.entities \subseteq UNION {Named[d] : d \in found}

\* Of the self-check, "True (reviewed, answer stands)".
HighIsReviewed ==
    answer.confidence = "high" => answer.text = "detailed" \/ answer.check = "stands"

\* Spec facts, once found, are never lost to the guards against an empty
\* retrieval: the answer is given, with the facts quoted under it.
FactsShown == pc = "done" /\ facts # {} => answer.by # "refusal" /\ answer.appendix

\* What spec_facts.py says of its entity scoping: a question about an entity
\* without matching facts "injects NOTHING instead of leaking other entities'
\* facts".
NoForeignFacts == Tokens # {} => facts \subseteq Tokens

\* What the query routes rely on: stages in order, at least two before an
\* answer, one outcome.
Contract ==
    INSTANCE EngineContract WITH
        outcome <- CASE pc = "done"   -> "answered"
                     [] pc = "raised" -> "raised"
                     [] OTHER         -> "none"

KeepsContract == Contract!Spec

\* Every question comes to its end.
Ends == <>(pc \in {"done", "raised"})
=============================================================================
