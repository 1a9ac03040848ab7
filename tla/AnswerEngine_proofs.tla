-------------------------- MODULE AnswerEngine_proofs --------------------------
(***************************************************************************)
(* Proofs about AnswerEngine, for any documents, entities, questions and   *)
(* plans: answers are grounded, facts found are shown, entities are looked *)
(* for, and the engine keeps its contract.                                 *)
(***************************************************************************)
EXTENDS AnswerEngine, FiniteSetTheorems, TLAPS

-----------------------------------------------------------------------------
(* Where a question is.                                                    *)

Planning == {"start", "classify", "plan"}
Agent == {"agent", "target", "ask"}
Searching == {"decompose", "sub", "retrieve", "facts"}

\* Up to the look-up no fact is found; up to the synthesis nobody has answered;
\* only questions without a conversation take the deep path.
Progress ==
    /\ pc \in Planning \cup Agent \cup Searching \cup {"synthesize", "guard", "done", "raised"}
    /\ pc \in Planning \cup Agent \cup Searching => facts = {}
    /\ pc \in Planning \cup Agent \cup Searching \cup {"synthesize"} => answer = NoAnswer
    /\ deep => question.history = None
    /\ pc \in Agent \cup {"decompose", "sub"} => deep
    /\ question \in Questions

\* The fields of an answer.
Filed ==
    \E b, f, t, k, c, a : answer = [by |-> b, framing |-> f, text |-> t, check |-> k,
                                   confidence |-> c, appendix |-> a]

\* Facts that were found are before the synthesizer, and it answers from them.
FactsUsed ==
    /\ pc = "synthesize" /\ facts # {} => headed
    /\ pc = "guard" /\ facts # {} => answer.by \in {"model", "excerpts"}

\* The stages reported by each point.
Staged ==
    /\ stage \in 0..3
    /\ pc = "start" => stage = 0
    /\ pc \in {"classify", "plan"} => stage = 1
    /\ pc \in Agent \cup Searching \cup {"synthesize"} => stage = 2
    /\ pc \in {"guard", "done"} => stage >= 2

LEMMA ProgressInit == Init => Progress
  BY DEF Init, Progress, Planning, Agent, Searching

LEMMA ProgressNext == Progress /\ [Next]_vars => Progress'
  <1> SUFFICES ASSUME Progress, [Next]_vars PROVE Progress'
    OBVIOUS
  <1> USE DEF Progress, Planning, Agent, Searching
  <1>1. CASE Start \/ Traditional \/ Deep BY <1>1 DEF Start, Traditional, Deep, agentVars, contextVars
  <1>2. CASE Plan BY <1>2 DEF Plan, agentVars, contextVars
  <1>3. CASE Retrieve BY <1>3 DEF Retrieve, agentVars
  <1>4. CASE OpenAgent \/ ChooseTargets BY <1>4 DEF OpenAgent, ChooseTargets, contextVars
  <1>5. ASSUME NEW t \in targets, Ask(t) PROVE Progress' BY <1>5 DEF Ask, contextVars
  <1>6. CASE MergeReplies BY <1>6 DEF MergeReplies
  <1>7. CASE AgentFails BY <1>7 DEF AgentFails, contextVars
  <1>8. CASE Decompose BY <1>8 DEF Decompose, agentVars, contextVars
  <1>9. ASSUME NEW e \in Entities, SubQuery(e) PROVE Progress' BY <1>9 DEF SubQuery, agentVars
  <1>10. CASE LookUpFacts BY <1>10 DEF LookUpFacts, agentVars
  <1>11. CASE Synthesize BY <1>11 DEF Synthesize, agentVars, contextVars
  <1>12. CASE Finish BY <1>12 DEF Finish, agentVars, contextVars
  <1>13. CASE DatabaseFails BY <1>13 DEF DatabaseFails, agentVars, contextVars
  <1>14. CASE UNCHANGED vars BY <1>14 DEF vars
  <1> QED
    BY <1>1, <1>2, <1>3, <1>4, <1>5, <1>6, <1>7, <1>8, <1>9, <1>10, <1>11, <1>12, <1>13, <1>14
    DEF Next

\* A fact that was found puts text before the synthesizer, which then answers.
LEMMA SynthesizedBy ==
  ASSUME Progress, Synthesize
  PROVE  /\ answer'.by \in {"none", "model", "excerpts"}
         /\ headed => answer'.by \in {"model", "excerpts"}
         /\ answer' = NoAnswer \/ answer'.by \in {"model", "excerpts"}
  <1>1. answer = NoAnswer BY DEF Progress, Synthesize
  <1>2. NoAnswer.by = "none" BY DEF NoAnswer
  <1>3. \A c : Excerpts(c).by = "excerpts" BY DEF Excerpts
  <1>4. \A x, c : Written(x, c).by = "model" BY DEF Written
  <1>5. \/ ~ headed /\ answer' = answer
        \/ \E c : answer' = Excerpts(c)
        \/ \E x, c : answer' = Written(x, c)
    BY DEF Synthesize
  <1>6. CASE ~ headed /\ answer' = answer BY <1>1, <1>2, <1>6
  <1>7. CASE \E c : answer' = Excerpts(c) BY <1>3, <1>7
  <1>8. CASE \E x, c : answer' = Written(x, c) BY <1>4, <1>8
  <1> QED BY <1>5, <1>6, <1>7, <1>8

LEMMA FactsUsedNext == Progress /\ FactsUsed /\ [Next]_vars => FactsUsed'
  <1> SUFFICES ASSUME Progress, FactsUsed, [Next]_vars PROVE FactsUsed'
    OBVIOUS
  <1> USE DEF FactsUsed
  <1>1. CASE Start \/ Traditional \/ Deep BY <1>1 DEF Start, Traditional, Deep
  <1>2. CASE Plan BY <1>2 DEF Plan
  <1>3. CASE Retrieve BY <1>3 DEF Retrieve
  <1>4. CASE OpenAgent \/ ChooseTargets BY <1>4 DEF OpenAgent, ChooseTargets
  <1>5. ASSUME NEW t \in targets, Ask(t) PROVE FactsUsed' BY <1>5 DEF Ask
  <1>6. CASE MergeReplies
    <2>1. facts' = {} BY <1>6 DEF MergeReplies, Progress, Planning, Agent, Searching
    <2> QED BY <2>1
  <1>7. CASE AgentFails BY <1>7 DEF AgentFails
  <1>8. CASE Decompose BY <1>8 DEF Decompose
  <1>9. ASSUME NEW e \in Entities, SubQuery(e) PROVE FactsUsed' BY <1>9 DEF SubQuery
  <1>10. CASE LookUpFacts BY <1>10 DEF LookUpFacts
  <1>11. CASE Synthesize
    <2>1. pc = "synthesize" /\ pc' = "guard" /\ facts' = facts BY <1>11 DEF Synthesize
    <2>2. facts # {} => headed BY <2>1
    <2> QED BY <1>11, <2>1, <2>2, SynthesizedBy
  <1>12. CASE Finish BY <1>12 DEF Finish
  <1>13. CASE DatabaseFails BY <1>13 DEF DatabaseFails
  <1>14. CASE UNCHANGED vars BY <1>14 DEF vars
  <1> QED
    BY <1>1, <1>2, <1>3, <1>4, <1>5, <1>6, <1>7, <1>8, <1>9, <1>10, <1>11, <1>12, <1>13, <1>14
    DEF Next

-----------------------------------------------------------------------------
(* Answers rest on something found.                                        *)

LEMMA GroundedNext == Grounded /\ [Next]_vars => Grounded'
  <1> SUFFICES ASSUME Grounded, [Next]_vars PROVE Grounded'
    OBVIOUS
  <1>1. CASE Finish
    <2>1. found' = found /\ facts' = facts BY <1>1 DEF Finish, contextVars
    <2>2. CASE answer' = [NoAnswer EXCEPT !.by = "refusal"]
      <3>1. answer'.by = "refusal" BY <2>2 DEF NoAnswer
      <3> QED BY <3>1 DEF Grounded
    <2>3. CASE ~ NothingFound BY <2>1, <2>3 DEF NothingFound, Grounded
    <2> QED BY <1>1, <2>2, <2>3 DEF Finish
  <1>2. CASE UNCHANGED vars BY <1>2 DEF vars, Grounded
  <1>3. CASE Next /\ ~ Finish
    <2>1. pc' # "done"
      BY <1>3 DEF Next, Start, Traditional, Deep, Plan, Retrieve, OpenAgent, ChooseTargets, Ask,
                  MergeReplies, AgentFails, Decompose, SubQuery, LookUpFacts, Synthesize, DatabaseFails
    <2> QED BY <2>1 DEF Grounded
  <1> QED BY <1>1, <1>2, <1>3

\* "Refuse to let LLM fabricate": whatever the models reply, an answer that is
\* no refusal has a retrieved page or a spec fact behind it.
THEOREM AnswersGrounded == Spec => []Grounded
  <1>1. Init => Grounded BY DEF Init, Grounded
  <1> QED BY <1>1, GroundedNext, PTL DEF Spec

-----------------------------------------------------------------------------
(* Facts that were found are shown.                                        *)

LEMMA FiledInit == Init => Filed
  BY DEF Init, Filed, NoAnswer

LEMMA FiledNext == Filed /\ [Next]_vars => Filed'
  <1> SUFFICES ASSUME Filed, [Next]_vars PROVE Filed'
    OBVIOUS
  <1>1. CASE MergeReplies
    <2>1. answer' = answer \/ answer' = [NoAnswer EXCEPT !.by = "agent", !.framing = question.entities]
      BY <1>1 DEF MergeReplies
    <2> QED BY <2>1 DEF Filed, NoAnswer
  <1>2. CASE Synthesize
    <2>1. \A c : Excerpts(c) = [by |-> "excerpts", framing |-> Framing, text |-> "void",
                                check |-> "off", confidence |-> c, appendix |-> FALSE]
      BY DEF Excerpts
    <2>2. \/ answer' = answer
          \/ \E c : answer' = Excerpts(c)
          \/ \E x, c : answer' = Written(x, c)
      BY <1>2 DEF Synthesize
    <2>3. CASE answer' = answer BY <2>3 DEF Filed
    <2>4. CASE \E c : answer' = Excerpts(c) BY <2>1, <2>4 DEF Filed
    <2>5. CASE \E x, c : answer' = Written(x, c) BY <2>5 DEF Written, Filed
    <2> QED BY <2>2, <2>3, <2>4, <2>5
  <1>3. CASE Finish
    <2>1. \/ answer' = [NoAnswer EXCEPT !.by = "refusal"]
          \/ answer' = [answer EXCEPT !.appendix = (facts # {})]
      BY <1>3 DEF Finish
    <2> QED BY <2>1 DEF Filed, NoAnswer
  <1>4. CASE ~ MergeReplies /\ ~ Synthesize /\ ~ Finish
    <2>1. answer' = answer
      BY <1>4 DEF Next, vars, Start, Traditional, Deep, Plan, Retrieve, OpenAgent, ChooseTargets,
                  Ask, AgentFails, Decompose, SubQuery, LookUpFacts, DatabaseFails
    <2> QED BY <2>1 DEF Filed
  <1> QED BY <1>1, <1>2, <1>3, <1>4

LEMMA FactsShownNext == Filed /\ FactsUsed /\ FactsShown /\ [Next]_vars => FactsShown'
  <1> SUFFICES ASSUME Filed, FactsUsed, FactsShown, [Next]_vars PROVE FactsShown'
    OBVIOUS
  <1>1. CASE Finish
    <2> SUFFICES ASSUME facts # {} PROVE answer'.by # "refusal" /\ answer'.appendix
      BY <1>1 DEF FactsShown, Finish
    <2>1. answer.by \in {"model", "excerpts"} BY <1>1 DEF Finish, FactsUsed
    <2>2. answer' = [answer EXCEPT !.appendix = (facts # {})]
      BY <1>1, <2>1 DEF Finish, NothingFound
    <2>3. answer'.by = answer.by /\ answer'.appendix = (facts # {}) BY <2>2 DEF Filed
    <2> QED BY <2>1, <2>3
  <1>2. CASE UNCHANGED vars BY <1>2 DEF vars, FactsShown
  <1>3. CASE Next /\ ~ Finish
    <2>1. pc' # "done"
      BY <1>3 DEF Next, Start, Traditional, Deep, Plan, Retrieve, OpenAgent, ChooseTargets, Ask,
                  MergeReplies, AgentFails, Decompose, SubQuery, LookUpFacts, Synthesize, DatabaseFails
    <2> QED BY <2>1 DEF FactsShown
  <1> QED BY <1>1, <1>2, <1>3

\* Facts found by the look-up survive both guards against an empty retrieval:
\* no question that has them is refused, and they are quoted under the answer.
THEOREM FactsAreShown == Spec => []FactsShown
  <1>1. Init => Progress /\ Filed /\ FactsUsed /\ FactsShown
    BY ProgressInit, FiledInit DEF Init, FactsUsed, FactsShown
  <1>2. /\ Progress /\ Filed /\ FactsUsed /\ FactsShown /\ [Next]_vars
        => (Progress /\ Filed /\ FactsUsed /\ FactsShown)'
    BY ProgressNext, FiledNext, FactsUsedNext, FactsShownNext
  <1> QED BY <1>1, <1>2, PTL DEF Spec

-----------------------------------------------------------------------------
(* Entities the question names are looked for.                             *)

\* A candidate set with its coverage names every entity that some document names.
LEMMA CoverageCovers ==
  ASSUME NEW p, NEW c \in EnsureEntityCoverage(p), NEW e \in Mentioned, Naming(e) # {}
  PROVE  Naming(e) \cap c # {}
  <1> DEFINE missing == {x \in Mentioned : Naming(x) # {} /\ Naming(x) \cap p = {}}
  <1>1. PICK a : c = p \cup a /\ \A x \in missing : Naming(x) \cap a # {}
    BY DEF EnsureEntityCoverage
  <1>2. CASE e \in missing BY <1>1, <1>2
  <1>3. CASE e \notin missing BY <1>1, <1>3
  <1> QED BY <1>2, <1>3

\* So does every filter of a plan over a non-empty candidate set, unless it was
\* cut at the cap or the documents were scoped to a year.
LEMMA FinePlanCovers ==
  ASSUME question.epochs = {},
         NEW c \in Candidates, c # {}, NEW p \in FinePlans(c), NEW f \in p.filters,
         ~ f.cut, NEW e \in Mentioned, Naming(e) # {}
  PROVE  Naming(e) \cap f.docs # {}
  <1>1. PICK b \in UNION {EnsureEntityCoverage(d) : d \in SUBSET Retrievable} : c = ScopedByEpoch(b)
    BY DEF Candidates
  <1>2. c = b BY <1>1 DEF ScopedByEpoch
  <1>3. PICK d \in SUBSET Retrievable : b \in EnsureEntityCoverage(d) BY <1>1
  <1>4. Naming(e) \cap c # {} BY <1>2, <1>3, CoverageCovers
  <1>5. f \in StepFilters(c) BY DEF FinePlans
  <1>6. c \subseteq f.docs BY <1>5 DEF StepFilters
  <1> QED BY <1>4, <1>6

\* The filters of a fallback plan hold documents of its entities.
LEMMA FallbackFilters ==
  ASSUME NEW entities, NEW p \in FallbackPlans(entities), NEW f \in p.filters
  PROVE  f.docs \subseteq UNION {Catalogued(e) : e \in entities}
  <1> DEFINE all == UNION {Catalogued(e) : e \in entities}
  <1>1. PICK g \in SUBSET all : p.filters = {[docs |-> g, cut |-> FALSE]} BY DEF FallbackPlans
  <1> HIDE DEF all
  <1>2. f = [docs |-> g, cut |-> FALSE] BY <1>1
  <1> QED BY <1>2 DEF all

LEMMA CataloguedNames == \A e : Catalogued(e) \subseteq Naming(e)
  BY EngineAssumption DEF Catalogued, Naming, Retrievable

\* A finite set with two members counts at least two.
LEMMA TwoOfThem ==
  ASSUME NEW S, IsFiniteSet(S), NEW x \in S, NEW y \in S, x # y
  PROVE  Cardinality(S) >= 2
  <1>1. {x, y} \subseteq S OBVIOUS
  <1>2. Cardinality({x, y}) = 2
    <2>1. IsFiniteSet({x}) /\ Cardinality({x}) = 1 BY FS_Singleton
    <2>2. Cardinality({x} \cup {y}) = Cardinality({x}) + 1 BY <2>1, FS_AddElement
    <2>3. {x} \cup {y} = {x, y} OBVIOUS
    <2> QED BY <2>1, <2>2, <2>3
  <1>3. Cardinality({x, y}) <= Cardinality(S) BY <1>1, FS_Subset
  <1>4. Cardinality(S) \in Nat BY FS_CardinalityType
  <1> QED BY <1>2, <1>3, <1>4

LEMMA EntityCoveredNext == Progress /\ EntityCovered /\ [Next]_vars => EntityCovered'
  <1> SUFFICES ASSUME Progress, EntityCovered, [Next]_vars PROVE EntityCovered'
    OBVIOUS
  <1>1. CASE Plan
    <2>1. UNCHANGED <<question, unfinished>> BY <1>1 DEF Plan
    <2>2. Mentioned' = Mentioned /\ \A e : Naming(e)' = Naming(e)
      BY <2>1 DEF Mentioned, Naming, Retrievable
    <2> SUFFICES ASSUME question.epochs = {}, NEW e \in Mentioned, NEW f \in plan'.filters,
                        Naming(e) # {}, f.docs # {}, ~ f.cut
                 PROVE  Naming(e) \cap f.docs # {}
      BY <2>1, <2>2 DEF EntityCovered
    <2>3. CASE plan' \in FallbackPlans({})
      <3>1. f.docs \subseteq UNION {Catalogued(x) : x \in {}} BY <2>3, FallbackFilters
      <3> QED BY <3>1
    <2>4. CASE \E c \in Candidates \ {{}} : plan' \in FinePlans(c) BY <2>4, FinePlanCovers
    <2> QED BY <1>1, <2>3, <2>4 DEF Plan, Plans
  <1>2. CASE Decompose
    <2>1. UNCHANGED <<question, unfinished>> BY <1>2 DEF Decompose
    <2>2. Mentioned' = Mentioned /\ \A e : Naming(e)' = Naming(e)
      BY <2>1 DEF Mentioned, Naming, Retrievable
    <2>3. Mentioned = question.entities BY <1>2 DEF Decompose, Progress, Agent, Mentioned
    <2> SUFFICES ASSUME pc' = "retrieve", NEW e \in question.entities, NEW f \in plan'.filters,
                        f.docs # {}
                 PROVE  Naming(e) \cap f.docs # {}
      BY <2>1, <2>2, <2>3 DEF EntityCovered
    <2>4. plan' \in FallbackPlans(question.entities) /\ ~ (Cardinality(question.entities) >= 2)
      BY <1>2 DEF Decompose
    <2>5. f.docs \subseteq UNION {Catalogued(x) : x \in question.entities} BY <2>4, FallbackFilters
    <2>6. PICK x \in question.entities : f.docs \cap Catalogued(x) # {} BY <2>5
    <2>7. x = e
      <3>1. IsFiniteSet(question.entities)
        BY EngineAssumption, FS_Subset DEF Progress
      <3> QED BY <2>4, <3>1, TwoOfThem
    <2> QED BY <2>6, <2>7, CataloguedNames
  <1>3. CASE UNCHANGED vars
    <2>1. Mentioned' = Mentioned /\ \A e : Naming(e)' = Naming(e)
      BY <1>3 DEF vars, Mentioned, Naming, Retrievable
    <2> QED BY <1>3, <2>1 DEF vars, EntityCovered
  <1>4. CASE Next /\ ~ Plan /\ ~ Decompose
    <2>1. pc' # "retrieve"
      BY <1>4 DEF Next, Start, Traditional, Deep, Retrieve, OpenAgent, ChooseTargets, Ask,
                  MergeReplies, AgentFails, SubQuery, LookUpFacts, Synthesize, Finish, DatabaseFails
    <2> QED BY <2>1 DEF EntityCovered
  <1> QED BY <1>1, <1>2, <1>3, <1>4

\* Whatever the model picks and plans, and with a conversation or without one,
\* every entity a document names is looked for by every filtered step.
THEOREM EntitiesAreCovered == Spec => []EntityCovered
  <1>1. Init => Progress /\ EntityCovered
    BY ProgressInit DEF Init, EntityCovered
  <1>2. Progress /\ EntityCovered /\ [Next]_vars => (Progress /\ EntityCovered)'
    BY ProgressNext, EntityCoveredNext
  <1> QED BY <1>1, <1>2, PTL DEF Spec

-----------------------------------------------------------------------------
(* The engine keeps its contract with the routes.                          *)

LEMMA StagedInit == Init => Staged
  BY DEF Init, Staged, Agent, Searching

LEMMA StagedNext == Staged /\ [Next]_vars => Staged'
  <1> SUFFICES ASSUME Staged, [Next]_vars PROVE Staged'
    OBVIOUS
  <1> USE DEF Staged, Agent, Searching
  <1>1. CASE Start \/ Traditional \/ Deep BY <1>1 DEF Start, Traditional, Deep
  <1>2. CASE Plan \/ Retrieve BY <1>2 DEF Plan, Retrieve
  <1>3. CASE OpenAgent \/ ChooseTargets BY <1>3 DEF OpenAgent, ChooseTargets
  <1>4. ASSUME NEW t \in targets, Ask(t) PROVE Staged' BY <1>4 DEF Ask
  <1>5. CASE MergeReplies \/ AgentFails BY <1>5 DEF MergeReplies, AgentFails
  <1>6. CASE Decompose BY <1>6 DEF Decompose
  <1>7. ASSUME NEW e \in Entities, SubQuery(e) PROVE Staged' BY <1>7 DEF SubQuery
  <1>8. CASE LookUpFacts BY <1>8 DEF LookUpFacts
  <1>9. CASE Synthesize BY <1>9 DEF Synthesize
  <1>10. CASE Finish \/ DatabaseFails BY <1>10 DEF Finish, DatabaseFails
  <1>11. CASE UNCHANGED vars BY <1>11 DEF vars
  <1> QED BY <1>1, <1>2, <1>3, <1>4, <1>5, <1>6, <1>7, <1>8, <1>9, <1>10, <1>11 DEF Next

\* How the question ended, as its caller sees it.
Outcome == CASE pc = "done"   -> "answered"
             [] pc = "raised" -> "raised"
             [] OTHER         -> "none"

\* Every step of the engine is a step of the contract, or none.
LEMMA ContractStep ==
  ASSUME Staged, [Next]_vars
  PROVE  [Contract!Next]_<<stage, Outcome>>
  <1> USE DEF Staged, Agent, Searching, Outcome
  <1>1. CASE Start \/ Deep \/ Plan
    <2>1. Contract!Report BY <1>1 DEF Start, Deep, Plan, Contract!Report
    <2> QED BY <2>1 DEF Contract!Next
  <1>2. CASE Synthesize
    <2>1. Contract!Report \/ UNCHANGED <<stage, Outcome>> BY <1>2 DEF Synthesize, Contract!Report
    <2> QED BY <2>1 DEF Contract!Next
  <1>3. CASE Finish
    <2>1. Contract!Answer BY <1>3 DEF Finish, Contract!Answer
    <2> QED BY <2>1 DEF Contract!Next
  <1>4. CASE DatabaseFails
    <2>1. Contract!Raise BY <1>4 DEF DatabaseFails, Contract!Raise
    <2> QED BY <2>1 DEF Contract!Next
  <1>5. CASE Traditional \/ Retrieve \/ Decompose \/ LookUpFacts
    BY <1>5 DEF Traditional, Retrieve, Decompose, LookUpFacts
  <1>6. CASE OpenAgent \/ ChooseTargets \/ MergeReplies \/ AgentFails
    BY <1>6 DEF OpenAgent, ChooseTargets, MergeReplies, AgentFails
  <1>7. ASSUME NEW t \in targets, Ask(t) PROVE UNCHANGED <<stage, Outcome>> BY <1>7 DEF Ask
  <1>8. ASSUME NEW e \in Entities, SubQuery(e) PROVE UNCHANGED <<stage, Outcome>>
    BY <1>8 DEF SubQuery
  <1>9. CASE UNCHANGED vars BY <1>9 DEF vars
  <1> QED BY <1>1, <1>2, <1>3, <1>4, <1>5, <1>6, <1>7, <1>8, <1>9 DEF Next

\* What the query routes count on holds of every question: stages in order, at
\* least two before an answer, and one outcome.
THEOREM EngineKeepsContract == Spec => KeepsContract
  <1>1. Init => Contract!Init BY DEF Init, Contract!Init
  <1>2. Staged /\ [Next]_vars => [Contract!Next]_<<stage, Outcome>> BY ContractStep
  <1> QED BY <1>1, <1>2, StagedInit, StagedNext, PTL DEF Spec, KeepsContract, Contract!Spec, Outcome
===============================================================================
