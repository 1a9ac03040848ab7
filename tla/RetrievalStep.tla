---------------------------- MODULE RetrievalStep ----------------------------
(***************************************************************************)
(* The steps of a plan carried out by HierarchicalPlanExecutor             *)
(* (core/retrieval/executor.py): for each step its documents, its share of *)
(* the context, the pages found, and their text; then the context of the   *)
(* answer and the pages its sources name.  Documents may be deleted while  *)
(* a question is on its way.                                               *)
(*                                                                         *)
(* A step is [tool, filters]: the documents its doc_filter resolves to as  *)
(* the quotas are worked out (none if it names none), once for each        *)
(* sub-query of a decomposed step, narrowed to those with its year and     *)
(* names.  Behind that, lists of ids are resolved again.                   *)
(***************************************************************************)
EXTENDS PageSearch

CONSTANTS
    Plans,          \* [strategy, steps]
    Searches,       \* [words, near, close, lost, unread]: what a search may hit
    MaxDeletes      \* bound on documents deleted

StepType == [tool : {"single", "fulltext", "filtered"}, filters : Seq(SUBSET Docs)]

\* Limits are numbers of characters or pages, and parts of a whole.
Limits == {"max_chars", "budget", "min_step", "min_single_step", "single_step_max",
           "multi_step_max", "sub_merge_cap", "min_per_doc", "header", "section", "marker",
           "heading", "min_room", "least_standard", "least_decomposed", "cap_top", "cap_high",
           "cap_medium", "cap_low", "cap_floor", "page_parts", "max_rescued", "excerpt",
           "structure_content", "page_preview", "leading_pages"}

ASSUME StepAssumption ==
    /\ IsFiniteSet(Docs) /\ PageCount \in [Docs -> Nat]
    /\ \A d \in Docs : IsFiniteSet(DOMAIN Chapters[d])
    /\ \A d \in Docs : \A n \in 1..PageCount[d] : Length[<<d, n>>] \in Nat
    /\ \A l \in Limits : Cfg[l] \in Nat
    /\ Cfg.leading_pages # 0 /\ Cfg.marker # 0 /\ Cfg.page_parts # 0
    /\ Plans \subseteq [strategy : {"standard", "decomposed"}, steps : Seq(StepType)]
    /\ \A p \in Plans :
         /\ p.steps # <<>>
         /\ \A i \in DOMAIN p.steps :
              /\ p.steps[i].filters # <<>>
              /\ p.strategy = "standard" => Len(p.steps[i].filters) = 1

VARIABLES
    plan,
    pc,
    at,             \* the step, and the sub-query in it
    asked,          \* the documents it is asked of
    memo,           \* what filters were resolved to, as long as the question lasts
    jobs,           \* the filters of the retrievals still to do for it
    target,         \* the documents of the retrieval under way
    results,        \* what they found so far
    unread,         \* whether pages with a word could not be listed for them
    parts,          \* [step, filter, text]: the texts so far
    cited,          \* the pages the sources name
    cut,            \* whether text that was laid out was cut off again
    skipped,        \* whether steps were left out
    context,
    live            \* the documents not deleted

vars == <<plan, pc, at, asked, memo, jobs, target, results, unread, parts, cited, cut, skipped,
          context, live>>

Steps == plan.steps
Step == Steps[at[1]]
Filter == Step.filters[at[2]]

\* A step's filter is what its sub-queries ask for together.
StepFilter(step) == UNION Range(step.filters)
Shares == Quotas([i \in DOMAIN Steps |-> StepFilter(Steps[i])])
Quota == Shares[at[1]]

\* Fulltext and filtered retrieval take their documents one by one.  The steps
\* of a decomposed plan are retrieved at once, whatever their tool.
OneByOne(step) == plan.strategy = "standard" /\ step.tool \in {"fulltext", "filtered"}

Init ==
    /\ plan \in Plans
    /\ pc = "start" /\ at = <<1, 1>>
    /\ asked = {} /\ memo = <<>> /\ jobs = <<>> /\ target = {}
    /\ results = <<>> /\ unread = FALSE /\ parts = <<>> /\ cited = {}
    /\ cut = FALSE /\ skipped = FALSE /\ context = <<>>
    /\ live = Docs

\* _resolve_doc_filter of ids: those still listed, once for each list of them.
Resolved(ids) == IF ids \in DOMAIN memo THEN memo[ids] ELSE ids \cap live
Resolve(ids) == memo' = [f \in DOMAIN memo \cup {ids} |-> Resolved(f)]

\* _match_subquery_to_docs: a document deleted since has no title to match, and
\* where none matches the sub-query is asked of all documents of its step.
Narrowed ==
    IF Filter = StepFilter(Step) \/ Filter \cap live = {} THEN StepFilter(Step) ELSE Filter \cap live

\* What a step retrieves: its documents together, or each by itself; where none
\* is left, fulltext retrieval searches the whole tenant, filtered retrieval
\* nothing.
Start ==
    /\ pc = "start"
    /\ asked' = Narrowed
    /\ IF OneByOne(Step) /\ asked' # {}
       THEN /\ jobs' = At(Sorted(Resolved(asked'), <), LAMBDA ds :
                          IF ds = <<>> /\ Step.tool = "fulltext" THEN <<{}>>
                          ELSE [i \in DOMAIN ds |-> {ds[i]}])
            /\ Resolve(asked')
       ELSE jobs' = <<asked'>> /\ memo' = memo
    /\ pc' = IF jobs' = <<>> THEN "merge" ELSE "resolve"
    /\ UNCHANGED <<plan, at, target, results, unread, parts, cited, cut, skipped, context, live>>

\* _single_retrieve resolves its ids again.
ResolveJob ==
    /\ pc = "resolve" /\ pc' = "retrieve"
    /\ target' = Resolved(Head(jobs)) /\ Resolve(Head(jobs))
    /\ UNCHANGED <<plan, at, asked, jobs, results, unread, parts, cited, cut, skipped, context, live>>

Collect(s, rs) ==
    /\ results' = results \o rs
    /\ unread' = (unread \/ s.unread # {})
    /\ jobs' = Tail(jobs) /\ target' = {}
    /\ pc' = IF Len(jobs) = 1 THEN "merge" ELSE "resolve"
    /\ UNCHANGED <<plan, at, asked, memo, parts, cited, cut, skipped, context, live>>

Searching(s) == [words |-> s.words, near |-> s.near, close |-> s.close,
                 lost |-> s.lost, unread |-> s.unread, live |-> live]

\* One document: the model picks chapters, or fails, which is no pick at all.
PickChapters ==
    /\ pc = "retrieve" /\ Cardinality(target) = 1
    /\ \E d \in target, s \in Searches : \E picks \in SUBSET (0..Len(Chapters[d])) :
         LET rs == IF d \in live THEN ChapterRetrieve(Searching(s), d, picks, Quota) ELSE <<>>
         IN  IF rs # <<>> THEN Collect(s, Rescue(Searching(s), rs, {d}))
             ELSE Collect(s, Retrieve(Searching(s), {d}, Quota))

\* A reply that is no list of numbers is found out outside the try: the whole
\* question fails.
PickNonsense ==
    /\ pc = "retrieve" /\ Cardinality(target) = 1
    /\ \E d \in target : d \in live /\ Chapters[d] # <<>>
    /\ pc' = "raised"
    /\ UNCHANGED <<plan, at, asked, memo, jobs, target, results, unread, parts, cited, cut, skipped,
                   context, live>>

\* Several documents, or all of the tenant's: a filter that resolves to nothing
\* is none.
Search ==
    /\ pc = "retrieve" /\ Cardinality(target) # 1
    /\ \E s \in Searches : Collect(s, Retrieve(Searching(s), target, Quota))

\* On to the next sub-query, the next step, or the end.
Proceed ==
    LET next == IF at[2] < Len(Step.filters) THEN <<at[1], at[2] + 1>> ELSE <<at[1] + 1, 1>>
    IN  /\ results' = <<>> /\ unread' = FALSE
        /\ IF next[1] > Len(Steps) \/ skipped'
           THEN pc' = "assemble" /\ UNCHANGED <<at, asked>>
           ELSE pc' = "start" /\ at' = next /\ asked' = {}

Used == Size(Joined([i \in DOMAIN parts |-> parts[i].text]))

Lay(merged, max) ==
    /\ parts' = Append(parts, [step |-> at[1], filter |-> asked, text |-> Cut(merged.text, max)])
    /\ cited' = cited \cup merged.cited
    /\ cut' = (cut \/ merged.cut \/ Size(merged.text) > max)

\* What the merger is given.
Laying == WithSections([live |-> live], results)

\* _execute_standard: a step gets what its quota and the context leave it, and
\* once the context is full the steps behind it are not carried out.
MergeStep ==
    /\ pc = "merge" /\ plan.strategy = "standard"
    /\ \E m \in {Merge(Laying, Min({Quota, Cfg.max_chars - Used}))} : Lay(m, Quota)
    /\ skipped' = (/\ at[1] < Len(Steps)
                   /\ Size(Joined([i \in DOMAIN parts' |-> parts'[i].text])) >= Cfg.max_chars)
    /\ Proceed
    /\ UNCHANGED <<plan, memo, jobs, target, context, live>>

\* _execute_decomposed: every sub-query gets the quota of its step, and has a
\* heading even where nothing was found.
MergeSubQuery ==
    /\ pc = "merge" /\ plan.strategy = "decomposed"
    /\ \E m \in {Merge(Laying, Min({Quota, Cfg.sub_merge_cap}))} : Lay(m, Quota)
    /\ skipped' = skipped
    /\ Proceed
    /\ UNCHANGED <<plan, memo, jobs, target, context, live>>

\* The texts of the steps, with the headings of a decomposed one.
Heading == Piece("heading", <<>>, Cfg.heading)
TextOfStep(i) ==
    LET own == Keep(parts, {j \in DOMAIN parts : parts[j].step = i})
    IN  IF plan.strategy = "standard" THEN Joined([j \in DOMAIN own |-> own[j].text])
        ELSE <<Heading>> \o Joined([j \in DOMAIN own |-> <<Heading>> \o own[j].text])
Texts == [i \in 1..parts[Len(parts)].step |-> TextOfStep(i)]

Finish ==
    /\ pc = "assemble"
    /\ context' = Assemble(Texts, IF plan.strategy = "standard" THEN Cfg.least_standard
                                                               ELSE Cfg.least_decomposed)
    /\ cut' = (cut \/ Size(Joined(Texts)) > Cfg.budget)
    /\ pc' = "done"
    /\ UNCHANGED <<plan, at, asked, memo, jobs, target, results, unread, parts, cited, skipped, live>>

\* documents.py: a document is deleted by another request.
Delete(d) ==
    /\ d \in live /\ Cardinality(Docs \ live) < MaxDeletes
    /\ pc \notin {"done", "raised"}
    /\ live' = live \ {d}
    /\ UNCHANGED <<plan, pc, at, asked, memo, jobs, target, results, unread, parts, cited, cut,
                   skipped, context>>

Next ==
    \/ Start \/ ResolveJob
    \/ PickChapters \/ PickNonsense \/ Search
    \/ MergeStep \/ MergeSubQuery
    \/ Finish
    \/ \E d \in Docs : Delete(d)

Spec == Init /\ [][Next]_vars

-----------------------------------------------------------------------------
(* Properties.                                                             *)

TypeOK ==
    /\ plan \in Plans
    /\ pc \in {"start", "resolve", "retrieve", "merge", "assemble", "done", "raised"}
    /\ at[1] \in DOMAIN Steps /\ at[2] \in DOMAIN Step.filters
    /\ cited \subseteq UNION {{<<d, n>> : n \in 1..PageCount[d]} : d \in Docs}
    /\ asked \subseteq Docs /\ target \subseteq asked
    /\ \A f \in DOMAIN memo : f \subseteq Docs /\ memo[f] \subseteq f
    /\ cut \in BOOLEAN /\ skipped \in BOOLEAN /\ unread \in BOOLEAN /\ live \subseteq Docs

\* A filter resolves to nothing once its documents are deleted, and then all
\* documents are searched: those of a step together, or one of them by itself.
Forgotten(part) ==
    IF OneByOne(Steps[part.step]) THEN ~(part.filter \subseteq live) ELSE part.filter \cap live = {}

\* The documents an industry pack adds pages of.
PackDocs == {p[1] : p \in PackPages}

\* A step that is asked of some documents is given no page of another, through
\* chapters, full-text, vector or fallback search, unless its filter resolved to
\* nothing because they were deleted; but where one of them turns out to be gone
\* or to have no pages, an industry pack brings in documents of its own.
NoForeignPages ==
    \A i \in DOMAIN parts : parts[i].filter # {} /\ ~Forgotten(parts[i]) =>
        \A p \in PagesIn(parts[i].text) :
            \/ p[1] \in parts[i].filter
            \/ p[1] \in PackDocs /\ \E d \in parts[i].filter : d \notin live \/ PageCount[d] = 0

\* executor.py: a filter need not be looked up twice, since "one request cannot see
\* the document set change".  It can, and then a step that is asked of some
\* documents is given pages of all the others.
FilterHolds ==
    \A i \in DOMAIN parts : parts[i].filter # {} =>
        \A p \in PagesIn(parts[i].text) : p[1] \in parts[i].filter \cup PackDocs

\* executor.py: cutting the context must not "silently drop an entire document
\* in multi-document comparisons".  Each document asked for is heard, if it has
\* pages, was not deleted and its step was reached.
EachDocumentSpeaks ==
    pc = "done" => \A i \in DOMAIN parts : \A d \in parts[i].filter \cap live :
        PageCount[d] > 0 => \E p \in PagesIn(context) : p[1] = d

\* So it is where each document that may be found has room for its least share,
\* and the last cut takes less than the share of one.
Room(i) ==
    LET before == SubSeq(parts, 1, i - 1)
        own == Shares[parts[i].step]
    IN  IF plan.strategy = "decomposed" THEN Min({own, Cfg.sub_merge_cap})
        ELSE Min({own, Cfg.max_chars - Size(Joined([j \in DOMAIN before |-> before[j].text]))})
Crowd(i) ==
    LET ds == parts[i].filter
    IN  IF \A d \in ds : d \in live /\ PageCount[d] > 0 THEN Cardinality(ds) ELSE Cardinality(Docs)
Fits(i) ==
    /\ Crowd(i) * Cfg.min_per_doc <= Room(i)
    /\ Crowd(i) * (Size(Joined(Texts)) - Cfg.budget) < Size(Joined(Texts))
DocumentsSpeak ==
    pc = "done" => \A i \in DOMAIN parts : Fits(i) => \A d \in parts[i].filter \cap live :
        PageCount[d] > 0 => \E p \in PagesIn(context) : p[1] = d

\* Where text was cut off or steps were skipped, the context says so, whichever
\* of the cuts it was; confidence in the answer rests on it.
CutIsMarked == pc = "done" /\ (cut \/ skipped) => IsTruncated(context)

\* The sources name every page of the context.
ContextIsCited == pc = "done" => PagesIn(context) \subseteq cited

\* The sources name the pages of the context, and no other unless the context
\* is marked as cut.
SourcesAreContext ==
    /\ ContextIsCited
    /\ pc = "done" /\ ~IsTruncated(context) => cited \subseteq PagesIn(context)

\* "Guarantee pages containing rare query identifiers are present": however the
\* pages were searched for, those with a word scanned for are among them, unless
\* there are more of them than a rescue takes, or some could not be listed.
NamedPages(there, d) == NamedBy([live |-> there], {}, d, Scanned(d))
NamedPageFound ==
    pc = "merge" /\ ~unread /\ Cardinality(UNION {NamedPages(Docs, d) : d \in asked}) <= Cfg.max_rescued =>
        \A d \in asked \cap live : NamedPages(live, d) \subseteq Found(results)

\* The same without the first condition, and only of identifiers: pages with two
\* common words of the question come before the one with its identifier.
IdentifiersArePresent ==
    pc = "merge" /\ ~unread => \A d \in asked \cap live : \A w \in Range(Words) :
        w.kind # "plain" => Selective([live |-> live], {}, d, w) \subseteq Found(results)

\* truncation.py says "the marker is written on every truncation".  It is not: a
\* page may be cut to an excerpt, or to the start its search returns, without.
EveryCutIsMarked ==
    pc = "done" /\ ~IsTruncated(context) =>
        \A i \in DOMAIN context : context[i].what = "page" => context[i].len >= Length[context[i].page]
=============================================================================
