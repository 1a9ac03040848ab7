----------------------------- MODULE PageSearch -----------------------------
(***************************************************************************)
(* From a step's documents to pages: the executor's chapter retrieval and  *)
(* its rescue of pages with the question's identifier                      *)
(* (core/retrieval/executor.py), and HierarchicalRetriever                 *)
(* (core/retrieval/retriever.py) behind them.                              *)
(*                                                                         *)
(* A filter is a set of documents, {} where the whole tenant is searched.  *)
(* A search s says what there is and what is hit: s.live are the documents *)
(* not deleted, s.words the pages of the chunks full-text search returns,  *)
(* s.near and s.close those vector search finds above its two thresholds,  *)
(* s.lost and s.unread the <<document, word>> whose pages could not be     *)
(* listed, by the search itself and by the rescue behind it.               *)
(* Within a stage, pages of equal score stand in page order; the stages    *)
(* stand in the order of the code.                                         *)
(***************************************************************************)
EXTENDS ContextMerge

CONSTANTS
    Docs,           \* numbers
    PageCount,      \* [Docs -> Nat]
    Length,         \* the length of a page's text
    Chapters,       \* [Docs -> Seq([title, from, to, match, rank, around])], in
                    \* the order of section_path.  match: where the question's
                    \* words are (3 title, 2 keywords, 1 summary, 0 nowhere);
                    \* rank: how _section_relevance orders the title; around:
                    \* the page numbers of its parent
    Words,          \* the question's words, in the order of _identifier_rank:
                    \* Seq([kind, long, rare, on]).  kind: "mixed" (letters and
                    \* digits), "underscored" or "plain"; long: five characters
                    \* or more; rare: the documents of which at most two chapters
                    \* mention it; on: the pages with it
    Tables,         \* pages where the words are in a row of a table
    PackPages,      \* pages with data of the industry pack of the request
    WordScore       \* a page's score in full-text search

PagesOf(s, d) == IF d \in s.live THEN {<<d, n>> : n \in 1..PageCount[d]} ELSE {}
Everywhere(s) == UNION {PagesOf(s, d) : d \in Docs}
Within(s, filter) == {p \in Everywhere(s) : filter = {} \/ p[1] \in filter}

Before(p, q) == p[1] < q[1] \/ (p[1] = q[1] /\ p[2] < q[2])
InOrder(ps) == Sorted(ps, Before)
Upto(rs, n) == Keep(rs, 1..n)

\* A result with at most max characters of its page.
Result(p, score, max) == [page |-> p, score |-> score, len |-> Min({Length[p], max}), excerpt |-> FALSE]
Whole(p, score) == Result(p, score, Length[p])
Found(rs) == {rs[i].page : i \in DOMAIN rs}
Without(rs, ps) == Keep(rs, {i \in DOMAIN rs : rs[i].page \notin ps})

\* The results for pages not there yet, appended while there are fewer than max.
Adding(rs, found, max) ==
    LET new == InOrder(DOMAIN found \ Found(rs))
    IN  rs \o Upto([i \in DOMAIN new |-> found[new[i]]], max - Len(rs))
AddingAll(rs, found) == Adding(rs, found, Len(rs) + Cardinality(DOMAIN found))

-----------------------------------------------------------------------------
(* The structure index.                                                    *)

ChapterRange(s, d, c) == {p \in PagesOf(s, d) : p[2] \in c.from..c.to}
Matching(d) == {i \in DOMAIN Chapters[d] : Chapters[d][i].match > 0}
MatchingPages(s, d) == UNION {ChapterRange(s, d, Chapters[d][i]) : i \in Matching(d)}

\* The first of some words.  _tokenize_query splits at an underscore, and what is
\* left is short.
Tokens(is) == Range(Upto(Keep(Words, {i \in is : Words[i].kind # "underscored"}), Cfg.max_tokens))

\* Those a search looks for in a document, and those the rescue does.
Rare(d)    == {i \in DOMAIN Words : Words[i].long /\ d \in Words[i].rare}
Sought(d)  == Tokens(Rare(d))
Scanned(d) == Tokens(Rare(d) \cup {i \in DOMAIN Words : Words[i].kind = "mixed"})

\* find_pages_containing: a word on too many pages of a document says nothing,
\* nor does one whose pages cannot be listed.
Selective(s, missing, d, w) ==
    LET ps == w.on \cap PagesOf(s, d)
    IN  IF <<d, w>> \in missing \/ Cardinality(ps) > Cfg.max_named_pages THEN {} ELSE ps
NamedBy(s, missing, d, ws) == UNION {Selective(s, missing, d, w) : w \in ws}

\* Where a document is searched: in its matching chapters and on the pages
\* with a rare token; all over if there are none.
ChapterPages(s, d) == MatchingPages(s, d) \cup NamedBy(s, s.lost, d, Sought(d))

\* The same as page numbers for full-text search; a small scope is widened.
PageFilter(s, filter) ==
    LET ns == {p[2] : p \in UNION {ChapterPages(s, d) : d \in filter}}
    IN  IF Cardinality(ns) >= Cfg.min_scope THEN ns
        ELSE UNION {(n - Cfg.widen_radius)..(n + Cfg.widen_radius) : n \in ns}

-----------------------------------------------------------------------------
(* Full-text search.                                                       *)

\* search_fts_chunks: chunks of the whole tenant, within the page numbers.
Chunks(s, numbers) == {p \in s.words \cap Everywhere(s) : numbers = {} \/ p[2] \in numbers}

\* Mutant: what was found in other documents is not taken out.
SearchFtsUnfiltered(s, filter, numbers) == Chunks(s, numbers)

\* _search_fts: the filter is applied to what was found.
SearchFts(s, filter, numbers) ==
    {p \in Chunks(s, numbers) : filter = {} \/ p[1] \in filter}

\* _aggregate_chunks_to_pages
Aggregated(s, filter, numbers, limit) ==
    LET ps == InOrder(SearchFts(s, filter, numbers))
    IN  Upto(Ranked([i \in DOMAIN ps |-> Whole(ps[i], WordScore[ps[i]])]), limit)

-----------------------------------------------------------------------------
(* HierarchicalRetriever._retrieve_exact, stage by stage.                  *)

\* Chapters that match are evidence by themselves: they raise what was found
\* and add what was not, up to a number of characters.
ChapterScore(s, p) ==
    LET d == p[1]
    IN  400 + 200 * Max({Chapters[d][i].match : i \in {j \in Matching(d) : p \in ChapterRange(s, d, Chapters[d][j])}})
WithStructure(s, rs, filter, max) ==
    LET ps == UNION {MatchingPages(s, d) : d \in filter}
        located == UNION {ChapterPages(s, d) : d \in filter}
    IN  Adding(Boosted(Boosted(rs, [p \in located |-> 50]),
                       [p \in ps |-> (ChapterScore(s, p) * 3) \div 10]),
               [p \in ps |-> Result(p, ChapterScore(s, p), Cfg.structure_content)], 2 * max)

\* Pages located and still missing, while there is room.
WithLocated(s, rs, filter, max) ==
    Adding(rs, [p \in UNION {ChapterPages(s, d) : d \in filter} |-> Result(p, 35, Cfg.page_preview)], max)

\* The first pages of each document, a cover for less than the others.
WithLeadingPages(s, rs, filter) ==
    AddingAll(rs, [p \in {q \in Within(s, filter) : filter # {} /\ q[2] <= Cfg.leading_pages} |->
                      Result(p, IF p \in LowValue THEN 15 ELSE 35, Cfg.page_preview)])

\* Vector search fills up what is less than half of what was asked for, but
\* does not stand in for a search that found nothing.
WithVectors(s, rs, filter, max) ==
    IF rs = <<>> \/ Len(rs) >= max \div 2 THEN rs
    ELSE AddingAll(rs, [p \in s.near \cap Within(s, filter) |-> Whole(p, 50)])

\* What vectors confirm rises; what only they found comes with a low score.
WithConfirmed(s, rs, filter) ==
    IF rs = <<>> THEN rs
    ELSE AddingAll(Boosted(rs, [p \in s.close \cap Within(s, filter) |-> 1500]),
                   [p \in s.close \cap Within(s, filter) |-> Result(p, 650, Cfg.page_preview)])

\* How many results a retrieval may have in the end.
MaxTotal(rs, filter, max, quota) ==
    LET n == Cardinality(filter \cup DocsOf(rs))
    IN  IF filter # {} /\ n <= 3
        THEN n * Max({Min({(quota \div n) \div Cfg.avg_page, Cfg.max_pages}), Cfg.min_pages})
        ELSE max

\* Other pages of the chapters located, or of the documents.
Supplemented(s, rs, filter, max, quota) ==
    LET few(ps) == {p \in ps : Cardinality({q \in ps : Before(q, p)}) < Cfg.min_pages}
        of(d) == CASE filter = {} -> few(PagesOf(s, d) \ Found(rs))
                   [] filter # {} /\ ChapterPages(s, d) = {} -> PagesOf(s, d)
                   [] OTHER -> ChapterPages(s, d)
        docs == IF filter = {} THEN DocsOf(rs) ELSE filter
    IN  Adding(rs, [p \in UNION {of(d) : d \in docs} |-> Whole(p, 15)], MaxTotal(rs, filter, max, quota))

\* supplement_results of the sample pack: pages with its data, of the documents
\* found, or of all documents if none was.  What is there rises.
WithPack(s, rs) ==
    LET ps == {p \in PackPages \cap Everywhere(s) : rs = <<>> \/ p[1] \in DocsOf(rs)}
        raised == [i \in DOMAIN rs |-> IF rs[i].page \in ps THEN [rs[i] EXCEPT !.score = Max({@, 400})] ELSE rs[i]]
    IN  Ranked(AddingAll(raised, [p \in ps |-> Whole(p, 400)]))

Exact(s, filter, max, quota) ==
    At(Boosted(Aggregated(s, filter, PageFilter(s, filter), max), Rules.search), LAMBDA hits :
    At(WithLocated(s, WithStructure(s, hits, filter, max), filter, max), LAMBDA located :
    At(WithVectors(s, WithLeadingPages(s, located, filter), filter, max), LAMBDA filled :
    At(WithConfirmed(s, filled, filter), LAMBDA recalled :
    At(Ranked(Supplemented(s, recalled, filter, max, quota)), LAMBDA all :
       Upto(WithPack(s, Keep(all, {i \in DOMAIN all : filter = {} \/ all[i].page[1] \in filter})),
            Max({MaxTotal(recalled, filter, max, quota), max})))))))

-----------------------------------------------------------------------------
(* The executor.                                                           *)

\* Pages the code asks a search for.
MaxResults(filter, quota) ==
    LET n == Cardinality(filter)
    IN  IF n = 0 THEN Cfg.max_per_doc
        ELSE Min({Max({Min({(quota \div n) \div Cfg.avg_page, Cfg.max_pages}), Cfg.min_pages}),
                  Cfg.max_per_doc * n})

\* _fallback_to_fts: what is found is taken to be of the document asked for.
FallbackToFts(s, d) ==
    At(Aggregated(s, {d}, {}, Cfg.fallback_pages), LAMBDA rs :
       [i \in DOMAIN rs |-> [rs[i] EXCEPT !.score = @ + 500]])

\* The chapters read: those the model picked, those that match and the next
\* ones; an index that is none still brings in the one behind it.  A title that
\* occurs twice stands for its first range.
Missed(d, picks) ==
    LET better(i, j) == \/ Chapters[d][i].match > Chapters[d][j].match
                        \/ Chapters[d][i].match = Chapters[d][j].match /\ i < j
        first  == Upto(Sorted(Matching(d), better), Cfg.match_cap)
        missed == Keep(first, {i \in DOMAIN first : first[i] \notin picks})
    IN  IF Len(Chapters[d]) <= Cfg.full_merge THEN Range(missed) ELSE Range(Upto(missed, Cfg.merge_cap))
Selection(d, picks) ==
    LET idx == picks \cup Missed(d, picks)
    IN  (idx \cup {i + 1 : i \in idx}) \cap DOMAIN Chapters[d]
Segment(d, i) ==
    Chapters[d][Min({j \in DOMAIN Chapters[d] : Chapters[d][j].title = Chapters[d][i].title})]

\* Their pages, each once, the chapters ordered by their titles.
ChapterResults(s, d, picks) ==
    LET idx == Sorted(Selection(d, picks),
                 LAMBDA i, j : \/ Chapters[d][i].rank > Chapters[d][j].rank
                               \/ Chapters[d][i].rank = Chapters[d][j].rank /\ i < j)
    IN  Fold(LAMBDA rs, i : AddingAll(rs, [p \in ChapterRange(s, d, Segment(d, i)) |-> Whole(p, 1000)]),
             <<>>, idx)

\* First pages of chapters whose title or summary has a word of the question go
\* first, in the order of the chapters.
StartsFirst(rs, d) ==
    LET direct == Sorted({i \in Matching(d) : Chapters[d][i].match # 2}, <)
        on(i, a) == Without(Keep(rs, {j \in DOMAIN rs : rs[j].page = <<d, Chapters[d][i].from>>}), Found(a))
    IN  At(Fold(LAMBDA a, i : a \o on(i, a), <<>>, direct),
           LAMBDA front : front \o Without(rs, Found(front)))

\* Pages with a word that is on few of them: "blind tail truncation can never
\* drop the only page that literally mentions the queried parameter".
Pinned(rs) ==
    UNION {ps \in {Words[i].on \cap Found(rs) : i \in DOMAIN Words} :
              Cardinality(ps) <= Max({3, (3 * Len(rs)) \div 10})}

Hoisted(rs, ps) ==
    Keep(rs, {i \in DOMAIN rs : rs[i].page \in ps}) \o Without(rs, ps)

\* The pages up to the first that does not fit.
UpToQuota(rs, quota) ==
    LET before(i) == Fold(LAMBDA n, r : n + r.len, 0, SubSeq(rs, 1, i))
    IN  Upto(rs, Cardinality({i \in DOMAIN rs : before(i) <= quota}))

\* _chapter_retrieve: nothing is an answer too, and the caller searches.
ChapterRetrieve(s, d, picks, quota) ==
    IF Chapters[d] = <<>> \/ ChapterResults(s, d, picks) = <<>> THEN FallbackToFts(s, d)
    ELSE At(StartsFirst(ChapterResults(s, d, picks), d), LAMBDA rs :
            UpToQuota(Hoisted(rs, Pinned(rs)), quota))

\* _apply_rare_token_rescue.  Pages with the tokens scanned for, of the documents
\* asked for or else found: first those with more tokens, then those with a row
\* of a table, then those with the rarer tokens, and no more than a number of
\* them all together.
WordsOn(s, p) == {w \in Scanned(p[1]) : p \in Selective(s, s.unread, p[1], w)}
\* The last is the sum of 1/n, in parts that every n up to sixteen divides.
Strength(s, p) ==
    LET rarity(w) == 720720 \div Cardinality(Selective(s, s.unread, p[1], w))
    IN  <<Cardinality(WordsOn(s, p)), IF p \in Tables THEN 1 ELSE 0, MapThenSumSet(rarity, WordsOn(s, p))>>
Stronger(v, w) == \E i \in 1..3 : v[i] > w[i] /\ \A j \in 1..(i - 1) : v[j] = w[j]
Evidence(s, rs, filter) ==
    LET docs == IF filter = {} THEN DocsOf(rs) ELSE filter
        ps == UNION {NamedBy(s, s.unread, d, Scanned(d)) : d \in docs}
    IN  At([p \in ps |-> Strength(s, p)], LAMBDA of :
           Upto(Sorted(ps, LAMBDA p, q : Stronger(of[p], of[q]) \/ (of[p] = of[q] /\ Before(p, q))),
                Cfg.max_rescued))

\* Those there are raised and get an excerpt, the others are added as one.
Excerpted(r) == [r EXCEPT !.score = Max({@, 4500}), !.excerpt = TRUE,
                          !.len = IF r.excerpt THEN @ ELSE @ + Cfg.excerpt]

\* Mutant: pages the search did not find are left out.
RescueFoundOnly(s, rs, filter) ==
    [i \in DOMAIN rs |-> IF rs[i].page \in Range(Evidence(s, rs, filter)) THEN Excerpted(rs[i]) ELSE rs[i]]

Rescue(s, rs, filter) ==
    At(Range(Evidence(s, rs, filter)), LAMBDA ps :
       AddingAll([i \in DOMAIN rs |-> IF rs[i].page \in ps THEN Excerpted(rs[i]) ELSE rs[i]],
                 [p \in ps |-> [page |-> p, score |-> 4500 + 100 * Cardinality(WordsOn(s, p)),
                                len |-> Cfg.excerpt, excerpt |-> TRUE]]))

\* Each page once, with its best score.
Best(rs) ==
    LET at(page) == {j \in DOMAIN rs : rs[j].page = page}
        firsts == Sorted({i \in DOMAIN rs : i = Min(at(rs[i].page))}, <)
    IN  At(Ranked(rs), LAMBDA best :
           [i \in DOMAIN firsts |->
               best[Min({j \in DOMAIN best : best[j].page = rs[firsts[i]].page})]])

\* The search of _single_retrieve: several documents are searched one by one,
\* so that none keeps the others out.
Retrieve(s, filter, quota) ==
    IF Cardinality(filter) <= 1
    THEN Rescue(s, Exact(s, filter, MaxResults(filter, quota), quota), filter)
    ELSE LET each == Max({Cfg.per_doc_floor, MaxResults(filter, quota) \div Cardinality(filter)})
             one(d) == Exact(s, {d}, each, quota)
         IN  At(Sorted(filter, <), LAMBDA ds :
             At([i \in DOMAIN ds |-> one(ds[i])], LAMBDA rss : Ranked(Rescue(s, Ranked(Best(Joined(rss))), filter))))

\* _expand_section_pages: the merger is given the rest of the sections found, and
\* their neighbours within the parent, under the threshold of what is laid out.
WithSections(s, rs) ==
    LET beside(p, q) == \E c \in Range(Chapters[p[1]]) :
            /\ q[1] = p[1] /\ q[2] \in c.from..c.to
            /\ p[2] \in c.from..c.to \/ (p[2] \in c.around /\ p[2] \in {q[2] - 1, q[2] + 1})
    IN  AddingAll(rs, [p \in {r \in Everywhere(s) : Length[r] > 0 /\ \E q \in Found(rs) : beside(r, q)} |->
                          Whole(p, 10)])
=============================================================================
