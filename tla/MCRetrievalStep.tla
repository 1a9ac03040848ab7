--------------------------- MODULE MCRetrievalStep ---------------------------
EXTENDS RetrievalStep

\* Lengths in units of about a hundred characters.  A page takes up to half of
\* what its document may take, not a quarter, so that three pages fill it.
MCCfg ==
    [max_chars |-> 600, budget |-> 450, min_step |-> 50, min_single_step |-> 200,
     single_step_max |-> 800, multi_step_max |-> 800, sub_merge_cap |-> 300,
     min_per_doc |-> 200, header |-> 1, section |-> 1, marker |-> 1, heading |-> 1,
     min_room |-> 1, least_standard |-> 5, least_decomposed |-> 3,
     cap_top |-> 160, cap_high |-> 100, cap_medium |-> 90, cap_low |-> 80, cap_floor |-> 30,
     page_parts |-> 2, threshold |-> 15,
     max_named_pages |-> 2, max_rescued |-> 3, max_tokens |-> 2, excerpt |-> 20,
     min_scope |-> 2, widen_radius |-> 1, structure_content |-> 30, page_preview |-> 15,
     leading_pages |-> 1, avg_page |-> 12, max_pages |-> 80, min_pages |-> 2,
     max_per_doc |-> 3, per_doc_floor |-> 2, fallback_pages |-> 10,
     match_cap |-> 30, full_merge |-> 2, merge_cap |-> 5]

MCPageCount == <<3, 3, 1, 0>>
MCLength == [p \in {<<d, n>> : d \in 1..3, n \in 1..3} |->
               CASE p \in {<<1, 2>>, <<2, 1>>} -> 300
                 [] p \in {<<1, 1>>, <<1, 3>>} -> 180
                 [] p \in {<<2, 2>>, <<3, 1>>} -> 80
                 [] OTHER -> 8]
Chapter(title, from, to, match, rank) ==
    [title |-> title, from |-> from, to |-> to, match |-> match, rank |-> rank, around |-> 1..2]
\* The first document has a title twice, the second matching chapters, the third
\* no index.  The fourth could not be read.
MCChapters == <<<<Chapter("A", 1, 1, 0, 1), Chapter("B", 2, 2, 0, 2), Chapter("A", 3, 3, 0, 1)>>,
                <<Chapter("C", 1, 2, 3, 3), Chapter("D", 2, 3, 1, 1)>>,
                <<>>, <<>>>>
\* The identifier is on a page of each; two words are on the same pages of the
\* first, and one of them is rare only there.
Word(kind, rare, on) == [kind |-> kind, long |-> kind # "mixed", rare |-> rare, on |-> on]
MCWords == <<Word("mixed", {}, {<<1, 3>>, <<2, 3>>}), Word("plain", {1, 2}, {<<1, 1>>, <<1, 2>>, <<2, 1>>}),
             Word("plain", {1}, {<<1, 1>>, <<1, 2>>, <<2, 1>>})>>
MCTables == {<<1, 1>>, <<1, 2>>, <<2, 1>>}
MCRules == [search |-> [p \in {<<1, 2>>} |-> -100], merge |-> [p \in {<<2, 1>>} |-> -500]]
MCLowValue == {<<1, 1>>}
MCDescribed == {<<3, 1>>}
MCDense == {<<3, 1>>}
MCPackPages == {<<2, 3>>, <<3, 1>>}
MCWordScore == [p \in DOMAIN MCLength |-> IF p[2] = 1 THEN 120 ELSE 700]

Hits(words, near, close, lost, missing) ==
    [words |-> words, near |-> near, close |-> close, lost |-> lost, unread |-> missing]
MCSearches ==
    {Hits({}, {}, {}, {}, {<<2, MCWords[1]>>}), Hits({<<1, 2>>, <<2, 1>>}, {}, {}, {<<1, MCWords[2]>>}, {}),
     Hits(DOMAIN MCLength, {<<2, 3>>}, {<<2, 3>>}, {}, {}),
     Hits({<<3, 1>>}, {<<1, 2>>, <<2, 2>>}, {<<1, 2>>}, {}, {})}

Asked(tool, filters) == [tool |-> tool, filters |-> filters]
MCPlans ==
    {[strategy |-> "standard", steps |-> ss] : ss \in
        {<<Asked("single", <<{}>>)>>, <<Asked("single", <<{1}>>)>>, <<Asked("single", <<{1, 2, 3}>>), Asked("single", <<{1}>>)>>,
         <<Asked("filtered", <<{1, 2}>>)>>, <<Asked("single", <<{3, 4}>>)>>,
         <<Asked("single", <<{1}>>), Asked("single", <<{2}>>)>>,
         <<Asked("fulltext", <<{1, 2}>>), Asked("single", <<{}>>)>>}}
    \cup {[strategy |-> "decomposed", steps |-> ss] : ss \in
        {<<Asked("single", <<{1}, {2}>>)>>,
         <<Asked("single", <<{1, 2}>>), Asked("single", <<{2, 3}>>)>>}}
=============================================================================
