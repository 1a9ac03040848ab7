# OpenLAD: TLA+ models, checks and proofs

OpenLAD is a multi-tenant server that answers questions about documents. Clients upload files; a pipeline parses, indexes and
embeds them; questions are planned, retrieved and answered with calls to language models. The state is in SQLite databases
(one for the system, one per tenant), in files, and in the memory of one process that serves requests on an asyncio event
loop and does the slow work on threads.

This directory holds TLA+ modules of its stateful parts, the TLC configurations that check them on small instances, and TLAPS
proofs. Paths below are relative to the repository (`core/...`); every definition's lines are in `PROJECT.json` under `map`.

1. Inventory of the system
2. Modules, and how they correspond to the code
3. Runs: what is checked, bounds, fairness
4. Proofs
5. Disagreements between the code and what it says
6. What is not modelled, and why
7. Plan

## 1. Inventory

| component | state | operations | interacts with |
|---|---|---|---|
| Documents API, `core/api/routes/documents.py` | files on disk, `upload_tasks` rows | upload, progress, list, delete | starts an ingestion thread per upload; deletes rows on the event loop |
| Ingestion, `core/ingestion/builder.py` | `documents`, `doc_pages`, `doc_chunks`, `l2_chunks`; a lock per tenant | `ingest_document`: hash, parse, index pages, chunk, embed, final status | model client, tenant database, parser |
| Parser, `core/ingestion/parser.py`, `layout/`, `preprocessing/` | none that outlives a file | `_parse_pdf`: scan, render, classify, describe or transcribe; recovery; preprocessing of each page | PDF libraries, vision and OCR endpoints, ingestion |
| Chunking, `builder.py`, `parser.py` | none (an algorithm) | `_process_section_chunks`, `_simple_chunk`, `_chunk_by_structure` | called by ingestion |
| Tenant database, `core/db/tenant_db.py` | the tables above, chat sessions and messages | one transaction per method | everyone; a connection per thread |
| System database, `core/db/system_db.py` | tenants, users, keys, sessions, tasks, settings | one transaction per method; most swallow errors and return False | accounts, uploads |
| Accounts, `core/tenant/`, `routes/admin.py`, `routes/auth.py` | users, roles, API keys, login sessions, tenants and their directories | create, promote, demote, rotate, log in/out, delete | middleware, start-up code |
| Tenant middleware, `core/api/middleware/tenant.py` | a context variable per request | authenticate, choose the tenant | runs before every handler |
| Rate limiting, `core/api/middleware/rate_limit.py` | `_records`, a capped table of admission times | admit or refuse, on one or two keys | before the handlers |
| Queries and chat, `core/api/routes/query.py` | the global query lock, a progress queue per stream, chat tables | `/query`, `/query/stream`, sessions | engine on a worker thread, tenant database |
| Model client, `core/models/client.py` | backend fields, two shared mirrors, HTTP session | chat, JSON chat, image chat, embed, hot reload | model endpoints; every thread |
| Model settings, `core/services/model_config.py` | `model_*` settings rows | save, resolve | reloads the client |
| Engine, `core/retrieval/engine.py`, `agentic_retriever.py` | none that outlives a question | classify, agent, decompose, guard against empty retrieval | planner, executor, synthesizer |
| Planner and executor, `planner.py`, `executor.py` | none | coarse filter, entity coverage, fine plan, steps, budgets, rescues | model client, retriever |
| Retriever, `retriever.py`, `truncation.py` | none | chapter, full-text and vector search, merge of pages into a context | tenant database |
| Synthesizer, `synthesizer.py`, `spec_facts.py` | none | answer, fall-back, self-check, confidence, spec facts | model client |
| Structure rules, classification, fact extraction | none | regular expressions | ingestion |
| Plugins, configuration, diagnostics, front end, scripts | read-only or one-shot | | |

### Which behaviours are hard

* **Threads against the event loop.** An ingestion commits a dozen transactions under a tenant lock that DELETE does not take.
* **Restarts.** Nothing resumes at start-up: a task, a `pending_meta` row, half a tenant may be left behind.
* **Swallowed failures.** Many database methods catch everything and return False or 0, and callers do not look.
* **State read before a wait and used after it.** The tenant context, the chat history, the backend of a model call.
* **One shared object for all threads.** The model client and its `last_*` mirrors.
* **Limits.** The rate limiter's table, three attempts shared by several kinds of retry, chunk sizes, the budgets of a context,
  the token cap of a transcription, which rows a search takes before it filters them.
* **Fall-backs behind fall-backs.** A page is read by up to three renderers, a vision model, an OCR endpoint and local OCR; a
  question by an agent, sub-queries or a plan. Each hands on to the next, and what one has left behind the next one finds.
* **Sequences of legal calls.** Promotion, deletion and demotion; reactivation of a tenant; generated names.

What makes each component correct:

* ingestion: one document per content, `verified` only when complete, a row only with its file, a duplicate only of something
  settled, a task that ends;
* parsing: what stands on a page is of that page, what is lost is warned of;
* chunking: no text lost, no key twice, sections apart, sizes near the limit;
* embedding: each chunk once, counts that add up, a warning whenever a chunk is missing, an end;
* rate limiting: exactly the sliding window, in bounded memory;
* accounts: roles and tenants agree, dead keys stay dead, nobody in a tenant that is not there, nothing revived;
* queries: whole turns, an answer given is an answer stored, a stream without gaps, an end for every question;
* engine: no answer without a source, no entity and no fact lost on the way, two stages before an answer, one outcome;
* executor and retriever: each document asked for is heard, none other is, a cut is marked, the sources are the context;
* model client: each call learns its own outcome, repeats nothing in vain, uses a backend no older than its beginning.

## 2. Modules

| module | models | abstract specification |
|---|---|---|
| `IngestPipeline` | upload, thread, task row, tenant lock, rows, DELETE, restart | - |
| `DocumentReading` | a file from the PDF to its chunks; composes `PdfParsing` and `Chunker` with preprocessing | - |
| `PdfParsing` | scan, renderers, page classes, vision and OCR calls, recovery | - |
| `Chunker` | pages to chunks, as functions run by one deterministic action per page | - |
| `PageText` | the text of a page, shared by the three above | - |
| `Embedding` | batches, retries, two stores, fall-back to single rows, the warning | `EmbeddingContract` |
| `RateLimiter` | the middleware's table and its two login tracks | `SlidingWindow` |
| `Accounts` | tenants, users, keys, sessions, requests with their context, start-up | - |
| `QueryService` | lock, engine, streams, chat tables | - |
| `AnswerEngine` | one question through both paths of the engine | `EngineContract` |
| `RetrievalStep` | the steps of a plan, from documents to context and sources | - |
| `PageSearch`, `ContextMerge` | the searches and the merge, as operators `RetrievalStep` is built from | - |
| `ModelClient` | chat calls of all kinds, hot swap of the backend | - |
| `Folding` | folds that TLC evaluates once; a filter and a sort made of them | |
| `MC*` | constants of the runs | |
| `*_proofs` | theorems about the module of that name; `Services_proofs` about `RateLimiter` and `ModelClient`, the two objects that all requests share | |

They compose along the code's calls. `IngestPipeline` treats reading and embedding as a thread that writes rows and may collect a
warning; `DocumentReading` says what the rows are and when there is a warning; `Embedding` opens up the writing, and `EmbeddingContract`
is what `IngestPipeline` relies on (a document without a warning has all of its chunks). `ModelClient` is the chat side of the client
whose embedding side is the environment of `Embedding`. `QueryService` sees the engine only through the stages it reports, its end and its
failure: that is `EngineContract`, and `AnswerEngine` implements it. `AnswerEngine` lets a search find any part of what it
searches (`Execute`); `RetrievalStep` says what is found, and how much of it is in the context.

### IngestPipeline
`Accept` is the end of the upload handler; `Ingest(u)` is one step of u's thread from `_run_ingest` through `ingest_document`,
`build_index` and `_build_l2`, each step one database transaction or one acquire/release of `_ingest_locks`. `DeleteStep` is
`_hard_delete_documents` step by step (rows, vectors, files). `Raise` is an exception at any step, `Crash` the end of the process: the
lock and the threads are gone, rows and files stay. `raced` is a history variable: uploads whose document was deleted while its thread
was between the `pending_meta` row and the end.

A document is its tenant and `doc_id` with a status and the file its `original_path` names. A file is a model value with a hash and a
`doc_id`; they differ because `doc_id` comes from name, size, page count and first pages, the hash from the bytes.

### Embedding
One action per outcome of a call: `embed_batch` returns or fails in one of three kinds (`rejected` is not retried), the vector transaction and
the chunk transaction succeed or fail, and after a failure the rows are written one by one. `store_l2_chunk` catches its own failure;
`swallowed` records it. `Verdict` maps to `EmbeddingContract`: open, complete, warned.

### DocumentReading, PdfParsing, Chunker, PageText
A text is a sequence of lines; a line knows the page and line of the file it comes from and the stretch of characters it holds, so that "no
text is lost" and "on the right page" can be stated. What a model or the program adds is a line of page 0. Lengths are in the unit of
the limits (8 below a chunk size of 10).

A call to a model that fails returns an empty text without a finish reason, and does not raise (`client.py:478`): as the first call of a transcription
it leaves nothing, as a continuation it leaves what was received before, without the mark of being cut off. `fate` is a history variable of each page:
whether its transcription is whole, an untrue claim to be, or cut by such a call.

`PdfParsing` has an action per step of `_parse_pdf` that can fail on its own: `Open`, `Scan` (for candidates that need an image), `Classify` (which
renders runs of pages by poppler, or page by page by pdfium), `Reopen`, `ReadPage` with the vision call, a transcription with its
continuations (`StartOcr`, `ContinueOcr`, `OcrFails`, `EndOcr`), `PageFails`, `CloseFile`, and `Recover`, the MuPDF fall-back for a file that
fails as a whole. A model's answer is any value the code tells
apart. pdf2image is taken to return every page of a run or to raise.

`StorePages` of `DocumentReading` is what happens to the pages afterwards, each by itself: preprocessing (which text of a page is kept, by local
OCR and by failure), the clean-up of texts, the analysis that may raise, and the chunker's pages. `Chunker` has one deterministic action
per page, whose functions are the code's on sequences of lines. Blank lines, trailing blanks and long headings do not occur. The quality
of a text, what the watermark pass makes of a file and the section of a page are inputs.

### RateLimiter and SlidingWindow
`Dispatch` is one metered request; `LoginUser`, `LoginNameless` and `LoginIp` the two checks of a login, with no other request
between them (the middleware does not await there). Its initial state, steps and specification are `LimiterInit`, `LimiterNext` and `LimiterSpec`. Eviction is part of the check that triggers it. Readings of the clock increase
strictly, which `time.time()` does not promise: two equal readings, or a clock set back, are outside the model. `SlidingWindow` has no table: a key is
admitted if it was admitted fewer than `Limit` times in the window; a key may be forgotten only when more than `Cap` keys are live,
and then the idlest are. The limiter implements it with `window` the live part of each record.

### Accounts
A request is admitted by `Admit` (middleware) and handled later by `Handle`, with the context it got at admission. Operations are
sequences of transactions; `Crash` may cut them. Ids and keys are counters because the code's are random and never repeat; expiry is
an event. `Faults` names the transactions whose failure the code swallows.

### QueryService
`Arrive`, `Enter`, `Emit`, `Finish`, `Look`, `TakeEvent`, `KeepAlive`, `Leave` are the pieces of the handlers between their awaits and the engine's
callbacks. The lock is first come first served. `Persist` writes the session, the question and the answer without an await, but in
up to three transactions, any of which may fail. `messages` holds the messages of each session in the order of their ids.

### AnswerEngine and EngineContract
One action per step of `QueryEngine.query`: `Start`, `Traditional` or `Deep` (the verdict of the classifier), `Plan`, `Retrieve`; or
`OpenAgent`, `ChooseTargets`, `Ask`, `MergeReplies`, `AgentFails`, then `Decompose` and `SubQuery`; at the end `LookUpFacts`, `Synthesize`,
`Finish`. A question and a document are known by the model numbers ("entities") and report years ("epochs") in them. Planning keeps
the code's repairs exact (`EnsureEntityCoverage`, `ScopedByEpoch`, the merge of candidates into a step's filter, the fall-back plan) and leaves
the model's part open. The agent's targets, their groups and the titles its sources carry are the model's words (`Target`), as in `target_docs`. A
string of a filter may name several documents, so the cap of a filter cuts strings, not documents. Every pattern of the code that looks for model numbers is taken to recognise the same ones.

`EngineContract` has three actions, `Report`, `Answer` and `Raise`. `Contract` is the refinement mapping: `done` is answered, `raised` raised.

### RetrievalStep, PageSearch, ContextMerge
A step's filter is what its `doc_filter` resolves to as the quotas are worked out. Behind that the code resolves lists of ids again, each list
once (`memo` is `_doc_filter_cache`, keyed by the set of ids): `Start` is `_execute_step` up to the retrievals, with the narrowing of a sub-query
(`Narrowed`) and the resolution of `_fulltext_retrieve` and `_filtered_retrieve`; `ResolveJob` is the first line of `_single_retrieve`. A list whose
documents are deleted resolves to nothing, and a filter that is nothing is none: `target` is then {}, and `Search` searches the tenant.
`PickChapters` (or `PickNonsense`, a reply that is no list of numbers and ends the question) and `Search` find the pages, `MergeStep`
and `MergeSubQuery` lay them out; `Finish` assembles the context. `Delete` may come between any two.

`PageSearch` has the executor's chapter retrieval and its widening, the exact search with its stages (chapters, words, structure, vectors,
leading and supplementary pages), the pages an industry pack adds, the rescue, and the expansion of sections before the merge. The rescue ranks the
pages of all scanned words of all documents together (`Strength`: how many words, a row of a table, rarity) and cuts them to a number. A word has a
kind, the documents in whose index it is rare, and its pages; a search hits given pages, and may fail to list the pages with a word, before the
rescue (`lost`) or in it (`unread`). A score is kept where it decides an order or a cap. `ContextMerge` lays out pages under the caps per page,
per document and per context, with headers, markers and excerpts as pieces with lengths.

Simplified: all section rules of industry packs are one change of score per page, one for the search and one for the merge; a sub-query that is
narrowed to all documents of its step is taken as not narrowed; a quota is handed on where fulltext retrieval drops it to its default. Weights
within a stage are reduced to the order they are meant to give.

### ModelClient
`Begin` is the prompt guard, `CaptureModel`, `CaptureUrl`, `CaptureKey` the three reads of the backend, `Post` one turn of the attempt
loop with its answer, `Return` the end of the public method. `SaveSettings` and `AssignField` are `update_model_settings` and
`reload_model_client`. Saves do not overlap: the handler is `async` without an await. Two saves are told apart by their number. An answer
the code treats like an exception is `transient`.

## 3. Runs

`tlc -config X.cfg M` for each; `PROJECT.json` lists properties and, for each one, a mutation of the code that breaks it
(the operators commented as mutants; none of them is used by a specification).

| run | shows | bounds, and why they are enough |
|---|---|---|
| `ingest_faults` | one document per hash; verified is complete; a row has its file; orphan rows only of interrupted threads; a duplicate only of something settled; every task ends | two uploads of three files: a renamed copy and a `doc_id` collision; one fault of six kinds and one DELETE anywhere. Two threads are all that one lock and one row can set against each other; a third waits |
| `row_without_file`, `hollow_duplicate` | counterexamples, see 5 | as above |
| `document_reading` | keys, text, sections, sizes of chunks; pages in place; transcriptions complete or warned of | some ten thousand files of two and three pages: eleven layouts with lines, tables and a header at and past the limits, six kinds of visual page by three kinds of rendering, odd pages (garbled, coded, repeated, short, unreadable), and files that fail to open, to close or half-way. Two continuations let a transcription go on after one repeats, or fail |
| `embedding` | counts, vectors, an end, the contract | six chunks, five kept, batches of two: full batches, a last one of one, the cap |
| `rate_limiter` | bounded table; every decision is the window's | five keys over a table of two; a window of four instants lets three keys live, one more than the cap; eight instants let a window pass twice |
| `accounts` | admins in the admin tenant; dead keys stay dead; users reach their tenant; an active tenant has its data | two requests in progress, two names, three users, keys and tenants, soft and hard deletion; one fault of six kinds |
| `demoted_tenant` | counterexample, see 5 | one request |
| `query` | conversations of whole turns, answers stored, frames in order, every question ends | one question answered before and two new ones, one perhaps streamed; one failure, restart and deletion; room for both |
| `answer_engine` | grounded answers, entities covered, facts shown, the contract, an end | five questions (comparison, one entity, two kinds of conversation, a year) over three documents: one per entity and one that names an entity only in its file name; one of them perhaps unfinished; plans of two steps, two targets of the agent, one failing database call |
| `retrieval_step` | whose pages reach the context, who is heard, markers, sources, named pages | nine plans of one and two steps, standard and decomposed; four documents: with a doubled title, with matching chapters, with no index and with no page; four hits; limits such that three pages fill a document's share and the least shares of three documents exceed a step's part; three words, two of them scanned for, on more pages than a rescue takes; two deletions, so that all documents of a step may be gone |
| `model_client` | own outcome, fresh backend, useful retries | two calls, one told more than its text and one that writes the mirrors; three attempts as in the code; one save |

`CHECK_DEADLOCK FALSE` stands where the system may rest or stop: all uploads done, time at its bound, ids used up, a server that does not
start, a question answered. `ModelClient`, `DocumentReading` have an explicit resting step instead, so that deadlock is checked.

**Fairness.** `IngestPipeline`: a thread that can take a step does, and a DELETE once begun is carried on; uploads, requests and faults need
never come. Every model call has a timeout and every SQLite write a busy timeout, so a thread never sits in one for ever. Waiting for the tenant
lock is weakly fair only because at most the finite set of uploads contends. `Embedding`: the thread runs. `QueryService`: the event loop runs
what is ready, the lock is first come first served, engine calls have timeouts; nothing is assumed of clients, who may leave. No property
relies on strong fairness. `AnswerEngine`: some step is taken while one can be (a question runs on its own thread, every call it makes has a
timeout). `DocumentReading`, `RetrievalStep`, `RateLimiter`, `Accounts` and `ModelClient` claim no liveness and assume none.
`TaskSettles` is claimed up to a crash, because after one it is false (5).

**Exceptions inside properties.** Each is something the code decides to do, or a finding stated elsewhere:

* `VerifiedIsComplete` and `RowHasFile` except documents in `raced`: what a DELETE does to a running ingestion is `row_without_file`.
* `VectorsBehindRows` excepts vectors whose loss `store_l2_chunk` swallows.
* `ConversationWhole` excepts what is told after a turn was torn by a failed write.
* `PlacedUsersReachTenant` and `ActiveTenantHasData` are claimed while nothing failed; a demoted user is `demoted_tenant`.
* `TextKept` excepts text that the code leaves out on purpose: pages judged blank, replaced by what a model reads or too short, glyph codes,
  repeated lines, fragments, tables that are all header; and pages that pdfplumber cannot read.
* `PagesInPlace` excepts files recovered by MuPDF, which a warning tells of (`AddressKept` is false).
* `TranscriptionKept` is claimed for a model that does not call an incomplete answer complete, and while no continuation fails: that one is
  `MCDocumentReadingHollowPage`.
* `EntityCovered` excepts filters narrowed by a report year or cut at the cap.
* `NoForeignPages` excepts steps whose filter resolved to nothing because its documents were deleted (`MCRetrievalStepFilterHolds`), and the pages an
  industry pack adds when a document of the step was deleted on the way or has no pages.
* `DocumentsSpeak` is claimed where the documents a search may find have room for their least shares (`Fits`), and the last cut takes less than the
  share of one. With the defaults (`merger_min_chars_per_doc` 5000, 48000 of 60000 characters for the steps with a filter) one step may have nine
  documents; a filter may name thirty. Beyond it stands `MCRetrievalStepEachDocument`.
* `NamedPageFound` is claimed for steps whose pages with scanned words are no more than a rescue takes, counted over all documents of the
  step: a page that was left out because there were too many stays left out when a document is deleted later; and where the rescue could list
  them. Without the first condition it is `MCRetrievalStepPushedOut`. That the sources name no other page
  (`SourcesAreContext`) is claimed for contexts that are not marked as cut, that they name every page (`ContextIsCited`) for all.

## 4. Proofs

`tlapm M_proofs.tla` checks them. They hold for all values of the constants that satisfy the named assumptions
(`ConstantsAssumption`, `LimiterAssumption`, `EmbeddingAssumption`, `ClientAssumption`, `EngineAssumption`, `AccountsAssumption`,
`QueryAssumption`, `PdfAssumption`, `ChunkerAssumption`, `StepAssumption`): any number of uploads, tenants, users, pages, faults, callers, chunks, calls, attempts, questions,
documents, entities and plan steps. So the runs' one tenant, five keys, two calls or three documents are not what the results rest on.

* **IngestPipeline.** `Deduplication` from `DedupInv`: a thread in its critical section holds its tenant's lock (`LockInv`), after its
  look-up its hash is found under no `doc_id` but its own (`CheckedInv`, preserved because only the lock's holder adds rows), and a
  row sits at the key of the upload it names (`RowKeyInv`). Without `CheckedInv` the look-up and the insert, two transactions, would not connect.
  `FilesOutliveRows` from `FileInv`, which says what a DELETE between its transactions may still remove. `VerifiedComplete` from
  `BuildInv`: at each stage the rows written and still to write make up the document, unless a warning was collected.
  `OrphansExplained` from `TodoInv` (a thread writes only rows of its own document) and from what an unfinished thread can become.
  `DuplicatesAreSettled` from `PendingInv` (whoever a `pending_meta` row names has not saved its final row) and the lock: the thread that
  compares holds it, so the other one has raised, failed or died. Both assume that `None`, the absence of a row, is no row.
* **RateLimiter.** `LimiterRefinesWindow`: each check maps to one abstract decision. Pruning is invisible because the window is defined as
  the live part of a record; evicting dead keys is invisible; evicting live ones is `Forgettable`, which needs that the
  evicted are the idlest. `BoundedTable` from the same typing invariant.
* **Embedding.** Inductive invariant `TypeOK /\ Consecutive /\ InPlace /\ RowsOnce /\ CountsAddUp`. `KeepsContract` is the refinement: the last
  batch passed means that all chunks were dealt with, and no warning means that none failed, so the rows are all of them.
* **ModelClient.** Inductive invariant `TypeOK /\ AttemptsLeft /\ Swapping /\ Captured /\ Lightening`. `Swapping` relates the fields of the client to
  those a running reload has still to assign, so that each is the last save's or the one before; `Captured` says the same of the
  reads of a call; `Lightening` says that every later request of a call has lost the grammar or got shorter after a failure that asks for it.
  `OutcomesAreOwn` adds `Told`: what a caller is told is the outcome of its own last request, the only one that can have been served.

* **AnswerEngine.** `AnswersGrounded` needs no strengthening: only `Finish` answers, and its second guard refuses what found
  nothing. `FactsAreShown` from `Progress` (where a question is, and what is still empty there), `Filed` (an answer has its fields) and
  `FactsUsed`: facts put text before the synthesizer, so it answers, and neither guard applies. `EntitiesAreCovered`: `CoverageCovers` and
  `FinePlanCovers` are the lemmas about plan repair; the fall-back plan needs that the first document naming an entity exists (`FirstNumber`,
  by well-foundedness of the order on numbers) and that the deep path has no conversation. `EngineKeepsContract` is the refinement, with
  `Staged`, the number of stages reported at each point.

* **Accounts.** `AdminsStayInAdminTenant` is inductive with the types. `RevokedKeysStayDead` from `KeysApart` (no two accounts and no
  account and a session have one key, and every key in use was given out) and `RevokedGone` (a revoked key was given out and nobody has
  it): `KeySteps` says that a step gives out no key or the next one, once. It assumes that the deletion of sessions does not fail
  unnoticed; where it does, `MCAccountsSessions` is the counterexample. `PlacedUsersReach` from `AdminTenantInv` (the administrators' tenant
  is active, or there is nobody yet) and `ServedInv` (only a running server has requests). It assumes that no DELETE names the administrators' tenant,
  as in the run; the code lets one do so, and `MCAccountsLocked` shows what follows. `ActiveTenantsHaveData` is inductive with the types.
* **QueryService.** `ConversationsAreWhole` from `AskedInv` (only questions that were asked are spoken of, so a new one cannot be
  answered before), `PairedInv` (until a write fails between question and answer, sessions alternate) and `HistoryInv` (a history is an end of
  such a text, of the right session). `QueryAssumption` makes the limit of a history even, as `CHAT_HISTORY_LOAD_LIMIT` is: an odd one would
  begin with an answer. `AnswersAreStored` from `StoredInv`: who is given an answer is done, and who is done has
  its turn in the session; later turns only follow it. `FramesStayInOrder` from `FrameInv`: up to its last frame, what a stream has sent and then
  what is in its queue are the stages reported (`InTransit`), and the last frame follows when the queue is empty and the task done.
* **DocumentReading.** All five theorems are about `Spec`, with `PdfAssumption` (the lines of a page's text layer and of its image are of that
  page, and end no earlier than they begin) and `ChunkerAssumption` (the limits are numbers; sizes are positive).
  + `PagesStayInPlace` from `PlaceInv`: an image is of the page it stands for (`ImageInv`), what is transcribed is of the page the
    extraction is at (`OcrInv`), and the lines of a page are of the page of the file it is read from, whose number and image are its own
    unless MuPDF has numbered the pages (`TextInv`). `ImageIsOfItsPage` is the lemma about rendering: every wanted page is in one run
    (`InARun`, by least and greatest elements), and in a run, alone or by the second renderer its image is its own. `CleanedOf` and
    `AnswersOf` say that the clean-up and the continuation add nothing of another page.
  + `KeysStayUnique` and `SectionsStayApart` from `ChunkInv`: the pages the chunker has collected come before the next one and are of the
    current section or before the first (`BufferInv`); no page that has a chunk is collected or met again, and the chunks of one group
    have different indices (`ItemInv`, `Apart`, kept by `Joined`). Every operator that splits or merges a text (`ByStructureOf`,
    `SimpleOf`, `ProcessSectionOf` and the lemmas before them) returns lines of the pages it is given. These operators are folds, written as
    recursive functions (`Folding`): `Recursion` shows that such a function exists, `Reaches` that what each step keeps holds at the end;
    both are an induction over numbers by a least counterexample (`UpTo`).
  + `TranscriptionsKept` from `HeardInv`: what has been transcribed holds the first lines of the page, as many as it has of it (`Hears`,
    `HearsMore`), an answer that only repeats adds nothing (`RepeatsIts`), so that an honest transcription that is not cut off has all of them; and
    a clean-up that does not shorten a text leaves it as it is (`CleanedOrShorter`, from sums over its lines), so that what it takes away
    is warned of. Without the models' classes no page is an IMAGE for another reason (`ClassInv`). A continuation that failed leaves the reason `none` with
    a text, which is what `Fate` calls cut and the property excepts: `MCDocumentReadingHollowPage` is that case.
  + `ChunksStayWithinBounds` (`ChunksFit`) from `StoutInv`: every line on its way into a chunk ends no earlier than it begins, but for the stub that the
    clean-up may leave of a run of periods, which is no table row and at most one character short (`Stout`); so the length of a text never falls as lines
    are added (`Weight`). What is too large is split by structure first (`builder.py:2008`) and at line boundaries only if that gives a single piece, so what is
    to be shown is that the pieces of the first splitting are such single pieces: `ByStructureSettles`, splitting by structure what was
    split by structure changes nothing. Its invariant, `Sound`, says of the pass over the blocks that each finished chunk is `Settled`, and that what is
    collected would be collected with the same size by the pass over it alone (`Same`). It is kept when a block is collected (`CollectStep`), when a large
    table is split, as each part has the same header and rows that need no further split (`LargeStep`, `SubTablesStay`), and when a long line is cut, as every
    piece but the last fills a chunk (`LongStep`, `SpreadSound`). `BlocksOfBoth` relates the blocks of a text to those of its beginning. Splitting at line
    boundaries exceeds the limit by an overlap at most (`OnLineBoundariesFit`), so each chunk before the last splitting is of that size or `Settled`
    (`SimpleCuts`), and after it within the bounds (`SplitFits`); small chunks are merged only within the limit (`MergeSmallFits`). `RunMore` turns
    these folds into statements about a sequence and the sequence with one element more, and `ByPrefixes` goes through a sequence that way.

* **RetrievalStep.** `StepAssumption` says that documents are finitely many with finitely many chapters, that a plan has steps and a step has
  sub-queries, and that limits and lengths are natural numbers, three of the limits positive; it says nothing of their proportions, nor of scores.
  The first lemmas follow the pages alone, through sorts that keep what they sort (`SortedByOf`), filters (`KeepOf`), folds and cuts. A stage of the
  search adds pages of `Within`, those it is asked for, and loses none it was given; since each document that is there brings its first page
  (`LeadingIn`), something was found by the time the industry pack is asked, and then it adds only pages of the documents found (`PackIn`).
  + The invariant `IInv` follows the filters as they are resolved again. `MemoIs`: what a list of ids was resolved to is part of it, and has all of it
    that is still there, whatever was deleted since (`ResolvedIs`). `JobsAre` and `TargetIs`: a retrieval still to do or under way is for the documents
    asked for, or for one of them where they are taken one by one, or for none if the filter is `Lost`, its documents deleted; `StartKeeps` and
    `ResolveJobKeeps` are the steps. A search with a lost filter may find anything: `Allowed` says nothing then, and a deletion can only lose a filter.
  + `PagesOfTheFilter` (`NoForeignPages`) and `ContextHasItsSources` (`ContextIsCited`): what was found for a step
    is `Allowed` for its documents, now and after any deletion (`ResultsAllowed`), and so is each text that was merged, whose pages are
    cited (`PartsAllowed`). `LayingIs` says that the sections the merger adds are of documents found, `MergeLays` that it cites what it lays,
    `CutText`, `MarkedText` and `JoinedTexts` that no cut, marker or join brings in a page.
  + `NamedPagesAreFound` (`NamedPageFound`) from `NamedSoFar`: documents that no retrieval is still to do for had their named pages found. A retrieval
    for several documents, or for the whole tenant, ranks their pages in one list; as they are no more than a rescue takes over all documents
    asked for (`Few`), the cut to that number leaves them all. The stages before the rescue are not needed for it, and may fail to list pages (`lost`). Whether the words scanned for are the identifiers of a question is not part of it: names with an underscore are not
    (`retriever.py:372`), and with such a word `IdentifiersArePresent` is false for that reason alone.
  + `CutsAreMarked` (`CutIsMarked`) and `SourcesAreTheContext` (`SourcesAreContext`) follow the characters. The merger does not count a page it lays in
    part, so its text may be longer than its count; `Counted` is the invariant of its folds: what is counted fits, a text is as long as that or has a
    marker that ends within the limit (`MarkedWithin`), and every page cited is in it. A page laid in part keeps a first character, as `min_room` is
    not negative, and its marker ends within the limit, as room was left for it (`AddPageLays`). `CutText` says that a cut keeps the pieces that end
    within it, so that the second cut, to the quota of the step, takes no marker that the first one left; `QuotasAre` that quotas are natural numbers.
    Over the steps the invariant is `Accounted`, which TLC checked first, also with random limits: a cut is marked in some part, without a cut the parts
    hold every page cited (`CutsKept`), and steps are skipped only where the parts hold `max_chars` or more (`SkipsKept`). `PartInStep`, `JoinedSizes` and
    `JoinedLonger` carry this through the joining of the parts to the context.
    `CutsAreMarked` assumes that the budget of the context is less than `max_chars` (45000 and 60000 in `config.py`). The environment may set
    `max_chars` alone (`OPENLAD_MAX_CHARS`, `executor.py:43`); at or below the budget, parts that fill it to the character leave out the steps
    behind them without a mark. `SourcesAreTheContext` needs no such assumption.

What stays with TLC:

* all liveness (`TaskSettles`, `Finishes`, `EveryQuestionEnds`, `Ends`), which is out of the prover's reach;
* of `DocumentReading`, `TextKept`: it needs the characters that every split, overlap and merge leaves of a line, and holds for limits in
  proportion (with `MaxSize` below `MinPiece` every piece of a long page would be dropped), not for all;
* of `RetrievalStep`, `DocumentsSpeak`: besides `Fits` it needs proportions of the other limits in `Cfg` (that a header, a section line and some
  of a page fit into a least share, and a last cut into the least a part keeps).

## 5. Disagreements between the code and what it says

Three are runs that end in a counterexample:

* `row_without_file`: `_hard_delete_documents` (`tenant_db.py:417`) orders its steps so that there is never a row without its file, but does
  not take the ingestion lock. A DELETE between `pending_meta` and the final save removes rows and file; the final upsert brings the row back.
* `hollow_duplicate`: `ingest_document` (`builder.py:179`) answers "already imported" to any row with the hash, also to one that a crash left at
  `pending_meta`. The file can then not be indexed by uploading it again.
* `demoted_tenant`: `update_user` (`admin.py:349`) moves a demoted account to `u{username}` without creating that tenant; the account can
  never authenticate again.

The others have a configuration to run by hand (`tlc -config <configuration>.cfg MC<module>`); each ends in a counterexample.

| configuration | property | what is said, and what happens |
|---|---|---|
| `MCDocumentReadingHollowPage` | `NoHollowPage` | `parser.py:1231` "hollow pages never ship silently": when the call to continue a cut-off transcription fails, `ChatResult("")` replaces the reason "length" (`parser.py:1317`), and no warning is given |
| `MCAnswerEngineOneDocument` | `AgentCovers` | `engine.py:135` "verify it covers all entities in the query": the titles compared are the model's (`agentic_retriever.py:518`), so one document under a title with both entities passes |
| `MCRetrievalStepFilterHolds` | `FilterHolds` | `executor.py:92` "One request cannot see the document set change": ids are resolved again under a key of their own, those of deleted documents to nothing, and the tenant is searched (`executor.py:692`, `759`) |
| `MCRetrievalStepEachDocument` | `EachDocumentSpeaks` | `executor.py:170`: cuts must not "silently drop an entire document in multi-document comparisons"; once the least shares exceed the limit, the merger stops before the last documents (`retriever.py:1578`) |
| `MCRetrievalStepPushedOut` | `IdentifiersArePresent` | `executor.py:531` "Guarantee pages containing rare query identifiers are present": the pages of all scanned words are ranked together and cut to twelve (`executor.py:645`) |
| `MCIngestStuckTask` | `TaskSettlesAnyhow` | `documents.py:25` persists tasks so that progress survives a restart; it does, and then stays at `processing` for ever |
| `MCAccountsSessions` | `RevokedStaysDead` | `auth.py:193`: a session survives a rotation when its deletion fails unnoticed |
| `MCAccountsAborted` | `NeverAborts` | `admin.py:4`, `main.py:84`: once the built-in admin was demoted, a restart refuses to start |
| `MCAccountsLocked` | `StartedIsAdministrable` | `main.py:52`: it does start when the admin tenant is deleted, and nobody can administer it |
| `MCAccountsNames` | `GeneratedNameIsFree` | `admin.py:167`: the generated name repeats from the second call on |

These are false with the constants of a run; put them in place of its properties.

| run's configuration | property | what is said, and what happens |
|---|---|---|
| `MCIngestFaults` | `NoStaleVectors` | `builder.py:635` "Clean up old data" leaves the vectors of replaced pages |
| `MCIngestFaults` | `QuickstartStatus` | `docs/api-quickstart.md:31` waits for a document status "completed", which documents never get |
| `MCEmbedding` | `NoVectorLostSilently` | a vector that `store_l2_chunk` could not write is lost without a warning |
| `MCAccounts` | `NothingEverToRevive` | `tenant_manager.py:89`: users of a deleted tenant survive when the cascade fails, and are revived with it |
| `MCAccounts` | `RotationSetsExpiry` (a `PROPERTY`) | `auth.py:190`: rotating a key to "never expires" keeps the old expiry (`system_db.py:360`) |
| `MCQueryService` | `MessagesHaveSession` | `tenant_db.py:243` "ON DELETE CASCADE", but foreign keys are never switched on |
| `MCQueryService` | `HistoryIsCurrent` (a `PROPERTY`) | `query.py:67`: the history is read before the wait for the lock |
| `MCQueryService` | `DeliveredAtOnce` | `query.py:102`: a finished stream may sleep until its keep-alive timeout of 15 s |
| `MCAnswerEngine` | `HighIsReviewed` | `synthesizer.py`: "True (reviewed, answer stands)" also for "not mentioned", which is not reviewed |
| `MCAnswerEngine` | `NoForeignFacts` | `spec_facts.py`: an unknown entity "injects NOTHING"; it lifts the scoping instead |
| `MCRetrievalStep` | `EveryCutIsMarked` | `truncation.py`: the marker "is written on every truncation", but not on an excerpt or a preview |
| `MCDocumentReading` | `HardCap` | `config.py:478` "any single chunk exceeding this will be split": tables and overlaps may exceed it |
| `MCDocumentReading` | `OwnSectionOnly` | `builder.py:2070`: pages before the first section are chunked with it |
| `MCDocumentReading` | `NothingLostSilently` | a page that a model or its image declares blank, or that cannot be read, loses its text without a warning |
| `MCDocumentReading` | `AddressKept` | the MuPDF fall-back leaves out empty pages and numbers the rest anew |
| `MCModelClient` | `OneBackend` | `model_config.py:123` "query serialization lock ... makes attr swaps safe": the save does not take it, nor do ingestion threads |
| `MCModelClient` | `GrammarIsNotFatal` | `client.py:394`: "retried without the grammar rather than losing the call", except on the last attempt |

Noticed while reading, without a configuration: the embedding path counts 429 and 408 as rejections of the payload and does not retry them,
the chat path does; chunks beyond `max_chunks_per_doc` are dropped without a warning; a large table that is all header is dropped when other text
stands next to it; `README.md:41` says Python 3.10, where the `TimeoutError` that `query.py:107` catches is not asyncio's.

## 6. Not modelled, and why

* Image correction, OCR quality scores, layout geometry, the section tree, classification and fact extraction: numeric and textual
  heuristics over external libraries. What they decide is an input of `PdfParsing`, `DocumentReading`, `Chunker` and `PageSearch`.
* Office, image, HTML and text readers: one call each of an external library, without state.
* Scoring weights, prompts, formatting and logging; the router's choice of a prompt and the trace of an answer.
* SQL ranking, schema migration, the front end, one-shot scripts, diagnostics and health routes: no protocol.
* Within modelled components: the choice of the OCR endpoint (`ModelClient`), other users and ownership checks (`QueryService`), quotas,
  e-mail and passwords (`Accounts`), checks before an upload is accepted (`IngestPipeline`). `PROJECT.json` says so per component.

## 7. Plan

Built: the modules of section 2. In order of what they add:

1. Proofs: which proportions of `Cfg`, besides `Fits`, make `DocumentsSpeak` hold, and which of the chunker's limits `TextKept`.
2. `UploadRequest`: the checks and the write of an upload (`documents.py:149-211`): quota against concurrent uploads, the partial file of a
   failed write; composed with `IngestPipeline`, whose `Accept` becomes its last step.
3. `StructureIndex`: the section tree (`builder.py:1073-1775`) as functions: every page covered once, in order.
