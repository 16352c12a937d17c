# A TLA+ development of RiskPilot

RiskPilot answers questions about cross-border commerce risk from a user's own
knowledge base and conversation. Two programs do the work:

* the **control plane** (Go, `services/control-plane`) owns the public API, the
  sessions and every piece of durable business state in one SQLite database:
  tasks, messages, runs, attempts, events, account memories, the catalogue of
  documents, jobs, feedback;
* the **agent runtime** (Python, `services/agent-runtime`) executes one attempt
  of a run when told to, streams events back and ends with a *result proposal*.
  It owns the indexes (vectors, evidence, parse artifacts) and the graph's
  checkpoints.

A **run** is one question asked in a task. It lives through numbered
**attempts**: a run that was interrupted may be resumed, which starts the next
attempt. The runtime only ever proposes; the control plane decides in a
transaction what becomes part of the conversation. That protocol between the
HTTP handlers, the store and the runtime is the core of the system and what
these modules are about first.

Paths in this file are relative to the repository.

## 1. Inventory

The components as the code has them. "CP" is `services/control-plane/internal`,
"AR" is `services/agent-runtime`.

### Run store (`CP/infra/control_store.go`, `CP/infra/store.go`) - modelled
State: tables `tasks`, `messages`, `conversation_runs`, `run_attempt_events`,
`control_run_execution_snapshots`, `control_run_memory_snapshots`,
`control_idempotency`. Operations: `BeginRun`, `RunExecution`, `ApplyRunEvent`,
`InterruptRun`, `CancelRun`, `PrepareResume`, `DeleteTask` and queries.
Interaction: every handler calls it; transactions are immediate, so writers
exclude each other, but a handler spans several transactions.
Hard: steps of different handlers between two transactions of one; late events;
retries of a request; a task deleted under a running run.
Correct when: one active run per task; the event log of an attempt is
contiguous and ends once; a run that ended is final; an answer is appended once,
directly below its question, naming only context frozen before the question was
executed; an idempotency key stands for one run.

### Account memories (`CP/infra/control_store.go`, `CP/app/control_plane.go`) - modelled
State: `account_memories` with revision and expiry, the `memory_settings`
switch. Operations: create (with deduplication and quota), update and confirm
(optimistic revision), delete, clear, enable.
Interaction: `BeginRun` freezes the usable memories of the owner in the run.
Hard: memories that change between snapshot, resume and commit.
Correct when: a resumed attempt never mixes old and new memory contents.

### Run handlers (`CP/app/control_plane.go`, `CP/api/server.go`, `CP/infra/runtime_client.go`) - modelled
State: what a request goroutine knows (run, attempt, the context of its
client). Operations: `Start`, `replay`, `Resume`, `Cancel`, `accept`,
`emitApplied`, `finishRuntimeCall`. Interaction: begins with the store, streams
from the runtime, writes server-sent events to the browser.
Hard: client disconnects at any point, runtime failures, stale handlers, a
process restart with runs in flight.
Correct when: nothing is shown that is not committed; a stream that ends settles
its run; a handler settles its own attempt only.

### Agent runtime sessions (`AR/app/internal_runtime.py`, `AR/api/internal_v1/router.py`) - modelled
State: one session per run (attempt, running mark, event sequence). Operations:
execute and resume, cancel, the generator that streams an attempt, its closing,
the shutdown. Interaction: request threads, the generator and the graph thread
share a session's RunControl.
Hard: a cancel racing the completion, the deadline racing both, an attempt that
arrives while the generator before it is still cleaning up, a checkpoint read
outside the lock, a client that goes away before the stream was started.
Correct when: at most one attempt of a run streams; a stream is progress and
one ending; what it ends with is what its RunControl says.

### Run control (`AR/app/runtime_control.py`) - modelled
State: one record per attempt (status, cancel event, counts of calls, deadline).
Operations: `check`, `signal_cancel`, `before_model_call`, `before_tool_call`,
`call_model`, `call_tool`, `complete`, `interrupt`, `finish`. Interaction: the
parallel tool threads, the models they call in turn, the generator and the
requests use it at the same time under a lock that is released between reading
and acting.
Hard: two threads at the last call of a budget; a stop that is noticed by one
thread and reported by another.
Correct when: budgets hold; a stopped attempt proposes no answer; every wait ends.

### Agent graph (`AR/infra/agents/langchain_copilot.py`, `AR/infra/checkpoints/`) - partly modelled
State: LangGraph checkpoints in SQLite. Operations: execute, restore, the tool
loop, finalisation into a proposal. LangGraph itself is external.
Hard: a graph thread outlives the generator that waited for it and may still
store a checkpoint while the next attempt restores.
Correct when: a resume continues from the last checkpoint of its run, with the
calls it has used.

### Knowledge base (`CP/infra/control_store.go`, `CP/api/server.go`, `AR/app/document_processing.py`, `AR/infra/kb`, `AR/infra/evidence`, `AR/infra/storage`) - modelled
State: the catalogue row of a document (Go) and its chunks, evidence units and
parse artifact (Python), in four stores without a common transaction.
Operations: upload, add web page, list, delete; ingest and its clean-up.
Hard: each side may fail between two stores; the client may go away while the
runtime goes on; deletion during ingestion; re-upload under the same name.
Correct when: a "ready" document is in every store, a confirmed deletion leaves
nothing of it, an upload is settled.

### Chat files and jobs (`CP/infra/control_store.go`, `CP/api/server.go`) - not modelled
State: document versions, processing jobs with a status and a revision,
attachments of a task. No code in the repository works on a job: it is queued until
it is cancelled, and a retry finds no failed one.
Attachments of tasks are part of `ChatStream`.

### Login, sessions and accounts (`CP/app/auth.go`, `CP/infra/store.go`) - planned
State: `oauth_states`, accounts. Hard: a state presented twice, or after its
expiry. Correct when: a state is consumed at most once. Cookies and signatures
are cryptography and stay out.

### Service principals (`AR/infra/auth/service_principal.py`) - planned
State: the bounded cache of used nonces. Correct when: a signed request is
accepted at most once within its validity.

### Rate limit and capacity (`CP/api/server.go`) - planned
State: the semaphore of running chats, the request window of each client. Hard:
a slot not given back. Correct when: slots in use equal chats in flight.

### Evidence QA (`AR/app/use_cases/evidence_qa.py`, `AR/domain/qa.py`, `AR/infra/qa/structured.py`) - modelled
State: what a run has collected and drafted; the evidence index and the parse
artifacts, which others change meanwhile. Operations: collect, read the sources
again, draft claims with a presentation, ask for the presentation again, screen,
judge, assemble. What the models reply is arbitrary.
Hard: each step removes something (a source, an edge, a claim) and a later step
may refuse what is left; charts are repaired by several passes that use each
other's results.
Correct when: only judged claims with sources that are still there are shown;
what was found supported is not lost; an answer marked complete is complete; a
chart that is shown can be followed.

### Retrieval (`AR/retrieval/search`, `AR/infra/search/hybrid_retriever.py`) - partly modelled
State: the cache of rewritten questions, the BM25 index, the vector store.
Operations: rewrite, search by vector and by words, fuse, select, quote.
Interaction: searches run in parallel tool threads of several runs and share the
cache without a lock; documents come and go meanwhile.
Hard: an entry that is evicted between two statements; a cached list that another
search extends; an index that is not told of changes; limits shared by all hits.
Correct when: a search searches its own question; the ranking respects both
rankings; nothing invisible is returned, nor more than the limit.

### Ingestion and splitting (`AR/ingestion`, `AR/processing`, `AR/infra/web`) - splitter modelled
Parsing and network I/O; the splitter is a recursive algorithm with overlaps.
Correct when: no character of a page is lost, chunks are bounded and can be
found on their page again.

### Frontend (`frontend/chat.js`, `frontend/sse.js`, `frontend/app.js`) - partly modelled
State of the chat page: the conversation and the run it shows, the generation of
its streams and the controller of the one being read, the cancellation under
way, the label and the stop button, the files of the next question.
Operations: send a question, continue an interrupted run, stop, open a task,
start a conversation, log out, add and take away files; the callbacks of streams,
loads, cancellations, uploads and of the page's own start.
Interaction: JavaScript runs one piece at a time, but every `await` lets others
in between; the handlers of the control plane go on after a request was aborted.
Hard: callbacks of requests that were aborted or belong to a conversation that
was left; frames whose order decides what is shown.
Correct when: one stream is read at a time; the answers of runs are shown, and no
others; who leaves a conversation leaves its files behind.

### Feedback and task listing; observability, configuration, scripts; evaluations - not modelled
Single statements, output and offline measurements: no order of steps to get
wrong. (`message_feedback` keeps rows of deleted tasks; nothing reads them.)

## 2. Modules

    Conversation          what a conversation promises its reader (abstract)
         ^ implements
    MemoryStore           account memories of an owner
         ^ EXTENDS
    RunStore              tasks, messages, runs, events, snapshots, keys
         ^ EXTENDS
    ControlPlane          concurrent request handlers over the store
         ^ EXTENDS
    RunProperties         invariants, action properties, refinement, liveness
         ^ EXTENDS              ^ EXTENDS
    MCRuns                RunProofs
    (TLC instances)       (types, turns, logs, keys, answers)

    EventStream           what the runtime promises about a run's events (abstract)
         ^ implements
    RunControl            status, budgets and calls of an attempt's threads
         ^ EXTENDS
    AgentRuntime          sessions, generator, graph thread, checkpoints of a run
         ^ EXTENDS
    RuntimeProperties     invariants, action properties, refinement, liveness
         ^ EXTENDS              ^ EXTENDS
    MCRuntime             RuntimeProofs
    (TLC instances)       (types, frames, the theorems)

    Indexes               the runtime's document threads and stores, BM25 index
         ^ EXTENDS
    KnowledgeBase         catalogue and upload/deletion handlers over them
         ^ EXTENDS
    KnowledgeProperties   invariants, liveness
         ^ EXTENDS              ^ EXTENDS
    MCKnowledge           KnowledgeProofs
    (TLC instances)       (the theorems)

    Lists                 what a list has: listing, selecting, adding up
         ^ EXTENDS              ^ EXTENDS
    Flowchart             Ranking (below)       ListProofs (lemmas about Lists)
    (normalising, validating and cutting a chart)

    Splitter              how a page becomes chunks
    Flowchart
         ^ EXTENDS both
    EvidenceQA            a run from its tool calls to the shown answer
         ^ EXTENDS
    EvidenceProperties    invariants
         ^ EXTENDS              ^ EXTENDS
    MCEvidence            EvidenceProofs
    (TLC instances)       (the theorems; EXTENDS SplitterProofs, which has
                          the lemmas about Splitter and EXTENDS ListProofs)

    Ranking               over Lists: fusion, selection and what is quoted around a hit
         ^ EXTENDS
    Retrieval             concurrent searches, their cache, the word index
         ^ EXTENDS
    RetrievalProperties   invariants
         ^ EXTENDS              ^ EXTENDS
    MCRetrieval           RetrievalProofs
    (TLC instances)       (rankings, the theorems; EXTENDS ListProofs)

    ChatStream            requests of a page, their handlers' frames, the connection
         ^ EXTENDS
    ChatPage              the chat page and its composer
         ^ EXTENDS
    ChatProperties        invariants, action property
         ^ EXTENDS              ^ EXTENDS
    MCChat                ChatProofs
    (TLC instance)        (types, the theorems)

### State and actions

`MemoryStore` has one row per memory id; a row is `unissued`, `stored` or
`deleted`, so that ids are issued once. Time is not a number: a row's expiry is
`never`, `future` or `past`, and `ExpireMemory` is the clock passing it. The
other actions are the store's methods of the same name.

`RunStore` has the tables as functions from ids to rows. Each operator is one
transaction, its guard the conditions under which the code commits; a
transaction that answers with an error rolls back and is not an action.
`RunExecution` is the exception: the code reads the recent messages and then
inserts the snapshot without a transaction, and so does the model
(`RecentMessages`, then `InsertSnapshot`). `ON DELETE CASCADE` is part of
`DeleteTask`.

`ControlPlane` gives every HTTP request a program counter:

| stage | where the code is |
|---|---|
| `idle` | no request |
| `announce` | `Start`/`Resume` committed, first event not yet written |
| `replay` | the key was known: stored events are replayed |
| `snapshot`, `insert` | `RunExecution`, before its reads and before its insert |
| `stream` | `accept` waits for a line of the runtime |
| `deliver` | the line was applied, `emitApplied` has not written it |
| `finish`, `settle` | `finishRuntimeCall` before its read and before `InterruptRun` |

`Disconnect` cancels the request's context at any stage; the stages that use
that context then fail, the ones that use `context.WithoutCancel` go on.
`Restart` forgets all requests and keeps the store. In this composition the
runtime is an environment that may send any event of the attempt in any order
and may close the stream at any time, which includes everything the Python
program does.

`RunControl` has a row per attempt and a program counter per call thread. A call
takes four steps because the code takes and releases the lock four times:
`CheckBudget` and `Reserve` (`_reserve`), `Submit` (`_run_interruptibly`), then
`wait` until `Return`, `StopWaiting`, `CallTimesOut` or `CallFails`. `Checked` is
what `check()` leaves behind, `Passes` whether it returns. The deadline is a flag
(`late`) that the clock sets.

`AgentRuntime` is one run in the Python program; runs share nothing but the lock
of the table. An `execute` request is `Receive` (restore, outside the lock)
followed by `Accept` or `Refuse` (under it). The generator `_stream`, with the
part of `execute` in the agent that it iterates, has a stage:

| stage | where the generator is |
|---|---|
| `new` | made, not started: the first `next()` has not come |
| `first` | the first event was yielded |
| `graph` | `wait_for_graph_event`, the graph thread runs |
| `pause` | the graph paused, `interrupt()` not yet called |
| `verify` | `_stream_finalization`, its thread verifies the answer |
| `proposed` | the agent yielded its proposal, `check()` comes next |
| `usage` | the usage event was yielded |
| `complete` | in `complete()`, between its check and its assignment |
| `last` | the last event was yielded |
| `done`, `lost` | its `finally` has run; it was dropped before it started |

The graph thread goes `start` (load or store a checkpoint), then `model` and
`tools` in turn, each followed by `commit`, until `ended`. `StreamStops` leaves
it running: the code does not wait for it. `Disconnect` and `Drop` are the web
server closing the generator at a yield, `LoseUnstarted` before its first step.
`Shutdown` keeps the checkpoints only.

`Indexes` gives every request to process a document a thread (`process()` runs
in the web server's pool, so threads interleave between any two stores):

| stage | where the thread is |
|---|---|
| `save` | before the artifact is saved: checking, loading, parsing, embedding |
| `index` | chunking and embedding of the pages, then `replace_version_chunks` |
| `find`, `purge`, `purged` | `delete_by_source`: its `get`, its `delete`, its return |
| `add`, `added` | `collection.add`, and the count that is logged |
| `unindex`, `unsave` | evidence and artifact are removed |
| `end`, `lost` | answered; the process was restarted |

`JobFails` is an exception at any of them, with the clean-up of the `try` block
where there is one. Chunks in Chroma are found by source (owner and name), the
other two stores by version: that difference is the heart of the model. A search
rebuilds the BM25 index in two steps, `BuildReads` and `BuildEnds`, if it is empty
or dirty; writes do not mark it, as their `VectorStore` has no listener.

`KnowledgeBase` has the catalogue row of every document and a handler per
request: `call` and `wait` around the call to the runtime, then `result` or
`fail`. A deletion keeps in its command what it looked up. A client that left
makes the steps with its context fail; `RecordFailure` uses
`context.WithoutCancel`. A restart of the control plane leaves handlers `lost`,
one of the runtime leaves threads `lost` and the BM25 index empty and dirty.

`EvidenceQA` is one question in the Python program. Its documents are ingested
(`Ingest`, with the chunks `Splitter` makes of the pages) and deleted, index and
artifact in two steps, at any time. The run has a stage:

| stage | where the run is |
|---|---|
| `agent` | the graph calls tools; their citations are collected |
| `read` | `_verify_source_citations` reads the sources one by one |
| `generate` | the model drafts claims and a presentation, `_prepare_flowchart` follows |
| `repair` | only the presentation is asked for again |
| `screen` | claims without known sources are removed |
| `verify` | the judge, then `_validate_and_repair` and the answer |
| `done` | there is a proposal (`answer.end` says which) |
| `failed`, `stopped` | an exception; a cancel, a deadline, a budget |

`Splitter` and `Flowchart` are operators, one per function of the code.
`RecursiveSplit` calls itself once per separator, so that it is written as three levels
of `SplitAt` over a split by size, and the loops over parts are `Folded`. `Reach` is what
no set that is closed under the arrows leaves out. All can be reasoned about so.

`Retrieval` gives every search a stage; where the code reads and writes the
cache in separate statements, the model has separate steps:

| stage | where the search is |
|---|---|
| `look`, `touch`, `take` | `rewrite`: `in`, `move_to_end`, `[]` |
| `ask` | the model is asked for rewritings |
| `put`, `refresh`, `store` | `_put_cache`: `in`, `move_to_end` or `popitem`, the assignment |
| `own` | the own question is put at the head of the list, cached or not |
| `search` | the loop over that list, which others may extend |
| `fuse` | word search, fusion, selection |
| `quote` | sections and neighbours of each hit are read |

A cache entry names the search whose list it is, so that `Own` changes the list
of everybody who has it. `Ranking` has the functions between the two rankings and
the hits, and what is quoted around a hit.

`ChatStream` has the three parts of a streaming request that last for different
times: what the page reads (`client`), the frames on their way (`wire`) and the
handler (`server`: `asked`, `open`, then `finished` after a result or `closed`).
Handlers are those of `ControlPlane` as far as a page can tell: `emitApplied`
sends a result as two frames, a cancelled run sends nothing more, a stream that
ends interrupts its run. The files of a task (`attached`) are those of its last
question: `BeginRun` deletes them and stores what the request names, nothing if it
leaves the field out. `newest` is the run `LatestRun` finds.

`ChatPage` splits the functions of the page where they await: `loadTask` is
`LoadTask`, `ReadTask` (the server), `AttachmentsLoaded` and `TaskLoaded`;
`stopGeneration` is `StopGeneration`, `CancelRun` (the server) and `StopReturns`;
an upload is `PickFile` and `UploadEnds`. The listeners of `app.js` differ in what
they clear and when: a click on a task or on "new" clears the composer and switches
in one piece (`LoadTask`, `NewConversation`); `Logout` clears it and awaits the
server, `LoggedOut` switches afterwards and leaves an upload that began meanwhile
alone, and `LogoutFails` ends there; when the page has started, `RestoreTask` loads
the task in the URL without clearing anything, or `Started` finds none. A page may be
opened on a conversation that was begun earlier, with files of its own (`Opens`);
`view` counts the clicks that leave a conversation, so that the start of a page
and the answer to a logout belong to the view they happen in.
A stream that is aborted calls nobody
back, with one exception in `sse.js`: while the body of an error response is
being read, the rejection is caught by the inner `try`, and `onError` is called.

### Abstractions

* One owner. Every query of the code is scoped by owner, so owners do not meet.
* Ids of tasks, runs and memories are 128 random bits: never issued twice.
* A message is its run and role; payloads, titles, usage and wording are left
  out. Event types that only extend the log are one type, `progress`. A result
  proposal is named by the status it proposes.
* The context a proposal names contains messages and memories; a memory's id
  stands for the message it came from (`source_message_id`). A proposal with
  several citations is accepted exactly when one with each of them is, so
  proposals cite at most one item.
* `Replay` is one step: it reads, and writes only to its client.
* A request's hash is the task it asks for (`NoTask` for a new one).
* An error answer leaves the store as it was, so it is a disabled action; what
  the handler does about it is a step of `ControlPlane`.
* Budgets and the deadline of a run do not matter to the store (nothing checks
  them at the commit); they are in `RunControl`.
* The control plane posts each attempt to the runtime once (`runtime_client.go`
  does not retry), attempt 1 as an execution and the others as resumes.
* All progress before the usage event is one event.
* Token counts never stop anything and are left out. A retried web search
  reserves a tool call of its own (`AR/infra/web/searcher.py:71`) on the thread
  that already holds one; in the model a tool makes nested model calls only.
* A document has one version (the code makes both ids for an upload and never
  makes a second version), so the request that uploads it names it. Its chunks
  are added and deleted by one call each and are one element.
* One private owner and the public scope; administrators act on public documents.
* Chroma and SQLite are used as single atomic calls, as the code uses them.
* A text of the splitter is a sequence of letters and separators. Three of the
  twelve separators (the paragraph, the full stop, the blank) stand for all: one
  that is removed, one of several characters and the narrowest. Tables and code
  blocks within a page, which the splitter puts aside, are left out.
* Titles and the wording of claims are left out; of what a claim says, a chart
  looks at the phrases it contains, the first of them and whether it tells of a
  transition. `FoldOf` folds the width of characters, which one of two comparisons
  in the code does.
* The replies of the drafting model and of the judge are any members of the
  sets a scenario gives, including sources the server never issued.
* Distances and word scores are given numbers, the fusion's scores are fractions
  compared exactly (the code adds floats). Alike texts are given pairs. The cross
  encoder, the word search without BM25 and the embedder's cache are left out.
* Of the page, `body` is the part that one question or one resume button writes
  into. Messages of a loaded task, titles, thoughts, tools and citations are left
  out. A page sends no `Idempotency-Key`, so that `ChatStream` has no replays.
* Files of the chat get ready as the page's contract says
  (`docs/guides/evidence-qa.md:9`); see below for what the server does.
* External: LangGraph, as the code uses it (a node's result becomes the newest
  checkpoint of its thread some time after the node; `get_state` reads the
  newest; an attempt with input starts afresh, without input it continues), and
  Starlette (it closes the generator of a client that left, and drops one that
  was not started).

## 3. Runs

The runs of the store, the runtime, the catalogue, the searches and the page set
`CHECK_DEADLOCK FALSE`: ids run out, and nobody is obliged to send another
request, so the system may rest. Those of `EvidenceQA` check for deadlock: a run
always ends.

| run | instance | asks |
|---|---|---|
| `conversations` | 1 task, 2 runs, 2 keys, 2 requests, 2 attempts, 1 event | do concurrent requests, retries, cancels, resumes, disconnects and a deletion keep the store a plain conversation? |
| `attempts` | 1 run, 3 attempts of 2 events, 2 requests, 1 restart, fair | is the log of every attempt right and a run that ended final, with stale handlers about, and is a streamed run settled? |
| `resume_memory` | 1 memory up to revision 2, 1 run, 2 attempts, 2 requests | does a resume keep the frozen context while memories change? |
| `stale_settle` | 2 attempts, 2 requests | may a handler settle an attempt that is not its own? (violated) |
| `sessions` | 2 attempts of 1 thread, 2 model calls and 1 tool call, 1 restart, a graph that pauses | is a run's stream one stream at a time, and does its control agree with its ending? |
| `budgets` | 1 attempt of 2 threads, 2 model calls and 1 tool call, fair | do budgets hold, is a stopped attempt silent, does every stream end? |
| `documents` | 2 requests, 1 name in both scopes, 2 faults, 1 rebuild, fair | do catalogue, stores and index agree through errors, leaving clients, restarts and a concurrent deletion? |
| `stale_index` | 2 requests, 1 name, 1 rebuild, no faults | is the word index of the searches told of changes? (violated) |
| `evidence` | 3 scenarios: 97 pages that are cut up; careless models with tables and 2 sources; some 7000 charts | is what is shown verified, what is verified shown, and does an answer say what it dropped? |
| `lost_evidence` | the first scenario | can what was indexed be cited? (violated) |
| `retrieval` | 3 searches, 4 ways to put a question, a cache of 1, 7 chunks of 3 documents of 2 owners | does each search its own question, and is what it returns ranked, visible and bounded? |
| `chat` | 2 streams, 2 files, 2 conversations looked at, up to 3 of these, the start with a task and logouts together; a new page, or one on an interrupted run with a file | does the page keep streams, answers and files apart, whatever arrives late? |

What the passing properties say, and what a plausible bug breaks them:

* `OneActiveRun`: never two running or interrupted runs in a task.
* `AnswerBelowQuestion`: an answer exists exactly for runs that completed or
  failed, once, and directly below its question.
* `GroundedAnswer`: the context an answer names precedes its question, or is a
  memory frozen when the question was asked, over any number of resumes.
* `KeysNameTheirRun`, `RetryFindsRun`: a key is bound to the run of its own
  request and body, and every stored run is found by its key, so a retry never
  asks twice.
* `EventsContiguous`, `AttemptEndsOnce`: the log of every attempt is 1, 2, ...
  and stops at the event that ends it.
* `ShownIsCommitted`: a client sees an answer only after it was committed.
* `TerminalIsFinal`: nothing touches a run that has ended, except deletion.
* `ResumeKeepsContext`: a new attempt starts from an interrupted run, with an
  empty log, the messages frozen for the attempt before it, and its memories: those
  frozen when the question was asked, none more, fewer or newer, and only while each
  is still stored as it was then.
* `ImplementsConversations`: the store implements `Conversation`, where
  questions are asked one at a time and answered at most once.
* `StreamedRunSettles`: a running run whose stream is read stops running, unless
  the process is restarted.
* `WithinBudget`: parallel threads never reserve more calls than the budget.
* `SupersededIsSilent`: only the newest attempt of a run streams.
* `StatusMatchesLog`: a log that ends with a result or an interruption has a
  RunControl that says so and goes on saying so.
* `NoAnswerAfterStop`: an attempt that was cancelled, late or out of budget before
  its last check never answers.
* `StreamsEnd`: a stream that was started ends, even if calls hang.
* `ImplementsEventStream`: the sessions implement `EventStream`.
* `ReadyIsComplete`: the chunks of a document listed as ready are there, unless
  somebody asked to delete its source; its evidence and artifact are, unless a
  deletion names the document itself.
* `ConfirmedIsGone`: a confirmed deletion of a ready document leaves nothing of it.
* `UploadsSettle`: the row of an upload does not stay "processing", unless its
  client leaves or the control plane is restarted.
* `AnswerIsVerified`: every claim of an answer was judged supported, and its
  sources were collected by this run, of attached documents, with that text.
* `SupportedIsAnswered`: if the judge found a claim supported, the run that is
  done has an answer: no table or chart takes it along when it turns out invalid.
* `CompleteAnswerIsWhole`: an answer marked complete has all claims of the draft
  and a chart that is true to what the model drew (`TrueTo`). For a chart of the
  present version this means every node and every joined pair. A chart of the first
  version (no kinds, `Legacy`) loses parts without a mark: `structured.py:438-471`
  drops the edges to nodes whose claims tell of no transition, and the nodes left
  without an edge, and calls the answer complete. The property says that it loses
  nothing else; that it loses this much is a weakness of the code that no text of the
  repository rules out, so that there is no run that shows it as a violation.
* `ShownIsSound`: a chart that is shown has one root that reaches all, no cycle,
  conditions that its claims have, and rests on claims of the answer. The exits of
  a node other than the root all have a condition, no two the same. Of the root's
  exits only less is so: no two have the same target and condition. They may have no
  condition at all, because `domain/qa.py:298-302` asks a start node for no more than
  one exit, and a reader of the answer cannot tell them apart then. A table has
  every claim.
* `NothingIsLost`: every character of a page is in a chunk, what a chunk has are
  the characters of one stretch of its page, and it exceeds the limit by at most the
  overlap.
* `SearchesItsQuestion`: a search searches its question; what else it searches is the
  key of the question, another question with that key or a rewriting of it, and nothing
  that a question with another key left in the cache, whatever is evicted or
  stored between two of its statements.
* `FusionRespectsBoth`: no hit is behind one that both rankings find worse.
* `QuotedWithinBudget`: a section that is shortened still contains the place of its
  hit, and what is quoted exceeds its limit by less than one chunk. At that place
  stands the hit, or a chunk of another document of its owner that has the same name:
  their sections have one identifier (a hazard of section 1).
* `VisibleOnly`: no hit and nothing around one is of a document that may not be
  seen, also if two owners have documents of one name.
* `OneStream`: the page reads at most one stream, that of its current generation,
  and always knows how to abort it.
* `AnswerIsShown`: an answer is shown only of a run that has one, and once the
  stream of such a run was read to its end, the answer is there and no draft is.
* `FilesAreLeftBehind`: no question takes a file along that was picked before the
  last click that left a conversation (on a task, on "new", on logout), whatever
  upload ends and whatever load answers after that click. It makes no claim for the
  start of a page and the answer to a logout, where the code clears nothing (see the
  differences below). Broken by an upload that is attached when it is ready,
  and by files of a loaded conversation that count as chosen.

Why the bounds are enough: the conflicts are between two handlers and one
transaction of a third party (cancel, delete, memory edit), so two requests and
two runs show each of them; two attempts show a superseded handler and a third
shows a handler two attempts behind; two events per attempt show a gap, a
repetition and an event after the end. The counters (`MaxAttempts`,
`MaxEvents`, `MaxRevision`, `MaxRestarts`) only bound the length of behaviours.
Symmetry is used where only safety is checked.

In the runtime, what two attempts do to each other (`sessions`) needs a graph
thread that outlives its generator, not two call threads; what the threads of an
attempt do to each other (`budgets`) needs no second attempt. With two model calls
a graph can call the model, the tools and meet the limit; one tool call is the
limit two threads race for. `MaxMessages` is so large that no guard with it is
ever false before a budget ends the graph. `InterruptAfter` is the container's
option `agent_interrupt_after`, which the tests set; production leaves it empty,
and then an attempt is resumed only after a failure, a disconnect or a restart.

In the knowledge base, a conflict needs two requests on one name: two uploads,
an upload and its deletion, or a public and a private document. A fault is an
exception, a client that leaves or a restart; with two, one can hit the clean-up
after another. `CallFails`, a timeout, is always possible and is not counted.

In evidence QA the three scenarios need not meet: splitting, citing and drawing use
each other's results only through the set of sources and the set of claims.
Pages of two and three words of one to nine letters under a limit of 8 with an
overlap of 2 have parts that fit, that exceed it alone, that are merged and
that overlap, at every separator. Charts: all pairs of edges on three nodes with all
labels and claims, all sets of three to five edges on four nodes, and all forks with
two labelled exits, which have cycles, several roots, merges, lost components and
equal exits. A search needs another one for each conflict over the cache (two that
miss, one that hits while another evicts) and a third that extends a list in
use; with a cache of one entry each store evicts. `Alone` varies distances, word
scores and likeness over all orders of few chunks; sizes are chosen so that a section
fits, is shortened or gets nothing.

On the page, a late callback needs a stream, and another stream or conversation
after it; a late upload needs another file or conversation. Two streams can be two
questions, or a question and its continuation. `EarlierRuns` gives the page a
conversation with a file from before, so that three clicks (`MaxClicks`) are enough
to load it, leave it and ask elsewhere: files that are shown late, before or after the
click, are within the bounds, as the mutant that takes them for chosen shows. With
two views one conversation is left, by a click or a logout; the start of the page is
a change that no click makes. `MaxBuffered` bounds drafts that were not read yet:
one frame more than what one event sends is enough for a frame to be overtaken by a
click.

Fairness: `FairSpec` assumes that a handler goroutine keeps taking the steps
that wait for nobody (`Advance`), and that every stream ends (`StreamEnds`):
the HTTP client of the runtime has a timeout (`runtime_client.go`). No user is
obliged to cancel, resume, retry or disconnect, and no process is obliged to
restart. In the runtime, `FairSpec` has weak fairness of every generator, graph
thread and call thread by itself: each runs on a thread of its own, and every
wait of the code polls (`_wait_future`). It does not assume that a called model
or tool returns: `CallTimesOut` is always possible while waiting. In the knowledge
base only the handlers are fair, because their call has a timeout; a document's
thread may hang.

### Where code and documentation disagree

* `stale_settle` - `finishRuntimeCall` interrupts the attempt it has just
  re-read, not the one its request executed: a handler whose attempt was
  interrupted and resumed elsewhere interrupts the new attempt.
  `docs/architecture/overview.md:66` says a stale executor is refused,
  `docs/contracts/index.md:14` that late events cannot overwrite the current attempt.
* `stale_index` - the retriever's BM25 index listens to a `VectorStore` object
  through which nobody writes (`AR/app/factories.py:176` gives uploads and deletions
  another one), so that it is never marked dirty: once built, it keeps the chunks
  of deleted documents and lacks new ones until the process restarts.
  `AR/retrieval/search/retriever.py:76` says it is rebuilt when the store changes.
* `lost_evidence` - `_merge_small_chunks` joins a short chunk to the one before it
  with an empty line, whatever was between them on the page; the citation of such a
  chunk is then dropped, as its quote is not on the page.
  `AR/infra/evidence/chunker.py:15` says every chunk can be located on its page.

Seen while modelling, in the model or read in the code, without a run:

* The final commit checks a proposal against the frozen snapshot only;
  `docs/architecture/go-python-migration.md:65` lists that a referenced memory still
  exists, is enabled, unexpired and unchanged.
* Nothing settles the runs an earlier process left running;
  `docs/validation/phase3-runtime-control.md:39` says they converge at start.
  (That page predates the Go control plane; `docs/index.md` still links it.)
* A resume counts the messages of the checkpoint: nested calls, the
  verification's calls and calls of a node without a checkpoint are forgotten;
  `docs/index.md:43` says a resume goes on with the calls already used.
* `_reserve` and `finish` set the cancel event and the next `check()`
  reads it as a cancellation, so that the failure the agent proposes is never
  sent; `docs/index.md:44` lists the ends with their reasons.
* A deletion removes chunks by name and owner. If it is late and
  the name was deleted and uploaded again meanwhile, the new document loses its
  chunks while it is listed as ready; `docs/architecture/go-python-migration.md:80`
  says the runtime is given commands for a specified version.
* Regulatory and web citations are not read again (`AR/app/use_cases/evidence_qa.py:454`);
  `docs/architecture/go-python-migration.md:89` lists them with the parse artifacts.
* `AR/retrieval/search/retriever.py:421` keeps the text of a hit for the summary of
  its citation; the citation uses the text with its neighbours.
* Nothing in the repository works on the jobs of chat files: `chat_documents.status`
  is `queued` from the upload on (`CP/api/server.go:792`) and is never set to `ready`,
  so that the page polls until it gives up; `docs/guides/evidence-qa.md:9` says to
  upload and wait for `ready`.
* `loadTask` looks at no generation after its awaits (`frontend/chat.js:656`): of two
  loads that overlap, or a load and a question, both write messages, label and
  `_activeRunId`, and the stop button may cancel a run of the other conversation.
  `docs/validation/phase3-runtime-control.md:54` says that late events of an old run
  cannot write into a new conversation, which holds of streams (`OneStream`).
* A stream of a cancelled run ends without `run_status`. If the reply to the
  cancellation comes first, its draft stays on the page
  (`docs/validation/phase3-runtime-control.md:52` says cancelling removes it); if the
  stream ends first, the label says that the run failed (line 56 there: callbacks at
  the end of a stream do not override the final status).
* The `finally` of `stopGeneration` sets the label to "stopping" for whatever
  run is active by then, also one that nobody stopped.
* A question that is refused with an `error` frame leaves the label at "running"; the
  files that are still shown are not sent with the question that repeats it, as
  `submit` has reset `attachmentSelectionDirty` (`frontend/app.js:151`).
* The page leaves `attachment_doc_ids` out when the selection was not changed
  (`frontend/app.js:144`), and `docs/index.md:97` and
  `docs/validation/phase2-conversation.md:96` say that the server then goes on with
  the selection of the conversation. `BeginRun` deletes it in any case and inserts what
  was sent (`CP/infra/control_store.go:120-137`): the second question of a
  conversation has no files, and the page that is loaded afterwards shows none.
* What is picked while the page starts, or while a logout is under way, stays in the
  composer and goes with a question of the conversation that comes then: the load at
  the start clears nothing (`frontend/app.js:171-175`), and the new conversation after
  a logout empties the selection but lets an upload go on, as the generation was
  raised before the wait only (`frontend/app.js:102`).

## 4. Proofs

Every theorem holds for all sets, functions and bounds that satisfy the named
assumptions, which say no more than that bounds are natural numbers (the ones the
code divides by or counts from are positive), that the "no ..." values are not
members of the sets they stand beside, and that inputs have the shapes
the code gives them. TLC evaluates each on the instances of section 3.

| modules | theorem | property |
|---|---|---|
| `RunProofs` | `TypeCorrect` | `TypeOK` |
| | `OneRunPerTask` | `OneActiveRun` |
| | `TerminalRunsAreFinal` | `TerminalIsFinal` |
| | `RunsImplementConversations` | `ImplementsConversations` |
| | `LogsAreContiguous` | `EventsContiguous` |
| | `AttemptsEndOnce` | `AttemptEndsOnce` |
| | `KeysAreFaithful` | `KeysNameTheirRun` |
| | `RetriesFindTheirRun` | `RetryFindsRun` |
| | `ShownAnswersAreCommitted` | `ShownIsCommitted` |
| | `AnswersStandBelowQuestions` | `AnswerBelowQuestion` |
| | `AnswersAreGrounded` | `GroundedAnswer` |
| | `ResumesKeepContext` | `ResumeKeepsContext` |
| `RuntimeProofs` | `RuntimeTypeCorrect` | `TypeOK` |
| | `CallsStayWithinBudget` | `WithinBudget` |
| | `OneAttemptStreams` | `SupersededIsSilent` |
| | `EndingsAgree` | `StatusMatchesLog` |
| | `StoppedAttemptsStaySilent` | `NoAnswerAfterStop` |
| | `SessionsImplementEventStream` | `ImplementsEventStream` |
| `KnowledgeProofs` | `KnowledgeTypeCorrect` | `TypeOK` |
| | `ConfirmedDeletionsAreComplete` | `ConfirmedIsGone` |
| | `ReadyDocumentsAreComplete` | `ReadyIsComplete` |
| `EvidenceProofs` | `EvidenceTypeCorrect` | `TypeOK` |
| | `AnswersAreVerified` | `AnswerIsVerified` |
| | `SupportedClaimsAreAnswered` | `SupportedIsAnswered` |
| | `ShownPresentationsAreSound` | `ShownIsSound` |
| | `CompleteAnswersAreWhole` | `CompleteAnswerIsWhole` |
| | `IndexedPagesAreWhole` | `NothingIsLost` |
| `SplitterProofs` | `SplittingLosesNothing` | (of one page, for any text) |
| `ChatProofs` | `ChatTypeCorrect` | `TypeOK` |
| | `PageReadsOneStream` | `OneStream` |
| | `PageKeepsFilesApart` | `FilesAreLeftBehind` |
| | `AnswersAreShown` | `AnswerIsShown` |
| `RetrievalProofs` | `RetrievalTypeCorrect` | `TypeOK` |
| | `QuestionsAreSearched` | `SearchesItsQuestion` |
| | `HitsAreVisible` | `VisibleOnly` |
| | `FusionKeepsOrder` | `FusionRespectsBoth` |
| | `QuotationsKeepTheBudget` | `QuotedWithinBudget` |

### The control plane: turns

Assumed: `MemoryAssumption`, `RunStoreAssumption`, `ControlPlaneAssumption`.
`NextIsStoreStep` reduces the steps of all handlers to nine kinds
of step of the store, so that everything later is proved once per transaction.
`TypeOK` alone is not inductive: that `runs[r].task` can be used as an index of
`messages` and that a handler's run exists as a row needs `RowsLinked` (a stored
run refers to a stored task, a key to a stored run) and `RequestsLinked` (a
busy request has a run and an attempt). Their conjunction `TypeInv` is. From it
follow, as lemmas, the row each transaction leaves (`...Rows`) and what it does
to the set of active runs (`...Active`); `OneActiveRun` is inductive relative
to `TypeInv`. The refinement maps the active run of a task to the open turn;
it needs `OneActiveRun` (the mapping is a function) and `MessagesLinked` (a
message belongs to a run of that task that was issued, so a new question is
new). `BeginRun` maps to `Ask`, a result to `Reply`, `CancelRun` to `GiveUp`,
`DeleteTask` to `Remove`, every other step to a stutter.

### The control plane: logs, keys and answers

Each property needs its own strengthening, and all of them rest on `TypeInv`.

* `LogInv`. An event that comes next is appended after the last one only if no
  event of a later attempt is there and the current attempt has not ended. So
  `EventsOfRows` (events are of stored runs, and of no future attempt) and
  `EndedLogs` (a running run has no event that ends its current attempt; a result is
  the last event of the last attempt, and the row's status is that result) join
  `EventsContiguous`. Both properties follow from the three.
* `KeyRows`, `RequestBodies`. A retry is answered with the run of its key, so the
  keys must be told apart: the run a key names is stored and has the body of the
  entry, no two keys name one run, and a handler is at work on a run of its own
  body. `NoEntry` must not look like an entry, which `RunStoreAssumption`
  says.
* `DeliveryCommitted`. Between the commit of a result and the writing of it the
  handler stands in `deliver`; what it is about to write must be committed, and
  `CommittedStays` shows that no transaction takes that back except `DeleteTask`.
* `TranscriptInv`. An answer is appended to the end of a task, so that "directly
  below its question" needs `QuestionLast`: the question of an active run is the
  last message of its task. That is where `OneActiveRun` is used.
* `ContextInv`. Nobody compares an answer with the transcript when it is committed;
  it is compared with a snapshot that was copied from a snapshot.
  `SnapshotsCopied` says that every attempt has the memories of the first,
  `ReadBefore` that what was read for a snapshot stands above the question,
  `FrozenBefore` the same of what was inserted, and `CitesGrounded` of what was
  committed. The first two are needed for active runs only: `RunExecution` of a run
  that was cancelled meanwhile may read a later question, and does no harm.
  `ResumesKeepContext` is an action property and follows from the same invariant: what
  a resume copies is what was frozen first, since every copy before it was.

### The runtime

Assumed: `RunControlAssumption`, `AgentRuntimeAssumption`; any number of attempts, any
finite set of call threads, any budgets.
`TypeOK` is inductive together with `Controlled`
(what streams or runs has a RunControl, what is sent was proposed). Each action
has a lemma about its rows; `Elsewhere` says that a step of one attempt leaves
the others alone but for the cancellation of the one it supersedes, so that
every later invariant is proved per attempt. `WithinBudget` follows because
`_reserve` compares and counts under one lock, although its check came before.
`OneRunning` (the mark is on the current attempt only, and what streams is
marked) gives `SupersededIsSilent`. `LogOfStage` ties the stage of a generator to
what it has sent; `RestOfStage` says that no thread of an attempt checks any more
once it proposed or paused, which is why a later cancel cannot change the status:
together they give `StatusMatchesLog`. The refinement maps the generator of the
current attempt to the open stream; accepting is `Open`, a yield is `Send`,
leaving is `Close`, a step of any other thread is a stutter.

`NoAnswerAfterStop` speaks of two moments and is proved by an invariant of the time
between them. `Silenced(a)` says that the attempt has not answered, that it is
not in `complete`, and that it is `Barred` (cancelled, ended or late) as long as
it could still move. `AttemptStepFate` sorts the steps of an attempt by what they do
to its log and stage: the only one that leads into `complete` passes a check, which
`BarredStops` excludes, and no step lifts a bar. `AnswersLast` (an answer is the last
event) starts it: an attempt that has somewhere to go has not answered.

### The knowledge base

Assumed: `IndexesAssumption`. `BaseInv` is the type and, per request, where
its parts may be: who runs has a command (`Given`), what was answered is what the
command asked for (`Answered`), and a handler's row is the one it made (`Rowed`).

* `ConfirmedIsGone` is not true of any deletion: one that comes while the document is
  still processing is confirmed and finds nothing yet (a hazard of section 1). For
  a document that was seen ready, `SeenReady` says that its upload's thread has
  ended, and `Removed` follows the deletion from store to store: its chunks are among
  those it found, then gone, then its evidence, then its artifact. They stay gone,
  as no other thread writes for that document.
* `ReadyIsComplete` needs to know who else might remove something. `OnePerSource`
  says that a second document of one name is only uploaded after somebody asked to
  delete the first; `EvidenceStays` and `ChunksStay` say what a thread that has
  passed a store finds there, as long as no deletion of the document, or of its name,
  was asked for. The theorem is therefore about documents without a deletion;
  what a late deletion does to a new document of the same name is in section 3.

### Evidence QA

Assumed: `EvidenceAssumption` and those of its libraries. The invariant follows the run
through its stages: `Before` says that nothing is read, drafted, judged or answered
before its stage, `Collected` that the evidence is of this run, of attached
documents, and that what was read again stands on its page, `Drafted` that a judge
supports only claims that were screened, `Settled` that an answer has exactly the
supported claims with their sources, and exists if there are any. `Collected` has to
survive the other actor: a document may be deleted at any step, but a citation
keeps its quote and its page. That the replies of the models are arbitrary members of a
scenario's sets is all the proofs know of them.

`ShownIsSound` rests on what the last check of a presentation demands. `ShownValid` says
that what is shown is of a known kind and valid for the claims of its answer;
`KeptKind` and `KeptIsValid` carry it through the trimming, whatever that leaves. The
rest is about the check (`ValidIsSound`): a node marked `start` has no incoming edges
and reaches every node, and what is reached and is not that node has one
(`ReachedIsEntered`), so that there is one root. Of two edges that leave another node,
the kind of that node can only be `decision`, by counting (`ExitsApart`), and
the check of decisions tells them apart. The root is of the kind `start`, whose exits
are not checked; that no two edges are equal (`WellFormed`) is all there is to say of
them.

`CompleteAnswerIsWhole` is about a mark that is derived, not decided: a draft becomes
partial when some step on its chart drops an exit, an edge or a node, which the
model sees by the lengths of the lists before and after. That a list of the same
length is the same list has to be proved (`OnlyShorter`, `OnlyWhole`; `ExitsShorter`,
`PrunedShorter` for the steps), and that the steps that are not told, which
name kinds, give conditions and leave one of repeated edges (`FirstsKeys`), keep the
nodes and joined pairs (`KindsAlike`, `ConditionsAlike`, `DedupedAlike`). Together
they say that a shaped chart that is not partial is `Alike` what the model drew
(`ShapedWhole`). For a chart of the first version it is `WithEdgeClaims` that drops
edges and nodes, unmarked: `LegacyIsTrue` shows that every edge that moves stays,
with both its nodes, and `UpgradedAlike` that the kinds inferred afterwards change
neither names nor edges. `DraftWhole` keeps it until the answer: a draft that is not
marked `Represents` what was drawn and rests on its own claims, so that removing no
claim removes nothing of it.

### Splitting

Assumed: `SplitterAssumption`, which says that the chunk size is positive and the overlap a
number, also one above the size. `NothingIsLost` is
about what a recursive algorithm computes. Each text is followed by what its chunks
*cover*: `Covers(chunks, text, e)` says that there are places `to[0] = 0, to[1], ...,
to[n] = e` such that the n-th chunk has the letters of a stretch that ends at
`to[n]` and begins no later than `to[n - 1] + 1`. A chunk may begin earlier, which is
what an overlap does, so that the overlaps need no count of their own. `Good` adds the
bound on sizes; with `CoversAll` it gives the property.

* Cutting: the places of a separator cut a text into stretches that follow one another
  (`CutsRise`, `PartsBetween`), and parts joined again are a stretch (`JoinIsStretch`).
* The loop over the parts (`TakeParts`): `Taken(n)` says that after n parts the chunks
  cover the text up to some `e`, and that the parts being collected are the last of
  the n, from one that begins no later than `e + 1`. A short part keeps this
  (`ShortPartTaken`), also if it closes a chunk and the overlap stays, and so does a
  part that is split finer (`LongPartTaken`), whose first piece may get the
  overlap in front.
* What splits finer: `Fine(finer, seps)` says that it makes good chunks of every text
  that has none of the separators in `seps`. Cutting by size does it for all three
  (`BySizeFine`, by the multiples of the step), and each level for one less
  (`SplitAtFine`): what is between two separators has none of them.
* `MergeIsGood`: joining a short chunk to the one before joins their stretches, as the
  later one begins no later than the earlier one has ended.

`SplitTextIsGood` is the end of it, and `PagesChunked` says which chunks a page of a
document has. `ChunksMade` carries it through the steps: the chunks of an indexed
version are what its document was split into. It needs that a version that is read is not
indexed, and therefore that a document with chunks has pages.

### The page

Assumed: `ChatStreamAssumption`, `ChatPageAssumption`.
`OneStream` is not inductive: a stream whose error
response is being read is no longer `Reading`, and its late `onError` would clear
`_abortCurrent` if it could belong to the current generation. `StreamInv` adds that
generations only grow, that no stream holds one of the future, and that a callback
that is still to come and holds the current generation is that of the stream in
`_abortCurrent`. Then a late callback finds itself outdated, and one that is not
has nothing else to forget. `FilesInv` says that a selection that is to be
sent was picked in this view, and that an upload whose generation is the composer's
was started in this view; every click that leaves a conversation raises the
generation, and files that a load or a finished logout shows are not to be sent.

`TypeOK` says which frames and names can arrive, and needs the server's side
(`ServerInv`: a run that was begun has a task, a handler a run) and that the page
only holds names of runs that were begun (`OnlyBegun`, `LoadsStored`); a task
that is stored has a newest run, which was begun (`RunsTyped`).

`AnswerIsShown` relates a frame on its way to a body that was rendered, possibly
after the page has gone elsewhere. `AnswerInv` follows the answer: a result is told
only of a run that has one (`StatusTold`), it is the last frame and its status comes
before it (`Finishing`), and after the last frame the body has it and keeps it
(`ReadShown`), because nobody writes into that body any more (`Alone`). For the
last, a second stream must not start in a body that is being read or was read:
`NoButton` and `FreshBodies` say that such a body has no resume button and that
every question gets a body of its own, as does every load: a view is loaded once at
most, by the click that opened it or, the first one, by the start of the page
(`LoadsGoOn`).

### Searches

Assumed: `RankingAssumption`, `RetrievalAssumption`; any number of searches, any
rewritings, any distances and words, any size of the cache. `Ranking` is written
with first-order operators (`Listed`: the k-th member of an order is the one that k
members come no later than), so that `ListedMembers` can be proved: in a linear order
of a finite set every place is taken, by counting. From it follows of which members
every list of `Ranking` is made (`FusedMembers`, `HitsMembers`, `PackMembers`,
`JoinWithinMembers`); that scores are compared like the fractions they stand for
(`LessChain`) is what makes the fusion such an order.

* `SearchesItsQuestion` is about a list that is shared without a lock. `ListsArePrivate`
  says that until a search begins to use a list nobody else has its own, which is why
  `Reply` and `Refresh` overwrite nobody's. From `own` on others may put their
  questions in front, and the place of the search that reads it does not move with them:
  `ListsGrow` says that nothing else happens to a list, so that `OwnIsListed`, the own
  question was searched or is still to come, survives. That an entry of the cache is
  only ever extended by questions with the same key is `EntriesNameTheirKey`,
  `ListsHaveOneKey` and `ListsAreMeant`. Of `Normal` only its range is assumed: it is
  not idempotent, since `DOMAIN_SYNONYMS` (query_rewriter.py:41, 46, 47) maps a term to
  one that contains it, and the instance has a key ("formal") that, asked in its own
  words, has another one ("twice").
* `VisibleOnly` is inductive with what was found by vector (`FoundIsVisible`). The word
  index has everybody's chunks, also of documents that are gone, and a passage is
  read from the store; each filters by itself, and sections by the owner of
  their hit.
* `FusionRespectsBoth` is about where a ranking puts its members. `Orderly(seq, before)`
  says that no member stands after one that it is before; each stage has a
  lemma that it keeps this: the two lists of candidates (`VectorOrder`, `WordOrder`, by
  what stands at which place), the shares they add up to (`ShareOrder`, `PlusOrder`: a
  better place in one list and no worse one in the other give a higher score),
  the fusion (`FusedIsOrderly`), primary texts before the others, removing
  repeated texts and other owners' chunks, the cut. `HitsRanked` is the invariant. It
  has to mention the word index, which other steps empty and build again: what
  `Worse` says of a search only shrinks when they do.
* `QuotedWithinBudget` adds up the sizes of quoted texts in the order of the page,
  although they were chosen by rank. `SumCounts` says that the sum of a list without
  repetitions is the number of units its members have (`UnitsAdded`), which the order
  does not change (`InOrderCounts`). `PackUses` is the argument of the code: a
  section is only begun while there is room, a window around a hit is only widened
  while it fits, so that the last one exceeds what is left by less than
  one chunk. `HitsAreKnown` is the part that others can disturb: a hit that is
  read again comes from the store or is gone for good, because nobody indexes a document
  twice. `SeedsAreQuoted` failed as it was first stated. Two documents of
  one owner with the same name have sections with the same identifiers, and
  the section that is read may have the other's chunk at the place of the hit. The
  property says so now, and the hazard is listed.

### What is not proved

Model-checked only, and why:

* `StreamedRunSettles`, `StreamsEnd`, `UploadsSettle`: liveness under fairness, and
  so `ENABLED`, which the prover does not do.

All invariants and action properties that runs check are theorems. Some of them speak of
recursive algorithms, although the induction theorems of the
library take an operator as a parameter, which the installed provers cannot
instantiate. `ListProofs` gets by without those theorems: its recursive functions count
up to the length of a list (`Recursion`: such a function exists and is the only one), and
what they return is shown by the least number for which it would be wrong
(`FoldedKeeps`: what holds of the first value and is kept by each step holds of the last).
The recursion of the splitter has one level per separator and is written out. No module
uses RECURSIVE operators. `SUBSET (S \ T)` and the like are in parentheses
everywhere, as the prover and the model checker bind prefix operators differently.

Not modelled: login, service principals and capacity are planned below. Chat files
and their jobs have no worker in this repository, so that no order of steps can go
wrong; their attachment to tasks is part of `ChatStream`. Of the frontend, the
parser of event streams, the rendering and the pages of memories and documents
are left out. Feedback, task listing, observability, configuration,
scripts and evaluations have no order of steps to get wrong. PDF and HTML parsing,
embeddings, the cross encoder and the models are computations whose result the
models take as given.

## 5. Plan

1. *Done*: run store, memories, handlers, conversation refinement; runtime
   sessions, run control and graph of one run, event-stream refinement; the
   knowledge base with its catalogue, stores and word index; evidence QA with
   splitter and charts; searches with their cache, ranking and quoting; the chat
   page. Proved: all safety properties and both refinements of the control plane,
   the runtime, the knowledge base, evidence QA with the splitter, the searches and the
   page.
2. The control plane over `EventStream`: the stream of a request is the contract
   the runtime was proved to keep, no longer arbitrary, with the resume that
   meets a generator still marked running.
3. OAuth states; nonce cache; capacity and rate limit; the event-stream parser of
   the frontend; the page over `ControlPlane` itself, with its attempts and keys.
