# Verification of the chat service

TLA+ models of the NestJS back end under `src/src`, TLC configurations that check
them on small instances, and TLAPS proofs of the properties that matter most, for
every value of the constants. Every definition is translated from the code;
`PROJECT.json` maps each one to the lines it stands for.

To repeat a check: `tlc -config Summary.cfg MCConversationSummary`. To repeat a proof:
`tlapm ConversationSummaryProofs.tla`.

## 1. The system

A user posts a message to a conversation. A pipeline prepares the request, a
generation that is *detached* from the HTTP request asks the model and records its
progress in Redis, and any number of SSE clients follow it from there. All of it
runs in one Node.js process, with MySQL (Prisma), Redis, Qdrant and Ollama behind
it, and a BullMQ worker for the ingest of documents in the same process.

| Component | State | Operations | What makes it hard, and correct |
|---|---|---|---|
| Stream sessions (`conversation/stream-session.service.ts`) | a JSON record per stream and an active pointer per conversation in Redis, with a TTL | create, get, updateProgress, markStatus, getActiveSession | read-modify-write over two round trips, with several writers; no pointer to nothing, no sequence number that goes back |
| Generation (`conversation/conversation-stream.service.ts`) | subscriptions, cancelled set, pending progress, timers, progress chains, Subjects, finalizers, all in memory | start, delta, done, error, flush, finalize, stop, observe and poll | finalizer, failure mark, stop and progress writes interleave at every await, and share one record; a completed session has its message, the message is what the model sent, everyone is released in the end |
| Envelopes (`conversation/utils/stream-envelope.util.ts`) | none; `lastSeq` of each observer | wrap, emitLive, emitSnapshotIfNew, emitDoneIfNeeded | what completes a response is read off fields of an object that may have been wrapped once or twice, and a read that fails breaks it off; no client is told of an end that is none |
| Rolling summary (`conversation/summary.service.ts`) | summary and summarizedMessageId of a conversation | initial summary, background update, compression | unsynchronised updates around model calls; no message forgotten, the recent window kept, no step back |
| Messages and titles (`conversation.service.ts`, `ai/orchestrator/stages/input.stage.ts`, `title.service.ts`) | rows of messages, the title | send, regenerate, edit the question, reply, first and refined title, rename, removal; also pins, feedback, listing | check-then-act by parallel requests, removals before what replaces them; the limit, no reply replaced twice, every reply behind its own question, the title of the first message |
| Knowledge base ingest (`knowledge-base/`) | document rows and status, chunk rows, vectors in Qdrant, BullMQ jobs | upload, reindex, remove document or knowledge base, ingest with retries | two stores without a transaction, retries on leftovers, crashes, removal beside ingest; a ready document is whole, no vector without its row |
| Chunking (`knowledge-base/chunk.service.ts`) | none | split | limits, overlaps and windows; pieces fit and hold the whole text |
| Agent and tools (`ai/agent/`, `ai/tools/`) | the registry's agent context, shared by all requests | ToolStage, rounds of model call and tool, final stream, unsubscription | an answer stopped between two awaits; events in order, an end in every case |
| AI service and provider (`ai/ai.service.ts`, `ai/providers/ollama.provider.ts`) | per stream: fetch, timer, accumulated text | chat, streamChat, teardown | broken connections, missing end markers, timeouts, unsubscription; always one end, nothing left open |
| Context engine (`context-engine/`) | blocks, whose priority is changed in place | buildPlan, enrichPlan, prune, plan | caps, floors and releases of a token budget; the question is always sent, nothing fits any more, recent first |
| Retrieval (`knowledge-base/retrieval.service.ts`) | none | search | two searches merged and cut, rows gone meanwhile; the best first |
| Long-term memory (`context-engine/context-memory.service.ts`) | rows and vectors of memories | create and index, search, forget | vectors are written and deleted by calls nobody awaits, and a search reads the two stores one after the other; a forgotten memory leaves no vector, a live one keeps its own, nothing hidden is found and not everything missed |
| MCP client (`ai/mcp/`) | the connection, the list of the server's tools | connect, list, register with the registry, health | agents and health checks come before the tools do; what is told of them is so |
| Accounts, prompt templates, upload, gateway, metrics, traces, stream tickets | rows, Redis counters, nothing | | see section 8 |

How they interact: `InputStage` writes the message, `ContextStage`, `PromptStage` and
`RagStage` plan the context (`RagStage` through retrieval), `ToolStage` sets the agent
context, `StreamStage` creates the session and starts the generation, which
subscribes to `AiService.streamChat` or to the agent, writes to the session, and in its
finalizer stores the reply and starts the summary and the title in the background.
Observers read the session. `PROJECT.json` lists 40 hazards of this code at their lines,
with the properties that cover them.

## 2. Modules

| Module | Models | Composition |
|---|---|---|
| `StreamSession` | every method of the session service as its Redis commands, with failures and TTL | |
| `ReplyPromise` | abstract: a stream ends once and is settled once, with a message that is all the model had sent or with none | |
| `ConversationStream` | generation, flush chain, finalizer, stop, observation, crash | extends `StreamSession`, implements `ReplyPromise` |
| `StreamEnvelope` | classification of payloads, live and snapshot delivery, reads that fail, the TTL | shows that leaving the live Subject out of `ConversationStream` is sound |
| `ConversationSummary` | overlapping summary updates over a changing list of messages | |
| `ConversationMessages` | requests on one conversation and its removal: the limit, regeneration, edits, titles | |
| `DocumentIngest` | requests of the controller, the jobs of BullMQ, the worker, both stores | |
| `Chunking` | the splitting of texts (operators) | extends `Ranking` |
| `DocumentText` | files, their pages and pieces, behind the numbers of `DocumentIngest` | extends `DocumentIngest`, `Chunking` |
| `AnswerSource` | abstract: what the stream service counts on in an answer | |
| `ProviderStream` | the provider's stream and its relay | instantiates `AnswerSource` |
| `AgentRun` | ToolStage, both modes, the loop of rounds, the shared context | extends `ProviderStream`, implements `AnswerSource` |
| `McpTools` | connection to the MCP server, its tools, health checks | |
| `AgentTools` | both, meeting in the registry of tools | extends `AgentRun`, `McpTools` |
| `Ranking` | sets sorted, sequences filtered and folds, by rank (operators) | |
| `Retrieval` | merging, filtering, ranking, reading of rows (operators) | extends `Ranking` |
| `Recall` | the memories of a question: readable, by vectors, else by words (operators) | extends `Ranking` |
| `ContextMemory` | creating, forgetting, indexing and searching memories, step by step | extends `Recall` |
| `ContextPlan` | pruning, caps, selection, the three stages | extends `Retrieval`, `Recall` |
| `MC...` | instances for TLC | extend their module |
| `...Proofs` | theorems | extend their module and TLAPS |

How state and actions correspond to the code:

* **Steps.** JavaScript runs to its next `await`; an action is one such run, and what is
  awaited (a Redis command, a database operation, a model call) is a step of its
  environment. In `ConversationStream` a call of the session service is a record per
  caller: `Invoke` issues its first command, `Serve...` executes a command on Redis
  and hands over the result, `Continue`d code runs when the promise settles. One
  connection answers in the order of the commands. With `Overtaking` a settled
  reply may still be handled before the code behind an earlier one goes on, since
  promise chains differ in length; events of the loop wait for settled promises
  (`Quiet`).
* **Memory and stores.** What lives in the process (`gen`, `timer`, `pending`, `writes`,
  `fin`, subscriptions) is lost in `Crash`; sessions, rows, vectors and jobs are not. A
  rejection nobody handles ends the process, as Node does by default (version 22 of
  the Dockerfile): `FinDies`.
* **Data.** A text is how many deltas it holds and the marker it ends with; a summary
  is the set of messages it covers; a message is its id, its role and what it asks or answers; a
  character, for `Chunking`, is its place and its kind (blank, newline, end of a sentence,
  number that makes a heading, other); a chunk is its
  document, piece and id; a context block is its type, rank and tokens. Moderation is
  a nondeterministic verdict.
* **Answers.** `ConversationStream` takes deltas, then one run of done and completion, or an
  error. That is `AnswerSource`, and `AgentRun` shows that both modes implement it: the
  refinement mapping is the identity on `feed`.
* **Promise.** `ReplyPromise` has three variables per stream: its phase is read off `gen` and
  `fin` (`PromisePhase`: open while the model sends, then how it ended, then settled), what
  was sent is `len`, the answer is `reply`. Everything else of `ConversationStream` is hidden.

## 3. Runs

| Run | Instance | States | Shows |
|---|---|---|---|
| `Stream` | one stream, two deltas, a stop, one fault of Redis or the database or a crash (`OneMishap`), TTL, overtaking | 1 346 000 | the inductive `TypeInv`, `CompletedInv`; `ReplyFaithful`, `OutputKept`, `SnapshotIsReply`, `PointerResolves`, `TextGrows`, `SeqNeverGoesBack`, `KeepsPromise` (refinement of `ReplyPromise`) |
| `StreamLive` | one stream, one delta, one observer, a crash, TTL | under fairness, 100 000 | `ObserverReleased`, `SettlesAsPromised` (the refinement with its liveness) |
| `Summary` | two overlapping updates, six messages, window 2, trigger 3, one removal | | `NothingForgotten`, `RecentWindowKept`, `SummaryMovesForward` |
| `Envelope` | three observers, sequence numbers to 2, TTL, failing reads | 562 000 | `CompletesWithEndFrame`, `EndIsStored` |
| `Messages` | two requests, two texts, limit 3, six ids | 619 000 | `OverrunBounded`, `ReplacedOnce`, `AnswersItsQuestion`, `TitleOfFirstMessage` |
| `Memory` | two requests of a user and an administrator, two memories, one fault or crash, one removal of a conversation | 1 551 000 | `TypeOK`, `ForgottenIsUnindexed`, `LiveIsIndexed`, `NothingHiddenFound`, `SearchFinds` |
| `Ingest` | one document of three pages, two jobs of two attempts, a failed update of a status or a crash; every text of up to five characters to be split | 4 470 000 | `ReadyIsIndexed`, `ReadyHoldsText`, `OrphansOnlyByOverlap`, `SettledHasOutcome` |
| `Agent` | two answers, up to three tool calls each, one tool of the server, one health check | under fairness, 738 000 | `IsAnswerSource` (refinement with liveness), `StreamHasSubscriber`, `ContextSet`, `StopStops`, `PhasesInOrder`, `ToolsAsTold` |
| `Context` | 4 608 histories, 3 000 searches and 320 recalls, three plans each | 32 000 | `MustKeepIsKept`, `WithinBudget`, `NothingFitsAnymore`, `OlderOnlyIfShorter`, `BestChunksFirst` |
| `StreamCancelOutput`, `StreamEndSeen`, `EnvelopeLive` | as above, one property each | | disagreements, section 4 |

Bounds, and why they are enough. Every hazard needs few actors: two deltas make two
progress writes, one being retried or queued behind the other; one stop meets every point of
the finalizer; one fault hits every operation, and one crash every point; two summary
updates, two requests or two answers are the pair that races; three observers hold one that
has seen a frame, one that has not and one that has gone. Two attempts of two pieces
leave a half-ingested document of either kind for the second attempt. Of two memories one
can stand in the way of the other when searches are proposed one (`Proposals`) and return
one (`MemoryLimit`); one operation that fails, or one crash (`MaxFaults` counts both), meets
every step. Texts up to `MaxLength` = 5 with pieces of at least `MinSize` = 2 (200 in the
code) reach every branch of the splitting, windows that overlap by nothing, by some and
by more than their size among them. Two texts tell a question from its edit. `Available = 40` lets
all caps be cut, released and exceeded; `TopK = 2` of three chunks and
`MemoryLimit = 2` of three memories cut one in `Context`; priorities
starting at 3 run out within three plans as 100 does for histories of 36 or more
unpinned messages. `Max...` constants cap counters in guards: `MaxDeltas` what a
model sends, `MaxFaults` and `MaxCrashes` failures and restarts (`Stream` adds the CONSTRAINT
`OneMishap`: one of the two in a behaviour), `MaxSeq` in `StreamEnvelope` the
sequence numbers, `MaxMessages` (of `ConversationSummary`), `MaxMemories`, `MaxIds`,
`MaxJobs` and `MaxRemovals` what is ever created. `Messages`, `Memory`, `Summary` and
`Envelope` use the symmetry of their requests, texts, jobs and observers, with safety
properties only.

Two properties of `ConversationMessages` speak of requests that follow each other: the history
variable `lone` says that none was ever made before the reply to the one before it was there.
Without that condition TLC refutes both (section 4). In `ContextMemory`, `beside` and `lost`
name the overlaps and the failures that nothing in the code makes up for.

`CHECK_DEADLOCK FALSE` wherever the system may rest: with every request answered, stream
ended and job done nothing has to happen.

### Fairness

* `ConversationStream!Fairness`: Redis answers, settled promises are continued, keys with a
  TTL expire; polls fire, the database answers, and an answer ends by done or an error,
  which is what `AgentRun` shows of every answer from the timeouts in the code. The
  last three are events, taken from queues that settled promises interrupt again and
  again (`Quiet`), hence strong fairness for them. Nothing obliges the model to send
  text, the user to stop or the process to stay alive.
* `AgentRun!Fairness`: model calls (120 s), tools (weather 8 s, embedding 30 s) and
  streams (300 s) have timeouts in the code, so each ends. Nobody has to unsubscribe.

Without the TTL, `ObserverReleased` fails after a crash: the session says "generating"
and nobody is left to end it.

## 4. Where code and comments disagree

Three runs show a disagreement each (`findings` in `PROJECT.json` quotes the lines):

* `StreamCancelOutput`: a stop that comes when the model has just ended and the finalizer
  awaits its flush marks the session itself; the finalizer then stores nothing, and
  the whole reply is lost, though a comment promises to keep the output.
* `StreamEndSeen`: two overlapping updates save one sequence number; an observer that saw the first never emits the
  final status that came second and is released only by the TTL.
* `EnvelopeLive`: live deltas are wrapped twice and reach clients as empty `stream_meta`
  frames; text comes with the polls only.

The modules state more of what comments say and TLC refutes. They have no run of
their own:

* `RunningStreamIsActive` (`ConversationStream`): the first of two streams of a
  conversation to end deletes the pointer of the other (`stream-session.service.ts:113`).
* `DroppedIsCovered` (`ConversationSummary`): an empty answer to the compression is stored
  as the summary, and the messages it should cover are dropped as covered
  (`summary.service.ts:166`, `context-pruning.service.ts:25`).
* `SummaryAboveTrigger`: the update after a reply does not look at `SUMMARY_TRIGGER`.
* `MessagesWithinLimit` (`ConversationMessages`): replies are not counted against
  `MAX_MESSAGES`. And without `lone`, `TitleOfFirstMessage` and `AnswersItsQuestion` fail:
  of two first messages the later makes the title (`title.service.ts:75` says the first
  does), and a question may be edited while another request answers it.
* `RestartLosesNoTask` (`DocumentIngest`): BullMQ gives a job up when the process
  ends during it a second time, with attempts left; the document says "processing" for ever
  (`knowledge-base.controller.ts:148` says that a restart loses no task).
* `SearchesOwnContext` (`AgentRun`): the agent context is one field for all requests, so
  with two of them at once a tool may work with the other's selection of knowledge
  bases.
* `OlderNeverBeforeNewer` (`ContextPlan`): every plan lowers priorities again, down to 0;
  in long histories the oldest messages then tie and come first.
* `FoundTwiceNeverHurts` (`ContextPlan`): the "bonus" for a chunk found by vector and
  words (`constants.ts:13`) may leave it below what words alone would have scored, and
  below the threshold.

Seen while reading, not modelled: `context-memory.service.ts:20` says memories compete with
messages for the budget, but every type has a cap of its own; `context-pruning.service.ts:104`
cuts an answer with thinking to its last line, also if the answer has several; agent
mode ignores the model the user selected, which is not passed on to `chat` and `streamChat`.

## 5. Proofs

Eight modules of theorems. Each follows one scheme: an inductive
invariant, shown to hold initially and to survive each action (one step per action,
one below it per conjunct the action touches), then `PTL`. The invariants were model-checked
before they were proved.

| Theorem | States | Argument |
|---|---|---|
| `ConversationStreamProofs!TypeInvariant`, `TypeCorrect` | `TypeInv`, `TypeOK` | `TypeOK` alone is not inductive: writes are numbered up to `MaxDeltas + 1`, so `WriteBudget` counts them against deltas and the timer, and `CallsWellFormed` says which stream a call is about |
| `...!PointersResolve` | `PointerResolves` | one transaction sets session and pointer with one TTL, and the pointer goes with the session |
| `...!CompletedInvariant`, `CompletedAlwaysHasReply` | `CompletedInv`, `CompletedHasReply` | `CompletedInv`: a status lives on in snapshots read earlier and in marks under way, so those need the reply too; the finalizer knows what it has stored and stores once |
| `...!StreamKeepsPromise` | `KeepsPromise` | `ConversationStream` implements `ReplyPromise`; `PromiseInv` makes the steps correspond: a finalizer is started by the end of its stream and knows how that ended, and no stream that is set up or running is in `cancelledStreams`; the end of the process is the one step that moves many streams |
| `...!StoredReplyFaithful` | `ReplyFaithful` | `ReplyInv` on top of `PromiseInv`: what the texts of the finalizer depend on is frozen once the stream has ended, and the request that stopped a stream remembers it |
| `...!SeqAlwaysGoesOn` | `SeqNeverGoesBack` | `OwnersInv`: where a handler is decides which call it has under way; `WireInv`: the calls in flight are queued once each. `SeqInv`: of two updates about to save, the first in the queue read the same number as the second, or the one before it |
| `...!TextAlwaysGrows` | `TextGrows` | `ChainInv`: the writes of a stream run one by one, none with less than the one before, and the finalizer waits for the last. `TextInv`: no write still to come has less than the session |
| `...!SnapshotIsAlwaysReply` | `SnapshotIsReply` | `StatusInv`: a session and every snapshot of it say generating until a mark is on its way, so what a late write saves is not completed. `SnapshotInv`: the mark is made from a session with the message in it |
| `...!OutputAlwaysKept` | `OutputKept` | `OutputInv`: a session is there from its creation to its TTL, and the finalizer finds it generating: the mark of an error is sent before the finalizer's GET, but saved after it |
| `ConversationSummaryProofs!SummaryForgetsNothing`, `RecentWindowAlwaysKept`, `SummaryAlwaysMovesForward` | `NothingForgotten`, `RecentWindowKept`, `SummaryMovesForward` | `SummaryInv`, `WindowInv`: what each call has in hand covers what it will claim, and stays out of the window |
| `StreamEnvelopeProofs!LiveEventsAreMeta` | | any payload wrapped twice is a `stream_meta` without done or error |
| `...!EndFrameCompletes`, `EndAlwaysStored` | `CompletesWithEndFrame`, `EndIsStored` | from it, by what one step may send an observer (`StepOfObserver`) |
| `ConversationMessagesProofs!OverrunAlwaysBounded` | `OverrunBounded` | what is written and what requests past the check may still write are bounded together; a regeneration gives back what it removes |
| `...!NoReplyReplacedTwice` | `ReplacedOnce` | `ReplacedInv`: a reply being replaced is gone, so nobody else removes it |
| `...!EveryReplyAnswersItsQuestion`, `FirstTitleIsOfFirstMessage` | `AnswersItsQuestion`, `TitleOfFirstMessage` | `LoneInv`: of requests that follow each other one is at work, the messages it has read are all there are, and the one it is about ends the conversation |
| `DocumentIngestProofs!OrphansAlwaysOverlap`, `TypeCorrect` | `OrphansOnlyByOverlap`, `TypeOK` | `OrphansInv`: once the vectors of a document are deleted none comes back but by a job beside it, which is noted |
| `AgentRunProofs!EventsInOrder`, `NoStreamLeft`, `ContextIsSet`, `StoppedRunStops` | `PhasesInOrder`, `StreamHasSubscriber`, `ContextSet`, `StopStops` | `RunsInv`, one statement per run that ties where it is to its feed, connection and counts |
| `AgentRunProofs!StepsOfAnswerSource` | safety part of `IsAnswerSource` | initial states map to initial states, each step to a step or a stutter |
| `...!RunsBesideTools`, `ToolsAlwaysAsTold` | `ToolsAsTold` | the composition with `McpTools` implements `AgentRun`, so the theorems above hold of it; `ToolsInv`: the tools are listed once, by a server that is connected, and registered after that |
| `DocumentIngestProofs!SettledAlwaysHasOutcome` | `SettledHasOutcome` | `OutcomeInv`: only a document that was uploaded has jobs, and one whose job is about to end has its outcome |
| `...!ReadyAlwaysIndexed` | `ReadyIsIndexed` | `ReadyInv`: what the worker has made so far is there, one row and one vector per piece (`OneMoreIndexed`), and whoever deletes it has noted the removal or taken "ready" back first |
| `...!SplitHolds`, `ReadyAlwaysHoldsText` | `Holds` for every text and every options, `ReadyHoldsText` | `Tiles`: cutting, trimming, joining and gathering, one item after the other, keep the places of all characters but blanks, in their order; `Covers`: windows that rise and reach every character cover a sentence and share at most the overlap, and covers of what follows each other are put behind each other (`FlattenSeq`). As many rows as pieces and a row for every piece make one row for each |
| `RankingProofs` (lemmas) | what `Ranking` sorts and folds | the next block or chunk is the least of the remaining ones; a fold over a finite sequence exists step by step, from the least number for which it would not |
| `ContextEngineProofs!CapsFit` | the caps sum up to at most the budget | floors lose, shares of 7 and 5 twelfths give out no more than is released |
| `...!MustKeepAlways`, `PlanTypes` | `MustKeepIsKept`, `PlanTypeOK` | pruning and selection keep pinned blocks, plan after plan |
| `...!BudgetHolds`, `BudgetIsUsed` | `WithinBudget`, `NothingFitsAnymore` | an invariant of the walk over the ranked blocks: what is used is the tokens of what is kept, under each cap; usage only grows, so what did not fit then does not fit in the end |
| `...!RecentComeFirst` | `OlderOnlyIfShorter` | two messages keep the order of their priorities while these are above 0, so the newer is offered first; what fits the older's place would have fitted the newer, had it been no longer |
| `...!BestComeFirst` | `BestChunksFirst` | rank by rank: merging keeps the better of two scores, the cut takes the top, rows that are gone leave the order alone |
| `...!MemoryTypes`, `ForgottenLeavesSearches`, `LiveStaysIndexed` | `TypeOK`, `ForgottenIsUnindexed`, `LiveIsIndexed` of `ContextMemory` | the vector of a memory is written by its creation alone and deleted by those that forget it alone, so what is under way decides; `beside` and `lost` note the rest |
| `...!HiddenStaysHidden`, `SearchesFind` | `NothingHiddenFound`, `SearchFinds` | what a search holds was readable when it began, at each of its steps; the words find whatever the vectors did not |

Assumptions are the `ASSUME`s of the modules, which TLC evaluates in every run: bounds are
natural numbers, a conversation has a key, `Null` (no number either) and `None` are nothing else, a limit, a
number of attempts and `MAX_AGENT_STEPS` are positive, and `RECENT_COUNT` is (with 0,
`slice(-0)` would keep everything); what a question may hold is a finite set of blocks, of which
those that may be left out are known by type and number (`QuestionsAssumption`); only users have
conversations and privileges (`ContextMemoryAssumption`); the characters of a text are where they
are (`TextsAssumption`), size and overlap asked for are any integers (`AskedAssumption`), the
least size is positive, and a document has as many pieces as its pages are split into
(`FileAssumption`).

Sorting, filtering and folding. The library's `SortSeq` and `SelectSeq` mean nothing to the
provers. The models rank with `Ranking` instead: an element stands at the place that says how many
come before it, and a filtered sequence holds the elements at the places that stay. `FoldLeft` of
the library is a recursive function, whose existence `RankingProofs!FoldExists` shows; induction
over lengths and finite sets is stated there once as `LeastNumber`, `CountingUp` and
`AddingMembers`, from the well-foundedness of the numbers. What `Chunking` folds is unrolled from it
into one value per item (`FoldMade`, `CutRuns`, `GatherRuns`, `ParagraphRuns`), and so is
`FlattenSeq` (`Flattens`); the number of windows, rounded up, is enough by `RoundedUp`.

Only model-checked: liveness (`SettlesAsPromised`, `ObserverReleased`, the liveness part of
`IsAnswerSource`), which the prover does not reach. Every invariant and action property of the
runs that pass is proved.

The proofs about the streams' sessions share `OrderInv`, which says who has which call under way
and what the queue of the connection holds; each step is then one of Redis, of the TTL, the end of
the process, or a turn of JavaScript (`StepKinds`), and a turn moves one stream and lets the
others rest (`StreamSteps`).

## 6. Abstractions worth knowing

* Streams: done and completion are one run of the loop in every provider (`AnswerSource`);
  phase events and token counts change nothing modelled; polls of one observer do not overlap; the read
  before an observer attaches is part of `Attach`; `Expire` stands for a TTL that
  runs out at any time after the last save, for the streams in `Expirable`.
* Envelopes: a response ends in three ways. It is completed after an end frame; its client
  leaves; or `validateSession` throws, at the first read or at a poll, and `subscriber.error`
  breaks it off (`ReadFails`), with no frame of the stream and whether or not the stream has ended.
  The exception then goes to the framework's `@Sse`, outside the repository. `ReadFails` may come
  at any time, since any GET may fail; that the session has expired or is another user's
  (`attachStream` has checked it before) are cases of it. A read and its answer are one step here, and
  two in `ConversationStream` (`PollRejected`). Nobody calls `error` on a Subject, so
  the handler of the live subscription for that never runs, and were it to, would do what `ReadFails`
  does. Two sequence numbers make three sessions: one seen, one saved with the same number, one newer.
* Summary: the two reads of the check on the request path are one; the removal of a conversation is left out.
* Messages: the binding of a prompt template is left out; a lookup and the delete or update that follows it
  are one step; ids grow with time; a removed conversation stays removed.
* Ingest: the first database operation of a removal is one step with its arrival; one document's requests come one after the other but may come again; BullMQ takes one job at
  a time (its default); a failing operation has no effect; jobs stall only when
  the process ends; a document between its creation and its enqueueing is no promise yet (`Queued`).
* Chunking: `\r\n` is a newline before; a text is one page of a document, or all of it (`PiecesOf`); the three patterns of
  a heading are one kind of character.
* Memory: a user has one conversation, which only memories of the scope CONVERSATION name; the
  lookup of a memory and the check of the right to forget it are one step; words are the question's or not; importance
  is that of the last update; filters by type, category and conversation are left out; the
  collection exists (`ensureMemoryCollection`).
* MCP: the bridge waits for the connection before any health check does, so it goes on first; a
  server that goes away makes calls fail like any other tool's; "degraded" is never answered, since
  `enabled` is never taken back.
* Agent: "aborted" is the feed not being open; the rejection that follows an abort is handled before
  other events, so `TimeOut` is one step, as is an HTTP error with its body; all callers ask for
  `skipCache`; a tool either reads the context before its first await or does not.
* Context: budget ratios are percent and twelfths, which agree with the code's floating-point
  floors for 8192 - 2048 and for every budget below 180; the rank of a block stands for
  its place in the list; search results are any within the instance. A recall is a plan's (no
  scope, type or category asked for), its proposals are given: that the store returns twice the
  limit or ten of anybody's memories is why so many may be in vain; ids stand for update times.

## 7. Plan

1. Next: the pipeline's calls of summary and title after a reply, composed with the stream that
   starts them; feedback and pins as read-modify-writes of a message's metadata; the counters of
   failed logins.
2. Then proofs of what those models add.

## 8. Not modelled

* Stream tickets, accounts and who may see what: access control. Where an operation may be
  refused, models let it fail.
* `ToolOrchestratorService` and `extendPlanWithToolResult` are deprecated and unused, the
  answer cache is skipped by every caller, `ingestDocumentWithRetry` is called by tests only.
* The gateway, upload, metrics,
  logging, filters and modules are wiring or plain input and output.
* Texts: prompts, the parsing of tool calls, the parsing of provider lines, the cleaning of titles,
  keywords and moderation rules. Their outcomes are choices in the models.
* Prompt templates and users read and write single rows.
