# AI Tech Pulse in TLA+

A verification project for *AI Tech Pulse*, a Go service that once a day reads
RSS feeds, has an AI model summarise and score the new articles, stores them
with embeddings in PostgreSQL, and posts the best ones to Telegram. Paths are
relative to the repository; `internal/` is `src/internal/`.

## 1. The system

One process; `cmd/server/main.go` wires everything at start-up.

| Component | Source | State | Operations |
|---|---|---|---|
| Job queue | `internal/adapter/queue/memory/channel_queue.go`, port in `internal/domain/service/job_queue.go` | buffered channel, handler map, `isRunning`, WaitGroup, RWMutex | RegisterHandler, Enqueue, Start, Stop, workers |
| Daily pipeline | `internal/usecase/pipeline_usecase.go` | variables of one execution | ExecuteDailyPipeline, processArticle, TriggerPipelineAsync |
| Database | `internal/adapter/repository/postgres/*.go`, `migrations/*.sql` | tables feeds, articles, article_embeddings | one statement per repository method |
| Feed administration | `internal/usecase/feed_usecase.go`, `internal/delivery/http/feed_handler.go` | table feeds | AddFeed, ListFeeds, ToggleFeedStatus, DeleteFeed |
| Telegram listener | `internal/delivery/telegram/listener.go` | `lastUpdateID`, stop channel | Start, pollLoop, handleMessage, Stop |
| Digest and bot | `internal/domain/entity/digest.go`, `internal/adapter/telegram/bot.go` | none | FormatHTMLChunks, SendDigest |
| AI client, RSS parser | `internal/adapter/ai/gemini/client.go`, `internal/adapter/rss/parser.go` | the configured models | SummarizeAndScore, GenerateEmbedding, ParseURL, ValidateFeed |
| Triggers | `internal/delivery/cron/scheduler.go`, `internal/delivery/http/pipeline_handler.go`, `/run` in the listener | cron entry | enqueue a pipeline job, or run it synchronously |
| Search | `internal/usecase/search_usecase.go`, `internal/delivery/http/search_handler.go` | none | read by vector similarity |
| Start-up, shutdown | `cmd/server/main.go` | the pool, contexts, signal | the order of starts and stops |

**How they interact.** Cron, HTTP, Telegram and start-up call
TriggerPipelineAsync, which puts a job into the queue; a worker runs
ExecuteDailyPipeline, which talks to the feeds, Gemini, PostgreSQL and Telegram.
HTTP may run the pipeline synchronously too. Nothing in the process keeps two
executions apart: they meet in the tables. HTTP and the listener change table
feeds at any time.

**What is hard here, and what makes each part correct.** `PROJECT.json` lists
the hazards line by line. In short:

* *Queue*: check-then-send against close under one RWMutex; a full channel;
  what Stop may claim. Correct: no send on a closed channel, FIFO without loss
  or repetition, each job with one owner, Stop says "drained" only if it is so,
  nobody waits forever.
* *Pipeline and tables*: overlapping executions with check-then-insert, feeds
  that vanish during a run, half-done articles, lost answers, crashes, midnight.
  Correct: one row per URL, no dangling rows, articles only go with their feed,
  no execution that stored something ends with an empty digest while it is
  there, failures are made up for later.
* *Feed administration*: two check-then-act sequences on one table. Correct:
  one row per URL, deletions stay.
* *Listener*: acknowledgement by offset, handlers of several calls that fail
  one by one, lost calls and answers, calls that never return, restarts.
  Correct: no command lost, effects in order and none twice in one life of the
  process, success reported only of what was done, Stop returns if the calls do.
* *Delivery*: where chunks are cut, partial delivery, retries of what may have
  been posted. Correct: every article once and in order in the chunks, messages
  short enough, a gapless prefix posted and no chunk more than twice.
* *Start-up and shutdown*: four sources of jobs, one queue and one database that
  begin and end in an order, thirty seconds shared by two of the stops and by
  none of the other two, a database that may be missing. Correct: triggers only
  meet a queue that runs, nothing works on a closed database and no accepted job
  is lost as long as the time suffices, and the process ends if the listener's
  commands do.
* *AI client and search*: a fallback model, vectors that must be reduced to the
  column's dimension, limits that pass three layers. Correct: no vector that the
  column cannot hold, both models tried before an item is given up, answers
  within their limit.

## 2. The modules

| Module | Models | Instance and configurations |
|---|---|---|
| `JobQueue` | the port: what Enqueue, Start and Stop promise (abstract); `SafetySpec` is its safety part, `Spec` adds that jobs get on | checked through `ChannelQueue` |
| `ChannelQueue` | the queue, at the grain of lock sections and channel operations | `MCChannelQueue_queue` |
| `ChannelQueueProofs` | theorems about `ChannelQueue` | `tlapm` |
| `ChannelQueueRefinement` | the queue implements the safety part of the port | `tlapm` |
| `Ingestion` | what the pipeline and the feed administration promise about the tables (abstract) | checked through `Pipeline` |
| `Pipeline` | executions of the pipeline against the three tables | `MCPipeline` `_ingest`, `_liveness`, `_backfill` |
| `PipelineProofs` | theorems about `Pipeline`, and that it implements `Ingestion` | `tlapm` |
| `Lifecycle` | start-up, the sources of jobs, the workers, shutdown; composed with `JobQueue` | `MCLifecycle` `_shutdown`, `_retry` |
| `LifecycleProofs` | theorems about `Lifecycle` | `tlapm` |
| `FeedAdmin` | concurrent requests that change table feeds | `MCFeedAdmin` `_admin`, `_conflict` |
| `FeedAdminProofs` | theorems about `FeedAdmin` | `tlapm` |
| `TelegramListener` | polling, acknowledgement, the handlers of the commands, stop and restart | `MCTelegramListener` |
| `TelegramListenerProofs` | theorems about `TelegramListener` | `tlapm` |
| `SemanticSearch` | the Gemini client under processArticle and under searches, the stored vectors | `MCSemanticSearch_search` |
| `SemanticSearchProofs` | theorems about `SemanticSearch` | `tlapm` |
| `DigestDelivery` | chunking and sending one digest | `DigestDelivery_chunks`, `_long` |
| `DigestDeliveryProofs` | theorems about `DigestDelivery` | `tlapm` |

Each definition that models code is mapped to its lines in `PROJECT.json`. An
operator named `X_Something` above `X` is a *seeded fault*: what X would be
with a plausible bug. It is used nowhere in the specification; put in the place
of X it breaks the property `PROJECT.json` names, which shows that the property
says something about the code.

### ChannelQueue

`main` is the goroutine of main (setup, Start, Stop); each client is a goroutine
in Enqueue; each worker is one `worker` goroutine. The RWMutex is not a variable:
a client holds the read lock exactly while it is in `check` or `select`
(`channel_queue.go:57-72`), `LockFree` says a writer may enter, and
`ReadersMayEnter` that Go's RWMutex admits no reader behind a waiting writer.
What runs under the write lock is one action, as no one can see inside it. Start
spawns the workers *after* it released the lock (89-92), so `Spawn` is a step of
its own and clients can already enqueue. `EnqueueCancelled` is always possible
in `select`: Go chooses arbitrarily among ready cases. `accepted` and `started`
are history.

The refinement mapping to `JobQueue` takes the channel as the pending line, what
the workers hold as the active jobs, and `main` as the phase; a job that meets no
handler ends at once for the port.

### Pipeline

Each run (`Runs`) is a slot for one execution after another; `pc` follows the
statements of ExecuteDailyPipeline and processArticle. One action is one call
to a repository or service with the code up to the next one; each has a failing
alternative, and CreateArticle one that commits and loses the answer. Expiry of
the job's context is one of the failures. The tables are sets, their constraints
are `Inserted` and `EmbeddingAllowed`, and `DeleteFeed` cascades. `Midnight` moves
the UTC day, which GetTopArticlesToday reads with its first query; the query is
one of two statements, so the day and the table may change in between. `calm`
becomes true once and forever: after it nothing fails and nobody changes the
feeds. It is there to state recovery properties, safety holds before and after.
Texts, dates within a day and vectors are abstracted: an article is its feed,
URL, score and day. Names are ranks (`NameRank`): `ByName` gives the answers
ORDER BY name allows for a set of feeds, any order among feeds of equal names.

`Ingestion` knows the feeds and, per feed and URL, whether an article is absent,
stored or searchable; the mapping (`FeedSeen`, `StageSeen`) reads that off the
three tables. Executions,
failures, retries and crashes are steps that change nothing there.

### Lifecycle

`main` is the step of main: the start-up steps in their order, `up`, then the
part it is stopping; `stopped` are the parts whose Stop or Shutdown has been
called. Each source of jobs (a request, the scheduler, the listener) is off,
idle or busy, and carries in `call` the job it is about to enqueue, or `NoJob`
for other work. The queue is an instance of `JobQueue`, with the capacity and the
number of workers added: `ChannelQueue` implements that port, so the composition
is about what the real queue does. `expired` is the shared context of the shutdown
(`main.go:143`); `HttpStopped` and `QueueAbandoned` look at it, `CronStopped` and
`ListenerStopped` do not. Told to stop, the listener still goes through commands:
it looks at its stop channel only between two batches (`listener.go:136-144`), so
`ListenerEnds` competes with `CommandArrives`. A nil pool (`db = "none"`) makes a worker and the
listener panic, which ends the process; a request is saved by the Recoverer.

### FeedAdmin

AddFeed is `AddKnown` or `AddUnknown` followed by `Create`; the Telegram
`/toggle` is `ToggleRead` followed by `Write`; a PATCH arrives with its status
and is then written; DELETE is one statement. If `CallsFail`, each statement may
fail, before or after it took effect. `Urls` are those NewFeed accepts: a
request it refuses touches nothing.

### TelegramListener

The server keeps `sent` and forgets up to `confirmed`; the listener keeps `last`
and works on `batch`. `Poll` is the request that arrives, `Answer` the answer
that arrives; both can be lost. `Handler` lists the calls each command's handler
makes and `plan` those it still has to make; a call that fails leaves one reply
(`AfterFailure`). Replies are posted or lost without anybody noticing. The process
may crash between any two calls. A restart begins with `last = 0`
(`listener.go:107`), so what was not acknowledged runs again: `EffectsInOrder` is
about one life of the process.

### SemanticSearch

Each article goes through processArticle with the calls of the Gemini client one
by one; each search goes from its parameters to its answer. A vector is its
dimension and its place: `Reduced` is truncateAndNormalize, which keeps the first
768 components. An answer is any list of stored articles that is ordered and
limited, since the HNSW index may miss rows. Removing a feed takes articles and
vectors away in between. `vec` holds the vector each caller has at hand, of an
article or of a search, which are different things (`CallersAssumption`).

### DigestDelivery

A block is its length; a chunk is the articles in it and its length. The loop of
FormatHTMLChunks is followed turn by turn, and SendDigest chunk by chunk, with
the retry as plain text. `Console` is the mode without a token or a chat, which
logs the digest and posts nothing. `PostedUnheard` is a message that Telegram
posted and whose answer is lost or cut: what arrived of it becomes the error text
(`bot.go:123-127`) and is searched for "Bad Request" (88), so either error may
come of it and a chunk may be posted twice. Whether Telegram takes a chunk is
open at any length, since it counts the characters shown and the code counts
bytes of HTML. Lengths in the configurations are in hundreds of bytes.
`Hold(cs, n)` says that the chunks hold the articles 1..n in order, each once.
The marks of the code, 3500 and 3900, are below Telegram's 4096, and the footer
is a short text (`MarksAssumption`).

## 3. The runs

| Run | Asks | Bounds |
|---|---|---|
| `queue` | TypeOK, NoSendOnClosed, ChannelOrder, OneOwner, GracefulStop, HandledJobsRun, the inductive invariant IInv, AcceptedJobsEnd, EnqueueReturns, StopReturns, ImplementsPort | 2 clients, 2 workers, 3 jobs (one without handler), 2 slots |
| `pipeline_ingest` | TypeOK, UniqueUrl, ReferentialIntegrity, IngestedIsDigested, ImplementsIngestion | 2 executions at once, 2 feeds that share a URL, 1 item without title, 2 days |
| `pipeline_liveness` | RunEnds, CatchUp | 2 executions at once, 2 feeds that share a URL |
| `pipeline_backfill` | EmbeddingBackfilled: violated | 1 execution slot |
| `admin` | TypeOK, OneRowPerUrl, DeletedStaysDeleted | 3 requests at once, 2 URLs, 3 ids |
| `admin_conflict` | RefusedAsConflict: violated | the same, statements do not fail of themselves |
| `listener` | TypeOK, ConfirmedWereHandled, EffectsInOrder, SuccessIsReal, EveryCommandRuns, StopReturns | 3 updates of 4 kinds, 2 lives of the process |
| `digest_chunks` | TypeOK, EveryArticleOnce, ChunksFit, DeliveredInOrder | up to 4 articles, 4 block lengths |
| `digest_long` | EveryChunkFits: violated | the same with a block longer than a message |
| `lifecycle_shutdown` | TypeOK, ClosedOnlyWhenLate, DatabaseOutlivesWork, AcceptedJobsEnd, ShutdownEnds | 2 requests at once, 3 jobs, 1 worker, 1 slot |
| `lifecycle_retry` | ConnectionRetried: violated | the same |
| `search` | TypeOK, VectorsFit, FailsAfterBothModels, AnswerRankedWithinLimit | 3 articles, 1 client, 4 limit parameters, limits 1 and 2 for 5 and 50 |

**Why the bounds are enough to be interesting.** Two clients and two workers are
what a race for the lock or the channel needs; three jobs fill two slots with one
more to refuse or to reorder. Two executions are what check-then-insert needs, and a shared URL makes
them collide within one feed and across feeds. Three requests let two race while
a third deletes. The block lengths (400, 1600, 3300, 3800 bytes) make a digest
fit, flush, flush twice, and need a footer chunk of its own. Raw scores 0 and 11
exercise both clamps. Three updates with a photo, the two longest
handlers and a refused chat make batches of several handlers that a crash can
cut anywhere. One worker and one slot hold two of the three jobs, so the third
is refused, waits or comes after the drain has begun. Two of the three articles
lie equally near to a query. The safety runs of the pipeline and the
administration use symmetry in identities that the specification treats alike;
no run with a liveness property does.

**Deadlock** is checked for the pipeline and the administration, which never
stop. So does the search. The queue (after Stop), the listener (after its last
stop), the delivery (at its end) and the process (after its end) do stop.

**Fairness.** *Queue*: every goroutine that can run does (weak fairness per
step); a handler returns because its context ends after five minutes (line 149);
nothing makes a client call, Stop begin or a deadline pass. *Pipeline*: a run
that has begun goes on, because each of its calls has an answer, an error or the
end of the context, and executions recur, because cron triggers them daily.
Nothing forces a call to succeed before `calm`, and `calm` itself is not forced.
*Listener*: the loop goes on, a process that is down is started again, and of
infinitely many polls some arrive and some are answered (strong fairness of
`Poll` and `Answer`); without that a network that is dead forever refutes
everything. Polls and replies end, their client gives up after 40 seconds
(`listener.go:45`), and so does `/run`, which only enqueues. *Lifecycle*: main,
triggers, requests and jobs go on (the contexts of the last two end), and thirty
seconds pass; a batch is finite, so a listener whose commands end gets to the
head of its loop again and again (strong fairness of `ListenerEnds`); nothing
makes a signal or a trigger come.

**No fairness for the listener's other calls.** The code gives them no deadline.
The handlers run under the root context, which main cancels last (`main.go:174`),
after it has waited for the listener (157); their statements have no timeout, and
`/addfeed` without a name fetches the feed (`feed_usecase.go:49`) with a client
that has none either: the comment at `parser.go:23`, "Uses default http client
with standard timeouts", is wrong, Go's default client has no timeout. A server
that takes the connection and never answers therefore holds the handler, the
listener, Stop and the shutdown for good. So EveryCommandRuns and StopReturns (of
the listener) and ShutdownEnds have a condition, `NoCallHangs` and
`NoCommandHangs`: again and again the listener is in no such call. TLC refutes
all three without it. With it they say that nothing else, no loss, no error, no
batch and no stream of further commands, keeps the loop from its end.

### What the violated properties show

* **EmbeddingBackfilled.** "article is saved, embedding can be backfilled"
  (`pipeline_usecase.go:195`): no code does so. The URL is known from then on and
  the item skipped; the article stays out of semantic search.
* **EveryChunkFits.** "ensuring each message does not exceed Telegram's length
  limits" (`digest.go:32`): true if every block with the header fits
  (`ChunksFit`), but nothing bounds a block.
* **RefusedAsConflict.** The loser of two concurrent additions of a URL gets 500
  with a database error, not the 409 of `feed_handler.go:33-34`. The table is
  right all the same (`OneRowPerUrl`), thanks to the UNIQUE constraint.

* **ConnectionRetried.** "Database connection failed (%v). Retrying in
  background..." (`main.go:44`): nothing retries. The process runs with a nil
  pool until the first job or command that needs it ends it with a panic.

## 4. The proofs

Every safety invariant of the passing runs is a theorem, and so are the
refinement to `Ingestion` and the safety part of the one to `JobQueue`. Each
module of proofs has one shape: an inductive invariant `IInv`, the lemmas about
the operators of the model, one lemma per group of actions with a step per
action, `Invariance` (`Spec => []IInv`), and the theorems that follow from it.
None of the invariants that matter is inductive alone; what has to be added, and
why, is the content of the proofs. TLC has checked each `IInv` on the instance of
the component's run (that of the queue is a property of `queue`). The
assumptions are the named ASSUMEs of the modules, nothing else.

| Module | For all | Theorems |
|---|---|---|
| `ChannelQueueProofs` | finite pools of workers, clients, jobs, buffer sizes, types of jobs | TypeCorrect, SendNeverPanics, FifoDelivery, SingleOwner, StopDrainsEverything, HandlersAlwaysFound |
| `ChannelQueueRefinement` | the same | ImplementsPortSafety |
| `PipelineProofs` | finite sets of feeds and items, executions, days, scores, limits, names | TypeCorrect, UrlsStoredOnce, TablesStayWhole, NothingIngestedIsForgotten, RefinesIngestion |
| `LifecycleProofs` | requests, jobs, workers, buffer sizes | TypeCorrect, TriggersMeetRunningQueue, DatabaseClosedAfterWork, AnswersStayTrue, OrderlyExitLosesNothing, UsesThePort |
| `FeedAdminProofs` | requests, URLs, ids, with and without failing calls | TypeCorrect, UrlsRegisteredOnce, DeletedFeedsStayDeleted |
| `TelegramListenerProofs` | messages, numbers of updates and of restarts | TypeCorrect, NoCommandIsLost, CommandsTakeEffectInOrder, ReportedSuccessIsReal |
| `SemanticSearchProofs` | articles, searches, models, dimensions, limits | TypeCorrect, EveryVectorFits, BothModelsAreAsked, AnswersAreRankedAndLimited |
| `DigestDeliveryProofs` | lengths of digest, blocks, header and footer, marks | TypeCorrect, NoArticleIsLost, ChunksAreTaken, DigestIsPostedInOrder |

**ChannelQueue.** A send on a closed channel is excluded because a client in
`select` still holds the read lock, hence `isRunning` is still true
(`LockDiscipline`), and `Lifecycle` ties the flag and the channel to `main`.
GracefulStop rests on the WaitGroup: `Pool` says that `wg` is the number of live
workers and that a worker leaves only when the channel is closed and empty; so
`wg = 0` after all workers have been spawned means that all have left, that the
channel is empty, and, by `OneOwner` and `ChannelOrder`, that every accepted job
has ended. `Calls` says that two callers never carry the same job, which keeps
the channel free of repetition.

**ChannelQueue implements JobQueue (safety).** Under the mapping `Port` the
initial state maps to the port's and each step to a step of the port or none:
`KnownJobs` shows that a job that is sent is new to the port, `PutDown` that a
worker who puts a job down takes exactly that job off the active ones, and
GracefulStop that the port may drain when Stop returns nil.

**Pipeline.** The UNIQUE constraint and the foreign keys are guards of two
statements among many; `Loops` says that inside the loops there is a current
feed and a current item, `Accounts` what each execution has stored so far and
that it is still there unless its feed was deleted, for good. IngestedIsDigested
follows when the execution selects nothing. The refinement needs the invariant at
every step that stores, embeds or deletes (`StoreSeen`, `EmbedSeen`,
`EnvironmentSeen`); every other step leaves the three tables alone.

**Lifecycle.** `QueueFollowsMain` and `SourcesFollowMain` say which phase the
queue is in and which sources may be busy at each step of main, `Silenced` who
has been told to stop: a source that is busy while the queue does not run can
only be a request that outlived the thirty seconds. For the accounts of the
queue there is a second invariant, `Books`: no two sources ever carry the same
job, a job that is carried has not been answered about, and Enqueue has answered
"queued" exactly for the jobs the queue knows (`AnswersStayTrue`). With the
drained queue of an orderly exit that gives `OrderlyExitLosesNothing`, the safety
part of AcceptedJobsEnd. `UsesThePort` shows that the process does to the queue
only what the port allows (`Spec => Queue!SafetySpec`), the other half of its
composition with the channel queue.

**FeedAdmin.** What makes the id of a new row new to the table, and a deletion
final, is that every row has an id that was given out (`RowsHaveUsedIds`).

**TelegramListener.** `HandledPrefix` is the heart: all updates before the
current one have been handled, the current one too when no call of its handler
is left, and the batch begins behind both what the server forgot and
`lastUpdateID`, since the poll has just told the server the latter (`pc =
"fetch"`). `EffectsUpToLast` then keeps the effects in order, and
`WhereTheWorkIs` with `RestOfPlan` lists what can be left of a handler, so that
its message of success comes only after its effect.

**SemanticSearch.** `VectorsInHand` says that a vector on its way to the table is
that of the article's own text and fits; `RefusedSoFar` which models have been
asked at each stage.

**DigestDelivery.** `HoldAdd`, `HoldEmpty` and `HoldSame` say what the three ways
to change a sequence of chunks do to the articles in it; `SizesFit` bounds the
chunk that is being built as well as the finished ones; `PostedSoFar` ties the
posted chunks to the one that is being sent: as HTML, it has not been posted; as
plain text, it may have been, but then as the last and only once. `PostInOrder`
shows that one more post keeps that order either way.

**Only model-checked**: all liveness (AcceptedJobsEnd, EnqueueReturns,
StopReturns, RunEnds, CatchUp, EveryCommandRuns, ShutdownEnds) and the fairness
part of ImplementsPort, because the prover has no rule for ENABLED; and the four
violations, which need one behaviour each, that TLC shows.

## 5. Not modelled, and why

* Router, JSON, configuration, logging: no behaviour of their own. The texts of
  replies and digests: only their length and order matter here.
* Items whose title or URL is longer than its column: the insert fails every time;
  `CatchUp` is about items the columns can hold.
* The bytes of a prompt: truncateText may cut a character in two
  (`client.go:177`). Whether the SDK then refuses the prompt is not the
  repository's code.
* `Send`, `splitMessage`, `FormatMarkdown`: the program does not call them.
* Start after Stop of the queue: main never does it; the code would then send on
  a closed channel.
* The optional migration `000002`: docker-compose mounts `000001` only, and the
  table models of `client.go:43-48` are those of `000001`. With a column of 3072
  dimensions no vector of the client (768) can be stored.
* A change of the embedding model between two lives of the process: the old
  vectors stay, and nothing marks them.
* Durability of accepted jobs over a crash: nothing promises it.
* Which articles of a run get into its digest when midnight falls into it: those
  stored before are left out if there is one stored after.
  `IngestedIsDigested` is only about digests that are empty.

## 6. Plan

Done: every component that changes state is modelled; every safety invariant the
runs check is proved. Left: the tables of `Pipeline` and `FeedAdmin` together.
Both change table feeds, and only `Pipeline` has an abstract specification; an
abstract table of feeds that `FeedAdmin` implements would close that gap.
