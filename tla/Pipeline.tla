------------------------------ MODULE Pipeline ------------------------------
(***************************************************************************)
(* The daily pipeline, internal/usecase/pipeline_usecase.go, run by any    *)
(* number of goroutines at once (queue workers and synchronous HTTP calls) *)
(* against one PostgreSQL database, while administrators change the feeds, *)
(* days pass and the process may crash.                                    *)
(*                                                                         *)
(* The database is the sets feedState, articles and embedded; each of its  *)
(* statements is atomic and each may fail, also after it took effect.  A   *)
(* run keeps in memory what ExecuteDailyPipeline keeps in its variables.   *)
(***************************************************************************)
EXTENDS Integers, FiniteSets, Sequences, Functions

CONSTANTS
    Runs,       \* concurrent executions of ExecuteDailyPipeline
    Feeds,      \* feed rows, by id; an id is used once
    NameRank,   \* where each feed's name comes in the alphabet
    Urls,       \* article URLs
    Untitled,   \* the URLs whose items have a blank title
    FeedItems,  \* the items each feed lists
    RawScores,  \* the scores the AI model may answer
    TopLimit,   \* TOP_ARTICLES_LIMIT
    MaxDay      \* bound: the last day explored

ASSUME FeedsAssumption ==
    /\ IsFiniteSet(Feeds) /\ IsFiniteSet(Urls)
    /\ NameRank \in [Feeds -> Nat]
    /\ FeedItems \in [Feeds -> Seq(Urls)]
    /\ Untitled \subseteq Urls
ASSUME LimitsAssumption ==
    RawScores \subseteq Int /\ TopLimit \in Nat \ {0} /\ MaxDay \in Nat

VARIABLES
    feedState,  \* table feeds
    articles,   \* table articles
    embedded,   \* table article_embeddings: the articles that have a vector
    today,      \* the UTC day
    calm,       \* the outages are over and the administrators are done
    pc,         \* where each run is
    todo,       \* feeds the run still has to visit, the current one first
    items,      \* items of the current feed still to visit
    row,        \* the article the run is building or has just stored
    mine,       \* history: the articles the run has stored
    digest,     \* the articles selected for the digest
    result      \* how the last execution ended

database == <<feedState, articles, embedded>>
env == <<today, calm>>
vars == <<database, env, pc, todo, items, row, mine, digest, result>>

Scores == 1..10
Rows == [feed : Feeds, url : Urls \ Untitled, score : Scores, day : 0..MaxDay]
NoRow == [feed |-> "none"]

FeedStates == {"absent", "active", "inactive", "deleted"}
RunStates == {"idle", "feeds", "feed", "item", "summarize", "create", "embed",
              "save", "top", "fallback", "notify"}
Results == {"none", "failed", "empty", "sent", "unsent"}

-----------------------------------------------------------------------------
(* The database.                                                           *)

Id(a) == <<a.feed, a.url>>
Exists(f) == feedState[f] \in {"active", "inactive"}
StoredUrl(u) == \E a \in articles : a.url = u

\* GetActiveFeeds: WHERE is_active.
ActiveFeeds == {f \in Feeds : feedState[f] = "active"}

\* The answers ORDER BY name allows, feeds of the same name in any order.
ByName(S) ==
    {s \in [1..Cardinality(S) -> S] :
        /\ IsInjective(s)
        /\ \A i, j \in DOMAIN s : i < j => NameRank[s[i]] <= NameRank[s[j]]}

\* Seeded fault: no UNIQUE constraint on articles.url.
Inserted_NoUnique(a) ==
    IF Exists(a.feed) /\ a.score \in Scores
    THEN {articles \union {a}} ELSE {}

\* Seeded fault: an upsert that moves a known URL to the inserting run's row.
Inserted_Upsert(a) ==
    IF Exists(a.feed) /\ a.score \in Scores
    THEN {{b \in articles : b.url # a.url} \union {a}} ELSE {}

\* The table an INSERT of a leaves; none if a constraint of table articles
\* refuses it: foreign key, UNIQUE url, CHECK score.
Inserted(a) ==
    IF Exists(a.feed) /\ ~StoredUrl(a.url) /\ a.score \in Scores
    THEN {articles \union {a}} ELSE {}

\* Seeded fault: the second query keeps the WHERE clause of the first.
FallbackRows_KeepsWhere == {a \in articles : a.day = today}

\* The fallback query of GetTopArticlesToday is over the whole table.
FallbackRows == articles

\* ORDER BY quality_score DESC, created_at DESC, by day.
Before(a, b) == a.score > b.score \/ (a.score = b.score /\ a.day > b.day)

\* What LIMIT TopLimit may return: ties are broken arbitrarily.
Top(S) ==
    {T \in SUBSET S :
        /\ Cardinality(T) = IF Cardinality(S) < TopLimit
                            THEN Cardinality(S) ELSE TopLimit
        /\ \A a \in T : \A b \in S \ T : ~Before(b, a)}

-----------------------------------------------------------------------------
(* The AI service and the entity.                                          *)

\* Seeded fault: the model's score is taken as it is.
Clamp_None(n) == n

Clamp(n) == IF n < 1 THEN 1 ELSE IF n > 10 THEN 10 ELSE n

\* Seeded fault: no check of the title.
ValidArticle_AnyTitle(u, n) == n \in Scores

\* NewArticle: ParseURL has already dropped the items without a link.
ValidArticle(u, n) == u \notin Untitled /\ n \in Scores

-----------------------------------------------------------------------------
Init ==
    /\ feedState \in [Feeds -> {"absent", "active"}]
    /\ articles = {}
    /\ embedded = {}
    /\ today = 0
    /\ calm = FALSE
    /\ pc = [r \in Runs |-> "idle"]
    /\ todo = [r \in Runs |-> <<>>]
    /\ items = [r \in Runs |-> <<>>]
    /\ row = [r \in Runs |-> NoRow]
    /\ mine = [r \in Runs |-> {}]
    /\ digest = [r \in Runs |-> {}]
    /\ result = [r \in Runs |-> "none"]

Goto(r, l) == pc' = [pc EXCEPT ![r] = l]

\* ExecuteDailyPipeline returns, and its variables are gone.
Return(r, res) ==
    /\ Goto(r, "idle")
    /\ result' = [result EXCEPT ![r] = res]
    /\ todo' = [todo EXCEPT ![r] = <<>>]
    /\ digest' = [digest EXCEPT ![r] = {}]
    /\ UNCHANGED <<items, row, mine>>

\* Seeded fault: the loop comes back to the item it gave up on.
AfterItem_Retry(s) == s

AfterItem(s) == Tail(s)

\* On to the next item: continue, or the end of the loop body.
NextItem(r) ==
    /\ Goto(r, "item")
    /\ items' = [items EXCEPT ![r] = AfterItem(@)]
    /\ row' = [row EXCEPT ![r] = NoRow]

-----------------------------------------------------------------------------
(* ExecuteDailyPipeline.                                                   *)

Begin(r) ==
    /\ pc[r] = "idle"
    /\ Goto(r, "feeds")
    /\ mine' = [mine EXCEPT ![r] = {}]
    /\ result' = [result EXCEPT ![r] = "none"]
    /\ UNCHANGED <<database, env, todo, items, row, digest>>

ReadFeeds(r) ==
    /\ pc[r] = "feeds"
    /\ ActiveFeeds # {}
    /\ \E s \in ByName(ActiveFeeds) : todo' = [todo EXCEPT ![r] = s]
    /\ Goto(r, "feed")
    /\ UNCHANGED <<database, env, items, row, mine, digest, result>>

\* No active feed: an empty digest is returned and nobody is notified.
NoFeeds(r) ==
    /\ pc[r] = "feeds"
    /\ ActiveFeeds = {}
    /\ Return(r, "empty")
    /\ UNCHANGED <<database, env>>

\* An error that ends the execution: of a query, or of the context at the
\* head of the loop over the feeds.
Fail(r) ==
    /\ pc[r] \in {"feeds", "top", "fallback"} \/ (pc[r] = "feed" /\ todo[r] # <<>>)
    /\ ~calm
    /\ Return(r, "failed")
    /\ UNCHANGED <<database, env>>

ParseFeed(r) ==
    /\ pc[r] = "feed"
    /\ todo[r] # <<>>
    /\ items' = [items EXCEPT ![r] = FeedItems[Head(todo[r])]]
    /\ Goto(r, "item")
    /\ UNCHANGED <<database, env, todo, row, mine, digest, result>>

\* The feed cannot be fetched or parsed: the next one is tried.
ParseFails(r) ==
    /\ pc[r] = "feed"
    /\ todo[r] # <<>>
    /\ ~calm
    /\ todo' = [todo EXCEPT ![r] = Tail(@)]
    /\ UNCHANGED <<database, env, pc, items, row, mine, digest, result>>

FeedsDone(r) ==
    /\ pc[r] = "feed"
    /\ todo[r] = <<>>
    /\ Goto(r, "top")
    /\ UNCHANGED <<database, env, todo, items, row, mine, digest, result>>

ItemsDone(r) ==
    /\ pc[r] = "item"
    /\ items[r] = <<>>
    /\ todo' = [todo EXCEPT ![r] = Tail(@)]
    /\ Goto(r, "feed")
    /\ UNCHANGED <<database, env, items, row, mine, digest, result>>

\* ArticleExistsByURL: known already, or the query fails.
SkipItem(r) ==
    /\ pc[r] = "item"
    /\ items[r] # <<>>
    /\ StoredUrl(Head(items[r])) \/ ~calm
    /\ NextItem(r)
    /\ UNCHANGED <<database, env, todo, mine, digest, result>>

NewItem(r) ==
    /\ pc[r] = "item"
    /\ items[r] # <<>>
    /\ ~StoredUrl(Head(items[r]))
    /\ Goto(r, "summarize")
    /\ UNCHANGED <<database, env, todo, items, row, mine, digest, result>>

-----------------------------------------------------------------------------
(* processArticle.                                                         *)

\* SummarizeAndScore answers and NewArticle builds the row, dated now.
Summarize(r) ==
    /\ pc[r] = "summarize"
    /\ \E n \in RawScores :
          /\ ValidArticle(Head(items[r]), Clamp(n))
          /\ row' = [row EXCEPT ![r] =
                        [feed |-> Head(todo[r]), url |-> Head(items[r]),
                         score |-> Clamp(n), day |-> today]]
    /\ Goto(r, "create")
    /\ UNCHANGED <<database, env, todo, items, mine, digest, result>>

\* The model and its fallback fail, or NewArticle rejects the item.
SummarizeFails(r) ==
    /\ pc[r] = "summarize"
    /\ ~calm \/ \E n \in RawScores : ~ValidArticle(Head(items[r]), Clamp(n))
    /\ NextItem(r)
    /\ UNCHANGED <<database, env, todo, mine, digest, result>>

CreateArticle(r) ==
    /\ pc[r] = "create"
    /\ articles' \in Inserted(row[r])
    /\ mine' = [mine EXCEPT ![r] = @ \union {Id(row[r])}]
    /\ Goto(r, "embed")
    /\ UNCHANGED <<feedState, embedded, env, todo, items, row, digest, result>>

\* A constraint is violated, or the statement fails.
CreateFails(r) ==
    /\ pc[r] = "create"
    /\ Inserted(row[r]) = {} \/ ~calm
    /\ NextItem(r)
    /\ UNCHANGED <<database, env, todo, mine, digest, result>>

\* The row is committed but the connection is lost before the answer.
CreateReplyLost(r) ==
    /\ pc[r] = "create"
    /\ ~calm
    /\ articles' \in Inserted(row[r])
    /\ mine' = [mine EXCEPT ![r] = @ \union {Id(row[r])}]
    /\ NextItem(r)
    /\ UNCHANGED <<feedState, embedded, env, todo, digest, result>>

GenerateEmbedding(r) ==
    /\ pc[r] = "embed"
    /\ Goto(r, "save")
    /\ UNCHANGED <<database, env, todo, items, row, mine, digest, result>>

\* Logged as non-fatal: processArticle returns nil without an embedding.
EmbeddingFails(r) ==
    /\ pc[r] = "embed"
    /\ ~calm
    /\ NextItem(r)
    /\ UNCHANGED <<database, env, todo, mine, digest, result>>

\* Seeded fault: no foreign key from article_embeddings to articles.
EmbeddingAllowed_NoKey(id) == TRUE

\* The foreign key of article_embeddings.
EmbeddingAllowed(id) == \E a \in articles : Id(a) = id

SaveEmbedding(r) ==
    /\ pc[r] = "save"
    /\ EmbeddingAllowed(Id(row[r]))
    /\ embedded' = embedded \union {Id(row[r])}
    /\ NextItem(r)
    /\ UNCHANGED <<feedState, articles, env, todo, mine, digest, result>>

\* The article is gone, or the statement fails: only logged.
SaveFails(r) ==
    /\ pc[r] = "save"
    /\ ~EmbeddingAllowed(Id(row[r])) \/ ~calm
    /\ NextItem(r)
    /\ UNCHANGED <<database, env, todo, mine, digest, result>>

-----------------------------------------------------------------------------
(* GetTopArticlesToday and SendDigest.                                     *)

TopToday(r) ==
    /\ pc[r] = "top"
    /\ \E T \in Top({a \in articles : a.day >= today}) :
          /\ digest' = [digest EXCEPT ![r] = T]
          /\ Goto(r, IF T = {} THEN "fallback" ELSE "notify")
    /\ UNCHANGED <<database, env, todo, items, row, mine, result>>

TopOfAll(r) ==
    /\ pc[r] = "fallback"
    /\ \E T \in Top(FallbackRows) \ {{}} : digest' = [digest EXCEPT ![r] = T]
    /\ Goto(r, "notify")
    /\ UNCHANGED <<database, env, todo, items, row, mine, result>>

\* Nothing to deliver: the notifier is not called.
NothingToSend(r) ==
    /\ pc[r] = "fallback"
    /\ Top(FallbackRows) = {{}}
    /\ Return(r, "empty")
    /\ UNCHANGED <<database, env>>

\* A failed delivery is logged, and the digest is returned all the same.
SendDigest(r) ==
    /\ pc[r] = "notify"
    /\ \E res \in {"sent"} \union (IF calm THEN {} ELSE {"unsent"}) :
          Return(r, res)
    /\ UNCHANGED <<database, env>>

-----------------------------------------------------------------------------
(* The environment.                                                        *)

\* CreateFeed: a new feed is active.
AddFeed(f) ==
    /\ ~calm
    /\ feedState[f] = "absent"
    /\ feedState' = [feedState EXCEPT ![f] = "active"]
    /\ UNCHANGED <<articles, embedded, env, pc, todo, items, row, mine, digest,
                   result>>

\* UpdateFeedStatus, from HTTP or Telegram.
ToggleFeed(f) ==
    /\ ~calm
    /\ Exists(f)
    /\ feedState' = [feedState EXCEPT ![f] =
                        IF @ = "active" THEN "inactive" ELSE "active"]
    /\ UNCHANGED <<articles, embedded, env, pc, todo, items, row, mine, digest,
                   result>>

\* DeleteFeed; the database removes what hangs on the feed.
DeleteFeed(f) ==
    /\ ~calm
    /\ Exists(f)
    /\ feedState' = [feedState EXCEPT ![f] = "deleted"]
    /\ articles' = {a \in articles : a.feed # f}
    /\ embedded' = {id \in embedded : id[1] # f}
    /\ UNCHANGED <<env, pc, todo, items, row, mine, digest, result>>

Midnight ==
    /\ today < MaxDay
    /\ today' = today + 1
    /\ UNCHANGED <<database, calm, pc, todo, items, row, mine, digest, result>>

\* The process dies and is started again: only the database survives.
Crash ==
    /\ ~calm
    /\ \E r \in Runs : pc[r] # "idle"
    /\ pc' = [r \in Runs |-> "idle"]
    /\ todo' = [r \in Runs |-> <<>>]
    /\ items' = [r \in Runs |-> <<>>]
    /\ row' = [r \in Runs |-> NoRow]
    /\ mine' = [r \in Runs |-> {}]
    /\ digest' = [r \in Runs |-> {}]
    /\ result' = [r \in Runs |-> "none"]
    /\ UNCHANGED <<database, env>>

\* From now on nothing fails and nobody changes the feeds.
CalmDown ==
    /\ ~calm
    /\ calm' = TRUE
    /\ UNCHANGED <<database, today, pc, todo, items, row, mine, digest, result>>

-----------------------------------------------------------------------------
RunStep(r) ==
    \/ ReadFeeds(r) \/ NoFeeds(r) \/ Fail(r)
    \/ ParseFeed(r) \/ ParseFails(r) \/ FeedsDone(r) \/ ItemsDone(r)
    \/ SkipItem(r) \/ NewItem(r)
    \/ Summarize(r) \/ SummarizeFails(r)
    \/ CreateArticle(r) \/ CreateFails(r) \/ CreateReplyLost(r)
    \/ GenerateEmbedding(r) \/ EmbeddingFails(r)
    \/ SaveEmbedding(r) \/ SaveFails(r)
    \/ TopToday(r) \/ TopOfAll(r) \/ NothingToSend(r)
    \/ SendDigest(r)

Environment ==
    \/ \E f \in Feeds : AddFeed(f) \/ ToggleFeed(f) \/ DeleteFeed(f)
    \/ Midnight
    \/ Crash
    \/ CalmDown

Next ==
    \/ \E r \in Runs : Begin(r) \/ RunStep(r)
    \/ Environment

Spec == Init /\ [][Next]_vars

\* A run that has begun goes on: every call it makes ends, with an answer or
\* with the expiry of its context.  Executions recur, because the scheduler
\* triggers one every day.
Fairness == \A r \in Runs : WF_vars(RunStep(r)) /\ WF_vars(Begin(r))

FairSpec == Spec /\ Fairness

-----------------------------------------------------------------------------
(* Properties.                                                             *)

\* Every variable keeps its type; a row is at hand from NewArticle to
\* SaveEmbedding and at no other time, and no row has a blank title.
TypeOK ==
    /\ feedState \in [Feeds -> FeedStates]
    /\ articles \subseteq Rows
    /\ embedded \subseteq Feeds \X Urls
    /\ today \in 0..MaxDay
    /\ calm \in BOOLEAN
    /\ pc \in [Runs -> RunStates]
    /\ todo \in [Runs -> Seq(Feeds)]
    /\ items \in [Runs -> Seq(Urls)]
    /\ row \in [Runs -> Rows \union {NoRow}]
    /\ \A r \in Runs : IF pc[r] \in {"create", "embed", "save"}
                       THEN row[r] \in Rows ELSE row[r] = NoRow
    /\ mine \in [Runs -> SUBSET (Feeds \X Urls)]
    /\ digest \in [Runs -> SUBSET Rows]
    /\ result \in [Runs -> Results]

\* No URL is stored twice, although two runs can both find it missing
\* (pipeline_usecase.go:119) before either stores it (187), and although two
\* feeds can list it.
UniqueUrl == \A a, b \in articles : a.url = b.url => a = b

\* Every article belongs to a feed that exists, and every embedding to an
\* article that exists, whatever feed is deleted between two statements of a
\* run.
ReferentialIntegrity ==
    /\ \A a \in articles : Exists(a.feed)
    /\ \A id \in embedded : \E a \in articles : Id(a) = id

\* A run that ends without a digest has stored nothing that is still there:
\* what was ingested just before midnight is still found by the fallback
\* query (feed_repo.go:211).
IngestedIsDigested ==
    \A r \in Runs : result[r] = "empty" =>
        \A a \in articles : Id(a) \notin mine[r]

\* Every execution ends, whatever fails on the way.
RunEnds == \A r \in Runs : pc[r] # "idle" ~> pc[r] = "idle"

Wanted(f) == Range(FeedItems[f]) \ Untitled

\* Once the failures are over, every titled item of every active feed gets
\* stored: an item that failed before is retried by a later run, because the
\* dedup check only skips what is in the table.  (An item is one whose texts
\* the columns can hold.)
CatchUp ==
    \A f \in Feeds : \A u \in Wanted(f) :
        (calm /\ feedState[f] = "active") ~> StoredUrl(u)

\* What the comment at pipeline_usecase.go:195 counts on, that the embedding
\* of a saved article "can be backfilled": once the failures are over, every
\* stored article of an active feed gets its embedding.
EmbeddingBackfilled ==
    \A f \in Feeds : \A u \in Wanted(f) :
        (calm /\ feedState[f] = "active" /\ EmbeddingAllowed(<<f, u>>))
            ~> <<f, u>> \in embedded

\* The three tables, seen as Ingestion sees them.
FeedSeen ==
    [f \in Feeds |-> CASE feedState[f] = "absent"  -> "absent"
                       [] feedState[f] = "deleted" -> "gone"
                       [] OTHER                    -> "live"]
StageSeen ==
    [id \in Feeds \X Urls |-> IF id \in embedded THEN "searchable"
                              ELSE IF EmbeddingAllowed(id) THEN "stored"
                              ELSE "absent"]

Ingested == INSTANCE Ingestion WITH feed <- FeedSeen, stage <- StageSeen

\* The pipeline's executions, however many overlap, fail, are retried or die,
\* and the administrators do to the database what Ingestion allows and nothing
\* else: no statement of a run takes back or doubles what another one did, and
\* no article disappears or loses its embedding except with its feed.
ImplementsIngestion == Ingested!Spec
=============================================================================
