--------------------------- MODULE PipelineProofs ---------------------------
(***************************************************************************)
(* Proofs about Pipeline, for any finite number of feeds and items, any    *)
(* number of overlapping executions, any scores of the model and any day:  *)
(* the inductive invariant IInv, and from it the integrity of the three    *)
(* tables, that an execution without a digest has lost nothing, and that   *)
(* the executions and administrators do to the database what Ingestion     *)
(* allows and nothing else.                                                *)
(***************************************************************************)
EXTENDS Pipeline, FiniteSetTheorems, SequenceTheorems, TLAPS

\* Inside the loop over the feeds there is a current feed, and inside the loop
\* over its items, past the head, a current item.
Loops ==
    \A r \in Runs :
        /\ pc[r] \in {"item", "summarize", "create", "embed", "save"} =>
               todo[r] # <<>>
        /\ pc[r] \in {"summarize", "create", "embed", "save"} =>
               items[r] # <<>>

\* An execution starts with nothing to its account and has no result before
\* its end.  What it stored is still there, unless the feed was deleted, which
\* is for good: nobody stores the same article again.
Accounts ==
    \A r \in Runs :
        /\ pc[r] = "feeds" => mine[r] = {}
        /\ pc[r] # "idle" => result[r] = "none"
        /\ \A id \in mine[r] :
               EmbeddingAllowed(id) \/ feedState[id[1]] = "deleted"

\* The tables: what a run checks and what the constraints keep.
Tables == IsFiniteSet(articles) /\ UniqueUrl /\ ReferentialIntegrity

\* The inductive invariant.
IInv == TypeOK /\ Loops /\ Tables /\ Accounts /\ IngestedIsDigested

USE DEF FeedStates, RunStates, Results

-----------------------------------------------------------------------------
(* The operators of the model.                                             *)

\* Whatever the model answers, the score that is stored is in range.
LEMMA ClampInRange == \A n \in Int : Clamp(n) \in Scores
BY DEF Clamp, Scores

\* Every answer of ORDER BY name is a sequence of feeds.
LEMMA ByNameSeq ==
    ASSUME NEW S \in SUBSET Feeds, NEW s \in ByName(S)
    PROVE  s \in Seq(Feeds)
<1>1. Cardinality(S) \in Nat
  BY FeedsAssumption, FS_Subset, FS_CardinalityType
<1>. QED  BY <1>1 DEF ByName

\* A selection for the digest consists of rows, and it is empty only if there
\* is nothing to select from.
LEMMA TopSelects ==
    ASSUME NEW S \in SUBSET articles, IsFiniteSet(articles), NEW T \in Top(S)
    PROVE  T \subseteq articles /\ (T = {} => S = {})
<1>1. T \subseteq articles
  BY DEF Top
<1>2. IsFiniteSet(S) /\ Cardinality(S) \in Nat
  BY FS_Subset, FS_CardinalityType
<1>3. ASSUME T = {} PROVE S = {}
  <2>1. Cardinality(T) = 0
    BY <1>3, FS_EmptySet
  <2>2. Cardinality(S) = 0
    BY <1>2, <2>1, LimitsAssumption DEF Top
  <2>. QED  BY <1>2, <2>2, FS_EmptySet
<1>. QED  BY <1>1, <1>3

\* What an accepted INSERT means.
LEMMA InsertedRow ==
    ASSUME NEW a, articles' \in Inserted(a)
    PROVE  /\ Exists(a.feed) /\ ~StoredUrl(a.url)
           /\ articles' = articles \union {a}
BY DEF Inserted

-----------------------------------------------------------------------------
(* Steps that read the database, or do not touch it.                       *)

\* What a step that leaves the database alone leaves true of it.
LEMMA TablesKept ==
    ASSUME IInv, UNCHANGED database
    PROVE  /\ Tables'
           /\ \A id : EmbeddingAllowed(id)' <=> EmbeddingAllowed(id)
BY DEF IInv, Tables, UniqueUrl, ReferentialIntegrity, EmbeddingAllowed, Exists,
       database, Id

\* A step that neither stores nor ends an execution keeps the accounts.
LEMMA AccountsKept ==
    ASSUME IInv, UNCHANGED <<database, mine, result>>, NEW r \in Runs, NEW l,
           pc[r] # "idle", l # "feeds", Goto(r, l)
    PROVE  Accounts' /\ IngestedIsDigested'
<1>1. \A q \in Runs : /\ pc'[q] = "feeds" => pc[q] = "feeds"
                      /\ pc'[q] # "idle" => pc[q] # "idle"
  BY DEF Goto, IInv, TypeOK
<1>2. \A id : EmbeddingAllowed(id)' <=> EmbeddingAllowed(id)
  BY TablesKept
<1>. QED  BY <1>1, <1>2 DEF Accounts, IngestedIsDigested, IInv, database

\* continue, and the end of the loop body.
LEMMA NextItemInv ==
    ASSUME IInv, NEW r \in Runs, NextItem(r),
           pc[r] \in {"item", "summarize", "create", "embed", "save"},
           items[r] # <<>>, UNCHANGED <<database, env, todo, mine, digest, result>>
    PROVE  IInv'
<1>1. Tail(items[r]) \in Seq(Urls)
  BY DEF IInv, TypeOK
<1>2. TypeOK'
  BY <1>1 DEF NextItem, AfterItem, Goto, database, env, IInv, TypeOK
<1>3. Loops'
  BY DEF NextItem, AfterItem, Goto, IInv, TypeOK, Loops
<1>4. Accounts' /\ IngestedIsDigested'
  <2>1. Goto(r, "item") /\ pc[r] # "idle"
    BY DEF NextItem
  <2>. QED  BY <2>1, AccountsKept
<1>. QED  BY <1>2, <1>3, <1>4, TablesKept DEF IInv

\* ExecuteDailyPipeline returns.  It may only return without a digest if
\* nothing it stored is left.
LEMMA ReturnInv ==
    ASSUME IInv, NEW r \in Runs, NEW res \in Results, Return(r, res),
           pc[r] \in {"feeds", "feed", "top", "fallback", "notify"},
           res = "empty" => articles = {} \/ mine[r] = {},
           UNCHANGED <<database, env>>
    PROVE  IInv'
<1>1. TypeOK'
  <2>1. /\ <<>> \in Seq(Feeds)
        /\ {} \in SUBSET Rows
    OBVIOUS
  <2>2. /\ pc' \in [Runs -> RunStates]
        /\ todo' \in [Runs -> Seq(Feeds)]
        /\ digest' \in [Runs -> SUBSET Rows]
        /\ result' \in [Runs -> Results]
    BY <2>1 DEF Return, Goto, IInv, TypeOK
  <2>3. /\ row' = row /\ items' = items /\ mine' = mine
        /\ \A q \in Runs : IF pc'[q] \in {"create", "embed", "save"}
                          THEN row[q] \in Rows ELSE row[q] = NoRow
    BY DEF Return, Goto, IInv, TypeOK
  <2>. QED  BY <2>2, <2>3 DEF database, env, IInv, TypeOK
<1>2. Loops'
  <2>1. /\ pc'[r] = "idle"
        /\ \A q \in Runs \ {r} : pc'[q] = pc[q] /\ todo'[q] = todo[q]
        /\ items' = items
    BY DEF Return, Goto, IInv, TypeOK
  <2>. QED  BY <2>1 DEF IInv, Loops
<1>3. Accounts'
  BY TablesKept DEF Return, Goto, IInv, TypeOK, Accounts, database
<1>4. IngestedIsDigested'
  BY DEF Return, Goto, IInv, TypeOK, IngestedIsDigested, database
<1>. QED  BY <1>1, <1>2, <1>3, <1>4, TablesKept DEF IInv

-----------------------------------------------------------------------------
(* The steps of an execution.                                              *)

\* The empty database and the idle runs.
LEMMA InitInv == Init => IInv
<1>. SUFFICES ASSUME Init PROVE IInv
  OBVIOUS
<1>1. TypeOK
  <2>1. 0 \in 0..MaxDay
    BY LimitsAssumption
  <2>2. /\ todo \in [Runs -> Seq(Feeds)] /\ items \in [Runs -> Seq(Urls)]
        /\ mine \in [Runs -> SUBSET (Feeds \X Urls)]
        /\ digest \in [Runs -> SUBSET Rows]
    BY DEF Init
  <2>3. /\ feedState \in [Feeds -> FeedStates]
        /\ pc \in [Runs -> RunStates] /\ result \in [Runs -> Results]
        /\ row \in [Runs -> Rows \union {NoRow}]
    BY DEF Init
  <2>. QED  BY <2>1, <2>2, <2>3 DEF Init, TypeOK
<1>2. Tables
  BY FS_EmptySet DEF Init, Tables, UniqueUrl, ReferentialIntegrity
<1>3. Loops /\ Accounts /\ IngestedIsDigested
  BY DEF Init, Loops, Accounts, IngestedIsDigested
<1>. QED  BY <1>1, <1>2, <1>3 DEF IInv

\* The loops over feeds and items.
LEMMA LoopStepInv ==
    ASSUME IInv, NEW r \in Runs,
           \/ ParseFeed(r) \/ ParseFails(r) \/ FeedsDone(r) \/ ItemsDone(r)
           \/ NewItem(r) \/ Summarize(r) \/ GenerateEmbedding(r)
    PROVE  IInv'
<1>1. Tables'
  BY TablesKept DEF ParseFeed, ParseFails, FeedsDone, ItemsDone, NewItem,
                    Summarize, GenerateEmbedding
<1>2. ASSUME ParseFails(r) PROVE IInv'
  <2>1. Tail(todo[r]) \in Seq(Feeds)
    BY <1>2 DEF ParseFails, IInv, TypeOK
  <2>2. TypeOK' /\ Loops'
    BY <1>2, <2>1 DEF ParseFails, IInv, TypeOK, Loops, database, env
  <2>3. Accounts' /\ IngestedIsDigested'
    BY <1>2, TablesKept
    DEF ParseFails, IInv, Accounts, IngestedIsDigested, database
  <2>. QED  BY <1>1, <2>2, <2>3 DEF IInv
<1>3. ASSUME ParseFeed(r) PROVE IInv'
  <2>1. FeedItems[Head(todo[r])] \in Seq(Urls)
    BY <1>3, FeedsAssumption DEF ParseFeed, IInv, TypeOK
  <2>2. TypeOK' /\ Loops'
    BY <1>3, <2>1 DEF ParseFeed, Goto, IInv, TypeOK, Loops, database, env
  <2>3. Accounts' /\ IngestedIsDigested'
    BY <1>3, AccountsKept DEF ParseFeed
  <2>. QED  BY <1>1, <2>2, <2>3 DEF IInv
<1>4. ASSUME FeedsDone(r) PROVE IInv'
  <2>1. TypeOK' /\ Loops'
    BY <1>4 DEF FeedsDone, Goto, IInv, TypeOK, Loops, database, env
  <2>2. Accounts' /\ IngestedIsDigested'
    BY <1>4, AccountsKept DEF FeedsDone
  <2>. QED  BY <1>1, <2>1, <2>2 DEF IInv
<1>5. ASSUME ItemsDone(r) PROVE IInv'
  <2>1. Tail(todo[r]) \in Seq(Feeds)
    BY <1>5 DEF ItemsDone, IInv, TypeOK, Loops
  <2>2. TypeOK' /\ Loops'
    BY <1>5, <2>1 DEF ItemsDone, Goto, IInv, TypeOK, Loops, database, env
  <2>3. Accounts' /\ IngestedIsDigested'
    BY <1>5, AccountsKept DEF ItemsDone
  <2>. QED  BY <1>1, <2>2, <2>3 DEF IInv
<1>6. ASSUME NewItem(r) PROVE IInv'
  <2>1. TypeOK' /\ Loops'
    BY <1>6 DEF NewItem, Goto, IInv, TypeOK, Loops, database, env
  <2>2. Accounts' /\ IngestedIsDigested'
    BY <1>6, AccountsKept DEF NewItem
  <2>. QED  BY <1>1, <2>1, <2>2 DEF IInv
<1>7. ASSUME Summarize(r) PROVE IInv'
  <2>1. PICK n \in RawScores :
           /\ ValidArticle(Head(items[r]), Clamp(n))
           /\ row' = [row EXCEPT ![r] =
                         [feed |-> Head(todo[r]), url |-> Head(items[r]),
                          score |-> Clamp(n), day |-> today]]
    BY <1>7 DEF Summarize
  <2>2. /\ Head(todo[r]) \in Feeds
        /\ Head(items[r]) \in Urls \ Untitled
        /\ Clamp(n) \in Scores /\ today \in 0..MaxDay
    BY <1>7, <2>1 DEF Summarize, ValidArticle, IInv, TypeOK, Loops
  <2>3. row'[r] \in Rows /\ \A q \in Runs \ {r} : row'[q] = row[q]
    BY <2>1, <2>2 DEF Rows, IInv, TypeOK
  <2>4. TypeOK'
    BY <1>7, <2>1, <2>3 DEF Summarize, Goto, IInv, TypeOK, database, env
  <2>5. Loops'
    BY <1>7 DEF Summarize, Goto, IInv, TypeOK, Loops
  <2>6. Accounts' /\ IngestedIsDigested'
    BY <1>7, AccountsKept DEF Summarize
  <2>. QED  BY <1>1, <2>4, <2>5, <2>6 DEF IInv
<1>8. ASSUME GenerateEmbedding(r) PROVE IInv'
  <2>1. TypeOK' /\ Loops'
    BY <1>8 DEF GenerateEmbedding, Goto, IInv, TypeOK, Loops, database, env
  <2>2. Accounts' /\ IngestedIsDigested'
    BY <1>8, AccountsKept DEF GenerateEmbedding
  <2>. QED  BY <1>1, <2>1, <2>2 DEF IInv
<1>. QED  BY <1>2, <1>3, <1>4, <1>5, <1>6, <1>7, <1>8

\* The steps at which an item is given up.
LEMMA SkipStepInv ==
    ASSUME IInv, NEW r \in Runs,
           \/ SkipItem(r) \/ SummarizeFails(r) \/ CreateFails(r)
           \/ EmbeddingFails(r) \/ SaveFails(r)
    PROVE  IInv'
<1>1. /\ NextItem(r) /\ UNCHANGED <<database, env, todo, mine, digest, result>>
      /\ pc[r] \in {"item", "summarize", "create", "embed", "save"}
      /\ items[r] # <<>>
  BY DEF SkipItem, SummarizeFails, CreateFails, EmbeddingFails, SaveFails,
         IInv, Loops
<1>. QED  BY <1>1, NextItemInv

\* The end of an execution.
LEMMA EndStepInv ==
    ASSUME IInv, NEW r \in Runs,
           NoFeeds(r) \/ Fail(r) \/ NothingToSend(r) \/ SendDigest(r)
    PROVE  IInv'
<1>1. CASE NoFeeds(r)
  <2>1. mine[r] = {}
    BY <1>1 DEF NoFeeds, IInv, Accounts
  <2>. QED  BY <1>1, <2>1, ReturnInv DEF NoFeeds
<1>2. CASE Fail(r)
  BY <1>2, ReturnInv DEF Fail
<1>3. CASE NothingToSend(r)
  <2>1. articles = {}
    BY <1>3, TopSelects DEF NothingToSend, FallbackRows, IInv, Tables
  <2>. QED  BY <1>3, <2>1, ReturnInv DEF NothingToSend
<1>4. CASE SendDigest(r)
  BY <1>4, ReturnInv DEF SendDigest
<1>. QED  BY <1>1, <1>2, <1>3, <1>4

\* The beginning, and the selection for the digest.
LEMMA SelectStepInv ==
    ASSUME IInv, NEW r \in Runs,
           Begin(r) \/ ReadFeeds(r) \/ TopToday(r) \/ TopOfAll(r)
    PROVE  IInv'
<1>1. CASE Begin(r)
  <2>1. TypeOK'
    BY <1>1 DEF Begin, Goto, IInv, TypeOK, database, env
  <2>2. Loops'
    BY <1>1 DEF Begin, Goto, IInv, TypeOK, Loops
  <2>3. Accounts' /\ IngestedIsDigested'
    BY <1>1, TablesKept DEF Begin, Goto, IInv, TypeOK, Accounts,
                            IngestedIsDigested, database
  <2>. QED  BY <1>1, <2>1, <2>2, <2>3, TablesKept DEF Begin, IInv
<1>2. CASE ReadFeeds(r)
  <2>1. PICK s \in ByName(ActiveFeeds) : todo' = [todo EXCEPT ![r] = s]
    BY <1>2 DEF ReadFeeds
  <2>2. s \in Seq(Feeds)
    BY <2>1, ByNameSeq DEF ActiveFeeds
  <2>3. TypeOK'
    BY <1>2, <2>1, <2>2 DEF ReadFeeds, Goto, IInv, TypeOK, database, env
  <2>4. Loops'
    BY <1>2, <2>1 DEF ReadFeeds, Goto, IInv, TypeOK, Loops
  <2>5. Accounts' /\ IngestedIsDigested'
    BY <1>2, AccountsKept DEF ReadFeeds
  <2>. QED  BY <1>2, <2>3, <2>4, <2>5, TablesKept DEF ReadFeeds, IInv
<1>3. CASE TopToday(r) \/ TopOfAll(r)
  <2>1. PICK T \in SUBSET articles, l \in {"fallback", "notify"} :
           digest' = [digest EXCEPT ![r] = T] /\ Goto(r, l)
    BY <1>3, TopSelects DEF TopToday, TopOfAll, FallbackRows, Top
  <2>2. UNCHANGED <<database, env, todo, items, row, mine, result>>
    BY <1>3 DEF TopToday, TopOfAll
  <2>3. TypeOK'
    BY <1>3, <2>1, <2>2 DEF TopToday, TopOfAll, Goto, IInv, TypeOK, database,
                            env
  <2>4. Loops'
    BY <2>1, <2>2 DEF Goto, IInv, TypeOK, Loops
  <2>5. Accounts' /\ IngestedIsDigested'
    <3>1. pc[r] # "idle" /\ l # "feeds"
      BY <1>3 DEF TopToday, TopOfAll
    <3>. QED  BY <2>1, <2>2, <3>1, AccountsKept
  <2>. QED  BY <2>2, <2>3, <2>4, <2>5, TablesKept DEF IInv
<1>. QED  BY <1>1, <1>2, <1>3

-----------------------------------------------------------------------------
(* The steps that change the tables.                                       *)

\* The INSERT, answered or not: another run may have stored the URL since this
\* one looked for it, and then the constraint refuses the row.
LEMMA StoreStepInv ==
    ASSUME IInv, NEW r \in Runs, CreateArticle(r) \/ CreateReplyLost(r)
    PROVE  IInv'
<1>. DEFINE a == row[r]
<1>1. /\ a \in Rows /\ Exists(a.feed) /\ ~StoredUrl(a.url)
      /\ articles' = articles \union {a}
      /\ UNCHANGED <<feedState, embedded, env, todo, digest, result>>
      /\ pc[r] = "create"
  BY InsertedRow DEF CreateArticle, CreateReplyLost, IInv, TypeOK
<1>2. /\ mine' = [mine EXCEPT ![r] = @ \union {Id(a)}]
      /\ Id(a) \in Feeds \X Urls
  BY <1>1 DEF CreateArticle, CreateReplyLost, Rows, Id
<1>3. /\ items' \in [Runs -> Seq(Urls)]
      /\ pc' \in [Runs -> RunStates] /\ row' \in [Runs -> Rows \union {NoRow}]
      /\ \A q \in Runs : IF pc'[q] \in {"create", "embed", "save"}
                         THEN row'[q] \in Rows ELSE row'[q] = NoRow
      /\ Loops'
  <2>1. CASE CreateArticle(r)
    BY <2>1 DEF CreateArticle, Goto, IInv, TypeOK, Loops
  <2>2. CASE CreateReplyLost(r)
    <3>1. Tail(items[r]) \in Seq(Urls)
      BY <2>2 DEF CreateReplyLost, IInv, TypeOK, Loops
    <3>. QED  BY <2>2, <3>1 DEF CreateReplyLost, NextItem, AfterItem, Goto,
                                IInv, TypeOK, Loops
  <2>. QED  BY <2>1, <2>2
<1>4. /\ pc'[r] \in {"embed", "item"}
      /\ \A q \in Runs \ {r} : pc'[q] = pc[q]
  BY <1>1 DEF CreateArticle, CreateReplyLost, NextItem, Goto, IInv, TypeOK
<1>. HIDE DEF a
<1>5. TypeOK'
  BY <1>1, <1>2, <1>3 DEF IInv, TypeOK, env
<1>6. Tables'
  <2>1. IsFiniteSet(articles)'
    BY <1>1, FS_AddElement DEF IInv, Tables
  <2>2. UniqueUrl'
    BY <1>1 DEF IInv, Tables, UniqueUrl, StoredUrl
  <2>3. ReferentialIntegrity'
    BY <1>1 DEF IInv, Tables, ReferentialIntegrity, Exists, Id
  <2>. QED  BY <2>1, <2>2, <2>3 DEF Tables
<1>7. \A id : EmbeddingAllowed(id)' <=> EmbeddingAllowed(id) \/ id = Id(a)
  BY <1>1 DEF EmbeddingAllowed, Id
<1>8. \A q \in Runs : mine'[q] = IF q = r THEN mine[q] \union {Id(a)} ELSE mine[q]
  BY <1>2 DEF IInv, TypeOK
<1>9. Accounts'
  <2>1. ASSUME NEW q \in Runs
        PROVE  /\ pc'[q] = "feeds" => mine'[q] = {}
               /\ pc'[q] # "idle" => result'[q] = "none"
    BY <1>1, <1>4, <1>8 DEF IInv, Accounts
  <2>2. ASSUME NEW q \in Runs, NEW id \in mine'[q]
        PROVE  EmbeddingAllowed(id)' \/ feedState'[id[1]] = "deleted"
    <3>1. CASE id \in mine[q]
      <4>1. EmbeddingAllowed(id) \/ feedState[id[1]] = "deleted"
        BY <3>1 DEF IInv, Accounts
      <4>. QED  BY <1>1, <1>7, <4>1
    <3>2. CASE id \notin mine[q]
      BY <1>7, <1>8, <2>2, <3>2
    <3>. QED  BY <3>1, <3>2
  <2>. QED  BY <2>1, <2>2 DEF Accounts
<1>10. IngestedIsDigested'
  <2>1. result[r] = "none"
    BY <1>1 DEF IInv, Accounts
  <2>2. ASSUME NEW q \in Runs, Id(a) \in mine[q] PROVE FALSE
    <3>1. EmbeddingAllowed(Id(a)) \/ feedState[a.feed] = "deleted"
      BY <2>2 DEF IInv, Accounts, Id
    <3>2. ~EmbeddingAllowed(Id(a))
      BY <1>1 DEF EmbeddingAllowed, StoredUrl, Id
    <3>. QED  BY <1>1, <3>1, <3>2 DEF Exists
  <2>. QED  BY <1>1, <1>8, <2>1, <2>2 DEF IInv, IngestedIsDigested, Id
<1>. QED  BY <1>3, <1>5, <1>6, <1>9, <1>10 DEF IInv

\* The vector is saved, if the article is still there.
LEMMA EmbedStepInv ==
    ASSUME IInv, NEW r \in Runs, SaveEmbedding(r)
    PROVE  IInv'
<1>1. /\ row[r] \in Rows /\ items[r] # <<>> /\ pc[r] = "save"
      /\ EmbeddingAllowed(Id(row[r]))
      /\ embedded' = embedded \union {Id(row[r])}
      /\ UNCHANGED <<feedState, articles, env, todo, mine, digest, result>>
      /\ NextItem(r)
  BY DEF SaveEmbedding, IInv, TypeOK, Loops
<1>2. Id(row[r]) \in Feeds \X Urls
  BY <1>1 DEF Rows, Id
<1>3. Tail(items[r]) \in Seq(Urls)
  BY <1>1 DEF IInv, TypeOK
<1>4. TypeOK'
  BY <1>1, <1>2, <1>3 DEF NextItem, AfterItem, Goto, IInv, TypeOK, env
<1>5. Loops'
  BY <1>1, <1>3 DEF NextItem, AfterItem, Goto, IInv, TypeOK, Loops
<1>6. Tables'
  BY <1>1 DEF IInv, Tables, UniqueUrl, ReferentialIntegrity, Exists,
              EmbeddingAllowed, Id
<1>7. Accounts' /\ IngestedIsDigested'
  BY <1>1 DEF NextItem, Goto, IInv, TypeOK, Accounts, IngestedIsDigested,
              EmbeddingAllowed, Id
<1>. QED  BY <1>4, <1>5, <1>6, <1>7 DEF IInv

\* The administrators, the calendar and a crash.
LEMMA EnvironmentInv ==
    ASSUME IInv, Environment
    PROVE  IInv'
<1>1. ASSUME NEW f \in Feeds, AddFeed(f) \/ ToggleFeed(f) PROVE IInv'
  <2>1. /\ UNCHANGED <<articles, embedded, env, pc, todo, items, row, mine,
                       digest, result>>
        /\ \A g \in Feeds : /\ Exists(g) => Exists(g)'
                            /\ feedState[g] = "deleted" => feedState'[g] = "deleted"
        /\ feedState' \in [Feeds -> FeedStates]
    BY <1>1 DEF AddFeed, ToggleFeed, Exists, IInv, TypeOK
  <2>2. TypeOK' /\ Loops'
    BY <2>1 DEF IInv, TypeOK, Loops, env
  <2>3. Tables'
    BY <2>1 DEF IInv, TypeOK, Rows, Tables, UniqueUrl, ReferentialIntegrity, Id
  <2>4. Accounts'
    <3>1. \A q \in Runs : \A id \in mine[q] : id[1] \in Feeds
      BY DEF IInv, TypeOK
    <3>. QED  BY <2>1, <3>1 DEF IInv, Accounts, EmbeddingAllowed, Id
  <2>5. IngestedIsDigested'
    BY <2>1 DEF IInv, IngestedIsDigested, Id
  <2>. QED  BY <2>2, <2>3, <2>4, <2>5 DEF IInv
<1>2. ASSUME NEW f \in Feeds, DeleteFeed(f) PROVE IInv'
  <2>1. /\ articles' = {a \in articles : a.feed # f}
        /\ embedded' = {id \in embedded : id[1] # f}
        /\ UNCHANGED <<env, pc, todo, items, row, mine, digest, result>>
        /\ feedState'[f] = "deleted"
        /\ \A g \in Feeds \ {f} : feedState'[g] = feedState[g]
        /\ feedState' \in [Feeds -> FeedStates]
    BY <1>2 DEF DeleteFeed, IInv, TypeOK
  <2>2. TypeOK' /\ Loops'
    BY <2>1 DEF IInv, TypeOK, Loops, env
  <2>3. Tables'
    <3>1. IsFiniteSet(articles)'
      BY <2>1, FS_Subset DEF IInv, Tables
    <3>2. UniqueUrl'
      BY <2>1 DEF IInv, Tables, UniqueUrl
    <3>3. ReferentialIntegrity'
      BY <2>1 DEF IInv, TypeOK, Rows, Tables, ReferentialIntegrity, Exists, Id
    <3>. QED  BY <3>1, <3>2, <3>3 DEF Tables
  <2>4. Accounts'
    <3>1. ASSUME NEW id \in Feeds \X Urls, EmbeddingAllowed(id), id[1] # f
          PROVE  EmbeddingAllowed(id)'
      BY <2>1, <3>1 DEF EmbeddingAllowed, Id
    <3>2. \A q \in Runs : mine[q] \subseteq Feeds \X Urls
      BY DEF IInv, TypeOK
    <3>. QED  BY <2>1, <3>1, <3>2 DEF IInv, Accounts
  <2>5. IngestedIsDigested'
    BY <2>1 DEF IInv, IngestedIsDigested, Id
  <2>. QED  BY <2>2, <2>3, <2>4, <2>5 DEF IInv
<1>3. CASE Midnight \/ CalmDown
  <2>1. today \in Nat /\ today <= MaxDay /\ calm \in BOOLEAN
    BY LimitsAssumption DEF IInv, TypeOK
  <2>2. today' \in 0..MaxDay /\ calm' \in BOOLEAN
    <3>1. (today' = today + 1 /\ today < MaxDay) \/ today' = today
      BY <1>3 DEF Midnight, CalmDown
    <3>2. calm' \in BOOLEAN
      BY <1>3, <2>1 DEF Midnight, CalmDown
    <3>. QED  BY <2>1, <3>1, <3>2, LimitsAssumption
  <2>3. UNCHANGED <<database, pc, todo, items, row, mine, digest, result>>
    BY <1>3 DEF Midnight, CalmDown
  <2>4. TypeOK' /\ Loops'
    BY <2>2, <2>3 DEF IInv, TypeOK, Loops, database
  <2>5. Accounts' /\ IngestedIsDigested'
    BY <2>3, TablesKept DEF IInv, Accounts, IngestedIsDigested, database
  <2>. QED  BY <2>3, <2>4, <2>5, TablesKept DEF IInv
<1>4. CASE Crash
  <2>1. /\ todo' \in [Runs -> Seq(Feeds)] /\ items' \in [Runs -> Seq(Urls)]
        /\ mine' \in [Runs -> SUBSET (Feeds \X Urls)]
        /\ digest' \in [Runs -> SUBSET Rows]
        /\ pc' \in [Runs -> RunStates] /\ result' \in [Runs -> Results]
        /\ row' \in [Runs -> Rows \union {NoRow}]
    BY <1>4 DEF Crash
  <2>2. TypeOK'
    BY <1>4, <2>1 DEF Crash, IInv, TypeOK, database, env
  <2>3. Loops' /\ Accounts' /\ IngestedIsDigested'
    BY <1>4 DEF Crash, Loops, Accounts, IngestedIsDigested
  <2>. QED  BY <1>4, <2>2, <2>3, TablesKept DEF Crash, IInv
<1>. QED  BY <1>1, <1>2, <1>3, <1>4 DEF Environment

-----------------------------------------------------------------------------
(* The theorems about the tables.                                          *)

\* The inductive invariant holds in every reachable state.
THEOREM Invariance == Spec => []IInv
<1>1. IInv /\ [Next]_vars => IInv'
  <2>. SUFFICES ASSUME IInv, [Next]_vars PROVE IInv'
    OBVIOUS
  <2>1. ASSUME NEW r \in Runs, Begin(r) \/ RunStep(r) PROVE IInv'
    BY <2>1, LoopStepInv, SkipStepInv, EndStepInv, SelectStepInv,
       StoreStepInv, EmbedStepInv DEF RunStep
  <2>2. CASE Environment
    BY <2>2, EnvironmentInv
  <2>3. CASE UNCHANGED vars
    <3>1. TypeOK' /\ Loops' /\ Accounts' /\ IngestedIsDigested'
      BY <2>3, TablesKept DEF vars, database, env, IInv, TypeOK, Loops,
                              Accounts, IngestedIsDigested
    <3>. QED  BY <2>3, <3>1, TablesKept DEF vars, IInv
  <2>. QED  BY <2>1, <2>2, <2>3 DEF Next
<1>. QED  BY InitInv, <1>1, PTL DEF Spec

\* Every variable keeps its type; a row is at hand exactly from NewArticle to
\* SaveEmbedding, and no stored row has a blank title.
THEOREM TypeCorrect == Spec => []TypeOK
<1>1. IInv => TypeOK
  BY DEF IInv
<1>. QED  BY <1>1, Invariance, PTL

\* No URL is stored twice, however many runs found it missing
\* (pipeline_usecase.go:119) before one of them stored it (187).
THEOREM UrlsStoredOnce == Spec => []UniqueUrl
<1>1. IInv => UniqueUrl
  BY DEF IInv, Tables
<1>. QED  BY <1>1, Invariance, PTL

\* No article without its feed and no embedding without its article, whatever
\* feed is deleted between two statements of a run.
THEOREM TablesStayWhole == Spec => []ReferentialIntegrity
<1>1. IInv => ReferentialIntegrity
  BY DEF IInv, Tables
<1>. QED  BY <1>1, Invariance, PTL

\* An execution that ends without a digest has stored nothing that is still
\* there: the fallback query finds what was stored before midnight
\* (feed_repo.go:211).
THEOREM NothingIngestedIsForgotten == Spec => []IngestedIsDigested
<1>1. IInv => IngestedIsDigested
  BY DEF IInv
<1>. QED  BY <1>1, Invariance, PTL

-----------------------------------------------------------------------------
(* The refinement of Ingestion.                                            *)

\* A step that leaves the tables alone is none of Ingestion.
LEMMA UnseenStep == UNCHANGED database => UNCHANGED Ingested!vars
BY DEF database, Ingested!vars, FeedSeen, StageSeen, EmbeddingAllowed, Id

\* The INSERT of a run is Store: the URL was with no feed.
LEMMA StoreSeen ==
    ASSUME IInv, NEW r \in Runs, CreateArticle(r) \/ CreateReplyLost(r)
    PROVE  \E f \in Feeds : \E u \in Urls : Ingested!Store(f, u)
<1>. PICK a : a = row[r]
  OBVIOUS
<1>1. /\ a \in Rows /\ Exists(a.feed) /\ ~StoredUrl(a.url)
      /\ articles' = articles \union {a}
      /\ UNCHANGED <<feedState, embedded>>
  BY InsertedRow DEF CreateArticle, CreateReplyLost, IInv, TypeOK
<1>2. a.feed \in Feeds /\ a.url \in Urls
  BY <1>1 DEF Rows
<1>3. FeedSeen[a.feed] = "live" /\ FeedSeen' = FeedSeen
  BY <1>1, <1>2 DEF FeedSeen, Exists
<1>4. \A g : ~EmbeddingAllowed(<<g, a.url>>)
  BY <1>1 DEF EmbeddingAllowed, StoredUrl, Id
<1>5. \A g : <<g, a.url>> \notin embedded
  BY <1>4 DEF EmbeddingAllowed, IInv, Tables, ReferentialIntegrity
<1>6. \A g \in Feeds : StageSeen[<<g, a.url>>] = "absent"
  BY <1>2, <1>4, <1>5 DEF StageSeen
<1>7. StageSeen' = [StageSeen EXCEPT ![<<a.feed, a.url>>] = "stored"]
  <2>1. \A id : EmbeddingAllowed(id)'
                    <=> EmbeddingAllowed(id) \/ id = <<a.feed, a.url>>
    BY <1>1 DEF EmbeddingAllowed, Id
  <2>. QED  BY <1>1, <1>2, <1>5, <2>1 DEF StageSeen
<1>8. Ingested!Store(a.feed, a.url)
  BY <1>3, <1>6, <1>7 DEF Ingested!Store
<1>. QED  BY <1>2, <1>8

\* Saving a vector is Embed, or none if the article had one.
LEMMA EmbedSeen ==
    ASSUME IInv, NEW r \in Runs, SaveEmbedding(r)
    PROVE  \/ UNCHANGED Ingested!vars
           \/ \E f \in Feeds : \E u \in Urls : Ingested!Embed(f, u)
<1>. PICK f, u : f = row[r].feed /\ u = row[r].url
  OBVIOUS
<1>1. /\ f \in Feeds /\ u \in Urls /\ Id(row[r]) = <<f, u>>
      /\ EmbeddingAllowed(<<f, u>>)
      /\ embedded' = embedded \union {<<f, u>>}
      /\ UNCHANGED <<feedState, articles>>
  BY DEF SaveEmbedding, IInv, TypeOK, Rows, Id
<1>2. CASE <<f, u>> \in embedded
  <2>1. UNCHANGED database
    BY <1>1, <1>2 DEF database
  <2>. QED  BY <2>1, UnseenStep
<1>3. CASE <<f, u>> \notin embedded
  <2>1. StageSeen[<<f, u>>] = "stored" /\ FeedSeen' = FeedSeen
    BY <1>1, <1>3 DEF StageSeen, FeedSeen
  <2>2. StageSeen' = [StageSeen EXCEPT ![<<f, u>>] = "searchable"]
    BY <1>1 DEF StageSeen, EmbeddingAllowed
  <2>3. Ingested!Embed(f, u)
    BY <2>1, <2>2 DEF Ingested!Embed
  <2>. QED  BY <1>1, <2>3
<1>. QED  BY <1>2, <1>3

\* The administrators add and remove feeds; a feed goes with all it has.
LEMMA EnvironmentSeen ==
    ASSUME IInv, Environment
    PROVE  \/ UNCHANGED Ingested!vars
           \/ \E f \in Feeds : Ingested!Add(f) \/ Ingested!Remove(f)
<1>1. ASSUME NEW f \in Feeds, AddFeed(f) PROVE Ingested!Add(f)
  <2>1. FeedSeen[f] = "absent" /\ FeedSeen' = [FeedSeen EXCEPT ![f] = "live"]
    BY <1>1 DEF AddFeed, FeedSeen, IInv, TypeOK
  <2>2. StageSeen' = StageSeen
    BY <1>1 DEF AddFeed, StageSeen, EmbeddingAllowed
  <2>. QED  BY <2>1, <2>2 DEF Ingested!Add
<1>2. ASSUME NEW f \in Feeds, ToggleFeed(f) PROVE UNCHANGED Ingested!vars
  <2>1. FeedSeen' = FeedSeen
    BY <1>2 DEF ToggleFeed, Exists, FeedSeen, IInv, TypeOK
  <2>2. StageSeen' = StageSeen
    BY <1>2 DEF ToggleFeed, StageSeen, EmbeddingAllowed
  <2>. QED  BY <2>1, <2>2 DEF Ingested!vars
<1>3. ASSUME NEW f \in Feeds, DeleteFeed(f) PROVE Ingested!Remove(f)
  <2>1. FeedSeen[f] = "live" /\ FeedSeen' = [FeedSeen EXCEPT ![f] = "gone"]
    BY <1>3 DEF DeleteFeed, Exists, FeedSeen, IInv, TypeOK
  <2>2. \A id : EmbeddingAllowed(id)' <=> EmbeddingAllowed(id) /\ id[1] # f
    BY <1>3 DEF DeleteFeed, EmbeddingAllowed, Id
  <2>3. StageSeen' = [id \in Feeds \X Urls |->
                         IF id[1] = f THEN "absent" ELSE StageSeen[id]]
    BY <1>3, <2>2 DEF DeleteFeed, StageSeen
  <2>. QED  BY <2>1, <2>3 DEF Ingested!Remove
<1>4. CASE Midnight \/ Crash \/ CalmDown
  BY <1>4, UnseenStep DEF Midnight, Crash, CalmDown
<1>. QED  BY <1>1, <1>2, <1>3, <1>4 DEF Environment

\* Overlapping, failing, retried and dying executions, together with the
\* administrators, do to the database what Ingestion allows and nothing else:
\* no statement of a run takes back or doubles what another one did, and no
\* article loses its place except with its feed.
THEOREM RefinesIngestion == Spec => ImplementsIngestion
<1>1. Init => Ingested!Init
  BY DEF Init, Ingested!Init, FeedSeen, StageSeen, EmbeddingAllowed
<1>2. IInv /\ [Next]_vars => [Ingested!Next]_(Ingested!vars)
  <2>. SUFFICES ASSUME IInv, [Next]_vars
                PROVE  [Ingested!Next]_(Ingested!vars)
    OBVIOUS
  <2>1. ASSUME NEW r \in Runs, Begin(r) \/ RunStep(r)
        PROVE  [Ingested!Next]_(Ingested!vars)
    <3>1. CASE CreateArticle(r) \/ CreateReplyLost(r)
      BY <3>1, StoreSeen DEF Ingested!Next
    <3>2. CASE SaveEmbedding(r)
      BY <3>2, EmbedSeen DEF Ingested!Next
    <3>3. CASE ~(CreateArticle(r) \/ CreateReplyLost(r) \/ SaveEmbedding(r))
      <4>1. UNCHANGED database
        BY <2>1, <3>3
        DEF Begin, RunStep, ReadFeeds, NoFeeds, Fail, ParseFeed, ParseFails,
            FeedsDone, ItemsDone, SkipItem, NewItem, Summarize,
            SummarizeFails, CreateFails, GenerateEmbedding, EmbeddingFails,
            SaveFails, TopToday, TopOfAll, NothingToSend, SendDigest
      <4>. QED  BY <4>1, UnseenStep
    <3>. QED  BY <3>1, <3>2, <3>3
  <2>2. CASE Environment
    BY <2>2, EnvironmentSeen DEF Ingested!Next
  <2>3. CASE UNCHANGED vars
    BY <2>3, UnseenStep DEF vars
  <2>. QED  BY <2>1, <2>2, <2>3 DEF Next
<1>. QED  BY <1>1, <1>2, Invariance, PTL
          DEF Spec, ImplementsIngestion, Ingested!Spec
=============================================================================
