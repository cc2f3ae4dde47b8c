------------------------ MODULE SemanticSearchProofs ------------------------
(***************************************************************************)
(* Proofs about SemanticSearch, for any articles and searches, any models, *)
(* any dimensions of them that the column's does not exceed and any limits *)
(* on the answers: the inductive invariant IInv, and from it that every    *)
(* vector fits the column, that an item fails only after both models and   *)
(* that answers are ranked and within their limit.                         *)
(***************************************************************************)
EXTENDS SemanticSearch, TLAPS

\* A vector in hand is one the column takes, and what is about to be saved of
\* an article is the vector of its own text.
VectorsInHand ==
    /\ VectorsFit
    /\ \A a \in Articles : stage[a] = "save" =>
           vec[a] = [dim |-> ColumnDim, place |-> Place[a]]

\* An article that is new has asked no model; the fallback is asked after the
\* configured model, another one, has refused.
RefusedSoFar ==
    \A a \in Articles :
        /\ stage[a] = "new" => refused[a] = {}
        /\ stage[a] = "fallback" => refused[a] = {modelName} /\ modelName # Fallback

\* The inductive invariant.
IInv ==
    /\ TypeOK
    /\ VectorsInHand
    /\ RefusedSoFar
    /\ FailsAfterBothModels
    /\ AnswerRankedWithinLimit

-----------------------------------------------------------------------------
(* The operators of the model.                                             *)

\* An embedding has the dimension of the column and keeps its place.
LEMMA EmbeddingFits ==
    ASSUME NEW p \in Int, NEW v \in Embeddings(p)
    PROVE  v = [dim |-> ColumnDim, place |-> p] /\ v \in Vectors /\ v.dim > 0
<1>1. PICK d \in NativeDims : v = Reduced([dim |-> d, place |-> p])
  BY DEF Embeddings
<1>2. d \in Nat /\ d >= ColumnDim /\ ColumnDim \in Nat /\ ColumnDim > 0
  BY DimensionsAssumption
<1>3. v = [dim |-> ColumnDim, place |-> p]
  <2>1. CASE d <= ColumnDim
    BY <1>1, <1>2, <2>1 DEF Reduced
  <2>2. CASE ~(d <= ColumnDim)
    BY <1>1, <1>2, <2>2 DEF Reduced
  <2>. QED  BY <2>1, <2>2
<1>. QED  BY <1>2, <1>3 DEF Vectors

\* The limit of a search is never above the maximum, is at most what was asked
\* for, and the default when that makes no sense.
LEMMA LimitOfSearch ==
    ASSUME NEW raw \in Int
    PROVE  LET n == UseCaseLimit(HandlerLimit(raw))
           IN  /\ n \in Nat /\ n <= MaxLimit
               /\ raw > 0 => n <= raw
               /\ raw <= 0 => n <= DefaultLimit
BY LimitsAssumption DEF UseCaseLimit, HandlerLimit

\* What a query returns is a sequence of at most n articles, nearest first.
LEMMA RankedAnswer ==
    ASSUME IInv, NEW s \in Searches, NEW n \in Nat, NEW q \in Ranked(s, n)
    PROVE  /\ q \in Seq(Articles) /\ Len(q) <= n
           /\ \A i, j \in 1..Len(q) : i < j => Nearer(s, q[i], q[j])
<1>1. PICK k \in 0..n : q \in [1..k -> Found]
  BY DEF Ranked
<1>2. Found \subseteq Articles
  BY DEF Found, IInv, TypeOK
<1>3. q \in Seq(Articles) /\ Len(q) = k /\ DOMAIN q = 1..Len(q)
  BY <1>1, <1>2
<1>4. \A i, j \in DOMAIN q : i < j => Nearer(s, q[i], q[j])
  BY DEF Ranked
<1>. QED  BY <1>1, <1>3, <1>4

-----------------------------------------------------------------------------
\* Nothing is stored, nothing asked.
LEMMA InitInv == Init => IInv
<1>. SUFFICES ASSUME Init PROVE IInv
  OBVIOUS
<1>1. NoVector \in Vectors
  BY DEF NoVector, Vectors
<1>2. TypeOK
  BY <1>1 DEF Init, TypeOK, Stages
<1>. QED
  BY <1>2 DEF Init, IInv, VectorsInHand, VectorsFit, RefusedSoFar,
              FailsAfterBothModels, AnswerRankedWithinLimit

-----------------------------------------------------------------------------
(* processArticle.                                                         *)

\* What is told about searches lives on when no search and no vector of one
\* changes.
LEMMA SearchesUndisturbed ==
    ASSUME IInv, UNCHANGED searches,
           \A s \in Searches : vec'[s] = vec[s]
    PROVE  AnswerRankedWithinLimit'
BY DEF searches, IInv, AnswerRankedWithinLimit

\* The call of a model, with whatever outcome.
LEMMA SummaryInv ==
    ASSUME IInv, NEW a \in Articles, Summarized(a) \/ Refused(a) \/ Discarded(a)
    PROVE  IInv'
<1>1. /\ stage[a] \in {"new", "fallback"}
      /\ UNCHANGED <<modelName, vectors, searches, vec>>
  BY DEF Summarized, Refused, Discarded, Summarizing, tables
<1>2. AnswerRankedWithinLimit'
  BY <1>1, SearchesUndisturbed
<1>3. CASE Summarized(a) \/ Discarded(a)
  <2>1. /\ articles' \in {articles, articles \union {a}} /\ refused' = refused
        /\ stage' \in [Articles -> Stages]
        /\ \A b \in Articles : stage'[b] # stage[b] => stage'[b] \in {"embed", "done"}
    BY <1>3 DEF Summarized, Discarded, Goto, Stages, tables, IInv, TypeOK
  <2>2. TypeOK'
    BY <1>1, <2>1 DEF searches, IInv, TypeOK
  <2>3. VectorsInHand' /\ RefusedSoFar' /\ FailsAfterBothModels'
    BY <1>1, <2>1 DEF IInv, VectorsInHand, VectorsFit, RefusedSoFar,
                      FailsAfterBothModels
  <2>. QED  BY <1>2, <2>2, <2>3 DEF IInv
<1>4. CASE Refused(a)
  <2>. DEFINE m == Tried(a)
  <2>1. /\ articles' = articles
        /\ refused' = [refused EXCEPT ![a] = @ \union {m}]
        /\ stage' = [stage EXCEPT ![a] = AfterRefusal(m)]
    BY <1>4 DEF Refused, Goto, tables
  <2>2. /\ m \in Models /\ AfterRefusal(m) \in {"fallback", "failed"}
        /\ AfterRefusal(m) = "fallback" =>
               m = modelName /\ m # Fallback /\ refused[a] \union {m} = {modelName}
        /\ AfterRefusal(m) = "failed" =>
               refused[a] \union {m} = {modelName, Fallback}
    BY <1>1, TextsAssumption DEF Tried, AfterRefusal, IInv, TypeOK, RefusedSoFar
  <2>. HIDE DEF m
  <2>3. /\ refused' \in [Articles -> SUBSET Models]
        /\ stage' \in [Articles -> Stages]
        /\ stage'[a] = AfterRefusal(m) /\ refused'[a] = refused[a] \union {m}
        /\ \A b \in Articles : b # a => /\ stage'[b] = stage[b]
                                        /\ refused'[b] = refused[b]
    BY <2>1, <2>2 DEF IInv, TypeOK, Stages
  <2>4. TypeOK'
    BY <1>1, <2>1, <2>3 DEF searches, IInv, TypeOK
  <2>5. VectorsInHand'
    BY <1>1, <2>2, <2>3 DEF IInv, VectorsInHand, VectorsFit
  <2>6. RefusedSoFar' /\ FailsAfterBothModels'
    BY <1>1, <2>2, <2>3 DEF IInv, RefusedSoFar, FailsAfterBothModels
  <2>. QED  BY <1>2, <2>4, <2>5, <2>6 DEF IInv
<1>. QED  BY <1>3, <1>4

\* The embedding, its way into the table, and the deletion of the article.
LEMMA EmbeddingInv ==
    ASSUME IInv, NEW a \in Articles,
           Embedded(a) \/ Saved(a) \/ NotSearchable(a) \/ Removed(a)
    PROVE  IInv'
<1>1. CASE Embedded(a)
  <2>1. PICK v \in Embeddings(Place[a]) : vec' = [vec EXCEPT ![a] = v]
    BY <1>1 DEF Embedded
  <2>2. /\ stage' = [stage EXCEPT ![a] = "save"] /\ stage[a] = "embed"
        /\ UNCHANGED <<modelName, articles, vectors, refused, searches>>
    BY <1>1 DEF Embedded, Goto, tables
  <2>3. v = [dim |-> ColumnDim, place |-> Place[a]] /\ v \in Vectors /\ v.dim > 0
    BY <2>1, EmbeddingFits, TextsAssumption
  <2>4. v.dim = ColumnDim
    BY <2>3
  <2>5. /\ vec' \in [Articles \union Searches -> Vectors] /\ vec'[a] = v
        /\ \A c \in Articles \union Searches : c # a => vec'[c] = vec[c]
        /\ DOMAIN vec = Articles \union Searches /\ DOMAIN vec' = DOMAIN vec
        /\ stage' \in [Articles -> Stages] /\ stage'[a] = "save"
        /\ \A b \in Articles : b # a => stage'[b] = stage[b]
    BY <2>1, <2>2, <2>3 DEF IInv, TypeOK, Stages
  <2>6. TypeOK'
    BY <2>2, <2>3, <2>5 DEF searches, IInv, TypeOK
  <2>7. VectorsInHand'
    BY <2>3, <2>4, <2>5 DEF IInv, VectorsInHand, VectorsFit
  <2>8. RefusedSoFar' /\ FailsAfterBothModels'
    BY <2>2, <2>5 DEF IInv, RefusedSoFar, FailsAfterBothModels
  <2>9. \A s \in Searches : vec'[s] = vec[s]
    BY <2>5, CallersAssumption
  <2>. QED
    BY <2>2, <2>6, <2>7, <2>8, <2>9, SearchesUndisturbed DEF IInv
<1>2. CASE Saved(a)
  <2>1. /\ stage[a] = "save" /\ a \in articles
        /\ vectors' = [vectors EXCEPT ![a] = vec[a]]
        /\ stage' = [stage EXCEPT ![a] = "done"]
        /\ UNCHANGED <<modelName, articles, refused, searches, vec>>
    BY <1>2 DEF Saved, Goto
  <2>2. vec[a] = [dim |-> ColumnDim, place |-> Place[a]] /\ vec[a] \in Vectors
    BY <2>1 DEF IInv, VectorsInHand, TypeOK
  <2>3. /\ vectors' \in [Articles -> Vectors] /\ vectors'[a] = vec[a]
        /\ \A b \in Articles : b # a => vectors'[b] = vectors[b]
        /\ stage' \in [Articles -> Stages] /\ stage'[a] = "done"
        /\ \A b \in Articles : b # a => stage'[b] = stage[b]
    BY <2>1, <2>2 DEF IInv, TypeOK, Stages
  <2>4. TypeOK'
    BY <2>1, <2>2, <2>3 DEF searches, IInv, TypeOK
  <2>5. VectorsInHand' /\ RefusedSoFar' /\ FailsAfterBothModels'
    BY <2>1, <2>3 DEF IInv, VectorsInHand, VectorsFit, RefusedSoFar,
                      FailsAfterBothModels
  <2>. QED  BY <2>1, <2>4, <2>5, SearchesUndisturbed DEF IInv
<1>3. CASE NotSearchable(a)
  <2>1. /\ stage' = [stage EXCEPT ![a] = "done"]
        /\ UNCHANGED <<modelName, articles, vectors, refused, searches, vec>>
    BY <1>3 DEF NotSearchable, Goto, tables
  <2>2. /\ stage' \in [Articles -> Stages] /\ stage'[a] = "done"
        /\ \A b \in Articles : b # a => stage'[b] = stage[b]
    BY <2>1 DEF IInv, TypeOK, Stages
  <2>3. TypeOK'
    BY <2>1, <2>2 DEF searches, IInv, TypeOK
  <2>4. VectorsInHand' /\ RefusedSoFar' /\ FailsAfterBothModels'
    BY <2>1, <2>2 DEF IInv, VectorsInHand, VectorsFit, RefusedSoFar,
                      FailsAfterBothModels
  <2>. QED  BY <2>1, <2>3, <2>4, SearchesUndisturbed DEF IInv
<1>4. CASE Removed(a)
  <2>1. /\ articles' = articles \ {a}
        /\ vectors' = [vectors EXCEPT ![a] = NoVector]
        /\ UNCHANGED <<modelName, stage, refused, searches, vec>>
    BY <1>4 DEF Removed, writers
  <2>2. NoVector \in Vectors
    BY DEF NoVector, Vectors
  <2>3. /\ vectors' \in [Articles -> Vectors] /\ vectors'[a] = NoVector
        /\ \A b \in Articles : b # a => vectors'[b] = vectors[b]
    BY <2>1, <2>2 DEF IInv, TypeOK
  <2>4. TypeOK'
    BY <2>1, <2>3 DEF searches, IInv, TypeOK
  <2>5. VectorsInHand' /\ RefusedSoFar' /\ FailsAfterBothModels'
    BY <2>1 DEF IInv, VectorsInHand, VectorsFit, RefusedSoFar,
                FailsAfterBothModels
  <2>. QED  BY <2>1, <2>4, <2>5, SearchesUndisturbed DEF IInv
<1>. QED  BY <1>1, <1>2, <1>3, <1>4

-----------------------------------------------------------------------------
(* A search.                                                               *)

\* The call, the embedding of the query, the query, or a failure of either.
LEMMA SearchInv ==
    ASSUME IInv, NEW s \in Searches,
           SearchCall(s) \/ QueryEmbedded(s) \/ SearchSimilar(s) \/ SearchFails(s)
    PROVE  IInv'
<1>1. UNCHANGED <<modelName, articles, vectors, stage, refused>>
  BY DEF SearchCall, QueryEmbedded, SearchSimilar, SearchFails, tables, writers
<1>2. RefusedSoFar' /\ FailsAfterBothModels'
  BY <1>1 DEF IInv, RefusedSoFar, FailsAfterBothModels
<1>3. CASE SearchCall(s) \/ SearchFails(s)
  <2>1. /\ vec' = vec
        /\ at' \in [Searches -> {"idle", "embed", "query", "answered", "failed"}]
        /\ at'[s] # "answered" /\ \A t \in Searches : t # s => at'[t] = at[t]
    BY <1>3 DEF SearchCall, SearchFails, writers, IInv, TypeOK
  <2>2. /\ asked' \in [Searches -> RawLimits \union {0}]
        /\ answer' \in [Searches -> Seq(Articles)]
        /\ \A t \in Searches : t # s => /\ asked'[t] = asked[t]
                                         /\ answer'[t] = answer[t]
    <3>1. <<>> \in Seq(Articles)
      OBVIOUS
    <3>2. CASE SearchCall(s)
      BY <3>1, <3>2 DEF SearchCall, IInv, TypeOK
    <3>3. CASE SearchFails(s)
      BY <3>3 DEF SearchFails, IInv, TypeOK
    <3>. QED  BY <1>3, <3>2, <3>3
  <2>3. TypeOK' /\ VectorsInHand'
    BY <1>1, <2>1, <2>2 DEF IInv, TypeOK, VectorsInHand, VectorsFit
  <2>4. AnswerRankedWithinLimit'
    BY <2>1, <2>2 DEF IInv, AnswerRankedWithinLimit
  <2>. QED  BY <1>2, <2>3, <2>4 DEF IInv
<1>4. CASE QueryEmbedded(s)
  <2>0. PICK p \in Places : \E v \in Embeddings(p) : vec' = [vec EXCEPT ![s] = v]
    BY <1>4 DEF QueryEmbedded
  <2>1. PICK v \in Embeddings(p) : vec' = [vec EXCEPT ![s] = v]
    BY <2>0
  <2>2. /\ at' = [at EXCEPT ![s] = "query"] /\ at[s] = "embed"
        /\ UNCHANGED <<asked, answer>>
    BY <1>4 DEF QueryEmbedded
  <2>3. v = [dim |-> ColumnDim, place |-> p] /\ v \in Vectors /\ v.dim > 0
    BY <2>1, EmbeddingFits, TextsAssumption
  <2>4. v.dim = ColumnDim
    BY <2>3
  <2>5. /\ vec' \in [Articles \union Searches -> Vectors] /\ vec'[s] = v
        /\ \A c \in Articles \union Searches : c # s => vec'[c] = vec[c]
        /\ DOMAIN vec = Articles \union Searches /\ DOMAIN vec' = DOMAIN vec
        /\ at' \in [Searches -> {"idle", "embed", "query", "answered", "failed"}]
        /\ at'[s] = "query" /\ \A t \in Searches : t # s => at'[t] = at[t]
    BY <2>1, <2>2, <2>3 DEF IInv, TypeOK
  <2>6. TypeOK'
    BY <1>1, <2>2, <2>3, <2>5 DEF IInv, TypeOK
  <2>7. \A a \in Articles : vec'[a] = vec[a]
    BY <2>5, CallersAssumption
  <2>8. VectorsInHand'
    BY <1>1, <2>4, <2>5, <2>7 DEF IInv, VectorsInHand, VectorsFit
  <2>9. AnswerRankedWithinLimit'
    BY <2>2, <2>5 DEF IInv, AnswerRankedWithinLimit
  <2>. QED  BY <1>2, <2>6, <2>8, <2>9 DEF IInv
<1>5. CASE SearchSimilar(s)
  <2>. DEFINE n == UseCaseLimit(HandlerLimit(asked[s]))
  <2>1. PICK q \in Ranked(s, n) : answer' = [answer EXCEPT ![s] = q]
    BY <1>5 DEF SearchSimilar
  <2>2. at' = [at EXCEPT ![s] = "answered"] /\ UNCHANGED <<asked, vec>>
    BY <1>5 DEF SearchSimilar
  <2>3. asked[s] \in Int
    <3>1. asked[s] \in RawLimits \/ asked[s] = 0
      BY DEF IInv, TypeOK
    <3>2. \A l \in RawLimits : l \in Int
      BY LimitsAssumption
    <3>. QED  BY <3>1, <3>2
  <2>4. /\ n \in Nat /\ n <= MaxLimit
        /\ asked[s] > 0 => n <= asked[s]
        /\ asked[s] <= 0 => n <= DefaultLimit
    BY <2>3, LimitOfSearch
  <2>. HIDE DEF n
  <2>5. /\ q \in Seq(Articles) /\ Len(q) \in Nat /\ Len(q) <= n
        /\ \A i, j \in 1..Len(q) : i < j => Nearer(s, q[i], q[j])
    BY <2>1, <2>4, RankedAnswer
  <2>6. /\ Len(q) <= MaxLimit
        /\ asked[s] > 0 => Len(q) <= asked[s]
        /\ asked[s] <= 0 => Len(q) <= DefaultLimit
    BY <2>3, <2>4, <2>5, LimitsAssumption
  <2>7. /\ answer' \in [Searches -> Seq(Articles)] /\ answer'[s] = q
        /\ at' \in [Searches -> {"idle", "embed", "query", "answered", "failed"}]
        /\ \A t \in Searches : t # s => at'[t] = at[t] /\ answer'[t] = answer[t]
    BY <2>1, <2>2, <2>5 DEF IInv, TypeOK
  <2>8. TypeOK' /\ VectorsInHand'
    BY <1>1, <2>2, <2>7 DEF IInv, TypeOK, VectorsInHand, VectorsFit
  <2>9. AnswerRankedWithinLimit'
    <3>1. SUFFICES ASSUME NEW t \in Searches, at'[t] = "answered"
                   PROVE  /\ Len(answer'[t]) <= MaxLimit
                          /\ asked[t] > 0 => Len(answer'[t]) <= asked[t]
                          /\ asked[t] <= 0 => Len(answer'[t]) <= DefaultLimit
                          /\ \A i, j \in 1..Len(answer'[t]) : i < j =>
                                Nearer(t, answer'[t][i], answer'[t][j])
      BY <2>2 DEF AnswerRankedWithinLimit, Nearer
    <3>2. CASE t = s
      BY <2>5, <2>6, <2>7, <3>2
    <3>3. CASE t # s
      BY <2>7, <3>1, <3>3 DEF IInv, AnswerRankedWithinLimit, Nearer
    <3>. QED  BY <3>2, <3>3
  <2>. QED  BY <1>2, <2>8, <2>9 DEF IInv
<1>. QED  BY <1>3, <1>4, <1>5

-----------------------------------------------------------------------------
(* The theorems.                                                           *)

\* The inductive invariant holds in every reachable state.
THEOREM Invariance == Spec => []IInv
<1>1. IInv /\ [Next]_vars => IInv'
  <2>. SUFFICES ASSUME IInv, [Next]_vars PROVE IInv'
    OBVIOUS
  <2>1. CASE Next
    BY <2>1, SummaryInv, EmbeddingInv, SearchInv DEF Next
  <2>2. CASE UNCHANGED vars
    BY <2>2 DEF vars, tables, writers, searches, IInv, TypeOK, VectorsInHand,
                VectorsFit, RefusedSoFar, FailsAfterBothModels,
                AnswerRankedWithinLimit
  <2>. QED  BY <2>1, <2>2
<1>. QED  BY InitInv, <1>1, PTL DEF Spec

\* Every variable keeps its type, and the vector stored of an article is that
\* of its own text and goes with the article.
THEOREM TypeCorrect == Spec => []TypeOK
<1>1. IInv => TypeOK
  BY DEF IInv
<1>. QED  BY <1>1, Invariance, PTL

\* Whatever dimension the embedding model answers with, every vector that goes
\* to the database has the dimension of the column (client.go:148).
THEOREM EveryVectorFits == Spec => []VectorsFit
<1>1. IInv => VectorsFit
  BY DEF IInv, VectorsInHand
<1>. QED  BY <1>1, Invariance, PTL

\* An item is given up for want of a model only after the configured one and
\* the fallback have refused it, whichever is configured (client.go:86-98).
THEOREM BothModelsAreAsked == Spec => []FailsAfterBothModels
<1>1. IInv => FailsAfterBothModels
  BY DEF IInv
<1>. QED  BY <1>1, Invariance, PTL

\* For every limit parameter, default and maximum an answer is ranked and not
\* longer than it may be, while articles come and go.
THEOREM AnswersAreRankedAndLimited == Spec => []AnswerRankedWithinLimit
<1>1. IInv => AnswerRankedWithinLimit
  BY DEF IInv
<1>. QED  BY <1>1, Invariance, PTL
=============================================================================
