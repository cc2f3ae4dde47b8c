--------------------------- MODULE SemanticSearch ---------------------------
(***************************************************************************)
(* The Gemini client, internal/adapter/ai/gemini/client.go, and its two    *)
(* users at once: processArticle of the pipeline, which asks for a summary *)
(* and an embedding and stores them, and the semantic searches, which      *)
(* embed a query and rank the stored vectors.  Between their calls feeds,  *)
(* and their articles with them, are deleted; every call may fail.         *)
(*                                                                         *)
(* A vector is its dimension and the place its direction points to; places *)
(* are numbers, and the cosine distance of two vectors grows with the      *)
(* distance of their places.                                               *)
(***************************************************************************)
EXTENDS Integers, Sequences, FiniteSets, Functions

CONSTANTS
    Articles,       \* the articles processArticle is called for
    Place,          \* where the text of each article lies
    Searches,       \* concurrent searches
    Places,         \* where the texts of queries lie
    Models,         \* the values of GEMINI_MODEL
    Fallback,       \* gemini-3.5-flash
    NativeDims,     \* dimensions of what embedding models, or the mock, answer
    ColumnDim,      \* dimension of the column, 768 by migration 000001
    RawLimits,      \* the limit parameters; 0 stands for one that is no number
    DefaultLimit,   \* 5
    MaxLimit        \* 50

\* Every embedding model in use answers 768 components at least.
ASSUME DimensionsAssumption ==
    /\ ColumnDim \in Nat \ {0}
    /\ NativeDims \subseteq Nat /\ \A d \in NativeDims : d >= ColumnDim
ASSUME LimitsAssumption ==
    RawLimits \subseteq Int /\ MaxLimit \in Nat /\ DefaultLimit \in 1..MaxLimit
ASSUME TextsAssumption ==
    Fallback \in Models /\ Places \subseteq Int /\ Place \in [Articles -> Int]
ASSUME CallersAssumption == Articles \intersect Searches = {}

VARIABLES
    modelName,  \* the configured model
    articles,   \* table articles
    vectors,    \* table article_embeddings
    stage,      \* where processArticle is with each article
    refused,    \* history: the models that refused to summarise it
    at,         \* where each search is
    asked,      \* the limit parameter of each search
    vec,        \* the vector that each caller has at hand
    answer      \* the results of each search

tables == <<articles, vectors>>
writers == <<stage, refused>>
searches == <<at, asked, answer>>
vars == <<modelName, tables, writers, searches, vec>>

Vectors == [dim : Nat, place : Int]
NoVector == [dim |-> 0, place |-> 0]
Stages == {"new", "fallback", "embed", "save", "done", "failed"}

Abs(n) == IF n < 0 THEN -n ELSE n

-----------------------------------------------------------------------------
\* Seeded fault: the vector is taken as the model answers it.
Reduced_Native(v) == v

\* truncateAndNormalize: the first 768 components, which keep the direction,
\* scaled to length 1.
Reduced(v) == IF v.dim <= ColumnDim THEN v ELSE [v EXCEPT !.dim = ColumnDim]

\* GenerateEmbedding of a text, for the embedding model now in use.
Embeddings(p) == {Reduced([dim |-> d, place |-> p]) : d \in NativeDims}

\* Seeded fault: no fallback.
AfterRefusal_GivesUp(m) == "failed"

\* On an error, whichever, the fallback model is tried unless it was this one.
AfterRefusal(m) == IF m # Fallback THEN "fallback" ELSE "failed"

\* The handler: an absent, unreadable or non-positive limit is the default.
HandlerLimit(raw) == IF raw > 0 THEN raw ELSE DefaultLimit

\* Seeded fault: no upper bound.
UseCaseLimit_Unbounded(n) == IF n <= 0 THEN DefaultLimit ELSE n

UseCaseLimit(n) ==
    IF n <= 0 THEN DefaultLimit ELSE IF n > MaxLimit THEN MaxLimit ELSE n

\* article_embeddings JOIN articles.
Found == {a \in articles : vectors[a] # NoVector}

Nearer(s, a, b) == Abs(vec[s].place - Place[a]) <= Abs(vec[s].place - Place[b])

\* What the query may return: ordered by distance and limited; the HNSW index
\* is approximate and may miss rows.
Ranked(s, n) ==
    {q \in UNION {[1..k -> Found] : k \in 0..n} :
        /\ IsInjective(q)
        /\ \A i, j \in DOMAIN q : i < j => Nearer(s, q[i], q[j])}

-----------------------------------------------------------------------------
Init ==
    /\ modelName \in Models
    /\ articles = {}
    /\ vectors = [a \in Articles |-> NoVector]
    /\ stage = [a \in Articles |-> "new"]
    /\ refused = [a \in Articles |-> {}]
    /\ at = [s \in Searches |-> "idle"]
    /\ asked = [s \in Searches |-> 0]
    /\ vec = [c \in Articles \union Searches |-> NoVector]
    /\ answer = [s \in Searches |-> <<>>]

(* processArticle.                                                         *)

Goto(a, s) == stage' = [stage EXCEPT ![a] = s]

Summarizing(a) == stage[a] \in {"new", "fallback"}
Tried(a) == IF stage[a] = "new" THEN modelName ELSE Fallback

\* The model answers, and the article is stored with the summary.
Summarized(a) ==
    /\ Summarizing(a)
    /\ articles' = articles \union {a}
    /\ Goto(a, "embed")
    /\ UNCHANGED <<modelName, vectors, refused, searches, vec>>

\* The call of the model fails.
Refused(a) ==
    /\ Summarizing(a)
    /\ refused' = [refused EXCEPT ![a] = @ \union {Tried(a)}]
    /\ Goto(a, AfterRefusal(Tried(a)))
    /\ UNCHANGED <<modelName, tables, searches, vec>>

\* An answer that is empty or no JSON is not asked for again; or the article
\* cannot be stored.
Discarded(a) ==
    /\ Summarizing(a)
    /\ Goto(a, "done")
    /\ UNCHANGED <<modelName, tables, refused, searches, vec>>

Embedded(a) ==
    /\ stage[a] = "embed"
    /\ \E v \in Embeddings(Place[a]) : vec' = [vec EXCEPT ![a] = v]
    /\ Goto(a, "save")
    /\ UNCHANGED <<modelName, tables, refused, searches>>

\* SaveEmbedding: the foreign key and the dimension of the column are met.
Saved(a) ==
    /\ stage[a] = "save"
    /\ a \in articles /\ vec[a].dim = ColumnDim
    /\ vectors' = [vectors EXCEPT ![a] = vec[a]]
    /\ Goto(a, "done")
    /\ UNCHANGED <<modelName, articles, refused, searches, vec>>

\* GenerateEmbedding or SaveEmbedding fails: the article stays without.
NotSearchable(a) ==
    /\ stage[a] \in {"embed", "save"}
    /\ Goto(a, "done")
    /\ UNCHANGED <<modelName, tables, refused, searches, vec>>

\* Seeded fault: the embeddings are not deleted with the articles.
Removed_NoCascade(a) ==
    /\ a \in articles
    /\ articles' = articles \ {a}
    /\ UNCHANGED <<modelName, vectors, writers, searches, vec>>

\* The feed of the article is deleted.
Removed(a) ==
    /\ a \in articles
    /\ articles' = articles \ {a}
    /\ vectors' = [vectors EXCEPT ![a] = NoVector]
    /\ UNCHANGED <<modelName, writers, searches, vec>>

(* A search.                                                               *)

\* GET /api/v1/search; a blank query is rejected before anything is asked.
SearchCall(s) ==
    /\ at[s] \in {"idle", "answered", "failed"}
    /\ \/ /\ at' = [at EXCEPT ![s] = "embed"]
          /\ asked' \in {[asked EXCEPT ![s] = l] : l \in RawLimits}
       \/ /\ at' = [at EXCEPT ![s] = "failed"]
          /\ UNCHANGED asked
    /\ answer' = [answer EXCEPT ![s] = <<>>]
    /\ UNCHANGED <<modelName, tables, writers, vec>>

QueryEmbedded(s) ==
    /\ at[s] = "embed"
    /\ \E p \in Places : \E v \in Embeddings(p) : vec' = [vec EXCEPT ![s] = v]
    /\ at' = [at EXCEPT ![s] = "query"]
    /\ UNCHANGED <<modelName, tables, writers, asked, answer>>

\* SearchSimilar: one statement; it compares vectors of one dimension only.
SearchSimilar(s) ==
    /\ at[s] = "query"
    /\ vec[s].dim = ColumnDim
    /\ \E q \in Ranked(s, UseCaseLimit(HandlerLimit(asked[s]))) :
          answer' = [answer EXCEPT ![s] = q]
    /\ at' = [at EXCEPT ![s] = "answered"]
    /\ UNCHANGED <<modelName, tables, writers, asked, vec>>

SearchFails(s) ==
    /\ at[s] \in {"embed", "query"}
    /\ at' = [at EXCEPT ![s] = "failed"]
    /\ UNCHANGED <<modelName, tables, writers, asked, answer, vec>>

-----------------------------------------------------------------------------
Next ==
    \/ \E a \in Articles :
          \/ Summarized(a) \/ Refused(a) \/ Discarded(a)
          \/ Embedded(a) \/ Saved(a) \/ NotSearchable(a) \/ Removed(a)
    \/ \E s \in Searches :
          \/ SearchCall(s) \/ QueryEmbedded(s) \/ SearchSimilar(s)
          \/ SearchFails(s)

Spec == Init /\ [][Next]_vars

-----------------------------------------------------------------------------
(* Properties.                                                             *)

\* Every variable keeps its type, a vector is stored of an article that
\* exists only, and it is the vector of that article.
TypeOK ==
    /\ modelName \in Models
    /\ articles \subseteq Articles
    /\ vectors \in [Articles -> Vectors]
    /\ \A a \in Articles : vectors[a] # NoVector =>
          a \in articles /\ vectors[a] = [dim |-> ColumnDim, place |-> Place[a]]
    /\ stage \in [Articles -> Stages]
    /\ refused \in [Articles -> SUBSET Models]
    /\ at \in [Searches -> {"idle", "embed", "query", "answered", "failed"}]
    /\ asked \in [Searches -> RawLimits \union {0}]
    /\ vec \in [Articles \union Searches -> Vectors]
    /\ \A c \in DOMAIN vec : vec[c] # NoVector => vec[c].dim > 0
    /\ answer \in [Searches -> Seq(Articles)]

\* No vector reaches the database that the column cannot hold or be compared
\* with, neither of an article nor of a query, whichever embedding model is
\* configured (client.go:148): an article would never become searchable, and
\* only a line of the log would tell.
VectorsFit ==
    \A c \in DOMAIN vec : vec[c] # NoVector => vec[c].dim = ColumnDim

\* An item is given up for want of a model only after the configured model and
\* the fallback have both refused it, and no model is asked twice
\* (client.go:86-98).
FailsAfterBothModels ==
    \A a \in Articles :
        stage[a] = "failed" => refused[a] = {modelName, Fallback}

\* An answer has no more results than its client asked for, never more than
\* the maximum, the default number if the parameter makes no sense, and they
\* come nearest first, whatever became of them since.
AnswerRankedWithinLimit ==
    \A s \in Searches : at[s] = "answered" =>
        /\ Len(answer[s]) <= MaxLimit
        /\ asked[s] > 0 => Len(answer[s]) <= asked[s]
        /\ asked[s] <= 0 => Len(answer[s]) <= DefaultLimit
        /\ \A i, j \in 1..Len(answer[s]) : i < j =>
              Abs(vec[s].place - Place[answer[s][i]])
                  <= Abs(vec[s].place - Place[answer[s][j]])
=============================================================================
