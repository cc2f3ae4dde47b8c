------------------------------ MODULE Ingestion ------------------------------
(***************************************************************************)
(* What the pipeline and the feed administration promise together, seen    *)
(* from the database alone: an article of a feed is absent, then stored,   *)
(* then searchable, one feed at most holds a URL, nothing goes back except *)
(* with its whole feed, and a feed that is gone takes nothing in.          *)
(* Without executions, statements that fail, retries or crashes.           *)
(***************************************************************************)
CONSTANTS Feeds, Urls

VARIABLES
    feed,   \* the feeds: absent, live, gone
    stage   \* how far each article of each feed has come

vars == <<feed, stage>>

Stages == {"absent", "stored", "searchable"}

Init ==
    /\ feed \in [Feeds -> {"absent", "live"}]
    /\ stage = [a \in Feeds \X Urls |-> "absent"]

Add(f) ==
    /\ feed[f] = "absent"
    /\ feed' = [feed EXCEPT ![f] = "live"]
    /\ UNCHANGED stage

\* CreateArticle: of the feeds that list a URL one gets it.
Store(f, u) ==
    /\ feed[f] = "live"
    /\ \A g \in Feeds : stage[<<g, u>>] = "absent"
    /\ stage' = [stage EXCEPT ![<<f, u>>] = "stored"]
    /\ UNCHANGED feed

\* SaveEmbedding, of an article that is still there.
Embed(f, u) ==
    /\ stage[<<f, u>>] = "stored"
    /\ stage' = [stage EXCEPT ![<<f, u>>] = "searchable"]
    /\ UNCHANGED feed

\* DeleteFeed: its articles and their embeddings go at once, and for good.
Remove(f) ==
    /\ feed[f] = "live"
    /\ feed' = [feed EXCEPT ![f] = "gone"]
    /\ stage' = [a \in Feeds \X Urls |-> IF a[1] = f THEN "absent" ELSE stage[a]]

Next ==
    \E f \in Feeds :
        \/ Add(f) \/ Remove(f)
        \/ \E u \in Urls : Store(f, u) \/ Embed(f, u)

Spec == Init /\ [][Next]_vars
=============================================================================
