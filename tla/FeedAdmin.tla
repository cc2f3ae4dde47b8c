----------------------------- MODULE FeedAdmin -----------------------------
(***************************************************************************)
(* The administration of the feeds: FeedUseCase                            *)
(* (internal/usecase/feed_usecase.go) called at the same time by HTTP      *)
(* handlers and by the Telegram listener, over table feeds.  AddFeed       *)
(* checks for the URL and inserts in two statements, with a network call   *)
(* in between; the Telegram /toggle reads the status and writes its        *)
(* negation in two statements; PATCH and DELETE are one statement each.    *)
(***************************************************************************)
EXTENDS FiniteSets, Naturals

CONSTANTS
    Admins,     \* concurrent requests
    Urls,       \* feed URLs that NewFeed accepts
    Ids,        \* the ids uuid.NewRandom returns, each once
    CallsFail   \* whether a statement may fail for reasons of its own

ASSUME CallsFailAssumption == CallsFail \in BOOLEAN

VARIABLES
    feeds,      \* table feeds
    used,       \* the ids given out
    deleted,    \* history: the ids a delete has removed
    pc,         \* where each request is
    url,        \* the URL an AddFeed is about
    change,     \* the id and status a toggle is about to write
    reply       \* the answer to the last request

vars == <<feeds, used, deleted, pc, url, change, reply>>
noChange == [id |-> "none"]

Rows == [id : Ids, url : Urls, active : BOOLEAN]
Changes == [id : Ids, active : BOOLEAN]
Answers == {"none", "created", "conflict", "updated", "deleted", "notFound",
            "error"}

\* What a caller is told of a statement that took effect: its outcome, or an
\* error if the answer of the database was lost.
Told(r) == {r} \union (IF CallsFail THEN {"error"} ELSE {})

HasUrl(u) == \E f \in feeds : f.url = u
HasId(i) == \E f \in feeds : f.id = i

-----------------------------------------------------------------------------
\* Seeded fault: the handler trusts its own check for the URL.
UrlFree_NoUnique(u) == TRUE

\* The UNIQUE constraint on feeds.url.
UrlFree(u) == ~HasUrl(u)

\* Seeded fault: CreateFeed leaves the id at the zero UUID.
FreshIds_Zero == {"00000000-0000-0000-0000-000000000000"}

\* What uuid.NewRandom may return.
FreshIds == Ids \ used

\* Seeded fault: a Save that inserts the row when it is missing.
Updated_Upsert(i, s) ==
    {f \in feeds : f.id # i} \union
        [id : {i}, active : {s},
         url : IF HasId(i) THEN {f.url : f \in {g \in feeds : g.id = i}}
                           ELSE Urls]

\* UPDATE feeds SET is_active WHERE id.
Updated(i, s) ==
    {f \in feeds : f.id # i}
        \union {[f EXCEPT !.active = s] : f \in {g \in feeds : g.id = i}}

-----------------------------------------------------------------------------
Init ==
    /\ feeds = {}
    /\ used = {}
    /\ deleted = {}
    /\ pc = [a \in Admins |-> "idle"]
    /\ url = [a \in Admins |-> "none"]
    /\ change = [a \in Admins |-> noChange]
    /\ reply = [a \in Admins |-> "none"]

Goto(a, l) == pc' = [pc EXCEPT ![a] = l]

Respond(a, r) ==
    /\ Goto(a, "idle")
    /\ url' = [url EXCEPT ![a] = "none"]
    /\ change' = [change EXCEPT ![a] = noChange]
    /\ reply' = [reply EXCEPT ![a] = r]

\* AddFeed, GetFeedByURL finds the URL.
AddKnown(a, u) ==
    /\ pc[a] = "idle"
    /\ HasUrl(u)
    /\ Respond(a, "conflict")
    /\ UNCHANGED <<feeds, used, deleted>>

\* AddFeed goes on: the URL is not there, or the query failed.
AddUnknown(a, u) ==
    /\ pc[a] = "idle"
    /\ ~HasUrl(u) \/ CallsFail
    /\ Goto(a, "create")
    /\ url' = [url EXCEPT ![a] = u]
    /\ UNCHANGED <<feeds, used, deleted, change, reply>>

\* CreateFeed inserts the row, active, under a new id.
Create(a) ==
    /\ pc[a] = "create"
    /\ UrlFree(url[a])
    /\ \E i \in FreshIds :
          /\ feeds' = feeds \union {[id |-> i, url |-> url[a], active |-> TRUE]}
          /\ used' = used \union {i}
    /\ \E r \in Told("created") : Respond(a, r)
    /\ UNCHANGED deleted

\* The insert is refused or fails: AddFeed wraps the error, HTTP says 500.
CreateFails(a) ==
    /\ pc[a] = "create"
    /\ ~UrlFree(url[a]) \/ CallsFail
    /\ Respond(a, "error")
    /\ UNCHANGED <<feeds, used, deleted>>

\* The Telegram /toggle lists the feeds and negates the status it sees.
ToggleRead(a, i) ==
    /\ pc[a] = "idle"
    /\ \E f \in feeds :
          /\ f.id = i
          /\ change' = [change EXCEPT ![a] = [id |-> i, active |-> ~f.active]]
    /\ Goto(a, "write")
    /\ UNCHANGED <<feeds, used, deleted, url, reply>>

\* PATCH carries the status itself.
PatchRequest(a, i, s) ==
    /\ pc[a] = "idle"
    /\ change' = [change EXCEPT ![a] = [id |-> i, active |-> s]]
    /\ Goto(a, "write")
    /\ UNCHANGED <<feeds, used, deleted, url, reply>>

\* UpdateFeedStatus: no affected row is ErrFeedNotFound.
Write(a) ==
    /\ pc[a] = "write"
    /\ LET c == change[a] IN
          /\ feeds' = Updated(c.id, c.active)
          /\ \E r \in Told(IF HasId(c.id) THEN "updated" ELSE "notFound") :
                Respond(a, r)
    /\ UNCHANGED <<used, deleted>>

WriteFails(a) ==
    /\ pc[a] = "write"
    /\ CallsFail
    /\ Respond(a, "error")
    /\ UNCHANGED <<feeds, used, deleted>>

\* One statement; the rows that hang on the feed are in module Pipeline.
DeleteFeed(a, i) ==
    /\ pc[a] = "idle"
    /\ feeds' = {f \in feeds : f.id # i}
    /\ deleted' = deleted \union (IF HasId(i) THEN {i} ELSE {})
    /\ \E r \in Told(IF HasId(i) THEN "deleted" ELSE "notFound") :
          Respond(a, r)
    /\ UNCHANGED used

DeleteFails(a) ==
    /\ pc[a] = "idle"
    /\ CallsFail
    /\ Respond(a, "error")
    /\ UNCHANGED <<feeds, used, deleted>>

Next ==
    \E a \in Admins :
        \/ \E u \in Urls : AddKnown(a, u) \/ AddUnknown(a, u)
        \/ Create(a) \/ CreateFails(a)
        \/ \E i \in used : ToggleRead(a, i) \/ DeleteFeed(a, i)
        \/ \E i \in used : \E s \in BOOLEAN : PatchRequest(a, i, s)
        \/ Write(a) \/ WriteFails(a) \/ DeleteFails(a)

Spec == Init /\ [][Next]_vars

-----------------------------------------------------------------------------
(* Properties.                                                             *)

\* Every variable keeps its type, and a request under way knows what it is
\* about.
TypeOK ==
    /\ feeds \subseteq Rows
    /\ used \subseteq Ids
    /\ deleted \subseteq used
    /\ pc \in [Admins -> {"idle", "create", "write"}]
    /\ url \in [Admins -> Urls \union {"none"}]
    /\ change \in [Admins -> Changes \union {noChange}]
    /\ \A a \in Admins :
          /\ IF pc[a] = "create" THEN url[a] \in Urls ELSE url[a] = "none"
          /\ IF pc[a] = "write" THEN change[a] \in Changes
                                ELSE change[a] = noChange
    /\ reply \in [Admins -> Answers]

\* A URL is registered once and an id belongs to one row, although two
\* requests can both have found the URL missing (feed_usecase.go:41) before
\* either inserts it (63).
OneRowPerUrl ==
    \A f, g \in feeds : (f.url = g.url \/ f.id = g.id) => f = g

\* A deleted feed does not come back: a status change that was under way when
\* the feed was deleted touches no row (feed_repo.go:108-117).
DeletedStaysDeleted ==
    /\ \A i \in deleted : ~HasId(i)
    /\ \A i \in used \ deleted : HasId(i)

\* What the conflict answer is for (feed.go:14 "feed url already exists",
\* feed_handler.go:33): when no statement fails, a request to add a feed that
\* is refused is refused as a conflict.
RefusedAsConflict == \A a \in Admins : reply[a] # "error"
=============================================================================
