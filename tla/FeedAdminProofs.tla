-------------------------- MODULE FeedAdminProofs --------------------------
(***************************************************************************)
(* Proofs about FeedAdmin, for any number of concurrent requests, any URLs *)
(* and any ids, with and without failing calls: the inductive invariant    *)
(* IInv, and from it that a URL is registered once although check and      *)
(* insert are two statements, and that a status written late does not      *)
(* bring a deleted feed back.                                              *)
(***************************************************************************)
EXTENDS FeedAdmin, TLAPS

\* What ties the table to the ids given out: every row has one of them.  It
\* is what makes the id of the next row new to the table.
RowsHaveUsedIds == \A f \in feeds : f.id \in used

\* The inductive invariant.
IInv == TypeOK /\ OneRowPerUrl /\ RowsHaveUsedIds /\ DeletedStaysDeleted

\* A request is answered and forgets what it was about: the types of the
\* variables Respond assigns.
LEMMA RespondTypes ==
    ASSUME TypeOK, NEW a \in Admins, NEW r \in Answers, Respond(a, r)
    PROVE  /\ pc' \in [Admins -> {"idle", "create", "write"}]
           /\ url' \in [Admins -> Urls \union {"none"}]
           /\ change' \in [Admins -> Changes \union {noChange}]
           /\ \A b \in Admins :
                 /\ IF pc'[b] = "create" THEN url'[b] \in Urls
                                         ELSE url'[b] = "none"
                 /\ IF pc'[b] = "write" THEN change'[b] \in Changes
                                        ELSE change'[b] = noChange
           /\ reply' \in [Admins -> Answers]
BY DEF TypeOK, Respond, Goto

\* What a caller can be told is an answer.
LEMMA ToldAnswers ==
    \A r \in Answers : Told(r) \subseteq Answers
BY DEF Told, Answers

\* The table is the same after a step that only moves requests.
LEMMA TableKept ==
    ASSUME IInv, UNCHANGED <<feeds, used, deleted>>
    PROVE  /\ (feeds \subseteq Rows /\ used \subseteq Ids
                  /\ deleted \subseteq used)'
           /\ (OneRowPerUrl /\ RowsHaveUsedIds /\ DeletedStaysDeleted)'
BY DEF IInv, TypeOK, OneRowPerUrl, RowsHaveUsedIds, DeletedStaysDeleted, HasId,
       Rows

\* The empty table has the invariant.
LEMMA InitInv == Init => IInv
BY DEF Init, IInv, TypeOK, OneRowPerUrl, RowsHaveUsedIds, DeletedStaysDeleted,
       HasId, Rows, Answers

-----------------------------------------------------------------------------
(* AddFeed.                                                                *)

\* The steps of AddFeed (feed_usecase.go:38-70) keep it.
LEMMA AddFeedInv ==
    ASSUME IInv, NEW a \in Admins,
           \/ \E u \in Urls : AddKnown(a, u) \/ AddUnknown(a, u)
           \/ Create(a) \/ CreateFails(a)
    PROVE  IInv'
<1>1. ASSUME NEW u \in Urls, AddKnown(a, u) PROVE IInv'
  <2>1. Respond(a, "conflict") /\ "conflict" \in Answers
    BY <1>1 DEF AddKnown, Answers
  <2>. QED  BY <1>1, <2>1, RespondTypes, TableKept DEF AddKnown, IInv, TypeOK
<1>2. ASSUME NEW u \in Urls, AddUnknown(a, u) PROVE IInv'
  <2>1. TypeOK'
    BY <1>2, TableKept DEF AddUnknown, Goto, IInv, TypeOK
  <2>. QED  BY <1>2, <2>1, TableKept DEF AddUnknown, IInv
<1>3. ASSUME Create(a) PROVE IInv'
  <2>1. url[a] \in Urls /\ ~HasUrl(url[a])
    BY <1>3 DEF Create, UrlFree, IInv, TypeOK
  <2>2. PICK i \in FreshIds :
           /\ feeds' = feeds \union
                  {[id |-> i, url |-> url[a], active |-> TRUE]}
           /\ used' = used \union {i}
    BY <1>3 DEF Create
  <2>. DEFINE row == [id |-> i, url |-> url[a], active |-> TRUE]
  <2>3. feeds' = feeds \union {row} /\ row.id = i /\ row.url = url[a]
    BY <2>2
  <2>4. i \in Ids /\ i \notin used /\ ~HasId(i)
    BY <2>2 DEF FreshIds, HasId, IInv, RowsHaveUsedIds
  <2>5. PICK r \in Answers : Respond(a, r)
    <3>1. Told("created") \subseteq Answers
      BY ToldAnswers DEF Answers
    <3>. QED  BY <1>3, <3>1 DEF Create
  <2>6. deleted' = deleted
    BY <1>3 DEF Create
  <2>7. TypeOK'
    <3>1. [id |-> i, url |-> url[a], active |-> TRUE] \in Rows
      BY <2>1, <2>4 DEF Rows
    <3>2. (feeds \subseteq Rows /\ used \subseteq Ids
              /\ deleted \subseteq used)'
      BY <2>2, <2>4, <2>6, <3>1 DEF IInv, TypeOK
    <3>. QED  BY <2>5, <3>2, RespondTypes DEF IInv, TypeOK
  <2>8. OneRowPerUrl'
    <3>1. ASSUME NEW f \in feeds PROVE f.url # url[a] /\ f.id # i
      BY <2>1, <2>4, <3>1 DEF HasUrl, HasId
    <3>. HIDE DEF row
    <3>. QED  BY <2>3, <3>1 DEF IInv, OneRowPerUrl
  <2>9. RowsHaveUsedIds'
    BY <2>2 DEF IInv, RowsHaveUsedIds
  <2>10. DeletedStaysDeleted'
    <3>. HIDE DEF row
    <3>1. \A j : HasId(j)' <=> HasId(j) \/ j = i
      BY <2>3 DEF HasId
    <3>. QED
      BY <2>2, <2>4, <2>6, <3>1 DEF IInv, TypeOK, DeletedStaysDeleted
  <2>. QED  BY <2>7, <2>8, <2>9, <2>10 DEF IInv
<1>4. ASSUME CreateFails(a) PROVE IInv'
  <2>1. Respond(a, "error") /\ "error" \in Answers
    BY <1>4 DEF CreateFails, Answers
  <2>. QED  BY <1>4, <2>1, RespondTypes, TableKept DEF CreateFails, IInv, TypeOK
<1>. QED  BY <1>1, <1>2, <1>3, <1>4

-----------------------------------------------------------------------------
(* The status of a feed.                                                   *)

\* What the UPDATE statement leaves: as many rows as there were, with the same
\* ids and URLs.
LEMMA UpdatedRows ==
    ASSUME TypeOK, NEW i, NEW s \in BOOLEAN
    PROVE  /\ Updated(i, s) \subseteq Rows
           /\ \A g \in Updated(i, s) :
                 \E f \in feeds : g.id = f.id /\ g.url = f.url
                                  /\ g = IF f.id = i
                                         THEN [f EXCEPT !.active = s] ELSE f
           /\ \A f \in feeds : \E g \in Updated(i, s) : g.id = f.id
<1>1. \A f \in feeds : /\ f = [id |-> f.id, url |-> f.url, active |-> f.active]
                       /\ f \in Rows
                       /\ [f EXCEPT !.active = s] \in Rows
                       /\ [f EXCEPT !.active = s].id = f.id
                       /\ [f EXCEPT !.active = s].url = f.url
  BY DEF TypeOK, Rows
<1>. QED  BY <1>1 DEF Updated

\* The steps of /toggle and PATCH keep it.
LEMMA StatusInv ==
    ASSUME IInv, NEW a \in Admins,
           \/ \E i \in used : ToggleRead(a, i)
           \/ \E i \in used : \E s \in BOOLEAN : PatchRequest(a, i, s)
           \/ Write(a) \/ WriteFails(a)
    PROVE  IInv'
<1>1. ASSUME NEW i \in used, ToggleRead(a, i) PROVE IInv'
  <2>1. PICK f \in feeds :
           change' = [change EXCEPT ![a] = [id |-> i, active |-> ~f.active]]
    BY <1>1 DEF ToggleRead
  <2>2. [id |-> i, active |-> ~f.active] \in Changes
    BY <1>1 DEF IInv, TypeOK, Rows, Changes
  <2>3. TypeOK'
    BY <1>1, <2>1, <2>2, TableKept DEF ToggleRead, Goto, IInv, TypeOK
  <2>. QED  BY <1>1, <2>3, TableKept DEF ToggleRead, IInv
<1>2. ASSUME NEW i \in used, NEW s \in BOOLEAN, PatchRequest(a, i, s)
      PROVE  IInv'
  <2>1. [id |-> i, active |-> s] \in Changes
    BY <1>2 DEF IInv, TypeOK, Changes
  <2>2. TypeOK'
    BY <1>2, <2>1, TableKept DEF PatchRequest, Goto, IInv, TypeOK
  <2>. QED  BY <1>2, <2>2, TableKept DEF PatchRequest, IInv
<1>3. ASSUME Write(a) PROVE IInv'
  <2>. DEFINE c == change[a]
  <2>1. c \in Changes /\ c.active \in BOOLEAN
    BY <1>3 DEF Write, IInv, TypeOK, Changes
  <2>2. feeds' = Updated(c.id, c.active) /\ used' = used /\ deleted' = deleted
    BY <1>3 DEF Write
  <2>3. PICK r \in Answers : Respond(a, r)
    BY <1>3, ToldAnswers DEF Write, Answers
  <2>. HIDE DEF c
  <2>4. /\ feeds' \subseteq Rows
        /\ \A g \in feeds' :
              \E f \in feeds : g.id = f.id /\ g.url = f.url
                               /\ g = IF f.id = c.id
                                      THEN [f EXCEPT !.active = c.active] ELSE f
        /\ \A f \in feeds : \E g \in feeds' : g.id = f.id
    BY <2>1, <2>2, UpdatedRows DEF IInv
  <2>5. TypeOK'
    BY <2>2, <2>3, <2>4, RespondTypes DEF IInv, TypeOK
  <2>6. OneRowPerUrl'
    BY <2>4 DEF IInv, OneRowPerUrl
  <2>7. RowsHaveUsedIds'
    BY <2>2, <2>4 DEF IInv, RowsHaveUsedIds
  <2>8. DeletedStaysDeleted'
    BY <2>2, <2>4 DEF IInv, DeletedStaysDeleted, HasId
  <2>. QED  BY <2>5, <2>6, <2>7, <2>8 DEF IInv
<1>4. ASSUME WriteFails(a) PROVE IInv'
  <2>1. Respond(a, "error") /\ "error" \in Answers
    BY <1>4 DEF WriteFails, Answers
  <2>. QED  BY <1>4, <2>1, RespondTypes, TableKept DEF WriteFails, IInv, TypeOK
<1>. QED  BY <1>1, <1>2, <1>3, <1>4

-----------------------------------------------------------------------------
(* DeleteFeed.                                                             *)

\* DELETE keeps it.
LEMMA DeleteInv ==
    ASSUME IInv, NEW a \in Admins,
           (\E i \in used : DeleteFeed(a, i)) \/ DeleteFails(a)
    PROVE  IInv'
<1>1. ASSUME NEW i \in used, DeleteFeed(a, i) PROVE IInv'
  <2>1. /\ feeds' = {f \in feeds : f.id # i}
        /\ deleted' = deleted \union (IF HasId(i) THEN {i} ELSE {})
        /\ used' = used
    BY <1>1 DEF DeleteFeed
  <2>2. PICK r \in Answers : Respond(a, r)
    BY <1>1, ToldAnswers DEF DeleteFeed, Answers
  <2>3. TypeOK'
    BY <1>1, <2>1, <2>2, RespondTypes DEF IInv, TypeOK
  <2>4. OneRowPerUrl' /\ RowsHaveUsedIds'
    BY <2>1 DEF IInv, OneRowPerUrl, RowsHaveUsedIds
  <2>5. DeletedStaysDeleted'
    BY <1>1, <2>1 DEF IInv, DeletedStaysDeleted, HasId
  <2>. QED  BY <2>3, <2>4, <2>5 DEF IInv
<1>2. ASSUME DeleteFails(a) PROVE IInv'
  <2>1. Respond(a, "error") /\ "error" \in Answers
    BY <1>2 DEF DeleteFails, Answers
  <2>. QED  BY <1>2, <2>1, RespondTypes, TableKept DEF DeleteFails, IInv, TypeOK
<1>. QED  BY <1>1, <1>2

-----------------------------------------------------------------------------
(* The theorems.                                                           *)

\* The inductive invariant holds in every reachable state.
THEOREM Invariance == Spec => []IInv
<1>1. IInv /\ [Next]_vars => IInv'
  <2>. SUFFICES ASSUME IInv, [Next]_vars PROVE IInv'
    OBVIOUS
  <2>1. ASSUME NEW a \in Admins,
               \/ \E u \in Urls : AddKnown(a, u) \/ AddUnknown(a, u)
               \/ Create(a) \/ CreateFails(a)
        PROVE  IInv'
    BY <2>1, AddFeedInv
  <2>2. ASSUME NEW a \in Admins,
               \/ \E i \in used : ToggleRead(a, i)
               \/ \E i \in used : \E s \in BOOLEAN : PatchRequest(a, i, s)
               \/ Write(a) \/ WriteFails(a)
        PROVE  IInv'
    BY <2>2, StatusInv
  <2>3. ASSUME NEW a \in Admins,
               (\E i \in used : DeleteFeed(a, i)) \/ DeleteFails(a)
        PROVE  IInv'
    BY <2>3, DeleteInv
  <2>4. CASE UNCHANGED vars
    BY <2>4 DEF vars, IInv, TypeOK, OneRowPerUrl, RowsHaveUsedIds,
                DeletedStaysDeleted, HasId
  <2>. QED  BY <2>1, <2>2, <2>3, <2>4 DEF Next
<1>. QED  BY InitInv, <1>1, PTL DEF Spec

\* Every variable keeps its type, and a request under way knows what it is
\* about.
THEOREM TypeCorrect == Spec => []TypeOK
<1>1. IInv => TypeOK
  BY DEF IInv
<1>. QED  BY <1>1, Invariance, PTL

\* A URL is registered once and an id belongs to one row, however many
\* requests found the URL missing before one of them inserted it
\* (feed_usecase.go:41 against 63).
THEOREM UrlsRegisteredOnce == Spec => []OneRowPerUrl
<1>1. IInv => OneRowPerUrl
  BY DEF IInv
<1>. QED  BY <1>1, Invariance, PTL

\* A deleted feed does not come back, whatever status change was under way
\* (feed_repo.go:108-117), and no other feed goes.
THEOREM DeletedFeedsStayDeleted == Spec => []DeletedStaysDeleted
<1>1. IInv => DeletedStaysDeleted
  BY DEF IInv
<1>. QED  BY <1>1, Invariance, PTL
=============================================================================
