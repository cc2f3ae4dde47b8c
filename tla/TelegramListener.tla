-------------------------- MODULE TelegramListener --------------------------
(***************************************************************************)
(* The Telegram command listener, internal/delivery/telegram/listener.go:  *)
(* one goroutine long-polls getUpdates, runs the command of each update    *)
(* and acknowledges a batch only with the offset of its next poll.  The    *)
(* Telegram server keeps an update until an offset beyond it arrives.      *)
(* Calls and answers may be lost, the process may crash or be stopped, and *)
(* it starts again with lastUpdateID = 0.                                  *)
(*                                                                         *)
(* A handler is the sequence of calls it makes: "read" is a ListFeeds,     *)
(* "effect" the use case that adds, switches or deletes a feed or triggers *)
(* the pipeline, "reply" a message and "success" the one that says that    *)
(* the effect was made.                                                    *)
(***************************************************************************)
EXTENDS Integers, Sequences

CONSTANTS
    Messages,   \* what users send, [chat, text]
    MaxUpdates, \* bound: updates sent
    MaxBoots    \* bound: starts of the process

\* The handlers by the calls they make, one after the other.  "help" stands
\* for every text that is only answered: /help, an unknown command, a command
\* without its argument.
Handler ==
    [photo |-> <<>>, chatter |-> <<>>, help |-> <<"reply">>,
     list |-> <<"read", "reply">>,
     add |-> <<"reply", "effect", "success">>,
     toggle |-> <<"read", "effect", "success">>,
     delete |-> <<"effect", "success">>, run |-> <<"effect", "success">>]

\* "admin" is the allowed chat; every chat is, when none is configured.
Chats == {"admin", "stranger"}

ASSUME MessagesAssumption == Messages \subseteq [chat : Chats, text : DOMAIN Handler]
ASSUME BoundsAssumption == MaxUpdates \in Nat /\ MaxBoots \in Nat \ {0}

VARIABLES
    sent,       \* what users sent, by update id
    confirmed,  \* server: updates up to this one are forgotten
    pc,         \* where pollLoop is
    last,       \* lastUpdateID
    batch,      \* the updates fetched and not yet handled
    stopping,   \* stopChan is closed
    boots,      \* starts of the process
    plan,       \* the calls the handler of update `last` still makes
    handled,    \* history: updates whose handler has run to its end, ever
    effects,    \* history: the updates whose effect was made in this life
    told        \* history: those whose success was reported in this life

server == <<sent, confirmed>>
process == <<last, batch, plan, effects, told>>
vars == <<server, process, pc, stopping, boots, handled>>

Updates == 1..Len(sent)
ListenerStates == {"down", "top", "fetch", "batch", "backoff", "exited"}

-----------------------------------------------------------------------------
\* Seeded fault: the offset that was asked last is asked again.
Offset_Same == last

\* Seeded fault: the offset skips an update that was never fetched.
Offset_Ahead == last + 2

\* fetchUpdates(ctx, lastUpdateID+1).
Offset == last + 1

\* What the server forgets on a request with this offset.
Forgotten(offset) == offset - 1

\* Seeded fault: the stop signal is only seen while waiting to retry.
StopSeen_OnlyInBackoff == FALSE

\* The select at the head of the loop.
StopSeen == stopping

\* Seeded fault: an error of getUpdates ends the loop.
AfterError_GivesUp == "exited"

AfterError == "backoff"

\* What handleMessage does with a message; one without a text never gets there.
Steps(m) ==
    IF m.chat = "admin" \/ m.text = "photo" THEN Handler[m.text] ELSE <<"reply">>

\* Seeded fault: the error of a call is not looked at.
AfterFailure_Ignored == Tail(plan)

\* A call that fails, or a feed that is not found: the handler replies so.
AfterFailure == <<"reply">>

\* A process begins with nothing.
Reset ==
    /\ last' = 0
    /\ batch' = <<>>
    /\ plan' = <<>>
    /\ effects' = <<>>
    /\ told' = {}

\* The handler of id goes on with these calls; without any it has returned.
Continue(id, steps) ==
    /\ plan' = steps
    /\ handled' = IF steps = <<>> THEN handled \union {id} ELSE handled

-----------------------------------------------------------------------------
Init ==
    /\ sent = <<>>
    /\ confirmed = 0
    /\ pc = "down"
    /\ stopping = FALSE
    /\ boots = 0
    /\ handled = {}
    /\ last = 0 /\ batch = <<>> /\ plan = <<>>
    /\ effects = <<>> /\ told = {}

\* A user writes to the bot.
SendUpdate(m) ==
    /\ Len(sent) < MaxUpdates
    /\ sent' = Append(sent, m)
    /\ UNCHANGED <<confirmed, process, pc, stopping, boots, handled>>

\* The process starts and main calls Start.
Boot ==
    /\ pc \in {"down", "exited"}
    /\ boots < MaxBoots
    /\ boots' = boots + 1
    /\ pc' = "top"
    /\ stopping' = FALSE
    /\ Reset
    /\ UNCHANGED <<server, handled>>

Crash ==
    /\ pc \notin {"down", "exited"}
    /\ boots < MaxBoots
    /\ pc' = "down"
    /\ Reset
    /\ UNCHANGED <<server, stopping, boots, handled>>

\* Stop closes stopChan and waits for the loop to end.
StopCall ==
    /\ pc \notin {"down", "exited"}
    /\ ~stopping
    /\ stopping' = TRUE
    /\ UNCHANGED <<server, process, pc, boots, handled>>

\* The select at the head of the loop, or the one that waits to retry.
LoopEnds ==
    /\ \/ pc = "top" /\ StopSeen
       \/ pc = "backoff" /\ stopping
    /\ pc' = "exited"
    /\ UNCHANGED <<server, process, stopping, boots, handled>>

\* The request reaches the server, which forgets what it acknowledges.
Poll ==
    /\ pc = "top"
    /\ ~StopSeen
    /\ confirmed' = IF Forgotten(Offset) > confirmed
                    THEN Forgotten(Offset) ELSE confirmed
    /\ pc' = "fetch"
    /\ UNCHANGED <<sent, process, stopping, boots, handled>>

\* The request is lost on its way.
PollLost ==
    /\ pc = "top"
    /\ ~StopSeen
    /\ pc' = AfterError
    /\ UNCHANGED <<server, process, stopping, boots, handled>>

\* The server keeps what it has not been told to forget, and answers with the
\* oldest of it; with nothing, when it still has nothing after 25 seconds.
Answer ==
    /\ pc = "fetch"
    /\ \E n \in IF Len(sent) > confirmed THEN 1..(Len(sent) - confirmed) ELSE {0} :
          batch' = [i \in 1..n |-> confirmed + i]
    /\ pc' = "batch"
    /\ UNCHANGED <<server, last, plan, effects, told, stopping, boots, handled>>

\* No answer, or one that cannot be read or reports an error.
AnswerLost ==
    /\ pc = "fetch"
    /\ pc' = AfterError
    /\ UNCHANGED <<server, process, stopping, boots, handled>>

\* Three seconds later.
Retry ==
    /\ pc = "backoff"
    /\ pc' = "top"
    /\ UNCHANGED <<server, process, stopping, boots, handled>>

\* One turn of the loop over the batch: lastUpdateID, then the handler.  A
\* stop signal is not looked at until the batch is done.
HandleUpdate ==
    /\ pc = "batch"
    /\ plan = <<>> /\ batch # <<>>
    /\ LET id == Head(batch)
       IN  /\ last' = IF id >= last THEN id ELSE last
           /\ Continue(id, Steps(sent[id]))
    /\ batch' = Tail(batch)
    /\ UNCHANGED <<server, pc, effects, told, stopping, boots>>

\* The next call of the handler is this one.
Calls(step) == plan # <<>> /\ Head(plan) = step

\* ListFeeds succeeds, or fails, or does not show the feed of a /toggle.
Read ==
    /\ Calls("read")
    /\ \E steps \in {Tail(plan), AfterFailure} : Continue(last, steps)
    /\ UNCHANGED <<server, pc, last, batch, effects, told, stopping, boots>>

\* The use case does what the command asks for.
Effect ==
    /\ Calls("effect")
    /\ effects' = Append(effects, last)
    /\ Continue(last, Tail(plan))
    /\ UNCHANGED <<server, pc, last, batch, told, stopping, boots>>

\* The use case returns an error; its statement may have been committed.
EffectFails ==
    /\ Calls("effect")
    /\ effects' \in {effects, Append(effects, last)}
    /\ Continue(last, AfterFailure)
    /\ UNCHANGED <<server, pc, last, batch, told, stopping, boots>>

\* A message is posted or lost: every caller ignores the error of reply.
Reply ==
    /\ Calls("reply")
    /\ Continue(last, Tail(plan))
    /\ UNCHANGED <<server, pc, last, batch, effects, told, stopping, boots>>

ReplySuccess ==
    /\ Calls("success")
    /\ told' \in {told, told \union {last}}
    /\ Continue(last, Tail(plan))
    /\ UNCHANGED <<server, pc, last, batch, effects, stopping, boots>>

HandlerStep == Read \/ Effect \/ EffectFails \/ Reply \/ ReplySuccess

BatchDone ==
    /\ pc = "batch"
    /\ plan = <<>> /\ batch = <<>>
    /\ pc' = "top"
    /\ UNCHANGED <<server, process, stopping, boots, handled>>

-----------------------------------------------------------------------------
Next ==
    \/ \E m \in Messages : SendUpdate(m)
    \/ Boot \/ Crash \/ StopCall
    \/ LoopEnds \/ Poll \/ PollLost \/ Answer \/ AnswerLost \/ Retry
    \/ HandleUpdate \/ HandlerStep \/ BatchDone

Spec == Init /\ [][Next]_vars

\* A call that may take forever: the handlers get the context of main, which
\* ends after Stop has returned, so a statement has no deadline, and /addfeed
\* without a name fetches the feed with a client that has no timeout.  /run
\* only enqueues a job, and what is posted has the 40 seconds of the listener's
\* own client.
Unbounded ==
    Calls("read") \/ (Calls("effect") /\ sent[last].text # "run")

\* The goroutine goes on whenever it can, a process that is down is started
\* again, and of infinitely many calls to Telegram some get through and some
\* get answered.  A call that is Unbounded need not end.
Fairness ==
    /\ WF_vars(Boot)
    /\ WF_vars(LoopEnds)
    /\ WF_vars(Retry)
    /\ WF_vars(HandleUpdate)
    /\ WF_vars(~Unbounded /\ HandlerStep)
    /\ WF_vars(BatchDone)
    /\ SF_vars(Poll)
    /\ SF_vars(Answer)

FairSpec == Spec /\ Fairness

-----------------------------------------------------------------------------
(* Properties.                                                             *)

\* Every variable keeps its type; the batch is a run of consecutive updates
\* that exist, and nothing is confirmed that was never sent.
TypeOK ==
    /\ sent \in Seq(Messages) /\ Len(sent) <= MaxUpdates
    /\ confirmed \in 0..Len(sent)
    /\ pc \in ListenerStates
    /\ last \in 0..Len(sent)
    /\ \A i \in 1..Len(batch) : batch[i] \in Updates
    /\ \A i \in 1..(Len(batch) - 1) : batch[i + 1] = batch[i] + 1
    /\ plan \in Seq({"read", "effect", "reply", "success"})
    /\ plan # <<>> => pc = "batch" /\ last \in Updates
    /\ stopping \in BOOLEAN
    /\ boots \in 0..MaxBoots
    /\ handled \subseteq Updates
    /\ effects \in Seq(Updates)
    /\ told \subseteq Updates

\* The server forgets an update only after its handler has run to its end,
\* whatever call or answer was lost and whenever the process died: no command
\* is lost (listener.go:120, the offset of the next poll acknowledges).
ConfirmedWereHandled == 1..confirmed \subseteq handled

\* In one life of the process the effects of the commands are made in the
\* order the commands were sent, each at most once, although an update can be
\* fetched again as long as it is not acknowledged: /toggle does not cancel
\* itself, and a /delfeed does not overtake the /addfeed before it.
EffectsInOrder ==
    \A i, j \in 1..Len(effects) : i < j => effects[i] < effects[j]

\* What is reported as done has been done: no handler reaches its message of
\* success past a call that failed.
SuccessIsReal == told \subseteq {effects[i] : i \in 1..Len(effects)}

\* The listener does not hang in a call: each of them ends, or the process
\* does.  The code does not see to it; feed_usecase.go:49 fetches a feed with
\* the client of parser.go:23 under the context that main cancels last
\* (main.go:174), so a server that never answers holds the listener forever.
NoCallHangs == []<>~Unbounded

\* If no call hangs, every command is run to its end, through lost calls and
\* restarts, unless the last process is stopped before.
EveryCommandRuns ==
    NoCallHangs =>
        \A id \in 1..MaxUpdates :
            id \in Updates ~> \/ id \in handled
                              \/ pc = "exited" /\ stopping /\ boots = MaxBoots

\* If no call hangs, Stop returns: the loop sees the signal after at most one
\* poll and one batch, whatever else fails.
StopReturns == NoCallHangs => (stopping ~> pc \in {"exited", "down"})
=============================================================================
