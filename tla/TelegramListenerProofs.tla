----------------------- MODULE TelegramListenerProofs -----------------------
(***************************************************************************)
(* Proofs about TelegramListener, for any messages, any number of updates  *)
(* and any number of restarts: the inductive invariant IInv, which says    *)
(* how far the server, the batch and the handler that runs are behind one  *)
(* another, and from it that no command is acknowledged before it was run, *)
(* that effects keep the order of the commands and that a reported success *)
(* is one.                                                                 *)
(***************************************************************************)
EXTENDS TelegramListener, SequenceTheorems, TLAPS

\* What is left of a handler: the ends of the sequences in Handler, and the
\* reply after a failure.
PlansBeforeEffect ==
    {<<"reply", "effect", "success">>, <<"read", "effect", "success">>,
     <<"effect", "success">>}
PlansWithoutEffect == {<<>>, <<"reply">>, <<"read", "reply">>, <<"success">>}

\* The batch is a run of consecutive updates, by its first one.
BatchIsRun ==
    /\ batch \in Seq(Updates)
    /\ \A i \in 1..Len(batch) : batch[i] = batch[1] + (i - 1)

\* A handler runs, and updates wait, only inside the loop over a batch; and a
\* process that is down knows nothing.
WhereTheWorkIs ==
    /\ plan \in PlansBeforeEffect \union PlansWithoutEffect
    /\ batch # <<>> => pc = "batch"
    /\ pc = "down" => last = 0

\* Everything before the update that is handled has been handled, however the
\* process came to it: the batch begins behind what the server forgot, and
\* the server never forgot more than the listener asked for.
HandledPrefix ==
    /\ 1..confirmed \subseteq handled
    /\ 1..(last - 1) \subseteq handled
    /\ plan = <<>> => 1..last \subseteq handled
    /\ pc = "fetch" => last <= confirmed
    /\ batch # <<>> =>
           /\ batch[1] > last
           /\ plan # <<>> => batch[1] = last + 1
           /\ plan = <<>> => 1..(batch[1] - 1) \subseteq handled

\* The effects of this life are those of updates up to the current one, which
\* is not among them as long as its handler has still to make it.
EffectsUpToLast ==
    /\ \A i \in 1..Len(effects) : effects[i] <= last
    /\ plan \in PlansBeforeEffect =>
           \A i \in 1..Len(effects) : effects[i] < last

\* Only the message of success is left: the effect has been made.
SuccessAfterEffect ==
    plan = <<"success">> => \E i \in 1..Len(effects) : effects[i] = last

\* The inductive invariant.
IInv ==
    /\ TypeOK
    /\ BatchIsRun
    /\ WhereTheWorkIs
    /\ HandledPrefix
    /\ EffectsUpToLast
    /\ EffectsInOrder
    /\ SuccessAfterEffect
    /\ SuccessIsReal

-----------------------------------------------------------------------------
(* The operators of the model.                                             *)

Plans == PlansBeforeEffect \union PlansWithoutEffect
Calling == {"read", "effect", "reply", "success"}

\* Every plan is a sequence of calls.
LEMMA PlansAreCalls == Plans \subseteq Seq(Calling)
BY DEF Plans, PlansBeforeEffect, PlansWithoutEffect, Calling

\* What a handler does with a message is one of the plans, and none of them
\* begins with the message of success.
LEMMA StepsArePlans ==
    ASSUME NEW m \in Messages
    PROVE  Steps(m) \in Plans \ {<<"success">>}
<1>1. m.text \in DOMAIN Handler
  BY MessagesAssumption
<1>2. \A t \in DOMAIN Handler : Handler[t] \in Plans \ {<<"success">>}
  BY DEF Handler, Plans, PlansBeforeEffect, PlansWithoutEffect
<1>3. <<"reply">> \in Plans \ {<<"success">>}
  BY DEF Plans, PlansWithoutEffect
<1>. QED  BY <1>1, <1>2, <1>3 DEF Steps

\* What is left of a plan after its first call.
LEMMA RestOfPlan ==
    ASSUME NEW p \in Plans, p # <<>>
    PROVE  /\ Tail(p) \in Plans
           /\ Head(p) = "effect" => p \in PlansBeforeEffect
                                    /\ Tail(p) = <<"success">>
           /\ Head(p) = "success" => p = <<"success">> /\ Tail(p) = <<>>
           /\ Head(p) \in {"read", "reply"} =>
                  /\ Tail(p) # <<"success">>
                  /\ Tail(p) \in PlansBeforeEffect => p \in PlansBeforeEffect
<1>1. CASE p = <<"reply", "effect", "success">>
  <2>1. Head(p) = "reply" /\ Tail(p) = <<"effect", "success">>
    BY <1>1
  <2>. QED  BY <1>1, <2>1 DEF Plans, PlansBeforeEffect
<1>2. CASE p = <<"read", "effect", "success">>
  <2>1. Head(p) = "read" /\ Tail(p) = <<"effect", "success">>
    BY <1>2
  <2>. QED  BY <1>2, <2>1 DEF Plans, PlansBeforeEffect
<1>3. CASE p = <<"effect", "success">>
  <2>1. Head(p) = "effect" /\ Tail(p) = <<"success">>
    BY <1>3
  <2>. QED  BY <1>3, <2>1 DEF Plans, PlansBeforeEffect, PlansWithoutEffect
<1>4. CASE p = <<"read", "reply">>
  <2>1. Head(p) = "read" /\ Tail(p) = <<"reply">>
    BY <1>4
  <2>. QED  BY <1>4, <2>1 DEF Plans, PlansBeforeEffect, PlansWithoutEffect
<1>5. CASE p = <<"reply">>
  <2>1. Head(p) = "reply" /\ Tail(p) = <<>>
    BY <1>5
  <2>. QED  BY <1>5, <2>1 DEF Plans, PlansBeforeEffect, PlansWithoutEffect
<1>6. CASE p = <<"success">>
  <2>1. Head(p) = "success" /\ Tail(p) = <<>>
    BY <1>6
  <2>. QED  BY <1>6, <2>1 DEF Plans, PlansBeforeEffect, PlansWithoutEffect
<1>. QED
  BY <1>1, <1>2, <1>3, <1>4, <1>5, <1>6
  DEF Plans, PlansBeforeEffect, PlansWithoutEffect

-----------------------------------------------------------------------------
(* The life of the process.                                                *)

\* Nothing has been sent, and no process runs.
LEMMA InitInv == Init => IInv
<1>. SUFFICES ASSUME Init PROVE IInv
  OBVIOUS
<1>1. /\ sent = <<>> /\ batch = <<>> /\ plan = <<>> /\ effects = <<>>
      /\ sent \in Seq(Messages) /\ batch \in Seq(Updates)
      /\ plan \in Seq(Calling) /\ effects \in Seq(Updates)
      /\ Len(sent) = 0 /\ Len(batch) = 0 /\ Len(effects) = 0
  BY DEF Init
<1>2. TypeOK
  <2>1. /\ Len(sent) <= MaxUpdates /\ boots \in 0..MaxBoots
        /\ confirmed \in 0..Len(sent) /\ last \in 0..Len(sent)
    BY <1>1, BoundsAssumption DEF Init
  <2>2. /\ \A i \in 1..Len(batch) : batch[i] \in Updates
        /\ \A i \in 1..(Len(batch) - 1) : batch[i + 1] = batch[i] + 1
    BY <1>1
  <2>. QED
    BY <1>1, <2>1, <2>2 DEF Init, TypeOK, ListenerStates, Calling
<1>3. BatchIsRun /\ WhereTheWorkIs /\ HandledPrefix /\ EffectsUpToLast
  BY <1>1 DEF Init, BatchIsRun, WhereTheWorkIs, HandledPrefix, EffectsUpToLast,
              PlansBeforeEffect, PlansWithoutEffect
<1>4. EffectsInOrder /\ SuccessAfterEffect /\ SuccessIsReal
  BY <1>1 DEF Init, EffectsInOrder, SuccessAfterEffect, SuccessIsReal
<1>. QED  BY <1>2, <1>3, <1>4 DEF IInv

\* One more update: what was an update still is one.
LEMMA SendInv ==
    ASSUME IInv, NEW m \in Messages, SendUpdate(m)
    PROVE  IInv'
<1>1. /\ Len(sent) \in Nat /\ Len(sent') = Len(sent) + 1
      /\ sent' \in Seq(Messages) /\ Len(sent') <= MaxUpdates
      /\ UNCHANGED <<confirmed, last, batch, plan, effects, told, pc, stopping,
                     boots, handled>>
  BY BoundsAssumption DEF SendUpdate, process, IInv, TypeOK
<1>2. Updates \subseteq Updates'
  BY <1>1 DEF Updates
<1>3. batch \in Seq(Updates') /\ effects \in Seq(Updates')
  BY <1>2 DEF IInv, TypeOK, BatchIsRun
<1>4. confirmed \in 0..Len(sent') /\ last \in 0..Len(sent')
  BY <1>1 DEF IInv, TypeOK
<1>5. TypeOK'
  BY <1>1, <1>2, <1>3, <1>4 DEF IInv, TypeOK
<1>. QED
  BY <1>1, <1>3, <1>5
  DEF IInv, BatchIsRun, WhereTheWorkIs, HandledPrefix, EffectsUpToLast,
      EffectsInOrder, SuccessAfterEffect, SuccessIsReal

\* A start and a crash both forget all but what has been handled.
LEMMA ResetInv ==
    ASSUME IInv, Boot \/ Crash
    PROVE  IInv'
<1>1. /\ last' = 0 /\ batch' = <<>> /\ plan' = <<>> /\ effects' = <<>>
      /\ told' = {} /\ pc' \in {"top", "down"} /\ stopping' \in BOOLEAN
      /\ UNCHANGED <<sent, confirmed, handled>>
  BY DEF Boot, Crash, Reset, server, IInv, TypeOK
<1>2. boots' \in 0..MaxBoots
  BY BoundsAssumption DEF Boot, Crash, IInv, TypeOK
<1>3. /\ batch' \in Seq(Updates') /\ effects' \in Seq(Updates')
      /\ plan' \in Seq(Calling) /\ Len(batch') = 0 /\ Len(effects') = 0
  BY <1>1
<1>4. Updates' = Updates /\ last' \in 0..Len(sent')
  BY <1>1 DEF Updates, IInv, TypeOK
<1>5. TypeOK'
  BY <1>1, <1>2, <1>3, <1>4 DEF IInv, TypeOK, ListenerStates, Calling
<1>6. BatchIsRun' /\ WhereTheWorkIs' /\ EffectsUpToLast'
  BY <1>1, <1>3 DEF BatchIsRun, WhereTheWorkIs, EffectsUpToLast,
                    PlansBeforeEffect, PlansWithoutEffect
<1>7. HandledPrefix'
  BY <1>1 DEF IInv, HandledPrefix
<1>8. EffectsInOrder' /\ SuccessAfterEffect' /\ SuccessIsReal'
  BY <1>1, <1>3 DEF EffectsInOrder, SuccessAfterEffect, SuccessIsReal
<1>. QED  BY <1>5, <1>6, <1>7, <1>8 DEF IInv

-----------------------------------------------------------------------------
(* The loop.                                                               *)

\* The steps of the loop that fetch nothing: the server forgets no more than
\* what the handlers before this poll have done with.
LEMMA LoopInv ==
    ASSUME IInv,
           StopCall \/ LoopEnds \/ Poll \/ PollLost \/ AnswerLost \/ Retry \/ BatchDone
    PROVE  IInv'
<1>1. UNCHANGED <<sent, last, batch, plan, effects, told, boots, handled>>
  BY DEF StopCall, LoopEnds, Poll, PollLost, AnswerLost, Retry, BatchDone,
         server, process
<1>2. /\ stopping' \in BOOLEAN /\ pc' \in ListenerStates
      /\ plan # <<>> \/ batch # <<>> => pc' = "batch"
      /\ pc' = "down" => pc = "down"
  BY DEF StopCall, LoopEnds, Poll, PollLost, AnswerLost, Retry, BatchDone,
         AfterError, ListenerStates, IInv, TypeOK, WhereTheWorkIs
<1>3. /\ confirmed' \in 0..Len(sent) /\ 1..confirmed' \subseteq handled
      /\ pc' = "fetch" => last <= confirmed'
  <2>1. CASE Poll
    <3>1. plan = <<>> /\ 1..last \subseteq handled /\ last \in 0..Len(sent)
      BY <2>1 DEF Poll, IInv, TypeOK, HandledPrefix
    <3>2. confirmed' = IF last > confirmed THEN last ELSE confirmed
      BY <2>1, <3>1 DEF Poll, Forgotten, Offset
    <3>. QED  BY <3>1, <3>2 DEF IInv, TypeOK, HandledPrefix
  <2>2. CASE StopCall \/ LoopEnds \/ PollLost \/ AnswerLost \/ Retry \/ BatchDone
    <3>1. confirmed' = confirmed /\ (pc' = "fetch" => pc = "fetch")
      BY <2>2 DEF StopCall, LoopEnds, PollLost, AnswerLost, Retry, BatchDone,
                  AfterError, server
    <3>. QED  BY <3>1 DEF IInv, TypeOK, HandledPrefix
  <2>. QED  BY <2>1, <2>2
<1>4. Updates' = Updates
  BY <1>1 DEF Updates
<1>5. TypeOK'
  BY <1>1, <1>2, <1>3, <1>4 DEF IInv, TypeOK
<1>6. BatchIsRun' /\ WhereTheWorkIs' /\ HandledPrefix'
  BY <1>1, <1>2, <1>3, <1>4 DEF IInv, BatchIsRun, WhereTheWorkIs, HandledPrefix
<1>. QED
  BY <1>1, <1>5, <1>6
  DEF IInv, EffectsUpToLast, EffectsInOrder, SuccessAfterEffect, SuccessIsReal

\* A batch begins behind what the server has forgotten.
LEMMA AnswerInv == ASSUME IInv, Answer PROVE IInv'
<1>1. /\ pc = "fetch" /\ pc' = "batch"
      /\ UNCHANGED <<sent, confirmed, last, plan, effects, told, stopping, boots,
                     handled>>
  BY DEF Answer, server
<1>2. PICK n \in Nat :
        /\ n <= Len(sent) - confirmed
        /\ batch' = [i \in 1..n |-> confirmed + i]
  <2>1. Len(sent) \in Nat /\ confirmed \in 0..Len(sent)
    BY DEF IInv, TypeOK
  <2>. QED  BY <2>1 DEF Answer
<1>3. /\ Len(sent) \in Nat /\ confirmed \in 0..Len(sent)
      /\ \A i \in 1..n : confirmed + i \in Updates
  BY <1>2 DEF Updates, IInv, TypeOK
<1>4. /\ batch' \in Seq(Updates) /\ Len(batch') = n
      /\ \A i \in 1..n : batch'[i] = confirmed + i
  BY <1>2, <1>3
<1>5. Updates' = Updates
  BY <1>1 DEF Updates
<1>6. /\ plan = <<>> /\ last \in Nat /\ last <= confirmed
      /\ 1..confirmed \subseteq handled
  BY <1>1 DEF IInv, TypeOK, HandledPrefix
<1>7. /\ \A i \in 1..Len(batch') : batch'[i] \in Updates
      /\ \A i \in 1..(Len(batch') - 1) : batch'[i + 1] = batch'[i] + 1
  BY <1>3, <1>4
<1>8. TypeOK'
  BY <1>1, <1>5, <1>7 DEF IInv, TypeOK, ListenerStates
<1>9. BatchIsRun'
  BY <1>3, <1>4, <1>5 DEF BatchIsRun
<1>10. WhereTheWorkIs'
  BY <1>1 DEF IInv, WhereTheWorkIs
<1>11. HandledPrefix'
  <2>1. batch' # <<>> => n >= 1
    BY <1>2, <1>4
  <2>2. batch' # <<>> => batch'[1] = confirmed + 1
    BY <2>1, <1>4
  <2>. QED
    BY <1>1, <1>3, <1>6, <2>2 DEF IInv, HandledPrefix
<1>. QED
  BY <1>1, <1>8, <1>9, <1>10, <1>11
  DEF IInv, EffectsUpToLast, EffectsInOrder, SuccessAfterEffect, SuccessIsReal

-----------------------------------------------------------------------------
(* The handler.                                                            *)

\* The loop takes up the next update of the batch, which is behind all that
\* the effects are about.
LEMMA HandleInv == ASSUME IInv, HandleUpdate PROVE IInv'
<1>1. /\ pc = "batch" /\ plan = <<>> /\ batch # <<>>
      /\ batch' = Tail(batch)
      /\ UNCHANGED <<sent, confirmed, pc, effects, told, stopping, boots>>
  BY DEF HandleUpdate, server
<1>2. /\ batch \in Seq(Updates) /\ Len(batch) \in Nat \ {0}
      /\ batch' \in Seq(Updates) /\ Len(batch') = Len(batch) - 1
      /\ \A i \in 1..Len(batch') : batch'[i] = batch[i + 1]
      /\ Head(batch) = batch[1] /\ batch[1] \in Updates
  BY <1>1 DEF IInv, BatchIsRun
<1>3. /\ batch[1] \in Nat /\ last \in Nat /\ batch[1] > last
      /\ 1..(batch[1] - 1) \subseteq handled
  BY <1>1, <1>2 DEF Updates, IInv, TypeOK, HandledPrefix
<1>4. /\ last' = batch[1]
      /\ Continue(batch[1], Steps(sent[batch[1]]))
  BY <1>2, <1>3 DEF HandleUpdate
<1>5. /\ plan' \in Plans \ {<<"success">>}
      /\ handled' = IF plan' = <<>> THEN handled \union {last'} ELSE handled
  <2>1. sent[batch[1]] \in Messages
    BY <1>2 DEF Updates, IInv, TypeOK
  <2>. QED  BY <1>4, <2>1, StepsArePlans DEF Continue
<1>6. \A i \in 1..Len(batch') : batch'[i] = last' + i
  BY <1>2, <1>3, <1>4 DEF IInv, BatchIsRun
<1>7. Updates' = Updates /\ last' \in Updates
  BY <1>1, <1>2, <1>4 DEF Updates
<1>8. TypeOK'
  <2>1. plan' \in Seq(Calling)
    BY <1>5, PlansAreCalls
  <2>2. handled' \subseteq Updates
    BY <1>5, <1>7 DEF IInv, TypeOK
  <2>3. last' \in 0..Len(sent)
    BY <1>7 DEF Updates
  <2>4. /\ \A i \in 1..Len(batch') : batch'[i] \in Updates
        /\ \A i \in 1..(Len(batch') - 1) : batch'[i + 1] = batch'[i] + 1
    <3>1. last' \in Nat /\ Len(batch') \in Nat
      BY <1>2, <1>3, <1>4
    <3>2. \A i \in 1..(Len(batch') - 1) :
              i \in 1..Len(batch') /\ i + 1 \in 1..Len(batch')
      BY <3>1
    <3>3. \A i \in 1..(Len(batch') - 1) : batch'[i + 1] = batch'[i] + 1
      BY <3>1, <3>2, <1>6
    <3>. QED  BY <1>2, <3>3
  <2>. QED
    BY <1>1, <1>7, <2>1, <2>2, <2>3, <2>4 DEF IInv, TypeOK, Calling
<1>9. BatchIsRun'
  <2>1. last' \in Nat /\ Len(batch') \in Nat
    BY <1>2, <1>3, <1>4
  <2>2. \A i \in 1..Len(batch') : batch'[1] = last' + 1
    BY <2>1, <1>6
  <2>3. \A i \in 1..Len(batch') : batch'[i] = batch'[1] + (i - 1)
    BY <2>1, <2>2, <1>6
  <2>. QED  BY <1>2, <1>7, <2>3 DEF BatchIsRun
<1>10. WhereTheWorkIs'
  BY <1>1, <1>5 DEF WhereTheWorkIs, Plans
<1>11. HandledPrefix'
  <2>1. batch' # <<>> => batch'[1] = last' + 1
    BY <1>2, <1>6
  <2>2. 1..(last' - 1) \subseteq handled' /\ 1..confirmed \subseteq handled'
    BY <1>3, <1>4, <1>5 DEF IInv, HandledPrefix
  <2>3. plan' = <<>> => 1..last' \subseteq handled'
    BY <1>3, <1>4, <1>5
  <2>4. batch' # <<>> => /\ batch'[1] > last'
                         /\ 1..(batch'[1] - 1) = 1..last'
    BY <2>1, <1>3, <1>4
  <2>. QED  BY <1>1, <2>1, <2>2, <2>3, <2>4 DEF HandledPrefix
<1>12. \A i \in 1..Len(effects) : effects[i] < last'
  BY <1>3, <1>4 DEF Updates, IInv, TypeOK, EffectsUpToLast
<1>13. EffectsUpToLast'
  BY <1>1, <1>3, <1>4, <1>12 DEF Updates, IInv, TypeOK, EffectsUpToLast
<1>. QED
  BY <1>1, <1>5, <1>8, <1>9, <1>10, <1>11, <1>13
  DEF IInv, EffectsInOrder, SuccessAfterEffect, SuccessIsReal

\* What a step of a handler leaves alone, and what it has to show about its
\* effects and its report so that the invariant goes on.
LEMMA HandlerGoesOn ==
    ASSUME IInv, plan # <<>>, NEW steps \in Plans, Continue(last, steps),
           UNCHANGED <<sent, confirmed, pc, last, batch, stopping, boots>>,
           effects' \in Seq(Updates), told' \subseteq Updates,
           EffectsUpToLast', EffectsInOrder', SuccessAfterEffect', SuccessIsReal'
    PROVE  IInv'
<1>1. pc = "batch" /\ last \in Updates /\ Updates' = Updates
  BY DEF Updates, IInv, TypeOK
<1>2. /\ plan' \in Plans /\ plan' \in Seq(Calling)
      /\ handled' = IF plan' = <<>> THEN handled \union {last} ELSE handled
  BY PlansAreCalls DEF Continue
<1>3. TypeOK'
  BY <1>1, <1>2 DEF IInv, TypeOK, Calling
<1>4. BatchIsRun' /\ WhereTheWorkIs'
  BY <1>1, <1>2 DEF IInv, BatchIsRun, WhereTheWorkIs, Plans
<1>5. HandledPrefix'
  <2>1. /\ 1..confirmed \subseteq handled' /\ 1..(last - 1) \subseteq handled'
        /\ batch # <<>> => batch[1] = last + 1
    BY <1>2 DEF IInv, HandledPrefix
  <2>2. plan' = <<>> => 1..last \subseteq handled'
    BY <1>1, <1>2, <2>1 DEF Updates
  <2>3. batch # <<>> => batch[1] > last /\ 1..(batch[1] - 1) = 1..last
    BY <1>1, <2>1 DEF Updates
  <2>. QED  BY <1>1, <2>1, <2>2, <2>3 DEF HandledPrefix
<1>. QED  BY <1>3, <1>4, <1>5 DEF IInv

\* One call of a handler, with whatever outcome.
LEMMA HandlerInv == ASSUME IInv, HandlerStep PROVE IInv'
<1>1. /\ plan \in Plans /\ plan # <<>> /\ last \in Updates /\ last \in Nat
      /\ UNCHANGED <<sent, confirmed, pc, last, batch, stopping, boots>>
      /\ effects \in Seq(Updates) /\ Len(effects) \in Nat /\ told \subseteq Updates
      /\ \A i \in 1..Len(effects) : effects[i] \in Nat
  <2>1. plan # <<>>
    BY DEF HandlerStep, Read, Effect, EffectFails, Reply, ReplySuccess, Calls
  <2>2. UNCHANGED <<sent, confirmed, pc, last, batch, stopping, boots>>
    BY DEF HandlerStep, Read, Effect, EffectFails, Reply, ReplySuccess, server
  <2>3. /\ last \in Updates /\ effects \in Seq(Updates) /\ Len(effects) \in Nat
        /\ told \subseteq Updates /\ plan \in Plans
    BY <2>1 DEF IInv, TypeOK, WhereTheWorkIs, Plans
  <2>. QED  BY <2>1, <2>2, <2>3 DEF Updates
<1>2. <<"reply">> \in Plans /\ <<"reply">> \notin PlansBeforeEffect
      /\ <<"success">> \notin PlansBeforeEffect /\ <<"reply">> # <<"success">>
  BY DEF Plans, PlansBeforeEffect, PlansWithoutEffect
\* A reading or answering call: the effects stay as they are.
<1>3. ASSUME NEW steps \in Plans, Continue(last, steps), effects' = effects,
             told' = told, steps # <<"success">>,
             steps \in PlansBeforeEffect => plan \in PlansBeforeEffect
      PROVE  IInv'
  <2>1. EffectsUpToLast' /\ EffectsInOrder' /\ SuccessAfterEffect' /\ SuccessIsReal'
    BY <1>1, <1>3 DEF Continue, IInv, EffectsUpToLast, EffectsInOrder,
                      SuccessAfterEffect, SuccessIsReal
  <2>. QED  BY <1>1, <1>3, <2>1, HandlerGoesOn
\* The effect is made, with or without an error.
<1>4. ASSUME NEW steps \in Plans, Continue(last, steps), told' = told,
             effects' = Append(effects, last), steps \notin PlansBeforeEffect,
             plan \in PlansBeforeEffect
      PROVE  IInv'
  <2>1. /\ effects' \in Seq(Updates) /\ Len(effects') = Len(effects) + 1
        /\ effects'[Len(effects')] = last
        /\ \A i \in 1..Len(effects) : effects'[i] = effects[i]
    BY <1>1, <1>4
  <2>2. \A i \in 1..Len(effects) : effects[i] < last
    BY <1>4 DEF IInv, EffectsUpToLast
  <2>3. \A i \in 1..Len(effects') : i \in 1..Len(effects) \/ i = Len(effects')
    BY <1>1, <2>1
  <2>4. EffectsUpToLast'
    BY <1>1, <1>4, <2>1, <2>2, <2>3 DEF Continue, EffectsUpToLast
  <2>5. EffectsInOrder'
    <3>1. SUFFICES ASSUME NEW i \in 1..Len(effects'), NEW j \in 1..Len(effects'),
                          i < j
                   PROVE  effects'[i] < effects'[j]
      BY DEF EffectsInOrder
    <3>2. i \in 1..Len(effects)
      BY <1>1, <2>1, <3>1
    <3>3. CASE j \in 1..Len(effects)
      BY <2>1, <3>1, <3>2, <3>3 DEF IInv, EffectsInOrder
    <3>4. CASE j = Len(effects')
      BY <2>1, <2>2, <3>2, <3>4
    <3>. QED  BY <2>3, <3>3, <3>4
  <2>6. Len(effects') \in 1..Len(effects')
    BY <1>1, <2>1
  <2>7. SuccessAfterEffect'
    BY <1>1, <2>1, <2>6 DEF SuccessAfterEffect
  <2>8. SuccessIsReal'
    <3>1. {effects[i] : i \in 1..Len(effects)}
              \subseteq {effects'[i] : i \in 1..Len(effects')}
      <4>1. \A i \in 1..Len(effects) : i \in 1..Len(effects')
        BY <1>1, <2>1
      <4>. QED  BY <2>1, <4>1
    <3>. QED  BY <1>4, <3>1 DEF IInv, SuccessIsReal
  <2>. QED
    BY <1>1, <1>4, <2>1, <2>4, <2>5, <2>7, <2>8, HandlerGoesOn
<1>5. CASE Read
  <2>1. Continue(last, Tail(plan)) \/ Continue(last, <<"reply">>)
    BY <1>5 DEF Read, AfterFailure
  <2>2. Head(plan) = "read" /\ effects' = effects /\ told' = told
    BY <1>5 DEF Read, Calls
  <2>3. /\ Tail(plan) \in Plans /\ Tail(plan) # <<"success">>
        /\ Tail(plan) \in PlansBeforeEffect => plan \in PlansBeforeEffect
    BY <1>1, <2>2, RestOfPlan
  <2>. QED  BY <1>2, <1>3, <2>1, <2>2, <2>3
<1>6. CASE Reply
  <2>1. /\ Continue(last, Tail(plan)) /\ Head(plan) = "reply"
        /\ effects' = effects /\ told' = told
    BY <1>6 DEF Reply, Calls
  <2>. QED  BY <1>1, <1>3, <2>1, RestOfPlan
<1>7. CASE Effect
  <2>1. /\ Continue(last, Tail(plan)) /\ Head(plan) = "effect"
        /\ effects' = Append(effects, last) /\ told' = told
    BY <1>7 DEF Effect, Calls
  <2>. QED  BY <1>1, <1>2, <1>4, <2>1, RestOfPlan
<1>8. CASE EffectFails
  <2>1. /\ Continue(last, <<"reply">>) /\ Head(plan) = "effect" /\ told' = told
        /\ effects' = effects \/ effects' = Append(effects, last)
    BY <1>8 DEF EffectFails, Calls, AfterFailure
  <2>. QED  BY <1>1, <1>2, <1>3, <1>4, <2>1, RestOfPlan
<1>9. CASE ReplySuccess
  <2>1. /\ Continue(last, Tail(plan)) /\ Head(plan) = "success"
        /\ effects' = effects /\ told' \subseteq told \union {last}
    BY <1>9 DEF ReplySuccess, Calls
  <2>2. plan = <<"success">> /\ Tail(plan) = <<>>
    BY <1>1, <2>1, RestOfPlan
  <2>3. <<>> \in Plans /\ <<>> \notin PlansBeforeEffect /\ <<>> # <<"success">>
    BY DEF Plans, PlansBeforeEffect, PlansWithoutEffect
  <2>4. last \in {effects[i] : i \in 1..Len(effects)}
    BY <2>2 DEF IInv, SuccessAfterEffect
  <2>5. EffectsUpToLast' /\ EffectsInOrder' /\ SuccessAfterEffect'
    BY <1>1, <2>1, <2>2, <2>3 DEF Continue, IInv, EffectsUpToLast,
                                  EffectsInOrder, SuccessAfterEffect
  <2>6. SuccessIsReal'
    BY <2>1, <2>4 DEF IInv, SuccessIsReal
  <2>7. told' \subseteq Updates
    BY <1>1, <2>1
  <2>. QED
    BY <1>1, <2>1, <2>2, <2>3, <2>5, <2>6, <2>7, HandlerGoesOn
<1>. QED  BY <1>5, <1>6, <1>7, <1>8, <1>9 DEF HandlerStep

-----------------------------------------------------------------------------
(* The theorems.                                                           *)

\* The inductive invariant holds in every reachable state.
THEOREM Invariance == Spec => []IInv
<1>1. IInv /\ [Next]_vars => IInv'
  <2>. SUFFICES ASSUME IInv, [Next]_vars PROVE IInv'
    OBVIOUS
  <2>1. CASE Next
    BY <2>1, SendInv, ResetInv, LoopInv, AnswerInv, HandleInv, HandlerInv
    DEF Next
  <2>2. CASE UNCHANGED vars
    <3>1. Updates' = Updates
      BY <2>2 DEF vars, server, Updates
    <3>. QED
      BY <2>2, <3>1
      DEF vars, server, process, IInv, TypeOK, BatchIsRun, WhereTheWorkIs,
          HandledPrefix, EffectsUpToLast, EffectsInOrder, SuccessAfterEffect,
          SuccessIsReal
  <2>. QED  BY <2>1, <2>2
<1>. QED  BY InitInv, <1>1, PTL DEF Spec

\* Every variable keeps its type, and a batch is a run of updates that exist.
THEOREM TypeCorrect == Spec => []TypeOK
<1>1. IInv => TypeOK
  BY DEF IInv
<1>. QED  BY <1>1, Invariance, PTL

\* No command is acknowledged before its handler has run to its end, whatever
\* polls and answers are lost and however often the process starts again with
\* lastUpdateID = 0 (listener.go:120).
THEOREM NoCommandIsLost == Spec => []ConfirmedWereHandled
<1>1. IInv => ConfirmedWereHandled
  BY DEF IInv, HandledPrefix, ConfirmedWereHandled
<1>. QED  BY <1>1, Invariance, PTL

\* In one life of the process no command takes effect twice or before an
\* earlier one.
THEOREM CommandsTakeEffectInOrder == Spec => []EffectsInOrder
<1>1. IInv => EffectsInOrder
  BY DEF IInv
<1>. QED  BY <1>1, Invariance, PTL

\* No handler reports as done what was not done.
THEOREM ReportedSuccessIsReal == Spec => []SuccessIsReal
<1>1. IInv => SuccessIsReal
  BY DEF IInv
<1>. QED  BY <1>1, Invariance, PTL
=============================================================================
