------------------------- MODULE ChannelQueueProofs -------------------------
(***************************************************************************)
(* Proofs about ChannelQueue, for any finite pool of workers, any clients, *)
(* any jobs and any buffer size: the inductive invariant IInv, and from it *)
(* type correctness, the absence of a send on the closed channel, the FIFO *)
(* delivery of accepted jobs, their single ownership and the promise of    *)
(* Stop.                                                                   *)
(***************************************************************************)
EXTENDS ChannelQueue, FiniteSetTheorems, SequenceTheorems, TLAPS

-----------------------------------------------------------------------------
(* Sequences.                                                              *)

\* A sequence without repetition stays one when a new element is appended.
LEMMA SendLemma ==
    ASSUME NEW S, NEW s \in Seq(S), NEW e \in S
    PROVE  /\ Append(s, e) \in Seq(S)
           /\ Range(Append(s, e)) = Range(s) \union {e}
           /\ IsInjective(s) /\ e \notin Range(s) => IsInjective(Append(s, e))
<1>1. /\ Append(s, e) \in Seq(S)
      /\ Len(Append(s, e)) = Len(s) + 1
      /\ Append(s, e)[Len(s) + 1] = e
      /\ \A i \in 1..Len(s) : Append(s, e)[i] = s[i]
      /\ DOMAIN s = 1..Len(s)
      /\ DOMAIN Append(s, e) = 1..(Len(s) + 1)
  OBVIOUS
<1>2. Range(Append(s, e)) = Range(s) \union {e}
  BY <1>1 DEF Range
<1>3. IsInjective(s) /\ e \notin Range(s) => IsInjective(Append(s, e))
  BY <1>1 DEF Range, IsInjective
<1>. QED  BY <1>1, <1>2, <1>3

\* Receiving: moving the head of the second part to the end of the first
\* leaves the whole as it is, and if the whole has no repetition the head was
\* not in the first part.
LEMMA ReceiveLemma ==
    ASSUME NEW S, NEW s \in Seq(S), NEW t \in Seq(S), t # <<>>
    PROVE  /\ Head(t) \in S
           /\ Tail(t) \in Seq(S)
           /\ Len(Tail(t)) = Len(t) - 1
           /\ Append(s, Head(t)) \o Tail(t) = s \o t
           /\ IsInjective(s \o t) => Head(t) \notin Range(s)
<1>1. /\ Head(t) \in S
      /\ Head(t) = t[1]
      /\ Tail(t) \in Seq(S)
      /\ Len(Tail(t)) = Len(t) - 1
      /\ Len(t) \in Nat /\ Len(t) >= 1
      /\ DOMAIN s = 1..Len(s) /\ Len(s) \in Nat
  OBVIOUS
<1>2. Append(s, Head(t)) \o Tail(t) = s \o t
  BY <1>1
<1>3. ASSUME IsInjective(s \o t), Head(t) \in Range(s) PROVE FALSE
  <2>1. PICK i \in 1..Len(s) : s[i] = t[1]
    BY <1>1, <1>3 DEF Range
  <2>2. /\ (s \o t)[i] = s[i]
        /\ (s \o t)[Len(s) + 1] = t[1]
        /\ DOMAIN (s \o t) = 1..(Len(s) + Len(t))
    BY <1>1
  <2>3. i \in DOMAIN (s \o t) /\ Len(s) + 1 \in DOMAIN (s \o t)
    BY <1>1, <2>2
  <2>. QED  BY <1>1, <1>3, <2>1, <2>2, <2>3 DEF IsInjective
<1>. QED  BY <1>1, <1>2, <1>3

\* The workers that are present are finitely many, so the WaitGroup counter
\* is a number, and it is zero exactly when nobody is left.
LEMMA LiveFacts ==
    /\ IsFiniteSet(Live)
    /\ Cardinality(Live) \in Nat
    /\ Cardinality(Live) = 0 <=> Live = {}
<1>1. IsFiniteSet(Live)
  BY WorkersAssumption, FS_Subset DEF Live
<1>. QED  BY <1>1, FS_CardinalityType, FS_EmptySet

-----------------------------------------------------------------------------
USE DEF MainStates, ClientStates, WorkerStates, Replies

LEMMA InitInv == Init => IInv
<1>. SUFFICES ASSUME Init PROVE IInv
  OBVIOUS
<1>1. Live = {} /\ wg = Cardinality(Live)
  BY FS_EmptySet DEF Init, Live
<1>2. ChannelOrder
  BY DEF Init, ChannelOrder, IsInjective, Range
<1>3. TypeOK
  <2>1. <<>> \in Seq(Jobs) /\ Len(<<>>) = 0
    OBVIOUS
  <2>2. /\ client \in [Clients -> ClientStates]
        /\ arg \in [Clients -> Jobs \union {NoJob}]
        /\ reply \in [Jobs -> Replies]
        /\ worker \in [Workers -> WorkerStates]
        /\ held \in [Workers -> Jobs \union {NoJob}]
    BY DEF Init
  <2>3. Len(jobsChan) <= BufferSize
    BY <2>1, BufferAssumption DEF Init
  <2>. QED  BY <2>1, <2>2, <2>3 DEF Init, TypeOK
<1>4. Lifecycle /\ LockDiscipline /\ Calls /\ HandledJobsRun
  BY DEF Init, Lifecycle, LockDiscipline, Calls, HandledJobsRun
<1>5. Pool
  BY <1>1 DEF Init, Pool
<1>6. OneOwner
  BY JobsAssumption DEF Init, OneOwner, Busy, Range
<1>. QED  BY <1>2, <1>3, <1>4, <1>5, <1>6 DEF IInv

\* Every step preserves the inductive invariant.  The steps of main:
LEMMA MainStepInv == IInv /\ (Startup \/ Stop) => IInv'
<1>. SUFFICES ASSUME IInv, Startup \/ Stop PROVE IInv'
  OBVIOUS
<1>. USE DEF IInv, queueVars, clientVars, workerVars, history
<1>1. ASSUME NEW t \in HandledTypes, RegisterHandler(t) PROVE IInv'
  <2>1. TypeOK' /\ Lifecycle' /\ LockDiscipline' /\ Calls'
    BY <1>1, JobsAssumption DEF RegisterHandler, LockFree, TypeOK, Lifecycle,
       LockDiscipline, Calls, Pool
  <2>2. Pool' /\ HandledJobsRun'
    BY <1>1, JobsAssumption DEF RegisterHandler, LockFree, Pool, Live,
       HandledJobsRun, TypeOK, Calls, Lifecycle, LockDiscipline
  <2>3. ChannelOrder' /\ OneOwner'
    BY <1>1, JobsAssumption DEF RegisterHandler, LockFree, ChannelOrder,
       OneOwner, Busy, TypeOK, Calls, Pool, Lifecycle, LockDiscipline
  <2>. QED  BY <2>1, <2>2, <2>3 DEF IInv
<1>2. ASSUME StartCall PROVE IInv'
  <2>1. TypeOK' /\ Lifecycle' /\ LockDiscipline' /\ Calls'
    BY <1>2, JobsAssumption DEF StartCall, HandlersReady, TypeOK, Lifecycle,
       LockDiscipline, Calls, Pool
  <2>2. Pool' /\ HandledJobsRun'
    BY <1>2, JobsAssumption DEF StartCall, HandlersReady, Pool, Live,
       HandledJobsRun, TypeOK, Calls, Lifecycle, LockDiscipline
  <2>3. ChannelOrder' /\ OneOwner'
    BY <1>2, JobsAssumption DEF StartCall, HandlersReady, ChannelOrder,
       OneOwner, Busy, TypeOK, Calls, Pool, Lifecycle, LockDiscipline
  <2>. QED  BY <2>1, <2>2, <2>3 DEF IInv
<1>3. ASSUME StartLocked PROVE IInv'
  <2>1. TypeOK' /\ Lifecycle' /\ LockDiscipline' /\ Calls'
    BY <1>3, JobsAssumption DEF StartLocked, LockFree, TypeOK, Lifecycle,
       LockDiscipline, Calls, Pool
  <2>2. Pool' /\ HandledJobsRun'
    BY <1>3, JobsAssumption DEF StartLocked, LockFree, Pool, Live,
       HandledJobsRun, TypeOK, Calls, Lifecycle, LockDiscipline
  <2>3. ChannelOrder' /\ OneOwner'
    BY <1>3, JobsAssumption DEF StartLocked, LockFree, ChannelOrder, OneOwner,
       Busy, TypeOK, Calls, Pool, Lifecycle, LockDiscipline
  <2>. QED  BY <2>1, <2>2, <2>3 DEF IInv
<1>4. ASSUME NEW w \in Workers, Spawn(w) PROVE IInv'
  <2>1. TypeOK' /\ Lifecycle' /\ LockDiscipline' /\ Calls'
    BY <1>4, JobsAssumption DEF Spawn, TypeOK, Lifecycle, LockDiscipline,
       Calls, Pool
  <2>2. HandledJobsRun'
    BY <1>4, JobsAssumption DEF Spawn, HandledJobsRun, TypeOK, Calls, Pool,
       Lifecycle, LockDiscipline
  <2>3. ChannelOrder' /\ OneOwner'
    BY <1>4, JobsAssumption DEF Spawn, ChannelOrder, OneOwner, Busy, TypeOK,
       Calls, Pool, Lifecycle, LockDiscipline
  <2>4. Pool'
    <3>1. ~closed /\ \A v \in Workers : worker[v] # "exited"
      BY <1>4 DEF Spawn, Lifecycle, Pool
    <3>2. w \notin Live /\ Live' = Live \union {w}
      BY <1>4 DEF Spawn, Live, TypeOK
    <3>3. wg' = Cardinality(Live')
      BY <1>4, <3>2, LiveFacts, FS_AddElement DEF Spawn, Pool
    <3>. QED  BY <1>4, <3>1, <3>3 DEF Spawn, Pool, TypeOK
  <2>. QED  BY <2>1, <2>2, <2>3, <2>4 DEF IInv
<1>5. ASSUME StopCall PROVE IInv'
  <2>1. TypeOK' /\ Lifecycle' /\ LockDiscipline' /\ Calls'
    BY <1>5, JobsAssumption DEF StopCall, TypeOK, Lifecycle, LockDiscipline,
       Calls, Pool
  <2>2. Pool' /\ HandledJobsRun'
    BY <1>5, JobsAssumption DEF StopCall, Pool, Live, HandledJobsRun, TypeOK,
       Calls, Lifecycle, LockDiscipline
  <2>3. ChannelOrder' /\ OneOwner'
    BY <1>5, JobsAssumption DEF StopCall, ChannelOrder, OneOwner, Busy,
       TypeOK, Calls, Pool, Lifecycle, LockDiscipline
  <2>. QED  BY <2>1, <2>2, <2>3 DEF IInv
<1>6. ASSUME StopLocked PROVE IInv'
  <2>1. TypeOK' /\ Lifecycle' /\ LockDiscipline' /\ Calls'
    BY <1>6, JobsAssumption DEF StopLocked, LockFree, TypeOK, Lifecycle,
       LockDiscipline, Calls, Pool
  <2>2. Pool' /\ HandledJobsRun'
    BY <1>6, JobsAssumption DEF StopLocked, LockFree, Pool, Live,
       HandledJobsRun, TypeOK, Calls, Lifecycle, LockDiscipline
  <2>3. ChannelOrder' /\ OneOwner'
    BY <1>6, JobsAssumption DEF StopLocked, LockFree, ChannelOrder, OneOwner,
       Busy, TypeOK, Calls, Pool, Lifecycle, LockDiscipline
  <2>. QED  BY <2>1, <2>2, <2>3 DEF IInv
<1>7. ASSUME StopDrained PROVE IInv'
  <2>1. TypeOK' /\ Lifecycle' /\ LockDiscipline' /\ Calls'
    BY <1>7, JobsAssumption DEF StopDrained, DrainComplete, TypeOK, Lifecycle,
       LockDiscipline, Calls, Pool
  <2>2. HandledJobsRun'
    BY <1>7, JobsAssumption DEF StopDrained, DrainComplete, HandledJobsRun,
       TypeOK, Calls, Pool, Lifecycle, LockDiscipline
  <2>3. ChannelOrder' /\ OneOwner'
    BY <1>7, JobsAssumption DEF StopDrained, DrainComplete, ChannelOrder,
       OneOwner, Busy, TypeOK, Calls, Pool, Lifecycle, LockDiscipline
  <2>4. Pool'
    <3>1. Live = {}
      BY <1>7, LiveFacts DEF StopDrained, DrainComplete, Pool
    <3>2. \A w \in Workers : worker[w] = "exited"
      BY <1>7, <3>1 DEF StopDrained, Lifecycle, Live
    <3>. QED  BY <1>7, <3>2 DEF StopDrained, Pool, Live
  <2>. QED  BY <2>1, <2>2, <2>3, <2>4 DEF IInv
<1>8. ASSUME StopTimedOut PROVE IInv'
  <2>1. TypeOK' /\ Lifecycle' /\ LockDiscipline' /\ Calls'
    BY <1>8, JobsAssumption DEF StopTimedOut, TypeOK, Lifecycle,
       LockDiscipline, Calls, Pool
  <2>2. Pool' /\ HandledJobsRun'
    BY <1>8, JobsAssumption DEF StopTimedOut, Pool, Live, HandledJobsRun,
       TypeOK, Calls, Lifecycle, LockDiscipline
  <2>3. ChannelOrder' /\ OneOwner'
    BY <1>8, JobsAssumption DEF StopTimedOut, ChannelOrder, OneOwner, Busy,
       TypeOK, Calls, Pool, Lifecycle, LockDiscipline
  <2>. QED  BY <2>1, <2>2, <2>3 DEF IInv
<1>. QED
  BY <1>1, <1>2, <1>3, <1>4, <1>5, <1>6, <1>7, <1>8 DEF Startup, Stop

\* The calls of Enqueue:
LEMMA ClientStepInv ==
    ASSUME IInv, NEW c \in Clients,
           EnqueueStep(c) \/ \E j \in Jobs : EnqueueCall(c, j)
    PROVE  IInv'
<1>. USE DEF IInv, queueVars, clientVars, workerVars, history
<1>1. ASSUME NEW j \in Jobs, EnqueueCall(c, j) PROVE IInv'
  <2>1. TypeOK' /\ Lifecycle' /\ LockDiscipline' /\ Calls'
    BY <1>1, JobsAssumption DEF EnqueueCall, InFlight, TypeOK, Lifecycle,
       LockDiscipline, Calls, Pool
  <2>2. Pool' /\ HandledJobsRun'
    BY <1>1, JobsAssumption DEF EnqueueCall, InFlight, Pool, Live,
       HandledJobsRun, TypeOK, Calls, Lifecycle, LockDiscipline
  <2>3. ChannelOrder' /\ OneOwner'
    BY <1>1, JobsAssumption DEF EnqueueCall, InFlight, ChannelOrder, OneOwner,
       Busy, TypeOK, Calls, Pool, Lifecycle, LockDiscipline
  <2>. QED  BY <2>1, <2>2, <2>3 DEF IInv
<1>2. ASSUME EnqueueRLock(c) PROVE IInv'
  <2>1. TypeOK' /\ Lifecycle' /\ LockDiscipline' /\ Calls'
    BY <1>2, JobsAssumption DEF EnqueueRLock, ReadersMayEnter, TypeOK,
       Lifecycle, LockDiscipline, Calls, Pool
  <2>2. Pool' /\ HandledJobsRun'
    BY <1>2, JobsAssumption DEF EnqueueRLock, ReadersMayEnter, Pool, Live,
       HandledJobsRun, TypeOK, Calls, Lifecycle, LockDiscipline
  <2>3. ChannelOrder' /\ OneOwner'
    BY <1>2, JobsAssumption DEF EnqueueRLock, ReadersMayEnter, ChannelOrder,
       OneOwner, Busy, TypeOK, Calls, Pool, Lifecycle, LockDiscipline
  <2>. QED  BY <2>1, <2>2, <2>3 DEF IInv
<1>3. ASSUME EnqueueRunning(c) PROVE IInv'
  <2>1. TypeOK' /\ Lifecycle' /\ LockDiscipline' /\ Calls'
    BY <1>3, JobsAssumption DEF EnqueueRunning, TypeOK, Lifecycle,
       LockDiscipline, Calls, Pool
  <2>2. Pool' /\ HandledJobsRun'
    BY <1>3, JobsAssumption DEF EnqueueRunning, Pool, Live, HandledJobsRun,
       TypeOK, Calls, Lifecycle, LockDiscipline
  <2>3. ChannelOrder' /\ OneOwner'
    BY <1>3, JobsAssumption DEF EnqueueRunning, ChannelOrder, OneOwner, Busy,
       TypeOK, Calls, Pool, Lifecycle, LockDiscipline
  <2>. QED  BY <2>1, <2>2, <2>3 DEF IInv
<1>4. ASSUME EnqueueClosed(c) PROVE IInv'
  <2>1. TypeOK' /\ Lifecycle' /\ LockDiscipline' /\ Calls'
    BY <1>4, JobsAssumption DEF EnqueueClosed, Answer, TypeOK, Lifecycle,
       LockDiscipline, Calls, Pool
  <2>2. Pool' /\ HandledJobsRun'
    BY <1>4, JobsAssumption DEF EnqueueClosed, Answer, Pool, Live,
       HandledJobsRun, TypeOK, Calls, Lifecycle, LockDiscipline
  <2>3. ChannelOrder' /\ OneOwner'
    BY <1>4, JobsAssumption DEF EnqueueClosed, Answer, ChannelOrder, OneOwner,
       Busy, TypeOK, Calls, Pool, Lifecycle, LockDiscipline
  <2>. QED  BY <2>1, <2>2, <2>3 DEF IInv
<1>5. ASSUME EnqueueSend(c) PROVE IInv'
  <2>1. Lifecycle' /\ LockDiscipline' /\ Calls'
    BY <1>5, JobsAssumption DEF EnqueueSend, Answer, HasRoom, Pushed,
       Lifecycle, LockDiscipline, Calls, TypeOK, Pool
  <2>2. Pool' /\ HandledJobsRun'
    BY <1>5, JobsAssumption DEF EnqueueSend, Answer, HasRoom, Pushed, Pool,
       Live, HandledJobsRun, TypeOK, Calls, Lifecycle, LockDiscipline
  <2>3. OneOwner'
    BY <1>5, JobsAssumption DEF EnqueueSend, Answer, HasRoom, Pushed,
       OneOwner, Busy, TypeOK, Calls, Pool, Lifecycle, LockDiscipline
  <2>4. TypeOK'
    <3>1. arg[c] \in Jobs
      BY <1>5 DEF EnqueueSend, Calls, TypeOK
    <3>2. /\ jobsChan' \in Seq(Jobs)
          /\ accepted' \in Seq(Jobs)
          /\ Len(jobsChan') <= BufferSize
      BY <1>5, <3>1, BufferAssumption DEF EnqueueSend, Pushed, HasRoom, TypeOK
    <3>3. /\ client' \in [Clients -> ClientStates]
          /\ arg' \in [Clients -> Jobs \union {NoJob}]
          /\ reply' \in [Jobs -> Replies]
      BY <1>5 DEF EnqueueSend, Answer, TypeOK
    <3>. QED  BY <1>5, <3>2, <3>3 DEF EnqueueSend, TypeOK
  <2>5. ChannelOrder'
    <3>1. arg[c] \in Jobs /\ reply[arg[c]] # "ok"
      BY <1>5 DEF EnqueueSend, Calls, TypeOK
    <3>2. arg[c] \notin Range(accepted)
      BY <3>1 DEF ChannelOrder
    <3>3. /\ arg[c] \in Jobs
          /\ accepted \in Seq(Jobs)
          /\ jobsChan \in Seq(Jobs)
          /\ started \in Seq(Jobs)
      BY <3>1 DEF TypeOK
    <3>4. /\ accepted' = Append(accepted, arg[c])
          /\ jobsChan' = Append(jobsChan, arg[c])
          /\ started' = started
      BY <1>5 DEF EnqueueSend, Pushed
    <3>5. Append(started \o jobsChan, arg[c])
             = started \o Append(jobsChan, arg[c])
      <4>1. Append(started \o jobsChan, arg[c])
               = (started \o jobsChan) \o <<arg[c]>>
        BY <3>3, AppendIsConcat
      <4>2. Append(jobsChan, arg[c]) = jobsChan \o <<arg[c]>>
        BY <3>3, AppendIsConcat
      <4>3. (started \o jobsChan) \o <<arg[c]>>
               = started \o (jobsChan \o <<arg[c]>>)
        BY <3>3, ConcatAssociative
      <4>. QED  BY <4>1, <4>2, <4>3
    <3>6. /\ Range(Append(accepted, arg[c])) = Range(accepted) \union {arg[c]}
          /\ IsInjective(accepted) => IsInjective(Append(accepted, arg[c]))
      BY <3>1, <3>2, <3>3, SendLemma
    <3>7. {j \in Jobs : reply'[j] = "ok"}
             = {j \in Jobs : reply[j] = "ok"} \union {arg[c]}
      BY <1>5, <3>1 DEF EnqueueSend, Answer, TypeOK
    <3>. QED  BY <3>4, <3>5, <3>6, <3>7 DEF ChannelOrder
  <2>. QED  BY <2>1, <2>2, <2>3, <2>4, <2>5 DEF IInv
<1>6. ASSUME EnqueueFull(c) PROVE IInv'
  <2>1. TypeOK' /\ Lifecycle' /\ LockDiscipline' /\ Calls'
    BY <1>6, JobsAssumption DEF EnqueueFull, Answer, TypeOK, Lifecycle,
       LockDiscipline, Calls, Pool
  <2>2. Pool' /\ HandledJobsRun'
    BY <1>6, JobsAssumption DEF EnqueueFull, Answer, Pool, Live,
       HandledJobsRun, TypeOK, Calls, Lifecycle, LockDiscipline
  <2>3. ChannelOrder' /\ OneOwner'
    BY <1>6, JobsAssumption DEF EnqueueFull, Answer, ChannelOrder, OneOwner,
       Busy, TypeOK, Calls, Pool, Lifecycle, LockDiscipline
  <2>. QED  BY <2>1, <2>2, <2>3 DEF IInv
<1>7. ASSUME EnqueueCancelled(c) PROVE IInv'
  <2>1. TypeOK' /\ Lifecycle' /\ LockDiscipline' /\ Calls'
    BY <1>7, JobsAssumption DEF EnqueueCancelled, Answer, TypeOK, Lifecycle,
       LockDiscipline, Calls, Pool
  <2>2. Pool' /\ HandledJobsRun'
    BY <1>7, JobsAssumption DEF EnqueueCancelled, Answer, Pool, Live,
       HandledJobsRun, TypeOK, Calls, Lifecycle, LockDiscipline
  <2>3. ChannelOrder' /\ OneOwner'
    BY <1>7, JobsAssumption DEF EnqueueCancelled, Answer, ChannelOrder,
       OneOwner, Busy, TypeOK, Calls, Pool, Lifecycle, LockDiscipline
  <2>. QED  BY <2>1, <2>2, <2>3 DEF IInv
<1>. QED
  BY <1>1, <1>2, <1>3, <1>4, <1>5, <1>6, <1>7 DEF EnqueueStep

\* The workers:
LEMMA WorkerStepInv ==
    ASSUME IInv, NEW w \in Workers, WorkerStep(w)
    PROVE  IInv'
<1>. USE DEF IInv, queueVars, clientVars, workerVars, history
<1>1. ASSUME Receive(w) PROVE IInv'
  <2>1. Lifecycle' /\ LockDiscipline' /\ Calls'
    BY <1>1, JobsAssumption DEF Receive, Popped, Lifecycle, LockDiscipline,
       Calls, TypeOK, Pool
  <2>2. HandledJobsRun'
    BY <1>1, JobsAssumption DEF Receive, Popped, HandledJobsRun, TypeOK,
       Calls, Pool, Lifecycle, LockDiscipline
  <2>3. TypeOK'
    <3>1. /\ Head(jobsChan) \in Jobs
          /\ jobsChan' \in Seq(Jobs)
          /\ Len(jobsChan') <= BufferSize
          /\ started' \in Seq(Jobs)
      BY <1>1, ReceiveLemma, BufferAssumption DEF Receive, Popped, TypeOK
    <3>. QED  BY <1>1, <3>1 DEF Receive, TypeOK
  <2>4. Pool'
    <3>1. Head(jobsChan) \in Jobs
      BY <1>1, ReceiveLemma DEF Receive, TypeOK
    <3>2. \A v \in Workers : worker[v] # "exited"
      BY <1>1 DEF Receive, Pool
    <3>3. Live' = Live
      BY <1>1 DEF Receive, Live, TypeOK
    <3>. QED  BY <1>1, <3>1, <3>2, <3>3, JobsAssumption
              DEF Receive, Pool, TypeOK
  <2>5. ChannelOrder'
    <3>1. started' \o jobsChan' = started \o jobsChan
      BY <1>1, ReceiveLemma DEF Receive, Popped, TypeOK
    <3>. QED  BY <1>1, <3>1 DEF Receive, ChannelOrder
  <2>6. OneOwner'
    <3>. PICK h : h = Head(jobsChan)
      OBVIOUS
    <3>1. h \in Jobs /\ h # NoJob /\ h \notin Range(started)
      BY <1>1, ReceiveLemma, JobsAssumption DEF Receive, ChannelOrder, TypeOK
    <3>2. Range(started') = Range(started) \union {h}
      BY <1>1, <3>1, SendLemma DEF Receive, TypeOK
    <3>3. held[w] = NoJob /\ held' = [held EXCEPT ![w] = h]
      BY <1>1 DEF Receive, Pool
    <3>4. Busy(h) = {} /\ h \notin processed \union dropped
      BY <3>1 DEF OneOwner
    <3>5. Busy(h)' = {w}
      BY <3>3, <3>4 DEF Busy, TypeOK
    <3>6. ASSUME NEW j \in Jobs, j # h PROVE Busy(j)' = Busy(j)
      BY <3>3, <3>6, JobsAssumption DEF Busy, TypeOK
    <3>. QED  BY <1>1, <3>1, <3>2, <3>4, <3>5, <3>6 DEF Receive, OneOwner
  <2>. QED  BY <2>1, <2>2, <2>3, <2>4, <2>5, <2>6 DEF IInv
<1>2. ASSUME LookupFound(w) PROVE IInv'
  <2>1. TypeOK' /\ Lifecycle' /\ LockDiscipline' /\ Calls'
    BY <1>2, JobsAssumption DEF LookupFound, TypeOK, Lifecycle,
       LockDiscipline, Calls, Pool
  <2>2. Pool' /\ HandledJobsRun'
    BY <1>2, JobsAssumption DEF LookupFound, Pool, Live, HandledJobsRun,
       TypeOK, Calls, Lifecycle, LockDiscipline
  <2>3. ChannelOrder' /\ OneOwner'
    BY <1>2, JobsAssumption DEF LookupFound, ChannelOrder, OneOwner, Busy,
       TypeOK, Calls, Pool, Lifecycle, LockDiscipline
  <2>. QED  BY <2>1, <2>2, <2>3 DEF IInv
<1>3. ASSUME LookupMissing(w) PROVE IInv'
  <2>1. TypeOK' /\ Lifecycle' /\ LockDiscipline' /\ Calls'
    BY <1>3, JobsAssumption DEF LookupMissing, TypeOK, Lifecycle,
       LockDiscipline, Calls, Pool
  <2>2. Pool' /\ HandledJobsRun'
    BY <1>3, JobsAssumption DEF LookupMissing, Pool, Live, HandledJobsRun,
       TypeOK, Calls, Lifecycle, LockDiscipline
  <2>3. ChannelOrder' /\ OneOwner'
    BY <1>3, JobsAssumption DEF LookupMissing, ChannelOrder, OneOwner, Busy,
       TypeOK, Calls, Pool, Lifecycle, LockDiscipline
  <2>. QED  BY <2>1, <2>2, <2>3 DEF IInv
<1>4. ASSUME HandlerReturns(w) PROVE IInv'
  <2>1. TypeOK' /\ Lifecycle' /\ LockDiscipline' /\ Calls'
    BY <1>4, JobsAssumption DEF HandlerReturns, TypeOK, Lifecycle,
       LockDiscipline, Calls, Pool
  <2>2. Pool' /\ HandledJobsRun'
    BY <1>4, JobsAssumption DEF HandlerReturns, Pool, Live, HandledJobsRun,
       TypeOK, Calls, Lifecycle, LockDiscipline
  <2>3. ChannelOrder' /\ OneOwner'
    BY <1>4, JobsAssumption DEF HandlerReturns, ChannelOrder, OneOwner, Busy,
       TypeOK, Calls, Pool, Lifecycle, LockDiscipline
  <2>. QED  BY <2>1, <2>2, <2>3 DEF IInv
<1>5. ASSUME Exit(w) PROVE IInv'
  <2>1. Lifecycle' /\ LockDiscipline' /\ Calls'
    BY <1>5, JobsAssumption DEF Exit, RangeEnds, Lifecycle, LockDiscipline,
       Calls, TypeOK, Pool
  <2>2. HandledJobsRun'
    BY <1>5, JobsAssumption DEF Exit, RangeEnds, HandledJobsRun, TypeOK,
       Calls, Pool, Lifecycle, LockDiscipline
  <2>3. ChannelOrder' /\ OneOwner'
    BY <1>5, JobsAssumption DEF Exit, RangeEnds, ChannelOrder, OneOwner, Busy,
       TypeOK, Calls, Pool, Lifecycle, LockDiscipline
  <2>4. TypeOK'
    <3>1. w \in Live
      BY <1>5 DEF Exit, Live
    <3>2. wg - 1 \in Nat
      BY <3>1, LiveFacts DEF Pool
    <3>. QED  BY <1>5, <3>2 DEF Exit, TypeOK
  <2>5. Pool'
    <3>1. w \in Live /\ Live' = Live \ {w}
      BY <1>5 DEF Exit, Live, TypeOK
    <3>2. wg' = Cardinality(Live')
      BY <1>5, <3>1, LiveFacts, FS_RemoveElement DEF Exit, Pool
    <3>. QED  BY <1>5, <3>2 DEF Exit, RangeEnds, Pool, TypeOK
  <2>. QED  BY <2>1, <2>2, <2>3, <2>4, <2>5 DEF IInv
<1>. QED
  BY <1>1, <1>2, <1>3, <1>4, <1>5 DEF WorkerStep

\* A step that changes no variable of the queue:
LEMMA StutterInv == IInv /\ UNCHANGED vars => IInv'
BY DEF IInv, vars, queueVars, clientVars, workerVars, history, TypeOK,
       Lifecycle, LockDiscipline, Calls, Pool, Live, ChannelOrder, OneOwner,
       Busy, HandledJobsRun

-----------------------------------------------------------------------------
(* The theorems.                                                           *)

\* The inductive invariant holds in every reachable state, for every pool,
\* every set of callers and every buffer size.
THEOREM Invariance == Spec => []IInv
<1>1. IInv /\ [Next]_vars => IInv'
  <2>. SUFFICES ASSUME IInv, [Next]_vars PROVE IInv'
    OBVIOUS
  <2>1. CASE Startup \/ Stop
    BY <2>1, MainStepInv
  <2>2. CASE \E c \in Clients : \E j \in Jobs : EnqueueCall(c, j)
    BY <2>2, ClientStepInv
  <2>3. CASE \E c \in Clients : EnqueueStep(c)
    BY <2>3, ClientStepInv
  <2>4. CASE \E w \in Workers : WorkerStep(w)
    BY <2>4, WorkerStepInv
  <2>5. CASE UNCHANGED vars
    BY <2>5, StutterInv
  <2>. QED  BY <2>1, <2>2, <2>3, <2>4, <2>5 DEF Next
<1>. QED  BY InitInv, <1>1, PTL DEF Spec

\* Every variable keeps its type, and the channel never holds more jobs than
\* its capacity (channel_queue.go:43, the select of Enqueue).
THEOREM TypeCorrect == Spec => []TypeOK
<1>1. IInv => TypeOK
  BY DEF IInv
<1>. QED  BY <1>1, Invariance, PTL

\* No goroutine stands at the send of Enqueue with the channel closed, so the
\* send never panics (channel_queue.go:57-68 against 99-107).
THEOREM SendNeverPanics == Spec => []NoSendOnClosed
<1>1. IInv => NoSendOnClosed
  BY DEF IInv, NoSendOnClosed, LockDiscipline, Lifecycle, TypeOK
<1>. QED  BY <1>1, Invariance, PTL

\* Jobs are received in the order in which Enqueue accepted them, none is lost
\* in the channel and none comes out twice.
THEOREM FifoDelivery == Spec => []ChannelOrder
<1>1. IInv => ChannelOrder
  BY DEF IInv
<1>. QED  BY <1>1, Invariance, PTL

\* A received job is with one worker, or processed, or dropped, never two of
\* these, whatever worker took it and whatever Stop does meanwhile.
THEOREM SingleOwner == Spec => []OneOwner
<1>1. IInv => OneOwner
  BY DEF IInv
<1>. QED  BY <1>1, Invariance, PTL

\* When Stop has returned nil, every accepted job has ended and every worker
\* is gone (channel_queue.go:97-118, job_queue.go:40).
THEOREM StopDrainsEverything == Spec => []GracefulStop
<1>1. IInv => GracefulStop
  <2>. SUFFICES ASSUME IInv, main = "stopped" PROVE GracefulStop
    BY DEF GracefulStop
  <2>1. \A w \in Workers : worker[w] = "exited" /\ held[w] = NoJob
    BY DEF IInv, Pool
  <2>2. jobsChan = <<>>
    BY <2>1, WorkersAssumption DEF IInv, Pool
  <2>3. accepted = started
    BY <2>2 DEF IInv, ChannelOrder, TypeOK
  <2>4. \A j \in Jobs : Busy(j) = {}
    BY <2>1, JobsAssumption DEF Busy
  <2>. QED  BY <2>1, <2>3, <2>4 DEF IInv, ChannelOrder, OneOwner, GracefulStop
<1>. QED  BY <1>1, Invariance, PTL

\* A job of a type main registers is never dropped for want of a handler.
THEOREM HandlersAlwaysFound == Spec => []HandledJobsRun
<1>1. IInv => HandledJobsRun
  BY DEF IInv
<1>. QED  BY <1>1, Invariance, PTL

=============================================================================
