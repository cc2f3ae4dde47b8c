----------------------- MODULE ChannelQueueRefinement -----------------------
(***************************************************************************)
(* The in-memory queue implements the safety part of the port JobQueue,    *)
(* for any finite pool of workers, any clients, any jobs and any buffer    *)
(* size: the initial state of the queue is one of the port, and every step *)
(* of a goroutine is a step of the port or none.  The mapping is Port in   *)
(* module ChannelQueue; the invariant IInv of ChannelQueueProofs says of   *)
(* each step why the port allows it.                                       *)
(***************************************************************************)
EXTENDS ChannelQueueProofs

\* The jobs that some worker has picked up, and the jobs that have ended: the
\* values of the port's active and finished.
Active == {held[w] : w \in Workers} \ {NoJob}
Finished == processed \union dropped

\* A worker that takes a job up adds it to Active, one that puts it down
\* removes it: no other worker has the same job.
LEMMA PutDown ==
    ASSUME IInv, NEW w \in Workers, held[w] # NoJob,
           held' = [held EXCEPT ![w] = NoJob]
    PROVE  held[w] \in Active /\ Active' = Active \ {held[w]}
<1>1. held[w] \in Jobs
  BY DEF IInv, TypeOK
<1>2. \A v \in Workers : held[v] = held[w] => v = w
  BY <1>1 DEF IInv, OneOwner, Busy
<1>3. \A v \in Workers : held'[v] = IF v = w THEN NoJob ELSE held[v]
  BY DEF IInv, TypeOK
<1>. QED  BY <1>2, <1>3 DEF Active

\* What the port knows of is what Enqueue accepted.
LEMMA KnownJobs ==
    ASSUME IInv, NEW j \in Jobs, reply[j] # "ok"
    PROVE  j \notin Range(jobsChan) /\ j \notin Active /\ j \notin Finished
<1>1. j \notin Range(accepted) /\ accepted = started \o jobsChan
  BY DEF IInv, ChannelOrder
<1>2. started \in Seq(Jobs) /\ jobsChan \in Seq(Jobs)
  BY DEF IInv, TypeOK
<1>3. j \notin Range(started) /\ j \notin Range(jobsChan)
  <2>1. ASSUME NEW i \in 1..Len(started)
        PROVE  i \in DOMAIN accepted /\ accepted[i] = started[i]
    BY <1>1, <1>2
  <2>2. ASSUME NEW i \in 1..Len(jobsChan)
        PROVE  /\ Len(started) + i \in DOMAIN accepted
               /\ accepted[Len(started) + i] = jobsChan[i]
    BY <1>1, <1>2
  <2>3. DOMAIN started = 1..Len(started) /\ DOMAIN jobsChan = 1..Len(jobsChan)
    BY <1>2
  <2>4. j \notin Range(started)
    BY <1>1, <2>1, <2>3 DEF Range
  <2>5. j \notin Range(jobsChan)
    <3>1. ASSUME NEW i \in 1..Len(jobsChan) PROVE jobsChan[i] # j
      BY <1>1, <2>2 DEF Range
    <3>. QED  BY <2>3, <3>1 DEF Range
  <2>. QED  BY <2>4, <2>5
<1>4. Busy(j) = {} /\ j \notin Finished
  BY <1>3 DEF IInv, OneOwner, Finished
<1>. QED  BY <1>3, <1>4 DEF Active, Busy

LEMMA InitPort == Init => Port!Init
BY DEF Init, Port!Init, Phase

-----------------------------------------------------------------------------
(* The steps.                                                              *)

LEMMA MainStepPort ==
    ASSUME IInv, Startup \/ Stop
    PROVE  [Port!Next]_(Port!vars)
<1>. USE DEF queueVars, clientVars, workerVars, history
<1>1. ASSUME NEW t \in HandledTypes, RegisterHandler(t)
      PROVE  UNCHANGED Port!vars
  BY <1>1 DEF RegisterHandler, Port!vars, Phase
<1>2. CASE StartCall
  BY <1>2 DEF StartCall, Port!vars, Phase
<1>3. CASE StartLocked
  <2>1. Port!Open
    BY <1>3 DEF StartLocked, Port!Open, Phase
  <2>. QED  BY <2>1 DEF Port!Next
<1>4. ASSUME NEW w \in Workers, Spawn(w) PROVE UNCHANGED Port!vars
  BY <1>4 DEF Spawn, Port!vars, Phase
<1>5. CASE StopCall
  BY <1>5 DEF StopCall, Port!vars, Phase
<1>6. CASE StopLocked
  <2>1. Port!Close
    BY <1>6 DEF StopLocked, Port!Close, Phase
  <2>. QED  BY <2>1 DEF Port!Next
<1>7. CASE StopDrained
  <2>1. \A w \in Workers : worker[w] = "exited"
    <3>1. Live = {}
      BY <1>7, LiveFacts DEF StopDrained, DrainComplete, IInv, Pool
    <3>. QED  BY <1>7, <3>1 DEF StopDrained, IInv, Lifecycle, Live
  <2>2. jobsChan = <<>> /\ Active = {}
    BY <2>1, WorkersAssumption DEF IInv, Pool, Active
  <2>3. Port!Drain
    BY <1>7, <2>2 DEF StopDrained, Port!Drain, Phase, Active
  <2>. QED  BY <2>3 DEF Port!Next
<1>8. CASE StopTimedOut
  <2>1. Port!Abandon
    BY <1>8 DEF StopTimedOut, Port!Abandon, Phase
  <2>. QED  BY <2>1 DEF Port!Next
<1>. QED
  BY <1>1, <1>2, <1>3, <1>4, <1>5, <1>6, <1>7, <1>8 DEF Startup, Stop

LEMMA ClientStepPort ==
    ASSUME IInv, NEW c \in Clients,
           EnqueueStep(c) \/ \E j \in Jobs : EnqueueCall(c, j)
    PROVE  [Port!Next]_(Port!vars)
<1>. USE DEF queueVars, clientVars, workerVars, history
<1>1. ASSUME NEW j \in Jobs, EnqueueCall(c, j) PROVE UNCHANGED Port!vars
  BY <1>1 DEF EnqueueCall, Port!vars, Phase
<1>2. CASE \/ EnqueueRLock(c) \/ EnqueueRunning(c) \/ EnqueueClosed(c)
           \/ EnqueueFull(c) \/ EnqueueCancelled(c)
  BY <1>2 DEF EnqueueRLock, EnqueueRunning, EnqueueClosed, EnqueueFull,
              EnqueueCancelled, Port!vars, Phase
<1>3. CASE EnqueueSend(c)
  <2>1. arg[c] \in Jobs /\ reply[arg[c]] # "ok"
    BY <1>3 DEF EnqueueSend, IInv, Calls, TypeOK
  <2>2. Phase = "running"
    BY <1>3 DEF EnqueueSend, IInv, LockDiscipline, Lifecycle, Phase
  <2>3. arg[c] \notin Port!Known
    BY <2>1, KnownJobs DEF Port!Known, Port!Range, Range, Active, Finished
  <2>4. Port!Accept(arg[c])
    BY <1>3, <2>2, <2>3 DEF EnqueueSend, Pushed, Port!Accept, Phase
  <2>. QED  BY <2>1, <2>4 DEF Port!Next
<1>. QED  BY <1>1, <1>2, <1>3 DEF EnqueueStep

LEMMA WorkerStepPort ==
    ASSUME IInv, NEW w \in Workers, WorkerStep(w)
    PROVE  [Port!Next]_(Port!vars)
<1>. USE DEF queueVars, clientVars, workerVars, history
<1>1. CASE Receive(w)
  <2>1. Head(jobsChan) \in Jobs /\ held[w] = NoJob /\ jobsChan # <<>>
    BY <1>1, ReceiveLemma DEF Receive, IInv, TypeOK, Pool
  <2>2. \A v \in Workers : held'[v] = IF v = w THEN Head(jobsChan) ELSE held[v]
    BY <1>1 DEF Receive, IInv, TypeOK
  <2>3. Active' = Active \union {Head(jobsChan)}
    BY <2>1, <2>2, JobsAssumption DEF Active
  <2>4. Port!Begin
    BY <1>1, <2>1, <2>3 DEF Receive, Popped, Port!Begin, Phase, Active
  <2>. QED  BY <2>4 DEF Port!Next
<1>2. CASE LookupMissing(w) \/ HandlerReturns(w)
  <2>. PICK j : j = held[w]
    OBVIOUS
  <2>1. j \in Jobs /\ j # NoJob
    BY <1>2 DEF LookupMissing, HandlerReturns, IInv, Pool, TypeOK
  <2>2. j \in Active /\ Active' = Active \ {j}
    BY <1>2, <2>1, PutDown DEF LookupMissing, HandlerReturns
  <2>3. Finished' = Finished \union {j}
    BY <1>2 DEF LookupMissing, HandlerReturns, Finished
  <2>4. Port!Finish(j)
    BY <1>2, <2>2, <2>3 DEF LookupMissing, HandlerReturns, Port!Finish, Phase,
                            Active, Finished
  <2>. QED  BY <2>1, <2>4 DEF Port!Next
<1>3. CASE LookupFound(w) \/ Exit(w)
  BY <1>3 DEF LookupFound, Exit, Port!vars, Phase
<1>. QED  BY <1>1, <1>2, <1>3 DEF WorkerStep

-----------------------------------------------------------------------------
(* The theorem.                                                            *)

\* What the port promises of accepting, picking up and finishing jobs and of
\* the return of Stop (job_queue.go:32-42) holds of the channel queue: jobs are
\* accepted only while it runs and only once, picked up in order, finished by
\* the worker that picked them up, and Stop returns nil only when nothing is
\* left.
THEOREM ImplementsPortSafety == Spec => Port!SafetySpec
<1>1. IInv /\ [Next]_vars => [Port!Next]_(Port!vars)
  <2>. SUFFICES ASSUME IInv, [Next]_vars PROVE [Port!Next]_(Port!vars)
    OBVIOUS
  <2>1. CASE Startup \/ Stop
    BY <2>1, MainStepPort
  <2>2. ASSUME NEW c \in Clients,
               EnqueueStep(c) \/ \E j \in Jobs : EnqueueCall(c, j)
        PROVE  [Port!Next]_(Port!vars)
    BY <2>2, ClientStepPort
  <2>3. ASSUME NEW w \in Workers, WorkerStep(w)
        PROVE  [Port!Next]_(Port!vars)
    BY <2>3, WorkerStepPort
  <2>4. CASE UNCHANGED vars
    BY <2>4 DEF vars, queueVars, clientVars, workerVars, history, Port!vars,
                Phase
  <2>. QED  BY <2>1, <2>2, <2>3, <2>4 DEF Next
<1>. QED  BY <1>1, InitPort, Invariance, PTL DEF Spec, Port!SafetySpec
=============================================================================
