---------------------------- MODULE ChannelQueue ----------------------------
(***************************************************************************)
(* The in-memory job queue, internal/adapter/queue/memory/channel_queue.go:*)
(* a buffered channel, a pool of worker goroutines, a WaitGroup and one    *)
(* RWMutex.  Callers of Enqueue (cron, HTTP, Telegram, start-up) run       *)
(* concurrently with the workers and with the goroutine of main that       *)
(* registers the handlers, starts the queue and stops it once.             *)
(*                                                                         *)
(* The RWMutex is read off the program counters.  A client holds the read  *)
(* lock from RLock to its deferred RUnlock, hence while it is in "check"   *)
(* or "select".  Start and Stop wait for the write lock in "starting" and  *)
(* "stopping"; Go's RWMutex lets no new reader in while a writer waits.    *)
(* What runs under the write lock is one action.                           *)
(***************************************************************************)
EXTENDS Naturals, FiniteSets, Sequences, Functions

CONSTANTS
    Workers,        \* the worker goroutines, workersCount of them
    Clients,        \* goroutines that call Enqueue
    Jobs,           \* job identities (pipeline-<UnixNano>)
    NoJob,          \* a nil job pointer
    BufferSize,     \* capacity of jobsChan
    JobTypes,       \* the declared job types
    JobType,        \* the type of each job
    HandledTypes    \* the types main registers a handler for

\* NewChannelJobQueue replaces counts that are not positive by defaults, so
\* there is always a worker and room for one job.
ASSUME WorkersAssumption == IsFiniteSet(Workers) /\ Workers # {}
ASSUME BufferAssumption == BufferSize \in Nat \ {0}
ASSUME JobsAssumption == NoJob \notin Jobs /\ JobType \in [Jobs -> JobTypes]
ASSUME HandledAssumption == HandledTypes \subseteq JobTypes

VARIABLES
    main,       \* the goroutine that registers, starts and stops
    isRunning,  \* the flag Enqueue reads
    closed,     \* jobsChan has been closed
    jobsChan,   \* what the channel buffers
    handlers,   \* job types that have a handler
    wg,         \* the WaitGroup counter
    client,     \* where each client is in Enqueue
    arg,        \* the job each client is enqueueing
    reply,      \* the last answer Enqueue gave for a job
    worker,     \* where each worker is
    held,       \* the job each worker is on
    processed,  \* jobs whose handler has returned
    dropped,    \* jobs that met no handler
    accepted,   \* history: jobs sent into the channel, in order
    started     \* history: jobs received from it, in order

queueVars  == <<isRunning, closed, handlers, wg>>
clientVars == <<client, arg, reply>>
workerVars == <<worker, held, processed, dropped>>
history    == <<accepted, started>>
vars == <<main, queueVars, jobsChan, clientVars, workerVars, history>>

MainStates   == {"setup", "starting", "spawning", "up", "stopping",
                 "draining", "stopped", "timedout"}
ClientStates == {"idle", "lock", "check", "select"}
WorkerStates == {"new", "idle", "lookup", "run", "exited"}
Replies      == {"none", "ok", "closed", "full", "cancelled"}

-----------------------------------------------------------------------------
(* Locks, channel and WaitGroup.                                           *)

\* Seeded fault: a write lock that does not wait for readers.
LockFree_NoMutex == TRUE

\* Lock() can be granted: no goroutine is inside an RLock section.
LockFree == \A c \in Clients : client[c] \in {"idle", "lock"}

\* Seeded fault: readers that overtake a waiting writer.
ReadersMayEnter_Barging == TRUE

\* Seeded fault: Stop keeps the lock, deferring its Unlock, while it waits.
ReadersMayEnter_WholeStop == main \notin {"starting", "stopping", "draining"}

\* RLock() can be granted: no writer is waiting for the lock.
ReadersMayEnter == main \notin {"starting", "stopping"}

\* Seeded fault: one slot too many.
HasRoom_OffByOne == Len(jobsChan) <= BufferSize

HasRoom == Len(jobsChan) < BufferSize

\* select has no ready case but default.
TakesDefault == ~HasRoom

\* Seeded fault: last in, first out.
Pushed_Lifo(s, j) == <<j>> \o s

Pushed(s, j) == Append(s, j)

\* Seeded fault: a job is read without being removed.
Popped_Peek(s) == s

Popped(s) == Tail(s)

\* Seeded fault: Stop waits for an empty channel, not for the workers.
DrainComplete_ChannelOnly == jobsChan = <<>>

\* wg.Wait() returns.
DrainComplete == wg = 0

\* Seeded fault: workers leave on close, with jobs still buffered.
RangeEnds_OnClose == closed

\* A range over the channel ends when it is closed and empty.
RangeEnds == closed /\ jobsChan = <<>>

\* Seeded fault: the queue starts before the handlers are registered.
HandlersReady_Any == TRUE

\* main calls RegisterQueueHandlers before Start.
HandlersReady == handlers = HandledTypes

InFlight == {arg[c] : c \in Clients}

-----------------------------------------------------------------------------
Init ==
    /\ main = "setup"
    /\ isRunning = FALSE
    /\ closed = FALSE
    /\ jobsChan = <<>>
    /\ handlers = {}
    /\ wg = 0
    /\ client = [c \in Clients |-> "idle"]
    /\ arg = [c \in Clients |-> NoJob]
    /\ reply = [j \in Jobs |-> "none"]
    /\ worker = [w \in Workers |-> "new"]
    /\ held = [w \in Workers |-> NoJob]
    /\ processed = {}
    /\ dropped = {}
    /\ accepted = <<>>
    /\ started = <<>>

-----------------------------------------------------------------------------
(* The goroutine of main: RegisterHandler, Start, Stop.                    *)

RegisterHandler(t) ==
    /\ main = "setup"
    /\ t \notin handlers
    /\ LockFree
    /\ handlers' = handlers \union {t}
    /\ UNCHANGED <<main, isRunning, closed, wg, jobsChan, clientVars,
                   workerVars, history>>

\* Start is called: it asks for the write lock.
StartCall ==
    /\ main = "setup"
    /\ HandlersReady
    /\ main' = "starting"
    /\ UNCHANGED <<queueVars, jobsChan, clientVars, workerVars, history>>

StartLocked ==
    /\ main = "starting"
    /\ LockFree
    /\ isRunning' = TRUE
    /\ main' = "spawning"
    /\ UNCHANGED <<closed, handlers, wg, jobsChan, clientVars, workerVars,
                   history>>

\* wg.Add(1); go q.worker(i).  The lock is already released, and Start
\* returns after the last worker.
Spawn(w) ==
    /\ main = "spawning"
    /\ worker[w] = "new"
    /\ wg' = wg + 1
    /\ worker' = [worker EXCEPT ![w] = "idle"]
    /\ main' = IF \A v \in Workers \ {w} : worker[v] # "new"
               THEN "up" ELSE "spawning"
    /\ UNCHANGED <<isRunning, closed, handlers, jobsChan, clientVars, held,
                   processed, dropped, history>>

\* The shutdown signal: Stop is called and asks for the write lock.
StopCall ==
    /\ main = "up"
    /\ main' = "stopping"
    /\ UNCHANGED <<queueVars, jobsChan, clientVars, workerVars, history>>

StopLocked ==
    /\ main = "stopping"
    /\ LockFree
    /\ isRunning' = FALSE
    /\ closed' = TRUE
    /\ main' = "draining"
    /\ UNCHANGED <<handlers, wg, jobsChan, clientVars, workerVars, history>>

StopDrained ==
    /\ main = "draining"
    /\ DrainComplete
    /\ main' = "stopped"
    /\ UNCHANGED <<queueVars, jobsChan, clientVars, workerVars, history>>

\* The caller's context ends first: Stop returns an error.
StopTimedOut ==
    /\ main = "draining"
    /\ main' = "timedout"
    /\ UNCHANGED <<queueVars, jobsChan, clientVars, workerVars, history>>

-----------------------------------------------------------------------------
(* Enqueue, called by a client.                                            *)

\* A job the queue has refused may be offered again.
EnqueueCall(c, j) ==
    /\ client[c] = "idle"
    /\ reply[j] # "ok"
    /\ j \notin InFlight
    /\ client' = [client EXCEPT ![c] = "lock"]
    /\ arg' = [arg EXCEPT ![c] = j]
    /\ UNCHANGED <<main, queueVars, jobsChan, reply, workerVars, history>>

EnqueueRLock(c) ==
    /\ client[c] = "lock"
    /\ ReadersMayEnter
    /\ client' = [client EXCEPT ![c] = "check"]
    /\ UNCHANGED <<main, queueVars, jobsChan, arg, reply, workerVars, history>>

\* Enqueue returns r, and the deferred RUnlock runs.
Answer(c, r) ==
    /\ client' = [client EXCEPT ![c] = "idle"]
    /\ arg' = [arg EXCEPT ![c] = NoJob]
    /\ reply' = [reply EXCEPT ![arg[c]] = r]

EnqueueRunning(c) ==
    /\ client[c] = "check"
    /\ isRunning
    /\ client' = [client EXCEPT ![c] = "select"]
    /\ UNCHANGED <<main, queueVars, jobsChan, arg, reply, workerVars, history>>

EnqueueClosed(c) ==
    /\ client[c] = "check"
    /\ ~isRunning
    /\ Answer(c, "closed")
    /\ UNCHANGED <<main, queueVars, jobsChan, workerVars, history>>

EnqueueSend(c) ==
    /\ client[c] = "select"
    /\ HasRoom
    /\ jobsChan' = Pushed(jobsChan, arg[c])
    /\ accepted' = Append(accepted, arg[c])
    /\ Answer(c, "ok")
    /\ UNCHANGED <<main, queueVars, workerVars, started>>

EnqueueFull(c) ==
    /\ client[c] = "select"
    /\ TakesDefault
    /\ Answer(c, "full")
    /\ UNCHANGED <<main, queueVars, jobsChan, workerVars, history>>

\* The caller's context is done: select may take that case, room or not.
EnqueueCancelled(c) ==
    /\ client[c] = "select"
    /\ Answer(c, "cancelled")
    /\ UNCHANGED <<main, queueVars, jobsChan, workerVars, history>>

-----------------------------------------------------------------------------
(* A worker goroutine.                                                     *)

Receive(w) ==
    /\ worker[w] = "idle"
    /\ jobsChan # <<>>
    /\ held' = [held EXCEPT ![w] = Head(jobsChan)]
    /\ started' = Append(started, Head(jobsChan))
    /\ jobsChan' = Popped(jobsChan)
    /\ worker' = [worker EXCEPT ![w] = "lookup"]
    /\ UNCHANGED <<main, queueVars, clientVars, processed, dropped, accepted>>

\* processJob reads the handler map under RLock, and finds the job's handler.
LookupFound(w) ==
    /\ worker[w] = "lookup"
    /\ ReadersMayEnter
    /\ JobType[held[w]] \in handlers
    /\ worker' = [worker EXCEPT ![w] = "run"]
    /\ UNCHANGED <<main, queueVars, jobsChan, clientVars, held, processed,
                   dropped, history>>

\* No handler for the job's type: processJob logs and returns.
LookupMissing(w) ==
    /\ worker[w] = "lookup"
    /\ ReadersMayEnter
    /\ JobType[held[w]] \notin handlers
    /\ dropped' = dropped \union {held[w]}
    /\ worker' = [worker EXCEPT ![w] = "idle"]
    /\ held' = [held EXCEPT ![w] = NoJob]
    /\ UNCHANGED <<main, queueVars, jobsChan, clientVars, processed, history>>

\* The handler returns, with or without an error: the queue only logs it.
HandlerReturns(w) ==
    /\ worker[w] = "run"
    /\ processed' = processed \union {held[w]}
    /\ worker' = [worker EXCEPT ![w] = "idle"]
    /\ held' = [held EXCEPT ![w] = NoJob]
    /\ UNCHANGED <<main, queueVars, jobsChan, clientVars, dropped, history>>

Exit(w) ==
    /\ worker[w] = "idle"
    /\ RangeEnds
    /\ worker' = [worker EXCEPT ![w] = "exited"]
    /\ wg' = wg - 1
    /\ UNCHANGED <<main, isRunning, closed, handlers, jobsChan, clientVars,
                   held, processed, dropped, history>>

-----------------------------------------------------------------------------
Startup ==
    \/ \E t \in HandledTypes : RegisterHandler(t)
    \/ StartCall
    \/ StartLocked
    \/ \E w \in Workers : Spawn(w)

Stop == StopCall \/ StopLocked \/ StopDrained \/ StopTimedOut

\* Enqueue from the moment its lock is requested to its return.
EnqueueStep(c) ==
    \/ EnqueueRLock(c)
    \/ EnqueueRunning(c)
    \/ EnqueueClosed(c)
    \/ EnqueueSend(c)
    \/ EnqueueFull(c)
    \/ EnqueueCancelled(c)

WorkerStep(w) ==
    \/ Receive(w)
    \/ LookupFound(w)
    \/ LookupMissing(w)
    \/ HandlerReturns(w)
    \/ Exit(w)

Next ==
    \/ Startup
    \/ Stop
    \/ \E c \in Clients : \E j \in Jobs : EnqueueCall(c, j)
    \/ \E c \in Clients : EnqueueStep(c)
    \/ \E w \in Workers : WorkerStep(w)

\* The Go scheduler runs every goroutine that can run.  A handler returns:
\* its context expires after five minutes.  The select of Enqueue is taken
\* whatever case is ready, so fairness on it cannot rest on a cancellation.
\* Nothing makes a client call, a signal arrive or a deadline pass.
Fairness ==
    /\ WF_vars(StartLocked)
    /\ \A w \in Workers : WF_vars(Spawn(w))
    /\ WF_vars(StopLocked)
    /\ WF_vars(StopDrained)
    /\ \A c \in Clients : WF_vars(EnqueueRLock(c))
    /\ \A c \in Clients : WF_vars(EnqueueRunning(c) \/ EnqueueClosed(c))
    /\ \A c \in Clients : WF_vars(EnqueueSend(c) \/ EnqueueFull(c))
    /\ \A w \in Workers : WF_vars(WorkerStep(w))

Spec == Init /\ [][Next]_vars

FairSpec == Spec /\ Fairness

-----------------------------------------------------------------------------
(* Properties.                                                             *)

\* Every variable keeps its type, and the channel never buffers more than
\* its capacity.
TypeOK ==
    /\ main \in MainStates
    /\ isRunning \in BOOLEAN
    /\ closed \in BOOLEAN
    /\ jobsChan \in Seq(Jobs)
    /\ Len(jobsChan) <= BufferSize
    /\ handlers \in SUBSET HandledTypes
    /\ wg \in Nat
    /\ client \in [Clients -> ClientStates]
    /\ arg \in [Clients -> Jobs \union {NoJob}]
    /\ reply \in [Jobs -> Replies]
    /\ worker \in [Workers -> WorkerStates]
    /\ held \in [Workers -> Jobs \union {NoJob}]
    /\ processed \in SUBSET Jobs
    /\ dropped \in SUBSET Jobs
    /\ accepted \in Seq(Jobs)
    /\ started \in Seq(Jobs)

\* A goroutine that is about to send has the channel open: Go panics on a
\* send to a closed channel, also inside select.  The check of isRunning, the
\* send and the close are ordered only by the RWMutex (channel_queue.go:57-72
\* against 99-107).
NoSendOnClosed == \A c \in Clients : client[c] = "select" => ~closed

\* The channel is a FIFO that neither loses nor repeats: what was sent is what
\* was received followed by what is buffered, each job at most once, and
\* Enqueue returned nil for exactly these jobs.
ChannelOrder ==
    /\ accepted = started \o jobsChan
    /\ IsInjective(accepted)
    /\ Range(accepted) = {j \in Jobs : reply[j] = "ok"}

Busy(j) == {w \in Workers : held[w] = j}

\* A received job has exactly one owner: it is with one worker, or it was
\* processed, or it was dropped; no job is in two of these places.
OneOwner ==
    \A j \in Jobs :
        /\ \A v, w \in Busy(j) : v = w
        /\ Busy(j) # {} => j \notin processed \union dropped
        /\ j \notin processed \intersect dropped
        /\ j \in Range(started) <=> Busy(j) # {} \/ j \in processed \union dropped

\* When Stop returns nil, every job Enqueue ever accepted has ended and every
\* worker is gone: the promise of job_queue.go:40, that Stop "drains the queue
\* and waits for in-flight tasks to complete".
GracefulStop ==
    main = "stopped" =>
        /\ \A j \in Jobs : reply[j] = "ok" => j \in processed \union dropped
        /\ \A w \in Workers : worker[w] = "exited"

\* A job whose type main registers a handler for is never dropped, however
\* early it is enqueued: no worker looks a handler up before it is there.
HandledJobsRun == \A j \in dropped : JobType[j] \notin HandledTypes

-----------------------------------------------------------------------------
(* The inductive invariant behind the safety properties.                   *)

Live == {w \in Workers : worker[w] \notin {"new", "exited"}}

\* The two flags follow main, and so does the existence of the workers.
Lifecycle ==
    /\ isRunning <=> main \in {"spawning", "up", "stopping"}
    /\ closed <=> main \in {"draining", "stopped", "timedout"}
    /\ main \in {"setup", "starting"} => \A w \in Workers : worker[w] = "new"
    /\ main \notin {"setup", "starting", "spawning"} =>
           \A w \in Workers : worker[w] # "new"
    /\ main # "setup" => handlers = HandledTypes

\* Whoever passed the check of isRunning still holds the read lock, so the
\* queue is still running.
LockDiscipline == \A c \in Clients : client[c] = "select" => isRunning

\* A call in progress has a job of its own, which no earlier call got in.
Calls ==
    \A c \in Clients :
        /\ client[c] = "idle" <=> arg[c] = NoJob
        /\ arg[c] # NoJob =>
               /\ reply[arg[c]] # "ok"
               /\ \A d \in Clients : arg[d] = arg[c] => d = c

\* Workers hold a job exactly while they process it, and leave only when
\* the channel is closed and drained; the WaitGroup counts those present.
Pool ==
    /\ \A w \in Workers : worker[w] \in {"lookup", "run"} <=> held[w] # NoJob
    /\ \A w \in Workers :
           worker[w] = "run" => JobType[held[w]] \in HandledTypes
    /\ (\E w \in Workers : worker[w] = "exited") => closed /\ jobsChan = <<>>
    /\ wg = Cardinality(Live)
    /\ main = "stopped" => \A w \in Workers : worker[w] = "exited"

\* The strengthening that is preserved by every step: the mutual exclusion of
\* check-and-send with close, the ownership of every accepted job, and the
\* exactness of the WaitGroup, on which the promise of Stop rests.
IInv ==
    /\ TypeOK
    /\ Lifecycle
    /\ LockDiscipline
    /\ Calls
    /\ Pool
    /\ ChannelOrder
    /\ OneOwner
    /\ HandledJobsRun

-----------------------------------------------------------------------------
(* Liveness.                                                               *)

\* Every accepted job ends, unless Stop gave up on it: a worker always comes
\* back for it, also when the channel is closed in between.
AcceptedJobsEnd ==
    \A j \in Jobs :
        reply[j] = "ok" ~> (j \in processed \union dropped \/ main = "timedout")

\* Enqueue returns: no caller waits forever for the lock or in the select,
\* although Stop may be waiting for that same lock and the channel be full.
EnqueueReturns == \A c \in Clients : client[c] = "lock" ~> client[c] = "idle"

\* Stop returns, although callers keep coming for the read lock.
StopReturns == main = "stopping" ~> main \in {"stopped", "timedout"}

-----------------------------------------------------------------------------
(* The port this queue implements.                                         *)

Phase ==
    CASE main \in {"setup", "starting"}          -> "new"
      [] main \in {"spawning", "up", "stopping"} -> "running"
      [] main = "draining"                       -> "closing"
      [] main = "stopped"                        -> "drained"
      [] main = "timedout"                       -> "abandoned"

Port == INSTANCE JobQueue WITH
            phase    <- Phase,
            pending  <- jobsChan,
            active   <- {held[w] : w \in Workers} \ {NoJob},
            finished <- processed \union dropped

\* Every behaviour of the queue is one of the port.
ImplementsPort == Port!Spec
=============================================================================
