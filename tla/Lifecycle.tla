----------------------------- MODULE Lifecycle -----------------------------
(***************************************************************************)
(* The life of the process, cmd/server/main.go: start-up, the four sources *)
(* of pipeline jobs (cron, HTTP, Telegram and start-up itself), and the    *)
(* graceful shutdown.  The job queue is its port, module JobQueue, with a  *)
(* number of workers and a capacity; the database is the pool main opens   *)
(* and closes.  After the signal main stops one part after the other; the  *)
(* HTTP server and the queue share one 30-second context, the cron         *)
(* scheduler and the listener are waited for without any.                  *)
(***************************************************************************)
EXTENDS Naturals, FiniteSets, Sequences

CONSTANTS
    Requests,   \* concurrent HTTP requests
    Jobs,       \* bound: the jobs that may be created
    NoJob,      \* the work at hand is not a trigger
    Workers,    \* WORKER_COUNT
    BufferSize  \* QUEUE_BUFFER_SIZE

ASSUME PartsAssumption ==
    /\ IsFiniteSet(Requests) /\ {"cron", "telegram"} \intersect Requests = {}
    /\ NoJob \notin Jobs
    /\ Workers \in Nat \ {0} /\ BufferSize \in Nat \ {0}

VARIABLES
    main,       \* where main is: a start-up step, up, the part it stops
    stopped,    \* the parts whose Stop, Shutdown or Close has been called
    expired,    \* the context of the shutdown is done
    db,         \* the connection pool
    state,      \* the goroutines that create jobs
    call,       \* the job each of them is enqueueing
    answer,     \* what Enqueue answered for each job
    phase, pending, active, finished    \* the job queue

Queue == INSTANCE JobQueue

queue == <<phase, pending, active, finished>>
sources == <<state, call, answer>>
vars == <<main, stopped, expired, db, sources, queue>>

Sources == Requests \union {"cron", "telegram"}
StartStates == {"connect", "start", "schedule", "listen", "startup", "serve"}
Parts == {"http", "cron", "telegram", "queue", "database"}
Answers == {"none", "queued", "full", "closed", "cancelled"}

Alive == main \notin {"exited", "crashed"}

\* Seeded fault: the queue is stopped first, and fed by the rest meanwhile.
After_QueueFirst ==
    [up |-> "queue", queue |-> "http", http |-> "cron", cron |-> "telegram",
     telegram |-> "database", database |-> "exited"]

\* Seeded fault: the database is closed before the queue is drained.
After_DatabaseEarly ==
    [up |-> "http", http |-> "cron", cron |-> "telegram",
     telegram |-> "database", database |-> "queue", queue |-> "exited"]

\* Seeded fault: the queue is not stopped, its workers die with main.
After_NoDrain ==
    [up |-> "http", http |-> "cron", cron |-> "telegram",
     telegram |-> "database", database |-> "exited", queue |-> "exited"]

\* The order in which main stops the parts.
After ==
    [up |-> "http", http |-> "cron", cron |-> "telegram",
     telegram |-> "queue", queue |-> "database", database |-> "exited"]

\* main goes on to the next part and calls its Stop.
Proceed ==
    /\ main' = After[main]
    /\ stopped' = stopped \union ({main'} \intersect Parts)

Unused == {j \in Jobs : answer[j] = "none" /\ \A p \in Sources : call[p] # j}

\* The id of the next job, pipeline-<UnixNano>; none once the bound is reached.
Fresh == IF Unused = {} THEN {} ELSE {CHOOSE j \in Unused : TRUE}

-----------------------------------------------------------------------------
Init ==
    /\ main = "connect"
    /\ stopped = {}
    /\ expired = FALSE
    /\ db = "unset"
    /\ state = [p \in Sources |-> "off"]
    /\ call = [p \in Sources |-> NoJob]
    /\ answer = [j \in Jobs |-> "none"]
    /\ Queue!Init

\* Seeded fault: one slot too many.
HasRoom_OffByOne == Len(pending) <= BufferSize

HasRoom == Len(pending) < BufferSize

\* Enqueue of j: it is accepted, or refused because the buffer is full or the
\* queue is not running.
Enqueue(j) ==
    \/ /\ HasRoom
       /\ Queue!Accept(j)
       /\ answer' = [answer EXCEPT ![j] = "queued"]
    \/ /\ phase = "running" /\ ~HasRoom
       /\ answer' = [answer EXCEPT ![j] = "full"]
       /\ UNCHANGED queue
    \/ /\ phase # "running"
       /\ answer' = [answer EXCEPT ![j] = "closed"]
       /\ UNCHANGED queue

-----------------------------------------------------------------------------
(* Start-up.                                                               *)

StartUp(from, to) == main = from /\ main' = to /\ UNCHANGED <<stopped, expired>>

\* NewPostgresDB fails: main warns and goes on with a nil pool.
Connect ==
    /\ StartUp("connect", "start")
    /\ db' \in {"open", "none"}
    /\ UNCHANGED <<sources, queue>>

StartQueue ==
    /\ StartUp("start", "schedule")
    /\ Queue!Open
    /\ UNCHANGED <<db, sources>>

\* A schedule that cannot be parsed is only warned about.
StartCron ==
    /\ StartUp("schedule", "listen")
    /\ \E s \in {"idle", "off"} : state' = [state EXCEPT !["cron"] = s]
    /\ UNCHANGED <<db, call, answer, queue>>

\* Without a bot token there is no listener.
StartListener ==
    /\ StartUp("listen", "startup")
    /\ \E s \in {"idle", "off"} : state' = [state EXCEPT !["telegram"] = s]
    /\ UNCHANGED <<db, call, answer, queue>>

\* RUN_PIPELINE_ON_STARTUP; the error of Enqueue is ignored.
StartupTrigger ==
    /\ StartUp("startup", "serve")
    /\ \/ UNCHANGED <<answer, queue>>
       \/ \E j \in Fresh : Enqueue(j)
    /\ UNCHANGED <<db, state, call>>

Serve ==
    /\ StartUp("serve", "up")
    /\ state' = [p \in Sources |-> IF p \in Requests THEN "idle" ELSE state[p]]
    /\ UNCHANGED <<db, call, answer, queue>>

\* log.Fatalf, of the AI client or of a port that is taken, or a signal
\* before signal.Notify: the process ends at once.
Dies ==
    /\ main \in StartStates \union {"up"}
    /\ main' = "crashed"
    /\ UNCHANGED <<stopped, expired, db, sources, queue>>

-----------------------------------------------------------------------------
(* The sources of jobs.                                                    *)

\* Seeded fault: the poll loop does not look at stopChan.
ListenerStops_Never == FALSE

\* The poll loop sees stopChan closed at its head.
ListenerStops == "telegram" \in stopped

Becomes(p, s, j) ==
    /\ state' = [state EXCEPT ![p] = s]
    /\ call' = [call EXCEPT ![p] = j]

\* The handler has returned.  The listener runs the rest of its batch before
\* it looks at stopChan: idle, it is between two commands or in a poll.
Returns(p) == Becomes(p, "idle", NoJob)

\* A request comes in; Shutdown has closed the listening socket.
RequestArrives(r) ==
    /\ Alive
    /\ state[r] = "idle"
    /\ "http" \notin stopped
    /\ \E j \in Fresh \union {NoJob} : Becomes(r, "busy", j)
    /\ UNCHANGED <<main, stopped, expired, db, answer, queue>>

CronFires ==
    /\ Alive
    /\ state["cron"] = "idle"
    /\ "cron" \notin stopped
    /\ \E j \in Fresh : Becomes("cron", "busy", j)
    /\ UNCHANGED <<main, stopped, expired, db, answer, queue>>

\* The next command of the batch, or of the next poll, also after Stop has
\* been called.
CommandArrives ==
    /\ Alive
    /\ state["telegram"] = "idle"
    /\ \E j \in Fresh \union {NoJob} : Becomes("telegram", "busy", j)
    /\ UNCHANGED <<main, stopped, expired, db, answer, queue>>

\* The batch is done, or a poll has returned with nothing, and the loop sees
\* the signal.
ListenerEnds ==
    /\ Alive
    /\ state["telegram"] = "idle"
    /\ ListenerStops
    /\ Becomes("telegram", "off", NoJob)
    /\ UNCHANGED <<main, stopped, expired, db, answer, queue>>

\* TriggerPipelineAsync enqueues the job, and its caller reports the answer.
Trigger(p) ==
    /\ Alive
    /\ state[p] = "busy"
    /\ call[p] # NoJob
    /\ Enqueue(call[p])
    /\ Returns(p)
    /\ UNCHANGED <<main, stopped, expired, db>>

\* The client of a request has gone: select may see its context done.
TriggerCancelled(r) ==
    /\ Alive
    /\ state[r] = "busy"
    /\ call[r] # NoJob
    /\ phase = "running"
    /\ answer' = [answer EXCEPT ![call[r]] = "cancelled"]
    /\ Returns(r)
    /\ UNCHANGED <<main, stopped, expired, db, queue>>

\* Any other request or command ends, with or without an error; a panic in a
\* request, on a nil pool, is caught by the Recoverer middleware.
Work(p) ==
    /\ Alive
    /\ state[p] = "busy"
    /\ call[p] = NoJob
    /\ Returns(p)
    /\ UNCHANGED <<main, stopped, expired, db, answer, queue>>

\* A command that needs the database panics on a nil pool in the goroutine of
\* the listener, and takes the process with it.
ListenerPanics ==
    /\ Alive
    /\ state["telegram"] = "busy" /\ call["telegram"] = NoJob
    /\ db = "none"
    /\ main' = "crashed"
    /\ UNCHANGED <<stopped, expired, db, sources, queue>>

-----------------------------------------------------------------------------
(* The workers.                                                            *)

WorkerBegins ==
    /\ Alive
    /\ Cardinality(active) < Workers
    /\ Queue!Begin
    /\ UNCHANGED <<main, stopped, expired, db, sources>>

\* The handler returns; on a closed pool it does so with an error.
WorkerFinishes(j) ==
    /\ Alive
    /\ db # "none"
    /\ Queue!Finish(j)
    /\ UNCHANGED <<main, stopped, expired, db, sources>>

\* ExecuteDailyPipeline panics on a nil pool, and no worker recovers.
WorkerPanics(j) ==
    /\ Alive
    /\ j \in active
    /\ db = "none"
    /\ main' = "crashed"
    /\ UNCHANGED <<stopped, expired, db, sources, queue>>

-----------------------------------------------------------------------------
(* Shutdown.                                                               *)

Signal ==
    /\ main = "up"
    /\ Proceed
    /\ UNCHANGED <<expired, db, sources, queue>>

\* Thirty seconds after the signal.
Deadline ==
    /\ Alive
    /\ stopped # {}
    /\ ~expired
    /\ expired' = TRUE
    /\ UNCHANGED <<main, stopped, db, sources, queue>>

\* server.Shutdown returns: no request is left, or the context is done.
HttpStopped ==
    /\ main = "http"
    /\ expired \/ \A r \in Requests : state[r] # "busy"
    /\ Proceed
    /\ UNCHANGED <<expired, db, sources, queue>>

\* cron.Stop waits for a function that runs.
CronStopped ==
    /\ main = "cron"
    /\ state["cron"] # "busy"
    /\ Proceed
    /\ UNCHANGED <<expired, db, sources, queue>>

ListenerStopped ==
    /\ main = "telegram"
    /\ state["telegram"] = "off"
    /\ Proceed
    /\ UNCHANGED <<expired, db, sources, queue>>

\* Stop of the queue closes it, and then waits.
QueueCloses ==
    /\ main = "queue"
    /\ Queue!Close
    /\ UNCHANGED <<main, stopped, expired, db, sources>>

QueueDrained ==
    /\ main = "queue"
    /\ Queue!Drain
    /\ Proceed
    /\ UNCHANGED <<expired, db, sources>>

\* The context is done: main logs the error and goes on.
QueueAbandoned ==
    /\ main = "queue"
    /\ expired
    /\ Queue!Abandon
    /\ Proceed
    /\ UNCHANGED <<expired, db, sources>>

\* The pool is closed and main returns, which ends every goroutine.
CloseDatabase ==
    /\ main = "database"
    /\ db' = IF db = "open" THEN "closed" ELSE db
    /\ Proceed
    /\ UNCHANGED <<expired, sources, queue>>

-----------------------------------------------------------------------------
Starting == Connect \/ StartQueue \/ StartCron \/ StartListener
            \/ StartupTrigger \/ Serve

Stopping == HttpStopped \/ CronStopped \/ ListenerStopped \/ QueueCloses
            \/ QueueDrained \/ QueueAbandoned \/ CloseDatabase

Next ==
    \/ Starting \/ Dies
    \/ CronFires \/ CommandArrives \/ ListenerEnds \/ ListenerPanics
    \/ \E r \in Requests : RequestArrives(r) \/ TriggerCancelled(r)
    \/ \E p \in Sources : Trigger(p) \/ Work(p)
    \/ WorkerBegins
    \/ \E j \in Jobs : WorkerFinishes(j) \/ WorkerPanics(j)
    \/ Signal \/ Deadline \/ Stopping

Spec == Init /\ [][Next]_vars

\* Every goroutine that can run does: main goes on, a trigger, a request and a
\* job end (Enqueue does not block, the contexts of the other two do end), a
\* worker takes the next job, and thirty seconds pass.  A batch is finite, so
\* the listener gets back to the head of its loop again and again as long as
\* its commands end; that they do is not assumed, their context has no
\* deadline.  No signal and no trigger need ever come.
Fairness ==
    /\ WF_vars(Starting)
    /\ WF_vars(Stopping)
    /\ SF_vars(ListenerEnds)
    /\ \A p \in Sources : WF_vars(Trigger(p))
    /\ \A r \in Requests : WF_vars(Work(r))
    /\ WF_vars(WorkerBegins)
    /\ \A j \in Jobs : WF_vars(WorkerFinishes(j) \/ WorkerPanics(j))
    /\ WF_vars(Deadline)

FairSpec == Spec /\ Fairness

-----------------------------------------------------------------------------
(* Properties.                                                             *)

\* Every variable keeps its type, main stops what it has called Stop on, and
\* a job is enqueued by a handler that runs.
TypeOK ==
    /\ main \in StartStates \union Parts \union {"up", "exited", "crashed"}
    /\ stopped \subseteq Parts
    /\ expired \in BOOLEAN /\ (expired => "http" \in stopped)
    /\ db \in {"unset", "none", "open", "closed"}
    /\ state \in [Sources -> {"off", "idle", "busy"}]
    /\ call \in [Sources -> Jobs \union {NoJob}]
    /\ \A p \in Sources : call[p] # NoJob => state[p] = "busy"
    /\ answer \in [Jobs -> Answers]
    /\ phase \in Queue!Phases
    /\ pending \in Seq(Jobs) /\ Len(pending) <= BufferSize
    /\ active \subseteq Jobs /\ Cardinality(active) <= Workers
    /\ finished \subseteq Jobs

\* While the shutdown is within its thirty seconds, no trigger meets a queue
\* that is not running: main starts the queue before its sources (main.go:78
\* before 84, 99, 104, 126) and stops it after them (162 after 148, 154, 157).
\* Only a request that outlived the HTTP shutdown is told that it is closed.
ClosedOnlyWhenLate == (\E j \in Jobs : answer[j] = "closed") => expired

\* The database is closed when nothing uses it: within the thirty seconds
\* every request, command and job has ended; after them main goes on with
\* requests and jobs under way, but never with the scheduler or the listener.
DatabaseOutlivesWork ==
    db = "closed" =>
        /\ state["cron"] # "busy" /\ state["telegram"] = "off"
        /\ ~expired =>
               /\ \A r \in Requests : state[r] # "busy"
               /\ pending = <<>> /\ active = {}

\* A job that was answered with "queued" is run to its end, unless the process
\* crashes or the thirty seconds are over first: an orderly shutdown loses
\* nothing that was accepted, from whichever source.
AcceptedJobsEnd ==
    \A j \in Jobs :
        answer[j] = "queued" ~>
            j \in finished \/ main = "crashed" \/ (main = "exited" /\ expired)

\* The listener does not hang in a command.  The code does not see to it: an
\* /addfeed can wait forever for a feed's server (feed_usecase.go:49, a client
\* without a timeout, parser.go:23), and main cancels its context (main.go:174)
\* only after it has waited for the listener (157).
NoCommandHangs == []<>(state["telegram"] # "busy")

\* If no command hangs, a shutdown comes to its end, although the scheduler and
\* the listener are waited for without a deadline, commands still come in and
\* the queue's workers may be busy.
ShutdownEnds == NoCommandHangs => (stopped # {} ~> ~Alive)

\* What the message at main.go:44 says of a database that cannot be reached
\* at start-up, "Retrying in background...": a process that stays up gets its
\* connection in the end.
ConnectionRetried == db = "none" ~> (db = "open" \/ ~Alive)
=============================================================================
