-------------------------- MODULE LifecycleProofs --------------------------
(***************************************************************************)
(* Proofs about Lifecycle, for any requests, any jobs, any pool of workers *)
(* and any buffer: the inductive invariant IInv, which ties the queue and  *)
(* the sources of its jobs to the step main is at, and from it that no     *)
(* trigger meets a closed queue before the thirty seconds are over and     *)
(* that the database is closed only when nothing uses it.                  *)
(***************************************************************************)
EXTENDS Lifecycle, FiniteSetTheorems, SequenceTheorems, TLAPS

\* The parts that have been told to stop are those main has come to; what
\* matters is when requests and the cron trigger are silenced.
Silenced ==
    /\ stopped # {} => "http" \in stopped
    /\ main \in StartStates \union {"up"} => stopped = {}
    /\ main \in {"http", "cron", "telegram", "queue", "database", "exited"} =>
           "http" \in stopped
    /\ main \in {"cron", "telegram", "queue", "database", "exited"} =>
           "cron" \in stopped

\* The queue runs from its start until main comes to stop it, and main leaves
\* it drained, or abandoned after the thirty seconds.
QueueFollowsMain ==
    /\ main \in {"connect", "start"} => phase = "new"
    /\ main \in {"schedule", "listen", "startup", "serve", "up", "http", "cron",
                 "telegram"} => phase = "running"
    /\ main = "queue" => phase \in {"running", "closing"}
    /\ main \in {"database", "exited"} =>
           phase = "drained" \/ (phase = "abandoned" /\ expired)
    /\ phase = "drained" => pending = <<>> /\ active = {}

\* No source is there before the queue runs; cron, the listener and the HTTP
\* server come in this order.  After main has waited for one
\* it does nothing more, except requests that the thirty seconds cut off.
SourcesFollowMain ==
    /\ main \in {"connect", "start", "schedule"} => state["cron"] = "off"
    /\ main \in {"connect", "start", "schedule", "listen"} =>
           state["telegram"] = "off"
    /\ main \in StartStates => \A r \in Requests : state[r] = "off"
    /\ main \in {"telegram", "queue", "database", "exited"} =>
           state["cron"] # "busy"
    /\ main \in {"queue", "database", "exited"} => state["telegram"] = "off"
    /\ main \in {"cron", "telegram", "queue", "database", "exited"} /\ ~expired =>
           \A r \in Requests : state[r] # "busy"

\* Closing the database is the last thing main does.
DatabaseClosedLast == db = "closed" => main = "exited"

\* The inductive invariant.
IInv ==
    /\ TypeOK
    /\ IsFiniteSet(active)
    /\ Silenced
    /\ QueueFollowsMain
    /\ SourcesFollowMain
    /\ DatabaseClosedLast
    /\ ClosedOnlyWhenLate

USE DEF StartStates, Parts, Answers, Queue!Phases

-----------------------------------------------------------------------------
(* The operators of the model.                                             *)

\* main stops the HTTP server, the scheduler, the listener, the queue and the
\* database, in this order, and ends.
LEMMA StopOrder ==
    ASSUME Proceed
    PROVE  /\ main = "up" => main' = "http" /\ stopped' = stopped \union {"http"}
           /\ main = "http" => main' = "cron" /\ stopped' = stopped \union {"cron"}
           /\ main = "cron" =>
                  main' = "telegram" /\ stopped' = stopped \union {"telegram"}
           /\ main = "telegram" =>
                  main' = "queue" /\ stopped' = stopped \union {"queue"}
           /\ main = "queue" =>
                  main' = "database" /\ stopped' = stopped \union {"database"}
           /\ main = "database" => main' = "exited" /\ stopped' = stopped
<1>1. /\ main = "up" => main' = "http"
      /\ main = "http" => main' = "cron"
      /\ main = "cron" => main' = "telegram"
      /\ main = "telegram" => main' = "queue"
      /\ main = "queue" => main' = "database"
      /\ main = "database" => main' = "exited"
  BY DEF Proceed, After
<1>2. /\ main' \in Parts => stopped' = stopped \union {main'}
      /\ main' \notin Parts => stopped' = stopped
  BY DEF Proceed
<1>. QED  BY <1>1, <1>2

\* cron and the listener are no requests.
LEMMA SourceNames ==
    /\ "cron" \in Sources /\ "telegram" \in Sources /\ Requests \subseteq Sources
    /\ "cron" \notin Requests /\ "telegram" \notin Requests
    /\ \A p \in Sources : p \in Requests \/ p = "cron" \/ p = "telegram"
BY PartsAssumption DEF Sources

\* An id for a new job is one of the jobs.
LEMMA FreshJob == Fresh \subseteq Jobs
BY DEF Fresh, Unused

\* What Enqueue does to the queue: it keeps its phase and what is active and
\* finished, and pending stays within the capacity.  The answer is "closed"
\* only if the queue does not run.
LEMMA EnqueueEffect ==
    ASSUME IInv, NEW j \in Jobs, Enqueue(j)
    PROVE  /\ UNCHANGED <<phase, active, finished>>
           /\ pending' \in Seq(Jobs) /\ Len(pending') <= BufferSize
           /\ phase = "drained" => pending' = pending
           /\ answer' \in [Jobs -> Answers]
           /\ \A k \in Jobs : answer'[k] = "closed" =>
                  answer[k] = "closed" \/ phase # "running"
<1>1. CASE HasRoom /\ Queue!Accept(j) /\ answer' = [answer EXCEPT ![j] = "queued"]
  <2>1. /\ pending \in Seq(Jobs) /\ Len(pending) \in Nat
        /\ Len(pending) < BufferSize
        /\ pending' = Append(pending, j)
        /\ phase = "running" /\ UNCHANGED <<phase, active, finished>>
    BY <1>1 DEF HasRoom, Queue!Accept, IInv, TypeOK
  <2>2. pending' \in Seq(Jobs) /\ Len(pending') <= BufferSize
    BY <2>1, PartsAssumption
  <2>3. /\ answer' \in [Jobs -> Answers]
        /\ \A k \in Jobs : answer'[k] = "closed" => answer[k] = "closed"
    BY <1>1 DEF IInv, TypeOK
  <2>. QED  BY <2>1, <2>2, <2>3
<1>2. CASE /\ phase = "running" /\ ~HasRoom
           /\ answer' = [answer EXCEPT ![j] = "full"]
           /\ UNCHANGED queue
  BY <1>2 DEF queue, IInv, TypeOK
<1>3. CASE /\ phase # "running"
           /\ answer' = [answer EXCEPT ![j] = "closed"]
           /\ UNCHANGED queue
  BY <1>3 DEF queue, IInv, TypeOK
<1>. QED  BY <1>1, <1>2, <1>3 DEF Enqueue

\* The empty process.
LEMMA InitInv == Init => IInv
<1>. SUFFICES ASSUME Init PROVE IInv
  OBVIOUS
<1>1. IsFiniteSet(active) /\ Cardinality(active) = 0
  BY FS_EmptySet DEF Init, Queue!Init
<1>2. <<>> \in Seq(Jobs) /\ Len(<<>>) = 0
  OBVIOUS
<1>3. TypeOK
  <2>1. /\ state \in [Sources -> {"off", "idle", "busy"}]
        /\ call \in [Sources -> Jobs \union {NoJob}]
        /\ answer \in [Jobs -> Answers]
        /\ \A p \in Sources : call[p] = NoJob
    BY DEF Init
  <2>2. /\ phase \in Queue!Phases /\ pending \in Seq(Jobs)
        /\ Len(pending) <= BufferSize
        /\ active \subseteq Jobs /\ Cardinality(active) <= Workers
        /\ finished \subseteq Jobs
    BY <1>1, <1>2, PartsAssumption DEF Init, Queue!Init
  <2>. QED  BY <2>1, <2>2 DEF Init, TypeOK
<1>4. Silenced /\ QueueFollowsMain /\ SourcesFollowMain
  BY SourceNames DEF Init, Queue!Init, Silenced, QueueFollowsMain,
                     SourcesFollowMain
<1>5. DatabaseClosedLast /\ ClosedOnlyWhenLate
  BY DEF Init, DatabaseClosedLast, ClosedOnlyWhenLate
<1>. QED  BY <1>1, <1>3, <1>4, <1>5 DEF IInv

-----------------------------------------------------------------------------
(* Start-up.                                                               *)

\* The steps of main before it waits for a signal, and its sudden death.
LEMMA StartingInv ==
    ASSUME IInv, Starting \/ Dies
    PROVE  IInv'
<1>1. CASE Connect
  <2>1. UNCHANGED <<stopped, expired, sources, queue>> /\ main = "connect"
        /\ main' = "start" /\ db' \in {"open", "none"}
    BY <1>1 DEF Connect, StartUp
  <2>. QED
    BY <2>1 DEF sources, queue, IInv, TypeOK, Silenced, QueueFollowsMain,
                SourcesFollowMain, DatabaseClosedLast, ClosedOnlyWhenLate
<1>2. CASE StartQueue
  <2>1. UNCHANGED <<stopped, expired, db, sources, pending, active, finished>>
        /\ main = "start" /\ main' = "schedule" /\ phase' = "running"
    BY <1>2 DEF StartQueue, StartUp, Queue!Open
  <2>. QED
    BY <2>1 DEF sources, queue, IInv, TypeOK, Silenced, QueueFollowsMain,
                SourcesFollowMain, DatabaseClosedLast, ClosedOnlyWhenLate
<1>3. CASE StartCron \/ StartListener \/ Serve
  <2>1. /\ UNCHANGED <<stopped, expired, db, call, answer, queue>>
        /\ main \in {"schedule", "listen", "serve"}
        /\ main' \in {"listen", "startup", "up"}
    BY <1>3 DEF StartCron, StartListener, Serve, StartUp
  <2>2. /\ state' \in [Sources -> {"off", "idle", "busy"}]
        /\ \A p \in Sources : state[p] = "busy" => state'[p] = "busy"
        /\ main' = "listen" => state'["telegram"] = "off"
        /\ main' # "up" => \A r \in Requests : state'[r] = "off"
    <3>1. CASE StartCron
      BY <3>1, SourceNames
      DEF StartCron, StartUp, SourcesFollowMain, IInv, TypeOK
    <3>2. CASE StartListener
      BY <3>2, SourceNames
      DEF StartListener, StartUp, SourcesFollowMain, IInv, TypeOK
    <3>3. CASE Serve
      BY <3>3, SourceNames DEF Serve, StartUp, SourcesFollowMain, IInv, TypeOK
    <3>. QED  BY <1>3, <3>1, <3>2, <3>3
  <2>3. main' \in {"listen", "startup", "up"} /\ phase = "running"
    BY <2>1 DEF IInv, QueueFollowsMain
  <2>. QED
    BY <1>3, <2>1, <2>2 DEF queue, IInv, TypeOK, Silenced, QueueFollowsMain,
                SourcesFollowMain, DatabaseClosedLast, ClosedOnlyWhenLate
<1>4. CASE StartupTrigger
  <2>1. /\ UNCHANGED <<stopped, expired, db, state, call>>
        /\ main = "startup" /\ main' = "serve" /\ phase = "running"
    BY <1>4 DEF StartupTrigger, StartUp, IInv, QueueFollowsMain
  <2>2. /\ UNCHANGED <<phase, active, finished>>
        /\ pending' \in Seq(Jobs) /\ Len(pending') <= BufferSize
        /\ answer' \in [Jobs -> Answers]
        /\ \A k \in Jobs : answer'[k] = "closed" => answer[k] = "closed"
    <3>1. CASE UNCHANGED <<answer, queue>>
      BY <3>1 DEF queue, IInv, TypeOK
    <3>2. CASE \E j \in Fresh : Enqueue(j)
      BY <2>1, <3>2, FreshJob, EnqueueEffect
    <3>. QED  BY <1>4, <3>1, <3>2 DEF StartupTrigger
  <2>. QED
    BY <2>1, <2>2 DEF IInv, TypeOK, Silenced, QueueFollowsMain,
                SourcesFollowMain, DatabaseClosedLast, ClosedOnlyWhenLate
<1>5. CASE Dies
  BY <1>5 DEF Dies, sources, queue, IInv, TypeOK, Silenced, QueueFollowsMain,
              SourcesFollowMain, DatabaseClosedLast, ClosedOnlyWhenLate
<1>. QED  BY <1>1, <1>2, <1>3, <1>4, <1>5 DEF Starting

-----------------------------------------------------------------------------
(* The sources of jobs.                                                    *)

\* One source that is there goes on: it takes work only while it is not
\* silenced, and whatever else it does keeps what main has waited for.
LEMMA SourceMoves ==
    ASSUME IInv, NEW p \in Sources, NEW s \in {"off", "idle", "busy"},
           NEW j \in Jobs \union {NoJob}, Becomes(p, s, j),
           j # NoJob => s = "busy",
           state[p] # "off",
           s = "busy" => /\ p \in Requests => "http" \notin stopped
                         /\ p = "cron" => "cron" \notin stopped,
           UNCHANGED <<main, stopped, expired, db>>
    PROVE  /\ state' \in [Sources -> {"off", "idle", "busy"}]
           /\ call' \in [Sources -> Jobs \union {NoJob}]
           /\ \A q \in Sources : call'[q] # NoJob => state'[q] = "busy"
           /\ SourcesFollowMain'
<1>1. /\ state' \in [Sources -> {"off", "idle", "busy"}]
      /\ call' \in [Sources -> Jobs \union {NoJob}]
      /\ \A q \in Sources : state'[q] = IF q = p THEN s ELSE state[q]
      /\ \A q \in Sources : call'[q] = IF q = p THEN j ELSE call[q]
  BY DEF Becomes, IInv, TypeOK
<1>2. \A q \in Sources : call'[q] # NoJob => state'[q] = "busy"
  BY <1>1 DEF IInv, TypeOK
<1>3. SourcesFollowMain'
  BY <1>1, SourceNames DEF IInv, SourcesFollowMain, Silenced
<1>. QED  BY <1>1, <1>2, <1>3

\* A request, the schedule or a command makes a source busy; the listener may
\* also see the signal.
LEMMA ArrivalInv ==
    ASSUME IInv,
           \/ \E r \in Requests : RequestArrives(r)
           \/ CronFires \/ CommandArrives \/ ListenerEnds
    PROVE  IInv'
<1>1. PICK p \in Sources, s \in {"off", "idle", "busy"},
           j \in Jobs \union {NoJob} :
           /\ Becomes(p, s, j)
           /\ j # NoJob => s = "busy"
           /\ state[p] # "off"
           /\ s = "busy" => /\ p \in Requests => "http" \notin stopped
                            /\ p = "cron" => "cron" \notin stopped
  <2>1. CASE \E r \in Requests : RequestArrives(r)
    BY <2>1, FreshJob, SourceNames DEF RequestArrives
  <2>2. CASE CronFires
    BY <2>2, FreshJob, SourceNames DEF CronFires
  <2>3. CASE CommandArrives
    BY <2>3, FreshJob, SourceNames DEF CommandArrives
  <2>4. CASE ListenerEnds
    BY <2>4, SourceNames DEF ListenerEnds
  <2>. QED  BY <2>1, <2>2, <2>3, <2>4
<1>2. UNCHANGED <<main, stopped, expired, db, answer, queue>>
  BY DEF RequestArrives, CronFires, CommandArrives, ListenerEnds
<1>3. /\ state' \in [Sources -> {"off", "idle", "busy"}]
      /\ call' \in [Sources -> Jobs \union {NoJob}]
      /\ \A q \in Sources : call'[q] # NoJob => state'[q] = "busy"
      /\ SourcesFollowMain'
  BY <1>1, <1>2, SourceMoves
<1>. QED
  BY <1>2, <1>3 DEF queue, IInv, TypeOK, Silenced, QueueFollowsMain,
                    DatabaseClosedLast, ClosedOnlyWhenLate

\* A source whose work is done.
LEMMA ReturnMoves ==
    ASSUME IInv, NEW p \in Sources, state[p] = "busy", Returns(p),
           UNCHANGED <<main, stopped, expired, db>>
    PROVE  /\ state' \in [Sources -> {"off", "idle", "busy"}]
           /\ call' \in [Sources -> Jobs \union {NoJob}]
           /\ \A q \in Sources : call'[q] # NoJob => state'[q] = "busy"
           /\ SourcesFollowMain'
<1>1. Becomes(p, "idle", NoJob)
  BY DEF Returns
<1>. QED  BY <1>1, SourceMoves

\* The calls of Enqueue and the other work.  A trigger that meets a queue that
\* does not run is that of a request the thirty seconds have cut off.
LEMMA TriggerInv ==
    ASSUME IInv,
           \/ \E r \in Requests : TriggerCancelled(r)
           \/ \E p \in Sources : Trigger(p) \/ Work(p)
    PROVE  IInv'
<1>1. ASSUME NEW p \in Sources, Trigger(p) PROVE IInv'
  <2>1. /\ UNCHANGED <<main, stopped, expired, db>>
        /\ state[p] = "busy" /\ call[p] \in Jobs /\ Alive
        /\ Enqueue(call[p]) /\ Returns(p)
    BY <1>1 DEF Trigger, IInv, TypeOK
  <2>2. phase = "running" \/ expired
    BY <2>1, SourceNames
    DEF Alive, IInv, TypeOK, QueueFollowsMain, SourcesFollowMain
  <2>3. /\ UNCHANGED <<phase, active, finished>>
        /\ pending' \in Seq(Jobs) /\ Len(pending') <= BufferSize
        /\ phase = "drained" => pending' = pending
        /\ answer' \in [Jobs -> Answers]
        /\ \A k \in Jobs : answer'[k] = "closed" =>
               answer[k] = "closed" \/ phase # "running"
    BY <2>1, EnqueueEffect
  <2>4. /\ state' \in [Sources -> {"off", "idle", "busy"}]
        /\ call' \in [Sources -> Jobs \union {NoJob}]
        /\ \A q \in Sources : call'[q] # NoJob => state'[q] = "busy"
        /\ SourcesFollowMain'
    BY <2>1, ReturnMoves
  <2>5. TypeOK'
    BY <2>1, <2>3, <2>4 DEF IInv, TypeOK
  <2>6. ClosedOnlyWhenLate'
    BY <2>1, <2>2, <2>3 DEF IInv, ClosedOnlyWhenLate
  <2>. QED
    BY <2>1, <2>3, <2>4, <2>5, <2>6
    DEF IInv, Silenced, QueueFollowsMain, DatabaseClosedLast
<1>2. ASSUME NEW r \in Requests, TriggerCancelled(r) PROVE IInv'
  <2>1. /\ UNCHANGED <<main, stopped, expired, db, queue>>
        /\ state[r] = "busy" /\ Returns(r) /\ r \in Sources
        /\ answer' = [answer EXCEPT ![call[r]] = "cancelled"]
    BY <1>2, SourceNames DEF TriggerCancelled
  <2>2. /\ answer' \in [Jobs -> Answers]
        /\ \A k \in Jobs : answer'[k] = "closed" => answer[k] = "closed"
    BY <2>1 DEF IInv, TypeOK
  <2>3. /\ state' \in [Sources -> {"off", "idle", "busy"}]
        /\ call' \in [Sources -> Jobs \union {NoJob}]
        /\ \A q \in Sources : call'[q] # NoJob => state'[q] = "busy"
        /\ SourcesFollowMain'
    BY <2>1, ReturnMoves
  <2>. QED
    BY <2>1, <2>2, <2>3 DEF queue, IInv, TypeOK, Silenced, QueueFollowsMain,
                            DatabaseClosedLast, ClosedOnlyWhenLate
<1>3. ASSUME NEW p \in Sources, Work(p) PROVE IInv'
  <2>1. /\ UNCHANGED <<main, stopped, expired, db, answer, queue>>
        /\ state[p] = "busy" /\ Returns(p)
    BY <1>3 DEF Work
  <2>2. /\ state' \in [Sources -> {"off", "idle", "busy"}]
        /\ call' \in [Sources -> Jobs \union {NoJob}]
        /\ \A q \in Sources : call'[q] # NoJob => state'[q] = "busy"
        /\ SourcesFollowMain'
    BY <2>1, ReturnMoves
  <2>. QED
    BY <2>1, <2>2 DEF queue, IInv, TypeOK, Silenced, QueueFollowsMain,
                      DatabaseClosedLast, ClosedOnlyWhenLate
<1>. QED  BY <1>1, <1>2, <1>3

-----------------------------------------------------------------------------
(* The workers.                                                            *)

\* A worker takes a job up, puts it down, or takes the process with it.
LEMMA WorkerInv ==
    ASSUME IInv,
           \/ WorkerBegins \/ ListenerPanics
           \/ \E j \in Jobs : WorkerFinishes(j) \/ WorkerPanics(j)
    PROVE  IInv'
<1>1. CASE WorkerBegins
  <2>1. /\ pending \in Seq(Jobs) /\ pending # <<>> /\ Cardinality(active) < Workers
        /\ active' = active \union {Head(pending)}
        /\ pending' = Tail(pending)
        /\ UNCHANGED <<main, stopped, expired, db, sources, phase, finished>>
    BY <1>1 DEF WorkerBegins, Queue!Begin, IInv, TypeOK
  <2>2. /\ Head(pending) \in Jobs /\ pending' \in Seq(Jobs)
        /\ Len(pending') = Len(pending) - 1 /\ Len(pending) \in Nat
    BY <2>1
  <2>3. IsFiniteSet(active') /\ Cardinality(active') <= Cardinality(active) + 1
    <3>1. IsFiniteSet(active) /\ Cardinality(active) \in Nat
      BY FS_CardinalityType DEF IInv
    <3>2. /\ IsFiniteSet(active')
          /\ \/ Cardinality(active') = Cardinality(active)
             \/ Cardinality(active') = Cardinality(active) + 1
      BY <2>1, <3>1, FS_AddElement
    <3>. QED  BY <3>1, <3>2
  <2>4. /\ active' \subseteq Jobs /\ Cardinality(active') <= Workers
        /\ Len(pending') <= BufferSize
    BY <2>1, <2>2, <2>3, PartsAssumption, FS_CardinalityType DEF IInv, TypeOK
  <2>. QED
    BY <2>1, <2>2, <2>3, <2>4
    DEF sources, IInv, TypeOK, Silenced, QueueFollowsMain, SourcesFollowMain,
        DatabaseClosedLast, ClosedOnlyWhenLate
<1>2. ASSUME NEW j \in Jobs, WorkerFinishes(j) PROVE IInv'
  <2>1. /\ j \in active /\ active' = active \ {j}
        /\ finished' = finished \union {j}
        /\ UNCHANGED <<main, stopped, expired, db, sources, phase, pending>>
    BY <1>2 DEF WorkerFinishes, Queue!Finish
  <2>2. /\ IsFiniteSet(active') /\ Cardinality(active') <= Cardinality(active)
        /\ Cardinality(active) \in Nat /\ Cardinality(active') \in Nat
    <3>1. IsFiniteSet(active) /\ Cardinality(active) \in Nat
      BY FS_CardinalityType DEF IInv
    <3>2. active' \in SUBSET active
      BY <2>1
    <3>. QED  BY <3>1, <3>2, FS_Subset, FS_CardinalityType
  <2>3. Cardinality(active') <= Workers
    BY <2>2, PartsAssumption DEF IInv, TypeOK
  <2>. QED
    BY <2>1, <2>2, <2>3
    DEF sources, IInv, TypeOK, Silenced, QueueFollowsMain, SourcesFollowMain,
        DatabaseClosedLast, ClosedOnlyWhenLate
<1>3. CASE ListenerPanics \/ \E j \in Jobs : WorkerPanics(j)
  <2>1. /\ main' = "crashed" /\ db # "closed"
        /\ UNCHANGED <<stopped, expired, db, sources, queue>>
    BY <1>3 DEF ListenerPanics, WorkerPanics
  <2>. QED
    BY <2>1 DEF sources, queue, IInv, TypeOK, Silenced, QueueFollowsMain,
                SourcesFollowMain, DatabaseClosedLast, ClosedOnlyWhenLate
<1>. QED  BY <1>1, <1>2, <1>3

-----------------------------------------------------------------------------
(* Shutdown.                                                               *)

\* main stops one part after the other.
LEMMA StoppingInv ==
    ASSUME IInv, Signal \/ Deadline \/ Stopping
    PROVE  IInv'
<1>. USE DEF IInv, TypeOK, Silenced, QueueFollowsMain, SourcesFollowMain,
             DatabaseClosedLast, ClosedOnlyWhenLate, sources, queue
<1>1. CASE Signal
  BY <1>1, StopOrder DEF Signal
<1>2. CASE Deadline
  BY <1>2 DEF Deadline, Alive
<1>3. CASE HttpStopped
  BY <1>3, StopOrder DEF HttpStopped
<1>4. CASE CronStopped
  BY <1>4, StopOrder DEF CronStopped
<1>5. CASE ListenerStopped
  BY <1>5, StopOrder DEF ListenerStopped
<1>6. CASE QueueCloses
  BY <1>6 DEF QueueCloses, Queue!Close
<1>7. CASE QueueDrained
  BY <1>7, StopOrder DEF QueueDrained, Queue!Drain
<1>8. CASE QueueAbandoned
  BY <1>8, StopOrder DEF QueueAbandoned, Queue!Abandon
<1>9. CASE CloseDatabase
  BY <1>9, StopOrder DEF CloseDatabase
<1>. QED
  BY <1>1, <1>2, <1>3, <1>4, <1>5, <1>6, <1>7, <1>8, <1>9 DEF Stopping

-----------------------------------------------------------------------------
(* The theorems.                                                           *)

\* The inductive invariant holds in every reachable state.
THEOREM Invariance == Spec => []IInv
<1>1. IInv /\ [Next]_vars => IInv'
  <2>. SUFFICES ASSUME IInv, [Next]_vars PROVE IInv'
    OBVIOUS
  <2>1. CASE Next
    BY <2>1, StartingInv, ArrivalInv, TriggerInv, WorkerInv, StoppingInv
    DEF Next
  <2>2. CASE UNCHANGED vars
    BY <2>2 DEF vars, sources, queue, IInv, TypeOK, Silenced,
                QueueFollowsMain, SourcesFollowMain, DatabaseClosedLast,
                ClosedOnlyWhenLate
  <2>. QED  BY <2>1, <2>2
<1>. QED  BY InitInv, <1>1, PTL DEF Spec

\* Every variable keeps its type, the queue's capacity and the number of its
\* workers are respected, and a job is enqueued by a handler that runs.
THEOREM TypeCorrect == Spec => []TypeOK
<1>1. IInv => TypeOK
  BY DEF IInv
<1>. QED  BY <1>1, Invariance, PTL

\* Before the thirty seconds of the shutdown are over no trigger, from any
\* source and however the sources interleave with main, meets a queue that is
\* not running (main.go:78 before 84-126, 162 after 148-157).
THEOREM TriggersMeetRunningQueue == Spec => []ClosedOnlyWhenLate
<1>1. IInv => ClosedOnlyWhenLate
  BY DEF IInv
<1>. QED  BY <1>1, Invariance, PTL

\* The database is closed after the scheduler and the listener have ended, and
\* within the thirty seconds also after every request and job (main.go:169).
THEOREM DatabaseClosedAfterWork == Spec => []DatabaseOutlivesWork
<1>1. IInv => DatabaseOutlivesWork
  BY DEF IInv, DatabaseOutlivesWork, DatabaseClosedLast, QueueFollowsMain,
         SourcesFollowMain
<1>. QED  BY <1>1, Invariance, PTL

-----------------------------------------------------------------------------
(* The books of the queue.                                                 *)

\* What Enqueue answered is what happened: the queue has a job in its books,
\* waiting, running or ended, if and only if its caller was told "queued".
AnswersAreTrue ==
    \A j \in Jobs : answer[j] = "queued" <=> j \in Queue!Known

\* A job is enqueued by one source, and only once.
CallsAreFresh ==
    /\ \A p \in Sources : call[p] # NoJob => answer[call[p]] = "none"
    /\ \A p, q \in Sources : p # q /\ call[p] # NoJob => call[p] # call[q]

\* An orderly exit leaves no accepted job behind.
OrderlyExitIsComplete ==
    main = "exited" /\ ~expired =>
        \A j \in Jobs : answer[j] = "queued" => j \in finished

Books == AnswersAreTrue /\ CallsAreFresh

\* The books, without the operators of the port.
LEMMA KnownIs ==
    ASSUME IInv
    PROVE  Queue!Known = {pending[i] : i \in 1..Len(pending)} \union active
                             \union finished
BY DEF Queue!Known, Queue!Range, IInv, TypeOK

\* What a step of the queue does to the books.
LEMMA KnownMoves ==
    ASSUME IInv, IInv'
    PROVE  /\ \A j \in Jobs : Queue!Accept(j) => Queue!Known' = Queue!Known \union {j}
           /\ Queue!Begin \/ (\E j \in Jobs : Queue!Finish(j))
                  \/ UNCHANGED <<pending, active, finished>> =>
                  Queue!Known' = Queue!Known
<1>1. /\ Queue!Known = {pending[i] : i \in 1..Len(pending)} \union active \union finished
      /\ Queue!Known' = {pending'[i] : i \in 1..Len(pending')} \union active'
                            \union finished'
  <2>1. Queue!Known' = {pending'[i] : i \in 1..Len(pending')} \union active'
                           \union finished'
    BY DEF Queue!Known, Queue!Range, IInv, TypeOK
  <2>. QED  BY <2>1, KnownIs
<1>2. pending \in Seq(Jobs) /\ Len(pending) \in Nat
  BY DEF IInv, TypeOK
<1>3. ASSUME NEW j \in Jobs, Queue!Accept(j)
      PROVE  Queue!Known' = Queue!Known \union {j}
  <2>1. pending' = Append(pending, j) /\ UNCHANGED <<active, finished>>
    BY <1>3 DEF Queue!Accept
  <2>2. /\ Len(pending') = Len(pending) + 1 /\ pending'[Len(pending')] = j
        /\ \A i \in 1..Len(pending) : pending'[i] = pending[i]
    BY <1>2, <2>1
  <2>3. /\ \A i \in 1..Len(pending) : i \in 1..Len(pending')
        /\ Len(pending') \in 1..Len(pending')
        /\ \A i \in 1..Len(pending') : i \in 1..Len(pending) \/ i = Len(pending')
    BY <1>2, <2>2
  <2>4. {pending'[i] : i \in 1..Len(pending')}
            = {pending[i] : i \in 1..Len(pending)} \union {j}
    BY <2>2, <2>3
  <2>. QED  BY <1>1, <2>1, <2>4
<1>4. ASSUME Queue!Begin PROVE Queue!Known' = Queue!Known
  <2>1. /\ pending # <<>> /\ active' = active \union {Head(pending)}
        /\ pending' = Tail(pending) /\ finished' = finished
    BY <1>4 DEF Queue!Begin
  <2>2. /\ Head(pending) = pending[1] /\ Len(pending) >= 1
        /\ Len(pending') = Len(pending) - 1
        /\ \A i \in 1..Len(pending') : pending'[i] = pending[i + 1]
    BY <1>2, <2>1
  <2>3. {pending[i] : i \in 1..Len(pending)}
            = {pending'[i] : i \in 1..Len(pending')} \union {Head(pending)}
    <3>1. ASSUME NEW i \in 1..Len(pending)
          PROVE  pending[i] = Head(pending)
                     \/ \E k \in 1..Len(pending') : pending'[k] = pending[i]
      <4>1. CASE i = 1
        BY <2>2, <4>1
      <4>2. CASE i # 1
        <5>1. i - 1 \in 1..Len(pending') /\ (i - 1) + 1 = i
          BY <1>2, <2>2, <4>2
        <5>2. pending'[i - 1] = pending[i]
          BY <2>2, <5>1
        <5>. QED  BY <5>1, <5>2
      <4>. QED  BY <4>1, <4>2
    <3>2. \A k \in 1..Len(pending') : k + 1 \in 1..Len(pending)
      BY <1>2, <2>2
    <3>3. 1 \in 1..Len(pending)
      BY <1>2, <2>2
    <3>. QED  BY <2>2, <3>1, <3>2, <3>3
  <2>. QED  BY <1>1, <2>1, <2>3
<1>5. ASSUME NEW j \in Jobs, Queue!Finish(j) PROVE Queue!Known' = Queue!Known
  BY <1>1, <1>5 DEF Queue!Finish
<1>6. ASSUME UNCHANGED <<pending, active, finished>>
      PROVE  Queue!Known' = Queue!Known
  BY <1>1, <1>6
<1>. QED  BY <1>3, <1>4, <1>5, <1>6

\* A step that gives no answer, takes no job and leaves the books of the queue
\* alone; a source may let go of its job.
LEMMA BooksKept ==
    ASSUME Books, UNCHANGED answer, Queue!Known' = Queue!Known,
           \A p \in Sources : call'[p] \in {call[p], NoJob}
    PROVE  Books'
BY DEF Books, AnswersAreTrue, CallsAreFresh

\* A source takes a job nobody else has.
LEMMA BooksTaken ==
    ASSUME Books, IInv, NEW p \in Sources, NEW s, NEW j \in Unused,
           Becomes(p, s, j), UNCHANGED answer, Queue!Known' = Queue!Known
    PROVE  Books'
<1>1. /\ answer[j] = "none" /\ \A q \in Sources : call[q] # j
      /\ \A q \in Sources : call'[q] = IF q = p THEN j ELSE call[q]
  BY DEF Becomes, Unused, IInv, TypeOK
<1>2. AnswersAreTrue'
  BY DEF Books, AnswersAreTrue
<1>3. CallsAreFresh'
  BY <1>1 DEF Books, CallsAreFresh
<1>. QED  BY <1>2, <1>3 DEF Books

\* A job is answered about for the first time, and no source has it any more.
LEMMA BooksAnswered ==
    ASSUME Books, IInv, NEW j \in Jobs, NEW a \in Answers,
           answer[j] = "none", a # "none",
           answer' = [answer EXCEPT ![j] = a],
           Queue!Known' = IF a = "queued" THEN Queue!Known \union {j}
                                          ELSE Queue!Known,
           \A p \in Sources : call'[p] \in {call[p], NoJob} /\ call'[p] # j
    PROVE  Books'
<1>1. \A k \in Jobs : answer'[k] = IF k = j THEN a ELSE answer[k]
  BY DEF IInv, TypeOK
<1>2. j \notin Queue!Known
  BY DEF Books, AnswersAreTrue
<1>3. AnswersAreTrue'
  <2>1. CASE a = "queued"
    BY <1>1, <2>1 DEF Books, AnswersAreTrue
  <2>2. CASE a # "queued"
    BY <1>1, <1>2, <2>2 DEF Books, AnswersAreTrue
  <2>. QED  BY <2>1, <2>2
<1>4. CallsAreFresh'
  <2>1. \A p \in Sources : call[p] \in Jobs \/ call[p] = NoJob
    BY DEF IInv, TypeOK
  <2>2. \A p \in Sources : call'[p] # NoJob =>
            call'[p] = call[p] /\ call[p] \in Jobs /\ call[p] # j
    BY <2>1
  <2>. QED  BY <1>1, <2>2 DEF Books, CallsAreFresh
<1>. QED  BY <1>3, <1>4 DEF Books

\* Enqueue answers about a job and keeps the books accordingly.
LEMMA EnqueueBooks ==
    ASSUME IInv, IInv', NEW j \in Jobs, Enqueue(j)
    PROVE  \E a \in Answers : /\ a # "none" /\ answer' = [answer EXCEPT ![j] = a]
                              /\ Queue!Known' = IF a = "queued"
                                                THEN Queue!Known \union {j}
                                                ELSE Queue!Known
<1>1. CASE Queue!Accept(j) /\ answer' = [answer EXCEPT ![j] = "queued"]
  <2>1. Queue!Known' = Queue!Known \union {j}
    BY <1>1, KnownMoves
  <2>. QED  BY <1>1, <2>1
<1>2. ASSUME NEW a \in {"full", "closed"}, answer' = [answer EXCEPT ![j] = a],
             UNCHANGED queue
      PROVE  a # "queued" /\ a # "none" /\ a \in Answers /\ Queue!Known' = Queue!Known
  BY <1>2, KnownMoves DEF queue
<1>. QED  BY <1>1, <1>2 DEF Enqueue

\* Every step keeps the books.
LEMMA BooksInv ==
    ASSUME IInv, IInv', Books, [Next]_vars
    PROVE  Books'
<1>1. UNCHANGED <<pending, active, finished>> => Queue!Known' = Queue!Known
  BY KnownMoves
<1>2. \A p \in Sources : call[p] \in Jobs \/ call[p] = NoJob
  BY DEF IInv, TypeOK
<1>3. Fresh \subseteq Unused
  BY DEF Fresh
\* A source that returns lets go of its job, and nobody else had it.
<1>4. ASSUME NEW p \in Sources, Returns(p)
      PROVE  /\ \A q \in Sources : call'[q] = IF q = p THEN NoJob ELSE call[q]
             /\ call[p] # NoJob => \A q \in Sources : call'[q] # call[p]
  <2>1. \A q \in Sources : call'[q] = IF q = p THEN NoJob ELSE call[q]
    BY <1>4 DEF Returns, Becomes, IInv, TypeOK
  <2>. QED  BY <2>1 DEF Books, CallsAreFresh
<1>5. CASE Starting \/ Dies
  <2>1. CASE Connect \/ StartQueue \/ StartCron \/ StartListener \/ Serve \/ Dies
    <3>1. UNCHANGED <<call, answer, pending, active, finished>>
      BY <2>1 DEF Connect, StartQueue, StartCron, StartListener, Serve, Dies,
                  sources, queue, Queue!Open
    <3>. QED  BY <1>1, <3>1, BooksKept
  <2>2. CASE StartupTrigger
    <3>1. UNCHANGED call
      BY <2>2 DEF StartupTrigger
    <3>2. CASE UNCHANGED <<answer, queue>>
      BY <1>1, <3>1, <3>2, BooksKept DEF queue
    <3>3. ASSUME NEW j \in Fresh, Enqueue(j) PROVE Books'
      <4>1. j \in Jobs /\ answer[j] = "none" /\ \A q \in Sources : call[q] # j
        BY <1>3 DEF Unused
      <4>. QED  BY <3>1, <3>3, <4>1, EnqueueBooks, BooksAnswered
    <3>. QED  BY <2>2, <3>2, <3>3 DEF StartupTrigger
  <2>. QED  BY <1>5, <2>1, <2>2 DEF Starting
<1>6. ASSUME NEW p \in Sources, NEW s, NEW j \in Fresh \union {NoJob},
             Becomes(p, s, j), UNCHANGED <<answer, queue>>
      PROVE  Books'
  <2>1. CASE j \in Fresh
    BY <1>1, <1>3, <1>6, <2>1, BooksTaken DEF queue
  <2>2. CASE j = NoJob
    <3>1. \A q \in Sources : call'[q] \in {call[q], NoJob}
      BY <1>6, <2>2 DEF Becomes, IInv, TypeOK
    <3>. QED  BY <1>1, <1>6, <3>1, BooksKept DEF queue
  <2>. QED  BY <2>1, <2>2
<1>7. CASE CronFires \/ CommandArrives \/ ListenerEnds
           \/ \E r \in Requests : RequestArrives(r)
  BY <1>6, <1>7, SourceNames
  DEF CronFires, CommandArrives, ListenerEnds, RequestArrives
<1>8. ASSUME NEW p \in Sources, Trigger(p) PROVE Books'
  <2>1. call[p] \in Jobs /\ call[p] # NoJob /\ Enqueue(call[p]) /\ Returns(p)
    BY <1>8, <1>2 DEF Trigger
  <2>2. answer[call[p]] = "none"
    BY <2>1 DEF Books, CallsAreFresh
  <2>3. \A q \in Sources : call'[q] \in {call[q], NoJob} /\ call'[q] # call[p]
    BY <1>4, <2>1
  <2>4. PICK a \in Answers :
            /\ a # "none" /\ answer' = [answer EXCEPT ![call[p]] = a]
            /\ Queue!Known' = IF a = "queued" THEN Queue!Known \union {call[p]}
                                              ELSE Queue!Known
    BY <2>1, EnqueueBooks
  <2>. QED  BY <2>1, <2>2, <2>3, <2>4, BooksAnswered
<1>9. ASSUME NEW r \in Requests, TriggerCancelled(r) PROVE Books'
  <2>1. /\ r \in Sources /\ call[r] \in Jobs /\ call[r] # NoJob /\ Returns(r)
        /\ answer' = [answer EXCEPT ![call[r]] = "cancelled"]
        /\ UNCHANGED queue
    BY <1>9, <1>2, SourceNames DEF TriggerCancelled
  <2>2. answer[call[r]] = "none"
    BY <2>1 DEF Books, CallsAreFresh
  <2>3. \A q \in Sources : call'[q] \in {call[q], NoJob} /\ call'[q] # call[r]
    BY <1>4, <2>1
  <2>4. Queue!Known' = Queue!Known
    BY <1>1, <2>1 DEF queue
  <2>. QED  BY <2>1, <2>2, <2>3, <2>4, BooksAnswered
<1>10. ASSUME NEW p \in Sources, Work(p) PROVE Books'
  <2>1. Returns(p) /\ UNCHANGED <<answer, queue>>
    BY <1>10 DEF Work
  <2>2. \A q \in Sources : call'[q] \in {call[q], NoJob}
    BY <1>4, <2>1
  <2>. QED  BY <1>1, <2>1, <2>2, BooksKept DEF queue
<1>11. CASE WorkerBegins \/ \E j \in Jobs : WorkerFinishes(j)
  <2>1. /\ UNCHANGED <<call, answer>>
        /\ Queue!Begin \/ \E j \in Jobs : Queue!Finish(j)
    BY <1>11 DEF WorkerBegins, WorkerFinishes, sources
  <2>. QED  BY <2>1, KnownMoves, BooksKept
<1>12. CASE ListenerPanics \/ Signal \/ Deadline \/ Stopping
            \/ (\E j \in Jobs : WorkerPanics(j)) \/ UNCHANGED vars
  <2>1. UNCHANGED <<call, answer, pending, active, finished>>
    BY <1>12 DEF ListenerPanics, WorkerPanics, Signal, Deadline, Stopping,
                 HttpStopped, CronStopped, ListenerStopped, QueueCloses,
                 QueueDrained, QueueAbandoned, CloseDatabase, Queue!Close,
                 Queue!Drain, Queue!Abandon, vars, sources, queue
  <2>. QED  BY <1>1, <2>1, BooksKept
<1>. QED
  BY <1>5, <1>7, <1>8, <1>9, <1>10, <1>11, <1>12 DEF Next

\* What Enqueue answers is true ever after: a job whose caller was told
\* "queued" waits, runs or has been run, and one that was refused, by a full or
\* closed queue or a client that went away, is never run; whichever sources
\* race for the queue, and whatever main does meanwhile.
THEOREM AnswersStayTrue == Spec => []AnswersAreTrue
<1>1. Init => Books
  <2>. SUFFICES ASSUME Init PROVE Books
    OBVIOUS
  <2>1. /\ \A j \in Jobs : answer[j] = "none"
        /\ \A p \in Sources : call[p] = NoJob
        /\ pending = <<>> /\ active = {} /\ finished = {}
    BY DEF Init, Queue!Init
  <2>2. Queue!Known = {}
    BY <2>1, InitInv, KnownIs
  <2>. QED  BY <2>1, <2>2 DEF Books, AnswersAreTrue, CallsAreFresh
<1>2. Books => AnswersAreTrue
  BY DEF Books
<1>. QED  BY <1>1, <1>2, BooksInv, Invariance, PTL DEF Spec

\* A shutdown that stays within its thirty seconds loses nothing: when main
\* returns, every job that was accepted, from whichever source, has been run
\* to its end.  This is the safety part of AcceptedJobsEnd.
THEOREM OrderlyExitLosesNothing == Spec => []OrderlyExitIsComplete
<1>1. IInv /\ AnswersAreTrue => OrderlyExitIsComplete
  <2>. SUFFICES ASSUME IInv, AnswersAreTrue, main = "exited", ~expired,
                       NEW j \in Jobs, answer[j] = "queued"
                PROVE  j \in finished
    BY DEF OrderlyExitIsComplete
  <2>1. pending = <<>> /\ active = {}
    BY DEF IInv, QueueFollowsMain
  <2>2. {pending[i] : i \in 1..Len(pending)} = {}
    BY <2>1
  <2>3. Queue!Known = finished
    BY <2>1, <2>2, KnownIs
  <2>. QED  BY <2>3 DEF AnswersAreTrue
<1>. QED  BY <1>1, Invariance, AnswersStayTrue, PTL

\* main, the sources of jobs and the workers do to the queue what its port
\* allows, and nothing else: the other half of the composition with the channel
\* queue, which implements that port.
THEOREM UsesThePort == Spec => Queue!SafetySpec
<1>1. Init => Queue!Init
  BY DEF Init
<1>2. IInv /\ [Next]_vars => [Queue!Next]_(Queue!vars)
  <2>. SUFFICES ASSUME IInv, Next PROVE Queue!Next \/ UNCHANGED queue
    BY DEF vars, queue, Queue!vars
  <2>1. ASSUME NEW j \in Jobs, Enqueue(j) PROVE Queue!Next \/ UNCHANGED queue
    BY <2>1 DEF Enqueue, Queue!Next
  <2>2. CASE Starting \/ Dies
    <3>1. CASE StartQueue
      BY <3>1 DEF StartQueue, Queue!Next
    <3>2. CASE StartupTrigger
      BY <2>1, <3>2, FreshJob DEF StartupTrigger
    <3>3. CASE Connect \/ StartCron \/ StartListener \/ Serve \/ Dies
      BY <3>3 DEF Connect, StartCron, StartListener, Serve, Dies
    <3>. QED  BY <2>2, <3>1, <3>2, <3>3 DEF Starting
  <2>3. CASE \/ CronFires \/ CommandArrives \/ ListenerEnds \/ ListenerPanics
             \/ \E r \in Requests : RequestArrives(r) \/ TriggerCancelled(r)
    BY <2>3 DEF CronFires, CommandArrives, ListenerEnds, ListenerPanics,
                RequestArrives, TriggerCancelled
  <2>4. ASSUME NEW p \in Sources, Trigger(p) \/ Work(p)
        PROVE  Queue!Next \/ UNCHANGED queue
    <3>1. call[p] # NoJob => call[p] \in Jobs
      BY DEF IInv, TypeOK
    <3>. QED  BY <2>1, <2>4, <3>1 DEF Trigger, Work
  <2>5. CASE WorkerBegins \/ \E j \in Jobs : WorkerFinishes(j) \/ WorkerPanics(j)
    BY <2>5 DEF WorkerBegins, WorkerFinishes, WorkerPanics, Queue!Next
  <2>6. CASE Signal \/ Deadline \/ Stopping
    <3>1. CASE QueueCloses \/ QueueDrained \/ QueueAbandoned
      BY <3>1 DEF QueueCloses, QueueDrained, QueueAbandoned, Queue!Next
    <3>2. CASE Signal \/ Deadline \/ HttpStopped \/ CronStopped
               \/ ListenerStopped \/ CloseDatabase
      BY <3>2 DEF Signal, Deadline, HttpStopped, CronStopped, ListenerStopped,
                  CloseDatabase
    <3>. QED  BY <2>6, <3>1, <3>2 DEF Stopping
  <2>. QED  BY <2>2, <2>3, <2>4, <2>5, <2>6 DEF Next
<1>. QED  BY <1>1, <1>2, Invariance, PTL DEF Spec, Queue!SafetySpec
=============================================================================
