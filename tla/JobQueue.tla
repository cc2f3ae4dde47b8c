------------------------------ MODULE JobQueue ------------------------------
(***************************************************************************)
(* What the JobQueue port (internal/domain/service/job_queue.go) promises  *)
(* its callers, without channels, locks or workers: accepted jobs wait in  *)
(* one FIFO line, are picked up in that order, end exactly once, and Stop  *)
(* either drains everything or gives up when its context ends.             *)
(***************************************************************************)
EXTENDS Sequences, Functions

CONSTANT Jobs

VARIABLES
    phase,      \* where the queue is between Start and the return of Stop
    pending,    \* jobs accepted by Enqueue and not yet picked up
    active,     \* jobs a worker has picked up
    finished    \* jobs whose handler has returned (or that had no handler)

vars == <<phase, pending, active, finished>>

Phases == {"new", "running", "closing", "drained", "abandoned"}

Known == Range(pending) \union active \union finished

Init ==
    /\ phase = "new"
    /\ pending = <<>>
    /\ active = {}
    /\ finished = {}

\* Start: workers listen and process jobs (job_queue.go:37-38).
Open ==
    /\ phase = "new"
    /\ phase' = "running"
    /\ UNCHANGED <<pending, active, finished>>

\* Enqueue that returns nil (job_queue.go:34-35); a refusal changes nothing.
Accept(j) ==
    /\ phase = "running"
    /\ j \notin Known
    /\ pending' = Append(pending, j)
    /\ UNCHANGED <<phase, active, finished>>

Begin ==
    /\ pending # <<>>
    /\ active' = active \union {Head(pending)}
    /\ pending' = Tail(pending)
    /\ UNCHANGED <<phase, finished>>

Finish(j) ==
    /\ j \in active
    /\ active' = active \ {j}
    /\ finished' = finished \union {j}
    /\ UNCHANGED <<phase, pending>>

\* Stop begins: from here on nothing is accepted.
Close ==
    /\ phase = "running"
    /\ phase' = "closing"
    /\ UNCHANGED <<pending, active, finished>>

\* Stop returns nil: it "drains the queue and waits for in-flight tasks to
\* complete" (job_queue.go:40).
Drain ==
    /\ phase = "closing"
    /\ pending = <<>>
    /\ active = {}
    /\ phase' = "drained"
    /\ UNCHANGED <<pending, active, finished>>

\* Stop returns an error: its context ended first.
Abandon ==
    /\ phase = "closing"
    /\ phase' = "abandoned"
    /\ UNCHANGED <<pending, active, finished>>

Next ==
    \/ Open
    \/ \E j \in Jobs : Accept(j) \/ Finish(j)
    \/ Begin
    \/ Close
    \/ Drain
    \/ Abandon

\* What a caller may rely on at any moment, and what will happen in the end.
SafetySpec == Init /\ [][Next]_vars

Spec ==
    /\ SafetySpec
    /\ WF_vars(Begin)
    /\ \A j \in Jobs : WF_vars(Finish(j))
=============================================================================
