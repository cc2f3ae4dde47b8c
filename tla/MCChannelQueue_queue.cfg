SPECIFICATION FairSpec
CONSTANTS
    j1 = j1
    j2 = j2
    j3 = j3
    c1 = c1
    c2 = c2
    w1 = w1
    w2 = w2
    NoJob = NoJob
    Workers = {w1, w2}
    Clients = {c1, c2}
    Jobs = {j1, j2, j3}
    BufferSize = 2
    JobTypes <- MCJobTypes
    JobType <- MCJobType
    HandledTypes <- MCHandledTypes
INVARIANTS
    TypeOK
    NoSendOnClosed
    ChannelOrder
    OneOwner
    GracefulStop
    HandledJobsRun
    IInv
PROPERTIES
    AcceptedJobsEnd
    EnqueueReturns
    StopReturns
    ImplementsPort
CHECK_DEADLOCK FALSE
