SPECIFICATION FairSpec
CONSTANTS
    r1 = r1
    r2 = r2
    j1 = j1
    j2 = j2
    j3 = j3
    NoJob = NoJob
    Requests = {r1, r2}
    Jobs = {j1, j2, j3}
    Workers = 1
    BufferSize = 1
PROPERTIES
    ConnectionRetried
CHECK_DEADLOCK FALSE
