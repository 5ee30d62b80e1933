\* Three requests and four messages through queues of three entries, one
\* timed-out poll, and a queue pair that is destroyed and allocated again.
SPECIFICATION RdmaFairSpec
CONSTANTS
    PageSize = 2
    HugePage = 16
    Hugepages = 2
    DeviceMemSize = 4
    WindowSize = 4
    Frames = {32, 48}
    DataSizes = {1}
    MaxBuffers = 1
    QpLocations = {"host_mem"}
    qdepth = 3
    SqSize = 3
    CqSize = 2
    RqSize = 1
    MaxMessages = 4
    MaxLives = 2
    MaxTimeouts = 1
INVARIANTS BuffersSound SendReported UnseenKept
PROPERTY BatchReturns
\* No deadlock check: a batch that does not fit the queue ends the program.
CHECK_DEADLOCK FALSE
