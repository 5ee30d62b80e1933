\* FIFOs smaller than a command, and a host that may run ahead until it jams.
SPECIFICATION DispatchFairSpec
CONSTANTS
    Jobs = 6
    CmdWords = 3
    MaxAhead = 6
    Depth = 2
INVARIANTS OneWholeCommand FetchedInOrder
PROPERTY JobReported
