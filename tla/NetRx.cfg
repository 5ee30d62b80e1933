SPECIFICATION Spec
CONSTANTS
    RngSz = 4
    CmptSz = 4
    BufSz = 4
    BufsPerPg = 2
    Quota = 2
    CopyThres = 1
    Lens = {1, 6}
    Pages = {1, 2, 3, 4, 5, 6, 7, 8, 9}
    Cpus = {1, 2}
    MaxPkts = 3
    MaxEvents = 1
    MaxHeld = 2
INVARIANTS
    BuffersApart
    PageRefs
    DeliveredInOrder
PROPERTY
    PacketsDelivered
\* No deadlock check: once the bounds are used up nothing arrives any more.
CHECK_DEADLOCK FALSE
