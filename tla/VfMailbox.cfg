SPECIFICATION Spec
CONSTANTS
    Vfs = {v1, v2}
    Pf = pf
    NoVf = NoVf
    TotalQ = 3
    Qmaxes = {1, 2}
    CountWidth = 4
    Retries = 2
    MaxCalls = 7
    FaultCost = 4
    TriggerCost = 4
SYMMETRY Symmetry
\* No deadlock check: calls are bounded; in the end every call has returned.
CHECK_DEADLOCK FALSE
INVARIANTS
    FmapOwned
    ReplyIsOwn
    PfKnowsVfs
