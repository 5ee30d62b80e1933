\* Two requests, one of them larger than the ring, a timeout and stops and starts.
\* No deadlock check: at the end every request has returned and nothing is left to do.
SPECIFICATION FairSpec
CONSTANTS
    r1 = r1
    r2 = r2
    NoReq = NoReq
    Reqs = {r1, r2}
    Need <- MCNeed
    RngSz = 3
    C2H = FALSE
    MaxTimeouts = 1
    MaxStops = 2
INVARIANTS RingOrder ServedRight StopDrains FreedRingUnread
PROPERTY RequestReturns
CHECK_DEADLOCK FALSE
