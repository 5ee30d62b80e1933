SPECIFICATION Spec
CONSTANTS
  Funcs = {f1, f2}
  TotalQ = 3
  Qmaxes = {1, 2}
  Qbases = {1}
  Indexes = {0, 1}
  BusNumber = 1
  MaxOpens = 3
  CountWidth = 5
  MaxQueues = 2
  RngszOpens = 1
  SerialOpen = TRUE
INVARIANTS QueuesPartitioned RangeOwned CountsTrue
\* No deadlock check: the opens are bounded; with all functions closed nothing is left to do.
CHECK_DEADLOCK FALSE
SYMMETRY Symmetry
