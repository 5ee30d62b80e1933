SPECIFICATION Spec
CONSTANTS
  MaxRaise = 1
  Probed = 1
PROPERTY
  OfflineReturns
\* No deadlock check: OfflineReturns says that going offline ends.
CHECK_DEADLOCK FALSE
