SPECIFICATION Spec
CONSTANTS
  MaxRaise = 2
  Probed = 1
INVARIANTS
  NoErrorLost
  ErrorTablesRight
PROPERTY
  ErrorReported
\* No deadlock check: a device that is down, with all errors raised, stays as it is.
CHECK_DEADLOCK FALSE
