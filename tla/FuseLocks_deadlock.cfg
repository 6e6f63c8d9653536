CONSTANTS
  Threads = {t1, t2, t3}
  Handles = {h1, h2}
  Requests <- Kinds
  MaxRequests = 4
SPECIFICATION Spec
INVARIANTS NoDeadlock
CHECK_DEADLOCK FALSE
