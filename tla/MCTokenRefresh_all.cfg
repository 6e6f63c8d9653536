SPECIFICATION FairSpec
CONSTANTS
  p1 = p1  p2 = p2  c1 = c1  c2 = c2  c3 = c3  d1 = d1
  Procs = {p1}
  Callers = {c1, c2}
  Home <- MCHome
  Boot <- MCBoot
  Modes <- MCModes
  MaxGen = 3  MaxAsks = 4  MaxStarts = 2
CHECK_DEADLOCK FALSE
INVARIANTS TokensAreSound OneRefreshAtATime
PROPERTIES EveryCallReturns
