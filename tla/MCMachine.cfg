SPECIFICATION FairSpec
CONSTANTS
  Addrs <- MCAddrs
  MaxStep = 2
  MaxBps = 2
INVARIANT StopsHold
INVARIANT StepExact
INVARIANT BreakAnswered
PROPERTY StopComes
CHECK_DEADLOCK FALSE
