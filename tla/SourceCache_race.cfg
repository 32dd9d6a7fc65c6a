\* Lanes race for two keys, asking twice; waits may time out and owners may
\* be interrupted.
CONSTANTS
  None = None
  a = a  b = b  c = c  k1 = k1  k2 = k2
  Lanes <- ThreeLanes
  Keys <- TwoKeys
  MaxAsks = 2
  TimedWaits = TRUE
  Interrupts = TRUE
SPECIFICATION FairSpec
INVARIANT CacheInv
PROPERTIES ImplementsFetchOnce EveryoneAnswered
CHECK_DEADLOCK FALSE
