\* A worker may be killed, locks are held for any time, and mkdir and the
\* write of the gate may fail.
CONSTANTS
  None = None
  w1 = w1
  w2 = w2
  w3 = w3
  Workers <- TwoWorkers
  Interval = 1
  Penalties <- ShortPenalty
  Horizon = 3
  Timeout = 1
  Break = 2
  MaxCrashes = 1
  Punctual = FALSE
SPECIFICATION FairSpec
PROPERTIES CallEnds LockFreed
