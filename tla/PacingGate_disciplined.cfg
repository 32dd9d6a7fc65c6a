\* Nobody is killed and locks are held for less than Break; mkdir and the
\* accesses of the gate may fail, and a penalty may go on without the lock.
CONSTANTS
  None = None
  w1 = w1
  w2 = w2
  w3 = w3
  Workers <- ThreeWorkers
  Interval = 2
  Penalties <- ShortPenalty
  Horizon = 3
  Timeout = 2
  Break = 3
  MaxCrashes = 0
  Punctual = TRUE
SPECIFICATION Spec
INVARIANTS PaceInv
PROPERTIES Spacing GateHolds TouchedUnderLock
SYMMETRY AnyWorker
