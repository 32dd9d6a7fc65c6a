\* Nobody crashes, nobody overstays: three workers contend for two slots.
CONSTANTS
  None = None
  Blank = Blank
  Workers = {w1, w2, w3}
  MaxConcurrency = 2
  Stale = 3
  WaitMax = 1
  MaxCrashes = 0
  MaxStuck = 0
  Overstay = FALSE
  Prompt = TRUE
SPECIFICATION Spec
INVARIANT LeaseInv
PROPERTIES ImplementsPermits
