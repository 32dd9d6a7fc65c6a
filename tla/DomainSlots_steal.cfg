\* A dead worker's slot, and two workers that judge it at the same time.
CONSTANTS
  None = None
  Blank = Blank
  Workers = {w1, w2, w3}
  MaxConcurrency = 1
  Stale = 3
  WaitMax = 1
  MaxCrashes = 1
  MaxStuck = 0
  Overstay = FALSE
  Prompt = TRUE
SPECIFICATION Spec
PROPERTIES StealsOnlyStale
