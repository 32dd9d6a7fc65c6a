\* Either worker is killed at any system call; the other contends on, at any pace.
CONSTANTS
  None = None
  Blank = Blank
  Workers = {w1, w2}
  MaxConcurrency = 1
  Stale = 2
  WaitMax = 1
  MaxCrashes = 1
  MaxStuck = 1
  Overstay = TRUE
  Prompt = FALSE
SPECIFICATION FairSpec
PROPERTIES AcquireEnds NoWedge
