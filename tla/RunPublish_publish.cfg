\* Two attempts of two runs, with failures, interrupts and kills anywhere.
CONSTANTS
  None = None
  r1 = r1  r2 = r2  u = u
  Runs <- TwoRuns
  Urls <- OneUrl
  NCells = 2
  NTopics = 1
  TopicOf <- OneTopic
  MaxAttempts = 2
  Overlap = FALSE
  StuckTemps = TRUE
SPECIFICATION Spec
INVARIANTS PublishInv NoDebris PublishedRunsCounted RejectionsExplained
PROPERTIES OutcomesFinal ImplementsRunArchive
CHECK_DEADLOCK FALSE
