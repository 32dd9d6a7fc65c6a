\* Three rounds of two cells and the gaps that rank highest, over sources that change.
CONSTANTS
  None = None
  RequestsOf <- MCRequestsOf  Listing <- MCListing  CandidateKey <- MCCandidateKey  Good <- MCGood
  MaxVersion = 2
  Slugs = {1, 2, 3, 4, 5}  Policy <- MCPolicy  Target <- MCTarget  Values <- MCValues
  NeverGap = {4}  GapLane <- MCGapLane  Configured = {1, 2}  Stats <- MCStats  Weights <- MCWeights
  MaxRounds = 3  MaxLanes = 1  NoProgressMin = 1  DuplicateRateStop = 80
  DuplicateRates = {None, 80, 81}  BudgetLeft = {50}
SPECIFICATION Spec
INVARIANTS RoundsInv OneView DocumentOrderFree ReasonsHonest
CHECK_DEADLOCK FALSE
