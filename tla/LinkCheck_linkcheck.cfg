\* Link checks of finished and unfinished harvests and of one another.
CONSTANTS
  h1 = h1  h2 = h2  l1 = l1  l2 = l2  u1 = u1  u2 = u2  u3 = u3  None = None
  Runs = {h1, l1, l2}  Harvests = {h1}  Checks = {l1, l2}
  Cells <- MCCells  Topics = {1, 2}  TopicOf <- MCTopicOf  MaxSample = 2
  Hashes = {"p", "q"}  Accesses = {"ok", "not_found", "redirected", "not_checked"}
  Canon <- MCCanon  Answers <- MCAnswers  Corpora <- MCCorpora  MaxClock = 2  MaxActive = 1  MaxFaults = 1
SPECIFICATION Spec
INVARIANTS CheckInv OneRequest HistoryKept PublishedValid AcceptedWhole
CHECK_DEADLOCK FALSE
