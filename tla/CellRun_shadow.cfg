\* A pointer that takes the place of an accepted record in its topic.
CONSTANTS
  k1 = k1  k2 = k2  k3 = k3  v1 = v1  kM = kM  bad = bad
  tStory = tStory  tBoth = tBoth  tFund = tFund  tTool = tTool  tTie = tTie
  s1 = s1  s2 = s2  s3 = s3  s4 = s4  h1 = h1  h2 = h2  h3 = h3
  NoUrl = NoUrl  Blank = Blank  Unknown = Unknown
  Urls <- MCUrls  Canon <- MCCanon  Host <- MCHost  Migrations <- MCMigrations
  KeyOrder <- MCKeyOrder
  Texts <- MCTexts  Says <- MCSays  Words = {}  Substantial = {}
  Dates = {}  Unreadable = {}  Freshness = {}
  Cells <- MCCells  Topics = {"a", "b"}  TopicOf <- MCTopicOf  Discovery = 0
  Signals <- MCSignals  Composites <- MCComposites  DeveloperTool = "tool"
  Rules <- MCRules  Vocabulary <- MCVocabulary  FacetTerms <- MCFacetTerms
  Grounded = {}  MaxMultiValues = 1  Target <- MCTarget
  FacetTopics = {"a"}  GatedCells = {1}
  Sources <- MCSources  Authority <- MCAuthority  SourcesOf <- MCSourcesOf
  MaxCandidates <- MCMaxCandidates  Deliveries <- MCDeliveries
  Reasons <- MCReasons  InfrastructureReasons <- MCInfrastructureReasons  Answers <- MCAnswers
  CellMaxRequests = 4  MaxTargetFetches = 2
  Regimes <- MCRegimes
SPECIFICATION Spec
INVARIANT TopicHoldsAccepted
