SPECIFICATION EvolutionSpec
CONSTANTS
  c1 = c1
  c2 = c2
  Handoffs <- MCTexts
  QualityReports <- MCReports
  HermesCandidates <- MCCandidates
  RoutingPolicies <- MCPolicies
  MaxReports = 2
  BridgeTickets <- Repairs
  BridgeReports <- MCBridgeReports
  BridgeCandidates <- MCBridgeCandidates
  BridgeCallers <- MCCallers
  MaxEdits = 2
  ArtifactHints <- MCHints
  ArtifactTurns <- MCQuotes
  SummaryMatches <- MCMatches
  MaxHints = 1
  Chunks = {c1, c2}
  RunOutcomes <- MCOutcomes
  MaxRuns = 1
  WindowSources <- MCSources
  SimilarSources <- MCSimilar
  MaxWindow = 2
  MaxKnown = 2
  MaxSeen = 2
  LessonTurns <- MCTurns
  LessonWindows <- MCWindows
  LessonFixtures <- MCFixtures
  LessonRules <- MCPatterns
  MaxTurns = 2
  FootprintEvents <- MCEvents
  MaxEvents = 2
  MemoryOrders <- MCOrders
  MemoryQueries <- MCQueries
  MemoryTopK = 4
  MemoryRuns = 1
  HookEvents <- StreamDeck
  HookBursts = {1, 4}
  HookSources = {"fixture"}
  MaxHooks = 3
  SkillContracts <- MCContracts
  SkillMemories <- MCMemories
  MaxRaised = 2
  PreflightDeck <- MCDeck
  PreflightChat = 1
  MaxGathered = 3
  Drawings <- MCDrawings
  MaxCount = 5
  Deck <- MCEventsHeld
  Profiles = {"shadow_advisory"}
  TopKs = {6, 12, 50}
  PackLimits = {1, 5}
  Makes <- MCMakes
  Batches <- MCBatches
  Coverages = {1000, 400}
  Modes = {"off", "advise", "auto", "llm", "borda"}
  Judges = {"none", "api", "injected"}
  MaxReviews = 1
CHECK_DEADLOCK FALSE
INVARIANTS
  
  LessonsKeepTheirLane
  PartsAgree
  SelectionIsEarned
  ReviewsAreBacked
PROPERTY
  NoWayBack
