SPECIFICATION HealthSpec
CONSTANTS
  Grain = 1
  Deployments <- MCDeployments
  Plan <- MCPlan
  PostValues = {2, 6}
  MemoryThresholds <- MCMemory
  SkillThresholds <- MCSkill
  MaxReplays = 2
  MaxRuns = 2
  Runs <- MCRuns
  RunId <- MCRunId
  KeepHistory <- MCKeepHistory
  Inputs <- MCFew
  SlowGrain = 2
  Metrics <- MCMetrics
  Values = {0, 2, 4, 5, 6, 8}
  MaxEvaluated = 3
  MaxSamples = 3
  Expected <- MCExpected
  CoreMetrics = {"a"}
  MetricIds = {"a", "b", "c"}
  Reducers = {"r"}
  PlantComponents = {"p", "q"}
  Actuators = {"u"}
  MaxMetrics = 2
  Smokes <- MCSmokes
  Thresholds = {2, 3}
  MaxClock = 3
  MaxHealthReviews = 3
  Reports <- MCAll
  Findings <- MCFound
CHECK_DEADLOCK FALSE
INVARIANTS
  BroadcastIsBacked
  
  
  LatestIsBacked
PROPERTIES
  
  OnlyGoodNewsWithdraws
