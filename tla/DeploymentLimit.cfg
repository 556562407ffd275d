SPECIFICATION DeploymentSpec
CONSTANTS
  Samples <- FourSamples
  Datasets <- SameThreshold
  MaxSamples = 4
  ArtifactP75 = 3
  NodesAsked = {2}
  Seeds = {42}
  Ratios = {20}
  Shuffle <- Seed42
  MaxRuns = 1
  Endpoints = 2
  Phase1Dataset <- WholeFile
  Phase1Seed = 42
  Phase1Asked = 20
CHECK_DEADLOCK FALSE
INVARIANT
  EvaluationIsHoldOut
