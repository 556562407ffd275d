SPECIFICATION DeploymentSpec
CONSTANTS
  Samples <- FourSamples
  Datasets <- ThreeDatasets
  MaxSamples = 4
  ArtifactP75 = 3
  NodesAsked = {0, 1, 2}
  Seeds = {42}
  Ratios = {20, 50}
  Shuffle <- Seed42
  MaxRuns = 2
  Endpoints = 2
  Phase1Dataset <- WholeFile
  Phase1Seed = 42
  Phase1Asked = 60
CHECK_DEADLOCK FALSE
INVARIANTS
  DeploymentTypeOK
  ManifestVouches
  HoldOutIfPhase1Repeated
  FullRoundIsTheTrainingSet
PROPERTIES
  CompleteRunMatches
  KeepsWhatItFound
