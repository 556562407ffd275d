SPECIFICATION Spec
CONSTANTS
  Samples <- FiveSamples
  Datasets <- WholeFile
  MaxSamples = 5
  ArtifactP75 = 4
  NodesAsked = {2}
  Seeds <- TwoSeeds
  Ratios = {20}
  Shuffle <- ShuffleOfFive
  MaxRuns = 1
CHECK_DEADLOCK FALSE
INVARIANT
  TrainCoverageMatches
