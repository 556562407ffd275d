SPECIFICATION Spec
CONSTANTS
  n1 = n1
  n2 = n2
  Nodes = {n1, n2}
  Down = Down
  Free = Free
  NoReport = NoReport
  NoReply = NoReply
  ModelFeatures = 1
  MaxIterations = 2
  Requests = {r1}
  ProcessesOf <- Ordinary
  IterationsAsked = {1}
  DefaultIterations = 1
  MayDiverge = FALSE
  MaxCrashes = 0
  MaxRestarts = 0
CHECK_DEADLOCK FALSE
INVARIANT
  FailedTrainingLeavesModel
