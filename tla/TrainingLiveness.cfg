SPECIFICATION FairSpec
CONSTANTS
  n1 = n1
  n2 = n2
  Nodes = {n1, n2}
  Down = Down
  Free = Free
  NoReport = NoReport
  NoReply = NoReply
  ModelFeatures = 1
  MaxIterations = 2
  Requests = {r1, r2}
  ProcessesOf <- Ordinary
  IterationsAsked = {2}
  DefaultIterations = 1
  MayDiverge = TRUE
  MaxCrashes = 1
  MaxRestarts = 0
CHECK_DEADLOCK FALSE
PROPERTIES
  EveryTrainingEnds
  AbandonedIsRefused
