SPECIFICATION Spec
CONSTANTS
  n1 = n1
  n2 = n2
  Nodes = {n1, n2}
  Down = Down
  Free = Free
  NoReport = NoReport
  NoReply = NoReply
  ModelFeatures = 1
  MaxIterations = 2
  Requests = {r1, r2}
  ProcessesOf <- Replaced
  IterationsAsked = {0, 2, 3}
  DefaultIterations = 1
  MayDiverge = TRUE
  MaxCrashes = 1
  MaxRestarts = 1
SYMMETRY RequestSymmetry
CHECK_DEADLOCK FALSE
INVARIANTS
  TypeOK
  OneTrainingAtATime
  TrainsOnServedModel
  WholeTrainings
  DurableWhenAcknowledged
  RunsCoherent
  ReplyNotOlder
PROPERTIES
  ReportedSamplesAreSummed
  EveryUpdateIsComplete
  ImplementsModelStore
