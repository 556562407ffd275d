SPECIFICATION FairLifecycleSpec
CONSTANTS
  a = a
  b = b
  Nodes = {n1}
  NoReport = NoReport
  NoAnswer = NoAnswer
  MaxIterations = 1
  SampleCounts = {1}
  Requests = {r1}
  Predictions = {p1, p2}
  Inputs = {a}
  Printed <- Distinct
  MaxStarts = 2
CHECK_DEADLOCK FALSE
INVARIANTS
  LifecycleTypeOK
  FailedStartClosesClients
  DrainLosesNobody
PROPERTIES
  EveryPredictionEnds
  StartsAndStopsEnd
