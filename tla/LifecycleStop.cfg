SPECIFICATION LifecycleSpec
CONSTANTS
  a = a
  b = b
  Nodes = {n1}
  NoReport = NoReport
  NoAnswer = NoAnswer
  MaxIterations = 1
  SampleCounts = {1}
  Requests = {r1}
  Predictions = {p1}
  Inputs = {a}
  Printed <- Distinct
  MaxStarts = 1
CHECK_DEADLOCK FALSE
INVARIANT
  StoppedCorrectly
