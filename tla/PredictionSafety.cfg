SPECIFICATION PredictionSpec
CONSTANTS
  a = a
  b = b
  Nodes = {n1}
  NoReport = NoReport
  NoAnswer = NoAnswer
  MaxIterations = 1
  SampleCounts = {1}
  Requests = {r1, r2}
  Predictions = {p1, p2, p3}
  Inputs = {a, b}
  Printed <- Distinct
SYMMETRY PredictionSymmetry
CHECK_DEADLOCK FALSE
INVARIANTS
  PredictionTypeOK
  AnswerIsOfItsModel
  AnswerIsOfItsInput
  CacheIsOfServedModels
  LogsAreFaithful
