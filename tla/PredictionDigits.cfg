SPECIFICATION PredictionSpec
CONSTANTS
  a = a
  b = b
  Nodes = {n1}
  NoReport = NoReport
  NoAnswer = NoAnswer
  MaxIterations = 1
  SampleCounts = {1}
  Requests = {r1}
  Predictions = {p1, p2}
  Inputs = {a, b}
  Printed <- Alike
CHECK_DEADLOCK FALSE
INVARIANT
  AnswerIsOfItsInput
