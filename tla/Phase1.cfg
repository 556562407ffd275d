SPECIFICATION Spec
CONSTANTS
  Reasons = {"invalid_datetime", "missing_value"}
  Commands <- AllCommands
  MinSamples = 3
  Shuffle <- Backwards
  TestRatio = 40
  Values = {0, 1, 2}
  Bins = 3
  IterationsAsked = {0, 1}
  DefaultIterations = 2
CHECK_DEADLOCK FALSE
INVARIANTS
  Phase1TypeOK
  LoadIsSequential
  EverySampleOnce
  NoRace
  LossCurve
  HighDemandIsTheTopQuarter
  NormaliserFitsTheTrainingSet
  ConfusionMatrixAddsUp
  HistogramIsComplete
  FilesVouchForEarlierOnes
PROPERTY
  ProgramEnds
