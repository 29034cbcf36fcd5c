SPECIFICATION MnistSpec
CONSTANTS
  DataFiles <- MCFiles
  TrainData <- MCTrainData
  TestData <- MCTestData
  Runs <- MCRuns
  Calls <- MCCalls
  Requests <- MCRequests
INVARIANTS
  ExportSawAll
  AnswersWhole
CHECK_DEADLOCK FALSE
