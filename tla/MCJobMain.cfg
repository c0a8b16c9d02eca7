CONSTANTS
  Null = Null
  Absent = Absent
  Listings <- MCListings
  ModelFiles = {"valid", "corrupt"}
  Datasets <- MCDatasets
  SplitRequests <- MCSplitRequests
  PreviewSamples = {1, 2, 3}
  FileCounts <- MCFileCounts
  MaxTrain = {10, 11}
  MaxVal = {10, 11}
  JobKinds <- MCJobKinds
SPECIFICATION Spec
INVARIANTS
  TypeOK
  PreviewPairsInOrder
  RequestedSplitPreviewed
  EvaluatesTrainedModel
  AtMostOneModelArtifact
  RootFoundUnderOneWrapper
  ScanYieldsNonEmptySplits
\* main() returns: the process stops
CHECK_DEADLOCK FALSE
