CONSTANTS
  FileCounts <- MCFileCounts
  MaxTrain <- MCMaxTrain
  MaxVal <- MCMaxVal
  Absent = Absent
SPECIFICATION Spec
\* the scan ends: the job either raises or goes on to read labels
CHECK_DEADLOCK FALSE
INVARIANT
  TrainFallbackValidatesOnTrainedImages
