CONSTANTS
  Roots = {a}
  Recordings = {rec1}
  Days = {day1}
  DayOf <- OneDay
  Workers = {w1, w2}
  WorkerKinds <- SplitKinds
  MaxAttempts = 2
  Lease = 1
  MaxDelay = 1
  RetryDelay <- Delays
  FullStages <- OneStage
  w1 = w1
  w2 = w2
  rec1 = rec1
  day1 = day1
SPECIFICATION FairSpec
PROPERTIES EveryJobEnds
