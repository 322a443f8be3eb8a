CONSTANTS
  Roots = {a}
  Recordings = {rec1}
  Days = {day1}
  DayOf <- OneDay
  Workers = {w1, w2}
  WorkerKinds <- AllKinds
  MaxAttempts = 2
  Lease = 2
  MaxDelay = 2
  RetryDelay <- Delays
  FullStages <- TwoStages
  w1 = w1
  w2 = w2
  rec1 = rec1
  day1 = day1
SPECIFICATION Spec
SYMMETRY Symmetry
INVARIANTS TypeOK OneOwner OneResult ChainAccounted
PROPERTIES LeaseHonoured NoPrematureFailure ImplementsLedger
