SPECIFICATION FairSpec
CONSTANTS
  Images = {v1, v2}
  Factory = v1
  Torn = Torn
  StableTime = 2
  HealthDeadline = 3
  RetryDelay = 2
INVARIANTS FallbackKept AcceptedIsNext TransferSafe
           WatchedWhileOnProbation
PROPERTIES ConfirmedWhenSteady ProbationEnds AcceptedRuns ReservationEnds
