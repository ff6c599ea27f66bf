SPECIFICATION FairWorkerSpec
CONSTANTS
  Activities = {"busy"}
  StaleTime = 1
  CodeTime = 3
  MaxInterval = 2
INVARIANTS ReasonMatches SignInTold
PROPERTIES SignInKept Recovers
