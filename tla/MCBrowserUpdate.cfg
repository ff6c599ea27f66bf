SPECIFICATION FairPageSpec
CONSTANTS
  Images = {v1, v2}
  Factory = v1
  Torn = Torn
  StableTime = 1
  HealthDeadline = 1
  RetryDelay = 2
PROPERTIES VerdictTrue VerdictReached
