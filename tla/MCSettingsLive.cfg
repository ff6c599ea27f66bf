SPECIFICATION FairSpec
CONSTANTS
  Wifi = {w1}
  NoWifi = NoWifi
  Ids = {i1, i2}
  NoId = NoId
  Timings = {t1}
  Levels = {dim}
  Defaults <- MCDefaults
  NoRecord = NoRecord
  NoToken = NoToken
  TrialLimit = 2
  RebootDelay = 1
  CommitRetry = 1
PROPERTIES TrialResolves ResetTakesEffect Unlocks
