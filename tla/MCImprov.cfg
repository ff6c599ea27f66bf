SPECIFICATION ImprovSpec
CONSTANTS
  Wifi = {w1, w2}
  NoWifi = NoWifi
  Ids = {i1}
  NoId = NoId
  Timings = {t1}
  Levels = {dim}
  Defaults <- MCDefaults
  NoRecord = NoRecord
  NoToken = NoToken
  TrialLimit = 2
  RebootDelay = 1
  CommitRetry = 1
PROPERTIES SuccessIsCommitted RequestsAnswered
