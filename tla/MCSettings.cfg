SPECIFICATION Spec
CONSTANTS
  Wifi = {w1, w2}
  NoWifi = NoWifi
  Ids = {i1, i2}
  NoId = NoId
  Timings = {t1}
  Levels = {dim, bright}
  Defaults <- MCDefaults
  NoRecord = NoRecord
  NoToken = NoToken
  TrialLimit = 2
  RebootDelay = 1
  CommitRetry = 1
INVARIANTS TokenIdentity CandidateMarked SnapshotMatchesRecord
PROPERTIES FallbackWifiProven UpdateUndisturbed ImplementsPromise
