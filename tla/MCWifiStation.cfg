SPECIFICATION Spec
CONSTANTS
  ConnectTime = 2
  CancelTime = 1
  MaxBackoff = 3
  RecoveryDelay = 4
INVARIANTS NoOverlap StatusTruthful LossIsNoticed
PROPERTIES OutagesLast Reconnects RecoveryFollows
