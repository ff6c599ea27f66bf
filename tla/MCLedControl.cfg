SPECIFICATION Spec
CONSTANTS
  Modes <- MCModes
  Levels = {dim, bright}
  FirstLevel = dim
INVARIANTS ModeNotLost NoStaleSleep
PROPERTY Settles
