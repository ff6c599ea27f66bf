SPECIFICATION Spec
CONSTANTS
  Modulus = 64
  UnitsPerMs = 2
  MsPerSec = 4
  Hz = 2
  Chunk = 6
  MaxRetry = 24
  FirstBackoff = 1
  MaxBackoff = 3
  Leasts = {0, 5, 8}
  Period = 7
  Durations = {0, 1, 2, 3, 55, 56, 57, 111, 112, 113}
  Headers <- SmallHeaders
  Late = 1
PROPERTIES OnCadence RetriesOnTime
