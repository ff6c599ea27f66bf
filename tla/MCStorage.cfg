SPECIFICATION Spec
CONSTANTS
  Chunks = 3
  Keys = {"k1", "k2"}
INVARIANT SavedDataKept
