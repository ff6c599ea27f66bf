SPECIFICATION Spec
CONSTANTS
  Prefix <- SmallPrefix
  Modulus = 7
  Alphabet = {0, 1, 2, 3, 4, 6}
  SsidMax = 1
  PassMax = 1
  Noise = 0
INVARIANTS FramesUnderstood FrameFits
