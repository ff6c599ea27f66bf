SPECIFICATION Spec
CONSTANTS
  Activities = {"busy"}
  StaleTime = 1
  CodeTime = 2
  MaxInterval = 1
  TestTime = 2
INVARIANT NoStaleActivity
