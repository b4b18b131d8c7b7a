SPECIFICATION Spec
CONSTANTS
  Kinds = {"python", "native"}
  Soft = 0
  Hard = 1
  MaxLag = 1
  VMax = 1
  AMax = 1
  Tolerance = 2
  Setpoints = {0, 3}
  MaxSessions = 1
INVARIANTS OneOwner  DeadmanBound StopIsPrompt
