SPECIFICATION Spec
CONSTANTS
  Sides <- OneArm
  Fragile <- OneArm
  Offered <- AllPhases
  MaxRuns = 2
INVARIANTS
  
  QueuedStartIsWanted

  
