SPECIFICATION FairSpec
CONSTANTS
  Sides <- OneArm
  Fragile <- OneArm
  Offered <- Teleop
  MaxRuns = 1
PROPERTIES RunsWindDown ArmedDropoutStopsRun
