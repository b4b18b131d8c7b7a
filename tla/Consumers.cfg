SPECIFICATION FairSpec
CONSTANTS
  Sides <- Rig
  Arms <- Rig
  Leaders <- JointArms
  Joint <- JointArms
  Force <- ForceArms
  Poses <- TwoPoses
  Schemas <- TwoSchemas
  MaxRuns = 2
  NumEpisodes = 2
  MaxFrames = 2
  MaxKeys = 2
  Horizon = 3
  Replan = 2
  NumTimesteps = 4
  MaxErrors = 2
  MaxRequests = 3
  NumFrames = 3
  Fps = 1
  Unit = 2
  Settle = 1
  MaxLate = 3
INVARIANT EpisodesAreTrue
PROPERTIES
  EpisodesAreKept
  ActionsFollowTheirRequest
  ReplayRunsForward
  StopEndsRun
CHECK_DEADLOCK FALSE
