SPECIFICATION Spec
CONSTANTS
    MaxSegments = 2
    MaxSamples = 1
    MaxPackets = 2
    MaxSessions = 2
    MaxSilence = 1
    Phases = {"eval_q"}
    History = 2
    CatchUp = 1
    MaxEpochs = 3
    MaxPoints = 3
    MaxServers = 2
CHECK_DEADLOCK FALSE
INVARIANTS
    OneSessionOnScreen
    NoFrozenReader
    PacketsCountedOnce
    PageDrawsOneRun
