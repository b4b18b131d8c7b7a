SPECIFICATION Spec
CONSTANTS
    MaxSegments = 3
    MaxSamples = 1
    MaxPackets = 1
    MaxSessions = 2
    MaxSilence = 2
    Phases = {"collection", "eval_q", "skill"}
    Kinds = {"camera", "arm", "factr"}
PROPERTIES
    ImplementsProducers
    
CHECK_DEADLOCK FALSE
