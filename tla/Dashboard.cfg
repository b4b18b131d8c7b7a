SPECIFICATION Spec
CONSTANTS
    Tabs = {t1}
    ConfirmsDuringRuns = FALSE
    MaxEpisodes = 3
    MaxSkills = 2
    MaxCrashes = 1
    Lengths = {0, 1, 3}
    MaxLoads = 3
    MaxPlayers = 2
    MisStrikes = {1}
    MaxSaves = 1
    Operators = {o1, o2}
    MaxBoots = 2
    MaxRuns = 2
    Dof = 2
    Pos = 1
    ChunkRows = 2
    MaxAhead = 1
SYMMETRY OperatorSymmetry
INVARIANTS
    
    OldPlayerMovesOnce
    AlertsOnce
    RecordedReadsBack
    
PROPERTIES
    
    CalibrationIsExact
CHECK_DEADLOCK FALSE
