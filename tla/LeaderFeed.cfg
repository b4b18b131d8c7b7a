SPECIFICATION FeedSpec
CONSTANTS
    Timeout = 1
    MaxAge = 1
    MaxTorques = 1
    PreflightTicks = 2
INVARIANTS FreshnessIsSound TorqueSentOnce
PROPERTY LeadersRecover
