SPECIFICATION FairSteeringSpec
CONSTANTS
    Messages = {m1, m2}
    First = m1
    None = None
    MaxSends = 1
    MaxRuns = 2
    MaxIncidents = 1
    MaxOrphanAttempts = 2
INVARIANTS
    SteeringTypeOK
    FollowedOnce
    DecisionIsCurrent
PROPERTIES
    GivenBackStays
    OrphansSurface
CHECK_DEADLOCK FALSE
