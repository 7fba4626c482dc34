SPECIFICATION SteeringSpec
CONSTANTS
    Messages = {m1, m2}
    First = m1
    None = None
    MaxSends = 1
    MaxRuns = 2
    MaxIncidents = 1
    MaxOrphanAttempts = 2
INVARIANTS
    OneTurnPerThread
CHECK_DEADLOCK FALSE
