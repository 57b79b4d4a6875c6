SPECIFICATION Spec
CONSTANTS
    Markets = {m1, m2}
    m1 = m1
    m2 = m2
    MaxAge = 1
    Cooldown = 3
    Period = 1
    RunTime = 1
    MaxFaults = 1
INVARIANT HealthyMeansRecorded
PROPERTY RestartsSpaced
PROPERTY OutageEnds
