CONSTANTS
    u1 = u1
    u2 = u2
    i1 = i1
    i2 = i2
    c1 = c1
    c2 = c2
    Instances <- TwoInstances
    Hosted = TRUE
    Empty <- NoDesks
    Unset = unset
    NoAnswer = noAnswer
    Users <- TwoUsers
    Calls <- TwoCalls
    NoCall = noCall
    NoInstance = noInstance
    MaxDesks = 2
    MaxApprovals = 1
    MaxInFlight = 2
    MaxUpsets = 1
SPECIFICATION Spec
CHECK_DEADLOCK FALSE
INVARIANTS
    AcknowledgedMeansStored
PROPERTIES
    CachesConverge
