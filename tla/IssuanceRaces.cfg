CONSTANTS
    alice = alice
    bob = bob
    r1 = r1
    r2 = r2
    Users <- TwoUsers
    Requests <- MCRequests
    Nobody = nobody
    NoUser = noUser
    NoTerms = noTerms
    NoWorkflow = 0
    Terms <- ThreeTerms
    ChainSteps = 1
    MAX_BROADCASTS = 1
    IssuanceCap = 2
    SlowHandlers = FALSE
    OtherJobs <- NoJobs
    Resetters <- NobodyResets
    MaxRecords = 2
    MaxOthers = 0
    MaxFaults = 1
SPECIFICATION FairSpec
CHECK_DEADLOCK FALSE
INVARIANTS
    UnresolvedHoldsReservation
    
    
PROPERTIES
    IssuanceEnds
    ImplementsSerialIssuance
