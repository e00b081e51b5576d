CONSTANTS
    alice = alice
    bob = bob
    r1 = r1
    r2 = r2
    Users <- OneUser
    Requests <- MCRequests
    Nobody = nobody
    NoUser = noUser
    NoTerms = noTerms
    NoWorkflow = 0
    Terms <- LoanTerms
    ChainSteps = 2
    MAX_BROADCASTS = 2
    IssuanceCap = 1
    SlowHandlers = TRUE
    OtherJobs <- TickAndConsent
    Resetters <- OneUser
    MaxRecords = 1
    MaxOthers = 1
    MaxFaults = 0
SPECIFICATION Spec
CHECK_DEADLOCK FALSE
INVARIANTS
    OneTransactionPerStep
    BroadcastIsRecorded
    ConfirmedMeansExecutedOnce
PROPERTIES
    ProgressIsKept
SYMMETRY Slots
