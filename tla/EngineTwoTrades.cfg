CONSTANTS
    holder = holder
    taker = taker
    Desks <- MCDesks
    Venue = venue
    ZeroAddress = zero
    Instructions <- TwoInstructions
    Windows <- TwoWindows
    InitialBalance <- TwoBalance
    InitialAllowance <- TwoGranted
    AllowanceChoices <- TwoAllowance
    EligibleChoices <- TwoEligible
    SCHEDULE_MARGIN = 1
    BlockLag = 1
    MaxTrades = 2
    MaxSchedules = 2
    MaxTime = 2
SPECIFICATION Spec
CHECK_DEADLOCK FALSE
INVARIANTS
    LedgerReconciles
PROPERTIES
    ConcludedForGood
