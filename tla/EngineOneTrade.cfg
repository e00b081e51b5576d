CONSTANTS
    holder = holder
    taker = taker
    Desks <- MCDesks
    Venue = venue
    ZeroAddress = zero
    Instructions <- OneInstruction
    Windows <- OneWindows
    InitialBalance <- OneBalance
    InitialAllowance <- OneGranted
    AllowanceChoices <- OneAllowance
    EligibleChoices <- OneEligible
    SCHEDULE_MARGIN = 2
    BlockLag = 1
    MaxTrades = 1
    MaxSchedules = 2
    MaxTime = 6
SPECIFICATION FairSpec
CHECK_DEADLOCK FALSE
INVARIANTS
    ConsentToFinalTerms
    NetworkCallNeverTooEarly
PROPERTIES
    PreflightPredictsOutcome
    ImplementsDvP
    TimelyScheduleResolves
