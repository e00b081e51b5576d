CONSTANTS
    h1 = h1
    h2 = h2
    h3 = h3
    a1 = a1
    a2 = a2
    Wallets <- ThreeWallets
    InitialPar <- ThreePars
    Payable <- OnePayable
    Rate <- TwoRates
    Days = 30
    Basis = 360
    UNIT = 1000
    BATCH = 1
    Agents <- TwoAgents
    NoRelease = none
    MaxNotices = 1
    MaxRuns = 2
    MaxUpsets = 2
SPECIFICATION Spec
CHECK_DEADLOCK FALSE
INVARIANTS
    CompletePayoutIsTrue
