CONSTANTS
    x1 = x1
    x2 = x2
    i1 = i1
    i2 = i2
    c1 = c1
    c2 = c2
    Instances <- TwoInstances
    Hosted = TRUE
    Empty <- NoTrades
    NoAnswer = noAnswer
    Unset = unset
    Trades <- OneTrade
    Manual <- NoManual
    Automated <- BuyerAutomated
    Calls <- OneCall
    NoTrade = noTrade
    NoInstance = noInstance
    MaxInstructions = 2
    MaxPageLoads = 0
    MaxFaults = 0
SPECIFICATION HostedSpec
CHECK_DEADLOCK FALSE
INVARIANTS
    OneLiveInstruction
