CONSTANTS
    x1 = x1
    x2 = x2
    i1 = i1
    i2 = i2
    c1 = c1
    c2 = c2
    Instances <- OneInstance
    Hosted = FALSE
    Empty <- NoTrades
    NoAnswer = noAnswer
    Unset = unset
    Trades <- OneTrade
    Manual <- NoManual
    Automated <- BuyerAutomated
    Calls <- TwoCalls
    NoTrade = noTrade
    NoInstance = noInstance
    MaxInstructions = 2
    MaxPageLoads = 1
    MaxFaults = 1
SPECIFICATION Spec
CHECK_DEADLOCK FALSE
INVARIANTS
    OneLiveInstruction
    GrantedIsComplete
PROPERTIES
    ConsentIsKept
    
    SettlementReachesRegister
