CONSTANTS
    alice = alice
    bob = bob
    bot = bot
    demo = demo
    c1 = c1
    c2 = c2
    Desks <- MCDesks
    Bot = bot
    Seller = demo
    NoDesk = noDesk
    Calls <- MCCalls
    Sides <- BuyOnly
    MaxIds = 4
    MaxUserIds = 3
    MaxRequests = 2
    MaxTopic = 5
    MaxFaults = 1
    MaxLapses = 1
SPECIFICATION Spec
CHECK_DEADLOCK FALSE
INVARIANTS
    RecordMatchesTopic
PROPERTIES
    ConclusionStands
    EveryRfqIsQuoted
