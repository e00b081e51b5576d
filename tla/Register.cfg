CONSTANTS
    agent = agent
    pool = pool
    retail = retail
    retail2 = retail2
    desk = desk
    treasury = treasury
    fund = fund
    anchor = anchor
    outsider = outsider
    new1 = new1
    Wallets <- MCWallets
    Agent = agent
    Pool = pool
    FeederKeys <- MCFeederKeys
    Recorded <- MCRecorded
    Source = anchor
    NamedDesks <- MCNamedDesks
    NewDesks <- MCNewDesks
    Scripted <- MCScripted
    Onboardable <- MCOnboardable
    OpeningPar <- MCOpeningPar
    Position <- MCPosition
    Principals <- MCPrincipals
    Inputs <- MCInputs
    MaxMoves = 2
SPECIFICATION Spec
CHECK_DEADLOCK FALSE
INVARIANTS
    RegisterAddsUp
    HeldOnce
PROPERTIES
    IssuedAsComposed
    AgreementWasTrue
