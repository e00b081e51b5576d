CONSTANTS
    c1 = c1
    c2 = c2
    Steps = 2
    Calls <- TwoCalls
    Nobody = nobody
    MaxIntents = 4
    MaxOrders = 1
    MaxUpsets = 2
SPECIFICATION Spec
CHECK_DEADLOCK FALSE
INVARIANTS
    NoSharedNonce
    ReadyIsTrue
    
    
PROPERTIES
    OnboardingCompletes
