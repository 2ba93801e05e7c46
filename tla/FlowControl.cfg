SPECIFICATION FairSpec
CONSTANTS
    s1 = s1
    s2 = s2
    s3 = s3
    s4 = s4
    s5 = s5
    k1 = k1
    k2 = k2
    None = None
    Senders <- FiveSenders
    Controllers <- TwoControllers
    ConfigHigh = 4
    ConfigLow = 2
    Ops = {"close"}
INVARIANTS
    InFlightBounded
    FlowSafety
PROPERTIES
    ImplementsGate
    WaitersWake
CHECK_DEADLOCK FALSE
