SPECIFICATION Spec
CONSTANTS
    c1 = c1
    c2 = c2
    t1 = t1
    t2 = t2
    l1 = l1
    l2 = l2
    None = None
    Callers <- TwoCallers
    Timers <- OneTimer
    Loops <- TwoLoops
    MaxAttempts = 1
    Ops = {"connect", "disconnect", "incoming", "cancelReconnection", "blacklist", "book", "prepare", "establish", "onDisconnect", "linkdrop", "shutdown"}
SYMMETRY Symmetry
INVARIANTS
    RegisteredLoopLive
    ConnectingHasDialer
    CooldownHasCooler
