SPECIFICATION FairSpec
CONSTANTS
    c1 = c1
    c2 = c2
    t1 = t1
    t2 = t2
    l1 = l1
    l2 = l2
    None = None
    Callers <- OneCaller
    Timers <- OneTimer
    Loops <- TwoLoops
    MaxAttempts = 1
    Ops = {"connect", "disconnect", "finalize", "incoming", "cancelReconnection"}
PROPERTIES
    ConnectingEnds
    CooldownEnds
    LoopsEnd
