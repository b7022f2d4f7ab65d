CONSTANTS
    Motor = {m1}
    CommandTimeout = 1
    FeedbackTimeout = 1
    WaitTimeout = 3
    MaxLoop = 1
    ZeroRepeat = 2
    UdpCap = 1
    Burst = 1
    MaxCrash = 0
SPECIFICATION Spec
INVARIANT
    StopsOnSilenceFromStart
