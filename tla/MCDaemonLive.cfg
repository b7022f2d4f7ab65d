CONSTANTS
    Motor = {m1}
    CommandTimeout = 0
    FeedbackTimeout = 0
    WaitTimeout = 1
    MaxLoop = 1
    ZeroRepeat = 2
    UdpCap = 1
    Burst = 1
    MaxCrash = 1
SPECIFICATION FairSpec
INVARIANT
    NoMotionFromBeforeStart
PROPERTIES
    SignalEndsProcess
    StartupSettles
    OrphanReplaced
