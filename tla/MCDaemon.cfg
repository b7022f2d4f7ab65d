CONSTANTS
    Motor = {m1, m2}
    CommandTimeout = 1
    FeedbackTimeout = 0
    WaitTimeout = 1
    MaxLoop = 1
    ZeroRepeat = 2
    UdpCap = 1
    Burst = 1
    MaxCrash = 0
SYMMETRY Symmetry
SPECIFICATION Spec
INVARIANTS
    TypeOK
    StopsOnSilence
    StopsOnMotorLoss
    PidCleanAtRest
    NoFalseDrop
    ExitLeavesZero
PROPERTY ImplementsSafeDrive
