CONSTANTS
    Motor = {m1, m2}
    CommandTimeout = 1
    FeedbackTimeout = 0
    MaxLoop = 1
    Duration = 5
    WaitTimeout = 1
    SpeedTimeout = 0
    ZeroRepeat = 2
    KeyCap = 1
SYMMETRY Symmetry
SPECIFICATION Spec
INVARIANTS
    BenchDriveEnds
    BenchMotorLoss
    BenchLeavesZero
    RunEndsInTime
