CONSTANTS
    NaN = NaN
    Value <- MCValue
    Speed <- MCSpeed
    Dt = {0, 2}
    Unit = 1
    Translate = 6
    Rotate = 12
    Kp = 2
    Ki = 1
    Kd = 2
    OutMax = 12
    IntMax = 5
    Extreme <- MCExtreme
SPECIFICATION Spec
INVARIANTS
    TypeOK
    WheelLimit
    PathKept
    IntegralSound
    OutputSound
    OutputReachesMotor
    FeedbackIsTheMotors
PROPERTIES
    NoWindup
    Unwinds
