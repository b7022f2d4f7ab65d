CONSTANTS
    Motor = {m1}
    Value <- MCValue
    MaxCurrent = 1
    Timeout = {0, 2}
    MaxTimeout = 2
    DefaultTimeout = 1
    OnlineTimeout = 1
    SendPeriod = 1
    StatePeriod = 1
    Modulus = 16
    MaxLoop = 1
    ZeroRepeat = 2
    UdpCap = 1
    Burst = 2
SPECIFICATION Spec
INVARIANT
    ExpiryZeroesBus
