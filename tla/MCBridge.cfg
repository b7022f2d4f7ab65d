CONSTANTS
    Packet <- MCPacket
    MaxCurrent = 1
    UdpCap = 2
    LeftDrive = 1
    MaxRestart = 1
SPECIFICATION FairSpec
PROPERTIES
    OnlyZeroFrames
    NewProxyHeard
    StaleStateLeaves
    AbandonedDriveCleared
