CONSTANTS
    Axis <- MCAxis
    MoveWindow = 2
    MaxMoves = 2
    ZapWindow = 1
    MaxZaps = 1
    InvalidWindow = 2
    InvalidLimit = 2
    Tolerance = 1
    Speed <- MCSpeed
    Cap <- MCCap
    Position <- MCPosition
    Spawn <- MCSpawn
    MaxSequence = 3
    MaxTime = 4
    q1 = q1
    q2 = q2
    q3 = q3
    i1 = i1
    i2 = i2
    i3 = i3
    Request <- MCRequest
    Ip <- MCIp
    MaxActive = 3
    MaxActivePerIp = 2
    IpLimit = 1
    GlobalLimit = 2
    Window = 2
    MaxEntries = 2
    Ttl = 4
    MaxClock = 4
    NoIp = NoIp
SPECIFICATION LimitsSpec
SYMMETRY Symmetry
INVARIANTS TypeOK TravelIsHonest WindowsHold GuardTypeOK AdmissionIsBounded
PROPERTIES EvictionIsFair
CHECK_DEADLOCK FALSE
