CONSTANTS
    s1 = s1
    s2 = s2
    s3 = s3
    Session <- ThreeSessions
    RoomId = {a}
    MaxClients = 3
    MaxModules = 3
    InvalidLimit = 1
    Seed = 0
    MaxForeign = 0
    NoRoom = NoRoom
    Foreign = Foreign
    Panel = {p}
    MaxInFlight = 2
    NoSession = NoSession
SPECIFICATION RunSpec
INVARIANTS ReportsAreHonest
PROPERTIES RunsAreJudged
CHECK_DEADLOCK FALSE
