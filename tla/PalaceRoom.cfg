CONSTANTS
    s1 = s1
    s2 = s2
    s3 = s3
    Session <- ThreeSessions
    RoomId = {a, b}
    MaxClients = 2
    MaxModules = 2
    InvalidLimit = 1
    Seed = 1
    MaxForeign = 1
    NoRoom = NoRoom
    Foreign = Foreign
SPECIFICATION Spec
INVARIANTS TypeOK RoomIsConsistent RunsAreHonest
PROPERTIES ClosedIsFinal GhostsResolve
