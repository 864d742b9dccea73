CONSTANTS
    Operation = {o1, o2, o3}
    MaxJoinAttempts = 3
    MaxRaids = 2
    None = None
SPECIFICATION TransportSpec
INVARIANTS TransportTypeOK ConnectionsAreOwned
PROPERTIES RaidsNeverShrink Recovers
CHECK_DEADLOCK FALSE
