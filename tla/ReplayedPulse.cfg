CONSTANTS
    None = None
    x = x
    g = g
    o = o
    Device = {g}
    Outsider = {o, x}
    Invited <- MCInvited
    LiveAge = 0
    InviteAge = 1
    RateWindow = 0
    PerKey = 1
    Global = 2
    DedupMax = 3
    MaxTime = 1
    MaxMoves = 3
SPECIFICATION HistorySpec
PROPERTY HistoryIsSilent
CHECK_DEADLOCK FALSE
