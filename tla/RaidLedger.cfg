CONSTANTS
    p1 = p1
    p2 = p2
    p3 = p3
    r1 = r1
    r2 = r2
    r3 = r3
    Process <- MCProcess
    Run <- MCRun
    Time = {1, 2}
    Seed = 1
    NoHash = NoHash
    NoRun = NoRun
SPECIFICATION Spec
SYMMETRY Symmetry
INVARIANTS TypeOK StoreIsSound
PROPERTIES AppendOnly ImplementsRaidCount
