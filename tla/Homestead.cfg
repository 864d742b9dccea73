CONSTANTS
    Caller = {scene}
    Cell = {c1, c2}
    Starter = 1
    Stock = 1
    MaterialCap = 1
    Threshold = 2
    MaxGrants = 1
    MaxReloads = 2
    MaxPending = 2
    None = None
SPECIFICATION Spec
INVARIANTS TypeOK PartsAgree StoreCatchesUp
CHECK_DEADLOCK FALSE
