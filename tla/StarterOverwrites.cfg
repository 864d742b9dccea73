CONSTANTS
    Caller = {scene}
    Cell = {c1}
    Starter = 1
    Stock = 0
    MaterialCap = 0
    Threshold = 1
    MaxGrants = 1
    MaxReloads = 2
    MaxPending = 2
    None = None
SPECIFICATION Spec
PROPERTY RealSaveKept
CHECK_DEADLOCK FALSE
