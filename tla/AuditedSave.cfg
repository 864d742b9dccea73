CONSTANTS
    t1 = t1
    t2 = t2
    Tab <- MCTab
    MaxSaves = 3
    MaxAttempts = 3
    NoHash = NoHash
    NoData = NoData
SPECIFICATION Spec
INVARIANTS TypeOK StoreIsAudited GivenUpForCause
PROPERTIES ImplementsOrderedSaves WritesSettle
