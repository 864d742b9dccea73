CONSTANTS
    t1 = t1
    t2 = t2
    Tab <- MCTab
    MaxCreated <- MCMaxCreated
    MaxClears = 1
    DemoWrites = TRUE
    Old = Old
    NoCharacter = NoCharacter
    Pending = Pending
SPECIFICATION Spec
INVARIANTS TypeOK ChoiceIsKept
PROPERTIES VisitsGoOn
CHECK_DEADLOCK FALSE
