CONSTANTS
    Request = {q1, q2}
    Client = {i1, i2}
    MaxPerClient = 1
    MaxTotal = 2
    MaxRedirects = 1
    MaxLate = 2
    MaxPooled = 1
    Visitor = {v}
    NoClient = NoClient
SPECIFICATION Spec
INVARIANTS TypeOK FeedIsBounded StoreOutlivesItsUsers
PROPERTIES NothingHangs
CHECK_DEADLOCK FALSE
