CONSTANTS
    email = email
    boxA = boxA
    boxB = boxB
    boxElsewhere = boxElsewhere
    w1 = w1
    Rows = {email}
    Routable = {email}
    Boxes = {boxA, boxB, boxElsewhere}
    Senders = {boxA, boxB}
    NoBox = NoBox
    Workers = {w1}
    Attempts = 2
    MaxTroubles = 1
    MaxMoves = 1
SPECIFICATION FairSpec
INVARIANTS RouteTypeOK ClaimExclusive NotForgotten
PROPERTIES GivenUpStays  ImplementsCustody
CHECK_DEADLOCK FALSE
