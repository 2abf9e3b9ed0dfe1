CONSTANTS
    w1 = w1
    w2 = w2
    s1 = s1
    s2 = s2
    box1 = box1
    box2 = box2
    Workers = {w1, w2}
    Slots = {s1, s2}
    Mailboxes = {box1}
    MaxSockets = 2
    Threshold = 2
    MaxTasks = 1
    MaxTroubles = 1
    MaxUser = 1
    Admitted = {}
SPECIFICATION Spec
SYMMETRY Symmetry
INVARIANTS LeaseTypeOK OneConnection
PROPERTIES ImplementsLease
