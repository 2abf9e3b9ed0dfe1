CONSTANTS
    box1 = box1
    h1 = h1
    h2 = h2
    Mailboxes = {box1}
    Handlers = {h1, h2}
    Attempts = 2
    MaxRequeues = 1
    Breaker = 2
    MaxLeads = 1
    MaxAsked = 3
    MaxRestarts = 0
    MaxThrows = 2
    MaxLosses = 1
SPECIFICATION Spec
SYMMETRY Symmetry
INVARIANTS ChainTypeOK Recoverable
CHECK_DEADLOCK FALSE
