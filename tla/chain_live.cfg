CONSTANTS
    box1 = box1
    h1 = h1
    h2 = h2
    Mailboxes = {box1}
    Handlers = {h1}
    Attempts = 2
    MaxRequeues = 1
    Breaker = 1
    MaxLeads = 1
    MaxAsked = 3
    MaxRestarts = 1
    MaxThrows = 0
    MaxLosses = 1
SPECIFICATION FairSpec
PROPERTIES Revives Drains
CHECK_DEADLOCK FALSE
