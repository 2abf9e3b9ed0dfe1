CONSTANTS
    w1 = w1
    w2 = w2
    w3 = w3
    lead1 = lead1
    lead2 = lead2
    Workers = {w1, w2}
    Leads = {lead1}
    Steps = {0, 1}
    MaxFaults = 1
    Admitted = {}
SPECIFICATION FairSpec
INVARIANTS AtMostOnce OneSender QuietInv
PROPERTIES SettledStays ImplementsOnce ImplementsOnceFairly
