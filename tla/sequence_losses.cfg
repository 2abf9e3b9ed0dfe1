CONSTANTS
    w1 = w1
    w2 = w2
    lead1 = lead1
    lead2 = lead2
    Workers = {w1}
    Leads = {lead1, lead2}
    Instagram = {lead1}
    Answering = {}
    Moved = {}
    Steps = {0, 1}
    LastStep = 1
    TopStep = 1
    MaxFaults = 0
    MaxLosses = 1
    MaxFailures = 2
    MaxRequeues = 1
    Admitted = {}
SPECIFICATION SeqSpec
SYMMETRY Symmetry
INVARIANTS CursorTruth  KeptInv
PROPERTIES ImplementsInTurn
