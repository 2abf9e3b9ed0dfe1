CONSTANTS
    w1 = w1
    w2 = w2
    lead1 = lead1
    lead2 = lead2
    Workers = {w1, w2}
    Leads = {lead1}
    Instagram = {lead1}
    Answering = {}
    Moved = {lead1}
    Steps = {0, 1}
    LastStep = 0
    TopStep = 1
    MaxFaults = 1
    MaxLosses = 0
    MaxFailures = 1
    MaxRequeues = 0
    Admitted = {}
SPECIFICATION SeqSpec
SYMMETRY Symmetry
INVARIANTS CursorTruth OneStepAtATime TurnInv
PROPERTIES CursorForward ImplementsInTurn
