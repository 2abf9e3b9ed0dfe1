CONSTANTS
    w1 = w1
    w2 = w2
    lead1 = lead1
    lead2 = lead2
    Workers = {w1, w2}
    Leads = {lead1}
    Instagram = {lead1}
    Answering = {lead1}
    Moved = {}
    Steps = {0, 1}
    LastStep = 1
    TopStep = 1
    MaxFaults = 1
    MaxLosses = 0
    MaxFailures = 1
    MaxRequeues = 0
    Admitted = {"lostSendAck", "slowAttempt", "retriedDelete"}
SPECIFICATION SeqSpec
SYMMETRY Symmetry
INVARIANTS SeqTypeOK InOrder
PROPERTIES ImplementsDelivery
