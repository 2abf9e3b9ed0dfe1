CONSTANTS
    w1 = w1
    w2 = w2
    w3 = w3
    lead1 = lead1
    lead2 = lead2
    Workers = {w1, w2, w3}
    Leads = {lead1}
    Steps = {0}
    MaxFaults = 2
    Admitted = {"lostSendAck", "slowAttempt", "retriedDelete"}
SPECIFICATION Spec
SYMMETRY Symmetry
INVARIANTS TypeOK RowTruth
