CONSTANTS
    w1 = w1
    w2 = w2
    lead1 = lead1
    lead2 = lead2
    Workers = {w1}
    Leads = {lead1}
    Instagram = {lead1}
    Answering = {lead1}
    Moved = {}
    Steps = {0, 1}
    LastStep = 1
    TopStep = 1
    MaxFaults = 0
    MaxLosses = 0
    MaxFailures = 1
    MaxRequeues = 0
    Admitted = {}
SPECIFICATION SeqSpec
PROPERTY KillSwitchChecked
