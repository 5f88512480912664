SPECIFICATION FairSpec
CONSTANTS
    Clients = {c1}
    MaxClients = 1
PROPERTY FailureBubblesUp
CHECK_DEADLOCK FALSE
