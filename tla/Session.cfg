SPECIFICATION FairSpec
CONSTANTS
    Clients = {c1, c2}
    MaxClients = 1
INVARIANTS
    SttHeldWithSlot
    NoSilentEnd
PROPERTIES
    LeftIsFreed
    WaiterIsServed
CHECK_DEADLOCK FALSE
