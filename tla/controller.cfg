SPECIFICATION FairSpec
CONSTANTS
    Thread = {t1, t2}
    Component = {modbus, dnp3}
    Enabled = {modbus, dnp3}
    Autostart = {modbus}
    MaxRequests = 3
    None = None
INVARIANTS
    RunningIsOwned
    ShutdownLeavesNothing
PROPERTIES
    RequestsReturn
    SlotIsReleased
    ShutdownEnds
CHECK_DEADLOCK FALSE
