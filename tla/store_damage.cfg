SPECIFICATION BusySpec
CONSTANTS
    p1 = p1
    p2 = p2
    Free = Free
    Proc <- MCProc
    Ops <- SignOnly
    Faults = {"crash", "append", "truncate", "rollback", "unlink", "state", "loss", "rot", "erase"}
    MaxFaults = 3
    MaxMinted = 3
INVARIANTS
    AckedSequenceNeverReissued
PROPERTIES
    CallsReturn
    InterruptionsResolved
