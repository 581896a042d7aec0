SPECIFICATION Spec
CONSTANTS
    p1 = p1
    p2 = p2
    Free = Free
    Proc <- MCProc
    Ops <- SignAndRepair
    Faults = {"crash", "lock", "sign", "journal", "append", "unlink", "state"}
    MaxFaults = 4
    MaxMinted = 4
SYMMETRY ProcSymmetry
INVARIANTS
    CommittedIsDurable
    FileOrderIsSequenceOrder
    AckedIsDurable
PROPERTIES
    StateNeverRewinds
    ImplementsChain
