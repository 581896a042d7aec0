SPECIFICATION Spec
CONSTANTS
    Proc = {p1, p2}
    Free = Free
    Torn = Torn
    Absent = Absent
    MaxSeq = 2
    MaxEras = 1
    MaxEvents = 3
    MaxFaults = 3
SYMMETRY Symmetry
INVARIANTS
    FileStaysWhole
    ReturnedSurvives
    NeverReused
PROPERTIES
    NeverRewinds
