SPECIFICATION FairSpec
CONSTANTS
    p1 = p1
    p2 = p2
    t1 = t1
    t2 = t2
    t3 = t3
    Proc = {p1, p2}
    Thread = {t1, t2, t3}
    Home <- MCHome
    Modes <- MCModes
    MaxEvents = 1
    MaxLines = 1
    Batch = batch
    Free = free
INVARIANTS
    NothingLost
    CountersAddUp
    PersistedIsSealed
    PlainIsCounted
PROPERTIES
    EmitsReturn
CHECK_DEADLOCK FALSE
