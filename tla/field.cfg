SPECIFICATION Spec
CONSTANTS
    Poll = {p1, p2}
    Client = {c1}
    Conn <- MCConn
    ClientStream <- MCClientStream
    BankSize = 2
    CritStart = 1
    CritEnd = 1
    MaxQuantity = 2
    MaxMbapLength = 4
    MaxBuffer = 13
    Chunk <- MCChunk
    Address = 0
    Quantity = 2
    MaxCrashes = 1
INVARIANTS
    FramesAsSent
    ResidueBelowOneFrame
    AlertBeforeReply
    StateFileWhole
PROPERTIES
    ReadingIsReal
CHECK_DEADLOCK FALSE
