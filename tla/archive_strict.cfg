SPECIFICATION Spec
CONSTANTS
    Node <- MCNode
    Content <- MCContent
    NodeOf <- MCNodeOf
    SeqOf <- MCSeqOf
    PrevOf <- MCPrevOf
    Genesis <- MCGenesis
    NoHash = NoHash
    Logs <- MCLogs
    MaxTracked = 2
    MaxLines = 2
    Archiver = {w1}
    Concurrent = FALSE
    Reader = {}
    MaxCalls = 2
    MaxDamage = 0
    None = None
    Broken = Broken
INVARIANTS StrictMeansVerified
CHECK_DEADLOCK FALSE
