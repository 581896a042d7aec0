SPECIFICATION Spec
CONSTANTS
    Node <- MCNode
    Content <- MCContent
    NodeOf <- MCNodeOf
    SeqOf <- MCSeqOf
    PrevOf <- MCPrevOf
    Genesis <- MCGenesis
    NoHash = NoHash
    Logs <- MCLogs
    MaxTracked = 2
    MaxLines = 2
    Archiver = {w1, w2}
    Concurrent = FALSE
    Reader = {r1}
    MaxCalls = 2
    MaxDamage = 1
    None = None
    Broken = Broken
SYMMETRY Symmetry
INVARIANTS TargetWhole StrictCoversCount ArchiveVerdict DestIsSealed
CHECK_DEADLOCK FALSE
