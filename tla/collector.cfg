SPECIFICATION Spec
CONSTANTS
    Node <- MCNode
    Content <- MCContent
    NodeOf <- MCNodeOf
    SeqOf <- MCSeqOf
    PrevOf <- MCPrevOf
    Genesis <- MCGenesis
    NoHash = NoHash
    Records <- MCRecords
    MaxTracked = 2
    MaxLines = 5
CHECK_DEADLOCK FALSE
INVARIANTS
    ReportIsRight
    VerifiedOnce
    VerifiedContinues
    NoGapWithoutGap
