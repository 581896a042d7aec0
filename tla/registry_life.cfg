SPECIFICATION Spec
CONSTANTS
    Command = {c1}
    KeyId = {k1, k2}
    Node = {n1, n2}
    PublicKey = {q1, q2}
    Form = {"canonical", "other"}
    Canonical = "canonical"
    Algorithm = {"ML-DSA-65"}
    Time = {0, 1}
    Forever = Forever
    Ops = {"register", "rotate", "revoke", "disable", "import"}
    Serial = TRUE
SYMMETRY Symmetry
INVARIANTS
    RevocationHolds
    FileCanBeLoaded
PROPERTIES
    HistoryKeepsVerifying
    NodeKeepsActiveKey
