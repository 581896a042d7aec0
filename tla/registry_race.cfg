SPECIFICATION Spec
CONSTANTS
    Command = {c1, c2}
    KeyId = {k1, k2}
    Node = {n1}
    PublicKey = {q1, q2}
    Form = {"canonical", "other"}
    Canonical = "canonical"
    Algorithm = {"ML-DSA-65"}
    Time = {0}
    Forever = Forever
    Ops = {"register", "rotate", "revoke", "disable"}
    Serial = FALSE
SYMMETRY Symmetry
INVARIANTS
    OneActiveKey
