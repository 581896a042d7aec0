---------------------------- MODULE KeyRegistry ----------------------------
(***************************************************************************)
(* pqc_evidence/key_registry.py and the commands of cli.py that change a   *)
(* registry.  A command loads the whole registry file, changes its copy in *)
(* memory and saves the copy over the file with os.replace.  Nothing locks *)
(* the file between the load and the save.                                 *)
(*                                                                         *)
(* Times are small naturals; the moment a key is activated is the one the  *)
(* caller gives or the present, so any.                                    *)
(*                                                                         *)
(* A record holds its public key as base64 text.  A key has one canonical  *)
(* text, which b64encode writes, and other texts that b64decode also takes *)
(* (the 1952 bytes of an ML-DSA-65 key leave two bits of the last letter   *)
(* unused): a text is a key and a form.                                    *)
(***************************************************************************)
EXTENDS Naturals

CONSTANTS
    Command,    \* processes that run registry commands
    KeyId,
    Node,
    PublicKey,  \* raw keys
    Form,       \* the ways to write a key down in base64
    Canonical,  \* the form that b64encode writes
    Algorithm,  \* SUPPORTED_SIGNATURE_ALGORITHMS
    Time,
    Forever,    \* expires_at is None
    Ops,        \* the operations used, a subset of Operations
    Serial      \* TRUE: a command starts only when no other one is running

Operations == {"register", "rotate", "revoke", "disable", "import", "overwrite"}

ASSUME ConstantsAssumption ==
    /\ Time \subseteq Nat
    /\ Forever \notin Nat
    /\ Canonical \in Form
    /\ Ops \subseteq Operations
    /\ Serial \in BOOLEAN

VARIABLES
    file,     \* the registry file, as load reads it
    mem,      \* each command's KeyRegistry._records
    pc,       \* where each command is
    op,       \* what it does
    target,   \* the key identifiers it has changed
    revoked   \* public key texts whose revocation a command has saved and reported

vars == <<file, mem, pc, op, target, revoked>>

----------------------------------------------------------------------------
(* Registries *)

\* KeyState
KeyState == {"active", "rotated", "revoked", "expired", "disabled"}

\* KeyRecord.public_key, the text, and public_key_bytes, what it decodes to.
KeyText == [key : PublicKey, form : Form]
PublicKeyBytes(text) == text.key

\* KeyRecord; creation time, reason and metadata are left out.
KeyRecord == [node : Node, public_key : KeyText, algorithm : Algorithm,
              state : KeyState, activated : Time, expires : Time \cup {Forever}]

\* _records: a dictionary from identifiers to records.
Registry == UNION {[K -> KeyRecord] : K \in SUBSET KeyId}
EmptyRegistry == [k \in {} |-> {}]

Put(reg, k, r) == [i \in DOMAIN reg \cup {k} |-> IF i = k THEN r ELSE reg[i]]
Without(reg, k) == [i \in DOMAIN reg \ {k} |-> reg[i]]
SetState(reg, k, s) == [reg EXCEPT ![k].state = s]

\* Mutant: the public key may be registered twice.
InsertableById(reg, k, r) == k \notin DOMAIN reg

\* _insert raises for a known identifier and for a known public key text.
Insertable(reg, k, r) ==
    /\ k \notin DOMAIN reg
    /\ \A i \in DOMAIN reg : reg[i].public_key # r.public_key

\* for_node, then active_key: the most recently activated of the active keys.
ForNode(reg, n) == {k \in DOMAIN reg : reg[k].node = n}
ActiveKeys(reg, n) == {k \in ForNode(reg, n) : reg[k].state = "active"}
IsActiveKey(reg, n, k) ==
    /\ k \in ActiveKeys(reg, n)
    /\ \A i \in ActiveKeys(reg, n) : reg[i].activated <= reg[k].activated

\* Mutant: the previous key is left active.
NothingRotated(reg, n) == {reg}

\* reg with the node's active key, if it has one, marked rotated.  Two active
\* keys activated at the same time come in dictionary order, so either.
PreviousRotated(reg, n) ==
    IF ActiveKeys(reg, n) = {}
    THEN {reg}
    ELSE {SetState(reg, k, "rotated") : k \in {i \in DOMAIN reg : IsActiveKey(reg, n, i)}}

\* Mutant: only keys of the node that are active are trusted.
ProblemsOfRotated(reg, k, n, t, a) ==
    IF k \in ActiveKeys(reg, n) THEN {} ELSE {"pqc_unknown_key"}

\* check_usable: what is wrong with key k signing for node n at time t.
Problems(reg, k, n, t, a) ==
    IF k \notin DOMAIN reg
    THEN {"pqc_unknown_key"} \cup (IF ForNode(reg, n) = {} THEN {"pqc_unknown_node"} ELSE {})
    ELSE LET r == reg[k] IN
         {p \in {"pqc_unknown_node", "pqc_unsupported_algorithm", "pqc_revoked_key",
                 "pqc_unknown_key", "pqc_expired_key"} :
             \/ p = "pqc_unknown_node" /\ r.node # n
             \/ p = "pqc_unsupported_algorithm" /\ r.algorithm # a
             \/ p = "pqc_revoked_key" /\ r.state \in {"revoked", "disabled"}
             \/ p = "pqc_unknown_key" /\ t < r.activated
             \/ p = "pqc_expired_key" /\ r.expires # Forever /\ t > r.expires
             \/ p = "pqc_expired_key" /\ r.state = "expired"}

Usable(reg, k, n, t, a) == Problems(reg, k, n, t, a) = {}

----------------------------------------------------------------------------
Init ==
    /\ file = EmptyRegistry
    /\ mem = [c \in Command |-> EmptyRegistry]
    /\ pc = [c \in Command |-> "idle"]
    /\ op = [c \in Command |-> "none"]
    /\ target = [c \in Command |-> {}]
    /\ revoked = {}

\* The command's registry becomes new, and the command goes on at label.
Change(c, new, label) ==
    /\ mem' = [mem EXCEPT ![c] = new]
    /\ pc' = [pc EXCEPT ![c] = label]
    /\ UNCHANGED <<file, op, revoked>>

\* The command returns and its registry is dropped.
End(c) ==
    /\ mem' = [mem EXCEPT ![c] = EmptyRegistry]
    /\ target' = [target EXCEPT ![c] = {}]
    /\ op' = [op EXCEPT ![c] = "none"]
    /\ pc' = [pc EXCEPT ![c] = "idle"]

----------------------------------------------------------------------------
(* Commands *)

\* Serial stands for an operator who runs one command after another.
MayStart == Serial => \A c \in Command : pc[c] = "idle"

\* load; a missing file is an empty registry.
Load(c, o) ==
    /\ pc[c] = "idle"
    /\ MayStart
    /\ mem' = [mem EXCEPT ![c] = file]
    /\ op' = [op EXCEPT ![c] = o]
    /\ pc' = [pc EXCEPT ![c] = "loaded"]
    /\ UNCHANGED <<file, target, revoked>>

Running(c, o) == pc[c] = "loaded" /\ op[c] = o

\* register: the key is written down by b64encode.  The active key is marked before _insert
\* is tried, and stays marked in memory when _insert raises.
Register(c, k, r) ==
    /\ r.public_key.form = Canonical
    /\ \E reg \in IF r.state = "active" THEN PreviousRotated(mem[c], r.node) ELSE {mem[c]} :
           IF Insertable(reg, k, r)
           THEN Change(c, Put(reg, k, r), "changed")
           ELSE Change(c, reg, "refused")
    /\ UNCHANGED target

\* register-key, with or without --inactive
RegisterKey(c, k, r) ==
    /\ Running(c, "register")
    /\ r.state \in {"active", "disabled"}
    /\ Register(c, k, r)

\* rotate-key, which refuses a node that has no key; the new key never expires.
RotateKey(c, k, r) ==
    /\ Running(c, "rotate")
    /\ r.state = "active" /\ r.expires = Forever
    /\ ForNode(mem[c], r.node) # {}
    /\ Register(c, k, r)

\* revoke and disable of a known key, whatever state it is in.
Withdraw(c, k, o, state) ==
    /\ Running(c, o)
    /\ k \in DOMAIN mem[c]
    /\ Change(c, SetState(mem[c], k, state), "changed")
    /\ target' = [target EXCEPT ![c] = {k}]

RevokeKey(c, k) == Withdraw(c, k, "revoke", "revoked")
DisableKey(c, k) == Withdraw(c, k, "disable", "disabled")

\* Mutant: a known identifier is replaced without being asked to.
ImportAlways(c, k, r) ==
    /\ op[c] \in {"import", "overwrite"}
    /\ pc[c] \in {"loaded", "changed"}
    /\ Change(c, Put(mem[c], k, r), "changed")
    /\ UNCHANGED target

\* import_public, one entry of a document, which is a list of any entries: a
\* known identifier is skipped, or with overwrite deleted before _insert.
ImportEntry(c, k, r) ==
    /\ op[c] \in {"import", "overwrite"}
    /\ pc[c] \in {"loaded", "changed"}
    /\ LET reg == Without(mem[c], k) IN
       IF k \in DOMAIN mem[c] /\ op[c] = "import"
       THEN Change(c, mem[c], "changed")
       ELSE IF Insertable(reg, k, r)
            THEN Change(c, Put(reg, k, r), "changed")
            ELSE Change(c, reg, "refused")
    /\ UNCHANGED target

\* Mutant: the registry is saved also when the change was refused.
SaveAnyway(c) ==
    /\ pc[c] \in {"changed", "refused"}
    /\ file' = mem[c]
    /\ revoked' = revoked \cup
           IF op[c] = "revoke" THEN {mem[c][k].public_key : k \in target[c]} ELSE {}
    /\ End(c)

\* save replaces the file; the command then reports what it did.
Save(c) ==
    /\ pc[c] = "changed"
    /\ file' = mem[c]
    /\ revoked' = revoked \cup
           IF op[c] = "revoke" THEN {mem[c][k].public_key : k \in target[c]} ELSE {}
    /\ End(c)

\* The command ends without saving: it raised KeyRegistryError, could not read
\* the key file or write the temporary file, or was killed.
GiveUp(c) ==
    /\ pc[c] # "idle"
    /\ End(c)
    /\ UNCHANGED <<file, revoked>>

Next ==
    \E c \in Command :
        \/ \E o \in Ops : Load(c, o)
        \/ \E k \in KeyId, r \in KeyRecord :
              RegisterKey(c, k, r) \/ RotateKey(c, k, r) \/ ImportEntry(c, k, r)
        \/ \E k \in KeyId : RevokeKey(c, k) \/ DisableKey(c, k)
        \/ Save(c)
        \/ GiveUp(c)

Spec == Init /\ [][Next]_vars

----------------------------------------------------------------------------
(* Properties *)

TypeOK ==
    /\ file \in Registry
    /\ mem \in [Command -> Registry]
    /\ pc \in [Command -> {"idle", "loaded", "changed", "refused"}]
    /\ op \in [Command -> Operations \cup {"none"}]
    /\ target \in [Command -> SUBSET KeyId]
    /\ revoked \subseteq KeyText

UniqueKeys(reg) ==
    \A i, j \in DOMAIN reg : reg[i].public_key = reg[j].public_key => i = j

\* Whatever commands overlap, the file that is left can be loaded again: load
\* inserts every record through _insert, which refuses a public key text it has
\* seen under another identifier.
FileCanBeLoaded == UniqueKeys(file)

\* register rotates the previous key: whatever register, rotate, revoke and
\* disable commands overlap, a node has at most one active key, so that
\* active_key has no choice to make.
OneActiveKey ==
    \A n \in Node : \A i, j \in ActiveKeys(file, n) : i = j

\* Once revoke-key has reported a revocation, check_usable refuses every record
\* that carries the text of the revoked public key, under whatever identifier, for
\* every node and every event time.
RevocationHolds ==
    \A k \in DOMAIN file, n \in Node, t \in Time, a \in Algorithm :
        file[k].public_key \in revoked => "pqc_revoked_key" \in Problems(file, k, n, t, a)

\* The same of every record that carries the revoked public key, in whatever text:
\* what docs/pqc-key-management.md gives as the reason for refusing a public key
\* under a second identifier.  A verifier decodes the text, so every text will do.
RevokedKeyRefused ==
    \A k \in DOMAIN file, q \in revoked, n \in Node, t \in Time, a \in Algorithm :
        PublicKeyBytes(file[k].public_key) = PublicKeyBytes(q) =>
            "pqc_revoked_key" \in Problems(file, k, n, t, a)

\* Rotation keeps history valid: an event that verifies goes on verifying
\* until a revoke or disable of its own key is saved; no registration, rotation
\* or import of other keys takes it back.
HistoryKeepsVerifying ==
    [][file' # file => \A k \in KeyId, n \in Node, t \in Time, a \in Algorithm :
          Usable(file, k, n, t, a) /\ ~Usable(file', k, n, t, a)
          => \E c \in Command : op[c] \in {"revoke", "disable"} /\ k \in target[c]]_vars

\* A command that fails takes nothing away: a node with an active key has one
\* after every step, unless the step saves a revoke or disable of that key.
\* (register marks the old key rotated before it knows that the new one goes in.)
NodeKeepsActiveKey ==
    [][file' # file => \A n \in Node :
          ActiveKeys(file, n) # {} /\ ActiveKeys(file', n) = {}
          => \E c \in Command : op[c] \in {"revoke", "disable"}
                               /\ ActiveKeys(file, n) \subseteq target[c]]_vars
=============================================================================
