------------------------- MODULE KeyRegistryProofs -------------------------
(***************************************************************************)
(* Proofs about KeyRegistry for any number of commands, keys and nodes.    *)
(***************************************************************************)
EXTENDS KeyRegistry, TLAPS

----------------------------------------------------------------------------
(* Registries *)

\* A registry is a function from some identifiers to records.
LEMMA RegistryIs ==
    ASSUME NEW reg
    PROVE  reg \in Registry <=> /\ DOMAIN reg \subseteq KeyId
                                /\ reg \in [DOMAIN reg -> KeyRecord]
  BY DEF Registry

\* Every KeyState value put into a record leaves a registry.
LEMMA SetStateRegistry ==
    ASSUME NEW reg \in Registry, NEW k \in DOMAIN reg, NEW s \in KeyState
    PROVE  /\ SetState(reg, k, s) \in Registry
           /\ DOMAIN SetState(reg, k, s) = DOMAIN reg
           /\ \A i \in DOMAIN reg : i # k => SetState(reg, k, s)[i] = reg[i]
           /\ SetState(reg, k, s)[k].state = s
           /\ \A i \in DOMAIN reg : SetState(reg, k, s)[i].public_key = reg[i].public_key
           /\ \A i \in DOMAIN reg : SetState(reg, k, s)[i].node = reg[i].node
           /\ \A i \in DOMAIN reg : SetState(reg, k, s)[i].algorithm = reg[i].algorithm
           /\ \A i \in DOMAIN reg : SetState(reg, k, s)[i].activated = reg[i].activated
           /\ \A i \in DOMAIN reg : SetState(reg, k, s)[i].expires = reg[i].expires
  <1>1. DOMAIN reg \subseteq KeyId /\ reg \in [DOMAIN reg -> KeyRecord]
    BY RegistryIs
  <1>2. SetState(reg, k, s) \in [DOMAIN reg -> KeyRecord]
    BY <1>1 DEF SetState, KeyRecord
  <1>3. SetState(reg, k, s) \in Registry
    BY <1>1, <1>2 DEF Registry
  <1> QED
    BY <1>1, <1>3 DEF SetState, KeyRecord

\* Inserting a record into a registry leaves a registry.
LEMMA PutRegistry ==
    ASSUME NEW reg \in Registry, NEW k \in KeyId, NEW r \in KeyRecord
    PROVE  /\ Put(reg, k, r) \in Registry
           /\ DOMAIN Put(reg, k, r) = DOMAIN reg \cup {k}
           /\ Put(reg, k, r)[k] = r
           /\ \A i \in DOMAIN reg : i # k => Put(reg, k, r)[i] = reg[i]
  <1>1. DOMAIN reg \subseteq KeyId /\ reg \in [DOMAIN reg -> KeyRecord]
    BY RegistryIs
  <1>2. Put(reg, k, r) \in [DOMAIN reg \cup {k} -> KeyRecord]
    BY <1>1 DEF Put
  <1> QED
    BY <1>1, <1>2 DEF Registry, Put

\* Deleting a record leaves a registry.
LEMMA WithoutRegistry ==
    ASSUME NEW reg \in Registry, NEW k
    PROVE  /\ Without(reg, k) \in Registry
           /\ DOMAIN Without(reg, k) = DOMAIN reg \ {k}
           /\ \A i \in DOMAIN reg : i # k => Without(reg, k)[i] = reg[i]
           /\ k \notin DOMAIN reg => Without(reg, k) = reg
  <1>1. DOMAIN reg \subseteq KeyId /\ reg \in [DOMAIN reg -> KeyRecord]
    BY RegistryIs
  <1>2. Without(reg, k) \in [DOMAIN reg \ {k} -> KeyRecord]
    BY <1>1 DEF Without
  <1>3. k \notin DOMAIN reg => Without(reg, k) = reg
    BY <1>1 DEF Without
  <1> QED
    BY <1>1, <1>2, <1>3 DEF Registry, Without

\* The empty registry is a registry.
LEMMA EmptyIsRegistry == EmptyRegistry \in Registry /\ DOMAIN EmptyRegistry = {}
  BY DEF Registry, EmptyRegistry

\* What register does to the previous key: nothing, or one active key of the
\* node is marked rotated.
LEMMA PreviousRotatedIs ==
    ASSUME NEW reg \in Registry, NEW n \in Node, NEW new \in PreviousRotated(reg, n)
    PROVE  \/ ActiveKeys(reg, n) = {} /\ new = reg
           \/ \E k \in ActiveKeys(reg, n) : new = SetState(reg, k, "rotated")
  BY DEF PreviousRotated, IsActiveKey

----------------------------------------------------------------------------
(* The steps of a command *)

\* reg is old as register leaves it before it inserts record r.
Rotation(old, r, reg) ==
    \/ /\ reg = old
       /\ r.state = "active" => ActiveKeys(old, r.node) = {}
    \/ /\ r.state = "active"
       /\ \E i \in ActiveKeys(old, r.node) : reg = SetState(old, i, "rotated")

\* register either inserts the record or leaves the registry it has prepared.
LEMMA RegisterIs ==
    ASSUME TypeOK, NEW c \in Command, NEW k \in KeyId, NEW r \in KeyRecord, Register(c, k, r)
    PROVE  /\ \E reg \in Registry :
                 /\ Rotation(mem[c], r, reg)
                 /\ \/ Insertable(reg, k, r) /\ Change(c, Put(reg, k, r), "changed")
                    \/ Change(c, reg, "refused")
           /\ UNCHANGED target
  <1>1. mem[c] \in Registry /\ r.node \in Node
    BY DEF TypeOK, KeyRecord
  <1>2. PICK reg \in (IF r.state = "active" THEN PreviousRotated(mem[c], r.node) ELSE {mem[c]}) :
           IF Insertable(reg, k, r)
           THEN Change(c, Put(reg, k, r), "changed")
           ELSE Change(c, reg, "refused")
    BY DEF Register
  <1>3. Rotation(mem[c], r, reg)
    BY <1>1, <1>2, PreviousRotatedIs DEF Rotation
  <1>4. reg \in Registry
    BY <1>1, <1>3, SetStateRegistry DEF Rotation, ActiveKeys, ForNode, KeyState
  <1> QED
    BY <1>2, <1>3, <1>4 DEF Register

\* import_public either skips, inserts, or raises with the identifier deleted.
LEMMA ImportIs ==
    ASSUME TypeOK, NEW c \in Command, NEW k \in KeyId, NEW r \in KeyRecord, ImportEntry(c, k, r)
    PROVE  /\ op[c] \in {"import", "overwrite"}
           /\ UNCHANGED target
           /\ \E reg \in Registry :
                 /\ reg = Without(mem[c], k)
                 /\ op[c] # "overwrite" => reg = mem[c] \/ k \in DOMAIN mem[c]
                 /\ \/ Change(c, mem[c], "changed")
                    \/ /\ op[c] # "overwrite" => reg = mem[c]
                       /\ \/ Insertable(reg, k, r) /\ Change(c, Put(reg, k, r), "changed")
                          \/ Change(c, reg, "refused")
  <1>1. mem[c] \in Registry
    BY DEF TypeOK
  <1>2. Without(mem[c], k) \in Registry /\ (k \notin DOMAIN mem[c] => Without(mem[c], k) = mem[c])
    BY <1>1, WithoutRegistry
  <1> QED
    BY <1>2 DEF ImportEntry

\* revoke and disable change the state of one known key.
LEMMA WithdrawIs ==
    ASSUME TypeOK, NEW c \in Command, NEW k \in KeyId, RevokeKey(c, k) \/ DisableKey(c, k)
    PROVE  /\ k \in DOMAIN mem[c]
           /\ target' = [target EXCEPT ![c] = {k}]
           /\ \E s \in {"revoked", "disabled"} :
                 /\ op[c] = "revoke" => s = "revoked"
                 /\ Change(c, SetState(mem[c], k, s), "changed")
           /\ op[c] \in {"revoke", "disable"}
           /\ pc[c] = "loaded"
  BY DEF RevokeKey, DisableKey, Withdraw, Running

----------------------------------------------------------------------------
(* Types *)

\* A command has a target only between a revoke or disable and its save, and
\* the target is in its registry, withdrawn.
Targets ==
    \A c \in Command :
        /\ target[c] # {} => op[c] \in {"revoke", "disable"} /\ pc[c] = "changed"
        /\ \A k \in target[c] : /\ k \in DOMAIN mem[c]
                                /\ mem[c][k].state \in {"revoked", "disabled"}
                                /\ op[c] = "revoke" => mem[c][k].state = "revoked"

TypeInv == TypeOK /\ Targets

\* A change that leaves the target alone keeps TypeInv, when there is none.
LEMMA ChangeTypeInv ==
    ASSUME TypeInv, NEW c \in Command, NEW reg \in Registry,
           NEW label \in {"changed", "refused"},
           Change(c, reg, label), UNCHANGED target, target[c] = {}
    PROVE  TypeInv'
  <1>1. TypeOK'
    BY DEF TypeInv, TypeOK, Change
  <1>2. ASSUME NEW d \in Command
        PROVE  /\ target'[d] = target[d] /\ op'[d] = op[d]
               /\ d # c => pc'[d] = pc[d] /\ mem'[d] = mem[d]
    BY DEF TypeInv, TypeOK, Change
  <1>3. Targets'
    BY <1>2 DEF TypeInv, Targets
  <1> QED
    BY <1>1, <1>3 DEF TypeInv

\* A command that ends keeps TypeInv, whatever happens to the file.
LEMMA EndTypeInv ==
    ASSUME TypeInv, NEW c \in Command, End(c), file' \in Registry, revoked' \subseteq KeyText
    PROVE  TypeInv'
  <1>1. TypeOK'
    BY EmptyIsRegistry DEF TypeInv, TypeOK, End
  <1>2. ASSUME NEW d \in Command
        PROVE  /\ d # c => /\ target'[d] = target[d] /\ op'[d] = op[d]
                           /\ pc'[d] = pc[d] /\ mem'[d] = mem[d]
               /\ target'[c] = {}
    BY DEF TypeInv, TypeOK, End
  <1>3. Targets'
    BY <1>2 DEF TypeInv, Targets
  <1> QED
    BY <1>1, <1>3 DEF TypeInv

\* Every step keeps TypeInv.
LEMMA TypeNext == TypeInv /\ [Next]_vars => TypeInv'
  <1> SUFFICES ASSUME TypeInv, [Next]_vars
               PROVE  TypeInv'
    OBVIOUS
  <1>0. TypeOK
    BY DEF TypeInv
  <1>1. CASE UNCHANGED vars
    BY <1>1 DEF vars, TypeInv, TypeOK, Targets
  <1>2. ASSUME NEW c \in Command, NEW o \in Ops, Load(c, o)
        PROVE  TypeInv'
    <2>1. TypeOK'
      BY <1>0, <1>2, ConstantsAssumption DEF Load, TypeOK
    <2>2. target[c] = {}
      BY <1>2 DEF Load, TypeInv, Targets
    <2>3. Targets'
      BY <1>0, <1>2, <2>2 DEF Load, TypeInv, Targets, TypeOK
    <2> QED
      BY <2>1, <2>3 DEF TypeInv
  <1>3. ASSUME NEW c \in Command, NEW k \in KeyId, NEW r \in KeyRecord,
               RegisterKey(c, k, r) \/ RotateKey(c, k, r)
        PROVE  TypeInv'
    <2>1. Register(c, k, r) /\ pc[c] = "loaded"
      BY <1>3 DEF RegisterKey, RotateKey, Running
    <2>2. PICK reg \in Registry : \/ Change(c, Put(reg, k, r), "changed")
                                  \/ Change(c, reg, "refused")
      BY <1>0, <2>1, RegisterIs
    <2>3. Put(reg, k, r) \in Registry
      BY <2>2, PutRegistry
    <2>4. UNCHANGED target
      BY <1>0, <2>1, RegisterIs
    <2>5. target[c] = {}
      BY <2>1 DEF TypeInv, Targets
    <2> QED
      BY <2>2, <2>3, <2>4, <2>5, ChangeTypeInv
  <1>4. ASSUME NEW c \in Command, NEW k \in KeyId, NEW r \in KeyRecord, ImportEntry(c, k, r)
        PROVE  TypeInv'
    <2>1. PICK reg \in Registry : \/ Change(c, mem[c], "changed")
                                  \/ Change(c, Put(reg, k, r), "changed")
                                  \/ Change(c, reg, "refused")
      BY <1>0, <1>4, ImportIs
    <2>2. Put(reg, k, r) \in Registry /\ mem[c] \in Registry
      BY <1>0, <2>1, PutRegistry DEF TypeOK
    <2>3. UNCHANGED target /\ target[c] = {}
      BY <1>0, <1>4, ImportIs DEF TypeInv, Targets
    <2> QED
      BY <2>1, <2>2, <2>3, ChangeTypeInv
  <1>5. ASSUME NEW c \in Command, NEW k \in KeyId, RevokeKey(c, k) \/ DisableKey(c, k)
        PROVE  TypeInv'
    <2>1. PICK s \in {"revoked", "disabled"} :
             /\ op[c] = "revoke" => s = "revoked"
             /\ Change(c, SetState(mem[c], k, s), "changed")
      BY <1>0, <1>5, WithdrawIs
    <2>2. /\ SetState(mem[c], k, s) \in Registry
          /\ SetState(mem[c], k, s)[k].state = s
          /\ k \in DOMAIN SetState(mem[c], k, s)
      <3>1. mem[c] \in Registry /\ k \in DOMAIN mem[c] /\ s \in KeyState
        BY <1>0, <1>5, WithdrawIs DEF KeyState, TypeOK
      <3> QED
        BY <3>1, SetStateRegistry
    <2>3. target' = [target EXCEPT ![c] = {k}] /\ op[c] \in {"revoke", "disable"}
      BY <1>0, <1>5, WithdrawIs
    <2>4. TypeOK'
      BY <1>0, <2>1, <2>2, <2>3 DEF Change, TypeOK
    <2>5. /\ mem'[c] = SetState(mem[c], k, s) /\ target'[c] = {k}
          /\ op'[c] = op[c] /\ pc'[c] = "changed"
          /\ \A d \in Command \ {c} : /\ mem'[d] = mem[d] /\ target'[d] = target[d]
                                      /\ op'[d] = op[d] /\ pc'[d] = pc[d]
      BY <1>0, <2>1, <2>3 DEF Change, TypeOK
    <2>6. Targets'
      BY <2>1, <2>2, <2>3, <2>5 DEF TypeInv, Targets
    <2> QED
      BY <2>4, <2>6 DEF TypeInv
  <1>6. ASSUME NEW c \in Command, Save(c)
        PROVE  TypeInv'
    <2>1. \A k \in target[c] : mem[c][k].public_key \in KeyText
      <3>1. mem[c] \in Registry /\ target[c] \subseteq DOMAIN mem[c]
        BY <1>0 DEF TypeInv, TypeOK, Targets
      <3> QED
        BY <3>1, RegistryIs DEF KeyRecord
    <2>2. file' \in Registry /\ revoked' \subseteq KeyText
      BY <1>0, <1>6, <2>1 DEF Save, TypeOK
    <2> QED
      BY <1>6, <2>2, EndTypeInv DEF Save
  <1>7. ASSUME NEW c \in Command, GiveUp(c)
        PROVE  TypeInv'
    BY <1>0, <1>7, EndTypeInv DEF GiveUp, TypeOK
  <1> QED
    BY <1>1, <1>2, <1>3, <1>4, <1>5, <1>6, <1>7 DEF Next

\* The empty registry and idle commands satisfy TypeInv.
LEMMA TypeInit == Init => TypeInv
  BY EmptyIsRegistry DEF Init, TypeInv, TypeOK, Targets

\* No command, however it overlaps with others or fails, leaves an ill-formed
\* record in the registry file or in a loaded registry.
THEOREM TypeCorrect == Spec => []TypeOK
  <1>1. Spec => []TypeInv
    BY TypeInit, TypeNext, PTL DEF Spec
  <1> QED
    BY <1>1, PTL DEF TypeInv

----------------------------------------------------------------------------
(* Public keys are unique *)

UniqueEverywhere == UniqueKeys(file) /\ \A c \in Command : UniqueKeys(mem[c])

\* _insert, a state change and a deletion keep public keys unique.
LEMMA UniqueKept ==
    ASSUME NEW reg \in Registry, UniqueKeys(reg), NEW k \in KeyId
    PROVE  /\ \A r \in KeyRecord : Insertable(reg, k, r) => UniqueKeys(Put(reg, k, r))
           /\ \A s \in KeyState : k \in DOMAIN reg => UniqueKeys(SetState(reg, k, s))
           /\ UniqueKeys(Without(reg, k))
  <1>1. ASSUME NEW r \in KeyRecord, Insertable(reg, k, r)
        PROVE  UniqueKeys(Put(reg, k, r))
    <2> DEFINE new == Put(reg, k, r)
    <2>1. /\ DOMAIN new = DOMAIN reg \cup {k} /\ new[k] = r
          /\ \A i \in DOMAIN reg : i # k => new[i] = reg[i]
      BY PutRegistry
    <2> HIDE DEF new
    <2>2. UniqueKeys(new)
      BY <1>1, <2>1 DEF UniqueKeys, Insertable
    <2> QED
      BY <2>2 DEF new
  <1>2. ASSUME NEW s \in KeyState, k \in DOMAIN reg
        PROVE  UniqueKeys(SetState(reg, k, s))
    BY <1>2, SetStateRegistry DEF UniqueKeys
  <1>3. UniqueKeys(Without(reg, k))
    <2> DEFINE new == Without(reg, k)
    <2>1. /\ DOMAIN new = DOMAIN reg \ {k}
          /\ \A i \in DOMAIN reg : i # k => new[i] = reg[i]
      BY WithoutRegistry
    <2> HIDE DEF new
    <2>2. UniqueKeys(new)
      BY <2>1 DEF UniqueKeys
    <2> QED
      BY <2>2 DEF new
  <1> QED
    BY <1>1, <1>2, <1>3

\* The registry that register prepares keeps public keys unique.
LEMMA UniqueRotation ==
    ASSUME NEW old \in Registry, UniqueKeys(old), NEW r \in KeyRecord, NEW reg, Rotation(old, r, reg)
    PROVE  UniqueKeys(reg)
  <1>1. CASE reg = old
    BY <1>1
  <1>2. ASSUME NEW i \in ActiveKeys(old, r.node), reg = SetState(old, i, "rotated")
        PROVE  UniqueKeys(reg)
    <2>1. i \in DOMAIN old /\ i \in KeyId /\ "rotated" \in KeyState
      BY RegistryIs DEF ActiveKeys, ForNode, KeyState
    <2> QED
      BY <1>2, <2>1, UniqueKept
  <1> QED
    BY <1>1, <1>2 DEF Rotation

\* Every step keeps public keys unique, in the file and in every command.
LEMMA UniqueNext == TypeInv /\ UniqueEverywhere /\ [Next]_vars => UniqueEverywhere'
  <1> SUFFICES ASSUME TypeInv, UniqueEverywhere, [Next]_vars
               PROVE  UniqueEverywhere'
    OBVIOUS
  <1>0. TypeOK
    BY DEF TypeInv
  <1>1. CASE UNCHANGED vars
    BY <1>1 DEF vars, UniqueEverywhere
  <1>c. ASSUME NEW c \in Command, NEW reg, NEW label, Change(c, reg, label), UniqueKeys(reg)
        PROVE  UniqueEverywhere'
    <2>1. UniqueKeys(file')
      BY <1>c DEF UniqueEverywhere, Change
    <2>2. ASSUME NEW d \in Command
          PROVE  UniqueKeys(mem'[d])
      BY <1>0, <1>c DEF UniqueEverywhere, Change, TypeOK
    <2> QED
      BY <2>1, <2>2 DEF UniqueEverywhere
  <1>e. ASSUME NEW c \in Command, End(c), UniqueKeys(file')
        PROVE  UniqueEverywhere'
    <2>1. UniqueKeys(EmptyRegistry)
      BY EmptyIsRegistry DEF UniqueKeys
    <2>2. ASSUME NEW d \in Command
          PROVE  UniqueKeys(mem'[d])
      BY <1>0, <1>e, <2>1 DEF UniqueEverywhere, End, TypeOK
    <2> QED
      BY <1>e, <2>2 DEF UniqueEverywhere
  <1>2. ASSUME NEW c \in Command, NEW o \in Ops, Load(c, o)
        PROVE  UniqueEverywhere'
    BY <1>0, <1>2 DEF Load, UniqueEverywhere, TypeOK
  <1>3. ASSUME NEW c \in Command, NEW k \in KeyId, NEW r \in KeyRecord,
               RegisterKey(c, k, r) \/ RotateKey(c, k, r)
        PROVE  UniqueEverywhere'
    <2>1. Register(c, k, r) /\ mem[c] \in Registry /\ UniqueKeys(mem[c])
      BY <1>0, <1>3 DEF RegisterKey, RotateKey, TypeOK, UniqueEverywhere
    <2>2. PICK reg \in Registry :
             /\ Rotation(mem[c], r, reg)
             /\ \/ Insertable(reg, k, r) /\ Change(c, Put(reg, k, r), "changed")
                \/ Change(c, reg, "refused")
      BY <1>0, <2>1, RegisterIs
    <2>3. UniqueKeys(reg)
      BY <2>1, <2>2, UniqueRotation
    <2> QED
      BY <2>2, <2>3, <1>c, UniqueKept
  <1>4. ASSUME NEW c \in Command, NEW k \in KeyId, NEW r \in KeyRecord, ImportEntry(c, k, r)
        PROVE  UniqueEverywhere'
    <2>1. PICK reg \in Registry :
             /\ reg = Without(mem[c], k)
             /\ \/ Change(c, mem[c], "changed")
                \/ Insertable(reg, k, r) /\ Change(c, Put(reg, k, r), "changed")
                \/ Change(c, reg, "refused")
      BY <1>0, <1>4, ImportIs
    <2>2. UniqueKeys(mem[c]) /\ UniqueKeys(reg)
      BY <1>0, <2>1, UniqueKept DEF UniqueEverywhere, TypeOK
    <2> QED
      BY <2>1, <2>2, <1>c, UniqueKept
  <1>5. ASSUME NEW c \in Command, NEW k \in KeyId, RevokeKey(c, k) \/ DisableKey(c, k)
        PROVE  UniqueEverywhere'
    <2>1. PICK s \in {"revoked", "disabled"} : Change(c, SetState(mem[c], k, s), "changed")
      BY <1>0, <1>5, WithdrawIs
    <2>2. s \in KeyState /\ k \in DOMAIN mem[c] /\ mem[c] \in Registry /\ UniqueKeys(mem[c])
      BY <1>0, <1>5, WithdrawIs DEF KeyState, TypeOK, UniqueEverywhere
    <2> QED
      BY <2>1, <2>2, <1>c, UniqueKept
  <1>6. ASSUME NEW c \in Command, Save(c)
        PROVE  UniqueEverywhere'
    BY <1>6, <1>e DEF Save, UniqueEverywhere
  <1>7. ASSUME NEW c \in Command, GiveUp(c)
        PROVE  UniqueEverywhere'
    BY <1>7, <1>e DEF GiveUp, UniqueEverywhere
  <1> QED
    BY <1>1, <1>2, <1>3, <1>4, <1>5, <1>6, <1>7 DEF Next

\* An empty registry has no two keys.
LEMMA UniqueInit == Init => UniqueEverywhere
  BY EmptyIsRegistry DEF Init, UniqueEverywhere, UniqueKeys

\* Whatever commands overlap, fail or import, load never refuses the file that
\* save has left.
THEOREM FileLoads == Spec => []FileCanBeLoaded
  <1>1. Spec => [](TypeInv /\ UniqueEverywhere)
    BY TypeInit, TypeNext, UniqueInit, UniqueNext, PTL DEF Spec
  <1>2. UniqueEverywhere => FileCanBeLoaded
    BY DEF UniqueEverywhere, FileCanBeLoaded
  <1> QED
    BY <1>1, <1>2, PTL

----------------------------------------------------------------------------
(* One active key *)

OneActive(reg) == \A n \in Node : \A i, j \in ActiveKeys(reg, n) : i = j

NoImport == \A c \in Command : op[c] \notin {"import", "overwrite"}

OneActiveInv ==
    /\ NoImport
    /\ OneActive(file)
    /\ \A c \in Command : OneActive(mem[c])

\* Taking a key out of the active state keeps a registry with one active key.
LEMMA WithdrawnOneActive ==
    ASSUME NEW reg \in Registry, OneActive(reg), NEW k \in DOMAIN reg,
           NEW s \in KeyState \ {"active"}
    PROVE  OneActive(SetState(reg, k, s))
  <1> DEFINE new == SetState(reg, k, s)
  <1>1. /\ DOMAIN new = DOMAIN reg
        /\ \A i \in DOMAIN reg : i # k => new[i] = reg[i]
        /\ new[k].state = s
    BY SetStateRegistry
  <1> HIDE DEF new
  <1>2. \A n \in Node : ActiveKeys(new, n) \subseteq ActiveKeys(reg, n)
    BY <1>1 DEF ActiveKeys, ForNode
  <1>3. OneActive(new)
    BY <1>2 DEF OneActive
  <1> QED
    BY <1>3 DEF new

\* The registry register prepares has one active key, and none for the node
\* when the new key is to be the active one.
LEMMA RotationOneActive ==
    ASSUME NEW old \in Registry, OneActive(old), NEW r \in KeyRecord,
           NEW reg \in Registry, Rotation(old, r, reg)
    PROVE  /\ OneActive(reg)
           /\ r.state = "active" => ActiveKeys(reg, r.node) = {}
  <1>1. CASE reg = old /\ (r.state = "active" => ActiveKeys(old, r.node) = {})
    BY <1>1
  <1>2. ASSUME NEW i \in ActiveKeys(old, r.node), reg = SetState(old, i, "rotated")
        PROVE  OneActive(reg) /\ ActiveKeys(reg, r.node) = {}
    <2>1. i \in DOMAIN old /\ "rotated" \in KeyState \ {"active"} /\ r.node \in Node
      BY DEF ActiveKeys, ForNode, KeyState, KeyRecord
    <2>2. /\ DOMAIN reg = DOMAIN old
          /\ \A j \in DOMAIN old : j # i => reg[j] = old[j]
          /\ reg[i].state = "rotated"
      BY <1>2, <2>1, SetStateRegistry
    <2>3. ActiveKeys(reg, r.node) \subseteq ActiveKeys(old, r.node) \ {i}
      BY <2>2 DEF ActiveKeys, ForNode
    <2>4. ActiveKeys(reg, r.node) = {}
      BY <2>1, <2>3 DEF OneActive
    <2>5. OneActive(reg)
      BY <1>2, <2>1, WithdrawnOneActive
    <2> QED
      BY <2>4, <2>5
  <1> QED
    BY <1>1, <1>2 DEF Rotation

\* Inserting the record register was asked for keeps one active key.
LEMMA InsertedOneActive ==
    ASSUME NEW reg \in Registry, OneActive(reg), NEW k \in KeyId, NEW r \in KeyRecord,
           r.state = "active" => ActiveKeys(reg, r.node) = {}, Insertable(reg, k, r)
    PROVE  OneActive(Put(reg, k, r))
  <1> DEFINE new == Put(reg, k, r)
  <1>1. /\ DOMAIN new = DOMAIN reg \cup {k} /\ new[k] = r
        /\ \A i \in DOMAIN reg : i # k => new[i] = reg[i]
    BY PutRegistry, ZenonT(60)
  <1> HIDE DEF new
  <1>2. ASSUME NEW n \in Node, NEW i \in ActiveKeys(new, n), NEW j \in ActiveKeys(new, n)
        PROVE  i = j
    <2>1. ASSUME NEW x \in ActiveKeys(new, n), x # k
          PROVE  x \in ActiveKeys(reg, n)
      BY <1>1, <2>1 DEF ActiveKeys, ForNode
    <2>2. k \in ActiveKeys(new, n) => r.state = "active" /\ r.node = n
      BY <1>1 DEF ActiveKeys, ForNode
    <2> QED
      BY <1>2, <2>1, <2>2 DEF OneActive
  <1>3. OneActive(new)
    BY <1>2 DEF OneActive
  <1> QED
    BY <1>3 DEF new

\* Every step keeps one active key per node, in the file and in every command.
LEMMA OneActiveNext ==
    ASSUME Ops \cap {"import", "overwrite"} = {}
    PROVE  TypeInv /\ OneActiveInv /\ [Next]_vars => OneActiveInv'
  <1> SUFFICES ASSUME TypeInv, OneActiveInv, [Next]_vars
               PROVE  OneActiveInv'
    OBVIOUS
  <1>0. TypeOK
    BY DEF TypeInv
  <1>1. CASE UNCHANGED vars
    BY <1>1 DEF vars, OneActiveInv, NoImport
  <1>c. ASSUME NEW c \in Command, NEW reg, NEW label, Change(c, reg, label), OneActive(reg)
        PROVE  OneActiveInv'
    <2>1. OneActive(file') /\ NoImport'
      BY <1>c DEF OneActiveInv, NoImport, Change
    <2>2. ASSUME NEW d \in Command
          PROVE  OneActive(mem'[d])
      BY <1>0, <1>c DEF OneActiveInv, Change, TypeOK
    <2> QED
      BY <2>1, <2>2 DEF OneActiveInv
  <1>e. ASSUME NEW c \in Command, End(c), OneActive(file')
        PROVE  OneActiveInv'
    <2>1. OneActive(EmptyRegistry)
      BY EmptyIsRegistry DEF OneActive, ActiveKeys, ForNode
    <2>2. ASSUME NEW d \in Command
          PROVE  OneActive(mem'[d])
      BY <1>0, <1>e, <2>1 DEF OneActiveInv, End, TypeOK
    <2>3. NoImport'
      BY <1>0, <1>e DEF OneActiveInv, NoImport, End, TypeOK
    <2> QED
      BY <1>e, <2>2, <2>3 DEF OneActiveInv
  <1>2. ASSUME NEW c \in Command, NEW o \in Ops, Load(c, o)
        PROVE  OneActiveInv'
    <2>1. o \notin {"import", "overwrite"}
      OBVIOUS
    <2> QED
      BY <1>0, <1>2, <2>1 DEF Load, OneActiveInv, NoImport, TypeOK
  <1>3. ASSUME NEW c \in Command, NEW k \in KeyId, NEW r \in KeyRecord,
               RegisterKey(c, k, r) \/ RotateKey(c, k, r)
        PROVE  OneActiveInv'
    <2>1. Register(c, k, r) /\ mem[c] \in Registry /\ OneActive(mem[c])
      BY <1>0, <1>3 DEF RegisterKey, RotateKey, TypeOK, OneActiveInv
    <2>2. PICK reg \in Registry :
             /\ Rotation(mem[c], r, reg)
             /\ \/ Insertable(reg, k, r) /\ Change(c, Put(reg, k, r), "changed")
                \/ Change(c, reg, "refused")
      BY <1>0, <2>1, RegisterIs
    <2>3. OneActive(reg) /\ (r.state = "active" => ActiveKeys(reg, r.node) = {})
      BY <2>1, <2>2, RotationOneActive
    <2> QED
      BY <2>2, <2>3, <1>c, InsertedOneActive
  <1>4. ASSUME NEW c \in Command, NEW k \in KeyId, NEW r \in KeyRecord, ImportEntry(c, k, r)
        PROVE  OneActiveInv'
    BY <1>4 DEF ImportEntry, OneActiveInv, NoImport
  <1>5. ASSUME NEW c \in Command, NEW k \in KeyId, RevokeKey(c, k) \/ DisableKey(c, k)
        PROVE  OneActiveInv'
    <2>1. PICK s \in {"revoked", "disabled"} : Change(c, SetState(mem[c], k, s), "changed")
      BY <1>0, <1>5, WithdrawIs
    <2>2. /\ s \in KeyState \ {"active"} /\ k \in DOMAIN mem[c]
          /\ mem[c] \in Registry /\ OneActive(mem[c])
      BY <1>0, <1>5, WithdrawIs DEF KeyState, TypeOK, OneActiveInv
    <2> QED
      BY <2>1, <2>2, <1>c, WithdrawnOneActive
  <1>6. ASSUME NEW c \in Command, Save(c)
        PROVE  OneActiveInv'
    BY <1>6, <1>e DEF Save, OneActiveInv
  <1>7. ASSUME NEW c \in Command, GiveUp(c)
        PROVE  OneActiveInv'
    BY <1>7, <1>e DEF GiveUp, OneActiveInv
  <1> QED
    BY <1>1, <1>2, <1>3, <1>4, <1>5, <1>6, <1>7 DEF Next

\* An empty registry has no active key.
LEMMA OneActiveInit == Init => OneActiveInv
  BY EmptyIsRegistry DEF Init, OneActiveInv, NoImport, OneActive, ActiveKeys, ForNode

\* Where nothing is imported, no overlap of register, rotate, revoke and disable
\* commands gives a node two active keys.
THEOREM OneActiveKeyHolds ==
    ASSUME Ops \cap {"import", "overwrite"} = {}
    PROVE  Spec => []OneActiveKey
  <1>1. TypeInv /\ OneActiveInv /\ [Next]_vars => OneActiveInv'
    BY OneActiveNext
  <1>2. Spec => [](TypeInv /\ OneActiveInv)
    BY <1>1, TypeInit, TypeNext, OneActiveInit, PTL DEF Spec
  <1>3. OneActiveInv => OneActiveKey
    BY DEF OneActiveInv, OneActive, OneActiveKey
  <1> QED
    BY <1>2, <1>3, PTL

----------------------------------------------------------------------------
(* Revocation *)

\* Commands run one after another, and none overwrites.
OneAtATime ==
    /\ \A c, d \in Command : pc[c] # "idle" /\ pc[d] # "idle" => c = d
    /\ \A c \in Command : op[c] # "overwrite"

\* reg refuses every public key of R, and still has a record of each.
Refuses(reg, R) ==
    /\ \A k \in DOMAIN reg : reg[k].public_key \in R => reg[k].state \in {"revoked", "disabled"}
    /\ \A q \in R : \E k \in DOMAIN reg : reg[k].public_key = q

RevocationInv ==
    /\ OneAtATime
    /\ Refuses(file, revoked)
    /\ \A c \in Command : pc[c] # "idle" => Refuses(mem[c], revoked)

\* Withdrawing a key, inserting a new one and rotating an active one all leave
\* the revoked keys refused.
LEMMA RefusesKept ==
    ASSUME NEW reg \in Registry, NEW R, Refuses(reg, R), NEW k \in KeyId
    PROVE  /\ \A s \in {"revoked", "disabled"} :
                 k \in DOMAIN reg => Refuses(SetState(reg, k, s), R)
           /\ k \in DOMAIN reg /\ reg[k].state = "active" => Refuses(SetState(reg, k, "rotated"), R)
           /\ \A r \in KeyRecord : Insertable(reg, k, r) => Refuses(Put(reg, k, r), R)
  <1>1. ASSUME k \in DOMAIN reg, NEW s \in {"revoked", "disabled", "rotated"},
               s = "rotated" => reg[k].state = "active"
        PROVE  Refuses(SetState(reg, k, s), R)
    <2> DEFINE new == SetState(reg, k, s)
    <2>1. /\ DOMAIN new = DOMAIN reg
          /\ \A i \in DOMAIN reg : i # k => new[i] = reg[i]
          /\ new[k].state = s
          /\ \A i \in DOMAIN reg : new[i].public_key = reg[i].public_key
      <3>1. s \in KeyState
        BY DEF KeyState
      <3> QED
        BY <1>1, <3>1, SetStateRegistry
    <2> HIDE DEF new
    <2>2. \A i \in DOMAIN new : new[i].public_key \in R => new[i].state \in {"revoked", "disabled"}
      BY <1>1, <2>1 DEF Refuses
    <2>3. \A q \in R : \E i \in DOMAIN new : new[i].public_key = q
      BY <2>1 DEF Refuses
    <2>4. Refuses(new, R)
      BY <2>2, <2>3 DEF Refuses
    <2> QED
      BY <2>4 DEF new
  <1>2. ASSUME NEW r \in KeyRecord, Insertable(reg, k, r)
        PROVE  Refuses(Put(reg, k, r), R)
    <2> DEFINE new == Put(reg, k, r)
    <2>1. /\ DOMAIN new = DOMAIN reg \cup {k} /\ new[k] = r /\ k \notin DOMAIN reg
          /\ \A i \in DOMAIN reg : new[i] = reg[i]
      BY <1>2, PutRegistry DEF Insertable
    <2> HIDE DEF new
    <2>2. r.public_key \notin R
      BY <1>2 DEF Refuses, Insertable
    <2>3. \A i \in DOMAIN new : new[i].public_key \in R => new[i].state \in {"revoked", "disabled"}
      BY <2>1, <2>2 DEF Refuses
    <2>4. \A q \in R : \E i \in DOMAIN new : new[i].public_key = q
      BY <2>1 DEF Refuses
    <2>5. Refuses(new, R)
      BY <2>3, <2>4 DEF Refuses
    <2> QED
      BY <2>5 DEF new
  <1> QED
    BY <1>1, <1>2

\* The registry register prepares refuses the revoked keys.
LEMMA RefusesRotation ==
    ASSUME NEW old \in Registry, NEW R, Refuses(old, R), NEW r \in KeyRecord,
           NEW reg, Rotation(old, r, reg)
    PROVE  Refuses(reg, R)
  <1>1. CASE reg = old
    BY <1>1
  <1>2. ASSUME NEW i \in ActiveKeys(old, r.node), reg = SetState(old, i, "rotated")
        PROVE  Refuses(reg, R)
    <2>1. i \in DOMAIN old /\ i \in KeyId /\ old[i].state = "active"
      BY RegistryIs DEF ActiveKeys, ForNode
    <2> QED
      BY <1>2, <2>1, RefusesKept
  <1> QED
    BY <1>1, <1>2 DEF Rotation

\* Every step of commands that run one after another keeps RevocationInv.
LEMMA RevocationNext ==
    ASSUME Serial = TRUE, "overwrite" \notin Ops
    PROVE  TypeInv /\ UniqueEverywhere /\ RevocationInv /\ [Next]_vars => RevocationInv'
  <1> SUFFICES ASSUME TypeInv, UniqueEverywhere, RevocationInv, [Next]_vars
               PROVE  RevocationInv'
    OBVIOUS
  <1>0. TypeOK /\ Targets
    BY DEF TypeInv
  <1>1. CASE UNCHANGED vars
    BY <1>1 DEF vars, RevocationInv, OneAtATime
  <1>c. ASSUME NEW c \in Command, NEW reg, NEW label \in {"changed", "refused"},
               Change(c, reg, label), Refuses(reg, revoked), pc[c] # "idle"
        PROVE  RevocationInv'
    <2>1. /\ file' = file /\ op' = op /\ revoked' = revoked
          /\ \A d \in Command : d # c => pc'[d] = pc[d] /\ mem'[d] = mem[d]
          /\ mem'[c] = reg
      BY <1>0, <1>c DEF Change, TypeOK
    <2>2. OneAtATime'
      BY <1>c, <2>1 DEF RevocationInv, OneAtATime
    <2>3. ASSUME NEW d \in Command, pc'[d] # "idle"
          PROVE  Refuses(mem'[d], revoked')
      BY <1>c, <2>1, <2>3 DEF RevocationInv
    <2> QED
      BY <2>1, <2>2, <2>3 DEF RevocationInv
  <1>e. ASSUME NEW c \in Command, End(c), pc[c] # "idle", Refuses(file', revoked')
        PROVE  RevocationInv'
    <2>1. \A d \in Command : pc'[d] = "idle" /\ op'[d] # "overwrite"
      BY <1>0, <1>e DEF End, RevocationInv, OneAtATime, TypeOK
    <2> QED
      BY <1>e, <2>1 DEF RevocationInv, OneAtATime
  <1>2. ASSUME NEW c \in Command, NEW o \in Ops, Load(c, o)
        PROVE  RevocationInv'
    <2>1. \A d \in Command : pc[d] = "idle"
      BY <1>2 DEF Load, MayStart
    <2>2. /\ file' = file /\ revoked' = revoked /\ mem'[c] = file
          /\ \A d \in Command : d # c => pc'[d] = "idle" /\ op'[d] = op[d]
          /\ op'[c] = o /\ o # "overwrite"
      BY <1>0, <1>2, <2>1 DEF Load, TypeOK
    <2>3. OneAtATime'
      BY <2>2 DEF RevocationInv, OneAtATime
    <2>4. ASSUME NEW d \in Command, pc'[d] # "idle"
          PROVE  Refuses(mem'[d], revoked')
      BY <2>2, <2>4 DEF RevocationInv
    <2> QED
      BY <2>2, <2>3, <2>4 DEF RevocationInv
  <1>3. ASSUME NEW c \in Command, NEW k \in KeyId, NEW r \in KeyRecord,
               RegisterKey(c, k, r) \/ RotateKey(c, k, r)
        PROVE  RevocationInv'
    <2>1. /\ Register(c, k, r) /\ mem[c] \in Registry /\ pc[c] # "idle"
          /\ Refuses(mem[c], revoked)
      BY <1>0, <1>3 DEF RegisterKey, RotateKey, Running, TypeOK, RevocationInv
    <2>2. PICK reg \in Registry :
             /\ Rotation(mem[c], r, reg)
             /\ \/ Insertable(reg, k, r) /\ Change(c, Put(reg, k, r), "changed")
                \/ Change(c, reg, "refused")
      BY <1>0, <2>1, RegisterIs
    <2>3. Refuses(reg, revoked)
      BY <2>1, <2>2, RefusesRotation
    <2>4. Insertable(reg, k, r) => Refuses(Put(reg, k, r), revoked)
      BY <2>3, RefusesKept
    <2> QED
      BY <2>1, <2>2, <2>3, <2>4, <1>c
  <1>4. ASSUME NEW c \in Command, NEW k \in KeyId, NEW r \in KeyRecord, ImportEntry(c, k, r)
        PROVE  RevocationInv'
    <2>1. mem[c] \in Registry /\ pc[c] # "idle" /\ Refuses(mem[c], revoked) /\ op[c] # "overwrite"
      BY <1>0, <1>4 DEF ImportEntry, TypeOK, RevocationInv, OneAtATime
    <2>2. \/ Change(c, mem[c], "changed")
          \/ Insertable(mem[c], k, r) /\ Change(c, Put(mem[c], k, r), "changed")
          \/ Change(c, mem[c], "refused")
      BY <1>0, <1>4, <2>1, ImportIs
    <2>3. Insertable(mem[c], k, r) => Refuses(Put(mem[c], k, r), revoked)
      BY <2>1, RefusesKept
    <2> QED
      BY <2>1, <2>2, <2>3, <1>c
  <1>5. ASSUME NEW c \in Command, NEW k \in KeyId, RevokeKey(c, k) \/ DisableKey(c, k)
        PROVE  RevocationInv'
    <2>1. PICK s \in {"revoked", "disabled"} : Change(c, SetState(mem[c], k, s), "changed")
      BY <1>0, <1>5, WithdrawIs
    <2>2. pc[c] = "loaded" /\ k \in DOMAIN mem[c]
      BY <1>0, <1>5, WithdrawIs
    <2>3. mem[c] \in Registry /\ Refuses(mem[c], revoked)
      BY <1>0, <2>2 DEF TypeOK, RevocationInv
    <2>4. Refuses(SetState(mem[c], k, s), revoked)
      BY <2>2, <2>3, RefusesKept
    <2> QED
      BY <2>1, <2>2, <2>4, <1>c
  <1>6. ASSUME NEW c \in Command, Save(c)
        PROVE  RevocationInv'
    <2> DEFINE new == {mem[c][k].public_key : k \in target[c]}
    <2>1. Refuses(mem[c], revoked) /\ UniqueKeys(mem[c])
      BY <1>6 DEF Save, RevocationInv, UniqueEverywhere
    <2>2. \A k \in target[c] : k \in DOMAIN mem[c]
                               /\ mem[c][k].state \in {"revoked", "disabled"}
      BY <1>0 DEF Targets
    <2>3. Refuses(mem[c], revoked \cup new)
      BY <2>1, <2>2 DEF Refuses, UniqueKeys
    <2>4. Refuses(file', revoked')
      BY <1>6, <2>1, <2>3 DEF Save
    <2> QED
      BY <1>6, <2>4, <1>e DEF Save
  <1>7. ASSUME NEW c \in Command, GiveUp(c)
        PROVE  RevocationInv'
    BY <1>7, <1>e DEF GiveUp, RevocationInv
  <1> QED
    BY <1>1, <1>2, <1>3, <1>4, <1>5, <1>6, <1>7 DEF Next

\* At the start nothing is revoked and nobody runs.
LEMMA RevocationInit == Init => RevocationInv
  BY DEF Init, RevocationInv, OneAtATime, Refuses

\* When commands do not overlap and no import overwrites, a public key text whose
\* revocation was reported is refused for every event from then on: no later
\* registration, rotation, disabling or import of any record brings the text back.
THEOREM RevocationIsFinal ==
    ASSUME Serial = TRUE, "overwrite" \notin Ops
    PROVE  Spec => []RevocationHolds
  <1>1. TypeInv /\ UniqueEverywhere /\ RevocationInv /\ [Next]_vars => RevocationInv'
    BY RevocationNext
  <1>2. Spec => [](TypeInv /\ UniqueEverywhere /\ RevocationInv)
    BY <1>1, TypeInit, TypeNext, UniqueInit, UniqueNext, RevocationInit, PTL DEF Spec
  <1>3. RevocationInv => RevocationHolds
    BY DEF RevocationInv, Refuses, RevocationHolds, Problems
  <1> QED
    BY <1>2, <1>3, PTL

----------------------------------------------------------------------------
(* Revocation of a key, whatever its text *)

\* Every public key of reg is written down the way b64encode does.
CanonicalTexts(reg) == \A k \in DOMAIN reg : reg[k].public_key.form = Canonical

CanonicalInv ==
    /\ NoImport
    /\ CanonicalTexts(file)
    /\ \A c \in Command : CanonicalTexts(mem[c])
    /\ \A q \in revoked : q.form = Canonical

\* Changing states and inserting a canonical text keep texts canonical.
LEMMA CanonicalKept ==
    ASSUME NEW reg \in Registry, CanonicalTexts(reg), NEW k \in KeyId
    PROVE  /\ \A s \in KeyState : k \in DOMAIN reg => CanonicalTexts(SetState(reg, k, s))
           /\ \A r \in KeyRecord : r.public_key.form = Canonical => CanonicalTexts(Put(reg, k, r))
  <1>1. ASSUME NEW s \in KeyState, k \in DOMAIN reg
        PROVE  CanonicalTexts(SetState(reg, k, s))
    BY <1>1, SetStateRegistry DEF CanonicalTexts
  <1>2. ASSUME NEW r \in KeyRecord, r.public_key.form = Canonical
        PROVE  CanonicalTexts(Put(reg, k, r))
    <2> DEFINE new == Put(reg, k, r)
    <2>1. /\ DOMAIN new = DOMAIN reg \cup {k} /\ new[k] = r
          /\ \A i \in DOMAIN reg : i # k => new[i] = reg[i]
      BY PutRegistry
    <2> HIDE DEF new
    <2>2. CanonicalTexts(new)
      BY <1>2, <2>1 DEF CanonicalTexts
    <2> QED
      BY <2>2 DEF new
  <1> QED
    BY <1>1, <1>2

\* The registry register prepares has the texts it had.
LEMMA CanonicalRotation ==
    ASSUME NEW old \in Registry, CanonicalTexts(old), NEW r \in KeyRecord,
           NEW reg, Rotation(old, r, reg)
    PROVE  CanonicalTexts(reg)
  <1>1. CASE reg = old
    BY <1>1
  <1>2. ASSUME NEW i \in ActiveKeys(old, r.node), reg = SetState(old, i, "rotated")
        PROVE  CanonicalTexts(reg)
    <2>1. i \in DOMAIN old /\ i \in KeyId /\ "rotated" \in KeyState
      BY RegistryIs DEF ActiveKeys, ForNode, KeyState
    <2> QED
      BY <1>2, <2>1, CanonicalKept
  <1> QED
    BY <1>1, <1>2 DEF Rotation

\* Where nothing is imported, every text stays canonical.
LEMMA CanonicalNext ==
    ASSUME Ops \cap {"import", "overwrite"} = {}
    PROVE  TypeInv /\ CanonicalInv /\ [Next]_vars => CanonicalInv'
  <1> SUFFICES ASSUME TypeInv, CanonicalInv, [Next]_vars
               PROVE  CanonicalInv'
    OBVIOUS
  <1>0. TypeOK /\ Targets
    BY DEF TypeInv
  <1>1. CASE UNCHANGED vars
    BY <1>1 DEF vars, CanonicalInv, NoImport
  <1>c. ASSUME NEW c \in Command, NEW reg, NEW label, Change(c, reg, label), CanonicalTexts(reg)
        PROVE  CanonicalInv'
    <2>1. CanonicalTexts(file') /\ NoImport' /\ revoked' = revoked
      BY <1>c DEF CanonicalInv, NoImport, Change
    <2>2. ASSUME NEW d \in Command
          PROVE  CanonicalTexts(mem'[d])
      BY <1>0, <1>c DEF CanonicalInv, Change, TypeOK
    <2> QED
      BY <2>1, <2>2 DEF CanonicalInv
  <1>e. ASSUME NEW c \in Command, End(c), CanonicalTexts(file'),
               \A q \in revoked' : q.form = Canonical
        PROVE  CanonicalInv'
    <2>1. CanonicalTexts(EmptyRegistry)
      BY EmptyIsRegistry DEF CanonicalTexts
    <2>2. ASSUME NEW d \in Command
          PROVE  CanonicalTexts(mem'[d])
      BY <1>0, <1>e, <2>1 DEF CanonicalInv, End, TypeOK
    <2>3. NoImport'
      BY <1>0, <1>e DEF CanonicalInv, NoImport, End, TypeOK
    <2> QED
      BY <1>e, <2>2, <2>3 DEF CanonicalInv
  <1>2. ASSUME NEW c \in Command, NEW o \in Ops, Load(c, o)
        PROVE  CanonicalInv'
    <2>1. o \notin {"import", "overwrite"}
      OBVIOUS
    <2> QED
      BY <1>0, <1>2, <2>1 DEF Load, CanonicalInv, NoImport, TypeOK
  <1>3. ASSUME NEW c \in Command, NEW k \in KeyId, NEW r \in KeyRecord,
               RegisterKey(c, k, r) \/ RotateKey(c, k, r)
        PROVE  CanonicalInv'
    <2>1. /\ Register(c, k, r) /\ mem[c] \in Registry /\ CanonicalTexts(mem[c])
          /\ r.public_key.form = Canonical
      BY <1>0, <1>3 DEF RegisterKey, RotateKey, Register, TypeOK, CanonicalInv
    <2>2. PICK reg \in Registry :
             /\ Rotation(mem[c], r, reg)
             /\ \/ Insertable(reg, k, r) /\ Change(c, Put(reg, k, r), "changed")
                \/ Change(c, reg, "refused")
      BY <1>0, <2>1, RegisterIs
    <2>3. CanonicalTexts(reg)
      BY <2>1, <2>2, CanonicalRotation
    <2> QED
      BY <2>1, <2>2, <2>3, <1>c, CanonicalKept
  <1>4. ASSUME NEW c \in Command, NEW k \in KeyId, NEW r \in KeyRecord, ImportEntry(c, k, r)
        PROVE  CanonicalInv'
    BY <1>4 DEF ImportEntry, CanonicalInv, NoImport
  <1>5. ASSUME NEW c \in Command, NEW k \in KeyId, RevokeKey(c, k) \/ DisableKey(c, k)
        PROVE  CanonicalInv'
    <2>1. PICK s \in {"revoked", "disabled"} : Change(c, SetState(mem[c], k, s), "changed")
      BY <1>0, <1>5, WithdrawIs
    <2>2. /\ s \in KeyState /\ k \in DOMAIN mem[c]
          /\ mem[c] \in Registry /\ CanonicalTexts(mem[c])
      BY <1>0, <1>5, WithdrawIs DEF KeyState, TypeOK, CanonicalInv
    <2> QED
      BY <2>1, <2>2, <1>c, CanonicalKept
  <1>6. ASSUME NEW c \in Command, Save(c)
        PROVE  CanonicalInv'
    <2>1. CanonicalTexts(mem[c]) /\ target[c] \subseteq DOMAIN mem[c]
      BY <1>0 DEF CanonicalInv, Targets
    <2>2. \A q \in revoked' : q.form = Canonical
      BY <1>6, <2>1 DEF Save, CanonicalInv, CanonicalTexts
    <2> QED
      BY <1>6, <1>e, <2>1, <2>2 DEF Save
  <1>7. ASSUME NEW c \in Command, GiveUp(c)
        PROVE  CanonicalInv'
    BY <1>7, <1>e DEF GiveUp, CanonicalInv
  <1> QED
    BY <1>1, <1>2, <1>3, <1>4, <1>5, <1>6, <1>7 DEF Next

\* At the start there is no text.
LEMMA CanonicalInit == Init => CanonicalInv
  BY EmptyIsRegistry DEF Init, CanonicalInv, NoImport, CanonicalTexts

\* Two canonical texts of one key are one text, so refusing the text refuses the key.
LEMMA CanonicalRefused ==
    TypeInv /\ CanonicalInv /\ RevocationHolds => RevokedKeyRefused
  <1> SUFFICES ASSUME TypeInv, CanonicalInv, RevocationHolds, NEW k \in DOMAIN file,
                      NEW q \in revoked, NEW n \in Node, NEW t \in Time, NEW a \in Algorithm,
                      PublicKeyBytes(file[k].public_key) = PublicKeyBytes(q)
               PROVE  "pqc_revoked_key" \in Problems(file, k, n, t, a)
    BY DEF RevokedKeyRefused
  <1>1. file[k].public_key \in KeyText /\ q \in KeyText
    BY RegistryIs DEF TypeInv, TypeOK, KeyRecord
  <1>2. file[k].public_key.form = Canonical /\ q.form = Canonical
    BY DEF CanonicalInv, CanonicalTexts
  <1>3. file[k].public_key = q
    BY <1>1, <1>2 DEF KeyText, PublicKeyBytes
  <1> QED
    BY <1>3 DEF RevocationHolds

\* When commands do not overlap and nothing is imported, the revoked key itself is
\* refused, whatever record carries it.  An import can write the same key down in
\* another text, which _insert takes for another key.
THEOREM RevokedKeyIsRefused ==
    ASSUME Serial = TRUE, Ops \cap {"import", "overwrite"} = {}
    PROVE  Spec => []RevokedKeyRefused
  <1>1. TypeInv /\ CanonicalInv /\ [Next]_vars => CanonicalInv'
    BY CanonicalNext
  <1>2. Spec => []RevocationHolds
    BY RevocationIsFinal
  <1>3. Spec => [](TypeInv /\ CanonicalInv)
    BY <1>1, TypeInit, TypeNext, CanonicalInit, PTL DEF Spec
  <1> QED
    BY <1>2, <1>3, CanonicalRefused, PTL

----------------------------------------------------------------------------
(* History keeps verifying *)

\* new has every record of old; outside T it differs in a rotation at most.
Keeps(old, new, T) ==
    \A k \in DOMAIN old :
        /\ k \in DOMAIN new
        /\ new[k].node = old[k].node
        /\ new[k].algorithm = old[k].algorithm
        /\ new[k].activated = old[k].activated
        /\ new[k].expires = old[k].expires
        /\ \/ new[k].state = old[k].state
           \/ old[k].state = "active" /\ new[k].state = "rotated"
           \/ k \in T

\* A node of old loses its active keys in new only if all of them are in T.
KeepsActive(old, new, T) ==
    \A n \in Node : ActiveKeys(old, n) # {} /\ ActiveKeys(new, n) = {} => ActiveKeys(old, n) \subseteq T

HistoryInv ==
    /\ OneAtATime
    /\ \A c \in Command :
          /\ pc[c] = "loaded" => mem[c] = file
          /\ pc[c] # "idle" => Keeps(file, mem[c], target[c])
          /\ pc[c] = "changed" => KeepsActive(file, mem[c], target[c])

\* What register prepares and inserts keeps every record, and an active key
\* for every node that has one.
LEMMA RegisterKeeps ==
    ASSUME NEW old \in Registry, NEW k \in KeyId, NEW r \in KeyRecord,
           NEW reg \in Registry, Rotation(old, r, reg)
    PROVE  /\ Keeps(old, reg, {})
           /\ Insertable(reg, k, r) => /\ Keeps(old, Put(reg, k, r), {})
                                       /\ KeepsActive(old, Put(reg, k, r), {})
  <1>1. /\ DOMAIN reg = DOMAIN old
        /\ \A j \in DOMAIN old : \/ reg[j] = old[j]
                                 \/ /\ r.state = "active" /\ old[j].node = r.node
                                    /\ old[j].state = "active" /\ reg[j].state = "rotated"
        /\ Keeps(old, reg, {})
    <2>1. CASE reg = old
      BY <2>1 DEF Keeps
    <2>2. ASSUME r.state = "active", NEW i \in ActiveKeys(old, r.node), reg = SetState(old, i, "rotated")
          PROVE  /\ DOMAIN reg = DOMAIN old
                 /\ \A j \in DOMAIN old : \/ reg[j] = old[j]
                                          \/ /\ r.state = "active" /\ old[j].node = r.node
                                             /\ old[j].state = "active" /\ reg[j].state = "rotated"
                 /\ Keeps(old, reg, {})
      <3>1. i \in DOMAIN old /\ old[i].state = "active" /\ old[i].node = r.node /\ "rotated" \in KeyState
        BY DEF ActiveKeys, ForNode, KeyState
      <3>2. /\ DOMAIN reg = DOMAIN old
            /\ \A j \in DOMAIN old : j # i => reg[j] = old[j]
            /\ reg[i].state = "rotated"
            /\ reg[i].node = old[i].node /\ reg[i].algorithm = old[i].algorithm
            /\ reg[i].activated = old[i].activated /\ reg[i].expires = old[i].expires
        BY <2>2, <3>1, SetStateRegistry
      <3> QED
        BY <2>2, <3>1, <3>2 DEF Keeps
    <2> QED
      BY <2>1, <2>2 DEF Rotation
  <1>2. ASSUME Insertable(reg, k, r)
        PROVE  Keeps(old, Put(reg, k, r), {}) /\ KeepsActive(old, Put(reg, k, r), {})
    <2> DEFINE new == Put(reg, k, r)
    <2>1. /\ DOMAIN new = DOMAIN reg \cup {k} /\ new[k] = r /\ k \notin DOMAIN reg
          /\ \A i \in DOMAIN reg : new[i] = reg[i]
      <3>1. k \notin DOMAIN reg
        BY <1>2 DEF Insertable
      <3>2. /\ DOMAIN new = DOMAIN reg \cup {k} /\ new[k] = r
            /\ \A i \in DOMAIN reg : i # k => new[i] = reg[i]
        BY PutRegistry
      <3> QED
        BY <3>1, <3>2
    <2> HIDE DEF new
    <2>2. Keeps(old, new, {})
      BY <1>1, <2>1 DEF Keeps
    <2>3. ASSUME NEW n \in Node, NEW i \in ActiveKeys(old, n)
          PROVE  ActiveKeys(new, n) # {}
      <3>1. i \in DOMAIN old /\ old[i].node = n /\ old[i].state = "active"
        BY <2>3 DEF ActiveKeys, ForNode
      <3>2. CASE reg[i] = old[i]
        BY <1>1, <2>1, <3>1, <3>2 DEF ActiveKeys, ForNode
      <3>3. CASE r.state = "active" /\ old[i].node = r.node
        BY <2>1, <3>1, <3>3 DEF ActiveKeys, ForNode
      <3> QED
        BY <1>1, <3>1, <3>2, <3>3
    <2>4. KeepsActive(old, new, {})
      BY <2>3 DEF KeepsActive
    <2> QED
      BY <2>2, <2>4 DEF new
  <1> QED
    BY <1>1, <1>2

\* An entry that import_public inserts takes nothing away.
LEMMA ImportKeeps ==
    ASSUME NEW old \in Registry, NEW reg \in Registry, NEW T, NEW k \in KeyId, NEW r \in KeyRecord,
           Keeps(old, reg, T), Insertable(reg, k, r)
    PROVE  /\ Keeps(old, Put(reg, k, r), T)
           /\ KeepsActive(old, reg, T) => KeepsActive(old, Put(reg, k, r), T)
           /\ reg = old => KeepsActive(old, Put(reg, k, r), T)
  <1> DEFINE new == Put(reg, k, r)
  <1>1. /\ DOMAIN new = DOMAIN reg \cup {k} /\ k \notin DOMAIN reg
        /\ \A i \in DOMAIN reg : new[i] = reg[i]
    BY PutRegistry DEF Insertable
  <1> HIDE DEF new
  <1>2. Keeps(old, new, T)
    BY <1>1 DEF Keeps
  <1>3. \A n \in Node : ActiveKeys(reg, n) \subseteq ActiveKeys(new, n)
    BY <1>1 DEF ActiveKeys, ForNode
  <1>4. /\ KeepsActive(old, reg, T) => KeepsActive(old, new, T)
        /\ reg = old => KeepsActive(old, new, T)
    BY <1>3 DEF KeepsActive
  <1> QED
    BY <1>2, <1>4 DEF new

\* Withdrawing key k costs nothing but k.
LEMMA WithdrawKeeps ==
    ASSUME NEW old \in Registry, NEW k \in DOMAIN old, NEW s \in KeyState
    PROVE  /\ Keeps(old, SetState(old, k, s), {k})
           /\ KeepsActive(old, SetState(old, k, s), {k})
  <1> DEFINE new == SetState(old, k, s)
  <1>1. /\ DOMAIN new = DOMAIN old
        /\ \A i \in DOMAIN old : i # k => new[i] = old[i]
        /\ \A i \in DOMAIN old : new[i].node = old[i].node
        /\ \A i \in DOMAIN old : new[i].algorithm = old[i].algorithm
        /\ \A i \in DOMAIN old : new[i].activated = old[i].activated
        /\ \A i \in DOMAIN old : new[i].expires = old[i].expires
    BY SetStateRegistry
  <1> HIDE DEF new
  <1>2. Keeps(old, new, {k})
    BY <1>1 DEF Keeps
  <1>3. \A n \in Node : ActiveKeys(old, n) \ {k} \subseteq ActiveKeys(new, n)
    BY <1>1 DEF ActiveKeys, ForNode
  <1>4. KeepsActive(old, new, {k})
    BY <1>3 DEF KeepsActive
  <1> QED
    BY <1>2, <1>4 DEF new

\* Every step of commands that run one after another keeps HistoryInv.
LEMMA HistoryNext ==
    ASSUME Serial = TRUE, "overwrite" \notin Ops
    PROVE  TypeInv /\ HistoryInv /\ [Next]_vars => HistoryInv'
  <1> SUFFICES ASSUME TypeInv, HistoryInv, [Next]_vars
               PROVE  HistoryInv'
    OBVIOUS
  <1>0. TypeOK /\ Targets
    BY DEF TypeInv
  <1>1. CASE UNCHANGED vars
    BY <1>1 DEF vars, HistoryInv, OneAtATime
  <1>c. ASSUME NEW c \in Command, NEW reg, NEW label \in {"changed", "refused"}, NEW T,
               Change(c, reg, label), target'[c] = T,
               \A d \in Command : d # c => target'[d] = target[d],
               pc[c] # "idle", Keeps(file, reg, T), label = "changed" => KeepsActive(file, reg, T)
        PROVE  HistoryInv'
    <2>1. /\ file' = file /\ op' = op
          /\ \A d \in Command : d # c => pc'[d] = pc[d] /\ mem'[d] = mem[d]
          /\ mem'[c] = reg /\ pc'[c] = label
      BY <1>0, <1>c DEF Change, TypeOK
    <2>2. OneAtATime'
      BY <1>c, <2>1 DEF HistoryInv, OneAtATime
    <2> QED
      BY <1>c, <2>1, <2>2 DEF HistoryInv
  <1>e. ASSUME NEW c \in Command, End(c), pc[c] # "idle"
        PROVE  HistoryInv'
    <2>1. \A d \in Command : pc'[d] = "idle" /\ op'[d] # "overwrite"
      BY <1>0, <1>e DEF End, HistoryInv, OneAtATime, TypeOK
    <2> QED
      BY <2>1 DEF HistoryInv, OneAtATime
  <1>2. ASSUME NEW c \in Command, NEW o \in Ops, Load(c, o)
        PROVE  HistoryInv'
    <2>1. \A d \in Command : pc[d] = "idle"
      BY <1>2 DEF Load, MayStart
    <2>2. /\ file' = file /\ mem'[c] = file /\ pc'[c] = "loaded"
          /\ \A d \in Command : d # c => pc'[d] = "idle" /\ op'[d] = op[d]
          /\ op'[c] = o /\ o # "overwrite"
      BY <1>0, <1>2, <2>1 DEF Load, TypeOK
    <2>3. OneAtATime'
      BY <2>2 DEF HistoryInv, OneAtATime
    <2>4. Keeps(file', mem'[c], target'[c])
      BY <2>2 DEF Keeps
    <2> QED
      BY <2>2, <2>3, <2>4 DEF HistoryInv
  <1>3. ASSUME NEW c \in Command, NEW k \in KeyId, NEW r \in KeyRecord,
               RegisterKey(c, k, r) \/ RotateKey(c, k, r)
        PROVE  HistoryInv'
    <2>1. /\ Register(c, k, r) /\ file \in Registry /\ pc[c] = "loaded"
          /\ mem[c] = file /\ target[c] = {}
      BY <1>0, <1>3 DEF RegisterKey, RotateKey, Running, TypeOK, HistoryInv, Targets
    <2>2. PICK reg \in Registry :
             /\ Rotation(file, r, reg)
             /\ \/ Insertable(reg, k, r) /\ Change(c, Put(reg, k, r), "changed")
                \/ Change(c, reg, "refused")
      BY <1>0, <2>1, RegisterIs
    <2>3. UNCHANGED target
      BY <1>0, <2>1, RegisterIs
    <2>4. /\ Keeps(file, reg, {})
          /\ Insertable(reg, k, r) => /\ Keeps(file, Put(reg, k, r), {})
                                      /\ KeepsActive(file, Put(reg, k, r), {})
      BY <2>1, <2>2, RegisterKeeps
    <2>5. CASE Insertable(reg, k, r) /\ Change(c, Put(reg, k, r), "changed")
      BY <2>1, <2>3, <2>4, <2>5, <1>c
    <2>6. CASE Change(c, reg, "refused")
      BY <2>1, <2>3, <2>4, <2>6, <1>c
    <2> QED
      BY <2>2, <2>5, <2>6
  <1>4. ASSUME NEW c \in Command, NEW k \in KeyId, NEW r \in KeyRecord, ImportEntry(c, k, r)
        PROVE  HistoryInv'
    <2>1. /\ mem[c] \in Registry /\ file \in Registry /\ pc[c] # "idle" /\ op[c] # "overwrite"
          /\ Keeps(file, mem[c], target[c])
          /\ KeepsActive(file, mem[c], target[c])
      <3>1. pc[c] \in {"loaded", "changed"} /\ op[c] # "overwrite"
        BY <1>4 DEF ImportEntry, HistoryInv, OneAtATime
      <3>2. CASE pc[c] = "loaded"
        <4>1. mem[c] = file
          BY <3>2 DEF HistoryInv
        <4> QED
          BY <1>0, <3>1, <4>1, <3>2 DEF HistoryInv, KeepsActive, TypeOK
      <3>3. CASE pc[c] = "changed"
        BY <1>0, <3>1, <3>3 DEF HistoryInv, TypeOK
      <3> QED
        BY <3>1, <3>2, <3>3
    <2>2. \/ Change(c, mem[c], "changed")
          \/ Insertable(mem[c], k, r) /\ Change(c, Put(mem[c], k, r), "changed")
          \/ Change(c, mem[c], "refused")
      BY <1>0, <1>4, <2>1, ImportIs
    <2>3. UNCHANGED target
      BY <1>0, <1>4, ImportIs
    <2>4. CASE Change(c, mem[c], "changed") \/ Change(c, mem[c], "refused")
      BY <2>1, <2>3, <2>4, <1>c
    <2>5. CASE Insertable(mem[c], k, r) /\ Change(c, Put(mem[c], k, r), "changed")
      <3>1. /\ Keeps(file, Put(mem[c], k, r), target[c])
            /\ KeepsActive(file, Put(mem[c], k, r), target[c])
        BY <2>1, <2>5, ImportKeeps
      <3> QED
        BY <2>1, <2>3, <2>5, <3>1, <1>c
    <2> QED
      BY <2>2, <2>4, <2>5
  <1>5. ASSUME NEW c \in Command, NEW k \in KeyId, RevokeKey(c, k) \/ DisableKey(c, k)
        PROVE  HistoryInv'
    <2>1. PICK s \in {"revoked", "disabled"} : Change(c, SetState(mem[c], k, s), "changed")
      BY <1>0, <1>5, WithdrawIs
    <2>2. /\ pc[c] = "loaded" /\ k \in DOMAIN mem[c]
          /\ target' = [target EXCEPT ![c] = {k}]
      BY <1>0, <1>5, WithdrawIs
    <2>3. mem[c] = file /\ file \in Registry /\ s \in KeyState
      BY <1>0, <2>2 DEF HistoryInv, TypeOK, KeyState
    <2>4. Keeps(file, SetState(mem[c], k, s), {k}) /\ KeepsActive(file, SetState(mem[c], k, s), {k})
      BY <2>2, <2>3, WithdrawKeeps
    <2>5. target'[c] = {k} /\ \A d \in Command : d # c => target'[d] = target[d]
      BY <1>0, <2>2 DEF TypeOK
    <2> QED
      BY <2>1, <2>2, <2>4, <2>5, <1>c
  <1>6. ASSUME NEW c \in Command, Save(c) \/ GiveUp(c)
        PROVE  HistoryInv'
    BY <1>6, <1>e DEF Save, GiveUp
  <1> QED
    BY <1>1, <1>2, <1>3, <1>4, <1>5, <1>6 DEF Next

\* At the start nobody runs.
LEMMA HistoryInit == Init => HistoryInv
  BY DEF Init, HistoryInv, OneAtATime

\* Only Save writes the file.
LEMMA OnlySaveWrites ==
    ASSUME [Next]_vars, file' # file
    PROVE  \E c \in Command : Save(c)
  BY DEF Next, vars, Load, RegisterKey, RotateKey, Register, ImportEntry, RevokeKey, DisableKey,
         Withdraw, Change, GiveUp

\* A record kept, and not a target, has the problems it had.
LEMMA KeptUsable ==
    ASSUME NEW old, NEW new, NEW T, Keeps(old, new, T),
           NEW k \in KeyId, k \notin T, NEW n \in Node, NEW t \in Time, NEW a \in Algorithm,
           Usable(old, k, n, t, a)
    PROVE  Usable(new, k, n, t, a)
  <1>1. k \in DOMAIN old
    BY DEF Usable, Problems
  <1>2. /\ old[k].node = n /\ old[k].algorithm = a
        /\ old[k].state \notin {"revoked", "disabled", "expired"}
        /\ ~(t < old[k].activated)
        /\ ~(old[k].expires # Forever /\ t > old[k].expires)
    BY <1>1 DEF Usable, Problems
  <1>3. /\ k \in DOMAIN new /\ new[k].node = n /\ new[k].algorithm = a
        /\ new[k].state \notin {"revoked", "disabled", "expired"}
        /\ new[k].activated = old[k].activated
        /\ new[k].expires = old[k].expires
    BY <1>1, <1>2 DEF Keeps
  <1> QED
    BY <1>2, <1>3 DEF Usable, Problems

\* When commands do not overlap and no import overwrites, an event that
\* verifies stops verifying only by a revoke or disable of its own key.
THEOREM HistoryIsKept ==
    ASSUME Serial = TRUE, "overwrite" \notin Ops
    PROVE  Spec => HistoryKeepsVerifying
  <1>1. TypeInv /\ HistoryInv /\ [Next]_vars => HistoryInv'
    BY HistoryNext
  <1>2. TypeInv /\ HistoryInv /\ [Next]_vars =>
           [file' # file => \A k \in KeyId, n \in Node, t \in Time, a \in Algorithm :
               Usable(file, k, n, t, a) /\ ~Usable(file', k, n, t, a)
               => \E c \in Command : op[c] \in {"revoke", "disable"} /\ k \in target[c]]_vars
    <2> SUFFICES ASSUME TypeInv, HistoryInv, [Next]_vars,
                        file' # file,
                        NEW k \in KeyId, NEW n \in Node, NEW t \in Time, NEW a \in Algorithm,
                        Usable(file, k, n, t, a), ~Usable(file', k, n, t, a)
                 PROVE  \E c \in Command : op[c] \in {"revoke", "disable"} /\ k \in target[c]
      OBVIOUS
    <2>1. PICK c \in Command : Save(c)
      BY OnlySaveWrites
    <2>2. file' = mem[c] /\ Keeps(file, mem[c], target[c])
      BY <2>1 DEF Save, HistoryInv
    <2>3. k \in target[c]
      BY <2>2, KeptUsable
    <2> QED
      BY <2>3 DEF TypeInv, Targets
  <1> QED
    BY <1>1, <1>2, TypeInit, TypeNext, HistoryInit, PTL DEF Spec, HistoryKeepsVerifying

\* When commands do not overlap and no import overwrites, a node loses its last
\* active key only by a revoke or disable of it; a refused registration, which
\* has already marked the key rotated in memory, never reaches the file.
THEOREM ActiveKeyIsKept ==
    ASSUME Serial = TRUE, "overwrite" \notin Ops
    PROVE  Spec => NodeKeepsActiveKey
  <1>1. TypeInv /\ HistoryInv /\ [Next]_vars => HistoryInv'
    BY HistoryNext
  <1>2. TypeInv /\ HistoryInv /\ [Next]_vars =>
           [file' # file => \A n \in Node :
               ActiveKeys(file, n) # {} /\ ActiveKeys(file', n) = {}
               => \E c \in Command : op[c] \in {"revoke", "disable"}
                                    /\ ActiveKeys(file, n) \subseteq target[c]]_vars
    <2> SUFFICES ASSUME TypeInv, HistoryInv, [Next]_vars,
                        file' # file, NEW n \in Node, ActiveKeys(file, n) # {},
                        ActiveKeys(file', n) = {}
                 PROVE  \E c \in Command : op[c] \in {"revoke", "disable"}
                                          /\ ActiveKeys(file, n) \subseteq target[c]
      OBVIOUS
    <2>1. PICK c \in Command : Save(c)
      BY OnlySaveWrites
    <2>2. file' = mem[c] /\ KeepsActive(file, mem[c], target[c])
      BY <2>1 DEF Save, HistoryInv
    <2>3. ActiveKeys(file, n) \subseteq target[c]
      BY <2>2 DEF KeepsActive
    <2> QED
      BY <2>3 DEF TypeInv, Targets
  <1> QED
    BY <1>1, <1>2, TypeInit, TypeNext, HistoryInit, PTL DEF Spec, NodeKeepsActiveKey
=============================================================================
