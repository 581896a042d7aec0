------------------------ MODULE EvidenceStoreProofs ------------------------
(***************************************************************************)
(* Proofs about EvidenceStore, for any set of signers, any bounds and any  *)
(* tolerated set of failures.                                              *)
(***************************************************************************)
EXTENDS EvidenceStoreInv, TLAPS

----------------------------------------------------------------------------
(* Types *)

\* Truncating a log, even past its end, yields a log of the length asked for.
LEMMA TruncatedType ==
    ASSUME NEW l \in Seq(CellType), NEW n \in Nat
    PROVE  /\ Truncated(l, n) \in Seq(CellType)
           /\ Len(Truncated(l, n)) = n
           /\ \A i \in 1..n : i <= Len(l) => Truncated(l, n)[i] = l[i]
<1>1. Nul \in CellType
  BY DEF Nul, Cell, CellType, NoRec, Record, Newline
<1>2. \A i \in 1..n : (IF i <= Len(l) THEN l[i] ELSE Nul) \in CellType
  BY <1>1
<1>3. QED
  BY <1>2 DEF Truncated

\* The last readable record of a log is a record.
LEMMA LastLoggedType ==
    ASSUME NEW l \in Seq(CellType)
    PROVE  LastLogged(l) \in Record
<1>1. NoRec \in Record
  BY DEF NoRec, Record
<1>2. \A i \in 1..Len(l) : l[i].rec \in Record
  <2>1. \A c \in CellType : c.rec \in Record
    BY DEF CellType
  <2>2. QED
    BY <2>1
<1>3. QED
  BY <1>1, <1>2 DEF LastLogged

\* The constant values have their types.
LEMMA ConstantTypes == NoRec \in Record /\ NoState \in NodeState /\ Corrupt \in NodeState
  BY DEF NoRec, Record, NoState, Corrupt, NodeState

\* The constructors of states, journals and cells yield values of their types.
LEMMA StateType == ASSUME NEW r \in Record PROVE State(r) \in NodeState
  BY DEF State, NodeState, Record

\* The journal's possible contents have its type.
LEMMA JournalType ==
    /\ \A kind \in JournalKind : JournalOf(kind) \in Journal
    /\ \A r \in Record, o \in Nat : Entry(r, o) \in Journal
  BY ConstantTypes DEF JournalOf, Journal, Entry, JournalKind

\* A part of a record is a cell.
LEMMA CellIsCell == ASSUME NEW r \in Record, NEW k \in 0..3 PROVE Cell(r, k) \in CellType
  BY DEF Cell, CellType, Newline

\* Every action of the store keeps every variable in its type.
THEOREM TypeCorrect == Spec => []TypeOK
<1>1. Init => TypeOK
  BY ConstantTypes, StateType, JournalType
  DEF Init, TypeOK, Labels, JournalKind, NoJournal, ZeroState, Newline
<1>2. TypeOK /\ [Next]_vars => TypeOK'
  <2> SUFFICES ASSUME TypeOK, [Next]_vars PROVE TypeOK'
    OBVIOUS
  <2> USE DEF TypeOK, Labels, Newline, Goto, Fault, ForgetStore
  <2>a. \A p \in Proc : ReadState(p) \in NodeState
    BY DEF ReadState
  <2>b. /\ \A s \in NodeState : s.seq \in Nat /\ s.hash \in Nat
        /\ \A j \in Journal : j.rec \in Record /\ j.off \in Nat
    BY DEF NodeState, Journal
  <2>1. ASSUME NEW p \in Proc, NEW o \in Ops, Begin(p, o) PROVE TypeOK'
    BY <2>1, ConstantsAssumption DEF Begin, disk, locals, ghosts
  <2>2. ASSUME NEW p \in Proc, Acquire(p) PROVE TypeOK'
    BY <2>2 DEF Acquire, disk, locals, ghosts
  <2>3. ASSUME NEW p \in Proc, AcquireFails(p) PROVE TypeOK'
    BY <2>3 DEF AcquireFails, disk, locals, ghosts
  <2>4. ASSUME NEW p \in Proc, Release(p) PROVE TypeOK'
    BY <2>4, ConstantTypes DEF Release, disk, locals, ghosts
  <2>5. ASSUME NEW p \in Proc, ReplayNothing(p) PROVE TypeOK'
    BY <2>5 DEF ReplayNothing, disk, locals, ghosts
  <2>5a. ASSUME NEW p \in Proc, DiscardJournal(p) PROVE TypeOK'
    BY <2>5a DEF DiscardJournal, disk, locals, ghosts
  <2>c. ASSUME NEW p \in Proc, NEW s \in NodeState, RecoverRaises(p, s)
        PROVE  /\ pc' \in [Proc -> Labels]
               /\ cache' \in [Proc -> NodeState]
               /\ rec' \in [Proc -> Record]
               /\ off' \in [Proc -> Nat]
               /\ part' \in [Proc -> 0..3]
    <3>1. CASE op[p] = "repair"
      BY <2>c, <3>1 DEF RecoverRaises
    <3>2. CASE op[p] # "repair"
      <4>1. Goto(p, "idle") /\ ForgetStore(p)
        BY <2>c, <3>2 DEF RecoverRaises
      <4>2. QED
        BY <4>1, ConstantTypes
    <3>3. QED
      BY <3>1, <3>2
  <2>6. ASSUME NEW p \in Proc, ReplayCommit(p) PROVE TypeOK'
    <3> DEFINE s == ReadState(p)
    <3>1. s \in NodeState /\ State(journal.rec) \in NodeState
      BY <2>a, <2>b, StateType
    <3>2. UNCHANGED <<lock, op, journal, log, minted, acked, orphaned>>
      BY <2>6 DEF ReplayCommit, ghosts
    <3>3. nfaults' \in Nat
      BY <2>6 DEF ReplayCommit
    <3>4. state' \in NodeState
      BY <2>6, <3>1 DEF ReplayCommit
    <3>5. /\ pc' \in [Proc -> Labels]
          /\ cache' \in [Proc -> NodeState]
          /\ rec' \in [Proc -> Record]
          /\ off' \in [Proc -> Nat]
          /\ part' \in [Proc -> 0..3]
      <4>1. CASE RecoverRaises(p, IF Valid(s) THEN s ELSE cache[p])
        BY <4>1, <3>1, <2>c
      <4>2. CASE Goto(p, "recover_drop") /\ cache' = [cache EXCEPT ![p] = State(journal.rec)]
                   /\ UNCHANGED <<rec, off, part>>
        BY <4>2, <3>1
      <4>3. CASE Goto(p, "recover_drop") /\ cache' = [cache EXCEPT ![p] = s]
                   /\ UNCHANGED <<rec, off, part>>
        BY <4>3, <3>1
      <4>4. QED
        BY <2>6, <4>1, <4>2, <4>3 DEF ReplayCommit
    <3>6. QED
      BY <3>2, <3>3, <3>4, <3>5
  <2>7. ASSUME NEW p \in Proc, ReplayRollback(p) PROVE TypeOK'
    <3>1. CASE log' = Truncated(log, journal.off) /\ Goto(p, "recover_drop")
                 /\ UNCHANGED <<locals, nfaults>>
      BY <2>7, <3>1, <2>b, TruncatedType DEF ReplayRollback, locals, ghosts
    <3>2. CASE Fault("truncate") /\ RecoverRaises(p, cache[p]) /\ UNCHANGED log
      BY <2>7, <3>2, <2>c DEF ReplayRollback, ghosts
    <3>3. QED
      BY <2>7, <3>1, <3>2 DEF ReplayRollback
  <2>8. ASSUME NEW p \in Proc, CheckState(p) PROVE TypeOK'
    <3> DEFINE s == ReadState(p)
    <3>1. s \in NodeState /\ State(LastLogged(log)) \in NodeState
      BY <2>a, LastLoggedType, StateType
    <3>2. UNCHANGED <<lock, op, journal, log, minted, acked, orphaned>>
      BY <2>8 DEF CheckState, ghosts
    <3>3. nfaults' \in Nat
      BY <2>8 DEF CheckState
    <3>4. state' \in NodeState
      BY <2>8, <3>1 DEF CheckState
    <3>5. /\ pc' \in [Proc -> Labels]
          /\ cache' \in [Proc -> NodeState]
          /\ rec' \in [Proc -> Record]
          /\ off' \in [Proc -> Nat]
          /\ part' \in [Proc -> 0..3]
      <4>1. CASE RecoverRaises(p, IF Valid(s) THEN s ELSE cache[p])
        BY <4>1, <3>1, <2>c
      <4>2. CASE Goto(p, AfterRecover(p)) /\ UNCHANGED <<rec, off, part>>
                   /\ cache' = [cache EXCEPT ![p] = State(LastLogged(log))]
        BY <4>2, <3>1 DEF AfterRecover
      <4>3. CASE Goto(p, AfterRecover(p)) /\ UNCHANGED <<rec, off, part>>
                   /\ cache' = [cache EXCEPT ![p] = s]
        BY <4>3, <3>1 DEF AfterRecover
      <4>4. QED
        BY <2>8, <4>1, <4>2, <4>3 DEF CheckState
    <3>6. QED
      BY <3>2, <3>3, <3>4, <3>5
  <2>9. ASSUME NEW p \in Proc, Sign(p) PROVE TypeOK'
    <3>1. SignedRecord(ReadState(p), minted + 1) \in Record
      BY <2>a, <2>b DEF SignedRecord, ExpectedPreviousHash, Genesis, Record
    <3>2. QED
      BY <2>9, <3>1 DEF Sign, disk
  <2>10. ASSUME NEW p \in Proc, SignFails(p) PROVE TypeOK'
    BY <2>10 DEF SignFails, disk, locals, ghosts
  <2>11. ASSUME NEW p \in Proc, OpenJournal(p) PROVE TypeOK'
    BY <2>11, JournalType DEF OpenJournal, JournalKind, locals, ghosts
  <2>11a. ASSUME NEW p \in Proc, FillJournal(p) PROVE TypeOK'
    BY <2>11a, JournalType DEF FillJournal, locals, ghosts
  <2>12. ASSUME NEW p \in Proc, JournalFails(p) PROVE TypeOK'
    BY <2>12, JournalType DEF JournalFails, locals, ghosts
  <2>12a. ASSUME NEW p \in Proc, CommitFails(p) PROVE TypeOK'
    BY <2>12a DEF CommitFails, disk, locals, ghosts
  <2>13. ASSUME NEW p \in Proc, AppendPart(p) PROVE TypeOK'
    <3>1. part[p] + 1 \in 0..3 /\ Cell(rec[p], part[p] + 1) \in CellType
      BY <2>13, CellIsCell DEF AppendPart
    <3>2. log' \in Seq(CellType)
      BY <2>13, <3>1 DEF AppendPart
    <3>3. QED
      BY <2>13, <3>1, <3>2 DEF AppendPart, ghosts
  <2>14. ASSUME NEW p \in Proc, SyncLog(p) PROVE TypeOK'
    BY <2>14 DEF SyncLog, disk, locals, ghosts
  <2>14a. ASSUME NEW p \in Proc, AppendFails(p) PROVE TypeOK'
    BY <2>14a DEF AppendFails, disk, locals, ghosts
  <2>15. ASSUME NEW p \in Proc, Rollback(p) PROVE TypeOK'
    <3>1. off[p] \in Nat /\ Truncated(log, off[p]) \in Seq(CellType)
      BY TruncatedType
    <3>2. log' \in Seq(CellType)
      BY <2>15, <3>1 DEF Rollback
    <3>3. nfaults' \in Nat
      BY <2>15 DEF Rollback
    <3>4. QED
      BY <2>15, <3>2, <3>3 DEF Rollback, locals, ghosts
  <2>16. ASSUME NEW p \in Proc, CommitState(p) PROVE TypeOK'
    BY <2>16, StateType DEF CommitState, ghosts
  <2>17. ASSUME NEW p \in Proc, DropJournal(p) PROVE TypeOK'
    <3>1. journal' \in Journal /\ nfaults' \in Nat
      BY <2>17, JournalType DEF DropJournal, NoJournal, JournalKind
    <3>2. acked' \subseteq Record
      BY <2>17 DEF DropJournal
    <3>3. pc' \in [Proc -> Labels]
      BY <2>17 DEF DropJournal
    <3>4. QED
      BY <2>17, <3>1, <3>2, <3>3 DEF DropJournal, locals
  <2>18. ASSUME NEW p \in Proc, Repair(p) PROVE TypeOK'
    <3>1. State(LastLogged(log)) \in NodeState
      BY StateType, LastLoggedType
    <3>2. state' \in NodeState /\ nfaults' \in Nat
      BY <2>18, <3>1 DEF Repair, RepairedState
    <3>3. \/ cache' = cache
          \/ cache' = [cache EXCEPT ![p] = State(LastLogged(log))]
          \/ cache' = [cache EXCEPT ![p] = NoState]
      BY <2>18 DEF Repair, RepairedState
    <3>4. cache' \in [Proc -> NodeState]
      BY <3>1, <3>3, ConstantTypes
    <3>5. QED
      BY <2>18, <3>2, <3>4 DEF Repair, ghosts
  <2>19. ASSUME NEW p \in Proc, Crash(p) PROVE TypeOK'
    BY <2>19, ConstantTypes DEF Crash, disk, ghosts
  <2>19a. ASSUME NEW p \in Proc, Exit(p) PROVE TypeOK'
    BY <2>19a DEF Exit, disk, locals, ghosts
  <2>20. ASSUME LoseTail PROVE TypeOK'
    <3>1. \A n \in 0..(Len(log) - 1) : SubSeq(log, 1, n) \in Seq(CellType)
      OBVIOUS
    <3>2. QED
      BY <2>20, <3>1 DEF LoseTail, locals, ghosts
  <2>21. ASSUME DamageState PROVE TypeOK'
    BY <2>21, ConstantTypes DEF DamageState, locals, ghosts
  <2>21a. ASSUME EraseState PROVE TypeOK'
    <3>1. {rec[p] : p \in {q \in Proc : pc[q] = "drop"}} \subseteq Record
      OBVIOUS
    <3>2. orphaned' \subseteq Record /\ state' \in NodeState /\ nfaults' \in Nat
      BY <2>21a, <3>1, ConstantTypes, StateType DEF EraseState, Fault, ZeroState
    <3>3. UNCHANGED <<lock, journal, log, pc, op, cache, rec, off, part, minted, acked>>
      BY <2>21a DEF EraseState, locals
    <3>4. QED
      BY <3>2, <3>3
  <2>22. CASE UNCHANGED vars
    BY <2>22 DEF vars
  <2>23. QED
    BY <2>1, <2>2, <2>3, <2>4, <2>5, <2>5a, <2>6, <2>7, <2>8, <2>9, <2>10, <2>11, <2>11a,
       <2>12, <2>12a,
       <2>13, <2>14, <2>14a, <2>15, <2>16, <2>17, <2>18, <2>19, <2>19a, <2>20, <2>21, <2>21a,
       <2>22
       DEF Next, Step, Recover, Transact
<1>3. QED
  BY <1>1, <1>2, PTL DEF Spec

----------------------------------------------------------------------------
(* Clean logs *)

\* Whether the first m lines are clean depends on their cells only.
LEMMA CleanFrame ==
    ASSUME NEW l \in Seq(CellType), NEW l2 \in Seq(CellType), NEW m \in Nat,
           Clean(l, m), Len(l2) >= 3 * m, \A i \in 1..(3 * m) : l2[i] = l[i]
    PROVE  Clean(l2, m)
<1> SUFFICES ASSUME NEW n \in 1..m PROVE CleanLine(l2, n)
  BY DEF Clean
<1>1. CleanLine(l, n)
  BY DEF Clean
<1>2. l2[3 * n - 2] = l[3 * n - 2] /\ l2[3 * n - 1] = l[3 * n - 1] /\ l2[3 * n] = l[3 * n]
  OBVIOUS
<1>3. LinkHash(l2, n) = LinkHash(l, n)
  <2>1. CASE n = 1
    BY <2>1 DEF LinkHash
  <2>2. CASE n # 1
    <3>1. 3 * n - 5 \in 1..(3 * m)
      BY <2>2
    <3>2. QED
      BY <2>2, <3>1 DEF LinkHash
  <2>3. QED
    BY <2>1, <2>2
<1>4. QED
  BY <1>1, <1>2, <1>3 DEF CleanLine

\* The hash that the record after m clean lines must name.
LEMMA LinkFrame ==
    ASSUME NEW l \in Seq(CellType), NEW l2 \in Seq(CellType), NEW m \in Nat,
           \A i \in 1..(3 * m) : l2[i] = l[i]
    PROVE  LinkHash(l2, m + 1) = LinkHash(l, m + 1)
<1>1. CASE m = 0
  BY <1>1 DEF LinkHash
<1>2. CASE m > 0
  <2>1. 3 * (m + 1) - 5 \in 1..(3 * m)
    BY <1>2
  <2>2. QED
    BY <1>2, <2>1 DEF LinkHash
<1>3. QED
  BY <1>1, <1>2

\* A clean line more.
LEMMA CleanStep ==
    ASSUME NEW l \in Seq(CellType), NEW m \in Nat, Clean(l, m), Len(l) >= 3 * m + 3,
           CleanLine(l, m + 1)
    PROVE  Clean(l, m + 1)
  BY DEF Clean

\* In the first m lines of a log, when they are clean, a readable record starts
\* at cell 3n - 2 for every n up to m, and nowhere else.
LEMMA CleanPositions ==
    ASSUME NEW l \in Seq(CellType), NEW m \in Nat, Clean(l, m)
    PROVE  /\ \A n \in 1..m : 3 * n - 2 \in RecordPositions(l)
           /\ \A i \in RecordPositions(l) : i <= 3 * m => \E n \in 1..m : i = 3 * n - 2
<1>1. \A n \in 1..m : /\ l[3 * n - 2].k = 1 /\ l[3 * n - 1].k = 2 /\ l[3 * n].k = 3
                      /\ l[3 * n - 1] = Cell(l[3 * n - 2].rec, 2)
  <2> TAKE n \in 1..m
  <2>1. CleanLine(l, n)
    BY DEF Clean
  <2>2. QED
    BY <2>1 DEF CleanLine, Cell
<1>2. ASSUME NEW n \in 1..m PROVE 3 * n - 2 \in RecordPositions(l)
  <2>1. 3 * n - 2 \in 1..Len(l) /\ 3 * n - 2 < Len(l)
    BY DEF Clean
  <2>2. (3 * n - 2) = 1 \/ l[(3 * n - 2) - 1].k = 3
    <3>1. CASE n = 1
      BY <3>1
    <3>2. CASE n # 1
      <4>1. n - 1 \in 1..m
        BY <3>2
      <4>2. l[3 * (n - 1)].k = 3
        BY <4>1, <1>1
      <4>3. 3 * (n - 1) = (3 * n - 2) - 1
        OBVIOUS
      <4>4. QED
        BY <4>2, <4>3
    <3>3. QED
      BY <3>1, <3>2
  <2>3. (3 * n - 2) + 1 = 3 * n - 1 /\ (3 * n - 2) + 2 = 3 * n
    OBVIOUS
  <2>4. QED
    BY <2>1, <2>2, <2>3, <1>1 DEF RecordPositions, IsRecordAt, Newline
<1>3. ASSUME NEW i \in RecordPositions(l), i <= 3 * m
      PROVE  \E n \in 1..m : i = 3 * n - 2
  <2>1. i \in 1..(3 * m) /\ l[i].k = 1
    BY <1>3 DEF RecordPositions, IsRecordAt
  <2>2. PICK n \in 1..m : i = 3 * n - 2 \/ i = 3 * n - 1 \/ i = 3 * n
    <3>1. (i + 2) \div 3 \in 1..m
      BY <2>1
    <3>2. \/ i = 3 * ((i + 2) \div 3) - 2
          \/ i = 3 * ((i + 2) \div 3) - 1
          \/ i = 3 * ((i + 2) \div 3)
      BY <2>1
    <3>3. QED
      BY <3>1, <3>2
  <2>3. l[3 * n - 1].k = 2 /\ l[3 * n].k = 3
    BY <1>1
  <2>4. i = 3 * n - 2
    BY <2>1, <2>2, <2>3
  <2>5. QED
    BY <2>4
<1>4. QED
  BY <1>2, <1>3

\* _last_logged_record of a clean log is its last record.
LEMMA CleanLast ==
    ASSUME NEW l \in Seq(CellType), NEW m \in Nat, Clean(l, m), Len(l) = 3 * m
    PROVE  IF m = 0 THEN LastLogged(l) = NoRec
           ELSE LastLogged(l) = l[3 * m - 2].rec /\ LastLogged(l).seq = m
<1>1. CASE m = 0
  <2>1. \A i \in 1..Len(l) : FALSE
    BY <1>1
  <2>2. QED
    BY <1>1, <2>1 DEF LastLogged
<1>2. CASE m # 0
  <2>1. m \in 1..m /\ 3 * m - 2 \in 1..Len(l)
    BY <1>2
  <2>2. IsLastRecord(l, 3 * m - 2)
    <3>1. 3 * m - 2 \in RecordPositions(l)
      BY <2>1, CleanPositions
    <3>2. ASSUME NEW j \in RecordPositions(l) PROVE j <= 3 * m - 2
      <4>0. j <= 3 * m
        BY DEF RecordPositions
      <4>1. PICK n \in 1..m : j = 3 * n - 2
        BY <4>0, CleanPositions
      <4>2. QED
        BY <4>1
    <3>3. QED
      BY <3>1, <3>2 DEF IsLastRecord
  <2>3. \A i \in 1..Len(l) : IsLastRecord(l, i) => i = 3 * m - 2
    BY <2>1, <2>2 DEF IsLastRecord, RecordPositions
  <2>4. (CHOOSE i \in 1..Len(l) : IsLastRecord(l, i)) = 3 * m - 2
    BY <2>1, <2>2, <2>3
  <2>5. LastLogged(l) = l[3 * m - 2].rec
    BY <2>1, <2>2, <2>4 DEF LastLogged
  <2>6. CleanLine(l, m)
    BY <2>1 DEF Clean
  <2>7. QED
    BY <1>2, <2>5, <2>6 DEF CleanLine
<1>3. QED
  BY <1>1, <1>2

----------------------------------------------------------------------------
(* Which signers a step leaves alone *)

\* A signer outside its block knows nothing of the files.
LEMMA Outside ==
    ASSUME NEW q \in Proc, pc'[q] \in {"idle", "waiting"}, cache'[q] = NoState,
           op'[q] \in Ops \union {"sign"}
    PROVE  SignerInv(q)'
  BY DEF SignerInv, InBlock

\* While p owns the lock, or nobody does, every other signer is outside.
LEMMA Alone ==
    ASSUME TypeOK, StoreInv, NEW p, lock = p, NEW q \in Proc, q # p
    PROVE  /\ pc[q] \in {"idle", "waiting"}
           /\ cache[q] = NoState
           /\ op[q] \in Ops \union {"sign"}
  BY DEF StoreInv, SignerInv, InBlock

\* So a step of the lock's owner keeps what holds of the others.
LEMMA OthersKept ==
    ASSUME TypeOK, StoreInv, NEW p, lock = p, NEW q \in Proc, q # p,
           pc'[q] = pc[q], cache'[q] = cache[q], op'[q] = op[q]
    PROVE  SignerInv(q)'
  BY Alone, Outside

\* A signer none of whose own variables, nor the files, nor the lock changes.
LEMMA Unmoved ==
    ASSUME NEW q \in Proc, SignerInv(q), UNCHANGED <<lock, journal, log, state>>,
           pc'[q] = pc[q], cache'[q] = cache[q], op'[q] = op[q],
           rec'[q] = rec[q], off'[q] = off[q], part'[q] = part[q]
    PROVE  SignerInv(q)'
  BY DEF SignerInv, InBlock, Settled, NextRecord, LinkHash, AppendCompleted, Newline

\* Steps that leave the files alone keep what the invariant says of them.
LEMMA FilesKept ==
    ASSUME StoreInv, UNCHANGED <<journal, log, state, acked>>
    PROVE  CommittedInv' /\ JournalInv' /\ AckedInv'
  BY DEF StoreInv, CommittedInv, JournalInv, AckedInv, Clean, CleanLine, LinkHash,
         NextRecord, Settled

\* Inside its block a signer owns the lock, and read_state returns the file.
LEMMA Owner ==
    ASSUME TypeOK, StoreInv, NEW p \in Proc, InBlock(p)
    PROVE  /\ lock = p
           /\ cache[p] \in {NoState, state}
           /\ ReadState(p) = state
           /\ op[p] \in Ops \union {"sign"}
           /\ Valid(state)
<1>1. Valid(state)
  BY DEF StoreInv, CommittedInv, Valid, ZeroState, State
<1>2. QED
  BY <1>1 DEF StoreInv, SignerInv, ReadState

\* A log whose journalled record is complete reads as a clean log, one line
\* longer than the committed ones.
LEMMA CompletedIsClean ==
    ASSUME TypeOK, StoreInv, journal.kind = "entry",
           NextRecord(journal.rec, journal.off), AppendCompleted(log, journal)
    PROVE  /\ Clean(log, state.seq + 1)
           /\ Len(log) = 3 * (state.seq + 1)
           /\ log[3 * state.seq + 1].rec = journal.rec
<1> DEFINE m == state.seq  r == journal.rec
<1>1. m \in Nat /\ log \in Seq(CellType) /\ r \in Record
  BY DEF TypeOK, NodeState, Journal
<1>2. r.seq = m + 1 /\ journal.off = 3 * m /\ r.prev = LinkHash(log, m + 1)
  BY DEF NextRecord
<1>3. Len(log) = 3 * m + 3
  <2>1. Len(log) >= 3 * m + 3
    BY <1>1, <1>2 DEF AppendCompleted, Newline
  <2>2. Len(log) <= 3 * m + 3
    BY <1>1, <1>2 DEF StoreInv, JournalInv, Settled
  <2>3. QED
    BY <1>1, <2>1, <2>2
<1>4. log[3 * m + 1] = Cell(r, 1) /\ log[3 * m + 2] = Cell(r, 2) /\ log[3 * m + 3] = Cell(r, 3)
  BY <1>1, <1>2 DEF AppendCompleted, Newline
<1>5. 3 * (m + 1) - 2 = 3 * m + 1 /\ 3 * (m + 1) - 1 = 3 * m + 2 /\ 3 * (m + 1) = 3 * m + 3
  BY <1>1
<1>6. log[3 * m + 1].rec = r
  BY <1>4 DEF Cell
<1>7. CleanLine(log, m + 1)
  BY <1>2, <1>4, <1>5, <1>6 DEF CleanLine
<1>8. Clean(log, m + 1)
  BY <1>1, <1>3, <1>7, CleanStep DEF StoreInv, CommittedInv
<1>9. QED
  BY <1>3, <1>5, <1>6, <1>8

\* Committing the journalled record once its line is complete.
LEMMA Advance ==
    ASSUME TypeOK, TypeOK', StoreInv, journal.kind = "entry",
           NextRecord(journal.rec, journal.off), AppendCompleted(log, journal),
           state' = State(journal.rec), UNCHANGED <<journal, log, acked>>
    PROVE  /\ CommittedInv' /\ JournalInv' /\ AckedInv' /\ Settled'
           /\ state'.seq = state.seq + 1
           /\ log[3 * state.seq + 1].rec = journal.rec
<1> DEFINE m == state.seq  r == journal.rec
<1>1. m \in Nat /\ log \in Seq(CellType) /\ r \in Record
  BY DEF TypeOK, NodeState, Journal
<1>2. r.seq = m + 1 /\ journal.off = 3 * m /\ r.prev = LinkHash(log, m + 1)
  BY DEF NextRecord
<1>3. Clean(log, m + 1) /\ Len(log) = 3 * (m + 1) /\ log[3 * m + 1].rec = r
  BY CompletedIsClean
<1>4. 3 * (m + 1) - 2 = 3 * m + 1 /\ 3 * (m + 1) = 3 * m + 3
  BY <1>1
<1>5. state'.seq = m + 1
  BY <1>2 DEF State
<1>6. CommittedInv'
  <2>1. Clean(log', state'.seq)
    BY <1>3, <1>5
  <2>2. state' = State(log'[3 * state'.seq - 2].rec)
    BY <1>3, <1>4, <1>5
  <2>3. state'.seq # 0
    BY <1>1, <1>5
  <2>4. QED
    BY <2>1, <2>2, <2>3 DEF CommittedInv
<1>7. Settled'
  BY <1>1, <1>3, <1>5 DEF Settled
<1>8. JournalInv'
  <2>1. \A k \in 1..3 : journal.off + k <= Len(log) => log[journal.off + k] = Cell(r, k)
    BY DEF StoreInv, JournalInv
  <2>2. state'.seq > 0 /\ journal.off = 3 * state'.seq - 3
    BY <1>1, <1>2, <1>5
  <2>3. QED
    BY <2>1, <2>2, <1>7 DEF JournalInv
<1>9. AckedInv'
  <2>1. 1..m \subseteq 1..(m + 1)
    BY <1>1
  <2>2. QED
    BY <1>5, <2>1 DEF StoreInv, AckedInv
<1>10. QED
  BY <1>3, <1>5, <1>6, <1>7, <1>8, <1>9

----------------------------------------------------------------------------
(* The invariant is preserved: one lemma per group of actions *)

\* Opening and leaving a block, and being killed at any point of it: the files are
\* as they were, and at most one signer is inside.
LEMMA LockSteps ==
    ASSUME TypeOK, TypeOK', StoreInv, NEW p \in Proc,
           \/ \E o \in Ops : Begin(p, o)
           \/ Acquire(p) \/ AcquireFails(p) \/ Release(p) \/ Crash(p) \/ Exit(p)
    PROVE  StoreInv'
<1>1. UNCHANGED <<journal, log, state, acked, minted>>
  BY DEF Begin, Acquire, AcquireFails, Release, Crash, Exit, disk, ghosts
<1>2. CommittedInv' /\ JournalInv' /\ AckedInv' /\ minted' <= MaxMinted
  BY <1>1, FilesKept DEF StoreInv
<1>3. SUFFICES ASSUME NEW q \in Proc PROVE SignerInv(q)'
  BY <1>2 DEF StoreInv
<1>4. SignerInv(q) /\ SignerInv(p)
  BY DEF StoreInv
<1>5. CASE \E o \in Ops : Begin(p, o)
  <2>1. PICK o \in Ops : Begin(p, o)
    BY <1>5
  <2>2. CASE q = p
    <3>1. pc'[q] = "waiting" /\ op'[q] = o /\ cache'[q] = NoState
      BY <2>1, <2>2, <1>4 DEF Begin, Goto, TypeOK, SignerInv, InBlock, locals
    <3>2. QED
      BY <3>1, Outside
  <2>3. CASE q # p
    BY <2>1, <2>3, <1>4, Unmoved DEF Begin, Goto, TypeOK, disk, locals
  <2>4. QED
    BY <2>2, <2>3
<1>6. CASE AcquireFails(p)
  <2>2. CASE q = p
    <3>1. pc'[q] = "idle" /\ op'[q] = op[q] /\ cache'[q] = NoState
      BY <1>6, <2>2, <1>4 DEF AcquireFails, Goto, TypeOK, SignerInv, InBlock, locals
    <3>2. QED
      BY <3>1, <1>4, Outside DEF SignerInv
  <2>3. CASE q # p
    <3>1. /\ UNCHANGED <<lock, journal, log, state, op, cache, rec, off, part>>
          /\ pc'[q] = pc[q]
      BY <1>6, <2>3 DEF AcquireFails, Goto, TypeOK, disk, locals
    <3>2. QED
      BY <3>1, <1>4, Unmoved
  <2>4. QED
    BY <2>2, <2>3
<1>7. CASE Acquire(p)
  <2>1. lock = Free /\ UNCHANGED <<cache, op>> /\ lock' = p
    BY <1>7 DEF Acquire, LockAvailable, locals
  <2>2. CASE q = p
    <3>1. pc'[q] = "recover" /\ cache'[q] = NoState
      BY <1>7, <2>1, <2>2, <1>4 DEF Acquire, Goto, TypeOK, SignerInv, InBlock
    <3>2. QED
      BY <3>1, <2>1, <2>2, <1>4 DEF SignerInv, InBlock
  <2>3. CASE q # p
    <3>1. pc'[q] = pc[q]
      BY <1>7, <2>3 DEF Acquire, Goto, TypeOK
    <3>2. q # Free
      BY ConstantsAssumption
    <3>3. QED
      BY <3>1, <3>2, <2>1, OthersKept
  <2>4. QED
    BY <2>2, <2>3
<1>8. CASE Release(p) \/ Exit(p) \/ (Crash(p) /\ lock = p)
  <2>1. lock = p
    BY <1>8, Owner DEF Release, Exit, InBlock
  <2>2. CASE q = p
    <3>1. op'[q] = op[q] /\ op[q] \in Ops \union {"sign"}
      BY <1>8, <1>4 DEF Release, Exit, Crash, SignerInv
    <3>2. pc'[q] = "idle"
      BY <1>8, <2>2 DEF Release, Exit, Crash, Goto, TypeOK
    <3>3. cache'[q] = NoState
      <4>1. CASE Exit(p)
        BY <4>1, <2>2, <1>4 DEF Exit, SignerInv, InBlock, locals
      <4>2. CASE Release(p) \/ Crash(p)
        BY <4>2, <2>2 DEF Release, Crash, ForgetStore, TypeOK
      <4>3. QED
        BY <1>8, <4>1, <4>2
    <3>4. QED
      BY <3>1, <3>2, <3>3, Outside
  <2>3. CASE q # p
    <3>1. pc'[q] = pc[q] /\ op'[q] = op[q]
      BY <1>8, <2>3 DEF Release, Exit, Crash, Goto, TypeOK
    <3>2. cache'[q] = cache[q]
      BY <1>8, <2>3 DEF Release, Exit, Crash, ForgetStore, TypeOK, locals
    <3>3. QED
      BY <3>1, <3>2, <2>1, <2>3, OthersKept
  <2>4. QED
    BY <2>2, <2>3
<1>9. CASE Crash(p) /\ lock # p
  <2>2. CASE q = p
    <3>1. pc'[q] = "idle" /\ op'[q] = op[q] /\ cache'[q] = NoState
      BY <1>9, <2>2 DEF Crash, Goto, ForgetStore, TypeOK
    <3>2. QED
      BY <3>1, <1>4, Outside DEF SignerInv
  <2>3. CASE q # p
    <3>1. /\ UNCHANGED <<lock, op>> /\ pc'[q] = pc[q]
          /\ cache'[q] = cache[q] /\ rec'[q] = rec[q] /\ off'[q] = off[q]
          /\ part'[q] = part[q]
      BY <1>9, <2>3 DEF Crash, Goto, ForgetStore, TypeOK
    <3>2. QED
      BY <3>1, <1>1, <1>4, Unmoved
  <2>4. QED
    BY <2>2, <2>3
<1>10. QED
  BY <1>5, <1>6, <1>7, <1>8, <1>9

\* The owner's own part of the invariant is all that is left to show when a
\* step of it moves only its own variables and the files.
LEMMA OwnerStep ==
    ASSUME TypeOK, StoreInv, NEW p \in Proc, lock = p, NEW label, Goto(p, label),
           UNCHANGED op, \A q \in Proc : q # p => cache'[q] = cache[q],
           minted' <= MaxMinted, CommittedInv', JournalInv', AckedInv', SignerInv(p)'
    PROVE  StoreInv'
<1>1. ASSUME NEW q \in Proc PROVE SignerInv(q)'
  <2>1. CASE q = p
    BY <2>1
  <2>2. CASE q # p
    <3>1. pc'[q] = pc[q]
      BY <2>2 DEF Goto, TypeOK
    <3>2. QED
      BY <2>2, <3>1, OthersKept
  <2>3. QED
    BY <2>1, <2>2
<1>2. QED
  BY <1>1 DEF StoreInv

\* What a signer knows on entering a label that says nothing of the files.
LEMMA QuietLabel ==
    ASSUME NEW p \in Proc, pc'[p] \in {"recover", "release"}, lock' = p,
           cache'[p] \in {NoState, state'}, op'[p] \in Ops \union {"sign"}
    PROVE  SignerInv(p)'
  BY DEF SignerInv, InBlock

\* A recovery that raises leaves the files alone; the signer goes on to
\* repair_from_log, or is idle with the lock still held.
LEMMA RaiseStep ==
    ASSUME TypeOK, StoreInv, NEW p \in Proc, InBlock(p), RecoverRaises(p, state) \/ RecoverRaises(p, cache[p]),
           UNCHANGED <<lock, op, journal, log, state, acked, minted>>,
           op[p] = "repair" => \/ Settled
                               \/ journal.kind = "entry" /\ AppendCompleted(log, journal)
    PROVE  StoreInv'
<1>1. /\ lock = p
      /\ cache[p] \in {NoState, state}
      /\ op[p] \in Ops \union {"sign"}
  BY Owner
<1>2. CommittedInv' /\ JournalInv' /\ AckedInv' /\ minted' <= MaxMinted
  BY FilesKept DEF StoreInv
<1>3. CASE op[p] = "repair"
  <2>1. Goto(p, "repair") /\ cache'[p] \in {NoState, state'}
        /\ \A q \in Proc : q # p => cache'[q] = cache[q]
    BY <1>1, <1>3 DEF RecoverRaises, TypeOK
  <2>2. pc'[p] = "repair"
    BY <2>1 DEF Goto, TypeOK
  <2>3. SignerInv(p)'
    BY <1>1, <1>3, <2>1, <2>2
       DEF SignerInv, InBlock, Settled, AppendCompleted, Newline
  <2>4. QED
    BY <1>1, <1>2, <2>1, <2>3, OwnerStep
<1>4. CASE op[p] # "repair"
  <2>1. Goto(p, "idle") /\ ForgetStore(p)
    BY <1>4 DEF RecoverRaises
  <2>2. pc'[p] = "idle" /\ cache'[p] = NoState
    BY <2>1 DEF Goto, ForgetStore, TypeOK
  <2>3. \A q \in Proc : q # p => cache'[q] = cache[q]
    BY <2>1 DEF ForgetStore, TypeOK
  <2>4. SignerInv(p)'
    BY <1>1, <2>2, Outside
  <2>5. QED
    BY <1>1, <1>2, <2>1, <2>3, <2>4, OwnerStep
<1>5. QED
  BY <1>3, <1>4

\* Recovery without a usable journal: the log is already settled.
LEMMA SkipJournalSteps ==
    ASSUME TypeOK, TypeOK', StoreInv, NEW p \in Proc, ReplayNothing(p) \/ DiscardJournal(p)
    PROVE  StoreInv'
<1>1. /\ UNCHANGED <<lock, op, cache, journal, log, state, acked, minted>>
      /\ pc[p] = "recover" /\ journal.kind # "entry"
      /\ Goto(p, "check") \/ Goto(p, "recover_drop")
  BY DEF ReplayNothing, DiscardJournal, disk, locals, ghosts
<1>2. lock = p /\ cache[p] \in {NoState, state} /\ op[p] \in Ops \union {"sign"}
  BY <1>1, Owner DEF InBlock
<1>3. Settled'
  BY <1>1 DEF StoreInv, JournalInv, Settled
<1>4. pc'[p] \in {"check", "recover_drop"}
  BY <1>1 DEF Goto, TypeOK
<1>5. SignerInv(p)'
  BY <1>1, <1>2, <1>3, <1>4 DEF SignerInv, InBlock
<1>6. CommittedInv' /\ JournalInv' /\ AckedInv' /\ minted' <= MaxMinted
  BY <1>1, FilesKept DEF StoreInv
<1>7. QED
  BY <1>1, <1>2, <1>5, <1>6, OwnerStep

\* Recovery that finds the journalled record complete commits it, or finds it
\* committed already.
LEMMA ReplayCommitStep ==
    ASSUME TypeOK, TypeOK', StoreInv, NEW p \in Proc, ReplayCommit(p)
    PROVE  StoreInv'
<1>1. /\ UNCHANGED <<lock, op, journal, log, acked, minted>>
      /\ pc[p] = "recover" /\ journal.kind = "entry" /\ AppendCompleted(log, journal)
  BY DEF ReplayCommit, ghosts
<1>2. /\ lock = p /\ ReadState(p) = state /\ op[p] \in Ops \union {"sign"}
      /\ Valid(state) /\ InBlock(p)
  BY <1>1, Owner DEF InBlock
<1>3. state.seq \in Nat /\ journal.rec.seq \in Nat
  BY DEF TypeOK, NodeState, Journal, Record
<1>4. CASE /\ state.seq < journal.rec.seq
           /\ state' = State(journal.rec)
           /\ cache' = [cache EXCEPT ![p] = State(journal.rec)]
           /\ Goto(p, "recover_drop")
  <2>1. NextRecord(journal.rec, journal.off)
    BY <1>1, <1>3, <1>4 DEF StoreInv, JournalInv, State
  <2>2. CommittedInv' /\ JournalInv' /\ AckedInv' /\ Settled'
    BY <1>1, <1>4, <2>1, Advance
  <2>3. pc'[p] = "recover_drop" /\ cache'[p] = state'
    BY <1>4 DEF Goto, TypeOK
  <2>4. SignerInv(p)'
    BY <1>1, <1>2, <2>2, <2>3 DEF SignerInv, InBlock
  <2>5. \A q \in Proc : q # p => cache'[q] = cache[q]
    BY <1>4 DEF TypeOK
  <2>6. QED
    BY <1>1, <1>2, <1>4, <2>2, <2>4, <2>5, OwnerStep DEF StoreInv
<1>5. CASE /\ state.seq >= journal.rec.seq
           /\ UNCHANGED state
           /\ cache' = [cache EXCEPT ![p] = state]
           /\ Goto(p, "recover_drop")
  <2>1. Settled'
    BY <1>1, <1>3, <1>5 DEF StoreInv, JournalInv, NextRecord, Settled
  <2>2. CommittedInv' /\ JournalInv' /\ AckedInv'
    BY <1>1, <1>5, FilesKept
  <2>3. pc'[p] = "recover_drop" /\ cache'[p] = state'
    BY <1>5 DEF Goto, TypeOK
  <2>4. SignerInv(p)'
    BY <1>1, <1>2, <2>1, <2>3 DEF SignerInv, InBlock
  <2>5. \A q \in Proc : q # p => cache'[q] = cache[q]
    BY <1>5 DEF TypeOK
  <2>6. QED
    BY <1>1, <1>2, <1>5, <2>2, <2>4, <2>5, OwnerStep DEF StoreInv
<1>6. CASE RecoverRaises(p, state) /\ UNCHANGED state
  BY <1>1, <1>2, <1>6, RaiseStep
<1>7. QED
  BY <1>2, <1>4, <1>5, <1>6 DEF ReplayCommit

\* Cutting a partial append back to the journalled offset settles the log.
LEMMA CutBack ==
    ASSUME TypeOK, TypeOK', StoreInv, journal.kind = "entry",
           NextRecord(journal.rec, journal.off), log' = Truncated(log, journal.off),
           UNCHANGED <<journal, state, acked>>
    PROVE  CommittedInv' /\ JournalInv' /\ AckedInv' /\ Settled'
<1> DEFINE m == state.seq
<1>1. m \in Nat /\ log \in Seq(CellType) /\ log' \in Seq(CellType)
  BY DEF TypeOK, NodeState
<1>2. journal.off = 3 * m /\ Len(log) >= 3 * m /\ 3 * m \in Nat /\ Clean(log, m)
  <2>1. journal.off = 3 * m
    BY DEF NextRecord
  <2>2. Clean(log, m)
    BY DEF StoreInv, CommittedInv
  <2>3. QED
    BY <1>1, <2>1, <2>2 DEF Clean
<1>3. Len(log') = 3 * m /\ \A i \in 1..(3 * m) : log'[i] = log[i]
  <2>1. log' = Truncated(log, 3 * m)
    BY <1>2
  <2>2. /\ Len(Truncated(log, 3 * m)) = 3 * m
        /\ \A i \in 1..(3 * m) : i <= Len(log) => Truncated(log, 3 * m)[i] = log[i]
    BY <1>1, <1>2, TruncatedType
  <2>3. \A i \in 1..(3 * m) : i <= Len(log)
    BY <1>1, <1>2
  <2>4. QED
    BY <2>1, <2>2, <2>3
<1>4. Clean(log', m)
  <2>1. Len(log') >= 3 * m
    BY <1>2, <1>3
  <2>2. QED
    BY <1>1, <1>2, <1>3, <2>1, CleanFrame
<1>5. CommittedInv'
  <2>1. m > 0 => 3 * m - 2 \in 1..(3 * m)
    BY <1>1
  <2>2. QED
    BY <1>1, <1>3, <1>4, <2>1, SMTT(40) DEF StoreInv, CommittedInv
<1>6. JournalInv' /\ Settled'
  <2>1. LinkHash(log', m + 1) = LinkHash(log, m + 1)
    BY <1>1, <1>3, LinkFrame
  <2>2. NextRecord(journal.rec, journal.off)'
    BY <2>1 DEF NextRecord
  <2>3. \A k \in 1..3 : ~(journal.off + k <= Len(log'))
    BY <1>1, <1>2, <1>3
  <2>4. Len(log') <= journal.off + 3
    BY <1>1, <1>2, <1>3
  <2>5. QED
    BY <1>3, <2>2, <2>3, <2>4 DEF JournalInv, Settled
<1>7. AckedInv'
  <2>1. \A n \in 1..m : 3 * n - 2 \in 1..(3 * m)
    BY <1>1
  <2>2. \A n \in 1..m : log'[3 * n - 2] = log[3 * n - 2]
    BY <1>3, <2>1
  <2>3. QED
    BY <2>2 DEF StoreInv, AckedInv
<1>8. QED
  BY <1>5, <1>6, <1>7

\* Recovery that finds the journalled record incomplete cuts it off.
LEMMA ReplayRollbackStep ==
    ASSUME TypeOK, TypeOK', StoreInv, Tolerated, NEW p \in Proc, ReplayRollback(p)
    PROVE  StoreInv'
<1> DEFINE m == state.seq
<1>1. /\ UNCHANGED <<lock, op, journal, state, acked, minted>>
      /\ pc[p] = "recover" /\ journal.kind = "entry" /\ ~AppendCompleted(log, journal)
  BY DEF ReplayRollback, ghosts
<1>2. /\ lock = p /\ cache[p] \in {NoState, state} /\ op[p] \in Ops \union {"sign"}
      /\ InBlock(p)
  BY <1>1, Owner DEF InBlock
<1>3. m \in Nat /\ log \in Seq(CellType)
  BY DEF TypeOK, NodeState
<1>4. NextRecord(journal.rec, journal.off)
  <2>1. \A k \in 1..3 : journal.off + k <= Len(log) => log[journal.off + k] = Cell(journal.rec, k)
    BY <1>1 DEF StoreInv, JournalInv
  <2>2. ~(journal.off = 3 * m - 3 /\ Settled)
    BY <1>1, <1>3, <2>1 DEF AppendCompleted, Settled, Newline
  <2>3. QED
    BY <1>1, <2>2 DEF StoreInv, JournalInv
<1>5. CASE /\ log' = Truncated(log, journal.off) /\ Goto(p, "recover_drop")
           /\ UNCHANGED locals
  <2>1. CommittedInv' /\ JournalInv' /\ AckedInv' /\ Settled'
    BY <1>1, <1>4, <1>5, CutBack
  <2>2. pc'[p] = "recover_drop" /\ UNCHANGED cache
    BY <1>5 DEF Goto, TypeOK, locals
  <2>3. SignerInv(p)'
    BY <1>1, <1>2, <2>1, <2>2 DEF SignerInv, InBlock
  <2>4. QED
    BY <1>1, <1>2, <1>5, <2>1, <2>2, <2>3, OwnerStep DEF StoreInv
<1>6. CASE Fault("truncate") /\ RecoverRaises(p, cache[p]) /\ UNCHANGED log
  <2>1. op[p] # "repair"
    BY <1>2, <1>6 DEF Tolerated, Fault
  <2>2. QED
    BY <1>1, <1>2, <1>6, <2>1, RaiseStep
<1>7. QED
  BY <1>5, <1>6 DEF ReplayRollback

\* _check_state_against_log has nothing to reconcile: the log is settled.
LEMMA CheckStateStep ==
    ASSUME TypeOK, TypeOK', StoreInv, NEW p \in Proc, CheckState(p)
    PROVE  StoreInv'
<1> DEFINE m == state.seq  tail == LastLogged(log)
<1>1. UNCHANGED <<lock, op, journal, log, acked, minted>> /\ pc[p] = "check"
  BY DEF CheckState, ghosts
<1>2. /\ lock = p /\ ReadState(p) = state /\ op[p] \in Ops \union {"sign"}
      /\ Valid(state)
  BY <1>1, Owner DEF InBlock
<1>3. m \in Nat /\ log \in Seq(CellType)
  BY DEF TypeOK, NodeState
<1>4. Settled
  BY <1>1 DEF StoreInv, SignerInv
<1>5. tail.seq = m
  <2>1. Clean(log, m) /\ Len(log) = 3 * m
    BY <1>4 DEF StoreInv, CommittedInv, Settled
  <2>2. IF m = 0 THEN tail = NoRec ELSE tail.seq = m
    BY <1>3, <2>1, CleanLast
  <2>3. QED
    BY <2>2 DEF NoRec
<1>6. /\ cache' = [cache EXCEPT ![p] = state]
      /\ Goto(p, AfterRecover(p))
      /\ UNCHANGED state
  BY <1>2, <1>3, <1>5 DEF CheckState
<1>7. pc'[p] \in {"ready", "repair"} /\ cache'[p] = state'
  BY <1>6 DEF Goto, TypeOK, AfterRecover
<1>8. Settled'
  BY <1>1, <1>4, <1>6 DEF Settled
<1>9. SignerInv(p)'
  BY <1>1, <1>2, <1>7, <1>8 DEF SignerInv, InBlock
<1>10. CommittedInv' /\ JournalInv' /\ AckedInv'
  BY <1>1, <1>6, FilesKept
<1>11. \A q \in Proc : q # p => cache'[q] = cache[q]
  BY <1>6 DEF TypeOK
<1>12. QED
  BY <1>1, <1>2, <1>6, <1>9, <1>10, <1>11, OwnerStep DEF StoreInv

\* The record a signer signs is the one that may be appended next.
LEMMA SignStep ==
    ASSUME TypeOK, TypeOK', StoreInv, NEW p \in Proc, Sign(p)
    PROVE  StoreInv'
<1> DEFINE m == state.seq  r == SignedRecord(state, minted + 1)
<1>1. /\ UNCHANGED <<lock, op, journal, log, state, cache, acked>>
      /\ pc[p] = "ready" /\ Goto(p, "journal_open")
      /\ minted < MaxMinted /\ minted' = minted + 1
  BY DEF Sign, disk
<1>2. /\ lock = p /\ ReadState(p) = state /\ op[p] \in Ops \union {"sign"}
      /\ cache[p] \in {NoState, state}
  BY <1>1, Owner DEF InBlock
<1>3. m \in Nat /\ minted \in Nat /\ MaxMinted \in Nat
  BY ConstantsAssumption DEF TypeOK, NodeState
<1>4. Settled
  BY <1>1 DEF StoreInv, SignerInv
<1>5. rec'[p] = r /\ off'[p] = Len(log) /\ part'[p] = 0 /\ pc'[p] = "journal_open"
  BY <1>2 DEF Sign, Goto, TypeOK
<1>6. NextRecord(rec[p], off[p])'
  <2>1. r.prev = LinkHash(log, m + 1)
    <3>1. CASE m = 0
      BY <3>1 DEF SignedRecord, ExpectedPreviousHash, LinkHash
    <3>2. CASE m # 0
      <4>1. m + 1 # 1 /\ 3 * (m + 1) - 5 = 3 * m - 2
        BY <1>3, <3>2, SMTT(40)
      <4>2. state.hash = log[3 * m - 2].rec.hash
        BY <3>2 DEF StoreInv, CommittedInv, State
      <4>3. QED
        BY <4>1, <4>2 DEF SignedRecord, ExpectedPreviousHash, LinkHash
    <3>3. QED
      BY <3>1, <3>2
  <2>2. r.seq = m + 1 /\ r.hash = minted + 1 /\ minted + 1 \in 1..MaxMinted
    BY <1>1, <1>3 DEF SignedRecord
  <2>3. QED
    BY <1>1, <1>4, <1>5, <2>1, <2>2 DEF NextRecord, Settled
<1>7. SignerInv(p)'
  BY <1>1, <1>2, <1>4, <1>5, <1>6 DEF SignerInv, InBlock, Settled
<1>8. CommittedInv' /\ JournalInv' /\ AckedInv' /\ minted' <= MaxMinted
  BY <1>1, <1>3, FilesKept
<1>9. QED
  BY <1>1, <1>2, <1>7, <1>8, OwnerStep

\* Steps of a transaction that change no file and enter "release", "commit" or
\* "rollback".
LEMMA QuietSteps ==
    ASSUME TypeOK, TypeOK', StoreInv, NEW p \in Proc,
           SignFails(p) \/ SyncLog(p) \/ AppendFails(p) \/ CommitFails(p)
    PROVE  StoreInv'
<1>1. UNCHANGED <<lock, op, journal, log, state, cache, rec, off, part, acked, minted>>
  BY DEF SignFails, SyncLog, AppendFails, CommitFails, disk, locals, ghosts
<1>2. InBlock(p)
  BY DEF SignFails, SyncLog, AppendFails, CommitFails, InBlock
<1>3. lock = p /\ cache[p] \in {NoState, state} /\ op[p] \in Ops \union {"sign"}
  BY <1>2, Owner
<1>4. CommittedInv' /\ JournalInv' /\ AckedInv' /\ minted' <= MaxMinted
  BY <1>1, FilesKept DEF StoreInv
<1>5. CASE Goto(p, "release")
  <2>1. pc'[p] = "release"
    BY <1>5 DEF Goto, TypeOK
  <2>2. SignerInv(p)'
    BY <1>1, <1>3, <2>1, QuietLabel
  <2>3. QED
    BY <1>1, <1>3, <1>4, <1>5, <2>2, OwnerStep
<1>6. CASE /\ pc[p] = "append" /\ Goto(p, "commit") /\ part[p] = 3
  <2>1. pc'[p] = "commit"
    BY <1>6 DEF Goto, TypeOK
  <2>2. SignerInv(p)
    BY DEF StoreInv
  <2>3. SignerInv(p)'
    BY <1>1, <1>3, <1>6, <2>1, <2>2 DEF SignerInv, InBlock, NextRecord, LinkHash
  <2>4. QED
    BY <1>1, <1>3, <1>4, <1>6, <2>3, OwnerStep
<1>7. CASE pc[p] = "append" /\ Goto(p, "rollback")
  <2>1. pc'[p] = "rollback"
    BY <1>7 DEF Goto, TypeOK
  <2>2. SignerInv(p)
    BY DEF StoreInv
  <2>3. SignerInv(p)'
    BY <1>1, <1>3, <1>7, <2>1, <2>2 DEF SignerInv, InBlock, NextRecord, LinkHash
  <2>4. QED
    BY <1>1, <1>3, <1>4, <1>7, <2>3, OwnerStep
<1>8. QED
  BY <1>5, <1>6, <1>7 DEF SignFails, SyncLog, AppendFails, CommitFails, Newline

\* The journal describes the record before the log is touched.
LEMMA JournalSteps ==
    ASSUME TypeOK, TypeOK', StoreInv, NEW p \in Proc,
           OpenJournal(p) \/ FillJournal(p) \/ JournalFails(p)
    PROVE  StoreInv'
<1>1. UNCHANGED <<lock, op, log, state, cache, rec, off, part, acked, minted>>
  BY DEF OpenJournal, FillJournal, JournalFails, locals, ghosts
<1>2. pc[p] \in {"journal_open", "journal_fill"}
  BY DEF OpenJournal, FillJournal, JournalFails
<1>3. lock = p /\ cache[p] \in {NoState, state} /\ op[p] \in Ops \union {"sign"}
  BY <1>2, Owner DEF InBlock
<1>4. Settled /\ NextRecord(rec[p], off[p]) /\ part[p] = 0
  BY <1>2 DEF StoreInv, SignerInv
<1>5. Settled' /\ NextRecord(rec[p], off[p])' /\ part'[p] = 0
  BY <1>1, <1>4 DEF Settled, NextRecord, LinkHash
<1>6. CommittedInv' /\ AckedInv' /\ minted' <= MaxMinted
  BY <1>1 DEF StoreInv, CommittedInv, AckedInv, Clean, CleanLine, LinkHash
<1>7. CASE OpenJournal(p)
  <2>1. journal'.kind = "torn" /\ pc'[p] = "journal_fill" /\ Goto(p, "journal_fill")
    BY <1>7 DEF OpenJournal, JournalOf, Goto, TypeOK
  <2>2. JournalInv'
    BY <1>5, <2>1 DEF JournalInv
  <2>3. SignerInv(p)'
    BY <1>1, <1>3, <1>5, <2>1 DEF SignerInv, InBlock
  <2>4. QED
    BY <1>1, <1>3, <1>6, <2>1, <2>2, <2>3, OwnerStep
<1>8. ASSUME journal' = Entry(rec[p], off[p]) PROVE JournalInv'
  <2>1. journal'.kind = "entry" /\ journal'.rec = rec[p] /\ journal'.off = off[p]
    BY <1>8 DEF Entry
  <2>2. off[p] \in Nat /\ Len(log) = off[p]
    BY <1>4 DEF TypeOK, Settled, NextRecord
  <2>3. NextRecord(journal.rec, journal.off)'
    BY <1>1, <1>5, <2>1 DEF NextRecord
  <2>4. Len(log') <= journal'.off + 3 /\ \A k \in 1..3 : ~(journal'.off + k <= Len(log'))
    BY <1>1, <2>1, <2>2
  <2>5. QED
    BY <2>1, <2>3, <2>4 DEF JournalInv
<1>9. CASE FillJournal(p)
  <2>1. journal' = Entry(rec[p], off[p]) /\ pc'[p] = "append" /\ Goto(p, "append")
    BY <1>9 DEF FillJournal, Goto, TypeOK
  <2>2. off[p] \in Nat /\ Len(log) = off[p]
    BY <1>4 DEF TypeOK, Settled, NextRecord
  <2>3. Len(log') = off'[p] + part'[p]
    BY <1>1, <1>4, <2>2
  <2>4. SignerInv(p)'
    BY <1>1, <1>3, <1>5, <2>1, <2>3 DEF SignerInv, InBlock
  <2>5. QED
    BY <1>1, <1>3, <1>6, <1>8, <2>1, <2>4, OwnerStep
<1>10. CASE JournalFails(p)
  <2>1. /\ pc'[p] = "release" /\ Goto(p, "release")
        /\ journal' = journal \/ journal' = Entry(rec[p], off[p])
    BY <1>10 DEF JournalFails, Goto, TypeOK
  <2>2. SignerInv(p)'
    BY <1>1, <1>3, <2>1, QuietLabel
  <2>3. JournalInv'
    BY <1>1, <1>8, <2>1, FilesKept
  <2>4. QED
    BY <1>1, <1>3, <1>6, <2>1, <2>2, <2>3, OwnerStep
<1>11. QED
  BY <1>7, <1>9, <1>10

\* Each part of the append extends the first part of the journalled record.
LEMMA AppendPartStep ==
    ASSUME TypeOK, TypeOK', StoreInv, NEW p \in Proc, AppendPart(p)
    PROVE  StoreInv'
<1> DEFINE m == state.seq  c == Cell(rec[p], part[p] + 1)
<1>1. /\ UNCHANGED <<lock, op, journal, state, cache, rec, off, acked, minted>>
      /\ pc[p] = "append" /\ Goto(p, "append") /\ pc'[p] = "append"
      /\ part[p] < 3 /\ part'[p] = part[p] + 1
      /\ log' = Append(log, c)
  BY DEF AppendPart, Goto, TypeOK, ghosts, Newline
<1>2. lock = p /\ cache[p] \in {NoState, state} /\ op[p] \in Ops \union {"sign"}
  BY <1>1, Owner DEF InBlock
<1>3. /\ NextRecord(rec[p], off[p])
      /\ journal = Entry(rec[p], off[p])
      /\ Len(log) = off[p] + part[p]
  BY <1>1 DEF StoreInv, SignerInv
<1>4. /\ m \in Nat /\ log \in Seq(CellType) /\ log' \in Seq(CellType)
      /\ off[p] \in Nat /\ part[p] \in 0..3 /\ c \in CellType
  <2>1. m \in Nat /\ log \in Seq(CellType) /\ log' \in Seq(CellType)
    BY DEF TypeOK, NodeState
  <2>2. off[p] \in Nat /\ part[p] \in 0..3 /\ rec[p] \in Record
    BY DEF TypeOK, Newline
  <2>3. c \in CellType
    BY <1>1, <2>2, CellIsCell
  <2>4. QED
    BY <2>1, <2>2, <2>3
<1>5. off[p] = 3 * m
  BY <1>3 DEF NextRecord
<1>6. /\ Len(log') = off[p] + part[p] + 1
      /\ \A i \in 1..Len(log) : log'[i] = log[i]
      /\ log'[off[p] + part[p] + 1] = c
  BY <1>1, <1>3, <1>4
<1>7. \A i \in 1..(3 * m) : log'[i] = log[i]
  <2>1. \A i \in 1..(3 * m) : i \in 1..Len(log)
    BY <1>3, <1>4, <1>5
  <2>2. QED
    BY <1>6, <2>1
<1>8. CommittedInv'
  <2>1. Clean(log, m)
    BY DEF StoreInv, CommittedInv
  <2>2. Len(log') >= 3 * m
    BY <1>4, <1>5, <1>6, SMTT(40)
  <2>3. Clean(log', m)
    BY <1>4, <1>7, <2>1, <2>2, CleanFrame
  <2>4. m # 0 => log'[3 * m - 2] = log[3 * m - 2]
    BY <1>4, <1>7, SMTT(40)
  <2>5. m' = m
    BY <1>1
  <2>6. QED
    BY <1>1, <2>3, <2>4, <2>5 DEF StoreInv, CommittedInv
<1>9. NextRecord(rec[p], off[p])'
  <2>1. LinkHash(log', m + 1) = LinkHash(log, m + 1)
    BY <1>4, <1>7, LinkFrame
  <2>2. QED
    BY <1>1, <1>3, <2>1 DEF NextRecord
<1>10. journal.kind = "entry" /\ journal.rec = rec[p] /\ journal.off = off[p]
  BY <1>3 DEF Entry
<1>11. JournalInv'
  <2>1. NextRecord(journal.rec, journal.off)'
    BY <1>1, <1>9, <1>10 DEF NextRecord
  <2>2. Len(log') <= off[p] + 3
    BY <1>1, <1>4, <1>6
  <2>3. ASSUME NEW k \in 1..3, off[p] + k <= Len(log')
        PROVE  log'[off[p] + k] = Cell(rec[p], k)
    <3>1. CASE k = part[p] + 1
      BY <3>1, <1>4, <1>6
    <3>2. CASE k # part[p] + 1
      <4>1. off[p] + k \in 1..Len(log)
        BY <2>3, <3>2, <1>3, <1>4, <1>6, SMTT(40)
      <4>2. log[off[p] + k] = Cell(rec[p], k)
        BY <4>1, <1>10 DEF StoreInv, JournalInv
      <4>3. QED
        BY <4>1, <4>2, <1>6
    <3>3. QED
      BY <3>1, <3>2
  <2>4. QED
    BY <1>1, <1>10, <2>1, <2>2, <2>3 DEF JournalInv
<1>12. AckedInv'
  <2>1. \A n \in 1..m : 3 * n - 2 \in 1..(3 * m)
    BY <1>4
  <2>2. \A n \in 1..m : log'[3 * n - 2] = log[3 * n - 2]
    BY <1>7, <2>1
  <2>3. QED
    BY <1>1, <2>2 DEF StoreInv, AckedInv
<1>13. Len(log') = off'[p] + part'[p]
  BY <1>1, <1>4, <1>6
<1>14. SignerInv(p)'
  BY <1>1, <1>2, <1>3, <1>9, <1>13 DEF SignerInv, InBlock
<1>15. QED
  BY <1>1, <1>2, <1>8, <1>11, <1>12, <1>14, OwnerStep DEF StoreInv

\* _rollback, when its truncate works, settles the log.
LEMMA RollbackStep ==
    ASSUME TypeOK, TypeOK', StoreInv, Tolerated, NEW p \in Proc, Rollback(p)
    PROVE  StoreInv'
<1> DEFINE m == state.seq
<1>1. /\ UNCHANGED <<lock, op, journal, state, cache, acked, minted>>
      /\ pc[p] = "rollback" /\ Goto(p, "rollback_drop") /\ pc'[p] = "rollback_drop"
  BY DEF Rollback, Goto, TypeOK, locals, ghosts
<1>2. lock = p /\ cache[p] \in {NoState, state} /\ op[p] \in Ops \union {"sign"}
  BY <1>1, Owner DEF InBlock
<1>3. NextRecord(rec[p], off[p]) /\ journal = Entry(rec[p], off[p])
  BY <1>1 DEF StoreInv, SignerInv
<1>4. journal.kind = "entry" /\ journal.rec = rec[p] /\ journal.off = off[p]
  BY <1>3 DEF Entry
<1>5. log' = IF Len(log) > off[p] THEN Truncated(log, off[p]) ELSE log
  BY DEF Rollback, Fault, Tolerated
<1>6. CommittedInv' /\ JournalInv' /\ AckedInv' /\ Settled'
  <2>1. CASE Len(log) > off[p]
    BY <2>1, <1>1, <1>3, <1>4, <1>5, CutBack
  <2>2. CASE ~(Len(log) > off[p])
    <3>1. log' = log
      BY <2>2, <1>5
    <3>2. Len(log) >= 3 * m
      BY DEF StoreInv, CommittedInv, Clean
    <3>3. Len(log) \in Nat /\ off[p] = 3 * m /\ m \in Nat
      BY <1>3 DEF TypeOK, NextRecord, NodeState
    <3>4. Len(log) = 3 * m
      BY <2>2, <3>2, <3>3
    <3>5. QED
      BY <1>1, <3>1, <3>4, FilesKept DEF Settled
  <2>3. QED
    BY <2>1, <2>2
<1>7. SignerInv(p)'
  BY <1>1, <1>2, <1>6 DEF SignerInv, InBlock
<1>8. QED
  BY <1>1, <1>2, <1>6, <1>7, OwnerStep DEF StoreInv

\* Writing the state commits exactly the line just appended.
LEMMA CommitStateStep ==
    ASSUME TypeOK, TypeOK', StoreInv, NEW p \in Proc, CommitState(p)
    PROVE  StoreInv'
<1> DEFINE m == state.seq
<1>1. /\ UNCHANGED <<lock, op, journal, log, rec, acked, minted>>
      /\ pc[p] = "commit" /\ Goto(p, "drop") /\ pc'[p] = "drop"
      /\ state' = State(rec[p]) /\ cache' = [cache EXCEPT ![p] = State(rec[p])]
  BY DEF CommitState, Goto, TypeOK, ghosts
<1>2. lock = p /\ op[p] \in Ops \union {"sign"}
  BY <1>1, Owner DEF InBlock
<1>3. /\ NextRecord(rec[p], off[p]) /\ journal = Entry(rec[p], off[p])
      /\ Len(log) = off[p] + 3
  BY <1>1 DEF StoreInv, SignerInv
<1>4. journal.kind = "entry" /\ journal.rec = rec[p] /\ journal.off = off[p]
  BY <1>3 DEF Entry
<1>5. m \in Nat /\ off[p] \in Nat /\ log \in Seq(CellType)
  BY DEF TypeOK, NodeState
<1>6. AppendCompleted(log, journal)
  <2>1. \A k \in 1..3 : off[p] + k <= Len(log)
    BY <1>3, <1>5
  <2>2. \A k \in 1..3 : log[journal.off + k] = Cell(journal.rec, k)
    BY <1>4, <2>1 DEF StoreInv, JournalInv
  <2>3. Len(log) >= journal.off + 3
    BY <1>3, <1>4, <1>5
  <2>4. QED
    BY <2>2, <2>3 DEF AppendCompleted, Newline
<1>7. /\ CommittedInv' /\ JournalInv' /\ AckedInv' /\ Settled'
      /\ state'.seq = m + 1 /\ log[3 * m + 1].rec = journal.rec
  BY <1>1, <1>3, <1>4, <1>6, Advance
<1>8. state'.seq > 0 /\ rec'[p] = log'[3 * state'.seq - 2].rec
  <2>1. 3 * (m + 1) - 2 = 3 * m + 1 /\ m + 1 > 0
    BY <1>5
  <2>2. QED
    BY <1>1, <1>4, <1>7, <2>1
<1>9. cache'[p] = state' /\ \A q \in Proc : q # p => cache'[q] = cache[q]
  BY <1>1 DEF TypeOK
<1>10. SignerInv(p)'
  BY <1>1, <1>2, <1>7, <1>8, <1>9 DEF SignerInv, InBlock
<1>11. QED
  BY <1>1, <1>2, <1>7, <1>9, <1>10, OwnerStep DEF StoreInv

\* The journal is only dropped when the log is settled; a record is acknowledged
\* only when it is committed.
LEMMA DropJournalStep ==
    ASSUME TypeOK, TypeOK', StoreInv, NEW p \in Proc, DropJournal(p)
    PROVE  StoreInv'
<1>1. /\ UNCHANGED <<lock, op, log, state, cache, minted>>
      /\ pc[p] \in {"recover_drop", "rollback_drop", "drop"}
      /\ journal' = NoJournal \/ journal' = journal
  BY DEF DropJournal, locals
<1>2. lock = p /\ cache[p] \in {NoState, state} /\ op[p] \in Ops \union {"sign"}
  BY <1>1, Owner DEF InBlock
<1>3. Settled /\ Settled'
  BY <1>1 DEF StoreInv, SignerInv, Settled
<1>4. CommittedInv'
  BY <1>1 DEF StoreInv, CommittedInv, Clean, CleanLine, LinkHash
<1>5. JournalInv'
  <2>1. CASE journal' = NoJournal
    BY <1>3, <2>1 DEF JournalInv, NoJournal, JournalOf
  <2>2. CASE journal' = journal
    BY <1>1, <2>2 DEF StoreInv, JournalInv, NextRecord, LinkHash, Settled
  <2>3. QED
    BY <1>1, <2>1, <2>2
<1>6. CASE pc[p] = "recover_drop"
  <2>1. Goto(p, "check") /\ pc'[p] = "check" /\ acked' = acked
    BY <1>6 DEF DropJournal, Goto, TypeOK
  <2>2. SignerInv(p)'
    BY <1>1, <1>2, <1>3, <2>1 DEF SignerInv, InBlock
  <2>3. AckedInv'
    BY <1>1, <2>1 DEF StoreInv, AckedInv
  <2>4. QED
    BY <1>1, <1>2, <1>4, <1>5, <2>1, <2>2, <2>3, OwnerStep DEF StoreInv
<1>7. CASE pc[p] = "rollback_drop"
  <2>1. Goto(p, "release") /\ pc'[p] = "release" /\ acked' = acked
    BY <1>7 DEF DropJournal, Goto, TypeOK
  <2>2. SignerInv(p)'
    BY <1>1, <1>2, <2>1, QuietLabel
  <2>3. AckedInv'
    BY <1>1, <2>1 DEF StoreInv, AckedInv
  <2>4. QED
    BY <1>1, <1>2, <1>4, <1>5, <2>1, <2>2, <2>3, OwnerStep DEF StoreInv
<1>8. CASE pc[p] = "drop"
  <2>1. Goto(p, "ready") /\ pc'[p] = "ready" /\ acked' = acked \union {rec[p]}
    BY <1>8 DEF DropJournal, Goto, TypeOK
  <2>2. state.seq > 0 /\ rec[p] = log[3 * state.seq - 2].rec /\ state.seq \in Nat
    BY <1>8 DEF StoreInv, SignerInv, TypeOK, NodeState
  <2>3. cache[p] = state
    BY <1>8 DEF StoreInv, SignerInv
  <2>4. SignerInv(p)'
    BY <1>1, <1>2, <1>3, <2>1, <2>3 DEF SignerInv, InBlock
  <2>5. AckedInv'
    <3>1. state.seq \in 1..state.seq
      BY <2>2
    <3>2. QED
      BY <1>1, <2>1, <2>2, <3>1 DEF StoreInv, AckedInv
  <2>6. QED
    BY <1>1, <1>2, <1>4, <1>5, <2>1, <2>4, <2>5, OwnerStep DEF StoreInv
<1>9. QED
  BY <1>1, <1>6, <1>7, <1>8

\* recover-state, run where recovery could cut the log back, writes the state
\* there already is or commits the journalled record.
LEMMA RepairStep ==
    ASSUME TypeOK, TypeOK', StoreInv, NEW p \in Proc, Repair(p)
    PROVE  StoreInv'
<1> DEFINE m == state.seq  tail == LastLogged(log)
<1>1. /\ UNCHANGED <<lock, op, journal, log, acked, minted>>
      /\ pc[p] = "repair" /\ Goto(p, "release") /\ pc'[p] = "release"
  BY DEF Repair, Goto, TypeOK, ghosts
<1>2. lock = p /\ cache[p] \in {NoState, state} /\ op[p] \in Ops \union {"sign"}
  BY <1>1, Owner DEF InBlock
<1>3. m \in Nat /\ log \in Seq(CellType)
  BY DEF TypeOK, NodeState
<1>4. CASE UNCHANGED state /\ (UNCHANGED cache \/ cache' = [cache EXCEPT ![p] = NoState])
  <2>0. /\ cache'[p] \in {NoState, state'}
        /\ \A q \in Proc : q # p => cache'[q] = cache[q]
    BY <1>2, <1>4 DEF TypeOK
  <2>1. CommittedInv' /\ JournalInv' /\ AckedInv' /\ minted' <= MaxMinted
    BY <1>1, <1>4, FilesKept DEF StoreInv
  <2>2. SignerInv(p)'
    BY <1>1, <1>2, <2>0, QuietLabel
  <2>3. QED
    BY <1>1, <1>2, <2>0, <2>1, <2>2, OwnerStep
<1>5. CASE state' = State(tail) /\ cache' = [cache EXCEPT ![p] = State(tail)]
  <2>1. cache'[p] = state' /\ \A q \in Proc : q # p => cache'[q] = cache[q]
    BY <1>5 DEF TypeOK
  <2>2. SignerInv(p)'
    BY <1>1, <1>2, <2>1, QuietLabel
  <2>3. CommittedInv' /\ JournalInv' /\ AckedInv'
    <3>1. CASE Settled
      <4>1. Clean(log, m) /\ Len(log) = 3 * m
        BY <3>1 DEF StoreInv, CommittedInv, Settled
      <4>2. IF m = 0 THEN tail = NoRec ELSE tail = log[3 * m - 2].rec
        BY <1>3, <4>1, CleanLast
      <4>3. state' = state
        BY <1>5, <4>2 DEF StoreInv, CommittedInv, ZeroState
      <4>4. QED
        BY <1>1, <4>3, FilesKept
    <3>2. CASE ~Settled
      <4>1. /\ journal.kind = "entry" /\ AppendCompleted(log, journal)
            /\ NextRecord(journal.rec, journal.off)
        BY <1>1, <3>2 DEF StoreInv, SignerInv, JournalInv
      <4>2. /\ Clean(log, m + 1) /\ Len(log) = 3 * (m + 1)
            /\ log[3 * m + 1].rec = journal.rec
        BY <4>1, CompletedIsClean
      <4>3. m + 1 \in Nat /\ m + 1 # 0 /\ 3 * (m + 1) - 2 = 3 * m + 1
        BY <1>3
      <4>4. tail = log[3 * (m + 1) - 2].rec
        BY <1>3, <4>2, <4>3, CleanLast
      <4>5. state' = State(journal.rec)
        BY <1>5, <4>2, <4>3, <4>4
      <4>6. QED
        BY <1>1, <4>1, <4>5, Advance
    <3>3. QED
      BY <3>1, <3>2
  <2>4. QED
    BY <1>1, <1>2, <2>1, <2>2, <2>3, OwnerStep DEF StoreInv
<1>6. QED
  BY <1>4, <1>5 DEF Repair, RepairedState

----------------------------------------------------------------------------
(* The theorems *)

\* The chain is intact after any number of crashes and reported I/O errors, at
\* any point of any signer's transaction: StoreInv is an invariant.
THEOREM StoreInvariant == ASSUME Tolerated PROVE Spec => []StoreInv
<1>1. Init => StoreInv
  <2> SUFFICES ASSUME Init PROVE StoreInv
    OBVIOUS
  <2>1. state.seq = 0 /\ log = << >> /\ Len(log) = 0 /\ journal.kind # "entry"
    BY DEF Init, ZeroState, State, NoRec, NoJournal, JournalOf
  <2>2. CommittedInv
    BY <2>1 DEF CommittedInv, Clean, Init
  <2>3. JournalInv
    BY <2>1 DEF JournalInv, Settled
  <2>4. ASSUME NEW p \in Proc PROVE SignerInv(p)
    BY DEF Init, SignerInv, InBlock
  <2>5. AckedInv /\ minted <= MaxMinted
    BY ConstantsAssumption DEF Init, AckedInv
  <2>6. QED
    BY <2>2, <2>3, <2>4, <2>5 DEF StoreInv
<1>2. TypeOK /\ TypeOK' /\ StoreInv /\ [Next]_vars => StoreInv'
  <2> SUFFICES ASSUME TypeOK, TypeOK', StoreInv, [Next]_vars PROVE StoreInv'
    OBVIOUS
  <2>1. ASSUME NEW p \in Proc, \E o \in Ops : Begin(p, o) PROVE StoreInv'
    BY <2>1, LockSteps
  <2>2. ASSUME NEW p \in Proc, Step(p) PROVE StoreInv'
    <3>1. CASE Acquire(p) \/ AcquireFails(p) \/ Release(p)
      BY <3>1, LockSteps
    <3>2. CASE Recover(p)
      BY <3>2, SkipJournalSteps, ReplayCommitStep, ReplayRollbackStep, CheckStateStep
         DEF Recover
    <3>3. CASE Transact(p)
      BY <3>3, SignStep, QuietSteps, JournalSteps, AppendPartStep, RollbackStep,
         CommitStateStep DEF Transact
    <3>4. CASE DropJournal(p) \/ Repair(p)
      BY <3>4, DropJournalStep, RepairStep
    <3>5. QED
      BY <2>2, <3>1, <3>2, <3>3, <3>4 DEF Step
  <2>3. ASSUME NEW p \in Proc, Crash(p) \/ Exit(p) PROVE StoreInv'
    BY <2>3, LockSteps
  <2>4. ASSUME LoseTail \/ DamageState \/ EraseState PROVE StoreInv'
    BY <2>4 DEF LoseTail, DamageState, EraseState, Fault, Tolerated
  <2>5. CASE UNCHANGED vars
    <3>1. ASSUME NEW q \in Proc PROVE SignerInv(q)'
      BY <2>5, Unmoved DEF StoreInv, vars
    <3>2. QED
      BY <2>5, <3>1, FilesKept DEF StoreInv, vars
  <2>6. QED
    BY <2>1, <2>2, <2>3, <2>4, <2>5 DEF Next
<1>3. QED
  BY <1>1, <1>2, TypeCorrect, PTL DEF Spec

\* Under the invariant the readable records of the log are the committed ones,
\* at cells 1, 4, 7, ..., and possibly the one being appended, after them.
LEMMA Readable ==
    ASSUME TypeOK, StoreInv
    PROVE  /\ \A n \in 1..state.seq : 3 * n - 2 \in RecordPositions(log)
           /\ \A i \in RecordPositions(log) : \E n \in 1..(state.seq + 1) :
                 /\ i = 3 * n - 2
                 /\ log[i].rec.seq = n
                 /\ log[i].rec.prev = LinkHash(log, n)
<1> DEFINE m == state.seq
<1>1. m \in Nat /\ log \in Seq(CellType)
  BY DEF TypeOK, NodeState
<1>2. Clean(log, m)
  BY DEF StoreInv, CommittedInv
<1>3. \A n \in 1..m : 3 * n - 2 \in RecordPositions(log)
  BY <1>1, <1>2, CleanPositions
<1>4. ASSUME NEW i \in RecordPositions(log)
      PROVE  \E n \in 1..(m + 1) : /\ i = 3 * n - 2
                                   /\ log[i].rec.seq = n
                                   /\ log[i].rec.prev = LinkHash(log, n)
  <2>1. i \in 1..Len(log) /\ log[i].k = 1
    BY DEF RecordPositions, IsRecordAt
  <2>2. CASE i <= 3 * m
    <3>1. PICK n \in 1..m : i = 3 * n - 2
      BY <1>1, <1>2, <2>2, CleanPositions
    <3>2. CleanLine(log, n)
      BY <1>2 DEF Clean
    <3>3. n \in 1..(m + 1)
      BY <1>1
    <3>4. QED
      BY <3>1, <3>2, <3>3 DEF CleanLine
  <2>3. CASE ~(i <= 3 * m)
    <3>1. ~Settled
      BY <1>1, <2>1, <2>3 DEF Settled
    <3>2. /\ NextRecord(journal.rec, journal.off)
          /\ Len(log) <= journal.off + 3
          /\ \A k \in 1..3 : journal.off + k <= Len(log)
                               => log[journal.off + k] = Cell(journal.rec, k)
      BY <3>1 DEF StoreInv, JournalInv
    <3>3. /\ journal.off = 3 * m /\ journal.rec.seq = m + 1
          /\ journal.rec.prev = LinkHash(log, m + 1)
      BY <3>2 DEF NextRecord
    <3>4. i - 3 * m \in 1..3 /\ journal.off + (i - 3 * m) = i
      BY <1>1, <2>1, <2>3, <3>2, <3>3, SMTT(40)
    <3>5. log[i] = Cell(journal.rec, i - 3 * m)
      <4>1. journal.off + (i - 3 * m) <= Len(log)
        BY <2>1, <3>4
      <4>2. QED
        BY <3>2, <3>4, <4>1
    <3>6. i - 3 * m = 1 /\ log[i].rec = journal.rec
      BY <2>1, <3>5 DEF Cell
    <3>7. m + 1 \in 1..(m + 1) /\ i = 3 * (m + 1) - 2
      <4>1. i \in Int
        BY <2>1
      <4>2. i - 3 * m = 1
        BY <3>6
      <4>3. QED
        BY <1>1, <4>1, <4>2
    <3>8. QED
      BY <3>3, <3>6, <3>7
  <2>4. QED
    BY <2>2, <2>3
<1>5. QED
  BY <1>3, <1>4

\* The state file never claims a sequence number that has no readable line,
\* and its hash is that of the last one.
THEOREM CommittedDurable == ASSUME Tolerated PROVE Spec => []CommittedIsDurable
<1>1. TypeOK /\ StoreInv => CommittedIsDurable
  <2> SUFFICES ASSUME TypeOK, StoreInv PROVE CommittedIsDurable
    OBVIOUS
  <2> DEFINE m == state.seq
  <2>1. m \in Nat /\ Clean(log, m)
    BY DEF TypeOK, NodeState, StoreInv, CommittedInv
  <2>2. \A n \in 1..m : 3 * n - 2 \in RecordPositions(log) /\ log[3 * n - 2].rec.seq = n
    BY <2>1, Readable DEF Clean, CleanLine
  <2>3. m > 0 => m \in 1..m /\ State(log[3 * m - 2].rec) = state
    BY <2>1 DEF StoreInv, CommittedInv
  <2>4. QED
    BY <2>2, <2>3 DEF CommittedIsDurable
<1>2. QED
  BY <1>1, TypeCorrect, StoreInvariant, PTL

\* Read from the top, the log's readable lines are 1, 2, 3, ..., each naming
\* the hash of the one before it.
THEOREM FileOrder == ASSUME Tolerated PROVE Spec => []FileOrderIsSequenceOrder
<1>1. TypeOK /\ StoreInv => FileOrderIsSequenceOrder
  <2> SUFFICES ASSUME TypeOK, StoreInv, NEW i \in RecordPositions(log)
               PROVE  LET before == {j \in RecordPositions(log) : j < i} IN
                      IF before = {}
                      THEN log[i].rec.seq = 1 /\ log[i].rec.prev = Genesis
                      ELSE \E j \in before : /\ \A k \in before : k <= j
                                             /\ log[i].rec.seq = log[j].rec.seq + 1
                                             /\ log[i].rec.prev = log[j].rec.hash
    BY DEF FileOrderIsSequenceOrder
  <2> DEFINE m == state.seq  before == {j \in RecordPositions(log) : j < i}
  <2>1. m \in Nat /\ Clean(log, m)
    BY DEF TypeOK, NodeState, StoreInv, CommittedInv
  <2>2. PICK n \in 1..(m + 1) : /\ i = 3 * n - 2
                                /\ log[i].rec.seq = n
                                /\ log[i].rec.prev = LinkHash(log, n)
    BY Readable
  <2>3. ASSUME NEW j \in before PROVE \E k \in 1..(n - 1) : j = 3 * k - 2
    <3>1. j \in RecordPositions(log) /\ j < i
      OBVIOUS
    <3>2. PICK k \in 1..(m + 1) : j = 3 * k - 2
      BY <3>1, Readable
    <3>3. k \in 1..(n - 1)
      BY <2>1, <2>2, <3>1, <3>2
    <3>4. QED
      BY <3>2, <3>3
  <2>4. CASE n = 1
    <3>1. before = {}
      BY <2>3, <2>4
    <3>2. QED
      BY <2>2, <2>4, <3>1 DEF LinkHash
  <2>5. CASE n # 1
    <3> DEFINE j == 3 * n - 5
    <3>1. n - 1 \in 1..m /\ j = 3 * (n - 1) - 2 /\ j < i
      BY <2>1, <2>2, <2>5
    <3>2. j \in before
      <4>1. 3 * (n - 1) - 2 \in RecordPositions(log)
        BY <3>1, Readable
      <4>2. QED
        BY <3>1, <4>1
    <3>3. \A k \in before : k <= j
      BY <2>1, <2>3
    <3>4. log[j].rec.seq = n - 1
      BY <2>1, <3>1 DEF Clean, CleanLine
    <3>5. log[i].rec.seq = log[j].rec.seq + 1
      BY <2>2, <3>4
    <3>6. log[i].rec.prev = log[j].rec.hash
      BY <2>2, <2>5 DEF LinkHash
    <3>7. QED
      BY <3>2, <3>3, <3>5, <3>6
  <2>6. QED
    BY <2>4, <2>5
<1>2. QED
  BY <1>1, TypeCorrect, StoreInvariant, PTL

\* A record a caller was given stays readable in the log, alone with its
\* sequence number.
THEOREM AckedDurable == ASSUME Tolerated PROVE Spec => []AckedIsDurable
<1>1. TypeOK /\ StoreInv => AckedIsDurable
  <2> SUFFICES ASSUME TypeOK, StoreInv, NEW r \in acked
               PROVE  /\ \E i \in RecordPositions(log) : log[i].rec = r
                      /\ \A i \in RecordPositions(log) :
                             log[i].rec.seq = r.seq => log[i].rec = r
    BY DEF AckedIsDurable
  <2> DEFINE m == state.seq
  <2>1. PICK n \in 1..m : log[3 * n - 2].rec = r
    BY DEF StoreInv, AckedInv
  <2>2. 3 * n - 2 \in RecordPositions(log)
    BY Readable
  <2>3. r.seq = n
    BY <2>1 DEF StoreInv, CommittedInv, Clean, CleanLine
  <2>4. ASSUME NEW i \in RecordPositions(log), log[i].rec.seq = r.seq PROVE log[i].rec = r
    <3>1. i = 3 * log[i].rec.seq - 2
      BY Readable
    <3>2. QED
      BY <2>1, <2>3, <2>4, <3>1
  <2>5. QED
    BY <2>1, <2>2, <2>4
<1>2. QED
  BY <1>1, TypeCorrect, StoreInvariant, PTL

----------------------------------------------------------------------------
(* What a step does to the chain *)

\* The committed lines stay; at most one of their records is acknowledged.
Keeps ==
    /\ state' = state
    /\ Len(log') >= 3 * state.seq
    /\ \A i \in 1..(3 * state.seq) : log'[i] = log[i]
    /\ acked' = acked \/ \E n \in 1..state.seq : acked' = acked \union {log[3 * n - 2].rec}

\* The record after the committed ones, complete in the log, is committed.
Grows ==
    /\ state'.seq = state.seq + 1
    /\ log' = log
    /\ acked' = acked
    /\ Clean(log, state.seq + 1)
    /\ log[3 * state.seq + 1].rec.hash \in 0..MaxMinted

\* A step that touches neither the log nor the state nor acked keeps the chain.
LEMMA KeepsAll ==
    ASSUME TypeOK, StoreInv, UNCHANGED <<log, state, acked>>
    PROVE  Keeps
  BY DEF Keeps, StoreInv, CommittedInv, Clean

\* Writing the journalled record, once complete, to the state grows the chain.
LEMMA GrowsByJournal ==
    ASSUME TypeOK, StoreInv, journal.kind = "entry",
           NextRecord(journal.rec, journal.off), AppendCompleted(log, journal),
           state' = State(journal.rec), UNCHANGED <<log, acked>>
    PROVE  Grows
<1>1. Clean(log, state.seq + 1) /\ log[3 * state.seq + 1].rec = journal.rec
  BY CompletedIsClean
<1>2. journal.rec.seq = state.seq + 1 /\ journal.rec.hash \in 0..MaxMinted
  BY ConstantsAssumption DEF NextRecord
<1>3. QED
  BY <1>1, <1>2 DEF Grows, State

\* Cutting the log back to the end of the committed lines keeps the chain.
LEMMA KeepsOnCut ==
    ASSUME TypeOK, StoreInv, NEW o, o = 3 * state.seq, log' = Truncated(log, o),
           UNCHANGED <<state, acked>>
    PROVE  Keeps
<1> DEFINE m == state.seq
<1>1. m \in Nat /\ 3 * m \in Nat /\ log \in Seq(CellType)
  BY DEF TypeOK, NodeState
<1>2. Len(log) >= 3 * m
  BY DEF StoreInv, CommittedInv, Clean
<1>3. /\ Len(Truncated(log, 3 * m)) = 3 * m
      /\ \A i \in 1..(3 * m) : i <= Len(log) => Truncated(log, 3 * m)[i] = log[i]
  BY <1>1, TruncatedType
<1>4. \A i \in 1..(3 * m) : i <= Len(log)
  BY <1>1, <1>2
<1>5. QED
  BY <1>1, <1>3, <1>4 DEF Keeps

\* Every step of the store keeps the chain or grows it by one record.
LEMMA StepEffect ==
    ASSUME TypeOK, StoreInv, Tolerated, [Next]_vars
    PROVE  Keeps \/ Grows
<1> DEFINE m == state.seq
<1>1. ASSUME NEW p \in Proc,
             \/ \E o \in Ops : Begin(p, o)
             \/ Acquire(p) \/ AcquireFails(p) \/ Release(p) \/ Crash(p) \/ Exit(p)
      PROVE  Keeps
  BY <1>1, KeepsAll DEF Begin, Acquire, AcquireFails, Release, Crash, Exit, disk, ghosts
<1>2. ASSUME NEW p \in Proc, ReplayNothing(p) \/ DiscardJournal(p) PROVE Keeps
  BY <1>2, KeepsAll DEF ReplayNothing, DiscardJournal, disk, ghosts
<1>3. ASSUME NEW p \in Proc, ReplayCommit(p) PROVE Keeps \/ Grows
  <2>1. /\ UNCHANGED <<log, acked>> /\ journal.kind = "entry"
        /\ AppendCompleted(log, journal) /\ pc[p] = "recover"
    BY <1>3 DEF ReplayCommit, ghosts
  <2>2. ReadState(p) = state
    BY <2>1, Owner DEF InBlock
  <2>3. UNCHANGED state \/ (state.seq < journal.rec.seq /\ state' = State(journal.rec))
    BY <1>3, <2>2 DEF ReplayCommit
  <2>4. CASE UNCHANGED state
    BY <2>1, <2>4, KeepsAll
  <2>5. CASE state.seq < journal.rec.seq /\ state' = State(journal.rec)
    <3>1. state.seq \in Nat
      BY DEF TypeOK, NodeState
    <3>2. NextRecord(journal.rec, journal.off)
      BY <2>1, <2>5, <3>1 DEF StoreInv, JournalInv, State
    <3>3. QED
      BY <2>1, <2>5, <3>2, GrowsByJournal
  <2>6. QED
    BY <2>3, <2>4, <2>5
<1>4. ASSUME NEW p \in Proc, ReplayRollback(p) PROVE Keeps
  <2>1. /\ UNCHANGED <<state, acked>> /\ journal.kind = "entry"
        /\ ~AppendCompleted(log, journal)
        /\ log' = log \/ log' = Truncated(log, journal.off)
    BY <1>4 DEF ReplayRollback, ghosts
  <2>2. journal.off = 3 * m
    <3>1. m \in Nat
      BY DEF TypeOK, NodeState
    <3>2. \A k \in 1..3 : journal.off + k <= Len(log)
                            => log[journal.off + k] = Cell(journal.rec, k)
      BY <2>1 DEF StoreInv, JournalInv
    <3>3. ~(journal.off = 3 * m - 3 /\ Settled)
      BY <2>1, <3>1, <3>2 DEF AppendCompleted, Settled, Newline
    <3>4. QED
      BY <2>1, <3>3 DEF StoreInv, JournalInv, NextRecord
  <2>3. QED
    BY <2>1, <2>2, KeepsAll, KeepsOnCut
<1>5. ASSUME NEW p \in Proc, CheckState(p) PROVE Keeps
  <2>1. UNCHANGED <<log, acked>> /\ pc[p] = "check"
    BY <1>5 DEF CheckState, ghosts
  <2>2. ReadState(p) = state /\ m \in Nat /\ log \in Seq(CellType)
    BY <2>1, Owner DEF InBlock, TypeOK, NodeState
  <2>3. Clean(log, m) /\ Len(log) = 3 * m
    BY <2>1 DEF StoreInv, CommittedInv, SignerInv, Settled
  <2>4. IF m = 0 THEN LastLogged(log) = NoRec ELSE LastLogged(log).seq = m
    BY <2>2, <2>3, CleanLast
  <2>5. ~(LastLogged(log).seq > m)
    BY <2>2, <2>4 DEF NoRec
  <2>6. UNCHANGED state
    BY <1>5, <2>2, <2>5 DEF CheckState
  <2>7. QED
    BY <2>1, <2>6, KeepsAll
<1>6. ASSUME NEW p \in Proc,
             \/ Sign(p) \/ SignFails(p) \/ OpenJournal(p) \/ FillJournal(p)
             \/ JournalFails(p) \/ SyncLog(p) \/ AppendFails(p) \/ CommitFails(p)
      PROVE  Keeps
  BY <1>6, KeepsAll DEF Sign, SignFails, OpenJournal, FillJournal, JournalFails, SyncLog,
                        AppendFails, CommitFails, disk, ghosts
<1>7. ASSUME NEW p \in Proc, AppendPart(p) PROVE Keeps
  <2>1. UNCHANGED <<state, acked>> /\ log' = Append(log, Cell(rec[p], part[p] + 1))
    BY <1>7 DEF AppendPart, ghosts
  <2>2. m \in Nat /\ log \in Seq(CellType) /\ Len(log) >= 3 * m
    BY DEF TypeOK, NodeState, StoreInv, CommittedInv, Clean
  <2>3. Cell(rec[p], part[p] + 1) \in CellType
    <3>1. rec[p] \in Record /\ part[p] \in 0..3 /\ part[p] < 3
      BY <1>7 DEF AppendPart, TypeOK, Newline
    <3>2. part[p] + 1 \in 0..3
      BY <3>1
    <3>3. QED
      BY <3>1, <3>2, CellIsCell DEF Newline
  <2>4. Len(log') = Len(log) + 1 /\ \A i \in 1..Len(log) : log'[i] = log[i]
    BY <2>1, <2>2, <2>3
  <2>5. \A i \in 1..(3 * m) : i \in 1..Len(log)
    BY <2>2
  <2>6. Len(log') >= 3 * m /\ \A i \in 1..(3 * m) : log'[i] = log[i]
    BY <2>2, <2>4, <2>5
  <2>7. QED
    BY <2>1, <2>6 DEF Keeps
<1>8. ASSUME NEW p \in Proc, Rollback(p) PROVE Keeps
  <2>1. /\ UNCHANGED <<state, acked>> /\ pc[p] = "rollback"
        /\ log' = log \/ log' = Truncated(log, off[p])
    BY <1>8 DEF Rollback, ghosts
  <2>2. off[p] = 3 * m
    BY <2>1 DEF StoreInv, SignerInv, NextRecord
  <2>3. QED
    BY <2>1, <2>2, KeepsAll, KeepsOnCut
<1>9. ASSUME NEW p \in Proc, CommitState(p) PROVE Grows
  <2>1. UNCHANGED <<log, acked>> /\ state' = State(rec[p]) /\ pc[p] = "commit"
    BY <1>9 DEF CommitState, ghosts
  <2>2. /\ NextRecord(rec[p], off[p]) /\ journal = Entry(rec[p], off[p])
        /\ Len(log) = off[p] + 3
    BY <2>1 DEF StoreInv, SignerInv
  <2>3. journal.kind = "entry" /\ journal.rec = rec[p] /\ journal.off = off[p]
    BY <2>2 DEF Entry
  <2>4. AppendCompleted(log, journal)
    <3>1. off[p] \in Nat
      BY DEF TypeOK
    <3>2. \A k \in 1..3 : journal.off + k <= Len(log)
      BY <2>2, <2>3, <3>1
    <3>3. \A k \in 1..3 : log[journal.off + k] = Cell(journal.rec, k)
      BY <2>3, <3>2 DEF StoreInv, JournalInv
    <3>4. Len(log) >= journal.off + 3
      BY <2>2, <2>3, <3>1
    <3>5. QED
      BY <3>3, <3>4 DEF AppendCompleted, Newline
  <2>5. QED
    BY <2>1, <2>2, <2>3, <2>4, GrowsByJournal
<1>10. ASSUME NEW p \in Proc, DropJournal(p) PROVE Keeps
  <2>1. /\ UNCHANGED <<log, state>>
        /\ acked' = acked \/ (pc[p] = "drop" /\ acked' = acked \union {rec[p]})
    BY <1>10 DEF DropJournal
  <2>2. CASE acked' = acked
    BY <2>1, <2>2, KeepsAll
  <2>3. CASE pc[p] = "drop" /\ acked' = acked \union {rec[p]}
    <3>1. m > 0 /\ m \in Nat /\ rec[p] = log[3 * m - 2].rec /\ Len(log) >= 3 * m
      BY <2>3 DEF StoreInv, SignerInv, TypeOK, NodeState, CommittedInv, Clean
    <3>2. m \in 1..m
      BY <3>1
    <3>3. QED
      BY <2>1, <2>3, <3>1, <3>2 DEF Keeps
  <2>4. QED
    BY <2>1, <2>2, <2>3
<1>11. ASSUME NEW p \in Proc, Repair(p) PROVE Keeps \/ Grows
  <2>1. /\ UNCHANGED <<log, acked>> /\ pc[p] = "repair"
        /\ UNCHANGED state \/ state' = State(LastLogged(log))
    BY <1>11 DEF Repair, RepairedState, ghosts
  <2>2. m \in Nat /\ log \in Seq(CellType)
    BY DEF TypeOK, NodeState
  <2>3. CASE UNCHANGED state
    BY <2>1, <2>3, KeepsAll
  <2>4. CASE state' = State(LastLogged(log)) /\ Settled
    <3>1. Clean(log, m) /\ Len(log) = 3 * m
      BY <2>4 DEF StoreInv, CommittedInv, Settled
    <3>2. IF m = 0 THEN LastLogged(log) = NoRec ELSE LastLogged(log) = log[3 * m - 2].rec
      BY <2>2, <3>1, CleanLast
    <3>3. state' = state
      BY <2>4, <3>2 DEF StoreInv, CommittedInv, ZeroState
    <3>4. QED
      BY <2>1, <3>3, KeepsAll
  <2>5. CASE state' = State(LastLogged(log)) /\ ~Settled
    <3>1. /\ journal.kind = "entry" /\ AppendCompleted(log, journal)
          /\ NextRecord(journal.rec, journal.off)
      BY <2>1, <2>5 DEF StoreInv, SignerInv, JournalInv
    <3>2. /\ Clean(log, m + 1) /\ Len(log) = 3 * (m + 1)
          /\ log[3 * m + 1].rec = journal.rec
      BY <3>1, CompletedIsClean
    <3>3. m + 1 \in Nat /\ m + 1 # 0 /\ 3 * (m + 1) - 2 = 3 * m + 1
      BY <2>2
    <3>4. LastLogged(log) = log[3 * (m + 1) - 2].rec
      BY <2>2, <3>2, <3>3, CleanLast
    <3>5. state' = State(journal.rec)
      BY <2>5, <3>2, <3>3, <3>4
    <3>6. QED
      BY <2>1, <3>1, <3>5, GrowsByJournal
  <2>6. QED
    BY <2>1, <2>3, <2>4, <2>5
<1>12. ASSUME LoseTail \/ DamageState \/ EraseState PROVE Keeps
  BY <1>12 DEF LoseTail, DamageState, EraseState, Fault, Tolerated
<1>13. CASE UNCHANGED vars
  BY <1>13, KeepsAll DEF vars
<1>14. QED
  BY <1>1, <1>2, <1>3, <1>4, <1>5, <1>6, <1>7, <1>8, <1>9, <1>10, <1>11, <1>12, <1>13
     DEF Next, Step, Recover, Transact

\* Neither a commit nor a recovery nor recover-state takes the state back.
THEOREM NeverRewinds == ASSUME Tolerated PROVE Spec => StateNeverRewinds
<1>1. TypeOK /\ StoreInv /\ [Next]_vars
        => [Valid(state) /\ Valid(state') => state'.seq >= state.seq]_vars
  <2> SUFFICES ASSUME TypeOK, StoreInv, [Next]_vars
               PROVE  state'.seq >= state.seq
    OBVIOUS
  <2>1. state.seq \in Nat
    BY DEF TypeOK, NodeState
  <2>2. QED
    BY <2>1, StepEffect DEF Keeps, Grows
<1>2. QED
  BY <1>1, TypeCorrect, StoreInvariant, PTL DEF Spec, StateNeverRewinds

\* No truncate, rollback or recovery touches a cell of a committed line.
THEOREM LinesImmutable == ASSUME Tolerated PROVE Spec => CommittedLinesImmutable
<1> DEFINE Kept == \A i \in 1..Len(log) : i <= Newline * state.seq
                              => i <= Len(log') /\ log'[i] = log[i]
<1>1. TypeOK /\ TypeOK' /\ StoreInv /\ [Next]_vars => [Kept]_vars
  <2> SUFFICES ASSUME TypeOK, TypeOK', StoreInv, [Next]_vars, NEW i \in 1..Len(log),
                      i <= 3 * state.seq
               PROVE  i <= Len(log') /\ log'[i] = log[i]
    BY DEF Newline
  <2>1. state.seq \in Nat /\ i \in 1..(3 * state.seq) /\ i <= Len(log) /\ log \in Seq(CellType)
    BY DEF TypeOK, NodeState
  <2>2. CASE Grows
    BY <2>1, <2>2 DEF Grows
  <2>3. CASE Keeps
    <3>1. Len(log') >= 3 * state.seq /\ log'[i] = log[i]
      BY <2>1, <2>3 DEF Keeps
    <3>2. Len(log') \in Nat
      BY DEF TypeOK
    <3>3. QED
      BY <2>1, <3>1, <3>2
  <2>4. QED
    BY <2>2, <2>3, StepEffect
<1>2. QED
  BY <1>1, TypeCorrect, StoreInvariant, PTL DEF Spec, CommittedLinesImmutable

\* Two record sequences of one length with the same elements are equal.
LEMMA SameSeq ==
    ASSUME NEW s \in Seq(Record), NEW t \in Seq(Record), Len(s) = Len(t),
           \A n \in 1..Len(s) : s[n] = t[n]
    PROVE  s = t
  OBVIOUS

\* A sequence that extends another by one element is that Append.
LEMMA IsAppend ==
    ASSUME NEW s \in Seq(Record), NEW t \in Seq(Record), NEW r \in Record,
           Len(t) = Len(s) + 1, \A n \in 1..Len(s) : t[n] = s[n], t[Len(s) + 1] = r
    PROVE  t = Append(s, r)
<1>1. Append(s, r) \in Seq(Record) /\ Len(Append(s, r)) = Len(t)
  OBVIOUS
<1>2. ASSUME NEW n \in 1..Len(t) PROVE t[n] = Append(s, r)[n]
  <2>1. CASE n \in 1..Len(s)
    BY <2>1
  <2>2. CASE n = Len(s) + 1
    BY <2>2
  <2>3. QED
    BY <2>1, <2>2
<1>3. QED
  BY <1>1, <1>2, SameSeq

\* Every cell of a log belongs to a record.
LEMMA CellRecord == ASSUME NEW l \in Seq(CellType), NEW i \in 1..Len(l) PROVE l[i].rec \in Record
<1>1. l[i] \in CellType
  OBVIOUS
<1>2. QED
  BY <1>1 DEF CellType

\* CommittedChain is the sequence of the committed lines' records.
LEMMA ChainOfLog ==
    ASSUME TypeOK, StoreInv
    PROVE  /\ CommittedChain \in Seq(Record)
           /\ Len(CommittedChain) = state.seq
           /\ \A n \in 1..state.seq : CommittedChain[n] = log[3 * n - 2].rec
<1> DEFINE m == state.seq
<1>1. m \in Nat /\ log \in Seq(CellType) /\ Len(log) >= 3 * m
  BY DEF TypeOK, NodeState, StoreInv, CommittedInv, Clean
<1>2. \A n \in 1..m : 3 * (n - 1) + 1 = 3 * n - 2 /\ 3 * n - 2 \in 1..Len(log)
  BY <1>1
<1>3. \A n \in 1..m : log[3 * n - 2].rec \in Record
  BY <1>1, <1>2, CellRecord
<1>4. CommittedChain = [n \in 1..m |-> log[3 * n - 2].rec]
  BY <1>1, <1>2 DEF CommittedChain, Newline
<1>5. QED
  BY <1>1, <1>3, <1>4, SMTT(40)

\* The store implements the append-only, hash-linked chain of EvidenceChain.
THEOREM StoreImplementsChain == ASSUME Tolerated PROVE Spec => ImplementsChain
<1>1. Init => Chain!ChainInit
  <2> SUFFICES ASSUME Init PROVE Chain!ChainInit
    OBVIOUS
  <2>1. state.seq = 0 /\ acked = {}
    BY DEF Init, ZeroState, State, NoRec
  <2>2. CommittedChain = << >>
    BY <2>1 DEF CommittedChain
  <2>3. QED
    BY <2>1, <2>2 DEF Chain!ChainInit
<1>2. TypeOK /\ TypeOK' /\ StoreInv /\ StoreInv' /\ [Next]_vars
        => [Chain!ChainNext]_(Chain!chainVars)
  <2> SUFFICES ASSUME TypeOK, TypeOK', StoreInv, StoreInv', [Next]_vars
               PROVE  [Chain!ChainNext]_(Chain!chainVars)
    OBVIOUS
  <2> DEFINE m == state.seq  c == CommittedChain
  <2>1. /\ c \in Seq(Record) /\ Len(c) = m
        /\ \A n \in 1..m : c[n] = log[3 * n - 2].rec
    BY ChainOfLog
  <2>2. /\ c' \in Seq(Record) /\ Len(c') = state'.seq
        /\ \A n \in 1..state'.seq : c'[n] = log'[3 * n - 2].rec
    <3>1. (TypeOK /\ StoreInv =>
              /\ CommittedChain \in Seq(Record)
              /\ Len(CommittedChain) = state.seq
              /\ \A n \in 1..state.seq : CommittedChain[n] = log[3 * n - 2].rec)'
      BY ChainOfLog, PTL
    <3>2. QED
      BY <3>1
  <2>3. m \in Nat
    BY DEF TypeOK, NodeState
  <2>4. CASE Keeps
    <3>1. \A n \in 1..m : 3 * n - 2 \in 1..(3 * m)
      BY <2>3
    <3>2. \A n \in 1..m : c'[n] = c[n]
      BY <2>1, <2>2, <2>4, <3>1 DEF Keeps
    <3>3. c' = c
      <4>1. Len(c') = Len(c)
        BY <2>1, <2>2, <2>4 DEF Keeps
      <4>2. QED
        BY <2>1, <2>2, <3>2, <4>1, SameSeq
    <3>4. CASE acked' = acked
      BY <3>3, <3>4 DEF Chain!chainVars
    <3>5. CASE \E n \in 1..m : acked' = acked \union {log[3 * n - 2].rec}
      <4>1. PICK n \in 1..m : acked' = acked \union {log[3 * n - 2].rec}
        BY <3>5
      <4>2. acked' = acked \union {c[n]} /\ n \in 1..Len(c)
        BY <2>1, <4>1
      <4>3. QED
        BY <3>3, <4>2 DEF Chain!ChainNext, Chain!Acknowledge
    <3>6. QED
      BY <2>4, <3>4, <3>5 DEF Keeps
  <2>5. CASE Grows
    <3> DEFINE r == log[3 * m + 1].rec
    <3>1. CleanLine(log, m + 1) /\ 3 * (m + 1) - 2 = 3 * m + 1 /\ Len(log) >= 3 * (m + 1)
      BY <2>3, <2>5 DEF Grows, Clean
    <3>2. r.seq = m + 1 /\ r.prev = LinkHash(log, m + 1) /\ r \in Record
      <4>1. r.seq = m + 1 /\ r.prev = LinkHash(log, m + 1)
        BY <3>1 DEF CleanLine
      <4>2. 3 * m + 1 \in 1..Len(log) /\ log \in Seq(CellType)
        <5>1. log \in Seq(CellType)
          BY DEF TypeOK
        <5>2. QED
          BY <2>3, <3>1, <5>1
      <4>3. QED
        BY <4>1, <4>2, CellRecord
    <3>3. c' = Append(c, r)
      <4>1. Len(c') = m + 1 /\ state'.seq = m + 1 /\ log' = log
        BY <2>2, <2>5 DEF Grows
      <4>2. \A n \in 1..(m + 1) : c'[n] = log[3 * n - 2].rec
        BY <2>2, <4>1
      <4>3. \A n \in 1..m : c'[n] = c[n]
        BY <2>1, <2>3, <4>2
      <4>4. c'[m + 1] = r
        <5>1. m + 1 \in 1..(m + 1)
          BY <2>3
        <5>2. QED
          BY <3>1, <4>2, <5>1
      <4>5. QED
        BY <2>1, <2>2, <3>2, <4>1, <4>3, <4>4, IsAppend
    <3>4. r.prev = Chain!HeadHash(c)
      <4>1. CASE m = 0
        <5>1. c = << >>
          BY <2>1, <4>1
        <5>2. QED
          BY <3>2, <4>1, <5>1 DEF Chain!HeadHash, Chain!Genesis, LinkHash, Genesis
      <4>2. CASE m # 0
        <5>1. c # << >> /\ m \in 1..m /\ m + 1 # 1 /\ 3 * (m + 1) - 5 = 3 * m - 2
          BY <2>1, <2>3, <4>2
        <5>2. Chain!HeadHash(c) = log[3 * m - 2].rec.hash
          BY <2>1, <5>1 DEF Chain!HeadHash
        <5>3. LinkHash(log, m + 1) = log[3 * m - 2].rec.hash
          BY <5>1 DEF LinkHash
        <5>4. QED
          BY <3>2, <5>2, <5>3
      <4>3. QED
        BY <4>1, <4>2
    <3>5. r = [seq |-> Len(c) + 1, prev |-> Chain!HeadHash(c), hash |-> r.hash]
      BY <2>1, <3>2, <3>4 DEF Record
    <3>6. Chain!Commit(r)
      BY <2>1, <2>5, <3>2, <3>3, <3>4 DEF Chain!Commit, Grows
    <3>7. r.hash \in 0..MaxMinted
      BY <2>5 DEF Grows
    <3>8. QED
      BY <3>5, <3>6, <3>7 DEF Chain!ChainNext
  <2>6. QED
    BY <2>4, <2>5, StepEffect
<1>3. QED
  BY <1>1, <1>2, TypeCorrect, StoreInvariant, PTL DEF Spec, ImplementsChain, Chain!ChainSpec

----------------------------------------------------------------------------
(* Under damage: the sequence numbers a caller was given *)

\* The signer that holds the lock is the only one inside its block, so a step of
\* it that leaves the invariant intact for itself and the files leaves it intact.
LEMMA ReissueStep ==
    ASSUME ReissueInv, NEW p \in Proc, InBlock(p),
           \A q \in Proc \ {p} : pc'[q] = pc[q] /\ cache'[q] = cache[q] /\ op'[q] = op[q],
           Covers(state)', ReissueOk(p)'
    PROVE  ReissueInv'
<1>1. ASSUME NEW q \in Proc, q # p PROVE ReissueOk(q)'
  <2>1. ~InBlock(q) /\ cache[q] = NoState /\ op[q] = "sign"
    BY <1>1 DEF ReissueInv, ReissueOk
  <2>2. ~InBlock(q)' /\ cache'[q] = NoState /\ op'[q] = "sign"
    BY <1>1, <2>1 DEF InBlock
  <2>3. ~Valid(NoState)
    BY DEF Valid, NoState
  <2>4. QED
    BY <2>2, <2>3 DEF ReissueOk, InBlock, Covers, Vouched, Valid
<1>2. QED
  BY <1>1 DEF ReissueInv

\* The invariant holds initially.
LEMMA ReissueInit == ASSUME Init PROVE ReissueInv
  BY DEF Init, ReissueInv, Covers, Vouched, ReissueOk, InBlock, Valid, NoState

\* The store a signer gives up knows nothing.
LEMMA ReissueIdle ==
    ASSUME NEW p \in Proc, pc'[p] \in {"idle", "waiting"}, cache'[p] = NoState, op'[p] = "sign"
    PROVE  ReissueOk(p)'
  BY DEF ReissueOk, InBlock, Covers, Vouched, Valid, NoState

\* Calls, time-outs, crashes and exits keep it.
LEMMA ReissueOutside ==
    ASSUME TypeOK, ReissueInv, NEW p \in Proc,
           \/ Begin(p, "sign") \/ Acquire(p) \/ AcquireFails(p) \/ Release(p)
           \/ Crash(p) \/ Exit(p)
    PROVE  ReissueInv'
<1>1. /\ pc \in [Proc -> Labels] /\ op \in [Proc -> {"sign", "repair"}]
      /\ cache \in [Proc -> NodeState] /\ rec \in [Proc -> Record]
  BY DEF TypeOK
<1>2. UNCHANGED <<state, acked, orphaned>> /\ Covers(state)'
  <2>1. UNCHANGED <<state, acked, orphaned>>
    BY DEF Begin, Acquire, AcquireFails, Release, Crash, Exit, disk, ghosts
  <2>2. QED
    BY <2>1 DEF ReissueInv, Covers, Vouched, Valid
<1>3. \A q \in Proc : ReissueOk(q)
  BY DEF ReissueInv
<1>4. \A q \in Proc \ {p} : /\ pc'[q] = pc[q] /\ cache'[q] = cache[q]
                            /\ rec'[q] = rec[q] /\ op'[q] = op[q]
  BY <1>1 DEF Begin, Acquire, AcquireFails, Release, Crash, Exit, Goto, ForgetStore, locals
<1>5. ASSUME NEW q \in Proc, q # p PROVE ReissueOk(q)'
  <2>1. lock' = lock \/ ~InBlock(q)
    <3>1. CASE lock = p \/ lock = Free
      BY <1>3, <1>5, <3>1, ConstantsAssumption DEF ReissueOk
    <3>2. CASE lock # p /\ lock # Free
      BY <3>2, <1>3 DEF Begin, Acquire, AcquireFails, Release, Crash, Exit, LockAvailable,
                        ReissueOk, InBlock
    <3>3. QED
      BY <3>1, <3>2
  <2>2. pc'[q] = pc[q] /\ cache'[q] = cache[q] /\ rec'[q] = rec[q] /\ op'[q] = op[q]
    BY <1>4, <1>5
  <2>3. QED
    BY <1>2, <1>3, <2>1, <2>2 DEF ReissueOk, InBlock, Covers, Fresh, Vouched, Valid, State
<1>6. ReissueOk(p)'
  <2>1. op'[p] = "sign"
    BY <1>1, <1>3 DEF Begin, Acquire, AcquireFails, Release, Crash, Exit, ReissueOk
  <2>2. CASE Acquire(p)
    <3>1. lock' = p /\ pc'[p] = "recover" /\ cache'[p] = NoState
      BY <1>1, <1>3, <2>2 DEF Acquire, Goto, ReissueOk, InBlock, locals
    <3>2. QED
      BY <2>1, <3>1 DEF ReissueOk, InBlock, Covers, Vouched, Valid, NoState
  <2>3. CASE ~Acquire(p)
    <3>1. pc'[p] \in {"idle", "waiting"} /\ cache'[p] = NoState
      BY <1>1, <1>3, <2>3 DEF Begin, AcquireFails, Release, Crash, Exit, Goto, ForgetStore,
                              ReissueOk, InBlock, locals
    <3>2. QED
      BY <2>1, <3>1, ReissueIdle
  <2>4. QED
    BY <2>2, <2>3
<1>7. QED
  BY <1>2, <1>5, <1>6 DEF ReissueInv

\* A recovery that raises leaves the with statement and forgets the store.
LEMMA ReissueRaises ==
    ASSUME TypeOK, ReissueInv, NEW p \in Proc, NEW s, RecoverRaises(p, s), InBlock(p),
           UNCHANGED <<op, state, acked, orphaned>>
    PROVE  ReissueInv'
<1>1. /\ pc \in [Proc -> Labels] /\ op[p] = "sign" /\ Covers(state)
      /\ cache \in [Proc -> NodeState]
  BY DEF TypeOK, ReissueInv, ReissueOk
<1>2. Goto(p, "idle") /\ ForgetStore(p)
  BY <1>1 DEF RecoverRaises
<1>3. /\ pc'[p] = "idle" /\ cache'[p] = NoState
      /\ \A q \in Proc \ {p} : pc'[q] = pc[q] /\ cache'[q] = cache[q] /\ op'[q] = op[q]
  BY <1>1, <1>2 DEF Goto, ForgetStore
<1>4. Covers(state)' /\ op'[p] = "sign"
  BY <1>1 DEF Covers, Vouched, Valid
<1>5. ReissueOk(p)'
  BY <1>3, <1>4, ReissueIdle
<1>6. QED
  BY <1>3, <1>4, <1>5, ReissueStep

\* What recovery reads: a state it can trust, or nothing it accepts.
LEMMA ReadCovers ==
    ASSUME ReissueInv, NEW p \in Proc PROVE Covers(ReadState(p))
  BY DEF ReissueInv, ReissueOk, ReadState

\* A state ahead of one that covers the acknowledged records covers them too.
LEMMA HigherCovers ==
    ASSUME TypeOK, NEW s \in NodeState, NEW r \in Record, Valid(s), Covers(s), s.seq <= r.seq
    PROVE  Covers(State(r)) /\ Valid(State(r))
<1>1. /\ s.seq \in Nat /\ r.seq \in Nat /\ \A a \in Vouched : a.seq \in Nat
      /\ State(r).seq = r.seq /\ State(r).kind = "valid"
  BY DEF TypeOK, NodeState, Record, State, Vouched
<1>2. QED
  BY <1>1 DEF Covers, Vouched, Valid

\* Recovery settles on a state c, cached and perhaps written, that covers what was
\* acknowledged.
LEMMA ReissueSettles ==
    ASSUME TypeOK, ReissueInv, NEW p \in Proc, InBlock(p), NEW c, NEW label,
           label \in {"recover_drop", "check", "ready"},
           pc' = [pc EXCEPT ![p] = label], cache' = [cache EXCEPT ![p] = c],
           UNCHANGED <<lock, op, acked, orphaned>>, Valid(c), Covers(c), state' \in {state, c}
    PROVE  ReissueInv'
<1>1. /\ pc \in [Proc -> Labels] /\ cache \in [Proc -> NodeState]
      /\ ReissueOk(p) /\ Covers(state)
  BY DEF TypeOK, ReissueInv
<1>2. /\ \A q \in Proc \ {p} : pc'[q] = pc[q] /\ cache'[q] = cache[q] /\ op'[q] = op[q]
      /\ pc'[p] = label /\ cache'[p] = c /\ op'[p] = op[p]
  BY <1>1
<1>3. Covers(state)'
  BY <1>1 DEF Covers, Vouched, Valid
<1>4. ReissueOk(p)'
  BY <1>1, <1>2 DEF ReissueOk, InBlock, Covers, Vouched, Valid
<1>5. QED
  BY <1>2, <1>3, <1>4, ReissueStep

\* Recovery keeps the invariant: it writes a state only to bring it forward.
LEMMA ReissueRecover ==
    ASSUME TypeOK, ReissueInv, NEW p \in Proc, Recover(p)
    PROVE  ReissueInv'
<1> DEFINE s == ReadState(p)
<1>1. /\ Covers(s) /\ s \in NodeState /\ ReissueOk(p)
      /\ LastLogged(log) \in Record /\ journal.rec \in Record
  <2>1. log \in Seq(CellType) /\ journal \in Journal /\ s \in NodeState
    BY DEF TypeOK, ReadState
  <2>2. QED
    BY <2>1, ReadCovers, LastLoggedType DEF ReissueInv, Journal
<1>2. InBlock(p) /\ UNCHANGED <<lock, op, acked, orphaned>>
  BY DEF Recover, ReplayNothing, DiscardJournal, ReplayCommit, ReplayRollback, CheckState,
         InBlock, ghosts
<1>3. ASSUME NEW label \in {"recover_drop", "check"}, Goto(p, label),
             UNCHANGED <<cache, state>>
      PROVE  ReissueInv'
  <2>1. /\ \A q \in Proc \ {p} : pc'[q] = pc[q] /\ cache'[q] = cache[q] /\ op'[q] = op[q]
        /\ pc'[p] = label
    BY <1>2, <1>3 DEF Goto, TypeOK
  <2>2. ReissueOk(p)' /\ Covers(state)'
    BY <1>1, <1>2, <1>3, <2>1 DEF ReissueInv, ReissueOk, InBlock, Covers, Vouched, Valid
  <2>3. QED
    BY <1>2, <2>1, <2>2, ReissueStep
<1>4. CASE ReplayNothing(p) \/ DiscardJournal(p)
  BY <1>3, <1>4 DEF ReplayNothing, DiscardJournal, disk, locals
<1>5. CASE ReplayCommit(p)
  <2>1. CASE Valid(s) /\ s.seq < journal.rec.seq /\ state' = State(journal.rec)
               /\ cache' = [cache EXCEPT ![p] = State(journal.rec)] /\ Goto(p, "recover_drop")
    <3>1. Valid(State(journal.rec)) /\ Covers(State(journal.rec))
      <4>1. s.seq <= journal.rec.seq
        BY <1>1, <2>1 DEF NodeState, Record
      <4>2. QED
        BY ONLY <1>1, <2>1, <4>1, HigherCovers, TypeOK
    <3>2. QED
      BY <1>2, <2>1, <3>1, ReissueSettles DEF Goto
  <2>2. CASE Valid(s) /\ cache' = [cache EXCEPT ![p] = s] /\ Goto(p, "recover_drop")
               /\ UNCHANGED state
    BY <1>1, <1>2, <2>2, ReissueSettles DEF Goto
  <2>3. CASE RecoverRaises(p, IF Valid(s) THEN s ELSE cache[p]) /\ UNCHANGED state
    BY <1>2, <2>3, ReissueRaises
  <2>4. QED
    BY <1>5, <2>1, <2>2, <2>3 DEF ReplayCommit
<1>6. CASE ReplayRollback(p)
  <2>1. CASE Goto(p, "recover_drop") /\ UNCHANGED <<locals, state>>
    BY <1>3, <2>1 DEF locals
  <2>2. CASE RecoverRaises(p, cache[p]) /\ UNCHANGED state
    BY <1>2, <2>2, ReissueRaises
  <2>3. QED
    BY <1>6, <2>1, <2>2 DEF ReplayRollback
<1>7. CASE CheckState(p)
  <2> DEFINE tail == LastLogged(log)
  <2>1. AfterRecover(p) = "ready"
    BY <1>1 DEF AfterRecover, ReissueOk
  <2>2. CASE Valid(s) /\ cache' = [cache EXCEPT ![p] = s] /\ Goto(p, AfterRecover(p))
               /\ UNCHANGED state
    BY <1>1, <1>2, <2>1, <2>2, ReissueSettles DEF Goto
  <2>3. CASE Valid(s) /\ tail.seq > s.seq /\ state' = State(tail)
               /\ cache' = [cache EXCEPT ![p] = State(tail)] /\ Goto(p, AfterRecover(p))
    <3>1. Valid(State(tail)) /\ Covers(State(tail))
      <4>1. s.seq <= tail.seq
        BY <1>1, <2>3 DEF NodeState, Record
      <4>2. QED
        BY ONLY <1>1, <2>3, <4>1, HigherCovers, TypeOK
    <3>2. QED
      BY <1>2, <2>1, <2>3, <3>1, ReissueSettles DEF Goto
  <2>4. CASE RecoverRaises(p, IF Valid(s) THEN s ELSE cache[p]) /\ UNCHANGED state
    BY <1>2, <2>4, ReissueRaises
  <2>5. QED
    BY <1>7, <2>2, <2>3, <2>4 DEF CheckState
<1>8. QED
  BY <1>4, <1>5, <1>6, <1>7 DEF Recover

\* A transaction keeps it: the record it signs follows the state it read, and the
\* state moves to that record before the caller is given it.
LEMMA ReissueTransact ==
    ASSUME TypeOK, ReissueInv, NEW p \in Proc, Transact(p) \/ DropJournal(p)
    PROVE  ReissueInv'
<1>1. /\ pc \in [Proc -> Labels] /\ cache \in [Proc -> NodeState] /\ rec \in [Proc -> Record]
      /\ acked \subseteq Record /\ Covers(state) /\ ReissueOk(p)
  BY DEF TypeOK, ReissueInv
<1>2. InBlock(p) /\ UNCHANGED <<lock, op>>
  BY DEF Transact, Sign, SignFails, OpenJournal, FillJournal, JournalFails, AppendPart, SyncLog,
         AppendFails, Rollback, CommitState, CommitFails, DropJournal, InBlock
<1>3. \A q \in Proc \ {p} : pc'[q] = pc[q] /\ cache'[q] = cache[q] /\ op'[q] = op[q]
  BY <1>1 DEF Transact, Sign, SignFails, OpenJournal, FillJournal, JournalFails, AppendPart,
              SyncLog, AppendFails, Rollback, CommitState, CommitFails, DropJournal, Goto,
              locals
<1>4. CASE Sign(p)
  <2>1. /\ pc'[p] = "journal_open" /\ cache' = cache /\ UNCHANGED <<acked, orphaned>> /\ state' = state
        /\ rec'[p] = SignedRecord(ReadState(p), minted + 1) /\ Valid(cache[p])
    BY <1>1, <1>4 DEF Sign, Goto, disk, ReissueOk
  <2>2. ReadState(p) = cache[p]
    BY <2>1 DEF ReadState, Valid, NoState
  <2>3. rec'[p].seq = cache[p].seq + 1 /\ cache[p].seq \in Nat
    BY <1>1, <2>1, <2>2 DEF SignedRecord, NodeState
  <2>4. Fresh(rec[p])'
    <3>1. \A a \in Vouched : a.seq \in Nat /\ a.seq <= cache[p].seq
      BY <1>1, <2>1 DEF ReissueOk, Covers, Vouched, Record
    <3>2. QED
      BY <2>1, <2>3, <3>1 DEF Fresh, Vouched
  <2>5. ReissueOk(p)' /\ Covers(state)'
    BY <1>1, <1>2, <2>1, <2>4 DEF ReissueOk, InBlock, Covers, Vouched, Valid
  <2>6. QED
    BY <1>2, <1>3, <2>5, ReissueStep
<1>5. CASE CommitState(p)
  <2>1. /\ pc'[p] = "drop" /\ cache'[p] = State(rec[p]) /\ UNCHANGED <<acked, orphaned>>
        /\ state' = State(rec[p]) /\ rec' = rec /\ Fresh(rec[p])
    BY <1>1, <1>5 DEF CommitState, Goto, ghosts, ReissueOk
  <2>2. Valid(State(rec[p])) /\ State(rec[p]).seq = rec[p].seq
    BY DEF Valid, State
  <2>3. \A a \in Vouched : a.seq <= rec[p].seq
    BY <1>1, <2>1 DEF Fresh, Vouched, Record
  <2>4. ReissueOk(p)' /\ Covers(state)'
    BY <1>1, <1>2, <2>1, <2>2, <2>3 DEF ReissueOk, InBlock, Covers, Fresh, Vouched, Valid
  <2>5. QED
    BY <1>2, <1>3, <2>4, ReissueStep
<1>6. CASE DropJournal(p) /\ pc[p] = "drop"
  <2>1. /\ pc'[p] = "ready" /\ cache' = cache /\ acked' = acked \union {rec[p]}
        /\ state' = state /\ orphaned' = orphaned /\ rec' = rec
    BY <1>1, <1>6 DEF DropJournal, Goto, locals
  <2>2. /\ cache[p] = State(rec[p]) /\ Fresh(rec[p])
        /\ Valid(state) => state = State(rec[p]) \/ rec[p] \in orphaned
    BY <1>1, <1>6 DEF ReissueOk
  <2>3. Valid(State(rec[p])) /\ State(rec[p]).seq = rec[p].seq
    BY DEF Valid, State
  <2>4. \A a \in Vouched' : a.seq <= rec[p].seq
    BY <1>1, <2>1, <2>2 DEF Fresh, Vouched, Record
  <2>5. ReissueOk(p)' /\ Covers(state)'
    BY <1>1, <1>2, <2>1, <2>2, <2>3, <2>4 DEF ReissueOk, InBlock, Covers, Vouched, Valid
  <2>6. QED
    BY <1>2, <1>3, <2>5, ReissueStep
<1>7. CASE ~Sign(p) /\ ~CommitState(p) /\ ~(DropJournal(p) /\ pc[p] = "drop")
  <2>1. UNCHANGED <<cache, rec, acked, orphaned, state>>
    BY <1>7 DEF Transact, SignFails, OpenJournal, FillJournal, JournalFails, AppendPart,
       SyncLog,
                AppendFails, Rollback, CommitFails, DropJournal, disk, locals, ghosts
  <2>2. /\ pc'[p] \in {"journal_fill", "append", "commit"} =>
               pc[p] \in {"journal_open", "journal_fill", "append"}
        /\ pc'[p] \in {"journal_fill", "append", "commit", "release", "rollback",
                       "rollback_drop", "check"}
    BY <1>1, <1>7 DEF Transact, SignFails, OpenJournal, FillJournal, JournalFails, AppendPart,
                      SyncLog, AppendFails, Rollback, CommitFails, DropJournal, Goto
  <2>3. ReissueOk(p)' /\ Covers(state)'
    BY <1>1, <1>2, <2>1, <2>2 DEF ReissueOk, InBlock, Covers, Fresh, Vouched, Valid
  <2>4. QED
    BY <1>2, <1>3, <2>3, ReissueStep
<1>8. QED
  BY <1>4, <1>5, <1>6, <1>7

\* Damage from outside keeps it: a state file that is gone bad is no longer valid.
LEMMA ReissueDamage ==
    ASSUME ReissueInv, LoseTail \/ DamageState \/ UNCHANGED vars
    PROVE  ReissueInv'
<1>1. /\ UNCHANGED <<lock, pc, op, cache, rec, acked, orphaned>>
      /\ state' = state \/ ~Valid(state')
  BY DEF LoseTail, DamageState, vars, locals, ghosts, Corrupt, Valid
<1>2. Covers(state)'
  BY <1>1 DEF ReissueInv, Covers, Vouched, Valid
<1>3. ASSUME NEW q \in Proc PROVE ReissueOk(q)'
  <2>1. ReissueOk(q)
    BY DEF ReissueInv
  <2>2. QED
    BY <1>1, <2>1 DEF ReissueOk, InBlock, Covers, Fresh, Vouched, Valid
<1>4. QED
  BY <1>2, <1>3 DEF ReissueInv

\* Deleting the state file keeps it: no acknowledged record is vouched for then, and
\* the one a signer has just committed never will be.
LEMMA ReissueErase == ASSUME ReissueInv, EraseState PROVE ReissueInv'
<1>1. UNCHANGED <<lock, pc, op, cache, rec, acked>>
  BY DEF EraseState, locals
<1>2. Vouched' = {} /\ \A q \in Proc : pc[q] = "drop" => rec[q] \in orphaned'
  BY DEF EraseState, Vouched
<1>3. Covers(state)'
  BY <1>2 DEF Covers
<1>4. ASSUME NEW q \in Proc PROVE ReissueOk(q)'
  <2>1. ReissueOk(q)
    BY DEF ReissueInv
  <2>2. QED
    BY <1>1, <1>2, <2>1 DEF ReissueOk, InBlock, Covers, Fresh, Valid
<1>5. QED
  BY <1>3, <1>4 DEF ReissueInv

\* Whatever fails, whatever tail the log loses, however the state file is damaged or
\* deleted, and however often: as long as nobody runs recover-state, no record that
\* is being written carries the sequence number of one that append_signed returned
\* since the state file was last deleted.
THEOREM NeverReissued ==
    ASSUME "repair" \notin Ops
    PROVE  Spec => []AckedSequenceNeverReissued
<1>1. Init => ReissueInv
  BY ReissueInit
<1>2. TypeOK /\ ReissueInv /\ [Next]_vars => ReissueInv'
  <2> SUFFICES ASSUME TypeOK, ReissueInv, [Next]_vars PROVE ReissueInv'
    OBVIOUS
  <2>1. ASSUME NEW p \in Proc, NEW o \in Ops, Begin(p, o) PROVE ReissueInv'
    <3>1. o = "sign"
      BY ConstantsAssumption
    <3>2. QED
      BY <2>1, <3>1, ReissueOutside
  <2>2. ASSUME NEW p \in Proc, Step(p) PROVE ReissueInv'
    <3>1. ~Repair(p)
      BY DEF ReissueInv, ReissueOk, Repair
    <3>2. QED
      BY <2>2, <3>1, ReissueOutside, ReissueRecover, ReissueTransact DEF Step
  <2>3. ASSUME NEW p \in Proc, Crash(p) \/ Exit(p) PROVE ReissueInv'
    BY <2>3, ReissueOutside
  <2>4. QED
    BY <2>1, <2>2, <2>3, ReissueDamage, ReissueErase DEF Next
<1>3. ReissueInv => AckedSequenceNeverReissued
  BY DEF ReissueInv, ReissueOk, Fresh, Vouched, AckedSequenceNeverReissued
<1>4. QED
  BY <1>1, <1>2, <1>3, TypeCorrect, PTL DEF Spec
=============================================================================
