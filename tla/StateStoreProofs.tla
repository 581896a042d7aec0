-------------------------- MODULE StateStoreProofs --------------------------
(***************************************************************************)
(* Theorems about StateStore, for any number of processes, failures,       *)
(* resets and sequence numbers, and for callers that commit from whatever  *)
(* their object holds.                                                     *)
(***************************************************************************)
EXTENDS StateStore, TLAPS

\* The temporary file is complete before it is synced, and synced before the rename, so
\* that the disk never has a part of a state under the file's name.
WholeInv ==
    /\ ~damaged => \A v \in versions : Valid(v)
    /\ \A p \in Proc :
          /\ pc[p] \in {"fsync", "replace"} => tmp[p].text = next[p]
          /\ pc[p] = "replace" => tmp[p].disk = next[p]

TypeInv == TypeOK /\ WholeInv

\* The commits that nothing has taken back.
Kept == acked \ forgotten

\* Nothing belongs to a chain that has not been started.
EraInv ==
    /\ \A v \in versions : Valid(v) => v.era <= eras
    /\ \A p \in Proc : next[p].era <= eras /\ (Valid(cache[p]) => cache[p].era <= eras)
    /\ \A s \in acked : s.era <= eras

\* The file is not behind a commit that returned, nor is what the power leaves of it
\* behind one whose rename the disk has.
AckedInv ==
    /\ ReturnedSurvives
    /\ \A s \in Kept \ exposed : \A v \in versions : Valid(v) => Behind(s, v)

\* A block that has read knows the file, which may have been damaged since.
ReadyInv ==
    \A p \in Proc : pc[p] = "ready" =>
        /\ Valid(cache[p])
        /\ file = cache[p] \/ file = Torn
        /\ \A s \in Kept : Behind(s, cache[p])

\* What is being written does not take the file back, and a commit takes it on; a blind
\* one does once it has been written, of what is then left.
WriteInv ==
    \A p \in Proc :
        /\ pc[p] \in {"create", "fill", "fsync", "replace"} /\ op[p] # "blind" =>
              /\ \A s \in Kept : Behind(s, next[p])
              /\ op[p] = "commit" => \A s \in Kept : Before(s, next[p])
              /\ Valid(file) => Behind(file, next[p])
        /\ pc[p] = "sync" =>
              /\ \A s \in Kept : Behind(s, next[p])
              /\ op[p] # "other" => \A s \in Kept : Before(s, next[p])
              /\ file = next[p] \/ file = Torn

OrderInv == EraInv /\ AckedInv /\ ReadyInv /\ WriteInv /\ NeverReused

----------------------------------------------------------------------------
(* Types and the temporary file *)

\* acquire only takes the lock.
LEMMA AcquireTypes ==
    ASSUME TypeInv, NEW p \in Proc, Acquire(p)
    PROVE  TypeInv'
  <1>1. TypeOK'
    BY StateStoreAssumption, TornAssumption DEF TypeInv, WholeInv, TypeOK, State, NodeState,
       Valid, Goto, disk, history, Acquire
  <1>2. WholeInv'
    BY StateStoreAssumption, TornAssumption DEF TypeInv, WholeInv, TypeOK, State, NodeState,
       Valid, Goto, disk, history, Acquire
  <1> QED
    BY <1>1, <1>2 DEF TypeInv

\* release only gives it back.
LEMMA ReleaseTypes ==
    ASSUME TypeInv, NEW p \in Proc, Release(p)
    PROVE  TypeInv'
  <1>1. TypeOK'
    BY StateStoreAssumption, TornAssumption DEF TypeInv, WholeInv, TypeOK, State, NodeState,
       Valid, Goto, disk, history, Release
  <1>2. WholeInv'
    BY StateStoreAssumption, TornAssumption DEF TypeInv, WholeInv, TypeOK, State, NodeState,
       Valid, Goto, disk, history, Release
  <1> QED
    BY <1>1, <1>2 DEF TypeInv

\* read takes over what the file holds.
LEMMA ReadTypes ==
    ASSUME TypeInv, NEW p \in Proc, Read(p)
    PROVE  TypeInv'
  <1>1. TypeOK'
    BY StateStoreAssumption, TornAssumption DEF TypeInv, WholeInv, TypeOK, State, NodeState,
       Valid, Goto, disk, history, Read
  <1>2. WholeInv'
    BY StateStoreAssumption, TornAssumption DEF TypeInv, WholeInv, TypeOK, State, NodeState,
       Valid, Goto, disk, history, Read
  <1> QED
    BY <1>1, <1>2 DEF TypeInv

\* commit goes on from the cached state, or from the file.
LEMMA CommitTypes ==
    ASSUME TypeInv, NEW p \in Proc, Commit(p)
    PROVE  TypeInv'
  <1>1. TypeOK'
    BY StateStoreAssumption, TornAssumption DEF TypeInv, WholeInv, TypeOK, State, NodeState,
       Valid, Goto, disk, history, Current, Blind, Begin, Commit
  <1>2. WholeInv'
    BY StateStoreAssumption, TornAssumption DEF TypeInv, WholeInv, TypeOK, State, NodeState,
       Valid, Goto, disk, history, Current, Blind, Begin, Commit
  <1> QED
    BY <1>1, <1>2 DEF TypeInv

\* reset starts a chain of its own.
LEMMA ResetTypes ==
    ASSUME TypeInv, NEW p \in Proc, Reset(p)
    PROVE  TypeInv'
  <1>1. TypeOK'
    BY StateStoreAssumption, TornAssumption DEF TypeInv, WholeInv, TypeOK, State, NodeState,
       Valid, Goto, disk, history, Begin, Fresh, Reset
  <1>2. WholeInv'
    BY StateStoreAssumption, TornAssumption DEF TypeInv, WholeInv, TypeOK, State, NodeState,
       Valid, Goto, disk, history, Begin, Fresh, Reset
  <1> QED
    BY <1>1, <1>2 DEF TypeInv

\* recover_from goes on from the file.
LEMMA RecoverTypes ==
    ASSUME TypeInv, NEW p \in Proc, NEW n \in 1..MaxSeq, RecoverFrom(p, n)
    PROVE  TypeInv'
  <1>1. TypeOK'
    BY StateStoreAssumption, TornAssumption DEF TypeInv, WholeInv, TypeOK, State, NodeState,
       Valid, Goto, disk, history, Begin, RecoverFrom
  <1>2. WholeInv'
    BY StateStoreAssumption, TornAssumption DEF TypeInv, WholeInv, TypeOK, State, NodeState,
       Valid, Goto, disk, history, Begin, RecoverFrom
  <1> QED
    BY <1>1, <1>2 DEF TypeInv

\* A write creates its temporary file.
LEMMA CreateTempTypes ==
    ASSUME TypeInv, NEW p \in Proc, CreateTemp(p)
    PROVE  TypeInv'
  <1>1. TypeOK'
    BY StateStoreAssumption, TornAssumption DEF TypeInv, WholeInv, TypeOK, State, NodeState,
       Valid, Goto, disk, history, CreateTemp
  <1>2. WholeInv'
    BY StateStoreAssumption, TornAssumption DEF TypeInv, WholeInv, TypeOK, State, NodeState,
       Valid, Goto, disk, history, CreateTemp
  <1> QED
    BY <1>1, <1>2 DEF TypeInv

\* It writes the whole state to it.
LEMMA FillTempTypes ==
    ASSUME TypeInv, NEW p \in Proc, FillTemp(p)
    PROVE  TypeInv'
  <1>1. TypeOK'
    BY StateStoreAssumption, TornAssumption DEF TypeInv, WholeInv, TypeOK, State, NodeState,
       Valid, Goto, disk, history, FillTemp
  <1>2. WholeInv'
    BY StateStoreAssumption, TornAssumption DEF TypeInv, WholeInv, TypeOK, State, NodeState,
       Valid, Goto, disk, history, FillTemp
  <1> QED
    BY <1>1, <1>2 DEF TypeInv

\* It syncs it.
LEMMA FsyncTempTypes ==
    ASSUME TypeInv, NEW p \in Proc, FsyncTemp(p)
    PROVE  TypeInv'
  <1>1. TypeOK'
    BY StateStoreAssumption, TornAssumption DEF TypeInv, WholeInv, TypeOK, State, NodeState,
       Valid, Goto, disk, history, FsyncTemp
  <1>2. WholeInv'
    BY StateStoreAssumption, TornAssumption DEF TypeInv, WholeInv, TypeOK, State, NodeState,
       Valid, Goto, disk, history, FsyncTemp
  <1> QED
    BY <1>1, <1>2 DEF TypeInv

\* It puts it in the state file's place.
LEMMA ReplaceTypes ==
    ASSUME TypeInv, NEW p \in Proc, Replace(p)
    PROVE  TypeInv'
  <1>1. TypeOK'
    BY StateStoreAssumption, TornAssumption DEF TypeInv, WholeInv, TypeOK, State, NodeState,
       Valid, Goto, disk, history, Replace
  <1>2. WholeInv'
    BY StateStoreAssumption, TornAssumption DEF TypeInv, WholeInv, TypeOK, State, NodeState,
       Valid, Goto, disk, history, Replace
  <1> QED
    BY <1>1, <1>2 DEF TypeInv

\* A write fails and unlinks its temporary file.
LEMMA WriteFailsTypes ==
    ASSUME TypeInv, NEW p \in Proc, WriteFails(p)
    PROVE  TypeInv'
  <1>1. TypeOK'
    BY StateStoreAssumption, TornAssumption DEF TypeInv, WholeInv, TypeOK, State, NodeState,
       Valid, Goto, disk, history, Fault, WriteFails
  <1>2. WholeInv'
    BY StateStoreAssumption, TornAssumption DEF TypeInv, WholeInv, TypeOK, State, NodeState,
       Valid, Goto, disk, history, Fault, WriteFails
  <1> QED
    BY <1>1, <1>2 DEF TypeInv

\* The directory is synced, and the call returns.
LEMMA SyncTypes ==
    ASSUME TypeInv, NEW p \in Proc, SyncDirectory(p)
    PROVE  TypeInv'
  <1>1. TypeOK'
    BY StateStoreAssumption, TornAssumption DEF TypeInv, WholeInv, TypeOK, State, NodeState,
       Valid, Goto, disk, history, Return, SyncDirectory
  <1>2. WholeInv'
    BY StateStoreAssumption, TornAssumption DEF TypeInv, WholeInv, TypeOK, State, NodeState,
       Valid, Goto, disk, history, Return, SyncDirectory
  <1> QED
    BY <1>1, <1>2 DEF TypeInv

\* The failure to sync it is suppressed.
LEMMA SyncFailsTypes ==
    ASSUME TypeInv, NEW p \in Proc, SyncFails(p)
    PROVE  TypeInv'
  <1>1. TypeOK'
    BY StateStoreAssumption, TornAssumption DEF TypeInv, WholeInv, TypeOK, State, NodeState,
       Valid, Goto, disk, history, Return, Fault, SyncFails
  <1>2. WholeInv'
    BY StateStoreAssumption, TornAssumption DEF TypeInv, WholeInv, TypeOK, State, NodeState,
       Valid, Goto, disk, history, Return, Fault, SyncFails
  <1> QED
    BY <1>1, <1>2 DEF TypeInv

\* A write is interrupted after the rename.
LEMMA InterruptedTypes ==
    ASSUME TypeInv, NEW p \in Proc, Interrupted(p)
    PROVE  TypeInv'
  <1>1. TypeOK'
    BY StateStoreAssumption, TornAssumption DEF TypeInv, WholeInv, TypeOK, State, NodeState,
       Valid, Goto, disk, history, Fault, Interrupted
  <1>2. WholeInv'
    BY StateStoreAssumption, TornAssumption DEF TypeInv, WholeInv, TypeOK, State, NodeState,
       Valid, Goto, disk, history, Fault, Interrupted
  <1> QED
    BY <1>1, <1>2 DEF TypeInv

\* A process is killed.
LEMMA KillTypes ==
    ASSUME TypeInv, NEW p \in Proc, Kill(p)
    PROVE  TypeInv'
  <1>1. TypeOK'
    BY StateStoreAssumption, TornAssumption DEF TypeInv, WholeInv, TypeOK, State, NodeState,
       Valid, Goto, disk, history, Fault, Kill
  <1>2. WholeInv'
    BY StateStoreAssumption, TornAssumption DEF TypeInv, WholeInv, TypeOK, State, NodeState,
       Valid, Goto, disk, history, Fault, Kill
  <1> QED
    BY <1>1, <1>2 DEF TypeInv

\* The power goes.
LEMMA PowerLossTypes ==
    ASSUME TypeInv, PowerLoss
    PROVE  TypeInv'
  <1>1. TypeOK'
    BY StateStoreAssumption, TornAssumption DEF TypeInv, WholeInv, TypeOK, State, NodeState,
       Valid, Goto, disk, history, Fault, PowerLoss
  <1>2. WholeInv'
    BY StateStoreAssumption, TornAssumption DEF TypeInv, WholeInv, TypeOK, State, NodeState,
       Valid, Goto, disk, history, Fault, PowerLoss
  <1> QED
    BY <1>1, <1>2 DEF TypeInv

\* The file is damaged.
LEMMA DamageTypes ==
    ASSUME TypeInv, Damage
    PROVE  TypeInv'
  <1>1. TypeOK'
    BY StateStoreAssumption, TornAssumption DEF TypeInv, WholeInv, TypeOK, State, NodeState,
       Valid, Goto, disk, history, Fault, Damage
  <1>2. WholeInv'
    BY StateStoreAssumption, TornAssumption DEF TypeInv, WholeInv, TypeOK, State, NodeState,
       Valid, Goto, disk, history, Fault, Damage
  <1> QED
    BY <1>1, <1>2 DEF TypeInv

----------------------------------------------------------------------------
(* The order of what is written *)

\* acquire only takes the lock.
LEMMA AcquireOrder ==
    ASSUME TypeInv, TypeInv', OrderInv, NEW p \in Proc, Acquire(p)
    PROVE  OrderInv'
  <1>1. EraInv'
    BY StateStoreAssumption, TornAssumption DEF OrderInv, EraInv, ReadyInv, TypeInv, TypeOK,
       State, NodeState, Valid, Goto, disk, history, Kept, Acquire
  <1>2. AckedInv'
    BY StateStoreAssumption, TornAssumption DEF OrderInv, EraInv, AckedInv, ReturnedSurvives,
       WriteInv, Behind, TypeInv, TypeOK, State, NodeState, Valid, Goto, disk, history, Kept,
       Acquire
  <1>3. ReadyInv'
    BY StateStoreAssumption, TornAssumption DEF OrderInv, EraInv, AckedInv, ReturnedSurvives,
       ReadyInv, WriteInv, Behind, TypeInv, TypeOK, State, NodeState, Valid, Goto, disk,
       history, Kept, Acquire
  <1>4. WriteInv'
    BY StateStoreAssumption, TornAssumption DEF OrderInv, EraInv, AckedInv, ReturnedSurvives,
       ReadyInv, WriteInv, Behind, Before, TypeInv, TypeOK, State, NodeState, Valid, Goto,
       disk, history, Kept, Acquire
  <1>5. NeverReused'
    BY StateStoreAssumption, TornAssumption DEF OrderInv, NeverReused, WriteInv, Before,
       TypeInv, TypeOK, State, NodeState, Valid, Goto, disk, history, Kept, Acquire
  <1> QED
    BY <1>1, <1>2, <1>3, <1>4, <1>5 DEF OrderInv

\* release only gives it back.
LEMMA ReleaseOrder ==
    ASSUME TypeInv, TypeInv', OrderInv, NEW p \in Proc, Release(p)
    PROVE  OrderInv'
  <1>1. EraInv'
    BY StateStoreAssumption, TornAssumption DEF OrderInv, EraInv, ReadyInv, TypeInv, TypeOK,
       State, NodeState, Valid, Goto, disk, history, Kept, Release
  <1>2. AckedInv'
    BY StateStoreAssumption, TornAssumption DEF OrderInv, EraInv, AckedInv, ReturnedSurvives,
       WriteInv, Behind, TypeInv, TypeOK, State, NodeState, Valid, Goto, disk, history, Kept,
       Release
  <1>3. ReadyInv'
    BY StateStoreAssumption, TornAssumption DEF OrderInv, EraInv, AckedInv, ReturnedSurvives,
       ReadyInv, WriteInv, Behind, TypeInv, TypeOK, State, NodeState, Valid, Goto, disk,
       history, Kept, Release
  <1>4. WriteInv'
    BY StateStoreAssumption, TornAssumption DEF OrderInv, EraInv, AckedInv, ReturnedSurvives,
       ReadyInv, WriteInv, Behind, Before, TypeInv, TypeOK, State, NodeState, Valid, Goto,
       disk, history, Kept, Release
  <1>5. NeverReused'
    BY StateStoreAssumption, TornAssumption DEF OrderInv, NeverReused, WriteInv, Before,
       TypeInv, TypeOK, State, NodeState, Valid, Goto, disk, history, Kept, Release
  <1> QED
    BY <1>1, <1>2, <1>3, <1>4, <1>5 DEF OrderInv

\* read takes over what the file holds.
LEMMA ReadOrder ==
    ASSUME TypeInv, TypeInv', OrderInv, NEW p \in Proc, Read(p)
    PROVE  OrderInv'
  <1>1. EraInv'
    BY StateStoreAssumption, TornAssumption DEF OrderInv, EraInv, ReadyInv, TypeInv, TypeOK,
       State, NodeState, Valid, Goto, disk, history, Kept, Read
  <1>2. AckedInv'
    BY StateStoreAssumption, TornAssumption DEF OrderInv, EraInv, AckedInv, ReturnedSurvives,
       WriteInv, Behind, TypeInv, TypeOK, State, NodeState, Valid, Goto, disk, history, Kept,
       Read
  <1>3. ReadyInv'
    BY StateStoreAssumption, TornAssumption DEF OrderInv, EraInv, AckedInv, ReturnedSurvives,
       ReadyInv, WriteInv, Behind, TypeInv, TypeOK, State, NodeState, Valid, Goto, disk,
       history, Kept, Read
  <1>4. WriteInv'
    BY StateStoreAssumption, TornAssumption DEF OrderInv, EraInv, AckedInv, ReturnedSurvives,
       ReadyInv, WriteInv, Behind, Before, TypeInv, TypeOK, State, NodeState, Valid, Goto,
       disk, history, Kept, Read
  <1>5. NeverReused'
    BY StateStoreAssumption, TornAssumption DEF OrderInv, NeverReused, WriteInv, Before,
       TypeInv, TypeOK, State, NodeState, Valid, Goto, disk, history, Kept, Read
  <1> QED
    BY <1>1, <1>2, <1>3, <1>4, <1>5 DEF OrderInv

\* commit goes on from the cached state, or from the file.
LEMMA CommitOrder ==
    ASSUME TypeInv, TypeInv', OrderInv, NEW p \in Proc, Commit(p)
    PROVE  OrderInv'
  <1>1. EraInv'
    BY StateStoreAssumption, TornAssumption DEF OrderInv, EraInv, ReadyInv, TypeInv, TypeOK,
       State, NodeState, Valid, Goto, disk, history, Kept, Current, Blind, Begin, Commit
  <1>2. AckedInv'
    BY StateStoreAssumption, TornAssumption DEF OrderInv, EraInv, AckedInv, ReturnedSurvives,
       WriteInv, Behind, TypeInv, TypeOK, State, NodeState, Valid, Goto, disk, history, Kept,
       Current, Blind, Begin, Commit
  <1>3. ReadyInv'
    BY StateStoreAssumption, TornAssumption DEF OrderInv, EraInv, AckedInv, ReturnedSurvives,
       ReadyInv, WriteInv, Behind, TypeInv, TypeOK, State, NodeState, Valid, Goto, disk,
       history, Kept, Current, Blind, Begin, Commit
  <1>4. WriteInv'
    BY StateStoreAssumption, TornAssumption DEF OrderInv, EraInv, AckedInv, ReturnedSurvives,
       ReadyInv, WriteInv, Behind, Before, TypeInv, TypeOK, State, NodeState, Valid, Goto,
       disk, history, Kept, Current, Blind, Begin, Commit
  <1>5. NeverReused'
    BY StateStoreAssumption, TornAssumption DEF OrderInv, NeverReused, WriteInv, Before,
       TypeInv, TypeOK, State, NodeState, Valid, Goto, disk, history, Kept, Current, Blind,
       Begin, Commit
  <1> QED
    BY <1>1, <1>2, <1>3, <1>4, <1>5 DEF OrderInv

\* reset starts a chain of its own.
LEMMA ResetOrder ==
    ASSUME TypeInv, TypeInv', OrderInv, NEW p \in Proc, Reset(p)
    PROVE  OrderInv'
  <1>1. EraInv'
    BY StateStoreAssumption, TornAssumption DEF OrderInv, EraInv, ReadyInv, TypeInv, TypeOK,
       State, NodeState, Valid, Goto, disk, history, Kept, Begin, Fresh, Reset
  <1>2. AckedInv'
    BY StateStoreAssumption, TornAssumption DEF OrderInv, EraInv, AckedInv, ReturnedSurvives,
       WriteInv, Behind, TypeInv, TypeOK, State, NodeState, Valid, Goto, disk, history, Kept,
       Begin, Fresh, Reset
  <1>3. ReadyInv'
    BY StateStoreAssumption, TornAssumption DEF OrderInv, EraInv, AckedInv, ReturnedSurvives,
       ReadyInv, WriteInv, Behind, TypeInv, TypeOK, State, NodeState, Valid, Goto, disk,
       history, Kept, Begin, Fresh, Reset
  <1>4. WriteInv'
    BY StateStoreAssumption, TornAssumption DEF OrderInv, EraInv, AckedInv, ReturnedSurvives,
       ReadyInv, WriteInv, Behind, Before, TypeInv, TypeOK, State, NodeState, Valid, Goto,
       disk, history, Kept, Begin, Fresh, Reset
  <1>5. NeverReused'
    BY StateStoreAssumption, TornAssumption DEF OrderInv, NeverReused, WriteInv, Before,
       TypeInv, TypeOK, State, NodeState, Valid, Goto, disk, history, Kept, Begin, Fresh, Reset
  <1> QED
    BY <1>1, <1>2, <1>3, <1>4, <1>5 DEF OrderInv

\* recover_from goes on from the file.
LEMMA RecoverOrder ==
    ASSUME TypeInv, TypeInv', OrderInv, NEW p \in Proc, NEW n \in 1..MaxSeq, RecoverFrom(p, n)
    PROVE  OrderInv'
  <1>1. EraInv'
    BY StateStoreAssumption, TornAssumption DEF OrderInv, EraInv, ReadyInv, TypeInv, TypeOK,
       State, NodeState, Valid, Goto, disk, history, Kept, Begin, RecoverFrom
  <1>2. AckedInv'
    BY StateStoreAssumption, TornAssumption DEF OrderInv, EraInv, AckedInv, ReturnedSurvives,
       WriteInv, Behind, TypeInv, TypeOK, State, NodeState, Valid, Goto, disk, history, Kept,
       Begin, RecoverFrom
  <1>3. ReadyInv'
    BY StateStoreAssumption, TornAssumption DEF OrderInv, EraInv, AckedInv, ReturnedSurvives,
       ReadyInv, WriteInv, Behind, TypeInv, TypeOK, State, NodeState, Valid, Goto, disk,
       history, Kept, Begin, RecoverFrom
  <1>4. WriteInv'
    BY StateStoreAssumption, TornAssumption DEF OrderInv, EraInv, AckedInv, ReturnedSurvives,
       ReadyInv, WriteInv, Behind, Before, TypeInv, TypeOK, State, NodeState, Valid, Goto,
       disk, history, Kept, Begin, RecoverFrom
  <1>5. NeverReused'
    BY StateStoreAssumption, TornAssumption DEF OrderInv, NeverReused, WriteInv, Before,
       TypeInv, TypeOK, State, NodeState, Valid, Goto, disk, history, Kept, Begin, RecoverFrom
  <1> QED
    BY <1>1, <1>2, <1>3, <1>4, <1>5 DEF OrderInv

\* A write creates its temporary file.
LEMMA CreateTempOrder ==
    ASSUME TypeInv, TypeInv', OrderInv, NEW p \in Proc, CreateTemp(p)
    PROVE  OrderInv'
  <1>1. EraInv'
    BY StateStoreAssumption, TornAssumption DEF OrderInv, EraInv, ReadyInv, TypeInv, TypeOK,
       State, NodeState, Valid, Goto, disk, history, Kept, CreateTemp
  <1>2. AckedInv'
    BY StateStoreAssumption, TornAssumption DEF OrderInv, EraInv, AckedInv, ReturnedSurvives,
       WriteInv, Behind, TypeInv, TypeOK, State, NodeState, Valid, Goto, disk, history, Kept,
       CreateTemp
  <1>3. ReadyInv'
    BY StateStoreAssumption, TornAssumption DEF OrderInv, EraInv, AckedInv, ReturnedSurvives,
       ReadyInv, WriteInv, Behind, TypeInv, TypeOK, State, NodeState, Valid, Goto, disk,
       history, Kept, CreateTemp
  <1>4. WriteInv'
    BY StateStoreAssumption, TornAssumption DEF OrderInv, EraInv, AckedInv, ReturnedSurvives,
       ReadyInv, WriteInv, Behind, Before, TypeInv, TypeOK, State, NodeState, Valid, Goto,
       disk, history, Kept, CreateTemp
  <1>5. NeverReused'
    BY StateStoreAssumption, TornAssumption DEF OrderInv, NeverReused, WriteInv, Before,
       TypeInv, TypeOK, State, NodeState, Valid, Goto, disk, history, Kept, CreateTemp
  <1> QED
    BY <1>1, <1>2, <1>3, <1>4, <1>5 DEF OrderInv

\* It writes the whole state to it.
LEMMA FillTempOrder ==
    ASSUME TypeInv, TypeInv', OrderInv, NEW p \in Proc, FillTemp(p)
    PROVE  OrderInv'
  <1>1. EraInv'
    BY StateStoreAssumption, TornAssumption DEF OrderInv, EraInv, ReadyInv, TypeInv, TypeOK,
       State, NodeState, Valid, Goto, disk, history, Kept, FillTemp
  <1>2. AckedInv'
    BY StateStoreAssumption, TornAssumption DEF OrderInv, EraInv, AckedInv, ReturnedSurvives,
       WriteInv, Behind, TypeInv, TypeOK, State, NodeState, Valid, Goto, disk, history, Kept,
       FillTemp
  <1>3. ReadyInv'
    BY StateStoreAssumption, TornAssumption DEF OrderInv, EraInv, AckedInv, ReturnedSurvives,
       ReadyInv, WriteInv, Behind, TypeInv, TypeOK, State, NodeState, Valid, Goto, disk,
       history, Kept, FillTemp
  <1>4. WriteInv'
    BY StateStoreAssumption, TornAssumption DEF OrderInv, EraInv, AckedInv, ReturnedSurvives,
       ReadyInv, WriteInv, Behind, Before, TypeInv, TypeOK, State, NodeState, Valid, Goto,
       disk, history, Kept, FillTemp
  <1>5. NeverReused'
    BY StateStoreAssumption, TornAssumption DEF OrderInv, NeverReused, WriteInv, Before,
       TypeInv, TypeOK, State, NodeState, Valid, Goto, disk, history, Kept, FillTemp
  <1> QED
    BY <1>1, <1>2, <1>3, <1>4, <1>5 DEF OrderInv

\* It syncs it.
LEMMA FsyncTempOrder ==
    ASSUME TypeInv, TypeInv', OrderInv, NEW p \in Proc, FsyncTemp(p)
    PROVE  OrderInv'
  <1>1. EraInv'
    BY StateStoreAssumption, TornAssumption DEF OrderInv, EraInv, ReadyInv, TypeInv, TypeOK,
       State, NodeState, Valid, Goto, disk, history, Kept, FsyncTemp
  <1>2. AckedInv'
    BY StateStoreAssumption, TornAssumption DEF OrderInv, EraInv, AckedInv, ReturnedSurvives,
       WriteInv, Behind, TypeInv, TypeOK, State, NodeState, Valid, Goto, disk, history, Kept,
       FsyncTemp
  <1>3. ReadyInv'
    BY StateStoreAssumption, TornAssumption DEF OrderInv, EraInv, AckedInv, ReturnedSurvives,
       ReadyInv, WriteInv, Behind, TypeInv, TypeOK, State, NodeState, Valid, Goto, disk,
       history, Kept, FsyncTemp
  <1>4. WriteInv'
    BY StateStoreAssumption, TornAssumption DEF OrderInv, EraInv, AckedInv, ReturnedSurvives,
       ReadyInv, WriteInv, Behind, Before, TypeInv, TypeOK, State, NodeState, Valid, Goto,
       disk, history, Kept, FsyncTemp
  <1>5. NeverReused'
    BY StateStoreAssumption, TornAssumption DEF OrderInv, NeverReused, WriteInv, Before,
       TypeInv, TypeOK, State, NodeState, Valid, Goto, disk, history, Kept, FsyncTemp
  <1> QED
    BY <1>1, <1>2, <1>3, <1>4, <1>5 DEF OrderInv

\* It puts it in the state file's place.
LEMMA ReplaceOrder ==
    ASSUME TypeInv, TypeInv', OrderInv, NEW p \in Proc, Replace(p)
    PROVE  OrderInv'
  <1>1. EraInv'
    BY StateStoreAssumption, TornAssumption DEF OrderInv, EraInv, ReadyInv, TypeInv, TypeOK,
       State, NodeState, Valid, Goto, disk, history, Kept, Replace, WholeInv, Before
  <1>2. AckedInv'
    BY StateStoreAssumption, TornAssumption DEF OrderInv, EraInv, AckedInv, ReturnedSurvives,
       WriteInv, Behind, TypeInv, TypeOK, State, NodeState, Valid, Goto, disk, history, Kept,
       Replace, WholeInv, Before
  <1>3. ReadyInv'
    BY StateStoreAssumption, TornAssumption DEF OrderInv, EraInv, AckedInv, ReturnedSurvives,
       ReadyInv, WriteInv, Behind, TypeInv, TypeOK, State, NodeState, Valid, Goto, disk,
       history, Kept, Replace, WholeInv, Before
  <1>4. WriteInv'
    BY StateStoreAssumption, TornAssumption DEF OrderInv, EraInv, AckedInv, ReturnedSurvives,
       ReadyInv, WriteInv, Behind, Before, TypeInv, TypeOK, State, NodeState, Valid, Goto,
       disk, history, Kept, Replace, WholeInv, Before
  <1>5. NeverReused'
    BY StateStoreAssumption, TornAssumption DEF OrderInv, NeverReused, WriteInv, Before,
       TypeInv, TypeOK, State, NodeState, Valid, Goto, disk, history, Kept, Replace, WholeInv,
       Before
  <1> QED
    BY <1>1, <1>2, <1>3, <1>4, <1>5 DEF OrderInv

\* A write fails and unlinks its temporary file.
LEMMA WriteFailsOrder ==
    ASSUME TypeInv, TypeInv', OrderInv, NEW p \in Proc, WriteFails(p)
    PROVE  OrderInv'
  <1>1. EraInv'
    BY StateStoreAssumption, TornAssumption DEF OrderInv, EraInv, ReadyInv, TypeInv, TypeOK,
       State, NodeState, Valid, Goto, disk, history, Kept, Fault, WriteFails
  <1>2. AckedInv'
    BY StateStoreAssumption, TornAssumption DEF OrderInv, EraInv, AckedInv, ReturnedSurvives,
       WriteInv, Behind, TypeInv, TypeOK, State, NodeState, Valid, Goto, disk, history, Kept,
       Fault, WriteFails
  <1>3. ReadyInv'
    BY StateStoreAssumption, TornAssumption DEF OrderInv, EraInv, AckedInv, ReturnedSurvives,
       ReadyInv, WriteInv, Behind, TypeInv, TypeOK, State, NodeState, Valid, Goto, disk,
       history, Kept, Fault, WriteFails
  <1>4. WriteInv'
    BY StateStoreAssumption, TornAssumption DEF OrderInv, EraInv, AckedInv, ReturnedSurvives,
       ReadyInv, WriteInv, Behind, Before, TypeInv, TypeOK, State, NodeState, Valid, Goto,
       disk, history, Kept, Fault, WriteFails
  <1>5. NeverReused'
    BY StateStoreAssumption, TornAssumption DEF OrderInv, NeverReused, WriteInv, Before,
       TypeInv, TypeOK, State, NodeState, Valid, Goto, disk, history, Kept, Fault, WriteFails
  <1> QED
    BY <1>1, <1>2, <1>3, <1>4, <1>5 DEF OrderInv

\* The directory is synced, and the call returns.
LEMMA SyncOrder ==
    ASSUME TypeInv, TypeInv', OrderInv, NEW p \in Proc, SyncDirectory(p)
    PROVE  OrderInv'
  <1>1. EraInv'
    BY StateStoreAssumption, TornAssumption DEF OrderInv, EraInv, ReadyInv, TypeInv, TypeOK,
       State, NodeState, Valid, Goto, disk, history, Kept, Return, SyncDirectory
  <1>2. AckedInv'
    BY StateStoreAssumption, TornAssumption DEF OrderInv, EraInv, AckedInv, ReturnedSurvives,
       WriteInv, Behind, TypeInv, TypeOK, State, NodeState, Valid, Goto, disk, history, Kept,
       Return, SyncDirectory
  <1>3. ReadyInv'
    BY StateStoreAssumption, TornAssumption DEF OrderInv, EraInv, AckedInv, ReturnedSurvives,
       ReadyInv, WriteInv, Behind, TypeInv, TypeOK, State, NodeState, Valid, Goto, disk,
       history, Kept, Return, SyncDirectory
  <1>4. WriteInv'
    BY StateStoreAssumption, TornAssumption DEF OrderInv, EraInv, AckedInv, ReturnedSurvives,
       ReadyInv, WriteInv, Behind, Before, TypeInv, TypeOK, State, NodeState, Valid, Goto,
       disk, history, Kept, Return, SyncDirectory
  <1>5. NeverReused'
    BY StateStoreAssumption, TornAssumption DEF OrderInv, NeverReused, WriteInv, Before,
       TypeInv, TypeOK, State, NodeState, Valid, Goto, disk, history, Kept, Return,
       SyncDirectory
  <1> QED
    BY <1>1, <1>2, <1>3, <1>4, <1>5 DEF OrderInv

\* The failure to sync it is suppressed.
LEMMA SyncFailsOrder ==
    ASSUME TypeInv, TypeInv', OrderInv, NEW p \in Proc, SyncFails(p)
    PROVE  OrderInv'
  <1>1. EraInv'
    BY StateStoreAssumption, TornAssumption DEF OrderInv, EraInv, ReadyInv, TypeInv, TypeOK,
       State, NodeState, Valid, Goto, disk, history, Kept, Return, Fault, SyncFails
  <1>2. AckedInv'
    BY StateStoreAssumption, TornAssumption DEF OrderInv, EraInv, AckedInv, ReturnedSurvives,
       WriteInv, Behind, TypeInv, TypeOK, State, NodeState, Valid, Goto, disk, history, Kept,
       Return, Fault, SyncFails
  <1>3. ReadyInv'
    BY StateStoreAssumption, TornAssumption DEF OrderInv, EraInv, AckedInv, ReturnedSurvives,
       ReadyInv, WriteInv, Behind, TypeInv, TypeOK, State, NodeState, Valid, Goto, disk,
       history, Kept, Return, Fault, SyncFails
  <1>4. WriteInv'
    BY StateStoreAssumption, TornAssumption DEF OrderInv, EraInv, AckedInv, ReturnedSurvives,
       ReadyInv, WriteInv, Behind, Before, TypeInv, TypeOK, State, NodeState, Valid, Goto,
       disk, history, Kept, Return, Fault, SyncFails
  <1>5. NeverReused'
    BY StateStoreAssumption, TornAssumption DEF OrderInv, NeverReused, WriteInv, Before,
       TypeInv, TypeOK, State, NodeState, Valid, Goto, disk, history, Kept, Return, Fault,
       SyncFails
  <1> QED
    BY <1>1, <1>2, <1>3, <1>4, <1>5 DEF OrderInv

\* A write is interrupted after the rename.
LEMMA InterruptedOrder ==
    ASSUME TypeInv, TypeInv', OrderInv, NEW p \in Proc, Interrupted(p)
    PROVE  OrderInv'
  <1>1. EraInv'
    BY StateStoreAssumption, TornAssumption DEF OrderInv, EraInv, ReadyInv, TypeInv, TypeOK,
       State, NodeState, Valid, Goto, disk, history, Kept, Fault, Interrupted
  <1>2. AckedInv'
    BY StateStoreAssumption, TornAssumption DEF OrderInv, EraInv, AckedInv, ReturnedSurvives,
       WriteInv, Behind, TypeInv, TypeOK, State, NodeState, Valid, Goto, disk, history, Kept,
       Fault, Interrupted
  <1>3. ReadyInv'
    BY StateStoreAssumption, TornAssumption DEF OrderInv, EraInv, AckedInv, ReturnedSurvives,
       ReadyInv, WriteInv, Behind, TypeInv, TypeOK, State, NodeState, Valid, Goto, disk,
       history, Kept, Fault, Interrupted
  <1>4. WriteInv'
    BY StateStoreAssumption, TornAssumption DEF OrderInv, EraInv, AckedInv, ReturnedSurvives,
       ReadyInv, WriteInv, Behind, Before, TypeInv, TypeOK, State, NodeState, Valid, Goto,
       disk, history, Kept, Fault, Interrupted
  <1>5. NeverReused'
    BY StateStoreAssumption, TornAssumption DEF OrderInv, NeverReused, WriteInv, Before,
       TypeInv, TypeOK, State, NodeState, Valid, Goto, disk, history, Kept, Fault, Interrupted
  <1> QED
    BY <1>1, <1>2, <1>3, <1>4, <1>5 DEF OrderInv

\* A process is killed.
LEMMA KillOrder ==
    ASSUME TypeInv, TypeInv', OrderInv, NEW p \in Proc, Kill(p)
    PROVE  OrderInv'
  <1>1. EraInv'
    BY StateStoreAssumption, TornAssumption DEF OrderInv, EraInv, ReadyInv, TypeInv, TypeOK,
       State, NodeState, Valid, Goto, disk, history, Kept, Fault, Kill
  <1>2. AckedInv'
    BY StateStoreAssumption, TornAssumption DEF OrderInv, EraInv, AckedInv, ReturnedSurvives,
       WriteInv, Behind, TypeInv, TypeOK, State, NodeState, Valid, Goto, disk, history, Kept,
       Fault, Kill
  <1>3. ReadyInv'
    BY StateStoreAssumption, TornAssumption DEF OrderInv, EraInv, AckedInv, ReturnedSurvives,
       ReadyInv, WriteInv, Behind, TypeInv, TypeOK, State, NodeState, Valid, Goto, disk,
       history, Kept, Fault, Kill
  <1>4. WriteInv'
    BY StateStoreAssumption, TornAssumption DEF OrderInv, EraInv, AckedInv, ReturnedSurvives,
       ReadyInv, WriteInv, Behind, Before, TypeInv, TypeOK, State, NodeState, Valid, Goto,
       disk, history, Kept, Fault, Kill
  <1>5. NeverReused'
    BY StateStoreAssumption, TornAssumption DEF OrderInv, NeverReused, WriteInv, Before,
       TypeInv, TypeOK, State, NodeState, Valid, Goto, disk, history, Kept, Fault, Kill
  <1> QED
    BY <1>1, <1>2, <1>3, <1>4, <1>5 DEF OrderInv

\* The power goes.
LEMMA PowerLossOrder ==
    ASSUME TypeInv, TypeInv', OrderInv, PowerLoss
    PROVE  OrderInv'
  <1>1. EraInv'
    BY StateStoreAssumption, TornAssumption DEF OrderInv, EraInv, ReadyInv, TypeInv, TypeOK,
       State, NodeState, Valid, Goto, disk, history, Kept, Fault, PowerLoss
  <1>2. AckedInv'
    BY StateStoreAssumption, TornAssumption DEF OrderInv, EraInv, AckedInv, ReturnedSurvives,
       WriteInv, Behind, TypeInv, TypeOK, State, NodeState, Valid, Goto, disk, history, Kept,
       Fault, PowerLoss
  <1>3. ReadyInv'
    BY StateStoreAssumption, TornAssumption DEF OrderInv, EraInv, AckedInv, ReturnedSurvives,
       ReadyInv, WriteInv, Behind, TypeInv, TypeOK, State, NodeState, Valid, Goto, disk,
       history, Kept, Fault, PowerLoss
  <1>4. WriteInv'
    BY StateStoreAssumption, TornAssumption DEF OrderInv, EraInv, AckedInv, ReturnedSurvives,
       ReadyInv, WriteInv, Behind, Before, TypeInv, TypeOK, State, NodeState, Valid, Goto,
       disk, history, Kept, Fault, PowerLoss
  <1>5. NeverReused'
    BY StateStoreAssumption, TornAssumption DEF OrderInv, NeverReused, WriteInv, Before,
       TypeInv, TypeOK, State, NodeState, Valid, Goto, disk, history, Kept, Fault, PowerLoss
  <1> QED
    BY <1>1, <1>2, <1>3, <1>4, <1>5 DEF OrderInv

\* The file is damaged.
LEMMA DamageOrder ==
    ASSUME TypeInv, TypeInv', OrderInv, Damage
    PROVE  OrderInv'
  <1>1. EraInv'
    BY StateStoreAssumption, TornAssumption DEF OrderInv, EraInv, ReadyInv, TypeInv, TypeOK,
       State, NodeState, Valid, Goto, disk, history, Kept, Fault, Damage
  <1>2. AckedInv'
    BY StateStoreAssumption, TornAssumption DEF OrderInv, EraInv, AckedInv, ReturnedSurvives,
       WriteInv, Behind, TypeInv, TypeOK, State, NodeState, Valid, Goto, disk, history, Kept,
       Fault, Damage
  <1>3. ReadyInv'
    BY StateStoreAssumption, TornAssumption DEF OrderInv, EraInv, AckedInv, ReturnedSurvives,
       ReadyInv, WriteInv, Behind, TypeInv, TypeOK, State, NodeState, Valid, Goto, disk,
       history, Kept, Fault, Damage
  <1>4. WriteInv'
    BY StateStoreAssumption, TornAssumption DEF OrderInv, EraInv, AckedInv, ReturnedSurvives,
       ReadyInv, WriteInv, Behind, Before, TypeInv, TypeOK, State, NodeState, Valid, Goto,
       disk, history, Kept, Fault, Damage
  <1>5. NeverReused'
    BY StateStoreAssumption, TornAssumption DEF OrderInv, NeverReused, WriteInv, Before,
       TypeInv, TypeOK, State, NodeState, Valid, Goto, disk, history, Kept, Fault, Damage
  <1> QED
    BY <1>1, <1>2, <1>3, <1>4, <1>5 DEF OrderInv

----------------------------------------------------------------------------
(* The invariants *)

\* Types hold initially.
LEMMA InitTypes == Init => TypeInv
  <1> SUFFICES ASSUME Init PROVE TypeInv
    OBVIOUS
  <1>1. Fresh(0) \in NodeState
    BY StateStoreAssumption DEF Fresh, NodeState
  <1>2. TypeOK
    <2>1. /\ lock \in Proc \cup {Free}
          /\ \A p \in Proc : lock = p <=> pc[p] # "idle"
      BY StateStoreAssumption DEF Init
    <2>2. /\ pc \in [Proc -> {"idle"}] /\ op \in [Proc -> {"commit", "blind", "other"}]
          /\ cache \in [Proc -> State] /\ next \in [Proc -> NodeState]
          /\ tmp \in [Proc -> [text : State, disk : State] \cup {Absent}]
      BY <1>1 DEF Init, State
    <2>3. /\ file \in State /\ versions \subseteq State /\ file \in versions
          /\ minted \in Nat /\ eras \in 0..MaxEras /\ faults \in Nat
      BY <1>1, StateStoreAssumption DEF Init, State
    <2>4. /\ acked \subseteq NodeState /\ exposed \subseteq acked /\ forgotten \subseteq acked
          /\ damaged \in BOOLEAN
      BY DEF Init
    <2>5. pc \in [Proc -> {"idle", "locked", "ready", "raised", "create", "fill", "fsync",
                           "replace", "sync"}]
      BY <2>2
    <2> QED
      BY <2>1, <2>2, <2>3, <2>4, <2>5 DEF TypeOK
  <1>3. WholeInv
    BY <1>1, TornAssumption DEF Init, WholeInv, Valid
  <1> QED
    BY <1>2, <1>3 DEF TypeInv

\* So does the order.
LEMMA InitOrder == Init => OrderInv
  BY StateStoreAssumption, TornAssumption DEF Init, Fresh, OrderInv, EraInv, AckedInv,
     ReturnedSurvives, ReadyInv, WriteInv, NeverReused, Kept, Valid

\* Every step keeps the types and the temporary file's order of steps.
LEMMA StepTypes == TypeInv /\ [Next]_vars => TypeInv'
  <1> SUFFICES ASSUME TypeInv, [Next]_vars PROVE TypeInv'
    OBVIOUS
  <1>1. CASE UNCHANGED vars
    BY <1>1 DEF vars, TypeInv, TypeOK, State, NodeState, Valid, WholeInv
  <1>2. ASSUME NEW p \in Proc, Step(p) PROVE TypeInv'
    BY <1>2, AcquireTypes, ReleaseTypes, ReadTypes, CommitTypes, ResetTypes, RecoverTypes,
       CreateTempTypes, FillTempTypes, FsyncTempTypes, ReplaceTypes, WriteFailsTypes,
       SyncTypes, SyncFailsTypes, InterruptedTypes, KillTypes DEF Step
  <1>3. CASE PowerLoss
    BY <1>3, PowerLossTypes
  <1>4. CASE Damage
    BY <1>4, DamageTypes
  <1> QED
    BY <1>1, <1>2, <1>3, <1>4 DEF Next

\* Every step keeps the order.
LEMMA StepOrder ==
    ASSUME TypeInv, TypeInv', OrderInv, [Next]_vars
    PROVE  OrderInv'
  <1>1. CASE UNCHANGED vars
    BY <1>1 DEF vars, OrderInv, EraInv, AckedInv, ReturnedSurvives, ReadyInv, WriteInv,
       NeverReused, Kept, Valid, Behind, Before
  <1>2. ASSUME NEW p \in Proc, Step(p) PROVE OrderInv'
    BY <1>2, AcquireOrder, ReleaseOrder, ReadOrder, CommitOrder, ResetOrder, RecoverOrder,
       CreateTempOrder, FillTempOrder, FsyncTempOrder, ReplaceOrder, WriteFailsOrder,
       SyncOrder, SyncFailsOrder, InterruptedOrder, KillOrder DEF Step
  <1>3. CASE PowerLoss
    BY <1>3, PowerLossOrder
  <1>4. CASE Damage
    BY <1>4, DamageOrder
  <1> QED
    BY <1>1, <1>2, <1>3, <1>4 DEF Next

\* Types and the temporary file's state, in every reachable state.
LEMMA TypeInvariant == Spec => []TypeInv
  BY InitTypes, StepTypes, PTL DEF Spec

\* The order, in every reachable state.
LEMMA OrderInvariant == Spec => []OrderInv
  <1>1. TypeInv /\ TypeInv' /\ OrderInv /\ [Next]_vars => OrderInv'
    BY StepOrder
  <1> QED
    BY <1>1, InitOrder, TypeInvariant, PTL DEF Spec

----------------------------------------------------------------------------
(* The theorems *)

\* The store keeps its types, and the lock is held exactly inside a block
\* (acquire, release).
THEOREM TypeCorrect == Spec => []TypeOK
  <1>1. TypeInv => TypeOK
    BY DEF TypeInv
  <1> QED
    BY <1>1, TypeInvariant, PTL

\* A kill, a failed write or a power loss at any point of a write leaves a whole state file
\* (StateStore.write).
THEOREM StaysWhole == Spec => []FileStaysWhole
  <1>1. TypeInv => FileStaysWhole
    BY DEF TypeInv, TypeOK, WholeInv, FileStaysWhole
  <1> QED
    BY <1>1, TypeInvariant, PTL

\* A commit that returned is never ahead of what a kill, an error or a power loss leaves of
\* the file, but for one the power took back because its directory sync had failed silently
\* and one a blind commit wrote over (StateStore.write, commit, _fsync_directory).
THEOREM CommitsSurvive == Spec => []ReturnedSurvives
  <1>1. OrderInv => ReturnedSurvives
    BY DEF OrderInv, AckedInv
  <1> QED
    BY <1>1, OrderInvariant, PTL

\* No two commits that returned, and that neither the power nor a blind commit took back, have
\* the same sequence number of a chain (StateStore.commit).
THEOREM NoReuse == Spec => []NeverReused
  <1>1. OrderInv => NeverReused
    BY DEF OrderInv
  <1> QED
    BY <1>1, OrderInvariant, PTL

\* What each step does to the file.
LEMMA FileSteps ==
    ASSUME TypeInv, [Next]_vars
    PROVE  \/ file' = file
           \/ PowerLoss
           \/ file' = Torn
           \/ \E p \in Proc : Replace(p)
  <1>1. CASE UNCHANGED vars
    BY <1>1 DEF vars
  <1>2. ASSUME NEW p \in Proc, Step(p)
        PROVE  file' = file \/ Replace(p)
    BY <1>2 DEF Step, Acquire, Release, Read, Commit, Reset, RecoverFrom, CreateTemp, FillTemp,
       FsyncTemp, WriteFails, SyncDirectory, SyncFails, Interrupted, Kill, disk
  <1>3. CASE Damage
    BY <1>3 DEF Damage
  <1> QED
    BY <1>1, <1>2, <1>3 DEF Next

\* A power loss that finds one version leaves it.
LEMMA PowerKeeps ==
    ASSUME PowerLoss, versions = {file}
    PROVE  file' = file
  BY DEF PowerLoss

\* The file is taken back only by a power loss over a rename that was not synced and by a
\* blind commit, never by one whose block has read the file, by reset or by recover_from
\* (StateStore.commit, recover_from).
THEOREM NoRewind == Spec => NeverRewinds
  <1>1. TypeInv /\ OrderInv /\ [Next]_vars =>
            [Valid(file) /\ Valid(file') =>
                \/ Behind(file, file')
                \/ PowerLoss /\ versions # {file}
                \/ \E p \in Proc : op[p] = "blind" /\ Replace(p)]_vars
    <2> SUFFICES ASSUME TypeInv, OrderInv, [Next]_vars, Valid(file), Valid(file'),
                        ~(PowerLoss /\ versions # {file}),
                        ~\E p \in Proc : op[p] = "blind" /\ Replace(p)
                 PROVE  Behind(file, file')
      OBVIOUS
    <2>1. CASE file' = file
      BY <2>1, TornAssumption DEF TypeInv, TypeOK, State, NodeState, Valid, Behind
    <2>2. ASSUME NEW p \in Proc, Replace(p)
          PROVE  Behind(file, file')
      <3>1. op[p] # "blind" /\ pc[p] = "replace" /\ file' = next[p]
        BY <2>2 DEF Replace, TypeInv, WholeInv
      <3> QED
        BY <3>1 DEF OrderInv, WriteInv
    <2>3. PowerLoss => file' = file
      BY PowerKeeps
    <2> QED
      BY <2>1, <2>2, <2>3, FileSteps DEF Valid
  <1> QED
    BY <1>1, TypeInvariant, OrderInvariant, PTL DEF Spec, NeverRewinds
=============================================================================
