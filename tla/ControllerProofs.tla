-------------------------- MODULE ControllerProofs --------------------------
(***************************************************************************)
(* Theorems about Controller, for any number of threads, components and    *)
(* requests.                                                               *)
(***************************************************************************)
EXTENDS Controller, FiniteSetTheorems, TLAPS

\* A running process was started for something that still knows it.
OwnerInv ==
    /\ RunningIsOwned
    /\ \A p \in Pid : os[p] = "running" => owner[p] # None

\* A caller that stops a component holds the lock and the component's process.
CallerInv ==
    /\ pc[Main] \in {"idle"} \cup StopLabel
    /\ \A t \in Caller :
          /\ pc[t] \in {"start", "stop", "status"} \cup StopLabel \cup InfoLabel
             => at[t] \in Component
          /\ pc[t] \in StopLabel => lock = t
          /\ pc[t] \in {"term_wait", "kill_wait"} => proc[at[t]] = child[t]

\* Handlers run only while the application serves; stop_all keeps the lock.
PhaseInv ==
    /\ phase # "serving" => \A t \in Thread : pc[t] = "idle"
    /\ phase # "stop_all" => pc[Main] = "idle"
    /\ phase = "stop_all" => lock = Main
    /\ phase \in {"serving", "stop_replay"} => booted = Component
    /\ phase = "stop_replay" => child[Main] = slot \/ slot = None

\* What runs while the application shuts down.
ShutdownInv ==
    /\ phase \in {"stop_all", "down"} /\ Running(slot) => slot \in killed
    /\ phase \in {"stop_all", "down"} =>
          \A c \in Component \ booted : Running(proc[c]) =>
              proc[c] \in killed \/ (pc[Main] \in StopLabel /\ at[Main] = c)
    /\ pc[Main] = "kill_wait" => child[Main] \in killed
    /\ phase = "down" => booted = {}

ControllerInv == TypeOK /\ OwnerInv /\ CallerInv /\ PhaseInv /\ LockProtectsProc /\ ShutdownInv

----------------------------------------------------------------------------
\* The special values are not processes, threads or components.
LEMMA Names ==
    /\ Pid \subseteq Nat /\ None \notin Pid
    /\ None \notin Caller /\ None \notin Component /\ Main \notin Thread
    /\ Replay \notin Component /\ Replay # None /\ Thread \subseteq Caller /\ Main \in Caller
  <1>1. Cardinality(Component) \in Nat
    BY FS_CardinalityType, ConstantsAssumption
  <1>2. MaxRequests + Cardinality(Component) \in Nat
    BY <1>1, ConstantsAssumption
  <1>3. Pid \subseteq Nat
    BY <1>2 DEF Pid
  <1> QED
    BY <1>3, ConstantsAssumption DEF Caller

\* A request only fills a worker thread's locals.
LEMMA RequestKeeps ==
    ASSUME ControllerInv, NEW t \in Thread, NEW c \in Component \cup {None},
           NEW what \in {"start", "stop", "status", "replay", "active"},
           what \in {"start", "stop", "status"} => c \in Component,
           Request(t, what, c)
    PROVE  ControllerInv'
  <1>1. TypeOK'
    <2>1. phase' \in {"boot", "serving", "stop_replay", "stop_all", "down"} /\ booted' \subseteq Component
      BY Names, ConstantsAssumption DEF ControllerInv, TypeOK, CallerInv, StopLabel, InfoLabel,
         Label, Caller, Running,
         supervisorVars, replayVars, osVars, callerVars,
         Request, Goto
    <2>2. proc' \in [Component -> Pid \cup {None}]
      BY Names, ConstantsAssumption DEF ControllerInv, TypeOK, CallerInv, StopLabel, InfoLabel,
         Label, Caller, Running,
         supervisorVars, replayVars, osVars, callerVars,
         Request, Goto
    <2>3. lock' \in Caller \cup {None}
      BY Names, ConstantsAssumption DEF ControllerInv, TypeOK, CallerInv, StopLabel, InfoLabel,
         Label, Caller, Running,
         supervisorVars, replayVars, osVars, callerVars,
         Request, Goto
    <2>4. slot' \in Pid \cup {None} /\ active' \in Pid \cup {None}
      BY Names, ConstantsAssumption DEF ControllerInv, TypeOK, CallerInv, StopLabel, InfoLabel,
         Label, Caller, Running,
         supervisorVars, replayVars, osVars, callerVars,
         Request, Goto
    <2>5. reaper' \subseteq Pid /\ killed' \subseteq Pid
      BY Names, ConstantsAssumption DEF ControllerInv, TypeOK, CallerInv, StopLabel, InfoLabel,
         Label, Caller, Running,
         supervisorVars, replayVars, osVars, callerVars,
         Request, Goto
    <2>6. os' \in [Pid -> {"unused", "running", "exited"}]
      BY Names, ConstantsAssumption DEF ControllerInv, TypeOK, CallerInv, StopLabel, InfoLabel,
         Label, Caller, Running,
         supervisorVars, replayVars, osVars, callerVars,
         Request, Goto
    <2>7. owner' \in [Pid -> Component \cup {Replay, None}]
      BY Names, ConstantsAssumption DEF ControllerInv, TypeOK, CallerInv, StopLabel, InfoLabel,
         Label, Caller, Running,
         supervisorVars, replayVars, osVars, callerVars,
         Request, Goto
    <2>8. pc' \in [Caller -> Label]
      BY Names, ConstantsAssumption DEF ControllerInv, TypeOK, CallerInv, StopLabel, InfoLabel,
         Label, Caller, Running,
         supervisorVars, replayVars, osVars, callerVars,
         Request, Goto
    <2>9. at' \in [Caller -> Component \cup {None}]
      BY Names, ConstantsAssumption DEF ControllerInv, TypeOK, CallerInv, StopLabel, InfoLabel,
         Label, Caller, Running,
         supervisorVars, replayVars, osVars, callerVars,
         Request, Goto
    <2>10. child' \in [Caller -> Pid \cup {None}]
      BY Names, ConstantsAssumption DEF ControllerInv, TypeOK, CallerInv, StopLabel, InfoLabel,
         Label, Caller, Running,
         supervisorVars, replayVars, osVars, callerVars,
         Request, Goto
    <2>11. left' \in 0..MaxRequests
      BY Names, ConstantsAssumption DEF ControllerInv, TypeOK, CallerInv, StopLabel, InfoLabel,
         Label, Caller, Running,
         supervisorVars, replayVars, osVars, callerVars,
         Request, Goto
    <2> QED
      BY <2>1, <2>2, <2>3, <2>4, <2>5, <2>6, <2>7, <2>8, <2>9, <2>10, <2>11 DEF TypeOK
  <1>2. OwnerInv'
    BY Names DEF ControllerInv, TypeOK, OwnerInv, RunningIsOwned, CallerInv, PhaseInv,
       StopLabel, InfoLabel, Label, Running,
       supervisorVars, replayVars, osVars, callerVars,
       Request, Goto
  <1>3. CallerInv'
    BY Names DEF ControllerInv, TypeOK, CallerInv, PhaseInv, StopLabel, InfoLabel, Label,
       Caller, Running,
       supervisorVars, replayVars, osVars, callerVars,
       Request, Goto
  <1>4. PhaseInv'
    BY Names DEF ControllerInv, TypeOK, CallerInv, PhaseInv, StopLabel, InfoLabel, Label,
       Caller, Running,
       supervisorVars, replayVars, osVars, callerVars,
       Request, Goto
  <1>5. LockProtectsProc'
    BY Names DEF ControllerInv, TypeOK, CallerInv, PhaseInv, LockProtectsProc, StopLabel,
       InfoLabel, Label, Caller, Running,
       supervisorVars, replayVars, osVars, callerVars,
       Request, Goto
  <1>6. ShutdownInv'
    BY Names DEF ControllerInv, TypeOK, OwnerInv, RunningIsOwned, CallerInv, PhaseInv,
       ShutdownInv, StopLabel, InfoLabel, Label, Caller, Running,
       supervisorVars, replayVars, osVars, callerVars,
       Request, Goto
  <1> QED
    BY <1>1, <1>2, <1>3, <1>4, <1>5, <1>6 DEF ControllerInv

\* start replaces a process that does not run.
LEMMA StartKeeps ==
    ASSUME ControllerInv, NEW t \in Thread, StartComponent(t)
    PROVE  ControllerInv'
  <1>1. TypeOK'
    <2>1. phase' \in {"boot", "serving", "stop_replay", "stop_all", "down"} /\ booted' \subseteq Component
      BY Names, ConstantsAssumption DEF ControllerInv, TypeOK, CallerInv, StopLabel, InfoLabel,
         Label, Caller, Running,
         supervisorVars, replayVars, osVars, callerVars,
         StartComponent, AlreadyRunning, StartRefused, BadExecutable, LogFails, SpawnFails,
         Started, Spawn, Fresh, Goto, Answer
    <2>2. proc' \in [Component -> Pid \cup {None}]
      BY Names, ConstantsAssumption DEF ControllerInv, TypeOK, CallerInv, StopLabel, InfoLabel,
         Label, Caller, Running,
         supervisorVars, replayVars, osVars, callerVars,
         StartComponent, AlreadyRunning, StartRefused, BadExecutable, LogFails, SpawnFails,
         Started, Spawn, Fresh, Goto, Answer
    <2>3. lock' \in Caller \cup {None}
      BY Names, ConstantsAssumption DEF ControllerInv, TypeOK, CallerInv, StopLabel, InfoLabel,
         Label, Caller, Running,
         supervisorVars, replayVars, osVars, callerVars,
         StartComponent, AlreadyRunning, StartRefused, BadExecutable, LogFails, SpawnFails,
         Started, Spawn, Fresh, Goto, Answer
    <2>4. slot' \in Pid \cup {None} /\ active' \in Pid \cup {None}
      BY Names, ConstantsAssumption DEF ControllerInv, TypeOK, CallerInv, StopLabel, InfoLabel,
         Label, Caller, Running,
         supervisorVars, replayVars, osVars, callerVars,
         StartComponent, AlreadyRunning, StartRefused, BadExecutable, LogFails, SpawnFails,
         Started, Spawn, Fresh, Goto, Answer
    <2>5. reaper' \subseteq Pid /\ killed' \subseteq Pid
      BY Names, ConstantsAssumption DEF ControllerInv, TypeOK, CallerInv, StopLabel, InfoLabel,
         Label, Caller, Running,
         supervisorVars, replayVars, osVars, callerVars,
         StartComponent, AlreadyRunning, StartRefused, BadExecutable, LogFails, SpawnFails,
         Started, Spawn, Fresh, Goto, Answer
    <2>6. os' \in [Pid -> {"unused", "running", "exited"}]
      BY Names, ConstantsAssumption DEF ControllerInv, TypeOK, CallerInv, StopLabel, InfoLabel,
         Label, Caller, Running,
         supervisorVars, replayVars, osVars, callerVars,
         StartComponent, AlreadyRunning, StartRefused, BadExecutable, LogFails, SpawnFails,
         Started, Spawn, Fresh, Goto, Answer
    <2>7. owner' \in [Pid -> Component \cup {Replay, None}]
      BY Names, ConstantsAssumption DEF ControllerInv, TypeOK, CallerInv, StopLabel, InfoLabel,
         Label, Caller, Running,
         supervisorVars, replayVars, osVars, callerVars,
         StartComponent, AlreadyRunning, StartRefused, BadExecutable, LogFails, SpawnFails,
         Started, Spawn, Fresh, Goto, Answer
    <2>8. pc' \in [Caller -> Label]
      BY Names, ConstantsAssumption DEF ControllerInv, TypeOK, CallerInv, StopLabel, InfoLabel,
         Label, Caller, Running,
         supervisorVars, replayVars, osVars, callerVars,
         StartComponent, AlreadyRunning, StartRefused, BadExecutable, LogFails, SpawnFails,
         Started, Spawn, Fresh, Goto, Answer
    <2>9. at' \in [Caller -> Component \cup {None}]
      BY Names, ConstantsAssumption DEF ControllerInv, TypeOK, CallerInv, StopLabel, InfoLabel,
         Label, Caller, Running,
         supervisorVars, replayVars, osVars, callerVars,
         StartComponent, AlreadyRunning, StartRefused, BadExecutable, LogFails, SpawnFails,
         Started, Spawn, Fresh, Goto, Answer
    <2>10. child' \in [Caller -> Pid \cup {None}]
      BY Names, ConstantsAssumption DEF ControllerInv, TypeOK, CallerInv, StopLabel, InfoLabel,
         Label, Caller, Running,
         supervisorVars, replayVars, osVars, callerVars,
         StartComponent, AlreadyRunning, StartRefused, BadExecutable, LogFails, SpawnFails,
         Started, Spawn, Fresh, Goto, Answer
    <2>11. left' \in 0..MaxRequests
      BY Names, ConstantsAssumption DEF ControllerInv, TypeOK, CallerInv, StopLabel, InfoLabel,
         Label, Caller, Running,
         supervisorVars, replayVars, osVars, callerVars,
         StartComponent, AlreadyRunning, StartRefused, BadExecutable, LogFails, SpawnFails,
         Started, Spawn, Fresh, Goto, Answer
    <2> QED
      BY <2>1, <2>2, <2>3, <2>4, <2>5, <2>6, <2>7, <2>8, <2>9, <2>10, <2>11 DEF TypeOK
  <1>2. OwnerInv'
    BY Names DEF ControllerInv, TypeOK, OwnerInv, RunningIsOwned, CallerInv, PhaseInv,
       StopLabel, InfoLabel, Label, Running,
       supervisorVars, replayVars, osVars, callerVars,
       StartComponent, AlreadyRunning, StartRefused, BadExecutable, LogFails, SpawnFails,
       Started, Spawn, Fresh, Goto, Answer
  <1>3. CallerInv'
    BY Names DEF ControllerInv, TypeOK, CallerInv, PhaseInv, StopLabel, InfoLabel, Label,
       Caller, Running,
       supervisorVars, replayVars, osVars, callerVars,
       StartComponent, AlreadyRunning, StartRefused, BadExecutable, LogFails, SpawnFails,
       Started, Spawn, Fresh, Goto, Answer
  <1>4. PhaseInv'
    BY Names DEF ControllerInv, TypeOK, CallerInv, PhaseInv, StopLabel, InfoLabel, Label,
       Caller, Running,
       supervisorVars, replayVars, osVars, callerVars,
       StartComponent, AlreadyRunning, StartRefused, BadExecutable, LogFails, SpawnFails,
       Started, Spawn, Fresh, Goto, Answer
  <1>5. LockProtectsProc'
    BY Names DEF ControllerInv, TypeOK, CallerInv, PhaseInv, LockProtectsProc, StopLabel,
       InfoLabel, Label, Caller, Running,
       supervisorVars, replayVars, osVars, callerVars,
       StartComponent, AlreadyRunning, StartRefused, BadExecutable, LogFails, SpawnFails,
       Started, Spawn, Fresh, Goto, Answer
  <1>6. ShutdownInv'
    BY Names DEF ControllerInv, TypeOK, OwnerInv, RunningIsOwned, CallerInv, PhaseInv,
       ShutdownInv, StopLabel, InfoLabel, Label, Caller, Running,
       supervisorVars, replayVars, osVars, callerVars,
       StartComponent, AlreadyRunning, StartRefused, BadExecutable, LogFails, SpawnFails,
       Started, Spawn, Fresh, Goto, Answer
  <1> QED
    BY <1>1, <1>2, <1>3, <1>4, <1>5, <1>6 DEF ControllerInv

\* A thread takes the supervisor's lock.
LEMMA TakeLockKeeps ==
    ASSUME ControllerInv, NEW t \in Thread, TakeLock(t)
    PROVE  ControllerInv'
  <1>1. TypeOK'
    BY Names DEF ControllerInv, TypeOK, CallerInv, StopLabel, InfoLabel, Label, Caller, Running,
       supervisorVars, replayVars, osVars, callerVars,
       TakeLock, Goto
  <1>2. OwnerInv'
    BY Names DEF ControllerInv, TypeOK, OwnerInv, RunningIsOwned, CallerInv, PhaseInv,
       StopLabel, InfoLabel, Label, Running,
       supervisorVars, replayVars, osVars, callerVars,
       TakeLock, Goto
  <1>3. CallerInv'
    BY Names DEF ControllerInv, TypeOK, CallerInv, PhaseInv, StopLabel, InfoLabel, Label,
       Caller, Running,
       supervisorVars, replayVars, osVars, callerVars,
       TakeLock, Goto
  <1>4. PhaseInv'
    BY Names DEF ControllerInv, TypeOK, CallerInv, PhaseInv, StopLabel, InfoLabel, Label,
       Caller, Running,
       supervisorVars, replayVars, osVars, callerVars,
       TakeLock, Goto
  <1>5. LockProtectsProc'
    BY Names DEF ControllerInv, TypeOK, CallerInv, PhaseInv, LockProtectsProc, StopLabel,
       InfoLabel, Label, Caller, Running,
       supervisorVars, replayVars, osVars, callerVars,
       TakeLock, Goto
  <1>6. ShutdownInv'
    BY Names DEF ControllerInv, TypeOK, OwnerInv, RunningIsOwned, CallerInv, PhaseInv,
       ShutdownInv, StopLabel, InfoLabel, Label, Caller, Running,
       supervisorVars, replayVars, osVars, callerVars,
       TakeLock, Goto
  <1> QED
    BY <1>1, <1>2, <1>3, <1>4, <1>5, <1>6 DEF ControllerInv

\* stop of a process that has exited.
LEMMA StopGoneKeeps ==
    ASSUME ControllerInv, NEW t \in Caller, StopGone(t)
    PROVE  ControllerInv'
  <1>1. TypeOK'
    BY Names DEF ControllerInv, TypeOK, CallerInv, StopLabel, InfoLabel, Label, Caller, Running,
       supervisorVars, replayVars, osVars, callerVars,
       StopGone, Stopped, Release, AfterStop, Goto
  <1>2. OwnerInv'
    BY Names DEF ControllerInv, TypeOK, OwnerInv, RunningIsOwned, CallerInv, PhaseInv,
       StopLabel, InfoLabel, Label, Running,
       supervisorVars, replayVars, osVars, callerVars,
       StopGone, Stopped, Release, AfterStop, Goto
  <1>3. CallerInv'
    BY Names DEF ControllerInv, TypeOK, CallerInv, PhaseInv, StopLabel, InfoLabel, Label,
       Caller, Running,
       supervisorVars, replayVars, osVars, callerVars,
       StopGone, Stopped, Release, AfterStop, Goto
  <1>4. PhaseInv'
    BY Names DEF ControllerInv, TypeOK, CallerInv, PhaseInv, StopLabel, InfoLabel, Label,
       Caller, Running,
       supervisorVars, replayVars, osVars, callerVars,
       StopGone, Stopped, Release, AfterStop, Goto
  <1>5. LockProtectsProc'
    BY Names DEF ControllerInv, TypeOK, CallerInv, PhaseInv, LockProtectsProc, StopLabel,
       InfoLabel, Label, Caller, Running,
       supervisorVars, replayVars, osVars, callerVars,
       StopGone, Stopped, Release, AfterStop, Goto
  <1>6. ShutdownInv'
    BY Names DEF ControllerInv, TypeOK, OwnerInv, RunningIsOwned, CallerInv, PhaseInv,
       ShutdownInv, StopLabel, InfoLabel, Label, Caller, Running,
       supervisorVars, replayVars, osVars, callerVars,
       StopGone, Stopped, Release, AfterStop, Goto
  <1> QED
    BY <1>1, <1>2, <1>3, <1>4, <1>5, <1>6 DEF ControllerInv

\* stop sends the first signal.
LEMMA SendTermKeeps ==
    ASSUME ControllerInv, NEW t \in Caller, SendTerm(t)
    PROVE  ControllerInv'
  <1>1. TypeOK'
    BY Names DEF ControllerInv, TypeOK, CallerInv, StopLabel, InfoLabel, Label, Caller, Running,
       supervisorVars, replayVars, osVars, callerVars,
       SendTerm, Goto
  <1>2. OwnerInv'
    BY Names DEF ControllerInv, TypeOK, OwnerInv, RunningIsOwned, CallerInv, PhaseInv,
       StopLabel, InfoLabel, Label, Running,
       supervisorVars, replayVars, osVars, callerVars,
       SendTerm, Goto
  <1>3. CallerInv'
    BY Names DEF ControllerInv, TypeOK, CallerInv, PhaseInv, StopLabel, InfoLabel, Label,
       Caller, Running,
       supervisorVars, replayVars, osVars, callerVars,
       SendTerm, Goto
  <1>4. PhaseInv'
    BY Names DEF ControllerInv, TypeOK, CallerInv, PhaseInv, StopLabel, InfoLabel, Label,
       Caller, Running,
       supervisorVars, replayVars, osVars, callerVars,
       SendTerm, Goto
  <1>5. LockProtectsProc'
    BY Names DEF ControllerInv, TypeOK, CallerInv, PhaseInv, LockProtectsProc, StopLabel,
       InfoLabel, Label, Caller, Running,
       supervisorVars, replayVars, osVars, callerVars,
       SendTerm, Goto
  <1>6. ShutdownInv'
    BY Names DEF ControllerInv, TypeOK, OwnerInv, RunningIsOwned, CallerInv, PhaseInv,
       ShutdownInv, StopLabel, InfoLabel, Label, Caller, Running,
       supervisorVars, replayVars, osVars, callerVars,
       SendTerm, Goto
  <1> QED
    BY <1>1, <1>2, <1>3, <1>4, <1>5, <1>6 DEF ControllerInv

\* stop has seen the process exit.
LEMMA WaitEndsKeeps ==
    ASSUME ControllerInv, NEW t \in Caller, WaitEnds(t)
    PROVE  ControllerInv'
  <1>1. TypeOK'
    BY Names DEF ControllerInv, TypeOK, CallerInv, StopLabel, InfoLabel, Label, Caller, Running,
       supervisorVars, replayVars, osVars, callerVars,
       WaitEnds, Stopped, Release, AfterStop, Goto
  <1>2. OwnerInv'
    BY Names DEF ControllerInv, TypeOK, OwnerInv, RunningIsOwned, CallerInv, PhaseInv,
       StopLabel, InfoLabel, Label, Running,
       supervisorVars, replayVars, osVars, callerVars,
       WaitEnds, Stopped, Release, AfterStop, Goto
  <1>3. CallerInv'
    BY Names DEF ControllerInv, TypeOK, CallerInv, PhaseInv, StopLabel, InfoLabel, Label,
       Caller, Running,
       supervisorVars, replayVars, osVars, callerVars,
       WaitEnds, Stopped, Release, AfterStop, Goto
  <1>4. PhaseInv'
    BY Names DEF ControllerInv, TypeOK, CallerInv, PhaseInv, StopLabel, InfoLabel, Label,
       Caller, Running,
       supervisorVars, replayVars, osVars, callerVars,
       WaitEnds, Stopped, Release, AfterStop, Goto
  <1>5. LockProtectsProc'
    BY Names DEF ControllerInv, TypeOK, CallerInv, PhaseInv, LockProtectsProc, StopLabel,
       InfoLabel, Label, Caller, Running,
       supervisorVars, replayVars, osVars, callerVars,
       WaitEnds, Stopped, Release, AfterStop, Goto
  <1>6. ShutdownInv'
    BY Names DEF ControllerInv, TypeOK, OwnerInv, RunningIsOwned, CallerInv, PhaseInv,
       ShutdownInv, StopLabel, InfoLabel, Label, Caller, Running,
       supervisorVars, replayVars, osVars, callerVars,
       WaitEnds, Stopped, Release, AfterStop, Goto
  <1> QED
    BY <1>1, <1>2, <1>3, <1>4, <1>5, <1>6 DEF ControllerInv

\* stop sends the second signal.
LEMMA SendKillKeeps ==
    ASSUME ControllerInv, NEW t \in Caller, SendKill(t)
    PROVE  ControllerInv'
  <1>1. TypeOK'
    <2>1. phase' \in {"boot", "serving", "stop_replay", "stop_all", "down"} /\ booted' \subseteq Component
      BY Names, ConstantsAssumption DEF ControllerInv, TypeOK, CallerInv, StopLabel, InfoLabel,
         Label, Caller, Running,
         supervisorVars, replayVars, osVars, callerVars,
         SendKill, Goto
    <2>2. proc' \in [Component -> Pid \cup {None}]
      BY Names, ConstantsAssumption DEF ControllerInv, TypeOK, CallerInv, StopLabel, InfoLabel,
         Label, Caller, Running,
         supervisorVars, replayVars, osVars, callerVars,
         SendKill, Goto
    <2>3. lock' \in Caller \cup {None}
      BY Names, ConstantsAssumption DEF ControllerInv, TypeOK, CallerInv, StopLabel, InfoLabel,
         Label, Caller, Running,
         supervisorVars, replayVars, osVars, callerVars,
         SendKill, Goto
    <2>4. slot' \in Pid \cup {None} /\ active' \in Pid \cup {None}
      BY Names, ConstantsAssumption DEF ControllerInv, TypeOK, CallerInv, StopLabel, InfoLabel,
         Label, Caller, Running,
         supervisorVars, replayVars, osVars, callerVars,
         SendKill, Goto
    <2>5. reaper' \subseteq Pid /\ killed' \subseteq Pid
      BY Names, ConstantsAssumption, ZenonT(60) DEF ControllerInv, TypeOK, CallerInv,
         StopLabel, InfoLabel, Label, Caller, Running,
         supervisorVars, replayVars, osVars, callerVars,
         SendKill, Goto
    <2>6. os' \in [Pid -> {"unused", "running", "exited"}]
      BY Names, ConstantsAssumption DEF ControllerInv, TypeOK, CallerInv, StopLabel, InfoLabel,
         Label, Caller, Running,
         supervisorVars, replayVars, osVars, callerVars,
         SendKill, Goto
    <2>7. owner' \in [Pid -> Component \cup {Replay, None}]
      BY Names, ConstantsAssumption DEF ControllerInv, TypeOK, CallerInv, StopLabel, InfoLabel,
         Label, Caller, Running,
         supervisorVars, replayVars, osVars, callerVars,
         SendKill, Goto
    <2>8. pc' \in [Caller -> Label]
      BY Names, ConstantsAssumption DEF ControllerInv, TypeOK, CallerInv, StopLabel, InfoLabel,
         Label, Caller, Running,
         supervisorVars, replayVars, osVars, callerVars,
         SendKill, Goto
    <2>9. at' \in [Caller -> Component \cup {None}]
      BY Names, ConstantsAssumption DEF ControllerInv, TypeOK, CallerInv, StopLabel, InfoLabel,
         Label, Caller, Running,
         supervisorVars, replayVars, osVars, callerVars,
         SendKill, Goto
    <2>10. child' \in [Caller -> Pid \cup {None}]
      BY Names, ConstantsAssumption DEF ControllerInv, TypeOK, CallerInv, StopLabel, InfoLabel,
         Label, Caller, Running,
         supervisorVars, replayVars, osVars, callerVars,
         SendKill, Goto
    <2>11. left' \in 0..MaxRequests
      BY Names, ConstantsAssumption DEF ControllerInv, TypeOK, CallerInv, StopLabel, InfoLabel,
         Label, Caller, Running,
         supervisorVars, replayVars, osVars, callerVars,
         SendKill, Goto
    <2> QED
      BY <2>1, <2>2, <2>3, <2>4, <2>5, <2>6, <2>7, <2>8, <2>9, <2>10, <2>11 DEF TypeOK
  <1>2. OwnerInv'
    BY Names DEF ControllerInv, TypeOK, OwnerInv, RunningIsOwned, CallerInv, PhaseInv,
       StopLabel, InfoLabel, Label, Running,
       supervisorVars, replayVars, osVars, callerVars,
       SendKill, Goto
  <1>3. CallerInv'
    BY Names DEF ControllerInv, TypeOK, CallerInv, PhaseInv, StopLabel, InfoLabel, Label,
       Caller, Running,
       supervisorVars, replayVars, osVars, callerVars,
       SendKill, Goto
  <1>4. PhaseInv'
    BY Names DEF ControllerInv, TypeOK, CallerInv, PhaseInv, StopLabel, InfoLabel, Label,
       Caller, Running,
       supervisorVars, replayVars, osVars, callerVars,
       SendKill, Goto
  <1>5. LockProtectsProc'
    BY Names DEF ControllerInv, TypeOK, CallerInv, PhaseInv, LockProtectsProc, StopLabel,
       InfoLabel, Label, Caller, Running,
       supervisorVars, replayVars, osVars, callerVars,
       SendKill, Goto
  <1>6. ShutdownInv'
    BY Names DEF ControllerInv, TypeOK, OwnerInv, RunningIsOwned, CallerInv, PhaseInv,
       ShutdownInv, StopLabel, InfoLabel, Label, Caller, Running,
       supervisorVars, replayVars, osVars, callerVars,
       SendKill, Goto
  <1> QED
    BY <1>1, <1>2, <1>3, <1>4, <1>5, <1>6 DEF ControllerInv

\* stop gives up.
LEMMA StopFailsKeeps ==
    ASSUME ControllerInv, NEW t \in Caller, StopFails(t)
    PROVE  ControllerInv'
  <1>1. TypeOK'
    <2>1. phase' \in {"boot", "serving", "stop_replay", "stop_all", "down"} /\ booted' \subseteq Component
      BY Names, ConstantsAssumption DEF ControllerInv, TypeOK, CallerInv, StopLabel, InfoLabel,
         Label, Caller, Running,
         supervisorVars, replayVars, osVars, callerVars,
         StopFails, Release, Goto, Answer
    <2>2. proc' \in [Component -> Pid \cup {None}]
      BY Names, ConstantsAssumption DEF ControllerInv, TypeOK, CallerInv, StopLabel, InfoLabel,
         Label, Caller, Running,
         supervisorVars, replayVars, osVars, callerVars,
         StopFails, Release, Goto, Answer
    <2>3. lock' \in Caller \cup {None}
      BY Names, ConstantsAssumption DEF ControllerInv, TypeOK, CallerInv, StopLabel, InfoLabel,
         Label, Caller, Running,
         supervisorVars, replayVars, osVars, callerVars,
         StopFails, Release, Goto, Answer
    <2>4. slot' \in Pid \cup {None} /\ active' \in Pid \cup {None}
      BY Names, ConstantsAssumption DEF ControllerInv, TypeOK, CallerInv, StopLabel, InfoLabel,
         Label, Caller, Running,
         supervisorVars, replayVars, osVars, callerVars,
         StopFails, Release, Goto, Answer
    <2>5. reaper' \subseteq Pid /\ killed' \subseteq Pid
      BY Names, ConstantsAssumption DEF ControllerInv, TypeOK, CallerInv, StopLabel, InfoLabel,
         Label, Caller, Running,
         supervisorVars, replayVars, osVars, callerVars,
         StopFails, Release, Goto, Answer
    <2>6. os' \in [Pid -> {"unused", "running", "exited"}]
      BY Names, ConstantsAssumption DEF ControllerInv, TypeOK, CallerInv, StopLabel, InfoLabel,
         Label, Caller, Running,
         supervisorVars, replayVars, osVars, callerVars,
         StopFails, Release, Goto, Answer
    <2>7. owner' \in [Pid -> Component \cup {Replay, None}]
      BY Names, ConstantsAssumption DEF ControllerInv, TypeOK, CallerInv, StopLabel, InfoLabel,
         Label, Caller, Running,
         supervisorVars, replayVars, osVars, callerVars,
         StopFails, Release, Goto, Answer
    <2>8. pc' \in [Caller -> Label]
      BY Names, ConstantsAssumption DEF ControllerInv, TypeOK, CallerInv, StopLabel, InfoLabel,
         Label, Caller, Running,
         supervisorVars, replayVars, osVars, callerVars,
         StopFails, Release, Goto, Answer
    <2>9. at' \in [Caller -> Component \cup {None}]
      BY Names, ConstantsAssumption DEF ControllerInv, TypeOK, CallerInv, StopLabel, InfoLabel,
         Label, Caller, Running,
         supervisorVars, replayVars, osVars, callerVars,
         StopFails, Release, Goto, Answer
    <2>10. child' \in [Caller -> Pid \cup {None}]
      BY Names, ConstantsAssumption DEF ControllerInv, TypeOK, CallerInv, StopLabel, InfoLabel,
         Label, Caller, Running,
         supervisorVars, replayVars, osVars, callerVars,
         StopFails, Release, Goto, Answer
    <2>11. left' \in 0..MaxRequests
      BY Names, ConstantsAssumption DEF ControllerInv, TypeOK, CallerInv, StopLabel, InfoLabel,
         Label, Caller, Running,
         supervisorVars, replayVars, osVars, callerVars,
         StopFails, Release, Goto, Answer
    <2> QED
      BY <2>1, <2>2, <2>3, <2>4, <2>5, <2>6, <2>7, <2>8, <2>9, <2>10, <2>11 DEF TypeOK
  <1>2. OwnerInv'
    BY Names DEF ControllerInv, TypeOK, OwnerInv, RunningIsOwned, CallerInv, PhaseInv,
       StopLabel, InfoLabel, Label, Running,
       supervisorVars, replayVars, osVars, callerVars,
       StopFails, Release, Goto, Answer
  <1>3. CallerInv'
    BY Names DEF ControllerInv, TypeOK, CallerInv, PhaseInv, StopLabel, InfoLabel, Label,
       Caller, Running,
       supervisorVars, replayVars, osVars, callerVars,
       StopFails, Release, Goto, Answer
  <1>4. PhaseInv'
    BY Names DEF ControllerInv, TypeOK, CallerInv, PhaseInv, StopLabel, InfoLabel, Label,
       Caller, Running,
       supervisorVars, replayVars, osVars, callerVars,
       StopFails, Release, Goto, Answer
  <1>5. LockProtectsProc'
    BY Names DEF ControllerInv, TypeOK, CallerInv, PhaseInv, LockProtectsProc, StopLabel,
       InfoLabel, Label, Caller, Running,
       supervisorVars, replayVars, osVars, callerVars,
       StopFails, Release, Goto, Answer
  <1>6. ShutdownInv'
    BY Names DEF ControllerInv, TypeOK, OwnerInv, RunningIsOwned, CallerInv, PhaseInv,
       ShutdownInv, StopLabel, InfoLabel, Label, Caller, Running,
       supervisorVars, replayVars, osVars, callerVars,
       StopFails, Release, Goto, Answer
  <1> QED
    BY <1>1, <1>2, <1>3, <1>4, <1>5, <1>6 DEF ControllerInv

\* info reads the attribute.
LEMMA InfoKeeps ==
    ASSUME ControllerInv, NEW t \in Thread, InfoTest(t) \/ InfoUse(t)
    PROVE  ControllerInv'
  <1>1. TypeOK'
    <2>1. phase' \in {"boot", "serving", "stop_replay", "stop_all", "down"} /\ booted' \subseteq Component
      BY Names, ConstantsAssumption DEF ControllerInv, TypeOK, CallerInv, StopLabel, InfoLabel,
         Label, Caller, Running,
         supervisorVars, replayVars, osVars, callerVars,
         InfoTest, InfoUse, InfoNext, InfoSkip, Goto
    <2>2. proc' \in [Component -> Pid \cup {None}]
      BY Names, ConstantsAssumption DEF ControllerInv, TypeOK, CallerInv, StopLabel, InfoLabel,
         Label, Caller, Running,
         supervisorVars, replayVars, osVars, callerVars,
         InfoTest, InfoUse, InfoNext, InfoSkip, Goto
    <2>3. lock' \in Caller \cup {None}
      BY Names, ConstantsAssumption DEF ControllerInv, TypeOK, CallerInv, StopLabel, InfoLabel,
         Label, Caller, Running,
         supervisorVars, replayVars, osVars, callerVars,
         InfoTest, InfoUse, InfoNext, InfoSkip, Goto
    <2>4. slot' \in Pid \cup {None} /\ active' \in Pid \cup {None}
      BY Names, ConstantsAssumption DEF ControllerInv, TypeOK, CallerInv, StopLabel, InfoLabel,
         Label, Caller, Running,
         supervisorVars, replayVars, osVars, callerVars,
         InfoTest, InfoUse, InfoNext, InfoSkip, Goto
    <2>5. reaper' \subseteq Pid /\ killed' \subseteq Pid
      BY Names, ConstantsAssumption DEF ControllerInv, TypeOK, CallerInv, StopLabel, InfoLabel,
         Label, Caller, Running,
         supervisorVars, replayVars, osVars, callerVars,
         InfoTest, InfoUse, InfoNext, InfoSkip, Goto
    <2>6. os' \in [Pid -> {"unused", "running", "exited"}]
      BY Names, ConstantsAssumption DEF ControllerInv, TypeOK, CallerInv, StopLabel, InfoLabel,
         Label, Caller, Running,
         supervisorVars, replayVars, osVars, callerVars,
         InfoTest, InfoUse, InfoNext, InfoSkip, Goto
    <2>7. owner' \in [Pid -> Component \cup {Replay, None}]
      BY Names, ConstantsAssumption DEF ControllerInv, TypeOK, CallerInv, StopLabel, InfoLabel,
         Label, Caller, Running,
         supervisorVars, replayVars, osVars, callerVars,
         InfoTest, InfoUse, InfoNext, InfoSkip, Goto
    <2>8. pc' \in [Caller -> Label]
      BY Names, ConstantsAssumption DEF ControllerInv, TypeOK, CallerInv, StopLabel, InfoLabel,
         Label, Caller, Running,
         supervisorVars, replayVars, osVars, callerVars,
         InfoTest, InfoUse, InfoNext, InfoSkip, Goto
    <2>9. at' \in [Caller -> Component \cup {None}]
      BY Names, ConstantsAssumption DEF ControllerInv, TypeOK, CallerInv, StopLabel, InfoLabel,
         Label, Caller, Running,
         supervisorVars, replayVars, osVars, callerVars,
         InfoTest, InfoUse, InfoNext, InfoSkip, Goto
    <2>10. child' \in [Caller -> Pid \cup {None}]
      BY Names, ConstantsAssumption DEF ControllerInv, TypeOK, CallerInv, StopLabel, InfoLabel,
         Label, Caller, Running,
         supervisorVars, replayVars, osVars, callerVars,
         InfoTest, InfoUse, InfoNext, InfoSkip, Goto
    <2>11. left' \in 0..MaxRequests
      BY Names, ConstantsAssumption DEF ControllerInv, TypeOK, CallerInv, StopLabel, InfoLabel,
         Label, Caller, Running,
         supervisorVars, replayVars, osVars, callerVars,
         InfoTest, InfoUse, InfoNext, InfoSkip, Goto
    <2> QED
      BY <2>1, <2>2, <2>3, <2>4, <2>5, <2>6, <2>7, <2>8, <2>9, <2>10, <2>11 DEF TypeOK
  <1>2. OwnerInv'
    BY Names DEF ControllerInv, TypeOK, OwnerInv, RunningIsOwned, CallerInv, PhaseInv,
       StopLabel, InfoLabel, Label, Running,
       supervisorVars, replayVars, osVars, callerVars,
       InfoTest, InfoUse, InfoNext, InfoSkip, Goto
  <1>3. CallerInv'
    BY Names DEF ControllerInv, TypeOK, CallerInv, PhaseInv, StopLabel, InfoLabel, Label,
       Caller, Running,
       supervisorVars, replayVars, osVars, callerVars,
       InfoTest, InfoUse, InfoNext, InfoSkip, Goto
  <1>4. PhaseInv'
    BY Names DEF ControllerInv, TypeOK, CallerInv, PhaseInv, StopLabel, InfoLabel, Label,
       Caller, Running,
       supervisorVars, replayVars, osVars, callerVars,
       InfoTest, InfoUse, InfoNext, InfoSkip, Goto
  <1>5. LockProtectsProc'
    BY Names DEF ControllerInv, TypeOK, CallerInv, PhaseInv, LockProtectsProc, StopLabel,
       InfoLabel, Label, Caller, Running,
       supervisorVars, replayVars, osVars, callerVars,
       InfoTest, InfoUse, InfoNext, InfoSkip, Goto
  <1>6. ShutdownInv'
    BY Names DEF ControllerInv, TypeOK, OwnerInv, RunningIsOwned, CallerInv, PhaseInv,
       ShutdownInv, StopLabel, InfoLabel, Label, Caller, Running,
       supervisorVars, replayVars, osVars, callerVars,
       InfoTest, InfoUse, InfoNext, InfoSkip, Goto
  <1> QED
    BY <1>1, <1>2, <1>3, <1>4, <1>5, <1>6 DEF ControllerInv

\* info ends and lets go of the lock if its thread has it.
LEMMA InfoEndKeeps ==
    ASSUME ControllerInv, NEW t \in Thread, InfoCrashes(t) \/ StatusDone(t) \/ InfoDone(t)
    PROVE  ControllerInv'
  <1>1. TypeOK'
    <2>1. phase' \in {"boot", "serving", "stop_replay", "stop_all", "down"} /\ booted' \subseteq Component
      BY Names, ConstantsAssumption DEF ControllerInv, TypeOK, CallerInv, StopLabel, InfoLabel,
         Label, Caller, Running,
         supervisorVars, replayVars, osVars, callerVars,
         InfoCrashes, StatusDone, InfoDone, Goto, Answer
    <2>2. proc' \in [Component -> Pid \cup {None}]
      BY Names, ConstantsAssumption DEF ControllerInv, TypeOK, CallerInv, StopLabel, InfoLabel,
         Label, Caller, Running,
         supervisorVars, replayVars, osVars, callerVars,
         InfoCrashes, StatusDone, InfoDone, Goto, Answer
    <2>3. lock' \in Caller \cup {None}
      BY Names, ConstantsAssumption DEF ControllerInv, TypeOK, CallerInv, StopLabel, InfoLabel,
         Label, Caller, Running,
         supervisorVars, replayVars, osVars, callerVars,
         InfoCrashes, StatusDone, InfoDone, Goto, Answer
    <2>4. slot' \in Pid \cup {None} /\ active' \in Pid \cup {None}
      BY Names, ConstantsAssumption DEF ControllerInv, TypeOK, CallerInv, StopLabel, InfoLabel,
         Label, Caller, Running,
         supervisorVars, replayVars, osVars, callerVars,
         InfoCrashes, StatusDone, InfoDone, Goto, Answer
    <2>5. reaper' \subseteq Pid /\ killed' \subseteq Pid
      BY Names, ConstantsAssumption DEF ControllerInv, TypeOK, CallerInv, StopLabel, InfoLabel,
         Label, Caller, Running,
         supervisorVars, replayVars, osVars, callerVars,
         InfoCrashes, StatusDone, InfoDone, Goto, Answer
    <2>6. os' \in [Pid -> {"unused", "running", "exited"}]
      BY Names, ConstantsAssumption DEF ControllerInv, TypeOK, CallerInv, StopLabel, InfoLabel,
         Label, Caller, Running,
         supervisorVars, replayVars, osVars, callerVars,
         InfoCrashes, StatusDone, InfoDone, Goto, Answer
    <2>7. owner' \in [Pid -> Component \cup {Replay, None}]
      BY Names, ConstantsAssumption DEF ControllerInv, TypeOK, CallerInv, StopLabel, InfoLabel,
         Label, Caller, Running,
         supervisorVars, replayVars, osVars, callerVars,
         InfoCrashes, StatusDone, InfoDone, Goto, Answer
    <2>8. pc' \in [Caller -> Label]
      BY Names, ConstantsAssumption DEF ControllerInv, TypeOK, CallerInv, StopLabel, InfoLabel,
         Label, Caller, Running,
         supervisorVars, replayVars, osVars, callerVars,
         InfoCrashes, StatusDone, InfoDone, Goto, Answer
    <2>9. at' \in [Caller -> Component \cup {None}]
      BY Names, ConstantsAssumption DEF ControllerInv, TypeOK, CallerInv, StopLabel, InfoLabel,
         Label, Caller, Running,
         supervisorVars, replayVars, osVars, callerVars,
         InfoCrashes, StatusDone, InfoDone, Goto, Answer
    <2>10. child' \in [Caller -> Pid \cup {None}]
      BY Names, ConstantsAssumption DEF ControllerInv, TypeOK, CallerInv, StopLabel, InfoLabel,
         Label, Caller, Running,
         supervisorVars, replayVars, osVars, callerVars,
         InfoCrashes, StatusDone, InfoDone, Goto, Answer
    <2>11. left' \in 0..MaxRequests
      BY Names, ConstantsAssumption DEF ControllerInv, TypeOK, CallerInv, StopLabel, InfoLabel,
         Label, Caller, Running,
         supervisorVars, replayVars, osVars, callerVars,
         InfoCrashes, StatusDone, InfoDone, Goto, Answer
    <2> QED
      BY <2>1, <2>2, <2>3, <2>4, <2>5, <2>6, <2>7, <2>8, <2>9, <2>10, <2>11 DEF TypeOK
  <1>2. OwnerInv'
    BY Names DEF ControllerInv, TypeOK, OwnerInv, RunningIsOwned, CallerInv, PhaseInv,
       StopLabel, InfoLabel, Label, Running,
       supervisorVars, replayVars, osVars, callerVars,
       InfoCrashes, StatusDone, InfoDone, Goto, Answer
  <1>3. CallerInv'
    BY Names DEF ControllerInv, TypeOK, CallerInv, PhaseInv, StopLabel, InfoLabel, Label,
       Caller, Running,
       supervisorVars, replayVars, osVars, callerVars,
       InfoCrashes, StatusDone, InfoDone, Goto, Answer
  <1>4. PhaseInv'
    BY Names DEF ControllerInv, TypeOK, CallerInv, PhaseInv, StopLabel, InfoLabel, Label,
       Caller, Running,
       supervisorVars, replayVars, osVars, callerVars,
       InfoCrashes, StatusDone, InfoDone, Goto, Answer
  <1>5. LockProtectsProc'
    BY Names DEF ControllerInv, TypeOK, CallerInv, PhaseInv, LockProtectsProc, StopLabel,
       InfoLabel, Label, Caller, Running,
       supervisorVars, replayVars, osVars, callerVars,
       InfoCrashes, StatusDone, InfoDone, Goto, Answer
  <1>6. ShutdownInv'
    BY Names DEF ControllerInv, TypeOK, OwnerInv, RunningIsOwned, CallerInv, PhaseInv,
       ShutdownInv, StopLabel, InfoLabel, Label, Caller, Running,
       supervisorVars, replayVars, osVars, callerVars,
       InfoCrashes, StatusDone, InfoDone, Goto, Answer
  <1> QED
    BY <1>1, <1>2, <1>3, <1>4, <1>5, <1>6 DEF ControllerInv

\* A replay request that starts nothing.
LEMMA ReplayEndKeeps ==
    ASSUME ControllerInv, NEW t \in Thread, NEW f \in Capture, ReplayRefused(t, f) \/ ReplaySpawnFails(t, f)
    PROVE  ControllerInv'
  <1>1. TypeOK'
    <2>1. phase' \in {"boot", "serving", "stop_replay", "stop_all", "down"} /\ booted' \subseteq Component
      BY Names, ConstantsAssumption DEF ControllerInv, TypeOK, CallerInv, StopLabel, InfoLabel,
         Label, Caller, Running,
         supervisorVars, replayVars, osVars, callerVars,
         ReplayRefused, ReplaySpawnFails, Goto, Answer
    <2>2. proc' \in [Component -> Pid \cup {None}]
      BY Names, ConstantsAssumption DEF ControllerInv, TypeOK, CallerInv, StopLabel, InfoLabel,
         Label, Caller, Running,
         supervisorVars, replayVars, osVars, callerVars,
         ReplayRefused, ReplaySpawnFails, Goto, Answer
    <2>3. lock' \in Caller \cup {None}
      BY Names, ConstantsAssumption DEF ControllerInv, TypeOK, CallerInv, StopLabel, InfoLabel,
         Label, Caller, Running,
         supervisorVars, replayVars, osVars, callerVars,
         ReplayRefused, ReplaySpawnFails, Goto, Answer
    <2>4. slot' \in Pid \cup {None} /\ active' \in Pid \cup {None}
      BY Names, ConstantsAssumption DEF ControllerInv, TypeOK, CallerInv, StopLabel, InfoLabel,
         Label, Caller, Running,
         supervisorVars, replayVars, osVars, callerVars,
         ReplayRefused, ReplaySpawnFails, Goto, Answer
    <2>5. reaper' \subseteq Pid /\ killed' \subseteq Pid
      BY Names, ConstantsAssumption DEF ControllerInv, TypeOK, CallerInv, StopLabel, InfoLabel,
         Label, Caller, Running,
         supervisorVars, replayVars, osVars, callerVars,
         ReplayRefused, ReplaySpawnFails, Goto, Answer
    <2>6. os' \in [Pid -> {"unused", "running", "exited"}]
      BY Names, ConstantsAssumption DEF ControllerInv, TypeOK, CallerInv, StopLabel, InfoLabel,
         Label, Caller, Running,
         supervisorVars, replayVars, osVars, callerVars,
         ReplayRefused, ReplaySpawnFails, Goto, Answer
    <2>7. owner' \in [Pid -> Component \cup {Replay, None}]
      BY Names, ConstantsAssumption DEF ControllerInv, TypeOK, CallerInv, StopLabel, InfoLabel,
         Label, Caller, Running,
         supervisorVars, replayVars, osVars, callerVars,
         ReplayRefused, ReplaySpawnFails, Goto, Answer
    <2>8. pc' \in [Caller -> Label]
      BY Names, ConstantsAssumption DEF ControllerInv, TypeOK, CallerInv, StopLabel, InfoLabel,
         Label, Caller, Running,
         supervisorVars, replayVars, osVars, callerVars,
         ReplayRefused, ReplaySpawnFails, Goto, Answer
    <2>9. at' \in [Caller -> Component \cup {None}]
      BY Names, ConstantsAssumption DEF ControllerInv, TypeOK, CallerInv, StopLabel, InfoLabel,
         Label, Caller, Running,
         supervisorVars, replayVars, osVars, callerVars,
         ReplayRefused, ReplaySpawnFails, Goto, Answer
    <2>10. child' \in [Caller -> Pid \cup {None}]
      BY Names, ConstantsAssumption DEF ControllerInv, TypeOK, CallerInv, StopLabel, InfoLabel,
         Label, Caller, Running,
         supervisorVars, replayVars, osVars, callerVars,
         ReplayRefused, ReplaySpawnFails, Goto, Answer
    <2>11. left' \in 0..MaxRequests
      BY Names, ConstantsAssumption DEF ControllerInv, TypeOK, CallerInv, StopLabel, InfoLabel,
         Label, Caller, Running,
         supervisorVars, replayVars, osVars, callerVars,
         ReplayRefused, ReplaySpawnFails, Goto, Answer
    <2> QED
      BY <2>1, <2>2, <2>3, <2>4, <2>5, <2>6, <2>7, <2>8, <2>9, <2>10, <2>11 DEF TypeOK
  <1>2. OwnerInv'
    BY Names DEF ControllerInv, TypeOK, OwnerInv, RunningIsOwned, CallerInv, PhaseInv,
       StopLabel, InfoLabel, Label, Running,
       supervisorVars, replayVars, osVars, callerVars,
       ReplayRefused, ReplaySpawnFails, Goto, Answer
  <1>3. CallerInv'
    BY Names DEF ControllerInv, TypeOK, CallerInv, PhaseInv, StopLabel, InfoLabel, Label,
       Caller, Running,
       supervisorVars, replayVars, osVars, callerVars,
       ReplayRefused, ReplaySpawnFails, Goto, Answer
  <1>4. PhaseInv'
    BY Names DEF ControllerInv, TypeOK, CallerInv, PhaseInv, StopLabel, InfoLabel, Label,
       Caller, Running,
       supervisorVars, replayVars, osVars, callerVars,
       ReplayRefused, ReplaySpawnFails, Goto, Answer
  <1>5. LockProtectsProc'
    BY Names DEF ControllerInv, TypeOK, CallerInv, PhaseInv, LockProtectsProc, StopLabel,
       InfoLabel, Label, Caller, Running,
       supervisorVars, replayVars, osVars, callerVars,
       ReplayRefused, ReplaySpawnFails, Goto, Answer
  <1>6. ShutdownInv'
    BY Names DEF ControllerInv, TypeOK, OwnerInv, RunningIsOwned, CallerInv, PhaseInv,
       ShutdownInv, StopLabel, InfoLabel, Label, Caller, Running,
       supervisorVars, replayVars, osVars, callerVars,
       ReplayRefused, ReplaySpawnFails, Goto, Answer
  <1> QED
    BY <1>1, <1>2, <1>3, <1>4, <1>5, <1>6 DEF ControllerInv

\* A replay takes a slot whose job has ended.
LEMMA StartReplayKeeps ==
    ASSUME ControllerInv, NEW t \in Thread, NEW f \in Capture, StartReplay(t, f)
    PROVE  ControllerInv'
  <1>1. TypeOK'
    <2>1. phase' \in {"boot", "serving", "stop_replay", "stop_all", "down"} /\ booted' \subseteq Component
      BY Names, ConstantsAssumption DEF ControllerInv, TypeOK, CallerInv, StopLabel, InfoLabel,
         Label, Caller, Running,
         supervisorVars, replayVars, osVars, callerVars,
         StartReplay, Spawn, Fresh, Goto
    <2>2. proc' \in [Component -> Pid \cup {None}]
      BY Names, ConstantsAssumption DEF ControllerInv, TypeOK, CallerInv, StopLabel, InfoLabel,
         Label, Caller, Running,
         supervisorVars, replayVars, osVars, callerVars,
         StartReplay, Spawn, Fresh, Goto
    <2>3. lock' \in Caller \cup {None}
      BY Names, ConstantsAssumption DEF ControllerInv, TypeOK, CallerInv, StopLabel, InfoLabel,
         Label, Caller, Running,
         supervisorVars, replayVars, osVars, callerVars,
         StartReplay, Spawn, Fresh, Goto
    <2>4. slot' \in Pid \cup {None} /\ active' \in Pid \cup {None}
      BY Names, ConstantsAssumption DEF ControllerInv, TypeOK, CallerInv, StopLabel, InfoLabel,
         Label, Caller, Running,
         supervisorVars, replayVars, osVars, callerVars,
         StartReplay, Spawn, Fresh, Goto
    <2>5. reaper' \subseteq Pid /\ killed' \subseteq Pid
      BY Names, ConstantsAssumption DEF ControllerInv, TypeOK, CallerInv, StopLabel, InfoLabel,
         Label, Caller, Running,
         supervisorVars, replayVars, osVars, callerVars,
         StartReplay, Spawn, Fresh, Goto
    <2>6. os' \in [Pid -> {"unused", "running", "exited"}]
      BY Names, ConstantsAssumption DEF ControllerInv, TypeOK, CallerInv, StopLabel, InfoLabel,
         Label, Caller, Running,
         supervisorVars, replayVars, osVars, callerVars,
         StartReplay, Spawn, Fresh, Goto
    <2>7. owner' \in [Pid -> Component \cup {Replay, None}]
      BY Names, ConstantsAssumption DEF ControllerInv, TypeOK, CallerInv, StopLabel, InfoLabel,
         Label, Caller, Running,
         supervisorVars, replayVars, osVars, callerVars,
         StartReplay, Spawn, Fresh, Goto
    <2>8. pc' \in [Caller -> Label]
      BY Names, ConstantsAssumption DEF ControllerInv, TypeOK, CallerInv, StopLabel, InfoLabel,
         Label, Caller, Running,
         supervisorVars, replayVars, osVars, callerVars,
         StartReplay, Spawn, Fresh, Goto
    <2>9. at' \in [Caller -> Component \cup {None}]
      BY Names, ConstantsAssumption DEF ControllerInv, TypeOK, CallerInv, StopLabel, InfoLabel,
         Label, Caller, Running,
         supervisorVars, replayVars, osVars, callerVars,
         StartReplay, Spawn, Fresh, Goto
    <2>10. child' \in [Caller -> Pid \cup {None}]
      BY Names, ConstantsAssumption DEF ControllerInv, TypeOK, CallerInv, StopLabel, InfoLabel,
         Label, Caller, Running,
         supervisorVars, replayVars, osVars, callerVars,
         StartReplay, Spawn, Fresh, Goto
    <2>11. left' \in 0..MaxRequests
      BY Names, ConstantsAssumption DEF ControllerInv, TypeOK, CallerInv, StopLabel, InfoLabel,
         Label, Caller, Running,
         supervisorVars, replayVars, osVars, callerVars,
         StartReplay, Spawn, Fresh, Goto
    <2> QED
      BY <2>1, <2>2, <2>3, <2>4, <2>5, <2>6, <2>7, <2>8, <2>9, <2>10, <2>11 DEF TypeOK
  <1>2. OwnerInv'
    BY Names DEF ControllerInv, TypeOK, OwnerInv, RunningIsOwned, CallerInv, PhaseInv,
       StopLabel, InfoLabel, Label, Running,
       supervisorVars, replayVars, osVars, callerVars,
       StartReplay, Spawn, Fresh, Goto
  <1>3. CallerInv'
    BY Names DEF ControllerInv, TypeOK, CallerInv, PhaseInv, StopLabel, InfoLabel, Label,
       Caller, Running,
       supervisorVars, replayVars, osVars, callerVars,
       StartReplay, Spawn, Fresh, Goto
  <1>4. PhaseInv'
    BY Names DEF ControllerInv, TypeOK, CallerInv, PhaseInv, StopLabel, InfoLabel, Label,
       Caller, Running,
       supervisorVars, replayVars, osVars, callerVars,
       StartReplay, Spawn, Fresh, Goto
  <1>5. LockProtectsProc'
    BY Names DEF ControllerInv, TypeOK, CallerInv, PhaseInv, LockProtectsProc, StopLabel,
       InfoLabel, Label, Caller, Running,
       supervisorVars, replayVars, osVars, callerVars,
       StartReplay, Spawn, Fresh, Goto
  <1>6. ShutdownInv'
    BY Names DEF ControllerInv, TypeOK, OwnerInv, RunningIsOwned, CallerInv, PhaseInv,
       ShutdownInv, StopLabel, InfoLabel, Label, Caller, Running,
       supervisorVars, replayVars, osVars, callerVars,
       StartReplay, Spawn, Fresh, Goto
  <1> QED
    BY <1>1, <1>2, <1>3, <1>4, <1>5, <1>6 DEF ControllerInv

\* A reader of active clears a finished job.
LEMMA ActiveKeeps ==
    ASSUME ControllerInv, NEW t \in Thread, Active(t)
    PROVE  ControllerInv'
  <1>1. TypeOK'
    <2>1. phase' \in {"boot", "serving", "stop_replay", "stop_all", "down"} /\ booted' \subseteq Component
      BY Names, ConstantsAssumption DEF ControllerInv, TypeOK, CallerInv, StopLabel, InfoLabel,
         Label, Caller, Running,
         supervisorVars, replayVars, osVars, callerVars,
         Active, Goto, Answer
    <2>2. proc' \in [Component -> Pid \cup {None}]
      BY Names, ConstantsAssumption DEF ControllerInv, TypeOK, CallerInv, StopLabel, InfoLabel,
         Label, Caller, Running,
         supervisorVars, replayVars, osVars, callerVars,
         Active, Goto, Answer
    <2>3. lock' \in Caller \cup {None}
      BY Names, ConstantsAssumption DEF ControllerInv, TypeOK, CallerInv, StopLabel, InfoLabel,
         Label, Caller, Running,
         supervisorVars, replayVars, osVars, callerVars,
         Active, Goto, Answer
    <2>4. slot' \in Pid \cup {None} /\ active' \in Pid \cup {None}
      BY Names, ConstantsAssumption DEF ControllerInv, TypeOK, CallerInv, StopLabel, InfoLabel,
         Label, Caller, Running,
         supervisorVars, replayVars, osVars, callerVars,
         Active, Goto, Answer
    <2>5. reaper' \subseteq Pid /\ killed' \subseteq Pid
      BY Names, ConstantsAssumption DEF ControllerInv, TypeOK, CallerInv, StopLabel, InfoLabel,
         Label, Caller, Running,
         supervisorVars, replayVars, osVars, callerVars,
         Active, Goto, Answer
    <2>6. os' \in [Pid -> {"unused", "running", "exited"}]
      BY Names, ConstantsAssumption DEF ControllerInv, TypeOK, CallerInv, StopLabel, InfoLabel,
         Label, Caller, Running,
         supervisorVars, replayVars, osVars, callerVars,
         Active, Goto, Answer
    <2>7. owner' \in [Pid -> Component \cup {Replay, None}]
      BY Names, ConstantsAssumption DEF ControllerInv, TypeOK, CallerInv, StopLabel, InfoLabel,
         Label, Caller, Running,
         supervisorVars, replayVars, osVars, callerVars,
         Active, Goto, Answer
    <2>8. pc' \in [Caller -> Label]
      BY Names, ConstantsAssumption DEF ControllerInv, TypeOK, CallerInv, StopLabel, InfoLabel,
         Label, Caller, Running,
         supervisorVars, replayVars, osVars, callerVars,
         Active, Goto, Answer
    <2>9. at' \in [Caller -> Component \cup {None}]
      BY Names, ConstantsAssumption DEF ControllerInv, TypeOK, CallerInv, StopLabel, InfoLabel,
         Label, Caller, Running,
         supervisorVars, replayVars, osVars, callerVars,
         Active, Goto, Answer
    <2>10. child' \in [Caller -> Pid \cup {None}]
      BY Names, ConstantsAssumption DEF ControllerInv, TypeOK, CallerInv, StopLabel, InfoLabel,
         Label, Caller, Running,
         supervisorVars, replayVars, osVars, callerVars,
         Active, Goto, Answer
    <2>11. left' \in 0..MaxRequests
      BY Names, ConstantsAssumption DEF ControllerInv, TypeOK, CallerInv, StopLabel, InfoLabel,
         Label, Caller, Running,
         supervisorVars, replayVars, osVars, callerVars,
         Active, Goto, Answer
    <2> QED
      BY <2>1, <2>2, <2>3, <2>4, <2>5, <2>6, <2>7, <2>8, <2>9, <2>10, <2>11 DEF TypeOK
  <1>2. OwnerInv'
    BY Names DEF ControllerInv, TypeOK, OwnerInv, RunningIsOwned, CallerInv, PhaseInv,
       StopLabel, InfoLabel, Label, Running,
       supervisorVars, replayVars, osVars, callerVars,
       Active, Goto, Answer
  <1>3. CallerInv'
    BY Names DEF ControllerInv, TypeOK, CallerInv, PhaseInv, StopLabel, InfoLabel, Label,
       Caller, Running,
       supervisorVars, replayVars, osVars, callerVars,
       Active, Goto, Answer
  <1>4. PhaseInv'
    BY Names DEF ControllerInv, TypeOK, CallerInv, PhaseInv, StopLabel, InfoLabel, Label,
       Caller, Running,
       supervisorVars, replayVars, osVars, callerVars,
       Active, Goto, Answer
  <1>5. LockProtectsProc'
    BY Names DEF ControllerInv, TypeOK, CallerInv, PhaseInv, LockProtectsProc, StopLabel,
       InfoLabel, Label, Caller, Running,
       supervisorVars, replayVars, osVars, callerVars,
       Active, Goto, Answer
  <1>6. ShutdownInv'
    BY Names DEF ControllerInv, TypeOK, OwnerInv, RunningIsOwned, CallerInv, PhaseInv,
       ShutdownInv, StopLabel, InfoLabel, Label, Caller, Running,
       supervisorVars, replayVars, osVars, callerVars,
       Active, Goto, Answer
  <1> QED
    BY <1>1, <1>2, <1>3, <1>4, <1>5, <1>6 DEF ControllerInv

\* A reaper clears only its own job.
LEMMA ReapKeeps ==
    ASSUME ControllerInv, NEW p \in Pid, Reap(p)
    PROVE  ControllerInv'
  <1>1. TypeOK'
    BY Names DEF ControllerInv, TypeOK, CallerInv, StopLabel, InfoLabel, Label, Caller, Running,
       supervisorVars, replayVars, osVars, callerVars,
       Reap
  <1>2. OwnerInv'
    BY Names DEF ControllerInv, TypeOK, OwnerInv, RunningIsOwned, CallerInv, PhaseInv,
       StopLabel, InfoLabel, Label, Running,
       supervisorVars, replayVars, osVars, callerVars,
       Reap
  <1>3. CallerInv'
    BY Names DEF ControllerInv, TypeOK, CallerInv, PhaseInv, StopLabel, InfoLabel, Label,
       Caller, Running,
       supervisorVars, replayVars, osVars, callerVars,
       Reap
  <1>4. PhaseInv'
    BY Names DEF ControllerInv, TypeOK, CallerInv, PhaseInv, StopLabel, InfoLabel, Label,
       Caller, Running,
       supervisorVars, replayVars, osVars, callerVars,
       Reap
  <1>5. LockProtectsProc'
    BY Names DEF ControllerInv, TypeOK, CallerInv, PhaseInv, LockProtectsProc, StopLabel,
       InfoLabel, Label, Caller, Running,
       supervisorVars, replayVars, osVars, callerVars,
       Reap
  <1>6. ShutdownInv'
    BY Names DEF ControllerInv, TypeOK, OwnerInv, RunningIsOwned, CallerInv, PhaseInv,
       ShutdownInv, StopLabel, InfoLabel, Label, Caller, Running,
       supervisorVars, replayVars, osVars, callerVars,
       Reap
  <1> QED
    BY <1>1, <1>2, <1>3, <1>4, <1>5, <1>6 DEF ControllerInv

\* A process exits.
LEMMA ExitKeeps ==
    ASSUME ControllerInv, NEW p \in Pid, Exit(p)
    PROVE  ControllerInv'
  <1>1. TypeOK'
    BY Names DEF ControllerInv, TypeOK, CallerInv, StopLabel, InfoLabel, Label, Caller, Running,
       supervisorVars, replayVars, osVars, callerVars,
       Exit
  <1>2. OwnerInv'
    BY Names DEF ControllerInv, TypeOK, OwnerInv, RunningIsOwned, CallerInv, PhaseInv,
       StopLabel, InfoLabel, Label, Running,
       supervisorVars, replayVars, osVars, callerVars,
       Exit
  <1>3. CallerInv'
    BY Names DEF ControllerInv, TypeOK, CallerInv, PhaseInv, StopLabel, InfoLabel, Label,
       Caller, Running,
       supervisorVars, replayVars, osVars, callerVars,
       Exit
  <1>4. PhaseInv'
    BY Names DEF ControllerInv, TypeOK, CallerInv, PhaseInv, StopLabel, InfoLabel, Label,
       Caller, Running,
       supervisorVars, replayVars, osVars, callerVars,
       Exit
  <1>5. LockProtectsProc'
    BY Names DEF ControllerInv, TypeOK, CallerInv, PhaseInv, LockProtectsProc, StopLabel,
       InfoLabel, Label, Caller, Running,
       supervisorVars, replayVars, osVars, callerVars,
       Exit
  <1>6. ShutdownInv'
    BY Names DEF ControllerInv, TypeOK, OwnerInv, RunningIsOwned, CallerInv, PhaseInv,
       ShutdownInv, StopLabel, InfoLabel, Label, Caller, Running,
       supervisorVars, replayVars, osVars, callerVars,
       Exit
  <1> QED
    BY <1>1, <1>2, <1>3, <1>4, <1>5, <1>6 DEF ControllerInv

\* Startup happens before any request.
LEMMA AutostartKeeps ==
    ASSUME ControllerInv, NEW c \in Component, AutostartOne(c)
    PROVE  ControllerInv'
  <1>1. TypeOK'
    <2>1. phase' \in {"boot", "serving", "stop_replay", "stop_all", "down"} /\ booted' \subseteq Component
      BY Names, ConstantsAssumption DEF ControllerInv, TypeOK, CallerInv, StopLabel, InfoLabel,
         Label, Caller, Running,
         supervisorVars, replayVars, osVars, callerVars,
         AutostartOne, AlreadyRunning, StartRefused, BadExecutable, LogFails, SpawnFails,
         Started, Spawn, Fresh
    <2>2. proc' \in [Component -> Pid \cup {None}]
      BY Names, ConstantsAssumption DEF ControllerInv, TypeOK, CallerInv, StopLabel, InfoLabel,
         Label, Caller, Running,
         supervisorVars, replayVars, osVars, callerVars,
         AutostartOne, AlreadyRunning, StartRefused, BadExecutable, LogFails, SpawnFails,
         Started, Spawn, Fresh
    <2>3. lock' \in Caller \cup {None}
      BY Names, ConstantsAssumption DEF ControllerInv, TypeOK, CallerInv, StopLabel, InfoLabel,
         Label, Caller, Running,
         supervisorVars, replayVars, osVars, callerVars,
         AutostartOne, AlreadyRunning, StartRefused, BadExecutable, LogFails, SpawnFails,
         Started, Spawn, Fresh
    <2>4. slot' \in Pid \cup {None} /\ active' \in Pid \cup {None}
      BY Names, ConstantsAssumption DEF ControllerInv, TypeOK, CallerInv, StopLabel, InfoLabel,
         Label, Caller, Running,
         supervisorVars, replayVars, osVars, callerVars,
         AutostartOne, AlreadyRunning, StartRefused, BadExecutable, LogFails, SpawnFails,
         Started, Spawn, Fresh
    <2>5. reaper' \subseteq Pid /\ killed' \subseteq Pid
      BY Names, ConstantsAssumption DEF ControllerInv, TypeOK, CallerInv, StopLabel, InfoLabel,
         Label, Caller, Running,
         supervisorVars, replayVars, osVars, callerVars,
         AutostartOne, AlreadyRunning, StartRefused, BadExecutable, LogFails, SpawnFails,
         Started, Spawn, Fresh
    <2>6. os' \in [Pid -> {"unused", "running", "exited"}]
      BY Names, ConstantsAssumption DEF ControllerInv, TypeOK, CallerInv, StopLabel, InfoLabel,
         Label, Caller, Running,
         supervisorVars, replayVars, osVars, callerVars,
         AutostartOne, AlreadyRunning, StartRefused, BadExecutable, LogFails, SpawnFails,
         Started, Spawn, Fresh
    <2>7. owner' \in [Pid -> Component \cup {Replay, None}]
      BY Names, ConstantsAssumption DEF ControllerInv, TypeOK, CallerInv, StopLabel, InfoLabel,
         Label, Caller, Running,
         supervisorVars, replayVars, osVars, callerVars,
         AutostartOne, AlreadyRunning, StartRefused, BadExecutable, LogFails, SpawnFails,
         Started, Spawn, Fresh
    <2>8. pc' \in [Caller -> Label]
      BY Names, ConstantsAssumption DEF ControllerInv, TypeOK, CallerInv, StopLabel, InfoLabel,
         Label, Caller, Running,
         supervisorVars, replayVars, osVars, callerVars,
         AutostartOne, AlreadyRunning, StartRefused, BadExecutable, LogFails, SpawnFails,
         Started, Spawn, Fresh
    <2>9. at' \in [Caller -> Component \cup {None}]
      BY Names, ConstantsAssumption DEF ControllerInv, TypeOK, CallerInv, StopLabel, InfoLabel,
         Label, Caller, Running,
         supervisorVars, replayVars, osVars, callerVars,
         AutostartOne, AlreadyRunning, StartRefused, BadExecutable, LogFails, SpawnFails,
         Started, Spawn, Fresh
    <2>10. child' \in [Caller -> Pid \cup {None}]
      BY Names, ConstantsAssumption DEF ControllerInv, TypeOK, CallerInv, StopLabel, InfoLabel,
         Label, Caller, Running,
         supervisorVars, replayVars, osVars, callerVars,
         AutostartOne, AlreadyRunning, StartRefused, BadExecutable, LogFails, SpawnFails,
         Started, Spawn, Fresh
    <2>11. left' \in 0..MaxRequests
      BY Names, ConstantsAssumption DEF ControllerInv, TypeOK, CallerInv, StopLabel, InfoLabel,
         Label, Caller, Running,
         supervisorVars, replayVars, osVars, callerVars,
         AutostartOne, AlreadyRunning, StartRefused, BadExecutable, LogFails, SpawnFails,
         Started, Spawn, Fresh
    <2> QED
      BY <2>1, <2>2, <2>3, <2>4, <2>5, <2>6, <2>7, <2>8, <2>9, <2>10, <2>11 DEF TypeOK
  <1>2. OwnerInv'
    BY Names DEF ControllerInv, TypeOK, OwnerInv, RunningIsOwned, CallerInv, PhaseInv,
       StopLabel, InfoLabel, Label, Running,
       supervisorVars, replayVars, osVars, callerVars,
       AutostartOne, AlreadyRunning, StartRefused, BadExecutable, LogFails, SpawnFails,
       Started, Spawn, Fresh
  <1>3. CallerInv'
    BY Names DEF ControllerInv, TypeOK, CallerInv, PhaseInv, StopLabel, InfoLabel, Label,
       Caller, Running,
       supervisorVars, replayVars, osVars, callerVars,
       AutostartOne, AlreadyRunning, StartRefused, BadExecutable, LogFails, SpawnFails,
       Started, Spawn, Fresh
  <1>4. PhaseInv'
    BY Names DEF ControllerInv, TypeOK, CallerInv, PhaseInv, StopLabel, InfoLabel, Label,
       Caller, Running,
       supervisorVars, replayVars, osVars, callerVars,
       AutostartOne, AlreadyRunning, StartRefused, BadExecutable, LogFails, SpawnFails,
       Started, Spawn, Fresh
  <1>5. LockProtectsProc'
    BY Names DEF ControllerInv, TypeOK, CallerInv, PhaseInv, LockProtectsProc, StopLabel,
       InfoLabel, Label, Caller, Running,
       supervisorVars, replayVars, osVars, callerVars,
       AutostartOne, AlreadyRunning, StartRefused, BadExecutable, LogFails, SpawnFails,
       Started, Spawn, Fresh
  <1>6. ShutdownInv'
    BY Names DEF ControllerInv, TypeOK, OwnerInv, RunningIsOwned, CallerInv, PhaseInv,
       ShutdownInv, StopLabel, InfoLabel, Label, Caller, Running,
       supervisorVars, replayVars, osVars, callerVars,
       AutostartOne, AlreadyRunning, StartRefused, BadExecutable, LogFails, SpawnFails,
       Started, Spawn, Fresh
  <1> QED
    BY <1>1, <1>2, <1>3, <1>4, <1>5, <1>6 DEF ControllerInv

\* The application's phases.
LEMMA LifespanKeeps ==
    ASSUME ControllerInv, Serve \/ Shutdown \/ ReplayStopped \/ Down
    PROVE  ControllerInv'
  <1>1. TypeOK'
    <2>1. phase' \in {"boot", "serving", "stop_replay", "stop_all", "down"} /\ booted' \subseteq Component
      BY Names, ConstantsAssumption DEF ControllerInv, TypeOK, CallerInv, StopLabel, InfoLabel,
         Label, Caller, Running,
         supervisorVars, replayVars, osVars, callerVars,
         Serve, Shutdown, ReplayStopped, Down
    <2>2. proc' \in [Component -> Pid \cup {None}]
      BY Names, ConstantsAssumption DEF ControllerInv, TypeOK, CallerInv, StopLabel, InfoLabel,
         Label, Caller, Running,
         supervisorVars, replayVars, osVars, callerVars,
         Serve, Shutdown, ReplayStopped, Down
    <2>3. lock' \in Caller \cup {None}
      BY Names, ConstantsAssumption DEF ControllerInv, TypeOK, CallerInv, StopLabel, InfoLabel,
         Label, Caller, Running,
         supervisorVars, replayVars, osVars, callerVars,
         Serve, Shutdown, ReplayStopped, Down
    <2>4. slot' \in Pid \cup {None} /\ active' \in Pid \cup {None}
      BY Names, ConstantsAssumption DEF ControllerInv, TypeOK, CallerInv, StopLabel, InfoLabel,
         Label, Caller, Running,
         supervisorVars, replayVars, osVars, callerVars,
         Serve, Shutdown, ReplayStopped, Down
    <2>5. reaper' \subseteq Pid /\ killed' \subseteq Pid
      BY Names, ConstantsAssumption, ZenonT(60) DEF ControllerInv, TypeOK, CallerInv,
         StopLabel, InfoLabel, Label, Caller, Running,
         supervisorVars, replayVars, osVars, callerVars,
         Serve, Shutdown, ReplayStopped, Down
    <2>6. os' \in [Pid -> {"unused", "running", "exited"}]
      BY Names, ConstantsAssumption DEF ControllerInv, TypeOK, CallerInv, StopLabel, InfoLabel,
         Label, Caller, Running,
         supervisorVars, replayVars, osVars, callerVars,
         Serve, Shutdown, ReplayStopped, Down
    <2>7. owner' \in [Pid -> Component \cup {Replay, None}]
      BY Names, ConstantsAssumption DEF ControllerInv, TypeOK, CallerInv, StopLabel, InfoLabel,
         Label, Caller, Running,
         supervisorVars, replayVars, osVars, callerVars,
         Serve, Shutdown, ReplayStopped, Down
    <2>8. pc' \in [Caller -> Label]
      BY Names, ConstantsAssumption DEF ControllerInv, TypeOK, CallerInv, StopLabel, InfoLabel,
         Label, Caller, Running,
         supervisorVars, replayVars, osVars, callerVars,
         Serve, Shutdown, ReplayStopped, Down
    <2>9. at' \in [Caller -> Component \cup {None}]
      BY Names, ConstantsAssumption DEF ControllerInv, TypeOK, CallerInv, StopLabel, InfoLabel,
         Label, Caller, Running,
         supervisorVars, replayVars, osVars, callerVars,
         Serve, Shutdown, ReplayStopped, Down
    <2>10. child' \in [Caller -> Pid \cup {None}]
      BY Names, ConstantsAssumption DEF ControllerInv, TypeOK, CallerInv, StopLabel, InfoLabel,
         Label, Caller, Running,
         supervisorVars, replayVars, osVars, callerVars,
         Serve, Shutdown, ReplayStopped, Down
    <2>11. left' \in 0..MaxRequests
      BY Names, ConstantsAssumption DEF ControllerInv, TypeOK, CallerInv, StopLabel, InfoLabel,
         Label, Caller, Running,
         supervisorVars, replayVars, osVars, callerVars,
         Serve, Shutdown, ReplayStopped, Down
    <2> QED
      BY <2>1, <2>2, <2>3, <2>4, <2>5, <2>6, <2>7, <2>8, <2>9, <2>10, <2>11 DEF TypeOK
  <1>2. OwnerInv'
    BY Names DEF ControllerInv, TypeOK, OwnerInv, RunningIsOwned, CallerInv, PhaseInv,
       StopLabel, InfoLabel, Label, Running,
       supervisorVars, replayVars, osVars, callerVars,
       Serve, Shutdown, ReplayStopped, Down
  <1>3. CallerInv'
    BY Names DEF ControllerInv, TypeOK, CallerInv, PhaseInv, StopLabel, InfoLabel, Label,
       Caller, Running,
       supervisorVars, replayVars, osVars, callerVars,
       Serve, Shutdown, ReplayStopped, Down
  <1>4. PhaseInv'
    BY Names DEF ControllerInv, TypeOK, CallerInv, PhaseInv, StopLabel, InfoLabel, Label,
       Caller, Running,
       supervisorVars, replayVars, osVars, callerVars,
       Serve, Shutdown, ReplayStopped, Down
  <1>5. LockProtectsProc'
    BY Names DEF ControllerInv, TypeOK, CallerInv, PhaseInv, LockProtectsProc, StopLabel,
       InfoLabel, Label, Caller, Running,
       supervisorVars, replayVars, osVars, callerVars,
       Serve, Shutdown, ReplayStopped, Down
  <1>6. ShutdownInv'
    BY Names DEF ControllerInv, TypeOK, OwnerInv, RunningIsOwned, CallerInv, PhaseInv,
       ShutdownInv, StopLabel, InfoLabel, Label, Caller, Running,
       supervisorVars, replayVars, osVars, callerVars,
       Serve, Shutdown, ReplayStopped, Down
  <1> QED
    BY <1>1, <1>2, <1>3, <1>4, <1>5, <1>6 DEF ControllerInv

\* stop_all turns to the next component.
LEMMA StopNextKeeps ==
    ASSUME ControllerInv, NEW c \in Component, StopNext(c)
    PROVE  ControllerInv'
  <1>1. TypeOK'
    BY Names DEF ControllerInv, TypeOK, CallerInv, StopLabel, InfoLabel, Label, Caller, Running,
       supervisorVars, replayVars, osVars, callerVars,
       StopNext, Goto
  <1>2. OwnerInv'
    BY Names DEF ControllerInv, TypeOK, OwnerInv, RunningIsOwned, CallerInv, PhaseInv,
       StopLabel, InfoLabel, Label, Running,
       supervisorVars, replayVars, osVars, callerVars,
       StopNext, Goto
  <1>3. CallerInv'
    BY Names DEF ControllerInv, TypeOK, CallerInv, PhaseInv, StopLabel, InfoLabel, Label,
       Caller, Running,
       supervisorVars, replayVars, osVars, callerVars,
       StopNext, Goto
  <1>4. PhaseInv'
    BY Names DEF ControllerInv, TypeOK, CallerInv, PhaseInv, StopLabel, InfoLabel, Label,
       Caller, Running,
       supervisorVars, replayVars, osVars, callerVars,
       StopNext, Goto
  <1>5. LockProtectsProc'
    BY Names DEF ControllerInv, TypeOK, CallerInv, PhaseInv, LockProtectsProc, StopLabel,
       InfoLabel, Label, Caller, Running,
       supervisorVars, replayVars, osVars, callerVars,
       StopNext, Goto
  <1>6. ShutdownInv'
    BY Names DEF ControllerInv, TypeOK, OwnerInv, RunningIsOwned, CallerInv, PhaseInv,
       ShutdownInv, StopLabel, InfoLabel, Label, Caller, Running,
       supervisorVars, replayVars, osVars, callerVars,
       StopNext, Goto
  <1> QED
    BY <1>1, <1>2, <1>3, <1>4, <1>5, <1>6 DEF ControllerInv

----------------------------------------------------------------------------
\* The invariant holds initially.
LEMMA InitHolds == Init => ControllerInv
  <1> SUFFICES ASSUME Init PROVE ControllerInv
    OBVIOUS
  <1>1. TypeOK
    BY Names, ConstantsAssumption DEF Init, TypeOK, Label, Caller
  <1>2. OwnerInv
    BY Names DEF Init, OwnerInv, RunningIsOwned
  <1>3. CallerInv
    BY Names DEF Init, CallerInv, StopLabel, InfoLabel, Caller
  <1>4. PhaseInv /\ LockProtectsProc /\ ShutdownInv
    BY Names DEF Init, PhaseInv, LockProtectsProc, ShutdownInv, StopLabel, Caller
  <1> QED
    BY <1>1, <1>2, <1>3, <1>4 DEF ControllerInv

\* Every step of the controller, its threads and children keeps the invariant.
LEMMA StepHolds == ControllerInv /\ [Next]_vars => ControllerInv'
  <1> SUFFICES ASSUME ControllerInv, [Next]_vars PROVE ControllerInv'
    OBVIOUS
  <1>1. CASE \E t \in Thread, c \in Component, what \in {"start", "stop", "status"} : Request(t, what, c)
    <2>1. PICK t \in Thread, c \in Component, what \in {"start", "stop", "status"} : Request(t, what, c)
      BY <1>1
    <2> QED
      BY <2>1, RequestKeeps
  <1>2. CASE \E t \in Thread, what \in {"replay", "active"} : Request(t, what, None)
    <2>1. PICK t \in Thread, what \in {"replay", "active"} : Request(t, what, None)
      BY <1>2
    <2> QED
      BY <2>1, RequestKeeps
  <1>3. CASE \E t \in Thread : ThreadStep(t)
    <2>1. PICK t \in Thread : ThreadStep(t)
      BY <1>3
    <2>2. CASE InfoStep(t)
      BY <2>2, InfoKeeps, InfoEndKeeps DEF InfoStep
    <2>3. CASE ReplayStep(t)
      BY <2>3, ReplayEndKeeps, StartReplayKeeps, ActiveKeeps DEF ReplayStep
    <2> QED
      BY <2>1, <2>2, <2>3, StartKeeps, TakeLockKeeps DEF ThreadStep
  <1>4. CASE \E t \in Caller : StopStep(t)
    BY <1>4, StopGoneKeeps, SendTermKeeps, WaitEndsKeeps, SendKillKeeps,
       StopFailsKeeps DEF StopStep
  <1>5. CASE \E p \in Pid : Reap(p) \/ Exit(p)
    BY <1>5, ReapKeeps, ExitKeeps
  <1>6. CASE Lifespan \/ Shutdown
    BY <1>6, LifespanKeeps, AutostartKeeps, StopNextKeeps DEF Lifespan
  <1>7. CASE UNCHANGED vars
    BY <1>7 DEF vars, supervisorVars, replayVars, osVars, callerVars, ControllerInv, TypeOK,
       OwnerInv, RunningIsOwned, CallerInv, PhaseInv, LockProtectsProc, ShutdownInv, Running
  <1> QED
    BY <1>1, <1>2, <1>3, <1>4, <1>5, <1>6, <1>7 DEF Next

\* The invariant holds in every reachable state of the controller.
THEOREM Invariance == Spec => []ControllerInv
  BY InitHolds, StepHolds, PTL DEF Spec

\* The supervisor, the replay slot and the handlers keep their types.
THEOREM TypeCorrect == Spec => []TypeOK
  <1>1. ControllerInv => TypeOK
    BY DEF ControllerInv
  <1> QED
    BY <1>1, Invariance, PTL

\* However requests, exits, reapers and shutdown interleave, no component has two
\* running processes and no two replays run at once: ManagedProcess.start and
\* stop, ReplayManager.start and _reap never lose sight of a running child.
THEOREM RunningOwned == Spec => []RunningIsOwned
  <1>1. ControllerInv => RunningIsOwned
    BY DEF ControllerInv, OwnerInv
  <1> QED
    BY <1>1, Invariance, PTL

\* A thread inside the supervisor's lock never loses the process it works on.
THEOREM LockProtects == Spec => []LockProtectsProc
  <1>1. ControllerInv => LockProtectsProc
    BY DEF ControllerInv
  <1> QED
    BY <1>1, Invariance, PTL

\* When the lifespan has ended, every child that still runs was sent SIGKILL.
THEOREM ShutdownLeaves == Spec => []ShutdownLeavesNothing
  <1>1. ControllerInv => ShutdownLeavesNothing
    <2> SUFFICES ASSUME ControllerInv, phase = "down", NEW p \in Pid, os[p] = "running"
                 PROVE  p \in killed
      BY DEF ShutdownLeavesNothing
    <2>1. p # None /\ Running(p)
      BY Names DEF Running
    <2>2. CASE owner[p] = Replay
      BY <2>1, <2>2 DEF ControllerInv, OwnerInv, RunningIsOwned, ShutdownInv
    <2>3. CASE owner[p] # Replay
      <3>1. owner[p] \in Component /\ proc[owner[p]] = p
        BY <2>3 DEF ControllerInv, TypeOK, OwnerInv, RunningIsOwned
      <3>2. owner[p] \in Component \ booted /\ pc[Main] = "idle"
        BY <3>1 DEF ControllerInv, ShutdownInv, PhaseInv
      <3> QED
        BY <2>1, <3>1, <3>2 DEF ControllerInv, ShutdownInv, StopLabel
    <2> QED
      BY <2>2, <2>3
  <1> QED
    BY <1>1, Invariance, PTL
=============================================================================
