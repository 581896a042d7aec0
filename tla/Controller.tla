----------------------------- MODULE Controller -----------------------------
(***************************************************************************)
(* controller/process.py and controller/app.py: the supervisor of decoy    *)
(* processes, the replay slot with its reaper threads, the HTTP handlers   *)
(* that use them (each runs in a worker thread) and the lifespan of the    *)
(* application, which starts the autostart components and stops everything *)
(* at the end.                                                             *)
(*                                                                         *)
(* A process is its number.  It may exit at any time; a signal only makes  *)
(* sure that it does in the end.  What the supervisor's lock does not      *)
(* cover is split at every read of the attribute self.proc.                *)
(***************************************************************************)
EXTENDS Naturals, FiniteSets

CONSTANTS
    Thread,       \* worker threads that run request handlers
    Component,    \* the configured components
    Enabled,      \* those with enabled: true
    Autostart,    \* those with autostart: true
    MaxRequests,  \* bound on the number of requests
    None          \* Python's None, also for a lock that nobody holds

Main == "main"
Replay == "replay"

ASSUME ConstantsAssumption ==
    /\ Enabled \subseteq Component
    /\ Autostart \subseteq Component
    /\ MaxRequests \in Nat
    /\ IsFiniteSet(Component)
    /\ Main \notin Thread /\ Replay \notin Component
    /\ None \notin Nat \cup Thread \cup Component \cup {Main, Replay}

\* Every request and every component at startup spawns at most one process.
Pid == 1..(MaxRequests + Cardinality(Component))
Caller == Thread \cup {Main}

VARIABLES
    phase,      \* "boot", "serving", "stop_replay", "stop_all", "down"
    booted,     \* components start_autostart has handled
    proc,       \* ManagedProcess.proc of each component
    lock,       \* owner of ProcessSupervisor._lock
    slot,       \* ReplayManager._proc
    active,     \* ReplayManager._active: the process it describes
    os,         \* "unused", "running", "exited" for each process
    owner,      \* what each process was started for
    killed,     \* processes that were sent SIGKILL
    reaper,     \* processes whose reaper thread has not finished
    pc,         \* where each caller is
    at,         \* the component a caller works on
    child,      \* stop's local variable proc
    left        \* requests that may still come

supervisorVars == <<proc, lock>>
replayVars == <<slot, active, reaper>>
osVars == <<os, owner, killed>>
callerVars == <<pc, at, child, left>>
vars == <<phase, booted, supervisorVars, replayVars, osVars, callerVars>>

----------------------------------------------------------------------------
Running(p) == p # None /\ os[p] = "running"

\* What subprocess.Popen gives: a process that has not been used before.
Fresh == {p \in Pid : os[p] = "unused" /\ \A q \in Pid : q < p => os[q] # "unused"}

Spawn(p, c) ==
    /\ os' = [os EXCEPT ![p] = "running"]
    /\ owner' = [owner EXCEPT ![p] = c]
    /\ UNCHANGED killed

Init ==
    /\ phase = "boot" /\ booted = {}
    /\ proc = [c \in Component |-> None]
    /\ lock = None
    /\ slot = None /\ active = None /\ reaper = {}
    /\ os = [p \in Pid |-> "unused"]
    /\ owner = [p \in Pid |-> None]
    /\ killed = {}
    /\ pc = [t \in Caller |-> "idle"]
    /\ at = [t \in Caller |-> None]
    /\ child = [t \in Caller |-> None]
    /\ left = MaxRequests

----------------------------------------------------------------------------
(* ManagedProcess.start.  The handlers refuse a disabled component before  *)
(* they call it, and start_autostart skips it.                             *)

AlreadyRunning(c) ==
    /\ Running(proc[c])
    /\ UNCHANGED <<proc, osVars>>

\* resolve_executable: what the file system says of the configured path.  A
\* python component runs sys.executable, which is always valid.
Executable == [absolute : BOOLEAN, inside : BOOLEAN, file : BOOLEAN, executable : BOOLEAN]
ValidExecutable(e) == (e.absolute \/ e.inside) /\ e.file /\ e.executable

\* build_argv fails: proc keeps the process that has exited.
BadExecutable(c) ==
    /\ ~Running(proc[c])
    /\ \E e \in Executable : ~ValidExecutable(e)
    /\ UNCHANGED <<proc, osVars>>

\* So it does when the component's log cannot be opened.
LogFails(c) ==
    /\ ~Running(proc[c])
    /\ UNCHANGED <<proc, osVars>>

StartRefused(c) == BadExecutable(c) \/ LogFails(c)

SpawnFails(c) ==
    /\ ~Running(proc[c])
    /\ proc' = [proc EXCEPT ![c] = None]
    /\ UNCHANGED osVars

Started(c) ==
    /\ ~Running(proc[c])
    /\ \E p \in Fresh : Spawn(p, c) /\ proc' = [proc EXCEPT ![c] = p]

----------------------------------------------------------------------------
(* Requests *)

Goto(t, l) == pc' = [pc EXCEPT ![t] = l]

\* The end of a handler, which forgets its locals.  What it answers is left out.
Answer(t) ==
    /\ Goto(t, "idle")
    /\ at' = [at EXCEPT ![t] = None]
    /\ child' = [child EXCEPT ![t] = None]
    /\ UNCHANGED left

\* A request arrives for a worker thread.  start_component answers 409 for a
\* disabled component and does nothing else.
Request(t, what, c) ==
    /\ phase = "serving" /\ pc[t] = "idle" /\ left > 0
    /\ what = "start" => c \in Enabled
    /\ left' = left - 1
    /\ at' = [at EXCEPT ![t] = c]
    /\ Goto(t, what)
    /\ UNCHANGED <<phase, booted, supervisorVars, replayVars, osVars, child>>

\* start_component: ProcessSupervisor.start under the lock, then info without it.
StartComponent(t) ==
    /\ pc[t] = "start" /\ lock = None
    /\ \/ (AlreadyRunning(at[t]) \/ Started(at[t])) /\ Goto(t, "info_status")
          /\ UNCHANGED <<at, child, left>>
       \/ (StartRefused(at[t]) \/ SpawnFails(at[t])) /\ Answer(t)
    /\ UNCHANGED <<phase, booted, lock, replayVars>>

\* stop_component and /status wait for the lock.
TakeLock(t) ==
    /\ pc[t] \in {"stop", "status"} /\ lock = None
    /\ lock' = t
    /\ Goto(t, IF pc[t] = "stop" THEN "stopping" ELSE "info_status")
    /\ UNCHANGED <<phase, booted, proc, replayVars, osVars, at, child, left>>

----------------------------------------------------------------------------
(* ManagedProcess.stop, by a worker thread or, in stop_all, by Main *)

Release(t) == lock' = IF t = Main THEN lock ELSE None

AfterStop(t) == IF t = Main THEN "idle" ELSE "info_status"

\* The process is gone: stop forgets it, the supervisor lets go of the lock.
Stopped(t) ==
    /\ proc' = [proc EXCEPT ![at[t]] = None]
    /\ Release(t)
    /\ Goto(t, AfterStop(t))
    /\ child' = [child EXCEPT ![t] = None]
    /\ UNCHANGED <<phase, booted, replayVars, osVars, at, left>>

\* Nothing to stop, or the process has already exited and is not signalled.
StopGone(t) ==
    /\ pc[t] = "stopping" /\ ~Running(proc[at[t]])
    /\ Stopped(t)

\* SIGTERM to the process group, then the wait with TERM_GRACE_SECONDS.
SendTerm(t) ==
    /\ pc[t] = "stopping" /\ Running(proc[at[t]])
    /\ child' = [child EXCEPT ![t] = proc[at[t]]]
    /\ Goto(t, "term_wait")
    /\ UNCHANGED <<phase, booted, supervisorVars, replayVars, osVars, at, left>>

WaitEnds(t) ==
    /\ pc[t] \in {"term_wait", "kill_wait"} /\ ~Running(child[t])
    /\ Stopped(t)

\* Mutant: the first wait has no timeout.
WaitForever(t) ==
    /\ pc[t] = "term_wait" /\ ~Running(child[t])
    /\ UNCHANGED vars

\* The grace period expires: SIGKILL to the group, and a second wait.
SendKill(t) ==
    /\ pc[t] = "term_wait" /\ Running(child[t])
    /\ killed' = killed \cup {child[t]}
    /\ Goto(t, "kill_wait")
    /\ UNCHANGED <<phase, booted, supervisorVars, replayVars, os, owner, at, child, left>>

\* Even SIGKILL was not enough in time: stop returns False and keeps proc.
StopFails(t) ==
    /\ pc[t] = "kill_wait" /\ Running(child[t])
    /\ Release(t)
    /\ Answer(t)
    /\ UNCHANGED <<phase, booted, proc, replayVars, osVars>>

----------------------------------------------------------------------------
(* ManagedProcess.info.  It reads self.proc up to five times: status tests *)
(* it for None and polls it, the pid entry tests it, polls it and reads    *)
(* its pid.  /status does so under the lock for every component, of which  *)
(* the one the request names stands for all.                               *)

InfoNext == [info_status |-> "info_poll", info_poll |-> "info_test",
             info_test |-> "info_poll2", info_poll2 |-> "info_pid", info_pid |-> "info_done"]

\* After a test that finds None, and after a poll that finds the process
\* exited, the value is not needed any more.
InfoSkip == [info_status |-> "info_test", info_test |-> "info_done", info_poll2 |-> "info_done"]

InfoTest(t) ==
    /\ pc[t] \in {"info_status", "info_test"}
    /\ Goto(t, IF proc[at[t]] = None THEN InfoSkip[pc[t]] ELSE InfoNext[pc[t]])
    /\ UNCHANGED <<phase, booted, supervisorVars, replayVars, osVars, at, child, left>>

InfoUse(t) ==
    /\ pc[t] \in {"info_poll", "info_poll2", "info_pid"} /\ proc[at[t]] # None
    /\ Goto(t, IF pc[t] = "info_poll2" /\ ~Running(proc[at[t]])
               THEN InfoSkip[pc[t]] ELSE InfoNext[pc[t]])
    /\ UNCHANGED <<phase, booted, supervisorVars, replayVars, osVars, at, child, left>>

\* AttributeError: 'NoneType' object has no attribute 'poll'
InfoCrashes(t) ==
    /\ pc[t] \in {"info_poll", "info_poll2", "info_pid"} /\ proc[at[t]] = None
    /\ Answer(t)
    /\ lock' = IF lock = t THEN None ELSE lock
    /\ UNCHANGED <<phase, booted, proc, replayVars, osVars>>

\* The supervisor's status is followed by the replay slot's.
StatusDone(t) ==
    /\ pc[t] = "info_done" /\ lock = t
    /\ lock' = None
    /\ Goto(t, "active")
    /\ UNCHANGED <<phase, booted, proc, replayVars, osVars, at, child, left>>

InfoDone(t) ==
    /\ pc[t] = "info_done" /\ lock # t
    /\ Answer(t)
    /\ UNCHANGED <<phase, booted, supervisorVars, replayVars, osVars>>

----------------------------------------------------------------------------
(* The replay slot.  Its lock is never held across a wait, so that each    *)
(* critical section is one step.                                           *)

\* validate_pcap_path: a capture with another suffix, one that resolves to a
\* place outside the approved directory and one that is missing are refused.
Capture == [suffix : BOOLEAN, inside : BOOLEAN, file : BOOLEAN]
ValidCapture(f) == f.suffix /\ f.inside /\ f.file

\* /replay answers 400, 403 or 404 for the capture, or 409 while a job runs.
ReplayRefused(t, f) ==
    /\ pc[t] = "replay"
    /\ ~ValidCapture(f) \/ Running(slot)
    /\ Answer(t)
    /\ UNCHANGED <<phase, booted, supervisorVars, replayVars, osVars>>

\* Popen raises OSError: the slot keeps a job that has ended.
ReplaySpawnFails(t, f) ==
    /\ pc[t] = "replay" /\ ValidCapture(f) /\ ~Running(slot)
    /\ Answer(t)
    /\ UNCHANGED <<phase, booted, supervisorVars, replayVars, osVars>>

StartReplay(t, f) ==
    /\ pc[t] = "replay" /\ ValidCapture(f) /\ ~Running(slot)
    /\ \E p \in Fresh :
          /\ Spawn(p, Replay)
          /\ slot' = p /\ active' = p
          /\ reaper' = reaper \cup {p}
    /\ Goto(t, "active")
    /\ UNCHANGED <<phase, booted, supervisorVars, at, child, left>>

\* The property active, read by /health, /status and the end of /replay.
Active(t) ==
    /\ pc[t] = "active"
    /\ IF slot # None /\ ~Running(slot)
       THEN slot' = None /\ active' = None
       ELSE UNCHANGED <<slot, active>>
    /\ Answer(t)
    /\ UNCHANGED <<phase, booted, supervisorVars, reaper, osVars>>

\* Mutant: the reaper empties the slot without looking whose it is.
ReapAny(p) ==
    /\ phase # "down" /\ p \in reaper /\ os[p] = "exited"
    /\ slot' = None /\ active' = None
    /\ reaper' = reaper \ {p}
    /\ UNCHANGED <<phase, booted, supervisorVars, osVars, callerVars>>

\* Mutant: the reaper leaves the slot to the next reader of active.
ReapKeepsSlot(p) ==
    /\ phase # "down" /\ p \in reaper /\ os[p] = "exited"
    /\ reaper' = reaper \ {p}
    /\ UNCHANGED <<phase, booted, supervisorVars, slot, active, osVars, callerVars>>

\* _reap of a finished job releases the slot if the slot is still this job's.
Reap(p) ==
    /\ phase # "down" /\ p \in reaper /\ os[p] = "exited"
    /\ IF slot = p THEN slot' = None /\ active' = None ELSE UNCHANGED <<slot, active>>
    /\ reaper' = reaper \ {p}
    /\ UNCHANGED <<phase, booted, supervisorVars, osVars, callerVars>>

----------------------------------------------------------------------------
(* Lifespan *)

\* start_autostart: one component after the other, before any request.
AutostartOne(c) ==
    /\ phase = "boot" /\ c \notin booted
    /\ booted' = booted \cup {c}
    /\ IF c \in Enabled \cap Autostart
       THEN AlreadyRunning(c) \/ StartRefused(c) \/ SpawnFails(c) \/ Started(c)
       ELSE UNCHANGED <<proc, osVars>>
    /\ UNCHANGED <<phase, lock, replayVars, callerVars>>

Serve ==
    /\ phase = "boot" /\ booted = Component
    /\ phase' = "serving"
    /\ UNCHANGED <<booted, supervisorVars, replayVars, osVars, callerVars>>

\* The server finishes the requests in progress, then ends the lifespan, whose
\* first action is replays.stop: terminate a running job and wait for it.
Shutdown ==
    /\ phase = "serving" /\ \A t \in Thread : pc[t] = "idle"
    /\ phase' = "stop_replay"
    /\ child' = [child EXCEPT ![Main] = slot]
    /\ UNCHANGED <<booted, supervisorVars, replayVars, osVars, pc, at, left>>

\* Mutant: a job that ignores the signal is left alone.
ReplayLeftAlone ==
    /\ phase = "stop_replay"
    /\ UNCHANGED killed
    /\ phase' = "stop_all"
    /\ lock' = Main
    /\ UNCHANGED <<booted, proc, replayVars, os, owner, callerVars>>

\* Mutant: the wait for the job has no timeout.
ReplayAwaited ==
    /\ phase = "stop_replay" /\ ~Running(child[Main])
    /\ phase' = "stop_all"
    /\ lock' = Main
    /\ UNCHANGED <<booted, proc, replayVars, osVars, callerVars>>

\* ReplayManager.stop returns when the job has exited, or kills it after the
\* timeout without waiting again; then stop_all takes the supervisor's lock.
ReplayStopped ==
    /\ phase = "stop_replay"
    /\ \/ ~Running(child[Main]) /\ UNCHANGED killed
       \/ Running(child[Main]) /\ killed' = killed \cup {child[Main]}
    /\ phase' = "stop_all"
    /\ lock' = Main
    /\ UNCHANGED <<booted, proc, replayVars, os, owner, callerVars>>

\* stop_all calls stop on every component, whatever the calls before returned.
StopNext(c) ==
    /\ phase = "stop_all" /\ pc[Main] = "idle" /\ c \in booted
    /\ booted' = booted \ {c}
    /\ at' = [at EXCEPT ![Main] = c]
    /\ Goto(Main, "stopping")
    /\ UNCHANGED <<phase, supervisorVars, replayVars, osVars, child, left>>

Down ==
    /\ phase = "stop_all" /\ pc[Main] = "idle" /\ booted = {}
    /\ phase' = "down"
    /\ lock' = None
    /\ UNCHANGED <<booted, proc, replayVars, osVars, callerVars>>

\* A child exits, by itself or because of a signal.
Exit(p) ==
    /\ os[p] = "running"
    /\ os' = [os EXCEPT ![p] = "exited"]
    /\ UNCHANGED <<phase, booted, supervisorVars, replayVars, owner, killed, callerVars>>

----------------------------------------------------------------------------
StopStep(t) == StopGone(t) \/ SendTerm(t) \/ WaitEnds(t) \/ SendKill(t) \/ StopFails(t)
InfoStep(t) == InfoTest(t) \/ InfoUse(t) \/ InfoCrashes(t) \/ StatusDone(t) \/ InfoDone(t)
ReplayStep(t) ==
    \/ \E f \in Capture : ReplayRefused(t, f) \/ ReplaySpawnFails(t, f) \/ StartReplay(t, f)
    \/ Active(t)
ThreadStep(t) == StartComponent(t) \/ TakeLock(t) \/ InfoStep(t) \/ ReplayStep(t)
Lifespan == Serve \/ ReplayStopped \/ Down \/ \E c \in Component : AutostartOne(c) \/ StopNext(c)

Next ==
    \/ \E t \in Thread, c \in Component, what \in {"start", "stop", "status"} : Request(t, what, c)
    \/ \E t \in Thread, what \in {"replay", "active"} : Request(t, what, None)
    \/ \E t \in Thread : ThreadStep(t)
    \/ \E t \in Caller : StopStep(t)
    \/ \E p \in Pid : Reap(p) \/ Exit(p)
    \/ Lifespan
    \/ Shutdown

Spec == Init /\ [][Next]_vars

\* Threads run, waits time out, and a process that was sent SIGKILL dies.  That
\* requests come, that a child exits by itself and that the server is shut down
\* is not assumed.
FairSpec ==
    /\ Spec
    /\ \A t \in Thread : WF_vars(ThreadStep(t) \/ StopStep(t))
    /\ WF_vars(Lifespan \/ StopStep(Main))
    /\ WF_vars(\E p \in Pid : Reap(p))
    /\ WF_vars(\E p \in killed : Exit(p))

----------------------------------------------------------------------------
(* Properties *)

StopLabel == {"stopping", "term_wait", "kill_wait"}
InfoLabel == {"info_status", "info_poll", "info_test", "info_poll2", "info_pid", "info_done"}
Label == {"idle", "start", "stop", "status", "replay", "active"} \cup StopLabel \cup InfoLabel

\* Types.
TypeOK ==
    /\ phase \in {"boot", "serving", "stop_replay", "stop_all", "down"}
    /\ booted \subseteq Component
    /\ proc \in [Component -> Pid \cup {None}]
    /\ lock \in Caller \cup {None}
    /\ slot \in Pid \cup {None} /\ active \in Pid \cup {None}
    /\ reaper \subseteq Pid /\ killed \subseteq Pid
    /\ os \in [Pid -> {"unused", "running", "exited"}]
    /\ owner \in [Pid -> Component \cup {Replay, None}]
    /\ pc \in [Caller -> Label]
    /\ at \in [Caller -> Component \cup {None}]
    /\ child \in [Caller -> Pid \cup {None}]
    /\ left \in 0..MaxRequests

\* Every running child is the one its owner knows of: the proc of its component,
\* or the replay slot.  So a component never has two running processes, two
\* replays never run at once, and the controller can stop whatever it started
\* (ManagedProcess.start and stop, ReplayManager.start and _reap).
RunningIsOwned ==
    \A p \in Pid : os[p] = "running" =>
        IF owner[p] = Replay THEN slot = p /\ active = p ELSE proc[owner[p]] = p

\* While the supervisor's lock is held, the process that info or stop looks at
\* is not taken away: a thread with the lock never meets None after its test
\* (ProcessSupervisor.status and stop).
LockProtectsProc ==
    \A t \in Caller :
        /\ lock = t /\ pc[t] \in {"info_poll", "info_poll2", "info_pid"} => proc[at[t]] # None
        /\ pc[t] \in {"term_wait", "kill_wait"} => lock = t /\ proc[at[t]] = child[t]

\* After shutdown nothing runs but what stop reported it could not stop and a
\* replay that has been sent SIGKILL (lifespan, replays.stop, stop_all).
ShutdownLeavesNothing ==
    phase = "down" => \A p \in Pid : os[p] = "running" => p \in killed

\* Every request is answered, although stop waits for a child that may ignore
\* both signals and the other threads wait for stop's lock.
RequestsReturn == \A t \in Thread : pc[t] # "idle" ~> pc[t] = "idle"

\* A replay that has ended gives its slot back without anybody asking (_reap).
SlotIsReleased ==
    (slot # None /\ ~Running(slot)) ~> (slot = None \/ Running(slot) \/ phase = "down")

\* A shutdown ends, whatever the children do with the signals.
ShutdownEnds == phase = "stop_replay" ~> phase = "down"
=============================================================================
