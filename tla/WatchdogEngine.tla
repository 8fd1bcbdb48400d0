---------------------------- MODULE WatchdogEngine ----------------------------
(***************************************************************************)
(* The concurrency of core/WatchdogEngine: the worker thread and its wait  *)
(* loop, the passes it and the control commands run, pause(), resume() and *)
(* stop(), the watcher callback, and the locks and atomics they share.     *)
(* What a pass does to one endpoint is a single critical section here (pc  *)
(* "modify"); module DevicePolicy opens it.                                *)
(*                                                                         *)
(* Each step is one access to a lock, an atomic or the worker's event, so  *)
(* that every interleaving of the threads is a behaviour.  Commands reach  *)
(* the engine one at a time: ServiceHost::apply holds controlLock_ for the *)
(* whole of each.                                                          *)
(***************************************************************************)
EXTENDS Naturals

CONSTANTS
  Callers,      \* threads that run control commands (main and pipe threads)
  Worker,       \* the engine's own thread
  Watcher,      \* the audio service's notification callback
  Stopper,      \* ServiceHost::run past its request loop
  Nobody,       \* no thread: a lock that is free
  Endpoints,    \* what an enumeration may return
  MaxDebounce   \* rounds of the debounce loop (10 in the code)

ASSUME EngineAssumption ==
  /\ {Worker, Watcher, Stopper, Nobody} \cap Callers = {}
  /\ Worker \notin {Watcher, Stopper, Nobody}
  /\ Watcher \notin {Stopper, Nobody}
  /\ Stopper # Nobody
  /\ MaxDebounce \in Nat \ {0}

Scanners == Callers \cup {Worker}
Threads == Scanners \cup {Watcher, Stopper}
ScanKinds == {"full", "triggered"}

VARIABLES
  pc,               \* where each thread is
  state,            \* state_
  pauseRequested,   \* pauseRequested_
  exitRequested,    \* juce::Thread's exit flag
  signalled,        \* juce::Thread's auto-reset event: notify() before wait()
  rescanPending,    \* rescanPending_
  fullScanPending,  \* fullScanPending_
  controlLock, scanLock, modifyLock,
  kind,             \* the kind of the worker's next pass
  retry,            \* the worker's last enumeration failed: it waits a few seconds only
  debounce,         \* rounds of the debounce loop done
  todo,             \* endpoints the pass in progress has not reached
  unseen,           \* history: a device changed and no pass has listed the devices since
  fullOwed          \* history: a full scan was requested and none has got to enumerating since

flags == <<pauseRequested, exitRequested, signalled, rescanPending, fullScanPending>>
locks == <<controlLock, scanLock, modifyLock>>
history == <<unseen, fullOwed>>
loop == <<kind, retry, debounce>>
vars == <<pc, state, flags, locks, loop, todo, history>>

PassPCs == {"gate", "gate2", "scanLock", "enumerate", "next", "modifyLock",
            "recheck", "modify", "publish"}
WorkerPCs == PassPCs \cup {"wait", "woken", "elapsed", "debounce", "settle", "takeKind", "exited"}
CommandPCs == {"pauseFlag", "resume", "reqFull", "gate", "userLock"}
CallerPCs == PassPCs \cup CommandPCs \cup
  {"idle", "pauseLock", "pauseCas", "pauseEnd", "userModify", "reqRescan", "reqNotify", "done"}
WatcherPCs == {"idle", "reqRescan", "reqNotify"}
StopperPCs == {"idle", "signalExit", "notify", "join", "done"}

TypeOK ==
  /\ pc \in [Threads -> WorkerPCs \cup CallerPCs \cup WatcherPCs \cup StopperPCs]
  /\ pc[Worker] \in WorkerPCs
  /\ \A c \in Callers : pc[c] \in CallerPCs
  /\ pc[Watcher] \in WatcherPCs
  /\ pc[Stopper] \in StopperPCs
  /\ state \in {"running", "paused", "stopping", "stopped"}
  /\ pauseRequested \in BOOLEAN
  /\ exitRequested \in BOOLEAN
  /\ signalled \in BOOLEAN
  /\ rescanPending \in BOOLEAN
  /\ fullScanPending \in BOOLEAN
  /\ controlLock \in Callers \cup {Nobody}
  /\ scanLock \in Scanners \cup {Nobody}
  /\ modifyLock \in Scanners \cup {Nobody}
  /\ kind \in ScanKinds
  /\ retry \in BOOLEAN
  /\ debounce \in 0..MaxDebounce
  /\ todo \in SUBSET Endpoints
  /\ unseen \in BOOLEAN
  /\ fullOwed \in BOOLEAN

(* start(): RUNNING, the worker's first pass is full, nothing requested.   *)
Init ==
  /\ pc = [t \in Threads |-> IF t = Worker THEN "gate" ELSE "idle"]
  /\ state = "running"
  /\ pauseRequested = FALSE
  /\ exitRequested = FALSE
  /\ signalled = FALSE
  /\ rescanPending = FALSE
  /\ fullScanPending = FALSE
  /\ controlLock = Nobody
  /\ scanLock = Nobody
  /\ modifyLock = Nobody
  /\ kind = "full"
  /\ retry = FALSE
  /\ debounce = 0
  /\ todo = {}
  /\ unseen = FALSE
  /\ fullOwed = FALSE

At(t, here) == pc[t] = here
Goto(t, there) == pc' = [pc EXCEPT ![t] = there]
Move(t, here, there) == At(t, here) /\ Goto(t, there)

PassKind(t) == IF t = Worker THEN kind ELSE "full"
AfterPass(t) == IF t = Worker THEN "wait" ELSE "done"
CanModify == state = "running" /\ ~pauseRequested

-----------------------------------------------------------------------------
(* One pass: scanOnce, on the worker or on a caller's thread.              *)

(* canModify() before any lock: two loads, and pause() may run in between. *)
GateState(t) ==
  /\ At(t, "gate")
  /\ ~(t = Worker /\ exitRequested)
  /\ Goto(t, IF state = "running" THEN "gate2" ELSE AfterPass(t))
  /\ UNCHANGED <<state, flags, locks, loop, todo, history>>

GateRequested(t) ==
  /\ At(t, "gate2")
  /\ Goto(t, IF pauseRequested THEN AfterPass(t) ELSE "scanLock")
  /\ UNCHANGED <<state, flags, locks, loop, todo, history>>

LockScan(t) ==
  /\ scanLock = Nobody
  /\ Move(t, "scanLock", "enumerate")
  /\ scanLock' = t
  /\ UNCHANGED <<state, flags, controlLock, modifyLock, loop, todo, history>>

EnumerateOk(t) ==
  /\ Move(t, "enumerate", "next")
  /\ todo' = Endpoints
  /\ unseen' = FALSE
  /\ fullOwed' = (fullOwed /\ PassKind(t) # "full")
  /\ UNCHANGED <<state, flags, locks, loop>>

(* The audio stack is not reachable: an empty pass; the worker retries soon. *)
EnumerateFails(t) ==
  /\ Move(t, "enumerate", "next")
  /\ todo' = {}
  /\ retry' = (retry \/ t = Worker)
  /\ fullOwed' = (fullOwed /\ PassKind(t) # "full")
  /\ UNCHANGED <<state, flags, locks, kind, debounce, unseen>>

(* Not monitored, disabled by someone else, or not present.                *)
SkipEndpoint(t) ==
  /\ At(t, "next")
  /\ \E e \in todo : todo' = todo \ {e}
  /\ UNCHANGED <<pc, state, flags, locks, loop, history>>

TakeEndpoint(t) ==
  /\ Move(t, "next", "modifyLock")
  /\ \E e \in todo : todo' = todo \ {e}
  /\ UNCHANGED <<state, flags, locks, loop, history>>

LockModify(t) ==
  /\ modifyLock = Nobody
  /\ Move(t, "modifyLock", "recheck")
  /\ modifyLock' = t
  /\ UNCHANGED <<state, flags, controlLock, scanLock, loop, todo, history>>

(* Mutant of Recheck: the check before the pass is trusted.                *)
RecheckSkipped(t) ==
  /\ Move(t, "recheck", "modify")
  /\ UNCHANGED <<state, flags, locks, loop, todo, history>>

Recheck(t) ==
  /\ At(t, "recheck")
  /\ IF CanModify
       THEN Goto(t, "modify") /\ UNCHANGED modifyLock
       ELSE Goto(t, "publish") /\ modifyLock' = Nobody
  /\ UNCHANGED <<state, flags, controlLock, scanLock, loop, todo, history>>

EndEndpoint(t) ==
  /\ Move(t, "modify", "next")
  /\ modifyLock' = Nobody
  /\ UNCHANGED <<state, flags, controlLock, scanLock, loop, todo, history>>

EndPass(t) ==
  /\ todo = {}
  /\ Move(t, "next", "publish")
  /\ UNCHANGED <<state, flags, locks, loop, todo, history>>

(* The status and the listeners' scanCompleted, still under scanLock_.     *)
Publish(t) ==
  /\ Move(t, "publish", AfterPass(t))
  /\ scanLock' = Nobody
  /\ todo' = {}
  /\ UNCHANGED <<state, flags, controlLock, modifyLock, loop, history>>

Pass(t) ==
  \/ GateState(t)
  \/ GateRequested(t)
  \/ LockScan(t)
  \/ EnumerateOk(t)
  \/ EnumerateFails(t)
  \/ SkipEndpoint(t)
  \/ TakeEndpoint(t)
  \/ LockModify(t)
  \/ Recheck(t)
  \/ EndEndpoint(t)
  \/ EndPass(t)
  \/ Publish(t)

-----------------------------------------------------------------------------
(* The worker's loop: run().                                               *)

WorkerExits ==
  /\ exitRequested
  /\ At(Worker, "gate") \/ At(Worker, "woken") \/ At(Worker, "elapsed")
  /\ Goto(Worker, "exited")
  /\ UNCHANGED <<state, flags, locks, loop, todo, history>>

(* wait(): a notify() of before is remembered and consumed.                *)
Wake ==
  /\ signalled
  /\ Move(Worker, "wait", "woken")
  /\ signalled' = FALSE
  /\ retry' = FALSE
  /\ UNCHANGED <<state, pauseRequested, exitRequested, rescanPending, fullScanPending,
                 locks, kind, debounce, todo, history>>

(* enumerationRetryMs after a failed enumeration.                          *)
RetryElapsed ==
  /\ retry
  /\ Move(Worker, "wait", "elapsed")
  /\ retry' = FALSE
  /\ UNCHANGED <<state, flags, locks, kind, debounce, todo, history>>

(* checkIntervalSeconds, the safety net.                                   *)
IntervalElapsed ==
  /\ ~retry
  /\ Move(Worker, "wait", "elapsed")
  /\ UNCHANGED <<state, flags, locks, loop, todo, history>>

(* Mutant of TakeRescan: the rounds of the last burst still count.         *)
TakeRescanKeepsRounds ==
  /\ ~exitRequested
  /\ rescanPending
  /\ Move(Worker, "woken", "debounce")
  /\ rescanPending' = FALSE
  /\ UNCHANGED <<state, pauseRequested, exitRequested, signalled, fullScanPending,
                 locks, loop, todo, history>>

TakeRescan ==
  /\ ~exitRequested
  /\ rescanPending
  /\ Move(Worker, "woken", "debounce")
  /\ rescanPending' = FALSE
  /\ debounce' = 0
  /\ UNCHANGED <<state, pauseRequested, exitRequested, signalled, fullScanPending,
                 locks, kind, retry, todo, history>>

Periodic ==
  /\ ~exitRequested
  /\ At(Worker, "elapsed") \/ (At(Worker, "woken") /\ ~rescanPending)
  /\ Goto(Worker, "gate")
  /\ kind' = "full"
  /\ fullScanPending' = FALSE
  /\ UNCHANGED <<state, pauseRequested, exitRequested, signalled, rescanPending,
                 locks, retry, debounce, todo, history>>

(* Mutant of DebounceAgain: the loop has no bound.                         *)
DebounceUnbounded ==
  /\ signalled
  /\ At(Worker, "debounce")
  /\ signalled' = FALSE
  /\ Goto(Worker, IF exitRequested THEN "exited" ELSE "debounce")
  /\ UNCHANGED <<state, pauseRequested, exitRequested, rescanPending, fullScanPending,
                 locks, loop, todo, history>>

(* Another notification within debounceMs: the burst goes on.              *)
DebounceAgain ==
  /\ signalled
  /\ At(Worker, "debounce")
  /\ signalled' = FALSE
  /\ debounce' = debounce + 1
  /\ Goto(Worker, IF exitRequested THEN "exited"
                  ELSE IF debounce + 1 = MaxDebounce THEN "settle" ELSE "debounce")
  /\ UNCHANGED <<state, pauseRequested, exitRequested, rescanPending, fullScanPending,
                 locks, kind, retry, todo, history>>

DebounceSettles ==
  /\ Move(Worker, "debounce", "settle")
  /\ UNCHANGED <<state, flags, locks, loop, todo, history>>

Settle ==
  /\ Move(Worker, "settle", "takeKind")
  /\ rescanPending' = FALSE
  /\ UNCHANGED <<state, pauseRequested, exitRequested, signalled, fullScanPending,
                 locks, loop, todo, history>>

(* Mutant of TakeKind: a full request made during the burst is dropped.    *)
TakeKindForgetsFull ==
  /\ Move(Worker, "takeKind", "gate")
  /\ kind' = "triggered"
  /\ fullScanPending' = FALSE
  /\ UNCHANGED <<state, pauseRequested, exitRequested, signalled, rescanPending,
                 locks, retry, debounce, todo, history>>

TakeKind ==
  /\ Move(Worker, "takeKind", "gate")
  /\ kind' = IF fullScanPending THEN "full" ELSE "triggered"
  /\ fullScanPending' = FALSE
  /\ UNCHANGED <<state, pauseRequested, exitRequested, signalled, rescanPending,
                 locks, retry, debounce, todo, history>>

(* What the worker does without waiting for a timer of unbounded length.   *)
WorkerStep ==
  \/ Pass(Worker)
  \/ WorkerExits
  \/ Wake
  \/ RetryElapsed
  \/ TakeRescan
  \/ Periodic
  \/ DebounceAgain
  \/ DebounceSettles
  \/ Settle
  \/ TakeKind

-----------------------------------------------------------------------------
(* requestFullScan and requestRescan, by a command or the watcher.         *)

RequestFull(c) ==
  /\ Move(c, "reqFull", "reqRescan")
  /\ fullScanPending' = TRUE
  /\ fullOwed' = TRUE
  /\ UNCHANGED <<state, pauseRequested, exitRequested, signalled, rescanPending,
                 locks, loop, todo, unseen>>

RequestRescan(t) ==
  /\ Move(t, "reqRescan", "reqNotify")
  /\ rescanPending' = TRUE
  /\ UNCHANGED <<state, pauseRequested, exitRequested, signalled, fullScanPending,
                 locks, loop, todo, history>>

(* renameDevice and enableDevice still hold modifyLock_ here.              *)
Notify(t) ==
  /\ Move(t, "reqNotify", IF t = Watcher THEN "idle" ELSE "done")
  /\ signalled' = TRUE
  /\ modifyLock' = IF modifyLock = t THEN Nobody ELSE modifyLock
  /\ UNCHANGED <<state, pauseRequested, exitRequested, rescanPending, fullScanPending,
                 controlLock, scanLock, loop, todo, history>>

(* A device changed and Windows calls onDeviceChange.                      *)
DeviceChanges ==
  /\ At(Stopper, "idle")
  /\ Move(Watcher, "idle", "reqRescan")
  /\ unseen' = TRUE
  /\ UNCHANGED <<state, flags, locks, loop, todo, fullOwed>>

WatcherStep == RequestRescan(Watcher) \/ Notify(Watcher)

-----------------------------------------------------------------------------
(* Control commands, each under controlLock_.                              *)

(* pause; resume; scan or reload; configure (a pass of its own); rename or *)
(* enable (a change under modifyLock_).                                    *)
Begin(c) ==
  /\ controlLock = Nobody
  /\ At(Stopper, "idle")
  /\ At(c, "idle")
  /\ \E first \in CommandPCs : Goto(c, first)
  /\ controlLock' = c
  /\ UNCHANGED <<state, flags, scanLock, modifyLock, loop, todo, history>>

(* Mutant of PauseFlag: pause() without pauseRequested_.                   *)
PauseFlagSkipped(c) ==
  /\ Move(c, "pauseFlag", "pauseLock")
  /\ UNCHANGED <<state, flags, locks, loop, todo, history>>

PauseFlag(c) ==
  /\ Move(c, "pauseFlag", "pauseLock")
  /\ pauseRequested' = TRUE
  /\ UNCHANGED <<state, exitRequested, signalled, rescanPending, fullScanPending,
                 locks, loop, todo, history>>

(* Waits for the endpoint being processed.                                 *)
PauseLock(c) ==
  /\ modifyLock = Nobody
  /\ Move(c, "pauseLock", "pauseCas")
  /\ modifyLock' = c
  /\ UNCHANGED <<state, flags, controlLock, scanLock, loop, todo, history>>

PauseCas(c) ==
  /\ Move(c, "pauseCas", "pauseEnd")
  /\ state' = IF state = "running" THEN "paused" ELSE state
  /\ modifyLock' = Nobody
  /\ UNCHANGED <<flags, controlLock, scanLock, loop, todo, history>>

PauseEnd(c) ==
  /\ Move(c, "pauseEnd", "done")
  /\ pauseRequested' = FALSE
  /\ UNCHANGED <<state, exitRequested, signalled, rescanPending, fullScanPending,
                 locks, loop, todo, history>>

(* Mutant of Resume: the full scan is not requested.                       *)
ResumeWithoutScan(c) ==
  /\ Move(c, "resume", "done")
  /\ state' = IF state = "paused" THEN "running" ELSE state
  /\ UNCHANGED <<flags, locks, loop, todo, history>>

Resume(c) ==
  /\ At(c, "resume")
  /\ IF state = "paused"
       THEN state' = "running" /\ Goto(c, "reqFull")
       ELSE UNCHANGED state /\ Goto(c, "done")
  /\ UNCHANGED <<flags, locks, loop, todo, history>>

LockForUser(c) ==
  /\ modifyLock = Nobody
  /\ Move(c, "userLock", "userModify")
  /\ modifyLock' = c
  /\ UNCHANGED <<state, flags, controlLock, scanLock, loop, todo, history>>

UserModified(c) ==
  /\ Move(c, "userModify", "reqRescan")
  /\ UNCHANGED <<state, flags, locks, loop, todo, history>>

(* Windows refused: an error text, and no rescan.                          *)
UserRefused(c) ==
  /\ Move(c, "userModify", "done")
  /\ modifyLock' = Nobody
  /\ UNCHANGED <<state, flags, controlLock, scanLock, loop, todo, history>>

Return(c) ==
  /\ Move(c, "done", "idle")
  /\ controlLock' = Nobody
  /\ UNCHANGED <<state, flags, scanLock, modifyLock, loop, todo, history>>

CallerStep(c) ==
  \/ Pass(c)
  \/ RequestFull(c)
  \/ RequestRescan(c)
  \/ Notify(c)
  \/ PauseFlag(c)
  \/ PauseLock(c)
  \/ PauseCas(c)
  \/ PauseEnd(c)
  \/ Resume(c)
  \/ LockForUser(c)
  \/ UserModified(c)
  \/ UserRefused(c)
  \/ Return(c)

-----------------------------------------------------------------------------
(* stop(), called once pipe->stop and watcher.stop have joined every other *)
(* thread that could reach the engine.                                     *)

StopBegins ==
  /\ \A c \in Callers : At(c, "idle")
  /\ At(Watcher, "idle")
  /\ Move(Stopper, "idle", "signalExit")
  /\ state' = "stopping"
  /\ UNCHANGED <<flags, locks, loop, todo, history>>

SignalExit ==
  /\ Move(Stopper, "signalExit", "notify")
  /\ exitRequested' = TRUE
  /\ UNCHANGED <<state, pauseRequested, signalled, rescanPending, fullScanPending,
                 locks, loop, todo, history>>

(* Mutant of StopNotify: the worker is left to its timer.                  *)
StopWithoutNotify ==
  /\ Move(Stopper, "notify", "join")
  /\ UNCHANGED <<state, flags, locks, loop, todo, history>>

StopNotify ==
  /\ Move(Stopper, "notify", "join")
  /\ signalled' = TRUE
  /\ UNCHANGED <<state, pauseRequested, exitRequested, rescanPending, fullScanPending,
                 locks, loop, todo, history>>

(* Mutant of StopJoined: STOPPED is set without waiting for the worker.    *)
StopWithoutJoin ==
  /\ Move(Stopper, "join", "done")
  /\ state' = "stopped"
  /\ UNCHANGED <<flags, locks, loop, todo, history>>

StopJoined ==
  /\ At(Worker, "exited")
  /\ Move(Stopper, "join", "done")
  /\ state' = "stopped"
  /\ UNCHANGED <<flags, locks, loop, todo, history>>

StopperStep == SignalExit \/ StopNotify \/ StopJoined

(* Nothing is left to do.                                                  *)
Terminated == At(Stopper, "done") /\ UNCHANGED vars

Next ==
  \/ WorkerStep
  \/ IntervalElapsed
  \/ \E c \in Callers : Begin(c) \/ CallerStep(c)
  \/ DeviceChanges
  \/ WatcherStep
  \/ StopBegins
  \/ StopperStep
  \/ Terminated

(* Started threads keep running and short timers elapse; no command, no    *)
(* device change, no stop and no check interval is ever owed.  The audio   *)
(* stack does not stay unreachable forever.  A CRITICAL_SECTION is not fair *)
(* to its waiters, so none is assumed for pause(); for the worker against  *)
(* renames and enables it is, which a person issues one round trip at a    *)
(* time.                                                                   *)
Fairness ==
  /\ WF_vars(WorkerStep)
  /\ \A c \in Callers : WF_vars(CallerStep(c))
  /\ WF_vars(WatcherStep)
  /\ WF_vars(StopperStep)
  /\ SF_vars(LockModify(Worker))
  /\ \A t \in Scanners : SF_vars(EnumerateOk(t))

Spec == Init /\ [][Next]_vars
FairSpec == Spec /\ Fairness

-----------------------------------------------------------------------------
(* Properties.                                                             *)

(* PAUSED means that no pass, of the worker or of a command, is changing a *)
(* device: pause() has waited for the one in flight and none starts after  *)
(* it, though a pass checks before it has the lock (scanOnce, pause).      *)
PausedMeansIdle == state = "paused" => \A t \in Scanners : pc[t] # "modify"

Requesting == \E t \in Callers \cup {Watcher} : pc[t] \in {"reqFull", "reqRescan", "reqNotify"}
Blocked == pc[Worker] = "wait" /\ ~signalled /\ ~retry

(* The worker never sleeps on work: when it waits with nothing to wake it  *)
(* soon, every device change has been enumerated and every full scan asked *)
(* for has been attempted, unless a request is still on its way or the     *)
(* engine is being paused, is paused or stops (run, requestRescan,         *)
(* requestFullScan, pause).                                                *)
NoLostWakeup ==
  Blocked /\ (unseen \/ fullOwed) => Requesting \/ ~CanModify

(* A pause() that is waiting returns, whatever the worker is doing and     *)
(* however the lock is handed out: at most one more endpoint goes first    *)
(* (pauseRequested_).                                                      *)
PauseReturns == \A c \in Callers : pc[c] = "pauseLock" ~> pc[c] = "idle"

(* A change Windows reports is enumerated, without help from the periodic  *)
(* scan and however many others follow it, or the engine stops running     *)
(* (onDeviceChange, the debounce loop of run).                             *)
EveryChangeSeen == unseen ~> (~unseen \/ state # "running")

(* A requested full scan runs as a full scan, or the engine stops running  *)
(* (requestFullScan, resume, the two exchanges of run).                    *)
FullScanRuns == fullOwed ~> (~fullOwed \/ state # "running")

(* stop() joins the worker wherever it is (stop, run).                     *)
StopTerminates == state = "stopping" ~> state = "stopped"

(* The engine's steps are steps of the abstract gate, or stutter.          *)
Gate == INSTANCE PauseGate
          WITH mode <- state, busy <- \E t \in Scanners : pc[t] = "modify"
ImplementsGate == Gate!GateSpec

-----------------------------------------------------------------------------
(* The inductive invariant behind PausedMeansIdle, NoLostWakeup and the    *)
(* refinement; module WatchdogEngineProofs proves it.                      *)

(* The burst is cut off before its rounds pass the bound.                  *)
DebounceInv == pc[Worker] = "debounce" => debounce < MaxDebounce

(* Who holds a lock follows from where each thread is.                     *)
LockInv ==
  /\ \A t \in Scanners :
       /\ pc[t] \in {"recheck", "modify", "pauseCas", "userModify"} => modifyLock = t
       /\ pc[t] \in {"enumerate", "next", "modifyLock", "recheck", "modify", "publish"}
            => scanLock = t
  /\ \A c \in Callers : pc[c] # "idle" => controlLock = c

(* Once stop() has begun nobody else is left; the worker exits for it only. *)
StopInv ==
  /\ pc[Stopper] # "idle" => pc[Watcher] = "idle" /\ \A c \in Callers : pc[c] = "idle"
  /\ (pc[Stopper] = "idle") <=> (state \in {"running", "paused"})
  /\ pc[Worker] = "exited" => pc[Stopper] # "idle"
  /\ exitRequested => pc[Stopper] # "idle"
  /\ state = "stopped" => pc[Stopper] = "done" /\ pc[Worker] = "exited"

(* pause() lowers its flag only when the state has left RUNNING.           *)
PauseInv == \A c \in Callers : pc[c] = "pauseEnd" => state # "running"

Posting == \E t \in Callers \cup {Watcher} : pc[t] \in {"reqRescan", "reqNotify"}
Waking == {"woken", "elapsed", "debounce", "settle", "takeKind"}
Starting == {"gate", "gate2", "scanLock", "enumerate"}

(* Where a change nobody has seen yet waits to be noticed.                 *)
UnseenInv ==
  unseen => \/ Requesting
            \/ ~CanModify
            \/ retry
            \/ signalled
            \/ pc[Worker] \in Waking \cup Starting

(* Where an unserved full request is.                                      *)
FullInv ==
  fullOwed => \/ \E c \in Callers : pc[c] = "reqFull"
              \/ ~CanModify
              \/ fullScanPending /\ (Posting \/ signalled \/ pc[Worker] \in Waking)
              \/ kind = "full" /\ pc[Worker] \in Starting

IInv ==
  /\ TypeOK
  /\ DebounceInv
  /\ LockInv
  /\ StopInv
  /\ PauseInv
  /\ PausedMeansIdle
  /\ UnseenInv
  /\ FullInv
=============================================================================
