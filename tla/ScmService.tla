------------------------------ MODULE ScmService ------------------------------
(***************************************************************************)
(* The service between the Service Control Manager and the engine:         *)
(* WindowsService (serviceMain, the control handler, the status reported)  *)
(* and ServiceHost (the queued requests, apply, startup and shutdown).     *)
(* Control requests come from the SCM's dispatcher thread and, in parallel, *)
(* from the pipe's connection threads.                                     *)
(*                                                                         *)
(* The engine is its state here: what pause, resume and stop do inside is  *)
(* in WatchdogEngine.  A step is one access to what the threads share: the *)
(* reported status, the engine's state, a flag, a lock, the wake event.    *)
(***************************************************************************)
EXTENDS Naturals

CONSTANTS
  Clients,   \* the pipe's connection threads
  Main,      \* serviceMain's thread
  Handler,   \* the SCM's dispatcher thread, in controlHandler
  Nobody     \* no thread: a lock that is free

ASSUME ServiceAssumption ==
  /\ {Main, Handler, Nobody} \cap Clients = {}
  /\ Main \notin {Handler, Nobody}
  /\ Handler # Nobody

Appliers == Clients \cup {Main}   \* threads that run ServiceHost::apply
Threads == Appliers \cup {Handler}

Active == {"running", "paused"}   \* the states in which controls are accepted
Reported == Active \cup {"startPending", "pausePending", "continuePending",
                         "stopPending", "stopped"}
EngineStates == Active \cup {"absent", "stopping", "stopped"}
Controls == {"stop", "pause", "continue", "paramchange"}
Commands == {"pause", "resume", "stop", "other"}

VARIABLES
  pc,          \* where each thread is
  scm,         \* dwCurrentState, as last reported
  engine,      \* impl_->engine and its state_
  hostSet,     \* ServiceState::host is not null
  hostMutex, controlLock,
  queued,      \* the requests queued: pauseQueued_, resumeQueued_, reloadQueued_, stopQueued_
  wake,        \* wake_, an auto-reset event
  stopping,    \* stopping_
  listening,   \* the pipe server takes requests
  doing,       \* the command or control each thread is carrying out
  saw,         \* the status each thread has read
  interfered   \* history: a pipe client has paused or resumed the engine

host == <<hostSet, hostMutex>>
requests == <<queued, wake>>
locals == <<doing, saw>>
vars == <<pc, scm, engine, host, controlLock, requests, stopping, listening, locals, interfered>>

ApplyPCs == {"lock", "act", "signal", "tell", "report"}
MainPCs == (ApplyPCs \ {"signal"}) \cup
  {"setHost", "start", "openPipe", "onStarted", "loop", "wait", "takePause", "takeResume",
   "takeReload", "shutdown", "closePipe", "joinPipe", "stopEngine", "joinEngine",
   "destroyEngine", "clearHost", "destroyHost", "finish", "done"}
HandlerPCs == {"idle", "lock", "act", "request", "signal"}

TypeOK ==
  /\ pc \in [Threads -> MainPCs \cup HandlerPCs]
  /\ pc[Main] \in MainPCs
  /\ pc[Handler] \in HandlerPCs
  /\ \A c \in Clients : pc[c] \in ApplyPCs \cup {"idle"}
  /\ scm \in Reported
  /\ engine \in EngineStates
  /\ hostSet \in BOOLEAN
  /\ hostMutex \in {Handler, Nobody}
  /\ controlLock \in Appliers \cup {Nobody}
  /\ queued \in SUBSET {"pause", "resume", "reload", "stop"}
  /\ wake \in BOOLEAN
  /\ stopping \in BOOLEAN
  /\ listening \in BOOLEAN
  /\ doing \in [Threads -> Commands \cup Controls \cup {"none"}]
  /\ saw \in [Threads -> Reported]
  /\ interfered \in BOOLEAN

(* serviceMain has reported START_PENDING and constructed the host.        *)
Init ==
  /\ pc = [t \in Threads |-> IF t = Main THEN "setHost" ELSE "idle"]
  /\ scm = "startPending"
  /\ engine = "absent"
  /\ hostSet = FALSE
  /\ hostMutex = Nobody
  /\ controlLock = Nobody
  /\ queued = {}
  /\ wake = FALSE
  /\ stopping = FALSE
  /\ listening = FALSE
  /\ doing = [t \in Threads |-> "none"]
  /\ saw = [t \in Threads |-> "startPending"]
  /\ interfered = FALSE

At(t, here) == pc[t] = here
Goto(t, there) == pc' = [pc EXCEPT ![t] = there]
Move(t, here, there) == At(t, here) /\ Goto(t, there)

(* The thread's locals go out of scope.                                    *)
Forget(t) ==
  /\ doing' = [doing EXCEPT ![t] = "none"]
  /\ saw' = [saw EXCEPT ![t] = "startPending"]

-----------------------------------------------------------------------------
(* The SCM and controlHandler.                                             *)

(* The SCM passes on only the controls the reported status accepts.        *)
Dispatch(control) ==
  /\ scm \in Active
  /\ Move(Handler, "idle", "lock")
  /\ doing' = [doing EXCEPT ![Handler] = control]
  /\ UNCHANGED <<scm, engine, host, controlLock, requests, stopping, listening, saw, interfered>>

(* Mutant of HandlerReads: the pointer is read without hostMutex.          *)
HandlerReadsUnlocked ==
  /\ hostSet
  /\ Move(Handler, "lock", "act")
  /\ saw' = [saw EXCEPT ![Handler] = scm]
  /\ UNCHANGED <<scm, engine, host, controlLock, requests, stopping, listening, doing, interfered>>

(* hostMutex, a host to hand the request to, and currentState(), which     *)
(* releases the status lock again before the status is used.               *)
HandlerReads ==
  /\ hostMutex = Nobody
  /\ hostSet
  /\ Move(Handler, "lock", "act")
  /\ hostMutex' = Handler
  /\ saw' = [saw EXCEPT ![Handler] = scm]
  /\ UNCHANGED <<scm, engine, hostSet, controlLock, requests, stopping, listening, doing, interfered>>

(* The host is gone.                                                       *)
HandlerFindsNone ==
  /\ hostMutex = Nobody
  /\ ~hostSet
  /\ Move(Handler, "lock", "idle")
  /\ Forget(Handler)
  /\ UNCHANGED <<scm, engine, host, controlLock, requests, stopping, listening, interfered>>

Acceptable(control, status) ==
  \/ control \in {"stop", "paramchange"} /\ status \in Active
  \/ control = "pause" /\ status = "running"
  \/ control = "continue" /\ status = "paused"

Pending(control) ==
  CASE control = "stop" -> "stopPending"
    [] control = "pause" -> "pausePending"
    [] control = "continue" -> "continuePending"
    [] OTHER -> scm

Request(control) ==
  CASE control = "continue" -> "resume"
    [] control = "paramchange" -> "reload"
    [] OTHER -> control

HandlerIgnores ==
  /\ ~Acceptable(doing[Handler], saw[Handler])
  /\ Move(Handler, "act", "idle")
  /\ Forget(Handler)
  /\ hostMutex' = Nobody
  /\ UNCHANGED <<scm, engine, hostSet, controlLock, requests, stopping, listening, interfered>>

HandlerReports ==
  /\ Acceptable(doing[Handler], saw[Handler])
  /\ Move(Handler, "act", "request")
  /\ scm' = Pending(doing[Handler])
  /\ UNCHANGED <<engine, host, controlLock, requests, stopping, listening, locals, interfered>>

HandlerRequests ==
  /\ Move(Handler, "request", "signal")
  /\ queued' = queued \cup {Request(doing[Handler])}
  /\ UNCHANGED <<scm, engine, host, controlLock, wake, stopping, listening, locals, interfered>>

HandlerSignals ==
  /\ Move(Handler, "signal", "idle")
  /\ Forget(Handler)
  /\ wake' = TRUE
  /\ hostMutex' = Nobody
  /\ UNCHANGED <<scm, engine, hostSet, controlLock, queued, stopping, listening, interfered>>

HandlerStep ==
  \/ HandlerReads
  \/ HandlerFindsNone
  \/ HandlerIgnores
  \/ HandlerReports
  \/ HandlerRequests
  \/ HandlerSignals

-----------------------------------------------------------------------------
(* ServiceHost::apply, on the main thread or a connection's.               *)

(* A request arrives at the pipe; "other" commands leave the state alone.  *)
Receive(c) ==
  /\ listening
  /\ Move(c, "idle", "lock")
  /\ \E command \in Commands : doing' = [doing EXCEPT ![c] = command]
  /\ UNCHANGED <<scm, engine, host, controlLock, requests, stopping, listening, saw, interfered>>

(* The main thread goes on with the next flag.                             *)
AfterApply(command) ==
  CASE command = "pause" -> "takeResume"
    [] command = "resume" -> "takeReload"
    [] OTHER -> "loop"

(* apply returns, and with it the lock.                                    *)
Leave(t) ==
  /\ Goto(t, IF t = Main THEN AfterApply(doing[t]) ELSE "idle")
  /\ controlLock' = Nobody
  /\ Forget(t)

LockControl(t) ==
  /\ controlLock = Nobody
  /\ ~stopping /\ engine # "absent"
  /\ Move(t, "lock", "act")
  /\ controlLock' = t
  /\ UNCHANGED <<scm, engine, host, requests, stopping, listening, locals, interfered>>

(* "the Audioslave host is stopping"                                       *)
Refuse(t) ==
  /\ controlLock = Nobody
  /\ stopping \/ engine = "absent"
  /\ At(t, "lock")
  /\ Leave(t)
  /\ UNCHANGED <<scm, engine, host, requests, stopping, listening, interfered>>

(* engine->pause() or resume(): the state changes and the listener is told, *)
(* or it is the state already and nobody is.                               *)
ChangeEngine(t, from, to) ==
  /\ IF engine = from
       THEN engine' = to /\ Goto(t, "tell") /\ UNCHANGED <<controlLock, locals>>
       ELSE UNCHANGED engine /\ Leave(t)
  /\ interfered' = (interfered \/ t \in Clients)
  /\ UNCHANGED <<scm, host, requests, stopping, listening>>

ApplyPause(t) ==
  /\ At(t, "act")
  /\ doing[t] = "pause"
  /\ ChangeEngine(t, "running", "paused")

ApplyResume(t) ==
  /\ At(t, "act")
  /\ doing[t] = "resume"
  /\ ChangeEngine(t, "paused", "running")

ApplyStop(t) ==
  /\ doing[t] = "stop"
  /\ Move(t, "act", "signal")
  /\ queued' = queued \cup {"stop"}
  /\ UNCHANGED <<scm, engine, host, controlLock, wake, stopping, listening, locals, interfered>>

ApplyOther(t) ==
  /\ At(t, "act")
  /\ doing[t] = "other"
  /\ Leave(t)
  /\ UNCHANGED <<scm, engine, host, requests, stopping, listening, interfered>>

(* Mutant of ApplySignals: requestStop does not wake the main thread.      *)
ApplySignalsNobody(t) ==
  /\ At(t, "signal")
  /\ Leave(t)
  /\ UNCHANGED <<scm, engine, host, requests, stopping, listening, interfered>>

ApplySignals(t) ==
  /\ At(t, "signal")
  /\ Leave(t)
  /\ wake' = TRUE
  /\ UNCHANGED <<scm, engine, host, queued, stopping, listening, interfered>>

(* onStateChanged reads the status...                                      *)
Tell(t) ==
  /\ Move(t, "tell", "report")
  /\ saw' = [saw EXCEPT ![t] = scm]
  /\ UNCHANGED <<scm, engine, host, controlLock, requests, stopping, listening, doing, interfered>>

(* Mutant of StatusFor: a pending status is left to whoever reported it.   *)
StatusForUnlessPending(state, status) ==
  IF state \in Active /\ status \in Active THEN state
  ELSE IF state = "stopping" THEN "stopPending" ELSE scm

(* ...and what it makes of the state it is called with: the status to      *)
(* report, or the one there is.                                            *)
StatusFor(state, status) ==
  CASE state = "paused" /\ status # "stopPending" -> "paused"
    [] state = "running" /\ status \notin {"startPending", "stopPending"} -> "running"
    [] state = "stopping" /\ status # "stopPending" -> "stopPending"
    [] OTHER -> scm

(* The state the listener is called with.                                  *)
Told(t) ==
  CASE doing[t] = "pause" -> "paused"
    [] doing[t] = "resume" -> "running"
    [] OTHER -> "stopping"

Report(t) ==
  /\ At(t, "report")
  /\ IF Told(t) = "stopping"
       THEN Goto(t, "joinEngine") /\ UNCHANGED <<controlLock, locals>>
       ELSE Leave(t)
  /\ scm' = StatusFor(Told(t), saw[t])
  /\ UNCHANGED <<engine, host, requests, stopping, listening, interfered>>

ApplyStep(t) ==
  \/ LockControl(t)
  \/ Refuse(t)
  \/ ApplyPause(t)
  \/ ApplyResume(t)
  \/ ApplyStop(t)
  \/ ApplyOther(t)
  \/ ApplySignals(t)
  \/ Tell(t)
  \/ Report(t)

-----------------------------------------------------------------------------
(* serviceMain and ServiceHost::run.                                       *)

SetHost ==
  /\ hostMutex = Nobody
  /\ Move(Main, "setHost", "start")
  /\ hostSet' = TRUE
  /\ UNCHANGED <<scm, engine, hostMutex, controlLock, requests, stopping, listening, locals, interfered>>

StartEngine ==
  /\ Move(Main, "start", "openPipe")
  /\ engine' = "running"
  /\ UNCHANGED <<scm, host, controlLock, requests, stopping, listening, locals, interfered>>

(* No COM, or the worker thread does not start: run() fails.               *)
StartFails ==
  /\ \/ Move(Main, "start", "clearHost") /\ UNCHANGED engine
     \/ Move(Main, "start", "shutdown") /\ engine' = "stopped"
  /\ UNCHANGED <<scm, host, controlLock, requests, stopping, listening, locals, interfered>>

(* The pipe's name may be taken: protection runs without it.               *)
OpenPipe ==
  /\ Move(Main, "openPipe", "onStarted")
  /\ listening' \in BOOLEAN
  /\ UNCHANGED <<scm, engine, host, controlLock, requests, stopping, locals, interfered>>

OnStarted ==
  /\ Move(Main, "onStarted", "loop")
  /\ scm' = "running"
  /\ UNCHANGED <<engine, host, controlLock, requests, stopping, listening, locals, interfered>>

Loop ==
  /\ At(Main, "loop")
  /\ Goto(Main, IF "stop" \in queued THEN "shutdown" ELSE "wait")
  /\ UNCHANGED <<scm, engine, host, controlLock, requests, stopping, listening, locals, interfered>>

(* wake_.wait(-1): a signal of before is remembered and consumed.          *)
Wait ==
  /\ wake
  /\ Move(Main, "wait", "takePause")
  /\ wake' = FALSE
  /\ UNCHANGED <<scm, engine, host, controlLock, queued, stopping, listening, locals, interfered>>

(* processQueuedRequests: each flag is exchanged, and applied if it was set. *)
Take(here, request, command) ==
  /\ At(Main, here)
  /\ IF request \in queued
       THEN Goto(Main, "lock") /\ doing' = [doing EXCEPT ![Main] = command]
       ELSE Goto(Main, AfterApply(command)) /\ UNCHANGED doing
  /\ queued' = queued \ {request}
  /\ UNCHANGED <<scm, engine, host, controlLock, wake, stopping, listening, saw, interfered>>

TakePause == Take("takePause", "pause", "pause")
TakeResume == Take("takeResume", "resume", "resume")
TakeReload == Take("takeReload", "reload", "other")

(* Shutdown: no more requests, then the pipe, then the engine.             *)
Shutdown ==
  /\ Move(Main, "shutdown", "closePipe")
  /\ stopping' = TRUE
  /\ UNCHANGED <<scm, engine, host, controlLock, requests, listening, locals, interfered>>

ClosePipe ==
  /\ Move(Main, "closePipe", "joinPipe")
  /\ listening' = FALSE
  /\ UNCHANGED <<scm, engine, host, controlLock, requests, stopping, locals, interfered>>

(* Mutant of JoinPipe: connections are closed and left to end by themselves. *)
JoinNobody ==
  /\ Move(Main, "joinPipe", "stopEngine")
  /\ UNCHANGED <<scm, engine, host, controlLock, requests, stopping, listening, locals, interfered>>

(* A connection in the middle of a request completes it.                   *)
JoinPipe ==
  /\ \A c \in Clients : At(c, "idle")
  /\ Move(Main, "joinPipe", "stopEngine")
  /\ UNCHANGED <<scm, engine, host, controlLock, requests, stopping, listening, locals, interfered>>

(* engine->stop() of an engine that never started has nothing to do.       *)
StopEngine ==
  /\ At(Main, "stopEngine")
  /\ IF engine \in Active
       THEN Goto(Main, "tell") /\ engine' = "stopping"
       ELSE Goto(Main, "destroyEngine") /\ UNCHANGED engine
  /\ UNCHANGED <<scm, host, controlLock, requests, stopping, listening, locals, interfered>>

(* Mutant of JoinEngine: the listener passes STOPPED on as well.           *)
JoinEngineTells ==
  /\ Move(Main, "joinEngine", "destroyEngine")
  /\ engine' = "stopped"
  /\ scm' = "stopped"
  /\ Forget(Main)
  /\ UNCHANGED <<host, controlLock, requests, stopping, listening, interfered>>

(* STOPPED is not for the SCM yet.                                         *)
JoinEngine ==
  /\ Move(Main, "joinEngine", "destroyEngine")
  /\ engine' = "stopped"
  /\ Forget(Main)
  /\ UNCHANGED <<scm, host, controlLock, requests, stopping, listening, interfered>>

DestroyEngine ==
  /\ Move(Main, "destroyEngine", "clearHost")
  /\ engine' = "absent"
  /\ UNCHANGED <<scm, host, controlLock, requests, stopping, listening, locals, interfered>>

ClearHost ==
  /\ hostMutex = Nobody
  /\ Move(Main, "clearHost", "destroyHost")
  /\ hostSet' = FALSE
  /\ UNCHANGED <<scm, engine, hostMutex, controlLock, requests, stopping, listening, locals, interfered>>

DestroyHost ==
  /\ Move(Main, "destroyHost", "finish")
  /\ UNCHANGED <<scm, engine, host, controlLock, requests, stopping, listening, locals, interfered>>

(* The process may be torn down at any moment from here on.                *)
Finish ==
  /\ Move(Main, "finish", "done")
  /\ scm' = "stopped"
  /\ UNCHANGED <<engine, host, controlLock, requests, stopping, listening, locals, interfered>>

MainStep ==
  \/ SetHost
  \/ StartEngine
  \/ StartFails
  \/ OpenPipe
  \/ OnStarted
  \/ Loop
  \/ Wait
  \/ TakePause
  \/ TakeResume
  \/ TakeReload
  \/ Shutdown
  \/ ClosePipe
  \/ JoinPipe
  \/ StopEngine
  \/ JoinEngine
  \/ DestroyEngine
  \/ ClearHost
  \/ DestroyHost
  \/ Finish

Terminated == At(Main, "done") /\ UNCHANGED vars

Next ==
  \/ \E control \in Controls : Dispatch(control)
  \/ HandlerStep
  \/ \E c \in Clients : Receive(c)
  \/ \E t \in Appliers : ApplyStep(t)
  \/ MainStep
  \/ Terminated

(* Every thread keeps running; nobody owes a request.  controlLock_ is a   *)
(* CRITICAL_SECTION and not fair, but people issue the commands of the     *)
(* pipe one round trip at a time and do not starve the main thread.        *)
Fairness ==
  /\ WF_vars(MainStep)
  /\ WF_vars(HandlerStep)
  /\ \A t \in Appliers : WF_vars(ApplyStep(t)) /\ SF_vars(LockControl(t))

Spec == Init /\ [][Next]_vars
FairSpec == Spec /\ Fairness

-----------------------------------------------------------------------------
(* Properties.                                                             *)

(* The control handler never hands a request to a host that is destroyed   *)
(* already, whenever the control arrives (ServiceState::hostMutex).        *)
HostAlive ==
  pc[Handler] \in {"request", "signal"} => pc[Main] \notin {"finish", "done"}

(* A command that has passed apply's check works on an engine that has not *)
(* begun to stop: shutdown waits for every connection first (apply, run,   *)
(* PipeServer::stop).                                                      *)
EngineAlive == \A t \in Appliers : pc[t] = "act" => engine \in Active

Ending == {"joinEngine", "destroyEngine", "clearHost", "destroyHost", "finish", "done"}

(* Once the engine has been told to stop, the SCM is never told again that *)
(* the service runs or is paused, by a listener or handler that read the   *)
(* status earlier: no further control is accepted (run, onStateChanged).   *)
NoRevival == pc[Main] \in Ending => scm \notin Active

(* A service that is to stop stops, whoever asked for it and whatever else *)
(* is requested (controlHandler, requestStop, run, serviceMain).           *)
StopCompletes == (scm = "stopPending" \/ "stop" \in queued) ~> scm = "stopped"

(* With nobody pausing or resuming through the pipe, a pause or continue   *)
(* the SCM is told is pending comes to an end (controlHandler,             *)
(* processQueuedRequests, onStateChanged).                                 *)
SettlesAlone ==
  scm \in {"pausePending", "continuePending"}
    ~> (scm \notin {"pausePending", "continuePending"} \/ interfered)

Closing == {"shutdown", "closePipe", "joinPipe"}

(* The service's steps are steps of the life the SCM may rely on, or       *)
(* stutter: in particular it is reported stopped once everything is        *)
(* released, and for good (serviceMain).                                   *)
LifeNow ==
  CASE pc[Main] \in {"setHost", "start"} -> "starting"
    [] pc[Main] \in Ending \ {"done"} -> "ending"
    [] pc[Main] \in Closing \cup {"stopEngine"} /\ engine \notin Active -> "ending"
    [] pc[Main] = "done" -> "over"
    [] OTHER -> "serving"
Life == INSTANCE ServiceLife WITH life <- LifeNow, status <- scm, up <- engine # "absent"
ImplementsLife == Life!LifeSpec

-----------------------------------------------------------------------------
(* The inductive invariant behind HostAlive, EngineAlive, NoRevival and    *)
(* the refinement; module ScmServiceProofs proves it.                      *)

(* What each thread carries out follows from where it is.                  *)
DoingInv ==
  /\ pc[Main] \in {"lock", "act"} => doing[Main] \in {"pause", "resume", "other"}
  /\ pc[Main] \in {"tell", "report"} => doing[Main] \in {"pause", "resume", "none"}
  /\ pc[Main] \notin {"lock", "act", "tell", "report"} => doing[Main] = "none"
  /\ \A c \in Clients : pc[c] \in {"tell", "report"} => doing[c] \in {"pause", "resume"}
  /\ doing[Handler] \in Controls \cup {"none"}
  /\ pc[Handler] = "request" => doing[Handler] \in Controls

(* The handler works under hostMutex, on a host that is still there.       *)
HostInv ==
  /\ pc[Handler] \in {"act", "request", "signal"} => hostMutex = Handler /\ hostSet
  /\ hostSet => pc[Main] \notin {"destroyHost", "finish", "done"}

(* The main thread is running the service, or winding it up with requests  *)
(* still being answered.                                                   *)
Running ==
  \/ pc[Main] \in {"openPipe", "onStarted", "loop", "wait", "takePause", "takeResume",
                   "takeReload", "lock", "act"}
  \/ pc[Main] \in {"tell", "report"} /\ doing[Main] # "none"

(* Connections are served by a live engine only.                           *)
ServeInv ==
  /\ Running => engine \in Active
  /\ listening => (Running \/ pc[Main] \in {"shutdown", "closePipe"}) /\ engine \in Active
  /\ \A c \in Clients :
       pc[c] # "idle" => (Running \/ pc[Main] \in Closing) /\ engine \in Active

(* Before the engine runs, once it has stopped, and from the moment its    *)
(* stopping has been reported, the SCM takes the service for inactive.     *)
ActiveInv ==
  /\ pc[Main] \in {"setHost", "start"} => scm \notin Active
  /\ pc[Main] \in Closing \cup {"stopEngine"} /\ engine \notin Active => scm \notin Active
  /\ pc[Main] = "report" /\ doing[Main] = "none" /\ saw[Main] = "stopPending" => scm \notin Active
  /\ NoRevival

(* Nothing is reported before the start but that it is pending, nor ever   *)
(* after the end, there is no engine then, and one that stops in between.  *)
LifeInv ==
  /\ pc[Main] \in {"setHost", "start"} => scm = "startPending" /\ engine = "absent" /\ pc[Handler] = "idle"
  /\ pc[Main] = "joinEngine" \/ (pc[Main] \in {"tell", "report"} /\ doing[Main] = "none") => engine = "stopping"
  /\ pc[Main] \in {"clearHost", "destroyHost", "finish", "done"} => engine = "absent"
  /\ scm = "stopped" <=> pc[Main] = "done"

IInv == TypeOK /\ DoingInv /\ HostInv /\ ServeInv /\ ActiveInv /\ LifeInv
=============================================================================
