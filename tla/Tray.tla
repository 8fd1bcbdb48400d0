--------------------------------- MODULE Tray ---------------------------------
(***************************************************************************)
(* The tray of one session (app/): what its message thread does with the   *)
(* clicks, timers, pushed statuses, replies and finished background jobs,  *)
(* against a host that runs, pauses, stops, crashes and is started again.  *)
(*                                                                         *)
(* The message thread handles one thing at a time, so every handler is one *)
(* action.  Everything that reaches it from another thread goes through    *)
(* inbox, its message queue.  ControlChannel has the detail of the pipe,   *)
(* ScmService that of the host's threads; here a command is applied in one *)
(* step and a host is up as soon as it takes connections.                  *)
(***************************************************************************)
EXTENDS Naturals, Sequences, SequencesExt

CONSTANTS
  Modes,       \* "service" and "portable": how this session may be installed
  MaxActs,     \* what users and the troubles below do in one behaviour
  MaxRuns,     \* times the host is started
  MaxRestarts, \* maxPortableRestarts (5 in the code)
  MaxInbox,    \* messages waiting when a status, a tick or a quit event is added
  Troubles     \* what may happen: "crash", "other" (commands that are not
               \* the tray's), "gone" (the service is uninstalled)

ASSUME TrayAssumption ==
  /\ Modes \subseteq {"service", "portable"} /\ Modes # {}
  /\ {MaxActs, MaxRestarts, MaxInbox} \subseteq Nat /\ MaxRuns \in Nat \ {0}
  /\ Troubles \subseteq {"crash", "other", "gone"}

VARIABLES
  mode,
  host,      \* the host, and with it the state the SCM reports
  stopQueued,\* it was asked to stop and its main thread has not woken up
  run,       \* how often it was started
  held,      \* a status or reply a thread of the host has built and not sent
  linked,    \* the tray's connection
  calls,     \* requests on their way to the host
  inbox,     \* what waits for the message thread
  jobs,      \* the background jobs, oldest first; two threads run them
  tray,
  connected, status, service, busy,  \* TrayController
  pending,                           \* ControlClient: requests without a reply
  connecting, restarts,     \* AudioslaveApplication
  menuItems, dialogs,                \* an open menu's enabled items; what is asked or told
  acts                               \* how much users and troubles have done

hostVars == <<mode, host, stopQueued, run>>
channel == <<held, linked, calls>>
control == <<connected, status, service, busy>>
shown == <<menuItems, dialogs>>
vars == <<hostVars, channel, inbox, jobs, tray, control, pending, connecting, restarts, shown, acts>>

Up == {"running", "paused"}
Empty == [k |-> "none", id |-> 0, ok |-> FALSE, state |-> "none"]
Actions == {"pause", "resume", "scan", "stop"}
Threads == {"worker", "connection", "other"}

Messages == [k : {"none", "up", "quit", "down", "status", "reply", "start", "connect", "stop", "fallback"},
             id : 0..MaxActs, ok : BOOLEAN, state : Up \cup {"none"}]
Calls == [id : 0..MaxActs, cmd : Actions \cup {"status"}]
Jobs == [k : {"start", "connect", "stop", "fallback"}, waits : BOOLEAN]

TypeOK ==
  /\ mode \in Modes
  /\ host \in {"absent", "stopped", "starting", "stopping"} \cup Up
  /\ stopQueued \in BOOLEAN
  /\ run \in 0..MaxRuns
  /\ held \in [Threads -> Messages]
  /\ linked \in BOOLEAN
  /\ calls \in Seq(Calls) /\ inbox \in Seq(Messages) /\ jobs \in Seq(Jobs)
  /\ tray \in {"closed", "open"}
  /\ connected \in BOOLEAN /\ busy \in BOOLEAN /\ connecting \in BOOLEAN
  /\ dialogs \subseteq {"confirm", "alert"}
  /\ status \in Up \cup {"none"}
  /\ service \in {"unknown", "stopped", "starting", "stopping"} \cup Up
  /\ pending \subseteq Calls
  /\ acts \in 0..MaxActs
  /\ restarts \in 0..MaxRestarts
  /\ menuItems \subseteq {"pause", "resume", "scan", "exit"}

Init ==
  /\ mode \in Modes
  /\ host \in IF mode = "service" THEN {"stopped", "running"} ELSE {"stopped"}
  /\ stopQueued = FALSE
  /\ run = IF host = "running" THEN 1 ELSE 0
  /\ held = [t \in Threads |-> Empty]
  /\ linked = FALSE
  /\ calls = <<>> /\ inbox = <<>> /\ jobs = <<>>
  /\ tray = "closed"
  /\ connected = FALSE /\ status = "none" /\ service = "unknown" /\ busy = FALSE
  /\ pending = {} /\ acts = 0
  /\ connecting = FALSE /\ restarts = 0
  /\ menuItems = {} /\ dialogs = {}

-----------------------------------------------------------------------------
(* TrayController: what is shown and offered.                              *)

UiState ==
  IF connected THEN IF status = "none" THEN "starting" ELSE status
  ELSE IF mode = "portable" THEN "starting"
  ELSE [unknown |-> "unknown", absent |-> "notInstalled", stopped |-> "stopped", starting |-> "starting",
        running |-> "starting", paused |-> "paused", stopping |-> "stopping"][service]

ResumeAction ==
  IF busy THEN "none"
  ELSE IF UiState = "paused" /\ connected THEN "resumeThroughHost"
  ELSE IF UiState = "stopped" /\ mode = "service" THEN "startService"
  ELSE "none"

Enabled ==
  {c \in {"pause", "scan"} : ~busy /\ connected /\ UiState = "running"}
  \cup {c \in {"resume"} : ResumeAction # "none"} \cup {c \in {"exit"} : ~busy}

-----------------------------------------------------------------------------
(* The host, seen from the tray.                                           *)

Status(state) == [Empty EXCEPT !.k = "status", !.state = state]
Message(kind, ok) == [Empty EXCEPT !.k = kind, !.ok = ok]
Room == Len(inbox) < MaxInbox
Acts == acts < MaxActs /\ acts' = acts + 1

DropLink ==
  /\ held' = [t \in Threads |-> Empty]
  /\ linked' = FALSE
  /\ calls' = <<>>
  /\ inbox' = IF linked THEN Append(inbox, Message("down", FALSE)) ELSE inbox

HostUp ==
  /\ host = "starting"
  /\ host' = "running"
  /\ UNCHANGED <<mode, stopQueued, run, channel, inbox, jobs, tray, control, pending, connecting, restarts, shown, acts>>

(* The main thread has woken up: the pipe goes first.                      *)
HostStops ==
  /\ host \in Up /\ stopQueued
  /\ host' = "stopping"
  /\ stopQueued' = FALSE
  /\ DropLink
  /\ UNCHANGED <<mode, run, jobs, tray, control, pending, connecting, restarts, shown, acts>>

HostDown ==
  /\ host = "stopping"
  /\ host' = "stopped"
  /\ UNCHANGED <<mode, stopQueued, run, channel, inbox, jobs, tray, control, pending, connecting, restarts, shown, acts>>

Crash ==
  /\ Acts
  /\ "crash" \in Troubles /\ mode = "service"
  /\ host \in Up
  /\ host' = "stopped"
  /\ stopQueued' = FALSE
  /\ DropLink
  /\ UNCHANGED <<mode, run, jobs, tray, control, pending, connecting, restarts, shown>>

Starts == host' = "starting" /\ run' = run + 1 /\ UNCHANGED <<mode, stopQueued>>

(* The SCM's recovery action, or another user.                             *)
Recovers ==
  /\ "crash" \in Troubles /\ mode = "service"
  /\ host = "stopped" /\ run < MaxRuns
  /\ Starts
  /\ UNCHANGED <<channel, inbox, jobs, tray, control, pending, connecting, restarts, shown, acts>>

Uninstalled ==
  /\ Acts
  /\ "gone" \in Troubles /\ mode = "service"
  /\ host = "stopped"
  /\ host' = "absent"
  /\ UNCHANGED <<mode, stopQueued, run, channel, inbox, jobs, tray, control, pending, connecting, restarts, shown>>

(* scanCompleted: the status is built before the connections are locked.   *)
PassPublishes ==
  /\ host \in Up /\ linked /\ held["worker"] = Empty
  /\ held' = [held EXCEPT !["worker"] = Status(host)]
  /\ UNCHANGED <<hostVars, linked, calls, inbox, jobs, tray, control, pending, connecting, restarts, shown, acts>>

(* The console or the SCM pauses, resumes or stops the host.               *)
OtherChanges ==
  /\ Acts
  /\ "other" \in Troubles
  /\ host \in Up /\ held["other"] = Empty
  /\ host' = IF host = "running" THEN "paused" ELSE "running"
  /\ held' = [held EXCEPT !["other"] = IF linked THEN Status(host') ELSE Empty]
  /\ UNCHANGED <<mode, stopQueued, run, linked, calls, inbox, jobs, tray, control, pending, connecting, restarts, shown>>

OtherStops ==
  /\ Acts
  /\ "other" \in Troubles
  /\ host \in Up /\ ~stopQueued
  /\ stopQueued' = TRUE
  /\ UNCHANGED <<mode, host, run, channel, inbox, jobs, tray, control, pending, connecting, restarts, shown>>

(* The connection's thread applies a request and builds the reply; the     *)
(* status it broadcasts first says nothing that the reply does not.        *)
Serve ==
  /\ host \in Up /\ calls # <<>> /\ held["connection"] = Empty
  /\ LET c == Head(calls) IN
       /\ host' = CASE c.cmd = "pause" -> "paused" [] c.cmd = "resume" -> "running" [] OTHER -> host
       /\ stopQueued' = (stopQueued \/ c.cmd = "stop")
       /\ held' = [held EXCEPT !["connection"] =
                     [k |-> "reply", id |-> c.id, ok |-> ~(c.cmd = "scan" /\ host = "paused"), state |-> host']]
  /\ calls' = Tail(calls)
  /\ UNCHANGED <<mode, run, linked, inbox, jobs, tray, control, pending, connecting, restarts, shown, acts>>

Sends(t) ==
  /\ held[t] # Empty /\ (t # "connection" => Room)
  /\ held' = [held EXCEPT ![t] = Empty]
  /\ inbox' = IF linked THEN Append(inbox, held[t]) ELSE inbox
  /\ UNCHANGED <<hostVars, linked, calls, jobs, tray, control, pending, connecting, restarts, shown, acts>>

-----------------------------------------------------------------------------
(* The background jobs: ServiceController and connect, on two threads.     *)

Running == {i \in DOMAIN jobs : i <= 2}
Ends(i, ok) == jobs' = RemoveAt(jobs, i) /\ inbox' = Append(inbox, Message(jobs[i].k, ok))
Waits(i) == jobs' = [jobs EXCEPT ![i].waits = TRUE] /\ UNCHANGED inbox
NewJob(kind) == Append(jobs, [k |-> kind, waits |-> FALSE])

Connect(i) ==
  /\ i \in Running /\ jobs[i].k = "connect"
  /\ linked' = (host \in Up)
  /\ jobs' = RemoveAt(jobs, i)
  /\ inbox' = inbox \o (IF linked' THEN <<Message("up", TRUE)>> ELSE <<>>) \o <<Message("connect", TRUE)>>
  /\ UNCHANGED <<hostVars, held, calls, tray, control, pending, connecting, restarts, shown, acts>>

StartService(i) ==
  /\ i \in Running /\ jobs[i].k = "start" /\ ~jobs[i].waits
  /\ IF host = "stopped" /\ run < MaxRuns
       THEN Starts /\ Waits(i)
       ELSE Ends(i, host \in Up \cup {"starting", "stopping"}) /\ UNCHANGED hostVars
  /\ UNCHANGED <<channel, tray, control, pending, connecting, restarts, shown, acts>>

StopService(i) ==
  /\ i \in Running /\ jobs[i].k \in {"stop", "fallback"} /\ ~jobs[i].waits
  /\ IF host \in Up
       THEN stopQueued' = TRUE /\ Waits(i)
       ELSE Ends(i, host = "stopped") /\ UNCHANGED stopQueued
  /\ UNCHANGED <<mode, host, run, channel, tray, control, pending, connecting, restarts, shown, acts>>

(* waitForState: the state is reached, or the time is over.                *)
WaitEnds(i) ==
  /\ i \in Running /\ jobs[i].waits
  /\ \E reached \in BOOLEAN :
       /\ reached => host = (IF jobs[i].k = "start" THEN "running" ELSE "stopped")
       /\ Ends(i, reached)
  /\ UNCHANGED <<hostVars, channel, tray, control, pending, connecting, restarts, shown, acts>>

-----------------------------------------------------------------------------
(* The message thread: pieces of its handlers.                             *)

Quit(queue) == Append(queue, Message("quit", TRUE))

(* Mutant of Upkeep.                                                       *)
UpkeepKeepsGone(queue, idle) ==
  LET gone == mode = "service" /\ host = "absent"
      again == mode = "portable" /\ host = "stopped" /\ idle /\ restarts < MaxRestarts /\ run < MaxRuns
  IN /\ inbox' = IF gone THEN Quit(queue) ELSE queue
     /\ service' = IF mode = "service" THEN host ELSE service
     /\ IF again THEN Starts /\ restarts' = restarts + 1 ELSE UNCHANGED <<hostVars, restarts>>
     /\ IF ~gone /\ ~linked /\ ~connecting
          THEN connecting' = TRUE /\ jobs' = NewJob("connect")
          ELSE UNCHANGED <<connecting, jobs>>

(* timerCallback, with queue the rest of the inbox: look at the SCM or the *)
(* portable host, and connect.                                             *)
Upkeep(queue, idle) ==
  LET gone == mode = "service" /\ host = "absent"
      again == mode = "portable" /\ host = "stopped" /\ idle /\ restarts < MaxRestarts /\ run < MaxRuns
  IN /\ inbox' = IF gone THEN Quit(queue) ELSE queue
     /\ service' = IF mode = "service" /\ ~gone THEN host ELSE service
     /\ IF again THEN Starts /\ restarts' = restarts + 1 ELSE UNCHANGED <<hostVars, restarts>>
     /\ IF ~gone /\ ~linked /\ ~connecting
          THEN connecting' = TRUE /\ jobs' = NewJob("connect")
          ELSE UNCHANGED <<connecting, jobs>>

(* ControlClient::send on the message thread: not connected, the callback  *)
(* runs at once.                                                           *)
SendCommand(cmd) ==
  /\ IF linked
       THEN LET c == [id |-> acts', cmd |-> cmd] IN
              /\ pending' = pending \cup {c}
              /\ calls' = Append(calls, c)
              /\ busy' = (cmd \in Actions \/ busy)
       ELSE UNCHANGED <<pending, calls>> /\ busy' = (cmd \notin Actions /\ busy)
  /\ UNCHANGED <<held, linked>>

BackgroundStart == busy' = TRUE /\ jobs' = NewJob("start")

-----------------------------------------------------------------------------
(* What the user and the installer do.                                     *)

(* The first tray of the session; with it the service, if it was stopped.  *)
Launch ==
  /\ Acts
  /\ tray = "closed"
  /\ host = "stopped" => run < MaxRuns
  /\ tray' = "open"
  /\ connecting' = TRUE
  /\ mode = "service" => host # "absent"
  /\ IF mode = "service"
       THEN /\ service' = host
            /\ jobs' = (IF host = "stopped" THEN NewJob("start") ELSE jobs) \o <<[k |-> "connect", waits |-> FALSE]>>
            /\ busy' = (host = "stopped")
            /\ UNCHANGED hostVars
       ELSE /\ Starts
            /\ jobs' = NewJob("connect")
            /\ UNCHANGED <<service, busy>>
  /\ UNCHANGED <<channel, inbox, connected, status, pending, restarts, shown>>

Perform(c) ==
  \/ c \in {"pause", "scan"} /\ SendCommand(c) /\ UNCHANGED jobs
  \/ c = "resume" /\ ResumeAction = "resumeThroughHost" /\ SendCommand(c) /\ UNCHANGED jobs
  \/ c = "resume" /\ ResumeAction = "startService" /\ BackgroundStart /\ UNCHANGED <<pending, channel>>
  \/ c = "resume" /\ ResumeAction = "none" /\ UNCHANGED <<pending, channel, jobs, busy>>

(* A button of the status window follows the controller.                   *)
ClickWindow(c) ==
  /\ Acts
  /\ tray = "open" /\ c \in Enabled \ {"exit"}
  /\ Perform(c)
  /\ UNCHANGED <<hostVars, inbox, tray, connected, status, service, connecting, restarts, shown>>

ShowMenu ==
  /\ Acts
  /\ tray = "open" /\ menuItems = {}
  /\ menuItems' = Enabled
  /\ UNCHANGED <<hostVars, channel, inbox, jobs, tray, control, pending, connecting, restarts, dialogs>>

(* An item of the menu follows it every 150 ms; the exit item does not.    *)
MenuTimer ==
  /\ menuItems # {}
  /\ menuItems' = (Enabled \ {"exit"}) \cup (menuItems \cap {"exit"})
  /\ UNCHANGED <<hostVars, channel, inbox, jobs, tray, control, pending, connecting, restarts, dialogs, acts>>

ClickMenu(c) ==
  /\ Acts
  /\ c \in menuItems \ {"exit"}
  /\ Perform(c)
  /\ menuItems' = menuItems \ {c}
  /\ UNCHANGED <<hostVars, inbox, tray, connected, status, service, connecting, restarts, dialogs>>

MenuExit ==
  /\ "exit" \in menuItems
  /\ menuItems' = {}
  /\ dialogs' = dialogs \cup {"confirm"}
  /\ UNCHANGED <<hostVars, channel, inbox, jobs, tray, control, pending, connecting, restarts, acts>>

DismissMenu ==
  /\ menuItems # {}
  /\ menuItems' = {}
  /\ UNCHANGED <<hostVars, channel, inbox, jobs, tray, control, pending, connecting, restarts, dialogs, acts>>

(* confirmExit's answer is yes: exitAndStop.                               *)
ExitAndStop ==
  /\ Acts
  /\ "confirm" \in dialogs
  /\ dialogs' = dialogs \ {"confirm"}
  /\ \/ mode = "portable" /\ inbox' = Quit(inbox) /\ UNCHANGED <<channel, pending, busy, jobs>>
     \/ mode = "service" /\ linked /\ SendCommand("stop") /\ UNCHANGED <<inbox, jobs>>
     \/ mode = "service" /\ ~linked /\ busy' = TRUE /\ jobs' = NewJob("stop") /\ UNCHANGED <<channel, pending, inbox>>
  /\ UNCHANGED <<hostVars, tray, connected, status, service, connecting, restarts, menuItems>>

CancelExit ==
  /\ "confirm" \in dialogs
  /\ dialogs' = dialogs \ {"confirm"}
  /\ UNCHANGED <<hostVars, channel, inbox, jobs, tray, control, pending, connecting, restarts, menuItems, acts>>

DismissAlert ==
  /\ "alert" \in dialogs /\ Room
  /\ dialogs' = dialogs \ {"alert"}
  /\ inbox' = Quit(inbox)
  /\ UNCHANGED <<hostVars, channel, jobs, tray, control, pending, connecting, restarts, menuItems, acts>>

(* The installer's quit event, or the end of the session.                  *)
CloseRequested ==
  /\ Acts
  /\ tray = "open" /\ Room
  /\ inbox' = Quit(inbox)
  /\ UNCHANGED <<hostVars, channel, jobs, tray, control, pending, connecting, restarts, shown>>

-----------------------------------------------------------------------------
(* The message thread.                                                     *)

Timer ==
  /\ tray = "open" /\ Room
  /\ Upkeep(inbox, ~busy)
  /\ UNCHANGED <<channel, tray, connected, status, busy, pending, shown, acts>>

Handling(kind) == tray = "open" /\ inbox # <<>> /\ Head(inbox).k = kind

ControlConnected ==
  /\ Handling("up")
  /\ connected' = TRUE
  /\ IF linked
       THEN LET c == [id |-> 0, cmd |-> "status"] IN pending' = pending \cup {c} /\ calls' = Append(calls, c)
       ELSE UNCHANGED <<pending, calls>>
  /\ inbox' = Tail(inbox)
  /\ UNCHANGED <<hostVars, held, linked, jobs, tray, status, service, busy, connecting, restarts, shown, acts>>

(* Mutant of ControlDisconnected.                                          *)
DisconnectedSilently ==
  /\ Handling("down")
  /\ pending' = {}
  /\ connected' = FALSE
  /\ status' = "none"
  /\ inbox' = Tail(inbox)
  /\ UNCHANGED <<hostVars, channel, jobs, busy, tray, service, connecting, restarts, shown, acts>>

(* failAllPending, then controlDisconnected.                               *)
ControlDisconnected ==
  /\ Handling("down")
  /\ LET failed == {c.cmd : c \in pending} IN
       /\ busy' = (busy /\ failed \cap Actions = {})
       /\ jobs' = IF "stop" \in failed THEN NewJob("fallback") ELSE jobs
  /\ pending' = {}
  /\ connected' = FALSE
  /\ status' = "none"
  /\ inbox' = Tail(inbox)
  /\ UNCHANGED <<hostVars, channel, tray, service, connecting, restarts, shown, acts>>

StatusPushed ==
  /\ Handling("status")
  /\ status' = Head(inbox).state
  /\ inbox' = Tail(inbox)
  /\ UNCHANGED <<hostVars, channel, jobs, tray, connected, service, busy, pending, connecting, restarts, shown, acts>>

(* Mutant of ReplyReceived.                                                *)
ReplyWithoutFallback ==
  /\ Handling("reply")
  /\ LET m == Head(inbox)
         mine == {c \in pending : c.id = m.id}
         cmds == {c.cmd : c \in mine}
     IN /\ pending' = pending \ mine
        /\ busy' = (busy /\ cmds \cap Actions = {})
        /\ inbox' = Tail(inbox)
        /\ IF mine # {} THEN status' = m.state ELSE UNCHANGED status
  /\ UNCHANGED <<hostVars, channel, jobs, tray, connected, service, connecting, restarts, shown, acts>>

(* A reply to a request that failed before it came is ignored.             *)
ReplyReceived ==
  /\ Handling("reply")
  /\ LET m == Head(inbox)
         mine == {c \in pending : c.id = m.id}
         cmds == {c.cmd : c \in mine}
     IN /\ pending' = pending \ mine
        /\ busy' = (busy /\ cmds \cap Actions = {})
        /\ jobs' = IF "stop" \in cmds /\ ~m.ok THEN NewJob("fallback") ELSE jobs
        /\ inbox' = IF "stop" \in cmds /\ m.ok THEN Quit(Tail(inbox)) ELSE Tail(inbox)
        /\ IF mine # {} THEN status' = m.state ELSE UNCHANGED status
  /\ UNCHANGED <<hostVars, channel, tray, connected, service, connecting, restarts, shown, acts>>

(* Mutant of Connected.                                                    *)
ConnectedKeepsFlag ==
  /\ Handling("connect")
  /\ inbox' = Tail(inbox)
  /\ UNCHANGED <<hostVars, channel, jobs, tray, control, pending, connecting, restarts, shown, acts>>

Connected ==
  /\ Handling("connect")
  /\ connecting' = FALSE
  /\ inbox' = Tail(inbox)
  /\ UNCHANGED <<hostVars, channel, jobs, tray, control, pending, restarts, shown, acts>>

ServiceStarted ==
  /\ Handling("start")
  /\ busy' = FALSE
  /\ Upkeep(Tail(inbox), TRUE)
  /\ UNCHANGED <<channel, tray, connected, status, pending, shown, acts>>

(* The stop without a connection, or after it failed: only the first is    *)
(* told.                                                                   *)
ServiceStopped ==
  /\ Handling("stop") \/ Handling("fallback")
  /\ IF Head(inbox) = Message("stop", FALSE)
       THEN dialogs' = dialogs \cup {"alert"} /\ inbox' = Tail(inbox)
       ELSE UNCHANGED dialogs /\ inbox' = Quit(Tail(inbox))
  /\ UNCHANGED <<hostVars, channel, jobs, tray, control, pending, connecting, restarts, menuItems, acts>>

(* shutdown: jobs that have begun are waited for, though not to the end of *)
(* their own wait; the portable host stops with its process.               *)
Shutdown ==
  /\ Handling("quit")
  /\ \A i \in Running : jobs[i].waits
  /\ tray' = "closed"
  /\ inbox' = <<>> /\ jobs' = <<>>
  /\ linked' = FALSE /\ calls' = <<>> /\ held' = [t \in Threads |-> IF mode = "portable" \/ t = "connection" THEN Empty ELSE held[t]]
  /\ connected' = FALSE /\ status' = "none" /\ service' = "unknown" /\ busy' = FALSE
  /\ pending' = {} /\ connecting' = FALSE /\ restarts' = 0
  /\ menuItems' = {} /\ dialogs' = {}
  /\ IF mode = "portable" THEN host' = "stopped" /\ stopQueued' = FALSE ELSE UNCHANGED <<host, stopQueued>>
  /\ UNCHANGED <<mode, run, acts>>

Handle ==
  \/ ControlConnected \/ ControlDisconnected \/ StatusPushed \/ ReplyReceived
  \/ Connected \/ ServiceStarted \/ ServiceStopped \/ Shutdown

Host ==
  \/ HostUp \/ HostStops \/ HostDown \/ Crash \/ Recovers \/ Uninstalled
  \/ PassPublishes \/ OtherChanges \/ OtherStops \/ Serve
  \/ \E t \in Threads : Sends(t)

Job(i) == Connect(i) \/ StartService(i) \/ StopService(i) \/ WaitEnds(i)

User ==
  \/ Launch \/ ShowMenu \/ MenuTimer \/ MenuExit \/ DismissMenu \/ ExitAndStop \/ CancelExit
  \/ DismissAlert \/ CloseRequested
  \/ \E c \in {"pause", "resume", "scan"} : ClickWindow(c) \/ ClickMenu(c)

Next == Host \/ (\E i \in 1..2 : Job(i)) \/ User \/ Timer \/ Handle

Spec == Init /\ [][Next]_vars

(* Threads that have something to do do it, waits end after their timeout, *)
(* and a running host checks the devices every CheckIntervalSeconds.       *)
Fairness ==
  /\ WF_vars(Handle) /\ WF_vars(Timer)
  /\ \A i \in 1..2 : WF_vars(Job(i))
  /\ WF_vars(HostUp) /\ WF_vars(HostStops) /\ WF_vars(HostDown)
  /\ WF_vars(Serve) /\ \A t \in Threads : WF_vars(Sends(t))
  /\ WF_vars(PassPublishes /\ host = "running")

FairSpec == Spec /\ Fairness

-----------------------------------------------------------------------------
(* The menu and the buttons are only blocked while an operation the user   *)
(* asked for is on its way, whatever becomes of it: each setBusy (true)    *)
(* has its setBusy (false) to come.                                        *)
BusyMeansWork ==
  busy =>
    \/ \E c \in pending : c.cmd \in Actions
    \/ \E i \in DOMAIN jobs : jobs[i].k \in {"start", "stop"}
    \/ \E i \in DOMAIN inbox : inbox[i].k \in {"start", "stop", "quit"}
    \/ "alert" \in dialogs

(* Nothing of a tray is left behind when it has closed: no job, menu or    *)
(* question, and no portable host.                                         *)
NothingLeft ==
  tray = "closed" => jobs = <<>> /\ menuItems = {} /\ dialogs = {} /\ (mode = "portable" => host = "stopped")

(* A confirmed exit ends: whether the host's reply, the loss of the         *)
(* connection or a stop that fails comes first, the tray closes or says    *)
(* that it could not stop the service (exitAndStop).                       *)
Exiting ==
  \/ \E c \in pending : c.cmd = "stop"
  \/ \E i \in DOMAIN jobs : jobs[i].k \in {"stop", "fallback"}

ExitEnds == Exiting ~> (tray = "closed" \/ "alert" \in dialogs)

(* With a host that keeps running, the tray connects and shows it running: *)
(* no lost connection, failed attempt or late status leaves another state  *)
(* on the icon (timerCallback, statusReceived).                            *)
ShowsRunning ==
  <>[](tray = "open" /\ host = "running" /\ ~stopQueued) => <>[](UiState = "running")

=============================================================================
