------------------------------ MODULE TrayProofs ------------------------------
(***************************************************************************)
(* Proofs about Tray for any number of clicks, starts and restarts of the  *)
(* host and any length of the message queue: the menu is only blocked      *)
(* while something that unblocks it is on its way.                         *)
(***************************************************************************)
EXTENDS Tray, SequenceTheorems, TLAPS

(* A queue has an entry of one of these kinds.                             *)
Has(queue, kinds) == \E i \in DOMAIN queue : queue[i].k \in kinds

LEMMA HasAppend ==
  ASSUME NEW S, NEW queue \in Seq(S), NEW x \in S
  PROVE  /\ Append(queue, x) \in Seq(S)
         /\ \A kinds : Has(queue, kinds) => Has(Append(queue, x), kinds)
         /\ \A kinds : x.k \in kinds => Has(Append(queue, x), kinds)
<1>1. Append(queue, x) \in Seq(S) /\ Len(Append(queue, x)) = Len(queue) + 1
      /\ \A i \in 1 .. Len(queue) : Append(queue, x)[i] = queue[i]
      /\ Append(queue, x)[Len(queue) + 1] = x
  BY AppendProperties
<1>2. DOMAIN queue = 1 .. Len(queue) /\ DOMAIN Append(queue, x) = 1 .. Len(queue) + 1 /\ Len(queue) \in Nat
  BY <1>1, LenProperties
<1>. QED
  BY <1>1, <1>2 DEF Has

LEMMA HasTail ==
  ASSUME NEW S, NEW queue \in Seq(S), queue # <<>>, NEW kinds
  PROVE  /\ Head(queue) \in S /\ Tail(queue) \in Seq(S)
         /\ Has(queue, kinds) /\ Head(queue).k \notin kinds => Has(Tail(queue), kinds)
<1>1. /\ Head(queue) \in S /\ Tail(queue) \in Seq(S) /\ Head(queue) = queue[1]
      /\ Len(Tail(queue)) = Len(queue) - 1
      /\ \A i \in 1 .. Len(Tail(queue)) : Tail(queue)[i] = queue[i + 1]
  BY HeadTailProperties
<1>2. /\ DOMAIN queue = 1 .. Len(queue) /\ DOMAIN Tail(queue) = 1 .. Len(Tail(queue)) /\ Len(queue) \in Nat
  BY <1>1, LenProperties
<1>3. ASSUME NEW i \in DOMAIN queue, queue[i].k \in kinds, Head(queue).k \notin kinds
      PROVE  Has(Tail(queue), kinds)
  <2>1. i - 1 \in DOMAIN Tail(queue) /\ Tail(queue)[i - 1] = queue[i]
    BY <1>1, <1>2, <1>3
  <2>. QED
    BY <1>3, <2>1 DEF Has
<1>. QED
  BY <1>1, <1>3 DEF Has

LEMMA HasRemoveAt ==
  ASSUME NEW S, NEW queue \in Seq(S), NEW n \in DOMAIN queue, NEW kinds
  PROVE  /\ RemoveAt(queue, n) \in Seq(S)
         /\ Has(queue, kinds) /\ queue[n].k \notin kinds => Has(RemoveAt(queue, n), kinds)
<1>. DEFINE before == SubSeq(queue, 1, n - 1)
            after == SubSeq(queue, n + 1, Len(queue))
<1>1. n \in 1 .. Len(queue) /\ Len(queue) \in Nat /\ DOMAIN queue = 1 .. Len(queue)
  BY LenProperties
<1>2. /\ before \in Seq(S) /\ Len(before) = n - 1 /\ \A i \in 1 .. n - 1 : before[i] = queue[i]
  BY <1>1, SubSeqProperties
<1>3. /\ after \in Seq(S) /\ Len(after) = Len(queue) - n
      /\ \A i \in 1 .. Len(queue) - n : after[i] = queue[n + i]
  BY <1>1, SubSeqProperties
<1>. HIDE DEF before, after
<1>4. /\ before \o after \in Seq(S) /\ Len(before \o after) = Len(queue) - 1
      /\ \A i \in 1 .. Len(queue) - 1 : (before \o after)[i] = IF i < n THEN before[i] ELSE after[i - n + 1]
  <2>1. /\ before \o after \in Seq(S) /\ Len(before \o after) = (n - 1) + (Len(queue) - n)
        /\ \A i \in 1 .. (n - 1) + (Len(queue) - n) :
             (before \o after)[i] = IF i <= n - 1 THEN before[i] ELSE after[i - (n - 1)]
    <3>1. /\ before \o after \in Seq(S) /\ Len(before \o after) = Len(before) + Len(after)
          /\ \A i \in 1 .. Len(before) + Len(after) :
               (before \o after)[i] = IF i <= Len(before) THEN before[i] ELSE after[i - Len(before)]
      BY <1>2, <1>3, ConcatProperties
    <3>. QED
      BY <1>2, <1>3, <3>1
  <2>2. (n - 1) + (Len(queue) - n) = Len(queue) - 1
    BY <1>1
  <2>3. \A i \in 1 .. Len(queue) - 1 : (i <= n - 1 <=> i < n) /\ i - (n - 1) = i - n + 1
    BY <1>1
  <2>. QED
    BY <2>1, <2>2, <2>3
<1>5. DOMAIN (before \o after) = 1 .. Len(queue) - 1
  BY <1>4, LenProperties
<1>6. ASSUME NEW i \in DOMAIN queue, queue[i].k \in kinds, queue[n].k \notin kinds
      PROVE  Has(before \o after, kinds)
  <2>1. CASE i < n
    <3>1. i \in 1 .. Len(queue) - 1 /\ (before \o after)[i] = queue[i]
      BY <1>1, <1>2, <1>4, <2>1
    <3>. QED
      BY <1>5, <1>6, <3>1 DEF Has
  <2>2. CASE i > n
    <3>1. i - 1 \in 1 .. Len(queue) - 1 /\ (before \o after)[i - 1] = after[i - n]
      <4>1. i - 1 \in 1 .. Len(queue) - 1 /\ ~(i - 1 < n) /\ i - 1 - n + 1 = i - n
        BY <1>1, <2>2
      <4>. QED
        BY ONLY <1>4, <4>1
    <3>2. after[i - n] = queue[i]
      <4>1. i - n \in 1 .. Len(queue) - n /\ n + (i - n) = i
        BY <1>1, <2>2
      <4>2. after[i - n] = queue[n + (i - n)]
        BY ONLY <1>3, <4>1
      <4>. QED
        BY ONLY <4>1, <4>2
    <3>. QED
      BY <1>5, <1>6, <3>1, <3>2 DEF Has
  <2>. QED
    BY <1>1, <1>6, <2>1, <2>2
<1>. QED
  BY <1>4, <1>6 DEF Has, RemoveAt, before, after

LEMMA HasWaits ==
  ASSUME NEW queue \in Seq(Jobs), NEW n \in DOMAIN queue, NEW kinds
  PROVE  /\ [queue EXCEPT ![n].waits = TRUE] \in Seq(Jobs)
         /\ Has(queue, kinds) => Has([queue EXCEPT ![n].waits = TRUE], kinds)
<1>. DEFINE x == [queue[n] EXCEPT !.waits = TRUE]
            new == [queue EXCEPT ![n] = x]
<1>1. n \in 1 .. Len(queue) /\ DOMAIN queue = 1 .. Len(queue)
  BY LenProperties
<1>2. queue[n] \in Jobs
  BY <1>1, ElementOfSeq
<1>3. x \in Jobs /\ x.k = queue[n].k
  BY <1>2 DEF Jobs
<1>. HIDE DEF x
<1>4. new \in Seq(Jobs)
  BY <1>1, <1>3, ExceptSeq
<1>5. DOMAIN new = DOMAIN queue /\ \A i \in DOMAIN queue : new[i].k = queue[i].k
  BY <1>3
<1>. QED
  BY <1>4, <1>5 DEF Has, x

-----------------------------------------------------------------------------
(* The messages.                                                           *)
LEMMA MessageTypes ==
  /\ Empty \in Messages
  /\ \A kind \in {"up", "quit", "down", "start", "connect", "stop", "fallback"}, ok \in BOOLEAN :
       Message(kind, ok) \in Messages /\ Message(kind, ok).k = kind
  /\ \A state \in Up : Status(state) \in Messages
<1>1. 0 \in 0 .. MaxActs
  BY TrayAssumption
<1>. QED
  BY <1>1 DEF Empty, Message, Status, Messages, Up

(* The four parts that make up the invariant.                              *)
HostOK ==
  /\ mode \in Modes /\ host \in {"absent", "stopped", "starting", "stopping"} \cup Up
  /\ stopQueued \in BOOLEAN /\ run \in 0..MaxRuns
QueuesOK ==
  /\ calls \in Seq(Calls) /\ inbox \in Seq(Messages) /\ jobs \in Seq(Jobs)
  /\ held \in [Threads -> Messages] /\ linked \in BOOLEAN
TrayOK ==
  /\ tray \in {"closed", "open"} /\ connected \in BOOLEAN /\ busy \in BOOLEAN /\ connecting \in BOOLEAN
  /\ dialogs \subseteq {"confirm", "alert"} /\ menuItems \subseteq {"pause", "resume", "scan", "exit"}
  /\ status \in Up \cup {"none"} /\ service \in {"unknown", "stopped", "starting", "stopping"} \cup Up
  /\ pending \subseteq Calls /\ restarts \in 0..MaxRestarts
IInv == TypeOK /\ NothingLeft /\ BusyMeansWork

LEMMA Parts == TypeOK <=> HostOK /\ QueuesOK /\ TrayOK /\ acts \in 0..MaxActs
BY DEF TypeOK, HostOK, QueuesOK, TrayOK

(* The upkeep of the timer (timerCallback).                                *)
LEMMA UpkeepStep ==
  ASSUME TypeOK, NEW queue \in Seq(Messages), NEW idle \in BOOLEAN, Upkeep(queue, idle)
  PROVE  /\ HostOK' /\ inbox' \in Seq(Messages) /\ jobs' \in Seq(Jobs)
         /\ service' \in {"unknown", "stopped", "starting", "stopping"} \cup Up
         /\ connecting' \in BOOLEAN /\ restarts' \in 0..MaxRestarts
         /\ \A kinds : (Has(queue, kinds) => Has(inbox', kinds)) /\ (Has(jobs, kinds) => Has(jobs', kinds))
<1>0. jobs \in Seq(Jobs)
  BY DEF TypeOK
<1>1. HostOK'
  <2>1. HostOK
    BY DEF TypeOK, HostOK
  <2>2. CASE UNCHANGED <<hostVars, restarts>>
    BY <2>1, <2>2 DEF HostOK, hostVars
  <2>3. CASE run < MaxRuns /\ Starts
    BY <2>1, <2>3, TrayAssumption DEF HostOK, Starts
  <2>. QED
    BY <2>2, <2>3 DEF Upkeep
<1>2. service' \in {"unknown", "stopped", "starting", "stopping"} \cup Up
  BY DEF TypeOK, Upkeep
<1>3. connecting' \in BOOLEAN
  BY DEF TypeOK, Upkeep
<1>4. restarts' \in 0..MaxRestarts
  BY TrayAssumption DEF TypeOK, Upkeep
<1>5. inbox' = queue \/ inbox' = Append(queue, Message("quit", TRUE))
  BY DEF Upkeep, Quit
<1>6. jobs' = jobs \/ jobs' = Append(jobs, [k |-> "connect", waits |-> FALSE])
  BY DEF Upkeep, NewJob
<1>7. [k |-> "connect", waits |-> FALSE] \in Jobs
  BY DEF Jobs
<1>8. inbox' \in Seq(Messages) /\ \A kinds : Has(queue, kinds) => Has(inbox', kinds)
  <2>. DEFINE m == Message("quit", TRUE)
  <2>1. m \in Messages
    BY MessageTypes
  <2>. HIDE DEF m
  <2>2. Append(queue, m) \in Seq(Messages) /\ \A kinds : Has(queue, kinds) => Has(Append(queue, m), kinds)
    BY <2>1, HasAppend
  <2>. QED
    BY <1>5, <2>2 DEF m
<1>9. jobs' \in Seq(Jobs) /\ \A kinds : Has(jobs, kinds) => Has(jobs', kinds)
  <2>. DEFINE j == [k |-> "connect", waits |-> FALSE]
  <2>. HIDE DEF j
  <2>1. Append(jobs, j) \in Seq(Jobs) /\ \A kinds : Has(jobs, kinds) => Has(Append(jobs, j), kinds)
    BY <1>0, <1>7, HasAppend DEF j
  <2>. QED
    BY <1>0, <1>6, <2>1 DEF j
<1>. QED
  BY <1>1, <1>2, <1>3, <1>4, <1>8, <1>9

(* A command on its way (ControlClient::send).                             *)
LEMMA SendStep ==
  ASSUME TypeOK, NEW cmd \in Actions, acts' \in 0..MaxActs, SendCommand(cmd)
  PROVE  /\ calls' \in Seq(Calls) /\ held' = held /\ linked' = linked
         /\ pending' \subseteq Calls /\ pending \subseteq pending'
         /\ busy' \in BOOLEAN
         /\ ~busy' \/ \E c \in pending' : c.cmd \in Actions
<1>. DEFINE c == [id |-> acts', cmd |-> cmd]
<1>1. c \in Calls /\ c.cmd \in Actions
  BY DEF Calls
<1>2. calls' = calls \/ calls' = Append(calls, c)
  BY DEF SendCommand
<1>3. calls' \in Seq(Calls)
  <2>. HIDE DEF c
  <2>1. calls \in Seq(Calls)
    BY DEF TypeOK
  <2>2. Append(calls, c) \in Seq(Calls)
    BY <1>1, <2>1, HasAppend
  <2>. QED
    BY <1>2, <2>1, <2>2
<1>4. CASE linked
  BY <1>1, <1>3, <1>4 DEF SendCommand, TypeOK
<1>5. CASE ~linked
  BY <1>3, <1>5 DEF SendCommand, TypeOK
<1>. QED
  BY <1>4, <1>5

(* What a click does (TrayMenu, StatusWindow).                             *)
LEMMA PerformStep ==
  ASSUME TypeOK, NEW c \in {"pause", "resume", "scan"}, acts' \in 0..MaxActs, Perform(c)
  PROVE  /\ calls' \in Seq(Calls) /\ held' = held /\ linked' = linked
         /\ pending' \subseteq Calls /\ pending \subseteq pending'
         /\ busy' \in BOOLEAN /\ jobs' \in Seq(Jobs)
         /\ \A kinds : Has(jobs, kinds) => Has(jobs', kinds)
         /\ ~busy' \/ (busy' = busy) \/ (\E d \in pending' : d.cmd \in Actions) \/ Has(jobs', {"start", "stop"})
<1>1. c \in Actions
  BY DEF Actions
<1>2. calls \in Seq(Calls) /\ jobs \in Seq(Jobs) /\ pending \subseteq Calls /\ busy \in BOOLEAN
  BY DEF TypeOK
<1>3. CASE SendCommand(c) /\ UNCHANGED jobs
  BY <1>1, <1>2, <1>3, SendStep
<1>4. CASE BackgroundStart /\ UNCHANGED <<pending, channel>>
  <2>1. jobs' = Append(jobs, [k |-> "start", waits |-> FALSE])
    BY <1>4 DEF BackgroundStart, NewJob
  <2>2. [k |-> "start", waits |-> FALSE] \in Jobs
    BY DEF Jobs
  <2>3. jobs' \in Seq(Jobs) /\ (\A kinds : Has(jobs, kinds) => Has(jobs', kinds)) /\ Has(jobs', {"start", "stop"})
    BY <1>2, <2>1, <2>2, HasAppend
  <2>. QED
    BY <1>2, <1>4, <2>3 DEF BackgroundStart, channel
<1>5. CASE UNCHANGED <<pending, channel, jobs, busy>>
  BY <1>2, <1>5 DEF channel
<1>. QED
  BY <1>3, <1>4, <1>5 DEF Perform

-----------------------------------------------------------------------------
(* Every step keeps the types.                                             *)
LEMMA ActsStep ==
  ASSUME acts \in 0..MaxActs, [Next]_vars
  PROVE  acts' \in 0..MaxActs
<1>1. CASE UNCHANGED acts
  BY <1>1
<1>2. CASE Acts
  BY <1>2, TrayAssumption DEF Acts
<1>. QED
  BY <1>1, <1>2
   DEF Next, Host, Job, User, Handle, vars, HostUp, HostStops, HostDown, Crash, Recovers,
       Uninstalled, PassPublishes, OtherChanges, OtherStops, Serve, Sends, Connect, StartService,
       StopService, WaitEnds, Launch, ShowMenu, MenuTimer, MenuExit, DismissMenu, ExitAndStop,
       CancelExit, DismissAlert, CloseRequested, ClickWindow, ClickMenu, Timer, ControlConnected,
       ControlDisconnected, StatusPushed, ReplyReceived, Connected, ServiceStarted, ServiceStopped,
       Shutdown, hostVars, channel, control, shown

LEMMA HostStep ==
  ASSUME TypeOK, NothingLeft, [Next]_vars
  PROVE  HostOK'
<1>0. HostOK
  BY Parts
<1>1. CASE UNCHANGED hostVars
  BY <1>0, <1>1 DEF HostOK, hostVars
<1>2. CASE HostUp
  BY <1>0, <1>2 DEF HostOK, HostUp, Up
<1>3. CASE HostStops
  BY <1>0, <1>3 DEF HostOK, HostStops
<1>4. CASE HostDown
  BY <1>0, <1>4 DEF HostOK, HostDown
<1>5. CASE Crash
  BY <1>0, <1>5 DEF HostOK, Crash
<1>6. CASE Recovers
  BY <1>0, <1>6, TrayAssumption DEF HostOK, Recovers, Starts
<1>7. CASE Uninstalled
  BY <1>0, <1>7 DEF HostOK, Uninstalled
<1>8. CASE OtherChanges
  BY <1>0, <1>8 DEF HostOK, OtherChanges, Up
<1>9. CASE OtherStops
  BY <1>0, <1>9 DEF HostOK, OtherStops
<1>10. CASE Serve
  <2>1. mode' = mode /\ run' = run /\ host' \in Up
    BY <1>10 DEF Serve, Up
  <2>2. stopQueued' = (stopQueued \/ Head(calls).cmd = "stop")
    BY <1>10 DEF Serve
  <2>3. stopQueued' \in BOOLEAN
    BY <2>2
  <2>. QED
    BY <1>0, <2>1, <2>3 DEF HostOK
<1>11. ASSUME NEW i \in 1..2, StartService(i) PROVE HostOK'
  BY <1>0, <1>11, TrayAssumption DEF HostOK, StartService, Starts, hostVars
<1>12. ASSUME NEW i \in 1..2, StopService(i) PROVE HostOK'
  BY <1>0, <1>12 DEF HostOK, StopService
<1>13. CASE Launch
  <2>1. CASE mode = "service"
    BY <1>0, <1>13, <2>1 DEF HostOK, Launch, hostVars
  <2>2. CASE mode # "service"
    <3>1. mode = "portable"
      BY <1>0, <2>2, TrayAssumption DEF HostOK
    <3>2. run < MaxRuns /\ Starts
      BY <1>13, <2>2, <3>1 DEF Launch, NothingLeft
    <3>. QED
      BY <1>0, <3>2, TrayAssumption DEF HostOK, Starts
  <2>. QED
    BY <2>1, <2>2
<1>14. CASE Timer
  BY <1>14, UpkeepStep DEF Timer, TypeOK
<1>15. CASE ServiceStarted
  BY <1>15, UpkeepStep, HasTail DEF ServiceStarted, Handling, TypeOK
<1>16. CASE Shutdown
  BY <1>0, <1>16 DEF HostOK, Shutdown
<1>. QED
  BY <1>1, <1>2, <1>3, <1>4, <1>5, <1>6, <1>7, <1>8, <1>9, <1>10, <1>11, <1>12, <1>13, <1>14, <1>15, <1>16
   DEF Next, Host, Job, User, Handle, vars, PassPublishes, Sends, Connect, WaitEnds, ShowMenu,
       MenuTimer, MenuExit, DismissMenu, ExitAndStop, CancelExit, DismissAlert, CloseRequested,
       ClickWindow, ClickMenu, ControlConnected, ControlDisconnected, StatusPushed, ReplyReceived,
       Connected, ServiceStopped, hostVars, channel, control, shown

(* The end of a background job, and a job that begins to wait.             *)
LEMMA EndsStep ==
  ASSUME TypeOK, NEW i \in Running, NEW ok \in BOOLEAN, Ends(i, ok)
  PROVE  /\ jobs' \in Seq(Jobs) /\ inbox' \in Seq(Messages)
         /\ \A kinds : Has(inbox, kinds) => Has(inbox', kinds)
         /\ \A kinds : Has(jobs, kinds) => Has(jobs', kinds) \/ Has(inbox', kinds)
<1>1. i \in DOMAIN jobs /\ jobs \in Seq(Jobs) /\ inbox \in Seq(Messages)
  BY DEF Running, TypeOK
<1>2. jobs[i] \in Jobs
  BY <1>1, ElementOfSeq, LenProperties
<1>3. Message(jobs[i].k, ok) \in Messages /\ Message(jobs[i].k, ok).k = jobs[i].k
  BY <1>2, MessageTypes DEF Jobs
<1>4. jobs' = RemoveAt(jobs, i) /\ inbox' = Append(inbox, Message(jobs[i].k, ok))
  BY DEF Ends
<1>5. jobs' \in Seq(Jobs) /\ \A kinds : Has(jobs, kinds) /\ jobs[i].k \notin kinds => Has(jobs', kinds)
  BY <1>1, <1>4, HasRemoveAt
<1>6. inbox' \in Seq(Messages) /\ \A kinds : Has(inbox, kinds) \/ jobs[i].k \in kinds => Has(inbox', kinds)
  BY <1>1, <1>3, <1>4, HasAppend
<1>. QED
  BY <1>5, <1>6

LEMMA WaitsStep ==
  ASSUME TypeOK, NEW i \in Running, Waits(i)
  PROVE  /\ jobs' \in Seq(Jobs) /\ inbox' = inbox /\ \A kinds : Has(jobs, kinds) => Has(jobs', kinds)
<1>1. i \in DOMAIN jobs /\ jobs \in Seq(Jobs)
  BY DEF Running, TypeOK
<1>2. jobs' = [jobs EXCEPT ![i].waits = TRUE] /\ inbox' = inbox
  BY DEF Waits
<1>. QED
  BY <1>1, <1>2, HasWaits

(* A new job, and the message that ends the tray.                          *)
LEMMA NewJobStep ==
  ASSUME TypeOK, NEW kind \in {"start", "connect", "stop", "fallback"}
  PROVE  /\ NewJob(kind) \in Seq(Jobs)
         /\ \A kinds : Has(jobs, kinds) \/ kind \in kinds => Has(NewJob(kind), kinds)
<1>1. [k |-> kind, waits |-> FALSE] \in Jobs /\ [k |-> kind, waits |-> FALSE].k = kind /\ jobs \in Seq(Jobs)
  BY DEF Jobs, TypeOK
<1>. QED
  BY <1>1, HasAppend DEF NewJob

LEMMA QuitStep ==
  ASSUME NEW queue \in Seq(Messages)
  PROVE  /\ Quit(queue) \in Seq(Messages)
         /\ \A kinds : Has(queue, kinds) \/ "quit" \in kinds => Has(Quit(queue), kinds)
<1>. DEFINE m == Message("quit", TRUE)
<1>1. m \in Messages /\ m.k = "quit"
  BY MessageTypes
<1>. HIDE DEF m
<1>2. /\ Append(queue, m) \in Seq(Messages)
      /\ \A kinds : Has(queue, kinds) \/ m.k \in kinds => Has(Append(queue, m), kinds)
  BY <1>1, HasAppend
<1>. QED
  BY <1>1, <1>2 DEF Quit, m

(* The message that is handled.                                            *)
LEMMA HeadStep ==
  ASSUME TypeOK, inbox # <<>>
  PROVE  /\ Head(inbox) \in Messages /\ Tail(inbox) \in Seq(Messages)
         /\ \A kinds : Has(inbox, kinds) /\ Head(inbox).k \notin kinds => Has(Tail(inbox), kinds)
BY HasTail DEF TypeOK

LEMMA ConnectStep ==
  ASSUME TypeOK, NEW up \in BOOLEAN,
         inbox' = inbox \o (IF up THEN <<Message("up", TRUE)>> ELSE <<>>) \o <<Message("connect", TRUE)>>
  PROVE  inbox' \in Seq(Messages) /\ \A kinds : Has(inbox, kinds) => Has(inbox', kinds)
<1>. DEFINE u == Message("up", TRUE)
            c == Message("connect", TRUE)
            queue == IF up THEN Append(inbox, u) ELSE inbox
<1>1. u \in Messages /\ c \in Messages /\ inbox \in Seq(Messages)
  BY MessageTypes DEF TypeOK
<1>. HIDE DEF u, c
<1>2. queue \in Seq(Messages) /\ \A kinds : Has(inbox, kinds) => Has(queue, kinds)
  BY <1>1, HasAppend
<1>3. queue = inbox \o (IF up THEN <<u>> ELSE <<>>)
  BY <1>1, AppendIsConcat, ConcatEmptySeq
<1>. HIDE DEF queue
<1>4. Append(queue, c) = queue \o <<c>>
  BY <1>1, <1>2, AppendIsConcat
<1>5. inbox' = Append(queue, c)
  BY <1>3, <1>4 DEF u, c
<1>6. Append(queue, c) \in Seq(Messages) /\ \A kinds : Has(queue, kinds) => Has(Append(queue, c), kinds)
  BY <1>1, <1>2, HasAppend
<1>. QED
  BY <1>2, <1>5, <1>6

LEMMA DropLinkStep ==
  ASSUME TypeOK, DropLink, UNCHANGED jobs
  PROVE  QueuesOK' /\ \A kinds : Has(inbox, kinds) => Has(inbox', kinds)
<1>1. Message("down", FALSE) \in Messages /\ Empty \in Messages
  BY MessageTypes
<1>2. inbox' = inbox \/ inbox' = Append(inbox, Message("down", FALSE))
  BY DEF DropLink
<1>3. inbox' \in Seq(Messages) /\ \A kinds : Has(inbox, kinds) => Has(inbox', kinds)
  <2>. DEFINE m == Message("down", FALSE)
  <2>. HIDE DEF m
  <2>1. inbox \in Seq(Messages)
    BY DEF TypeOK
  <2>2. Append(inbox, m) \in Seq(Messages) /\ \A kinds : Has(inbox, kinds) => Has(Append(inbox, m), kinds)
    BY <1>1, <2>1, HasAppend DEF m
  <2>. QED
    BY <1>2, <2>1, <2>2 DEF m
<1>4. held' \in [Threads -> Messages] /\ linked' = FALSE /\ calls' = <<>>
  BY <1>1 DEF DropLink
<1>5. jobs' \in Seq(Jobs) /\ <<>> \in Seq(Calls)
  BY DEF TypeOK
<1>. QED
  BY <1>3, <1>4, <1>5 DEF QueuesOK

LEMMA QueuesStep ==
  ASSUME TypeOK, acts' \in 0..MaxActs, [Next]_vars
  PROVE  QueuesOK'
<1>0. QueuesOK /\ host \in {"absent", "stopped", "starting", "stopping"} \cup Up
  BY Parts DEF HostOK
<1>. USE DEF QueuesOK
<1>1. CASE UNCHANGED <<channel, inbox, jobs>>
  BY <1>0, <1>1 DEF channel
<1>2. CASE HostStops
  BY <1>2, DropLinkStep DEF HostStops
<1>3. CASE Crash
  BY <1>3, DropLinkStep DEF Crash
<1>4. CASE PassPublishes
  <2>1. Status(host) \in Messages
    BY <1>4, MessageTypes DEF PassPublishes
  <2>. QED
    BY <1>0, <1>4, <2>1 DEF PassPublishes
<1>5. CASE OtherChanges
  <2>1. Status(host') \in Messages /\ Empty \in Messages
    BY <1>5, MessageTypes DEF OtherChanges, Up
  <2>. QED
    BY <1>0, <1>5, <2>1 DEF OtherChanges
<1>6. CASE Serve
  <2>1. Head(calls) \in Calls /\ Tail(calls) \in Seq(Calls)
    BY <1>0, <1>6, HasTail DEF Serve
  <2>2. host' \in Up
    BY <1>6 DEF Serve, Up
  <2>3. [k |-> "reply", id |-> Head(calls).id, ok |-> ~(Head(calls).cmd = "scan" /\ host = "paused"),
         state |-> host'] \in Messages
    BY <2>1, <2>2 DEF Calls, Messages
  <2>. QED
    BY <1>0, <1>6, <2>1, <2>3 DEF Serve
<1>7. ASSUME NEW t \in Threads, Sends(t) PROVE QueuesOK'
  <2>1. held[t] \in Messages /\ Empty \in Messages
    BY <1>0, MessageTypes
  <2>2. Append(inbox, held[t]) \in Seq(Messages)
    BY <1>0, <2>1, HasAppend
  <2>. QED
    BY <1>0, <1>7, <2>1, <2>2 DEF Sends
<1>8. ASSUME NEW i \in 1..2, Connect(i) PROVE QueuesOK'
  <2>1. i \in DOMAIN jobs
    BY <1>8 DEF Connect, Running
  <2>2. jobs' \in Seq(Jobs)
    BY <1>0, <1>8, <2>1, HasRemoveAt DEF Connect
  <2>3. inbox' \in Seq(Messages)
    BY <1>8, ConnectStep DEF Connect
  <2>4. linked' \in BOOLEAN
    BY <1>8 DEF Connect
  <2>5. held' = held /\ calls' = calls
    BY <1>8 DEF Connect
  <2>. QED
    BY <1>0, <2>2, <2>3, <2>4, <2>5
<1>9. ASSUME NEW i \in 1..2, StartService(i) PROVE QueuesOK'
  <2>0. held' = held /\ linked' = linked /\ calls' = calls /\ i \in Running
    BY <1>9 DEF StartService, channel
  <2>1. CASE Waits(i)
    BY <1>0, <2>0, <2>1, WaitsStep
  <2>2. CASE Ends(i, host \in Up \cup {"starting", "stopping"})
    <3>1. (host \in Up \cup {"starting", "stopping"}) \in BOOLEAN
      OBVIOUS
    <3>. QED
      BY <1>0, <2>0, <2>2, <3>1, EndsStep
  <2>. QED
    BY <1>9, <2>1, <2>2 DEF StartService
<1>10. ASSUME NEW i \in 1..2, StopService(i) PROVE QueuesOK'
  <2>1. CASE Waits(i)
    BY <1>0, <1>10, <2>1, WaitsStep DEF StopService, channel
  <2>2. CASE Ends(i, host = "stopped")
    BY <1>0, <1>10, <2>2, EndsStep DEF StopService, channel
  <2>. QED
    BY <1>10, <2>1, <2>2 DEF StopService
<1>11. ASSUME NEW i \in 1..2, WaitEnds(i) PROVE QueuesOK'
  BY <1>0, <1>11, EndsStep DEF WaitEnds, channel
<1>12. CASE Launch
  <2>1. NewJob("start") \in Seq(Jobs) /\ NewJob("connect") \in Seq(Jobs)
        /\ <<[k |-> "connect", waits |-> FALSE]>> \in Seq(Jobs)
    BY NewJobStep DEF Jobs
  <2>2. jobs' = NewJob("connect") \/ jobs' = NewJob("start") \o <<[k |-> "connect", waits |-> FALSE]>>
        \/ jobs' = jobs \o <<[k |-> "connect", waits |-> FALSE]>>
    BY <1>12 DEF Launch
  <2>3. jobs' \in Seq(Jobs)
    BY <1>0, <2>1, <2>2, ConcatProperties
  <2>. QED
    BY <1>0, <1>12, <2>3 DEF Launch, channel
<1>13. CASE ExitAndStop
  <2>1. CASE inbox' = Quit(inbox) /\ UNCHANGED <<channel, pending, busy, jobs>>
    BY <1>0, <2>1, QuitStep DEF channel
  <2>2. CASE SendCommand("stop") /\ UNCHANGED <<inbox, jobs>>
    BY <1>0, <2>2, SendStep DEF Actions
  <2>3. CASE jobs' = NewJob("stop") /\ UNCHANGED <<channel, pending, inbox>>
    BY <1>0, <2>3, NewJobStep DEF channel
  <2>. QED
    BY <1>13, <2>1, <2>2, <2>3 DEF ExitAndStop
<1>14. CASE DismissAlert
  BY <1>0, <1>14, QuitStep DEF DismissAlert, channel
<1>15. CASE CloseRequested
  BY <1>0, <1>15, QuitStep DEF CloseRequested, channel
<1>16. ASSUME NEW c \in {"pause", "resume", "scan"}, ClickWindow(c) \/ ClickMenu(c) PROVE QueuesOK'
  BY <1>0, <1>16, PerformStep DEF ClickWindow, ClickMenu
<1>17. CASE Timer
  BY <1>0, <1>17, UpkeepStep DEF Timer, channel, TypeOK
<1>18. CASE ControlConnected
  <2>1. [id |-> 0, cmd |-> "status"] \in Calls
    BY TrayAssumption DEF Calls
  <2>2. Append(calls, [id |-> 0, cmd |-> "status"]) \in Seq(Calls)
    BY <1>0, <2>1, HasAppend
  <2>. QED
    BY <1>0, <1>18, <2>2, HeadStep DEF ControlConnected, Handling
<1>19. CASE ControlDisconnected
  <2>1. jobs' = jobs \/ jobs' = NewJob("fallback")
    BY <1>19 DEF ControlDisconnected
  <2>. QED
    BY <1>0, <1>19, <2>1, NewJobStep, HeadStep DEF ControlDisconnected, Handling, channel
<1>20. CASE StatusPushed \/ Connected
  BY <1>0, <1>20, HeadStep DEF StatusPushed, Connected, Handling, channel
<1>21. CASE ReplyReceived
  <2>1. jobs' = jobs \/ jobs' = NewJob("fallback")
    BY <1>21 DEF ReplyReceived
  <2>2. inbox' = Tail(inbox) \/ inbox' = Quit(Tail(inbox))
    BY <1>21 DEF ReplyReceived
  <2>3. Tail(inbox) \in Seq(Messages)
    BY <1>21, HeadStep DEF ReplyReceived, Handling
  <2>. QED
    BY <1>0, <1>21, <2>1, <2>2, <2>3, NewJobStep, QuitStep DEF ReplyReceived, channel
<1>22. CASE ServiceStarted
  <2>1. Tail(inbox) \in Seq(Messages)
    BY <1>22, HeadStep DEF ServiceStarted, Handling
  <2>. QED
    BY <1>0, <1>22, <2>1, UpkeepStep DEF ServiceStarted, channel
<1>23. CASE ServiceStopped
  <2>1. Tail(inbox) \in Seq(Messages)
    BY <1>23, HeadStep DEF ServiceStopped, Handling
  <2>2. inbox' = Tail(inbox) \/ inbox' = Quit(Tail(inbox))
    BY <1>23 DEF ServiceStopped
  <2>. QED
    BY <1>0, <1>23, <2>1, <2>2, QuitStep DEF ServiceStopped, channel
<1>24. CASE Shutdown
  <2>1. held' \in [Threads -> Messages]
    BY <1>0, <1>24, MessageTypes DEF Shutdown
  <2>2. linked' \in BOOLEAN
    BY <1>24 DEF Shutdown
  <2>3. calls' \in Seq(Calls) /\ inbox' \in Seq(Messages) /\ jobs' \in Seq(Jobs)
    BY <1>24 DEF Shutdown
  <2>. QED
    BY <2>1, <2>2, <2>3
<1>. QED
  BY <1>1, <1>2, <1>3, <1>4, <1>5, <1>6, <1>7, <1>8, <1>9, <1>10, <1>11, <1>12, <1>13, <1>14, <1>15,
     <1>16, <1>17, <1>18, <1>19, <1>20, <1>21, <1>22, <1>23, <1>24
   DEF Next, Host, Job, User, Handle, vars, HostUp, HostDown, Recovers, Uninstalled, OtherStops,
       ShowMenu, MenuTimer, MenuExit, DismissMenu, CancelExit, hostVars, channel, control, shown

(* What the menu offers is one of its items.                               *)
LEMMA EnabledType == Enabled \subseteq {"pause", "resume", "scan", "exit"}
BY DEF Enabled

LEMMA TrayStep ==
  ASSUME TypeOK, acts' \in 0..MaxActs, [Next]_vars
  PROVE  TrayOK'
<1>0. TrayOK
  BY Parts
<1>. USE DEF TrayOK
<1>1. CASE UNCHANGED <<tray, control, pending, connecting, restarts, shown>>
  BY <1>0, <1>1 DEF control, shown
<1>2. CASE Launch
  <2>1. service' \in {"unknown", "stopped", "starting", "stopping"} \cup Up
    BY <1>0, <1>2 DEF Launch, TypeOK
  <2>2. busy' \in BOOLEAN
    BY <1>0, <1>2 DEF Launch
  <2>. QED
    BY <1>0, <1>2, <2>1, <2>2 DEF Launch, shown
<1>3. CASE ShowMenu \/ MenuTimer
  <2>1. menuItems' \subseteq {"pause", "resume", "scan", "exit"}
    BY <1>3, EnabledType DEF ShowMenu, MenuTimer
  <2>. QED
    BY <1>0, <1>3, <2>1 DEF ShowMenu, MenuTimer, control
<1>4. CASE MenuExit \/ DismissMenu
  BY <1>0, <1>4 DEF MenuExit, DismissMenu, control
<1>5. CASE ExitAndStop
  <2>1. CASE UNCHANGED <<channel, pending, busy, jobs>>
    BY <1>0, <1>5, <2>1 DEF ExitAndStop
  <2>2. CASE SendCommand("stop")
    BY <1>0, <1>5, <2>2, SendStep DEF ExitAndStop, Actions
  <2>3. CASE busy' = TRUE /\ UNCHANGED <<channel, pending, inbox>>
    BY <1>0, <1>5, <2>3 DEF ExitAndStop
  <2>. QED
    BY <1>5, <2>1, <2>2, <2>3 DEF ExitAndStop
<1>6. CASE CancelExit \/ DismissAlert
  BY <1>0, <1>6 DEF CancelExit, DismissAlert, control
<1>7. ASSUME NEW c \in {"pause", "resume", "scan"}, ClickWindow(c) \/ ClickMenu(c) PROVE TrayOK'
  BY <1>0, <1>7, PerformStep DEF ClickWindow, ClickMenu, shown
<1>8. CASE Timer
  <2>1. service' \in {"unknown", "stopped", "starting", "stopping"} \cup Up /\ connecting' \in BOOLEAN
        /\ restarts' \in 0..MaxRestarts
    BY <1>8, UpkeepStep DEF Timer, TypeOK
  <2>. QED
    BY <1>0, <1>8, <2>1 DEF Timer, shown
<1>9. CASE ControlConnected
  <2>1. [id |-> 0, cmd |-> "status"] \in Calls
    BY TrayAssumption DEF Calls
  <2>2. pending' \subseteq Calls
    BY <1>0, <1>9, <2>1 DEF ControlConnected
  <2>. QED
    BY <1>0, <1>9, <2>2 DEF ControlConnected, shown
<1>10. CASE ControlDisconnected
  <2>1. busy' \in BOOLEAN
    BY <1>10 DEF ControlDisconnected
  <2>. QED
    BY <1>0, <1>10, <2>1 DEF ControlDisconnected, shown
<1>11. CASE StatusPushed \/ ReplyReceived
  <2>1. Head(inbox).state \in Up \cup {"none"}
    BY <1>11, HeadStep DEF StatusPushed, ReplyReceived, Handling, Messages
  <2>2. busy' \in BOOLEAN
    BY <1>0, <1>11 DEF StatusPushed, ReplyReceived
  <2>3. pending' \subseteq Calls
    BY <1>0, <1>11 DEF StatusPushed, ReplyReceived
  <2>4. status' \in Up \cup {"none"}
    BY <1>0, <1>11, <2>1 DEF StatusPushed, ReplyReceived
  <2>. QED
    BY <1>0, <1>11, <2>2, <2>3, <2>4 DEF StatusPushed, ReplyReceived, shown
<1>12. CASE Connected
  BY <1>0, <1>12 DEF Connected, control, shown
<1>13. CASE ServiceStarted
  <2>1. Tail(inbox) \in Seq(Messages)
    BY <1>13, HeadStep DEF ServiceStarted, Handling
  <2>2. service' \in {"unknown", "stopped", "starting", "stopping"} \cup Up /\ connecting' \in BOOLEAN
        /\ restarts' \in 0..MaxRestarts
    BY <1>13, <2>1, UpkeepStep DEF ServiceStarted
  <2>. QED
    BY <1>0, <1>13, <2>2 DEF ServiceStarted, shown
<1>14. CASE ServiceStopped
  BY <1>0, <1>14 DEF ServiceStopped, control
<1>15. CASE Shutdown
  <2>1. tray' = "closed" /\ connected' = FALSE /\ busy' = FALSE /\ connecting' = FALSE
    BY <1>15 DEF Shutdown
  <2>2. status' = "none" /\ service' = "unknown" /\ pending' = {} /\ restarts' = 0 /\ menuItems' = {} /\ dialogs' = {}
    BY <1>15 DEF Shutdown
  <2>3. 0 \in 0..MaxRestarts
    BY TrayAssumption
  <2>. QED
    BY <2>1, <2>2, <2>3
<1>. QED
  BY <1>1, <1>2, <1>3, <1>4, <1>5, <1>6, <1>7, <1>8, <1>9, <1>10, <1>11, <1>12, <1>13, <1>14, <1>15
   DEF Next, Host, Job, User, Handle, vars, HostUp, HostStops, HostDown, Crash, Recovers,
       Uninstalled, PassPublishes, OtherChanges, OtherStops, Serve, Sends, Connect, StartService,
       StopService, WaitEnds, CloseRequested, hostVars, channel, control, shown

(* A closed tray leaves nothing (shutdown).                                *)
LEMMA NothingLeftStep ==
  ASSUME TypeOK, NothingLeft, [Next]_vars
  PROVE  NothingLeft'
<1>. USE DEF NothingLeft
<1>1. CASE tray = "open" /\ ~Shutdown
  BY <1>1
   DEF Next, Host, Job, User, Handle, vars, HostUp, HostStops, HostDown, Crash, Recovers,
       Uninstalled, PassPublishes, OtherChanges, OtherStops, Serve, Sends, Connect, StartService,
       StopService, WaitEnds, Launch, ShowMenu, MenuTimer, MenuExit, DismissMenu, ExitAndStop,
       CancelExit, DismissAlert, CloseRequested, ClickWindow, ClickMenu, Timer, ControlConnected,
       ControlDisconnected, StatusPushed, ReplyReceived, Connected, ServiceStarted, ServiceStopped,
       hostVars, channel, control, shown
<1>2. CASE Shutdown
  BY <1>2 DEF Shutdown
<1>3. CASE tray # "open"
  <2>1. jobs = <<>> /\ menuItems = {} /\ dialogs = {} /\ (mode = "portable" => host = "stopped")
    BY <1>3 DEF TypeOK
  <2>2. Running = {}
    BY <2>1 DEF Running
  <2>3. CASE UNCHANGED <<mode, tray, jobs, menuItems, dialogs>> /\ (mode = "portable" => host' = host)
    BY <2>1, <2>3
  <2>4. CASE Launch
    BY <2>4 DEF Launch
  <2>5. CASE Host
    BY <2>1, <2>3, <2>5
    DEF Host, hostVars, shown, Up, HostUp, HostStops, HostDown, Crash, Recovers, Uninstalled, PassPublishes, OtherChanges,
        OtherStops, Serve, Sends, Starts
  <2>6. ~(\E i \in 1..2 : Job(i)) /\ ~Timer /\ ~Handle
    BY <1>3, <2>2
    DEF Job, Connect, StartService, StopService, WaitEnds, Timer, Handle, Handling, ControlConnected, ControlDisconnected,
        StatusPushed, ReplyReceived, Connected, ServiceStarted, ServiceStopped, Shutdown
  <2>7. CASE User /\ ~Launch
    BY <1>3, <2>1, <2>7
    DEF User, ShowMenu, MenuTimer, MenuExit, DismissMenu, ExitAndStop, CancelExit, DismissAlert, CloseRequested, ClickWindow,
        ClickMenu
  <2>8. CASE UNCHANGED vars
    BY <2>3, <2>8 DEF vars, hostVars, shown
  <2>. QED
    BY <2>4, <2>5, <2>6, <2>7, <2>8 DEF Next
<1>. QED
  BY <1>1, <1>2, <1>3

-----------------------------------------------------------------------------
(* Busy, and what will end it.                                             *)
JobKinds == {"start", "stop"}
MessageKinds == {"start", "stop", "quit"}

LEMMA BusyForm ==
  BusyMeansWork <=>
    (busy => \/ \E c \in pending : c.cmd \in Actions
             \/ Has(jobs, JobKinds) \/ Has(inbox, MessageKinds) \/ "alert" \in dialogs)
BY DEF BusyMeansWork, Has, JobKinds, MessageKinds

LEMMA BusyFormNext ==
  ASSUME (busy => \/ \E c \in pending : c.cmd \in Actions
                  \/ Has(jobs, JobKinds) \/ Has(inbox, MessageKinds) \/ "alert" \in dialogs)'
  PROVE  BusyMeansWork'
BY BusyForm, PTL

LEMMA BusyFrame ==
  ASSUME BusyMeansWork, busy' => busy, pending \subseteq pending',
         Has(jobs, JobKinds) => Has(jobs', JobKinds) \/ Has(inbox', MessageKinds),
         Has(inbox, MessageKinds) => Has(inbox', MessageKinds),
         "alert" \in dialogs => "alert" \in dialogs' \/ Has(inbox', MessageKinds)
  PROVE  BusyMeansWork'
BY BusyForm DEF BusyMeansWork, Has, JobKinds, MessageKinds

LEMMA BusyStep ==
  ASSUME TypeOK, BusyMeansWork, acts' \in 0..MaxActs, [Next]_vars
  PROVE  BusyMeansWork'
<1>0. inbox \in Seq(Messages) /\ jobs \in Seq(Jobs) /\ busy \in BOOLEAN
  BY DEF TypeOK
<1>1. ASSUME NEW queue, Has(queue, JobKinds) PROVE Has(queue, MessageKinds)
  BY <1>1 DEF Has, JobKinds, MessageKinds
<1>2. CASE UNCHANGED <<busy, pending, jobs, inbox, dialogs>>
  BY <1>2, BusyFrame
<1>3. CASE HostStops \/ Crash
  BY <1>3, DropLinkStep, BusyFrame DEF HostStops, Crash, control, shown
<1>4. ASSUME NEW t \in Threads, Sends(t) PROVE BusyMeansWork'
  <2>1. held[t] \in Messages
    BY DEF TypeOK
  <2>2. Has(inbox, MessageKinds) => Has(inbox', MessageKinds)
    BY <1>0, <1>4, <2>1, HasAppend DEF Sends
  <2>. QED
    BY <1>4, <2>2, BusyFrame DEF Sends, control, shown
<1>5. ASSUME NEW i \in 1..2, Connect(i) PROVE BusyMeansWork'
  <2>1. i \in DOMAIN jobs /\ jobs[i].k \notin JobKinds /\ jobs' = RemoveAt(jobs, i)
    BY <1>5 DEF Connect, Running, JobKinds
  <2>2. Has(jobs, JobKinds) => Has(jobs', JobKinds)
    BY <1>0, <2>1, HasRemoveAt
  <2>3. linked' \in BOOLEAN
    BY <1>5 DEF Connect
  <2>4. Has(inbox, MessageKinds) => Has(inbox', MessageKinds)
    BY <1>5, <2>3, ConnectStep DEF Connect
  <2>. QED
    BY <1>5, <2>2, <2>4, BusyFrame DEF Connect, control, shown
<1>6. ASSUME NEW i \in 1..2, StartService(i) \/ StopService(i) \/ WaitEnds(i) PROVE BusyMeansWork'
  <2>1. i \in Running /\ UNCHANGED <<busy, pending, dialogs>>
    BY <1>6 DEF StartService, StopService, WaitEnds, control, shown
  <2>2. Waits(i) \/ \E ok \in BOOLEAN : Ends(i, ok)
    <3>1. CASE StartService(i)
      <4>1. (host \in Up \cup {"starting", "stopping"}) \in BOOLEAN
        OBVIOUS
      <4>. QED
        BY <3>1, <4>1 DEF StartService
    <3>2. CASE StopService(i)
      <4>1. (host = "stopped") \in BOOLEAN
        OBVIOUS
      <4>. QED
        BY <3>2, <4>1 DEF StopService
    <3>3. CASE WaitEnds(i)
      BY <3>3 DEF WaitEnds
    <3>. QED
      BY <1>6, <3>1, <3>2, <3>3
  <2>3. /\ Has(jobs, JobKinds) => Has(jobs', JobKinds) \/ Has(inbox', JobKinds)
        /\ Has(inbox, MessageKinds) => Has(inbox', MessageKinds)
    BY <2>1, <2>2, WaitsStep, EndsStep
  <2>. QED
    BY <1>1, <2>1, <2>3, BusyFrame
<1>7. CASE Launch
  <2>. DEFINE c == [k |-> "connect", waits |-> FALSE]
  <2>1. UNCHANGED <<pending, inbox, dialogs>>
    BY <1>7 DEF Launch, shown
  <2>2. c \in Jobs
    BY DEF Jobs
  <2>3. NewJob("start") \in Seq(Jobs) /\ Has(NewJob("start"), JobKinds)
    BY NewJobStep DEF JobKinds
  <2>4. CASE mode = "service" /\ host = "stopped"
    <3>1. jobs' = NewJob("start") \o <<c>>
      BY <1>7, <2>4 DEF Launch
    <3>. HIDE DEF c
    <3>2. jobs' = Append(NewJob("start"), c)
      BY <2>2, <2>3, <3>1, AppendIsConcat
    <3>3. Has(jobs', JobKinds)
      BY <2>2, <2>3, <3>2, HasAppend
    <3>. QED
      BY <3>3, BusyFormNext
  <2>5. CASE mode = "service" /\ host # "stopped"
    <3>1. busy' = FALSE
      BY <1>7, <2>5 DEF Launch
    <3>. QED
      BY <3>1, BusyFormNext
  <2>6. CASE mode # "service"
    <3>1. busy' = busy /\ jobs' = NewJob("connect")
      BY <1>7, <2>6 DEF Launch
    <3>. QED
      BY <2>1, <3>1, NewJobStep, BusyFrame
  <2>. QED
    BY <2>4, <2>5, <2>6
<1>8. CASE MenuExit \/ CancelExit
  <2>1. UNCHANGED <<busy, pending, jobs, inbox>> /\ ("alert" \in dialogs => "alert" \in dialogs')
    BY <1>8 DEF MenuExit, CancelExit, control
  <2>. QED
    BY <2>1, BusyFrame
<1>9. CASE ExitAndStop
  <2>1. CASE inbox' = Quit(inbox)
    <3>1. Has(inbox', MessageKinds)
      BY <1>0, <2>1, QuitStep DEF MessageKinds
    <3>. QED
      BY <3>1, BusyFormNext
  <2>2. CASE SendCommand("stop") /\ UNCHANGED <<inbox, jobs>> /\ linked
    <3>1. ~busy' \/ \E c \in pending' : c.cmd \in Actions
      BY <2>2, SendStep DEF Actions
    <3>. QED
      BY <3>1, BusyFormNext
  <2>3. CASE jobs' = NewJob("stop")
    <3>1. Has(jobs', JobKinds)
      BY <2>3, NewJobStep DEF JobKinds
    <3>. QED
      BY <3>1, BusyFormNext
  <2>. QED
    BY <1>9, <2>1, <2>2, <2>3 DEF ExitAndStop
<1>10. CASE DismissAlert \/ CloseRequested
  <2>1. inbox' = Quit(inbox)
    BY <1>10 DEF DismissAlert, CloseRequested
  <2>2. Has(inbox', MessageKinds)
    BY <1>0, <2>1, QuitStep DEF MessageKinds
  <2>. QED
    BY <2>2, BusyFormNext
<1>11. ASSUME NEW c \in {"pause", "resume", "scan"}, ClickWindow(c) \/ ClickMenu(c) PROVE BusyMeansWork'
  <2>1. Perform(c) /\ inbox' = inbox /\ ("alert" \in dialogs => "alert" \in dialogs')
    BY <1>11 DEF ClickWindow, ClickMenu, shown
  <2>2. /\ pending \subseteq pending' /\ busy' \in BOOLEAN
        /\ Has(jobs, JobKinds) => Has(jobs', JobKinds)
        /\ ~busy' \/ busy' = busy \/ (\E d \in pending' : d.cmd \in Actions) \/ Has(jobs', JobKinds)
    BY <2>1, PerformStep DEF JobKinds
  <2>3. CASE busy' = busy
    BY <2>1, <2>2, <2>3, BusyFrame
  <2>4. CASE ~busy' \/ (\E d \in pending' : d.cmd \in Actions) \/ Has(jobs', JobKinds)
    BY <2>4, BusyFormNext
  <2>. QED
    BY <2>2, <2>3, <2>4
<1>12. CASE Timer
  <2>1. \A kinds : (Has(inbox, kinds) => Has(inbox', kinds)) /\ (Has(jobs, kinds) => Has(jobs', kinds))
    BY <1>0, <1>12, UpkeepStep DEF Timer
  <2>. QED
    BY <1>12, <2>1, BusyFrame DEF Timer, shown
<1>13. CASE ControlConnected \/ StatusPushed \/ Connected
  <2>1. /\ inbox # <<>> /\ inbox' = Tail(inbox) /\ Head(inbox).k \notin MessageKinds
        /\ UNCHANGED <<busy, jobs, dialogs>>
    BY <1>13 DEF ControlConnected, StatusPushed, Connected, Handling, MessageKinds, control, shown
  <2>2. pending \subseteq pending'
    BY <1>13 DEF ControlConnected, StatusPushed, Connected
  <2>. QED
    BY <2>1, <2>2, HeadStep, BusyFrame
<1>14. CASE ControlDisconnected \/ ReplyReceived
  <2>1. /\ inbox # <<>> /\ Head(inbox).k \notin MessageKinds /\ dialogs' = dialogs
        /\ inbox' = Tail(inbox) \/ inbox' = Quit(Tail(inbox))
        /\ jobs' = jobs \/ jobs' = NewJob("fallback")
    BY <1>14 DEF ControlDisconnected, ReplyReceived, Handling, MessageKinds, shown
  <2>2. Has(inbox, MessageKinds) => Has(inbox', MessageKinds)
    BY <2>1, HeadStep, QuitStep
  <2>3. Has(jobs, JobKinds) => Has(jobs', JobKinds)
    BY <2>1, NewJobStep
  <2>4. busy' => busy /\ \A c \in pending : c.cmd \in Actions => c \in pending'
    BY <1>14 DEF ControlDisconnected, ReplyReceived
  <2>5. busy' => \/ \E c \in pending' : c.cmd \in Actions
                 \/ Has(jobs', JobKinds) \/ Has(inbox', MessageKinds) \/ "alert" \in dialogs'
    BY <2>1, <2>2, <2>3, <2>4, BusyForm
  <2>. QED
    BY <2>5, BusyFormNext
<1>15. CASE ServiceStarted \/ Shutdown
  <2>1. busy' = FALSE
    BY <1>15 DEF ServiceStarted, Shutdown
  <2>. QED
    BY <2>1, BusyFormNext
<1>16. CASE ServiceStopped
  <2>1. Tail(inbox) \in Seq(Messages)
    BY <1>16, HeadStep DEF ServiceStopped, Handling
  <2>2. "alert" \in dialogs' \/ inbox' = Quit(Tail(inbox))
    BY <1>16 DEF ServiceStopped
  <2>3. "alert" \in dialogs' \/ Has(inbox', MessageKinds)
    <3>1. "quit" \in MessageKinds => Has(Quit(Tail(inbox)), MessageKinds)
      BY <2>1, QuitStep
    <3>2. "quit" \in MessageKinds
      BY DEF MessageKinds
    <3>. QED
      BY ONLY <2>2, <3>1, <3>2
  <2>. QED
    BY <2>3, BusyFormNext
<1>. QED
  BY <1>2, <1>3, <1>4, <1>5, <1>6, <1>7, <1>8, <1>9, <1>10, <1>11, <1>12, <1>13, <1>14, <1>15, <1>16
   DEF Next, Host, Job, User, Handle, vars, HostUp, HostDown, Recovers, Uninstalled, PassPublishes,
       OtherChanges, OtherStops, Serve, ShowMenu, MenuTimer, DismissMenu, hostVars, channel,
       control, shown

-----------------------------------------------------------------------------
(* IInv is kept by every step of the tray and its host.                    *)
THEOREM Inductive == Spec => []IInv
<1>1. Init => IInv
  <2>. SUFFICES ASSUME Init PROVE IInv
    OBVIOUS
  <2>1. HostOK
    <3>1. mode \in Modes /\ host \in {"stopped", "running"}
      BY DEF Init
    <3>2. run \in 0..MaxRuns
      BY TrayAssumption DEF Init
    <3>3. stopQueued \in BOOLEAN
      BY DEF Init
    <3>. QED
      BY <3>1, <3>2, <3>3 DEF HostOK, Up
  <2>2. QueuesOK
    <3>1. held \in [Threads -> Messages]
      BY MessageTypes DEF Init
    <3>2. linked \in BOOLEAN
      BY DEF Init
    <3>3. calls \in Seq(Calls) /\ inbox \in Seq(Messages) /\ jobs \in Seq(Jobs)
      BY DEF Init
    <3>. QED
      BY <3>1, <3>2, <3>3 DEF QueuesOK
  <2>3. TrayOK
    <3>1. connected \in BOOLEAN /\ busy \in BOOLEAN /\ connecting \in BOOLEAN
      BY DEF Init
    <3>2. /\ tray = "closed" /\ dialogs = {} /\ menuItems = {} /\ status = "none" /\ service = "unknown"
          /\ pending = {} /\ restarts \in 0..MaxRestarts
      BY TrayAssumption DEF Init
    <3>. QED
      BY <3>1, <3>2 DEF TrayOK
  <2>4. acts \in 0..MaxActs
    BY TrayAssumption DEF Init
  <2>5. NothingLeft
    BY DEF Init, NothingLeft
  <2>6. BusyMeansWork
    BY DEF Init, BusyMeansWork
  <2>. QED
    BY <2>1, <2>2, <2>3, <2>4, <2>5, <2>6, Parts DEF IInv
<1>2. IInv /\ [Next]_vars => IInv'
  <2>. SUFFICES ASSUME TypeOK, NothingLeft, BusyMeansWork, [Next]_vars PROVE IInv'
    BY DEF IInv
  <2>1. acts' \in 0..MaxActs
    BY ActsStep DEF TypeOK
  <2>2. HostOK' /\ QueuesOK' /\ TrayOK'
    BY <2>1, HostStep, QueuesStep, TrayStep
  <2>3. TypeOK'
    BY <2>1, <2>2 DEF TypeOK, HostOK, QueuesOK, TrayOK
  <2>4. NothingLeft' /\ BusyMeansWork'
    BY <2>1, NothingLeftStep, BusyStep
  <2>. QED
    BY <2>3, <2>4 DEF IInv
<1>. QED
  BY <1>1, <1>2, PTL DEF Spec

(* The variables keep their types.                                         *)
THEOREM TypeCorrect == Spec => []TypeOK
<1>1. IInv => TypeOK
  BY DEF IInv
<1>. QED
  BY Inductive, <1>1, PTL

(* Whatever becomes of a command, a start or a stop (lost connections,     *)
(* crashes, late replies, an uninstalled service), the menu is never left  *)
(* blocked with nothing on its way that unblocks it.                       *)
THEOREM NeverStuckBusy == Spec => []BusyMeansWork
<1>1. IInv => BusyMeansWork
  BY DEF IInv
<1>. QED
  BY Inductive, <1>1, PTL

=============================================================================
