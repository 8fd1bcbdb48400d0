--------------------------- MODULE ScmServiceProofs ---------------------------
(***************************************************************************)
(* Proofs about ScmService for every number of pipe connections.           *)
(***************************************************************************)
EXTENDS ScmService, TLAPS

(* Every variable keeps its type.                                          *)
LEMMA TypeStep ==
  ASSUME TypeOK, DoingInv, [Next]_vars
  PROVE  TypeOK'
<1>. USE ServiceAssumption DEF TypeOK, DoingInv, MainPCs, HandlerPCs, ApplyPCs, Reported,
   EngineStates, Active, Controls, Commands, Appliers, Threads, At, Goto, Move,
   Forget, host, requests, locals
<1>1. ASSUME NEW control \in Controls, Dispatch(control) PROVE TypeOK'
  BY <1>1 DEF Dispatch
<1>2. CASE HandlerReads
  BY <1>2 DEF HandlerReads
<1>3. CASE HandlerFindsNone
  BY <1>3 DEF HandlerFindsNone
<1>4. CASE HandlerIgnores
  BY <1>4 DEF HandlerIgnores
<1>5. CASE HandlerReports
  BY <1>5 DEF HandlerReports, Acceptable, Pending
<1>6. CASE HandlerRequests
  BY <1>6 DEF HandlerRequests, Request
<1>7. CASE HandlerSignals
  BY <1>7 DEF HandlerSignals
<1>8. ASSUME NEW c \in Clients, Receive(c) PROVE TypeOK'
  BY <1>8 DEF Receive
<1>9. ASSUME NEW t \in Appliers, LockControl(t) \/ Refuse(t)
      PROVE  TypeOK'
  BY <1>9 DEF LockControl, Refuse, Leave, AfterApply
<1>10. ASSUME NEW t \in Appliers, ApplyPause(t)
      PROVE  TypeOK'
  BY <1>10 DEF ApplyPause, ChangeEngine, Leave, AfterApply
<1>11. ASSUME NEW t \in Appliers, ApplyResume(t)
      PROVE  TypeOK'
  BY <1>11 DEF ApplyResume, ChangeEngine, Leave, AfterApply
<1>12. ASSUME NEW t \in Appliers, ApplyStop(t) \/ ApplyOther(t)
      PROVE  TypeOK'
  BY <1>12 DEF ApplyStop, ApplyOther, Leave, AfterApply
<1>13. ASSUME NEW t \in Appliers, ApplySignals(t)
      PROVE  TypeOK'
  BY <1>13 DEF ApplySignals, Leave, AfterApply
<1>14. ASSUME NEW t \in Appliers, Tell(t)
      PROVE  TypeOK'
  BY <1>14 DEF Tell
<1>15. ASSUME NEW t \in Appliers, Report(t)
      PROVE  TypeOK'
  BY <1>15 DEF Report, StatusFor, Told, Leave, AfterApply
<1>16. CASE SetHost
  BY <1>16 DEF SetHost
<1>17. CASE StartEngine
  BY <1>17 DEF StartEngine
<1>18. CASE StartFails
  BY <1>18 DEF StartFails
<1>19. CASE OpenPipe
  BY <1>19 DEF OpenPipe
<1>20. CASE OnStarted
  BY <1>20 DEF OnStarted
<1>21. CASE Loop
  BY <1>21 DEF Loop
<1>22. CASE Wait
  <2>1. wake' \in BOOLEAN
    BY <1>22, Zenon DEF Wait
  <2>. QED
    BY <1>22, <2>1 DEF Wait
<1>23. CASE TakePause
  BY <1>23 DEF TakePause, Take, AfterApply
<1>24. CASE TakeResume
  BY <1>24 DEF TakeResume, Take, AfterApply
<1>25. CASE TakeReload
  BY <1>25 DEF TakeReload, Take, AfterApply
<1>26. CASE Shutdown
  BY <1>26 DEF Shutdown
<1>27. CASE ClosePipe
  <2>1. listening' \in BOOLEAN
    BY <1>27, Zenon DEF ClosePipe
  <2>. QED
    BY <1>27, <2>1 DEF ClosePipe
<1>28. CASE JoinPipe
  BY <1>28 DEF JoinPipe
<1>29. CASE StopEngine
  BY <1>29 DEF StopEngine
<1>30. CASE JoinEngine
  BY <1>30 DEF JoinEngine
<1>31. CASE DestroyEngine
  BY <1>31 DEF DestroyEngine
<1>32. CASE ClearHost
  <2>1. hostSet' \in BOOLEAN
    BY <1>32, Zenon DEF ClearHost
  <2>. QED
    BY <1>32, <2>1 DEF ClearHost
<1>33. CASE DestroyHost
  BY <1>33 DEF DestroyHost
<1>34. CASE Finish
  BY <1>34 DEF Finish
<1>35. CASE UNCHANGED vars
  BY <1>35 DEF vars
<1>. QED
  BY <1>1, <1>2, <1>3, <1>4, <1>5, <1>6, <1>7, <1>8, <1>9, <1>10, <1>11, <1>12,
     <1>13, <1>14, <1>15, <1>16, <1>17, <1>18, <1>19, <1>20, <1>21, <1>22, <1>23,
     <1>24, <1>25, <1>26, <1>27, <1>28, <1>29, <1>30, <1>31, <1>32, <1>33, <1>34,
     <1>35
     DEF Next, HandlerStep, ApplyStep, MainStep, Terminated

(* A thread knows what it carries out for as long as it does.              *)
LEMMA DoingStep ==
  ASSUME TypeOK, DoingInv, [Next]_vars
  PROVE  DoingInv'
<1>. USE ServiceAssumption DEF TypeOK, DoingInv, Controls, Commands, Appliers,
   Threads, At, Goto, Move, Forget, host, requests, locals
<1>1. ASSUME NEW control \in Controls, Dispatch(control) PROVE DoingInv'
  BY <1>1 DEF Dispatch
<1>2. CASE \/ HandlerReads \/ HandlerFindsNone \/ HandlerIgnores \/ HandlerReports
             \/ HandlerRequests \/ HandlerSignals
  BY <1>2 DEF HandlerReads, HandlerFindsNone, HandlerIgnores, HandlerReports,
     HandlerRequests, HandlerSignals, Acceptable, Pending, Request
<1>3. ASSUME NEW c \in Clients, Receive(c) PROVE DoingInv'
  BY <1>3 DEF Receive
<1>4. ASSUME NEW t \in Appliers, LockControl(t) \/ Refuse(t)
      PROVE  DoingInv'
  BY <1>4 DEF LockControl, Refuse, Leave, AfterApply
<1>5. ASSUME NEW t \in Appliers, ApplyPause(t) \/ ApplyResume(t)
      PROVE  DoingInv'
  BY <1>5 DEF ApplyPause, ApplyResume, ChangeEngine, Leave, AfterApply
<1>6. ASSUME NEW t \in Appliers, ApplyStop(t) \/ ApplyOther(t) \/ ApplySignals(t)
      PROVE  DoingInv'
  BY <1>6 DEF ApplyStop, ApplyOther, ApplySignals, Leave, AfterApply
<1>7. ASSUME NEW t \in Appliers, Tell(t) \/ Report(t)
      PROVE  DoingInv'
  BY <1>7 DEF Tell, Report, StatusFor, Told, Leave, AfterApply
<1>8. CASE SetHost \/ StartEngine \/ StartFails \/ OpenPipe \/ OnStarted
  BY <1>8 DEF SetHost, StartEngine, StartFails, OpenPipe, OnStarted
<1>9. CASE Loop \/ Wait
  BY <1>9 DEF Loop, Wait
<1>10. CASE TakePause \/ TakeResume \/ TakeReload
  BY <1>10 DEF TakePause, TakeResume, TakeReload, Take, AfterApply
<1>11. CASE \/ Shutdown \/ ClosePipe \/ JoinPipe \/ StopEngine
             \/ JoinEngine \/ DestroyEngine \/ ClearHost \/ DestroyHost
             \/ Finish
  BY <1>11 DEF Shutdown, ClosePipe, JoinPipe, StopEngine, JoinEngine,
     DestroyEngine, ClearHost, DestroyHost, Finish
<1>12. CASE UNCHANGED vars
  BY <1>12 DEF vars
<1>. QED
  BY <1>1, <1>2, <1>3, <1>4, <1>5, <1>6, <1>7, <1>8, <1>9, <1>10, <1>11, <1>12
     DEF Next, HandlerStep, ApplyStep, MainStep, Terminated

(* The host is not withdrawn while the handler uses it.                    *)
LEMMA HostStep ==
  ASSUME TypeOK, DoingInv, HostInv, [Next]_vars
  PROVE  HostInv'
<1>. USE ServiceAssumption DEF TypeOK, DoingInv, HostInv, Appliers, Threads, At,
   Goto, Move, Forget, host, requests, locals
<1>1. ASSUME NEW control \in Controls, Dispatch(control) PROVE HostInv'
  BY <1>1 DEF Dispatch
<1>2. CASE \/ HandlerReads \/ HandlerFindsNone \/ HandlerIgnores \/ HandlerReports
             \/ HandlerRequests \/ HandlerSignals
  BY <1>2 DEF HandlerReads, HandlerFindsNone, HandlerIgnores, HandlerReports,
     HandlerRequests, HandlerSignals, Acceptable, Pending, Request
<1>3. ASSUME NEW c \in Clients, Receive(c) PROVE HostInv'
  BY <1>3 DEF Receive
<1>4. ASSUME NEW t \in Appliers, LockControl(t) \/ Refuse(t)
      PROVE  HostInv'
  BY <1>4 DEF LockControl, Refuse, Leave, AfterApply
<1>5. ASSUME NEW t \in Appliers, ApplyPause(t) \/ ApplyResume(t)
      PROVE  HostInv'
  BY <1>5 DEF ApplyPause, ApplyResume, ChangeEngine, Leave, AfterApply
<1>6. ASSUME NEW t \in Appliers, ApplyStop(t) \/ ApplyOther(t) \/ ApplySignals(t)
      PROVE  HostInv'
  BY <1>6 DEF ApplyStop, ApplyOther, ApplySignals, Leave, AfterApply
<1>7. ASSUME NEW t \in Appliers, Tell(t) \/ Report(t)
      PROVE  HostInv'
  BY <1>7 DEF Tell, Report, StatusFor, Told, Leave, AfterApply
<1>8. CASE SetHost \/ StartEngine \/ StartFails \/ OpenPipe \/ OnStarted
  BY <1>8 DEF SetHost, StartEngine, StartFails, OpenPipe, OnStarted
<1>9. CASE Loop \/ Wait \/ TakePause \/ TakeResume \/ TakeReload
  BY <1>9 DEF Loop, Wait, TakePause, TakeResume, TakeReload, Take, AfterApply
<1>10. CASE \/ Shutdown \/ ClosePipe \/ JoinPipe \/ StopEngine
             \/ JoinEngine \/ DestroyEngine \/ ClearHost \/ DestroyHost
             \/ Finish
  BY <1>10 DEF Shutdown, ClosePipe, JoinPipe, StopEngine, JoinEngine,
     DestroyEngine, ClearHost, DestroyHost, Finish
<1>11. CASE UNCHANGED vars
  BY <1>11 DEF vars
<1>. QED
  BY <1>1, <1>2, <1>3, <1>4, <1>5, <1>6, <1>7, <1>8, <1>9, <1>10, <1>11
     DEF Next, HandlerStep, ApplyStep, MainStep, Terminated

(* The engine outlives the connections' requests.                          *)
LEMMA ServeStep ==
  ASSUME TypeOK, DoingInv, ServeInv, [Next]_vars
  PROVE  ServeInv'
<1>. USE ServiceAssumption DEF TypeOK, DoingInv, ServeInv, Running, Closing,
   Active, Appliers, Threads, At, Goto, Move, Forget, host, requests, locals
<1>1. ASSUME NEW control \in Controls, Dispatch(control) PROVE ServeInv'
  BY <1>1 DEF Dispatch
<1>2. CASE \/ HandlerReads \/ HandlerFindsNone \/ HandlerIgnores \/ HandlerReports
             \/ HandlerRequests \/ HandlerSignals
  BY <1>2 DEF HandlerReads, HandlerFindsNone, HandlerIgnores, HandlerReports,
     HandlerRequests, HandlerSignals, Acceptable, Pending, Request
<1>3. ASSUME NEW c \in Clients, Receive(c) PROVE ServeInv'
  BY <1>3 DEF Receive
<1>4. ASSUME NEW t \in Appliers, LockControl(t)
      PROVE  ServeInv'
  BY <1>4 DEF LockControl
<1>5. ASSUME NEW t \in Appliers, Refuse(t)
      PROVE  ServeInv'
  BY <1>5 DEF Refuse, Leave, AfterApply
<1>6. ASSUME NEW t \in Appliers, ApplyPause(t)
      PROVE  ServeInv'
  BY <1>6 DEF ApplyPause, ChangeEngine, Leave, AfterApply
<1>7. ASSUME NEW t \in Appliers, ApplyResume(t)
      PROVE  ServeInv'
  BY <1>7 DEF ApplyResume, ChangeEngine, Leave, AfterApply
<1>8. ASSUME NEW t \in Appliers, ApplyStop(t)
      PROVE  ServeInv'
  BY <1>8 DEF ApplyStop
<1>9. ASSUME NEW t \in Appliers, ApplyOther(t)
      PROVE  ServeInv'
  BY <1>9 DEF ApplyOther, Leave, AfterApply
<1>10. ASSUME NEW t \in Appliers, ApplySignals(t)
      PROVE  ServeInv'
  BY <1>10 DEF ApplySignals, Leave, MainPCs, ApplyPCs
<1>11. ASSUME NEW t \in Appliers, Tell(t)
      PROVE  ServeInv'
  BY <1>11 DEF Tell
<1>12. ASSUME NEW t \in Appliers, Report(t)
      PROVE  ServeInv'
  BY <1>12 DEF Report, StatusFor, Told, Leave, AfterApply
<1>13. CASE SetHost \/ StartEngine \/ StartFails \/ OpenPipe \/ OnStarted
  BY <1>13 DEF SetHost, StartEngine, StartFails, OpenPipe, OnStarted
<1>14. CASE Loop \/ Wait
  BY <1>14 DEF Loop, Wait
<1>15. CASE TakePause \/ TakeResume \/ TakeReload
  BY <1>15 DEF TakePause, TakeResume, TakeReload, Take, AfterApply
<1>16. CASE \/ Shutdown \/ ClosePipe \/ JoinPipe \/ StopEngine
             \/ JoinEngine \/ DestroyEngine \/ ClearHost \/ DestroyHost
             \/ Finish
  BY <1>16 DEF Shutdown, ClosePipe, JoinPipe, StopEngine, JoinEngine,
     DestroyEngine, ClearHost, DestroyHost, Finish
<1>17. CASE UNCHANGED vars
  BY <1>17 DEF vars
<1>. QED
  BY <1>1, <1>2, <1>3, <1>4, <1>5, <1>6, <1>7, <1>8, <1>9, <1>10, <1>11, <1>12,
     <1>13, <1>14, <1>15, <1>16, <1>17
     DEF Next, HandlerStep, ApplyStep, MainStep, Terminated

(* Nobody takes back that the service is ending.                           *)
LEMMA ActiveStep ==
  ASSUME TypeOK, DoingInv, ServeInv, ActiveInv, [Next]_vars
  PROVE  ActiveInv'
<1>. USE ServiceAssumption DEF TypeOK, DoingInv, ServeInv, ActiveInv, NoRevival,
   Ending, Running, Closing, Active, Appliers, Threads, At, Goto, Move, Forget,
   host, requests, locals
<1>1. ASSUME NEW control \in Controls, Dispatch(control) PROVE ActiveInv'
  BY <1>1 DEF Dispatch
<1>2. CASE \/ HandlerReads \/ HandlerFindsNone \/ HandlerIgnores \/ HandlerReports
             \/ HandlerRequests \/ HandlerSignals
  BY <1>2 DEF HandlerReads, HandlerFindsNone, HandlerIgnores, HandlerReports,
     HandlerRequests, HandlerSignals, Acceptable, Pending, Request
<1>3. ASSUME NEW c \in Clients, Receive(c) PROVE ActiveInv'
  BY <1>3 DEF Receive
<1>4. ASSUME NEW t \in Appliers, LockControl(t)
      PROVE  ActiveInv'
  BY <1>4 DEF LockControl
<1>5. ASSUME NEW t \in Appliers, Refuse(t)
      PROVE  ActiveInv'
  BY <1>5 DEF Refuse, Leave, AfterApply
<1>6. ASSUME NEW t \in Appliers, ApplyPause(t)
      PROVE  ActiveInv'
  BY <1>6 DEF ApplyPause, ChangeEngine, Leave, AfterApply
<1>7. ASSUME NEW t \in Appliers, ApplyResume(t)
      PROVE  ActiveInv'
  BY <1>7 DEF ApplyResume, ChangeEngine, Leave, AfterApply
<1>8. ASSUME NEW t \in Appliers, ApplyStop(t) \/ ApplyOther(t)
      PROVE  ActiveInv'
  BY <1>8 DEF ApplyStop, ApplyOther, Leave, AfterApply
<1>9. ASSUME NEW t \in Appliers, ApplySignals(t)
      PROVE  ActiveInv'
  BY <1>9 DEF ApplySignals, Leave, AfterApply
<1>10. ASSUME NEW t \in Appliers, Tell(t)
      PROVE  ActiveInv'
  BY <1>10 DEF Tell
<1>11. ASSUME NEW t \in Appliers, Report(t)
      PROVE  ActiveInv'
  BY <1>11 DEF Report, StatusFor, Told, Leave, AfterApply
<1>12. CASE SetHost \/ StartEngine \/ StartFails \/ OpenPipe \/ OnStarted
  BY <1>12 DEF SetHost, StartEngine, StartFails, OpenPipe, OnStarted
<1>13. CASE Loop \/ Wait
  BY <1>13 DEF Loop, Wait
<1>14. CASE TakePause \/ TakeResume \/ TakeReload
  BY <1>14 DEF TakePause, TakeResume, TakeReload, Take, AfterApply
<1>15. CASE \/ Shutdown \/ ClosePipe \/ JoinPipe \/ StopEngine
             \/ JoinEngine \/ DestroyEngine \/ ClearHost \/ DestroyHost
             \/ Finish
  BY <1>15 DEF Shutdown, ClosePipe, JoinPipe, StopEngine, JoinEngine,
     DestroyEngine, ClearHost, DestroyHost, Finish
<1>16. CASE UNCHANGED vars
  BY <1>16 DEF vars
<1>. QED
  BY <1>1, <1>2, <1>3, <1>4, <1>5, <1>6, <1>7, <1>8, <1>9, <1>10, <1>11, <1>12,
     <1>13, <1>14, <1>15, <1>16
     DEF Next, HandlerStep, ApplyStep, MainStep, Terminated

LEMMA LifeStep ==
  ASSUME TypeOK, DoingInv, HostInv, ServeInv, LifeInv, [Next]_vars
  PROVE  LifeInv'
<1>. USE ServiceAssumption DEF TypeOK, DoingInv, HostInv, ServeInv, LifeInv, Ending, Running,
   Closing, Active, Reported, Appliers, Threads, At, Goto, Move, Forget, host, requests, locals
<1>1. ASSUME NEW control \in Controls, Dispatch(control) PROVE LifeInv'
  BY <1>1 DEF Dispatch
<1>2. CASE \/ HandlerReads \/ HandlerFindsNone \/ HandlerIgnores \/ HandlerReports
             \/ HandlerRequests \/ HandlerSignals
  BY <1>2 DEF HandlerReads, HandlerFindsNone, HandlerIgnores, HandlerReports,
     HandlerRequests, HandlerSignals, Acceptable, Pending, Request
<1>3. ASSUME NEW c \in Clients, Receive(c) PROVE LifeInv'
  BY <1>3 DEF Receive
<1>4. ASSUME NEW t \in Appliers, LockControl(t)
      PROVE  LifeInv'
  BY <1>4 DEF LockControl
<1>5. ASSUME NEW t \in Appliers, Refuse(t)
      PROVE  LifeInv'
  BY <1>5 DEF Refuse, Leave, AfterApply
<1>6. ASSUME NEW t \in Appliers, ApplyPause(t)
      PROVE  LifeInv'
  BY <1>6 DEF ApplyPause, ChangeEngine, Leave, AfterApply
<1>7. ASSUME NEW t \in Appliers, ApplyResume(t)
      PROVE  LifeInv'
  BY <1>7 DEF ApplyResume, ChangeEngine, Leave, AfterApply
<1>8. ASSUME NEW t \in Appliers, ApplyStop(t) \/ ApplyOther(t)
      PROVE  LifeInv'
  BY <1>8 DEF ApplyStop, ApplyOther, Leave, AfterApply
<1>9. ASSUME NEW t \in Appliers, ApplySignals(t)
      PROVE  LifeInv'
  BY <1>9 DEF ApplySignals, Leave, AfterApply
<1>10. ASSUME NEW t \in Appliers, Tell(t)
      PROVE  LifeInv'
  BY <1>10 DEF Tell
<1>11. ASSUME NEW t \in Appliers, Report(t)
      PROVE  LifeInv'
  BY <1>11 DEF Report, StatusFor, Told, Leave, AfterApply
<1>12. CASE SetHost \/ StartEngine \/ StartFails \/ OpenPipe \/ OnStarted
  BY <1>12 DEF SetHost, StartEngine, StartFails, OpenPipe, OnStarted
<1>13. CASE Loop \/ Wait
  BY <1>13 DEF Loop, Wait
<1>14. CASE TakePause \/ TakeResume \/ TakeReload
  BY <1>14 DEF TakePause, TakeResume, TakeReload, Take, AfterApply
<1>15. CASE \/ Shutdown \/ ClosePipe \/ JoinPipe \/ StopEngine
             \/ JoinEngine \/ DestroyEngine \/ ClearHost \/ DestroyHost
             \/ Finish
  BY <1>15 DEF Shutdown, ClosePipe, JoinPipe, StopEngine, JoinEngine,
     DestroyEngine, ClearHost, DestroyHost, Finish
<1>16. CASE UNCHANGED vars
  BY <1>16 DEF vars
<1>. QED
  BY <1>1, <1>2, <1>3, <1>4, <1>5, <1>6, <1>7, <1>8, <1>9, <1>10, <1>11, <1>12,
     <1>13, <1>14, <1>15, <1>16
     DEF Next, HandlerStep, ApplyStep, MainStep, Terminated

LEMMA InvInit == Init => IInv
  BY ServiceAssumption
     DEF Init, IInv, TypeOK, DoingInv, HostInv, ServeInv, ActiveInv, LifeInv, NoRevival, Ending, Running,
         Closing, Active, Reported, EngineStates, MainPCs, HandlerPCs, ApplyPCs, Appliers, Threads

(* The inductive invariant of the service holds.                           *)
THEOREM Inductive == Spec => []IInv
<1>1. IInv /\ [Next]_vars => IInv'
  BY TypeStep, DoingStep, HostStep, ServeStep, ActiveStep, LifeStep DEF IInv
<1>. QED
  BY InvInit, <1>1, PTL DEF Spec

(* Every variable of the service keeps its type.                           *)
THEOREM TypeCorrect == Spec => []TypeOK
<1>1. IInv => TypeOK
  BY DEF IInv
<1>. QED
  BY Inductive, <1>1, PTL

(* Whatever control the SCM passes on, and however late, it is handed to a *)
(* host that still exists (ServiceState::hostMutex).                       *)
THEOREM HandlerIsSafe == Spec => []HostAlive
<1>1. IInv => HostAlive
  BY DEF IInv, HostInv, HostAlive
<1>. QED
  BY Inductive, <1>1, PTL

(* However many connections there are, none of them works on an engine     *)
(* that is stopping or gone (the shutdown order of ServiceHost::run).      *)
THEOREM CommandsAreSafe == Spec => []EngineAlive
<1>1. IInv => EngineAlive
  BY DEF IInv, ServeInv, EngineAlive, Appliers, Running
<1>. QED
  BY Inductive, <1>1, PTL

(* The SCM is not told that an ending service is active (onStateChanged,   *)
(* controlHandler).                                                        *)
THEOREM EndingIsFinal == Spec => []NoRevival
<1>1. IInv => NoRevival
  BY DEF IInv, ActiveInv
<1>. QED
  BY Inductive, <1>1, PTL

-----------------------------------------------------------------------------
(* The refinement of ServiceLife.                                          *)

LEMMA LifeNowCases ==
  ASSUME TypeOK
  PROVE  /\ LifeNow = "starting" <=> pc[Main] \in {"setHost", "start"}
         /\ LifeNow = "over" <=> pc[Main] = "done"
         /\ LifeNow = "ending" <=> \/ pc[Main] \in Ending \ {"done"}
                                   \/ pc[Main] \in Closing \cup {"stopEngine"} /\ engine \notin Active
         /\ LifeNow \in {"starting", "serving", "ending", "over"}
BY DEF TypeOK, LifeNow, Ending, Closing, MainPCs, ApplyPCs

LEMMA LifeNowCasesNext ==
  ASSUME TypeOK'
  PROVE  /\ LifeNow' = "starting" <=> pc'[Main] \in {"setHost", "start"}
         /\ LifeNow' = "over" <=> pc'[Main] = "done"
         /\ LifeNow' = "ending" <=> \/ pc'[Main] \in Ending \ {"done"}
                                    \/ pc'[Main] \in Closing \cup {"stopEngine"} /\ engine' \notin Active
         /\ LifeNow' \in {"starting", "serving", "ending", "over"}
BY DEF TypeOK, LifeNow, Ending, Closing, MainPCs, ApplyPCs

(* While the life does not move on, what is reported fits it.              *)
LEMMA SameLife ==
  ASSUME TypeOK, TypeOK', LifeInv, LifeInv', ActiveInv', LifeNow' = LifeNow,
         (engine = "absent") <=> (engine' = "absent")
  PROVE  [Life!LifeNext]_(Life!service)
<1>1. scm' \in Reported
  BY DEF TypeOK
<1>2. CASE LifeNow \in {"starting", "over"}
  <2>1. scm' = scm
    BY <1>2, LifeNowCases, LifeNowCasesNext DEF LifeInv
  <2>. QED
    BY <2>1 DEF Life!service
<1>3. CASE LifeNow = "serving"
  <2>1. scm' # "stopped"
    BY <1>3, LifeNowCasesNext DEF LifeInv
  <2>. QED
    BY <1>1, <1>3, <2>1 DEF Life!LifeNext, Life!Tells, Life!Live, Life!Waiting, Reported, Active
<1>4. CASE LifeNow = "ending"
  <2>1. scm' # "stopped" /\ scm' \notin Active
    BY <1>4, LifeNowCasesNext DEF LifeInv, ActiveInv, NoRevival, Ending
  <2>. QED
    BY <1>1, <1>4, <2>1 DEF Life!LifeNext, Life!TellsLate, Life!Waiting, Reported, Active
<1>. QED
  BY <1>2, <1>3, <1>4, LifeNowCases

LEMMA LifeImplemented ==
  ASSUME IInv, IInv', [Next]_vars
  PROVE  [Life!LifeNext]_(Life!service)
<1>0. TypeOK /\ TypeOK' /\ LifeInv /\ LifeInv' /\ ActiveInv' /\ ServeInv /\ DoingInv
  BY DEF IInv
<1>. USE ServiceAssumption DEF At, Goto, Move, Forget, host, requests, locals, Threads, Appliers
<1>1. ASSUME LifeNow' = LifeNow, (engine = "absent") <=> (engine' = "absent")
      PROVE  [Life!LifeNext]_(Life!service)
  BY <1>0, <1>1, SameLife
(* A step of another thread, or one that only moves on in the same life.   *)
<1>2. ASSUME pc'[Main] = pc[Main], UNCHANGED engine
      PROVE  [Life!LifeNext]_(Life!service)
  BY <1>1, <1>2 DEF LifeNow
<1>3. ASSUME NEW t \in Appliers, ApplyPause(t) \/ ApplyResume(t)
      PROVE  [Life!LifeNext]_(Life!service)
  <2>1. engine' = engine \/ (engine \in Active /\ engine' \in Active)
    BY <1>3 DEF ApplyPause, ApplyResume, ChangeEngine, Active
  <2>2. CASE t \in Clients
    <3>1. pc'[Main] = pc[Main]
      BY <1>0, <1>3, <2>2 DEF ApplyPause, ApplyResume, ChangeEngine, Leave, TypeOK
    <3>. QED
      BY <1>1, <2>1, <3>1 DEF LifeNow, Active
  <2>3. CASE t = Main
    <3>1. pc[Main] = "act" /\ pc'[Main] \in {"tell", "takeResume", "takeReload"}
      BY <1>0, <1>3, <2>3 DEF ApplyPause, ApplyResume, ChangeEngine, Leave, TypeOK, AfterApply
    <3>2. LifeNow = "serving" /\ LifeNow' = "serving"
      BY <1>0, <3>1, LifeNowCases, LifeNowCasesNext DEF Ending, Closing
    <3>. QED
      BY <1>1, <2>1, <3>2 DEF Active
  <2>. QED
    BY <2>2, <2>3
<1>4. ASSUME NEW t \in Appliers,
             LockControl(t) \/ Refuse(t) \/ ApplyStop(t) \/ ApplyOther(t) \/ ApplySignals(t) \/ Tell(t)
      PROVE  [Life!LifeNext]_(Life!service)
  <2>1. UNCHANGED engine
    BY <1>4 DEF LockControl, Refuse, ApplyStop, ApplyOther, ApplySignals, Tell
  <2>2. CASE t \in Clients
    <3>1. pc'[Main] = pc[Main]
      BY <1>0, <1>4, <2>2 DEF LockControl, Refuse, ApplyStop, ApplyOther, ApplySignals, Tell, Leave, TypeOK
    <3>. QED
      BY <1>2, <2>1, <3>1
  <2>3. CASE t = Main
    <3>1. /\ pc[Main] \in {"lock", "act", "signal", "tell"}
          /\ pc'[Main] \in {"act", "signal", "report", "takeResume", "takeReload", "loop"}
      BY <1>0, <1>4, <2>3
         DEF LockControl, Refuse, ApplyStop, ApplyOther, ApplySignals, Tell, Leave, TypeOK, AfterApply
    <3>2. LifeNow = "serving" /\ LifeNow' = "serving"
      BY <1>0, <3>1, LifeNowCases, LifeNowCasesNext DEF Ending, Closing
    <3>. QED
      BY <1>1, <2>1, <3>2
  <2>. QED
    BY <2>2, <2>3
<1>5. ASSUME NEW t \in Appliers, Report(t)
      PROVE  [Life!LifeNext]_(Life!service)
  <2>1. UNCHANGED engine
    BY <1>5 DEF Report
  <2>2. CASE t \in Clients
    <3>1. pc'[Main] = pc[Main]
      BY <1>0, <1>5, <2>2 DEF Report, Leave, TypeOK
    <3>. QED
      BY <1>2, <2>1, <3>1
  <2>3. CASE t = Main /\ Told(t) # "stopping"
    <3>1. pc[Main] = "report" /\ pc'[Main] \in {"takeResume", "takeReload", "loop"}
      BY <1>0, <1>5, <2>3 DEF Report, Leave, TypeOK, AfterApply
    <3>2. LifeNow = "serving" /\ LifeNow' = "serving"
      BY <1>0, <3>1, LifeNowCases, LifeNowCasesNext DEF Ending, Closing
    <3>. QED
      BY <1>1, <2>1, <3>2
  (* stop() has told the listener.                                         *)
  <2>4. CASE t = Main /\ Told(t) = "stopping"
    <3>1. pc[Main] = "report" /\ pc'[Main] = "joinEngine"
      BY <1>0, <1>5, <2>4 DEF Report, TypeOK
    <3>2. LifeNow = "serving" /\ LifeNow' = "ending"
      BY <1>0, <3>1, LifeNowCases, LifeNowCasesNext DEF Ending, Closing
    <3>3. scm' \in Reported \ (Active \cup {"stopped"})
      BY <1>0, <3>1 DEF TypeOK, ActiveInv, NoRevival, LifeInv, Ending
    <3>. QED
      BY <2>1, <3>2, <3>3 DEF Life!LifeNext, Life!Ends, Life!Waiting, Reported, Active
  <2>. QED
    BY <2>2, <2>3, <2>4
<1>6. CASE SetHost \/ OpenPipe \/ OnStarted \/ Loop \/ Wait \/ TakePause \/ TakeResume \/ TakeReload
  <2>1. /\ UNCHANGED engine
        /\ \/ pc[Main] = "setHost" /\ pc'[Main] = "start"
           \/ /\ pc[Main] \in {"openPipe", "onStarted", "loop", "wait", "takePause", "takeResume", "takeReload"}
              /\ pc'[Main] \in {"onStarted", "loop", "wait", "takePause", "takeResume", "takeReload", "lock"}
           \/ pc[Main] = "loop" /\ pc'[Main] = "shutdown"
    BY <1>0, <1>6 DEF TypeOK, SetHost, OpenPipe, OnStarted, Loop, Wait, TakePause, TakeResume, TakeReload, Take, AfterApply
  <2>2. pc[Main] = "loop" => engine \in Active
    BY <1>0 DEF ServeInv, Running
  <2>3. LifeNow' = LifeNow
    BY <1>0, <2>1, <2>2, LifeNowCases, LifeNowCasesNext DEF Ending, Closing
  <2>. QED
    BY <1>1, <2>1, <2>3
<1>7. CASE StartEngine
  <2>1. /\ pc[Main] = "start" /\ pc'[Main] = "openPipe" /\ engine' = "running" /\ scm' = scm
    BY <1>0, <1>7 DEF TypeOK, StartEngine
  <2>2. LifeNow = "starting" /\ LifeNow' = "serving"
    BY <1>0, <2>1, LifeNowCases, LifeNowCasesNext DEF Ending, Closing
  <2>. QED
    BY <2>1, <2>2 DEF Life!LifeNext, Life!Starts
<1>8. CASE StartFails
  <2>1. /\ pc[Main] = "start" /\ scm' = scm
        /\ pc'[Main] = "clearHost" \/ (pc'[Main] = "shutdown" /\ engine' = "stopped")
    BY <1>0, <1>8 DEF TypeOK, StartFails
  <2>2. LifeNow = "starting" /\ LifeNow' = "ending"
    BY <1>0, <2>1, LifeNowCases, LifeNowCasesNext DEF Ending, Closing, Active
  <2>. QED
    BY <2>1, <2>2 DEF Life!LifeNext, Life!Fails
<1>9. CASE Shutdown \/ ClosePipe \/ JoinPipe \/ JoinEngine \/ ClearHost \/ DestroyHost
  <2>1. /\ engine' = engine \/ (pc[Main] = "joinEngine" /\ engine' = "stopped")
        /\ \/ /\ pc[Main] \in Closing /\ pc'[Main] \in Closing \cup {"stopEngine"} /\ engine' = engine
           \/ /\ pc[Main] \in {"joinEngine", "clearHost", "destroyHost"}
              /\ pc'[Main] \in {"destroyEngine", "destroyHost", "finish"}
    BY <1>0, <1>9 DEF TypeOK, Shutdown, ClosePipe, JoinPipe, JoinEngine, ClearHost, DestroyHost, Closing
  <2>2. LifeNow' = LifeNow
    BY <1>0, <2>1, LifeNowCases, LifeNowCasesNext DEF Ending, Closing
  <2>3. pc[Main] = "joinEngine" => engine # "absent"
    BY <1>0 DEF LifeInv
  <2>. QED
    BY <1>1, <2>1, <2>2, <2>3
<1>10. CASE StopEngine
  <2>1. /\ pc[Main] = "stopEngine"
        /\ \/ engine \in Active /\ pc'[Main] = "tell" /\ engine' = "stopping"
           \/ engine \notin Active /\ pc'[Main] = "destroyEngine" /\ engine' = engine
    BY <1>0, <1>10 DEF TypeOK, StopEngine
  <2>2. LifeNow' = LifeNow
    BY <1>0, <2>1, LifeNowCases, LifeNowCasesNext DEF Ending, Closing
  <2>. QED
    BY <1>1, <2>1, <2>2 DEF Active
<1>11. CASE DestroyEngine
  <2>1. pc[Main] = "destroyEngine" /\ pc'[Main] = "clearHost" /\ engine' = "absent" /\ scm' = scm
    BY <1>0, <1>11 DEF TypeOK, DestroyEngine
  <2>2. LifeNow = "ending" /\ LifeNow' = "ending"
    BY <1>0, <2>1, LifeNowCases, LifeNowCasesNext DEF Ending, Closing
  <2>. QED
    BY <2>1, <2>2 DEF Life!LifeNext, Life!Releases, Life!service
<1>12. CASE Finish
  <2>1. pc[Main] = "finish" /\ pc'[Main] = "done" /\ engine' = engine /\ scm' = "stopped"
    BY <1>0, <1>12 DEF TypeOK, Finish
  <2>2. LifeNow = "ending" /\ LifeNow' = "over" /\ engine = "absent"
    BY <1>0, <2>1, LifeNowCases, LifeNowCasesNext DEF Ending, Closing, LifeInv
  <2>. QED
    BY <2>1, <2>2 DEF Life!LifeNext, Life!Stops
<1>13. CASE (\E control \in Controls : Dispatch(control)) \/ HandlerStep \/ (\E c \in Clients : Receive(c))
  <2>1. pc'[Main] = pc[Main] /\ UNCHANGED engine
    BY <1>0, <1>13 DEF TypeOK, Dispatch, HandlerStep, HandlerReads, HandlerFindsNone, HandlerIgnores, HandlerReports,
       HandlerRequests, HandlerSignals, Receive
  <2>. QED
    BY <1>2, <2>1
<1>14. CASE UNCHANGED vars
  BY <1>2, <1>14 DEF vars
<1>. QED
  BY <1>3, <1>4, <1>5, <1>6, <1>7, <1>8, <1>9, <1>10, <1>11, <1>12, <1>13, <1>14
     DEF Next, ApplyStep, MainStep, Terminated

(* What the SCM is told is the life of a service: active only while it     *)
(* serves, stopped once and last, with everything released; for any number *)
(* of connections.                                                         *)
THEOREM ServiceImplementsLife == Spec => ImplementsLife
<1>1. Init => Life!LifeInit
  <2>1. Init => TypeOK /\ pc[Main] = "setHost" /\ engine = "absent" /\ scm = "startPending"
    BY InvInit, ServiceAssumption DEF IInv, Init, Threads, Appliers
  <2>. QED
    BY <2>1, LifeNowCases DEF Life!LifeInit
<1>2. IInv /\ IInv' /\ [Next]_vars => [Life!LifeNext]_(Life!service)
  BY LifeImplemented
<1>. QED
  BY <1>1, <1>2, Inductive, PTL DEF Spec, ImplementsLife, Life!LifeSpec
=============================================================================
