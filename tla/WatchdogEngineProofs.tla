------------------------- MODULE WatchdogEngineProofs -------------------------
(***************************************************************************)
(* Proofs about WatchdogEngine for every set of callers and endpoints:     *)
(* the inductive invariant IInv, hence PausedMeansIdle and NoLostWakeup,   *)
(* and the refinement of PauseGate.  One lemma per conjunct of IInv; in    *)
(* each, the actions that disturb the conjunct have a step of their own    *)
(* and the others share one per kind of thread.                            *)
(***************************************************************************)
EXTENDS WatchdogEngine, TLAPS

(* Every variable keeps its type; the debounce counter needs its bound.    *)
LEMMA TypeStep ==
  ASSUME TypeOK, DebounceInv, [Next]_vars
  PROVE  TypeOK'
<1>. USE EngineAssumption DEF TypeOK, DebounceInv, ScanKinds, PassPCs,
     WorkerPCs, CommandPCs, CallerPCs, WatcherPCs, StopperPCs, Scanners,
     Threads, Move, At, Goto, flags, locks, loop, history, AfterPass, PassKind
<1>1. ASSUME NEW t \in Scanners, EnumerateOk(t) PROVE TypeOK'
  <2>1. unseen' \in BOOLEAN
    BY <1>1, Zenon DEF EnumerateOk
  <2>2. fullOwed' \in BOOLEAN
    BY <1>1, Zenon DEF EnumerateOk
  <2>. QED
    BY <1>1, <2>1, <2>2 DEF EnumerateOk
<1>2. ASSUME NEW t \in Scanners, EnumerateFails(t) PROVE TypeOK'
  <2>1. retry' \in BOOLEAN
    BY <1>2, Zenon DEF EnumerateFails
  <2>2. fullOwed' \in BOOLEAN
    BY <1>2, Zenon DEF EnumerateFails
  <2>. QED
    BY <1>2, <2>1, <2>2 DEF EnumerateFails
<1>3. ASSUME NEW t \in Scanners,
             \/ GateState(t) \/ GateRequested(t) \/ LockScan(t) \/ SkipEndpoint(t)
             \/ TakeEndpoint(t) \/ LockModify(t) \/ Recheck(t) \/ EndEndpoint(t)
             \/ EndPass(t) \/ Publish(t)
      PROVE TypeOK'
  BY <1>3 DEF GateState, GateRequested, LockScan, SkipEndpoint, TakeEndpoint,
     LockModify, Recheck, EndEndpoint, EndPass, Publish
<1>4. ASSUME NEW c \in Callers, Begin(c) PROVE TypeOK'
  BY <1>4 DEF Begin
<1>5. ASSUME NEW c \in Callers, RequestFull(c) PROVE TypeOK'
  BY <1>5 DEF RequestFull
<1>6. ASSUME NEW c \in Callers, PauseFlag(c) PROVE TypeOK'
  BY <1>6 DEF PauseFlag
<1>7. ASSUME NEW c \in Callers, PauseLock(c) PROVE TypeOK'
  BY <1>7 DEF PauseLock
<1>8. ASSUME NEW c \in Callers, PauseCas(c) PROVE TypeOK'
  BY <1>8 DEF PauseCas
<1>9. ASSUME NEW c \in Callers, PauseEnd(c) PROVE TypeOK'
  <2>1. pauseRequested' \in BOOLEAN
    BY <1>9, Zenon DEF PauseEnd
  <2>. QED
    BY <1>9, <2>1 DEF PauseEnd
<1>10. ASSUME NEW c \in Callers, Resume(c) PROVE TypeOK'
  BY <1>10 DEF Resume
<1>11. ASSUME NEW c \in Callers, LockForUser(c) PROVE TypeOK'
  BY <1>11 DEF LockForUser
<1>12. ASSUME NEW c \in Callers, UserModified(c) PROVE TypeOK'
  BY <1>12 DEF UserModified
<1>13. ASSUME NEW c \in Callers, UserRefused(c) PROVE TypeOK'
  BY <1>13 DEF UserRefused
<1>14. ASSUME NEW c \in Callers, Return(c) PROVE TypeOK'
  BY <1>14 DEF Return
<1>15. ASSUME NEW t \in Callers \cup {Watcher}, RequestRescan(t) PROVE TypeOK'
  BY <1>15 DEF RequestRescan
<1>16. ASSUME NEW t \in Callers \cup {Watcher}, Notify(t) PROVE TypeOK'
  BY <1>16 DEF Notify
<1>17. ASSUME Wake PROVE TypeOK'
  <2>1. signalled' \in BOOLEAN
    BY <1>17, Zenon DEF Wake
  <2>2. retry' \in BOOLEAN
    BY <1>17, Zenon DEF Wake
  <2>. QED
    BY <1>17, <2>1, <2>2 DEF Wake
<1>18. ASSUME RetryElapsed PROVE TypeOK'
  <2>1. retry' \in BOOLEAN
    BY <1>18, Zenon DEF RetryElapsed
  <2>. QED
    BY <1>18, <2>1 DEF RetryElapsed
<1>19. ASSUME TakeRescan PROVE TypeOK'
  <2>1. rescanPending' \in BOOLEAN
    BY <1>19, Zenon DEF TakeRescan
  <2>. QED
    BY <1>19, <2>1 DEF TakeRescan
<1>20. ASSUME Periodic PROVE TypeOK'
  <2>1. fullScanPending' \in BOOLEAN
    BY <1>20, Zenon DEF Periodic
  <2>. QED
    BY <1>20, <2>1 DEF Periodic
<1>21. ASSUME DebounceAgain PROVE TypeOK'
  <2>1. signalled' \in BOOLEAN
    BY <1>21, Zenon DEF DebounceAgain
  <2>. QED
    BY <1>21, <2>1 DEF DebounceAgain
<1>22. ASSUME Settle PROVE TypeOK'
  <2>1. rescanPending' \in BOOLEAN
    BY <1>22, Zenon DEF Settle
  <2>. QED
    BY <1>22, <2>1 DEF Settle
<1>23. ASSUME TakeKind PROVE TypeOK'
  <2>1. fullScanPending' \in BOOLEAN
    BY <1>23, Zenon DEF TakeKind
  <2>. QED
    BY <1>23, <2>1 DEF TakeKind
<1>24. ASSUME
             \/ WorkerExits \/ IntervalElapsed \/ DebounceSettles
      PROVE TypeOK'
  BY <1>24 DEF WorkerExits, IntervalElapsed, DebounceSettles
<1>25. ASSUME DeviceChanges PROVE TypeOK'
  BY <1>25 DEF DeviceChanges
<1>26. ASSUME StopBegins PROVE TypeOK'
  BY <1>26 DEF StopBegins
<1>27. ASSUME SignalExit PROVE TypeOK'
  BY <1>27 DEF SignalExit
<1>28. ASSUME StopNotify PROVE TypeOK'
  BY <1>28 DEF StopNotify
<1>29. ASSUME StopJoined PROVE TypeOK'
  BY <1>29 DEF StopJoined
<1>30. ASSUME UNCHANGED vars PROVE TypeOK'
  BY <1>30 DEF vars
<1>. QED
  BY <1>1, <1>2, <1>3, <1>4, <1>5, <1>6, <1>7, <1>8, <1>9, <1>10, <1>11, <1>12,
     <1>13, <1>14, <1>15, <1>16, <1>17, <1>18, <1>19, <1>20, <1>21, <1>22,
     <1>23, <1>24, <1>25, <1>26, <1>27, <1>28, <1>29, <1>30
  DEF Next, WorkerStep, WatcherStep, StopperStep, CallerStep, Pass, Terminated
(* The debounce loop stays within its rounds.                             *)
LEMMA DebounceStep ==
  ASSUME TypeOK, DebounceInv, [Next]_vars
  PROVE  DebounceInv'
<1>. USE EngineAssumption DEF TypeOK, DebounceInv, CommandPCs, Scanners,
     Threads, Move, At, Goto, flags, locks, loop, history, AfterPass, PassKind
<1>1. ASSUME NEW t \in Scanners,
             \/ GateState(t) \/ GateRequested(t) \/ LockScan(t) \/ EnumerateOk(t)
             \/ EnumerateFails(t) \/ SkipEndpoint(t) \/ TakeEndpoint(t) \/ LockModify(t)
             \/ Recheck(t) \/ EndEndpoint(t) \/ EndPass(t) \/ Publish(t)
      PROVE DebounceInv'
  BY <1>1 DEF GateState, GateRequested, LockScan, EnumerateOk, EnumerateFails,
     SkipEndpoint, TakeEndpoint, LockModify, Recheck, EndEndpoint,
     EndPass, Publish
<1>2. ASSUME NEW c \in Callers,
             \/ Begin(c) \/ RequestFull(c) \/ PauseFlag(c) \/ PauseLock(c)
             \/ PauseCas(c) \/ PauseEnd(c) \/ Resume(c) \/ LockForUser(c)
             \/ UserModified(c) \/ UserRefused(c) \/ Return(c)
      PROVE DebounceInv'
  BY <1>2 DEF Begin, RequestFull, PauseFlag, PauseLock, PauseCas, PauseEnd, Resume,
     LockForUser, UserModified, UserRefused, Return
<1>3. ASSUME NEW t \in Callers \cup {Watcher}, RequestRescan(t) \/ Notify(t)
      PROVE DebounceInv'
  BY <1>3 DEF RequestRescan, Notify
<1>4. ASSUME TakeRescan PROVE DebounceInv'
  BY <1>4 DEF TakeRescan
<1>5. ASSUME DebounceAgain PROVE DebounceInv'
  BY <1>5 DEF DebounceAgain
<1>6. ASSUME DebounceSettles PROVE DebounceInv'
  BY <1>6 DEF DebounceSettles
<1>7. ASSUME
             \/ WorkerExits \/ Wake \/ RetryElapsed \/ IntervalElapsed
             \/ Periodic \/ Settle \/ TakeKind
      PROVE DebounceInv'
  BY <1>7 DEF WorkerExits, Wake, RetryElapsed, IntervalElapsed, Periodic, Settle,
     TakeKind
<1>8. ASSUME
             \/ DeviceChanges \/ StopBegins \/ SignalExit \/ StopNotify
             \/ StopJoined
      PROVE DebounceInv'
  BY <1>8 DEF DeviceChanges, StopBegins, SignalExit, StopNotify, StopJoined
<1>9. ASSUME UNCHANGED vars PROVE DebounceInv'
  BY <1>9 DEF vars
<1>. QED
  BY <1>1, <1>2, <1>3, <1>4, <1>5, <1>6, <1>7, <1>8, <1>9
  DEF Next, WorkerStep, WatcherStep, StopperStep, CallerStep, Pass, Terminated
(* A lock is held by the thread that is where the lock is needed.         *)
LEMMA LockStep ==
  ASSUME TypeOK, LockInv, [Next]_vars
  PROVE  LockInv'
<1>. USE EngineAssumption DEF TypeOK, LockInv, CommandPCs, Scanners, Threads,
     Move, At, Goto, flags, locks, loop, history, AfterPass, PassKind
<1>1. ASSUME NEW t \in Scanners, LockScan(t) PROVE LockInv'
  BY <1>1 DEF LockScan
<1>2. ASSUME NEW t \in Scanners, LockModify(t) PROVE LockInv'
  BY <1>2 DEF LockModify
<1>3. ASSUME NEW t \in Scanners, Recheck(t) PROVE LockInv'
  BY <1>3 DEF Recheck
<1>4. ASSUME NEW t \in Scanners, EndEndpoint(t) PROVE LockInv'
  BY <1>4 DEF EndEndpoint
<1>5. ASSUME NEW t \in Scanners, Publish(t) PROVE LockInv'
  BY <1>5 DEF Publish
<1>6. ASSUME NEW t \in Scanners,
             \/ GateState(t) \/ GateRequested(t) \/ EnumerateOk(t) \/ EnumerateFails(t)
             \/ SkipEndpoint(t) \/ TakeEndpoint(t) \/ EndPass(t)
      PROVE LockInv'
  BY <1>6 DEF GateState, GateRequested, EnumerateOk, EnumerateFails, SkipEndpoint,
     TakeEndpoint, EndPass
<1>7. ASSUME NEW c \in Callers, Begin(c) PROVE LockInv'
  BY <1>7 DEF Begin
<1>8. ASSUME NEW c \in Callers, PauseLock(c) PROVE LockInv'
  BY <1>8 DEF PauseLock
<1>9. ASSUME NEW c \in Callers, PauseCas(c) PROVE LockInv'
  BY <1>9 DEF PauseCas
<1>10. ASSUME NEW c \in Callers, LockForUser(c) PROVE LockInv'
  BY <1>10 DEF LockForUser
<1>11. ASSUME NEW c \in Callers, UserRefused(c) PROVE LockInv'
  BY <1>11 DEF UserRefused
<1>12. ASSUME NEW c \in Callers, Return(c) PROVE LockInv'
  BY <1>12 DEF Return
<1>13. ASSUME NEW c \in Callers,
             \/ RequestFull(c) \/ PauseFlag(c) \/ PauseEnd(c) \/ Resume(c)
             \/ UserModified(c)
      PROVE LockInv'
  BY <1>13 DEF RequestFull, PauseFlag, PauseEnd, Resume, UserModified
<1>14. ASSUME NEW t \in Callers \cup {Watcher}, Notify(t) PROVE LockInv'
  BY <1>14 DEF Notify
<1>15. ASSUME NEW t \in Callers \cup {Watcher}, RequestRescan(t)
      PROVE LockInv'
  BY <1>15 DEF RequestRescan
<1>16. ASSUME
             \/ WorkerExits \/ Wake \/ RetryElapsed \/ IntervalElapsed
             \/ TakeRescan \/ Periodic \/ DebounceAgain \/ DebounceSettles
             \/ Settle \/ TakeKind
      PROVE LockInv'
  BY <1>16 DEF WorkerExits, Wake, RetryElapsed, IntervalElapsed, TakeRescan,
     Periodic, DebounceAgain, DebounceSettles, Settle, TakeKind
<1>17. ASSUME
             \/ DeviceChanges \/ StopBegins \/ SignalExit \/ StopNotify
             \/ StopJoined
      PROVE LockInv'
  BY <1>17 DEF DeviceChanges, StopBegins, SignalExit, StopNotify, StopJoined
<1>18. ASSUME UNCHANGED vars PROVE LockInv'
  BY <1>18 DEF vars
<1>. QED
  BY <1>1, <1>2, <1>3, <1>4, <1>5, <1>6, <1>7, <1>8, <1>9, <1>10, <1>11, <1>12,
     <1>13, <1>14, <1>15, <1>16, <1>17, <1>18
  DEF Next, WorkerStep, WatcherStep, StopperStep, CallerStep, Pass, Terminated
(* stop() runs alone, and only it makes the worker leave its loop.         *)
LEMMA StopStep ==
  ASSUME TypeOK, StopInv, [Next]_vars
  PROVE  StopInv'
<1>. USE EngineAssumption DEF TypeOK, StopInv, CommandPCs, Scanners, Threads,
     Move, At, Goto, flags, locks, loop, history, AfterPass, PassKind
<1>1. ASSUME NEW t \in Scanners,
             \/ GateState(t) \/ GateRequested(t) \/ LockScan(t) \/ EnumerateOk(t)
             \/ EnumerateFails(t) \/ SkipEndpoint(t) \/ TakeEndpoint(t) \/ LockModify(t)
             \/ Recheck(t) \/ EndEndpoint(t) \/ EndPass(t) \/ Publish(t)
      PROVE StopInv'
  BY <1>1 DEF GateState, GateRequested, LockScan, EnumerateOk, EnumerateFails,
     SkipEndpoint, TakeEndpoint, LockModify, Recheck, EndEndpoint,
     EndPass, Publish
<1>2. ASSUME NEW c \in Callers, Begin(c) PROVE StopInv'
  BY <1>2 DEF Begin
<1>3. ASSUME NEW c \in Callers, PauseCas(c) PROVE StopInv'
  BY <1>3 DEF PauseCas
<1>4. ASSUME NEW c \in Callers, Resume(c) PROVE StopInv'
  BY <1>4 DEF Resume
<1>5. ASSUME NEW c \in Callers,
             \/ RequestFull(c) \/ PauseFlag(c) \/ PauseLock(c) \/ PauseEnd(c)
             \/ LockForUser(c) \/ UserModified(c) \/ UserRefused(c) \/ Return(c)
      PROVE StopInv'
  BY <1>5 DEF RequestFull, PauseFlag, PauseLock, PauseEnd, LockForUser,
     UserModified, UserRefused, Return
<1>6. ASSUME NEW t \in Callers \cup {Watcher}, RequestRescan(t) \/ Notify(t)
      PROVE StopInv'
  BY <1>6 DEF RequestRescan, Notify
<1>7. ASSUME WorkerExits PROVE StopInv'
  BY <1>7 DEF WorkerExits
<1>8. ASSUME DebounceAgain PROVE StopInv'
  BY <1>8 DEF DebounceAgain
<1>9. ASSUME
             \/ Wake \/ RetryElapsed \/ IntervalElapsed \/ TakeRescan
             \/ Periodic \/ DebounceSettles \/ Settle \/ TakeKind
      PROVE StopInv'
  BY <1>9 DEF Wake, RetryElapsed, IntervalElapsed, TakeRescan, Periodic,
     DebounceSettles, Settle, TakeKind
<1>10. ASSUME DeviceChanges PROVE StopInv'
  BY <1>10 DEF DeviceChanges
<1>11. ASSUME StopBegins PROVE StopInv'
  BY <1>11 DEF StopBegins
<1>12. ASSUME SignalExit PROVE StopInv'
  BY <1>12 DEF SignalExit
<1>13. ASSUME StopJoined PROVE StopInv'
  BY <1>13 DEF StopJoined
<1>14. ASSUME StopNotify
      PROVE StopInv'
  BY <1>14 DEF StopNotify
<1>15. ASSUME UNCHANGED vars PROVE StopInv'
  BY <1>15 DEF vars
<1>. QED
  BY <1>1, <1>2, <1>3, <1>4, <1>5, <1>6, <1>7, <1>8, <1>9, <1>10, <1>11, <1>12,
     <1>13, <1>14, <1>15
  DEF Next, WorkerStep, WatcherStep, StopperStep, CallerStep, Pass, Terminated
(* The pause flag comes down in a state that is not RUNNING.               *)
LEMMA PauseStep ==
  ASSUME TypeOK, LockInv, PauseInv, [Next]_vars
  PROVE  PauseInv'
<1>. USE EngineAssumption DEF TypeOK, LockInv, PauseInv, CommandPCs, Scanners,
     Threads, Move, At, Goto, flags, locks, loop, history, AfterPass, PassKind
<1>1. ASSUME NEW t \in Scanners,
             \/ GateState(t) \/ GateRequested(t) \/ LockScan(t) \/ EnumerateOk(t)
             \/ EnumerateFails(t) \/ SkipEndpoint(t) \/ TakeEndpoint(t) \/ LockModify(t)
             \/ Recheck(t) \/ EndEndpoint(t) \/ EndPass(t) \/ Publish(t)
      PROVE PauseInv'
  BY <1>1 DEF GateState, GateRequested, LockScan, EnumerateOk, EnumerateFails,
     SkipEndpoint, TakeEndpoint, LockModify, Recheck, EndEndpoint,
     EndPass, Publish
<1>2. ASSUME NEW c \in Callers, PauseCas(c) PROVE PauseInv'
  BY <1>2 DEF PauseCas
<1>3. ASSUME NEW c \in Callers, Resume(c) PROVE PauseInv'
  BY <1>3 DEF Resume
<1>4. ASSUME NEW c \in Callers,
             \/ Begin(c) \/ RequestFull(c) \/ PauseFlag(c) \/ PauseLock(c)
             \/ PauseEnd(c) \/ LockForUser(c) \/ UserModified(c) \/ UserRefused(c)
             \/ Return(c)
      PROVE PauseInv'
  BY <1>4 DEF Begin, RequestFull, PauseFlag, PauseLock, PauseEnd, LockForUser,
     UserModified, UserRefused, Return
<1>5. ASSUME NEW t \in Callers \cup {Watcher}, RequestRescan(t) \/ Notify(t)
      PROVE PauseInv'
  BY <1>5 DEF RequestRescan, Notify
<1>6. ASSUME
             \/ WorkerExits \/ Wake \/ RetryElapsed \/ IntervalElapsed
             \/ TakeRescan \/ Periodic \/ DebounceAgain \/ DebounceSettles
             \/ Settle \/ TakeKind
      PROVE PauseInv'
  BY <1>6 DEF WorkerExits, Wake, RetryElapsed, IntervalElapsed, TakeRescan,
     Periodic, DebounceAgain, DebounceSettles, Settle, TakeKind
<1>7. ASSUME
             \/ DeviceChanges \/ StopBegins \/ SignalExit \/ StopNotify
             \/ StopJoined
      PROVE PauseInv'
  BY <1>7 DEF DeviceChanges, StopBegins, SignalExit, StopNotify, StopJoined
<1>8. ASSUME UNCHANGED vars PROVE PauseInv'
  BY <1>8 DEF vars
<1>. QED
  BY <1>1, <1>2, <1>3, <1>4, <1>5, <1>6, <1>7, <1>8
  DEF Next, WorkerStep, WatcherStep, StopperStep, CallerStep, Pass, Terminated
(* No pass changes a device while PAUSED: pause() has the lock when it sets *)
(* the state, and a pass checks the state under the lock.                  *)
LEMMA IdleStep ==
  ASSUME TypeOK, LockInv, PausedMeansIdle, [Next]_vars
  PROVE  PausedMeansIdle'
<1>. USE EngineAssumption DEF TypeOK, LockInv, PausedMeansIdle, CanModify,
     CommandPCs, Scanners, Threads, Move, At, Goto, flags, locks, loop,
     history, AfterPass, PassKind
<1>1. ASSUME NEW t \in Scanners, Recheck(t) PROVE PausedMeansIdle'
  BY <1>1 DEF Recheck
<1>2. ASSUME NEW t \in Scanners,
             \/ GateState(t) \/ GateRequested(t) \/ LockScan(t) \/ EnumerateOk(t)
             \/ EnumerateFails(t) \/ SkipEndpoint(t) \/ TakeEndpoint(t) \/ LockModify(t)
             \/ EndEndpoint(t) \/ EndPass(t) \/ Publish(t)
      PROVE PausedMeansIdle'
  BY <1>2 DEF GateState, GateRequested, LockScan, EnumerateOk, EnumerateFails,
     SkipEndpoint, TakeEndpoint, LockModify, EndEndpoint, EndPass,
     Publish
<1>3. ASSUME NEW c \in Callers, PauseCas(c) PROVE PausedMeansIdle'
  BY <1>3 DEF PauseCas
<1>4. ASSUME NEW c \in Callers,
             \/ Begin(c) \/ RequestFull(c) \/ PauseFlag(c) \/ PauseLock(c)
             \/ PauseEnd(c) \/ Resume(c) \/ LockForUser(c) \/ UserModified(c)
             \/ UserRefused(c) \/ Return(c)
      PROVE PausedMeansIdle'
  BY <1>4 DEF Begin, RequestFull, PauseFlag, PauseLock, PauseEnd, Resume,
     LockForUser, UserModified, UserRefused, Return
<1>5. ASSUME NEW t \in Callers \cup {Watcher}, RequestRescan(t) \/ Notify(t)
      PROVE PausedMeansIdle'
  BY <1>5 DEF RequestRescan, Notify
<1>6. ASSUME
             \/ WorkerExits \/ Wake \/ RetryElapsed \/ IntervalElapsed
             \/ TakeRescan \/ Periodic \/ DebounceAgain \/ DebounceSettles
             \/ Settle \/ TakeKind
      PROVE PausedMeansIdle'
  BY <1>6 DEF WorkerExits, Wake, RetryElapsed, IntervalElapsed, TakeRescan,
     Periodic, DebounceAgain, DebounceSettles, Settle, TakeKind
<1>7. ASSUME
             \/ DeviceChanges \/ StopBegins \/ SignalExit \/ StopNotify
             \/ StopJoined
      PROVE PausedMeansIdle'
  BY <1>7 DEF DeviceChanges, StopBegins, SignalExit, StopNotify, StopJoined
<1>8. ASSUME UNCHANGED vars PROVE PausedMeansIdle'
  BY <1>8 DEF vars
<1>. QED
  BY <1>1, <1>2, <1>3, <1>4, <1>5, <1>6, <1>7, <1>8
  DEF Next, WorkerStep, WatcherStep, StopperStep, CallerStep, Pass, Terminated
(* An unseen change is never left behind.                                  *)
LEMMA UnseenStep ==
  ASSUME IInv, [Next]_vars
  PROVE  UnseenInv'
<1>. USE EngineAssumption DEF IInv, TypeOK, LockInv, StopInv, PauseInv,
     UnseenInv, Requesting, CanModify, Waking, Starting, CommandPCs, Scanners,
     Threads, Move, At, Goto, flags, locks, loop, history, AfterPass, PassKind
<1>1. ASSUME NEW t \in Scanners, GateState(t) PROVE UnseenInv'
  BY <1>1 DEF GateState
<1>2. ASSUME NEW t \in Scanners, GateRequested(t) PROVE UnseenInv'
  BY <1>2 DEF GateRequested
<1>3. ASSUME NEW t \in Scanners, EnumerateOk(t) PROVE UnseenInv'
  BY <1>3 DEF EnumerateOk
<1>4. ASSUME NEW t \in Scanners, EnumerateFails(t) PROVE UnseenInv'
  BY <1>4 DEF EnumerateFails
<1>5. ASSUME NEW t \in Scanners,
             \/ LockScan(t) \/ SkipEndpoint(t) \/ TakeEndpoint(t) \/ LockModify(t)
             \/ Recheck(t) \/ EndEndpoint(t) \/ EndPass(t) \/ Publish(t)
      PROVE UnseenInv'
  <2>1. CASE LockScan(t) \/ SkipEndpoint(t) \/ TakeEndpoint(t)
    BY <2>1 DEF LockScan, SkipEndpoint, TakeEndpoint
  <2>2. CASE LockModify(t) \/ Recheck(t) \/ EndEndpoint(t)
    BY <2>2 DEF LockModify, Recheck, EndEndpoint
  <2>3. CASE EndPass(t) \/ Publish(t)
    BY <2>3 DEF EndPass, Publish
  <2>. QED
    BY <1>5, <2>1, <2>2, <2>3
<1>6. ASSUME NEW c \in Callers, PauseEnd(c) PROVE UnseenInv'
  BY <1>6 DEF PauseEnd
<1>7. ASSUME NEW c \in Callers, Resume(c) PROVE UnseenInv'
  BY <1>7 DEF Resume
<1>8. ASSUME NEW c \in Callers,
             \/ Begin(c) \/ RequestFull(c) \/ PauseFlag(c) \/ PauseLock(c)
             \/ PauseCas(c) \/ LockForUser(c) \/ UserModified(c) \/ UserRefused(c)
             \/ Return(c)
      PROVE UnseenInv'
  BY <1>8 DEF Begin, RequestFull, PauseFlag, PauseLock, PauseCas, LockForUser,
     UserModified, UserRefused, Return
<1>9. ASSUME NEW t \in Callers \cup {Watcher}, Notify(t) PROVE UnseenInv'
  BY <1>9 DEF Notify
<1>10. ASSUME NEW t \in Callers \cup {Watcher}, RequestRescan(t)
      PROVE UnseenInv'
  BY <1>10 DEF RequestRescan
<1>11. ASSUME WorkerExits PROVE UnseenInv'
  BY <1>11 DEF WorkerExits
<1>12. ASSUME Wake PROVE UnseenInv'
  BY <1>12 DEF Wake
<1>13. ASSUME DebounceAgain PROVE UnseenInv'
  BY <1>13 DEF DebounceAgain
<1>14. ASSUME
             \/ RetryElapsed \/ IntervalElapsed \/ TakeRescan \/ Periodic
             \/ DebounceSettles \/ Settle \/ TakeKind
      PROVE UnseenInv'
  BY <1>14 DEF RetryElapsed, IntervalElapsed, TakeRescan, Periodic, DebounceSettles,
     Settle, TakeKind
<1>15. ASSUME DeviceChanges PROVE UnseenInv'
  BY <1>15 DEF DeviceChanges
<1>16. ASSUME
             \/ StopBegins \/ SignalExit \/ StopNotify \/ StopJoined
      PROVE UnseenInv'
  BY <1>16 DEF StopBegins, SignalExit, StopNotify, StopJoined
<1>17. ASSUME UNCHANGED vars PROVE UnseenInv'
  BY <1>17 DEF vars
<1>. QED
  BY <1>1, <1>2, <1>3, <1>4, <1>5, <1>6, <1>7, <1>8, <1>9, <1>10, <1>11, <1>12,
     <1>13, <1>14, <1>15, <1>16, <1>17
  DEF Next, WorkerStep, WatcherStep, StopperStep, CallerStep, Pass, Terminated
(* A requested full scan is never left behind.                             *)
LEMMA FullStep ==
  ASSUME IInv, [Next]_vars
  PROVE  FullInv'
<1>. USE EngineAssumption DEF IInv, TypeOK, LockInv, StopInv, PauseInv,
     FullInv, Posting, CanModify, Waking, Starting, CommandPCs, ScanKinds,
     Scanners, Threads, Move, At, Goto, flags, locks, loop, history,
     AfterPass, PassKind
<1>1. ASSUME NEW t \in Scanners, GateState(t) PROVE FullInv'
  BY <1>1 DEF GateState
<1>2. ASSUME NEW t \in Scanners, GateRequested(t) PROVE FullInv'
  BY <1>2 DEF GateRequested
<1>3. ASSUME NEW t \in Scanners, EnumerateOk(t) PROVE FullInv'
  BY <1>3 DEF EnumerateOk
<1>4. ASSUME NEW t \in Scanners, EnumerateFails(t) PROVE FullInv'
  BY <1>4 DEF EnumerateFails
<1>5. ASSUME NEW t \in Scanners,
             \/ LockScan(t) \/ SkipEndpoint(t) \/ TakeEndpoint(t) \/ LockModify(t)
             \/ Recheck(t) \/ EndEndpoint(t) \/ EndPass(t) \/ Publish(t)
      PROVE FullInv'
  <2>1. CASE LockScan(t) \/ SkipEndpoint(t) \/ TakeEndpoint(t)
    BY <2>1 DEF LockScan, SkipEndpoint, TakeEndpoint
  <2>2. CASE LockModify(t) \/ Recheck(t) \/ EndEndpoint(t)
    BY <2>2 DEF LockModify, Recheck, EndEndpoint
  <2>3. CASE EndPass(t) \/ Publish(t)
    BY <2>3 DEF EndPass, Publish
  <2>. QED
    BY <1>5, <2>1, <2>2, <2>3
<1>6. ASSUME NEW c \in Callers, RequestFull(c) PROVE FullInv'
  BY <1>6 DEF RequestFull
<1>7. ASSUME NEW c \in Callers, PauseEnd(c) PROVE FullInv'
  BY <1>7 DEF PauseEnd
<1>8. ASSUME NEW c \in Callers, Resume(c) PROVE FullInv'
  BY <1>8 DEF Resume
<1>9. ASSUME NEW c \in Callers,
             \/ Begin(c) \/ PauseFlag(c) \/ PauseLock(c) \/ PauseCas(c)
             \/ LockForUser(c) \/ UserModified(c) \/ UserRefused(c) \/ Return(c)
      PROVE FullInv'
  BY <1>9 DEF Begin, PauseFlag, PauseLock, PauseCas, LockForUser, UserModified,
     UserRefused, Return
<1>10. ASSUME NEW t \in Callers \cup {Watcher}, RequestRescan(t) PROVE FullInv'
  BY <1>10 DEF RequestRescan
<1>11. ASSUME NEW t \in Callers \cup {Watcher}, Notify(t) PROVE FullInv'
  BY <1>11 DEF Notify
<1>12. ASSUME WorkerExits PROVE FullInv'
  BY <1>12 DEF WorkerExits
<1>13. ASSUME Wake PROVE FullInv'
  BY <1>13 DEF Wake
<1>14. ASSUME Periodic PROVE FullInv'
  BY <1>14 DEF Periodic
<1>15. ASSUME DebounceAgain PROVE FullInv'
  BY <1>15 DEF DebounceAgain
<1>16. ASSUME TakeKind PROVE FullInv'
  BY <1>16 DEF TakeKind
<1>17. ASSUME
             \/ RetryElapsed \/ IntervalElapsed \/ TakeRescan \/ DebounceSettles
             \/ Settle
      PROVE FullInv'
  BY <1>17 DEF RetryElapsed, IntervalElapsed, TakeRescan, DebounceSettles, Settle
<1>18. ASSUME
             \/ DeviceChanges \/ StopBegins \/ SignalExit \/ StopNotify
             \/ StopJoined
      PROVE FullInv'
  BY <1>18 DEF DeviceChanges, StopBegins, SignalExit, StopNotify, StopJoined
<1>19. ASSUME UNCHANGED vars PROVE FullInv'
  BY <1>19 DEF vars
<1>. QED
  BY <1>1, <1>2, <1>3, <1>4, <1>5, <1>6, <1>7, <1>8, <1>9, <1>10, <1>11, <1>12,
     <1>13, <1>14, <1>15, <1>16, <1>17, <1>18, <1>19
  DEF Next, WorkerStep, WatcherStep, StopperStep, CallerStep, Pass, Terminated
(* The initial state satisfies every conjunct.                             *)
LEMMA InitInv == ASSUME Init PROVE IInv
<1>. USE EngineAssumption DEF Init, Scanners, Threads
<1>1. TypeOK
  <2>1. /\ pauseRequested \in BOOLEAN
        /\ exitRequested \in BOOLEAN
        /\ signalled \in BOOLEAN
        /\ rescanPending \in BOOLEAN
        /\ fullScanPending \in BOOLEAN
        /\ retry \in BOOLEAN
        /\ unseen \in BOOLEAN
        /\ fullOwed \in BOOLEAN
    BY Zenon
  <2>. QED
    BY <2>1 DEF TypeOK, ScanKinds, PassPCs, WorkerPCs, CallerPCs, WatcherPCs, StopperPCs
<1>2. DebounceInv /\ LockInv /\ StopInv /\ PauseInv /\ PausedMeansIdle
  BY DEF DebounceInv, LockInv, StopInv, PauseInv, PausedMeansIdle
<1>3. UnseenInv /\ FullInv
  BY DEF UnseenInv, FullInv
<1>. QED
  BY <1>1, <1>2, <1>3 DEF IInv

(* IInv holds in every reachable state.                                    *)
THEOREM Inductive == Spec => []IInv
<1>1. Init => IInv
  BY InitInv
<1>2. IInv /\ [Next]_vars => IInv'
  <2>. SUFFICES ASSUME IInv, [Next]_vars PROVE IInv'
    OBVIOUS
  <2>1. /\ TypeOK /\ DebounceInv /\ LockInv /\ StopInv /\ PauseInv /\ PausedMeansIdle
    BY DEF IInv
  <2>2. TypeOK' /\ DebounceInv'
    BY <2>1, TypeStep, DebounceStep
  <2>3. LockInv' /\ StopInv' /\ PauseInv' /\ PausedMeansIdle'
    BY <2>1, LockStep, StopStep, PauseStep, IdleStep
  <2>4. UnseenInv' /\ FullInv'
    BY UnseenStep, FullStep
  <2>. QED
    BY <2>2, <2>3, <2>4 DEF IInv
<1>. QED
  BY <1>1, <1>2, PTL DEF Spec

(* Every variable of the engine always has its type.                       *)
THEOREM TypeCorrect == Spec => []TypeOK
<1>1. IInv => TypeOK
  BY DEF IInv
<1>. QED
  BY <1>1, Inductive, PTL

(* While the engine is PAUSED no pass is changing a device, for any number *)
(* of commands, endpoints and passes.                                      *)
THEOREM PauseIsSafe == Spec => []PausedMeansIdle
<1>1. IInv => PausedMeansIdle
  BY DEF IInv
<1>. QED
  BY <1>1, Inductive, PTL

(* The worker never blocks on a change or a full scan it still owes.       *)
THEOREM WakeupIsSafe == Spec => []NoLostWakeup
<1>1. IInv => NoLostWakeup
  BY DEF IInv, UnseenInv, FullInv, NoLostWakeup, Blocked, Posting, Requesting, Waking, Starting
<1>. QED
  BY <1>1, Inductive, PTL

(* A step of the engine is a step of the abstract gate or leaves it alone. *)
LEMMA GateStep ==
  ASSUME IInv, [Next]_vars
  PROVE  [Gate!GateNext]_(Gate!gate)
<1>. DEFINE busy == \E t \in Scanners : pc[t] = "modify"
<1>. USE EngineAssumption DEF IInv, TypeOK, LockInv, StopInv, PausedMeansIdle, CommandPCs,
     Scanners, Threads, Move, At, Goto, flags, locks, loop, history, AfterPass, PassKind
<1>1. ASSUME NEW t \in Scanners, Recheck(t) PROVE Gate!BeginChange \/ UNCHANGED <<state, busy>>
  BY <1>1 DEF Recheck, Gate!BeginChange, CanModify
<1>2. ASSUME NEW t \in Scanners, EndEndpoint(t) PROVE Gate!EndChange
  BY <1>2 DEF EndEndpoint, Gate!EndChange
<1>3. ASSUME NEW t \in Scanners,
             \/ GateState(t) \/ GateRequested(t) \/ LockScan(t) \/ EnumerateOk(t)
             \/ EnumerateFails(t) \/ SkipEndpoint(t) \/ TakeEndpoint(t) \/ LockModify(t)
             \/ EndPass(t) \/ Publish(t)
      PROVE UNCHANGED <<state, busy>>
  BY <1>3 DEF GateState, GateRequested, LockScan, EnumerateOk, EnumerateFails,
     SkipEndpoint, TakeEndpoint, LockModify, EndPass, Publish
<1>4. ASSUME NEW c \in Callers, PauseCas(c) PROVE Gate!Pause \/ UNCHANGED <<state, busy>>
  BY <1>4 DEF PauseCas, Gate!Pause
<1>5. ASSUME NEW c \in Callers, Resume(c) PROVE Gate!Resume \/ UNCHANGED <<state, busy>>
  BY <1>5 DEF Resume, Gate!Resume
<1>6. ASSUME NEW c \in Callers,
             \/ Begin(c) \/ RequestFull(c) \/ PauseFlag(c) \/ PauseLock(c)
             \/ PauseEnd(c) \/ LockForUser(c) \/ UserModified(c) \/ UserRefused(c)
             \/ Return(c)
      PROVE UNCHANGED <<state, busy>>
  BY <1>6 DEF Begin, RequestFull, PauseFlag, PauseLock, PauseEnd, LockForUser,
     UserModified, UserRefused, Return
<1>7. ASSUME NEW t \in Callers \cup {Watcher}, RequestRescan(t) \/ Notify(t)
      PROVE UNCHANGED <<state, busy>>
  BY <1>7 DEF RequestRescan, Notify
<1>8. ASSUME
             \/ WorkerExits \/ Wake \/ RetryElapsed \/ IntervalElapsed
             \/ TakeRescan \/ Periodic \/ DebounceAgain \/ DebounceSettles
             \/ Settle \/ TakeKind
      PROVE UNCHANGED <<state, busy>>
  BY <1>8 DEF WorkerExits, Wake, RetryElapsed, IntervalElapsed, TakeRescan,
     Periodic, DebounceAgain, DebounceSettles, Settle, TakeKind
<1>9. ASSUME StopBegins PROVE Gate!StopRequested
  BY <1>9 DEF StopBegins, Gate!StopRequested
<1>10. ASSUME StopJoined PROVE Gate!Stopped
  BY <1>10 DEF StopJoined, Gate!Stopped
<1>11. ASSUME
             \/ DeviceChanges \/ SignalExit \/ StopNotify
      PROVE UNCHANGED <<state, busy>>
  BY <1>11 DEF DeviceChanges, SignalExit, StopNotify
<1>12. ASSUME UNCHANGED vars PROVE UNCHANGED <<state, busy>>
  BY <1>12 DEF vars
<1>. QED
  BY <1>1, <1>2, <1>3, <1>4, <1>5, <1>6, <1>7, <1>8, <1>9, <1>10, <1>11, <1>12
  DEF Next, WorkerStep, WatcherStep, StopperStep, CallerStep, Pass, Terminated,
      Gate!GateNext, Gate!gate


(* The engine implements the abstract gate: threads, locks and the torn    *)
(* check included, pause() and stop() do what WatchdogEngine.h promises.   *)
THEOREM EngineImplementsGate == Spec => ImplementsGate
<1>1. Init => Gate!GateInit
  BY EngineAssumption DEF Init, Gate!GateInit, Scanners, Threads
<1>2. IInv /\ [Next]_vars => [Gate!GateNext]_(Gate!gate)
  BY GateStep
<1>. QED
  BY <1>1, <1>2, Inductive, PTL DEF Spec, ImplementsGate, Gate!GateSpec
=============================================================================
