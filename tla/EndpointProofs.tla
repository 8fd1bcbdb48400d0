---------------------------- MODULE EndpointProofs ----------------------------
(***************************************************************************)
(* Proofs about Endpoint for every set of drivers, targets, names and      *)
(* configurations, and any number of changes and faults.                   *)
(***************************************************************************)
EXTENDS Endpoint, TLAPS

-----------------------------------------------------------------------------
(* Types.                                                                  *)

(* A target has one or two candidates, all of them of its rate and depth.  *)
LEMMA CandidatesMatch ==
  ASSUME NEW t \in Targets, NEW layout
  PROVE  /\ DOMAIN Candidates(t, layout) \subseteq {1, 2}
         /\ \A i \in DOMAIN Candidates(t, layout) : Matches(Candidates(t, layout)[i], t)
<1>1. t.bits \in {16, 24, 32}
  BY EndpointAssumption
<1>2. CASE t.bits = 16
  BY <1>2 DEF Candidates, Format, Matches
<1>3. CASE t.bits = 24
  BY <1>3 DEF Candidates, Format, Matches
<1>4. CASE t.bits = 32
  BY <1>4 DEF Candidates, Format, Matches
<1>. QED
  BY <1>1, <1>2, <1>3, <1>4

(* The candidate chosen is one that the driver takes, and at the target.   *)
LEMMA PreferredMatches ==
  ASSUME NEW driver, NEW t \in Targets, NEW layout, Accepted(driver, t, layout) # {}
  PROVE  /\ Preferred(driver, t, layout) \in driver
         /\ Matches(Preferred(driver, t, layout), t)
<1>. DEFINE places == Accepted(driver, t, layout)
<1>1. places \subseteq {1, 2} /\ places # {}
  BY CandidatesMatch DEF Accepted
<1>2. \E i \in places : \A j \in places : i <= j
  BY <1>1
<1>3. PICK i \in places : Preferred(driver, t, layout) = Candidates(t, layout)[i]
  BY <1>2 DEF Preferred
<1>. QED
  BY <1>3, CandidatesMatch DEF Accepted

(* What a driver answers when it is asked is a set of targets.             *)
LEMMA ProbeType ==
  ASSUME NEW driver, NEW layout
  PROVE  Probe(driver, layout) \in CapsOrNone /\ Probe(driver, layout) # NoCaps
BY EndpointAssumption DEF Probe, CapsOrNone

(* The type invariant in parts.                                            *)
ScalarTypes ==
  /\ notes \subseteq {"property", "device"} /\ cfg \in Configs /\ saved \in Names \cup {NoName}
  /\ broken \in BrokenSets /\ changes \in 0..MaxChanges /\ faults \in 0..MaxFaults
  /\ tries \in Nat
UserTypes ==
  /\ analysis \in CapsOrNone
  /\ renaming \in {Nothing} \cup [step : {"renamed"}, to : Names \cup {NoName}]
  /\ diagnosing \in {Nothing} \cup [step : {"read"}, allow : {"on", "off"}]

(* Every step keeps the types of what is no record.                        *)
LEMMA ScalarTypeStep ==
  ASSUME TypeOK, [Next]_vars
  PROVE  ScalarTypes'
<1>. USE EndpointAssumption DEF TypeOK, ScalarTypes, Fault, Works, Fails, Silent, PassOnly, Tried,
       Property, Device, user, world
<1>1. CASE Begin
  BY <1>1 DEF Begin
<1>2. CASE Enter
  BY <1>2 DEF Enter
<1>3. CASE RestoreName
  BY <1>3 DEF RestoreName
<1>4. CASE Inspect
  BY <1>4 DEF Inspect
<1>5. CASE WriteExclusive
  BY <1>5 DEF WriteExclusive
<1>6. CASE VerifyExclusive
  BY <1>6 DEF VerifyExclusive
<1>7. CASE ReadFormat
  BY <1>7 DEF ReadFormat
<1>8. CASE AskTarget
  BY <1>8 DEF AskTarget
<1>9. CASE WriteFormat
  BY <1>9 DEF WriteFormat
<1>10. CASE VerifyFormat
  BY <1>10 DEF VerifyFormat
<1>11. CASE AskDriver
  BY <1>11 DEF AskDriver
<1>12. CASE Judge
  BY <1>12 DEF Judge
<1>13. CASE Disable
  BY <1>13 DEF Disable
<1>14. CASE Ours
  BY <1>14 DEF Ours
<1>15. CASE UserPicksFormat
  BY <1>15 DEF UserPicksFormat, World
<1>16. CASE NameReset
  BY <1>16 DEF NameReset, World
<1>17. CASE ExclusiveChanges
  BY <1>17 DEF ExclusiveChanges, World
<1>18. CASE Replug
  BY <1>18 DEF Replug, World
<1>19. CASE Rename
  BY <1>19 DEF Rename, World
<1>20. CASE Release
  BY <1>20 DEF Release, World
<1>21. CASE DiagnoseReads
  BY <1>21 DEF DiagnoseReads, World
<1>22. CASE AnalyzeAsks
  BY <1>22 DEF AnalyzeAsks
<1>23. CASE Periodic
  BY <1>23 DEF Periodic
<1>24. CASE \E kind \in notes : Deliver(kind)
  BY <1>24 DEF Deliver
<1>25. CASE BackoffEnds
  BY <1>25 DEF BackoffEnds
<1>26. CASE AnalyzeStores
  BY <1>26 DEF AnalyzeStores
<1>27. CASE RenameSaved
  BY <1>27 DEF RenameSaved, Nothing
<1>28. CASE DiagnoseWrites
  BY <1>28 DEF DiagnoseWrites
<1>29. CASE UNCHANGED vars
  BY <1>29 DEF vars
<1>. QED
  BY <1>1, <1>2, <1>3, <1>4, <1>5, <1>6, <1>7, <1>8, <1>9, <1>10, <1>11, <1>12, <1>13, <1>14,
     <1>15, <1>16, <1>17, <1>18, <1>19, <1>20, <1>21, <1>22, <1>23, <1>24, <1>25, <1>26,
     <1>27, <1>28, <1>29 DEF Next, Pass, Others

Placed(d) == d \in Devices /\ d.format \in d.accepts

(* The changes of an endpoint that the steps make leave an endpoint whose  *)
(* format its driver takes.                                                *)
LEMMA DeviceUpdates ==
  ASSUME NEW d, Placed(d)
  PROVE  /\ \A allow \in Flags : Placed([d EXCEPT !.allow = allow])
         /\ \A name \in Names \cup {Factory} : Placed([d EXCEPT !.name = name])
         /\ \A state \in States : Placed([d EXCEPT !.state = state])
         /\ \A f \in d.accepts : Placed([d EXCEPT !.format = f])
         /\ \A driver \in Drivers, f \in Formats, state \in States :
              f \in driver => Placed([d EXCEPT !.accepts = driver, !.format = f, !.state = state])
         /\ Placed([d EXCEPT !.allow = "off", !.priority = "off"])
BY DEF Devices, Flags, Placed, Formats

(* Every step leaves an endpoint whose format its driver takes.            *)
LEMMA DeviceTypeStep ==
  ASSUME TypeOK, [Next]_vars
  PROVE  Placed(device)'
<1>. USE DEF Silent, PassOnly, user, world, States, Flags
<1>0. Placed(device)
  BY DEF TypeOK, Placed
<1>30. /\ \A allow \in Flags : Placed([device EXCEPT !.allow = allow])
       /\ \A name \in Names \cup {Factory} : Placed([device EXCEPT !.name = name])
       /\ \A state \in States : Placed([device EXCEPT !.state = state])
       /\ \A f \in device.accepts : Placed([device EXCEPT !.format = f])
       /\ \A driver \in Drivers, f \in Formats, state \in States :
            f \in driver => Placed([device EXCEPT !.accepts = driver, !.format = f, !.state = state])
       /\ Placed([device EXCEPT !.allow = "off", !.priority = "off"])
  BY <1>0, DeviceUpdates
<1>1. CASE Begin
  BY <1>0, <1>30, <1>1 DEF Begin
<1>2. CASE Enter
  BY <1>0, <1>30, <1>2 DEF Enter
<1>3. CASE RestoreName
  <2>. SUFFICES ASSUME device' = [device EXCEPT !.name = pass.kept], Step("name"), pass.kept # NoName
                PROVE  Placed(device)'
    BY <1>0, <1>30, <1>3 DEF RestoreName
  <2>1. pass.kept \in Names
    BY DEF TypeOK, Passes, Step
  <2>. QED
    BY <1>0, <1>30, <2>1
<1>4. CASE Inspect
  BY <1>0, <1>30, <1>4 DEF Inspect
<1>5. CASE WriteExclusive
  <2>1. device' \in {device, [device EXCEPT !.allow = "off"], [device EXCEPT !.allow = "off", !.priority = "off"]}
    BY <1>0, <1>30, <1>5 DEF WriteExclusive
  <2>. QED
    BY <1>0, <1>30, <2>1
<1>6. CASE VerifyExclusive
  BY <1>0, <1>30, <1>6 DEF VerifyExclusive
<1>7. CASE ReadFormat
  BY <1>0, <1>30, <1>7 DEF ReadFormat
<1>8. CASE AskTarget
  BY <1>0, <1>30, <1>8 DEF AskTarget
<1>9. CASE WriteFormat
  BY <1>0, <1>30, <1>9 DEF WriteFormat
<1>10. CASE VerifyFormat
  BY <1>0, <1>30, <1>10 DEF VerifyFormat
<1>11. CASE AskDriver
  BY <1>0, <1>30, <1>11 DEF AskDriver
<1>12. CASE Judge
  BY <1>0, <1>30, <1>12 DEF Judge
<1>13. CASE Disable
  BY <1>0, <1>30, <1>13 DEF Disable
<1>14. CASE Ours
  <2>1. device.state \in States
    BY <1>0 DEF Placed, Devices
  <2>2. device' \in {device, [device EXCEPT !.state = "active"]}
    BY <1>14, <1>0 DEF Ours, Placed, Devices
  <2>. QED
    BY <1>0, <1>30, <2>2
<1>15. CASE UserPicksFormat
  BY <1>0, <1>30, <1>15 DEF UserPicksFormat, World
<1>16. CASE NameReset
  BY <1>0, <1>30, <1>16 DEF NameReset, World
<1>17. CASE ExclusiveChanges
  BY <1>0, <1>30, <1>17 DEF ExclusiveChanges, World
<1>18. CASE Replug
  <2>1. PICK driver \in Drivers, state \in States, f \in Formats :
          /\ f \in driver
          /\ device' = [device EXCEPT !.accepts = driver, !.format = f,
                                      !.state = IF @ = "disabled" THEN @ ELSE state]
    BY <1>0, <1>30, <1>18 DEF Replug, Formats
  <2>2. device.state \in States
    BY <1>0 DEF Placed, Devices
  <2>. QED
    BY <1>0, <1>30, <2>1, <2>2
<1>19. CASE Rename
  BY <1>0, <1>30, <1>19 DEF Rename, World
<1>20. CASE Release
  BY <1>0, <1>30, <1>20 DEF Release, World
<1>21. CASE DiagnoseReads
  BY <1>0, <1>30, <1>21 DEF DiagnoseReads, World
<1>22. CASE AnalyzeAsks
  BY <1>0, <1>30, <1>22 DEF AnalyzeAsks
<1>23. CASE Periodic
  BY <1>0, <1>30, <1>23 DEF Periodic
<1>24. CASE \E kind \in notes : Deliver(kind)
  BY <1>0, <1>30, <1>24 DEF Deliver
<1>25. CASE BackoffEnds
  BY <1>0, <1>30, <1>25 DEF BackoffEnds
<1>26. CASE AnalyzeStores
  BY <1>0, <1>30, <1>26 DEF AnalyzeStores
<1>27. CASE RenameSaved
  BY <1>0, <1>30, <1>27 DEF RenameSaved
<1>28. CASE DiagnoseWrites
  <2>1. diagnosing.allow \in Flags
    BY <1>28 DEF DiagnoseWrites, Nothing, TypeOK
  <2>. QED
    BY <1>30, <1>28, <2>1 DEF DiagnoseWrites
<1>29. CASE UNCHANGED vars
  BY <1>0, <1>30, <1>29 DEF vars
<1>. QED
  BY <1>1, <1>2, <1>3, <1>4, <1>5, <1>6, <1>7, <1>8, <1>9, <1>10, <1>11, <1>12, <1>13, <1>14,
     <1>15, <1>16, <1>17, <1>18, <1>19, <1>20, <1>21, <1>22, <1>23, <1>24, <1>25, <1>26,
     <1>27, <1>28, <1>29 DEF Next, Pass, Others

(* The changes of the engine's knowledge that the steps make keep its      *)
(* type.                                                                   *)
LEMMA EngineUpdates ==
  ASSUME NEW e \in Engines
  PROVE  /\ Failed(e) \in Engines /\ Cleared(e) \in Engines /\ Rescan(e) \in Engines
         /\ [e EXCEPT !.record = NoCaps] \in Engines /\ [e EXCEPT !.caps = NoCaps] \in Engines
         /\ \A due \in {"none", "full"} : [e EXCEPT !.due = due] \in Engines
         /\ \A kept \in Names \cup {NoName} : [e EXCEPT !.kept = kept] \in Engines
         /\ \A caps \in CapsOrNone : [e EXCEPT !.caps = caps] \in Engines
         /\ \A caps \in CapsOrNone \ {{}} : [e EXCEPT !.record = caps] \in Engines
<1>1. Failed(e) \in Engines /\ Cleared(e) \in Engines
  BY DEF Engines, Failed, Cleared
<1>2. Rescan(e) \in Engines /\ \A due \in {"none", "full"} : [e EXCEPT !.due = due] \in Engines
  BY DEF Engines, Rescan
<1>3. NoCaps \in CapsOrNone \ {{}}
  <2>1. {} \in SUBSET Targets
    OBVIOUS
  <2>2. {} # NoCaps
    BY <2>1, EndpointAssumption
  <2>. QED
    BY <2>2 DEF CapsOrNone
<1>4. /\ \A caps \in CapsOrNone : [e EXCEPT !.caps = caps] \in Engines
      /\ \A caps \in CapsOrNone \ {{}} : [e EXCEPT !.record = caps] \in Engines
      /\ \A kept \in Names \cup {NoName} : [e EXCEPT !.kept = kept] \in Engines
  BY DEF Engines
<1>. QED
  BY <1>1, <1>2, <1>3, <1>4

(* Every step keeps the type of what the engine knows.                     *)
LEMMA EngineTypeStep ==
  ASSUME TypeOK, [Next]_vars
  PROVE  engine' \in Engines
<1>. USE EngineUpdates DEF TypeOK, Silent, PassOnly, user, world
<1>1. CASE Begin
  BY <1>1 DEF Begin
<1>2. CASE Enter
  BY <1>2 DEF Enter
<1>3. CASE RestoreName
  BY <1>3 DEF RestoreName
<1>4. CASE Inspect
  BY <1>4 DEF Inspect
<1>5. CASE WriteExclusive
  BY <1>5 DEF WriteExclusive
<1>6. CASE VerifyExclusive
  BY <1>6 DEF VerifyExclusive
<1>7. CASE ReadFormat
  BY <1>7 DEF ReadFormat
<1>8. CASE AskTarget
  BY <1>8 DEF AskTarget
<1>9. CASE WriteFormat
  BY <1>9 DEF WriteFormat
<1>10. CASE VerifyFormat
  <2>1. engine' = [Cleared(engine) EXCEPT !.record = NoCaps] \/ engine' = Failed(engine)
    BY <1>10 DEF VerifyFormat
  <2>2. Cleared(engine) \in Engines
    OBVIOUS
  <2>. QED
    BY <2>1, <2>2
<1>11. CASE AskDriver
  BY <1>11 DEF AskDriver
<1>12. CASE Judge
  <2>1. pass.caps \in CapsOrNone
    BY <1>12 DEF Judge, Step, Passes
  <2>. QED
    BY <1>12, <2>1 DEF Judge
<1>13. CASE Disable
  <2>1. pass.caps \in CapsOrNone \ {{}}
    BY <1>13 DEF Disable, Step, Passes
  <2>2. [Cleared(engine) EXCEPT !.record = pass.caps] \in Engines
    BY <2>1
  <2>. QED
    BY <1>13, <2>2 DEF Disable
<1>14. CASE Ours
  BY <1>14 DEF Ours
<1>15. CASE UserPicksFormat \/ NameReset \/ ExclusiveChanges \/ Replug \/ Rename \/ Release \/ DiagnoseReads
  BY <1>15 DEF UserPicksFormat, NameReset, ExclusiveChanges, Replug, Rename, Release, DiagnoseReads, World
<1>22. CASE AnalyzeAsks
  BY <1>22 DEF AnalyzeAsks
<1>23. CASE Periodic
  BY <1>23 DEF Periodic
<1>24. CASE \E kind \in notes : Deliver(kind)
  <2>1. [Cleared(engine) EXCEPT !.caps = NoCaps] \in Engines
    OBVIOUS
  <2>2. engine' = Rescan(engine) \/ engine' = Rescan([Cleared(engine) EXCEPT !.caps = NoCaps])
    BY <1>24 DEF Deliver
  <2>. QED
    BY <2>1, <2>2
<1>25. CASE BackoffEnds
  BY <1>25 DEF BackoffEnds
<1>26. CASE AnalyzeStores
  BY <1>26 DEF AnalyzeStores
<1>27. CASE RenameSaved
  <2>1. engine' = engine \/ engine' = Rescan([Cleared(engine) EXCEPT !.kept = renaming.to])
    BY <1>27 DEF RenameSaved
  <2>2. renaming.to \in Names \cup {NoName}
    BY <1>27 DEF RenameSaved, Nothing
  <2>3. [Cleared(engine) EXCEPT !.kept = renaming.to] \in Engines
    BY <2>2
  <2>. QED
    BY <2>1, <2>3
<1>28. CASE DiagnoseWrites
  BY <1>28 DEF DiagnoseWrites
<1>29. CASE UNCHANGED vars
  BY <1>29 DEF vars
<1>. QED
  BY <1>1, <1>2, <1>3, <1>4, <1>5, <1>6, <1>7, <1>8, <1>9, <1>10, <1>11, <1>12, <1>13, <1>14,
     <1>15, <1>22, <1>23, <1>24, <1>25, <1>26,
     <1>27, <1>28, <1>29 DEF Next, Pass, Others

(* Every step keeps the types of analyze, rename and diagnose.             *)
LEMMA UserTypeStep ==
  ASSUME TypeOK, [Next]_vars
  PROVE  UserTypes'
<1>. USE EndpointAssumption DEF TypeOK, UserTypes, PassOnly, user, world
<1>1. CASE Pass
  BY <1>1 DEF Pass, Begin, Enter, RestoreName, Inspect, WriteExclusive, VerifyExclusive, ReadFormat,
     AskTarget, WriteFormat, VerifyFormat, AskDriver, Judge, Disable, Ours
<1>15. CASE UserPicksFormat \/ NameReset \/ ExclusiveChanges
  BY <1>15 DEF UserPicksFormat, NameReset, ExclusiveChanges, World
<1>14. CASE Replug
  BY <1>14 DEF Replug, World
<1>16. CASE Rename
  BY <1>16 DEF Rename, World
<1>17. CASE Release
  BY <1>17 DEF Release, World
<1>21. CASE DiagnoseReads
  BY <1>21 DEF DiagnoseReads, World
<1>22. CASE AnalyzeAsks
  BY <1>22, ProbeType DEF AnalyzeAsks
<1>23. CASE Periodic \/ (\E kind \in notes : Deliver(kind)) \/ BackoffEnds
  BY <1>23 DEF Periodic, Deliver, BackoffEnds
<1>26. CASE AnalyzeStores
  BY <1>26 DEF AnalyzeStores, CapsOrNone
<1>27. CASE RenameSaved
  BY <1>27 DEF RenameSaved
<1>28. CASE DiagnoseWrites
  BY <1>28 DEF DiagnoseWrites
<1>29. CASE UNCHANGED vars
  BY <1>29 DEF vars
<1>. QED
  BY <1>1, <1>14, <1>15, <1>16, <1>17, <1>21, <1>22, <1>23, <1>26, <1>27, <1>28, <1>29 DEF Next, Others

(* Every step leaves the pass at a place of its own, with what it has read *)
(* so far.                                                                 *)
LEMMA PassTypeStep ==
  ASSUME TypeOK, [Next]_vars
  PROVE  pass' \in Passes
<1>. USE EndpointAssumption DEF TypeOK, Passes, Step, Goes, Ends, Idle
<1>1. CASE Begin
  <2>1. engine.kept \in Names \cup {NoName} /\ device.state \in States /\ device.name \in Names \cup {Factory}
    BY DEF Engines, Devices
  <2>. QED
    BY <1>1, <2>1 DEF Begin
<1>2. CASE Enter
  <2>1. /\ pass.kept \in Names \cup {NoName} /\ pass.name \in Names \cup {Factory}
        /\ pass.state \in States /\ pass.full \in BOOLEAN /\ device.state \in States
    BY <1>2 DEF Enter, Devices
  <2>2. cfg.enforce \in BOOLEAN /\ engine.failed \in BOOLEAN
    BY DEF Engines
  <2>3. PICK state \in States :
          \/ pass' = Idle
          \/ /\ state # "notPresent"
             /\ pass' = [at |-> "name", kept |-> pass.kept, name |-> pass.name, state |-> state,
                         enforce |-> cfg.enforce /\ (pass.full \/ ~engine.failed)]
    BY <1>2, <2>1 DEF Enter
  <2>4. (cfg.enforce /\ (pass.full \/ ~engine.failed)) \in BOOLEAN
    OBVIOUS
  <2>. QED
    BY <2>1, <2>3, <2>4
<1>3. CASE RestoreName
  BY <1>3 DEF RestoreName, AfterName
<1>4. CASE Inspect
  BY <1>4 DEF Inspect
<1>5. CASE WriteExclusive
  BY <1>5 DEF WriteExclusive
<1>6. CASE VerifyExclusive
  BY <1>6 DEF VerifyExclusive
<1>7. CASE ReadFormat
  <2>1. device.format.layout \in Layouts /\ pass.enforce \in BOOLEAN
    BY <1>7 DEF ReadFormat, Devices
  <2>. QED
    BY <1>7, <2>1 DEF ReadFormat
<1>8. CASE AskTarget
  <2>. DEFINE chosen == Preferred(device.accepts, cfg.target, pass.layout)
  <2>1. Accepted(device.accepts, cfg.target, pass.layout) # {} => chosen \in Formats
    BY PreferredMatches DEF Formats, Devices
  <2>. HIDE DEF chosen
  <2>2. CASE pass' = [at |-> "write", chosen |-> chosen] /\ chosen \in Formats
    BY <2>2
  <2>3. CASE Goes("incompatible")
    BY <1>8, <2>3 DEF AskTarget
  <2>4. CASE Ends
    BY <2>4
  <2>. QED
    BY <1>8, <2>1, <2>2, <2>3, <2>4 DEF AskTarget, chosen
<1>9. CASE WriteFormat
  BY <1>9 DEF WriteFormat
<1>10. CASE VerifyFormat
  BY <1>10 DEF VerifyFormat
<1>11. CASE AskDriver
  <2>1. engine.caps \in CapsOrNone /\ pass.enforce \in BOOLEAN /\ NoCaps \in CapsOrNone
    BY <1>11 DEF AskDriver, Engines, CapsOrNone
  <2>2. PICK caps \in CapsOrNone, asked \in BOOLEAN :
          pass' = [at |-> "judge", enforce |-> pass.enforce, caps |-> caps, asked |-> asked]
    BY <1>11, <2>1, ProbeType DEF AskDriver
  <2>. QED
    BY <2>1, <2>2
<1>12. CASE Judge
  BY <1>12 DEF Judge, Verdict
<1>13. CASE Disable
  BY <1>13 DEF Disable
<1>14. CASE Ours
  BY <1>14 DEF Ours
<1>15. CASE ~Pass
  BY <1>15 DEF Next, Others, UserPicksFormat, NameReset, ExclusiveChanges, Replug, Rename, Release, DiagnoseReads, World,
     AnalyzeAsks, Periodic, Deliver, BackoffEnds, AnalyzeStores, RenameSaved, DiagnoseWrites, vars
<1>. QED
  BY <1>1, <1>2, <1>3, <1>4, <1>5, <1>6, <1>7, <1>8, <1>9, <1>10, <1>11, <1>12, <1>13, <1>14,
     <1>15 DEF Pass

(* Every step keeps the type invariant.                                    *)
LEMMA TypeStep ==
  ASSUME TypeOK, [Next]_vars
  PROVE  TypeOK'
BY ScalarTypeStep, DeviceTypeStep, EngineTypeStep, UserTypeStep, PassTypeStep
   DEF TypeOK, ScalarTypes, Placed, UserTypes

-----------------------------------------------------------------------------
(* How many writes may still fail before something from outside starts the *)
(* count again.  It depends on: failed (a failure is on record, so that    *)
(* triggered passes do not write), off (the device is disabled), n (the    *)
(* name is not the kept one), x (exclusive mode is readable and allowed),  *)
(* class (the format fits, or the driver takes the target in the current   *)
(* layout, or neither), t (the triggers on their way: a pass requested, a  *)
(* property notification).                                                 *)
Bit == 0..1
Flag(b) == IF b THEN 1 ELSE 0
Most(a, b) == IF a >= b THEN a ELSE b
More(t) == IF t = 0 THEN 1 ELSE 2
Classes == {"fits", "fixable", "stuck"}

(* Between two passes, when no failure is on record.  A write that         *)
(* succeeds clears a failure: of the flags or of the format, once each,    *)
(* and disabling does too.  A stuck device is disabled and enabled again   *)
(* only as often as there are triggers.                                    *)
Later(off, n, x, class, t) ==
  CASE class = "fits" -> n + x
    [] class = "fixable" -> IF off = 1 THEN 1 + x ELSE Most(1, 2 * (n + x))
    [] class = "stuck" /\ n = 1 -> IF off = 1 THEN 1 + x ELSE 2 + 2 * x
    [] class = "stuck" /\ n = 0 -> IF x = 0 THEN 0 ELSE IF off = 0 THEN t ELSE IF t = 2 THEN 1 ELSE 0

(* A failure on record keeps every triggered pass from writing.            *)
Resting(f, off, n, x, class, t) == IF f = 1 THEN 0 ELSE Later(off, n, x, class, t)

(* In a pass that enforces: from reading the format on, from writing the   *)
(* flags on, from inspecting them on, from restoring the name on.          *)
FromFormat(f, n, x, class, t) ==
  CASE class = "fits" -> IF f = 1 THEN 0 ELSE n + x
    [] class = "fixable" -> IF f = 1 THEN Most(1, n + x) ELSE Later(0, n, x, class, t)
    [] class = "stuck" -> Later(f, n, x, class, t)

FromWrite(n, x, class, t) ==
  Most(1 + FromFormat(1, n, x, class, More(t)), FromFormat(0, n, 0, class, t))
FromExclusive(f, n, x, class, t) ==
  IF x = 1 THEN Most(FromWrite(n, x, class, t), FromFormat(f, n, x, class, t)) ELSE FromFormat(f, n, x, class, t)

FromName(f, off, n, x, class, t) ==
  IF off = 1
    THEN Most(Resting(f, 1, n, x, class, t),
              IF n = 1 THEN Most(1, Resting(f, 0, 0, x, class, More(t)))
                   ELSE Resting(f, 0, 0, x, class, t))
    ELSE IF n = 1 THEN Most(1 + FromExclusive(1, 1, x, class, More(t)), FromExclusive(f, 0, x, class, More(t)))
              ELSE FromExclusive(f, 0, x, class, t)

(* No potential is above four, and after a failure the flags and the       *)
(* format owe three at most.                                               *)
LEMMA Potentials ==
  ASSUME NEW f \in Bit, NEW off \in Bit, NEW n \in Bit, NEW x \in Bit, NEW class \in Classes, NEW t \in 0..2
  PROVE  /\ Later(off, n, x, class, t) \in 0..4
         /\ Resting(f, off, n, x, class, t) \in 0..4
         /\ FromFormat(f, n, x, class, t) \in 0..4
         /\ FromWrite(n, x, class, t) \in 0..4
         /\ FromExclusive(f, n, x, class, t) \in 0..4 /\ FromExclusive(1, n, x, class, t) <= 3
         /\ FromName(f, off, n, x, class, t) \in 0..4
<1>1. /\ Later(off, n, x, class, t) \in 0..4 /\ Resting(f, off, n, x, class, t) \in 0..4
      /\ FromFormat(f, n, x, class, t) \in 0..4
  BY DEF Bit, Classes, Most, More, Later, Resting, FromFormat
<1>2. FromWrite(n, x, class, t) \in 0..4
  BY DEF Bit, Classes, Most, More, Later, FromFormat, FromWrite
<1>3. FromExclusive(f, n, x, class, t) \in 0..4 /\ FromExclusive(1, n, x, class, t) <= 3
  BY DEF Bit, Classes, Most, More, Later, FromFormat, FromWrite, FromExclusive
<1>4. FromName(f, off, n, x, class, t) \in 0..4
  BY DEF Bit, Classes, Most, More, Later, Resting, FromFormat, FromWrite, FromExclusive, FromName
<1>. QED
  BY <1>1, <1>2, <1>3, <1>4

(* With fewer triggers on their way less is owed.                          *)
LEMMA FewerTriggers ==
  ASSUME NEW f \in Bit, NEW off \in Bit, NEW n \in Bit, NEW x \in Bit, NEW class \in Classes,
         NEW t \in 0..2, NEW u \in 0..2, u <= t
  PROVE  /\ Later(off, n, x, class, u) <= Later(off, n, x, class, t)
         /\ Resting(f, off, n, x, class, u) <= Resting(f, off, n, x, class, t)
         /\ FromFormat(f, n, x, class, u) <= FromFormat(f, n, x, class, t)
         /\ FromWrite(n, x, class, u) <= FromWrite(n, x, class, t)
         /\ FromExclusive(f, n, x, class, u) <= FromExclusive(f, n, x, class, t)
         /\ FromName(f, off, n, x, class, u) <= FromName(f, off, n, x, class, t)
<1>1. /\ Later(off, n, x, class, u) <= Later(off, n, x, class, t)
      /\ Resting(f, off, n, x, class, u) <= Resting(f, off, n, x, class, t)
      /\ FromFormat(f, n, x, class, u) <= FromFormat(f, n, x, class, t)
  BY DEF Bit, Classes, Most, More, Later, Resting, FromFormat
<1>2. FromWrite(n, x, class, u) <= FromWrite(n, x, class, t)
  BY DEF Bit, Classes, Most, More, Later, FromFormat, FromWrite
<1>3. FromExclusive(f, n, x, class, u) <= FromExclusive(f, n, x, class, t)
  BY DEF Bit, Classes, Most, More, Later, FromFormat, FromWrite, FromExclusive
<1>4. FromName(f, off, n, x, class, u) <= FromName(f, off, n, x, class, t)
  <2>1. CASE off = 1
    BY <2>1 DEF Bit, Classes, Most, More, Later, Resting, FromName
  <2>2. CASE off = 0
    BY <2>2 DEF Bit, Classes, Most, More, Later, FromFormat, FromWrite, FromExclusive, FromName
  <2>. QED
    BY <2>1, <2>2 DEF Bit
<1>. QED
  BY <1>1, <1>2, <1>3, <1>4

(* A pass owes no more than the device at rest that it is triggered for.   *)
LEMMA PassTakesTrigger ==
  ASSUME NEW off \in Bit, NEW n \in Bit, NEW x \in Bit, NEW class \in Classes, NEW t \in 1..2
  PROVE  FromName(0, off, n, x, class, t - 1) <= Resting(0, off, n, x, class, t)
BY DEF Bit, Classes, Most, More, Later, Resting, FromFormat, FromWrite, FromExclusive, FromName

(* A pass that ends early, or skips a step, owes no more than before.      *)
LEMMA LeavesLess ==
  ASSUME NEW f \in Bit, NEW off \in Bit, NEW n \in Bit, NEW x \in Bit, NEW class \in Classes, NEW t \in 0..2
  PROVE  /\ Resting(f, off, n, x, class, t) <= FromName(f, off, n, x, class, t)
         /\ Resting(f, 0, n, x, class, t) <= FromFormat(f, n, x, class, t)
         /\ Resting(f, 1, n, x, class, t) <= Resting(f, 0, n, x, class, t)
         /\ FromFormat(f, n, x, class, t) <= FromExclusive(f, n, x, class, t)
         /\ x = 1 => FromWrite(n, x, class, t) <= FromExclusive(f, n, x, class, t)
         /\ FromFormat(1, n, x, class, t) <= FromFormat(0, n, x, class, t)
         /\ Later(1, n, x, class, t) <= Later(0, n, x, class, t)
         /\ Resting(f, 0, n, x, class, t) <= Later(f, n, x, class, t)
<1>1. Resting(f, off, n, x, class, t) <= FromName(f, off, n, x, class, t)
  BY DEF Bit, Classes, Most, More, Later, Resting, FromFormat, FromWrite, FromExclusive, FromName
<1>2. /\ FromFormat(f, n, x, class, t) <= FromExclusive(f, n, x, class, t)
      /\ x = 1 => FromWrite(n, x, class, t) <= FromExclusive(f, n, x, class, t)
  BY DEF Bit, Classes, Most, More, Later, FromFormat, FromWrite, FromExclusive
<1>3. /\ Resting(f, 0, n, x, class, t) <= FromFormat(f, n, x, class, t)
      /\ Resting(f, 1, n, x, class, t) <= Resting(f, 0, n, x, class, t)
      /\ FromFormat(1, n, x, class, t) <= FromFormat(0, n, x, class, t)
      /\ Later(1, n, x, class, t) <= Later(0, n, x, class, t)
      /\ Resting(f, 0, n, x, class, t) <= Later(f, n, x, class, t)
  BY DEF Bit, Classes, Most, More, Later, Resting, FromFormat
<1>. QED
  BY <1>1, <1>2, <1>3

(* Restoring the name leaves to the rest of the pass what it owes, one     *)
(* less when the name cannot be written.                                   *)
LEMMA NameStep ==
  ASSUME NEW f \in Bit, NEW off \in Bit, NEW n \in Bit, NEW x \in Bit, NEW class \in Classes,
         NEW t \in 0..2, NEW u \in {t, More(t)}
  PROVE  /\ Resting(f, 0, 0, x, class, t) <= FromName(f, 1, 0, x, class, t)
         /\ FromExclusive(f, 0, x, class, t) <= FromName(f, 0, 0, x, class, t)
         /\ Resting(f, 0, 0, x, class, u) <= FromName(f, 1, 1, x, class, t)
         /\ FromExclusive(f, 0, x, class, u) <= FromName(f, 0, 1, x, class, t)
         /\ Resting(1, 0, 1, x, class, u) < FromName(f, 1, 1, x, class, t)
         /\ FromExclusive(1, 1, x, class, u) < FromName(f, 0, 1, x, class, t)
<1>1. More(t) \in 0..2 /\ u \in 0..2 /\ u <= More(t) /\ {0, 1} \subseteq Bit
  BY DEF More, Bit
<1>2. /\ Resting(f, 0, 0, x, class, u) <= Resting(f, 0, 0, x, class, More(t))
      /\ FromExclusive(f, 0, x, class, u) <= FromExclusive(f, 0, x, class, More(t))
      /\ FromExclusive(1, 1, x, class, u) <= FromExclusive(1, 1, x, class, More(t))
  BY <1>1, FewerTriggers
<1>3. \A v \in {t, u, More(t)} :
        /\ Resting(f, 0, 0, x, class, v) \in 0..4 /\ Resting(f, 1, 0, x, class, v) \in 0..4
        /\ Resting(f, 1, 1, x, class, v) \in 0..4
        /\ FromExclusive(f, 0, x, class, v) \in 0..4 /\ FromExclusive(1, 1, x, class, v) \in 0..4
  BY <1>1, Potentials
<1>4. Resting(1, 0, 1, x, class, u) = 0
  BY DEF Resting
<1>5. /\ Resting(f, 0, 0, x, class, t) <= FromName(f, 1, 0, x, class, t)
      /\ FromExclusive(f, 0, x, class, t) <= FromName(f, 0, 0, x, class, t)
  BY <1>3 DEF FromName, Most
<1>6. /\ Resting(f, 0, 0, x, class, u) <= FromName(f, 1, 1, x, class, t)
      /\ Resting(1, 0, 1, x, class, u) < FromName(f, 1, 1, x, class, t)
  BY <1>2, <1>3, <1>4 DEF FromName, Most
<1>7. /\ FromExclusive(f, 0, x, class, u) <= FromName(f, 0, 1, x, class, t)
      /\ FromExclusive(1, 1, x, class, u) < FromName(f, 0, 1, x, class, t)
  BY <1>2, <1>3 DEF FromName, Most
<1>. QED
  BY <1>5, <1>6, <1>7

(* The same for the flags.                                                 *)
LEMMA WriteStep ==
  ASSUME NEW n \in Bit, NEW x \in Bit, NEW y \in Bit, y <= x, NEW class \in Classes,
         NEW t \in 0..2, NEW u \in {t, More(t)}
  PROVE  /\ FromFormat(0, n, 0, class, u) <= FromWrite(n, x, class, t)
         /\ FromFormat(1, n, y, class, u) < FromWrite(n, x, class, t)
BY DEF Bit, Classes, Most, More, Later, Resting, FromFormat, FromWrite, FromExclusive, FromName

-----------------------------------------------------------------------------
(* The situation of a state, and what it owes by where the pass is.  A     *)
(* pass that enumerated a name or began with a kept name that are no       *)
(* longer true may owe anything: an outside event came between, and the    *)
(* count started again.                                                    *)

Off == Flag(device.state = "disabled")
Wrong == Flag(engine.kept # NoName /\ device.name # engine.kept)
Open == Flag(Readable /\ Allowed)
Held == Flag(engine.failed)
Class ==
  IF Matches(device.format, cfg.target) THEN "fits"
  ELSE IF Accepted(device.accepts, cfg.target, device.format.layout) # {} THEN "fixable" ELSE "stuck"
Triggers == Flag(engine.due = "triggered") + Flag("property" \in notes)

Stale == pass.kept # engine.kept \/ pass.name # device.name

AtRest == Resting(Held, Off, Wrong, Open, Class, Triggers)
AtName == FromName(Held, Off, Wrong, Open, Class, Triggers)
AtFormat(f) == FromFormat(f, Wrong, Open, Class, Triggers)
Enforced(owed) == IF pass.enforce THEN owed ELSE AtRest

Owed ==
  CASE pass.at = "idle" -> IF engine.due = "full" THEN 0 ELSE AtRest
    [] pass.at = "enter" ->
         IF Stale THEN 4 ELSE IF cfg.enforce /\ (pass.full \/ ~engine.failed) THEN AtName ELSE AtRest
    [] pass.at = "name" -> Enforced(IF Stale THEN 4 ELSE AtName)
    [] pass.at = "exclusive" -> Enforced(FromExclusive(Held, Wrong, Open, Class, Triggers))
    [] pass.at = "exclusiveWrite" -> FromWrite(Wrong, Open, Class, Triggers)
    [] pass.at = "exclusiveVerify" -> AtFormat(Open)
    [] pass.at = "format" -> Enforced(AtFormat(Held))
    [] pass.at = "ask" ->
         Enforced(IF pass.layout # device.format.layout \/ Class = "fits" THEN 4 ELSE AtFormat(Held))
    [] pass.at = "write" -> IF Class = "fits" THEN 1 + Wrong + Open ELSE Most(1, Wrong + Open)
    [] pass.at = "verify" -> IF Class = "fits" THEN Wrong + Open ELSE 0
    [] pass.at \in {"incompatible", "judge"} -> Enforced(Later(Held, Wrong, Open, Class, Triggers))
    [] pass.at = "disable" -> Later(Held, Wrong, Open, Class, Triggers)
    [] pass.at = "ours" -> Enforced(Resting(Held, 0, Wrong, Open, Class, Triggers))

(* What a pass knows of the device: whether it is disabled, that its       *)
(* choice is at the target, that it writes flags only when it enforces.    *)
PassKnows ==
  /\ pass.at \in {"enter", "name", "exclusive", "exclusiveWrite", "exclusiveVerify", "format", "ours"} =>
        (pass.state = "disabled" <=> device.state = "disabled")
  /\ pass.at \in {"exclusive", "exclusiveWrite", "exclusiveVerify", "format"} => pass.state # "disabled"
  /\ pass.at = "ours" => pass.state = "disabled"
  /\ pass.at \in {"ask", "write", "verify", "incompatible", "judge", "disable"} => device.state # "disabled"
  /\ engine.due = "full" => pass.at = "idle"
  /\ pass.at \in {"write", "verify"} => Matches(pass.chosen, cfg.target)
  /\ pass.at \in {"exclusiveWrite", "exclusiveVerify"} => pass.enforce

(* The writes that have failed and those that may still fail are four.     *)
Room(failures, owed) == failures + owed <= 4
Bound == Room(tries, Owed)

(* What a step does to the writes that have failed and to those owed.      *)
Counts ==
  \/ tries' = 0
  \/ tries' = tries /\ Owed' <= Owed
  \/ tries' = tries + 1 /\ Owed' < Owed

(* The situation has the values that the potentials are about, ...         *)
LEMMA Situation ==
  /\ Off \in Bit /\ Wrong \in Bit /\ Open \in Bit /\ Held \in Bit
  /\ Class \in Classes /\ Triggers \in 0..2
BY DEF Off, Wrong, Open, Held, Class, Triggers, Flag, Bit, Classes

(* What is owed is a number up to four.                                    *)
LEMMA OwedType ==
  ASSUME TypeOK
  PROVE  Owed \in Nat /\ Owed <= 4
<1>1. /\ AtRest \in 0..4 /\ AtName \in 0..4 /\ \A f \in Bit : AtFormat(f) \in 0..4
      /\ FromExclusive(Held, Wrong, Open, Class, Triggers) \in 0..4
      /\ FromWrite(Wrong, Open, Class, Triggers) \in 0..4
      /\ Later(Held, Wrong, Open, Class, Triggers) \in 0..4
      /\ Resting(Held, 0, Wrong, Open, Class, Triggers) \in 0..4
  <2>1. 0 \in Bit
    BY DEF Bit
  <2>. QED
    BY <2>1, Situation, Potentials DEF AtRest, AtName, AtFormat
<1>2. Wrong \in 0..1 /\ Open \in 0..1 /\ Open \in Bit /\ Held \in Bit
  BY Situation DEF Bit
<1>3. pass.at \in {"idle", "enter", "name", "exclusive", "exclusiveWrite", "exclusiveVerify", "format", "ask",
                  "write", "verify", "incompatible", "judge", "disable", "ours"}
  BY DEF TypeOK, Passes
<1>4. Owed \in 0..4
  BY <1>1, <1>2, <1>3 DEF Owed, Enforced, Most
<1>. QED
  BY <1>4

(* A pass that goes on keeps what it has read.                             *)
LEMMA GoesKeeps ==
  ASSUME TypeOK, NEW at, Goes(at)
  PROVE  /\ pass'.at = at
         /\ pass.at \in {"name", "exclusive", "exclusiveWrite", "exclusiveVerify", "format", "ours"} =>
              /\ pass'.state = pass.state /\ pass'.enforce = pass.enforce
              /\ pass'.kept = pass.kept /\ pass'.name = pass.name
         /\ pass.at = "ask" => pass'.enforce = pass.enforce /\ pass'.layout = pass.layout
         /\ pass.at = "write" => pass'.chosen = pass.chosen
BY DEF TypeOK, Passes, Goes

(* What a failure, a success, a record and an answer change of what the    *)
(* engine knows.                                                           *)
LEMMA EngineFields ==
  ASSUME NEW e \in Engines
  PROVE  /\ Failed(e).failed /\ ~Cleared(e).failed
         /\ Failed(e).due = e.due /\ Cleared(e).due = e.due
         /\ Failed(e).kept = e.kept /\ Cleared(e).kept = e.kept
         /\ \A caps : /\ [e EXCEPT !.record = caps].due = e.due
                      /\ [e EXCEPT !.record = caps].kept = e.kept
                      /\ [e EXCEPT !.record = caps].failed = e.failed
                      /\ [e EXCEPT !.caps = caps].due = e.due
                      /\ [e EXCEPT !.caps = caps].kept = e.kept
                      /\ [e EXCEPT !.caps = caps].failed = e.failed
                      /\ [Cleared(e) EXCEPT !.record = caps].due = e.due
                      /\ [Cleared(e) EXCEPT !.record = caps].kept = e.kept
                      /\ ~[Cleared(e) EXCEPT !.record = caps].failed
BY DEF Engines, Failed, Cleared

(* Every step keeps what the pass knows of the device.                     *)
LEMMA PassKnowsStep ==
  ASSUME TypeOK, PassKnows, [Next]_vars
  PROVE  PassKnows'
<1>. USE DEF PassKnows, Silent, PassOnly, Step, Ends, Idle, user, world
<1>0. engine \in Engines /\ device \in Devices
  BY DEF TypeOK
<1>1. CASE Begin
  BY <1>1 DEF Begin
<1>2. CASE Enter
  BY <1>2 DEF Enter
<1>3. CASE RestoreName
  <2>1. device'.state = device.state /\ engine'.due = engine.due
    BY <1>3, <1>0, EngineFields DEF RestoreName, Devices
  <2>2. pass'.at = AfterName /\ pass'.state = pass.state
    BY <1>3, GoesKeeps DEF RestoreName
  <2>. QED
    BY <1>3, <2>1, <2>2 DEF RestoreName, AfterName
<1>4. CASE Inspect
  <2>1. /\ pass'.at \in {"exclusiveWrite", "format"} /\ pass'.state = pass.state
        /\ pass'.at = "exclusiveWrite" => pass'.enforce
    BY <1>4, GoesKeeps DEF Inspect
  <2>. QED
    BY <1>4, <2>1 DEF Inspect
<1>5. CASE WriteExclusive
  <2>1. device'.state = device.state /\ engine'.due = engine.due
    <3>1. device' \in {device, [device EXCEPT !.allow = "off"], [device EXCEPT !.allow = "off", !.priority = "off"]}
      BY <1>5 DEF WriteExclusive
    <3>2. engine' \in {engine, Failed(engine)}
      BY <1>5 DEF WriteExclusive
    <3>3. device'.state = device.state
      BY <1>0, <3>1 DEF Devices
    <3>. QED
      BY <1>0, <3>2, <3>3, EngineFields
  <2>2. /\ pass'.at \in {"exclusiveVerify", "format"} /\ pass'.state = pass.state
        /\ pass'.enforce = pass.enforce
    BY <1>5, GoesKeeps DEF WriteExclusive
  <2>. QED
    BY <1>5, <2>1, <2>2 DEF WriteExclusive
<1>6. CASE VerifyExclusive
  <2>1. engine'.due = engine.due
    BY <1>6, <1>0, EngineFields DEF VerifyExclusive
  <2>2. pass'.at = "format" /\ pass'.state = pass.state
    BY <1>6, GoesKeeps DEF VerifyExclusive
  <2>. QED
    BY <1>6, <2>1, <2>2 DEF VerifyExclusive
<1>7. CASE ReadFormat
  BY <1>7 DEF ReadFormat
<1>8. CASE AskTarget
  <2>1. Accepted(device.accepts, cfg.target, pass.layout) # {} =>
          Matches(Preferred(device.accepts, cfg.target, pass.layout), cfg.target)
    BY PreferredMatches, EndpointAssumption DEF TypeOK
  <2>2. CASE Goes("incompatible")
    BY <1>8, <2>2, GoesKeeps DEF AskTarget
  <2>3. CASE Ends
    BY <1>8, <2>3 DEF AskTarget
  <2>4. CASE /\ Accepted(device.accepts, cfg.target, pass.layout) # {}
             /\ pass' = [at |-> "write", chosen |-> Preferred(device.accepts, cfg.target, pass.layout)]
    BY <1>8, <2>1, <2>4 DEF AskTarget
  <2>. QED
    BY <1>8, <2>2, <2>3, <2>4 DEF AskTarget
<1>9. CASE WriteFormat
  <2>1. device'.state = device.state /\ engine'.due = engine.due
    BY <1>9, <1>0, EngineFields DEF WriteFormat, Devices
  <2>2. pass'.at \in {"idle", "verify"} /\ (pass'.at = "verify" => pass'.chosen = pass.chosen)
    BY <1>9, GoesKeeps DEF WriteFormat
  <2>. QED
    BY <1>9, <2>1, <2>2 DEF WriteFormat
<1>10. CASE VerifyFormat
  BY <1>10 DEF VerifyFormat
<1>11. CASE AskDriver
  BY <1>11 DEF AskDriver
<1>12. CASE Judge
  BY <1>12 DEF Judge
<1>13. CASE Disable
  BY <1>13 DEF Disable
<1>14. CASE Ours
  BY <1>14 DEF Ours
<1>15. CASE UserPicksFormat
  BY <1>15, <1>0 DEF UserPicksFormat, World, Devices
<1>16. CASE NameReset
  BY <1>16, <1>0 DEF NameReset, World, Devices
<1>17. CASE ExclusiveChanges
  BY <1>17, <1>0 DEF ExclusiveChanges, World, Devices
<1>18. CASE Replug
  BY <1>18, <1>0 DEF Replug, World, Devices
<1>19. CASE Rename
  BY <1>19, <1>0 DEF Rename, World, Devices
<1>20. CASE Release \/ DiagnoseReads \/ AnalyzeAsks
  BY <1>20 DEF Release, DiagnoseReads, AnalyzeAsks, World
<1>23. CASE Periodic
  BY <1>23 DEF Periodic
<1>24. CASE (\E kind \in notes : Deliver(kind)) \/ RenameSaved
  BY <1>24, <1>0 DEF Deliver, RenameSaved, Rescan, Cleared, Engines
<1>25. CASE BackoffEnds \/ AnalyzeStores
  <2>1. engine'.due = engine.due
    BY <1>25, <1>0 DEF BackoffEnds, AnalyzeStores, Cleared, Engines
  <2>. QED
    BY <1>25, <2>1 DEF BackoffEnds, AnalyzeStores
<1>28. CASE DiagnoseWrites
  BY <1>28, <1>0 DEF DiagnoseWrites, Devices
<1>29. CASE UNCHANGED vars
  BY <1>29 DEF vars
<1>. QED
  BY <1>1, <1>2, <1>3, <1>4, <1>5, <1>6, <1>7, <1>8, <1>9, <1>10, <1>11, <1>12, <1>13, <1>14,
     <1>15, <1>16, <1>17, <1>18, <1>19, <1>20, <1>23, <1>24, <1>25, <1>28, <1>29 DEF Next, Pass, Others
(* The inductive invariant.                                                *)
IInv == TypeOK /\ PassKnows /\ Bound

(* ... in the next state too.                                              *)
LEMMA SituationNext ==
  /\ Off' \in Bit /\ Wrong' \in Bit /\ Open' \in Bit /\ Held' \in Bit
  /\ Class' \in Classes /\ Triggers' \in 0..2
BY DEF Off, Wrong, Open, Held, Class, Triggers, Flag, Bit, Classes

(* What each part of the situation depends on.                             *)
LEMMA SameSituation ==
  /\ device' = device => Off' = Off /\ Open' = Open
  /\ device' = device /\ cfg' = cfg => Class' = Class
  /\ device' = device /\ engine'.kept = engine.kept => Wrong' = Wrong
  /\ engine'.failed = engine.failed => Held' = Held
  /\ engine'.failed => Held' = 1
  /\ ~engine'.failed => Held' = 0
  /\ engine'.due = engine.due /\ notes' = notes => Triggers' = Triggers
  /\ engine'.due = engine.due /\ notes' = Property => Triggers' \in {Triggers, More(Triggers)}
BY DEF Off, Wrong, Open, Held, Class, Triggers, Flag, Readable, Allowed, Property, More

(* OwedType in the next state.                                             *)
LEMMA OwedTypeNext == TypeOK' => (Owed \in Nat /\ Owed <= 4)'
<1>1. TypeOK => Owed \in Nat /\ Owed <= 4
  BY OwedType
<1>. QED
  BY <1>1, PTL

(* The counts stay within four when a failure takes away from what is      *)
(* owed.                                                                   *)
LEMMA RoomLeft ==
  ASSUME NEW a \in Nat, NEW b \in Nat, Room(a, b), NEW c \in Nat, NEW d \in Nat, d <= 4,
         c = 0 \/ (c = a /\ d <= b) \/ (c = a + 1 /\ d < b)
  PROVE  Room(c, d)
BY DEF Room

(* A step with Counts keeps the bound.                                     *)
LEMMA BoundStep ==
  ASSUME TypeOK, TypeOK', Bound, Counts
  PROVE  Bound'
<1>1. /\ tries \in Nat /\ Owed \in Nat /\ Room(tries, Owed)
      /\ tries' \in Nat /\ Owed' \in Nat /\ Owed' <= 4
  BY OwedType, OwedTypeNext DEF TypeOK, Bound
<1>2. Room(tries', Owed')
  BY <1>1, RoomLeft DEF Counts
<1>. QED
  BY <1>2 DEF Bound

(* A step that leaves the pass and its situation alone leaves what is owed. *)
LEMMA OwedFrame ==
  ASSUME TypeOK, device' = device, cfg' = cfg, pass' = pass, engine'.kept = engine.kept,
         engine'.failed = engine.failed, engine'.due = engine.due, notes' = notes
  PROVE  Owed' = Owed
BY SameSituation DEF Owed, Enforced, AtRest, AtName, AtFormat, Stale

(* The first step of a pass takes the trigger that it answers.             *)
LEMMA CountsBegin ==
  ASSUME TypeOK, PassKnows, Begin
  PROVE  Counts
<1>. DEFINE late == FromName(0, Off, Wrong, Open, Class, Triggers - 1)
            early == Resting(Held, Off, Wrong, Open, Class, Triggers - 1)
<1>1. CASE engine.due = "full"
  BY <1>1 DEF Begin, Counts
<1>2. CASE engine.due = "triggered"
  <2>1. /\ Triggers \in 1..2 /\ Triggers' = Triggers - 1 /\ Triggers - 1 \in 0..2 /\ Triggers - 1 <= Triggers
        /\ Off' = Off /\ Wrong' = Wrong /\ Open' = Open /\ Class' = Class /\ Held' = Held
    <3>1. device' = device /\ cfg' = cfg /\ engine'.kept = engine.kept /\ engine'.failed = engine.failed
      BY DEF Begin, TypeOK, Engines
    <3>2. Triggers = 1 + Flag("property" \in notes) /\ Triggers' = 0 + Flag("property" \in notes)
      BY <1>2 DEF Begin, Triggers, Flag, TypeOK, Engines
    <3>. QED
      BY <3>1, <3>2, SameSituation DEF Flag
  <2>2. Owed = AtRest
    BY <1>2 DEF Owed, Begin, Step
  <2>3. ~Stale' /\ pass'.at = "enter" /\ pass'.full = FALSE
    BY <1>2 DEF Begin, Stale, TypeOK, Engines
  <2>4. Owed' = IF cfg.enforce /\ ~engine.failed THEN late ELSE early
    BY <2>1, <2>3 DEF Owed, AtName, AtRest, Held, Flag, Begin, TypeOK, Engines
  <2>5. early <= AtRest
    BY <2>1, Situation, FewerTriggers DEF AtRest
  <2>6. ~engine.failed => late <= AtRest
    BY <2>1, Situation, PassTakesTrigger DEF AtRest, Held, Flag
  <2>. QED
    BY <1>2, <2>2, <2>4, <2>5, <2>6 DEF Counts, Begin
<1>. QED
  BY <1>1, <1>2 DEF Begin, TypeOK, Engines
(* The potentials of the state, and what a pass that ends at once gives    *)
(* up.                                                                     *)
LEMMA OwedValues ==
  ASSUME TypeOK
  PROVE  /\ AtRest \in Nat /\ AtRest <= 4 /\ AtName \in Nat /\ AtName <= 4 /\ AtRest <= AtName
         /\ AtFormat(Held) \in Nat /\ AtFormat(Held) <= 4
<1>1. AtRest \in 0..4 /\ AtName \in 0..4 /\ AtFormat(Held) \in 0..4
  BY Situation, Potentials DEF AtRest, AtName, AtFormat
<1>2. AtRest <= AtName
  BY Situation, LeavesLess DEF AtRest, AtName
<1>. QED
  BY <1>1, <1>2

(* A pass that ends owes what a device at rest owes.                       *)
LEMMA EndsAtRest ==
  ASSUME PassKnows, pass.at # "idle", Ends, engine'.due = engine.due
  PROVE  Owed' = AtRest'
BY DEF PassKnows, Ends, Idle, Owed

(* The situation when only the pass goes on.                               *)
LEMMA Unmoved ==
  ASSUME device' = device, cfg' = cfg, engine'.kept = engine.kept, engine'.due = engine.due, notes' = notes
  PROVE  /\ Off' = Off /\ Wrong' = Wrong /\ Open' = Open /\ Class' = Class /\ Triggers' = Triggers
         /\ engine'.failed = engine.failed => Held' = Held
BY SameSituation

(* Entering the device or passing it over owes nothing new.                *)
LEMMA CountsEnter ==
  ASSUME TypeOK, PassKnows, Enter
  PROVE  Counts
<1>. DEFINE enforced == cfg.enforce /\ (pass.full \/ ~engine.failed)
<1>1. /\ Off' = Off /\ Wrong' = Wrong /\ Open' = Open /\ Class' = Class /\ Triggers' = Triggers
      /\ Held' = Held
  BY Unmoved DEF Enter, Silent, PassOnly
<1>2. Owed = IF Stale THEN 4 ELSE IF enforced THEN AtName ELSE AtRest
  BY DEF Enter, Step, Owed
<1>3. AtRest' = AtRest /\ AtName' = AtName
  BY <1>1 DEF AtRest, AtName
<1>4. CASE Ends
  <2>1. Owed' = AtRest
    BY <1>4, <1>3, EndsAtRest DEF Enter, Step
  <2>. QED
    BY <2>1, <1>2, OwedValues DEF Counts, Enter
<1>5. CASE \E state : pass' = [at |-> "name", kept |-> pass.kept, name |-> pass.name, state |-> state,
                               enforce |-> enforced]
  <2>0. enforced \in BOOLEAN
    BY DEF Enter, Step, TypeOK, Passes, Engines
  <2>1. Stale' = Stale
    BY <1>5 DEF Stale, Enter, Silent
  <2>2. pass'.at = "name" /\ pass'.enforce = enforced
    BY <1>5
  <2>3. CASE ~enforced
    <3>1. Owed' = AtRest
      BY <1>3, <2>2, <2>3 DEF Owed, Enforced
    <3>. QED
      BY <3>1, <2>3, <1>2, OwedValues DEF Counts, Enter
  <2>4. CASE enforced
    <3>1. Owed' = IF Stale THEN 4 ELSE AtName
      BY <1>3, <2>1, <2>2, <2>4 DEF Owed, Enforced
    <3>2. Owed = IF Stale THEN 4 ELSE AtName
      BY <1>2, <2>4
    <3>3. Owed' <= Owed
      BY <3>1, <3>2, OwedValues
    <3>. QED
      BY <3>3 DEF Counts, Enter
  <2>. QED
    BY <2>0, <2>3, <2>4
<1>. QED
  BY <1>4, <1>5 DEF Enter

(* The name: written, it is wrong no more; not written, that is a failure  *)
(* owed.                                                                   *)
LEMMA CountsRestoreName ==
  ASSUME TypeOK, PassKnows, RestoreName
  PROVE  Counts
<1>. DEFINE rest == Resting(Held, 0, Wrong, Open, Class, Triggers)
            exclusive == FromExclusive(Held, Wrong, Open, Class, Triggers)
<1>0. /\ pass.at = "name" /\ pass.enforce \in BOOLEAN /\ pass'.at = AfterName /\ pass'.enforce = pass.enforce
      /\ cfg' = cfg /\ engine \in Engines /\ device \in Devices
      /\ Off = 1 => pass'.at = "ours"
      /\ Off = 0 => pass'.at \in {"exclusive", "format"}
      /\ Off \in {0, 1}
  BY GoesKeeps DEF RestoreName, Step, PassKnows, PassOnly, AfterName, TypeOK, Passes, Off, Flag
<1>1. Owed = IF pass.enforce THEN IF Stale THEN 4 ELSE AtName ELSE AtRest
  BY <1>0 DEF Owed, Enforced
<1>2. CASE ~pass.enforce
  <2>1. UNCHANGED <<device, notes, engine, tries>>
    BY <1>2 DEF RestoreName, Silent
  <2>2. AtRest' = AtRest
    BY <2>1, <1>0, Unmoved DEF AtRest
  <2>3. Owed' = AtRest
    BY <1>0, <1>2, <2>2 DEF Owed, Enforced
  <2>. QED
    BY <1>1, <1>2, <2>1, <2>3, OwedValues DEF Counts
<1>3. CASE pass.enforce
  <2>1. /\ Off = 1 => Owed' = rest'
        /\ Off = 0 => Owed' \in {exclusive', AtFormat(Held)'}
    BY <1>0, <1>3 DEF Owed, Enforced
  <2>2. /\ rest' \in Nat /\ exclusive' \in Nat /\ rest' <= 4 /\ exclusive' <= 4
        /\ AtFormat(Held)' \in Nat /\ AtFormat(Held)' <= exclusive'
        /\ Held' = 1 => exclusive' <= 3 /\ rest' = 0
    BY SituationNext, Potentials, LeavesLess DEF AtFormat, Bit, Resting
  <2>3. \/ pass.kept = NoName \/ pass.name = pass.kept
        \/ UNCHANGED <<engine, tries>> /\ device' = [device EXCEPT !.name = pass.kept] /\ notes' = Property
        \/ engine' = Failed(engine) /\ Tried(1) /\ UNCHANGED device /\ notes' \in {notes, Property}
    BY <1>3 DEF RestoreName
  <2>4. CASE Stale
    <3>1. UNCHANGED tries \/ (tries' = tries + 1 /\ Held' = 1)
      BY <1>0, SameSituation, EngineFields DEF RestoreName, Tried
    <3>. QED
      BY <3>1, <2>4, <1>0, <1>1, <1>3, <2>1, <2>2 DEF Counts
  <2>5. CASE ~Stale /\ (pass.kept = NoName \/ pass.name = pass.kept)
    <3>1. UNCHANGED <<device, notes, engine, tries>>
      BY <2>5, <1>3 DEF RestoreName, Silent
    <3>2. Wrong = 0
      BY <2>5 DEF Stale, Wrong, Flag
    <3>3. /\ Off = 1 => rest <= AtName
          /\ Off = 0 => exclusive <= AtName
      BY <3>2, Situation, NameStep DEF AtName
    <3>4. rest' = rest /\ exclusive' = exclusive /\ AtFormat(Held)' = AtFormat(Held)
      BY <3>1, <1>0, Unmoved DEF AtFormat
    <3>5. Owed' <= AtName
      BY <1>0, <2>1, <2>2, <3>3, <3>4, OwedValues
    <3>. QED
      BY <1>1, <1>3, <2>5, <3>1, <3>5 DEF Counts
  <2>6. CASE /\ ~Stale /\ ~(pass.kept = NoName \/ pass.name = pass.kept) /\ UNCHANGED <<engine, tries>>
             /\ device' = [device EXCEPT !.name = pass.kept] /\ notes' = Property
    <3>1. Wrong = 1 /\ Wrong' = 0 /\ Off' = Off /\ Open' = Open
      BY <2>6, <1>0 DEF Stale, Wrong, Off, Open, Readable, Allowed, Flag, Devices
    <3>2. Class' = Class
      BY <2>6, <1>0 DEF Class, Devices
    <3>3. Triggers' \in {Triggers, More(Triggers)} /\ Held' = Held
      BY <2>6, SameSituation
    <3>4. /\ Off = 1 => rest' <= AtName
          /\ Off = 0 => exclusive' <= AtName
      BY <3>1, <3>2, <3>3, Situation, NameStep DEF AtName
    <3>5. Owed' <= AtName
      BY <1>0, <2>1, <2>2, <3>4, OwedValues
    <3>. QED
      BY <1>1, <1>3, <2>6, <3>5 DEF Counts
  <2>7. CASE /\ ~Stale /\ ~(pass.kept = NoName \/ pass.name = pass.kept)
             /\ engine' = Failed(engine) /\ Tried(1) /\ UNCHANGED device /\ notes' \in {notes, Property}
    <3>1. Wrong = 1 /\ Held' = 1 /\ engine'.due = engine.due /\ engine'.kept = engine.kept
      BY <2>7, <1>0, EngineFields, SameSituation DEF Stale, Wrong, Flag
    <3>2. Wrong' = Wrong /\ Off' = Off /\ Open' = Open /\ Class' = Class
      BY <2>7, <3>1, <1>0, SameSituation
    <3>3. Triggers' \in {Triggers, More(Triggers)}
      BY <2>7, <3>1, SameSituation
    <3>4. /\ Off = 1 => rest' < AtName
          /\ Off = 0 => exclusive' < AtName
      BY <3>1, <3>2, <3>3, Situation, NameStep DEF AtName
    <3>5. Owed' < AtName
      BY <1>0, <2>1, <2>2, <3>4, OwedValues
    <3>. QED
      BY <1>1, <1>3, <2>7, <3>5 DEF Counts, Tried
  <2>. QED
    BY <2>3, <2>4, <2>5, <2>6, <2>7
<1>. QED
  BY <1>0, <1>2, <1>3

(* Inspecting exclusive mode goes to the write or to the format.           *)
LEMMA CountsInspect ==
  ASSUME TypeOK, PassKnows, Inspect
  PROVE  Counts
<1>. DEFINE exclusive == FromExclusive(Held, Wrong, Open, Class, Triggers)
            write == FromWrite(Wrong, Open, Class, Triggers)
<1>1. /\ Off' = Off /\ Wrong' = Wrong /\ Open' = Open /\ Class' = Class /\ Triggers' = Triggers
      /\ Held' = Held /\ AtRest' = AtRest /\ AtFormat(Held)' = AtFormat(Held)
  BY Unmoved DEF Inspect, Silent, PassOnly, AtRest, AtFormat
<1>2. /\ pass.at = "exclusive" /\ pass'.enforce = pass.enforce /\ pass.enforce \in BOOLEAN
      /\ \/ pass'.at = "format"
         \/ pass'.at = "exclusiveWrite" /\ Open = 1 /\ pass.enforce
  BY GoesKeeps DEF Inspect, Step, TypeOK, Passes, Open, Flag
<1>3. Owed = IF pass.enforce THEN exclusive ELSE AtRest
  BY <1>2 DEF Owed, Enforced
<1>4. exclusive \in Nat /\ AtFormat(Held) <= exclusive /\ (Open = 1 => write <= exclusive)
  BY Situation, Potentials, LeavesLess DEF AtFormat
<1>5. CASE pass'.at = "format"
  <2>1. Owed' = IF pass.enforce THEN AtFormat(Held) ELSE AtRest
    BY <1>1, <1>2, <1>5 DEF Owed, Enforced
  <2>. QED
    BY <2>1, <1>2, <1>3, <1>4, OwedValues DEF Counts, Inspect
<1>6. CASE pass'.at = "exclusiveWrite" /\ Open = 1 /\ pass.enforce
  <2>1. Owed' = write
    BY <1>1, <1>6 DEF Owed
  <2>. QED
    BY <2>1, <1>3, <1>4, <1>6 DEF Counts, Inspect
<1>. QED
  BY <1>2, <1>5, <1>6

(* The flags: written, exclusive mode is off; not written, that is a       *)
(* failure owed.                                                           *)
LEMMA CountsWriteExclusive ==
  ASSUME TypeOK, PassKnows, WriteExclusive
  PROVE  Counts
<1>1. /\ pass.at = "exclusiveWrite" /\ pass.enforce /\ cfg' = cfg
      /\ engine \in Engines /\ device \in Devices
  BY DEF WriteExclusive, Step, PassKnows, PassOnly, TypeOK
<1>2. Owed = FromWrite(Wrong, Open, Class, Triggers)
  BY <1>1 DEF Owed
<1>3. CASE /\ device' = [device EXCEPT !.allow = "off", !.priority = "off"] /\ notes' = Property
           /\ Goes("exclusiveVerify") /\ UNCHANGED <<engine, tries>>
  <2>1. Open' = 0 /\ Wrong' = Wrong /\ Class' = Class
    BY <1>1, <1>3 DEF Open, Readable, Allowed, Wrong, Class, Flag, Devices
  <2>2. Triggers' \in {Triggers, More(Triggers)}
    BY <1>3, SameSituation
  <2>3. Owed' = FromFormat(0, Wrong, 0, Class, Triggers')
    BY <1>3, <2>1, GoesKeeps DEF Owed, AtFormat
  <2>4. Owed' <= Owed
    BY <1>2, <2>2, <2>3, Situation, WriteStep DEF Bit
  <2>. QED
    BY <1>3, <2>4 DEF Counts
<1>4. CASE /\ device' \in {device, [device EXCEPT !.allow = "off"]} /\ notes' \in {notes, Property}
           /\ engine' = Failed(engine) /\ Tried(1) /\ Goes("format")
  <2>1. Open' \in {Open, 0} /\ device'.name = device.name /\ device'.format = device.format
        /\ device'.accepts = device.accepts
    BY <1>1, <1>4 DEF Open, Readable, Allowed, Flag, Devices
  <2>2. engine'.due = engine.due /\ engine'.kept = engine.kept /\ Held' = 1
    BY <1>1, <1>4, EngineFields, SameSituation
  <2>3. Wrong' = Wrong /\ Class' = Class
    BY <1>1, <2>1, <2>2 DEF Wrong, Class
  <2>4. Triggers' \in {Triggers, More(Triggers)}
    BY <1>4, <2>2, SameSituation
  <2>5. Owed' = FromFormat(1, Wrong, Open', Class, Triggers')
    <3>1. pass'.at = "format" /\ pass'.enforce
      BY <1>1, <1>4, GoesKeeps
    <3>2. Owed' = AtFormat(Held)'
      BY <3>1 DEF Owed, Enforced
    <3>. QED
      BY <2>2, <2>3, <3>2 DEF AtFormat
  <2>6. Open' \in Bit /\ Open' <= Open
    BY <2>1, Situation DEF Bit
  <2>7. Owed' < Owed
    BY <1>2, <2>4, <2>5, <2>6, Situation, WriteStep
  <2>. QED
    BY <1>4, <2>7 DEF Counts, Tried
<1>. QED
  BY <1>3, <1>4 DEF WriteExclusive

(* Verifying the flags clears a failure only when exclusive mode is off.   *)
LEMMA CountsVerifyExclusive ==
  ASSUME TypeOK, PassKnows, VerifyExclusive
  PROVE  Counts
<1>1. /\ pass.at = "exclusiveVerify" /\ pass.enforce /\ engine \in Engines
      /\ pass'.at = "format" /\ pass'.enforce /\ tries' = tries
  BY GoesKeeps DEF VerifyExclusive, Step, PassKnows, PassOnly, TypeOK
<1>2. engine'.due = engine.due /\ engine'.kept = engine.kept
  BY <1>1, EngineFields DEF VerifyExclusive
<1>3. Off' = Off /\ Wrong' = Wrong /\ Open' = Open /\ Class' = Class /\ Triggers' = Triggers
  BY <1>2, Unmoved DEF VerifyExclusive, Silent, PassOnly
<1>4. Held' = 1 \/ (Held' = 0 /\ Open = 0)
  BY <1>1, EngineFields, SameSituation DEF VerifyExclusive, Open, Flag
<1>5. Owed = AtFormat(Open) /\ Owed' = AtFormat(Held')
  BY <1>1, <1>3 DEF Owed, Enforced, AtFormat
<1>6. AtFormat(0) \in Nat /\ AtFormat(1) \in Nat /\ AtFormat(1) <= AtFormat(0) /\ Open \in {0, 1}
  BY Situation, Potentials, LeavesLess DEF AtFormat, Bit
<1>. QED
  BY <1>1, <1>4, <1>5, <1>6 DEF Counts
(* Reading the format ends the pass or goes to the driver.                 *)
LEMMA CountsReadFormat ==
  ASSUME TypeOK, PassKnows, ReadFormat
  PROVE  Counts
<1>1. /\ pass.at = "format" /\ pass.enforce \in BOOLEAN /\ engine \in Engines /\ tries' = tries
      /\ Off = 0
  BY DEF ReadFormat, Step, PassKnows, TypeOK, Passes, Off, Flag
<1>2. engine'.due = engine.due /\ engine'.kept = engine.kept /\ engine'.failed = engine.failed
  BY <1>1 DEF ReadFormat, Engines
<1>3. /\ AtRest' = AtRest /\ AtFormat(Held)' = AtFormat(Held) /\ Class' = Class
      /\ device' = device
  BY <1>2, Unmoved DEF ReadFormat, Silent, PassOnly, AtRest, AtFormat
<1>4. Owed = IF pass.enforce THEN AtFormat(Held) ELSE AtRest
  BY <1>1 DEF Owed, Enforced
<1>5. AtRest <= AtFormat(Held)
  BY <1>1, Situation, LeavesLess DEF AtRest, AtFormat
<1>6. CASE Ends
  <2>1. Owed' = AtRest
    BY <1>1, <1>2, <1>3, <1>6, EndsAtRest
  <2>. QED
    BY <2>1, <1>1, <1>4, <1>5, OwedValues DEF Counts
<1>7. CASE /\ ~Matches(device.format, cfg.target)
           /\ pass' = [at |-> "ask", enforce |-> pass.enforce, layout |-> device.format.layout]
  <2>1. Class # "fits"
    BY <1>7 DEF Class
  <2>2. Owed' = Owed
    BY <1>3, <1>4, <1>7, <2>1 DEF Owed, Enforced
  <2>. QED
    BY <2>2, <1>1, <1>4, OwedValues DEF Counts
<1>. QED
  BY <1>6, <1>7 DEF ReadFormat

(* The driver takes the target, which is then written, or it does not.     *)
LEMMA CountsAskTarget ==
  ASSUME TypeOK, PassKnows, AskTarget
  PROVE  Counts
<1>. DEFINE judging == Later(Held, Wrong, Open, Class, Triggers)
            writing == Most(1, Wrong + Open)
            stale == pass.layout # device.format.layout \/ Class = "fits"
<1>1. /\ pass.at = "ask" /\ pass.enforce \in BOOLEAN /\ tries' = tries /\ UNCHANGED engine
      /\ Off = 0
  BY DEF AskTarget, Step, PassKnows, TypeOK, Passes, Off, Flag
<1>2. /\ AtRest' = AtRest /\ Class' = Class /\ Wrong' = Wrong /\ Open' = Open /\ judging' = judging
  BY <1>1, Unmoved DEF AskTarget, Silent, PassOnly, AtRest
<1>3. Owed = IF pass.enforce THEN IF stale THEN 4 ELSE AtFormat(Held) ELSE AtRest
  BY <1>1 DEF Owed, Enforced
<1>4. /\ AtRest <= AtFormat(Held) /\ judging \in Nat /\ judging <= 4
      /\ Wrong \in 0..1 /\ Open \in 0..1
  BY <1>1, Situation, LeavesLess, Potentials DEF AtRest, AtFormat, Bit
<1>5. CASE Ends
  <2>1. Owed' = AtRest
    BY <1>1, <1>2, <1>5, EndsAtRest
  <2>. QED
    BY <2>1, <1>1, <1>3, <1>4, OwedValues DEF Counts
<1>6. CASE Accepted(device.accepts, cfg.target, pass.layout) = {} /\ Goes("incompatible")
  <2>1. ~stale => judging = AtFormat(Held)
    BY <1>6, Situation DEF Class, AtFormat, FromFormat
  <2>2. Owed' = IF pass.enforce THEN judging ELSE AtRest
    BY <1>1, <1>2, <1>6, GoesKeeps DEF Owed, Enforced
  <2>. QED
    BY <1>1, <1>3, <1>4, <2>1, <2>2, OwedValues DEF Counts
<1>7. CASE /\ Accepted(device.accepts, cfg.target, pass.layout) # {} /\ pass.enforce
           /\ pass'.at = "write"
  <2>1. ~stale => Class = "fixable"
    BY <1>7 DEF Class
  <2>2. ~stale => writing <= AtFormat(Held)
    BY <1>4, <2>1, Situation DEF AtFormat, FromFormat, Later, Most, Bit
  <2>3. Owed' = IF Class = "fits" THEN 1 + Wrong + Open ELSE writing
    BY <1>2, <1>7 DEF Owed
  <2>4. Owed' <= Owed
    BY <1>3, <1>4, <1>7, <2>2, <2>3 DEF Most
  <2>. QED
    BY <1>1, <2>4 DEF Counts
<1>. QED
  BY <1>5, <1>6, <1>7 DEF AskTarget

(* The format: written, it fits; not written, that is a failure owed.      *)
LEMMA CountsWriteFormat ==
  ASSUME TypeOK, PassKnows, WriteFormat
  PROVE  Counts
<1>1. /\ pass.at = "write" /\ cfg' = cfg /\ engine \in Engines /\ device \in Devices
      /\ Matches(pass.chosen, cfg.target)
  BY DEF WriteFormat, Step, PassKnows, PassOnly, TypeOK
<1>2. Owed = IF Class = "fits" THEN 1 + Wrong + Open ELSE Most(1, Wrong + Open)
  BY <1>1 DEF Owed
<1>3. Wrong \in 0..1 /\ Open \in 0..1
  BY Situation DEF Bit
<1>4. CASE device' = [device EXCEPT !.format = pass.chosen] /\ Goes("verify") /\ UNCHANGED <<engine, tries>>
  <2>1. Class' = "fits" /\ Wrong' = Wrong /\ Open' = Open
    BY <1>1, <1>4 DEF Class, Wrong, Open, Readable, Allowed, Devices
  <2>2. Owed' = Wrong + Open
    BY <1>4, <2>1, GoesKeeps DEF Owed
  <2>3. Owed' <= Owed
    BY <1>2, <1>3, <2>2 DEF Most
  <2>. QED
    BY <1>4, <2>3 DEF Counts
<1>5. CASE UNCHANGED <<device, engine>> /\ Goes("verify") /\ Tried(1)
  <2>1. Class' = Class /\ Wrong' = Wrong /\ Open' = Open
    BY <1>1, <1>5, SameSituation
  <2>2. Owed' = IF Class = "fits" THEN Wrong + Open ELSE 0
    BY <1>5, <2>1, GoesKeeps DEF Owed
  <2>3. Owed' < Owed
    BY <1>2, <1>3, <2>2 DEF Most
  <2>. QED
    BY <1>5, <2>3 DEF Counts, Tried
<1>6. CASE engine' = Failed(engine) /\ Tried(1) /\ Ends
  <2>1. engine'.due = engine.due /\ Held' = 1
    BY <1>1, <1>6, EngineFields, SameSituation
  <2>2. Owed' = 0
    BY <1>1, <1>6, <2>1, EndsAtRest DEF AtRest, Resting
  <2>3. Owed' < Owed
    BY <1>2, <1>3, <2>2 DEF Most
  <2>. QED
    BY <1>6, <2>3 DEF Counts, Tried
<1>. QED
  BY <1>4, <1>5, <1>6 DEF WriteFormat

(* Verifying the format clears a failure only when it fits.                *)
LEMMA CountsVerifyFormat ==
  ASSUME TypeOK, PassKnows, VerifyFormat
  PROVE  Counts
<1>1. pass.at = "verify" /\ Ends /\ tries' = tries /\ engine \in Engines
  BY DEF VerifyFormat, Step, TypeOK
<1>2. engine'.due = engine.due /\ engine'.kept = engine.kept
  BY <1>1 DEF VerifyFormat, Failed, Cleared, Engines
<1>3. Off' = Off /\ Wrong' = Wrong /\ Open' = Open /\ Class' = Class /\ Triggers' = Triggers
  BY <1>2, Unmoved DEF VerifyFormat, Silent, PassOnly
<1>4. Held' = 1 \/ Class = "fits"
  BY <1>1, EngineFields, SameSituation DEF VerifyFormat, Class
<1>5. Owed' = AtRest'
  BY <1>1, <1>2, EndsAtRest
<1>6. Owed = IF Class = "fits" THEN Wrong + Open ELSE 0
  BY <1>1 DEF Owed
<1>7. Owed' = 0 \/ (Class = "fits" /\ Owed' = Wrong + Open)
  BY <1>3, <1>4, <1>5 DEF AtRest, Resting, Later
<1>8. Wrong \in 0..1 /\ Open \in 0..1
  BY Situation DEF Bit
<1>9. Owed' <= Owed
  BY <1>6, <1>7, <1>8
<1>. QED
  BY <1>1, <1>9 DEF Counts
(* Asking the driver owes nothing new.                                     *)
LEMMA CountsAskDriver ==
  ASSUME TypeOK, PassKnows, AskDriver
  PROVE  Counts
<1>. DEFINE judging == Later(Held, Wrong, Open, Class, Triggers)
<1>1. /\ pass.at = "incompatible" /\ tries' = tries /\ UNCHANGED engine
      /\ pass'.at = "judge" /\ pass'.enforce = pass.enforce
  BY DEF AskDriver, Step
<1>2. AtRest' = AtRest /\ judging' = judging
  BY <1>1, Unmoved DEF AskDriver, Silent, PassOnly, AtRest
<1>3. Owed' = Owed
  BY <1>1, <1>2 DEF Owed, Enforced
<1>. QED
  BY <1>1, <1>3, OwedType DEF Counts

(* Leaving without a change a pass that was to judge, to disable or to      *)
(* enable the device.                                                      *)
LEMMA Judging ==
  ASSUME TypeOK
  PROVE  /\ Later(Held, Wrong, Open, Class, Triggers) \in Nat /\ AtRest \in Nat
         /\ Off = 0 => AtRest <= Later(Held, Wrong, Open, Class, Triggers)
         /\ Later(1, Wrong, Open, Class, Triggers) <= Later(Held, Wrong, Open, Class, Triggers)
         /\ Resting(Held, 0, Wrong, Open, Class, Triggers) \in Nat
         /\ Off = 1 => AtRest <= Resting(Held, 0, Wrong, Open, Class, Triggers)
<1>1. /\ Later(1, Wrong, Open, Class, Triggers) \in Nat /\ Later(0, Wrong, Open, Class, Triggers) \in Nat
      /\ Later(1, Wrong, Open, Class, Triggers) <= Later(0, Wrong, Open, Class, Triggers)
      /\ Resting(Held, 1, Wrong, Open, Class, Triggers) <= Resting(Held, 0, Wrong, Open, Class, Triggers)
      /\ Resting(Held, 0, Wrong, Open, Class, Triggers) <= Later(Held, Wrong, Open, Class, Triggers)
  BY Situation, LeavesLess, Potentials DEF Bit
<1>2. Held = 0 \/ Held = 1
  BY Situation DEF Bit
<1>3. Resting(Held, 0, Wrong, Open, Class, Triggers) \in Nat
  BY Situation, Potentials DEF Bit
<1>. QED
  BY <1>1, <1>2, <1>3, OwedValues DEF AtRest

(* The verdict ends the pass or goes on to disabling.                      *)
LEMMA CountsJudge ==
  ASSUME TypeOK, PassKnows, Judge
  PROVE  Counts
<1>. DEFINE judging == Later(Held, Wrong, Open, Class, Triggers)
<1>1. /\ pass.at = "judge" /\ pass.enforce \in BOOLEAN /\ tries' = tries /\ Off = 0
      /\ engine'.due = engine.due /\ engine'.kept = engine.kept /\ engine'.failed = engine.failed
  BY DEF Judge, Step, PassKnows, TypeOK, Passes, Engines, Off, Flag
<1>2. AtRest' = AtRest /\ judging' = judging
  BY <1>1, Unmoved DEF Judge, Silent, PassOnly, AtRest
<1>3. Owed = IF pass.enforce THEN judging ELSE AtRest
  BY <1>1 DEF Owed, Enforced
<1>4. judging \in Nat /\ AtRest \in Nat /\ AtRest <= judging
  BY <1>1, Judging
<1>5. CASE Ends
  <2>1. Owed' = AtRest
    BY <1>1, <1>2, <1>5, EndsAtRest
  <2>. QED
    BY <2>1, <1>1, <1>3, <1>4 DEF Counts
<1>6. CASE pass.enforce /\ pass' = [at |-> "disable", caps |-> pass.caps]
  <2>1. Owed' = judging
    BY <1>2, <1>6 DEF Owed
  <2>. QED
    BY <2>1, <1>1, <1>3, <1>4, <1>6 DEF Counts
<1>. QED
  BY <1>5, <1>6 DEF Judge

(* Disabling clears a failure, and a disabled device owes less.            *)
LEMMA CountsDisable ==
  ASSUME TypeOK, PassKnows, Disable
  PROVE  Counts
<1>. DEFINE judging == Later(Held, Wrong, Open, Class, Triggers)
<1>1. /\ pass.at = "disable" /\ Ends /\ tries' = tries /\ Off = 0 /\ cfg' = cfg
      /\ engine \in Engines /\ device \in Devices
      /\ engine'.due = engine.due /\ engine'.kept = engine.kept
  BY DEF Disable, Step, PassKnows, PassOnly, TypeOK, Failed, Cleared, Engines, Off, Flag
<1>2. Owed = judging /\ Owed' = AtRest'
  BY <1>1, EndsAtRest DEF Owed
<1>3. CASE Silent /\ UNCHANGED engine
  <2>1. AtRest' = AtRest
    BY <1>1, <1>3, Unmoved DEF AtRest, Silent
  <2>. QED
    BY <1>1, <1>2, <2>1, Judging DEF Counts
<1>4. CASE device' = [device EXCEPT !.state = "disabled"] /\ notes' = Device
           /\ engine' = [Cleared(engine) EXCEPT !.record = pass.caps]
  <2>1. Off' = 1 /\ Wrong' = Wrong /\ Open' = Open /\ Class' = Class
    BY <1>1, <1>4 DEF Off, Wrong, Open, Readable, Allowed, Class, Flag, Devices
  <2>2. Triggers' = Triggers
    BY <1>1, <1>4 DEF Triggers, Device
  <2>3. Held' = 0
    BY <1>1, <1>4 DEF Held, Flag, Cleared, Engines
  <2>4. AtRest' = Later(1, Wrong, Open, Class, Triggers)
    BY <2>1, <2>2, <2>3 DEF AtRest, Resting
  <2>. QED
    BY <1>1, <1>2, <2>4, Judging DEF Counts
<1>5. CASE engine' = Failed(engine)
  <2>1. Held' = 1
    BY <1>1, <1>5, EngineFields, SameSituation
  <2>2. Owed' = 0
    BY <1>2, <2>1 DEF AtRest, Resting
  <2>. QED
    BY <1>1, <1>2, <2>2, Judging DEF Counts
<1>. QED
  BY <1>3, <1>4, <1>5 DEF Disable

(* Enabling a disabled device owes what ours was to owe.                   *)
LEMMA CountsOurs ==
  ASSUME TypeOK, PassKnows, Ours
  PROVE  Counts
<1>. DEFINE enabling == Resting(Held, 0, Wrong, Open, Class, Triggers)
<1>1. /\ pass.at = "ours" /\ pass.enforce \in BOOLEAN /\ Ends /\ tries' = tries /\ Off = 1 /\ cfg' = cfg
      /\ engine \in Engines /\ device \in Devices /\ device.state = "disabled"
      /\ engine'.due = engine.due /\ engine'.kept = engine.kept
  BY DEF Ours, Step, PassKnows, PassOnly, TypeOK, Passes, Failed, Engines, Off, Flag
<1>2. Owed = (IF pass.enforce THEN enabling ELSE AtRest) /\ Owed' = AtRest'
  BY <1>1, EndsAtRest DEF Owed, Enforced
<1>3. CASE Silent /\ UNCHANGED engine
  <2>1. AtRest' = AtRest
    BY <1>1, <1>3, Unmoved DEF AtRest, Silent
  <2>. QED
    BY <1>1, <1>2, <2>1, Judging DEF Counts
<1>4. CASE /\ pass.enforce /\ device' = [device EXCEPT !.state = "active"] /\ notes' = Device
           /\ engine' = [engine EXCEPT !.record = NoCaps]
  <2>1. Off' = 0 /\ Wrong' = Wrong /\ Open' = Open /\ Class' = Class
    BY <1>1, <1>4 DEF Off, Wrong, Open, Readable, Allowed, Class, Flag, Devices
  <2>2. Triggers' = Triggers
    BY <1>1, <1>4 DEF Triggers, Device
  <2>3. Held' = Held
    BY <1>1, <1>4 DEF Held, Flag, Engines
  <2>4. AtRest' = enabling
    BY <2>1, <2>2, <2>3 DEF AtRest
  <2>. QED
    BY <1>1, <1>2, <1>4, <2>4, Judging DEF Counts
<1>5. CASE engine' = Failed(engine)
  <2>1. Held' = 1
    BY <1>1, <1>5, EngineFields, SameSituation
  <2>2. Owed' = 0
    BY <1>2, <2>1 DEF AtRest, Resting
  <2>3. Owed \in Nat
    BY <1>2, Judging
  <2>. QED
    BY <1>1, <2>2, <2>3 DEF Counts
<1>. QED
  BY <1>1, <1>3, <1>4, <1>5 DEF Ours

(* A notification that is delivered becomes a request for a pass.          *)
LEMMA CountsDeliver ==
  ASSUME TypeOK, PassKnows, NEW kind \in notes, Deliver(kind)
  PROVE  Counts
<1>1. CASE kind # "property"
  BY <1>1 DEF Deliver, Counts
<1>2. CASE kind = "property"
  <2>1. /\ tries' = tries /\ device' = device /\ cfg' = cfg /\ pass' = pass
        /\ engine'.kept = engine.kept /\ engine'.failed = engine.failed
        /\ engine'.due = (IF engine.due = "full" THEN "full" ELSE "triggered")
    BY <1>2 DEF Deliver, Rescan, TypeOK, Engines
  <2>2. /\ Off' = Off /\ Wrong' = Wrong /\ Open' = Open /\ Class' = Class /\ Held' = Held
    BY <2>1, SameSituation
  <2>3. Triggers' <= Triggers
    BY <1>2, <2>1 DEF Deliver, Triggers, Flag
  <2>4. /\ AtRest' <= AtRest /\ AtName' <= AtName
        /\ \A f \in Bit : FromFormat(f, Wrong, Open, Class, Triggers') <= FromFormat(f, Wrong, Open, Class, Triggers)
        /\ FromExclusive(Held, Wrong, Open, Class, Triggers)' <= FromExclusive(Held, Wrong, Open, Class, Triggers)
        /\ FromWrite(Wrong, Open, Class, Triggers)' <= FromWrite(Wrong, Open, Class, Triggers)
        /\ Later(Held, Wrong, Open, Class, Triggers)' <= Later(Held, Wrong, Open, Class, Triggers)
        /\ Resting(Held, 0, Wrong, Open, Class, Triggers)' <= Resting(Held, 0, Wrong, Open, Class, Triggers)
    BY <2>2, <2>3, Situation, SituationNext, FewerTriggers DEF AtRest, AtName, Bit
  <2>5. /\ (Stale' <=> Stale)
        /\ (engine'.due = "full" <=> engine.due = "full")
        /\ \A f \in Bit : AtFormat(f)' <= AtFormat(f)
        /\ Held \in Bit /\ Open \in Bit
    BY <2>1, <2>2, <2>4, Situation DEF Stale, AtFormat
  <2>6. AtFormat(Held)' <= AtFormat(Held) /\ AtFormat(Open)' <= AtFormat(Open)
    BY <2>2, <2>5 DEF AtFormat
  <2>7. Owed \in Nat
    BY OwedType
  <2>8. CASE pass.at = "idle"
    <3>1. Owed' <= Owed
      BY <2>1, <2>4, <2>5, <2>8 DEF Owed
    <3>. QED
      BY <2>1, <3>1 DEF Counts
  <2>9. CASE pass.at = "enter"
    <3>1. CASE Stale
      BY <2>1, <2>5, <2>7, <2>9, <3>1 DEF Owed, Counts
    <3>2. CASE ~Stale
      BY <2>1, <2>4, <2>5, <2>9, <3>2 DEF Owed, Counts
    <3>. QED
      BY <3>1, <3>2
  <2>10. CASE pass.at \in {"name", "ours"}
    <3>1. CASE ~pass.enforce
      BY <2>1, <2>4, <2>10, <3>1 DEF Owed, Enforced, Counts
    <3>2. CASE pass.at = "ours" /\ pass.enforce
      BY <2>1, <2>4, <3>2 DEF Owed, Enforced, Counts
    <3>3. CASE pass.at = "name" /\ pass.enforce /\ Stale
      BY <2>1, <2>5, <2>7, <3>3 DEF Owed, Enforced, Counts
    <3>4. CASE pass.at = "name" /\ pass.enforce /\ ~Stale
      BY <2>1, <2>4, <2>5, <3>4 DEF Owed, Enforced, Counts
    <3>. QED
      BY <2>10, <3>1, <3>2, <3>3, <3>4
  <2>11. CASE pass.at \in {"exclusive", "exclusiveWrite", "exclusiveVerify", "format", "ask"}
    BY <2>1, <2>2, <2>4, <2>6, <2>11 DEF Owed, Enforced, Counts
  <2>12. CASE pass.at \in {"write", "verify"}
    <3>1. Owed' = Owed
      BY <2>1, <2>2, <2>12 DEF Owed
    <3>. QED
      BY <2>1, <2>7, <3>1 DEF Counts
  <2>13. CASE pass.at \in {"incompatible", "judge", "disable"}
    BY <2>1, <2>2, <2>4, <2>13 DEF Owed, Enforced, Counts
  <2>. QED
    BY <2>8, <2>9, <2>10, <2>11, <2>12, <2>13 DEF TypeOK, Passes
<1>. QED
  BY <1>1, <1>2
(* What the other threads do to the counts.                                *)
LEMMA CountsOthers ==
  ASSUME TypeOK, PassKnows, [Next]_vars, ~Pass, \A kind \in notes : ~Deliver(kind)
  PROVE  Counts
<1>1. CASE UserPicksFormat \/ NameReset \/ ExclusiveChanges \/ Replug \/ Rename \/ Release \/ DiagnoseReads
  BY <1>1 DEF UserPicksFormat, NameReset, ExclusiveChanges, Replug, Rename, Release, DiagnoseReads, World, Counts
<1>2. CASE Periodic
  <2>1. Owed' = 0 /\ tries' = tries
    BY <1>2 DEF Periodic, Step, Owed, TypeOK, Engines
  <2>. QED
    BY <2>1, OwedType DEF Counts
<1>3. CASE BackoffEnds \/ DiagnoseWrites
  BY <1>3 DEF BackoffEnds, DiagnoseWrites, Counts
<1>4. CASE AnalyzeAsks \/ AnalyzeStores \/ UNCHANGED vars
  <2>1. /\ UNCHANGED <<device, notes, cfg, pass, tries>>
        /\ engine'.kept = engine.kept /\ engine'.failed = engine.failed /\ engine'.due = engine.due
    BY <1>4 DEF AnalyzeAsks, AnalyzeStores, vars, TypeOK, Engines
  <2>. QED
    BY <2>1, OwedFrame, OwedType DEF Counts
<1>5. CASE RenameSaved
  <2>1. tries' = 0 \/ UNCHANGED <<device, notes, cfg, pass, engine, tries>>
    BY <1>5 DEF RenameSaved
  <2>. QED
    BY <2>1, OwedFrame, OwedType DEF Counts
<1>. QED
  BY <1>1, <1>2, <1>3, <1>4, <1>5 DEF Next, Others

(* Every step starts the count again, or pays for a failure with what is   *)
(* owed.                                                                   *)
LEMMA CountsStep ==
  ASSUME TypeOK, PassKnows, [Next]_vars
  PROVE  Counts
BY CountsBegin, CountsEnter, CountsRestoreName, CountsInspect, CountsWriteExclusive, CountsVerifyExclusive,
   CountsReadFormat, CountsAskTarget, CountsWriteFormat, CountsVerifyFormat, CountsAskDriver, CountsJudge,
   CountsDisable, CountsOurs, CountsDeliver, CountsOthers DEF Pass

(* The invariant holds at first.                                           *)
LEMMA InitIInv == Init => IInv
<1>. SUFFICES ASSUME Init PROVE IInv
  OBVIOUS
<1>1. TypeOK
  <2>1. PICK driver \in Drivers, f \in Formats :
          /\ f \in driver
          /\ device = [state |-> "active", accepts |-> driver, format |-> f,
                       allow |-> "absent", priority |-> "absent", name |-> Factory]
    BY DEF Init, Formats
  <2>2. device \in Devices /\ device.format \in device.accepts
    BY <2>1 DEF Devices, States, Flags
  <2>3. engine \in Engines
    BY EndpointAssumption DEF Init, Engines, CapsOrNone
  <2>4. pass \in Passes /\ analysis \in CapsOrNone
    BY DEF Init, Idle, Passes, CapsOrNone
  <2>. QED
    BY <2>2, <2>3, <2>4, EndpointAssumption DEF Init, TypeOK
<1>2. PassKnows
  BY DEF Init, PassKnows, Idle
<1>3. Owed = 0 /\ tries = 0
  BY DEF Init, Owed, Idle
<1>. QED
  BY <1>1, <1>2, <1>3 DEF IInv, Bound, Room

(* The types are kept: among them, that a pass has read what its place     *)
(* needs, that a chosen format is one that some driver takes, and that a   *)
(* device is disabled only with capabilities that its driver named.        *)
THEOREM TypeCorrect == Spec => []TypeOK
<1>1. Init => TypeOK
  BY InitIInv DEF IInv
<1>2. TypeOK /\ [Next]_vars => TypeOK'
  BY TypeStep
<1>. QED
  BY <1>1, <1>2, PTL DEF Spec

(* The inductive invariant: the types, what the pass knows, and the bound  *)
(* on the writes that have failed and are owed.                            *)
THEOREM Inductive == Spec => []IInv
<1>1. IInv /\ [Next]_vars => IInv'
  <2>. SUFFICES ASSUME IInv, [Next]_vars PROVE IInv'
    OBVIOUS
  <2>1. TypeOK' /\ PassKnows'
    BY TypeStep, PassKnowsStep DEF IInv
  <2>2. Counts
    BY CountsStep DEF IInv
  <2>3. Bound'
    BY <2>1, <2>2, BoundStep DEF IInv
  <2>. QED
    BY <2>1, <2>3 DEF IInv
<1>. QED
  BY InitIInv, <1>1, PTL DEF Spec

(* Between two outside events at most four writes fail (recordFailure,     *)
(* clearFailure, scanOnce), whatever the drivers, the names and the        *)
(* configuration are, and however the passes, the notifications and the    *)
(* faults interleave.                                                      *)
THEOREM WritesBounded == Spec => []NoWriteStorm
<1>1. IInv => NoWriteStorm
  <2>. SUFFICES ASSUME IInv PROVE tries <= 4
    BY DEF NoWriteStorm
  <2>1. /\ tries \in Nat /\ Owed \in Nat /\ tries + Owed <= 4
    BY OwedType DEF IInv, TypeOK, Bound, Room
  <2>. QED
    BY <2>1
<1>. QED
  BY <1>1, Inductive, PTL
=============================================================================
