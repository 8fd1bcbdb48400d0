------------------------------ MODULE Endpoint ------------------------------
(***************************************************************************)
(* One audio endpoint as a pass of WatchdogEngine checks and corrects it:  *)
(* its kept name, its exclusive-mode flags, its default format and the     *)
(* verdict on a driver that does not take the format chosen.  Between any  *)
(* two calls into Windows the user, other programs, the driver and the     *)
(* notifications go on.                                                    *)
(*                                                                         *)
(* WatchdogEngine has the locks and the worker's waits, DevicePolicy the   *)
(* history, the user's decisions and the restarts of the disable policy.   *)
(***************************************************************************)
EXTENDS Naturals

CONSTANTS
  Layouts, Stereo,       \* channel layouts, and the one assumed when unknown
  Targets,               \* sample rates with a bit depth
  Drivers,               \* what a driver may accept: sets of formats
  Names, Factory, NoName,\* names users choose, Windows' own, no kept name
  FirstName,             \* the name that is kept at first
  NoCaps,                \* the driver was not asked
  Configs,               \* configurations
  BrokenSets,            \* the writes that fail, always
  MaxChanges, MaxFaults  \* what the world does, and calls that fail once

ASSUME EndpointAssumption ==
  /\ Stereo \in Layouts /\ NoName \notin Names \cup {Factory} /\ FirstName \in Names \cup {NoName}
  /\ \A t \in Targets : t.bits \in {16, 24, 32}
  /\ \A caps \in SUBSET Targets : caps # NoCaps
  /\ \A driver \in Drivers : \A f \in driver : f.layout \in Layouts
  /\ \A c \in Configs : c.target \in Targets /\ {c.std, c.disable, c.exclusive, c.enforce} \subseteq BOOLEAN
  /\ \A b \in BrokenSets : b \subseteq {"name", "exclusive", "format"}
  /\ MaxChanges \in Nat /\ MaxFaults \in Nat

VARIABLES
  device,   \* the endpoint in Windows
  notes,    \* notifications on their way
  cfg, saved, \* the settings, and the kept name in config.ini
  engine,   \* capabilities_, the failure in memory_, the record, requests
  pass,     \* the pass: where it is and what it has read
  analysis, \* analyze() between a driver's answer and capabilities_
  renaming, diagnosing, \* a rename before it is saved; a store test
  broken, changes, faults,
  tries     \* writes that failed since anything but the engine acted

user == <<saved, renaming, diagnosing>>
world == <<broken, changes, faults>>
vars == <<device, notes, cfg, engine, pass, analysis, user, world, tries>>

Flags == {"on", "off", "absent", "bad"}
Idle == [at |-> "idle"]
Nothing == [step |-> "none"]

-----------------------------------------------------------------------------
(* Formats.  Windows keeps the layout; a depth may be stored in more bits. *)

Format(t, container, isFloat, layout) ==
  [rate |-> t.rate, bits |-> t.bits, container |-> container, isFloat |-> isFloat, layout |-> layout]

Matches(f, t) == f.rate = t.rate /\ f.bits = t.bits

Candidates(t, layout) ==
  CASE t.bits = 16 -> <<Format(t, 16, FALSE, layout)>>
    [] t.bits = 24 -> <<Format(t, 24, FALSE, layout), Format(t, 32, FALSE, layout)>>
    [] t.bits = 32 -> <<Format(t, 32, FALSE, layout), Format(t, 32, TRUE, layout)>>

(* The candidates a driver takes, by their places, and the first of them.  *)
Accepted(driver, t, layout) == {i \in DOMAIN Candidates(t, layout) : Candidates(t, layout)[i] \in driver}
Preferred(driver, t, layout) ==
  LET places == Accepted(driver, t, layout)
  IN Candidates(t, layout)[CHOOSE i \in places : \A j \in places : i <= j]

(* probe: the targets a driver takes in a layout.                          *)
Probe(driver, layout) == {t \in Targets : Accepted(driver, t, layout) # {}}

(* Mutant of Verdict.                                                      *)
VerdictOnNothing(caps, t) ==
  CASE caps = NoCaps -> "unknown"
    [] caps # NoCaps /\ t \in caps -> "compatible"
    [] OTHER -> "rateUnsupported"

(* No format at all is what a device that is gone reports.                 *)
Verdict(caps, t) ==
  CASE caps = NoCaps \/ caps = {} -> "unknown"
    [] caps # NoCaps /\ caps # {} /\ ~\E c \in caps : c.rate = t.rate -> "rateUnsupported"
    [] caps # NoCaps /\ t \in caps -> "compatible"
    [] OTHER -> "depthUnsupported"

Incompatible(caps, t) == Verdict(caps, t) \in {"rateUnsupported", "depthUnsupported"}

(* readFlag: an absent value means allowed; the priority must be readable. *)
Readable == device.allow # "bad" /\ device.priority # "bad"
Allowed == device.allow \in {"on", "absent"}

-----------------------------------------------------------------------------
(* Windows.                                                                *)

Property == notes \cup {"property"}
Device == notes \cup {"device"}

Fault == faults < MaxFaults /\ faults' = faults + 1
Works(w) == w \notin broken /\ UNCHANGED faults
Fails(w) == IF w \in broken THEN UNCHANGED faults ELSE Fault

Init ==
  /\ \E driver \in Drivers : \E f \in driver :
       device = [state |-> "active", accepts |-> driver, format |-> f,
                 allow |-> "absent", priority |-> "absent", name |-> Factory]
  /\ notes = {} /\ cfg \in Configs /\ saved = FirstName
  /\ engine = [caps |-> NoCaps, failed |-> FALSE, record |-> NoCaps,
               kept |-> FirstName, due |-> "full"]
  /\ pass = Idle /\ analysis = NoCaps /\ renaming = Nothing /\ diagnosing = Nothing
  /\ broken \in BrokenSets /\ changes = 0 /\ faults = 0 /\ tries = 0

Failed(e) == [e EXCEPT !.failed = TRUE]
Cleared(e) == [e EXCEPT !.failed = FALSE]
Rescan(e) == [e EXCEPT !.due = IF @ = "full" THEN "full" ELSE "triggered"]

(* Mutant of Deliver.                                                      *)
DeliverKeepsFormats(kind) ==
  /\ kind \in notes /\ notes' = notes \ {kind}
  /\ engine' = Rescan(IF kind = "property" THEN engine ELSE Cleared(engine))
  /\ UNCHANGED <<device, cfg, pass, analysis, user, world, tries>>

(* deliver and onDeviceChange.  A property that changed only asks for a    *)
(* pass; any other change also forgets the failure and the capabilities.   *)
Deliver(kind) ==
  /\ kind \in notes /\ notes' = notes \ {kind}
  /\ IF kind = "property"
       THEN engine' = Rescan(engine) /\ UNCHANGED tries
       ELSE engine' = Rescan([Cleared(engine) EXCEPT !.caps = NoCaps]) /\ tries' = 0
  /\ UNCHANGED <<device, cfg, pass, analysis, user, world>>

World ==
  /\ changes < MaxChanges /\ changes' = changes + 1
  /\ tries' = 0
  /\ UNCHANGED <<cfg, engine, pass, analysis, saved, broken, faults>>

(* The Sound panel, a driver that resets the name, a program that turns    *)
(* exclusive mode on: a property changes.                                  *)
UserPicksFormat ==
  /\ World
  /\ \E f \in device.accepts \ {device.format} : device' = [device EXCEPT !.format = f]
  /\ notes' = Property
  /\ UNCHANGED <<renaming, diagnosing>>

NameReset ==
  /\ World
  /\ device.name # Factory
  /\ device' = [device EXCEPT !.name = Factory]
  /\ notes' = Property
  /\ UNCHANGED <<renaming, diagnosing>>

ExclusiveChanges ==
  /\ World
  /\ \E allow \in {"on", "bad"} \ {device.allow} : device' = [device EXCEPT !.allow = allow]
  /\ notes' = Property
  /\ UNCHANGED <<renaming, diagnosing>>

(* The device is unplugged, plugged in again, or gets another driver.      *)
Replug ==
  /\ World
  /\ \E driver \in Drivers, state \in {"active", "unplugged", "notPresent"} : \E f \in driver :
       device' = [device EXCEPT !.accepts = driver, !.format = f,
                                !.state = IF @ = "disabled" THEN @ ELSE state]
  /\ notes' = Device
  /\ UNCHANGED <<renaming, diagnosing>>

-----------------------------------------------------------------------------
(* The pass.                                                               *)

Step(at) == pass.at = at
Goes(at) == pass' = [pass EXCEPT !.at = at]
Ends == pass' = Idle
Silent == UNCHANGED <<device, notes>>
PassOnly == UNCHANGED <<cfg, analysis, user, broken, changes>>
Tried(n) == tries' = tries + n

(* run and scanOnce: the settings and the enumeration, for the whole pass. *)
Begin ==
  /\ Step("idle") /\ engine.due # "none"
  /\ pass' = [at |-> "enter", full |-> engine.due = "full", kept |-> engine.kept,
              state |-> device.state, name |-> device.name]
  /\ engine' = [engine EXCEPT !.due = "none"]
  /\ tries' = IF engine.due = "full" THEN 0 ELSE tries
  /\ UNCHANGED <<device, notes, cfg, analysis, user, world>>

(* The record, the live state of a device that Audioslave disabled, the    *)
(* lock and the backoff.                                                   *)
Enter ==
  /\ Step("enter")
  /\ LET ours == engine.record # NoCaps
     IN \E state \in IF ours /\ pass.state # "disabled" THEN {device.state} ELSE {pass.state} :
          IF state = "notPresent" \/ (state = "disabled" /\ ~ours) THEN Ends
          ELSE pass' = [at |-> "name", kept |-> pass.kept, name |-> pass.name, state |-> state,
                        enforce |-> cfg.enforce /\ (pass.full \/ ~engine.failed)]
  /\ Silent /\ PassOnly /\ UNCHANGED <<engine, faults, tries>>

AfterName == IF pass.state = "disabled" THEN "ours" ELSE IF cfg.exclusive THEN "exclusive" ELSE "format"

(* restoreName, by the name in the enumeration.                            *)
RestoreName ==
  /\ Step("name")
  /\ Goes(AfterName)
  /\ IF pass.kept = NoName \/ pass.name = pass.kept \/ ~pass.enforce
       THEN Silent /\ UNCHANGED <<engine, faults, tries>>
       ELSE \/ /\ Works("name")
               /\ device' = [device EXCEPT !.name = pass.kept]
               /\ notes' = Property
               /\ UNCHANGED <<engine, tries>>
            \/ /\ Fails("name")
               /\ engine' = Failed(engine)
               /\ notes' \in {notes, Property}
               /\ Tried(1) /\ UNCHANGED device
  /\ PassOnly

(* judgeAndFix in three steps: inspect, write, verify.                     *)
Inspect ==
  /\ Step("exclusive")
  /\ \/ Goes(IF Readable /\ Allowed /\ pass.enforce THEN "exclusiveWrite" ELSE "format") /\ UNCHANGED faults
     \/ Goes("format") /\ Fault
  /\ Silent /\ PassOnly /\ UNCHANGED <<engine, tries>>

(* Two values and a commit: a failure may leave the first one written.     *)
WriteExclusive ==
  /\ Step("exclusiveWrite")
  /\ \/ /\ Works("exclusive")
        /\ device' = [device EXCEPT !.allow = "off", !.priority = "off"]
        /\ notes' = Property
        /\ Goes("exclusiveVerify")
        /\ UNCHANGED <<engine, tries>>
     \/ /\ Fails("exclusive")
        /\ device' \in IF "exclusive" \in broken THEN {device} ELSE {device, [device EXCEPT !.allow = "off"]}
        /\ notes' \in {notes, Property}
        /\ engine' = Failed(engine) /\ Tried(1)
        /\ Goes("format")
  /\ PassOnly

VerifyExclusive ==
  /\ Step("exclusiveVerify")
  /\ \/ engine' = (IF Readable /\ ~Allowed THEN Cleared(engine) ELSE Failed(engine)) /\ UNCHANGED faults
     \/ engine' = Failed(engine) /\ Fault
  /\ Goes("format")
  /\ Silent /\ PassOnly /\ UNCHANGED tries

(* Mutant of ReadFormat.                                                   *)
ReadFormatForgives ==
  /\ Step("format") /\ Matches(device.format, cfg.target)
  /\ Ends /\ engine' = [Cleared(engine) EXCEPT !.record = NoCaps]
  /\ Silent /\ PassOnly /\ UNCHANGED <<faults, tries>>

(* judgeAndApply: read, ask the driver, write, verify.  A device that is   *)
(* at the target needs no record.                                          *)
ReadFormat ==
  /\ Step("format")
  /\ \/ /\ pass.state # "active" \/ ~cfg.std
        /\ Ends /\ UNCHANGED <<engine, faults>>
     \/ /\ pass.state = "active" /\ cfg.std
        /\ \/ /\ Matches(device.format, cfg.target)
              /\ Ends /\ engine' = [engine EXCEPT !.record = NoCaps] /\ UNCHANGED faults
           \/ /\ ~Matches(device.format, cfg.target)
              /\ pass' = [at |-> "ask", enforce |-> pass.enforce, layout |-> device.format.layout]
              /\ UNCHANGED <<engine, faults>>
           \/ Fault /\ Ends /\ UNCHANGED engine
  /\ Silent /\ PassOnly /\ UNCHANGED tries

AskTarget ==
  /\ Step("ask")
  /\ LET accepted == Accepted(device.accepts, cfg.target, pass.layout) IN
       \/ /\ accepted = {}
          /\ Goes("incompatible") /\ UNCHANGED faults
       \/ /\ accepted # {} /\ pass.enforce
          /\ pass' = [at |-> "write", chosen |-> Preferred(device.accepts, cfg.target, pass.layout)]
          /\ UNCHANGED faults
       \/ /\ accepted # {} /\ ~pass.enforce
          /\ Ends /\ UNCHANGED faults
       \/ Ends /\ Fault
  /\ Silent /\ PassOnly /\ UNCHANGED <<engine, tries>>

(* setDeviceFormat, which may be refused, or accepted and ignored.         *)
WriteFormat ==
  /\ Step("write")
  /\ \/ /\ pass.chosen \in device.accepts /\ Works("format")
        /\ device' = [device EXCEPT !.format = pass.chosen]
        /\ notes' = Property
        /\ Goes("verify")
        /\ UNCHANGED <<engine, tries>>
     \/ /\ Fails("format")
        /\ notes' \in {notes, Property}
        /\ Goes("verify")
        /\ Tried(1) /\ UNCHANGED <<device, engine>>
     \/ /\ IF pass.chosen \in device.accepts THEN Fails("format") ELSE UNCHANGED faults
        /\ notes' \in {notes, Property}
        /\ engine' = Failed(engine) /\ Tried(1)
        /\ Ends /\ UNCHANGED device
  /\ PassOnly

VerifyFormat ==
  /\ Step("verify")
  /\ \/ /\ UNCHANGED faults
        /\ engine' = IF Matches(device.format, cfg.target)
                       THEN [Cleared(engine) EXCEPT !.record = NoCaps] ELSE Failed(engine)
     \/ engine' = Failed(engine) /\ Fault
  /\ Ends
  /\ Silent /\ PassOnly /\ UNCHANGED tries

(* handleIncompatible: the capabilities known, or the driver's.  Without   *)
(* the current format it is asked about stereo.                            *)
AskDriver ==
  /\ Step("incompatible")
  /\ LET judge(caps, asked) ==
           pass' = [at |-> "judge", enforce |-> pass.enforce, caps |-> caps, asked |-> asked]
     IN \/ /\ engine.caps # NoCaps
           /\ judge(engine.caps, FALSE) /\ UNCHANGED faults
        \/ /\ engine.caps = NoCaps
           /\ \/ judge(Probe(device.accepts, device.format.layout), TRUE) /\ UNCHANGED faults
              \/ judge(Probe(device.accepts, Stereo), TRUE) /\ Fault
              \/ judge(NoCaps, FALSE) /\ Fault
  /\ Silent /\ PassOnly /\ UNCHANGED <<engine, tries>>

(* What the driver answered is kept, whatever was forgotten meanwhile.     *)
Judge ==
  /\ Step("judge")
  /\ engine' = IF pass.asked THEN [engine EXCEPT !.caps = pass.caps] ELSE engine
  /\ IF cfg.disable /\ Verdict(pass.caps, cfg.target) # "unknown" /\ pass.enforce
       THEN pass' = [at |-> "disable", caps |-> pass.caps]
       ELSE Ends
  /\ Silent /\ PassOnly /\ UNCHANGED <<faults, tries>>

Disable ==
  /\ Step("disable")
  /\ \/ /\ device.state # "active"
        /\ Silent /\ UNCHANGED <<engine, faults>>
     \/ /\ device.state = "active"
        /\ device' = [device EXCEPT !.state = "disabled"]
        /\ notes' = Device
        /\ engine' = [Cleared(engine) EXCEPT !.record = pass.caps]
        /\ UNCHANGED faults
     \/ Fault /\ engine' = Failed(engine) /\ Silent
  /\ Ends
  /\ PassOnly /\ UNCHANGED tries

(* handleDisabledByAudioslave, by the capabilities on record.              *)
Ours ==
  /\ Step("ours")
  /\ \/ /\ (cfg.std /\ cfg.disable /\ Incompatible(engine.record, cfg.target)) \/ ~pass.enforce
        /\ Silent /\ UNCHANGED <<engine, faults>>
     \/ /\ ~(cfg.std /\ cfg.disable /\ Incompatible(engine.record, cfg.target)) /\ pass.enforce
        /\ \/ /\ device' = [device EXCEPT !.state = IF @ = "disabled" THEN "active" ELSE @]
              /\ notes' = Device
              /\ engine' = [engine EXCEPT !.record = NoCaps]
              /\ UNCHANGED faults
           \/ Fault /\ engine' = Failed(engine) /\ Silent
  /\ Ends
  /\ PassOnly /\ UNCHANGED tries

Pass ==
  \/ Begin \/ Enter \/ RestoreName \/ Inspect \/ WriteExclusive \/ VerifyExclusive
  \/ ReadFormat \/ AskTarget \/ WriteFormat \/ VerifyFormat
  \/ AskDriver \/ Judge \/ Disable \/ Ours

(* CheckIntervalSeconds and the 30 s of the failure backoff.               *)
Periodic ==
  /\ Step("idle") /\ engine.due # "full"
  /\ engine' = [engine EXCEPT !.due = "full"]
  /\ UNCHANGED <<device, notes, cfg, pass, analysis, user, world, tries>>

BackoffEnds ==
  /\ engine.failed
  /\ engine' = Cleared(engine) /\ tries' = 0
  /\ UNCHANGED <<device, notes, cfg, pass, analysis, user, world>>

-----------------------------------------------------------------------------
(* The host's other threads and other processes.                           *)

(* analyze asks the drivers of settings that are only considered.          *)
AnalyzeAsks ==
  /\ analysis = NoCaps /\ device.state = "active" /\ engine.caps = NoCaps
  /\ \/ analysis' = Probe(device.accepts, device.format.layout) /\ UNCHANGED faults
     \/ analysis' = Probe(device.accepts, Stereo) /\ Fault
  /\ UNCHANGED <<device, notes, cfg, engine, pass, user, broken, changes, tries>>

AnalyzeStores ==
  /\ analysis # NoCaps
  /\ engine' = [engine EXCEPT !.caps = analysis]
  /\ analysis' = NoCaps
  /\ UNCHANGED <<device, notes, cfg, pass, user, world, tries>>

Locked == ~(Step("idle") \/ Step("enter"))

(* renameDevice: under modifyLock_, Windows first.                         *)
Rename ==
  /\ World
  /\ renaming = Nothing /\ ~Locked /\ "name" \notin broken
  /\ \E name \in Names :
       /\ device' = [device EXCEPT !.name = name]
       /\ renaming' = [step |-> "renamed", to |-> name]
  /\ notes' = Property
  /\ UNCHANGED diagnosing

Release ==
  /\ World
  /\ renaming = Nothing /\ saved # NoName
  /\ renaming' = [step |-> "renamed", to |-> NoName]
  /\ UNCHANGED <<device, notes, diagnosing>>

(* Mutant of RenameSaved.                                                  *)
RenameSavedOnly ==
  /\ renaming # Nothing
  /\ saved' = renaming.to
  /\ renaming' = Nothing
  /\ engine' = Rescan(engine)
  /\ UNCHANGED <<device, notes, cfg, pass, analysis, diagnosing, world, tries>>

(* ServiceHost::rename: config.ini, then the engine; or it cannot save.    *)
RenameSaved ==
  /\ renaming # Nothing
  /\ renaming' = Nothing
  /\ \/ /\ saved' = renaming.to
        /\ engine' = Rescan([Cleared(engine) EXCEPT !.kept = renaming.to])
        /\ tries' = 0
        /\ UNCHANGED faults
     \/ Fault /\ UNCHANGED <<saved, engine, tries>>
  /\ UNCHANGED <<device, notes, cfg, pass, analysis, diagnosing, broken, changes>>

(* "audioslave diagnose": reads the flag and writes it back.               *)
DiagnoseReads ==
  /\ World
  /\ diagnosing = Nothing /\ Readable
  /\ diagnosing' = [step |-> "read", allow |-> IF Allowed THEN "on" ELSE "off"]
  /\ UNCHANGED <<device, notes, renaming>>

DiagnoseWrites ==
  /\ diagnosing # Nothing
  /\ device' = [device EXCEPT !.allow = diagnosing.allow]
  /\ notes' = Property
  /\ diagnosing' = Nothing /\ tries' = 0
  /\ UNCHANGED <<cfg, engine, pass, analysis, saved, renaming, world>>

Others ==
  \/ UserPicksFormat \/ NameReset \/ ExclusiveChanges \/ Replug \/ Rename \/ Release \/ DiagnoseReads
  \/ AnalyzeAsks \/ Periodic

Next == Pass \/ Others \/ (\E kind \in notes : Deliver(kind)) \/ BackoffEnds \/ AnalyzeStores \/ RenameSaved \/ DiagnoseWrites

Spec == Init /\ [][Next]_vars

(* The worker runs, again after CheckIntervalSeconds at the latest, Windows *)
(* delivers its notifications, and a call that has begun goes on.          *)
Fairness ==
  /\ WF_vars(Pass) /\ WF_vars(Periodic) /\ WF_vars(BackoffEnds)
  /\ \A kind \in {"property", "device"} : WF_vars(Deliver(kind))
  /\ WF_vars(AnalyzeStores) /\ WF_vars(RenameSaved) /\ WF_vars(DiagnoseWrites)

FairSpec == Spec /\ Fairness

-----------------------------------------------------------------------------
CapsOrNone == {NoCaps} \cup SUBSET Targets

States == {"active", "disabled", "unplugged", "notPresent"}
Formats == UNION Drivers

Devices ==
  [state : States, accepts : Drivers, format : Formats, allow : Flags, priority : Flags,
   name : Names \cup {Factory}]

Engines ==
  [caps : CapsOrNone, failed : BOOLEAN, record : CapsOrNone \ {{}},
   kept : Names \cup {NoName}, due : {"none", "triggered", "full"}]

Passes ==
  [at : {"idle"}]
  \cup [at : {"enter"}, full : BOOLEAN, kept : Names \cup {NoName}, state : States, name : Names \cup {Factory}]
  \cup [at : {"name", "exclusive", "exclusiveWrite", "exclusiveVerify", "format", "ours"},
        kept : Names \cup {NoName}, name : Names \cup {Factory}, state : States \ {"notPresent"},
        enforce : BOOLEAN]
  \cup [at : {"ask", "incompatible"}, enforce : BOOLEAN, layout : Layouts]
  \cup [at : {"write", "verify"}, chosen : Formats]
  \cup [at : {"judge"}, enforce : BOOLEAN, caps : CapsOrNone, asked : BOOLEAN]
  \cup [at : {"disable"}, caps : CapsOrNone \ {{}, NoCaps}]

TypeOK ==
  /\ device \in Devices /\ device.format \in device.accepts
  /\ notes \subseteq {"property", "device"} /\ cfg \in Configs /\ saved \in Names \cup {NoName}
  /\ engine \in Engines
  /\ pass \in Passes /\ analysis \in CapsOrNone
  /\ renaming \in {Nothing} \cup [step : {"renamed"}, to : Names \cup {NoName}]
  /\ diagnosing \in {Nothing} \cup [step : {"read"}, allow : {"on", "off"}]
  /\ broken \in BrokenSets /\ changes \in 0..MaxChanges /\ faults \in 0..MaxFaults
  /\ tries \in Nat

(* The passes that the engine's own writes trigger do not repeat a write   *)
(* that failed for ever: between two outside events (a full pass, the end  *)
(* of the backoff, a change of the device or of the settings) at most four *)
(* writes of the name, the flags and the format fail, since a failure      *)
(* keeps the next passes from writing until another write succeeds         *)
(* (recordFailure, clearFailure, scanOnce).                                *)
NoWriteStorm == tries <= 4

(* In the end exclusive mode is off where it can be read, and the format   *)
(* is the target's or, when the driver does not take it, the device is     *)
(* disabled with capabilities on record that say so, or left as it is if   *)
(* the policy is off or its driver named no format when asked.             *)
Done ==
  LET takes == Accepted(device.accepts, cfg.target, device.format.layout) # {} IN
    /\ (cfg.exclusive /\ cfg.enforce /\ device.state \in {"active", "unplugged"} /\ Readable
        /\ "exclusive" \notin broken) => ~Allowed
    /\ (cfg.std /\ cfg.enforce /\ device.state = "active" /\ "format" \notin broken) =>
         Matches(device.format, cfg.target) \/ (~takes /\ (~cfg.disable \/ engine.caps = {}))
    /\ device.state = "disabled" => Incompatible(engine.record, cfg.target)

Settles == <>[]Done

(* In the end the device has the name that config.ini keeps for it,        *)
(* whatever pass ran while it was being renamed (rename, restoreName).     *)
NameKept == <>[](\/ saved = NoName \/ device.name = saved
                \/ ~cfg.enforce \/ "name" \in broken \/ device.state = "notPresent")

=============================================================================
