----------------------------- MODULE DevicePolicy -----------------------------
(***************************************************************************)
(* The incompatible-device policy of core/WatchdogEngine for one endpoint: *)
(* what a pass reads, decides, changes in Windows and records, against the *)
(* user, Windows and its drivers, the control commands, hand edits of      *)
(* config.ini and restarts of the service.  Nothing the code remembers of  *)
(* one endpoint depends on another.                                        *)
(*                                                                         *)
(* Passes run one at a time (scanLock_, see WatchdogEngine), so there is   *)
(* one pass in progress at most; modifyLock_ is held while pc is in        *)
(* Critical.  Commands run one at a time too (controlLock_), but neither    *)
(* lock keeps a pass out while setConfig goes from one of its steps to the *)
(* next.  A history of times is kept as ages, newest first, and only as    *)
(* far back as matters.                                                    *)
(***************************************************************************)
EXTENDS Naturals

CONSTANTS
  Formats,      \* the rate and depth pairs the user chooses from
  Supported,    \* those the endpoint's driver accepts
  NoFormat,     \* DisableConfirmedFor is empty
  Configs,      \* the configurations considered
  NoConfig,     \* no pass is running
  MaxDisables,  \* maxDisablesPerWindow (5 in the code)
  Window,       \* loopWindowMs, in ticks of the clock
  Faults        \* what may happen: "unreadable" (Windows does not tell a state),
                \* "crash" (of the service in a pass), "race" (a device changes
                \* by itself or the user while a pass is looking at it)

ConfigSpace == [std : BOOLEAN, target : Formats, disable : BOOLEAN,
                confirmedFor : Formats \cup {NoFormat}, enforce : BOOLEAN, monitor : BOOLEAN]

ASSUME PolicyAssumption ==
  /\ Supported \subseteq Formats
  /\ NoFormat \notin Formats
  /\ Configs \subseteq ConfigSpace
  /\ NoConfig \notin Configs
  /\ MaxDisables \in Nat \ {0}
  /\ Window \in Nat \ {0}
  /\ Faults \subseteq {"unreadable", "crash", "race"}

VARIABLES
  winState,   \* the endpoint's state in Windows
  disabler,   \* history: who disabled it, if it is disabled
  rec,        \* its record in the DeviceStateStore, always saved
  file,       \* config.ini
  config,     \* config_ of the engine
  failed,     \* EndpointMemory: a change was rejected less than 30 s ago
  command,    \* what the command in progress has yet to do
  pc, kind, cfg, seen, mine,  \* the pass in progress and its locals
  strikes     \* history: ages of the verified disables since the policy last changed
              \* or the history was last started over

windows == <<winState, disabler>>
settings == <<file, config>>
pass == <<pc, kind, cfg, seen, mine>>
vars == <<windows, rec, settings, failed, command, pass, strikes>>

Ages(n) == [1..n -> 0..Window]
Long(n) == [i \in 1..n |-> Window]
Push(ages) == [i \in DOMAIN ages |-> IF i = 1 THEN 0 ELSE ages[i - 1]]
Older(ages) == [i \in DOMAIN ages |-> IF ages[i] < Window THEN ages[i] + 1 ELSE Window]

Records == [present : BOOLEAN, disabled : BOOLEAN, left : BOOLEAN, history : Ages(MaxDisables)]
NoRecord == [present |-> FALSE, disabled |-> FALSE, left |-> FALSE, history |-> Long(MaxDisables)]

Policy(c) == [std |-> c.std, target |-> c.target, disable |-> c.disable, confirmedFor |-> c.confirmedFor]
Confirmed(c) == c.std /\ c.disable /\ c.confirmedFor = c.target
(* The user wants this endpoint disabled.                                  *)
Wanted(c) == Confirmed(c) /\ c.target \notin Supported

Critical == {"decide", "putBack", "check", "disable", "verify", "enable", "verifyOn"}

TypeOK ==
  /\ winState \in {"active", "disabled", "unplugged"}
  /\ disabler \in {"nobody", "user", "us"}
  /\ rec \in Records
  /\ file \in Configs
  /\ config \in Configs
  /\ failed \in BOOLEAN
  /\ command \in SUBSET {"reset", "pass", "passing"}
  /\ pc \in {"idle", "enumerate", "lookup", "judge"} \cup Critical
  /\ kind \in {"full", "triggered"}
  /\ cfg \in Configs \cup {NoConfig}
  /\ pc # "idle" => cfg \in Configs
  /\ seen \in {"active", "disabled", "unplugged"}
  /\ mine \in Records
  /\ strikes \in Ages(MaxDisables + 1)

Init ==
  /\ winState = "active"
  /\ disabler = "nobody"
  /\ rec = NoRecord
  /\ file \in Configs
  /\ config = file
  /\ failed = FALSE
  /\ command = {}
  /\ pc = "idle"
  /\ kind = "full"
  /\ cfg = NoConfig
  /\ seen = "active"
  /\ mine = NoRecord
  /\ strikes = Long(MaxDisables + 1)

-----------------------------------------------------------------------------
(* One pass over the endpoint: scanOnce.                                   *)

Begin(k) ==
  /\ pc = "idle"
  /\ pc' = "enumerate"
  /\ kind' = k
  /\ cfg' = config
  /\ UNCHANGED <<windows, rec, settings, failed, seen, mine, strikes>>

StartPass(k) == Begin(k) /\ UNCHANGED command

(* configure's own full pass, once the worker's is over.                   *)
CommandPass ==
  /\ command = {"pass"}
  /\ command' = {"passing"}
  /\ Begin("full")

(* Done with the endpoint: the locals are gone, configure returns.         *)
EndPass ==
  /\ pc' = "idle"
  /\ kind' = "full"
  /\ cfg' = NoConfig
  /\ seen' = "active"
  /\ mine' = NoRecord
  /\ command' = command \ {"passing"}

Goto(label) == pc' = label /\ UNCHANGED <<kind, cfg, seen, command>>

(* The enumeration fails, or pause() ends the pass before the endpoint.    *)
BreaksOff ==
  /\ pc \in {"enumerate", "judge"}
  /\ EndPass
  /\ UNCHANGED <<windows, rec, settings, failed, strikes>>

Enumerate ==
  /\ pc = "enumerate"
  /\ pc' = "lookup"
  /\ seen' = winState
  /\ UNCHANGED <<windows, rec, settings, failed, command, kind, cfg, mine, strikes>>

(* The record, and a second look at an endpoint thought to be enabled again. *)
Lookup ==
  /\ pc = "lookup"
  /\ \E live \in {winState} \cup (IF "unreadable" \in Faults THEN {seen} ELSE {}) :
       LET now == IF rec.disabled /\ seen # "disabled" THEN live ELSE seen
       IN IF ~cfg.monitor \/ (now = "disabled" /\ ~rec.disabled)
            THEN EndPass
            ELSE pc' = "judge" /\ seen' = now /\ mine' = rec /\ UNCHANGED <<kind, cfg, command>>
  /\ UNCHANGED <<windows, rec, settings, failed, strikes>>

Enforce == cfg.enforce /\ ~(kind = "triggered" /\ failed)

(* Mutant of JudgeDisabled: only the formats are compared.                 *)
JudgeDisabledByFormat ==
  /\ pc = "judge"
  /\ seen = "disabled"
  /\ IF cfg.target \notin Supported \/ ~Enforce
       THEN EndPass
       ELSE Goto("enable") /\ UNCHANGED mine
  /\ UNCHANGED <<windows, rec, settings, failed, strikes>>

(* handleDisabledByAudioslave, with the state and the record of Lookup.    *)
JudgeDisabled ==
  /\ pc = "judge"
  /\ seen = "disabled"
  /\ IF Wanted(cfg) \/ ~Enforce
       THEN EndPass
       ELSE Goto("enable") /\ UNCHANGED mine
  /\ UNCHANGED <<windows, rec, settings, failed, strikes>>

(* The endpoint has the target format, or takes it: nothing to remember.   *)
JudgeOk ==
  /\ pc = "judge"
  /\ seen = "active" /\ winState = "active"
  /\ cfg.std
  /\ cfg.target \in Supported
  /\ rec' = IF mine.present THEN NoRecord ELSE rec
  /\ EndPass
  /\ UNCHANGED <<windows, settings, failed, strikes>>

(* Not connected, no standardization, formats unknown, or only to be       *)
(* reported: left as it is.  Or a write (format, exclusive mode, name) was *)
(* rejected.                                                               *)
JudgeNothing ==
  /\ pc = "judge"
  /\ seen # "disabled"
  /\ \/ UNCHANGED failed
     \/ Enforce /\ failed' = TRUE
  /\ EndPass
  /\ UNCHANGED <<windows, rec, settings, strikes>>

JudgeIncompatible ==
  /\ pc = "judge"
  /\ seen = "active"
  /\ Wanted(cfg)
  /\ Enforce
  /\ Goto("decide")
  /\ UNCHANGED <<windows, rec, settings, failed, mine, strikes>>

(* Mutant of Decide: the history starts over with every disable.           *)
DecideAfresh ==
  /\ pc = "decide"
  /\ IF rec.left \/ rec.history[MaxDisables] < Window
       THEN Goto("putBack") /\ mine' = [rec EXCEPT !.disabled = FALSE]
       ELSE /\ Goto("check")
            /\ mine' = [present |-> TRUE, disabled |-> TRUE, left |-> FALSE,
                        history |-> Push(Long(MaxDisables))]
  /\ UNCHANGED <<windows, rec, settings, failed, strikes>>

(* Mutant of Decide: disables of before the window count too.              *)
DecideByDay ==
  /\ pc = "decide"
  /\ IF rec.left \/ rec.present
       THEN Goto("putBack") /\ mine' = [rec EXCEPT !.disabled = FALSE]
       ELSE /\ Goto("check")
            /\ mine' = [present |-> TRUE, disabled |-> TRUE, left |-> FALSE,
                        history |-> Push(rec.history)]
  /\ UNCHANGED <<windows, rec, settings, failed, strikes>>

(* Mutant of Decide: the copy that is put back is a fresh one.             *)
DecideForgives ==
  /\ pc = "decide"
  /\ IF rec.left \/ rec.history[MaxDisables] < Window
       THEN Goto("putBack") /\ mine' = [rec EXCEPT !.disabled = FALSE, !.left = FALSE]
       ELSE /\ Goto("check")
            /\ mine' = [present |-> TRUE, disabled |-> TRUE, left |-> FALSE,
                        history |-> Push(rec.history)]
  /\ UNCHANGED <<windows, rec, settings, failed, strikes>>

(* Loop protection and the user's decision, on a copy of the record.       *)
Decide ==
  /\ pc = "decide"
  /\ IF rec.left \/ rec.history[MaxDisables] < Window
       THEN Goto("putBack") /\ mine' = [rec EXCEPT !.disabled = FALSE]
       ELSE /\ Goto("check")
            /\ mine' = [present |-> TRUE, disabled |-> TRUE, left |-> FALSE,
                        history |-> Push(rec.history)]
  /\ UNCHANGED <<windows, rec, settings, failed, strikes>>

PutBack ==
  /\ pc = "putBack"
  /\ rec' = mine
  /\ EndPass
  /\ UNCHANGED <<windows, settings, failed, strikes>>

(* Only a connected, active endpoint is disabled.                          *)
Check ==
  /\ pc = "check"
  /\ IF winState = "active" \/ "unreadable" \in Faults
       THEN Goto("disable") /\ UNCHANGED mine
       ELSE EndPass
  /\ UNCHANGED <<windows, rec, settings, failed, strikes>>

Disable ==
  /\ pc = "disable"
  /\ winState' = "disabled"
  /\ disabler' = IF winState = "disabled" THEN disabler ELSE "us"
  /\ Goto("verify")
  /\ UNCHANGED <<rec, settings, failed, mine, strikes>>

Verify ==
  /\ pc = "verify"
  /\ winState = "disabled"
  /\ rec' = mine
  /\ strikes' = Push(strikes)
  /\ failed' = FALSE
  /\ EndPass
  /\ UNCHANGED <<windows, settings>>

Enable ==
  /\ pc = "enable"
  /\ winState' = IF winState = "disabled" THEN "active" ELSE winState
  /\ disabler' = "nobody"
  /\ Goto("verifyOn")
  /\ UNCHANGED <<rec, settings, failed, mine, strikes>>

VerifyOn ==
  /\ pc = "verifyOn"
  /\ winState # "disabled"
  /\ rec' = NoRecord
  /\ EndPass
  /\ UNCHANGED <<windows, settings, failed, strikes>>

Refused ==
  /\ pc \in {"disable", "enable"}
  /\ failed' = TRUE
  /\ EndPass
  /\ UNCHANGED <<windows, rec, settings, strikes>>

(* The change does not show, or the state cannot be read back.             *)
NotVerified ==
  /\ \/ pc = "verify" /\ (winState # "disabled" \/ "unreadable" \in Faults)
     \/ pc = "verifyOn" /\ (winState = "disabled" \/ "unreadable" \in Faults)
  /\ failed' = TRUE
  /\ EndPass
  /\ UNCHANGED <<windows, rec, settings, strikes>>

PassStep ==
  \/ BreaksOff
  \/ Enumerate
  \/ Lookup
  \/ JudgeDisabled
  \/ JudgeOk
  \/ JudgeNothing
  \/ JudgeIncompatible
  \/ Decide
  \/ PutBack
  \/ Check
  \/ Disable
  \/ Verify
  \/ Enable
  \/ VerifyOn
  \/ Refused
  \/ NotVerified

-----------------------------------------------------------------------------
(* Commands.                                                               *)

(* Mutant of ResetHistory: every record has served its purpose.            *)
ResetEverything(r) == NoRecord

(* Devices left enabled get a new chance; the others stay on record.       *)
ResetHistory(r) ==
  IF r.disabled THEN [r EXCEPT !.left = FALSE, !.history = Long(MaxDisables)] ELSE NoRecord

(* WatchdogEngine::setConfig up to where configLock_ is released: passes    *)
(* read the new configuration from here on.  That EndpointMemory forgets   *)
(* the failures a moment later makes no difference: until then a triggered *)
(* pass may find one and do nothing, as if it broke off, and one remembered *)
(* meanwhile is forgotten, as if its back-off ended.                       *)
SetConfig(c, rest) ==
  /\ config' = c
  /\ failed' = FALSE
  /\ IF Policy(c) # Policy(config)
       THEN command' = {"reset"} \cup rest /\ strikes' = Long(MaxDisables + 1)
       ELSE command' = rest /\ UNCHANGED strikes

(* And its last step, for a new policy.  A pass that began meanwhile may   *)
(* have disabled the endpoint under it, and put that on record.            *)
StartOver ==
  /\ "reset" \in command
  /\ command' = command \ {"reset"}
  /\ rec' = ResetHistory(rec)
  /\ strikes' = Long(MaxDisables + 1)
  /\ UNCHANGED <<windows, settings, failed, pass>>

Settings == [std : BOOLEAN, target : Formats, disable : BOOLEAN, confirm : BOOLEAN]

WithSettings(c, s) ==
  [c EXCEPT !.std = s.std, !.target = s.target, !.disable = s.disable,
            !.confirmedFor = IF ~s.disable THEN NoFormat
                             ELSE IF s.confirm THEN s.target ELSE @]

Configure ==
  /\ command = {}
  /\ \E s \in Settings :
       /\ WithSettings(file, s) \in Configs
       /\ file' = WithSettings(file, s)
       /\ SetConfig(WithSettings(file, s), {"pass"})
  /\ UNCHANGED <<windows, rec, pass>>

(* The engine is paused: configure's pass does nothing.                    *)
CommandPaused ==
  /\ command = {"pass"}
  /\ command' = {}
  /\ UNCHANGED <<windows, rec, settings, failed, pass, strikes>>

(* reload, resume, rename or paramchange: a hand-edited file takes effect. *)
Reload ==
  /\ command = {}
  /\ SetConfig(file, {})
  /\ UNCHANGED <<windows, rec, file, pass>>

(* Mutant of EnableDevice: it does not wait for the pass.                  *)
EnableUnlocked ==
  /\ command = {}
  /\ winState' = IF winState = "disabled" THEN "active" ELSE winState
  /\ disabler' = "nobody"
  /\ IF rec.present
       THEN rec' = [rec EXCEPT !.disabled = FALSE, !.left = TRUE]
       ELSE UNCHANGED rec
  /\ UNCHANGED <<settings, failed, command, pass, strikes>>

(* enableDevice: "enable it again and keep it enabled", from the window.   *)
EnableDevice ==
  /\ command = {}
  /\ pc \notin Critical
  /\ winState' = IF winState = "disabled" THEN "active" ELSE winState
  /\ disabler' = "nobody"
  /\ IF rec.present
       THEN rec' = [rec EXCEPT !.disabled = FALSE, !.left = TRUE]
       ELSE UNCHANGED rec
  /\ UNCHANGED <<settings, failed, command, pass, strikes>>

-----------------------------------------------------------------------------
(* The rest of the world.                                                  *)

Quiet == pc = "idle" \/ "race" \in Faults

UserDisables ==
  /\ winState = "active"
  /\ Quiet
  /\ winState' = "disabled"
  /\ disabler' = "user"
  /\ UNCHANGED <<rec, settings, failed, command, pass, strikes>>

(* In the Sound panel, by Windows or by a driver that re-creates it.       *)
ComesBack ==
  /\ winState = "disabled"
  /\ Quiet
  /\ winState' = "active"
  /\ disabler' = "nobody"
  /\ UNCHANGED <<rec, settings, failed, command, pass, strikes>>

PlugChanges ==
  /\ Quiet
  /\ winState # "disabled"
  /\ winState' = IF winState = "active" THEN "unplugged" ELSE "active"
  /\ UNCHANGED <<disabler, rec, settings, failed, command, pass, strikes>>

EditFile ==
  /\ \E c \in Configs : file' = c
  /\ UNCHANGED <<windows, rec, config, failed, command, pass, strikes>>

(* failureBackoffMs are over, or EndpointMemory has forgotten the endpoint *)
(* because Windows told of a change of its state (onDeviceChange), which   *)
(* it does at any time after it.                                           *)
BackoffEnds ==
  /\ failed
  /\ failed' = FALSE
  /\ UNCHANGED <<windows, rec, settings, command, pass, strikes>>

(* A pass takes moments, the window minutes: time passes between passes.   *)
Tick ==
  /\ pc = "idle"
  /\ rec' = [rec EXCEPT !.history = Older(@)]
  /\ strikes' = Older(strikes)
  /\ UNCHANGED <<windows, settings, failed, command, pass>>

(* The service restarts: cleanly, when no pass or command is in progress,  *)
(* or wherever it is.  Nothing tells it that the file was edited meanwhile. *)
Restart ==
  /\ "crash" \in Faults \/ (pc = "idle" /\ command = {})
  /\ config' = file
  /\ failed' = FALSE
  /\ command' = {}
  /\ pc' = "idle"
  /\ kind' = "full"
  /\ cfg' = NoConfig
  /\ seen' = "active"
  /\ mine' = NoRecord
  /\ IF Policy(file) # Policy(config)
       THEN strikes' = Long(MaxDisables + 1)
       ELSE UNCHANGED strikes
  /\ UNCHANGED <<winState, disabler, rec, file>>

World ==
  \/ UserDisables
  \/ ComesBack
  \/ PlugChanges
  \/ EditFile
  \/ BackoffEnds
  \/ Tick
  \/ Restart

Next ==
  \/ \E k \in {"full", "triggered"} : StartPass(k)
  \/ CommandPass
  \/ PassStep
  \/ Configure
  \/ StartOver
  \/ CommandPaused
  \/ Reload
  \/ EnableDevice
  \/ World

(* A pass that has begun goes on; full passes keep coming (the interval,   *)
(* once a burst of notifications is over, unless monitoring is paused for  *)
(* good); time passes; monitoring is not paused again and again at the     *)
(* same place; and what Windows or a driver refuses or cannot answer it    *)
(* does not refuse forever.                                                *)
Fairness ==
  /\ WF_vars(PassStep)
  /\ SF_vars(StartPass("full"))
  /\ SF_vars(Tick)
  /\ SF_vars(kind = "full" /\ Enumerate)
  /\ SF_vars(kind = "full" /\ JudgeDisabled)
  /\ SF_vars(JudgeIncompatible)
  /\ SF_vars(Disable \/ Enable)

Spec == Init /\ [][Next]_vars
FairSpec == Spec /\ Fairness

-----------------------------------------------------------------------------
(* Properties.                                                             *)

(* A pass that is about to disable the endpoint does not run over the      *)
(* user's choice to keep it enabled: enableDevice waits for modifyLock_,   *)
(* under which the pass has read the record (handleIncompatible).          *)
LeftEnabledKept == pc \in {"check", "disable"} => ~rec.left

(* Loop protection: never more than maxDisablesPerWindow verified disables *)
(* within loopWindowMs under one policy since its history was started over *)
(* (setConfig, resetHistory), whatever copies of the record passes write   *)
(* back and whatever else erases it (handleIncompatible).                  *)
NoLoop == strikes[MaxDisables + 1] = Window

(* A device Audioslave disabled is on record as disabled by it, outside    *)
(* the moment between the change and the record, so that it can be enabled *)
(* again (DeviceStateStore, handleIncompatible).                           *)
OursIsRecorded ==
  winState = "disabled" /\ disabler = "us" => rec.disabled \/ pc = "verify"

(* The passes, the commands, the record and the clock keep to Restraint,   *)
(* whatever copies of the record are written back and whoever interferes.  *)
Limits ==
  INSTANCE Restraint
    WITH Policies <- {Policy(c) : c \in Configs},
         Wanting <- {Policy(c) : c \in {d \in Configs : Wanted(d)}},
         None <- NoConfig,
         policy <- Policy(config),
         judged <- IF pc = "idle" THEN NoConfig ELSE Policy(cfg),
         kept <- rec.left,
         recent <- strikes,
         renewal <- "reset" \in command
ImplementsRestraint == Limits!RestraintSpec

Ours == winState = "disabled" /\ rec.disabled
Enforced(c) == c.enforce /\ c.monitor

(* Once the policy no longer asks for it (it is off, unconfirmed, or the   *)
(* format is one the endpoint takes), a device Audioslave disabled is      *)
(* enabled again or the settings change (handleDisabledByAudioslave).      *)
NotStranded == []<>(~Ours \/ ~Enforced(config) \/ Wanted(config))

(* Loop protection only delays, as README.md:351 and the comment in        *)
(* handleIncompatible have it ("wait until the window passes"): an         *)
(* incompatible endpoint that stays enabled is disabled in the end, unless *)
(* the user keeps it enabled or the settings change.                       *)
PolicyReturns ==
  []<>(winState # "active" \/ rec.left \/ ~Enforced(config) \/ ~Wanted(config))

(* A device the user disabled is never enabled by a pass (scanOnce,        *)
(* handleDisabledByAudioslave).                                            *)
UserDisabledUntouched ==
  [][winState = "disabled" /\ disabler = "user" => ~(pc = "enable" /\ pc' = "verifyOn")]_vars

(* What the tray says of a device loop protection leaves enabled is true:  *)
(* it is not disabled again until the settings change (handleIncompatible, *)
(* AudioslaveApplication::notifyDeviceEvents).                             *)
LeftUntilSettingsChange ==
  \A c \in Configs :
    [](pc = "putBack" /\ ~mine.left /\ "passing" \notin command /\ config = c
         => ([](config = c) => [](pc # "verify")))

-----------------------------------------------------------------------------
(* The inductive invariants behind LeftEnabledKept, NoLoop, OursIsRecorded *)
(* and the refinement; module DevicePolicyProofs proves them.              *)

Disabling == {"decide", "putBack", "check", "disable", "verify"}
Unused == strikes = Long(MaxDisables + 1)

(* A pass changes the endpoint for the configuration it started with, and  *)
(* a policy that changed under it has not been used yet.                   *)
PassInv ==
  /\ pc \in Disabling => Wanted(cfg)
  /\ pc \in {"enable", "verifyOn"} => ~Wanted(cfg)
  /\ pc # "idle" /\ Policy(cfg) # Policy(config) => Unused

(* Every disable the present policy has made is in the history, or in the  *)
(* copy of it that the pass will write back.                               *)
HistoryInv ==
  /\ Wanted(config) => \A i \in 1..MaxDisables : rec.history[i] <= strikes[i]
  /\ ~Wanted(config) => \A i \in 2..(MaxDisables + 1) : strikes[i] = Window
  /\ pc = "putBack" => \A i \in 1..MaxDisables : mine.history[i] <= strikes[i]
  /\ pc \in {"check", "disable", "verify"} =>
       /\ mine.history[1] = 0
       /\ \A i \in 2..MaxDisables : mine.history[i] <= strikes[i - 1]
       /\ strikes[MaxDisables] = Window

(* A choice to keep the endpoint enabled cannot come between a pass that   *)
(* has decided and what it writes back.                                    *)
ChoiceInv ==
  /\ pc \in {"check", "disable", "verify"} => ~rec.left /\ ~mine.left
  /\ pc = "putBack" /\ rec.left => mine.left

LoopInv == TypeOK /\ PassInv /\ HistoryInv /\ NoLoop

(* What a pass that is going to disable the endpoint, or to write back its *)
(* record, has seen is not a device Audioslave has disabled already.       *)
OursInv ==
  /\ disabler = "us" => winState = "disabled" /\ (rec.disabled \/ pc = "verify")
  /\ disabler = "us" => pc \notin {"decide", "putBack", "check", "disable"}
  /\ disabler = "us" /\ pc \in {"lookup", "judge"} => seen = "disabled"
  /\ pc \in {"check", "disable", "verify"} => mine.disabled
=============================================================================
