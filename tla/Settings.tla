------------------------------- MODULE Settings -------------------------------
(***************************************************************************)
(* The audio settings and the consent to disable devices: config.ini, the  *)
(* host that loads, saves and applies it (service/, config/), the passes   *)
(* over one endpoint, the statuses and replies that tell the tray about    *)
(* them (ipc/), the settings page, the prompt and the notifications of the *)
(* tray (app/), the command line (cli/) and people who edit the file.      *)
(*                                                                         *)
(* A target is a sample rate with a bit depth.  WatchdogEngine has the     *)
(* locks of a pass, DevicePolicy what the policy remembers of a device;    *)
(* here a pass reads the configuration in one step and acts in another.    *)
(***************************************************************************)
EXTENDS Naturals, FiniteSets, Sequences, SequencesExt

CONSTANTS
  Targets, Default, \* the formats on offer, and the one of a new config.ini
  Bad, NoTarget,    \* a value that does not parse; no confirmation
  NoFile, Nothing,  \* config.ini is missing; a variable without a value
  Supported,        \* the targets the endpoint's driver takes
  HandEdits,        \* the keys people change in config.ini
  MaxActs           \* edits, commands and lost connections in one behaviour

ASSUME SettingsAssumption ==
  /\ Default \in Targets /\ Supported \subseteq Targets
  /\ {Bad, NoTarget, NoFile, Nothing} \cap Targets = {} /\ Nothing \notin Nat \cup {NoTarget}
  /\ HandEdits \subseteq {"std", "target", "disable", "missing"}
  /\ MaxActs \in Nat

VARIABLES
  file,      \* config.ini
  cfg,       \* the configuration the engine has
  control,   \* who holds controlLock_
  job,       \* a CONFIGURE between setConfig and its pass
  device,    \* "on", or "off": disabled by Audioslave
  paused,    \* monitoring is paused
  pass,      \* the configuration a pass of the worker has read
  pendingFor,\* the target for which the published pendingDisable was judged
  events,    \* which of the events, by sequence number, are interactive
  held,      \* the status a thread of the host is building or sending
  connected, calls, \* the tray's connection and its requests on their way
  view,      \* SettingsView
  dialogs,   \* the modal dialogs, the top one last
  prompt, promptShown, \* the settings the prompt asks for; asked this session
  base, lastSeq, told, \* the first and the last event seen, those announced
  cli,       \* the settings a command line is about to send
  agreed,    \* targets for which somebody agreed to disable devices
  acts

host == <<file, cfg, control, job, device, paused, pass, pendingFor, events>>
channel == <<held, connected, calls>>
announced == <<base, lastSeq, told>>
asked == <<dialogs, prompt, promptShown>>
vars == <<host, channel, view, asked, announced, cli, agreed, acts>>

Config == [std : BOOLEAN, target : Targets, disable : BOOLEAN, confirmedFor : Targets \cup {NoTarget}]
ASSUME NothingAssumption == Nothing \notin Config
AudioSettings == [std : BOOLEAN, target : Targets, disable : BOOLEAN, confirm : BOOLEAN]
Threads == {"worker", "other", "tray"}

DefaultConfig == [std |-> FALSE, target |-> Default, disable |-> FALSE, confirmedFor |-> NoTarget]
DefaultSettings == [std |-> FALSE, target |-> Default, disable |-> FALSE, confirm |-> FALSE]
Free == [step |-> "free"]

-----------------------------------------------------------------------------
(* Configuration: what is read from the file, and what it says.            *)

(* Mutant of Load.                                                         *)
LoadKeepsBad(text) == IF text = NoFile THEN DefaultConfig ELSE text

(* loadConfiguration and parseConfiguration: a value that does not parse   *)
(* leaves the default, a missing file all of them.                         *)
Load(text) ==
  IF text = NoFile THEN DefaultConfig
  ELSE IF text.target = Bad THEN [text EXCEPT !.target = Default] ELSE text

(* Mutant of PolicyConfirmed.                                              *)
PolicyConfirmedOnce(c) == c.std /\ c.disable /\ c.confirmedFor # NoTarget

PolicyConfirmed(c) == c.std /\ c.disable /\ c.confirmedFor = c.target

WithSettings(c, s) ==
  [std |-> s.std, target |-> s.target, disable |-> s.disable,
   confirmedFor |-> IF ~s.disable THEN NoTarget ELSE IF s.confirm THEN s.target ELSE c.confirmedFor]

-----------------------------------------------------------------------------
(* Protocol: JSON objects, as functions from property names.               *)

Property(var, name, default) == IF name \in DOMAIN var THEN var[name] ELSE default

SettingsToVar(s) ==
  [formatStandardization |-> s.std, target |-> s.target,
   disableIncompatibleDevices |-> s.disable, confirmDisable |-> s.confirm]

SettingsFromVar(var) ==
  [std |-> Property(var, "formatStandardization", FALSE),
   target |-> Property(var, "target", Default),
   disable |-> Property(var, "disableIncompatibleDevices", FALSE),
   confirm |-> Property(var, "confirmDisable", FALSE)]

StatusToVar(s) ==
  [formatStandardization |-> s.std, target |-> s.target, disableIncompatibleDevices |-> s.disable,
   disablePolicyConfirmed |-> s.confirmed, pendingDisable |-> s.pendingFor, events |-> s.events]

StatusFromVar(var) ==
  [std |-> Property(var, "formatStandardization", FALSE),
   target |-> Property(var, "target", Default),
   disable |-> Property(var, "disableIncompatibleDevices", FALSE),
   confirmed |-> Property(var, "disablePolicyConfirmed", FALSE),
   pendingFor |-> Property(var, "pendingDisable", NoTarget),
   events |-> Property(var, "events", <<>>)]

-----------------------------------------------------------------------------
(* The engine: passes, and the analysis of settings before they are made.  *)

Fits(target) == target \in Supported

(* What a pass under configuration c does with the endpoint.               *)
Outcome(c) ==
  CASE device = "on" /\ c.std /\ c.disable /\ ~Fits(c.target) ->
         IF PolicyConfirmed(c) THEN "disabled" ELSE "pending"
    [] device = "off" /\ ~(PolicyConfirmed(c) /\ ~Fits(c.target)) -> "reenabled"
    [] OTHER -> "none"

Scan(c, interactive) ==
  LET outcome == Outcome(c) IN
    /\ device' = [disabled |-> "off", reenabled |-> "on", pending |-> device, none |-> device][outcome]
    /\ pendingFor' = IF outcome = "pending" THEN c.target ELSE NoTarget
    /\ events' = IF outcome \in {"disabled", "reenabled"} THEN Append(events, interactive) ELSE events

ScanUnlessPaused(c, interactive) ==
  IF paused THEN UNCHANGED <<device, pendingFor, events>> ELSE Scan(c, interactive)

Analyze(s) ==
  LET ours == device = "off"
      fits == Fits(s.target)
      action == CASE ~s.std -> IF ours THEN "reenable" ELSE "none"
                  [] s.std /\ ours -> IF ~fits /\ s.disable THEN "keepDisabled" ELSE "reenable"
                  [] s.std /\ ~ours /\ fits -> "apply"
                  [] OTHER -> IF s.disable THEN "disable" ELSE "ignore"
  IN [action |-> action, fits |-> fits]

-----------------------------------------------------------------------------
(* SettingsView and SettingsReport.                                        *)

NewView ==
  [connected |-> FALSE, saved |-> Nothing, savedConfirmed |-> FALSE, chosen |-> DefaultSettings,
   dirty |-> FALSE, phase |-> "idle", captured |-> DefaultSettings]

Busy(v) == v.phase # "idle"
Editable == view.connected /\ ~Busy(view) /\ dialogs = <<>>

SettingsOf(s) == [std |-> s.std, target |-> s.target, disable |-> s.disable, confirm |-> FALSE]

(* Mutant of Update.                                                       *)
UpdateUnlessDirty(v, s) ==
  IF v.dirty THEN [v EXCEPT !.connected = TRUE]
  ELSE [v EXCEPT !.connected = TRUE, !.saved = SettingsOf(s), !.savedConfirmed = s.confirmed,
                 !.chosen = IF Busy(v) THEN @ ELSE SettingsOf(s)]

Update(v, s) ==
  LET now == SettingsOf(s)
      shown == IF ~v.dirty /\ ~Busy(v) THEN now ELSE v.chosen
  IN [v EXCEPT !.connected = TRUE, !.saved = now, !.savedConfirmed = s.confirmed,
               !.chosen = shown, !.dirty = shown # now]

(* buildPreview, of the one endpoint.                                      *)
Disables(s, report) == s.std /\ s.disable /\ ~report.fits /\ report.action \in {"disable", "keepDisabled"}
NeedsConfirmation(s, report) == report.action = "reenable" \/ (s.std /\ ~report.fits)

PolicyIsNew(v, s) ==
  LET sameTarget == v.saved # Nothing /\ v.saved.std /\ v.saved.target = s.target IN
    s.std /\ s.disable /\ ~(sameTarget /\ v.saved.disable /\ v.savedConfirmed)

-----------------------------------------------------------------------------
(* What reaches the tray's message thread.                                 *)

Reply(from, ok, report) == [from |-> from, ok |-> ok, report |-> report]
Event == Reply("none", TRUE, Nothing)
Request(cmd, from, s) == [cmd |-> cmd, from |-> from, args |-> SettingsToVar(s)]
Confirmed(s) == [s EXCEPT !.confirm = s.disable]

NewEvents(s) == {n \in DOMAIN s.events : lastSeq # Nothing /\ n > lastSeq /\ ~s.events[n]}

Rising(q) == \A i, j \in DOMAIN q : i < j => q[i] < q[j]
Members(q) == {q[i] : i \in DOMAIN q}
InOrder(S) == CHOOSE q \in [1..Cardinality(S) -> S] : Rising(q) /\ Members(q) = S

(* Mutant of NotifyDeviceEvents.                                           *)
NotifyWithoutMax(s) ==
  /\ told' = told \o InOrder(NewEvents(s))
  /\ lastSeq' = Len(s.events)
  /\ base' = IF base = Nothing THEN Len(s.events) ELSE base

(* notifyDeviceEvents: the first status only says where to begin.          *)
NotifyDeviceEvents(s) ==
  /\ told' = told \o InOrder(NewEvents(s))
  /\ lastSeq' = IF lastSeq = Nothing \/ Len(s.events) > lastSeq THEN Len(s.events) ELSE lastSeq
  /\ base' = IF base = Nothing THEN Len(s.events) ELSE base

(* promptPendingDisable: asked once per session, for what the status says. *)
Prompts(s) == ~promptShown /\ s.pendingFor # NoTarget /\ s.disable /\ ~s.confirmed

(* The rest of a reply, in view v: preview after an analysis, and the end  *)
(* of a configure.  asks is the dialog it opens, sends what it requests.   *)
Continue(v, reply, status) ==
  LET s == v.captured
      idle == [v EXCEPT !.phase = "idle"]
      is(phase) == reply.from = "window" /\ v.phase = phase
      asks == NeedsConfirmation(s, reply.report) \/ PolicyIsNew(v, s)
      nothing == [view |-> v, asks |-> <<>>, sends |-> <<>>]
  IN CASE (is("analyzing") \/ is("configuring")) /\ ~reply.ok -> [nothing EXCEPT !.view = idle]
       [] is("analyzing") /\ reply.ok /\ asks ->
            [nothing EXCEPT !.view.phase = "asking",
               !.asks = <<[of |-> "window", consent |-> Disables(s, reply.report) \/ PolicyIsNew(v, s)]>>]
       [] is("analyzing") /\ reply.ok /\ ~asks ->
            [nothing EXCEPT !.view.phase = "configuring", !.sends = <<Request("configure", "window", Confirmed(s))>>]
       [] is("configuring") /\ reply.ok -> [nothing EXCEPT !.view = Update([idle EXCEPT !.dirty = FALSE], status)]
       [] OTHER -> nothing

StatusReceived(reply, s) ==
  LET next == Continue(Update(view, s), reply, s) IN
    /\ view' = next.view
    /\ NotifyDeviceEvents(s)
    /\ promptShown' = (promptShown \/ Prompts(s))
    /\ prompt' = IF Prompts(s) THEN [SettingsOf(s) EXCEPT !.disable = TRUE] ELSE prompt
    /\ dialogs' = dialogs \o (IF Prompts(s) THEN <<[of |-> "prompt", consent |-> TRUE]>> ELSE <<>>) \o next.asks
    /\ calls' = calls \o next.sends

-----------------------------------------------------------------------------
Init ==
  /\ file = DefaultConfig /\ cfg = DefaultConfig
  /\ control = "free" /\ job = Nothing
  /\ device = "on" /\ paused = FALSE /\ pass = Nothing /\ pendingFor = NoTarget /\ events = <<>>
  /\ held = [t \in Threads |-> Free]
  /\ connected = FALSE /\ calls = <<>>
  /\ view = NewView
  /\ dialogs = <<>> /\ prompt = Nothing /\ promptShown = FALSE
  /\ base = Nothing /\ lastSeq = Nothing /\ told = <<>>
  /\ cli = Nothing /\ agreed = {} /\ acts = 0

Acts == acts < MaxActs /\ acts' = acts + 1
Tray == <<view, asked, announced>>

-----------------------------------------------------------------------------
(* The host.                                                               *)

(* run: while monitoring is paused the worker neither passes nor publishes. *)
PassBegins ==
  /\ pass = Nothing /\ held["worker"] = Free /\ ~paused
  /\ pass' = cfg
  /\ UNCHANGED <<file, cfg, control, job, device, paused, pendingFor, events, channel, Tray, cli, agreed, acts>>

(* A pass that was paused before it acts leaves all as it is.              *)
PassEnds ==
  /\ pass # Nothing
  /\ ScanUnlessPaused(pass, FALSE)
  /\ pass' = Nothing
  /\ held' = [held EXCEPT !["worker"] = [step |-> "due", reply |-> Event]]
  /\ UNCHANGED <<file, cfg, control, job, paused, connected, calls, Tray, cli, agreed, acts>>

(* snapshot: the configuration first, then the engine's status.            *)
ReadsConfig(t) ==
  /\ held[t].step = "due"
  /\ held' = [held EXCEPT ![t] = [step |-> "half", reply |-> @.reply, cfg |-> cfg]]
  /\ UNCHANGED <<host, connected, calls, Tray, cli, agreed, acts>>

ReadsStatus(t) ==
  /\ held[t].step = "half"
  /\ LET c == held[t].cfg
         status == [std |-> c.std, target |-> c.target, disable |-> c.disable,
                    confirmed |-> PolicyConfirmed(c), pendingFor |-> pendingFor, events |-> events]
     IN held' = [held EXCEPT ![t] = [step |-> "full", reply |-> @.reply, status |-> StatusToVar(status)]]
  /\ UNCHANGED <<host, connected, calls, Tray, cli, agreed, acts>>

(* broadcast, or the reply: the tray's message thread handles it at once.  *)
Sends(t) ==
  /\ held[t].step = "full"
  /\ held' = [held EXCEPT ![t] = Free]
  /\ control' = IF t = "other" THEN "free" ELSE control
  /\ IF connected THEN StatusReceived(held[t].reply, StatusFromVar(held[t].status)) ELSE UNCHANGED <<Tray, calls>>
  /\ UNCHANGED <<file, cfg, job, device, paused, pass, pendingFor, events, connected, cli, agreed, acts>>

Answers(reply) == held' = [held EXCEPT !["tray"] = [step |-> "due", reply |-> reply]]

(* handleRequest and apply, of a request of the tray.                      *)
Serves(cmd) == calls # <<>> /\ held["tray"] = Free /\ job = Nothing /\ Head(calls).cmd = cmd

ServeStatus ==
  /\ Serves("status") /\ control = "free"
  /\ Answers(Reply("none", TRUE, Nothing))
  /\ calls' = Tail(calls)
  /\ UNCHANGED <<host, connected, Tray, cli, agreed, acts>>

ServeAnalyze ==
  /\ Serves("analyze") /\ control = "free"
  /\ Answers(Reply("window", TRUE, Analyze(SettingsFromVar(Head(calls).args))))
  /\ calls' = Tail(calls)
  /\ UNCHANGED <<host, connected, Tray, cli, agreed, acts>>

(* configure: start from the file, save, and only then use it.             *)
Saves(s) == LET c == WithSettings(Load(file), s) IN file' = c /\ cfg' = c

ServeConfigure ==
  /\ Serves("configure") /\ control = "free"
  /\ \/ /\ Saves(SettingsFromVar(Head(calls).args))
        /\ control' = "tray"
        /\ job' = Head(calls).from
        /\ UNCHANGED held
     \/ /\ Answers(Reply(Head(calls).from, FALSE, Nothing))
        /\ UNCHANGED <<file, cfg, control, job>>
  /\ calls' = Tail(calls)
  /\ UNCHANGED <<device, paused, pass, pendingFor, events, connected, Tray, cli, agreed, acts>>

(* Its pass, which waits for one that runs and does nothing while          *)
(* monitoring is paused.  The status it publishes says nothing that the    *)
(* reply does not.                                                         *)
ConfigurePass ==
  /\ job # Nothing /\ (pass = Nothing \/ paused)
  /\ ScanUnlessPaused(cfg, TRUE)
  /\ job' = Nothing
  /\ IF job = "cli"
       THEN held' = [held EXCEPT !["other"] = [step |-> "due", reply |-> Event]] /\ UNCHANGED control
       ELSE /\ control' = "free"
            /\ IF job = "gone" THEN UNCHANGED held ELSE Answers(Reply(job, TRUE, Nothing))
  /\ UNCHANGED <<file, cfg, paused, pass, connected, calls, Tray, cli, agreed, acts>>

Publishes == control' = "other" /\ held' = [held EXCEPT !["other"] = [step |-> "due", reply |-> Event]]

Pause ==
  /\ Acts
  /\ control = "free" /\ ~paused
  /\ paused' = TRUE
  /\ Publishes
  /\ UNCHANGED <<file, cfg, job, device, pass, pendingFor, events, connected, calls, Tray, cli, agreed>>

(* reloadConfiguration, by a resume or the SCM's paramchange.  Where it    *)
(* changes nothing it would only publish a status, and a resume publishes  *)
(* two that follow each other with the same settings.                      *)
Reload ==
  /\ control = "free"
  /\ paused' \in {paused, FALSE}
  /\ paused' # paused \/ Load(file) # cfg
  /\ cfg' = Load(file)
  /\ Publishes
  /\ UNCHANGED <<file, job, device, pass, pendingFor, events, connected, calls, Tray, cli, agreed, acts>>

-----------------------------------------------------------------------------
(* People with an editor or a console.                                     *)

Edits(text) ==
  {[text EXCEPT !.std = ~@] : k \in HandEdits \cap {"std"}}
  \cup {[text EXCEPT !.disable = ~@] : k \in HandEdits \cap {"disable"}}
  \cup {[text EXCEPT !.target = t] : t \in IF "target" \in HandEdits THEN Targets \cup {Bad} ELSE {}}
  \cup {NoFile : k \in HandEdits \cap {"missing"}}

HandEdit ==
  /\ Acts
  /\ file' \in Edits(IF file = NoFile THEN DefaultConfig ELSE file) \ {file}
  /\ UNCHANGED <<cfg, control, job, device, paused, pass, pendingFor, events, channel, Tray, cli, agreed>>

(* settingsFromArguments: the service's settings with one option changed;  *)
(* a rate or a depth turns the standardization on.                         *)
CliReads ==
  /\ Acts
  /\ cli = Nothing
  /\ \/ cli' = [SettingsOf(cfg) EXCEPT !.std = ~@]
     \/ cli' = [SettingsOf(cfg) EXCEPT !.disable = ~@]
     \/ \E t \in Targets : cli' = [SettingsOf(cfg) EXCEPT !.target = t, !.std = TRUE]
  /\ UNCHANGED <<host, channel, Tray, agreed>>

(* commandConfigure: with the option on, only with --yes.                  *)
CliConfigures ==
  /\ cli # Nothing /\ control = "free"
  /\ Saves(SettingsFromVar(SettingsToVar(Confirmed(cli))))
  /\ control' = "other" /\ job' = "cli"
  /\ agreed' = IF cli.disable THEN agreed \cup {cli.target} ELSE agreed
  /\ cli' = Nothing
  /\ UNCHANGED <<device, paused, pass, pendingFor, events, channel, Tray, acts>>

-----------------------------------------------------------------------------
(* The tray and its user.                                                  *)

Connects ==
  /\ ~connected
  /\ connected' = TRUE
  /\ calls' = <<Request("status", "none", DefaultSettings)>>
  /\ UNCHANGED <<host, held, Tray, cli, agreed, acts>>

(* The requests that were waiting fail, and there is no status to show.    *)
LinkLost ==
  /\ Acts
  /\ connected
  /\ connected' = FALSE
  /\ calls' = <<>>
  /\ held' = [held EXCEPT !["tray"] = Free]
  /\ job' = IF job \in {"window", "prompt"} THEN "gone" ELSE job
  /\ view' = [view EXCEPT !.connected = FALSE, !.phase = IF @ = "asking" THEN @ ELSE "idle"]
  /\ UNCHANGED <<file, cfg, control, device, paused, pass, pendingFor, events, asked, announced, cli, agreed>>

(* Any choice is a few clicks away: the rate, the depth and the option can *)
(* be changed while the standardization is on.                             *)
Edit ==
  /\ Acts
  /\ Editable
  /\ \E s \in {c \in AudioSettings : ~c.confirm /\ c # view.chosen} :
       view' = [view EXCEPT !.chosen = s, !.dirty = view.saved # Nothing /\ s # view.saved]
  /\ UNCHANGED <<host, channel, asked, announced, cli, agreed>>

Revert ==
  /\ Editable /\ view.dirty
  /\ view' = [view EXCEPT !.chosen = view.saved, !.dirty = FALSE]
  /\ UNCHANGED <<host, channel, asked, announced, cli, agreed, acts>>

Apply ==
  /\ Editable /\ view.dirty /\ connected
  /\ view' = [view EXCEPT !.phase = "analyzing", !.captured = view.chosen]
  /\ calls' = Append(calls, Request("analyze", "window", view.chosen))
  /\ UNCHANGED <<host, held, connected, asked, announced, cli, agreed, acts>>

(* The button of the top dialog.  The user sees the target it names; both  *)
(* dialogs send the settings they were opened with.                        *)
Answer(yes) ==
  /\ dialogs # <<>>
  /\ LET top == Last(dialogs)
         s == IF top.of = "window" THEN Confirmed(view.captured) ELSE [prompt EXCEPT !.disable = yes, !.confirm = yes]
         sent == yes \/ top.of = "prompt"
     IN /\ calls' = IF sent /\ connected THEN Append(calls, Request("configure", top.of, s)) ELSE calls
        /\ agreed' = IF yes /\ top.consent THEN agreed \cup {s.target} ELSE agreed
        /\ view' = IF top.of = "window" THEN [view EXCEPT !.phase = IF sent /\ connected THEN "configuring" ELSE "idle"] ELSE view
  /\ dialogs' = Front(dialogs)
  /\ UNCHANGED <<host, held, connected, prompt, promptShown, announced, cli, acts>>

Host ==
  \/ PassBegins \/ PassEnds \/ ServeStatus \/ ServeAnalyze \/ ServeConfigure \/ ConfigurePass
  \/ \E t \in Threads : ReadsConfig(t) \/ ReadsStatus(t) \/ Sends(t)

People ==
  \/ HandEdit \/ Pause \/ Reload \/ CliReads \/ CliConfigures \/ LinkLost
  \/ Edit \/ Revert \/ Apply \/ \E yes \in BOOLEAN : Answer(yes)

Next == Host \/ People \/ Connects

Spec == Init /\ [][Next]_vars

(* The host's threads do what they have to, the worker passes again after  *)
(* CheckIntervalSeconds unless monitoring is paused, which nobody has to   *)
(* end, and the tray's timer reconnects.                                   *)
Fairness ==
  /\ WF_vars(PassBegins) /\ WF_vars(PassEnds) /\ WF_vars(Connects)
  /\ \A t \in Threads : WF_vars(ReadsConfig(t) \/ ReadsStatus(t) \/ Sends(t))

FairSpec == Spec /\ Fairness

-----------------------------------------------------------------------------
Text == [std : BOOLEAN, target : Targets \cup {Bad}, disable : BOOLEAN, confirmedFor : Targets \cup {NoTarget}]
SettingsVar ==
  [formatStandardization : BOOLEAN, target : Targets, disableIncompatibleDevices : BOOLEAN, confirmDisable : BOOLEAN]
StatusVar ==
  [formatStandardization : BOOLEAN, target : Targets, disableIncompatibleDevices : BOOLEAN,
   disablePolicyConfirmed : BOOLEAN, pendingDisable : Targets \cup {NoTarget}, events : Seq(BOOLEAN)]
View ==
  {v \in [connected : BOOLEAN, saved : AudioSettings \cup {Nothing}, savedConfirmed : BOOLEAN, chosen : AudioSettings,
          dirty : BOOLEAN, phase : {"idle", "analyzing", "asking", "configuring"}, captured : AudioSettings] :
     v.dirty => v.saved \in AudioSettings}
Callers == {"none", "window", "prompt"}
Requests ==
  {r \in [cmd : {"status", "analyze", "configure"}, from : Callers, args : SettingsVar] :
     r.cmd = "configure" => r.from # "none"}

TypeOK ==
  /\ file \in Text \cup {NoFile} /\ cfg \in Config /\ pass \in Config \cup {Nothing}
  /\ control \in {"free", "tray", "other"}
  /\ job \in {Nothing, "window", "prompt", "gone", "cli"}
  /\ device \in {"on", "off"} /\ paused \in BOOLEAN
  /\ pendingFor \in Targets \cup {NoTarget}
  /\ events \in Seq(BOOLEAN)
  /\ DOMAIN held = Threads
  /\ \A t \in Threads :
       /\ held[t].step \in {"free", "due", "half", "full"}
       /\ held[t].step = "half" => held[t].cfg \in Config
       /\ held[t].step = "full" => held[t].status \in StatusVar
  /\ connected \in BOOLEAN /\ promptShown \in BOOLEAN
  /\ calls \in Seq(Requests)
  /\ view \in View
  /\ dialogs \in Seq([of : {"window", "prompt"}, consent : BOOLEAN])
  /\ prompt \in AudioSettings \cup {Nothing} /\ cli \in AudioSettings \cup {Nothing}
  /\ base \in Nat \cup {Nothing} /\ lastSeq \in Nat \cup {Nothing} /\ told \in Seq(Nat)
  /\ agreed \subseteq Targets
  /\ acts \in 0..MaxActs

(* The policy acts on no target but one that somebody agreed to, whatever  *)
(* was edited, replied or shown late in between (preview, withSettings,    *)
(* disablePolicyConfirmed).                                                *)
PolicyWasAgreedTo == PolicyConfirmed(cfg) => cfg.target \in agreed

(* Its inductive invariant.  With the standardization on, settings on       *)
(* their way to the service disable devices only for a target that was     *)
(* agreed to, a configuration is confirmed only for such a target, and so  *)
(* is whatever the page believes, or a dialog without a question, about it. *)
Agreed(s) == (s.std /\ s.disable) => s.target \in agreed
Backed(c) == c.std => c.confirmedFor \in agreed \cup {NoTarget}
Sound(request) ==
  request.cmd = "configure" =>
    LET s == SettingsFromVar(request.args) IN s.confirm = s.disable /\ Agreed(s)
Asks(dialog) ==
  IF dialog.of = "window" THEN dialog.consent \/ Agreed(view.captured) ELSE dialog.consent /\ prompt \in AudioSettings

ConsentInv ==
  /\ Backed(cfg) /\ (file # NoFile => Backed(file))
  /\ \A t \in Threads :
       /\ held[t].step = "half" => Backed(held[t].cfg)
       /\ held[t].step = "full" =>
            LET s == StatusFromVar(held[t].status) IN s.confirmed => Agreed(s)
  /\ calls \in Seq({r \in Requests : Sound(r)})
  /\ (view.saved # Nothing /\ view.savedConfirmed) => Agreed(view.saved)
  /\ dialogs \in Seq({d \in [of : {"window", "prompt"}, consent : BOOLEAN] : Asks(d)})

(* Of the events after the first status, each one that the user did not    *)
(* just cause is announced exactly once, in order, though statuses reach   *)
(* the tray in any order (notifyDeviceEvents).                             *)
ToldExactlyOnce ==
  base # Nothing => Rising(told) /\ Members(told) = {n \in base + 1 .. lastSeq : ~events[n]}

(* Its inductive invariant.  The events only grow, so a status on its way  *)
(* carries the first of them, fewer perhaps than one that overtook it, and *)
(* those announced are all that are not later than lastEventSequence_.     *)
Begins(e, f) == e \in Seq(BOOLEAN) /\ Len(e) <= Len(f) /\ \A n \in 1..Len(e) : e[n] = f[n]
ToldInv ==
  /\ events \in Seq(BOOLEAN)
  /\ DOMAIN held = Threads
  /\ \A t \in Threads : held[t].step = "full" => Begins(StatusFromVar(held[t].status).events, events)
  /\ \/ base = Nothing /\ lastSeq = Nothing /\ told = <<>>
     \/ base \in Nat /\ lastSeq \in base..Len(events) /\ told \in Seq(Nat)
  /\ ToldExactlyOnce

(* The service and everybody who talks to it keep the promise of Consent:  *)
(* a pass disables the device only under a policy agreed to for the target *)
(* it read, though the settings may change again before it acts.           *)
PolicyOf(c) == IF PolicyConfirmed(c) THEN c.target ELSE NoTarget
Promise ==
  INSTANCE Consent
    WITH policy <- PolicyOf(cfg), judged <- IF pass = Nothing THEN Nothing ELSE PolicyOf(pass), Idle <- Nothing
ImplementsConsent == Promise!ConsentSpec

(* Unless monitoring is paused for good, the settings page in the end      *)
(* knows the settings in force, with and without changes of its own that   *)
(* are not applied (SettingsView::update).  While it is paused nothing     *)
(* corrects a reply that was overtaken (run, handleRequest).               *)
PageKnowsSettings ==
  <>[]~paused => <>[](view.saved = SettingsOf(cfg) /\ view.savedConfirmed = PolicyConfirmed(cfg))

=============================================================================
