---------------------------- MODULE SettingsProofs ----------------------------
(***************************************************************************)
(* Proofs about Settings for every set of formats, every driver and any    *)
(* number of edits, commands and lost connections: while nobody switches   *)
(* the standardization on by hand, the policy only acts on targets that    *)
(* somebody agreed to.                                                     *)
(***************************************************************************)
EXTENDS Settings, SequenceTheorems, FiniteSetTheorems, WellFoundedInduction, TLAPS

Status ==
  [std : BOOLEAN, target : Targets, disable : BOOLEAN, confirmed : BOOLEAN,
   pendingFor : Targets \cup {NoTarget}, events : Seq(BOOLEAN)]

(* A request's settings arrive as they were sent (toVar, fromVar).         *)
LEMMA SettingsArrive ==
  /\ \A s \in AudioSettings : SettingsToVar(s) \in SettingsVar /\ SettingsFromVar(SettingsToVar(s)) = s
  /\ \A v \in SettingsVar : SettingsFromVar(v) \in AudioSettings
<1>1. ASSUME NEW s \in AudioSettings
      PROVE  SettingsToVar(s) \in SettingsVar /\ SettingsFromVar(SettingsToVar(s)) = s
  <2>1. DOMAIN SettingsToVar(s) =
          {"formatStandardization", "target", "disableIncompatibleDevices", "confirmDisable"}
    BY DEF SettingsToVar
  <2>2. SettingsFromVar(SettingsToVar(s)) =
          [std |-> s.std, target |-> s.target, disable |-> s.disable, confirm |-> s.confirm]
    BY <2>1 DEF SettingsFromVar, SettingsToVar, Property
  <2>. QED
    BY <2>2 DEF AudioSettings, SettingsVar, SettingsToVar
<1>2. ASSUME NEW v \in SettingsVar
      PROVE  SettingsFromVar(v) \in AudioSettings
  <2>1. DOMAIN v = {"formatStandardization", "target", "disableIncompatibleDevices", "confirmDisable"}
    BY DEF SettingsVar
  <2>. QED
    BY <2>1 DEF SettingsFromVar, SettingsVar, Property, AudioSettings
<1>. QED
  BY <1>1, <1>2

(* So does a status.                                                       *)
LEMMA StatusArrives ==
  /\ \A s \in Status : StatusToVar(s) \in StatusVar /\ StatusFromVar(StatusToVar(s)) = s
  /\ \A v \in StatusVar : StatusFromVar(v) \in Status
<1>. DEFINE names == {"formatStandardization", "target", "disableIncompatibleDevices", "disablePolicyConfirmed",
                      "pendingDisable", "events"}
<1>1. ASSUME NEW s \in Status
      PROVE  StatusToVar(s) \in StatusVar /\ StatusFromVar(StatusToVar(s)) = s
  <2>1. DOMAIN StatusToVar(s) = names
    BY DEF StatusToVar
  <2>2. StatusFromVar(StatusToVar(s)) =
          [std |-> s.std, target |-> s.target, disable |-> s.disable, confirmed |-> s.confirmed,
           pendingFor |-> s.pendingFor, events |-> s.events]
    BY <2>1 DEF StatusFromVar, StatusToVar, Property
  <2>. QED
    BY <2>2 DEF Status, StatusVar, StatusToVar
<1>2. ASSUME NEW v \in StatusVar
      PROVE  StatusFromVar(v) \in Status
  <2>1. DOMAIN v = names
    BY DEF StatusVar
  <2>. QED
    BY <2>1 DEF StatusFromVar, StatusVar, Property, Status
<1>. QED
  BY <1>1, <1>2

(* A file is read as a configuration (parseConfiguration).                 *)
LEMMA LoadType ==
  ASSUME NEW text \in Text \cup {NoFile}
  PROVE  /\ Load(text) \in Config
         /\ text = NoFile => Load(text) = DefaultConfig
         /\ text # NoFile => Load(text).std = text.std /\ Load(text).confirmedFor = text.confirmedFor
BY SettingsAssumption DEF Load, Text, Config, DefaultConfig

LEMMA WithSettingsType ==
  ASSUME NEW c \in Config, NEW s \in AudioSettings
  PROVE  WithSettings(c, s) \in Config /\ WithSettings(c, s) \in Text
BY DEF WithSettings, Config, AudioSettings, Text

(* Sound settings are saved as a configuration that was agreed to          *)
(* (withSettings).                                                         *)
LEMMA WithSettingsBacked ==
  ASSUME NEW c \in Config, NEW s \in AudioSettings, s.confirm = s.disable, Agreed(s)
  PROVE  Backed(WithSettings(c, s))
BY DEF WithSettings, Backed, Agreed, AudioSettings

(* A confirmed policy of such a configuration is for a target agreed to.   *)
LEMMA BackedIsAgreed ==
  ASSUME NEW c \in Config, Backed(c), PolicyConfirmed(c)
  PROVE  c.target \in agreed
BY SettingsAssumption DEF Backed, PolicyConfirmed, Config

(* The page after a status (SettingsView::update).                         *)
LEMMA UpdateView ==
  ASSUME NEW v \in View, NEW s \in Status
  PROVE  /\ Update(v, s) \in View
         /\ Update(v, s).saved = SettingsOf(s) /\ Update(v, s).savedConfirmed = s.confirmed
         /\ Update(v, s).captured = v.captured
<1>1. SettingsOf(s) \in AudioSettings
  BY DEF SettingsOf, Status, AudioSettings
<1>2. (IF ~v.dirty /\ ~Busy(v) THEN SettingsOf(s) ELSE v.chosen) \in AudioSettings
  BY <1>1 DEF View
<1>. QED
  BY <1>1, <1>2 DEF Update, View, Status

(* A policy that is not new to the page was agreed to (preview).           *)
LEMMA OldPolicyIsAgreed ==
  ASSUME NEW v \in View, NEW s \in AudioSettings, ~PolicyIsNew(v, s),
         (v.saved # Nothing /\ v.savedConfirmed) => Agreed(v.saved)
  PROVE  Agreed(s)
BY DEF PolicyIsNew, Agreed, View, AudioSettings

LEMMA ConfirmedType ==
  ASSUME NEW s \in AudioSettings
  PROVE  /\ Confirmed(s) \in AudioSettings /\ Confirmed(s).confirm = Confirmed(s).disable
         /\ Agreed(s) => Agreed(Confirmed(s))
         /\ Confirmed(s).target = s.target
BY DEF Confirmed, AudioSettings, Agreed

LEMMA RequestType ==
  ASSUME NEW cmd \in {"status", "analyze", "configure"}, NEW from \in Callers, NEW s \in AudioSettings,
         cmd = "configure" => from # "none"
  PROVE  /\ Request(cmd, from, s) \in Requests
         /\ (cmd # "configure" \/ (s.confirm = s.disable /\ Agreed(s))) => Sound(Request(cmd, from, s))
BY SettingsArrive DEF Request, Requests, Sound

(* What the rest of a reply does to the page, and that what it asks or     *)
(* sends without asking was agreed to (preview, configure).                *)
LEMMA ContinueView ==
  ASSUME NEW v \in View, NEW reply, NEW s \in Status,
         v.savedConfirmed => Agreed(v.saved), v.saved = SettingsOf(s), v.savedConfirmed = s.confirmed
  PROVE  LET next == Continue(v, reply, s) IN
         /\ next.view \in View /\ next.view.captured = v.captured
         /\ next.view.savedConfirmed => Agreed(next.view.saved)
         /\ \/ next.asks = <<>>
            \/ \E c \in BOOLEAN : /\ next.asks = <<[of |-> "window", consent |-> c]>>
                                  /\ c \/ Agreed(v.captured)
         /\ \/ next.sends = <<>>
            \/ /\ next.sends = <<Request("configure", "window", Confirmed(v.captured))>>
               /\ Agreed(v.captured)
<1>. DEFINE w == v.captured
            idle == [v EXCEPT !.phase = "idle"]
            is(phase) == reply.from = "window" /\ v.phase = phase
            asks == NeedsConfirmation(w, reply.report) \/ PolicyIsNew(v, w)
            consent == Disables(w, reply.report) \/ PolicyIsNew(v, w)
            nothing == [view |-> v, asks |-> <<>>, sends |-> <<>>]
            next == Continue(v, reply, s)
<1>0. w \in AudioSettings /\ idle \in View /\ v.saved \in AudioSettings
  BY DEF View, SettingsOf, Status, AudioSettings
<1>1. CASE (is("analyzing") \/ is("configuring")) /\ ~reply.ok
  <2>1. next = [nothing EXCEPT !.view = idle]
    BY <1>1 DEF Continue
  <2>. QED
    BY <2>1, <1>0 DEF View
<1>2. CASE is("analyzing") /\ reply.ok /\ asks
  <2>1. next = [nothing EXCEPT !.view.phase = "asking", !.asks = <<[of |-> "window", consent |-> consent]>>]
    BY <1>2 DEF Continue
  <2>2. next.view = [v EXCEPT !.phase = "asking"] /\ next.sends = <<>>
        /\ next.asks = <<[of |-> "window", consent |-> consent]>>
    BY <2>1
  <2>3. consent \in BOOLEAN
    BY DEF Disables, PolicyIsNew
  <2>4. consent \/ Agreed(w)
    BY <1>0, OldPolicyIsAgreed
  <2>. HIDE DEF consent, next, w
  <2>5. next.view \in View /\ next.view.captured = w /\ next.view.saved = v.saved
        /\ next.view.savedConfirmed = v.savedConfirmed
    BY <2>2 DEF View, w
  <2>. QED
    BY <2>2, <2>3, <2>4, <2>5 DEF w, next
<1>3. CASE is("analyzing") /\ reply.ok /\ ~asks
  <2>1. next = [nothing EXCEPT !.view.phase = "configuring", !.sends = <<Request("configure", "window", Confirmed(w))>>]
    BY <1>3 DEF Continue
  <2>2. next.view = [v EXCEPT !.phase = "configuring"] /\ next.asks = <<>>
        /\ next.sends = <<Request("configure", "window", Confirmed(w))>>
    BY <2>1
  <2>3. Agreed(w)
    BY <1>0, <1>3, OldPolicyIsAgreed
  <2>. HIDE DEF next
  <2>4. next.view \in View /\ next.view.captured = w /\ next.view.saved = v.saved
        /\ next.view.savedConfirmed = v.savedConfirmed
    BY <2>2 DEF View
  <2>. QED
    BY <2>2, <2>3, <2>4 DEF next
<1>4. CASE is("configuring") /\ reply.ok
  <2>. DEFINE u == Update([idle EXCEPT !.dirty = FALSE], s)
  <2>1. next = [nothing EXCEPT !.view = u]
    BY <1>4 DEF Continue
  <2>2. [idle EXCEPT !.dirty = FALSE] \in View /\ [idle EXCEPT !.dirty = FALSE].captured = w
    BY <1>0 DEF View
  <2>3. u \in View /\ u.saved = SettingsOf(s) /\ u.savedConfirmed = s.confirmed /\ u.captured = w
    BY <2>2, UpdateView
  <2>4. next.view = u /\ next.asks = <<>> /\ next.sends = <<>>
    BY <2>1
  <2>. QED
    BY <2>3, <2>4
<1>5. CASE ~((is("analyzing") \/ is("configuring")) /\ ~reply.ok) /\ ~(is("analyzing") /\ reply.ok /\ asks)
           /\ ~(is("analyzing") /\ reply.ok /\ ~asks) /\ ~(is("configuring") /\ reply.ok)
  <2>1. next = nothing
    BY <1>5 DEF Continue
  <2>. QED
    BY <2>1
<1>. QED
  BY <1>1, <1>2, <1>3, <1>4, <1>5

(* What a status and the reply it came with leave behind                   *)
(* (statusReceived, promptPendingDisable).                                 *)
LEMMA ReceivedStep ==
  ASSUME TypeOK, ConsentInv, NEW reply, NEW s \in Status, s.confirmed => Agreed(s),
         StatusReceived(reply, s), UNCHANGED agreed
  PROVE  /\ view' \in View /\ promptShown' \in BOOLEAN /\ prompt' \in AudioSettings \cup {Nothing}
         /\ view'.savedConfirmed => Agreed(view'.saved)
         /\ calls' \in Seq(Requests) /\ calls' \in Seq({r \in Requests : Sound(r)})
         /\ dialogs' \in Seq([of : {"window", "prompt"}, consent : BOOLEAN])
         /\ dialogs' \in Seq({d \in [of : {"window", "prompt"}, consent : BOOLEAN] : Asks(d)'})
<1>. DEFINE v == Update(view, s)
            next == Continue(v, reply, s)
            good == {r \in Requests : Sound(r)}
            all == [of : {"window", "prompt"}, consent : BOOLEAN]
            asked1 == {d \in all : Asks(d)'}
            ask == IF Prompts(s) THEN <<[of |-> "prompt", consent |-> TRUE]>> ELSE <<>>
<1>1. /\ v \in View /\ v.saved = SettingsOf(s) /\ v.savedConfirmed = s.confirmed /\ v.captured = view.captured
  BY UpdateView DEF TypeOK
<1>2. v.savedConfirmed => Agreed(v.saved)
  BY <1>1 DEF Agreed, SettingsOf
<1>3. /\ next.view \in View /\ next.view.captured = v.captured
      /\ next.view.savedConfirmed => Agreed(next.view.saved)
      /\ \/ next.asks = <<>>
         \/ \E c \in BOOLEAN : /\ next.asks = <<[of |-> "window", consent |-> c]>>
                               /\ c \/ Agreed(v.captured)
      /\ \/ next.sends = <<>>
         \/ /\ next.sends = <<Request("configure", "window", Confirmed(v.captured))>>
            /\ Agreed(v.captured)
  BY <1>1, <1>2, ContinueView
<1>4. /\ view' = next.view /\ calls' = calls \o next.sends
      /\ dialogs' = dialogs \o ask \o next.asks
      /\ promptShown' = (promptShown \/ Prompts(s))
      /\ prompt' = IF Prompts(s) THEN [SettingsOf(s) EXCEPT !.disable = TRUE] ELSE prompt
  BY DEF StatusReceived
<1>. HIDE DEF next, v
<1>5. prompt' \in AudioSettings \cup {Nothing} /\ (Prompts(s) => prompt' \in AudioSettings)
      /\ (prompt \in AudioSettings => prompt' \in AudioSettings)
  <2>1. SettingsOf(s) \in AudioSettings
    BY DEF SettingsOf, Status, AudioSettings
  <2>. QED
    BY <1>4, <2>1 DEF TypeOK, AudioSettings
<1>6. calls' \in Seq(good)
  <2>1. next.sends \in Seq(good)
    <3>1. CASE next.sends = <<>>
      BY <3>1
    <3>2. CASE next.sends = <<Request("configure", "window", Confirmed(v.captured))>> /\ Agreed(v.captured)
      <4>1. v.captured \in AudioSettings
        BY <1>1 DEF View
      <4>2. Request("configure", "window", Confirmed(v.captured)) \in good
        BY <3>2, <4>1, ConfirmedType, RequestType DEF Callers
      <4>. QED
        BY <3>2, <4>2
    <3>. QED
      BY <1>3, <3>1, <3>2
  <2>2. calls \in Seq(good)
    BY DEF ConsentInv
  <2>. HIDE DEF good
  <2>. QED
    BY <1>4, <2>1, <2>2, ConcatProperties
<1>7. calls' \in Seq(Requests)
  BY <1>6, SeqMonotonic
<1>8. dialogs' \in Seq(asked1)
  <2>1. dialogs \in Seq(asked1)
    <3>1. \A d \in all : Asks(d) => Asks(d)'
      BY <1>1, <1>3, <1>4, <1>5 DEF Asks, Agreed
    <3>2. {d \in all : Asks(d)} \subseteq asked1
      BY <3>1
    <3>. QED
      BY <3>2, SeqMonotonic DEF ConsentInv
  <2>2. ask \in Seq(asked1)
    <3>1. CASE Prompts(s)
      BY <3>1, <1>5 DEF Asks
    <3>2. CASE ~Prompts(s)
      BY <3>2
    <3>. QED
      BY <3>1, <3>2
  <2>3. next.asks \in Seq(asked1)
    <3>1. CASE next.asks = <<>>
      BY <3>1
    <3>2. ASSUME NEW c \in BOOLEAN, next.asks = <<[of |-> "window", consent |-> c]>>, c \/ Agreed(v.captured)
          PROVE  next.asks \in Seq(asked1)
      <4>1. [of |-> "window", consent |-> c] \in asked1
        BY <3>2, <1>1, <1>3, <1>4 DEF Asks, Agreed
      <4>. QED
        BY <3>2, <4>1
    <3>. QED
      BY <1>3, <3>1, <3>2
  <2>. HIDE DEF asked1, ask
  <2>4. dialogs \o ask \in Seq(asked1)
    BY <2>1, <2>2, ConcatProperties
  <2>. QED
    BY <1>4, <2>3, <2>4, ConcatProperties
<1>9. dialogs' \in Seq(all)
  <2>1. asked1 \subseteq all
    OBVIOUS
  <2>. HIDE DEF asked1, all
  <2>. QED
    BY <1>8, <2>1, SeqMonotonic
<1>10. promptShown' \in BOOLEAN
  BY <1>4 DEF TypeOK, Prompts
<1>. QED
  BY <1>3, <1>4, <1>5, <1>6, <1>7, <1>8, <1>9, <1>10

(* The parts of the invariant: the configurations, the statuses on their   *)
(* way, the requests on their way, the page, and the dialogs.              *)
HostTypes ==
  /\ file \in Text \cup {NoFile} /\ cfg \in Config /\ pass \in Config \cup {Nothing}
  /\ control \in {"free", "tray", "other"} /\ device \in {"on", "off"} /\ paused \in BOOLEAN
  /\ job \in {Nothing, "window", "prompt", "gone", "cli"}
  /\ pendingFor \in Targets \cup {NoTarget} /\ events \in Seq(BOOLEAN)
PeopleTypes ==
  /\ connected \in BOOLEAN /\ cli \in AudioSettings \cup {Nothing}
  /\ agreed \subseteq Targets /\ acts \in 0..MaxActs
ConfigsInv == Backed(cfg) /\ (file # NoFile => Backed(file))
HeldInv ==
  /\ DOMAIN held = Threads
  /\ \A t \in Threads :
       /\ held[t].step \in {"free", "due", "half", "full"}
       /\ held[t].step = "half" => held[t].cfg \in Config /\ Backed(held[t].cfg)
       /\ held[t].step = "full" =>
            /\ held[t].status \in StatusVar
            /\ LET s == StatusFromVar(held[t].status) IN s.confirmed => Agreed(s)
AnnouncedTypes == base \in Nat \cup {Nothing} /\ lastSeq \in Nat \cup {Nothing} /\ told \in Seq(Nat)
CallsInv == calls \in Seq({r \in Requests : Sound(r)})
ViewInv ==
  /\ view \in View
  /\ (view.saved # Nothing /\ view.savedConfirmed) => Agreed(view.saved)
AllDialogs == [of : {"window", "prompt"}, consent : BOOLEAN]
DialogsInv ==
  /\ dialogs \in Seq({d \in AllDialogs : Asks(d)})
  /\ promptShown \in BOOLEAN /\ prompt \in AudioSettings \cup {Nothing}

LEMMA Parts ==
  TypeOK /\ ConsentInv <=>
    HostTypes /\ PeopleTypes /\ ConfigsInv /\ HeldInv /\ AnnouncedTypes /\ CallsInv /\ ViewInv
    /\ DialogsInv
<1>1. CallsInv => calls \in Seq(Requests)
  BY SeqMonotonic DEF CallsInv
<1>2. DialogsInv => dialogs \in Seq(AllDialogs)
  BY SeqMonotonic DEF DialogsInv
<1>. QED
  BY <1>1, <1>2 DEF TypeOK, ConsentInv, HostTypes, PeopleTypes, ConfigsInv, HeldInv,
     AnnouncedTypes, CallsInv, ViewInv, DialogsInv, AllDialogs

LEMMA PartsNext ==
  ASSUME HostTypes', PeopleTypes', ConfigsInv', HeldInv', AnnouncedTypes', CallsInv', ViewInv', DialogsInv'
  PROVE  TypeOK' /\ ConsentInv'
BY Parts, PTL

(* What has been agreed to stays agreed to.                                *)
LEMMA AgreedStays ==
  ASSUME TypeOK, [Next]_vars
  PROVE  agreed \subseteq agreed'
BY DEF Next, Host, People, vars, PassBegins, PassEnds, ServeStatus, ServeAnalyze, ServeConfigure, ConfigurePass,
   ReadsConfig, ReadsStatus, Sends, HandEdit, Pause, Reload, CliReads, CliConfigures, LinkLost, Edit, Revert, Apply,
   Answer, Connects

LEMMA ConfigsFrame ==
  ASSUME ConfigsInv, agreed \subseteq agreed', UNCHANGED <<file, cfg>>
  PROVE  ConfigsInv'
BY DEF ConfigsInv, Backed

LEMMA HeldFrame ==
  ASSUME HeldInv, agreed \subseteq agreed', UNCHANGED held
  PROVE  HeldInv'
BY DEF HeldInv, Backed, Agreed

LEMMA CallsFrame ==
  ASSUME CallsInv, agreed \subseteq agreed'
  PROVE  calls \in Seq({r \in Requests : Sound(r)'})
<1>1. {r \in Requests : Sound(r)} \subseteq {r \in Requests : Sound(r)'}
  BY DEF Sound, Agreed
<1>. QED
  BY <1>1, SeqMonotonic DEF CallsInv

LEMMA ViewFrame ==
  ASSUME ViewInv, agreed \subseteq agreed', view' \in View,
         view'.saved = view.saved, view'.savedConfirmed = view.savedConfirmed
  PROVE  ViewInv'
BY DEF ViewInv, Agreed

LEMMA DialogsFrame ==
  ASSUME DialogsInv, agreed \subseteq agreed', view'.captured = view.captured, UNCHANGED <<prompt, promptShown>>
  PROVE  dialogs \in Seq({d \in AllDialogs : Asks(d)'})
<1>1. {d \in AllDialogs : Asks(d)} \subseteq {d \in AllDialogs : Asks(d)'}
  BY DEF Asks, Agreed
<1>. QED
  BY <1>1, SeqMonotonic DEF DialogsInv

(* The head and the rest of the requests.                                  *)
LEMMA FirstCall ==
  ASSUME CallsInv, calls # <<>>
  PROVE  /\ Head(calls) \in Requests /\ Sound(Head(calls))
         /\ SettingsFromVar(Head(calls).args) \in AudioSettings
         /\ Tail(calls) \in Seq({r \in Requests : Sound(r)})
<1>1. /\ Head(calls) \in {r \in Requests : Sound(r)} /\ Tail(calls) \in Seq({r \in Requests : Sound(r)})
  BY HeadTailProperties DEF CallsInv
<1>. QED
  BY <1>1, SettingsArrive DEF Requests

(* Saved settings that are sound make the configurations backed            *)
(* (withSettings).                                                         *)
LEMMA SavedIsBacked ==
  ASSUME file \in Text \cup {NoFile}, NEW s \in AudioSettings, s.confirm = s.disable,
         (s.std /\ s.disable) => s.target \in agreed',
         file' = WithSettings(Load(file), s), cfg' = file'
  PROVE  ConfigsInv'
<1>1. Load(file) \in Config
  BY LoadType
<1>2. file'.std => file'.confirmedFor \in agreed' \cup {NoTarget}
  BY <1>1 DEF WithSettings, AudioSettings, Config
<1>. QED
  BY <1>2 DEF ConfigsInv, Backed

(* The settings that the answer to the top dialog sends, and that with the *)
(* answer they are agreed to (preview, promptPendingDisable).              *)
LEMMA AnsweredType ==
  ASSUME TypeOK, DialogsInv, dialogs # <<>>, NEW yes \in BOOLEAN
  PROVE  LET top == Last(dialogs)
             s == IF top.of = "window" THEN Confirmed(view.captured)
                  ELSE [prompt EXCEPT !.disable = yes, !.confirm = yes]
         IN /\ top \in AllDialogs /\ s \in AudioSettings /\ s.confirm = s.disable
            /\ (yes /\ top.consent) \/ Agreed(s) \/ (top.of = "window" /\ ~yes)
<1>. DEFINE top == Last(dialogs)
<1>1. top \in {d \in AllDialogs : Asks(d)}
  <2>1. top = dialogs[Len(dialogs)]
    BY DEF Last
  <2>2. Len(dialogs) \in 1 .. Len(dialogs)
    BY DEF DialogsInv
  <2>. HIDE DEF top
  <2>. QED
    BY <2>1, <2>2, ElementOfSeq DEF DialogsInv
<1>. HIDE DEF top
<1>2. top.of \in {"window", "prompt"} /\ top.consent \in BOOLEAN
  BY <1>1 DEF AllDialogs
<1>3. CASE top.of = "window"
  <2>1. view.captured \in AudioSettings
    BY DEF TypeOK, View
  <2>. QED
    BY <1>1, <1>2, <1>3, <2>1, ConfirmedType DEF top, Asks
<1>4. CASE top.of = "prompt"
  <2>1. prompt \in AudioSettings /\ top.consent
    BY <1>1, <1>4 DEF Asks
  <2>2. [prompt EXCEPT !.disable = yes, !.confirm = yes] \in AudioSettings
    BY <2>1 DEF AudioSettings
  <2>. QED
    BY <1>1, <1>4, <2>1, <2>2 DEF top, Agreed, AudioSettings
<1>. QED
  BY <1>2, <1>3, <1>4

-----------------------------------------------------------------------------
(* Every step keeps each part.                                             *)
LEMMA HostTypesStep ==
  ASSUME TypeOK, CallsInv, "std" \notin HandEdits, [Next]_vars
  PROVE  HostTypes'
<1>. USE DEF HostTypes
<1>0. HostTypes
  BY DEF TypeOK
<1>1. ASSUME NEW c, NEW interactive \in BOOLEAN, c \in Config, Scan(c, interactive)
      PROVE  device' \in {"on", "off"} /\ pendingFor' \in Targets \cup {NoTarget} /\ events' \in Seq(BOOLEAN)
  <2>1. Outcome(c) \in {"disabled", "reenabled", "pending", "none"}
    BY DEF Outcome
  <2>2. device' \in {"on", "off"}
    BY <1>0, <1>1, <2>1 DEF Scan
  <2>3. pendingFor' \in Targets \cup {NoTarget}
    BY <1>1 DEF Scan, Config
  <2>4. events' \in Seq(BOOLEAN)
    <3>1. Append(events, interactive) \in Seq(BOOLEAN)
      BY <1>0, AppendProperties
    <3>2. events' = events \/ events' = Append(events, interactive)
      BY <1>1 DEF Scan
    <3>. QED
      BY <1>0, <3>1, <3>2
  <2>. QED
    BY <2>2, <2>3, <2>4
<1>b. ASSUME NEW c \in Config, NEW interactive \in BOOLEAN, ScanUnlessPaused(c, interactive)
      PROVE  device' \in {"on", "off"} /\ pendingFor' \in Targets \cup {NoTarget} /\ events' \in Seq(BOOLEAN)
  <2>1. CASE UNCHANGED <<device, pendingFor, events>>
    BY <1>0, <2>1
  <2>2. CASE Scan(c, interactive)
    BY <1>1, <2>2
  <2>. QED
    BY <1>b, <2>1, <2>2 DEF ScanUnlessPaused
<1>2. ASSUME NEW s \in AudioSettings, Saves(s)
      PROVE  file' \in Text /\ cfg' \in Config
  BY <1>0, <1>2, LoadType, WithSettingsType DEF Saves
<1>3. CASE UNCHANGED host
  BY <1>0, <1>3 DEF host
<1>4. CASE PassBegins
  BY <1>0, <1>4 DEF PassBegins
<1>5. CASE PassEnds
  <2>1. pass \in Config
    BY <1>0, <1>5 DEF PassEnds
  <2>. QED
    BY <1>0, <1>b, <1>5, <2>1 DEF PassEnds
<1>6. CASE ServeConfigure
  <2>1. Head(calls) \in Requests /\ SettingsFromVar(Head(calls).args) \in AudioSettings
    BY <1>6, FirstCall DEF ServeConfigure, Serves
  <2>2. Head(calls).from \in {"window", "prompt"}
    BY <1>6, <2>1 DEF ServeConfigure, Serves, Requests, Callers
  <2>. QED
    BY <1>0, <1>2, <1>6, <2>1, <2>2 DEF ServeConfigure, host
<1>7. CASE ConfigurePass
  BY <1>0, <1>b, <1>7 DEF ConfigurePass
<1>8. ASSUME NEW t \in Threads, Sends(t) PROVE HostTypes'
  BY <1>0, <1>8 DEF Sends
<1>9. CASE Pause \/ Reload
  BY <1>0, <1>9, LoadType DEF Pause, Reload, Publishes
<1>10. CASE HandEdit
  <2>1. DefaultConfig \in Text
    BY SettingsAssumption DEF DefaultConfig, Text
  <2>2. ASSUME NEW text \in Text, NEW new \in Edits(text)
        PROVE  new \in Text \cup {NoFile}
    <3>1. [text EXCEPT !.std = ~@] \in Text /\ [text EXCEPT !.disable = ~@] \in Text
          /\ \A t \in Targets \cup {Bad} : [text EXCEPT !.target = t] \in Text
      BY DEF Text
    <3>2. \/ new = [text EXCEPT !.std = ~@] \/ new = [text EXCEPT !.disable = ~@] \/ new = NoFile
          \/ \E t \in Targets \cup {Bad} : new = [text EXCEPT !.target = t]
      BY <2>2 DEF Edits
    <3>. QED
      BY <3>1, <3>2
  <2>3. file' \in Text \cup {NoFile}
    BY <1>0, <1>10, <2>1, <2>2 DEF HandEdit
  <2>. QED
    BY <1>0, <1>10, <2>3 DEF HandEdit
<1>11. CASE CliConfigures
  <2>1. Confirmed(cli) \in AudioSettings
    BY <1>11, ConfirmedType DEF CliConfigures, TypeOK
  <2>. QED
    BY <1>0, <1>2, <1>11, <2>1, SettingsArrive DEF CliConfigures
<1>12. CASE LinkLost
  BY <1>0, <1>12 DEF LinkLost
<1>. QED
  BY <1>3, <1>4, <1>5, <1>6, <1>7, <1>8, <1>9, <1>10, <1>11, <1>12
   DEF Next, Host, People, vars, ServeStatus, ServeAnalyze, ReadsConfig, ReadsStatus, CliReads,
   Edit, Revert, Apply, Answer, Connects, host, channel, announced, asked, Tray

LEMMA PeopleTypesStep ==
  ASSUME TypeOK, DialogsInv, [Next]_vars
  PROVE  PeopleTypes'
<1>. USE DEF PeopleTypes
<1>0. PeopleTypes
  BY DEF TypeOK
<1>a. ASSUME Acts PROVE acts' \in 0 .. MaxActs
  BY <1>0, <1>a, SettingsAssumption DEF Acts
<1>1. CASE UNCHANGED <<connected, cli, agreed, acts>>
  BY <1>0, <1>1
<1>2. CASE Acts /\ UNCHANGED <<connected, cli, agreed>>
  BY <1>0, <1>2, <1>a
<1>3. CASE CliReads
  <2>1. SettingsOf(cfg) \in AudioSettings
    BY DEF TypeOK, SettingsOf, Config, AudioSettings
  <2>2. cli' \in AudioSettings
    BY <1>3, <2>1 DEF CliReads, AudioSettings
  <2>. QED
    BY <1>0, <1>3, <1>a, <2>2 DEF CliReads, channel
<1>4. CASE CliConfigures
  <2>1. cli \in AudioSettings
    BY <1>0, <1>4 DEF CliConfigures
  <2>2. agreed' \subseteq Targets
    BY <1>0, <1>4, <2>1 DEF CliConfigures, AudioSettings
  <2>. QED
    BY <1>0, <1>4, <2>2 DEF CliConfigures, channel
<1>5. CASE LinkLost
  <2>1. Acts /\ connected' = FALSE /\ cli' = cli /\ agreed' = agreed
    BY <1>5 DEF LinkLost
  <2>. QED
    BY <1>0, <1>a, <2>1
<1>6. CASE Connects
  BY <1>0, <1>6 DEF Connects
<1>7. ASSUME NEW yes \in BOOLEAN, Answer(yes) PROVE PeopleTypes'
  <2>. DEFINE s == IF Last(dialogs).of = "window" THEN Confirmed(view.captured)
                   ELSE [prompt EXCEPT !.disable = yes, !.confirm = yes]
  <2>1. s \in AudioSettings /\ (agreed' = agreed \/ agreed' = agreed \cup {s.target})
    BY <1>7, AnsweredType DEF Answer
  <2>. HIDE DEF s
  <2>2. agreed' \subseteq Targets
    BY <1>0, <2>1 DEF AudioSettings
  <2>. QED
    BY <1>0, <1>7, <2>2 DEF Answer
<1>. QED
  BY <1>1, <1>2, <1>3, <1>4, <1>5, <1>6, <1>7
   DEF Next, Host, People, vars, PassBegins, PassEnds, ServeStatus, ServeAnalyze, ServeConfigure,
   ConfigurePass, ReadsConfig, ReadsStatus, Sends, HandEdit, Pause, Reload, Edit, Revert, Apply, host,
   channel, announced, asked, Tray

LEMMA ConfigsStep ==
  ASSUME TypeOK, ConfigsInv, CallsInv, "std" \notin HandEdits, [Next]_vars
  PROVE  ConfigsInv'
<1>0. agreed \subseteq agreed'
  BY AgreedStays
<1>2. CASE UNCHANGED <<file, cfg>>
  BY <1>0, <1>2, ConfigsFrame
<1>3. CASE ServeConfigure
  <2>1. Sound(Head(calls)) /\ SettingsFromVar(Head(calls).args) \in AudioSettings /\ Head(calls).cmd = "configure"
    BY <1>3, FirstCall DEF ServeConfigure, Serves
  <2>2. CASE UNCHANGED <<file, cfg>>
    BY <1>0, <2>2, ConfigsFrame
  <2>3. CASE Saves(SettingsFromVar(Head(calls).args))
    <3>. DEFINE s == SettingsFromVar(Head(calls).args)
    <3>1. s.confirm = s.disable /\ Agreed(s)
      BY <2>1 DEF Sound
    <3>. HIDE DEF s
    <3>2. s.confirm = s.disable /\ ((s.std /\ s.disable) => s.target \in agreed')
      BY <1>0, <3>1 DEF Agreed
    <3>3. file' = WithSettings(Load(file), s) /\ cfg' = file'
      BY <2>3 DEF Saves, s
    <3>4. s \in AudioSettings
      BY <2>1 DEF s
    <3>. QED
      BY <3>2, <3>3, <3>4, SavedIsBacked DEF TypeOK
  <2>. QED
    BY <1>3, <2>2, <2>3 DEF ServeConfigure, host
<1>4. CASE CliConfigures
  <2>. DEFINE s == Confirmed(cli)
  <2>1. cli \in AudioSettings /\ s \in AudioSettings /\ s.confirm = s.disable
    BY <1>4, ConfirmedType DEF CliConfigures, TypeOK
  <2>2. (s.std /\ s.disable) => s.target \in agreed'
    BY <1>4, <2>1 DEF CliConfigures, Confirmed, AudioSettings
  <2>3. file' = WithSettings(Load(file), s) /\ cfg' = file'
    BY <1>4, <2>1, SettingsArrive DEF CliConfigures, Saves
  <2>. HIDE DEF s
  <2>. QED
    BY <2>1, <2>2, <2>3, SavedIsBacked DEF TypeOK
<1>5. CASE Reload
  <2>1. cfg' = Load(file) /\ file' = file /\ agreed' = agreed
    BY <1>5 DEF Reload
  <2>2. Load(file).std => Load(file).confirmedFor \in agreed \cup {NoTarget}
    BY LoadType DEF ConfigsInv, Backed, DefaultConfig, TypeOK
  <2>. QED
    BY <2>1, <2>2 DEF ConfigsInv, Backed
<1>6. CASE HandEdit
  <2>. DEFINE text == IF file = NoFile THEN DefaultConfig ELSE file
  <2>1. text \in Text
    BY SettingsAssumption DEF DefaultConfig, Text, TypeOK
  <2>2. file' \in Edits(text) /\ cfg' = cfg /\ agreed' = agreed
    BY <1>6 DEF HandEdit
  <2>3. Backed(text)
    BY DEF ConfigsInv, Backed, DefaultConfig
  <2>. HIDE DEF text
  <2>4. file' # NoFile => file'.std = text.std /\ file'.confirmedFor = text.confirmedFor
    BY <2>1, <2>2 DEF Edits, Text
  <2>. QED
    BY <2>2, <2>3, <2>4 DEF ConfigsInv, Backed
<1>. QED
  BY <1>2, <1>3, <1>4, <1>5, <1>6
   DEF Next, Host, People, vars, PassBegins, PassEnds, ServeStatus, ServeAnalyze, ConfigurePass,
   ReadsConfig, ReadsStatus, Sends, Pause, CliReads, LinkLost, Edit, Revert, Apply, Answer, Connects,
   host, channel, announced, asked, Tray

(* A thread that starts a status, or is done with one.                     *)
LEMMA HeldChange ==
  ASSUME HeldInv, agreed \subseteq agreed', DOMAIN held' = Threads,
         \A t \in Threads : held'[t] = held[t] \/ held'[t].step \in {"free", "due"}
  PROVE  HeldInv'
BY DEF HeldInv, Agreed, Backed

LEMMA HeldStep ==
  ASSUME TypeOK, ConfigsInv, HeldInv, [Next]_vars
  PROVE  HeldInv'
<1>. USE DEF Free
<1>0. agreed \subseteq agreed' /\ DOMAIN held = Threads
  BY AgreedStays DEF HeldInv
<1>1. CASE UNCHANGED held
  BY <1>0, <1>1, HeldFrame
<1>2. CASE PassEnds
  BY <1>0, <1>2, HeldChange DEF PassEnds
<1>3. CASE ServeStatus
  BY <1>0, <1>3, HeldChange DEF ServeStatus, Answers
<1>4. CASE ServeAnalyze
  BY <1>0, <1>4, HeldChange DEF ServeAnalyze, Answers
<1>5. CASE ServeConfigure
  <2>1. CASE Answers(Reply(Head(calls).from, FALSE, Nothing))
    BY <1>0, <2>1, HeldChange DEF Answers
  <2>. QED
    BY <1>1, <1>5, <2>1 DEF ServeConfigure
<1>6. CASE ConfigurePass
  <2>1. CASE held' = [held EXCEPT !["other"] = [step |-> "due", reply |-> Event]]
    BY <1>0, <2>1, HeldChange
  <2>2. CASE Answers(Reply(job, TRUE, Nothing))
    BY <1>0, <2>2, HeldChange DEF Answers
  <2>. QED
    BY <1>1, <1>6, <2>1, <2>2 DEF ConfigurePass
<1>7. ASSUME NEW t \in Threads, ReadsConfig(t) PROVE HeldInv'
  <2>. DEFINE r == [step |-> "half", reply |-> held[t].reply, cfg |-> cfg]
  <2>1. held' = [held EXCEPT ![t] = r] /\ agreed' = agreed
    BY <1>7 DEF ReadsConfig
  <2>2. cfg \in Config /\ Backed(cfg) /\ r.step = "half" /\ r.cfg = cfg
    BY DEF TypeOK, ConfigsInv
  <2>. HIDE DEF r
  <2>3. \A u \in Threads : held'[u] = IF u = t THEN r ELSE held[u]
    BY <2>1 DEF HeldInv
  <2>. QED
    BY <2>1, <2>2, <2>3 DEF HeldInv, Agreed, Backed
<1>8. ASSUME NEW t \in Threads, ReadsStatus(t) PROVE HeldInv'
  <2>. DEFINE c == held[t].cfg
              status == [std |-> c.std, target |-> c.target, disable |-> c.disable,
                         confirmed |-> PolicyConfirmed(c), pendingFor |-> pendingFor, events |-> events]
              r == [step |-> "full", reply |-> held[t].reply, status |-> StatusToVar(status)]
  <2>1. held' = [held EXCEPT ![t] = r] /\ agreed' = agreed
    BY <1>8 DEF ReadsStatus
  <2>2. c \in Config /\ Backed(c)
    BY <1>8 DEF HeldInv, ReadsStatus
  <2>3. status \in Status
    BY <2>2 DEF TypeOK, Status, Config, PolicyConfirmed
  <2>4. status.confirmed => status.target \in agreed
    BY <2>2, BackedIsAgreed
  <2>5. r.step = "full" /\ r.status \in StatusVar /\ StatusFromVar(r.status) = status
    BY <2>3, StatusArrives
  <2>. HIDE DEF r, status
  <2>6. \A u \in Threads : held'[u] = IF u = t THEN r ELSE held[u]
    BY <2>1 DEF HeldInv
  <2>. QED
    BY <2>1, <2>4, <2>5, <2>6 DEF HeldInv, Agreed, Backed
<1>9. ASSUME NEW t \in Threads, Sends(t) PROVE HeldInv'
  BY <1>0, <1>9, HeldChange DEF Sends
<1>10. CASE Pause \/ Reload
  <2>1. held' = [held EXCEPT !["other"] = [step |-> "due", reply |-> Event]]
    BY <1>10 DEF Pause, Reload, Publishes
  <2>. QED
    BY <1>0, <2>1, HeldChange
<1>11. CASE LinkLost
  BY <1>0, <1>11, HeldChange DEF LinkLost
<1>. QED
  BY <1>1, <1>2, <1>3, <1>4, <1>5, <1>6, <1>7, <1>8, <1>9, <1>10, <1>11
   DEF Next, Host, People, vars, PassBegins, HandEdit, CliReads, CliConfigures, Edit, Revert,
   Apply, Answer, Connects, host, channel, announced, asked, Tray

(* A status that reaches the tray.                                         *)
LEMMA SendsStep ==
  ASSUME TypeOK, ConsentInv, NEW t \in Threads, Sends(t)
  PROVE  CallsInv' /\ ViewInv' /\ DialogsInv'
<1>0. agreed' = agreed
  BY DEF Sends
<1>1. CASE UNCHANGED <<Tray, calls>>
  <2>1. CallsInv /\ ViewInv /\ DialogsInv
    BY Parts
  <2>2. calls' = calls /\ view' = view /\ dialogs' = dialogs /\ UNCHANGED <<prompt, promptShown>>
    BY <1>1 DEF Tray, asked
  <2>3. CallsInv'
    BY <1>0, <2>1, <2>2, CallsFrame DEF CallsInv
  <2>4. ViewInv'
    BY <1>0, <2>1, <2>2, ViewFrame DEF ViewInv
  <2>5. DialogsInv'
    BY <1>0, <2>1, <2>2, DialogsFrame DEF DialogsInv
  <2>. QED
    BY <2>3, <2>4, <2>5
<1>2. CASE connected
  <2>. DEFINE s == StatusFromVar(held[t].status)
  <2>1. s \in Status /\ (s.confirmed => Agreed(s))
    BY StatusArrives DEF TypeOK, ConsentInv, Sends
  <2>2. StatusReceived(held[t].reply, s)
    BY <1>2 DEF Sends
  <2>. HIDE DEF s
  <2>3. /\ view' \in View /\ promptShown' \in BOOLEAN /\ prompt' \in AudioSettings \cup {Nothing}
        /\ view'.savedConfirmed => Agreed(view'.saved)
        /\ calls' \in Seq({r \in Requests : Sound(r)})
        /\ dialogs' \in Seq({d \in [of : {"window", "prompt"}, consent : BOOLEAN] : Asks(d)'})
    BY <1>0, <2>1, <2>2, ReceivedStep
  <2>4. CallsInv'
    BY <1>0, <2>3 DEF CallsInv, Sound, Agreed
  <2>5. ViewInv'
    BY <1>0, <2>3 DEF ViewInv, Agreed
  <2>6. DialogsInv'
    BY <2>3 DEF DialogsInv, AllDialogs
  <2>. QED
    BY <2>4, <2>5, <2>6
<1>. QED
  BY <1>1, <1>2 DEF Sends

LEMMA CallsStep ==
  ASSUME TypeOK, ConsentInv, [Next]_vars
  PROVE  CallsInv'
<1>. DEFINE good == {r \in Requests : Sound(r)'}
<1>0. agreed \subseteq agreed' /\ CallsInv /\ DialogsInv
  BY AgreedStays, Parts
<1>1. calls \in Seq(good)
  BY <1>0, CallsFrame
<1>2. ASSUME calls' \in Seq(good) PROVE CallsInv'
  BY <1>2 DEF CallsInv
<1>3. CASE UNCHANGED calls
  BY <1>1, <1>2, <1>3
<1>4. CASE calls # <<>> /\ calls' = Tail(calls)
  BY <1>1, <1>2, <1>4, HeadTailProperties
<1>5. ASSUME NEW r \in good, calls' = Append(calls, r) PROVE CallsInv'
  <2>. HIDE DEF good
  <2>. QED
    BY <1>1, <1>2, <1>5, AppendProperties
<1>6. ASSUME NEW t \in Threads, Sends(t) PROVE CallsInv'
  BY <1>6, SendsStep
<1>7. CASE Connects
  <2>1. DefaultSettings \in AudioSettings
    BY SettingsAssumption DEF DefaultSettings, AudioSettings
  <2>2. Request("status", "none", DefaultSettings) \in Requests
    BY <2>1, RequestType DEF Callers
  <2>3. Request("status", "none", DefaultSettings) \in good
    BY <2>2 DEF Request, Sound
  <2>. HIDE DEF good
  <2>. QED
    BY <1>2, <1>7, <2>3 DEF Connects
<1>8. CASE LinkLost
  BY <1>2, <1>8 DEF LinkLost
<1>9. CASE Apply
  <2>1. view.chosen \in AudioSettings
    BY DEF TypeOK, View
  <2>2. Request("analyze", "window", view.chosen) \in Requests
    BY <2>1, RequestType DEF Callers
  <2>3. Request("analyze", "window", view.chosen) \in good
    BY <2>2 DEF Request, Sound
  <2>. QED
    BY <1>5, <1>9, <2>3 DEF Apply
<1>10. ASSUME NEW yes \in BOOLEAN, Answer(yes) PROVE CallsInv'
  <2>. DEFINE top == Last(dialogs)
              s == IF top.of = "window" THEN Confirmed(view.captured)
                   ELSE [prompt EXCEPT !.disable = yes, !.confirm = yes]
              sent == yes \/ top.of = "prompt"
  <2>1. /\ calls' = IF sent /\ connected THEN Append(calls, Request("configure", top.of, s)) ELSE calls
        /\ agreed' = IF yes /\ top.consent THEN agreed \cup {s.target} ELSE agreed
    BY <1>10 DEF Answer
  <2>2. /\ top \in AllDialogs /\ s \in AudioSettings /\ s.confirm = s.disable
        /\ (yes /\ top.consent) \/ Agreed(s) \/ (top.of = "window" /\ ~yes)
    BY <1>0, <1>10, AnsweredType DEF Answer
  <2>. HIDE DEF s, top
  <2>3. top.of \in {"window", "prompt"}
    BY <2>2 DEF AllDialogs
  <2>4. CASE ~(sent /\ connected)
    BY <1>3, <2>1, <2>4
  <2>5. CASE sent /\ connected
    <3>. DEFINE r == Request("configure", top.of, s)
    <3>1. r \in Requests /\ r.args = SettingsToVar(s)
      BY <2>2, <2>3, RequestType DEF Callers, Request
    <3>2. SettingsFromVar(r.args) = s
      BY <2>2, <3>1, SettingsArrive
    <3>3. (s.std /\ s.disable) => s.target \in agreed'
      BY <1>0, <2>1, <2>2, <2>3, <2>5 DEF Agreed
    <3>. HIDE DEF r
    <3>4. r \in good
      BY <2>2, <3>1, <3>2, <3>3 DEF Sound, Agreed
    <3>. QED
      BY <1>5, <2>1, <2>5, <3>4 DEF r
  <2>. QED
    BY <2>4, <2>5
<1>. QED
  BY <1>3, <1>4, <1>6, <1>7, <1>8, <1>9, <1>10
   DEF Next, Host, People, vars, PassBegins, PassEnds, ServeStatus, ServeAnalyze, ServeConfigure,
   ConfigurePass, ReadsConfig, ReadsStatus, HandEdit, Pause, Reload, CliReads, CliConfigures, Edit,
   Revert, host, channel, announced, asked, Tray, Serves

LEMMA ViewStep ==
  ASSUME TypeOK, ConsentInv, [Next]_vars
  PROVE  ViewInv'
<1>0. agreed \subseteq agreed' /\ ViewInv /\ view \in View
  BY AgreedStays, Parts DEF ViewInv
<1>1. CASE UNCHANGED view
  BY <1>0, <1>1, ViewFrame
<1>2. ASSUME NEW t \in Threads, Sends(t) PROVE ViewInv'
  BY <1>2, SendsStep
<1>3. CASE LinkLost
  <2>1. view' = [view EXCEPT !.connected = FALSE, !.phase = IF @ = "asking" THEN @ ELSE "idle"]
    BY <1>3 DEF LinkLost
  <2>. QED
    BY <1>0, <2>1, ViewFrame DEF View
<1>4. CASE Edit
  <2>1. PICK s \in AudioSettings :
          view' = [view EXCEPT !.chosen = s, !.dirty = view.saved # Nothing /\ s # view.saved]
    BY <1>4 DEF Edit
  <2>. QED
    BY <1>0, <2>1, ViewFrame DEF View
<1>5. CASE Revert
  <2>1. view' = [view EXCEPT !.chosen = view.saved, !.dirty = FALSE] /\ view.dirty
    BY <1>5 DEF Revert
  <2>. QED
    BY <1>0, <2>1, ViewFrame DEF View
<1>6. CASE Apply
  <2>1. view' = [view EXCEPT !.phase = "analyzing", !.captured = view.chosen]
    BY <1>6 DEF Apply
  <2>. QED
    BY <1>0, <2>1, ViewFrame DEF View
<1>7. ASSUME NEW yes \in BOOLEAN, Answer(yes) PROVE ViewInv'
  <2>1. view' = view \/ \E phase \in {"idle", "configuring"} : view' = [view EXCEPT !.phase = phase]
    BY <1>7 DEF Answer
  <2>. QED
    BY <1>0, <2>1, ViewFrame DEF View
<1>. QED
  BY <1>1, <1>2, <1>3, <1>4, <1>5, <1>6, <1>7
   DEF Next, Host, People, vars, PassBegins, PassEnds, ServeStatus, ServeAnalyze, ServeConfigure,
   ConfigurePass, ReadsConfig, ReadsStatus, HandEdit, Pause, Reload, CliReads, CliConfigures, Connects,
   host, channel, announced, asked, Tray

LEMMA DialogsStep ==
  ASSUME TypeOK, ConsentInv, [Next]_vars
  PROVE  DialogsInv'
<1>. DEFINE good == {d \in AllDialogs : Asks(d)'}
<1>0. agreed \subseteq agreed' /\ DialogsInv /\ view \in View
  BY AgreedStays, Parts DEF ViewInv
<1>1. ASSUME view'.captured = view.captured, UNCHANGED asked PROVE DialogsInv'
  BY <1>0, <1>1, DialogsFrame DEF DialogsInv, asked
<1>2. CASE UNCHANGED <<view, asked>>
  BY <1>1, <1>2
<1>3. ASSUME NEW t \in Threads, Sends(t) PROVE DialogsInv'
  BY <1>3, SendsStep
<1>4. CASE LinkLost
  BY <1>0, <1>1, <1>4 DEF LinkLost, View
<1>5. CASE Edit
  BY <1>0, <1>1, <1>5 DEF Edit, View
<1>6. CASE Revert
  BY <1>0, <1>1, <1>6 DEF Revert, View
<1>7. CASE Apply
  <2>1. dialogs' = <<>> /\ UNCHANGED <<prompt, promptShown>>
    BY <1>7 DEF Apply, Editable, asked
  <2>. QED
    BY <1>0, <2>1 DEF DialogsInv
<1>8. ASSUME NEW yes \in BOOLEAN, Answer(yes) PROVE DialogsInv'
  <2>1. dialogs # <<>> /\ dialogs' = Front(dialogs) /\ UNCHANGED <<prompt, promptShown>>
    BY <1>8 DEF Answer
  <2>2. view'.captured = view.captured
    BY <1>0, <1>8 DEF Answer, View
  <2>3. dialogs \in Seq(good)
    BY <1>0, <2>1, <2>2, DialogsFrame
  <2>. HIDE DEF good
  <2>4. Front(dialogs) \in Seq(good)
    BY <2>1, <2>3, SubSeqProperties DEF Front
  <2>. QED
    BY <1>0, <2>1, <2>4 DEF DialogsInv, good
<1>. QED
  BY <1>2, <1>3, <1>4, <1>5, <1>6, <1>7, <1>8
   DEF Next, Host, People, vars, PassBegins, PassEnds, ServeStatus, ServeAnalyze, ServeConfigure,
   ConfigurePass, ReadsConfig, ReadsStatus, HandEdit, Pause, Reload, CliReads, CliConfigures, Connects,
   host, channel, announced, asked, Tray

-----------------------------------------------------------------------------
(* Every finite set of sequence numbers can be put in order.               *)
LEMMA LessIsWellFounded ==
  \E R : IsWellFoundedOn(R, Nat) /\ \A m, n \in Nat : <<m, n>> \in R <=> m < n
<1>. DEFINE R == OpToRel(<, Nat)
<1>1. IsWellFoundedOn(R, Nat)
  BY NatLessThanWellFounded
<1>2. \A m, n \in Nat : <<m, n>> \in R <=> m < n
  BY DEF OpToRel
<1>. HIDE DEF R
<1>. QED
  BY <1>1, <1>2

LEMMA Least ==
  ASSUME NEW T \in SUBSET Nat, T # {}
  PROVE  \E n \in T : \A m \in T : n <= m
<1>1. PICK R : IsWellFoundedOn(R, Nat) /\ \A m, n \in Nat : <<m, n>> \in R <=> m < n
  BY LessIsWellFounded
<1>2. PICK n \in T : \A m \in T : <<m, n>> \notin R
  <2>1. IsWellFoundedOn(R, Nat) /\ T \subseteq Nat
    BY <1>1
  <2>2. \E n \in T : \A m \in T : ~(<<m, n>> \in R)
    BY <2>1, WFMin, Zenon
  <2>. QED
    BY <2>2
<1>3. ASSUME NEW m \in T PROVE n <= m
  <2>1. ~(m < n)
    BY <1>1, <1>2
  <2>. QED
    BY <2>1
<1>. QED
  BY <1>3

(* A number larger than all of a rising sequence may follow it.            *)
LEMMA RisingAppend ==
  ASSUME NEW k \in Nat, NEW q \in [1..k -> Nat], Rising(q), NEW n \in Nat, \A i \in 1..k : q[i] < n,
         NEW r \in [1..(k + 1) -> Nat], \A i \in 1..k : r[i] = q[i], r[k + 1] = n
  PROVE  Rising(r) /\ Members(r) = Members(q) \cup {n}
<1>1. Rising(r)
  <2>1. ASSUME NEW i \in 1..(k + 1), NEW j \in 1..(k + 1), i < j
        PROVE  r[i] < r[j]
    <3>1. i \in 1..k /\ (j \in 1..k \/ j = k + 1)
      BY <2>1
    <3>2. CASE j \in 1..k
      BY <2>1, <3>1, <3>2 DEF Rising
    <3>3. CASE j = k + 1
      BY <3>1, <3>3
    <3>. QED
      BY <3>1, <3>2, <3>3
  <2>. QED
    BY <2>1 DEF Rising
<1>2. Members(r) \subseteq Members(q) \cup {n}
  <2>1. ASSUME NEW i \in 1..(k + 1) PROVE r[i] \in Members(q) \cup {n}
    <3>1. i \in 1..k \/ i = k + 1
      OBVIOUS
    <3>. QED
      BY <3>1 DEF Members
  <2>. QED
    BY <2>1 DEF Members
<1>3. Members(q) \subseteq Members(r) /\ n \in Members(r)
  <2>1. 1..k \subseteq 1..(k + 1) /\ k + 1 \in 1..(k + 1)
    OBVIOUS
  <2>. QED
    BY <2>1 DEF Members
<1>. QED
  BY <1>1, <1>2, <1>3

Enumerated(S) == \E q \in [1..Cardinality(S) -> S] : Rising(q) /\ Members(q) = S

LEMMA OneMore ==
  ASSUME NEW m \in Nat, NEW S \in SUBSET (1..(m + 1)), Enumerated(S \ {m + 1})
  PROVE  Enumerated(S)
<1>. DEFINE n == m + 1
            P == S \ {n}
            k == Cardinality(P)
<1>1. CASE n \notin S
  <2>1. P = S
    BY <1>1
  <2>. QED
    BY <2>1
<1>2. CASE n \in S
  <2>1. IsFiniteSet(P) /\ k \in Nat
    <3>1. IsFiniteSet(1..n)
      BY FS_Interval
    <3>. QED
      BY <3>1, FS_Subset, FS_CardinalityType
  <2>2. S = P \cup {n} /\ n \notin P
    BY <1>2
  <2>3. Cardinality(S) = k + 1
    <3>. HIDE DEF P, n
    <3>. QED
      BY <2>1, <2>2, FS_AddElement DEF k
  <2>4. PICK q \in [1..k -> P] : Rising(q) /\ Members(q) = P
    BY DEF Enumerated
  <2>5. P \subseteq 1..m /\ P \subseteq Nat /\ n \in Nat /\ \A j \in 1..m : j < n
    OBVIOUS
  <2>. HIDE DEF k, P, n
  <2>. DEFINE r == [i \in 1..(k + 1) |-> IF i = k + 1 THEN n ELSE q[i]]
  <2>6. \A i \in 1..k : q[i] \in P /\ q[i] < n
    BY <2>4, <2>5
  <2>7. q \in [1..k -> Nat] /\ r \in [1..(k + 1) -> Nat] /\ r[k + 1] = n /\ \A i \in 1..k : r[i] = q[i]
    <3>1. q \in [1..k -> Nat]
      BY <2>4, <2>5
    <3>2. \A i \in 1..(k + 1) : i # k + 1 => i \in 1..k
      BY <2>1
    <3>3. \A i \in 1..k : i \in 1..(k + 1) /\ i # k + 1
      BY <2>1
    <3>4. k + 1 \in 1..(k + 1)
      BY <2>1
    <3>. QED
      BY <3>1, <3>2, <3>3, <3>4, <2>5
  <2>8. r \in [1..(k + 1) -> S]
    BY <2>1, <2>2, <2>6
  <2>. HIDE DEF r
  <2>9. Rising(r) /\ Members(r) = Members(q) \cup {n}
    BY <2>1, <2>4, <2>5, <2>6, <2>7, RisingAppend
  <2>. QED
    BY <2>2, <2>3, <2>4, <2>8, <2>9 DEF Enumerated, n
<1>. QED
  BY <1>1, <1>2

LEMMA AllEnumerated ==
  ASSUME NEW m \in Nat, NEW S \in SUBSET (1..m)
  PROVE  Enumerated(S)
<1>. DEFINE Bads == {k \in Nat : \E T \in SUBSET (1..k) : ~Enumerated(T)}
<1>1. ASSUME Bads # {} PROVE FALSE
  <2>1. PICK k \in Bads : \A j \in Bads : k <= j
    <3>. HIDE DEF Bads
    <3>1. Bads \in SUBSET Nat
      BY DEF Bads
    <3>. QED
      BY <1>1, <3>1, Least
  <2>2. k \in Nat
    OBVIOUS
  <2>3. PICK T \in SUBSET (1..k) : ~Enumerated(T)
    BY <2>1
  <2>4. CASE k = 0
    <3>1. T = {}
      BY <2>3, <2>4
    <3>2. Cardinality({}) = 0
      BY FS_EmptySet
    <3>. DEFINE q == [i \in 1..0 |-> 0]
    <3>3. q \in [1..0 -> {}] /\ Rising(q) /\ Members(q) = {}
      BY DEF Rising, Members
    <3>. QED
      BY <2>3, <3>1, <3>2, <3>3 DEF Enumerated
  <2>5. CASE k # 0
    <3>1. PICK j \in Nat : k = j + 1
      BY <2>2, <2>5
    <3>2. j \notin Bads
      BY <2>1, <2>2, <3>1
    <3>3. T \ {j + 1} \in SUBSET (1..j) /\ T \in SUBSET (1..(j + 1))
      BY <2>3, <3>1
    <3>4. Enumerated(T \ {j + 1})
      BY <3>1, <3>2, <3>3
    <3>. QED
      BY <2>3, <3>1, <3>3, <3>4, OneMore
  <2>. QED
    BY <2>4, <2>5
<1>. QED
  BY <1>1

(* The numbers of a set in order (the loop of notifyDeviceEvents).         *)
LEMMA InOrderType ==
  ASSUME NEW m \in Nat, NEW S \in SUBSET (1..m)
  PROVE  InOrder(S) \in Seq(Nat) /\ Rising(InOrder(S)) /\ Members(InOrder(S)) = S
<1>1. Enumerated(S)
  BY AllEnumerated
<1>2. InOrder(S) \in [1..Cardinality(S) -> S] /\ Rising(InOrder(S)) /\ Members(InOrder(S)) = S
  BY <1>1 DEF Enumerated, InOrder
<1>3. Cardinality(S) \in Nat
  <2>1. IsFiniteSet(1..m)
    BY FS_Interval
  <2>. QED
    BY <2>1, FS_Subset, FS_CardinalityType
<1>4. S \subseteq Nat
  OBVIOUS
<1>. HIDE DEF InOrder
<1>5. InOrder(S) \in [1..Cardinality(S) -> Nat]
  BY <1>2, <1>4
<1>. QED
  BY <1>2, <1>3, <1>5

-----------------------------------------------------------------------------
(* What the tray has announced.                                            *)

Grows == events' \in Seq(BOOLEAN) /\ Begins(events, events')

LEMMA BeginsMore ==
  ASSUME NEW e, NEW f \in Seq(BOOLEAN), NEW g \in Seq(BOOLEAN), Begins(e, f), Begins(f, g)
  PROVE  Begins(e, g)
<1>1. Len(e) \in Nat /\ Len(f) \in Nat /\ Len(g) \in Nat
  BY DEF Begins
<1>. QED
  BY <1>1 DEF Begins

(* The engine only adds events (report).                                   *)
LEMMA EventsGrow ==
  ASSUME events \in Seq(BOOLEAN), [Next]_vars
  PROVE  Grows
<1>1. CASE UNCHANGED events
  BY <1>1 DEF Grows, Begins
<1>2. ASSUME NEW c, NEW interactive \in BOOLEAN, Scan(c, interactive) PROVE Grows
  <2>1. events' = events \/ events' = Append(events, interactive)
    BY <1>2 DEF Scan
  <2>2. CASE events' = Append(events, interactive)
    BY <2>2, AppendProperties DEF Grows, Begins
  <2>. QED
    BY <1>1, <2>1, <2>2
<1>3. CASE PassEnds
  BY <1>1, <1>2, <1>3 DEF PassEnds, ScanUnlessPaused
<1>4. CASE ConfigurePass
  BY <1>1, <1>2, <1>4 DEF ConfigurePass, ScanUnlessPaused
<1>. QED
  BY <1>1, <1>3, <1>4
   DEF Next, Host, People, vars, PassBegins, ServeStatus, ServeAnalyze, ServeConfigure, ReadsConfig, ReadsStatus,
   Sends, HandEdit, Pause, Reload, CliReads, CliConfigures, LinkLost, Edit, Revert, Apply, Answer, Connects, host

HeldEvents ==
  /\ DOMAIN held = Threads
  /\ \A t \in Threads : held[t].step = "full" => Begins(StatusFromVar(held[t].status).events, events)

(* The statuses that wait to be sent carry the first of the events.        *)
LEMMA HeldEventsStep ==
  ASSUME events \in Seq(BOOLEAN), HeldEvents, [Next]_vars
  PROVE  HeldEvents'
<1>. USE DEF Free
<1>1. events' \in Seq(BOOLEAN) /\ Begins(events, events')
  BY EventsGrow DEF Grows
<1>2. \A t \in Threads : held[t].step = "full" => Begins(StatusFromVar(held[t].status).events, events')
  BY <1>1, BeginsMore DEF HeldEvents
<1>3. CASE UNCHANGED held
  BY <1>2, <1>3 DEF HeldEvents
<1>4. ASSUME DOMAIN held' = Threads, \A t \in Threads : held'[t] = held[t] \/ held'[t].step # "full"
      PROVE  HeldEvents'
  BY <1>2, <1>4 DEF HeldEvents
<1>5. DOMAIN held = Threads
  BY DEF HeldEvents
<1>6. ASSUME NEW reply, Answers(reply) PROVE HeldEvents'
  BY <1>4, <1>5, <1>6 DEF Answers
<1>7. ASSUME NEW t \in Threads, ReadsStatus(t) PROVE HeldEvents'
  <2>. DEFINE c == held[t].cfg
              status == [std |-> c.std, target |-> c.target, disable |-> c.disable,
                         confirmed |-> PolicyConfirmed(c), pendingFor |-> pendingFor, events |-> events]
              r == [step |-> "full", reply |-> held[t].reply, status |-> StatusToVar(status)]
  <2>1. held' = [held EXCEPT ![t] = r]
    BY <1>7 DEF ReadsStatus
  <2>2. StatusFromVar(r.status).events = events
    BY DEF StatusFromVar, StatusToVar, Property
  <2>. HIDE DEF r
  <2>3. DOMAIN held' = Threads /\ \A u \in Threads : held'[u] = IF u = t THEN r ELSE held[u]
    BY <2>1 DEF HeldEvents
  <2>. QED
    BY <1>1, <1>2, <2>2, <2>3 DEF HeldEvents
<1>8. CASE PassEnds
  BY <1>4, <1>5, <1>8 DEF PassEnds
<1>9. CASE ServeStatus \/ ServeAnalyze
  BY <1>6, <1>9 DEF ServeStatus, ServeAnalyze
<1>10. CASE ServeConfigure
  BY <1>3, <1>6, <1>10 DEF ServeConfigure
<1>11. CASE ConfigurePass
  <2>1. CASE held' = [held EXCEPT !["other"] = [step |-> "due", reply |-> Event]]
    BY <1>4, <1>5, <2>1
  <2>. QED
    BY <1>3, <1>6, <1>11, <2>1 DEF ConfigurePass
<1>12. ASSUME NEW t \in Threads, ReadsConfig(t) PROVE HeldEvents'
  BY <1>4, <1>5, <1>12 DEF ReadsConfig
<1>13. ASSUME NEW t \in Threads, Sends(t) PROVE HeldEvents'
  BY <1>4, <1>5, <1>13 DEF Sends
<1>14. CASE Pause \/ Reload
  <2>1. held' = [held EXCEPT !["other"] = [step |-> "due", reply |-> Event]]
    BY <1>14 DEF Pause, Reload, Publishes
  <2>. QED
    BY <1>4, <1>5, <2>1
<1>15. CASE LinkLost
  BY <1>4, <1>5, <1>15 DEF LinkLost
<1>. QED
  BY <1>3, <1>7, <1>8, <1>9, <1>10, <1>11, <1>12, <1>13, <1>14, <1>15
   DEF Next, Host, People, vars, PassBegins, HandEdit, CliReads, CliConfigures, Edit, Revert,
   Apply, Answer, Connects, host, channel, announced, asked, Tray

Announced ==
  /\ \/ base = Nothing /\ lastSeq = Nothing /\ told = <<>>
     \/ base \in Nat /\ lastSeq \in base..Len(events) /\ told \in Seq(Nat)
  /\ ToldExactlyOnce

(* New events do not touch what was announced.                             *)
LEMMA AnnouncedStays ==
  ASSUME events \in Seq(BOOLEAN), Announced, Grows, UNCHANGED announced
  PROVE  Announced'
<1>1. base' = base /\ lastSeq' = lastSeq /\ told' = told
  BY DEF announced
<1>2. /\ Len(events) \in Nat /\ Len(events') \in Nat /\ Len(events) <= Len(events')
      /\ \A n \in 1..Len(events) : events'[n] = events[n]
  BY DEF Grows, Begins
<1>3. CASE base = Nothing
  BY <1>1, <1>3, SettingsAssumption DEF Announced, ToldExactlyOnce
<1>4. CASE base # Nothing
  <2>1. base \in Nat /\ lastSeq \in base..Len(events) /\ told \in Seq(Nat)
    BY <1>4 DEF Announced
  <2>2. {n \in base + 1 .. lastSeq : ~events[n]} = {n \in base + 1 .. lastSeq : ~events'[n]}
    BY <1>2, <2>1
  <2>3. lastSeq \in base..Len(events')
    BY <1>2, <2>1
  <2>. QED
    BY <1>1, <1>4, <2>1, <2>2, <2>3 DEF Announced, ToldExactlyOnce
<1>. QED
  BY <1>3, <1>4

(* A rising sequence may be followed by one whose numbers are all larger.  *)
LEMMA RisingConcat ==
  ASSUME NEW p \in Seq(Nat), NEW q \in Seq(Nat), Rising(p), Rising(q),
         \A m \in Members(p), n \in Members(q) : m < n
  PROVE  p \o q \in Seq(Nat) /\ Rising(p \o q) /\ Members(p \o q) = Members(p) \cup Members(q)
<1>. DEFINE r == p \o q
            k == Len(p)
            l == Len(q)
<1>1. /\ r \in Seq(Nat) /\ Len(r) = k + l /\ k \in Nat /\ l \in Nat
      /\ \A i \in 1..(k + l) : r[i] = IF i <= k THEN p[i] ELSE q[i - k]
      /\ DOMAIN p = 1..k /\ DOMAIN q = 1..l /\ DOMAIN r = 1..(k + l)
  BY ConcatProperties
<1>2. \A i \in 1..k : p[i] \in Members(p)
  BY <1>1 DEF Members
<1>3. \A i \in 1..l : q[i] \in Members(q)
  BY <1>1 DEF Members
<1>. HIDE DEF r, k, l
<1>4. \A i \in 1..(k + l) : i <= k => i \in 1..k
  BY <1>1
<1>5. \A i \in 1..(k + l) : i > k => (i - k) \in 1..l
  BY <1>1
<1>6. Rising(r)
  <2>1. ASSUME NEW i \in 1..(k + l), NEW j \in 1..(k + l), i < j PROVE r[i] < r[j]
    <3>1. CASE j <= k
      <4>1. i <= k /\ i \in 1..k /\ j \in 1..k
        BY <1>1, <2>1, <3>1
      <4>2. DOMAIN p = 1..k
        BY <1>1
      <4>3. p[i] < p[j]
        BY <2>1, <4>1, <4>2 DEF Rising
      <4>. QED
        BY <1>1, <3>1, <4>1, <4>3
    <3>2. CASE i <= k /\ j > k
      <4>1. p[i] < q[j - k]
        BY <1>2, <1>3, <1>4, <1>5, <3>2
      <4>. QED
        BY <1>1, <3>2, <4>1
    <3>3. CASE i > k
      <4>1. j > k /\ i - k < j - k
        BY <1>1, <2>1, <3>3
      <4>2. q[i - k] < q[j - k]
        BY <1>1, <1>5, <3>3, <4>1 DEF Rising
      <4>. QED
        BY <1>1, <3>3, <4>1, <4>2
    <3>. QED
      BY <1>1, <2>1, <3>1, <3>2, <3>3
  <2>. QED
    BY <1>1, <2>1 DEF Rising
<1>7. Members(r) \subseteq Members(p) \cup Members(q)
  <2>1. ASSUME NEW i \in 1..(k + l) PROVE r[i] \in Members(p) \cup Members(q)
    BY <1>1, <1>2, <1>3, <1>4, <1>5
  <2>. QED
    BY <1>1, <2>1 DEF Members
<1>8. Members(p) \subseteq Members(r)
  <2>1. ASSUME NEW i \in 1..k PROVE p[i] \in Members(r)
    <3>1. i \in 1..(k + l) /\ i <= k
      BY <1>1
    <3>2. r[i] = p[i]
      BY <1>1, <3>1
    <3>. QED
      BY <1>1, <3>1, <3>2 DEF Members
  <2>. QED
    BY <1>1, <2>1 DEF Members
<1>9. Members(q) \subseteq Members(r)
  <2>1. ASSUME NEW i \in 1..l PROVE q[i] \in Members(r)
    <3>1. i + k \in 1..(k + l) /\ ~(i + k <= k) /\ (i + k) - k = i
      BY <1>1
    <3>2. r[i + k] = q[i]
      BY <1>1, <3>1
    <3>. QED
      BY <1>1, <3>1, <3>2 DEF Members
  <2>. QED
    BY <1>1, <2>1 DEF Members
<1>. QED
  BY <1>1, <1>6, <1>7, <1>8, <1>9 DEF r

(* A status that reaches the tray, however late (notifyDeviceEvents).      *)
LEMMA NotifiedStep ==
  ASSUME events \in Seq(BOOLEAN), Announced, NEW s, Begins(s.events, events),
         NotifyDeviceEvents(s), UNCHANGED events
  PROVE  Announced'
<1>. DEFINE e == s.events
            l == Len(e)
            new == NewEvents(s)
<1>1. /\ e \in Seq(BOOLEAN) /\ l \in Nat /\ Len(events) \in Nat /\ l <= Len(events) /\ DOMAIN e = 1..l
      /\ \A n \in 1..l : e[n] = events[n]
  BY DEF Begins
<1>2. new = {n \in 1..l : lastSeq # Nothing /\ n > lastSeq /\ ~events[n]}
  BY <1>1 DEF NewEvents
<1>3. InOrder(new) \in Seq(Nat) /\ Rising(InOrder(new)) /\ Members(InOrder(new)) = new
  <2>1. new \in SUBSET (1..l)
    BY <1>2
  <2>. HIDE DEF new
  <2>. QED
    BY <1>1, <2>1, InOrderType
<1>4. /\ told' = told \o InOrder(new)
      /\ lastSeq' = IF lastSeq = Nothing \/ l > lastSeq THEN l ELSE lastSeq
      /\ base' = IF base = Nothing THEN l ELSE base
  BY DEF NotifyDeviceEvents
<1>. HIDE DEF new, l, e
<1>5. CASE base = Nothing
  <2>1. lastSeq = Nothing /\ told = <<>>
    BY <1>5, SettingsAssumption DEF Announced
  <2>2. new = {}
    BY <1>2, <2>1
  <2>3. InOrder(new) = <<>>
    <3>1. \A q \in Seq(Nat) : Len(q) > 0 => q[1] \in Members(q)
      BY DEF Members
    <3>2. ~(Len(InOrder(new)) > 0)
      BY <1>3, <2>2, <3>1
    <3>. QED
      BY <1>3, <3>2, EmptySeq
  <2>4. told' = <<>> /\ lastSeq' = l /\ base' = l
    BY <1>4, <1>5, <2>1, <2>3
  <2>5. Rising(<<>>) /\ Members(<<>>) = {}
    BY DEF Rising, Members
  <2>6. {n \in l + 1 .. l : ~events[n]} = {}
    BY <1>1
  <2>7. l \in l..Len(events) /\ <<>> \in Seq(Nat)
    BY <1>1
  <2>. QED
    BY <1>1, <2>4, <2>5, <2>6, <2>7 DEF Announced, ToldExactlyOnce
<1>6. CASE base # Nothing
  <2>1. base \in Nat /\ lastSeq \in base..Len(events) /\ lastSeq \in Nat /\ told \in Seq(Nat) /\ lastSeq # Nothing
    BY <1>1, <1>6, SettingsAssumption DEF Announced
  <2>2. Rising(told) /\ Members(told) = {n \in base + 1 .. lastSeq : ~events[n]}
    BY <1>6 DEF Announced, ToldExactlyOnce
  <2>3. new = {n \in lastSeq + 1 .. l : ~events[n]}
    BY <1>1, <1>2, <2>1
  <2>4. \A m \in Members(told), n \in new : m < n
    BY <1>1, <2>1, <2>2, <2>3
  <2>5. told' \in Seq(Nat) /\ Rising(told') /\ Members(told') = Members(told) \cup new
    BY <1>3, <1>4, <2>1, <2>2, <2>4, RisingConcat
  <2>6. /\ lastSeq' = (IF l > lastSeq THEN l ELSE lastSeq) /\ base' = base
        /\ lastSeq' \in base'..Len(events)
    BY <1>1, <1>4, <1>6, <2>1
  <2>7. Members(told') = {n \in base + 1 .. lastSeq' : ~events[n]}
    BY <1>1, <2>1, <2>2, <2>3, <2>5, <2>6
  <2>. QED
    BY <1>6, <2>1, <2>5, <2>6, <2>7 DEF Announced, ToldExactlyOnce
<1>. QED
  BY <1>5, <1>6

LEMMA ToldParts == ToldInv <=> events \in Seq(BOOLEAN) /\ HeldEvents /\ Announced
BY DEF ToldInv, HeldEvents, Announced

LEMMA ToldTypes == ToldInv => AnnouncedTypes
<1>. SUFFICES ASSUME ToldInv PROVE AnnouncedTypes
  OBVIOUS
<1>1. Len(events) \in Nat /\ <<>> \in Seq(Nat)
  BY DEF ToldInv
<1>2. Announced
  BY ToldParts
<1>3. CASE base = Nothing /\ lastSeq = Nothing /\ told = <<>>
  BY <1>3 DEF AnnouncedTypes
<1>4. CASE base \in Nat /\ lastSeq \in base..Len(events) /\ told \in Seq(Nat)
  BY <1>1, <1>4 DEF AnnouncedTypes
<1>. QED
  BY <1>2, <1>3, <1>4 DEF Announced

LEMMA ToldPartsNext == ToldInv' <=> events' \in Seq(BOOLEAN) /\ HeldEvents' /\ Announced'
BY DEF ToldInv, HeldEvents, Announced

(* Whatever the statuses on their way and in whichever order they arrive,  *)
(* the tray has announced all the events it should have, and none twice.   *)
THEOREM Announces == Spec => []ToldInv
<1>1. Init => ToldInv
  BY DEF Init, ToldInv, ToldExactlyOnce, Free
<1>2. ToldInv /\ [Next]_vars => ToldInv'
  <2>. SUFFICES ASSUME ToldInv, [Next]_vars PROVE ToldInv'
    OBVIOUS
  <2>1. events \in Seq(BOOLEAN) /\ HeldEvents /\ Announced
    BY ToldParts
  <2>2. Grows /\ HeldEvents'
    BY <2>1, EventsGrow, HeldEventsStep
  <2>3. CASE UNCHANGED announced
    BY <2>1, <2>2, <2>3, AnnouncedStays, ToldPartsNext DEF Grows
  <2>4. ASSUME NEW t \in Threads, Sends(t) PROVE Announced'
    <3>. DEFINE s == StatusFromVar(held[t].status)
    <3>1. Begins(s.events, events) /\ UNCHANGED events
      BY <2>1, <2>4 DEF Sends, HeldEvents
    <3>2. CASE connected
      <4>1. NotifyDeviceEvents(s)
        BY <2>4, <3>2 DEF Sends, StatusReceived
      <4>. HIDE DEF s
      <4>. QED
        BY <2>1, <3>1, <4>1, NotifiedStep
    <3>3. CASE UNCHANGED announced
      BY <2>1, <2>2, <3>3, AnnouncedStays
    <3>. QED
      BY <2>4, <3>2, <3>3 DEF Sends, Tray
  <2>5. CASE \E t \in Threads : Sends(t)
    BY <2>2, <2>4, <2>5, ToldPartsNext DEF Grows
  <2>. QED
    BY <2>3, <2>5
     DEF Next, Host, People, vars, PassBegins, PassEnds, ServeStatus, ServeAnalyze, ServeConfigure,
     ConfigurePass, ReadsConfig, ReadsStatus, HandEdit, Pause, Reload, CliReads, CliConfigures, LinkLost, Edit, Revert,
     Apply, Answer, Connects, host, channel, asked, Tray
<1>. QED
  BY <1>1, <1>2, PTL DEF Spec

(* Each event that the user did not just cause is announced exactly once   *)
(* and in order, for any number of events and any order of the statuses.   *)
THEOREM AnnouncedExactlyOnce == Spec => []ToldExactlyOnce
<1>1. ToldInv => ToldExactlyOnce
  BY DEF ToldInv
<1>. QED
  BY <1>1, Announces, PTL

-----------------------------------------------------------------------------
(* Whatever the driver supports and however edits, replies, statuses and   *)
(* lost connections interleave, the types and the consent that travels     *)
(* with the settings are kept by every step.                               *)
THEOREM Inductive ==
  ASSUME "std" \notin HandEdits
  PROVE  Spec => [](TypeOK /\ ConsentInv)
<1>1. Init => TypeOK /\ ConsentInv
  <2>. SUFFICES ASSUME Init PROVE TypeOK /\ ConsentInv
    OBVIOUS
  <2>1. HostTypes
    <3>1. DefaultConfig \in Text /\ DefaultConfig \in Config
      BY SettingsAssumption DEF DefaultConfig, Config, Text
    <3>2. /\ file = DefaultConfig /\ cfg = DefaultConfig /\ control = "free" /\ job = Nothing
          /\ device = "on" /\ paused = FALSE /\ pass = Nothing /\ pendingFor = NoTarget
      BY DEF Init
    <3>3. events \in Seq(BOOLEAN)
      BY DEF Init
    <3>. QED
      BY <3>1, <3>2, <3>3 DEF HostTypes
  <2>2. PeopleTypes
    <3>1. connected \in BOOLEAN
      BY DEF Init
    <3>2. cli \in AudioSettings \cup {Nothing} /\ agreed \subseteq Targets /\ acts \in 0 .. MaxActs
      BY SettingsAssumption DEF Init
    <3>. QED
      BY <3>1, <3>2 DEF PeopleTypes
  <2>3. ConfigsInv
    BY DEF Init, ConfigsInv, Backed, DefaultConfig
  <2>4. HeldInv
    BY DEF Init, HeldInv, Free
  <2>5. CallsInv /\ AnnouncedTypes
    BY DEF Init, CallsInv, AnnouncedTypes
  <2>6. ViewInv
    <3>1. DefaultSettings \in AudioSettings
      BY SettingsAssumption DEF DefaultSettings, AudioSettings
    <3>2. NewView \in View /\ NewView.savedConfirmed = FALSE
      BY <3>1 DEF NewView, View
    <3>3. view = NewView
      BY DEF Init
    <3>. QED
      BY <3>2, <3>3 DEF ViewInv
  <2>7. DialogsInv
    <3>1. promptShown \in BOOLEAN
      BY DEF Init
    <3>2. dialogs \in Seq({d \in AllDialogs : Asks(d)}) /\ prompt \in AudioSettings \cup {Nothing}
      BY DEF Init
    <3>. QED
      BY <3>1, <3>2 DEF DialogsInv
  <2>. QED
    BY <2>1, <2>2, <2>3, <2>4, <2>5, <2>6, <2>7, Parts
<1>2. TypeOK /\ ConsentInv /\ ToldInv' /\ [Next]_vars => (TypeOK /\ ConsentInv)'
  <2>. SUFFICES ASSUME TypeOK, ConsentInv, ToldInv', [Next]_vars PROVE TypeOK' /\ ConsentInv'
    OBVIOUS
  <2>1. HostTypes /\ PeopleTypes /\ ConfigsInv /\ HeldInv /\ CallsInv /\ ViewInv /\ DialogsInv
    BY Parts
  <2>2. HostTypes'
    BY <2>1, HostTypesStep
  <2>3. PeopleTypes'
    BY <2>1, PeopleTypesStep
  <2>4. ConfigsInv'
    BY <2>1, ConfigsStep
  <2>5. HeldInv'
    BY <2>1, HeldStep
  <2>6. CallsInv' /\ ViewInv' /\ DialogsInv'
    BY CallsStep, ViewStep, DialogsStep
  <2>7. AnnouncedTypes'
    BY ToldTypes, PTL
  <2>. QED
    BY <2>2, <2>3, <2>4, <2>5, <2>6, <2>7, PartsNext
<1>. QED
  BY <1>1, <1>2, Announces, PTL DEF Spec

(* The variables keep their types.                                         *)
THEOREM TypeCorrect ==
  ASSUME "std" \notin HandEdits
  PROVE  Spec => []TypeOK
<1>1. Spec => [](TypeOK /\ ConsentInv)
  BY Inductive
<1>. QED
  BY <1>1, PTL

(* The policy never acts on a target that nobody agreed to, unless         *)
(* somebody switches the standardization on in the file: what the violated *)
(* run shows is the only way around the questions.                         *)
THEOREM ConsentIsReal ==
  ASSUME "std" \notin HandEdits
  PROVE  Spec => []PolicyWasAgreedTo
<1>1. Spec => [](TypeOK /\ ConsentInv)
  BY Inductive
<1>2. TypeOK /\ ConsentInv => PolicyWasAgreedTo
  BY BackedIsAgreed DEF TypeOK, ConsentInv, PolicyWasAgreedTo
<1>. QED
  BY <1>1, <1>2, PTL

-----------------------------------------------------------------------------
(* The refinement of Consent.                                              *)

(* What a pass leaves the device as (applyIncompatiblePolicy,              *)
(* reviewDisabledEndpoints).                                               *)
LEMMA ScanJudges ==
  ASSUME NEW c \in Config, NEW interactive, Scan(c, interactive), device \in {"on", "off"}
  PROVE  Promise!Judges(PolicyOf(c))
<1>. DEFINE unwanted == PolicyConfirmed(c) /\ ~Fits(c.target)
<1>1. PolicyOf(c) \in Targets \ Supported <=> unwanted
  BY SettingsAssumption DEF PolicyOf, Fits, Config
<1>2. device' = [disabled |-> "off", reenabled |-> "on", pending |-> device, none |-> device][Outcome(c)]
  BY DEF Scan
<1>3. CASE device = "on" /\ unwanted
  <2>1. Outcome(c) = "disabled"
    BY <1>3 DEF Outcome, PolicyConfirmed
  <2>. QED
    BY <1>1, <1>2, <1>3, <2>1 DEF Promise!Judges
<1>4. CASE device = "on" /\ ~unwanted
  <2>1. Outcome(c) \in {"pending", "none"}
    BY <1>4 DEF Outcome, PolicyConfirmed
  <2>2. device' = "on"
    BY <1>2, <1>4, <2>1
  <2>. QED
    BY <1>1, <1>4, <2>2 DEF Promise!Judges
<1>5. CASE device = "off" /\ unwanted
  <2>1. Outcome(c) = "none"
    BY <1>5 DEF Outcome
  <2>. QED
    BY <1>1, <1>2, <1>5, <2>1 DEF Promise!Judges
<1>6. CASE device = "off" /\ ~unwanted
  <2>1. Outcome(c) = "reenabled"
    BY <1>6 DEF Outcome
  <2>. QED
    BY <1>1, <1>2, <1>6, <2>1 DEF Promise!Judges
<1>. QED
  BY <1>3, <1>4, <1>5, <1>6

LEMMA PolicyNotIdle ==
  ASSUME NEW c \in Config
  PROVE  PolicyOf(c) # Nothing
BY SettingsAssumption DEF PolicyOf, Config

LEMMA PolicyAgreed ==
  TypeOK /\ ConsentInv => PolicyOf(cfg) \in agreed \cup {NoTarget}
BY BackedIsAgreed DEF TypeOK, ConsentInv, PolicyOf

LEMMA PolicyAgreedNext ==
  ASSUME TypeOK', ConsentInv'
  PROVE  PolicyOf(cfg') \in agreed' \cup {NoTarget}
<1>1. (PolicyOf(cfg) \in agreed \cup {NoTarget})'
  BY PolicyAgreed, PTL
<1>. QED
  BY <1>1 DEF PolicyOf, PolicyConfirmed

(* Whatever people and the tray do leaves the device and the pass alone,   *)
(* and they pause monitoring in no step that does more.                    *)
LEMMA DecidesStep ==
  ASSUME TypeOK, TypeOK', ConsentInv', [Next]_vars, UNCHANGED <<pass, device>>, paused' \in {paused, FALSE}
  PROVE  Promise!Decides
<1>1. agreed \subseteq agreed' /\ agreed' \in SUBSET Targets
  BY AgreedStays DEF TypeOK
<1>2. \E more \in SUBSET Targets : agreed' = agreed \cup more
  BY <1>1
<1>3. PolicyOf(cfg') \in agreed' \cup {NoTarget}
  BY PolicyAgreedNext
<1>4. PolicyOf(cfg)' = PolicyOf(cfg')
  BY DEF PolicyOf, PolicyConfirmed
<1>5. UNCHANGED IF pass = Nothing THEN Nothing ELSE PolicyOf(pass)
  BY DEF PolicyOf, PolicyConfirmed
<1>. QED
  BY <1>2, <1>3, <1>4, <1>5 DEF Promise!Decides

LEMMA ConsentStep ==
  ASSUME TypeOK, TypeOK', ConsentInv', [Next]_vars
  PROVE  [Promise!ConsentNext]_(Promise!consent)
<1>1. cfg \in Config /\ pass \in Config \cup {Nothing} /\ device \in {"on", "off"}
  BY DEF TypeOK
<1>2. ASSUME UNCHANGED <<pass, device>>, paused' \in {paused, FALSE} PROVE Promise!ConsentNext
  BY <1>2, DecidesStep DEF Promise!ConsentNext
<1>3. CASE PassBegins
  <2>1. pass = Nothing /\ ~paused /\ pass' = cfg /\ UNCHANGED <<agreed, cfg, paused, device>>
    BY <1>3 DEF PassBegins
  <2>2. pass' # Nothing
    BY <1>1, <2>1, NothingAssumption
  <2>. QED
    BY <2>1, <2>2 DEF Promise!ConsentNext, Promise!PassBegins, PolicyOf, PolicyConfirmed
<1>4. CASE PassEnds
  <2>1. pass # Nothing /\ ScanUnlessPaused(pass, FALSE) /\ pass' = Nothing /\ UNCHANGED <<agreed, cfg, paused>>
    BY <1>4 DEF PassEnds
  <2>2. PolicyOf(pass) # Nothing
    BY <1>1, <2>1, PolicyNotIdle
  <2>3. UNCHANGED PolicyOf(cfg)
    BY <2>1 DEF PolicyOf, PolicyConfirmed
  <2>4. IF paused THEN UNCHANGED device ELSE Promise!Judges(PolicyOf(pass))
    BY <1>1, <2>1, ScanJudges DEF ScanUnlessPaused
  <2>. QED
    BY <2>1, <2>2, <2>3, <2>4 DEF Promise!ConsentNext, Promise!PassEnds
<1>5. CASE ConfigurePass /\ ~paused
  <2>1. pass = Nothing /\ ~paused /\ Scan(cfg, TRUE) /\ UNCHANGED <<pass, agreed, cfg, paused>>
    BY <1>5 DEF ConfigurePass, ScanUnlessPaused
  <2>2. Promise!Judges(PolicyOf(cfg))
    BY <1>1, <2>1, ScanJudges
  <2>3. UNCHANGED PolicyOf(cfg) /\ UNCHANGED IF pass = Nothing THEN Nothing ELSE PolicyOf(pass)
    BY <2>1 DEF PolicyOf, PolicyConfirmed
  <2>. QED
    BY <2>1, <2>2, <2>3 DEF Promise!ConsentNext, Promise!ConfigurePass
<1>6. CASE ConfigurePass /\ paused
  BY <1>2, <1>6 DEF ConfigurePass, ScanUnlessPaused
<1>7. CASE Pause
  <2>1. paused' = TRUE /\ UNCHANGED <<agreed, cfg, pass, device>>
    BY <1>7 DEF Pause
  <2>2. UNCHANGED PolicyOf(cfg) /\ UNCHANGED IF pass = Nothing THEN Nothing ELSE PolicyOf(pass)
    BY <2>1 DEF PolicyOf, PolicyConfirmed
  <2>. QED
    BY <2>1, <2>2 DEF Promise!ConsentNext, Promise!Pauses
<1>8. CASE Reload
  BY <1>2, <1>8 DEF Reload
<1>. QED
  BY <1>2, <1>3, <1>4, <1>5, <1>6, <1>7, <1>8
   DEF Next, Host, People, vars, ServeStatus, ServeAnalyze, ServeConfigure, ReadsConfig, ReadsStatus, Sends,
   HandEdit, CliReads, CliConfigures, LinkLost, Edit, Revert, Apply, Answer, Connects, host

(* While nobody switches the standardization on by hand, the service, the  *)
(* tray, the page, the console and everything on its way between them keep *)
(* the promise of Consent, for every set of formats and every driver.      *)
THEOREM KeepsConsent ==
  ASSUME "std" \notin HandEdits
  PROVE  Spec => ImplementsConsent
<1>1. Init => Promise!ConsentInit
  BY DEF Init, Promise!ConsentInit, PolicyOf, PolicyConfirmed, DefaultConfig
<1>2. TypeOK /\ TypeOK' /\ ConsentInv' /\ [Next]_vars => [Promise!ConsentNext]_(Promise!consent)
  BY ConsentStep
<1>3. Spec => [](TypeOK /\ ConsentInv)
  BY Inductive
<1>. QED
  BY <1>1, <1>2, <1>3, PTL DEF Spec, ImplementsConsent, Promise!ConsentSpec

=============================================================================
