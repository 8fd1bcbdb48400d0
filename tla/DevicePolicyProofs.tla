-------------------------- MODULE DevicePolicyProofs --------------------------
(***************************************************************************)
(* Proofs about DevicePolicy for every set of configurations and formats,  *)
(* every limit and window.                                                 *)
(***************************************************************************)
EXTENDS DevicePolicy, TLAPS

(* What the operators on ages return.                                      *)
LEMMA AgesTypes ==
  ASSUME NEW n \in Nat
  PROVE  /\ Long(n) \in Ages(n)
         /\ \A a \in Ages(n) : Push(a) \in Ages(n) /\ Older(a) \in Ages(n)
<1>. USE PolicyAssumption DEF Ages
<1>1. Long(n) \in Ages(n)
  BY DEF Long
<1>2. ASSUME NEW a \in Ages(n) PROVE Push(a) \in Ages(n)
  BY <1>2 DEF Push
<1>3. ASSUME NEW a \in Ages(n) PROVE Older(a) \in Ages(n)
  BY <1>3 DEF Older
<1>. QED
  BY <1>1, <1>2, <1>3

(* The operators on records return records.                                *)
LEMMA RecordTypes ==
  /\ NoRecord \in Records
  /\ \A r \in Records : /\ ResetHistory(r) \in Records
                        /\ [r EXCEPT !.disabled = FALSE] \in Records
                        /\ [r EXCEPT !.disabled = FALSE, !.left = TRUE] \in Records
                        /\ [r EXCEPT !.history = Older(@)] \in Records
                        /\ [present |-> TRUE, disabled |-> TRUE, left |-> FALSE,
                            history |-> Push(r.history)] \in Records
<1>1. MaxDisables \in Nat
  BY PolicyAssumption
<1>2. /\ Long(MaxDisables) \in Ages(MaxDisables)
      /\ \A a \in Ages(MaxDisables) : /\ Push(a) \in Ages(MaxDisables)
                                      /\ Older(a) \in Ages(MaxDisables)
  BY <1>1, AgesTypes
<1>3. NoRecord \in Records
  BY <1>2 DEF NoRecord, Records
<1>4. ASSUME NEW r \in Records
      PROVE  /\ [r EXCEPT !.disabled = FALSE] \in Records
             /\ [r EXCEPT !.disabled = FALSE, !.left = TRUE] \in Records
             /\ [r EXCEPT !.history = Older(@)] \in Records
             /\ [present |-> TRUE, disabled |-> TRUE, left |-> FALSE,
                 history |-> Push(r.history)] \in Records
  BY <1>2 DEF Records
<1>5. ASSUME NEW r \in Records PROVE ResetHistory(r) \in Records
  BY <1>2, <1>3 DEF Records, ResetHistory
<1>. QED
  BY <1>3, <1>4, <1>5

LEMMA TypeInit == Init => TypeOK
<1>1. NoRecord \in Records
  BY RecordTypes
<1>2. Long(MaxDisables + 1) \in Ages(MaxDisables + 1)
  BY PolicyAssumption, AgesTypes
<1>. QED
  BY <1>1, <1>2 DEF Init, TypeOK

(* Every variable keeps its type.                                          *)
LEMMA TypeStep ==
  ASSUME TypeOK, [Next]_vars
  PROVE  TypeOK'
<1>. USE PolicyAssumption DEF TypeOK, windows, settings, pass, Critical
<1>1. NoRecord \in Records
  BY RecordTypes
<1>2. Long(MaxDisables + 1) \in Ages(MaxDisables + 1)
  BY AgesTypes
<1>3. ASSUME NEW k \in {"full", "triggered"}, StartPass(k) PROVE TypeOK'
  BY <1>3 DEF StartPass, Begin
<1>4. ASSUME CommandPass PROVE TypeOK'
  BY <1>4 DEF CommandPass, Begin
<1>5. ASSUME \/ BreaksOff \/ Enumerate \/ Lookup \/ JudgeDisabled
             \/ JudgeIncompatible \/ PutBack \/ Check
      PROVE  TypeOK'
  BY <1>1, <1>5 DEF BreaksOff, Enumerate, Lookup, JudgeDisabled,
     JudgeIncompatible, PutBack, Check, EndPass, Goto
<1>22. CASE JudgeNothing \/ Refused
  <2>1. failed' \in BOOLEAN
    BY <1>22, Zenon DEF JudgeNothing, Refused
  <2>. QED
    BY <1>1, <1>22, <2>1 DEF JudgeNothing, Refused, EndPass
<1>6. CASE JudgeOk
  BY <1>1, <1>6 DEF JudgeOk, EndPass
<1>7. CASE Decide
  <2>1. mine' \in Records
    BY <1>7, RecordTypes DEF Decide
  <2>. QED
    BY <1>7, <2>1 DEF Decide, Goto
<1>8. CASE Disable \/ Enable
  BY <1>8 DEF Disable, Enable, Goto
<1>9. CASE Verify
  <2>1. strikes' \in Ages(MaxDisables + 1)
    BY <1>9, AgesTypes DEF Verify
  <2>. QED
    BY <1>1, <1>9, <2>1 DEF Verify, EndPass
<1>11. CASE VerifyOn
  BY <1>1, <1>11 DEF VerifyOn, EndPass
<1>12. CASE NotVerified
  BY <1>1, <1>12 DEF NotVerified, EndPass
<1>13. ASSUME NEW c \in Configs, NEW rest \in SUBSET {"reset", "pass", "passing"},
              SetConfig(c, rest), UNCHANGED <<windows, rec, pass>>, file' \in Configs
       PROVE  TypeOK'
  <2>1. strikes' \in Ages(MaxDisables + 1)
    BY <1>2, <1>13 DEF SetConfig
  <2>2. command' \in SUBSET {"reset", "pass", "passing"}
    BY <1>13 DEF SetConfig
  <2>. QED
    BY <1>13, <2>1, <2>2 DEF SetConfig
<1>14. CASE Configure
  BY <1>13, <1>14 DEF Configure
<1>15. CASE Reload
  BY <1>13, <1>15 DEF Reload
<1>10. CASE StartOver
  <2>1. rec' \in Records
    BY <1>10, RecordTypes DEF StartOver
  <2>. QED
    BY <1>2, <1>10, <2>1 DEF StartOver
<1>16. CASE CommandPaused
  BY <1>16 DEF CommandPaused
<1>17. CASE EnableDevice
  <2>1. rec' \in Records
    BY <1>17, RecordTypes DEF EnableDevice
  <2>. QED
    BY <1>17, <2>1 DEF EnableDevice
<1>18. CASE Tick
  <2>1. rec' \in Records
    BY <1>18, RecordTypes DEF Tick
  <2>2. strikes' \in Ages(MaxDisables + 1)
    BY <1>18, AgesTypes DEF Tick
  <2>. QED
    BY <1>18, <2>1, <2>2 DEF Tick
<1>19. CASE Restart
  BY <1>1, <1>2, <1>19 DEF Restart
<1>20. CASE UserDisables \/ ComesBack \/ PlugChanges \/ EditFile \/ BackoffEnds
  <2>1. failed' \in BOOLEAN
    BY <1>20, Zenon DEF UserDisables, ComesBack, PlugChanges, EditFile, BackoffEnds
  <2>. QED
    BY <1>20, <2>1 DEF UserDisables, ComesBack, PlugChanges, EditFile, BackoffEnds
<1>21. CASE UNCHANGED vars
  BY <1>21 DEF vars
<1>. QED
  BY <1>3, <1>4, <1>5, <1>6, <1>7, <1>8, <1>9, <1>10, <1>11, <1>12, <1>14, <1>15, <1>16,
     <1>17, <1>18, <1>19, <1>20, <1>21, <1>22 DEF Next, PassStep, World

(* ASSUME clause shared below: the steps that leave the settings, the      *)
(* records and the pass in progress alone.                                 *)
Elsewhere == UserDisables \/ ComesBack \/ PlugChanges \/ EditFile \/ BackoffEnds
             \/ CommandPaused \/ UNCHANGED vars

LEMMA ElsewhereKeeps ==
  Elsewhere => UNCHANGED <<rec, config, pass, strikes>>
BY DEF Elsewhere, UserDisables, ComesBack, PlugChanges, EditFile, BackoffEnds,
   CommandPaused, vars, windows, settings, pass

(* The user's choice is kept: whoever makes it waits for the pass.         *)
LEMMA ChoiceStep ==
  ASSUME TypeOK, ChoiceInv, [Next]_vars
  PROVE  ChoiceInv'
<1>. USE DEF ChoiceInv, settings, pass
<1>1. ASSUME \/ \E k \in {"full", "triggered"} : StartPass(k)
             \/ CommandPass \/ BreaksOff \/ Enumerate \/ Lookup \/ JudgeDisabled
             \/ JudgeOk \/ JudgeNothing \/ JudgeIncompatible \/ PutBack \/ Verify
             \/ Enable \/ VerifyOn \/ Refused \/ NotVerified \/ Tick \/ Restart
      PROVE  ChoiceInv'
  <2>1. pc' \notin {"check", "disable", "verify", "putBack"}
    BY <1>1 DEF StartPass, Begin, CommandPass, BreaksOff, Enumerate, Lookup,
       JudgeDisabled, JudgeOk, JudgeNothing, JudgeIncompatible, PutBack, Verify,
       Enable, VerifyOn, Refused, NotVerified, Tick, Restart, EndPass, Goto
  <2>. QED
    BY <2>1
<1>2. CASE Decide
  <2>1. CASE rec.left \/ rec.history[MaxDisables] < Window
    <3>1. rec' = rec /\ pc' = "putBack" /\ mine' = [rec EXCEPT !.disabled = FALSE]
      BY <1>2, <2>1 DEF Decide, Goto
    <3>2. [rec EXCEPT !.disabled = FALSE].left = rec.left
      BY DEF TypeOK, Records
    <3>. QED
      BY <3>1, <3>2
  <2>2. CASE ~(rec.left \/ rec.history[MaxDisables] < Window)
    BY <1>2, <2>2 DEF Decide, Goto
  <2>. QED
    BY <2>1, <2>2
<1>3. CASE Check \/ Disable
  <2>1. rec' = rec /\ pc \in {"check", "disable"}
    BY <1>3 DEF Check, Disable
  <2>2. pc' = "idle" \/ (pc' \in {"disable", "verify"} /\ mine' = mine)
    BY <1>3 DEF Check, Disable, EndPass, Goto
  <2>. QED
    BY <2>1, <2>2
<1>4. CASE StartOver
  <2>1. rec' = ResetHistory(rec) /\ ~ResetHistory(rec).left
    BY <1>4 DEF StartOver, ResetHistory, NoRecord, TypeOK, Records
  <2>. QED
    BY <1>4, <2>1 DEF StartOver
<1>5. CASE Configure \/ Reload
  BY <1>5 DEF Configure, Reload
<1>6. CASE EnableDevice
  BY <1>6 DEF EnableDevice, Critical
<1>7. CASE Elsewhere
  BY <1>7, ElsewhereKeeps
<1>. QED
  BY <1>1, <1>2, <1>3, <1>4, <1>5, <1>6, <1>7 DEF Next, PassStep, World, Elsewhere

(* A pass holds on to the configuration it began with, and nothing is      *)
(* disabled for a policy that was set while it ran.                        *)
LEMMA PassInvStep ==
  ASSUME TypeOK, PassInv, [Next]_vars
  PROVE  PassInv'
<1>. USE DEF PassInv, Disabling, Unused, settings, pass
<1>1. ASSUME NEW k, Begin(k) PROVE PassInv'
  BY <1>1 DEF Begin
<1>2. CASE \E k \in {"full", "triggered"} : StartPass(k)
  BY <1>1, <1>2 DEF StartPass
<1>3. CASE CommandPass
  BY <1>1, <1>3 DEF CommandPass
<1>4. ASSUME \/ BreaksOff \/ JudgeOk \/ JudgeNothing \/ PutBack \/ Verify
             \/ VerifyOn \/ Refused \/ NotVerified \/ Tick \/ Restart
      PROVE  PassInv'
  <2>1. pc' = "idle"
    BY <1>4 DEF BreaksOff, JudgeOk, JudgeNothing, PutBack, Verify, VerifyOn, Refused,
       NotVerified, Tick, Restart, EndPass
  <2>. QED
    BY <2>1
<1>5. ASSUME \/ Enumerate \/ Lookup \/ JudgeDisabled \/ JudgeIncompatible \/ Decide
             \/ Check \/ Disable \/ Enable
      PROVE  PassInv'
  <2>1. config' = config /\ strikes' = strikes /\ pc # "idle" /\ (pc' = "idle" \/ cfg' = cfg)
    BY <1>5 DEF Enumerate, Lookup, JudgeDisabled, JudgeIncompatible, Decide, Check, Disable,
       Enable, EndPass, Goto
  <2>2. /\ pc' \in Disabling => Wanted(cfg)
        /\ pc' \in {"enable", "verifyOn"} => ~Wanted(cfg)
    BY <1>5 DEF Enumerate, Lookup, JudgeDisabled, JudgeIncompatible, Decide, Check, Disable,
       Enable, EndPass, Goto
  <2>. QED
    BY <2>1, <2>2
<1>6. ASSUME NEW c, NEW rest, SetConfig(c, rest), UNCHANGED <<pc, cfg>> PROVE PassInv'
  BY <1>6 DEF SetConfig
<1>7. CASE Configure \/ Reload
  BY <1>6, <1>7 DEF Configure, Reload
<1>10. CASE StartOver
  BY <1>10 DEF StartOver
<1>8. CASE EnableDevice
  BY <1>8 DEF EnableDevice
<1>9. CASE Elsewhere
  BY <1>9, ElsewhereKeeps
<1>. QED
  BY <1>2, <1>3, <1>4, <1>5, <1>7, <1>8, <1>9, <1>10 DEF Next, PassStep, World, Elsewhere

LEMMA WantedByPolicy ==
  ASSUME NEW a, NEW b, Policy(a) = Policy(b)
  PROVE  Wanted(a) <=> Wanted(b)
<1>1. /\ Policy(a).std = Policy(b).std /\ Policy(a).target = Policy(b).target
      /\ Policy(a).disable = Policy(b).disable
      /\ Policy(a).confirmedFor = Policy(b).confirmedFor
  OBVIOUS
<1>2. a.std = b.std /\ a.target = b.target /\ a.disable = b.disable
      /\ a.confirmedFor = b.confirmedFor
  BY <1>1 DEF Policy
<1>. QED
  BY <1>2 DEF Wanted, Confirmed

(* No age exceeds the window, so an unused policy dominates any history.   *)
LEMMA UnusedDominates ==
  ASSUME TypeOK, Unused
  PROVE  /\ \A i \in 1..(MaxDisables + 1) : strikes[i] = Window
         /\ \A i \in 1..MaxDisables : rec.history[i] <= strikes[i]
<1>1. \A i \in 1..(MaxDisables + 1) : strikes[i] = Window
  BY DEF Unused, Long
<1>2. \A i \in 1..MaxDisables : rec.history[i] \in 0..Window /\ i \in 1..(MaxDisables + 1)
  BY PolicyAssumption DEF TypeOK, Records, Ages
<1>. QED
  BY <1>1, <1>2, PolicyAssumption

(* The history, or the copy the pass writes back, keeps every disable.     *)
LEMMA HistoryStep ==
  ASSUME TypeOK, PassInv, HistoryInv, NoLoop, [Next]_vars
  PROVE  HistoryInv' /\ NoLoop'
<1>. USE PolicyAssumption DEF HistoryInv, NoLoop, settings, pass
<1>0. /\ MaxDisables \in Nat /\ MaxDisables >= 1 /\ Window \in Nat
      /\ \A i \in 1..MaxDisables : /\ rec.history[i] \in 0..Window
                                   /\ mine.history[i] \in 0..Window
      /\ \A i \in 1..(MaxDisables + 1) : strikes[i] \in 0..Window
      /\ DOMAIN strikes = 1..(MaxDisables + 1)
      /\ DOMAIN rec.history = 1..MaxDisables
  BY DEF TypeOK, Records, Ages
<1>1. ASSUME \/ \E k \in {"full", "triggered"} : StartPass(k)
             \/ CommandPass \/ BreaksOff \/ Enumerate \/ Lookup \/ JudgeDisabled
             \/ JudgeNothing \/ JudgeIncompatible \/ Enable \/ Refused \/ NotVerified
      PROVE  HistoryInv' /\ NoLoop'
  <2>1. /\ rec' = rec /\ config' = config /\ strikes' = strikes
        /\ pc' \notin {"putBack", "check", "disable", "verify"}
    BY <1>1 DEF StartPass, Begin, CommandPass, BreaksOff, Enumerate, Lookup,
       JudgeDisabled, JudgeNothing, JudgeIncompatible, Enable, Refused, NotVerified, EndPass, Goto
  <2>. QED
    BY <2>1
<1>2. ASSUME ~Wanted(cfg), pc # "idle", Wanted(config) PROVE Unused
  BY <1>2, WantedByPolicy DEF PassInv
<1>3. CASE JudgeOk \/ VerifyOn
  <2>1. config' = config /\ strikes' = strikes /\ pc' = "idle" /\ pc # "idle" /\ ~Wanted(cfg)
    BY <1>3 DEF JudgeOk, VerifyOn, EndPass, PassInv, Wanted, Confirmed
  <2>2. rec' \in Records
    BY <1>3, RecordTypes DEF JudgeOk, VerifyOn, TypeOK
  <2>3. \A i \in 1..MaxDisables : rec'.history[i] \in 0..Window
    BY <2>2 DEF Records, Ages
  <2>4. Wanted(config) => \A i \in 1..MaxDisables : rec'.history[i] <= strikes[i]
    BY <1>0, <1>2, <2>1, <2>3, UnusedDominates
  <2>. QED
    BY <2>1, <2>4
<1>4. CASE Decide
  <2>1. /\ rec' = rec /\ config' = config /\ strikes' = strikes /\ Wanted(cfg)
        /\ pc # "idle" /\ pc' \notin {"disable", "verify"}
    BY <1>4 DEF Decide, Goto, PassInv, Disabling
  <2>2. \A i \in 1..MaxDisables : rec.history[i] <= strikes[i]
    BY <2>1, UnusedDominates, WantedByPolicy DEF PassInv
  <2>3. ASSUME pc' = "putBack" PROVE mine'.history = rec.history
    <3>1. mine' = [rec EXCEPT !.disabled = FALSE]
      BY <1>4, <2>3 DEF Decide, Goto
    <3>. QED
      BY <3>1 DEF TypeOK, Records
  <2>4. ASSUME pc' = "check"
        PROVE  /\ mine'.history = Push(rec.history)
               /\ rec.history[MaxDisables] = Window
    BY <1>0, <1>4, <2>4 DEF Decide, Goto
  <2>5. ASSUME pc' = "check"
        PROVE  /\ mine'.history[1] = 0
               /\ \A i \in 2..MaxDisables : mine'.history[i] <= strikes[i - 1]
               /\ strikes[MaxDisables] = Window
    <3>1. Push(rec.history)[1] = 0
      BY <1>0 DEF Push
    <3>2. \A i \in 2..MaxDisables : /\ Push(rec.history)[i] = rec.history[i - 1]
                                    /\ i - 1 \in 1..MaxDisables
      BY <1>0 DEF Push
    <3>3. strikes[MaxDisables] = Window
      BY <1>0, <2>2, <2>4, <2>5
    <3>. QED
      BY <2>2, <2>4, <2>5, <3>1, <3>2, <3>3
  <2>. QED
    BY <2>1, <2>2, <2>3, <2>5
<1>5. CASE PutBack
  <2>1. /\ rec' = mine /\ config' = config /\ strikes' = strikes
        /\ pc = "putBack" /\ pc' = "idle"
    BY <1>5 DEF PutBack, EndPass
  <2>. QED
    BY <2>1
<1>6. CASE Check
  <2>1. /\ rec' = rec /\ config' = config /\ strikes' = strikes /\ pc = "check"
        /\ pc' = "idle" \/ (pc' = "disable" /\ mine' = mine)
    BY <1>6 DEF Check, EndPass, Goto
  <2>. QED
    BY <2>1
<1>7. CASE Disable
  <2>1. /\ rec' = rec /\ config' = config /\ strikes' = strikes /\ pc = "disable"
        /\ pc' = "verify" /\ mine' = mine
    BY <1>7 DEF Disable, Goto
  <2>. QED
    BY <2>1
<1>8. CASE Verify
  <2>1. /\ rec' = mine /\ config' = config /\ strikes' = Push(strikes)
        /\ pc = "verify" /\ pc' = "idle" /\ Wanted(cfg)
    BY <1>8 DEF Verify, EndPass, PassInv, Disabling
  <2>2. /\ strikes'[1] = 0
        /\ \A i \in 2..(MaxDisables + 1) : strikes'[i] = strikes[i - 1] /\ i - 1 \in 1..MaxDisables
    BY <1>0, <2>1 DEF Push
  <2>3. \A i \in 1..MaxDisables : mine.history[i] <= strikes'[i]
    BY <1>0, <2>1, <2>2
  <2>4. strikes'[MaxDisables + 1] = Window
    BY <1>0, <2>1, <2>2
  <2>5. ASSUME ~Wanted(config) PROVE \A i \in 2..(MaxDisables + 1) : strikes'[i] = Window
    <3>1. Unused
      BY <2>1, <2>5, WantedByPolicy DEF PassInv
    <3>2. \A i \in 1..(MaxDisables + 1) : strikes[i] = Window
      BY <3>1, UnusedDominates
    <3>. QED
      BY <1>0, <2>2, <3>2
  <2>. QED
    BY <2>1, <2>3, <2>4, <2>5
<1>9. CASE Tick
  <2>1. /\ rec' = [rec EXCEPT !.history = Older(@)] /\ strikes' = Older(strikes)
        /\ config' = config /\ pc' = "idle"
    BY <1>9 DEF Tick
  <2>2. rec'.history = Older(rec.history)
    BY <2>1 DEF TypeOK, Records
  <2>3. \A i \in 1..MaxDisables :
          rec'.history[i] = IF rec.history[i] < Window THEN rec.history[i] + 1 ELSE Window
    BY <1>0, <2>2 DEF Older
  <2>4. \A i \in 1..(MaxDisables + 1) :
          strikes'[i] = IF strikes[i] < Window THEN strikes[i] + 1 ELSE Window
    BY <1>0, <2>1 DEF Older
  <2>5. \A i \in 1..MaxDisables : i \in 1..(MaxDisables + 1)
    BY <1>0
  <2>6. ASSUME Wanted(config), NEW i \in 1..MaxDisables PROVE rec'.history[i] <= strikes'[i]
    <3>1. rec.history[i] <= strikes[i]
      BY <2>6
    <3>. QED
      BY <1>0, <2>3, <2>4, <2>5, <3>1
  <2>7. strikes'[MaxDisables + 1] = Window
    BY <1>0, <2>4
  <2>8. ASSUME ~Wanted(config), NEW i \in 2..(MaxDisables + 1) PROVE strikes'[i] = Window
    <3>1. strikes[i] = Window /\ i \in 1..(MaxDisables + 1)
      BY <1>0, <2>8
    <3>. QED
      BY <1>0, <2>4, <3>1
  <2>. QED
    BY <2>1, <2>6, <2>7, <2>8
<1>10. ASSUME strikes' = Long(MaxDisables + 1), rec' \in Records,
              pc' = "idle" \/ (pc' = pc /\ mine' = mine)
       PROVE  HistoryInv' /\ NoLoop'
  <2>1. \A i \in 1..(MaxDisables + 1) : strikes'[i] = Window
    BY <1>10 DEF Long
  <2>2. \A i \in 1..MaxDisables : rec'.history[i] \in 0..Window
    BY <1>10 DEF Records, Ages
  <2>3. \A i \in 1..MaxDisables : strikes'[i] = Window
    BY <1>0, <2>1
  <2>4. \A i \in 2..MaxDisables : i - 1 \in 1..MaxDisables /\ i \in 1..MaxDisables
    BY <1>0
  <2>5. MaxDisables \in 1..MaxDisables /\ MaxDisables + 1 \in 1..(MaxDisables + 1)
    BY <1>0
  <2>6. \A i \in 2..(MaxDisables + 1) : strikes'[i] = Window
    BY <1>0, <2>1
  <2>7. \A i \in 1..MaxDisables : rec'.history[i] <= strikes'[i] /\ mine.history[i] <= strikes'[i]
    BY <1>0, <2>2, <2>3
  <2>8. \A i \in 2..MaxDisables : mine.history[i] <= strikes'[i - 1]
    BY <1>0, <2>3, <2>4
  <2>. QED
    BY <1>10, <2>1, <2>3, <2>5, <2>6, <2>7, <2>8
<1>11. ASSUME NEW c, NEW rest, SetConfig(c, rest), UNCHANGED <<rec, pass>>
       PROVE  HistoryInv' /\ NoLoop'
  <2>1. CASE Policy(c) # Policy(config)
    BY <1>10, <1>11, <2>1 DEF SetConfig, TypeOK
  <2>2. CASE Policy(c) = Policy(config)
    BY <1>11, <2>2, WantedByPolicy DEF SetConfig
  <2>. QED
    BY <2>1, <2>2
<1>16. CASE StartOver
  BY <1>10, <1>16, RecordTypes DEF StartOver, TypeOK
<1>12. CASE Configure \/ Reload
  BY <1>11, <1>12 DEF Configure, Reload
<1>13. CASE Restart
  <2>1. CASE Policy(file) # Policy(config)
    <3>1. strikes' = Long(MaxDisables + 1) /\ rec' = rec /\ pc' = "idle"
      BY <1>13, <2>1 DEF Restart
    <3>. QED
      BY <1>10, <3>1 DEF TypeOK
  <2>2. CASE Policy(file) = Policy(config)
    <3>1. strikes' = strikes /\ rec' = rec /\ pc' = "idle" /\ config' = file
      BY <1>13, <2>2 DEF Restart
    <3>. QED
      BY <2>2, <3>1, WantedByPolicy
  <2>. QED
    BY <2>1, <2>2
<1>14. CASE EnableDevice
  <2>1. rec'.history = rec.history
    BY <1>14 DEF EnableDevice, TypeOK, Records
  <2>. QED
    BY <1>14, <2>1 DEF EnableDevice
<1>15. CASE Elsewhere
  BY <1>15, ElsewhereKeeps
<1>. QED
  BY <1>1, <1>3, <1>4, <1>5, <1>6, <1>7, <1>8, <1>9, <1>12, <1>13, <1>14, <1>15,
     <1>16 DEF Next, PassStep, World, Elsewhere

(* What Audioslave disabled is on record, if Windows answers and the       *)
(* service does not crash in the middle of a pass.                         *)
LEMMA OursStep ==
  ASSUME TypeOK, OursInv, [Next]_vars,
         "crash" \notin Faults, "unreadable" \notin Faults
  PROVE  OursInv'
<1>. USE DEF OursInv, windows, settings, pass
<1>1. ASSUME NEW k, Begin(k) PROVE OursInv'
  BY <1>1 DEF Begin
<1>2. CASE \E k \in {"full", "triggered"} : StartPass(k)
  BY <1>1, <1>2 DEF StartPass
<1>3. CASE CommandPass
  BY <1>1, <1>3 DEF CommandPass
<1>4. CASE BreaksOff \/ JudgeNothing \/ Refused
  BY <1>4 DEF BreaksOff, JudgeNothing, Refused, EndPass
<1>5. CASE Enumerate
  BY <1>5 DEF Enumerate
<1>6. CASE Lookup
  <2>1. /\ pc = "lookup" /\ UNCHANGED <<winState, disabler, rec>>
        /\ pc' = "idle" \/ (pc' = "judge" /\ seen' = IF rec.disabled /\ seen # "disabled"
                                                      THEN winState ELSE seen)
    BY <1>6 DEF Lookup, EndPass
  <2>. QED
    BY <2>1
<1>7. CASE JudgeDisabled
  BY <1>7 DEF JudgeDisabled, EndPass, Goto
<1>8. CASE JudgeOk
  BY <1>8 DEF JudgeOk, EndPass
<1>9. CASE JudgeIncompatible
  BY <1>9 DEF JudgeIncompatible, Goto
<1>10. CASE Decide
  <2>1. /\ pc = "decide" /\ UNCHANGED <<winState, disabler, rec>>
        /\ pc' = "putBack" \/ (pc' = "check" /\ mine'.disabled)
    BY <1>10 DEF Decide, Goto
  <2>. QED
    BY <2>1
<1>11. CASE PutBack
  BY <1>11 DEF PutBack, EndPass
<1>12. CASE Check
  BY <1>12 DEF Check, EndPass, Goto
<1>13. CASE Disable
  BY <1>13 DEF Disable, Goto
<1>14. CASE Verify
  BY <1>14 DEF Verify, EndPass
<1>15. CASE Enable
  BY <1>15 DEF Enable, Goto
<1>16. CASE VerifyOn
  BY <1>16 DEF VerifyOn, EndPass
<1>17. CASE NotVerified
  BY <1>17 DEF NotVerified, EndPass
<1>18. CASE StartOver
  <2>1. rec.disabled => rec'.disabled
    BY <1>18 DEF StartOver, ResetHistory, TypeOK, Records
  <2>. QED
    BY <1>18, <2>1 DEF StartOver
<1>19. CASE Configure \/ Reload
  BY <1>19 DEF Configure, Reload
<1>20. CASE EnableDevice
  BY <1>20 DEF EnableDevice, Critical
<1>21. CASE Tick
  <2>1. rec'.disabled = rec.disabled /\ pc' = pc /\ UNCHANGED <<winState, disabler>>
    BY <1>21 DEF Tick, TypeOK, Records
  <2>. QED
    BY <1>21, <2>1 DEF Tick
<1>22. CASE Restart
  BY <1>22 DEF Restart
<1>23. CASE Elsewhere
  BY <1>23 DEF Elsewhere, UserDisables, ComesBack, PlugChanges, EditFile, BackoffEnds,
     CommandPaused, vars
<1>. QED
  BY <1>2, <1>3, <1>4, <1>5, <1>6, <1>7, <1>8, <1>9, <1>10, <1>11, <1>12, <1>13, <1>14,
     <1>15, <1>16, <1>17, <1>18, <1>19, <1>20, <1>21, <1>22, <1>23
  DEF Next, PassStep, World, Elsewhere

LEMMA LoopInit == Init => LoopInv /\ ChoiceInv /\ OursInv
<1>. SUFFICES ASSUME Init PROVE LoopInv /\ ChoiceInv /\ OursInv
  OBVIOUS
<1>1. TypeOK
  BY TypeInit
<1>2. Unused /\ pc = "idle" /\ disabler = "nobody"
  BY DEF Init, Unused
<1>3. PassInv /\ ChoiceInv /\ OursInv
  BY <1>2 DEF PassInv, ChoiceInv, OursInv, Disabling
<1>4. HistoryInv /\ NoLoop
  BY <1>1, <1>2, UnusedDominates, PolicyAssumption DEF HistoryInv, NoLoop
<1>. QED
  BY <1>1, <1>3, <1>4 DEF LoopInv

(* In every behaviour: the types, and what the history remembers.          *)
THEOREM Inductive == Spec => []LoopInv
<1>1. Init => LoopInv
  BY LoopInit
<1>2. LoopInv /\ [Next]_vars => LoopInv'
  BY TypeStep, PassInvStep, HistoryStep DEF LoopInv
<1>. QED
  BY <1>1, <1>2, PTL DEF Spec

(* Every variable has its type in every reachable state.                   *)
THEOREM TypeCorrect == Spec => []TypeOK
<1>1. LoopInv => TypeOK
  BY DEF LoopInv
<1>. QED
  BY <1>1, Inductive, PTL

(* Loop protection holds for every limit and window, from one start of the *)
(* history to the next, whatever copies of the record passes write back,   *)
(* and even if the service crashes, before the reset that a new policy     *)
(* asks for or after it, or Windows does not answer (handleIncompatible,   *)
(* setConfig, resetHistory).                                               *)
THEOREM LoopProtection == Spec => []NoLoop
<1>1. LoopInv => NoLoop
  BY DEF LoopInv
<1>. QED
  BY <1>1, Inductive, PTL

(* In every behaviour: no choice is made between a pass's decision and its *)
(* record.                                                                 *)
LEMMA ChoiceIsInvariant == Spec => []ChoiceInv
<1>1. Init => ChoiceInv
  BY LoopInit
<1>2. TypeOK /\ ChoiceInv /\ [Next]_vars => ChoiceInv'
  BY ChoiceStep
<1>. QED
  BY <1>1, <1>2, TypeCorrect, PTL DEF Spec

(* A pass never disables what the user has just chosen to keep enabled     *)
(* (enableDevice, handleIncompatible).                                     *)
THEOREM ChoiceIsKept == Spec => []LeftEnabledKept
<1>1. ChoiceInv => LeftEnabledKept
  BY DEF ChoiceInv, LeftEnabledKept
<1>. QED
  BY <1>1, ChoiceIsInvariant, PTL

(* Without crashes and unreadable states, what Audioslave disabled is on   *)
(* record as disabled by it (handleIncompatible, DeviceStateStore).        *)
THEOREM NothingIsOrphaned ==
  ASSUME "crash" \notin Faults, "unreadable" \notin Faults
  PROVE  Spec => []OursIsRecorded
<1>1. Init => OursInv
  BY LoopInit
<1>2. TypeOK /\ OursInv /\ [Next]_vars => OursInv'
  BY OursStep
<1>3. OursInv => OursIsRecorded
  BY DEF OursInv, OursIsRecorded
<1>. QED
  BY <1>1, <1>2, <1>3, TypeCorrect, PTL DEF Spec

-----------------------------------------------------------------------------
(* The refinement of Restraint.                                            *)

Judged == IF pc = "idle" THEN NoConfig ELSE Policy(cfg)
Renewal == "reset" \in command
Space == {Policy(c) : c \in Configs}
Wants == {Policy(c) : c \in {d \in Configs : Wanted(d)}}

(* What the mapping makes of the abstract variables.                       *)
LEMMA WantsByPolicy ==
  ASSUME NEW c \in Configs
  PROVE  /\ Policy(c) \in Space
         /\ Policy(c) \in Wants <=> Wanted(c)
<1>1. ASSUME NEW d \in Configs, Wanted(d), Policy(d) = Policy(c) PROVE Wanted(c)
  BY <1>1, WantedByPolicy
<1>. QED
  BY <1>1 DEF Space, Wants

(* A step that leaves the settings and the record alone begins no pass; it *)
(* ends one or leaves it to run.                                           *)
Lasts == (pc # "idle" /\ pc' # "idle" /\ cfg' = cfg) \/ (pc = "idle" /\ pc' = "idle")

LEMMA JudgedLasts == Lasts => Judged' = Judged
BY DEF Lasts, Judged

LEMMA JudgedEnds == pc' = "idle" => Judged' = NoConfig
BY DEF Judged

(* The end of a pass is no end of a reset that is due.                     *)
LEMMA RenewalLasts == EndPass \/ command' = command => Renewal' = Renewal
BY DEF EndPass, Renewal

(* The steps of a pass that write nothing.                                 *)
LEMMA PassGoesOn ==
  ASSUME \/ BreaksOff \/ Enumerate \/ Lookup \/ JudgeDisabled \/ JudgeNothing \/ JudgeIncompatible
         \/ Decide \/ Check \/ Disable \/ Enable \/ Refused \/ NotVerified
  PROVE  /\ UNCHANGED <<config, rec, strikes>>
         /\ EndPass \/ command' = command
         /\ pc' = "idle" \/ Lasts
<1>. USE DEF settings, EndPass, Goto, Lasts
<1>1. CASE BreaksOff \/ Enumerate \/ Lookup \/ JudgeDisabled
  BY <1>1 DEF BreaksOff, Enumerate, Lookup, JudgeDisabled
<1>2. CASE JudgeNothing \/ JudgeIncompatible \/ Decide \/ Check
  BY <1>2 DEF JudgeNothing, JudgeIncompatible, Decide, Check
<1>3. CASE Disable \/ Enable \/ Refused \/ NotVerified
  BY <1>3 DEF Disable, Enable, Refused, NotVerified
<1>. QED
  BY <1>1, <1>2, <1>3

(* Every step is one of the abstract steps, or changes nothing of theirs.  *)
LEMMA RestraintStep ==
  ASSUME LoopInv, ChoiceInv, TypeOK', [Next]_vars
  PROVE  [Limits!RestraintNext]_(Limits!restraint)
<1>. DEFINE Goal == [Limits!RestraintNext]_(Limits!restraint)
<1>1. TypeOK /\ PassInv /\ HistoryInv
  BY DEF LoopInv
<1>2. /\ config \in Configs /\ file \in Configs /\ config' \in Configs /\ (pc # "idle" => cfg \in Configs)
      /\ rec \in Records /\ strikes \in Ages(MaxDisables + 1)
  BY <1>1 DEF TypeOK
<1>3. ASSUME UNCHANGED <<config, rec, strikes>>, Renewal' = Renewal, pc' = "idle" \/ Lasts PROVE Goal
  <2>1. CASE pc' = "idle"
    BY <1>3, <2>1 DEF Limits!RestraintNext, Limits!PassEnds, Renewal
  <2>2. CASE Lasts
    BY <1>3, <2>2 DEF Limits!restraint, Lasts, Renewal
  <2>. QED
    BY <1>3, <2>1, <2>2
<1>4. ASSUME NEW k, Begin(k), Renewal' = Renewal PROVE Goal
  BY <1>4 DEF Begin, Limits!RestraintNext, Limits!PassBegins, settings, Renewal
<1>15. CASE (\E k \in {"full", "triggered"} : StartPass(k)) \/ CommandPass
  <2>1. Renewal' = Renewal
    BY <1>15 DEF StartPass, CommandPass, Renewal
  <2>. QED
    BY <1>4, <1>15, <2>1 DEF StartPass, CommandPass
<1>5. CASE \/ BreaksOff \/ Enumerate \/ Lookup \/ JudgeDisabled \/ JudgeNothing \/ JudgeIncompatible
           \/ Decide \/ Check \/ Disable \/ Enable \/ Refused \/ NotVerified
  BY <1>3, <1>5, PassGoesOn, RenewalLasts
<1>6. CASE JudgeOk \/ VerifyOn
  <2>1. /\ UNCHANGED <<config, strikes>> /\ pc # "idle" /\ pc' = "idle"
        /\ rec' \in {rec, NoRecord} /\ Renewal' = Renewal
    BY <1>6, RenewalLasts DEF JudgeOk, VerifyOn, EndPass, settings
  <2>2. ~Wanted(cfg)
    BY <1>1, <1>6 DEF JudgeOk, VerifyOn, Wanted, PassInv
  <2>3. Policy(cfg) \in Space \ Wants
    BY <1>2, <2>1, <2>2, WantsByPolicy
  <2>4. CASE rec' = rec
    BY <1>3, <2>1, <2>4
  <2>5. CASE rec' = NoRecord
    BY <2>1, <2>3, <2>5 DEF Limits!RestraintNext, Limits!Forgets, NoRecord, Space, Wants, Renewal
  <2>. QED
    BY <2>1, <2>4, <2>5
<1>7. CASE PutBack
  <2>1. UNCHANGED <<config, strikes>> /\ pc' = "idle" /\ rec' = mine /\ Renewal' = Renewal
    BY <1>7, RenewalLasts DEF PutBack, EndPass, settings
  <2>2. mine.left \in BOOLEAN /\ rec.left \in BOOLEAN
    BY <1>1 DEF TypeOK, Records
  <2>3. CASE mine.left
    BY <2>1, <2>2, <2>3 DEF Limits!RestraintNext, Limits!Keeps, Renewal
  <2>4. CASE ~mine.left
    <3>1. rec.left = mine.left
      BY <1>7, <2>2, <2>4 DEF PutBack, ChoiceInv
    <3>. QED
      BY <2>1, <3>1 DEF Limits!RestraintNext, Limits!PassEnds, Renewal
  <2>. QED
    BY <2>3, <2>4
<1>8. CASE Verify
  <2>1. /\ config' = config /\ pc = "verify" /\ pc' = "idle" /\ rec' = mine /\ strikes' = Push(strikes)
        /\ Renewal' = Renewal
    BY <1>8, RenewalLasts DEF Verify, EndPass, settings
  <2>2. Policy(cfg) \in Wants
    BY <1>1, <1>2, <2>1, WantsByPolicy DEF PassInv, Disabling
  <2>3. strikes[MaxDisables] = Window
    BY <1>1, <2>1 DEF HistoryInv
  <2>4. rec.left = FALSE /\ mine.left = FALSE
    BY <1>1, <2>1 DEF ChoiceInv, TypeOK, Records
  <2>5. Push(strikes) = [i \in 1..(MaxDisables + 1) |-> IF i = 1 THEN 0 ELSE strikes[i - 1]]
    BY <1>2 DEF Push, Ages
  <2>. QED
    BY <2>1, <2>2, <2>3, <2>4, <2>5 DEF Limits!RestraintNext, Limits!Disables, Wants, Renewal
<1>9. ASSUME NEW c \in Configs, NEW rest \in SUBSET {"pass"}, SetConfig(c, rest), command = {},
             rec' = rec, Lasts
      PROVE  Goal
  <2>1. CASE Policy(c) = Policy(config)
    <3>1. config' = c /\ strikes' = strikes /\ Renewal' = Renewal
      BY <1>9, <2>1 DEF SetConfig, Renewal
    <3>. QED
      BY <1>9, <2>1, <3>1 DEF Limits!restraint, Lasts, Renewal
  <2>2. CASE Policy(c) # Policy(config)
    <3>1. config' = c /\ strikes' = Long(MaxDisables + 1)
      BY <1>9, <2>2 DEF SetConfig
    <3>2. ~("reset" \in command) /\ "reset" \in command'
      BY <1>9, <2>2 DEF SetConfig
    <3>3. Policy(c) \in Space
      BY WantsByPolicy
    <3>4. Judged' = Judged
      BY <1>9, JudgedLasts
    <3>. QED
      BY <1>9, <2>2, <3>1, <3>2, <3>3, <3>4 DEF Limits!RestraintNext, Limits!SettingsChange, Limits!Never,
         Long, Space, Judged
  <2>. QED
    BY <2>1, <2>2
<1>10. CASE Configure \/ Reload
  <2>1. Lasts /\ rec' = rec /\ command = {}
    BY <1>10 DEF Configure, Reload, Lasts, pass
  <2>2. \E c \in Configs, rest \in SUBSET {"pass"} : SetConfig(c, rest)
    BY <1>2, <1>10 DEF Configure, Reload
  <2>. QED
    BY <1>9, <2>1, <2>2
<1>16. CASE StartOver
  <2>1. /\ config' = config /\ strikes' = Long(MaxDisables + 1) /\ rec' = ResetHistory(rec) /\ Lasts
        /\ "reset" \in command /\ ~("reset" \in command')
    BY <1>16 DEF StartOver, settings, pass, Lasts
  <2>2. ResetHistory(rec).left = FALSE
    BY <1>2 DEF ResetHistory, NoRecord, Records
  <2>3. Judged' = Judged
    BY <2>1, JudgedLasts
  <2>. QED
    BY <2>1, <2>2, <2>3 DEF Limits!RestraintNext, Limits!StartsOver, Limits!Never, Long, Judged
<1>11. CASE EnableDevice
  <2>1. UNCHANGED <<config, strikes>> /\ Lasts /\ Renewal' = Renewal
    BY <1>11 DEF EnableDevice, settings, pass, Lasts, Renewal
  <2>2. CASE rec.present
    <3>1. rec'.left = TRUE
      BY <1>2, <1>11, <2>2 DEF EnableDevice, Records
    <3>. QED
      BY <2>1, <3>1, JudgedLasts DEF Limits!RestraintNext, Limits!Keeps, Judged, Renewal
  <2>3. CASE ~rec.present
    BY <1>3, <1>11, <2>1, <2>3 DEF EnableDevice
  <2>. QED
    BY <2>2, <2>3
<1>12. CASE Elsewhere
  <2>1. UNCHANGED <<rec, config, strikes>> /\ Lasts
    BY <1>12, ElsewhereKeeps DEF Lasts, pass
  <2>2. Renewal' = Renewal
    BY <1>12 DEF Elsewhere, UserDisables, ComesBack, PlugChanges, EditFile, BackoffEnds, CommandPaused,
       vars, Renewal
  <2>. QED
    BY <1>3, <2>1, <2>2
<1>13. CASE Tick
  <2>1. UNCHANGED <<config, pc, cfg, command>> /\ rec' = [rec EXCEPT !.history = Older(@)] /\ strikes' = Older(strikes)
    BY <1>13 DEF Tick, settings, pass
  <2>2. rec'.left = rec.left
    BY <1>2, <2>1 DEF Records
  <2>3. Older(strikes) = [i \in 1..(MaxDisables + 1) |-> IF strikes[i] < Window THEN strikes[i] + 1 ELSE Window]
    BY <1>2 DEF Older, Ages
  <2>. QED
    BY <2>1, <2>2, <2>3 DEF Limits!RestraintNext, Limits!TimePasses
<1>14. CASE Restart
  <2>1. config' = file /\ rec' = rec /\ pc' = "idle" /\ ~("reset" \in command')
    BY <1>14 DEF Restart
  <2>2. CASE Policy(file) = Policy(config)
    BY <1>14, <2>1, <2>2 DEF Restart, Limits!RestraintNext, Limits!Restarts
  <2>3. CASE Policy(file) # Policy(config)
    <3>1. strikes' = Long(MaxDisables + 1) /\ Policy(file) \in Space
      BY <1>2, <1>14, <2>3, WantsByPolicy DEF Restart
    <3>. QED
      BY <2>1, <2>3, <3>1 DEF Limits!RestraintNext, Limits!SettingsChange, Limits!Never, Long, Space
  <2>. QED
    BY <2>2, <2>3
<1>. QED
  BY <1>5, <1>6, <1>7, <1>8, <1>10, <1>11, <1>12, <1>13, <1>14, <1>15, <1>16
     DEF Next, PassStep, World, Elsewhere

(* Whatever copies of the record passes write back, whatever the user,     *)
(* Windows, the drivers and hand edits do in between, and wherever the     *)
(* service crashes, the device is treated as Restraint says.               *)
THEOREM PolicyKeepsRestraint == Spec => ImplementsRestraint
<1>1. Init => Limits!RestraintInit
  <2>. SUFFICES ASSUME Init PROVE Limits!RestraintInit
    OBVIOUS
  <2>1. Policy(config) \in Space
    BY WantsByPolicy DEF Init
  <2>. QED
    BY <2>1 DEF Init, NoRecord, Long, Space, Limits!RestraintInit, Limits!Never
<1>2. LoopInv /\ ChoiceInv /\ TypeOK' /\ [Next]_vars => [Limits!RestraintNext]_(Limits!restraint)
  BY RestraintStep
<1>. QED
  BY <1>1, <1>2, Inductive, ChoiceIsInvariant, TypeCorrect, PTL
     DEF Spec, ImplementsRestraint, Limits!RestraintSpec
=============================================================================
