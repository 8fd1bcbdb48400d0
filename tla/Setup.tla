-------------------------------- MODULE Setup --------------------------------
(***************************************************************************)
(* The installer, the uninstaller and the service's registration: what     *)
(* they do to the installation folder, the SCM, the registry and the       *)
(* configuration, step by step, with a tray of another session that keeps  *)
(* the program's file in use, deletions that wait for the next start of    *)
(* Windows, a second stage that works from %TEMP% beside a new installer,  *)
(* and a restart of Windows between any two steps.                         *)
(*                                                                         *)
(* A file is in the folder or not, and a process runs from a file.  Which  *)
(* bytes a file holds is abstracted: a running program that is moved aside *)
(* runs from the name it was moved to, so a process that runs from "old"   *)
(* is the version before.                                                  *)
(***************************************************************************)
EXTENDS Integers

CONSTANTS
  Targets,        \* the formats that can be chosen
  DefaultTarget,  \* Config's default sample rate and bit depth
  NoTarget,       \* an empty DisableConfirmedFor
  NoFile,         \* config.ini does not exist
  FirstConfigs,   \* what config.ini may be at first
  Troubles,       \* what may go wrong: "slow" stop, "held" service handle, "io" errors
  Stubborn,       \* the files and entries that Windows may refuse to delete, or to schedule
  MaxPrograms,    \* installers and uninstallers started
  MaxCommands     \* commands typed in a console

ASSUME TargetsAssumption == DefaultTarget \in Targets /\ NoTarget \notin Targets

Config == [std: BOOLEAN, target: Targets, disable: BOOLEAN, confirmedFor: Targets \cup {NoTarget}]
ASSUME ConfigsAssumption == FirstConfigs \subseteq Config \cup {NoFile} /\ NoFile \notin Config

DefaultConfig == [std |-> FALSE, target |-> DefaultTarget, disable |-> FALSE, confirmedFor |-> NoTarget]

(* The files, and the processes that can keep one of them in use.          *)
Files == {"exe", "exe.old", "Uninstall", "copy"}
Programs == {"service", "tray", "stage1", "stage2"}

Options == [formatSet: BOOLEAN, format: BOOLEAN, target: Targets, disableSet: BOOLEAN, disable: BOOLEAN]
NoOptions == [formatSet |-> FALSE, format |-> FALSE, target |-> DefaultTarget, disableSet |-> FALSE, disable |-> FALSE]

NoRemover == [step |-> "idle", by |-> "stage1", data |-> FALSE, silent |-> FALSE, ok |-> TRUE]

InstallSteps == {"idle", "stop", "payload", "copy", "configure", "service", "register", "start"}
UninstallSteps == {"idle", "ask", "service", "registry", "files", "later", "end"}

VARIABLES
  disk,      \* files that exist
  scheduled, \* names that Windows deletes when it starts (MOVEFILE_DELAY_UNTIL_REBOOT)
  runs,      \* the file each process runs from, "none" without a process
  service,   \* "none", "installed" or "deleting" (marked for deletion)
  entries,   \* what the registry and the Start Menu hold: "run" and "apps"
  config,    \* config.ini
  agreed,    \* formats under which the user agreed to disable devices
  installer, \* next step of install(), on the wizard's worker or in a silent setup
  options,   \* its Options
  wizard,    \* the window: "none", "form", "asking", "running" or "done"
  remover,   \* next step of the uninstaller, and which stage runs it
  script,    \* the detached script of deleteSelfLater is running
  outcome,   \* what the last program reported: "installed", "removed", "failed"; "command" when
             \* a command changed the registration since, "none" while one works
  warned,    \* the installer wrote a warning to setup.log
  missed,    \* what the last uninstaller could not remove, Windows having refused
  undone,    \* an uninstaller worked since Windows started: "no", "before" or "beside" the last installer
  spent      \* programs and commands started

folder == <<disk, scheduled>>
registry == <<service, entries>>
programs == <<installer, options, wizard, remover, script>>
history == <<outcome, warned, missed, undone>>
vars == <<disk, scheduled, runs, service, entries, config, agreed, installer, options, wizard,
          remover, script, outcome, warned, missed, undone, spent>>

(* The type invariant.                                                     *)
TypeOK ==
  /\ disk \subseteq Files /\ scheduled \subseteq Files
  /\ runs \in [Programs -> Files \cup {"none"}]
  /\ service \in {"none", "installed", "deleting"} /\ entries \subseteq {"run", "apps"}
  /\ config \in Config \cup {NoFile} /\ agreed \subseteq Targets
  /\ installer \in InstallSteps /\ options \in Options
  /\ wizard \in {"none", "form", "asking", "running", "done"}
  /\ remover \in [step: UninstallSteps, by: {"stage1", "stage2"}, data: BOOLEAN, silent: BOOLEAN, ok: BOOLEAN]
  /\ script \in BOOLEAN /\ outcome \in {"none", "installed", "removed", "failed", "command"}
  /\ warned \in BOOLEAN /\ missed \subseteq Files \cup {"run", "apps"} /\ undone \in {"no", "before", "beside"}
  /\ spent \in [programs: Nat, commands: Nat]

Init ==
  /\ \E installed \in BOOLEAN :
       /\ disk = IF installed THEN {"exe", "Uninstall"} ELSE {}
       /\ runs = [p \in Programs |-> IF installed /\ p = "service" THEN "exe" ELSE "none"]
       /\ service = IF installed THEN "installed" ELSE "none"
       /\ entries = IF installed THEN {"run", "apps"} ELSE {}
  /\ config \in FirstConfigs
  /\ agreed = IF config = NoFile THEN {} ELSE {config.confirmedFor} \cap Targets
  /\ scheduled = {} /\ script = FALSE
  /\ installer = "idle" /\ options = NoOptions /\ wizard = "none"
  /\ remover = NoRemover
  /\ outcome = "none" /\ warned = FALSE /\ missed = {} /\ undone = "no"
  /\ spent = [programs |-> 0, commands |-> 0]

-----------------------------------------------------------------------------
(* Files, processes and the SCM                                            *)

InUse(file) == \E p \in Programs : runs[p] = file

(* What Windows may refuse to do, and no caller asks whether it did.       *)
MayRefuse(S) == SUBSET (S \cap Stubborn)

(* Mutant of DeleteOrSchedule.                                             *)
DeleteOnly(files) ==
  /\ disk' = {f \in disk : f \in files => InUse(f)}
  /\ UNCHANGED <<scheduled, missed>>

(* deleteOrSchedule: what is in use goes at the next start of Windows.  It *)
(* does not look at whether that was accepted.                             *)
DeleteOrSchedule(files) ==
  \E kept \in MayRefuse(disk \cap files) :
    LET left == kept \cup {f \in disk \cap files : InUse(f)} IN
      /\ disk' = (disk \ files) \cup left
      /\ \E refused \in MayRefuse(left) :
           /\ scheduled' = scheduled \cup (left \ refused)
           /\ missed' = missed \cup refused

(* scm::stop on a registered service: stopped already, stopped, or it does *)
(* not stop in time and goes on.                                           *)
Stops(ok) ==
  \/ runs' = [runs EXCEPT !["service"] = "none"] /\ ok
  \/ "slow" \in Troubles /\ runs["service"] # "none" /\ UNCHANGED runs /\ ~ok

(* scm::install: the registration is made or refreshed; one marked for     *)
(* deletion can be neither.                                                *)
Registers(ok) ==
  \/ service # "deleting" /\ service' = "installed" /\ ok
  \/ (service = "deleting" \/ "io" \in Troubles) /\ UNCHANGED service /\ ~ok

(* scm::uninstall: a stop that takes too long is ignored, and a service    *)
(* whose process or handles remain is only marked for deletion.            *)
Unregisters(ok) ==
  \/ service = "none" /\ UNCHANGED <<service, runs>> /\ ok
  \/ /\ service # "none"
     /\ \E stopped \in BOOLEAN : Stops(stopped)
     /\ \/ service' = "deleting" /\ (runs'["service"] # "none" \/ "held" \in Troubles) /\ ok
        \/ service' = (IF runs'["service"] = "none" THEN "none" ELSE "deleting") /\ ok
        \/ "io" \in Troubles /\ UNCHANGED service /\ ~ok

(* scm::start: a service that already runs is started.                     *)
Starts(ok) ==
  \/ service = "installed" /\ runs["service"] # "none" /\ UNCHANGED runs /\ ok
  \/ service = "installed" /\ runs["service"] = "none" /\ "exe" \in disk
     /\ runs' = [runs EXCEPT !["service"] = "exe"] /\ ok
  \/ (service # "installed" \/ "exe" \notin disk \/ "slow" \in Troubles) /\ UNCHANGED runs /\ ~ok

(* The service's process ends: a stop that took its time, or the tray's.   *)
ServiceEnds ==
  /\ runs["service"] # "none"
  /\ runs' = [runs EXCEPT !["service"] = "none"]
  /\ UNCHANGED <<folder, registry, config, agreed, programs, history, spent>>

(* The last handle of a deleted service closes.                            *)
DeletionEnds ==
  /\ service = "deleting" /\ runs["service"] = "none"
  /\ service' = "none"
  /\ UNCHANGED <<folder, runs, entries, config, agreed, programs, history, spent>>

(* A tray of any session, at logon or from the Start Menu, and its end.    *)
TrayStarts ==
  /\ runs["tray"] = "none" /\ "exe" \in disk
  /\ runs' = [runs EXCEPT !["tray"] = "exe"]
  /\ UNCHANGED <<folder, registry, config, agreed, programs, history, spent>>
TrayEnds ==
  /\ runs["tray"] # "none"
  /\ runs' = [runs EXCEPT !["tray"] = "none"]
  /\ UNCHANGED <<folder, registry, config, agreed, programs, history, spent>>

-----------------------------------------------------------------------------
(* install(): each step either goes on or ends it, and nothing done by     *)
(* then is undone.                                                         *)

OneProgram == installer = "idle" /\ wizard = "none" /\ runs["stage1"] = "none"

(* A setup that runs with /S: what parseOptions can make of its arguments. *)
SilentOptions ==
  {o \in Options : /\ ~o.formatSet => ~o.format
                   /\ ~o.format => o.target = DefaultTarget
                   /\ o.disableSet = o.disable}

Begins(o) ==
  /\ installer' = "stop" /\ options' = o
  /\ outcome' = "none" /\ warned' = FALSE
  /\ undone' = IF remover.step = "idle" THEN undone ELSE "beside"
  /\ UNCHANGED <<folder, runs, registry, config, remover, script, missed>>

SilentSetup ==
  /\ OneProgram /\ spent.programs < MaxPrograms
  /\ spent' = [spent EXCEPT !.programs = @ + 1]
  /\ \E o \in SilentOptions : Begins(o)
  /\ UNCHANGED <<agreed, wizard>>

GoesOn(next) == installer' = next /\ UNCHANGED outcome
Fails == installer' = "idle" /\ outcome' = "failed" /\ UNCHANGED warned

(* The folder, and the running version's stop, which may fail.             *)
Stop ==
  /\ installer = "stop"
  /\ \/ service = "none" /\ GoesOn("payload") /\ UNCHANGED <<runs, warned>>
     \/ service # "none" /\ GoesOn("payload")
        /\ \E ok \in BOOLEAN : Stops(ok) /\ warned' = (warned \/ ~ok)
     \/ "io" \in Troubles /\ Fails /\ UNCHANGED runs
  /\ UNCHANGED <<folder, registry, config, agreed, options, wizard, remover, script, missed, undone, spent>>

(* Mutant of MovesAside.                                                   *)
MovesAsideByName ==
  /\ InUse("exe") /\ ~InUse("exe.old")
  /\ runs' = [p \in Programs |-> IF runs[p] = "exe" THEN "exe.old" ELSE runs[p]]
  /\ scheduled' = scheduled \cup {"exe"}

(* An executable that is in use, or that Windows does not delete, is moved *)
(* aside and goes at the next start of Windows, if that is accepted; its   *)
(* programs run on from the other name.                                    *)
MovesAside ==
  /\ InUse("exe") \/ "exe" \in disk \cap Stubborn
  /\ ~InUse("exe.old")
  /\ runs' = [p \in Programs |-> IF runs[p] = "exe" THEN "exe.old" ELSE runs[p]]
  /\ \E refused \in MayRefuse({"exe.old"}) : scheduled' = scheduled \cup ({"exe.old"} \ refused)

(* writePayload.                                                           *)
WritePayload ==
  /\ installer = "payload"
  /\ \/ MovesAside
        /\ \/ disk' = disk \cup {"exe", "exe.old"} /\ GoesOn("copy") /\ UNCHANGED warned
           \/ "io" \in Troubles /\ disk' = (disk \cup {"exe.old"}) \ {"exe"} /\ Fails
     \/ ~InUse("exe") /\ UNCHANGED <<runs, scheduled>>
        /\ \/ disk' = disk \cup {"exe"} /\ GoesOn("copy") /\ UNCHANGED warned
           \/ "io" \in Troubles /\ disk' = disk \ {"exe"} /\ Fails
     \/ InUse("exe") /\ (InUse("exe.old") \/ "exe" \in Stubborn) /\ Fails /\ UNCHANGED <<disk, runs, scheduled>>
  /\ UNCHANGED <<registry, config, agreed, options, wizard, remover, script, missed, undone, spent>>

CopyUninstaller ==
  /\ installer = "copy" /\ GoesOn("configure")
  /\ \/ disk' = disk \cup {"Uninstall"} /\ UNCHANGED warned
     \/ "io" \in Troubles /\ warned' = TRUE /\ UNCHANGED disk
  /\ UNCHANGED <<scheduled, runs, registry, config, agreed, options, wizard, remover, script, missed, undone, spent>>

Load(file) == IF file = NoFile THEN DefaultConfig ELSE file

(* The configuration with the installer's choices: a policy is confirmed   *)
(* for the format it was chosen with, and only for that one.               *)
Chosen(c, o) ==
  LET f == IF o.formatSet THEN [c EXCEPT !.std = o.format, !.target = o.target] ELSE c
      d == o.disable /\ f.std
  IN  IF o.disableSet
      THEN [f EXCEPT !.disable = d, !.confirmedFor = IF d THEN f.target ELSE NoTarget]
      ELSE IF o.formatSet /\ f.confirmedFor # f.target
           THEN [f EXCEPT !.confirmedFor = NoTarget] ELSE f

(* /disableincompatible is an agreement; the wizard has asked for it.  The *)
(* options have no use from here on.                                       *)
Configure ==
  /\ installer = "configure"
  /\ \/ /\ config' = Chosen(Load(config), options)
        /\ agreed' = IF wizard = "none" /\ options.disableSet /\ config'.disable
                     THEN agreed \cup {config'.target} ELSE agreed
        /\ GoesOn("service") /\ UNCHANGED warned
     \/ "io" \in Troubles /\ Fails /\ UNCHANGED <<config, agreed>>
  /\ options' = NoOptions
  /\ UNCHANGED <<folder, runs, registry, wizard, remover, script, missed, undone, spent>>

InstallService ==
  /\ installer = "service"
  /\ \/ Registers(TRUE) /\ GoesOn("register") /\ UNCHANGED warned
     \/ Registers(FALSE) /\ Fails
  /\ UNCHANGED <<folder, runs, entries, config, agreed, options, wizard, remover, script, missed, undone, spent>>

(* The tray at logon, the shortcuts and the entry under Apps: failures are *)
(* only logged.                                                            *)
Register ==
  /\ installer = "register" /\ GoesOn("start")
  /\ \/ entries' = {"run", "apps"} /\ UNCHANGED warned
     \/ "io" \in Troubles /\ entries' \in SUBSET {"run", "apps"} /\ warned' = TRUE
  /\ UNCHANGED <<folder, runs, service, config, agreed, options, wizard, remover, script, missed, undone, spent>>

Start ==
  /\ installer = "start"
  /\ \/ Starts(TRUE) /\ installer' = "idle" /\ outcome' = "installed" /\ UNCHANGED warned
     \/ Starts(FALSE) /\ Fails
  /\ UNCHANGED <<folder, registry, config, agreed, options, wizard, remover, script, missed, undone, spent>>

-----------------------------------------------------------------------------
(* The wizard                                                              *)

OpenWizard ==
  /\ OneProgram /\ spent.programs < MaxPrograms
  /\ spent' = [spent EXCEPT !.programs = @ + 1]
  /\ wizard' = "form"
  /\ UNCHANGED <<folder, runs, registry, config, agreed, installer, options, remover, script, history>>

(* Mutant of Asks.                                                         *)
AsksAboutDevices(o, limited) == o.format /\ limited

(* confirmThenInstall asks when the preview has something to say about a   *)
(* device (limited), and always before the policy is turned on.            *)
Asks(o, limited) == o.format /\ (limited \/ o.disable)

WizardOptions == {o \in Options : o.formatSet /\ o.disableSet /\ (o.disable => o.format)}

ClickInstall ==
  /\ wizard = "form"
  /\ \E o \in WizardOptions, limited \in BOOLEAN :
       \/ ~Asks(o, limited) /\ wizard' = "running" /\ Begins(o)
       \/ /\ Asks(o, limited) /\ wizard' = "asking" /\ options' = o
          /\ UNCHANGED <<folder, runs, registry, config, installer, remover, script, history>>
  /\ UNCHANGED <<agreed, spent>>

Answer ==
  /\ wizard = "asking"
  /\ \/ /\ wizard' = "running" /\ Begins(options)
        /\ agreed' = IF options.disable THEN agreed \cup {options.target} ELSE agreed
     \/ /\ wizard' = "form"
        /\ UNCHANGED <<folder, runs, registry, config, agreed, installer, options, remover, script, history>>
  /\ UNCHANGED spent

(* finished, posted by the worker, and requestClose: never while it runs.  *)
Finished ==
  /\ wizard = "running" /\ installer = "idle"
  /\ wizard' = "done"
  /\ UNCHANGED <<folder, runs, registry, config, agreed, installer, options, remover, script, history, spent>>
Close ==
  /\ wizard \in {"form", "done"}
  /\ wizard' = "none"
  /\ UNCHANGED <<folder, runs, registry, config, agreed, installer, options, remover, script, history, spent>>

-----------------------------------------------------------------------------
(* The uninstaller                                                         *)

Program == {"exe", "exe.old", "Uninstall"}

(* Uninstall.exe asks; with /S it does not.                                *)
OpenUninstaller ==
  /\ OneProgram /\ remover.step = "idle" /\ "Uninstall" \in disk /\ spent.programs < MaxPrograms
  /\ spent' = [spent EXCEPT !.programs = @ + 1]
  /\ runs' = [runs EXCEPT !["stage1"] = "Uninstall"]
  /\ \E silent, data \in BOOLEAN :
       remover' = [step |-> "ask", by |-> "stage1", data |-> data, silent |-> silent, ok |-> TRUE]
  /\ UNCHANGED <<folder, registry, config, agreed, installer, options, wizard, script, history>>

Cancel ==
  /\ remover.step = "ask" /\ ~remover.silent
  /\ remover' = NoRemover
  /\ runs' = [runs EXCEPT !["stage1"] = "none"]
  /\ UNCHANGED <<folder, registry, config, agreed, installer, options, wizard, script, history, spent>>

(* relaunchUninstallerFromTemp: a silent first stage waits for the copy.   *)
Relaunch ==
  /\ remover.step = "ask"
  /\ \/ /\ remover' = [remover EXCEPT !.step = "service", !.by = "stage2", !.silent = FALSE]
        /\ disk' = disk \cup {"copy"}
        /\ runs' = [runs EXCEPT !["stage2"] = "copy", !["stage1"] = IF remover.silent THEN @ ELSE "none"]
     \/ /\ "io" \in Troubles
        /\ remover' = [remover EXCEPT !.step = "service"]
        /\ UNCHANGED <<disk, runs>>
  /\ outcome' = "none" /\ undone' = "before" /\ missed' = {}
  /\ UNCHANGED <<scheduled, registry, config, agreed, installer, options, wizard, script, warned, spent>>

RemoveService ==
  /\ remover.step = "service"
  /\ \E ok \in BOOLEAN :
       /\ Unregisters(ok)
       /\ remover' = [remover EXCEPT !.step = IF ok THEN "registry" ELSE "later", !.ok = ok]
  /\ UNCHANGED <<folder, entries, config, agreed, installer, options, wizard, script, history, spent>>

(* Whether the entries, the files and the data are gone makes no           *)
(* difference to what is reported.                                         *)
RemoveEntries ==
  /\ remover.step = "registry" /\ remover' = [remover EXCEPT !.step = "files"]
  /\ entries' \in MayRefuse(entries) /\ missed' = missed \cup entries'
  /\ UNCHANGED <<folder, runs, service, config, agreed, installer, options, wizard, script, outcome, warned, undone, spent>>

RemoveFiles ==
  /\ remover.step = "files" /\ remover' = [remover EXCEPT !.step = "later"]
  /\ DeleteOrSchedule(Program)
  /\ \/ config' = IF remover.data THEN NoFile ELSE config
     \/ "config" \in Stubborn /\ UNCHANGED config
  /\ UNCHANGED <<runs, registry, agreed, installer, options, wizard, script, outcome, warned, undone, spent>>

(* deleteSelfLater, whether or not the uninstall succeeded.                *)
DeleteSelfLater ==
  /\ remover.step = "later" /\ remover' = [remover EXCEPT !.step = "end"]
  /\ IF remover.by = "stage2"
     THEN /\ \E refused \in MayRefuse({"copy"}) : scheduled' = scheduled \cup ({"copy"} \ refused)
          /\ script' = TRUE
     ELSE UNCHANGED <<scheduled, script>>
  /\ UNCHANGED <<disk, runs, registry, config, agreed, installer, options, wizard, history, spent>>

(* The message is closed and the process ends.  What it reports counts for *)
(* the properties unless an installer has been at work meanwhile.          *)
RemoverEnds ==
  /\ remover.step = "end" /\ remover' = NoRemover
  /\ runs' = [runs EXCEPT ![remover.by] = "none"]
  /\ outcome' = IF outcome # "none" \/ installer # "idle" THEN outcome
                ELSE IF remover.ok THEN "removed" ELSE "failed"
  /\ UNCHANGED <<folder, registry, config, agreed, installer, options, wizard, script, warned, missed, undone, spent>>
StageOneEnds ==
  /\ remover.step = "idle" /\ runs["stage1"] # "none"
  /\ runs' = [runs EXCEPT !["stage1"] = "none"]
  /\ UNCHANGED <<folder, registry, config, agreed, programs, history, spent>>

(* One round of the script, which deletes by name, and its last.           *)
ScriptTries ==
  /\ script
  /\ disk' = {f \in disk : f \in {"copy", "Uninstall"} => InUse(f)}
  /\ script' = ({"copy", "Uninstall"} \cap disk' # {})
  /\ UNCHANGED <<scheduled, runs, registry, config, agreed, installer, options, wizard, remover, history, spent>>
ScriptGivesUp ==
  /\ script /\ script' = FALSE
  /\ UNCHANGED <<folder, runs, registry, config, agreed, installer, options, wizard, remover, history, spent>>

-----------------------------------------------------------------------------
(* Commands of the installed program, and a restart of Windows             *)

Command ==
  /\ "exe" \in disk /\ spent.commands < MaxCommands
  /\ spent' = [spent EXCEPT !.commands = @ + 1]
  /\ UNCHANGED <<folder, entries, agreed, programs, warned, missed, undone>>

CommandInstall ==
  /\ Command
  /\ \E ok \in BOOLEAN : Registers(ok) /\ config' = IF ok THEN Load(config) ELSE config
  /\ outcome' = "command" /\ UNCHANGED runs
CommandUninstall ==
  /\ Command /\ \E ok \in BOOLEAN : Unregisters(ok)
  /\ outcome' = "command" /\ UNCHANGED config
CommandStart ==
  /\ Command /\ \E ok \in BOOLEAN : Starts(ok)
  /\ UNCHANGED <<service, config, outcome>>
CommandStop ==
  /\ Command /\ service # "none" /\ \E ok \in BOOLEAN : Stops(ok)
  /\ UNCHANGED <<service, config, outcome>>

(* Windows starts again: the scheduled names go, and so does what was      *)
(* marked for deletion; an automatic service whose file is there runs.     *)
Reboot ==
  /\ disk' = disk \ scheduled /\ scheduled' = {}
  /\ service' = IF service = "deleting" THEN "none" ELSE service
  /\ runs' = [p \in Programs |->
               IF p = "service" /\ service' = "installed" /\ "exe" \in disk' THEN "exe" ELSE "none"]
  /\ installer' = "idle" /\ wizard' = "none" /\ script' = FALSE
  /\ remover' = NoRemover
  /\ undone' = IF outcome = "installed" THEN undone ELSE "no"
  /\ options' = NoOptions
  /\ UNCHANGED <<entries, config, agreed, outcome, warned, missed, spent>>

InstallerNext == SilentSetup \/ Stop \/ WritePayload \/ CopyUninstaller \/ Configure \/ InstallService \/ Register \/ Start
WizardNext == OpenWizard \/ ClickInstall \/ Answer \/ Finished \/ Close
RemoverNext ==
  \/ OpenUninstaller \/ Cancel \/ Relaunch \/ RemoveService \/ RemoveEntries \/ RemoveFiles \/ DeleteSelfLater
  \/ RemoverEnds \/ StageOneEnds \/ ScriptTries \/ ScriptGivesUp
CommandNext == CommandInstall \/ CommandUninstall \/ CommandStart \/ CommandStop
WorldNext == ServiceEnds \/ DeletionEnds \/ TrayStarts \/ TrayEnds \/ Reboot

Next == InstallerNext \/ WizardNext \/ RemoverNext \/ CommandNext \/ WorldNext
Spec == Init /\ [][Next]_vars

-----------------------------------------------------------------------------
(* An installation that was reported with no warning in its log is whole,  *)
(* and stays so through restarts of Windows: both programs, the service    *)
(* and the entries are there, whichever processes kept the old version in  *)
(* use.  An uninstaller that worked before in the same session of Windows  *)
(* is excepted: what it scheduled or left to its script strikes by name.   *)
InstalledIsWhole ==
  (outcome = "installed" /\ ~warned /\ undone = "no") =>
    {"exe", "Uninstall"} \subseteq disk /\ service = "installed" /\ entries = {"run", "apps"}

(* After an uninstall that reported success, and a restart of Windows,     *)
(* nothing of the program is left: no file, no service, no entry; save the *)
(* entries that Windows did not delete and the files that it neither       *)
(* deleted nor accepted to delete later, of which the uninstaller takes no *)
(* notice.  (A copy in %TEMP% may be left, when Windows started again in   *)
(* the second stage.)                                                      *)
UninstallIsClean ==
  (outcome = "removed" /\ undone = "no") =>
    disk \cap Program \subseteq missed /\ service = "none" /\ entries \subseteq missed

(* The configuration never disables devices for a format unless the user   *)
(* agreed to it: in the wizard's question, or with /disableincompatible.   *)
PolicyWasAgreed ==
  LET c == Load(config)
  IN  (c.std /\ c.disable /\ c.confirmedFor = c.target) => c.target \in agreed

(* The inductive invariant.  Whatever the configuration confirms has been  *)
(* agreed to, and so has what the wizard's worker is about to write.       *)
AgreeInv ==
  /\ Load(config).confirmedFor \in agreed \cup {NoTarget}
  /\ wizard = "asking" => options \in WizardOptions
  /\ wizard \in {"form", "asking", "done"} => installer = "idle"
  /\ (wizard = "running" /\ options.disable) => options.formatSet /\ options.target \in agreed

(* An outcome is of the last program, and none is known while it works.    *)
WorkInv ==
  /\ installer # "idle" => outcome \in {"none", "command"}
  /\ outcome = "removed" => remover.step \in {"idle", "ask"}
  /\ undone = "no" => remover.step \in {"idle", "ask"} /\ ~script /\ scheduled \subseteq {"exe.old"}

(* What an installer has made by each of its steps.                        *)
InstallInv ==
  undone = "no" =>
    /\ installer \in {"copy", "configure", "service", "register", "start"} => "exe" \in disk
    /\ installer \in {"configure", "service", "register", "start"} /\ ~warned => "Uninstall" \in disk
    /\ installer = "start" /\ ~warned => entries = {"run", "apps"}

(* What an undisturbed uninstaller has removed or scheduled by each of its *)
(* steps, and has left when it has ended.                                  *)
Undisturbed(steps) ==
  \/ outcome = "removed"
  \/ outcome = "none" /\ installer = "idle" /\ remover.ok /\ remover.step \in steps
RemoveInv ==
  /\ Undisturbed({"registry", "files", "later", "end"}) => service # "installed"
  /\ Undisturbed({"files", "later", "end"}) => entries \subseteq missed
  /\ Undisturbed({"later", "end"}) => disk \cap Program \subseteq scheduled \cup missed

IInv == TypeOK /\ AgreeInv /\ WorkInv /\ InstallInv /\ RemoveInv /\ InstalledIsWhole /\ UninstallIsClean

(* InstallerCore.h:5-7: the installed layout has both programs, also when  *)
(* the installation came after an uninstall, which had ended.              *)
InstallLasts ==
  (outcome = "installed" /\ ~warned /\ undone # "beside") => {"exe", "Uninstall"} \subseteq disk
=============================================================================
