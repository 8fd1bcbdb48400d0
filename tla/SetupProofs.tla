------------------------------ MODULE SetupProofs ------------------------------
(***************************************************************************)
(* Proofs about Setup for every set of formats, first configuration and    *)
(* trouble, and any number of programs and commands.                       *)
(***************************************************************************)
EXTENDS Setup, TLAPS

(* What a missing file is read as is a configuration.                      *)
LEMMA LoadType ==
  /\ DefaultConfig \in Config
  /\ \A c \in Config \cup {NoFile} : Load(c) \in Config /\ Load(Load(c)) = Load(c)
  /\ Load(NoFile) = DefaultConfig
BY TargetsAssumption, ConfigsAssumption DEF DefaultConfig, Config, Load

(* The installer's choices make a configuration of a configuration.        *)
LEMMA ChosenType ==
  ASSUME NEW c \in Config, NEW o \in Options
  PROVE  Chosen(c, o) \in Config
BY TargetsAssumption DEF Chosen, Config, Options

(* The type invariant in parts: what is on the machine, what the programs   *)
(* do, and what is remembered of them.                                     *)
MachineTypes ==
  /\ disk \subseteq Files /\ scheduled \subseteq Files
  /\ runs \in [Programs -> Files \cup {"none"}]
  /\ service \in {"none", "installed", "deleting"} /\ entries \subseteq {"run", "apps"}
  /\ config \in Config \cup {NoFile}
ProgramTypes ==
  /\ installer \in InstallSteps /\ options \in Options
  /\ wizard \in {"none", "form", "asking", "running", "done"}
  /\ remover \in [step: UninstallSteps, by: {"stage1", "stage2"}, data: BOOLEAN, silent: BOOLEAN, ok: BOOLEAN]
  /\ spent \in [programs: Nat, commands: Nat]
HistoryTypes ==
  /\ outcome \in {"none", "installed", "removed", "failed", "command"}
  /\ undone \in {"no", "before", "beside"} /\ agreed \subseteq Targets
  /\ missed \subseteq Files \cup {"run", "apps"}
FlagTypes == script \in BOOLEAN /\ warned \in BOOLEAN

(* Every step keeps the types of what is on the machine. *)
LEMMA MachineTypeStep ==
  ASSUME TypeOK, [Next]_vars
  PROVE  MachineTypes'
<1>. USE DEF TypeOK, Files, Programs, Options, InstallSteps, UninstallSteps, folder,
    registry, programs, history, MachineTypes
<1>1. CASE SilentSetup
  BY <1>1 DEF SilentSetup, SilentOptions, Begins, OneProgram
<1>2. CASE Stop
  BY <1>2 DEF Stop, GoesOn, Fails, Stops
<1>3. CASE WritePayload
  <2>1. disk' \subseteq Files
    BY <1>3 DEF WritePayload
  <2>2. scheduled' \subseteq Files
    BY <1>3 DEF WritePayload, MovesAside, MayRefuse
  <2>3. ASSUME UNCHANGED runs PROVE runs' \in [Programs -> Files \cup {"none"}]
    BY <2>3
  <2>4. ASSUME runs' = [p \in Programs |-> IF runs[p] = "exe" THEN "exe.old" ELSE runs[p]]
        PROVE  runs' \in [Programs -> Files \cup {"none"}]
    BY <2>4
  <2>5. runs' \in [Programs -> Files \cup {"none"}]
    BY <1>3, <2>3, <2>4 DEF WritePayload, MovesAside, MayRefuse
  <2>. QED
    BY <1>3, <2>1, <2>2, <2>5 DEF WritePayload
<1>4. CASE CopyUninstaller
  BY <1>4 DEF CopyUninstaller, GoesOn
<1>5. CASE Configure
  BY <1>5, LoadType, ChosenType DEF Configure, GoesOn, Fails
<1>6. CASE InstallService
  BY <1>6 DEF InstallService, GoesOn, Fails, Registers
<1>7. CASE Register
  BY <1>7 DEF Register, GoesOn
<1>8. CASE Start
  BY <1>8 DEF Start, Fails, Starts
<1>9. CASE OpenWizard
  BY <1>9 DEF OpenWizard, OneProgram
<1>10. CASE ClickInstall
  BY <1>10 DEF ClickInstall, Begins, Asks
<1>11. CASE Answer
  BY <1>11 DEF Answer, Begins
<1>12. CASE Finished
  BY <1>12 DEF Finished
<1>13. CASE Close
  BY <1>13 DEF Close
<1>14. CASE OpenUninstaller
  BY <1>14 DEF OpenUninstaller, OneProgram
<1>15. CASE Cancel
  BY <1>15 DEF Cancel
<1>16. CASE Relaunch
  BY <1>16 DEF Relaunch
<1>17. CASE RemoveService
  BY <1>17 DEF RemoveService, Unregisters, Stops
<1>18. CASE RemoveEntries
  BY <1>18 DEF RemoveEntries, MayRefuse
<1>19. CASE RemoveFiles
  BY <1>19 DEF RemoveFiles, DeleteOrSchedule, MayRefuse
<1>20. CASE DeleteSelfLater
  BY <1>20 DEF DeleteSelfLater, MayRefuse
<1>21. CASE RemoverEnds
  BY <1>21 DEF RemoverEnds
<1>22. CASE StageOneEnds
  BY <1>22 DEF StageOneEnds
<1>23. CASE ScriptTries
  BY <1>23 DEF ScriptTries
<1>24. CASE ScriptGivesUp
  BY <1>24 DEF ScriptGivesUp
<1>25. CASE CommandInstall
  BY <1>25, LoadType DEF CommandInstall, Command, Registers
<1>26. CASE CommandUninstall
  BY <1>26 DEF CommandUninstall, Command, Unregisters, Stops
<1>27. CASE CommandStart
  BY <1>27 DEF CommandStart, Command, Starts
<1>28. CASE CommandStop
  BY <1>28 DEF CommandStop, Command, Stops
<1>29. CASE ServiceEnds
  BY <1>29 DEF ServiceEnds
<1>30. CASE DeletionEnds
  BY <1>30 DEF DeletionEnds
<1>31. CASE TrayStarts
  BY <1>31 DEF TrayStarts
<1>32. CASE TrayEnds
  BY <1>32 DEF TrayEnds
<1>33. CASE Reboot
  BY <1>33 DEF Reboot
<1>34. CASE UNCHANGED vars
  BY <1>34 DEF vars
<1>. QED
    BY <1>1, <1>2, <1>3, <1>4, <1>5, <1>6, <1>7, <1>8, <1>9, <1>10, <1>11, <1>12, <1>13, <1>14,
     <1>15, <1>16, <1>17, <1>18, <1>19, <1>20, <1>21, <1>22, <1>23, <1>24, <1>25, <1>26, <1>27,
     <1>28, <1>29, <1>30, <1>31, <1>32, <1>33, <1>34 DEF Next, InstallerNext, WizardNext,
     RemoverNext, CommandNext, WorldNext

(* Every step keeps the types of what the programs do. *)
LEMMA ProgramTypeStep ==
  ASSUME TypeOK, [Next]_vars
  PROVE  ProgramTypes'
<1>. USE TargetsAssumption DEF TypeOK, Files, Programs, Options, InstallSteps,
    UninstallSteps, folder, registry, programs, history, ProgramTypes
<1>1. CASE SilentSetup
  BY <1>1 DEF SilentSetup, SilentOptions, Begins, OneProgram
<1>2. CASE Stop
  BY <1>2 DEF Stop, GoesOn, Fails, Stops
<1>3. CASE WritePayload
  BY <1>3 DEF WritePayload, GoesOn, Fails, MovesAside, MayRefuse
<1>4. CASE CopyUninstaller
  BY <1>4 DEF CopyUninstaller, GoesOn
<1>5. CASE Configure
  BY <1>5 DEF Configure, GoesOn, Fails, NoOptions
<1>6. CASE InstallService
  BY <1>6 DEF InstallService, GoesOn, Fails, Registers
<1>7. CASE Register
  BY <1>7 DEF Register, GoesOn
<1>8. CASE Start
  BY <1>8 DEF Start, Fails, Starts
<1>9. CASE OpenWizard
  BY <1>9 DEF OpenWizard, OneProgram
<1>10. CASE ClickInstall
  BY <1>10 DEF ClickInstall, Begins, Asks, WizardOptions
<1>11. CASE Answer
  BY <1>11 DEF Answer, Begins
<1>12. CASE Finished
  BY <1>12 DEF Finished
<1>13. CASE Close
  BY <1>13 DEF Close
<1>14. CASE OpenUninstaller
  BY <1>14 DEF OpenUninstaller, OneProgram
<1>15. CASE Cancel
  BY <1>15 DEF Cancel, NoRemover
<1>16. CASE Relaunch
  <2>1. remover' \in [step: UninstallSteps, by: {"stage1", "stage2"}, data: BOOLEAN, silent: BOOLEAN, ok: BOOLEAN]
    <3>1. CASE remover' = [remover EXCEPT !.step = "service", !.by = "stage2", !.silent = FALSE]
      BY <3>1
    <3>2. CASE remover' = [remover EXCEPT !.step = "service"]
      BY <3>2
    <3>. QED
      BY <1>16, <3>1, <3>2 DEF Relaunch
  <2>. QED
    BY <1>16, <2>1 DEF Relaunch
<1>17. CASE RemoveService
  <2>1. PICK ok \in BOOLEAN : remover' = [remover EXCEPT !.step = IF ok THEN "registry" ELSE "later", !.ok = ok]
    BY <1>17 DEF RemoveService
  <2>2. remover' \in [step: UninstallSteps, by: {"stage1", "stage2"}, data: BOOLEAN, silent: BOOLEAN, ok: BOOLEAN]
    BY <2>1
  <2>. QED
    BY <1>17, <2>2 DEF RemoveService
<1>18. CASE RemoveEntries
  BY <1>18 DEF RemoveEntries, MayRefuse
<1>19. CASE RemoveFiles
  BY <1>19 DEF RemoveFiles, DeleteOrSchedule, MayRefuse
<1>20. CASE DeleteSelfLater
  BY <1>20 DEF DeleteSelfLater, MayRefuse
<1>21. CASE RemoverEnds
  BY <1>21 DEF RemoverEnds, NoRemover
<1>22. CASE StageOneEnds
  BY <1>22 DEF StageOneEnds
<1>23. CASE ScriptTries
  BY <1>23 DEF ScriptTries
<1>24. CASE ScriptGivesUp
  BY <1>24 DEF ScriptGivesUp
<1>25. CASE CommandInstall
  BY <1>25 DEF CommandInstall, Command, Registers
<1>26. CASE CommandUninstall
  BY <1>26 DEF CommandUninstall, Command, Unregisters, Stops
<1>27. CASE CommandStart
  BY <1>27 DEF CommandStart, Command, Starts
<1>28. CASE CommandStop
  BY <1>28 DEF CommandStop, Command, Stops
<1>29. CASE ServiceEnds
  BY <1>29 DEF ServiceEnds
<1>30. CASE DeletionEnds
  BY <1>30 DEF DeletionEnds
<1>31. CASE TrayStarts
  BY <1>31 DEF TrayStarts
<1>32. CASE TrayEnds
  BY <1>32 DEF TrayEnds
<1>33. CASE Reboot
  BY <1>33 DEF Reboot, NoRemover, NoOptions
<1>34. CASE UNCHANGED vars
  BY <1>34 DEF vars
<1>. QED
    BY <1>1, <1>2, <1>3, <1>4, <1>5, <1>6, <1>7, <1>8, <1>9, <1>10, <1>11, <1>12, <1>13, <1>14,
     <1>15, <1>16, <1>17, <1>18, <1>19, <1>20, <1>21, <1>22, <1>23, <1>24, <1>25, <1>26, <1>27,
     <1>28, <1>29, <1>30, <1>31, <1>32, <1>33, <1>34 DEF Next, InstallerNext, WizardNext,
     RemoverNext, CommandNext, WorldNext

(* Every step keeps the types of what is remembered. *)
LEMMA HistoryTypeStep ==
  ASSUME TypeOK, [Next]_vars
  PROVE  HistoryTypes'
<1>. USE LoadType, ChosenType DEF TypeOK, Files, Programs, Options, InstallSteps,
    UninstallSteps, folder, registry, programs, history, HistoryTypes
<1>1. CASE SilentSetup
  BY <1>1 DEF SilentSetup, SilentOptions, Begins, OneProgram
<1>2. CASE Stop
  BY <1>2 DEF Stop, GoesOn, Fails, Stops
<1>3. CASE WritePayload
  BY <1>3 DEF WritePayload, GoesOn, Fails, MovesAside, MayRefuse
<1>4. CASE CopyUninstaller
  BY <1>4 DEF CopyUninstaller, GoesOn
<1>5. CASE Configure
  <2>1. agreed' \subseteq Targets
    <3>1. CASE config' = Chosen(Load(config), options)
      <4>1. config' \in Config
        BY <3>1, LoadType, ChosenType
      <4>. QED
        BY <1>5, <4>1 DEF Configure, Config
    <3>2. CASE UNCHANGED agreed
      BY <3>2
    <3>. QED
      BY <1>5, <3>1, <3>2 DEF Configure
  <2>. QED
    BY <1>5, <2>1 DEF Configure, GoesOn, Fails
<1>6. CASE InstallService
  BY <1>6 DEF InstallService, GoesOn, Fails, Registers
<1>7. CASE Register
  BY <1>7 DEF Register, GoesOn
<1>8. CASE Start
  BY <1>8 DEF Start, Fails, Starts
<1>9. CASE OpenWizard
  BY <1>9 DEF OpenWizard, OneProgram
<1>10. CASE ClickInstall
  BY <1>10 DEF ClickInstall, Begins, Asks
<1>11. CASE Answer
  BY <1>11 DEF Answer, Begins
<1>12. CASE Finished
  BY <1>12 DEF Finished
<1>13. CASE Close
  BY <1>13 DEF Close
<1>14. CASE OpenUninstaller
  BY <1>14 DEF OpenUninstaller, OneProgram
<1>15. CASE Cancel
  BY <1>15 DEF Cancel
<1>16. CASE Relaunch
  BY <1>16 DEF Relaunch
<1>17. CASE RemoveService
  BY <1>17 DEF RemoveService, Unregisters, Stops
<1>18. CASE RemoveEntries
  BY <1>18 DEF RemoveEntries, MayRefuse
<1>19. CASE RemoveFiles
  BY <1>19 DEF RemoveFiles, DeleteOrSchedule, MayRefuse
<1>20. CASE DeleteSelfLater
  BY <1>20 DEF DeleteSelfLater, MayRefuse
<1>21. CASE RemoverEnds
  BY <1>21 DEF RemoverEnds
<1>22. CASE StageOneEnds
  BY <1>22 DEF StageOneEnds
<1>23. CASE ScriptTries
  BY <1>23 DEF ScriptTries
<1>24. CASE ScriptGivesUp
  BY <1>24 DEF ScriptGivesUp
<1>25. CASE CommandInstall
  BY <1>25 DEF CommandInstall, Command, Registers
<1>26. CASE CommandUninstall
  BY <1>26 DEF CommandUninstall, Command, Unregisters, Stops
<1>27. CASE CommandStart
  BY <1>27 DEF CommandStart, Command, Starts
<1>28. CASE CommandStop
  BY <1>28 DEF CommandStop, Command, Stops
<1>29. CASE ServiceEnds
  BY <1>29 DEF ServiceEnds
<1>30. CASE DeletionEnds
  BY <1>30 DEF DeletionEnds
<1>31. CASE TrayStarts
  BY <1>31 DEF TrayStarts
<1>32. CASE TrayEnds
  BY <1>32 DEF TrayEnds
<1>33. CASE Reboot
  BY <1>33 DEF Reboot
<1>34. CASE UNCHANGED vars
  BY <1>34 DEF vars
<1>. QED
    BY <1>1, <1>2, <1>3, <1>4, <1>5, <1>6, <1>7, <1>8, <1>9, <1>10, <1>11, <1>12, <1>13, <1>14,
     <1>15, <1>16, <1>17, <1>18, <1>19, <1>20, <1>21, <1>22, <1>23, <1>24, <1>25, <1>26, <1>27,
     <1>28, <1>29, <1>30, <1>31, <1>32, <1>33, <1>34 DEF Next, InstallerNext, WizardNext,
     RemoverNext, CommandNext, WorldNext

(* Every step keeps the types of the flags. *)
LEMMA FlagTypeStep ==
  ASSUME TypeOK, [Next]_vars
  PROVE  FlagTypes'
<1>. USE DEF TypeOK, Files, Programs, Options, InstallSteps, UninstallSteps, folder,
    registry, programs, history, FlagTypes
<1>1. CASE SilentSetup
  BY <1>1 DEF SilentSetup, SilentOptions, Begins, OneProgram
<1>2. CASE Stop
  BY <1>2 DEF Stop, GoesOn, Fails, Stops
<1>3. CASE WritePayload
  BY <1>3 DEF WritePayload, GoesOn, Fails, MovesAside, MayRefuse
<1>4. CASE CopyUninstaller
  BY <1>4 DEF CopyUninstaller, GoesOn
<1>5. CASE Configure
  BY <1>5 DEF Configure, GoesOn, Fails
<1>6. CASE InstallService
  BY <1>6 DEF InstallService, GoesOn, Fails, Registers
<1>7. CASE Register
  BY <1>7 DEF Register, GoesOn
<1>8. CASE Start
  BY <1>8 DEF Start, Fails, Starts
<1>9. CASE OpenWizard
  BY <1>9 DEF OpenWizard, OneProgram
<1>10. CASE ClickInstall
  BY <1>10 DEF ClickInstall, Begins, Asks
<1>11. CASE Answer
  BY <1>11 DEF Answer, Begins
<1>12. CASE Finished
  BY <1>12 DEF Finished
<1>13. CASE Close
  BY <1>13 DEF Close
<1>14. CASE OpenUninstaller
  BY <1>14 DEF OpenUninstaller, OneProgram
<1>15. CASE Cancel
  BY <1>15 DEF Cancel
<1>16. CASE Relaunch
  BY <1>16 DEF Relaunch
<1>17. CASE RemoveService
  BY <1>17 DEF RemoveService, Unregisters, Stops
<1>18. CASE RemoveEntries
  BY <1>18 DEF RemoveEntries, MayRefuse
<1>19. CASE RemoveFiles
  BY <1>19 DEF RemoveFiles, DeleteOrSchedule, MayRefuse
<1>20. CASE DeleteSelfLater
  BY <1>20 DEF DeleteSelfLater, MayRefuse
<1>21. CASE RemoverEnds
  BY <1>21 DEF RemoverEnds
<1>22. CASE StageOneEnds
  BY <1>22 DEF StageOneEnds
<1>23. CASE ScriptTries
  BY <1>23 DEF ScriptTries
<1>24. CASE ScriptGivesUp
  BY <1>24 DEF ScriptGivesUp
<1>25. CASE CommandInstall
  BY <1>25 DEF CommandInstall, Command, Registers
<1>26. CASE CommandUninstall
  BY <1>26 DEF CommandUninstall, Command, Unregisters, Stops
<1>27. CASE CommandStart
  BY <1>27 DEF CommandStart, Command, Starts
<1>28. CASE CommandStop
  BY <1>28 DEF CommandStop, Command, Stops
<1>29. CASE ServiceEnds
  BY <1>29 DEF ServiceEnds
<1>30. CASE DeletionEnds
  BY <1>30 DEF DeletionEnds
<1>31. CASE TrayStarts
  BY <1>31 DEF TrayStarts
<1>32. CASE TrayEnds
  BY <1>32 DEF TrayEnds
<1>33. CASE Reboot
  BY <1>33 DEF Reboot
<1>34. CASE UNCHANGED vars
  BY <1>34 DEF vars
<1>. QED
    BY <1>1, <1>2, <1>3, <1>4, <1>5, <1>6, <1>7, <1>8, <1>9, <1>10, <1>11, <1>12, <1>13, <1>14,
     <1>15, <1>16, <1>17, <1>18, <1>19, <1>20, <1>21, <1>22, <1>23, <1>24, <1>25, <1>26, <1>27,
     <1>28, <1>29, <1>30, <1>31, <1>32, <1>33, <1>34 DEF Next, InstallerNext, WizardNext,
     RemoverNext, CommandNext, WorldNext

(* Every variable keeps its type.                                          *)
LEMMA TypeStep ==
  ASSUME TypeOK, [Next]_vars
  PROVE  TypeOK'
BY MachineTypeStep, ProgramTypeStep, HistoryTypeStep, FlagTypeStep DEF TypeOK, MachineTypes, ProgramTypes, HistoryTypes, FlagTypes

(* No step writes a confirmation without an agreement, or lets the wizard   *)
(* go on without its answer.                                               *)
LEMMA AgreeStep ==
  ASSUME TypeOK, AgreeInv, [Next]_vars
  PROVE  AgreeInv'
<1>. USE TargetsAssumption, LoadType DEF TypeOK, Files, Programs, Options, InstallSteps,
    UninstallSteps, folder, registry, programs, history, AgreeInv
<1>1. CASE SilentSetup
  BY <1>1 DEF SilentSetup, SilentOptions, Begins, OneProgram
<1>2. CASE Stop
  BY <1>2 DEF Stop, GoesOn, Fails, Stops
<1>3. CASE WritePayload
  BY <1>3 DEF WritePayload, GoesOn, Fails, MovesAside, MayRefuse
<1>4. CASE CopyUninstaller
  BY <1>4 DEF CopyUninstaller, GoesOn
<1>5. CASE Configure
  <2>. DEFINE c == Load(config)
  <2>1. c \in Config
    BY LoadType
  <2>2. CASE config' = Chosen(c, options)
    <3>1. config' \in Config /\ Load(config') = config'
      BY <2>1, <2>2, ChosenType, LoadType, ConfigsAssumption DEF Load
    <3>2. CASE options.disableSet /\ config'.disable
      <4>1. config'.confirmedFor = config'.target
        BY <2>1, <2>2, <3>2 DEF Chosen, Config, Options
      <4>2. CASE wizard = "none"
        BY <1>5, <2>1, <2>2, <3>1, <3>2, <4>1, <4>2 DEF Configure
      <4>3. CASE wizard = "running"
        <5>1. options.disable
          BY <2>1, <2>2, <3>2 DEF Chosen, Config, Options
        <5>2. config'.target = options.target
          BY <2>1, <2>2, <5>1, <4>3 DEF Chosen, Config, Options
        <5>. QED
          BY <1>5, <3>1, <4>1, <4>3, <5>1, <5>2 DEF Configure, NoOptions
      <4>. QED
        BY <1>5, <4>2, <4>3 DEF Configure
    <3>3. CASE ~(options.disableSet /\ config'.disable)
      <4>1. config'.confirmedFor \in {NoTarget, c.confirmedFor}
        BY <2>1, <2>2, <3>3 DEF Chosen, Config, Options
      <4>. QED
        BY <1>5, <3>1, <4>1 DEF Configure, NoOptions
    <3>. QED
      BY <3>2, <3>3
  <2>3. CASE UNCHANGED <<config, agreed>>
    BY <1>5, <2>3 DEF Configure, NoOptions
  <2>. QED
    BY <1>5, <2>2, <2>3 DEF Configure
<1>6. CASE InstallService
  BY <1>6 DEF InstallService, GoesOn, Fails, Registers
<1>7. CASE Register
  BY <1>7 DEF Register, GoesOn
<1>8. CASE Start
  BY <1>8 DEF Start, Fails, Starts
<1>9. CASE OpenWizard
  BY <1>9 DEF OpenWizard, OneProgram
<1>10. CASE ClickInstall
  BY <1>10 DEF ClickInstall, Begins, Asks, WizardOptions
<1>11. CASE Answer
  BY <1>11 DEF Answer, Begins, WizardOptions
<1>12. CASE Finished
  BY <1>12 DEF Finished
<1>13. CASE Close
  BY <1>13 DEF Close
<1>14. CASE OpenUninstaller
  BY <1>14 DEF OpenUninstaller, OneProgram
<1>15. CASE Cancel
  BY <1>15 DEF Cancel
<1>16. CASE Relaunch
  BY <1>16 DEF Relaunch
<1>17. CASE RemoveService
  BY <1>17 DEF RemoveService, Unregisters, Stops
<1>18. CASE RemoveEntries
  BY <1>18 DEF RemoveEntries, MayRefuse
<1>19. CASE RemoveFiles
  BY <1>19 DEF RemoveFiles, DeleteOrSchedule, MayRefuse, DefaultConfig
<1>20. CASE DeleteSelfLater
  BY <1>20 DEF DeleteSelfLater, MayRefuse
<1>21. CASE RemoverEnds
  BY <1>21 DEF RemoverEnds
<1>22. CASE StageOneEnds
  BY <1>22 DEF StageOneEnds
<1>23. CASE ScriptTries
  BY <1>23 DEF ScriptTries
<1>24. CASE ScriptGivesUp
  BY <1>24 DEF ScriptGivesUp
<1>25. CASE CommandInstall
  BY <1>25 DEF CommandInstall, Command, Registers
<1>26. CASE CommandUninstall
  BY <1>26 DEF CommandUninstall, Command, Unregisters, Stops
<1>27. CASE CommandStart
  BY <1>27 DEF CommandStart, Command, Starts
<1>28. CASE CommandStop
  BY <1>28 DEF CommandStop, Command, Stops
<1>29. CASE ServiceEnds
  BY <1>29 DEF ServiceEnds
<1>30. CASE DeletionEnds
  BY <1>30 DEF DeletionEnds
<1>31. CASE TrayStarts
  BY <1>31 DEF TrayStarts
<1>32. CASE TrayEnds
  BY <1>32 DEF TrayEnds
<1>33. CASE Reboot
  BY <1>33 DEF Reboot, NoOptions
<1>34. CASE UNCHANGED vars
  BY <1>34 DEF vars
<1>. QED
    BY <1>1, <1>2, <1>3, <1>4, <1>5, <1>6, <1>7, <1>8, <1>9, <1>10, <1>11, <1>12, <1>13, <1>14,
     <1>15, <1>16, <1>17, <1>18, <1>19, <1>20, <1>21, <1>22, <1>23, <1>24, <1>25, <1>26, <1>27,
     <1>28, <1>29, <1>30, <1>31, <1>32, <1>33, <1>34 DEF Next, InstallerNext, WizardNext,
     RemoverNext, CommandNext, WorldNext

(* What an outcome says of the programs at work.                            *)
LEMMA WorkStep ==
  ASSUME TypeOK, AgreeInv, WorkInv, [Next]_vars
  PROVE  WorkInv'
<1>. USE DEF TypeOK, Files, Programs, Options, InstallSteps, UninstallSteps, folder,
    registry, programs, history, AgreeInv, WorkInv
<1>1. CASE SilentSetup
  BY <1>1 DEF SilentSetup, SilentOptions, Begins, OneProgram
<1>2. CASE Stop
  BY <1>2 DEF Stop, GoesOn, Fails, Stops
<1>3. CASE WritePayload
  BY <1>3 DEF WritePayload, GoesOn, Fails, MovesAside, MayRefuse
<1>4. CASE CopyUninstaller
  BY <1>4 DEF CopyUninstaller, GoesOn
<1>5. CASE Configure
  BY <1>5 DEF Configure, GoesOn, Fails
<1>6. CASE InstallService
  BY <1>6 DEF InstallService, GoesOn, Fails, Registers
<1>7. CASE Register
  BY <1>7 DEF Register, GoesOn
<1>8. CASE Start
  BY <1>8 DEF Start, Fails, Starts
<1>9. CASE OpenWizard
  BY <1>9 DEF OpenWizard, OneProgram
<1>10. CASE ClickInstall
  <2>1. ASSUME NEW o, Begins(o) PROVE WorkInv'
    BY <2>1 DEF Begins
  <2>2. CASE UNCHANGED <<folder, installer, remover, script, history>>
    BY <2>2
  <2>3. (\E o : Begins(o)) \/ UNCHANGED <<folder, installer, remover, script, history>>
    BY <1>10 DEF ClickInstall
  <2>. QED
    BY <2>1, <2>2, <2>3
<1>11. CASE Answer
  <2>1. ASSUME NEW o, Begins(o) PROVE WorkInv'
    BY <2>1 DEF Begins
  <2>2. CASE UNCHANGED <<folder, installer, remover, script, history>>
    BY <2>2
  <2>3. (\E o : Begins(o)) \/ UNCHANGED <<folder, installer, remover, script, history>>
    BY <1>11 DEF Answer
  <2>. QED
    BY <2>1, <2>2, <2>3
<1>12. CASE Finished
  BY <1>12 DEF Finished
<1>13. CASE Close
  BY <1>13 DEF Close
<1>14. CASE OpenUninstaller
  BY <1>14 DEF OpenUninstaller, OneProgram
<1>15. CASE Cancel
  BY <1>15 DEF Cancel, NoRemover
<1>16. CASE Relaunch
  BY <1>16 DEF Relaunch
<1>17. CASE RemoveService
  BY <1>17 DEF RemoveService, Unregisters, Stops
<1>18. CASE RemoveEntries
  BY <1>18 DEF RemoveEntries, MayRefuse
<1>19. CASE RemoveFiles
  BY <1>19 DEF RemoveFiles, DeleteOrSchedule, MayRefuse
<1>20. CASE DeleteSelfLater
  BY <1>20 DEF DeleteSelfLater, MayRefuse
<1>21. CASE RemoverEnds
  BY <1>21 DEF RemoverEnds, NoRemover
<1>22. CASE StageOneEnds
  BY <1>22 DEF StageOneEnds
<1>23. CASE ScriptTries
  BY <1>23 DEF ScriptTries
<1>24. CASE ScriptGivesUp
  BY <1>24 DEF ScriptGivesUp
<1>25. CASE CommandInstall
  BY <1>25 DEF CommandInstall, Command, Registers
<1>26. CASE CommandUninstall
  BY <1>26 DEF CommandUninstall, Command, Unregisters, Stops
<1>27. CASE CommandStart
  BY <1>27 DEF CommandStart, Command, Starts
<1>28. CASE CommandStop
  BY <1>28 DEF CommandStop, Command, Stops
<1>29. CASE ServiceEnds
  BY <1>29 DEF ServiceEnds
<1>30. CASE DeletionEnds
  BY <1>30 DEF DeletionEnds
<1>31. CASE TrayStarts
  BY <1>31 DEF TrayStarts
<1>32. CASE TrayEnds
  BY <1>32 DEF TrayEnds
<1>33. CASE Reboot
  BY <1>33 DEF Reboot, NoRemover
<1>34. CASE UNCHANGED vars
  BY <1>34 DEF vars
<1>. QED
    BY <1>1, <1>2, <1>3, <1>4, <1>5, <1>6, <1>7, <1>8, <1>9, <1>10, <1>11, <1>12, <1>13, <1>14,
     <1>15, <1>16, <1>17, <1>18, <1>19, <1>20, <1>21, <1>22, <1>23, <1>24, <1>25, <1>26, <1>27,
     <1>28, <1>29, <1>30, <1>31, <1>32, <1>33, <1>34 DEF Next, InstallerNext, WizardNext,
     RemoverNext, CommandNext, WorldNext

(* An installer goes on only from what it has made.                         *)
LEMMA InstallStep ==
  ASSUME TypeOK, AgreeInv, WorkInv, InstallInv, [Next]_vars
  PROVE  InstallInv'
<1>. USE DEF TypeOK, Files, Programs, Options, InstallSteps, UninstallSteps, folder,
    registry, programs, history, AgreeInv, WorkInv, InstallInv
<1>1. CASE SilentSetup
  BY <1>1 DEF SilentSetup, SilentOptions, Begins, OneProgram
<1>2. CASE Stop
  BY <1>2 DEF Stop, GoesOn, Fails, Stops
<1>3. CASE WritePayload
  BY <1>3 DEF WritePayload, GoesOn, Fails, MovesAside, MayRefuse
<1>4. CASE CopyUninstaller
  BY <1>4 DEF CopyUninstaller, GoesOn
<1>5. CASE Configure
  BY <1>5 DEF Configure, GoesOn, Fails
<1>6. CASE InstallService
  BY <1>6 DEF InstallService, GoesOn, Fails, Registers
<1>7. CASE Register
  BY <1>7 DEF Register, GoesOn
<1>8. CASE Start
  BY <1>8 DEF Start, Fails, Starts
<1>9. CASE OpenWizard
  BY <1>9 DEF OpenWizard, OneProgram
<1>10. CASE ClickInstall
  <2>1. installer' \in {"stop", "idle"}
    BY <1>10 DEF ClickInstall, Begins
  <2>. QED
    BY <2>1
<1>11. CASE Answer
  <2>1. installer' \in {"stop", "idle"}
    BY <1>11 DEF Answer, Begins
  <2>. QED
    BY <2>1
<1>12. CASE Finished
  BY <1>12 DEF Finished
<1>13. CASE Close
  BY <1>13 DEF Close
<1>14. CASE OpenUninstaller
  BY <1>14 DEF OpenUninstaller, OneProgram
<1>15. CASE Cancel
  BY <1>15 DEF Cancel
<1>16. CASE Relaunch
  BY <1>16 DEF Relaunch
<1>17. CASE RemoveService
  BY <1>17 DEF RemoveService, Unregisters, Stops
<1>18. CASE RemoveEntries
  BY <1>18 DEF RemoveEntries, MayRefuse
<1>19. CASE RemoveFiles
  BY <1>19 DEF RemoveFiles, DeleteOrSchedule, MayRefuse
<1>20. CASE DeleteSelfLater
  BY <1>20 DEF DeleteSelfLater, MayRefuse
<1>21. CASE RemoverEnds
  BY <1>21 DEF RemoverEnds
<1>22. CASE StageOneEnds
  BY <1>22 DEF StageOneEnds
<1>23. CASE ScriptTries
  BY <1>23 DEF ScriptTries
<1>24. CASE ScriptGivesUp
  BY <1>24 DEF ScriptGivesUp
<1>25. CASE CommandInstall
  BY <1>25 DEF CommandInstall, Command, Registers
<1>26. CASE CommandUninstall
  BY <1>26 DEF CommandUninstall, Command, Unregisters, Stops
<1>27. CASE CommandStart
  BY <1>27 DEF CommandStart, Command, Starts
<1>28. CASE CommandStop
  BY <1>28 DEF CommandStop, Command, Stops
<1>29. CASE ServiceEnds
  BY <1>29 DEF ServiceEnds
<1>30. CASE DeletionEnds
  BY <1>30 DEF DeletionEnds
<1>31. CASE TrayStarts
  BY <1>31 DEF TrayStarts
<1>32. CASE TrayEnds
  BY <1>32 DEF TrayEnds
<1>33. CASE Reboot
  BY <1>33 DEF Reboot
<1>34. CASE UNCHANGED vars
  BY <1>34 DEF vars
<1>. QED
    BY <1>1, <1>2, <1>3, <1>4, <1>5, <1>6, <1>7, <1>8, <1>9, <1>10, <1>11, <1>12, <1>13, <1>14,
     <1>15, <1>16, <1>17, <1>18, <1>19, <1>20, <1>21, <1>22, <1>23, <1>24, <1>25, <1>26, <1>27,
     <1>28, <1>29, <1>30, <1>31, <1>32, <1>33, <1>34 DEF Next, InstallerNext, WizardNext,
     RemoverNext, CommandNext, WorldNext

(* An uninstaller goes on only from what it has removed.                    *)
LEMMA RemoveStep ==
  ASSUME TypeOK, AgreeInv, WorkInv, RemoveInv, [Next]_vars
  PROVE  RemoveInv'
<1>. USE DEF TypeOK, Files, Programs, Options, InstallSteps, UninstallSteps, folder,
    registry, programs, history, AgreeInv, WorkInv, RemoveInv, Undisturbed, Program
<1>1. CASE SilentSetup
  BY <1>1 DEF SilentSetup, SilentOptions, Begins, OneProgram
<1>2. CASE Stop
  BY <1>2 DEF Stop, GoesOn, Fails, Stops
<1>3. CASE WritePayload
  BY <1>3 DEF WritePayload, GoesOn, Fails, MovesAside, MayRefuse
<1>4. CASE CopyUninstaller
  BY <1>4 DEF CopyUninstaller, GoesOn
<1>5. CASE Configure
  BY <1>5 DEF Configure, GoesOn, Fails
<1>6. CASE InstallService
  BY <1>6 DEF InstallService, GoesOn, Fails, Registers
<1>7. CASE Register
  BY <1>7 DEF Register, GoesOn
<1>8. CASE Start
  BY <1>8 DEF Start, Fails, Starts
<1>9. CASE OpenWizard
  BY <1>9 DEF OpenWizard, OneProgram
<1>10. CASE ClickInstall
  BY <1>10 DEF ClickInstall, Begins, Asks
<1>11. CASE Answer
  BY <1>11 DEF Answer, Begins
<1>12. CASE Finished
  BY <1>12 DEF Finished
<1>13. CASE Close
  BY <1>13 DEF Close
<1>14. CASE OpenUninstaller
  BY <1>14 DEF OpenUninstaller, OneProgram
<1>15. CASE Cancel
  BY <1>15 DEF Cancel, NoRemover
<1>16. CASE Relaunch
  <2>1. outcome' = "none" /\ remover'.step = "service"
    BY <1>16 DEF Relaunch
  <2>. QED
    BY <2>1
<1>17. CASE RemoveService
  BY <1>17 DEF RemoveService, Unregisters, Stops
<1>18. CASE RemoveEntries
  BY <1>18 DEF RemoveEntries, MayRefuse
<1>19. CASE RemoveFiles
  BY <1>19 DEF RemoveFiles, DeleteOrSchedule, MayRefuse
<1>20. CASE DeleteSelfLater
  BY <1>20 DEF DeleteSelfLater, MayRefuse
<1>21. CASE RemoverEnds
  BY <1>21 DEF RemoverEnds, NoRemover
<1>22. CASE StageOneEnds
  BY <1>22 DEF StageOneEnds
<1>23. CASE ScriptTries
  BY <1>23 DEF ScriptTries
<1>24. CASE ScriptGivesUp
  BY <1>24 DEF ScriptGivesUp
<1>25. CASE CommandInstall
  BY <1>25 DEF CommandInstall, Command, Registers
<1>26. CASE CommandUninstall
  BY <1>26 DEF CommandUninstall, Command, Unregisters, Stops
<1>27. CASE CommandStart
  BY <1>27 DEF CommandStart, Command, Starts
<1>28. CASE CommandStop
  BY <1>28 DEF CommandStop, Command, Stops
<1>29. CASE ServiceEnds
  BY <1>29 DEF ServiceEnds
<1>30. CASE DeletionEnds
  BY <1>30 DEF DeletionEnds
<1>31. CASE TrayStarts
  BY <1>31 DEF TrayStarts
<1>32. CASE TrayEnds
  BY <1>32 DEF TrayEnds
<1>33. CASE Reboot
  BY <1>33 DEF Reboot, NoRemover
<1>34. CASE UNCHANGED vars
  BY <1>34 DEF vars
<1>. QED
    BY <1>1, <1>2, <1>3, <1>4, <1>5, <1>6, <1>7, <1>8, <1>9, <1>10, <1>11, <1>12, <1>13, <1>14,
     <1>15, <1>16, <1>17, <1>18, <1>19, <1>20, <1>21, <1>22, <1>23, <1>24, <1>25, <1>26, <1>27,
     <1>28, <1>29, <1>30, <1>31, <1>32, <1>33, <1>34 DEF Next, InstallerNext, WizardNext,
     RemoverNext, CommandNext, WorldNext

(* Nothing takes away what a finished installer has made.                   *)
LEMMA WholeStep ==
  ASSUME TypeOK, AgreeInv, WorkInv, InstallInv, InstalledIsWhole, [Next]_vars
  PROVE  InstalledIsWhole'
<1>. USE DEF TypeOK, Files, Programs, Options, InstallSteps, UninstallSteps, folder,
    registry, programs, history, AgreeInv, WorkInv, InstallInv, InstalledIsWhole
<1>1. CASE SilentSetup
  BY <1>1 DEF SilentSetup, SilentOptions, Begins, OneProgram
<1>2. CASE Stop
  BY <1>2 DEF Stop, GoesOn, Fails, Stops
<1>3. CASE WritePayload
  BY <1>3 DEF WritePayload, GoesOn, Fails, MovesAside, MayRefuse
<1>4. CASE CopyUninstaller
  BY <1>4 DEF CopyUninstaller, GoesOn
<1>5. CASE Configure
  BY <1>5 DEF Configure, GoesOn, Fails
<1>6. CASE InstallService
  BY <1>6 DEF InstallService, GoesOn, Fails, Registers
<1>7. CASE Register
  BY <1>7 DEF Register, GoesOn
<1>8. CASE Start
  BY <1>8 DEF Start, Fails, Starts
<1>9. CASE OpenWizard
  BY <1>9 DEF OpenWizard, OneProgram
<1>10. CASE ClickInstall
  <2>1. CASE outcome' = "none"
    BY <2>1
  <2>2. CASE UNCHANGED <<folder, runs, registry, config, installer, remover, script, history>>
    BY <2>2
  <2>. QED
    BY <1>10, <2>1, <2>2 DEF ClickInstall, Begins
<1>11. CASE Answer
  <2>1. CASE outcome' = "none"
    BY <2>1
  <2>2. CASE UNCHANGED <<folder, runs, registry, config, agreed, installer, options, remover, script, history>>
    BY <2>2
  <2>. QED
    BY <1>11, <2>1, <2>2 DEF Answer, Begins
<1>12. CASE Finished
  BY <1>12 DEF Finished
<1>13. CASE Close
  BY <1>13 DEF Close
<1>14. CASE OpenUninstaller
  BY <1>14 DEF OpenUninstaller, OneProgram
<1>15. CASE Cancel
  BY <1>15 DEF Cancel
<1>16. CASE Relaunch
  BY <1>16 DEF Relaunch
<1>17. CASE RemoveService
  BY <1>17 DEF RemoveService, Unregisters, Stops
<1>18. CASE RemoveEntries
  BY <1>18 DEF RemoveEntries, MayRefuse
<1>19. CASE RemoveFiles
  BY <1>19 DEF RemoveFiles, DeleteOrSchedule, MayRefuse
<1>20. CASE DeleteSelfLater
  BY <1>20 DEF DeleteSelfLater, MayRefuse
<1>21. CASE RemoverEnds
  BY <1>21 DEF RemoverEnds
<1>22. CASE StageOneEnds
  BY <1>22 DEF StageOneEnds
<1>23. CASE ScriptTries
  BY <1>23 DEF ScriptTries
<1>24. CASE ScriptGivesUp
  BY <1>24 DEF ScriptGivesUp
<1>25. CASE CommandInstall
  BY <1>25 DEF CommandInstall, Command, Registers
<1>26. CASE CommandUninstall
  BY <1>26 DEF CommandUninstall, Command, Unregisters, Stops
<1>27. CASE CommandStart
  BY <1>27 DEF CommandStart, Command, Starts
<1>28. CASE CommandStop
  BY <1>28 DEF CommandStop, Command, Stops
<1>29. CASE ServiceEnds
  BY <1>29 DEF ServiceEnds
<1>30. CASE DeletionEnds
  BY <1>30 DEF DeletionEnds
<1>31. CASE TrayStarts
  BY <1>31 DEF TrayStarts
<1>32. CASE TrayEnds
  BY <1>32 DEF TrayEnds
<1>33. CASE Reboot
  BY <1>33 DEF Reboot
<1>34. CASE UNCHANGED vars
  BY <1>34 DEF vars
<1>. QED
    BY <1>1, <1>2, <1>3, <1>4, <1>5, <1>6, <1>7, <1>8, <1>9, <1>10, <1>11, <1>12, <1>13, <1>14,
     <1>15, <1>16, <1>17, <1>18, <1>19, <1>20, <1>21, <1>22, <1>23, <1>24, <1>25, <1>26, <1>27,
     <1>28, <1>29, <1>30, <1>31, <1>32, <1>33, <1>34 DEF Next, InstallerNext, WizardNext,
     RemoverNext, CommandNext, WorldNext

(* What a finished uninstaller scheduled is gone after a restart of Windows. *)
LEMMA CleanStep ==
  ASSUME TypeOK, AgreeInv, WorkInv, RemoveInv, UninstallIsClean, [Next]_vars
  PROVE  UninstallIsClean'
<1>. USE DEF TypeOK, Files, Programs, Options, InstallSteps, UninstallSteps, folder,
    registry, programs, history, AgreeInv, WorkInv, RemoveInv, UninstallIsClean,
    Undisturbed, Program
<1>1. CASE SilentSetup
  BY <1>1 DEF SilentSetup, SilentOptions, Begins, OneProgram
<1>2. CASE Stop
  BY <1>2 DEF Stop, GoesOn, Fails, Stops
<1>3. CASE WritePayload
  BY <1>3 DEF WritePayload, GoesOn, Fails, MovesAside, MayRefuse
<1>4. CASE CopyUninstaller
  BY <1>4 DEF CopyUninstaller, GoesOn
<1>5. CASE Configure
  BY <1>5 DEF Configure, GoesOn, Fails
<1>6. CASE InstallService
  BY <1>6 DEF InstallService, GoesOn, Fails, Registers
<1>7. CASE Register
  BY <1>7 DEF Register, GoesOn
<1>8. CASE Start
  BY <1>8 DEF Start, Fails, Starts
<1>9. CASE OpenWizard
  BY <1>9 DEF OpenWizard, OneProgram
<1>10. CASE ClickInstall
  BY <1>10 DEF ClickInstall, Begins, Asks
<1>11. CASE Answer
  BY <1>11 DEF Answer, Begins
<1>12. CASE Finished
  BY <1>12 DEF Finished
<1>13. CASE Close
  BY <1>13 DEF Close
<1>14. CASE OpenUninstaller
  BY <1>14 DEF OpenUninstaller, OneProgram
<1>15. CASE Cancel
  BY <1>15 DEF Cancel
<1>16. CASE Relaunch
  BY <1>16 DEF Relaunch
<1>17. CASE RemoveService
  BY <1>17 DEF RemoveService, Unregisters, Stops
<1>18. CASE RemoveEntries
  BY <1>18 DEF RemoveEntries, MayRefuse
<1>19. CASE RemoveFiles
  BY <1>19 DEF RemoveFiles, DeleteOrSchedule, MayRefuse
<1>20. CASE DeleteSelfLater
  BY <1>20 DEF DeleteSelfLater, MayRefuse
<1>21. CASE RemoverEnds
  BY <1>21 DEF RemoverEnds
<1>22. CASE StageOneEnds
  BY <1>22 DEF StageOneEnds
<1>23. CASE ScriptTries
  BY <1>23 DEF ScriptTries
<1>24. CASE ScriptGivesUp
  BY <1>24 DEF ScriptGivesUp
<1>25. CASE CommandInstall
  BY <1>25 DEF CommandInstall, Command, Registers
<1>26. CASE CommandUninstall
  BY <1>26 DEF CommandUninstall, Command, Unregisters, Stops
<1>27. CASE CommandStart
  BY <1>27 DEF CommandStart, Command, Starts
<1>28. CASE CommandStop
  BY <1>28 DEF CommandStop, Command, Stops
<1>29. CASE ServiceEnds
  BY <1>29 DEF ServiceEnds
<1>30. CASE DeletionEnds
  BY <1>30 DEF DeletionEnds
<1>31. CASE TrayStarts
  BY <1>31 DEF TrayStarts
<1>32. CASE TrayEnds
  BY <1>32 DEF TrayEnds
<1>33. CASE Reboot
  BY <1>33 DEF Reboot
<1>34. CASE UNCHANGED vars
  BY <1>34 DEF vars
<1>. QED
    BY <1>1, <1>2, <1>3, <1>4, <1>5, <1>6, <1>7, <1>8, <1>9, <1>10, <1>11, <1>12, <1>13, <1>14,
     <1>15, <1>16, <1>17, <1>18, <1>19, <1>20, <1>21, <1>22, <1>23, <1>24, <1>25, <1>26, <1>27,
     <1>28, <1>29, <1>30, <1>31, <1>32, <1>33, <1>34 DEF Next, InstallerNext, WizardNext,
     RemoverNext, CommandNext, WorldNext

(* The first states satisfy the inductive invariant.                       *)
LEMMA InitIInv == Init => IInv
<1>. SUFFICES ASSUME Init PROVE IInv
  OBVIOUS
<1>1. TypeOK
  BY TargetsAssumption, ConfigsAssumption DEF Init, TypeOK, Files, Programs, Options, NoOptions, InstallSteps,
     UninstallSteps, NoRemover, Config
<1>2. AgreeInv
  <2>1. Load(config) \in Config
    BY <1>1, LoadType DEF TypeOK
  <2>2. CASE config = NoFile
    BY <2>2, LoadType DEF Init, AgreeInv, NoOptions, DefaultConfig
  <2>3. CASE config # NoFile
    BY <2>1, <2>3 DEF Init, AgreeInv, NoOptions, Load, Config
  <2>. QED
    BY <2>2, <2>3
<1>3. WorkInv /\ InstallInv /\ InstalledIsWhole /\ UninstallIsClean
  BY DEF Init, WorkInv, InstallInv, InstalledIsWhole, UninstallIsClean, NoRemover
<1>4. RemoveInv
  BY DEF Init, RemoveInv, Undisturbed, NoRemover
<1>. QED
  BY <1>1, <1>2, <1>3, <1>4 DEF IInv

(* IInv, which says what each program has made, removed or been allowed to  *)
(* write by each of its steps, is an invariant (install, uninstall,         *)
(* startInstall).                                                           *)
THEOREM Inductive == Spec => []IInv
<1>1. IInv /\ [Next]_vars => IInv'
  BY TypeStep, AgreeStep, WorkStep, InstallStep, RemoveStep, WholeStep, CleanStep DEF IInv
<1>. QED
  BY InitIInv, <1>1, PTL DEF Spec

(* Every variable of the installer's world keeps its type.                  *)
THEOREM TypeCorrect == Spec => []TypeOK
<1>1. IInv => TypeOK
  BY DEF IInv
<1>. QED
  BY Inductive, <1>1, PTL

(* What an installer reports without a warning is there, whatever kept      *)
(* files in use and through every restart (InstallerCore's install).        *)
THEOREM InstallIsWhole == Spec => []InstalledIsWhole
<1>1. IInv => InstalledIsWhole
  BY DEF IInv
<1>. QED
  BY Inductive, <1>1, PTL

(* What an uninstaller reports as removed is gone after the next start of   *)
(* Windows (InstallerCore's uninstall, deleteOrSchedule).                   *)
THEOREM RemovalIsClean == Spec => []UninstallIsClean
<1>1. IInv => UninstallIsClean
  BY DEF IInv
<1>. QED
  BY Inductive, <1>1, PTL

(* The installer never writes a policy nobody agreed to (applyChoices,      *)
(* confirmThenInstall).                                                     *)
THEOREM PolicyIsAgreed == Spec => []PolicyWasAgreed
<1>1. IInv => PolicyWasAgreed
  <2>. SUFFICES ASSUME IInv PROVE PolicyWasAgreed
    OBVIOUS
  <2>1. Load(config) \in Config
    BY LoadType DEF IInv, TypeOK
  <2>. QED
    BY <2>1, TargetsAssumption DEF IInv, AgreeInv, PolicyWasAgreed, Config
<1>. QED
  BY Inductive, <1>1, PTL
=============================================================================
