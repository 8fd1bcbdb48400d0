# Audioslave in TLA+

Audioslave is a Windows service that keeps the names, the default format and
the exclusive-mode setting of the audio endpoints the way its configuration
says, and disables endpoints that cannot take the chosen format.  It has a
service (the engine, its SCM shell and a named pipe), a tray application with
a settings page, a command line and an installer.

This directory holds TLA+ modules translated from the code, the TLC
configurations that check them on small instances, and theorems that hold for
every value of the constants, with proofs checked by TLAPS.  Paths below are
relative to `src/` of the repository (`core/WatchdogEngine.cpp` is
`src/src/core/WatchdogEngine.cpp`).

    tlc -workers 2 -config WatchdogEngine.cfg MCWatchdogEngine.tla
    tlapm WatchdogEngineProofs.tla

## 1. Inventory

For each component: its state, its operations, what it talks to, what is hard
about it, and what makes it correct.

### WatchdogEngine (`core/WatchdogEngine`)

* State: the atomics `state_`, `pauseRequested_`, `rescanPending_`,
  `fullScanPending_`, the JUCE thread's exit flag and auto-reset event, three
  locks (`scanLock_`, `modifyLock_`, the data lock), the configuration, the
  failure memory, the capabilities cache, the status it publishes.
* Operations: `start`, `stop`, `pause`, `resume`, `scan`, `setConfig`,
  `renameDevice`, `enableDevice`, `analyze`, `requestFullScan`, and the
  watcher's `onDeviceChange`; the worker's `run` and the pass `scanOnce` with
  `handleIncompatible` and `handleDisabledByAudioslave`.
* Talks to: the audio backends (synchronously), listeners (the host), the
  `DeviceStateStore`.
* Hard: a pass runs on the worker or on a command's thread and checks whether
  it may change devices at three places without one lock around them; the
  worker must not lose a notification that arrives between any two of its
  steps; notifications are often the echo of its own changes.
* Correct when: PAUSED means no pass is changing a device; no change or request
  is slept on; `pause` and `stop` return; loop protection bounds what the
  policy does to a device; the user's own choices stand; what Audioslave
  disabled can always be enabled again.

### DeviceStateStore and EndpointMemory (`core/`)

* State: `devices.json`, one record per endpoint Audioslave has disabled
  (disabled, left enabled, times of the disables); in memory, the last failure
  and the notices given.
* Operations: `find`, `put`, `remove`, `resetHistory`, the size-bounded
  history; `recordFailure`, `forget`, `inBackoff`.
* Hard: the record is written after the change in Windows it stands for; a
  pass keeps a copy of it; a restart reads it back under settings that may
  have changed.
* Correct when: the record and Windows agree about whose the device is.

### ServiceHost and WindowsService (`service/`)

* State: three queued-request flags and a stop flag, the wake event,
  `stopping_`, `controlLock_`, the engine, watcher and pipe it owns; the
  status reported to the SCM, the pointer to the host and its mutex.
* Operations: `run`, `requestPause`/`Resume`/`Reload`/`Stop`,
  `processQueuedRequests`, `apply` (every command), `onStarted`,
  `onStateChanged`, `controlHandler`, `serviceMain`.
* Talks to: the SCM (dispatcher thread), the pipe's connection threads, the
  engine and its listeners.
* Hard: controls of the SCM and commands of the pipe arrive on different
  threads while the service starts, runs and shuts down; each report compares
  with a status read earlier.
* Correct when: no request reaches an object that is gone; a stop always
  completes and is never reported back to active; the SCM's status is the
  engine's.

### PipeServer, ControlClient, Protocol (`ipc/`)

* State: the list of connections and its lock, the instance that listens, a
  thread and a write lock for each connection, the stop event; the client's
  pending replies, by id, and its reader thread.
* Operations: `start`, `stop`, `broadcast`, the accept loop, a connection's
  `run`; `connect`, `send`, `request`, `messageReceived`, `connectionLost`.
* Talks to: the host (handler, status), the tray and the command line.
* Hard: replies and broadcasts share a connection; a broadcast writes to
  every client with a lock held; both sides may close at any moment; the number
  of connections is bounded, and finished ones count until the next accept.
* Correct when: each request is answered at most once and by its own reply, a
  waiting caller always returns, a client that does not read holds nobody up
  for ever, and `stop()` ends.

### Configuration (`config/`)

* State: `config.ini`, which people edit by hand, and the `Config` read from it.
* Operations: parsing with a default for what does not parse, saving, and the
  confirmation of the disable policy, which is valid for one format only.
* Hard: the file, the running configuration and what every reader remembers of
  either are four different things.
* Correct when: the policy never acts on a format nobody agreed to.

### Format and exclusive-mode policies (`core/FormatPolicy`, `FormatCompatibility`, `ExclusiveModePolicy`)

* Pure: the candidate formats for a target, their order, whether an endpoint
  has, takes or rejects the format; then write and verify against Windows.
* Hard: a driver that says it accepts a format and does not keep it; a write
  that fails; a write that comes back as a notification and starts a pass.
* Correct when: the device ends in the state the settings ask for, and what
  fails is not tried again without end.

### Tray application (`app/`), ServiceController (`service/`), command line (`cli/`)

* State: the message thread's queue, two background threads, the connection, a
  busy flag, the last status and event number shown, dialogs and an open menu;
  the settings page with its own copy of the settings and its changes.
* Operations: a timer, the handlers of statuses, replies, made and lost
  connections, the menu and the buttons, the exit, the portable host;
  `preview`, `configure` and the dialogs of the settings page; starting and
  stopping through the pipe or the SCM, with a polling wait.
* Hard: an answer, the loss of the connection, the end of a job and a click
  arrive in any order; statuses overtake one another; the program is closed in
  the middle of a command; a question is answered after its subject changed.
* Correct when: the buttons never stay blocked, an exit ends, the icon and the
  page end on the truth, each event is announced once, nobody's device is
  disabled without having been asked.

### Installer (`installer/`)

* State: the installation folder, the names Windows deletes at its next start,
  the processes that keep files in use, the service's registration, the
  registry's entries, `config.ini`.
* Operations: the wizard and the silent setup, `install` step by step, the two
  stages of the uninstaller, the script it leaves behind.
* Hard: every step may fail; files are in use by the service, by trays of other
  sessions and by the uninstaller itself; Windows may restart between any two
  steps; there is no rollback.
* Correct when: what is reported as installed is whole and stays so, what is
  reported as removed is gone after a restart, the policy was agreed to.

### Audio backends, logging, platform

* Calls into Windows (COM), files and wrappers.  The models see a backend as
  an operation that succeeds, is refused, or cannot tell.

`PROJECT.json` lists all of these with their status, and every hazard at its
line in the code.

## 2. The modules

| Module | Models | Composed with |
|---|---|---|
| `PauseGate` | what `WatchdogEngine.h` promises of pausing and stopping | refined by `WatchdogEngine` |
| `Consent` | what `Configuration.h` and `WatchdogEngine.h` promise of disabling devices | refined by `Settings` |
| `ServiceLife` | what the SCM may rely on of the states that are reported | refined by `ScmService` |
| `Restraint` | what `DeviceStateStore.h` promises of how often, and when, a device is disabled | refined by `DevicePolicy` |
| `WatchdogEngine` | the engine's threads, locks, atomics and event | |
| `DevicePolicy` | one endpoint: what the disable policy decides, changes and records | opens the step `modify` of `WatchdogEngine` |
| `Endpoint` | one endpoint: name, exclusive mode, capabilities, format, verdict | the rest of that step |
| `ScmService` | SCM, `WindowsService`, `ServiceHost`, life of pipe and engine | the engine is its state |
| `ControlChannel` | `PipeServer`, `ControlClient` and the pipes between them | the host is its handler |
| `Settings` | `config.ini`, settings page, prompt, notices, console and one service | the channel carries statuses and requests |
| `Tray` | the tray's message thread, jobs and portable host | the channel and the host, a step each |
| `Setup` | installer, uninstaller, registration, Windows' restarts | the service is a process that keeps a file |
| `MC...` | values for the constants | for TLC |
| `...Proofs` | theorems | for TLAPS |

The detailed modules cut the system at interfaces the code has.
`WatchdogEngine`, `DevicePolicy` and `Endpoint` meet at the critical section of
`modifyLock_`: the first shows that sections exclude one another and do not run
while PAUSED, and the others assume the exclusion (`Critical` in `DevicePolicy`)
and open the section: `DevicePolicy` for what is remembered across passes and
restarts, `Endpoint` for what one pass does with a driver.  `ScmService` and
`WatchdogEngine` meet at `pause()`, `resume()` and `stop()`: the first shows that
commands run one at a time and are over before `stop()` is called, and the second
assumes it (`Begin` takes `controlLock`, `StopBegins` waits for callers and
watcher).  `ControlChannel` opens what `ScmService` takes for one step,
`JoinPipe`: that `stop()` ends, whatever the connections are doing.  `Settings`
and `Tray` take from `ControlChannel` what it shows of a call (its reply or the
loss of its connection comes once) and keep what it leaves open: statuses built
by several threads overtake one another.  `DevicePolicy`, `Settings` and `Setup`
each have the confirmation of the policy: the first asks what a pass may do with
it, the second how it comes to be in `config.ini` while the program runs, the third
how the installer writes it.

### 2.1 WatchdogEngine

One variable per shared object: `state`, `pauseRequested`, `exitRequested`,
`rescanPending`, `fullScanPending`, `signalled` (the auto-reset event),
`controlLock`, `scanLock`, `modifyLock`.  `pc` says where each thread is; the
worker's locals are `kind`, `retry` and `debounce`; `todo` is the rest of the
pass in progress.  A step is one access to a shared object.  In particular

* `canModify()` is two loads, so the check before a pass is `GateState` and
  `GateRequested`, with `pause()` free to run in between, before, or after;
  `Recheck` under `modifyLock` is one step, because `pause()` changes `state_`
  only with that lock (`PauseCas`) and, whichever of the two values is read
  first, a pass that sees the earlier `pauseRequested_` is one `pause()` waits
  for;
* `requestRescan` stores its flag and then notifies, in two steps;
* `run` consumes the event, exchanges `rescanPending_`, waits out a burst of at
  most `MaxDebounce` rounds, and only then exchanges `fullScanPending_`.

Two history variables say what is owed: `unseen` (a device changed and no pass
has listed the devices since) and `fullOwed`.

Callers run the commands: pause, resume, scan or reload (a request), configure
(a pass of their own), rename or enable (a change under `modifyLock_`).
`PauseGate` is the abstract specification: a pass changes a device only while
RUNNING, and PAUSED or STOPPED begins only when no change is in flight.
`ImplementsGate` maps `busy` to "some pass is at `modify`".

### 2.2 DevicePolicy

The endpoint in Windows (`winState`), its record in `devices.json` (`rec`), `config.ini` and the running configuration (`file`,
`config`), the failure backoff (`failed`), and one pass with its locals (`cfg`,
`seen`, `mine`).  A pass enumerates, looks up the record (reading the device a
second time if it seems to be back), judges, decides under `modifyLock_`,
checks, changes, verifies, and records: each reads or writes one thing, so that
the user, a driver, a hand edit or a restart fits in between.  What a pass does
about names and exclusive mode is reduced to what it leaves behind: a failure, or
nothing.

`setConfig` holds neither `modifyLock_` nor `scanLock_`, so it is two steps and a pass
fits between them: `SetConfig` publishes the configuration
(`core/WatchdogEngine.cpp:199`), `StartOver` resets the histories (204).  `command`
has what the command in progress has yet to do: the reset, and for a `configure` its own pass.

Times are ages: each disable in the record is 0..`Window` ticks old, and an age
stops at `Window`, which is all `handleIncompatible` asks of it.  `strikes` is a
history variable with the ages of the disables that were verified since the
policy last changed or the history was last started over; the code has no such list,
and `NoLoop` says that what the code does keep is enough to bound it.  A pass between
the two steps of `setConfig` may use up the bound before the reset and a later one again
after it, so the bound is per start of the history: under one policy a window
may have twice `MaxDisables` disables, and no more.

`Restraint` is the abstract specification: a policy in force, the one the running
pass has read, the user's choice to keep the device enabled, and the ages of the last
disables.  A pass disables only for a policy that asks for it, with room in the
window and without a choice against it; the choice is dropped only by a change of the
settings or by a pass that has read a policy that does not ask for the device.  The
count starts over with a change of the settings and, since `setConfig` is two steps,
once more afterwards (`renewal`, `StartsOver`).
`ImplementsRestraint` maps the choice to the record's `leftEnabled`, the ages
to `strikes`, and `renewal` to the reset that `command` has yet to make.  Two more
weaknesses of the code are in the abstract steps too (section 5): the
policy that drops the choice may be one of before (`Forgets`), and a pass may put
back a choice that it has read (`Keeps`).

`Faults` selects what may go wrong besides refusals: "race" (devices change
while a pass looks at them), "crash" (the service dies inside a pass),
"unreadable" (Windows does not tell a state).

### 2.3 ScmService

`scm` is the status last reported, `saw[t]` the status thread `t` read before
deciding what to report: reading and reporting are two steps of `onStateChanged`
and of `controlHandler`, as in the code, where the status lock is released in
between.  The main thread goes from `serviceMain` through `run`'s startup, its
loop (`Wait`, then one exchange for each flag), shutdown in the code's order
(flag, pipe, connections, engine), to the destruction of the host.  `apply` is the
same few steps for the main thread and the connections (`LockControl` to
`Report`).  The dispatcher thread passes on a control only when the reported
status accepts it, which is the SCM's own rule.

`ServiceLife` is the abstract specification, without threads: the service is
starting, serving, ending or over, may tell any active or pending state while it
serves, only pending ones while it ends (the handler may still answer a control
that was accepted before), releases its engine, and only then says STOPPED, once.
`ImplementsLife` takes the phase from where the main thread is (`LifeNow`): the
end begins when the engine's listener, which the main thread runs inside `stop()`,
is through with the engine's stopping, or when the startup has failed.

### 2.4 ControlChannel

The server's side: `server` (how far `stop()` has got), `accepting`, the list
`connections`, what each connection's thread does (`phase`), `connectionsLock`
and the host's `controlLock`, and for each broadcast in progress the pipes it has
not reached (`todo`).  A broadcast takes the lock, writes to one pipe at a
time, and gives the lock back, so that everything else may happen between two
writes.  A command that publishes does so while it holds `controlLock`.  A write
to a full pipe pends until there is room, until `stop()`, or until the time is
up, which a client brings about only by not reading (`Careless`).

A finished connection stays in the list until the next `Accept`, counts until
then, and its client sees no end of its pipe until then (`Disconnect`).

The client's side: the pipe it has open (`Closed` and `Broken` when it has none
or the server has closed it), what the reader thread has posted (`queue`),
`pending`, and a `send()` in two steps, `Register` and `Transmit`.  A tray handles
what was posted on its message thread, never in the middle of a send; a console
on the reader thread, at any time.  A frame is its request's id or a status;
what a status says, the framing, and a frame that is cut off are left out.

The handler may throw at any place (`Throws`).  Its locks are given back and the
connection goes on, but the answer has id 0 (`ipc/PipeServer.cpp:124`), which is no
request's: the client takes no notice of it and keeps the callback until the connection ends.
`thrown` is a history variable with those requests, which `CallsReturn` excepts
while the connection lasts.

### 2.5 Endpoint

`device` is the endpoint in Windows: state, name, the two exclusive-mode flags,
the format, and what its driver accepts.  `pass` is where the pass is and what it
has read: `restoreName`, the
exclusive-mode flags, `capabilitiesFor` with its cache, the candidates in their
order, `setDeviceFormat` with its read-back, the verdict, and disabling or enabling.  Each call into Windows is a step, and
between any two of them the user, a driver update, a change of layout, a rename
by command, `analyze` or a diagnosis may write.  A write leaves a notification in
`notes`, `Deliver` is `onDeviceChange` and queues a pass.

`Format`, `Candidates`, `Accepted`, `Probe` and `Verdict` are `FormatPolicy` and
`FormatCompatibility` over sets: a driver is the set of formats it accepts, a
layout changes what it says, a depth of 24 or 32 bits has two encodings.  `broken` are the
writes this driver never keeps, `faults` counts calls that fail once.  `tries` is a
history variable: failed writes since anything but the engine acted.

Enabling and reading the state back is one step, and so are the short locks of
`onDeviceChange`.  An enumeration that fails is in `WatchdogEngine`; the history of
disables and `leftEnabled` are in `DevicePolicy`.

### 2.6 Settings

`file` is `config.ini`, `cfg` the configuration the engine has, and everybody
else has a copy that was true once: a pass (`pass`), a thread that builds a
status (`held`, in two steps, since `snapshot` reads the configuration and the
engine's status apart), requests on their way (`calls`), the page (`view`: what it
believes is saved, what is chosen, whether that is dirty, what was captured when a
dialog was opened), the prompt, the console.  `people` click, answer dialogs, type
commands and edit keys of the file (`HandEdits`), the tray's connection goes and
comes.  `ReadsStatus` and `Sends` are two steps of `publishStatus`, so that a later
status may be sent first.

`paused` is the engine's state: no pass begins and none changes the device
(`ScanUnlessPaused`), but commands and the reload of the file go on.  `Pause` and a
reload that resumes publish a status (`Publishes`).  Nobody has to resume.

`agreed` is a history variable: the targets for which somebody answered yes to a
question about the devices that will be disabled, or typed the command with `--yes`.  It
is what `PolicyWasAgreedTo` compares the confirmed configuration with.  Settings
travel as records with the keys they have in JSON, and a key that is missing is
the default (`Property`), as in `Protocol.cpp`.

`Consent` is the abstract specification: somebody agrees to targets, the policy
in force is for one of these or for none, a pass finds one in force and leaves
the device disabled exactly when that one is for a target the driver does not take.
While the monitoring is paused no pass changes the device.
There are no files, statuses, requests or dialogs in it.  `ImplementsConsent` maps
`policy` to the running configuration's confirmed policy and `judged` to that of the
copy the running pass has (`PolicyOf`); everything else stutters.

### 2.7 Tray

Everything that reaches the message thread from elsewhere goes through `inbox`
and is handled to its end by one action: `ControlConnected`,
`ControlDisconnected`, `StatusPushed`, `ReplyReceived`, the ends of jobs
(`Connected`, `ServiceStarted`, `ServiceStopped`), the quit event (`Shutdown`).  `jobs` has the background jobs in order, of which two run (`Job`); a job
waits for the SCM with a timeout.  The host (`host`, `run`, `stopQueued`) is
started, stopped, paused by others, crashes, recovers and is uninstalled
(`Troubles`); in portable mode the tray starts it itself, at most `MaxRestarts`
times.  `held` is the status that a thread of the host has built and not yet sent.

A menu keeps the items it was opened with (`menuItems`), and a click comes
after whatever else arrived in between.  The modal dialogs are in `dialogs`.

### 2.8 Setup

`disk` has the names in the installation folder and the copy in `%TEMP%`,
`scheduled` those that go at the next start of Windows, `runs[p]` the file a
process runs from.  A running program can be moved aside but not deleted
(`MovesAside`, `DeleteOrSchedule`), and a file that was moved is the version before.
`installer` is the next step of `install`, each of which may fail ("io"); the service
may be slow to stop ("slow") or be kept by somebody's handle ("held").  `remover`
is the uninstaller, whose first stage copies itself and ends, and whose second works
from `%TEMP%` beside whatever is started meanwhile; `script` is what it leaves.
`Reboot` may come between any two steps.

`uninstall` asks neither whether a registry key, a folder or a file was deleted nor
whether a deletion was accepted for the next start
(`installer/InstallerCore.cpp:73`, `365`), so Windows may refuse any of it for what is
in `Stubborn`, unnoticed (`MayRefuse` in `RemoveEntries`, `RemoveFiles`, `DeleteOrSchedule`,
`DeleteSelfLater`, `MovesAside`).  `missed` is history: what the last uninstaller could
not remove in this way.  "apps" and "run" stand for the entries of the registry,
each as a whole; the shortcut in the Start Menu and the event source, which are removed
in the same unchecked way, are not told apart from them.

`outcome`, `warned` and `undone` are history too: what was reported last, whether the
log has a warning, whether an uninstaller worked in this session of Windows.

## 3. What is checked

| Run | Instance | Distinct states | Properties |
|---|---|---|---|
| `engine` | 1 caller, 1 endpoint, 2 debounce rounds, fairness | 164,477 | `TypeOK`, `PausedMeansIdle`, `NoLostWakeup`, `PauseReturns`, `EveryChangeSeen`, `FullScanRuns`, `StopTerminates`, `ImplementsGate` |
| `policy` | 3 configurations, 2 disables, window 1, races, fairness | 122,877 | `LeftEnabledKept`, `NoLoop`, `OursIsRecorded`, `ImplementsRestraint`, `NotStranded`, `PolicyReturns` |
| `policy_user` | 3 configurations | counterexample | `UserDisabledUntouched` is violated |
| `policy_told` | 3 configurations, 1 disable, window 1 | counterexample | `LeftUntilSettingsChange` is violated |
| `scm_service` | 1 connection, fairness | 283,098 | `HostAlive`, `EngineAlive`, `ImplementsLife`, `StopCompletes`, `SettlesAlone` |
| `channel` | a tray, a careless console, 2 pipes, 1 connection at once, room for 1 frame, 1 request each, a handler that may throw, fairness | 181,950 | `TypeOK`, `AnsweredOnce`, `BroadcastsAreSafe`, `TrayKnows`, `CallsReturn`, `StopNeverHangs` |
| `tray` | both modes, 4 acts, 2 runs of the host, 1 portable restart, every trouble, fairness | 359,387 | `TypeOK`, `BusyMeansWork`, `ExitEnds`, `ShowsRunning` |
| `settings` | 2 targets, the driver takes one, 2 acts (a pause among them), fairness | 192,458 | `TypeOK`, `ToldExactlyOnce`, `ImplementsConsent`, `PageKnowsSettings` |
| `settings_consent` | the standardization edited by hand | counterexample | `PolicyWasAgreedTo` is violated |
| `endpoint` | 2 layouts, 2 targets, 2 drivers, 1 change, 1 fault, writes that never stick, fairness | about 557,000 | `TypeOK`, `NoWriteStorm`, `Settles`, `NameKept` |
| `setup` | 2 targets, 2 programs, 1 command, every trouble, an executable and an Apps entry that may resist | about 5,900,000 | `InstalledIsWhole`, `UninstallIsClean`, `PolicyWasAgreed` |
| `setup_lasts` | 2 programs, no trouble | counterexample | `InstallLasts` is violated |

What they show:

* **PAUSED means no pass is changing a device.**  The unlocked check before a
  pass is not enough; the mutant without the check under `modifyLock_`
  (`RecheckSkipped`) breaks `PausedMeansIdle`, the one without
  `pauseRequested_` (`PauseFlagSkipped`) lets passes overtake `pause()` for
  ever, since a critical section is not fair to its waiters.
* **No wake-up is lost**, although flag and event are separate, the worker
  clears the flag again after a burst, and takes the full-scan flag later still
  (`NoLostWakeup`, `EveryChangeSeen`, `FullScanRuns`).  A burst that never ends
  cannot postpone the scan: this is what the bound on the rounds is for
  (mutants `DebounceUnbounded`, `TakeRescanKeepsRounds`).
* **Loop protection holds** across passes that work on copies of the record, a
  user who keeps the device, edits and restarts, and passes in the middle of
  `setConfig`, and only delays the policy
  (`NoLoop`, `PolicyReturns`), though the user is told that it does more (`policy_told`); **nothing is stranded** (`NotStranded`) nor
  taken from the user by a pass in flight (`LeftEnabledKept`); all of it is what
  `Restraint` allows (`ImplementsRestraint`; mutant `DecideForgives`).
* **The service winds up in an order that is safe for every thread**: the
  handler against the destruction of the host, connections against that of the
  engine, late listeners against STOP_PENDING (`HostAlive`, `EngineAlive`,
  `StopCompletes`, and the theorem `EndingIsFinal`), and **what it tells the SCM
  is the life of a service** (`ImplementsLife`): an engine is gone before STOPPED
  is reported (mutant `JoinEngineTells`).
* **Replies, broadcasts and the end of connections do not trip over each
  other**: a callback that a failed write, a lost connection and a late reply
  all want to run is run once (`AnsweredOnce`); the list of connections
  changes only between broadcasts (`BroadcastsAreSafe`); a tray told late that
  it was connected is also told that it no longer is (`TrayKnows`).  A client
  that never reads, or a handler that throws, holds up neither the others' requests nor
  `stop()`: this
  is what `writeTimeoutMs` and the stop event are for (`CallsReturn`,
  `StopNeverHangs`; mutants `BroadcastForever`, `ReadEndsWithClient`).
* **The engine does not chase its own tail**: its writes come back as
  notifications and start passes, but between two events from outside at most four
  writes fail (`NoWriteStorm`; mutant `ReadFormatForgives`), and still the
  device ends as the settings ask (`Settles`; `DeliverKeepsFormats` answers from
  a stale cache) with its name (`NameKept`; `RenameSavedOnly` loses the race of a
  rename with a pass that restores the old one).
* **Nobody's device is disabled unasked** while the program alone changes its
  settings (`ImplementsConsent`, which says of every pass what `PolicyWasAgreedTo`
  says of the configuration in force, and `PolicyWasAgreed`), although pages, prompts and
  consoles answer with what was true some time ago; **each event is announced
  exactly once** and the page ends on the settings in force, although statuses
  overtake one another, unless the service is paused for good, when no pass sends a
  later one (`ToldExactlyOnce`, `PageKnowsSettings`).
* **The tray never stays blocked**: for each operation that disables the
  buttons something is left that enables them, in every order of replies, lost
  connections, jobs and crashes (`BusyMeansWork`; `DisconnectedSilently`), an
  exit ends (`ExitEnds`; `ReplyWithoutFallback`), and the icon ends on the state
  of a host that keeps running (`ShowsRunning`; `ConnectedKeepsFlag`).
* **What setup reports is so**, with files kept in use by any process and
  restarts of Windows anywhere: an installation is whole (`InstalledIsWhole`) unless an
  uninstaller worked in the same session (`setup_lasts`), and a removal leaves nothing
  but what Windows refused to delete, which nobody reports (`UninstallIsClean`).

Each property of a passing run has a mutant, an operator beside the definition it
would replace (its comment says "Mutant of"), under which TLC finds that property
violated.  `policy`, `scm_service` and `setup` do not list `TypeOK`: the proofs have it, and
the questions worth a run are others.

### Bounds

* One caller: what matters is one command against worker and watcher, since
  callers meet only at `controlLock_`.  The proofs are for any set of callers and
  endpoints.
* `MaxDebounce` is 10 in the code and 2 here: one round that goes on, one that
  hits the bound.
* `MaxDisables` is 5 in the code and 2 here, and the window 1 tick.  Two disables
  in a window use up the bound, and a third waits for both to leave it.  `NoLoop` and
  the refinement are proved for all values.  `policy_told` needs one disable only.
* Time passes between passes (`Tick` needs `pc = "idle"`): a pass takes moments
  and the window is minutes.
* The three configurations are those between which the policy changes its mind
  about the endpoint: off, confirmed for a format the driver rejects, and confirmed for one it
  takes.  The proofs are for any set of configurations, unconfirmed, report-only and
  unmonitored ones included.
* One pipe connection in `ScmService`: connections meet only at `controlLock_`.
  The proofs are for any number.
* In `ControlChannel` a pipe holds one frame, so that every second write pends,
  and one connection is served at once (16 in the code), so that clients are
  turned away; the second pipe is the one that listens.  `MaxCalls` bounds a
  client's requests and, for a console, its connections.
* `Endpoint`: the two drivers are one that takes 96 kHz in stereo only, in the
  second encoding, and one that never does and has a rate of its own in surround;
  the configurations are everything on, and report only.  One change from outside
  and one call that fails meet every step of a pass, and the writes that never
  stick are none, or name and flags.  `NoWriteStorm` is proved for any number of changes
  and faults; its potential was first checked with three faults and no change, and with
  two faults and every set of writes that never stick (5.9 million states).
* `Settings`: an act is a hand edit, a command of the console, a pause or a lost
  connection; two are enough for a change behind the page's back and a status
  or question that is stale by it.  What people do in the page is not bounded.
* `Tray`: four acts of users, others and troubles (say an exit, a crash, a
  restart and a second exit), one portable restart (5 in the code), two runs of
  the host.  `MaxInbox` bounds only what repeats (statuses, ticks, the quit event)
  when a message waits already; replies and ends of jobs are always added.
* `Setup`: two programs are an update, a removal, an installation after one, or
  one beside the other's second stage.  What may resist deletion is the executable,
  which is moved aside and scheduled too, and the Apps entry; the theorems are for
  any set.
* Nothing is cut by a state constraint; the counters above are the only
  bounded ones.  `Tray` does not check for deadlock, because a tray that was
  closed, with its bounds used up, is the end.

### Fairness

Weak fairness for the steps of every thread that has started.  No fairness for
what nobody owes: commands, clicks, device changes, stop, failures.  In
`WatchdogEngine` the check interval is not owed either: changes are seen without
help from the periodic scan.

Strong fairness where an obstacle may come back but does not stay:

* `WatchdogEngine`: an enumeration that may fail does not fail for ever; the
  worker's `modifyLock_` against renames and enables, which people issue one
  round trip at a time.  None for `pause()`'s lock: the code does not need it.
* `DevicePolicy`: full passes keep coming (the interval, or the end of a
  burst), get past the enumeration and the pause check (`Enumerate`,
  `JudgeDisabled`, `JudgeIncompatible`), time passes, and what Windows refuses
  (`Disable`, `Enable`) it does not refuse for ever.  So the engine is not paused
  for good here, and the two steps of `setConfig` need not end.  Without the fairness of
  `JudgeDisabled` the engine could be paused at the same point of every pass.
* `ScmService`: `controlLock_`, as above.
* `ControlChannel`: `connectionsLock`, `controlLock` and room in a pipe
  (`Accept`, `ConnectionStep`, `StopStep`), which others have for moments.  A
  client reads and handles what was posted only if it is not careless, and
  nobody owes a connection.  A tray's connecting again is not claimed: clients
  that come and go for ever may take the listening instance every time it looks.

Weak fairness only, in the newer modules:

* `Endpoint`: the pass that has begun, the periodic pass
  (`CheckIntervalSeconds`), the end of the backoff, the delivery of a
  notification, and calls of other threads that have begun.
* `Settings`: passes begin, unless the engine is paused, and end, each thread of the
  host that builds a status sends it, and the tray's timer reconnects.  Nobody has to
  resume a paused engine.
* `Tray`: the message thread handles what waits, the timer ticks, jobs end
  (their waits have timeouts), a host that is starting or stopping gets there, serves and
  sends, and a running one publishes at its interval.
* `Setup` claims safety only.

## 4. What is proved

For every value of the constants that satisfies the module's named assumption
(`EngineAssumption`, `PolicyAssumption`, `ServiceAssumption`,
`ChannelAssumption`, `EndpointAssumption`, `SettingsAssumption` and
`NothingAssumption`, `TrayAssumption`, `TargetsAssumption` and
`ConfigsAssumption` of `Setup`: threads are distinct,
bounds are positive, values that stand for "none" are not values):

| Theorem | States |
|---|---|
| `WatchdogEngineProofs!Inductive` | `IInv` is an invariant |
| `TypeCorrect`, `PauseIsSafe`, `WakeupIsSafe` | `TypeOK`, `PausedMeansIdle`, `NoLostWakeup` |
| `EngineImplementsGate` | the engine implements `PauseGate` |
| `DevicePolicyProofs!Inductive` | `LoopInv` is an invariant |
| `TypeCorrect`, `LoopProtection`, `ChoiceIsKept` | `TypeOK`, `NoLoop`, `LeftEnabledKept` |
| `PolicyKeepsRestraint` | the policy implements `Restraint`, with every fault and passes between the steps of `setConfig` |
| `NothingIsOrphaned` | `OursIsRecorded`, if the service does not crash inside a pass and Windows always tells a state |
| `ScmServiceProofs!Inductive` | `IInv` is an invariant |
| `TypeCorrect`, `HandlerIsSafe`, `CommandsAreSafe` | `TypeOK`, `HostAlive`, `EngineAlive` |
| `EndingIsFinal` | `NoRevival`: a service that is stopping is never reported active again |
| `ServiceImplementsLife` | the service implements `ServiceLife` |
| `EndpointProofs!Inductive` | `IInv` is an invariant: the types, `PassKnows` and `Bound` |
| `TypeCorrect`, `WritesBounded` | `TypeOK`, `NoWriteStorm` |
| `ControlChannelProofs!TypeCorrect`, `BroadcastSafety`, `RepliesOnce`, `TrayIsRight` | `TypeOK`, `BroadcastsAreSafe`, `AnsweredOnce`, `TrayKnows` |
| `SettingsProofs!Announces` | `ToldInv` is an invariant, whatever is edited by hand |
| `AnnouncedExactlyOnce` | `ToldExactlyOnce` |
| `SettingsProofs!Inductive` | `TypeOK` and `ConsentInv`, if nobody switches the standardization on by hand |
| `TypeCorrect`, `ConsentIsReal` | `TypeOK`, `PolicyWasAgreedTo`, on the same condition |
| `KeepsConsent` | the settings, the service and its passes implement `Consent`, on the same condition |
| `TrayProofs!Inductive` | `TypeOK`, `NothingLeft` and `BusyMeansWork` |
| `TypeCorrect`, `NeverStuckBusy` | `TypeOK`, `BusyMeansWork` |
| `SetupProofs!Inductive` | `IInv` is an invariant |
| `TypeCorrect`, `InstallIsWhole`, `RemovalIsClean`, `PolicyIsAgreed` | `TypeOK`, `InstalledIsWhole`, `UninstallIsClean`, `PolicyWasAgreed`, whatever Windows may refuse to delete |

### The engine

`PausedMeansIdle` says nothing of how a pass came to be at `modify`.
`LockInv` supplies it: who holds each lock follows from where the threads are,
so a pass at `modify` has `modifyLock` and no `PauseCas` can happen.  That the
state is not PAUSED when a pass arrives at `modify` is what `Recheck` has just
seen.  `PauseInv` (the flag is lowered only when the state has left RUNNING)
and `StopInv` (nobody else is left once `stop()` begins) close the other ways.

`NoLostWakeup` needs to know where a change waits to be noticed.  `UnseenInv`
lists the places: a request on its way, the event, a worker that is awake but has
not enumerated, a retry that will be short, or an engine that may not change
devices and will ask for a full scan when it resumes.  `FullInv` does the same for
a full scan, whose flag the worker takes separately.  In a worker that
is blocked all of these are empty.

### The policy

`NoLoop` bounds `strikes`, of which the code has only `rec.history`, and that is
copied, written back later, reset and erased.  `HistoryInv` says that under a
policy that wants the device disabled, the record (or the copy a pass is about to
write) is at least as young, place by place, as `strikes`: what loop
protection counts is no less than what happened.  When the policy does not want
it the record may be erased, and then there must be no strikes but the newest
to remember; this is so because a policy that changed under a pass has not been
used yet (`PassInv`).  `StartOver` erases the record's history whatever a pass
has put into it since the settings changed, and `strikes` with it; a copy that a pass
then writes back is only younger than what is counted.  This is why the bound holds
between two starts of the history and not for the whole life of a policy, and why
`Restraint` lets the count start over once more (`renewal`).

`LeftEnabledKept` is part of `ChoiceInv`: from its decision to what it writes
back, a pass holds `modifyLock_`, so the record has no choice that the pass's copy
of it lacks.  With these invariants every step is one of
`Restraint` or a stutter: `Verify` is `Disables`, whose room in the window is in
`HistoryInv`, and the erasing of a record is `Forgets`, by `PassInv`.  The attempt
to prove more, that a choice is dropped only under a policy *in force*, failed at
`JudgeOk` and `VerifyOn`, and that only the user makes one at `PutBack`: 5 and 6 in
section 5.

`OursIsRecorded` rests on another invariant,
`OursInv`: what a pass has seen before it disables an endpoint is not a device
Audioslave had disabled already.  A crash between the change and the record, or a
verification that cannot be read back, breaks it, as the code stands; the
hypotheses of the theorem say so.

### The service

`HostInv` ties the handler's progress to `hostMutex` and the pointer;
`ServeInv` ties connections to a live engine through the order of the
shutdown; `ActiveInv` says at each stage of startup and shutdown which
status the SCM can have, including that of a listener that has read
STOP_PENDING and not used it yet; `DoingInv` is the types of the locals.

`ServiceImplementsLife` maps each step to one of `ServiceLife` or to a stutter.  Most
of it is what `ActiveInv` and `ServeInv` say of the ends of the life; `LifeInv` adds
where the engine is at each of them, and that STOPPED and the end of the main
thread are the same step.  The steps with content are the reports: that of the engine's stopping must leave
a pending status, whichever the handler reported last, one that the handler makes
after it must be pending too, and the last one must find the engine gone.

### The endpoint

`NoWriteStorm` counts the writes that failed since anything but the engine acted
(`tries`), and says that they are four at most.  It is not inductive: what bounds the
next failure is what is still on its way, a pass that has begun, a notification
that will start another, a backoff that is set or not.  `Owed` is that potential:
for each place a pass can be at, the most writes that may still fail from there,
from what the device lacks (`Off`, `Wrong`, `Open`, `Class`), whether the backoff
is on (`Held`), and how many triggers wait (`Triggers`).  `Bound` says that `tries`
and `Owed` are together at most four.  Every step of the engine that fails a write
lowers `Owed`, every other step of the engine does not raise it (`Counts`), and every
step of the world resets `tries`.  The potentials are operators over numbers
(`FromName`, `FromWrite`, `Later`, ...), whose inequalities are lemmas of their own,
without a state; `PassKnows` says what of the device a pass can rely on in between.
Neither the number of changes and faults nor the drivers and configurations enter.

### The control channel

Three invariants, each inductive with the types.  `ListInv`: only the thread
with `connectionsLock` has pipes left to write to, and they are all in the list;
a listed connection is alive; once `stop()` has emptied the list nobody adds to
it.  `OnceInv`: an id that is pending, or not handed out yet, has not been
answered; running a callback and taking its id out of `pending_` are one step.
`LinkInv`: the last "made" or "lost" still posted tells of the pipe as it is,
and when none is left `connected` does; it rests on lemmas about what
appending to such a queue and handling its head do.

### The settings

`PolicyWasAgreedTo` speaks of the running configuration, which comes from
requests that were composed from a status that came from an older configuration.
`ConsentInv` follows the agreement round that circle: the file and every
configuration somebody has read (`Backed`), every status built or sent, what the
page believes from one, a dialog that does not ask because it need not
(`Asks`), and every request on its way (`Sound`).  `Backed` claims nothing of a
configuration with the standardization off, because the page confirms those
unasked; that is why the theorems assume `"std" \notin HandEdits`, and the run
`settings_consent` shows that they must.

`ImplementsConsent` needs in addition that the passes' copies are backed, and that
a pass's verdict is that of `Consent` (`Judges`): the change of the configuration
under a running pass is a step `Decides`, and the verdict of that pass is still
the one of the policy it found.

`ToldExactlyOnce` holds without that condition.  Statuses overtake one another,
but events are only added, so each status on its way carries a beginning of the
list of events (`Begins`), and the tray, which announces what is later than the
highest number it has seen, has announced all up to there and nothing later
(`ToldInv`).  What one status adds is `InOrder`, the increasing sequence of a
finite set of numbers.  That there is one is an induction over sets; it is done as
an argument about a least counterexample, with the library's theorems on
well-founded relations that take a set and not an operator as parameter.

### The tray

`BusyMeansWork` is inductive once the types are known: each handler that takes
away one of the four things it names either lowers the flag or puts another in
its place.  The proof is about queues: what appending, taking the head and
removing a job in the middle do to "the queue has a message of these kinds"
(`Has`), a lemma each.  `NothingLeft` bounds the runs of the host, which `TypeOK`
needs.

### The installer

`InstallInv` says for each step of `install` what is on the disk and in the
registry by then, unless there was a warning; `RemoveInv` what an uninstaller that
nobody disturbed has removed, or scheduled, by each of its steps, or else has been
refused by Windows (`missed`).  `WorkInv` says
which outcomes go with which programs at work, and that without an uninstaller in
this session of Windows the only name that may be scheduled is the one the old
version was moved to.  `AgreeInv` ties the confirmation in the configuration, and
what the wizard's worker is about to write, to the agreement.

### Only model-checked

Liveness, as fairness and ENABLED are out of the prover's reach:
`PauseReturns`, `EveryChangeSeen`, `FullScanRuns`, `StopTerminates`,
`NotStranded`, `PolicyReturns`, `StopCompletes`, `SettlesAlone`, `CallsReturn`,
`StopNeverHangs`, `ExitEnds`, `ShowsRunning`, `PageKnowsSettings`, `Settles`,
`NameKept`.  Every safety property of a passing run is proved, three of them under the
hypotheses named above, which their runs satisfy.  The properties that do not hold
are shown by their counterexamples.

## 5. Where code and documentation disagree

Shown by a run:

1. `policy_user`: the record says "disabled by Audioslave", and nothing clears
   it when the device is enabled and then disabled by the user before a pass
   sees it.  A later pass enables a device the user disabled.
2. `settings_consent`: the settings page stores the confirmation whenever the
   policy's box is checked, and with the standardization off it does not ask.
   When the standardization is later switched on in `config.ini`, devices are
   disabled for a format nobody agreed to.
3. `policy_told`: of a device that came back too often the tray says that it "will
   not be disabled again until the configuration changes"
   (`app/AudioslaveApplication.cpp:230`), and `core/DeviceStateStore.h:38` says the
   same.  Loop protection only delays: when the window has passed, the next pass
   disables the device under the same settings (`core/WatchdogEngine.cpp:704`).
4. `setup_lasts`: the uninstaller's script deletes `Uninstall.exe` by name for
   up to a minute, also the one of an installation made in that minute; a name
   scheduled for the next start of Windows is deleted the same way.

Met while modelling and proving, and no run of their own; no property claims the
opposite:

5. "Enable and keep enabled" holds until the settings change
   (`README.md:349`, `core/WatchdogEngine.cpp:916`), but a pass that began under
   earlier settings, to which the device is compatible, removes the record and the
   choice in it (570, 810), though the settings in force want the device disabled,
   and the next pass disables it.
6. A change of the settings gives exempt devices a new chance
   (`core/DeviceStateStore.h:57`), but `setConfig` resets the records without
   `modifyLock_` (204), and a pass that has read one puts it back as it was (698).
7. `renameDevice` and `enableDevice` do not look at the engine's state
   (`core/WatchdogEngine.cpp:901`), so a command changes a device while the log
   (156), `WatchdogEngine.h:8` and the README (74) say that none is.
   `PausedMeansIdle` is about passes.
8. `resetHistory` runs in `setConfig` only (`core/WatchdogEngine.cpp:204`).  A
   hand edit that a restart takes up (`service/ServiceHost.cpp:135`) leaves a
   device exempt from the new policy, against `core/DeviceStateStore.h:57`.
9. The state notification of a disable that does not stick ends the backoff
   (299) that was to prevent a loop (`core/EndpointMemory.h:3`), and loop
   protection does not count the attempt, since it counts only verified ones.
   `NoWriteStorm` is about name, flags and format.
10. The pipe serves requests before `onStarted` reports RUNNING
   (`service/WindowsService.cpp:131`), so a pause in between leaves the SCM with
   RUNNING for a paused engine; a pipe command between the handler's reading
   and reporting (69, 86) does the same, against `service/ServiceHost.h:7`.
11. `capabilitiesFor` may store what a driver said (222) after
   `onDeviceChange` erased the entry (302): the comment at 297 says that a stale
   entry cannot stay, and it stays until the next change or until the user asks
   for a verification.  `Settles` therefore asks what is on record, not what the
   driver says now.  A verdict may also rest on the capabilities of the layout of
   before; the next pass enables the device again, and loop protection bounds it.
12. The service numbers its events from 1 at each start, and the tray keeps
   the highest number it has seen (`app/AudioslaveApplication.cpp:223`), so a new
   service's first events are not announced.
13. `enableDevice` of an endpoint without a record logs that the policy leaves
    it enabled (`core/WatchdogEngine.cpp:920`), though the next scan may disable it.
14. `service/ServiceController.cpp:52` says that the wait ends when the service
    leaves a pending state, which its loop does not look at.
15. The settings change in two steps (`core/WatchdogEngine.cpp:199`, 204) that no lock
    keeps together.  A pass in between disables the device under the new policy, and the
    reset erases that from the history, so `maxDisablesPerWindow` is a bound from
    one start of the history to the next: twice that in a window for a policy.
16. A handler that throws is answered with id 0 (`ipc/PipeServer.cpp:124`), so
    `onReply` does not run while the connection lasts; `ipc/ControlClient.h:47` promises that
    it does exactly once.
17. A reply's status is built outside `controlLock_` (`service/ServiceHost.cpp:461`), so
    the status of a reload that ran meanwhile may be sent before it.  A pass puts that right, but
    while the engine is paused there is none (`core/WatchdogEngine.cpp:315`), and the page
    shows the settings of before.  Without its first condition `PageKnowsSettings` is
    violated in this way.
18. `uninstall` reports success whatever Windows refused to delete
    (`installer/InstallerCore.cpp:365`, 73).

`OursIsRecorded` is checked and proved without two faults: a crash between a
disable and its record, and a state that cannot be read back after it.  Either
leaves a disabled device that nobody owns.

## 6. Not modelled

Out of the models for good: drawing and texts of the windows, logging, the
wording of messages, the COM calls themselves, JSON and ini syntax, wave format
structures, access lists, the reports of the command line.

Left out of the parts that are modelled, in order of what they would add:

1. **ControlChannel**: a frame cut off by a write that timed out, which leaves
   what follows out of step; `onReply` may then not run while the connection lasts,
   as with a handler that throws.  `Tray` and `Settings` take it that the host's handler
   does not throw: a call there ends with its reply or with its connection.
2. **The host**: the watcher's callback against its `stop()`, the data race on
   the pipe pointer at shutdown (`service/ServiceHost.cpp:467`), queued controls
   that lose their order (217).
3. **Settings**: the ring of 32 events, a restart of the host (see 12 above), a
   prompt whose settings are older than the ones it overwrites.
4. **Setup**: a start that finds the old service still running and counts as
   success (`service/ServiceController.cpp:290`), `/noformat`, which resets the
   target, an entry under Apps that outlives a second stage that failed
   (`installer/SetupMain.cpp:170`), two uninstallers at once, a copy in `%TEMP%`
   that a restart leaves.  There is no rollback to model.
5. **Devices**: writes of `devices.json` that fail, a file that does not parse,
   a clock that jumps, exceptions that abort a pass, the log throttling of
   `EndpointMemory`.
6. **Proofs to add**: `DevicePolicy` composed with `WatchdogEngine`;
   `ControlChannel` against an abstract call.

The hazards in `PROJECT.json` name those of these that matter, with the reason
why no property covers them.
