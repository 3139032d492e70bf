# drcom4scut: a verification project in TLA+

The repository is a client for a campus network (802.1X followed by the Dr.COM
UDP protocol) for Windows. It consists of a **core** without a window
(`src/drcom4scut_0.3.1/vendor/drcom4scut-0.3.2`), the **GUI** that starts and watches the
core (`src/drcom4scut-rs/src`), and the **setup and uninstall programs**
(`src/drcom4scut-rs/src/install`, `src/drcom4scut-rs/src/bin`). The product embeds the vendored
core, which is a patched copy of the one in `src/src`; the vendored one is modelled. Below, `V/`
stands for the source directory of the vendored core and `R/` for that of the GUI.

`PROJECT.json` lists the components, the runs, the faulty variants that show that each
property can fail, the source lines of every definition, the findings, the hazards and the
theorems. Where the two copies of the core share a piece of code word for word its lines are
given in `src/src`, where it was patched in `V/`.

## Inventory

### The core

| part | state | operations | interacts with |
|---|---|---|---|
| start-up, generators (`V/main.rs`) | cached SUCCESS behind a mutex, one channel EAP to main, one main to UDP | forward messages, build and rebuild the EAP and UDP processes, wait for a device | everything below |
| EAP process (`V/eap.rs`) | stop and quit flags, heartbeat counter, identity packet, md5 | start, handle a frame, restart after stop, rebuild after quit | authenticator, main thread, its own threads |
| UDP process (`V/udp.rs`) | stop, quit and sleep flags, md5 with checksum, decrypted information, heartbeat counter | start, wait for SUCCESS, five packets of the conversation, restart, rebuild | server, main thread, its own threads |
| Sender and Resender (both files) | last packet, its time, cancel flag, park tokens | send, arm, resend, cancel | the two processes |
| binding to the GUI (`V/supervisor.rs`) | watch thread, hardware address | arm, wake, Logoff, exit | the GUI's process, the stop event |
| codecs (`V/eap/packet.rs`, `V/udp/packet.rs`) | none | parse and build packets | the sessions |
| logger (`V/logger.rs`) | the log file | append, roll | the GUI's log tail |

What is hard: seven threads share atomics without locks; they hand over work with
`park`/`unpark`, whose token may be left over or missing; a thread may outlive its process
and still take messages from a channel; counters are loaded and stored, not incremented; a
process is restarted with part of the state of the previous session; packets are lost,
repeated and answered late; the clock jumps.

What makes it correct: an md5 reaches UDP in the order EAP computed it and never too early;
no wake-up is lost; nothing is sent that was not asked for; a session is given up only after
silence, and silence is always noticed; after any finite number of disturbances a session
beats again.

### The GUI

| part | state | operations | interacts with |
|---|---|---|---|
| connection control (`R/ui/window.rs`) | wish, pause, the core held, what is shown | button, timer, launch, stop | all below |
| backoff (`R/controller.rs`) | failures, launches in a window, next attempt, cooldown | record, ask, reset | connection control |
| health monitor (`R/health.rs`, `R/logparse.rs`) | three clocks, EAP seen, scheduled wait, state | observe a batch of lines | log tail, connection control |
| core process (`R/coreproc.rs`) | process, job, stop event and their handles | launch, stop, drop | Windows, the core |
| log tail (`R/logtail.rs`) | offset, creation time, anchor, a line half read | poll | the log file of the core |
| main window (`R/ui/window.rs`, `display.rs`, `anim.rs`, `layout.rs`) | the adapter list and its popup window, four toggles, one timer, layout pending | messages of Windows | the user, the display |
| settings (`R/settings.rs`, `R/install/migrate.rs`, `R/platform.rs`) | encrypted file, files of earlier versions, scheduled task | load, migrate, save, switch the task | files, Windows, the window |

What is hard: the GUI may be killed at any point of a launch; the core may exit, hang or fall
silent; the evidence for its health is a log that mixes EAP, UDP and announced waits, and that is
rolled and replaced while it is read; a failing core must be tried again, not too often and not too
rarely; a popup, its fade and a timer are changed by a dozen messages in any order; a message box in the
middle of the start serves other messages; every write of the settings may fail.

What makes it correct: a core never runs without a leash and never outlives its GUI by more
than its Logoff; the end of a GUI does not cut the Logoff off; the user's wish decides;
a stalled core is restarted, a healthy or waiting one is not; launches are bounded and
nevertheless go on; the lines of this launch and no others are read; what is on the screen is what is
clicked; what the user saved stays, and what was to be forgotten is.

### Setup and uninstall

| part | state | operations | interacts with |
|---|---|---|---|
| file transaction (`R/install/transaction.rs`) | staging, journal of created and saved files | stage, commit, roll back | flow |
| flow (`R/install/flow.rs`, `R/bin/*.rs`) | data, shortcuts, uninstall key | set up, upgrade, uninstall, undo | all others |
| identity (`R/install/identity.rs`, `validate.rs`, `registry.rs`) | state file, registry key | save, check, delete | flow |
| setup window and worker (`R/install/setup_window.rs`, `R/bin/setup.rs`, `origin.rs`) | page, handover directory, result | begin, cancel, retry, launch the client | the user, flow, driver |
| maintenance lock (`R/install/maintenance.rs`) | a named mutex | acquire, drop | workers and copies |
| driver (`R/install/driver*.rs`) | none kept | detect, download, verify, run, detect again | Npcap's servers and installer |
| uninstaller and its copy (`R/bin/uninstall.rs`, `selfdelete.rs`) | handover file, the copy itself | copy, compare, remove, tidy up | flow, Windows |

What is hard: every step may fail half-way, the rollback may fail too, each process may be
killed, a later run meets what an earlier one left behind, and two programs may run at once.

What makes it correct: a release is installed as a whole or not at all; no file of the old
release is lost; what did not finish can be run again; one program at a time works on the
installation and only on the one it was started for; a window tells the truth about its run, and soon.

## Modules

| module | models | proofs |
|---|---|---|
| `CoreLink` | EAP results on their way to UDP: forwarding thread, generator, UDP process, listener, orphaned listeners | `CoreLinkProofs` |
| `SendPipe` | Sender and Resender of one process, once for EAP and UDP (the code is the same) | `SendPipeProofs` |
| `EapSession` | the 802.1X session against an authenticator | `EapSessionProofs` |
| `UdpSession` | the Dr.COM session against a server | `UdpSessionProofs` |
| `CoreProcess` | the core as a process tied to its GUI: launch, stop, kill, Logoff | `GuiProofs` |
| `Reconnect` | backoff and health monitor as operators | `MonitorProofs` |
| `ConnectControl` | the GUI's button and timer over `Reconnect` | `MonitorProofs` |
| `LogTail` | the poll of the log against logger and user | `MonitorProofs` |
| `MainWindow` | adapter list, toggles, timer and layout messages of the window | `GuiProofs` |
| `WindowLayout` | geometry of window, list and controls | `GuiProofs` |
| `UserSettings` | settings, migrations and scheduled task from start to exit | `GuiProofs` |
| `AtomicInstall` | what setup and uninstaller promise | `InstallationProofs` |
| `Installation` | setup, upgrade and uninstall file by file; implements `AtomicInstall` | `InstallationProofs` |
| `Maintenance` | setup windows, workers, uninstaller and copies as processes with a lock | `MaintenanceProofs` |
| `MCCore`, `MCConnectControl`, `MCInstallation`, `MCGui`, `MCMaintenance` | instances for TLC | |

No module declares a RECURSIVE operator; what the code does in a loop is a fold or a recursive function.

### CoreLink

`eapQ` and `udpQ` are the channels of `V/main.rs`, `forwarding` and `cache` the main loop and
`last_success` (`MainTake` holds the mutex, `MainForward` sends), `gen` the generator of UDP
processes (`GenLock` takes the mutex and clones the cache, `GenSend` sends and releases it,
`GenSpawn` starts a process, `GenSpawnFails` one whose server has no address or whose socket cannot be
bound, `GenJoin` joins it). `proc` walks through `start()`,
`login_start()` and the main loop; `ProcWake` is the loop around `park_timeout`, `ProcGiveUp`
its 90 seconds. `listener` is the thread of `start_receive_eap_thread`, one step for each test
of a flag; `orphans` counts listeners of earlier processes which are blocked in `recv()` and take
one more message before they notice that they should end (`OrphanReceive`). A listener that
cannot lock the data within its retries loses the message (`ListenDrop`).

### SendPipe

`PipePost`, `PipeAnswer`, `PipeStop`, `PipeQuit` and `PipeStart` are what a process does to its
two threads; `process` is where it is and `stopFlag` and `quitFlag` are the code's `stop` and `quit`; the steps of `sender` and `resender` are the single loads, stores, parks and channel
operations of `start_send_thread`. `SenderArm` is the pair of stores and the `unpark` after a
successful send; an answer may come between the send and it. `ClockJump` is a change of the system
clock beyond the interval, of which the Resender has a branch.

### EapSession and UdpSession

Both have the process (`proc`), the flags, the shared counter `timeout` (a `u8`), the heartbeat
thread (`hb`, its park token `hbTok` and its local copy `cnt`), the packets on the wire and the frames
received. Handlers are named for the frame they handle. The sending threads appear only as what
`SendPipe` shows of them: `request` is the last packet, `repeat` says that it is sent again.
In `EapSession`, `Cancel` may leave `repeat` set, which is the answer that overtakes `SenderArm`; `Broken` is
a receiving thread whose retries are used up, which sets quit.
The heartbeat of EAP reports STOP and lives on (`HbDeclare`); that of UDP sets quit and ends.
`OnForeignIdentity` is the second login that an identity request with an identifier above 1
triggers. In `UdpSession` the md5 is a number with the mark that the checksum has been written
over it (`cks`), and the server answers an Alive only if it carries the md5 of the current login, with
checksum, and the current information.

The histories are not in the code. `heard` notes a reset within the period that is running, `quiet` counts the whole
periods without one, `quietThen` (in `EapSession`) is their number at the last load, `races` counts the resets that fall between a load and a
store, `reported` remembers a SUCCESS that was handed over. `beating` says that a Heartbeat4 has come that ends an exchange which an Alive of the
*last* login opened; packets of a heartbeat carry the number of that login for it, and `EapLogin` and `Start` clear it. `crossed` notes that a
heartbeat packet of the server took the place of a handshake packet that had no answer yet.

To UDP, EAP is its logins (`EapLogin`), the ends of its sessions, of which those that a notification brings are not reported
(`EapUpset`), and the STOP that the heartbeat thread of an EAP process rebuilt after a QUIT sends, perhaps when the next session is already there
(`EapLate`; `sleeper` says that there is such a thread). `Bounded` counts lost resets and all other disturbances (`Fault`) together.

### CoreProcess

`Launch`, `Assign`, `ShareJob` and `Resume` are the four calls of `launch_core` between which the
GUI can be killed; `LaunchFails` is an error of any of them with `Drop for LaunchCleanup`. `holders` are the processes that hold a
handle of the kill-on-close job; `CloseHandles` ends the core when the last one goes. `Stop`,
`StopDone`, `Terminate`, `TerminateFails` and `StopGivesUp` are `OwnedCore::stop`, `Return` the drop
that follows it. In the core, `Arm`, `OpenDevice`, `Wake`, `Transmit` and `Leave` are `supervisor.rs` and the
first lines of `main`. The limit of three seconds in `stop()` passes only over a core that is not armed
or hangs (`Overdue`): an armed one leaves within its own timer of a second. The EAP thread runs on until the process has ended: `Grant` is possible
from the opening of the device to the exit, and `port` is `"open"` after a login that came before the frame, `"late"` after one behind it, or in a core that hangs. Nothing in the
code closes a late one, so `OrderlyEnd` speaks of `"open"` only.

### Reconnect and ConnectControl

An `Instant` is the age of the event, or the time left until it. Ages stop at the
smallest value that no comparison can tell from a larger one. `RecordFailure`, `CanAttempt`,
`Observe`, `Stalled`, `IsStable` and `Shown` are the functions of `controller.rs` and `health.rs`;
`Kinds` are the classes of lines these tell apart. In `ConnectControl` every handler is one
action, since all run in the GUI thread. `Connect` and `Disconnect` come from the button, which chooses by `Active`, and from the menu of the tray icon,
which offers both at any time; so neither has a guard. `StillRuns` is the early return of `attempt_start` beside a core that runs. The handlers are `Connect`, `Disconnect`, `TimerWait`, `TimerAttempt`,
`TimerCoreExited`, `TimerObserve`, `TimerBlind`, `TimerRestart`. `AttemptStart` has the outcomes of
`attempt_start`. `burst`, `stall` and `beatAge` are histories, kept apart from the monitor so
that the properties do not ask the monitor about itself. `Recent` is the code's `retain`: launches stand in the order
they were made, so what is too old is a prefix.

### LogTail

A line is a number and `Length[l]` bytes of it are written one by one. A poll is two steps, `PollOpen` (open and
`metadata()`) and `PollRead` (the reads, up to the length the metadata gave); between them the logger may write,
roll and create, and the user may replace the content. `BeforeLaunch` is the state the GUI begins with, `MustReset`
the three tests for a file that is another one, `Skipped` the jump over what exceeds `LIMIT`, `Taken` and `Returned` the line
that is not yet complete, both by way of `Split`, which cuts what was read into lines and a rest. A file gets the creation time of the one whose name it took (Windows' tunnelling), or a new one.

### MainWindow and WindowLayout

`MainWindow` has one action for each message that touches the list, the toggles, the timer or the layout; the helpers
(`ShowPopup`, `CloseCombo`, `DismissCombo`, `StartTimer`, `Schedule`, `Apply`) have the names of the functions. An animation
is its value, its target and whether it runs; a frame may show any value on the way. `SetTimer`, `CreateWindowEx` and
`PostMessage` may fail. `WindowLayout` is the arithmetic on pixels: placing and scrolling the list, what is painted where, which
item or control a point belongs to, with the divisions of `scale` rounding down each on its own.

### UserSettings

`step` is where `initialize` or a later handler is; `box:` steps are message boxes, during which only an exit is served.
`nested` says that it was: the handler below goes on with freed memory, which is the step `"undefined"` with any outcome the task may see.
`stored`, `temp`, `plain` and `roaming` are the files, `task` is the scheduled task, `mem`, `text` and `pick` what the window has.
`Load` with `ConvertSaved` and `RemovePlain` is `migrate_legacy`, `MigrateUserData` with `CopyDone` the copy of the roaming
settings, whose target exists before its contents do; `Rename` and `SaveFails` are `atomic_write`. `GuiDies` is a kill at any step,
`LaunchGui` the next start, which finds the files as they are then. A call of `schtasks` is `"done"`, has `"failed"` (and may still have worked), or
is `"unasked"`: `remove` takes a query that fails for a task that is not there, and reports success. The history `report` is what an exit was told of its writes. `CheckSystem` asks for Npcap
(`Probes`, `NpcapStatus`) and the core's file (`CoreFiles`); either missing disables connecting, which is why `ConnectControl` may take
the core's file for granted.

### Installation and AtomicInstall

`content`, `backup` and `marker` give each file the release it belongs to, `"absent"` or `"torn"`;
`pc` is the step of the worker. Every fallible step has an action for success and one for
failure, and `Crash` kills the worker between two steps or in the midst of one (`Interrupted` says
what the step may have done by then).

The abstract program (`installed`) is a release, nothing, or `"partial"`: a mixture, or a part. It changes as a whole: the mapping `Installed`
hides the files being replaced behind what the setup found (`before`), and `Job` and `mishaps` are the operation that runs and the steps of it that failed.
`AtomicInstall` says when the program may become partial. A setup in which no more than one step fails ends with its release or with what was there
(`SetupEnd`); one in which none failed ends with its release, and an uninstallation in which none failed with nothing, whatever was
there before, which is how a mixture heals. Only a setup with two failed steps, an uninstallation that takes files away, and a kill may leave a
part; and a kill, with less than two failed steps, leaves no release that was neither there nor to come.

### Maintenance

A setup has a window (`page`, `shown`), a thread that waits (`waiter`) and a worker (`pc`), joined by the handover directory
(`hand`: the options, the flag to cancel, the result). The worker verifies its origin, takes the lock, installs, sees to the
driver and writes its result; `Give` is the error path of its closure, which drops the guard. The uninstaller is a dialog and copies
(`cpc`) with the identity each was given (`target`). `lock` is the mutex, `"abandoned"` when its owner was killed. An installation is
here only its identity: `InstallFiles` gives a new one, `CleanRemove` takes it away; what either does file by file is
`Installation`. `own`, what the present run has installed, is a history.

## Runs

All runs finish in less than five minutes with two workers. Deadlock is not checked where the
bounds let the model stop; `ConnectControl` never stops, so there it is.

| run | bounds | shows |
|---|---|---|
| `core` | 2 logins, 2 STOP/SLEEP/QUIT, 1 fault, 1 orphan; 2 posts, 1 stop, 1 answer under way, retry count 1 | `KeysInOrder`, `ListenerNeverDeaf`, `SuccessIsHeard`; `OnlyPacketsAreSent`, `UnansweredIsResent`, `PostedIsSent` |
| `eap_session` | retry count 1, 1 challenge number, 1 frame, 2 packets, 1 fault, 1 race, probing authenticator | `SuccessHasKey`, `DeclaredAfterSilence`, `SilenceIsNoticed`, `FirstLoginIsGranted` |
| `udp_session` | retry count 0, 2 logins, 1 end of session, 1 disturbance (lost packet, missed cancel, dead worker, late STOP or lost reset) | `GivenUpAfterSilence`, `SessionHeals` |
| `installation` | 1 kill; 2 releases with 1 failing step in each operation, or 1 release with 2 | `Atomic`, `OneFaultLosesNothing`, `UninstallCanBeRetried`, `KeyOutlivesFiles` |
| `maintenance` | 1 setup, 1 copy, 2 addresses, 2 runs, 3 identities, 1 kill; 1 secret, 1 adapter | `OneAtATime`, `OnlyConfirmedIsRemoved`, `RefusedOnlyIfBusy`, `ResultIsTrue`, `RunEnds`; `SecretIsForgotten`, `TaskFollowsSettings`, `SavedIsKept` |
| `gui` | 3 launches, 2 kills, 2 faults; 2 toggles, 2 displays, 2 messages; 5 scales, 4 screens, up to 14 adapters; 2 files, 4 lines, 1 replacement | `Leashed`, `DeathSparesCore`, `OrderlyEnd`, `CoreFollowsGui`, `StopReturns`; `ListIsInPlace`, `LayoutFollowsDisplay`; `LayoutIsUsable`; `OnlyNewLines`, `CatchesUp` |
| `connect_control` | 2 failures, 2 launches in the window, 2 faults, 1 line in a poll | `WishIsFollowed`, `LaunchBudget`, `StallIsRestarted`, `HealthyIsLeftAlone`, `WishIsPursued` |

`MCCore`, `MCGui` and `MCMaintenance` put parts side by side that share no state: `part` says which one runs, and the others rest
in one of their initial states. So each part is explored as it would be alone, without the product of their states, and a property
of one is checked over that part; where their fairness joins conditions of different parts, only one part's can ever hold.
`MCInstallation` does the same with two ranges of the bounds. The conditions on `part` stand before each action of a part, and nothing else
is added to it.

No run lists a type invariant of its own: it is proved, is a conjunct of another invariant of the run (as in
`SuccessHasKey` and `StallIsRestarted`), or is written down in the module as a help in changing it.

Why the bounds are enough. Two logins are the least in which one md5 can overtake another, and two
upsets the least in which a rebuild follows a restart. One orphan suffices, as orphans are alike and each
takes one message; the count stops there. A retry count of 1 separates the first period from
the last; `udp_session` can afford only 0, and there the first period
is the last (the theorem holds for every count). One disturbance comes on top of the logins and the end of a session, which already cross each other
in any order; the liveness property with two of them takes longer than a run should. One answer under way is enough to
cancel a later request than the one it answers. Only a second failing step makes a rollback or a recovery fail; the run affords it with one
release, since a repeated setup of it replaces files as an upgrade does. One race is the hazard (a second one repeats it after a
complete round). Two releases make a mixture possible. In `connect_control` the clock has a unit of about a minute or more, and the
limits keep their order (`Stale < UnhealthyLimit`, the delays rise, the cooldown is longer than a delay); several lines between two
ticks are several polls. Frames that find the buffer full are lost, so that a
buffer of one frame adds losses and no order that the code does not allow. A setup and a copy are the two parties that can meet at
the lock; that more of them change nothing is proved. Three identities let a second setup replace what an uninstaller
was given. In `LogTail` a line longer than the limit, an anchor that spans two lines and a second file with the creation time of the first are
among the instances. The list of 14 adapters needs scrolling at every scale, and one of the screens is too low for the
window at full size.

### Fairness

* `CoreLink`, `SendPipe`: the scheduler runs every thread; `park_timeout` and sleeps end.
* `EapSession`: in addition the authenticator takes packets and repeats its open request, as 802.1X demands.
  Nothing forces it to probe, and losses are finite because faults are bounded.
* `UdpSession` (for `SessionHeals`): in addition the server answers, the main loop looks at `alive` in every round, and EAP logs in again after it gave a session up. `Ample`
  makes a heartbeat period long enough for an exchange that is under way: periods are minutes, exchanges seconds.
* `CoreProcess`: the GUI thread inside launch and stop goes on, so do the threads of the core. Nothing
  makes a driver call return.
* `ConnectControl`: the timer fires, time passes, the adapter comes back. The core may exit or stay as it likes.
* `LogTail`: the GUI's timer polls. `MainWindow`: messages are taken, and some frame of a fade is the last one.
* `Maintenance`: workers go on, the timer of the window ticks, and the user answers the prompts of Windows and of the driver's
  installer. Nothing makes the user press a button.

### What the code does not keep

Five runs check what a document or a comment of the repository says and find a behaviour of
the code that contradicts it:

* `core_link_stolen` (`RebuiltProcessGetsSuccess`): an orphaned listener takes the SUCCESS that `V/main.rs`
  injects so that a rebuilt process does not wait for ever. The process gives up, leaves another orphan, and so on.
* `core_process_frozen` (`NoCoreIsLeft`): a GUI killed inside `launch_core` leaves a suspended core that
  neither logs off nor exits, and that keeps later GUIs from starting one.
* `connect_control_night` (`EapDoesNotMaskStall`): after an announced wait, an EAP success leaves
  `scheduled_wait` set; a silent UDP is then shown as waiting and never restarted.
* `installation_damage` (`UpgradeLosesNothing` with two failing steps): a rollback that cannot copy a backup
  deletes it all the same.
* `udp_session_stale` (`SilenceRestarts`): a heartbeat packet left over from before a STOP is answered in the middle of the next
  handshake and replaces its first packet. When that exchange is over nothing is sent again, and the heartbeat thread, which only
  the handshake unparks, stays parked: the process neither logs in nor restarts itself, as `PATCHES.md` says it does after missing heartbeats. Only the GUI's
  monitor ends this. `SessionHeals` excuses it (`crossed`) and claims the rest.

Known weaknesses seen while modelling, which no run checks:

* `cks_md5` is never cleared: after STOP the UDP process goes on with the md5 of the previous session, and a SUCCESS in the
  middle of a session replaces the md5 that carries the checksum. `SessionHeals` shows that the heartbeat repairs both.
* The Resender's inner loop looks at neither stop nor quit, so each process that quits leaves a Resender, a Sender
  and its socket behind.
* The heartbeat counters are loaded and stored: a reset in between is lost, and the number of silent periods the log
  names can be wrong. `DeclaredAfterSilence` and `GivenUpAfterSilence` state what remains true. With a retry count of 255 they wrap.
* A lost SUCCESS is not asked for again when a keep-alive or a notification comes first: the port is authorised and UDP
  never hears of it. This is why `FirstLoginIsGranted` stops at the grant and `SilenceIsNoticed` asks for `reported`.
* A first setup that fails before its commit leaves files without identity, and the next setup refuses the directory.
* An uninstaller killed between deleting itself and the uninstall key leaves a registered program without uninstaller.
* A core that could not be stopped is dropped by the window; the next attempt takes it for that of another program and drops
  the wish to be connected.
* `LogTail`: a new line glued to the old half-written one is given up with it (`logtail.rs:76`); content that is replaced between
  `metadata()` and the reads can lose what was there; a log that cannot be opened at launch for a moment lets its history in later; the first
  line after a jump over `LIMIT` is dropped even if the jump ended at its start.
* Settings: an exit served inside a message box frees the state that `initialize` and `start_connect` go on with
  (`window.rs:1431`, `1449`, `1465`, `1660`). After a load or migration that failed the window shows defaults, and an exit saves them over the
  old file (`SavedIsKept` excuses this with `degraded`). A plain file that cannot be removed is never tried again, and its password
  stays (`settings.rs:149`). The copy of the roaming settings is not atomic (`migrate.rs:28`): cut off, it leaves a file nothing can
  read. A saved "automatic" adapter becomes a fixed one when exactly one has a gateway. Toggles are saved only by connecting or exiting.
* Start with Windows: `remove` reports success when its query for the task failed or timed out (`platform.rs:438`, `466-469`), although a comment
  says only that a task which is not there counts as removed (`platform.rs:436`); the task stays. `TaskFollowsSettings` says what remains true.
* Maintenance: a client started after `stop_owned` has looked at the processes makes the replacement of its image fail; a retry for the
  driver that meets the lock shows an error that leads back to the first page; a copy of the uninstaller that is killed stays on
  the disk.
* Window: turns of the wheel below one notch do nothing, and the highlighted item is stale after a turn until the mouse moves; a restart of
  Explorer loses the tray icon.
* Connection: "connect" in the tray's menu beside a core that runs resets the backoff and leaves that core with its old settings. A login of EAP in
  the moment between the Logoff and the exit leaves the port open (`Grant`).

## Theorems

All of them hold for every value of the constants, under the assumption each module makes on them: bounds are natural numbers; setups and
cleaners are disjoint sets; a file that is missing or damaged is no settings and no release; a screen is at least 70 by 93 pixels; the
longest break between two polls is no longer than a sign of life is good for, and that is shorter than the limit for a core that never logs in
(`health.rs`: 30 s, 180 s, 600 s).

* `CoreLinkProofs`: `TypeCorrect`; `KeysStayInOrder` from the inductive `OrderInv`. `KeysInOrder` alone
  is not inductive: what EAP has sent must be newer than the cache, what the main thread holds must be the cache, and so must
  the generator's clone while it holds the mutex. The last part is where the mutex over the send is used: `OrderTake`
  needs `gen # "send"`.
* `SendPipeProofs`: `TypeCorrect` from `TypeInv`, which adds where the count of failures stands before each step;
  `NothingElseIsSent` from `NothingToRepeat` (while no packet was given, the cancel flag is set and no order to repeat is on
  its way).
* `EapSessionProofs`, for any retry count and any number of challenges: `SuccessCarriesKey` from `Keyed`. `SuccessHasKey` alone is not
  inductive: a Success frame may be in the buffer, or the response that earns one on the wire, since before a restart. The queues are
  therefore typed by the md5: while it is empty they hold neither responses nor grants; a restart keeps the md5 with the
  frames, a rebuild drops both. `DeadOnlyAfterSilence` from `SilenceOK` (after a period either the counter reads 0 or
  the period was silent from its beginning to its end) and `TallyOK`, which is as in `UdpSessionProofs`.
* `UdpSessionProofs`, for any retry count: `SilenceBeforeTheEnd` from `SilenceOK` and `TallyOK`. The counter of the code may run ahead of the
  number of silent periods by one, since what is stored after a reset counts the period the reset fell into, which the history does not (`heard`); `TallyOK` says where, and that only a reset that was lost
  between load and store makes more of it.
* `MonitorProofs`: `WishStaysFollowed` and `BudgetIsKept` from `Controlled`: a core that runs is wanted, though one that has ended may be held without
  a wish until the timer drops it; a cooldown never runs beside a core that runs; and each launch in a row except the one of the core that is held is a counted failure. Neither depends on what the log says. `StallIsNoticed` and
  `HealthyStays` do, for batches of any length: `Watched` says that the monitor and the count kept apart agree on waits and on the time without
  UDP, that in a wait no silence is older than the last poll, and none at all older than the last heartbeat read. `FoldExists` finds the
  function by which the library defines a fold, and `Climb` goes up the lines by way of the least one that breaks a claim; so `AgreeOnLines` says of a
  whole batch what `AgreeOnALine` says of a line. `HealthyStays` is where a sleep of the machine counts: the clocks start anew after a break longer
  than `PollGap`, and a shorter one cannot make the silence of a wait look like a stall.
  `NewLinesOnly`, for lines of any length, any limit and any number of files and replacements, from `LogInv`: the bytes of every file stand in the
  order they were written (`FileOK`); the tail bears the mark of a file, the byte before its offset, which no other file has, so a file whose
  anchor matches can be read on (`Ready`) and any other holds nothing but lines of the launch (`FollowedOK` with `InStep`); what is still to be
  read has not been reported (`Untold`); `PollOK` keeps this through what logger and user do between the two calls of a poll. `SplitIs` says what
  `Split` makes of the bytes read, again by `Climb`. `OnlyNewLines` alone says nothing of the tail, so no step preserves it.
  `PendingStaysBounded` proves `LogTypeOK`, whose last part is the bound on memory: what is kept after a poll is all that was pending, given up beyond the limit, or what follows a newline of the last read
  (`RestIsBehind`, `TakenIsKept`).
* `GuiProofs`, four components that share no state. Core process: `CoreTypeCorrect`, `CoreIsLeashed` and the action property `CoreIsSpared` from
  `CoreInv`; the part of it that is not a property is `LaunchOrder`: between the calls of `launch_core` the core is suspended, it is in the
  job before it gets the handle and has the handle before it runs, so a running core holds the job itself. `PortIsClosed` from `PortFollowsCore`: without
  a fault a port that a login before the frame opened belongs to a core that is still to send its Logoff. Main window: `ListStaysInPlace` from `Steady`: the popup is shown exactly
  while the list moves or is open, an animation at rest shows what its flag says, and without a timer nothing moves. Layout: `GeometryHolds` from
  `LayoutInv`, which bounds window, list and offset by each other; the divisions of `scale` are handled by `Quotient` and `Products`.
  Settings: `SettingsTypeCorrect` with `Converting` (what is being written is the plain file); `SecretsAreForgotten` from `Forgotten`, which says the
  same of the temporary file and of what is copied; `TaskIsRight` from `Leaving` (an exit saves what it then makes the task of, and has been told of nothing before);
  `SavedIsNotLost` from `Showing`: until the user touches it the window would save what is saved.
* `InstallationProofs`, for any number of releases, faults and kills: `NothingIsLost`, `UninstallIsRetried`, `KeyGoesLast` and the refinement `InstallationIsAtomic`, all
  from `IInv`: what the journal of a commit holds at each step (`Journal`), where a step has failed and where none has (`Failures`), what of an
  installation is already gone at each step of its removal (`Removal`), and that each file of the release found at the beginning is in its place or in its
  backup (`Preserved`). Each step of a setup is one of `SetupMoves`, and maps to a stutter or a mishap until the commit ends, where the release appears at
  once, or the rollback does (`SetupRefines`: with one failed step `Preserved` gives back what was there). An uninstallation only takes away (`UninstallShrinks`), up to nothing
  (`NothingLeft`); `UninstallRefines`. What a kill leaves in the midst of a commit is by `CrashMixes` no third release: each file is as it was, new, torn or absent.
* `MaintenanceProofs`, for any number of setups and copies: `TypeCorrect`; `Exclusion`, which needs `Awaited` (a window that waits
  for nobody has no worker, so a new run cannot start a second one under the same name); `RemovesTheConfirmed` from `Matched` (from the comparison
  on, the copy's target is what is installed, since only the holder of the lock installs); `NobodyIsKeptOut`; `WindowsTellTheTruth` from `Truth`, which
  follows a result from the worker through the directory to the window, and `Lacking` (the driver is fetched only while there is
  none, so nothing takes it away between detection and display).

Only model-checked: liveness, since no backend proves fairness or ENABLED. Every safety property of the passing runs is a theorem.

## Not modelled, and simplifications

* Bytes: layouts, checksums and decryption of packets, text of notifications and logs, command lines and environment.
* Drawing, fonts, the tray icon, text fields and the password eye; hover states of buttons.
* Calls to Windows are steps with an outcome: DPAPI, access rights, shortcuts, scheduled tasks, downloads. The wrappers of single calls
  (`pe.rs`, `sid.rs`, `knownfolder.rs`) have no definition of their own.
* The core's loop that waits for an Ethernet device, and the parsing of its options.
* `src/src/main.rs`: the older start-up without cache and binding, which the product does not use.
* `UdpSession` treats SLEEP like STOP (they differ in the length of the wait) and does not let locks fail (`CoreLink` does).
* `Installation`: one install directory; `SetupRegister` ends the operation (the driver follows in `Maintenance`).
* `ConnectControl`: the automatic login at start is the timer's first attempt.
* The authenticator, the server, adapters, cores of other programs, the log's reader besides the GUI and the user are external: they do what
  the code in `src/` is written to expect of them, in any order.

## What could come next

1. `Kinds` of `Reconnect` fed by the lines `LogTail` reports; the EAP and UDP sessions composed over `CoreLink`.
2. Codecs as operators over bounded inputs, with the `u8` counters at 255.
3. A refinement of `CoreLink` to a mailbox that holds the newest key, for which `KeysInOrder` is most of the argument.
