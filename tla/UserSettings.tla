----------------------------- MODULE UserSettings -----------------------------
(***************************************************************************)
(* What the GUI keeps of its user: the encrypted settings file, the plain  *)
(* and the roaming file of earlier versions it is made from, and the       *)
(* scheduled task behind "start with Windows".                             *)
(*                                                                         *)
(* The start of the program (initialize) is a chain of steps with message  *)
(* boxes in it.  A message box runs a message loop of its own, so a        *)
(* request to exit is served in the middle of a step, which then goes on   *)
(* with a window that is gone: "undefined".  The program may die at any    *)
(* step.  What the window shows is compared with what it saves.            *)
(***************************************************************************)
EXTENDS FiniteSets

CONSTANTS
    Secrets,    \* what may be typed into the two fields
    Empty,      \* the fields when nothing is in them
    Adapters,
    Automatic,       \* no adapter chosen
    None,       \* no such file
    Bad         \* a file that cannot be decrypted or parsed

ASSUME SettingsAssumption ==
    /\ Empty \notin Secrets /\ Automatic \notin Adapters /\ None # Bad

Settings == [secret : Secrets \cup {Empty}, remember : BOOLEAN,
             startup : BOOLEAN, adapter : Adapters \cup {Automatic}]

Default == [secret |-> Empty, remember |-> TRUE, startup |-> FALSE, adapter |-> Automatic]

ASSUME FileAssumption == None \notin Settings /\ Bad \notin Settings

VARIABLES
    stored,     \* settings.v1.dat
    temp,       \* the temporary file of the save under way
    plain,      \* gui.json of the first version, in the clear
    roaming,    \* the settings of a portable installation
    task,       \* the scheduled task exists
    step,       \* where the program is
    nested,     \* that step was begun while a message box was open
    mem,        \* app.settings
    text,       \* the fields of the window
    pick,       \* the adapter the list shows
    enabled,    \* connect_enabled
    touched,    \* history: the user changed something since the start
    degraded,   \* history: the window does not show what was saved
    report      \* history: what the exit was told: "none" when it failed or was cut off,
                \* else "done", or "unasked" when the task could not be queried

disk == <<stored, temp, plain, roaming, task>>
fields == <<mem, text, pick>>
past == <<touched, degraded, report>>
settingsVars == <<disk, step, nested, fields, enabled, past>>

(* Faulty variant: nothing is removed.                                     *)
ForPersistence_Verbatim(s) == s

ForPersistence(s) == IF s.remember THEN s ELSE [s EXCEPT !.secret = Empty]

Capture == [secret |-> text, remember |-> mem.remember, startup |-> mem.startup, adapter |-> pick]

(* adapters.rs, select: with no saved adapter among those present, the only*)
(* one that is up and has a gateway, else none.                            *)
Select(saved, present, routed) ==
    IF saved \in present THEN saved
    ELSE IF Cardinality(routed) = 1 THEN CHOOSE a \in routed : TRUE ELSE Automatic

(* install and remove.  A call of schtasks that fails may still have worked,*)
(* when it only timed out.  remove first asks for the task, and takes it for*)
(* gone when that call fails: it is "unasked", and has succeeded.          *)
Results == {"done", "failed", "unasked"}

Schtasks(on, result) ==
    /\ result = "unasked" => ~on
    /\ task' \in CASE result = "done" -> {on}
                   [] result = "failed" -> {task, on}
                   [] OTHER -> {task}

(* Earlier versions knew a password, and whether to remember it.           *)
Old == {s \in Settings : s.secret # Empty /\ ~s.startup /\ s.adapter = Automatic}

SettingsInit ==
    /\ stored \in {None, Bad} \cup {s \in Settings : s.remember \/ s.secret = Empty}
    /\ temp = None
    /\ plain \in {None, Bad} \cup Old
    /\ roaming \in {None, Bad} \cup {s \in Old : s.remember}
    /\ task \in BOOLEAN
    /\ step = "off" /\ nested = FALSE
    /\ mem = Default /\ text = Empty /\ pick = Automatic /\ enabled = FALSE
    /\ touched = FALSE /\ degraded = FALSE /\ report = "none"

(* platform::acquire: a second program shows the window of the first and   *)
(* ends; the mutex of a program that died does not keep the next one out.  *)
FirstInstance == step = "off"

LaunchGui ==
    /\ FirstInstance /\ step' = "migrate" /\ temp' = None
    /\ nested' = FALSE
    /\ mem' = Default /\ text' = Empty /\ pick' = Automatic /\ enabled' = TRUE
    /\ touched' = FALSE /\ degraded' = FALSE /\ report' = "none"
    /\ UNCHANGED <<stored, plain, roaming, task>>

(* The installed program: the directory of the user cannot be created.     *)
Uninitialised ==
    /\ step = "migrate" /\ step' = "box:ready" /\ enabled' = FALSE /\ degraded' = TRUE
    /\ UNCHANGED <<disk, nested, fields, touched, report>>

(* migrate_user_data begins to copy the roaming settings: a file is there  *)
(* before its contents are.  The directories before, and the configuration *)
(* after, may fail whether there are settings to copy or not.              *)
MigrateUserData ==
    /\ step = "migrate"
    /\ \/ stored = None /\ roaming # None /\ stored' = Bad /\ step' = "copy"
       \/ step' \in {"load", "box:load"} /\ UNCHANGED stored
    /\ UNCHANGED <<temp, plain, roaming, task, nested, fields, enabled, past>>

CopyDone ==
    /\ step = "copy"
    /\ \/ roaming # Bad /\ stored' = roaming /\ step' \in {"load", "box:load"} /\ UNCHANGED degraded
       \/ stored' = None /\ step' = "box:load" /\ degraded' = TRUE
    /\ UNCHANGED <<temp, plain, roaming, task, nested, fields, enabled, touched, report>>

(* DPAPI may refuse any file that is there: another user's, or one that is *)
(* damaged.                                                                *)
Unreadable(f) == f # None

(* migrate_legacy, up to the save.                                         *)
Load ==
    /\ step = "load"
    /\ \/ stored \in Settings /\ mem' = stored /\ step' = "show" /\ UNCHANGED <<temp, degraded>>
       \/ Unreadable(stored) /\ step' = "box:show" /\ degraded' = TRUE /\ UNCHANGED <<temp, mem>>
       \/ stored = None /\ plain = None /\ step' = "show" /\ UNCHANGED <<temp, mem, degraded>>
       \/ stored = None /\ plain # None /\ step' = "box:show" /\ degraded' = TRUE /\ UNCHANGED <<temp, mem>>
       \/ /\ stored = None /\ plain \in Settings
          /\ temp' = ForPersistence(plain) /\ step' = "save:convert"
          /\ UNCHANGED <<mem, degraded>>
    /\ UNCHANGED <<stored, plain, roaming, task, nested, text, pick, enabled, touched, report>>

(* The end of atomic_write and reading back, which may be what fails.      *)
Rename(then) == stored' = temp /\ temp' = None /\ step' = then
SaveFails(then) == stored' \in {stored, temp} /\ temp' = None /\ step' = then

ConvertSaved ==
    /\ step = "save:convert"
    /\ \/ Rename("remove") /\ UNCHANGED degraded
       \/ SaveFails("box:show") /\ degraded' = TRUE
    /\ UNCHANGED <<plain, roaming, task, nested, fields, enabled, touched, report>>

(* Faulty variant: the old file goes before the new one is written.        *)
RemovePlain_First ==
    /\ step = "load" /\ stored = None /\ plain \in Settings
    /\ plain' = None /\ step' = "load"
    /\ UNCHANGED <<stored, temp, roaming, task, nested, fields, enabled, past>>

(* The plain file is removed; otherwise the program forgets what it loaded.*)
RemovePlain ==
    /\ step = "remove"
    /\ \/ plain' = None /\ mem' = stored /\ step' = "show" /\ UNCHANGED degraded
       \/ step' = "box:show" /\ degraded' = TRUE /\ UNCHANGED <<plain, mem>>
    /\ UNCHANGED <<stored, temp, roaming, task, nested, text, pick, enabled, touched, report>>

(* What enumerate finds: the adapters there are, and those of them that are *)
(* up and have a gateway.                                                  *)
Enumerations == {l \in [present : SUBSET Adapters, routed : SUBSET Adapters] : l.routed \subseteq l.present}

(* fill_controls                                                           *)
ShowSettings ==
    /\ step = "show" /\ step' = "check"
    /\ text' = IF mem.remember THEN mem.secret ELSE text
    /\ \E list \in Enumerations : pick' = Select(mem.adapter, list.present, list.routed)
    /\ degraded' = (degraded \/ pick' # mem.adapter)
    /\ UNCHANGED <<disk, nested, mem, enabled, touched, report>>

(* What is asked about Npcap: a Packet.dll that is for this system, one    *)
(* that is not, a service or an uninstall key that is registered.          *)
Probes == [packet : BOOLEAN, foreign : BOOLEAN, registered : BOOLEAN]

(* driver.rs, detect_with                                                  *)
NpcapStatus(p) ==
    IF p.packet THEN "available"
    ELSE IF p.foreign \/ p.registered THEN "unusable" ELSE "missing"

(* coreproc.rs: the core is looked for, and its bytes are hashed.          *)
CoreFiles == {"whole", "missing", "damaged"}

(* The driver and the core; the task is only ever made here, not removed.  *)
CheckSystem ==
    /\ step = "check"
    /\ \E probe \in Probes, core \in CoreFiles :
        IF NpcapStatus(probe) = "available" /\ core = "whole"
        THEN /\ step' = "ready" /\ UNCHANGED enabled
             /\ IF mem.startup THEN \E r \in Results : Schtasks(TRUE, r) ELSE UNCHANGED task
        ELSE step' = "box:ready" /\ enabled' = FALSE /\ UNCHANGED task
    /\ UNCHANGED <<stored, temp, plain, roaming, nested, fields, past>>

Boxes == {"box:load", "box:show", "box:ready"}

CloseBox ==
    /\ step \in Boxes
    /\ step' = CASE step = "box:load" -> "load" [] step = "box:show" -> "show" [] OTHER -> "ready"
    /\ UNCHANGED <<disk, nested, fields, enabled, past>>

(* The user, once the window answers.                                      *)
Edit ==
    /\ step = "ready" /\ touched' = TRUE
    /\ \/ text' \in (Secrets \cup {Empty}) \ {text} /\ UNCHANGED <<mem, pick>>
       \/ pick' \in (Adapters \cup {Automatic}) \ {pick} /\ UNCHANGED <<mem, text>>
       \/ mem' = [mem EXCEPT !.remember = ~@] /\ UNCHANGED <<text, pick>>
       \/ mem' = [mem EXCEPT !.startup = ~@] /\ UNCHANGED <<text, pick>>
    /\ UNCHANGED <<disk, step, nested, enabled, degraded, report>>

(* start_connect                                                           *)
Connect ==
    /\ step = "ready" /\ enabled /\ text # Empty
    /\ temp' = ForPersistence(Capture) /\ step' = "save:connect"
    /\ UNCHANGED <<stored, plain, roaming, task, nested, fields, enabled, past>>

ConnectSaved ==
    /\ step = "save:connect"
    /\ \/ Rename("task:connect")
       \/ SaveFails("ready")
    /\ UNCHANGED <<plain, roaming, task, nested, fields, enabled, past>>

(* The settings in memory follow only now, after a box if the task failed. *)
ConnectTask ==
    /\ step = "task:connect"
    /\ \E r \in Results : /\ Schtasks(mem.startup, r)
                          /\ step' = IF r = "failed" THEN "box:ready" ELSE "ready"
    /\ mem' = Capture
    /\ UNCHANGED <<stored, temp, plain, roaming, nested, text, pick, enabled, past>>

(* begin_exit: from the window or the tray, or from the installer, also    *)
(* while a box is open.                                                    *)
BeginExit ==
    /\ step \in {"ready"} \cup Boxes
    /\ temp' = ForPersistence(Capture) /\ step' = "save:exit" /\ nested' = (step # "ready")
    /\ degraded' = (degraded \/ step \in {"box:load", "box:show"})
    /\ UNCHANGED <<stored, plain, roaming, task, fields, enabled, touched, report>>

ExitSaved ==
    /\ step = "save:exit"
    /\ \/ Rename("task:exit") /\ report' = "done"
       \/ SaveFails("task:exit") /\ report' = "none"
    /\ UNCHANGED <<plain, roaming, task, nested, fields, enabled, touched, degraded>>

(* What the exit as a whole has been told.                                 *)
Told(r) == IF report = "none" \/ nested \/ r = "failed" THEN "none" ELSE r

(* Faulty variant: switching the option off leaves the task.               *)
ExitTask_Create ==
    /\ step = "task:exit"
    /\ step' = IF nested THEN "undefined" ELSE "off"
    /\ \E r \in Results : Schtasks(task \/ mem.startup, r) /\ report' = Told(r)
    /\ UNCHANGED <<stored, temp, plain, roaming, nested, fields, enabled, touched, degraded>>

ExitTask ==
    /\ step = "task:exit"
    /\ step' = IF nested THEN "undefined" ELSE "off"
    /\ \E r \in Results : Schtasks(mem.startup, r) /\ report' = Told(r)
    /\ UNCHANGED <<stored, temp, plain, roaming, nested, fields, enabled, touched, degraded>>

(* The step below the box goes on with the freed state of the window: it   *)
(* ends the program, perhaps after creating the task.                      *)
Undefined ==
    /\ step = "undefined" /\ step' = "off"
    /\ task' \in {task, TRUE}
    /\ UNCHANGED <<stored, temp, plain, roaming, nested, fields, enabled, past>>

(* Power failure, end of the session, kill.                                *)
GuiDies ==
    /\ step # "off" /\ step' = "off" /\ report' = "none"
    /\ UNCHANGED <<disk, nested, fields, enabled, touched, degraded>>

SettingsNext ==
    \/ LaunchGui \/ Uninitialised \/ MigrateUserData \/ CopyDone \/ Load \/ ConvertSaved
    \/ RemovePlain \/ ShowSettings \/ CheckSystem \/ CloseBox
    \/ Edit \/ Connect \/ ConnectSaved \/ ConnectTask
    \/ BeginExit \/ ExitSaved \/ ExitTask \/ Undefined \/ GuiDies

SettingsSpec == SettingsInit /\ [][SettingsNext]_settingsVars
-----------------------------------------------------------------------------
SettingsTypeOK ==
    /\ {stored, temp, plain, roaming} \subseteq Settings \cup {None, Bad}
    /\ mem \in Settings /\ text \in Secrets \cup {Empty} /\ pick \in Adapters \cup {Automatic}
    /\ {task, nested, enabled, touched, degraded} \subseteq BOOLEAN
    /\ report \in {"none", "done", "unasked"}

(* Whoever switches "remember the password" off finds it gone from the     *)
(* settings file, also when they come from a file that still has it.       *)
SecretIsForgotten == (stored \in Settings /\ ~stored.remember) => stored.secret = Empty

(* After an exit that was told that all its writes succeeded the program    *)
(* starts with Windows whenever the saved settings say so, whatever failed  *)
(* before; and it only does so against them when the task was left because  *)
(* nobody could tell that it was there.                                     *)
TaskFollowsSettings ==
    step = "off" /\ report # "none" =>
        /\ stored \in Settings
        /\ stored.startup => task
        /\ task /\ ~stored.startup => report = "unasked"

(* What the user saved is never lost.  The plain file of an earlier version *)
(* is only removed once the settings file has its contents, and a session   *)
(* in which the user changes nothing leaves the saved settings as they      *)
(* were, unless the window could not show them.                            *)
OnlyCopyIsKept == (plain # None /\ plain' = None) => stored = ForPersistence(plain)

UntouchedStaysSaved == (stored \in Settings /\ stored' # stored) => (touched \/ degraded)

SavedIsKept == [][OnlyCopyIsKept /\ UntouchedStaysSaved]_settingsVars
=============================================================================
