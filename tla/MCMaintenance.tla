---------------------------- MODULE MCMaintenance ----------------------------
(***************************************************************************)
(* Around the GUI program: the processes that install and remove it, and   *)
(* what it keeps of its user from one start to the next.  The two share no *)
(* state; a behaviour is one of part, and the other part rests.            *)
(***************************************************************************)
EXTENDS Maintenance, UserSettings

VARIABLE part

allVars == <<part, vars, settingsVars>>

PartsInit ==
  /\ part \in {"maintenance", "settings"}
  /\ Init
  /\ part # "maintenance" => installed = 0
  /\ SettingsInit
  /\ part # "settings" => stored = None /\ plain = None /\ roaming = None /\ task = FALSE

OfMaintenance == part = "maintenance" /\ UNCHANGED <<part, settingsVars>>

OfSettings == part = "settings" /\ UNCHANGED <<part, vars>>

PartsNext ==
  \/ OfMaintenance /\ \E s \in Setups, again \in BOOLEAN : Begin(s, again)
  \/ OfMaintenance /\ \E s \in Setups : Consent(s)
  \/ OfMaintenance /\ \E s \in Setups : Return(s)
  \/ OfMaintenance /\ \E s \in Setups : Tick(s)
  \/ OfMaintenance /\ \E s \in Setups : Cancel(s)
  \/ OfMaintenance /\ \E s \in Setups : Close(s)
  \/ OfMaintenance /\ \E s \in Setups : Back(s)
  \/ OfMaintenance /\ \E s \in Setups : OpenClient(s)
  \/ OfMaintenance /\ \E s \in Setups : WindowKilled(s)
  \/ OfMaintenance /\ \E s \in Setups : Verify(s)
  \/ OfMaintenance /\ \E s \in Setups : Lock(s)
  \/ OfMaintenance /\ \E s \in Setups : StepFails(s)
  \/ OfMaintenance /\ \E s \in Setups : Check(s)
  \/ OfMaintenance /\ \E s \in Setups : StopClient(s)
  \/ OfMaintenance /\ \E s \in Setups : InstallFiles(s)
  \/ OfMaintenance /\ \E s \in Setups : MakeEntries(s)
  \/ OfMaintenance /\ \E s \in Setups : Detect(s)
  \/ OfMaintenance /\ \E s \in Setups, answer \in Answers : Download(s, answer)
  \/ OfMaintenance /\ \E s \in Setups, verdict \in Verdicts : Proof(s, verdict)
  \/ OfMaintenance /\ \E s \in Setups : RunInstaller(s)
  \/ OfMaintenance /\ \E s \in Setups : Report(s)
  \/ OfMaintenance /\ \E s \in Setups : Write(s)
  \/ OfMaintenance /\ \E s \in Setups : WorkerKilled(s)
  \/ OfMaintenance /\ \E c \in Cleaners : Copy(c)
  \/ OfMaintenance /\ \E c \in Cleaners : Spawn(c)
  \/ OfMaintenance /\ \E c \in Cleaners : SpawnFails(c)
  \/ OfMaintenance /\ \E c \in Cleaners : CleanLock(c)
  \/ OfMaintenance /\ \E c \in Cleaners : CleanMatch(c)
  \/ OfMaintenance /\ \E c \in Cleaners : CleanStop(c)
  \/ OfMaintenance /\ \E c \in Cleaners : CleanFails(c)
  \/ OfMaintenance /\ \E c \in Cleaners : CleanRemove(c)
  \/ OfMaintenance /\ \E c \in Cleaners : Tidy(c)
  \/ OfMaintenance /\ \E c \in Cleaners : TidyFails(c)
  \/ OfMaintenance /\ \E c \in Cleaners : CleanerKilled(c)
  \/ OfMaintenance /\ ClientStart
  \/ OfMaintenance /\ ClientExit
  \/ OfMaintenance /\ DialogOpen
  \/ OfMaintenance /\ DialogClose
  \/ OfSettings /\ LaunchGui
  \/ OfSettings /\ Uninitialised
  \/ OfSettings /\ MigrateUserData
  \/ OfSettings /\ CopyDone
  \/ OfSettings /\ Load
  \/ OfSettings /\ ConvertSaved
  \/ OfSettings /\ RemovePlain
  \/ OfSettings /\ ShowSettings
  \/ OfSettings /\ CheckSystem
  \/ OfSettings /\ CloseBox
  \/ OfSettings /\ Edit
  \/ OfSettings /\ Connect
  \/ OfSettings /\ ConnectSaved
  \/ OfSettings /\ ConnectTask
  \/ OfSettings /\ BeginExit
  \/ OfSettings /\ ExitSaved
  \/ OfSettings /\ ExitTask
  \/ OfSettings /\ Undefined
  \/ OfSettings /\ GuiDies

PartsFairness ==
  \A s \in Setups :
    /\ WF_allVars(OfMaintenance /\ Worker(s))
    /\ WF_allVars(OfMaintenance /\ (Consent(s) \/ Return(s) \/ Tick(s)))

PartsSpec == PartsInit /\ [][PartsNext]_allVars /\ PartsFairness
=============================================================================
