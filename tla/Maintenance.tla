------------------------------ MODULE Maintenance ------------------------------
(***************************************************************************)
(* Setup and uninstaller as processes.  A setup is a window, a thread of   *)
(* it that waits for the elevated worker, and the worker; window and worker *)
(* talk through a handover directory.  The uninstaller is a dialog and a    *)
(* copy of itself that cleans up.  Workers and copies take the maintenance  *)
(* lock; each process may be killed.  What they do to the files one by one  *)
(* is Installation; here an installation is its identity.                   *)
(***************************************************************************)
EXTENDS Integers, FiniteSets

CONSTANTS
  Setups,       (* setup programs                                          *)
  Cleaners,     (* copies of the uninstaller                               *)
  Urls,         (* the number of addresses Npcap can be fetched from       *)
  MaxRuns,      (* bound: runs that windows start                          *)
  MaxInstalls,  (* bound: identities that are given out                    *)
  MaxKills      (* bound: processes killed                                 *)

ASSUME MaintenanceAssumption ==
  /\ Setups \cap Cleaners = {}
  /\ {"nobody", "abandoned"} \cap (Setups \cup Cleaners) = {}
  /\ Urls \in Nat \ {0} /\ MaxRuns \in Nat /\ MaxInstalls \in Nat /\ MaxKills \in Nat

VARIABLES
  page, cancelling, shown, runs,  (* a setup's window                      *)
  waiter,     (* its thread in relaunch_elevated                           *)
  hand,       (* the handover directory                                    *)
  pc, url, res,     (* its worker, the address it fetches from, its result  *)
  lock,       (* the owner of the maintenance mutex                        *)
  installed, ids,   (* the identity of what is installed, 0: nothing       *)
  client,     (* a client of the installation runs                         *)
  available,  (* detect_with finds a driver                                *)
  dialog,     (* the uninstaller's window is open                          *)
  cpc, target,      (* a copy of the uninstaller, the identity it was given *)
  copies,     (* the copies on the disk, not yet deleted or scheduled      *)
  kills,
  own         (* history: what the setup's present run has installed       *)

windowVars == <<page, cancelling, shown, runs, waiter>>
workVars == <<pc, url, res>>
worldVars == <<installed, ids, client, available>>
cleanVars == <<dialog, cpc, target, copies>>
vars == <<page, cancelling, shown, runs, waiter, hand, pc, url, res, lock,
          installed, ids, client, available, dialog, cpc, target, copies, kills, own>>

-----------------------------------------------------------------------------
Parties == Setups \cup Cleaners

Drivers == {"", "available", "installed", "cancelled", "download-failed", "verification-failed",
            "not-ready", "busy", "unsupported-os", "failed", "reboot-required", "reboot-retry"}

Result == [ok : BOOLEAN, driver : Drivers, reboot : BOOLEAN, launch : BOOLEAN]

Failed == [ok |-> FALSE, driver |-> "", reboot |-> FALSE, launch |-> FALSE]

(* A result file that is not there reads as an error, which the window      *)
(* shows as it shows a failure.                                             *)
Missing == [Failed EXCEPT !.driver = "failed"]

NoHand == [there |-> FALSE, cancel |-> FALSE, result |-> Missing, again |-> FALSE,
           launch |-> FALSE]

Ready(key) == key \in {"available", "installed"}

(* The window offers to repeat the driver only.                             *)
CanRetry(r) == r.ok /\ ~r.reboot /\ ~Ready(r.driver)

(* DriverExit::from_code.                                                   *)
FromCode(code) ==
  CASE code = 0 -> "success"
    [] code \in {1, 2, 1223} -> "cancelled"
    [] code = 350 -> "reboot-retry"
    [] code = 1618 -> "busy"
    [] code = 1633 -> "unsupported-os"
    [] code = 3010 -> "reboot-required"
    [] OTHER -> "failed"

Codes == {0, 1, 350, 1618, 1633, 3010, 1602}

NeedsReboot(exit) == exit \in {"reboot-required", "reboot-retry"}

(* Faulty variant: the installer's word is taken for the driver.            *)
Outcome_NoDetection(code, works) ==
  LET exit == FromCode(code)
  IN  IF NeedsReboot(exit) THEN exit
      ELSE IF works \/ exit = "success" THEN "installed" ELSE exit

(* What the driver's installer came to, seen by its code and by a second    *)
(* detection.                                                               *)
Outcome(code, works) ==
  LET exit == FromCode(code)
  IN  IF NeedsReboot(exit) THEN exit
      ELSE IF works THEN "installed"
      ELSE IF exit = "success" THEN "not-ready" ELSE exit

Init ==
  /\ page = [s \in Setups |-> "configure"] /\ cancelling = [s \in Setups |-> FALSE]
  /\ shown = [s \in Setups |-> Missing] /\ runs = 0
  /\ waiter = [s \in Setups |-> "none"] /\ hand = [s \in Setups |-> NoHand]
  /\ pc = [s \in Setups |-> "none"] /\ url = [s \in Setups |-> 1]
  /\ res = [s \in Setups |-> Missing]
  /\ lock = "nobody"
  /\ installed \in {0, 1} /\ ids = installed /\ client = FALSE /\ available = FALSE
  /\ dialog = FALSE /\ cpc = [c \in Cleaners |-> "none"] /\ target = [c \in Cleaners |-> 0]
  /\ copies = {} /\ kills = 0 /\ own = [s \in Setups |-> 0]

(* Faulty variant: the mutex of a process that was killed counts as held.   *)
Free_NotAbandoned == lock = "nobody"

(* maintenance::acquire waits for nothing and takes an abandoned mutex.     *)
Free == lock \in {"nobody", "abandoned"}

-----------------------------------------------------------------------------
(* The window of a setup.                                                   *)

(* begin(): each run has a directory of its own.                            *)
Begin(s, again) ==
  /\ runs < MaxRuns
  /\ IF again THEN page[s] = "finished" /\ CanRetry(shown[s]) ELSE page[s] = "configure"
  /\ \E launch \in IF again THEN {hand[s].launch} ELSE BOOLEAN :
       hand' = [hand EXCEPT ![s] = [NoHand EXCEPT !.there = TRUE, !.again = again,
                                                  !.launch = launch]]
  /\ page' = [page EXCEPT ![s] = "running"] /\ shown' = [shown EXCEPT ![s] = Missing]
  /\ runs' = runs + 1
  /\ waiter' = [waiter EXCEPT ![s] = "asking"] /\ own' = [own EXCEPT ![s] = 0]
  /\ UNCHANGED <<cancelling, workVars, lock, worldVars, cleanVars, kills>>

(* The user allows the worker to be elevated, or does not.                  *)
Consent(s) ==
  /\ waiter[s] = "asking"
  /\ \/ /\ waiter' = [waiter EXCEPT ![s] = "waiting"]
        /\ pc' = [pc EXCEPT ![s] = "verify"]
     \/ waiter' = [waiter EXCEPT ![s] = "error"] /\ UNCHANGED pc
  /\ UNCHANGED <<page, cancelling, shown, runs, hand, url, res, lock, worldVars,
                 cleanVars, kills, own>>

(* relaunch_elevated reads the exit code of the worker.                     *)
Return(s) ==
  /\ waiter[s] = "waiting" /\ pc[s] \in {"exit0", "exit1"}
  /\ waiter' = [waiter EXCEPT ![s] = IF pc[s] = "exit0" THEN "ok" ELSE "error"]
  /\ pc' = [pc EXCEPT ![s] = "none"] /\ res' = [res EXCEPT ![s] = Missing]
  /\ UNCHANGED <<page, cancelling, shown, runs, hand, url, lock, worldVars, cleanVars, kills, own>>

(* Faulty variant: only a worker that ended well ends the run.              *)
Tick_OkOnly(s) ==
  /\ page[s] = "running" /\ waiter[s] = "ok"
  /\ shown' = [shown EXCEPT ![s] = hand[s].result]
  /\ page' = [page EXCEPT ![s] = "finished"] /\ waiter' = [waiter EXCEPT ![s] = "none"]
  /\ hand' = [hand EXCEPT ![s] = [NoHand EXCEPT !.launch = hand[s].launch]]
  /\ cancelling' = [cancelling EXCEPT ![s] = FALSE]
  /\ UNCHANGED <<runs, workVars, lock, worldVars, cleanVars, kills, own>>

(* The timer finds the thread done, reads the result and removes the        *)
(* directory (finish()).                                                    *)
Tick(s) ==
  /\ page[s] = "running" /\ waiter[s] \in {"ok", "error"}
  /\ shown' = [shown EXCEPT ![s] = IF waiter[s] = "ok" THEN hand[s].result ELSE Missing]
  /\ page' = [page EXCEPT ![s] = "finished"] /\ waiter' = [waiter EXCEPT ![s] = "none"]
  /\ hand' = [hand EXCEPT ![s] = [NoHand EXCEPT !.launch = hand[s].launch]]
  /\ cancelling' = [cancelling EXCEPT ![s] = FALSE]
  /\ UNCHANGED <<runs, workVars, lock, worldVars, cleanVars, kills, own>>

(* The flag file may fail to be written; the window does not know.          *)
Cancel(s) ==
  /\ page[s] = "running" /\ ~cancelling[s]
  /\ cancelling' = [cancelling EXCEPT ![s] = TRUE]
  /\ \E written \in BOOLEAN : hand' = [hand EXCEPT ![s].cancel = written]
  /\ UNCHANGED <<page, shown, runs, waiter, workVars, lock, worldVars, cleanVars, kills, own>>

(* Nobody sees what the window remembers once it is gone.                   *)
Gone(s) ==
  /\ page' = [page EXCEPT ![s] = "closed"] /\ waiter' = [waiter EXCEPT ![s] = "none"]
  /\ shown' = [shown EXCEPT ![s] = Missing] /\ cancelling' = [cancelling EXCEPT ![s] = FALSE]
  /\ own' = [own EXCEPT ![s] = 0]
  /\ UNCHANGED <<runs, hand, workVars, lock, cleanVars>>

Close(s) ==
  /\ page[s] \in {"configure", "finished"}
  /\ Gone(s)
  /\ UNCHANGED <<worldVars, kills>>

Back(s) ==
  /\ page[s] = "finished" /\ ~shown[s].ok
  /\ page' = [page EXCEPT ![s] = "configure"] /\ shown' = [shown EXCEPT ![s] = Missing]
  /\ UNCHANGED <<cancelling, runs, waiter, hand, workVars, lock, worldVars, cleanVars, kills,
                 own>>

(* launch_client: what is there no more cannot be opened, and the window    *)
(* stays.                                                                   *)
OpenClient(s) ==
  /\ page[s] = "finished" /\ shown[s].ok /\ ~CanRetry(shown[s]) /\ shown[s].launch
  /\ installed # 0
  /\ client' = TRUE
  /\ Gone(s)
  /\ UNCHANGED <<installed, ids, available, kills>>

WindowKilled(s) ==
  /\ page[s] # "closed" /\ kills < MaxKills /\ kills' = kills + 1
  /\ Gone(s)
  /\ UNCHANGED worldVars

-----------------------------------------------------------------------------
(* The worker of a setup.                                                   *)
Step(s, from, to) == pc[s] = from /\ pc' = [pc EXCEPT ![s] = to]

(* verify_origin: the window that started it must still be there.           *)
Verify(s) ==
  /\ Step(s, "verify", IF page[s] # "closed" /\ hand[s].there THEN "lock" ELSE "exit1")
  /\ UNCHANGED <<windowVars, hand, url, res, lock, worldVars, cleanVars, kills,
                 own>>

(* The closure returns an error: the guard is dropped.                      *)
Give(s) ==
  /\ pc' = [pc EXCEPT ![s] = "write"]
  /\ res' = [res EXCEPT ![s] = Failed]
  /\ lock' = IF lock = s THEN "nobody" ELSE lock
  /\ UNCHANGED url

(* Faulty variant: the guard is not bound to a name, and dropped at once.   *)
Lock_Unbound(s) ==
  /\ pc[s] = "lock"
  /\ IF Free
       THEN pc' = [pc EXCEPT ![s] = "check"] /\ UNCHANGED <<url, res, lock>>
       ELSE Give(s)
  /\ UNCHANGED <<windowVars, hand, worldVars, cleanVars, kills, own>>

Lock(s) ==
  /\ pc[s] = "lock"
  /\ IF Free
       THEN lock' = s /\ pc' = [pc EXCEPT ![s] = "check"] /\ UNCHANGED <<url, res>>
       ELSE Give(s)
  /\ UNCHANGED <<windowVars, hand, worldVars, cleanVars, kills, own>>

(* A step fails, or there is nothing to repeat the driver for.              *)
StepFails(s) ==
  /\ pc[s] \in {"check", "stop", "files", "entries", "detect"}
  /\ Give(s)
  /\ UNCHANGED <<windowVars, hand, worldVars, cleanVars, kills, own>>

(* The options are read; a repetition for the driver needs the installation *)
(* of the run before.                                                       *)
Check(s) ==
  /\ pc[s] = "check"
  /\ IF hand[s].cancel \/ (hand[s].again /\ installed = 0)
       THEN Give(s) /\ UNCHANGED own
       ELSE /\ pc' = [pc EXCEPT ![s] = IF hand[s].again THEN "detect" ELSE "stop"]
            /\ own' = [own EXCEPT ![s] = IF hand[s].again THEN installed ELSE 0]
            /\ UNCHANGED <<url, res, lock>>
  /\ UNCHANGED <<windowVars, hand, worldVars, cleanVars, kills>>

(* stop_owned asks the clients it sees to exit, waits and terminates them;  *)
(* then the flag is looked at again.                                        *)
StopClient(s) ==
  /\ pc[s] = "stop"
  /\ client' = FALSE
  /\ IF hand[s].cancel THEN Give(s)
     ELSE pc' = [pc EXCEPT ![s] = "files"] /\ UNCHANGED <<url, res, lock>>
  /\ UNCHANGED <<windowVars, hand, installed, ids, available, cleanVars, kills, own>>

(* install_files ends with an identity that is new.  The image of a client  *)
(* that was started meanwhile cannot be replaced.                           *)
InstallFiles(s) ==
  /\ Step(s, "files", "entries")
  /\ ~client /\ ids < MaxInstalls
  /\ ids' = ids + 1 /\ installed' = ids + 1
  /\ own' = [own EXCEPT ![s] = ids + 1]
  /\ UNCHANGED <<windowVars, hand, url, res, lock, client, available, cleanVars,
                 kills>>

(* Shortcuts, the uninstall key, the cache directory.                       *)
MakeEntries(s) ==
  /\ Step(s, "entries", "detect")
  /\ UNCHANGED <<windowVars, hand, url, res, lock, worldVars, cleanVars, kills,
                 own>>

-----------------------------------------------------------------------------
(* driver_flow::ensure_driver.                                              *)
Settle(s, key, again) ==
  /\ res' = [res EXCEPT ![s] = [ok |-> TRUE, driver |-> key, reboot |-> again, launch |-> FALSE]]
  /\ pc' = [pc EXCEPT ![s] = "report"]

Detect(s) ==
  /\ pc[s] = "detect"
  /\ IF available THEN Settle(s, "available", FALSE)
     ELSE IF hand[s].cancel THEN Settle(s, "cancelled", FALSE)
     ELSE pc' = [pc EXCEPT ![s] = "download"] /\ UNCHANGED res
  /\ UNCHANGED <<windowVars, hand, url, lock, worldVars, cleanVars, kills, own>>

(* An address may answer with something else, or not, or not to the end.    *)
Answers == {"complete", "wrong", "broken"}

(* A download that fails, or has another hash, is followed by one from the  *)
(* next address.                                                            *)
Download(s, answer) ==
  /\ pc[s] = "download"
  /\ IF hand[s].cancel THEN Settle(s, "cancelled", FALSE)
     ELSE IF answer = "complete" THEN pc' = [pc EXCEPT ![s] = "proof"] /\ UNCHANGED res
     ELSE IF url[s] = Urls THEN Settle(s, "download-failed", FALSE)
     ELSE UNCHANGED <<pc, res>>
  /\ url' = [url EXCEPT ![s] = IF pc'[s] = "download" THEN @ + 1 ELSE 1]
  /\ UNCHANGED <<windowVars, hand, lock, worldVars, cleanVars, kills, own>>

(* Hash and signature of the file that will run.                            *)
Verdicts == {"trusted", "altered", "unsigned"}

Proof(s, verdict) ==
  /\ pc[s] = "proof"
  /\ IF verdict # "trusted" THEN Settle(s, "verification-failed", FALSE)
     ELSE IF hand[s].cancel THEN Settle(s, "cancelled", FALSE)
     ELSE pc' = [pc EXCEPT ![s] = "run"] /\ UNCHANGED res
  /\ UNCHANGED <<windowVars, hand, url, lock, worldVars, cleanVars, kills, own>>

(* The official installer, which is the user's to finish; the driver may    *)
(* work afterwards whatever it returns.                                     *)
RunInstaller(s) ==
  /\ pc[s] = "run"
  /\ \E code \in Codes, works \in BOOLEAN :
       /\ available' = works
       /\ Settle(s, Outcome(code, works), NeedsReboot(FromCode(code)))
  /\ UNCHANGED <<windowVars, hand, url, lock, installed, ids, client, cleanVars, kills, own>>

(* The closure returns; the guard is dropped before the result is written.  *)
Report(s) ==
  /\ Step(s, "report", "write")
  /\ res' = [res EXCEPT ![s].launch =
       hand[s].launch /\ Ready(res[s].driver) /\ ~res[s].reboot /\ ~hand[s].cancel]
  /\ lock' = "nobody"
  /\ UNCHANGED <<windowVars, hand, url, worldVars, cleanVars, kills, own>>

(* write_result goes through a temporary file, and may fail.                *)
Write(s) ==
  /\ Step(s, "write", "exit0")
  /\ hand' \in {hand, [hand EXCEPT ![s].result = res[s]]}
  /\ UNCHANGED <<windowVars, url, res, lock, worldVars, cleanVars, kills, own>>

Live(s) == pc[s] \notin {"none", "exit0", "exit1"}

WorkerKilled(s) ==
  /\ Live(s) /\ kills < MaxKills /\ kills' = kills + 1
  /\ pc' = [pc EXCEPT ![s] = "exit1"]
  /\ lock' = IF lock = s THEN "abandoned" ELSE lock
  /\ res' = [res EXCEPT ![s] = Missing] /\ url' = [url EXCEPT ![s] = 1]
  /\ UNCHANGED <<windowVars, hand, worldVars, cleanVars, own>>

-----------------------------------------------------------------------------
(* The client: started by the user or at logon, and closed.                 *)
ClientStart ==
  /\ installed # 0 /\ ~client /\ client' = TRUE
  /\ UNCHANGED <<windowVars, hand, workVars, lock, installed, ids, available, cleanVars, kills,
                 own>>

ClientExit ==
  /\ client /\ client' = FALSE
  /\ UNCHANGED <<windowVars, hand, workVars, lock, installed, ids, available, cleanVars, kills,
                 own>>

-----------------------------------------------------------------------------
(* The uninstaller.                                                         *)

(* One dialog at a time: the single-instance mutex.                         *)
DialogOpen ==
  /\ ~dialog /\ installed # 0 /\ dialog' = TRUE
  /\ UNCHANGED <<windowVars, hand, workVars, lock, worldVars, cpc, target, copies, kills, own>>

DialogClose ==
  /\ dialog /\ \A c \in Cleaners : cpc[c] # "copied"
  /\ dialog' = FALSE
  /\ UNCHANGED <<windowVars, hand, workVars, lock, worldVars, cpc, target, copies, kills, own>>

(* The user has confirmed: plan_uninstall, and the copy.                    *)
Copy(c) ==
  /\ dialog /\ \A d \in Cleaners : cpc[d] # "copied"
  /\ cpc[c] = "none" /\ installed # 0
  /\ cpc' = [cpc EXCEPT ![c] = "copied"]
  /\ target' = [target EXCEPT ![c] = installed]
  /\ copies' = copies \cup {c}
  /\ UNCHANGED <<windowVars, hand, workVars, lock, worldVars, dialog, kills, own>>

Spawn(c) ==
  /\ cpc[c] = "copied" /\ cpc' = [cpc EXCEPT ![c] = "handed"]
  /\ dialog' = FALSE
  /\ UNCHANGED <<windowVars, hand, workVars, lock, worldVars, target, copies, kills, own>>

SpawnFails(c) ==
  /\ cpc[c] = "copied" /\ cpc' = [cpc EXCEPT ![c] = "none"]
  /\ copies' = copies \ {c} /\ target' = [target EXCEPT ![c] = 0]
  /\ UNCHANGED <<windowVars, hand, workVars, lock, worldVars, dialog, kills, own>>

(* The guard of cleanup_install is dropped.                                 *)
Leave(c) ==
  /\ cpc' = [cpc EXCEPT ![c] = "tidy"]
  /\ lock' = IF lock = c THEN "nobody" ELSE lock

(* read_cleanup_target has consumed the handover, the dialog is waited for. *)
CleanLock(c) ==
  /\ cpc[c] = "handed"
  /\ IF Free THEN lock' = c /\ cpc' = [cpc EXCEPT ![c] = "match"] ELSE Leave(c)
  /\ UNCHANGED <<windowVars, hand, workVars, worldVars, dialog, target, copies, kills, own>>

(* Faulty variant: whatever is installed there is taken for what was meant. *)
CleanMatch_AnyIdentity(c) ==
  /\ cpc[c] = "match"
  /\ IF installed # 0 THEN cpc' = [cpc EXCEPT ![c] = "stop"] /\ UNCHANGED lock ELSE Leave(c)
  /\ UNCHANGED <<windowVars, hand, workVars, worldVars, dialog, target, copies, kills, own>>

CleanMatch(c) ==
  /\ cpc[c] = "match"
  /\ IF installed = target[c]
       THEN cpc' = [cpc EXCEPT ![c] = "stop"] /\ UNCHANGED lock
       ELSE Leave(c)
  /\ UNCHANGED <<windowVars, hand, workVars, worldVars, dialog, target, copies, kills, own>>

CleanStop(c) ==
  /\ cpc[c] = "stop"
  /\ client' = FALSE
  /\ cpc' = [cpc EXCEPT ![c] = "remove"]
  /\ UNCHANGED <<windowVars, hand, workVars, lock, installed, ids, available, dialog, target,
                 copies, kills, own>>

CleanFails(c) ==
  /\ cpc[c] \in {"stop", "remove"}
  /\ Leave(c)
  /\ UNCHANGED <<windowVars, hand, workVars, worldVars, dialog, target, copies, kills, own>>

(* run_uninstall, to its end.                                               *)
CleanRemove(c) ==
  /\ cpc[c] = "remove" /\ ~client
  /\ installed' = 0
  /\ Leave(c)
  /\ UNCHANGED <<windowVars, hand, workVars, ids, client, available, dialog, target, copies,
                 kills, own>>

(* cleanup_copy: the copy goes, or is scheduled to go at the next start of  *)
(* the system.  It comes to this at once if the handover cannot be read or  *)
(* names a reparse point.                                                   *)
Tidy(c) ==
  /\ cpc[c] \in {"handed", "tidy"} /\ cpc' = [cpc EXCEPT ![c] = "none"]
  /\ copies' = copies \ {c} /\ target' = [target EXCEPT ![c] = 0]
  /\ UNCHANGED <<windowVars, hand, workVars, lock, worldVars, dialog, kills, own>>

(* It cannot even be scheduled, which the user is told, or is killed.       *)
TidyFails(c) ==
  /\ cpc[c] \in {"handed", "tidy"} /\ cpc' = [cpc EXCEPT ![c] = "lost"]
  /\ target' = [target EXCEPT ![c] = 0]
  /\ UNCHANGED <<windowVars, hand, workVars, lock, worldVars, dialog, copies, kills, own>>

CleanerKilled(c) ==
  /\ cpc[c] \notin {"none", "lost"} /\ kills < MaxKills /\ kills' = kills + 1
  /\ cpc' = [cpc EXCEPT ![c] = "lost"]
  /\ target' = [target EXCEPT ![c] = 0]
  /\ lock' = IF lock = c THEN "abandoned" ELSE lock
  /\ dialog' = (dialog /\ cpc[c] # "copied")
  /\ UNCHANGED <<windowVars, hand, workVars, worldVars, copies, own>>

-----------------------------------------------------------------------------
Window(s) == \/ \E again \in BOOLEAN : Begin(s, again)
             \/ Consent(s) \/ Return(s) \/ Tick(s) \/ Cancel(s) \/ Close(s) \/ Back(s)
             \/ OpenClient(s) \/ WindowKilled(s)

Driver(s) == \/ Detect(s) \/ \E answer \in Answers : Download(s, answer)
             \/ \E verdict \in Verdicts : Proof(s, verdict)
             \/ RunInstaller(s)

Worker(s) == \/ Verify(s) \/ Lock(s) \/ StepFails(s) \/ Check(s) \/ StopClient(s)
             \/ InstallFiles(s) \/ MakeEntries(s) \/ Driver(s) \/ Report(s) \/ Write(s)

Cleaner(c) == \/ Copy(c) \/ Spawn(c) \/ SpawnFails(c) \/ CleanLock(c) \/ CleanMatch(c)
              \/ CleanStop(c) \/ CleanFails(c) \/ CleanRemove(c) \/ Tidy(c) \/ TidyFails(c)

Next == \/ \E s \in Setups : Window(s) \/ Worker(s) \/ WorkerKilled(s)
        \/ \E c \in Cleaners : Cleaner(c) \/ CleanerKilled(c)
        \/ ClientStart \/ ClientExit \/ DialogOpen \/ DialogClose

(* The processes run, the timer of the window ticks, and the user answers   *)
(* the prompts of Windows and of the driver's installer.                    *)
Fairness == \A s \in Setups : WF_vars(Worker(s)) /\ WF_vars(Consent(s) \/ Return(s) \/ Tick(s))

Spec == Init /\ [][Next]_vars /\ Fairness

-----------------------------------------------------------------------------
Holding(p) ==
  IF p \in Setups
    THEN pc[p] \in {"check", "stop", "files", "entries", "detect", "download", "proof", "run",
                    "report"}
    ELSE cpc[p] \in {"match", "stop", "remove"}

Pages == {"configure", "running", "finished", "closed"}

Waits == {"none", "asking", "waiting", "ok", "error"}

Working == {"none", "verify", "lock", "check", "stop", "files", "entries", "detect", "download",
            "proof", "run", "report", "write", "exit0", "exit1"}

Cleaning == {"none", "copied", "handed", "match", "stop", "remove", "tidy", "lost"}

Hands == [there : BOOLEAN, cancel : BOOLEAN, result : Result, again : BOOLEAN, launch : BOOLEAN]

WindowType ==
  /\ page \in [Setups -> Pages] /\ cancelling \in [Setups -> BOOLEAN]
  /\ shown \in [Setups -> Result] /\ runs \in 0 .. MaxRuns
  /\ waiter \in [Setups -> Waits] /\ hand \in [Setups -> Hands]

WorkerType ==
  /\ pc \in [Setups -> Working] /\ url \in [Setups -> 1 .. Urls] /\ res \in [Setups -> Result]

WorldType ==
  /\ installed \in Nat /\ ids \in Nat /\ installed <= ids
  /\ client \in BOOLEAN /\ available \in BOOLEAN
  /\ kills \in 0 .. MaxKills /\ own \in [Setups -> Nat]

CleanerType ==
  /\ lock \in Parties \cup {"nobody", "abandoned"}
  /\ dialog \in BOOLEAN /\ cpc \in [Cleaners -> Cleaning]
  /\ target \in [Cleaners -> Nat] /\ copies \subseteq Cleaners

(* Every variable has its type.                                             *)
TypeOK == WindowType /\ WorkerType /\ WorldType /\ CleanerType

(* At most one worker or copy works on the installation, and it is the one  *)
(* that holds the lock, also when others were killed while they held it.    *)
OneAtATime == \A p \in Parties : Holding(p) <=> lock = p

(* The uninstaller removes the installation the user was asked about, never *)
(* one that a setup has put in its place since.                             *)
OnlyConfirmedIsRemoved ==
  [][\A c \in Cleaners : cpc[c] = "remove" /\ installed' # installed => installed = target[c]]_vars

(* A worker or a copy gives up at the lock only if another one is at work:  *)
(* one that was killed keeps nobody out.                                    *)
Refused(p) == IF p \in Setups THEN pc[p] = "lock" /\ pc'[p] = "write"
                              ELSE cpc[p] = "handed" /\ cpc'[p] = "tidy"

RefusedOnlyIfBusy == [][\A p \in Parties : Refused(p) => \E q \in Parties : Holding(q)]_vars

(* What the last page of a window shows is the truth of its own run: files  *)
(* were installed by it, and a client is offered only with a driver that    *)
(* was found and needs no restart.                                          *)
ResultIsTrue ==
  \A s \in Setups : page[s] = "finished" /\ shown[s].ok =>
    /\ own[s] # 0
    /\ shown[s].launch => available /\ ~shown[s].reboot

(* A run ends, whatever becomes of the worker.                              *)
RunEnds == \A s \in Setups : page[s] = "running" ~> page[s] # "running"
=============================================================================
