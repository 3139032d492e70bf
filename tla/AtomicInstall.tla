---------------------------- MODULE AtomicInstall ---------------------------
(***************************************************************************)
(* What setup and uninstaller promise of the installed program.  A setup   *)
(* replaces it as a whole or leaves it, also if one of its steps fails; an *)
(* uninstaller that gets through leaves nothing of it.  Only a worker that *)
(* is killed, and one in which a second step fails, may leave a mixture,   *)
(* and the next one that gets through puts it right.                       *)
(***************************************************************************)
EXTENDS Integers

CONSTANT Releases

VARIABLES
  installed,    (* a release, "none", or "partial": a mixture, or a part    *)
  job,          (* "idle", the release a setup installs, or "uninstall"     *)
  mishaps,      (* the steps that failed, in the operation that runs        *)
  kills         (* the workers killed                                       *)

Something == Releases \cup {"none", "partial"}

Init == installed = "none" /\ job = "idle" /\ mishaps = 0 /\ kills = 0

Begin ==
  /\ job = "idle"
  /\ job' \in Releases \cup {"uninstall"}
  /\ mishaps' = 0
  /\ UNCHANGED <<installed, kills>>

(* A step fails, and the operation goes on to undo what it has done.        *)
Mishap ==
  /\ job # "idle"
  /\ mishaps' = mishaps + 1
  /\ UNCHANGED <<installed, job, kills>>

Perhaps == mishaps' \in {mishaps, mishaps + 1}

(* The new release is there as a whole, at once.                            *)
Commit ==
  /\ job \in Releases
  /\ mishaps = 0
  /\ installed' = job
  /\ Perhaps
  /\ UNCHANGED <<job, kills>>

(* A setup in which nothing failed has installed its release; one that could*)
(* undo what it had done leaves what was there, and only one whose rollback *)
(* failed too leaves something else.                                        *)
SetupEnd ==
  /\ job \in Releases /\ job' = "idle"
  /\ Perhaps
  /\ mishaps' = 0 => installed = job
  /\ mishaps <= 1 => installed' = installed
  /\ installed' \in Something
  /\ UNCHANGED kills

(* The uninstaller deletes one file after the other.                        *)
Remove ==
  /\ job = "uninstall"
  /\ installed' \in {installed, "none", "partial"}
  /\ UNCHANGED <<job, mishaps, kills>>

Removed ==
  /\ job = "uninstall" /\ job' = "idle"
  /\ mishaps = 0
  /\ installed' = "none"
  /\ UNCHANGED <<mishaps, kills>>

(* An uninstallation in which one step fails leaves the uninstaller.        *)
GiveUp ==
  /\ job = "uninstall" /\ job' = "idle"
  /\ Perhaps /\ mishaps' > 0
  /\ installed' \in {installed, "none", "partial"}
  /\ mishaps' = 1 => installed' # "none"
  /\ UNCHANGED kills

(* What a killed worker leaves, if the steps it took have not failed twice, *)
(* is what was there, what was to come, or less; never another release.     *)
Kill ==
  /\ job # "idle" /\ job' = "idle"
  /\ kills' = kills + 1
  /\ installed' \in Something
  /\ mishaps <= 1 => installed' \in {installed, job, "none", "partial"}
  /\ UNCHANGED mishaps

Next == \/ Begin \/ Mishap \/ Commit \/ SetupEnd \/ Remove \/ Removed \/ GiveUp \/ Kill

Spec == Init /\ [][Next]_<<installed, job, mishaps, kills>>
=============================================================================
