---------------------------- MODULE Installation ----------------------------
(***************************************************************************)
(* The installation directory of the GUI: the elevated setup worker with   *)
(* its file transaction, and the uninstaller.  Both hold the maintenance   *)
(* lock while they change anything, so that one of them runs at a time;    *)
(* each of its steps may fail, and it may be killed between any two.  What *)
(* is on disk and in the registry survives, the journal does not.          *)
(***************************************************************************)
EXTENDS Integers, FiniteSets

CONSTANTS
  Releases,     (* the releases there are setups of                        *)
  MaxFaults,    (* bound: steps that fail, in one setup or uninstallation  *)
  MaxCrashes    (* bound: workers killed                                   *)

ASSUME InstallationAssumption ==
  /\ Releases # {} /\ {"absent", "torn", "none", "partial", "idle", "uninstall"} \cap Releases = {}
  /\ MaxFaults \in Nat
  /\ MaxCrashes \in Nat

VARIABLES
  content,    (* File -> the release a file is of, "torn" or "absent"      *)
  backup,     (* File -> the same for its .bak-upgrade                     *)
  staging,    (* the staging directory is there                            *)
  subdirs,    (* runtime and licenses are there                            *)
  data,       (* the user's data are there                                 *)
  marker,     (* install-state.json                                        *)
  links,      (* the shortcuts                                             *)
  registered, (* the uninstall key names this directory                    *)
  pc,         (* what the worker is at                                     *)
  release,    (* the release it installs                                   *)
  todo,       (* the staged files not yet committed                        *)
  file,       (* the file it copies                                        *)
  created, saved,     (* journal.created_files, journal.backups            *)
  kept,       (* the uninstaller and the identity, read by finalize_with   *)
  faults, crashes,
  before      (* history: what the setup found installed                    *)

diskVars == <<content, backup, staging, subdirs, data, marker>>
entryVars == <<links, registered>>
jobVars == <<release, todo, file, created, saved, kept>>
vars == <<content, backup, staging, subdirs, data, marker, links, registered, pc, release,
          todo, file, created, saved, kept, faults, crashes, before>>

-----------------------------------------------------------------------------
(* The core lies in a directory named after its hash, each release's in one *)
(* of its own.                                                              *)
File == [name : {"gui", "uninstall"}, of : {"any"}]
          \cup [name : {"core"}, of : Releases]

Payload(r) == {f \in File : f.of \in {"any", r}}

Any(name) == [name |-> name, of |-> "any"]

Nested == {f \in File : f.name = "core"}

State == Releases \cup {"absent", "torn"}

NoRelease == CHOOSE r \in Releases : TRUE

(* is_our_install: the identity file is there and can be read.              *)
Ours == marker \in Releases

CanUninstall == Ours /\ content[Any("uninstall")] \in Releases

Occupied ==
  \/ \E f \in File : content[f] # "absent" \/ backup[f] # "absent"
  \/ staging \/ subdirs \/ data \/ marker # "absent"

(* What is installed, the files being c: a release if all its files, of     *)
(* which the program is one, are of it.                                     *)
VersionOf(c) ==
  LET r == c[Any("gui")] IN
  IF r \in Releases /\ \A f \in Payload(r) : c[f] = r
    THEN r
    ELSE IF \A f \in File : c[f] = "absent" THEN "none" ELSE "partial"

Version == VersionOf(content)

Init ==
  /\ content = [f \in File |-> "absent"] /\ backup = [f \in File |-> "absent"]
  /\ staging = FALSE /\ subdirs = FALSE /\ data = FALSE /\ marker = "absent"
  /\ links = FALSE /\ registered = FALSE
  /\ pc = "idle" /\ release = NoRelease /\ todo = {} /\ file = Any("gui")
  /\ created = {} /\ saved = {} /\ kept = [exe |-> "absent", marker |-> "absent"]
  /\ faults = 0 /\ crashes = 0 /\ before = "none"

Go(from, to) == pc = from /\ pc' = to

Fault == faults < MaxFaults /\ faults' = faults + 1

-----------------------------------------------------------------------------
(* Setup.                                                                   *)

(* reject_foreign_occupied and enforce_single_install have passed.          *)
SetupBegin ==
  /\ Go("idle", "prepare")
  /\ Ours \/ ~Occupied
  /\ release' \in Releases /\ todo' = Payload(release') /\ file' = Any("gui")
  /\ created' = {} /\ saved' = {}
  /\ kept' = [exe |-> "absent", marker |-> "absent"]
  /\ faults' = 0
  /\ before' = Version
  /\ UNCHANGED <<diskVars, entryVars, crashes>>

(* prepare_install_dir: what earlier setups left at the top goes.           *)
Prepare ==
  /\ Go("prepare", "stage")
  /\ staging' = (staging /\ ~Ours)
  /\ backup' = [f \in File |-> IF Ours /\ f \notin Nested THEN "absent" ELSE backup[f]]
  /\ UNCHANGED <<content, subdirs, data, marker, entryVars, jobVars, faults, crashes, before>>

PreparePart ==
  /\ staging' \in {staging, staging /\ ~Ours}
  /\ \E gone \in SUBSET (File \ Nested) :
       backup' = [f \in File |-> IF Ours /\ f \in gone THEN "absent" ELSE backup[f]]

PrepareFails ==
  /\ Go("prepare", "idle")
  /\ Fault
  /\ PreparePart
  /\ UNCHANGED <<content, subdirs, data, marker, entryVars, jobVars, crashes, before>>

Stage ==
  /\ Go("stage", "commit")
  /\ staging' = TRUE
  /\ UNCHANGED <<content, backup, subdirs, data, marker, entryVars, jobVars, faults, crashes,
                 before>>

(* Transaction::begin or stage_file fails: the error is returned at once.   *)
StageFails ==
  /\ Go("stage", "idle")
  /\ Fault
  /\ staging' \in BOOLEAN
  /\ UNCHANGED <<content, backup, subdirs, data, marker, entryVars, jobVars, crashes, before>>

(* The loop over the staged files is left early.                            *)
Abandon ==
  /\ todo' = {} /\ file' = Any("gui")
  /\ UNCHANGED <<release, created, saved, kept>>

MakeDirs(f) == subdirs' = (subdirs \/ f \in Nested)

(* Faulty variant: the file that is replaced is not saved.                  *)
CommitSave_NoBackup(f) ==
  /\ Go("commit", "copy")
  /\ f \in todo
  /\ MakeDirs(f)
  /\ file' = f
  /\ IF content[f] = "absent"
       THEN created' = created \cup {f} /\ UNCHANGED saved
       ELSE saved' = saved \cup {f} /\ UNCHANGED created
  /\ UNCHANGED <<content, backup, staging, data, marker, entryVars, release, todo, kept,
                 faults, crashes, before>>

(* The file that is replaced is saved, a new one noted; the order is that   *)
(* of read_dir.                                                             *)
CommitSave(f) ==
  /\ Go("commit", "copy")
  /\ f \in todo
  /\ MakeDirs(f)
  /\ file' = f
  /\ IF content[f] = "absent"
       THEN created' = created \cup {f} /\ UNCHANGED <<backup, saved>>
       ELSE /\ backup' = [backup EXCEPT ![f] = content[f]]
            /\ saved' = saved \cup {f}
            /\ UNCHANGED created
  /\ UNCHANGED <<content, staging, data, marker, entryVars, release, todo, kept, faults,
                 crashes, before>>

CommitSaveFails(f) ==
  /\ Go("commit", "rollback")
  /\ Fault
  /\ f \in todo
  /\ \/ f \in Nested /\ subdirs' \in {subdirs, TRUE} /\ UNCHANGED backup
     \/ /\ content[f] # "absent"
        /\ MakeDirs(f)
        /\ backup' \in {backup, [backup EXCEPT ![f] = "torn"]}
  /\ Abandon
  /\ UNCHANGED <<content, staging, data, marker, entryVars, crashes, before>>

CommitCopy ==
  /\ Go("copy", "commit")
  /\ content' = [content EXCEPT ![file] = release]
  /\ todo' = todo \ {file}
  /\ UNCHANGED <<backup, staging, subdirs, data, marker, entryVars, release, file, created,
                 saved, kept, faults, crashes, before>>

(* The copy fails before it opens the target, or on the way.                *)
CommitCopyFails ==
  /\ Go("copy", "rollback")
  /\ Fault
  /\ content' \in {content, [content EXCEPT ![file] = "torn"]}
  /\ Abandon
  /\ UNCHANGED <<backup, staging, subdirs, data, marker, entryVars, crashes, before>>

(* The transaction is dropped, and the journal with it.                     *)
DropJournal ==
  /\ created' = {} /\ saved' = {} /\ file' = Any("gui")
  /\ UNCHANGED <<release, todo, kept>>

(* All files are there: the backups and the staging directory go.           *)
CommitEnd ==
  /\ Go("commit", "acl")
  /\ todo = {}
  /\ backup' = [f \in File |-> IF f \in saved THEN "absent" ELSE backup[f]]
  /\ staging' = FALSE
  /\ DropJournal
  /\ UNCHANGED <<content, subdirs, data, marker, entryVars, faults, crashes, before>>

(* What of it cannot be deleted is left there.                              *)
CommitEndFails ==
  /\ Go("commit", "acl")
  /\ Fault
  /\ todo = {}
  /\ \E gone \in SUBSET saved :
       backup' = [f \in File |-> IF f \in gone THEN "absent" ELSE backup[f]]
  /\ staging' \in {staging, FALSE}
  /\ DropJournal
  /\ UNCHANGED <<content, subdirs, data, marker, entryVars, crashes, before>>

(* The files the commit created go.                                         *)
RollbackCreated ==
  /\ Go("rollback", "restore")
  /\ content' = [f \in File |-> IF f \in created THEN "absent" ELSE content[f]]
  /\ created' = {}
  /\ UNCHANGED <<backup, staging, subdirs, data, marker, entryVars, release, todo, file,
                 saved, kept, faults, crashes, before>>

RollbackCreatedFails ==
  /\ Go("rollback", "restore")
  /\ Fault
  /\ \E gone \in SUBSET created :
       content' = [f \in File |-> IF f \in gone THEN "absent" ELSE content[f]]
  /\ created' = {}
  /\ UNCHANGED <<backup, staging, subdirs, data, marker, entryVars, release, todo, file,
                 saved, kept, crashes, before>>

(* Faulty variant: the loop over the backups ends with the first of them.   *)
RollbackRestore_FirstOnly(f) ==
  /\ Go("restore", "restore")
  /\ f \in saved
  /\ content' = [content EXCEPT ![f] = backup[f]]
  /\ backup' = [backup EXCEPT ![f] = "absent"]
  /\ saved' = {}
  /\ UNCHANGED <<staging, subdirs, data, marker, entryVars, release, todo, file, created,
                 kept, faults, crashes, before>>

(* A backup is copied back and removed.                                     *)
RollbackRestore(f) ==
  /\ Go("restore", "restore")
  /\ f \in saved
  /\ content' = [content EXCEPT ![f] = backup[f]]
  /\ backup' = [backup EXCEPT ![f] = "absent"]
  /\ saved' = saved \ {f}
  /\ UNCHANGED <<staging, subdirs, data, marker, entryVars, release, todo, file, created,
                 kept, faults, crashes, before>>

(* It is removed as well when it could not be copied; that may fail too, or *)
(* alone.                                                                   *)
RollbackRestoreFails(f) ==
  /\ Go("restore", "restore")
  /\ Fault
  /\ f \in saved
  /\ \/ /\ content' \in {content, [content EXCEPT ![f] = "torn"]}
        /\ backup' = [backup EXCEPT ![f] = "absent"]
     \/ /\ content' \in {content, [content EXCEPT ![f] = "torn"], [content EXCEPT ![f] = backup[f]]}
        /\ UNCHANGED backup
  /\ saved' = saved \ {f}
  /\ UNCHANGED <<staging, subdirs, data, marker, entryVars, release, todo, file, created,
                 kept, crashes, before>>

RollbackEnd ==
  /\ Go("restore", "idle")
  /\ saved = {}
  /\ \/ staging' = FALSE /\ UNCHANGED faults
     \/ Fault /\ UNCHANGED staging
  /\ UNCHANGED <<content, backup, subdirs, data, marker, entryVars, jobVars, crashes, before>>

(* The data directory and its access rights.                                *)
SetupData ==
  /\ Go("acl", "state")
  /\ data' = TRUE
  /\ UNCHANGED <<content, backup, staging, subdirs, marker, entryVars, jobVars, faults,
                 crashes, before>>

SetupDataFails ==
  /\ Go("acl", "idle")
  /\ Fault
  /\ data' \in {data, TRUE}
  /\ UNCHANGED <<content, backup, staging, subdirs, marker, entryVars, jobVars, crashes,
                 before>>

SaveState ==
  /\ Go("state", "entries")
  /\ marker' = release
  /\ UNCHANGED <<content, backup, staging, subdirs, data, entryVars, jobVars, faults, crashes,
                 before>>

(* fs::write truncates the file before it writes.                           *)
SaveStateFails ==
  /\ Go("state", "idle")
  /\ Fault
  /\ marker' \in {marker, "torn"}
  /\ UNCHANGED <<content, backup, staging, subdirs, data, entryVars, jobVars, crashes, before>>

(* Shortcuts first, then the uninstall key.                                 *)
SetupLinks ==
  /\ Go("entries", "register")
  /\ links' = TRUE
  /\ UNCHANGED <<diskVars, registered, jobVars, faults, crashes, before>>

SetupRegister ==
  /\ Go("register", "idle")
  /\ registered' = TRUE
  /\ UNCHANGED <<diskVars, links, jobVars, faults, crashes, before>>

(* Some of the shortcuts, or of the values of the key, may be there.        *)
SetupEntriesFail ==
  /\ pc \in {"entries", "register"} /\ pc' = "idle"
  /\ Fault
  /\ links' \in {links, TRUE}
  /\ registered' \in {registered, registered \/ pc = "register"}
  /\ UNCHANGED <<diskVars, jobVars, crashes, before>>

-----------------------------------------------------------------------------
(* Uninstallation.                                                          *)

(* The copy of the uninstaller runs, and has found the identity it expects. *)
UninstallBegin ==
  /\ Go("idle", "delete")
  /\ CanUninstall
  /\ release' = NoRelease /\ todo' = {} /\ file' = Any("gui") /\ created' = {} /\ saved' = {}
  /\ kept' = [exe |-> "absent", marker |-> "absent"]
  /\ faults' = 0
  /\ before' = "none"
  /\ UNCHANGED <<diskVars, entryVars, crashes>>

(* delete_owned: all but the uninstaller and the identity.                  *)
Keep(f) == f.name = "uninstall"

(* Faulty variant: the backups at the top, which no subdirectory takes with *)
(* it, are forgotten.                                                       *)
Delete_BackupsStay ==
  /\ Go("delete", "unlink")
  /\ content' = [f \in File |-> IF Keep(f) THEN content[f] ELSE "absent"]
  /\ backup' = [f \in File |-> IF f \in Nested THEN "absent" ELSE backup[f]]
  /\ staging' = FALSE /\ subdirs' = FALSE /\ data' = FALSE
  /\ UNCHANGED <<marker, entryVars, jobVars, faults, crashes, before>>

Delete ==
  /\ Go("delete", "unlink")
  /\ content' = [f \in File |-> IF Keep(f) THEN content[f] ELSE "absent"]
  /\ backup' = [f \in File |-> "absent"]
  /\ staging' = FALSE /\ subdirs' = FALSE /\ data' = FALSE
  /\ UNCHANGED <<marker, entryVars, jobVars, faults, crashes, before>>

(* Whatever cannot be deleted is left over, and the uninstallation ends.    *)
DeletePart ==
  \E left \in SUBSET {f \in File : content[f] # "absent" /\ ~Keep(f)} :
    /\ content' = [f \in File |-> IF Keep(f) \/ f \in left THEN content[f] ELSE "absent"]
    /\ backup' \in {backup, [f \in File |-> "absent"]}
    /\ staging' \in {staging, FALSE}
    /\ subdirs' = (subdirs /\ (left \cap Nested # {} \/ backup' = backup))
    /\ data' \in {data, FALSE}

DeleteFails ==
  /\ Go("delete", "idle")
  /\ Fault
  /\ DeletePart
  /\ UNCHANGED <<marker, entryVars, jobVars, crashes, before>>

(* finalize_with: the last two files are read, the entries go.              *)
Unlink ==
  /\ Go("unlink", "exe")
  /\ kept' = [exe |-> content[Any("uninstall")], marker |-> marker]
  /\ links' = FALSE
  /\ UNCHANGED <<diskVars, registered, release, todo, file, created, saved, faults, crashes,
                 before>>

UnlinkFails ==
  /\ Go("unlink", "idle")
  /\ Fault
  /\ links' \in {links, FALSE}
  /\ UNCHANGED <<diskVars, registered, jobVars, crashes, before>>

RemoveUninstaller ==
  /\ Go("exe", "marker")
  /\ content' = [content EXCEPT ![Any("uninstall")] = "absent"]
  /\ UNCHANGED <<backup, staging, subdirs, data, marker, entryVars, jobVars, faults, crashes,
                 before>>

RemoveUninstallerFails ==
  /\ Go("exe", "idle")
  /\ Fault
  /\ UNCHANGED <<diskVars, entryVars, jobVars, crashes, before>>

RemoveMarker ==
  /\ Go("marker", "key")
  /\ marker' = "absent"
  /\ UNCHANGED <<content, backup, staging, subdirs, data, entryVars, jobVars, faults, crashes,
                 before>>

(* The last file cannot be deleted, or the key: what is gone is written     *)
(* again from memory.                                                       *)
RemoveMarkerFails ==
  /\ Go("marker", "undo")
  /\ Fault
  /\ UNCHANGED <<diskVars, entryVars, jobVars, crashes, before>>

RemoveKey ==
  /\ Go("key", "idle")
  /\ registered' = FALSE
  /\ UNCHANGED <<diskVars, links, jobVars, faults, crashes, before>>

RemoveKeyFails ==
  /\ Go("key", "undo")
  /\ Fault
  /\ UNCHANGED <<diskVars, entryVars, jobVars, crashes, before>>

(* Faulty variant: only the last file that was removed is written again.    *)
Undo_LastOnly ==
  /\ Go("undo", "idle")
  /\ IF marker = "absent"
       THEN marker' = kept.marker /\ UNCHANGED content
       ELSE content' = [content EXCEPT ![Any("uninstall")] = kept.exe] /\ UNCHANGED marker
  /\ UNCHANGED <<backup, staging, subdirs, data, entryVars, jobVars, faults, crashes, before>>

Undo ==
  /\ Go("undo", "idle")
  /\ content' = [content EXCEPT ![Any("uninstall")] = kept.exe]
  /\ marker' = kept.marker
  /\ UNCHANGED <<backup, staging, subdirs, data, entryVars, jobVars, faults, crashes, before>>

(* The recovery itself fails, or stops on the way.                          *)
UndoPart ==
  /\ content' \in {[content EXCEPT ![Any("uninstall")] = s] : s \in {"absent", "torn", kept.exe}}
  /\ \/ UNCHANGED marker
     \/ marker = "absent" /\ marker' \in {"torn", kept.marker}
  /\ UNCHANGED <<backup, staging, subdirs, data>>

UndoFails ==
  /\ Go("undo", "idle")
  /\ Fault
  /\ UndoPart
  /\ UNCHANGED <<entryVars, jobVars, crashes, before>>

-----------------------------------------------------------------------------
(* What a step has done on the disk when its worker is killed in its midst. *)
Torn(files) ==
  content' \in {content} \cup {[content EXCEPT ![f] = "torn"] : f \in files}

Interrupted ==
  CASE pc = "prepare" -> PreparePart /\ UNCHANGED <<content, subdirs, data, marker>>
    [] pc = "stage" ->
         staging' \in BOOLEAN /\ UNCHANGED <<content, backup, subdirs, data, marker>>
    [] pc = "commit" ->
         /\ \/ \E f \in {g \in todo : content[g] # "absent"} :
                 backup' = [backup EXCEPT ![f] = "torn"]
            \/ \E gone \in SUBSET saved :
                 backup' = [f \in File |-> IF todo = {} /\ f \in gone THEN "absent"
                                                                   ELSE backup[f]]
         /\ UNCHANGED <<content, staging, subdirs, data, marker>>
    [] pc = "copy" -> Torn({file}) /\ UNCHANGED <<backup, staging, subdirs, data, marker>>
    [] pc = "rollback" ->
         /\ \E gone \in SUBSET created :
              content' = [f \in File |-> IF f \in gone THEN "absent" ELSE content[f]]
         /\ UNCHANGED <<backup, staging, subdirs, data, marker>>
    [] pc = "restore" -> Torn(saved) /\ UNCHANGED <<backup, staging, subdirs, data, marker>>
    [] pc = "state" ->
         marker' \in {marker, "torn"} /\ UNCHANGED <<content, backup, staging, subdirs, data>>
    [] pc = "delete" -> DeletePart /\ UNCHANGED marker
    [] pc = "undo" -> UndoPart
    [] OTHER -> UNCHANGED diskVars

Crash ==
  /\ pc # "idle"
  /\ pc' = "idle"
  /\ crashes < MaxCrashes
  /\ crashes' = crashes + 1
  /\ Interrupted
  /\ UNCHANGED <<entryVars, jobVars, faults, before>>

Setup == \/ SetupBegin \/ Prepare \/ PrepareFails \/ Stage \/ StageFails
         \/ \E f \in File : CommitSave(f) \/ CommitSaveFails(f)
         \/ CommitCopy \/ CommitCopyFails \/ CommitEnd \/ CommitEndFails
         \/ RollbackCreated \/ RollbackCreatedFails \/ RollbackEnd
         \/ \E f \in File : RollbackRestore(f) \/ RollbackRestoreFails(f)
         \/ SetupData \/ SetupDataFails \/ SaveState \/ SaveStateFails
         \/ SetupLinks \/ SetupRegister \/ SetupEntriesFail

Uninstall == \/ UninstallBegin \/ Delete \/ DeleteFails \/ Unlink \/ UnlinkFails
             \/ RemoveUninstaller \/ RemoveUninstallerFails
             \/ RemoveMarker \/ RemoveMarkerFails \/ RemoveKey \/ RemoveKeyFails
             \/ Undo \/ UndoFails

Next == Setup \/ Uninstall \/ Crash

Spec == Init /\ [][Next]_vars

-----------------------------------------------------------------------------
(* Every variable has its type.                                             *)
FilesOK == content \in [File -> State] /\ backup \in [File -> State] /\ marker \in State

FlagsOK ==
  /\ staging \in BOOLEAN /\ subdirs \in BOOLEAN /\ data \in BOOLEAN
  /\ links \in BOOLEAN /\ registered \in BOOLEAN

JobOK ==
  /\ pc \in {"idle", "prepare", "stage", "commit", "copy", "rollback", "restore", "acl", "state",
             "entries", "register", "delete", "unlink", "exe", "marker", "key", "undo"}
  /\ release \in Releases /\ todo \subseteq Payload(release) /\ file \in File
  /\ created \subseteq Payload(release) /\ saved \subseteq Payload(release)
  /\ kept \in [exe : State, marker : State]

CountsOK ==
  /\ faults \in 0 .. MaxFaults /\ crashes \in 0 .. MaxCrashes
  /\ before \in Releases \cup {"none", "partial"}

TypeOK == FilesOK /\ FlagsOK /\ JobOK /\ CountsOK

Uninstalling == {"delete", "unlink", "exe", "marker", "key", "undo"}

(* What is installed for AtomicInstall: while the files are replaced, what  *)
(* was there; the commit is the step that deletes the backups.              *)
Committing == {"commit", "copy", "rollback", "restore"}

Installed == IF pc \in Committing THEN before ELSE Version

Job == IF pc = "idle" THEN "idle" ELSE IF pc \in Uninstalling THEN "uninstall" ELSE release

A == INSTANCE AtomicInstall
       WITH installed <- Installed, job <- Job, mishaps <- faults, kills <- crashes

(* A setup in which no more than one step fails installs a release as a     *)
(* whole or leaves what was there: no mixture of two releases, although the *)
(* files are replaced one after the other.  Whatever a killed worker, or one*)
(* in which more steps failed, has left there, a setup without a failure    *)
(* turns into its release, and an uninstallation without one into nothing;  *)
(* and also a kill leaves no release that was neither there nor to come.    *)
Atomic == A!Spec

(* An uninstallation that gives up, one of its steps having failed, leaves  *)
(* the uninstaller and the identity it looks for: it can be run again.      *)
UninstallCanBeRetried ==
  [][(pc \in Uninstalling /\ pc' = "idle" /\ crashes' = crashes /\ faults' = 1)
       => CanUninstall']_vars

(* However many steps fail and whenever a worker is killed, the uninstall   *)
(* key, by which the user finds the uninstaller, is removed only when no    *)
(* file of the installation is left, of the last setup or of an earlier one.*)
KeyOutlivesFiles == [][registered /\ ~registered' => ~Occupied']_vars

(* From the beginning of an upgrade to the beginning of the next operation, *)
(* also if it fails or is killed, each file of the release that was         *)
(* installed is whole, in its place or in its backup.                       *)
UpgradeLosesNothing ==
  before \in Releases =>
    \A f \in Payload(before) : content[f] \in Releases \/ backup[f] = before

(* The same of an upgrade in which no more than one step fails.  And every  *)
(* variable has its type.                                                   *)
OneFaultLosesNothing == TypeOK /\ (faults <= 1 => UpgradeLosesNothing)
=============================================================================
