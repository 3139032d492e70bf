-------------------------- MODULE InstallationProofs --------------------------
(***************************************************************************)
(* Theorems of Installation.  What an operation has done and noted so far  *)
(* (IInv) decides what a failing step or a killed worker can leave; from   *)
(* it follow the four properties, the refinement of AtomicInstall among    *)
(* them, for any number of releases, failing steps and killed workers.     *)
(***************************************************************************)
EXTENDS Installation, TLAPS

USE DEF Go, Fault, diskVars, entryVars, jobVars

(* What is installed is a release exactly if all its files are of it, and   *)
(* of two releases it can only be one: they share the executable.           *)
LEMMA VersionIs ==
  ASSUME NEW c, NEW r \in Releases
  PROVE  VersionOf(c) = r <=> \A f \in Payload(r) : c[f] = r
<1>1. Any("gui") \in Payload(r)
  BY DEF Payload, File, Any
<1>2. CASE \A f \in Payload(r) : c[f] = r
  <2>1. c[Any("gui")] = r
    BY <1>1, <1>2
  <2>2. QED
    BY <1>2, <2>1 DEF VersionOf
<1>3. CASE ~\A f \in Payload(r) : c[f] = r
  BY <1>3, InstallationAssumption DEF VersionOf
<1>4. QED
  BY <1>2, <1>3

LEMMA VersionType ==
  ASSUME NEW c
  PROVE  VersionOf(c) \in Releases \cup {"none", "partial"}
BY DEF VersionOf

(* Where files are only removed, no release appears.                        *)
LEMMA VersionShrinks ==
  ASSUME NEW c, NEW d, \A f \in File : d[f] \in {c[f], "absent"}
  PROVE  VersionOf(d) \in {VersionOf(c), "none", "partial"}
<1>1. CASE VersionOf(d) \in Releases
  <2> DEFINE r == VersionOf(d)
  <2>1. \A f \in Payload(r) : d[f] = r
    BY <1>1, VersionIs
  <2>2. \A f \in Payload(r) : c[f] = r
    BY <1>1, <2>1, InstallationAssumption DEF Payload
  <2>3. VersionOf(c) = r
    BY <1>1, <2>2, VersionIs
  <2>4. QED
    BY <2>3
<1>2. QED
  BY <1>1, VersionType

(* It is the files alone that matter.                                       *)
LEMMA VersionSame ==
  ASSUME NEW c, NEW d, \A f \in File : d[f] = c[f]
  PROVE  VersionOf(d) = VersionOf(c)
<1>1. \A r \in Releases : Payload(r) \subseteq File
  BY DEF Payload
<1>2. \A r \in Releases : (\A f \in Payload(r) : d[f] = r) <=> (\A f \in Payload(r) : c[f] = r)
  BY <1>1
<1>3. CASE VersionOf(d) \in Releases
  BY <1>2, <1>3, VersionIs
<1>4. CASE VersionOf(c) \in Releases
  BY <1>2, <1>4, VersionIs
<1>5. CASE VersionOf(d) \notin Releases /\ VersionOf(c) \notin Releases
  <2>1. \A r \in Releases : ~(\A f \in Payload(r) : d[f] = r) /\ ~(\A f \in Payload(r) : c[f] = r)
    BY <1>5, VersionIs
  <2>2. QED
    BY <2>1 DEF VersionOf
<1>6. QED
  BY <1>3, <1>4, <1>5

LEMMA Names == /\ Any("gui") \in File /\ Any("uninstall") \in File /\ NoRelease \in Releases
               /\ \A r : Payload(r) \subseteq File
<1>1. NoRelease \in Releases
  BY InstallationAssumption DEF NoRelease
<1>2. QED
  BY <1>1 DEF Any, File, Payload

(* Each step keeps the type of each variable; what it does to the counters   *)
(* does not depend on where the operation is.                               *)
LEMMA FlagsTyped == TypeOK /\ Next => FlagsOK'
<1> SUFFICES ASSUME TypeOK, Next PROVE FlagsOK'
  OBVIOUS
<1> USE DEF TypeOK, FilesOK, FlagsOK, JobOK, CountsOK
<1>1. CASE Setup
  <2>1. CASE SetupBegin
    BY <2>1 DEF SetupBegin
  <2>2. CASE Prepare \/ PrepareFails
    BY <2>2 DEF Prepare, PrepareFails, PreparePart
  <2>3. CASE Stage \/ StageFails
    BY <2>3 DEF Stage, StageFails
  <2>4. ASSUME NEW f \in File, CommitSave(f) \/ CommitSaveFails(f) PROVE FlagsOK'
    BY <2>4 DEF CommitSave, CommitSaveFails, MakeDirs, Abandon
  <2>5. CASE CommitCopy \/ CommitCopyFails
    BY <2>5 DEF CommitCopy, CommitCopyFails, Abandon
  <2>6. CASE CommitEnd \/ CommitEndFails
    BY <2>6 DEF CommitEnd, CommitEndFails, DropJournal
  <2>7. CASE RollbackCreated \/ RollbackCreatedFails
    BY <2>7 DEF RollbackCreated, RollbackCreatedFails
  <2>8. ASSUME NEW f \in File, RollbackRestore(f) \/ RollbackRestoreFails(f) PROVE FlagsOK'
    BY <2>8 DEF RollbackRestore, RollbackRestoreFails
  <2>9. CASE RollbackEnd
    BY <2>9 DEF RollbackEnd
  <2>10. CASE SetupData \/ SetupDataFails
    BY <2>10 DEF SetupData, SetupDataFails
  <2>11. CASE SaveState \/ SaveStateFails
    BY <2>11 DEF SaveState, SaveStateFails
  <2>12. CASE SetupLinks \/ SetupRegister \/ SetupEntriesFail
    BY <2>12 DEF SetupLinks, SetupRegister, SetupEntriesFail
  <2>13. QED
    BY <1>1, <2>1, <2>2, <2>3, <2>4, <2>5, <2>6, <2>7, <2>8, <2>9, <2>10, <2>11, <2>12 DEF Setup
<1>2. CASE Uninstall
  <2>1. CASE UninstallBegin
    BY <2>1 DEF UninstallBegin
  <2>2. CASE Delete \/ DeleteFails
    BY <2>2 DEF Delete, DeleteFails, DeletePart
  <2>3. CASE Unlink
    BY <2>3 DEF Unlink
  <2>4. CASE UnlinkFails
    BY <2>4 DEF UnlinkFails
  <2>5. CASE RemoveUninstaller \/ RemoveUninstallerFails
    BY <2>5 DEF RemoveUninstaller, RemoveUninstallerFails
  <2>6. CASE RemoveMarker \/ RemoveMarkerFails
    BY <2>6 DEF RemoveMarker, RemoveMarkerFails
  <2>7. CASE RemoveKey \/ RemoveKeyFails
    BY <2>7 DEF RemoveKey, RemoveKeyFails
  <2>8. CASE Undo \/ UndoFails
    BY <2>8 DEF Undo, UndoFails, UndoPart
  <2>9. QED
    BY <1>2, <2>1, <2>2, <2>3, <2>4, <2>5, <2>6, <2>7, <2>8 DEF Uninstall
<1>3. CASE Crash
  BY <1>3 DEF Crash, Interrupted, PreparePart, Torn, DeletePart, UndoPart
<1>4. QED
  BY <1>1, <1>2, <1>3 DEF Next

LEMMA FilesTyped == TypeOK /\ Next => FilesOK'
<1> SUFFICES ASSUME TypeOK, Next PROVE FilesOK'
  OBVIOUS
<1> USE DEF TypeOK, FilesOK, FlagsOK, JobOK, CountsOK, State
<1>1. CASE Setup
  <2>1. CASE SetupBegin
    BY <2>1 DEF SetupBegin
  <2>2. CASE Prepare \/ PrepareFails
    BY <2>2 DEF Prepare, PrepareFails, PreparePart
  <2>3. CASE Stage \/ StageFails
    BY <2>3 DEF Stage, StageFails
  <2>4. ASSUME NEW f \in File, CommitSave(f) \/ CommitSaveFails(f) PROVE FilesOK'
    BY <2>4 DEF CommitSave, CommitSaveFails, MakeDirs, Abandon
  <2>5. CASE CommitCopy \/ CommitCopyFails
    BY <2>5 DEF CommitCopy, CommitCopyFails, Abandon
  <2>6. CASE CommitEnd \/ CommitEndFails
    BY <2>6 DEF CommitEnd, CommitEndFails, DropJournal
  <2>7. CASE RollbackCreated \/ RollbackCreatedFails
    BY <2>7 DEF RollbackCreated, RollbackCreatedFails
  <2>8. ASSUME NEW f \in File, RollbackRestore(f) \/ RollbackRestoreFails(f) PROVE FilesOK'
    BY <2>8 DEF RollbackRestore, RollbackRestoreFails
  <2>9. CASE RollbackEnd
    BY <2>9 DEF RollbackEnd
  <2>10. CASE SetupData \/ SetupDataFails
    BY <2>10 DEF SetupData, SetupDataFails
  <2>11. CASE SaveState \/ SaveStateFails
    BY <2>11 DEF SaveState, SaveStateFails
  <2>12. CASE SetupLinks \/ SetupRegister \/ SetupEntriesFail
    BY <2>12 DEF SetupLinks, SetupRegister, SetupEntriesFail
  <2>13. QED
    BY <1>1, <2>1, <2>2, <2>3, <2>4, <2>5, <2>6, <2>7, <2>8, <2>9, <2>10, <2>11, <2>12 DEF Setup
<1>2. CASE Uninstall
  <2>1. CASE UninstallBegin
    BY <2>1 DEF UninstallBegin
  <2>2. CASE Delete \/ DeleteFails
    BY <2>2 DEF Delete, DeleteFails, DeletePart
  <2>3. CASE Unlink
    BY <2>3 DEF Unlink
  <2>4. CASE UnlinkFails
    BY <2>4 DEF UnlinkFails
  <2>5. CASE RemoveUninstaller \/ RemoveUninstallerFails
    BY <2>5 DEF RemoveUninstaller, RemoveUninstallerFails
  <2>6. CASE RemoveMarker \/ RemoveMarkerFails
    BY <2>6 DEF RemoveMarker, RemoveMarkerFails
  <2>7. CASE RemoveKey \/ RemoveKeyFails
    BY <2>7 DEF RemoveKey, RemoveKeyFails
  <2>8. CASE Undo \/ UndoFails
    BY <2>8 DEF Undo, UndoFails, UndoPart
  <2>9. QED
    BY <1>2, <2>1, <2>2, <2>3, <2>4, <2>5, <2>6, <2>7, <2>8 DEF Uninstall
<1>3. CASE Crash
  BY <1>3 DEF Crash, Interrupted, PreparePart, Torn, DeletePart, UndoPart
<1>4. QED
  BY <1>1, <1>2, <1>3 DEF Next

LEMMA JobTyped == TypeOK /\ Next => JobOK'
<1> SUFFICES ASSUME TypeOK, Next PROVE JobOK'
  OBVIOUS
<1> USE DEF TypeOK, FilesOK, FlagsOK, JobOK, CountsOK, State
<1>1. CASE Setup
  <2>1. CASE SetupBegin
    BY <2>1, Names DEF SetupBegin
  <2>2. CASE Prepare \/ PrepareFails
    BY <2>2, Names DEF Prepare, PrepareFails, PreparePart
  <2>3. CASE Stage \/ StageFails
    BY <2>3, Names DEF Stage, StageFails
  <2>4. ASSUME NEW f \in File, CommitSave(f) \/ CommitSaveFails(f) PROVE JobOK'
    BY <2>4, Names DEF CommitSave, CommitSaveFails, MakeDirs, Abandon
  <2>5. CASE CommitCopy \/ CommitCopyFails
    BY <2>5, Names DEF CommitCopy, CommitCopyFails, Abandon
  <2>6. CASE CommitEnd \/ CommitEndFails
    BY <2>6, Names DEF CommitEnd, CommitEndFails, DropJournal
  <2>7. CASE RollbackCreated \/ RollbackCreatedFails
    BY <2>7, Names DEF RollbackCreated, RollbackCreatedFails
  <2>8. ASSUME NEW f \in File, RollbackRestore(f) \/ RollbackRestoreFails(f) PROVE JobOK'
    BY <2>8, Names DEF RollbackRestore, RollbackRestoreFails
  <2>9. CASE RollbackEnd
    BY <2>9, Names DEF RollbackEnd
  <2>10. CASE SetupData \/ SetupDataFails
    BY <2>10, Names DEF SetupData, SetupDataFails
  <2>11. CASE SaveState \/ SaveStateFails
    BY <2>11, Names DEF SaveState, SaveStateFails
  <2>12. CASE SetupLinks \/ SetupRegister \/ SetupEntriesFail
    BY <2>12, Names DEF SetupLinks, SetupRegister, SetupEntriesFail
  <2>13. QED
    BY <1>1, <2>1, <2>2, <2>3, <2>4, <2>5, <2>6, <2>7, <2>8, <2>9, <2>10, <2>11, <2>12 DEF Setup
<1>2. CASE Uninstall
  <2>1. CASE UninstallBegin
    BY <2>1, Names DEF UninstallBegin
  <2>2. CASE Delete \/ DeleteFails
    BY <2>2, Names DEF Delete, DeleteFails, DeletePart
  <2>3. CASE Unlink
    BY <2>3, Names DEF Unlink
  <2>4. CASE UnlinkFails
    BY <2>4, Names DEF UnlinkFails
  <2>5. CASE RemoveUninstaller \/ RemoveUninstallerFails
    BY <2>5, Names DEF RemoveUninstaller, RemoveUninstallerFails
  <2>6. CASE RemoveMarker \/ RemoveMarkerFails
    BY <2>6, Names DEF RemoveMarker, RemoveMarkerFails
  <2>7. CASE RemoveKey \/ RemoveKeyFails
    BY <2>7, Names DEF RemoveKey, RemoveKeyFails
  <2>8. CASE Undo \/ UndoFails
    BY <2>8, Names DEF Undo, UndoFails, UndoPart
  <2>9. QED
    BY <1>2, <2>1, <2>2, <2>3, <2>4, <2>5, <2>6, <2>7, <2>8 DEF Uninstall
<1>3. CASE Crash
  BY <1>3, Names DEF Crash, Interrupted, PreparePart, Torn, DeletePart, UndoPart
<1>4. QED
  BY <1>1, <1>2, <1>3 DEF Next

LEMMA CountsStep ==
  Next => /\ faults' \in {0, faults} \/ Fault
          /\ crashes' = crashes \/ (crashes < MaxCrashes /\ crashes' = crashes + 1)
          /\ before' \in {before, Version, "none"}
BY DEF SetupBegin, Prepare, PrepareFails, Stage, StageFails, CommitSave, CommitSaveFails,
   CommitCopy, CommitCopyFails, CommitEnd, CommitEndFails, RollbackCreated,
   RollbackCreatedFails, RollbackRestore, RollbackRestoreFails, RollbackEnd, SetupData,
   SetupDataFails, SaveState, SaveStateFails, SetupLinks, SetupRegister, SetupEntriesFail,
   UninstallBegin, Delete, DeleteFails, Unlink, UnlinkFails, RemoveUninstaller,
   RemoveUninstallerFails, RemoveMarker, RemoveMarkerFails, RemoveKey, RemoveKeyFails, Undo,
   UndoFails, Setup, Uninstall, Crash, Next

LEMMA CountsTyped == TypeOK /\ Next => CountsOK'
BY CountsStep, VersionType, InstallationAssumption DEF TypeOK, CountsOK, Version

LEMMA TypeInit == Init => TypeOK
<1> SUFFICES ASSUME Init PROVE TypeOK
  OBVIOUS
<1>1. FilesOK /\ FlagsOK
  BY DEF Init, FilesOK, FlagsOK, State
<1>2. JobOK
  BY Names DEF Init, JobOK, State
<1>3. CountsOK
  BY InstallationAssumption DEF Init, CountsOK
<1>4. QED
  BY <1>1, <1>2, <1>3 DEF TypeOK

LEMMA TypeStep == TypeOK /\ [Next]_vars => TypeOK'
<1>1. ASSUME TypeOK, UNCHANGED vars PROVE TypeOK'
  BY <1>1 DEF vars, TypeOK, FilesOK, FlagsOK, JobOK, CountsOK
<1>2. QED
  BY <1>1, FlagsTyped, FilesTyped, JobTyped, CountsTyped DEF TypeOK

-----------------------------------------------------------------------------
(* The inductive invariant.                                                 *)

(* The journal of a transaction says which files it has replaced or is about*)
(* to replace, and the files it is through with are of the new release.     *)
Entering == {"prepare", "stage"}

Ending == {"acl", "state", "entries", "register"}

Journal ==
  /\ pc \in Entering => todo = Payload(release) /\ created = {} /\ saved = {}
  /\ pc \in {"commit", "copy"} => \A f \in Payload(release) \ todo : content[f] = release
  /\ pc = "commit" => todo \cap (created \cup saved) = {}
  /\ pc = "copy" => /\ file \in todo /\ file \in created \cup saved
                    /\ (todo \ {file}) \cap (created \cup saved) = {}
  /\ pc \in Committing =>
       /\ created \cap saved = {}
       /\ \A f \in created : content[f] \in {"absent", "torn", release}
       /\ \A f \in saved : content[f] \in {backup[f], "torn", release}
  /\ pc = "restore" => created = {}
  /\ pc \in Ending => \A f \in Payload(release) : content[f] = release

(* Where the operation is tells whether one of its steps has failed.        *)
Failures ==
  /\ pc \in Entering \cup {"commit", "copy"} => faults = 0
  /\ pc \in Uninstalling \ {"undo"} => faults = 0
  /\ pc \in {"rollback", "restore", "undo"} => faults >= 1

(* What an uninstallation has removed, and what of it it could put back.    *)
Removal ==
  /\ pc \in Uninstalling => before = "none"
  /\ pc \in {"delete", "unlink", "exe"} => CanUninstall
  /\ pc \in {"exe", "marker", "key", "undo"} => kept.exe \in Releases /\ kept.marker \in Releases
  /\ pc \in Uninstalling \ {"delete"} =>
       /\ \A f \in File : (Keep(f) \/ content[f] = "absent") /\ backup[f] = "absent"
       /\ ~staging /\ ~subdirs /\ ~data
  /\ pc \in {"marker", "key"} => content[Any("uninstall")] = "absent"
  /\ pc = "key" => marker = "absent"

(* What was there before the transaction began.                             *)
Originals ==
  [f \in File |-> IF f \in created THEN "absent" ELSE IF f \in saved THEN backup[f] ELSE content[f]]

(* As long as no more than one step has failed, the files that were there   *)
(* are there, or in the journal.                                            *)
Preserved ==
  faults <= 1 =>
    /\ pc \in Entering => before = Version
    /\ pc \in Committing => before = VersionOf(Originals)
    /\ pc \notin Entering \cup Committing => UpgradeLosesNothing

IInv == TypeOK /\ Journal /\ Failures /\ Removal /\ Preserved

(* Each step keeps these.                                                  *)
LEMMA FailuresStep == TypeOK /\ Failures /\ [Next]_vars => Failures'
<1> SUFFICES ASSUME TypeOK, Failures, [Next]_vars PROVE Failures'
  OBVIOUS
<1> USE DEF TypeOK, CountsOK, Failures, Entering, Uninstalling
<1>1. CASE Setup
  <2>1. CASE SetupBegin
    BY <2>1 DEF SetupBegin
  <2>2. CASE Prepare \/ PrepareFails
    BY <2>2 DEF Prepare, PrepareFails, PreparePart
  <2>3. CASE Stage \/ StageFails
    BY <2>3 DEF Stage, StageFails
  <2>4. ASSUME NEW f \in File, CommitSave(f) \/ CommitSaveFails(f) PROVE Failures'
    <3>1. pc = "commit" /\ \/ pc' = "copy" /\ UNCHANGED faults
                           \/ pc' = "rollback" /\ Fault
      BY <2>4 DEF CommitSave, CommitSaveFails
    <3>2. QED
      BY <3>1
  <2>5. CASE CommitCopy \/ CommitCopyFails
    BY <2>5 DEF CommitCopy, CommitCopyFails, Abandon
  <2>6. CASE CommitEnd \/ CommitEndFails
    <3>1. pc = "commit" /\ pc' = "acl" /\ faults' \in {faults, faults + 1}
      BY <2>6 DEF CommitEnd, CommitEndFails
    <3>2. QED
      BY <3>1
  <2>7. CASE RollbackCreated \/ RollbackCreatedFails
    BY <2>7 DEF RollbackCreated, RollbackCreatedFails
  <2>8. ASSUME NEW f \in File, RollbackRestore(f) \/ RollbackRestoreFails(f) PROVE Failures'
    BY <2>8 DEF RollbackRestore, RollbackRestoreFails
  <2>9. CASE RollbackEnd
    BY <2>9 DEF RollbackEnd
  <2>10. CASE SetupData \/ SetupDataFails
    <3>1. pc = "acl" /\ pc' \in {"state", "idle"} /\ (Fault \/ UNCHANGED faults)
      BY <2>10 DEF SetupData, SetupDataFails
    <3>2. QED
      BY <3>1
  <2>11. CASE SaveState \/ SaveStateFails
    BY <2>11 DEF SaveState, SaveStateFails
  <2>12. CASE SetupLinks \/ SetupRegister \/ SetupEntriesFail
    <3>1. pc' \in {"register", "idle"} /\ (Fault \/ UNCHANGED faults)
      BY <2>12 DEF SetupLinks, SetupRegister, SetupEntriesFail
    <3>2. QED
      BY <3>1
  <2>13. QED
    BY <1>1, <2>1, <2>2, <2>3, <2>4, <2>5, <2>6, <2>7, <2>8, <2>9, <2>10, <2>11, <2>12 DEF Setup
<1>2. CASE Uninstall
  <2>1. CASE UninstallBegin
    BY <2>1 DEF UninstallBegin
  <2>2. CASE Delete \/ DeleteFails
    <3>1. pc = "delete" /\ \/ pc' = "unlink" /\ UNCHANGED faults
                           \/ pc' = "idle" /\ Fault
      BY <2>2 DEF Delete, DeleteFails
    <3>2. QED
      BY <3>1
  <2>3. CASE Unlink
    BY <2>3 DEF Unlink
  <2>4. CASE UnlinkFails
    BY <2>4 DEF UnlinkFails
  <2>5. CASE RemoveUninstaller \/ RemoveUninstallerFails
    BY <2>5 DEF RemoveUninstaller, RemoveUninstallerFails
  <2>6. CASE RemoveMarker \/ RemoveMarkerFails
    BY <2>6 DEF RemoveMarker, RemoveMarkerFails
  <2>7. CASE RemoveKey \/ RemoveKeyFails
    BY <2>7 DEF RemoveKey, RemoveKeyFails
  <2>8. CASE Undo \/ UndoFails
    BY <2>8 DEF Undo, UndoFails, UndoPart
  <2>9. QED
    BY <1>2, <2>1, <2>2, <2>3, <2>4, <2>5, <2>6, <2>7, <2>8 DEF Uninstall
<1>3. CASE Crash
  BY <1>3 DEF Crash
<1>4. CASE UNCHANGED vars
  BY <1>4 DEF vars
<1>5. QED
  BY <1>1, <1>2, <1>3, <1>4 DEF Next

LEMMA JournalStep == TypeOK /\ Journal /\ [Next]_vars => Journal'
<1> SUFFICES ASSUME TypeOK, Journal, [Next]_vars PROVE Journal'
  OBVIOUS
<1> USE DEF TypeOK, JobOK, FilesOK, Journal, Entering, Committing, Ending
<1>1. CASE Setup
  <2>1. CASE SetupBegin
    BY <2>1, Names DEF SetupBegin
  <2>2. CASE Prepare \/ PrepareFails
    BY <2>2, Names DEF Prepare, PrepareFails, PreparePart
  <2>3. CASE Stage \/ StageFails
    BY <2>3, Names DEF Stage, StageFails
  <2>4. ASSUME NEW f \in File, CommitSave(f) \/ CommitSaveFails(f) PROVE Journal'
    BY <2>4, Names DEF CommitSave, CommitSaveFails, MakeDirs, Abandon
  <2>5. CASE CommitCopy \/ CommitCopyFails
    BY <2>5, Names DEF CommitCopy, CommitCopyFails, Abandon
  <2>6. CASE CommitEnd \/ CommitEndFails
    BY <2>6, Names DEF CommitEnd, CommitEndFails, DropJournal
  <2>7. CASE RollbackCreated \/ RollbackCreatedFails
    BY <2>7, Names DEF RollbackCreated, RollbackCreatedFails
  <2>8. ASSUME NEW f \in File, RollbackRestore(f) \/ RollbackRestoreFails(f) PROVE Journal'
    BY <2>8, Names DEF RollbackRestore, RollbackRestoreFails
  <2>9. CASE RollbackEnd
    BY <2>9, Names DEF RollbackEnd
  <2>10. CASE SetupData \/ SetupDataFails
    BY <2>10, Names DEF SetupData, SetupDataFails
  <2>11. CASE SaveState \/ SaveStateFails
    BY <2>11, Names DEF SaveState, SaveStateFails
  <2>12. CASE SetupLinks \/ SetupRegister \/ SetupEntriesFail
    BY <2>12, Names DEF SetupLinks, SetupRegister, SetupEntriesFail
  <2>13. QED
    BY <1>1, <2>1, <2>2, <2>3, <2>4, <2>5, <2>6, <2>7, <2>8, <2>9, <2>10, <2>11, <2>12 DEF Setup
<1>2. CASE Uninstall
  <2>1. CASE UninstallBegin
    BY <2>1, Names DEF UninstallBegin
  <2>2. CASE Delete \/ DeleteFails
    BY <2>2, Names DEF Delete, DeleteFails, DeletePart
  <2>3. CASE Unlink
    BY <2>3, Names DEF Unlink
  <2>4. CASE UnlinkFails
    BY <2>4, Names DEF UnlinkFails
  <2>5. CASE RemoveUninstaller \/ RemoveUninstallerFails
    BY <2>5, Names DEF RemoveUninstaller, RemoveUninstallerFails
  <2>6. CASE RemoveMarker \/ RemoveMarkerFails
    BY <2>6, Names DEF RemoveMarker, RemoveMarkerFails
  <2>7. CASE RemoveKey \/ RemoveKeyFails
    BY <2>7, Names DEF RemoveKey, RemoveKeyFails
  <2>8. CASE Undo \/ UndoFails
    BY <2>8, Names DEF Undo, UndoFails, UndoPart
  <2>9. QED
    BY <1>2, <2>1, <2>2, <2>3, <2>4, <2>5, <2>6, <2>7, <2>8 DEF Uninstall
<1>3. CASE Crash
  BY <1>3 DEF Crash
<1>4. CASE UNCHANGED vars
  BY <1>4 DEF vars
<1>5. QED
  BY <1>1, <1>2, <1>3, <1>4 DEF Next

LEMMA RemovalStep == TypeOK /\ Removal /\ [Next]_vars => Removal'
<1> SUFFICES ASSUME TypeOK, Removal, [Next]_vars PROVE Removal'
  OBVIOUS
<1> USE DEF TypeOK, FilesOK, JobOK, FlagsOK, Removal, Uninstalling, CanUninstall, Ours, State, Keep
<1>1. CASE Setup
  <2>1. CASE SetupBegin
    BY <2>1, Names DEF SetupBegin
  <2>2. CASE Prepare \/ PrepareFails
    BY <2>2, Names DEF Prepare, PrepareFails, PreparePart
  <2>3. CASE Stage \/ StageFails
    BY <2>3, Names DEF Stage, StageFails
  <2>4. ASSUME NEW f \in File, CommitSave(f) \/ CommitSaveFails(f) PROVE Removal'
    BY <2>4, Names DEF CommitSave, CommitSaveFails, MakeDirs, Abandon
  <2>5. CASE CommitCopy \/ CommitCopyFails
    BY <2>5, Names DEF CommitCopy, CommitCopyFails, Abandon
  <2>6. CASE CommitEnd \/ CommitEndFails
    BY <2>6, Names DEF CommitEnd, CommitEndFails, DropJournal
  <2>7. CASE RollbackCreated \/ RollbackCreatedFails
    BY <2>7, Names DEF RollbackCreated, RollbackCreatedFails
  <2>8. ASSUME NEW f \in File, RollbackRestore(f) \/ RollbackRestoreFails(f) PROVE Removal'
    BY <2>8, Names DEF RollbackRestore, RollbackRestoreFails
  <2>9. CASE RollbackEnd
    BY <2>9, Names DEF RollbackEnd
  <2>10. CASE SetupData \/ SetupDataFails
    BY <2>10, Names DEF SetupData, SetupDataFails
  <2>11. CASE SaveState \/ SaveStateFails
    BY <2>11, Names DEF SaveState, SaveStateFails
  <2>12. CASE SetupLinks \/ SetupRegister \/ SetupEntriesFail
    BY <2>12, Names DEF SetupLinks, SetupRegister, SetupEntriesFail
  <2>13. QED
    BY <1>1, <2>1, <2>2, <2>3, <2>4, <2>5, <2>6, <2>7, <2>8, <2>9, <2>10, <2>11, <2>12 DEF Setup
<1>2. CASE Uninstall
  <2>1. CASE UninstallBegin
    BY <2>1, Names DEF UninstallBegin
  <2>2. CASE Delete \/ DeleteFails
    <3>1. CASE Delete
      BY <2>2, <3>1, Names DEF Delete, Any
    <3>2. CASE DeleteFails
      BY <2>2, <3>2 DEF DeleteFails
    <3>3. QED
      BY <2>2, <3>1, <3>2
  <2>3. CASE Unlink
    BY <2>3, Names DEF Unlink
  <2>4. CASE UnlinkFails
    BY <2>4, Names DEF UnlinkFails
  <2>5. CASE RemoveUninstaller \/ RemoveUninstallerFails
    <3>1. CASE RemoveUninstaller
      BY <2>5, <3>1, Names DEF RemoveUninstaller
    <3>2. CASE RemoveUninstallerFails
      BY <2>5, <3>2 DEF RemoveUninstallerFails
    <3>3. QED
      BY <2>5, <3>1, <3>2
  <2>6. CASE RemoveMarker \/ RemoveMarkerFails
    BY <2>6, Names DEF RemoveMarker, RemoveMarkerFails
  <2>7. CASE RemoveKey \/ RemoveKeyFails
    BY <2>7, Names DEF RemoveKey, RemoveKeyFails
  <2>8. CASE Undo \/ UndoFails
    BY <2>8, Names DEF Undo, UndoFails, UndoPart
  <2>9. QED
    BY <1>2, <2>1, <2>2, <2>3, <2>4, <2>5, <2>6, <2>7, <2>8 DEF Uninstall
<1>3. CASE Crash
  BY <1>3 DEF Crash
<1>4. CASE UNCHANGED vars
  BY <1>4 DEF vars
<1>5. QED
  BY <1>1, <1>2, <1>3, <1>4 DEF Next

(* A file of what was installed is in its place or in its backup.           *)
LEMMA WasThere ==
  ASSUME before \in Releases, before = VersionOf(Originals), NEW f \in Payload(before)
  PROVE  f \notin created /\ (IF f \in saved THEN backup[f] = before ELSE content[f] = before)
<1>1. f \in File /\ Originals[f] = before
  BY VersionIs DEF Payload
<1>2. QED
  BY <1>1, InstallationAssumption DEF Originals

(* A step that leaves each file or its copy in the journal as it was.       *)
LEMMA OriginalsStay ==
  ASSUME \A f \in File : Originals'[f] = Originals[f], before = VersionOf(Originals),
         before' = before
  PROVE  before' = VersionOf(Originals)'
<1>1. VersionOf(Originals') = VersionOf(Originals)
  BY VersionSame
<1>2. QED
  BY <1>1

(* A step after which the setup, or the uninstallation, is at no file.      *)
LEMMA Leaves ==
  ASSUME TypeOK, UpgradeLosesNothing, UNCHANGED <<content, backup, before>>
  PROVE  UpgradeLosesNothing'
BY DEF UpgradeLosesNothing

LEMMA EnteringLeaves ==
  ASSUME TypeOK, before = Version, UNCHANGED <<content, before>>
  PROVE  UpgradeLosesNothing'
<1> SUFFICES ASSUME before \in Releases, NEW f \in Payload(before) PROVE content[f] \in Releases
  BY DEF UpgradeLosesNothing
<1>1. content[f] = before
  BY VersionIs DEF Version
<1>2. QED
  BY <1>1

LEMMA CommitLeaves ==
  ASSUME TypeOK, Journal, pc = "commit", todo = {}, before = VersionOf(Originals),
         UNCHANGED <<content, before>>
  PROVE  UpgradeLosesNothing'
<1> SUFFICES ASSUME before \in Releases, NEW f \in Payload(before)
             PROVE  content[f] \in Releases
  BY DEF UpgradeLosesNothing
<1>1. CASE f \in Payload(release)
  BY <1>1 DEF TypeOK, JobOK, Journal
<1>2. CASE f \notin Payload(release)
  BY <1>2, WasThere DEF TypeOK, JobOK
<1>3. QED
  BY <1>1, <1>2

LEMMA SetupPreserves ==
  ASSUME TypeOK, Journal, Failures, Preserved, Setup
  PROVE  Preserved'
<1> USE DEF Entering, Committing
<1>0. faults \in Nat
  BY DEF TypeOK, CountsOK
<1>1. CASE SetupBegin
  BY <1>1 DEF SetupBegin, Preserved, Version
<1>2. CASE Prepare \/ Stage
  <2>1. before = Version /\ UNCHANGED <<content, before, created, saved>>
    BY <1>2 DEF Prepare, Stage, Preserved, Failures
  <2>2. CASE Prepare
    BY <2>1, <2>2 DEF Prepare, Preserved, Version
  <2>3. CASE Stage
    <3>1. created = {} /\ saved = {}
      BY <2>3 DEF Stage, Journal
    <3>2. \A f \in File : Originals'[f] = content[f]
      BY <2>1, <3>1 DEF Originals
    <3>3. VersionOf(Originals') = VersionOf(content)
      BY <3>2, VersionSame
    <3>4. before' = VersionOf(Originals)'
      BY <2>1, <3>3 DEF Version
    <3>5. QED
      BY <2>3, <3>4 DEF Stage, Preserved
  <2>4. QED
    BY <1>2, <2>2, <2>3
<1>3. CASE PrepareFails \/ StageFails
  <2>1. before = Version /\ UNCHANGED <<content, before>> /\ pc' = "idle"
    BY <1>3 DEF PrepareFails, StageFails, Preserved, Failures
  <2>2. QED
    BY <2>1, EnteringLeaves DEF Preserved
<1>4. ASSUME NEW f \in File, CommitSave(f) \/ CommitSaveFails(f) PROVE Preserved'
  <2>1. /\ pc = "commit" /\ pc' \in {"copy", "rollback"} /\ f \notin created \cup saved
        /\ UNCHANGED <<content, before>>
    BY <1>4 DEF CommitSave, CommitSaveFails, Journal
  <2>2. CASE CommitSave(f)
    <3>1. \A g \in File : Originals'[g] = Originals[g]
      BY <2>1, <2>2 DEF CommitSave, Originals, TypeOK, FilesOK
    <3>2. QED
      BY <2>1, <2>2, <3>1, OriginalsStay DEF CommitSave, Preserved
  <2>3. CASE CommitSaveFails(f)
    <3>1. \A g \in File : Originals'[g] = Originals[g]
      BY <2>1, <2>3 DEF CommitSaveFails, Abandon, Originals, TypeOK, FilesOK
    <3>2. QED
      BY <1>0, <2>1, <2>3, <3>1, OriginalsStay DEF CommitSaveFails, Preserved
  <2>4. QED
    BY <1>4, <2>2, <2>3
<1>5. CASE CommitCopy \/ CommitCopyFails
  <2>1. pc = "copy" /\ pc' \in {"commit", "rollback"} /\ before' = before
    BY <1>5 DEF CommitCopy, CommitCopyFails
  <2>2. \A g \in File : Originals'[g] = Originals[g]
    BY <1>5, <2>1 DEF CommitCopy, CommitCopyFails, Abandon, Originals, Journal, TypeOK, FilesOK
  <2>3. faults <= 1
    BY <2>1 DEF Failures
  <2>4. QED
    BY <2>1, <2>2, <2>3, OriginalsStay DEF Preserved
<1>6. CASE CommitEnd \/ CommitEndFails
  <2>1. /\ pc = "commit" /\ todo = {} /\ pc' = "acl" /\ UNCHANGED <<content, before>>
    BY <1>6 DEF CommitEnd, CommitEndFails
  <2>2. before = VersionOf(Originals)
    BY <2>1 DEF Preserved, Failures
  <2>3. QED
    BY <2>1, <2>2, CommitLeaves DEF Preserved
<1>7. CASE RollbackCreated
  <2>1. \A g \in File : Originals'[g] = Originals[g]
    BY <1>7 DEF RollbackCreated, Originals, Journal
  <2>2. QED
    BY <1>7, <2>1, OriginalsStay DEF RollbackCreated, Preserved
<1>8. ASSUME NEW f \in File, RollbackRestore(f) PROVE Preserved'
  <2>1. \A g \in File : Originals'[g] = Originals[g]
    BY <1>8 DEF RollbackRestore, Originals, Journal, TypeOK, FilesOK
  <2>2. QED
    BY <1>8, <2>1, OriginalsStay DEF RollbackRestore, Preserved
<1>9. ASSUME NEW f \in File, RollbackCreatedFails \/ RollbackRestoreFails(f) PROVE Preserved'
  <2>1. faults' \in Nat /\ faults' > 1
    BY <1>0, <1>9 DEF RollbackCreatedFails, RollbackRestoreFails, Failures
  <2>2. QED
    BY <2>1 DEF Preserved
<1>10. CASE RollbackEnd
  <2>1. /\ pc = "restore" /\ pc' = "idle" /\ saved = {} /\ UNCHANGED <<content, before>>
        /\ faults' \in Nat /\ faults' >= faults
    BY <1>0, <1>10 DEF RollbackEnd
  <2>2. SUFFICES ASSUME faults' <= 1, before \in Releases, NEW f \in Payload(before)
                 PROVE  content[f] \in Releases
    BY <2>1 DEF Preserved, UpgradeLosesNothing
  <2>3. before = VersionOf(Originals)
    BY <1>0, <2>1, <2>2 DEF Preserved
  <2>4. QED
    BY <2>1, <2>2, <2>3, WasThere
<1>11. CASE SetupData \/ SetupDataFails \/ SaveState \/ SaveStateFails
              \/ SetupLinks \/ SetupRegister \/ SetupEntriesFail
  <2>1. /\ {pc, pc'} \cap (Entering \cup Committing) = {}
        /\ UNCHANGED <<content, backup, before>> /\ (Fault \/ UNCHANGED faults)
    BY <1>11 DEF SetupData, SetupDataFails, SaveState, SaveStateFails, SetupLinks,
         SetupRegister, SetupEntriesFail
  <2>2. faults' <= 1 => faults <= 1
    BY <1>0, <2>1
  <2>3. QED
    BY <2>1, <2>2, Leaves DEF Preserved
<1>12. QED
  BY <1>1, <1>2, <1>3, <1>4, <1>5, <1>6, <1>7, <1>8, <1>9, <1>10, <1>11, Names DEF Setup

LEMMA UninstallPreserves ==
  ASSUME Removal, Uninstall
  PROVE  Preserved'
<1>1. /\ before' = "none" /\ pc' \in Uninstalling \cup {"idle"}
  BY DEF Removal, Uninstalling, Uninstall, UninstallBegin, Delete, DeleteFails, Unlink,
       UnlinkFails, RemoveUninstaller, RemoveUninstallerFails, RemoveMarker,
       RemoveMarkerFails, RemoveKey, RemoveKeyFails, Undo, UndoFails
<1>2. UpgradeLosesNothing'
  BY <1>1, InstallationAssumption DEF UpgradeLosesNothing
<1>3. QED
  BY <1>1, <1>2 DEF Preserved, Uninstalling, Entering, Committing

(* Whatever a step was about when its worker was killed.                    *)
LEMMA CrashPreserves ==
  ASSUME TypeOK, Journal, Removal, Preserved, Crash
  PROVE  Preserved'
<1> SUFFICES ASSUME faults <= 1, before \in Releases, NEW f \in Payload(before)
             PROVE  content'[f] \in Releases \/ backup'[f] = before
  BY DEF Crash, Preserved, Entering, Committing, UpgradeLosesNothing
<1> USE DEF Entering, Committing, Crash
<1>0. f \in File
  BY DEF Payload
<1>1. CASE pc \in Entering
  <2>1. content' = content
    BY <1>1 DEF Interrupted
  <2>2. content[f] = before
    BY <1>1, VersionIs DEF Preserved, Version
  <2>3. QED
    BY <2>1, <2>2
<1>2. CASE pc \in Committing
  <2>1. before = VersionOf(Originals)
    BY <1>2 DEF Preserved
  <2>2. f \notin created /\ (IF f \in saved THEN backup[f] = before ELSE content[f] = before)
    BY <2>1, WasThere
  <2>3. CASE pc = "commit"
    <3>1. content' = content
      BY <2>3 DEF Interrupted
    <3>2. CASE f \in saved /\ todo = {}
      BY <2>3, <3>1, <3>2 DEF Journal, TypeOK, JobOK
    <3>3. CASE f \in saved /\ todo # {}
      <4>1. backup'[f] = backup[f]
        BY <1>0, <2>3, <3>3 DEF Interrupted, Journal, TypeOK, FilesOK
      <4>2. QED
        BY <2>2, <3>3, <4>1
    <3>4. CASE f \notin saved
      BY <2>2, <3>1, <3>4
    <3>5. QED
      BY <3>2, <3>3, <3>4
  <2>4. CASE pc = "copy"
    BY <1>0, <2>2, <2>4 DEF Interrupted, Torn, Journal, TypeOK, FilesOK
  <2>5. CASE pc = "rollback"
    BY <1>0, <2>2, <2>5 DEF Interrupted
  <2>6. CASE pc = "restore"
    BY <1>0, <2>2, <2>6 DEF Interrupted, Torn, TypeOK, FilesOK
  <2>7. QED
    BY <1>2, <2>3, <2>4, <2>5, <2>6
<1>3. CASE pc \notin Entering \cup Committing
  <2>1. pc \notin Uninstalling
    BY InstallationAssumption DEF Removal
  <2>2. UNCHANGED <<content, backup>>
    BY <1>3, <2>1 DEF Interrupted, Uninstalling
  <2>3. QED
    BY <1>3, <2>2 DEF Preserved, UpgradeLosesNothing
<1>4. QED
  BY <1>1, <1>2, <1>3

LEMMA InvInit == Init => IInv
<1> SUFFICES ASSUME Init PROVE IInv
  OBVIOUS
<1>1. TypeOK
  BY TypeInit
<1>2. Journal
  BY DEF Init, Journal, Entering, Committing, Ending
<1>3. Failures
  BY DEF Init, Failures, Entering, Uninstalling
<1>4. Removal
  BY DEF Init, Removal, Uninstalling
<1>5. Preserved
  BY InstallationAssumption DEF Init, Preserved, UpgradeLosesNothing, Entering, Committing
<1>6. QED
  BY <1>1, <1>2, <1>3, <1>4, <1>5 DEF IInv

LEMMA InvNext == IInv /\ [Next]_vars => IInv'
<1> SUFFICES ASSUME IInv, [Next]_vars PROVE IInv'
  OBVIOUS
<1>1. TypeOK' /\ Journal' /\ Failures' /\ Removal'
  BY TypeStep, JournalStep, FailuresStep, RemovalStep DEF IInv
<1>2. Preserved'
  <2>1. CASE Next
    BY <2>1, SetupPreserves, UninstallPreserves, CrashPreserves DEF IInv, Next
  <2>2. CASE UNCHANGED vars
    BY <2>2 DEF vars, IInv, Preserved, UpgradeLosesNothing, Version, Originals
  <2>3. QED
    BY <2>1, <2>2
<1>3. QED
  BY <1>1, <1>2 DEF IInv

LEMMA Invariance == Spec => []IInv
<1>1. QED
  BY InvInit, InvNext, PTL DEF Spec

-----------------------------------------------------------------------------
(* Each variable keeps its type, and an upgrade in which no more than one   *)
(* step fails loses no file of the release it replaces, wherever it is      *)
(* killed.                                                                  *)
THEOREM NothingIsLost == Spec => []OneFaultLosesNothing
<1>1. IInv => OneFaultLosesNothing
  <2> SUFFICES ASSUME IInv, faults <= 1, before \in Releases, NEW f \in Payload(before)
               PROVE  content[f] \in Releases \/ backup[f] = before
    BY DEF IInv, OneFaultLosesNothing, UpgradeLosesNothing
  <2>1. CASE pc \in Entering
    BY <2>1, VersionIs DEF IInv, Preserved, Version
  <2>2. CASE pc \in Committing
    BY <2>2, WasThere DEF IInv, Preserved
  <2>3. QED
    BY <2>1, <2>2 DEF IInv, Preserved, UpgradeLosesNothing
<1>2. QED
  BY <1>1, Invariance, PTL

(* One failing step leaves the uninstaller and the identity there, or put   *)
(* back.                                                                    *)
LEMMA Retried ==
  ASSUME IInv, [Next]_vars, pc \in Uninstalling, pc' = "idle", crashes' = crashes, faults' = 1
  PROVE  CanUninstall'
<1> USE DEF IInv, TypeOK, FilesOK, JobOK, CountsOK, Removal, Failures, Uninstalling
<1>0. ~Crash
  BY DEF Crash
<1>1. ~Setup /\ ~UNCHANGED vars
  BY DEF vars, Setup, SetupBegin, Prepare, PrepareFails, Stage, StageFails,
       CommitSave, CommitSaveFails, CommitCopy, CommitCopyFails, CommitEnd, CommitEndFails,
       RollbackCreated, RollbackCreatedFails, RollbackRestore, RollbackRestoreFails,
       RollbackEnd, SetupData, SetupDataFails, SaveState, SaveStateFails, SetupLinks,
       SetupRegister, SetupEntriesFail
<1>2. CASE DeleteFails
  BY <1>2, Names DEF DeleteFails, DeletePart, CanUninstall, Ours, Keep, Any
<1>3. CASE UnlinkFails \/ RemoveUninstallerFails
  BY <1>3 DEF UnlinkFails, RemoveUninstallerFails, CanUninstall, Ours
<1>4. CASE RemoveKey
  BY <1>4 DEF RemoveKey
<1>5. CASE Undo
  BY <1>5, Names DEF Undo, CanUninstall, Ours
<1>6. CASE UndoFails
  BY <1>6 DEF UndoFails
<1>7. QED
  BY <1>0, <1>1, <1>2, <1>3, <1>4, <1>5, <1>6 DEF Next, Uninstall, UninstallBegin, Delete,
       Unlink, RemoveUninstaller, RemoveMarker, RemoveMarkerFails, RemoveKeyFails

(* An uninstallation that gives up because one of its steps has failed can  *)
(* be run again.                                                            *)
THEOREM UninstallIsRetried == Spec => UninstallCanBeRetried
<1>1. ASSUME IInv, [Next]_vars, pc \in Uninstalling, pc' = "idle", crashes' = crashes, faults' = 1
      PROVE  CanUninstall'
  BY <1>1, Retried
<1>2. QED
  BY <1>1, Invariance, PTL DEF Spec, UninstallCanBeRetried

(* The uninstall key goes last, when nothing of the installation is left,   *)
(* however many steps have failed and however many workers were killed.     *)
THEOREM KeyGoesLast == Spec => KeyOutlivesFiles
<1>1. ASSUME IInv, [Next]_vars, registered, ~registered'
      PROVE  ~Occupied'
  <2>1. RemoveKey
    BY <1>1 DEF vars, Next, Crash, Setup, SetupBegin, Prepare, PrepareFails, Stage, StageFails,
       CommitSave, CommitSaveFails, CommitCopy, CommitCopyFails, CommitEnd, CommitEndFails,
       RollbackCreated, RollbackCreatedFails, RollbackRestore, RollbackRestoreFails,
       RollbackEnd, SetupData, SetupDataFails, SaveState, SaveStateFails, SetupLinks,
       SetupRegister, SetupEntriesFail, Uninstall, UninstallBegin, Delete, DeleteFails, Unlink,
       UnlinkFails, RemoveUninstaller, RemoveUninstallerFails, RemoveMarker,
       RemoveMarkerFails, RemoveKeyFails, Undo, UndoFails
  <2>2. \A f \in File : Keep(f) => f = Any("uninstall")
    BY DEF File, Keep, Any
  <2>3. QED
    BY <1>1, <2>1, <2>2 DEF RemoveKey, IInv, Removal, Uninstalling, Occupied
<1>2. QED
  BY <1>1, Invariance, PTL DEF Spec, KeyOutlivesFiles

-----------------------------------------------------------------------------
(* The refinement of AtomicInstall.                                         *)
LEMMA RefinementInit == Init => A!Init
<1> SUFFICES ASSUME Init PROVE A!Init
  OBVIOUS
<1>1. \A r \in Releases : content[Any("gui")] # r
  BY Names, InstallationAssumption DEF Init
<1>2. \A r \in Releases : Any("gui") \in Payload(r)
  BY DEF Payload, File, Any
<1>3. Version = "none"
  BY <1>1, <1>2 DEF Init, Version, VersionOf
<1>4. QED
  BY <1>3 DEF Init, A!Init, Installed, Job, Committing

(* The step of a setup: it begins, it is through with the transaction, or   *)
(* it goes on with the same aim, and then touches the files only in it.     *)
LEMMA SetupMoves ==
  ASSUME Setup
  PROVE  /\ crashes' = crashes
         /\ \/ /\ pc = "idle" /\ pc' = "prepare" /\ faults' = 0 /\ release' \in Releases
               /\ UNCHANGED content
            \/ /\ UNCHANGED <<before, release>> /\ (UNCHANGED faults \/ Fault)
               /\ \/ pc = "commit" /\ pc' = "acl" /\ todo = {} /\ UNCHANGED content
                  \/ pc \in Entering \cup Committing /\ pc' \in Entering \cup Committing
                  \/ pc = "restore" /\ pc' = "idle" /\ saved = {} /\ UNCHANGED content
                  \/ pc \in Entering /\ pc' = "idle" /\ Fault /\ UNCHANGED content
                  \/ pc \in Ending /\ pc' \in Ending \cup {"idle"} /\ UNCHANGED content
<1> USE DEF Entering, Committing, Ending
<1>1. CASE \E f \in File : \/ CommitSave(f) \/ CommitSaveFails(f)
                           \/ RollbackRestore(f) \/ RollbackRestoreFails(f)
  BY <1>1 DEF CommitSave, CommitSaveFails, Abandon, RollbackRestore, RollbackRestoreFails
<1>2. CASE \/ SetupBegin \/ Prepare \/ PrepareFails \/ Stage \/ StageFails
           \/ CommitCopy \/ CommitCopyFails
  BY <1>2 DEF SetupBegin, Prepare, PrepareFails, Stage, StageFails, CommitCopy,
     CommitCopyFails, Abandon
<1>3. CASE \/ CommitEnd \/ CommitEndFails
           \/ RollbackCreated \/ RollbackCreatedFails \/ RollbackEnd
  BY <1>3 DEF CommitEnd, CommitEndFails, DropJournal, RollbackCreated, RollbackCreatedFails,
     RollbackEnd
<1>4. CASE \/ SetupData \/ SetupDataFails \/ SaveState \/ SaveStateFails
           \/ SetupLinks \/ SetupRegister \/ SetupEntriesFail
  BY <1>4 DEF SetupData, SetupDataFails, SaveState, SaveStateFails, SetupLinks,
     SetupRegister, SetupEntriesFail
<1>5. QED
  BY <1>1, <1>2, <1>3, <1>4 DEF Setup

(* Once the transaction is through, the release is there.                   *)
LEMMA EndingVersion ==
  ASSUME TypeOK, Journal, pc \in Ending \/ (pc = "commit" /\ todo = {})
  PROVE  Version = release
<1>1. \A f \in Payload(release) : content[f] = release
  BY DEF Journal
<1>2. release \in Releases
  BY DEF TypeOK, JobOK
<1>3. QED
  BY <1>1, <1>2, VersionIs DEF Version

LEMMA SetupRefines ==
  ASSUME IInv, IInv', Setup
  PROVE  [A!Next]_<<Installed, Job, faults, crashes>>
<1> USE DEF IInv, Entering, Committing, Uninstalling, Ending
<1>0. /\ release \in Releases /\ release # "idle" /\ release # "uninstall"
      /\ faults \in Nat /\ faults' \in Nat
      /\ Version \in A!Something /\ Version' \in A!Something
  BY VersionType, InstallationAssumption DEF TypeOK, JobOK, CountsOK, Version, A!Something
<1>1. CASE pc = "idle" /\ pc' = "prepare"
  <2>1. A!Begin
    BY <1>1, SetupMoves DEF A!Begin, Job, Installed, Version
  <2>2. QED
    BY <2>1 DEF A!Next
<1>2. CASE pc = "commit" /\ pc' = "acl"
  <2>1. todo = {} /\ UNCHANGED <<content, release, crashes>> /\ faults' \in {faults, faults + 1}
    BY <1>2, SetupMoves
  <2>2. Installed' = release /\ Job = release /\ Job' = release
    BY <1>2, <2>1, EndingVersion DEF Installed, Version, Job
  <2>3. A!Commit
    BY <1>0, <1>2, <2>1, <2>2 DEF A!Commit, A!Perhaps, Failures
  <2>4. QED
    BY <2>3 DEF A!Next
<1>3. CASE pc \in Entering \cup Committing /\ pc' \in Entering \cup Committing
  <2>1. UNCHANGED <<before, release, crashes>> /\ faults' \in {faults, faults + 1}
    BY <1>3, SetupMoves
  <2>2. Installed = before /\ Installed' = before'
    BY <1>3 DEF Installed, Preserved, Failures
  <2>3. Job = release /\ Job' = release'
    BY <1>3 DEF Job
  <2>4. CASE faults' = faults
    BY <2>1, <2>2, <2>3, <2>4
  <2>5. CASE faults' = faults + 1
    <3>1. A!Mishap
      BY <1>0, <2>1, <2>2, <2>3, <2>5 DEF A!Mishap
    <3>2. QED
      BY <3>1 DEF A!Next
  <2>6. QED
    BY <2>1, <2>4, <2>5
<1>4. CASE pc = "restore" /\ pc' = "idle"
  <2>1. /\ saved = {} /\ created = {} /\ UNCHANGED <<content, release, crashes>>
        /\ faults' \in {faults, faults + 1} /\ faults >= 1
    BY <1>4, SetupMoves DEF Journal, Failures
  <2>2. \A f \in File : Originals[f] = content[f]
    BY <2>1 DEF Originals
  <2>3. VersionOf(Originals) = VersionOf(content)
    BY <2>2, VersionSame
  <2>4. faults <= 1 => Installed = Version
    BY <1>4, <2>3 DEF Installed, Preserved, Version
  <2>5. Installed' = Version' /\ Version' = Version
    BY <1>4, <2>1 DEF Installed, Version
  <2>6. Job = release /\ Job' = "idle"
    BY <1>4 DEF Job
  <2>7. faults' # 0
    BY <1>0, <2>1
  <2>8. A!SetupEnd
    BY <1>0, <2>1, <2>4, <2>5, <2>6, <2>7 DEF A!SetupEnd, A!Perhaps
  <2>9. QED
    BY <2>8 DEF A!Next
<1>5. CASE pc \in Entering \cup Ending /\ pc' \in Ending \cup {"idle"}
  <2>1. UNCHANGED <<content, release, crashes>> /\ faults' \in {faults, faults + 1}
    BY <1>5, SetupMoves
  <2>2. Installed' = Version /\ Installed = Version /\ Job = release
    BY <1>5, <2>1 DEF Installed, Version, Job
  <2>3. faults' # 0 \/ Version = release
    <3>1. CASE pc \in Entering
      <4>1. Fault
        BY <1>5, <3>1, SetupMoves
      <4>2. QED
        BY <1>0, <4>1
    <3>2. CASE pc \in Ending
      BY <3>2, EndingVersion
    <3>3. QED
      BY <1>5, <3>1, <3>2
  <2>4. CASE pc' = "idle"
    <3>1. Job' = "idle"
      BY <2>4 DEF Job
    <3>2. A!SetupEnd
      BY <1>0, <2>1, <2>2, <2>3, <3>1 DEF A!SetupEnd, A!Perhaps
    <3>3. QED
      BY <3>2 DEF A!Next
  <2>5. CASE pc' \in Ending
    <3>1. Job' = release
      BY <2>1, <2>5 DEF Job
    <3>2. CASE faults' = faults
      BY <2>1, <2>2, <3>1, <3>2
    <3>3. CASE faults' = faults + 1
      <4>1. A!Mishap
        BY <1>0, <2>1, <2>2, <3>1, <3>3 DEF A!Mishap
      <4>2. QED
        BY <4>1 DEF A!Next
    <3>4. QED
      BY <2>1, <3>2, <3>3
  <2>6. QED
    BY <1>5, <2>4, <2>5
<1>6. QED
  BY <1>1, <1>2, <1>3, <1>4, <1>5, SetupMoves

(* Files are only removed, but for the uninstaller, which comes back when   *)
(* the program itself is gone.                                              *)
LEMMA ComesBack ==
  ASSUME TypeOK, Removal, pc = "undo", UndoPart \/ Undo
  PROVE  Version' \notin Releases
<1>1. content[Any("gui")] = "absent"
  BY Names DEF Removal, Uninstalling, Keep, Any
<1>2. content'[Any("gui")] = "absent"
  BY <1>1, Names DEF Undo, UndoPart, Any, TypeOK, FilesOK
<1>3. \A r \in Releases : Any("gui") \in Payload(r)
  BY DEF Payload, File, Any
<1>4. QED
  BY <1>2, <1>3, VersionIs, InstallationAssumption DEF Version

LEMMA UninstallShrinks ==
  ASSUME IInv, Uninstall
  PROVE  Version' \in {Version, "none", "partial"}
<1> USE DEF IInv
<1>1. CASE Undo \/ UndoFails
  <2>1. Version' \notin Releases
    BY <1>1, ComesBack DEF Undo, UndoFails
  <2>2. QED
    BY <2>1, VersionType DEF Version
<1>2. CASE ~(Undo \/ UndoFails)
  <2>1. \A f \in File : content'[f] \in {content[f], "absent"}
    BY <1>2, Names DEF Uninstall, UninstallBegin, Delete, DeleteFails, DeletePart, Unlink,
       UnlinkFails, RemoveUninstaller, RemoveUninstallerFails, RemoveMarker,
       RemoveMarkerFails, RemoveKey, RemoveKeyFails, TypeOK, FilesOK
  <2>2. QED
    BY <2>1, VersionShrinks DEF Version
<1>3. QED
  BY <1>1, <1>2

LEMMA NothingLeft ==
  ASSUME TypeOK, Removal, pc = "key"
  PROVE  Version = "none"
<1>1. \A f \in File : Keep(f) => f = Any("uninstall")
  BY DEF File, Keep, Any
<1>2. \A f \in File : content[f] = "absent"
  BY <1>1 DEF Removal, Uninstalling
<1>3. \A r \in Releases : Any("gui") \in Payload(r)
  BY DEF Payload, File, Any
<1>4. QED
  BY <1>2, <1>3, Names, InstallationAssumption DEF Version, VersionOf

LEMMA SomethingLeft ==
  ASSUME NEW c, c[Any("uninstall")] \in Releases
  PROVE  VersionOf(c) # "none"
<1>1. c[Any("uninstall")] # "absent"
  BY InstallationAssumption
<1>2. QED
  BY <1>1, Names, VersionIs, InstallationAssumption DEF VersionOf

(* The step of an uninstallation, after its first.                          *)
LEMMA UninstallMoves ==
  ASSUME Uninstall, ~UninstallBegin
  PROVE  /\ crashes' = crashes /\ pc \in Uninstalling
         /\ \/ pc' \in Uninstalling /\ UNCHANGED faults
            \/ pc' \in Uninstalling /\ Fault /\ UNCHANGED content
            \/ pc = "key" /\ pc' = "idle" /\ UNCHANGED <<content, faults>>
            \/ pc' = "idle" /\ Fault
            \/ pc = "undo" /\ pc' = "idle" /\ UNCHANGED faults
<1> USE DEF Uninstalling
<1>1. CASE Delete \/ DeleteFails \/ Unlink \/ UnlinkFails
  BY <1>1 DEF Delete, DeleteFails, Unlink, UnlinkFails
<1>2. CASE \/ RemoveUninstaller \/ RemoveUninstallerFails \/ RemoveMarker \/ RemoveMarkerFails
           \/ RemoveKey \/ RemoveKeyFails
  BY <1>2 DEF RemoveUninstaller, RemoveUninstallerFails, RemoveMarker, RemoveMarkerFails,
     RemoveKey, RemoveKeyFails
<1>3. CASE Undo \/ UndoFails
  BY <1>3 DEF Undo, UndoFails
<1>4. QED
  BY <1>1, <1>2, <1>3 DEF Uninstall

LEMMA UninstallRefines ==
  ASSUME IInv, IInv', Uninstall
  PROVE  [A!Next]_<<Installed, Job, faults, crashes>>
<1> USE DEF IInv, Committing, Uninstalling
<1>0. faults \in Nat
  BY DEF TypeOK, CountsOK
<1>1. CASE UninstallBegin
  <2>1. A!Begin
    BY <1>1 DEF UninstallBegin, A!Begin, Job, Installed, Version
  <2>2. QED
    BY <2>1 DEF A!Next
<1>2. CASE ~UninstallBegin
  <2>1. /\ Installed = Version /\ Installed' = Version' /\ Job = "uninstall"
        /\ crashes' = crashes
    BY <1>2, UninstallMoves DEF Installed, Job
  <2>2. Version' \in {Version, "none", "partial"}
    BY UninstallShrinks
  <2>3. CASE pc' \in Uninstalling /\ UNCHANGED faults
    <3>1. A!Remove
      BY <2>1, <2>2, <2>3 DEF A!Remove, Job
    <3>2. QED
      BY <3>1 DEF A!Next
  <2>4. CASE pc' \in Uninstalling /\ Fault /\ UNCHANGED content
    <3>1. A!Mishap
      BY <2>1, <2>4 DEF A!Mishap, Job, Version
    <3>2. QED
      BY <3>1 DEF A!Next
  <2>5. CASE pc = "key" /\ pc' = "idle" /\ UNCHANGED <<content, faults>>
    <3>1. Version' = "none"
      BY <2>5, NothingLeft DEF Version
    <3>2. A!Removed
      BY <2>1, <2>5, <3>1 DEF A!Removed, Job, Failures
    <3>3. QED
      BY <3>2 DEF A!Next
  <2>6. CASE pc' = "idle" /\ (Fault \/ (pc = "undo" /\ UNCHANGED faults))
    <3>1. faults' > 0 /\ faults' \in {faults, faults + 1}
      BY <1>0, <2>6 DEF Failures
    <3>2. faults' = 1 => Version' # "none"
      <4>1. faults' = 1 => CanUninstall'
        BY <1>2, <2>1, <2>6, Retried, UninstallMoves DEF Next
      <4>2. CanUninstall' => Version' # "none"
        BY SomethingLeft DEF CanUninstall, Version, Any
      <4>3. QED
        BY <4>1, <4>2
    <3>3. A!GiveUp
      BY <2>1, <2>2, <2>6, <3>1, <3>2 DEF A!GiveUp, A!Perhaps, Job
    <3>4. QED
      BY <3>3 DEF A!Next
  <2>7. QED
    BY <1>2, <2>3, <2>4, <2>5, <2>6, UninstallMoves
<1>3. QED
  BY <1>1, <1>2

-----------------------------------------------------------------------------
(* A worker is killed in the midst of its transaction: each file is as it   *)
(* was, of the new release, torn or absent.                                 *)
LEMMA CrashMixes ==
  ASSUME TypeOK, Journal, pc \in Committing, Crash, before = VersionOf(Originals)
  PROVE  Version' \in {before, release, "none", "partial"}
<1> SUFFICES ASSUME Version' \in Releases, Version' # release
             PROVE  Version' = before
  BY VersionType DEF Version
<1> DEFINE s == Version'
<1>1. \A f \in Payload(s) : f \in File /\ content'[f] = s
  BY VersionIs DEF Version, Payload
<1>2. \A f \in File : content[f] \in {Originals[f], release, "torn", "absent"}
  BY DEF Originals, Journal, TypeOK, FilesOK
<1>3. \A f \in File : content'[f] \in {content[f], "torn", "absent"}
  BY DEF Crash, Interrupted, Torn, Committing, TypeOK, FilesOK
<1>4. s # "torn" /\ s # "absent" /\ s # release
  BY InstallationAssumption
<1>5. \A f \in Payload(s) : Originals[f] = s
  BY <1>1, <1>2, <1>3, <1>4
<1>6. QED
  BY <1>5, VersionIs

LEMMA CrashRefines ==
  ASSUME IInv, IInv', Crash
  PROVE  A!Kill
<1> USE DEF IInv, Entering, Committing, Uninstalling, Ending
<1>1. /\ Job # "idle" /\ Job' = "idle" /\ crashes' = crashes + 1 /\ faults' = faults
      /\ Installed' = Version'
  BY InstallationAssumption DEF Crash, Job, Installed, TypeOK, JobOK
<1>2. Version' \in A!Something
  BY VersionType DEF Version, A!Something
<1>3. ASSUME faults <= 1
      PROVE  Version' \in {Installed, Job, "none", "partial"}
  <2>1. CASE pc \in Entering \cup Ending
    <3>1. content' = content
      BY <2>1 DEF Crash, Interrupted
    <3>2. QED
      BY <2>1, <3>1 DEF Installed, Version
  <2>2. CASE pc \in Committing
    BY <1>3, <2>2, CrashMixes DEF Preserved, Installed, Job
  <2>3. CASE pc = "undo"
    <3>1. Version' \notin Releases
      BY <2>3, ComesBack DEF Crash, Interrupted
    <3>2. QED
      BY <3>1, VersionType DEF Version
  <2>4. CASE pc \in Uninstalling \ {"undo"}
    <3>1. \A f \in File : content'[f] \in {content[f], "absent"}
      BY <2>4 DEF Crash, Interrupted, DeletePart, TypeOK, FilesOK
    <3>2. QED
      BY <2>4, <3>1, VersionShrinks DEF Installed, Version
  <2>5. QED
    BY <2>1, <2>2, <2>3, <2>4 DEF Crash, TypeOK, JobOK
<1>4. QED
  BY <1>1, <1>2, <1>3 DEF A!Kill

(* Installation implements AtomicInstall: a setup in which no more than one *)
(* step fails replaces what is installed as a whole or leaves it, though it *)
(* replaces the files one after the other; and what a kill or a second      *)
(* failure left, the next operation without a failure puts right.           *)
THEOREM InstallationIsAtomic == Spec => Atomic
<1>1. ASSUME IInv, IInv', [Next]_vars
      PROVE  [A!Next]_<<Installed, Job, faults, crashes>>
  <2>1. CASE Crash
    BY <1>1, <2>1, CrashRefines DEF A!Next
  <2>2. CASE UNCHANGED vars
    BY <2>2 DEF vars, Installed, Job, Version
  <2>3. QED
    BY <1>1, <2>1, <2>2, SetupRefines, UninstallRefines DEF Next
<1>2. QED
  BY <1>1, RefinementInit, Invariance, PTL DEF Spec, Atomic, A!Spec
===============================================================================
