---------------------------- MODULE MCInstallation ----------------------------
(***************************************************************************)
(* Installation in two ranges at once: setups of two releases in which one *)
(* step of an operation fails, and setups of one release in which two do.  *)
(* Both together are too many states.                                      *)
(***************************************************************************)
EXTENDS Installation

VARIABLE range

Ranges == {"two releases", "two faults"}

RangeInit == range \in Ranges /\ Init

Within ==
  /\ UNCHANGED range
  /\ IF range = "two releases" THEN faults' <= 1 ELSE release' = NoRelease

(* Next, within the range.                                                 *)
RangeNext ==
  \/ SetupBegin /\ Within
  \/ Prepare /\ Within
  \/ PrepareFails /\ Within
  \/ Stage /\ Within
  \/ StageFails /\ Within
  \/ (\E f \in File : CommitSave(f)) /\ Within
  \/ (\E f \in File : CommitSaveFails(f)) /\ Within
  \/ CommitCopy /\ Within
  \/ CommitCopyFails /\ Within
  \/ CommitEnd /\ Within
  \/ CommitEndFails /\ Within
  \/ RollbackCreated /\ Within
  \/ RollbackCreatedFails /\ Within
  \/ RollbackEnd /\ Within
  \/ (\E f \in File : RollbackRestore(f)) /\ Within
  \/ (\E f \in File : RollbackRestoreFails(f)) /\ Within
  \/ SetupData /\ Within
  \/ SetupDataFails /\ Within
  \/ SaveState /\ Within
  \/ SaveStateFails /\ Within
  \/ SetupLinks /\ Within
  \/ SetupRegister /\ Within
  \/ SetupEntriesFail /\ Within
  \/ UninstallBegin /\ Within
  \/ Delete /\ Within
  \/ DeleteFails /\ Within
  \/ Unlink /\ Within
  \/ UnlinkFails /\ Within
  \/ RemoveUninstaller /\ Within
  \/ RemoveUninstallerFails /\ Within
  \/ RemoveMarker /\ Within
  \/ RemoveMarkerFails /\ Within
  \/ RemoveKey /\ Within
  \/ RemoveKeyFails /\ Within
  \/ Undo /\ Within
  \/ UndoFails /\ Within
  \/ Crash /\ Within

RangeSpec == RangeInit /\ [][RangeNext]_<<range, vars>>
=============================================================================
