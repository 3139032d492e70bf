--------------------------- MODULE MaintenanceProofs ---------------------------
(***************************************************************************)
(* Maintenance for any number of setups and copies of the uninstaller:     *)
(* types, the lock, and what the uninstaller removes.                      *)
(***************************************************************************)
EXTENDS Maintenance, TLAPS

-----------------------------------------------------------------------------
(* Results.                                                                 *)

(* The results and the handover directory that the model names are what they should be. *)
LEMMA PlainResults == Missing \in Result /\ Failed \in Result /\ NoHand \in Hands
BY DEF Missing, Failed, Result, Drivers, NoHand, Hands

(* A worker that gives up still has a step, an address and a result.          *)
LEMMA GiveType ==
  ASSUME WorkerType, NEW s \in Setups, Give(s)
  PROVE  WorkerType'
BY PlainResults DEF WorkerType, Give, Working

(* A worker whose driver is settled has a result of the right shape.          *)
LEMMA SettleType ==
  ASSUME WorkerType, NEW s \in Setups, NEW key \in Drivers, NEW again \in BOOLEAN,
         Settle(s, key, again)
  PROVE  pc' \in [Setups -> Working] /\ res' \in [Setups -> Result]
<1>1. [ok |-> TRUE, driver |-> key, reboot |-> again, launch |-> FALSE] \in Result
  BY DEF Result
<1> QED
  BY <1>1 DEF WorkerType, Settle, Working

(* Whatever the driver's installer returns, the outcome is one the window knows. *)
LEMMA OutcomeType ==
  ASSUME NEW code \in Codes, NEW works \in BOOLEAN
  PROVE  Outcome(code, works) \in Drivers /\ NeedsReboot(FromCode(code)) \in BOOLEAN
BY DEF Codes, Outcome, FromCode, NeedsReboot, Drivers

-----------------------------------------------------------------------------
(* Types, one lemma for each part.                                          *)

(* No step takes the windows out of their type.                               *)
LEMMA WindowTypeStep ==
  ASSUME TypeOK, [Next]_vars
  PROVE  WindowType'
<1>1. ASSUME NEW s \in Setups, NEW again \in BOOLEAN, Begin(s, again)
      PROVE  WindowType'
  <2>1. hand' \in [Setups -> Hands]
    <3>1. PICK launch \in IF again THEN {hand[s].launch} ELSE BOOLEAN :
            hand' = [hand EXCEPT ![s] = [NoHand EXCEPT !.there = TRUE, !.again = again,
                                                        !.launch = launch]]
      BY <1>1 DEF Begin
    <3>2. launch \in BOOLEAN
      BY DEF TypeOK, WindowType, Hands
    <3>3. [NoHand EXCEPT !.there = TRUE, !.again = again, !.launch = launch] \in Hands
      BY <3>2, PlainResults DEF Hands, NoHand
    <3> QED
      BY <3>1, <3>3 DEF TypeOK, WindowType
  <2> QED
    BY <1>1, <2>1, PlainResults, MaintenanceAssumption
       DEF Begin, TypeOK, WindowType, Pages, Waits
<1>2. ASSUME NEW s \in Setups, Consent(s)
      PROVE  WindowType'
  BY <1>2
     DEF Consent, Waits, WindowType, workVars, windowVars, TypeOK
<1>3. ASSUME NEW s \in Setups, Return(s)
      PROVE  WindowType'
  BY <1>3
     DEF Return, Waits, WorkerType, WindowType, workVars, windowVars, TypeOK
<1>4. ASSUME NEW s \in Setups, Tick(s)
      PROVE  WindowType'
  BY <1>4
     DEF Tick, Hands, NoHand, Pages, Waits, Missing, Failed, Result, Drivers,
         WindowType, workVars, windowVars, TypeOK
<1>5. ASSUME NEW s \in Setups, Cancel(s)
      PROVE  WindowType'
  BY <1>5
     DEF Cancel, Hands, WindowType, workVars, windowVars, TypeOK
<1>6. ASSUME NEW s \in Setups, Close(s)
      PROVE  WindowType'
  BY <1>6
     DEF Close, Gone, Pages, Waits, Missing, Failed, Result, Drivers,
         WindowType, workVars, windowVars, TypeOK
<1>7. ASSUME NEW s \in Setups, Back(s)
      PROVE  WindowType'
  BY <1>7
     DEF Back, Pages, Missing, Failed, Result, Drivers, WindowType, workVars,
         windowVars, TypeOK
<1>8. ASSUME NEW s \in Setups, OpenClient(s)
      PROVE  WindowType'
  BY <1>8
     DEF OpenClient, Gone, Pages, Waits, Missing, Failed, Result, Drivers,
         WindowType, workVars, windowVars, TypeOK
<1>9. ASSUME NEW s \in Setups, WindowKilled(s)
      PROVE  WindowType'
  BY <1>9
     DEF WindowKilled, Gone, Pages, Waits, Missing, Failed, Result, Drivers,
         WindowType, workVars, windowVars, TypeOK
<1>10. ASSUME NEW s \in Setups, Write(s)
      PROVE  WindowType'
  BY <1>10
     DEF Write, Step, Hands, WorkerType, WindowType, workVars, windowVars,
         TypeOK
<1>11. CASE UNCHANGED <<page, cancelling, shown, runs, waiter, hand>>
  BY <1>11 DEF TypeOK, WindowType
<1>12. ASSUME NEW c \in Cleaners, Cleaner(c)
      PROVE  WindowType'
  BY <1>12, <1>11
     DEF Cleaner, Copy, Spawn, SpawnFails, CleanLock, CleanMatch, CleanStop,
         CleanFails, CleanRemove, Tidy, TidyFails, Leave, windowVars, workVars,
         worldVars, cleanVars
<1> QED
  BY <1>1, <1>2, <1>3, <1>4, <1>5, <1>6, <1>7, <1>8, <1>9, <1>10, <1>11, <1>12
     DEF Next, vars, Window, Worker, Driver, windowVars, workVars, worldVars,
         cleanVars, Verify, Lock, StepFails, Check, StopClient, InstallFiles,
         MakeEntries, Detect, Download, Proof, RunInstaller, Report,
         WorkerKilled, CleanerKilled, ClientStart, ClientExit, DialogOpen,
         DialogClose, Give, Settle, Step

(* No step takes the workers out of their type.                               *)
LEMMA WorkerTypeStep ==
  ASSUME TypeOK, [Next]_vars
  PROVE  WorkerType'
<1>1. ASSUME NEW s \in Setups, Consent(s)
      PROVE  WorkerType'
  BY <1>1
     DEF Consent, Working, WorkerType, workVars, windowVars, TypeOK
<1>2. ASSUME NEW s \in Setups, Return(s)
      PROVE  WorkerType'
  BY <1>2, PlainResults
     DEF Return, Working, WorkerType, workVars, windowVars, TypeOK
<1>3. ASSUME NEW s \in Setups, Verify(s)
      PROVE  WorkerType'
  BY <1>3
     DEF Verify, Step, Working, WorkerType, workVars, windowVars, TypeOK
<1>4. ASSUME NEW s \in Setups, Lock(s)
      PROVE  WorkerType'
  <2>1. CASE Give(s)
    BY <2>1, GiveType DEF TypeOK
  <2>2. CASE ~Give(s)
    BY <1>4, <2>2 DEF Lock, TypeOK, WorkerType, Working
  <2> QED
    BY <2>1, <2>2
<1>5. ASSUME NEW s \in Setups, StepFails(s)
      PROVE  WorkerType'
  BY <1>5, GiveType
     DEF StepFails, Give, Working, WorkerType, workVars, windowVars, TypeOK
<1>6. ASSUME NEW s \in Setups, Check(s)
      PROVE  WorkerType'
  <2>1. CASE Give(s)
    BY <2>1, GiveType DEF TypeOK
  <2>2. CASE ~Give(s)
    BY <1>6, <2>2 DEF Check, TypeOK, WorkerType, Working
  <2> QED
    BY <2>1, <2>2
<1>7. ASSUME NEW s \in Setups, StopClient(s)
      PROVE  WorkerType'
  <2>1. CASE Give(s)
    BY <2>1, GiveType DEF TypeOK
  <2>2. CASE ~Give(s)
    BY <1>7, <2>2 DEF StopClient, TypeOK, WorkerType, Working
  <2> QED
    BY <2>1, <2>2
<1>8. ASSUME NEW s \in Setups, InstallFiles(s)
      PROVE  WorkerType'
  BY <1>8
     DEF InstallFiles, Step, Working, WorkerType, workVars, windowVars, TypeOK
<1>9. ASSUME NEW s \in Setups, MakeEntries(s)
      PROVE  WorkerType'
  BY <1>9
     DEF MakeEntries, Step, Working, WorkerType, workVars, windowVars, TypeOK
<1>10. ASSUME NEW s \in Setups, Detect(s)
      PROVE  WorkerType'
  <2>1. CASE available
    <3>1. Settle(s, "available", FALSE) /\ url' \in [Setups -> 1 .. Urls]
      BY <1>10, <2>1, MaintenanceAssumption DEF Detect, TypeOK, WorkerType, Settle
    <3> QED
      BY <3>1, SettleType DEF Drivers, TypeOK, WorkerType
  <2>2. CASE ~available /\ hand[s].cancel
    <3>1. Settle(s, "cancelled", FALSE) /\ url' \in [Setups -> 1 .. Urls]
      BY <1>10, <2>2, MaintenanceAssumption DEF Detect, TypeOK, WorkerType, Settle
    <3> QED
      BY <3>1, SettleType DEF Drivers, TypeOK, WorkerType
  <2>3. CASE ~available /\ ~hand[s].cancel
    BY <1>10, <2>3, MaintenanceAssumption DEF Detect, TypeOK, WorkerType, Working
  <2> QED
    BY <2>1, <2>2, <2>3
<1>11. ASSUME NEW s \in Setups, NEW answer \in Answers, Download(s, answer)
      PROVE  WorkerType'
  <2>1. CASE hand[s].cancel
    <3>1. Settle(s, "cancelled", FALSE) /\ url' \in [Setups -> 1 .. Urls]
      BY <1>11, <2>1, MaintenanceAssumption DEF Download, TypeOK, WorkerType, Settle
    <3> QED
      BY <3>1, SettleType DEF Drivers, TypeOK, WorkerType
  <2>2. CASE ~hand[s].cancel /\ answer # "complete" /\ url[s] = Urls
    <3>1. Settle(s, "download-failed", FALSE) /\ url' \in [Setups -> 1 .. Urls]
      BY <1>11, <2>2, MaintenanceAssumption DEF Download, TypeOK, WorkerType, Settle
    <3> QED
      BY <3>1, SettleType DEF Drivers, TypeOK, WorkerType
  <2>3. CASE ~hand[s].cancel /\ answer = "complete"
    <3>1. pc' = [pc EXCEPT ![s] = "proof"] /\ res' = res /\ url' = [url EXCEPT ![s] = 1]
      BY <1>11, <2>3 DEF Download, TypeOK, WorkerType
    <3> QED
      BY <3>1, MaintenanceAssumption DEF TypeOK, WorkerType, Working
  <2>4. CASE ~hand[s].cancel /\ answer # "complete" /\ url[s] # Urls
    <3>1. pc' = pc /\ res' = res /\ pc[s] = "download"
      BY <1>11, <2>4 DEF Download
    <3>2. url' = [url EXCEPT ![s] = url[s] + 1]
      BY <1>11, <2>4, <3>1 DEF Download
    <3>3. url[s] + 1 \in 1 .. Urls
      BY <2>4, MaintenanceAssumption DEF TypeOK, WorkerType
    <3> QED
      BY <3>1, <3>2, <3>3 DEF TypeOK, WorkerType
  <2> QED
    BY <2>1, <2>2, <2>3, <2>4
<1>12. ASSUME NEW s \in Setups, NEW verdict \in Verdicts, Proof(s, verdict)
      PROVE  WorkerType'
  <2>1. CASE verdict # "trusted"
    <3>1. Settle(s, "verification-failed", FALSE) /\ url' \in [Setups -> 1 .. Urls]
      BY <1>12, <2>1, MaintenanceAssumption DEF Proof, TypeOK, WorkerType, Settle
    <3> QED
      BY <3>1, SettleType DEF Drivers, TypeOK, WorkerType
  <2>2. CASE verdict = "trusted" /\ hand[s].cancel
    <3>1. Settle(s, "cancelled", FALSE) /\ url' \in [Setups -> 1 .. Urls]
      BY <1>12, <2>2, MaintenanceAssumption DEF Proof, TypeOK, WorkerType, Settle
    <3> QED
      BY <3>1, SettleType DEF Drivers, TypeOK, WorkerType
  <2>3. CASE verdict = "trusted" /\ ~hand[s].cancel
    BY <1>12, <2>3, MaintenanceAssumption DEF Proof, TypeOK, WorkerType, Working
  <2> QED
    BY <2>1, <2>2, <2>3
<1>13. ASSUME NEW s \in Setups, RunInstaller(s)
      PROVE  WorkerType'
  <2>1. PICK code \in Codes, works \in BOOLEAN :
          Settle(s, Outcome(code, works), NeedsReboot(FromCode(code)))
    BY <1>13 DEF RunInstaller
  <2>2. pc' \in [Setups -> Working] /\ res' \in [Setups -> Result]
    BY <2>1, SettleType, OutcomeType DEF TypeOK
  <2> QED
    BY <1>13, <2>2 DEF RunInstaller, TypeOK, WorkerType
<1>14. ASSUME NEW s \in Setups, Report(s)
      PROVE  WorkerType'
  <2>1. hand[s].launch \in BOOLEAN /\ res[s] \in Result
    BY DEF TypeOK, WindowType, WorkerType, Hands
  <2>2. [res[s] EXCEPT !.launch =
           hand[s].launch /\ Ready(res[s].driver) /\ ~res[s].reboot /\ ~hand[s].cancel] \in Result
    BY <2>1 DEF Result, Ready
  <2> QED
    BY <1>14, <2>2 DEF Report, Step, TypeOK, WorkerType, Working, workVars
<1>15. ASSUME NEW s \in Setups, Write(s)
      PROVE  WorkerType'
  BY <1>15
     DEF Write, Step, Working, WorkerType, workVars, windowVars, TypeOK
<1>16. ASSUME NEW s \in Setups, WorkerKilled(s)
      PROVE  WorkerType'
  BY <1>16, PlainResults, MaintenanceAssumption
     DEF WorkerKilled, Working, WorkerType, workVars, windowVars, TypeOK
<1>17. CASE UNCHANGED <<pc, url, res>>
  BY <1>17 DEF TypeOK, WorkerType
<1>18. ASSUME NEW c \in Cleaners, Cleaner(c)
      PROVE  WorkerType'
  BY <1>18, <1>17
     DEF Cleaner, Copy, Spawn, SpawnFails, CleanLock, CleanMatch, CleanStop,
         CleanFails, CleanRemove, Tidy, TidyFails, Leave, windowVars, workVars,
         worldVars, cleanVars
<1> QED
  BY <1>1, <1>2, <1>3, <1>4, <1>5, <1>6, <1>7, <1>8, <1>9, <1>10, <1>11, <1>12,
     <1>13, <1>14, <1>15, <1>16, <1>17, <1>18
     DEF Next, vars, Window, Worker, Driver, windowVars, workVars, worldVars,
         cleanVars, Begin, Tick, Cancel, Close, Back, OpenClient, WindowKilled,
         CleanerKilled, ClientStart, ClientExit, DialogOpen, DialogClose, Gone

(* No step takes the installation, the client or the driver out of their type. *)
LEMMA WorldTypeStep ==
  ASSUME TypeOK, [Next]_vars
  PROVE  WorldType'
<1>1. ASSUME NEW s \in Setups, NEW again \in BOOLEAN, Begin(s, again)
      PROVE  WorldType'
  BY <1>1
     DEF Begin, WorldType, worldVars, workVars, cleanVars, windowVars, TypeOK
<1>2. ASSUME NEW s \in Setups, Close(s)
      PROVE  WorldType'
  BY <1>2
     DEF Close, Gone, WorldType, worldVars, workVars, cleanVars, windowVars,
         TypeOK
<1>3. ASSUME NEW s \in Setups, OpenClient(s)
      PROVE  WorldType'
  BY <1>3
     DEF OpenClient, Gone, WorldType, worldVars, workVars, cleanVars,
         windowVars, TypeOK
<1>4. ASSUME NEW s \in Setups, WindowKilled(s)
      PROVE  WorldType'
  BY <1>4, MaintenanceAssumption
     DEF WindowKilled, Gone, WorldType, worldVars, workVars, cleanVars,
         windowVars, TypeOK
<1>5. ASSUME NEW s \in Setups, Check(s)
      PROVE  WorldType'
  BY <1>5
     DEF Check, Give, WorldType, worldVars, workVars, cleanVars, windowVars,
         TypeOK
<1>6. ASSUME NEW s \in Setups, StopClient(s)
      PROVE  WorldType'
  BY <1>6
     DEF StopClient, Give, WorldType, worldVars, workVars, cleanVars,
         windowVars, TypeOK
<1>7. ASSUME NEW s \in Setups, InstallFiles(s)
      PROVE  WorldType'
  BY <1>7
     DEF InstallFiles, Step, WorldType, worldVars, workVars, cleanVars,
         windowVars, TypeOK
<1>8. ASSUME NEW s \in Setups, RunInstaller(s)
      PROVE  WorldType'
  BY <1>8
     DEF RunInstaller, Settle, WorldType, worldVars, workVars, cleanVars,
         windowVars, TypeOK
<1>9. ASSUME NEW s \in Setups, WorkerKilled(s)
      PROVE  WorldType'
  BY <1>9, MaintenanceAssumption
     DEF WorkerKilled, WorldType, worldVars, workVars, cleanVars, windowVars,
         TypeOK
<1>10. ASSUME ClientStart
      PROVE  WorldType'
  BY <1>10
     DEF ClientStart, WorldType, worldVars, workVars, cleanVars, windowVars,
         TypeOK
<1>11. ASSUME ClientExit
      PROVE  WorldType'
  BY <1>11
     DEF ClientExit, WorldType, worldVars, workVars, cleanVars, windowVars,
         TypeOK
<1>12. ASSUME NEW c \in Cleaners, CleanStop(c)
      PROVE  WorldType'
  BY <1>12
     DEF CleanStop, WorldType, worldVars, workVars, cleanVars, windowVars,
         TypeOK
<1>13. ASSUME NEW c \in Cleaners, CleanRemove(c)
      PROVE  WorldType'
  BY <1>13
     DEF CleanRemove, Leave, WorldType, worldVars, workVars, cleanVars,
         windowVars, TypeOK
<1>14. ASSUME NEW c \in Cleaners, CleanerKilled(c)
      PROVE  WorldType'
  BY <1>14, MaintenanceAssumption
     DEF CleanerKilled, WorldType, worldVars, workVars, cleanVars, windowVars,
         TypeOK
<1>15. CASE UNCHANGED <<installed, ids, client, available, kills, own>>
  BY <1>15 DEF TypeOK, WorldType
<1> QED
  BY <1>1, <1>2, <1>3, <1>4, <1>5, <1>6, <1>7, <1>8, <1>9, <1>10, <1>11, <1>12,
     <1>13, <1>14, <1>15
     DEF Next, vars, Window, Worker, Driver, Cleaner, windowVars, workVars,
         worldVars, cleanVars, Consent, Return, Tick, Cancel, Back, Verify,
         Lock, StepFails, MakeEntries, Detect, Download, Proof, Report, Write,
         Copy, Spawn, SpawnFails, CleanLock, CleanMatch, CleanFails, Tidy,
         TidyFails, DialogOpen, DialogClose, Give, Leave, Settle, Step

(* No step takes the lock, the dialog or the copies out of their type.        *)
LEMMA CleanerTypeStep ==
  ASSUME TypeOK, [Next]_vars
  PROVE  CleanerType'
<1>1. ASSUME NEW s \in Setups, Lock(s)
      PROVE  CleanerType'
  BY <1>1
     DEF Lock, Give, Parties, CleanerType, worldVars, workVars, cleanVars,
         windowVars, TypeOK
<1>2. ASSUME NEW s \in Setups, StepFails(s)
      PROVE  CleanerType'
  BY <1>2
     DEF StepFails, Give, CleanerType, worldVars, workVars, cleanVars,
         windowVars, TypeOK
<1>3. ASSUME NEW s \in Setups, Check(s)
      PROVE  CleanerType'
  BY <1>3
     DEF Check, Give, CleanerType, worldVars, workVars, cleanVars, windowVars,
         TypeOK
<1>4. ASSUME NEW s \in Setups, StopClient(s)
      PROVE  CleanerType'
  BY <1>4
     DEF StopClient, Give, CleanerType, worldVars, workVars, cleanVars,
         windowVars, TypeOK
<1>5. ASSUME NEW s \in Setups, Report(s)
      PROVE  CleanerType'
  BY <1>5
     DEF Report, Step, CleanerType, worldVars, workVars, cleanVars, windowVars,
         TypeOK
<1>6. ASSUME NEW s \in Setups, WorkerKilled(s)
      PROVE  CleanerType'
  BY <1>6
     DEF WorkerKilled, CleanerType, worldVars, workVars, cleanVars, windowVars,
         TypeOK
<1>7. ASSUME NEW c \in Cleaners, Copy(c)
      PROVE  CleanerType'
  BY <1>7
     DEF Copy, Cleaning, WorldType, CleanerType, worldVars, workVars, cleanVars,
         windowVars, TypeOK
<1>8. ASSUME NEW c \in Cleaners, Spawn(c)
      PROVE  CleanerType'
  BY <1>8
     DEF Spawn, Cleaning, CleanerType, worldVars, workVars, cleanVars,
         windowVars, TypeOK
<1>9. ASSUME NEW c \in Cleaners, SpawnFails(c)
      PROVE  CleanerType'
  BY <1>9
     DEF SpawnFails, Cleaning, CleanerType, worldVars, workVars, cleanVars,
         windowVars, TypeOK
<1>10. ASSUME NEW c \in Cleaners, CleanLock(c)
      PROVE  CleanerType'
  BY <1>10
     DEF CleanLock, Leave, Cleaning, Parties, CleanerType, worldVars, workVars,
         cleanVars, windowVars, TypeOK
<1>11. ASSUME NEW c \in Cleaners, CleanMatch(c)
      PROVE  CleanerType'
  BY <1>11
     DEF CleanMatch, Leave, Cleaning, CleanerType, worldVars, workVars,
         cleanVars, windowVars, TypeOK
<1>12. ASSUME NEW c \in Cleaners, CleanStop(c)
      PROVE  CleanerType'
  BY <1>12
     DEF CleanStop, Cleaning, CleanerType, worldVars, workVars, cleanVars,
         windowVars, TypeOK
<1>13. ASSUME NEW c \in Cleaners, CleanFails(c)
      PROVE  CleanerType'
  BY <1>13
     DEF CleanFails, Leave, Cleaning, CleanerType, worldVars, workVars,
         cleanVars, windowVars, TypeOK
<1>14. ASSUME NEW c \in Cleaners, CleanRemove(c)
      PROVE  CleanerType'
  BY <1>14
     DEF CleanRemove, Leave, Cleaning, CleanerType, worldVars, workVars,
         cleanVars, windowVars, TypeOK
<1>15. ASSUME NEW c \in Cleaners, Tidy(c)
      PROVE  CleanerType'
  BY <1>15
     DEF Tidy, Cleaning, CleanerType, worldVars, workVars, cleanVars,
         windowVars, TypeOK
<1>16. ASSUME NEW c \in Cleaners, TidyFails(c)
      PROVE  CleanerType'
  BY <1>16
     DEF TidyFails, Cleaning, CleanerType, worldVars, workVars, cleanVars,
         windowVars, TypeOK
<1>17. ASSUME NEW c \in Cleaners, CleanerKilled(c)
      PROVE  CleanerType'
  BY <1>17
     DEF CleanerKilled, Cleaning, CleanerType, worldVars, workVars, cleanVars,
         windowVars, TypeOK
<1>18. ASSUME DialogOpen
      PROVE  CleanerType'
  BY <1>18
     DEF DialogOpen, CleanerType, worldVars, workVars, cleanVars, windowVars,
         TypeOK
<1>19. ASSUME DialogClose
      PROVE  CleanerType'
  BY <1>19
     DEF DialogClose, CleanerType, worldVars, workVars, cleanVars, windowVars,
         TypeOK
<1>20. CASE UNCHANGED <<lock, dialog, cpc, target, copies>>
  BY <1>20 DEF TypeOK, CleanerType
<1>21. ASSUME NEW s \in Setups, Window(s)
      PROVE  CleanerType'
  BY <1>21, <1>20
     DEF Window, Begin, Consent, Return, Tick, Cancel, Close, Back, OpenClient,
         WindowKilled, Gone, windowVars, workVars, worldVars, cleanVars
<1> QED
  BY <1>1, <1>2, <1>3, <1>4, <1>5, <1>6, <1>7, <1>8, <1>9, <1>10, <1>11, <1>12,
     <1>13, <1>14, <1>15, <1>16, <1>17, <1>18, <1>19, <1>20, <1>21
     DEF Next, vars, Worker, Driver, Cleaner, windowVars, workVars, worldVars,
         cleanVars, Verify, InstallFiles, MakeEntries, Detect, Download, Proof,
         RunInstaller, Write, ClientStart, ClientExit, Settle, Step

(* Every reachable state is well typed, for any number of setups and cleaners. *)
THEOREM TypeCorrect == Spec => []TypeOK
<1>1. Init => TypeOK
  <2> SUFFICES ASSUME Init PROVE TypeOK
    OBVIOUS
  <2>1. WindowType
    BY PlainResults, MaintenanceAssumption DEF Init, WindowType, Pages, Waits
  <2>2. WorkerType
    BY PlainResults, MaintenanceAssumption DEF Init, WorkerType, Working
  <2>3. WorldType
    <3>1. installed \in Nat /\ ids \in Nat /\ installed <= ids
      BY DEF Init
    <3>2. kills \in 0 .. MaxKills
      BY MaintenanceAssumption DEF Init
    <3> QED
      BY <3>1, <3>2 DEF Init, WorldType
  <2>4. CleanerType
    BY DEF Init, CleanerType, Cleaning
  <2> QED
    BY <2>1, <2>2, <2>3, <2>4 DEF TypeOK
<1>2. TypeOK /\ [Next]_vars => TypeOK'
  BY WindowTypeStep, WorkerTypeStep, WorldTypeStep, CleanerTypeStep DEF TypeOK
<1> QED
  BY <1>1, <1>2, PTL DEF Spec

-----------------------------------------------------------------------------
(* The lock.                                                                *)

(* A window that does not wait for a worker has none.                       *)
Awaited ==
  \A s \in Setups :
    /\ page[s] # "closed" /\ waiter[s] # "waiting" => pc[s] = "none"
    /\ page[s] \in {"configure", "finished"} => waiter[s] = "none"
    /\ page[s] = "closed" => waiter[s] = "none"

(* No step leaves a waiting window without its page, or a waiter without a run. *)
LEMMA AwaitedStep ==
  ASSUME TypeOK, Awaited, [Next]_vars
  PROVE  Awaited'
<1>1. ASSUME NEW s \in Setups, NEW again \in BOOLEAN, Begin(s, again)
      PROVE  Awaited'
  BY <1>1
     DEF Begin, WindowType, WorkerType, Awaited, TypeOK, workVars, windowVars
<1>2. ASSUME NEW s \in Setups, Consent(s)
      PROVE  Awaited'
  BY <1>2
     DEF Consent, WindowType, WorkerType, Awaited, TypeOK, workVars, windowVars
<1>3. ASSUME NEW s \in Setups, Return(s)
      PROVE  Awaited'
  BY <1>3
     DEF Return, WindowType, WorkerType, Awaited, TypeOK, workVars, windowVars
<1>4. ASSUME NEW s \in Setups, Tick(s)
      PROVE  Awaited'
  BY <1>4
     DEF Tick, WindowType, WorkerType, Awaited, TypeOK, workVars, windowVars
<1>5. ASSUME NEW s \in Setups, Close(s)
      PROVE  Awaited'
  BY <1>5
     DEF Close, Gone, WindowType, WorkerType, Awaited, TypeOK, workVars, windowVars
<1>6. ASSUME NEW s \in Setups, Back(s)
      PROVE  Awaited'
  BY <1>6
     DEF Back, WindowType, WorkerType, Awaited, TypeOK, workVars, windowVars
<1>7. ASSUME NEW s \in Setups, OpenClient(s)
      PROVE  Awaited'
  BY <1>7
     DEF OpenClient, Gone, WindowType, WorkerType, Awaited, TypeOK, workVars, windowVars
<1>8. ASSUME NEW s \in Setups, WindowKilled(s)
      PROVE  Awaited'
  BY <1>8
     DEF WindowKilled, Gone, WindowType, WorkerType, Awaited, TypeOK, workVars,
         windowVars
<1>9. ASSUME NEW s \in Setups, Verify(s)
      PROVE  Awaited'
  BY <1>9
     DEF Verify, Step, WindowType, WorkerType, Awaited, TypeOK, workVars, windowVars
<1>10. ASSUME NEW s \in Setups, Lock(s)
      PROVE  Awaited'
  BY <1>10
     DEF Lock, Give, WindowType, WorkerType, Awaited, TypeOK, workVars, windowVars
<1>11. ASSUME NEW s \in Setups, StepFails(s)
      PROVE  Awaited'
  BY <1>11
     DEF StepFails, Give, WindowType, WorkerType, Awaited, TypeOK, workVars, windowVars
<1>12. ASSUME NEW s \in Setups, Check(s)
      PROVE  Awaited'
  BY <1>12
     DEF Check, Give, WindowType, WorkerType, Awaited, TypeOK, workVars, windowVars
<1>13. ASSUME NEW s \in Setups, StopClient(s)
      PROVE  Awaited'
  BY <1>13
     DEF StopClient, Give, WindowType, WorkerType, Awaited, TypeOK, workVars, windowVars
<1>14. ASSUME NEW s \in Setups, InstallFiles(s)
      PROVE  Awaited'
  BY <1>14
     DEF InstallFiles, Step, WindowType, WorkerType, Awaited, TypeOK, workVars,
         windowVars
<1>15. ASSUME NEW s \in Setups, MakeEntries(s)
      PROVE  Awaited'
  BY <1>15
     DEF MakeEntries, Step, WindowType, WorkerType, Awaited, TypeOK, workVars,
         windowVars
<1>16. ASSUME NEW s \in Setups, Detect(s)
      PROVE  Awaited'
  BY <1>16
     DEF Detect, Settle, WindowType, WorkerType, Awaited, TypeOK, workVars, windowVars
<1>17. ASSUME NEW s \in Setups, NEW answer \in Answers, Download(s, answer)
      PROVE  Awaited'
  BY <1>17
     DEF Download, Settle, WindowType, WorkerType, Awaited, TypeOK, workVars, windowVars
<1>18. ASSUME NEW s \in Setups, NEW verdict \in Verdicts, Proof(s, verdict)
      PROVE  Awaited'
  BY <1>18
     DEF Proof, Settle, WindowType, WorkerType, Awaited, TypeOK, workVars, windowVars
<1>19. ASSUME NEW s \in Setups, RunInstaller(s)
      PROVE  Awaited'
  BY <1>19
     DEF RunInstaller, Settle, WindowType, WorkerType, Awaited, TypeOK, workVars,
         windowVars
<1>20. ASSUME NEW s \in Setups, Report(s)
      PROVE  Awaited'
  BY <1>20
     DEF Report, Step, WindowType, WorkerType, Awaited, TypeOK, workVars, windowVars
<1>21. ASSUME NEW s \in Setups, Write(s)
      PROVE  Awaited'
  BY <1>21
     DEF Write, Step, WindowType, WorkerType, Awaited, TypeOK, workVars, windowVars
<1>22. ASSUME NEW s \in Setups, WorkerKilled(s)
      PROVE  Awaited'
  BY <1>22
     DEF WorkerKilled, WindowType, WorkerType, Live, Awaited, workVars,
         windowVars
<1>23. CASE UNCHANGED <<page, waiter, pc>>
  BY <1>23 DEF Awaited
<1>24. ASSUME NEW s \in Setups, Window(s)
      PROVE  Awaited'
  BY <1>24, <1>23, <1>1, <1>2, <1>3, <1>4, <1>5, <1>6, <1>7, <1>8
     DEF Window, Cancel, windowVars, workVars, worldVars, cleanVars
<1>25. ASSUME NEW c \in Cleaners, Cleaner(c)
      PROVE  Awaited'
  BY <1>25, <1>23
     DEF Cleaner, Copy, Spawn, SpawnFails, CleanLock, CleanMatch, CleanStop,
         CleanFails, CleanRemove, Tidy, TidyFails, Leave, windowVars, workVars,
         worldVars, cleanVars
<1>26. ASSUME NEW s \in Setups, Worker(s)
      PROVE  Awaited'
  BY <1>26, <1>23, <1>9, <1>10, <1>11, <1>12, <1>13, <1>14, <1>15, <1>16, <1>17,
     <1>18, <1>19, <1>20, <1>21
     DEF Worker, Driver, windowVars, workVars, worldVars, cleanVars
<1> QED
  BY <1>22, <1>23, <1>24, <1>25, <1>26
     DEF Next, vars, windowVars, workVars, worldVars, cleanVars, CleanerKilled,
         ClientStart, ClientExit, DialogOpen, DialogClose

(* What a party does at the lock leaves the others where they are.           *)
LEMMA SetupMoves ==
  ASSUME OneAtATime, NEW s \in Setups, UNCHANGED cpc,
         \A p \in Setups \ {s} : pc'[p] = pc[p],
         Holding(s)' <=> lock' = s,
         lock' = lock \/ (lock' \in {s, "nobody", "abandoned"} /\ lock \in {s, "nobody", "abandoned"})
  PROVE  OneAtATime'
<1> SUFFICES ASSUME NEW p \in Parties, p # s
             PROVE  Holding(p)' <=> lock' = p
  BY DEF OneAtATime, Parties
<1>1. Holding(p)' <=> Holding(p)
  BY MaintenanceAssumption DEF Holding, Parties
<1>2. p \notin {s, "nobody", "abandoned"}
  BY MaintenanceAssumption DEF Parties
<1> QED
  BY <1>1, <1>2 DEF OneAtATime

(* A step of one copy keeps the exclusion if it keeps it for that copy.       *)
LEMMA CleanerMoves ==
  ASSUME OneAtATime, NEW c \in Cleaners, UNCHANGED pc,
         \A p \in Cleaners \ {c} : cpc'[p] = cpc[p],
         Holding(c)' <=> lock' = c,
         lock' = lock \/ (lock' \in {c, "nobody", "abandoned"} /\ lock \in {c, "nobody", "abandoned"})
  PROVE  OneAtATime'
<1> SUFFICES ASSUME NEW p \in Parties, p # c
             PROVE  Holding(p)' <=> lock' = p
  BY DEF OneAtATime, Parties
<1>1. Holding(p)' <=> Holding(p)
  BY MaintenanceAssumption DEF Holding, Parties
<1>2. p \notin {c, "nobody", "abandoned"}
  BY MaintenanceAssumption DEF Parties
<1> QED
  BY <1>1, <1>2 DEF OneAtATime

(* No step lets a second party work on the installation.                      *)
LEMMA OneAtATimeStep ==
  ASSUME TypeOK, Awaited, OneAtATime, [Next]_vars
  PROVE  OneAtATime'
<1>1. ASSUME NEW s \in Setups, Consent(s)
      PROVE  OneAtATime'
  <2>1. UNCHANGED cpc /\ \A p \in Setups \ {s} : pc'[p] = pc[p]
    BY <1>1 DEF Consent, workVars, cleanVars, TypeOK, WorkerType
  <2>2. Holding(s) <=> lock = s
    BY DEF OneAtATime, Parties
  <2>3. Holding(s)' <=> lock' = s
    BY <1>1, <2>2, MaintenanceAssumption DEF Holding, Consent, workVars, cleanVars, TypeOK, WorkerType, Awaited, WindowType
  <2>4. lock' = lock \/ (lock' \in {s, "nobody", "abandoned"} /\ lock \in {s, "nobody", "abandoned"})
    BY <1>1, <2>2 DEF Holding, Consent, workVars, cleanVars, TypeOK, WorkerType
  <2> QED
    BY <2>1, <2>3, <2>4, SetupMoves
<1>2. ASSUME NEW s \in Setups, Return(s)
      PROVE  OneAtATime'
  <2>1. UNCHANGED cpc /\ \A p \in Setups \ {s} : pc'[p] = pc[p]
    BY <1>2 DEF Return, workVars, cleanVars, TypeOK, WorkerType
  <2>2. Holding(s) <=> lock = s
    BY DEF OneAtATime, Parties
  <2>3. Holding(s)' <=> lock' = s
    BY <1>2, <2>2, MaintenanceAssumption DEF Holding, Return, workVars, cleanVars, TypeOK, WorkerType
  <2>4. lock' = lock \/ (lock' \in {s, "nobody", "abandoned"} /\ lock \in {s, "nobody", "abandoned"})
    BY <1>2, <2>2 DEF Holding, Return, workVars, cleanVars, TypeOK, WorkerType
  <2> QED
    BY <2>1, <2>3, <2>4, SetupMoves
<1>3. ASSUME NEW s \in Setups, Verify(s)
      PROVE  OneAtATime'
  <2>1. UNCHANGED cpc /\ \A p \in Setups \ {s} : pc'[p] = pc[p]
    BY <1>3 DEF Verify, Step, workVars, cleanVars, TypeOK, WorkerType
  <2>2. Holding(s) <=> lock = s
    BY DEF OneAtATime, Parties
  <2>3. Holding(s)' <=> lock' = s
    BY <1>3, <2>2, MaintenanceAssumption DEF Holding, Verify, Step, workVars, cleanVars, TypeOK, WorkerType
  <2>4. lock' = lock \/ (lock' \in {s, "nobody", "abandoned"} /\ lock \in {s, "nobody", "abandoned"})
    BY <1>3, <2>2 DEF Holding, Verify, Step, workVars, cleanVars, TypeOK, WorkerType
  <2> QED
    BY <2>1, <2>3, <2>4, SetupMoves
<1>4. ASSUME NEW s \in Setups, Lock(s)
      PROVE  OneAtATime'
  <2>1. UNCHANGED cpc /\ \A p \in Setups \ {s} : pc'[p] = pc[p]
    BY <1>4 DEF Lock, Give, workVars, cleanVars, TypeOK, WorkerType
  <2>2. Holding(s) <=> lock = s
    BY DEF OneAtATime, Parties
  <2>3. Holding(s)' <=> lock' = s
    BY <1>4, <2>2, MaintenanceAssumption DEF Holding, Free, Lock, Give, workVars, cleanVars, TypeOK, WorkerType
  <2>4. lock' = lock \/ (lock' \in {s, "nobody", "abandoned"} /\ lock \in {s, "nobody", "abandoned"})
    BY <1>4, <2>2 DEF Holding, Free, Lock, Give, workVars, cleanVars, TypeOK, WorkerType
  <2> QED
    BY <2>1, <2>3, <2>4, SetupMoves
<1>5. ASSUME NEW s \in Setups, StepFails(s)
      PROVE  OneAtATime'
  <2>1. UNCHANGED cpc /\ \A p \in Setups \ {s} : pc'[p] = pc[p]
    BY <1>5 DEF StepFails, Give, workVars, cleanVars, TypeOK, WorkerType
  <2>2. Holding(s) <=> lock = s
    BY DEF OneAtATime, Parties
  <2>3. Holding(s)' <=> lock' = s
    BY <1>5, <2>2, MaintenanceAssumption DEF Holding, StepFails, Give, workVars, cleanVars, TypeOK, WorkerType
  <2>4. lock' = lock \/ (lock' \in {s, "nobody", "abandoned"} /\ lock \in {s, "nobody", "abandoned"})
    BY <1>5, <2>2 DEF Holding, StepFails, Give, workVars, cleanVars, TypeOK, WorkerType
  <2> QED
    BY <2>1, <2>3, <2>4, SetupMoves
<1>6. ASSUME NEW s \in Setups, Check(s)
      PROVE  OneAtATime'
  <2>1. UNCHANGED cpc /\ \A p \in Setups \ {s} : pc'[p] = pc[p]
    BY <1>6 DEF Check, Give, workVars, cleanVars, TypeOK, WorkerType
  <2>2. Holding(s) <=> lock = s
    BY DEF OneAtATime, Parties
  <2>3. Holding(s)' <=> lock' = s
    BY <1>6, <2>2, MaintenanceAssumption DEF Holding, Check, Give, workVars, cleanVars, TypeOK, WorkerType
  <2>4. lock' = lock \/ (lock' \in {s, "nobody", "abandoned"} /\ lock \in {s, "nobody", "abandoned"})
    BY <1>6, <2>2 DEF Holding, Check, Give, workVars, cleanVars, TypeOK, WorkerType
  <2> QED
    BY <2>1, <2>3, <2>4, SetupMoves
<1>7. ASSUME NEW s \in Setups, StopClient(s)
      PROVE  OneAtATime'
  <2>1. UNCHANGED cpc /\ \A p \in Setups \ {s} : pc'[p] = pc[p]
    BY <1>7 DEF StopClient, Give, workVars, cleanVars, TypeOK, WorkerType
  <2>2. Holding(s) <=> lock = s
    BY DEF OneAtATime, Parties
  <2>3. Holding(s)' <=> lock' = s
    BY <1>7, <2>2, MaintenanceAssumption DEF Holding, StopClient, Give, workVars, cleanVars, TypeOK, WorkerType
  <2>4. lock' = lock \/ (lock' \in {s, "nobody", "abandoned"} /\ lock \in {s, "nobody", "abandoned"})
    BY <1>7, <2>2 DEF Holding, StopClient, Give, workVars, cleanVars, TypeOK, WorkerType
  <2> QED
    BY <2>1, <2>3, <2>4, SetupMoves
<1>8. ASSUME NEW s \in Setups, InstallFiles(s)
      PROVE  OneAtATime'
  <2>1. UNCHANGED cpc /\ \A p \in Setups \ {s} : pc'[p] = pc[p]
    BY <1>8 DEF InstallFiles, Step, workVars, cleanVars, TypeOK, WorkerType
  <2>2. Holding(s) <=> lock = s
    BY DEF OneAtATime, Parties
  <2>3. Holding(s)' <=> lock' = s
    BY <1>8, <2>2, MaintenanceAssumption DEF Holding, InstallFiles, Step, workVars, cleanVars, TypeOK, WorkerType
  <2>4. lock' = lock \/ (lock' \in {s, "nobody", "abandoned"} /\ lock \in {s, "nobody", "abandoned"})
    BY <1>8, <2>2 DEF Holding, InstallFiles, Step, workVars, cleanVars, TypeOK, WorkerType
  <2> QED
    BY <2>1, <2>3, <2>4, SetupMoves
<1>9. ASSUME NEW s \in Setups, MakeEntries(s)
      PROVE  OneAtATime'
  <2>1. UNCHANGED cpc /\ \A p \in Setups \ {s} : pc'[p] = pc[p]
    BY <1>9 DEF MakeEntries, Step, workVars, cleanVars, TypeOK, WorkerType
  <2>2. Holding(s) <=> lock = s
    BY DEF OneAtATime, Parties
  <2>3. Holding(s)' <=> lock' = s
    BY <1>9, <2>2, MaintenanceAssumption DEF Holding, MakeEntries, Step, workVars, cleanVars, TypeOK, WorkerType
  <2>4. lock' = lock \/ (lock' \in {s, "nobody", "abandoned"} /\ lock \in {s, "nobody", "abandoned"})
    BY <1>9, <2>2 DEF Holding, MakeEntries, Step, workVars, cleanVars, TypeOK, WorkerType
  <2> QED
    BY <2>1, <2>3, <2>4, SetupMoves
<1>10. ASSUME NEW s \in Setups, Detect(s)
      PROVE  OneAtATime'
  <2>1. UNCHANGED cpc /\ \A p \in Setups \ {s} : pc'[p] = pc[p]
    BY <1>10 DEF Detect, Settle, workVars, cleanVars, TypeOK, WorkerType
  <2>2. Holding(s) <=> lock = s
    BY DEF OneAtATime, Parties
  <2>3. Holding(s)' <=> lock' = s
    BY <1>10, <2>2, MaintenanceAssumption DEF Holding, Detect, Settle, workVars, cleanVars, TypeOK, WorkerType
  <2>4. lock' = lock \/ (lock' \in {s, "nobody", "abandoned"} /\ lock \in {s, "nobody", "abandoned"})
    BY <1>10, <2>2 DEF Holding, Detect, Settle, workVars, cleanVars, TypeOK, WorkerType
  <2> QED
    BY <2>1, <2>3, <2>4, SetupMoves
<1>11. ASSUME NEW s \in Setups, NEW answer \in Answers, Download(s, answer)
      PROVE  OneAtATime'
  <2>1. UNCHANGED cpc /\ \A p \in Setups \ {s} : pc'[p] = pc[p]
    BY <1>11 DEF Download, Settle, workVars, cleanVars, TypeOK, WorkerType
  <2>2. Holding(s) <=> lock = s
    BY DEF OneAtATime, Parties
  <2>3. Holding(s)' <=> lock' = s
    BY <1>11, <2>2, MaintenanceAssumption DEF Holding, Download, Settle, workVars, cleanVars, TypeOK, WorkerType
  <2>4. lock' = lock \/ (lock' \in {s, "nobody", "abandoned"} /\ lock \in {s, "nobody", "abandoned"})
    BY <1>11, <2>2 DEF Holding, Download, Settle, workVars, cleanVars, TypeOK, WorkerType
  <2> QED
    BY <2>1, <2>3, <2>4, SetupMoves
<1>12. ASSUME NEW s \in Setups, NEW verdict \in Verdicts, Proof(s, verdict)
      PROVE  OneAtATime'
  <2>1. UNCHANGED cpc /\ \A p \in Setups \ {s} : pc'[p] = pc[p]
    BY <1>12 DEF Proof, Settle, workVars, cleanVars, TypeOK, WorkerType
  <2>2. Holding(s) <=> lock = s
    BY DEF OneAtATime, Parties
  <2>3. Holding(s)' <=> lock' = s
    BY <1>12, <2>2, MaintenanceAssumption DEF Holding, Proof, Settle, workVars, cleanVars, TypeOK, WorkerType
  <2>4. lock' = lock \/ (lock' \in {s, "nobody", "abandoned"} /\ lock \in {s, "nobody", "abandoned"})
    BY <1>12, <2>2 DEF Holding, Proof, Settle, workVars, cleanVars, TypeOK, WorkerType
  <2> QED
    BY <2>1, <2>3, <2>4, SetupMoves
<1>13. ASSUME NEW s \in Setups, RunInstaller(s)
      PROVE  OneAtATime'
  <2>1. UNCHANGED cpc /\ \A p \in Setups \ {s} : pc'[p] = pc[p]
    BY <1>13 DEF RunInstaller, Settle, workVars, cleanVars, TypeOK, WorkerType
  <2>2. Holding(s) <=> lock = s
    BY DEF OneAtATime, Parties
  <2>3. Holding(s)' <=> lock' = s
    BY <1>13, <2>2, MaintenanceAssumption DEF Holding, RunInstaller, Settle, workVars, cleanVars, TypeOK, WorkerType
  <2>4. lock' = lock \/ (lock' \in {s, "nobody", "abandoned"} /\ lock \in {s, "nobody", "abandoned"})
    BY <1>13, <2>2 DEF Holding, RunInstaller, Settle, workVars, cleanVars, TypeOK, WorkerType
  <2> QED
    BY <2>1, <2>3, <2>4, SetupMoves
<1>14. ASSUME NEW s \in Setups, Report(s)
      PROVE  OneAtATime'
  <2>1. UNCHANGED cpc /\ \A p \in Setups \ {s} : pc'[p] = pc[p]
    BY <1>14 DEF Report, Step, workVars, cleanVars, TypeOK, WorkerType
  <2>2. Holding(s) <=> lock = s
    BY DEF OneAtATime, Parties
  <2>3. Holding(s)' <=> lock' = s
    BY <1>14, <2>2, MaintenanceAssumption DEF Holding, Report, Step, workVars, cleanVars, TypeOK, WorkerType
  <2>4. lock' = lock \/ (lock' \in {s, "nobody", "abandoned"} /\ lock \in {s, "nobody", "abandoned"})
    BY <1>14, <2>2 DEF Holding, Report, Step, workVars, cleanVars, TypeOK, WorkerType
  <2> QED
    BY <2>1, <2>3, <2>4, SetupMoves
<1>15. ASSUME NEW s \in Setups, Write(s)
      PROVE  OneAtATime'
  <2>1. UNCHANGED cpc /\ \A p \in Setups \ {s} : pc'[p] = pc[p]
    BY <1>15 DEF Write, Step, workVars, cleanVars, TypeOK, WorkerType
  <2>2. Holding(s) <=> lock = s
    BY DEF OneAtATime, Parties
  <2>3. Holding(s)' <=> lock' = s
    BY <1>15, <2>2, MaintenanceAssumption DEF Holding, Write, Step, workVars, cleanVars, TypeOK, WorkerType
  <2>4. lock' = lock \/ (lock' \in {s, "nobody", "abandoned"} /\ lock \in {s, "nobody", "abandoned"})
    BY <1>15, <2>2 DEF Holding, Write, Step, workVars, cleanVars, TypeOK, WorkerType
  <2> QED
    BY <2>1, <2>3, <2>4, SetupMoves
<1>16. ASSUME NEW s \in Setups, WorkerKilled(s)
      PROVE  OneAtATime'
  <2>1. UNCHANGED cpc /\ \A p \in Setups \ {s} : pc'[p] = pc[p]
    BY <1>16 DEF WorkerKilled, workVars, cleanVars, TypeOK, WorkerType
  <2>2. Holding(s) <=> lock = s
    BY DEF OneAtATime, Parties
  <2>3. Holding(s)' <=> lock' = s
    BY <1>16, <2>2, MaintenanceAssumption DEF Holding, WorkerKilled, workVars, cleanVars, TypeOK, WorkerType
  <2>4. lock' = lock \/ (lock' \in {s, "nobody", "abandoned"} /\ lock \in {s, "nobody", "abandoned"})
    BY <1>16, <2>2 DEF Holding, WorkerKilled, workVars, cleanVars, TypeOK, WorkerType
  <2> QED
    BY <2>1, <2>3, <2>4, SetupMoves
<1>17. ASSUME NEW c \in Cleaners, Copy(c)
      PROVE  OneAtATime'
  <2>1. UNCHANGED pc /\ \A p \in Cleaners \ {c} : cpc'[p] = cpc[p]
    BY <1>17 DEF Copy, workVars, cleanVars, TypeOK, CleanerType
  <2>2. Holding(c) <=> lock = c
    BY DEF OneAtATime, Parties
  <2>3. Holding(c)' <=> lock' = c
    BY <1>17, <2>2, MaintenanceAssumption DEF Holding, Copy, workVars, cleanVars, TypeOK, CleanerType
  <2>4. lock' = lock \/ (lock' \in {c, "nobody", "abandoned"} /\ lock \in {c, "nobody", "abandoned"})
    BY <1>17, <2>2 DEF Holding, Copy, workVars, cleanVars, TypeOK, CleanerType
  <2> QED
    BY <2>1, <2>3, <2>4, CleanerMoves
<1>18. ASSUME NEW c \in Cleaners, Spawn(c)
      PROVE  OneAtATime'
  <2>1. UNCHANGED pc /\ \A p \in Cleaners \ {c} : cpc'[p] = cpc[p]
    BY <1>18 DEF Spawn, workVars, cleanVars, TypeOK, CleanerType
  <2>2. Holding(c) <=> lock = c
    BY DEF OneAtATime, Parties
  <2>3. Holding(c)' <=> lock' = c
    BY <1>18, <2>2, MaintenanceAssumption DEF Holding, Spawn, workVars, cleanVars, TypeOK, CleanerType
  <2>4. lock' = lock \/ (lock' \in {c, "nobody", "abandoned"} /\ lock \in {c, "nobody", "abandoned"})
    BY <1>18, <2>2 DEF Holding, Spawn, workVars, cleanVars, TypeOK, CleanerType
  <2> QED
    BY <2>1, <2>3, <2>4, CleanerMoves
<1>19. ASSUME NEW c \in Cleaners, SpawnFails(c)
      PROVE  OneAtATime'
  <2>1. UNCHANGED pc /\ \A p \in Cleaners \ {c} : cpc'[p] = cpc[p]
    BY <1>19 DEF SpawnFails, workVars, cleanVars, TypeOK, CleanerType
  <2>2. Holding(c) <=> lock = c
    BY DEF OneAtATime, Parties
  <2>3. Holding(c)' <=> lock' = c
    BY <1>19, <2>2, MaintenanceAssumption DEF Holding, SpawnFails, workVars, cleanVars, TypeOK, CleanerType
  <2>4. lock' = lock \/ (lock' \in {c, "nobody", "abandoned"} /\ lock \in {c, "nobody", "abandoned"})
    BY <1>19, <2>2 DEF Holding, SpawnFails, workVars, cleanVars, TypeOK, CleanerType
  <2> QED
    BY <2>1, <2>3, <2>4, CleanerMoves
<1>20. ASSUME NEW c \in Cleaners, CleanLock(c)
      PROVE  OneAtATime'
  <2>1. UNCHANGED pc /\ \A p \in Cleaners \ {c} : cpc'[p] = cpc[p]
    BY <1>20 DEF CleanLock, Leave, workVars, cleanVars, TypeOK, CleanerType
  <2>2. Holding(c) <=> lock = c
    BY DEF OneAtATime, Parties
  <2>3. Holding(c)' <=> lock' = c
    BY <1>20, <2>2, MaintenanceAssumption DEF Holding, Free, CleanLock, Leave, workVars, cleanVars, TypeOK, CleanerType
  <2>4. lock' = lock \/ (lock' \in {c, "nobody", "abandoned"} /\ lock \in {c, "nobody", "abandoned"})
    BY <1>20, <2>2 DEF Holding, Free, CleanLock, Leave, workVars, cleanVars, TypeOK, CleanerType
  <2> QED
    BY <2>1, <2>3, <2>4, CleanerMoves
<1>21. ASSUME NEW c \in Cleaners, CleanMatch(c)
      PROVE  OneAtATime'
  <2>1. UNCHANGED pc /\ \A p \in Cleaners \ {c} : cpc'[p] = cpc[p]
    BY <1>21 DEF CleanMatch, Leave, workVars, cleanVars, TypeOK, CleanerType
  <2>2. Holding(c) <=> lock = c
    BY DEF OneAtATime, Parties
  <2>3. Holding(c)' <=> lock' = c
    BY <1>21, <2>2, MaintenanceAssumption DEF Holding, CleanMatch, Leave, workVars, cleanVars, TypeOK, CleanerType
  <2>4. lock' = lock \/ (lock' \in {c, "nobody", "abandoned"} /\ lock \in {c, "nobody", "abandoned"})
    BY <1>21, <2>2 DEF Holding, CleanMatch, Leave, workVars, cleanVars, TypeOK, CleanerType
  <2> QED
    BY <2>1, <2>3, <2>4, CleanerMoves
<1>22. ASSUME NEW c \in Cleaners, CleanStop(c)
      PROVE  OneAtATime'
  <2>1. UNCHANGED pc /\ \A p \in Cleaners \ {c} : cpc'[p] = cpc[p]
    BY <1>22 DEF CleanStop, workVars, cleanVars, TypeOK, CleanerType
  <2>2. Holding(c) <=> lock = c
    BY DEF OneAtATime, Parties
  <2>3. Holding(c)' <=> lock' = c
    BY <1>22, <2>2, MaintenanceAssumption DEF Holding, CleanStop, workVars, cleanVars, TypeOK, CleanerType
  <2>4. lock' = lock \/ (lock' \in {c, "nobody", "abandoned"} /\ lock \in {c, "nobody", "abandoned"})
    BY <1>22, <2>2 DEF Holding, CleanStop, workVars, cleanVars, TypeOK, CleanerType
  <2> QED
    BY <2>1, <2>3, <2>4, CleanerMoves
<1>23. ASSUME NEW c \in Cleaners, CleanFails(c)
      PROVE  OneAtATime'
  <2>1. UNCHANGED pc /\ \A p \in Cleaners \ {c} : cpc'[p] = cpc[p]
    BY <1>23 DEF CleanFails, Leave, workVars, cleanVars, TypeOK, CleanerType
  <2>2. Holding(c) <=> lock = c
    BY DEF OneAtATime, Parties
  <2>3. Holding(c)' <=> lock' = c
    BY <1>23, <2>2, MaintenanceAssumption DEF Holding, CleanFails, Leave, workVars, cleanVars, TypeOK, CleanerType
  <2>4. lock' = lock \/ (lock' \in {c, "nobody", "abandoned"} /\ lock \in {c, "nobody", "abandoned"})
    BY <1>23, <2>2 DEF Holding, CleanFails, Leave, workVars, cleanVars, TypeOK, CleanerType
  <2> QED
    BY <2>1, <2>3, <2>4, CleanerMoves
<1>24. ASSUME NEW c \in Cleaners, CleanRemove(c)
      PROVE  OneAtATime'
  <2>1. UNCHANGED pc /\ \A p \in Cleaners \ {c} : cpc'[p] = cpc[p]
    BY <1>24 DEF CleanRemove, Leave, workVars, cleanVars, TypeOK, CleanerType
  <2>2. Holding(c) <=> lock = c
    BY DEF OneAtATime, Parties
  <2>3. Holding(c)' <=> lock' = c
    BY <1>24, <2>2, MaintenanceAssumption DEF Holding, CleanRemove, Leave, workVars, cleanVars, TypeOK, CleanerType
  <2>4. lock' = lock \/ (lock' \in {c, "nobody", "abandoned"} /\ lock \in {c, "nobody", "abandoned"})
    BY <1>24, <2>2 DEF Holding, CleanRemove, Leave, workVars, cleanVars, TypeOK, CleanerType
  <2> QED
    BY <2>1, <2>3, <2>4, CleanerMoves
<1>25. ASSUME NEW c \in Cleaners, Tidy(c)
      PROVE  OneAtATime'
  <2>1. UNCHANGED pc /\ \A p \in Cleaners \ {c} : cpc'[p] = cpc[p]
    BY <1>25 DEF Tidy, workVars, cleanVars, TypeOK, CleanerType
  <2>2. Holding(c) <=> lock = c
    BY DEF OneAtATime, Parties
  <2>3. Holding(c)' <=> lock' = c
    BY <1>25, <2>2, MaintenanceAssumption DEF Holding, Tidy, workVars, cleanVars, TypeOK, CleanerType
  <2>4. lock' = lock \/ (lock' \in {c, "nobody", "abandoned"} /\ lock \in {c, "nobody", "abandoned"})
    BY <1>25, <2>2 DEF Holding, Tidy, workVars, cleanVars, TypeOK, CleanerType
  <2> QED
    BY <2>1, <2>3, <2>4, CleanerMoves
<1>26. ASSUME NEW c \in Cleaners, TidyFails(c)
      PROVE  OneAtATime'
  <2>1. UNCHANGED pc /\ \A p \in Cleaners \ {c} : cpc'[p] = cpc[p]
    BY <1>26 DEF TidyFails, workVars, cleanVars, TypeOK, CleanerType
  <2>2. Holding(c) <=> lock = c
    BY DEF OneAtATime, Parties
  <2>3. Holding(c)' <=> lock' = c
    BY <1>26, <2>2, MaintenanceAssumption DEF Holding, TidyFails, workVars, cleanVars, TypeOK, CleanerType
  <2>4. lock' = lock \/ (lock' \in {c, "nobody", "abandoned"} /\ lock \in {c, "nobody", "abandoned"})
    BY <1>26, <2>2 DEF Holding, TidyFails, workVars, cleanVars, TypeOK, CleanerType
  <2> QED
    BY <2>1, <2>3, <2>4, CleanerMoves
<1>27. ASSUME NEW c \in Cleaners, CleanerKilled(c)
      PROVE  OneAtATime'
  <2>1. UNCHANGED pc /\ \A p \in Cleaners \ {c} : cpc'[p] = cpc[p]
    BY <1>27 DEF CleanerKilled, workVars, cleanVars, TypeOK, CleanerType
  <2>2. Holding(c) <=> lock = c
    BY DEF OneAtATime, Parties
  <2>3. Holding(c)' <=> lock' = c
    BY <1>27, <2>2, MaintenanceAssumption DEF Holding, CleanerKilled, workVars, cleanVars, TypeOK, CleanerType
  <2>4. lock' = lock \/ (lock' \in {c, "nobody", "abandoned"} /\ lock \in {c, "nobody", "abandoned"})
    BY <1>27, <2>2 DEF Holding, CleanerKilled, workVars, cleanVars, TypeOK, CleanerType
  <2> QED
    BY <2>1, <2>3, <2>4, CleanerMoves
<1>28. CASE UNCHANGED <<pc, cpc, lock>>
  BY <1>28 DEF OneAtATime, Holding
<1>29. ASSUME NEW s \in Setups, Window(s)
      PROVE  OneAtATime'
  BY <1>29, <1>28, <1>1, <1>2
     DEF Window, Begin, Tick, Cancel, Close, Back, OpenClient, WindowKilled,
         Gone, windowVars, workVars, worldVars, cleanVars
<1>30. ASSUME NEW c \in Cleaners, Cleaner(c)
      PROVE  OneAtATime'
  BY <1>30, <1>28, <1>17, <1>18, <1>19, <1>20, <1>21, <1>22, <1>23, <1>24,
     <1>25, <1>26
     DEF Cleaner, windowVars, workVars, worldVars, cleanVars
<1>31. ASSUME NEW s \in Setups, Worker(s)
      PROVE  OneAtATime'
  BY <1>31, <1>28, <1>3, <1>4, <1>5, <1>6, <1>7, <1>8, <1>9, <1>10, <1>11,
     <1>12, <1>13, <1>14, <1>15
     DEF Worker, Driver, windowVars, workVars, worldVars, cleanVars
<1> QED
  BY <1>16, <1>27, <1>28, <1>29, <1>30, <1>31
     DEF Next, vars, windowVars, workVars, worldVars, cleanVars, ClientStart,
         ClientExit, DialogOpen, DialogClose

(* A window that is not running a setup waits for no worker.                  *)
LEMMA WindowsWait == Spec => []Awaited
<1>1. Init => Awaited
  BY DEF Init, Awaited
<1>2. TypeOK /\ Awaited /\ [Next]_vars => Awaited'
  BY AwaitedStep
<1> QED
  BY <1>1, <1>2, TypeCorrect, PTL DEF Spec

(* At most one worker or copy is at work on the installation, and it is the  *)
(* one that holds the lock, however many there are and whoever is killed.   *)
THEOREM Exclusion == Spec => []OneAtATime
<1>1. Init => OneAtATime
  BY MaintenanceAssumption DEF Init, OneAtATime, Holding, Parties
<1>2. TypeOK /\ Awaited /\ OneAtATime /\ [Next]_vars => OneAtATime'
  BY OneAtATimeStep
<1> QED
  BY <1>1, <1>2, TypeCorrect, WindowsWait, PTL DEF Spec

-----------------------------------------------------------------------------
(* The installation that is removed.                                        *)

(* From the comparison on, a copy works on the installation it was given.   *)
Matched == \A c \in Cleaners : cpc[c] \in {"stop", "remove"} => installed = target[c]

(* Nobody replaces the installation while a copy that compared its identity works on it. *)
LEMMA MatchedStep ==
  ASSUME TypeOK, OneAtATime, Matched, [Next]_vars
  PROVE  Matched'
<1>1. ASSUME NEW s \in Setups, InstallFiles(s)
      PROVE  Matched'
  <2>1. Holding(s)
    BY <1>1, MaintenanceAssumption DEF InstallFiles, Step, Holding
  <2>2. \A d \in Cleaners : d # s => ~Holding(d)
    BY <2>1, MaintenanceAssumption DEF OneAtATime, Parties
  <2>3. \A d \in Cleaners : d # s => cpc[d] \notin {"stop", "remove"}
    BY <2>2, MaintenanceAssumption DEF Holding
  <2> QED
    BY <1>1, <2>3, MaintenanceAssumption
       DEF InstallFiles, Leave, cleanVars, Matched, TypeOK, CleanerType
<1>2. ASSUME NEW c \in Cleaners, Copy(c)
      PROVE  Matched'
  BY <1>2
     DEF Copy, CleanerType, Matched, TypeOK, worldVars, cleanVars
<1>3. ASSUME NEW c \in Cleaners, Spawn(c)
      PROVE  Matched'
  BY <1>3
     DEF Spawn, CleanerType, Matched, TypeOK, worldVars, cleanVars
<1>4. ASSUME NEW c \in Cleaners, SpawnFails(c)
      PROVE  Matched'
  BY <1>4
     DEF SpawnFails, CleanerType, Matched, TypeOK, worldVars, cleanVars
<1>5. ASSUME NEW c \in Cleaners, CleanLock(c)
      PROVE  Matched'
  BY <1>5
     DEF CleanLock, Leave, CleanerType, Matched, TypeOK, worldVars, cleanVars
<1>6. ASSUME NEW c \in Cleaners, CleanMatch(c)
      PROVE  Matched'
  BY <1>6
     DEF CleanMatch, Leave, CleanerType, Matched, TypeOK, worldVars, cleanVars
<1>7. ASSUME NEW c \in Cleaners, CleanStop(c)
      PROVE  Matched'
  BY <1>7
     DEF CleanStop, CleanerType, Matched, TypeOK, worldVars, cleanVars
<1>8. ASSUME NEW c \in Cleaners, CleanFails(c)
      PROVE  Matched'
  BY <1>8
     DEF CleanFails, Leave, CleanerType, Matched, TypeOK, worldVars, cleanVars
<1>9. ASSUME NEW c \in Cleaners, CleanRemove(c)
      PROVE  Matched'
  <2>1. Holding(c)
    BY <1>9, MaintenanceAssumption DEF CleanRemove, Step, Holding
  <2>2. \A d \in Cleaners : d # c => ~Holding(d)
    BY <2>1, MaintenanceAssumption DEF OneAtATime, Parties
  <2>3. \A d \in Cleaners : d # c => cpc[d] \notin {"stop", "remove"}
    BY <2>2, MaintenanceAssumption DEF Holding
  <2> QED
    BY <1>9, <2>3, MaintenanceAssumption
       DEF CleanRemove, Leave, cleanVars, Matched, TypeOK, CleanerType
<1>10. ASSUME NEW c \in Cleaners, Tidy(c)
      PROVE  Matched'
  BY <1>10
     DEF Tidy, CleanerType, Matched, TypeOK, worldVars, cleanVars
<1>11. ASSUME NEW c \in Cleaners, TidyFails(c)
      PROVE  Matched'
  BY <1>11
     DEF TidyFails, CleanerType, Matched, TypeOK, worldVars, cleanVars
<1>12. ASSUME NEW c \in Cleaners, CleanerKilled(c)
      PROVE  Matched'
  BY <1>12
     DEF CleanerKilled, CleanerType, Matched, TypeOK, worldVars, cleanVars
<1>13. CASE UNCHANGED <<cpc, target, installed>>
  BY <1>13 DEF Matched, TypeOK
<1>14. ASSUME NEW s \in Setups, Window(s)
      PROVE  Matched'
  BY <1>14, <1>13
     DEF Window, Begin, Consent, Return, Tick, Cancel, Close, Back, OpenClient,
         WindowKilled, Gone, windowVars, workVars, worldVars, cleanVars
<1> QED
  BY <1>1, <1>2, <1>3, <1>4, <1>5, <1>6, <1>7, <1>8, <1>9, <1>10, <1>11, <1>12,
     <1>13, <1>14
     DEF Next, vars, Worker, Driver, Cleaner, windowVars, workVars, worldVars,
         cleanVars, Verify, Lock, StepFails, Check, StopClient, MakeEntries,
         Detect, Download, Proof, RunInstaller, Report, Write, WorkerKilled,
         ClientStart, ClientExit, DialogOpen, DialogClose, Give, Settle, Step

(* An uninstaller removes the installation the user was asked about, never   *)
(* one that a setup has put in its place since.                             *)
THEOREM RemovesTheConfirmed == Spec => OnlyConfirmedIsRemoved
<1>1. Init => Matched
  BY DEF Init, Matched
<1>2. TypeOK /\ OneAtATime /\ Matched /\ [Next]_vars => Matched'
  BY MatchedStep
<1>3. Matched => \A c \in Cleaners :
                   cpc[c] = "remove" /\ installed' # installed => installed = target[c]
  BY DEF Matched
<1> QED
  BY <1>1, <1>2, <1>3, TypeCorrect, Exclusion, PTL DEF Spec, OnlyConfirmedIsRemoved

-----------------------------------------------------------------------------
(* The lock when its owner was killed.                                      *)

(* Who is refused found the lock neither free nor abandoned.                  *)
LEMMA RefusedAtTheLock ==
  ASSUME TypeOK, [Next]_vars
  PROVE  \A p \in Parties : Refused(p) => ~Free
<1>1. ASSUME NEW s \in Setups, Consent(s)
      PROVE  \A p \in Parties : Refused(p) => ~Free
  BY <1>1, MaintenanceAssumption
     DEF Consent, WorkerType, TypeOK, Refused, Parties, workVars, cleanVars
<1>2. ASSUME NEW s \in Setups, Return(s)
      PROVE  \A p \in Parties : Refused(p) => ~Free
  BY <1>2, MaintenanceAssumption
     DEF Return, WorkerType, TypeOK, Refused, Parties, workVars, cleanVars
<1>3. ASSUME NEW s \in Setups, Verify(s)
      PROVE  \A p \in Parties : Refused(p) => ~Free
  BY <1>3, MaintenanceAssumption
     DEF Verify, Step, WorkerType, TypeOK, Refused, Parties, workVars, cleanVars
<1>4. ASSUME NEW s \in Setups, Lock(s)
      PROVE  \A p \in Parties : Refused(p) => ~Free
  BY <1>4, MaintenanceAssumption
     DEF Lock, Give, WorkerType, TypeOK, Refused, Parties, workVars, cleanVars
<1>5. ASSUME NEW s \in Setups, StepFails(s)
      PROVE  \A p \in Parties : Refused(p) => ~Free
  BY <1>5, MaintenanceAssumption
     DEF StepFails, Give, WorkerType, TypeOK, Refused, Parties, workVars,
         cleanVars
<1>6. ASSUME NEW s \in Setups, Check(s)
      PROVE  \A p \in Parties : Refused(p) => ~Free
  BY <1>6, MaintenanceAssumption
     DEF Check, Give, WorkerType, TypeOK, Refused, Parties, workVars, cleanVars
<1>7. ASSUME NEW s \in Setups, StopClient(s)
      PROVE  \A p \in Parties : Refused(p) => ~Free
  BY <1>7, MaintenanceAssumption
     DEF StopClient, Give, WorkerType, TypeOK, Refused, Parties, workVars,
         cleanVars
<1>8. ASSUME NEW s \in Setups, InstallFiles(s)
      PROVE  \A p \in Parties : Refused(p) => ~Free
  BY <1>8, MaintenanceAssumption
     DEF InstallFiles, Step, WorkerType, TypeOK, Refused, Parties, workVars,
         cleanVars
<1>9. ASSUME NEW s \in Setups, MakeEntries(s)
      PROVE  \A p \in Parties : Refused(p) => ~Free
  BY <1>9, MaintenanceAssumption
     DEF MakeEntries, Step, WorkerType, TypeOK, Refused, Parties, workVars,
         cleanVars
<1>10. ASSUME NEW s \in Setups, Detect(s)
      PROVE  \A p \in Parties : Refused(p) => ~Free
  BY <1>10, MaintenanceAssumption
     DEF Detect, Settle, WorkerType, TypeOK, Refused, Parties, workVars,
         cleanVars
<1>11. ASSUME NEW s \in Setups, NEW answer \in Answers, Download(s, answer)
      PROVE  \A p \in Parties : Refused(p) => ~Free
  BY <1>11, MaintenanceAssumption
     DEF Download, Settle, WorkerType, TypeOK, Refused, Parties, workVars,
         cleanVars
<1>12. ASSUME NEW s \in Setups, NEW verdict \in Verdicts, Proof(s, verdict)
      PROVE  \A p \in Parties : Refused(p) => ~Free
  BY <1>12, MaintenanceAssumption
     DEF Proof, Settle, WorkerType, TypeOK, Refused, Parties, workVars,
         cleanVars
<1>13. ASSUME NEW s \in Setups, RunInstaller(s)
      PROVE  \A p \in Parties : Refused(p) => ~Free
  BY <1>13, MaintenanceAssumption
     DEF RunInstaller, Settle, WorkerType, TypeOK, Refused, Parties, workVars,
         cleanVars
<1>14. ASSUME NEW s \in Setups, Report(s)
      PROVE  \A p \in Parties : Refused(p) => ~Free
  BY <1>14, MaintenanceAssumption
     DEF Report, Step, WorkerType, TypeOK, Refused, Parties, workVars, cleanVars
<1>15. ASSUME NEW s \in Setups, Write(s)
      PROVE  \A p \in Parties : Refused(p) => ~Free
  BY <1>15, MaintenanceAssumption
     DEF Write, Step, WorkerType, TypeOK, Refused, Parties, workVars, cleanVars
<1>16. ASSUME NEW s \in Setups, WorkerKilled(s)
      PROVE  \A p \in Parties : Refused(p) => ~Free
  BY <1>16, MaintenanceAssumption
     DEF WorkerKilled, WorkerType, TypeOK, Refused, Parties, workVars, cleanVars
<1>17. ASSUME NEW c \in Cleaners, Copy(c)
      PROVE  \A p \in Parties : Refused(p) => ~Free
  BY <1>17, MaintenanceAssumption
     DEF Copy, CleanerType, TypeOK, Refused, Parties, workVars, cleanVars
<1>18. ASSUME NEW c \in Cleaners, Spawn(c)
      PROVE  \A p \in Parties : Refused(p) => ~Free
  BY <1>18, MaintenanceAssumption
     DEF Spawn, CleanerType, TypeOK, Refused, Parties, workVars, cleanVars
<1>19. ASSUME NEW c \in Cleaners, SpawnFails(c)
      PROVE  \A p \in Parties : Refused(p) => ~Free
  BY <1>19, MaintenanceAssumption
     DEF SpawnFails, CleanerType, TypeOK, Refused, Parties, workVars, cleanVars
<1>20. ASSUME NEW c \in Cleaners, CleanLock(c)
      PROVE  \A p \in Parties : Refused(p) => ~Free
  BY <1>20, MaintenanceAssumption
     DEF CleanLock, Leave, CleanerType, TypeOK, Refused, Parties, workVars,
         cleanVars
<1>21. ASSUME NEW c \in Cleaners, CleanMatch(c)
      PROVE  \A p \in Parties : Refused(p) => ~Free
  BY <1>21, MaintenanceAssumption
     DEF CleanMatch, Leave, CleanerType, TypeOK, Refused, Parties, workVars,
         cleanVars
<1>22. ASSUME NEW c \in Cleaners, CleanStop(c)
      PROVE  \A p \in Parties : Refused(p) => ~Free
  BY <1>22, MaintenanceAssumption
     DEF CleanStop, CleanerType, TypeOK, Refused, Parties, workVars, cleanVars
<1>23. ASSUME NEW c \in Cleaners, CleanFails(c)
      PROVE  \A p \in Parties : Refused(p) => ~Free
  BY <1>23, MaintenanceAssumption
     DEF CleanFails, Leave, CleanerType, TypeOK, Refused, Parties, workVars,
         cleanVars
<1>24. ASSUME NEW c \in Cleaners, CleanRemove(c)
      PROVE  \A p \in Parties : Refused(p) => ~Free
  BY <1>24, MaintenanceAssumption
     DEF CleanRemove, Leave, CleanerType, TypeOK, Refused, Parties, workVars,
         cleanVars
<1>25. ASSUME NEW c \in Cleaners, Tidy(c)
      PROVE  \A p \in Parties : Refused(p) => ~Free
  BY <1>25, MaintenanceAssumption
     DEF Tidy, CleanerType, TypeOK, Refused, Parties, workVars, cleanVars
<1>26. ASSUME NEW c \in Cleaners, TidyFails(c)
      PROVE  \A p \in Parties : Refused(p) => ~Free
  BY <1>26, MaintenanceAssumption
     DEF TidyFails, CleanerType, TypeOK, Refused, Parties, workVars, cleanVars
<1>27. ASSUME NEW c \in Cleaners, CleanerKilled(c)
      PROVE  \A p \in Parties : Refused(p) => ~Free
  BY <1>27, MaintenanceAssumption
     DEF CleanerKilled, CleanerType, TypeOK, Refused, Parties, workVars,
         cleanVars
<1>28. CASE UNCHANGED <<pc, cpc>>
  BY <1>28 DEF Refused, Parties
<1>29. ASSUME NEW s \in Setups, Window(s)
      PROVE  \A p \in Parties : Refused(p) => ~Free
  BY <1>29, <1>28, <1>1, <1>2
     DEF Window, Begin, Tick, Cancel, Close, Back, OpenClient, WindowKilled,
         Gone, windowVars, workVars, worldVars, cleanVars
<1>30. ASSUME NEW c \in Cleaners, Cleaner(c)
      PROVE  \A p \in Parties : Refused(p) => ~Free
  BY <1>30, <1>28, <1>17, <1>18, <1>19, <1>20, <1>21, <1>22, <1>23, <1>24,
     <1>25, <1>26
     DEF Cleaner, windowVars, workVars, worldVars, cleanVars
<1>31. ASSUME NEW s \in Setups, Worker(s)
      PROVE  \A p \in Parties : Refused(p) => ~Free
  BY <1>31, <1>28, <1>3, <1>4, <1>5, <1>6, <1>7, <1>8, <1>9, <1>10, <1>11,
     <1>12, <1>13, <1>14, <1>15
     DEF Worker, Driver, windowVars, workVars, worldVars, cleanVars
<1> QED
  BY <1>16, <1>27, <1>28, <1>29, <1>30, <1>31
     DEF Next, vars, windowVars, workVars, worldVars, cleanVars, ClientStart,
         ClientExit, DialogOpen, DialogClose

(* Whoever gives up at the lock does so because another one is at work: a    *)
(* worker or copy that was killed keeps nobody out.                         *)
THEOREM NobodyIsKeptOut == Spec => RefusedOnlyIfBusy
<1>1. ASSUME TypeOK, OneAtATime, ~Free
      PROVE  \E q \in Parties : Holding(q)
  BY <1>1 DEF TypeOK, CleanerType, OneAtATime, Free
<1>2. TypeOK /\ OneAtATime /\ [Next]_vars
        => \A p \in Parties : Refused(p) => \E q \in Parties : Holding(q)
  BY <1>1, RefusedAtTheLock
<1> QED
  BY <1>2, TypeCorrect, Exclusion, PTL DEF Spec, RefusedOnlyIfBusy
-----------------------------------------------------------------------------
(* What a window shows at the end.                                          *)

(* The driver is fetched only while there is none.                          *)
Lacking == \A s \in Setups : pc[s] \in {"download", "proof", "run"} => ~available

(* The driver does not become available behind a worker that fetches it.      *)
LEMMA LackingStep ==
  ASSUME TypeOK, OneAtATime, Lacking, [Next]_vars
  PROVE  Lacking'
<1>1. ASSUME NEW s \in Setups, Consent(s)
      PROVE  Lacking'
  BY <1>1
     DEF Consent, WorkerType, TypeOK, Lacking, workVars, worldVars
<1>2. ASSUME NEW s \in Setups, Return(s)
      PROVE  Lacking'
  BY <1>2
     DEF Return, WorkerType, TypeOK, Lacking, workVars, worldVars
<1>3. ASSUME NEW s \in Setups, Verify(s)
      PROVE  Lacking'
  BY <1>3
     DEF Verify, Step, WorkerType, TypeOK, Lacking, workVars, worldVars
<1>4. ASSUME NEW s \in Setups, Lock(s)
      PROVE  Lacking'
  BY <1>4
     DEF Lock, Give, WorkerType, TypeOK, Lacking, workVars, worldVars
<1>5. ASSUME NEW s \in Setups, StepFails(s)
      PROVE  Lacking'
  BY <1>5
     DEF StepFails, Give, WorkerType, TypeOK, Lacking, workVars, worldVars
<1>6. ASSUME NEW s \in Setups, Check(s)
      PROVE  Lacking'
  BY <1>6
     DEF Check, Give, WorkerType, TypeOK, Lacking, workVars, worldVars
<1>7. ASSUME NEW s \in Setups, StopClient(s)
      PROVE  Lacking'
  BY <1>7
     DEF StopClient, Give, WorkerType, TypeOK, Lacking, workVars, worldVars
<1>8. ASSUME NEW s \in Setups, InstallFiles(s)
      PROVE  Lacking'
  BY <1>8
     DEF InstallFiles, Step, WorkerType, TypeOK, Lacking, workVars, worldVars
<1>9. ASSUME NEW s \in Setups, MakeEntries(s)
      PROVE  Lacking'
  BY <1>9
     DEF MakeEntries, Step, WorkerType, TypeOK, Lacking, workVars, worldVars
<1>10. ASSUME NEW s \in Setups, Detect(s)
      PROVE  Lacking'
  BY <1>10
     DEF Detect, Settle, WorkerType, TypeOK, Lacking, workVars, worldVars
<1>11. ASSUME NEW s \in Setups, NEW answer \in Answers, Download(s, answer)
      PROVE  Lacking'
  BY <1>11
     DEF Download, Settle, WorkerType, TypeOK, Lacking, workVars, worldVars
<1>12. ASSUME NEW s \in Setups, NEW verdict \in Verdicts, Proof(s, verdict)
      PROVE  Lacking'
  BY <1>12
     DEF Proof, Settle, WorkerType, TypeOK, Lacking, workVars, worldVars
<1>13. ASSUME NEW s \in Setups, RunInstaller(s)
      PROVE  Lacking'
  <2>1. Holding(s)
    BY <1>13, MaintenanceAssumption DEF RunInstaller, Holding
  <2>2. \A p \in Setups : p # s => ~Holding(p)
    BY <2>1, MaintenanceAssumption DEF OneAtATime, Parties
  <2>3. \A p \in Setups : p # s => pc[p] \notin {"download", "proof", "run"}
    BY <2>2, MaintenanceAssumption DEF Holding
  <2>4. pc'[s] = "report" /\ \A p \in Setups : p # s => pc'[p] = pc[p]
    BY <1>13 DEF RunInstaller, Settle, TypeOK, WorkerType
  <2> QED
    BY <2>3, <2>4 DEF Lacking
<1>14. ASSUME NEW s \in Setups, Report(s)
      PROVE  Lacking'
  BY <1>14
     DEF Report, Step, WorkerType, TypeOK, Lacking, workVars, worldVars
<1>15. ASSUME NEW s \in Setups, Write(s)
      PROVE  Lacking'
  BY <1>15
     DEF Write, Step, WorkerType, TypeOK, Lacking, workVars, worldVars
<1>16. ASSUME NEW s \in Setups, WorkerKilled(s)
      PROVE  Lacking'
  BY <1>16
     DEF WorkerKilled, WorkerType, TypeOK, Lacking, workVars, worldVars
<1>17. CASE UNCHANGED <<pc, available>>
  BY <1>17 DEF Lacking
<1>18. ASSUME NEW s \in Setups, Window(s)
      PROVE  Lacking'
  BY <1>18, <1>17, <1>1, <1>2
     DEF Window, Begin, Tick, Cancel, Close, Back, OpenClient, WindowKilled,
         Gone, windowVars, workVars, worldVars, cleanVars
<1>19. ASSUME NEW c \in Cleaners, Cleaner(c)
      PROVE  Lacking'
  BY <1>19, <1>17
     DEF Cleaner, Copy, Spawn, SpawnFails, CleanLock, CleanMatch, CleanStop,
         CleanFails, CleanRemove, Tidy, TidyFails, Leave, windowVars, workVars,
         worldVars, cleanVars
<1>20. ASSUME NEW s \in Setups, Worker(s)
      PROVE  Lacking'
  BY <1>20, <1>17, <1>3, <1>4, <1>5, <1>6, <1>7, <1>8, <1>9, <1>10, <1>11,
     <1>12, <1>13, <1>14, <1>15
     DEF Worker, Driver, windowVars, workVars, worldVars, cleanVars
<1> QED
  BY <1>16, <1>17, <1>18, <1>19, <1>20
     DEF Next, vars, windowVars, workVars, worldVars, cleanVars, CleanerKilled,
         ClientStart, ClientExit, DialogOpen, DialogClose

(* The result on its way from the worker to the window.                     *)
True(s, r) == (r.ok => own[s] # 0) /\ (r.launch => available /\ ~r.reboot)

TruthOf(s) ==
  page[s] # "closed" =>
    /\ pc[s] \in {"entries", "detect", "download", "proof", "run", "report"} => own[s] # 0
    /\ pc[s] = "report" => (Ready(res[s].driver) => available)
    /\ pc[s] \in {"write", "exit0"} => True(s, res[s])
    /\ True(s, hand[s].result) /\ (hand[s].result.ok => pc[s] = "exit0" \/ waiter[s] = "ok")
    /\ True(s, shown[s]) /\ (shown[s].ok => page[s] = "finished")

Truth == \A s \in Setups : TruthOf(s)

(* What concerns one setup leaves the others' results true.                   *)
LEMMA TruthElsewhere ==
  ASSUME Truth, NEW s \in Setups, TruthOf(s)', available => available',
         \A p \in Setups \ {s} :
           /\ page'[p] = page[p] /\ shown'[p] = shown[p] /\ hand'[p] = hand[p]
           /\ pc'[p] = pc[p] /\ res'[p] = res[p] /\ own'[p] = own[p] /\ waiter'[p] = waiter[p]
  PROVE  Truth'
<1> SUFFICES ASSUME NEW p \in Setups \ {s}
             PROVE  TruthOf(p)'
  BY DEF Truth
<1> QED
  BY DEF Truth, TruthOf, True

(* The result of the driver step is true when it is settled.                  *)
LEMMA SettleTruth ==
  ASSUME TypeOK, Truth, NEW s \in Setups, NEW key \in Drivers, NEW again \in BOOLEAN,
         pc[s] \in {"detect", "download", "proof", "run"}, Settle(s, key, again),
         UNCHANGED <<page, shown, waiter, hand, own>>,
         Ready(key) => available', available => available'
  PROVE  TruthOf(s)'
<1>1. pc'[s] = "report" /\ res'[s].driver = key
  BY DEF Settle, TypeOK, WorkerType
<1> QED
  BY <1>1 DEF Truth, TruthOf, True

(* A worker that gives up promises nothing.                                   *)
LEMMA GiveTruth ==
  ASSUME TypeOK, Awaited, Truth, NEW s \in Setups, Give(s),
         pc[s] \in {"lock", "check", "stop", "files", "entries", "detect"},
         UNCHANGED <<page, shown, waiter, hand, available>>
  PROVE  TruthOf(s)'
<1>1. pc'[s] = "write" /\ ~res'[s].ok /\ ~res'[s].launch
  BY DEF Give, Failed, TypeOK, WorkerType
<1>2. page[s] # "closed" => ~shown[s].ok /\ ~hand[s].result.ok
  BY DEF Truth, TruthOf, Awaited
<1> QED
  BY <1>1, <1>2 DEF Truth, TruthOf, True

(* No step makes a result on its way to a window false.                       *)
LEMMA TruthStep ==
  ASSUME TypeOK, Awaited, Lacking, Truth, [Next]_vars
  PROVE  Truth'
<1>1. ASSUME NEW s \in Setups, NEW again \in BOOLEAN, Begin(s, again)
      PROVE  Truth'
  <2>1. \A p \in Setups \ {s} :
          /\ page'[p] = page[p] /\ shown'[p] = shown[p] /\ hand'[p] = hand[p]
          /\ pc'[p] = pc[p] /\ res'[p] = res[p] /\ own'[p] = own[p] /\ waiter'[p] = waiter[p]
    BY <1>1 DEF Begin, windowVars, workVars, worldVars, TypeOK, WindowType, WorkerType, WorldType
  <2>2. available => available'
    BY <1>1 DEF Begin, windowVars, workVars, worldVars
  <2>3. TruthOf(s)'
    <3>1. hand'[s].result = Missing
      BY <1>1 DEF Begin, NoHand, TypeOK, WindowType, WorkerType, WorldType
    <3>2. /\ page'[s] = "running" /\ shown'[s] = Missing /\ pc'[s] = "none"
      BY <1>1 DEF Begin, Awaited, windowVars, workVars, worldVars, TypeOK, WindowType, WorkerType, WorldType
    <3> QED
      BY <3>1, <3>2 DEF TruthOf, True, Missing, Failed
  <2> QED
    BY <2>1, <2>2, <2>3, TruthElsewhere
<1>2. ASSUME NEW s \in Setups, Consent(s)
      PROVE  Truth'
  <2>1. \A p \in Setups \ {s} :
          /\ page'[p] = page[p] /\ shown'[p] = shown[p] /\ hand'[p] = hand[p]
          /\ pc'[p] = pc[p] /\ res'[p] = res[p] /\ own'[p] = own[p] /\ waiter'[p] = waiter[p]
    BY <1>2 DEF Consent, windowVars, workVars, worldVars, TypeOK, WindowType, WorkerType, WorldType
  <2>2. available => available'
    BY <1>2 DEF Consent, windowVars, workVars, worldVars
  <2>3. TruthOf(s)'
    <3>1. pc'[s] \in {"verify", pc[s]}
      BY <1>2 DEF Consent, TypeOK, WindowType, WorkerType, WorldType
    <3>2. waiter[s] = "asking" /\ pc[s] \notin {"exit0"}
      BY <1>2 DEF Consent, Awaited
    <3> QED
      BY <1>2, <3>1, <3>2 DEF Consent, windowVars, workVars, worldVars, Truth, TruthOf, True, TypeOK, WindowType, WorkerType, WorldType, Awaited
  <2> QED
    BY <2>1, <2>2, <2>3, TruthElsewhere
<1>3. ASSUME NEW s \in Setups, Return(s)
      PROVE  Truth'
  <2>1. \A p \in Setups \ {s} :
          /\ page'[p] = page[p] /\ shown'[p] = shown[p] /\ hand'[p] = hand[p]
          /\ pc'[p] = pc[p] /\ res'[p] = res[p] /\ own'[p] = own[p] /\ waiter'[p] = waiter[p]
    BY <1>3 DEF Return, windowVars, workVars, worldVars, TypeOK, WindowType, WorkerType, WorldType
  <2>2. available => available'
    BY <1>3 DEF Return, windowVars, workVars, worldVars
  <2>3. TruthOf(s)'
    BY <1>3 DEF Return, windowVars, workVars, worldVars, Truth, TruthOf, True,
       TypeOK, WindowType, WorkerType, WorldType, Awaited, Missing, Failed, NoHand, Hands
  <2> QED
    BY <2>1, <2>2, <2>3, TruthElsewhere
<1>4. ASSUME NEW s \in Setups, Tick(s)
      PROVE  Truth'
  <2>1. \A p \in Setups \ {s} :
          /\ page'[p] = page[p] /\ shown'[p] = shown[p] /\ hand'[p] = hand[p]
          /\ pc'[p] = pc[p] /\ res'[p] = res[p] /\ own'[p] = own[p] /\ waiter'[p] = waiter[p]
    BY <1>4 DEF Tick, windowVars, workVars, worldVars, TypeOK, WindowType, WorkerType, WorldType
  <2>2. available => available'
    BY <1>4 DEF Tick, windowVars, workVars, worldVars
  <2>3. TruthOf(s)'
    BY <1>4 DEF Tick, windowVars, workVars, worldVars, Truth, TruthOf, True,
       TypeOK, WindowType, WorkerType, WorldType, Awaited, Missing, Failed, NoHand, Hands
  <2> QED
    BY <2>1, <2>2, <2>3, TruthElsewhere
<1>5. ASSUME NEW s \in Setups, Cancel(s)
      PROVE  Truth'
  <2>1. \A p \in Setups \ {s} :
          /\ page'[p] = page[p] /\ shown'[p] = shown[p] /\ hand'[p] = hand[p]
          /\ pc'[p] = pc[p] /\ res'[p] = res[p] /\ own'[p] = own[p] /\ waiter'[p] = waiter[p]
    BY <1>5 DEF Cancel, windowVars, workVars, worldVars, TypeOK, WindowType, WorkerType, WorldType
  <2>2. available => available'
    BY <1>5 DEF Cancel, windowVars, workVars, worldVars
  <2>3. TruthOf(s)'
    BY <1>5 DEF Cancel, windowVars, workVars, worldVars, Truth, TruthOf, True,
       TypeOK, WindowType, WorkerType, WorldType, Awaited, Missing, Failed, NoHand, Hands
  <2> QED
    BY <2>1, <2>2, <2>3, TruthElsewhere
<1>6. ASSUME NEW s \in Setups, Close(s)
      PROVE  Truth'
  <2>1. \A p \in Setups \ {s} :
          /\ page'[p] = page[p] /\ shown'[p] = shown[p] /\ hand'[p] = hand[p]
          /\ pc'[p] = pc[p] /\ res'[p] = res[p] /\ own'[p] = own[p] /\ waiter'[p] = waiter[p]
    BY <1>6 DEF Close, Gone, windowVars, workVars, worldVars, TypeOK, WindowType, WorkerType, WorldType
  <2>2. available => available'
    BY <1>6 DEF Close, Gone, windowVars, workVars, worldVars
  <2>3. TruthOf(s)'
    BY <1>6 DEF Close, Gone, windowVars, workVars, worldVars, Truth, TruthOf, True,
       TypeOK, WindowType, WorkerType, WorldType, Awaited, Missing, Failed, NoHand, Hands
  <2> QED
    BY <2>1, <2>2, <2>3, TruthElsewhere
<1>7. ASSUME NEW s \in Setups, Back(s)
      PROVE  Truth'
  <2>1. \A p \in Setups \ {s} :
          /\ page'[p] = page[p] /\ shown'[p] = shown[p] /\ hand'[p] = hand[p]
          /\ pc'[p] = pc[p] /\ res'[p] = res[p] /\ own'[p] = own[p] /\ waiter'[p] = waiter[p]
    BY <1>7 DEF Back, windowVars, workVars, worldVars, TypeOK, WindowType, WorkerType, WorldType
  <2>2. available => available'
    BY <1>7 DEF Back, windowVars, workVars, worldVars
  <2>3. TruthOf(s)'
    BY <1>7 DEF Back, windowVars, workVars, worldVars, Truth, TruthOf, True,
       TypeOK, WindowType, WorkerType, WorldType, Awaited, Missing, Failed, NoHand, Hands
  <2> QED
    BY <2>1, <2>2, <2>3, TruthElsewhere
<1>8. ASSUME NEW s \in Setups, OpenClient(s)
      PROVE  Truth'
  <2>1. \A p \in Setups \ {s} :
          /\ page'[p] = page[p] /\ shown'[p] = shown[p] /\ hand'[p] = hand[p]
          /\ pc'[p] = pc[p] /\ res'[p] = res[p] /\ own'[p] = own[p] /\ waiter'[p] = waiter[p]
    BY <1>8 DEF OpenClient, Gone, windowVars, workVars, worldVars, TypeOK, WindowType, WorkerType, WorldType
  <2>2. available => available'
    BY <1>8 DEF OpenClient, Gone, windowVars, workVars, worldVars
  <2>3. TruthOf(s)'
    BY <1>8 DEF OpenClient, Gone, windowVars, workVars, worldVars, Truth, TruthOf, True,
       TypeOK, WindowType, WorkerType, WorldType, Awaited, Missing, Failed, NoHand, Hands
  <2> QED
    BY <2>1, <2>2, <2>3, TruthElsewhere
<1>9. ASSUME NEW s \in Setups, WindowKilled(s)
      PROVE  Truth'
  <2>1. \A p \in Setups \ {s} :
          /\ page'[p] = page[p] /\ shown'[p] = shown[p] /\ hand'[p] = hand[p]
          /\ pc'[p] = pc[p] /\ res'[p] = res[p] /\ own'[p] = own[p] /\ waiter'[p] = waiter[p]
    BY <1>9 DEF WindowKilled, Gone, windowVars, workVars, worldVars, TypeOK, WindowType, WorkerType, WorldType
  <2>2. available => available'
    BY <1>9 DEF WindowKilled, Gone, windowVars, workVars, worldVars
  <2>3. TruthOf(s)'
    BY <1>9 DEF WindowKilled, Gone, windowVars, workVars, worldVars, Truth, TruthOf, True,
       TypeOK, WindowType, WorkerType, WorldType, Awaited, Missing, Failed, NoHand, Hands
  <2> QED
    BY <2>1, <2>2, <2>3, TruthElsewhere
<1>10. ASSUME NEW s \in Setups, Verify(s)
      PROVE  Truth'
  <2>1. \A p \in Setups \ {s} :
          /\ page'[p] = page[p] /\ shown'[p] = shown[p] /\ hand'[p] = hand[p]
          /\ pc'[p] = pc[p] /\ res'[p] = res[p] /\ own'[p] = own[p] /\ waiter'[p] = waiter[p]
    BY <1>10 DEF Verify, Step, windowVars, workVars, worldVars, TypeOK, WindowType, WorkerType, WorldType
  <2>2. available => available'
    BY <1>10 DEF Verify, Step, windowVars, workVars, worldVars
  <2>3. TruthOf(s)'
    BY <1>10 DEF Verify, Step, windowVars, workVars, worldVars, Truth, TruthOf, True,
       TypeOK, WindowType, WorkerType, WorldType, Awaited, Missing, Failed, NoHand, Hands
  <2> QED
    BY <2>1, <2>2, <2>3, TruthElsewhere
<1>11. ASSUME NEW s \in Setups, Lock(s)
      PROVE  Truth'
  <2>1. \A p \in Setups \ {s} :
          /\ page'[p] = page[p] /\ shown'[p] = shown[p] /\ hand'[p] = hand[p]
          /\ pc'[p] = pc[p] /\ res'[p] = res[p] /\ own'[p] = own[p] /\ waiter'[p] = waiter[p]
    BY <1>11 DEF Lock, Give, windowVars, workVars, worldVars, TypeOK, WindowType, WorkerType, WorldType
  <2>2. available => available'
    BY <1>11 DEF Lock, Give, windowVars, workVars, worldVars
  <2>3. TruthOf(s)'
    <3>1. CASE ~Free
      BY <1>11, <3>1, GiveTruth DEF Lock, windowVars, workVars, worldVars
    <3>2. CASE Free
      <4>1. pc'[s] = "check" /\ res' = res
        BY <1>11, <3>2 DEF Lock, TypeOK, WindowType, WorkerType, WorldType
      <4> QED
        BY <1>11, <3>2, <4>1 DEF Lock, windowVars, workVars, worldVars, Truth, TruthOf, True, Awaited
    <3> QED
      BY <3>1, <3>2
  <2> QED
    BY <2>1, <2>2, <2>3, TruthElsewhere
<1>12. ASSUME NEW s \in Setups, StepFails(s)
      PROVE  Truth'
  <2>1. \A p \in Setups \ {s} :
          /\ page'[p] = page[p] /\ shown'[p] = shown[p] /\ hand'[p] = hand[p]
          /\ pc'[p] = pc[p] /\ res'[p] = res[p] /\ own'[p] = own[p] /\ waiter'[p] = waiter[p]
    BY <1>12 DEF StepFails, Give, windowVars, workVars, worldVars, TypeOK, WindowType, WorkerType, WorldType
  <2>2. available => available'
    BY <1>12 DEF StepFails, Give, windowVars, workVars, worldVars
  <2>3. TruthOf(s)'
    BY <1>12 DEF StepFails, Give, windowVars, workVars, worldVars, Truth, TruthOf, True,
       TypeOK, WindowType, WorkerType, WorldType, Awaited, Missing, Failed, NoHand, Hands
  <2> QED
    BY <2>1, <2>2, <2>3, TruthElsewhere
<1>13. ASSUME NEW s \in Setups, Check(s)
      PROVE  Truth'
  <2>1. \A p \in Setups \ {s} :
          /\ page'[p] = page[p] /\ shown'[p] = shown[p] /\ hand'[p] = hand[p]
          /\ pc'[p] = pc[p] /\ res'[p] = res[p] /\ own'[p] = own[p] /\ waiter'[p] = waiter[p]
    BY <1>13 DEF Check, Give, windowVars, workVars, worldVars, TypeOK, WindowType, WorkerType, WorldType
  <2>2. available => available'
    BY <1>13 DEF Check, Give, windowVars, workVars, worldVars
  <2>3. TruthOf(s)'
    <3>1. CASE (hand[s].cancel \/ (hand[s].again /\ installed = 0))
      BY <1>13, <3>1, GiveTruth DEF Check, windowVars, workVars, worldVars
    <3>2. CASE ~(hand[s].cancel \/ (hand[s].again /\ installed = 0))
      <4>1. /\ res' = res /\ pc'[s] = IF hand[s].again THEN "detect" ELSE "stop"
            /\ hand[s].again => own'[s] # 0
        BY <1>13, <3>2 DEF Check, TypeOK, WindowType, WorkerType, WorldType
      <4>2. page[s] # "closed" => ~shown[s].ok /\ ~hand[s].result.ok
        BY <1>13 DEF Check, Truth, TruthOf, Awaited
      <4> QED
        BY <1>13, <4>1, <4>2 DEF Check, windowVars, workVars, worldVars, Truth, TruthOf, True
    <3> QED
      BY <3>1, <3>2
  <2> QED
    BY <2>1, <2>2, <2>3, TruthElsewhere
<1>14. ASSUME NEW s \in Setups, StopClient(s)
      PROVE  Truth'
  <2>1. \A p \in Setups \ {s} :
          /\ page'[p] = page[p] /\ shown'[p] = shown[p] /\ hand'[p] = hand[p]
          /\ pc'[p] = pc[p] /\ res'[p] = res[p] /\ own'[p] = own[p] /\ waiter'[p] = waiter[p]
    BY <1>14 DEF StopClient, Give, windowVars, workVars, worldVars, TypeOK, WindowType, WorkerType, WorldType
  <2>2. available => available'
    BY <1>14 DEF StopClient, Give, windowVars, workVars, worldVars
  <2>3. TruthOf(s)'
    <3>1. CASE hand[s].cancel
      BY <1>14, <3>1, GiveTruth DEF StopClient, windowVars, workVars, worldVars
    <3>2. CASE ~hand[s].cancel
      <4>1. pc'[s] = "files" /\ res' = res
        BY <1>14, <3>2 DEF StopClient, TypeOK, WindowType, WorkerType, WorldType
      <4> QED
        BY <1>14, <3>2, <4>1 DEF StopClient, windowVars, workVars, worldVars, Truth, TruthOf, True, Awaited
    <3> QED
      BY <3>1, <3>2
  <2> QED
    BY <2>1, <2>2, <2>3, TruthElsewhere
<1>15. ASSUME NEW s \in Setups, InstallFiles(s)
      PROVE  Truth'
  <2>1. \A p \in Setups \ {s} :
          /\ page'[p] = page[p] /\ shown'[p] = shown[p] /\ hand'[p] = hand[p]
          /\ pc'[p] = pc[p] /\ res'[p] = res[p] /\ own'[p] = own[p] /\ waiter'[p] = waiter[p]
    BY <1>15 DEF InstallFiles, Step, windowVars, workVars, worldVars, TypeOK, WindowType, WorkerType, WorldType
  <2>2. available => available'
    BY <1>15 DEF InstallFiles, Step, windowVars, workVars, worldVars
  <2>3. TruthOf(s)'
    BY <1>15 DEF InstallFiles, Step, windowVars, workVars, worldVars, Truth, TruthOf, True,
       TypeOK, WindowType, WorkerType, WorldType, Awaited, Missing, Failed, NoHand, Hands
  <2> QED
    BY <2>1, <2>2, <2>3, TruthElsewhere
<1>16. ASSUME NEW s \in Setups, MakeEntries(s)
      PROVE  Truth'
  <2>1. \A p \in Setups \ {s} :
          /\ page'[p] = page[p] /\ shown'[p] = shown[p] /\ hand'[p] = hand[p]
          /\ pc'[p] = pc[p] /\ res'[p] = res[p] /\ own'[p] = own[p] /\ waiter'[p] = waiter[p]
    BY <1>16 DEF MakeEntries, Step, windowVars, workVars, worldVars, TypeOK, WindowType, WorkerType, WorldType
  <2>2. available => available'
    BY <1>16 DEF MakeEntries, Step, windowVars, workVars, worldVars
  <2>3. TruthOf(s)'
    BY <1>16 DEF MakeEntries, Step, windowVars, workVars, worldVars, Truth, TruthOf, True,
       TypeOK, WindowType, WorkerType, WorldType, Awaited, Missing, Failed, NoHand, Hands
  <2> QED
    BY <2>1, <2>2, <2>3, TruthElsewhere
<1>17. ASSUME NEW s \in Setups, Detect(s)
      PROVE  Truth'
  <2>1. \A p \in Setups \ {s} :
          /\ page'[p] = page[p] /\ shown'[p] = shown[p] /\ hand'[p] = hand[p]
          /\ pc'[p] = pc[p] /\ res'[p] = res[p] /\ own'[p] = own[p] /\ waiter'[p] = waiter[p]
    BY <1>17 DEF Detect, Settle, windowVars, workVars, worldVars, TypeOK, WindowType, WorkerType, WorldType
  <2>2. available => available'
    BY <1>17 DEF Detect, Settle, windowVars, workVars, worldVars
  <2>3. TruthOf(s)'
    <3>1. CASE available
      <4>1. Settle(s, "available", FALSE)
        BY <1>17, <3>1 DEF Detect
      <4> QED
        BY <1>17, <2>2, <3>1, <4>1, SettleTruth DEF Detect, Drivers, Ready, windowVars, workVars, worldVars
    <3>2. CASE ~available /\ hand[s].cancel
      <4>1. Settle(s, "cancelled", FALSE)
        BY <1>17, <3>2 DEF Detect
      <4> QED
        BY <1>17, <2>2, <3>2, <4>1, SettleTruth DEF Detect, Drivers, Ready, windowVars, workVars, worldVars
    <3>3. CASE ~available /\ ~hand[s].cancel
      <4>1. pc'[s] = "download" /\ res' = res
        BY <1>17, <3>3 DEF Detect, TypeOK, WindowType, WorkerType, WorldType
      <4> QED
        BY <1>17, <3>3, <4>1 DEF Detect, windowVars, workVars, worldVars, Truth, TruthOf, True, Awaited
    <3> QED
      BY <3>1, <3>2, <3>3
  <2> QED
    BY <2>1, <2>2, <2>3, TruthElsewhere
<1>18. ASSUME NEW s \in Setups, NEW answer \in Answers, Download(s, answer)
      PROVE  Truth'
  <2>1. \A p \in Setups \ {s} :
          /\ page'[p] = page[p] /\ shown'[p] = shown[p] /\ hand'[p] = hand[p]
          /\ pc'[p] = pc[p] /\ res'[p] = res[p] /\ own'[p] = own[p] /\ waiter'[p] = waiter[p]
    BY <1>18 DEF Download, Settle, windowVars, workVars, worldVars, TypeOK, WindowType, WorkerType, WorldType
  <2>2. available => available'
    BY <1>18 DEF Download, Settle, windowVars, workVars, worldVars
  <2>3. TruthOf(s)'
    <3>1. CASE hand[s].cancel
      <4>1. Settle(s, "cancelled", FALSE)
        BY <1>18, <3>1 DEF Download
      <4> QED
        BY <1>18, <2>2, <3>1, <4>1, SettleTruth DEF Download, Drivers, Ready, windowVars, workVars, worldVars
    <3>2. CASE ~hand[s].cancel /\ answer # "complete" /\ url[s] = Urls
      <4>1. Settle(s, "download-failed", FALSE)
        BY <1>18, <3>2 DEF Download
      <4> QED
        BY <1>18, <2>2, <3>2, <4>1, SettleTruth DEF Download, Drivers, Ready, windowVars, workVars, worldVars
    <3>3. CASE ~hand[s].cancel /\ answer = "complete"
      <4>1. pc'[s] = "proof" /\ res' = res
        BY <1>18, <3>3 DEF Download, TypeOK, WindowType, WorkerType, WorldType
      <4> QED
        BY <1>18, <3>3, <4>1 DEF Download, windowVars, workVars, worldVars, Truth, TruthOf, True, Awaited
    <3>4. CASE ~hand[s].cancel /\ answer # "complete" /\ url[s] # Urls
      <4>1. pc'[s] = "download" /\ res' = res
        BY <1>18, <3>4 DEF Download, TypeOK, WindowType, WorkerType, WorldType
      <4> QED
        BY <1>18, <3>4, <4>1 DEF Download, windowVars, workVars, worldVars, Truth, TruthOf, True, Awaited
    <3> QED
      BY <3>1, <3>2, <3>3, <3>4
  <2> QED
    BY <2>1, <2>2, <2>3, TruthElsewhere
<1>19. ASSUME NEW s \in Setups, NEW verdict \in Verdicts, Proof(s, verdict)
      PROVE  Truth'
  <2>1. \A p \in Setups \ {s} :
          /\ page'[p] = page[p] /\ shown'[p] = shown[p] /\ hand'[p] = hand[p]
          /\ pc'[p] = pc[p] /\ res'[p] = res[p] /\ own'[p] = own[p] /\ waiter'[p] = waiter[p]
    BY <1>19 DEF Proof, Settle, windowVars, workVars, worldVars, TypeOK, WindowType, WorkerType, WorldType
  <2>2. available => available'
    BY <1>19 DEF Proof, Settle, windowVars, workVars, worldVars
  <2>3. TruthOf(s)'
    <3>1. CASE verdict # "trusted"
      <4>1. Settle(s, "verification-failed", FALSE)
        BY <1>19, <3>1 DEF Proof
      <4> QED
        BY <1>19, <2>2, <3>1, <4>1, SettleTruth DEF Proof, Drivers, Ready, windowVars, workVars, worldVars
    <3>2. CASE verdict = "trusted" /\ hand[s].cancel
      <4>1. Settle(s, "cancelled", FALSE)
        BY <1>19, <3>2 DEF Proof
      <4> QED
        BY <1>19, <2>2, <3>2, <4>1, SettleTruth DEF Proof, Drivers, Ready, windowVars, workVars, worldVars
    <3>3. CASE verdict = "trusted" /\ ~hand[s].cancel
      <4>1. pc'[s] = "run" /\ res' = res
        BY <1>19, <3>3 DEF Proof, TypeOK, WindowType, WorkerType, WorldType
      <4> QED
        BY <1>19, <3>3, <4>1 DEF Proof, windowVars, workVars, worldVars, Truth, TruthOf, True, Awaited
    <3> QED
      BY <3>1, <3>2, <3>3
  <2> QED
    BY <2>1, <2>2, <2>3, TruthElsewhere
<1>20. ASSUME NEW s \in Setups, RunInstaller(s)
      PROVE  Truth'
  <2>1. \A p \in Setups \ {s} :
          /\ page'[p] = page[p] /\ shown'[p] = shown[p] /\ hand'[p] = hand[p]
          /\ pc'[p] = pc[p] /\ res'[p] = res[p] /\ own'[p] = own[p] /\ waiter'[p] = waiter[p]
    BY <1>20 DEF RunInstaller, Settle, windowVars, workVars, worldVars, TypeOK, WindowType, WorkerType, WorldType
  <2>2. available => available'
    BY <1>20 DEF RunInstaller, Settle, windowVars, workVars, worldVars, Lacking
  <2>3. TruthOf(s)'
    <3>1. PICK code \in Codes, works \in BOOLEAN :
            /\ available' = works
            /\ Settle(s, Outcome(code, works), NeedsReboot(FromCode(code)))
      BY <1>20 DEF RunInstaller
    <3>2. Ready(Outcome(code, works)) => works
      BY DEF Ready, Outcome, FromCode, NeedsReboot, Codes
    <3> QED
      BY <1>20, <2>2, <3>1, <3>2, OutcomeType, SettleTruth DEF RunInstaller, windowVars, workVars, worldVars
  <2> QED
    BY <2>1, <2>2, <2>3, TruthElsewhere
<1>21. ASSUME NEW s \in Setups, Report(s)
      PROVE  Truth'
  <2>1. \A p \in Setups \ {s} :
          /\ page'[p] = page[p] /\ shown'[p] = shown[p] /\ hand'[p] = hand[p]
          /\ pc'[p] = pc[p] /\ res'[p] = res[p] /\ own'[p] = own[p] /\ waiter'[p] = waiter[p]
    BY <1>21 DEF Report, Step, windowVars, workVars, worldVars, TypeOK, WindowType, WorkerType, WorldType
  <2>2. available => available'
    BY <1>21 DEF Report, Step, windowVars, workVars, worldVars
  <2>3. TruthOf(s)'
    <3>1. /\ pc[s] = "report" /\ pc'[s] = "write"
          /\ res'[s].ok = res[s].ok /\ res'[s].reboot = res[s].reboot
          /\ res'[s].launch => Ready(res[s].driver) /\ ~res[s].reboot
      BY <1>21 DEF Report, Step, TypeOK, WindowType, WorkerType, WorldType, Result
    <3> QED
      BY <1>21, <3>1 DEF Report, windowVars, workVars, worldVars, Truth, TruthOf, True
  <2> QED
    BY <2>1, <2>2, <2>3, TruthElsewhere
<1>22. ASSUME NEW s \in Setups, Write(s)
      PROVE  Truth'
  <2>1. \A p \in Setups \ {s} :
          /\ page'[p] = page[p] /\ shown'[p] = shown[p] /\ hand'[p] = hand[p]
          /\ pc'[p] = pc[p] /\ res'[p] = res[p] /\ own'[p] = own[p] /\ waiter'[p] = waiter[p]
    BY <1>22 DEF Write, Step, windowVars, workVars, worldVars, TypeOK, WindowType, WorkerType, WorldType
  <2>2. available => available'
    BY <1>22 DEF Write, Step, windowVars, workVars, worldVars
  <2>3. TruthOf(s)'
    BY <1>22 DEF Write, Step, windowVars, workVars, worldVars, Truth, TruthOf, True,
       TypeOK, WindowType, WorkerType, WorldType, Awaited, Missing, Failed, NoHand, Hands
  <2> QED
    BY <2>1, <2>2, <2>3, TruthElsewhere
<1>23. ASSUME NEW s \in Setups, WorkerKilled(s)
      PROVE  Truth'
  <2>1. \A p \in Setups \ {s} :
          /\ page'[p] = page[p] /\ shown'[p] = shown[p] /\ hand'[p] = hand[p]
          /\ pc'[p] = pc[p] /\ res'[p] = res[p] /\ own'[p] = own[p] /\ waiter'[p] = waiter[p]
    BY <1>23 DEF WorkerKilled, windowVars, workVars, worldVars, TypeOK, WindowType, WorkerType, WorldType
  <2>2. available => available'
    BY <1>23 DEF WorkerKilled, windowVars, workVars, worldVars
  <2>3. TruthOf(s)'
    <3>1. pc'[s] = "exit1"
      BY <1>23 DEF WorkerKilled, TypeOK, WindowType, WorkerType, WorldType
    <3> QED
      BY <1>23, <3>1 DEF WorkerKilled, windowVars, workVars, worldVars, Truth, TruthOf, True, Live, Awaited
  <2> QED
    BY <2>1, <2>2, <2>3, TruthElsewhere
<1>24. CASE UNCHANGED <<page, shown, waiter, hand, pc, res, available, own>>
  BY <1>24 DEF Truth, TruthOf, True
<1>25. ASSUME NEW s \in Setups, Window(s)
      PROVE  Truth'
  BY <1>25, <1>24, <1>1, <1>2, <1>3, <1>4, <1>5, <1>6, <1>7, <1>8, <1>9
     DEF Window, windowVars, workVars, worldVars, cleanVars
<1>26. ASSUME NEW c \in Cleaners, Cleaner(c)
      PROVE  Truth'
  BY <1>26, <1>24
     DEF Cleaner, Copy, Spawn, SpawnFails, CleanLock, CleanMatch, CleanStop,
         CleanFails, CleanRemove, Tidy, TidyFails, Leave, windowVars, workVars,
         worldVars, cleanVars
<1>27. ASSUME NEW s \in Setups, Worker(s)
      PROVE  Truth'
  BY <1>27, <1>24, <1>10, <1>11, <1>12, <1>13, <1>14, <1>15, <1>16, <1>17,
     <1>18, <1>19, <1>20, <1>21, <1>22
     DEF Worker, Driver, windowVars, workVars, worldVars, cleanVars
<1> QED
  BY <1>23, <1>24, <1>25, <1>26, <1>27
     DEF Next, vars, windowVars, workVars, worldVars, cleanVars, CleanerKilled,
         ClientStart, ClientExit, DialogOpen, DialogClose

(* Whatever else goes on, a window ends on the truth about its own run: what  *)
(* it calls installed it has installed, and it offers the client only with a *)
(* driver that is there.                                                    *)
THEOREM WindowsTellTheTruth == Spec => []ResultIsTrue
<1>1. Init => Lacking /\ Truth
  <2> SUFFICES ASSUME Init PROVE Lacking /\ Truth
    OBVIOUS
  <2>1. Lacking
    BY DEF Init, Lacking
  <2>2. Truth
    BY DEF Init, Truth, TruthOf, True, NoHand, Missing, Failed
  <2> QED
    BY <2>1, <2>2
<1>2. TypeOK /\ OneAtATime /\ Lacking /\ [Next]_vars => Lacking'
  BY LackingStep
<1>3. TypeOK /\ Awaited /\ Lacking /\ Truth /\ [Next]_vars => Truth'
  BY TruthStep
<1>4. Truth => ResultIsTrue
  BY DEF Truth, TruthOf, True, ResultIsTrue
<1> QED
  BY <1>1, <1>2, <1>3, <1>4, TypeCorrect, Exclusion, WindowsWait, PTL DEF Spec
===============================================================================
