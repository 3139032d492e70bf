---------------------------- MODULE MonitorProofs ----------------------------
(***************************************************************************)
(* What the monitor hears and what it makes of it.                         *)
(*                                                                         *)
(* ConnectControl for all delays, limits and bounds.  First what does not  *)
(* depend on the log: a core is held only while it is wanted, and only so  *)
(* often launched in a row.  Then the monitor: a core that shows no sign   *)
(* of UDP is restarted in time, and one that does is left alone, whatever  *)
(* lines are read in whatever batches.                                     *)
(*                                                                         *)
(* LogTail for all lines, lengths and limits: the lines that are read are  *)
(* whole, of this launch, in their order, and none comes twice.            *)
(***************************************************************************)
EXTENDS ConnectControl, LogTail, FiniteSetTheorems, SequenceTheorems, WellFoundedInduction, TLAPS

-----------------------------------------------------------------------------
(* ConnectControl.                                                          *)

(* A backoff counts failures up to the cooldown.                           *)
BackoffOK(b) ==
  b \in [failures : 0 .. MaxFailures, launches : {b.launches}, next : Nat, cool : Nat]

(* A pause and a wish exclude each other, and without a wish the window    *)
(* shows neither a connection nor an attempt.  A core that has ended may   *)
(* still be held without a wish, until the timer drops it.                 *)
WishOK ==
  /\ core \in {"none", "running", "dead"}
  /\ desired \in BOOLEAN /\ pause \in BOOLEAN
  /\ desired => ~pause
  /\ core = "running" => desired
  /\ ~desired => link \in {"Offline", "Error"}

(* Each launch in a row but the last has failed; in a cooldown none runs.  *)
BudgetOK ==
  /\ BackoffOK(backoff)
  /\ burst \in 0 .. MaxFailures + 1
  /\ core = "running" => backoff.cool = 0
  /\ backoff.cool = 0 =>
       burst <= IF core = "none" \/ ~desired THEN backoff.failures ELSE backoff.failures + 1

(* The first invariant.                                                    *)
Controlled == WishOK /\ BudgetOK

-----------------------------------------------------------------------------
(* The backoff.                                                            *)

(* The limits count.                                                       *)
LEMMA Limits == MaxFailures \in Nat \ {0} /\ Cooldown \in Nat \ {0}
BY ReconnectAssumption

(* A backoff with new times is one.                                        *)
LEMMA TimesOK ==
  ASSUME NEW b, BackoffOK(b), NEW next \in Nat, NEW cool \in Nat
  PROVE  /\ BackoffOK([b EXCEPT !.next = next, !.cool = cool])
         /\ [b EXCEPT !.next = next, !.cool = cool].failures = b.failures
         /\ [b EXCEPT !.next = next, !.cool = cool].cool = cool
BY DEF BackoffOK

(* A fresh backoff has no failures.                                        *)
LEMMA FreshOK == BackoffOK(Fresh) /\ Fresh.failures = 0 /\ Fresh.cool = 0
BY ReconnectAssumption DEF BackoffOK, Fresh

(* A launch changes only the list of launches.                             *)
LEMMA LaunchOK ==
  ASSUME NEW b, BackoffOK(b)
  PROVE  /\ BackoffOK(RecordLaunch(b))
         /\ RecordLaunch(b).failures = b.failures /\ RecordLaunch(b).cool = b.cool
<1>1. PICK l : RecordLaunch(b) = [b EXCEPT !.launches = l]
  BY DEF RecordLaunch
<1> QED
  BY <1>1 DEF BackoffOK

(* The wait after a failure is one of the delays.                          *)
LEMMA DelayOK == ASSUME NEW n \in Nat \ {0} PROVE Delay(n) \in Nat
BY ReconnectAssumption DEF Delay

(* A failure is counted, or starts the cooldown.                           *)
LEMMA FailureOK ==
  ASSUME NEW b, BackoffOK(b)
  PROVE  /\ BackoffOK(RecordFailure(b))
         /\ \/ RecordFailure(b).failures = b.failures + 1 /\ RecordFailure(b).cool = b.cool
            \/ RecordFailure(b).failures = 0 /\ RecordFailure(b).cool # 0
<1> DEFINE failures == b.failures + 1
           launches == Recent(b.launches)
           r == RecordFailure(b)
<1>1. CASE failures > MaxFailures \/ Len(launches) > MaxLaunches
  <2>1. r = [Fresh EXCEPT !.next = Cooldown, !.cool = Cooldown]
    BY <1>1 DEF RecordFailure
  <2>2. /\ BackoffOK([Fresh EXCEPT !.next = Cooldown, !.cool = Cooldown])
        /\ [Fresh EXCEPT !.next = Cooldown, !.cool = Cooldown].failures = 0
        /\ [Fresh EXCEPT !.next = Cooldown, !.cool = Cooldown].cool # 0
    BY FreshOK, TimesOK, Limits
  <2> QED
    BY <2>1, <2>2
<1>2. CASE ~(failures > MaxFailures \/ Len(launches) > MaxLaunches)
  <2>1. r = [b EXCEPT !.failures = failures, !.launches = launches,
                      !.next = Delay(failures)]
    BY <1>2 DEF RecordFailure
  <2>2. failures \in Nat \ {0} /\ failures \in 0 .. MaxFailures
    BY <1>2, ReconnectAssumption DEF BackoffOK
  <2>3. Delay(failures) \in Nat
    BY <2>2, DelayOK
  <2> HIDE DEF failures, launches, r
  <2>4. BackoffOK(r) /\ r.failures = failures /\ r.cool = b.cool
    BY <2>1, <2>2, <2>3 DEF BackoffOK
  <2> QED
    BY <2>4 DEF failures, r
<1> QED
  BY <1>1, <1>2

(* Time brings the cooldown nearer to its end and leaves the failures.     *)
LEMMA LaterOK ==
  ASSUME NEW b, BackoffOK(b)
  PROVE  /\ BackoffOK(BackoffLater(b))
         /\ BackoffLater(b).failures = b.failures
         /\ BackoffLater(b).cool = Sooner(b.cool)
<1>1. PICK l : BackoffLater(b) = [b EXCEPT !.launches = l, !.next = Sooner(@), !.cool = Sooner(@)]
  BY DEF BackoffLater
<1>2. Sooner(b.next) \in Nat /\ Sooner(b.cool) \in Nat
  BY DEF BackoffOK, Sooner
<1> QED
  BY <1>1, <1>2 DEF BackoffOK

-----------------------------------------------------------------------------
(* The steps.                                                              *)

(* The beginning.                                                          *)
LEMMA Begins == Init => Controlled
<1> SUFFICES ASSUME Init PROVE Controlled
  OBVIOUS
<1>1. WishOK
  BY DEF Init, WishOK
<1>2. BudgetOK
  BY FreshOK, Limits DEF Init, BudgetOK
<1> QED
  BY <1>1, <1>2 DEF Controlled

(* An attempt to start, from a backoff that allows one and with no more    *)
(* launches behind it than failures.                                       *)
LEMMA AttemptKeeps ==
  ASSUME NEW b, BackoffOK(b), b.cool = 0,
         NEW n \in Nat, n <= b.failures,
         core \in {"none", "dead"}, pause' = FALSE,
         NoAdapter(b, n) \/ SameNameRunning(b, n) \/ Spawn(b, n) \/ SpawnFails(b, n)
  PROVE  Controlled'
<1> USE DEF Controlled
<1>0. b.failures \in 0 .. MaxFailures
  BY DEF BackoffOK
<1>1. CASE NoAdapter(b, n)
  <2>1. WishOK'
    BY <1>1 DEF NoAdapter, WishOK
  <2>2. BudgetOK'
    BY <1>0, <1>1, Limits DEF NoAdapter, BudgetOK
  <2> QED
    BY <2>1, <2>2
<1>2. CASE SameNameRunning(b, n)
  <2>1. WishOK'
    BY <1>2 DEF SameNameRunning, WishOK
  <2>2. BudgetOK'
    BY <1>0, <1>2, Limits DEF SameNameRunning, BudgetOK
  <2> QED
    BY <2>1, <2>2
<1>3. CASE Spawn(b, n)
  <2>1. BackoffOK(backoff') /\ backoff'.failures = b.failures /\ backoff'.cool = 0
    BY <1>3, LaunchOK DEF Spawn
  <2>2. WishOK'
    BY <1>3 DEF Spawn, WishOK
  <2>3. BudgetOK'
    BY <1>0, <1>3, <2>1, Limits DEF Spawn, BudgetOK
  <2> QED
    BY <2>2, <2>3
<1>4. CASE SpawnFails(b, n)
  <2>1. /\ BackoffOK(backoff')
        /\ \/ backoff'.failures = b.failures + 1 /\ backoff'.cool = 0
           \/ backoff'.failures = 0 /\ backoff'.cool # 0
    <3> DEFINE l == RecordLaunch(b)
    <3>1. BackoffOK(l) /\ l.failures = b.failures /\ l.cool = b.cool
      BY LaunchOK
    <3> HIDE DEF l
    <3>2. /\ BackoffOK(RecordFailure(l))
          /\ \/ RecordFailure(l).failures = l.failures + 1 /\ RecordFailure(l).cool = l.cool
             \/ RecordFailure(l).failures = 0 /\ RecordFailure(l).cool # 0
      BY <3>1, FailureOK
    <3> QED
      BY <1>4, <3>1, <3>2 DEF SpawnFails, l
  <2>2. WishOK'
    BY <1>4 DEF SpawnFails, WishOK
  <2>3. BudgetOK'
    BY <1>0, <1>4, <2>1, Limits DEF SpawnFails, BudgetOK
  <2> QED
    BY <2>2, <2>3
<1> QED
  BY <1>1, <1>2, <1>3, <1>4

(* A failure in a row of launches that has room for the one that failed.   *)
LEMMA FailureKeeps ==
  ASSUME NEW b, BackoffOK(b), WishOK', core' = "none", backoff' = RecordFailure(b),
         burst' \in 0 .. MaxFailures + 1, b.cool = 0 => burst' <= b.failures + 1
  PROVE  Controlled'
<1>1. /\ BackoffOK(backoff')
      /\ \/ backoff'.failures = b.failures + 1 /\ backoff'.cool = b.cool
         \/ backoff'.failures = 0 /\ backoff'.cool # 0
  BY FailureOK
<1> QED
  BY <1>1, Limits DEF Controlled, BudgetOK, BackoffOK

(* The user.                                                               *)
LEMMA UserKeeps ==
  ASSUME Controlled, Disconnect \/ Connect \/ ConnectRefused
  PROVE  Controlled'
<1>1. CASE Disconnect
  <2>1. /\ core' = "none" /\ desired' = FALSE /\ pause' = TRUE /\ link' = "Offline"
        /\ backoff' = Fresh /\ burst' = 0
    BY <1>1 DEF Disconnect, StopCore
  <2>2. WishOK'
    BY <2>1 DEF WishOK
  <2>3. BudgetOK'
    BY <2>1, FreshOK, Limits DEF BudgetOK
  <2> QED
    BY <2>2, <2>3 DEF Controlled
<1>2. CASE Connect
  <2>1. BackoffOK(Fresh) /\ Fresh.cool = 0 /\ 0 \in Nat /\ 0 <= Fresh.failures
    BY FreshOK
  <2>2. pause' = FALSE
    BY <1>2 DEF Connect
  <2>3. CASE StillRuns(Fresh, 0)
    <3>1. /\ core' = "running" /\ desired' = TRUE /\ backoff' = Fresh /\ burst' = 0
      BY <2>3 DEF StillRuns
    <3>2. WishOK'
      BY <2>2, <3>1 DEF WishOK
    <3>3. BudgetOK'
      BY <2>1, <3>1, FreshOK, Limits DEF BudgetOK
    <3> QED
      BY <3>2, <3>3 DEF Controlled
  <2>4. CASE ~StillRuns(Fresh, 0)
    <3>1. /\ core \in {"none", "dead"}
          /\ \/ NoAdapter(Fresh, 0) \/ SameNameRunning(Fresh, 0)
             \/ Spawn(Fresh, 0) \/ SpawnFails(Fresh, 0)
      BY <1>2, <2>4 DEF Connect, AttemptStart, Controlled, WishOK
    <3> QED
      BY <2>1, <2>2, <3>1, AttemptKeeps
  <2> QED
    BY <2>3, <2>4
<1>3. CASE ConnectRefused
  BY <1>3 DEF ConnectRefused, Controlled, WishOK, BudgetOK
<1> QED
  BY <1>1, <1>2, <1>3

(* The timer.                                                              *)
LEMMA TimerKeeps ==
  ASSUME Controlled, OnTimer
  PROVE  Controlled'
<1>1. CASE TimerWait
  BY <1>1 DEF TimerWait, TimerIdle, Controlled, WishOK, BudgetOK
<1>2. CASE TimerAttempt
  <2>1. /\ BackoffOK(backoff) /\ backoff.cool = 0
        /\ burst \in Nat /\ burst <= backoff.failures
        /\ core = "none" /\ pause' = FALSE
    BY <1>2 DEF TimerAttempt, CanAttempt, Controlled, WishOK, BudgetOK, BackoffOK
  <2> QED
    BY <1>2, <2>1, AttemptKeeps DEF TimerAttempt, AttemptStart, StillRuns
<1>3. CASE TimerCoreExited
  <2>1. WishOK' /\ core' = "none" /\ burst' = burst
    BY <1>3 DEF TimerCoreExited, TimerIdle, Controlled, WishOK
  <2>2. CASE desired
    <3>1. backoff' = RecordFailure(backoff) /\ core = "dead"
      BY <1>3, <2>2 DEF TimerCoreExited, TimerIdle, Controlled, WishOK
    <3>2. /\ BackoffOK(backoff) /\ burst \in 0 .. MaxFailures + 1
          /\ backoff.cool = 0 => burst <= backoff.failures + 1
      BY <2>2, <3>1 DEF Controlled, BudgetOK
    <3> QED
      BY <2>1, <3>1, <3>2, FailureKeeps
  <2>3. CASE ~desired
    <3>1. backoff' = backoff /\ desired' = desired
      BY <1>3, <2>3 DEF TimerCoreExited, TimerIdle
    <3> QED
      BY <2>1, <2>3, <3>1 DEF Controlled, BudgetOK
  <2> QED
    BY <2>2, <2>3
<1>4. CASE TimerObserve
  <2>1. PICK h : /\ core = "running"
                 /\ backoff' = IF IsStable(h) THEN Fresh ELSE backoff
                 /\ burst' = IF IsStable(h) THEN 0 ELSE burst
                 /\ UNCHANGED <<desired, pause, core>>
    BY <1>4 DEF TimerObserve
  <2>2. WishOK'
    BY <2>1 DEF Controlled, WishOK
  <2>3. BudgetOK'
    BY <2>1, FreshOK, Limits DEF Controlled, BudgetOK
  <2> QED
    BY <2>2, <2>3 DEF Controlled
<1>5. CASE TimerBlind
  <2>1. PICK h : /\ core = "running"
                 /\ backoff' = IF IsStable(h) THEN Fresh ELSE backoff
                 /\ burst' = IF IsStable(h) THEN 0 ELSE burst
                 /\ UNCHANGED <<desired, pause, core>>
    BY <1>5 DEF TimerBlind
  <2>2. WishOK'
    BY <2>1 DEF Controlled, WishOK
  <2>3. BudgetOK'
    BY <2>1, FreshOK, Limits DEF Controlled, BudgetOK
  <2> QED
    BY <2>2, <2>3 DEF Controlled
<1>6. CASE TimerRestart
  <2>1. PICK h : /\ core = "running" /\ core' = "none"
                 /\ backoff' = RecordFailure(IF IsStable(h) THEN Fresh ELSE backoff)
                 /\ burst' = IF IsStable(h) THEN 0 ELSE burst
                 /\ link' = "Waiting"
                 /\ UNCHANGED <<desired, pause>>
    BY <1>6 DEF TimerRestart, StopCore
  <2> DEFINE b == IF IsStable(h) THEN Fresh ELSE backoff
  <2>2. WishOK'
    BY <2>1 DEF Controlled, WishOK
  <2>3. /\ BackoffOK(b) /\ b.cool = 0
        /\ burst' \in 0 .. MaxFailures + 1 /\ burst' <= b.failures + 1
    BY <2>1, FreshOK, Limits DEF Controlled, WishOK, BudgetOK
  <2>4. backoff' = RecordFailure(b)
    BY <2>1
  <2> HIDE DEF b
  <2> QED
    BY <2>1, <2>2, <2>3, <2>4, FailureKeeps
<1> QED
  BY <1>1, <1>2, <1>3, <1>4, <1>5, <1>6 DEF OnTimer

(* The world.                                                              *)
LEMMA WorldKeeps ==
  ASSUME Controlled,
         Tick \/ CoreExits \/ AdapterGoes \/ AdapterComes \/ ForeignStarts \/ OtherEnds
  PROVE  Controlled'
<1>1. CASE Tick
  <2>1. /\ BackoffOK(backoff') /\ backoff'.failures = backoff.failures
        /\ backoff'.cool = Sooner(backoff.cool)
    <3>1. BackoffOK(backoff) /\ backoff' = BackoffLater(backoff)
      BY <1>1 DEF Tick, Controlled, BudgetOK
    <3> QED
      BY <3>1, LaterOK
  <2>2. UNCHANGED <<desired, pause, core, link>>
        /\ burst' = IF backoff.cool = 1 THEN 0 ELSE burst
    BY <1>1 DEF Tick
  <2>3. WishOK'
    BY <2>2 DEF Controlled, WishOK
  <2>4. BudgetOK'
    <3>1. backoff.cool \in Nat
      BY DEF Controlled, BudgetOK, BackoffOK
    <3>2. backoff.failures \in 0 .. MaxFailures
      BY DEF Controlled, BudgetOK, BackoffOK
    <3>3. /\ backoff.cool = 0 => backoff'.cool = 0 /\ burst' = burst
          /\ backoff.cool # 0 /\ backoff'.cool = 0 => burst' = 0
          /\ burst' \in 0 .. MaxFailures + 1
      BY <2>1, <2>2, <3>1, Limits DEF Controlled, BudgetOK, Sooner
    <3> QED
      BY <2>1, <2>2, <3>2, <3>3 DEF Controlled, BudgetOK
  <2> QED
    BY <2>3, <2>4 DEF Controlled
<1>2. CASE CoreExits
  BY <1>2 DEF CoreExits, Controlled, WishOK, BudgetOK
<1>3. CASE AdapterGoes \/ AdapterComes \/ ForeignStarts \/ OtherEnds
  BY <1>3 DEF AdapterGoes, AdapterComes, ForeignStarts, OtherEnds, Controlled, WishOK,
              BudgetOK
<1> QED
  BY <1>1, <1>2, <1>3

(* The invariant holds throughout.                                         *)
LEMMA StaysControlled == Spec => []Controlled
<1>1. Controlled /\ [Next]_vars => Controlled'
  <2>1. ASSUME Controlled, UNCHANGED vars PROVE Controlled'
    BY <2>1 DEF vars, Controlled, WishOK, BudgetOK
  <2> QED
    BY <2>1, UserKeeps, TimerKeeps, WorldKeeps DEF Next
<1> QED
  BY Begins, <1>1, PTL DEF Spec

-----------------------------------------------------------------------------
(* What it is for.                                                         *)

(* A core of the GUI runs only while the user wants one and has not paused, *)
(* and a window without a wish offers to connect, in whatever order button, *)
(* tray and timer act and whatever fails.                                  *)
THEOREM WishStaysFollowed == Spec => []WishIsFollowed
<1>1. Controlled => WishIsFollowed
  BY DEF Controlled, WishOK, WishIsFollowed, Active
<1> QED
  BY StaysControlled, <1>1, PTL

(* Cores are launched at most MaxFailures + 1 times in a row, then the     *)
(* cooldown comes, for all delays and limits.                              *)
THEOREM BudgetIsKept == Spec => []LaunchBudget
<1>1. Controlled => LaunchBudget
  BY ReconnectAssumption DEF Controlled, BudgetOK, BackoffOK, LaunchBudget
<1> QED
  BY StaysControlled, <1>1, PTL

-----------------------------------------------------------------------------
(* The monitor.  Its record, and that of the count kept apart.              *)
Monitors ==
  [activity : 0 .. Stale + 1, recovery : 0 .. UnhealthyLimit + 1, health : -1 .. Stale + 1,
   since : -1 .. Stale + Stable, poll : 0 .. PollGap + 1, observed : BOOLEAN,
   authed : BOOLEAN, waiting : BOOLEAN,
   state : {"Connecting", "Online", "Degraded", "Waiting"}]

Stalls == [time : 0 .. UnhealthyLimit + 1, excused : BOOLEAN, masked : -1 .. Stale + 1]

(* The monitor and the count agree on waits and on the time without UDP.   *)
Agree(h, s) ==
  h \in Monitors /\ s \in Stalls /\ h.waiting = s.excused /\ h.recovery = s.time

(* What the window and the world are.                                      *)
WorldOK ==
  /\ link \in {"Offline", "Connecting", "Online", "Waiting", "Degraded", "Error"}
  /\ adapter \in BOOLEAN
  /\ others \in {"none", "orphan", "foreign"}
  /\ faults \in 0 .. MaxFaults

(* A remembered launch has failed, but for that of the core that is held.  *)
ListOK ==
  /\ backoff.launches \in Seq(Nat) /\ backoff.cool <= Cooldown
  /\ Len(backoff.launches) <= backoff.failures + IF core = "none" \/ ~desired THEN 0 ELSE 1

(* The monitor, the count and the age of the last heartbeat.               *)
MonitorOK == health \in Monitors /\ stall \in Stalls /\ beatAge \in 0 .. Stale + 1

(* What the monitor of a running core knows: waits and the time without UDP
   as they were, no silence in a wait but since the last poll, and none that
   is older than the last heartbeat.  *)
Watched ==
  core = "running" =>
    /\ Agree(health, stall)
    /\ health.waiting /\ health.poll <= PollGap => health.recovery <= health.poll
    /\ beatAge <= Stale => health.recovery <= beatAge /\ health.activity <= beatAge
    /\ health.poll = 0 /\ ~health.waiting =>
         health.recovery <= IF health.authed THEN Stale ELSE UnhealthyLimit

(* The second invariant.                                                   *)
Monitored == WorldOK /\ ListOK /\ MonitorOK /\ Watched

-----------------------------------------------------------------------------
(* Lines are read by a fold, which the library defines by a choice: what it
   computes follows from the function chosen, by way of the least prefix of
   the lines for which something does not hold.  *)

(* A set of numbers has a least one.                                       *)
LEMMA LeastOf ==
  ASSUME NEW T \in SUBSET Nat, T # {}
  PROVE  \E x \in T : \A y \in T : x <= y
<1>1. IsWellFoundedOn(OpToRel(<, Nat), Nat)
  BY NatLessThanWellFounded
<1>2. PICK x \in T : \A y \in T : ~(<<y, x>> \in OpToRel(<, Nat))
  BY <1>1, WFMin
<1>3. \A y \in T : ~(y < x)
  BY <1>2 DEF OpToRel
<1> QED
  BY <1>3

(* What holds of 0 and, with k, of k + 1, holds up to n.                   *)
LEMMA Climb ==
  ASSUME NEW n \in Nat, NEW T \in SUBSET (0 .. n), 0 \in T,
         \A k \in 1 .. n : k - 1 \in T => k \in T
  PROVE  T = 0 .. n
<1> SUFFICES ASSUME (0 .. n) \ T # {} PROVE FALSE
  OBVIOUS
<1>1. PICK k \in (0 .. n) \ T : \A y \in (0 .. n) \ T : k <= y
  <2>1. (0 .. n) \ T \in SUBSET Nat
    OBVIOUS
  <2> QED
    BY <2>1, LeastOf
<1>2. k \in 1 .. n /\ k - 1 \in 0 .. n /\ ~(k <= k - 1)
  BY <1>1
<1>3. k - 1 \in T
  BY <1>1, <1>2
<1> QED
  BY <1>1, <1>2, <1>3

(* The greatest number of a set that has n.                                *)
LEMMA MaxIs ==
  ASSUME NEW n \in Nat, NEW s \in SUBSET (1 .. n), n \in s
  PROVE  Max(s) = n
<1>1. \A y \in s : n >= y
  OBVIOUS
<1>2. \A x \in s : (\A y \in s : x >= y) => x = n
  OBVIOUS
<1> QED
  BY <1>1, <1>2 DEF Max

(* it[s] folds the numbers of s: step[i] is applied for the number i.      *)
IsFold(it, base, n, step) ==
  \A s \in SUBSET (1 .. n) :
    /\ s # {} => Max(s) \in s
    /\ it[s] = IF s = {} THEN base ELSE step[Max(s)][it[s \ {Max(s)}]]

(* The function by which a fold is defined exists.                         *)
LEMMA FoldExists ==
  ASSUME NEW H, NEW base \in H, NEW n \in Nat, NEW step \in [1 .. n -> [H -> H]]
  PROVE  \E it \in [SUBSET (1 .. n) -> H] : IsFold(it, base, n, step)
<1> USE DEF IsFold
<1> DEFINE Good(k) == \E it \in [SUBSET (1 .. k) -> H] : IsFold(it, base, k, step)
           T == {k \in 0 .. n : Good(k)}
<1>1. Good(0)
  <2> DEFINE it == [s \in SUBSET (1 .. 0) |-> base]
  <2>1. it \in [SUBSET (1 .. 0) -> H]
    OBVIOUS
  <2>2. \A s \in SUBSET (1 .. 0) : s = {} /\ it[s] = base
    OBVIOUS
  <2> HIDE DEF it
  <2> QED
    BY <2>1, <2>2
<1>2. ASSUME NEW k \in 1 .. n, Good(k - 1) PROVE Good(k)
  <2>1. PICK it \in [SUBSET (1 .. k - 1) -> H] :
          \A s \in SUBSET (1 .. k - 1) :
            /\ s # {} => Max(s) \in s
            /\ it[s] = IF s = {} THEN base ELSE step[Max(s)][it[s \ {Max(s)}]]
    BY <1>2
  <2> DEFINE more == [s \in SUBSET (1 .. k) |->
                        IF k \in s THEN step[k][it[s \ {k}]] ELSE it[s]]
  <2>2. \A s \in SUBSET (1 .. k) : s \ {k} \in SUBSET (1 .. k - 1)
    OBVIOUS
  <2>3. \A s \in SUBSET (1 .. k) : k \notin s => s \in SUBSET (1 .. k - 1)
    OBVIOUS
  <2>4. more \in [SUBSET (1 .. k) -> H]
    BY <2>2, <2>3
  <2>5. ASSUME NEW s \in SUBSET (1 .. k)
        PROVE  /\ s # {} => Max(s) \in s
               /\ more[s] = IF s = {} THEN base ELSE step[Max(s)][more[s \ {Max(s)}]]
    <3>1. CASE k \in s
      <4>1. Max(s) = k
        BY <3>1, MaxIs
      <4>2. s \ {k} \in SUBSET (1 .. k) /\ k \notin s \ {k}
        OBVIOUS
      <4>3. more[s \ {k}] = it[s \ {k}]
        BY <4>2
      <4>4. more[s] = step[k][it[s \ {k}]]
        BY <3>1
      <4> HIDE DEF more
      <4> QED
        BY <3>1, <4>1, <4>3, <4>4
    <3>2. CASE k \notin s
      <4>1. s \in SUBSET (1 .. k - 1)
        BY <2>3, <3>2
      <4>2. more[s] = it[s]
        BY <3>2
      <4>3. s \ {Max(s)} \in SUBSET (1 .. k) /\ k \notin s \ {Max(s)}
        BY <3>2
      <4>4. more[s \ {Max(s)}] = it[s \ {Max(s)}]
        BY <4>3
      <4> HIDE DEF more
      <4> QED
        BY <2>1, <4>1, <4>2, <4>4
    <3> QED
      BY <3>1, <3>2
  <2> HIDE DEF more
  <2> QED
    BY <2>4, <2>5
<1> HIDE DEF Good
<1>3. T = 0 .. n
  <2>1. 0 \in T
    BY <1>1
  <2>2. \A k \in 1 .. n : k - 1 \in T => k \in T
    BY <1>2
  <2>3. T \in SUBSET (0 .. n)
    OBVIOUS
  <2> HIDE DEF T
  <2> QED
    BY <2>1, <2>2, <2>3, Climb
<1>4. Good(n)
  BY <1>3
<1> QED
  BY <1>4 DEF Good

-----------------------------------------------------------------------------
(* What a line of the log does to the monitor and to the count.             *)

(* A clock that starts anew, and one that is not set.                      *)
LEMMA Ranges ==
  /\ 0 \in 0 .. Stale + 1 /\ 0 \in 0 .. UnhealthyLimit + 1 /\ 0 \in -1 .. Stale + 1
  /\ -1 \in -1 .. Stale + 1 /\ 0 \in -1 .. Stale + Stable /\ -1 \in -1 .. Stale + Stable
  /\ 0 \in 0 .. PollGap + 1
BY ReconnectAssumption

(* The fields of a monitor.                                                *)
LEMMA Fields ==
  ASSUME NEW h \in Monitors
  PROVE  /\ h.activity \in 0 .. Stale + 1 /\ h.recovery \in 0 .. UnhealthyLimit + 1
         /\ h.health \in -1 .. Stale + 1 /\ h.since \in -1 .. Stale + Stable
         /\ h.poll \in 0 .. PollGap + 1
         /\ h.observed \in BOOLEAN /\ h.authed \in BOOLEAN /\ h.waiting \in BOOLEAN
         /\ h.state \in {"Connecting", "Online", "Degraded", "Waiting"}
BY DEF Monitors

(* A line of the log makes a monitor of a monitor.                         *)
LEMMA ReadIs ==
  ASSUME NEW h \in Monitors, NEW kind \in Kinds
  PROVE  /\ Read(h, kind) \in Monitors
         /\ Read(h, kind).activity = 0
         /\ Read(h, kind).poll = h.poll
         /\ Read(h, kind).recovery = IF kind \in {"beat", "night"} THEN 0 ELSE h.recovery
         /\ Read(h, kind).waiting =
              IF kind = "night" THEN TRUE
              ELSE IF kind \in {"beat", "retry"} THEN FALSE ELSE h.waiting
<1> DEFINE r == Read(h, kind)
<1>1. CASE kind = "beat"
  <2>1. r = [activity |-> 0, recovery |-> 0, health |-> 0,
             since |-> IF h.since = -1 THEN 0 ELSE h.since, poll |-> h.poll,
             observed |-> TRUE, authed |-> TRUE, waiting |-> FALSE, state |-> "Online"]
    BY <1>1 DEF Read, Beat, Monitors
  <2> HIDE DEF r
  <2>2. r \in Monitors
    BY <2>1, Ranges, Fields DEF Monitors
  <2>3. r.activity = 0 /\ r.poll = h.poll /\ r.recovery = 0 /\ r.waiting = FALSE
    BY <2>1
  <2> QED
    BY <1>1, <2>2, <2>3 DEF r
<1>2. CASE kind = "auth"
  <2>1. r = [activity |-> 0, recovery |-> h.recovery, health |-> h.health,
             since |-> h.since, poll |-> h.poll,
             observed |-> TRUE, authed |-> TRUE, waiting |-> h.waiting, state |-> h.state]
    BY <1>2 DEF Read, Monitors
  <2> HIDE DEF r
  <2>2. r \in Monitors
    BY <2>1, Ranges, Fields DEF Monitors
  <2>3. r.activity = 0 /\ r.poll = h.poll /\ r.recovery = h.recovery /\ r.waiting = h.waiting
    BY <2>1
  <2> QED
    BY <1>2, <2>2, <2>3 DEF r
<1>3. CASE kind = "error"
  <2>1. r = [activity |-> 0, recovery |-> h.recovery, health |-> h.health,
             since |-> -1, poll |-> h.poll,
             observed |-> TRUE, authed |-> h.authed, waiting |-> h.waiting, state |-> "Degraded"]
    BY <1>3 DEF Read, Monitors
  <2> HIDE DEF r
  <2>2. r \in Monitors
    BY <2>1, Ranges, Fields DEF Monitors
  <2>3. r.activity = 0 /\ r.poll = h.poll /\ r.recovery = h.recovery /\ r.waiting = h.waiting
    BY <2>1
  <2> QED
    BY <1>3, <2>2, <2>3 DEF r
<1>4. CASE kind = "night"
  <2>1. r = [activity |-> 0, recovery |-> 0, health |-> h.health,
             since |-> -1, poll |-> h.poll,
             observed |-> TRUE, authed |-> h.authed, waiting |-> TRUE, state |-> "Waiting"]
    BY <1>4 DEF Read, Monitors
  <2> HIDE DEF r
  <2>2. r \in Monitors
    BY <2>1, Ranges, Fields DEF Monitors
  <2>3. r.activity = 0 /\ r.poll = h.poll /\ r.recovery = 0 /\ r.waiting = TRUE
    BY <2>1
  <2> QED
    BY <1>4, <2>2, <2>3 DEF r
<1>5. CASE kind = "retry"
  <2>1. r = [activity |-> 0, recovery |-> h.recovery, health |-> h.health,
             since |-> -1, poll |-> h.poll,
             observed |-> TRUE, authed |-> h.authed, waiting |-> FALSE, state |-> "Degraded"]
    BY <1>5 DEF Read, Monitors
  <2> HIDE DEF r
  <2>2. r \in Monitors
    BY <2>1, Ranges, Fields DEF Monitors
  <2>3. r.activity = 0 /\ r.poll = h.poll /\ r.recovery = h.recovery /\ r.waiting = FALSE
    BY <2>1
  <2> QED
    BY <1>5, <2>2, <2>3 DEF r
<1>6. CASE kind = "other"
  <2>1. r = [activity |-> 0, recovery |-> h.recovery, health |-> h.health,
             since |-> h.since, poll |-> h.poll,
             observed |-> TRUE, authed |-> h.authed, waiting |-> h.waiting, state |-> h.state]
    BY <1>6 DEF Read, Monitors
  <2> HIDE DEF r
  <2>2. r \in Monitors
    BY <2>1, Ranges, Fields DEF Monitors
  <2>3. r.activity = 0 /\ r.poll = h.poll /\ r.recovery = h.recovery /\ r.waiting = h.waiting
    BY <2>1
  <2> QED
    BY <1>6, <2>2, <2>3 DEF r
<1> QED
  BY <1>1, <1>2, <1>3, <1>4, <1>5, <1>6 DEF Kinds

(* And a count of a count.                                                 *)
LEMMA NotedIs ==
  ASSUME NEW s \in Stalls, NEW kind \in Kinds
  PROVE  /\ Noted(s, kind) \in Stalls
         /\ Noted(s, kind).time = IF kind \in {"beat", "night"} THEN 0 ELSE s.time
         /\ Noted(s, kind).excused =
              IF kind = "night" THEN TRUE
              ELSE IF kind \in {"beat", "retry"} THEN FALSE ELSE s.excused
<1> DEFINE r == Noted(s, kind)
<1>1. CASE kind = "beat"
  <2>1. r = [time |-> 0, excused |-> FALSE, masked |-> -1]
    BY <1>1 DEF Noted, NoStall
  <2> HIDE DEF r
  <2>2. r \in Stalls
    BY <2>1, Ranges DEF Stalls
  <2>3. r.time = 0 /\ r.excused = FALSE
    BY <2>1
  <2> QED
    BY <1>1, <2>2, <2>3 DEF r
<1>2. CASE kind = "night"
  <2>1. r = [time |-> 0, excused |-> TRUE, masked |-> -1]
    BY <1>2 DEF Noted, NoStall
  <2> HIDE DEF r
  <2>2. r \in Stalls
    BY <2>1, Ranges DEF Stalls
  <2>3. r.time = 0 /\ r.excused = TRUE
    BY <2>1
  <2> QED
    BY <1>2, <2>2, <2>3 DEF r
<1>3. CASE kind = "retry"
  <2>1. r = [time |-> s.time, excused |-> FALSE, masked |-> -1]
    BY <1>3 DEF Noted, Stalls
  <2> HIDE DEF r
  <2>2. r \in Stalls
    BY <2>1, Ranges DEF Stalls
  <2>3. r.time = s.time /\ r.excused = FALSE
    BY <2>1
  <2> QED
    BY <1>3, <2>2, <2>3 DEF r
<1>4. CASE kind = "error"
  <2>1. r = [time |-> s.time, excused |-> s.excused, masked |-> s.masked]
    BY <1>4 DEF Noted, Stalls
  <2> HIDE DEF r
  <2>2. r \in Stalls
    BY <2>1, Ranges DEF Stalls
  <2>3. r.time = s.time /\ r.excused = s.excused
    BY <2>1
  <2> QED
    BY <1>4, <2>2, <2>3 DEF r
<1>5. CASE kind = "other"
  <2>1. r = [time |-> s.time, excused |-> s.excused, masked |-> s.masked]
    BY <1>5 DEF Noted, Stalls
  <2> HIDE DEF r
  <2>2. r \in Stalls
    BY <2>1, Ranges DEF Stalls
  <2>3. r.time = s.time /\ r.excused = s.excused
    BY <2>1
  <2> QED
    BY <1>5, <2>2, <2>3 DEF r
<1>6. CASE kind = "auth"
  <2>1. r = s \/ r = [s EXCEPT !.masked = 0]
    BY <1>6 DEF Noted
  <2>2. r = [time |-> s.time, excused |-> s.excused, masked |-> s.masked] \/
        r = [time |-> s.time, excused |-> s.excused, masked |-> 0]
    BY <2>1 DEF Stalls
  <2> HIDE DEF r
  <2>3. r \in Stalls
    BY <2>2, Ranges DEF Stalls
  <2>4. r.time = s.time /\ r.excused = s.excused
    BY <2>2
  <2> QED
    BY <1>6, <2>3, <2>4 DEF r
<1> QED
  BY <1>1, <1>2, <1>3, <1>4, <1>5, <1>6 DEF Kinds

(* The monitor reads the lines one after the other.                        *)
LEMMA ReadAll ==
  ASSUME NEW h \in Monitors, NEW lines \in Seq(Kinds)
  PROVE  \E f : /\ f[0] = h
                /\ \A i \in 1 .. Len(lines) : f[i] = Read(f[i - 1], lines[i])
                /\ f[Len(lines)] = FoldLeft(Read, h, lines)
<1> DEFINE n == Len(lines)
           step == [i \in 1 .. n |-> [x \in Monitors |-> Read(x, lines[i])]]
           Folds(g) == g = [s \in SUBSET (DOMAIN lines) |->
                              IF s = {} THEN h ELSE Read(g[s \ {Max(s)}], lines[Max(s)])]
           iter == CHOOSE g : Folds(g)
           f == [i \in 0 .. n |-> iter[1 .. i]]
<1>1. FoldLeft(Read, h, lines) = iter[DOMAIN lines]
  BY DEF FoldLeft, MapThenFoldSet
<1>2. n \in Nat /\ DOMAIN lines = 1 .. n /\ \A i \in 1 .. n : lines[i] \in Kinds
  OBVIOUS
<1> HIDE DEF n
<1>3. step \in [1 .. n -> [Monitors -> Monitors]]
  BY <1>2, ReadIs
<1>4. \E g : Folds(g)
  <2>1. PICK it \in [SUBSET (1 .. n) -> Monitors] : IsFold(it, h, n, step)
    <3> HIDE DEF step
    <3> QED
      BY <1>2, <1>3, FoldExists
  <2>2. ASSUME NEW s \in SUBSET (1 .. n)
        PROVE  it[s] = IF s = {} THEN h ELSE Read(it[s \ {Max(s)}], lines[Max(s)])
    <3>1. CASE s = {}
      BY <2>1, <3>1 DEF IsFold
    <3>2. CASE s # {}
      <4>1. Max(s) \in 1 .. n /\ s \ {Max(s)} \in SUBSET (1 .. n)
        BY <2>1, <3>2 DEF IsFold
      <4>2. it[s \ {Max(s)}] \in Monitors
        BY <4>1
      <4>3. it[s] = step[Max(s)][it[s \ {Max(s)}]]
        BY <2>1, <3>2 DEF IsFold
      <4> QED
        BY <3>2, <4>1, <4>2, <4>3
    <3> QED
      BY <3>1, <3>2
  <2>3. Folds(it)
    BY <1>2, <2>2
  <2> QED
    BY <2>3
<1>5. Folds(iter)
  <2> HIDE DEF Folds
  <2> QED
    BY <1>4
<1>6. \A s \in SUBSET (1 .. n) :
        iter[s] = IF s = {} THEN h ELSE Read(iter[s \ {Max(s)}], lines[Max(s)])
  <2> HIDE DEF iter
  <2> QED
    BY <1>2, <1>5
<1> HIDE DEF iter, step, Folds
<1>7. f[0] = h
  <2>1. 1 .. 0 = {} /\ 0 \in 0 .. n
    BY <1>2
  <2> QED
    BY <1>6, <2>1
<1>8. ASSUME NEW i \in 1 .. n PROVE f[i] = Read(f[i - 1], lines[i])
  <2>0. n \in Nat /\ i \in Nat /\ 1 <= i /\ i <= n
    BY <1>2
  <2>1. /\ 1 .. i \in SUBSET (1 .. n) /\ 1 .. i # {} /\ (1 .. i) \ {i} = 1 .. i - 1
        /\ i \in 1 .. i /\ i \in 0 .. n /\ i - 1 \in 0 .. n /\ i \in Nat
    BY <2>0
  <2>2. Max(1 .. i) = i
    BY <2>1, MaxIs
  <2> QED
    BY <1>6, <2>1, <2>2
<1>9. f[n] = FoldLeft(Read, h, lines)
  BY <1>1, <1>2
<1> QED
  BY <1>7, <1>8, <1>9 DEF n
(* So is the count kept apart.                                             *)
LEMMA NotedLines ==
  ASSUME NEW c \in Stalls, NEW lines \in Seq(Kinds)
  PROVE  \E f : /\ f[0] = c
                /\ \A i \in 1 .. Len(lines) : f[i] = Noted(f[i - 1], lines[i])
                /\ f[Len(lines)] = FoldLeft(Noted, c, lines)
<1> DEFINE n == Len(lines)
           step == [i \in 1 .. n |-> [x \in Stalls |-> Noted(x, lines[i])]]
           Folds(g) == g = [s \in SUBSET (DOMAIN lines) |->
                              IF s = {} THEN c ELSE Noted(g[s \ {Max(s)}], lines[Max(s)])]
           iter == CHOOSE g : Folds(g)
           f == [i \in 0 .. n |-> iter[1 .. i]]
<1>1. FoldLeft(Noted, c, lines) = iter[DOMAIN lines]
  BY DEF FoldLeft, MapThenFoldSet
<1>2. n \in Nat /\ DOMAIN lines = 1 .. n /\ \A i \in 1 .. n : lines[i] \in Kinds
  OBVIOUS
<1> HIDE DEF n
<1>3. step \in [1 .. n -> [Stalls -> Stalls]]
  BY <1>2, NotedIs
<1>4. \E g : Folds(g)
  <2>1. PICK it \in [SUBSET (1 .. n) -> Stalls] : IsFold(it, c, n, step)
    <3> HIDE DEF step
    <3> QED
      BY <1>2, <1>3, FoldExists
  <2>2. ASSUME NEW s \in SUBSET (1 .. n)
        PROVE  it[s] = IF s = {} THEN c ELSE Noted(it[s \ {Max(s)}], lines[Max(s)])
    <3>1. CASE s = {}
      BY <2>1, <3>1 DEF IsFold
    <3>2. CASE s # {}
      <4>1. Max(s) \in 1 .. n /\ s \ {Max(s)} \in SUBSET (1 .. n)
        BY <2>1, <3>2 DEF IsFold
      <4>2. it[s \ {Max(s)}] \in Stalls
        BY <4>1
      <4>3. it[s] = step[Max(s)][it[s \ {Max(s)}]]
        BY <2>1, <3>2 DEF IsFold
      <4> QED
        BY <3>2, <4>1, <4>2, <4>3
    <3> QED
      BY <3>1, <3>2
  <2>3. Folds(it)
    BY <1>2, <2>2
  <2> QED
    BY <2>3
<1>5. Folds(iter)
  <2> HIDE DEF Folds
  <2> QED
    BY <1>4
<1>6. \A s \in SUBSET (1 .. n) :
        iter[s] = IF s = {} THEN c ELSE Noted(iter[s \ {Max(s)}], lines[Max(s)])
  <2> HIDE DEF iter
  <2> QED
    BY <1>2, <1>5
<1> HIDE DEF iter, step, Folds
<1>7. f[0] = c
  <2>1. 1 .. 0 = {} /\ 0 \in 0 .. n
    BY <1>2
  <2> QED
    BY <1>6, <2>1
<1>8. ASSUME NEW i \in 1 .. n PROVE f[i] = Noted(f[i - 1], lines[i])
  <2>0. n \in Nat /\ i \in Nat /\ 1 <= i /\ i <= n
    BY <1>2
  <2>1. /\ 1 .. i \in SUBSET (1 .. n) /\ 1 .. i # {} /\ (1 .. i) \ {i} = 1 .. i - 1
        /\ i \in 1 .. i /\ i \in 0 .. n /\ i - 1 \in 0 .. n /\ i \in Nat
    BY <2>0
  <2>2. Max(1 .. i) = i
    BY <2>1, MaxIs
  <2> QED
    BY <1>6, <2>1, <2>2
<1>9. f[n] = FoldLeft(Noted, c, lines)
  BY <1>1, <1>2
<1> QED
  BY <1>7, <1>8, <1>9 DEF n

(* They agree on a line.                                                   *)
LEMMA AgreeOnALine ==
  ASSUME NEW h, NEW s, Agree(h, s), NEW kind \in Kinds
  PROVE  Agree(Read(h, kind), Noted(s, kind))
<1> DEFINE a == Read(h, kind)
           b == Noted(s, kind)
<1>1. /\ a \in Monitors
      /\ a.recovery = IF kind \in {"beat", "night"} THEN 0 ELSE h.recovery
      /\ a.waiting = IF kind = "night" THEN TRUE
                     ELSE IF kind \in {"beat", "retry"} THEN FALSE ELSE h.waiting
  BY ReadIs DEF Agree
<1>2. /\ b \in Stalls
      /\ b.time = IF kind \in {"beat", "night"} THEN 0 ELSE s.time
      /\ b.excused = IF kind = "night" THEN TRUE
                     ELSE IF kind \in {"beat", "retry"} THEN FALSE ELSE s.excused
  BY NotedIs DEF Agree
<1> HIDE DEF a, b
<1>3. a.recovery = b.time /\ a.waiting = b.excused
  BY <1>1, <1>2 DEF Agree
<1> QED
  BY <1>1, <1>2, <1>3 DEF Agree, a, b

(* What a batch of lines does to both.                                     *)
LEMMA AgreeOnLines ==
  ASSUME NEW h, NEW s, Agree(h, s), NEW lines \in Seq(Kinds)
  PROVE  LET a == FoldLeft(Read, h, lines)
         IN  /\ Agree(a, FoldLeft(Noted, s, lines))
             /\ a.poll = h.poll /\ a.recovery <= h.recovery
             /\ Contains(lines, "beat") => a.recovery = 0
             /\ IF lines = <<>> THEN a = h ELSE a.activity = 0
<1> DEFINE n == Len(lines)
           a == FoldLeft(Read, h, lines)
           b == FoldLeft(Noted, s, lines)
           Beaten(i) == \E j \in 1 .. i : lines[j] = "beat"
<1>1. PICK f : /\ f[0] = h
               /\ \A i \in 1 .. n : f[i] = Read(f[i - 1], lines[i])
               /\ f[n] = a
  BY ReadAll DEF Agree
<1>2. PICK g : /\ g[0] = s
               /\ \A i \in 1 .. n : g[i] = Noted(g[i - 1], lines[i])
               /\ g[n] = b
  BY NotedLines DEF Agree
<1>3. n \in Nat /\ (\A i \in 1 .. n : lines[i] \in Kinds) /\ (lines = <<>> <=> n = 0)
  OBVIOUS
<1>4. Contains(lines, "beat") <=> Beaten(n)
  BY DEF Contains
<1> HIDE DEF n, a, b
<1> DEFINE Fine(i) == /\ Agree(f[i], g[i])
                      /\ f[i].poll = h.poll /\ f[i].recovery <= h.recovery
                      /\ Beaten(i) => f[i].recovery = 0
                      /\ i # 0 => f[i].activity = 0
           T == {i \in 0 .. n : Fine(i)}
<1>5. h.recovery \in Nat
  BY Fields DEF Agree
<1>6. Fine(0)
  BY <1>1, <1>2, <1>5
<1>7. ASSUME NEW i \in 1 .. n, Fine(i - 1) PROVE Fine(i)
  <2> DEFINE k == lines[i]
             x == f[i - 1]
             y == g[i - 1]
  <2>1. f[i] = Read(x, k) /\ g[i] = Noted(y, k) /\ k \in Kinds
    BY <1>1, <1>2, <1>3
  <2>2. Agree(x, y)
    BY <1>7
  <2>3. Agree(f[i], g[i])
    BY <2>1, <2>2, AgreeOnALine
  <2>4. Beaten(i) => k = "beat" \/ Beaten(i - 1)
    <3>1. \A j \in 1 .. i : j = i \/ j \in 1 .. i - 1
      BY <1>3
    <3> QED
      BY <3>1
  <2>5. /\ f[i].activity = 0 /\ f[i].poll = x.poll
        /\ f[i].recovery = IF k \in {"beat", "night"} THEN 0 ELSE x.recovery
    <3>1. x \in Monitors /\ k \in Kinds
      BY <2>1, <2>2 DEF Agree
    <3> HIDE DEF Beaten, k, x, y
    <3>2. /\ Read(x, k).activity = 0 /\ Read(x, k).poll = x.poll
          /\ Read(x, k).recovery = IF k \in {"beat", "night"} THEN 0 ELSE x.recovery
      BY <3>1, ReadIs
    <3> QED
      BY <2>1, <3>2
  <2>6. x.poll = h.poll /\ x.recovery <= h.recovery /\ (Beaten(i - 1) => x.recovery = 0)
    BY <1>7
  <2> HIDE DEF Beaten, k, x, y
  <2> QED
    BY <1>5, <2>3, <2>4, <2>5, <2>6
<1> HIDE DEF Fine
<1>8. T = 0 .. n
  <2>1. 0 \in T /\ T \in SUBSET (0 .. n)
    BY <1>3, <1>6
  <2>2. \A k \in 1 .. n : k - 1 \in T => k \in T
    BY <1>3, <1>7
  <2> HIDE DEF T
  <2> QED
    BY <1>3, <2>1, <2>2, Climb
<1>9. Fine(n)
  BY <1>3, <1>8
<1> QED
  BY <1>1, <1>2, <1>3, <1>4, <1>9 DEF Fine, a, b

-----------------------------------------------------------------------------
(* What a poll of the log and a tick of the clock do.                       *)

(* A new monitor and a new count.                                          *)
LEMMA NewAgrees ==
  /\ Agree(NewHealth, NoStall) /\ NewHealth.recovery = 0 /\ NewHealth.activity = 0
  /\ NewHealth.poll = 0 /\ ~NewHealth.waiting
<1>1. NewHealth \in Monitors
  BY Ranges DEF NewHealth, Monitors
<1>2. NoStall \in Stalls
  BY Ranges DEF NoStall, Stalls
<1> QED
  BY <1>1, <1>2 DEF Agree, NewHealth, NoStall

(* Reading begins, after a sleep with clocks that start anew.              *)
LEMMA WokeIs ==
  ASSUME NEW h \in Monitors
  PROVE  /\ Woke(h) \in Monitors
         /\ Woke(h).poll = 0 /\ Woke(h).waiting = h.waiting
         /\ Woke(h).recovery = IF h.poll > PollGap THEN 0 ELSE h.recovery
         /\ Woke(h).activity = IF h.poll > PollGap THEN 0 ELSE h.activity
<1> DEFINE r == Woke(h)
<1>1. CASE h.poll > PollGap
  <2>1. r = [activity |-> 0, recovery |-> 0, health |-> -1, since |-> -1, poll |-> 0,
             observed |-> h.observed, authed |-> h.authed, waiting |-> h.waiting,
             state |-> h.state]
    BY <1>1 DEF Woke, Monitors
  <2> HIDE DEF r
  <2>2. r \in Monitors
    BY <2>1, Ranges, Fields DEF Monitors
  <2>3. r.poll = 0 /\ r.waiting = h.waiting /\ r.recovery = 0 /\ r.activity = 0
    BY <2>1
  <2> QED
    BY <1>1, <2>2, <2>3 DEF r
<1>2. CASE ~(h.poll > PollGap)
  <2>1. r = [activity |-> h.activity, recovery |-> h.recovery, health |-> h.health,
             since |-> h.since, poll |-> 0, observed |-> h.observed,
             authed |-> h.authed, waiting |-> h.waiting, state |-> h.state]
    BY <1>2 DEF Woke, Monitors
  <2> HIDE DEF r
  <2>2. r \in Monitors
    BY <2>1, Ranges, Fields DEF Monitors
  <2>3. /\ r.poll = 0 /\ r.waiting = h.waiting
        /\ r.recovery = h.recovery /\ r.activity = h.activity
    BY <2>1
  <2> QED
    BY <1>2, <2>2, <2>3 DEF r
<1> QED
  BY <1>1, <1>2

(* A grace leaves the excuse as it is.                                     *)
LEMMA PardonedIs ==
  ASSUME NEW s \in Stalls
  PROVE  Pardoned(s) \in Stalls /\ Pardoned(s).time = 0 /\ Pardoned(s).excused = s.excused
<1>1. Pardoned(s) \in Stalls
  BY Ranges DEF Pardoned, Stalls
<1>2. Pardoned(s).time = 0 /\ Pardoned(s).excused = s.excused
  BY DEF Pardoned, Stalls
<1> QED
  BY <1>1, <1>2

(* Reading ends.                                                           *)
LEMMA SettledIs ==
  ASSUME NEW h \in Monitors
  PROVE  /\ Settled(h) \in Monitors
         /\ Settled(h).poll = h.poll /\ Settled(h).waiting = h.waiting
         /\ Settled(h).recovery = IF h.waiting THEN 0 ELSE h.recovery
         /\ Settled(h).activity = h.activity
<1> DEFINE r == Settled(h)
<1>1. PICK t \in {"Connecting", "Online", "Degraded", "Waiting"}, s \in -1 .. Stale + Stable :
        r = [h EXCEPT !.state = t, !.since = s, !.recovery = IF h.waiting THEN 0 ELSE @]
  <2>1. r = [h EXCEPT !.state = IF h.state = "Online" /\ ~FreshHealth(h) THEN "Degraded" ELSE @,
                      !.since = IF h.state = "Online" /\ ~FreshHealth(h) THEN -1 ELSE @,
                      !.recovery = IF h.waiting THEN 0 ELSE @]
    BY DEF Settled
  <2>2. CASE h.state = "Online" /\ ~FreshHealth(h)
    <3>1. r = [h EXCEPT !.state = "Degraded", !.since = -1,
                        !.recovery = IF h.waiting THEN 0 ELSE @]
      BY <2>1, <2>2
    <3> QED
      BY <3>1, Ranges
  <2>3. CASE ~(h.state = "Online" /\ ~FreshHealth(h))
    <3>1. r = [h EXCEPT !.state = h.state, !.since = h.since,
                        !.recovery = IF h.waiting THEN 0 ELSE @]
      BY <2>1, <2>3 DEF Monitors
    <3> QED
      BY <3>1, Fields
  <2> QED
    BY <2>2, <2>3
<1>2. r = [activity |-> h.activity, recovery |-> IF h.waiting THEN 0 ELSE h.recovery,
           health |-> h.health, since |-> s, poll |-> h.poll, observed |-> h.observed,
           authed |-> h.authed, waiting |-> h.waiting, state |-> t]
  BY <1>1 DEF Monitors
<1> HIDE DEF r
<1>3. (IF h.waiting THEN 0 ELSE h.recovery) \in 0 .. UnhealthyLimit + 1
  BY Ranges, Fields
<1>4. r \in Monitors
  BY <1>2, <1>3, Fields DEF Monitors
<1> QED
  BY <1>2, <1>4 DEF r

(* What a reading of the log shows, and what is counted apart.             *)
LEMMA Observed ==
  ASSUME Agree(health, stall), NEW lines \in Seq(Kinds)
  PROVE  LET o == Observe(health, lines)
         IN  /\ Agree(o, NotedAll(lines))
             /\ o.poll = 0
             /\ o.waiting => o.recovery = 0
             /\ o.recovery <= IF health.poll > PollGap THEN 0 ELSE health.recovery
             /\ o.activity <= IF health.poll > PollGap THEN 0 ELSE health.activity
             /\ Contains(lines, "beat") => o.recovery = 0 /\ o.activity = 0
             /\ o.activity # 0 => o.waiting = health.waiting
<1> DEFINE w == Woke(health)
           s == IF health.poll > PollGap THEN Pardoned(stall) ELSE stall
           a == FoldLeft(Read, w, lines)
           b == FoldLeft(Noted, s, lines)
           o == Observe(health, lines)
           c == NotedAll(lines)
<1>1. /\ w \in Monitors /\ w.poll = 0 /\ w.waiting = health.waiting
      /\ w.recovery = IF health.poll > PollGap THEN 0 ELSE health.recovery
      /\ w.activity = IF health.poll > PollGap THEN 0 ELSE health.activity
  BY WokeIs DEF Agree
<1>2. /\ s \in Stalls /\ s.excused = stall.excused
      /\ s.time = IF health.poll > PollGap THEN 0 ELSE stall.time
  BY PardonedIs DEF Agree
<1>3. o = Settled(a) /\ c = IF b.excused THEN [b EXCEPT !.time = 0] ELSE b
  BY DEF Observe, NotedAll
<1> HIDE DEF w, s
<1>4. Agree(w, s)
  BY <1>1, <1>2 DEF Agree
<1>5. /\ Agree(a, b)
      /\ a.poll = w.poll /\ a.recovery <= w.recovery
      /\ Contains(lines, "beat") => a.recovery = 0
      /\ IF lines = <<>> THEN a = w ELSE a.activity = 0
  BY <1>4, AgreeOnLines
<1> HIDE DEF a, b, o, c
<1>6. /\ o \in Monitors
      /\ o.poll = a.poll /\ o.waiting = a.waiting
      /\ o.recovery = IF a.waiting THEN 0 ELSE a.recovery
      /\ o.activity = a.activity
  BY <1>3, <1>5, SettledIs DEF Agree
<1>7. /\ c \in Stalls /\ c.excused = b.excused
      /\ c.time = IF b.excused THEN 0 ELSE b.time
  BY <1>3, <1>5, Ranges DEF Agree, Stalls
<1>8. Agree(o, c)
  BY <1>5, <1>6, <1>7 DEF Agree
<1>9. a.recovery \in Nat /\ a.activity \in Nat /\ w.recovery \in Nat /\ w.activity \in Nat
  BY <1>1, <1>5, Fields DEF Agree
<1>10. lines # <<>> => a.activity = 0
  BY <1>5
<1>11. lines = <<>> => a = w
  BY <1>5
<1>12. Contains(lines, "beat") => lines # <<>>
  BY DEF Contains
<1>13. o.waiting => o.recovery = 0
  BY <1>6
<1>14. o.recovery <= w.recovery /\ o.activity <= w.activity
  BY <1>5, <1>6, <1>9, <1>10, <1>11
<1>15. Contains(lines, "beat") => o.recovery = 0 /\ o.activity = 0
  BY <1>5, <1>6, <1>10, <1>12
<1>16. o.activity # 0 => o.waiting = health.waiting
  BY <1>1, <1>6, <1>10, <1>11
<1>17. o.poll = 0
  BY <1>1, <1>5, <1>6
<1> QED
  BY <1>1, <1>8, <1>13, <1>14, <1>15, <1>16, <1>17 DEF o, c

(* A reading that fails.                                                   *)
LEMMA BlindAgrees ==
  ASSUME Agree(health, stall)
  PROVE  LET o == ObserveBlind(health)
         IN  Agree(o, Pardoned(stall)) /\ o.poll = 0 /\ o.recovery = 0 /\ o.activity = 0
<1> DEFINE w == Woke(health)
           a == Blind(w)
           o == ObserveBlind(health)
<1>1. w \in Monitors /\ w.poll = 0 /\ w.waiting = health.waiting
  BY WokeIs DEF Agree
<1>2. o = Settled(a)
  BY DEF ObserveBlind
<1> HIDE DEF w
<1>4. a \in Monitors
  BY <1>1, Ranges DEF Blind, Monitors
<1>5. a.activity = 0 /\ a.recovery = 0 /\ a.poll = w.poll /\ a.waiting = w.waiting
  BY <1>1 DEF Blind, Monitors
<1> HIDE DEF a, o
<1>6. /\ o \in Monitors /\ o.poll = 0 /\ o.waiting = health.waiting
      /\ o.recovery = 0 /\ o.activity = 0
  BY <1>1, <1>2, <1>4, <1>5, SettledIs
<1>7. /\ Pardoned(stall) \in Stalls /\ Pardoned(stall).time = 0
      /\ Pardoned(stall).excused = stall.excused
  BY PardonedIs DEF Agree
<1> QED
  BY <1>6, <1>7 DEF Agree, o

(* Time passes for both.                                                   *)
LEMMA LaterAgrees ==
  ASSUME Agree(health, stall)
  PROVE  LET o == HealthLater(health)
         IN  /\ Agree(o, [stall EXCEPT !.time = Older(@, UnhealthyLimit + 1),
                                       !.masked = Aged(@, Stale + 1)])
             /\ o.recovery = Older(health.recovery, UnhealthyLimit + 1)
             /\ o.activity = Older(health.activity, Stale + 1)
             /\ o.poll = Older(health.poll, PollGap + 1)
             /\ o.waiting = health.waiting
<1> DEFINE o == HealthLater(health)
           c == [stall EXCEPT !.time = Older(@, UnhealthyLimit + 1), !.masked = Aged(@, Stale + 1)]
<1>0. health \in Monitors /\ stall \in Stalls
  BY DEF Agree
<1>1. /\ o.recovery = Older(health.recovery, UnhealthyLimit + 1)
      /\ o.activity = Older(health.activity, Stale + 1)
      /\ o.poll = Older(health.poll, PollGap + 1)
      /\ o.waiting = health.waiting
  BY <1>0 DEF HealthLater, Monitors
<1>2. c.time = Older(stall.time, UnhealthyLimit + 1) /\ c.excused = stall.excused
  BY <1>0 DEF Stalls
<1>3. ASSUME NEW limit \in Nat, NEW age \in 0 .. limit PROVE Older(age, limit) \in 0 .. limit
  BY DEF Older
<1>4. ASSUME NEW limit \in Nat, NEW age \in -1 .. limit PROVE Aged(age, limit) \in -1 .. limit
  BY DEF Aged, Older
<1>5. Stale + 1 \in Nat /\ UnhealthyLimit + 1 \in Nat /\ PollGap + 1 \in Nat /\ Stale + Stable \in Nat
  BY ReconnectAssumption
<1>7. o \in Monitors
  <2>1. /\ Older(health.activity, Stale + 1) \in 0 .. Stale + 1
        /\ Older(health.recovery, UnhealthyLimit + 1) \in 0 .. UnhealthyLimit + 1
        /\ Aged(health.health, Stale + 1) \in -1 .. Stale + 1
        /\ Aged(health.since, Stale + Stable) \in -1 .. Stale + Stable
        /\ Older(health.poll, PollGap + 1) \in 0 .. PollGap + 1
    BY <1>3, <1>4, <1>5, <1>0, Fields
  <2> QED
    BY <1>0, <2>1 DEF HealthLater, Monitors
<1>8. c \in Stalls
  <2>1. /\ stall.time \in 0 .. UnhealthyLimit + 1 /\ stall.masked \in -1 .. Stale + 1
        /\ stall.excused \in BOOLEAN
    BY <1>0 DEF Stalls
  <2>2. /\ Older(stall.time, UnhealthyLimit + 1) \in 0 .. UnhealthyLimit + 1
        /\ Aged(stall.masked, Stale + 1) \in -1 .. Stale + 1
    BY <1>3, <1>4, <1>5, <2>1
  <2> QED
    BY <1>0, <2>1, <2>2 DEF Stalls
<1> HIDE DEF o, c
<1>9. Agree(o, c)
  BY <1>1, <1>2, <1>7, <1>8 DEF Agree
<1> QED
  BY <1>1, <1>9 DEF o, c

-----------------------------------------------------------------------------
(* The launches that are remembered.                                        *)

(* The list of launches grows with each and else only shrinks.             *)
LEMMA RecentIs ==
  ASSUME NEW l \in Seq(Nat)
  PROVE  Recent(l) \in Seq(Nat) /\ Len(Recent(l)) <= Len(l)
<1> DEFINE old == {i \in DOMAIN l : l[i] > Window}
           c == Cardinality(old)
<1>1. c \in Nat
  <2>1. IsFiniteSet(1 .. Len(l))
    BY FS_Interval
  <2>2. old \subseteq 1 .. Len(l)
    OBVIOUS
  <2> QED
    BY <2>1, <2>2, FS_Subset, FS_CardinalityType
<1>2. Recent(l) = SubSeq(l, c + 1, Len(l))
  BY DEF Recent
<1> HIDE DEF c
<1>3. SubSeq(l, c + 1, Len(l)) \in Seq(Nat) /\ Len(SubSeq(l, c + 1, Len(l))) <= Len(l)
  BY <1>1
<1> QED
  BY <1>2, <1>3

(* A launch is remembered.                                                 *)
LEMMA ListLaunch ==
  ASSUME NEW b, BackoffOK(b), b.launches \in Seq(Nat)
  PROVE  /\ RecordLaunch(b).launches \in Seq(Nat)
         /\ Len(RecordLaunch(b).launches) <= Len(b.launches) + 1
<1>1. RecordLaunch(b).launches = Recent(Append(b.launches, 0))
  BY DEF RecordLaunch, BackoffOK
<1>2. /\ Append(b.launches, 0) \in Seq(Nat)
      /\ Len(Append(b.launches, 0)) = Len(b.launches) + 1
  OBVIOUS
<1>3. /\ Recent(Append(b.launches, 0)) \in Seq(Nat)
      /\ Len(Recent(Append(b.launches, 0))) <= Len(Append(b.launches, 0))
  BY <1>2, RecentIs
<1> QED
  BY <1>1, <1>2, <1>3

(* A failure may clear the list, and remembers no more launches than       *)
(* failures.                                                               *)
LEMMA ListFailure ==
  ASSUME NEW b, BackoffOK(b), b.launches \in Seq(Nat), b.cool <= Cooldown,
         Len(b.launches) <= b.failures + 1
  PROVE  /\ RecordFailure(b).launches \in Seq(Nat) /\ RecordFailure(b).cool <= Cooldown
         /\ Len(RecordFailure(b).launches) <= RecordFailure(b).failures
<1> DEFINE failures == b.failures + 1
           launches == Recent(b.launches)
           r == RecordFailure(b)
<1>1. CASE failures > MaxFailures \/ Len(launches) > MaxLaunches
  <2>1. r = [failures |-> 0, launches |-> <<>>, next |-> Cooldown, cool |-> Cooldown]
    BY <1>1 DEF RecordFailure, Fresh
  <2> HIDE DEF r
  <2>2. r.launches = <<>> /\ r.cool = Cooldown /\ r.failures = 0
    BY <2>1
  <2>3. r.launches \in Seq(Nat) /\ Len(r.launches) = 0
    BY <2>2
  <2> QED
    BY <2>2, <2>3, Limits DEF r
<1>2. CASE ~(failures > MaxFailures \/ Len(launches) > MaxLaunches)
  <2>1. r = [b EXCEPT !.failures = failures, !.launches = launches,
                      !.next = Delay(failures)]
    BY <1>2 DEF RecordFailure
  <2>2. launches \in Seq(Nat) /\ Len(launches) <= Len(b.launches)
    BY RecentIs
  <2>3. b.failures \in Nat /\ Len(b.launches) \in Nat /\ Len(launches) \in Nat
    BY <2>2 DEF BackoffOK
  <2> HIDE DEF failures, launches, r
  <2>4. r.launches = launches /\ r.cool = b.cool /\ r.failures = failures
    BY <2>1 DEF BackoffOK
  <2>5. Len(launches) <= failures
    BY <2>2, <2>3 DEF failures
  <2> QED
    BY <2>2, <2>4, <2>5 DEF r
<1> QED
  BY <1>1, <1>2

(* Time leaves the list as long as it is.                                  *)
LEMMA ListLater ==
  ASSUME NEW b, BackoffOK(b), b.launches \in Seq(Nat), b.cool <= Cooldown
  PROVE  /\ BackoffLater(b).launches \in Seq(Nat) /\ BackoffLater(b).cool <= Cooldown
         /\ Len(BackoffLater(b).launches) = Len(b.launches)
<1> DEFINE l == [i \in DOMAIN b.launches |-> Older(b.launches[i], Window + 1)]
<1>1. BackoffLater(b).launches = l /\ BackoffLater(b).cool = Sooner(b.cool)
  BY DEF BackoffLater, BackoffOK
<1>2. ASSUME NEW i \in DOMAIN b.launches PROVE Older(b.launches[i], Window + 1) \in Nat
  <2>1. Window \in Nat /\ b.launches[i] \in Nat
    BY ReconnectAssumption
  <2> QED
    BY <2>1 DEF Older
<1>3. l \in Seq(Nat) /\ Len(l) = Len(b.launches)
  BY <1>2
<1>4. Sooner(b.cool) <= Cooldown
  BY Limits DEF Sooner, BackoffOK
<1> QED
  BY <1>1, <1>3, <1>4

-----------------------------------------------------------------------------
(* The steps of the monitor.                                                *)

(* The limits of the clocks.                                               *)
LEMMA Clocks ==
  /\ Stale \in Nat /\ UnhealthyLimit \in Nat /\ PollGap \in Nat
  /\ PollGap <= Stale /\ Stale < UnhealthyLimit
BY ReconnectAssumption

(* A monitor that has not begun, and none.                                 *)
LEMMA NewMonitor ==
  ASSUME health' = NewHealth, stall' = NoStall, beatAge' = Stale + 1
  PROVE  MonitorOK' /\ Watched'
<1>1. NewHealth \in Monitors /\ NoStall \in Stalls /\ Stale + 1 \in 0 .. Stale + 1
  BY NewAgrees, Clocks DEF Agree
<1>2. MonitorOK'
  BY <1>1 DEF MonitorOK
<1>3. Agree(health', stall') /\ health'.recovery = 0 /\ health'.activity = 0
      /\ health'.poll = 0 /\ ~health'.waiting
  BY NewAgrees
<1>4. Watched'
  BY <1>3, Clocks DEF Watched
<1> QED
  BY <1>2, <1>4

(* A monitor nobody touches, of a core that does not begin.                *)
LEMMA SameMonitor ==
  ASSUME MonitorOK, Watched, UNCHANGED <<health, stall, beatAge>>,
         core' = "running" => core = "running"
  PROVE  MonitorOK' /\ Watched'
BY DEF MonitorOK, Watched

(* A monitor whose core is gone.                                           *)
LEMMA NoMonitor ==
  ASSUME MonitorOK, health' = NewHealth, UNCHANGED <<stall, beatAge>>, core' # "running"
  PROVE  MonitorOK' /\ Watched'
BY NewAgrees DEF MonitorOK, Watched, Agree

(* Lists as they were.                                                     *)
LEMMA SameList ==
  ASSUME ListOK, BackoffOK(backoff), UNCHANGED <<backoff, desired>>,
         core' = core \/ (core' # "none" /\ desired)
  PROVE  ListOK'
<1>1. backoff.failures \in Nat /\ Len(backoff.launches) \in Nat
  BY DEF BackoffOK, ListOK
<1> QED
  BY <1>1 DEF ListOK

(* A fresh list.                                                           *)
LEMMA FreshList ==
  ASSUME backoff' = Fresh
  PROVE  ListOK'
<1>1. Fresh.launches = <<>> /\ Fresh.failures = 0 /\ Fresh.cool = 0
  BY DEF Fresh
<1>2. Fresh.launches \in Seq(Nat) /\ Len(Fresh.launches) = 0
  BY <1>1
<1> QED
  BY <1>1, <1>2, Limits DEF ListOK

(* A failure of what was launched.                                         *)
LEMMA FailedList ==
  ASSUME NEW b, BackoffOK(b), b.launches \in Seq(Nat), b.cool <= Cooldown,
         Len(b.launches) <= b.failures + 1,
         backoff' = RecordFailure(b)
  PROVE  ListOK'
<1> DEFINE r == RecordFailure(b)
<1>1. /\ r.launches \in Seq(Nat) /\ r.cool <= Cooldown
      /\ Len(r.launches) <= r.failures
  BY ListFailure
<1>2. BackoffOK(r)
  BY FailureOK
<1> HIDE DEF r
<1>3. r.failures \in Nat /\ Len(r.launches) \in Nat
  BY <1>1, <1>2 DEF BackoffOK
<1>4. backoff' = r
  BY DEF r
<1> QED
  BY <1>1, <1>3, <1>4 DEF ListOK

(* An attempt to start.                                                    *)
LEMMA AttemptWatches ==
  ASSUME Monitored, core # "running",
         NEW b, BackoffOK(b), b.launches \in Seq(Nat), b.cool <= Cooldown,
         Len(b.launches) <= b.failures,
         NEW n,
         UNCHANGED <<adapter, others>>,
         NoAdapter(b, n) \/ SameNameRunning(b, n) \/ Spawn(b, n) \/ SpawnFails(b, n)
  PROVE  Monitored'
<1>0. b.failures \in Nat /\ Len(b.launches) \in Nat
  BY DEF BackoffOK
<1>1. CASE NoAdapter(b, n) \/ SameNameRunning(b, n)
  <2>1. /\ backoff' = b /\ UNCHANGED <<core, health, stall, beatAge, faults>>
        /\ link' \in {"Waiting", "Error"}
    BY <1>1 DEF NoAdapter, SameNameRunning
  <2>2. WorldOK'
    BY <2>1 DEF Monitored, WorldOK
  <2>3. ListOK'
    BY <1>0, <2>1 DEF ListOK
  <2>4. MonitorOK' /\ Watched'
    BY <2>1, SameMonitor DEF Monitored
  <2> QED
    BY <2>2, <2>3, <2>4 DEF Monitored
<1>2. CASE Spawn(b, n)
  <2>1. /\ backoff' = RecordLaunch(b) /\ core' = "running" /\ health' = NewHealth
        /\ link' = "Connecting" /\ stall' = NoStall /\ beatAge' = Stale + 1
        /\ desired' = TRUE /\ UNCHANGED faults
    BY <1>2 DEF Spawn
  <2>2. WorldOK'
    BY <2>1 DEF Monitored, WorldOK
  <2>3. ListOK'
    <3>1. /\ BackoffOK(RecordLaunch(b)) /\ RecordLaunch(b).failures = b.failures
          /\ RecordLaunch(b).cool = b.cool
      BY LaunchOK
    <3>2. /\ RecordLaunch(b).launches \in Seq(Nat)
          /\ Len(RecordLaunch(b).launches) <= Len(b.launches) + 1
      BY ListLaunch
    <3> QED
      BY <1>0, <2>1, <3>1, <3>2 DEF ListOK
  <2>4. MonitorOK' /\ Watched'
    BY <2>1, NewMonitor
  <2> QED
    BY <2>2, <2>3, <2>4 DEF Monitored
<1>3. CASE SpawnFails(b, n)
  <2>1. /\ backoff' = RecordFailure(RecordLaunch(b))
        /\ UNCHANGED <<core, health, stall, beatAge>>
        /\ link' = "Error" /\ Fault
    BY <1>3 DEF SpawnFails
  <2>2. WorldOK'
    BY <2>1, ControlAssumption DEF Monitored, WorldOK, Fault
  <2>3. ListOK'
    <3> DEFINE l == RecordLaunch(b)
    <3>1. BackoffOK(l) /\ l.failures = b.failures /\ l.cool = b.cool
      BY LaunchOK
    <3>2. l.launches \in Seq(Nat) /\ Len(l.launches) <= Len(b.launches) + 1
      BY ListLaunch
    <3>3. backoff' = RecordFailure(l)
      BY <2>1
    <3> HIDE DEF l
    <3>4. Len(l.launches) <= l.failures + 1
      BY <1>0, <3>1, <3>2
    <3> QED
      BY <3>1, <3>2, <3>3, <3>4, FailedList
  <2>4. MonitorOK' /\ Watched'
    BY <2>1, SameMonitor DEF Monitored
  <2> QED
    BY <2>2, <2>3, <2>4 DEF Monitored
<1> QED
  BY <1>1, <1>2, <1>3

(* The core that is stopped takes the monitor with it.                     *)
LEMMA StopWatches ==
  ASSUME Monitored, StopCore, link' \in {"Offline", "Waiting"}, UNCHANGED adapter, ListOK'
  PROVE  Monitored'
<1>1. health' = NewHealth /\ stall' = NoStall /\ beatAge' = Stale + 1
  BY DEF StopCore
<1>2. WorldOK'
  <2>1. CASE UNCHANGED <<others, faults>>
    BY <2>1 DEF Monitored, WorldOK
  <2>2. CASE others' = "orphan" /\ Fault
    BY <2>2, ControlAssumption DEF Monitored, WorldOK, Fault
  <2> QED
    BY <2>1, <2>2 DEF StopCore
<1>3. MonitorOK' /\ Watched'
  BY <1>1, NewMonitor
<1> QED
  BY <1>2, <1>3 DEF Monitored

(* The user.                                                               *)
LEMMA UserWatches ==
  ASSUME Controlled, Monitored, Disconnect \/ Connect \/ ConnectRefused
  PROVE  Monitored'
<1>1. CASE Disconnect
  <2>1. ListOK'
    BY <1>1, FreshList DEF Disconnect
  <2> QED
    BY <1>1, <2>1, StopWatches DEF Disconnect
<1>2. CASE Connect
  <2>1. UNCHANGED <<adapter, others>>
    BY <1>2 DEF Connect, AttemptStart
  <2>2. /\ BackoffOK(Fresh) /\ Fresh.launches = <<>> /\ Fresh.failures = 0 /\ Fresh.cool = 0
    BY FreshOK DEF Fresh
  <2>3. /\ Fresh.launches \in Seq(Nat) /\ Fresh.cool <= Cooldown
        /\ Len(Fresh.launches) <= Fresh.failures
    BY <2>2, Limits
  <2>4. CASE StillRuns(Fresh, 0)
    <3>1. backoff' = Fresh /\ UNCHANGED <<core, health, link, stall, beatAge, faults>>
      BY <2>4 DEF StillRuns
    <3>2. WorldOK'
      BY <2>1, <3>1 DEF Monitored, WorldOK
    <3>3. ListOK'
      BY <3>1, FreshList
    <3>4. MonitorOK' /\ Watched'
      BY <3>1, SameMonitor DEF Monitored
    <3> QED
      BY <3>2, <3>3, <3>4 DEF Monitored
  <2>5. CASE ~StillRuns(Fresh, 0)
    <3>1. /\ core # "running"
          /\ \/ NoAdapter(Fresh, 0) \/ SameNameRunning(Fresh, 0)
             \/ Spawn(Fresh, 0) \/ SpawnFails(Fresh, 0)
      BY <1>2, <2>5 DEF Connect, AttemptStart
    <3> QED
      BY <2>1, <2>2, <2>3, <3>1, AttemptWatches
  <2> QED
    BY <2>4, <2>5
<1>3. CASE ConnectRefused
  <2>1. /\ UNCHANGED <<desired, core, health, stall, beatAge, backoff, adapter, others, faults>>
        /\ link' = "Error"
    BY <1>3 DEF ConnectRefused
  <2>2. WorldOK'
    BY <2>1 DEF Monitored, WorldOK
  <2>3. ListOK'
    BY <2>1, SameList DEF Monitored, Controlled, BudgetOK
  <2>4. MonitorOK' /\ Watched'
    BY <2>1, SameMonitor DEF Monitored
  <2> QED
    BY <2>2, <2>3, <2>4 DEF Monitored
<1> QED
  BY <1>1, <1>2, <1>3

(* The lines of a batch.                                                   *)
LEMMA LinesAreKinds == Lines \subseteq Seq(Kinds)
<1> SUFFICES ASSUME NEW lines \in Lines PROVE lines \in Seq(Kinds)
  OBVIOUS
<1>1. PICK n \in 0 .. MaxLines : lines \in [1 .. n -> Kinds]
  BY DEF Lines, BoundedSeq, SeqOf
<1>2. n \in Nat
  BY ControlAssumption
<1> QED
  BY <1>1, <1>2

(* What is read of the log keeps the monitor in order, unless it must      *)
(* restart the core.                                                       *)
LEMMA ObserveWatches ==
  ASSUME Controlled, Monitored, TimerObserve
  PROVE  MonitorOK' /\ Watched'
<1>1. PICK lines \in Lines :
        /\ core = "running" /\ ~MustRestart(Observe(health, lines))
        /\ health' = Observe(health, lines)
        /\ stall' = NotedAll(lines)
        /\ beatAge' = IF Contains(lines, "beat") THEN 0 ELSE beatAge
        /\ UNCHANGED core
  BY DEF TimerObserve
<1> DEFINE o == Observe(health, lines)
           c == NotedAll(lines)
<1>2. lines \in Seq(Kinds)
  BY LinesAreKinds
<1>3. Agree(health, stall)
  BY <1>1 DEF Monitored, Watched
<1>4. /\ Agree(o, c)
      /\ o.poll = 0
      /\ o.waiting => o.recovery = 0
      /\ o.recovery <= IF health.poll > PollGap THEN 0 ELSE health.recovery
      /\ o.activity <= IF health.poll > PollGap THEN 0 ELSE health.activity
      /\ Contains(lines, "beat") => o.recovery = 0 /\ o.activity = 0
  BY <1>2, <1>3, Observed
<1>5. ~Stalled(o)
  BY <1>1 DEF MustRestart, Controlled, WishOK
<1>6. health' = o /\ stall' = c
  BY <1>1
<1> HIDE DEF o, c
<1>7. /\ o.recovery \in Nat /\ o.activity \in Nat
      /\ health.recovery \in Nat /\ health.activity \in Nat /\ beatAge \in 0 .. Stale + 1
  BY <1>3, <1>4, Fields DEF Agree, Monitored, MonitorOK
<1>8. o.recovery <= health.recovery /\ o.activity <= health.activity
  BY <1>4, <1>7
<1>9. MonitorOK'
  BY <1>1, <1>4, <1>6, <1>7, Clocks DEF MonitorOK, Agree
<1>10. beatAge' <= Stale => o.recovery <= beatAge' /\ o.activity <= beatAge'
  <2>1. CASE Contains(lines, "beat")
    BY <1>1, <1>4, <2>1
  <2>2. CASE ~Contains(lines, "beat")
    <3>1. beatAge <= Stale => health.recovery <= beatAge /\ health.activity <= beatAge
      BY <1>1 DEF Monitored, Watched
    <3> QED
      BY <1>1, <1>7, <1>8, <2>2, <3>1
  <2> QED
    BY <2>1, <2>2
<1>11. ~o.waiting => o.recovery <= IF o.authed THEN Stale ELSE UnhealthyLimit
  BY <1>5, <1>7, Clocks DEF Stalled
<1>12. Watched'
  BY <1>1, <1>4, <1>6, <1>10, <1>11 DEF Watched
<1> QED
  BY <1>9, <1>12

(* A log that cannot be read gives a grace.                                *)
LEMMA BlindWatches ==
  ASSUME Monitored, TimerBlind
  PROVE  MonitorOK' /\ Watched'
<1> DEFINE o == ObserveBlind(health)
<1>1. /\ core = "running" /\ health' = o /\ stall' = Pardoned(stall)
      /\ UNCHANGED <<core, beatAge>>
  BY DEF TimerBlind
<1>2. Agree(o, Pardoned(stall)) /\ o.poll = 0 /\ o.recovery = 0 /\ o.activity = 0
  BY <1>1, BlindAgrees DEF Monitored, Watched
<1> HIDE DEF o
<1>3. beatAge \in 0 .. Stale + 1
  BY DEF Monitored, MonitorOK
<1>4. MonitorOK'
  BY <1>1, <1>2, <1>3 DEF MonitorOK, Agree
<1>5. Watched'
  BY <1>1, <1>2, <1>3, Clocks DEF Watched
<1> QED
  BY <1>4, <1>5

(* The link a monitor shows.                                               *)
LEMMA ShownIs ==
  ASSUME NEW h \in Monitors
  PROVE  Shown(h) \in {"Offline", "Connecting", "Online", "Waiting", "Degraded", "Error"}
<1>1. CASE h.state \in {"Online", "Degraded", "Waiting"}
  BY <1>1 DEF Shown
<1>2. CASE h.state = "Connecting"
  BY <1>2 DEF Shown
<1> QED
  BY <1>1, <1>2, Fields

(* The timer.                                                              *)
LEMMA TimerWatches ==
  ASSUME Controlled, Monitored, OnTimer
  PROVE  Monitored'
<1>0. BackoffOK(backoff)
  BY DEF Controlled, BudgetOK
<1>1. CASE TimerWait
  <2>1. /\ UNCHANGED <<desired, core, health, stall, beatAge, backoff, adapter, others, faults>>
        /\ link' \in {"Waiting", link}
    BY <1>1 DEF TimerWait, TimerIdle
  <2>2. WorldOK'
    BY <2>1 DEF Monitored, WorldOK
  <2>3. ListOK'
    BY <1>0, <2>1, SameList DEF Monitored
  <2>4. MonitorOK' /\ Watched'
    BY <2>1, SameMonitor DEF Monitored
  <2> QED
    BY <2>2, <2>3, <2>4 DEF Monitored
<1>2. CASE TimerAttempt
  <2>1. core = "none"
    BY <1>2 DEF TimerAttempt
  <2>2. /\ backoff.launches \in Seq(Nat) /\ backoff.cool <= Cooldown
        /\ Len(backoff.launches) <= backoff.failures
    <3>1. backoff.failures \in Nat
      BY <1>0 DEF BackoffOK
    <3> QED
      BY <2>1, <3>1 DEF Monitored, ListOK
  <2>3. /\ UNCHANGED <<adapter, others>>
        /\ \/ NoAdapter(backoff, burst) \/ SameNameRunning(backoff, burst)
           \/ Spawn(backoff, burst) \/ SpawnFails(backoff, burst)
    BY <1>2 DEF TimerAttempt, AttemptStart, StillRuns
  <2> QED
    BY <1>0, <2>1, <2>2, <2>3, AttemptWatches
<1>3. CASE TimerCoreExited
  <2>1. /\ core = "dead" /\ core' = "none" /\ health' = NewHealth
        /\ link' \in {link, "Waiting"}
        /\ UNCHANGED <<adapter, others, faults, stall, beatAge>>
    BY <1>3 DEF TimerCoreExited, TimerIdle
  <2>2. WorldOK'
    BY <2>1 DEF Monitored, WorldOK
  <2>3. ListOK'
    <3>1. CASE desired
      <4>1. backoff' = RecordFailure(backoff)
        BY <1>3, <3>1 DEF TimerCoreExited, TimerIdle, Controlled, WishOK
      <4>2. /\ backoff.launches \in Seq(Nat) /\ backoff.cool <= Cooldown
            /\ Len(backoff.launches) <= backoff.failures + 1
        BY <2>1, <3>1 DEF Monitored, ListOK
      <4> QED
        BY <1>0, <4>1, <4>2, FailedList
    <3>2. CASE ~desired
      <4>1. backoff' = backoff /\ desired' = desired
        BY <1>3, <3>2 DEF TimerCoreExited, TimerIdle
      <4> QED
        BY <2>1, <3>2, <4>1 DEF Monitored, ListOK
    <3> QED
      BY <3>1, <3>2
  <2>4. MonitorOK' /\ Watched'
    BY <2>1, NoMonitor DEF Monitored
  <2> QED
    BY <2>2, <2>3, <2>4 DEF Monitored
<1>4. CASE TimerObserve
  <2>1. MonitorOK' /\ Watched'
    BY <1>4, ObserveWatches
  <2>2. PICK h : /\ backoff' = IF IsStable(h) THEN Fresh ELSE backoff
                 /\ health' = h /\ link' = Shown(h)
                 /\ UNCHANGED <<desired, core, adapter, others, faults>>
    BY <1>4 DEF TimerObserve
  <2>3. WorldOK'
    <3>1. h \in Monitors
      BY <2>1, <2>2 DEF MonitorOK
    <3> QED
      BY <2>2, <3>1, ShownIs DEF Monitored, WorldOK
  <2>4. ListOK'
    <3>1. backoff' = Fresh \/ UNCHANGED backoff
      BY <2>2
    <3> QED
      BY <1>0, <2>2, <3>1, FreshList, SameList DEF Monitored
  <2> QED
    BY <2>1, <2>3, <2>4 DEF Monitored
<1>5. CASE TimerBlind
  <2>1. MonitorOK' /\ Watched'
    BY <1>5, BlindWatches
  <2>2. /\ backoff' = Fresh \/ UNCHANGED backoff
        /\ link' = "Degraded"
        /\ UNCHANGED <<desired, core, adapter, others, faults>>
    BY <1>5 DEF TimerBlind
  <2>3. WorldOK'
    BY <2>2 DEF Monitored, WorldOK
  <2>4. ListOK'
    BY <1>0, <2>2, FreshList, SameList DEF Monitored
  <2> QED
    BY <2>1, <2>3, <2>4 DEF Monitored
<1>6. CASE TimerRestart
  <2>1. PICK h : /\ core = "running" /\ StopCore
                 /\ backoff' = RecordFailure(IF IsStable(h) THEN Fresh ELSE backoff)
                 /\ link' = "Waiting"
                 /\ UNCHANGED adapter
    BY <1>6 DEF TimerRestart
  <2> DEFINE b == IF IsStable(h) THEN Fresh ELSE backoff
  <2>2. /\ BackoffOK(b) /\ b.launches \in Seq(Nat) /\ b.cool <= Cooldown
        /\ Len(b.launches) <= b.failures + 1
    <3>1. CASE IsStable(h)
      <4>1. b.launches = <<>> /\ BackoffOK(b) /\ b.failures = 0 /\ b.cool = 0
        BY <3>1, FreshOK DEF Fresh
      <4> HIDE DEF b
      <4> QED
        BY <4>1, Limits
    <3>2. CASE ~IsStable(h)
      <4>1. b = backoff
        BY <3>2
      <4> HIDE DEF b
      <4>2. backoff.failures \in Nat /\ Len(backoff.launches) \in Nat
        BY <1>0 DEF BackoffOK, Monitored, ListOK
      <4>3. Len(backoff.launches) <= backoff.failures + 1
        BY <4>2 DEF Monitored, ListOK
      <4> QED
        BY <1>0, <4>1, <4>3 DEF Monitored, ListOK
    <3> QED
      BY <3>1, <3>2
  <2>3. backoff' = RecordFailure(b)
    BY <2>1
  <2> HIDE DEF b
  <2>4. ListOK'
    BY <2>2, <2>3, FailedList
  <2> QED
    BY <2>1, <2>4, StopWatches
<1> QED
  BY <1>1, <1>2, <1>3, <1>4, <1>5, <1>6 DEF OnTimer

(* Time passes for a monitor.                                              *)
LEMMA TickWatches ==
  ASSUME Monitored, Tick
  PROVE  MonitorOK' /\ Watched'
<1>1. CASE core # "running"
  <2>1. UNCHANGED <<core, health, stall, beatAge>>
    BY <1>1 DEF Tick
  <2> QED
    BY <2>1, SameMonitor DEF Monitored
<1>2. CASE core = "running"
  <2> DEFINE o == HealthLater(health)
             c == [stall EXCEPT !.time = Older(@, UnhealthyLimit + 1),
                                !.masked = Aged(@, Stale + 1)]
  <2>1. health' = o /\ stall' = c /\ beatAge' = Older(beatAge, Stale + 1) /\ UNCHANGED core
    BY <1>2 DEF Tick
  <2>2. /\ Agree(o, c)
        /\ o.recovery = Older(health.recovery, UnhealthyLimit + 1)
        /\ o.activity = Older(health.activity, Stale + 1)
        /\ o.poll = Older(health.poll, PollGap + 1)
        /\ o.waiting = health.waiting
    BY <1>2, LaterAgrees DEF Monitored, Watched
  <2> HIDE DEF o, c
  <2>3. /\ health.recovery \in 0 .. UnhealthyLimit + 1 /\ health.activity \in 0 .. Stale + 1
        /\ health.poll \in 0 .. PollGap + 1 /\ beatAge \in 0 .. Stale + 1
    BY Fields DEF Monitored, MonitorOK
  <2>4. /\ health.waiting /\ health.poll <= PollGap => health.recovery <= health.poll
        /\ beatAge <= Stale => health.recovery <= beatAge /\ health.activity <= beatAge
    BY <1>2 DEF Monitored, Watched
  <2>5. beatAge' \in 0 .. Stale + 1
    BY <2>1, <2>3, Clocks DEF Older
  <2>6. MonitorOK'
    BY <2>1, <2>2, <2>5 DEF MonitorOK, Agree
  <2>7. o.waiting /\ o.poll <= PollGap => o.recovery <= o.poll
    BY <2>2, <2>3, <2>4, Clocks DEF Older
  <2>8. beatAge' <= Stale => o.recovery <= beatAge' /\ o.activity <= beatAge'
    BY <2>1, <2>2, <2>3, <2>4, Clocks DEF Older
  <2>9. o.poll # 0
    BY <2>2, <2>3, Clocks DEF Older
  <2>10. Watched'
    BY <2>1, <2>2, <2>7, <2>8, <2>9 DEF Watched
  <2> QED
    BY <2>6, <2>10
<1> QED
  BY <1>1, <1>2

(* The world.                                                              *)
LEMMA WorldWatches ==
  ASSUME Controlled, Monitored,
         Tick \/ CoreExits \/ AdapterGoes \/ AdapterComes \/ ForeignStarts \/ OtherEnds
  PROVE  Monitored'
<1>0. BackoffOK(backoff)
  BY DEF Controlled, BudgetOK
<1>1. CASE Tick
  <2>1. MonitorOK' /\ Watched'
    BY <1>1, TickWatches
  <2>2. WorldOK'
    BY <1>1 DEF Tick, Monitored, WorldOK
  <2>3. ListOK'
    <3>1. backoff' = BackoffLater(backoff) /\ UNCHANGED <<core, desired>>
      BY <1>1 DEF Tick
    <3>2. BackoffLater(backoff).failures = backoff.failures
      BY <1>0, LaterOK
    <3>3. /\ BackoffLater(backoff).launches \in Seq(Nat)
          /\ BackoffLater(backoff).cool <= Cooldown
          /\ Len(BackoffLater(backoff).launches) = Len(backoff.launches)
      BY <1>0, ListLater DEF Monitored, ListOK
    <3> QED
      BY <3>1, <3>2, <3>3 DEF Monitored, ListOK
  <2> QED
    BY <2>1, <2>2, <2>3 DEF Monitored
<1>2. CASE CoreExits
  <2>1. /\ UNCHANGED <<desired, health, stall, beatAge, backoff>>
        /\ core = "running" /\ core' = "dead" /\ desired
    BY <1>2 DEF CoreExits, Controlled, WishOK
  <2>2. WorldOK'
    BY <1>2 DEF CoreExits, Monitored, WorldOK
  <2>3. ListOK'
    BY <1>0, <2>1, SameList DEF Monitored
  <2>4. MonitorOK' /\ Watched'
    BY <2>1, SameMonitor DEF Monitored
  <2> QED
    BY <2>2, <2>3, <2>4 DEF Monitored
<1>3. CASE AdapterGoes \/ AdapterComes \/ ForeignStarts \/ OtherEnds
  <2>1. UNCHANGED <<desired, health, stall, beatAge, backoff, core>>
    BY <1>3 DEF AdapterGoes, AdapterComes, ForeignStarts, OtherEnds
  <2>2. WorldOK'
    <3>1. CASE AdapterGoes
      <4>1. faults' \in 0 .. MaxFaults
        BY <3>1, ControlAssumption DEF AdapterGoes, Monitored, WorldOK, Fault
      <4>2. adapter' = FALSE /\ UNCHANGED <<link, others>>
        BY <3>1 DEF AdapterGoes
      <4> QED
        BY <4>1, <4>2 DEF Monitored, WorldOK
    <3>2. CASE ForeignStarts
      BY <3>2, ControlAssumption DEF ForeignStarts, Monitored, WorldOK, Fault
    <3>3. CASE AdapterComes \/ OtherEnds
      BY <3>3 DEF AdapterComes, OtherEnds, Monitored, WorldOK
    <3> QED
      BY <1>3, <3>1, <3>2, <3>3
  <2>3. ListOK'
    BY <1>0, <2>1, SameList DEF Monitored
  <2>4. MonitorOK' /\ Watched'
    BY <2>1, SameMonitor DEF Monitored
  <2> QED
    BY <2>2, <2>3, <2>4 DEF Monitored
<1> QED
  BY <1>1, <1>2, <1>3

(* The invariant of the monitor, next to that of the connection.           *)
LEMMA StaysMonitored == Spec => [](Controlled /\ Monitored)
<1>1. Init => Monitored
  <2> SUFFICES ASSUME Init PROVE Monitored
    OBVIOUS
  <2>1. WorldOK
    BY ControlAssumption DEF Init, WorldOK
  <2>2. ListOK
    <3>1. Fresh.launches = <<>> /\ Fresh.failures = 0 /\ Fresh.cool = 0
      BY DEF Fresh
    <3>2. Fresh.launches \in Seq(Nat) /\ Len(Fresh.launches) = 0
      BY <3>1
    <3> QED
      BY <3>1, <3>2, Limits DEF Init, ListOK
  <2>3. MonitorOK
    BY NewAgrees, Clocks DEF Init, MonitorOK, Agree
  <2>4. Watched
    BY DEF Init, Watched
  <2> QED
    BY <2>1, <2>2, <2>3, <2>4 DEF Monitored
<1>2. Controlled /\ Monitored /\ [Next]_vars => Monitored'
  <2>1. ASSUME Monitored, UNCHANGED vars PROVE Monitored'
    BY <2>1 DEF vars, Monitored, WorldOK, ListOK, MonitorOK, Watched
  <2> QED
    BY <2>1, UserWatches, TimerWatches, WorldWatches DEF Next
<1> QED
  BY StaysControlled, <1>1, <1>2, PTL DEF Spec

-----------------------------------------------------------------------------
(* What the monitor is for.                                                 *)

(* A core without a sign of UDP is not left running beyond the limit of    *)
(* the monitor, outside a scheduled wait; and every variable has its type. *)
THEOREM StallIsNoticed == Spec => []StallIsRestarted
<1>1. Controlled /\ Monitored => StallIsRestarted
  <2> SUFFICES ASSUME Controlled, Monitored PROVE StallIsRestarted
    OBVIOUS
  <2>1. TypeOK
    <3>1. /\ desired \in BOOLEAN /\ pause \in BOOLEAN
          /\ core \in {"none", "running", "dead"}
      BY DEF Controlled, WishOK
    <3>2. /\ backoff.failures \in 0 .. MaxFailures /\ backoff.next \in Nat
          /\ backoff.cool \in 0 .. Cooldown
      BY Limits DEF Controlled, BudgetOK, BackoffOK, Monitored, ListOK
    <3>3. Len(backoff.launches) <= backoff.failures + 1
      <4>1. Len(backoff.launches) \in Nat
        BY DEF Monitored, ListOK
      <4> QED
        BY <3>2, <4>1 DEF Monitored, ListOK
    <3>4. /\ health.activity \in 0 .. Stale + 1 /\ health.recovery \in 0 .. UnhealthyLimit + 1
          /\ health.health \in -1 .. Stale + 1 /\ health.since \in -1 .. Stale + Stable
          /\ health.poll \in 0 .. PollGap + 1
      BY Fields DEF Monitored, MonitorOK
    <3>5. /\ stall.time \in 0 .. UnhealthyLimit + 1 /\ stall.masked \in -1 .. Stale + 1
          /\ beatAge \in 0 .. Stale + 1
      BY DEF Monitored, MonitorOK, Stalls
    <3> QED
      BY <3>1, <3>2, <3>3, <3>4, <3>5 DEF TypeOK, Monitored, WorldOK
  <2>2. core = "running" /\ health.poll = 0 /\ ~health.waiting =>
          stall.time <= IF health.authed THEN Stale ELSE UnhealthyLimit
    BY DEF Monitored, Watched, Agree
  <2> QED
    BY <2>1, <2>2 DEF StallIsRestarted
<1> QED
  BY StaysMonitored, <1>1, PTL

(* A core the user wants is stopped only when the last heartbeat is too    *)
(* old and no scheduled wait excuses it.                                   *)
THEOREM HealthyStays == Spec => HealthyIsLeftAlone
<1> DEFINE Stopped == core = "running" /\ core' = "none" /\ desired'
           TooOld == beatAge > Stale /\ ~stall.excused
<1>1. ASSUME Controlled, Monitored, Next, Stopped PROVE TooOld
  <2>1. TimerRestart
    <3>1. ~Disconnect
      BY <1>1 DEF Disconnect
    <3>2. ~Connect /\ ~ConnectRefused
      BY <1>1 DEF Connect, AttemptStart, StillRuns, ConnectRefused
    <3>3. ~(TimerWait \/ TimerAttempt \/ TimerCoreExited \/ TimerObserve \/ TimerBlind)
      BY <1>1 DEF TimerWait, TimerAttempt, TimerCoreExited, TimerObserve, TimerBlind
    <3>4. ~(Tick \/ CoreExits \/ AdapterGoes \/ AdapterComes \/ ForeignStarts \/ OtherEnds)
      BY <1>1 DEF Tick, CoreExits, AdapterGoes, AdapterComes, ForeignStarts, OtherEnds
    <3> QED
      BY <1>1, <3>1, <3>2, <3>3, <3>4 DEF Next, OnTimer
  <2>2. PICK lines \in Lines : core = "running" /\ MustRestart(Observe(health, lines))
    BY <2>1 DEF TimerRestart
  <2> DEFINE o == Observe(health, lines)
  <2>3. Agree(health, stall) /\ lines \in Seq(Kinds)
    BY <1>1, <2>2, LinesAreKinds DEF Monitored, Watched
  <2>4. /\ o.recovery <= IF health.poll > PollGap THEN 0 ELSE health.recovery
        /\ o.activity <= IF health.poll > PollGap THEN 0 ELSE health.activity
        /\ o.activity # 0 => o.waiting = health.waiting
        /\ o \in Monitors
    BY <2>3, Observed DEF Agree
  <2>5. Stalled(o)
    BY <2>2 DEF MustRestart
  <2> HIDE DEF o
  <2>6. /\ o.recovery \in Nat /\ o.activity \in Nat /\ beatAge \in Nat
        /\ health.recovery \in Nat /\ health.activity \in Nat /\ health.poll \in Nat
    BY <1>1, <2>3, <2>4, Fields DEF Agree, Monitored, MonitorOK
  <2>7. ~o.waiting /\ (o.activity > Stale \/ o.recovery > Stale)
    BY <2>5, <2>6, Clocks DEF Stalled
  <2>8. /\ health.poll <= PollGap
        /\ o.recovery <= health.recovery /\ o.activity <= health.activity
    BY <2>4, <2>6, <2>7, Clocks
  <2>9. /\ health.waiting /\ health.poll <= PollGap => health.recovery <= health.poll
        /\ beatAge <= Stale => health.recovery <= beatAge /\ health.activity <= beatAge
    BY <1>1, <2>2 DEF Monitored, Watched
  <2>10. beatAge > Stale
    BY <2>6, <2>7, <2>8, <2>9, Clocks
  <2>11. ~health.waiting
    <3>1. CASE o.activity > Stale
      <4>1. o.activity # 0
        BY <2>6, <3>1, Clocks
      <4> QED
        BY <2>4, <2>7, <4>1
    <3>2. CASE o.recovery > Stale
      BY <2>6, <2>8, <2>9, <3>2, Clocks
    <3> QED
      BY <2>7, <3>1, <3>2
  <2> QED
    BY <2>3, <2>10, <2>11 DEF Agree
<1>2. ASSUME UNCHANGED vars PROVE ~Stopped
  BY <1>2 DEF vars
<1>3. Controlled /\ Monitored /\ [Next]_vars => [Stopped => TooOld]_vars
  BY <1>1, <1>2
<1> QED
  BY StaysMonitored, <1>3, PTL DEF Spec, HealthyIsLeftAlone

-----------------------------------------------------------------------------
(* LogTail.                                                                *)

(* The bytes of all lines, and the places a core can be at in writing them. *)
Bytes == {b \in (DOMAIN Length) \X (Nat \ {0}) : b[2] <= Length[b[1]]}
Places == Bytes \cup {Byte(Len(Length) + 1, 1)}

(* The order in which bytes are written.                                   *)
Before(a, b) == a[1] < b[1] \/ (a[1] = b[1] /\ a[2] < b[2])

(* What stands behind a byte in a file: the next one, or the first of the
   launch behind a line that was never finished.  *)
Follows(a, b) ==
  \/ b = After(a)
  \/ ~IsNewline(a) /\ a[1] = History /\ b = Byte(History + 1, 1)

(* A line up to one of its bytes.                                          *)
Begun(b) == [k \in 1 .. b[2] |-> Byte(b[1], k)]

LEMMA ByteIs ==
  ASSUME NEW b \in Bytes
  PROVE  /\ b = Byte(b[1], b[2])
         /\ b[1] \in 1 .. Len(Length) /\ b[1] \in Nat
         /\ Length[b[1]] \in Nat \ {0}
         /\ b[2] \in Nat \ {0} /\ b[2] <= Length[b[1]]
<1>1. b \in (DOMAIN Length) \X (Nat \ {0}) /\ b[2] <= Length[b[1]]
  BY DEF Bytes
<1>2. Len(Length) \in Nat /\ DOMAIN Length = 1 .. Len(Length)
      /\ \A l \in 1 .. Len(Length) : Length[l] \in Nat \ {0}
  BY TailAssumption, LenProperties DEF TailAssumption
<1> QED
  BY <1>1, <1>2 DEF Byte

LEMMA IsByte ==
  ASSUME NEW l \in 1 .. Len(Length), NEW k \in Nat \ {0}, k <= Length[l]
  PROVE  Byte(l, k) \in Bytes /\ Byte(l, k)[1] = l /\ Byte(l, k)[2] = k
<1>1. DOMAIN Length = 1 .. Len(Length)
  BY TailAssumption, LenProperties DEF TailAssumption
<1> QED
  BY <1>1 DEF Bytes, Byte

LEMMA Lengths ==
  /\ Len(Length) \in Nat /\ DOMAIN Length = 1 .. Len(Length)
  /\ \A l \in 1 .. Len(Length) : Length[l] \in Nat \ {0}
  /\ History \in Nat /\ History <= Len(Length)
BY TailAssumption, LenProperties DEF TailAssumption

LEMMA PlaceIs ==
  ASSUME NEW p \in Places
  PROVE  p[1] \in Nat \ {0} /\ p[2] \in Nat \ {0} /\ p[1] <= Len(Length) + 1
         /\ (p[1] = Len(Length) + 1 => p[2] = 1)
         /\ p = Byte(p[1], p[2])
         /\ (p \notin Bytes => p = Byte(Len(Length) + 1, 1))
         /\ (p[1] \in DOMAIN Length => p \in Bytes)
<1>1. CASE p \in Bytes
  BY <1>1, ByteIs, Lengths
<1>2. CASE p = Byte(Len(Length) + 1, 1)
  BY <1>2, Lengths DEF Byte
<1> QED
  BY <1>1, <1>2 DEF Places

LEMMA AfterIs ==
  ASSUME NEW b \in Bytes
  PROVE  /\ After(b) \in Places /\ Before(b, After(b))
         /\ IsNewline(b) => After(b)[1] = b[1] + 1 /\ After(b)[2] = 1
         /\ ~IsNewline(b) => After(b)[1] = b[1] /\ After(b)[2] = b[2] + 1
         /\ ~IsNewline(b) => After(b) \in Bytes
<1>1. CASE IsNewline(b)
  <2>1. After(b) = Byte(b[1] + 1, 1)
    BY <1>1 DEF After
  <2>2. CASE b[1] = Len(Length)
    BY <1>1, <2>1, <2>2, ByteIs DEF Places, Before, Byte
  <2>3. CASE b[1] < Len(Length)
    <3>1. b[1] + 1 \in 1 .. Len(Length) /\ 1 <= Length[b[1] + 1]
      BY <2>3, ByteIs, Lengths
    <3>2. After(b) \in Bytes
      BY <2>1, <3>1, IsByte
    <3> QED
      BY <1>1, <2>1, <3>2, ByteIs DEF Places, Before, Byte
  <2> QED
    BY <2>2, <2>3, ByteIs, Lengths
<1>2. CASE ~IsNewline(b)
  <2>1. After(b) = Byte(b[1], b[2] + 1)
    BY <1>2 DEF After
  <2>2. b[2] + 1 <= Length[b[1]] /\ b[2] + 1 \in Nat \ {0}
    BY <1>2, ByteIs DEF IsNewline
  <2>3. After(b) \in Bytes
    BY <2>1, <2>2, ByteIs, IsByte
  <2> QED
    BY <1>2, <2>1, <2>3, ByteIs DEF Places, Before, Byte
<1> QED
  BY <1>1, <1>2

(* A later byte than a newline is of a later line.                         *)
LEMMA NewlineEnds ==
  ASSUME NEW b \in Bytes, IsNewline(b), NEW p \in Places, Before(b, p)
  PROVE  b[1] < p[1]
<1>1. CASE p \in Bytes
  BY <1>1, ByteIs DEF Before, IsNewline
<1>2. CASE p \notin Bytes
  <2>1. p[1] = Len(Length) + 1
    BY <1>2, PlaceIs, Lengths DEF Byte
  <2> QED
    BY <2>1, ByteIs
<1> QED
  BY <1>1, <1>2

LEMMA BegunGrows ==
  ASSUME NEW b \in Bytes
  PROVE  /\ Begun(b) \in Seq(Bytes) /\ Len(Begun(b)) = b[2]
         /\ b[2] = 1 => Append(<< >>, b) = Begun(b)
         /\ IsNewline(b) => Begun(b) = Whole(b[1])
         /\ ~IsNewline(b) => Append(Begun(b), After(b)) = Begun(After(b))
<1> DEFINE l == b[1]
           m == b[2]
<1>1. l \in 1 .. Len(Length) /\ m \in Nat \ {0} /\ m <= Length[l] /\ b = Byte(l, m) /\ Length[l] \in Nat
  BY ByteIs
<1>2. \A k \in 1 .. m : Byte(l, k) \in Bytes
  BY <1>1, IsByte
<1>3. Begun(b) \in [1 .. m -> Bytes]
  BY <1>2 DEF Begun
<1>4. Begun(b) \in Seq(Bytes) /\ Len(Begun(b)) = m
  <2>1. Begun(b) \in Seq(Bytes)
    BY <1>1, <1>3, SeqDef
  <2> QED
    BY <1>1, <1>3, <2>1, LenProperties
<1>5. ASSUME m = 1 PROVE Append(<< >>, b) = Begun(b)
  <2>1. << >> \in Seq(Bytes) /\ Len(<< >>) = 0
    OBVIOUS
  <2>2. Append(<< >>, b) \in Seq(Bytes) /\ Len(Append(<< >>, b)) = 1 /\ Append(<< >>, b)[1] = b
    BY <2>1, AppendProperties
  <2>3. \A i \in 1 .. 1 : Append(<< >>, b)[i] = Begun(b)[i]
    BY <1>1, <1>5, <2>2 DEF Begun
  <2> QED
    BY <1>4, <1>5, <2>2, <2>3, SeqEqual
<1>6. ASSUME IsNewline(b) PROVE Begun(b) = Whole(l)
  BY <1>6 DEF IsNewline, Begun, Whole
<1>7. ASSUME ~IsNewline(b) PROVE Append(Begun(b), After(b)) = Begun(After(b))
  <2> DEFINE a == After(b)
             t == Append(Begun(b), a)
  <2>1. a \in Bytes /\ a[1] = l /\ a[2] = m + 1
    BY <1>7, AfterIs
  <2>2. a = Byte(l, m + 1)
    BY <2>1, ByteIs
  <2> HIDE DEF a
  <2>3. t \in Seq(Bytes) /\ Len(t) = m + 1 /\ t[m + 1] = a /\ \A i \in 1 .. m : t[i] = Begun(b)[i]
    BY <1>4, <2>1, AppendProperties
  <2>4. Begun(a) \in [1 .. m + 1 -> Bytes]
    <3>1. \A k \in 1 .. m + 1 : Byte(l, k) \in Bytes
      BY <1>1, <1>2, <2>1, <2>2
    <3> QED
      BY <2>1, <3>1 DEF Begun
  <2>5. Begun(a) \in Seq(Bytes) /\ Len(Begun(a)) = m + 1
    <3>1. Begun(a) \in Seq(Bytes)
      BY <1>1, <2>4, SeqDef
    <3> QED
      BY <1>1, <2>4, <3>1, LenProperties
  <2>6. ASSUME NEW i \in 1 .. m + 1 PROVE t[i] = Begun(a)[i]
    <3>1. Begun(a)[i] = Byte(l, i)
      BY <2>1 DEF Begun
    <3>2. CASE i = m + 1
      BY <2>2, <2>3, <3>1, <3>2
    <3>3. CASE i \in 1 .. m
      BY <2>3, <3>1, <3>3 DEF Begun
    <3>4. i = m + 1 \/ i \in 1 .. m
      <4>1. m \in Nat
        BY <1>1
      <4> HIDE DEF m
      <4> QED
        BY <4>1
    <3> QED
      BY <3>2, <3>3, <3>4
  <2> HIDE DEF t
  <2> QED
    BY <2>3, <2>5, <2>6, SeqEqual DEF t, a
<1> QED
  BY <1>4, <1>5, <1>6, <1>7

-----------------------------------------------------------------------------
(* Split.                                                                   *)

(* What Cut makes of: lines that are read, and the beginning of one.        *)
Halves == [lines : Seq(Seq(Bytes)), rest : Seq(Bytes)]

LEMMA Appended ==
  ASSUME NEW s \in Seq(Bytes), NEW b \in Bytes
  PROVE  /\ Append(s, b) \in Seq(Bytes) /\ Append(s, b) # << >>
         /\ Len(Append(s, b)) = Len(s) + 1 /\ Append(s, b)[Len(s) + 1] = b
         /\ \A i \in 1 .. Len(s) : Append(s, b)[i] = s[i]
BY AppendProperties

LEMMA LineAppended ==
  ASSUME NEW s \in Seq(Seq(Bytes)), NEW b \in Seq(Bytes)
  PROVE  /\ Append(s, b) \in Seq(Seq(Bytes)) /\ Append(s, b) # << >>
         /\ Len(Append(s, b)) = Len(s) + 1 /\ Append(s, b)[Len(s) + 1] = b
         /\ \A i \in 1 .. Len(s) : Append(s, b)[i] = s[i]
BY AppendProperties

LEMMA CutIs ==
  ASSUME NEW p \in Halves, NEW b \in Bytes
  PROVE  /\ Cut(p, b) \in Halves
         /\ IsNewline(b) => /\ Cut(p, b).lines = Append(p.lines, Append(p.rest, b))
                            /\ Cut(p, b).rest = << >>
         /\ ~IsNewline(b) => /\ Cut(p, b).lines = p.lines
                             /\ Cut(p, b).rest = Append(p.rest, b)
<1>1. Append(p.rest, b) \in Seq(Bytes) /\ p.lines \in Seq(Seq(Bytes)) /\ p.rest \in Seq(Bytes)
  BY AppendProperties DEF Halves
<1>2. Append(p.lines, Append(p.rest, b)) \in Seq(Seq(Bytes))
  BY <1>1, AppendProperties
<1>3. CASE IsNewline(b)
  <2>1. Cut(p, b) = [lines |-> Append(p.lines, Append(p.rest, b)), rest |-> << >>]
    BY <1>3 DEF Cut
  <2> QED
    BY <1>2, <1>3, <2>1 DEF Halves
<1>4. CASE ~IsNewline(b)
  <2>1. Cut(p, b) = [p EXCEPT !.rest = Append(@, b)]
    BY <1>4 DEF Cut
  <2> QED
    BY <1>1, <1>4, <2>1 DEF Halves
<1> QED
  BY <1>3, <1>4

(* f goes from base on by step[i] for the number i.                        *)
IsRun(f, base, n, step) == f[0] = base /\ \A i \in 1 .. n : f[i] = step[i][f[i - 1]]

(* There is such a function.                                               *)
LEMMA Stepwise ==
  ASSUME NEW H, NEW base \in H, NEW n \in Nat, NEW step \in [1 .. n -> [H -> H]]
  PROVE  \E f \in [0 .. n -> H] : IsRun(f, base, n, step)
<1>1. PICK it \in [SUBSET (1 .. n) -> H] : IsFold(it, base, n, step)
  BY FoldExists
<1> DEFINE f == [i \in 0 .. n |-> it[1 .. i]]
<1>2. \A i \in 0 .. n : 1 .. i \in SUBSET (1 .. n)
  OBVIOUS
<1>3. f \in [0 .. n -> H]
  BY <1>2
<1>4. f[0] = base
  <2>1. 1 .. 0 = {} /\ {} \in SUBSET (1 .. n) /\ 0 \in 0 .. n
    OBVIOUS
  <2> QED
    BY <1>1, <2>1 DEF IsFold
<1>5. ASSUME NEW i \in 1 .. n PROVE f[i] = step[i][f[i - 1]]
  <2>1. i \in Nat /\ 1 <= i /\ i <= n /\ i \in 1 .. i /\ i \in 0 .. n /\ i - 1 \in 0 .. n
    OBVIOUS
  <2>2. (1 .. i) \ {i} = 1 .. i - 1
    BY <2>1
  <2>3. 1 .. i # {}
    BY <2>1
  <2>4. Max(1 .. i) = i
    BY <2>1, MaxIs
  <2>5. it[1 .. i] = step[i][it[1 .. i - 1]]
    <3>1. 1 .. i \in SUBSET (1 .. n)
      BY <1>2, <2>1
    <3> QED
      BY <1>1, <2>2, <2>3, <2>4, <3>1 DEF IsFold
  <2> QED
    BY <2>1, <2>5
<1> HIDE DEF f
<1>6. IsRun(f, base, n, step)
  BY <1>4, <1>5 DEF IsRun
<1> QED
  BY <1>3, <1>6

(* The bytes are cut off one after the other.                              *)
LEMMA SplitAll ==
  ASSUME NEW q \in Seq(Bytes)
  PROVE  \E f : /\ f[0] = [lines |-> << >>, rest |-> << >>]
                /\ \A i \in 1 .. Len(q) : f[i] = Cut(f[i - 1], q[i])
                /\ f[Len(q)] = Split(q)
<1> DEFINE h == [lines |-> << >>, rest |-> << >>]
           n == Len(q)
           step == [i \in 1 .. n |-> [x \in Halves |-> Cut(x, q[i])]]
           Reads(g) == g = [i \in 0 .. n |-> IF i = 0 THEN h ELSE Cut(g[i - 1], q[i])]
           upTo == CHOOSE g : Reads(g)
<1>1. Split(q) = upTo[n]
  BY DEF Split
<1>2. n \in Nat /\ \A i \in 1 .. n : q[i] \in Bytes
  BY LenProperties
<1>3. h \in Halves
  BY DEF Halves
<1> HIDE DEF n, h
<1>4. step \in [1 .. n -> [Halves -> Halves]]
  BY <1>2, CutIs
<1>5. \E g : Reads(g)
  <2>1. PICK f \in [0 .. n -> Halves] : IsRun(f, h, n, step)
    <3> HIDE DEF step
    <3> QED
      BY <1>2, <1>3, <1>4, Stepwise
  <2>2. ASSUME NEW i \in 1 .. n PROVE f[i] = Cut(f[i - 1], q[i])
    <3>1. i - 1 \in 0 .. n
      BY <1>2
    <3>2. f[i - 1] \in Halves
      BY <3>1
    <3> QED
      BY <2>1, <3>2 DEF IsRun
  <2>3. ASSUME NEW i \in 0 .. n PROVE f[i] = IF i = 0 THEN h ELSE Cut(f[i - 1], q[i])
    <3>1. i = 0 \/ i \in 1 .. n
      BY <1>2
    <3> QED
      BY <2>1, <2>2, <3>1 DEF IsRun
  <2>4. Reads(f)
    BY <2>3
  <2> QED
    BY <2>4
<1>6. Reads(upTo)
  <2> HIDE DEF Reads
  <2> QED
    BY <1>5
<1> HIDE DEF upTo
<1>7. \A i \in 0 .. n : upTo[i] = IF i = 0 THEN h ELSE Cut(upTo[i - 1], q[i])
  BY <1>6
<1>8. upTo[0] = h
  BY <1>2, <1>7
<1>9. ASSUME NEW i \in 1 .. n PROVE upTo[i] = Cut(upTo[i - 1], q[i])
  <2>1. i \in 0 .. n /\ i # 0
    BY <1>2
  <2> QED
    BY <1>7, <2>1
<1> QED
  BY <1>1, <1>8, <1>9 DEF n, h

(* Bytes that a tail has read: a newline is not of before the launch's last
   line, and behind it a later line begins; nothing is missing, but for the
   first piece when it is loose.  *)
Readable(q, loose) ==
  /\ q \in Seq(Bytes)
  /\ \A i \in 1 .. Len(q) : IsNewline(q[i]) => q[i][1] >= History
  /\ \A i, j \in 1 .. Len(q) : i < j /\ IsNewline(q[i]) => q[i][1] < q[j][1]
  /\ \A i \in 1 .. Len(q) - 1 :
       ~loose \/ (\E j \in 1 .. i : IsNewline(q[j])) => Follows(q[i], q[i + 1])
  /\ ~loose /\ Len(q) > 0 => q[1][2] = 1 /\ q[1][1] > History

(* The lines that are reported of the pieces.                              *)
Proper(p, loose) == {i \in 1 .. Len(p.lines) : loose => i > 1}

(* The pieces of the first k bytes: where they end, what the rest is, and
   what the lines are, in their order.  *)
Ends(p, q, k) ==
  /\ (p.lines = << >>) <=> \A j \in 1 .. k : ~IsNewline(q[j])
  /\ p.rest = << >> => k = 0 \/ IsNewline(q[k])
  /\ p.rest # << >> => k > 0 /\ ~IsNewline(q[k]) /\ p.rest[Len(p.rest)] = q[k]

RestIs(p, q, k, loose) ==
  /\ \A i \in 1 .. Len(p.rest) : ~IsNewline(p.rest[i])
  /\ p.rest # << >> /\ (~loose \/ p.lines # << >>) =>
       q[k][1] > History /\ p.rest = Begun(q[k])

LinesAre(p, q, k, loose) ==
  \A i \in Proper(p, loose) : \E j \in 1 .. k :
     IsNewline(q[j]) /\ q[j][1] > History /\ p.lines[i] = Whole(q[j][1])

InOrder(p, loose) ==
  \A i, j \in Proper(p, loose) : i < j => p.lines[i][1][1] < p.lines[j][1][1]

Pieces(p, q, k, loose) ==
  /\ p \in Halves
  /\ Ends(p, q, k)
  /\ RestIs(p, q, k, loose)
  /\ LinesAre(p, q, k, loose)
  /\ InOrder(p, loose)

(* A line that a newline ends is whole.                                    *)
LEMMA LineEnds ==
  ASSUME NEW q, NEW loose \in BOOLEAN, Readable(q, loose), NEW k \in 1 .. Len(q),
         NEW p, Pieces(p, q, k - 1, loose), ~loose \/ p.lines # << >>
  PROVE  Append(p.rest, q[k]) = Begun(q[k]) /\ q[k][1] > History
<1> DEFINE b == q[k]
           a == q[k - 1]
<1>1. q \in Seq(Bytes) /\ Len(q) \in Nat /\ b \in Bytes /\ k \in Nat
  BY LenProperties DEF Readable
<1>2. CASE k = 1
  <2>2. p.rest = << >>
    BY <1>2 DEF Pieces, Ends, RestIs
  <2>3. ~loose
    <3>1. p.lines = << >>
      BY <1>2 DEF Pieces, Ends, RestIs
    <3> QED
      BY <3>1
  <2>4. b[2] = 1 /\ b[1] > History
    BY <1>1, <1>2, <2>3 DEF Readable
  <2> QED
    BY <1>1, <2>2, <2>4, BegunGrows
<1>3. CASE k > 1
  <2>1. k - 1 \in 1 .. Len(q) - 1 /\ k - 1 \in 1 .. Len(q) /\ a \in Bytes
    BY <1>1, <1>3, LenProperties
  <2>2. ~loose \/ \E j \in 1 .. k - 1 : IsNewline(q[j])
    BY DEF Pieces, Ends, RestIs
  <2>3. Follows(a, b)
    <3>1. (k - 1) + 1 = k
      BY <1>1
    <3> QED
      BY <2>1, <2>2, <3>1 DEF Readable
  <2>4. CASE p.rest = << >>
    <3>1. IsNewline(a) /\ a[1] >= History
      BY <1>3, <2>1, <2>4 DEF Pieces, Ends, RestIs, Readable
    <3>2. b = After(a) /\ b[1] = a[1] + 1 /\ b[2] = 1
      BY <2>1, <2>3, <3>1, AfterIs DEF Follows
    <3> QED
      BY <1>1, <2>1, <2>4, <3>1, <3>2, BegunGrows, ByteIs, Lengths
  <2>5. CASE p.rest # << >>
    <3>1. ~IsNewline(a) /\ a[1] > History /\ p.rest = Begun(a)
      BY <2>5 DEF Pieces, Ends, RestIs
    <3>2. b = After(a)
      BY <2>1, <2>3, <3>1, ByteIs, Lengths DEF Follows
    <3> QED
      BY <2>1, <3>1, <3>2, AfterIs, BegunGrows
  <2> QED
    BY <2>4, <2>5
<1> QED
  BY <1>1, <1>2, <1>3

(* A byte more.                                                            *)
LEMMA PiecesGrow ==
  ASSUME NEW q, NEW loose \in BOOLEAN, Readable(q, loose), NEW k \in 1 .. Len(q),
         NEW p, Pieces(p, q, k - 1, loose)
  PROVE  Pieces(Cut(p, q[k]), q, k, loose)
<1> DEFINE b == q[k]
           c == Cut(p, b)
<1>1. q \in Seq(Bytes) /\ Len(q) \in Nat /\ b \in Bytes /\ k \in Nat /\ k >= 1 /\ k <= Len(q)
  BY LenProperties DEF Readable
<1>2. p \in Halves /\ p.lines \in Seq(Seq(Bytes)) /\ p.rest \in Seq(Bytes)
      /\ Len(p.lines) \in Nat /\ Len(p.rest) \in Nat
  BY LenProperties DEF Pieces, Halves
<1>3. \A j \in 1 .. k : j \in 1 .. k - 1 \/ j = k
  BY <1>1
<1>4. \A j \in 1 .. k - 1 : j \in 1 .. k
  BY <1>1
<1>5. CASE IsNewline(b)
  <2> DEFINE line == Append(p.rest, b)
  <2>1. c \in Halves /\ c.lines = Append(p.lines, line) /\ c.rest = << >>
    BY <1>1, <1>2, <1>5, CutIs
  <2>2. line \in Seq(Bytes)
    BY <1>1, <1>2, AppendProperties
  <2>3. /\ Len(c.lines) = Len(p.lines) + 1 /\ c.lines # << >>
        /\ c.lines[Len(p.lines) + 1] = line
        /\ \A i \in 1 .. Len(p.lines) : c.lines[i] = p.lines[i]
    <3> DEFINE more == Append(p.lines, line)
    <3>1. /\ Len(more) = Len(p.lines) + 1 /\ more # << >>
          /\ more[Len(p.lines) + 1] = line
          /\ \A i \in 1 .. Len(p.lines) : more[i] = p.lines[i]
      <4> HIDE DEF line
      <4> QED
        BY <1>2, <2>2, LineAppended
    <3>2. c.lines = more
      BY <2>1
    <3> HIDE DEF line, c, more
    <3> QED
      BY <3>1, <3>2
  <2> DEFINE last == Len(p.lines) + 1
  <2>4. \A i \in Proper(c, loose) : i = last \/ i \in Proper(p, loose)
    <3> HIDE DEF c, line
    <3> QED
      BY <1>2, <2>3 DEF Proper
  <2>5. last \in Proper(c, loose) => line = Whole(b[1]) /\ b[1] > History
    <3> SUFFICES ASSUME last \in Proper(c, loose) PROVE line = Whole(b[1]) /\ b[1] > History
      OBVIOUS
    <3>1. ~loose \/ p.lines # << >>
      <4>1. p.lines = << >> => Len(p.lines) = 0
        OBVIOUS
      <4> QED
        BY <4>1 DEF Proper
    <3>2. line = Begun(b) /\ b[1] > History
      BY <3>1, LineEnds
    <3> QED
      BY <1>1, <1>5, <3>2, BegunGrows
  <2>6. \A i \in Proper(p, loose) : i \in 1 .. Len(p.lines) /\ i \in Nat /\ c.lines[i] = p.lines[i]
    BY <2>3 DEF Proper
  <2>7. \A i \in Proper(p, loose) : \E j \in 1 .. k - 1 :
          IsNewline(q[j]) /\ q[j][1] > History /\ p.lines[i] = Whole(q[j][1])
    BY DEF Pieces, LinesAre
  <2> HIDE DEF c, line
  <2>8. ASSUME NEW i \in Proper(c, loose)
        PROVE  \E j \in 1 .. k : IsNewline(q[j]) /\ q[j][1] > History /\ c.lines[i] = Whole(q[j][1])
    <3>1. CASE i = last
      BY <1>1, <1>5, <2>3, <2>5, <3>1
    <3>2. CASE i \in Proper(p, loose)
      BY <1>4, <2>6, <2>7, <3>2
    <3> QED
      BY <2>4, <3>1, <3>2
  <2>9. \A l \in 1 .. Len(Length) : Whole(l)[1][1] = l
    BY Lengths DEF Whole, Byte
  <2>10. ASSUME NEW i \in Proper(c, loose), NEW j \in Proper(c, loose), i < j
         PROVE  c.lines[i][1][1] < c.lines[j][1][1]
    <3>1. i \in Proper(p, loose)
      <4> SUFFICES ASSUME i = last PROVE FALSE
        BY <2>4
      <4>1. j <= last /\ j \in Nat
        BY <2>3, <1>2 DEF Proper
      <4> QED
        BY <1>2, <2>10, <4>1
    <3>2. CASE j \in Proper(p, loose)
      BY <2>6, <2>10, <3>1, <3>2 DEF Pieces, InOrder
    <3>3. CASE j = last
      <4>1. PICK m \in 1 .. k - 1 :
              IsNewline(q[m]) /\ q[m][1] > History /\ p.lines[i] = Whole(q[m][1])
        BY <2>7, <3>1
      <4>2. m \in 1 .. Len(q) /\ m < k /\ q[m] \in Bytes
        BY <1>1
      <4>3. q[m][1] < b[1]
        BY <1>1, <4>1, <4>2 DEF Readable
      <4>4. c.lines[i] = Whole(q[m][1])
        BY <2>6, <3>1, <4>1
      <4>5. c.lines[j] = Whole(b[1])
        BY <2>3, <2>5, <3>3
      <4>6. q[m][1] \in 1 .. Len(Length) /\ b[1] \in 1 .. Len(Length)
        BY <1>1, <4>2, ByteIs
      <4>7. Whole(q[m][1])[1][1] = q[m][1] /\ Whole(b[1])[1][1] = b[1]
        BY <2>9, <4>6
      <4> QED
        BY <4>3, <4>4, <4>5, <4>7
    <3> QED
      BY <2>4, <3>2, <3>3
  <2>11. ~(c.lines = << >>) /\ ~(\A j \in 1 .. k : ~IsNewline(q[j]))
    BY <1>1, <1>5, <2>3
  <2>12. Len(c.rest) = 0
    BY <2>1
  <2>13. Ends(c, q, k)
    BY <1>5, <2>1, <2>11 DEF Ends
  <2>14. RestIs(c, q, k, loose)
    BY <2>1, <2>12 DEF RestIs
  <2>15. LinesAre(c, q, k, loose)
    BY <2>8 DEF LinesAre
  <2>16. InOrder(c, loose)
    BY <2>10 DEF InOrder
  <2> QED
    BY <2>1, <2>13, <2>14, <2>15, <2>16 DEF Pieces, b, c
<1>6. CASE ~IsNewline(b)
  <2>1. c \in Halves /\ c.lines = p.lines /\ c.rest = Append(p.rest, b)
    BY <1>1, <1>2, <1>6, CutIs
  <2>2. /\ c.rest # << >> /\ Len(c.rest) = Len(p.rest) + 1 /\ c.rest[Len(p.rest) + 1] = b
        /\ \A i \in 1 .. Len(p.rest) : c.rest[i] = p.rest[i]
    <3> DEFINE more == Append(p.rest, b)
    <3>1. /\ more # << >> /\ Len(more) = Len(p.rest) + 1 /\ more[Len(p.rest) + 1] = b
          /\ \A i \in 1 .. Len(p.rest) : more[i] = p.rest[i]
      <4> HIDE DEF b
      <4> QED
        BY <1>1, <1>2, Appended
    <3> HIDE DEF c, more
    <3> QED
      BY <2>1, <3>1 DEF more
  <2>3. (c.lines = << >>) <=> \A j \in 1 .. k : ~IsNewline(q[j])
    <3>1. (p.lines = << >>) <=> \A j \in 1 .. k - 1 : ~IsNewline(q[j])
      BY DEF Pieces, Ends, RestIs, LinesAre, InOrder
    <3> HIDE DEF c
    <3> QED
      BY <1>1, <1>3, <1>4, <1>6, <2>1, <3>1
  <2>4. ~loose \/ c.lines # << >> => b[1] > History /\ c.rest = Begun(b)
    BY <2>1, LineEnds
  <2>5. \A i \in 1 .. Len(c.rest) : ~IsNewline(c.rest[i])
    <3>1. \A i \in 1 .. Len(p.rest) : ~IsNewline(p.rest[i])
      BY DEF Pieces, Ends, RestIs, LinesAre, InOrder
    <3>2. \A i \in 1 .. Len(c.rest) : i \in 1 .. Len(p.rest) \/ i = Len(p.rest) + 1
      <4> HIDE DEF c
      <4> QED
        BY <1>2, <2>2
    <3> HIDE DEF c
    <3> QED
      BY <1>6, <2>2, <3>1, <3>2
  <2>6. Proper(c, loose) = Proper(p, loose)
    BY <2>1 DEF Proper
  <2>7. LinesAre(c, q, k, loose)
    <3>1. \A i \in Proper(p, loose) : \E j \in 1 .. k - 1 :
            IsNewline(q[j]) /\ q[j][1] > History /\ p.lines[i] = Whole(q[j][1])
      BY DEF Pieces, Ends, RestIs, LinesAre, InOrder
    <3> HIDE DEF c
    <3> QED
      BY <1>4, <2>1, <2>6, <3>1 DEF LinesAre
  <2>8. InOrder(c, loose)
    <3>1. \A i, j \in Proper(p, loose) : i < j => p.lines[i][1][1] < p.lines[j][1][1]
      BY DEF Pieces, Ends, RestIs, LinesAre, InOrder
    <3> HIDE DEF c
    <3> QED
      BY <2>1, <2>6, <3>1 DEF InOrder
  <2>9. Ends(c, q, k)
    <3>1. k > 0 /\ ~IsNewline(q[k]) /\ c.rest[Len(c.rest)] = q[k]
      <4> HIDE DEF c
      <4> QED
        BY <1>1, <1>6, <2>2
    <3> HIDE DEF b, c
    <3> QED
      BY <2>2, <2>3, <3>1 DEF Ends
  <2>10. RestIs(c, q, k, loose)
    <3>1. ~loose \/ c.lines # << >> => q[k][1] > History /\ c.rest = Begun(q[k])
      BY <2>4
    <3> HIDE DEF b, c
    <3> QED
      BY <2>5, <3>1 DEF RestIs
  <2> HIDE DEF b, c
  <2> QED
    BY <2>1, <2>7, <2>8, <2>9, <2>10 DEF Pieces, b, c
<1> QED
  BY <1>5, <1>6

(* What Split makes of the bytes that a tail has read.                      *)
LEMMA SplitIs ==
  ASSUME NEW q, NEW loose \in BOOLEAN, Readable(q, loose)
  PROVE  Pieces(Split(q), q, Len(q), loose)
<1>1. q \in Seq(Bytes) /\ Len(q) \in Nat
  BY LenProperties DEF Readable
<1>2. PICK f : /\ f[0] = [lines |-> << >>, rest |-> << >>]
               /\ \A i \in 1 .. Len(q) : f[i] = Cut(f[i - 1], q[i])
               /\ f[Len(q)] = Split(q)
  BY <1>1, SplitAll
<1> DEFINE T == {k \in 0 .. Len(q) : Pieces(f[k], q, k, loose)}
<1>3. 0 \in T
  <2> DEFINE e == [lines |-> << >>, rest |-> << >>]
  <2>1. e \in Halves /\ e.lines = << >> /\ e.rest = << >> /\ Len(e.lines) = 0 /\ Len(e.rest) = 0
    BY DEF Halves
  <2>2. Proper(e, loose) = {}
    BY <2>1 DEF Proper
  <2> HIDE DEF e
  <2>3. Pieces(e, q, 0, loose)
    BY <2>1, <2>2 DEF Pieces, Ends, RestIs, LinesAre, InOrder
  <2> QED
    BY <1>1, <1>2, <2>3 DEF e
<1>4. \A k \in 1 .. Len(q) : k - 1 \in T => k \in T
  <2> SUFFICES ASSUME NEW k \in 1 .. Len(q), k - 1 \in T PROVE k \in T
    OBVIOUS
  <2>1. Pieces(Cut(f[k - 1], q[k]), q, k, loose)
    BY PiecesGrow
  <2> QED
    BY <1>1, <1>2, <2>1
<1>5. T = 0 .. Len(q)
  <2>1. T \in SUBSET (0 .. Len(q))
    OBVIOUS
  <2> HIDE DEF T
  <2> QED
    BY <1>1, <1>3, <1>4, <2>1, Climb
<1> QED
  BY <1>1, <1>2, <1>5

-----------------------------------------------------------------------------
(* A file, and how far it has been read.                                    *)

(* The bytes of a file stand in the order of their writing, all before the
   place w where the core is, and a file begins with the start of a line.  *)
FileOK(s, w) ==
  /\ s \in Seq(Bytes)
  /\ \A i \in 1 .. Len(s) : Before(s[i], w)
  /\ \A i, j \in 1 .. Len(s) : i < j => Before(s[i], s[j])
  /\ \A i \in 1 .. Len(s) - 1 : Follows(s[i], s[i + 1])
  /\ Len(s) > 0 => s[1][2] = 1

(* w is where the writing of s goes on.                                    *)
GoesOn(s, w) == IF Len(s) = 0 THEN w[2] = 1 ELSE Follows(s[Len(s)], w)

LEMMA BeforeIs ==
  ASSUME NEW a, NEW b, NEW c, Before(a, b), Before(b, c),
         a[1] \in Nat, a[2] \in Nat, b[1] \in Nat, b[2] \in Nat, c[1] \in Nat, c[2] \in Nat
  PROVE  Before(a, c)
BY DEF Before

LEMMA FileLater ==
  ASSUME NEW w \in Places, NEW v \in Places, Before(w, v), NEW s, FileOK(s, w)
  PROVE  FileOK(s, v)
<1>1. ASSUME NEW i \in 1 .. Len(s) PROVE Before(s[i], v)
  <2>1. s[i] \in Bytes /\ Before(s[i], w)
    BY DEF FileOK
  <2> QED
    BY <2>1, ByteIs, PlaceIs, BeforeIs
<1> QED
  BY <1>1 DEF FileOK

LEMMA FileGrows ==
  ASSUME NEW w \in Bytes, NEW s, FileOK(s, w), GoesOn(s, w)
  PROVE  FileOK(Append(s, w), After(w)) /\ GoesOn(Append(s, w), After(w))
<1> DEFINE t == Append(s, w)
           v == After(w)
           n == Len(s)
<1>1. s \in Seq(Bytes) /\ n \in Nat
  BY DEF FileOK
<1>2. t \in Seq(Bytes) /\ Len(t) = n + 1 /\ t[n + 1] = w /\ \A i \in 1 .. n : t[i] = s[i]
  BY <1>1, Appended
<1>3. \A i \in 1 .. n + 1 : i \in 1 .. n \/ i = n + 1
  <2> HIDE DEF n
  <2> QED
    BY <1>1
<1>4. Before(w, v) /\ v \in Places /\ w \in Places
  BY AfterIs DEF Places
<1>5. FileOK(s, v)
  BY <1>4, FileLater
<1>6. /\ \A i \in 1 .. n : Before(s[i], v) /\ Before(s[i], w)
      /\ \A i, j \in 1 .. n : i < j => Before(s[i], s[j])
      /\ \A i \in 1 .. n - 1 : Follows(s[i], s[i + 1])
      /\ n > 0 => s[1][2] = 1
  BY <1>5 DEF FileOK
<1>7. IF n = 0 THEN w[2] = 1 ELSE Follows(s[n], w)
  BY DEF GoesOn
<1> HIDE DEF t, v, n
<1>8. \A i \in 1 .. n + 1 : Before(t[i], v)
  BY <1>2, <1>3, <1>4, <1>6
<1>9. \A i, j \in 1 .. n + 1 : i < j => Before(t[i], t[j])
  <2> SUFFICES ASSUME NEW i \in 1 .. n + 1, NEW j \in 1 .. n + 1, i < j PROVE Before(t[i], t[j])
    OBVIOUS
  <2>1. i \in 1 .. n
    BY <1>1, <1>3
  <2>2. CASE j = n + 1
    BY <1>2, <1>6, <2>1, <2>2
  <2>3. CASE j \in 1 .. n
    BY <1>2, <1>6, <2>1, <2>3
  <2> QED
    BY <1>3, <2>2, <2>3
<1>10. ASSUME NEW i \in 1 .. (n + 1) - 1 PROVE Follows(t[i], t[i + 1])
  <2>1. i \in 1 .. n /\ (i = n \/ (i \in 1 .. n - 1 /\ i + 1 \in 1 .. n)) /\ (i = n => n # 0)
    BY <1>1
  <2> QED
    BY <1>2, <1>6, <1>7, <2>1
<1>11. t[1][2] = 1
  <2>1. CASE n = 0
    BY <1>2, <1>7, <2>1
  <2>2. CASE n > 0
    <3>1. 1 \in 1 .. n
      BY <1>1, <2>2
    <3> QED
      BY <1>2, <1>6, <2>2, <3>1
  <2> QED
    BY <1>1, <2>1, <2>2
<1>12. FileOK(t, v)
  BY <1>1, <1>2, <1>8, <1>9, <1>10, <1>11 DEF FileOK
<1>13. GoesOn(t, v)
  <2>1. Follows(w, v)
    BY DEF Follows, v
  <2> QED
    BY <1>1, <1>2, <2>1 DEF GoesOn
<1> QED
  BY <1>12, <1>13 DEF t, v

(* A file that holds one line.                                             *)
LEMMA OneLine ==
  ASSUME NEW w \in Bytes, w[2] = 1
  PROVE  /\ Byte(w[1] + 1, 1) \in Places /\ Before(w, Byte(w[1] + 1, 1))
         /\ FileOK(Whole(w[1]), Byte(w[1] + 1, 1)) /\ GoesOn(Whole(w[1]), Byte(w[1] + 1, 1))
         /\ \A i \in 1 .. Len(Whole(w[1])) : Whole(w[1])[i] = Byte(w[1], i)
<1> DEFINE l == w[1]
           e == Byte(l, Length[l])
           s == Whole(l)
           v == Byte(l + 1, 1)
<1>1. l \in 1 .. Len(Length) /\ Length[l] \in Nat \ {0} /\ l \in Nat
  BY ByteIs
<1>2. e \in Bytes /\ e[1] = l /\ e[2] = Length[l] /\ IsNewline(e) /\ After(e) = v
  <2>1. e \in Bytes /\ e[1] = l /\ e[2] = Length[l]
    BY <1>1, IsByte
  <2> QED
    BY <2>1 DEF IsNewline, After
<1>3. s = Begun(e)
  BY <1>2, BegunGrows
<1>4. s \in Seq(Bytes) /\ Len(s) = Length[l]
  BY <1>2, <1>3, BegunGrows
<1>5. \A i \in 1 .. Length[l] : s[i] = Byte(l, i) /\ s[i] \in Bytes /\ s[i][1] = l /\ s[i][2] = i
  <2>1. \A i \in 1 .. Length[l] : Byte(l, i) \in Bytes /\ Byte(l, i)[1] = l /\ Byte(l, i)[2] = i
    BY <1>1, IsByte
  <2> QED
    BY <2>1 DEF Whole
<1>6. v \in Places /\ v[1] = l + 1 /\ v[2] = 1
  BY <1>2, AfterIs DEF Byte
<1>7. Before(w, v)
  BY <1>1, <1>6 DEF Before
<1>8. \A i \in 1 .. Length[l] : Before(s[i], v)
  BY <1>1, <1>5, <1>6 DEF Before
<1>9. \A i, j \in 1 .. Length[l] : i < j => Before(s[i], s[j])
  BY <1>1, <1>5 DEF Before
<1>10. ASSUME NEW i \in 1 .. Length[l] - 1 PROVE Follows(s[i], s[i + 1])
  <2>1. i \in 1 .. Length[l] /\ i + 1 \in 1 .. Length[l] /\ i # Length[l] /\ i \in Nat
    BY <1>1
  <2>2. ~IsNewline(s[i]) /\ s[i + 1] = Byte(l, i + 1)
    BY <1>5, <2>1 DEF IsNewline
  <2>3. s[i + 1] = After(s[i])
    BY <1>5, <2>1, <2>2 DEF After
  <2> QED
    BY <2>3 DEF Follows
<1>11. s[1][2] = 1
  BY <1>1, <1>5
<1>12. FileOK(s, v)
  <2> HIDE DEF s, v
  <2> QED
    BY <1>4, <1>8, <1>9, <1>10, <1>11 DEF FileOK
<1>13. GoesOn(s, v)
  <2>1. s[Length[l]] = e
    BY <1>1, <1>5
  <2> QED
    BY <1>1, <1>2, <1>4, <2>1 DEF GoesOn, Follows
<1> QED
  BY <1>4, <1>5, <1>6, <1>7, <1>12, <1>13

-----------------------------------------------------------------------------
(* A tail and the file that it has read.                                    *)
Tails == [created : Nat, offset : Nat, anchor : Seq(Nat \X Nat), pending : Seq(Bytes),
          discard : BOOLEAN]

(* The byte before the offset is the one that the anchor ends with: no other
   file has it.  *)
HasMark(t, s) ==
  t.anchor # << >> /\ t.offset \in 1 .. Len(s) /\ s[t.offset] = Last(t.anchor)

(* What a tail can read of a file that it has read up to its offset.  The rest
   is of the byte at the offset; unless it is to be discarded it is a line of
   the launch.  What is still to come is of the launch, or finishes the line
   before, and is discarded.  *)
RestReady(t, s) ==
  /\ \A i \in 1 .. Len(t.pending) : ~IsNewline(t.pending[i])
  /\ t.pending # << >> =>
       t.offset \in 1 .. Len(s) /\ t.pending[Len(t.pending)] = s[t.offset]
  /\ ~t.discard => IF t.pending = << >> THEN t.offset = 0 \/ IsNewline(s[t.offset])
                   ELSE s[t.offset][1] > History /\ t.pending = Begun(s[t.offset])

(* A byte of the launch, or one that is discarded.                         *)
OfLaunch(b, discard) == b[1] > History \/ (b[1] = History /\ b[2] > 1 /\ discard)

Ready(t, s) ==
  /\ t \in Tails /\ t.offset \in 0 .. Len(s)
  /\ t.offset = 0 => ~t.discard
  /\ RestReady(t, s)
  /\ \A i \in t.offset + 1 .. Len(s) : OfLaunch(s[i], t.discard)

(* The bytes a read adds to those that are pending.                         *)
Gathered(t, s, n) == t.pending \o SubSeq(s, t.offset + 1, n)

LEMMA Joined ==
  ASSUME NEW a \in Seq(Bytes), NEW b \in Seq(Bytes)
  PROVE  /\ a \o b \in Seq(Bytes) /\ Len(a \o b) = Len(a) + Len(b)
         /\ \A i \in 1 .. Len(a) + Len(b) : (a \o b)[i] = IF i <= Len(a) THEN a[i] ELSE b[i - Len(a)]
BY ConcatProperties

LEMMA ReadBytes ==
  ASSUME NEW w, NEW s, FileOK(s, w), NEW t, Ready(t, s), NEW n \in t.offset .. Len(s)
  PROVE  /\ Gathered(t, s, n) \in Seq(Bytes) /\ Len(t.pending) \in Nat
         /\ Len(Gathered(t, s, n)) = Len(t.pending) + n - t.offset
         /\ \A i \in 1 .. Len(t.pending) : Gathered(t, s, n)[i] = t.pending[i]
         /\ \A i \in Len(t.pending) + 1 .. Len(Gathered(t, s, n)) :
              Gathered(t, s, n)[i] = s[t.offset + i - Len(t.pending)]
<1> DEFINE x == SubSeq(s, t.offset + 1, n)
           m == Len(t.pending)
           q == t.pending \o x
<1>1. /\ s \in Seq(Bytes) /\ Len(s) \in Nat /\ t.offset \in Nat /\ n \in Nat
      /\ t.offset <= n /\ n <= Len(s) /\ t.pending \in Seq(Bytes) /\ m \in Nat
  BY DEF FileOK, Ready, Tails
<1>2. \A i \in t.offset + 1 .. n : s[i] \in Bytes
  BY <1>1
<1>3. /\ x \in Seq(Bytes) /\ Len(x) = n - t.offset
      /\ \A i \in 1 .. n - t.offset : x[i] = s[t.offset + i]
  <2>1. /\ x \in Seq(Bytes) /\ Len(x) = IF t.offset + 1 <= n THEN n - (t.offset + 1) + 1 ELSE 0
        /\ \A i \in 1 .. n - (t.offset + 1) + 1 : x[i] = s[t.offset + 1 + i - 1]
    BY <1>1, <1>2, SubSeqProperties
  <2> HIDE DEF x
  <2> QED
    BY <1>1, <2>1
<1> HIDE DEF x
<1>4. /\ q \in Seq(Bytes) /\ Len(q) = m + Len(x)
      /\ \A i \in 1 .. m + Len(x) : q[i] = IF i <= m THEN t.pending[i] ELSE x[i - m]
  BY <1>1, <1>3, Joined
<1> HIDE DEF q, m
<1>5. \A i \in 1 .. m : q[i] = t.pending[i]
  <2> SUFFICES ASSUME NEW i \in 1 .. m PROVE q[i] = t.pending[i]
    OBVIOUS
  <2>1. i \in 1 .. m + Len(x) /\ i <= m
    BY <1>1, <1>3
  <2> QED
    BY <1>4, <2>1
<1>6. ASSUME NEW i \in m + 1 .. Len(q) PROVE q[i] = s[t.offset + i - m]
  <2>1. i \in 1 .. m + Len(x) /\ ~(i <= m) /\ i - m \in 1 .. n - t.offset /\ i \in Nat
    BY <1>1, <1>3, <1>4
  <2>2. q[i] = x[i - m]
    BY <1>4, <2>1
  <2>3. x[i - m] = s[t.offset + (i - m)]
    BY <1>3, <2>1
  <2>4. t.offset + (i - m) = t.offset + i - m
    BY <1>1, <2>1
  <2> QED
    BY <2>2, <2>3, <2>4
<1> QED
  <2>1. Len(q) = m + n - t.offset
    BY <1>1, <1>3, <1>4
  <2>2. q = Gathered(t, s, n)
    BY DEF Gathered, q, x
  <2> QED
    BY <1>1, <1>4, <1>5, <1>6, <2>1, <2>2 DEF m

(* They can be split into lines.                                           *)
LEMMA ReadsLines ==
  ASSUME NEW w, NEW s, FileOK(s, w), NEW t, Ready(t, s), NEW n \in t.offset .. Len(s)
  PROVE  Readable(Gathered(t, s, n), t.discard)
<1> DEFINE q == Gathered(t, s, n)
           m == Len(t.pending)
           o == t.offset
<1>1. /\ q \in Seq(Bytes) /\ m \in Nat /\ Len(q) = m + n - o
      /\ \A i \in 1 .. m : q[i] = t.pending[i]
      /\ \A i \in m + 1 .. Len(q) : q[i] = s[o + i - m]
  BY ReadBytes
<1>2. /\ o \in Nat /\ n \in Nat /\ o <= n /\ n <= Len(s) /\ Len(s) \in Nat
      /\ s \in Seq(Bytes) /\ t.discard \in BOOLEAN /\ t.pending \in Seq(Bytes)
  BY DEF FileOK, Ready, Tails
<1>3. \A i \in 1 .. m : ~IsNewline(q[i])
  BY <1>1 DEF Ready, RestReady
<1>4. m = 0 <=> t.pending = << >>
  BY <1>2
<1>5. m > 0 => o \in 1 .. Len(s) /\ q[m] = s[o]
  <2> SUFFICES ASSUME m > 0 PROVE o \in 1 .. Len(s) /\ q[m] = s[o]
    OBVIOUS
  <2>1. t.pending # << >> /\ m \in 1 .. m
    BY <1>1, <1>4
  <2>2. o \in 1 .. Len(s) /\ t.pending[m] = s[o]
    BY <2>1 DEF Ready, RestReady
  <2>3. q[m] = t.pending[m]
    BY <1>1, <2>1
  <2> QED
    BY <2>2, <2>3
<1>6. \A i \in o + 1 .. Len(s) : s[i] \in Bytes /\ OfLaunch(s[i], t.discard)
  BY <1>2 DEF Ready
<1>7. /\ \A i, j \in 1 .. Len(s) : i < j => Before(s[i], s[j])
      /\ \A i \in 1 .. Len(s) - 1 : Follows(s[i], s[i + 1])
      /\ Len(s) > 0 => s[1][2] = 1
  BY DEF FileOK
<1>8. ~t.discard => IF m = 0 THEN o = 0 \/ IsNewline(s[o])
                    ELSE s[o][1] > History /\ t.pending = Begun(s[o])
  BY <1>4 DEF Ready, RestReady
<1>9. \A i \in 1 .. Len(q) : i \in 1 .. m \/ (i \in m + 1 .. Len(q) /\ o + i - m \in o + 1 .. n)
  <2> HIDE DEF q, m, o
  <2> QED
    BY <1>1, <1>2
<1>10. \A i \in o + 1 .. n : i \in o + 1 .. Len(s) /\ i \in 1 .. Len(s)
  <2> HIDE DEF o
  <2> QED
    BY <1>2
<1> HIDE DEF q, m, o
<1>11. ASSUME NEW i \in 1 .. Len(q), IsNewline(q[i]) PROVE q[i][1] >= History
  <2>1. i \in m + 1 .. Len(q) /\ o + i - m \in o + 1 .. n
    BY <1>3, <1>9, <1>11
  <2>2. q[i] \in Bytes /\ OfLaunch(q[i], t.discard)
    BY <1>1, <1>6, <1>10, <2>1
  <2> QED
    BY <2>2, ByteIs, Lengths DEF OfLaunch
<1>12. ASSUME NEW i \in 1 .. Len(q), NEW j \in 1 .. Len(q), i < j, IsNewline(q[i])
       PROVE  q[i][1] < q[j][1]
  <2>1. i \in m + 1 .. Len(q) /\ o + i - m \in o + 1 .. n
    BY <1>3, <1>9, <1>12
  <2>2. j \in m + 1 .. Len(q) /\ o + j - m \in o + 1 .. n
    BY <1>1, <1>9, <1>12, <2>1
  <2>3. o + i - m < o + j - m
    BY <1>1, <1>2, <1>12
  <2>4. Before(q[i], q[j])
    BY <1>1, <1>7, <1>10, <2>1, <2>2, <2>3
  <2>5. q[i] \in Bytes /\ q[j] \in Places
    BY <1>1 DEF Places
  <2> QED
    BY <1>12, <2>4, <2>5, NewlineEnds
<1>13. ASSUME NEW i \in 1 .. Len(q) - 1, ~t.discard \/ \E j \in 1 .. i : IsNewline(q[j])
       PROVE  Follows(q[i], q[i + 1])
  <2>0. i \in 1 .. Len(q) /\ i + 1 \in 1 .. Len(q) /\ i \in Nat /\ Len(q) \in Nat
    BY <1>1, <1>2
  <2>1. CASE i + 1 \in 1 .. m
    <3>1. ~t.discard
      <4>1. \A j \in 1 .. i : j \in 1 .. m
        BY <1>1, <2>0, <2>1
      <4> QED
        BY <1>3, <1>13, <4>1
    <3>2. m # 0 /\ m > 0
      BY <1>1, <2>1
    <3>3. t.pending = Begun(s[o]) /\ s[o] \in Bytes
      BY <1>2, <1>5, <1>8, <3>1, <3>2
    <3>4. m = s[o][2]
      BY <3>3, BegunGrows DEF m
    <3>5. i \in 1 .. m /\ i \in 1 .. s[o][2] /\ i + 1 \in 1 .. s[o][2]
      BY <1>1, <2>0, <2>1, <3>4
    <3>6. q[i] = Byte(s[o][1], i) /\ q[i + 1] = Byte(s[o][1], i + 1)
      BY <1>1, <2>1, <3>3, <3>5 DEF Begun
    <3>7. ~IsNewline(q[i])
      BY <1>3, <3>5
    <3>8. q[i + 1] = After(q[i])
      BY <3>6, <3>7 DEF After, Byte
    <3> QED
      BY <3>8 DEF Follows
  <2>2. CASE i = m
    <3>1. m > 0 /\ i + 1 \in m + 1 .. Len(q) /\ i + 1 = m + 1
      BY <1>1, <2>0, <2>2
    <3>2. q[i] = s[o] /\ o \in 1 .. Len(s)
      BY <1>5, <2>2, <3>1
    <3>3. q[i + 1] = s[o + 1]
      <4>1. o + (i + 1) - m = o + 1
        BY <1>1, <1>2, <2>2
      <4> QED
        BY <1>1, <3>1, <4>1
    <3>4. o \in 1 .. Len(s) - 1
      BY <1>1, <1>2, <2>0, <2>2, <3>2
    <3> QED
      BY <1>7, <3>2, <3>3, <3>4
  <2>3. CASE i \in m + 1 .. Len(q)
    <3>1. i + 1 \in m + 1 .. Len(q)
      BY <1>1, <2>0, <2>3
    <3> DEFINE d == o + i - m
    <3>2. d \in 1 .. Len(s) - 1 /\ o + (i + 1) - m = d + 1
      BY <1>1, <1>2, <2>0, <2>3, <3>1
    <3>3. q[i] = s[d] /\ q[i + 1] = s[d + 1]
      <4> HIDE DEF d
      <4>1. q[i] = s[d]
        BY <1>1, <2>3 DEF d
      <4>2. q[i + 1] = s[o + (i + 1) - m]
        BY <1>1, <3>1
      <4> QED
        BY <3>2, <4>1, <4>2
    <3> HIDE DEF d
    <3> QED
      BY <1>7, <3>2, <3>3
  <2> QED
    <3>1. i + 1 \in 1 .. m \/ i = m \/ i \in m + 1 .. Len(q)
      BY <1>1, <2>0
    <3> QED
      BY <2>1, <2>2, <2>3, <3>1
<1>14. ASSUME ~t.discard, Len(q) > 0 PROVE q[1][2] = 1 /\ q[1][1] > History
  <2>1. CASE m = 0
    <3>1. 1 \in m + 1 .. Len(q) /\ o + 1 - m = o + 1 /\ o + 1 \in o + 1 .. n /\ o + 1 \in 1 .. Len(s)
      BY <1>1, <1>2, <1>14, <2>1
    <3>2. q[1] = s[o + 1] /\ q[1] \in Bytes
      BY <1>1, <1>2, <3>1
    <3>3. OfLaunch(q[1], t.discard)
      BY <1>6, <1>10, <3>1, <3>2
    <3>4. q[1][1] > History
      BY <1>14, <3>3 DEF OfLaunch
    <3>5. CASE o = 0
      BY <1>2, <1>7, <3>1, <3>2, <3>4, <3>5
    <3>6. CASE o # 0
      <4>1. IsNewline(s[o]) /\ o \in 1 .. Len(s) - 1 /\ o \in 1 .. Len(s)
        BY <1>2, <1>8, <1>14, <2>1, <3>1, <3>6
      <4>2. s[o] \in Bytes /\ Follows(s[o], q[1])
        BY <1>2, <1>7, <3>2, <4>1
      <4>3. q[1] = After(s[o])
        BY <4>1, <4>2 DEF Follows
      <4> QED
        BY <3>4, <4>1, <4>2, <4>3, AfterIs
    <3> QED
      BY <3>5, <3>6
  <2>2. CASE m # 0
    <3>1. m > 0 /\ 1 \in 1 .. m
      BY <1>1, <2>2
    <3>2. s[o][1] > History /\ t.pending = Begun(s[o]) /\ s[o] \in Bytes
      BY <1>2, <1>5, <1>8, <1>14, <2>2, <3>1
    <3>3. q[1] = Byte(s[o][1], 1)
      <4>1. 1 \in 1 .. s[o][2]
        BY <3>2, ByteIs
      <4> QED
        BY <1>1, <3>1, <3>2, <4>1 DEF Begun
    <3> QED
      BY <3>2, <3>3 DEF Byte
  <2> QED
    BY <2>1, <2>2
<1> QED
  BY <1>1, <1>11, <1>12, <1>13, <1>14 DEF Readable, q

(* The anchor ends with the byte before the offset.                        *)
LEMMA AnchorIs ==
  ASSUME NEW s \in Seq(Bytes), NEW n \in 0 .. Len(s)
  PROVE  /\ Anchor(s, n) \in Seq(Nat \X Nat)
         /\ (Anchor(s, n) = << >>) <=> (n = 0)
         /\ n > 0 => Last(Anchor(s, n)) = s[n]
<1> DEFINE low == IF n > AnchorSize THEN n - AnchorSize + 1 ELSE 1
<1>1. /\ Len(s) \in Nat /\ n \in Nat /\ n <= Len(s) /\ low \in Nat /\ low >= 1
      /\ (n > 0 => low <= n) /\ (n = 0 => low = 1)
  BY TailAssumption DEF TailAssumption
<1>2. Anchor(s, n) = SubSeq(s, low, n)
  BY DEF Anchor
<1> HIDE DEF low
<1>3. \A i \in low .. n : s[i] \in Nat \X Nat
  <2> SUFFICES ASSUME NEW i \in low .. n PROVE s[i] \in Nat \X Nat
    OBVIOUS
  <2>1. i \in 1 .. Len(s)
    BY <1>1
  <2>2. s[i] \in Bytes
    BY <2>1
  <2> QED
    BY <2>2, ByteIs DEF Byte
<1> DEFINE a == SubSeq(s, low, n)
<1>4. /\ a \in Seq(Nat \X Nat) /\ Len(a) = IF low <= n THEN n - low + 1 ELSE 0
      /\ \A i \in 1 .. n - low + 1 : a[i] = s[low + i - 1]
  BY <1>1, <1>3, SubSeqProperties
<1> HIDE DEF a
<1>5. CASE n = 0
  BY <1>1, <1>2, <1>4, <1>5 DEF a
<1>6. CASE n > 0
  <2>1. Len(a) = n - low + 1 /\ Len(a) > 0 /\ Len(a) \in 1 .. n - low + 1 /\ low + Len(a) - 1 = n
    BY <1>1, <1>4, <1>6
  <2>2. a # << >> /\ a[Len(a)] = s[n]
    BY <1>4, <2>1
  <2>3. Anchor(s, n) = a
    BY <1>2 DEF a
  <2>4. Last(a) = s[n]
    BY <2>2 DEF Last
  <2>5. n # 0
    BY <1>6
  <2> QED
    BY <1>4, <2>2, <2>3, <2>4, <2>5
<1> QED
  BY <1>1, <1>5, <1>6

(* The bytes that have been read, as pieces.                               *)
LEMMA ReadUpToIs ==
  ASSUME NEW w, NEW s, FileOK(s, w), NEW t, Ready(t, s), NEW n \in t.offset .. Len(s)
  PROVE  /\ ReadUpTo(t, s, n) \in Tails
         /\ ReadUpTo(t, s, n).created = t.created /\ ReadUpTo(t, s, n).offset = n
         /\ ReadUpTo(t, s, n).anchor = Anchor(s, n)
         /\ ReadUpTo(t, s, n).pending = Gathered(t, s, n)
         /\ ReadUpTo(t, s, n).discard = t.discard
<1>1. s \in Seq(Bytes) /\ n \in 0 .. Len(s) /\ n \in Nat
  BY DEF FileOK, Ready, Tails
<1>2. Anchor(s, n) \in Seq(Nat \X Nat) /\ Gathered(t, s, n) \in Seq(Bytes)
  BY <1>1, AnchorIs, ReadBytes
<1>3. t \in Tails
  BY DEF Ready
<1>4. ReadUpTo(t, s, n) = [t EXCEPT !.pending = Gathered(t, s, n), !.offset = n, !.anchor = Anchor(s, n)]
  BY <1>3 DEF ReadUpTo, Gathered, Tails
<1> QED
  BY <1>1, <1>2, <1>3, <1>4 DEF Tails

LEMMA GatheredPieces ==
  ASSUME NEW w, NEW s, FileOK(s, w), NEW t, Ready(t, s), NEW n \in t.offset .. Len(s),
         NEW q, q = Gathered(t, s, n)
  PROVE  /\ Pieces(Split(q), q, Len(q), t.discard)
         /\ q \in Seq(Bytes)
         /\ Len(q) > 0 => n \in 1 .. Len(s) /\ q[Len(q)] = s[n]
         /\ Len(q) = 0 => n = t.offset /\ t.pending = << >>
         /\ n = 0 => Len(q) = 0
         /\ \A i \in 1 .. Len(q) : IsNewline(q[i]) =>
              \E j \in t.offset + 1 .. n : q[i] = s[j]
<1> DEFINE m == Len(t.pending)
           o == t.offset
<1>1. /\ q \in Seq(Bytes) /\ m \in Nat /\ Len(q) = m + n - o
      /\ \A i \in 1 .. m : q[i] = t.pending[i]
      /\ \A i \in m + 1 .. Len(q) : q[i] = s[o + i - m]
  BY ReadBytes
<1>2. Pieces(Split(q), q, Len(q), t.discard)
  <2>1. t.discard \in BOOLEAN
    BY DEF Ready, Tails
  <2> QED
    BY <2>1, ReadsLines, SplitIs
<1>3. /\ o \in Nat /\ n \in Nat /\ o <= n /\ n <= Len(s) /\ Len(s) \in Nat /\ t.pending \in Seq(Bytes)
  BY DEF FileOK, Ready, Tails
<1>4. m = 0 <=> t.pending = << >>
  BY <1>3
<1>5. m > 0 => o \in 1 .. Len(s) /\ t.pending[m] = s[o]
  BY <1>4 DEF Ready, RestReady
<1>6. \A i \in 1 .. m : ~IsNewline(q[i])
  BY <1>1 DEF Ready, RestReady
<1> HIDE DEF m, o
<1>7. ASSUME Len(q) > 0 PROVE n \in 1 .. Len(s) /\ q[Len(q)] = s[n]
  <2>1. CASE n > o
    <3>1. Len(q) \in m + 1 .. Len(q) /\ o + Len(q) - m = n /\ n \in 1 .. Len(s)
      BY <1>1, <1>3, <2>1
    <3> QED
      BY <1>1, <3>1
  <2>2. CASE n = o
    <3>1. Len(q) = m /\ m > 0 /\ m \in 1 .. m
      BY <1>1, <1>3, <1>7, <2>2
    <3> QED
      BY <1>1, <1>5, <2>2, <3>1
  <2> QED
    BY <1>3, <2>1, <2>2
<1>8. Len(q) = 0 => n = o /\ t.pending = << >>
  BY <1>1, <1>3, <1>4
<1>9. n = 0 => Len(q) = 0
  <2> SUFFICES ASSUME n = 0 PROVE Len(q) = 0
    OBVIOUS
  <2>1. o = 0
    BY <1>3
  <2>2. m = 0
    BY <1>1, <1>5, <2>1
  <2> QED
    BY <1>1, <2>1, <2>2
<1>10. ASSUME NEW i \in 1 .. Len(q), IsNewline(q[i])
       PROVE  \E j \in o + 1 .. n : q[i] = s[j]
  <2>1. i \notin 1 .. m
    BY <1>6, <1>10
  <2>2. i \in m + 1 .. Len(q) /\ o + i - m \in o + 1 .. n
    BY <1>1, <1>3, <2>1
  <2> QED
    BY <1>1, <2>2
<1> QED
  BY <1>1, <1>2, <1>7, <1>8, <1>9, <1>10 DEF o

(* The tail after a read can read on from where it ended.                   *)
LEMMA TakenIs ==
  ASSUME NEW w, NEW s, FileOK(s, w), NEW t, Ready(t, s), NEW n \in t.offset .. Len(s)
  PROVE  /\ Ready(Taken(ReadUpTo(t, s, n)), s)
         /\ Taken(ReadUpTo(t, s, n)).created = t.created
         /\ Taken(ReadUpTo(t, s, n)).offset = n
         /\ Taken(ReadUpTo(t, s, n)).anchor = Anchor(s, n)
         /\ t.discard /\ ~Taken(ReadUpTo(t, s, n)).discard =>
              \E j \in t.offset + 1 .. n : IsNewline(s[j])
<1> DEFINE r == ReadUpTo(t, s, n)
           q == Gathered(t, s, n)
           p == Split(q)
           x == Taken(r)
           long == p.lines = << >> /\ Len(q) > Limit
<1>1. /\ r \in Tails /\ r.created = t.created /\ r.offset = n /\ r.anchor = Anchor(s, n)
      /\ r.pending = q /\ r.discard = t.discard
  BY ReadUpToIs
<1>2. /\ Pieces(p, q, Len(q), t.discard) /\ q \in Seq(Bytes)
      /\ Len(q) > 0 => n \in 1 .. Len(s) /\ q[Len(q)] = s[n]
      /\ Len(q) = 0 => n = t.offset /\ t.pending = << >>
      /\ n = 0 => Len(q) = 0
      /\ \A i \in 1 .. Len(q) : IsNewline(q[i]) => \E j \in t.offset + 1 .. n : q[i] = s[j]
  BY GatheredPieces
<1>3. /\ p \in Halves /\ Ends(p, q, Len(q)) /\ RestIs(p, q, Len(q), t.discard)
      /\ p.rest \in Seq(Bytes) /\ Len(q) \in Nat
  BY <1>2 DEF Pieces, Halves
<1>4. /\ t \in Tails /\ t.offset \in Nat /\ n \in Nat /\ t.discard \in BOOLEAN /\ Len(s) \in Nat
      /\ t.offset <= n /\ n <= Len(s) /\ s \in Seq(Bytes)
  BY DEF FileOK, Ready, Tails
<1>5. x = IF long THEN [r EXCEPT !.pending = << >>, !.discard = TRUE]
          ELSE [r EXCEPT !.pending = p.rest, !.discard = @ /\ p.lines = << >>]
  BY <1>1 DEF Taken
<1> HIDE DEF r, q, p, x, long
<1>6. CASE long
  <2>1. x = [r EXCEPT !.pending = << >>, !.discard = TRUE]
    BY <1>5, <1>6
  <2>2. /\ x \in Tails /\ x.created = r.created /\ x.offset = r.offset /\ x.anchor = r.anchor
        /\ x.pending = << >> /\ x.discard
    <3>1. << >> \in Seq(Bytes)
      OBVIOUS
    <3> QED
      BY <1>1, <2>1, <3>1 DEF Tails
  <2>3. Len(q) > 0
    BY <1>3, <1>6, TailAssumption DEF long, TailAssumption
  <2>4. n # 0
    BY <1>2, <2>3
  <2>5. RestReady(x, s)
    BY <2>2 DEF RestReady
  <2>6. ASSUME NEW i \in n + 1 .. Len(s) PROVE OfLaunch(s[i], x.discard)
    <3>1. i \in t.offset + 1 .. Len(s)
      BY <1>4
    <3> QED
      BY <2>2, <3>1 DEF Ready, OfLaunch
  <2>7. Ready(x, s)
    <3>1. x.offset = n /\ n \in 0 .. Len(s)
      BY <1>1, <1>4, <2>2
    <3> QED
      BY <2>2, <2>4, <2>5, <2>6, <3>1 DEF Ready
  <2> QED
    BY <1>1, <2>2, <2>7 DEF r, x
<1>7. CASE ~long
  <2>1. x = [r EXCEPT !.pending = p.rest, !.discard = @ /\ p.lines = << >>]
    BY <1>5, <1>7
  <2>2. /\ x \in Tails /\ x.created = r.created /\ x.offset = r.offset /\ x.anchor = r.anchor
        /\ x.pending = p.rest /\ x.discard = (r.discard /\ p.lines = << >>)
    BY <1>1, <1>3, <2>1 DEF Tails
  <2>3. x.discard <=> t.discard /\ p.lines = << >>
    BY <1>1, <2>2
  <2>4. x.offset = n /\ x.pending = p.rest
    BY <1>1, <2>2
  <2>5. n = 0 => ~x.discard
    <3>1. n = 0 => t.offset = 0
      BY <1>4
    <3> QED
      BY <2>3, <3>1 DEF Ready
  <2>6. \A i \in 1 .. Len(x.pending) : ~IsNewline(x.pending[i])
    BY <1>3, <2>4 DEF RestIs
  <2>7. x.pending # << >> => n \in 1 .. Len(s) /\ x.pending[Len(x.pending)] = s[n]
    BY <1>2, <1>3, <2>4 DEF Ends
  <2>8. ASSUME ~x.discard, x.pending = << >> PROVE n = 0 \/ IsNewline(s[n])
    <3>1. CASE Len(q) > 0
      BY <1>2, <1>3, <2>4, <2>8, <3>1 DEF Ends
    <3>2. CASE Len(q) = 0
      <4>1. p.lines = << >>
        BY <1>3, <3>2 DEF Ends
      <4>2. ~t.discard /\ t.pending = << >> /\ n = t.offset
        BY <1>2, <2>3, <2>8, <3>2, <4>1
      <4> QED
        BY <4>2 DEF Ready, RestReady
    <3> QED
      BY <1>3, <3>1, <3>2
  <2>9. ASSUME ~x.discard, x.pending # << >> PROVE s[n][1] > History /\ x.pending = Begun(s[n])
    <3>1. ~t.discard \/ p.lines # << >>
      BY <2>3, <2>9
    <3>2. q[Len(q)][1] > History /\ p.rest = Begun(q[Len(q)]) /\ Len(q) > 0
      BY <1>3, <2>4, <2>9, <3>1 DEF RestIs, Ends
    <3> QED
      BY <1>2, <2>4, <3>2
  <2>10. RestReady(x, s)
    BY <2>4, <2>6, <2>7, <2>8, <2>9 DEF RestReady
  <2>11. ASSUME t.discard, ~x.discard PROVE \E j \in t.offset + 1 .. n : IsNewline(s[j])
    <3>1. p.lines # << >>
      BY <2>3, <2>11
    <3>2. PICK i \in 1 .. Len(q) : IsNewline(q[i])
      BY <1>3, <3>1 DEF Ends
    <3> QED
      BY <1>2, <3>2
  <2>12. ASSUME NEW i \in n + 1 .. Len(s) PROVE OfLaunch(s[i], x.discard)
    <3>1. i \in t.offset + 1 .. Len(s) /\ i \in 1 .. Len(s)
      BY <1>4
    <3>2. OfLaunch(s[i], t.discard)
      BY <3>1 DEF Ready
    <3>3. CASE t.discard /\ ~x.discard
      <4>1. PICK j \in t.offset + 1 .. n : IsNewline(s[j])
        BY <2>11, <3>3
      <4>2. j \in 1 .. Len(s) /\ j < i /\ j \in t.offset + 1 .. Len(s)
        BY <1>4
      <4>3. s[j] \in Bytes /\ s[i] \in Bytes /\ Before(s[j], s[i]) /\ OfLaunch(s[j], t.discard)
        BY <1>4, <3>1, <4>2 DEF FileOK, Ready
      <4>4. s[j][1] < s[i][1]
        BY <4>1, <4>3, NewlineEnds DEF Places
      <4> QED
        BY <4>3, <4>4, ByteIs, Lengths DEF OfLaunch
    <3>4. CASE ~t.discard \/ x.discard
      BY <3>2, <3>4 DEF OfLaunch
    <3> QED
      BY <3>3, <3>4
  <2>13. Ready(x, s)
    BY <1>4, <2>2, <2>4, <2>5, <2>10, <2>12 DEF Ready
  <2> QED
    BY <1>1, <2>2, <2>11, <2>13 DEF r, x
<1> QED
  BY <1>6, <1>7

(* Lines of the launch, in their order, that end among the bytes read.      *)
EndAmong(ret, s, low, high) ==
  /\ ret \in Seq(Seq(Bytes))
  /\ \A i \in 1 .. Len(ret) : \E j \in low .. high :
       IsNewline(s[j]) /\ s[j][1] > History /\ ret[i] = Whole(s[j][1])
  /\ \A i, j \in 1 .. Len(ret) : i < j => ret[i][1][1] < ret[j][1][1]

(* That is what a tail reports.                                            *)
LEMMA ReturnedIs ==
  ASSUME NEW w, NEW s, FileOK(s, w), NEW t, Ready(t, s), NEW n \in t.offset .. Len(s)
  PROVE  EndAmong(Returned(ReadUpTo(t, s, n)), s, t.offset + 1, n)
<1> DEFINE q == Gathered(t, s, n)
           p == Split(q)
           ret == Returned(ReadUpTo(t, s, n))
<1>1. ret = IF t.discard /\ p.lines # << >> THEN Tail(p.lines) ELSE p.lines
  BY ReadUpToIs DEF Returned
<1>2. /\ Pieces(p, q, Len(q), t.discard) /\ q \in Seq(Bytes)
      /\ \A i \in 1 .. Len(q) : IsNewline(q[i]) => \E j \in t.offset + 1 .. n : q[i] = s[j]
  BY GatheredPieces
<1>3. /\ p.lines \in Seq(Seq(Bytes)) /\ LinesAre(p, q, Len(q), t.discard) /\ InOrder(p, t.discard)
      /\ t.discard \in BOOLEAN
  BY <1>2 DEF Pieces, Halves, Ready, Tails
<1> HIDE DEF q, p, ret
<1>4. \E d \in Nat : /\ ret \in Seq(Seq(Bytes))
                     /\ \A i \in 1 .. Len(ret) : i + d \in Proper(p, t.discard) /\ ret[i] = p.lines[i + d]
  <2>1. CASE t.discard /\ p.lines # << >>
    <3>1. ret \in Seq(Seq(Bytes)) /\ Len(ret) = Len(p.lines) - 1 /\ \A i \in 1 .. Len(ret) : ret[i] = p.lines[i + 1]
      BY <1>1, <1>3, <2>1, HeadTailProperties
    <3>2. \A i \in 1 .. Len(ret) : i + 1 \in Proper(p, t.discard)
      BY <1>3, <3>1 DEF Proper
    <3> QED
      BY <3>1, <3>2
  <2>2. CASE ~(t.discard /\ p.lines # << >>)
    <3>1. ret = p.lines
      BY <1>1, <2>2
    <3>2. \A i \in 1 .. Len(ret) : i + 0 \in Proper(p, t.discard) /\ ret[i] = p.lines[i + 0]
      <4>1. CASE p.lines = << >>
        BY <3>1, <4>1
      <4>2. CASE ~t.discard
        BY <1>3, <3>1, <4>2 DEF Proper
      <4> QED
        BY <2>2, <4>1, <4>2
    <3> QED
      BY <1>3, <3>1, <3>2
  <2> QED
    BY <2>1, <2>2
<1>5. PICK d \in Nat : /\ ret \in Seq(Seq(Bytes))
                       /\ \A i \in 1 .. Len(ret) : i + d \in Proper(p, t.discard) /\ ret[i] = p.lines[i + d]
  BY <1>4
<1>6. ASSUME NEW i \in 1 .. Len(ret)
      PROVE  \E j \in t.offset + 1 .. n :
               IsNewline(s[j]) /\ s[j][1] > History /\ ret[i] = Whole(s[j][1])
  <2>1. PICK k \in 1 .. Len(q) :
          IsNewline(q[k]) /\ q[k][1] > History /\ p.lines[i + d] = Whole(q[k][1])
    BY <1>3, <1>5 DEF LinesAre
  <2> QED
    BY <1>2, <1>5, <2>1
<1>7. ASSUME NEW i \in 1 .. Len(ret), NEW j \in 1 .. Len(ret), i < j
      PROVE  ret[i][1][1] < ret[j][1][1]
  <2>1. i + d < j + d
    BY <1>7
  <2> QED
    BY <1>3, <1>5, <2>1 DEF InOrder
<1> QED
  BY <1>5, <1>6, <1>7 DEF EndAmong, ret

-----------------------------------------------------------------------------
(* The invariant of LogTail.                                                *)
LogTyped ==
  /\ path \in 0 .. MaxFiles /\ bytes \in [Files -> Seq(Bytes)] /\ born \in [Files -> Nat]
  /\ writing \in Places /\ tail \in Tails /\ reported \in Seq(Seq(Bytes))
  /\ poll \in [handle : 0 .. MaxFiles, length : Nat, created : Nat]

(* No byte is written twice.                                               *)
FilesOK ==
  /\ \A f \in Files : FileOK(bytes[f], writing)
  /\ \A f, g \in Files : f # g =>
       \A i \in 1 .. Len(bytes[f]), j \in 1 .. Len(bytes[g]) : bytes[f][i] # bytes[g][j]

(* A line of the launch before is finished in the file that was there, by a
   tail that discards it.  *)
PathOK ==
  /\ path = 0 => writing[2] = 1 /\ writing[1] > History
  /\ path # 0 =>
       /\ GoesOn(bytes[path], writing)
       /\ OfLaunch(writing, tail.discard)
       /\ writing[1] > History \/ HasMark(tail, bytes[path])

TailOK ==
  /\ (tail.anchor = << >>) <=> (tail.offset = 0)
  /\ tail.anchor # << >> => Before(Last(tail.anchor), writing)
  /\ tail.offset = 0 => tail.pending = << >> /\ ~tail.discard

(* A file that bears the mark can be read on, and any other is of the launch. *)
InStep(f) ==
  IF HasMark(tail, bytes[f])
  THEN /\ Ready(tail, bytes[f]) /\ tail.created = born[f]
       /\ tail.anchor = Anchor(bytes[f], tail.offset)
  ELSE \A i \in 1 .. Len(bytes[f]) : bytes[f][i][1] > History

(* Nothing of what is still to be read has been reported.                  *)
Untold(f) ==
  \A i \in 1 .. Len(bytes[f]), r \in 1 .. Len(reported) :
    (HasMark(tail, bytes[f]) => i > tail.offset) => reported[r][1][1] < bytes[f][i][1]

Followed == {path, poll.handle} \ {0}

FollowedOK == \A f \in Followed : InStep(f) /\ Untold(f)

(* Between the two calls of a poll the file may be rolled, and another one be
   written, but what the tail has read is where it was.  *)
PollOK ==
  poll # NoPoll =>
    /\ poll.handle # 0 /\ poll.created = born[poll.handle]
    /\ HasMark(tail, bytes[poll.handle]) =>
         tail.offset <= poll.length /\ poll.length <= Len(bytes[poll.handle])
    /\ poll.handle # path =>
         /\ \A i \in 1 .. Len(bytes[poll.handle]) : bytes[poll.handle][i][1] < writing[1]
         /\ path # 0 =>
              /\ ~HasMark(tail, bytes[path])
              /\ \A i \in 1 .. Len(bytes[poll.handle]), j \in 1 .. Len(bytes[path]) :
                   bytes[poll.handle][i][1] < bytes[path][j][1]

ReportedOK ==
  /\ \A r \in 1 .. Len(reported) : \E l \in 1 .. Len(Length) :
       l > History /\ reported[r] = Whole(l)
  /\ \A i, j \in 1 .. Len(reported) : i < j => reported[i][1][1] < reported[j][1][1]
  /\ \A r \in 1 .. Len(reported) : reported[r][1][1] < writing[1]

LogInv == LogTyped /\ FilesOK /\ PathOK /\ TailOK /\ FollowedOK /\ PollOK /\ ReportedOK

-----------------------------------------------------------------------------
(* The core writes.                                                         *)

(* A file that grows keeps its mark and its anchor, or has none as before.  *)
LEMMA MarkGrows ==
  ASSUME NEW t \in Tails, NEW w \in Bytes, NEW s \in Seq(Bytes),
         t.anchor # << >> => Before(Last(t.anchor), w)
  PROVE  /\ HasMark(t, Append(s, w)) <=> HasMark(t, s)
         /\ HasMark(t, s) => Anchor(Append(s, w), t.offset) = Anchor(s, t.offset)
<1> DEFINE u == Append(s, w)
           n == Len(s)
           o == t.offset
<1>1. /\ u \in Seq(Bytes) /\ Len(u) = n + 1 /\ u[n + 1] = w
      /\ \A i \in 1 .. n : u[i] = s[i]
      /\ n \in Nat /\ o \in Nat
  BY Appended DEF Tails
<1>2. ~Before(w, w)
  BY ByteIs DEF Before
<1> HIDE DEF u, n, o
<1>3. ASSUME HasMark(t, u) PROVE HasMark(t, s)
  <2>1. t.anchor # << >> /\ o \in 1 .. Len(u) /\ u[o] = Last(t.anchor)
    BY <1>3 DEF HasMark, o
  <2>2. u[o] # w
    BY <1>2, <2>1
  <2>3. o \in 1 .. n
    BY <1>1, <2>1, <2>2
  <2> QED
    BY <1>1, <2>1, <2>3 DEF HasMark, n, o
<1>4. ASSUME HasMark(t, s) PROVE HasMark(t, u) /\ Anchor(u, o) = Anchor(s, o)
  <2>1. t.anchor # << >> /\ o \in 1 .. n /\ s[o] = Last(t.anchor)
    BY <1>4 DEF HasMark, n, o
  <2>2. o \in 1 .. Len(u) /\ u[o] = s[o]
    BY <1>1, <2>1
  <2>3. HasMark(t, u)
    BY <2>1, <2>2 DEF HasMark, o
  <2> DEFINE low == IF o > AnchorSize THEN o - AnchorSize + 1 ELSE 1
             a == SubSeq(u, low, o)
             b == SubSeq(s, low, o)
  <2>4. low \in Nat /\ low >= 1 /\ low <= o
    BY <1>1, <2>1, TailAssumption DEF TailAssumption
  <2>5. Anchor(u, o) = a /\ Anchor(s, o) = b
    BY DEF Anchor
  <2> HIDE DEF low
  <2>6. \A i \in low .. o : i \in 1 .. n /\ u[i] = s[i] /\ s[i] \in Bytes /\ u[i] \in Bytes
    <3>1. \A i \in low .. o : i \in 1 .. n
      BY <1>1, <2>1, <2>4
    <3>2. \A i \in 1 .. n : s[i] \in Bytes
      BY DEF n
    <3> QED
      BY <1>1, <3>1, <3>2
  <2>7. /\ a \in Seq(Bytes) /\ Len(a) = o - low + 1
        /\ \A i \in 1 .. o - low + 1 : a[i] = u[low + i - 1]
    BY <1>1, <2>4, <2>6, SubSeqProperties
  <2>8. /\ b \in Seq(Bytes) /\ Len(b) = o - low + 1
        /\ \A i \in 1 .. o - low + 1 : b[i] = s[low + i - 1]
    BY <1>1, <2>4, <2>6, SubSeqProperties
  <2> HIDE DEF a, b
  <2>9. \A i \in 1 .. o - low + 1 : a[i] = b[i]
    <3> SUFFICES ASSUME NEW i \in 1 .. o - low + 1 PROVE a[i] = b[i]
      OBVIOUS
    <3>1. low + i - 1 \in low .. o
      BY <1>1, <2>4
    <3> QED
      BY <2>6, <2>7, <2>8, <3>1
  <2>10. a = b
    BY <2>7, <2>8, <2>9, SeqEqual
  <2> QED
    BY <2>3, <2>5, <2>10
<1> QED
  BY <1>3, <1>4 DEF u, o

LEMMA ReadyGrows ==
  ASSUME NEW w \in Bytes, NEW s \in Seq(Bytes), NEW t, Ready(t, s), OfLaunch(w, t.discard)
  PROVE  Ready(t, Append(s, w))
<1> DEFINE u == Append(s, w)
           n == Len(s)
           o == t.offset
<1>1. /\ u \in Seq(Bytes) /\ Len(u) = n + 1 /\ u[n + 1] = w
      /\ \A i \in 1 .. n : u[i] = s[i]
      /\ n \in Nat
  BY Appended
<1>2. /\ t \in Tails /\ o \in 0 .. n /\ (o = 0 => ~t.discard) /\ o \in Nat
      /\ \A i \in o + 1 .. n : OfLaunch(s[i], t.discard)
  BY DEF Ready, Tails
<1>3. /\ \A i \in 1 .. Len(t.pending) : ~IsNewline(t.pending[i])
      /\ t.pending # << >> => o \in 1 .. n /\ t.pending[Len(t.pending)] = s[o]
      /\ ~t.discard => IF t.pending = << >> THEN o = 0 \/ IsNewline(s[o])
                       ELSE s[o][1] > History /\ t.pending = Begun(s[o])
  BY DEF Ready, RestReady
<1> HIDE DEF u, n, o
<1>4. o # 0 => u[o] = s[o] /\ o \in 1 .. n
  BY <1>1, <1>2
<1>5. \A i \in 1 .. n : i \in 1 .. n + 1
  BY <1>1
<1>6. ~t.discard => IF t.pending = << >> THEN o = 0 \/ IsNewline(u[o])
                    ELSE u[o][1] > History /\ t.pending = Begun(u[o])
  <2>1. CASE o = 0
    BY <1>1, <1>3, <2>1
  <2>2. CASE o # 0
    BY <1>3, <1>4, <2>2
  <2> QED
    BY <2>1, <2>2
<1>7. t.pending # << >> => o \in 1 .. n + 1 /\ t.pending[Len(t.pending)] = u[o]
  BY <1>1, <1>3, <1>5
<1>8. RestReady(t, u)
  BY <1>1, <1>3, <1>6, <1>7 DEF RestReady, o
<1>9. ASSUME NEW i \in o + 1 .. n + 1 PROVE OfLaunch(u[i], t.discard)
  <2>1. i = n + 1 \/ (i \in o + 1 .. n /\ i \in 1 .. n)
    BY <1>1, <1>2
  <2> QED
    BY <1>1, <1>2, <2>1
<1>10. o \in 0 .. n + 1
  BY <1>1, <1>2
<1> QED
  BY <1>1, <1>2, <1>8, <1>9, <1>10 DEF Ready, u, o

LEMMA GrowStep ==
  ASSUME LogInv, NEW g \in Files, CanWrite, Append1(g), path' = g,
         UNCHANGED <<tail, poll, reported>>, born' \in [Files -> Nat],
         \A f \in Files : f # g => born'[f] = born[f],
         \/ path = g /\ born' = born
         \/ path = 0 /\ bytes[g] = << >> /\ g # poll.handle
  PROVE  LogInv'
<1> USE DEF LogInv
<1> DEFINE w == writing
           s == bytes[g]
           n == Len(s)
           v == After(w)
           u == Append(s, w)
<1>1. /\ w \in Bytes /\ s \in Seq(Bytes) /\ n \in Nat /\ tail \in Tails
      /\ MaxFiles \in Nat /\ g # 0 /\ g \in 0 .. MaxFiles
  <2>1. w[1] \in DOMAIN Length
    BY DEF CanWrite
  <2>2. w \in Places
    BY DEF LogTyped
  <2>3. w \in Bytes
    BY <2>1, <2>2, PlaceIs
  <2> QED
    BY <2>3, TailAssumption DEF LogTyped, TailAssumption, Files
<1>2. /\ u \in Seq(Bytes) /\ Len(u) = n + 1 /\ u[n + 1] = w
      /\ \A i \in 1 .. n : u[i] = s[i]
  BY <1>1, Appended
<1>3. /\ bytes' \in [Files -> Seq(Bytes)] /\ bytes'[g] = u
      /\ \A f \in Files : f # g => bytes'[f] = bytes[f]
      /\ writing' = v
  BY <1>2 DEF LogTyped, Append1
<1>4. v \in Places /\ Before(w, v) /\ w \in Places /\ v[1] \in Nat /\ w[1] \in Nat /\ w[1] <= v[1]
  BY <1>1, AfterIs, PlaceIs, ByteIs DEF Places
<1>5. /\ FileOK(s, w) /\ GoesOn(s, w)
      /\ OfLaunch(w, tail.discard) /\ (w[1] > History \/ HasMark(tail, s))
  <2>1. FileOK(s, w)
    BY DEF FilesOK
  <2>2. CASE path = g
    BY <1>1, <2>1, <2>2 DEF PathOK
  <2>3. CASE path = 0 /\ bytes[g] = << >>
    BY <2>1, <2>3 DEF PathOK, GoesOn, OfLaunch
  <2> QED
    BY <2>2, <2>3
<1>6. FileOK(u, v) /\ GoesOn(u, v)
  BY <1>1, <1>5, FileGrows
<1>7. /\ HasMark(tail, u) <=> HasMark(tail, s)
      /\ HasMark(tail, s) => Anchor(u, tail.offset) = Anchor(s, tail.offset)
  BY <1>1, MarkGrows DEF TailOK
<1>8. ~HasMark(tail, << >>)
  BY DEF HasMark
<1>9. g \notin Followed => s = << >>
  BY <1>1 DEF Followed
<1>10. \A f \in Files : \A i \in 1 .. Len(bytes[f]) :
         bytes[f][i] # w /\ bytes[f][i] \in Bytes
  <2> SUFFICES ASSUME NEW f \in Files, NEW i \in 1 .. Len(bytes[f])
               PROVE  bytes[f][i] # w /\ bytes[f][i] \in Bytes
    OBVIOUS
  <2>1. Before(bytes[f][i], w) /\ bytes[f][i] \in Bytes
    BY DEF FilesOK, FileOK
  <2> QED
    BY <1>1, <2>1, ByteIs DEF Before
<1>11. \A f \in Followed : f \in Files /\ f # 0
  BY <1>1 DEF Followed, LogTyped, Files
<1>12. Followed' \subseteq Followed \cup {g}
  BY DEF Followed
<1>13. /\ \A i \in 1 .. n + 1 : i \in 1 .. n \/ i = n + 1
       /\ \A i \in 1 .. n : i \in 1 .. n + 1
  BY <1>1
<1> HIDE DEF u, v
<1>14. LogTyped'
  BY <1>1, <1>3, <1>4 DEF LogTyped
<1>15. FilesOK'
  <2>1. ASSUME NEW f \in Files PROVE FileOK(bytes'[f], writing')
    <3>1. CASE f = g
      BY <1>3, <1>6, <3>1
    <3>2. CASE f # g
      <4>1. FileOK(bytes[f], w)
        BY DEF FilesOK
      <4> QED
        BY <1>3, <1>4, <3>2, <4>1, FileLater
    <3> QED
      BY <3>1, <3>2
  <2>2. \A f, h \in Files : f # h =>
          \A i \in 1 .. Len(bytes[f]), j \in 1 .. Len(bytes[h]) : bytes[f][i] # bytes[h][j]
    BY DEF FilesOK
  <2>3. ASSUME NEW f \in Files, f # g,
               NEW i \in 1 .. Len(bytes[f]), NEW j \in 1 .. n + 1
        PROVE  bytes[f][i] # u[j]
    <3>1. CASE j = n + 1
      BY <1>2, <1>10, <2>3, <3>1
    <3>2. CASE j \in 1 .. n
      <4>1. u[j] = s[j]
        BY <1>2, <3>2
      <4>2. bytes[f][i] # s[j]
        BY <2>2, <2>3, <3>2
      <4> QED
        BY <4>1, <4>2
    <3> QED
      BY <1>13, <3>1, <3>2
  <2>4. ASSUME NEW f \in Files, NEW h \in Files, f # h,
               NEW i \in 1 .. Len(bytes'[f]), NEW j \in 1 .. Len(bytes'[h])
        PROVE  bytes'[f][i] # bytes'[h][j]
    <3>1. CASE f = g
      <4>1. h # g /\ bytes'[h] = bytes[h] /\ bytes'[f] = u /\ i \in 1 .. n + 1
        BY <1>2, <1>3, <2>4, <3>1
      <4>2. j \in 1 .. Len(bytes[h])
        BY <4>1
      <4> QED
        BY <2>3, <4>1, <4>2
    <3>2. CASE h = g
      <4>1. f # g /\ bytes'[f] = bytes[f] /\ bytes'[h] = u /\ j \in 1 .. n + 1
        BY <1>2, <1>3, <2>4, <3>2
      <4>2. i \in 1 .. Len(bytes[f])
        BY <4>1
      <4> QED
        BY <2>3, <4>1, <4>2
    <3>3. CASE f # g /\ h # g
      <4>1. bytes'[f] = bytes[f] /\ bytes'[h] = bytes[h]
        BY <1>3, <3>3
      <4>2. i \in 1 .. Len(bytes[f]) /\ j \in 1 .. Len(bytes[h])
        BY <4>1
      <4> QED
        BY <2>2, <2>4, <4>1, <4>2
    <3> QED
      BY <3>1, <3>2, <3>3
  <2> QED
    BY <1>3, <2>1, <2>4 DEF FilesOK
<1>16. PathOK'
  <2>1. OfLaunch(v, tail.discard) /\ (v[1] > History \/ HasMark(tail, u))
    <3>1. CASE IsNewline(w)
      <4>1. v[1] = w[1] + 1
        BY <1>1, <3>1, AfterIs DEF v
      <4> QED
        BY <1>1, <1>5, <4>1, ByteIs, Lengths DEF OfLaunch
    <3>2. CASE ~IsNewline(w)
      <4>1. v[1] = w[1] /\ v[2] = w[2] + 1
        BY <1>1, <3>2, AfterIs DEF v
      <4> QED
        BY <1>1, <1>5, <1>7, <4>1, ByteIs, Lengths DEF OfLaunch
    <3> QED
      BY <3>1, <3>2
  <2> QED
    BY <1>1, <1>3, <1>6, <2>1 DEF PathOK
<1>17. TailOK'
  <2>1. ASSUME tail.anchor # << >> PROVE Before(Last(tail.anchor), v)
    <3> DEFINE b == Last(tail.anchor)
    <3>1. Before(b, w)
      BY <2>1 DEF TailOK
    <3>2. b \in Nat \X Nat
      <4>1. tail.anchor \in Seq(Nat \X Nat) /\ Len(tail.anchor) \in 1 .. Len(tail.anchor)
        BY <1>1, <2>1 DEF Tails
      <4> QED
        BY <4>1 DEF Last
    <3> HIDE DEF b
    <3>3. b[1] \in Nat /\ b[2] \in Nat
      BY <3>2
    <3> QED
      BY <1>4, <3>1, <3>3, BeforeIs, PlaceIs DEF b
  <2> QED
    BY <1>3, <2>1 DEF TailOK
<1>18. ASSUME NEW f \in Followed' PROVE InStep(f)' /\ Untold(f)'
  <2>1. CASE f # g
    <3>1. f \in Followed /\ f \in Files /\ InStep(f) /\ Untold(f)
      BY <1>11, <1>12, <1>18, <2>1 DEF FollowedOK
    <3>2. bytes'[f] = bytes[f] /\ born'[f] = born[f]
      BY <1>3, <2>1, <3>1
    <3> QED
      BY <3>1, <3>2 DEF InStep, Untold
  <2>2. CASE f = g
    <3>1. CASE HasMark(tail, s)
      <4>1. s # << >>
        BY <1>8, <3>1
      <4>2. path = g /\ g \in Followed /\ born' = born
        BY <1>1, <4>1 DEF Followed
      <4>3. InStep(g) /\ Untold(g)
        BY <4>2 DEF FollowedOK
      <4>4. Ready(tail, s) /\ tail.created = born[g] /\ tail.anchor = Anchor(s, tail.offset)
        BY <3>1, <4>3 DEF InStep
      <4>5. Ready(tail, u)
        BY <1>1, <1>5, <4>4, ReadyGrows DEF u
      <4>6. InStep(g)'
        BY <1>3, <1>7, <3>1, <4>2, <4>4, <4>5 DEF InStep
      <4>7. ASSUME NEW i \in 1 .. n + 1, NEW r \in 1 .. Len(reported), i > tail.offset
            PROVE  reported[r][1][1] < u[i][1]
        BY <1>2, <1>13, <3>1, <4>3, <4>7 DEF Untold, ReportedOK
      <4> QED
        BY <1>2, <1>3, <1>7, <2>2, <3>1, <4>6, <4>7 DEF Untold
    <3>2. CASE ~HasMark(tail, s)
      <4>1. \A i \in 1 .. n : s[i][1] > History
        BY <1>9, <3>2 DEF FollowedOK, InStep
      <4>2. \A i \in 1 .. n + 1 : u[i][1] > History
        BY <1>2, <1>5, <1>13, <3>2, <4>1
      <4>3. InStep(g)'
        BY <1>2, <1>3, <1>7, <3>2, <4>2 DEF InStep
      <4>4. \A i \in 1 .. n, r \in 1 .. Len(reported) : reported[r][1][1] < s[i][1]
        BY <1>9, <3>2 DEF FollowedOK, Untold
      <4>5. ASSUME NEW i \in 1 .. n + 1, NEW r \in 1 .. Len(reported)
            PROVE  reported[r][1][1] < u[i][1]
        BY <1>2, <1>13, <4>4 DEF ReportedOK
      <4> QED
        BY <1>2, <1>3, <2>2, <4>3, <4>5 DEF Untold
    <3> QED
      BY <3>1, <3>2
  <2> QED
    BY <2>1, <2>2
<1>19. PollOK'
  <2> SUFFICES ASSUME poll # NoPoll PROVE PollOK'
    BY DEF PollOK
  <2> DEFINE h == poll.handle
  <2>1. /\ h # 0 /\ h \in Files /\ poll.created = born[h]
        /\ HasMark(tail, bytes[h]) => tail.offset <= poll.length /\ poll.length <= Len(bytes[h])
    BY <1>1 DEF PollOK, LogTyped, Files
  <2>2. CASE h = g
    <3>1. path = g /\ born' = born
      BY <2>2
    <3>2. HasMark(tail, u) => tail.offset <= poll.length /\ poll.length <= n + 1
      <4>1. poll.length \in Nat
        BY DEF LogTyped
      <4> QED
        BY <1>1, <1>7, <2>1, <2>2, <4>1
    <3> QED
      BY <1>2, <1>3, <2>1, <2>2, <3>1, <3>2 DEF PollOK
  <2>3. CASE h # g
    <3>1. bytes'[h] = bytes[h] /\ born'[h] = born[h] /\ h # path
      BY <1>3, <2>1, <2>3
    <3>2. \A i \in 1 .. Len(bytes[h]) : bytes[h][i][1] < w[1] /\ bytes[h][i][1] \in Nat
      BY <1>10, <2>1, <3>1, ByteIs DEF PollOK
    <3>3. \A i \in 1 .. Len(bytes[h]) : bytes[h][i][1] < v[1]
      BY <1>4, <3>2
    <3>4. ~HasMark(tail, u)
      BY <1>1, <1>7, <1>8, <3>1 DEF PollOK
    <3>5. \A i \in 1 .. Len(bytes[h]), j \in 1 .. n : bytes[h][i][1] < s[j][1]
      <4>1. CASE path = g
        BY <1>1, <3>1, <4>1 DEF PollOK
      <4>2. CASE bytes[g] = << >>
        BY <4>2
      <4> QED
        BY <4>1, <4>2
    <3>6. \A i \in 1 .. Len(bytes[h]), j \in 1 .. n + 1 : bytes[h][i][1] < u[j][1]
      BY <1>2, <1>13, <3>2, <3>5
    <3> QED
      BY <1>2, <1>3, <2>1, <3>1, <3>3, <3>4, <3>6 DEF PollOK
  <2> QED
    BY <2>2, <2>3
<1>20. ReportedOK'
  <2>1. ASSUME NEW r \in 1 .. Len(reported) PROVE reported[r][1][1] < v[1]
    <3>1. reported[r][1][1] < w[1]
      BY DEF ReportedOK
    <3>2. PICK l \in 1 .. Len(Length) : reported[r] = Whole(l)
      BY DEF ReportedOK
    <3>3. reported[r][1][1] = l /\ l \in Nat
      BY <3>2, Lengths DEF Whole, Byte
    <3> QED
      BY <1>4, <3>1, <3>3
  <2> QED
    BY <1>3, <2>1 DEF ReportedOK
<1> QED
  BY <1>14, <1>15, <1>16, <1>17, <1>18, <1>19, <1>20 DEF FollowedOK

LEMMA WriteStep ==
  ASSUME LogInv, Write
  PROVE  LogInv'
<1>1. path \in Files /\ path' = path /\ born' = born /\ born \in [Files -> Nat]
  BY TailAssumption DEF Write, LogInv, LogTyped, Files, TailAssumption
<1>2. CanWrite /\ Append1(path) /\ UNCHANGED <<tail, poll, reported>>
  BY DEF Write
<1> QED
  BY <1>1, <1>2, GrowStep

LEMMA CreateStep ==
  ASSUME LogInv, Create
  PROVE  LogInv'
<1>1. PICK f \in Unused : \E again \in BOOLEAN :
        path' = f /\ Append1(f) /\ born' = [born EXCEPT ![f] = IF again THEN 1 ELSE f]
  BY DEF Create
<1>2. f \in Files /\ bytes[f] = << >> /\ f # poll.handle
  BY DEF Unused
<1>3. f \in Nat
  BY <1>2, TailAssumption DEF Files, TailAssumption
<1>4. born' \in [Files -> Nat] /\ \A g \in Files : g # f => born'[g] = born[g]
  BY <1>1, <1>2, <1>3 DEF LogInv, LogTyped
<1>5. CanWrite /\ path = 0 /\ UNCHANGED <<tail, poll, reported>>
  BY DEF Create
<1> QED
  BY <1>1, <1>2, <1>4, <1>5, GrowStep

-----------------------------------------------------------------------------
(* The logger rolls, and the user replaces what the file holds.             *)

(* A file whose next byte begins a line has none of that line.              *)
LEMMA LineStarts ==
  ASSUME NEW w \in Places, w[2] = 1, NEW s, FileOK(s, w), GoesOn(s, w), NEW i \in 1 .. Len(s)
  PROVE  s[i][1] < w[1]
<1> DEFINE n == Len(s)
           b == s[n]
<1>1. s \in Seq(Bytes) /\ n \in Nat /\ n > 0 /\ n \in 1 .. n /\ b \in Bytes /\ s[i] \in Bytes
  BY LenProperties DEF FileOK
<1>2. Follows(b, w)
  BY <1>1 DEF GoesOn
<1>3. b[1] < w[1]
  <2>1. CASE w = After(b)
    <3>1. IsNewline(b)
      BY <1>1, <2>1, AfterIs, ByteIs
    <3> QED
      BY <1>1, <2>1, <3>1, AfterIs, ByteIs
  <2>2. CASE b[1] = History /\ w = Byte(History + 1, 1)
    BY <2>2, Lengths DEF Byte
  <2> QED
    BY <1>2, <2>1, <2>2 DEF Follows
<1>4. CASE i = n
  BY <1>3, <1>4
<1>5. CASE i # n
  <2>1. i < n
    BY <1>1, <1>5
  <2>2. Before(s[i], b)
    BY <1>1, <2>1 DEF FileOK
  <2>3. s[i][1] <= b[1]
    BY <1>1, <2>2, ByteIs DEF Before
  <2> QED
    BY <1>1, <1>3, <2>3, ByteIs, PlaceIs
<1> QED
  BY <1>4, <1>5

LEMMA RollStep ==
  ASSUME LogInv, Roll
  PROVE  LogInv'
<1> USE DEF LogInv
<1>1. /\ path # 0 /\ path \in Files /\ writing[2] = 1 /\ path' = 0 /\ writing \in Places
      /\ UNCHANGED <<bytes, born, writing, tail, poll, reported>>
  BY TailAssumption DEF Roll, LogTyped, Files, TailAssumption
<1>2. LogTyped' /\ FilesOK' /\ TailOK' /\ ReportedOK'
  <2>1. 0 \in 0 .. MaxFiles
    BY TailAssumption DEF TailAssumption
  <2>2. LogTyped'
    BY <1>1, <2>1 DEF LogTyped
  <2>3. FilesOK'
    BY <1>1 DEF FilesOK
  <2>4. TailOK' /\ ReportedOK'
    BY <1>1 DEF TailOK, ReportedOK
  <2> QED
    BY <2>2, <2>3, <2>4
<1>3. PathOK'
  <2>1. writing[1] > History
    BY <1>1 DEF PathOK, OfLaunch
  <2> QED
    BY <1>1, <2>1 DEF PathOK
<1>4. FollowedOK'
  <2>1. Followed' \subseteq Followed
    BY <1>1 DEF Followed
  <2>2. ASSUME NEW f \in Followed PROVE InStep(f)' /\ Untold(f)'
    BY <1>1 DEF FollowedOK, InStep, Untold
  <2> QED
    BY <2>1, <2>2 DEF FollowedOK
<1>5. PollOK'
  <2>1. ASSUME poll.handle = path, NEW i \in 1 .. Len(bytes[path]) PROVE bytes[path][i][1] < writing[1]
    BY <1>1, LineStarts DEF FilesOK, PathOK
  <2> QED
    BY <1>1, <2>1 DEF PollOK
<1> QED
  BY <1>2, <1>3, <1>4, <1>5

(* The file gets another content: nothing, or bytes of the next line.       *)
LEMMA ReplaceStep ==
  ASSUME LogInv, path # 0, writing[2] = 1,
         NEW u, NEW v \in Places, FileOK(u, v), GoesOn(u, v), v[2] = 1,
         v = writing \/ Before(writing, v),
         \A i \in 1 .. Len(u) : u[i] = Byte(writing[1], i),
         bytes' = [bytes EXCEPT ![path] = u], writing' = v,
         UNCHANGED <<path, born, tail, poll, reported>>
  PROVE  LogInv'
<1> USE DEF LogInv
<1> DEFINE w == writing
<1>1. /\ path \in Files /\ u \in Seq(Bytes) /\ Len(u) \in Nat /\ w \in Places /\ tail \in Tails
      /\ bytes' \in [Files -> Seq(Bytes)] /\ bytes'[path] = u
      /\ \A f \in Files : f # path => bytes'[f] = bytes[f]
  <2>1. path \in Files
    BY TailAssumption DEF LogTyped, Files, TailAssumption
  <2>2. u \in Seq(Bytes) /\ Len(u) \in Nat
    BY DEF FileOK
  <2>3. bytes \in [Files -> Seq(Bytes)] /\ w \in Places /\ tail \in Tails
    BY DEF LogTyped
  <2> QED
    BY <2>1, <2>2, <2>3
<1>2. w[1] > History /\ w[1] \in Nat /\ v[1] \in Nat /\ w[1] <= v[1] /\ v[1] > History
  BY <1>1, PlaceIs, Lengths DEF PathOK, OfLaunch, Before
<1>3. \A i \in 1 .. Len(u) : u[i][1] = w[1] /\ u[i][2] = i
  BY DEF Byte
<1>4. ASSUME NEW i \in 1 .. Len(u), NEW b, Before(b, w) PROVE u[i] # b
  BY <1>1, <1>2, <1>3, <1>4, PlaceIs DEF Before
<1>5. ~HasMark(tail, u)
  <2> SUFFICES ASSUME HasMark(tail, u) PROVE FALSE
    OBVIOUS
  <2>1. tail.anchor # << >> /\ tail.offset \in 1 .. Len(u) /\ u[tail.offset] = Last(tail.anchor)
    BY DEF HasMark
  <2> QED
    BY <1>4, <2>1 DEF TailOK
<1>6. \A f \in Followed : f \in Files
  BY DEF Followed, LogTyped, Files
<1>7. LogTyped'
  BY <1>1 DEF LogTyped
<1>8. FilesOK'
  <2>1. ASSUME NEW f \in Files PROVE FileOK(bytes'[f], v)
    <3>1. CASE f = path
      BY <1>1, <3>1
    <3>2. CASE f # path
      <4>1. FileOK(bytes[f], w) /\ bytes'[f] = bytes[f]
        BY <1>1, <3>2 DEF FilesOK
      <4> QED
        BY <1>1, <4>1, FileLater
    <3> QED
      BY <3>1, <3>2
  <2>2. \A f, h \in Files : f # h =>
          \A i \in 1 .. Len(bytes[f]), j \in 1 .. Len(bytes[h]) : bytes[f][i] # bytes[h][j]
    BY DEF FilesOK
  <2>3. ASSUME NEW f \in Files, NEW i \in 1 .. Len(bytes[f]), NEW j \in 1 .. Len(u)
        PROVE  bytes[f][i] # u[j]
    <3>1. Before(bytes[f][i], w)
      BY DEF FilesOK, FileOK
    <3> QED
      BY <1>4, <3>1
  <2>4. ASSUME NEW f \in Files, NEW h \in Files, f # h,
               NEW i \in 1 .. Len(bytes'[f]), NEW j \in 1 .. Len(bytes'[h])
        PROVE  bytes'[f][i] # bytes'[h][j]
    <3>1. CASE f = path
      <4>1. h # path /\ bytes'[h] = bytes[h] /\ bytes'[f] = u
        BY <1>1, <2>4, <3>1
      <4>2. j \in 1 .. Len(bytes[h]) /\ i \in 1 .. Len(u)
        BY <4>1
      <4> QED
        BY <2>3, <4>1, <4>2
    <3>2. CASE h = path
      <4>1. f # path /\ bytes'[f] = bytes[f] /\ bytes'[h] = u
        BY <1>1, <2>4, <3>2
      <4>2. i \in 1 .. Len(bytes[f]) /\ j \in 1 .. Len(u)
        BY <4>1
      <4> QED
        BY <2>3, <4>1, <4>2
    <3>3. CASE f # path /\ h # path
      <4>1. bytes'[f] = bytes[f] /\ bytes'[h] = bytes[h]
        BY <1>1, <3>3
      <4>2. i \in 1 .. Len(bytes[f]) /\ j \in 1 .. Len(bytes[h])
        BY <4>1
      <4> QED
        BY <2>2, <2>4, <4>1, <4>2
    <3> QED
      BY <3>1, <3>2, <3>3
  <2> QED
    BY <2>1, <2>4 DEF FilesOK
<1>9. PathOK'
  BY <1>1, <1>2 DEF PathOK, OfLaunch
<1>10. TailOK'
  <2>1. ASSUME tail.anchor # << >> PROVE Before(Last(tail.anchor), v)
    <3> DEFINE b == Last(tail.anchor)
    <3>1. Before(b, w)
      BY <2>1 DEF TailOK
    <3>2. b \in Nat \X Nat
      <4>1. tail.anchor \in Seq(Nat \X Nat) /\ Len(tail.anchor) \in 1 .. Len(tail.anchor)
        BY <1>1, <2>1 DEF Tails
      <4> QED
        BY <4>1 DEF Last
    <3> HIDE DEF b
    <3>3. b[1] \in Nat /\ b[2] \in Nat
      BY <3>2
    <3> QED
      BY <1>1, <3>1, <3>3, BeforeIs, PlaceIs DEF b
  <2> QED
    BY <2>1 DEF TailOK
<1>11. ASSUME NEW f \in Followed' PROVE InStep(f)' /\ Untold(f)'
  <2>1. f \in Followed /\ f \in Files /\ InStep(f) /\ Untold(f)
    BY <1>6, <1>11 DEF Followed, FollowedOK
  <2>2. CASE f = path
    <3>1. \A i \in 1 .. Len(u), r \in 1 .. Len(reported) : reported[r][1][1] < u[i][1]
      BY <1>3 DEF ReportedOK
    <3>2. \A i \in 1 .. Len(u) : u[i][1] > History
      BY <1>2, <1>3
    <3> QED
      BY <1>1, <1>5, <2>2, <3>1, <3>2 DEF InStep, Untold
  <2>3. CASE f # path
    <3>1. bytes'[f] = bytes[f]
      BY <1>1, <2>1, <2>3
    <3> QED
      BY <2>1, <3>1 DEF InStep, Untold
  <2> QED
    BY <2>2, <2>3
<1>12. PollOK'
  <2> SUFFICES ASSUME poll # NoPoll PROVE PollOK'
    BY DEF PollOK
  <2> DEFINE h == poll.handle
  <2>1. /\ h # 0 /\ h \in Files /\ poll.created = born[h]
        /\ HasMark(tail, bytes[h]) => tail.offset <= poll.length /\ poll.length <= Len(bytes[h])
    BY TailAssumption DEF PollOK, LogTyped, Files, TailAssumption
  <2>2. CASE h = path
    BY <1>1, <1>5, <2>1, <2>2 DEF PollOK
  <2>3. CASE h # path
    <3>1. bytes'[h] = bytes[h]
      BY <1>1, <2>1, <2>3
    <3>2. \A i \in 1 .. Len(bytes[h]) : bytes[h][i][1] < w[1] /\ bytes[h][i][1] \in Nat
      <4>1. \A i \in 1 .. Len(bytes[h]) : bytes[h][i] \in Bytes
        BY <2>1 DEF LogTyped
      <4> QED
        BY <2>3, <4>1, ByteIs DEF PollOK
    <3>3. ASSUME NEW i \in 1 .. Len(bytes[h]) PROVE bytes[h][i][1] < v[1]
      <4>1. bytes[h][i][1] < w[1] /\ bytes[h][i][1] \in Nat
        BY <3>2
      <4> QED
        BY <1>2, <4>1
    <3>4. \A i \in 1 .. Len(bytes[h]), j \in 1 .. Len(u) : bytes[h][i][1] < u[j][1]
      BY <1>3, <3>2
    <3> QED
      BY <1>1, <1>5, <2>1, <2>3, <3>1, <3>3, <3>4 DEF PollOK
  <2> QED
    BY <2>2, <2>3
<1>13. ReportedOK'
  <2>1. ASSUME NEW r \in 1 .. Len(reported) PROVE reported[r][1][1] < v[1]
    <3>1. reported[r][1][1] < w[1]
      BY DEF ReportedOK
    <3>2. PICK l \in 1 .. Len(Length) : reported[r] = Whole(l)
      BY DEF ReportedOK
    <3>3. reported[r][1][1] = l /\ l \in Nat
      BY <3>2, Lengths DEF Whole, Byte
    <3> QED
      BY <1>2, <3>1, <3>3
  <2> QED
    BY <2>1 DEF ReportedOK
<1> QED
  BY <1>7, <1>8, <1>9, <1>10, <1>11, <1>12, <1>13 DEF FollowedOK

LEMMA RewriteStep ==
  ASSUME LogInv, Rewrite
  PROVE  LogInv'
<1> DEFINE w == writing
           v == Byte(w[1] + 1, 1)
<1>1. path # 0 /\ w[2] = 1 /\ w \in Places /\ UNCHANGED <<path, born, tail, poll, reported>>
  BY DEF Rewrite, LogInv, LogTyped
<1>2. CASE bytes' = [bytes EXCEPT ![path] = << >>] /\ UNCHANGED writing
  <2>1. FileOK(<< >>, w) /\ GoesOn(<< >>, w)
    <3>1. << >> \in Seq(Bytes)
      OBVIOUS
    <3> QED
      BY <1>1, <3>1 DEF FileOK, GoesOn
  <2>2. \A i \in 1 .. Len(<< >>) : << >>[i] = Byte(w[1], i)
    OBVIOUS
  <2> QED
    BY <1>1, <1>2, <2>1, <2>2, ReplaceStep
<1>3. CASE CanWrite /\ bytes' = [bytes EXCEPT ![path] = Whole(w[1])] /\ writing' = v
  <2>1. w \in Bytes
    BY <1>1, <1>3, PlaceIs DEF CanWrite
  <2>2. /\ v \in Places /\ Before(w, v) /\ FileOK(Whole(w[1]), v) /\ GoesOn(Whole(w[1]), v)
        /\ \A i \in 1 .. Len(Whole(w[1])) : Whole(w[1])[i] = Byte(w[1], i)
    BY <1>1, <2>1, OneLine
  <2>3. v[2] = 1
    BY DEF Byte
  <2> HIDE DEF v
  <2> QED
    BY <1>1, <1>3, <2>2, <2>3, ReplaceStep
<1> QED
  BY <1>2, <1>3 DEF Rewrite

-----------------------------------------------------------------------------
(* A poll begins.                                                           *)
LEMMA PollOpenStep ==
  ASSUME LogInv, PollOpen
  PROVE  LogInv'
<1> USE DEF LogInv
<1>1. /\ path # 0 /\ path \in Files /\ path \in 0 .. MaxFiles
      /\ poll' = [handle |-> path, length |-> Len(bytes[path]), created |-> born[path]]
      /\ UNCHANGED <<path, bytes, born, writing, tail, reported>>
  BY TailAssumption DEF PollOpen, LogTyped, Files, TailAssumption
<1>2. /\ poll'.handle = path /\ poll'.length = Len(bytes[path]) /\ poll'.created = born[path]
  BY <1>1
<1>3. Len(bytes[path]) \in Nat /\ born[path] \in Nat
  BY <1>1 DEF LogTyped
<1>4. LogTyped'
  BY <1>1, <1>3 DEF LogTyped
<1>5. FilesOK' /\ TailOK' /\ PathOK' /\ ReportedOK'
  BY <1>1 DEF FilesOK, TailOK, PathOK, ReportedOK
<1>6. path \in Followed /\ Followed' = {path}
  BY <1>1, <1>2 DEF Followed
<1>7. InStep(path) /\ Untold(path)
  BY <1>6 DEF FollowedOK
<1>8. FollowedOK'
  BY <1>1, <1>6, <1>7 DEF FollowedOK, InStep, Untold
<1>9. HasMark(tail, bytes[path]) => tail.offset <= Len(bytes[path])
  BY <1>3 DEF HasMark
<1>10. PollOK'
  BY <1>1, <1>2, <1>3, <1>9 DEF PollOK
<1> QED
  BY <1>4, <1>5, <1>8, <1>10

-----------------------------------------------------------------------------
(* A poll reads.                                                            *)

LEMMA SkippedIs ==
  ASSUME NEW t \in Tails, NEW length \in Nat, t.offset <= length
  PROVE  /\ Skipped(t, length) \in Tails /\ Skipped(t, length).created = t.created
         /\ t.offset <= Skipped(t, length).offset /\ Skipped(t, length).offset <= length
         /\ t.discard => Skipped(t, length).discard
         /\ \A s \in Seq(Bytes) :
              Ready(t, s) /\ Skipped(t, length).offset <= Len(s) => Ready(Skipped(t, length), s)
<1> DEFINE o == length - Limit
           x == Skipped(t, length)
<1>1. t.offset \in Nat /\ Limit \in Nat \ {0}
  BY TailAssumption DEF Tails, TailAssumption
<1>2. CASE length - t.offset > Limit
  <2>1. o \in Nat /\ t.offset < o /\ o <= length
    BY <1>1, <1>2
  <2>2. << >> \in Seq(Bytes)
    OBVIOUS
  <2>3. x = [t EXCEPT !.offset = o, !.pending = << >>, !.discard = TRUE]
    BY <1>2 DEF Skipped
  <2> HIDE DEF o, x
  <2>4. x \in Tails /\ x.created = t.created /\ x.offset = o /\ x.pending = << >> /\ x.discard
    BY <2>1, <2>2, <2>3 DEF Tails
  <2>5. ASSUME NEW s \in Seq(Bytes), Ready(t, s), o <= Len(s) PROVE Ready(x, s)
    <3>1. RestReady(x, s)
      BY <2>4 DEF RestReady
    <3>2. ASSUME NEW i \in o + 1 .. Len(s) PROVE OfLaunch(s[i], x.discard)
      <4>1. i \in t.offset + 1 .. Len(s)
        BY <1>1, <2>1
      <4>2. OfLaunch(s[i], t.discard)
        BY <2>5, <4>1 DEF Ready
      <4> QED
        BY <2>4, <4>2 DEF OfLaunch
    <3>3. o \in 0 .. Len(s) /\ o # 0
      BY <1>1, <2>1, <2>5
    <3> QED
      BY <2>4, <3>1, <3>2, <3>3 DEF Ready
  <2> QED
    BY <1>1, <2>1, <2>4, <2>5 DEF x
<1>3. CASE ~(length - t.offset > Limit)
  <2>1. x = t
    BY <1>3 DEF Skipped
  <2> QED
    BY <1>1, <2>1
<1> QED
  BY <1>2, <1>3

(* Where the last read of a poll begins: a file that bears the mark is read on
   from it, any other is read from its beginning, or from as near its end as
   is read at all.  *)
LEMMA SoughtIs ==
  ASSUME LogInv, poll # NoPoll, ~AnchorLost(poll),
         NEW s, s = bytes[poll.handle], NEW start, start = Sought(poll)
  PROVE  /\ start \in Tails /\ start.created = poll.created /\ start.offset <= poll.length
         /\ start.offset <= Len(s) => Ready(start, s)
         /\ HasMark(tail, s) => /\ tail.offset <= start.offset /\ start.offset <= Len(s)
                                /\ poll.length <= Len(s)
                                /\ tail.discard => start.discard
<1> USE DEF LogInv
<1> DEFINE b == [(IF MustReset(poll) THEN Rewound(tail) ELSE tail) EXCEPT !.created = poll.created]
           length == poll.length
<1>1. /\ poll.handle \in Files /\ poll.handle \in Followed /\ tail \in Tails
      /\ poll.created \in Nat /\ length \in Nat /\ s \in Seq(Bytes)
  BY TailAssumption DEF PollOK, LogTyped, Files, Followed, TailAssumption
<1>2. InStep(poll.handle) /\ poll.created = born[poll.handle] /\ tail.offset \in Nat /\ Len(s) \in Nat
  BY <1>1 DEF FollowedOK, PollOK, Tails
<1>3. start = Skipped(b, length)
  BY DEF Sought
<1>4. CASE HasMark(tail, s)
  <2>1. /\ Ready(tail, s) /\ tail.created = poll.created /\ tail.anchor = Anchor(s, tail.offset)
        /\ tail.offset <= length /\ length <= Len(s)
    BY <1>2, <1>4 DEF InStep, PollOK
  <2>2. ~MustReset(poll)
    BY <1>1, <1>2, <2>1 DEF MustReset, Moved
  <2>3. b = [tail EXCEPT !.created = tail.created]
    BY <2>1, <2>2
  <2>4. b = tail
    BY <1>1, <2>3 DEF Tails
  <2> HIDE DEF b, length
  <2>5. /\ start \in Tails /\ start.created = tail.created
        /\ tail.offset <= start.offset /\ start.offset <= length
        /\ tail.discard => start.discard
        /\ Ready(tail, s) /\ start.offset <= Len(s) => Ready(start, s)
    BY <1>1, <1>3, <2>1, <2>4, SkippedIs
  <2>6. start.offset \in Nat
    BY <2>5 DEF Tails
  <2>7. start.offset <= Len(s)
    BY <1>1, <1>2, <2>1, <2>5, <2>6
  <2> QED
    BY <2>1, <2>5, <2>7 DEF length
<1>5. CASE ~HasMark(tail, s)
  <2>1. \A i \in 1 .. Len(s) : s[i][1] > History
    BY <1>2, <1>5 DEF InStep
  <2>2. b \in Tails /\ b.created = poll.created /\ b.offset = 0 /\ b.pending = << >> /\ ~b.discard
    <3>1. CASE MustReset(poll)
      <4>1. b = [Rewound(tail) EXCEPT !.created = poll.created]
        BY <3>1
      <4>2. << >> \in Seq(Bytes)
        OBVIOUS
      <4> DEFINE r == Rewound(tail)
      <4>3. r \in Tails /\ r.offset = 0 /\ r.pending = << >> /\ ~r.discard
        BY <1>1, <4>2 DEF Rewound, Tails
      <4> HIDE DEF r, b
      <4> QED
        BY <1>1, <4>1, <4>3 DEF Tails, r
    <3>2. CASE ~MustReset(poll)
      <4>1. b = [tail EXCEPT !.created = poll.created]
        BY <3>2
      <4>2. tail.anchor = Anchor(s, tail.offset) /\ ~(Len(s) < tail.offset)
        BY <3>2 DEF MustReset, AnchorLost
      <4>3. tail.offset \in 0 .. Len(s)
        BY <1>2, <4>2
      <4>4. tail.offset = 0
        <5> SUFFICES ASSUME tail.offset # 0 PROVE FALSE
          OBVIOUS
        <5>1. tail.offset > 0 /\ tail.offset \in 1 .. Len(s)
          BY <4>3
        <5>2. tail.anchor # << >> /\ Last(tail.anchor) = s[tail.offset]
          BY <1>1, <4>2, <4>3, <5>1, AnchorIs
        <5> QED
          BY <1>5, <5>1, <5>2 DEF HasMark
      <4>5. tail.pending = << >> /\ ~tail.discard
        BY <4>4 DEF TailOK
      <4> HIDE DEF b
      <4> QED
        BY <1>1, <4>1, <4>4, <4>5 DEF Tails
    <3> QED
      BY <3>1, <3>2
  <2> HIDE DEF b
  <2>3. Ready(b, s)
    <3>1. RestReady(b, s)
      BY <2>2 DEF RestReady
    <3>2. \A i \in 0 + 1 .. Len(s) : OfLaunch(s[i], b.discard)
      BY <2>1 DEF OfLaunch
    <3> QED
      BY <1>2, <2>2, <3>1, <3>2 DEF Ready
  <2>4. b.offset <= length
    BY <1>1, <2>2
  <2>5. /\ start \in Tails /\ start.created = b.created
        /\ start.offset <= length
        /\ Ready(b, s) /\ start.offset <= Len(s) => Ready(start, s)
    <3> HIDE DEF length
    <3> QED
      BY <1>1, <1>3, <2>2, <2>4, SkippedIs
  <2> QED
    BY <1>5, <2>2, <2>3, <2>5
<1> QED
  BY <1>4, <1>5

LEMMA LinesJoined ==
  ASSUME NEW a \in Seq(Seq(Bytes)), NEW b \in Seq(Seq(Bytes))
  PROVE  /\ a \o b \in Seq(Seq(Bytes)) /\ Len(a \o b) = Len(a) + Len(b)
         /\ Len(a) \in Nat /\ Len(b) \in Nat
         /\ \A i \in 1 .. Len(a \o b) :
              \/ i \in 1 .. Len(a) /\ (a \o b)[i] = a[i]
              \/ i > Len(a) /\ i - Len(a) \in 1 .. Len(b) /\ (a \o b)[i] = b[i - Len(a)]
<1>1. /\ a \o b \in Seq(Seq(Bytes)) /\ Len(a \o b) = Len(a) + Len(b)
      /\ Len(a) \in Nat /\ Len(b) \in Nat
      /\ \A i \in 1 .. Len(a) + Len(b) : (a \o b)[i] = IF i <= Len(a) THEN a[i] ELSE b[i - Len(a)]
  BY ConcatProperties, LenProperties
<1> QED
  <2> SUFFICES ASSUME NEW i \in 1 .. Len(a) + Len(b)
               PROVE  \/ i \in 1 .. Len(a) /\ (a \o b)[i] = a[i]
                      \/ i > Len(a) /\ i - Len(a) \in 1 .. Len(b) /\ (a \o b)[i] = b[i - Len(a)]
    BY <1>1
  <2>1. CASE i <= Len(a)
    BY <1>1, <2>1
  <2>2. CASE ~(i <= Len(a))
    BY <1>1, <2>2
  <2> QED
    BY <2>1, <2>2

(* The reads get what they look for.                                       *)
LEMMA ReadOnStep ==
  ASSUME LogInv, poll # NoPoll, ~AnchorLost(poll),
         NEW s, s = bytes[poll.handle], NEW start, start = Sought(poll),
         NEW n \in start.offset .. Len(s),
         tail' = Taken(ReadUpTo(start, s, n)),
         reported' = reported \o Returned(ReadUpTo(start, s, n)),
         n <= poll.length, n = Len(s) \/ n = poll.length,
         poll' = NoPoll, UNCHANGED <<path, bytes, born, writing>>
  PROVE  LogInv'
<1> USE DEF LogInv
<1> DEFINE h == poll.handle
           ret == Returned(ReadUpTo(start, s, n))
           new == reported \o ret
<1>1. /\ h \in Files /\ h \in Followed /\ tail \in Tails /\ s \in Seq(Bytes) /\ Len(s) \in Nat
      /\ poll.length \in Nat /\ poll.created = born[h] /\ writing \in Places
      /\ reported \in Seq(Seq(Bytes))
  BY TailAssumption DEF PollOK, LogTyped, Files, Followed, TailAssumption
<1>2. InStep(h) /\ Untold(h) /\ tail.offset \in Nat /\ FileOK(s, writing)
  BY <1>1 DEF FollowedOK, Tails, FilesOK
<1>3. /\ start \in Tails /\ start.created = poll.created
      /\ start.offset <= Len(s) => Ready(start, s)
      /\ HasMark(tail, s) => /\ tail.offset <= start.offset /\ start.offset <= Len(s)
                             /\ poll.length <= Len(s)
                             /\ tail.discard => start.discard
  BY SoughtIs
<1>4. start.offset \in Nat /\ n \in Nat /\ start.offset <= n /\ n <= Len(s) /\ n \in 0 .. Len(s)
  BY <1>1, <1>3 DEF Tails
<1>5. Ready(start, s)
  BY <1>1, <1>3, <1>4
<1>6. /\ Ready(tail', s) /\ tail'.created = born[h] /\ tail'.offset = n
      /\ tail'.anchor = Anchor(s, n)
      /\ start.discard /\ ~tail'.discard => \E j \in start.offset + 1 .. n : IsNewline(s[j])
  <2> DEFINE x == Taken(ReadUpTo(start, s, n))
  <2>1. /\ Ready(x, s) /\ x.created = start.created /\ x.offset = n /\ x.anchor = Anchor(s, n)
        /\ start.discard /\ ~x.discard => \E j \in start.offset + 1 .. n : IsNewline(s[j])
    <3> HIDE DEF LogInv
    <3> QED
      BY ONLY <1>2, <1>5, n \in start.offset .. Len(s), TakenIs
  <2>2. start.created = born[h] /\ tail' = x
    BY <1>1, <1>3
  <2> HIDE DEF x, LogInv
  <2> QED
    BY ONLY <2>1, <2>2
<1>0. EndAmong(ret, s, start.offset + 1, n)
  BY <1>2, <1>5, ReturnedIs
<1> HIDE DEF ret, h
<1>7. /\ ret \in Seq(Seq(Bytes))
      /\ \A i \in 1 .. Len(ret) : \E j \in start.offset + 1 .. n :
           IsNewline(s[j]) /\ s[j][1] > History /\ ret[i] = Whole(s[j][1])
      /\ \A i, j \in 1 .. Len(ret) : i < j => ret[i][1][1] < ret[j][1][1]
  BY <1>0 DEF EndAmong
<1>8. /\ new \in Seq(Seq(Bytes)) /\ Len(new) = Len(reported) + Len(ret)
      /\ \A i \in 1 .. Len(new) :
           \/ i \in 1 .. Len(reported) /\ new[i] = reported[i]
           \/ i > Len(reported) /\ i - Len(reported) \in 1 .. Len(ret) /\ new[i] = ret[i - Len(reported)]
      /\ Len(reported) \in Nat /\ Len(ret) \in Nat
  BY <1>1, <1>7, LinesJoined
<1>9. reported' = new
  BY DEF ret
<1> HIDE DEF new
<1>10. \A j \in start.offset + 1 .. n : j \in 1 .. Len(s) /\ s[j] \in Bytes /\ Before(s[j], writing)
  <2> SUFFICES ASSUME NEW j \in start.offset + 1 .. n
               PROVE  j \in 1 .. Len(s) /\ s[j] \in Bytes /\ Before(s[j], writing)
    OBVIOUS
  <2>1. j \in 1 .. Len(s)
    BY <1>1, <1>4
  <2> QED
    BY <1>1, <1>2, <2>1 DEF FileOK
(* The bytes that are read are of lines that no file has had reported.       *)
<1>11. ASSUME NEW i \in 1 .. Len(ret)
       PROVE  \E j \in start.offset + 1 .. n :
                /\ IsNewline(s[j]) /\ s[j][1] > History /\ ret[i] = Whole(s[j][1])
                /\ ret[i][1][1] = s[j][1] /\ s[j][1] \in 1 .. Len(Length)
                /\ \A r \in 1 .. Len(reported) : reported[r][1][1] < s[j][1]
  <2>1. PICK j \in start.offset + 1 .. n :
          IsNewline(s[j]) /\ s[j][1] > History /\ ret[i] = Whole(s[j][1])
    BY <1>7
  <2>2. s[j][1] \in 1 .. Len(Length) /\ j \in 1 .. Len(s)
    BY <1>10, ByteIs
  <2>3. ret[i][1][1] = s[j][1]
    BY <2>1, <2>2, Lengths DEF Whole, Byte
  <2>4. HasMark(tail, s) => j > tail.offset
    BY <1>2, <1>3, <1>4
  <2>5. \A r \in 1 .. Len(reported) : reported[r][1][1] < s[j][1]
    BY <1>2, <2>2, <2>4 DEF Untold, h
  <2> QED
    BY <2>1, <2>2, <2>3, <2>5
<1>12. (n > 0 => Last(Anchor(s, n)) = s[n] /\ n \in 1 .. Len(s)) /\ ((Anchor(s, n) = << >>) <=> (n = 0))
  <2>1. n > 0 => n \in 1 .. Len(s)
    BY <1>1, <1>4
  <2>2. (n > 0 => Last(Anchor(s, n)) = s[n]) /\ ((Anchor(s, n) = << >>) <=> (n = 0))
    BY <1>1, <1>4, AnchorIs
  <2> QED
    BY <2>1, <2>2
<1>13. HasMark(tail', s) <=> n > 0
  BY <1>4, <1>6, <1>12 DEF HasMark
<1>14. HasMark(tail, s) => tail.offset >= 1 /\ n >= 1 /\ tail.offset <= n
  <2>1. HasMark(tail, s) => tail.offset >= 1
    BY DEF HasMark
  <2> QED
    BY <1>2, <1>3, <1>4, <2>1
<1>15. path # 0 => path \in Files /\ path \in Followed /\ InStep(path) /\ Untold(path)
  BY TailAssumption DEF LogTyped, Files, Followed, FollowedOK, TailAssumption
(* Another file bears neither the mark of the tail before nor that after it. *)
<1>16. ASSUME path # 0, path # h PROVE ~HasMark(tail, bytes[path]) /\ ~HasMark(tail', bytes[path])
  <2>1. ~HasMark(tail, bytes[path])
    BY <1>16 DEF PollOK, h
  <2>2. ASSUME HasMark(tail', bytes[path]) PROVE FALSE
    <3>1. n \in 1 .. Len(bytes[path]) /\ bytes[path][n] = Last(tail'.anchor)
      BY <1>6, <2>2 DEF HasMark
    <3>2. n > 0
      BY <3>1
    <3>3. bytes[path][n] = bytes[h][n] /\ n \in 1 .. Len(bytes[h])
      BY <1>6, <1>12, <3>1, <3>2 DEF h
    <3> QED
      BY <1>1, <1>15, <1>16, <3>1, <3>3 DEF FilesOK
  <2> QED
    BY <2>1, <2>2
<1>17. LogTyped'
  <2>1. tail' \in Tails
    BY <1>6 DEF Ready
  <2>2. NoPoll \in [handle : 0 .. MaxFiles, length : Nat, created : Nat]
    BY TailAssumption DEF NoPoll, TailAssumption
  <2> QED
    BY <1>8, <1>9, <2>1, <2>2 DEF LogTyped
<1>18. FilesOK'
  BY DEF FilesOK
<1>19. PathOK'
  <2> SUFFICES ASSUME path # 0
               PROVE  /\ OfLaunch(writing, tail'.discard)
                      /\ writing[1] > History \/ HasMark(tail', bytes[path])
    BY DEF PathOK
  <2>1. CASE writing[1] > History
    BY <2>1 DEF OfLaunch
  <2>2. CASE ~(writing[1] > History)
    <3>1. HasMark(tail, bytes[path]) /\ OfLaunch(writing, tail.discard)
      BY <2>2 DEF PathOK
    <3>2. path = h
      BY <1>16, <3>1
    <3>3. HasMark(tail, s) /\ HasMark(tail', s)
      BY <1>4, <1>13, <1>14, <3>1, <3>2 DEF h
    <3>4. writing[1] = History /\ writing[2] > 1 /\ tail.discard /\ start.discard
      BY <1>3, <2>2, <3>1, <3>3 DEF OfLaunch
    <3>5. tail'.discard
      <4> SUFFICES ASSUME ~tail'.discard PROVE FALSE
        OBVIOUS
      <4>1. PICK j \in start.offset + 1 .. n : IsNewline(s[j])
        BY <1>6, <3>4
      <4>2. s[j] \in Bytes /\ Before(s[j], writing) /\ j \in 1 .. Len(s)
        BY <1>10
      <4>3. OfLaunch(s[j], start.discard)
        <5>1. j \in start.offset + 1 .. Len(s)
          BY <1>4, <4>2
        <5> QED
          BY <1>5, <5>1 DEF Ready
      <4>4. s[j][1] < writing[1]
        BY <1>1, <4>1, <4>2, NewlineEnds
      <4> QED
        BY <3>4, <4>2, <4>3, <4>4, ByteIs, Lengths DEF OfLaunch
    <3> QED
      BY <3>2, <3>3, <3>4, <3>5 DEF OfLaunch, h
  <2> QED
    BY <2>1, <2>2
<1>20. TailOK'
  <2>1. ASSUME n > 0 PROVE Before(s[n], writing)
    BY <1>2, <1>12, <2>1 DEF FileOK
  <2>2. n = 0 => tail'.pending = << >> /\ ~tail'.discard
    BY <1>6 DEF Ready, RestReady
  <2> QED
    BY <1>4, <1>6, <1>12, <2>1, <2>2 DEF TailOK
<1>21. FollowedOK'
  <2> SUFFICES ASSUME path # 0 PROVE InStep(path)' /\ Untold(path)'
    BY DEF FollowedOK, Followed, NoPoll
  <2>1. ASSUME NEW r \in 1 .. Len(new), NEW i \in 1 .. Len(bytes[path]),
               HasMark(tail', bytes[path]) => i > n
        PROVE  new[r][1][1] < bytes[path][i][1]
    <3>1. CASE r \in 1 .. Len(reported) /\ new[r] = reported[r]
      <4>1. HasMark(tail, bytes[path]) => i > tail.offset
        <5> SUFFICES ASSUME HasMark(tail, bytes[path]) PROVE i > tail.offset
          OBVIOUS
        <5>1. path = h
          BY <1>16
        <5>2. i > n /\ tail.offset <= n
          BY <1>4, <1>13, <1>14, <2>1, <5>1 DEF h
        <5> QED
          BY <1>2, <1>4, <5>2
      <4> QED
        BY <1>15, <3>1, <4>1 DEF Untold
    <3>2. CASE r > Len(reported) /\ r - Len(reported) \in 1 .. Len(ret) /\ new[r] = ret[r - Len(reported)]
      <4>1. PICK j \in start.offset + 1 .. n :
              IsNewline(s[j]) /\ ret[r - Len(reported)][1][1] = s[j][1]
        BY <1>11, <3>2
      <4>2. j \in 1 .. Len(s) /\ s[j] \in Bytes
        BY <1>10
      <4>3. CASE path = h
        <5>1. i > j /\ i \in 1 .. Len(s)
          BY <1>1, <1>4, <1>13, <2>1, <4>2, <4>3 DEF h
        <5>2. Before(s[j], s[i]) /\ s[i] \in Places
          BY <1>2, <4>2, <5>1 DEF FileOK, Places
        <5>3. s[j][1] < s[i][1]
          BY <4>1, <4>2, <5>2, NewlineEnds
        <5> QED
          BY <3>2, <4>1, <4>3, <5>3 DEF h
      <4>4. CASE path # h
        <5>1. bytes[h][j][1] < bytes[path][i][1]
          BY <4>2, <4>4 DEF PollOK, h
        <5> QED
          BY <3>2, <4>1, <5>1 DEF h
      <4> QED
        BY <4>3, <4>4
    <3> QED
      BY <1>8, <3>1, <3>2
  <2>2. Untold(path)'
    BY <1>6, <1>9, <2>1 DEF Untold
  <2>3. InStep(path)'
    <3>1. CASE path = h /\ n > 0
      BY <1>6, <1>13, <3>1 DEF InStep, h
    <3>2. CASE path = h /\ ~(n > 0)
      <4>1. ~HasMark(tail', s) /\ n = 0
        BY <1>4, <1>13, <3>2
      <4>2. ~tail'.discard /\ \A i \in 1 .. Len(s) : OfLaunch(s[i], tail'.discard)
        BY <1>6, <4>1 DEF Ready
      <4>3. \A i \in 1 .. Len(s) : s[i][1] > History
        BY <4>2 DEF OfLaunch
      <4> QED
        BY <3>2, <4>1, <4>3 DEF InStep, h
    <3>3. CASE path # h
      BY <1>15, <1>16, <3>3 DEF InStep
    <3> QED
      BY <3>1, <3>2, <3>3
  <2> QED
    BY <2>2, <2>3
<1>22. PollOK'
  BY DEF PollOK
<1>23. ReportedOK'
  <2>1. ASSUME NEW r \in 1 .. Len(new)
        PROVE  /\ \E l \in 1 .. Len(Length) : l > History /\ new[r] = Whole(l)
               /\ new[r][1][1] < writing[1]
    <3>1. CASE r \in 1 .. Len(reported) /\ new[r] = reported[r]
      BY <3>1 DEF ReportedOK
    <3>2. CASE r > Len(reported) /\ r - Len(reported) \in 1 .. Len(ret) /\ new[r] = ret[r - Len(reported)]
      <4>1. PICK j \in start.offset + 1 .. n :
              /\ IsNewline(s[j]) /\ s[j][1] > History /\ new[r] = Whole(s[j][1])
              /\ new[r][1][1] = s[j][1] /\ s[j][1] \in 1 .. Len(Length)
        BY <1>11, <3>2
      <4>2. s[j][1] < writing[1]
        BY <1>1, <1>10, <4>1, NewlineEnds
      <4> QED
        BY <4>1, <4>2
    <3> QED
      BY <1>8, <3>1, <3>2
  <2>2. ASSUME NEW i \in 1 .. Len(new), NEW j \in 1 .. Len(new), i < j
        PROVE  new[i][1][1] < new[j][1][1]
    <3>1. CASE j \in 1 .. Len(reported) /\ new[j] = reported[j]
      <4>1. i \in 1 .. Len(reported) /\ new[i] = reported[i]
        BY <1>8, <2>2, <3>1
      <4> QED
        BY <2>2, <3>1, <4>1 DEF ReportedOK
    <3>2. CASE j > Len(reported) /\ j - Len(reported) \in 1 .. Len(ret) /\ new[j] = ret[j - Len(reported)]
      <4>1. CASE i \in 1 .. Len(reported) /\ new[i] = reported[i]
        BY <1>11, <3>2, <4>1
      <4>2. CASE i > Len(reported) /\ i - Len(reported) \in 1 .. Len(ret) /\ new[i] = ret[i - Len(reported)]
        <5>1. i - Len(reported) < j - Len(reported)
          BY <1>8, <2>2
        <5> QED
          BY <1>7, <3>2, <4>2, <5>1
      <4> QED
        BY <1>8, <4>1, <4>2
    <3> QED
      BY <1>8, <3>1, <3>2
  <2> QED
    BY <1>9, <2>1, <2>2 DEF ReportedOK
<1> QED
  BY <1>17, <1>18, <1>19, <1>20, <1>21, <1>22, <1>23

(* The file was emptied, and is shorter than the anchor.                    *)
LEMMA LostStep ==
  ASSUME LogInv, poll' = NoPoll, UNCHANGED <<path, bytes, born, writing, tail, reported>>
  PROVE  LogInv'
<1> USE DEF LogInv
<1>1. LogTyped'
  <2>1. NoPoll \in [handle : 0 .. MaxFiles, length : Nat, created : Nat]
    BY TailAssumption DEF NoPoll, TailAssumption
  <2> QED
    BY <2>1 DEF LogTyped
<1>2. FilesOK' /\ PathOK' /\ TailOK' /\ PollOK' /\ ReportedOK'
  BY DEF FilesOK, PathOK, TailOK, PollOK, ReportedOK
<1>3. FollowedOK'
  <2>1. Followed' \subseteq Followed
    BY DEF Followed, NoPoll
  <2>2. ASSUME NEW f \in Followed PROVE InStep(f)' /\ Untold(f)'
    BY DEF FollowedOK, InStep, Untold
  <2> QED
    BY <2>1, <2>2 DEF FollowedOK
<1> QED
  BY <1>1, <1>2, <1>3

(* The file was emptied, and ends before where the last read begins: no file
   bears the mark of the tail after that.  *)
LEMMA EmptiedStep ==
  ASSUME LogInv, poll # NoPoll, ~AnchorLost(poll),
         NEW s, s = bytes[poll.handle], NEW start, start = Sought(poll),
         start.offset > Len(s),
         tail' = [start EXCEPT !.anchor = << <<0, 0>> >>],
         poll' = NoPoll, UNCHANGED <<path, bytes, born, writing, reported>>
  PROVE  LogInv'
<1> USE DEF LogInv
<1>1. s \in Seq(Bytes) /\ Len(s) \in Nat /\ writing \in Places
  BY TailAssumption DEF PollOK, LogTyped, Files, TailAssumption
<1>2. start \in Tails /\ start.offset \in Nat
  BY SoughtIs DEF Tails
<1>3. ~HasMark(tail, s)
  BY <1>1, <1>2, SoughtIs
<1>4. << <<0, 0>> >> \in Seq(Nat \X Nat) /\ << <<0, 0>> >> # << >> /\ Last(<< <<0, 0>> >>) = <<0, 0>>
  BY DEF Last
<1> DEFINE a == << <<0, 0>> >>
<1> HIDE DEF a
<1>5. tail' \in Tails /\ tail'.offset = start.offset /\ tail'.anchor = a
  BY <1>2, <1>4 DEF Tails, a
<1>6. a # << >> /\ Last(a) = <<0, 0>>
  BY <1>4 DEF a
<1>7. start.offset # 0
  BY <1>1, <1>2
<1>8. \A f \in Files : ~HasMark(tail', bytes[f])
  <2> SUFFICES ASSUME NEW f \in Files, HasMark(tail', bytes[f]) PROVE FALSE
    OBVIOUS
  <2>1. bytes[f][start.offset] = <<0, 0>> /\ start.offset \in 1 .. Len(bytes[f])
    BY <1>5, <1>6 DEF HasMark
  <2>2. bytes[f][start.offset] \in Bytes
    <3>1. bytes[f] \in Seq(Bytes)
      BY DEF LogTyped
    <3> QED
      BY <2>1, <3>1
  <2> QED
    BY <2>1, <2>2, ByteIs
<1>9. ASSUME path # 0
      PROVE  /\ path \in Files /\ ~HasMark(tail, bytes[path])
             /\ writing[1] > History /\ InStep(path) /\ Untold(path)
  <2>1. path \in Files /\ path \in Followed
    BY <1>9, TailAssumption DEF LogTyped, Files, Followed, TailAssumption
  <2>2. ~HasMark(tail, bytes[path])
    BY <1>3, <1>9 DEF PollOK
  <2> QED
    BY <1>9, <2>1, <2>2 DEF PathOK, FollowedOK
<1>10. LogTyped'
  <2>1. NoPoll \in [handle : 0 .. MaxFiles, length : Nat, created : Nat]
    BY TailAssumption DEF NoPoll, TailAssumption
  <2> QED
    BY <1>5, <2>1 DEF LogTyped
<1>11. FilesOK' /\ PollOK' /\ ReportedOK'
  BY DEF FilesOK, PollOK, ReportedOK
<1>12. PathOK'
  BY <1>9 DEF PathOK, OfLaunch
<1>13. TailOK'
  <2>1. Before(<<0, 0>>, writing)
    BY <1>1, PlaceIs DEF Before
  <2> QED
    BY <1>5, <1>6, <1>7, <2>1 DEF TailOK
<1>14. FollowedOK'
  <2> SUFFICES ASSUME path # 0 PROVE InStep(path)' /\ Untold(path)'
    BY DEF FollowedOK, Followed, NoPoll
  <2> QED
    BY <1>8, <1>9 DEF InStep, Untold
<1> QED
  BY <1>10, <1>11, <1>12, <1>13, <1>14

LEMMA PollReadStep ==
  ASSUME LogInv, PollRead
  PROVE  LogInv'
<1> DEFINE s == bytes[poll.handle]
           start == Sought(poll)
           offset == IF Len(s) < poll.length THEN Len(s) ELSE poll.length
           read == ReadUpTo(start, s, offset)
<1>1. poll # NoPoll /\ poll' = NoPoll /\ UNCHANGED <<path, bytes, born, writing>>
  BY DEF PollRead
<1>2. poll.length \in Nat /\ Len(s) \in Nat
  BY <1>1, TailAssumption DEF LogInv, PollOK, LogTyped, Files, TailAssumption
<1>3. CASE AnchorLost(poll) /\ UNCHANGED <<tail, reported>>
  BY <1>1, <1>3, LostStep
<1>4. CASE /\ ~AnchorLost(poll) /\ offset >= start.offset
           /\ tail' = Taken(read) /\ reported' = reported \o Returned(read)
  <2>1. start.offset \in Nat
    BY <1>1, <1>4, SoughtIs DEF Tails
  <2>2. /\ offset \in start.offset .. Len(s) /\ offset <= poll.length
        /\ offset = Len(s) \/ offset = poll.length
    <3> HIDE DEF s, start
    <3> QED
      BY <1>2, <1>4, <2>1
  <2> HIDE DEF offset
  <2> QED
    BY <1>1, <1>4, <2>2, ReadOnStep
<1>5. CASE /\ ~AnchorLost(poll) /\ offset < start.offset
           /\ tail' = [start EXCEPT !.anchor = << <<0, 0>> >>]
           /\ UNCHANGED reported
  <2>1. start.offset \in Nat /\ start.offset <= poll.length
    BY <1>1, <1>5, SoughtIs DEF Tails
  <2>2. start.offset > Len(s)
    <3> HIDE DEF s, start
    <3> QED
      BY <1>2, <1>5, <2>1
  <2> QED
    BY <1>1, <1>5, <2>2, EmptiedStep
<1> QED
  BY <1>3, <1>4, <1>5 DEF PollRead

LEMMA LogStep == LogInv /\ [LogNext]_logVars => LogInv'
<1> SUFFICES ASSUME LogInv, [LogNext]_logVars PROVE LogInv'
  OBVIOUS
<1>1. CASE UNCHANGED logVars
  <2>1. UNCHANGED <<path, bytes, born, writing, tail, poll, reported>>
    BY <1>1 DEF logVars
  <2>2. LogTyped' /\ FilesOK' /\ PathOK' /\ TailOK' /\ PollOK' /\ ReportedOK'
    BY <2>1 DEF LogInv, LogTyped, FilesOK, PathOK, TailOK, PollOK, ReportedOK
  <2>3. FollowedOK'
    BY <2>1 DEF LogInv, FollowedOK, Followed, InStep, Untold
  <2> QED
    BY <2>2, <2>3 DEF LogInv
<1>2. CASE Write
  BY <1>2, WriteStep
<1>3. CASE Create
  BY <1>3, CreateStep
<1>4. CASE Roll
  BY <1>4, RollStep
<1>5. CASE Rewrite
  BY <1>5, RewriteStep
<1>6. CASE PollOpen
  BY <1>6, PollOpenStep
<1>7. CASE PollRead
  BY <1>7, PollReadStep
<1>8. CASE Silent
  BY <1>1, <1>8 DEF Silent
<1> QED
  BY <1>1, <1>2, <1>3, <1>4, <1>5, <1>6, <1>7, <1>8 DEF LogNext

-----------------------------------------------------------------------------
(* What is kept of a line is bounded.                                       *)

(* The rest of k bytes is all of them, or what comes after a newline.       *)
Behind(p, q, k) ==
  /\ p \in Halves
  /\ \/ p.lines = << >> /\ Len(p.rest) = k
     \/ \E j \in 1 .. k : IsNewline(q[j]) /\ Len(p.rest) = k - j

LEMMA RestIsBehind ==
  ASSUME NEW q \in Seq(Bytes)
  PROVE  Behind(Split(q), q, Len(q))
<1>1. Len(q) \in Nat
  BY LenProperties
<1>2. PICK f : /\ f[0] = [lines |-> << >>, rest |-> << >>]
               /\ \A i \in 1 .. Len(q) : f[i] = Cut(f[i - 1], q[i])
               /\ f[Len(q)] = Split(q)
  BY SplitAll
<1> DEFINE T == {k \in 0 .. Len(q) : Behind(f[k], q, k)}
<1>3. 0 \in T
  <2>1. f[0] \in Halves /\ f[0].lines = << >> /\ Len(f[0].rest) = 0
    BY <1>2 DEF Halves
  <2> QED
    BY <1>1, <2>1 DEF Behind
<1>4. ASSUME NEW k \in 1 .. Len(q), k - 1 \in T PROVE k \in T
  <2> DEFINE p == f[k - 1]
             c == Cut(p, q[k])
  <2>1. Behind(p, q, k - 1) /\ f[k] = c /\ q[k] \in Bytes
    BY <1>2, <1>4
  <2>2. /\ p \in Halves /\ p.rest \in Seq(Bytes) /\ c \in Halves
        /\ IsNewline(q[k]) => c.rest = << >>
        /\ ~IsNewline(q[k]) => c.lines = p.lines /\ c.rest = Append(p.rest, q[k])
    BY <2>1, CutIs DEF Behind, Halves
  <2> HIDE DEF p, c
  <2>3. CASE IsNewline(q[k])
    <3>1. k \in 1 .. k /\ Len(c.rest) = k - k
      BY <2>2, <2>3
    <3> QED
      BY <1>1, <2>1, <2>2, <2>3, <3>1 DEF Behind
  <2>4. CASE ~IsNewline(q[k])
    <3>1. Len(c.rest) = Len(p.rest) + 1 /\ c.lines = p.lines
      BY <2>1, <2>2, <2>4, Appended
    <3>2. CASE p.lines = << >> /\ Len(p.rest) = k - 1
      BY <1>1, <2>1, <2>2, <3>1, <3>2 DEF Behind
    <3>3. ASSUME NEW j \in 1 .. k - 1, IsNewline(q[j]), Len(p.rest) = k - 1 - j PROVE k \in T
      <4>1. j \in 1 .. k /\ Len(c.rest) = k - j
        BY <3>1, <3>3
      <4>2. Behind(c, q, k)
        BY <2>2, <3>3, <4>1 DEF Behind
      <4>3. k \in 0 .. Len(q)
        BY <1>1
      <4> QED
        BY <2>1, <4>2, <4>3
    <3> QED
      BY <2>1, <3>2, <3>3 DEF Behind
  <2> QED
    BY <2>3, <2>4
<1>5. T = 0 .. Len(q)
  <2>1. T \in SUBSET (0 .. Len(q))
    OBVIOUS
  <2> HIDE DEF T
  <2> QED
    BY <1>1, <1>3, <1>4, <2>1, Climb
<1> QED
  BY <1>1, <1>2, <1>5

Kept(t) == Len(t.pending) <= Limit

(* A last read that is not longer than the limit leaves no more behind: the
   rest begins after a newline that this read brought, or it is given up.  *)
LEMMA TakenIsKept ==
  ASSUME NEW w, NEW s, FileOK(s, w), NEW t, Ready(t, s), NEW n \in t.offset .. Len(s),
         n - t.offset <= Limit
  PROVE  Kept(Taken(ReadUpTo(t, s, n)))
<1> DEFINE r == ReadUpTo(t, s, n)
           q == Gathered(t, s, n)
           p == Split(q)
           m == Len(t.pending)
           x == Taken(r)
<1>1. /\ q \in Seq(Bytes) /\ m \in Nat /\ Len(q) = m + n - t.offset
      /\ \A i \in 1 .. m : q[i] = t.pending[i]
  BY ReadBytes
<1>2. \A i \in 1 .. m : ~IsNewline(q[i])
  BY <1>1 DEF Ready, RestReady
<1>3. r \in Tails /\ r.pending = q
  BY ReadUpToIs
<1>4. Behind(p, q, Len(q)) /\ Len(q) \in Nat
  BY <1>1, RestIsBehind
<1>5. t.offset \in Nat /\ n \in Nat /\ Limit \in Nat \ {0} /\ Len(s) \in Nat
  BY TailAssumption DEF TailAssumption, Ready, Tails, FileOK
<1>6. x = IF p.lines = << >> /\ Len(q) > Limit
          THEN [r EXCEPT !.pending = << >>, !.discard = TRUE]
          ELSE [r EXCEPT !.pending = p.rest, !.discard = @ /\ p.lines = << >>]
  BY <1>3 DEF Taken
<1> HIDE DEF r, q, p, m, x
<1>7. CASE p.lines = << >> /\ Len(q) > Limit
  <2>1. x.pending = << >>
    BY <1>3, <1>6, <1>7 DEF Tails
  <2>2. Kept(x)
    BY <1>5, <2>1 DEF Kept
  <2> QED
    BY <2>2 DEF x, r
<1>8. CASE ~(p.lines = << >> /\ Len(q) > Limit)
  <2>1. x.pending = p.rest
    <3>1. x = [r EXCEPT !.pending = p.rest, !.discard = @ /\ p.lines = << >>]
      BY <1>6, <1>8
    <3> QED
      BY <1>3, <3>1 DEF Tails
  <2>2. ASSUME p.lines = << >>, Len(p.rest) = Len(q) PROVE Len(p.rest) <= Limit
    BY <1>4, <1>5, <1>8, <2>2
  <2>3. ASSUME NEW j \in 1 .. Len(q), IsNewline(q[j]), Len(p.rest) = Len(q) - j
        PROVE  Len(p.rest) <= Limit
    <3>1. j > m
      BY <1>1, <1>2, <1>4, <2>3
    <3>2. Len(q) = m + n - t.offset /\ m \in Nat
      BY <1>1
    <3>3. Len(q) - j < n - t.offset
      <4> DEFINE k == Len(q)
                 o == t.offset
      <4>1. k \in Nat /\ k = m + n - o /\ m \in Nat /\ o \in Nat /\ n \in Nat /\ j \in Nat
        BY <1>4, <1>5, <3>2
      <4> HIDE DEF k, o
      <4>2. k - j < n - o
        BY <3>1, <4>1
      <4> QED
        BY <4>2 DEF k, o
    <3> QED
      BY <1>4, <1>5, <2>3, <3>3
  <2>4. Len(p.rest) <= Limit
    BY <1>4, <1>5, <1>8, <2>2, <2>3 DEF Behind
  <2>5. Kept(x)
    BY <2>1, <2>4 DEF Kept
  <2> QED
    BY <2>5 DEF x, r
<1> QED
  BY <1>7, <1>8

(* No poll reads more than the limit.                                       *)
LEMMA SoughtIsKept ==
  ASSUME LogInv, Kept(tail), poll # NoPoll, NEW start, start = Sought(poll)
  PROVE  poll.length - start.offset <= Limit /\ Kept(start)
<1> DEFINE b == [(IF MustReset(poll) THEN Rewound(tail) ELSE tail) EXCEPT !.created = poll.created]
           r == Rewound(tail)
<1>1. /\ tail \in Tails /\ tail.offset \in Nat /\ poll.length \in Nat /\ Limit \in Nat \ {0}
      /\ Len(<< >>) = 0
  BY TailAssumption DEF LogInv, LogTyped, Tails, TailAssumption
<1>2. b \in Tails /\ b.offset \in Nat /\ Kept(b)
  <2>0. poll.created \in Nat /\ << >> \in Seq(Bytes)
    BY DEF LogInv, LogTyped
  <2>1. CASE MustReset(poll)
    <3>1. b = [r EXCEPT !.created = poll.created]
      BY <2>1
    <3>2. r \in Tails /\ r.offset = 0 /\ r.pending = << >>
      BY <1>1, <2>0 DEF Rewound, Tails
    <3> HIDE DEF r, b
    <3>3. b \in Tails /\ b.offset = 0 /\ b.pending = << >>
      BY <2>0, <3>1, <3>2 DEF Tails
    <3> QED
      BY <1>1, <3>3 DEF Kept
  <2>2. CASE ~MustReset(poll)
    <3>1. b = [tail EXCEPT !.created = poll.created]
      BY <2>2
    <3> HIDE DEF b
    <3>2. b \in Tails /\ b.offset = tail.offset /\ b.pending = tail.pending
      BY <1>1, <2>0, <3>1 DEF Tails
    <3> QED
      BY <1>1, <3>2 DEF Kept
  <2> QED
    BY <2>1, <2>2
<1>3. start = Skipped(b, poll.length)
  BY DEF Sought
<1> HIDE DEF b
<1>4. CASE poll.length - b.offset > Limit
  <2>1. start = [b EXCEPT !.offset = poll.length - Limit, !.pending = << >>, !.discard = TRUE]
    BY <1>3, <1>4 DEF Skipped
  <2>2. start.offset = poll.length - Limit /\ start.pending = << >>
    BY <1>2, <2>1
  <2> QED
    BY <1>1, <2>2 DEF Kept
<1>5. CASE ~(poll.length - b.offset > Limit)
  <2>1. start = b
    BY <1>3, <1>5 DEF Skipped
  <2> QED
    BY <1>1, <1>2, <1>5, <2>1
<1> QED
  BY <1>4, <1>5

LEMMA KeptStep == LogInv /\ Kept(tail) /\ [LogNext]_logVars => Kept(tail)'
<1> SUFFICES ASSUME LogInv, Kept(tail), [LogNext]_logVars PROVE Kept(tail)'
  OBVIOUS
<1>1. CASE UNCHANGED tail
  BY <1>1 DEF Kept
<1>2. CASE PollRead
  <2> DEFINE s == bytes[poll.handle]
             start == Sought(poll)
             offset == IF Len(s) < poll.length THEN Len(s) ELSE poll.length
  <2>1. poll # NoPoll
    BY <1>2 DEF PollRead
  <2>2. poll.length - start.offset <= Limit /\ Kept(start)
    BY <2>1, SoughtIsKept
  <2>3. /\ poll.length \in Nat /\ Len(s) \in Nat /\ FileOK(s, writing) /\ Limit \in Nat
    BY <2>1, TailAssumption
       DEF LogInv, FilesOK, PollOK, LogTyped, Files, TailAssumption
  <2>4. CASE ~AnchorLost(poll) /\ offset >= start.offset /\ tail' = Taken(ReadUpTo(start, s, offset))
    <3>1. start \in Tails /\ start.offset \in Nat
      BY <2>1, <2>4, SoughtIs DEF Tails
    <3>2. /\ offset \in start.offset .. Len(s) /\ offset - start.offset <= Limit
          /\ start.offset <= Len(s)
      <4> HIDE DEF s, start
      <4> QED
        BY <2>2, <2>3, <2>4, <3>1
    <3>3. Ready(start, s)
      BY <2>1, <2>4, <3>2, SoughtIs
    <3> HIDE DEF s, start, offset
    <3>4. Kept(Taken(ReadUpTo(start, s, offset)))
      BY <2>3, <3>2, <3>3, TakenIsKept
    <3> QED
      BY <2>4, <3>4 DEF Kept
  <2>5. CASE ~AnchorLost(poll) /\ tail' = [start EXCEPT !.anchor = << <<0, 0>> >>]
    <3>1. start \in Tails
      BY <2>1, <2>5, SoughtIs
    <3> HIDE DEF start
    <3>2. tail'.pending = start.pending
      BY <2>5, <3>1 DEF Tails
    <3> QED
      BY <2>2, <3>2 DEF Kept
  <2> QED
    BY <1>1, <1>2, <2>4, <2>5 DEF PollRead
<1>3. ASSUME ~PollRead PROVE UNCHANGED tail
  BY <1>3 DEF LogNext, Write, Create, Roll, Rewrite, PollOpen, Silent, logVars
<1> QED
  BY <1>1, <1>2, <1>3

-----------------------------------------------------------------------------
(* The file of the launch before.                                           *)

(* A line is written to its byte c behind a file that ends where it begins.  *)
LEMMA LineJoins ==
  ASSUME NEW l \in 1 .. Len(Length), NEW c \in 1 .. Length[l],
         NEW s, FileOK(s, Byte(l, 1)), GoesOn(s, Byte(l, 1))
  PROVE  /\ FileOK(s \o Begun(Byte(l, c)), After(Byte(l, c)))
         /\ GoesOn(s \o Begun(Byte(l, c)), After(Byte(l, c)))
<1> DEFINE Holds(k) == /\ FileOK(s \o Begun(Byte(l, k)), After(Byte(l, k)))
                       /\ GoesOn(s \o Begun(Byte(l, k)), After(Byte(l, k)))
           m == Length[l]
           T == {k \in 0 .. m : k > 0 => Holds(k)}
<1>1. m \in Nat \ {0} /\ s \in Seq(Bytes)
  BY Lengths DEF FileOK
<1>2. ASSUME NEW k \in 1 .. m
      PROVE  /\ Byte(l, k) \in Bytes /\ Begun(Byte(l, k)) \in Seq(Bytes)
             /\ Byte(l, k)[2] = k /\ Byte(l, k)[1] = l
             /\ k = 1 => Begun(Byte(l, k)) = Append(<< >>, Byte(l, k))
  <2>1. Byte(l, k) \in Bytes /\ Byte(l, k)[2] = k /\ Byte(l, k)[1] = l
    BY <1>1, IsByte
  <2> QED
    BY <2>1, BegunGrows
<1>3. ASSUME NEW t \in Seq(Bytes), NEW b \in Bytes PROVE s \o Append(t, b) = Append(s \o t, b)
  <2>1. Append(t, b) = t \o <<b>> /\ Append(s \o t, b) = (s \o t) \o <<b>>
    BY <1>1, Joined, AppendIsConcat
  <2>2. <<b>> \in Seq(Bytes)
    OBVIOUS
  <2> QED
    BY <1>1, <2>1, <2>2, ConcatAssociative
<1>4. ASSUME NEW k \in 1 .. m, k - 1 \in T PROVE k \in T
  <2>1. CASE k = 1
    <3>1. << >> \in Seq(Bytes) /\ s \o << >> = s
      BY <1>1, ConcatEmptySeq
    <3>2. s \o Begun(Byte(l, 1)) = Append(s, Byte(l, 1))
      BY <1>2, <1>3, <2>1, <3>1
    <3>3. Byte(l, 1) \in Bytes
      BY <1>2, <2>1
    <3>4. Holds(1)
      BY <3>2, <3>3, FileGrows
    <3> QED
      BY <2>1, <3>4
  <2>2. CASE k # 1
    <3> DEFINE b == Byte(l, k - 1)
    <3>1. k - 1 \in 1 .. m /\ k - 1 > 0
      BY <1>1, <2>2
    <3>2. Holds(k - 1)
      BY <1>4, <3>1
    <3>3. b \in Bytes /\ Begun(b) \in Seq(Bytes) /\ b[2] = k - 1 /\ b[1] = l
      BY <1>2, <3>1
    <3>4. ~IsNewline(b)
      BY <1>1, <3>1, <3>3 DEF IsNewline
    <3>5. After(b) = Byte(l, k)
      <4>1. After(b) = Byte(b[1], b[2] + 1)
        BY <3>4 DEF After
      <4>2. b[2] + 1 = k
        BY <3>3
      <4> QED
        BY <3>3, <4>1, <4>2
    <3> HIDE DEF b
    <3>6. Begun(Byte(l, k)) = Append(Begun(b), Byte(l, k))
      BY <3>3, <3>4, <3>5, BegunGrows
    <3>7. Byte(l, k) \in Bytes
      BY <1>2
    <3>8. s \o Begun(Byte(l, k)) = Append(s \o Begun(b), Byte(l, k))
      BY <1>3, <3>3, <3>6, <3>7
    <3>9. FileOK(s \o Begun(b), Byte(l, k)) /\ GoesOn(s \o Begun(b), Byte(l, k))
      BY <3>2, <3>5 DEF b
    <3>10. Holds(k)
      BY <3>7, <3>8, <3>9, FileGrows
    <3> QED
      BY <3>10
  <2> QED
    BY <2>1, <2>2
<1>5. T \in SUBSET (0 .. m) /\ 0 \in T
  BY <1>1
<1> HIDE DEF T, Holds
<1>6. T = 0 .. m
  BY <1>1, <1>4, <1>5, Climb
<1>7. c \in T /\ c > 0
  BY <1>1, <1>6
<1> QED
  BY <1>7 DEF T, Holds

(* What FlattenSeq makes of sequences.                                      *)
LEMMA Flattened ==
  ASSUME NEW n \in Nat \ {0}, NEW w \in [1 .. n -> Seq(Bytes)]
  PROVE  \E f : /\ f[1] = w[1]
                /\ \A i \in 1 .. n : i > 1 => f[i] = f[i - 1] \o w[i]
                /\ FlattenSeq(w) = f[n]
<1> DEFINE Flattens(g) == g = [i \in 1 .. n |-> IF i = 1 THEN w[i] ELSE g[i - 1] \o w[i]]
           flat == CHOOSE g : Flattens(g)
<1>1. w \in Seq(Seq(Bytes)) /\ Len(w) = n
  <2>1. w \in Seq(Seq(Bytes)) /\ DOMAIN w = 1 .. n
    BY SeqDef
  <2> QED
    BY <2>1, LenProperties
<1>2. FlattenSeq(w) = flat[n]
  BY <1>1 DEF FlattenSeq
<1>3. \E g : Flattens(g)
  <2> DEFINE H == Seq(Bytes)
             step == [i \in 1 .. n |-> [x \in H |-> x \o w[i]]]
  <2>1. << >> \in H
    OBVIOUS
  <2>2. step \in [1 .. n -> [H -> H]]
    <3> SUFFICES ASSUME NEW i \in 1 .. n, NEW x \in H PROVE x \o w[i] \in H
      OBVIOUS
    <3> QED
      BY Joined
  <2>3. PICK f \in [0 .. n -> H] : IsRun(f, << >>, n, step)
    <3> HIDE DEF H, step
    <3> QED
      BY <2>1, <2>2, Stepwise
  <2>4. ASSUME NEW i \in 1 .. n PROVE f[i] = f[i - 1] \o w[i]
    <3>1. i - 1 \in 0 .. n
      OBVIOUS
    <3>2. f[i - 1] \in H
      BY <3>1
    <3> QED
      BY <2>3, <3>2 DEF IsRun
  <2> DEFINE g == [i \in 1 .. n |-> f[i]]
  <2>5. ASSUME NEW i \in 1 .. n PROVE f[i] = IF i = 1 THEN w[i] ELSE g[i - 1] \o w[i]
    <3>1. CASE i = 1
      <4>0. i - 1 = 0
        BY <3>1
      <4>1. f[i] = << >> \o w[i]
        BY <2>3, <2>4, <4>0 DEF IsRun
      <4>2. << >> \o w[i] = w[i]
        BY ConcatEmptySeq
      <4> QED
        BY <3>1, <4>1, <4>2
    <3>2. CASE i # 1
      <4>1. i - 1 \in 1 .. n
        BY <3>2
      <4> QED
        BY <2>4, <3>2, <4>1
    <3> QED
      BY <3>1, <3>2
  <2>6. g = [i \in 1 .. n |-> IF i = 1 THEN w[i] ELSE g[i - 1] \o w[i]]
    BY <2>5
  <2> QED
    BY <2>6
<1>4. Flattens(flat)
  BY <1>3
<1> HIDE DEF flat
<1>5. \A i \in 1 .. n : flat[i] = IF i = 1 THEN w[i] ELSE flat[i - 1] \o w[i]
  BY <1>4
<1>6. flat[1] = w[1]
  <2>1. 1 \in 1 .. n
    OBVIOUS
  <2> QED
    BY <1>5, <2>1
<1>7. ASSUME NEW i \in 1 .. n, i > 1 PROVE flat[i] = flat[i - 1] \o w[i]
  <2>1. i # 1
    BY <1>7
  <2> QED
    BY <1>5, <2>1
<1> QED
  BY <1>2, <1>6, <1>7

(* The lines before the last one of the launch before.                     *)
LEMMA HistoryIs ==
  ASSUME History > 0
  PROVE  /\ FileOK(FlattenSeq([l \in 1 .. History - 1 |-> Whole(l)]), Byte(History, 1))
         /\ GoesOn(FlattenSeq([l \in 1 .. History - 1 |-> Whole(l)]), Byte(History, 1))
<1> DEFINE n == History - 1
           w == [l \in 1 .. n |-> Whole(l)]
<1>1. n \in Nat /\ n + 1 = History /\ \A l \in 1 .. n : l \in 1 .. Len(Length) /\ l + 1 \in 1 .. Len(Length)
  BY Lengths
<1>2. FileOK(<< >>, Byte(1, 1)) /\ GoesOn(<< >>, Byte(1, 1))
  <2>1. << >> \in Seq(Bytes)
    OBVIOUS
  <2> QED
    BY <2>1 DEF FileOK, GoesOn, Byte
<1>3. ASSUME NEW l \in 1 .. n, NEW s, FileOK(s, Byte(l, 1)), GoesOn(s, Byte(l, 1))
      PROVE  /\ FileOK(s \o Whole(l), Byte(l + 1, 1)) /\ GoesOn(s \o Whole(l), Byte(l + 1, 1))
             /\ Whole(l) \in Seq(Bytes)
  <2> DEFINE e == Byte(l, Length[l])
  <2>1. l \in 1 .. Len(Length) /\ Length[l] \in Nat \ {0} /\ Length[l] \in 1 .. Length[l]
    BY <1>1, Lengths
  <2>2. e \in Bytes /\ e[1] = l /\ IsNewline(e)
    BY <2>1, IsByte DEF IsNewline
  <2>3. Begun(e) = Whole(l) /\ After(e) = Byte(l + 1, 1) /\ Begun(e) \in Seq(Bytes)
    BY <2>2, BegunGrows DEF After
  <2>4. FileOK(s \o Begun(e), After(e)) /\ GoesOn(s \o Begun(e), After(e))
    BY <1>3, <2>1, LineJoins
  <2> QED
    BY <2>3, <2>4
<1>4. \A l \in 1 .. n : Whole(l) \in Seq(Bytes)
  <2> SUFFICES ASSUME NEW l \in 1 .. n PROVE Whole(l) \in Seq(Bytes)
    OBVIOUS
  <2> DEFINE e == Byte(l, Length[l])
  <2>1. l \in 1 .. Len(Length) /\ Length[l] \in Nat \ {0}
    BY <1>1, Lengths
  <2>2. e \in Bytes /\ e[1] = l /\ IsNewline(e)
    BY <2>1, IsByte DEF IsNewline
  <2> QED
    BY <2>2, BegunGrows
<1>5. CASE n = 0
  <2>1. w = << >>
    BY <1>5
  <2>2. FlattenSeq(<< >>) = << >>
    BY DEF FlattenSeq
  <2>3. History = 1
    BY <1>1, <1>5
  <2> QED
    BY <1>2, <2>1, <2>2, <2>3
<1>6. CASE n # 0
  <2> HIDE DEF n
  <2>1. w \in [1 .. n -> Seq(Bytes)] /\ \A i \in 1 .. n : w[i] = Whole(i)
    BY <1>4
  <2> HIDE DEF w
  <2>2. PICK f : /\ f[1] = w[1]
                 /\ \A i \in 1 .. n : i > 1 => f[i] = f[i - 1] \o w[i]
                 /\ FlattenSeq(w) = f[n]
    BY <1>1, <1>6, <2>1, Flattened
  <2> DEFINE Holds(k) == FileOK(f[k], Byte(k + 1, 1)) /\ GoesOn(f[k], Byte(k + 1, 1))
             T == {k \in 0 .. n : k > 0 => Holds(k)}
  <2>3. ASSUME NEW k \in 1 .. n, k - 1 \in T PROVE k \in T
    <3>1. CASE k = 1
      <4>1. FileOK(<< >> \o Whole(1), Byte(1 + 1, 1)) /\ GoesOn(<< >> \o Whole(1), Byte(1 + 1, 1))
        BY <1>2, <1>3, <3>1
      <4>2. << >> \o Whole(1) = Whole(1)
        BY <1>4, <3>1, ConcatEmptySeq
      <4>3. f[1] = Whole(1)
        BY <2>1, <2>2, <3>1
      <4>4. Holds(1)
        BY <4>1, <4>2, <4>3
      <4> QED
        BY <3>1, <4>4
    <3>2. CASE k # 1
      <4>1. k > 1 /\ k - 1 > 0 /\ (k - 1) + 1 = k
        BY <3>2
      <4>2. FileOK(f[k - 1], Byte(k, 1)) /\ GoesOn(f[k - 1], Byte(k, 1))
        BY <2>3, <4>1
      <4>3. f[k] = f[k - 1] \o Whole(k)
        BY <2>1, <2>2, <4>1
      <4>4. Holds(k)
        BY <1>3, <4>2, <4>3
      <4> QED
        BY <4>4
    <3> QED
      BY <3>1, <3>2
  <2>4. T \in SUBSET (0 .. n) /\ 0 \in T
    BY <1>1
  <2> HIDE DEF T, Holds
  <2>5. T = 0 .. n
    BY <1>1, <2>3, <2>4, Climb
  <2>6. n \in T /\ n > 0
    BY <1>1, <1>6, <2>5
  <2>7. Holds(n)
    BY <2>6 DEF T
  <2>8. Byte(n + 1, 1) = Byte(History, 1)
    BY <1>1
  <2> QED
    BY <2>2, <2>7, <2>8 DEF Holds, w, n
<1> QED
  BY <1>5, <1>6

(* The file at launch: its last byte is the one at which the last line is cut. *)
LEMMA LaunchFile ==
  ASSUME History > 0, NEW cut \in 1 .. Length[History], NEW s,
         s = FlattenSeq([l \in 1 .. History - 1 |-> Whole(l)]) \o SubSeq(Whole(History), 1, cut)
  PROVE  /\ FileOK(s, After(Byte(History, cut)))
         /\ Len(s) \in Nat \ {0} /\ s[Len(s)] = Byte(History, cut)
<1> DEFINE a == FlattenSeq([l \in 1 .. History - 1 |-> Whole(l)])
           b == Byte(History, cut)
           m == Length[History]
<1>1. History \in 1 .. Len(Length) /\ m \in Nat \ {0} /\ cut \in Nat \ {0} /\ cut <= m
  BY Lengths
<1>2. b \in Bytes /\ b[1] = History /\ b[2] = cut
  BY <1>1, IsByte
<1>3. Begun(b) \in Seq(Bytes) /\ Len(Begun(b)) = cut /\ Begun(b)[cut] = b
  <2>1. Begun(b) \in Seq(Bytes) /\ Len(Begun(b)) = cut
    BY <1>2, BegunGrows
  <2>2. Begun(b)[cut] = Byte(b[1], cut)
    BY <1>1, <1>2 DEF Begun
  <2> QED
    BY <1>2, <2>1, <2>2
<1>4. SubSeq(Whole(History), 1, cut) = Begun(b)
  <2> DEFINE e == Byte(History, m)
             u == SubSeq(Whole(History), 1, cut)
  <2>1. e \in Bytes /\ e[1] = History /\ e[2] = m /\ IsNewline(e)
    BY <1>1, IsByte DEF IsNewline
  <2>2. Whole(History) \in Seq(Bytes) /\ Len(Whole(History)) = m
    BY <2>1, BegunGrows
  <2>3. \A i \in 1 .. cut : Whole(History)[i] \in Bytes /\ Whole(History)[i] = Byte(History, i)
    <3>1. \A i \in 1 .. cut : i \in 1 .. m
      BY <1>1
    <3>2. \A i \in 1 .. m : Whole(History)[i] = Byte(History, i)
      BY DEF Whole
    <3>3. \A i \in 1 .. m : Byte(History, i) \in Bytes
      BY <1>1, IsByte
    <3> QED
      BY <3>1, <3>2, <3>3
  <2> DEFINE x == Whole(History)
  <2> HIDE DEF x
  <2>4. /\ SubSeq(x, 1, cut) \in Seq(Bytes)
        /\ Len(SubSeq(x, 1, cut)) = IF 1 <= cut THEN cut - 1 + 1 ELSE 0
        /\ \A i \in 1 .. cut - 1 + 1 : SubSeq(x, 1, cut)[i] = x[1 + i - 1]
    BY <1>1, <2>3, SubSeqProperties DEF x
  <2>5. u \in Seq(Bytes) /\ Len(u) = cut /\ \A i \in 1 .. cut : u[i] = x[i]
    <3>1. u = SubSeq(x, 1, cut)
      BY DEF x
    <3> HIDE DEF u
    <3>2. Len(u) = cut
      BY <1>1, <2>4, <3>1
    <3>3. ASSUME NEW i \in 1 .. cut PROVE u[i] = x[i]
      <4>1. i \in 1 .. cut - 1 + 1 /\ 1 + i - 1 = i
        BY <1>1
      <4> QED
        BY <2>4, <3>1, <4>1
    <3> QED
      BY <2>4, <3>1, <3>2, <3>3
  <2> HIDE DEF u
  <2>6. \A i \in 1 .. cut : u[i] = Begun(b)[i]
    BY <1>2, <2>3, <2>5 DEF Begun, x
  <2>7. u = Begun(b)
    BY <1>3, <2>5, <2>6, SeqEqual
  <2> QED
    BY <2>7 DEF u
<1>5. FileOK(a, Byte(History, 1)) /\ GoesOn(a, Byte(History, 1))
  BY HistoryIs
<1>6. FileOK(a \o Begun(b), After(b))
  BY <1>1, <1>5, LineJoins
<1> HIDE DEF a, b
<1>7. a \in Seq(Bytes) /\ Len(a) \in Nat
  BY <1>5 DEF FileOK
<1>8. s = a \o Begun(b)
  BY <1>4 DEF a
<1>9. Len(s) = Len(a) + cut /\ s[Len(a) + cut] = b
  <2> DEFINE t == Begun(b)
  <2>3. t \in Seq(Bytes) /\ Len(t) = cut /\ t[cut] = b /\ s = a \o t
    BY <1>3, <1>8
  <2> HIDE DEF t
  <2>4. /\ Len(a \o t) = Len(a) + Len(t)
        /\ \A i \in 1 .. Len(a) + Len(t) : (a \o t)[i] = IF i <= Len(a) THEN a[i] ELSE t[i - Len(a)]
    BY <1>7, <2>3, Joined
  <2>1. /\ Len(s) = Len(a) + cut
        /\ \A i \in 1 .. Len(a) + cut : s[i] = IF i <= Len(a) THEN a[i] ELSE t[i - Len(a)]
    BY <2>3, <2>4
  <2>2. Len(a) + cut \in 1 .. Len(a) + cut /\ ~(Len(a) + cut <= Len(a)) /\ (Len(a) + cut) - Len(a) = cut
    BY <1>1, <1>7
  <2> QED
    BY <2>1, <2>2, <2>3
<1>10. Len(s) \in Nat \ {0} /\ s[Len(s)] = b
  <2>1. Len(a) + cut \in Nat \ {0}
    BY <1>1, <1>7
  <2>2. Len(s) \in Nat \ {0}
    BY <1>9, <2>1
  <2> QED
    BY <1>9, <2>2
<1> QED
  BY <1>6, <1>8, <1>10 DEF b

LEMMA LogBegins == LogInit => LogInv
<1> SUFFICES ASSUME LogInit PROVE LogInv
  OBVIOUS
<1> DEFINE content(c) == FlattenSeq([l \in 1 .. History - 1 |-> Whole(l)]) \o SubSeq(Whole(History), 1, c)
<1>1. PICK cut \in IF History = 0 THEN {0} ELSE 1 .. Length[History] :
        /\ bytes = [f \in Files |-> IF f = path THEN content(cut) ELSE << >>]
        /\ \/ writing = Byte(History + 1, 1)
           \/ path = 1 /\ cut < Length[History] /\ writing = Byte(History, cut + 1)
  BY DEF LogInit
<1>2. /\ path \in IF History = 0 THEN {0} ELSE {0, 1}
      /\ born = [f \in Files |-> 1]
      /\ tail = IF path = 0 THEN NoTail ELSE BeforeLaunch(bytes[path])
      /\ poll = NoPoll /\ reported = << >>
  BY DEF LogInit
<1> HIDE DEF content
<1> DEFINE next == Byte(History + 1, 1)
<1>3. next \in Places /\ next[1] = History + 1 /\ next[2] = 1
  <2>1. CASE History + 1 \in 1 .. Len(Length)
    <3>1. next \in Bytes /\ next[1] = History + 1 /\ next[2] = 1
      BY <2>1, Lengths, IsByte
    <3> QED
      BY <3>1 DEF Places
  <2>2. CASE History + 1 \notin 1 .. Len(Length)
    <3>1. History + 1 = Len(Length) + 1
      BY <2>2, Lengths
    <3> QED
      BY <3>1 DEF Places, Byte
  <2> QED
    BY <2>1, <2>2
<1>4. 1 \in Files /\ MaxFiles \in Nat /\ 0 \notin Files /\ Files \subseteq Nat
  BY TailAssumption DEF Files, TailAssumption
<1>5. << >> \in Seq(Bytes) /\ << >> \in Seq(Seq(Bytes)) /\ << >> \in Seq(Nat \X Nat)
  OBVIOUS
<1>6. NoPoll \in [handle : 0 .. MaxFiles, length : Nat, created : Nat] /\ NoPoll.handle = 0
  BY <1>4 DEF NoPoll
<1>7. born \in [Files -> Nat] /\ \A f \in Files : born[f] = 1
  BY <1>2
<1>8. ReportedOK /\ PollOK
  BY <1>2 DEF ReportedOK, PollOK
<1>9. ASSUME NEW v PROVE FileOK(<< >>, v)
  BY <1>5 DEF FileOK
<1>10. Followed = {path} \ {0}
  BY <1>2, <1>6 DEF Followed
<1>11. CASE path = 0
  <2>1. writing = next
    BY <1>1, <1>11
  <2>2. bytes = [f \in Files |-> << >>]
    BY <1>1, <1>4, <1>11
  <2>3. tail = NoTail
    BY <1>2, <1>11
  <2>4. /\ NoTail \in Tails /\ NoTail.anchor = << >> /\ NoTail.offset = 0
        /\ NoTail.pending = << >> /\ ~NoTail.discard
    BY <1>5 DEF NoTail, Tails
  <2>5. LogTyped
    BY <1>2, <1>3, <1>4, <1>5, <1>6, <1>7, <1>11, <2>1, <2>2, <2>3, <2>4 DEF LogTyped
  <2>6. FilesOK
    BY <1>9, <2>2 DEF FilesOK
  <2>7. PathOK
    BY <1>3, <1>11, <2>1, Lengths DEF PathOK
  <2>8. TailOK
    BY <2>3, <2>4 DEF TailOK
  <2>9. FollowedOK
    BY <1>10, <1>11 DEF FollowedOK
  <2> QED
    BY <1>8, <2>5, <2>6, <2>7, <2>8, <2>9 DEF LogInv
<1>12. CASE path # 0
  <2> DEFINE s == content(cut)
             b == Byte(History, cut)
             n == Len(s)
  <2>1. path = 1 /\ History > 0 /\ cut \in 1 .. Length[History]
    BY <1>1, <1>2, <1>12, Lengths
  <2>2. /\ FileOK(s, After(b)) /\ n \in Nat \ {0} /\ s[n] = b
    BY <2>1, LaunchFile DEF content
  <2>3. /\ b \in Bytes /\ b[1] = History /\ b[2] = cut /\ cut \in Nat /\ Length[History] \in Nat
    <3>1. History \in 1 .. Len(Length) /\ cut \in Nat \ {0} /\ cut <= Length[History]
      BY <2>1, Lengths
    <3> QED
      BY <3>1, IsByte, Lengths
  <2>4. IsNewline(b) <=> cut = Length[History]
    BY <2>3 DEF IsNewline
  <2>5. bytes = [f \in Files |-> IF f = 1 THEN s ELSE << >>]
    BY <1>1, <2>1
  <2> HIDE DEF s, b, n, next
  <2>6. s \in Seq(Bytes)
    BY <2>2 DEF FileOK
  <2>7. bytes \in [Files -> Seq(Bytes)] /\ bytes[1] = s /\ \A f \in Files : f # 1 => bytes[f] = << >>
    BY <1>4, <1>5, <2>5, <2>6
  <2>8. /\ writing \in Places /\ Follows(b, writing) /\ FileOK(s, writing) /\ Before(b, writing)
        /\ writing[1] > History \/ (writing[1] = History /\ writing[2] > 1 /\ ~IsNewline(b))
    <3>1. After(b) \in Places /\ Before(b, After(b))
      BY <2>3, AfterIs
    <3>2. CASE writing = After(b)
      <4>1. writing[1] > History \/ (writing[1] = History /\ writing[2] > 1 /\ ~IsNewline(b))
        BY <2>3, <3>2, AfterIs, ByteIs, Lengths
      <4> QED
        BY <2>2, <3>1, <3>2, <4>1 DEF Follows
    <3>3. CASE writing = next /\ ~IsNewline(b)
      <4>1. Follows(b, next)
        BY <2>3, <3>3 DEF Follows, next
      <4>2. Before(b, next) /\ Before(After(b), next)
        BY <1>3, <2>3, <3>3, AfterIs, Lengths DEF Before
      <4>3. FileOK(s, next)
        BY <1>3, <2>2, <3>1, <4>2, FileLater
      <4>4. next[1] > History
        BY <1>3, Lengths
      <4> QED
        BY <1>3, <3>3, <4>1, <4>2, <4>3, <4>4
    <3> QED
      <4>1. CASE writing = next /\ IsNewline(b)
        <5>1. After(b) = next
          BY <2>3, <4>1 DEF After, next
        <5> QED
          BY <3>2, <4>1, <5>1
      <4>2. CASE cut < Length[History] /\ writing = Byte(History, cut + 1)
        <5>1. ~IsNewline(b)
          BY <2>3, <2>4, <4>2
        <5>2. After(b) = Byte(History, cut + 1)
          BY <2>3, <5>1 DEF After
        <5> QED
          BY <3>2, <4>2, <5>2
      <4> QED
        BY <1>1, <3>3, <4>1, <4>2 DEF next
  <2>9. s # << >> /\ Last(s) = b
    BY <2>2, <2>6 DEF Last, n
  <2>10. tail = [created |-> 1, offset |-> n, anchor |-> Anchor(s, n), pending |-> << >>,
                 discard |-> s # << >> /\ ~IsNewline(Last(s))]
    BY <1>2, <1>4, <1>7, <1>12, <2>1, <2>7 DEF BeforeLaunch, n
  <2>11. /\ Anchor(s, n) \in Seq(Nat \X Nat) /\ Anchor(s, n) # << >> /\ Last(Anchor(s, n)) = b
    <3>1. n \in 0 .. Len(s) /\ n > 0
      BY <2>2 DEF n
    <3> QED
      BY <2>2, <2>6, <3>1, AnchorIs
  <2>12. /\ tail \in Tails /\ tail.created = 1 /\ tail.offset = n /\ tail.anchor = Anchor(s, n)
         /\ tail.pending = << >> /\ (tail.discard <=> ~IsNewline(b))
    <3>1. (s # << >> /\ ~IsNewline(Last(s))) \in BOOLEAN
      OBVIOUS
    <3>2. tail \in Tails
      BY <1>5, <2>2, <2>10, <2>11, <3>1 DEF Tails
    <3> QED
      BY <2>9, <2>10, <3>2
  <2>13. HasMark(tail, s)
    BY <2>2, <2>11, <2>12 DEF HasMark, n
  <2>14. Ready(tail, s)
    <3>1. RestReady(tail, s)
      BY <2>2, <2>12 DEF RestReady
    <3>2. n \in 0 .. Len(s) /\ n # 0 /\ \A i \in n + 1 .. Len(s) : FALSE
      BY <2>2 DEF n
    <3> QED
      BY <2>12, <3>1, <3>2 DEF Ready
  <2>15. LogTyped
    <3>1. path \in 0 .. MaxFiles
      BY <1>4, <2>1 DEF Files
    <3> QED
      BY <1>2, <1>5, <1>6, <1>7, <2>7, <2>8, <2>12, <3>1 DEF LogTyped
  <2>16. FilesOK
    <3>1. ASSUME NEW f \in Files PROVE FileOK(bytes[f], writing)
      BY <1>9, <2>7, <2>8
    <3>2. ASSUME NEW f \in Files, NEW g \in Files, f # g,
                 NEW i \in 1 .. Len(bytes[f]), NEW j \in 1 .. Len(bytes[g])
          PROVE  bytes[f][i] # bytes[g][j]
      <4>1. bytes[f] = << >> \/ bytes[g] = << >>
        BY <2>7, <3>2
      <4> QED
        BY <4>1
    <3> QED
      BY <3>1, <3>2 DEF FilesOK
  <2>17. PathOK
    <3>1. GoesOn(s, writing)
      BY <2>2, <2>8 DEF GoesOn, n
    <3>2. OfLaunch(writing, tail.discard)
      BY <2>8, <2>12 DEF OfLaunch
    <3> QED
      BY <2>1, <2>7, <2>13, <3>1, <3>2 DEF PathOK
  <2>18. TailOK
    BY <2>2, <2>8, <2>11, <2>12 DEF TailOK
  <2>19. FollowedOK
    <3>1. InStep(1)
      BY <1>4, <1>7, <2>7, <2>12, <2>13, <2>14 DEF InStep
    <3>2. Untold(1)
      BY <1>2 DEF Untold
    <3> QED
      BY <1>10, <2>1, <3>1, <3>2 DEF FollowedOK
  <2> QED
    BY <1>8, <2>15, <2>16, <2>17, <2>18, <2>19 DEF LogInv
<1> QED
  BY <1>11, <1>12

(* logtail.rs, poll: every line that the tail returns is a whole line of this
   launch, and the lines come in their order, none twice, whatever the core, its
   logger and the user do to the file between any two calls of a poll.  *)
THEOREM NewLinesOnly == LogSpec => []OnlyNewLines
<1>1. LogInv => OnlyNewLines
  <2> SUFFICES ASSUME LogInv PROVE OnlyNewLines
    OBVIOUS
  <2>1. reported \in Seq(Seq(Bytes)) /\ DOMAIN reported = 1 .. Len(reported)
    BY LenProperties DEF LogInv, LogTyped
  <2>2. \A i \in DOMAIN reported : \E l \in History + 1 .. Len(Length) : reported[i] = Whole(l)
    <3> SUFFICES ASSUME NEW i \in 1 .. Len(reported)
                 PROVE  \E l \in History + 1 .. Len(Length) : reported[i] = Whole(l)
      BY <2>1
    <3>1. PICK l \in 1 .. Len(Length) : l > History /\ reported[i] = Whole(l)
      BY DEF LogInv, ReportedOK
    <3>2. l \in History + 1 .. Len(Length)
      BY <3>1, Lengths
    <3> QED
      BY <3>1, <3>2
  <2>3. \A i, j \in DOMAIN reported : i < j => reported[i][1][1] < reported[j][1][1]
    BY <2>1 DEF LogInv, ReportedOK
  <2> QED
    BY <2>2, <2>3 DEF OnlyNewLines
<1> QED
  BY <1>1, LogBegins, LogStep, PTL DEF LogSpec

(* logtail.rs, poll: what is kept of a line that has not ended is no more than
   what is read at once, in whatever pieces it comes.  *)
THEOREM PendingStaysBounded == LogSpec => []LogTypeOK
<1>1. LogInit => LogInv /\ Kept(tail)
  <2>1. LogInit => tail.pending = << >>
    BY DEF LogInit, NoTail, BeforeLaunch
  <2>2. LogInit => Kept(tail)
    BY <2>1, TailAssumption DEF Kept, TailAssumption
  <2> QED
    BY <2>2, LogBegins
<1>2. LogInv /\ Kept(tail) /\ [LogNext]_logVars => LogInv' /\ Kept(tail)'
  BY LogStep, KeptStep
<1>3. LogInv /\ Kept(tail) => LogTypeOK
  BY DEF LogInv, LogTyped, Tails, Kept, LogTypeOK
<1> QED
  BY <1>1, <1>2, <1>3, PTL DEF LogSpec
=============================================================================
