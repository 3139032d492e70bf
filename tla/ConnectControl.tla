--------------------------- MODULE ConnectControl ----------------------------
(***************************************************************************)
(* The connection control of the GUI: the button, the timer of a second,   *)
(* the launch of the core with its backoff, and the monitor that restarts  *)
(* a core which shows no UDP heartbeat.  All of it runs in the GUI thread, *)
(* one handler at a time; the core, its log, the adapter and cores the GUI *)
(* does not own change at any moment.  CoreProcess has the launch and the  *)
(* end of a core step by step.                                             *)
(***************************************************************************)
EXTENDS Reconnect

CONSTANTS
  MaxFaults,   (* bound: launches, stops and saves that fail, adapters that
                  vanish, cores of somebody else                           *)
  MaxLines     (* bound: lines the core writes between two polls           *)

ASSUME ControlAssumption == MaxFaults \in Nat /\ MaxLines \in Nat

VARIABLES
  desired,     (* desired_running                                          *)
  pause,       (* manual_pause                                             *)
  core,        (* app.core: "none", "running" or "dead"                    *)
  health,      (* app.health while the core is there                       *)
  backoff,
  link,        (* link_state, as shown                                     *)
  adapter,     (* the adapter is there                                     *)
  others,      (* a core the GUI does not hold: "none", "orphan", "foreign" *)
  burst,       (* history: launches since the last pause or fresh start    *)
  stall,       (* history: the time without a sign of UDP, whether a
                  scheduled wait excuses it, and the time EAP has been in
                  again after such a wait, or -1                           *)
  beatAge,     (* history: time since a heartbeat was read                 *)
  faults

vars == <<desired, pause, core, health, backoff, link, adapter, others, burst, stall,
          beatAge, faults>>

-----------------------------------------------------------------------------
Fault == faults < MaxFaults /\ faults' = faults + 1

NoStall == [time |-> 0, excused |-> FALSE, masked |-> -1]

Init ==
  /\ desired \in BOOLEAN
  /\ pause = ~desired
  /\ core = "none"
  /\ health = NewHealth
  /\ backoff = Fresh
  /\ link = "Offline"
  /\ adapter \in BOOLEAN
  /\ others = "none"
  /\ burst = 0
  /\ stall = NoStall
  /\ beatAge = Stale + 1
  /\ faults = 0

(* attempt_start, from the backoff b and with so many launches behind it.  A
   core that runs stays; one that has ended may still be held.               *)
StillRuns(b, launched) ==
  /\ core = "running"
  /\ desired' = TRUE
  /\ backoff' = b
  /\ burst' = launched
  /\ UNCHANGED <<core, health, link, stall, beatAge, faults>>

NoAdapter(b, launched) ==
  /\ ~adapter
  /\ desired' = TRUE
  /\ link' = "Waiting"
  /\ backoff' = b
  /\ burst' = launched
  /\ UNCHANGED <<core, health, stall, beatAge, faults>>

SameNameRunning(b, launched) ==
  /\ adapter
  /\ others # "none"
  /\ desired' = FALSE
  /\ link' = "Error"
  /\ backoff' = b
  /\ burst' = launched
  /\ UNCHANGED <<core, health, stall, beatAge, faults>>

Spawn(b, launched) ==
  /\ adapter
  /\ others = "none"
  /\ desired' = TRUE
  /\ core' = "running"
  /\ health' = NewHealth
  /\ link' = "Connecting"
  /\ backoff' = RecordLaunch(b)
  /\ burst' = launched + 1
  /\ stall' = NoStall
  /\ beatAge' = Stale + 1
  /\ UNCHANGED faults

SpawnFails(b, launched) ==
  /\ adapter
  /\ others = "none"
  /\ Fault
  /\ desired' = TRUE
  /\ link' = "Error"
  /\ backoff' = RecordFailure(RecordLaunch(b))
  /\ burst' = launched + 1
  /\ UNCHANGED <<core, health, stall, beatAge>>

AttemptStart(b, launched) ==
  /\ \/ StillRuns(b, launched)
     \/ /\ core # "running"
        /\ \/ NoAdapter(b, launched) \/ SameNameRunning(b, launched)
           \/ Spawn(b, launched) \/ SpawnFails(b, launched)
  /\ UNCHANGED <<adapter, others>>

(* stop() of the core held, which is dropped whatever the result: a core that
   could not be stopped runs on without an owner *)
StopCore ==
  /\ core' = "none"
  /\ health' = NewHealth
  /\ stall' = NoStall
  /\ beatAge' = Stale + 1
  /\ \/ UNCHANGED <<others, faults>>
     \/ core = "running" /\ others = "none" /\ others' = "orphan" /\ Fault

-----------------------------------------------------------------------------
(* on_action: one button for both.  It disconnects what is active. *)
Active == desired \/ link \in {"Online", "Connecting", "Waiting"} \/ core = "running"

(* a mutant: the core is not stopped *)
Disconnect_CoreKept ==
  /\ desired' = FALSE
  /\ pause' = TRUE
  /\ backoff' = Fresh
  /\ burst' = 0
  /\ link' = "Offline"
  /\ UNCHANGED <<core, health, stall, beatAge, others, faults, adapter>>

(* start_disconnect and start_connect: from the button, which chooses, and from
   the menu of the tray icon, which offers both at any time *)
Disconnect ==
  /\ desired' = FALSE
  /\ pause' = TRUE
  /\ backoff' = Fresh
  /\ burst' = 0
  /\ link' = "Offline"
  /\ StopCore
  /\ UNCHANGED adapter

Connect ==
  /\ pause' = FALSE
  /\ AttemptStart(Fresh, 0)

(* incomplete credentials, or settings that cannot be saved *)
ConnectRefused ==
  /\ link' = "Error"
  /\ UNCHANGED <<desired, pause, core, health, backoff, adapter, others, burst, stall,
                 beatAge, faults>>

-----------------------------------------------------------------------------
(* The timer without a running core, from the backoff b.                    *)
TimerIdle(b) ==
  IF ~desired \/ pause
  THEN /\ backoff' = b
       /\ UNCHANGED <<desired, link, burst>>
  ELSE /\ ~CanAttempt(b)
       /\ backoff' = b
       /\ link' = "Waiting"
       /\ UNCHANGED <<desired, burst>>

TimerWait ==
  /\ core = "none"
  /\ TimerIdle(backoff)
  /\ UNCHANGED <<pause, core, health, adapter, others, stall, beatAge, faults>>

TimerAttempt ==
  /\ core = "none"
  /\ desired /\ ~pause
  /\ CanAttempt(backoff)
  /\ AttemptStart(backoff, burst)
  /\ UNCHANGED pause

(* a mutant: the core that has exited is not dropped *)
TimerCoreExited_Kept ==
  /\ core = "dead"
  /\ health' = NewHealth
  /\ TimerIdle(IF desired /\ ~pause THEN RecordFailure(backoff) ELSE backoff)
  /\ UNCHANGED <<pause, core, adapter, others, stall, beatAge, faults>>

TimerCoreExited ==
  /\ core = "dead"
  /\ core' = "none"
  /\ health' = NewHealth
  /\ TimerIdle(IF desired /\ ~pause THEN RecordFailure(backoff) ELSE backoff)
  /\ UNCHANGED <<pause, adapter, others, stall, beatAge, faults>>

(* What the log shows, counted apart from the monitor: a heartbeat of UDP or
   the announcement of a scheduled wait starts the count anew, a wait excuses
   silence until a heartbeat or a retry, and masked counts from the moment EAP
   logs in after such a wait.  *)
Noted(s, kind) ==
  CASE kind = "beat"  -> NoStall
    [] kind = "night" -> [NoStall EXCEPT !.excused = TRUE]
    [] kind = "retry" -> [s EXCEPT !.excused = FALSE, !.masked = -1]
    [] kind = "auth" /\ s.excused /\ s.masked = -1 -> [s EXCEPT !.masked = 0]
    [] OTHER          -> s

Pardoned(s) == [s EXCEPT !.time = 0, !.masked = IF @ = -1 THEN -1 ELSE 0]

NotedAll(lines) ==
  LET s == FoldLeft(Noted, IF health.poll > PollGap THEN Pardoned(stall) ELSE stall, lines)
  IN  IF s.excused THEN [s EXCEPT !.time = 0] ELSE s

(* a mutant: the GUI does not look at the verdict *)
MustRestart_Never(h) == FALSE

MustRestart(h) == desired /\ ~pause /\ Stalled(h)

Lines == BoundedSeq(Kinds, MaxLines)

(* the log is read, and the verdict lets the core go on *)
TimerObserve ==
  \E lines \in Lines :
    LET h == Observe(health, lines)
    IN  /\ core = "running"
        /\ ~MustRestart(h)
        /\ health' = h
        /\ backoff' = IF IsStable(h) THEN Fresh ELSE backoff
        /\ burst' = IF IsStable(h) THEN 0 ELSE burst
        /\ link' = Shown(h)
        /\ stall' = NotedAll(lines)
        /\ beatAge' = IF Contains(lines, "beat") THEN 0 ELSE beatAge
        /\ UNCHANGED <<desired, pause, core, adapter, others, faults>>

(* the log cannot be read: no verdict, and a grace *)
TimerBlind ==
  LET h == ObserveBlind(health)
  IN  /\ core = "running"
      /\ health' = h
      /\ backoff' = IF IsStable(h) THEN Fresh ELSE backoff
      /\ burst' = IF IsStable(h) THEN 0 ELSE burst
      /\ link' = "Degraded"
      /\ stall' = Pardoned(stall)
      /\ UNCHANGED <<desired, pause, core, adapter, others, beatAge, faults>>

(* restart_stalled: the core is stopped and counts as a failure *)
TimerRestart ==
  /\ core = "running"
  /\ \E lines \in Lines :
       LET h == Observe(health, lines)
       IN  /\ MustRestart(h)
           /\ backoff' = RecordFailure(IF IsStable(h) THEN Fresh ELSE backoff)
           /\ burst' = IF IsStable(h) THEN 0 ELSE burst
           /\ link' = "Waiting"
           /\ StopCore
           /\ UNCHANGED <<desired, pause, adapter>>

OnTimer ==
  TimerWait \/ TimerAttempt \/ TimerCoreExited \/ TimerObserve \/ TimerBlind \/ TimerRestart

-----------------------------------------------------------------------------
(* The world: time, the process of the core, the adapter, other cores.      *)
Tick ==
  /\ backoff' = BackoffLater(backoff)
  /\ burst' = IF backoff.cool = 1 THEN 0 ELSE burst
  /\ IF core = "running"
     THEN /\ health' = HealthLater(health)
          /\ stall' = [stall EXCEPT !.time = Older(@, UnhealthyLimit + 1),
                                    !.masked = Aged(@, Stale + 1)]
          /\ beatAge' = Older(beatAge, Stale + 1)
     ELSE UNCHANGED <<health, stall, beatAge>>
  /\ UNCHANGED <<desired, pause, core, link, adapter, others, faults>>

CoreExits ==
  /\ core = "running"
  /\ core' = "dead"
  /\ UNCHANGED <<desired, pause, health, backoff, link, adapter, others, burst, stall,
                 beatAge, faults>>

AdapterGoes ==
  /\ adapter
  /\ Fault
  /\ adapter' = FALSE
  /\ UNCHANGED <<desired, pause, core, health, backoff, link, others, burst, stall,
                 beatAge>>

AdapterComes ==
  /\ ~adapter
  /\ adapter' = TRUE
  /\ UNCHANGED <<desired, pause, core, health, backoff, link, others, burst, stall,
                 beatAge, faults>>

ForeignStarts ==
  /\ core = "none"
  /\ others = "none"
  /\ Fault
  /\ others' = "foreign"
  /\ UNCHANGED <<desired, pause, core, health, backoff, link, adapter, burst, stall,
                 beatAge>>

OtherEnds ==
  /\ others # "none"
  /\ others' = "none"
  /\ UNCHANGED <<desired, pause, core, health, backoff, link, adapter, burst, stall,
                 beatAge, faults>>

Next ==
  \/ Disconnect \/ Connect \/ ConnectRefused
  \/ OnTimer
  \/ Tick \/ CoreExits \/ AdapterGoes \/ AdapterComes \/ ForeignStarts \/ OtherEnds

(* WM_TIMER keeps coming, time passes and the network comes back *)
Fairness ==
  /\ WF_vars(TimerWait \/ TimerAttempt \/ TimerCoreExited)
  /\ WF_vars(Tick)
  /\ WF_vars(AdapterComes)

Spec == Init /\ [][Next]_vars

FairSpec == Spec /\ Fairness

-----------------------------------------------------------------------------
TypeOK ==
  /\ desired \in BOOLEAN
  /\ pause \in BOOLEAN
  /\ core \in {"none", "running", "dead"}
  /\ health.activity \in 0 .. Stale + 1
  /\ health.recovery \in 0 .. UnhealthyLimit + 1
  /\ health.health \in -1 .. Stale + 1
  /\ health.since \in -1 .. Stale + Stable
  /\ health.poll \in 0 .. PollGap + 1
  /\ backoff.failures \in 0 .. MaxFailures
  /\ Len(backoff.launches) <= backoff.failures + 1
  /\ backoff.next \in Nat /\ backoff.cool \in 0 .. Cooldown
  /\ link \in {"Offline", "Connecting", "Online", "Waiting", "Degraded", "Error"}
  /\ adapter \in BOOLEAN
  /\ others \in {"none", "orphan", "foreign"}
  /\ stall.time \in 0 .. UnhealthyLimit + 1 /\ stall.masked \in -1 .. Stale + 1
  /\ beatAge \in 0 .. Stale + 1
  /\ faults \in 0 .. MaxFaults

(* No core of the GUI runs against the user's wish, in whatever order button,
   tray and timer act and whatever has failed; and when the user does not want
   a connection the button offers to make one.  *)
WishIsFollowed ==
  /\ core = "running" => desired /\ ~pause
  /\ ~desired => ~Active

(* A core that keeps failing is started at most MaxFailures + 1 times in a
   row: then comes the cooldown, unless the user intervenes or the connection
   has been stable (controller.rs, failures above 5 lead to a pause).  *)
LaunchBudget == burst <= MaxFailures + 1

(* A core that shows no heartbeat of UDP is not left running for longer than
   the monitor allows, except in a scheduled wait.  And every variable has its
   type.  *)
StallIsRestarted ==
  /\ TypeOK
  /\ core = "running" /\ health.poll = 0 /\ ~health.waiting =>
       stall.time <= IF health.authed THEN Stale ELSE UnhealthyLimit

(* README: heartbeats of EAP do not mask a stalled UDP.  Also not after a
   scheduled wait, once EAP has logged in again.  *)
EapDoesNotMaskStall ==
  core = "running" /\ health.poll = 0 => stall.masked <= Stale

(* README: normal heartbeats and the wait of the night are not interrupted by
   restarts.  *)
HealthyIsLeftAlone ==
  [][core = "running" /\ core' = "none" /\ desired' => beatAge > Stale /\ ~stall.excused]_vars

(* A connection that is wanted is made, or given up with an error on screen,
   however often cores fail.  *)
WishIsPursued == desired ~> core = "running" \/ ~desired
=============================================================================
