------------------------------ MODULE Reconnect ------------------------------
(***************************************************************************)
(* The two judges the connection control of the GUI consults, as pure      *)
(* operators: the backoff between launches of the core, and the monitor    *)
(* that reads the core's log for evidence of health.  An instant is kept   *)
(* as its age, or as the time left until it, in units of the clock; ages   *)
(* stop growing once no comparison can tell them apart.                    *)
(***************************************************************************)
EXTENDS Integers, SequencesExt

CONSTANTS
  Delays,        (* the waits after one failure, two failures, ...         *)
  Cooldown,      (* the wait after too many                                *)
  Window,        (* how long a launch is remembered                        *)
  MaxFailures,
  MaxLaunches,
  Stale,         (* how long a sign of life is good for                    *)
  UnhealthyLimit,
  Stable,        (* how long a streak of health forgets earlier failures   *)
  PollGap        (* a longer break between two polls is a sleep            *)

ASSUME ReconnectAssumption ==
  /\ Delays \in Seq(Nat \ {0}) /\ Delays # <<>>
  /\ {Cooldown, Window, MaxFailures, MaxLaunches, UnhealthyLimit} \subseteq Nat \ {0}
  /\ {Stale, Stable, PollGap} \subseteq Nat \ {0}
  /\ PollGap <= Stale /\ Stale < UnhealthyLimit

Older(age, limit) == IF age < limit THEN age + 1 ELSE limit

Sooner(left) == IF left > 0 THEN left - 1 ELSE 0

-----------------------------------------------------------------------------
(* ReconnectBackoff: launches holds ages; next and cool are the times left  *)
(* until next_attempt and cooldown_until, 0 when they are past or unset.    *)
Fresh == [failures |-> 0, launches |-> <<>>, next |-> 0, cool |-> 0]

(* retain: the list is in the order of the launches, the oldest come first. *)
Recent(launches) ==
  SubSeq(launches, Cardinality({i \in DOMAIN launches : launches[i] > Window}) + 1,
         Len(launches))

RecordLaunch(b) == [b EXCEPT !.launches = Recent(Append(@, 0))]

Delay(failures) == Delays[IF failures <= Len(Delays) THEN failures ELSE Len(Delays)]

(* a mutant: the cooldown does not start *)
RecordFailure_NoCooldown(b) ==
  [b EXCEPT !.failures = IF @ < MaxFailures THEN @ + 1 ELSE 0,
            !.launches = Recent(@),
            !.next = Delays[1]]

RecordFailure(b) ==
  LET failures == b.failures + 1
      launches == Recent(b.launches)
  IN  IF failures > MaxFailures \/ Len(launches) > MaxLaunches
      THEN [Fresh EXCEPT !.next = Cooldown, !.cool = Cooldown]
      ELSE [b EXCEPT !.failures = failures, !.launches = launches,
                     !.next = Delay(failures)]

CanAttempt(b) == b.next = 0 /\ b.cool = 0

BackoffLater(b) ==
  [b EXCEPT !.launches = [i \in DOMAIN @ |-> Older(@[i], Window + 1)],
            !.next = Sooner(@), !.cool = Sooner(@)]

-----------------------------------------------------------------------------
(* HealthMonitor: health and since are -1 for None, poll is the age of the  *)
(* last poll.                                                               *)
NewHealth ==
  [activity |-> 0, recovery |-> 0, health |-> -1, since |-> -1, poll |-> 0,
   observed |-> FALSE, authed |-> FALSE, waiting |-> FALSE, state |-> "Connecting"]

Aged(age, limit) == IF age = -1 THEN -1 ELSE Older(age, limit)

HealthLater(h) ==
  [h EXCEPT !.activity = Older(@, Stale + 1),
            !.recovery = Older(@, UnhealthyLimit + 1),
            !.health = Aged(@, Stale + 1),
            !.since = Aged(@, Stale + Stable),
            !.poll = Older(@, PollGap + 1)]

(* The kinds of line the log can hold: "beat" is Heartbeat done, "auth" an
   EAP success or heartbeat, "error" a fatal or send error, "night" the
   announcement of a scheduled wait, "retry" that of a retry or of a missing
   device, "other" anything else.  *)
Kinds == {"beat", "auth", "error", "night", "retry", "other"}

(* a mutant: a heartbeat is health but no recovery *)
Beat_NoRecovery(h) ==
  [h EXCEPT !.authed = TRUE, !.health = 0, !.since = IF @ = -1 THEN 0 ELSE @,
            !.waiting = FALSE, !.state = "Online"]

Beat(h) ==
  [h EXCEPT !.authed = TRUE, !.health = 0, !.recovery = 0,
            !.since = IF @ = -1 THEN 0 ELSE @,
            !.waiting = FALSE, !.state = "Online"]

Read(h, kind) ==
  LET seen == [h EXCEPT !.activity = 0, !.observed = TRUE]
  IN  CASE kind = "beat"  -> Beat(seen)
        [] kind = "auth"  -> [seen EXCEPT !.authed = TRUE]
        [] kind = "error" -> [seen EXCEPT !.since = -1, !.state = "Degraded"]
        [] kind = "night" -> [seen EXCEPT !.since = -1, !.waiting = TRUE,
                                          !.state = "Waiting", !.recovery = 0]
        [] kind = "retry" -> [seen EXCEPT !.since = -1, !.waiting = FALSE,
                                          !.state = "Degraded"]
        [] OTHER          -> seen

(* after a long break every clock starts anew *)
Woke(h) ==
  IF h.poll > PollGap
  THEN [h EXCEPT !.activity = 0, !.recovery = 0, !.health = -1, !.since = -1, !.poll = 0]
  ELSE [h EXCEPT !.poll = 0]

(* an unreadable log starts them anew as well *)
Blind(h) == [h EXCEPT !.activity = 0, !.recovery = 0, !.since = -1]

FreshHealth(h) == h.health \in 0 .. Stale

Settled(h) ==
  LET lapsed == h.state = "Online" /\ ~FreshHealth(h)
  IN  [h EXCEPT !.state = IF lapsed THEN "Degraded" ELSE @,
                !.since = IF lapsed THEN -1 ELSE @,
                !.recovery = IF h.waiting THEN 0 ELSE @]

Observe(h, lines) == Settled(FoldLeft(Read, Woke(h), lines))

ObserveBlind(h) == Settled(Blind(Woke(h)))

Stalled(h) ==
  /\ ~h.waiting
  /\ \/ h.observed /\ h.activity > Stale
     \/ h.authed /\ h.recovery > Stale
     \/ h.recovery > UnhealthyLimit

IsStable(h) ==
  /\ FreshHealth(h)
  /\ h.state = "Online"
  /\ h.since # -1
  /\ h.since - h.health >= Stable

(* status_view: EAP alone is shown as a connection *)
Shown(h) ==
  CASE h.state \in {"Online", "Degraded", "Waiting"} -> h.state
    [] h.authed -> "Online"
    [] OTHER -> "Connecting"
==============================================================================
