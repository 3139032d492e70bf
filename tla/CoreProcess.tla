----------------------------- MODULE CoreProcess -----------------------------
(***************************************************************************)
(* The life of the core as a process of its own, tied to the GUI that      *)
(* started it.  The GUI creates it suspended, puts it into a job that      *)
(* kills it when the last handle closes, gives it a handle of that job, so *)
(* that the end of the GUI alone does not kill it, and lets it run.  In    *)
(* the core a watch thread waits for the GUI to end or for the stop event, *)
(* sends an EAPOL-Logoff and exits; the GUI's stop() sets the event and    *)
(* terminates the job when that takes too long.                            *)
(*                                                                         *)
(* core is the process: "none" before the first one, "suspended",          *)
(* "starting" up to supervisor::arm, "armed" up to the choice of a device, *)
(* "online" while it may log in, "logoff" from the wake of the watch       *)
(* thread to the frame, "leaving" up to the exit, "stuck" when a call of   *)
(* the driver holds it, "gone" after its end.                              *)
(***************************************************************************)
EXTENDS Naturals, FiniteSets

CONSTANTS
  MaxLaunches,   (* bound: cores started                                   *)
  MaxDeaths,     (* bound: GUI processes killed from outside               *)
  MaxFaults,     (* bound: calls that fail, crashes, hangs                 *)
  KillMidLaunch  (* whether the GUI may be killed inside launch_core       *)

ASSUME ProcessAssumption ==
  /\ MaxLaunches \in Nat
  /\ MaxDeaths \in Nat
  /\ MaxFaults \in Nat
  /\ KillMidLaunch \in BOOLEAN

VARIABLES
  gui,       (* whether a GUI runs: there is one at a time                 *)
  at,        (* where its thread is in launch_core and stop                *)
  exiting,   (* whether the stop under way is that of begin_exit           *)
  owned,     (* whether app.core holds the OwnedCore of the core           *)
  core,
  parent,    (* whether the GUI that created the core still runs           *)
  jobbed,    (* whether the core has been assigned to its job              *)
  holders,   (* the processes that hold a handle of the job                *)
  event,     (* shutdown_event is set                                      *)
  port,      (* at the authenticator: "closed", "open" by a login that    *)
             (* comes before the Logoff, "late" by one that comes after it *)
  ending,    (* history: how the last core ended                           *)
  launches, deaths, faults

guiVars == <<gui, at, exiting, owned>>
coreVars == <<core, parent, jobbed, holders, event>>
vars == <<gui, at, exiting, owned, core, parent, jobbed, holders, event, port,
          ending, launches, deaths, faults>>

-----------------------------------------------------------------------------
Running == {"starting", "armed", "online", "logoff", "leaving", "stuck"}

Live == Running \cup {"suspended"}

Launching == {"created", "assigned", "shared"}

Stopping == {"asked", "terminated"}

Fault == faults < MaxFaults /\ faults' = faults + 1

(* the core has ended in the given way; its own handles are closed *)
Ends(how) ==
  /\ core' = "gone"
  /\ ending' = how
  /\ holders' = holders \ {"core"}

(* the handles of the GUI are closed: the job goes with its last handle and
   takes the processes in it along *)
CloseHandles ==
  /\ holders' = holders \ {"gui"}
  /\ IF core \in Live /\ jobbed /\ holders' = {}
     THEN core' = "gone" /\ ending' = "closed"
     ELSE UNCHANGED <<core, ending>>

Init ==
  /\ gui = TRUE
  /\ at = "idle"
  /\ exiting = FALSE
  /\ owned = FALSE
  /\ core = "none"
  /\ parent = TRUE
  /\ jobbed = FALSE
  /\ holders = {}
  /\ event = FALSE
  /\ port = "closed"
  /\ ending = "none"
  /\ launches = 0
  /\ deaths = 0
  /\ faults = 0

-----------------------------------------------------------------------------
(* attempt_start: no core of its own runs and none of that name either.
   CreateProcessW with CREATE_SUSPENDED, then the job *)
Launch ==
  /\ gui
  /\ at = "idle"
  /\ core \notin Live
  /\ launches < MaxLaunches
  /\ launches' = launches + 1
  /\ at' = "created"
  /\ owned' = FALSE
  /\ core' = "suspended"
  /\ parent' = TRUE
  /\ jobbed' = FALSE
  /\ holders' = {"gui"}
  /\ event' = FALSE
  /\ UNCHANGED <<gui, exiting, port, ending, deaths, faults>>

Assign ==
  /\ at = "created"
  /\ at' = "assigned"
  /\ jobbed' = TRUE
  /\ UNCHANGED <<gui, exiting, owned, core, parent, holders, event, port, ending,
                 launches, deaths, faults>>

(* a mutant: the core gets no handle of its job *)
ShareJob_Forgotten ==
  /\ at = "assigned"
  /\ at' = "shared"
  /\ UNCHANGED <<gui, exiting, owned, coreVars, port, ending, launches, deaths,
                 faults>>

ShareJob ==
  /\ at = "assigned"
  /\ at' = "shared"
  /\ holders' = holders \cup {"core"}
  /\ UNCHANGED <<gui, exiting, owned, core, parent, jobbed, event, port, ending,
                 launches, deaths, faults>>

Resume ==
  /\ at = "shared"
  /\ at' = "idle"
  /\ owned' = TRUE
  /\ core' = "starting"
  /\ UNCHANGED <<gui, exiting, parent, jobbed, holders, event, port, ending,
                 launches, deaths, faults>>

(* a call of launch_core fails: LaunchCleanup terminates the process *)
LaunchFails ==
  /\ at \in Launching
  /\ Fault
  /\ at' = "idle"
  /\ core' = "gone"
  /\ ending' = "refused"
  /\ holders' = {}
  /\ UNCHANGED <<gui, exiting, owned, parent, jobbed, event, port, launches, deaths>>

-----------------------------------------------------------------------------
(* stop(), as called by start_disconnect, by on_timer when the core stalls
   and by begin_exit: the event is set and the thread waits for the end *)
Stop(exit) ==
  /\ gui
  /\ at = "idle"
  /\ owned
  /\ at' = "asked"
  /\ exiting' = exit
  /\ event' = TRUE
  /\ UNCHANGED <<gui, owned, core, parent, jobbed, holders, port, ending, launches,
                 deaths, faults>>

(* stop() returns, the OwnedCore is dropped and, in begin_exit, the GUI ends *)
Return ==
  /\ at' = "idle"
  /\ exiting' = FALSE
  /\ owned' = FALSE
  /\ gui' = ~exiting
  /\ parent' = (parent /\ ~exiting)
  /\ CloseHandles
  /\ UNCHANGED <<jobbed, event, port, launches, deaths>>

StopDone ==
  /\ at \in Stopping
  /\ core \notin Live
  /\ Return
  /\ UNCHANGED faults

(* three seconds have passed and the process is still there: the timer of a
   second in the core has run out unless it has not armed itself or hangs *)
Overdue == core \in {"starting", "stuck"}

Terminate ==
  /\ at = "asked"
  /\ Overdue
  /\ at' = "terminated"
  /\ IF core = "stuck"
     THEN UNCHANGED <<core, ending, holders>>
     ELSE Ends("terminated")
  /\ UNCHANGED <<gui, exiting, owned, parent, jobbed, event, port, launches, deaths,
                 faults>>

TerminateFails ==
  /\ at = "asked"
  /\ Overdue
  /\ Fault
  /\ Return

(* a mutant: the second wait has no limit *)
StopGivesUp_Never ==
  /\ FALSE
  /\ UNCHANGED vars

StopGivesUp ==
  /\ at = "terminated"
  /\ core \in Live
  /\ Return
  /\ UNCHANGED faults

(* the GUI without a core leaves *)
Exit ==
  /\ gui
  /\ at = "idle"
  /\ ~owned
  /\ gui' = FALSE
  /\ parent' = FALSE
  /\ UNCHANGED <<at, exiting, owned, core, jobbed, holders, event, port, ending,
                 launches, deaths, faults>>

(* on_timer finds that the core has ended and drops the OwnedCore *)
NoticeEnd ==
  /\ gui
  /\ at = "idle"
  /\ owned
  /\ core \notin Live
  /\ owned' = FALSE
  /\ holders' = holders \ {"gui"}
  /\ UNCHANGED <<gui, at, exiting, core, parent, jobbed, event, port, ending,
                 launches, deaths, faults>>

(* the GUI is killed, or crashes, wherever its thread is *)
Die ==
  /\ gui
  /\ deaths < MaxDeaths
  /\ at \in Launching => KillMidLaunch
  /\ deaths' = deaths + 1
  /\ gui' = FALSE
  /\ at' = "idle"
  /\ exiting' = FALSE
  /\ owned' = FALSE
  /\ parent' = FALSE
  /\ CloseHandles
  /\ UNCHANGED <<jobbed, event, port, launches, faults>>

Restart ==
  /\ ~gui
  /\ launches < MaxLaunches
  /\ gui' = TRUE
  /\ UNCHANGED <<at, exiting, owned, coreVars, port, ending, launches, deaths,
                 faults>>

-----------------------------------------------------------------------------
CoreStep == UNCHANGED <<guiVars, parent, jobbed, event, launches, deaths>>

(* supervisor::arm: the watch thread waits on the parent and on the event *)
Arm ==
  /\ core = "starting"
  /\ core' = "armed"
  /\ CoreStep
  /\ UNCHANGED <<holders, port, ending, faults>>

(* get_device and set_logoff_mac; a missing device ends the process *)
OpenDevice ==
  /\ core = "armed"
  /\ core' = "online"
  /\ CoreStep
  /\ UNCHANGED <<holders, port, ending, faults>>

(* external: EAP logs in.  Its thread runs on until the process has ended: past
   the wake of the watch thread, and past the frame *)
Grant ==
  /\ core \in {"online", "logoff", "leaving", "stuck"}
  /\ port' = IF core \in {"online", "logoff"} THEN "open" ELSE "late"
  /\ CoreStep
  /\ UNCHANGED <<core, holders, ending, faults>>

(* a mutant: only the event wakes the watch thread *)
Woken_EventOnly == event

Woken == event \/ ~parent

(* shutdown_from_binding takes the address, once it is known *)
Wake ==
  /\ Woken
  /\ \/ core = "armed" /\ core' = "leaving"
     \/ core = "online" /\ core' = "logoff"
  /\ CoreStep
  /\ UNCHANGED <<holders, port, ending, faults>>

(* a mutant: the process exits without the frame *)
Transmit_Skipped ==
  /\ core = "logoff"
  /\ core' = "leaving"
  /\ CoreStep
  /\ UNCHANGED <<holders, port, ending, faults>>

Transmit ==
  /\ core = "logoff"
  /\ core' = "leaving"
  /\ port' = "closed"
  /\ CoreStep
  /\ UNCHANGED <<holders, ending, faults>>

(* the interface is gone or busy, or the timer of a second is faster *)
TransmitFails ==
  /\ core = "logoff"
  /\ Fault
  /\ core' = "leaving"
  /\ CoreStep
  /\ UNCHANGED <<holders, port, ending>>

Leave ==
  /\ core = "leaving"
  /\ Ends("left")
  /\ CoreStep
  /\ UNCHANGED <<port, faults>>

Hang ==
  /\ core \in {"logoff", "leaving"}
  /\ Fault
  /\ core' = "stuck"
  /\ CoreStep
  /\ UNCHANGED <<holders, port, ending>>

Unhang ==
  /\ core = "stuck"
  /\ Ends("left")
  /\ CoreStep
  /\ UNCHANGED <<port, faults>>

(* no ethernet device at the start, a panic of a main thread *)
Crash ==
  /\ core \in {"starting", "armed", "online"}
  /\ Fault
  /\ Ends("crashed")
  /\ CoreStep
  /\ UNCHANGED port

-----------------------------------------------------------------------------
LaunchStep == Assign \/ ShareJob \/ Resume

StopStep == StopDone \/ Terminate \/ StopGivesUp

CoreProgress == Arm \/ OpenDevice \/ Wake \/ Transmit \/ Leave

Next ==
  \/ Launch \/ LaunchStep \/ LaunchFails
  \/ (\E exit \in BOOLEAN : Stop(exit)) \/ StopStep \/ TerminateFails
  \/ Exit \/ NoticeEnd \/ Die \/ Restart
  \/ CoreProgress \/ Grant \/ TransmitFails \/ Hang \/ Unhang \/ Crash

(* the system runs every thread; nothing makes a driver call return *)
Fairness ==
  /\ WF_vars(LaunchStep)
  /\ WF_vars(StopStep)
  /\ WF_vars(CoreProgress)

Spec == Init /\ [][Next]_vars

FairSpec == Spec /\ Fairness

-----------------------------------------------------------------------------
TypeOK ==
  /\ gui \in BOOLEAN
  /\ at \in {"idle"} \cup Launching \cup Stopping
  /\ exiting \in BOOLEAN
  /\ owned \in BOOLEAN
  /\ core \in Live \cup {"none", "gone"}
  /\ parent \in BOOLEAN
  /\ jobbed \in BOOLEAN
  /\ holders \in SUBSET {"gui", "core"}
  /\ event \in BOOLEAN
  /\ port \in {"closed", "open", "late"}
  /\ ending \in {"none", "left", "crashed", "refused", "terminated", "closed"}
  /\ launches \in 0 .. MaxLaunches
  /\ deaths \in 0 .. MaxDeaths
  /\ faults \in 0 .. MaxFaults
  /\ owned \/ at # "idle" => gui

(* A core that executes code is on a leash: it sits in a job of which it
   holds a handle itself, and its GUI still holds the OwnedCore, or the core
   has been told to leave through the event or the end of the GUI.  *)
Leashed ==
  core \in Running =>
    /\ jobbed
    /\ "core" \in holders
    /\ owned \/ Woken

(* The end of the GUI, orderly or not, does not take a running core with it:
   the core always has the chance to send its Logoff first (README: a closed
   or killed GUI lets the core log off before it exits).  *)
DeathSparesCore ==
  [][gui /\ ~gui' /\ core \in Running => core' = core]_vars

(* When nothing fails, a core that left because of its GUI has undone every
   login of its own that came before its Logoff: a port that is open then was
   opened by the EAP thread between the frame and the exit, in this core or in
   one before it.  *)
OrderlyEnd == ending = "left" /\ faults = 0 /\ core \notin Live => port # "open"

(* A core that executes code does not outlive its GUI, unless a driver call
   holds it.  *)
CoreFollowsGui == ~parent /\ core \in Running ~> core \notin Live \/ core = "stuck"

(* README: when the GUI is closed or killed, the core logs off and exits.  A
   core whose GUI is killed inside launch_core is one too.  *)
NoCoreIsLeft == ~parent ~> core \notin Live \/ core = "stuck"

(* stop() always gives the GUI thread back, even when the core hangs.  *)
StopReturns == at \in Stopping ~> at = "idle"
==============================================================================
