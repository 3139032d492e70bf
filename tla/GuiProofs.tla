------------------------------ MODULE GuiProofs ------------------------------
(***************************************************************************)
(* Theorems about the parts of the GUI program: the life of its core       *)
(* process, its main window, its geometry, and its settings, each for      *)
(* every value of its constants.                                           *)
(***************************************************************************)
EXTENDS CoreProcess, MainWindow, WindowLayout, UserSettings, FiniteSetTheorems, TLAPS

-----------------------------------------------------------------------------
(* CoreProcess.                                                             *)

(* What holds between the steps of launch_core and of stop().  The core is
   suspended while it is being launched; it has its place in the job before it
   gets the handle, and both before it runs; the event is set before stop()
   waits.  *)
LaunchOrder ==
  /\ at \in Launching => core = "suspended"
  /\ at \in {"assigned", "shared"} => jobbed
  /\ at = "shared" => "core" \in holders
  /\ at \in Stopping => event

CoreInv == TypeOK /\ LaunchOrder /\ Leashed

LEMMA CoreInvInit == Init => CoreInv
<1> SUFFICES ASSUME Init PROVE CoreInv
  OBVIOUS
<1>1. 0 \in 0 .. MaxLaunches /\ 0 \in 0 .. MaxDeaths /\ 0 \in 0 .. MaxFaults
  BY ProcessAssumption DEF ProcessAssumption
<1>2. TypeOK
  BY <1>1 DEF Init, TypeOK, Live, Running, Launching, Stopping
<1>3. LaunchOrder /\ Leashed
  BY DEF Init, LaunchOrder, Leashed, Launching, Stopping, Running
<1> QED
  BY <1>2, <1>3 DEF CoreInv

-----------------------------------------------------------------------------
(* Steps of launch_core keep the invariant.                                 *)
LEMMA LaunchKeeps ==
  ASSUME CoreInv, Launch \/ LaunchStep \/ LaunchFails
  PROVE  CoreInv'
<1> USE ProcessAssumption DEF ProcessAssumption, CoreInv, TypeOK, LaunchOrder, Leashed,
                              Launching, Stopping, Running, Live, Woken
<1>1. CASE Launch
  <2>1. launches' \in 0 .. MaxLaunches
    BY <1>1 DEF Launch
  <2>2. TypeOK'
    BY <1>1, <2>1 DEF Launch
  <2> QED
    BY <1>1, <2>2 DEF Launch
<1>2. CASE Assign
  BY <1>2 DEF Assign
<1>3. CASE ShareJob
  BY <1>3 DEF ShareJob
<1>4. CASE Resume
  BY <1>4 DEF Resume
<1>5. CASE LaunchFails
  BY <1>5 DEF LaunchFails, Fault
<1> QED
  BY <1>1, <1>2, <1>3, <1>4, <1>5 DEF LaunchStep

(* Closing the handles of the GUI leaves a running core alone.              *)
LEMMA CloseSparesRunning ==
  ASSUME CoreInv, CloseHandles, core \in Running
  PROVE  core' = core /\ "core" \in holders'
BY DEF CoreInv, Leashed, CloseHandles

(* A core that was not running when the handles were closed does not run
   afterwards.  *)
LEMMA CloseTypes ==
  ASSUME CoreInv, CloseHandles
  PROVE  /\ core' \in Live \cup {"none", "gone"}
         /\ core' \in Running => core \in Running
         /\ holders' \in SUBSET {"gui", "core"}
         /\ ending' \in {"none", "left", "crashed", "refused", "terminated", "closed"}
BY DEF CoreInv, TypeOK, CloseHandles, Running, Live

(* The return of stop() keeps the invariant: a core that still runs has been
   told to leave.  *)
LEMMA ReturnKeeps ==
  ASSUME CoreInv, at \in Stopping, Return, faults' \in 0 .. MaxFaults
  PROVE  CoreInv'
<1>1. TypeOK'
  BY CloseTypes DEF Return, CoreInv, TypeOK, Stopping, Launching
<1>2. LaunchOrder'
  BY DEF Return, LaunchOrder, Launching, Stopping
<1>3. Leashed'
  BY CloseTypes, CloseSparesRunning
     DEF Return, CoreInv, LaunchOrder, Leashed, Woken, Stopping
<1> QED
  BY <1>1, <1>2, <1>3 DEF CoreInv

(* The other steps of the GUI keep the invariant.                           *)
LEMMA GuiKeeps ==
  ASSUME CoreInv,
         \/ \E exit \in BOOLEAN : Stop(exit)
         \/ StopStep \/ TerminateFails \/ Exit \/ NoticeEnd \/ Die \/ Restart
  PROVE  CoreInv'
<1>1. CASE \E exit \in BOOLEAN : Stop(exit)
  BY <1>1 DEF Stop, CoreInv, TypeOK, LaunchOrder, Leashed, Launching, Stopping, Running,
              Live, Woken
<1>2. CASE StopDone
  BY <1>2, ReturnKeeps DEF StopDone, CoreInv, TypeOK
<1>3. CASE Terminate
  BY <1>3 DEF Terminate, Overdue, Ends, CoreInv, TypeOK, LaunchOrder, Leashed, Launching,
              Stopping, Running, Live, Woken
<1>4. CASE StopGivesUp
  BY <1>4, ReturnKeeps DEF StopGivesUp, Stopping, CoreInv, TypeOK
<1>5. CASE TerminateFails
  <2>1. faults' \in 0 .. MaxFaults
    BY <1>5, ProcessAssumption DEF ProcessAssumption, TerminateFails, Fault, CoreInv, TypeOK
  <2> QED
    BY <1>5, <2>1, ReturnKeeps DEF TerminateFails, Stopping
<1>6. CASE Exit
  BY <1>6 DEF Exit, CoreInv, TypeOK, LaunchOrder, Leashed, Launching, Stopping, Running,
              Live, Woken
<1>7. CASE NoticeEnd
  BY <1>7 DEF NoticeEnd, CoreInv, TypeOK, LaunchOrder, Leashed, Launching, Stopping,
              Running, Live, Woken
<1>8. CASE Die
  <2>0. deaths' \in 0 .. MaxDeaths
    BY <1>8, ProcessAssumption DEF ProcessAssumption, Die, CoreInv, TypeOK
  <2>1. TypeOK'
    BY <1>8, <2>0, CloseTypes DEF Die, CoreInv, TypeOK
  <2>2. LaunchOrder'
    BY <1>8 DEF Die, LaunchOrder, Launching, Stopping
  <2>3. Leashed'
    BY <1>8, CloseTypes, CloseSparesRunning DEF Die, CoreInv, Leashed, Woken
  <2> QED
    BY <2>1, <2>2, <2>3 DEF CoreInv
<1>9. CASE Restart
  BY <1>9 DEF Restart, coreVars, CoreInv, TypeOK, LaunchOrder, Leashed, Launching,
              Stopping, Running, Live, Woken
<1> QED
  BY <1>1, <1>2, <1>3, <1>4, <1>5, <1>6, <1>7, <1>8, <1>9 DEF StopStep

(* Steps of the core keep the invariant.                                    *)
LEMMA CoreKeeps ==
  ASSUME CoreInv, CoreProgress \/ Grant \/ TransmitFails \/ Hang \/ Unhang \/ Crash
  PROVE  CoreInv'
<1> USE ProcessAssumption DEF ProcessAssumption, CoreInv, TypeOK, LaunchOrder, Leashed,
                              Launching, Stopping, Running, Live, Woken, CoreStep,
                              guiVars
<1>1. CASE Arm
  BY <1>1 DEF Arm
<1>2. CASE OpenDevice
  BY <1>2 DEF OpenDevice
<1>3. CASE Wake
  BY <1>3 DEF Wake
<1>4. CASE Transmit
  BY <1>4 DEF Transmit
<1>5. CASE Leave
  BY <1>5 DEF Leave, Ends
<1>6. CASE Grant
  BY <1>6 DEF Grant
<1>7. CASE TransmitFails
  BY <1>7 DEF TransmitFails, Fault
<1>8. CASE Hang
  BY <1>8 DEF Hang, Fault
<1>9. CASE Unhang
  BY <1>9 DEF Unhang, Ends
<1>10. CASE Crash
  BY <1>10 DEF Crash, Fault, Ends
<1> QED
  BY <1>1, <1>2, <1>3, <1>4, <1>5, <1>6, <1>7, <1>8, <1>9, <1>10 DEF CoreProgress

LEMMA CoreInvNext == CoreInv /\ [Next]_vars => CoreInv'
<1> SUFFICES ASSUME CoreInv, [Next]_vars PROVE CoreInv'
  OBVIOUS
<1>1. CASE Next
  BY <1>1, LaunchKeeps, GuiKeeps, CoreKeeps DEF Next
<1>2. CASE UNCHANGED vars
  BY <1>2 DEF vars, CoreInv, TypeOK, LaunchOrder, Leashed, Woken
<1> QED
  BY <1>1, <1>2

LEMMA CoreInvariance == Spec => []CoreInv
<1> QED
  BY CoreInvInit, CoreInvNext, PTL DEF Spec

-----------------------------------------------------------------------------
(* Every reachable state is well typed.                                     *)
THEOREM CoreTypeCorrect == Spec => []TypeOK
<1>1. CoreInv => TypeOK
  BY DEF CoreInv
<1> QED
  BY CoreInvariance, <1>1, PTL

(* A core that executes code is on a leash: in its job, with a handle of it,
   and either owned by its GUI or told to leave.  *)
THEOREM CoreIsLeashed == Spec => []Leashed
<1>1. CoreInv => Leashed
  BY DEF CoreInv
<1> QED
  BY CoreInvariance, <1>1, PTL

(* The end of the GUI takes no running core with it: the job cannot close,
   since the core holds a handle of it.  *)
THEOREM CoreIsSpared == Spec => DeathSparesCore
<1>1. CoreInv /\ [Next]_vars => [gui /\ ~gui' /\ core \in Running => core' = core]_vars
  <2> SUFFICES ASSUME CoreInv, Next, gui, ~gui', core \in Running
               PROVE  core' = core
    OBVIOUS
  <2>1. CASE StopDone \/ StopGivesUp \/ TerminateFails \/ Die
    <3>1. CloseHandles
      BY <2>1 DEF StopDone, StopGivesUp, TerminateFails, Return, Die
    <3> QED
      BY <3>1, CloseSparesRunning
  <2>2. CASE Exit
    BY <2>2 DEF Exit
  <2>3. CASE Launch \/ LaunchStep \/ LaunchFails \/ NoticeEnd \/ Restart \/ Terminate
    BY <2>3 DEF Launch, LaunchStep, LaunchFails, NoticeEnd, Restart, Terminate, Assign,
                ShareJob, Resume
  <2>4. CASE \E exit \in BOOLEAN : Stop(exit)
    BY <2>4 DEF Stop
  <2>5. CASE CoreProgress \/ Grant \/ TransmitFails \/ Hang \/ Unhang \/ Crash
    BY <2>5 DEF CoreProgress, Grant, TransmitFails, Hang, Unhang, Crash, Arm,
                OpenDevice, Wake, Transmit, Leave, CoreStep, guiVars
  <2> QED
    BY <2>1, <2>2, <2>3, <2>4, <2>5 DEF Next, StopStep
<1> QED
  BY CoreInvariance, <1>1, PTL DEF Spec, DeathSparesCore

(* The port is open by a login before the Logoff only while the core may   *)
(* still send that Logoff, if nothing fails.                               *)
PortFollowsCore == faults = 0 => (port = "open" => core \in {"online", "logoff"})

LEMMA PortStep ==
  ASSUME CoreInv, PortFollowsCore, [Next]_vars
  PROVE  PortFollowsCore'
<1> USE DEF CoreInv, TypeOK, PortFollowsCore
<1>1. faults \in Nat
  BY ProcessAssumption
<1>2. CASE faults' # 0
  BY <1>2
<1>3. CASE faults' = 0
  <2>1. CASE Launch \/ LaunchStep \/ Exit \/ NoticeEnd \/ Restart
    BY <1>3, <2>1 DEF Launch, LaunchStep, Assign, ShareJob, Resume, Exit, NoticeEnd,
       Restart, coreVars, LaunchOrder, Launching, Stopping, Live, Running
  <2>2. CASE (\E exit \in BOOLEAN : Stop(exit)) \/ Terminate
    BY <1>3, <2>2 DEF Stop, Terminate, Overdue, Ends
  <2>3. CASE StopDone \/ StopGivesUp \/ Die
    <3>1. CloseHandles /\ UNCHANGED <<port, faults>>
      BY <2>3 DEF StopDone, StopGivesUp, Return, Die
    <3>2. CASE core \in Running
      BY <3>1, <3>2, CloseSparesRunning
    <3>3. CASE core \notin Running
      BY <1>3, <3>1, <3>3 DEF Running
    <3>4. QED
      BY <3>2, <3>3
  <2>4. CASE CoreProgress \/ Grant \/ Unhang
    BY <1>3, <2>4 DEF CoreProgress, Arm, OpenDevice, Wake, Transmit, Leave, Ends, Grant,
       Unhang
  <2>5. ~(LaunchFails \/ TerminateFails \/ TransmitFails \/ Hang \/ Crash)
    BY <1>1, <1>3 DEF LaunchFails, TerminateFails, TransmitFails, Hang, Crash, Fault
  <2>6. CASE UNCHANGED vars
    BY <1>3, <2>6 DEF vars
  <2>7. QED
    BY <2>1, <2>2, <2>3, <2>4, <2>5, <2>6 DEF Next, StopStep
<1>4. QED
  BY <1>2, <1>3

(* When nothing has failed, a core that has left because of its GUI leaves no *)
(* port open by a login that came before its Logoff.                         *)
THEOREM PortIsClosed == Spec => []OrderlyEnd
<1>1. Init => PortFollowsCore
  BY DEF Init, PortFollowsCore
<1>2. PortFollowsCore => OrderlyEnd
  BY DEF PortFollowsCore, OrderlyEnd, Live, Running
<1>3. QED
  BY <1>1, <1>2, PortStep, CoreInvariance, PTL DEF Spec

-----------------------------------------------------------------------------
(* MainWindow: the list of adapters is in its place, and nothing rests half *)
(* way.                                                                     *)

(* An animation that does not run is where it was going.                   *)
AnimOK(a, b) == a \in Anims /\ a.to = Bool01(b) /\ (~a.running => a.value = a.to)

Moving(m) == m.open \/ m.visual.running

(* The popup is on the screen while the list is open or still fading.      *)
MenuOK(m) == /\ m \in Menus /\ AnimOK(m.visual, m.open)
             /\ m.popup = "shown" <=> Moving(m)

(* The invariant: an owned popup, a fade and a timer that agree.           *)
Steady ==
  /\ MenuOK(menu)
  /\ toggle \in [Toggles -> Anims] /\ \A t \in Toggles : AnimOK(toggle[t], on[t])
  /\ view # "normal" => ~Moving(menu)
  /\ ~timer => ~menu.visual.running /\ \A t \in Toggles : ~toggle[t].running

-----------------------------------------------------------------------------
(* Animations and the list.                                                *)

(* A value of a switch is one an animation can have.                       *)
LEMMA Levels == /\ \A b : Bool01(b) \in 0 .. Full
                /\ 0 \in 0 .. Full /\ Full \in 0 .. Full
                /\ Bool01(TRUE) = Full /\ Bool01(FALSE) = 0 /\ Full # 0
BY WindowAssumption DEF Bool01

(* A jump ends where it should.                                            *)
LEMMA Snaps == ASSUME NEW b
               PROVE  AnimOK(Snap(Bool01(b)), b) /\ ~Snap(Bool01(b)).running
BY Levels DEF AnimOK, Anims, Snap

(* So does a fade.                                                         *)
LEMMA Goes == ASSUME NEW b, NEW v \in 0 .. Full
              PROVE  AnimOK(Go(v, Bool01(b)), b)
BY Levels DEF AnimOK, Anims, Snap, Go

(* A frame shows a value on the way, or the last one.                      *)
LEMMA Advances == ASSUME NEW b, NEW a, AnimOK(a, b), NEW n \in Advance(a)
                  PROVE  AnimOK(n, b) /\ (~a.running => n = a)
<1>1. CASE ~a.running
  BY <1>1 DEF Advance
<1>2. CASE n = Snap(a.to)
  BY <1>2, Levels DEF Advance, AnimOK, Anims, Snap
<1>3. CASE a.running /\ n # Snap(a.to)
  <2>1. PICK v \in (a.value .. a.to) \cup (a.to .. a.value) : n = [a EXCEPT !.value = v]
    BY <1>3 DEF Advance
  <2>2. v \in 0 .. Full
    BY WindowAssumption DEF AnimOK, Anims
  <2> QED
    BY <1>3, <2>1, <2>2 DEF AnimOK, Anims
<1> QED
  BY <1>1, <1>2, <1>3

(* dismiss_combo leaves a list that is closed.                             *)
LEMMA Dismissed == ASSUME NEW m \in Menus
                   PROVE  MenuOK(DismissCombo(m)) /\ ~Moving(DismissCombo(m))
BY Levels DEF MenuOK, Moving, AnimOK, Menus, Anims, DismissCombo, Hidden, Snap, Bool01

(* show_combo_popup shows a list that is open or fading, or gives it up.    *)
LEMMA PopupShows ==
  ASSUME NEW m \in Menus, AnimOK(m.visual, m.open), m.popup = "shown" => Moving(m),
         NEW n \in ShowPopup(m)
  PROVE  MenuOK(n) /\ (n.visual.running => m.visual.running) /\ (Moving(n) => Moving(m))
<1>1. CASE ~Moving(m)
  BY <1>1 DEF ShowPopup, Moving, MenuOK
<1>2. CASE Moving(m) /\ n = [m EXCEPT !.popup = "shown"]
  BY <1>2 DEF Moving, MenuOK, Menus
<1>3. CASE n = DismissCombo(m)
  BY <1>3, Dismissed DEF Moving
<1> QED
  BY <1>1, <1>2, <1>3 DEF ShowPopup, Moving

(* close_combo fades the list out.                                         *)
LEMMA Closing == ASSUME NEW m, MenuOK(m)
                 PROVE  MenuOK(CloseCombo(m))
<1>1. CASE ~m.open
  BY <1>1 DEF CloseCombo
<1>2. CASE m.open
  <2> DEFINE c == [m EXCEPT !.open = FALSE, !.visual = Go(m.visual.value, 0)]
  <2>1. AnimOK(Go(m.visual.value, 0), FALSE) /\ Go(m.visual.value, 0) \in Anims
    BY Goes, Levels DEF MenuOK, Menus, Anims, AnimOK
  <2>2. c \in Menus /\ ~c.open /\ AnimOK(c.visual, c.open) /\ m.popup = "shown" /\ c.popup = m.popup
    BY <1>2, <2>1 DEF MenuOK, Menus, Moving
  <2>3. CloseCombo(m) = IF c.visual.running THEN c ELSE Hidden(c)
    BY <1>2 DEF CloseCombo
  <2> HIDE DEF c
  <2>4. CASE c.visual.running
    BY <2>2, <2>3, <2>4 DEF MenuOK, Moving
  <2>5. CASE ~c.visual.running
    BY <2>2, <2>3, <2>5 DEF MenuOK, Moving, Menus, Hidden
  <2> QED
    BY <2>4, <2>5
<1> QED
  BY <1>1, <1>2

(* start_anim_timer: with a timer everything may move, without one it rests. *)
LEMMA TimerStarts ==
  ASSUME NEW ms, \A m \in ms : MenuOK(m),
         NEW ts \in [Toggles -> Anims], NEW flags \in [Toggles -> BOOLEAN],
         \A t \in Toggles : AnimOK(ts[t], flags[t]),
         StartTimer(ms, ts, flags)
  PROVE  /\ MenuOK(menu')
         /\ toggle' \in [Toggles -> Anims] /\ \A t \in Toggles : AnimOK(toggle'[t], flags[t])
         /\ ~timer' => ~menu'.visual.running /\ \A t \in Toggles : ~toggle'[t].running
<1>1. CASE timer' = TRUE /\ menu' \in ms /\ toggle' = ts
  BY <1>1
<1>2. CASE /\ toggle' = [t \in Toggles |-> Snap(Bool01(flags[t]))]
           /\ \E m \in ms : menu' \in IF m.open THEN ShowPopup([m EXCEPT !.visual = Snap(Full)])
                                      ELSE {DismissCombo(m)}
  <2>1. /\ toggle' \in [Toggles -> Anims]
        /\ \A t \in Toggles : AnimOK(toggle'[t], flags[t]) /\ ~toggle'[t].running
    <3>1. \A t \in Toggles : AnimOK(Snap(Bool01(flags[t])), flags[t]) /\ ~Snap(Bool01(flags[t])).running
      BY Snaps
    <3>2. \A t \in Toggles : Snap(Bool01(flags[t])) \in Anims
      BY <3>1 DEF AnimOK
    <3> QED
      BY <1>2, <3>1, <3>2
  <2>2. PICK m \in ms : menu' \in IF m.open THEN ShowPopup([m EXCEPT !.visual = Snap(Full)])
                                  ELSE {DismissCombo(m)}
    BY <1>2
  <2>3. MenuOK(menu') /\ ~menu'.visual.running
    <3>1. CASE ~m.open
      BY <2>2, <3>1, Dismissed DEF MenuOK, Moving
    <3>2. CASE m.open
      <4> DEFINE c == [m EXCEPT !.visual = Snap(Full)]
      <4>1. AnimOK(Snap(Full), TRUE) /\ ~Snap(Full).running
        BY Snaps, Levels
      <4>2. c \in Menus /\ c.open /\ AnimOK(c.visual, c.open) /\ ~c.visual.running
        BY <3>2, <4>1 DEF MenuOK, Menus, AnimOK
      <4>3. menu' \in ShowPopup(c)
        BY <2>2, <3>2
      <4> HIDE DEF c
      <4> QED
        BY <4>2, <4>3, PopupShows DEF Moving
    <3> QED
      BY <3>1, <3>2
  <2> QED
    BY <2>1, <2>3
<1> QED
  BY <1>1, <1>2 DEF StartTimer

(* The list is closed because something else happened.                     *)
LEMMA Closes ==
  ASSUME WindowTypeOK, Steady, Close
  PROVE  /\ MenuOK(menu')
         /\ toggle' \in [Toggles -> Anims] /\ \A t \in Toggles : AnimOK(toggle'[t], on[t])
         /\ ~timer' => ~menu'.visual.running /\ \A t \in Toggles : ~toggle'[t].running
         /\ timer' \in BOOLEAN
<1>1. CASE menu.open
  <2>1. StartTimer({CloseCombo(menu)}, toggle, on)
    BY <1>1 DEF Close
  <2>2. timer' \in BOOLEAN
    BY <2>1 DEF StartTimer, WindowTypeOK
  <2> QED
    BY <2>1, <2>2, Closing, TimerStarts DEF Steady, WindowTypeOK
<1>2. CASE ~menu.open
  BY <1>2 DEF Close, Steady, WindowTypeOK
<1> QED
  BY <1>1, <1>2

-----------------------------------------------------------------------------
(* The messages that change the list, the switches or the view; the others *)
(* leave Steady alone.                                                     *)

(* What is left of the types once Steady is known.                         *)
Rest == /\ view \in {"hidden", "normal", "minimized", "gone"}
        /\ on \in [Toggles -> BOOLEAN] /\ timer \in BOOLEAN
        /\ display \in Displays /\ laid \in Displays
        /\ pending \in BOOLEAN /\ posted \in 0 .. MaxPosted /\ lost \in BOOLEAN

(* While the list is steady the type invariant is about the rest of the window only. *)
LEMMA Types == /\ Steady => (WindowTypeOK <=> Rest)
               /\ Steady' => (WindowTypeOK' <=> Rest')
BY DEF Steady, MenuOK, WindowTypeOK, Rest

(* A list that is dismissed, whatever the view becomes.                    *)
LEMMA DismissSteady ==
  ASSUME Steady, Dismiss, UNCHANGED on
  PROVE  Steady'
BY Dismissed DEF Steady, MenuOK, Dismiss, DismissCombo, Hidden, Snap, Moving

(* The list closes, and the window is where it was.                        *)
LEMMA CloseSteady ==
  ASSUME WindowTypeOK, Steady, Close, menu.open, UNCHANGED <<on, view>>
  PROVE  Steady' /\ timer' \in BOOLEAN
<1>1. view = "normal"
  BY DEF Steady, Moving
<1> QED
  BY <1>1, Closes DEF Steady

(* A click on the list opens or closes it.                                 *)
LEMMA ClickComboSteady ==
  ASSUME WindowTypeOK, Steady, ClickCombo
  PROVE  Steady' /\ timer' \in BOOLEAN
<1>1. CASE menu.open
  BY <1>1, CloseSteady DEF ClickCombo
<1>2. CASE ~menu.open
  <2> DEFINE from == menu.visual.value
             wide == [menu EXCEPT !.open = TRUE, !.visual = Snap(from)]
             Fade(m) == IF m.open THEN [m EXCEPT !.visual = Go(from, Full)] ELSE m
             ms == {Fade(m) : m \in ShowPopup(wide)}
  <2>1. StartTimer(ms, toggle, on)
    BY <1>2 DEF ClickCombo
  <2>2. from \in 0 .. Full /\ Snap(from) \in Anims
    BY DEF Steady, MenuOK, Menus, Anims, Snap
  <2>3. AnimOK(Go(from, Full), TRUE) /\ Go(from, Full) \in Anims
    BY <2>2, Goes, Levels DEF AnimOK
  <2>4. wide \in Menus /\ wide.open
    BY <2>2 DEF Steady, MenuOK, Menus
  <2>5. ASSUME NEW m \in ShowPopup(wide)
        PROVE  MenuOK(Fade(m))
    <3>1. CASE m = [wide EXCEPT !.popup = "shown"]
      BY <2>3, <2>4, <3>1 DEF MenuOK, Moving, Menus
    <3>2. CASE m = DismissCombo(wide)
      BY <2>4, <3>2, Dismissed DEF Moving
    <3> QED
      BY <2>4, <2>5, <3>1, <3>2 DEF ShowPopup
  <2>6. \A m \in ms : MenuOK(m)
    BY <2>5
  <2>7. view' = "normal" /\ on' = on /\ timer' \in BOOLEAN
    BY <2>1 DEF ClickCombo, StartTimer, WindowTypeOK
  <2> HIDE DEF ms
  <2> QED
    BY <2>1, <2>6, <2>7, TimerStarts DEF Steady, WindowTypeOK
<1> QED
  BY <1>1, <1>2

(* A click on a switch starts it, and closes the list.                     *)
LEMMA ClickToggleSteady ==
  ASSUME WindowTypeOK, Steady, NEW t \in Toggles, ClickToggle(t)
  PROVE  Steady' /\ timer' \in BOOLEAN /\ on' \in [Toggles -> BOOLEAN]
<1> DEFINE new == Go(toggle[t].value, Bool01(on'[t]))
           late == Go(SnapToggles[t].value, Bool01(on'[t]))
           moved == [toggle EXCEPT ![t] = new]
           snapped == [SnapToggles EXCEPT ![t] = late]
<1>1. on' = [on EXCEPT ![t] = ~@] /\ on' \in [Toggles -> BOOLEAN]
  BY DEF ClickToggle, WindowTypeOK
<1>2. AnimOK(new, on'[t]) /\ new \in Anims
  <2>1. toggle[t].value \in 0 .. Full
    BY DEF Steady, AnimOK, Anims
  <2> QED
    BY <2>1, Goes DEF AnimOK
<1>3. moved \in [Toggles -> Anims] /\ \A u \in Toggles : AnimOK(moved[u], on'[u])
  <2>1. \A u \in Toggles \ {t} : moved[u] = toggle[u] /\ on'[u] = on[u]
    BY <1>1 DEF WindowTypeOK, Steady
  <2>2. moved[t] = new /\ moved \in [Toggles -> Anims]
    BY <1>2 DEF Steady
  <2> QED
    BY <1>2, <2>1, <2>2 DEF Steady
<1>4. snapped \in [Toggles -> Anims] /\ \A u \in Toggles : AnimOK(snapped[u], on'[u])
  <2>1. \A u \in Toggles : SnapToggles[u] = Snap(Bool01(on[u]))
    BY DEF SnapToggles
  <2>2. \A u \in Toggles : AnimOK(SnapToggles[u], on[u]) /\ SnapToggles[u] \in Anims
    BY <2>1, Snaps DEF AnimOK
  <2>3. SnapToggles \in [Toggles -> Anims]
    BY <2>2 DEF SnapToggles
  <2>4. \A u \in Toggles \ {t} : snapped[u] = SnapToggles[u] /\ on'[u] = on[u]
    BY <1>1, <2>3 DEF WindowTypeOK
  <2>5. AnimOK(late, on'[t]) /\ late \in Anims
    <3>1. SnapToggles[t].value \in 0 .. Full
      BY <2>2 DEF Anims
    <3> QED
      BY <3>1, Goes DEF AnimOK
  <2>6. snapped[t] = late /\ snapped \in [Toggles -> Anims]
    BY <2>3, <2>5
  <2> QED
    BY <2>2, <2>4, <2>5, <2>6
<1>5. view = "normal" /\ view' = "normal"
  BY DEF ClickToggle
<1>6. MenuOK(CloseCombo(menu)) /\ MenuOK(DismissCombo(menu))
  BY Closing, Dismissed DEF Steady, MenuOK
<1>7. \/ StartTimer({CloseCombo(menu)}, moved, on')
      \/ StartTimer({DismissCombo(menu)}, snapped, on')
  BY DEF ClickToggle
<1>8. timer' \in BOOLEAN
  BY <1>7 DEF StartTimer, WindowTypeOK
<1> HIDE DEF moved, snapped
<1>9. CASE StartTimer({CloseCombo(menu)}, moved, on')
  BY <1>1, <1>3, <1>5, <1>6, <1>8, <1>9, TimerStarts DEF Steady
<1>10. CASE StartTimer({DismissCombo(menu)}, snapped, on')
  BY <1>1, <1>4, <1>5, <1>6, <1>8, <1>10, TimerStarts DEF Steady
<1> QED
  BY <1>1, <1>7, <1>8, <1>9, <1>10

(* A frame of the animations.                                              *)
LEMMA FrameSteady ==
  ASSUME WindowTypeOK, Steady, Frame
  PROVE  Steady' /\ timer' \in BOOLEAN
<1>1. toggle' \in [Toggles -> Anims] /\ \A t \in Toggles : AnimOK(toggle'[t], on[t])
  <2>1. \A t \in Toggles : AnimOK(toggle'[t], on[t])
    BY Advances DEF Frame, Steady
  <2>2. \A t \in Toggles : toggle'[t] \in Anims
    BY <2>1 DEF AnimOK
  <2>3. toggle' \in [Toggles -> UNION {Advance(toggle[t]) : t \in Toggles}]
    BY DEF Frame
  <2> QED
    BY <2>1, <2>2, <2>3
<1>2. PICK a \in Advance(menu.visual) :
        LET m == [menu EXCEPT !.visual = a]
        IN  /\ timer' = (a.running \/ \E t \in Toggles : toggle'[t].running)
            /\ menu' \in IF ~menu.visual.running THEN {m}
                         ELSE IF m.open \/ a.running THEN ShowPopup(m)
                         ELSE {Hidden(m)}
  BY DEF Frame
<1> DEFINE m == [menu EXCEPT !.visual = a]
<1>3. AnimOK(a, menu.open) /\ (~menu.visual.running => a = menu.visual)
  BY Advances DEF Steady, MenuOK
<1>4. m \in Menus /\ m.open = menu.open /\ m.visual = a /\ m.popup = menu.popup
  BY <1>3 DEF Steady, MenuOK, Menus, AnimOK
<1>5. MenuOK(menu') /\ (menu'.visual.running => a.running) /\ (Moving(menu') => Moving(menu))
  <2>1. CASE ~menu.visual.running
    <3>1. menu' = m /\ m = menu
      BY <1>2, <1>3, <2>1 DEF Steady, MenuOK, Menus
    <3> QED
      BY <1>4, <3>1 DEF Steady
  <2>2. CASE menu.visual.running /\ (m.open \/ a.running)
    <3>1. menu' \in ShowPopup(m)
      BY <1>2, <2>2
    <3>2. Moving(m) /\ Moving(menu)
      BY <1>4, <2>2 DEF Moving
    <3> HIDE DEF m
    <3> QED
      BY <1>3, <1>4, <3>1, <3>2, PopupShows
  <2>3. CASE menu.visual.running /\ ~(m.open \/ a.running)
    <3>1. menu' = Hidden(m)
      BY <1>2, <2>3
    <3> HIDE DEF m
    <3> QED
      BY <1>3, <1>4, <2>3, <3>1 DEF Hidden, MenuOK, Moving, Menus
  <2> QED
    BY <2>1, <2>2, <2>3
<1>6. view' = view /\ on' = on
  BY DEF Frame
<1>7. timer' = (a.running \/ \E t \in Toggles : toggle'[t].running)
  BY <1>2
<1>8. timer' \in BOOLEAN
  BY <1>3, <1>7, <1>1 DEF AnimOK, Anims
<1> HIDE DEF m
<1> QED
  BY <1>1, <1>5, <1>6, <1>7, <1>8 DEF Steady

(* A repaint of the popup.                                                 *)
LEMMA PaintSteady ==
  ASSUME Steady, PaintPopup
  PROVE  Steady'
<1>1. MenuOK(menu') /\ (menu'.visual.running => menu.visual.running)
      /\ (Moving(menu') => Moving(menu))
  BY PopupShows DEF PaintPopup, Steady, MenuOK
<1> QED
  BY <1>1 DEF PaintPopup, Steady

(* The window is destroyed.                                                *)
LEMMA GoneSteady ==
  ASSUME WindowTypeOK, Steady, Gone
  PROVE  Steady'
<1>1. MenuOK(menu') /\ ~Moving(menu')
  <2>1. DismissCombo(menu) \in Menus /\ MenuOK(DismissCombo(menu)) /\ ~Moving(DismissCombo(menu))
    BY Dismissed DEF Steady, MenuOK
  <2>2. menu' = [DismissCombo(menu) EXCEPT !.popup = "none"]
    BY DEF Gone
  <2> QED
    BY <2>1, <2>2 DEF MenuOK, Moving, Menus
<1>2. \A t \in Toggles : AnimOK(Snap(Bool01(on[t])), on[t]) /\ ~Snap(Bool01(on[t])).running
  BY Snaps
<1>3. /\ toggle' \in [Toggles -> Anims]
      /\ \A t \in Toggles : AnimOK(toggle'[t], on[t]) /\ ~toggle'[t].running
  BY <1>2 DEF Gone, SnapToggles, AnimOK
<1> QED
  BY <1>1, <1>3 DEF Gone, Steady, Moving

-----------------------------------------------------------------------------
(* Each message keeps Steady.                                              *)
LEMMA SteadyStep ==
  ASSUME WindowTypeOK, Steady, [WindowNext]_windowVars
  PROVE  (WindowTypeOK /\ Steady)'
<1>1. CASE ClickCombo
  <2>1. Steady'
    BY <1>1, ClickComboSteady
  <2>2. Rest'
    BY <1>1, Types, ClickComboSteady DEF ClickCombo, Layout, Rest
  <2> QED
    BY <2>1, <2>2, Types
<1>2. CASE ClickAway
  <2>1. Steady'
    BY <1>2, CloseSteady DEF ClickAway
  <2>2. Rest'
    BY <1>2, Types, CloseSteady DEF ClickAway, Layout, Rest
  <2> QED
    BY <2>1, <2>2, Types
<1>3. ASSUME NEW t \in Toggles, ClickToggle(t)
      PROVE  (WindowTypeOK /\ Steady)'
  <2>1. Steady'
    BY <1>3, ClickToggleSteady
  <2>2. Rest'
    BY <1>3, Types, ClickToggleSteady DEF ClickToggle, Layout, Rest
  <2> QED
    BY <2>1, <2>2, Types
<1>4. CASE Deactivate
  <2>1. Steady'
    BY <1>4, DismissSteady DEF Deactivate
  <2>2. Rest'
    BY <1>4, Types DEF Deactivate, Dismiss, Layout, Rest
  <2> QED
    BY <2>1, <2>2, Types
<1>5. CASE Minimize
  <2>1. Steady'
    BY <1>5, DismissSteady DEF Minimize
  <2>2. Rest'
    BY <1>5, Types DEF Minimize, Dismiss, Layout, Rest
  <2> QED
    BY <2>1, <2>2, Types
<1>6. CASE RequestClose
  <2>1. Steady'
    BY <1>6, DismissSteady, GoneSteady DEF RequestClose
  <2>2. Rest'
    <3>1. Rest
      BY Types
    <3>2. posted' \in 0 .. MaxPosted
      BY <1>6, <3>1, WindowAssumption DEF RequestClose, Gone, Dismiss, Layout, Rest
    <3>3. display' \in Displays /\ laid' \in Displays /\ view' \in {"hidden", "normal", "minimized", "gone"}
      BY <1>6, <3>1 DEF RequestClose, Gone, Dismiss, Layout, Rest
    <3>4. on' \in [Toggles -> BOOLEAN] /\ timer' \in BOOLEAN /\ pending' \in BOOLEAN /\ lost' \in BOOLEAN
      BY <1>6, <3>1 DEF RequestClose, Gone, Dismiss, Layout, Rest
    <3> QED
      BY <3>2, <3>3, <3>4 DEF Rest
  <2> QED
    BY <2>1, <2>2, Types
<1>7. CASE Escape
  <2>1. Steady'
    BY <1>7, DismissSteady, CloseSteady DEF Escape
  <2>2. Rest'
    BY <1>7, Types, DismissSteady, CloseSteady DEF Escape, Dismiss, Layout, Rest
  <2> QED
    BY <2>1, <2>2, Types
<1>8. CASE ExitWindow
  <2>1. Steady'
    BY <1>8, GoneSteady DEF ExitWindow
  <2>2. Rest'
    <3>1. Rest
      BY Types
    <3>2. posted' \in 0 .. MaxPosted
      BY <1>8, <3>1, WindowAssumption DEF ExitWindow, Gone, Rest
    <3>3. display' \in Displays /\ laid' \in Displays /\ view' \in {"hidden", "normal", "minimized", "gone"}
      BY <1>8, <3>1 DEF ExitWindow, Gone, Rest
    <3>4. on' \in [Toggles -> BOOLEAN] /\ timer' \in BOOLEAN /\ pending' \in BOOLEAN /\ lost' \in BOOLEAN
      BY <1>8, <3>1 DEF ExitWindow, Gone, Rest
    <3> QED
      BY <3>2, <3>3, <3>4 DEF Rest
  <2> QED
    BY <2>1, <2>2, Types
<1>9. CASE Frame
  <2>1. Steady'
    BY <1>9, FrameSteady
  <2>2. Rest'
    BY <1>9, Types, FrameSteady DEF Frame, Layout, Rest
  <2> QED
    BY <2>1, <2>2, Types
<1>10. CASE PaintPopup
  <2>1. Steady'
    BY <1>10, PaintSteady
  <2>2. Rest'
    BY <1>10, Types DEF PaintPopup, Layout, Rest
  <2> QED
    BY <2>1, <2>2, Types
<1>11. CASE DpiChange
  <2>1. Steady'
    BY <1>11, DismissSteady DEF DpiChange, Apply
  <2>2. Rest'
    BY <1>11, Types DEF DpiChange, Apply, Dismiss, Rest
  <2> QED
    BY <2>1, <2>2, Types
<1>12. CASE Refresh
  <2>1. Steady'
    BY <1>12, DismissSteady DEF Refresh, Apply
  <2>2. Rest'
    <3>1. Rest
      BY Types
    <3>2. posted' \in 0 .. MaxPosted
      BY <1>12, <3>1, WindowAssumption DEF Refresh, Apply, Dismiss, Rest
    <3>3. display' \in Displays /\ laid' \in Displays /\ view' \in {"hidden", "normal", "minimized", "gone"}
      BY <1>12, <3>1 DEF Refresh, Apply, Dismiss, Rest
    <3>4. on' \in [Toggles -> BOOLEAN] /\ timer' \in BOOLEAN /\ pending' \in BOOLEAN /\ lost' \in BOOLEAN
      BY <1>12, <3>1 DEF Refresh, Apply, Dismiss, Rest
    <3> QED
      BY <3>2, <3>3, <3>4 DEF Rest
  <2> QED
    BY <2>1, <2>2, Types
<1>13. CASE Open \/ ShowToConnect \/ DisplayChange \/ WindowStopped \/ UNCHANGED windowVars
  <2>1. Steady'
    BY <1>13, Types DEF Open, ShowToConnect, DisplayChange, WindowStopped, windowVars, Steady
  <2>2. Rest'
    <3>1. Rest
      BY Types
    <3>2. posted' \in 0 .. MaxPosted
      BY <1>13, <3>1, WindowAssumption DEF Open, ShowToConnect, DisplayChange, Schedule, WindowStopped, windowVars, Layout, Rest
    <3>3. display' \in Displays /\ laid' \in Displays /\ view' \in {"hidden", "normal", "minimized", "gone"}
      BY <1>13, <3>1 DEF Open, ShowToConnect, DisplayChange, Schedule, WindowStopped, windowVars, Layout, Rest
    <3>4. on' \in [Toggles -> BOOLEAN] /\ timer' \in BOOLEAN /\ pending' \in BOOLEAN /\ lost' \in BOOLEAN
      BY <1>13, <3>1 DEF Open, ShowToConnect, DisplayChange, Schedule, WindowStopped, windowVars, Layout, Rest
    <3> QED
      BY <3>2, <3>3, <3>4 DEF Rest
  <2> QED
    BY <2>1, <2>2, Types
<1> QED
  BY <1>1, <1>2, <1>3, <1>4, <1>5, <1>6, <1>7, <1>8, <1>9, <1>10, <1>11, <1>12, <1>13 DEF WindowNext

(* The list of adapters is on the screen when and only when it is open, and *)
(* its window with it, and nothing stays half way, for any number of        *)
(* switches, frames and display configurations.                            *)
THEOREM ListStaysInPlace == WindowSpec => [](WindowTypeOK /\ ListIsInPlace)
<1>1. WindowInit => WindowTypeOK /\ Steady
  <2> SUFFICES ASSUME WindowInit PROVE WindowTypeOK /\ Steady
    OBVIOUS
  <2>1. MenuOK(menu) /\ ~Moving(menu)
    BY Levels DEF WindowInit, MenuOK, Moving, Menus, AnimOK, Anims, Snap
  <2>2. \A t \in Toggles : AnimOK(Snap(Bool01(on[t])), on[t]) /\ ~Snap(Bool01(on[t])).running
    BY Snaps
  <2>3. /\ toggle \in [Toggles -> Anims]
        /\ \A t \in Toggles : AnimOK(toggle[t], on[t]) /\ ~toggle[t].running
    BY <2>2 DEF WindowInit, SnapToggles, AnimOK
  <2>4. Steady
    BY <2>1, <2>3 DEF WindowInit, Steady, Moving
  <2>5. Rest
    <3>1. posted \in 0 .. MaxPosted
      BY WindowAssumption DEF WindowInit
    <3>2. display \in Displays /\ laid \in Displays /\ view \in {"hidden", "normal", "minimized", "gone"}
      BY DEF WindowInit
    <3>3. on \in [Toggles -> BOOLEAN] /\ timer \in BOOLEAN /\ pending \in BOOLEAN /\ lost \in BOOLEAN
      BY DEF WindowInit
    <3> QED
      BY <3>1, <3>2, <3>3 DEF Rest
  <2> QED
    BY <2>4, <2>5, Types
<1>2. WindowTypeOK /\ Steady /\ [WindowNext]_windowVars => (WindowTypeOK /\ Steady)'
  BY SteadyStep
<1>3. WindowTypeOK /\ Steady => ListIsInPlace
  <2> SUFFICES ASSUME WindowTypeOK, Steady PROVE PopupHasOwner /\ AtRest
    BY DEF ListIsInPlace
  <2>1. PopupHasOwner
    BY DEF PopupHasOwner, Steady, MenuOK
  <2>2. ASSUME ~timer PROVE toggle = SnapToggles
    <3>1. \A t \in Toggles : toggle[t] = Snap(Bool01(on[t]))
      BY <2>2 DEF Steady, AnimOK, Anims, Snap
    <3> QED
      BY <3>1 DEF Steady, SnapToggles
  <2>3. ASSUME ~timer
        PROVE  menu.visual = Snap(Bool01(menu.open)) /\ (menu.popup = "shown" <=> menu.open)
    BY <2>3 DEF Steady, MenuOK, AnimOK, Anims, Snap, Moving
  <2> QED
    BY <2>1, <2>2, <2>3 DEF AtRest
<1> QED
  BY <1>1, <1>2, <1>3, PTL DEF WindowSpec

-----------------------------------------------------------------------------
(* WindowLayout.  The window fits into the screen at its scale, the list     *)
(* into what the window leaves of it, and no less than an item of the list   *)
(* is visible.  The rest is arithmetic.                                     *)

LEMMA Clamped ==
  ASSUME NEW x \in Int, NEW high \in Nat
  PROVE  Clamp(x, 0, high) \in 0 .. high
BY DEF Clamp, AtLeast, AtMost

(* What fits where.                                                         *)
Fitted ==
  /\ work.w \in Nat /\ work.h \in Nat /\ dpi \in Nat /\ dpi >= 16
  /\ S(Width) <= work.w /\ S(Height) <= work.h
  /\ top \in Nat /\ top + S(Height) <= work.h
  /\ count \in Nat \ {0}

ListFitted ==
  /\ list.y \in Nat /\ list.h \in Nat /\ list.y + list.h <= work.h
  /\ list.h - 2 * Shadow - 2 * Pad >= Item

ScrollFitted == scroll \in 0 .. MaxScroll

LayoutInv == Fitted /\ ListFitted /\ ScrollFitted

LEMMA Sizes ==
  ASSUME dpi \in Nat, dpi >= 16, count \in Nat \ {0}
  PROVE  /\ Item \in Nat /\ Item > 0 /\ Pad \in Nat /\ Shadow \in Nat
         /\ S(4) \in Nat /\ S(ComboTop) \in Nat /\ S(ComboTop + FieldHeight) \in Nat
         /\ S(Height) \in Nat /\ S(Height) >= Item + 2 * Pad + 2 * Shadow
         /\ Content \in Nat /\ Content >= Item + 2 * Pad
<1>1. /\ Item \in Nat /\ Item > 0 /\ Pad \in Nat /\ Shadow \in Nat
      /\ S(4) \in Nat /\ S(ComboTop) \in Nat /\ S(ComboTop + FieldHeight) \in Nat
  BY DEF Item, Pad, Shadow, S, Scale, ComboTop, FieldHeight
<1>2. S(Height) \in Nat /\ S(Height) >= Item + 2 * Pad + 2 * Shadow
  BY DEF S, Scale, Height, Item, Pad, Shadow
<1>3. count * Item \in Nat /\ count * Item >= Item
  <2>1. \A c, i \in Nat : c > 0 => c * i \in Nat /\ c * i >= i
    OBVIOUS
  <2>2. QED
    BY <1>1, <2>1
<1>4. QED
  BY <1>1, <1>2, <1>3 DEF Content

LEMMA ScrollRange ==
  ASSUME dpi \in Nat, dpi >= 16, count \in Nat \ {0}, ListFitted
  PROVE  /\ MaxScroll \in Nat
         /\ MaxScroll >= count * Item - (list.h - 2 * Shadow - 2 * Pad)
<1>1. list.h - 2 * Shadow \in Int /\ list.h - 2 * Shadow >= 0
  BY Sizes DEF ListFitted
<1>2. AtLeast(list.h - 2 * Shadow, 0) = list.h - 2 * Shadow
  BY <1>1 DEF AtLeast
<1>3. QED
  BY <1>1, <1>2, Sizes DEF MaxScroll, AtLeast, Content

LEMMA InitFits == LayoutInit => LayoutInv
<1> SUFFICES ASSUME LayoutInit PROVE LayoutInv
  OBVIOUS
<1>1. /\ work.w \in Nat /\ work.w >= 70 /\ work.h \in Nat /\ work.h >= 93
      /\ count \in Nat \ {0}
  BY LayoutAssumption DEF LayoutInit
<1>2. dpi \in Nat /\ dpi >= 16 /\ S(Width) <= work.w /\ S(Height) <= work.h
  <2>1. PICK d \in Scales : dpi = Effective(d, work)
    BY DEF LayoutInit
  <2>2. d \in Nat
    BY LayoutAssumption
  <2>3. /\ (work.w * 96) \div 420 >= 16 /\ (work.h * 96) \div 558 >= 16
        /\ (work.w * 96) \div 420 \in Nat /\ (work.h * 96) \div 558 \in Nat
    BY <1>1
  <2>4. dpi \in Nat /\ dpi >= 16 /\ dpi <= (work.w * 96) \div 420 /\ dpi <= (work.h * 96) \div 558
    BY <2>1, <2>2, <2>3 DEF Effective, AtMost, AtLeast, Width, Height
  <2>5. dpi * 420 <= work.w * 96 /\ dpi * 558 <= work.h * 96
    BY <1>1, <2>4
  <2>6. QED
    BY <1>1, <2>4, <2>5 DEF S, Scale, Width, Height
<1>3. top \in Nat /\ top + S(Height) <= work.h
  <2>1. PICK anchor \in {0, work.h \div 3, work.h} : top = PlaceWindow(anchor, work, dpi)
    BY DEF LayoutInit
  <2>2. anchor \in Int /\ S(Height) \in Nat
    BY <1>1, <1>2, Sizes
  <2>3. work.h - S(Height) \in Nat
    BY <1>1, <1>2, <2>2
  <2>4. top = Clamp(anchor, 0, work.h - S(Height))
    BY <2>1, <2>3 DEF PlaceWindow, AtLeast, S
  <2>5. top \in 0 .. work.h - S(Height)
    BY <2>2, <2>3, <2>4, Clamped
  <2>6. QED
    BY <1>1, <2>2, <2>5
<1>4. list = PlaceList /\ scroll = 0
  BY DEF LayoutInit
<1>5. ListFitted
  <2> DEFINE fieldTop == top + S(ComboTop)
             fieldBottom == top + S(ComboTop + FieldHeight)
             below == AtLeast(work.h - fieldBottom - S(4) - 2 * Shadow, 0)
             above == AtLeast(fieldTop - S(4) - 2 * Shadow, 0)
             down == \/ Content <= below
                     \/ Content > above /\ below >= above
             high == IF Content <= below \/ Content <= above THEN Content
                     ELSE AtLeast(IF down THEN below ELSE above, Item + 2 * Pad)
             h == AtMost(high + 2 * Shadow, work.h)
             y == IF down THEN fieldBottom + S(4) ELSE fieldTop - S(4) - high
  <2>0. list = [y |-> Clamp(y - Shadow, 0, work.h - h), h |-> h]
    BY <1>4, Zenon DEF PlaceList
  <2>1. fieldTop \in Int /\ fieldBottom \in Int
    BY <1>1, <1>2, <1>3, Sizes
  <2>2. below \in Int /\ above \in Int
    BY <1>1, <1>2, <2>1, Sizes DEF AtLeast
  <2>3. high \in Int /\ high >= Item + 2 * Pad
    BY <1>1, <1>2, <2>2, Sizes DEF AtLeast
  <2>4. h \in Int /\ h <= work.h /\ h >= Item + 2 * Pad + 2 * Shadow
    BY <1>1, <1>2, <2>3, Sizes DEF AtMost
  <2>5. y \in Int
    BY <1>1, <1>2, <2>1, <2>3, Sizes
  <2> HIDE DEF h, y
  <2>6. Clamp(y - Shadow, 0, work.h - h) \in 0 .. work.h - h
    <3>1. y - Shadow \in Int /\ work.h - h \in Nat
      BY <1>1, <1>2, <2>4, <2>5, Sizes
    <3>2. QED
      BY <3>1, Clamped
  <2>7. QED
    BY <1>1, <1>2, <2>0, <2>4, <2>6, Sizes DEF ListFitted
<1>6. ScrollFitted
  BY <1>1, <1>2, <1>4, <1>5, ScrollRange DEF ScrollFitted
<1>7. QED
  BY <1>1, <1>2, <1>3, <1>5, <1>6 DEF LayoutInv, Fitted

LEMMA NextFits == LayoutInv /\ [LayoutNext]_layoutVars => LayoutInv'
<1> SUFFICES ASSUME LayoutInv, [LayoutNext]_layoutVars PROVE LayoutInv'
  OBVIOUS
<1>1. UNCHANGED <<work, dpi, top, count, list>>
  BY DEF LayoutNext, Wheel, Press, layoutVars
<1>2. Fitted' /\ ListFitted' /\ MaxScroll' = MaxScroll
  BY <1>1 DEF LayoutInv, Fitted, ListFitted, MaxScroll, Content, Item, Pad, Shadow, S
<1>3. scroll' \in 0 .. MaxScroll
  <2>0. MaxScroll \in Nat /\ Item \in Nat /\ scroll \in Nat
    BY ScrollRange, Sizes DEF LayoutInv, Fitted, ScrollFitted
  <2>1. ASSUME NEW turns \in {-3, -1, 1}, Wheel(turns) PROVE scroll' \in 0 .. MaxScroll
    <3>1. scroll - turns * Item \in Int
      BY <2>0
    <3>2. AtLeast(scroll - turns * Item, 0) \in Nat
      BY <3>1 DEF AtLeast
    <3>3. QED
      BY <2>0, <2>1, <3>2 DEF Wheel, AtMost
  <2>2. ASSUME NEW y \in Edges, Press(y) PROVE scroll' \in 0 .. MaxScroll
    BY <2>0, <2>2 DEF Press
  <2>3. CASE UNCHANGED layoutVars
    BY <2>3 DEF layoutVars, LayoutInv, ScrollFitted
  <2>4. QED
    BY <2>1, <2>2, <2>3 DEF LayoutNext
<1>4. QED
  BY <1>2, <1>3 DEF LayoutInv, ScrollFitted

(* What is where: division finds the item that a point belongs to.          *)
LEMMA Products ==
  ASSUME NEW i \in Int, NEW q \in Int, NEW d \in Nat, d > 0, NEW a \in Int,
         i * d <= a, a < (i + 1) * d, q * d <= a, a < (q + 1) * d
  PROVE  i = q
<1>1. ASSUME NEW s \in Int, NEW t \in Int, s < t, s * d <= a, a < (s + 1) * d, t * d <= a
      PROVE  FALSE
  <2>1. PICK k \in Nat : t = s + 1 + k
    <3>1. t - s - 1 \in Nat /\ t = s + 1 + (t - s - 1)
      BY <1>1
    <3>2. QED
      BY <3>1
  <2>2. t * d = (s + 1) * d + k * d
    BY <2>1
  <2>3. k * d >= 0 /\ k * d \in Int /\ (s + 1) * d \in Int
    BY <2>1
  <2>4. QED
    BY <1>1, <2>2, <2>3
<1>2. QED
  BY <1>1

LEMMA Quotient ==
  ASSUME NEW a \in Nat, NEW d \in Nat, d > 0
  PROVE  a \div d \in Nat /\ (a \div d) * d <= a /\ a < ((a \div d) + 1) * d
OBVIOUS

LEMMA InvTypes ==
  ASSUME LayoutInv
  PROVE  /\ Item \in Nat /\ Item > 0 /\ Pad \in Nat /\ Shadow \in Nat
         /\ count \in Nat /\ count > 0 /\ scroll \in Nat /\ list.h \in Nat
         /\ MaxScroll \in Nat /\ scroll <= MaxScroll
BY Sizes, ScrollRange DEF LayoutInv, Fitted, ListFitted, ScrollFitted

LEMMA ItemIsHit ==
  ASSUME LayoutInv, NEW y \in Int
  PROVE  LET under == {i \in 0 .. count - 1 :
                         /\ Painted(i) /\ InClip(y)
                         /\ ItemTop(i) <= y /\ y < ItemTop(i) + Item}
         IN  IF under = {} THEN ItemAt(y) = -1 ELSE under = {ItemAt(y)}
<1> DEFINE under == {i \in 0 .. count - 1 :
                       /\ Painted(i) /\ InClip(y)
                       /\ ItemTop(i) <= y /\ y < ItemTop(i) + Item}
           a == y - Shadow + scroll - Pad
           q == a \div Item
<1> USE InvTypes
<1>1. CASE ~InClip(y)
  BY <1>1 DEF ItemAt
<1>2. CASE InClip(y)
  <2>1. a \in Nat /\ y - Shadow + scroll >= Pad
    BY <1>2 DEF InClip
  <2>2. q \in Nat /\ q * Item <= a /\ a < (q + 1) * Item
    BY <2>1, Quotient
  <2> HIDE DEF q
  <2>3. ASSUME NEW i \in 0 .. count - 1
        PROVE  (i \in under) <=> (i = q)
    <3>1. i * Item \in Int /\ (i + 1) * Item = i * Item + Item
      OBVIOUS
    <3>2. (ItemTop(i) <= y /\ y < ItemTop(i) + Item) <=> (i * Item <= a /\ a < (i + 1) * Item)
      BY <3>1 DEF ItemTop
    <3>3. (i * Item <= a /\ a < (i + 1) * Item) <=> i = q
      BY <2>1, <2>2, Products
    <3>4. ItemTop(i) <= y /\ y < ItemTop(i) + Item => Painted(i)
      BY <1>2, <3>1 DEF Painted, InClip, ItemTop
    <3>5. QED
      BY <1>2, <3>2, <3>3, <3>4
  <2>4. ItemAt(y) = IF q \in 0 .. count - 1 THEN q ELSE -1
    BY <1>2, <2>1 DEF ItemAt, q
  <2>5. CASE q \in 0 .. count - 1
    <3>1. under = {q}
      BY <2>3, <2>5
    <3>2. QED
      BY <2>4, <2>5, <3>1
  <2>6. CASE q \notin 0 .. count - 1
    <3>1. under = {}
      BY <2>3, <2>6
    <3>2. QED
      BY <2>4, <2>6, <3>1
  <2>7. QED
    BY <2>5, <2>6
<1>3. QED
  BY <1>1, <1>2

LEMMA ItemIsReached ==
  ASSUME LayoutInv, NEW i \in 0 .. count - 1
  PROVE  \E turns \in 0 .. count : Inside(i, AtMost(turns * Item, MaxScroll))
<1> USE InvTypes
<1>1. i \in 0 .. count
  OBVIOUS
<1>2. /\ i * Item \in Int /\ (i + 1) * Item = i * Item + Item
      /\ count * Item \in Int /\ (i + 1) * Item <= count * Item
  <2>1. PICK k \in Nat : count = i + 1 + k
    <3>1. count - i - 1 \in Nat /\ count = i + 1 + (count - i - 1)
      OBVIOUS
    <3>2. QED
      BY <3>1
  <2>2. count * Item = (i + 1) * Item + k * Item
    BY <2>1
  <2>3. k * Item >= 0 /\ k * Item \in Int /\ (i + 1) * Item \in Int
    BY <2>1
  <2>4. QED
    BY <2>2, <2>3
<1>3. MaxScroll >= count * Item - (list.h - 2 * Shadow - 2 * Pad)
  BY ScrollRange DEF LayoutInv, Fitted
<1>4. list.h - 2 * Shadow - 2 * Pad >= Item
  BY DEF LayoutInv, ListFitted
<1>5. Inside(i, AtMost(i * Item, MaxScroll))
  BY <1>2, <1>3, <1>4 DEF Inside, AtMost
<1>6. QED
  BY <1>1, <1>5

LEMMA ZonesApart ==
  ASSUME dpi \in Nat, dpi >= 16, NEW a \in DOMAIN Zones, NEW b \in DOMAIN Zones, a # b,
         {a, b} \notin Neighbours
  PROVE  Apart(Zones[a], Zones[b])
BY DEF Zones, Neighbours, Apart, Rect, EyeHit, S, Scale, PassTop, FieldHeight, ComboTop,
   ToggleTop, ToggleSecondTop, ActionTop, ActionBottom, TitleHeight

(* Whatever the display, the screen and the number of adapters: the window  *)
(* and the list are on the screen, a click chooses what is painted under it, *)
(* each item can be scrolled into view, and no two controls claim a point.   *)
THEOREM GeometryHolds == LayoutSpec => []LayoutIsUsable
<1>1. LayoutInv => LayoutIsUsable
  <2> SUFFICES ASSUME LayoutInv PROVE LayoutIsUsable
    OBVIOUS
  <2>1. ListIsUsable
    BY ItemIsHit, ItemIsReached, InvTypes DEF ListIsUsable
  <2>2. EverythingFits
    BY ZonesApart DEF EverythingFits, LayoutInv, Fitted, ListFitted, ScrollFitted, S
  <2>3. QED
    BY <2>1, <2>2 DEF LayoutIsUsable
<1>2. QED
  BY <1>1, InitFits, NextFits, PTL DEF LayoutSpec

-----------------------------------------------------------------------------
(* UserSettings, for any secrets and adapters: what is kept, what is        *)
(* forgotten, and the scheduled task.                                       *)

(* What is saved of settings are settings, without a secret nobody asked to    *)
(* keep.                                                                      *)
LEMMA PersistedSettings ==
  ASSUME NEW s \in Settings
  PROVE  /\ ForPersistence(s) \in Settings
         /\ ForPersistence(s).remember \/ ForPersistence(s).secret = Empty
         /\ ForPersistence(s).startup = s.startup
BY DEF Settings, ForPersistence

(* What the window shows are settings.                                        *)
LEMMA CapturedSettings ==
  ASSUME SettingsTypeOK
  PROVE  Capture \in Settings
BY DEF SettingsTypeOK, Settings, Capture

(* The adapter the list shows is one that is there, or none.                   *)
LEMMA SelectedAdapter ==
  ASSUME NEW saved, NEW present \in SUBSET Adapters, NEW routed \in SUBSET present
  PROVE  Select(saved, present, routed) \in Adapters \cup {Automatic}
<1>1. CASE saved \in present
  BY <1>1 DEF Select
<1>2. CASE saved \notin present /\ Cardinality(routed) = 1
  <2>1. CASE routed = {}
    BY <2>1, <1>2, FS_EmptySet
  <2>2. CASE routed # {}
    BY <2>2, <1>2 DEF Select
  <2> QED
    BY <2>1, <2>2
<1>3. CASE saved \notin present /\ Cardinality(routed) # 1
  <2>1. Select(saved, present, routed) = Automatic
    BY <1>3 DEF Select
  <2> QED
    BY <2>1
<1> QED
  BY <1>1, <1>2, <1>3

-----------------------------------------------------------------------------
(* The settings of a first start are settings.                                *)
LEMMA DefaultSettings == Default \in Settings
BY DEF Default, Settings

(* What is written of the plain file, and has been when it is removed.         *)
Converting ==
  /\ step = "save:convert" => plain \in Settings /\ temp = ForPersistence(plain)
  /\ step = "remove" => plain \in Settings /\ stored = ForPersistence(plain)

(* Each step keeps the types.                                                 *)
LEMMA TypeStep ==
  ASSUME SettingsTypeOK, Converting, [SettingsNext]_settingsVars
  PROVE  SettingsTypeOK'
<1>1. CASE LaunchGui
  BY <1>1, PersistedSettings, CapturedSettings, DefaultSettings
     DEF LaunchGui, FirstInstance, Default, SettingsTypeOK, disk, fields, past
<1>2. CASE Uninitialised
  BY <1>2, PersistedSettings, CapturedSettings, DefaultSettings
     DEF Uninitialised, SettingsTypeOK, disk, fields, past
<1>3. CASE MigrateUserData
  BY <1>3, PersistedSettings, CapturedSettings, DefaultSettings
     DEF MigrateUserData, SettingsTypeOK, disk, fields, past
<1>4. CASE CopyDone
  BY <1>4, PersistedSettings, CapturedSettings, DefaultSettings
     DEF CopyDone, SettingsTypeOK, disk, fields, past
<1>5. CASE Load
  BY <1>5, PersistedSettings, CapturedSettings, DefaultSettings
     DEF Load, Unreadable, SettingsTypeOK, disk, fields, past
<1>6. CASE ConvertSaved
  BY <1>6, PersistedSettings, CapturedSettings, DefaultSettings
     DEF ConvertSaved, Rename, SaveFails, SettingsTypeOK, disk, fields, past
<1>7. CASE RemovePlain
  <2>1. stored \in Settings
    BY <1>7, PersistedSettings DEF RemovePlain, Converting
  <2> QED
    BY <1>7, <2>1 DEF RemovePlain, SettingsTypeOK, past
<1>8. CASE ShowSettings
  <2>1. mem.secret \in Secrets \cup {Empty}
    BY DEF SettingsTypeOK, Settings
  <2>2. pick' \in Adapters \cup {Automatic}
    BY <1>8, SelectedAdapter DEF ShowSettings, Enumerations
  <2>3. degraded' \in BOOLEAN
    BY <1>8 DEF ShowSettings, SettingsTypeOK
  <2>4. text' \in Secrets \cup {Empty}
    BY <1>8, <2>1 DEF ShowSettings, SettingsTypeOK
  <2>5. UNCHANGED <<disk, nested, mem, enabled, touched, report>>
    BY <1>8 DEF ShowSettings
  <2> QED
    BY <2>2, <2>3, <2>4, <2>5 DEF SettingsTypeOK, disk
<1>9. CASE CheckSystem
  BY <1>9, PersistedSettings, CapturedSettings, DefaultSettings
     DEF CheckSystem, Schtasks, Results, SettingsTypeOK, disk, fields, past
<1>10. CASE CloseBox
  BY <1>10, PersistedSettings, CapturedSettings, DefaultSettings
     DEF CloseBox, Boxes, SettingsTypeOK, disk, fields, past
<1>11. CASE Edit
  <2>1. /\ [mem EXCEPT !.remember = ~@] \in Settings
        /\ [mem EXCEPT !.startup = ~@] \in Settings
    BY DEF SettingsTypeOK, Settings
  <2> QED
    BY <1>11, <2>1 DEF Edit, SettingsTypeOK, disk
<1>12. CASE Connect
  BY <1>12, PersistedSettings, CapturedSettings, DefaultSettings
     DEF Connect, SettingsTypeOK, disk, fields, past
<1>13. CASE ConnectSaved
  BY <1>13, PersistedSettings, CapturedSettings, DefaultSettings
     DEF ConnectSaved, Rename, SaveFails, SettingsTypeOK, disk, fields, past
<1>14. CASE ConnectTask
  <2>1. mem.startup \in BOOLEAN /\ mem.remember \in BOOLEAN
    BY DEF SettingsTypeOK, Settings
  <2> QED
    BY <1>14, <2>1, CapturedSettings DEF ConnectTask, Schtasks, Results, SettingsTypeOK, disk, fields, past
<1>15. CASE BeginExit
  BY <1>15, PersistedSettings, CapturedSettings, DefaultSettings
     DEF BeginExit, Boxes, SettingsTypeOK, disk, fields, past
<1>16. CASE ExitSaved
  BY <1>16, PersistedSettings, CapturedSettings, DefaultSettings
     DEF ExitSaved, Rename, SaveFails, SettingsTypeOK, disk, fields, past
<1>17. CASE ExitTask
  <2>1. mem.startup \in BOOLEAN /\ mem.remember \in BOOLEAN
    BY DEF SettingsTypeOK, Settings
  <2> QED
    BY <1>17, <2>1, CapturedSettings DEF ExitTask, Schtasks, Results, Told, SettingsTypeOK, disk, fields, past
<1>18. CASE Undefined
  BY <1>18, PersistedSettings, CapturedSettings, DefaultSettings
     DEF Undefined, SettingsTypeOK, disk, fields, past
<1>19. CASE GuiDies
  BY <1>19, PersistedSettings, CapturedSettings, DefaultSettings
     DEF GuiDies, SettingsTypeOK, disk, fields, past
<1>20. CASE UNCHANGED settingsVars
  BY <1>20 DEF settingsVars, disk, fields, past, SettingsTypeOK
<1> QED
  BY <1>1, <1>2, <1>3, <1>4, <1>5, <1>6, <1>7, <1>8, <1>9, <1>10, <1>11, <1>12,
     <1>13, <1>14, <1>15, <1>16, <1>17, <1>18, <1>19, <1>20 DEF SettingsNext

(* Each step keeps the account of the conversion.                             *)
LEMMA ConvertingStep ==
  ASSUME SettingsTypeOK, Converting, [SettingsNext]_settingsVars
  PROVE  Converting'
<1>1. CASE LaunchGui
  BY <1>1, FileAssumption
     DEF LaunchGui, FirstInstance, Converting, SettingsTypeOK, disk, fields, past
<1>2. CASE Uninitialised
  BY <1>2, FileAssumption
     DEF Uninitialised, Converting, SettingsTypeOK, disk, fields, past
<1>3. CASE MigrateUserData
  BY <1>3, FileAssumption
     DEF MigrateUserData, Converting, SettingsTypeOK, disk, fields, past
<1>4. CASE CopyDone
  BY <1>4, FileAssumption
     DEF CopyDone, Converting, SettingsTypeOK, disk, fields, past
<1>5. CASE Load
  BY <1>5, FileAssumption
     DEF Load, Unreadable, Converting, SettingsTypeOK, disk, fields, past
<1>6. CASE ConvertSaved
  BY <1>6, FileAssumption
     DEF ConvertSaved, Rename, SaveFails, Converting, SettingsTypeOK, disk,
         fields, past
<1>7. CASE RemovePlain
  BY <1>7, FileAssumption
     DEF RemovePlain, Converting, SettingsTypeOK, disk, fields, past
<1>8. CASE ShowSettings
  BY <1>8, FileAssumption
     DEF ShowSettings, Converting, SettingsTypeOK, disk, fields, past
<1>9. CASE CheckSystem
  BY <1>9, FileAssumption
     DEF CheckSystem, Schtasks, Results, Converting, SettingsTypeOK, disk, fields, past
<1>10. CASE CloseBox
  BY <1>10, FileAssumption
     DEF CloseBox, Boxes, Converting, SettingsTypeOK, disk, fields, past
<1>11. CASE Edit
  BY <1>11, FileAssumption
     DEF Edit, Converting, SettingsTypeOK, disk, fields, past
<1>12. CASE Connect
  BY <1>12, FileAssumption
     DEF Connect, Converting, SettingsTypeOK, disk, fields, past
<1>13. CASE ConnectSaved
  BY <1>13, FileAssumption
     DEF ConnectSaved, Rename, SaveFails, Converting, SettingsTypeOK, disk,
         fields, past
<1>14. CASE ConnectTask
  BY <1>14, FileAssumption
     DEF ConnectTask, Schtasks, Results, Converting, SettingsTypeOK, disk, fields, past
<1>15. CASE BeginExit
  BY <1>15, FileAssumption
     DEF BeginExit, Boxes, Converting, SettingsTypeOK, disk, fields, past
<1>16. CASE ExitSaved
  BY <1>16, FileAssumption
     DEF ExitSaved, Rename, SaveFails, Converting, SettingsTypeOK, disk, fields,
         past
<1>17. CASE ExitTask
  BY <1>17, FileAssumption
     DEF ExitTask, Schtasks, Results, Told, Converting, SettingsTypeOK, disk, fields, past
<1>18. CASE Undefined
  BY <1>18, FileAssumption
     DEF Undefined, Converting, SettingsTypeOK, disk, fields, past
<1>19. CASE GuiDies
  BY <1>19, FileAssumption
     DEF GuiDies, Converting, SettingsTypeOK, disk, fields, past
<1>20. CASE UNCHANGED settingsVars
  BY <1>20 DEF settingsVars, disk, fields, past, Converting, SettingsTypeOK
<1> QED
  BY <1>1, <1>2, <1>3, <1>4, <1>5, <1>6, <1>7, <1>8, <1>9, <1>10, <1>11, <1>12,
     <1>13, <1>14, <1>15, <1>16, <1>17, <1>18, <1>19, <1>20 DEF SettingsNext

(* Types, and what a conversion of the plain file has written so far.         *)
LEMMA SettingsInvariant == SettingsSpec => [](SettingsTypeOK /\ Converting)
<1>1. SettingsInit => SettingsTypeOK /\ Converting
  <2> SUFFICES ASSUME SettingsInit PROVE SettingsTypeOK /\ Converting
    OBVIOUS
  <2>1. {stored, temp, plain, roaming} \subseteq Settings \cup {None, Bad}
    BY DEF SettingsInit, Old
  <2>2. /\ {task, nested, enabled, touched, degraded} \subseteq BOOLEAN
        /\ report \in {"none", "done", "unasked"}
    BY DEF SettingsInit
  <2> QED
    BY <2>1, <2>2, DefaultSettings DEF SettingsInit, SettingsTypeOK, Converting
<1>2. SettingsTypeOK /\ Converting /\ [SettingsNext]_settingsVars => (SettingsTypeOK /\ Converting)'
  BY TypeStep, ConvertingStep
<1> QED
  BY <1>1, <1>2, PTL DEF SettingsSpec

(* Every reachable state is well typed, for any secrets and adapters.         *)
THEOREM SettingsTypeCorrect == SettingsSpec => []SettingsTypeOK
BY SettingsInvariant, PTL

-----------------------------------------------------------------------------
(* No file on the way to the settings file, and not the settings file itself, *)
(* keeps a secret against its own setting.                                    *)
Forgets(f) == f \in Settings => f.remember \/ f.secret = Empty

Forgotten == Forgets(stored) /\ Forgets(temp) /\ Forgets(roaming)

(* Each step keeps it so.                                                     *)
LEMMA ForgottenStep ==
  ASSUME SettingsTypeOK, Forgotten, [SettingsNext]_settingsVars
  PROVE  Forgotten'
<1>1. CASE LaunchGui
  BY <1>1, FileAssumption, PersistedSettings, CapturedSettings
     DEF LaunchGui, FirstInstance, Forgotten, Forgets, SettingsTypeOK, disk, fields, past
<1>2. CASE Uninitialised
  BY <1>2, FileAssumption, PersistedSettings, CapturedSettings
     DEF Uninitialised, Forgotten, Forgets, SettingsTypeOK, disk, fields, past
<1>3. CASE MigrateUserData
  BY <1>3, FileAssumption, PersistedSettings, CapturedSettings
     DEF MigrateUserData, Forgotten, Forgets, SettingsTypeOK, disk, fields, past
<1>4. CASE CopyDone
  BY <1>4, FileAssumption, PersistedSettings, CapturedSettings
     DEF CopyDone, Forgotten, Forgets, SettingsTypeOK, disk, fields, past
<1>5. CASE Load
  BY <1>5, FileAssumption, PersistedSettings, CapturedSettings
     DEF Load, Unreadable, Forgotten, Forgets, SettingsTypeOK, disk, fields, past
<1>6. CASE ConvertSaved
  BY <1>6, FileAssumption, PersistedSettings, CapturedSettings
     DEF ConvertSaved, Rename, SaveFails, Forgotten, Forgets, SettingsTypeOK,
         disk, fields, past
<1>7. CASE RemovePlain
  BY <1>7, FileAssumption, PersistedSettings, CapturedSettings
     DEF RemovePlain, Forgotten, Forgets, SettingsTypeOK, disk, fields, past
<1>8. CASE ShowSettings
  BY <1>8, FileAssumption, PersistedSettings, CapturedSettings
     DEF ShowSettings, Forgotten, Forgets, SettingsTypeOK, disk, fields, past
<1>9. CASE CheckSystem
  BY <1>9, FileAssumption, PersistedSettings, CapturedSettings
     DEF CheckSystem, Schtasks, Results, Forgotten, Forgets, SettingsTypeOK, disk,
         fields, past
<1>10. CASE CloseBox
  BY <1>10, FileAssumption, PersistedSettings, CapturedSettings
     DEF CloseBox, Boxes, Forgotten, Forgets, SettingsTypeOK, disk, fields, past
<1>11. CASE Edit
  BY <1>11, FileAssumption, PersistedSettings, CapturedSettings
     DEF Edit, Forgotten, Forgets, SettingsTypeOK, disk, fields, past
<1>12. CASE Connect
  BY <1>12, FileAssumption, PersistedSettings, CapturedSettings
     DEF Connect, Forgotten, Forgets, SettingsTypeOK, disk, fields, past
<1>13. CASE ConnectSaved
  BY <1>13, FileAssumption, PersistedSettings, CapturedSettings
     DEF ConnectSaved, Rename, SaveFails, Forgotten, Forgets, SettingsTypeOK,
         disk, fields, past
<1>14. CASE ConnectTask
  BY <1>14, FileAssumption, PersistedSettings, CapturedSettings
     DEF ConnectTask, Schtasks, Results, Forgotten, Forgets, SettingsTypeOK, disk,
         fields, past
<1>15. CASE BeginExit
  BY <1>15, FileAssumption, PersistedSettings, CapturedSettings
     DEF BeginExit, Boxes, Forgotten, Forgets, SettingsTypeOK, disk, fields,
         past
<1>16. CASE ExitSaved
  BY <1>16, FileAssumption, PersistedSettings, CapturedSettings
     DEF ExitSaved, Rename, SaveFails, Forgotten, Forgets, SettingsTypeOK, disk,
         fields, past
<1>17. CASE ExitTask
  BY <1>17, FileAssumption, PersistedSettings, CapturedSettings
     DEF ExitTask, Schtasks, Results, Told, Forgotten, Forgets, SettingsTypeOK, disk, fields,
         past
<1>18. CASE Undefined
  BY <1>18, FileAssumption, PersistedSettings, CapturedSettings
     DEF Undefined, Forgotten, Forgets, SettingsTypeOK, disk, fields, past
<1>19. CASE GuiDies
  BY <1>19, FileAssumption, PersistedSettings, CapturedSettings
     DEF GuiDies, Forgotten, Forgets, SettingsTypeOK, disk, fields, past
<1>20. CASE UNCHANGED settingsVars
  BY <1>20 DEF settingsVars, disk, fields, past, Forgotten, Forgets,
     SettingsTypeOK
<1> QED
  BY <1>1, <1>2, <1>3, <1>4, <1>5, <1>6, <1>7, <1>8, <1>9, <1>10, <1>11, <1>12,
     <1>13, <1>14, <1>15, <1>16, <1>17, <1>18, <1>19, <1>20 DEF SettingsNext

(* Whoever switches "remember the password" off finds it gone from the settings *)
(* file, whatever fails or dies on the way, and also when they come from a    *)
(* plain file that still has it.                                              *)
THEOREM SecretsAreForgotten == SettingsSpec => []SecretIsForgotten
<1>1. SettingsInit => Forgotten
  <2> SUFFICES ASSUME SettingsInit PROVE Forgotten
    OBVIOUS
  <2>1. Forgets(stored) /\ Forgets(temp)
    BY FileAssumption DEF SettingsInit, Forgets
  <2>2. Forgets(roaming)
    BY FileAssumption DEF SettingsInit, Forgets, Old
  <2> QED
    BY <2>1, <2>2 DEF Forgotten
<1>2. SettingsTypeOK /\ Forgotten /\ [SettingsNext]_settingsVars => Forgotten'
  BY ForgottenStep
<1>3. Forgotten => SecretIsForgotten
  BY DEF Forgotten, Forgets, SecretIsForgotten
<1> QED
  BY <1>1, <1>2, <1>3, SettingsInvariant, PTL DEF SettingsSpec

-----------------------------------------------------------------------------
(* What an exit writes agrees about the task.                                *)
Leaving ==
  /\ step = "save:exit" => temp \in Settings /\ temp.startup = mem.startup
  /\ report # "none" => step \in {"off", "task:exit"}
  /\ step = "task:exit" /\ report # "none" => stored \in Settings /\ stored.startup = mem.startup

(* Each step keeps it so.                                                     *)
LEMMA LeavingStep ==
  ASSUME SettingsTypeOK, Leaving, TaskFollowsSettings, [SettingsNext]_settingsVars
  PROVE  (Leaving /\ TaskFollowsSettings)'
<1>1. CASE LaunchGui
  BY <1>1
     DEF LaunchGui, FirstInstance, Leaving, TaskFollowsSettings, SettingsTypeOK, disk, fields,
         past
<1>2. CASE Uninitialised
  BY <1>2
     DEF Uninitialised, Leaving, TaskFollowsSettings, SettingsTypeOK, disk,
         fields, past
<1>3. CASE MigrateUserData
  BY <1>3
     DEF MigrateUserData, Leaving, TaskFollowsSettings, SettingsTypeOK, disk,
         fields, past
<1>4. CASE CopyDone
  BY <1>4
     DEF CopyDone, Leaving, TaskFollowsSettings, SettingsTypeOK, disk, fields,
         past
<1>5. CASE Load
  BY <1>5
     DEF Load, Unreadable, Leaving, TaskFollowsSettings, SettingsTypeOK, disk, fields, past
<1>6. CASE ConvertSaved
  BY <1>6
     DEF ConvertSaved, Rename, SaveFails, Leaving, TaskFollowsSettings,
         SettingsTypeOK, disk, fields, past
<1>7. CASE RemovePlain
  BY <1>7
     DEF RemovePlain, Leaving, TaskFollowsSettings, SettingsTypeOK, disk,
         fields, past
<1>8. CASE ShowSettings
  BY <1>8
     DEF ShowSettings, Leaving, TaskFollowsSettings, SettingsTypeOK, disk,
         fields, past
<1>9. CASE CheckSystem
  BY <1>9
     DEF CheckSystem, Schtasks, Results, Leaving, TaskFollowsSettings, SettingsTypeOK,
         disk, fields, past
<1>10. CASE CloseBox
  BY <1>10
     DEF CloseBox, Boxes, Leaving, TaskFollowsSettings, SettingsTypeOK, disk,
         fields, past
<1>11. CASE Edit
  BY <1>11
     DEF Edit, Leaving, TaskFollowsSettings, SettingsTypeOK, disk, fields, past
<1>12. CASE Connect
  BY <1>12
     DEF Connect, Leaving, TaskFollowsSettings, SettingsTypeOK, disk, fields,
         past
<1>13. CASE ConnectSaved
  BY <1>13
     DEF ConnectSaved, Rename, SaveFails, Leaving, TaskFollowsSettings,
         SettingsTypeOK, disk, fields, past
<1>14. CASE ConnectTask
  BY <1>14
     DEF ConnectTask, Schtasks, Results, Leaving, TaskFollowsSettings, SettingsTypeOK,
         disk, fields, past
<1>15. CASE BeginExit
  <2>1. /\ ForPersistence(Capture) \in Settings
        /\ ForPersistence(Capture).startup = mem.startup
    BY CapturedSettings, PersistedSettings DEF Capture
  <2> QED
    BY <1>15, <2>1 DEF BeginExit, Boxes, Leaving, TaskFollowsSettings, fields
<1>16. CASE ExitSaved
  BY <1>16
     DEF ExitSaved, Rename, SaveFails, Leaving, TaskFollowsSettings,
         SettingsTypeOK, disk, fields, past
<1>17. CASE ExitTask
  BY <1>17
     DEF ExitTask, Schtasks, Results, Told, Leaving, TaskFollowsSettings, SettingsTypeOK, disk,
         fields, past
<1>18. CASE Undefined
  BY <1>18
     DEF Undefined, Leaving, TaskFollowsSettings, SettingsTypeOK, disk, fields,
         past
<1>19. CASE GuiDies
  BY <1>19
     DEF GuiDies, Leaving, TaskFollowsSettings, SettingsTypeOK, disk, fields, past
<1>20. CASE UNCHANGED settingsVars
  BY <1>20 DEF settingsVars, disk, fields, past, Leaving, TaskFollowsSettings,
     SettingsTypeOK
<1> QED
  BY <1>1, <1>2, <1>3, <1>4, <1>5, <1>6, <1>7, <1>8, <1>9, <1>10, <1>11, <1>12,
     <1>13, <1>14, <1>15, <1>16, <1>17, <1>18, <1>19, <1>20 DEF SettingsNext

(* After an exit that was told that its writes succeeded the program starts   *)
(* with Windows whenever the saved settings say so, whatever failed or died    *)
(* before, and otherwise only when the task could not be queried.             *)
THEOREM TaskIsRight == SettingsSpec => []TaskFollowsSettings
<1>1. SettingsInit => Leaving /\ TaskFollowsSettings
  BY DEF SettingsInit, Leaving, TaskFollowsSettings
<1>2. /\ SettingsTypeOK /\ Leaving /\ TaskFollowsSettings
      /\ [SettingsNext]_settingsVars
      => (Leaving /\ TaskFollowsSettings)'
  BY LeavingStep
<1> QED
  BY <1>1, <1>2, SettingsInvariant, PTL DEF SettingsSpec

-----------------------------------------------------------------------------
(* What the window would save, unless it differs from what is saved with reason. *)
Faithful == touched \/ degraded \/ stored \notin Settings \/ ForPersistence(Capture) = stored

Showing ==
  /\ step = "copy" => stored = Bad
  /\ step = "save:convert" => stored = None
  /\ step = "box:show" => degraded
  /\ step = "show" => degraded \/ stored \notin Settings \/ mem = stored
  /\ step \in {"save:connect", "save:exit"} => temp = ForPersistence(Capture)
  /\ step \in {"check", "ready", "box:ready", "save:connect", "save:exit", "task:connect",
               "task:exit"} => Faithful

(* The window shows the settings it was given.                                 *)
LEMMA ShownIsFaithful ==
  ASSUME SettingsTypeOK, SecretIsForgotten, stored \in Settings, mem = stored, ShowSettings,
         ~degraded'
  PROVE  ForPersistence(Capture)' = stored'
<1>1. stored = [secret |-> stored.secret, remember |-> stored.remember,
                startup |-> stored.startup, adapter |-> stored.adapter]
      /\ stored.remember \in BOOLEAN
  BY DEF Settings
<1>2. pick' = stored.adapter /\ mem' = stored /\ stored' = stored
      /\ text' = IF stored.remember THEN stored.secret ELSE text
  BY DEF ShowSettings, SettingsTypeOK, disk
<1>3. Capture' = [secret |-> text', remember |-> stored.remember,
                  startup |-> stored.startup, adapter |-> stored.adapter]
  BY <1>2 DEF Capture
<1>4. CASE stored.remember
  BY <1>1, <1>2, <1>3, <1>4 DEF ForPersistence
<1>5. CASE ~stored.remember
  <2>1. stored.secret = Empty
    BY <1>5 DEF SecretIsForgotten
  <2>2. ForPersistence(Capture)' = [Capture' EXCEPT !.secret = Empty]
    BY <1>3, <1>5 DEF ForPersistence
  <2> QED
    BY <1>1, <1>2, <1>3, <2>1, <2>2
<1> QED
  BY <1>1, <1>4, <1>5

(* Each step keeps it so.                                                     *)
LEMMA ShowingStep ==
  ASSUME SettingsTypeOK, SecretIsForgotten, Showing, [SettingsNext]_settingsVars
  PROVE  Showing'
<1>1. CASE LaunchGui
  BY <1>1, FileAssumption
     DEF LaunchGui, FirstInstance, Showing, Faithful, Capture, disk, fields, past
<1>2. CASE Uninitialised
  BY <1>2, FileAssumption
     DEF Uninitialised, Showing, Faithful, Capture, disk, fields, past
<1>3. CASE MigrateUserData
  BY <1>3, FileAssumption
     DEF MigrateUserData, Showing, Faithful, Capture, disk, fields, past
<1>4. CASE CopyDone
  BY <1>4, FileAssumption
     DEF CopyDone, Showing, Faithful, Capture, disk, fields, past
<1>5. CASE Load
  BY <1>5, FileAssumption
     DEF Load, Unreadable, Showing, Faithful, Capture, disk, fields, past
<1>6. CASE ConvertSaved
  BY <1>6, FileAssumption
     DEF ConvertSaved, Rename, SaveFails, Showing, Faithful, Capture, disk,
         fields, past
<1>7. CASE RemovePlain
  BY <1>7, FileAssumption
     DEF RemovePlain, Showing, Faithful, Capture, disk, fields, past
<1>8. CASE ShowSettings
  <2>1. Faithful'
    BY <1>8, ShownIsFaithful DEF ShowSettings, Showing, Faithful, SettingsTypeOK, disk
  <2> QED
    BY <1>8, <2>1 DEF ShowSettings, Showing, disk
<1>9. CASE CheckSystem
  BY <1>9, FileAssumption
     DEF CheckSystem, Schtasks, Results, Showing, Faithful, Capture, disk, fields, past
<1>10. CASE CloseBox
  BY <1>10, FileAssumption
     DEF CloseBox, Boxes, Showing, Faithful, Capture, disk, fields, past
<1>11. CASE Edit
  BY <1>11, FileAssumption
     DEF Edit, Showing, Faithful, Capture, disk, fields, past
<1>12. CASE Connect
  BY <1>12, FileAssumption
     DEF Connect, SettingsTypeOK, Showing, Faithful, Capture, disk, fields, past
<1>13. CASE ConnectSaved
  BY <1>13, FileAssumption
     DEF ConnectSaved, Rename, SaveFails, Showing, Faithful, Capture, disk,
         fields, past
<1>14. CASE ConnectTask
  <2>1. Capture' = Capture
    BY <1>14 DEF ConnectTask, Capture
  <2> QED
    BY <1>14, <2>1 DEF ConnectTask, Showing, Faithful, past
<1>15. CASE BeginExit
  BY <1>15, FileAssumption
     DEF BeginExit, Boxes, Showing, Faithful, Capture, disk, fields, past
<1>16. CASE ExitSaved
  BY <1>16, FileAssumption
     DEF ExitSaved, Rename, SaveFails, Showing, Faithful, Capture, disk, fields,
         past
<1>17. CASE ExitTask
  BY <1>17, FileAssumption
     DEF ExitTask, Schtasks, Results, Told, Showing, Faithful, Capture, disk, fields, past
<1>18. CASE Undefined
  BY <1>18, FileAssumption
     DEF Undefined, Showing, Faithful, Capture, disk, fields, past
<1>19. CASE GuiDies
  BY <1>19, FileAssumption
     DEF GuiDies, Showing, Faithful, Capture, disk, fields, past
<1>20. CASE UNCHANGED settingsVars
  BY <1>20 DEF settingsVars, disk, fields, past, Showing, Faithful, Capture
<1> QED
  BY <1>1, <1>2, <1>3, <1>4, <1>5, <1>6, <1>7, <1>8, <1>9, <1>10, <1>11, <1>12,
     <1>13, <1>14, <1>15, <1>16, <1>17, <1>18, <1>19, <1>20 DEF SettingsNext

(* The plain file of an earlier version is removed only once the settings     *)
(* file has its contents; and a session in which the user changes nothing     *)
(* leaves what was saved as it was, unless the window could not show it.       *)
THEOREM SavedIsNotLost == SettingsSpec => SavedIsKept
<1>1. SettingsInit => Showing
  BY DEF SettingsInit, Showing
<1>2. SettingsTypeOK /\ SecretIsForgotten /\ Showing /\ [SettingsNext]_settingsVars => Showing'
  BY ShowingStep
<1>3. /\ SettingsTypeOK /\ Converting /\ Showing /\ [SettingsNext]_settingsVars
      => [OnlyCopyIsKept /\ UntouchedStaysSaved]_settingsVars
  <2> SUFFICES ASSUME SettingsTypeOK, Converting, Showing, SettingsNext
               PROVE  OnlyCopyIsKept /\ UntouchedStaysSaved
    OBVIOUS
  <2>1. OnlyCopyIsKept
    <3>1. CASE UNCHANGED plain
      BY <3>1 DEF OnlyCopyIsKept
    <3>2. CASE RemovePlain
      BY <3>2 DEF RemovePlain, Converting, OnlyCopyIsKept
    <3> QED
      BY <3>1, <3>2
         DEF SettingsNext, LaunchGui, Uninitialised, MigrateUserData, CopyDone, Load, ConvertSaved,
             ShowSettings, CheckSystem, CloseBox, Edit, Connect, ConnectSaved, ConnectTask,
             BeginExit, ExitSaved, ExitTask, Undefined, GuiDies, disk
  <2>2. UntouchedStaysSaved
    <3>1. CASE UNCHANGED stored
      BY <3>1 DEF UntouchedStaysSaved
    <3>2. CASE MigrateUserData
      BY <3>2, FileAssumption DEF MigrateUserData, UntouchedStaysSaved
    <3>3. CASE CopyDone
      BY <3>3, FileAssumption DEF CopyDone, Showing, UntouchedStaysSaved
    <3>4. CASE ConvertSaved
      BY <3>4, FileAssumption DEF ConvertSaved, Showing, UntouchedStaysSaved
    <3>5. CASE ConnectSaved \/ ExitSaved
      BY <3>5 DEF ConnectSaved, ExitSaved, Rename, SaveFails, Showing, Faithful,
                  UntouchedStaysSaved
    <3> QED
      BY <3>1, <3>2, <3>3, <3>4, <3>5
         DEF SettingsNext, LaunchGui, Uninitialised, Load, RemovePlain, ShowSettings, CheckSystem,
             CloseBox, Edit, Connect, ConnectTask, BeginExit, ExitTask, Undefined, GuiDies, disk
  <2> QED
    BY <2>1, <2>2
<1> QED
  BY <1>1, <1>2, <1>3, SettingsInvariant, SecretsAreForgotten, PTL DEF SettingsSpec, SavedIsKept
=============================================================================
