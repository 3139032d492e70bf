------------------------------ MODULE MainWindow ------------------------------
(***************************************************************************)
(* The main window of the GUI: one thread, one action per window message.  *)
(*                                                                         *)
(* The list of network adapters is a popup window of its own, owned by the *)
(* main window and faded in and out by a timer which the four toggles      *)
(* share.  The popup, the fade and the timer are three pieces of state     *)
(* which a dozen messages change in any order; SetTimer, CreateWindowEx    *)
(* and PostMessage may each fail.                                          *)
(*                                                                         *)
(* Painting, text and geometry are left out (WindowLayout has the          *)
(* geometry); a value of an animation is one of 0 .. Full.                 *)
(***************************************************************************)
EXTENDS Integers

CONSTANTS
    Toggles,    \* the switches that are animated
    TrayKeep,   \* the toggle that keeps the program in the tray on close
    Displays,   \* configurations of the display: scale and work area
    Full,       \* the value of an animation that shows everything
    MaxPosted   \* bound on layout messages in the queue

ASSUME WindowAssumption == /\ TrayKeep \in Toggles
                           /\ Full \in Nat \ {0}
                           /\ MaxPosted \in Nat \ {0}

VARIABLES
    view,       \* "hidden", "normal", "minimized" or "gone"
    menu,       \* the list: combo_open, combo_visual and its popup window
    on,         \* the four settings behind the toggles
    toggle,     \* toggle_anim
    timer,      \* anim_timer_running: TIMER_ANIM has been set
    display,    \* the configuration of the display
    laid,       \* the configuration the window was laid out for
    pending,    \* layout_pending
    posted,     \* layout messages in the queue
    lost        \* the last PostMessage of a layout message failed

windowVars == <<view, menu, on, toggle, timer, display, laid, pending, posted, lost>>

(* anim.rs *)

Anims == [value : 0 .. Full, to : 0 .. Full, running : BOOLEAN]

Snap(v) == [value |-> v, to |-> v, running |-> FALSE]

Go(from, to) == IF from = to THEN Snap(to)
                ELSE [value |-> from, to |-> to, running |-> TRUE]

(* What a frame may show: time passes at any speed between two frames.     *)
Advance(a) ==
    IF ~a.running THEN {a}
    ELSE {Snap(a.to)} \cup
         {[a EXCEPT !.value = v] : v \in (a.value .. a.to) \cup (a.to .. a.value)}

Bool01(b) == IF b THEN Full ELSE 0

SnapToggles == [t \in Toggles |-> Snap(Bool01(on[t]))]

(* The adapter list: what the helpers make of it.                          *)

Menus == [open : BOOLEAN, visual : Anims, popup : {"none", "hidden", "shown"}]

Hidden(m) == [m EXCEPT !.popup = IF @ = "none" THEN "none" ELSE "hidden"]

DismissCombo(m) == Hidden([m EXCEPT !.open = FALSE, !.visual = Snap(0)])

(* show_combo_popup: the popup is created the first time, which may fail.  *)
ShowPopup(m) ==
    IF ~(m.open \/ m.visual.running) THEN {m}
    ELSE {[m EXCEPT !.popup = "shown"]} \cup
         (IF m.popup = "none" THEN {DismissCombo(m)} ELSE {})

(* close_combo without its start_anim_timer.                               *)
CloseCombo(m) ==
    IF ~m.open THEN m
    ELSE LET c == [m EXCEPT !.open = FALSE, !.visual = Go(m.visual.value, 0)]
         IN  IF c.visual.running THEN c ELSE Hidden(c)

(* start_anim_timer, after which the list is one of ms and the toggles are  *)
(* moving as in ts, to show flags.  Without a timer everything jumps to     *)
(* where it was going.                                                     *)
StartTimer(ms, ts, flags) ==
    \/ timer' = TRUE /\ menu' \in ms /\ toggle' = ts
    \/ /\ ~timer /\ UNCHANGED timer
       /\ toggle' = [t \in Toggles |-> Snap(Bool01(flags[t]))]
       /\ \E m \in ms : menu' \in IF m.open THEN ShowPopup([m EXCEPT !.visual = Snap(Full)])
                                  ELSE {DismissCombo(m)}

Close == IF menu.open THEN StartTimer({CloseCombo(menu)}, toggle, on)
         ELSE UNCHANGED <<menu, toggle, timer>>

Dismiss == menu' = DismissCombo(menu) /\ UNCHANGED <<toggle, timer>>

(* display.rs *)

Schedule ==
    \/ pending /\ UNCHANGED <<pending, posted, lost>>
    \/ ~pending /\ posted < MaxPosted /\ posted' = posted + 1 /\ pending' = TRUE /\ lost' = FALSE
    \/ ~pending /\ lost' = TRUE /\ UNCHANGED <<pending, posted>>

(* apply: nothing happens to a minimized window, which has no coordinates; *)
(* layout_in_progress only silences messages sent within this action.      *)
Apply(d) ==
    /\ Dismiss
    /\ laid' = IF view = "minimized" THEN laid ELSE d

(* Start: the window is laid out before anything is loaded; the toggles    *)
(* show what was loaded; autostart leaves the window hidden.  The WM_SIZE    *)
(* of its creation may have left a message in the queue.                   *)
WindowInit ==
    /\ view \in {"hidden", "normal"}
    /\ menu = [open |-> FALSE, visual |-> Snap(0), popup |-> "none"]
    /\ on \in [Toggles -> BOOLEAN]
    /\ toggle = SnapToggles
    /\ timer = FALSE
    /\ display \in Displays /\ laid = display
    /\ pending = FALSE /\ posted \in 0 .. 1 /\ lost = FALSE

Alive == view # "gone"
Layout == <<display, laid, pending, posted, lost>>

(* toggle_combo *)
ClickCombo ==
    /\ view = "normal"
    /\ IF menu.open THEN Close
       ELSE LET from == menu.visual.value
                asked == ShowPopup([menu EXCEPT !.open = TRUE, !.visual = Snap(from)])
            IN  StartTimer({IF m.open THEN [m EXCEPT !.visual = Go(from, Full)] ELSE m : m \in asked},
                           toggle, on)
    /\ UNCHANGED <<view, on>> /\ UNCHANGED Layout

(* A click beside the list, on an edit field, or on an item of the popup.  *)
ClickAway ==
    /\ Alive /\ menu.open /\ Close
    /\ UNCHANGED <<view, on>> /\ UNCHANGED Layout

(* Faulty variant: the setting changes and its switch is left to a repaint. *)
ClickToggle_Unshown(t) ==
    /\ view = "normal"
    /\ on' = [on EXCEPT ![t] = ~@]
    /\ UNCHANGED <<view, menu, toggle, timer>> /\ UNCHANGED Layout

(* close_combo and toggle_flag: both may be the one that finds no timer.   *)
ClickToggle(t) ==
    /\ view = "normal"
    /\ on' = [on EXCEPT ![t] = ~@]
    /\ LET moved == [toggle EXCEPT ![t] = Go(@.value, Bool01(on'[t]))]
           snapped == [SnapToggles EXCEPT ![t] = Go(@.value, Bool01(on'[t]))]
       IN  \/ StartTimer({CloseCombo(menu)}, moved, on')
           \/ menu.open /\ ~timer /\ StartTimer({DismissCombo(menu)}, snapped, on')
    /\ UNCHANGED <<view>> /\ UNCHANGED Layout

(* WM_ACTIVATE, deactivated *)
Deactivate ==
    /\ Alive /\ Dismiss
    /\ UNCHANGED <<view, on>> /\ UNCHANGED Layout

Minimize ==
    /\ view = "normal" /\ view' = "minimized" /\ Dismiss
    /\ UNCHANGED <<on>> /\ UNCHANGED Layout

(* begin_exit: the window and everything it owns is destroyed.             *)
Gone ==
    /\ view' = "gone" /\ timer' = FALSE
    /\ menu' = [DismissCombo(menu) EXCEPT !.popup = "none"]
    /\ toggle' = SnapToggles
    /\ pending' = FALSE /\ posted' = 0
    /\ UNCHANGED <<on, display, laid, lost>>

ExitWindow == Alive /\ Gone

(* request_close *)
RequestClose ==
    /\ view = "normal"
    /\ \/ ~on[TrayKeep] /\ Gone
       \/ /\ on[TrayKeep] /\ view' = "hidden" /\ Dismiss
          /\ UNCHANGED <<on>> /\ UNCHANGED Layout

Escape ==
    /\ view = "normal"
    /\ \/ menu.open /\ Close /\ UNCHANGED view
       \/ ~menu.open /\ Dismiss /\ view' = "hidden"
    /\ UNCHANGED <<on>> /\ UNCHANGED Layout

(* WM_APP_OPEN, from the tray or from a second instance, and a restore by   *)
(* the system: a window that was minimized gets a WM_SIZE.                 *)
Open ==
    /\ Alive /\ view' = "normal"
    /\ IF view = "minimized" THEN Schedule ELSE UNCHANGED <<pending, posted, lost>>
    /\ UNCHANGED <<menu, on, toggle, timer, display, laid>>

(* WM_APP_CONNECT shows a window that is hidden.                           *)
ShowToConnect ==
    /\ view = "hidden" /\ view' = "normal"
    /\ UNCHANGED <<menu, on, toggle, timer>> /\ UNCHANGED Layout

(* on_anim_timer *)
Frame ==
    /\ timer
    /\ toggle' \in [Toggles -> UNION {Advance(toggle[t]) : t \in Toggles}]
    /\ \A t \in Toggles : toggle'[t] \in Advance(toggle[t])
    /\ \E a \in Advance(menu.visual) :
        LET m == [menu EXCEPT !.visual = a]
        IN  /\ timer' = (a.running \/ \E t \in Toggles : toggle'[t].running)
            /\ menu' \in IF ~menu.visual.running THEN {m}
                         ELSE IF m.open \/ a.running THEN ShowPopup(m)
                         ELSE {Hidden(m)}
    /\ UNCHANGED <<view, on>> /\ UNCHANGED Layout

(* WM_PAINT of the popup *)
PaintPopup ==
    /\ menu.popup = "shown" /\ menu' \in ShowPopup(menu)
    /\ UNCHANGED <<view, on, toggle, timer>> /\ UNCHANGED Layout

(* WM_DISPLAYCHANGE, WM_SETTINGCHANGE, WM_EXITSIZEMOVE, WM_SIZE            *)
DisplayChange ==
    /\ Alive /\ display' \in Displays /\ Schedule
    /\ UNCHANGED <<view, menu, on, toggle, timer, laid>>

(* WM_DPICHANGED *)
DpiChange ==
    /\ Alive /\ display' \in Displays /\ Apply(display')
    /\ UNCHANGED <<view, on, pending, posted, lost>>

(* Faulty variant: the flag is cleared only by a layout that did something. *)
Refresh_StaysPending ==
    /\ posted > 0 /\ posted' = posted - 1 /\ Apply(display)
    /\ pending' = (view = "minimized")
    /\ UNCHANGED <<view, on, display, lost>>

(* WM_APP_LAYOUT *)
Refresh ==
    /\ posted > 0 /\ posted' = posted - 1 /\ pending' = FALSE /\ Apply(display)
    /\ UNCHANGED <<view, on, display, lost>>

WindowStopped == view = "gone" /\ UNCHANGED windowVars

WindowNext ==
    \/ ClickCombo \/ ClickAway \/ \E t \in Toggles : ClickToggle(t)
    \/ Deactivate \/ Minimize \/ RequestClose \/ Escape \/ ExitWindow
    \/ Open \/ ShowToConnect \/ Frame \/ PaintPopup
    \/ DisplayChange \/ DpiChange \/ Refresh \/ WindowStopped

(* The timer fires every few milliseconds and a fade is a fraction of a    *)
(* second, so some frame is the last one; messages are taken in order.     *)
LastFrame == timer' = FALSE /\ Frame

WindowFairness == WF_windowVars(LastFrame) /\ WF_windowVars(Refresh)

WindowSpec == WindowInit /\ [][WindowNext]_windowVars /\ WindowFairness
-----------------------------------------------------------------------------
WindowTypeOK ==
    /\ view \in {"hidden", "normal", "minimized", "gone"}
    /\ menu \in Menus
    /\ on \in [Toggles -> BOOLEAN]
    /\ toggle \in [Toggles -> Anims]
    /\ timer \in BOOLEAN
    /\ display \in Displays /\ laid \in Displays
    /\ pending \in BOOLEAN /\ posted \in 0 .. MaxPosted /\ lost \in BOOLEAN

(* "A queued frame must not show an owned popup again after its owner       *)
(* disappeared": a visible list has a visible owner.                       *)
PopupHasOwner == menu.popup = "shown" => view = "normal"

(* Once no timer runs nothing is half way: every switch shows its setting,  *)
(* and the popup is on the screen exactly while the list is open.  No       *)
(* later message would repair either.                                      *)
AtRest ==
    ~timer => /\ toggle = SnapToggles
              /\ menu.visual = Snap(Bool01(menu.open))
              /\ menu.popup = "shown" <=> menu.open

(* Together: the list is on the screen when and only when it should be.    *)
ListIsInPlace == PopupHasOwner /\ AtRest

(* A window on the screen is laid out for the display it is on, unless the  *)
(* message that asks for it could not be posted.                           *)
LayoutFollowsDisplay ==
    (view = "normal" /\ laid # display) ~> (laid = display \/ view \in {"minimized", "gone"} \/ lost)
=============================================================================
