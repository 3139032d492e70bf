-------------------------------- MODULE MCGui --------------------------------
(***************************************************************************)
(* The four parts of the GUI program that share no state: the life of its  *)
(* core process, its main window, its geometry, and the log it follows.    *)
(* One run explores each of them: a behaviour is one of part, and the other *)
(* parts rest in one of their initial states.                              *)
(***************************************************************************)
EXTENDS CoreProcess, MainWindow, LogTail, WindowLayout

VARIABLE part

(* A line of five bytes is longer than what is read at once, and than what   *)
(* is kept of one that has not ended.                                      *)
MCLength == <<2, 2, 5, 1>>

(* The work areas of two screens that are in use, of one that stands upright, *)
(* and of one too low for the window at full size.                         *)
MCWorks ==
  {[w |-> 1366, h |-> 728], [w |-> 1920, h |-> 1040], [w |-> 600, h |-> 1180],
   [w |-> 800, h |-> 440]}

allVars == <<part, vars, windowVars, logVars, layoutVars>>

(* A step of one part.                                                     *)
Only(p) ==
  /\ part = p
  /\ UNCHANGED part
  /\ p # "core" => UNCHANGED vars
  /\ p # "window" => UNCHANGED windowVars
  /\ p # "log" => UNCHANGED logVars
  /\ p # "layout" => UNCHANGED layoutVars

PartsInit ==
  /\ part \in {"core", "window", "log", "layout"}
  /\ Init
  /\ WindowInit
  /\ part # "window" => view = "normal" /\ on = [t \in Toggles |-> TRUE] /\ posted = 0
                        /\ display = CHOOSE d \in Displays : TRUE
  /\ LogInit
  /\ part # "log" => path = 0
  /\ LayoutInit
  /\ part # "layout" => count = 1 /\ chosen = 0 /\ top = 0
                        /\ work = [w |-> 1366, h |-> 728] /\ dpi = 96

WindowParts ==
  \/ Only("window") /\ ClickCombo
  \/ Only("window") /\ ClickAway
  \/ Only("window") /\ \E t \in Toggles : ClickToggle(t)
  \/ Only("window") /\ Deactivate
  \/ Only("window") /\ Minimize
  \/ Only("window") /\ RequestClose
  \/ Only("window") /\ Escape
  \/ Only("window") /\ ExitWindow
  \/ Only("window") /\ Open
  \/ Only("window") /\ ShowToConnect
  \/ Only("window") /\ Frame
  \/ Only("window") /\ PaintPopup
  \/ Only("window") /\ DisplayChange
  \/ Only("window") /\ DpiChange
  \/ Only("window") /\ Refresh

LogParts ==
  \/ Only("log") /\ Write
  \/ Only("log") /\ Create
  \/ Only("log") /\ Roll
  \/ Only("log") /\ Rewrite
  \/ Only("log") /\ PollOpen
  \/ Only("log") /\ PollRead

LayoutParts ==
  \/ Only("layout") /\ \E turns \in {-3, -1, 1} : Wheel(turns)
  \/ Only("layout") /\ \E y \in Edges : Press(y)

CoreParts ==
  \/ Only("core") /\ Launch
  \/ Only("core") /\ Assign
  \/ Only("core") /\ ShareJob
  \/ Only("core") /\ Resume
  \/ Only("core") /\ LaunchFails
  \/ Only("core") /\ \E exit \in BOOLEAN : Stop(exit)
  \/ Only("core") /\ StopDone
  \/ Only("core") /\ Terminate
  \/ Only("core") /\ StopGivesUp
  \/ Only("core") /\ TerminateFails
  \/ Only("core") /\ Exit
  \/ Only("core") /\ NoticeEnd
  \/ Only("core") /\ Die
  \/ Only("core") /\ Restart
  \/ Only("core") /\ Arm
  \/ Only("core") /\ OpenDevice
  \/ Only("core") /\ Wake
  \/ Only("core") /\ Transmit
  \/ Only("core") /\ Leave
  \/ Only("core") /\ Grant
  \/ Only("core") /\ TransmitFails
  \/ Only("core") /\ Hang
  \/ Only("core") /\ Unhang
  \/ Only("core") /\ Crash

PartsNext == CoreParts \/ WindowParts \/ LogParts \/ LayoutParts

(* Only one part runs, so that a step of it may share a condition with those *)
(* of the others.                                                          *)
PartsFairness ==
  /\ WF_allVars(\/ Only("core") /\ CoreProgress
                \/ Only("window") /\ LastFrame
                \/ Only("log") /\ PollRead)
  /\ WF_allVars(\/ Only("core") /\ StopStep
                \/ Only("window") /\ Refresh
                \/ Only("log") /\ PollOpen)
  /\ WF_allVars(Only("core") /\ LaunchStep)

PartsSpec == PartsInit /\ [][PartsNext]_allVars /\ PartsFairness
=============================================================================
