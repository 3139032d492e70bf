------------------------------- MODULE MCCore -------------------------------
(***************************************************************************)
(* The threads of the core: the link from EAP to UDP, and the sending      *)
(* threads of one process.  The two are explored side by side: a behaviour *)
(* is one of part, and the other part rests in its initial state.          *)
(***************************************************************************)
EXTENDS CoreLink, SendPipe

VARIABLE part

allVars == <<part, vars, pipeVars>>

PartsInit == part \in {"link", "pipe"} /\ Init /\ PipeInit

OfLink == part = "link" /\ UNCHANGED <<part, pipeVars>>

OfPipe == part = "pipe" /\ UNCHANGED <<part, vars>>

PartsNext ==
  \/ OfLink /\ EapSuccess
  \/ OfLink /\ \E s \in Upsets : EapUpset(s)
  \/ OfLink /\ MainTake
  \/ OfLink /\ MainForward
  \/ OfLink /\ GenLock
  \/ OfLink /\ GenSend
  \/ OfLink /\ GenSpawn
  \/ OfLink /\ GenJoin
  \/ OfLink /\ ProcStart
  \/ OfLink /\ ProcLogin
  \/ OfLink /\ ProcWake
  \/ OfLink /\ ProcGiveUp
  \/ OfLink /\ ProcStop
  \/ OfLink /\ ProcQuit
  \/ OfLink /\ ListenCheckQuit
  \/ OfLink /\ ListenCheckStop
  \/ OfLink /\ ListenUnpark
  \/ OfLink /\ ListenSuccess
  \/ OfLink /\ ListenStop
  \/ OfLink /\ ListenSleep
  \/ OfLink /\ ListenQuit
  \/ OfLink /\ OrphanReceive
  \/ OfLink /\ GenSpawnFails
  \/ OfLink /\ ProcFault
  \/ OfLink /\ ListenDrop
  \/ OfPipe /\ PipeStart
  \/ OfPipe /\ PipeStop
  \/ OfPipe /\ PipeQuit
  \/ OfPipe /\ SenderTop
  \/ OfPipe /\ SenderChkStop
  \/ OfPipe /\ SenderUnpark
  \/ OfPipe /\ SenderRecv
  \/ OfPipe /\ SenderDrop
  \/ OfPipe /\ SenderTransmit
  \/ OfPipe /\ SenderError
  \/ OfPipe /\ SenderArm
  \/ OfPipe /\ ResenderTop
  \/ OfPipe /\ ResenderChkStop
  \/ OfPipe /\ ResenderGate
  \/ OfPipe /\ ResenderUnpark
  \/ OfPipe /\ ResenderClock
  \/ OfPipe /\ ResenderEnqueue
  \/ OfPipe /\ Interval
  \/ OfPipe /\ PipeAnswer
  \/ OfPipe /\ Stopped
  \/ OfPipe /\ Broken
  \/ OfPipe /\ ClockJump
  \/ OfPipe /\ \E again \in BOOLEAN : PipePost(again)

(* The fairness of the part that runs.                                      *)
PartsFairness ==
  /\ WF_vars(part = "link" /\ MainThread)
  /\ WF_vars(part = "link" /\ Generator)
  /\ WF_vars(part = "link" /\ Process)
  /\ WF_vars(part = "link" /\ Listener)
  /\ WF_vars(part = "link" /\ OrphanReceive)
  /\ WF_pipeVars(part = "pipe" /\ PipeProcess)
  /\ WF_pipeVars(part = "pipe" /\ Sender)
  /\ WF_pipeVars(part = "pipe" /\ Resender)
  /\ WF_pipeVars(part = "pipe" /\ Interval)

PartsSpec == PartsInit /\ [][PartsNext]_allVars /\ PartsFairness
=============================================================================
