--------------------------- MODULE SendPipeProofs ---------------------------
(***************************************************************************)
(* Theorems about SendPipe for every value of its bounds.                  *)
(***************************************************************************)
EXTENDS SendPipe, TLAPS

(* The head and the tail of a non-empty send channel.                       *)
LEMMA ChannelParts ==
  ASSUME NEW S, NEW q \in Seq(S), q # <<>>
  PROVE  /\ Head(q) \in S
         /\ Tail(q) \in Seq(S)
         /\ Head(q) = q[1]
         /\ 1 \in DOMAIN q
         /\ \A i \in DOMAIN Tail(q) : i + 1 \in DOMAIN q /\ Tail(q)[i] = q[i + 1]
OBVIOUS

(* A send channel with one more entry at its end.                           *)
LEMMA ChannelAppend ==
  ASSUME NEW S, NEW q \in Seq(S), NEW e \in S
  PROVE  /\ Append(q, e) \in Seq(S)
         /\ \A i \in DOMAIN Append(q, e) :
               (i \in DOMAIN q /\ Append(q, e)[i] = q[i]) \/ Append(q, e)[i] = e
OBVIOUS

-----------------------------------------------------------------------------
(* Type correctness.                                                        *)

(* TypeOK in four parts, one per thread, and one fact about the retries: a  *)
(* send that failed for the last time has set quit.                         *)
ProcType ==
  /\ process \in {"idle", "run", "stopped", "gone"}
  /\ stopFlag \in BOOLEAN /\ quitFlag \in BOOLEAN
  /\ posted \in 0 .. MaxPosts /\ stops \in 0 .. MaxStops
  /\ sendQ \in Seq(Entry)

SenderType ==
  /\ sender \in {"none", "top", "chkstop", "parked", "recv", "try", "arm", "done"}
  /\ senderTok \in BOOLEAN
  /\ data \in 0 .. MaxPosts /\ resend \in BOOLEAN
  /\ errors \in 0 .. RetryCount + 1 /\ (errors > RetryCount => quitFlag)

ResenderType ==
  /\ resender \in {"none", "top", "chkstop", "parked", "gate", "held", "clock",
                   "enqueue", "done"}
  /\ resenderTok \in BOOLEAN
  /\ cancel \in BOOLEAN /\ elapsed \in {"no", "due", "jump"}

PeerType ==
  /\ answers \in 0 .. MaxAnswers
  /\ pending \in BOOLEAN /\ owed \in BOOLEAN

TypeInv == ProcType /\ SenderType /\ ResenderType /\ PeerType

LEMMA TypeParts == TypeInv => PipeTypeOK
BY DEF TypeInv, ProcType, SenderType, ResenderType, PeerType, PipeTypeOK

LEMMA TypeInit == PipeInit => TypeInv
<1> SUFFICES ASSUME PipeInit PROVE TypeInv
  OBVIOUS
<1>1. /\ 0 \in 0 .. MaxPosts /\ 0 \in 0 .. MaxStops /\ 0 \in 0 .. MaxAnswers
      /\ 0 \in 0 .. RetryCount + 1 /\ ~(0 > RetryCount)
  BY PipeAssumption
<1>2. <<>> \in Seq(Entry)
  OBVIOUS
<1>3. ProcType
  BY <1>1, <1>2 DEF PipeInit, ProcType
<1>4. SenderType
  BY <1>1 DEF PipeInit, SenderType
<1>5. ResenderType
  BY DEF PipeInit, ResenderType
<1>6. PeerType
  BY <1>1 DEF PipeInit, PeerType
<1>. QED  BY <1>3, <1>4, <1>5, <1>6 DEF TypeInv

LEMMA TypeStep == TypeInv /\ [PipeNext]_pipeVars => TypeInv'
<1> SUFFICES ASSUME ProcType, SenderType, ResenderType, PeerType, [PipeNext]_pipeVars
             PROVE  ProcType' /\ SenderType' /\ ResenderType' /\ PeerType'
  BY DEF TypeInv
<1> USE PipeAssumption DEF processVars, senderVars, resenderVars, peerVars
<1>1. CASE PipeStart
  <2>1. ProcType'
    BY <1>1 DEF PipeStart, ProcType
  <2>2. SenderType'
    BY <1>1 DEF PipeStart, SenderType
  <2>3. ResenderType'
    BY <1>1 DEF PipeStart, ResenderType
  <2>4. PeerType'
    BY <1>1 DEF PipeStart, PeerType
  <2>. QED  BY <2>1, <2>2, <2>3, <2>4
<1>2. CASE PipeAnswer
  <2>1. ProcType'
    BY <1>2 DEF PipeAnswer, ProcType
  <2>2. SenderType'
    BY <1>2 DEF PipeAnswer, SenderType
  <2>3. ResenderType'
    BY <1>2 DEF PipeAnswer, ResenderType
  <2>4. PeerType'
    <3>1. answers' \in 0 .. MaxAnswers
      BY <1>2 DEF PipeAnswer, PeerType
    <3>2. pending' \in BOOLEAN /\ owed' \in BOOLEAN
      BY <1>2 DEF PipeAnswer, PeerType
    <3>. QED  BY <3>1, <3>2 DEF PeerType
  <2>. QED  BY <2>1, <2>2, <2>3, <2>4
<1>3. CASE PipeStop
  <2>1. ProcType'
    BY <1>3 DEF PipeStop, ProcType
  <2>2. SenderType'
    BY <1>3 DEF PipeStop, SenderType
  <2>3. ResenderType'
    BY <1>3 DEF PipeStop, ResenderType
  <2>4. PeerType'
    BY <1>3 DEF PipeStop, PeerType
  <2>. QED  BY <2>1, <2>2, <2>3, <2>4
<1>4. CASE PipeQuit
  <2>1. ProcType'
    BY <1>4 DEF PipeQuit, ProcType
  <2>2. SenderType'
    BY <1>4 DEF PipeQuit, SenderType
  <2>3. ResenderType'
    BY <1>4 DEF PipeQuit, ResenderType
  <2>4. PeerType'
    BY <1>4 DEF PipeQuit, PeerType
  <2>. QED  BY <2>1, <2>2, <2>3, <2>4
<1>5. CASE Stopped
  <2>1. ProcType'
    BY <1>5 DEF Stopped, ProcType
  <2>2. SenderType'
    BY <1>5 DEF Stopped, SenderType
  <2>3. ResenderType'
    BY <1>5 DEF Stopped, ResenderType
  <2>4. PeerType'
    BY <1>5 DEF Stopped, PeerType
  <2>. QED  BY <2>1, <2>2, <2>3, <2>4
<1>6. CASE Broken
  <2>1. ProcType'
    BY <1>6 DEF Broken, ProcType
  <2>2. SenderType'
    BY <1>6 DEF Broken, SenderType
  <2>3. ResenderType'
    BY <1>6 DEF Broken, ResenderType
  <2>4. PeerType'
    BY <1>6 DEF Broken, PeerType
  <2>. QED  BY <2>1, <2>2, <2>3, <2>4
<1>7. CASE SenderTop
  <2>1. ProcType'
    BY <1>7 DEF SenderTop, ProcType
  <2>2. SenderType'
    BY <1>7 DEF SenderTop, SenderType
  <2>3. ResenderType'
    BY <1>7 DEF SenderTop, ResenderType
  <2>4. PeerType'
    BY <1>7 DEF SenderTop, PeerType
  <2>. QED  BY <2>1, <2>2, <2>3, <2>4
<1>8. CASE SenderChkStop
  <2>1. ProcType'
    BY <1>8 DEF SenderChkStop, ProcType
  <2>2. SenderType'
    BY <1>8 DEF SenderChkStop, SenderType
  <2>3. ResenderType'
    BY <1>8 DEF SenderChkStop, ResenderType
  <2>4. PeerType'
    BY <1>8 DEF SenderChkStop, PeerType
  <2>. QED  BY <2>1, <2>2, <2>3, <2>4
<1>9. CASE SenderUnpark
  <2>1. ProcType'
    BY <1>9 DEF SenderUnpark, ProcType
  <2>2. SenderType'
    BY <1>9 DEF SenderUnpark, SenderType
  <2>3. ResenderType'
    BY <1>9 DEF SenderUnpark, ResenderType
  <2>4. PeerType'
    BY <1>9 DEF SenderUnpark, PeerType
  <2>. QED  BY <2>1, <2>2, <2>3, <2>4
<1>10. CASE SenderRecv
  <2>0. /\ Head(sendQ) \in Entry
        /\ Tail(sendQ) \in Seq(Entry)
    BY <1>10, ChannelParts DEF SenderRecv, ProcType
  <2>1. ProcType'
    BY <1>10, <2>0 DEF SenderRecv, ProcType
  <2>2. SenderType'
    BY <1>10, <2>0 DEF SenderRecv, SenderType, Entry
  <2>3. ResenderType'
    BY <1>10 DEF SenderRecv, ResenderType
  <2>4. PeerType'
    BY <1>10 DEF SenderRecv, PeerType
  <2>. QED  BY <2>1, <2>2, <2>3, <2>4
<1>11. CASE SenderDrop
  <2>1. ProcType'
    BY <1>11 DEF SenderDrop, ProcType
  <2>2. SenderType'
    BY <1>11 DEF SenderDrop, SenderType
  <2>3. ResenderType'
    BY <1>11 DEF SenderDrop, ResenderType
  <2>4. PeerType'
    BY <1>11 DEF SenderDrop, PeerType
  <2>. QED  BY <2>1, <2>2, <2>3, <2>4
<1>12. CASE SenderTransmit
  <2>1. ProcType'
    BY <1>12 DEF SenderTransmit, ProcType
  <2>2. SenderType'
    BY <1>12 DEF SenderTransmit, SenderType
  <2>3. ResenderType'
    BY <1>12 DEF SenderTransmit, ResenderType
  <2>4. PeerType'
    BY <1>12 DEF SenderTransmit, PeerType, SenderType
  <2>. QED  BY <2>1, <2>2, <2>3, <2>4
<1>13. CASE SenderError
  <2>1. ProcType'
    BY <1>13 DEF SenderError, ProcType
  <2>2. SenderType'
    BY <1>13 DEF SenderError, SenderType
  <2>3. ResenderType'
    BY <1>13 DEF SenderError, ResenderType
  <2>4. PeerType'
    BY <1>13 DEF SenderError, PeerType
  <2>. QED  BY <2>1, <2>2, <2>3, <2>4
<1>14. CASE SenderArm
  <2>1. ProcType'
    BY <1>14 DEF SenderArm, ProcType
  <2>2. SenderType'
    BY <1>14 DEF SenderArm, SenderType
  <2>3. ResenderType'
    BY <1>14 DEF SenderArm, ResenderType, SenderType
  <2>4. PeerType'
    BY <1>14 DEF SenderArm, PeerType
  <2>. QED  BY <2>1, <2>2, <2>3, <2>4
<1>15. CASE ResenderTop
  <2>1. ProcType'
    BY <1>15 DEF ResenderTop, ProcType
  <2>2. SenderType'
    BY <1>15 DEF ResenderTop, SenderType
  <2>3. ResenderType'
    BY <1>15 DEF ResenderTop, ResenderType
  <2>4. PeerType'
    BY <1>15 DEF ResenderTop, PeerType
  <2>. QED  BY <2>1, <2>2, <2>3, <2>4
<1>16. CASE ResenderChkStop
  <2>1. ProcType'
    BY <1>16 DEF ResenderChkStop, ProcType
  <2>2. SenderType'
    BY <1>16 DEF ResenderChkStop, SenderType
  <2>3. ResenderType'
    BY <1>16 DEF ResenderChkStop, ResenderType
  <2>4. PeerType'
    BY <1>16 DEF ResenderChkStop, PeerType
  <2>. QED  BY <2>1, <2>2, <2>3, <2>4
<1>17. CASE ResenderGate
  <2>1. ProcType'
    BY <1>17 DEF ResenderGate, ProcType
  <2>2. SenderType'
    BY <1>17 DEF ResenderGate, SenderType
  <2>3. ResenderType'
    BY <1>17 DEF ResenderGate, ResenderType
  <2>4. PeerType'
    BY <1>17 DEF ResenderGate, PeerType
  <2>. QED  BY <2>1, <2>2, <2>3, <2>4
<1>18. CASE ResenderUnpark
  <2>1. ProcType'
    BY <1>18 DEF ResenderUnpark, ProcType
  <2>2. SenderType'
    BY <1>18 DEF ResenderUnpark, SenderType
  <2>3. ResenderType'
    BY <1>18 DEF ResenderUnpark, ResenderType
  <2>4. PeerType'
    BY <1>18 DEF ResenderUnpark, PeerType
  <2>. QED  BY <2>1, <2>2, <2>3, <2>4
<1>19. CASE ResenderClock
  <2>1. ProcType'
    BY <1>19 DEF ResenderClock, ProcType
  <2>2. SenderType'
    BY <1>19 DEF ResenderClock, SenderType
  <2>3. ResenderType'
    BY <1>19 DEF ResenderClock, ResenderType
  <2>4. PeerType'
    BY <1>19 DEF ResenderClock, PeerType
  <2>. QED  BY <2>1, <2>2, <2>3, <2>4
<1>20. CASE ResenderEnqueue
  <2>0. sendQ' \in Seq(Entry)
    BY <1>20, ChannelAppend DEF ResenderEnqueue, Again, Entry, ProcType
  <2>1. ProcType'
    BY <1>20, <2>0 DEF ResenderEnqueue, ProcType
  <2>2. SenderType'
    BY <1>20 DEF ResenderEnqueue, SenderType
  <2>3. ResenderType'
    BY <1>20 DEF ResenderEnqueue, ResenderType
  <2>4. PeerType'
    BY <1>20 DEF ResenderEnqueue, PeerType
  <2>. QED  BY <2>1, <2>2, <2>3, <2>4
<1>21. CASE Interval
  <2>1. ProcType'
    BY <1>21 DEF Interval, ProcType
  <2>2. SenderType'
    BY <1>21 DEF Interval, SenderType
  <2>3. ResenderType'
    BY <1>21 DEF Interval, ResenderType
  <2>4. PeerType'
    BY <1>21 DEF Interval, PeerType
  <2>. QED  BY <2>1, <2>2, <2>3, <2>4
<1>22. CASE ClockJump
  <2>1. ProcType'
    BY <1>22 DEF ClockJump, ProcType
  <2>2. SenderType'
    BY <1>22 DEF ClockJump, SenderType
  <2>3. ResenderType'
    BY <1>22 DEF ClockJump, ResenderType
  <2>4. PeerType'
    BY <1>22 DEF ClockJump, PeerType
  <2>. QED  BY <2>1, <2>2, <2>3, <2>4
<1>23. ASSUME NEW again \in BOOLEAN, PipePost(again)
      PROVE  ProcType' /\ SenderType' /\ ResenderType' /\ PeerType'
  <2>0. sendQ' \in Seq(Entry)
    BY <1>23, ChannelAppend DEF PipePost, Entry, ProcType
  <2>1. ProcType'
    BY <1>23, <2>0 DEF PipePost, ProcType
  <2>2. SenderType'
    BY <1>23 DEF PipePost, SenderType
  <2>3. ResenderType'
    BY <1>23 DEF PipePost, ResenderType
  <2>4. PeerType'
    BY <1>23 DEF PipePost, PeerType
  <2>. QED  BY <2>1, <2>2, <2>3, <2>4
<1>24. CASE UNCHANGED pipeVars
  BY <1>24 DEF pipeVars, ProcType, SenderType, ResenderType, PeerType
<1>. QED
  BY <1>1, <1>2, <1>3, <1>4, <1>5, <1>6, <1>7, <1>8, <1>9, <1>10, <1>11, <1>12,
     <1>13, <1>14, <1>15, <1>16, <1>17, <1>18, <1>19, <1>20, <1>21, <1>22, <1>23, <1>24
     DEF PipeNext, PipeProcess, Sender, Resender, Environment

(* Every reachable state of the pipe is well typed.                         *)
THEOREM TypeCorrect == PipeSpec => []PipeTypeOK
<1>1. PipeInit => TypeInv
  BY TypeInit
<1>2. TypeInv /\ [PipeNext]_pipeVars => TypeInv'
  BY TypeStep
<1>3. TypeInv => PipeTypeOK
  BY TypeParts
<1>. QED  BY <1>1, <1>2, <1>3, PTL DEF PipeSpec

-----------------------------------------------------------------------------
(* Only packets are sent: NothingToRepeat is inductive together with the    *)
(* types.                                                                   *)

LEMMA RepeatInit == PipeInit => NothingToRepeat
BY DEF PipeInit, NothingToRepeat

LEMMA RepeatStep == PipeTypeOK /\ NothingToRepeat /\ [PipeNext]_pipeVars => NothingToRepeat'
<1> SUFFICES ASSUME PipeTypeOK, NothingToRepeat, [PipeNext]_pipeVars
             PROVE  NothingToRepeat'
  OBVIOUS
<1> USE DEF NothingToRepeat, processVars, senderVars, resenderVars, peerVars
<1>0. sendQ \in Seq(Entry)
  BY DEF PipeTypeOK
<1>1. CASE PipeStart
  BY <1>1 DEF PipeStart
<1>2. CASE PipeAnswer
  BY <1>2 DEF PipeAnswer
<1>3. CASE PipeStop
  BY <1>3 DEF PipeStop
<1>4. CASE PipeQuit
  BY <1>4 DEF PipeQuit
<1>5. CASE Stopped
  BY <1>5 DEF Stopped
<1>6. CASE Broken
  BY <1>6 DEF Broken
<1>7. CASE SenderTop
  BY <1>7 DEF SenderTop
<1>8. CASE SenderChkStop
  BY <1>8 DEF SenderChkStop
<1>9. CASE SenderUnpark
  BY <1>9 DEF SenderUnpark
<1>10. CASE SenderRecv
  <2>1. /\ Head(sendQ) = sendQ[1] /\ 1 \in DOMAIN sendQ
        /\ \A i \in DOMAIN Tail(sendQ) :
              i + 1 \in DOMAIN sendQ /\ Tail(sendQ)[i] = sendQ[i + 1]
    BY <1>10, <1>0, ChannelParts DEF SenderRecv
  <2>2. data = 0 => Head(sendQ).packet # 0
    BY <2>1
  <2>3. data' = 0 => data = 0 /\ Head(sendQ).packet = 0
    BY <1>10 DEF SenderRecv
  <2>. QED  BY <2>2, <2>3
<1>11. CASE SenderDrop
  BY <1>11 DEF SenderDrop
<1>12. CASE SenderTransmit
  BY <1>12 DEF SenderTransmit
<1>13. CASE SenderError
  BY <1>13 DEF SenderError
<1>14. CASE SenderArm
  BY <1>14 DEF SenderArm
<1>15. CASE ResenderTop
  BY <1>15 DEF ResenderTop
<1>16. CASE ResenderChkStop
  BY <1>16 DEF ResenderChkStop
<1>17. CASE ResenderGate
  BY <1>17 DEF ResenderGate
<1>18. CASE ResenderUnpark
  BY <1>18 DEF ResenderUnpark
<1>19. CASE ResenderClock
  BY <1>19 DEF ResenderClock
<1>20. CASE ResenderEnqueue
  <2>1. data # 0 /\ data' = data
    BY <1>20 DEF ResenderEnqueue
  <2>. QED  BY <2>1
<1>21. CASE Interval
  BY <1>21 DEF Interval
<1>22. CASE ClockJump
  BY <1>22 DEF ClockJump
<1>23. ASSUME NEW again \in BOOLEAN, PipePost(again)
      PROVE  NothingToRepeat'
  <2> DEFINE entry == [packet |-> posted + 1, resend |-> again]
  <2>0. posted + 1 \in 1 .. MaxPosts
    BY <1>23, PipeAssumption DEF PipePost, PipeTypeOK
  <2>1. entry \in Entry /\ entry.packet # 0
    BY <2>0 DEF Entry
  <2>2. \A i \in DOMAIN sendQ' :
           (i \in DOMAIN sendQ /\ sendQ'[i] = sendQ[i]) \/ sendQ'[i] = entry
    BY <1>23, <1>0, <2>1, ChannelAppend DEF PipePost
  <2> HIDE DEF entry
  <2>. QED  BY <1>23, <2>1, <2>2 DEF PipePost
<1>24. CASE UNCHANGED pipeVars
  BY <1>24 DEF pipeVars
<1>. QED
  BY <1>1, <1>2, <1>3, <1>4, <1>5, <1>6, <1>7, <1>8, <1>9, <1>10, <1>11, <1>12,
     <1>13, <1>14, <1>15, <1>16, <1>17, <1>18, <1>19, <1>20, <1>21, <1>22, <1>23, <1>24
     DEF PipeNext, PipeProcess, Sender, Resender, Environment

(* The Sender never transmits before it was given a packet.                 *)
THEOREM NothingElseIsSent == PipeSpec => []OnlyPacketsAreSent
<1>1. PipeInit => NothingToRepeat
  BY RepeatInit
<1>2. PipeTypeOK /\ NothingToRepeat /\ [PipeNext]_pipeVars => NothingToRepeat'
  BY RepeatStep
<1>3. NothingToRepeat => OnlyPacketsAreSent
  BY DEF NothingToRepeat, OnlyPacketsAreSent
<1>. QED  BY <1>1, <1>2, <1>3, TypeCorrect, PTL DEF PipeSpec
=============================================================================
