-------------------------- MODULE UdpSessionProofs ---------------------------
(***************************************************************************)
(* UdpSession for any retry count and all bounds: the heartbeat gives the  *)
(* process up only after a silent period, and after as many of them as are *)
(* configured unless a reset was lost.                                     *)
(***************************************************************************)
EXTENDS UdpSession, TLAPS

(* The parts of the type invariant.                                         *)
FlagsOK ==
  /\ proc \in {"start", "wait", "run"}
  /\ stop \in BOOLEAN /\ quit \in BOOLEAN /\ alive \in BOOLEAN
  /\ repeat \in BOOLEAN /\ listening \in BOOLEAN
  /\ hb \in {"off", "top", "parked", "sleep", "load", "store", "done"}
  /\ hbTok \in BOOLEAN /\ authed \in BOOLEAN /\ sleeper \in BOOLEAN
  /\ heard \in BOOLEAN /\ beating \in BOOLEAN /\ crossed \in BOOLEAN

CountsOK ==
  /\ timeout \in 0 .. 255 /\ cnt \in 0 .. 255
  /\ upsets \in 0 .. MaxUpsets /\ faults \in 0 .. MaxFaults
  /\ quiet \in 0 .. Count + 1
  /\ races \in 0 .. MaxFaults

DataOK == cks \in Key /\ info \in 0 .. MaxLogins /\ login \in 0 .. MaxLogins

FramesOK == frames \in Seq(Frame) /\ Len(frames) <= MaxFrames

WireOK == wire \in Seq(Packet) /\ Len(wire) <= MaxWire /\ request \in Packet

EapOK == eapQ \in Seq(Message)

(* The counter never passes the count by more than one, it is 0 once a      *)
(* reset has fallen into the period, and after a period either it is 0 or   *)
(* the period was silent.                                                   *)
SilenceOK ==
  /\ timeout <= Count + 1
  /\ heard => hb = "sleep" /\ timeout = 0
  /\ hb = "store" => cnt <= Count
  /\ hb = "load" => quiet >= 1 \/ timeout = 0

(* While no reset was lost the counter is no larger than the number of      *)
(* silent periods, but for the one that a reset before its load may add.    *)
TallyOK ==
  races = 0 =>
    /\ hb = "store" => cnt <= quiet
    /\ hb = "load" => timeout <= quiet
    /\ hb \notin {"load", "store"} => timeout <= quiet + 1

Typed == FlagsOK /\ CountsOK /\ DataOK /\ FramesOK /\ WireOK /\ EapOK

IInv == Typed /\ SilenceOK /\ TallyOK

-----------------------------------------------------------------------------
(* Numbers, packets and queues.                                             *)

(* The retry count is capped.                                               *)
LEMMA CountIsNat == Count \in 0 .. 255
BY SessionAssumption DEF Count

(* The counter wraps within its width, and is never more than one more.     *)
LEMMA ByteStays ==
  ASSUME NEW n \in 0 .. 255
  PROVE  (n + 1) % 256 \in 0 .. 255 /\ (n + 1) % 256 <= n + 1
OBVIOUS

(* What is taken from a queue was in it, and so is the rest.                *)
LEMMA QueueTake ==
  ASSUME NEW S, NEW q \in Seq(S), q # <<>>
  PROVE  Head(q) \in S /\ Tail(q) \in Seq(S) /\ Len(Tail(q)) = Len(q) - 1 /\ Len(q) \in Nat
OBVIOUS

(* A queue that grows holds what it held and what was added.                *)
LEMMA QueueAppend ==
  ASSUME NEW S, NEW q \in Seq(S), NEW m \in S
  PROVE  Append(q, m) \in Seq(S) /\ Len(Append(q, m)) = Len(q) + 1 /\ Len(q) \in Nat
OBVIOUS

(* The empty queue, and a queue of one.                                     *)
LEMMA ShortQueues ==
  ASSUME NEW S
  PROVE  <<>> \in Seq(S) /\ Len(<<>>) = 0
         /\ \A m \in S : <<m>> \in Seq(S) /\ Len(<<m>>) = 1
OBVIOUS

(* A packet without md5 and information.                                    *)
LEMMA PlainPackets ==
  ASSUME NEW kind \in {"none", "MiscAlive", "MiscInfo", "Heartbeat1", "Heartbeat3"}
  PROVE  Pkt(kind) \in Packet
<1>1. Raw(0) \in Key /\ 0 \in 0 .. MaxLogins
  BY SessionAssumption DEF Raw, Key
<1> QED
  BY <1>1 DEF Pkt, Packet

(* A packet of the heartbeat, for one of the logins.                        *)
LEMMA BeatPackets ==
  ASSUME NEW kind \in {"Heartbeat1", "Heartbeat3"}, NEW n \in 0 .. MaxLogins
  PROVE  Beat(kind, n) \in Packet
<1>1. Pkt(kind) \in Packet
  BY PlainPackets
<1> QED
  BY <1>1 DEF Beat, Packet

(* The packet that keeps the session alive.                                 *)
LEMMA Alives ==
  ASSUME DataOK
  PROVE  [kind |-> "Alive", key |-> cks, info |-> info] \in Packet
BY DEF DataOK, Packet

(* A bare md5.                                                              *)
LEMMA RawIsKey == ASSUME NEW n \in 0 .. MaxLogins PROVE Raw(n) \in Key
BY DEF Raw, Key

(* Each packet but none has an answer.                                      *)
LEMMA AnswerIsFrame ==
  ASSUME DataOK, NEW p \in Packet, p.kind # "none"
  PROVE  Answer(p) \in Frame
<1>1. p.kind \in {"MiscAlive", "MiscInfo", "Heartbeat1", "Heartbeat3", "Alive"}
  BY DEF Packet
<1>2. /\ 0 \in 0 .. MaxLogins /\ login \in 0 .. MaxLogins
      /\ p.info \in 0 .. MaxLogins
  BY SessionAssumption DEF DataOK, Packet
<1> QED
  BY <1>1, <1>2 DEF Answer, Frm, Frame

(* What EAP says.                                                           *)
LEMMA Messages ==
  ASSUME NEW state \in {"Success", "Stop", "Quit"}, NEW n \in 0 .. MaxLogins
  PROVE  Msg(state, n) \in Message
BY DEF Msg, Message

-----------------------------------------------------------------------------
(* What the steps have in common.                                           *)

(* A packet that is sent has its type.                                      *)
LEMMA Sends ==
  ASSUME WireOK, NEW p \in Packet, Send(p)
  PROVE  WireOK' /\ repeat' \in BOOLEAN
<1>1. Len(wire) < MaxWire /\ wire' = Append(wire, p) /\ request' = p /\ repeat' = TRUE
  BY DEF Send
<1>2. wire' \in Seq(Packet) /\ Len(wire') = Len(wire) + 1 /\ Len(wire) \in Nat
  BY <1>1, QueueAppend DEF WireOK
<1> QED
  BY <1>1, <1>2 DEF WireOK, MaxWire

(* Cancelling leaves the wire alone.                                        *)
LEMMA Cancels ==
  ASSUME FlagsOK, CountsOK, WireOK, Cancel
  PROVE  WireOK' /\ repeat' \in BOOLEAN /\ faults' \in 0 .. MaxFaults
<1>1. repeat' \in BOOLEAN /\ UNCHANGED <<wire, request>>
  BY DEF Cancel, FlagsOK
<1>2. faults' \in 0 .. MaxFaults
  BY SessionAssumption DEF Cancel, Fault, Bounded, CountsOK
<1> QED
  BY <1>1, <1>2 DEF WireOK

(* A frame that is handled leaves the queue.                                *)
LEMMA Handles ==
  ASSUME FramesOK, NEW kind, Handle(kind)
  PROVE  FramesOK' /\ Head(frames) \in Frame
<1>1. frames # <<>> /\ frames' = Tail(frames)
  BY DEF Handle
<1> QED
  BY <1>1, QueueTake DEF FramesOK, MaxFrames

(* A reset is a race at most MaxFaults times, and after a race the tally is  *)
(* no longer kept.                                                          *)
LEMMA Resets ==
  ASSUME FlagsOK, CountsOK, SilenceOK, Reset, UNCHANGED <<hb, cnt>>
  PROVE  /\ timeout' \in 0 .. 255 /\ quiet' \in 0 .. Count + 1 /\ races' \in 0 .. MaxFaults
         /\ heard' \in BOOLEAN /\ SilenceOK' /\ TallyOK'
<1>1. timeout' = 0 /\ quiet' = 0 /\ heard' = (hb = "sleep")
  BY DEF Reset
<1>2. heard' \in BOOLEAN /\ (heard' => hb' = "sleep")
  BY <1>1, Zenon
<1>3. races' \in 0 .. MaxFaults /\ (hb = "store" => races' # 0)
  BY SessionAssumption DEF Reset, Bounded, CountsOK
<1>4. SilenceOK'
  <2>1. timeout' = 0 /\ (hb = "store" => cnt <= Count)
    BY <1>1 DEF SilenceOK
  <2> QED
    BY <1>2, <2>1, CountIsNat DEF SilenceOK
<1>5. TallyOK'
  BY <1>1, <1>3 DEF TallyOK
<1> QED
  <2>1. timeout' = 0 /\ quiet' = 0
    BY <1>1
  <2> QED
    BY <1>2, <1>3, <1>4, <1>5, <2>1, CountIsNat

(* A step that leaves the counters alone keeps what is said of them.        *)
LEMMA Untouched ==
  ASSUME SilenceOK, TallyOK, UNCHANGED <<timeout, hb, cnt, heard, quiet, races>>
  PROVE  SilenceOK' /\ TallyOK'
BY DEF SilenceOK, TallyOK

-----------------------------------------------------------------------------
(* The process.                                                             *)

(* The steps of the process before its main loop.                           *)
LEMMA StartKeeps == ASSUME IInv, Start PROVE IInv'
<1>1. /\ FlagsOK /\ CountsOK /\ DataOK /\ FramesOK /\ WireOK /\ EapOK
      /\ SilenceOK /\ TallyOK
  BY DEF IInv, Typed
<1>2. /\ proc' = "wait" /\ stop' = FALSE /\ listening' = TRUE /\ alive' = FALSE
      /\ beating' = FALSE /\ Reset
      /\ UNCHANGED <<quit, cks, info, frames, sendVars, hbVars, eapVars, faults, crossed>>
  BY DEF Start
<1>3. FlagsOK'
  <2>1. heard' \in BOOLEAN
    BY <1>1, <1>2, Resets DEF hbVars
  <2> QED
    BY <1>1, <1>2, <2>1 DEF FlagsOK, sendVars, hbVars, eapVars
<1>4. CountsOK' /\ SilenceOK' /\ TallyOK'
  BY <1>1, <1>2, Resets DEF CountsOK, hbVars, eapVars
<1>5. DataOK' /\ FramesOK' /\ WireOK' /\ EapOK'
  BY <1>1, <1>2 DEF DataOK, FramesOK, WireOK, EapOK, sendVars, eapVars
<1> QED
  BY <1>3, <1>4, <1>5 DEF IInv, Typed

LEMMA BeginKeeps == ASSUME IInv, Begin \/ GiveUp \/ SendAlive \/ Restart PROVE IInv'
<1>1. /\ FlagsOK /\ CountsOK /\ DataOK /\ FramesOK /\ WireOK /\ EapOK
      /\ SilenceOK /\ TallyOK
  BY DEF IInv, Typed
<1>2. /\ UNCHANGED <<timeout, cks, info, frames, hbVars, eapVars, faults, silenceVars>>
      /\ proc' \in {"start", "run"} /\ UNCHANGED <<stop, listening>>
      /\ quit' \in BOOLEAN /\ alive' \in BOOLEAN
  <2>1. CASE Begin
    BY <1>1, <2>1 DEF Begin, FlagsOK, dataVars
  <2>2. CASE GiveUp
    BY <1>1, <2>2 DEF GiveUp, FlagsOK, dataVars
  <2>3. CASE SendAlive
    BY <1>1, <2>3 DEF SendAlive, Running, FlagsOK, procVars
  <2>4. CASE Restart
    BY <1>1, <2>4 DEF Restart, FlagsOK, dataVars
  <2> QED
    BY <2>1, <2>2, <2>3, <2>4
<1>3. WireOK' /\ repeat' \in BOOLEAN
  <2>1. CASE UNCHANGED sendVars
    BY <1>1, <2>1 DEF sendVars, WireOK, FlagsOK
  <2>2. CASE \E p \in Packet : Send(p)
    BY <1>1, <2>2, Sends
  <2>3. CASE Begin
    BY <2>2, <2>3, PlainPackets DEF Begin
  <2>4. CASE SendAlive
    BY <1>1, <2>1, <2>2, <2>4, Alives DEF SendAlive
  <2> QED
    BY <2>1, <2>3, <2>4 DEF GiveUp, Restart
<1>4. FlagsOK'
  BY <1>1, <1>2, <1>3 DEF FlagsOK, hbVars, eapVars, silenceVars, beatVars
<1>5. CountsOK' /\ SilenceOK' /\ TallyOK'
  BY <1>1, <1>2, Untouched DEF CountsOK, hbVars, eapVars, silenceVars, beatVars
<1>6. DataOK' /\ FramesOK' /\ EapOK'
  BY <1>1, <1>2 DEF DataOK, FramesOK, EapOK, eapVars
<1> QED
  BY <1>3, <1>4, <1>5, <1>6 DEF IInv, Typed

(* The answers of the handshake, and all of the heartbeat but the last.     *)
LEMMA LoopKeeps ==
  ASSUME IInv, OnResponseAlive \/ OnResponseInfo \/ OnResponseHeartbeatAlive \/ OnHeartbeat2
  PROVE  IInv'
<1>1. /\ FlagsOK /\ CountsOK /\ DataOK /\ FramesOK /\ WireOK /\ EapOK
      /\ SilenceOK /\ TallyOK
  BY DEF IInv, Typed
<1>2. PICK kind : Handle(kind)
  BY DEF OnResponseAlive, OnResponseInfo, OnResponseHeartbeatAlive, OnHeartbeat2
<1>3. /\ FramesOK' /\ Head(frames) \in Frame /\ crossed' \in BOOLEAN
      /\ UNCHANGED <<procVars, alive, listening, eapVars>>
  BY <1>1, <1>2, Handles DEF Handle, FlagsOK
<1>4. WireOK' /\ repeat' \in BOOLEAN /\ faults' \in 0 .. MaxFaults
  <2>1. CASE OnResponseInfo
    BY <1>1, <2>1, Cancels DEF OnResponseInfo
  <2>2. CASE OnResponseAlive \/ OnResponseHeartbeatAlive \/ OnHeartbeat2
    <3>1. UNCHANGED faults /\ \E p \in Packet : Send(p)
      <4>1. Head(frames).info \in 0 .. MaxLogins
        BY <1>3 DEF Frame
      <4> QED
        BY <2>2, <4>1, PlainPackets, BeatPackets
           DEF OnResponseAlive, OnResponseHeartbeatAlive, OnHeartbeat2
    <3> QED
      BY <1>1, <3>1, Sends DEF CountsOK
  <2> QED
    BY <2>1, <2>2
<1>5. DataOK'
  <2>1. login' = login
    BY <1>3 DEF eapVars
  <2>2. CASE OnResponseAlive
    <3>1. cks' = [cks EXCEPT !.applied = TRUE] /\ info' = info
      BY <2>2 DEF OnResponseAlive
    <3> QED
      BY <1>1, <2>1, <3>1 DEF DataOK, Key
  <2>3. CASE OnResponseInfo
    BY <1>1, <1>3, <2>1, <2>3 DEF OnResponseInfo, DataOK, Frame
  <2>4. CASE OnResponseHeartbeatAlive \/ OnHeartbeat2
    BY <1>1, <2>1, <2>4 DEF OnResponseHeartbeatAlive, OnHeartbeat2, DataOK
  <2> QED
    BY <2>2, <2>3, <2>4
<1>6. UNCHANGED <<timeout, cnt, beatVars>> /\ hbTok' \in BOOLEAN
  BY <1>1 DEF OnResponseAlive, OnResponseInfo, OnResponseHeartbeatAlive, OnHeartbeat2, hbVars,
     FlagsOK
<1>7. hb' = hb \/ (hb = "off" /\ hb' = "top")
  BY DEF OnResponseAlive, OnResponseInfo, OnResponseHeartbeatAlive, OnHeartbeat2, hbVars
<1>8. FlagsOK'
  BY <1>1, <1>3, <1>4, <1>6, <1>7 DEF FlagsOK, procVars, eapVars, beatVars
<1>9. CountsOK'
  BY <1>1, <1>3, <1>4, <1>6 DEF CountsOK, eapVars, silenceVars, beatVars
<1>10. SilenceOK' /\ TallyOK'
  BY <1>1, <1>6, <1>7 DEF SilenceOK, TallyOK, silenceVars, beatVars
<1>11. EapOK'
  BY <1>1, <1>3 DEF EapOK, eapVars
<1> QED
  BY <1>3, <1>4, <1>5, <1>8, <1>9, <1>10, <1>11 DEF IInv, Typed

(* The last packet of the heartbeat resets the counter.                     *)
LEMMA BeatKeeps == ASSUME IInv, OnHeartbeat4 PROVE IInv'
<1>1. /\ FlagsOK /\ CountsOK /\ DataOK /\ FramesOK /\ WireOK /\ EapOK
      /\ SilenceOK /\ TallyOK
  BY DEF IInv, Typed
<1>2. /\ Handle("Heartbeat4") /\ Cancel /\ Reset /\ beating' \in BOOLEAN
      /\ UNCHANGED <<cks, info, hbVars>>
  BY <1>1 DEF OnHeartbeat4, FlagsOK
<1>3. /\ FramesOK' /\ crossed' \in BOOLEAN
      /\ UNCHANGED <<procVars, alive, listening, eapVars>>
  BY <1>1, <1>2, Handles DEF Handle, FlagsOK
<1>4. WireOK' /\ repeat' \in BOOLEAN /\ faults' \in 0 .. MaxFaults
  BY <1>1, <1>2, Cancels
<1>5. FlagsOK'
  BY <1>1, <1>2, <1>3, <1>4, Resets DEF FlagsOK, procVars, hbVars, eapVars
<1>6. CountsOK' /\ SilenceOK' /\ TallyOK'
  BY <1>1, <1>2, <1>3, <1>4, Resets DEF CountsOK, hbVars, eapVars
<1>7. DataOK' /\ EapOK'
  BY <1>1, <1>2, <1>3 DEF DataOK, EapOK, eapVars
<1> QED
  BY <1>3, <1>4, <1>5, <1>6, <1>7 DEF IInv, Typed

(* A new process begins with everything but the races fresh.                *)
LEMMA RebuildKeeps == ASSUME IInv, Rebuild PROVE IInv'
<1>1. FlagsOK /\ CountsOK /\ DataOK /\ EapOK
  BY DEF IInv, Typed
<1>2. Fresh /\ eapQ' = IF login = 0 THEN eapQ ELSE Append(eapQ, Msg("Success", login))
  BY DEF Rebuild
<1>3. FlagsOK'
  BY <1>1, <1>2 DEF Fresh, FlagsOK
<1>4. CountsOK'
  BY <1>1, <1>2, CountIsNat DEF Fresh, CountsOK
<1>5. DataOK'
  <2>1. cks' = Raw(0) /\ info' = 0 /\ login' = login
    BY <1>2 DEF Fresh
  <2>2. 0 \in 0 .. MaxLogins
    BY SessionAssumption
  <2> QED
    BY <1>1, <2>1, <2>2, RawIsKey DEF DataOK
<1>6. FramesOK' /\ WireOK'
  <2>1. frames' = <<>> /\ wire' = <<>> /\ request' = Pkt("none")
    BY <1>2 DEF Fresh, NoPacket
  <2>2. Pkt("none") \in Packet
    BY PlainPackets
  <2>3. FramesOK'
    BY <2>1, ShortQueues DEF FramesOK, MaxFrames
  <2>4. WireOK'
    BY <2>1, <2>2, ShortQueues DEF WireOK, MaxWire
  <2> QED
    BY <2>3, <2>4
<1>7. EapOK'
  <2>1. Msg("Success", login) \in Message
    BY <1>1, Messages DEF DataOK
  <2> QED
    BY <1>1, <1>2, <2>1, QueueAppend DEF EapOK
<1>8. SilenceOK' /\ TallyOK'
  BY <1>2, CountIsNat DEF Fresh, SilenceOK, TallyOK
<1> QED
  BY <1>3, <1>4, <1>5, <1>6, <1>7, <1>8 DEF IInv, Typed

-----------------------------------------------------------------------------
(* The other threads.                                                       *)

(* The listener writes a bare md5, or one of the flags.                     *)
LEMMA ListenerKeeps == ASSUME IInv, Listener PROVE IInv'
<1>1. /\ FlagsOK /\ CountsOK /\ DataOK /\ FramesOK /\ WireOK /\ EapOK
      /\ SilenceOK /\ TallyOK
  BY DEF IInv, Typed
<1>2. PICK state : Receive(state)
  BY DEF Listener, ListenSuccess, ListenStop, ListenQuit
<1>3. /\ UNCHANGED <<proc, alive, timeout, info, frames, sendVars, hbVars, login, authed,
                     sleeper, upsets, faults, silenceVars>>
      /\ Head(eapQ) \in Message /\ EapOK'
  <2>1. eapQ # <<>> /\ eapQ' = Tail(eapQ)
    BY <1>2 DEF Receive
  <2> QED
    BY <1>1, <1>2, <2>1, QueueTake DEF Receive, EapOK
<1>4. cks' \in Key
  <2>1. Head(eapQ).md5 \in 0 .. MaxLogins
    BY <1>3 DEF Message
  <2> QED
    BY <1>1, <2>1, RawIsKey DEF Listener, ListenSuccess, ListenStop, ListenQuit, DataOK
<1>5. stop' \in BOOLEAN /\ quit' \in BOOLEAN /\ listening' \in BOOLEAN
  BY <1>1 DEF Listener, ListenSuccess, ListenStop, ListenQuit, FlagsOK
<1>6. FlagsOK'
  BY <1>1, <1>3, <1>5 DEF FlagsOK, sendVars, hbVars, silenceVars, beatVars
<1>7. CountsOK' /\ SilenceOK' /\ TallyOK'
  BY <1>1, <1>3, Untouched DEF CountsOK, hbVars, silenceVars, beatVars
<1>8. DataOK' /\ FramesOK' /\ WireOK'
  BY <1>1, <1>3, <1>4 DEF DataOK, FramesOK, WireOK, sendVars
<1> QED
  BY <1>3, <1>6, <1>7, <1>8 DEF IInv, Typed

(* The heartbeat thread.                                                    *)
LEMMA HeartbeatKeeps == ASSUME IInv, Heartbeat PROVE IInv'
<1>1. /\ FlagsOK /\ CountsOK /\ DataOK /\ FramesOK /\ WireOK /\ EapOK
      /\ SilenceOK /\ TallyOK
  BY DEF IInv, Typed
<1>2. UNCHANGED <<proc, stop, cks, info, frames, sendVars, listening, eapVars, faults, races,
                  beating, crossed>>
  BY DEF Heartbeat, HbTop, HbUnpark, HbPeriod, HbLoad, HbDeclare, HbStore, procVars, dataVars,
     silenceVars, beatVars
<1>3. quit' \in BOOLEAN /\ alive' \in BOOLEAN /\ hbTok' \in BOOLEAN /\ heard' \in BOOLEAN
  BY <1>1 DEF Heartbeat, HbTop, HbUnpark, HbPeriod, HbLoad, HbDeclare, HbStore, procVars,
     dataVars, silenceVars, beatVars, FlagsOK
<1>4. hb' \in {"top", "parked", "sleep", "load", "store", "done"}
  BY DEF Heartbeat, HbTop, HbUnpark, HbPeriod, HbLoad, HbDeclare, HbStore
<1>5. FlagsOK'
  BY <1>1, <1>2, <1>3, <1>4 DEF FlagsOK, sendVars, eapVars
<1>6. DataOK' /\ FramesOK' /\ WireOK' /\ EapOK'
  BY <1>1, <1>2 DEF DataOK, FramesOK, WireOK, EapOK, sendVars, eapVars
<1>7. CountsOK' /\ SilenceOK' /\ TallyOK'
  <2>1. CASE HbTop \/ HbUnpark
    <3>1. /\ UNCHANGED <<timeout, cnt, heard, quiet, races, upsets, faults>>
          /\ hb \in {"top", "parked"} /\ hb' \notin {"load", "store"}
      BY <2>1 DEF HbTop, HbUnpark, eapVars, silenceVars, beatVars
    <3> QED
      BY <1>1, <3>1 DEF CountsOK, SilenceOK, TallyOK
  <2>2. CASE HbPeriod
    <3>1. /\ UNCHANGED <<timeout, cnt, races, upsets, faults>>
          /\ hb = "sleep" /\ hb' = "load"
          /\ heard' = FALSE
          /\ quiet' = IF heard THEN 0 ELSE IF quiet > Count THEN quiet ELSE quiet + 1
      BY <2>2 DEF HbPeriod, dataVars, eapVars
    <3>2. quiet' \in 0 .. Count + 1 /\ (~heard => quiet' >= 1)
      BY <1>1, <3>1, CountIsNat DEF CountsOK
    <3>3. ~heard /\ timeout <= quiet + 1 /\ timeout <= Count + 1 => timeout <= quiet'
      BY <1>1, <3>1, CountIsNat DEF CountsOK
    <3>4. heard => timeout = 0 /\ timeout <= quiet'
      BY <1>1, <3>1 DEF SilenceOK
    <3> QED
      BY <1>1, <3>1, <3>2, <3>3, <3>4 DEF CountsOK, SilenceOK, TallyOK
  <2>3. CASE HbLoad
    <3>1. /\ UNCHANGED <<timeout, heard, quiet, races, upsets, faults>>
          /\ hb = "load" /\ hb' = "store" /\ cnt' = timeout
          /\ timeout <= Count
      BY <2>3 DEF HbLoad, dataVars, eapVars, silenceVars, beatVars
    <3> QED
      BY <1>1, <3>1 DEF CountsOK, SilenceOK, TallyOK
  <2>4. CASE HbDeclare
    <3>1. /\ UNCHANGED <<timeout, heard, quiet, races, upsets, faults>>
          /\ hb = "load" /\ hb' = "done" /\ cnt' = timeout
      BY <2>4 DEF HbDeclare, dataVars, eapVars, silenceVars, beatVars
    <3>2. timeout <= quiet => timeout <= quiet + 1
      BY <1>1, CountIsNat DEF CountsOK
    <3> QED
      BY <1>1, <3>1, <3>2 DEF CountsOK, SilenceOK, TallyOK
  <2>5. CASE HbStore
    <3>1. /\ UNCHANGED <<cnt, heard, quiet, races, upsets, faults>>
          /\ hb = "store" /\ hb' = "top" /\ timeout' = (cnt + 1) % 256
      BY <2>5 DEF HbStore, eapVars, silenceVars, beatVars
    <3>2. timeout' \in 0 .. 255 /\ timeout' <= cnt + 1
      BY <1>1, <3>1, ByteStays DEF CountsOK
    <3>3. cnt <= Count => timeout' <= Count + 1
      BY <1>1, <3>2, CountIsNat DEF CountsOK
    <3>4. cnt <= quiet => timeout' <= quiet + 1
      BY <1>1, <3>2, CountIsNat DEF CountsOK
    <3> QED
      BY <1>1, <3>1, <3>2, <3>3, <3>4 DEF CountsOK, SilenceOK, TallyOK
  <2> QED
    BY <2>1, <2>2, <2>3, <2>4, <2>5 DEF Heartbeat
<1> QED
  BY <1>5, <1>6, <1>7 DEF IInv, Typed

(* The sending threads, the server and the network move packets and frames. *)
LEMMA WireKeeps == ASSUME IInv, Resend \/ ServerTake \/ Lose PROVE IInv'
<1>1. /\ FlagsOK /\ CountsOK /\ DataOK /\ FramesOK /\ WireOK /\ EapOK
      /\ SilenceOK /\ TallyOK
  BY DEF IInv, Typed
<1>2. UNCHANGED <<procVars, dataVars, request, repeat, listening, hbVars, eapVars, silenceVars>>
  BY DEF Resend, ServerTake, Lose
<1>3. faults' \in 0 .. MaxFaults
  BY <1>1, SessionAssumption DEF Resend, ServerTake, Lose, Fault, Bounded, CountsOK
<1>4. WireOK'
  <2>1. CASE wire # <<>> /\ wire' = Tail(wire)
    BY <1>1, <1>2, <2>1, QueueTake DEF WireOK, MaxWire
  <2>2. CASE wire' = <<request>>
    BY <1>1, <1>2, <2>2, ShortQueues DEF WireOK, MaxWire
  <2>3. CASE UNCHANGED wire
    BY <1>1, <1>2, <2>3 DEF WireOK
  <2> QED
    BY <2>1, <2>2, <2>3 DEF Resend, ServerTake, Lose
<1>5. FramesOK'
  <2>1. CASE frames # <<>> /\ frames' = Tail(frames)
    BY <1>1, <2>1, QueueTake DEF FramesOK, MaxFrames
  <2>2. CASE UNCHANGED frames
    BY <1>1, <2>2 DEF FramesOK
  <2>3. CASE ServerTake /\ Answerable(Head(wire)) /\ Len(frames) < MaxFrames
    <3>1. wire # <<>> /\ frames' = Append(frames, Answer(Head(wire)))
      BY <2>3 DEF ServerTake
    <3>2. Head(wire) \in Packet /\ Head(wire).kind # "none"
      BY <1>1, <2>3, <3>1, QueueTake DEF WireOK, Answerable
    <3>3. Answer(Head(wire)) \in Frame
      BY <1>1, <3>2, AnswerIsFrame
    <3> QED
      BY <1>1, <2>3, <3>1, <3>3, QueueAppend DEF FramesOK, MaxFrames
  <2> QED
    BY <2>1, <2>2, <2>3 DEF Resend, ServerTake, Lose
<1>6. FlagsOK'
  BY <1>1, <1>2 DEF FlagsOK, procVars, dataVars, hbVars, eapVars, silenceVars, beatVars
<1>7. CountsOK' /\ SilenceOK' /\ TallyOK'
  BY <1>1, <1>2, <1>3, Untouched DEF CountsOK, dataVars, hbVars, eapVars, silenceVars, beatVars
<1>8. DataOK' /\ EapOK'
  BY <1>1, <1>2 DEF DataOK, EapOK, dataVars, eapVars
<1> QED
  BY <1>4, <1>5, <1>6, <1>7, <1>8 DEF IInv, Typed

(* EAP logs in, or gives its session up.                                    *)
LEMMA EapKeeps == ASSUME IInv, EapLogin \/ EapUpset \/ EapLate PROVE IInv'
<1>1. /\ FlagsOK /\ CountsOK /\ DataOK /\ FramesOK /\ WireOK /\ EapOK
      /\ SilenceOK /\ TallyOK
  BY DEF IInv, Typed
<1>2. /\ UNCHANGED <<procVars, dataVars, frames, sendVars, listening, hbVars>>
      /\ UNCHANGED <<heard, quiet, races, crossed>> /\ beating' \in BOOLEAN
  BY <1>1 DEF EapLogin, EapUpset, EapLate, FlagsOK, silenceVars, beatVars
<1>3. authed' \in BOOLEAN /\ sleeper' \in BOOLEAN
  BY <1>1 DEF EapLogin, EapUpset, EapLate, FlagsOK
<1>4. /\ upsets' \in 0 .. MaxUpsets /\ login' \in 0 .. MaxLogins
      /\ faults' \in 0 .. MaxFaults
  BY <1>1, SessionAssumption DEF EapLogin, EapUpset, EapLate, Fault, Bounded, CountsOK, DataOK
<1>5. EapOK'
  <2>1. CASE UNCHANGED eapQ
    BY <1>1, <2>1 DEF EapOK
  <2>2. CASE \E state \in {"Success", "Stop", "Quit"}, n \in 0 .. MaxLogins :
               eapQ' = Append(eapQ, Msg(state, n))
    BY <1>1, <2>2, Messages, QueueAppend DEF EapOK
  <2>3. CASE EapLogin
    <3>1. login + 1 \in 0 .. MaxLogins /\ eapQ' = Append(eapQ, Msg("Success", login + 1))
      BY <1>1, <2>3, SessionAssumption DEF EapLogin, DataOK
    <3> QED
      BY <2>2, <3>1
  <2>4. CASE EapUpset \/ EapLate
    <3>1. 0 \in 0 .. MaxLogins
      BY SessionAssumption
    <3> QED
      BY <2>1, <2>2, <2>4, <3>1 DEF EapUpset, EapLate
  <2> QED
    BY <2>3, <2>4
<1>6. FlagsOK'
  BY <1>1, <1>2, <1>3 DEF FlagsOK, procVars, dataVars, sendVars, hbVars
<1>7. CountsOK' /\ SilenceOK' /\ TallyOK'
  BY <1>1, <1>2, <1>4, Untouched DEF CountsOK, dataVars, hbVars
<1>8. DataOK' /\ FramesOK' /\ WireOK'
  BY <1>1, <1>2, <1>4 DEF DataOK, FramesOK, WireOK, dataVars, sendVars
<1> QED
  BY <1>5, <1>6, <1>7, <1>8 DEF IInv, Typed

(* A worker breaks.                                                         *)
LEMMA BrokenKeeps == ASSUME IInv, Broken PROVE IInv'
<1>1. /\ FlagsOK /\ CountsOK /\ DataOK /\ FramesOK /\ WireOK /\ EapOK
      /\ SilenceOK /\ TallyOK
  BY DEF IInv, Typed
<1>2. /\ quit' = TRUE
      /\ UNCHANGED <<proc, stop, dataVars, frames, sendVars, listening, hbVars, eapVars,
                     silenceVars>>
  BY DEF Broken
<1>3. faults' \in 0 .. MaxFaults
  BY <1>1, SessionAssumption DEF Broken, Fault, Bounded, CountsOK
<1>4. FlagsOK'
  BY <1>1, <1>2 DEF FlagsOK, dataVars, sendVars, hbVars, eapVars, silenceVars, beatVars
<1>5. CountsOK' /\ SilenceOK' /\ TallyOK'
  BY <1>1, <1>2, <1>3, Untouched DEF CountsOK, dataVars, hbVars, eapVars, silenceVars, beatVars
<1>6. DataOK' /\ FramesOK' /\ WireOK' /\ EapOK'
  BY <1>1, <1>2 DEF DataOK, FramesOK, WireOK, EapOK, dataVars, sendVars, eapVars
<1> QED
  BY <1>4, <1>5, <1>6 DEF IInv, Typed

-----------------------------------------------------------------------------
(* The specification.                                                       *)

(* The beginning.                                                           *)
LEMMA InvInit == ASSUME Init PROVE IInv
<1>1. FlagsOK
  BY DEF Init, FlagsOK
<1>2. CountsOK
  BY CountIsNat, SessionAssumption DEF Init, CountsOK
<1>3. DataOK
  <2>1. 0 \in 0 .. MaxLogins
    BY SessionAssumption
  <2> QED
    BY <2>1, RawIsKey DEF Init, DataOK
<1>4. FramesOK /\ EapOK
  BY ShortQueues DEF Init, FramesOK, EapOK, MaxFrames
<1>5. WireOK
  BY PlainPackets, ShortQueues DEF Init, NoPacket, WireOK, MaxWire
<1>6. SilenceOK /\ TallyOK
  BY CountIsNat DEF Init, SilenceOK, TallyOK
<1> QED
  BY <1>1, <1>2, <1>3, <1>4, <1>5, <1>6 DEF IInv, Typed

(* Every step.                                                              *)
LEMMA InvNext == ASSUME IInv, [Next]_vars PROVE IInv'
<1>1. CASE Process
  BY <1>1, StartKeeps, BeginKeeps, LoopKeeps, BeatKeeps, RebuildKeeps DEF Process
<1>2. CASE Listener
  BY <1>2, ListenerKeeps
<1>3. CASE Heartbeat
  BY <1>3, HeartbeatKeeps
<1>4. CASE Resend \/ ServerTake
  BY <1>4, WireKeeps
<1>5. CASE Environment
  BY <1>5, WireKeeps, EapKeeps, BrokenKeeps DEF Environment
<1>6. CASE UNCHANGED vars
  <2> USE <1>6 DEF vars
  <2>1. FlagsOK' /\ CountsOK'
    BY DEF IInv, Typed, FlagsOK, CountsOK
  <2>2. DataOK' /\ FramesOK' /\ WireOK' /\ EapOK'
    BY DEF IInv, Typed, DataOK, FramesOK, WireOK, EapOK
  <2>3. SilenceOK' /\ TallyOK'
    BY Untouched DEF IInv
  <2> QED
    BY <2>1, <2>2, <2>3 DEF IInv, Typed
<1> QED
  BY <1>1, <1>2, <1>3, <1>4, <1>5, <1>6 DEF Next

LEMMA Invariance == Spec => []IInv
BY InvInit, InvNext, PTL DEF Spec

(* Only HbDeclare ends the heartbeat thread at its look at the counter.     *)
LEMMA OnlyDeclares ==
  ASSUME Next, hb = "load", hb' = "done"
  PROVE  HbDeclare
<1>1. CASE Process
  BY <1>1 DEF Process, Start, Begin, GiveUp, SendAlive, Restart, Rebuild, Fresh, OnResponseAlive,
     OnResponseInfo, OnResponseHeartbeatAlive, OnHeartbeat2, OnHeartbeat4, hbVars
<1>2. CASE Listener
  BY <1>2 DEF Listener, ListenSuccess, ListenStop, ListenQuit, Receive, hbVars
<1>3. CASE Heartbeat
  BY <1>3 DEF Heartbeat, HbTop, HbUnpark, HbPeriod, HbLoad, HbStore
<1>4. CASE Resend \/ ServerTake \/ Environment
  BY <1>4 DEF Resend, ServerTake, Environment, Broken, Lose, EapLogin, EapUpset, EapLate, hbVars
<1> QED
  BY <1>1, <1>2, <1>3, <1>4 DEF Next

(* The heartbeat thread gives the process up only after a whole period   *)
(* in which no Heartbeat4 came, although resets race its load and store of  *)
(* the counter, and after more than the configured number of them as long   *)
(* as no reset was lost.  And every variable has its type.                  *)
THEOREM SilenceBeforeTheEnd == Spec => GivenUpAfterSilence
<1>1. IInv => TypeOK
  BY DEF IInv, Typed, FlagsOK, CountsOK, DataOK, FramesOK, WireOK, EapOK, TypeOK
<1>2. ASSUME IInv, [Next]_vars
      PROVE  [hb = "load" /\ hb' = "done" => quiet >= 1 /\ (races = 0 => quiet > Count)]_vars
  <2> SUFFICES ASSUME Next, hb = "load", hb' = "done"
               PROVE  quiet >= 1 /\ (races = 0 => quiet > Count)
    BY <1>2
  <2>1. timeout > Count
    BY OnlyDeclares DEF HbDeclare
  <2>2. timeout \in 0 .. 255 /\ quiet \in 0 .. Count + 1
    BY <1>2 DEF IInv, Typed, CountsOK
  <2>3. quiet >= 1
    BY <1>2, <2>1, <2>2, CountIsNat DEF IInv, SilenceOK
  <2>4. races = 0 => quiet > Count
    BY <1>2, <2>1, <2>2, CountIsNat DEF IInv, TallyOK
  <2> QED
    BY <2>3, <2>4
<1> QED
  BY Invariance, <1>1, <1>2, PTL DEF Spec, GivenUpAfterSilence
=============================================================================
