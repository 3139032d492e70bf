-------------------------- MODULE EapSessionProofs ---------------------------
(***************************************************************************)
(* EapSession for any retry count and all bounds: what the UDP side is told *)
(* carries a key, and the heartbeat declares a session dead only after a    *)
(* silent period.                                                           *)
(***************************************************************************)
EXTENDS EapSession, TLAPS

(* While the md5 is k, a response on its way answers a challenge, and so    *)
(* does the request a Success grants.                                       *)
Sendable(k) == {p \in Packet : p.kind = "Response" => p.key # 0 /\ k # 0}

Receivable(k) == {f \in Frame : /\ f.kind = "Challenge" => f.n \in 1 .. Keys
                                /\ f.kind = "Success" => k # 0}

WireOK ==
  /\ wire \in Seq(Sendable(md5)) /\ Len(wire) <= MaxWire
  /\ request \in Sendable(md5)

FramesOK == frames \in Seq(Receivable(md5)) /\ Len(frames) <= MaxFrames

QueuesOK == md5 \in 0 .. Keys /\ WireOK /\ FramesOK

StateOK ==
  /\ proc \in {"start", "logoff", "run"}
  /\ stop \in BOOLEAN /\ quit \in BOOLEAN /\ identity \in BOOLEAN /\ repeat \in BOOLEAN
  /\ timeout \in 0 .. 255 /\ cnt \in 0 .. 255
  /\ hb \in {"off", "top", "parked", "sleep", "load", "declare", "store", "done"}
  /\ hbTok \in BOOLEAN /\ lateStop \in BOOLEAN /\ reported \in BOOLEAN
  /\ server \in {"none", "identity", "challenged", "authed"} /\ challenge \in 0 .. Keys
  /\ server = "challenged" => challenge # 0
  /\ faults \in 0 .. MaxFaults
  /\ heard \in BOOLEAN /\ quiet \in 0 .. Count + 1 /\ quietThen \in 0 .. Count + 1
  /\ races \in 0 .. MaxRaces

ToldOK ==
  /\ told \in {"None", "Success", "Stop", "Sleep", "Quit"}
  /\ toldMd5 \in 0 .. Keys
  /\ told = "Success" => toldMd5 # 0

(* The invariant of the key: a frame or packet that leads to a SUCCESS      *)
(* exists only while there is a key, and a rebuilt process, which has none, *)
(* has neither.                                                             *)
Keyed == QueuesOK /\ StateOK /\ ToldOK

(* The invariant of the silence: the counter is 0 once a reset has fallen    *)
(* into the period, and after a period either it is 0 or the period was     *)
(* silent.                                                                  *)
SilenceOK ==
  /\ heard => hb = "sleep" /\ timeout = 0
  /\ hb = "load" => quiet >= 1 \/ timeout = 0
  /\ hb = "declare" => quietThen >= 1

(* While no reset was lost the counter is no larger than the number of      *)
(* silent periods, but for the one that a reset before its load may add.    *)
Tally ==
  \/ quiet > Count
  \/ hb \in {"declare", "store"} /\ cnt <= quiet
  \/ hb = "load" /\ timeout <= quiet
  \/ hb \notin {"load", "declare", "store"} /\ timeout <= quiet + 1

TallyOK == races = 0 => Tally /\ (hb = "declare" => quietThen > Count)

-----------------------------------------------------------------------------
(* Numbers and queues.                                                      *)

(* The retry count is capped.                                               *)
LEMMA CountIsNat == Count \in 0 .. 255
BY SessionAssumption DEF Count

(* The counter wraps within its width.                                      *)
LEMMA ByteStays ==
  ASSUME NEW n \in 0 .. 255
  PROVE  (n + 1) % 256 \in 0 .. 255 /\ (n + 1) % 256 <= n + 1
OBVIOUS

(* Challenges are numbered from 1.                                          *)
LEMMA FollowingIsKey == ASSUME NEW n \in 0 .. Keys PROVE Following(n) \in 1 .. Keys
BY SessionAssumption DEF Following

(* What is taken from a queue was in it, and so is the rest.                *)
LEMMA QueueTake ==
  ASSUME NEW S, NEW q \in Seq(S), q # <<>>
  PROVE  Head(q) \in S /\ Tail(q) \in Seq(S) /\ Len(Tail(q)) = Len(q) - 1
OBVIOUS

(* A queue that grows holds what it held and what was added.                *)
LEMMA QueueAppend ==
  ASSUME NEW S, NEW q \in Seq(S), NEW m \in S
  PROVE  Append(q, m) \in Seq(S) /\ Len(Append(q, m)) = Len(q) + 1
OBVIOUS

(* The empty queue, and a queue of one.                                     *)
LEMMA ShortQueues ==
  ASSUME NEW S, NEW m \in S
  PROVE  <<>> \in Seq(S) /\ Len(<<>>) = 0 /\ <<m>> \in Seq(S) /\ Len(<<m>>) = 1
OBVIOUS

(* A queue of some packets is a queue of more packets.                      *)
LEMMA QueueWidens ==
  ASSUME NEW S, NEW T, S \subseteq T, NEW q \in Seq(S)
  PROVE  q \in Seq(T)
OBVIOUS

(* Packets without a key are always in order.                               *)
LEMMA PlainPackets ==
  ASSUME NEW k, NEW kind \in {"none", "Logoff", "Start", "Identity"}
  PROVE  Pkt(kind) \in Sendable(k)
BY SessionAssumption DEF Pkt, Sendable, Packet

(* A response carries the key of a challenge.                               *)
LEMMA Responses ==
  ASSUME NEW k \in 1 .. Keys
  PROVE  [kind |-> "Response", key |-> k] \in Sendable(k)
BY SessionAssumption DEF Sendable, Packet

(* Frames that neither ask for a key nor grant a login.                     *)
LEMMA PlainFrames ==
  ASSUME NEW k, NEW kind \in {"Identity", "Stop", "Sleep", "Continue"}, NEW n \in {0, 1, 2}
  PROVE  Frm(kind, n) \in Receivable(k)
BY SessionAssumption DEF Frm, Receivable, Frame

(* A challenge has a number.                                                *)
LEMMA Challenges ==
  ASSUME NEW k, NEW n \in 1 .. Keys
  PROVE  Frm("Challenge", n) \in Receivable(k)
BY SessionAssumption DEF Frm, Receivable, Frame

(* A login is granted to one who has a key.                                 *)
LEMMA Successes ==
  ASSUME NEW k, k # 0
  PROVE  Frm("Success", 0) \in Receivable(k)
BY SessionAssumption DEF Frm, Receivable, Frame

(* What is in order without a key is in order with one.                     *)
LEMMA KeyWidens ==
  ASSUME NEW k, NEW n \in 1 .. Keys
  PROVE  Sendable(k) \subseteq Sendable(n) /\ Receivable(k) \subseteq Receivable(n)
BY DEF Sendable, Receivable

(* Everything in order has its type.                                        *)
LEMMA InOrderHasType ==
  ASSUME NEW k
  PROVE  Sendable(k) \subseteq Packet /\ Receivable(k) \subseteq Frame
BY DEF Sendable, Receivable

-----------------------------------------------------------------------------
(* The queues.                                                              *)

(* A packet in order may be sent.                                           *)
LEMMA Sends ==
  ASSUME WireOK, NEW p \in Sendable(md5), NEW r, Send(p, r), md5' = md5
  PROVE  WireOK'
<1>1. /\ Len(wire) < MaxWire /\ wire' = Append(wire, p) /\ request' = p
      /\ wire \in Seq(Sendable(md5))
  BY DEF Send, WireOK
<1>2. wire' \in Seq(Sendable(md5)) /\ Len(wire') = Len(wire) + 1 /\ Len(wire) \in Nat
  BY <1>1, QueueAppend
<1> QED
  BY <1>1, <1>2, SessionAssumption DEF WireOK

(* A frame in order may be delivered, or lost.                              *)
LEMMA Delivers ==
  ASSUME FramesOK, NEW f \in Receivable(md5), Deliver(f), md5' = md5
  PROVE  FramesOK'
<1>1. CASE Len(frames) < MaxFrames
  BY <1>1, QueueAppend, SessionAssumption DEF FramesOK, Deliver
<1>2. CASE ~(Len(frames) < MaxFrames)
  BY <1>2 DEF FramesOK, Deliver
<1> QED
  BY <1>1, <1>2

(* A frame that is handled was in order, and those behind it stay.          *)
LEMMA Handles ==
  ASSUME FramesOK, NEW kind, Handle(kind)
  PROVE  /\ Head(frames) \in Receivable(md5) /\ Head(frames).kind = kind
         /\ frames' \in Seq(Receivable(md5)) /\ Len(frames') <= MaxFrames
BY QueueTake, SessionAssumption DEF FramesOK, Handle

(* The steps of the main loop that take a frame and leave the key alone.    *)
LEMMA LoopKeepsQueues ==
  ASSUME QueuesOK,
         \/ OnKeepalive \/ OnForeignIdentity \/ OnIdentity
         \/ OnSuccess \/ OnStop \/ OnSleep \/ OnContinue
  PROVE  QueuesOK'
<1>1. CASE OnKeepalive \/ OnIdentity
  <2>1. /\ Handle("Identity") /\ md5' = md5
        /\ \E r : Send(Pkt("Identity"), r)
    BY <1>1 DEF OnKeepalive, OnIdentity, sessionVars
  <2>2. WireOK'
    BY <2>1, Sends, PlainPackets DEF QueuesOK
  <2>3. FramesOK'
    BY <2>1, Handles DEF QueuesOK, FramesOK
  <2> QED
    BY <2>1, <2>2, <2>3 DEF QueuesOK
<1>2. CASE OnForeignIdentity
  <2>1. Handle("Identity") /\ md5' = md5 /\ Send(Pkt("Logoff"), FALSE)
    BY <1>2 DEF OnForeignIdentity, LoginStart
  <2>2. WireOK'
    BY <2>1, Sends, PlainPackets DEF QueuesOK
  <2>3. FramesOK'
    BY <2>1, Handles DEF QueuesOK, FramesOK
  <2> QED
    BY <2>1, <2>2, <2>3 DEF QueuesOK
<1>3. CASE OnSuccess \/ OnStop \/ OnSleep \/ OnContinue
  <2>1. PICK kind : Handle(kind) /\ md5' = md5 /\ UNCHANGED <<wire, request>>
    BY <1>3 DEF OnSuccess, OnStop, OnSleep, OnContinue, Cancel, sessionVars
  <2>2. FramesOK'
    BY <2>1, Handles DEF QueuesOK, FramesOK
  <2> QED
    BY <2>1, <2>2 DEF QueuesOK, WireOK
<1> QED
  BY <1>1, <1>2, <1>3

(* A challenge is a new key, and what was in order remains so.              *)
LEMMA ChallengeKeepsQueues ==
  ASSUME QueuesOK, OnChallenge
  PROVE  QueuesOK'
<1>1. Handle("Challenge") /\ FramesOK /\ WireOK
  BY DEF OnChallenge, QueuesOK
<1>2. md5' \in 1 .. Keys
  <2>1. Head(frames) \in Receivable(md5) /\ Head(frames).kind = "Challenge"
    BY <1>1, Handles
  <2> QED
    BY <2>1 DEF OnChallenge, Receivable
<1>3. Sendable(md5) \subseteq Sendable(md5') /\ Receivable(md5) \subseteq Receivable(md5')
  BY <1>2, KeyWidens
<1>4. WireOK'
  <2> DEFINE p == [kind |-> "Response", key |-> md5']
  <2>1. /\ Len(wire) < MaxWire /\ wire' = Append(wire, p) /\ request' = p
    BY DEF OnChallenge, Send
  <2>2. p \in Sendable(md5')
    BY <1>2, Responses
  <2> HIDE DEF p
  <2>3. wire \in Seq(Sendable(md5')) /\ Len(wire) \in Nat
    BY <1>1, <1>3, QueueWidens DEF WireOK
  <2> QED
    BY <2>1, <2>2, <2>3, QueueAppend, SessionAssumption DEF WireOK
<1>5. FramesOK'
  <2>1. frames' \in Seq(Receivable(md5)) /\ Len(frames') <= MaxFrames
    BY <1>1, Handles
  <2> QED
    BY <1>3, <2>1, QueueWidens DEF FramesOK
<1> QED
  BY <1>2, <1>4, <1>5 DEF QueuesOK

(* The process starts, sends again, or is built anew without a key.         *)
LEMMA ProcessKeepsQueues ==
  ASSUME QueuesOK, Start \/ SendStart \/ Restart \/ Rebuild \/ Resend
  PROVE  QueuesOK'
<1>1. CASE Start \/ SendStart
  <2>1. /\ md5' = md5 /\ UNCHANGED frames
        /\ \E kind \in {"Logoff", "Start"}, r \in BOOLEAN : Send(Pkt(kind), r)
    BY <1>1 DEF Start, SendStart, LoginStart, sessionVars
  <2>2. WireOK'
    BY <2>1, Sends, PlainPackets DEF QueuesOK
  <2> QED
    BY <2>1, <2>2 DEF QueuesOK, FramesOK
<1>2. CASE Restart
  BY <1>2 DEF Restart, sessionVars, sendVars, QueuesOK, WireOK, FramesOK
<1>3. CASE Rebuild
  <2>1. md5' = 0 /\ frames' = <<>> /\ wire' = <<>> /\ request' = Pkt("none")
    BY <1>3 DEF Rebuild, NoPacket
  <2>2. Pkt("none") \in Sendable(0)
    BY PlainPackets
  <2>3. WireOK'
    BY <2>1, <2>2, ShortQueues, SessionAssumption DEF WireOK
  <2>4. FramesOK'
    BY <2>1, SessionAssumption DEF FramesOK
  <2> QED
    BY <2>1, <2>3, <2>4, SessionAssumption DEF QueuesOK
<1>4. CASE Resend
  <2>1. md5' = md5 /\ UNCHANGED <<frames, request>> /\ wire' = <<request>>
    BY <1>4 DEF Resend, sessionVars
  <2> QED
    BY <2>1, ShortQueues, SessionAssumption DEF QueuesOK, WireOK, FramesOK
<1> QED
  BY <1>1, <1>2, <1>3, <1>4

(* The authenticator grants a login only to a response, which has a key.    *)
LEMMA AnswerKeepsQueues ==
  ASSUME QueuesOK, StateOK, ServerTake
  PROVE  QueuesOK'
<1> DEFINE p == Head(wire)
<1>1. md5' = md5 /\ UNCHANGED request /\ wire # <<>> /\ wire' = Tail(wire) /\ Answer(p)
  BY DEF ServerTake, sessionVars
<1>2. p \in Sendable(md5) /\ WireOK'
  BY <1>1, QueueTake, SessionAssumption DEF QueuesOK, WireOK
<1> HIDE DEF p
<1>3. FramesOK'
  <2>1. CASE UNCHANGED frames
    BY <1>1, <2>1 DEF QueuesOK, FramesOK
  <2>2. CASE Deliver(Frm("Identity", 1))
    BY <1>1, <2>2, PlainFrames, Delivers DEF QueuesOK
  <2>3. CASE challenge' = Following(challenge) /\ Deliver(Frm("Challenge", challenge'))
    <3>1. challenge' \in 1 .. Keys
      BY <2>3, FollowingIsKey DEF StateOK
    <3> QED
      BY <1>1, <2>3, <3>1, Challenges, Delivers DEF QueuesOK
  <2>4. CASE p.kind = "Response" /\ Deliver(Frm("Success", 0))
    <3>1. md5 # 0
      BY <1>2, <2>4 DEF Sendable
    <3> QED
      BY <1>1, <2>4, <3>1, Successes, Delivers DEF QueuesOK
  <2> QED
    BY <1>1, <2>1, <2>2, <2>3, <2>4 DEF Answer
<1> QED
  BY <1>1, <1>2, <1>3 DEF QueuesOK

(* The authenticator's own frames, and losses.                              *)
LEMMA NetworkKeepsQueues ==
  ASSUME QueuesOK, StateOK,
         \/ ServerRepeat \/ ServerProbe \/ Lose
         \/ \E kind \in {"Stop", "Sleep", "Continue"} : ServerNotify(kind)
  PROVE  QueuesOK'
<1>1. CASE ServerRepeat
  <2>1. md5' = md5 /\ UNCHANGED <<wire, request>>
    BY <1>1 DEF ServerRepeat, sessionVars, sendVars
  <2>2. FramesOK'
    <3>1. CASE Deliver(Frm("Identity", 1))
      BY <2>1, <3>1, PlainFrames, Delivers DEF QueuesOK
    <3>2. CASE server = "challenged" /\ Deliver(Frm("Challenge", challenge))
      <4>1. challenge \in 1 .. Keys
        BY <3>2 DEF StateOK
      <4> QED
        BY <2>1, <3>2, <4>1, Challenges, Delivers DEF QueuesOK
    <3> QED
      BY <1>1, <3>1, <3>2 DEF ServerRepeat
  <2> QED
    BY <2>1, <2>2 DEF QueuesOK, WireOK
<1>2. CASE ServerProbe
  <2>1. md5' = md5 /\ UNCHANGED <<wire, request>> /\ Deliver(Frm("Identity", 2))
    BY <1>2 DEF ServerProbe, sessionVars, sendVars
  <2>2. FramesOK'
    BY <2>1, PlainFrames, Delivers DEF QueuesOK
  <2> QED
    BY <2>1, <2>2 DEF QueuesOK, WireOK
<1>3. CASE \E kind \in {"Stop", "Sleep", "Continue"} : ServerNotify(kind)
  <2>1. PICK kind \in {"Stop", "Sleep", "Continue"} : ServerNotify(kind)
    BY <1>3
  <2>2. md5' = md5 /\ UNCHANGED <<wire, request>> /\ Deliver(Frm(kind, 0))
    BY <2>1 DEF ServerNotify, sessionVars, sendVars
  <2>3. FramesOK'
    BY <2>2, PlainFrames, Delivers DEF QueuesOK
  <2> QED
    BY <2>2, <2>3 DEF QueuesOK, WireOK
<1>4. CASE Lose
  <2>1. md5' = md5 /\ UNCHANGED request
    BY <1>4 DEF Lose, sessionVars
  <2>2. CASE wire # <<>> /\ wire' = Tail(wire) /\ UNCHANGED frames
    BY <2>1, <2>2, QueueTake, SessionAssumption DEF QueuesOK, WireOK, FramesOK
  <2>3. CASE frames # <<>> /\ frames' = Tail(frames) /\ UNCHANGED wire
    BY <2>1, <2>3, QueueTake, SessionAssumption DEF QueuesOK, WireOK, FramesOK
  <2> QED
    BY <1>4, <2>2, <2>3 DEF Lose
<1> QED
  BY <1>1, <1>2, <1>3, <1>4

(* The heartbeat touches no queue.                                          *)
LEMMA HeartbeatKeepsQueues ==
  ASSUME QueuesOK, Heartbeat \/ Broken \/ HbLate
  PROVE  QueuesOK'
<1>1. UNCHANGED <<md5, wire, request, frames>>
  BY DEF Heartbeat, Broken, HbLate, HbTop, HbUnpark, HbPeriod, HbLoad, HbDeclare, HbStore,
         sessionVars, sendVars
<1> QED
  BY <1>1 DEF QueuesOK, WireOK, FramesOK

(* All of them.                                                             *)
LEMMA QueuesStay ==
  ASSUME QueuesOK, StateOK, Next
  PROVE  QueuesOK'
BY LoopKeepsQueues, ChallengeKeepsQueues, ProcessKeepsQueues, AnswerKeepsQueues,
   NetworkKeepsQueues, HeartbeatKeepsQueues DEF Next, Process, Server, Environment

-----------------------------------------------------------------------------
(* What the UDP side is told.                                               *)

(* A SUCCESS carries the md5, and it needs a frame that needs one.          *)
LEMMA ToldStays ==
  ASSUME QueuesOK, ToldOK, Next
  PROVE  ToldOK'
<1>1. CASE OnSuccess
  <2>1. Head(frames) \in Receivable(md5) /\ Head(frames).kind = "Success"
    BY <1>1, Handles DEF OnSuccess, QueuesOK
  <2>2. md5 # 0
    BY <2>1 DEF Receivable
  <2> QED
    BY <1>1, <2>2 DEF OnSuccess, ToldOK, QueuesOK
<1>2. CASE OnSleep \/ Rebuild \/ HbDeclare \/ HbLate
  <2>1. told' \in {"Stop", "Sleep", "Quit"} /\ toldMd5' = 0
    BY <1>2 DEF OnSleep, Rebuild, HbDeclare, HbLate
  <2> QED
    BY <2>1, SessionAssumption DEF ToldOK
<1>3. CASE UNCHANGED <<told, toldMd5>>
  BY <1>3 DEF ToldOK
<1>4. OnSuccess \/ OnSleep \/ Rebuild \/ HbDeclare \/ HbLate \/ UNCHANGED <<told, toldMd5>>
  <2>1. CASE Process
    BY <2>1 DEF Process, Start, SendStart, Restart, OnKeepalive, OnForeignIdentity,
                OnIdentity, OnChallenge, OnStop, OnContinue, msgVars, toldVars
  <2>2. CASE Heartbeat
    BY <2>2 DEF Heartbeat, HbTop, HbUnpark, HbPeriod, HbLoad, HbStore, msgVars, toldVars
  <2>3. CASE Resend \/ Server
    BY <2>3 DEF Resend, Server, ServerTake, ServerRepeat, msgVars, toldVars
  <2>4. CASE Environment
    BY <2>4 DEF Environment, Broken, ServerProbe, Lose, ServerNotify, msgVars, toldVars
  <2> QED
    BY <2>1, <2>2, <2>3, <2>4 DEF Next
<1> QED
  BY <1>1, <1>2, <1>3, <1>4

-----------------------------------------------------------------------------
(* The rest of the state.                                                   *)

(* A reset is a race at most MaxRaces times.                                *)
LEMMA Resets ==
  ASSUME StateOK, Reset
  PROVE  /\ timeout' = 0 /\ quiet' = 0
         /\ timeout' \in 0 .. 255 /\ quiet' \in 0 .. Count + 1 /\ races' \in 0 .. MaxRaces
         /\ heard' \in BOOLEAN /\ (heard' => hb = "sleep")
         /\ races' = 0 => races = 0 /\ hb \notin {"declare", "store"}
<1>1. timeout' = 0 /\ quiet' = 0 /\ heard' = (hb = "sleep")
  BY DEF Reset
<1>2. heard' \in BOOLEAN /\ (heard' => hb = "sleep")
  BY <1>1, Zenon
<1>3. /\ races' \in 0 .. MaxRaces
      /\ races' = 0 => races = 0 /\ hb \notin {"declare", "store"}
  BY SessionAssumption DEF Reset, StateOK
<1>4. timeout' = 0 /\ quiet' = 0
  BY <1>1
<1> QED
  BY <1>2, <1>3, <1>4, CountIsNat

(* A request that is cancelled may be sent again or not.                    *)
LEMMA Cancels == ASSUME StateOK, Cancel PROVE repeat' \in BOOLEAN
BY DEF StateOK, Cancel

(* The process.                                                             *)
LEMMA ProcessKeepsState ==
  ASSUME StateOK, Process
  PROVE  StateOK'
<1>1. CASE Start
  <2>1. /\ timeout' \in 0 .. 255 /\ quiet' \in 0 .. Count + 1 /\ races' \in 0 .. MaxRaces
        /\ heard' \in BOOLEAN
    BY <1>1, Resets DEF Start, LoginStart
  <2> QED
    BY <1>1, <2>1 DEF Start, LoginStart, Send, StateOK, hbVars, msgVars, serverVars
<1>2. CASE SendStart
  BY <1>2 DEF SendStart, Send, StateOK, sessionVars, hbVars, toldVars, msgVars,
              serverVars, silenceVars
<1>3. CASE Restart
  BY <1>3 DEF Restart, StateOK, sessionVars, sendVars, hbVars, toldVars, msgVars,
              serverVars, silenceVars
<1>4. CASE Rebuild
  <2>1. /\ timeout' \in 0 .. 255 /\ quiet' \in 0 .. Count + 1 /\ races' \in 0 .. MaxRaces
        /\ heard' \in BOOLEAN
    <3>1. timeout' = 0 /\ quiet' = 0 /\ UNCHANGED races
      BY <1>4 DEF Rebuild
    <3>2. heard' \in BOOLEAN
      BY <1>4 DEF Rebuild
    <3> QED
      BY <3>1, <3>2, CountIsNat DEF StateOK
  <2> QED
    <3>1. /\ proc' = "start" /\ hb' = "off" /\ cnt' = 0 /\ quietThen' = 0
          /\ UNCHANGED <<stop, server, challenge, faults>>
      BY <1>4 DEF Rebuild, serverVars
    <3>2. /\ quit' \in BOOLEAN /\ identity' \in BOOLEAN /\ repeat' \in BOOLEAN
          /\ hbTok' \in BOOLEAN /\ lateStop' \in BOOLEAN /\ reported' \in BOOLEAN
      BY <1>4 DEF Rebuild, StateOK
    <3> QED
      BY <2>1, <3>1, <3>2, CountIsNat DEF StateOK
<1>5. CASE OnKeepalive
  <2>1. /\ timeout' \in 0 .. 255 /\ quiet' \in 0 .. Count + 1 /\ races' \in 0 .. MaxRaces
        /\ heard' \in BOOLEAN
    BY <1>5, Resets DEF OnKeepalive
  <2> QED
    BY <1>5, <2>1 DEF OnKeepalive, Handle, Send, StateOK, sessionVars, hbVars,
                      toldVars, msgVars, serverVars
<1>6. CASE OnForeignIdentity
  <2>1. /\ timeout' \in 0 .. 255 /\ quiet' \in 0 .. Count + 1 /\ races' \in 0 .. MaxRaces
        /\ heard' \in BOOLEAN
    BY <1>6, Resets DEF OnForeignIdentity, LoginStart
  <2> QED
    BY <1>6, <2>1 DEF OnForeignIdentity, Handle, LoginStart, Send, StateOK, hbVars,
                      msgVars, serverVars
<1>7. CASE OnIdentity
  BY <1>7, Resets DEF OnIdentity, Handle, Send, StateOK, hbVars, toldVars, msgVars,
                      serverVars
<1>8. CASE OnChallenge
  BY <1>8 DEF OnChallenge, Handle, Send, StateOK, hbVars, toldVars, msgVars, serverVars,
              silenceVars
<1>9. CASE OnSuccess
  <2>1. /\ repeat' \in BOOLEAN /\ reported' = TRUE /\ hbTok' \in BOOLEAN
        /\ hb' = hb \/ hb' = "top"
        /\ UNCHANGED <<proc, stop, quit, identity, timeout, cnt, lateStop, server, challenge,
                       faults, heard, quiet, quietThen, races>>
    BY <1>9, Cancels DEF OnSuccess, Handle, StateOK, sessionVars, serverVars, silenceVars
  <2> QED
    BY <2>1 DEF StateOK
<1>10. CASE OnStop
  <2>1. /\ repeat' \in BOOLEAN /\ stop' = TRUE
        /\ UNCHANGED <<proc, quit, identity, timeout, cnt, hb, hbTok, lateStop, reported, server,
                       challenge, faults, heard, quiet, quietThen, races>>
    BY <1>10, Cancels DEF OnStop, Handle, sessionVars, hbVars, toldVars, msgVars, serverVars,
                        silenceVars
  <2> QED
    BY <2>1 DEF StateOK
<1>11. CASE OnSleep
  <2>1. /\ repeat' \in BOOLEAN /\ stop' = TRUE
        /\ UNCHANGED <<proc, quit, identity, timeout, cnt, hb, hbTok, lateStop, reported, server,
                       challenge, faults, heard, quiet, quietThen, races>>
    BY <1>11, Cancels DEF OnSleep, Handle, sessionVars, hbVars, toldVars, msgVars, serverVars,
                        silenceVars
  <2> QED
    BY <2>1 DEF StateOK
<1>12. CASE OnContinue
  <2>1. /\ repeat' \in BOOLEAN
        /\ UNCHANGED <<proc, stop, quit, identity, timeout, cnt, hb, hbTok, lateStop, reported,
                       server, challenge, faults, heard, quiet, quietThen, races>>
    BY <1>12, Cancels DEF OnContinue, Handle, sessionVars, hbVars, toldVars, msgVars, serverVars,
                        silenceVars
  <2> QED
    BY <2>1 DEF StateOK
<1> QED
  BY <1>1, <1>2, <1>3, <1>4, <1>5, <1>6, <1>7, <1>8, <1>9, <1>10, <1>11, <1>12 DEF Process

(* The heartbeat.                                                           *)
LEMMA HeartbeatKeepsState ==
  ASSUME StateOK, Heartbeat
  PROVE  StateOK'
<1> USE DEF sessionVars, sendVars, toldVars, msgVars, serverVars, silenceVars
<1>1. CASE HbTop
  BY <1>1 DEF HbTop, StateOK
<1>2. CASE HbUnpark
  <2>1. /\ hb' = "sleep" /\ hbTok' \in BOOLEAN
        /\ UNCHANGED <<proc, stop, quit, identity, repeat, timeout, cnt, lateStop, reported,
                       server, challenge, faults, heard, quiet, quietThen, races>>
    BY <1>2 DEF HbUnpark
  <2> QED
    BY <2>1 DEF StateOK
<1>3. CASE HbPeriod
  <2>1. quiet' \in 0 .. Count + 1
    <3>1. quiet' \in {0, quiet} \/ (~(quiet > Count) /\ quiet' = quiet + 1)
      BY <1>3 DEF HbPeriod
    <3>2. quiet \in 0 .. Count + 1
      BY DEF StateOK
    <3> QED
      BY <3>1, <3>2, CountIsNat
  <2>2. heard' \in BOOLEAN
    BY <1>3 DEF HbPeriod
  <2> QED
    <3>1. /\ hb' = "load"
          /\ UNCHANGED <<proc, stop, quit, identity, repeat, timeout, cnt, hbTok, lateStop,
                         reported, server, challenge, faults, quietThen, races>>
      BY <1>3 DEF HbPeriod
    <3> QED
      BY <2>1, <2>2, <3>1 DEF StateOK
<1>4. CASE HbLoad
  BY <1>4 DEF HbLoad, StateOK
<1>5. CASE HbDeclare
  BY <1>5 DEF HbDeclare, StateOK
<1>6. CASE HbStore
  <2>1. timeout' \in 0 .. 255
    BY <1>6, ByteStays DEF HbStore, StateOK
  <2> QED
    BY <1>6, <2>1 DEF HbStore, StateOK
<1> QED
  BY <1>1, <1>2, <1>3, <1>4, <1>5, <1>6 DEF Heartbeat

(* The sender, the authenticator and the network.                           *)
LEMMA OthersKeepState ==
  ASSUME StateOK, Resend \/ Server \/ Environment
  PROVE  StateOK'
<1> USE DEF sessionVars, sendVars, hbVars, toldVars, msgVars, silenceVars
<1>1. CASE Resend
  BY <1>1 DEF Resend, StateOK, serverVars
<1>2. CASE ServerTake
  <2>1. /\ server' \in {"none", "identity", "challenged", "authed"}
        /\ challenge' \in 0 .. Keys
        /\ server' = "challenged" => challenge' # 0
    <3>1. Following(challenge) \in 1 .. Keys
      BY FollowingIsKey DEF StateOK
    <3> QED
      BY <1>2, <3>1, SessionAssumption DEF ServerTake, Answer, StateOK
  <2> QED
    BY <1>2, <2>1 DEF ServerTake, StateOK
<1>3. CASE ServerRepeat
  BY <1>3 DEF ServerRepeat, StateOK
<1>4. CASE ServerProbe
  BY <1>4 DEF ServerProbe, StateOK, serverVars
<1>5. CASE Broken
  BY <1>5, SessionAssumption DEF Broken, StateOK, serverVars
<1>6. CASE HbLate
  <2>1. /\ lateStop' \in BOOLEAN
        /\ UNCHANGED <<proc, stop, quit, identity, repeat, timeout, cnt, hb, hbTok, reported,
                       server, challenge, faults, heard, quiet, quietThen, races>>
    BY <1>6 DEF HbLate, serverVars
  <2> QED
    BY <2>1 DEF StateOK
<1>7. CASE Lose
  BY <1>7, SessionAssumption DEF Lose, StateOK, serverVars
<1>8. CASE \E kind \in {"Stop", "Sleep", "Continue"} : ServerNotify(kind)
  BY <1>8, SessionAssumption DEF ServerNotify, StateOK
<1> QED
  BY <1>1, <1>2, <1>3, <1>4, <1>5, <1>6, <1>7, <1>8 DEF Server, Environment

(* All of them.                                                             *)
LEMMA StateStays ==
  ASSUME StateOK, Next
  PROVE  StateOK'
BY ProcessKeepsState, HeartbeatKeepsState, OthersKeepState DEF Next

-----------------------------------------------------------------------------
(* Silence.                                                                 *)

(* What is reset while the heartbeat is about to look is seen as reset; what *)
(* is reset after it has looked does not change what it saw.                *)
LEMMA SilenceStays ==
  ASSUME StateOK, SilenceOK, Next
  PROVE  SilenceOK'
<1>1. CASE UNCHANGED <<hb, heard, quiet, quietThen, timeout>>
  BY <1>1 DEF SilenceOK
<1>2. CASE Reset /\ UNCHANGED <<hb, quietThen>>
  BY <1>2, Resets DEF SilenceOK
<1>3. CASE hb' \notin {"load", "declare"} /\ ~heard'
  BY <1>3 DEF SilenceOK
<1>4. CASE HbPeriod
  BY <1>4, CountIsNat DEF HbPeriod, StateOK, SilenceOK
<1>5. CASE HbLoad
  <2>1. /\ hb = "load" /\ hb' \in {"declare", "store"} /\ quietThen' = quiet /\ ~heard
        /\ hb' = "declare" => timeout > Count
        /\ UNCHANGED <<heard, timeout>>
    BY <1>5 DEF HbLoad, SilenceOK, silenceVars
  <2>2. timeout > Count => timeout # 0
    BY CountIsNat DEF StateOK
  <2> QED
    BY <2>1, <2>2 DEF SilenceOK
<1>6. CASE Heartbeat
  <2>1. ASSUME HbTop \/ HbUnpark \/ HbDeclare \/ HbStore
        PROVE  hb' \notin {"load", "declare"} /\ ~heard'
    BY <2>1 DEF HbTop, HbUnpark, HbDeclare, HbStore, SilenceOK, silenceVars
  <2> QED
    BY <1>3, <1>4, <1>5, <1>6, <2>1 DEF Heartbeat
<1>7. CASE Process
  <2>1. CASE Rebuild
    BY <1>3, <2>1 DEF Rebuild
  <2>2. CASE OnSuccess
    BY <1>1, <1>3, <2>2 DEF OnSuccess, silenceVars, SilenceOK
  <2>3. CASE Start \/ OnKeepalive \/ OnForeignIdentity \/ OnIdentity
    BY <1>2, <2>3 DEF Start, OnKeepalive, OnForeignIdentity, OnIdentity, LoginStart, hbVars
  <2>4. CASE SendStart \/ Restart \/ OnChallenge \/ OnStop \/ OnSleep \/ OnContinue
    BY <1>1, <2>4 DEF SendStart, Restart, OnChallenge, OnStop, OnSleep, OnContinue, hbVars,
                      silenceVars
  <2> QED
    BY <1>7, <2>1, <2>2, <2>3, <2>4 DEF Process
<1>8. CASE Resend \/ Server
  BY <1>1, <1>8 DEF Resend, Server, ServerTake, ServerRepeat, hbVars, silenceVars
<1>9. CASE Environment
  BY <1>1, <1>9 DEF Environment, Broken, HbLate, ServerProbe, Lose, ServerNotify, hbVars,
                    silenceVars
<1> QED
  BY <1>6, <1>7, <1>8, <1>9 DEF Next

(* A reset begins the count anew or is counted as a race, and a load finds   *)
(* at least as many silent periods as the counter says.                     *)
LEMMA TallyStays ==
  ASSUME StateOK, SilenceOK, TallyOK, Next
  PROVE  TallyOK'
<1>1. CASE UNCHANGED <<hb, cnt, quiet, quietThen, timeout, races>>
  BY <1>1 DEF TallyOK, Tally
<1>2. CASE Reset /\ UNCHANGED <<hb, cnt, quietThen>>
  BY <1>2, Resets DEF TallyOK, Tally
<1>3. CASE HbTop \/ HbUnpark
  BY <1>3 DEF HbTop, HbUnpark, TallyOK, Tally, silenceVars
<1>4. CASE HbPeriod
  <2>1. /\ hb = "sleep" /\ hb' = "load" /\ UNCHANGED <<timeout, races>>
        /\ quiet' = IF heard THEN 0 ELSE IF quiet > Count THEN quiet ELSE quiet + 1
    BY <1>4 DEF HbPeriod
  <2>2. heard => timeout = 0 /\ quiet' = 0
    BY <2>1 DEF SilenceOK
  <2>3. ~heard /\ quiet > Count => quiet' > Count
    BY <2>1
  <2>4. ~heard /\ ~(quiet > Count) => quiet' = quiet + 1
    BY <2>1
  <2> QED
    BY <2>1, <2>2, <2>3, <2>4, CountIsNat DEF TallyOK, Tally, StateOK
<1>5. CASE HbLoad
  <2>1. /\ hb = "load" /\ cnt' = timeout /\ quietThen' = quiet /\ UNCHANGED <<quiet, races>>
        /\ hb' = IF timeout > Count THEN "declare" ELSE "store"
    BY <1>5 DEF HbLoad, silenceVars
  <2> QED
    BY <2>1, CountIsNat DEF TallyOK, Tally, StateOK
<1>6. CASE HbDeclare
  BY <1>6 DEF HbDeclare, TallyOK, Tally, silenceVars
<1>7. CASE HbStore
  <2>1. /\ hb = "store" /\ hb' = "top" /\ timeout' = (cnt + 1) % 256
        /\ UNCHANGED <<quiet, races>>
    BY <1>7 DEF HbStore, silenceVars
  <2>2. timeout' <= cnt + 1
    BY <2>1, ByteStays DEF StateOK
  <2>3. timeout' \in 0 .. 255
    BY <2>1, ByteStays DEF StateOK
  <2> QED
    BY <2>1, <2>2, <2>3, CountIsNat DEF TallyOK, Tally, StateOK
<1>8. CASE Process
  <2>1. CASE Rebuild
    BY <2>1, CountIsNat DEF Rebuild, TallyOK, Tally
  <2>2. CASE OnSuccess
    <3>1. /\ UNCHANGED <<cnt, quiet, quietThen, timeout, races>>
          /\ hb' = hb \/ (hb = "off" /\ hb' = "top")
      BY <2>2 DEF OnSuccess, silenceVars
    <3> QED
      BY <3>1 DEF TallyOK, Tally
  <2>3. CASE Start \/ OnKeepalive \/ OnForeignIdentity \/ OnIdentity
    BY <1>2, <2>3 DEF Start, OnKeepalive, OnForeignIdentity, OnIdentity, LoginStart, hbVars
  <2>4. CASE SendStart \/ Restart \/ OnChallenge \/ OnStop \/ OnSleep \/ OnContinue
    BY <1>1, <2>4 DEF SendStart, Restart, OnChallenge, OnStop, OnSleep, OnContinue, hbVars,
                      silenceVars
  <2> QED
    BY <1>8, <2>1, <2>2, <2>3, <2>4 DEF Process
<1>9. CASE Resend \/ Server
  BY <1>1, <1>9 DEF Resend, Server, ServerTake, ServerRepeat, hbVars, silenceVars
<1>10. CASE Environment
  BY <1>1, <1>10 DEF Environment, Broken, HbLate, ServerProbe, Lose, ServerNotify, hbVars,
                     silenceVars
<1> QED
  BY <1>3, <1>4, <1>5, <1>6, <1>7, <1>8, <1>9, <1>10 DEF Next, Heartbeat

-----------------------------------------------------------------------------
(* The specification.                                                       *)

(* The beginning.                                                           *)
LEMMA Begins == Init => Keyed /\ SilenceOK /\ TallyOK
<1> SUFFICES ASSUME Init PROVE Keyed /\ SilenceOK /\ TallyOK
  OBVIOUS
<1>1. QueuesOK
  <2>1. md5 = 0 /\ frames = <<>> /\ wire = <<>> /\ request = Pkt("none")
    BY DEF Init, NoPacket
  <2>2. Pkt("none") \in Sendable(md5)
    BY PlainPackets
  <2> QED
    BY <2>1, <2>2, SessionAssumption DEF QueuesOK, WireOK, FramesOK
<1>2. StateOK
  <2>1. /\ stop \in BOOLEAN /\ quit \in BOOLEAN /\ identity \in BOOLEAN /\ repeat \in BOOLEAN
        /\ heard \in BOOLEAN /\ hbTok \in BOOLEAN /\ lateStop \in BOOLEAN /\ reported \in BOOLEAN
    BY DEF Init
  <2>2. /\ proc = "start" /\ hb = "off" /\ server = "none"
        /\ timeout = 0 /\ cnt = 0 /\ quiet = 0 /\ quietThen = 0
        /\ challenge = 0 /\ faults = 0 /\ races = 0
    BY DEF Init
  <2> QED
    BY <2>1, <2>2, CountIsNat, SessionAssumption DEF StateOK
<1>3. ToldOK
  BY SessionAssumption DEF Init, ToldOK
<1>4. SilenceOK /\ TallyOK
  BY CountIsNat DEF Init, SilenceOK, TallyOK, Tally
<1> QED
  BY <1>1, <1>2, <1>3, <1>4 DEF Keyed

(* The invariants hold throughout.                                      *)
LEMMA StaysKeyed == Spec => [](Keyed /\ SilenceOK /\ TallyOK)
<1>1. Keyed /\ SilenceOK /\ TallyOK /\ [Next]_vars => (Keyed /\ SilenceOK /\ TallyOK)'
  <2> SUFFICES ASSUME Keyed, SilenceOK, TallyOK, [Next]_vars PROVE (Keyed /\ SilenceOK /\ TallyOK)'
    OBVIOUS
  <2>1. CASE Next
    BY <2>1, QueuesStay, StateStays, ToldStays, SilenceStays, TallyStays DEF Keyed
  <2>2. CASE UNCHANGED vars
    <3> USE <2>2 DEF vars
    <3>1. QueuesOK'
      BY DEF Keyed, QueuesOK, WireOK, FramesOK
    <3>2. StateOK'
      BY DEF Keyed, StateOK
    <3>3. ToldOK' /\ SilenceOK' /\ TallyOK'
      BY DEF Keyed, ToldOK, SilenceOK, TallyOK, Tally
    <3> QED
      BY <3>1, <3>2, <3>3 DEF Keyed
  <2> QED
    BY <2>1, <2>2
<1> QED
  BY Begins, <1>1, PTL DEF Spec

(* Every variable has its type, and a SUCCESS reported to the UDP side      *)
(* carries the key of a challenge, whatever frames are left from an earlier *)
(* session, for any retry count and any number of challenges.               *)
THEOREM SuccessCarriesKey == Spec => []SuccessHasKey
<1>1. Keyed => SuccessHasKey
  <2> SUFFICES ASSUME Keyed PROVE SuccessHasKey
    OBVIOUS
  <2>1. wire \in Seq(Packet) /\ request \in Packet /\ frames \in Seq(Frame)
    BY InOrderHasType, QueueWidens DEF Keyed, QueuesOK, WireOK, FramesOK
  <2>2. Len(wire) <= MaxWire /\ Len(frames) <= MaxFrames /\ md5 \in 0 .. Keys
    BY DEF Keyed, QueuesOK, WireOK, FramesOK
  <2>3. TypeOK
    BY <2>1, <2>2 DEF Keyed, StateOK, ToldOK, TypeOK
  <2> QED
    BY <2>3 DEF Keyed, ToldOK, SuccessHasKey
<1> QED
  BY StaysKeyed, <1>1, PTL

(* The heartbeat declares a session dead only after a whole period into     *)
(* which no reset of the counter fell, although a reset may be lost between *)
(* its load and its store; and only after more of them in a row than are    *)
(* configured as long as none was lost.                                     *)
THEOREM DeadOnlyAfterSilence == Spec => []DeclaredAfterSilence
<1>1. SilenceOK /\ TallyOK => DeclaredAfterSilence
  BY DEF SilenceOK, TallyOK, DeclaredAfterSilence
<1> QED
  BY StaysKeyed, <1>1, PTL
=============================================================================
