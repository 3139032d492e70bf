------------------------------ MODULE SendPipe ------------------------------
(***************************************************************************)
(* The sending half of a core process.  EAP and UDP hold the same code     *)
(* twice: send() puts packets on an unbounded channel, a Sender thread     *)
(* takes and transmits them, and a Resender thread asks for the last one   *)
(* again when no answer has cancelled it within the interval.  The threads *)
(* share stop, quit, cancel_resend and send_ts and are woken through park  *)
(* tokens.                                                                 *)
(*                                                                         *)
(* A packet is its number in the order of the process's send() calls; the  *)
(* empty packet (number 0) means "the last one again".  send_ts counts     *)
(* only through the time elapsed since: less than the interval ("no"), at  *)
(* least the interval ("due"), or so much that the clock must have jumped  *)
(* ("jump").                                                               *)
(***************************************************************************)
EXTENDS Integers, Sequences

CONSTANTS
  MaxPosts,     (* bound: packets the process posts                        *)
  MaxStops,     (* bound: times the session is stopped                     *)
  MaxAnswers,   (* bound: answers on their way to the process              *)
  RetryCount    (* settings.retry.count                                    *)

ASSUME PipeAssumption ==
  /\ MaxPosts \in Nat
  /\ MaxStops \in Nat
  /\ MaxAnswers \in Nat
  /\ RetryCount \in Nat

VARIABLES
  process,    (* the process: "idle", "run", "stopped" or "gone"           *)
  stopFlag, quitFlag,     (* stop and quit                                 *)
  posted,     (* packets posted so far                                     *)
  stops,
  sendQ,      (* send_channel                                              *)
  sender,     (* where the Sender is                                       *)
  senderTok,  (* its park token                                            *)
  data, resend, errors,   (* its locals: last packet, its flag, cnt        *)
  resender,   (* where the Resender is                                     *)
  resenderTok,
  cancel,     (* cancel_resend                                             *)
  elapsed,    (* time since send_ts                                        *)
  answers,    (* answers of the peer that have not been processed          *)
  pending,    (* history: the last packet transmitted asks for an answer   *)
              (* and has got none                                          *)
  owed        (* history: a packet of this session is not transmitted yet  *)

processVars == <<process, stopFlag, quitFlag, posted, stops>>
senderVars == <<sender, senderTok, data, resend, errors>>
resenderVars == <<resender, resenderTok>>
peerVars == <<answers, pending, owed>>
pipeVars == <<process, stopFlag, quitFlag, posted, stops, sendQ, sender, senderTok, data,
          resend, errors, resender, resenderTok, cancel, elapsed, answers, pending,
          owed>>

-----------------------------------------------------------------------------
Entry == [packet : 0 .. MaxPosts, resend : BOOLEAN]

Again == [packet |-> 0, resend |-> TRUE]

(* Faulty variant: cancel_resend starts out false.                          *)
PipeInit_Armed ==
  /\ process = "idle" /\ stopFlag = FALSE /\ quitFlag = FALSE /\ posted = 0 /\ stops = 0
  /\ sendQ = <<>>
  /\ sender = "none" /\ senderTok = FALSE
  /\ data = 0 /\ resend = FALSE /\ errors = 0
  /\ resender = "none" /\ resenderTok = FALSE
  /\ cancel = FALSE /\ elapsed = "jump"
  /\ answers = 0 /\ pending = FALSE /\ owed = FALSE

PipeInit ==
  /\ process = "idle" /\ stopFlag = FALSE /\ quitFlag = FALSE /\ posted = 0 /\ stops = 0
  /\ sendQ = <<>>
  /\ sender = "none" /\ senderTok = FALSE
  /\ data = 0 /\ resend = FALSE /\ errors = 0
  /\ resender = "none" /\ resenderTok = FALSE
  /\ cancel = TRUE /\ elapsed = "jump"
  /\ answers = 0 /\ pending = FALSE /\ owed = FALSE

-----------------------------------------------------------------------------
(* The process.                                                             *)

(* Faulty variant: only the Resender is unparked on a restart.              *)
PipeStart_ResenderOnly ==
  /\ process \in {"idle", "stopped"}
  /\ process' = "run"
  /\ stopFlag' = FALSE
  /\ IF sender = "none"
       THEN sender' = "top" /\ resender' = "top" /\ UNCHANGED resenderTok
       ELSE resenderTok' = TRUE /\ UNCHANGED <<sender, resender>>
  /\ elapsed' \in {elapsed, "jump"}
  /\ pending' = FALSE /\ owed' = FALSE
  /\ UNCHANGED <<quitFlag, posted, stops, sendQ, senderTok, data, resend, errors, cancel,
                 answers>>

(* start(): the flag is cleared, the two threads are created or unparked.   *)
(* UDP also sets send_ts to 0, EAP leaves it.                               *)
PipeStart ==
  /\ process \in {"idle", "stopped"}
  /\ process' = "run"
  /\ stopFlag' = FALSE
  /\ IF sender = "none"
       THEN sender' = "top" /\ resender' = "top" /\ UNCHANGED <<senderTok, resenderTok>>
       ELSE senderTok' = TRUE /\ resenderTok' = TRUE /\ UNCHANGED <<sender, resender>>
  /\ elapsed' \in {elapsed, "jump"}
  /\ pending' = FALSE /\ owed' = FALSE
  /\ UNCHANGED <<quitFlag, posted, stops, sendQ, data, resend, errors, cancel, answers>>

PipePost(again) ==
  /\ process = "run"
  /\ posted < MaxPosts
  /\ posted' = posted + 1
  /\ sendQ' = Append(sendQ, [packet |-> posted + 1, resend |-> again])
  /\ owed' = TRUE
  /\ UNCHANGED <<process, stopFlag, quitFlag, stops, senderVars, resenderVars, cancel, elapsed,
                 answers, pending>>

(* Every answer the process handles begins with cancel_resend().            *)
PipeAnswer ==
  /\ process = "run"
  /\ answers > 0
  /\ answers' = answers - 1
  /\ cancel' = TRUE
  /\ pending' = FALSE
  /\ UNCHANGED <<processVars, sendQ, senderVars, resenderVars, elapsed, owed>>

PipeStop ==
  /\ process = "run"
  /\ stopFlag
  /\ process' = "stopped"
  /\ UNCHANGED <<stopFlag, quitFlag, posted, stops, sendQ, senderVars, resenderVars, cancel,
                 elapsed, peerVars>>

(* On quit the process unparks the workers and returns for good.            *)
PipeQuit ==
  /\ process = "run"
  /\ ~stopFlag /\ quitFlag
  /\ process' = "gone"
  /\ senderTok' = TRUE /\ resenderTok' = TRUE
  /\ UNCHANGED <<stopFlag, quitFlag, posted, stops, sendQ, sender, data, resend, errors,
                 resender, cancel, elapsed, peerVars>>

(* A heartbeat timeout, a notification or a message from EAP.               *)
Stopped ==
  /\ process = "run"
  /\ stops < MaxStops
  /\ stops' = stops + 1
  /\ stopFlag' = TRUE
  /\ UNCHANGED <<process, quitFlag, posted, sendQ, senderVars, resenderVars, cancel,
                 elapsed, peerVars>>

(* Another worker gives up.                                                 *)
Broken ==
  /\ process = "run"
  /\ ~quitFlag
  /\ quitFlag' = TRUE
  /\ UNCHANGED <<process, stopFlag, posted, stops, sendQ, senderVars, resenderVars, cancel,
                 elapsed, peerVars>>

-----------------------------------------------------------------------------
(* The Sender.                                                              *)

SenderTop ==
  /\ sender = "top"
  /\ sender' = IF quitFlag THEN "done" ELSE "chkstop"
  /\ UNCHANGED <<processVars, sendQ, senderTok, data, resend, errors, resenderVars, cancel,
                 elapsed, peerVars>>

SenderChkStop ==
  /\ sender = "chkstop"
  /\ sender' = IF stopFlag THEN "parked" ELSE "recv"
  /\ UNCHANGED <<processVars, sendQ, senderTok, data, resend, errors, resenderVars, cancel,
                 elapsed, peerVars>>

SenderUnpark ==
  /\ sender = "parked"
  /\ senderTok
  /\ senderTok' = FALSE
  /\ sender' = "recv"
  /\ UNCHANGED <<processVars, sendQ, data, resend, errors, resenderVars, cancel, elapsed,
                 peerVars>>

SenderRecv ==
  /\ sender = "recv"
  /\ sendQ # <<>>
  /\ sendQ' = Tail(sendQ)
  /\ IF Head(sendQ).packet # 0
       THEN data' = Head(sendQ).packet /\ resend' = Head(sendQ).resend
       ELSE UNCHANGED <<data, resend>>
  /\ sender' = "try"
  /\ UNCHANGED <<processVars, senderTok, errors, resenderVars, cancel, elapsed, peerVars>>

(* What was taken while the session is over is dropped.                     *)
SenderDrop ==
  /\ sender = "try"
  /\ quitFlag \/ stopFlag
  /\ sender' = "top"
  /\ errors' = 0
  /\ UNCHANGED <<processVars, sendQ, senderTok, data, resend, resenderVars, cancel,
                 elapsed, peerVars>>

(* The packet is on the wire; the peer answers a request, or does not.      *)
SenderTransmit ==
  /\ sender = "try"
  /\ ~quitFlag /\ ~stopFlag
  /\ pending' = resend
  /\ owed' = (owed /\ data < posted)
  /\ \/ UNCHANGED answers
     \/ resend /\ answers < MaxAnswers /\ answers' = answers + 1
  /\ sender' = "arm"
  /\ errors' = 0
  /\ UNCHANGED <<processVars, sendQ, senderTok, data, resend, resenderVars, cancel, elapsed>>

SenderError ==
  /\ sender = "try"
  /\ ~quitFlag /\ ~stopFlag
  /\ IF errors + 1 > RetryCount THEN quitFlag' = TRUE ELSE UNCHANGED quitFlag
  /\ errors' = errors + 1
  /\ UNCHANGED <<process, stopFlag, posted, stops, sendQ, sender, senderTok, data, resend,
                 resenderVars, cancel, elapsed, peerVars>>

(* Faulty variant: the Resender is not unparked.                            *)
SenderArm_NoUnpark ==
  /\ sender = "arm"
  /\ elapsed' = "no"
  /\ cancel' = ~resend
  /\ sender' = "top"
  /\ UNCHANGED <<processVars, sendQ, senderTok, data, resend, errors, resenderVars, peerVars>>

(* Only after the transmission are send_ts and cancel_resend stored and the *)
(* Resender unparked: an answer may have been handled before.               *)
SenderArm ==
  /\ sender = "arm"
  /\ elapsed' = "no"
  /\ cancel' = ~resend
  /\ resenderTok' = (resenderTok \/ resend)
  /\ sender' = "top"
  /\ UNCHANGED <<processVars, sendQ, senderTok, data, resend, errors, resender, peerVars>>

-----------------------------------------------------------------------------
(* The Resender.                                                            *)

ResenderTop ==
  /\ resender = "top"
  /\ resender' = IF quitFlag THEN "done" ELSE "chkstop"
  /\ UNCHANGED <<processVars, sendQ, senderVars, resenderTok, cancel, elapsed, peerVars>>

ResenderChkStop ==
  /\ resender = "chkstop"
  /\ resender' = IF stopFlag THEN "parked" ELSE "gate"
  /\ UNCHANGED <<processVars, sendQ, senderVars, resenderTok, cancel, elapsed, peerVars>>

(* while cancel_resend { park }: neither quit nor stop is looked at here.   *)
ResenderGate ==
  /\ resender = "gate"
  /\ resender' = IF cancel THEN "held" ELSE "clock"
  /\ UNCHANGED <<processVars, sendQ, senderVars, resenderTok, cancel, elapsed, peerVars>>

ResenderUnpark ==
  /\ resender \in {"parked", "held"}
  /\ resenderTok
  /\ resenderTok' = FALSE
  /\ resender' = "gate"
  /\ UNCHANGED <<processVars, sendQ, senderVars, cancel, elapsed, peerVars>>

(* Sleep for the rest of the interval, or ask for a retransmission; after a *)
(* jump of the clock send_ts is set to now.                                 *)
ResenderClock ==
  /\ resender = "clock"
  /\ \/ /\ elapsed = "no"
        /\ resender' = "top"
        /\ UNCHANGED <<cancel, elapsed>>
     \/ /\ elapsed # "no"
        /\ cancel' = TRUE
        /\ elapsed' = IF elapsed = "jump" THEN "no" ELSE elapsed
        /\ resender' = "enqueue"
  /\ UNCHANGED <<processVars, sendQ, senderVars, resenderTok, peerVars>>

ResenderEnqueue ==
  /\ resender = "enqueue"
  /\ sendQ' = Append(sendQ, Again)
  /\ resender' = "top"
  /\ UNCHANGED <<processVars, senderVars, resenderTok, cancel, elapsed, peerVars>>

-----------------------------------------------------------------------------
Interval ==
  /\ elapsed = "no"
  /\ elapsed' = "due"
  /\ UNCHANGED <<processVars, sendQ, senderVars, resenderVars, cancel, peerVars>>

ClockJump ==
  /\ elapsed # "jump"
  /\ elapsed' = "jump"
  /\ UNCHANGED <<processVars, sendQ, senderVars, resenderVars, cancel, peerVars>>

PipeProcess == PipeStart \/ PipeStop \/ PipeQuit

Sender == \/ SenderTop \/ SenderChkStop \/ SenderUnpark \/ SenderRecv
          \/ SenderDrop \/ SenderTransmit \/ SenderError \/ SenderArm

Resender == \/ ResenderTop \/ ResenderChkStop \/ ResenderGate \/ ResenderUnpark
            \/ ResenderClock \/ ResenderEnqueue

Environment == \/ PipeAnswer \/ Stopped \/ Broken \/ ClockJump
               \/ \E again \in BOOLEAN : PipePost(again)

PipeNext == PipeProcess \/ Sender \/ Resender \/ Interval \/ Environment

(* The threads run and time passes; what the process sends, what the peer   *)
(* answers and what breaks is not forced.                                   *)
PipeFairness ==
  /\ WF_pipeVars(PipeProcess) /\ WF_pipeVars(Sender)
  /\ WF_pipeVars(Resender) /\ WF_pipeVars(Interval)

PipeSpec == PipeInit /\ [][PipeNext]_pipeVars

FairPipeSpec == PipeSpec /\ PipeFairness

-----------------------------------------------------------------------------
(* Every variable has its type.                                             *)
PipeTypeOK ==
  /\ process \in {"idle", "run", "stopped", "gone"}
  /\ stopFlag \in BOOLEAN /\ quitFlag \in BOOLEAN
  /\ posted \in 0 .. MaxPosts /\ stops \in 0 .. MaxStops
  /\ sendQ \in Seq(Entry)
  /\ sender \in {"none", "top", "chkstop", "parked", "recv", "try", "arm", "done"}
  /\ senderTok \in BOOLEAN
  /\ data \in 0 .. MaxPosts /\ resend \in BOOLEAN /\ errors \in 0 .. RetryCount + 1
  /\ resender \in {"none", "top", "chkstop", "parked", "gate", "held", "clock",
                   "enqueue", "done"}
  /\ resenderTok \in BOOLEAN
  /\ cancel \in BOOLEAN /\ elapsed \in {"no", "due", "jump"}
  /\ answers \in 0 .. MaxAnswers /\ pending \in BOOLEAN
  /\ owed \in BOOLEAN

(* The Sender never transmits before it was given a packet: a request for   *)
(* "the last one again" cannot come first, across all stops and restarts.   *)
OnlyPacketsAreSent == sender \in {"try", "arm"} => data # 0

(* The inductive strengthening of OnlyPacketsAreSent: while the Sender has   *)
(* no packet, cancel_resend holds the Resender back, and no request for     *)
(* "the last one again" is on its way.                                      *)
NothingToRepeat ==
  data = 0 => /\ cancel
              /\ resender \notin {"clock", "enqueue"}
              /\ sender \notin {"try", "arm"}
              /\ \A i \in DOMAIN sendQ : sendQ[i].packet # 0

(* As long as a transmitted request stays unanswered, the Sender comes back *)
(* to it (or to a newer packet), unless the session ends: no wake-up of the *)
(* Resender is lost and no jump of the clock puts it off for good.          *)
UnansweredIsResent == []<>(sender = "try" \/ ~pending \/ stopFlag \/ quitFlag)

(* A packet posted in a running session is transmitted unless the session   *)
(* ends first, also after a restart that found the Sender parked.           *)
PostedIsSent == []<>(~owed \/ stopFlag \/ quitFlag)
=============================================================================
