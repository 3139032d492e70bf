----------------------------- MODULE EapSession -----------------------------
(***************************************************************************)
(* The 802.1X session of the core: the EAP process with its main loop, its *)
(* heartbeat thread, and what it reports to the UDP side.  The sending     *)
(* threads are reduced to what SendPipe shows of them: the last request is *)
(* sent again until it is cancelled, a packet that wants no answer stops   *)
(* that, and a request whose answer came very fast may be sent again       *)
(* although it was cancelled.  The authenticator is external: it answers   *)
(* each packet, repeats its open request, and may ask for the identity now *)
(* and then while the client is authorised.                                *)
(***************************************************************************)
EXTENDS Integers, Sequences

CONSTANTS
  RetryCount,   (* settings.retry.count                                    *)
  Probing,      (* the authenticator asks for the identity again and again *)
  Keys,         (* challenges are numbered 1 .. Keys, and over again       *)
  MaxFrames,    (* bound: frames received and not yet handled              *)
  MaxWire,      (* bound: packets on their way to the authenticator        *)
  MaxFaults,    (* bound: losses, notifications, failures of the process   *)
  MaxRaces      (* bound: resets between load and store of the counter     *)

ASSUME SessionAssumption ==
  /\ RetryCount \in Nat
  /\ Probing \in BOOLEAN
  /\ Keys \in Nat \ {0}
  /\ MaxFrames \in Nat \ {0}
  /\ MaxWire \in Nat \ {0}
  /\ MaxFaults \in Nat
  /\ MaxRaces \in Nat

VARIABLES
  proc,       (* where the process is                                      *)
  stop, quit,
  timeout,    (* the shared heartbeat counter, a u8                        *)
  identity,   (* response_identity_packet is there                         *)
  md5,        (* data.md5: 0 while empty                                   *)
  frames,     (* receive_channel                                           *)
  wire,       (* the packets on their way to the authenticator             *)
  request,    (* the last packet sent                                      *)
  repeat,     (* it is to be sent again: cancel_resend is false            *)
  hb, hbTok,  (* where the heartbeat thread is; its park token             *)
  cnt,        (* its local copy of the counter                             *)
  told, toldMd5,   (* the last message to the UDP side                     *)
  reported,   (* history: this session has reported a SUCCESS              *)
  lateStop,   (* the heartbeat thread of a dead process will report STOP   *)
  server,     (* the authenticator's view of this port                     *)
  challenge,  (* the number of its last challenge                          *)
  faults,
  heard,      (* history: a reset fell into the period that is running     *)
  quiet,      (* history: whole periods without a reset, up to now         *)
  quietThen,  (* history: their number when the counter was last loaded    *)
  races

sessionVars == <<stop, identity, md5>>
sendVars == <<wire, request, repeat>>
hbVars == <<hb, hbTok, cnt, quietThen>>
msgVars == <<told, toldMd5, lateStop>>
toldVars == <<msgVars, reported>>
serverVars == <<server, challenge>>
silenceVars == <<heard, quiet, races>>
vars == <<proc, stop, quit, timeout, identity, md5, frames, wire, request, repeat,
          hb, hbTok, cnt, told, toldMd5, lateStop, reported, server, challenge, faults,
          heard, quiet, quietThen, races>>

-----------------------------------------------------------------------------
Packet == [kind : {"none", "Logoff", "Start", "Identity", "Response"}, key : 0 .. Keys]

Frame == [kind : {"Identity", "Challenge", "Success", "Stop", "Sleep", "Continue"},
          n : 0 .. Keys + 1]

Pkt(kind) == [kind |-> kind, key |-> 0]

Frm(kind, n) == [kind |-> kind, n |-> n]

NoPacket == Pkt("none")

(* min(settings.retry.count, u8::MAX)                                       *)
Count == IF RetryCount > 255 THEN 255 ELSE RetryCount

Init ==
  /\ proc = "start" /\ stop = FALSE /\ quit = FALSE
  /\ timeout = 0 /\ identity = FALSE /\ md5 = 0
  /\ frames = <<>> /\ wire = <<>> /\ request = NoPacket /\ repeat = FALSE
  /\ hb = "off" /\ hbTok = FALSE /\ cnt = 0
  /\ told = "None" /\ toldMd5 = 0 /\ lateStop = FALSE /\ reported = FALSE
  /\ server = "none" /\ challenge = 0
  /\ faults = 0
  /\ heard = FALSE /\ quiet = 0 /\ quietThen = 0 /\ races = 0

-----------------------------------------------------------------------------
(* Sending.                                                                 *)

Send(p, resend) ==
  /\ Len(wire) < MaxWire
  /\ wire' = Append(wire, p)
  /\ request' = p
  /\ repeat' = resend

(* cancel_resend() without a packet of its own: the Sender may store the    *)
(* flag after it.                                                           *)
Cancel == repeat' \in {FALSE, repeat} /\ UNCHANGED <<wire, request>>

Resend ==
  /\ repeat
  /\ ~stop /\ ~quit
  /\ wire = <<>>
  /\ wire' = <<request>>
  /\ UNCHANGED <<proc, sessionVars, quit, timeout, frames, request, repeat, hbVars,
                 toldVars, serverVars, faults, silenceVars>>

-----------------------------------------------------------------------------
(* The process.                                                             *)

Reset ==
  /\ timeout' = 0
  /\ heard' = (hb = "sleep") /\ quiet' = 0
  /\ IF hb \in {"declare", "store"}
       THEN races < MaxRaces /\ races' = races + 1
       ELSE UNCHANGED races

(* login_start up to its sleep of two seconds.                              *)
LoginStart ==
  /\ Reset
  /\ identity' = FALSE
  /\ reported' = FALSE
  /\ Send(Pkt("Logoff"), FALSE)
  /\ proc' = "logoff"

(* Faulty variant: the flag of the session that was stopped stays set.      *)
Start_StopKept ==
  /\ proc = "start"
  /\ LoginStart
  /\ UNCHANGED <<stop, quit, md5, frames, hbVars, msgVars, serverVars, faults>>

(* start(): the flag is cleared, the threads run.                           *)
Start ==
  /\ proc = "start"
  /\ stop' = FALSE
  /\ LoginStart
  /\ UNCHANGED <<quit, md5, frames, hbVars, msgVars, serverVars, faults>>

(* Two seconds are ample for the Logoff to be sent and answered.            *)
SendStart ==
  /\ proc = "logoff"
  /\ wire = <<>>
  /\ Send(Pkt("Start"), TRUE)
  /\ proc' = "run"
  /\ UNCHANGED <<sessionVars, quit, timeout, frames, hbVars, toldVars, serverVars,
                 faults, silenceVars>>

(* The main loop takes a frame.                                             *)
Handle(kind) ==
  /\ proc = "run"
  /\ ~stop /\ ~quit
  /\ frames # <<>>
  /\ Head(frames).kind = kind
  /\ frames' = Tail(frames)
  /\ UNCHANGED <<quit, serverVars, faults>>

(* Faulty variant: only the first identity request resets the counter.      *)
OnKeepalive_NoReset ==
  /\ Handle("Identity")
  /\ identity
  /\ Send(Pkt("Identity"), FALSE)
  /\ heard' = (hb = "sleep") /\ quiet' = 0
  /\ UNCHANGED <<proc, sessionVars, timeout, hbVars, toldVars, races>>

(* The stored packet answers every identity request but the first.          *)
OnKeepalive ==
  /\ Handle("Identity")
  /\ identity
  /\ Reset
  /\ Send(Pkt("Identity"), FALSE)
  /\ UNCHANGED <<proc, sessionVars, hbVars, toldVars>>

(* "Maybe you have been login."                                             *)
OnForeignIdentity ==
  /\ Handle("Identity")
  /\ ~identity
  /\ Head(frames).n > 1
  /\ LoginStart
  /\ UNCHANGED <<stop, md5, hbVars, msgVars>>

OnIdentity ==
  /\ Handle("Identity")
  /\ ~identity
  /\ Head(frames).n <= 1
  /\ Reset
  /\ identity' = TRUE
  /\ Send(Pkt("Identity"), TRUE)
  /\ UNCHANGED <<proc, stop, md5, hbVars, toldVars>>

OnChallenge ==
  /\ Handle("Challenge")
  /\ md5' = Head(frames).n
  /\ Send([kind |-> "Response", key |-> Head(frames).n], TRUE)
  /\ UNCHANGED <<proc, stop, identity, timeout, hbVars, toldVars, silenceVars>>

(* Faulty variant: the heartbeat thread is started once and never unparked. *)
OnSuccess_NoUnpark ==
  /\ Handle("Success")
  /\ Cancel
  /\ told' = "Success" /\ toldMd5' = md5 /\ reported' = TRUE
  /\ hb' = IF hb = "off" THEN "top" ELSE hb
  /\ UNCHANGED <<proc, sessionVars, timeout, hbTok, cnt, quietThen, lateStop, silenceVars>>

OnSuccess ==
  /\ Handle("Success")
  /\ Cancel
  /\ told' = "Success" /\ toldMd5' = md5 /\ reported' = TRUE
  /\ IF hb = "off"
       THEN hb' = "top" /\ UNCHANGED hbTok
       ELSE hbTok' = TRUE /\ UNCHANGED hb
  /\ UNCHANGED <<proc, sessionVars, timeout, cnt, quietThen, lateStop, silenceVars>>

(* A notification that ends the session is not reported.                    *)
OnStop ==
  /\ Handle("Stop")
  /\ Cancel
  /\ stop' = TRUE
  /\ UNCHANGED <<proc, identity, md5, timeout, hbVars, toldVars, silenceVars>>

OnSleep ==
  /\ Handle("Sleep")
  /\ Cancel
  /\ stop' = TRUE
  /\ told' = "Sleep" /\ toldMd5' = 0
  /\ UNCHANGED <<proc, identity, md5, timeout, hbVars, lateStop, reported, silenceVars>>

OnContinue ==
  /\ Handle("Continue")
  /\ Cancel
  /\ UNCHANGED <<proc, sessionVars, timeout, hbVars, toldVars, silenceVars>>

(* The loop ends on stop and the caller sleeps, at least for a second, in   *)
(* which the heartbeat thread takes the few steps it is at.                 *)
Restart ==
  /\ proc = "run"
  /\ stop
  /\ hb \notin {"declare", "store"}
  /\ proc' = "start"
  /\ UNCHANGED <<sessionVars, quit, timeout, frames, sendVars, hbVars, toldVars,
                 serverVars, faults, silenceVars>>

(* Faulty variant: the new process takes over the frames of the old one.    *)
Rebuild_SameChannel ==
  /\ proc = "run"
  /\ ~stop /\ quit
  /\ told' = "Quit" /\ toldMd5' = 0 /\ reported' = FALSE
  /\ lateStop' = (lateStop \/ (hb \in {"sleep", "load"} /\ timeout > Count))
  /\ proc' = "start" /\ quit' = FALSE
  /\ timeout' = 0 /\ identity' = FALSE /\ md5' = 0
  /\ wire' = <<>> /\ request' = NoPacket /\ repeat' = FALSE
  /\ hb' = "off" /\ hbTok' = FALSE /\ cnt' = 0
  /\ heard' = FALSE /\ quiet' = 0 /\ quietThen' = 0
  /\ UNCHANGED <<stop, frames, serverVars, faults, races>>

(* The loop ends on quit, QUIT is reported, and the generator builds a new  *)
(* process with channels and counters of its own.                           *)
Rebuild ==
  /\ proc = "run"
  /\ ~stop /\ quit
  /\ told' = "Quit" /\ toldMd5' = 0 /\ reported' = FALSE
  /\ lateStop' = (lateStop \/ (hb \in {"sleep", "load"} /\ timeout > Count))
  /\ proc' = "start" /\ quit' = FALSE
  /\ timeout' = 0 /\ identity' = FALSE /\ md5' = 0
  /\ frames' = <<>> /\ wire' = <<>> /\ request' = NoPacket /\ repeat' = FALSE
  /\ hb' = "off" /\ hbTok' = FALSE /\ cnt' = 0
  /\ heard' = FALSE /\ quiet' = 0 /\ quietThen' = 0
  /\ UNCHANGED <<stop, serverVars, faults, races>>

(* A worker's retries are used up, or a worker died.                        *)
Broken ==
  /\ proc \in {"logoff", "run"}
  /\ ~quit
  /\ faults < MaxFaults
  /\ faults' = faults + 1
  /\ quit' = TRUE
  /\ UNCHANGED <<proc, sessionVars, timeout, frames, sendVars, hbVars, toldVars,
                 serverVars, silenceVars>>

-----------------------------------------------------------------------------
(* The heartbeat thread.                                                    *)

HbTop ==
  /\ hb = "top"
  /\ hb' = IF quit THEN "done" ELSE IF stop THEN "parked" ELSE "sleep"
  /\ UNCHANGED <<proc, sessionVars, quit, timeout, frames, sendVars, hbTok, cnt,
                 quietThen, toldVars, serverVars, faults, silenceVars>>

HbUnpark ==
  /\ hb = "parked"
  /\ hbTok
  /\ hbTok' = FALSE
  /\ hb' = "sleep"
  /\ UNCHANGED <<proc, sessionVars, quit, timeout, frames, sendVars, cnt, quietThen,
                 toldVars, serverVars, faults, silenceVars>>

(* A period of eap_timeout is over; it was silent if no reset fell into it. *)
HbPeriod ==
  /\ hb = "sleep"
  /\ hb' = "load"
  /\ heard' = FALSE
  /\ quiet' = IF heard THEN 0 ELSE IF quiet > Count THEN quiet ELSE quiet + 1
  /\ UNCHANGED <<proc, sessionVars, quit, timeout, frames, sendVars, hbTok, cnt,
                 quietThen, toldVars, serverVars, faults, races>>

HbLoad ==
  /\ hb = "load"
  /\ cnt' = timeout
  /\ quietThen' = quiet
  /\ hb' = IF timeout > Count THEN "declare" ELSE "store"
  /\ UNCHANGED <<proc, sessionVars, quit, timeout, frames, sendVars, hbTok, toldVars,
                 serverVars, faults, silenceVars>>

HbDeclare ==
  /\ hb = "declare"
  /\ stop' = TRUE
  /\ told' = "Stop" /\ toldMd5' = 0
  /\ hb' = "store"
  /\ UNCHANGED <<proc, identity, md5, quit, timeout, frames, sendVars, hbTok, cnt,
                 quietThen, lateStop, reported, serverVars, faults, silenceVars>>

(* The counter is loaded and stored, not added to: a reset between the two  *)
(* is lost.                                                                 *)
HbStore ==
  /\ hb = "store"
  /\ timeout' = (cnt + 1) % 256
  /\ hb' = "top"
  /\ UNCHANGED <<proc, sessionVars, quit, frames, sendVars, hbTok, cnt, quietThen,
                 toldVars, serverVars, faults, silenceVars>>

(* The heartbeat thread of a process that is gone was asleep; it wakes up   *)
(* after the new process was built.                                         *)
HbLate ==
  /\ lateStop
  /\ lateStop' = FALSE
  /\ told' = "Stop" /\ toldMd5' = 0
  /\ UNCHANGED <<proc, sessionVars, quit, timeout, frames, sendVars, hbVars, reported, serverVars,
                 faults, silenceVars>>

-----------------------------------------------------------------------------
(* The authenticator and the network.                                       *)

(* A frame that finds the capture buffer full is lost.                      *)
Deliver(f) == frames' = IF Len(frames) < MaxFrames THEN Append(frames, f) ELSE frames

Following(n) == (n % Keys) + 1

(* A packet of a login is answered, or comes at the wrong time.             *)
Answer(p) ==
  \/ /\ p.kind = "Logoff"
     /\ server' = "none"
     /\ UNCHANGED <<challenge, frames>>
  \/ /\ p.kind = "Start"
     /\ server' = "identity"
     /\ Deliver(Frm("Identity", 1))
     /\ UNCHANGED challenge
  \/ /\ p.kind = "Identity" /\ server = "identity"
     /\ server' = "challenged"
     /\ challenge' = Following(challenge)
     /\ Deliver(Frm("Challenge", challenge'))
  \/ /\ p.kind = "Response" /\ p.key = challenge /\ server \in {"challenged", "authed"}
     /\ server' = "authed"
     /\ Deliver(Frm("Success", 0))
     /\ UNCHANGED challenge
  \/ /\ \/ p.kind = "Identity" /\ server # "identity"
        \/ p.kind = "Response" /\ (p.key # challenge \/ server \in {"none", "identity"})
     /\ UNCHANGED <<server, challenge, frames>>

ServerTake ==
  /\ wire # <<>>
  /\ wire' = Tail(wire)
  /\ Answer(Head(wire))
  /\ UNCHANGED <<proc, sessionVars, quit, timeout, request, repeat, hbVars, toldVars,
                 faults, silenceVars>>

(* The open request is repeated; an unauthorised port is asked for its      *)
(* identity.                                                                *)
ServerRepeat ==
  /\ frames = <<>>
  /\ \/ /\ server \in {"none", "identity"}
        /\ server' = "identity"
        /\ Deliver(Frm("Identity", 1))
     \/ /\ server = "challenged"
        /\ Deliver(Frm("Challenge", challenge))
        /\ UNCHANGED server
  /\ UNCHANGED <<proc, sessionVars, quit, timeout, sendVars, hbVars, toldVars, challenge,
                 faults, silenceVars>>

ServerProbe ==
  /\ Probing
  /\ server = "authed"
  /\ Deliver(Frm("Identity", 2))
  /\ UNCHANGED <<proc, sessionVars, quit, timeout, sendVars, hbVars, toldVars, serverVars,
                 faults, silenceVars>>

ServerNotify(kind) ==
  /\ faults < MaxFaults
  /\ faults' = faults + 1
  /\ Deliver(Frm(kind, 0))
  /\ server' \in {server, "none"}
  /\ UNCHANGED <<proc, sessionVars, quit, timeout, sendVars, hbVars, toldVars, challenge,
                 silenceVars>>

Lose ==
  /\ faults < MaxFaults
  /\ faults' = faults + 1
  /\ \/ wire # <<>> /\ wire' = Tail(wire) /\ UNCHANGED frames
     \/ frames # <<>> /\ frames' = Tail(frames) /\ UNCHANGED wire
  /\ UNCHANGED <<proc, sessionVars, quit, timeout, request, repeat, hbVars, toldVars,
                 serverVars, silenceVars>>

-----------------------------------------------------------------------------
Process == \/ Start \/ SendStart \/ Restart \/ Rebuild
           \/ OnKeepalive \/ OnForeignIdentity \/ OnIdentity \/ OnChallenge
           \/ OnSuccess \/ OnStop \/ OnSleep \/ OnContinue

Heartbeat == HbTop \/ HbUnpark \/ HbPeriod \/ HbLoad \/ HbDeclare \/ HbStore

Server == ServerTake \/ ServerRepeat

Environment == \/ Broken \/ HbLate \/ ServerProbe \/ Lose
               \/ \E kind \in {"Stop", "Sleep", "Continue"} : ServerNotify(kind)

Next == Process \/ Resend \/ Heartbeat \/ Server \/ Environment

(* The threads run, time passes, and the authenticator keeps answering and  *)
(* repeating its open request.                                              *)
Fairness ==
  /\ WF_vars(Process)
  /\ WF_vars(Resend)
  /\ WF_vars(Heartbeat)
  /\ WF_vars(ServerTake)
  /\ WF_vars(ServerRepeat)

Spec == Init /\ [][Next]_vars

FairSpec == Spec /\ Fairness

-----------------------------------------------------------------------------
(* Every variable has its type; the counter stays within its width.         *)
TypeOK ==
  /\ proc \in {"start", "logoff", "run"}
  /\ stop \in BOOLEAN /\ quit \in BOOLEAN
  /\ timeout \in 0 .. 255 /\ identity \in BOOLEAN /\ md5 \in 0 .. Keys
  /\ frames \in Seq(Frame) /\ Len(frames) <= MaxFrames
  /\ wire \in Seq(Packet) /\ Len(wire) <= MaxWire
  /\ request \in Packet /\ repeat \in BOOLEAN
  /\ hb \in {"off", "top", "parked", "sleep", "load", "declare", "store", "done"}
  /\ hbTok \in BOOLEAN /\ cnt \in 0 .. 255
  /\ told \in {"None", "Success", "Stop", "Sleep", "Quit"} /\ toldMd5 \in 0 .. Keys
  /\ lateStop \in BOOLEAN /\ reported \in BOOLEAN
  /\ server \in {"none", "identity", "challenged", "authed"} /\ challenge \in 0 .. Keys
  /\ faults \in 0 .. MaxFaults
  /\ heard \in BOOLEAN /\ quiet \in 0 .. Count + 1 /\ quietThen \in 0 .. Count + 1
  /\ races \in 0 .. MaxRaces

(* A SUCCESS handed to the UDP side carries the md5 of a challenge this     *)
(* process has answered, never an empty one, although frames of an earlier  *)
(* session are still handled after a restart.  And every variable has its   *)
(* type.                                                                    *)
SuccessHasKey == TypeOK /\ (told = "Success" => toldMd5 # 0)

(* The heartbeat declares the session dead only after a whole period in     *)
(* which, from its beginning to its end, neither an identity request nor a  *)
(* login reset the counter; and only after more than RetryCount of them in  *)
(* a row if no reset fell between a load and a store of the counter.        *)
DeclaredAfterSilence ==
  hb = "declare" => quietThen >= 1 /\ (races = 0 => quietThen > Count)

(* In every session that has reported a SUCCESS, not only the first, a      *)
(* silent authenticator is noticed: the heartbeat thread is awake, and the  *)
(* periods without a reset do not go on for ever.                           *)
SilenceIsNoticed == []<>(proc # "run" \/ quit \/ ~reported \/ (quiet = 0 /\ hb # "parked"))

(* The first login is granted as long as the authenticator keeps answering, *)
(* whatever finite number of packets is lost and of sessions refused.       *)
FirstLoginIsGranted == proc = "run" /\ hb = "off" ~> server = "authed" \/ hb # "off" \/ quit
=============================================================================
