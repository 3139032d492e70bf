----------------------------- MODULE UdpSession -----------------------------
(***************************************************************************)
(* The UDP session of the core: the handshake and heartbeat of the UDP     *)
(* process, the heartbeat thread, and the listener that writes the md5 of  *)
(* the 802.1X session into the data they share.  The channel to EAP is the *)
(* one CoreLink details, without the orphaned listeners; the sending       *)
(* threads are reduced as in EapSession.  The Dr.COM server is external:   *)
(* it answers the packets of the authorised session, and an Alive only if  *)
(* it carries the md5 of that session with the checksum applied, and the   *)
(* information of its last answer.                                         *)
(***************************************************************************)
EXTENDS Integers, Sequences

CONSTANTS
  RetryCount,   (* settings.retry.count                                    *)
  Ample,        (* a heartbeat period is long enough for an exchange       *)
  MaxLogins,    (* bound: 802.1X logins; the n-th one has md5 n            *)
  MaxUpsets,    (* bound: STOP and QUIT messages of EAP                    *)
  MaxFaults     (* bound: lost packets, missed cancels, dead workers, late *)
                (* STOP messages, resets lost                              *)

ASSUME SessionAssumption ==
  /\ RetryCount \in Nat
  /\ Ample \in BOOLEAN
  /\ MaxLogins \in Nat \ {0}
  /\ MaxUpsets \in Nat
  /\ MaxFaults \in Nat

VARIABLES
  proc,       (* where the process is                                      *)
  stop, quit, alive,
  timeout,    (* the shared heartbeat counter, a u8                        *)
  cks,        (* data.cks_md5: the md5, and whether the checksum was       *)
              (* written over its first bytes                              *)
  info,       (* data.decrypted_from_misc_response_info: 0 while empty     *)
  frames,     (* receive_channel                                           *)
  wire,       (* the packets on their way to the server                    *)
  request,    (* the last packet sent                                      *)
  repeat,     (* it is to be sent again                                    *)
  listening,  (* the listener is not parked                                *)
  hb, hbTok,  (* where the heartbeat thread is; its park token             *)
  cnt,        (* its local copy of the counter                             *)
  eapQ,       (* messages of EAP                                           *)
  login,      (* the number of the last 802.1X login                       *)
  authed,     (* it is still authorised                                    *)
  sleeper,    (* the heartbeat thread of an EAP process that has been      *)
              (* rebuilt is still to wake up                               *)
  upsets, faults,
  heard,      (* history: a reset fell into the period that is running     *)
  quiet,      (* history: whole periods without a reset, up to now         *)
  races,      (* history: resets that fell between a load and a store       *)
  beating,    (* history: the process has got a Heartbeat4 of an exchange  *)
              (* that an Alive of the last login opened                    *)
  crossed     (* history: a heartbeat packet of the server has taken the   *)
              (* place of a packet of the handshake that had no answer yet *)

procVars == <<proc, stop, quit>>
dataVars == <<alive, timeout, cks, info>>
sendVars == <<wire, request, repeat>>
hbVars == <<hb, hbTok, cnt>>
eapVars == <<eapQ, login, authed, sleeper, upsets>>
beatVars == <<heard, quiet, races, beating>>
silenceVars == <<beatVars, crossed>>
vars == <<proc, stop, quit, alive, timeout, cks, info, frames, wire, request, repeat,
          listening, hb, hbTok, cnt, eapQ, login, authed, sleeper, upsets, faults, heard,
          quiet, races, beating, crossed>>

-----------------------------------------------------------------------------
(* Bounds of the two directions of the socket.                              *)
MaxWire == 2
MaxFrames == 2

Key == [md5 : 0 .. MaxLogins, applied : BOOLEAN]

Raw(n) == [md5 |-> n, applied |-> FALSE]

(* The packets of a heartbeat carry in info, as history, the login whose    *)
(* Alive opened the exchange.                                               *)
Packet == [kind : {"none", "MiscAlive", "MiscInfo", "Heartbeat1", "Heartbeat3", "Alive"},
           key : Key, info : 0 .. MaxLogins]

Frame == [kind : {"ResponseAlive", "ResponseInfo", "ResponseHeartbeatAlive",
                  "Heartbeat2", "Heartbeat4"},
          info : 0 .. MaxLogins]

Message == [state : {"Success", "Stop", "Quit"}, md5 : 0 .. MaxLogins]

Pkt(kind) == [kind |-> kind, key |-> Raw(0), info |-> 0]

Beat(kind, n) == [Pkt(kind) EXCEPT !.info = n]

Frm(kind, n) == [kind |-> kind, info |-> n]

Msg(state, n) == [state |-> state, md5 |-> n]

NoPacket == Pkt("none")

(* min(settings.retry.count, u8::MAX)                                       *)
Count == IF RetryCount > 255 THEN 255 ELSE RetryCount

Init ==
  /\ proc = "start" /\ stop = FALSE /\ quit = FALSE
  /\ alive = FALSE /\ timeout = 0 /\ cks = Raw(0) /\ info = 0
  /\ frames = <<>> /\ wire = <<>> /\ request = NoPacket /\ repeat = FALSE
  /\ listening = TRUE
  /\ hb = "off" /\ hbTok = FALSE /\ cnt = 0
  /\ eapQ = <<>> /\ login = 0 /\ authed = FALSE /\ sleeper = FALSE /\ upsets = 0
  /\ faults = 0
  /\ heard = FALSE /\ quiet = 0 /\ races = 0
  /\ beating = FALSE /\ crossed = FALSE

-----------------------------------------------------------------------------
(* Sending.                                                                 *)

Bounded == faults + races < MaxFaults

Fault == Bounded /\ faults' = faults + 1

Send(p) ==
  /\ Len(wire) < MaxWire
  /\ wire' = Append(wire, p)
  /\ request' = p
  /\ repeat' = TRUE

(* cancel_resend(); an answer so fast that the Sender has yet to store the  *)
(* flag is not the rule.                                                    *)
Cancel ==
  /\ \/ repeat' = FALSE /\ UNCHANGED faults
     \/ repeat /\ Fault /\ UNCHANGED repeat
  /\ UNCHANGED <<wire, request>>

Resend ==
  /\ repeat
  /\ ~stop /\ ~quit
  /\ wire = <<>>
  /\ wire' = <<request>>
  /\ UNCHANGED <<procVars, dataVars, frames, request, repeat, listening, hbVars, eapVars,
                 faults, silenceVars>>

-----------------------------------------------------------------------------
(* The process.                                                             *)

Reset ==
  /\ timeout' = 0
  /\ heard' = (hb = "sleep") /\ quiet' = 0
  /\ IF hb = "store" THEN Bounded /\ races' = races + 1 ELSE UNCHANGED races

(* start(): the flag is cleared, the threads run, the login begins.         *)
Start ==
  /\ proc = "start"
  /\ stop' = FALSE
  /\ listening' = TRUE
  /\ Reset
  /\ alive' = FALSE
  /\ beating' = FALSE
  /\ proc' = "wait"
  /\ UNCHANGED <<quit, cks, info, frames, sendVars, hbVars, eapVars, faults, crossed>>

(* login_start waits for an md5; that of an earlier session will do.        *)
Begin ==
  /\ proc = "wait"
  /\ ~quit
  /\ cks.md5 # 0
  /\ Send(Pkt("MiscAlive"))
  /\ proc' = "run"
  /\ UNCHANGED <<stop, quit, dataVars, frames, listening, hbVars, eapVars, faults,
                 silenceVars>>

(* Quit was set, or 90 seconds have passed, in which the listener would     *)
(* have taken what was there.                                               *)
GiveUp ==
  /\ proc = "wait"
  /\ \/ quit
     \/ cks.md5 = 0 /\ (eapQ = <<>> \/ ~listening)
  /\ quit' = TRUE
  /\ proc' = "run"
  /\ UNCHANGED <<stop, dataVars, frames, sendVars, listening, hbVars, eapVars, faults,
                 silenceVars>>

Running == proc = "run" /\ ~stop /\ ~quit

(* Both parts of the data have to be there; whether they belong together is *)
(* not asked.                                                               *)
SendAlive ==
  /\ Running
  /\ alive
  /\ alive' = FALSE
  /\ IF cks.md5 # 0 /\ info # 0
       THEN Send([kind |-> "Alive", key |-> cks, info |-> info])
       ELSE UNCHANGED sendVars
  /\ UNCHANGED <<procVars, timeout, cks, info, frames, listening, hbVars, eapVars, faults,
                 silenceVars>>

(* The main loop takes a packet of the server.  Whatever it is, what was    *)
(* last sent is sent no more.                                               *)
Handle(kind) ==
  /\ Running
  /\ frames # <<>>
  /\ Head(frames).kind = kind
  /\ frames' = Tail(frames)
  /\ crossed' = (crossed \/ (/\ kind \in {"ResponseHeartbeatAlive", "Heartbeat2", "Heartbeat4"}
                             /\ request.kind \in {"MiscAlive", "MiscInfo"}
                             /\ repeat))
  /\ UNCHANGED <<procVars, alive, listening, eapVars>>

(* send_misc_info writes the checksum over the md5.                         *)
OnResponseAlive ==
  /\ Handle("ResponseAlive")
  /\ cks' = [cks EXCEPT !.applied = TRUE]
  /\ Send(Pkt("MiscInfo"))
  /\ UNCHANGED <<timeout, info, hbVars, faults, beatVars>>

(* Faulty variant: the heartbeat thread is started once and never unparked. *)
OnResponseInfo_NoUnpark ==
  /\ Handle("ResponseInfo")
  /\ Cancel
  /\ info' = Head(frames).info
  /\ hb' = IF hb = "off" THEN "top" ELSE hb
  /\ UNCHANGED <<timeout, cks, hbTok, cnt, beatVars>>

OnResponseInfo ==
  /\ Handle("ResponseInfo")
  /\ Cancel
  /\ info' = Head(frames).info
  /\ IF hb = "off"
       THEN hb' = "top" /\ UNCHANGED hbTok
       ELSE hbTok' = TRUE /\ UNCHANGED hb
  /\ UNCHANGED <<timeout, cks, cnt, beatVars>>

OnResponseHeartbeatAlive ==
  /\ Handle("ResponseHeartbeatAlive")
  /\ Send(Beat("Heartbeat1", Head(frames).info))
  /\ UNCHANGED <<timeout, cks, info, hbVars, faults, beatVars>>

OnHeartbeat2 ==
  /\ Handle("Heartbeat2")
  /\ Send(Beat("Heartbeat3", Head(frames).info))
  /\ UNCHANGED <<timeout, cks, info, hbVars, faults, beatVars>>

OnHeartbeat4 ==
  /\ Handle("Heartbeat4")
  /\ Cancel
  /\ Reset
  /\ beating' = (beating \/ Head(frames).info = login)
  /\ UNCHANGED <<cks, info, hbVars>>

(* The loop ends on stop, and start() is called again after the wait.       *)
Restart ==
  /\ proc = "run"
  /\ stop
  /\ proc' = "start"
  /\ UNCHANGED <<stop, quit, dataVars, frames, sendVars, listening, hbVars, eapVars, faults,
                 silenceVars>>

(* A new process has data, counters, threads and a socket of its own.       *)
Fresh ==
  /\ proc' = "start" /\ stop' = FALSE /\ quit' = FALSE
  /\ alive' = FALSE /\ timeout' = 0 /\ cks' = Raw(0) /\ info' = 0
  /\ frames' = <<>> /\ wire' = <<>> /\ request' = NoPacket /\ repeat' = FALSE
  /\ listening' = TRUE
  /\ hb' = "off" /\ hbTok' = FALSE /\ cnt' = 0
  /\ heard' = FALSE /\ quiet' = 0 /\ beating' = FALSE
  /\ UNCHANGED <<login, authed, sleeper, upsets, faults, races, crossed>>

(* The loop ends on quit and the generator builds a new process; the last   *)
(* SUCCESS is put into its queue again.                                     *)
Rebuild ==
  /\ proc = "run"
  /\ ~stop /\ quit
  /\ Fresh
  /\ eapQ' = IF login = 0 THEN eapQ ELSE Append(eapQ, Msg("Success", login))

(* A worker died, or used up its retries.                                   *)
Broken ==
  /\ proc = "run"
  /\ ~quit
  /\ Fault
  /\ quit' = TRUE
  /\ UNCHANGED <<proc, stop, dataVars, frames, sendVars, listening, hbVars, eapVars,
                 silenceVars>>

-----------------------------------------------------------------------------
(* The listener.                                                            *)

Receive(state) ==
  /\ listening
  /\ proc # "start"
  /\ eapQ # <<>>
  /\ Head(eapQ).state = state
  /\ eapQ' = Tail(eapQ)
  /\ UNCHANGED <<proc, alive, timeout, info, frames, sendVars, hbVars, login, authed,
                 sleeper, upsets, faults, silenceVars>>

(* The md5 is stored as it comes, whatever the process is doing.            *)
ListenSuccess ==
  /\ Receive("Success")
  /\ cks' = Raw(Head(eapQ).md5)
  /\ UNCHANGED <<stop, quit, listening>>

(* The flag is set; the listener parks until the next start().              *)
ListenStop ==
  /\ Receive("Stop")
  /\ stop' = TRUE
  /\ listening' = FALSE
  /\ UNCHANGED <<quit, cks>>

ListenQuit ==
  /\ Receive("Quit")
  /\ quit' = TRUE
  /\ UNCHANGED <<stop, listening, cks>>

-----------------------------------------------------------------------------
(* The server: which packets of the current session it answers.             *)

Answerable(p) ==
  /\ authed
  /\ p.kind # "none"
  /\ p.kind = "Alive" => p.key = [md5 |-> login, applied |-> TRUE] /\ p.info = login

(* Nothing is going on that will be over within seconds.                    *)
NothingUnderWay ==
  /\ frames = <<>>
  /\ ~alive
  /\ ~(repeat /\ Answerable(request))
  /\ \A i \in DOMAIN wire : ~Answerable(wire[i])

-----------------------------------------------------------------------------
(* The heartbeat thread.                                                    *)

HbTop ==
  /\ hb = "top"
  /\ IF quit THEN hb' = "done" /\ UNCHANGED alive
     ELSE IF stop THEN hb' = "parked" /\ UNCHANGED alive
     ELSE hb' = "sleep" /\ alive' = TRUE
  /\ UNCHANGED <<procVars, timeout, cks, info, frames, sendVars, listening, hbTok, cnt,
                 eapVars, faults, silenceVars>>

HbUnpark ==
  /\ hb = "parked"
  /\ hbTok
  /\ hbTok' = FALSE
  /\ hb' = "sleep"
  /\ alive' = TRUE
  /\ UNCHANGED <<procVars, timeout, cks, info, frames, sendVars, listening, cnt,
                 eapVars, faults, silenceVars>>

(* A period of udp_timeout is over; it was silent if no reset fell into it. *)
HbPeriod ==
  /\ hb = "sleep"
  /\ Ample /\ Running => NothingUnderWay
  /\ hb' = "load"
  /\ heard' = FALSE
  /\ quiet' = IF heard THEN 0 ELSE IF quiet > Count THEN quiet ELSE quiet + 1
  /\ UNCHANGED <<procVars, dataVars, frames, sendVars, listening, hbTok, cnt,
                 eapVars, faults, races, beating, crossed>>

HbLoad ==
  /\ hb = "load"
  /\ timeout <= Count
  /\ cnt' = timeout
  /\ hb' = "store"
  /\ UNCHANGED <<procVars, dataVars, frames, sendVars, listening, hbTok, eapVars, faults,
                 silenceVars>>

(* Faulty variant: one period fewer.                                        *)
HbDeclare_Early ==
  /\ hb = "load"
  /\ timeout >= Count
  /\ quit' = TRUE
  /\ cnt' = timeout
  /\ hb' = "done"
  /\ UNCHANGED <<proc, stop, dataVars, frames, sendVars, listening, hbTok, eapVars, faults,
                 silenceVars>>

HbDeclare ==
  /\ hb = "load"
  /\ timeout > Count
  /\ quit' = TRUE
  /\ cnt' = timeout
  /\ hb' = "done"
  /\ UNCHANGED <<proc, stop, dataVars, frames, sendVars, listening, hbTok, eapVars, faults,
                 silenceVars>>

HbStore ==
  /\ hb = "store"
  /\ timeout' = (cnt + 1) % 256
  /\ hb' = "top"
  /\ UNCHANGED <<procVars, alive, cks, info, frames, sendVars, listening, hbTok, cnt,
                 eapVars, faults, silenceVars>>

-----------------------------------------------------------------------------
(* The server, EAP and the network.                                         *)

Answer(p) ==
  CASE p.kind = "MiscAlive" -> Frm("ResponseAlive", 0)
    [] p.kind = "MiscInfo" -> Frm("ResponseInfo", login)
    [] p.kind = "Alive" -> Frm("ResponseHeartbeatAlive", login)
    [] p.kind = "Heartbeat1" -> Frm("Heartbeat2", p.info)
    [] p.kind = "Heartbeat3" -> Frm("Heartbeat4", p.info)

(* Sessions end at the server as they end at the authenticator.  An answer  *)
(* that finds the receive buffer full is lost.                              *)
ServerTake ==
  /\ wire # <<>>
  /\ wire' = Tail(wire)
  /\ IF Answerable(Head(wire)) /\ Len(frames) < MaxFrames
       THEN frames' = Append(frames, Answer(Head(wire)))
       ELSE UNCHANGED frames
  /\ UNCHANGED <<procVars, dataVars, request, repeat, listening, hbVars, eapVars, faults,
                 silenceVars>>

Lose ==
  /\ Fault
  /\ \/ wire # <<>> /\ wire' = Tail(wire) /\ UNCHANGED frames
     \/ frames # <<>> /\ frames' = Tail(frames) /\ UNCHANGED wire
  /\ UNCHANGED <<procVars, dataVars, request, repeat, listening, hbVars, eapVars, silenceVars>>

(* A login of EAP: the first, the one after a session has ended, or one the *)
(* authenticator asked for in the middle of a session.                      *)
EapLogin ==
  /\ login < MaxLogins
  /\ login' = login + 1
  /\ authed' = TRUE
  /\ eapQ' = Append(eapQ, Msg("Success", login + 1))
  /\ beating' = FALSE
  /\ UNCHANGED <<procVars, dataVars, frames, sendVars, listening, hbVars, sleeper, upsets,
                 faults, heard, quiet, races, crossed>>

(* EAP gives its session up, and logs in again: after a STOP, after a QUIT, *)
(* with which its process is rebuilt, or after a notification, which is not *)
(* reported.                                                                *)
EapUpset ==
  /\ authed
  /\ upsets < MaxUpsets /\ login < MaxLogins
  /\ upsets' = upsets + 1
  /\ authed' = FALSE
  /\ \/ eapQ' = Append(eapQ, Msg("Stop", 0)) /\ UNCHANGED sleeper
     \/ eapQ' = Append(eapQ, Msg("Quit", 0)) /\ sleeper' = TRUE
     \/ UNCHANGED <<eapQ, sleeper>>
  /\ UNCHANGED <<procVars, dataVars, frames, sendVars, listening, hbVars, login, faults,
                 silenceVars>>

(* The heartbeat thread of an EAP process that was rebuilt wakes up and      *)
(* reports the end of its session, when the next one may be there.          *)
EapLate ==
  /\ sleeper
  /\ Fault
  /\ sleeper' = FALSE
  /\ eapQ' = Append(eapQ, Msg("Stop", 0))
  /\ UNCHANGED <<procVars, dataVars, frames, sendVars, listening, hbVars, login, authed, upsets,
                 silenceVars>>

-----------------------------------------------------------------------------
Process == \/ Start \/ Begin \/ GiveUp \/ SendAlive \/ Restart \/ Rebuild
           \/ OnResponseAlive \/ OnResponseInfo \/ OnResponseHeartbeatAlive
           \/ OnHeartbeat2 \/ OnHeartbeat4

Listener == ListenSuccess \/ ListenStop \/ ListenQuit

Heartbeat == HbTop \/ HbUnpark \/ HbPeriod \/ HbLoad \/ HbDeclare \/ HbStore

Environment == Broken \/ Lose \/ EapLogin \/ EapUpset \/ EapLate

Next == Process \/ Resend \/ Listener \/ Heartbeat \/ ServerTake \/ Environment

(* The threads run, the main loop looks at alive in every round, time       *)
(* passes, the server answers, and EAP logs in again after it has given a   *)
(* session up.                                                              *)
Fairness ==
  /\ WF_vars(Process)
  /\ WF_vars(SendAlive)
  /\ WF_vars(Resend)
  /\ WF_vars(Listener)
  /\ WF_vars(Heartbeat)
  /\ WF_vars(ServerTake)
  /\ WF_vars(EapLogin /\ ~authed)

Spec == Init /\ [][Next]_vars

FairSpec == Spec /\ Fairness

-----------------------------------------------------------------------------
(* Every variable has its type; the counter stays within its width.         *)
TypeOK ==
  /\ proc \in {"start", "wait", "run"}
  /\ stop \in BOOLEAN /\ quit \in BOOLEAN /\ alive \in BOOLEAN
  /\ timeout \in 0 .. 255 /\ cks \in Key /\ info \in 0 .. MaxLogins
  /\ frames \in Seq(Frame) /\ Len(frames) <= MaxFrames
  /\ wire \in Seq(Packet) /\ Len(wire) <= MaxWire
  /\ request \in Packet /\ repeat \in BOOLEAN
  /\ listening \in BOOLEAN
  /\ hb \in {"off", "top", "parked", "sleep", "load", "store", "done"}
  /\ hbTok \in BOOLEAN /\ cnt \in 0 .. 255
  /\ eapQ \in Seq(Message) /\ login \in 0 .. MaxLogins /\ authed \in BOOLEAN
  /\ sleeper \in BOOLEAN /\ upsets \in 0 .. MaxUpsets /\ faults \in 0 .. MaxFaults
  /\ heard \in BOOLEAN /\ quiet \in 0 .. Count + 1
  /\ races \in 0 .. MaxFaults /\ beating \in BOOLEAN /\ crossed \in BOOLEAN

(* When the heartbeat thread gives the process up, a whole period has       *)
(* passed, from its beginning to its end, without a Heartbeat4 or a start;  *)
(* more than RetryCount of them in a row if no reset fell between a load    *)
(* and a store of the counter.  And every variable has its type.            *)
GivenUpAfterSilence ==
  /\ []TypeOK
  /\ [][hb = "load" /\ hb' = "done" =>
          quiet >= 1 /\ (races = 0 => quiet > Count)]_vars

(* The session beats in the end, for the last login, and goes on beating.   *)
Heals == <>[]beating /\ []<>(beating /\ hb = "sleep" /\ heard)

(* However logins, ends of sessions and losses fall into the handshake or   *)
(* the heartbeat, although a restarted process begins with the md5 of the   *)
(* session before, although a login in the middle of a session makes its    *)
(* Alive packets unacceptable and the end of one may go unreported, the     *)
(* session heals: for the last login a whole heartbeat goes through, and    *)
(* after it one period after the other has its own.                         *)
(* Excused is a session in which a heartbeat packet left over from before a *)
(* restart took the place of a packet of the handshake.                     *)
SessionHeals == [](~crossed) => Heals

(* PATCHES.md: heartbeats that stay away make the process restart.  Again   *)
(* and again one comes or the process gives itself up, once the heartbeat   *)
(* thread has begun.                                                        *)
SilenceRestarts == []<>(heard \/ quit \/ hb = "off")
=============================================================================
