------------------------------ MODULE CoreLink ------------------------------
(***************************************************************************)
(* How the result of the 802.1X login reaches the UDP heartbeat process of *)
(* the shipped core: the EAP process, the forwarding main thread with its  *)
(* cache of the last SUCCESS, the thread that rebuilds the UDP process     *)
(* (UDP-Process-Generator), the UDP process itself and its EAPtoUDP thread *)
(* ("listener").  Every UDP process clones ONE receiver, so that a         *)
(* listener which outlives its process still takes messages from the       *)
(* channel; such listeners are interchangeable and are only counted.       *)
(*                                                                         *)
(* The UDP conversation and the EAP conversation are reduced to what this  *)
(* link sees of them: a process that breaks, and a process that reports.   *)
(* thread::park_timeout may return at any time, so that the park token of  *)
(* the UDP process changes nothing and is left out.                        *)
(***************************************************************************)
EXTENDS Integers, Sequences

CONSTANTS
  MaxLogins,    (* bound: SUCCESS messages EAP sends                       *)
  MaxUpsets,    (* bound: STOP, SLEEP and QUIT messages EAP sends          *)
  MaxFaults,    (* bound: failures of the UDP side that nothing here causes*)
  MaxOrphans    (* bound: listeners counted as outliving their process     *)

ASSUME BoundsAssumption ==
  /\ MaxLogins \in Nat
  /\ MaxUpsets \in Nat
  /\ MaxFaults \in Nat
  /\ MaxOrphans \in Nat \ {0}

VARIABLES
  eapQ,       (* channel EAP process -> main thread                        *)
  udpQ,       (* channel main thread, generator -> listeners               *)
  forwarding, (* message the main thread holds between recv and send       *)
  cache,      (* last_success: 0, or the md5 of the cached SUCCESS         *)
  logins,     (* SUCCESS messages so far; n stands for the md5 of the n-th   *)
  upsets,
  faults,
  gen,        (* where UDP-Process-Generator is                            *)
  injected,   (* its clone of the cache, while it holds the mutex          *)
  proc,       (* where the UDP process is                                  *)
  cks,        (* its cks_md5: 0 while empty                                *)
  quit, stop, asleep,   (* its shared flags; asleep is "sleep"             *)
  listener,   (* where its EAPtoUDP thread is                              *)
  token,      (* park token of that thread                                 *)
  orphans     (* listeners of earlier processes, blocked in rx.recv()      *)

eapVars == <<eapQ, logins, upsets>>
mainVars == <<forwarding, cache>>
genVars == <<gen, injected>>
flagVars == <<quit, stop, asleep>>
listenVars == <<listener, token>>
vars == <<eapQ, udpQ, forwarding, cache, logins, upsets, faults, gen, injected,
          proc, cks, quit, stop, asleep, listener, token, orphans>>

-----------------------------------------------------------------------------
Upsets == {"Stop", "Sleep", "Quit"}

Message == [state : {"Success"}, md5 : 1 .. MaxLogins] \cup [state : Upsets, md5 : {0}]

Nothing == [state |-> "None", md5 |-> 0]

Success(n) == [state |-> "Success", md5 |-> n]

Upset(s) == [state |-> s, md5 |-> 0]

IsSuccess(m) == m.state = "Success"

Bounded(n) == IF n > MaxOrphans THEN MaxOrphans ELSE n

Init ==
  /\ eapQ = <<>> /\ udpQ = <<>>
  /\ forwarding = Nothing /\ cache = 0
  /\ logins = 0 /\ upsets = 0 /\ faults = 0
  /\ gen = "inject" /\ injected = 0
  /\ proc = "none" /\ cks = 0
  /\ quit = FALSE /\ stop = FALSE /\ asleep = FALSE
  /\ listener = "none" /\ token = FALSE
  /\ orphans = 0

-----------------------------------------------------------------------------
(* The EAP process.  Only on_success, the EAP heartbeat timeout, ErrCode=16 *)
(* and a process that quits are reported; every other notification that     *)
(* ends the session is not.                                                 *)

EapSuccess ==
  /\ logins < MaxLogins
  /\ logins' = logins + 1
  /\ eapQ' = Append(eapQ, Success(logins + 1))
  /\ UNCHANGED <<udpQ, mainVars, upsets, faults, genVars, proc, cks, flagVars,
                 listenVars, orphans>>

EapUpset(s) ==
  /\ upsets < MaxUpsets
  /\ upsets' = upsets + 1
  /\ eapQ' = Append(eapQ, Upset(s))
  /\ UNCHANGED <<udpQ, mainVars, logins, faults, genVars, proc, cks, flagVars,
                 listenVars, orphans>>

-----------------------------------------------------------------------------
(* The main thread: take a message, cache a SUCCESS, pass it on.            *)

CacheFree == gen # "send"

(* Faulty variant: the cache is written without taking its mutex.           *)
MainTake_NoLock ==
  /\ forwarding = Nothing
  /\ eapQ # <<>>
  /\ forwarding' = Head(eapQ)
  /\ eapQ' = Tail(eapQ)
  /\ cache' = IF IsSuccess(Head(eapQ)) THEN Head(eapQ).md5 ELSE cache
  /\ UNCHANGED <<udpQ, logins, upsets, faults, genVars, proc, cks, flagVars,
                 listenVars, orphans>>

MainTake ==
  /\ forwarding = Nothing
  /\ eapQ # <<>>
  /\ IsSuccess(Head(eapQ)) => CacheFree
  /\ forwarding' = Head(eapQ)
  /\ eapQ' = Tail(eapQ)
  /\ cache' = IF IsSuccess(Head(eapQ)) THEN Head(eapQ).md5 ELSE cache
  /\ UNCHANGED <<udpQ, logins, upsets, faults, genVars, proc, cks, flagVars,
                 listenVars, orphans>>

MainForward ==
  /\ forwarding # Nothing
  /\ udpQ' = Append(udpQ, forwarding)
  /\ forwarding' = Nothing
  /\ UNCHANGED <<eapVars, cache, faults, genVars, proc, cks, flagVars,
                 listenVars, orphans>>

-----------------------------------------------------------------------------
(* UDP-Process-Generator.  The guard of the cache mutex lives to the end of *)
(* the "if let", that is until the clone has been sent.                     *)

GenLock ==
  /\ gen = "inject"
  /\ IF cache = 0
       THEN gen' = "spawn" /\ UNCHANGED injected
       ELSE gen' = "send" /\ injected' = cache
  /\ UNCHANGED <<eapVars, udpQ, mainVars, faults, proc, cks, flagVars,
                 listenVars, orphans>>

GenSend ==
  /\ gen = "send"
  /\ udpQ' = Append(udpQ, Success(injected))
  /\ gen' = "spawn"
  /\ injected' = 0
  /\ UNCHANGED <<eapVars, mainVars, faults, proc, cks, flagVars, listenVars,
                 orphans>>

GenSpawn ==
  /\ gen = "spawn"
  /\ gen' = "join"
  /\ proc' = "start"
  /\ cks' = 0
  /\ quit' = FALSE /\ stop' = FALSE /\ asleep' = FALSE
  /\ listener' = "none" /\ token' = FALSE
  /\ UNCHANGED <<eapVars, udpQ, mainVars, faults, injected, orphans>>

(* resolve_dns or socket_bind found nothing: the thread returns at once.    *)
GenSpawnFails ==
  /\ gen = "spawn"
  /\ faults < MaxFaults
  /\ faults' = faults + 1
  /\ gen' = "inject"
  /\ UNCHANGED <<eapVars, udpQ, mainVars, injected, proc, cks, flagVars,
                 listenVars, orphans>>

(* join() returns and the generator sleeps before the next round.  A        *)
(* listener past its check of quit takes one more message before it ends.   *)
GenJoin ==
  /\ gen = "join"
  /\ proc = "exited"
  /\ gen' = "inject"
  /\ proc' = "none"
  /\ orphans' = IF listener \in {"chkstop", "park", "recv"}
                  THEN Bounded(orphans + 1) ELSE orphans
  /\ listener' = "none"
  /\ UNCHANGED <<eapVars, udpQ, mainVars, faults, injected, cks, flagVars,
                 token>>

-----------------------------------------------------------------------------
(* The UDP process.                                                         *)

(* Faulty variant: the existing listener is not unparked.                   *)
ProcStart_NoUnpark ==
  /\ proc = "start"
  /\ stop' = FALSE
  /\ listener' = IF listener = "none" THEN "chkquit" ELSE listener
  /\ proc' = "login"
  /\ UNCHANGED <<eapVars, udpQ, mainVars, faults, genVars, cks, quit, asleep,
                 token, orphans>>

(* start() up to login_start: the flag is cleared and the listener is       *)
(* created, or unparked when the process is started again.                  *)
ProcStart ==
  /\ proc = "start"
  /\ stop' = FALSE
  /\ IF listener = "none"
       THEN listener' = "chkquit" /\ UNCHANGED token
       ELSE token' = TRUE /\ UNCHANGED listener
  /\ proc' = "login"
  /\ UNCHANGED <<eapVars, udpQ, mainVars, faults, genVars, cks, quit, asleep,
                 orphans>>

ProcLogin ==
  /\ proc = "login"
  /\ asleep' = FALSE
  /\ proc' = "await"
  /\ UNCHANGED <<eapVars, udpQ, mainVars, faults, genVars, cks, quit, stop,
                 listenVars, orphans>>

(* park_timeout returns and the wait is over: the process quits, or it      *)
(* holds the md5 of a SUCCESS and sends MiscAlive.                          *)
ProcWake ==
  /\ proc = "await"
  /\ quit \/ cks # 0
  /\ proc' = "loop"
  /\ UNCHANGED <<eapVars, udpQ, mainVars, faults, genVars, cks, flagVars,
                 listenVars, orphans>>

(* No listener has a step to take: 90 seconds are ample for a thread that   *)
(* can run to take what is already in the channel.                          *)
ListenersSettled ==
  /\ listener = "recv" \/ (listener = "park" /\ ~token) \/ listener = "done"
  /\ udpQ # <<>> => listener # "recv" /\ orphans = 0

(* 90 seconds have passed without a SUCCESS.                                *)
ProcGiveUp ==
  /\ proc = "await"
  /\ ListenersSettled
  /\ ~quit /\ cks = 0
  /\ quit' = TRUE
  /\ proc' = "loop"
  /\ UNCHANGED <<eapVars, udpQ, mainVars, faults, genVars, cks, stop, asleep,
                 listenVars, orphans>>

(* The main loop ends on stop; the caller sleeps and calls start() again.   *)
ProcStop ==
  /\ proc = "loop"
  /\ stop
  /\ proc' = "start"
  /\ UNCHANGED <<eapVars, udpQ, mainVars, faults, genVars, cks, flagVars,
                 listenVars, orphans>>

(* The main loop ends on quit; the workers are unparked.                    *)
ProcQuit ==
  /\ proc = "loop"
  /\ ~stop /\ quit
  /\ token' = TRUE
  /\ proc' = "exited"
  /\ UNCHANGED <<eapVars, udpQ, mainVars, faults, genVars, cks, flagVars,
                 listener, orphans>>

(* A heartbeat timeout or a worker whose retries are used up.               *)
ProcFault ==
  /\ proc \in {"await", "loop"}
  /\ ~quit
  /\ faults < MaxFaults
  /\ faults' = faults + 1
  /\ quit' = TRUE
  /\ UNCHANGED <<eapVars, udpQ, mainVars, genVars, proc, cks, stop, asleep,
                 listenVars, orphans>>

-----------------------------------------------------------------------------
(* EAPtoUDP.                                                                *)

ListenCheckQuit ==
  /\ listener = "chkquit"
  /\ listener' = IF quit THEN "done" ELSE "chkstop"
  /\ UNCHANGED <<eapVars, udpQ, mainVars, faults, genVars, proc, cks, flagVars,
                 token, orphans>>

ListenCheckStop ==
  /\ listener = "chkstop"
  /\ listener' = IF stop THEN "park" ELSE "recv"
  /\ UNCHANGED <<eapVars, udpQ, mainVars, faults, genVars, proc, cks, flagVars,
                 token, orphans>>

(* Faulty variant: the wake-up is taken for the end of the thread.          *)
ListenUnpark_Return ==
  /\ listener = "park"
  /\ token
  /\ token' = FALSE
  /\ listener' = "done"
  /\ UNCHANGED <<eapVars, udpQ, mainVars, faults, genVars, proc, cks, flagVars,
                 orphans>>

ListenUnpark ==
  /\ listener = "park"
  /\ token
  /\ token' = FALSE
  /\ listener' = "recv"
  /\ UNCHANGED <<eapVars, udpQ, mainVars, faults, genVars, proc, cks, flagVars,
                 orphans>>

Received(state) ==
  /\ listener = "recv"
  /\ udpQ # <<>>
  /\ Head(udpQ).state = state
  /\ udpQ' = Tail(udpQ)
  /\ listener' = "chkquit"
  /\ UNCHANGED <<eapVars, mainVars, genVars, proc, token, orphans>>

ListenSuccess ==
  /\ Received("Success")
  /\ cks' = Head(udpQ).md5
  /\ UNCHANGED <<faults, flagVars>>

(* The write lock stays taken through all ten attempts: the md5 is dropped. *)
ListenDrop ==
  /\ Received("Success")
  /\ faults < MaxFaults
  /\ faults' = faults + 1
  /\ UNCHANGED <<cks, flagVars>>

ListenStop ==
  /\ Received("Stop")
  /\ stop' = TRUE
  /\ UNCHANGED <<faults, cks, quit, asleep>>

ListenSleep ==
  /\ Received("Sleep")
  /\ asleep' = TRUE
  /\ stop' = TRUE
  /\ UNCHANGED <<faults, cks, quit>>

ListenQuit ==
  /\ Received("Quit")
  /\ quit' = TRUE
  /\ UNCHANGED <<faults, cks, stop, asleep>>

(* A listener whose process is gone takes a message, notes it in data that  *)
(* nobody reads any more, and ends on its own quit flag.                    *)
OrphanReceive ==
  /\ orphans > 0
  /\ udpQ # <<>>
  /\ udpQ' = Tail(udpQ)
  /\ orphans' = orphans - 1
  /\ UNCHANGED <<eapVars, mainVars, faults, genVars, proc, cks, flagVars,
                 listenVars>>

-----------------------------------------------------------------------------
Eap == EapSuccess \/ \E s \in Upsets : EapUpset(s)

MainThread == MainTake \/ MainForward

Generator == GenLock \/ GenSend \/ GenSpawn \/ GenJoin

Process == ProcStart \/ ProcLogin \/ ProcWake \/ ProcGiveUp \/ ProcStop \/ ProcQuit

Listener == \/ ListenCheckQuit \/ ListenCheckStop \/ ListenUnpark
            \/ ListenSuccess \/ ListenStop \/ ListenSleep \/ ListenQuit

Faults == GenSpawnFails \/ ProcFault \/ ListenDrop

Next == Eap \/ MainThread \/ Generator \/ Process \/ Listener \/ OrphanReceive \/ Faults

(* The operating system runs every thread that can run.  EAP and the faults *)
(* are the environment: nothing makes them happen.                          *)
Fairness ==
  /\ WF_vars(MainThread)
  /\ WF_vars(Generator)
  /\ WF_vars(Process)
  /\ WF_vars(Listener)
  /\ WF_vars(OrphanReceive)

Spec == Init /\ [][Next]_vars

FairSpec == Spec /\ Fairness

-----------------------------------------------------------------------------
(* Every variable has its type.                                             *)
TypeOK ==
  /\ eapQ \in Seq(Message) /\ udpQ \in Seq(Message)
  /\ forwarding \in Message \cup {Nothing}
  /\ cache \in 0 .. MaxLogins
  /\ logins \in 0 .. MaxLogins
  /\ upsets \in 0 .. MaxUpsets
  /\ faults \in 0 .. MaxFaults
  /\ gen \in {"inject", "send", "spawn", "join"}
  /\ injected \in 0 .. MaxLogins /\ (gen = "send" <=> injected # 0)
  /\ proc \in {"none", "start", "login", "await", "loop", "exited"}
  /\ cks \in 0 .. MaxLogins
  /\ quit \in BOOLEAN /\ stop \in BOOLEAN /\ asleep \in BOOLEAN
  /\ listener \in {"none", "chkquit", "chkstop", "park", "recv", "done"}
  /\ token \in BOOLEAN
  /\ orphans \in 0 .. MaxOrphans

(* The md5 values on their way to the UDP process never run backwards: what *)
(* the process holds is no newer than what is queued for it, the queue is   *)
(* in order, and nothing in it is newer than the cache.  A re-injected      *)
(* SUCCESS therefore never overtakes, nor undoes, a newer login.            *)
KeysInOrder ==
  /\ \A i, j \in DOMAIN udpQ :
        i < j /\ IsSuccess(udpQ[i]) /\ IsSuccess(udpQ[j]) => udpQ[i].md5 <= udpQ[j].md5
  /\ \A i \in DOMAIN udpQ :
        IsSuccess(udpQ[i]) => cks <= udpQ[i].md5 /\ udpQ[i].md5 <= cache
  /\ cks <= cache

(* The inductive strengthening of KeysInOrder: what EAP has sent is newer   *)
(* than the cache and in order, what the main thread holds is the cache,    *)
(* and so is the generator's clone while it holds the mutex.                *)
OrderInv ==
  /\ KeysInOrder
  /\ \A i, j \in DOMAIN eapQ :
        i < j /\ IsSuccess(eapQ[i]) /\ IsSuccess(eapQ[j]) => eapQ[i].md5 < eapQ[j].md5
  /\ \A i \in DOMAIN eapQ :
        IsSuccess(eapQ[i]) => cache < eapQ[i].md5 /\ eapQ[i].md5 <= logins
  /\ cache <= logins
  /\ IsSuccess(forwarding) => forwarding.md5 = cache
  /\ gen = "send" => injected = cache

(* A listener that parked on a stop flag is always woken again: a STOP that *)
(* arrives while the process waits for SUCCESS does not deafen it for good. *)
ListenerNeverDeaf == []<>(listener # "park")

(* With no listener left over from an earlier process, a SUCCESS that EAP   *)
(* has sent reaches the running UDP process unless the process quits, whatever *)
(* STOP and SLEEP do in between and as long as the listener finds the data  *)
(* unlocked.                                                                *)
SuccessIsHeard ==
  \A n \in 1 .. MaxLogins :
    (\E i \in DOMAIN eapQ : eapQ[i] = Success(n)) /\ orphans = 0 /\ gen = "join" /\ ~quit
      ~> cks >= n \/ quit \/ faults # 0

(* main.rs: the cached SUCCESS is injected again before the UDP process is  *)
(* rebuilt, so that it does not wait for ever.                              *)
RebuiltProcessGetsSuccess ==
  (cache # 0 /\ proc = "await") ~> (proc # "await" /\ cks # 0)
=============================================================================
