--------------------------- MODULE CoreLinkProofs ---------------------------
(***************************************************************************)
(* Theorems about CoreLink for every value of its bounds.                  *)
(***************************************************************************)
EXTENDS CoreLink, TLAPS

(* The head and the tail of a non-empty queue of messages.                  *)
LEMMA QueueParts ==
  ASSUME NEW S, NEW q \in Seq(S), q # <<>>
  PROVE  /\ Head(q) \in S
         /\ Tail(q) \in Seq(S)
         /\ Head(q) = q[1]
         /\ Len(q) \in Nat \ {0}
         /\ DOMAIN q = 1 .. Len(q)
         /\ DOMAIN Tail(q) = 1 .. Len(q) - 1
         /\ \A i \in 1 .. Len(q) - 1 : Tail(q)[i] = q[i + 1]
OBVIOUS

(* A queue of messages with one more message at its end.                    *)
LEMMA QueueAppend ==
  ASSUME NEW S, NEW q \in Seq(S), NEW m \in S
  PROVE  /\ Append(q, m) \in Seq(S)
         /\ DOMAIN q = 1 .. Len(q)
         /\ Len(q) \in Nat
         /\ DOMAIN Append(q, m) = 1 .. Len(q) + 1
         /\ \A i \in 1 .. Len(q) : Append(q, m)[i] = q[i]
         /\ Append(q, m)[Len(q) + 1] = m
OBVIOUS

-----------------------------------------------------------------------------
(* Type correctness.                                                        *)

LEMMA TypeInit == Init => TypeOK
<1> SUFFICES ASSUME Init PROVE TypeOK
  OBVIOUS
<1>1. /\ 0 \in 0 .. MaxLogins /\ 0 \in 0 .. MaxUpsets
      /\ 0 \in 0 .. MaxFaults /\ 0 \in 0 .. MaxOrphans
  BY BoundsAssumption
<1>2. <<>> \in Seq(Message)
  OBVIOUS
<1>. QED  BY <1>1, <1>2 DEF Init, TypeOK

LEMMA TypeStep == TypeOK /\ [Next]_vars => TypeOK'
<1> SUFFICES ASSUME TypeOK, [Next]_vars
             PROVE  TypeOK'
  OBVIOUS
<1> USE BoundsAssumption DEF TypeOK, eapVars, mainVars, genVars, flagVars, listenVars
<1>1. CASE EapSuccess
  <2>1. Success(logins + 1) \in Message
    BY <1>1 DEF EapSuccess, Success, Message
  <2>2. eapQ' \in Seq(Message)
    BY <1>1, <2>1, QueueAppend DEF EapSuccess
  <2>. QED  BY <1>1, <2>2 DEF EapSuccess
<1>2. ASSUME NEW s \in Upsets, EapUpset(s)
      PROVE  TypeOK'
  <2>1. Upset(s) \in Message
    BY DEF Upset, Message
  <2>2. eapQ' \in Seq(Message)
    BY <1>2, <2>1, QueueAppend DEF EapUpset
  <2>. QED  BY <1>2, <2>2 DEF EapUpset
<1>3. CASE MainTake
  <2>1. /\ Head(eapQ) \in Message
        /\ Tail(eapQ) \in Seq(Message)
    BY <1>3, QueueParts DEF MainTake
  <2>2. cache' \in 0 .. MaxLogins
    BY <1>3, <2>1 DEF MainTake, IsSuccess, Message
  <2>. QED  BY <1>3, <2>1, <2>2 DEF MainTake
<1>4. CASE MainForward
  <2>1. udpQ' \in Seq(Message)
    BY <1>4, QueueAppend DEF MainForward
  <2>. QED  BY <1>4, <2>1 DEF MainForward
<1>5. CASE GenLock
  BY <1>5 DEF GenLock
<1>6. CASE GenSend
  <2>1. Success(injected) \in Message
    BY <1>6 DEF GenSend, Success, Message, TypeOK
  <2>2. udpQ' \in Seq(Message)
    BY <1>6, <2>1, QueueAppend DEF GenSend
  <2>. QED  BY <1>6, <2>2 DEF GenSend
<1>7. CASE GenSpawn
  BY <1>7 DEF GenSpawn
<1>8. CASE GenSpawnFails
  BY <1>8 DEF GenSpawnFails
<1>9. CASE GenJoin
  BY <1>9 DEF GenJoin, Bounded
<1>10. CASE ProcStart
  BY <1>10 DEF ProcStart
<1>11. CASE ProcLogin
  BY <1>11 DEF ProcLogin
<1>12. CASE ProcWake
  BY <1>12 DEF ProcWake
<1>13. CASE ProcGiveUp
  BY <1>13 DEF ProcGiveUp
<1>14. CASE ProcStop
  BY <1>14 DEF ProcStop
<1>15. CASE ProcQuit
  BY <1>15 DEF ProcQuit
<1>16. CASE ProcFault
  BY <1>16 DEF ProcFault
<1>17. CASE ListenCheckQuit
  BY <1>17 DEF ListenCheckQuit
<1>18. CASE ListenCheckStop
  BY <1>18 DEF ListenCheckStop
<1>19. CASE ListenUnpark
  BY <1>19 DEF ListenUnpark
<1>20. CASE ListenSuccess
  <2>1. /\ Head(udpQ) \in Message
        /\ Tail(udpQ) \in Seq(Message)
    BY <1>20, QueueParts DEF ListenSuccess, Received
  <2>2. Head(udpQ).md5 \in 0 .. MaxLogins
    BY <2>1 DEF Message
  <2>. QED  BY <1>20, <2>1, <2>2 DEF ListenSuccess, Received
<1>21. CASE ListenDrop
  <2>1. Tail(udpQ) \in Seq(Message)
    BY <1>21, QueueParts DEF ListenDrop, Received
  <2>. QED  BY <1>21, <2>1 DEF ListenDrop, Received
<1>22. CASE ListenStop
  <2>1. Tail(udpQ) \in Seq(Message)
    BY <1>22, QueueParts DEF ListenStop, Received
  <2>. QED  BY <1>22, <2>1 DEF ListenStop, Received
<1>23. CASE ListenSleep
  <2>1. Tail(udpQ) \in Seq(Message)
    BY <1>23, QueueParts DEF ListenSleep, Received
  <2>. QED  BY <1>23, <2>1 DEF ListenSleep, Received
<1>24. CASE ListenQuit
  <2>1. Tail(udpQ) \in Seq(Message)
    BY <1>24, QueueParts DEF ListenQuit, Received
  <2>. QED  BY <1>24, <2>1 DEF ListenQuit, Received
<1>25. CASE OrphanReceive
  <2>1. Tail(udpQ) \in Seq(Message)
    BY <1>25, QueueParts DEF OrphanReceive
  <2>. QED  BY <1>25, <2>1 DEF OrphanReceive
<1>26. CASE UNCHANGED vars
  BY <1>26 DEF vars
<1>. QED
  BY <1>1, <1>2, <1>3, <1>4, <1>5, <1>6, <1>7, <1>8, <1>9, <1>10, <1>11, <1>12, <1>13, <1>14, <1>15, <1>16, <1>17, <1>18, <1>19, <1>20, <1>21, <1>22, <1>23, <1>24, <1>25, <1>26 DEF Next, Eap, MainThread, Generator,
     Process, Listener, Faults

(* Every reachable state of the link is well typed.                         *)
THEOREM TypeCorrect == Spec => []TypeOK
<1>1. Init => TypeOK
  BY TypeInit
<1>2. TypeOK /\ [Next]_vars => TypeOK'
  BY TypeStep
<1>. QED  BY <1>1, <1>2, PTL DEF Spec

-----------------------------------------------------------------------------
(* The order of the md5 values.                                             *)

LEMMA OrderInit == Init => OrderInv
BY BoundsAssumption DEF Init, OrderInv, KeysInOrder, IsSuccess, Nothing

(* Steps that leave the channels, the caches and the keys alone.            *)
LEMMA OrderFrame ==
  ASSUME OrderInv, UNCHANGED <<eapQ, udpQ, forwarding, cache, logins, cks, injected>>,
         gen' = "send" => gen = "send"
  PROVE  OrderInv'
BY DEF OrderInv, KeysInOrder, IsSuccess

(* Taking the head of the channel to UDP, and keeping or adopting its md5.  *)
LEMMA OrderReceive ==
  ASSUME TypeOK, OrderInv, udpQ # <<>>, udpQ' = Tail(udpQ),
         cks' = cks \/ (IsSuccess(Head(udpQ)) /\ cks' = Head(udpQ).md5),
         UNCHANGED <<eapQ, forwarding, cache, logins, injected, gen>>
  PROVE  OrderInv'
<1> DEFINE n == Len(udpQ)
<1>1. /\ Head(udpQ) = udpQ[1]
      /\ n \in Nat \ {0}
      /\ DOMAIN udpQ = 1 .. n
      /\ DOMAIN Tail(udpQ) = 1 .. n - 1
      /\ \A i \in 1 .. n - 1 : Tail(udpQ)[i] = udpQ[i + 1]
  BY QueueParts DEF TypeOK
<1> HIDE DEF n
<1>2. ASSUME NEW i \in DOMAIN udpQ', NEW j \in DOMAIN udpQ', i < j,
             IsSuccess(udpQ'[i]), IsSuccess(udpQ'[j])
      PROVE  udpQ'[i].md5 <= udpQ'[j].md5
  <2>1. /\ i + 1 \in DOMAIN udpQ /\ j + 1 \in DOMAIN udpQ /\ i + 1 < j + 1
        /\ udpQ'[i] = udpQ[i + 1] /\ udpQ'[j] = udpQ[j + 1]
    BY <1>1, <1>2
  <2>. QED  BY <1>2, <2>1 DEF OrderInv, KeysInOrder
<1>3. ASSUME NEW i \in DOMAIN udpQ', IsSuccess(udpQ'[i])
      PROVE  cks' <= udpQ'[i].md5 /\ udpQ'[i].md5 <= cache
  <2>1. /\ 1 \in DOMAIN udpQ /\ i + 1 \in DOMAIN udpQ /\ 1 < i + 1
        /\ udpQ'[i] = udpQ[i + 1] /\ Head(udpQ) = udpQ[1]
    BY <1>1, <1>3
  <2>. QED  BY <1>3, <2>1 DEF OrderInv, KeysInOrder
<1>4. cks' <= cache
  <2>1. 1 \in DOMAIN udpQ
    BY <1>1
  <2>. QED  BY <1>1, <2>1 DEF OrderInv, KeysInOrder
<1>5. KeysInOrder'
  BY <1>2, <1>3, <1>4 DEF KeysInOrder, IsSuccess
<1>. QED  BY <1>5 DEF OrderInv, IsSuccess

(* Appending a message whose md5, if it is a SUCCESS, is the cached one.    *)
LEMMA OrderSend ==
  ASSUME TypeOK, OrderInv,
         NEW m \in Message, IsSuccess(m) => m.md5 = cache, udpQ' = Append(udpQ, m),
         UNCHANGED <<eapQ, cache, logins, cks>>,
         IsSuccess(forwarding') => forwarding' = forwarding,
         gen' = "send" => gen = "send" /\ injected' = injected
  PROVE  OrderInv'
<1> DEFINE n == Len(udpQ)
<1>1. /\ DOMAIN udpQ = 1 .. n
      /\ n \in Nat
      /\ DOMAIN Append(udpQ, m) = 1 .. n + 1
      /\ \A i \in 1 .. n : Append(udpQ, m)[i] = udpQ[i]
      /\ Append(udpQ, m)[n + 1] = m
  BY QueueAppend DEF TypeOK
<1> HIDE DEF n
<1>t. cache \in Int /\ cks \in Int /\ cks <= cache
  BY DEF TypeOK, OrderInv, KeysInOrder
<1>2. ASSUME NEW i \in DOMAIN udpQ', NEW j \in DOMAIN udpQ', i < j,
             IsSuccess(udpQ'[i]), IsSuccess(udpQ'[j])
      PROVE  udpQ'[i].md5 <= udpQ'[j].md5
  <2>1. i \in DOMAIN udpQ /\ udpQ'[i] = udpQ[i]
    BY <1>1, <1>2
  <2>2. CASE j \in DOMAIN udpQ
    BY <1>1, <1>2, <2>1, <2>2 DEF OrderInv, KeysInOrder
  <2>3. CASE j = n + 1
    <3>1. udpQ'[j].md5 = cache
      BY <1>1, <1>2, <2>3
    <3>. QED  BY <1>2, <2>1, <3>1 DEF OrderInv, KeysInOrder
  <2>. QED  BY <1>1, <1>2, <2>2, <2>3
<1>3. ASSUME NEW i \in DOMAIN udpQ', IsSuccess(udpQ'[i])
      PROVE  cks <= udpQ'[i].md5 /\ udpQ'[i].md5 <= cache
  <2>1. CASE i \in DOMAIN udpQ
    BY <1>1, <1>3, <2>1 DEF OrderInv, KeysInOrder
  <2>2. CASE i = n + 1
    BY <1>t, <1>1, <1>3, <2>2
  <2>. QED  BY <1>1, <1>3, <2>1, <2>2
<1>4. KeysInOrder'
  BY <1>t, <1>2, <1>3 DEF KeysInOrder, IsSuccess
<1>. QED  BY <1>4 DEF OrderInv, IsSuccess

(* A new login enters the channel behind all others.                        *)
LEMMA OrderReport ==
  ASSUME TypeOK, OrderInv, NEW m \in Message, eapQ' = Append(eapQ, m),
         IsSuccess(m) => m.md5 = logins + 1 /\ logins' = logins + 1,
         ~IsSuccess(m) => logins' = logins,
         UNCHANGED <<udpQ, forwarding, cache, cks, injected, gen>>
  PROVE  OrderInv'
<1> DEFINE n == Len(eapQ)
<1>1. /\ DOMAIN eapQ = 1 .. n
      /\ n \in Nat
      /\ DOMAIN Append(eapQ, m) = 1 .. n + 1
      /\ \A i \in 1 .. n : Append(eapQ, m)[i] = eapQ[i]
      /\ Append(eapQ, m)[n + 1] = m
  BY QueueAppend DEF TypeOK
<1> HIDE DEF n
<1>t. /\ cache \in Int /\ logins \in Int /\ cache <= logins /\ logins <= logins'
      /\ logins' \in Int
  BY DEF TypeOK, OrderInv
<1>q. \A i \in DOMAIN eapQ : eapQ[i] \in Message
  BY DEF TypeOK
<1>m. \A x \in Message : IsSuccess(x) => x.md5 \in Int
  BY BoundsAssumption DEF Message, IsSuccess, Upsets
<1>2. ASSUME NEW i \in DOMAIN eapQ', NEW j \in DOMAIN eapQ', i < j,
             IsSuccess(eapQ'[i]), IsSuccess(eapQ'[j])
      PROVE  eapQ'[i].md5 < eapQ'[j].md5
  <2>1. i \in DOMAIN eapQ /\ eapQ'[i] = eapQ[i] /\ eapQ[i].md5 \in Int
    BY <1>1, <1>2, <1>q, <1>m
  <2>2. CASE j \in DOMAIN eapQ
    BY <1>1, <1>2, <2>1, <2>2 DEF OrderInv
  <2>3. CASE j = n + 1
    <3>1. eapQ'[j].md5 = logins + 1
      BY <1>1, <1>2, <2>3
    <3>2. eapQ[i].md5 <= logins
      BY <1>2, <2>1 DEF OrderInv
    <3>. QED  BY <1>t, <2>1, <3>1, <3>2
  <2>. QED  BY <1>1, <1>2, <2>2, <2>3
<1>3. ASSUME NEW i \in DOMAIN eapQ', IsSuccess(eapQ'[i])
      PROVE  cache < eapQ'[i].md5 /\ eapQ'[i].md5 <= logins'
  <2>1. CASE i \in DOMAIN eapQ
    <3>1. eapQ'[i] = eapQ[i] /\ eapQ[i].md5 \in Int
      BY <1>1, <1>3, <2>1, <1>q, <1>m
    <3>. QED  BY <1>t, <1>3, <2>1, <3>1 DEF OrderInv
  <2>2. CASE i = n + 1
    BY <1>t, <1>1, <1>3, <2>2
  <2>. QED  BY <1>1, <1>3, <2>1, <2>2
<1>4. KeysInOrder'
  BY DEF OrderInv, KeysInOrder, IsSuccess
<1>. QED  BY <1>t, <1>2, <1>3, <1>4 DEF OrderInv, IsSuccess

(* The main thread takes the head of the channel from EAP.                  *)
LEMMA OrderTake == TypeOK /\ OrderInv /\ MainTake => OrderInv'
<1> SUFFICES ASSUME TypeOK, OrderInv, MainTake
             PROVE  OrderInv'
  OBVIOUS
<1> DEFINE n == Len(eapQ)
<1>1. /\ Head(eapQ) = eapQ[1]
      /\ n \in Nat \ {0}
      /\ DOMAIN eapQ = 1 .. n
      /\ DOMAIN Tail(eapQ) = 1 .. n - 1
      /\ \A i \in 1 .. n - 1 : Tail(eapQ)[i] = eapQ[i + 1]
  BY QueueParts DEF TypeOK, MainTake
<1> HIDE DEF n
<1>s. eapQ' = Tail(eapQ) /\ 1 \in DOMAIN eapQ
  BY <1>1 DEF MainTake
<1>2. ASSUME NEW i \in DOMAIN eapQ', NEW j \in DOMAIN eapQ', i < j,
             IsSuccess(eapQ'[i]), IsSuccess(eapQ'[j])
      PROVE  eapQ'[i].md5 < eapQ'[j].md5
  <2>1. /\ i + 1 \in DOMAIN eapQ /\ j + 1 \in DOMAIN eapQ /\ i + 1 < j + 1
        /\ eapQ'[i] = eapQ[i + 1] /\ eapQ'[j] = eapQ[j + 1]
    BY <1>1, <1>s, <1>2
  <2>. QED  BY <1>2, <2>1 DEF OrderInv
<1>3. ASSUME NEW i \in DOMAIN eapQ', IsSuccess(eapQ'[i])
      PROVE  cache' < eapQ'[i].md5 /\ eapQ'[i].md5 <= logins
  <2>1. /\ i + 1 \in DOMAIN eapQ /\ 1 < i + 1 /\ eapQ'[i] = eapQ[i + 1]
    BY <1>1, <1>s, <1>3
  <2>2. cache' = cache \/ (IsSuccess(eapQ[1]) /\ cache' = eapQ[1].md5)
    BY <1>1 DEF MainTake
  <2>. QED  BY <1>3, <1>s, <2>1, <2>2 DEF OrderInv
<1>4. /\ cache <= cache' /\ cache' <= logins /\ cache \in Int /\ cache' \in Int
      /\ IsSuccess(forwarding') => forwarding'.md5 = cache'
      /\ gen = "send" => cache' = cache
  <2>1. CASE IsSuccess(eapQ[1])
    <3>1. eapQ[1] \in Message
      BY <1>s DEF TypeOK
    <3>2. eapQ[1].md5 \in Int
      BY <2>1, <3>1, BoundsAssumption DEF Message, IsSuccess, Upsets
    <3>. QED  BY <1>1, <1>s, <2>1, <3>2 DEF OrderInv, MainTake, CacheFree, TypeOK
  <2>2. CASE ~IsSuccess(eapQ[1])
    BY <1>1, <2>2 DEF OrderInv, MainTake, TypeOK
  <2>. QED  BY <2>1, <2>2
<1>5. KeysInOrder'
  <2>1. \A i \in DOMAIN udpQ : IsSuccess(udpQ[i]) => udpQ[i].md5 \in Int
    BY BoundsAssumption DEF TypeOK, Message, IsSuccess, Upsets
  <2>2. UNCHANGED <<udpQ, cks>> /\ cks \in Int
    BY DEF MainTake, TypeOK
  <2>. QED  BY <1>4, <2>1, <2>2 DEF OrderInv, KeysInOrder, IsSuccess
<1>. QED
  BY <1>2, <1>3, <1>4, <1>5 DEF OrderInv, IsSuccess, MainTake, genVars, CacheFree

LEMMA OrderStep == TypeOK /\ OrderInv /\ [Next]_vars => OrderInv'
<1> SUFFICES ASSUME TypeOK, OrderInv, [Next]_vars
             PROVE  OrderInv'
  OBVIOUS
<1> USE DEF eapVars, mainVars, genVars, flagVars, listenVars
<1>1. CASE EapSuccess
  <2>1. Success(logins + 1) \in Message /\ IsSuccess(Success(logins + 1))
    BY <1>1, BoundsAssumption DEF EapSuccess, Success, Message, IsSuccess, TypeOK
  <2>. QED  BY <1>1, <2>1, OrderReport DEF EapSuccess, Success
<1>2. ASSUME NEW s \in Upsets, EapUpset(s)
      PROVE  OrderInv'
  <2>1. Upset(s) \in Message /\ ~IsSuccess(Upset(s))
    BY DEF Upset, Upsets, Message, IsSuccess
  <2>. QED  BY <1>2, <2>1, OrderReport DEF EapUpset
<1>3. CASE MainTake
  BY <1>3, OrderTake
<1>4. CASE MainForward
  <2>1. forwarding \in Message /\ ~IsSuccess(Nothing)
    BY <1>4 DEF MainForward, TypeOK, IsSuccess, Nothing
  <2>. QED  BY <1>4, <2>1, OrderSend DEF MainForward, OrderInv
<1>5. CASE GenLock
  BY <1>5 DEF GenLock, OrderInv, KeysInOrder, IsSuccess
<1>6. CASE GenSend
  <2>1. Success(injected) \in Message /\ Success(injected).md5 = cache
    BY <1>6, BoundsAssumption DEF GenSend, Success, Message, TypeOK, OrderInv
  <2>. QED  BY <1>6, <2>1, OrderSend DEF GenSend
<1>7. CASE GenSpawn
  <2>1. /\ UNCHANGED <<eapQ, udpQ, forwarding, cache, logins, injected>>
        /\ cks' = 0 /\ gen' = "join"
    BY <1>7 DEF GenSpawn
  <2>2. \A i \in DOMAIN udpQ : IsSuccess(udpQ[i]) => udpQ[i].md5 >= 0
    BY BoundsAssumption DEF TypeOK, Message, IsSuccess, Upsets
  <2>3. cache >= 0
    BY DEF TypeOK
  <2>. QED  BY <2>1, <2>2, <2>3 DEF OrderInv, KeysInOrder, IsSuccess
<1>8. CASE GenSpawnFails \/ GenJoin
  BY <1>8, OrderFrame DEF GenSpawnFails, GenJoin
<1>9. CASE ProcStart \/ ProcLogin \/ ProcWake \/ ProcGiveUp \/ ProcStop \/ ProcQuit \/ ProcFault
  BY <1>9, OrderFrame DEF ProcStart, ProcLogin, ProcWake, ProcGiveUp, ProcStop, ProcQuit, ProcFault
<1>10. CASE ListenCheckQuit \/ ListenCheckStop \/ ListenUnpark
  BY <1>10, OrderFrame DEF ListenCheckQuit, ListenCheckStop, ListenUnpark
<1>11. CASE ListenSuccess
  BY <1>11, OrderReceive DEF ListenSuccess, Received, IsSuccess
<1>12. CASE ListenDrop \/ ListenStop \/ ListenSleep \/ ListenQuit
  BY <1>12, OrderReceive DEF ListenDrop, ListenStop, ListenSleep, ListenQuit, Received
<1>13. CASE OrphanReceive
  BY <1>13, OrderReceive DEF OrphanReceive
<1>14. CASE UNCHANGED vars
  BY <1>14, OrderFrame DEF vars
<1>. QED
  BY <1>1, <1>2, <1>3, <1>4, <1>5, <1>6, <1>7, <1>8, <1>9, <1>10, <1>11, <1>12, <1>13,
     <1>14 DEF Next, Eap, MainThread, Generator, Process, Listener, Faults

(* A re-injected SUCCESS neither overtakes nor undoes a newer login, for    *)
(* any number of logins, restarts and left-over listeners.                  *)
THEOREM KeysStayInOrder == Spec => []KeysInOrder
<1>1. Init => OrderInv
  BY OrderInit
<1>2. TypeOK /\ OrderInv /\ [Next]_vars => OrderInv'
  BY OrderStep
<1>3. OrderInv => KeysInOrder
  BY DEF OrderInv
<1>. QED  BY <1>1, <1>2, <1>3, TypeCorrect, PTL DEF Spec
=============================================================================
