-------------------------- MODULE LiveUpdatesProofs --------------------------
(* Proofs about LiveUpdates, for any devices and documents and a window of *)
(* any length.                                                             *)
EXTENDS LiveUpdates, TLAPS

(* While an announcement is scheduled it comes when the window since the   *)
(* last event is over.                                                     *)
Scheduled == timer # Off => timer + quiet = Window

(* A socket that has not answered in this round was asked in an earlier    *)
(* one, so a ping round drops nobody who was not asked.                    *)
Asked == clients \subseteq alive \cup pinged

(* What a device with a stream has not heard of is among what waits for an *)
(* event, and whatever waits has a timer: so no late or empty flush, and   *)
(* no write within the window, leaves a change that nothing will announce. *)
UnheardWaits ==
    /\ \A c \in Devices : unheard[c] \subseteq ids
    /\ ids # {} => timer # Off

IInv == TypeOK /\ Scheduled /\ Asked /\ UnheardWaits

(* The clock's and the timer's range.                                      *)
LEMMA Times ==
    ASSUME TypeOK
    PROVE  /\ Window \in Nat /\ Window > 0 /\ quiet \in Nat /\ quiet <= Window
           /\ timer # Off => timer \in Nat /\ timer <= Window
           /\ \A n \in Nat : n # Off
  BY EventsAssumption DEF TypeOK, EventsTypeOK

LEMMA Start == Init => IInv
<1> SUFFICES ASSUME Init PROVE IInv
  OBVIOUS
<1>1. TypeOK
  <2>1. Window \in 0..Window
    BY EventsAssumption
  <2>2. EventsTypeOK
    BY <2>1 DEF Init, EventsInit, EventsTypeOK
  <2>3. KeepaliveTypeOK
    BY DEF Init, KeepaliveInit, KeepaliveTypeOK
  <2>4. QED
    BY <2>2, <2>3 DEF Init, TypeOK
<1>2. Scheduled /\ Asked /\ UnheardWaits
  BY DEF Init, EventsInit, KeepaliveInit, Scheduled, Asked, UnheardWaits
<1>3. QED
  BY <1>1, <1>2 DEF IInv
-----------------------------------------------------------------------------
(* What a step of the events' half keeps of it.                            *)
EventsInv == EventsTypeOK /\ Scheduled /\ (ids # {} => timer # Off)

LEMMA AnnounceKeeps ==
    ASSUME IInv, NEW d \in Docs, Announce(d)
    PROVE  EventsInv' /\ (event' = event => ids' = ids \cup {d})
<1>1. /\ Window \in Nat /\ Window > 0 /\ quiet \in Nat /\ quiet <= Window
      /\ timer # Off => timer \in Nat /\ timer <= Window
      /\ \A n \in Nat : n # Off
  BY Times DEF IInv
<1>2. EventsTypeOK /\ Scheduled /\ (ids # {} => timer # Off)
  BY DEF IInv, TypeOK, UnheardWaits
<1>3. CASE timer = Off /\ quiet = Window
  BY <1>1, <1>2, <1>3 DEF Announce, SendContentChanged, EventsInv, EventsTypeOK, Scheduled
<1>4. CASE ~(timer = Off /\ quiet = Window)
  <2>1. /\ ids' = ids \cup {d} /\ quiet' = quiet /\ event' = event /\ streams' = streams
        /\ timer' = IF timer = Off THEN Window - quiet ELSE timer
    BY <1>4 DEF Announce
  <2>2. timer' \in 0..Window /\ timer' # Off /\ timer' + quiet' = Window
    <3>1. CASE timer = Off
      <4>1. Window - quiet \in 0..Window /\ Window - quiet \in Nat
        BY <1>1
      <4>2. QED
        BY <1>1, <2>1, <3>1, <4>1
    <3>2. CASE timer # Off
      BY <1>1, <1>2, <2>1, <3>2 DEF Scheduled
    <3>3. QED
      BY <3>1, <3>2
  <2>3. QED
    BY <1>2, <2>1, <2>2 DEF EventsInv, EventsTypeOK, Scheduled
<1>5. QED
  BY <1>3, <1>4

LEMMA FireKeeps ==
    ASSUME IInv, Fire
    PROVE  EventsInv' /\ (event' = event => ids' = ids)
<1>1. 0 \in 0..Window /\ EventsTypeOK
  BY EventsAssumption DEF IInv, TypeOK
<1>2. timer' = Off /\ streams' = streams
  BY DEF Fire
<1>3. \/ ids = {} /\ ids' = ids /\ quiet' = quiet /\ event' = event
      \/ ids' = {} /\ quiet' = 0 /\ event' = ~event
  BY DEF Fire, SendContentChanged
<1>4. ids' = {} /\ quiet' \in 0..Window /\ event' \in BOOLEAN
  BY <1>1, <1>3 DEF EventsTypeOK
<1>5. event' = event => ids' = ids
  BY <1>1, <1>3 DEF EventsTypeOK
<1>6. QED
  BY <1>1, <1>2, <1>4, <1>5 DEF EventsInv, EventsTypeOK, Scheduled

LEMMA ElapseKeeps ==
    ASSUME IInv, Elapse
    PROVE  EventsInv'
<1>1. /\ Window \in Nat /\ Window > 0 /\ quiet \in Nat /\ quiet <= Window
      /\ timer # Off => timer \in Nat /\ timer <= Window
      /\ \A n \in Nat : n # Off
  BY Times DEF IInv
<1>2. EventsTypeOK /\ Scheduled /\ (ids # {} => timer # Off)
  BY DEF IInv, TypeOK, UnheardWaits
<1>3. /\ timer' = IF timer \in {Off, 0} THEN timer ELSE timer - 1
      /\ quiet' = IF quiet = Window THEN quiet ELSE quiet + 1
      /\ ids' = ids /\ streams' = streams /\ event' = event
  BY DEF Elapse
<1>4. quiet' \in 0..Window
  BY <1>1, <1>3
<1>5. CASE timer = Off
  BY <1>2, <1>3, <1>4, <1>5 DEF EventsInv, EventsTypeOK, Scheduled
<1>6. CASE timer # Off
  <2>1. timer' \in Nat /\ timer' <= Window /\ timer' + quiet' = Window
    BY <1>1, <1>2, <1>3, <1>6 DEF Scheduled
  <2>2. timer' # Off /\ timer' \in 0..Window
    BY <1>1, <2>1
  <2>3. QED
    BY <1>2, <1>3, <1>4, <2>1, <2>2 DEF EventsInv, EventsTypeOK, Scheduled
<1>7. QED
  BY <1>5, <1>6

LEMMA StreamsKeep ==
    ASSUME IInv, NEW c \in Devices, Subscribe(c) \/ Unsubscribe(c)
    PROVE  EventsInv' /\ event' = event /\ ids' = ids
  BY DEF IInv, TypeOK, UnheardWaits, Subscribe, Unsubscribe, EventsInv, EventsTypeOK, Scheduled

LEMMA EventsStill ==
    ASSUME IInv, UNCHANGED eventVars
    PROVE  EventsInv' /\ event' = event /\ ids' = ids
  BY DEF IInv, TypeOK, UnheardWaits, eventVars, EventsInv, EventsTypeOK, Scheduled

LEMMA EventsRestart == ASSUME IInv, EventsLost PROVE EventsInv' /\ ids' = {}
<1>1. Window \in 0..Window /\ event \in BOOLEAN
  BY EventsAssumption DEF IInv, TypeOK, EventsTypeOK
<1>2. QED
  BY <1>1 DEF EventsLost, EventsInv, EventsTypeOK, Scheduled
-----------------------------------------------------------------------------
(* What a step of the sockets' half keeps of it.                           *)
SocketsInv == KeepaliveTypeOK /\ Asked

LEMMA SocketStepKeeps ==
    ASSUME IInv, NEW s \in Sockets,
           Upgrade(s) \/ CloseFrame(s) \/ Vanish(s) \/ Pong(s) \/ Closed(s)
    PROVE  SocketsInv'
<1>1. KeepaliveTypeOK /\ Asked
  BY DEF IInv, TypeOK
<1>2. CASE Upgrade(s)
  BY <1>1, <1>2 DEF Upgrade, SocketsInv, KeepaliveTypeOK, Asked
<1>3. CASE CloseFrame(s) \/ Closed(s)
  <2>1. Forget(s) /\ room' = [room EXCEPT ![s] = Nowhere]
    BY <1>3 DEF CloseFrame, Closed
  <2>2. QED
    BY <1>1, <2>1 DEF Forget, SocketsInv, KeepaliveTypeOK, Asked
<1>4. CASE Vanish(s)
  BY <1>1, <1>4 DEF Vanish, Talks, SocketsInv, KeepaliveTypeOK, Asked
<1>5. CASE Pong(s)
  BY <1>1, <1>5 DEF Pong, Talks, SocketsInv, KeepaliveTypeOK, Asked
<1>6. QED
  BY <1>2, <1>3, <1>4, <1>5

LEMMA HelloKeeps ==
    ASSUME IInv, NEW s \in Sockets, NEW d \in Rooms, Hello(s, d)
    PROVE  SocketsInv'
  BY DEF IInv, TypeOK, Hello, Talks, SocketsInv, KeepaliveTypeOK, Asked

LEMMA PingRoundKeeps ==
    ASSUME IInv, PingRound
    PROVE  SocketsInv' /\ \A s \in closing' \ closing : s \in pinged
  BY DEF IInv, TypeOK, PingRound, SocketsInv, KeepaliveTypeOK, Asked

LEMMA SocketsStill == ASSUME IInv, UNCHANGED keepaliveVars PROVE SocketsInv'
  BY DEF IInv, TypeOK, keepaliveVars, SocketsInv, KeepaliveTypeOK, Asked

LEMMA SocketsRestart == SocketsLost => SocketsInv'
  BY DEF SocketsLost, SocketsInv, KeepaliveTypeOK, Asked
-----------------------------------------------------------------------------
(* An event takes with it all that waited, so what was stored in a step is *)
(* waited for or was announced in it.                                      *)
LEMMA HearsKeeps ==
    ASSUME IInv, NEW new \in SUBSET Docs, NEW told, Hears(new, told),
           ids \cup new \subseteq ids' \/ event' # event
    PROVE  /\ unheard' \in [Devices -> SUBSET Docs]
           /\ \A c \in Devices : unheard'[c] \subseteq ids'
<1>1. unheard \in [Devices -> SUBSET Docs] /\ \A c \in Devices : unheard[c] \subseteq ids
  BY DEF IInv, TypeOK, UnheardWaits
<1> DEFINE received == IF event' = event THEN {} ELSE ids \cup new
           heard(c) == IF c \notin streams' THEN {}
                       ELSE (IF c \in told THEN unheard[c] \ new ELSE unheard[c] \cup new) \ received
<1>2. unheard' = [c \in Devices |-> heard(c)]
  BY Zenon DEF Hears
<1>3. \A c \in Devices : heard(c) \in SUBSET Docs /\ heard(c) \subseteq ids'
  BY <1>1
<1> HIDE DEF heard
<1>4. QED
  BY <1>2, <1>3

(* The two halves of a step.                                               *)
LEMMA Halves ==
    ASSUME EventsInv', SocketsInv', unheard' \in [Devices -> SUBSET Docs],
           \A c \in Devices : unheard'[c] \subseteq ids'
    PROVE  IInv'
  BY DEF EventsInv, SocketsInv, IInv, TypeOK, UnheardWaits

LEMMA NextKeeps == ASSUME IInv, Next PROVE IInv'
<1>1. Sockets = Devices /\ Rooms = Docs
  BY LiveUpdatesAssumption
<1>2. ASSUME NEW d \in Docs, NEW told, Announce(d), UNCHANGED keepaliveVars, Hears({d}, told)
      PROVE  IInv'
  <2>1. EventsInv' /\ SocketsInv' /\ (event' = event => ids' = ids \cup {d})
    BY <1>2, AnnounceKeeps, SocketsStill
  <2>2. {d} \in SUBSET Docs /\ (ids \cup {d} \subseteq ids' \/ event' # event)
    BY <2>1
  <2>3. /\ unheard' \in [Devices -> SUBSET Docs]
        /\ \A c \in Devices : unheard'[c] \subseteq ids'
    BY <1>2, <2>2, HearsKeeps
  <2>4. QED
    BY <2>1, <2>3, Halves
<1>3. ASSUME EventsInv', SocketsInv', NothingStored, ids \subseteq ids' \/ event' # event
      PROVE  IInv'
  <2>1. {} \in SUBSET Docs /\ (ids \cup {} \subseteq ids' \/ event' # event) /\ Hears({}, {})
    BY <1>3 DEF NothingStored
  <2>2. /\ unheard' \in [Devices -> SUBSET Docs]
        /\ \A c \in Devices : unheard'[c] \subseteq ids'
    BY <2>1, HearsKeeps
  <2>3. QED
    BY <1>3, <2>2, Halves
<1>4. ASSUME NEW d \in Docs, Post(d) PROVE IInv'
  BY <1>2, <1>4 DEF Post
<1>5. ASSUME NEW c \in Devices, SocketUpdate(c) PROVE IInv'
  <2>1. room[c] \in Docs
    BY <1>1, <1>5 DEF SocketUpdate, IInv, TypeOK, KeepaliveTypeOK
  <2>2. QED
    BY <1>2, <1>5, <2>1 DEF SocketUpdate
<1>6. ASSUME EventsInv', SocketsInv', ids' = ids,
             \E heard \in [Devices -> SUBSET Docs] :
                unheard' = [c \in Devices |-> unheard[c] \ heard[c]]
      PROVE  IInv'
  <2>1. unheard \in [Devices -> SUBSET Docs] /\ \A c \in Devices : unheard[c] \subseteq ids
    BY DEF IInv, TypeOK, UnheardWaits
  <2>2. QED
    BY <1>6, <2>1, Halves
<1>7. ASSUME NEW d \in Docs, Push(d) PROVE IInv'
  <2>1. EventsInv' /\ SocketsInv' /\ ids' = ids
    BY <1>7, EventsStill, SocketsStill DEF Push
  <2> DEFINE sent == [c \in Devices |-> IF c \in InRoom(d) THEN {d} ELSE {}]
  <2>2. sent \in [Devices -> SUBSET Docs]
    OBVIOUS
  <2>3. unheard' = [c \in Devices |-> unheard[c] \ sent[c]]
    BY <1>7 DEF Push
  <2>4. QED
    BY <1>6, <2>1, <2>2, <2>3
<1>8. ASSUME NEW c \in Devices, NEW d \in Docs, Join(c, d) PROVE IInv'
  <2>1. EventsInv' /\ SocketsInv' /\ ids' = ids
    BY <1>1, <1>8, EventsStill, HelloKeeps DEF Join
  <2> DEFINE sent == [e \in Devices |-> IF e = c THEN {d} ELSE {}]
  <2>2. sent \in [Devices -> SUBSET Docs]
    OBVIOUS
  <2>3. unheard' = [e \in Devices |-> unheard[e] \ sent[e]]
    BY <1>8 DEF Join, IInv, TypeOK
  <2>4. QED
    BY <1>6, <2>1, <2>2, <2>3
<1>9. ASSUME NEW c \in Devices, (Subscribe(c) \/ Unsubscribe(c)), UNCHANGED keepaliveVars, NothingStored
      PROVE  IInv'
  BY <1>3, <1>9, StreamsKeep, SocketsStill
<1>10. ASSUME NEW c \in Devices,
              Upgrade(c) \/ CloseFrame(c) \/ Vanish(c) \/ Pong(c) \/ Closed(c),
              UNCHANGED eventVars, NothingStored
       PROVE  IInv'
  BY <1>1, <1>3, <1>10, EventsStill, SocketStepKeeps
<1>11. CASE TimerFires
  BY <1>3, <1>11, FireKeeps, SocketsStill DEF TimerFires
<1>12. CASE TimePasses
  BY <1>3, <1>12, ElapseKeeps, SocketsStill DEF TimePasses, Elapse
<1>13. CASE PingTimer
  BY <1>3, <1>13, EventsStill, PingRoundKeeps DEF PingTimer
<1>14. CASE Restart
  <2>1. EventsInv' /\ SocketsInv' /\ streams' = {} /\ ids' = {}
    BY <1>14, EventsRestart, SocketsRestart DEF Restart, EventsLost
  <2>2. unheard' = [c \in Devices |-> {}]
    BY <1>14, <2>1 DEF Restart, NothingStored, Hears
  <2>3. QED
    BY <2>1, <2>2, Halves
<1>15. QED
  BY <1>4, <1>5, <1>7, <1>8, <1>9, <1>10, <1>11, <1>12, <1>13, <1>14 DEF Next, CloseHandler

(* Timers, sockets and what is unheard, together.                          *)
THEOREM Inductive == Spec => []IInv
<1>1. ASSUME IInv, UNCHANGED vars PROVE IInv'
  BY <1>1 DEF vars, eventVars, keepaliveVars, IInv, TypeOK, EventsTypeOK, KeepaliveTypeOK,
              Scheduled, Asked, UnheardWaits
<1>2. IInv /\ [Next]_vars => IInv'
  BY <1>1, NextKeeps
<1>3. QED
  BY Start, <1>2, PTL DEF Spec

(* All that is kept of a socket is of one that is there, so no room keeps  *)
(* a member whose socket is closed.                                        *)
THEOREM TypeCorrect == Spec => []TypeOK
<1>1. IInv => TypeOK
  BY DEF IInv
<1>2. QED
  BY <1>1, Inductive, PTL

(* No change is left that nothing will announce (broadcastContentChanged). *)
THEOREM NothingForgotten == Spec => []UnheardWaits
<1>1. IInv => UnheardWaits
  BY DEF IInv
<1>2. QED
  BY <1>1, Inductive, PTL

(* An event is sent a window or more after the last, at once or late.      *)
THEOREM EventsApart == Spec => ThrottleHolds
<1>1. ASSUME IInv, Next, event' # event PROVE quiet = Window
  <2>1. timer = 0 => quiet = Window
    <3>1. 0 # Off /\ quiet \in Nat /\ (timer # Off => timer + quiet = Window)
      BY <1>1, Times DEF IInv, Scheduled
    <3>2. QED
      BY <3>1
  <2>2. CASE \E d \in Docs : Announce(d)
    BY <1>1, <2>2 DEF Announce
  <2>3. CASE Fire
    BY <2>1, <2>3 DEF Fire
  <2>4. CASE ~Fire /\ ~ \E d \in Docs : Announce(d)
    <3>1. ASSUME NEW c \in Devices, SocketUpdate(c) PROVE \E d \in Docs : Announce(d)
      <4>1. Announce(room[c]) /\ room[c] # Nowhere /\ c \in Sockets
        BY <3>1, LiveUpdatesAssumption DEF SocketUpdate
      <4>2. room[c] \in Docs
        BY <1>1, <4>1, LiveUpdatesAssumption DEF IInv, TypeOK, KeepaliveTypeOK
      <4>3. QED
        BY <4>1, <4>2
    <3>2. QED
      BY <1>1, <2>4, <3>1 DEF Next, Post, Push, Join, CloseHandler, Subscribe, Unsubscribe,
                              eventVars, TimerFires, TimePasses, Elapse, PingTimer, Restart, EventsLost
  <2>5. QED
    BY <2>2, <2>3, <2>4
<1>2. ASSUME IInv, [Next]_vars PROVE [event' # event => quiet = Window]_eventVars
  BY <1>1, <1>2 DEF vars, eventVars
<1>3. IInv /\ [Next]_vars => [event' # event => quiet = Window]_eventVars
  BY <1>2
<1>4. QED
  BY <1>3, Inductive, PTL DEF Spec, ThrottleHolds

(* A ping round drops only who left the ping before it without an answer.  *)
THEOREM OnlyTheSilent == Spec => OnlySilentDropped
<1>1. ASSUME IInv, Next, NEW s \in closing' \ closing PROVE s \in pinged
  <2>1. CASE PingRound
    BY <1>1, <2>1, PingRoundKeeps
  <2>2. CASE ~PingRound
    BY <1>1, <2>2 DEF Next, Post, SocketUpdate, Push, Join, Hello, CloseHandler, Closed, CloseFrame,
                      Forget, Upgrade, Vanish, Pong, keepaliveVars, TimerFires, TimePasses,
                      PingTimer, Restart, SocketsLost
  <2>3. QED
    BY <2>1, <2>2
<1>2. ASSUME IInv, [Next]_vars
      PROVE  [\A s \in closing' \ closing : s \in pinged]_keepaliveVars
  BY <1>1, <1>2 DEF vars, keepaliveVars
<1>3. IInv /\ [Next]_vars => [\A s \in closing' \ closing : s \in pinged]_keepaliveVars
  BY <1>2
<1>4. QED
  BY <1>3, Inductive, PTL DEF Spec, OnlySilentDropped
==============================================================================
