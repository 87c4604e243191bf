----------------------------- MODULE LiveUpdates -----------------------------
(***************************************************************************)
(* What tells a user's devices that content changed while they are online:  *)
(* the room of the document for those that have it open (Keepalive), an     *)
(* event over a stream for all (Events), and the writes that feed both: the *)
(* REST routes (routes/documents.ts) and the relay's frames (relay.ts).     *)
(* Each device has a stream and a socket, which come and go by themselves;  *)
(* one that connects a stream first asks for all that changed.              *)
(***************************************************************************)
EXTENDS Events, Keepalive

ASSUME LiveUpdatesAssumption ==
    /\ Sockets = Devices
    /\ Rooms = Docs

VARIABLE
    unheard   \* history: for each device with a stream, the documents whose content
              \* was stored since and that it heard of neither way

vars == <<eventVars, keepaliveVars, unheard>>

Init ==
    /\ EventsInit /\ KeepaliveInit
    /\ unheard = [c \in Devices |-> {}]

(* After this step: what each has not heard of, if `docs` were stored and   *)
(* these devices were sent them over their sockets.                        *)
Hears(docs, told) ==
    LET received == IF event' = event THEN {} ELSE ids \cup docs
    IN  unheard' = [c \in Devices |->
            IF c \notin streams' THEN {}
            ELSE (IF c \in told THEN unheard[c] \ docs ELSE unheard[c] \cup docs) \ received]

NothingStored == Hears({}, {})
-----------------------------------------------------------------------------
(* broadcast, broadcastStored: sockets that are not open are passed over,  *)
(* and one whose client vanished is sent to for nobody.                    *)
InRoom(d) == {c \in Devices : Talks(c) /\ room[c] = d}

(* POST /yjs                                                               *)
Post(d) ==
    /\ Announce(d)
    /\ UNCHANGED keepaliveVars
    /\ Hears({d}, InRoom(d))

(* An UPDATE frame, once it is stored; its sender knows of it.             *)
SocketUpdate(c) ==
    /\ Talks(c) /\ room[c] # Nowhere
    /\ Announce(room[c])
    /\ UNCHANGED keepaliveVars
    /\ Hears({room[c]}, InRoom(room[c]))

(* POST /sync/yjs-push: relayed and not announced.  A COMPACT frame is     *)
(* neither, and an UPDATE whose append fails is relayed, and not stored.   *)
Push(d) ==
    /\ unheard' = [c \in Devices |-> IF c \in InRoom(d) THEN unheard[c] \ {d} ELSE unheard[c]]
    /\ UNCHANGED <<eventVars, keepaliveVars>>

(* HELLO: what is stored is replayed to the device.                        *)
Join(c, d) ==
    /\ Hello(c, d)
    /\ unheard' = [unheard EXCEPT ![c] = @ \ {d}]
    /\ UNCHANGED eventVars

Restart ==
    /\ EventsLost /\ SocketsLost
    /\ NothingStored

TimerFires == Fire /\ UNCHANGED keepaliveVars /\ NothingStored
TimePasses == Elapse /\ UNCHANGED keepaliveVars /\ NothingStored
PingTimer == PingRound /\ UNCHANGED eventVars /\ NothingStored
CloseHandler(c) == Closed(c) /\ UNCHANGED eventVars /\ NothingStored

Next ==
    \/ \E d \in Docs : Post(d) \/ Push(d)
    \/ \E c \in Devices :
          \/ SocketUpdate(c)
          \/ \E d \in Docs : Join(c, d)
          \/ CloseHandler(c)
          \/ (Subscribe(c) \/ Unsubscribe(c)) /\ UNCHANGED keepaliveVars /\ NothingStored
          \/ (Upgrade(c) \/ CloseFrame(c) \/ Vanish(c) \/ Pong(c))
                /\ UNCHANGED eventVars /\ NothingStored
    \/ TimerFires \/ TimePasses \/ PingTimer
    \/ Restart

(* Timers fire and close handlers run while the process is up; no device   *)
(* is assumed to do anything.                                              *)
Fairness ==
    /\ WF_vars(TimerFires) /\ WF_vars(TimePasses)
    /\ WF_vars(PingTimer)
    /\ \A c \in Devices : WF_vars(CloseHandler(c))

Spec == Init /\ [][Next]_vars /\ Fairness
-----------------------------------------------------------------------------
(* What either half keeps has its shape, and so has what is unheard.       *)
TypeOK ==
    /\ EventsTypeOK /\ KeepaliveTypeOK
    /\ unheard \in [Devices -> SUBSET Docs]

(* Content that a device's stream was open for when it was stored comes to *)
(* its notice, by the room or by an event, while the stream stays open: no *)
(* write is forgotten by the throttle, and none hidden by a room its       *)
(* client has left without a word.  sync/yjs-push and COMPACT apart.       *)
StoredIsHeard == \A c \in Devices, d \in Docs : (d \in unheard[c]) ~> (d \notin unheard[c])
==============================================================================
