------------------------------ MODULE Keepalive ------------------------------
(***************************************************************************)
(* The sockets of the relay (index.ts, relay.ts): who is in which room, and *)
(* the rounds of pings that drop a client that vanished without a word.     *)
(***************************************************************************)
EXTENDS Naturals

CONSTANTS
    Sockets,
    Rooms,     \* the documents whose rooms they join
    Nowhere

ASSUME KeepaliveAssumption == Nowhere \notin Rooms

VARIABLES
    clients,   \* wss.clients
    alive,     \* wsAlive
    room,      \* the room each is in
    pinged,    \* sockets with a ping they have not answered
    gone,      \* sockets whose client vanished: it neither answers nor closes
    closing    \* terminated, and their close handlers have not run

keepaliveVars == <<clients, alive, room, pinged, gone, closing>>

KeepaliveInit ==
    /\ clients = {} /\ alive = {} /\ pinged = {} /\ gone = {} /\ closing = {}
    /\ room = [s \in Sockets |-> Nowhere]
-----------------------------------------------------------------------------
(* Mutant: a new socket counts as alive from its first answer on.          *)
UpgradeUnheard(s) ==
    /\ s \notin clients
    /\ clients' = clients \cup {s}
    /\ UNCHANGED <<alive, room, pinged, gone, closing>>

(* An upgrade to /yjs.                                                     *)
Upgrade(s) ==
    /\ s \notin clients
    /\ clients' = clients \cup {s} /\ alive' = alive \cup {s}
    /\ UNCHANGED <<room, pinged, gone, closing>>

(* A client that is there and whose socket is open.                        *)
Talks(s) == s \in clients \ (gone \cup closing)

(* A HELLO that is good; one that is not closes the socket.                *)
Hello(s, d) ==
    /\ Talks(s) /\ room[s] = Nowhere
    /\ room' = [room EXCEPT ![s] = d]
    /\ UNCHANGED <<clients, alive, pinged, gone, closing>>

Forget(s) ==
    /\ clients' = clients \ {s} /\ alive' = alive \ {s} /\ pinged' = pinged \ {s}
    /\ gone' = gone \ {s} /\ closing' = closing \ {s}

(* Mutant: the room is left by a close frame only.                         *)
ClosedLingering(s) ==
    /\ s \in closing
    /\ Forget(s)
    /\ UNCHANGED room

(* The close handlers, after a close frame and after a terminate.          *)
CloseFrame(s) ==
    /\ Talks(s)
    /\ Forget(s)
    /\ room' = [room EXCEPT ![s] = Nowhere]

Closed(s) ==
    /\ s \in closing
    /\ Forget(s)
    /\ room' = [room EXCEPT ![s] = Nowhere]

Vanish(s) ==
    /\ Talks(s)
    /\ gone' = gone \cup {s}
    /\ UNCHANGED <<clients, alive, room, pinged, closing>>

Pong(s) ==
    /\ Talks(s) /\ s \in pinged
    /\ alive' = alive \cup {s} /\ pinged' = pinged \ {s}
    /\ UNCHANGED <<clients, room, gone, closing>>

(* Mutant: whoever misses one is pinged again, and again.                  *)
PingAll ==
    /\ clients \ closing # {}
    /\ alive' = {} /\ pinged' = pinged \cup clients
    /\ UNCHANGED <<clients, room, gone, closing>>

(* The timer: sockets that missed the round before are terminated, and the *)
(* others are asked.                                                       *)
PingRound ==
    /\ clients \ closing # {}
    /\ closing' = closing \cup (clients \ alive)
    /\ pinged' = pinged \cup alive
    /\ alive' = {}
    /\ UNCHANGED <<clients, room, gone>>

(* A new process: every socket is cut.                                     *)
SocketsLost ==
    /\ clients' = {} /\ alive' = {} /\ pinged' = {} /\ gone' = {} /\ closing' = {}
    /\ room' = [s \in Sockets |-> Nowhere]
-----------------------------------------------------------------------------
(* All that is kept of sockets is of sockets that are there: whoever is in *)
(* a room has one.                                                         *)
KeepaliveTypeOK ==
    /\ clients \subseteq Sockets
    /\ alive \cup pinged \cup gone \cup closing \subseteq clients
    /\ room \in [Sockets -> Rooms \cup {Nowhere}]
    /\ \A s \in Sockets : room[s] # Nowhere => s \in clients

(* A socket is terminated only if it left a ping of the round before       *)
(* without an answer: neither a client that answers within a round nor one *)
(* that has just come is dropped.                                          *)
OnlySilentDropped == [][\A s \in closing' \ closing : s \in pinged]_keepaliveVars

(* A client that vanished leaves its room in the end, so that nothing is   *)
(* sent to a socket nobody reads.                                          *)
VanishedLeave == \A s \in Sockets : (s \in gone) ~> (room[s] = Nowhere)
==============================================================================
