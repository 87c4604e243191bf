------------------------------- MODULE Events -------------------------------
(***************************************************************************)
(* The events one user's devices are sent when content is stored           *)
(* (lib/documentEvents.ts): at most one in a window, the first at once, the *)
(* documents of the rest gathered into one at the window's end.             *)
(***************************************************************************)
EXTENDS Naturals

CONSTANTS
    Docs,
    Devices,   \* the user's devices, each with a stream or none
    Window,    \* CONTENT_EVENT_THROTTLE_MS
    Off        \* no timer

ASSUME EventsAssumption ==
    /\ Window \in Nat \ {0}
    /\ Off \notin Nat

VARIABLES
    ids,       \* documents waiting to be announced
    timer,     \* what is left until the announcement that is scheduled
    quiet,     \* time since the last event, up to the window
    streams,   \* devices with an open stream
    event      \* history: whether the number of events sent is odd

eventVars == <<ids, timer, quiet, streams, event>>

EventsInit ==
    /\ ids = {} /\ timer = Off /\ quiet = Window
    /\ streams = {}
    /\ event = FALSE
-----------------------------------------------------------------------------
(* GET /tree-events, and its end.                                          *)
Subscribe(c) ==
    /\ c \notin streams
    /\ streams' = streams \cup {c}
    /\ UNCHANGED <<ids, timer, quiet, event>>

Unsubscribe(c) ==
    /\ c \in streams
    /\ streams' = streams \ {c}
    /\ UNCHANGED <<ids, timer, quiet, event>>

(* One event to every open stream, with all that waits.                    *)
SendContentChanged ==
    /\ event' = ~event
    /\ ids' = {} /\ quiet' = 0

(* Mutant: no event waits.                                                 *)
AnnounceAtOnce(d) ==
    /\ SendContentChanged
    /\ UNCHANGED <<timer, streams>>

(* Mutant: a document that comes within the window waits for the next one  *)
(* that comes after it.                                                    *)
AnnounceUnscheduled(d) ==
    /\ IF quiet = Window
       THEN SendContentChanged
       ELSE ids' = ids \cup {d} /\ UNCHANGED <<quiet, event>>
    /\ UNCHANGED <<timer, streams>>

(* broadcastContentChanged                                                 *)
Announce(d) ==
    /\ IF timer = Off /\ quiet = Window
       THEN SendContentChanged /\ UNCHANGED timer
       ELSE /\ ids' = ids \cup {d}
            /\ timer' = IF timer = Off THEN Window - quiet ELSE timer
            /\ UNCHANGED <<quiet, event>>
    /\ UNCHANGED streams

(* flush, by the timer, on time or late.                                   *)
Fire ==
    /\ timer = 0
    /\ timer' = Off
    /\ IF ids = {} THEN UNCHANGED <<ids, quiet, event>> ELSE SendContentChanged
    /\ UNCHANGED streams

Elapse ==
    /\ timer' = IF timer \in {Off, 0} THEN timer ELSE timer - 1
    /\ quiet' = IF quiet = Window THEN quiet ELSE quiet + 1
    /\ UNCHANGED <<ids, streams, event>>

(* A new process: nothing is kept.                                         *)
EventsLost ==
    /\ ids' = {} /\ timer' = Off /\ quiet' = Window
    /\ streams' = {}
    /\ UNCHANGED event
-----------------------------------------------------------------------------
(* What waits, the timer and the streams have their shape.                 *)
EventsTypeOK ==
    /\ ids \subseteq Docs
    /\ timer \in 0..Window \cup {Off}
    /\ quiet \in 0..Window
    /\ streams \subseteq Devices
    /\ event \in BOOLEAN

(* Two events of a user, within a process, are at least the window apart, *)
(* whether the first was sent at once or by the timer, and however late    *)
(* that one fired.                                                         *)
ThrottleHolds == [][event' # event => quiet = Window]_eventVars
==============================================================================
