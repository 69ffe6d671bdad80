------------------------------- MODULE BikeMap -------------------------------
(***************************************************************************)
(* The map of the bicycle on the phone.  FirstActivity's button starts a   *)
(* RetrieveRequest thread, which sets the static variable location, and at *)
(* once opens MapsActivity1, which parses it when its map is ready.        *)
(* Neither waits for the other.                                            *)
(*                                                                         *)
(* The bicycle uploads its location when it changes (ParkingThread), so    *)
(* the locations are numbered in the order the CSE stored them.  Both that *)
(* occur, 39 and 234, are numbers of places on the map.                    *)
(***************************************************************************)
EXTENDS Naturals

CONSTANTS
    MaxClicks,  \* bound: clicks on the map button
    MaxMoves,   \* bound: locations the bicycle uploads
    MaxKills    \* bound: times Android ends the process in the background

ASSUME MapAssumption ==
    /\ MaxClicks \in Nat
    /\ MaxMoves \in Nat
    /\ MaxKills \in Nat

Clicks == 1 .. MaxClicks   \* a click names its request and its map

Unknown == 0   \* location is null; no location is stored

VARIABLES
    location,  \* FirstActivity.location
    pc,        \* control point of each click's RetrieveRequest
    msg,       \* the location in the answer it has received
    map,       \* the MapsActivity1 of each click
    shown,     \* the location that map showed last
    stored,    \* latest parking_location at the CSE
    \* History and bounds:
    before,    \* latest location at the CSE at the click
    inHand,    \* at the click an older request had its answer, and had not used it
    own,       \* when the map was ready its own request had set location
    crashes, kills

request == <<pc, msg>>
screen  == <<map, shown>>
history == <<before, inHand, own>>
mapVars == <<location, request, screen, stored, history, crashes, kills>>

MapInit ==
    /\ location = Unknown
    /\ pc = [c \in Clicks |-> "unused"]
    /\ msg = [c \in Clicks |-> Unknown]
    /\ map = [c \in Clicks |-> "none"]
    /\ shown = [c \in Clicks |-> Unknown]
    /\ stored \in {Unknown, 1}
    /\ before = [c \in Clicks |-> Unknown]
    /\ inHand = [c \in Clicks |-> FALSE]
    /\ own = [c \in Clicks |-> FALSE]
    /\ crashes = 0
    /\ kills = 0

-----------------------------------------------------------------------------
(* FirstActivity. *)

\* The button is visible, or tapped again before the map covers it.
Visible == \A c \in Clicks : map[c] \in {"none", "launched", "closed"}

Launch(c) ==
    /\ pc[c] = "unused"
    /\ \A d \in Clicks : d < c => pc[d] # "unused"
    /\ Visible
    /\ pc' = [pc EXCEPT ![c] = "get"]
    /\ map' = [map EXCEPT ![c] = "launched"]
    /\ before' = [before EXCEPT ![c] = stored]
    /\ inHand' = [inHand EXCEPT ![c] = \E d \in Clicks : pc[d] = "received"]
    /\ UNCHANGED <<msg, shown, stored, own, crashes, kills>>

\* Mutant: the location of the last click is cleared.
ClearsLocation(c) == Launch(c) /\ location' = Unknown

Click(c) == Launch(c) /\ UNCHANGED location

\* The CSE serves the GET of the latest instance.
Serve(c) ==
    /\ pc[c] = "get"
    /\ stored # Unknown
    /\ pc' = [pc EXCEPT ![c] = "received"]
    /\ msg' = [msg EXCEPT ![c] = stored]
    /\ UNCHANGED <<location, screen, stored, history, crashes, kills>>

\* Any exception, also for an empty container, is only logged.
Fails(c) ==
    /\ pc[c] = "get"
    /\ pc' = [pc EXCEPT ![c] = "failed"]
    /\ UNCHANGED <<location, msg, screen, stored, history, crashes, kills>>

\* Mutant: only the first answer counts.
SetsOnce(c) ==
    /\ pc[c] = "received"
    /\ pc' = [pc EXCEPT ![c] = "set"]
    /\ location' = IF location = Unknown THEN msg[c] ELSE location
    /\ UNCHANGED <<msg, screen, stored, history, crashes, kills>>

\* getResponseBody, in the thread of the request.
Receive(c) ==
    /\ pc[c] = "received"
    /\ pc' = [pc EXCEPT ![c] = "set"]
    /\ location' = msg[c]
    /\ UNCHANGED <<msg, screen, stored, history, crashes, kills>>

-----------------------------------------------------------------------------
(* MapsActivity1. *)

MapOpen(c) == map[c] \in {"launched", "shown", "restored"}

\* The process is gone, with its threads and its static variable.  Android
\* makes the other open activities again when the rider comes back to them.
ProcessEnds(closed) ==
    /\ location' = Unknown
    /\ pc' = [c \in Clicks |-> IF pc[c] = "unused" THEN "unused" ELSE "lost"]
    /\ map' = [c \in Clicks |-> IF c \in closed THEN "closed"
                                ELSE IF MapOpen(c) THEN "restored" ELSE map[c]]

\* Integer.parseInt(null) throws in the main thread.
OnMapReady(c) ==
    /\ map[c] \in {"launched", "restored"}
    /\ \/ /\ location = Unknown
          /\ ProcessEnds({c})
          /\ crashes' = crashes + 1
          /\ UNCHANGED <<shown, own>>
       \/ /\ location # Unknown
          /\ map' = [map EXCEPT ![c] = "shown"]
          /\ shown' = [shown EXCEPT ![c] = location]
          /\ own' = [own EXCEPT ![c] = pc[c] = "set"]
          /\ UNCHANGED <<location, pc, crashes>>
    /\ UNCHANGED <<msg, stored, before, inHand, kills>>

Back(c) ==
    /\ MapOpen(c)
    /\ map' = [map EXCEPT ![c] = "closed"]
    /\ UNCHANGED <<location, request, shown, stored, history, crashes, kills>>

-----------------------------------------------------------------------------
(* Android and the bicycle (external). *)

Kill ==
    /\ kills < MaxKills
    /\ kills' = kills + 1
    /\ ProcessEnds({})
    /\ UNCHANGED <<msg, shown, stored, history, crashes>>

Upload ==
    /\ stored < MaxMoves
    /\ stored' = stored + 1
    /\ UNCHANGED <<location, request, screen, history, crashes, kills>>

-----------------------------------------------------------------------------
MapNext ==
    \/ \E c \in Clicks : \/ Click(c)
                         \/ Serve(c)
                         \/ Fails(c)
                         \/ Receive(c)
                         \/ OnMapReady(c)
                         \/ Back(c)
    \/ Kill
    \/ Upload

MapSpec == MapInit /\ [][MapNext]_mapVars

-----------------------------------------------------------------------------
(* Properties. *)

MapTypeOK ==
    /\ location \in Nat
    /\ pc \in [Clicks -> {"unused", "get", "received", "set", "failed", "lost"}]
    /\ msg \in [Clicks -> Nat]
    /\ map \in [Clicks -> {"none", "launched", "shown", "restored", "closed"}]
    /\ shown \in [Clicks -> Nat]
    /\ stored \in Nat
    /\ before \in [Clicks -> Nat]
    /\ inHand \in [Clicks -> BOOLEAN]
    /\ own \in [Clicks -> BOOLEAN]
    /\ crashes \in Nat
    /\ kills \in Nat

\* A map that waited for its own request shows where the bicycle was at the
\* click or later, whatever the other requests do: an older answer can only
\* take its place if it had been received, and not yet used, at the click.
FreshMap ==
    \A c \in Clicks : own[c] /\ ~inHand[c] => shown[c] >= before[c]

\* After one request of this process has set the location no map crashes any
\* more, however many later requests fail or are late.
KnownStaysKnown ==
    [][crashes' # crashes => \A c \in Clicks : pc[c] # "set"]_mapVars
=============================================================================
