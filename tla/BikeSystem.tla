----------------------------- MODULE BikeSystem -----------------------------
(***************************************************************************)
(* The rider's application and the bicycle together: ParkingApp with       *)
(* Bicycle, which the guard's three threads implement (ParkingThread).     *)
(*                                                                         *)
(* A parking_mode that reaches the CSE is forwarded to the bicycle (the    *)
(* subscription and the gateway of Thyme, modelled in TasServer); the      *)
(* parking_state the bicycle stores is the one the pollers read.           *)
(***************************************************************************)
EXTENDS ParkingApp, Integers, Sequences

VARIABLES
    socket, info, armed, report,  \* the bicycle, as in Bicycle
    ack_due,                      \* the gateway has not yet acknowledged the upload
                                  \* of an empty parking_mode, as in ParkingThread
    \* History:
    clean,     \* nothing of an earlier session was left when the last began
    reached,   \* the mode of this clean session has reached the guard
    theft,     \* the guard judged a theft since then
    garbled    \* a message to the guard was lost, or the acknowledgement came
               \* after a mode

Created == 2001    \* the acknowledgement: a status, no mode

Bike == INSTANCE Bicycle WITH
            Messages <- {0, 1, Created},
            db_state <- parking_state

bike       == <<socket, info, armed, report>>
session    == <<clean, reached, theft>>
systemVars == <<vars, bike, ack_due, session, garbled>>

SystemInit ==
    /\ Init
    /\ Bike!Init
    /\ ack_due = TRUE
    /\ clean = FALSE
    /\ reached = FALSE
    /\ theft = FALSE
    /\ garbled = FALSE

\* The session before is over and forgotten, wherever it left a trace.
Settled ==
    /\ requests = {}
    /\ socket = <<>>
    /\ info # 1
    /\ armed = {}
    /\ report = [t \in Bike!Reporters |-> "none"]
    /\ parking_state # "stolen"
    /\ \A p \in Pollers : ~Polling(p)

-----------------------------------------------------------------------------
AppClick ==
    /\ Click
    /\ \/ /\ isChecked'[screen]
          /\ clean' = Settled
          /\ reached' = FALSE
          /\ theft' = FALSE
       \/ /\ ~isChecked'[screen]
          /\ UNCHANGED session
    /\ UNCHANGED <<bike, ack_due, garbled>>

\* Mutant: the subscription to parking_mode is lost.
DeliversToServer(r) ==
    /\ Deliver(r)
    /\ UNCHANGED <<bike, ack_due, session, garbled>>

\* The new parking_mode is stored and sent on to the bicycle.
AppDeliver(r) ==
    /\ Deliver(r)
    /\ Bike!Arrive(r.mode)
    /\ UNCHANGED <<ack_due, session, garbled>>

\* The gateway acknowledges on the same socket what the guard uploaded when it
\* started, now, late, or (as nothing forces it) not at all.  The text of an error in its place is
\* lost, as Garble allows for any message.
Acknowledge ==
    /\ ack_due
    /\ ack_due' = FALSE
    /\ Bike!Arrive(Created)
    /\ garbled' = (garbled \/ socket # <<>> \/ info # -1)
    /\ UNCHANGED <<app, poll, requests, parking_mode, notified, toggles, errors, overtaken,
                   session>>

AppStep ==
    /\ \/ Recreate
       \/ \E r \in requests : Fail(r)
       \/ \E p \in Pollers : PollStep(p)
    /\ UNCHANGED <<bike, ack_due, session, garbled>>

\* A step of the guard, which changes nothing of the application and the CSE
\* but parking_state.
BikeStep ==
    /\ Bike!Step
    /\ reached' = (reached \/ (clean /\ info # 1 /\ info' = 1))
    /\ theft' = (theft \/ (/\ reached
                           /\ report[Bike!Finder] = "none"
                           /\ report'[Bike!Finder] = "stolen"))
    /\ garbled' = (garbled \/ (socket' # socket /\ ~Bike!Learn))
    /\ UNCHANGED <<app, poll, requests, parking_mode, notified, toggles, errors, overtaken,
                   ack_due, clean>>

SystemNext ==
    \/ AppClick
    \/ \E r \in requests : AppDeliver(r)
    \/ Acknowledge
    \/ AppStep
    \/ BikeStep

\* The application's threads run and the guard takes its messages.  Nothing is
\* promised of what the guard reports.
SystemFairness ==
    /\ \A p \in Pollers : WF_systemVars(PollStep(p) /\ UNCHANGED <<bike, ack_due, session, garbled>>)
    /\ WF_systemVars(\E r \in requests : AppDeliver(r))
    /\ WF_systemVars(BikeStep /\ socket' # socket)

SystemSpec == SystemInit /\ [][SystemNext]_systemVars /\ SystemFairness

-----------------------------------------------------------------------------
(* Properties. *)

\* A session that begins after the one before has died away is notified only
\* of a theft of its own: one the guard judged after it had learnt the mode.
\* (Otherwise the poller may read "stolen" of the session before, notify,
\* and end, and miss the theft of this one.)
AlarmOfThisSession == clean /\ notified => theft

\* When the requests of the first activity are through and the guard has taken
\* what was on its socket, the guard goes by what the button shows, unless a
\* request failed or was overtaken, a message ran into another, or the
\* acknowledgement of the guard's start came after a mode and replaced it.
GuardFollowsButton ==
    (/\ requests = {} /\ socket = <<>> /\ toggles > 0 /\ screen = 1
     /\ errors = 0 /\ ~overtaken /\ ~garbled)
        => info = IF isChecked[screen] THEN 1 ELSE 0

\* Parking mode that stays on in the app reaches the guard, unless a request
\* failed or was overtaken, or a message on the way was lost or came late.
ModeArrives ==
    <>[](isChecked[screen])
        => <>(errors > 0 \/ overtaken \/ garbled) \/ <>[](info = 1)
=============================================================================
