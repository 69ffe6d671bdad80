----------------------------- MODULE ParkingApp -----------------------------
(***************************************************************************)
(* Parking mode on the phone, FirstActivity.java.  The toggle button sends *)
(* parking_mode to the CSE with a ControlRequest thread and, when it is    *)
(* switched on, starts a RetrieveRequestCon thread that polls              *)
(* parking_state and notifies the rider of a theft.                        *)
(*                                                                         *)
(* A poller asks the toggle button of the activity that started it.  An    *)
(* activity that is rotated or left and opened again is a new object with  *)
(* a button of its own, and the pollers of the old one go on.  check_state *)
(* is left out: it is only logged.                                         *)
(*                                                                         *)
(* The CSE is modelled by what the app sees of it: the latest              *)
(* parking_mode, and the latest parking_state, which only the bicycle      *)
(* changes.  BikeSystem composes this module with the bicycle.             *)
(***************************************************************************)
EXTENDS Naturals, FiniteSets

CONSTANTS
    MaxScreens,  \* bound: activity objects
    MaxToggles,  \* bound: clicks on the toggle button
    MaxErrors    \* bound: requests that end in an exception

ASSUME AppAssumption ==
    /\ MaxScreens \in Nat \ {0}
    /\ MaxToggles \in Nat
    /\ MaxErrors \in Nat

Screens == 1 .. MaxScreens
Pollers == 1 .. MaxToggles   \* the click that starts it names a poller

VARIABLES
    screen,         \* the activity the rider sees
    isChecked,      \* mode.isChecked() of each activity
    pc,             \* control point of each RetrieveRequestCon
    owner,          \* the activity it belongs to
    con,            \* the parking_state it read and is to decide on
    requests,       \* ControlRequests under way: the click and the mode it sends
    parking_mode,   \* latest at the CSE
    parking_state,  \* latest at the CSE, written by the bicycle
    \* History and bounds:
    notified,       \* a theft was notified since parking mode was switched on
    toggles, errors,
    overtaken       \* a request was sent while another was under way

app   == <<screen, isChecked>>
poll  == <<pc, owner, con>>
cse   == <<parking_mode, parking_state>>
vars  == <<app, poll, requests, cse, notified, toggles, errors, overtaken>>

States == {"safe", "stolen", "nobeacon", "deactivate"}

Init ==
    /\ screen = 1
    /\ isChecked = [s \in Screens |-> FALSE]
    /\ pc = [p \in Pollers |-> "unused"]
    /\ owner = [p \in Pollers |-> 1]
    /\ con = [p \in Pollers |-> "deactivate"]
    /\ requests = {}
    /\ parking_mode \in {0, 1}
    /\ parking_state \in States
    /\ notified = FALSE
    /\ toggles = 0
    /\ errors = 0
    /\ overtaken = FALSE

-----------------------------------------------------------------------------
(* The activity. *)

Start(p) ==
    /\ pc' = [pc EXCEPT ![p] = "get"]
    /\ owner' = [owner EXCEPT ![p] = screen]

\* Mutant: the mode is taken before the button changes.
SendsOldMode ==
    /\ toggles < MaxToggles
    /\ toggles' = toggles + 1
    /\ isChecked' = [isChecked EXCEPT ![screen] = ~@]
    /\ overtaken' = (overtaken \/ requests # {})
    /\ requests' = requests \cup
         {[click |-> toggles', mode |-> IF isChecked[screen] THEN 1 ELSE 0]}
    /\ \/ isChecked'[screen] /\ Start(toggles') /\ notified' = FALSE
       \/ ~isChecked'[screen] /\ UNCHANGED <<pc, owner, notified>>
    /\ UNCHANGED <<screen, con, cse, errors>>

\* mode.onClick: each click has request threads of its own.
Click ==
    /\ toggles < MaxToggles
    /\ toggles' = toggles + 1
    /\ isChecked' = [isChecked EXCEPT ![screen] = ~@]
    /\ overtaken' = (overtaken \/ requests # {})
    /\ \/ /\ isChecked'[screen]
          /\ requests' = requests \cup {[click |-> toggles', mode |-> 1]}
          /\ Start(toggles')
          /\ notified' = FALSE
       \/ /\ ~isChecked'[screen]
          /\ requests' = requests \cup {[click |-> toggles', mode |-> 0]}
          /\ UNCHANGED <<pc, owner, notified>>
    /\ UNCHANGED <<screen, con, cse, errors>>

\* onCreate of a new activity object: after a rotation the button's state is
\* restored without a click, after going back it starts unchecked.
Recreate ==
    /\ screen < MaxScreens
    /\ screen' = screen + 1
    /\ \E checked \in {FALSE, isChecked[screen]} :
          isChecked' = [isChecked EXCEPT ![screen'] = checked]
    /\ UNCHANGED <<poll, requests, cse, notified, toggles, errors, overtaken>>

-----------------------------------------------------------------------------
(* ControlRequest: the threads run in any order. *)

Deliver(r) ==
    /\ r \in requests
    /\ requests' = requests \ {r}
    /\ parking_mode' = r.mode
    /\ UNCHANGED <<app, poll, parking_state, notified, toggles, errors, overtaken>>

\* The exception is logged and the request forgotten.
Fail(r) ==
    /\ r \in requests
    /\ errors < MaxErrors
    /\ errors' = errors + 1
    /\ requests' = requests \ {r}
    /\ UNCHANGED <<app, poll, cse, notified, toggles, overtaken>>

-----------------------------------------------------------------------------
(* RetrieveRequestCon. *)

Get(p) ==
    /\ pc[p] = "get"
    /\ con' = [con EXCEPT ![p] = parking_state]
    /\ pc' = [pc EXCEPT ![p] = "decide"]
    /\ UNCHANGED <<app, owner, requests, cse, notified, toggles, errors, overtaken>>

\* An exception leaves the while loop: the poller ends.
GetFails(p) ==
    /\ pc[p] = "get"
    /\ errors < MaxErrors
    /\ errors' = errors + 1
    /\ pc' = [pc EXCEPT ![p] = "ended"]
    /\ UNCHANGED <<app, owner, con, requests, cse, notified, toggles, overtaken>>

\* Mutant: the toggle button is asked only about a theft.
PollsOn(p) ==
    /\ pc[p] = "decide"
    /\ pc' = [pc EXCEPT ![p] =
                 IF con[p] = "stolen" /\ isChecked[owner[p]] THEN "notify" ELSE "get"]
    /\ con' = [con EXCEPT ![p] = "deactivate"]
    /\ UNCHANGED <<app, owner, requests, cse, notified, toggles, errors, overtaken>>

\* Mutant: a beacon out of range ends the poller like a theft, unnoticed.
EndsOnNoBeacon(p) ==
    /\ pc[p] = "decide"
    /\ pc' = [pc EXCEPT ![p] =
                 IF ~isChecked[owner[p]] \/ con[p] = "nobeacon" THEN "ended"
                 ELSE IF con[p] = "stolen" THEN "notify" ELSE "get"]
    /\ con' = [con EXCEPT ![p] = "deactivate"]
    /\ UNCHANGED <<app, owner, requests, cse, notified, toggles, errors, overtaken>>

\* With the button checked a theft is notified and anything else polled again.
\* What was read is not needed any more.
Decide(p) ==
    /\ pc[p] = "decide"
    /\ pc' = [pc EXCEPT ![p] =
                 IF ~isChecked[owner[p]] THEN "ended"
                 ELSE IF con[p] = "stolen" THEN "notify" ELSE "get"]
    /\ con' = [con EXCEPT ![p] = "deactivate"]
    /\ UNCHANGED <<app, owner, requests, cse, notified, toggles, errors, overtaken>>

\* NotificationSomethings(con), and break: the poller does not see what
\* becomes of the theft.
Notify(p) ==
    /\ pc[p] = "notify"
    /\ notified' = TRUE
    /\ pc' = [pc EXCEPT ![p] = "ended"]
    /\ UNCHANGED <<app, owner, con, requests, cse, toggles, errors, overtaken>>

-----------------------------------------------------------------------------
PollStep(p) == Get(p) \/ GetFails(p) \/ Decide(p) \/ Notify(p)

Next ==
    \/ Click
    \/ Recreate
    \/ \E r \in requests : Deliver(r) \/ Fail(r)
    \/ \E p \in Pollers : PollStep(p)

\* Every thread the app started runs, and the CSE answers a GET or the
\* connection breaks: the code sets no timeout of its own.
Fairness == \A p \in Pollers : WF_vars(PollStep(p))

Spec     == Init /\ [][Next]_vars
FairSpec == Spec /\ Fairness

-----------------------------------------------------------------------------
(* Properties. *)

\* Once the requests of the first activity are through, the CSE has the mode
\* of its button, unless a request failed or was sent before the one ahead of it was
\* through, which may then overtake it.
LastClickWins ==
    requests = {} /\ toggles > 0 /\ errors = 0 /\ ~overtaken /\ screen = 1
        => parking_mode = IF isChecked[screen] THEN 1 ELSE 0

\* A theft that lasts while the button stays checked is notified, once since
\* parking mode was switched on, unless a request failed: rotating the phone
\* or clicking fast does not lose it.
TheftNotified ==
    <>[](isChecked[screen] /\ parking_state = "stolen")
        => <>(errors > 0) \/ <>[]notified

Polling(p) == pc[p] \in {"get", "decide", "notify"}

\* With parking mode off the pollers stop, all those of the activities whose
\* button is off.
PollersEnd ==
    \A p \in Pollers : <>[](~isChecked[owner[p]]) => <>[](~Polling(p))
=============================================================================
