------------------------------- MODULE Bicycle -------------------------------
(***************************************************************************)
(* What the parking guard of the bicycle promises to those who only see    *)
(* the modes they send it and the parking_state it stores.  How a report   *)
(* comes about (scans, baselines, strikes, the remembered report) is left  *)
(* out: it is in ParkingThread, which implements this specification.       *)
(* BikeSystem composes it with the rider's application.                    *)
(*                                                                         *)
(* A report of the bicycle's whereabouts is begun by a thread that has     *)
(* read parking mode 1 for it; the thread then sends it, or drops it,      *)
(* whatever the mode is by then, and begins no other meanwhile.            *)
(***************************************************************************)
EXTENDS Integers, Sequences

CONSTANT Messages   \* what the gateway writes to the guard's socket: modes, and an
                    \* acknowledgement, negative where it is a text

VARIABLES
    socket,    \* messages on their way to the guard
    info,      \* the mode the guard goes by
    armed,     \* the threads that read a 1 and are comparing or scanning
    report,    \* the report each thread is about to send
    db_state   \* parking_state at the server

vars == <<socket, info, armed, report, db_state>>

Condition == "BeaconCondition"
Finder    == "BeaconFinder"
Reporters == {Condition, Finder}
Words     == {"none", "safe", "stolen", "nobeacon", "deactivate"}

Init ==
    /\ socket = <<>>
    /\ info = -1
    /\ armed = {}
    /\ report = [t \in Reporters |-> "none"]
    /\ db_state \in Words

Arrive(m) ==
    /\ socket' = Append(socket, m)
    /\ UNCHANGED <<info, armed, report, db_state>>

Learn ==
    /\ socket # <<>>
    /\ Head(socket) >= 0
    /\ socket' = Tail(socket)
    /\ info' = Head(socket)
    /\ UNCHANGED <<armed, report, db_state>>

\* Messages that arrive together, or are no number, are lost.
Garble ==
    /\ \E n \in 1 .. Len(socket) : socket' = SubSeq(socket, n + 1, Len(socket))
    /\ UNCHANGED <<info, armed, report, db_state>>

Arm(t) ==
    /\ info = 1
    /\ report[t] = "none"
    /\ armed' = armed \cup {t}
    /\ UNCHANGED <<socket, info, report, db_state>>

Disarm(t) ==
    /\ armed' = armed \ {t}
    /\ UNCHANGED <<socket, info, report, db_state>>

Begin(t, w) ==
    /\ report[t] = "none"
    /\ report' = [report EXCEPT ![t] = w]
    /\ armed' = armed \ {t}
    /\ UNCHANGED <<socket, info, db_state>>

Deactivate == info # 1 /\ Condition \notin armed /\ Begin(Condition, "deactivate")
NoBeacon   == Condition \in armed /\ Begin(Condition, "nobeacon")

\* Mutant: the guard judges in any mode.
GuardsAlways == \E w \in {"safe", "stolen"} : Begin(Finder, w)

Guard ==
    /\ Finder \in armed
    /\ info # 0
    /\ \E w \in {"safe", "stolen"} : Begin(Finder, w)

Store(t) ==
    /\ report[t] # "none"
    /\ db_state' = report[t]
    /\ report' = [report EXCEPT ![t] = "none"]
    /\ UNCHANGED <<socket, info, armed>>

\* Sent before, or dropped by the gateway.
Drop(t) ==
    /\ report[t] # "none"
    /\ report' = [report EXCEPT ![t] = "none"]
    /\ UNCHANGED <<socket, info, armed, db_state>>

\* The guard's own steps.
Step == \/ Learn \/ Garble \/ Deactivate \/ NoBeacon \/ Guard
        \/ \E t \in Reporters : Arm(t) \/ Disarm(t) \/ Store(t) \/ Drop(t)

Next == Step \/ \E m \in Messages : Arrive(m)

Spec == Init /\ [][Next]_vars
=============================================================================
