----------------------------- MODULE NaviLights -----------------------------
(***************************************************************************)
(* The turn signals on the phone, Navi.java.  Each Navi activity starts a  *)
(* thread that polls left_light and stores it in the static left_check,    *)
(* and a thread that reads left_check and blinks the activity's view by    *)
(* messages to the UI thread.  None of them ever ends: a poller replaces   *)
(* itself after an exception, and those of a closed activity go on.        *)
(*                                                                         *)
(* The right side is the same code with variables of its own.              *)
(***************************************************************************)
EXTENDS Naturals, Sequences, FiniteSets

CONSTANTS
    MaxScreens,  \* bound: activity objects
    MaxChanges,  \* bound: changes of left_light at the CSE
    MaxErrors,   \* bound: requests that end in an exception
    MaxQueue     \* bound: messages the UI thread is behind

ASSUME NaviAssumption ==
    /\ MaxScreens \in Nat \ {0}
    /\ MaxChanges \in Nat
    /\ MaxErrors \in Nat
    /\ MaxQueue \in Nat \ {0}

Screens == 1 .. MaxScreens
Threads == 1 .. MaxScreens + 1   \* names of pollers, used again after their end
Signals == {"0", "1", "2"}       \* off, signal, collision warning
Colour  == [v \in Signals |->
              CASE v = "0" -> "white" [] v = "1" -> "yellow" [] v = "2" -> "red"]

NoCon   == [value |-> "none", number |-> 0]

VARIABLES
    light,       \* latest left_light at the CSE: its value and its number
    screens,     \* activities created
    poller,      \* control point of each left_RetrieveRequestCon
    con,         \* what it read in this round
    left_check,  \* the static, with the number of what was stored
    blink,       \* control point of each left_blink
    check,       \* its local variable
    queue,       \* messages to each activity's handler
    left_light,  \* the colour of each activity's view
    \* Bound:
    errors

net   == <<light, errors>>
polls == <<poller, con, left_check>>
views == <<blink, check, queue, left_light>>
vars  == <<net, screens, polls, views>>

Init ==
    /\ light \in [value : Signals \cup {"none"}, number : {0}]
    /\ screens = 0
    /\ poller = [t \in Threads |-> "unused"]
    /\ con = [t \in Threads |-> NoCon]
    /\ left_check = [value |-> "-1", number |-> 0]
    /\ blink = [s \in Screens |-> "unused"]
    /\ check = [s \in Screens |-> "-1"]
    /\ queue = [s \in Screens |-> <<>>]
    /\ left_light = [s \in Screens |-> "white"]
    /\ errors = 0

-----------------------------------------------------------------------------
(* Pollers. *)

\* The new thread takes the first free name.
Unused(t) ==
    /\ poller[t] = "unused"
    /\ \A u \in Threads : poller[u] = "unused" => t <= u

\* onCreate: two threads, whatever earlier activities still run.
Open ==
    /\ screens < MaxScreens
    /\ screens' = screens + 1
    /\ \E t \in Threads : Unused(t) /\ poller' = [poller EXCEPT ![t] = "get"]
    /\ blink' = [blink EXCEPT ![screens'] = "zero"]
    /\ UNCHANGED <<net, con, left_check, check, queue, left_light>>

Get(t) ==
    /\ poller[t] = "get"
    /\ light.value \in Signals
    /\ con' = [con EXCEPT ![t] = light]
    /\ poller' = [poller EXCEPT ![t] = "store"]
    /\ UNCHANGED <<net, screens, left_check, views>>

\* Mutant: the end of a signal is not stored.
ForgetsOff(t) ==
    /\ poller[t] = "store"
    /\ left_check' = IF con[t].value = "0" THEN left_check ELSE con[t]
    /\ con' = [con EXCEPT ![t] = NoCon]
    /\ poller' = [poller EXCEPT ![t] = "get"]
    /\ UNCHANGED <<net, screens, views>>

\* con_check is -1 in every round: what was read is always stored.
Store(t) ==
    /\ poller[t] = "store"
    /\ left_check' = con[t]
    /\ con' = [con EXCEPT ![t] = NoCon]
    /\ poller' = [poller EXCEPT ![t] = "get"]
    /\ UNCHANGED <<net, screens, views>>

\* No connection, no answer, or nothing stored at the CSE yet.
Exception ==
    \/ light.value = "none" /\ UNCHANGED errors
    \/ errors < MaxErrors /\ errors' = errors + 1

\* Mutant: the poller also tries again itself.
RetriesToo(t) ==
    /\ poller[t] = "get"
    /\ Exception
    /\ \E u \in Threads : Unused(u) /\ poller' = [poller EXCEPT ![u] = "get"]
    /\ UNCHANGED <<light, screens, con, left_check, views>>

\* Mutant: the exception is only logged.
OnlyLogs(t) ==
    /\ poller[t] = "get"
    /\ Exception
    /\ poller' = [poller EXCEPT ![t] = "unused"]
    /\ UNCHANGED <<light, screens, con, left_check, views>>

\* The catch block starts the next poller, do_left(), and this one ends.
Fail(t) ==
    /\ poller[t] = "get"
    /\ Exception
    /\ \E u \in Threads :
          Unused(u) /\ poller' = [poller EXCEPT ![u] = "get", ![t] = "unused"]
    /\ UNCHANGED <<light, screens, con, left_check, views>>

-----------------------------------------------------------------------------
(* left_blink: left_check is read again by each of its three conditions. *)

Post(s, v) == Len(queue[s]) < MaxQueue /\ queue' = [queue EXCEPT ![s] = Append(@, v)]

To(s, label) == blink' = [blink EXCEPT ![s] = label]

Zero(s) ==
    /\ blink[s] = "zero"
    /\ To(s, "one")
    /\ LET goesOff == left_check.value = "0" /\ check[s] # "0"
       IN  \/ goesOff /\ Post(s, "0") /\ check' = [check EXCEPT ![s] = "0"]
           \/ ~goesOff /\ UNCHANGED <<queue, check>>
    /\ UNCHANGED <<net, screens, polls, left_light>>

Lit(v) == IF v = "1" THEN "lit1" ELSE "lit2"

\* left_check = "1", then "2": the colour, a second of sleep, and white.
Look(s, label, v, next) ==
    /\ blink[s] = label
    /\ \/ left_check.value = v /\ Post(s, v) /\ To(s, Lit(v))
       \/ left_check.value # v /\ To(s, next) /\ UNCHANGED queue
    /\ UNCHANGED <<net, screens, polls, check, left_light>>

\* Mutant: white only if the signal is over.
StaysLit(s, v, next) ==
    /\ blink[s] = Lit(v)
    /\ \/ left_check.value = "0" /\ Post(s, "0")
       \/ left_check.value # "0" /\ UNCHANGED queue
    /\ check' = [check EXCEPT ![s] = v]
    /\ To(s, next)
    /\ UNCHANGED <<net, screens, polls, left_light>>

White(s, v, next) ==
    /\ blink[s] = Lit(v)
    /\ Post(s, "0")
    /\ check' = [check EXCEPT ![s] = v]
    /\ To(s, next)
    /\ UNCHANGED <<net, screens, polls, left_light>>

Blink(s) ==
    \/ Zero(s)
    \/ Look(s, "one", "1", "two") \/ White(s, "1", "two")
    \/ Look(s, "two", "2", "zero") \/ White(s, "2", "zero")

\* handler.handleMessage, on the UI thread.
HandleMessage(s) ==
    /\ queue[s] # <<>>
    /\ left_light' = [left_light EXCEPT ![s] = Colour[Head(queue[s])]]
    /\ queue' = [queue EXCEPT ![s] = Tail(@)]
    /\ UNCHANGED <<net, screens, polls, blink, check>>

-----------------------------------------------------------------------------
\* combined_mode.py stores a signal (external).
Signal ==
    /\ light.number < MaxChanges
    /\ light' \in [value : Signals, number : {light.number + 1}]
    /\ UNCHANGED <<errors, screens, polls, views>>

-----------------------------------------------------------------------------
Poll(t) == Get(t) \/ Store(t) \/ Fail(t)

Next ==
    \/ Signal
    \/ Open
    \/ \E t \in Threads : Poll(t)
    \/ \E s \in Screens : Blink(s) \/ HandleMessage(s)

\* Android runs every thread, the UI thread included; a request that breaks
\* ends in an exception.
Fairness ==
    /\ \A t \in Threads : WF_vars(Poll(t))
    /\ \A s \in Screens : WF_vars(Blink(s)) /\ WF_vars(HandleMessage(s))

Spec     == Init /\ [][Next]_vars
FairSpec == Spec /\ Fairness

-----------------------------------------------------------------------------
(* Properties. *)

\* Exceptions replace pollers and never add one: however long the network is
\* away, as many run as there were activities.
OnePollerEach == Cardinality({t \in Threads : poller[t] # "unused"}) = screens

\* While there has been one activity, left_check never goes back to an older
\* signal, however often its poller is replaced after exceptions.
NeverBackwards ==
    [][screens' = 1 => left_check'.number >= left_check.number]_vars

\* A view never changes from yellow to red or back at once: even when the
\* signal changes during a blink, the blink ends white.
WhiteBetween ==
    [][\A s \in Screens :
          left_light'[s] # left_light[s] => "white" \in {left_light[s], left_light'[s]}]_vars

\* When the signal stays off, the view of every activity ends white, even if
\* pollers of several activities stored what they read in another order.
EndsWhite ==
    \A s \in Screens :
        <>[](light.value = "0" /\ screens >= s) => <>[](left_light[s] = "white")

\* When a signal stays on, the view of every activity blinks for ever in its
\* colour and no longer in the other one, whatever exceptions there were.
BlinksOn ==
    \A s \in Screens, v \in {"1", "2"} :
        <>[](light.value = v /\ screens >= s)
            => /\ []<>(left_light[s] = Colour[v])
               /\ <>[](left_light[s] \in {"white", Colour[v]})
=============================================================================
