---------------------------- MODULE CombinedMode ----------------------------
(***************************************************************************)
(* The turn signals with collision warning, procecces/combined_mode.py:    *)
(* two threads, left_light and right_light, each with a switch, an         *)
(* ultrasonic sensor and a lamp of its own.  They share the rear lamp      *)
(* (GPIO 17), the buzzer (GPIO 26) and the socket to the gateway, and      *)
(* nothing keeps their blinks apart.                                       *)
(*                                                                         *)
(* A step is one group of GPIO writes or reads of a thread.  The gateway    *)
(* may end; sendall() then loses the value or raises, which ends the       *)
(* thread wherever it is.                                                  *)
(***************************************************************************)
EXTENDS Naturals

CONSTANTS
    Sides,       \* the threads
    MaxDrops,    \* bound: uploads lost without a word
    MaxMissed    \* bound: echoes over before the thread looks, or never coming

ASSUME LightAssumption == MaxDrops \in Nat /\ MaxMissed \in Nat

VARIABLES
    switch,      \* the rider signals to this side (gpio.input = 0)
    pc,          \* control point of each thread
    distance,    \* "unbound", or nearer than 20 cm or not
    t_data,      \* tl_data, tr_data: what was sent last
    db,          \* left_light, right_light stored at the server
    lamp,        \* GPIO 20, 21
    rear,        \* GPIO 17
    buzzer,      \* GPIO 26
    connected,   \* the gateway is there; the socket is never connected again
    \* History and bounds:
    silenced,    \* the other side ended a blink during this side's warning
    drops, missed

pins == <<lamp, rear, buzzer>>
vars == <<switch, pc, distance, t_data, db, pins, connected, silenced, drops, missed>>

Init ==
    /\ switch \in [Sides -> BOOLEAN]
    /\ pc = [s \in Sides |-> "top"]
    /\ distance = [s \in Sides |-> "unbound"]
    /\ t_data = [s \in Sides |-> "none"]
    /\ db = [s \in Sides |-> "none"]
    /\ lamp = [s \in Sides |-> FALSE]
    /\ rear = FALSE
    /\ buzzer = FALSE
    /\ connected = TRUE
    /\ silenced = [s \in Sides |-> FALSE]
    /\ drops = 0
    /\ missed = 0

GoTo(s, label) == pc' = [pc EXCEPT ![s] = label]

\* if t_data != value: transfer.sendall(...), t_data = value.  The gateway
\* stores the value, or it is lost without a word: the gateway is not in its
\* uploading stage, or it is gone and the system still took the bytes.
Upload(s, value) ==
    \/ /\ t_data[s] = value
       /\ UNCHANGED <<t_data, db, drops>>
    \/ /\ t_data[s] # value
       /\ t_data' = [t_data EXCEPT ![s] = value]
       /\ \/ connected /\ db' = [db EXCEPT ![s] = value] /\ UNCHANGED drops
          \/ drops < MaxDrops /\ drops' = drops + 1 /\ UNCHANGED db

\* Without a gateway sendall() raises sooner or later, and nothing catches it.
UploadRaises(s, value) ==
    /\ ~connected
    /\ t_data[s] # value
    /\ UNCHANGED <<t_data, db, drops>>

-----------------------------------------------------------------------------
\* Mutant: switching off is not reported.
ReportsOnlySignals(s) ==
    /\ pc[s] = "top"
    /\ switch[s] /\ GoTo(s, "measure")
    /\ UNCHANGED <<switch, distance, t_data, db, pins, connected, silenced, drops, missed>>

Top(s) ==
    /\ pc[s] = "top"
    /\ \/ switch[s] /\ GoTo(s, "measure") /\ UNCHANGED <<t_data, db, drops>>
       \/ ~switch[s] /\ Upload(s, "0") /\ UNCHANGED pc
       \/ ~switch[s] /\ UploadRaises(s, "0") /\ GoTo(s, "dead")
    /\ UNCHANGED <<switch, distance, pins, connected, silenced, missed>>

\* The echo is timed; or it was over before the second while loop looked, and
\* the distance is that of an earlier round.  (An echo that began before the
\* first loop looked gives some distance, or ends a thread that has none.)
Measure(s) ==
    /\ pc[s] = "measure"
    /\ GoTo(s, "judge")
    /\ \/ \E d \in {"near", "far"} : distance' = [distance EXCEPT ![s] = d]
          /\ UNCHANGED missed
       \/ missed < MaxMissed /\ missed' = missed + 1 /\ UNCHANGED distance
    /\ UNCHANGED <<switch, t_data, db, pins, connected, silenced, drops>>

\* No echo: the first while loop has no other way out.
Hang(s) ==
    /\ pc[s] = "measure"
    /\ missed < MaxMissed
    /\ missed' = missed + 1
    /\ GoTo(s, "hung")
    /\ UNCHANGED <<switch, distance, t_data, db, pins, connected, silenced, drops>>

\* Mutant: the buzzer is for warnings the server does not know yet.
BuzzesOnce(s) ==
    /\ pc[s] = "judge"
    /\ \/ distance[s] = "unbound" /\ GoTo(s, "dead") /\ UNCHANGED <<buzzer, silenced>>
       \/ /\ distance[s] = "near"
          /\ buzzer' = (buzzer \/ t_data[s] # "2")
          /\ silenced' = [silenced EXCEPT ![s] = FALSE]
          /\ GoTo(s, "tell")
       \/ distance[s] = "far" /\ GoTo(s, "tell") /\ UNCHANGED <<buzzer, silenced>>
    /\ UNCHANGED <<switch, distance, t_data, db, lamp, rear, connected, drops, missed>>

\* Mutant: a distance never measured is a near one.
NeverDies(s) ==
    /\ pc[s] = "judge"
    /\ buzzer' = (buzzer \/ distance[s] # "far")
    /\ silenced' = [silenced EXCEPT ![s] = FALSE]
    /\ GoTo(s, "tell")
    /\ UNCHANGED <<switch, distance, t_data, db, lamp, rear, connected, drops, missed>>

\* A distance never measured raises UnboundLocalError and ends the thread; a
\* near one turns the buzzer on.
Judge(s) ==
    /\ pc[s] = "judge"
    /\ \/ distance[s] = "unbound" /\ GoTo(s, "dead") /\ UNCHANGED <<buzzer, silenced>>
       \/ /\ distance[s] = "near"
          /\ buzzer' = TRUE
          /\ silenced' = [silenced EXCEPT ![s] = FALSE]
          /\ GoTo(s, "tell")
       \/ distance[s] = "far" /\ GoTo(s, "tell") /\ UNCHANGED <<buzzer, silenced>>
    /\ UNCHANGED <<switch, distance, t_data, db, lamp, rear, connected, drops, missed>>

\* A thread that ends here leaves the buzzer as it is.
Tell(s) ==
    /\ pc[s] = "tell"
    /\ LET value == IF distance[s] = "near" THEN "2" ELSE "1" IN
          \/ Upload(s, value) /\ GoTo(s, "on")
          \/ UploadRaises(s, value) /\ GoTo(s, "cut")
    /\ UNCHANGED <<switch, distance, pins, connected, silenced, missed>>

LampsOn(s) ==
    /\ pc[s] = "on"
    /\ GoTo(s, "off")
    /\ lamp' = [lamp EXCEPT ![s] = TRUE]
    /\ rear' = TRUE
    /\ UNCHANGED <<switch, distance, t_data, db, buzzer, connected, silenced, drops, missed>>

LampsOff(s) ==
    /\ pc[s] = "off"
    /\ GoTo(s, "hush")
    /\ lamp' = [lamp EXCEPT ![s] = FALSE]
    /\ rear' = FALSE
    /\ UNCHANGED <<switch, distance, t_data, db, buzzer, connected, silenced, drops, missed>>

\* The buzzer is turned off whoever turned it on.
Hush(s) ==
    /\ pc[s] = "hush"
    /\ GoTo(s, "top")
    /\ buzzer' = FALSE
    /\ silenced' = [o \in Sides |-> silenced[o] \/ o # s]
    /\ UNCHANGED <<switch, distance, t_data, db, lamp, rear, connected, drops, missed>>

\* The rider signals, or stops.
Switch(s) ==
    /\ switch' = [switch EXCEPT ![s] = ~@]
    /\ UNCHANGED <<pc, distance, t_data, db, pins, connected, silenced, drops, missed>>

\* The gateway ends, as it does on an error nothing catches, and closes its
\* sockets.
GatewayEnds ==
    /\ connected
    /\ connected' = FALSE
    /\ UNCHANGED <<switch, pc, distance, t_data, db, pins, silenced, drops, missed>>

-----------------------------------------------------------------------------
Step(s) == \/ Top(s) \/ Measure(s) \/ Judge(s) \/ Tell(s)
           \/ LampsOn(s) \/ LampsOff(s) \/ Hush(s)

Next == GatewayEnds \/ \E s \in Sides : Step(s) \/ Hang(s) \/ Switch(s)

\* The interpreter runs both threads.
Fairness == \A s \in Sides : WF_vars(Step(s))

Spec     == Init /\ [][Next]_vars
FairSpec == Spec /\ Fairness

-----------------------------------------------------------------------------
(* Properties. *)

\* Every variable has its type.
TypeOK ==
    /\ switch \in [Sides -> BOOLEAN]
    /\ pc \in [Sides -> {"top", "measure", "judge", "tell", "on", "off", "hush",
                         "hung", "dead", "cut"}]
    /\ distance \in [Sides -> {"unbound", "near", "far"}]
    /\ t_data \in [Sides -> {"none", "0", "1", "2"}]
    /\ db \in [Sides -> {"none", "0", "1", "2"}]
    /\ lamp \in [Sides -> BOOLEAN]
    /\ rear \in BOOLEAN
    /\ buzzer \in BOOLEAN
    /\ connected \in BOOLEAN
    /\ silenced \in [Sides -> BOOLEAN]
    /\ drops \in 0 .. MaxDrops
    /\ missed \in 0 .. MaxMissed

Lit(s)     == pc[s] = "off"
Warning(s) == distance[s] = "near" /\ pc[s] \in {"tell", "on", "off", "hush"}

\* The thread ended between turning the buzzer on and off, and nobody has turned
\* it off since.
Orphaned(s) == pc[s] = "cut" /\ distance[s] = "near" /\ ~silenced[s]

\* However the blinks of the two sides overlap, and even when a thread hangs or
\* never measures a distance, the buzzer and the rear lamp are not left on: some
\* thread is going to turn them off.  The one exception is a thread that ends
\* while it sends its warning to a gateway that is gone, for which the buzzer
\* stays on until the other side ends a blink, if it ever does.
NothingLeftOn ==
    /\ buzzer => \E s \in Sides : Warning(s) \/ (~connected /\ Orphaned(s))
    /\ rear => \E s \in Sides : Lit(s)

\* During a warning the buzzer is on until the warning ends or the other side
\* ends a blink of its own, near or not: the one way a warning is cut short.
WarnsUnlessSilenced == \A s \in Sides : Warning(s) /\ ~silenced[s] => buzzer

\* When the rider stops signalling, the server learns it for good, if the
\* thread is still alive, no upload was lost and the gateway is there: a lost one
\* is not repeated.
SignalOffReported ==
    \A s \in Sides :
        <>[](~switch[s] /\ pc[s] \notin {"hung", "dead", "cut"})
            => <>(drops > 0 \/ ~connected) \/ <>[](db[s] = "0")
=============================================================================
