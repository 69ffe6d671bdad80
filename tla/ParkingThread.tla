--------------------------- MODULE ParkingThread ---------------------------
(***************************************************************************)
(* The bicycle's parking guard, procecces/parking_thread.py: three threads *)
(* sharing the globals info, stop_check and transferred_info.              *)
(*   ModeCheck        copies parking_mode from the gateway's socket        *)
(*   BeaconCondition  reports "nobeacon" when the RSSI stops changing and  *)
(*                    "deactivate" when parking mode is not 1              *)
(*   BeaconFinder     measures the distance of two beacons and reports     *)
(*                    "safe" or "stolen"                                   *)
(* A step of a thread is one read or write of a shared variable, or one    *)
(* write to a socket, with the local work that follows it.  The sleeps are *)
(* left out: a thread may wait any time between two steps.                 *)
(* The gateway may end; its sockets are never connected again, and         *)
(* sendall() then loses the report or raises, which ends the thread.       *)
(***************************************************************************)
EXTENDS Integers, Sequences

CONSTANTS
    Rssi,         \* values blescan reports as signal strength
    Distances,    \* distances measured for a beacon that was heard, in 0.1 m
    MaxCommands,  \* bound: changes of parking_mode at the server
    MaxDrops      \* bound: uploads lost without a word

Far     == 1000    \* 100.0 m: stands for a beacon not heard, and marks the farther
                   \* one, though a beacon 40 dB under its TX power is as far
NoRssi  == "none"  \* l_check = "", and stop_check before the first advertisement
NoInfo  == -1      \* info = "" before the first message
NoText  == -2      \* the text of an error where int() expects a number
Created == 2001    \* the gateway's acknowledgement of an upload

\* A power of ten is positive; it may be 100 m, or more.
ASSUME ParkingAssumption ==
    /\ NoRssi \notin Rssi
    /\ Distances \subseteq Nat \ {0}
    /\ MaxCommands \in Nat
    /\ MaxDrops \in Nat

VARIABLES
    info,              \* parking mode as the threads see it
    stop_check,        \* RSSI of the last advertisement heard
    transferred_info,  \* last report, as the threads remember it
    pc,                \* control point of each reporting thread
    word,              \* the report each of them is working on
    mode_check,        \* ModeCheck is alive
    l_check, count,    \* BeaconCondition: last RSSI, comparisons without a change
    f_distance,        \* BeaconFinder: f1_distance and f2_distance, the baseline,
    count_1,           \*   whether this session has one,
    lost,              \*   beacon_1_lost and beacon_2_lost, the strikes,
    location_data,     \*   and the location last uploaded
    \* The environment:
    socket,            \* written by the gateway to socket s, not yet received
    mode,              \* parking_mode at the server
    ack_due,           \* the answer to the empty parking_mode upload is due
    db_state,          \* last parking_state stored at the server
    in_range,          \* some beacon of the bicycle is heard
    connected,         \* the gateway that s and s_1 are connected to is there
    \* Bounds and history, read by no guard of the code:
    commands, drops,
    nearest,           \* the beacon nearer when the baseline was taken, 0 if none
                       \*   was nearer than 100 m
    strikes,           \* rounds of a beacon off its baseline since one on it
    collided           \* a report was begun while the other thread was sending

receiver  == <<info, mode_check, socket>>
condition == <<stop_check, l_check, count>>
baseline  == <<f_distance, count_1, nearest>>
finder    == <<baseline, lost, strikes, location_data>>
reports   == <<word, transferred_info, db_state, drops, collided>>
world     == <<mode, ack_due, in_range, connected, commands>>
vars      == <<pc, receiver, condition, finder, reports, world>>

Condition == "BeaconCondition"
Finder    == "BeaconFinder"
Reporters == {Condition, Finder}

Beacons == {39, 234}                    \* by major number
Tolerance(b) == IF b = 39 THEN 3 ELSE 5 \* 0.3 m and 0.5 m

\* The beacon a baseline singles out.
Watched(f) == IF f[234] = Far THEN 39 ELSE 234

Init ==
    /\ info = NoInfo
    /\ stop_check = NoRssi
    /\ transferred_info = "none"
    /\ pc = [t \in Reporters |-> IF t = Condition THEN "start" ELSE "top"]
    /\ word = [t \in Reporters |-> "none"]
    /\ mode_check = TRUE
    /\ l_check = NoRssi
    /\ count = 0
    /\ f_distance = [b \in Beacons |-> 0]
    /\ count_1 = 0
    /\ nearest = 0
    /\ lost = [b \in Beacons |-> 0]
    /\ location_data = -1
    /\ socket = <<>>
    /\ mode = 0
    /\ ack_due = TRUE
    /\ db_state = "none"
    /\ in_range = TRUE
    /\ connected = TRUE
    /\ commands = 0
    /\ drops = 0
    /\ strikes = [b \in Beacons |-> 0]
    /\ collided = FALSE

GoTo(t, label) == pc' = [pc EXCEPT ![t] = label]

-----------------------------------------------------------------------------
(* ModeCheck. *)

\* s.recv(1024) returns whatever has arrived, one message or several run
\* together, or the empty string once the gateway is gone; int() takes a single
\* number and kills the thread otherwise.
Receive ==
    /\ mode_check
    /\ \/ \E n \in 1 .. Len(socket) :
             /\ socket' = SubSeq(socket, n + 1, Len(socket))
             /\ \/ /\ n = 1
                   /\ Head(socket) # NoText
                   /\ info' = Head(socket)
                   /\ UNCHANGED mode_check
                \/ /\ n > 1 \/ Head(socket) = NoText
                   /\ mode_check' = FALSE
                   /\ UNCHANGED info
       \/ /\ ~connected
          /\ mode_check' = FALSE
          /\ socket' = <<>>
          /\ UNCHANGED info
    /\ UNCHANGED <<pc, condition, finder, reports, world>>

-----------------------------------------------------------------------------
(* Reporting, as both threads do it: if transferred_info is another word,    *)
(* s_1.sendall the word, then transferred_info = word.                       *)

Report(t, w) ==
    /\ word' = [word EXCEPT ![t] = w]
    /\ GoTo(t, "check")

\* Where a thread continues after its report.
Reported(t) ==
    /\ GoTo(t, IF word[t] = "stolen" THEN "siren"
               ELSE IF word[t] = "safe" THEN "locate"
               ELSE IF word[t] = "nobeacon" THEN "remember" ELSE "top")
    /\ word' = [word EXCEPT ![t] = "none"]

Sending(t) == pc[t] \in {"send", "mark"}

Check(t) ==
    /\ pc[t] = "check"
    /\ \/ /\ transferred_info # word[t]
          /\ GoTo(t, "send")
          /\ collided' = (collided \/ \E u \in Reporters : Sending(u))
          /\ UNCHANGED word
       \/ /\ transferred_info = word[t]
          /\ Reported(t)
          /\ UNCHANGED collided
    /\ UNCHANGED <<transferred_info, db_state, drops, receiver, condition, finder, world>>

\* sendall() raises: nothing catches it, and the thread is gone.
Ended(t) ==
    /\ GoTo(t, "ended")
    /\ word' = [word EXCEPT ![t] = "none"]

\* The gateway stores the value, or it is lost without a word: the gateway is not
\* in its uploading stage, or it is gone and the system still took the bytes.
\* Without a gateway sendall() raises sooner or later.
Send(t) ==
    /\ pc[t] = "send"
    /\ \/ connected /\ GoTo(t, "mark") /\ db_state' = word[t] /\ UNCHANGED <<word, drops>>
       \/ /\ drops < MaxDrops
          /\ drops' = drops + 1
          /\ GoTo(t, "mark")
          /\ UNCHANGED <<word, db_state>>
       \/ ~connected /\ Ended(t) /\ UNCHANGED <<db_state, drops>>
    /\ UNCHANGED <<transferred_info, collided, receiver, condition, finder, world>>

\* Mutant: the finder does not remember what it reported.
ForgetsReport(t) ==
    /\ pc[t] = "mark"
    /\ transferred_info' = IF t = Finder THEN transferred_info ELSE word[t]
    /\ Reported(t)
    /\ UNCHANGED <<db_state, drops, collided, receiver, condition, finder, world>>

Mark(t) ==
    /\ pc[t] = "mark"
    /\ transferred_info' = word[t]
    /\ Reported(t)
    /\ UNCHANGED <<db_state, drops, collided, receiver, condition, finder, world>>

-----------------------------------------------------------------------------
(* BeaconCondition. *)

\* Its first statement wipes stop_check, which BeaconFinder may have set.
ConditionStart ==
    /\ pc[Condition] = "start"
    /\ stop_check' = l_check
    /\ GoTo(Condition, "top")
    /\ UNCHANGED <<l_check, count, receiver, finder, reports, world>>

\* Mutant: only an explicit 0 deactivates.
OnlyZeroDeactivates ==
    /\ pc[Condition] = "top"
    /\ \/ info = 1 /\ GoTo(Condition, "compare") /\ UNCHANGED word
       \/ info = 0 /\ Report(Condition, "deactivate")
    /\ UNCHANGED <<transferred_info, db_state, drops, collided,
                   receiver, condition, finder, world>>

ConditionTop ==
    /\ pc[Condition] = "top"
    /\ \/ info = 1 /\ GoTo(Condition, "compare") /\ UNCHANGED word
       \/ info # 1 /\ Report(Condition, "deactivate")
    /\ UNCHANGED <<transferred_info, db_state, drops, collided,
                   receiver, condition, finder, world>>

\* The count of comparisons without a change, of which only "at least 3" is
\* ever asked.
Unchanged == IF stop_check # l_check THEN 0 ELSE IF count < 3 THEN count + 1 ELSE 3

Compare ==
    /\ pc[Condition] = "compare"
    /\ count' = Unchanged
    /\ \/ Unchanged >= 3 /\ Report(Condition, "nobeacon")
       \/ Unchanged < 3 /\ GoTo(Condition, "remember") /\ UNCHANGED word
    /\ UNCHANGED <<stop_check, l_check, transferred_info, db_state, drops, collided,
                   receiver, finder, world>>

\* Mutant: a value that is new is not remembered.
RemembersOnlyRepeats ==
    /\ pc[Condition] = "remember"
    /\ l_check' = IF count = 0 THEN l_check ELSE stop_check
    /\ GoTo(Condition, "top")
    /\ UNCHANGED <<stop_check, count, receiver, finder, reports, world>>

\* Reads stop_check a second time: a value that came after the comparison is
\* remembered without having been compared.
Remember ==
    /\ pc[Condition] = "remember"
    /\ l_check' = stop_check
    /\ GoTo(Condition, "top")
    /\ UNCHANGED <<stop_check, count, receiver, finder, reports, world>>

-----------------------------------------------------------------------------
(* BeaconFinder. *)

FinderTop ==
    /\ pc[Finder] = "top"
    /\ GoTo(Finder, IF info = 1 THEN "scan" ELSE "off")
    /\ UNCHANGED <<receiver, condition, finder, reports, world>>

\* Mutant: the choice of the beacon survives the session.
KeepsChoice ==
    /\ pc[Finder] = "off"
    /\ f_distance' = [b \in Beacons |-> 0]
    /\ GoTo(Finder, "top")
    /\ UNCHANGED <<count_1, nearest, lost, strikes, location_data, receiver, condition, reports, world>>

\* Not in parking mode: the baseline is forgotten, the strikes are not.
FinderOff ==
    /\ pc[Finder] = "off"
    /\ f_distance' = [b \in Beacons |-> 0]
    /\ count_1' = 0
    /\ nearest' = 0
    /\ GoTo(Finder, "top")
    /\ UNCHANGED <<lost, strikes, location_data, receiver, condition, reports, world>>

\* One advertisement of a beacon of the bicycle; the tenth of one beacon ends
\* the scan.
Hear(next) ==
    /\ pc[Finder] = "scan"
    /\ in_range
    /\ stop_check' \in Rssi
    /\ GoTo(Finder, next)
    /\ UNCHANGED <<l_check, count, receiver, finder, reports, world>>

HearOne  == Hear("scan")
HearLast == Hear("judge")

\* What a scan gives: one of the beacons may not have been heard.
Samples == {d \in [Beacons -> Distances \cup {Far}] : \E b \in Beacons : d[b] \in Distances}

\* The first round of a session marks the farther beacon.
Marked(d) ==
    IF count_1 = 0
    THEN [f_distance EXCEPT ![IF d[39] < d[234] THEN 234 ELSE 39] = Far]
    ELSE f_distance

\* Kept for OneBeaconWatched.
Nearest(d) ==
    IF count_1 # 0 THEN nearest
    ELSE IF \A b \in Beacons : d[b] >= Far THEN 0
    ELSE IF d[39] < d[234] THEN 39 ELSE 234

OffBaseline(d, b) ==
    \/ d[b] - f_distance[b] > Tolerance(b)
    \/ f_distance[b] - d[b] > Tolerance(b)

\* The watched beacon has no distance yet: this one is its baseline.
Baseline(d, b) ==
    /\ f_distance[b] = 0
    /\ f_distance' = [Marked(d) EXCEPT ![b] = d[b]]
    /\ Report(Finder, "safe")
    /\ UNCHANGED <<lost, strikes>>

\* Mutant: the baseline follows the bicycle.
FollowsBicycle(d, b) ==
    /\ f_distance[b] # 0
    /\ ~OffBaseline(d, b)
    /\ lost' = [lost EXCEPT ![b] = 0]
    /\ strikes' = [strikes EXCEPT ![b] = 0]
    /\ f_distance' = [Marked(d) EXCEPT ![b] = d[b]]
    /\ Report(Finder, "safe")

InPlace(d, b) ==
    /\ f_distance[b] # 0
    /\ ~OffBaseline(d, b)
    /\ lost' = [lost EXCEPT ![b] = 0]
    /\ strikes' = [strikes EXCEPT ![b] = 0]
    /\ f_distance' = Marked(d)
    /\ Report(Finder, "safe")

\* Mutant: the second round off the baseline is a theft.
TwoStrikes(d, b) ==
    /\ f_distance[b] # 0
    /\ OffBaseline(d, b)
    /\ strikes' = [strikes EXCEPT ![b] = IF @ < 3 THEN @ + 1 ELSE 3]
    /\ f_distance' = Marked(d)
    /\ \/ lost[b] > 0 /\ Report(Finder, "stolen") /\ UNCHANGED lost
       \/ /\ lost[b] <= 0
          /\ lost' = [lost EXCEPT ![b] = @ + 1]
          /\ GoTo(Finder, "locate")
          /\ UNCHANGED word

\* Mutant: the third round off the baseline starts the count over.
TheftStartsOver(d, b) ==
    /\ f_distance[b] # 0
    /\ OffBaseline(d, b)
    /\ strikes' = [strikes EXCEPT ![b] = IF @ < 3 THEN @ + 1 ELSE 3]
    /\ f_distance' = Marked(d)
    /\ lost' = [lost EXCEPT ![b] = IF @ > 1 THEN 0 ELSE @ + 1]
    /\ GoTo(Finder, "locate")
    /\ UNCHANGED word

\* Two rounds off the baseline are only counted; the next is a theft.
Moved(d, b) ==
    /\ f_distance[b] # 0
    /\ OffBaseline(d, b)
    /\ strikes' = [strikes EXCEPT ![b] = IF @ < 3 THEN @ + 1 ELSE 3]
    /\ f_distance' = Marked(d)
    /\ \/ lost[b] > 1 /\ Report(Finder, "stolen") /\ UNCHANGED lost
       \/ /\ lost[b] <= 1
          /\ lost' = [lost EXCEPT ![b] = @ + 1]
          /\ GoTo(Finder, "locate")
          /\ UNCHANGED word

Watch(d) ==
    LET b == Watched(Marked(d)) IN Baseline(d, b) \/ InPlace(d, b) \/ Moved(d, b)

\* Mutant: the scan is judged even if parking mode has been left.
JudgesAnyway ==
    /\ pc[Finder] = "judge"
    /\ count_1' = 1
    /\ \E d \in Samples : Watch(d) /\ nearest' = Nearest(d)
    /\ UNCHANGED <<location_data, transferred_info, db_state, drops, collided,
                   receiver, condition, world>>

\* The scan is thrown away if parking mode has been left meanwhile.
Judge ==
    /\ pc[Finder] = "judge"
    /\ \/ /\ info = 0
          /\ GoTo(Finder, "top")
          /\ UNCHANGED <<word, baseline, lost, strikes>>
       \/ /\ info # 0
          /\ count_1' = 1
          /\ \E d \in Samples : Watch(d) /\ nearest' = Nearest(d)
    /\ UNCHANGED <<location_data, transferred_info, db_state, drops, collided,
                   receiver, condition, world>>

\* The buzzer is on for 0.3 s.
Siren ==
    /\ pc[Finder] = "siren"
    /\ GoTo(Finder, "locate")
    /\ UNCHANGED <<receiver, condition, finder, reports, world>>

\* The watched beacon is the bicycle's location, uploaded when it changes; that
\* upload too may raise.
Locate ==
    /\ pc[Finder] = "locate"
    /\ \/ GoTo(Finder, "top") /\ location_data' = Watched(f_distance)
       \/ /\ ~connected /\ location_data # Watched(f_distance)
          /\ GoTo(Finder, "ended")
          /\ UNCHANGED location_data
    /\ UNCHANGED <<baseline, lost, strikes, receiver, condition, reports, world>>

-----------------------------------------------------------------------------
(* The gateway and the world around the bicycle. *)

\* The rider changes parking_mode; the gateway's send_tas forwards it.  What the
\* rider does when there is no gateway reaches nobody and is left out.
Command ==
    /\ connected
    /\ commands < MaxCommands
    /\ commands' = commands + 1
    /\ mode' \in {0, 1}
    /\ socket' = Append(socket, mode')
    /\ UNCHANGED <<pc, info, mode_check, ack_due, in_range, connected, condition, finder, reports>>

\* The answer to the upload of an empty parking_mode at start: a status code,
\* the text of a network error, or nothing at all.
Acknowledge ==
    /\ ack_due
    /\ ack_due' = FALSE
    /\ socket' \in {socket, Append(socket, Created), Append(socket, NoText)}
    /\ UNCHANGED <<pc, info, mode_check, mode, in_range, connected, commands, condition, finder, reports>>

\* The gateway ends (JSON.parse and listen() throw in it, uncaught) and closes
\* its sockets.  The guard connects only once, at its start.
GatewayEnds ==
    /\ connected
    /\ connected' = FALSE
    /\ ack_due' = FALSE
    /\ UNCHANGED <<pc, mode, in_range, commands, receiver, condition, finder, reports>>

\* The bicycle is carried out of the beacons' range, or comes back.
Carried ==
    /\ in_range' = ~in_range
    /\ UNCHANGED <<pc, mode, ack_due, connected, commands, receiver, condition, finder, reports>>

-----------------------------------------------------------------------------
ReportStep(t) == Check(t) \/ Send(t) \/ Mark(t)
ConditionStep == \/ ConditionStart \/ ConditionTop \/ Compare \/ Remember
                 \/ ReportStep(Condition)
FinderStep    == FinderTop \/ FinderOff \/ Judge \/ Siren \/ Locate \/ ReportStep(Finder)

Next == \/ Receive
        \/ ConditionStep
        \/ FinderStep
        \/ HearOne
        \/ HearLast
        \/ Command
        \/ Acknowledge
        \/ GatewayEnds
        \/ Carried

\* The interpreter runs every thread that can run, and a scan in range ends.
\* Nothing is promised of the rider, the gateway and the range.
Fairness ==
    /\ WF_vars(Receive)
    /\ WF_vars(ConditionStep)
    /\ WF_vars(FinderStep)
    /\ WF_vars(HearLast)

Spec     == Init /\ [][Next]_vars
FairSpec == Spec /\ Fairness

-----------------------------------------------------------------------------
(* Properties. *)

Words  == {"none", "safe", "stolen", "nobeacon", "deactivate"}
Labels == {"start", "top", "compare", "remember", "check", "send", "mark",
           "off", "scan", "judge", "siren", "locate", "ended"}

\* Every variable has its type.
TypeOK ==
    /\ info \in {NoInfo, 0, 1, Created}
    /\ stop_check \in Rssi \cup {NoRssi}
    /\ transferred_info \in Words
    /\ pc \in [Reporters -> Labels]
    /\ word \in [Reporters -> Words]
    /\ mode_check \in BOOLEAN
    /\ l_check \in Rssi \cup {NoRssi}
    /\ count \in 0 .. 3
    /\ f_distance \in [Beacons -> Distances \cup {0, Far}]
    /\ count_1 \in {0, 1}
    /\ nearest \in Beacons \cup {0}
    /\ lost \in [Beacons -> 0 .. 2]
    /\ location_data \in Beacons \cup {-1}
    /\ socket \in Seq({0, 1, Created, NoText})
    /\ mode \in {0, 1}
    /\ ack_due \in BOOLEAN
    /\ db_state \in Words
    /\ in_range \in BOOLEAN
    /\ connected \in BOOLEAN
    /\ commands \in 0 .. MaxCommands
    /\ drops \in 0 .. MaxDrops
    /\ strikes \in [Beacons -> 0 .. 3]
    /\ collided \in BOOLEAN

Quiet == \A t \in Reporters : ~Sending(t)

\* The comment at transferred_info: it is "information which is transferred
\* to database".  Two threads reporting at once break this without any upload
\* being lost.
CacheMirrorsDatabase == Quiet /\ drops = 0 => transferred_info = db_state

\* As long as the threads did not report at once, the remembered report is the
\* stored one, so that "not sent, because sent before" never hides a state
\* from the rider.
CacheRightIfAlone == ~collided => CacheMirrorsDatabase

\* "You have to check which beacon is closer": a session that has its baseline
\* watches the beacon that was nearer when it took it, with that beacon's
\* distance as the baseline and the mark of 100 m on the other, provided one was
\* nearer than 100 m; a session that has none starts from a clean slate.  When
\* neither was nearer, the mark meets a measurement (100 m also stands for "not
\* heard"), and the beacon that is watched may be the one that was not heard.
OneBeaconWatched ==
    IF count_1 = 0 THEN \A b \in Beacons : f_distance[b] = 0
    ELSE nearest # 0 => /\ Watched(f_distance) = nearest
                        /\ f_distance[nearest] \in Distances
                        /\ f_distance[nearest] < Far
                        /\ \A b \in Beacons \ {nearest} : f_distance[b] = Far

\* A baseline, once taken, stays until parking mode is left: moving the
\* bicycle in small steps does not drag it along.
BaselineKept ==
    [][count_1 = 1 /\ count_1' = 1 => f_distance' = f_distance]_vars

\* The buzzer sounds, and "stolen" is sent, only after three rounds off the
\* baseline with none on it between them (the three may be of two sessions).
TheftNeedsThreeStrikes ==
    pc[Finder] = "siren" \/ word[Finder] = "stolen" => \E b \in Beacons : strikes[b] >= 3

\* A bicycle that stays off its baseline keeps sounding the buzzer, whatever
\* the other thread reports, unless the gateway is gone and the finder ended
\* while it sent a report: "stolen" is sent before the buzzer is turned on.
AlarmSounds ==
    <>[](info = 1 /\ in_range /\ count_1 = 1 /\ strikes[Watched(f_distance)] > 0)
        => <>(~connected /\ pc[Finder] = "ended") \/ []<>(pc[Finder] = "siren")

\* Two threads reported at once, or an upload did not reach the server.
Unreliable == collided \/ drops > 0 \/ ~connected

\* When the beacons stay out of range in parking mode, the rider is told so
\* for good, unless the two threads reported at once, an upload was lost or the
\* gateway ended.
BeaconLossReported ==
    <>[](info = 1 /\ ~in_range) => <>Unreliable \/ <>[](db_state = "nobeacon")

\* When parking mode stays off, or is anything but 1, the last word is
\* "deactivate", though the finder may still have a report in hand; with the
\* same exceptions.
DeactivationReported ==
    <>[](info # 1) => <>Unreliable \/ <>[](db_state = "deactivate")

\* The report a thread is about to send.
InHand == [t \in Reporters |-> IF pc[t] \in {"check", "send"} THEN word[t] ELSE "none"]

\* The threads that read parking mode 1 and have not decided on it yet.
Armed == {t \in Reporters : pc[t] \in {"compare", "scan", "judge"}}

\* The guard as the rest of the system knows it: whatever the three threads do
\* to each other, a report is begun only in a mode that calls for it, one at a
\* time by each thread, and what is stored is what was begun.
Bike == INSTANCE Bicycle WITH
            Messages <- {0, 1, Created, NoText},
            armed    <- Armed,
            report   <- InHand

ImplementsBicycle == Bike!Spec

\* The comment above ModeCheck: "Update the information of parking_mode in
\* real time."  A mode that stays reaches the threads, as long as there is a
\* gateway to hear it from.
RealTimeMode ==
    \A v \in {0, 1} : <>[](connected /\ commands > 0 /\ mode = v) => <>[](info = v)
=============================================================================
