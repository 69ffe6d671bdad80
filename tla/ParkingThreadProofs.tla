------------------------ MODULE ParkingThreadProofs ------------------------
(***************************************************************************)
(* What ParkingThread guarantees for every set of RSSI values and          *)
(* distances and any number of commands and dropped uploads.               *)
(***************************************************************************)
EXTENDS ParkingThread, SequenceTheorems, TLAPS

\* A report is in hand only between the decision to make it and the end of it.
WordInv ==
    \A t \in Reporters : word[t] # "none" => pc[t] \in {"check", "send", "mark"}

\* While the threads take turns, the one that has sent its report and not yet
\* stored it is the only one whose word the other cannot know.
TurnInv ==
    ~collided =>
        /\ ~ (Sending(Condition) /\ Sending(Finder))
        /\ drops = 0 => /\ \A t \in Reporters : pc[t] = "mark" => db_state = word[t]
                        /\ (\A t \in Reporters : pc[t] # "mark") => transferred_info = db_state

\* The strikes the code keeps never run ahead of those that happened.
StrikeInv ==
    /\ \A b \in Beacons : lost[b] <= strikes[b]
    /\ TheftNeedsThreeStrikes

\* A session that has its baseline has a distance, or the mark, for each beacon.
BaselineSet == count_1 = 1 => \A b \in Beacons : f_distance[b] # 0

\* The inductive invariant.
IInv ==
    /\ TypeOK
    /\ WordInv
    /\ TurnInv
    /\ StrikeInv
    /\ OneBeaconWatched
    /\ BaselineSet

-----------------------------------------------------------------------------
\* The steps of Next, each reporting thread's by name.
LEMMA Steps ==
    ASSUME [Next]_vars
    PROVE  \/ Receive \/ ConditionStart \/ ConditionTop \/ Compare \/ Remember
           \/ \E t \in Reporters : Check(t) \/ Send(t) \/ Mark(t)
           \/ FinderTop \/ FinderOff \/ Judge \/ Siren \/ Locate
           \/ \E next \in {"scan", "judge"} : Hear(next)
           \/ Command \/ Acknowledge \/ GatewayEnds \/ Carried
           \/ UNCHANGED vars
BY DEF Next, ConditionStep, FinderStep, ReportStep, HearOne, HearLast,
       Reporters, Condition, Finder

\* A message queue without its first messages is one, and its head a message.
LEMMA Queue ==
    ASSUME NEW S, NEW q \in Seq(S), NEW n \in 1 .. Len(q)
    PROVE  /\ SubSeq(q, n + 1, Len(q)) \in Seq(S)
           /\ Head(q) \in S
<1>1. Len(q) \in Nat /\ q # <<>> /\ \A i \in 1 .. Len(q) : q[i] \in S
  OBVIOUS
<1>2. SubSeq(q, n + 1, Len(q)) \in Seq(S)
  BY <1>1, SubSeqProperties
<1> QED
  BY <1>1, <1>2, HeadTailProperties

\* Judging a scan keeps the types of what it changes.
LEMMA WatchType ==
    ASSUME TypeOK, NEW d \in Samples, Watch(d)
    PROVE  /\ f_distance' \in [Beacons -> Distances \cup {0, Far}]
           /\ lost' \in [Beacons -> 0 .. 2]
           /\ strikes' \in [Beacons -> 0 .. 3]
           /\ word' \in [Reporters -> Words]
           /\ pc' = [pc EXCEPT ![Finder] = "check"] \/ pc' = [pc EXCEPT ![Finder] = "locate"]
<1> DEFINE b == Watched(Marked(d))
<1>1. b \in Beacons /\ d[b] \in Distances \cup {Far}
  BY DEF Watched, Beacons, Samples
<1>2. Marked(d) \in [Beacons -> Distances \cup {0, Far}]
  BY DEF Marked, TypeOK, Beacons
<1>3. CASE Baseline(d, b)
  BY <1>1, <1>2, <1>3 DEF Baseline, TypeOK, Report, GoTo, Words, Reporters, Finder
<1>4. CASE InPlace(d, b)
  BY <1>1, <1>2, <1>4 DEF InPlace, TypeOK, Report, GoTo, Words, Reporters, Finder
<1>5. CASE Moved(d, b)
  <2>1. /\ lost \in [Beacons -> 0 .. 2] /\ strikes \in [Beacons -> 0 .. 3]
        /\ word \in [Reporters -> Words] /\ "stolen" \in Words
    BY DEF TypeOK, Words
  <2>2. f_distance' \in [Beacons -> Distances \cup {0, Far}]
    BY <1>2, <1>5 DEF Moved
  <2>3. strikes' \in [Beacons -> 0 .. 3]
    BY <1>1, <1>5, <2>1 DEF Moved
  <2>4. CASE lost[b] > 1 /\ Report(Finder, "stolen") /\ UNCHANGED lost
    BY <2>1, <2>2, <2>3, <2>4 DEF Report, GoTo, Reporters
  <2>5. CASE lost[b] <= 1 /\ lost' = [lost EXCEPT ![b] = @ + 1] /\ GoTo(Finder, "locate") /\ UNCHANGED word
    BY <1>1, <2>1, <2>2, <2>3, <2>5 DEF GoTo
  <2> QED
    BY <1>5, <2>4, <2>5 DEF Moved
<1> QED
  BY <1>3, <1>4, <1>5 DEF Watch

\* Every step keeps the types.
LEMMA TypeStep ==
    ASSUME TypeOK, [Next]_vars
    PROVE  TypeOK'
<1> USE DEF receiver, condition, finder, baseline, reports, world, Labels, Reporters, Condition, Finder
<1>1. CASE Receive
  <2>0. CASE ~connected /\ mode_check' = FALSE /\ socket' = <<>> /\ UNCHANGED info
    <3>1. <<>> \in Seq({0, 1, Created, NoText})
      OBVIOUS
    <3> QED
      BY <1>1, <2>0, <3>1 DEF Receive, TypeOK
  <2>1. CASE ~(~connected /\ mode_check' = FALSE /\ socket' = <<>> /\ UNCHANGED info)
    <3>1. PICK n \in 1 .. Len(socket) :
              /\ socket' = SubSeq(socket, n + 1, Len(socket))
              /\ info' = info \/ (Head(socket) # NoText /\ info' = Head(socket))
              /\ mode_check' \in BOOLEAN
      BY <1>1, <2>1 DEF Receive, TypeOK
    <3>2. /\ SubSeq(socket, n + 1, Len(socket)) \in Seq({0, 1, Created, NoText})
          /\ Head(socket) \in {0, 1, Created, NoText}
      BY Queue DEF TypeOK
    <3> QED
      BY <1>1, <3>1, <3>2 DEF Receive, TypeOK
  <2> QED
    BY <2>0, <2>1
<1>2. CASE ConditionStart
  BY <1>2 DEF ConditionStart, TypeOK, GoTo
<1>3. CASE ConditionTop
  BY <1>3 DEF ConditionTop, TypeOK, Report, GoTo, Words
<1>4. CASE Compare
  <2>1. Unchanged \in 0 .. 3
    BY DEF Unchanged, TypeOK
  <2>2. /\ pc' = [pc EXCEPT ![Condition] = "check"] \/ pc' = [pc EXCEPT ![Condition] = "remember"]
        /\ word' = [word EXCEPT ![Condition] = "nobeacon"] \/ word' = word
    BY <1>4 DEF Compare, Report, GoTo
  <2>3. count' \in 0 .. 3
    BY <1>4, <2>1 DEF Compare
  <2> QED
    BY <1>4, <2>2, <2>3 DEF Compare, TypeOK, Words
<1>5. CASE Remember
  BY <1>5 DEF Remember, TypeOK, GoTo
<1>6. CASE FinderTop
  BY <1>6 DEF FinderTop, TypeOK, GoTo
<1>7. CASE FinderOff
  BY <1>7 DEF FinderOff, TypeOK, GoTo
<1>8. CASE Judge
  <2>1. CASE info = 0
    BY <1>8, <2>1 DEF Judge, TypeOK, GoTo
  <2>2. CASE info # 0
    <3>1. PICK d \in Samples : Watch(d) /\ nearest' = Nearest(d)
      BY <1>8, <2>2 DEF Judge
    <3>2. nearest' \in Beacons \cup {0}
      BY <3>1 DEF Nearest, Beacons, TypeOK
    <3> QED
      BY <1>8, <2>2, <3>1, <3>2, WatchType DEF Judge, TypeOK
  <2> QED
    BY <2>1, <2>2
<1>9. CASE Siren
  BY <1>9 DEF Siren, TypeOK, GoTo
<1>10. CASE Locate
  BY <1>10 DEF Locate, TypeOK, Watched, Beacons, GoTo
<1>11. CASE Command
  BY <1>11, ParkingAssumption DEF Command, TypeOK
<1>12. CASE Acknowledge
  <2>1. socket' \in Seq({0, 1, Created, NoText})
    <3>1. \A x \in {Created, NoText} : Append(socket, x) \in Seq({0, 1, Created, NoText})
      BY AppendProperties DEF TypeOK
    <3> QED
      BY <1>12, <3>1 DEF Acknowledge, TypeOK
  <2>2. ack_due' \in BOOLEAN /\ UNCHANGED <<pc, info, mode_check, mode, in_range, connected, commands>>
    BY <1>12 DEF Acknowledge
  <2>3. UNCHANGED <<condition, finder, reports>>
    BY <1>12 DEF Acknowledge
  <2> QED
    BY <2>1, <2>2, <2>3 DEF TypeOK
<1>13. CASE GatewayEnds \/ Carried
  BY <1>13 DEF GatewayEnds, Carried, TypeOK
<1>14. ASSUME NEW t \in Reporters, Check(t) PROVE TypeOK'
  <2>1. CASE transferred_info # word[t]
    <3>1. collided' \in BOOLEAN
      BY <1>14, <2>1 DEF Check, TypeOK
    <3>2. pc' = [pc EXCEPT ![t] = "send"] /\ word' = word
      BY <1>14, <2>1 DEF Check, GoTo
    <3> QED
      BY <1>14, <3>1, <3>2 DEF Check, TypeOK
  <2>2. CASE transferred_info = word[t]
    BY <1>14, <2>2 DEF Check, Reported, GoTo, TypeOK, Words
  <2> QED
    BY <2>1, <2>2
<1>15. ASSUME NEW t \in Reporters, Send(t) PROVE TypeOK'
  <2>1. drops' \in 0 .. MaxDrops
    BY <1>15, ParkingAssumption DEF Send, TypeOK
  <2>2. word' \in [Reporters -> Words] /\ db_state' \in Words /\ pc' \in [Reporters -> Labels]
    BY <1>15 DEF Send, Ended, GoTo, TypeOK, Words
  <2> QED
    BY <1>15, <2>1, <2>2 DEF Send, TypeOK
<1>16. ASSUME NEW t \in Reporters, Mark(t) PROVE TypeOK'
  BY <1>16 DEF Mark, Reported, GoTo, TypeOK, Words
<1>17. ASSUME NEW next \in {"scan", "judge"}, Hear(next) PROVE TypeOK'
  BY <1>17 DEF Hear, GoTo, TypeOK
<1>18. CASE UNCHANGED vars
  BY <1>18 DEF vars, TypeOK
<1> QED
  BY <1>1, <1>2, <1>3, <1>4, <1>5, <1>6, <1>7, <1>8, <1>9, <1>10, <1>11, <1>12, <1>13, <1>14, <1>15, <1>16, <1>17, <1>18, Steps

-----------------------------------------------------------------------------
\* Judging a scan reports a theft only of a beacon with three strikes.
LEMMA WatchStrikes ==
    ASSUME TypeOK, StrikeInv, word[Finder] = "none", NEW d \in Samples, Watch(d)
    PROVE  /\ \A b \in Beacons : lost'[b] <= strikes'[b]
           /\ word'[Finder] = "stolen" => \E b \in Beacons : strikes'[b] >= 3
           /\ word' = [word EXCEPT ![Finder] = word'[Finder]]
           /\ \/ pc' = [pc EXCEPT ![Finder] = "check"]
              \/ pc' = [pc EXCEPT ![Finder] = "locate"] /\ word' = word
<1> DEFINE b == Watched(Marked(d))
<1>1. b \in Beacons
  BY DEF Watched, Beacons
<1>2. /\ lost \in [Beacons -> 0 .. 2] /\ strikes \in [Beacons -> 0 .. 3]
      /\ word \in [Reporters -> Words] /\ Finder \in Reporters
      /\ \A a \in Beacons : lost[a] <= strikes[a]
  BY DEF TypeOK, StrikeInv, Reporters
<1> HIDE DEF b
<1>3. CASE Baseline(d, b)
  BY <1>2, <1>3 DEF Baseline, Report, GoTo
<1>4. CASE InPlace(d, b)
  BY <1>1, <1>2, <1>4 DEF InPlace, Report, GoTo
<1>5. CASE Moved(d, b)
  BY <1>1, <1>2, <1>5 DEF Moved, Report, GoTo
<1> QED
  BY <1>3, <1>4, <1>5 DEF Watch, b

\* Every step keeps WordInv and StrikeInv.
LEMMA StrikeStep ==
    ASSUME TypeOK, WordInv, StrikeInv, [Next]_vars
    PROVE  WordInv' /\ StrikeInv'
<1> USE DEF receiver, condition, finder, baseline, reports, world, Reporters, Condition, Finder
<1> USE DEF WordInv, StrikeInv, TheftNeedsThreeStrikes
<1>1. pc \in [Reporters -> Labels] /\ word \in [Reporters -> Words]
  BY DEF TypeOK
<1>2. CASE Receive
  BY <1>1, <1>2 DEF Receive
<1>3. CASE ConditionStart
  BY <1>1, <1>3 DEF ConditionStart, GoTo
<1>4. CASE ConditionTop
  BY <1>1, <1>4 DEF ConditionTop, Report, GoTo
<1>5. CASE Compare
  BY <1>1, <1>5 DEF Compare, Report, GoTo
<1>6. CASE Remember
  BY <1>1, <1>6 DEF Remember, GoTo
<1>7. CASE FinderTop
  BY <1>1, <1>7 DEF FinderTop, GoTo
<1>8. CASE FinderOff
  BY <1>1, <1>8 DEF FinderOff, GoTo
<1>9. CASE Siren
  BY <1>1, <1>9 DEF Siren, GoTo
<1>10. CASE Locate
  BY <1>1, <1>10 DEF Locate, GoTo
<1>11. CASE Command
  BY <1>1, <1>11 DEF Command
<1>12. CASE Acknowledge
  BY <1>1, <1>12 DEF Acknowledge
<1>13. CASE GatewayEnds \/ Carried
  BY <1>1, <1>13 DEF GatewayEnds, Carried
<1>14. CASE Judge
  <2>1. CASE info = 0
    BY <1>1, <1>14, <2>1 DEF Judge, GoTo
  <2>2. CASE info # 0
    <3>1. PICK d \in Samples : Watch(d)
      BY <1>14, <2>2 DEF Judge
    <3>2. word[Finder] = "none"
      BY <1>14 DEF Judge
    <3> QED
      BY <1>1, <3>1, <3>2, WatchStrikes
  <2> QED
    BY <2>1, <2>2
<1>15. ASSUME NEW t \in Reporters, Check(t) PROVE WordInv' /\ StrikeInv'
  BY <1>1, <1>15 DEF Check, Reported, GoTo
<1>16. ASSUME NEW t \in Reporters, Send(t) PROVE WordInv' /\ StrikeInv'
  BY <1>1, <1>16 DEF Send, Ended, GoTo
<1>17. ASSUME NEW t \in Reporters, Mark(t) PROVE WordInv' /\ StrikeInv'
  BY <1>1, <1>17 DEF Mark, Reported, GoTo
<1>18. ASSUME NEW next \in {"scan", "judge"}, Hear(next) PROVE WordInv' /\ StrikeInv'
  BY <1>1, <1>18 DEF Hear, GoTo
<1>19. CASE UNCHANGED vars
  BY <1>19 DEF vars
<1> QED
  BY <1>2, <1>3, <1>4, <1>5, <1>6, <1>7, <1>8, <1>9, <1>10, <1>11, <1>12, <1>13, <1>14, <1>15, <1>16, <1>17, <1>18, <1>19, Steps

-----------------------------------------------------------------------------
\* Judging a scan in a session that has its baseline leaves it as it is.
LEMMA WatchKeeps ==
    ASSUME TypeOK, BaselineSet, count_1 = 1, NEW d \in Samples, Watch(d)
    PROVE  f_distance' = f_distance
<1>1. Marked(d) = f_distance /\ f_distance[Watched(Marked(d))] # 0
  BY DEF Marked, BaselineSet, Watched, Beacons
<1> QED
  BY <1>1 DEF Watch, Baseline, InPlace, Moved

\* The first judgement of a session takes the baseline.
LEMMA WatchTakes ==
    ASSUME TypeOK, OneBeaconWatched, count_1 = 0, NEW d \in Samples, Watch(d),
           NEW a \in Beacons, a = (IF d[39] < d[234] THEN 234 ELSE 39),
           NEW b \in Beacons, b # a
    PROVE  f_distance' = [c \in Beacons |-> IF c = b THEN d[b] ELSE Far]
<1>1. f_distance = [c \in Beacons |-> 0] /\ Far # 0
  BY DEF TypeOK, OneBeaconWatched, Far
<1>2. Marked(d) = [c \in Beacons |-> IF c = a THEN Far ELSE 0]
  BY <1>1 DEF Marked, Beacons
<1>3. b = Watched(Marked(d))
  BY <1>1, <1>2 DEF Watched, Beacons
<1>4. f_distance' = [Marked(d) EXCEPT ![b] = d[b]]
  BY <1>1, <1>3 DEF Watch, Baseline, InPlace, Moved, Beacons
<1>5. \A c \in Beacons : c # b => c = a
  BY DEF Beacons
<1> HIDE DEF Far
<1> QED
  BY <1>2, <1>4, <1>5

\* Judging a scan takes the baseline of the nearer beacon.
LEMMA WatchBaseline ==
    ASSUME TypeOK, OneBeaconWatched, BaselineSet, NEW d \in Samples, Watch(d),
           nearest' = Nearest(d), count_1' = 1
    PROVE  OneBeaconWatched' /\ BaselineSet'
<1>1. CASE count_1 = 1
  <2>1. f_distance' = f_distance /\ nearest' = nearest
    BY <1>1, WatchKeeps DEF Nearest
  <2> QED
    BY <1>1, <2>1 DEF OneBeaconWatched, BaselineSet, Watched
<1>2. CASE count_1 = 0
  <2> DEFINE a == IF d[39] < d[234] THEN 234 ELSE 39
             b == IF a = 39 THEN 234 ELSE 39
  <2>1. /\ a \in Beacons /\ b \in Beacons /\ b # a /\ Far # 0
        /\ \A c \in Beacons : c = a \/ c = b
    BY DEF Beacons, Far
  <2>2. f_distance' = [c \in Beacons |-> IF c = b THEN d[b] ELSE Far]
    BY <1>2, <2>1, WatchTakes
  <2>3. \A c \in Beacons : d[c] \in Nat \ {0} /\ d[c] \in Distances \cup {Far}
    <3>1. d \in [Beacons -> Distances \cup {Far}]
      BY DEF Samples
    <3>2. \A c \in Beacons : d[c] \in Distances \cup {Far}
      BY <3>1
    <3>3. \A x \in Distances \cup {Far} : x \in Nat \ {0}
      BY ParkingAssumption DEF Far
    <3> QED
      BY <3>2, <3>3
  <2>4. BaselineSet'
    BY <2>1, <2>2, <2>3 DEF BaselineSet
  <2>5. ASSUME nearest' # 0
        PROVE  nearest' = b /\ d[b] < Far
    <3>1. nearest' = b /\ \E c \in Beacons : ~ (d[c] >= Far)
      BY <1>2, <2>5 DEF Nearest
    <3>2. d[39] < Far \/ d[234] < Far
      BY <2>3, <3>1 DEF Beacons, Far
    <3> QED
      BY <2>3, <3>1, <3>2 DEF Beacons, Far
  <2>6. ASSUME nearest' # 0
        PROVE  /\ Watched(f_distance') = b
               /\ f_distance'[b] \in Distances /\ f_distance'[b] < Far
               /\ \A c \in Beacons \ {b} : f_distance'[c] = Far
    <3>1. d[b] # Far /\ d[b] \in Distances
      BY <2>1, <2>3, <2>5, <2>6 DEF Far
    <3> QED
      BY <2>1, <2>2, <2>5, <2>6, <3>1 DEF Watched, Beacons
  <2> QED
    BY <2>4, <2>5, <2>6 DEF OneBeaconWatched, Watched
<1> QED
  BY <1>1, <1>2 DEF TypeOK

\* Every step keeps the watched beacon, and its baseline in a session.
LEMMA BaselineStep ==
    ASSUME TypeOK, OneBeaconWatched, BaselineSet, [Next]_vars
    PROVE  /\ OneBeaconWatched'
           /\ BaselineSet'
           /\ count_1 = 1 /\ count_1' = 1 => f_distance' = f_distance
<1> USE DEF receiver, condition, finder, baseline, reports, world, Reporters, Condition, Finder
<1>1. CASE FinderOff
  BY <1>1 DEF FinderOff, OneBeaconWatched, BaselineSet
<1>2. CASE Judge
  <2>1. CASE info = 0
    BY <1>2, <2>1 DEF Judge, OneBeaconWatched, BaselineSet, Watched
  <2>2. CASE info # 0
    <3>1. PICK d \in Samples : Watch(d) /\ nearest' = Nearest(d)
      BY <1>2, <2>2 DEF Judge
    <3>2. count_1' = 1
      BY <1>2, <2>2 DEF Judge
    <3> QED
      BY <3>1, <3>2, WatchBaseline, WatchKeeps
  <2> QED
    BY <2>1, <2>2
<1>3. CASE ~FinderOff /\ ~Judge
  <2>1. UNCHANGED baseline
    BY <1>3, Steps DEF vars, Receive, ConditionStart, ConditionTop, Compare, Remember, Check,
          Send, Mark, FinderTop, Siren, Locate, Hear, Command, Acknowledge, GatewayEnds, Carried
  <2> QED
    BY <2>1 DEF OneBeaconWatched, BaselineSet, Watched
<1> QED
  BY <1>1, <1>2, <1>3

-----------------------------------------------------------------------------
\* Every step keeps the turns of the two reporting threads.
LEMMA TurnStep ==
    ASSUME TypeOK, WordInv, TurnInv, [Next]_vars
    PROVE  TurnInv'
<1> USE DEF receiver, condition, finder, baseline, reports, world
<1>1. /\ pc \in [Reporters -> Labels] /\ word \in [Reporters -> Words] /\ drops \in Nat
      /\ Condition \in Reporters /\ Finder \in Reporters
      /\ Condition # Finder /\ \A t \in Reporters : t = Condition \/ t = Finder
  BY ParkingAssumption DEF TypeOK, Reporters, Condition, Finder
\* A step of one thread outside its report.
<1>2. ASSUME NEW t \in Reporters, ~Sending(t), ~Sending(t)',
             \A u \in Reporters \ {t} : pc'[u] = pc[u] /\ word'[u] = word[u],
             UNCHANGED <<transferred_info, db_state, drops, collided>>
      PROVE  TurnInv'
  BY <1>1, <1>2 DEF TurnInv, Sending
\* A step of nobody's report.
<1>3. ASSUME UNCHANGED <<pc, reports>>
      PROVE  TurnInv'
  BY <1>3 DEF TurnInv, Sending
<1>4. CASE ConditionStart \/ ConditionTop \/ Compare \/ Remember
  BY <1>1, <1>2, <1>4 DEF ConditionStart, ConditionTop, Compare, Remember, GoTo, Report, Sending
<1>5. CASE FinderTop \/ FinderOff \/ Siren \/ Locate
  BY <1>1, <1>2, <1>5 DEF FinderTop, FinderOff, Siren, Locate, GoTo, Report, Sending
<1>6. CASE Judge
  BY <1>1, <1>2, <1>6 DEF Judge, Watch, Baseline, InPlace, Moved, GoTo, Report, Sending
<1>7. ASSUME NEW next \in {"scan", "judge"}, Hear(next) PROVE TurnInv'
  BY <1>1, <1>2, <1>7 DEF Hear, GoTo, Sending
<1>8. CASE Receive \/ Command \/ Acknowledge \/ GatewayEnds \/ Carried \/ UNCHANGED vars
  BY <1>3, <1>8 DEF Receive, Command, Acknowledge, GatewayEnds, Carried, vars
<1>9. ASSUME NEW t \in Reporters, Check(t) PROVE TurnInv'
  <2>1. CASE transferred_info # word[t]
    BY <1>1, <1>9, <2>1 DEF Check, GoTo, TurnInv, Sending
  <2>2. CASE transferred_info = word[t]
    BY <1>1, <1>2, <1>9, <2>2 DEF Check, Reported, GoTo, Sending
  <2> QED
    BY <2>1, <2>2
<1>10. ASSUME NEW t \in Reporters, Send(t) PROVE TurnInv'
  <2>1. CASE connected /\ GoTo(t, "mark") /\ db_state' = word[t] /\ UNCHANGED <<word, drops>>
    BY <1>1, <1>10, <2>1 DEF Send, GoTo, TurnInv, Sending
  <2>2. CASE drops' = drops + 1 /\ GoTo(t, "mark")
    BY <1>1, <1>10, <2>2 DEF Send, GoTo, TurnInv, Sending
  <2>3. CASE Ended(t) /\ UNCHANGED <<db_state, drops>>
    BY <1>1, <1>10, <2>3 DEF Send, Ended, GoTo, TurnInv, Sending
  <2> QED
    BY <1>10, <2>1, <2>2, <2>3 DEF Send
<1>11. ASSUME NEW t \in Reporters, Mark(t) PROVE TurnInv'
  BY <1>1, <1>11 DEF Mark, Reported, GoTo, TurnInv, Sending
<1> QED
  BY <1>4, <1>5, <1>6, <1>7, <1>8, <1>9, <1>10, <1>11, Steps

-----------------------------------------------------------------------------
\* The initial state has the inductive invariant.
LEMMA InitInv == Init => IInv
<1> SUFFICES ASSUME Init PROVE IInv
  OBVIOUS
<1> USE DEF Init, Reporters, Condition, Finder, Beacons
<1>1. TypeOK
  <2>1. /\ pc \in [Reporters -> Labels] /\ word \in [Reporters -> Words]
        /\ transferred_info \in Words /\ db_state \in Words
    BY DEF Words, Labels
  <2>2. f_distance \in [Beacons -> Distances \cup {0, Far}]
    OBVIOUS
  <2>3. lost \in [Beacons -> 0 .. 2] /\ strikes \in [Beacons -> 0 .. 3]
    OBVIOUS
  <2>4. socket \in Seq({0, 1, Created, NoText})
    OBVIOUS
  <2>5. commands \in 0 .. MaxCommands /\ drops \in 0 .. MaxDrops /\ count \in 0 .. 3
    BY ParkingAssumption
  <2>6. /\ mode_check \in BOOLEAN /\ ack_due \in BOOLEAN /\ in_range \in BOOLEAN
        /\ collided \in BOOLEAN /\ connected \in BOOLEAN /\ nearest = 0
    OBVIOUS
  <2> QED
    BY <2>1, <2>2, <2>3, <2>4, <2>5, <2>6 DEF TypeOK
<1>2. WordInv /\ TurnInv
  BY DEF WordInv, TurnInv, Sending
<1>3. StrikeInv
  BY DEF StrikeInv, TheftNeedsThreeStrikes
<1>4. OneBeaconWatched /\ BaselineSet
  BY DEF OneBeaconWatched, BaselineSet
<1> QED
  BY <1>1, <1>2, <1>3, <1>4 DEF IInv

\* IInv holds in every reachable state.
THEOREM Inductive == Spec => []IInv
<1>1. IInv /\ [Next]_vars => IInv'
  BY TypeStep, StrikeStep, BaselineStep, TurnStep DEF IInv
<1> QED
  BY InitInv, <1>1, PTL DEF Spec

\* Every variable keeps its type, whatever the RSSI values and distances.
THEOREM TypeCorrect == Spec => []TypeOK
<1>1. IInv => TypeOK
  BY DEF IInv
<1> QED
  BY Inductive, <1>1, PTL

\* As long as the threads did not report at once and no upload was dropped,
\* transferred_info is what the database holds.
THEOREM CacheRight == Spec => []CacheRightIfAlone
<1>1. IInv => CacheRightIfAlone
  BY DEF IInv, TypeOK, TurnInv, CacheRightIfAlone, CacheMirrorsDatabase, Quiet, Sending
<1> QED
  BY Inductive, <1>1, PTL

\* A session watches exactly one beacon, whatever is measured below 100 m.
THEOREM OneWatched == Spec => []OneBeaconWatched
<1>1. IInv => OneBeaconWatched
  BY DEF IInv
<1> QED
  BY Inductive, <1>1, PTL

\* The buzzer and "stolen" come only after three rounds off the baseline.
THEOREM ThreeStrikes == Spec => []TheftNeedsThreeStrikes
<1>1. IInv => TheftNeedsThreeStrikes
  BY DEF IInv, StrikeInv
<1> QED
  BY Inductive, <1>1, PTL

\* The baseline of a session never changes.
THEOREM BaselineStays == Spec => BaselineKept
<1>1. IInv /\ [Next]_vars => [count_1 = 1 /\ count_1' = 1 => f_distance' = f_distance]_vars
  BY BaselineStep DEF IInv
<1> QED
  BY Inductive, <1>1, PTL DEF Spec, BaselineKept

-----------------------------------------------------------------------------
(* ParkingThread implements Bicycle. *)

\* What a step of one thread outside its report does to the abstract state.
LEMMA HandOther ==
    ASSUME NEW t \in Reporters, pc[t] \notin {"check", "send"},
           pc \in [Reporters -> Labels], word \in [Reporters -> Words],
           NEW l \in Labels, NEW w \in Words, pc' = [pc EXCEPT ![t] = l]
    PROVE  /\ InHand[t] = "none"
           /\ l \notin {"check", "send"} /\ word' = word => InHand' = InHand
           /\ l = "check" /\ word' = [word EXCEPT ![t] = w]
                => InHand' = [InHand EXCEPT ![t] = w]
           /\ l \in {"compare", "scan", "judge"} => Armed' = Armed \cup {t}
           /\ l \notin {"compare", "scan", "judge"} => Armed' = Armed \ {t}
BY DEF InHand, Armed

\* The steps between two reports of BeaconCondition.
LEMMA ConditionSimulates ==
    ASSUME TypeOK,
           ConditionStart \/ ConditionTop \/ Compare \/ Remember
    PROVE  [Bike!Next]_(Bike!vars)
<1> DEFINE C == Condition
<1>1. /\ C \in Reporters /\ C = Bike!Condition /\ C \in Bike!Reporters
      /\ pc \in [Reporters -> Labels] /\ word \in [Reporters -> Words]
  BY DEF TypeOK, Reporters, Condition, Bike!Condition, Bike!Reporters
<1>2. CASE ConditionStart
  <2>1. pc[C] = "start" /\ pc' = [pc EXCEPT ![C] = "top"] /\ word' = word
    BY <1>2 DEF ConditionStart, GoTo, reports
  <2>2. InHand' = InHand /\ Armed' = Armed
    BY <1>1, <2>1, HandOther DEF Labels, Words, Armed
  <2> QED
    BY <1>2, <2>2 DEF Bike!vars, ConditionStart, receiver, reports
<1>3. CASE ConditionTop
  <2>1. CASE info = 1 /\ GoTo(C, "compare") /\ UNCHANGED word
    <3>1. pc[C] = "top" /\ pc' = [pc EXCEPT ![C] = "compare"] /\ word' = word
      BY <1>3, <2>1 DEF ConditionTop, GoTo
    <3>2. InHand[C] = "none" /\ InHand' = InHand /\ Armed' = Armed \cup {C}
      BY <1>1, <3>1, HandOther DEF Labels, Words
    <3>3. Bike!Arm(C)
      BY <1>3, <2>1, <3>2 DEF Bike!Arm, ConditionTop, receiver
    <3> QED
      BY <1>1, <3>3 DEF Bike!Next, Bike!Step
  <2>2. CASE info # 1 /\ Report(C, "deactivate")
    <3>1. /\ pc[C] = "top" /\ pc' = [pc EXCEPT ![C] = "check"]
          /\ word' = [word EXCEPT ![C] = "deactivate"]
      BY <1>3, <2>2 DEF ConditionTop, Report, GoTo
    <3>2. /\ InHand[C] = "none" /\ InHand' = [InHand EXCEPT ![C] = "deactivate"]
          /\ C \notin Armed /\ Armed' = Armed \ {C}
      BY <1>1, <3>1, HandOther DEF Labels, Words, Armed
    <3>3. Bike!Begin(C, "deactivate")
      BY <1>3, <3>2 DEF Bike!Begin, ConditionTop, receiver
    <3> QED
      BY <1>1, <2>2, <3>2, <3>3 DEF Bike!Deactivate, Bike!Next, Bike!Step
  <2> QED
    BY <1>3, <2>1, <2>2 DEF ConditionTop
<1>4. CASE Compare
  <2>1. CASE Report(C, "nobeacon")
    <3>1. /\ pc[C] = "compare" /\ pc' = [pc EXCEPT ![C] = "check"]
          /\ word' = [word EXCEPT ![C] = "nobeacon"]
      BY <1>4, <2>1 DEF Compare, Report, GoTo
    <3>2. /\ InHand[C] = "none" /\ InHand' = [InHand EXCEPT ![C] = "nobeacon"]
          /\ C \in Armed /\ Armed' = Armed \ {C}
      BY <1>1, <3>1, HandOther DEF Labels, Words, Armed
    <3>3. Bike!Begin(C, "nobeacon")
      BY <1>4, <3>2 DEF Bike!Begin, Compare, receiver
    <3> QED
      BY <1>1, <3>2, <3>3 DEF Bike!NoBeacon, Bike!Next, Bike!Step
  <2>2. CASE GoTo(C, "remember") /\ UNCHANGED word
    <3>1. pc[C] = "compare" /\ pc' = [pc EXCEPT ![C] = "remember"] /\ word' = word
      BY <1>4, <2>2 DEF Compare, GoTo
    <3>2. InHand' = InHand /\ Armed' = Armed \ {C}
      BY <1>1, <3>1, HandOther DEF Labels, Words
    <3>3. Bike!Disarm(C)
      BY <1>4, <3>2 DEF Bike!Disarm, Compare, receiver
    <3> QED
      BY <1>1, <3>3 DEF Bike!Next, Bike!Step
  <2> QED
    BY <1>4, <2>1, <2>2 DEF Compare
<1>5. CASE Remember
  <2>1. pc[C] = "remember" /\ pc' = [pc EXCEPT ![C] = "top"] /\ word' = word
    BY <1>5 DEF Remember, GoTo, reports
  <2>2. InHand' = InHand /\ Armed' = Armed
    BY <1>1, <2>1, HandOther DEF Labels, Words, Armed
  <2> QED
    BY <1>5, <2>2 DEF Bike!vars, Remember, receiver, reports
<1> QED
  BY <1>2, <1>3, <1>4, <1>5

\* The steps between two reports of BeaconFinder.
LEMMA FinderSimulates ==
    ASSUME TypeOK,
           \/ FinderTop \/ FinderOff \/ Judge \/ Siren \/ Locate
           \/ \E next \in {"scan", "judge"} : Hear(next)
    PROVE  [Bike!Next]_(Bike!vars)
<1> DEFINE F == Finder
<1>1. /\ F \in Reporters /\ F = Bike!Finder /\ F \in Bike!Reporters
      /\ pc \in [Reporters -> Labels] /\ word \in [Reporters -> Words]
  BY DEF TypeOK, Reporters, Finder, Bike!Finder, Bike!Reporters
\* A step outside a scan, or within one.
<1>2. ASSUME NEW l \in Labels \ {"check", "send"}, pc[F] \notin {"check", "send"},
             pc[F] \in {"compare", "scan", "judge"} <=> l \in {"compare", "scan", "judge"},
             GoTo(F, l), UNCHANGED <<word, db_state, info, socket>>
      PROVE  UNCHANGED Bike!vars
  <2>1. pc' = [pc EXCEPT ![F] = l] /\ word' = word
    BY <1>2 DEF GoTo
  <2>2. InHand' = InHand /\ Armed' = Armed
    BY <1>1, <1>2, <2>1, HandOther DEF Words, Armed
  <2> QED
    BY <1>2, <2>2 DEF Bike!vars
\* A scan that ends without a report.
<1>3. ASSUME NEW l \in {"top", "locate"}, pc[F] = "judge",
             GoTo(F, l), UNCHANGED <<word, db_state, info, socket>>
      PROVE  Bike!Next
  <2>1. pc' = [pc EXCEPT ![F] = l] /\ word' = word
    BY <1>3 DEF GoTo
  <2>2. InHand' = InHand /\ Armed' = Armed \ {F}
    BY <1>1, <1>3, <2>1, HandOther DEF Words, Labels
  <2>3. Bike!Disarm(F)
    BY <1>3, <2>2 DEF Bike!Disarm
  <2> QED
    BY <1>1, <2>3 DEF Bike!Next, Bike!Step
<1>4. CASE FinderTop
  <2>1. CASE info = 1
    <3>1. pc[F] = "top" /\ pc' = [pc EXCEPT ![F] = "scan"] /\ word' = word
      BY <1>4, <2>1 DEF FinderTop, GoTo, reports
    <3>2. InHand[F] = "none" /\ InHand' = InHand /\ Armed' = Armed \cup {F}
      BY <1>1, <3>1, HandOther DEF Labels, Words
    <3>3. Bike!Arm(F)
      BY <1>4, <2>1, <3>2 DEF Bike!Arm, FinderTop, receiver, reports
    <3> QED
      BY <1>1, <3>3 DEF Bike!Next, Bike!Step
  <2>2. CASE info # 1
    BY <1>2, <1>4, <2>2 DEF FinderTop, Labels, reports, receiver
  <2> QED
    BY <2>1, <2>2
<1>5. CASE FinderOff
  BY <1>2, <1>5 DEF FinderOff, Labels, reports, receiver
<1>6. CASE Siren
  BY <1>2, <1>6 DEF Siren, Labels, reports, receiver
<1>7. CASE Locate
  BY <1>2, <1>7 DEF Locate, Labels, reports, receiver
<1>8. ASSUME NEW next \in {"scan", "judge"}, Hear(next)
      PROVE  UNCHANGED Bike!vars
  BY <1>2, <1>8 DEF Hear, Labels, reports, receiver
<1>9. CASE Judge
  <2>1. pc[F] = "judge" /\ UNCHANGED <<db_state, info, socket>>
    BY <1>9 DEF Judge, receiver
  <2>2. CASE info = 0
    BY <1>3, <1>9, <2>1, <2>2 DEF Judge
  <2>3. CASE info # 0
    <3>1. PICK d \in Samples : Watch(d)
      BY <1>9, <2>3 DEF Judge
    <3>2. \/ GoTo(F, "locate") /\ UNCHANGED word
          \/ \E w \in {"safe", "stolen"} : Report(F, w)
      BY <3>1 DEF Watch, Baseline, InPlace, Moved
    <3>3. CASE GoTo(F, "locate") /\ UNCHANGED word
      BY <1>3, <2>1, <3>3
    <3>4. CASE \E w \in {"safe", "stolen"} : Report(F, w)
      <4>1. PICK w \in {"safe", "stolen"} : Report(F, w)
        BY <3>4
      <4>2. pc' = [pc EXCEPT ![F] = "check"] /\ word' = [word EXCEPT ![F] = w]
        BY <4>1 DEF Report, GoTo
      <4>3. /\ InHand[F] = "none" /\ InHand' = [InHand EXCEPT ![F] = w]
            /\ F \in Armed /\ Armed' = Armed \ {F}
        BY <1>1, <2>1, <4>2, HandOther DEF Labels, Words, Armed
      <4>4. Bike!Begin(F, w)
        BY <2>1, <4>3 DEF Bike!Begin
      <4> QED
        BY <1>1, <2>3, <4>3, <4>4 DEF Bike!Guard, Bike!Next, Bike!Step
    <3> QED
      BY <3>2, <3>3, <3>4
  <2> QED
    BY <2>2, <2>3
<1> QED
  BY <1>4, <1>5, <1>6, <1>7, <1>8, <1>9

\* The steps of a report: it stays in hand until it is sent or dropped.
LEMMA ReportSimulates ==
    ASSUME TypeOK, NEW t \in Reporters, Check(t) \/ Send(t) \/ Mark(t),
           pc[t] \in {"check", "send"} => word[t] # "none"
    PROVE  [Bike!Next]_(Bike!vars)
<1>1. /\ pc \in [Reporters -> Labels] /\ word \in [Reporters -> Words]
      /\ Bike!Reporters = Reporters
  BY DEF TypeOK, Reporters, Condition, Finder, Bike!Reporters, Bike!Condition, Bike!Finder
<1>2. ASSUME Reported(t), pc[t] \in {"check", "send", "mark"}
      PROVE  /\ InHand' = [InHand EXCEPT ![t] = "none"]
             /\ Armed' = Armed
  BY <1>1, <1>2 DEF Reported, GoTo, InHand, Armed
<1>3. CASE Check(t)
  <2>1. CASE GoTo(t, "send") /\ UNCHANGED word
    <3>1. InHand' = InHand /\ Armed' = Armed
      BY <1>1, <1>3, <2>1 DEF Check, GoTo, InHand, Armed
    <3> QED
      BY <1>3, <3>1 DEF Bike!vars, Check, receiver
  <2>2. CASE Reported(t)
    <3>1. InHand[t] # "none"
      BY <1>1, <1>3 DEF Check, InHand
    <3>2. Bike!Drop(t)
      BY <1>2, <1>3, <2>2, <3>1 DEF Bike!Drop, Check, receiver
    <3> QED
      BY <1>1, <3>2 DEF Bike!Next, Bike!Step
  <2> QED
    BY <1>3, <2>1, <2>2 DEF Check
<1>4. CASE Send(t)
  <2>1. /\ InHand[t] = word[t] /\ word[t] # "none"
        /\ InHand' = [InHand EXCEPT ![t] = "none"]
        /\ Armed' = Armed
    BY <1>1, <1>4 DEF Send, Ended, GoTo, InHand, Armed
  <2>2. Bike!Store(t) \/ Bike!Drop(t)
    BY <1>4, <2>1 DEF Bike!Store, Bike!Drop, Send, receiver
  <2> QED
    BY <1>1, <2>2 DEF Bike!Next, Bike!Step
<1>5. CASE Mark(t)
  <2>1. InHand[t] = "none"
    BY <1>1, <1>5 DEF Mark, InHand
  <2>2. InHand' = InHand
    BY <1>2, <1>5, <2>1 DEF Mark, InHand
  <2> QED
    BY <1>2, <1>5, <2>2 DEF Bike!vars, Mark, receiver
<1> QED
  BY <1>3, <1>4, <1>5

\* What happens to the messages of the gateway.
LEMMA MessagesSimulate ==
    ASSUME TypeOK, Receive \/ Command \/ Acknowledge
    PROVE  [Bike!Next]_(Bike!vars)
<1>1. UNCHANGED <<pc, word, db_state>>
  BY DEF Receive, Command, Acknowledge, reports
<1>2. InHand' = InHand /\ Armed' = Armed
  BY <1>1 DEF InHand, Armed
<1>3. CASE Receive
  <2>1. CASE UNCHANGED socket /\ UNCHANGED info
    BY <1>1, <1>2, <2>1 DEF Bike!vars
  <2>2. ASSUME NEW n \in 1 .. Len(socket), UNCHANGED info,
               socket' = SubSeq(socket, n + 1, Len(socket))
        PROVE  Bike!Next
    <3>1. Bike!Garble
      BY <1>1, <1>2, <2>2 DEF Bike!Garble
    <3> QED
      BY <3>1 DEF Bike!Next, Bike!Step
  <2>3. ASSUME 1 \in 1 .. Len(socket), Head(socket) # NoText, info' = Head(socket),
               socket' = SubSeq(socket, 2, Len(socket))
        PROVE  Bike!Next
    <3>1. socket \in Seq({0, 1, Created, NoText}) /\ socket # <<>>
      BY <2>3 DEF TypeOK
    <3>2. socket' = Tail(socket)
      BY <2>3, <3>1, SubSeqProperties, HeadTailProperties
    <3>3. Head(socket) >= 0
      BY <2>3, <3>1, HeadTailProperties DEF Created, NoText
    <3>4. Bike!Learn
      BY <1>1, <1>2, <2>3, <3>1, <3>2, <3>3 DEF Bike!Learn
    <3> QED
      BY <3>4 DEF Bike!Next, Bike!Step
  <2>4. CASE ~connected /\ socket' = <<>> /\ UNCHANGED info
    <3>1. CASE socket = <<>>
      BY <2>1, <2>4, <3>1
    <3>2. CASE socket # <<>>
      <4>1. Len(socket) \in Nat \ {0}
        BY <3>2, EmptySeq DEF TypeOK
      <4>2. Len(socket) \in 1 .. Len(socket) /\ SubSeq(socket, Len(socket) + 1, Len(socket)) = <<>>
        BY <4>1, SubSeqEmpty
      <4> QED
        BY <2>2, <2>4, <4>2
    <3> QED
      BY <3>1, <3>2
  <2>5. CASE \E n \in 1 .. Len(socket) :
                /\ socket' = SubSeq(socket, n + 1, Len(socket))
                /\ \/ n = 1 /\ Head(socket) # NoText /\ info' = Head(socket)
                   \/ UNCHANGED info
    <3>1. PICK n \in 1 .. Len(socket) :
                /\ socket' = SubSeq(socket, n + 1, Len(socket))
                /\ \/ n = 1 /\ Head(socket) # NoText /\ info' = Head(socket)
                   \/ UNCHANGED info
      BY <2>5
    <3> QED
      BY <2>2, <2>3, <3>1
  <2> QED
    BY <1>3, <2>4, <2>5 DEF Receive
<1>4. CASE Command
  <2>1. socket' = Append(socket, mode') /\ mode' \in {0, 1} /\ info' = info
    BY <1>4 DEF Command
  <2>2. Bike!Arrive(mode')
    BY <1>1, <1>2, <2>1 DEF Bike!Arrive
  <2> QED
    BY <2>1, <2>2 DEF Bike!Next
<1>5. CASE Acknowledge
  <2>1. info' = info /\ socket' \in {socket, Append(socket, Created), Append(socket, NoText)}
    BY <1>5 DEF Acknowledge
  <2>2. CASE UNCHANGED socket
    BY <1>1, <1>2, <2>1, <2>2 DEF Bike!vars
  <2>3. ASSUME NEW m \in {Created, NoText}, socket' = Append(socket, m)
        PROVE  Bike!Next
    <3>1. Bike!Arrive(m)
      BY <1>1, <1>2, <2>1, <2>3 DEF Bike!Arrive
    <3> QED
      BY <3>1 DEF Bike!Next
  <2> QED
    BY <2>1, <2>2, <2>3
<1> QED
  BY <1>3, <1>4, <1>5

\* A thread that reports has a word to report.
HandInv == \A t \in Reporters : pc[t] \in {"check", "send", "mark"} => word[t] # "none"

LEMMA HandStep ==
    ASSUME TypeOK, HandInv, [Next]_vars
    PROVE  HandInv'
<1>1. /\ pc \in [Reporters -> Labels] /\ word \in [Reporters -> Words]
      /\ Condition \in Reporters /\ Finder \in Reporters
  BY DEF TypeOK, Reporters
<1>2. ASSUME NEW t \in Reporters, NEW w \in Words \ {"none"}, Report(t, w)
      PROVE  HandInv'
  BY <1>1, <1>2 DEF Report, GoTo, HandInv
<1>3. ASSUME NEW t \in Reporters, NEW l \in Labels \ {"check", "send", "mark"},
             GoTo(t, l), UNCHANGED word
      PROVE  HandInv'
  BY <1>1, <1>3 DEF GoTo, HandInv
<1>4. ASSUME NEW t \in Reporters, Check(t) \/ Send(t) \/ Mark(t)
      PROVE  HandInv'
  <2>1. Reported(t) => HandInv'
    BY <1>1 DEF Reported, GoTo, HandInv
  <2>2. ASSUME pc[t] \in {"check", "send"}, NEW l \in {"send", "mark"},
               GoTo(t, l), UNCHANGED word
        PROVE  HandInv'
    BY <1>1, <2>2 DEF GoTo, HandInv
  <2>3. Ended(t) => HandInv'
    BY <1>1 DEF Ended, GoTo, HandInv
  <2> QED
    BY <1>4, <2>1, <2>2, <2>3 DEF Check, Send, Mark
<1>5. UNCHANGED <<pc, word>> => HandInv'
  BY DEF HandInv
<1>6. ConditionStart \/ ConditionTop \/ Compare \/ Remember => HandInv'
  BY <1>1, <1>2, <1>3
     DEF ConditionStart, ConditionTop, Compare, Remember, reports, Words, Labels
<1>7. ASSUME Judge PROVE HandInv'
  <2>1. CASE info = 0
    BY <1>1, <1>3, <1>7, <2>1 DEF Judge, Labels
  <2>2. CASE info # 0
    <3>1. PICK d \in Samples : Watch(d)
      BY <1>7, <2>2 DEF Judge
    <3> QED
      BY <1>1, <1>2, <1>3, <3>1 DEF Watch, Baseline, InPlace, Moved, Words, Labels
  <2> QED
    BY <2>1, <2>2
<1>8. FinderTop \/ FinderOff \/ Siren \/ Locate => HandInv'
  BY <1>1, <1>3 DEF FinderTop, FinderOff, Siren, Locate, GoTo, reports, Labels
<1>9. ASSUME NEW next \in {"scan", "judge"}, Hear(next) PROVE HandInv'
  BY <1>1, <1>3, <1>9 DEF Hear, reports, Labels
<1>10. Receive \/ Command \/ Acknowledge \/ GatewayEnds \/ Carried \/ UNCHANGED vars => HandInv'
  BY <1>5 DEF Receive, Command, Acknowledge, GatewayEnds, Carried, reports, vars
<1> QED
  BY Steps, <1>4, <1>6, <1>7, <1>8, <1>9, <1>10

\* ParkingThread implements Bicycle: whatever is composed with Bicycle (the
\* rider's application, in BikeSystem) works with the three threads.
THEOREM GuardImplementsBicycle == Spec => ImplementsBicycle
<1>1. Init => Bike!Init
  BY DEF Init, Bike!Init, InHand, Armed, Reporters, Condition, Finder, NoInfo,
         Bike!Reporters, Bike!Condition, Bike!Finder, Bike!Words
<1>2. Init => HandInv
  BY DEF Init, HandInv, Reporters, Condition, Finder
<1>3. IInv /\ HandInv /\ [Next]_vars => HandInv'
  BY HandStep DEF IInv
<1>4. ASSUME IInv, HandInv, [Next]_vars
      PROVE  [Bike!Next]_(Bike!vars)
  <2>1. TypeOK /\ WordInv
    BY <1>4 DEF IInv
  <2>2. UNCHANGED vars => UNCHANGED Bike!vars
    BY DEF vars, receiver, reports, Bike!vars, InHand, Armed
  <2>3. GatewayEnds \/ Carried => UNCHANGED Bike!vars
    BY DEF GatewayEnds, Carried, receiver, reports, Bike!vars, InHand, Armed
  <2>4. (\E t \in Reporters : Check(t) \/ Send(t) \/ Mark(t)) => [Bike!Next]_(Bike!vars)
    BY <1>4, <2>1, ReportSimulates DEF HandInv
  <2> QED
    BY <1>4, <2>1, <2>2, <2>3, <2>4, Steps,
       ConditionSimulates, FinderSimulates, MessagesSimulate
<1> QED
  BY Inductive, <1>1, <1>2, <1>3, <1>4, PTL DEF Spec, ImplementsBicycle, Bike!Spec
=============================================================================
