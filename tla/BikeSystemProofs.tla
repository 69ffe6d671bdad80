-------------------------- MODULE BikeSystemProofs --------------------------
(***************************************************************************)
(* What BikeSystem guarantees for any number of activities, clicks and     *)
(* failed requests.                                                        *)
(***************************************************************************)
EXTENDS BikeSystem, SequenceTheorems, TLAPS

\* What of the types the proofs need.
Types ==
    /\ screen \in Screens
    /\ isChecked \in [Screens -> BOOLEAN]
    /\ pc \in [Pollers -> {"unused", "get", "decide", "notify", "ended"}]
    /\ con \in [Pollers -> States]
    /\ toggles \in 0 .. MaxToggles
    /\ errors \in Nat
    /\ overtaken \in BOOLEAN
    /\ parking_state \in States
    /\ report \in [Bike!Reporters -> Bike!Words]
    /\ parking_mode \in {0, 1}
    /\ \A r \in requests : r.mode \in {0, 1}
    /\ socket \in Seq(Int)

Mode(checked) == IF checked THEN 1 ELSE 0

\* Requests that do not overlap follow the button of the first activity.
ClickInv ==
    screen = 1 /\ errors = 0 /\ ~overtaken /\ toggles > 0 =>
        /\ \A r \in requests : requests = {r} /\ r.mode = Mode(isChecked[1])
        /\ requests = {} => parking_mode = Mode(isChecked[1])

\* In a session that began clean no thread of the guard can have read a 1
\* before the mode of the session was learnt, and without a theft judged since
\* then "stolen" is nowhere on the way to the rider.
AlarmInv ==
    clean =>
        /\ ~reached => info # 1 /\ armed = {}
        /\ ~theft => /\ \A t \in Bike!Reporters : report[t] # "stolen"
                     /\ parking_state # "stolen"
                     /\ \A p \in Pollers : /\ pc[p] # "notify"
                                           /\ pc[p] = "decide" => con[p] # "stolen"
                     /\ ~notified

\* The mode the guard will go by when it has taken what is on its socket.
Coming == IF socket = <<>> THEN info ELSE socket[Len(socket)]

\* It is the server's, once a click has got through.
ComingInv ==
    requests = {} /\ toggles > 0 /\ errors = 0 /\ ~garbled => Coming = parking_mode

\* The inductive invariant.
IInv == Types /\ ClickInv /\ AlarmInv /\ ComingInv

-----------------------------------------------------------------------------
\* The steps of the system, one by one.
LEMMA Steps ==
    ASSUME [SystemNext]_systemVars
    PROVE  \/ AppClick
           \/ \E r \in requests : AppDeliver(r)
           \/ Acknowledge
           \/ Recreate /\ UNCHANGED <<bike, ack_due, session, garbled>>
           \/ \E r \in requests : Fail(r) /\ UNCHANGED <<bike, ack_due, session, garbled>>
           \/ \E p \in Pollers : PollStep(p) /\ UNCHANGED <<bike, ack_due, session, garbled>>
           \/ BikeStep
           \/ UNCHANGED systemVars
BY DEF SystemNext, AppStep

\* The clicks, the activities and the requests.
LEMMA ClickStep ==
    ASSUME Types, ClickInv, [SystemNext]_systemVars
    PROVE  /\ (screen \in Screens)' /\ (isChecked \in [Screens -> BOOLEAN])'
           /\ (toggles \in 0 .. MaxToggles)' /\ (errors \in Nat)' /\ (overtaken \in BOOLEAN)'
           /\ ClickInv'
<1> USE AppAssumption DEF Types, Screens, ClickInv, Mode
<1>1. CASE AppClick
  <2>1. Click
    BY <1>1 DEF AppClick
  <2>2. /\ toggles' = toggles + 1 /\ toggles < MaxToggles
        /\ isChecked' = [isChecked EXCEPT ![screen] = ~@]
        /\ overtaken' = (overtaken \/ requests # {})
        /\ UNCHANGED <<screen, errors, parking_mode>>
    BY <2>1 DEF Click, cse
  <2>3. requests' = requests \cup
            {[click |-> toggles', mode |-> Mode(isChecked'[screen])]}
    BY <2>1 DEF Click
  <2>4. /\ isChecked' \in [Screens -> BOOLEAN]
        /\ isChecked'[screen] = ~isChecked[screen]
    BY <2>2
  <2>5. ASSUME screen' = 1, ~overtaken'
        PROVE  ClickInv'
    <3>1. requests' = {[click |-> toggles', mode |-> Mode(isChecked'[1])]}
      BY <2>2, <2>3, <2>5
    <3>2. \A r \in requests' : requests' = {r} /\ r.mode = Mode(isChecked'[1])
      BY <3>1
    <3>3. requests' # {}
      BY <3>1
    <3> QED
      BY <3>2, <3>3
  <2> QED
    BY <2>2, <2>4, <2>5
<1>2. ASSUME NEW r \in requests, AppDeliver(r)
      PROVE  /\ requests' = requests \ {r} /\ parking_mode' = r.mode
             /\ UNCHANGED <<screen, isChecked, toggles, errors, overtaken>>
  BY <1>2 DEF AppDeliver, Deliver, app
<1>3. ASSUME NEW r \in requests, AppDeliver(r)
      PROVE  ClickInv'
  BY <1>2, <1>3
<1>4. CASE Recreate
  <2>1. screen' = screen + 1 /\ screen < MaxScreens /\ UNCHANGED <<toggles, errors, overtaken>>
    BY <1>4 DEF Recreate
  <2>2. isChecked' \in [Screens -> BOOLEAN]
    BY <1>4 DEF Recreate
  <2>3. screen' # 1
    BY <2>1
  <2> QED
    BY <2>1, <2>2, <2>3
<1>5. ASSUME NEW r \in requests, Fail(r)
      PROVE  /\ errors' = errors + 1
             /\ UNCHANGED <<screen, isChecked, toggles, overtaken>>
  BY <1>5 DEF Fail, app
<1>6. ASSUME NEW p \in Pollers, PollStep(p)
      PROVE  /\ UNCHANGED <<screen, isChecked, requests, parking_mode, toggles, overtaken>>
             /\ errors' = errors \/ errors' = errors + 1
  BY <1>6 DEF PollStep, Get, GetFails, Decide, Notify, app, cse
<1>7. BikeStep \/ Acknowledge \/ UNCHANGED systemVars =>
        UNCHANGED <<screen, isChecked, requests, parking_mode, toggles, errors, overtaken>>
  BY DEF BikeStep, Acknowledge, systemVars, vars, app, cse
<1> QED
  BY Steps, <1>1, <1>2, <1>3, <1>4, <1>5, <1>6, <1>7

-----------------------------------------------------------------------------
\* The pollers and the guard.
LEMMA AlarmStep ==
    ASSUME Types, AlarmInv, [SystemNext]_systemVars
    PROVE  /\ (pc \in [Pollers -> {"unused", "get", "decide", "notify", "ended"}])'
           /\ (con \in [Pollers -> States])'
           /\ (parking_state \in States)'
           /\ (report \in [Bike!Reporters -> Bike!Words])'
           /\ AlarmInv'
<1> DEFINE pollTypes == /\ pc \in [Pollers -> {"unused", "get", "decide", "notify", "ended"}]
                        /\ con \in [Pollers -> States]
                        /\ parking_state \in States
                        /\ report \in [Bike!Reporters -> Bike!Words]
<1>1. CASE AppClick
  <2>1. Click /\ UNCHANGED bike
    BY <1>1 DEF AppClick
  <2>2. parking_state' = parking_state /\ con' = con
    BY <2>1 DEF Click, cse
  <2>3. pollTypes'
    BY <2>1, <2>2 DEF Click, Start, Types, bike
  <2>4. CASE isChecked'[screen]
    <3>1. /\ clean' = Settled /\ ~reached' /\ ~theft' /\ ~notified'
          /\ \E q \in Nat : pc' = [pc EXCEPT ![q] = "get"]
      BY <1>1, <2>1, <2>4, AppAssumption DEF AppClick, Click, Start, Types
    <3>2. ASSUME Settled
          PROVE  \A p \in Pollers : pc[p] # "notify" /\ pc[p] # "decide"
      BY <3>2 DEF Settled, Polling
    <3>3. ASSUME Settled
          PROVE  \A p \in Pollers : pc'[p] # "notify" /\ pc'[p] # "decide"
      BY <3>1, <3>2, <3>3 DEF Types
    <3> QED
      BY <2>1, <2>2, <2>3, <3>1, <3>3
         DEF AlarmInv, Settled, bike, Types, Bike!Reporters, Bike!Words
  <2>5. CASE ~isChecked'[screen]
    <3>1. UNCHANGED <<pc, notified, session>>
      BY <1>1, <2>1, <2>5 DEF AppClick, Click
    <3> QED
      BY <2>1, <2>2, <2>3, <3>1 DEF AlarmInv, bike, session, Types
  <2> QED
    BY <2>4, <2>5
\* Steps that leave the pollers and the guard's reports alone.
<1>2. ASSUME UNCHANGED <<poll, parking_state, notified, info, armed, report, session>>
      PROVE  pollTypes' /\ AlarmInv'
  BY <1>2 DEF Types, AlarmInv, poll, session
<1>3. ASSUME NEW r \in requests, AppDeliver(r)
      PROVE  UNCHANGED <<poll, parking_state, notified, info, armed, report, session>>
  BY <1>3 DEF AppDeliver, Deliver, Bike!Arrive
<1>4. CASE Recreate /\ UNCHANGED <<bike, ack_due, session, garbled>>
  BY <1>2, <1>4 DEF Recreate, cse, bike
<1>5. ASSUME NEW r \in requests, Fail(r), UNCHANGED <<bike, ack_due, session, garbled>>
      PROVE  UNCHANGED <<poll, parking_state, notified, info, armed, report, session>>
  BY <1>5 DEF Fail, cse, bike
<1>6. ASSUME NEW p \in Pollers, PollStep(p), UNCHANGED <<bike, ack_due, session, garbled>>
      PROVE  pollTypes' /\ AlarmInv'
  <2>1. UNCHANGED <<parking_state, bike, session>>
    BY <1>6 DEF PollStep, Get, GetFails, Decide, Notify, cse
  <2>2. CASE Get(p)
    BY <2>1, <2>2 DEF Get, Types, AlarmInv, bike, session
  <2>3. CASE GetFails(p)
    BY <2>1, <2>3 DEF GetFails, Types, AlarmInv, bike, session
  <2>4. CASE Decide(p)
    <3>1. /\ \E l \in {"ended", "notify", "get"} : pc' = [pc EXCEPT ![p] = l]
          /\ con' = [con EXCEPT ![p] = "deactivate"]
          /\ pc[p] = "decide" /\ (con[p] # "stolen" => pc'[p] # "notify")
          /\ notified' = notified
      BY <2>4 DEF Decide, Types
    <3>2. pollTypes'
      BY <2>1, <3>1 DEF Types, bike, States
    <3>3. \A q \in Pollers \ {p} : pc'[q] = pc[q] /\ con'[q] = con[q]
      BY <3>1 DEF Types
    <3>4. pc'[p] # "decide"
      BY <3>1 DEF Types
    <3>5. UNCHANGED <<clean, reached, theft, info, armed, report, parking_state, notified>>
      BY <2>1, <3>1 DEF bike, session
    <3>6. pc[p] = "decide" /\ (con[p] # "stolen" => pc'[p] # "notify")
      BY <3>1
    <3> HIDE DEF pollTypes
    <3>7. AlarmInv'
      BY <3>3, <3>4, <3>5, <3>6 DEF AlarmInv
    <3> QED
      BY <3>2, <3>7
  <2>5. CASE Notify(p)
    BY <2>1, <2>5 DEF Notify, Types, AlarmInv, bike, session
  <2> QED
    BY <1>6, <2>2, <2>3, <2>4, <2>5 DEF PollStep
<1>7. ASSUME BikeStep
      PROVE  pollTypes' /\ AlarmInv'
  <2>1. /\ Bike!Step /\ UNCHANGED <<pc, con, notified, clean>>
        /\ reached' = (reached \/ (clean /\ info # 1 /\ info' = 1))
        /\ theft' = (theft \/ (/\ reached
                               /\ report[Bike!Finder] = "none"
                               /\ report'[Bike!Finder] = "stolen"))
    BY <1>7 DEF BikeStep, poll
  <2> USE <2>1 DEF Types, AlarmInv
  <2>2. CASE Bike!Learn
    BY <2>2 DEF Bike!Learn
  <2>3. CASE Bike!Garble
    BY <2>3 DEF Bike!Garble
  <2>4. ASSUME NEW t \in Bike!Reporters, Bike!Arm(t) \/ Bike!Disarm(t)
        PROVE  pollTypes' /\ AlarmInv'
    BY <2>4 DEF Bike!Arm, Bike!Disarm
  <2>5. CASE Bike!Deactivate \/ Bike!NoBeacon
    BY <2>5 DEF Bike!Deactivate, Bike!NoBeacon, Bike!Begin, Bike!Reporters,
                Bike!Condition, Bike!Finder, Bike!Words
  <2>6. CASE Bike!Guard
    <3>1. PICK w \in {"safe", "stolen"} :
             /\ Bike!Finder \in armed /\ info # 0
             /\ report[Bike!Finder] = "none" /\ report' = [report EXCEPT ![Bike!Finder] = w]
             /\ armed' = armed \ {Bike!Finder}
             /\ UNCHANGED <<info, parking_state>>
      BY <2>6 DEF Bike!Guard, Bike!Begin
    <3>2. report'[Bike!Finder] = w /\ report' \in [Bike!Reporters -> Bike!Words]
      BY <3>1 DEF Bike!Reporters, Bike!Words
    <3>3. clean => reached
      BY <3>1
    <3> QED
      BY <3>1, <3>2, <3>3
  <2>7. ASSUME NEW t \in Bike!Reporters, Bike!Store(t) \/ Bike!Drop(t)
        PROVE  pollTypes' /\ AlarmInv'
    <3>1. /\ report[t] # "none" /\ report' = [report EXCEPT ![t] = "none"]
          /\ parking_state' = report[t] \/ parking_state' = parking_state
          /\ UNCHANGED <<info, armed>>
      BY <2>7 DEF Bike!Store, Bike!Drop
    <3>2. report[t] \in States
      BY <3>1 DEF Bike!Words, States
    <3>3. report' \in [Bike!Reporters -> Bike!Words]
      BY <3>1 DEF Bike!Words
    <3> QED
      BY <3>1, <3>2, <3>3
  <2> QED
    BY <2>1, <2>2, <2>3, <2>4, <2>5, <2>6, <2>7 DEF Bike!Step
<1>8. Acknowledge \/ UNCHANGED systemVars =>
        UNCHANGED <<poll, parking_state, notified, info, armed, report, session>>
  BY DEF Acknowledge, Bike!Arrive, systemVars, vars, poll, cse, bike
<1> QED
  BY Steps, <1>1, <1>2, <1>3, <1>4, <1>5, <1>6, <1>7, <1>8

-----------------------------------------------------------------------------
\* What is appended is last.
LEMMA LastAppended ==
    ASSUME NEW s \in Seq(Int), NEW m \in Int
    PROVE  /\ Append(s, m) \in Seq(Int) /\ Append(s, m) # <<>>
           /\ Append(s, m)[Len(Append(s, m))] = m
BY AppendProperties

\* Taking the first leaves the last, or was the last.
LEMMA LastTaken ==
    ASSUME NEW s \in Seq(Int), s # <<>>
    PROVE  /\ Tail(s) \in Seq(Int)
           /\ Tail(s) = <<>> => Head(s) = s[Len(s)]
           /\ Tail(s) # <<>> => Tail(s)[Len(Tail(s))] = s[Len(s)]
<1>1. /\ Tail(s) \in Seq(Int) /\ Len(Tail(s)) = Len(s) - 1
      /\ \A i \in 1 .. Len(Tail(s)) : Tail(s)[i] = s[i + 1]
      /\ Head(s) = s[1] /\ Len(s) \in Nat \ {0}
  BY HeadTailProperties, EmptySeq
<1>2. CASE Tail(s) = <<>>
  <2>1. Len(Tail(s)) = 0
    BY <1>2, EmptySeq
  <2>2. Len(s) = 1
    <3> DEFINE l == Len(s)
               k == Len(Tail(s))
    <3>1. k = 0 /\ k = l - 1 /\ l \in Nat
      BY <1>1, <2>1
    <3> HIDE DEF l, k
    <3>2. l = 1
      BY <3>1
    <3> QED
      BY <3>2 DEF l
  <2> QED
    BY <1>1, <1>2, <2>2
<1>3. CASE Tail(s) # <<>>
  <2>1. Len(Tail(s)) \in Nat \ {0}
    BY <1>1, <1>3, EmptySeq
  <2> QED
    BY <1>1, <1>3, <2>1
<1> QED
  BY <1>1, <1>2, <1>3

\* The modes on their way to the guard.
LEMMA ComingStep ==
    ASSUME Types, ComingInv, [SystemNext]_systemVars
    PROVE  /\ (parking_mode \in {0, 1})'
           /\ (\A r \in requests : r.mode \in {0, 1})'
           /\ (socket \in Seq(Int))'
           /\ ComingInv'
<1> DEFINE modeTypes == /\ parking_mode \in {0, 1}
                        /\ \A r \in requests : r.mode \in {0, 1}
                        /\ socket \in Seq(Int)
<1>1. CASE AppClick
  <2>1. /\ \E m \in {0, 1}, n \in Nat : requests' = requests \cup {[click |-> n, mode |-> m]}
        /\ UNCHANGED <<parking_mode, socket>>
    BY <1>1, AppAssumption DEF AppClick, Click, cse, bike, Types
  <2>2. requests' # {}
    BY <2>1
  <2> QED
    BY <2>1, <2>2 DEF Types, ComingInv
<1>2. ASSUME NEW r \in requests, AppDeliver(r)
      PROVE  modeTypes' /\ ComingInv'
  <2>1. /\ parking_mode' = r.mode /\ requests' = requests \ {r}
        /\ socket' = Append(socket, r.mode) /\ r.mode \in {0, 1}
    BY <1>2 DEF AppDeliver, Deliver, Bike!Arrive, Types
  <2> QED
    BY <2>1, LastAppended DEF Types, ComingInv, Coming
\* The acknowledgement is the last word only where no click has got through.
<1>3. CASE Acknowledge
  <2>1. /\ socket' = Append(socket, Created)
        /\ garbled' = (garbled \/ socket # <<>> \/ info # -1)
        /\ UNCHANGED <<requests, parking_mode, toggles, errors>>
    BY <1>3 DEF Acknowledge, Bike!Arrive
  <2>2. modeTypes'
    BY <2>1, LastAppended DEF Types, Created
  <2>3. ~garbled' => ~garbled /\ Coming = -1
    BY <2>1 DEF Coming
  <2>4. parking_mode # -1
    BY DEF Types
  <2> QED
    BY <2>1, <2>2, <2>3, <2>4 DEF ComingInv
\* Steps of the application that change no mode.
<1>4. ASSUME UNCHANGED <<parking_mode, socket, info, toggles, garbled>>,
             requests' \subseteq requests,
             errors' = 0 => requests' = requests /\ errors = 0
      PROVE  modeTypes' /\ ComingInv'
  BY <1>4 DEF Types, ComingInv, Coming
<1>5. CASE Recreate /\ UNCHANGED <<bike, ack_due, session, garbled>>
  BY <1>4, <1>5 DEF Recreate, cse, bike
<1>6. ASSUME NEW r \in requests, Fail(r), UNCHANGED <<bike, ack_due, session, garbled>>
      PROVE  modeTypes' /\ ComingInv'
  BY <1>4, <1>6 DEF Fail, cse, bike, Types
<1>7. ASSUME NEW p \in Pollers, PollStep(p), UNCHANGED <<bike, ack_due, session, garbled>>
      PROVE  modeTypes' /\ ComingInv'
  BY <1>4, <1>7 DEF PollStep, Get, GetFails, Decide, Notify, cse, bike, Types
<1>8. CASE BikeStep
  <2>1. /\ Bike!Step
        /\ UNCHANGED <<parking_mode, requests, toggles, errors>>
        /\ garbled' = (garbled \/ (socket' # socket /\ ~Bike!Learn))
    BY <1>8 DEF BikeStep
  <2>2. CASE Bike!Learn
    <3>1. socket # <<>> /\ socket' = Tail(socket) /\ info' = Head(socket)
      BY <2>2 DEF Bike!Learn
    <3>2. socket' \in Seq(Int) /\ Coming' = Coming
      BY <3>1, LastTaken DEF Types, Coming
    <3> QED
      BY <2>1, <3>2 DEF Types, ComingInv
  <2>3. CASE Bike!Garble /\ ~Bike!Learn
    <3>1. PICK n \in 1 .. Len(socket) : socket' = SubSeq(socket, n + 1, Len(socket))
      BY <2>3 DEF Bike!Garble
    <3>2. socket' \in Seq(Int) /\ Len(socket') < Len(socket)
      BY <3>1, SubSeqProperties, LenProperties DEF Types
    <3>3. socket' # socket
      BY <3>2
    <3>4. garbled'
      BY <2>1, <2>3, <3>3
    <3> QED
      BY <2>1, <3>2, <3>4 DEF Types, ComingInv
  <2>4. CASE UNCHANGED <<socket, info>>
    BY <2>1, <2>4 DEF Types, ComingInv, Coming
  <2>5. Bike!Learn \/ Bike!Garble \/ UNCHANGED <<socket, info>>
    BY <2>1 DEF Bike!Step, Bike!Arm, Bike!Disarm, Bike!Store, Bike!Drop,
                Bike!Deactivate, Bike!NoBeacon, Bike!Guard, Bike!Begin
  <2> QED
    BY <2>2, <2>3, <2>4, <2>5
<1>9. CASE UNCHANGED systemVars
  BY <1>4, <1>9 DEF systemVars, vars, cse, bike
<1> QED
  BY Steps, <1>1, <1>2, <1>3, <1>5, <1>6, <1>7, <1>8, <1>9

-----------------------------------------------------------------------------
\* IInv holds in every reachable state.
THEOREM Inductive == SystemSpec => []IInv
<1>1. ASSUME SystemInit PROVE IInv
  <2>1. Init /\ Bike!Init /\ clean = FALSE
    BY <1>1 DEF SystemInit
  <2>2. toggles = 0 /\ 0 \in 0 .. MaxToggles /\ 1 \in Screens
    BY <2>1, AppAssumption DEF Init, Screens
  <2>3. report \in [Bike!Reporters -> Bike!Words]
    BY <2>1 DEF Bike!Init, Bike!Words
  <2>4. socket \in Seq(Int)
    BY <2>1 DEF Bike!Init
  <2>5. Types
    BY <2>1, <2>2, <2>3, <2>4 DEF Init, Types, States
  <2> QED
    BY <2>1, <2>2, <2>5 DEF IInv, ClickInv, AlarmInv, ComingInv
<1>2. IInv /\ [SystemNext]_systemVars => IInv'
  BY ClickStep, AlarmStep, ComingStep DEF IInv, Types
<1> QED
  BY <1>1, <1>2, PTL DEF SystemSpec

\* Requests of one activity that do not overtake each other leave the CSE with
\* the mode of its button, whatever the bicycle reports meanwhile.
THEOREM LastClick == SystemSpec => []LastClickWins
<1>1. IInv => LastClickWins
  BY DEF IInv, ClickInv, LastClickWins, Mode
<1> QED
  BY Inductive, <1>1, PTL

\* The rider of a session that began clean is told only of thefts the guard
\* judged in that session.
THEOREM OwnAlarm == SystemSpec => []AlarmOfThisSession
<1>1. IInv => AlarmOfThisSession
  BY DEF IInv, AlarmInv, AlarmOfThisSession
<1> QED
  BY Inductive, <1>1, PTL

\* End to end, from the button to the variable that the guard's threads read:
\* once nothing is under way they agree, whatever pollers, reports and failed
\* polls there were on the way.
THEOREM ButtonToGuard == SystemSpec => []GuardFollowsButton
<1>1. IInv => GuardFollowsButton
  BY DEF IInv, ClickInv, ComingInv, Coming, GuardFollowsButton, Mode
<1> QED
  BY Inductive, <1>1, PTL
=============================================================================
