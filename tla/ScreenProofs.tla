---------------------------- MODULE ScreenProofs ----------------------------
(***************************************************************************)
(* What two screens of the phone guarantee: the turn signals, NaviLights,  *)
(* for any number of activities, changes, exceptions and messages the UI   *)
(* thread is behind; and the map, BikeMap, for any number of clicks, moves *)
(* and kills.  The two share no state.                                     *)
(***************************************************************************)
EXTENDS NaviLights, BikeMap, FiniteSetTheorems, TLAPS

Values  == Signals \cup {"none", "-1"}
Between == {"unused", "zero", "one", "two"}   \* control points outside a blink

\* What of the types the proofs need.
Types ==
    /\ light \in [value : Values, number : Nat]
    /\ screens \in Nat
    /\ poller \in [Threads -> {"unused", "get", "store"}]
    /\ con \in [Threads -> [value : Values, number : Nat]]
    /\ left_check \in [value : Values, number : Nat]
    /\ blink \in [Screens -> Between \cup {"lit1", "lit2"}]
    /\ check \in [Screens -> Signals \cup {"-1"}]
    /\ queue \in [Screens -> Seq(Signals)]
    /\ left_light \in [Screens -> {"white", "yellow", "red"}]

\* The colours an activity's view will show next to each other, now and from
\* its messages, have a white between them; and outside a blink the last one
\* is white.
Alternating ==
    \A s \in Screens :
        /\ queue[s] # <<>> => left_light[s] = "white" \/ queue[s][1] = "0"
        /\ \A i \in 1 .. Len(queue[s]) :
              i + 1 \in 1 .. Len(queue[s]) => queue[s][i] = "0" \/ queue[s][i + 1] = "0"
        /\ blink[s] \in Between =>
              IF queue[s] = <<>> THEN left_light[s] = "white" ELSE queue[s][Len(queue[s])] = "0"

\* While there is one activity there is one poller, and what it has read is
\* not older than what is stored.
OnePoller ==
    /\ screens = 0 => \A t \in Threads : poller[t] = "unused"
    /\ screens = 1 => \A t, u \in Threads : poller[t] # "unused" /\ poller[u] # "unused" => t = u
    /\ screens <= 1 => /\ left_check.number <= light.number
                       /\ \A t \in Threads : poller[t] = "store"
                             => /\ con[t].number <= light.number
                                /\ con[t].number >= left_check.number

\* The activities to come have no blinking thread.
Unborn == \A s \in Screens : s > screens => blink[s] = "unused"

IInv == Types /\ Alternating /\ Unborn /\ OnePoller

-----------------------------------------------------------------------------

\* A message appended is the last, and one taken was the first.
LEMMA Appended ==
    ASSUME NEW q \in Seq(Signals), NEW v \in Signals
    PROVE  /\ Append(q, v) \in Seq(Signals)
           /\ Append(q, v) # <<>>
           /\ Len(Append(q, v)) = Len(q) + 1
           /\ Append(q, v)[Len(q) + 1] = v
           /\ \A i \in 1 .. Len(q) : Append(q, v)[i] = q[i]
OBVIOUS

LEMMA Taken ==
    ASSUME NEW q \in Seq(Signals), q # <<>>
    PROVE  /\ Head(q) = q[1] /\ Head(q) \in Signals
           /\ Tail(q) \in Seq(Signals)
           /\ Len(Tail(q)) = Len(q) - 1
           /\ Len(q) \in Nat \ {0}
           /\ \A i \in 1 .. Len(Tail(q)) : Tail(q)[i] = q[i + 1]
<1>1. Len(q) \in Nat \ {0}
    OBVIOUS
<1>2. Head(q) = q[1] /\ q[1] \in Signals
    BY <1>1
<1> QED
    BY <1>1, <1>2

\* What whites between the colours of a queue say of the rest of it.
LEMMA Rest ==
    ASSUME NEW q \in Seq(Signals), NEW r \in Seq(Signals), q # <<>>,
           Len(r) = Len(q) - 1, \A i \in 1 .. Len(r) : r[i] = q[i + 1],
           \A i \in 1 .. Len(q) : i + 1 \in 1 .. Len(q) => q[i] = "0" \/ q[i + 1] = "0"
    PROVE  /\ r # <<>> => q[1] = "0" \/ r[1] = "0"
           /\ \A i \in 1 .. Len(r) : i + 1 \in 1 .. Len(r) => r[i] = "0" \/ r[i + 1] = "0"
           /\ r = <<>> => Len(q) = 1
           /\ r # <<>> => r[Len(r)] = q[Len(q)]
<1>1. Len(q) \in Nat /\ Len(r) \in Nat /\ (r = <<>> <=> Len(r) = 0) /\ Len(q) = Len(r) + 1
    OBVIOUS
<1>2. r # <<>> => q[1] = "0" \/ r[1] = "0"
  <2> SUFFICES ASSUME r # <<>> PROVE q[1] = "0" \/ r[1] = "0"
      OBVIOUS
  <2>1. 1 \in 1 .. Len(r) /\ 1 \in 1 .. Len(q) /\ 1 + 1 \in 1 .. Len(q)
      BY <1>1
  <2> QED
      BY <2>1
<1>3. ASSUME NEW i \in 1 .. Len(r), i + 1 \in 1 .. Len(r) PROVE r[i] = "0" \/ r[i + 1] = "0"
  <2>1. i + 1 \in 1 .. Len(q) /\ (i + 1) + 1 \in 1 .. Len(q)
      BY <1>1, <1>3
  <2> QED
      BY <1>3, <2>1
<1>4. r # <<>> => r[Len(r)] = q[Len(q)]
  <2> SUFFICES ASSUME r # <<>> PROVE r[Len(r)] = q[Len(q)]
      OBVIOUS
  <2>1. Len(r) \in 1 .. Len(r)
      BY <1>1
  <2> QED
      BY <1>1, <2>1
<1> QED
    BY <1>1, <1>2, <1>3, <1>4

\* Only "0" is shown white.
LEMMA Colours ==
    /\ Colour["0"] = "white"
    /\ \A v \in Signals : Colour[v] \in {"white", "yellow", "red"}
    /\ \A v \in Signals : Colour[v] = "white" <=> v = "0"
BY DEF Colour, Signals

\* A message to a view keeps the whites between the colours, if the last
\* colour or the new one is white.
LEMMA PostStep ==
    ASSUME Types, Alternating, NEW s \in Screens, NEW v \in Signals, Post(s, v),
           v = "0" \/ blink[s] \in Between,
           blink' = [blink EXCEPT ![s] = blink'[s]],
           blink'[s] \in Between => v = "0",
           UNCHANGED left_light
    PROVE  queue' \in [Screens -> Seq(Signals)] /\ Alternating'
<1> DEFINE q == queue[s]
<1>1. q \in Seq(Signals) /\ queue' = [queue EXCEPT ![s] = Append(q, v)]
    BY DEF Types, Post
<1>2. queue' \in [Screens -> Seq(Signals)] /\ queue'[s] = Append(q, v)
    BY <1>1, Appended DEF Types
<1>3. ASSUME NEW t \in Screens
      PROVE  /\ queue'[t] # <<>> => left_light[t] = "white" \/ queue'[t][1] = "0"
             /\ \A i \in 1 .. Len(queue'[t]) :
                   i + 1 \in 1 .. Len(queue'[t]) => queue'[t][i] = "0" \/ queue'[t][i + 1] = "0"
             /\ blink'[t] \in Between =>
                   IF queue'[t] = <<>> THEN left_light[t] = "white"
                                       ELSE queue'[t][Len(queue'[t])] = "0"
  <2>1. CASE t = s
    <3>1. v = "0" \/ (IF q = <<>> THEN left_light[s] = "white" ELSE q[Len(q)] = "0")
        BY DEF Alternating
    <3>2. /\ Append(q, v) # <<>>
          /\ Len(Append(q, v)) = Len(q) + 1
          /\ Append(q, v)[Len(q) + 1] = v
          /\ \A i \in 1 .. Len(q) : Append(q, v)[i] = q[i]
          /\ Len(q) \in Nat /\ (q = <<>> <=> Len(q) = 0)
        BY <1>1, Appended
    <3>3. /\ q # <<>> => left_light[s] = "white" \/ q[1] = "0"
          /\ \A i \in 1 .. Len(q) : i + 1 \in 1 .. Len(q) => q[i] = "0" \/ q[i + 1] = "0"
        BY DEF Alternating
    <3>4. left_light[s] = "white" \/ Append(q, v)[1] = "0"
      <4>1. CASE q = <<>>
          BY <3>1, <3>2, <4>1
      <4>2. CASE q # <<>>
          BY <3>2, <3>3, <4>2
      <4> QED
          BY <4>1, <4>2
    <3>5. ASSUME NEW i \in 1 .. Len(q) + 1, i + 1 \in 1 .. Len(q) + 1
          PROVE  Append(q, v)[i] = "0" \/ Append(q, v)[i + 1] = "0"
      <4>1. CASE i + 1 = Len(q) + 1
          BY <3>1, <3>2, <3>5, <4>1
      <4>2. CASE i + 1 # Len(q) + 1
          BY <3>2, <3>3, <3>5, <4>2
      <4> QED
          BY <4>1, <4>2
    <3> QED
        BY <1>2, <2>1, <3>2, <3>4, <3>5
  <2>2. CASE t # s
    <3>1. queue'[t] = queue[t] /\ blink'[t] = blink[t]
        BY <1>1, <2>2 DEF Types
    <3> QED
        BY <3>1 DEF Alternating
  <2> QED
      BY <2>1, <2>2
<1> QED
    BY <1>2, <1>3 DEF Alternating

\* The UI thread shows the first message.
LEMMA HandleStep ==
    ASSUME Types, Alternating, NEW s \in Screens, HandleMessage(s)
    PROVE  /\ queue' \in [Screens -> Seq(Signals)]
           /\ left_light' \in [Screens -> {"white", "yellow", "red"}]
           /\ Alternating'
           /\ "white" \in {left_light[s], left_light'[s]}
           /\ \A t \in Screens \ {s} : left_light'[t] = left_light[t]
<1> DEFINE q == queue[s]
<1>1. /\ q \in Seq(Signals) /\ q # <<>>
      /\ left_light' = [left_light EXCEPT ![s] = Colour[Head(q)]]
      /\ queue' = [queue EXCEPT ![s] = Tail(q)]
      /\ UNCHANGED blink
    BY DEF Types, HandleMessage
<1>2. /\ Head(q) = q[1] /\ Head(q) \in Signals
      /\ Tail(q) \in Seq(Signals)
      /\ Len(Tail(q)) = Len(q) - 1
      /\ Len(q) \in Nat \ {0}
      /\ \A i \in 1 .. Len(Tail(q)) : Tail(q)[i] = q[i + 1]
    BY <1>1, Taken
<1>3. /\ queue' \in [Screens -> Seq(Signals)] /\ queue'[s] = Tail(q)
      /\ left_light' \in [Screens -> {"white", "yellow", "red"}]
      /\ left_light'[s] = Colour[q[1]]
      /\ \A t \in Screens \ {s} : left_light'[t] = left_light[t] /\ queue'[t] = queue[t]
    BY <1>1, <1>2, Colours DEF Types
<1>4. left_light[s] = "white" \/ Colour[q[1]] = "white"
    BY <1>1, <1>2, Colours DEF Alternating
<1>5. ASSUME NEW t \in Screens
      PROVE  /\ queue'[t] # <<>> => left_light'[t] = "white" \/ queue'[t][1] = "0"
             /\ \A i \in 1 .. Len(queue'[t]) :
                   i + 1 \in 1 .. Len(queue'[t]) => queue'[t][i] = "0" \/ queue'[t][i + 1] = "0"
             /\ blink'[t] \in Between =>
                   IF queue'[t] = <<>> THEN left_light'[t] = "white"
                                       ELSE queue'[t][Len(queue'[t])] = "0"
  <2>1. CASE t = s
    <3>1. /\ \A i \in 1 .. Len(q) : i + 1 \in 1 .. Len(q) => q[i] = "0" \/ q[i + 1] = "0"
          /\ blink[s] \in Between => q[Len(q)] = "0"
        BY <1>1 DEF Alternating
    <3>2. /\ Tail(q) # <<>> => q[1] = "0" \/ Tail(q)[1] = "0"
          /\ \A i \in 1 .. Len(Tail(q)) :
                i + 1 \in 1 .. Len(Tail(q)) => Tail(q)[i] = "0" \/ Tail(q)[i + 1] = "0"
          /\ Tail(q) = <<>> => Len(q) = 1
          /\ Tail(q) # <<>> => Tail(q)[Len(Tail(q))] = q[Len(q)]
        BY <1>1, <1>2, <3>1, Rest
    <3>3. Tail(q) # <<>> => left_light'[s] = "white" \/ Tail(q)[1] = "0"
        BY <1>3, <3>2, Colours
    <3>4. blink'[s] \in Between /\ Tail(q) = <<>> => left_light'[s] = "white"
        BY <1>1, <1>3, <3>1, <3>2, Colours
    <3> HIDE DEF q
    <3> QED
        BY <1>1, <1>3, <2>1, <3>1, <3>2, <3>3, <3>4
  <2>2. CASE t # s
    <3>1. queue'[t] = queue[t] /\ left_light'[t] = left_light[t] /\ blink'[t] = blink[t]
        BY <1>1, <1>3, <2>2
    <3> QED
        BY <3>1 DEF Alternating
  <2> QED
      BY <2>1, <2>2
<1> QED
    BY <1>3, <1>4, <1>5, Colours DEF Alternating

\* A view that gets no message goes on from where it was.
LEMMA SilentStep ==
    ASSUME Types, Alternating, NEW s \in Screens, blink[s] \in Between,
           NEW l \in Between \cup {"lit1", "lit2"}, To(s, l), UNCHANGED <<queue, left_light>>
    PROVE  Alternating'
BY DEF Types, Alternating, To

\* A round of left_blink, one condition at a time.
LEMMA BlinkStep ==
    ASSUME Types, Alternating, NEW s \in Screens, Blink(s)
    PROVE  /\ queue' \in [Screens -> Seq(Signals)]
           /\ blink' \in [Screens -> Between \cup {"lit1", "lit2"}]
           /\ check' \in [Screens -> Signals \cup {"-1"}]
           /\ Alternating'
           /\ blink[s] # "unused" /\ \A t \in Screens \ {s} : blink'[t] = blink[t]
           /\ UNCHANGED <<net, screens, polls, left_light>>
<1>1. ASSUME NEW v \in Signals, NEW l \in Between \cup {"lit1", "lit2"}, Post(s, v), To(s, l),
             v = "0" \/ (blink[s] \in Between /\ l \notin Between), UNCHANGED left_light
      PROVE  queue' \in [Screens -> Seq(Signals)] /\ Alternating'
  <2>1. blink'[s] = l /\ blink' = [blink EXCEPT ![s] = blink'[s]]
      BY <1>1 DEF To, Types
  <2> QED
      BY <1>1, <2>1, PostStep
<1>2. ASSUME NEW l \in Between \cup {"lit1", "lit2"}, To(s, l)
      PROVE  blink' \in [Screens -> Between \cup {"lit1", "lit2"}]
    BY <1>2 DEF To, Types
<1>3. ASSUME Zero(s)
      PROVE  /\ queue' \in [Screens -> Seq(Signals)] /\ Alternating'
             /\ blink' \in [Screens -> Between \cup {"lit1", "lit2"}]
             /\ check' \in [Screens -> Signals \cup {"-1"}]
             /\ UNCHANGED <<net, screens, polls, left_light>>
  <2>1. /\ blink[s] \in Between /\ To(s, "one")
        /\ check' \in [Screens -> Signals \cup {"-1"}]
        /\ UNCHANGED <<net, screens, polls, left_light>>
        /\ Post(s, "0") \/ UNCHANGED queue
      BY <1>3 DEF Zero, Types, Signals, Between
  <2> QED
      BY <1>1, <1>2, <2>1, SilentStep DEF Types, Signals, Between
<1>4. ASSUME NEW label \in {"one", "two"}, NEW v \in {"1", "2"}, NEW next \in {"zero", "two"},
             Look(s, label, v, next)
      PROVE  /\ queue' \in [Screens -> Seq(Signals)] /\ Alternating'
             /\ blink' \in [Screens -> Between \cup {"lit1", "lit2"}]
             /\ UNCHANGED <<net, screens, polls, check, left_light>>
  <2>1. /\ blink[s] \in Between
        /\ UNCHANGED <<net, screens, polls, check, left_light>>
        /\ \/ Post(s, v) /\ To(s, Lit(v))
           \/ UNCHANGED queue /\ To(s, next)
      BY <1>4 DEF Look, Between
  <2>2. Lit(v) \in {"lit1", "lit2"} /\ Lit(v) \notin Between /\ next \in Between /\ v \in Signals
      BY DEF Lit, Between, Signals
  <2>3. CASE Post(s, v) /\ To(s, Lit(v))
      BY <1>1, <1>2, <2>1, <2>2, <2>3
  <2>4. CASE UNCHANGED queue /\ To(s, next)
      BY <1>2, <2>1, <2>2, <2>4, SilentStep DEF Types
  <2> QED
      BY <2>1, <2>3, <2>4
<1>5. ASSUME NEW v \in {"1", "2"}, NEW next \in {"zero", "two"}, White(s, v, next)
      PROVE  /\ queue' \in [Screens -> Seq(Signals)] /\ Alternating'
             /\ blink' \in [Screens -> Between \cup {"lit1", "lit2"}]
             /\ check' \in [Screens -> Signals \cup {"-1"}]
             /\ UNCHANGED <<net, screens, polls, left_light>>
  <2>1. /\ Post(s, "0") /\ To(s, next)
        /\ check' \in [Screens -> Signals \cup {"-1"}]
        /\ UNCHANGED <<net, screens, polls, left_light>>
      BY <1>5 DEF White, Types, Signals
  <2> QED
      BY <1>1, <1>2, <2>1 DEF Signals, Between
<1>6. blink[s] # "unused" /\ \A t \in Screens \ {s} : blink'[t] = blink[t]
  <2>1. \E l \in Between \cup {"lit1", "lit2"} : To(s, l)
      BY DEF Blink, Zero, Look, White, Between, Lit
  <2>2. blink[s] # "unused"
      BY DEF Blink, Zero, Look, White, Lit
  <2> QED
      BY <2>1, <2>2 DEF To, Types
<1> QED
    BY <1>3, <1>4, <1>5, <1>6 DEF Blink, Types

\* The pollers: a failed one is replaced by one.
LEMMA PollerStep ==
    ASSUME Types, OnePoller, NEW t \in Threads, Poll(t)
    PROVE  /\ poller' \in [Threads -> {"unused", "get", "store"}]
           /\ con' \in [Threads -> [value : Values, number : Nat]]
           /\ left_check' \in [value : Values, number : Nat]
           /\ OnePoller'
           /\ screens' = 1 => left_check'.number >= left_check.number
           /\ UNCHANGED <<light, screens, views>>
<1> USE DEF Types, OnePoller
<1>1. CASE Get(t)
  <2>1. /\ poller[t] = "get"
        /\ con' = [con EXCEPT ![t] = light]
        /\ poller' = [poller EXCEPT ![t] = "store"]
        /\ UNCHANGED <<light, screens, left_check, views>>
      BY <1>1 DEF Get, net
  <2>2. /\ con' \in [Threads -> [value : Values, number : Nat]]
        /\ poller' \in [Threads -> {"unused", "get", "store"}]
        /\ light.number \in Nat /\ left_check.number \in Nat
      BY <2>1
  <2>3. OnePoller'
      BY <2>1, <2>2
  <2> QED
      BY <2>1, <2>2, <2>3
<1>2. CASE Store(t)
  <2>1. /\ poller[t] = "store"
        /\ left_check' = con[t]
        /\ con' = [con EXCEPT ![t] = NoCon]
        /\ poller' = [poller EXCEPT ![t] = "get"]
        /\ UNCHANGED <<light, screens, views>>
      BY <1>2 DEF Store, net
  <2>2. /\ con' \in [Threads -> [value : Values, number : Nat]]
        /\ left_check' \in [value : Values, number : Nat]
        /\ poller' \in [Threads -> {"unused", "get", "store"}]
      BY <2>1 DEF NoCon, Values
  <2>3. screens \in Nat /\ light.number \in Nat /\ left_check.number \in Nat
      OBVIOUS
  <2>4. screens <= 1 => /\ con[t].number <= light.number
                        /\ con[t].number >= left_check.number
                        /\ \A u \in Threads : poller'[u] # "store"
    <3> SUFFICES ASSUME screens <= 1
                 PROVE  /\ con[t].number <= light.number
                        /\ con[t].number >= left_check.number
                        /\ \A u \in Threads : poller'[u] # "store"
        OBVIOUS
    <3>1. screens = 1
        BY <2>1, <2>3
    <3>2. \A u \in Threads : u # t => poller[u] = "unused"
        BY <2>1, <3>1
    <3> QED
        BY <2>1, <3>2
  <2>5. OnePoller'
      BY <2>1, <2>3, <2>4
  <2> QED
      BY <2>1, <2>2, <2>3, <2>4, <2>5
<1>3. CASE Fail(t)
  <2>1. PICK u \in Threads : Unused(u) /\ poller' = [poller EXCEPT ![u] = "get", ![t] = "unused"]
      BY <1>3 DEF Fail
  <2>2. poller[t] = "get" /\ poller[u] = "unused" /\ UNCHANGED <<light, screens, con, left_check, views>>
      BY <1>3, <2>1 DEF Fail, Unused
  <2>3. /\ poller' \in [Threads -> {"unused", "get", "store"}]
        /\ \A w \in Threads : /\ poller'[w] # "unused" => w = u \/ (w # t /\ poller[w] # "unused")
                              /\ poller'[w] = "store" => poller[w] = "store"
      BY <2>1, <2>2
  <2>4. screens \in Nat /\ light.number \in Nat /\ left_check.number \in Nat
      OBVIOUS
  <2>5. screens # 0
      BY <2>2
  <2>6. OnePoller'
      BY <2>2, <2>3, <2>4, <2>5
  <2> QED
      BY <2>2, <2>3, <2>4, <2>6
<1> QED
    BY <1>1, <1>2, <1>3 DEF Poll

\* A new activity brings one poller, and a view that is white.
LEMMA OpenStep == ASSUME IInv, Open PROVE IInv'
<1> USE NaviAssumption DEF IInv, Types, Screens
<1>1. /\ screens' = screens + 1 /\ screens' \in Screens
      /\ blink' = [blink EXCEPT ![screens'] = "zero"]
      /\ UNCHANGED <<light, con, left_check, check, queue, left_light>>
    BY DEF Open, net
<1>2. PICK t \in Threads : Unused(t) /\ poller' = [poller EXCEPT ![t] = "get"]
    BY DEF Open
<1>3. Types'
  <2>1. screens' \in Nat
      BY <1>1
  <2>2. blink' \in [Screens -> Between \cup {"lit1", "lit2"}]
      BY <1>1 DEF Between
  <2>3. poller' \in [Threads -> {"unused", "get", "store"}]
      BY <1>2
  <2> QED
      BY <1>1, <2>1, <2>2, <2>3
<1>4. Alternating'
  <2>1. ASSUME NEW s \in Screens, blink'[s] \in Between
        PROVE  IF queue[s] = <<>> THEN left_light[s] = "white" ELSE queue[s][Len(queue[s])] = "0"
      BY <1>1, <2>1 DEF Alternating, Unborn, Between
  <2> QED
      BY <1>1, <2>1 DEF Alternating
<1>5. OnePoller'
    BY <1>1, <1>2 DEF OnePoller, Unused
<1>6. Unborn'
    BY <1>1 DEF Unborn
<1> QED
    BY <1>3, <1>4, <1>5, <1>6

\* The inductive invariant: types, alternation of the colours, and one poller
\* for one activity.
THEOREM Inductive == Spec => []IInv
<1>1. Init => IInv
  <2> SUFFICES ASSUME Init PROVE IInv
      OBVIOUS
  <2>1. Types
      BY DEF Init, Types, Signals, NoCon, Values, Between
  <2> QED
      BY <2>1 DEF Init, IInv, Alternating, OnePoller, Unborn
<1>2. IInv /\ [Next]_vars => IInv'
  <2> SUFFICES ASSUME IInv, [Next]_vars PROVE IInv'
      OBVIOUS
  <2>1. CASE Signal
    <3>1. /\ light' \in [value : Signals, number : {light.number + 1}]
          /\ UNCHANGED <<screens, polls, views>>
        BY <2>1 DEF Signal
    <3>2. /\ light.number \in Nat /\ light'.number = light.number + 1
          /\ light' \in [value : Values, number : Nat]
        BY <3>1 DEF IInv, Types, Values
    <3>3. left_check.number \in Nat /\ \A t \in Threads : con[t].number \in Nat
        BY DEF IInv, Types
    <3> QED
        BY <3>1, <3>2, <3>3 DEF IInv, Types, Unborn, Alternating, OnePoller, polls, views
  <2>2. CASE Open
      BY <2>2, OpenStep
  <2>3. ASSUME NEW t \in Threads, Poll(t) PROVE IInv'
      BY <2>3, PollerStep DEF IInv, Types, Unborn, Alternating, views
  <2>4. ASSUME NEW s \in Screens, Blink(s) PROVE IInv'
      BY <2>4, BlinkStep DEF IInv, Types, Unborn, OnePoller, net, polls
  <2>5. ASSUME NEW s \in Screens, HandleMessage(s) PROVE IInv'
      BY <2>5, HandleStep DEF IInv, Types, Unborn, OnePoller, HandleMessage, net, polls
  <2>6. CASE UNCHANGED vars
      BY <2>6 DEF vars, IInv, Types, Unborn, Alternating, OnePoller, net, polls, views
  <2> QED
      BY <2>1, <2>2, <2>3, <2>4, <2>5, <2>6 DEF Next
<1> QED
    BY <1>1, <1>2, PTL DEF Spec

\* Between two colours of a view there is white.
THEOREM AlwaysWhite == Spec => WhiteBetween
<1>1. ASSUME IInv, [Next]_vars
      PROVE  [\A s \in Screens :
                 left_light'[s] # left_light[s] => "white" \in {left_light[s], left_light'[s]}]_vars
  <2>1. ASSUME NEW t \in Threads, Poll(t) PROVE UNCHANGED left_light
      BY <1>1, <2>1, PollerStep DEF IInv, views
  <2>2. ASSUME NEW s \in Screens, Blink(s) PROVE UNCHANGED left_light
      BY <1>1, <2>2, BlinkStep DEF IInv
  <2>3. CASE Signal \/ Open
      BY <2>3 DEF Signal, Open, views
  <2>4. ASSUME NEW s \in Screens, HandleMessage(s)
        PROVE  \A u \in Screens :
                 left_light'[u] # left_light[u] => "white" \in {left_light[u], left_light'[u]}
      BY <1>1, <2>4, HandleStep DEF IInv
  <2> QED
      BY <1>1, <2>1, <2>2, <2>3, <2>4 DEF Next
<1> QED
    BY <1>1, Inductive, PTL DEF Spec, WhiteBetween

\* One activity's left_check never goes back, whatever fails.
THEOREM Forwards == Spec => NeverBackwards
<1>1. ASSUME IInv, [Next]_vars
      PROVE  [screens' = 1 => left_check'.number >= left_check.number]_vars
  <2>1. left_check.number \in Nat
      BY <1>1 DEF IInv, Types
  <2>2. ASSUME NEW t \in Threads, Poll(t)
        PROVE  screens' = 1 => left_check'.number >= left_check.number
      BY <1>1, <2>2, PollerStep DEF IInv
  <2>3. ASSUME NEW s \in Screens, Blink(s) PROVE UNCHANGED left_check
      BY <1>1, <2>3, BlinkStep DEF IInv, polls
  <2>4. ASSUME Signal \/ Open PROVE UNCHANGED left_check
      BY <2>4 DEF Signal, Open, polls
  <2>5. ASSUME NEW s \in Screens, HandleMessage(s) PROVE UNCHANGED left_check
      BY <2>5 DEF HandleMessage, polls
  <2>6. ASSUME UNCHANGED left_check
        PROVE  screens' = 1 => left_check'.number >= left_check.number
      BY <2>1, <2>6
  <2>7. ASSUME Next PROVE screens' = 1 => left_check'.number >= left_check.number
    <3>1. (UNCHANGED left_check) \/ (\E t \in Threads : Poll(t))
        BY <2>3, <2>4, <2>5, <2>7 DEF Next
    <3> QED
        BY <2>2, <2>6, <3>1
  <2> QED
      BY <1>1, <2>7
<1> QED
    BY <1>1, Inductive, PTL DEF Spec, NeverBackwards

\* The pollers alive.
Alive == {t \in Threads : poller[t] # "unused"}

LEMMA AliveFinite == IsFiniteSet(Alive)
<1>1. IsFiniteSet(Threads)
  <2>1. MaxScreens + 1 \in Int
      BY NaviAssumption DEF NaviAssumption
  <2> QED
      BY <2>1, FS_Interval DEF Threads
<1> QED
    BY <1>1, FS_Subset DEF Alive

\* However often pollers fail, as many are alive as there were activities.
THEOREM AsManyAsScreens == Spec => []OnePollerEach
<1>1. Init => OnePollerEach
  <2> SUFFICES ASSUME Init PROVE OnePollerEach
      OBVIOUS
  <2>1. Alive = {} /\ screens = 0
      BY DEF Init, Alive
  <2> QED
      BY <2>1, FS_EmptySet DEF OnePollerEach, Alive
<1>2. IInv /\ OnePollerEach /\ [Next]_vars => OnePollerEach'
  <2> SUFFICES ASSUME IInv, OnePollerEach, [Next]_vars PROVE OnePollerEach'
      OBVIOUS
  <2>1. poller \in [Threads -> {"unused", "get", "store"}] /\ Cardinality(Alive) = screens
      BY DEF IInv, Types, OnePollerEach, Alive
  <2>2. ASSUME UNCHANGED <<poller, screens>> PROVE OnePollerEach'
      BY <2>1, <2>2 DEF OnePollerEach, Alive
  <2>3. CASE Open
    <3>1. PICK t \in Threads : poller[t] = "unused" /\ poller' = [poller EXCEPT ![t] = "get"]
        BY <2>3 DEF Open, Unused
    <3>2. Alive' = Alive \cup {t} /\ t \notin Alive /\ screens' = screens + 1
        BY <2>1, <2>3, <3>1 DEF Open, Alive
    <3> QED
        BY <2>1, <3>2, AliveFinite, FS_AddElement DEF OnePollerEach, Alive
  <2>4. ASSUME NEW t \in Threads, Get(t) \/ Store(t) PROVE OnePollerEach'
    <3>1. Alive' = Alive /\ screens' = screens
        BY <2>1, <2>4 DEF Get, Store, Alive
    <3> QED
        BY <2>1, <3>1 DEF OnePollerEach, Alive
  <2>5. ASSUME NEW t \in Threads, Fail(t) PROVE OnePollerEach'
    <3>1. PICK u \in Threads :
             /\ poller[u] = "unused"
             /\ poller' = [poller EXCEPT ![u] = "get", ![t] = "unused"]
        BY <2>5 DEF Fail, Unused
    <3>2. poller[t] = "get" /\ screens' = screens
        BY <2>5 DEF Fail
    <3>3. Alive' = (Alive \ {t}) \cup {u} /\ t \in Alive /\ u \notin Alive \ {t}
        BY <2>1, <3>1, <3>2 DEF Alive
    <3>4. Cardinality(Alive') = Cardinality(Alive) - 1 + 1 /\ Cardinality(Alive) \in Nat
      <4>1. Cardinality(Alive) \in Nat
          BY AliveFinite, FS_CardinalityType
      <4>2. IsFiniteSet(Alive \ {t}) /\ Cardinality(Alive \ {t}) = Cardinality(Alive) - 1
          BY <3>3, AliveFinite, FS_RemoveElement
      <4>3. Cardinality((Alive \ {t}) \cup {u}) = Cardinality(Alive \ {t}) + 1
          BY <3>3, <4>2, FS_AddElement
      <4> QED
          BY <3>3, <4>1, <4>2, <4>3
    <3> QED
        BY <2>1, <3>2, <3>4 DEF OnePollerEach, Alive
  <2>6. ASSUME NEW s \in Screens, Blink(s) PROVE UNCHANGED <<poller, screens>>
      BY <2>6, BlinkStep DEF IInv, polls
  <2>7. ASSUME NEW s \in Screens, HandleMessage(s) PROVE UNCHANGED <<poller, screens>>
      BY <2>7 DEF HandleMessage, polls
  <2>8. Signal \/ UNCHANGED vars => UNCHANGED <<poller, screens>>
      BY DEF Signal, vars, polls
  <2> QED
      BY <2>2, <2>3, <2>4, <2>5, <2>6, <2>7, <2>8 DEF Next, Poll
<1> QED
    BY <1>1, <1>2, Inductive, PTL DEF Spec

-----------------------------------------------------------------------------
(* The map. *)

\* A request that has its answer has a location, and one that has set it
\* leaves it known until the process ends.
Known ==
    /\ \A c \in Clicks : pc[c] = "received" => msg[c] # Unknown
    /\ (\E c \in Clicks : pc[c] = "set") => location # Unknown

\* What every request can still write is as new as the clicks it was not in
\* hand at, and so is what their own requests have written.
Newer ==
    \A c \in Clicks :
        /\ before[c] <= stored
        /\ pc[c] = "unused" => ~own[c]
        /\ pc[c] # "unused" /\ ~inHand[c]
              => /\ \A d \in Clicks : pc[d] = "received" => msg[d] >= before[c]
                 /\ pc[c] = "set" => location >= before[c]

MapInv == MapTypeOK /\ Known /\ Newer /\ FreshMap

\* Numbers and states keep their types.
LEMMA MapTypes == MapTypeOK /\ [MapNext]_mapVars => MapTypeOK'
<1> SUFFICES ASSUME MapTypeOK, [MapNext]_mapVars PROVE MapTypeOK'
    OBVIOUS
<1> USE DEF MapTypeOK, Unknown
<1>1. ASSUME NEW c \in Clicks, Click(c) PROVE MapTypeOK'
    BY <1>1 DEF Click, Launch
<1>2. ASSUME NEW c \in Clicks, Serve(c) \/ Fails(c) \/ Receive(c) PROVE MapTypeOK'
    BY <1>2 DEF Serve, Fails, Receive, screen, history
<1>3. ASSUME NEW c \in Clicks, OnMapReady(c) PROVE MapTypeOK'
  <2>1. CASE location = Unknown
      BY <1>3, <2>1 DEF OnMapReady, ProcessEnds
  <2>2. CASE location # Unknown
    <3>1. /\ map' \in [Clicks -> {"none", "launched", "shown", "restored", "closed"}]
          /\ shown' \in [Clicks -> Nat]
        BY <1>3, <2>2 DEF OnMapReady
    <3>2. own' = [own EXCEPT ![c] = (pc[c] = "set")]
        BY <1>3, <2>2 DEF OnMapReady
    <3>3. own' \in [Clicks -> BOOLEAN]
        BY <3>2, Zenon
    <3> QED
        BY <1>3, <2>2, <3>1, <3>3 DEF OnMapReady
  <2> QED
      BY <2>1, <2>2
<1>4. ASSUME NEW c \in Clicks, Back(c) PROVE MapTypeOK'
    BY <1>4 DEF Back, request, history
<1>5. ASSUME Kill \/ Upload PROVE MapTypeOK'
    BY <1>5 DEF Kill, Upload, ProcessEnds, request, screen, history
<1>6. CASE UNCHANGED mapVars
    BY <1>6 DEF mapVars, request, screen, history
<1> QED
    BY <1>1, <1>2, <1>3, <1>4, <1>5, <1>6 DEF MapNext

\* The location is not forgotten while the process lives.
LEMMA KnownStep == MapTypeOK /\ Known /\ [MapNext]_mapVars => Known'
<1> SUFFICES ASSUME MapTypeOK, Known, [MapNext]_mapVars PROVE Known'
    OBVIOUS
<1> USE DEF MapTypeOK, Known
<1>1. ASSUME NEW c \in Clicks, Click(c) PROVE Known'
    BY <1>1 DEF Click, Launch
<1>2. ASSUME NEW c \in Clicks, Serve(c) PROVE Known'
    BY <1>2 DEF Serve
<1>3. ASSUME NEW c \in Clicks, Fails(c) PROVE Known'
    BY <1>3 DEF Fails
<1>4. ASSUME NEW c \in Clicks, Receive(c) PROVE Known'
    BY <1>4 DEF Receive
<1>5. ASSUME NEW c \in Clicks, OnMapReady(c) PROVE Known'
    BY <1>5 DEF OnMapReady, ProcessEnds
<1>6. ASSUME NEW c \in Clicks, Back(c) PROVE Known'
    BY <1>6 DEF Back, request
<1>7. CASE Kill
    BY <1>7 DEF Kill, ProcessEnds
<1>8. CASE Upload
    BY <1>8 DEF Upload, request
<1>9. CASE UNCHANGED mapVars
    BY <1>9 DEF mapVars, request
<1> QED
    BY <1>1, <1>2, <1>3, <1>4, <1>5, <1>6, <1>7, <1>8, <1>9 DEF MapNext

\* Answers grow with what is stored, so only an answer in hand can be old.
LEMMA NewerStep == MapTypeOK /\ Newer /\ FreshMap /\ [MapNext]_mapVars => Newer' /\ FreshMap'
<1> SUFFICES ASSUME MapTypeOK, Newer, FreshMap, [MapNext]_mapVars PROVE Newer' /\ FreshMap'
    OBVIOUS
<1> USE DEF MapTypeOK, Newer, FreshMap
<1>1. ASSUME NEW c \in Clicks, Click(c) PROVE Newer' /\ FreshMap'
    BY <1>1 DEF Click, Launch
<1>2. ASSUME NEW c \in Clicks, Serve(c) PROVE Newer' /\ FreshMap'
    BY <1>2 DEF Serve, screen, history
<1>3. ASSUME NEW c \in Clicks, Fails(c) PROVE Newer' /\ FreshMap'
    BY <1>3 DEF Fails, screen, history
<1>4. ASSUME NEW c \in Clicks, Receive(c) PROVE Newer' /\ FreshMap'
    BY <1>4 DEF Receive, screen, history
<1>5. ASSUME NEW c \in Clicks, OnMapReady(c) PROVE Newer' /\ FreshMap'
  <2>1. CASE location = Unknown
      BY <1>5, <2>1 DEF OnMapReady, ProcessEnds
  <2>2. CASE location # Unknown
      BY <1>5, <2>2 DEF OnMapReady
  <2> QED
      BY <2>1, <2>2
<1>6. ASSUME NEW c \in Clicks, Back(c) PROVE Newer' /\ FreshMap'
    BY <1>6 DEF Back, request, history
<1>7. CASE Kill
    BY <1>7 DEF Kill, ProcessEnds, history
<1>8. CASE Upload
    BY <1>8 DEF Upload, request, screen, history
<1>9. CASE UNCHANGED mapVars
    BY <1>9 DEF mapVars, request, screen, history
<1> QED
    BY <1>1, <1>2, <1>3, <1>4, <1>5, <1>6, <1>7, <1>8, <1>9 DEF MapNext

\* The inductive invariant: types, the location known once it is set, and the
\* age of every answer.
THEOREM MapInductive == MapSpec => []MapInv
<1>1. MapInit => MapInv
    BY MapAssumption DEF MapInit, MapInv, MapTypeOK, Known, Newer, FreshMap, Unknown
<1>2. MapInv /\ [MapNext]_mapVars => MapInv'
    BY MapTypes, KnownStep, NewerStep DEF MapInv
<1> QED
    BY <1>1, <1>2, PTL DEF MapSpec

\* A map that waited for its own request is as new as its click, unless an
\* older answer was in hand then.
THEOREM MapFresh == MapSpec => []FreshMap
<1>1. MapInv => FreshMap
    BY DEF MapInv
<1> QED
    BY <1>1, MapInductive, PTL

\* Once a request has set the location no map crashes until the process ends.
THEOREM NoCrashOnceKnown == MapSpec => KnownStaysKnown
<1>1. ASSUME MapInv, [MapNext]_mapVars
      PROVE  [crashes' # crashes => \A c \in Clicks : pc[c] # "set"]_mapVars
  <2> USE DEF MapInv, Known
  <2>1. ASSUME NEW c \in Clicks, OnMapReady(c)
        PROVE  crashes' # crashes => \A d \in Clicks : pc[d] # "set"
      BY <1>1, <2>1 DEF OnMapReady
  <2>2. ASSUME NEW c \in Clicks, Click(c) \/ Serve(c) \/ Fails(c) \/ Receive(c) \/ Back(c)
        PROVE  crashes' = crashes
      BY <2>2 DEF Click, Launch, Serve, Fails, Receive, Back
  <2>3. ASSUME Kill \/ Upload PROVE crashes' = crashes
      BY <2>3 DEF Kill, Upload
  <2> QED
      BY <1>1, <2>1, <2>2, <2>3 DEF MapNext
<1> QED
    BY <1>1, MapInductive, PTL DEF MapSpec, KnownStaysKnown
=============================================================================
