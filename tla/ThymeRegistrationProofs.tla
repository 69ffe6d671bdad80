---------------------- MODULE ThymeRegistrationProofs ----------------------
(***************************************************************************)
(* What ThymeRegistration guarantees for every configuration, every number *)
(* of losses and refusals: types, and, while answers come before the next  *)
(* tick, that uploads start only when everything is registered, that the   *)
(* process does not die and that the stages follow their order.            *)
(***************************************************************************)
EXTENDS ThymeRegistration, FiniteSetTheorems, TLAPS

\* Stages that count answers.
Counted == {"crtct", "delsub", "crtsub"}

\* The requests on the wire were all sent by one tick, one per target, and the
\* stage has not moved on, unless a 5000 sent it back to the start.
WireInv ==
    \A m \in OpenRegistrations :
        /\ m.op = sh_state \/ (reset /\ sh_state = "crtae")
        /\ \A n \in OpenRegistrations :
              /\ n.op = m.op
              /\ n.to = m.to => n = m

\* While answers are awaited the counters mean what the code uses them for.
CountInv ==
    \A m \in OpenRegistrations : m.op \in Counted =>
        /\ request_count = Cardinality(Targets(m.op))
        /\ return_count = Cardinality(confirmed)
        /\ confirmed \subseteq Targets(m.op)
        /\ m.to \notin confirmed

\* What the answers and the stages reached say about the CSE.
CseInv ==
    /\ \A m \in OpenRegistrations :
          /\ m.op \in {"crtct", "crtsub"} =>
                /\ confirmed \subseteq cse
                /\ m.status \in {2001, 4105, 5106} => m.to \in cse
          /\ m.op \in {"delsub", "crtsub"} => Containers \subseteq cse
    /\ sh_state \in {"delsub", "crtsub", "crtci"} => Containers \subseteq cse
    /\ sh_state = "crtci" => Subs \subseteq cse /\ OpenRegistrations = {}

\* The listener exists only once the registration is over, and is made once.
ProcessInv ==
    /\ running => noti_clients = IF tas_listening THEN 1 ELSE 0
    /\ overlaps = 0 /\ ~reset =>
          running /\ (tas_listening => sh_state = "crtci")

\* The inductive invariant: all but the types and the listener needs answers
\* in time, so that requests of one tick only are open.
IInv ==
    /\ TypeOK
    /\ ProcessInv
    /\ overlaps = 0 => WireInv /\ CountInv /\ CseInv

-----------------------------------------------------------------------------
\* The targets of a stage are finitely many configured resources.
LEMMA TargetsFinite ==
    ASSUME NEW op \in Stages
    PROVE  /\ Targets(op) \subseteq Resources
           /\ IsFiniteSet(Targets(op))
           /\ Cardinality(Targets(op)) \in Nat
<1>1. IsFiniteSet({AE})
  BY FS_Singleton
<1>2. /\ Targets(op) \subseteq Resources
      /\ IsFiniteSet(Targets(op))
  BY <1>1, ConfigAssumption DEF Stages, Targets, Resources
<1>. QED
  BY <1>2, FS_CardinalityType

\* Counting one more target of a stage: the count grows by one, and when it
\* reaches the number of targets every target has been counted.
LEMMA CountedAll ==
    ASSUME NEW T, IsFiniteSet(T), NEW C, C \subseteq T, NEW t \in T, t \notin C
    PROVE  /\ Cardinality(C \cup {t}) = Cardinality(C) + 1
           /\ Cardinality(C) + 1 = Cardinality(T) => C \cup {t} = T
<1>1. IsFiniteSet(C)
  BY FS_Subset
<1>2. Cardinality(C \cup {t}) = Cardinality(C) + 1
  BY <1>1, FS_AddElement
<1>3. C \cup {t} \subseteq T
  OBVIOUS
<1>4. Cardinality(C \cup {t}) = Cardinality(T) => C \cup {t} = T
  BY <1>3, FS_Subset
<1>. QED
  BY <1>2, <1>4

-----------------------------------------------------------------------------
\* Every variable keeps its type (TypeOK), whatever the answers and their order.
LEMMA InitType == Init => TypeOK
<1> SUFFICES ASSUME Init PROVE TypeOK
  OBVIOUS
<1>1. cse \subseteq Resources
  BY Zenon DEF Init, Resources
<1>. QED
  BY <1>1 DEF Init, TypeOK, Stages

\* A completed stage leads to a stage the timer knows.
LEMMA StageDoneType ==
    ASSUME TypeOK, NEW op, StageDone(op)
    PROVE  /\ sh_state' \in Stages
           /\ tas_listening' \in BOOLEAN
           /\ noti_clients' \in Nat
           /\ running' \in BOOLEAN
<1>1. CASE op = "crtsub" /\ EnterCrtci
  <2>1. tas_listening' \in BOOLEAN /\ running' \in BOOLEAN
    BY <1>1, Zenon DEF EnterCrtci
  <2>. QED
    BY <1>1, <2>1 DEF EnterCrtci, TypeOK, Stages
<1>2. CASE sh_state' \in {"delsub", "crtsub"} /\ UNCHANGED server
  BY <1>2 DEF TypeOK, Stages, server
<1>. QED
  BY <1>1, <1>2 DEF StageDone

LEMMA NextType == TypeOK /\ [Next]_vars => TypeOK'
<1> SUFFICES ASSUME TypeOK, [Next]_vars PROVE TypeOK'
  OBVIOUS
<1> USE DEF TypeOK
<1>1. ASSUME NEW op \in Stages, TickAE(op) PROVE TypeOK'
  <2>1. wire' \subseteq Message /\ \A m \in wire' : m.to \in Targets(m.op)
    BY <1>1, TargetsFinite DEF TickAE, Send, Round, Message, Statuses, NoAnswer
  <2>. QED
    BY <1>1, <2>1, ConfigAssumption
    DEF TickAE, Send, Round, counters, server, history
<1>2. ASSUME NEW op \in Stages, TickCounted(op) PROVE TypeOK'
  <2>1. wire' \subseteq Message /\ \A m \in wire' : m.to \in Targets(m.op)
    BY <1>2, TargetsFinite DEF TickCounted, Send, Round, Message, Statuses, NoAnswer
  <2>2. request_count' \in Nat /\ return_count' \in Nat /\ confirmed' = {} /\ overlaps' \in Nat
    BY <1>2, TargetsFinite DEF TickCounted, Send, Round
  <2>3. /\ sh_state' \in Stages
        /\ tas_listening' \in BOOLEAN
        /\ noti_clients' \in Nat
        /\ running' \in BOOLEAN
    BY <1>2, StageDoneType DEF TickCounted, server
  <2>. QED
    BY <1>2, <2>1, <2>2, <2>3 DEF TickCounted
<1>3. ASSUME NEW m \in wire, OnCrtae(m) PROVE TypeOK'
  BY <1>3 DEF OnCrtae, Answered, counters, server, history, Stages
<1>4. ASSUME NEW m \in wire, OnRtvae(m) PROVE TypeOK'
  BY <1>4 DEF OnRtvae, Answered, counters, server, history, Stages
<1>5. ASSUME NEW m \in wire, NEW op \in Stages, OnCounted(m, op) PROVE TypeOK'
  <2>1. wire' \subseteq wire
    BY <1>5 DEF OnCounted, Answered
  <2>2. m.to \in Containers \cup Subs
    BY <1>5 DEF OnCounted, Answered, Targets, Message
  <2>3. return_count' \in Nat /\ confirmed' \subseteq Containers \cup Subs
    BY <1>5, <2>2 DEF OnCounted
  <2>4. /\ sh_state' \in Stages
        /\ tas_listening' \in BOOLEAN
        /\ noti_clients' \in Nat
        /\ running' \in BOOLEAN
    BY <1>5, StageDoneType DEF OnCounted, server
  <2>. QED
    BY <1>5, <2>1, <2>3, <2>4 DEF OnCounted, history
<1>6. ASSUME NEW c \in Containers, TasUpload(c) PROVE TypeOK'
  BY <1>6 DEF TasUpload, counters, server, history, Message, Stages, Resources,
              Statuses, NoAnswer, Targets
<1>7. ASSUME NEW m \in wire, OnCrtci(m) PROVE TypeOK'
  <2>1. CASE sh_state' = "crtae" /\ reset' = TRUE
    BY <2>1, <1>7 DEF OnCrtci, Answered, counters, server, Stages
  <2>2. CASE UNCHANGED <<sh_state, reset>>
    BY <2>2, <1>7 DEF OnCrtci, Answered, counters, server
  <2>3. \/ sh_state' = "crtae" /\ reset' = TRUE
        \/ UNCHANGED <<sh_state, reset>>
    BY <1>7 DEF OnCrtci
  <2>. QED
    BY <2>1, <2>2, <2>3
<1>8. ASSUME NEW m \in wire, CseServes(m) PROVE TypeOK'
  <2>1. PICK status \in Outcomes(m) : Reply(m, status) /\ cse' = Effect(m, status)
    BY <1>8 DEF CseServes
  <2>2. status \in Statuses
    BY <2>1 DEF Outcomes, Statuses, Message, Stages, NoAnswer
  <2>3. wire' \subseteq Message /\ \A n \in wire' : n.to \in Targets(n.op)
    BY <2>1, <2>2 DEF Reply, Message
  <2>4. cse' \subseteq Resources
    BY <2>1 DEF Effect, Message
  <2>. QED
    BY <1>8, <2>3, <2>4 DEF CseServes, counters, server, history
<1>9. ASSUME NEW m \in wire, CseFails(m) PROVE TypeOK'
  <2>1. wire' \subseteq Message /\ \A n \in wire' : n.to \in Targets(n.op)
    BY <1>9 DEF CseFails, Reply, Message, Statuses
  <2>. QED
    BY <1>9, <2>1 DEF CseFails, counters, server
<1>10. ASSUME NEW m \in wire, Lost(m) PROVE TypeOK'
  <2>1. wire' \subseteq Message /\ \A n \in wire' : n.to \in Targets(n.op)
    BY <1>10 DEF Lost, Reply, Message, Statuses
  <2>. QED
    BY <1>10, <2>1 DEF Lost, counters, server
<1>11. CASE UNCHANGED vars
  BY <1>11 DEF vars, counters, server, history
<1>. QED
  BY <1>1, <1>2, <1>3, <1>4, <1>5, <1>6, <1>7, <1>8, <1>9, <1>10, <1>11
  DEF Next, Tick, OnAnswer

\* The types of all variables, for every configuration and every bound.
THEOREM TypeCorrect == Spec => []TypeOK
BY InitType, NextType, PTL DEF Spec

-----------------------------------------------------------------------------
(* The steps of the inductive invariant. *)

Timely == WireInv /\ CountInv /\ CseInv

LEMMA InitInv == Init => IInv
<1> SUFFICES ASSUME Init PROVE IInv
  OBVIOUS
<1>1. OpenRegistrations = {}
  BY DEF Init, OpenRegistrations
<1>2. ProcessInv
  BY DEF Init, ProcessInv
<1>3. WireInv /\ CountInv /\ CseInv
  BY <1>1 DEF Init, WireInv, CountInv, CseInv
<1>. QED
  BY InitType, <1>2, <1>3 DEF IInv

\* A tick keeps the order only when nothing is open; then it sends one round.
LEMMA SendTimely ==
    ASSUME TypeOK, NEW op \in Stages, op # "crtci", Send(op), overlaps' = 0
    PROVE  /\ OpenRegistrations = {}
           /\ overlaps = 0
           /\ OpenRegistrations' = [op : {op}, to : Targets(op), status : {NoAnswer}, round : {0}]
<1>1. OpenRegistrations = {} /\ overlaps = 0
  BY DEF Send, Round, TypeOK
<1>2. wire' = wire \cup [op : {op}, to : Targets(op), status : {NoAnswer}, round : {0}]
  BY <1>1 DEF Send, Round
<1>. QED
  BY <1>1, <1>2 DEF OpenRegistrations

\* Entering crtci keeps the process invariant unless a listener exists.
LEMMA EnterProcess ==
    ASSUME TypeOK, ProcessInv, running, EnterCrtci,
           overlaps' = 0 /\ ~reset' => ~tas_listening
    PROVE  ProcessInv'
<1>1. /\ sh_state' = "crtci"
      /\ tas_listening'
      /\ running' <=> ~tas_listening
  BY Zenon DEF EnterCrtci
<1>2. running' => noti_clients' = 1
  BY <1>1 DEF EnterCrtci, ProcessInv
<1>. QED
  BY <1>1, <1>2 DEF ProcessInv

LEMMA TickAEStep ==
    ASSUME IInv, NEW op \in Stages, TickAE(op)
    PROVE  ProcessInv' /\ (overlaps' = 0 => Timely')
<1>1. op \in {"crtae", "rtvae"} /\ sh_state = op /\ sh_state' = op /\ Send(op)
  BY DEF TickAE
<1>2. ProcessInv'
  <2>1. (overlaps' = 0 => overlaps = 0) /\ UNCHANGED <<server, reset, sh_state>>
    BY SendTimely, <1>1 DEF TickAE, IInv
  <2>. QED
    BY <2>1 DEF IInv, ProcessInv, server
<1>3. ASSUME overlaps' = 0 PROVE Timely'
  <2>1. OpenRegistrations' = [op : {op}, to : {AE}, status : {NoAnswer}, round : {0}]
    BY <1>1, <1>3, SendTimely DEF Targets, IInv
  <2>2. WireInv'
    BY <2>1, <1>1 DEF WireInv
  <2>3. CountInv'
    BY <2>1, <1>1 DEF CountInv, Counted
  <2>4. CseInv'
    BY <2>1, <1>1 DEF CseInv
  <2>. QED
    BY <2>2, <2>3, <2>4 DEF Timely
<1>. QED
  BY <1>2, <1>3

LEMMA TickCountedStep ==
    ASSUME IInv, NEW op \in Stages, TickCounted(op)
    PROVE  ProcessInv' /\ (overlaps' = 0 => Timely')
<1>1. /\ op \in Counted /\ op # "crtci"
      /\ sh_state = op /\ running /\ Send(op)
      /\ request_count' = Cardinality(Targets(op))
      /\ return_count' = 0 /\ confirmed' = {}
      /\ cse' = cse /\ reset' = reset
      /\ Targets(op) # {} => UNCHANGED <<sh_state, server>>
      /\ Targets(op) = {} => StageDone(op)
  BY DEF TickCounted, Counted
<1>2. overlaps' = 0 => overlaps = 0 /\ CseInv
  BY <1>1, SendTimely DEF IInv
<1>3. ProcessInv'
  <2>1. overlaps' = 0 /\ ~reset' => running /\ ~tas_listening
    BY <1>1, <1>2 DEF IInv, ProcessInv
  <2>2. CASE UNCHANGED server
    <3>1. running' => noti_clients' = IF tas_listening' THEN 1 ELSE 0
      BY <2>2 DEF IInv, ProcessInv, server
    <3>2. overlaps' = 0 /\ ~reset' => running' /\ ~tas_listening'
      BY <2>1, <2>2 DEF server
    <3>. QED
      BY <3>1, <3>2 DEF ProcessInv
  <2>3. CASE EnterCrtci
    BY <1>1, <2>1, <2>3, EnterProcess DEF IInv
  <2>. QED
    BY <1>1, <2>2, <2>3 DEF StageDone, server
<1>4. ASSUME overlaps' = 0 PROVE Timely'
  <2>1. OpenRegistrations' = [op : {op}, to : Targets(op), status : {NoAnswer}, round : {0}]
    BY <1>1, <1>4, SendTimely DEF IInv
  <2>2. Cardinality(confirmed') = 0
    BY <1>1, FS_EmptySet
  <2>3. \A m \in OpenRegistrations' : Targets(op) # {} /\ sh_state' = op
    BY <2>1, <1>1
  <2>4. WireInv'
    BY <2>1, <2>3 DEF WireInv
  <2>5. CountInv'
    BY <2>1, <2>2, <1>1 DEF CountInv
  <2>6. op \in {"delsub", "crtsub"} => Containers \subseteq cse
    BY <1>1, <1>2, <1>4 DEF CseInv
  <2>7. CseInv'
    <3>1. CASE UNCHANGED sh_state
      BY <3>1, <2>1, <2>6, <1>1 DEF CseInv, NoAnswer, Counted
    <3>2. CASE Targets(op) = {}
      <4>1. OpenRegistrations' = {}
        BY <3>2, <2>1
      <4>2. /\ op = "crtct" => Containers = {}
            /\ op = "crtsub" => Subs = {}
        BY <3>2 DEF Targets
      <4>3. Containers \subseteq cse /\ (op = "crtsub" => Subs \subseteq cse)
        BY <4>2, <2>6, <1>1 DEF Counted
      <4>. QED
        BY <4>1, <4>3, <1>1, <3>2 DEF CseInv, StageDone, EnterCrtci
    <3>. QED
      BY <3>1, <3>2, <1>1
  <2>. QED
    BY <2>4, <2>5, <2>7 DEF Timely
<1>. QED
  BY <1>3, <1>4

\* Nothing but requests disappearing keeps the invariant.
LEMMA FewerRequests ==
    ASSUME Timely, OpenRegistrations' \subseteq OpenRegistrations,
           UNCHANGED <<sh_state, counters, cse, reset>>
    PROVE  Timely'
<1>1. WireInv'
  BY DEF Timely, WireInv
<1>2. CountInv'
  BY DEF Timely, CountInv, counters
<1>3. CseInv'
  BY DEF Timely, CseInv, counters
<1>. QED
  BY <1>1, <1>2, <1>3 DEF Timely

\* The single request of crtae or rtvae: once answered, nothing is open, and
\* the stage it moves to asks nothing of the CSE.
LEMMA AnswerAEStep ==
    ASSUME IInv, NEW m \in wire, OnCrtae(m) \/ OnRtvae(m)
    PROVE  ProcessInv' /\ (overlaps' = 0 => Timely')
<1>1. /\ m.op \in {"crtae", "rtvae"}
      /\ wire' = wire \ {m}
      /\ UNCHANGED <<counters, cse, server, overlaps, reset>>
      /\ sh_state' \in {sh_state, "crtct", "rtvae"}
  BY DEF OnCrtae, OnRtvae, Answered, history
<1>2. m \in OpenRegistrations
  BY <1>1 DEF OpenRegistrations
<1>3. ASSUME overlaps = 0
      PROVE  /\ OpenRegistrations' = {}
             /\ ~reset => sh_state = m.op
  <2>1. \A n \in OpenRegistrations : n.op = m.op /\ (n.to = m.to => n = m)
    BY <1>2, <1>3 DEF IInv, WireInv
  <2>2. \A n \in OpenRegistrations : n.to = AE
    BY <2>1, <1>1 DEF IInv, TypeOK, Targets, OpenRegistrations
  <2>3. OpenRegistrations = {m}
    BY <1>2, <2>1, <2>2
  <2>4. ~reset => sh_state = m.op
    BY <1>2, <1>3 DEF IInv, WireInv
  <2>. QED
    BY <1>1, <2>3, <2>4 DEF OpenRegistrations
<1>4. ProcessInv'
  BY <1>1, <1>3 DEF IInv, ProcessInv, server
<1>5. ASSUME overlaps' = 0 PROVE Timely'
  <2>1. OpenRegistrations' = {} /\ CseInv
    BY <1>1, <1>3, <1>5 DEF IInv
  <2>. QED
    BY <2>1, <1>1 DEF Timely, WireInv, CountInv, CseInv
<1>. QED
  BY <1>4, <1>5

\* An answer of a counted stage.  When the count reaches the number of
\* requests, every target has been counted: nothing is open any more.
LEMMA OnCountedStep ==
    ASSUME IInv, NEW m \in wire, NEW op \in Stages, OnCounted(m, op)
    PROVE  ProcessInv' /\ (overlaps' = 0 => Timely')
<1>1. /\ op \in Counted /\ m.op = op /\ m.status # NoAnswer
      /\ running
      /\ wire' = wire \ {m}
      /\ m.to \in Targets(op)
      /\ UNCHANGED <<request_count, cse, overlaps, reset>>
  BY DEF OnCounted, Answered, Counted, history, IInv, TypeOK
<1>2. m \in OpenRegistrations /\ OpenRegistrations' = OpenRegistrations \ {m}
  BY <1>1 DEF OpenRegistrations, Counted
<1>3. CASE m.status \notin Accepted(op)
  <2>1. UNCHANGED <<sh_state, counters, server, cse, reset, overlaps>>
    BY <1>1, <1>3 DEF OnCounted, counters
  <2>. QED
    BY <2>1, <1>2, FewerRequests DEF IInv, ProcessInv, Timely, server
<1>4. CASE m.status \in Accepted(op)
  <2>1. /\ return_count' = return_count + 1
        /\ confirmed' = confirmed \cup {m.to}
        /\ return_count' = request_count => StageDone(op)
        /\ return_count' # request_count => UNCHANGED <<sh_state, server>>
    BY <1>4 DEF OnCounted
  <2>2. ASSUME overlaps = 0
        PROVE  /\ confirmed \subseteq Targets(op)
               /\ m.to \notin confirmed
               /\ return_count' = Cardinality(confirmed')
               /\ request_count = Cardinality(Targets(op))
               /\ return_count' = request_count => confirmed' = Targets(op)
               /\ \A n \in OpenRegistrations' : n.op = op /\ n.to \notin confirmed'
               /\ sh_state = op \/ (reset /\ sh_state = "crtae")
               /\ op \in {"crtct", "crtsub"} => confirmed' \subseteq cse
               /\ op \in {"delsub", "crtsub"} => Containers \subseteq cse
    <3>1. WireInv /\ CountInv /\ CseInv
      BY <2>2 DEF IInv
    <3>2. /\ confirmed \subseteq Targets(op)
          /\ m.to \notin confirmed
          /\ return_count = Cardinality(confirmed)
          /\ request_count = Cardinality(Targets(op))
      BY <3>1, <1>1, <1>2 DEF CountInv
    <3>3. /\ return_count' = Cardinality(confirmed')
          /\ return_count' = request_count => confirmed' = Targets(op)
      BY <3>2, <2>1, <1>1, CountedAll, TargetsFinite
    <3>4. \A n \in OpenRegistrations' : n.op = op /\ n.to \notin confirmed'
      BY <3>1, <2>1, <1>1, <1>2 DEF WireInv, CountInv
    <3>5. sh_state = op \/ (reset /\ sh_state = "crtae")
      BY <3>1, <1>1, <1>2 DEF WireInv
    <3>6. op \in {"crtct", "crtsub"} => confirmed' \subseteq cse
      BY <3>1, <2>1, <1>1, <1>2, <1>4 DEF CseInv, Accepted
    <3>7. op \in {"delsub", "crtsub"} => Containers \subseteq cse
      BY <3>1, <1>1, <1>2 DEF CseInv
    <3>. QED
      BY <3>2, <3>3, <3>4, <3>5, <3>6, <3>7
  <2>3. overlaps' = 0 /\ ~reset' => running /\ ~tas_listening
    BY <2>2, <1>1 DEF IInv, ProcessInv, Counted
  <2>4. ProcessInv'
    <3>1. CASE UNCHANGED server
      <4>1. running' => noti_clients' = IF tas_listening' THEN 1 ELSE 0
        BY <3>1 DEF IInv, ProcessInv, server
      <4>2. overlaps' = 0 /\ ~reset' => running' /\ ~tas_listening'
        BY <2>3, <3>1 DEF server
      <4>. QED
        BY <4>1, <4>2 DEF ProcessInv
    <3>2. CASE EnterCrtci
      BY <1>1, <2>3, <3>2, EnterProcess DEF IInv
    <3>. QED
      BY <2>1, <3>1, <3>2 DEF StageDone, server
  <2>5. ASSUME overlaps' = 0, return_count' # request_count PROVE Timely'
    <3>1. UNCHANGED <<sh_state, cse, reset, request_count>> /\ overlaps = 0
      BY <2>1, <2>5, <1>1
    <3>2. WireInv /\ CountInv /\ CseInv
      BY <3>1 DEF IInv
    <3>3. WireInv'
      BY <3>1, <3>2, <1>2 DEF WireInv
    <3>4. CountInv'
      BY <3>1, <2>2, <2>1, <1>1 DEF CountInv
    <3>5. CseInv'
      BY <3>1, <3>2, <2>2, <1>2 DEF CseInv
    <3>. QED
      BY <3>3, <3>4, <3>5 DEF Timely
  <2>6. ASSUME overlaps' = 0, return_count' = request_count PROVE Timely'
    <3>1. overlaps = 0 /\ StageDone(op) /\ confirmed' = Targets(op) /\ cse' = cse
      BY <2>1, <2>2, <2>6, <1>1
    <3>2. OpenRegistrations' = {}
      <4>1. \A n \in OpenRegistrations' : n.to \in Targets(op) /\ n.to \notin Targets(op)
        BY <3>1, <2>2, <1>2 DEF IInv, TypeOK, OpenRegistrations
      <4>. QED
        BY <4>1
    <3>3. /\ op = "crtct" => Targets(op) = Containers
          /\ op = "crtsub" => Targets(op) = Subs
      BY DEF Targets
    <3>4. /\ Containers \subseteq cse'
          /\ op = "crtsub" => Subs \subseteq cse'
      BY <3>1, <3>3, <2>2, <1>1 DEF Counted
    <3>5. CseInv'
      BY <3>1, <3>2, <3>4 DEF CseInv, StageDone, EnterCrtci
    <3>. QED
      BY <3>2, <3>5 DEF Timely, WireInv, CountInv
  <2>. QED
    BY <2>4, <2>5, <2>6
<1>. QED
  BY <1>3, <1>4

\* An answer put on the wire: the open requests stay the same but for one
\* status, and the CSE may have acted on it.
LEMMA ReplyTimely ==
    ASSUME TypeOK, Timely, NEW m \in wire, NEW status, Reply(m, status),
           UNCHANGED <<sh_state, counters, reset>>,
           cse' \in {cse, Effect(m, status)},
           m.op \in {"crtct", "crtsub"} /\ status \in {2001, 4105, 5106} => m.to \in cse'
    PROVE  Timely'
<1>1. PICK r : /\ r.op = m.op /\ r.to = m.to /\ r.status = status
               /\ m.op = "crtci" => OpenRegistrations' = OpenRegistrations
               /\ m.op # "crtci" =>
                     OpenRegistrations' = (OpenRegistrations \ {m}) \cup {r}
  <2>1. m \in Message
    BY DEF TypeOK
  <2>2. /\ [m EXCEPT !.status = status].op = m.op
        /\ [m EXCEPT !.status = status].to = m.to
        /\ [m EXCEPT !.status = status].status = status
    BY <2>1 DEF Message
  <2>. QED
    BY <2>2 DEF Reply, OpenRegistrations
<1>2. CASE m.op = "crtci"
  <2>1. OpenRegistrations' = OpenRegistrations /\ cse' = cse
    BY <1>1, <1>2 DEF Effect, Creations
  <2>. QED
    BY <2>1, FewerRequests
<1>3. CASE m.op # "crtci"
  <2>1. OpenRegistrations' = (OpenRegistrations \ {m}) \cup {r}
    BY <1>1, <1>3
  <2>2. m \in OpenRegistrations
    BY <1>3 DEF OpenRegistrations
  <2>3. WireInv'
    BY <1>1, <2>1, <2>2 DEF Timely, WireInv
  <2>4. CountInv'
    <3>1. \A n \in OpenRegistrations' :
             \E o \in OpenRegistrations : o.op = n.op /\ o.to = n.to
      BY <1>1, <2>1, <2>2
    <3>. QED
      BY <3>1 DEF Timely, CountInv, counters
  <2>5. \A n \in OpenRegistrations : n.op = m.op
    BY <2>2 DEF Timely, WireInv
  <2>6. Containers \cap Subs = {}
    BY ConfigAssumption
  <2>7. /\ cse \ Subs \subseteq cse'
        /\ m.op # "delsub" => cse \subseteq cse'
    BY DEF Effect, TypeOK, Targets
  <2>8. CseInv'
    <3>1. ASSUME NEW n \in OpenRegistrations', n.op \in {"crtct", "crtsub"}
          PROVE  /\ confirmed' \subseteq cse'
                 /\ n.status \in {2001, 4105, 5106} => n.to \in cse'
      <4>1. m.op = n.op /\ cse \subseteq cse' /\ confirmed' = confirmed
        BY <3>1, <1>1, <2>1, <2>5, <2>7 DEF counters
      <4>2. confirmed \subseteq cse
        BY <4>1, <3>1, <2>2 DEF Timely, CseInv
      <4>3. n.status \in {2001, 4105, 5106} => n.to \in cse'
        BY <4>1, <3>1, <1>1, <2>1 DEF Timely, CseInv
      <4>. QED
        BY <4>1, <4>2, <4>3
    <3>2. ASSUME NEW n \in OpenRegistrations', n.op \in {"delsub", "crtsub"}
          PROVE  Containers \subseteq cse'
      BY <3>2, <1>1, <2>1, <2>2, <2>6, <2>7 DEF Timely, CseInv
    <3>3. sh_state' \in {"delsub", "crtsub", "crtci"} => Containers \subseteq cse'
      BY <2>6, <2>7 DEF Timely, CseInv
    <3>4. sh_state' # "crtci"
      BY <2>2 DEF Timely, CseInv
    <3>. QED
      BY <3>1, <3>2, <3>3, <3>4 DEF CseInv
  <2>. QED
    BY <2>3, <2>4, <2>8 DEF Timely
<1>. QED
  BY <1>2, <1>3

LEMMA CseServesStep ==
    ASSUME IInv, NEW m \in wire, CseServes(m)
    PROVE  ProcessInv' /\ (overlaps' = 0 => Timely')
<1>1. PICK status \in Outcomes(m) : Reply(m, status) /\ cse' = Effect(m, status)
  BY DEF CseServes
<1>2. UNCHANGED <<sh_state, counters, server, overlaps, reset>>
  BY DEF CseServes, history
<1>3. m.op \in {"crtct", "crtsub"} /\ status \in {2001, 4105, 5106} => m.to \in cse'
  BY <1>1 DEF Outcomes, Effect, Creations
<1>4. ProcessInv'
  BY <1>2 DEF IInv, ProcessInv, server
<1>. QED
  BY <1>1, <1>2, <1>3, <1>4, ReplyTimely DEF IInv, Timely

LEMMA FaultStep ==
    ASSUME IInv, NEW m \in wire, CseFails(m) \/ Lost(m)
    PROVE  ProcessInv' /\ (overlaps' = 0 => Timely')
<1>1. UNCHANGED <<sh_state, counters, cse, server, overlaps, reset>>
  BY DEF CseFails, Lost
<1>2. ProcessInv'
  BY <1>1 DEF IInv, ProcessInv, server
<1>3. CASE wire' = wire \ {m}
  <2>1. OpenRegistrations' \subseteq OpenRegistrations
    BY <1>3 DEF OpenRegistrations
  <2>. QED
    BY <2>1, <1>1, <1>2, FewerRequests DEF IInv, Timely
<1>4. CASE Reply(m, 5000) \/ (Reply(m, 9999) /\ m.op = "crtci")
  BY <1>1, <1>2, <1>4, ReplyTimely DEF IInv, Timely
<1>. QED
  BY <1>3, <1>4 DEF CseFails, Lost

LEMMA UploadStep ==
    ASSUME IInv, NEW c \in Containers, TasUpload(c)
    PROVE  ProcessInv' /\ (overlaps' = 0 => Timely')
<1>1. UNCHANGED <<sh_state, counters, cse, server, overlaps, reset>>
  BY DEF TasUpload, history
<1>2. OpenRegistrations' = OpenRegistrations
  BY DEF TasUpload, OpenRegistrations
<1>3. ProcessInv'
  BY <1>1 DEF IInv, ProcessInv, server
<1>. QED
  BY <1>1, <1>2, <1>3, FewerRequests DEF IInv, Timely

\* A 5000 sends the gateway back to the start with requests of the current
\* stage possibly open.
LEMMA OnCrtciStep ==
    ASSUME IInv, NEW m \in wire, OnCrtci(m)
    PROVE  ProcessInv' /\ (overlaps' = 0 => Timely')
<1>1. /\ UNCHANGED <<counters, cse, server, overlaps>>
      /\ m.op = "crtci" /\ wire' = wire \ {m}
      /\ m.status = 5000 => sh_state' = "crtae" /\ reset'
      /\ m.status # 5000 => UNCHANGED <<sh_state, reset>>
  BY DEF OnCrtci, Answered
<1>2. OpenRegistrations' = OpenRegistrations
  BY <1>1 DEF OpenRegistrations
<1>3. CASE m.status # 5000
  BY <1>1, <1>2, <1>3, FewerRequests DEF IInv, Timely, ProcessInv, server
<1>4. CASE m.status = 5000
  <2>1. ProcessInv'
    BY <1>1, <1>4 DEF IInv, ProcessInv, server
  <2>2. ASSUME overlaps' = 0 PROVE Timely'
    BY <1>1, <1>2, <1>4, <2>2 DEF IInv, Timely, WireInv, CountInv, CseInv, counters
  <2>. QED
    BY <2>1, <2>2
<1>. QED
  BY <1>3, <1>4

-----------------------------------------------------------------------------
LEMMA NextInv == IInv /\ [Next]_vars => IInv'
<1> SUFFICES ASSUME IInv, [Next]_vars PROVE IInv'
  OBVIOUS
<1>1. TypeOK'
  BY NextType DEF IInv
<1>2. CASE Next
  BY <1>1, <1>2, TickAEStep, TickCountedStep, AnswerAEStep, OnCountedStep, UploadStep,
     OnCrtciStep, CseServesStep, FaultStep
  DEF Next, Tick, OnAnswer, IInv, Timely
<1>3. CASE UNCHANGED vars
  <2>1. OpenRegistrations' = OpenRegistrations
    BY <1>3 DEF vars, OpenRegistrations
  <2>. QED
    BY <1>1, <1>3, <2>1, FewerRequests
    DEF IInv, Timely, ProcessInv, vars, counters, server, history
<1>. QED
  BY <1>2, <1>3

THEOREM Inductive == Spec => []IInv
BY InitInv, NextInv, PTL DEF Spec

\* Uploads are accepted only when everything is registered, if answers are in
\* time (RegisteredBeforeUpload), for any configuration.
THEOREM RegisteredFirst == Spec => []RegisteredBeforeUpload
<1>1. IInv => RegisteredBeforeUpload
  BY DEF IInv, CseInv, RegisteredBeforeUpload
<1>. QED
  BY <1>1, Inductive, PTL

\* The second listen() needs a late answer or a 5000 (CrashHasCause).
THEOREM CrashCaused == Spec => []CrashHasCause
<1>1. IInv => CrashHasCause
  BY DEF IInv, TypeOK, ProcessInv, CrashHasCause
<1>. QED
  BY <1>1, Inductive, PTL

\* One step, answers in time and no 5000: forward or nowhere.
LEMMA OrderedStep ==
    IInv /\ [Next]_vars
      => [overlaps' = 0 /\ ~reset' /\ sh_state' # sh_state
            => <<sh_state, sh_state'>> \in Forward]_vars
<1> SUFFICES ASSUME IInv, Next, overlaps' = 0, ~reset', sh_state' # sh_state
             PROVE  <<sh_state, sh_state'>> \in Forward
  BY DEF vars
<1>1. ASSUME NEW op \in Stages, TickCounted(op)
      PROVE  <<sh_state, sh_state'>> \in Forward
  BY <1>1 DEF TickCounted, StageDone, EnterCrtci, Forward
<1>2. ASSUME NEW m \in wire, OnCrtae(m) \/ OnRtvae(m)
      PROVE  <<sh_state, sh_state'>> \in Forward
  <2>1. m.op = sh_state
    BY <1>2 DEF OnCrtae, OnRtvae, Answered, history, OpenRegistrations, IInv, WireInv
  <2>. QED
    BY <1>2, <2>1 DEF OnCrtae, OnRtvae, Answered, Forward
<1>3. ASSUME NEW m \in wire, NEW op \in Stages, OnCounted(m, op)
      PROVE  <<sh_state, sh_state'>> \in Forward
  <2>1. sh_state = op
    BY <1>3 DEF OnCounted, Answered, history, OpenRegistrations, IInv, WireInv
  <2>2. StageDone(op)
    BY <1>3 DEF OnCounted
  <2>. QED
    BY <2>1, <2>2 DEF StageDone, EnterCrtci, Forward
<1>4. ASSUME NEW m \in wire, OnCrtci(m) PROVE FALSE
  BY <1>4 DEF OnCrtci
<1>. QED
  BY <1>1, <1>2, <1>3, <1>4
  DEF Next, Tick, TickAE, OnAnswer, TasUpload, CseServes, CseFails, Lost

\* The stages follow each other in order (StageOrder).
THEOREM StagesInOrder == Spec => StageOrder
<1>1. Spec => []IInv /\ [][Next]_vars
  BY Inductive, PTL DEF Spec
<1>. QED
  BY <1>1, OrderedStep, PTL DEF StageOrder
=============================================================================
