-------------------------- MODULE ThymeMqttProofs --------------------------
(***************************************************************************)
(* That the MQTT build of the gateway gets every message once, opens its   *)
(* server twice only for a cause, and uploads only what is registered, for *)
(* any configuration, number of clients and number of broken connections.  *)
(*                                                                         *)
(* A connection after the first does to the stages what a 5000 does to     *)
(* those of the HTTP build: it starts the registration again with requests *)
(* open.  So the lemmas of ThymeRegistrationProofs hold of this build with *)
(* such a connection counted as a reset, and are used as Http!...          *)
(***************************************************************************)
EXTENDS ThymeMqtt, TLAPS

\* Only the newest client is ever subscribed; and none is before the first
\* 'connect' event, after which no client is made.
SubscriberInv ==
    /\ subscribed \subseteq {clients}
    /\ sh_state = "connect" => subscribed = {}

\* No callback and no tick leads back to the first stage.
LEMMA NeverBackToConnect ==
    ASSUME Tick \/ OnAnswer \/ (\E m \in wire : OnCrtci(m))
    PROVE  sh_state' = "connect" => sh_state = "connect"
<1>1. ASSUME NEW op, StageDone(op) PROVE sh_state' # "connect"
  BY <1>1 DEF StageDone, EnterCrtci
<1>2. ASSUME NEW op \in Stages, TickAE(op) \/ TickCounted(op)
      PROVE  sh_state' = "connect" => sh_state = "connect"
  BY <1>1, <1>2 DEF TickAE, TickCounted
<1>3. ASSUME NEW m \in wire, NEW op \in Stages, OnCounted(m, op)
      PROVE  sh_state' = "connect" => sh_state = "connect"
  BY <1>1, <1>3 DEF OnCounted
<1>4. ASSUME NEW m \in wire, OnCrtae(m) \/ OnRtvae(m) \/ OnCrtci(m)
      PROVE  sh_state' = "connect" => sh_state = "connect"
  BY <1>4 DEF OnCrtae, OnRtvae, OnCrtci
<1> QED
  BY <1>2, <1>3, <1>4 DEF Tick, OnAnswer

\* The newest client alone is subscribed.
THEOREM Inductive == MqttSpec => []SubscriberInv
<1>1. MqttInit => SubscriberInv
  BY DEF MqttInit, SubscriberInv
<1>2. SubscriberInv /\ [MqttNext]_mqttVars => SubscriberInv'
  <2> SUFFICES ASSUME SubscriberInv, [MqttNext]_mqttVars PROVE SubscriberInv'
    OBVIOUS
  <2> USE DEF SubscriberInv
  <2>1. CASE ConnectTick
    BY <2>1 DEF ConnectTick, vars
  <2>2. ASSUME NEW c \in Clients, OnConnect(c) PROVE SubscriberInv'
    BY <2>2 DEF OnConnect, Subscribe
  <2>3. ASSUME NEW c \in Clients, Disconnect(c) PROVE SubscriberInv'
    BY <2>3 DEF Disconnect
  <2>4. CASE MqttTick \/ MqttAnswer \/ MqttCrtci
    BY <2>4, NeverBackToConnect DEF MqttTick, MqttAnswer, MqttCrtci, broker
  <2>5. CASE MqttUpload \/ MqttServes \/ MqttFails
    BY <2>5 DEF MqttUpload, MqttServes, MqttFails, TasUpload, CseServes, CseFails, broker
  <2>6. CASE UNCHANGED mqttVars
    BY <2>6 DEF mqttVars, vars, broker
  <2> QED
    BY <2>1, <2>2, <2>3, <2>4, <2>5, <2>6 DEF MqttNext
<1> QED
  BY <1>1, <1>2, PTL DEF MqttSpec

\* An answer or a parking command never comes by two clients.
THEOREM ComesOnce == MqttSpec => []OneSubscriber
<1>1. SubscriberInv => OneSubscriber
  BY DEF SubscriberInv, OneSubscriber
<1> QED
  BY Inductive, <1>1, PTL

-----------------------------------------------------------------------------
(* The stages. *)

Http == INSTANCE ThymeRegistrationProofs WITH reset <- (reset \/ connects > 0)

\* Before the first connection nothing has been sent or opened.
Fresh ==
    /\ wire = {}
    /\ request_count = 0 /\ return_count = 0 /\ confirmed = {}
    /\ cse \subseteq Resources
    /\ tas_listening = FALSE /\ noti_clients = 0 /\ running = TRUE
    /\ overlaps = 0 /\ faults \in Nat /\ reset = FALSE /\ connects = 0

\* From the first connection on, the invariant of the HTTP build.
StagesInv ==
    /\ connects \in Nat
    /\ sh_state = "connect" => Fresh
    /\ sh_state # "connect" => Http!IInv

LEMMA HttpConfig == Http!ConfigAssumption
BY ConfigAssumption DEF ConfigAssumption, Http!ConfigAssumption, Http!IsFiniteSet, IsFiniteSet

\* The definitions of the two builds are the same where reset is not read.
LEMMA SameOperators ==
    /\ Http!Stages = Stages
    /\ Http!Resources = Resources
    /\ Http!Statuses = Statuses
    /\ Http!NoAnswer = NoAnswer
    /\ Http!Message = Message
    /\ Http!OpenRegistrations = OpenRegistrations
    /\ Http!Round = Round
    /\ Http!Creations = Creations
    /\ \A S : Http!Cardinality(S) = Cardinality(S)
    /\ \A op : Http!Targets(op) = Targets(op) /\ Http!Accepted(op) = Accepted(op)
    /\ \A m : Http!HasParent(m) = HasParent(m) /\ Http!Outcomes(m) = Outcomes(m)
    /\ \A m, status : Http!Effect(m, status) = Effect(m, status)
<1>1. \A S : Http!Cardinality(S) = Cardinality(S)
  BY DEF Cardinality, Http!Cardinality
<1>2. Http!Stages = Stages /\ Http!Resources = Resources /\ Http!NoAnswer = NoAnswer
      /\ Http!OpenRegistrations = OpenRegistrations /\ Http!Creations = Creations
  BY DEF Stages, Http!Stages, Resources, Http!Resources, NoAnswer, Http!NoAnswer,
         OpenRegistrations, Http!OpenRegistrations, Creations, Http!Creations
<1>3. Http!Statuses = Statuses
  BY <1>2 DEF Statuses, Http!Statuses
<1>4. Http!Message = Message /\ Http!Round = Round
  BY <1>2, <1>3 DEF Message, Http!Message, Round, Http!Round
<1>5. \A op : Http!Targets(op) = Targets(op) /\ Http!Accepted(op) = Accepted(op)
  BY DEF Targets, Http!Targets, Accepted, Http!Accepted
<1>6. \A m : Http!HasParent(m) = HasParent(m) /\ Http!Outcomes(m) = Outcomes(m)
  BY <1>2 DEF HasParent, Http!HasParent, Outcomes, Http!Outcomes
<1>7. \A m, status : Http!Effect(m, status) = Effect(m, status)
  BY <1>2 DEF Effect, Http!Effect
<1> QED
  BY <1>1, <1>2, <1>3, <1>4, <1>5, <1>6, <1>7

\* Without a new connection a step of the stages or of the CSE is a step of
\* the HTTP build.
LEMMA SameSteps ==
    ASSUME Tick \/ OnAnswer \/ (\E c \in Containers : TasUpload(c))
              \/ (\E m \in wire : OnCrtci(m) \/ CseServes(m) \/ CseFails(m)),
           connects' = connects
    PROVE  Http!Next
<1>1. ASSUME NEW op, Send(op) PROVE Http!Send(op)
  BY <1>1, SameOperators DEF Send, Http!Send
<1>2. ASSUME NEW op, StageDone(op) PROVE Http!StageDone(op)
  BY <1>2 DEF StageDone, Http!StageDone, EnterCrtci, Http!EnterCrtci, server, Http!server
<1>3. ASSUME NEW op \in Stages, TickAE(op) PROVE Http!TickAE(op)
  BY <1>1, <1>3 DEF TickAE, Http!TickAE, counters, Http!counters, server, Http!server
<1>4. ASSUME NEW op \in Stages, TickCounted(op) PROVE Http!TickCounted(op)
  BY <1>1, <1>2, <1>4, SameOperators DEF TickCounted, Http!TickCounted, server, Http!server
<1>5. ASSUME NEW m \in wire, NEW op, Answered(m, op) PROVE Http!Answered(m, op)
  BY <1>5, SameOperators DEF Answered, Http!Answered
<1>6. ASSUME NEW m \in wire, OnCrtae(m) PROVE Http!OnCrtae(m)
  BY <1>5, <1>6 DEF OnCrtae, Http!OnCrtae, counters, Http!counters, server, Http!server,
                    history, Http!history
<1>7. ASSUME NEW m \in wire, OnRtvae(m) PROVE Http!OnRtvae(m)
  BY <1>5, <1>7 DEF OnRtvae, Http!OnRtvae, counters, Http!counters, server, Http!server,
                    history, Http!history
<1>8. ASSUME NEW m \in wire, NEW op \in Stages, OnCounted(m, op) PROVE Http!OnCounted(m, op)
  BY <1>2, <1>5, <1>8, SameOperators
  DEF OnCounted, Http!OnCounted, server, Http!server, history, Http!history
<1>9. ASSUME NEW c \in Containers, TasUpload(c) PROVE Http!TasUpload(c)
  BY <1>9, SameOperators
  DEF TasUpload, Http!TasUpload, counters, Http!counters, server, Http!server,
      history, Http!history
<1>10. ASSUME NEW m \in wire, OnCrtci(m) PROVE Http!OnCrtci(m)
  BY <1>5, <1>10 DEF OnCrtci, Http!OnCrtci, counters, Http!counters, server, Http!server
<1>11. ASSUME NEW m \in wire, CseServes(m) PROVE Http!CseServes(m)
  BY <1>11, SameOperators
  DEF CseServes, Http!CseServes, Reply, Http!Reply, counters, Http!counters,
      server, Http!server, history, Http!history
<1>12. ASSUME NEW m \in wire, CseFails(m) PROVE Http!CseFails(m)
  BY <1>12, SameOperators
  DEF CseFails, Http!CseFails, Reply, Http!Reply, counters, Http!counters,
      server, Http!server
<1> QED
  BY <1>3, <1>4, <1>6, <1>7, <1>8, <1>9, <1>10, <1>11, <1>12, SameOperators
  DEF Tick, Http!Tick, OnAnswer, Http!OnAnswer, Http!Next

\* The first connection begins the registration; a later one begins it again,
\* with requests of the stage before still open.
LEMMA ConnectStep ==
    ASSUME StagesInv, NEW c \in Clients, OnConnect(c) PROVE StagesInv'
<1>1. /\ sh_state' = "crtae"
      /\ UNCHANGED <<counters, wire, cse, server, overlaps, faults, reset>>
  BY DEF OnConnect, history
<1>2. CASE sh_state = "connect"
  <2>1. connects' = 0 /\ Fresh
    BY <1>2 DEF OnConnect, StagesInv
  <2>2. Http!OpenRegistrations' = {}
    BY <1>1, <2>1 DEF Fresh, Http!OpenRegistrations
  <2>3. Http!TypeOK'
    BY <1>1, <2>1, SameOperators DEF Fresh, Http!TypeOK, Stages, counters, server
  <2>4. Http!ProcessInv'
    BY <1>1, <2>1 DEF Fresh, Http!ProcessInv, server
  <2>5. Http!WireInv' /\ Http!CountInv' /\ Http!CseInv'
    BY <1>1, <2>2 DEF Http!WireInv, Http!CountInv, Http!CseInv
  <2> QED
    BY <1>1, <2>1, <2>3, <2>4, <2>5 DEF StagesInv, Http!IInv
<1>3. CASE sh_state # "connect"
  <2>1. connects' \in Nat /\ connects' > 0 /\ Http!IInv
    BY <1>3 DEF OnConnect, StagesInv
  <2>2. Http!OpenRegistrations' = Http!OpenRegistrations
    BY <1>1 DEF Http!OpenRegistrations
  <2>3. Http!TypeOK'
    BY <1>1, <2>1, SameOperators DEF Http!IInv, Http!TypeOK, Stages, counters, server
  <2>4. Http!ProcessInv'
    BY <1>1, <2>1 DEF Http!IInv, Http!ProcessInv, server
  <2>5. overlaps' = 0 => Http!WireInv' /\ Http!CountInv' /\ Http!CseInv'
    BY <1>1, <2>1, <2>2
    DEF Http!IInv, Http!WireInv, Http!CountInv, Http!CseInv, counters
  <2> QED
    BY <1>1, <2>1, <2>3, <2>4, <2>5 DEF StagesInv, Http!IInv
<1> QED
  BY <1>2, <1>3

\* A broken connection only loses requests.
LEMMA DisconnectStep ==
    ASSUME StagesInv, SubscriberInv, NEW c \in Clients, Disconnect(c) PROVE StagesInv'
<1>1. /\ UNCHANGED <<sh_state, counters, cse, server, overlaps, reset, connects>>
      /\ wire' \subseteq wire
      /\ faults' = faults + 1
  BY DEF Disconnect
<1>2. CASE sh_state = "connect"
  BY <1>1, <1>2 DEF StagesInv, Fresh, counters, server
<1>3. CASE sh_state # "connect"
  <2>1. Http!IInv
    BY <1>3 DEF StagesInv
  <2>2. Http!OpenRegistrations' \subseteq Http!OpenRegistrations
    BY <1>1 DEF Http!OpenRegistrations
  <2>3. Http!TypeOK'
    BY <1>1, <2>1 DEF Http!IInv, Http!TypeOK, counters, server
  <2>4. Http!ProcessInv'
    BY <1>1, <2>1 DEF Http!IInv, Http!ProcessInv, server
  <2>5. Http!Timely => Http!Timely'
    BY <1>1, <2>2, Http!FewerRequests, HttpConfig
    DEF Http!ConfigAssumption, counters, Http!counters
  <2> QED
    BY <1>1, <1>3, <2>1, <2>3, <2>4, <2>5 DEF StagesInv, Http!IInv, Http!Timely
<1> QED
  BY <1>2, <1>3

\* The steps of the stages, none of which is possible before the first
\* connection.
LEMMA HttpStep ==
    ASSUME StagesInv, MqttTick \/ MqttAnswer \/ MqttCrtci \/ MqttUpload \/ MqttServes \/ MqttFails
    PROVE  StagesInv'
<1>1. connects' = connects
  BY DEF MqttTick, MqttAnswer, MqttCrtci, MqttUpload, MqttServes, MqttFails, broker
<1>2. Http!Next
  BY <1>1, SameSteps
  DEF MqttTick, MqttAnswer, MqttCrtci, MqttUpload, MqttServes, MqttFails
<1>3. sh_state # "connect" /\ sh_state' # "connect"
  <2>1. ASSUME MqttTick PROVE sh_state # "connect"
    BY <2>1 DEF MqttTick, Tick, TickAE, TickCounted
  <2>2. ASSUME MqttAnswer \/ MqttCrtci \/ MqttServes \/ MqttFails PROVE wire # {}
    BY <2>2 DEF MqttAnswer, MqttCrtci, MqttServes, MqttFails, OnAnswer
  <2>3. ASSUME MqttUpload PROVE sh_state # "connect"
    BY <2>3 DEF MqttUpload, TasUpload
  <2>4. sh_state # "connect"
    BY <2>1, <2>2, <2>3 DEF StagesInv, Fresh
  <2>5. MqttUpload \/ MqttServes \/ MqttFails => sh_state' = sh_state
    BY DEF MqttUpload, MqttServes, MqttFails, TasUpload, CseServes, CseFails
  <2> QED
    BY <2>4, <2>5, NeverBackToConnect DEF MqttTick, MqttAnswer, MqttCrtci
<1>4. Http!IInv'
  BY <1>2, <1>3, Http!NextInv, HttpConfig DEF Http!ConfigAssumption, StagesInv
<1> QED
  BY <1>1, <1>3, <1>4 DEF StagesInv

\* The stages of the MQTT build keep the invariant of the HTTP build, across
\* any number of reconnections.
THEOREM StagesInductive == MqttSpec => []StagesInv
<1>1. MqttInit => StagesInv
  <2> SUFFICES ASSUME MqttInit PROVE StagesInv
    OBVIOUS
  <2>1. cse \subseteq Resources
    BY Zenon DEF MqttInit, Resources
  <2> QED
    BY <2>1, ConfigAssumption DEF MqttInit, StagesInv, Fresh
<1>2. SubscriberInv /\ StagesInv /\ [MqttNext]_mqttVars => StagesInv'
  <2> SUFFICES ASSUME SubscriberInv, StagesInv, [MqttNext]_mqttVars PROVE StagesInv'
    OBVIOUS
  <2>1. ASSUME ConnectTick PROVE StagesInv'
    BY <2>1 DEF ConnectTick, vars, counters, server, history, StagesInv, Fresh
  <2>2. CASE UNCHANGED mqttVars
    <3>1. UNCHANGED connects /\ UNCHANGED <<vars>>
      BY <2>2 DEF mqttVars, broker
    <3>2. UNCHANGED Http!vars
      BY <3>1 DEF vars, counters, server, history, Http!vars, Http!counters, Http!server, Http!history
    <3>3. Http!IInv => Http!IInv'
      BY <3>2, Http!NextInv, HttpConfig DEF Http!ConfigAssumption
    <3> QED
      BY <3>1, <3>3 DEF StagesInv, Fresh, vars, counters, server, history
  <2> QED
    BY <2>1, <2>2, ConnectStep, DisconnectStep, HttpStep DEF MqttNext
<1> QED
  BY <1>1, <1>2, Inductive, PTL DEF MqttSpec

\* The broker ends the gateway only by a connection after the first
\* (MqttCrashHasCause), for any configuration.
THEOREM MqttCrashCaused == MqttSpec => []MqttCrashHasCause
<1>1. Http!IInv => overlaps \in Nat
  BY DEF Http!IInv, Http!TypeOK
<1>2. Http!IInv /\ ~running => connects > 0 \/ reset \/ overlaps # 0
  BY DEF Http!IInv, Http!ProcessInv
<1>3. StagesInv => MqttCrashHasCause
  BY <1>1, <1>2 DEF StagesInv, Fresh, MqttCrashHasCause
<1> QED
  BY <1>3, StagesInductive, PTL

\* Whatever connections broke, uploads start only when everything is
\* registered (MqttRegistered), for any configuration.
THEOREM MqttRegisteredFirst == MqttSpec => []MqttRegistered
<1>1. StagesInv => MqttRegistered
  BY DEF StagesInv, Fresh, Http!IInv, Http!CseInv, MqttRegistered
<1> QED
  BY <1>1, StagesInductive, PTL
=============================================================================
