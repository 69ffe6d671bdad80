----------------------------- MODULE ThymeMqtt -----------------------------
(***************************************************************************)
(* The MQTT build of the gateway, mqtt_app.js with mqtt_adn.js.  Its       *)
(* stages, counters and callbacks are those of the HTTP build, and are     *)
(* taken from ThymeRegistration.  New is the broker between gateway and    *)
(* CSE: before the first stage the timer makes an MQTT client every second *)
(* until one is connected, every client reconnects by itself for ever, and *)
(* every 'connect' event subscribes the newest client and starts the       *)
(* registration again, whatever stage it is in.                            *)
(*                                                                         *)
(* A request on wire stands for its entry in callback_q; the entry of a    *)
(* lost request stays for ever, and nothing reads it.  noti_clients counts *)
(* the entries into crtci: this build has no other notification client.    *)
(***************************************************************************)
EXTENDS ThymeRegistration

CONSTANT MaxClients   \* bound: seconds before the first connection

ASSUME MqttAssumption == MaxClients \in Nat \ {0}

VARIABLES
    clients,     \* mqtt.connect calls made; mqtt_client is the last
    waiting,     \* clients that are not connected
    subscribed,  \* clients subscribed to the response and request topics
    connects     \* 'connect' events since the first: history

broker   == <<clients, waiting, subscribed, connects>>
mqttVars == <<vars, broker>>

Clients == 1 .. MaxClients

\* Requests of the newest client reach the CSE and their answers come back;
\* while it is not connected it keeps what it has to send.
Online == clients \in subscribed \ waiting

MqttInit ==
    /\ sh_state = "connect"
    /\ request_count = 0 /\ return_count = 0 /\ confirmed = {}
    /\ wire = {}
    /\ cse \in {{}, {AE}, {AE} \cup Containers, Resources}
    /\ tas_listening = FALSE /\ noti_clients = 0 /\ running = TRUE
    /\ overlaps = 0 /\ faults = 0 /\ reset = FALSE
    /\ clients = 0 /\ waiting = {} /\ subscribed = {} /\ connects = 0

-----------------------------------------------------------------------------
(* Connections. *)

\* The timer in stage 'connect': mqtt_connect().
ConnectTick ==
    /\ sh_state = "connect"
    /\ clients < MaxClients
    /\ clients' = clients + 1
    /\ waiting' = waiting \cup {clients'}
    /\ UNCHANGED <<vars, subscribed, connects>>

\* Mutant: a client subscribes itself.
SubscribesItself(c) == subscribed' = subscribed \cup {c}

\* mqtt_client is a global: the handler of an older client subscribes the
\* newest.
Subscribe(c) == subscribed' = subscribed \cup {clients}

\* Mutant: the server for the bicycle's programs is opened at once.
ListensAtOnce(c) ==
    /\ running
    /\ c \in waiting
    /\ waiting' = waiting \ {c}
    /\ Subscribe(c)
    /\ sh_state' = "crtae"
    /\ tas_listening' = TRUE
    /\ connects' = IF sh_state = "connect" THEN 0 ELSE connects + 1
    /\ UNCHANGED <<counters, wire, cse, noti_clients, running, history, clients>>

\* mqtt_client.on('connect').
OnConnect(c) ==
    /\ running
    /\ c \in waiting
    /\ waiting' = waiting \ {c}
    /\ Subscribe(c)
    /\ sh_state' = "crtae"
    /\ connects' = IF sh_state = "connect" THEN 0 ELSE connects + 1
    /\ UNCHANGED <<counters, wire, cse, server, history, clients>>

\* The connection of a client breaks.  Its subscriptions end with it, answers
\* on their way to it are lost, and requests are lost or served later.
Disconnect(c) ==
    /\ running
    /\ c \in (1 .. clients) \ waiting
    /\ faults < MaxFaults
    /\ faults' = faults + 1
    /\ waiting' = waiting \cup {c}
    /\ subscribed' = subscribed \ {c}
    /\ IF c = clients THEN wire' \in SUBSET {m \in wire : m.status = NoAnswer}
                      ELSE UNCHANGED wire
    /\ UNCHANGED <<sh_state, counters, cse, server, overlaps, reset, clients, connects>>

-----------------------------------------------------------------------------
(* The stages, the uploads and the CSE. *)

MqttTick   == Tick /\ UNCHANGED broker
\* The first answers subscribe the newest client again, under the AE-ID they
\* bring (ae_response_action): it is the one subscribed.
MqttAnswer == OnAnswer /\ UNCHANGED broker
MqttCrtci  == (\E m \in wire : OnCrtci(m)) /\ UNCHANGED broker
MqttUpload == (\E c \in Containers : TasUpload(c)) /\ UNCHANGED broker
MqttServes == Online /\ (\E m \in wire : CseServes(m)) /\ UNCHANGED broker
MqttFails  == Online /\ (\E m \in wire : CseFails(m)) /\ UNCHANGED broker

MqttNext ==
    \/ ConnectTick
    \/ \E c \in Clients : OnConnect(c) \/ Disconnect(c)
    \/ MqttTick \/ MqttAnswer \/ MqttCrtci \/ MqttUpload \/ MqttServes \/ MqttFails

\* As for the HTTP build; and a client that reconnects succeeds at last.
MqttFairness ==
    /\ WF_mqttVars(ConnectTick)
    /\ \A c \in Clients : WF_mqttVars(OnConnect(c))
    /\ WF_mqttVars(MqttTick)
    /\ WF_mqttVars(MqttAnswer)
    /\ WF_mqttVars(MqttCrtci)
    /\ WF_mqttVars(MqttServes)

MqttSpec     == MqttInit /\ [][MqttNext]_mqttVars
MqttFairSpec == MqttSpec /\ MqttFairness

-----------------------------------------------------------------------------
(* Properties. *)

\* However many clients the first seconds made and whichever of them connects
\* first or again, one client has the subscriptions, so that an answer or a
\* parking command is not delivered twice.
OneSubscriber == \A c, d \in subscribed : c = d

\* A second listen() needs a connection after the first, a 5000 or a late
\* answer; the broker alone can thus end the gateway.
MqttCrashHasCause == ~running => connects > 0 \/ reset \/ overlaps > 0

\* Uploads start only when everything is registered, even if connections broke
\* in any stage and answers to requests of before came after.
MqttRegistered == overlaps = 0 => (sh_state = "crtci" => Containers \cup Subs \subseteq cse)

\* With answers in time the gateway ends up accepting data and stays so, or
\* dies on its second listen(): broken connections only delay it.  (A late
\* answer can do worse: counted for a request that a broken connection lost, it
\* leaves a container uncreated and its subscription refused for ever.)
MqttUploads == <>(overlaps > 0) \/ <>[](sh_state = "crtci" \/ ~running)
=============================================================================
