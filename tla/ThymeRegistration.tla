------------------------- MODULE ThymeRegistration -------------------------
(***************************************************************************)
(* How the gateway (thyme, HTTP build: app.js with adn.js) registers the   *)
(* bicycle at the CSE before it lets sensor data through.  A 1 s timer     *)
(* looks at sh_state and sends the requests of that stage; the answers run *)
(* callbacks that move sh_state on.  Nothing ties an answer to the tick    *)
(* that asked for it: the timer does not wait for the answers of the       *)
(* previous tick, and a late answer is counted with the current ones.      *)
(*                                                                         *)
(* The CSE (a oneM2M server, not in this repository) and the network are   *)
(* modelled from what adn.js expects of them: requests are served in any   *)
(* order, answers come back in any order, and a request or its answer may  *)
(* be lost.                                                                *)
(***************************************************************************)
EXTENDS Naturals, FiniteSets

CONSTANTS
    Containers,   \* usectname: the containers of conf.json
    Subs,         \* usesubname: the subscriptions of conf.json
    SubParent,    \* the container each subscription is made on
    AE,           \* the application entity itself
    Found,        \* statuses with which rtvae finds the AE; mqtt_app.js has 5106 too
    MaxOverlaps,  \* bound: ticks that find requests of an earlier tick open
    MaxFaults     \* bound: lost messages and CSE failures (5000)

ASSUME ConfigAssumption ==
    /\ IsFiniteSet(Containers)
    /\ IsFiniteSet(Subs)
    /\ Containers \cap Subs = {}
    /\ AE \notin Containers \cup Subs
    /\ SubParent \in [Subs -> Containers]
    /\ Found \in {{2000}, {2000, 5106}}
    /\ MaxOverlaps \in Nat
    /\ MaxFaults \in Nat

VARIABLES
    sh_state,       \* stage of the registration
    request_count,  \* requests the current stage has sent
    return_count,   \* accepted answers counted since the last send
    wire,           \* requests sent and not yet called back
    cse,            \* resources that exist at the CSE
    tas_listening,  \* net.createServer(...).listen(usetasport) has succeeded
    noti_clients,   \* mqtt_connect or http server.listen calls made
    running,        \* FALSE once an unhandled 'error' event ended the process
    \* History, read by properties and bounds only:
    confirmed,      \* targets whose answers were counted since the last send
    overlaps,       \* ticks that sent while earlier requests were open
    faults,         \* losses and CSE failures so far
    reset           \* an upload was answered 5000

counters == <<request_count, return_count, confirmed>>
history  == <<overlaps, faults, reset>>
server   == <<tas_listening, noti_clients, running>>
vars     == <<sh_state, counters, wire, cse, server, history>>

Stages == {"crtae", "rtvae", "crtct", "delsub", "crtsub", "crtci"}

\* What the requests of a stage name; a stage sends one request per target.
Targets(op) ==
    IF op \in {"crtae", "rtvae"} THEN {AE}
    ELSE IF op \in {"crtct", "crtci"} THEN Containers ELSE Subs

Resources == {AE} \cup Containers \cup Subs

NoAnswer == 0        \* the status of a request the CSE has not served
Statuses == {NoAnswer, 2000, 2001, 2002, 4004, 4105, 5000, 5106, 9999}

Message == [op : Stages, to : Resources, status : Statuses, round : Nat]

\* Requests of the registration, which the timer sends, as opposed to uploads.
OpenRegistrations == {m \in wire : m.op # "crtci"}

Init ==
    /\ sh_state = "crtae"
    /\ request_count = 0
    /\ return_count = 0
    /\ wire = {}
    /\ cse \in {{}, {AE}, {AE} \cup Containers, Resources}
    /\ tas_listening = FALSE
    /\ noti_clients = 0
    /\ running = TRUE
    /\ confirmed = {}
    /\ overlaps = 0
    /\ faults = 0
    /\ reset = FALSE

-----------------------------------------------------------------------------
(* The timer. *)

\* The round of a request is the number of overlapping ticks before it, so two
\* open requests for one target never look the same.
Round == IF OpenRegistrations = {} THEN overlaps ELSE overlaps + 1

Send(op) ==
    /\ Round <= MaxOverlaps
    /\ overlaps' = Round
    /\ wire' = wire \cup
         [op : {op}, to : Targets(op), status : {NoAnswer}, round : {Round}]

\* ready_for_notification(), sh_state = 'crtci', tas_ready.emit('connect'):
\* a second listen() on the port of the first fails with EADDRINUSE, which
\* nobody handles.
EnterCrtci ==
    /\ sh_state' = "crtci"
    /\ noti_clients' = noti_clients + 1
    /\ tas_listening' = TRUE
    /\ running' = ~tas_listening

\* Mutant: crtct goes straight to crtsub.
SkippedDelsub(op) ==
    \/ op = "crtct" /\ sh_state' = "crtsub" /\ UNCHANGED server
    \/ op = "delsub" /\ sh_state' = "crtsub" /\ UNCHANGED server
    \/ op = "crtsub" /\ EnterCrtci

\* What follows a stage with counters, once all its answers are in.
StageDone(op) ==
    \/ op = "crtct" /\ sh_state' = "delsub" /\ UNCHANGED server
    \/ op = "delsub" /\ sh_state' = "crtsub" /\ UNCHANGED server
    \/ op = "crtsub" /\ EnterCrtci

\* Stages crtae and rtvae: one request, no counters.
TickAE(op) ==
    /\ running
    /\ op \in {"crtae", "rtvae"}
    /\ sh_state = op
    /\ Send(op)
    /\ UNCHANGED <<sh_state, counters, cse, server, faults, reset>>

\* Stages crtct, delsub and crtsub: one request per configured resource.
TickCounted(op) ==
    /\ running
    /\ op \in {"crtct", "delsub", "crtsub"}
    /\ sh_state = op
    /\ Send(op)
    /\ request_count' = Cardinality(Targets(op))
    /\ return_count' = 0
    /\ confirmed' = {}
    /\ IF Targets(op) = {} THEN StageDone(op) ELSE UNCHANGED <<sh_state, server>>
    /\ UNCHANGED <<cse, faults, reset>>

Tick == \E op \in Stages : TickAE(op) \/ TickCounted(op)

-----------------------------------------------------------------------------
(* The callbacks of the timer's requests. *)

\* The answer of a request reaches the process and its callback runs.
Answered(m, op) ==
    /\ running
    /\ m \in wire
    /\ m.op = op
    /\ m.status # NoAnswer
    /\ wire' = wire \ {m}

OnCrtae(m) ==
    /\ Answered(m, "crtae")
    /\ sh_state' = IF m.status \in {5106, 2001} THEN "crtct"
                   ELSE IF m.status = 4105 THEN "rtvae" ELSE sh_state
    /\ UNCHANGED <<counters, cse, server, history>>

OnRtvae(m) ==
    /\ Answered(m, "rtvae")
    /\ sh_state' = IF m.status \in Found THEN "crtct" ELSE sh_state
    /\ UNCHANGED <<counters, cse, server, history>>

\* Mutant: a refused creation counts as success.
AcceptsRefusals(op) == {5106, 2002, 2000, 2001, 4105, 4004, 5000}

\* Mutant: deleting a subscription that is not there does not count.
NeedsOldSubscription(op) ==
    IF op = "delsub" THEN {5106, 2002, 2000, 4105} ELSE {5106, 2001, 4105}

\* The statuses that count as success for each counted stage.
Accepted(op) ==
    IF op = "delsub" THEN {5106, 2002, 2000, 4105, 4004} ELSE {5106, 2001, 4105}

\* The callback does not look at sh_state nor at the tick that sent the request.
OnCounted(m, op) ==
    /\ op \in {"crtct", "delsub", "crtsub"}
    /\ Answered(m, op)
    /\ IF m.status \in Accepted(op)
       THEN /\ return_count' = return_count + 1
            /\ confirmed' = confirmed \cup {m.to}
            /\ IF return_count' = request_count
               THEN StageDone(op)
               ELSE UNCHANGED <<sh_state, server>>
       ELSE UNCHANGED <<return_count, confirmed, sh_state, server>>
    /\ UNCHANGED <<request_count, cse, history>>

OnAnswer ==
    \E m \in wire : \/ OnCrtae(m)
                    \/ OnRtvae(m)
                    \/ \E op \in Stages : OnCounted(m, op)

-----------------------------------------------------------------------------
(* Uploads of the bicycle's programs (TAS) while the gateway is in crtci. *)

\* Bound: one unanswered upload per container.
TasUpload(c) ==
    /\ running
    /\ tas_listening
    /\ sh_state = "crtci"
    /\ \A m \in wire : m.op = "crtci" => m.to # c
    /\ wire' = wire \cup {[op |-> "crtci", to |-> c, status |-> NoAnswer, round |-> 0]}
    /\ UNCHANGED <<sh_state, counters, cse, server, history>>

\* Mutant: a network error of an upload starts over as well.
RestartsOnNetworkError(m) ==
    /\ Answered(m, "crtci")
    /\ \/ m.status = 5000 /\ sh_state' = "crtae" /\ reset' = TRUE
       \/ m.status = 9999 /\ sh_state' = "crtae" /\ reset' = reset
       \/ m.status \notin {5000, 9999} /\ UNCHANGED <<sh_state, reset>>
    /\ UNCHANGED <<counters, cse, server, overlaps, faults>>

\* Every status is acknowledged to the TAS; 5000 also starts over.
OnCrtci(m) ==
    /\ Answered(m, "crtci")
    /\ \/ m.status = 5000 /\ sh_state' = "crtae" /\ reset' = TRUE
       \/ m.status # 5000 /\ UNCHANGED <<sh_state, reset>>
    /\ UNCHANGED <<counters, cse, server, overlaps, faults>>

-----------------------------------------------------------------------------
(* The CSE and the network (external). *)

\* A container is created under the AE, a subscription under its container.
Creations == {"crtae", "crtct", "crtsub"}
HasParent(m) ==
    \/ m.op = "crtae"
    \/ m.op = "crtct" /\ AE \in cse
    \/ m.op = "crtsub" /\ SubParent[m.to] \in cse

\* The status of a request the CSE can serve, and its effect on the resources.
Outcomes(m) ==
    IF m.op \in Creations
    THEN IF ~HasParent(m) THEN {4004}
         ELSE IF m.to \in cse THEN {4105, 5106} ELSE {2001}
    ELSE IF m.to \notin cse THEN {4004}
         ELSE IF m.op = "rtvae" THEN {2000}
         ELSE IF m.op = "delsub" THEN {2002} ELSE {2001}

Effect(m, status) ==
    IF m.op = "delsub" THEN cse \ {m.to}
    ELSE IF m.op \in Creations /\ status = 2001 THEN cse \cup {m.to}
    ELSE cse

Reply(m, status) == wire' = (wire \ {m}) \cup {[m EXCEPT !.status = status]}

CseServes(m) ==
    /\ m \in wire
    /\ m.status = NoAnswer
    /\ \E status \in Outcomes(m) :
          /\ Reply(m, status)
          /\ cse' = Effect(m, status)
    /\ UNCHANGED <<sh_state, counters, server, history>>

\* The CSE answers 5000 without doing anything.
CseFails(m) ==
    /\ m \in wire
    /\ m.status = NoAnswer
    /\ faults < MaxFaults
    /\ Reply(m, 5000)
    /\ faults' = faults + 1
    /\ UNCHANGED <<sh_state, counters, cse, server, overlaps, reset>>

\* The connection breaks before or after the CSE served the request.  The
\* requests of the timer only log the error; an upload calls back with 9999
\* unless the error is a connection reset.
Lost(m) ==
    /\ m \in wire
    /\ faults < MaxFaults
    /\ m.status # 9999
    /\ \/ wire' = wire \ {m}
       \/ /\ m.op = "crtci"
          /\ Reply(m, 9999)
    /\ faults' = faults + 1
    /\ UNCHANGED <<sh_state, counters, cse, server, overlaps, reset>>

-----------------------------------------------------------------------------
Next ==
    \/ Tick
    \/ OnAnswer
    \/ \E c \in Containers : TasUpload(c)
    \/ \E m \in wire : \/ OnCrtci(m)
                       \/ CseServes(m)
                       \/ CseFails(m)
                       \/ Lost(m)

\* setInterval keeps ticking, node's event loop runs every callback whose
\* answer has come, and a request that is not lost is eventually served.
Fairness ==
    /\ WF_vars(Tick)
    /\ WF_vars(OnAnswer)
    /\ WF_vars(\E m \in wire : OnCrtci(m))
    /\ WF_vars(\E m \in wire : CseServes(m))

Spec     == Init /\ [][Next]_vars
FairSpec == Spec /\ Fairness
-----------------------------------------------------------------------------
(* Properties. *)

\* Every variable has its type; the only numbers without a bound of their own
\* are the counters.
TypeOK ==
    /\ sh_state \in Stages
    /\ request_count \in Nat
    /\ return_count \in Nat
    /\ wire \subseteq Message
    /\ \A m \in wire : m.to \in Targets(m.op)
    /\ cse \subseteq Resources
    /\ tas_listening \in BOOLEAN
    /\ noti_clients \in Nat
    /\ running \in BOOLEAN
    /\ confirmed \subseteq Containers \cup Subs
    /\ overlaps \in Nat
    /\ faults \in Nat
    /\ reset \in BOOLEAN

\* As long as the CSE answers each tick's requests before the next tick, the
\* gateway accepts sensor data only when every container and every
\* subscription of conf.json exists, whatever was lost or refused on the way:
\* the equality test of return_count and request_count is enough.
RegisteredBeforeUpload ==
    sh_state = "crtci" /\ overlaps = 0 => Containers \cup Subs \subseteq cse

\* The process dies on its second listen() only if an answer came after the
\* next tick, or the CSE answered an upload with 5000 and so sent the gateway
\* through the registration again.  While it lives it holds at most one
\* notification client, so a notification is not delivered twice.
CrashHasCause ==
    /\ ~running => overlaps > 0 \/ reset
    /\ running => noti_clients = IF tas_listening THEN 1 ELSE 0

\* The stages in the order the timer's comments and logs present them.
Forward ==
    {<<"crtae", "rtvae">>, <<"crtae", "crtct">>, <<"rtvae", "crtct">>,
     <<"crtct", "delsub">>, <<"delsub", "crtsub">>, <<"crtsub", "crtci">>}

\* With answers in time and no upload refused with 5000, no callback moves
\* sh_state back or skips a stage.
StageOrder ==
    [][overlaps' = 0 /\ ~reset' /\ sh_state' # sh_state
         => <<sh_state, sh_state'>> \in Forward]_vars

\* With answers in time the gateway ends up accepting data and stays so, or
\* dies on the second listen(): losses and refusals only delay it.
EventuallyUploads ==
    <>(overlaps > 0) \/ <>[](sh_state = "crtci" \/ ~running)
=============================================================================
