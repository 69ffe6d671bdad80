------------------------------ MODULE HciSocket ------------------------------
(***************************************************************************)
(* Raw HCI sockets on the bicycle's one Bluetooth controller.              *)
(*                                                                         *)
(* The scanner is BeaconFinder's call of blescan.parse_events, which opens *)
(* its socket's filter for every event, receives LoopCount packets and     *)
(* restores the filter.  The tools (hciconfig, hcitool) call hci_send_req  *)
(* of BlueZ' lib/hci.c, which opens the filter for the answers to one      *)
(* opcode, sends the command and reads at most Tries events.               *)
(*                                                                         *)
(* Every event goes to every socket whose filter lets it pass.  An event   *)
(* says what it is and which opcode it answers, not which process or which *)
(* of two equal commands.                                                  *)
(***************************************************************************)
EXTENDS Naturals, Sequences, FiniteSets

CONSTANTS
    Tools,         \* processes that call hci_send_req
    Opcodes,       \* of their commands
    Timeouts,      \* values of `to`, in the tens that each event costs
    Tries,         \* events read for one answer
    LoopCount,     \* events received by one scan
    MaxCommands,   \* bound: commands of the tools
    MaxNews        \* bound: events no command asked for

ASSUME HciAssumption ==
    /\ Opcodes \subseteq {"scan", "connect", "link"} /\ "scan" \in Opcodes
    /\ Timeouts \subseteq Nat
    /\ Tries \in Nat \ {0}
    /\ LoopCount \in Nat \ {0}
    /\ MaxCommands \in Nat
    /\ MaxNews \in Nat
    /\ "scanner" \notin Tools

Scanner == "scanner"
Procs   == Tools \cup {Scanner}

\* r->event of hci_le_set_scan_enable (0, any completion), hci_le_create_conn
\* (EVT_LE_CONN_COMPLETE) and amptest's logical links (EVT_CMD_STATUS).
Awaits(opcode) == CASE opcode = "connect" -> "conn"
                    [] opcode = "link"    -> "status"
                    [] OTHER              -> "none"

VARIABLES
    filter,     \* HCI_FILTER of each socket
    queue,      \* events each socket has not read
    pc,         \* control point of each process
    req,        \* the request of each tool: its opcode and number
    to, try,    \* as in hci_send_req
    commands,   \* sent to the controller and not answered
    connecting, \* commands whose status said a connection event follows
    \* History and bounds:
    sent,       \* commands so far, which also number them
    news,       \* events so far that no command asked for
    answer,     \* how each tool's last request ended
    rival,      \* another command or event could be taken for its answer
    others,     \* events it read that were not of its own command
    received,   \* packets of this scan
    stale,      \* advertisements heard before this scan began
    leftover    \* advertisements still unread when the last scan ended

sockets == <<filter, queue>>
tools   == <<req, to, try, answer, rival, others>>
air     == <<commands, connecting, sent, news>>
scan    == <<received, stale, leftover>>
vars    == <<sockets, pc, tools, air, scan>>

\* A filter lets nothing pass, or everything, or, as hci_send_req sets it up,
\* what may answer an opcode.
Closed     == "closed"
Everything == "all"

\* The kernel queues an event for a socket.  EVT_LE_META_EVENT carries both
\* advertisements and connections; the number of EVT_LE_CONN_COMPLETE, a
\* subevent, set in a filter of events is that of EVT_INQUIRY_COMPLETE.
Passes(f, e) ==
    \/ f = Everything
    \/ /\ f \in Opcodes
       /\ \/ e.evt \in {"status", "refused", "complete"} /\ e.opcode = f
          \/ e.evt \in {"adv", "conn"}
          \/ e.evt = "inquiry" /\ Awaits(f) = "conn"

Event(evt, c) == [evt |-> evt, opcode |-> c.opcode, n |-> c.n]

Deliver(e) ==
    queue' = [p \in Procs |-> IF Passes(filter[p], e) THEN Append(queue[p], e) ELSE queue[p]]

\* Mutant: the opcode of a completed command is left to the filter.
TakesAny(r, e) ==
    \/ e.evt = "complete"
    \/ e.evt \in {"status", "refused"} /\ e.opcode = r.opcode /\ Awaits(r.opcode) = "status"
    \/ e.evt \in {"conn", "inquiry"} /\ Awaits(r.opcode) = "conn"

\* What hci_send_req takes for the answer to r.
Takes(r, e) ==
    \/ e.evt = "complete" /\ e.opcode = r.opcode
    \/ e.evt \in {"status", "refused"} /\ e.opcode = r.opcode /\ Awaits(r.opcode) = "status"
    \/ e.evt \in {"conn", "inquiry"} /\ Awaits(r.opcode) = "conn"

Refuses(r, e) == e.evt = "refused" /\ e.opcode = r.opcode /\ Awaits(r.opcode) # "status"

NoRequest == [opcode |-> "-", n |-> 0]

\* blescan.hci_enable_le_scan has been sent, and nobody waits for its answer.
Init ==
    /\ filter = [p \in Procs |-> Closed]
    /\ queue = [p \in Procs |-> <<>>]
    /\ pc = [p \in Procs |-> "idle"]
    /\ req = [t \in Tools |-> NoRequest]
    /\ to = [t \in Tools |-> 0]
    /\ try = [t \in Tools |-> 0]
    /\ commands = <<[opcode |-> "scan", n |-> 1]>>
    /\ connecting = {}
    /\ sent = 1
    /\ news = 0
    /\ answer = [t \in Tools |-> "none"]
    /\ rival = [t \in Tools |-> FALSE]
    /\ others = [t \in Tools |-> 0]
    /\ received = 0
    /\ stale = 0
    /\ leftover = 0

GoTo(p, label) == pc' = [pc EXCEPT ![p] = label]

SetFilter(p, f) == filter' = [filter EXCEPT ![p] = f]

-----------------------------------------------------------------------------
(* hci_send_req. *)

\* Another command whose events could be taken for the answer to r.
Rivals(c, r) == c.opcode = r.opcode \/ (Awaits(c.opcode) = "conn" /\ Awaits(r.opcode) = "conn")

\* An event that could.
LooksLike(e, r) == e.opcode = r.opcode \/ (e.evt \in {"conn", "inquiry"} /\ Awaits(r.opcode) = "conn")

\* The filter is set first, and lets in what others caused before the command
\* is sent.
Prepare(t) ==
    /\ pc[t] = "idle"
    /\ sent <= MaxCommands
    /\ \E o \in Opcodes, limit \in Timeouts :
          LET r == [opcode |-> o, n |-> 0] IN
          /\ req' = [req EXCEPT ![t] = r]
          /\ to' = [to EXCEPT ![t] = limit]
          /\ SetFilter(t, o)
          /\ rival' = [rival EXCEPT ![t] =
                \/ \E i \in 1 .. Len(commands) : Rivals(commands[i], r)
                \/ \E c \in connecting : Rivals(c, r)
                \/ \E i \in 1 .. Len(queue[t]) : LooksLike(queue[t][i], r)]
    /\ try' = [try EXCEPT ![t] = Tries]
    /\ answer' = [answer EXCEPT ![t] = "none"]
    /\ others' = [others EXCEPT ![t] = 0]
    /\ GoTo(t, "send")
    /\ UNCHANGED <<queue, air, scan>>

Send(t) ==
    /\ pc[t] = "send"
    /\ sent <= MaxCommands
    /\ sent' = sent + 1
    /\ req' = [req EXCEPT ![t].n = sent']
    /\ commands' = Append(commands, req'[t])
    /\ rival' = [u \in Tools |-> \/ rival[u]
                                 \/ u # t /\ pc[u] # "idle" /\ Rivals(req[t], req[u])]
    /\ GoTo(t, "wait")
    /\ UNCHANGED <<sockets, to, try, answer, others, connecting, news, scan>>

\* Every way out restores the filter; the locals are gone.
Return(t, how) ==
    /\ GoTo(t, "idle")
    /\ SetFilter(t, Closed)
    /\ req' = [req EXCEPT ![t] = NoRequest]
    /\ to' = [to EXCEPT ![t] = 0]
    /\ try' = [try EXCEPT ![t] = 0]
    /\ answer' = [answer EXCEPT ![t] = how]

\* The command is not written, or poll() or read() fails.
Fails(t) ==
    /\ pc[t] \in {"send", "wait"}
    /\ Return(t, "failed")
    /\ UNCHANGED <<queue, rival, others, air, scan>>

\* poll() gives up.  It is not called when `to` is 0.
PollTimesOut(t) ==
    /\ pc[t] = "wait"
    /\ to[t] > 0
    /\ queue[t] = <<>>
    /\ Return(t, "timeout")
    /\ UNCHANGED <<queue, rival, others, air, scan>>

\* Mutant: an event costs twice the time.
SpendsTwice(limit) == IF limit > 2 THEN limit - 2 ELSE 0

Spend(limit) == IF limit > 0 THEN limit - 1 ELSE 0

\* Mutant: one try is lost, as in while (--try).
LosesOne(left) == left <= 2

LastTry(left) == left = 1

Read(t) ==
    /\ pc[t] = "wait"
    /\ queue[t] # <<>>
    /\ queue' = [queue EXCEPT ![t] = Tail(@)]
    /\ LET e   == Head(queue[t])
           own == e.n = req[t].n
       IN  /\ others' = [others EXCEPT ![t] = IF own THEN @ ELSE @ + 1]
           /\ \/ Takes(req[t], e) /\ Return(t, IF own THEN "own" ELSE "foreign")
              \/ Refuses(req[t], e) /\ Return(t, "refused")
              \/ /\ ~Takes(req[t], e)
                 /\ ~Refuses(req[t], e)
                 /\ \/ LastTry(try[t]) /\ Return(t, "exhausted")
                    \/ /\ ~LastTry(try[t])
                       /\ to' = [to EXCEPT ![t] = Spend(@)]
                       /\ try' = [try EXCEPT ![t] = @ - 1]
                       /\ UNCHANGED <<pc, filter, req, answer>>
    /\ UNCHANGED <<rival, air, scan>>

-----------------------------------------------------------------------------
(* blescan.parse_events. *)

Unread == Cardinality({i \in 1 .. Len(queue[Scanner]) : queue[Scanner][i].evt = "adv"})

ScanStart ==
    /\ pc[Scanner] = "idle"
    /\ SetFilter(Scanner, Everything)
    /\ GoTo(Scanner, "receive")
    /\ stale' = Unread
    /\ UNCHANGED <<queue, tools, air, received, leftover>>

\* A completed connection calls le_handle_connection_complete, which does not
\* exist: the exception ends BeaconFinder.
Receive ==
    /\ pc[Scanner] = "receive"
    /\ queue[Scanner] # <<>>
    /\ queue' = [queue EXCEPT ![Scanner] = Tail(@)]
    /\ received' = received + 1
    /\ GoTo(Scanner, IF Head(queue[Scanner]).evt = "conn" THEN "dead"
                     ELSE IF received' = LoopCount THEN "restore" ELSE "receive")
    /\ UNCHANGED <<filter, tools, air, stale, leftover>>

\* Mutant: the filter stays open after a scan.
LeavesOpen ==
    /\ pc[Scanner] = "restore"
    /\ GoTo(Scanner, "idle")
    /\ leftover' = Unread
    /\ received' = 0
    /\ stale' = 0
    /\ UNCHANGED <<sockets, tools, air>>

\* What has been queued stays queued.
ScanEnd ==
    /\ pc[Scanner] = "restore"
    /\ SetFilter(Scanner, Closed)
    /\ GoTo(Scanner, "idle")
    /\ leftover' = Unread
    /\ received' = 0
    /\ stale' = 0
    /\ UNCHANGED <<queue, tools, air>>

-----------------------------------------------------------------------------
(* The controller and the air (external). *)

\* Commands are answered in order.
Answer ==
    /\ commands # <<>>
    /\ LET c == Head(commands) IN
       \/ Awaits(c.opcode) = "none" /\ Deliver(Event("complete", c)) /\ UNCHANGED connecting
       \/ Awaits(c.opcode) = "status" /\ Deliver(Event("status", c)) /\ UNCHANGED connecting
       \/ /\ Awaits(c.opcode) = "conn"
          /\ Deliver(Event("status", c))
          /\ connecting' = connecting \cup {c}
       \/ Deliver(Event("refused", c)) /\ UNCHANGED connecting
    /\ commands' = Tail(commands)
    /\ UNCHANGED <<filter, pc, tools, sent, news, scan>>

Connect(c) ==
    /\ c \in connecting
    /\ connecting' = connecting \ {c}
    /\ Deliver(Event("conn", c))
    /\ UNCHANGED <<filter, pc, tools, commands, sent, news, scan>>

\* An advertisement, or the end of an inquiry that somebody else began.
Hear(evt) ==
    /\ news < MaxNews
    /\ news' = news + 1
    /\ Deliver(Event(evt, NoRequest))
    /\ rival' = [t \in Tools |-> \/ rival[t]
                                 \/ /\ evt = "inquiry"
                                    /\ pc[t] # "idle"
                                    /\ Awaits(req[t].opcode) = "conn"]
    /\ UNCHANGED <<filter, pc, req, to, try, answer, others, commands, connecting, sent, scan>>

-----------------------------------------------------------------------------
Tool(t) == Prepare(t) \/ Send(t) \/ Fails(t) \/ PollTimesOut(t) \/ Read(t)

Next ==
    \/ \E t \in Tools : Tool(t)
    \/ ScanStart
    \/ Receive
    \/ ScanEnd
    \/ Answer
    \/ \E c \in connecting : Connect(c)
    \/ \E evt \in {"adv", "inquiry"} : Hear(evt)

\* A process runs when it can, and poll() keeps its time.
Fairness == \A t \in Tools : WF_vars(Read(t) \/ PollTimesOut(t))

Spec     == Init /\ [][Next]_vars
FairSpec == Spec /\ Fairness

-----------------------------------------------------------------------------
(* Properties. *)

\* A request returns the answer to its own command, unless while it ran, or
\* when it began, another command or event that looks the same was under way:
\* its opcode by another process, its own one that had timed out, another
\* connection.  Nothing else in the traffic is mistaken for it.
OwnAnswer == \A t \in Tools : answer[t] = "foreign" => rival[t]

\* The tries are used up only by events of others: a command whose own events
\* come first is never given up.
NotStarved == \A t \in Tools : answer[t] = "exhausted" => others[t] >= Tries - 1

\* A scan that begins finds the advertisements that the last scan left unread
\* and no others: nothing is queued while nobody scans.
StaleIsLeftover == pc[Scanner] = "receive" => stale = leftover

\* A request returns, whatever arrives and whatever does not, if `to` lasts
\* for all its tries.  (With less, `to` runs down to 0, which means for ever.)
Returns ==
    \A t \in Tools : (pc[t] = "wait" /\ to[t] >= try[t]) ~> (pc[t] = "idle")
=============================================================================
