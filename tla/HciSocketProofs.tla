--------------------------- MODULE HciSocketProofs ---------------------------
(***************************************************************************)
(* Proofs about HciSocket, for any number of tools, tries and commands.    *)
(***************************************************************************)
EXTENDS HciSocket, FiniteSetTheorems, TLAPS

Kinds  == {"status", "refused", "complete", "conn", "adv", "inquiry"}
Names  == Opcodes \cup {"-"}
Events == [evt : Kinds, opcode : Names, n : Nat]
Sent   == [opcode : Opcodes, n : Nat]

\* What of the types the proofs need.
Types ==
    /\ queue \in [Procs -> Seq(Events)]
    /\ filter \in [Procs -> {Closed, Everything} \cup Opcodes]
    /\ pc \in [Procs -> {"idle", "send", "wait", "receive", "restore", "dead"}]
    /\ req \in [Tools -> [opcode : Names, n : Nat]]
    /\ \A t \in Tools : pc[t] # "idle" => req[t].opcode \in Opcodes
    /\ commands \in Seq(Sent)
    /\ connecting \subseteq Sent
    /\ \A c \in connecting : Awaits(c.opcode) = "conn"
    /\ sent \in Nat
    /\ answer \in [Tools -> {"none", "own", "foreign", "refused", "timeout", "failed", "exhausted"}]
    /\ rival \in [Tools -> BOOLEAN]

\* Everything under way that could be taken for the answer is its own.
Clear(t) ==
    LET Own(n) == pc[t] = "wait" /\ n = req[t].n IN
    /\ \A i \in 1 .. Len(commands) : Rivals(commands[i], req[t]) => Own(commands[i].n)
    /\ \A c \in connecting : Rivals(c, req[t]) => Own(c.n)
    /\ \A i \in 1 .. Len(queue[t]) : LooksLike(queue[t][i], req[t]) => Own(queue[t][i].n)

ClearInv == \A t \in Tools : pc[t] # "idle" => (rival[t] \/ Clear(t))

IInv == Types /\ ClearInv /\ OwnAnswer

-----------------------------------------------------------------------------

\* An event in a socket's queue was there or has just been delivered.
LEMMA Delivered ==
    ASSUME Types, NEW e \in Events, Deliver(e)
    PROVE  /\ queue' \in [Procs -> Seq(Events)]
           /\ \A p \in Procs : \A i \in 1 .. Len(queue'[p]) :
                 queue'[p][i] = e \/ (i \in 1 .. Len(queue[p]) /\ queue'[p][i] = queue[p][i])
<1>1. ASSUME NEW p \in Procs
      PROVE  /\ queue'[p] \in Seq(Events)
             /\ \A i \in 1 .. Len(queue'[p]) :
                   queue'[p][i] = e \/ (i \in 1 .. Len(queue[p]) /\ queue'[p][i] = queue[p][i])
  <2>1. queue'[p] = IF Passes(filter[p], e) THEN Append(queue[p], e) ELSE queue[p]
      BY DEF Deliver
  <2>2. queue[p] \in Seq(Events)
      BY DEF Types
  <2> QED
      BY <2>1, <2>2
<1>2. queue' = [p \in Procs |-> queue'[p]]
    BY DEF Deliver
<1> QED
    BY <1>1, <1>2

\* What has been read is gone from the queue, and the rest moves up.
LEMMA Popped ==
    ASSUME NEW S, NEW s \in Seq(S), s # <<>>
    PROVE  /\ Head(s) \in S
           /\ Tail(s) \in Seq(S)
           /\ \A i \in 1 .. Len(Tail(s)) : i + 1 \in 1 .. Len(s) /\ Tail(s)[i] = s[i + 1]
           /\ 1 \in 1 .. Len(s) /\ Head(s) = s[1]
OBVIOUS

\* The event of a command, and of nobody's.
LEMMA EventTypes ==
    /\ \A evt \in Kinds, c \in Sent : Event(evt, c) \in Events
    /\ \A evt \in Kinds : Event(evt, NoRequest) \in Events
BY DEF Event, Events, Sent, Names, NoRequest

\* What is taken looks like the answer.
LEMMA TakenLooks ==
    ASSUME NEW r, NEW e, Takes(r, e) PROVE LooksLike(e, r)
BY DEF Takes, LooksLike

-----------------------------------------------------------------------------
(* The steps. *)

\* Preparing a request looks at everything under way.
LEMMA PrepareStep ==
    ASSUME IInv, NEW t \in Tools, Prepare(t) PROVE IInv'
<1> USE HciAssumption DEF Types, Procs
<1>1. PICK o \in Opcodes, limit \in Timeouts :
          LET r == [opcode |-> o, n |-> 0] IN
          /\ req' = [req EXCEPT ![t] = r]
          /\ SetFilter(t, o)
          /\ rival' = [rival EXCEPT ![t] =
                \/ \E i \in 1 .. Len(commands) : Rivals(commands[i], r)
                \/ \E c \in connecting : Rivals(c, r)
                \/ \E i \in 1 .. Len(queue[t]) : LooksLike(queue[t][i], r)]
    BY DEF Prepare
<1>2. /\ pc' = [pc EXCEPT ![t] = "send"]
      /\ answer' = [answer EXCEPT ![t] = "none"]
      /\ UNCHANGED <<queue, commands, connecting, sent>>
    BY DEF Prepare, GoTo, air
<1>3. rival' \in [Tools -> BOOLEAN]
    BY <1>1, Zenon DEF IInv
<1>4. Types'
    BY <1>1, <1>2, <1>3 DEF IInv, SetFilter, Names
<1>5. ClearInv'
  <2> SUFFICES ASSUME NEW u \in Tools, pc'[u] # "idle", ~rival'[u] PROVE Clear(u)'
      BY DEF ClearInv
  <2>1. CASE u = t
      BY <1>1, <1>2, <2>1 DEF IInv, Clear
  <2>2. CASE u # t
    <3>1. pc'[u] = pc[u] /\ req'[u] = req[u] /\ rival'[u] = rival[u]
        BY <1>1, <1>2, <2>2 DEF IInv
    <3> QED
        BY <1>2, <3>1 DEF IInv, ClearInv, Clear
  <2> QED
      BY <2>1, <2>2
<1>6. OwnAnswer'
    BY <1>1, <1>2 DEF IInv, OwnAnswer
<1> QED
    BY <1>4, <1>5, <1>6 DEF IInv

\* A command sent tells every request that could mistake its answer.
LEMMA SendStep ==
    ASSUME IInv, NEW t \in Tools, Send(t) PROVE IInv'
<1> USE HciAssumption DEF Types, Procs
<1>1. /\ pc[t] = "send"
      /\ sent' = sent + 1
      /\ req' = [req EXCEPT ![t].n = sent']
      /\ commands' = Append(commands, req'[t])
      /\ rival' = [u \in Tools |-> \/ rival[u]
                                   \/ u # t /\ pc[u] # "idle" /\ Rivals(req[t], req[u])]
      /\ pc' = [pc EXCEPT ![t] = "wait"]
      /\ UNCHANGED <<queue, filter, connecting, answer>>
    BY DEF Send, GoTo, sockets
<1>2. rival' \in [Tools -> BOOLEAN]
    BY <1>1, Zenon
<1>3. req'[t] = [opcode |-> req[t].opcode, n |-> sent'] /\ req'[t] \in Sent
    BY <1>1 DEF IInv, Sent
<1>4. \A u \in Tools : req'[u].opcode = req[u].opcode
    BY <1>1 DEF IInv
<1>5. Types'
    BY <1>1, <1>2, <1>3, <1>4 DEF IInv, Names
<1>6. \A i \in 1 .. Len(commands') :
         commands'[i] = req'[t] \/ (i \in 1 .. Len(commands) /\ commands'[i] = commands[i])
    BY <1>1, <1>3 DEF IInv
<1>7. ClearInv'
  <2> SUFFICES ASSUME NEW u \in Tools, pc'[u] # "idle", ~rival'[u] PROVE Clear(u)'
      BY DEF ClearInv
  <2>1. ~rival[u] /\ pc[u] # "idle" /\ Clear(u)
      BY <1>1 DEF IInv, ClearInv
  <2>2. \A x : Rivals(x, req'[u]) <=> Rivals(x, req[u])
      BY <1>4 DEF Rivals
  <2>3. \A x : LooksLike(x, req'[u]) <=> LooksLike(x, req[u])
      BY <1>4 DEF LooksLike
  <2>4. CASE u = t
      BY <1>1, <1>6, <2>1, <2>2, <2>3, <2>4 DEF IInv, Clear
  <2>5. CASE u # t
    <3>1. pc'[u] = pc[u] /\ req'[u] = req[u]
        BY <1>1, <2>5 DEF IInv
    <3>2. ~Rivals(req'[t], req[u])
        BY <1>1, <1>3, <2>1, <2>5 DEF Rivals
    <3> QED
        BY <1>1, <1>6, <2>1, <3>1, <3>2 DEF Clear
  <2> QED
      BY <2>4, <2>5
<1>8. OwnAnswer'
    BY <1>1 DEF IInv, OwnAnswer
<1> QED
    BY <1>5, <1>7, <1>8 DEF IInv

\* A request that ends leaves nothing that could be misread.
LEMMA ReturnStep ==
    ASSUME IInv, NEW t \in Tools, NEW how \in {"own", "foreign", "refused", "timeout", "failed", "exhausted"},
           Return(t, how), how = "foreign" => rival[t],
           queue' \in [Procs -> Seq(Events)], \A u \in Tools \ {t} : queue'[u] = queue[u],
           UNCHANGED <<commands, connecting, sent, rival>>
    PROVE  IInv'
<1> USE HciAssumption DEF Types, Procs
<1>1. /\ pc' = [pc EXCEPT ![t] = "idle"]
      /\ filter' = [filter EXCEPT ![t] = Closed]
      /\ req' = [req EXCEPT ![t] = NoRequest]
      /\ answer' = [answer EXCEPT ![t] = how]
    BY DEF Return, GoTo, SetFilter
<1>2. Types'
    BY <1>1 DEF IInv, NoRequest, Names
<1>3. ClearInv'
  <2> SUFFICES ASSUME NEW u \in Tools, pc'[u] # "idle", ~rival'[u] PROVE Clear(u)'
      BY DEF ClearInv
  <2>1. u # t /\ pc'[u] = pc[u] /\ req'[u] = req[u] /\ Clear(u)
      BY <1>1 DEF IInv, ClearInv
  <2> QED
      BY <2>1 DEF Clear
<1>4. OwnAnswer'
    BY <1>1 DEF IInv, OwnAnswer
<1> QED
    BY <1>2, <1>3, <1>4 DEF IInv

\* An event that is read is its own, or the request had a rival.
LEMMA ReadStep ==
    ASSUME IInv, NEW t \in Tools, Read(t) PROVE IInv'
<1> USE HciAssumption DEF Types, Procs
<1> DEFINE e   == Head(queue[t])
           own == e.n = req[t].n
<1>1. /\ pc[t] = "wait"
      /\ queue[t] # <<>>
      /\ queue' = [queue EXCEPT ![t] = Tail(@)]
      /\ UNCHANGED <<commands, connecting, sent, rival>>
    BY DEF Read, air
<1>2. /\ queue[t] \in Seq(Events)
      /\ queue' \in [Procs -> Seq(Events)]
      /\ \A i \in 1 .. Len(queue'[t]) : i + 1 \in 1 .. Len(queue[t]) /\ queue'[t][i] = queue[t][i + 1]
      /\ 1 \in 1 .. Len(queue[t]) /\ e = queue[t][1]
      /\ \A u \in Tools \ {t} : queue'[u] = queue[u]
  <2>1. queue[t] \in Seq(Events)
      BY DEF IInv
  <2>2. queue'[t] = Tail(queue[t])
      BY <1>1 DEF IInv
  <2> QED
      BY <1>1, <2>1, <2>2, Popped DEF IInv
<1>3. Takes(req[t], e) /\ ~own => rival[t]
  <2>1. SUFFICES ASSUME Takes(req[t], e), ~rival[t] PROVE own
      OBVIOUS
  <2>2. LooksLike(queue[t][1], req[t])
      BY <1>2, <2>1, TakenLooks
  <2>3. Clear(t)
      BY <1>1, <2>1 DEF IInv, ClearInv
  <2> QED
      BY <1>2, <2>2, <2>3 DEF Clear
<1>4. \/ Takes(req[t], e) /\ Return(t, IF own THEN "own" ELSE "foreign")
      \/ Refuses(req[t], e) /\ Return(t, "refused")
      \/ Return(t, "exhausted")
      \/ UNCHANGED <<pc, filter, req, answer>>
    BY DEF Read
<1>5. CASE Takes(req[t], e) /\ Return(t, IF own THEN "own" ELSE "foreign")
  <2>1. CASE own
    <3>1. Return(t, "own")
        BY <1>5, <2>1
    <3> QED
        BY <1>1, <1>2, <3>1, ReturnStep
  <2>2. CASE ~own
    <3>1. Return(t, "foreign") /\ rival[t]
        BY <1>3, <1>5, <2>2
    <3> QED
        BY <1>1, <1>2, <3>1, ReturnStep
  <2> QED
      BY <2>1, <2>2
<1>6. ASSUME Return(t, "refused") \/ Return(t, "exhausted") PROVE IInv'
    BY <1>1, <1>2, <1>6, ReturnStep
<1>7. CASE UNCHANGED <<pc, filter, req, answer>>
  <2>1. Types'
      BY <1>1, <1>2, <1>7 DEF IInv
  <2>2. ClearInv'
    <3> SUFFICES ASSUME NEW u \in Tools, pc'[u] # "idle", ~rival'[u] PROVE Clear(u)'
        BY DEF ClearInv
    <3>1. Clear(u)
        BY <1>1, <1>7 DEF IInv, ClearInv
    <3>2. \A i \in 1 .. Len(queue'[u]) : \E j \in 1 .. Len(queue[u]) : queue'[u][i] = queue[u][j]
        BY <1>2
    <3> QED
        BY <1>1, <1>7, <3>1, <3>2 DEF Clear
  <2>3. OwnAnswer'
      BY <1>1, <1>7 DEF IInv, OwnAnswer
  <2> QED
      BY <2>1, <2>2, <2>3 DEF IInv
<1> QED
    BY <1>4, <1>5, <1>6, <1>7

\* The ways out before an answer has come.
LEMMA GiveUpStep ==
    ASSUME IInv, NEW t \in Tools, Fails(t) \/ PollTimesOut(t) PROVE IInv'
<1>1. /\ Return(t, "failed") \/ Return(t, "timeout")
      /\ UNCHANGED <<queue, commands, connecting, sent, rival>>
    BY DEF Fails, PollTimesOut, air
<1> QED
    BY <1>1, ReturnStep DEF IInv, Types

\* The scanner does not touch the requests.
LEMMA ScanStep ==
    ASSUME IInv, ScanStart \/ Receive \/ ScanEnd PROVE IInv'
<1> USE HciAssumption DEF Types, Procs, Scanner
<1>1. UNCHANGED <<req, commands, connecting, sent, answer, rival>>
    BY DEF ScanStart, Receive, ScanEnd, tools, air
<1>2. \A t \in Tools : pc'[t] = pc[t] /\ queue'[t] = queue[t]
    BY DEF IInv, ScanStart, Receive, ScanEnd, GoTo
<1>3. /\ filter' \in [Procs -> {Closed, Everything} \cup Opcodes]
      /\ pc' \in [Procs -> {"idle", "send", "wait", "receive", "restore", "dead"}]
    BY DEF IInv, ScanStart, Receive, ScanEnd, GoTo, SetFilter
<1>4. queue' \in [Procs -> Seq(Events)]
  <2>1. CASE Receive
    <3>1. queue[Scanner] \in Seq(Events) /\ queue[Scanner] # <<>>
        BY <2>1 DEF IInv, Receive
    <3>2. Tail(queue[Scanner]) \in Seq(Events)
        BY <3>1, Popped
    <3> QED
        BY <2>1, <3>2 DEF IInv, Receive
  <2>2. CASE ScanStart \/ ScanEnd
      BY <2>2 DEF IInv, ScanStart, ScanEnd
  <2> QED
      BY <2>1, <2>2
<1>5. Types'
    BY <1>1, <1>2, <1>3, <1>4 DEF IInv
<1>6. ClearInv' /\ OwnAnswer'
    BY <1>1, <1>2 DEF IInv, ClearInv, Clear, OwnAnswer
<1> QED
    BY <1>5, <1>6 DEF IInv

\* An event is delivered to the requests that were clear before it, and it is
\* their own or unlike their answer.
LEMMA DeliverStep ==
    ASSUME IInv, NEW e \in Events, Deliver(e),
           UNCHANGED <<filter, pc, req, sent, answer>>,
           commands' \in Seq(Sent), connecting' \subseteq Sent,
           \A c \in connecting' : Awaits(c.opcode) = "conn",
           \A i \in 1 .. Len(commands') : \E j \in 1 .. Len(commands) : commands'[i] = commands[j],
           \A c \in connecting' : c \in connecting \/ \E j \in 1 .. Len(commands) : c = commands[j],
           rival' \in [Tools -> BOOLEAN], \A t \in Tools : rival[t] => rival'[t],
           \A t \in Tools : pc[t] # "idle" /\ ~rival'[t] /\ Clear(t) /\ LooksLike(e, req[t])
                               => pc[t] = "wait" /\ e.n = req[t].n
    PROVE  IInv'
<1>1. /\ queue' \in [Procs -> Seq(Events)]
      /\ \A t \in Tools : \A i \in 1 .. Len(queue'[t]) :
            queue'[t][i] = e \/ (i \in 1 .. Len(queue[t]) /\ queue'[t][i] = queue[t][i])
    BY Delivered DEF IInv, Procs
<1>2. Types'
    BY <1>1 DEF IInv, Types
<1>3. ClearInv'
  <2> SUFFICES ASSUME NEW t \in Tools, pc[t] # "idle", ~rival'[t] PROVE Clear(t)'
      BY DEF ClearInv
  <2>1. Clear(t)
      BY DEF IInv, ClearInv
  <2>2. \A i \in 1 .. Len(commands') :
           Rivals(commands'[i], req[t]) => pc[t] = "wait" /\ commands'[i].n = req[t].n
      BY <2>1 DEF Clear
  <2>3. \A c \in connecting' : Rivals(c, req[t]) => pc[t] = "wait" /\ c.n = req[t].n
      BY <2>1 DEF Clear
  <2>4. \A i \in 1 .. Len(queue'[t]) :
           LooksLike(queue'[t][i], req[t]) => pc[t] = "wait" /\ queue'[t][i].n = req[t].n
    <3> TAKE i \in 1 .. Len(queue'[t])
    <3>1. CASE queue'[t][i] = e
        BY <2>1, <3>1
    <3>2. CASE i \in 1 .. Len(queue[t]) /\ queue'[t][i] = queue[t][i]
        BY <2>1, <3>2 DEF Clear
    <3> QED
        BY <1>1, <3>1, <3>2
  <2> QED
      BY <2>2, <2>3, <2>4 DEF Clear
<1>4. OwnAnswer'
    BY DEF IInv, OwnAnswer
<1> QED
    BY <1>2, <1>3, <1>4 DEF IInv

\* The controller answers the oldest command, whose events are its own.
LEMMA AnswerStep ==
    ASSUME IInv, Answer PROVE IInv'
<1> DEFINE c == Head(commands)
<1>1. /\ commands \in Seq(Sent) /\ commands # <<>>
      /\ commands' = Tail(commands)
      /\ UNCHANGED <<filter, pc, req, sent, answer, rival>>
    BY DEF Answer, IInv, Types, tools
<1>2. /\ c \in Sent
      /\ 1 \in 1 .. Len(commands) /\ c = commands[1]
      /\ commands' \in Seq(Sent)
      /\ \A i \in 1 .. Len(commands') : \E j \in 1 .. Len(commands) : commands'[i] = commands[j]
    BY <1>1, Popped
<1>3. PICK evt \in {"complete", "status", "refused"} : Deliver(Event(evt, c))
    BY DEF Answer
<1>4. connecting' = connecting \/ (Awaits(c.opcode) = "conn" /\ connecting' = connecting \cup {c})
    BY DEF Answer
<1>5. /\ connecting' \subseteq Sent
      /\ \A d \in connecting' : Awaits(d.opcode) = "conn"
      /\ \A d \in connecting' : d \in connecting \/ \E j \in 1 .. Len(commands) : d = commands[j]
    BY <1>2, <1>4 DEF IInv, Types
<1> DEFINE e == Event(evt, c)
<1>6. e \in Events /\ e.evt = evt /\ e.opcode = c.opcode /\ e.n = c.n
    BY <1>2, EventTypes DEF Kinds, Event
<1>7. \A t \in Tools : pc[t] # "idle" /\ ~rival'[t] /\ Clear(t) /\ LooksLike(e, req[t])
                            => pc[t] = "wait" /\ e.n = req[t].n
  <2> SUFFICES ASSUME NEW t \in Tools, Clear(t), LooksLike(e, req[t])
               PROVE  pc[t] = "wait" /\ e.n = req[t].n
      OBVIOUS
  <2>1. Rivals(c, req[t])
      BY <1>6 DEF LooksLike, Rivals
  <2> QED
      BY <1>2, <1>6, <2>1 DEF Clear
<1>8. rival' \in [Tools -> BOOLEAN] /\ \A t \in Tools : rival[t] => rival'[t]
    BY <1>1, Zenon DEF IInv, Types
<1>9. Deliver(e)
    BY <1>3
<1> HIDE DEF e, c
<1> QED
    BY <1>1, <1>2, <1>5, <1>6, <1>7, <1>8, <1>9, DeliverStep

\* A connection is the answer of one command.
LEMMA ConnectStep ==
    ASSUME IInv, NEW c \in connecting, Connect(c) PROVE IInv'
<1> DEFINE e == Event("conn", c)
<1>1. /\ connecting' = connecting \ {c}
      /\ Deliver(e)
      /\ UNCHANGED <<filter, pc, req, sent, answer, rival, commands>>
    BY DEF Connect, tools
<1>2. c \in Sent /\ Awaits(c.opcode) = "conn"
    BY DEF IInv, Types
<1>3. e \in Events /\ e.evt = "conn" /\ e.opcode = c.opcode /\ e.n = c.n
    BY <1>2, EventTypes DEF Kinds, Event
<1>4. \A t \in Tools : pc[t] # "idle" /\ ~rival'[t] /\ Clear(t) /\ LooksLike(e, req[t])
                            => pc[t] = "wait" /\ e.n = req[t].n
  <2> SUFFICES ASSUME NEW t \in Tools, Clear(t), LooksLike(e, req[t])
               PROVE  pc[t] = "wait" /\ e.n = req[t].n
      OBVIOUS
  <2>1. Rivals(c, req[t])
      BY <1>2, <1>3 DEF LooksLike, Rivals
  <2> QED
      BY <1>3, <2>1 DEF Clear
<1>5. rival' \in [Tools -> BOOLEAN] /\ \A t \in Tools : rival[t] => rival'[t]
    BY <1>1, Zenon DEF IInv, Types
<1>6. /\ commands' \in Seq(Sent) /\ connecting' \subseteq Sent
      /\ \A d \in connecting' : Awaits(d.opcode) = "conn" /\ d \in connecting
      /\ \A i \in 1 .. Len(commands') : \E j \in 1 .. Len(commands) : commands'[i] = commands[j]
    BY <1>1 DEF IInv, Types
<1> HIDE DEF e
<1> QED
    BY <1>1, <1>3, <1>4, <1>5, <1>6, DeliverStep

\* Events that no command asked for: an advertisement is never taken, and the
\* end of an inquiry is a rival of connections.
LEMMA HearStep ==
    ASSUME IInv, NEW evt \in {"adv", "inquiry"}, Hear(evt) PROVE IInv'
<1> DEFINE e == Event(evt, NoRequest)
<1>1. /\ Deliver(e)
      /\ rival' = [t \in Tools |-> \/ rival[t]
                                   \/ /\ evt = "inquiry"
                                      /\ pc[t] # "idle"
                                      /\ Awaits(req[t].opcode) = "conn"]
      /\ UNCHANGED <<filter, pc, req, sent, answer, commands, connecting>>
    BY DEF Hear
<1>2. e \in Events /\ e.evt = evt /\ e.opcode = "-"
    BY EventTypes DEF Kinds, Event, NoRequest
<1>3. \A t \in Tools : pc[t] # "idle" /\ ~rival'[t] /\ Clear(t) /\ LooksLike(e, req[t])
                            => pc[t] = "wait" /\ e.n = req[t].n
  <2> SUFFICES ASSUME NEW t \in Tools, pc[t] # "idle", ~rival'[t], LooksLike(e, req[t])
               PROVE  FALSE
      OBVIOUS
  <2>1. req[t].opcode \in Opcodes
      BY DEF IInv, Types
  <2>2. req[t].opcode # "-"
      BY <2>1, HciAssumption
  <2>3. evt = "inquiry" /\ Awaits(req[t].opcode) = "conn"
      BY <1>2, <2>2 DEF LooksLike
  <2> QED
      BY <1>1, <2>3
<1>4. rival' \in [Tools -> BOOLEAN] /\ \A t \in Tools : rival[t] => rival'[t]
    BY <1>1, Zenon DEF IInv, Types
<1>5. /\ commands' \in Seq(Sent) /\ connecting' \subseteq Sent
      /\ \A d \in connecting' : Awaits(d.opcode) = "conn" /\ d \in connecting
      /\ \A i \in 1 .. Len(commands') : \E j \in 1 .. Len(commands) : commands'[i] = commands[j]
    BY <1>1 DEF IInv, Types
<1> HIDE DEF e
<1> QED
    BY <1>1, <1>2, <1>3, <1>4, <1>5, DeliverStep

-----------------------------------------------------------------------------

\* The inductive invariant: types, and that a request without a rival finds
\* nothing under way that could be mistaken for its answer.
THEOREM Inductive == Spec => []IInv
<1>1. Init => IInv
  <2> SUFFICES ASSUME Init PROVE IInv
      OBVIOUS
  <2>1. commands \in Seq(Sent)
      BY HciAssumption DEF Init, Sent
  <2>2. Types
      BY <2>1, HciAssumption DEF Init, Types, Procs, Names, NoRequest, Closed
  <2> QED
      BY <2>2 DEF Init, IInv, ClearInv, OwnAnswer, Procs
<1>2. IInv /\ [Next]_vars => IInv'
  <2> SUFFICES ASSUME IInv, [Next]_vars PROVE IInv'
      OBVIOUS
  <2>1. ASSUME NEW t \in Tools, Tool(t) PROVE IInv'
      BY <2>1, PrepareStep, SendStep, GiveUpStep, ReadStep DEF Tool
  <2>2. CASE ScanStart \/ Receive \/ ScanEnd
      BY <2>2, ScanStep
  <2>3. CASE Answer
      BY <2>3, AnswerStep
  <2>4. ASSUME NEW c \in connecting, Connect(c) PROVE IInv'
      BY <2>4, ConnectStep
  <2>5. ASSUME NEW evt \in {"adv", "inquiry"}, Hear(evt) PROVE IInv'
      BY <2>5, HearStep
  <2>6. CASE UNCHANGED vars
      BY <2>6 DEF vars, sockets, tools, air, IInv, Types, ClearInv, Clear, OwnAnswer
  <2> QED
      BY <2>1, <2>2, <2>3, <2>4, <2>5, <2>6 DEF Next
<1> QED
    BY <1>1, <1>2, PTL DEF Spec

\* A request returns the answer to its own command, unless a command or an
\* event that looks the same was under way.
THEOREM Own == Spec => []OwnAnswer
<1>1. IInv => OwnAnswer
    BY DEF IInv
<1> QED
    BY <1>1, Inductive, PTL

-----------------------------------------------------------------------------

\* The scanner's filter is open only while it scans; between scans nothing is
\* queued, so that what the last scan left unread stays as it is.
ScanInv ==
    /\ pc[Scanner] = "idle" => filter[Scanner] = Closed /\ leftover = Unread
    /\ StaleIsLeftover

\* A closed filter lets nothing pass.
LEMMA NothingPasses ==
    ASSUME NEW e, Deliver(e), filter[Scanner] = Closed
    PROVE  queue'[Scanner] = queue[Scanner]
<1>1. Closed \notin Opcodes /\ Closed # Everything
    BY HciAssumption DEF Closed, Everything
<1>2. ~Passes(filter[Scanner], e)
    BY <1>1 DEF Passes
<1> QED
    BY <1>2 DEF Deliver, Procs

\* What the tools do leaves the scanner's socket alone.
LEMMA ToolKeepsScan ==
    ASSUME Types, ScanInv, NEW t \in Tools, Tool(t) PROVE ScanInv'
<1>1. t # Scanner /\ t \in Procs
    BY HciAssumption DEF Scanner, Procs
<1>2. /\ UNCHANGED scan
      /\ queue'[Scanner] = queue[Scanner]
      /\ pc'[Scanner] = pc[Scanner]
      /\ filter'[Scanner] = filter[Scanner]
  <2>1. CASE Prepare(t)
      BY <1>1, <2>1 DEF Types, Prepare, GoTo, SetFilter
  <2>2. CASE Send(t)
      BY <1>1, <2>2 DEF Types, Send, GoTo, sockets
  <2>3. ASSUME NEW how, Return(t, how)
        PROVE  pc'[Scanner] = pc[Scanner] /\ filter'[Scanner] = filter[Scanner]
      BY <1>1, <2>3 DEF Types, Return, GoTo, SetFilter
  <2>4. CASE Fails(t) \/ PollTimesOut(t)
      BY <2>3, <2>4 DEF Fails, PollTimesOut
  <2>5. CASE Read(t)
    <3>1. UNCHANGED scan /\ queue'[Scanner] = queue[Scanner]
        BY <1>1, <2>5 DEF Types, Read
    <3>2. (\E how : Return(t, how)) \/ UNCHANGED <<pc, filter>>
        BY <2>5 DEF Read
    <3> QED
        BY <2>3, <3>1, <3>2
  <2> QED
      BY <2>1, <2>2, <2>4, <2>5 DEF Tool
<1> QED
    BY <1>2 DEF ScanInv, StaleIsLeftover, Unread, scan

\* A delivery changes only queues.
LEMMA DeliveryKeepsScan ==
    ASSUME ScanInv, NEW e, Deliver(e), UNCHANGED <<filter, pc, scan>>
    PROVE  ScanInv'
<1>1. CASE pc[Scanner] = "idle"
    BY <1>1, NothingPasses DEF ScanInv, StaleIsLeftover, Unread, scan
<1>2. CASE pc[Scanner] # "idle"
    BY <1>2 DEF ScanInv, StaleIsLeftover, scan
<1> QED
    BY <1>1, <1>2

\* A scan that begins finds the advertisements that the last scan left unread.
THEOREM Leftovers == Spec => []StaleIsLeftover
<1>1. Init => ScanInv
  <2> SUFFICES ASSUME Init PROVE ScanInv
      OBVIOUS
  <2>1. queue[Scanner] = << >> /\ pc[Scanner] = "idle" /\ filter[Scanner] = Closed
      BY DEF Init, Procs
  <2>2. {i \in 1 .. Len(queue[Scanner]) : queue[Scanner][i].evt = "adv"} = {}
      BY <2>1
  <2>3. Unread = 0
      BY <2>2, FS_EmptySet DEF Unread
  <2> QED
      BY <2>1, <2>3 DEF Init, ScanInv, StaleIsLeftover
<1>2. Types /\ ScanInv /\ [Next]_vars => ScanInv'
  <2> SUFFICES ASSUME Types, ScanInv, [Next]_vars PROVE ScanInv'
      OBVIOUS
  <2>0. Scanner \in Procs
      BY DEF Procs
  <2>1. ASSUME NEW t \in Tools, Tool(t) PROVE ScanInv'
      BY <2>1, ToolKeepsScan
  <2>2. CASE ScanStart
      BY <2>0, <2>2 DEF ScanStart, Types, ScanInv, StaleIsLeftover, SetFilter, GoTo
  <2>3. CASE Receive
      BY <2>0, <2>3 DEF Receive, Types, ScanInv, StaleIsLeftover, GoTo
  <2>4. CASE ScanEnd
      BY <2>0, <2>4 DEF ScanEnd, Types, ScanInv, StaleIsLeftover, SetFilter, GoTo, Unread
  <2>5. CASE Answer
    <3>1. PICK e : Deliver(e)
        BY <2>5 DEF Answer
    <3> QED
        BY <2>5, <3>1, DeliveryKeepsScan DEF Answer, scan
  <2>6. ASSUME NEW c \in connecting, Connect(c) PROVE ScanInv'
      BY <2>6, DeliveryKeepsScan DEF Connect
  <2>7. ASSUME NEW evt \in {"adv", "inquiry"}, Hear(evt) PROVE ScanInv'
      BY <2>7, DeliveryKeepsScan DEF Hear
  <2>8. CASE UNCHANGED vars
      BY <2>8 DEF vars, sockets, scan, ScanInv, StaleIsLeftover, Unread
  <2> QED
      BY <2>1, <2>2, <2>3, <2>4, <2>5, <2>6, <2>7, <2>8 DEF Next
<1>3. IInv => Types
    BY DEF IInv
<1>4. ScanInv => StaleIsLeftover
    BY DEF ScanInv
<1> QED
    BY <1>1, <1>2, <1>3, <1>4, Inductive, PTL DEF Spec

-----------------------------------------------------------------------------

\* Commands have numbers of their own, and a request that waits has lost at
\* most one try to an event of its command.
Numbers ==
    /\ try \in [Tools -> Nat]
    /\ others \in [Tools -> Nat]
    /\ \A t \in Tools : pc[t] = "send" => try[t] = Tries /\ others[t] = 0
    /\ \A t \in Tools : pc[t] = "wait" =>
          req[t].n \in 1 .. sent /\ try[t] >= 1 /\ others[t] + try[t] >= Tries - 1
    /\ \A i \in 1 .. Len(commands) : commands[i].n \in 1 .. sent
    /\ \A i, j \in 1 .. Len(commands) : commands[i].n = commands[j].n => i = j
    /\ \A c \in connecting : c.n \in 1 .. sent

\* What an event says of the command it belongs to; a status comes once, and
\* when the command has left the controller.
Marked(t) ==
    /\ \A i \in 1 .. Len(queue[t]) :
          /\ queue[t][i].n <= sent
          /\ queue[t][i].evt \in {"adv", "inquiry"} => queue[t][i].n = 0
          /\ queue[t][i].evt = "conn" => Awaits(queue[t][i].opcode) = "conn"
          /\ queue[t][i].evt = "status" =>
                \A j \in 1 .. Len(commands) : commands[j].n # queue[t][i].n
    /\ \A i, j \in 1 .. Len(queue[t]) :
          queue[t][i].evt = "status" /\ queue[t][j].evt = "status" /\ queue[t][i].n = queue[t][j].n
              => i = j

\* What has the number of a request has its opcode, and once a try has gone
\* to its status no other status is under way.
Mine(t) ==
    LET lost == others[t] + try[t] = Tries - 1 IN
    /\ \A i \in 1 .. Len(commands) : commands[i].n = req[t].n =>
          commands[i].opcode = req[t].opcode /\ ~lost
    /\ \A c \in connecting : c.n = req[t].n => c.opcode = req[t].opcode
    /\ \A i \in 1 .. Len(queue[t]) : queue[t][i].n = req[t].n =>
          queue[t][i].opcode = req[t].opcode /\ (queue[t][i].evt = "status" => ~lost)

TriesInv ==
    /\ Numbers
    /\ \A t \in Tools : Marked(t)
    /\ \A t \in Tools : pc[t] = "wait" => Mine(t)
    /\ NotStarved

\* What is queued is an event.
LEMMA OfEvents ==
    ASSUME NEW s \in Seq(Events) PROVE \A i \in 1 .. Len(s) : s[i] \in Events /\ s[i].n \in Nat
<1>1. \A e \in Events : e.n \in Nat
    BY DEF Events
<1>2. \A i \in 1 .. Len(s) : s[i] \in Events
    OBVIOUS
<1> QED
    BY <1>1, <1>2

\* A request that begins has all its tries.
LEMMA PrepareTries ==
    ASSUME Types, TriesInv, NEW t \in Tools, Prepare(t) PROVE TriesInv'
<1>1. /\ pc' = [pc EXCEPT ![t] = "send"]
      /\ try' = [try EXCEPT ![t] = Tries]
      /\ others' = [others EXCEPT ![t] = 0]
      /\ answer' = [answer EXCEPT ![t] = "none"]
      /\ UNCHANGED <<queue, commands, connecting, sent>>
    BY DEF Prepare, GoTo, air
<1>2. \A u \in Tools : u # t => req'[u] = req[u] /\ pc'[u] = pc[u] /\ try'[u] = try[u] /\ others'[u] = others[u]
    BY <1>1 DEF Prepare, Types, Procs, TriesInv, Numbers
<1>3. pc'[t] = "send" /\ try'[t] = Tries /\ others'[t] = 0
    BY <1>1 DEF Types, Procs, TriesInv, Numbers
<1>4. Numbers'
    BY <1>1, <1>2, <1>3, HciAssumption DEF Types, TriesInv, Numbers
<1>5. \A u \in Tools : Marked(u)'
    BY <1>1 DEF TriesInv, Marked
<1>6. \A u \in Tools : pc'[u] = "wait" => Mine(u)'
    BY <1>1, <1>2, <1>3 DEF TriesInv, Mine
<1>7. NotStarved'
    BY <1>1, <1>2 DEF Types, TriesInv, NotStarved
<1> QED
    BY <1>4, <1>5, <1>6, <1>7 DEF TriesInv

\* A command gets a number nothing under way has.
LEMMA SendTries ==
    ASSUME Types, TriesInv, NEW t \in Tools, Send(t) PROVE TriesInv'
<1>1. /\ pc[t] = "send"
      /\ sent' = sent + 1
      /\ req' = [req EXCEPT ![t].n = sent']
      /\ commands' = Append(commands, req'[t])
      /\ pc' = [pc EXCEPT ![t] = "wait"]
      /\ UNCHANGED <<queue, connecting, answer, try, others>>
    BY DEF Send, GoTo, sockets
<1>2. req'[t] = [opcode |-> req[t].opcode, n |-> sent + 1] /\ pc'[t] = "wait" /\ t \in Procs
    BY <1>1 DEF Types, Procs
<1>3. \A u \in Tools : u # t => req'[u] = req[u] /\ pc'[u] = pc[u]
    BY <1>1 DEF Types, Procs
<1>4. /\ Len(commands') = Len(commands) + 1
      /\ commands'[Len(commands) + 1] = req'[t]
      /\ \A i \in 1 .. Len(commands) : commands'[i] = commands[i]
      /\ Len(commands) \in Nat
    BY <1>1, <1>2 DEF Types
<1>5. \A i \in 1 .. Len(commands') :
         \/ i \in 1 .. Len(commands) /\ commands'[i] = commands[i]
         \/ i = Len(commands) + 1 /\ commands'[i] = req'[t]
    BY <1>4
<1>6. Numbers'
  <2>1. \A u \in Tools : pc'[u] = "wait" =>
          req'[u].n \in 1 .. sent' /\ try'[u] >= 1 /\ others'[u] + try'[u] >= Tries - 1
      BY <1>1, <1>2, <1>3, HciAssumption DEF Types, TriesInv, Numbers
  <2>2. \A i \in 1 .. Len(commands') : commands'[i].n \in 1 .. sent'
      BY <1>1, <1>2, <1>5 DEF Types, TriesInv, Numbers
  <2>3. \A i, j \in 1 .. Len(commands') : commands'[i].n = commands'[j].n => i = j
    <3>1. \A i \in 1 .. Len(commands) : commands[i].n # sent + 1
        BY DEF Types, TriesInv, Numbers
    <3>2. \A i, j \in 1 .. Len(commands) : commands[i].n = commands[j].n => i = j
        BY DEF TriesInv, Numbers
    <3>3. req'[t].n = sent + 1
        BY <1>2
    <3> QED
        BY <1>5, <3>1, <3>2, <3>3
  <2> QED
      BY <1>1, <1>2, <1>3, <2>1, <2>2, <2>3 DEF Types, TriesInv, Numbers
<1>7. \A u \in Tools : Marked(u)'
  <2> SUFFICES ASSUME NEW u \in Tools PROVE Marked(u)'
      OBVIOUS
  <2>1. queue[u] \in Seq(Events) /\ sent \in Nat
      BY DEF Types, Procs
  <2>2. \A i \in 1 .. Len(queue[u]) : queue[u][i].n \in Nat
      BY <2>1, OfEvents
  <2>3. \A i \in 1 .. Len(queue[u]) : queue[u][i].n <= sent + 1 /\ queue[u][i].n # sent + 1
      BY <2>1, <2>2 DEF TriesInv, Marked
  <2> QED
      BY <1>1, <1>2, <1>5, <2>3 DEF TriesInv, Marked
<1>8. \A u \in Tools : pc'[u] = "wait" => Mine(u)'
  <2> SUFFICES ASSUME NEW u \in Tools, pc'[u] = "wait" PROVE Mine(u)'
      OBVIOUS
  <2>1. queue[u] \in Seq(Events) /\ sent \in Nat
      BY DEF Types, Procs
  <2>2. \A i \in 1 .. Len(queue[u]) : queue[u][i].n \in Nat /\ queue[u][i].n # sent + 1
      BY <2>1, OfEvents DEF TriesInv, Marked
  <2>3. \A i \in 1 .. Len(commands) : commands[i].n # sent + 1
      BY <2>1 DEF TriesInv, Numbers
  <2>4. \A c \in connecting : c.n # sent + 1
      BY <2>1 DEF TriesInv, Numbers
  <2>5. CASE u = t
    <3>1. others'[t] + try'[t] # Tries - 1
        BY <1>1, HciAssumption DEF TriesInv, Numbers
    <3> QED
        BY <1>1, <1>2, <1>5, <2>2, <2>3, <2>4, <2>5, <3>1 DEF Mine
  <2>6. CASE u # t
    <3>1. req'[u] = req[u] /\ pc[u] = "wait" /\ req[u].n # sent + 1
        BY <1>3, <2>1, <2>6 DEF TriesInv, Numbers
    <3> QED
        BY <1>1, <1>2, <1>5, <3>1 DEF TriesInv, Mine
  <2> QED
      BY <2>5, <2>6
<1>9. NotStarved'
    BY <1>1 DEF TriesInv, NotStarved
<1> QED
    BY <1>6, <1>7, <1>8, <1>9 DEF TriesInv

\* A request that ends leaves nothing to count.
LEMMA ReturnTries ==
    ASSUME Types, TriesInv, NEW t \in Tools, NEW how, Return(t, how),
           others' \in [Tools -> Nat], \A u \in Tools \ {t} : others'[u] = others[u],
           how = "exhausted" => others'[t] >= Tries - 1,
           \A u \in Tools \ {t} : queue'[u] = queue[u],
           Marked(t)',
           UNCHANGED <<commands, connecting, sent>>
    PROVE  TriesInv'
<1>1. /\ pc' = [pc EXCEPT ![t] = "idle"]
      /\ req' = [req EXCEPT ![t] = NoRequest]
      /\ try' = [try EXCEPT ![t] = 0]
      /\ answer' = [answer EXCEPT ![t] = how]
    BY DEF Return, GoTo
<1>2. /\ pc'[t] = "idle" /\ answer'[t] = how
      /\ \A u \in Tools : u # t => /\ req'[u] = req[u] /\ pc'[u] = pc[u]
                                   /\ try'[u] = try[u] /\ answer'[u] = answer[u]
    BY <1>1 DEF Types, Procs, TriesInv, Numbers
<1>3. Numbers'
  <2>1. try' \in [Tools -> Nat]
      BY <1>1 DEF TriesInv, Numbers
  <2> QED
      BY <1>2, <2>1 DEF TriesInv, Numbers
<1>4. \A u \in Tools : Marked(u)'
    BY DEF TriesInv, Marked
<1>5. \A u \in Tools : pc'[u] = "wait" => Mine(u)'
  <2> SUFFICES ASSUME NEW u \in Tools, pc'[u] = "wait" PROVE Mine(u)'
      OBVIOUS
  <2>1. u # t /\ pc[u] = "wait" /\ queue'[u] = queue[u] /\ others'[u] = others[u]
        /\ req'[u] = req[u] /\ try'[u] = try[u]
      BY <1>2
  <2>2. Mine(u)
      BY <2>1 DEF TriesInv
  <2> QED
      BY <2>1, <2>2 DEF Mine
<1>6. NotStarved'
    BY <1>2 DEF TriesInv, NotStarved
<1> QED
    BY <1>3, <1>4, <1>5, <1>6 DEF TriesInv

\* A try that is lost to an event of the request's own command is lost to its
\* status.
LEMMA ReadTries ==
    ASSUME Types, TriesInv, NEW t \in Tools, Read(t) PROVE TriesInv'
<1> DEFINE e   == Head(queue[t])
           own == e.n = req[t].n
<1>1. /\ pc[t] = "wait" /\ t \in Procs
      /\ queue[t] # <<>>
      /\ queue' = [queue EXCEPT ![t] = Tail(@)]
      /\ others' = [others EXCEPT ![t] = IF own THEN @ ELSE @ + 1]
      /\ UNCHANGED <<commands, connecting, sent>>
    BY DEF Read, air, Procs
<1>2. queue'[t] = Tail(queue[t]) /\ \A u \in Tools \ {t} : queue'[u] = queue[u]
    BY <1>1 DEF Types, Procs
<1>3. /\ queue[t] \in Seq(Events)
      /\ \A i \in 1 .. Len(queue'[t]) : i + 1 \in 1 .. Len(queue[t]) /\ queue'[t][i] = queue[t][i + 1]
      /\ 1 \in 1 .. Len(queue[t]) /\ e = queue[t][1]
      /\ e \in Events
  <2>1. queue[t] \in Seq(Events) /\ queue[t] # <<>>
      BY <1>1 DEF Types
  <2>2. /\ Head(queue[t]) \in Events
        /\ \A i \in 1 .. Len(Tail(queue[t])) :
              i + 1 \in 1 .. Len(queue[t]) /\ Tail(queue[t])[i] = queue[t][i + 1]
        /\ 1 \in 1 .. Len(queue[t]) /\ Head(queue[t]) = queue[t][1]
      BY <2>1, Popped
  <2> QED
      BY <1>2, <2>1, <2>2
<1>4. /\ others[t] \in Nat /\ try[t] \in Nat
      /\ others'[t] = IF own THEN others[t] ELSE others[t] + 1
      /\ others' \in [Tools -> Nat]
      /\ \A u \in Tools \ {t} : others'[u] = others[u]
    BY <1>1 DEF TriesInv, Numbers
<1>5. Marked(t)'
  <2>1. Marked(t)
      BY DEF TriesInv
  <2>2. \A i, j \in 1 .. Len(queue'[t]) : i + 1 = j + 1 => i = j
      OBVIOUS
  <2> QED
      BY <1>1, <1>3, <2>1, <2>2 DEF Marked
<1>6. /\ try[t] >= 1 /\ others[t] + try[t] >= Tries - 1 /\ req[t].n >= 1
      /\ Mine(t) /\ Marked(t) /\ req[t].n \in Nat
    BY <1>1 DEF TriesInv, Numbers, Types
\* An event of its own that does not end the request is its status.
<1>7. own /\ ~Takes(req[t], e) /\ ~Refuses(req[t], e)
          => e.evt = "status" /\ others[t] + try[t] # Tries - 1
  <2> SUFFICES ASSUME own, ~Takes(req[t], e), ~Refuses(req[t], e)
               PROVE  e.evt = "status" /\ others[t] + try[t] # Tries - 1
      OBVIOUS
  <2>1. e.opcode = req[t].opcode /\ (e.evt = "status" => others[t] + try[t] # Tries - 1)
      BY <1>3, <1>6 DEF Mine
  <2>2. e.evt \notin {"adv", "inquiry"} /\ (e.evt = "conn" => Awaits(e.opcode) = "conn")
      BY <1>3, <1>6 DEF Marked
  <2>3. e.evt # "complete" /\ e.evt # "refused" /\ e.evt # "conn"
      BY <2>1, <2>2 DEF Takes, Refuses
  <2>4. e.evt \in Kinds
      BY <1>3 DEF Events
  <2> QED
      BY <2>1, <2>2, <2>3, <2>4 DEF Kinds
<1>8. ASSUME NEW how, Return(t, how), how # "exhausted" PROVE TriesInv'
    BY <1>1, <1>2, <1>4, <1>5, <1>8, ReturnTries
<1>9. CASE /\ ~Takes(req[t], e) /\ ~Refuses(req[t], e)
           /\ LastTry(try[t]) /\ Return(t, "exhausted")
  <2>1. try[t] = 1
      BY <1>9 DEF LastTry
  <2>2. others'[t] >= Tries - 1
      BY <1>4, <1>6, <1>7, <1>9, <2>1, HciAssumption
  <2> QED
      BY <1>1, <1>2, <1>4, <1>5, <1>9, <2>2, ReturnTries
<1>10. CASE /\ ~Takes(req[t], e) /\ ~Refuses(req[t], e)
            /\ ~LastTry(try[t])
            /\ try' = [try EXCEPT ![t] = @ - 1]
            /\ UNCHANGED <<pc, req, answer>>
  <2>1. /\ try'[t] = try[t] - 1 /\ try'[t] \in Nat /\ try'[t] >= 1
        /\ try' \in [Tools -> Nat]
        /\ \A u \in Tools \ {t} : try'[u] = try[u]
      BY <1>4, <1>6, <1>10 DEF LastTry, TriesInv, Numbers
  <2>2. others'[t] + try'[t] >= Tries - 1
      BY <1>4, <1>6, <1>7, <1>10, <2>1, HciAssumption
  <2>3. Numbers'
      BY <1>1, <1>4, <1>10, <2>1, <2>2 DEF TriesInv, Numbers
  <2>4. \A u \in Tools : Marked(u)'
    <3>1. ASSUME NEW u \in Tools, u # t PROVE Marked(u)'
        BY <1>1, <1>2, <3>1 DEF TriesInv, Marked
    <3> QED
        BY <1>5, <3>1
  <2>5. ASSUME NEW u \in Tools, pc'[u] = "wait" PROVE Mine(u)'
    <3>1. CASE u # t
      <4>1. Mine(u)
          BY <1>10, <2>5 DEF TriesInv
      <4> QED
          BY <1>1, <1>2, <1>4, <1>10, <2>1, <3>1, <4>1 DEF Mine
    <3>2. CASE ~own
      <4>1. others'[t] + try'[t] = others[t] + try[t]
          BY <1>4, <2>1, <3>2
      <4>2. CASE u = t
          BY <1>1, <1>3, <1>6, <1>10, <4>1, <4>2 DEF Mine
      <4> QED
          BY <3>1, <4>2
    <3>3. CASE own /\ u = t
      <4>1. e.evt = "status"
          BY <1>7, <1>10, <3>3
      <4>2. \A j \in 1 .. Len(commands) : commands[j].n # req[t].n
          BY <1>3, <1>6, <3>3, <4>1 DEF Marked
      <4>3. \A i \in 1 .. Len(queue'[t]) :
               queue'[t][i].n = req[t].n => queue'[t][i].evt # "status"
        <5> SUFFICES ASSUME NEW i \in 1 .. Len(queue'[t]), queue'[t][i].n = req[t].n,
                            queue'[t][i].evt = "status"
                     PROVE  FALSE
            OBVIOUS
        <5>1. /\ i + 1 \in 1 .. Len(queue[t]) /\ 1 \in 1 .. Len(queue[t])
              /\ queue[t][i + 1].evt = "status" /\ queue[t][1].evt = "status"
              /\ queue[t][i + 1].n = queue[t][1].n
            BY <1>3, <3>3, <4>1
        <5>2. i + 1 = 1
            BY <1>6, <5>1 DEF Marked
        <5> QED
            BY <5>2
      <4>4. \A c \in connecting : c.n = req[t].n => c.opcode = req[t].opcode
          BY <1>6 DEF Mine
      <4>5. \A i \in 1 .. Len(queue'[t]) :
               queue'[t][i].n = req[t].n => queue'[t][i].opcode = req[t].opcode
          BY <1>3, <1>6 DEF Mine
      <4> QED
          BY <1>1, <1>10, <3>3, <4>2, <4>3, <4>4, <4>5 DEF Mine
    <3> QED
        BY <3>1, <3>2, <3>3
  <2>6. NotStarved'
    <3>1. \A u \in Tools : others[u] \in Nat /\ others'[u] \in Nat /\ others'[u] >= others[u]
        BY <1>4 DEF TriesInv, Numbers
    <3> QED
        BY <1>10, <3>1, HciAssumption DEF TriesInv, NotStarved
  <2> QED
      BY <2>3, <2>4, <2>5, <2>6 DEF TriesInv
<1>11. \/ Takes(req[t], e) /\ Return(t, IF own THEN "own" ELSE "foreign")
       \/ Refuses(req[t], e) /\ Return(t, "refused")
       \/ /\ ~Takes(req[t], e) /\ ~Refuses(req[t], e)
          /\ LastTry(try[t]) /\ Return(t, "exhausted")
       \/ /\ ~Takes(req[t], e) /\ ~Refuses(req[t], e)
          /\ ~LastTry(try[t])
          /\ try' = [try EXCEPT ![t] = @ - 1]
          /\ UNCHANGED <<pc, req, answer>>
    BY DEF Read
<1>12. (IF own THEN "own" ELSE "foreign") # "exhausted"
    OBVIOUS
<1> HIDE DEF e, own
<1> QED
    BY <1>8, <1>9, <1>10, <1>11, <1>12

\* An event that is delivered is a new one, and a status the only one of a
\* command that is gone.
LEMMA DeliverTries ==
    ASSUME Types, TriesInv, NEW e \in Events, Deliver(e), e.n <= sent,
           UNCHANGED <<pc, req, try, others, answer, sent>>,
           commands' = commands \/ (commands # <<>> /\ commands' = Tail(commands)),
           \A c \in connecting' : c \in connecting \/ \E j \in 1 .. Len(commands) : c = commands[j],
           e.evt \in {"adv", "inquiry"} => e.n = 0,
           e.evt = "conn" => Awaits(e.opcode) = "conn",
           \/ e.evt \in {"adv", "inquiry"}
           \/ e.evt # "status" /\ \E c \in connecting : e.opcode = c.opcode /\ e.n = c.n
           \/ /\ commands # <<>> /\ commands' = Tail(commands)
              /\ e.opcode = commands[1].opcode /\ e.n = commands[1].n
    PROVE  TriesInv'
<1>1. /\ commands \in Seq(Sent)
      /\ \A i \in 1 .. Len(commands') :
            \E j \in 1 .. Len(commands) : commands'[i] = commands[j]
  <2>1. commands \in Seq(Sent)
      BY DEF Types
  <2>2. CASE commands' = commands
      BY <2>1, <2>2
  <2>3. CASE commands # <<>> /\ commands' = Tail(commands)
    <3>1. \A i \in 1 .. Len(Tail(commands)) :
             i + 1 \in 1 .. Len(commands) /\ Tail(commands)[i] = commands[i + 1]
        BY <2>1, <2>3, Popped
    <3> QED
        BY <2>1, <2>3, <3>1
  <2> QED
      BY <2>1, <2>2, <2>3
<1>2. \A i, j \in 1 .. Len(commands') : commands'[i].n = commands'[j].n => i = j
  <2>1. CASE commands' = commands
      BY <2>1 DEF TriesInv, Numbers
  <2>2. CASE commands # <<>> /\ commands' = Tail(commands)
    <3>1. \A i \in 1 .. Len(commands') : i + 1 \in 1 .. Len(commands) /\ commands'[i] = commands[i + 1]
        BY <1>1, <2>2, Popped
    <3>2. \A i, j \in 1 .. Len(commands') : i + 1 = j + 1 => i = j
        OBVIOUS
    <3> QED
        BY <3>1, <3>2 DEF TriesInv, Numbers
  <2> QED
      BY <2>1, <2>2
<1>3. Numbers'
  <2>1. \A i \in 1 .. Len(commands') : commands'[i].n \in 1 .. sent'
    <3>1. \A j \in 1 .. Len(commands) : commands[j].n \in 1 .. sent'
        BY DEF TriesInv, Numbers
    <3> QED
        BY <1>1, <3>1
  <2>2. \A c \in connecting' : c.n \in 1 .. sent'
      BY DEF TriesInv, Numbers
  <2> QED
      BY <1>2, <2>1, <2>2 DEF TriesInv, Numbers
\* The status of a command is delivered as it leaves.
<1>4. e.evt = "status" =>
         /\ \A j \in 1 .. Len(commands') : commands'[j].n # e.n
         /\ \E j \in 1 .. Len(commands) : commands[j].opcode = e.opcode /\ commands[j].n = e.n
  <2> SUFFICES ASSUME e.evt = "status"
               PROVE  /\ \A j \in 1 .. Len(commands') : commands'[j].n # e.n
                      /\ \E j \in 1 .. Len(commands) : commands[j].opcode = e.opcode /\ commands[j].n = e.n
      OBVIOUS
  <2>1. /\ commands # <<>> /\ commands' = Tail(commands)
        /\ e.opcode = commands[1].opcode /\ e.n = commands[1].n
      OBVIOUS
  <2>2. /\ 1 \in 1 .. Len(commands)
        /\ \A i \in 1 .. Len(commands') :
              i \in Nat /\ i + 1 # 1 /\ i + 1 \in 1 .. Len(commands) /\ commands'[i] = commands[i + 1]
      BY <1>1, <2>1, Popped
  <2>3. \A i \in 1 .. Len(commands') : commands'[i].n # commands[1].n
      BY <2>2 DEF TriesInv, Numbers
  <2> QED
      BY <2>1, <2>2, <2>3
<1>5. ASSUME NEW t \in Tools
      PROVE  /\ queue'[t] = queue[t] \/ queue'[t] = Append(queue[t], e)
             /\ queue[t] \in Seq(Events)
    BY DEF Deliver, Types, Procs
<1>6. ASSUME NEW t \in Tools PROVE Marked(t)'
  <2>0. \A i \in 1 .. Len(queue[t]) :
           /\ queue[t][i].n <= sent
           /\ queue[t][i].evt \in {"adv", "inquiry"} => queue[t][i].n = 0
           /\ queue[t][i].evt = "conn" => Awaits(queue[t][i].opcode) = "conn"
           /\ queue[t][i].evt = "status" =>
                 \A j \in 1 .. Len(commands') : commands'[j].n # queue[t][i].n
      BY <1>1 DEF TriesInv, Marked
  <2>1. CASE queue'[t] = queue[t]
      BY <2>0, <2>1 DEF TriesInv, Marked
  <2>2. CASE queue'[t] = Append(queue[t], e)
    <3>1. /\ Len(queue'[t]) = Len(queue[t]) + 1
          /\ \A i \in 1 .. Len(queue'[t]) :
                \/ i \in 1 .. Len(queue[t]) /\ queue'[t][i] = queue[t][i]
                \/ i = Len(queue[t]) + 1 /\ queue'[t][i] = e
        BY <1>5, <2>2
    <3>2. \A i \in 1 .. Len(queue[t]) : queue[t][i].evt = "status" =>
             e.evt # "status" \/ queue[t][i].n # e.n
        BY <1>4 DEF TriesInv, Marked
    <3>3. \A i, j \in 1 .. Len(queue'[t]) :
             queue'[t][i].evt = "status" /\ queue'[t][j].evt = "status" /\ queue'[t][i].n = queue'[t][j].n
                => i = j
        BY <3>1, <3>2 DEF TriesInv, Marked
    <3>4. \A i \in 1 .. Len(queue'[t]) :
             /\ queue'[t][i].n <= sent'
             /\ queue'[t][i].evt \in {"adv", "inquiry"} => queue'[t][i].n = 0
             /\ queue'[t][i].evt = "conn" => Awaits(queue'[t][i].opcode) = "conn"
             /\ queue'[t][i].evt = "status" =>
                   \A j \in 1 .. Len(commands') : commands'[j].n # queue'[t][i].n
        BY <1>4, <2>0, <3>1
    <3> QED
        BY <3>3, <3>4 DEF Marked
  <2> QED
      BY <1>5, <2>1, <2>2
<1>7. ASSUME NEW t \in Tools, pc'[t] = "wait" PROVE Mine(t)'
  <2>1. Mine(t) /\ req[t].n \in 1 .. sent
      BY <1>7 DEF TriesInv, Numbers
  <2>2. e.n = req[t].n => e.opcode = req[t].opcode
                           /\ (e.evt = "status" => others[t] + try[t] # Tries - 1)
    <3>1. e.n = req[t].n => e.evt \notin {"adv", "inquiry"}
        BY <2>1 DEF Types
    <3>2. (\E c \in connecting : e.opcode = c.opcode /\ e.n = c.n)
             => (e.n = req[t].n => e.opcode = req[t].opcode)
        BY <2>1 DEF Mine
    <3>3. commands # <<>> => 1 \in 1 .. Len(commands)
        BY <1>1
    <3>4. \A j \in 1 .. Len(commands) : commands[j].n = req[t].n =>
             commands[j].opcode = req[t].opcode /\ others[t] + try[t] # Tries - 1
        BY <2>1 DEF Mine
    <3> QED
        BY <1>4, <3>1, <3>2, <3>3, <3>4
  <2>3. \A i \in 1 .. Len(commands') : commands'[i].n = req[t].n =>
           commands'[i].opcode = req[t].opcode /\ others[t] + try[t] # Tries - 1
      BY <1>1, <2>1 DEF Mine
  <2>4. \A c \in connecting' : c.n = req[t].n => c.opcode = req[t].opcode
      BY <2>1 DEF Mine
  <2>5. \A i \in 1 .. Len(queue'[t]) : queue'[t][i] = e \/ \E j \in 1 .. Len(queue[t]) : queue'[t][i] = queue[t][j]
      BY <1>5
  <2>6. \A i \in 1 .. Len(queue'[t]) : queue'[t][i].n = req[t].n =>
           /\ queue'[t][i].opcode = req[t].opcode
           /\ queue'[t][i].evt = "status" => others[t] + try[t] # Tries - 1
      BY <2>1, <2>2, <2>5 DEF Mine
  <2> QED
      BY <2>3, <2>4, <2>6 DEF Mine
<1>8. NotStarved'
    BY DEF TriesInv, NotStarved
<1> QED
    BY <1>3, <1>6, <1>7, <1>8 DEF TriesInv

\* The controller and the air.
LEMMA AirTries ==
    ASSUME Types, TriesInv,
           Answer \/ (\E c \in connecting : Connect(c)) \/ (\E evt \in {"adv", "inquiry"} : Hear(evt))
    PROVE  TriesInv'
<1>1. CASE Answer
  <2> DEFINE c == Head(commands)
  <2>1. /\ commands \in Seq(Sent) /\ commands # <<>> /\ commands' = Tail(commands)
        /\ UNCHANGED <<pc, req, try, others, answer, sent>>
      BY <1>1 DEF Answer, tools, Types
  <2>2. c \in Sent /\ 1 \in 1 .. Len(commands) /\ c = commands[1]
      BY <2>1, Popped
  <2>3. PICK evt \in {"complete", "status", "refused"} : Deliver(Event(evt, c))
      BY <1>1 DEF Answer
  <2> DEFINE e == Event(evt, c)
  <2>4. e \in Events /\ e.evt = evt /\ e.opcode = c.opcode /\ e.n = c.n
      BY <2>2, EventTypes DEF Kinds, Event
  <2>5. connecting' = connecting \/ connecting' = connecting \cup {c}
      BY <1>1 DEF Answer
  <2>6. e.n <= sent
      BY <2>2, <2>4 DEF TriesInv, Numbers
  <2>7. Deliver(e)
      BY <2>3
  <2> HIDE DEF e, c
  <2> QED
      BY <2>1, <2>2, <2>4, <2>5, <2>6, <2>7, DeliverTries
<1>2. ASSUME NEW c \in connecting, Connect(c) PROVE TriesInv'
  <2> DEFINE e == Event("conn", c)
  <2>1. /\ connecting' = connecting \ {c} /\ Deliver(e)
        /\ UNCHANGED <<commands, pc, req, try, others, answer, sent>>
      BY <1>2 DEF Connect, tools
  <2>2. c \in Sent /\ Awaits(c.opcode) = "conn" /\ c.n <= sent
      BY DEF Types, TriesInv, Numbers
  <2>3. e \in Events /\ e.evt = "conn" /\ e.opcode = c.opcode /\ e.n = c.n
      BY <2>2, EventTypes DEF Kinds, Event
  <2> HIDE DEF e
  <2> QED
      BY <2>1, <2>2, <2>3, DeliverTries
<1>3. ASSUME NEW evt \in {"adv", "inquiry"}, Hear(evt) PROVE TriesInv'
  <2> DEFINE e == Event(evt, NoRequest)
  <2>1. Deliver(e) /\ UNCHANGED <<commands, connecting, pc, req, try, others, answer, sent>>
      BY <1>3 DEF Hear
  <2>2. e \in Events /\ e.evt = evt /\ e.n = 0
      BY EventTypes DEF Kinds, Event, NoRequest
  <2>3. e.n <= sent
      BY <2>2 DEF Types
  <2> HIDE DEF e
  <2> QED
      BY <2>1, <2>2, <2>3, DeliverTries
<1> QED
    BY <1>1, <1>2, <1>3

\* Nobody else touches the requests.
LEMMA OthersTries ==
    ASSUME Types, TriesInv, ScanStart \/ Receive \/ ScanEnd PROVE TriesInv'
<1>1. UNCHANGED <<req, try, others, commands, connecting, sent, answer>>
    BY DEF ScanStart, Receive, ScanEnd, tools, air
<1>2. \A t \in Tools : pc'[t] = pc[t] /\ queue'[t] = queue[t]
    BY HciAssumption DEF Types, Procs, Scanner, ScanStart, Receive, ScanEnd, GoTo
<1>3. Numbers'
    BY <1>1, <1>2 DEF TriesInv, Numbers
<1>4. ASSUME NEW t \in Tools PROVE Marked(t)' /\ (pc'[t] = "wait" => Mine(t)')
    BY <1>1, <1>2 DEF TriesInv, Marked, Mine
<1>5. NotStarved'
    BY <1>1 DEF TriesInv, NotStarved
<1> QED
    BY <1>3, <1>4, <1>5 DEF TriesInv

\* The tries of a request are used up only by events of others, but for one.
THEOREM Starved == Spec => []NotStarved
<1>1. Init => TriesInv
  <2> SUFFICES ASSUME Init PROVE TriesInv
      OBVIOUS
  <2>1. /\ \A t \in Tools : pc[t] = "idle" /\ queue[t] = <<>> /\ answer[t] = "none"
        /\ Len(commands) = 1 /\ commands[1].n = 1 /\ connecting = {} /\ sent = 1
        /\ try \in [Tools -> Nat] /\ others \in [Tools -> Nat]
      BY DEF Init, Procs
  <2>2. Numbers
      BY <2>1 DEF Numbers
  <2>3. \A t \in Tools : Marked(t)
      BY <2>1 DEF Marked
  <2> QED
      BY <2>1, <2>2, <2>3 DEF TriesInv, NotStarved
<1>2. Types /\ TriesInv /\ [Next]_vars => TriesInv'
  <2> SUFFICES ASSUME Types, TriesInv, [Next]_vars PROVE TriesInv'
      OBVIOUS
  <2>1. ASSUME NEW t \in Tools, Tool(t) PROVE TriesInv'
    <3>1. CASE Fails(t) \/ PollTimesOut(t)
      <4>1. /\ Return(t, "failed") \/ Return(t, "timeout")
            /\ UNCHANGED <<queue, others, commands, connecting, sent>>
          BY <3>1 DEF Fails, PollTimesOut, air
      <4>2. Marked(t)' /\ others' \in [Tools -> Nat]
          BY <4>1 DEF TriesInv, Marked, Numbers
      <4> QED
          BY <4>1, <4>2, ReturnTries
    <3> QED
        BY <2>1, <3>1, PrepareTries, SendTries, ReadTries DEF Tool
  <2>2. CASE ScanStart \/ Receive \/ ScanEnd
      BY <2>2, OthersTries
  <2>3. CASE Answer \/ (\E c \in connecting : Connect(c)) \/ (\E evt \in {"adv", "inquiry"} : Hear(evt))
      BY <2>3, AirTries
  <2>4. CASE UNCHANGED vars
      BY <2>4 DEF vars, sockets, tools, air, TriesInv, Numbers, Marked, Mine, NotStarved
  <2> QED
      BY <2>1, <2>2, <2>3, <2>4 DEF Next
<1>3. IInv => Types
    BY DEF IInv
<1>4. TriesInv => NotStarved
    BY DEF TriesInv
<1> QED
    BY <1>1, <1>2, <1>3, <1>4, Inductive, PTL DEF Spec
=============================================================================
