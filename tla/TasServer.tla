------------------------------ MODULE TasServer ------------------------------
(***************************************************************************)
(* The gateway's server for the bicycle's programs, tas_ready.on('connect')*)
(* of app.js: it cuts the byte stream of each connection into messages at  *)
(* '}', uploads them to the CSE while the registration is done, and hands  *)
(* the commands of the CSE to the program that spoke for the container.    *)
(*                                                                         *)
(* A message is two parts, one before the '}' and one with it; TCP may cut *)
(* the stream between any two parts.  Each upload is an HTTP request of    *)
(* its own, and the CSE serves those under way in any order.               *)
(***************************************************************************)
EXTENDS Naturals, Sequences, FiniteSetsExt

CONSTANTS
    Conns,       \* connections of the programs
    Names,       \* containers they upload to
    MaxSent,     \* bound: messages of each connection
    MaxFaults,   \* bound: uploads that fail, or whose answer is lost
    MaxCommands  \* bound: notifications from the CSE

ASSUME TasAssumption == MaxSent \in Nat /\ MaxFaults \in Nat /\ MaxCommands \in Nat

VARIABLES
    stream,      \* parts on their way to the gateway
    buffers,     \* parts kept for the next 'data' event
    ready,       \* sh_state = 'crtci'
    running,     \* FALSE once JSON.parse threw
    open,        \* connections whose program still runs
    socket_arr,  \* connection that hears the commands of each container
    heard,       \* command each connection was given last
    inflight,    \* uploads the CSE has not served
    acks,        \* answers "2001" written back to each connection
    \* History and bounds:
    sent,        \* messages sent by each connection
    handled,     \* messages the loop took up, in order
    last,        \* the last of them for each container
    torn,        \* connections that lost the tail of a chunk
    commands,    \* commands so far
    stored,      \* messages the CSE has stored
    faults

tcp     == <<stream, buffers, sent, torn>>
uploads == <<inflight, acks, stored, faults>>
owners  == <<open, socket_arr, heard, commands>>
vars    == <<tcp, ready, running, handled, last, uploads, owners>>

Messages == [conn : Conns, n : 1 .. MaxSent, ctname : Names]
Parts    == [msg : Messages, closes : BOOLEAN]
\* No message: that of a container nobody has spoken for.
Nobody   == "nobody"
None     == [conn |-> Nobody, n |-> 0, ctname |-> "none"]

Init ==
    /\ stream = [c \in Conns |-> <<>>]
    /\ buffers = [c \in Conns |-> <<>>]
    /\ ready = FALSE
    /\ running = TRUE
    /\ open = Conns
    /\ socket_arr = [ct \in Names |-> Nobody]
    /\ heard = [c \in Conns |-> 0]
    /\ commands = 0
    /\ inflight = {}
    /\ acks = [c \in Conns |-> 0]
    /\ sent = [c \in Conns |-> 0]
    /\ handled = [c \in Conns |-> <<>>]
    /\ last = [ct \in Names |-> None]
    /\ torn = {}
    /\ stored = {}
    /\ faults = 0

-----------------------------------------------------------------------------
\* A program's sendall (external).
SendAll(c, ct) ==
    /\ c \in open
    /\ sent[c] < MaxSent
    /\ sent' = [sent EXCEPT ![c] = @ + 1]
    /\ LET m == [conn |-> c, n |-> sent'[c], ctname |-> ct]
       IN  stream' = [stream EXCEPT ![c] = @ \o <<[msg |-> m, closes |-> FALSE],
                                                  [msg |-> m, closes |-> TRUE]>>]
    /\ UNCHANGED <<buffers, torn, ready, running, handled, last, uploads, owners>>

\* The places of the '}' in a text, and of the i-th of them.
Closings(text) == {i \in DOMAIN text : text[i].closes}

Nth(places, i) == CHOOSE p \in places : Cardinality({q \in places : q <= p}) = i

\* What the pieces between the '}' are: a piece that does not begin where a
\* message does is no JSON.
Broken(text) == {i \in DOMAIN text : text[i].closes /\ (i = 1 \/ text[i-1].closes)}

\* The text before the first piece that makes JSON.parse throw.
Good(text) == IF Broken(text) = {} THEN text ELSE SubSeq(text, 1, Min(Broken(text)) - 1)

\* The messages that end there.
Lines(text) ==
    LET ends == Closings(Good(text))
    IN  [i \in 1 .. Cardinality(ends) |-> Good(text)[Nth(ends, i)].msg]

LastOf(lines, ct) == LET i == Max({j \in DOMAIN lines : lines[j].ctname = ct}) IN lines[i]

NamesOf(lines) == {lines[i].ctname : i \in DOMAIN lines}

\* The loop over the messages: the connection takes over the containers, and
\* uploads while ready; otherwise nothing is sent, not even an answer.
Handle(c, lines) ==
    /\ handled' = [handled EXCEPT ![c] = @ \o lines]
    /\ last' = [ct \in Names |-> IF ct \in NamesOf(lines) THEN LastOf(lines, ct) ELSE last[ct]]
    /\ socket_arr' = [ct \in Names |-> IF ct \in NamesOf(lines) THEN c ELSE socket_arr[ct]]
    /\ \/ ready /\ inflight' = inflight \cup {lines[i] : i \in DOMAIN lines}
       \/ ~ready /\ UNCHANGED inflight
    /\ UNCHANGED <<acks, stored, faults, open, heard, commands>>

\* Mutant: the buffer is emptied by every chunk.
KeepsNothing(text) == <<>>

\* What stays for the next event: all of it, or, once it has a '}', nothing,
\* the part after the last '}' included.
Kept(text) == IF Closings(text) = {} THEN text ELSE <<>>

\* Mutant: what is no JSON is skipped.
SkipsBroken(c, text) == UNCHANGED running

\* Nobody catches what JSON.parse throws.
Parse(c, text) == running' = (Broken(text) = {})

\* socket.on('data'): a chunk of any length.
Data(c) ==
    /\ running
    /\ \E k \in DOMAIN stream[c] :
          LET text == buffers[c] \o SubSeq(stream[c], 1, k)
          IN  /\ stream' = [stream EXCEPT ![c] = SubSeq(@, k + 1, Len(@))]
              /\ buffers' = [buffers EXCEPT ![c] = Kept(text)]
              /\ Handle(c, Lines(text))
              /\ Parse(c, text)
              /\ torn' = IF Closings(text) # {} /\ ~text[Len(text)].closes
                         THEN torn \cup {c} ELSE torn
    /\ UNCHANGED <<ready, sent>>

-----------------------------------------------------------------------------
\* The registration, which ThymeRegistration models, starts over or is done.
Register ==
    /\ running
    /\ ready' = ~ready
    /\ UNCHANGED <<tcp, running, handled, last, uploads, owners>>

\* Mutant: the answer goes to the connection that spoke for the container last.
AnswersSpeaker(m) ==
    acks' = [c \in Conns |-> IF running /\ c \in open /\ c = socket_arr[m.ctname]
                             THEN acks[c] + 1 ELSE acks[c]]

\* The callback of the upload writes the status to the connection the message
\* came from; it does not say which message it is for.
Answer(m) ==
    acks' = [c \in Conns |-> IF running /\ c \in open /\ c = m.conn
                             THEN acks[c] + 1 ELSE acks[c]]

\* A fault of the network, or the gateway has died.
Fault ==
    /\ running => faults < MaxFaults
    /\ faults' = IF running THEN faults + 1 ELSE faults

\* The CSE serves an upload (external); a reset connection loses the answer, and
\* adn.js does not call back.
CseStores(m) ==
    /\ m \in inflight
    /\ inflight' = inflight \ {m}
    /\ stored' = stored \cup {m}
    /\ \/ Answer(m) /\ UNCHANGED faults
       \/ Fault /\ UNCHANGED acks
    /\ UNCHANGED <<tcp, ready, running, handled, last, owners>>

\* The upload fails: another status is written back, or nothing, and nothing
\* sent again.  When the gateway has died, the request may not have left it.
CseRefuses(m) ==
    /\ m \in inflight
    /\ inflight' = inflight \ {m}
    /\ Fault
    /\ UNCHANGED <<tcp, ready, running, handled, last, acks, stored, owners>>

-----------------------------------------------------------------------------
\* Mutant: the close event frees what the connection spoke for, also when
\* another has taken it over.
FreesNames(c) ==
    socket_arr' = [ct \in Names |-> IF ct \in NamesOf(handled[c]) THEN Nobody ELSE socket_arr[ct]]

\* socket.on('end'), on('close') and on('error') only log.
OnClose(c) == UNCHANGED socket_arr

\* A program ends; what it sent still arrives.  Started again it has another
\* connection.
Close(c) ==
    /\ c \in open
    /\ open' = open \ {c}
    /\ OnClose(c)
    /\ UNCHANGED <<tcp, ready, running, handled, last, uploads, heard, commands>>

\* send_tas writes a command to the connection of the container, if there is
\* one; a closed one only logs an error.
SendTas(ct, command) ==
    heard' = [c \in Conns |-> IF c = socket_arr[ct] /\ c \in open THEN command ELSE heard[c]]

\* A notification of the CSE comes for a subscribed container.
Notify(ct) ==
    /\ running
    /\ commands < MaxCommands
    /\ commands' = commands + 1
    /\ SendTas(ct, commands')
    /\ UNCHANGED <<tcp, ready, running, handled, last, uploads, open, socket_arr>>

Next ==
    \/ \E c \in Conns : Data(c) \/ Close(c) \/ \E ct \in Names : SendAll(c, ct)
    \/ \E ct \in Names : Notify(ct)
    \/ Register
    \/ \E m \in inflight : CseStores(m) \/ CseRefuses(m)

\* Bytes that were sent arrive.
Fairness == \A c \in Conns : WF_vars(Data(c))

Spec     == Init /\ [][Next]_vars
FairSpec == Spec /\ Fairness

-----------------------------------------------------------------------------
(* Properties. *)

\* As long as no chunk ended inside a message after a whole one, each message
\* is taken up once and in order, however the stream is cut: none is missed,
\* repeated or put together wrongly, and the gateway lives.
EachOnce ==
    torn = {} =>
        /\ running
        /\ \A c \in Conns :
              /\ \A i \in DOMAIN handled[c] : handled[c][i].n = i
              /\ Len(handled[c]) + Cardinality(Closings(buffers[c] \o stream[c])) = sent[c]

\* A program that got a "2001" for each message it sent can rely on all of them
\* being stored, though the answers carry no number and two programs upload to
\* one container: no message that was dropped while the registration was
\* starting over, or refused, or is still under way, is made up for by the
\* answer to another one.
AcknowledgedIsStored ==
    \A c \in Conns : acks[c] = sent[c] =>
        {m.n : m \in {o \in stored : o.conn = c}} = 1 .. sent[c]

\* While a program is the last whose message for a container was taken up, and
\* still runs, it hears every command for that container, whatever programs
\* spoke for it before and end later; and nobody else hears any.
LastSpeakerHears ==
    [][\A ct \in Names, c \in Conns :
          Notify(ct) => (heard'[c] = commands' <=> c \in open /\ last[ct].conn = c)]_vars

\* A chunk that ends inside a message after a whole one ends the gateway with
\* all its connections: the rest of the message, when it comes, is no JSON.
TornIsFatal == \A c \in Conns : c \in torn ~> ~running
=============================================================================
