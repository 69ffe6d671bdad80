--------------------------- MODULE TasServerProofs ---------------------------
(***************************************************************************)
(* Proofs about TasServer, for any number of programs, containers,         *)
(* messages, faults and commands.                                          *)
(***************************************************************************)
EXTENDS TasServer, FiniteSetTheorems, SequenceTheorems, TLAPS

(* The text of a connection. *)

\* A text that begins with message h + 1 of connection c: its parts open and
\* close in turn.
Whole(text, c, h) ==
    \A m \in Nat \ {0} :
        /\ 2 * m - 1 <= Len(text) =>
              ~text[2 * m - 1].closes /\ text[2 * m - 1].msg.conn = c
        /\ 2 * m <= Len(text) =>
              text[2 * m].closes /\ text[2 * m].msg.conn = c /\ text[2 * m].msg.n = h + m

\* One that begins with the tail of a message.
Headless(text, c) ==
    \A m \in Nat \ {0} :
        /\ 2 * m - 1 <= Len(text) =>
              text[2 * m - 1].closes /\ text[2 * m - 1].msg.conn = c
        /\ 2 * m <= Len(text) => ~text[2 * m].closes /\ text[2 * m].msg.conn = c

\* Messages h + 1, h + 2, ... of connection c.
Follow(lines, c, h) == \A i \in DOMAIN lines : lines[i].conn = c /\ lines[i].n = h + i

Evens(q) == {2 * m : m \in 1 .. q}

\* The first i even numbers are as many as they should be.
LEMMA CountEvens ==
    ASSUME NEW i \in Nat
    PROVE  IsFiniteSet(Evens(i)) /\ Cardinality(Evens(i)) = i
<1> DEFINE f == [m \in 1 .. i |-> 2 * m]
<1>1. f \in Bijection(1 .. i, Evens(i))
  <2>1. f \in [1 .. i -> Evens(i)]
      BY DEF Evens
  <2>2. IsInjective(f)
      BY DEF IsInjective
  <2>3. \A t \in Evens(i) : \E a \in 1 .. i : f[a] = t
      BY DEF Evens
  <2> QED
      BY <2>1, <2>2, <2>3 DEF Bijection, Injection, Surjection
<1>2. ExistsBijection(1 .. i, Evens(i))
    BY <1>1 DEF ExistsBijection
<1>3. IsFiniteSet(1 .. i) /\ Cardinality(1 .. i) = i
    BY FS_Interval
<1> QED
    BY <1>2, <1>3, FS_Bijection

\* The i-th even number is 2i.
LEMMA NthEven ==
    ASSUME NEW q \in Nat, NEW i \in 1 .. q
    PROVE  Nth(Evens(q), i) = 2 * i
<1>1. ASSUME NEW p \in Evens(q), NEW k \in 1 .. q, p = 2 * k
      PROVE  Cardinality({r \in Evens(q) : r <= p}) = k
  <2>1. {r \in Evens(q) : r <= p} = Evens(k)
      BY <1>1 DEF Evens
  <2> QED
      BY <2>1, CountEvens
<1>2. 2 * i \in Evens(q) /\ \A p \in Evens(q) : \E k \in 1 .. q : p = 2 * k
    BY DEF Evens
<1> QED
    BY <1>1, <1>2 DEF Nth

\* A number is even or odd.
LEMMA EvenOrOdd ==
    ASSUME NEW i \in Nat \ {0}
    PROVE  \E m \in Nat \ {0} : i = 2 * m \/ i = 2 * m - 1
<1>1. (i + 1) \div 2 \in Nat \ {0} /\ (i = 2 * ((i + 1) \div 2) \/ i = 2 * ((i + 1) \div 2) - 1)
    OBVIOUS
<1> QED
    BY <1>1

\* What a text that begins with a message holds.
LEMMA WholeText ==
    ASSUME NEW text \in Seq(Parts), NEW c, NEW h, Whole(text, c, h)
    PROVE  /\ Broken(text) = {}
           /\ \A q \in Nat : Len(text) = 2 * q \/ Len(text) = 2 * q + 1
                 => Closings(text) = Evens(q)
<1>1. ASSUME NEW i \in DOMAIN text
      PROVE  text[i].closes <=> \E m \in Nat \ {0} : i = 2 * m
  <2>1. i \in Nat \ {0} /\ i <= Len(text)
      OBVIOUS
  <2>2. PICK m \in Nat \ {0} : i = 2 * m \/ i = 2 * m - 1
      BY <2>1, EvenOrOdd
  <2>3. CASE i = 2 * m
      BY <2>1, <2>3 DEF Whole
  <2>4. CASE i = 2 * m - 1
    <3>1. ~text[i].closes
        BY <2>1, <2>4 DEF Whole
    <3>2. \A k \in Nat : i # 2 * k
        BY <2>4
    <3> QED
        BY <3>1, <3>2
  <2> QED
      BY <2>2, <2>3, <2>4
<1>2. Broken(text) = {}
  <2> SUFFICES ASSUME NEW i \in DOMAIN text, text[i].closes, i = 1 \/ text[i - 1].closes PROVE FALSE
      BY DEF Broken
  <2>1. PICK m \in Nat \ {0} : i = 2 * m
      BY <1>1
  <2>2. i - 1 \in DOMAIN text /\ text[i - 1].closes
      BY <2>1
  <2>3. PICK k \in Nat \ {0} : i - 1 = 2 * k
      BY <1>1, <2>2
  <2> QED
      BY <2>1, <2>3
<1>3. ASSUME NEW q \in Nat, Len(text) = 2 * q \/ Len(text) = 2 * q + 1
      PROVE  Closings(text) = Evens(q)
  <2>1. ASSUME NEW i \in DOMAIN text, text[i].closes PROVE i \in Evens(q)
    <3>1. PICK m \in Nat \ {0} : i = 2 * m
        BY <1>1, <2>1
    <3>2. m \in 1 .. q
        BY <1>3, <3>1
    <3> QED
        BY <3>1, <3>2 DEF Evens
  <2>2. ASSUME NEW m \in 1 .. q PROVE 2 * m \in DOMAIN text /\ text[2 * m].closes
    <3>1. 2 * m \in DOMAIN text
        BY <1>3
    <3> QED
        BY <1>1, <3>1
  <2> QED
      BY <2>1, <2>2 DEF Closings, Evens
<1> QED
    BY <1>2, <1>3

LEMMA WholeLines ==
    ASSUME NEW text \in Seq(Parts), NEW c, NEW h \in Nat, Whole(text, c, h),
           NEW q \in Nat, Len(text) = 2 * q \/ Len(text) = 2 * q + 1
    PROVE  /\ Lines(text) \in Seq(Messages)
           /\ Len(Lines(text)) = q
           /\ Follow(Lines(text), c, h)
<1>1. Good(text) = text /\ Closings(text) = Evens(q)
    BY WholeText DEF Good
<1>2. Lines(text) = [i \in 1 .. q |-> text[2 * i].msg]
    BY <1>1, CountEvens, NthEven DEF Lines
<1>3. \A i \in 1 .. q : text[2 * i] \in Parts
    OBVIOUS
<1>4. \A i \in 1 .. q : text[2 * i].msg \in Messages
    BY <1>3 DEF Parts
<1>5. \A i \in 1 .. q : text[2 * i].msg.n = h + i /\ text[2 * i].msg.conn = c
    BY DEF Whole
<1> QED
    BY <1>2, <1>4, <1>5 DEF Follow

LEMMA HeadlessLines ==
    ASSUME NEW text \in Seq(Parts), NEW c, Headless(text, c), text # <<>>
    PROVE  /\ Broken(text) # {}
           /\ Closings(text) # {}
           /\ Lines(text) \in Seq(Messages)
           /\ Len(Lines(text)) = 0
<1>1. 1 \in DOMAIN text /\ text[1].closes
    BY DEF Headless
<1>2. ASSUME NEW i \in DOMAIN text, text[i].closes
      PROVE  \E m \in Nat \ {0} : i = 2 * m - 1
  <2>1. i \in Nat \ {0} /\ i <= Len(text)
      OBVIOUS
  <2>2. PICK m \in Nat \ {0} : i = 2 * m \/ i = 2 * m - 1
      BY <2>1, EvenOrOdd
  <2> QED
      BY <1>2, <2>1, <2>2 DEF Headless
<1>3. Broken(text) = {1}
  <2> SUFFICES ASSUME NEW i \in DOMAIN text, text[i].closes, text[i - 1].closes, i # 1 PROVE FALSE
      BY <1>1 DEF Broken
  <2>1. PICK m \in Nat \ {0} : i = 2 * m - 1
      BY <1>2
  <2>2. PICK k \in Nat \ {0} : i - 1 = 2 * k - 1
      BY <1>2
  <2> QED
      BY <2>1, <2>2
<1>4. Min(Broken(text)) = 1
    BY <1>3 DEF Min
<1>5. Good(text) = SubSeq(text, 1, 0)
    BY <1>3, <1>4 DEF Good
<1>6. Closings(Good(text)) = {}
    BY <1>5 DEF Closings
<1>7. Cardinality(Closings(Good(text))) = 0
    BY <1>6, FS_EmptySet
<1>8. Lines(text) = [i \in 1 .. 0 |-> Good(text)[Nth(Closings(Good(text)), i)].msg]
    BY <1>7 DEF Lines
<1> QED
    BY <1>1, <1>3, <1>8 DEF Closings

\* A bounded set that is not empty has a largest element.
LEMMA Largest ==
    ASSUME NEW n \in Nat, NEW S \in SUBSET (1 .. n), S # {}
    PROVE  Max(S) \in S
<1> DEFINE T == {n - x : x \in S}
<1>1. T \subseteq Nat /\ T # {}
  <2>1. \A x \in S : n - x \in Nat
      OBVIOUS
  <2> QED
      BY <2>1
<1>2. PICK y \in T : \A z \in T : <<z, y>> \notin OpToRel(<, Nat)
    BY <1>1, WFMin, NatLessThanWellFounded
<1>3. \A z \in T : ~(z < y)
    BY <1>1, <1>2 DEF OpToRel
<1>4. PICK x \in S : y = n - x
    OBVIOUS
<1>5. \A w \in S : x >= w
  <2> TAKE w \in S
  <2>1. ~(n - w < n - x)
      BY <1>3, <1>4
  <2> QED
      BY <2>1
<1> QED
    BY <1>5 DEF Max

\* The last of some messages for a container they name is one of them.
LEMMA LastOfLines ==
    ASSUME NEW lines \in Seq(Messages), NEW ct \in NamesOf(lines)
    PROVE  /\ LastOf(lines, ct).ctname = ct
           /\ \E i \in DOMAIN lines : LastOf(lines, ct) = lines[i]
<1> DEFINE S == {j \in DOMAIN lines : lines[j].ctname = ct}
<1>1. S \in SUBSET (1 .. Len(lines)) /\ S # {} /\ Len(lines) \in Nat
    BY DEF NamesOf
<1>2. Max(S) \in S
    BY <1>1, Largest
<1>3. LastOf(lines, ct) = lines[Max(S)]
    BY DEF LastOf
<1> QED
    BY <1>2, <1>3

-----------------------------------------------------------------------------
(* The invariant. *)

Types ==
    /\ stream \in [Conns -> Seq(Parts)]
    /\ buffers \in [Conns -> Seq(Parts)]
    /\ handled \in [Conns -> Seq(Messages)]
    /\ sent \in [Conns -> 0 .. MaxSent]
    /\ ready \in BOOLEAN
    /\ running \in BOOLEAN
    /\ open \subseteq Conns
    /\ torn \subseteq Conns
    /\ inflight \subseteq Messages
    /\ socket_arr \in [Names -> Conns \cup {Nobody}]
    /\ last \in [Names -> Messages \cup {None}]
    /\ stored \subseteq Messages
    /\ acks \in [Conns -> Nat]
    /\ heard \in [Conns -> Nat]
    /\ commands \in Nat

\* What a connection has yet to be parsed.
Text(c) == buffers[c] \o stream[c]

\* Between two chunks the text of a connection begins where a message does;
\* once a tail is lost it begins inside one.
TextInv(c) ==
    /\ c \notin torn => /\ Whole(Text(c), c, Len(handled[c]))
                       /\ Len(Text(c)) = 2 * (sent[c] - Len(handled[c]))
                       /\ Len(buffers[c]) <= 1
    /\ c \in torn => /\ buffers[c] = <<>>
                    /\ Headless(stream[c], c)
                    /\ \E r \in Nat : Len(stream[c]) = 2 * r + 1

\* What has been taken up is what was sent, in order.
HandledInv ==
    \A c \in Conns :
        /\ \A i \in 1 .. Len(handled[c]) : handled[c][i].n = i
        /\ Len(handled[c]) <= sent[c]

StreamInv ==
    /\ running => \A c \in Conns : TextInv(c)
    /\ ~running => torn # {}
    /\ HandledInv

\* A chunk cuts the text in two.
LEMMA Cut ==
    ASSUME NEW b \in Seq(Parts), NEW s \in Seq(Parts), NEW k \in 1 .. Len(s)
    PROVE  LET text == b \o SubSeq(s, 1, k)
               rest == SubSeq(s, k + 1, Len(s))
           IN  /\ text \in Seq(Parts) /\ rest \in Seq(Parts)
               /\ Len(text) = Len(b) + k /\ Len(rest) = Len(s) - k
               /\ Len(b \o s) = Len(text) + Len(rest)
               /\ \A i \in 1 .. Len(text) : text[i] = (b \o s)[i]
               /\ \A i \in 1 .. Len(rest) : rest[i] = (b \o s)[Len(text) + i]
               /\ text \o rest = b \o s
<1> DEFINE text == b \o SubSeq(s, 1, k)
           rest == SubSeq(s, k + 1, Len(s))
<1>1. /\ SubSeq(s, 1, k) \in Seq(Parts) /\ Len(SubSeq(s, 1, k)) = k
      /\ \A i \in 1 .. k : SubSeq(s, 1, k)[i] = s[i]
    OBVIOUS
<1>2. /\ rest \in Seq(Parts) /\ Len(rest) = Len(s) - k
      /\ \A i \in 1 .. Len(s) - k : rest[i] = s[k + i]
    OBVIOUS
<1>3. text \in Seq(Parts) /\ Len(text) = Len(b) + k
    BY <1>1
<1>4. text \o rest = b \o s
  <2> DEFINE first == SubSeq(s, 1, k)
  <2>1. first \o rest = s
      BY ConcatAdjacentSubSeq, SubSeqFull
  <2>2. first \in Seq(Parts) /\ rest \in Seq(Parts) /\ text = b \o first
      BY <1>1, <1>2
  <2> HIDE DEF first, rest
  <2>3. (b \o first) \o rest = b \o (first \o rest)
      BY <2>2, ConcatAssociative
  <2> QED
      BY <2>1, <2>2, <2>3
<1>5. /\ Len(text \o rest) = Len(text) + Len(rest)
      /\ \A i \in 1 .. Len(text) + Len(rest) :
            (text \o rest)[i] = IF i <= Len(text) THEN text[i] ELSE rest[i - Len(text)]
    BY <1>2, <1>3, ConcatProperties
<1>6. Len(text) \in Nat /\ Len(rest) \in Nat
    BY <1>2, <1>3
<1>7. \A i \in 1 .. Len(text) : text[i] = (b \o s)[i]
    BY <1>4, <1>5, <1>6
<1>8. \A i \in 1 .. Len(rest) : rest[i] = (b \o s)[Len(text) + i]
    BY <1>4, <1>5, <1>6
<1> QED
    BY <1>2, <1>3, <1>4, <1>5, <1>7, <1>8

\* A beginning of a text that begins with a message is one, too.
LEMMA WholeBegins ==
    ASSUME NEW all, NEW text, NEW c, NEW h \in Nat, Whole(all, c, h),
           Len(text) \in Nat, Len(all) \in Nat, Len(text) <= Len(all),
           \A i \in 1 .. Len(text) : text[i] = all[i]
    PROVE  Whole(text, c, h)
<1> SUFFICES ASSUME NEW m \in Nat \ {0}
             PROVE  /\ 2 * m - 1 <= Len(text) =>
                          ~text[2 * m - 1].closes /\ text[2 * m - 1].msg.conn = c
                    /\ 2 * m <= Len(text) =>
                          text[2 * m].closes /\ text[2 * m].msg.conn = c /\ text[2 * m].msg.n = h + m
    BY DEF Whole
<1>1. 2 * m - 1 \in Nat \ {0} /\ 2 * m \in Nat \ {0}
    OBVIOUS
<1>2. 2 * m - 1 <= Len(text) => text[2 * m - 1] = all[2 * m - 1] /\ 2 * m - 1 <= Len(all)
    BY <1>1
<1>3. 2 * m <= Len(text) => text[2 * m] = all[2 * m] /\ 2 * m <= Len(all)
    BY <1>1
<1> QED
    BY <1>2, <1>3 DEF Whole

LEMMA HeadlessBegins ==
    ASSUME NEW all, NEW text, NEW c, Headless(all, c),
           Len(text) \in Nat, Len(all) \in Nat, Len(text) <= Len(all),
           \A i \in 1 .. Len(text) : text[i] = all[i]
    PROVE  Headless(text, c)
<1> SUFFICES ASSUME NEW m \in Nat \ {0}
             PROVE  /\ 2 * m - 1 <= Len(text) =>
                          text[2 * m - 1].closes /\ text[2 * m - 1].msg.conn = c
                    /\ 2 * m <= Len(text) => ~text[2 * m].closes /\ text[2 * m].msg.conn = c
    BY DEF Headless
<1>1. 2 * m - 1 \in Nat \ {0} /\ 2 * m \in Nat \ {0}
    OBVIOUS
<1>2. 2 * m - 1 <= Len(text) => text[2 * m - 1] = all[2 * m - 1] /\ 2 * m - 1 <= Len(all)
    BY <1>1
<1>3. 2 * m <= Len(text) => text[2 * m] = all[2 * m] /\ 2 * m <= Len(all)
    BY <1>1
<1> QED
    BY <1>2, <1>3 DEF Headless

\* What comes after q whole messages begins with message q + 1.
LEMMA WholeRest ==
    ASSUME NEW all, NEW c, NEW h \in Nat, Whole(all, c, h),
           NEW q \in Nat, NEW rest, Len(rest) \in Nat, Len(all) = 2 * q + Len(rest),
           \A i \in 1 .. Len(rest) : rest[i] = all[2 * q + i]
    PROVE  Whole(rest, c, h + q)
<1> SUFFICES ASSUME NEW m \in Nat \ {0}
             PROVE  /\ 2 * m - 1 <= Len(rest) =>
                          ~rest[2 * m - 1].closes /\ rest[2 * m - 1].msg.conn = c
                    /\ 2 * m <= Len(rest) =>
                          rest[2 * m].closes /\ rest[2 * m].msg.conn = c /\ rest[2 * m].msg.n = h + q + m
    BY DEF Whole
<1>1. q + m \in Nat \ {0} /\ 2 * (q + m) = 2 * q + 2 * m /\ h + (q + m) = h + q + m
    OBVIOUS
<1>2. 2 * m - 1 <= Len(rest) => rest[2 * m - 1] = all[2 * (q + m) - 1] /\ 2 * (q + m) - 1 <= Len(all)
    BY <1>1
<1>3. 2 * m <= Len(rest) => rest[2 * m] = all[2 * (q + m)] /\ 2 * (q + m) <= Len(all)
    BY <1>1
<1> QED
    BY <1>1, <1>2, <1>3 DEF Whole

\* What comes after q messages and a part begins inside a message.
LEMMA HeadlessRest ==
    ASSUME NEW all, NEW c, NEW h \in Nat, Whole(all, c, h),
           NEW q \in Nat, NEW rest, Len(rest) \in Nat, Len(all) = 2 * q + 1 + Len(rest),
           \A i \in 1 .. Len(rest) : rest[i] = all[2 * q + 1 + i]
    PROVE  Headless(rest, c)
<1> SUFFICES ASSUME NEW m \in Nat \ {0}
             PROVE  /\ 2 * m - 1 <= Len(rest) =>
                          rest[2 * m - 1].closes /\ rest[2 * m - 1].msg.conn = c
                    /\ 2 * m <= Len(rest) => ~rest[2 * m].closes /\ rest[2 * m].msg.conn = c
    BY DEF Headless
<1>1. /\ q + m \in Nat \ {0} /\ 2 * (q + m) = 2 * q + 2 * m
      /\ q + m + 1 \in Nat \ {0} /\ 2 * (q + m + 1) - 1 = 2 * q + 2 * m + 1
    OBVIOUS
<1>2. 2 * m - 1 <= Len(rest) => rest[2 * m - 1] = all[2 * (q + m)] /\ 2 * (q + m) <= Len(all)
    BY <1>1
<1>3. 2 * m <= Len(rest) => rest[2 * m] = all[2 * (q + m + 1) - 1] /\ 2 * (q + m + 1) - 1 <= Len(all)
    BY <1>1
<1> QED
    BY <1>1, <1>2, <1>3 DEF Whole

\* Messages that follow h others in order make h + q in order.
LEMMA InOrder ==
    ASSUME NEW done \in Seq(Messages), NEW lines \in Seq(Messages),
           \A i \in 1 .. Len(done) : done[i].n = i,
           \A i \in 1 .. Len(lines) : lines[i].n = Len(done) + i
    PROVE  /\ done \o lines \in Seq(Messages)
           /\ Len(done \o lines) = Len(done) + Len(lines)
           /\ \A i \in 1 .. Len(done \o lines) : (done \o lines)[i].n = i
<1>1. /\ done \o lines \in Seq(Messages)
      /\ Len(done \o lines) = Len(done) + Len(lines)
      /\ \A i \in 1 .. Len(done) + Len(lines) :
            (done \o lines)[i] = IF i <= Len(done) THEN done[i] ELSE lines[i - Len(done)]
    BY ConcatProperties
<1>2. Len(done) \in Nat /\ Len(lines) \in Nat
    OBVIOUS
<1>3. ASSUME NEW i \in 1 .. Len(done) + Len(lines) PROVE (done \o lines)[i].n = i
  <2>1. CASE i <= Len(done)
      BY <1>1, <1>2, <2>1
  <2>2. CASE i > Len(done)
    <3>1. i - Len(done) \in 1 .. Len(lines) /\ Len(done) + (i - Len(done)) = i
        BY <1>2, <2>2
    <3>2. lines[i - Len(done)].n = Len(done) + (i - Len(done))
        BY <3>1
    <3>3. (done \o lines)[i] = lines[i - Len(done)]
        BY <1>1, <1>2, <2>2
    <3> QED
        BY <3>1, <3>2, <3>3
  <2> QED
      BY <1>2, <2>1, <2>2
<1> QED
    BY <1>1, <1>3

\* What an event does with a chunk of its own connection.
LEMMA DataChunk ==
    ASSUME Types, StreamInv, NEW c \in Conns, Data(c)
    PROVE  \E text, rest \in Seq(Parts) :
              /\ stream' = [stream EXCEPT ![c] = rest]
              /\ buffers' = [buffers EXCEPT ![c] = Kept(text)]
              /\ Handle(c, Lines(text))
              /\ running' = (Broken(text) = {})
              /\ torn' = IF Closings(text) # {} /\ ~text[Len(text)].closes
                         THEN torn \cup {c} ELSE torn
              /\ ready' = ready /\ sent' = sent
              /\ Len(text) \in Nat \ {0} /\ Len(rest) \in Nat
              /\ Len(Text(c)) = Len(text) + Len(rest)
              /\ \A i \in 1 .. Len(text) : text[i] = Text(c)[i]
              /\ \A i \in 1 .. Len(rest) : rest[i] = Text(c)[Len(text) + i]
              /\ text \o rest = Text(c)
<1>1. PICK k \in DOMAIN stream[c] :
          LET text == buffers[c] \o SubSeq(stream[c], 1, k)
          IN  /\ stream' = [stream EXCEPT ![c] = SubSeq(@, k + 1, Len(@))]
              /\ buffers' = [buffers EXCEPT ![c] = Kept(text)]
              /\ Handle(c, Lines(text))
              /\ running' = (Broken(text) = {})
              /\ torn' = IF Closings(text) # {} /\ ~text[Len(text)].closes
                         THEN torn \cup {c} ELSE torn
    BY DEF Data, Parse
<1> DEFINE text == buffers[c] \o SubSeq(stream[c], 1, k)
           rest == SubSeq(stream[c], k + 1, Len(stream[c]))
<1>2. stream[c] \in Seq(Parts) /\ buffers[c] \in Seq(Parts) /\ k \in 1 .. Len(stream[c])
    BY DEF Types
<1>3. /\ text \in Seq(Parts) /\ rest \in Seq(Parts)
      /\ Len(text) = Len(buffers[c]) + k /\ Len(rest) = Len(stream[c]) - k
      /\ Len(Text(c)) = Len(text) + Len(rest)
      /\ \A i \in 1 .. Len(text) : text[i] = Text(c)[i]
      /\ \A i \in 1 .. Len(rest) : rest[i] = Text(c)[Len(text) + i]
      /\ text \o rest = Text(c)
    BY <1>2, Cut DEF Text
<1>4. stream' = [stream EXCEPT ![c] = rest]
    BY <1>1
<1>5. ready' = ready /\ sent' = sent
    BY DEF Data
<1>6. Len(text) \in Nat \ {0} /\ Len(rest) \in Nat
  <2>1. Len(buffers[c]) \in Nat /\ Len(stream[c]) \in Nat
      BY <1>2
  <2>2. Len(text) = Len(buffers[c]) + k /\ Len(rest) = Len(stream[c]) - k
      BY <1>3
  <2> HIDE DEF text, rest
  <2> QED
      BY <1>2, <2>1, <2>2
<1>7. /\ buffers' = [buffers EXCEPT ![c] = Kept(text)]
      /\ Handle(c, Lines(text))
      /\ running' = (Broken(text) = {})
      /\ torn' = IF Closings(text) # {} /\ ~text[Len(text)].closes THEN torn \cup {c} ELSE torn
    BY <1>1
<1> HIDE DEF text, rest
<1> QED
    BY <1>3, <1>4, <1>5, <1>6, <1>7

\* The messages a chunk completes are the connection's next ones, in order.
LEMMA DataText ==
    ASSUME Types, StreamInv, NEW c \in Conns, Data(c)
    PROVE  /\ running' => TextInv(c)'
           /\ running' \/ torn' # {}
           /\ torn' = torn \/ torn' = torn \cup {c}
           /\ stream' \in [Conns -> Seq(Parts)] /\ buffers' \in [Conns -> Seq(Parts)]
           /\ \A d \in Conns \ {c} : stream'[d] = stream[d] /\ buffers'[d] = buffers[d]
           /\ c \in torn => ~running'
           /\ ready' = ready /\ sent' = sent
           /\ \E lines \in Seq(Messages) :
                 /\ Handle(c, lines)
                 /\ Follow(lines, c, Len(handled[c]))
                 /\ Len(handled[c]) + Len(lines) <= sent[c]
<1> DEFINE h == Len(handled[c])
           n == sent[c] - h
           all == Text(c)
<1>1. PICK text \in Seq(Parts), rest \in Seq(Parts) :
              /\ stream' = [stream EXCEPT ![c] = rest]
              /\ buffers' = [buffers EXCEPT ![c] = Kept(text)]
              /\ Handle(c, Lines(text))
              /\ running' = (Broken(text) = {})
              /\ torn' = IF Closings(text) # {} /\ ~text[Len(text)].closes
                         THEN torn \cup {c} ELSE torn
              /\ ready' = ready /\ sent' = sent
              /\ Len(text) \in Nat \ {0} /\ Len(rest) \in Nat
              /\ Len(Text(c)) = Len(text) + Len(rest)
              /\ \A i \in 1 .. Len(text) : text[i] = Text(c)[i]
              /\ \A i \in 1 .. Len(rest) : rest[i] = Text(c)[Len(text) + i]
              /\ text \o rest = Text(c)
    BY DataChunk
<1>2. /\ stream'[c] = rest /\ buffers'[c] = Kept(text)
      /\ \A d \in Conns \ {c} : stream'[d] = stream[d] /\ buffers'[d] = buffers[d]
    BY <1>1 DEF Types
<1>3. stream' \in [Conns -> Seq(Parts)] /\ buffers' \in [Conns -> Seq(Parts)]
  <2>1. Kept(text) \in Seq(Parts)
      BY DEF Kept
  <2> QED
      BY <1>1, <2>1 DEF Types
<1>4. running /\ TextInv(c)
    BY DEF Data, StreamInv
<1>5. h \in Nat /\ sent[c] \in Nat /\ Len(text) \in Nat \ {0} /\ Len(rest) \in Nat
    BY <1>1, TasAssumption DEF Types
<1>6. handled'[c] = handled[c] \o Lines(text)
    BY <1>1 DEF Handle, Types
<1>7. \A i \in 1 .. Len(text) : text[i] = all[i]
    BY <1>1
<1>8. Len(all) = Len(text) + Len(rest) /\ Len(all) \in Nat /\ Len(text) <= Len(all)
    BY <1>1, <1>5
\* A text that begins with a message.
<1>9. CASE c \notin torn
  <2>1. Whole(all, c, h) /\ Len(all) = 2 * n
      BY <1>4, <1>9 DEF TextInv
  <2> HIDE DEF h, all
  <2>2. Whole(text, c, h)
      BY <1>5, <1>7, <1>8, <2>1, WholeBegins
  <2>3. PICK q \in Nat : Len(text) = 2 * q \/ Len(text) = 2 * q + 1
    <3>1. \A x \in Nat : x \div 2 \in Nat /\ (x = 2 * (x \div 2) \/ x = 2 * (x \div 2) + 1)
        OBVIOUS
    <3> QED
        BY <1>5, <3>1
  <2>4. /\ Lines(text) \in Seq(Messages)
        /\ Len(Lines(text)) = q
        /\ Follow(Lines(text), c, h)
      BY <1>5, <2>2, <2>3, WholeLines
  <2>5. Broken(text) = {} /\ Closings(text) = Evens(q)
      BY <2>2, <2>3, WholeText
  <2>6. Len(handled'[c]) = h + q
    <3>1. handled[c] \in Seq(Messages) /\ h = Len(handled[c])
        BY DEF Types, h
    <3> QED
        BY <1>6, <2>4, <3>1, ConcatProperties
  <2>7. h + q <= sent[c]
    <3>1. n \in Int /\ 2 * n = Len(text) + Len(rest)
        BY <1>5, <1>8, <2>1
    <3> HIDE DEF n
    <3>2. q <= n
        BY <1>5, <2>3, <3>1
    <3> USE DEF n
    <3> QED
        BY <1>5, <3>2
  <2>8. \E lines \in Seq(Messages) :
                 /\ Handle(c, lines)
                 /\ Follow(lines, c, h)
                 /\ h + Len(lines) <= sent[c]
      BY <1>1, <2>4, <2>7
  <2>9. CASE Len(text) = 2 * q
    <3>1. q \in Nat \ {0}
        BY <1>5, <2>9
    <3>2. Closings(text) # {} /\ text[Len(text)].closes
      <4>1. 2 * q \in Evens(q)
          BY <3>1 DEF Evens
      <4>2. Len(text) \in Closings(text)
          BY <2>5, <2>9, <4>1
      <4> QED
          BY <4>2 DEF Closings
    <3>3. torn' = torn /\ buffers'[c] = <<>>
        BY <1>1, <1>2, <3>2 DEF Kept
    <3>4. Text(c)' = rest
        BY <1>2, <3>3 DEF Text
    <3>5. Whole(rest, c, h + q)
      <4>1. \A i \in 1 .. Len(rest) : rest[i] = all[2 * q + i]
          BY <1>1, <2>9 DEF all
      <4>2. Len(all) = 2 * q + Len(rest)
          BY <1>8, <2>9
      <4> QED
          BY <1>5, <2>1, <4>1, <4>2, WholeRest
    <3>6. Len(rest) = 2 * (sent[c] - (h + q))
        BY <1>5, <1>8, <2>1, <2>9
    <3>7. TextInv(c)'
        BY <1>1, <1>9, <2>6, <3>3, <3>4, <3>5, <3>6 DEF TextInv
    <3> QED
        BY <1>1, <1>2, <1>3, <1>9, <2>5, <2>8, <3>3, <3>7 DEF h
  <2>10. CASE Len(text) = 2 * q + 1 /\ q = 0
    <3>1. Closings(text) = {}
        BY <2>5, <2>10 DEF Evens
    <3>2. torn' = torn /\ buffers'[c] = text
        BY <1>1, <1>2, <3>1 DEF Kept
    <3>3. Text(c)' = all
        BY <1>1, <1>2, <3>2 DEF Text, all
    <3>4. Len(handled'[c]) = h
        BY <1>5, <2>6, <2>10
    <3>5. Len(buffers'[c]) <= 1
        BY <3>2, <2>10
    <3>6. TextInv(c)'
        BY <1>1, <1>9, <2>1, <3>2, <3>3, <3>4, <3>5 DEF TextInv
    <3> QED
        BY <1>1, <1>2, <1>3, <1>9, <2>5, <2>8, <3>2, <3>6 DEF h
  <2>11. CASE Len(text) = 2 * q + 1 /\ q # 0
    <3>1. Closings(text) # {} /\ ~text[Len(text)].closes
      <4>1. 2 * q \in Evens(q)
          BY <2>11 DEF Evens
      <4>2. PICK m \in Nat \ {0} : 2 * m - 1 = Len(text)
        <5>1. q + 1 \in Nat \ {0} /\ 2 * (q + 1) - 1 = Len(text)
            BY <2>11
        <5> QED
            BY <5>1
      <4>3. 2 * m - 1 <= Len(text)
          BY <1>5, <4>2
      <4>4. ~text[2 * m - 1].closes
          BY <2>2, <4>3 DEF Whole
      <4> QED
          BY <2>5, <4>1, <4>2, <4>4
    <3>2. torn' = torn \cup {c} /\ buffers'[c] = <<>>
        BY <1>1, <1>2, <3>1 DEF Kept
    <3>3. Headless(rest, c)
      <4>1. \A i \in 1 .. Len(rest) : rest[i] = all[2 * q + 1 + i]
          BY <1>1, <2>11 DEF all
      <4>2. Len(all) = 2 * q + 1 + Len(rest)
          BY <1>8, <2>11
      <4> QED
          BY <1>5, <2>1, <4>1, <4>2, HeadlessRest
    <3>4. \E r \in Nat : Len(rest) = 2 * r + 1
      <4>0. n \in Int /\ 2 * n = 2 * q + 1 + Len(rest)
          BY <1>5, <1>8, <2>1, <2>11
      <4> HIDE DEF n
      <4>1. n - q - 1 \in Nat /\ Len(rest) = 2 * (n - q - 1) + 1
          BY <1>5, <4>0
      <4> QED
          BY <4>1
    <3>5. TextInv(c)'
        BY <1>2, <3>2, <3>3, <3>4 DEF TextInv
    <3> QED
        BY <1>1, <1>2, <1>3, <1>9, <2>5, <2>8, <3>2, <3>5 DEF h
  <2> QED
      BY <2>3, <2>9, <2>10, <2>11
\* A text that begins inside one: JSON.parse throws.
<1>10. CASE c \in torn
  <2>1. Headless(all, c)
    <3>1. stream[c] \in Seq(Parts) /\ buffers[c] = <<>> /\ Headless(stream[c], c)
        BY <1>4, <1>10 DEF TextInv, Types
    <3>2. all = stream[c]
        BY <3>1, ConcatEmptySeq DEF Text
    <3> QED
        BY <3>1, <3>2
  <2> HIDE DEF all, h
  <2>2. Headless(text, c)
      BY <1>5, <1>7, <1>8, <2>1, HeadlessBegins
  <2>3. text # <<>>
      BY <1>5
  <2>4. /\ Broken(text) # {}
        /\ Lines(text) \in Seq(Messages) /\ Len(Lines(text)) = 0
      BY <2>2, <2>3, HeadlessLines
  <2>5. Follow(Lines(text), c, h)
      BY <2>4 DEF Follow
  <2>6. \E lines \in Seq(Messages) :
                 /\ Handle(c, lines)
                 /\ Follow(lines, c, h)
                 /\ h + Len(lines) <= sent[c]
    <3>1. h <= sent[c] /\ h \in Nat /\ sent[c] \in Nat
        BY TasAssumption DEF StreamInv, HandledInv, Types, h
    <3>2. h + Len(Lines(text)) <= sent[c]
        BY <2>4, <3>1
    <3>3. Handle(c, Lines(text))
        BY <1>1
    <3> QED
        BY <2>4, <2>5, <3>2, <3>3
  <2>7. ~running' /\ torn' # {} /\ (torn' = torn \/ torn' = torn \cup {c})
      BY <1>1, <1>10, <2>4
  <2> QED
      BY <1>1, <1>2, <1>3, <2>6, <2>7 DEF h
<1> QED
    BY <1>9, <1>10

\* A text with two parts more.
LEMMA Appended ==
    ASSUME NEW text \in Seq(Parts), NEW more \in Seq(Parts),
           NEW l \in Nat, Len(text) = l, Len(more) = 2
    PROVE  /\ Len(text \o more) = l + 2
           /\ \A i \in 1 .. l : (text \o more)[i] = text[i]
           /\ (text \o more)[l + 1] = more[1] /\ (text \o more)[l + 2] = more[2]
<1> DEFINE all == text \o more
<1>1. /\ Len(all) = Len(text) + Len(more)
      /\ \A i \in 1 .. Len(text) + Len(more) :
            all[i] = IF i <= Len(text) THEN text[i] ELSE more[i - Len(text)]
    BY ConcatProperties
<1> HIDE DEF all
<1>2. /\ Len(all) = l + 2
      /\ \A i \in 1 .. l + 2 : all[i] = IF i <= l THEN text[i] ELSE more[i - l]
    BY <1>1
<1>3. \A i \in 1 .. l : all[i] = text[i]
    BY <1>2
<1>4. l + 1 \in 1 .. l + 2 /\ ~(l + 1 <= l) /\ l + 1 - l = 1
    OBVIOUS
<1>5. all[l + 1] = more[1]
    BY <1>2, <1>4
<1>6. l + 2 \in 1 .. l + 2 /\ ~(l + 2 <= l) /\ l + 2 - l = 2
    OBVIOUS
<1>7. all[l + 2] = more[2]
    BY <1>2, <1>6
<1> QED
    BY <1>2, <1>3, <1>5, <1>7 DEF all

\* The places of the two parts of message n + 1.
LEMMA NextPair ==
    \A m, n, h \in Nat : m = n + 1 =>
        2 * m - 1 = 2 * n + 1 /\ 2 * m = 2 * n + 2 /\ h + m = h + n + 1
OBVIOUS

\* Two parts more make a message more.
LEMMA WholeAppends ==
    ASSUME NEW text \in Seq(Parts), NEW c, NEW h \in Nat, Whole(text, c, h),
           NEW n \in Nat, Len(text) = 2 * n,
           NEW msg, msg.conn = c, msg.n = h + n + 1,
           NEW more \in Seq(Parts), Len(more) = 2,
           more[1] = [msg |-> msg, closes |-> FALSE], more[2] = [msg |-> msg, closes |-> TRUE]
    PROVE  /\ Whole(text \o more, c, h)
           /\ Len(text \o more) = 2 * (n + 1)
<1> DEFINE all == text \o more
<1>1. /\ Len(all) = 2 * n + 2
      /\ \A i \in 1 .. 2 * n : all[i] = text[i]
      /\ all[2 * n + 1] = more[1] /\ all[2 * n + 2] = more[2]
  <2> DEFINE l == 2 * n
  <2>1. l \in Nat /\ Len(text) = l
      OBVIOUS
  <2> HIDE DEF l, all
  <2>2. /\ Len(all) = l + 2
        /\ \A i \in 1 .. l : all[i] = text[i]
        /\ all[l + 1] = more[1] /\ all[l + 2] = more[2]
      BY <2>1, Appended DEF all
  <2> QED
      BY <2>2 DEF l
<1> HIDE DEF all
<1>2. ASSUME NEW m \in Nat \ {0}
      PROVE  /\ 2 * m - 1 <= Len(all) =>
                   ~all[2 * m - 1].closes /\ all[2 * m - 1].msg.conn = c
             /\ 2 * m <= Len(all) =>
                   all[2 * m].closes /\ all[2 * m].msg.conn = c /\ all[2 * m].msg.n = h + m
  <2>1. CASE m <= n
    <3>1. 2 * m - 1 \in 1 .. 2 * n /\ 2 * m \in 1 .. 2 * n
        BY <2>1
    <3>2. all[2 * m - 1] = text[2 * m - 1] /\ all[2 * m] = text[2 * m]
        BY <1>1, <3>1
    <3>3. 2 * m - 1 <= Len(text) /\ 2 * m <= Len(text)
        BY <3>1
    <3> QED
        BY <3>2, <3>3 DEF Whole
  <2>2. CASE m = n + 1
    <3>1. 2 * m - 1 = 2 * n + 1 /\ 2 * m = 2 * n + 2 /\ h + m = h + n + 1
        BY <2>2, NextPair
    <3>2. all[2 * m - 1] = more[1] /\ all[2 * m] = more[2]
        BY <1>1, <3>1
    <3>3. ~more[1].closes /\ more[2].closes /\ more[1].msg = msg /\ more[2].msg = msg
        OBVIOUS
    <3> QED
        BY <3>1, <3>2, <3>3
  <2>3. CASE m > n + 1
    <3>1. 2 * m - 1 > Len(all) /\ 2 * m > Len(all)
        BY <1>1, <2>3
    <3> QED
        BY <1>1, <3>1
  <2> QED
      BY <2>1, <2>2, <2>3
<1>3. Whole(all, c, h)
    BY <1>2 DEF Whole
<1>4. Len(all) = 2 * (n + 1)
    BY <1>1
<1> QED
    BY <1>3, <1>4 DEF all

LEMMA HeadlessAppends ==
    ASSUME NEW text \in Seq(Parts), NEW c, Headless(text, c),
           NEW n \in Nat, Len(text) = 2 * n + 1,
           NEW msg, msg.conn = c,
           NEW more \in Seq(Parts), Len(more) = 2,
           more[1] = [msg |-> msg, closes |-> FALSE], more[2] = [msg |-> msg, closes |-> TRUE]
    PROVE  /\ Headless(text \o more, c)
           /\ Len(text \o more) = 2 * (n + 1) + 1
<1> DEFINE all == text \o more
<1>1. /\ Len(all) = 2 * n + 3
      /\ \A i \in 1 .. 2 * n + 1 : all[i] = text[i]
      /\ all[2 * n + 2] = more[1] /\ all[2 * n + 3] = more[2]
  <2> DEFINE l == 2 * n + 1
  <2>1. l \in Nat /\ l + 1 = 2 * n + 2 /\ l + 2 = 2 * n + 3 /\ Len(text) = l
      OBVIOUS
  <2> HIDE DEF l, all
  <2>2. /\ Len(all) = l + 2
        /\ \A i \in 1 .. l : all[i] = text[i]
        /\ all[l + 1] = more[1] /\ all[l + 2] = more[2]
      BY <2>1, Appended DEF all
  <2> QED
      BY <2>1, <2>2 DEF l
<1> HIDE DEF all
<1>2. ASSUME NEW m \in Nat \ {0}
      PROVE  /\ 2 * m - 1 <= Len(all) =>
                   all[2 * m - 1].closes /\ all[2 * m - 1].msg.conn = c
             /\ 2 * m <= Len(all) => ~all[2 * m].closes /\ all[2 * m].msg.conn = c
  <2>1. CASE m <= n
    <3>1. 2 * m - 1 \in 1 .. 2 * n + 1 /\ 2 * m \in 1 .. 2 * n + 1
        BY <2>1
    <3>2. all[2 * m - 1] = text[2 * m - 1] /\ all[2 * m] = text[2 * m]
        BY <1>1, <3>1
    <3>3. 2 * m - 1 <= Len(text) /\ 2 * m <= Len(text)
        BY <3>1
    <3> QED
        BY <3>2, <3>3 DEF Headless
  <2>2. CASE m = n + 1
    <3>1. 2 * m - 1 \in 1 .. 2 * n + 1 /\ 2 * m = 2 * n + 2
        BY <2>2
    <3>2. all[2 * m - 1] = text[2 * m - 1] /\ 2 * m - 1 <= Len(text)
        BY <1>1, <3>1
    <3> QED
        BY <1>1, <3>1, <3>2 DEF Headless
  <2>3. CASE m = n + 2
    <3>1. 2 * m - 1 = 2 * n + 3 /\ 2 * m > Len(all)
        BY <1>1, <2>3
    <3> QED
        BY <1>1, <3>1
  <2>4. CASE m > n + 2
    <3>1. 2 * m - 1 > Len(all) /\ 2 * m > Len(all)
        BY <1>1, <2>4
    <3> QED
        BY <1>1, <3>1
  <2> QED
      BY <2>1, <2>2, <2>3, <2>4
<1>3. Headless(all, c)
    BY <1>2 DEF Headless
<1>4. Len(all) = 2 * (n + 1) + 1
    BY <1>1
<1> QED
    BY <1>3, <1>4 DEF all

\* What a program sends lengthens its text by a message.
LEMMA SendText ==
    ASSUME Types, StreamInv, NEW c \in Conns, NEW ct \in Names, SendAll(c, ct)
    PROVE  /\ stream' \in [Conns -> Seq(Parts)] /\ sent' \in [Conns -> 0 .. MaxSent]
           /\ running => TextInv(c)'
           /\ \A d \in Conns \ {c} : stream'[d] = stream[d] /\ sent'[d] = sent[d]
<1> DEFINE msg == [conn |-> c, n |-> sent[c] + 1, ctname |-> ct]
           more == <<[msg |-> msg, closes |-> FALSE], [msg |-> msg, closes |-> TRUE]>>
           h == Len(handled[c])
<1>1. /\ sent' = [sent EXCEPT ![c] = @ + 1]
      /\ sent'[c] = sent[c] + 1 /\ sent[c] \in Nat /\ sent[c] + 1 \in 1 .. MaxSent
      /\ UNCHANGED <<buffers, torn, handled>>
    BY TasAssumption DEF Types, SendAll
<1>2. stream' = [stream EXCEPT ![c] = @ \o more]
    BY <1>1 DEF SendAll
<1>3. msg \in Messages
    BY <1>1 DEF Messages
<1>4. /\ more \in Seq(Parts) /\ Len(more) = 2
      /\ more[1] = [msg |-> msg, closes |-> FALSE] /\ more[2] = [msg |-> msg, closes |-> TRUE]
      /\ msg.conn = c /\ msg.n = sent[c] + 1
    BY <1>3 DEF Parts
<1> HIDE DEF msg, more
<1>5. stream[c] \in Seq(Parts) /\ buffers[c] \in Seq(Parts) /\ stream[c] \o more \in Seq(Parts)
    BY <1>4 DEF Types
<1>6. stream' \in [Conns -> Seq(Parts)] /\ sent' \in [Conns -> 0 .. MaxSent]
    BY <1>1, <1>2, <1>5 DEF Types
<1>7. \A d \in Conns \ {c} : stream'[d] = stream[d] /\ sent'[d] = sent[d]
    BY <1>1, <1>2 DEF Types
<1>8. stream'[c] = stream[c] \o more
    BY <1>2 DEF Types
<1>9. h \in Nat
    BY DEF Types
<1>10. ASSUME running, c \notin torn PROVE TextInv(c)'
  <2>1. /\ Whole(Text(c), c, h) /\ Len(Text(c)) = 2 * (sent[c] - h) /\ Len(buffers[c]) <= 1
      BY <1>10 DEF StreamInv, TextInv
  <2>2. Text(c) \in Seq(Parts) /\ Len(Text(c)) \in Nat
    <3>1. Text(c) \in Seq(Parts)
        BY <1>5, ConcatProperties DEF Text
    <3>2. \A x \in Seq(Parts) : Len(x) \in Nat
        OBVIOUS
    <3> QED
        BY <3>1, <3>2
  <2>3. Text(c)' = Text(c) \o more
    <3> DEFINE b == buffers[c]
               s == stream[c]
    <3>0. b \in Seq(Parts) /\ s \in Seq(Parts) /\ more \in Seq(Parts)
        BY <1>4, <1>5
    <3> HIDE DEF b, s
    <3>1. (b \o s) \o more = b \o (s \o more)
        BY <3>0, ConcatAssociative
    <3> USE DEF b, s
    <3> QED
        BY <1>1, <1>8, <3>1 DEF Text
  <2> DEFINE n == sent[c] - h
             all == Text(c)
  <2>4. n \in Nat /\ msg.n = h + n + 1
      BY <1>1, <1>4, <1>9, <2>1, <2>2
  <2>5. all \in Seq(Parts) /\ Whole(all, c, h) /\ Len(all) = 2 * n
      BY <2>1, <2>2
  <2>6. 2 * (n + 1) = 2 * (sent'[c] - h)
      BY <1>1, <1>9
  <2> HIDE DEF n, all, h
  <2>7. Whole(all \o more, c, h) /\ Len(all \o more) = 2 * (n + 1)
      BY <1>4, <1>9, <2>4, <2>5, WholeAppends
  <2> QED
      BY <1>1, <1>10, <2>1, <2>3, <2>6, <2>7 DEF TextInv, all, h
<1>11. ASSUME running, c \in torn PROVE TextInv(c)'
  <2>1. buffers[c] = <<>> /\ Headless(stream[c], c)
      BY <1>11 DEF StreamInv, TextInv
  <2>2. PICK r \in Nat : Len(stream[c]) = 2 * r + 1
      BY <1>11 DEF StreamInv, TextInv
  <2> DEFINE all == stream[c]
  <2>3. all \in Seq(Parts) /\ Headless(all, c) /\ Len(all) = 2 * r + 1
      BY <1>5, <2>1, <2>2
  <2>4. stream'[c] = all \o more
      BY <1>8
  <2> HIDE DEF all
  <2>5. Headless(all \o more, c) /\ Len(all \o more) = 2 * (r + 1) + 1
      BY <1>4, <2>3, HeadlessAppends
  <2>6. Headless(stream'[c], c) /\ r + 1 \in Nat /\ Len(stream'[c]) = 2 * (r + 1) + 1
      BY <2>4, <2>5
  <2> QED
      BY <1>1, <1>11, <2>1, <2>6 DEF TextInv
<1> QED
    BY <1>6, <1>7, <1>10, <1>11

-----------------------------------------------------------------------------
(* Uploads and owners. *)

\* The stored messages of a connection.
StoredOf(c) == {o \in stored : o.conn = c}

\* What is under way or stored was taken up, once; and no connection got more
\* answers "2001" than messages of its own are stored.
UploadInv ==
    /\ \A m \in inflight \cup stored :
          m.n \in 1 .. Len(handled[m.conn]) /\ handled[m.conn][m.n] = m
    /\ inflight \cap stored = {}
    /\ \A c \in Conns : IsFiniteSet(StoredOf(c)) /\ acks[c] <= Cardinality(StoredOf(c))

\* Whose message for a container was taken up last hears its commands.
OwnersInv == \A ct \in Names : socket_arr[ct] = last[ct].conn

HeardInv == \A c \in Conns : heard[c] <= commands

IInv == Types /\ StreamInv /\ UploadInv /\ OwnersInv /\ HeardInv

\* Where what comes after is found.
LEMMA After ==
    ASSUME NEW done \in Seq(Messages), NEW lines \in Seq(Messages), NEW i \in 1 .. Len(lines)
    PROVE  (done \o lines)[Len(done) + i] = lines[i]
<1> DEFINE j == Len(done) + i
<1>1. /\ Len(done) \in Nat /\ Len(lines) \in Nat
      /\ \A k \in 1 .. Len(done) + Len(lines) :
            (done \o lines)[k] = IF k <= Len(done) THEN done[k] ELSE lines[k - Len(done)]
    BY ConcatProperties
<1>2. j \in 1 .. Len(done) + Len(lines) /\ ~(j <= Len(done)) /\ j - Len(done) = i
    BY <1>1
<1> HIDE DEF j
<1>3. (done \o lines)[j] = lines[i]
    BY <1>1, <1>2
<1> QED
    BY <1>3 DEF j

\* The connection takes over the containers its messages name, and their last
\* messages are the last taken up; what is uploaded now was not before.
LEMMA HandleStep ==
    ASSUME Types, HandledInv, UploadInv, OwnersInv, NEW c \in Conns,
           NEW lines \in Seq(Messages), Handle(c, lines),
           Follow(lines, c, Len(handled[c]))
    PROVE  /\ UploadInv' /\ OwnersInv'
           /\ inflight' \subseteq Messages
           /\ socket_arr' \in [Names -> Conns \cup {Nobody}]
           /\ last' \in [Names -> Messages \cup {None}]
           /\ handled' \in [Conns -> Seq(Messages)]
<1>1. \A i \in DOMAIN lines : lines[i] \in Messages /\ lines[i].conn = c
    BY DEF Follow
<1>2. ASSUME NEW ct \in NamesOf(lines)
      PROVE  /\ LastOf(lines, ct) \in Messages
             /\ LastOf(lines, ct).conn = c /\ LastOf(lines, ct).ctname = ct
             /\ \E i \in DOMAIN lines : LastOf(lines, ct) = lines[i]
    BY <1>1, LastOfLines
<1>3. inflight' \subseteq Messages
    BY <1>1 DEF Handle, Types
<1>4. socket_arr' \in [Names -> Conns \cup {Nobody}]
    BY DEF Handle, Types
<1>5. last' \in [Names -> Messages \cup {None}]
    BY <1>2 DEF Handle, Types
<1>6. handled' \in [Conns -> Seq(Messages)]
  <2>1. handled[c] \o lines \in Seq(Messages)
      BY DEF Types
  <2> QED
      BY <2>1 DEF Handle, Types
<1>7. OwnersInv'
    BY <1>2 DEF OwnersInv, Handle
<1>8. UploadInv'
  <2> DEFINE h == Len(handled[c])
  <2>1. /\ handled[c] \in Seq(Messages) /\ h \in Nat
        /\ handled'[c] = handled[c] \o lines
        /\ \A d \in Conns \ {c} : handled'[d] = handled[d]
        /\ UNCHANGED <<acks, stored>>
      BY DEF Handle, Types
  <2>2. /\ Len(handled'[c]) = h + Len(lines)
        /\ \A i \in 1 .. h + Len(lines) :
              handled'[c][i] = IF i <= h THEN handled[c][i] ELSE lines[i - h]
      BY <2>1, ConcatProperties
  <2>3. Len(lines) \in Nat
      OBVIOUS
  <2> HIDE DEF h
  <2>4. ASSUME NEW i \in 1 .. Len(lines)
        PROVE  lines[i].n = h + i /\ h + i \in 1 .. h + Len(lines) /\ handled'[c][h + i] = lines[i]
    <3>1. h + i \in 1 .. h + Len(lines) /\ lines[i].n = h + i
        BY <2>1, <2>3 DEF Follow, h
    <3>2. handled'[c][h + i] = lines[i]
        BY <2>1, After DEF h
    <3> QED
        BY <3>1, <3>2
  <2>5. ASSUME NEW m \in inflight \cup stored
        PROVE  m.n \in 1 .. Len(handled'[m.conn]) /\ handled'[m.conn][m.n] = m
    <3>1. m.n \in 1 .. Len(handled[m.conn]) /\ handled[m.conn][m.n] = m /\ m.conn \in Conns
        BY DEF UploadInv, Types, Messages
    <3>2. CASE m.conn = c
      <4>1. m.n \in 1 .. h /\ m.n \in 1 .. h + Len(lines)
          BY <2>1, <2>3, <3>1, <3>2 DEF h
      <4> QED
          BY <2>2, <3>1, <3>2, <4>1
    <3> QED
        BY <2>1, <3>1, <3>2
  <2>6. ASSUME NEW i \in 1 .. Len(lines)
        PROVE  lines[i] \notin inflight \cup stored
    <3>1. lines[i].conn = c /\ lines[i].n = h + i
        BY <1>1, <2>4
    <3>2. ~(h + i \in 1 .. h)
        BY <2>1
    <3> QED
        BY <3>1, <3>2 DEF UploadInv, h
  <2>7. inflight' \subseteq inflight \cup {lines[i] : i \in 1 .. Len(lines)}
      BY DEF Handle
  <2>8. ASSUME NEW m \in inflight' \cup stored'
        PROVE  m.n \in 1 .. Len(handled'[m.conn]) /\ handled'[m.conn][m.n] = m
    <3>1. CASE m \in inflight \cup stored
        BY <2>5, <3>1
    <3>2. ASSUME NEW i \in 1 .. Len(lines), m = lines[i]
          PROVE  m.n \in 1 .. Len(handled'[m.conn]) /\ handled'[m.conn][m.n] = m
        BY <1>1, <2>2, <2>4, <3>2
    <3> QED
        BY <2>1, <2>7, <3>1, <3>2
  <2>9. inflight' \cap stored' = {}
      BY <2>1, <2>6, <2>7 DEF UploadInv
  <2>10. \A d \in Conns : IsFiniteSet(StoredOf(d)') /\ acks'[d] <= Cardinality(StoredOf(d)')
      BY <2>1 DEF UploadInv, StoredOf
  <2> QED
      BY <2>8, <2>9, <2>10 DEF UploadInv
<1> QED
    BY <1>3, <1>4, <1>5, <1>6, <1>7, <1>8

\* The invariant holds at the start.
LEMMA InitInv == Init => IInv
<1> SUFFICES ASSUME Init PROVE IInv
    OBVIOUS
<1>1. Types
  <2>1. <<>> \in Seq(Parts) /\ <<>> \in Seq(Messages) /\ 0 \in 0 .. MaxSent
      BY TasAssumption
  <2>2. /\ stream \in [Conns -> Seq(Parts)]
        /\ buffers \in [Conns -> Seq(Parts)]
        /\ handled \in [Conns -> Seq(Messages)]
        /\ sent \in [Conns -> 0 .. MaxSent]
      BY <2>1 DEF Init
  <2>3. /\ last \in [Names -> Messages \cup {None}]
        /\ acks \in [Conns -> Nat]
      BY DEF Init
  <2> QED
      BY <2>2, <2>3 DEF Init, Types
<1>2. \A c \in Conns : Text(c) = <<>>
    BY ConcatEmptySeq DEF Init, Text
<1>3. StreamInv
  <2>1. ASSUME NEW c \in Conns PROVE TextInv(c)
    <3>1. Whole(Text(c), c, Len(handled[c]))
        BY <1>2 DEF Whole
    <3>2. Len(handled[c]) = 0 /\ sent[c] = 0 /\ Len(buffers[c]) = 0 /\ Len(Text(c)) = 0
        BY <1>2 DEF Init
    <3> QED
        BY <3>1, <3>2 DEF Init, TextInv
  <2>2. HandledInv
      BY DEF Init, HandledInv
  <2> QED
      BY <2>1, <2>2 DEF Init, StreamInv
<1>4. UploadInv
  <2>1. inflight = {} /\ stored = {} /\ \A c \in Conns : acks[c] = 0
      BY DEF Init
  <2>2. \A c \in Conns : StoredOf(c) = {}
      BY <2>1 DEF StoredOf
  <2>3. IsFiniteSet({}) /\ Cardinality({}) = 0
      BY FS_EmptySet
  <2>4. \A c \in Conns : IsFiniteSet(StoredOf(c)) /\ acks[c] <= Cardinality(StoredOf(c))
      BY <2>1, <2>2, <2>3
  <2> QED
      BY <2>1, <2>4 DEF UploadInv
<1>5. OwnersInv /\ HeardInv
    BY DEF Init, OwnersInv, HeardInv, None
<1> QED
    BY <1>1, <1>3, <1>4, <1>5 DEF IInv

\* Every step preserves it.
LEMMA StepInv == IInv /\ [Next]_vars => IInv'
<1> SUFFICES ASSUME IInv, [Next]_vars PROVE IInv'
    OBVIOUS
<1> USE DEF IInv
<1>1. ASSUME NEW c \in Conns, Data(c) PROVE IInv'
  <2>1. /\ running' => TextInv(c)'
        /\ running' \/ torn' # {}
        /\ torn' = torn \/ torn' = torn \cup {c}
        /\ stream' \in [Conns -> Seq(Parts)] /\ buffers' \in [Conns -> Seq(Parts)]
        /\ \A d \in Conns \ {c} : stream'[d] = stream[d] /\ buffers'[d] = buffers[d]
        /\ ready' = ready /\ sent' = sent
      BY <1>1, DataText
  <2>2. PICK lines \in Seq(Messages) :
            /\ Handle(c, lines) /\ Follow(lines, c, Len(handled[c]))
            /\ Len(handled[c]) + Len(lines) <= sent[c]
      BY <1>1, DataText
  <2>3. /\ UploadInv' /\ OwnersInv'
        /\ inflight' \subseteq Messages
        /\ socket_arr' \in [Names -> Conns \cup {Nobody}]
        /\ last' \in [Names -> Messages \cup {None}]
        /\ handled' \in [Conns -> Seq(Messages)]
      BY <2>2, HandleStep DEF StreamInv
  <2>4. UNCHANGED <<acks, stored, open, heard, commands, ready, sent>>
      BY <2>1, <2>2 DEF Handle
  <2>5. running' \in BOOLEAN
      BY <1>1 DEF Data, Parse
  <2>6. Types'
      BY <2>1, <2>3, <2>4, <2>5 DEF Types
  <2>7. \A d \in Conns \ {c} : handled'[d] = handled[d]
      BY <2>2 DEF Handle, Types
  <2>8. ASSUME running', NEW d \in Conns \ {c} PROVE TextInv(d)'
    <3>1. TextInv(d) /\ (d \in torn' <=> d \in torn)
        BY <1>1, <2>1 DEF Data, StreamInv
    <3>2. Text(d)' = Text(d) /\ buffers'[d] = buffers[d] /\ stream'[d] = stream[d]
        BY <2>1 DEF Text
    <3> QED
        BY <2>1, <2>7, <3>1, <3>2 DEF TextInv
  <2>9. HandledInv'
    <3>1. \A i \in 1 .. Len(handled[c]) : handled[c][i].n = i
        BY DEF StreamInv, HandledInv
    <3>2. handled[c] \in Seq(Messages) /\ handled'[c] = handled[c] \o lines
        BY <2>2 DEF Handle, Types
    <3> DEFINE done == handled[c]
    <3>3. \A i \in 1 .. Len(lines) : lines[i].n = Len(done) + i
        BY <2>2 DEF Follow
    <3> HIDE DEF done
    <3>4. /\ \A i \in 1 .. Len(done \o lines) : (done \o lines)[i].n = i
          /\ Len(done \o lines) = Len(done) + Len(lines)
        BY <3>1, <3>2, <3>3, InOrder DEF done
    <3>5. /\ \A i \in 1 .. Len(handled'[c]) : handled'[c][i].n = i
          /\ Len(handled'[c]) <= sent'[c]
        BY <2>1, <2>2, <3>2, <3>4 DEF done
    <3> QED
        BY <2>1, <2>7, <3>5 DEF StreamInv, HandledInv
  <2>10. StreamInv'
      BY <2>1, <2>8, <2>9 DEF StreamInv
  <2>11. HeardInv'
      BY <2>4 DEF HeardInv
  <2> QED
      BY <2>3, <2>6, <2>10, <2>11
<1>2. ASSUME NEW c \in Conns, Close(c) PROVE IInv'
  <2>1. Types'
      BY <1>2 DEF Close, OnClose, Types, tcp, uploads
  <2>2. StreamInv'
      BY <1>2 DEF Close, tcp, uploads, StreamInv, TextInv, HandledInv, Text
  <2>3. UploadInv' /\ OwnersInv' /\ HeardInv'
      BY <1>2 DEF Close, OnClose, tcp, uploads, UploadInv, StoredOf, OwnersInv, HeardInv
  <2> QED
      BY <2>1, <2>2, <2>3
<1>3. ASSUME NEW c \in Conns, NEW ct \in Names, SendAll(c, ct) PROVE IInv'
  <2>1. /\ stream' \in [Conns -> Seq(Parts)] /\ sent' \in [Conns -> 0 .. MaxSent]
        /\ running => TextInv(c)'
        /\ \A d \in Conns \ {c} : stream'[d] = stream[d] /\ sent'[d] = sent[d]
      BY <1>3, SendText
  <2>2. UNCHANGED <<buffers, torn, ready, running, handled, last, uploads, owners>>
      BY <1>3 DEF SendAll
  <2>3. Types'
      BY <2>1, <2>2 DEF Types, uploads, owners
  <2>4. ASSUME running', NEW d \in Conns \ {c} PROVE TextInv(d)'
    <3>1. TextInv(d)
        BY <2>2, <2>4 DEF StreamInv
    <3>2. Text(d)' = Text(d)
        BY <2>1, <2>2 DEF Text
    <3> QED
        BY <2>1, <2>2, <3>1, <3>2 DEF TextInv
  <2>5. \A d \in Conns : Len(handled'[d]) <= sent'[d]
    <3>1. \A d \in Conns : /\ Len(handled[d]) \in Nat /\ sent[d] \in Nat
                           /\ sent'[d] = sent[d] \/ sent'[d] = sent[d] + 1
        BY <1>3, TasAssumption DEF Types, SendAll
    <3> QED
        BY <2>2, <3>1 DEF StreamInv, HandledInv
  <2>6. StreamInv'
      BY <2>1, <2>2, <2>4, <2>5 DEF StreamInv, HandledInv
  <2>7. UploadInv' /\ OwnersInv' /\ HeardInv'
      BY <2>2 DEF uploads, owners, UploadInv, StoredOf, OwnersInv, HeardInv
  <2> QED
      BY <2>3, <2>6, <2>7
<1>4. ASSUME NEW ct \in Names, Notify(ct) PROVE IInv'
  <2>1. UNCHANGED <<tcp, ready, running, handled, last, uploads, open, socket_arr>>
      BY <1>4 DEF Notify
  <2>2. /\ commands' = commands + 1 /\ commands \in Nat /\ heard \in [Conns -> Nat]
        /\ heard' = [c \in Conns |-> IF c = socket_arr[ct] /\ c \in open THEN commands' ELSE heard[c]]
      BY <1>4 DEF Notify, SendTas, Types
  <2>3. commands' \in Nat /\ heard' \in [Conns -> Nat]
      BY <2>2
  <2>4. Types'
      BY <2>1, <2>3 DEF Types, tcp, uploads
  <2>5. StreamInv'
      BY <2>1 DEF tcp, StreamInv, TextInv, HandledInv, Text
  <2>6. UploadInv' /\ OwnersInv'
      BY <2>1 DEF uploads, UploadInv, StoredOf, OwnersInv
  <2>7. HeardInv'
    <3> SUFFICES ASSUME NEW c \in Conns PROVE heard'[c] <= commands'
        BY DEF HeardInv
    <3>1. heard[c] \in Nat /\ heard[c] <= commands
        BY DEF Types, HeardInv
    <3>2. heard'[c] = commands' \/ heard'[c] = heard[c]
        BY <2>2
    <3> QED
        BY <2>2, <3>1, <3>2
  <2> QED
      BY <2>4, <2>5, <2>6, <2>7
<1>5. CASE Register
  <2>1. Types'
      BY <1>5 DEF Register, Types, tcp, uploads, owners
  <2>2. StreamInv'
      BY <1>5 DEF Register, tcp, StreamInv, TextInv, HandledInv, Text
  <2>3. UploadInv' /\ OwnersInv' /\ HeardInv'
      BY <1>5 DEF Register, uploads, owners, UploadInv, StoredOf, OwnersInv, HeardInv
  <2> QED
      BY <2>1, <2>2, <2>3
<1>6. ASSUME NEW m \in inflight, CseStores(m) PROVE IInv'
  <2>0. m \in Messages /\ m.conn \in Conns /\ m \notin stored
      BY DEF Types, Messages, UploadInv
  <2>1. /\ inflight' = inflight \ {m} /\ stored' = stored \cup {m}
        /\ UNCHANGED <<tcp, ready, running, handled, last, owners>>
        /\ Answer(m) \/ UNCHANGED acks
      BY <1>6 DEF CseStores
  <2>2. /\ acks \in [Conns -> Nat] /\ acks' \in [Conns -> Nat]
        /\ \A c \in Conns : acks'[c] = acks[c] \/ (c = m.conn /\ acks'[c] = acks[c] + 1)
    <3>1. acks \in [Conns -> Nat]
        BY DEF Types
    <3>2. CASE Answer(m)
      <4>1. acks' = [c \in Conns |-> IF running /\ c \in open /\ c = m.conn
                                      THEN acks[c] + 1 ELSE acks[c]]
          BY <3>2 DEF Answer
      <4> QED
          BY <3>1, <4>1
    <3> QED
        BY <2>1, <3>1, <3>2
  <2>3. Types'
      BY <2>0, <2>1, <2>2 DEF Types, tcp, owners
  <2>4. StreamInv'
      BY <2>1 DEF tcp, StreamInv, TextInv, HandledInv, Text
  <2>5. OwnersInv' /\ HeardInv'
      BY <2>1 DEF owners, OwnersInv, HeardInv
  <2>6. ASSUME NEW c \in Conns
        PROVE  IsFiniteSet(StoredOf(c)') /\ acks'[c] <= Cardinality(StoredOf(c)')
    <3>1. IsFiniteSet(StoredOf(c)) /\ acks[c] <= Cardinality(StoredOf(c))
        BY DEF UploadInv
    <3>2. CASE m.conn = c
      <4>1. StoredOf(c)' = StoredOf(c) \cup {m} /\ m \notin StoredOf(c)
          BY <2>0, <2>1, <3>2 DEF StoredOf
      <4>2. /\ IsFiniteSet(StoredOf(c)')
            /\ Cardinality(StoredOf(c)') = Cardinality(StoredOf(c)) + 1
            /\ Cardinality(StoredOf(c)) \in Nat
          BY <3>1, <4>1, FS_AddElement, FS_CardinalityType
      <4>3. acks[c] \in Nat /\ (acks'[c] = acks[c] \/ acks'[c] = acks[c] + 1)
          BY <2>2
      <4> QED
          BY <3>1, <4>2, <4>3
    <3>3. CASE m.conn # c
      <4>1. StoredOf(c)' = StoredOf(c) /\ acks'[c] = acks[c]
          BY <2>1, <2>2, <3>3 DEF StoredOf
      <4> QED
          BY <3>1, <4>1
    <3> QED
        BY <3>2, <3>3
  <2>7. UploadInv'
      BY <2>1, <2>6 DEF UploadInv
  <2> QED
      BY <2>3, <2>4, <2>5, <2>7
<1>7. ASSUME NEW m \in inflight, CseRefuses(m) PROVE IInv'
  <2>1. Types'
      BY <1>7 DEF CseRefuses, Types, tcp, owners
  <2>2. StreamInv'
      BY <1>7 DEF CseRefuses, tcp, StreamInv, TextInv, HandledInv, Text
  <2>3. UploadInv' /\ OwnersInv' /\ HeardInv'
      BY <1>7 DEF CseRefuses, owners, UploadInv, StoredOf, OwnersInv, HeardInv
  <2> QED
      BY <2>1, <2>2, <2>3
<1>8. CASE UNCHANGED vars
  <2>1. Types'
      BY <1>8 DEF vars, Types, tcp, uploads, owners
  <2>2. StreamInv'
      BY <1>8 DEF vars, tcp, StreamInv, TextInv, HandledInv, Text
  <2>3. UploadInv' /\ OwnersInv' /\ HeardInv'
      BY <1>8 DEF vars, uploads, owners, UploadInv, StoredOf, OwnersInv, HeardInv
  <2> QED
      BY <2>1, <2>2, <2>3
<1> QED
    BY <1>1, <1>2, <1>3, <1>4, <1>5, <1>6, <1>7, <1>8 DEF Next

\* The text of a connection, what is under way and who hears the commands stay
\* as IInv says.
THEOREM Inductive == Spec => []IInv
    BY InitInv, StepInv, PTL DEF Spec

-----------------------------------------------------------------------------
(* The properties. *)

LEMMA InvEachOnce == IInv => EachOnce
<1> SUFFICES ASSUME IInv, torn = {} PROVE EachOnce
    BY DEF EachOnce
<1>0. running
    BY DEF IInv, StreamInv
<1> SUFFICES ASSUME NEW c \in Conns
             PROVE  /\ \A i \in DOMAIN handled[c] : handled[c][i].n = i
                    /\ Len(handled[c]) + Cardinality(Closings(buffers[c] \o stream[c])) = sent[c]
    BY <1>0 DEF EachOnce
<1>1. TextInv(c)
    BY <1>0 DEF IInv, StreamInv
<1> DEFINE h == Len(handled[c])
           all == Text(c)
<1>2. h \in Nat /\ sent[c] \in Nat /\ handled[c] \in Seq(Messages)
    BY TasAssumption DEF IInv, Types
<1>3. \A i \in DOMAIN handled[c] : handled[c][i].n = i
    BY <1>2 DEF IInv, StreamInv, HandledInv
<1>4. all \in Seq(Parts)
    BY ConcatProperties DEF IInv, Types, Text
<1>5. Whole(all, c, h) /\ Len(all) = 2 * (sent[c] - h)
    BY <1>1 DEF TextInv
<1>6. \A x \in Seq(Parts) : Len(x) \in Nat
    OBVIOUS
<1> HIDE DEF h, all
<1>7. sent[c] - h \in Nat
    BY <1>2, <1>4, <1>5, <1>6
<1>8. Closings(all) = Evens(sent[c] - h)
    BY <1>4, <1>5, <1>7, WholeText
<1>9. Cardinality(Closings(all)) = sent[c] - h
    BY <1>7, <1>8, CountEvens
<1>10. h + Cardinality(Closings(all)) = sent[c]
    BY <1>2, <1>9
<1> QED
    BY <1>1, <1>3, <1>10 DEF h, all, Text

\* As long as no chunk loses the tail of a message, each message is taken up
\* once and in order, however TCP cuts the stream, and the gateway lives.
THEOREM TakenUpOnce == Spec => []EachOnce
    BY Inductive, InvEachOnce, PTL

\* The messages of a connection that are stored differ in their numbers, which
\* are at most as many as it sent.
LEMMA StoredNumbers ==
    ASSUME IInv, NEW c \in Conns
    PROVE  LET ns == {m.n : m \in StoredOf(c)}
           IN  /\ ns \subseteq 1 .. sent[c]
               /\ IsFiniteSet(ns) /\ Cardinality(ns) = Cardinality(StoredOf(c))
<1> DEFINE S == StoredOf(c)
           ns == {m.n : m \in S}
           f == [m \in S |-> m.n]
<1>1. \A m \in S : m.conn = c /\ m.n \in 1 .. Len(handled[c]) /\ handled[c][m.n] = m
    BY DEF IInv, UploadInv, StoredOf
<1>2. Len(handled[c]) \in Nat /\ sent[c] \in Nat /\ Len(handled[c]) <= sent[c]
    BY TasAssumption DEF IInv, Types, StreamInv, HandledInv
<1>3. ns \subseteq 1 .. sent[c]
    BY <1>1, <1>2
<1>4. f \in Bijection(S, ns)
  <2>1. f \in [S -> ns]
      OBVIOUS
  <2>2. IsInjective(f)
      BY <1>1 DEF IsInjective
  <2>3. \A t \in ns : \E m \in S : f[m] = t
      OBVIOUS
  <2> QED
      BY <2>1, <2>2, <2>3 DEF Bijection, Injection, Surjection
<1>5. ExistsBijection(S, ns) /\ IsFiniteSet(S)
    BY <1>4 DEF ExistsBijection, IInv, UploadInv
<1>6. IsFiniteSet(ns) /\ Cardinality(ns) = Cardinality(S)
    BY <1>5, FS_Bijection
<1> QED
    BY <1>3, <1>6

\* A program with a "2001" for each of its messages has all of them stored.
THEOREM AckMeansStored == Spec => []AcknowledgedIsStored
<1>1. ASSUME IInv, NEW c \in Conns, acks[c] = sent[c]
      PROVE  {m.n : m \in StoredOf(c)} = 1 .. sent[c]
  <2> DEFINE ns == {m.n : m \in StoredOf(c)}
  <2>1. /\ ns \subseteq 1 .. sent[c]
        /\ IsFiniteSet(ns) /\ Cardinality(ns) = Cardinality(StoredOf(c))
      BY <1>1, StoredNumbers
  <2>2. acks[c] <= Cardinality(StoredOf(c)) /\ sent[c] \in Nat
      BY <1>1, TasAssumption DEF IInv, UploadInv, Types
  <2>3. IsFiniteSet(1 .. sent[c]) /\ Cardinality(1 .. sent[c]) = sent[c]
      BY <2>2, FS_Interval
  <2> HIDE DEF ns
  <2>4. Cardinality(ns) <= sent[c] /\ Cardinality(ns) \in Nat
      BY <2>1, <2>3, FS_Subset, FS_CardinalityType
  <2>5. Cardinality(ns) = sent[c]
      BY <1>1, <2>1, <2>2, <2>4
  <2>6. ns = 1 .. sent[c]
      BY <2>1, <2>3, <2>5, FS_Subset
  <2> QED
      BY <2>6 DEF ns
<1>2. IInv => AcknowledgedIsStored
    BY <1>1 DEF AcknowledgedIsStored, StoredOf
<1> QED
    BY <1>2, Inductive, PTL

\* Every command for a container reaches the program that spoke for it last,
\* while that runs, and no other.
THEOREM HearsCommands == Spec => LastSpeakerHears
<1>1. ASSUME IInv, NEW ct \in Names, NEW c \in Conns, Notify(ct)
      PROVE  heard'[c] = commands' <=> c \in open /\ last[ct].conn = c
  <2>1. heard[c] \in Nat /\ commands \in Nat /\ heard[c] <= commands
      BY <1>1 DEF IInv, Types, HeardInv
  <2>2. /\ commands' = commands + 1
        /\ heard'[c] = IF c = socket_arr[ct] /\ c \in open THEN commands' ELSE heard[c]
      BY <1>1 DEF Notify, SendTas
  <2>3. heard[c] # commands'
      BY <2>1, <2>2
  <2>4. socket_arr[ct] = last[ct].conn
      BY <1>1 DEF IInv, OwnersInv
  <2> QED
      BY <2>2, <2>3, <2>4
<1>2. IInv /\ [Next]_vars =>
         [\A ct \in Names, c \in Conns :
             Notify(ct) => (heard'[c] = commands' <=> c \in open /\ last[ct].conn = c)]_vars
    BY <1>1
<1> QED
    BY <1>2, Inductive, PTL DEF Spec, LastSpeakerHears

\* The bytes after a lost tail end the gateway, however few of them come.
THEOREM TornEndsGateway ==
    Spec => [][\A c \in Conns : Data(c) /\ c \in torn => ~running']_vars
<1>1. IInv /\ [Next]_vars => [\A c \in Conns : Data(c) /\ c \in torn => ~running']_vars
    BY DataText DEF IInv
<1> QED
    BY <1>1, Inductive, PTL DEF Spec
=============================================================================
