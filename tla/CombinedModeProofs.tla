------------------------- MODULE CombinedModeProofs -------------------------
(***************************************************************************)
(* What CombinedMode guarantees for any number of threads, dropped uploads *)
(* and missed echoes.                                                      *)
(***************************************************************************)
EXTENDS CombinedMode, TLAPS

\* The buzzer is on for a warning that nobody has cut short, or for one whose
\* thread ended while sending it.
BuzzerOwned ==
    buzzer => \E s \in Sides : /\ ~silenced[s]
                               /\ Warning(s) \/ (~connected /\ Orphaned(s))

RearOwned == rear => \E s \in Sides : Lit(s)

\* The inductive invariant.
IInv == TypeOK /\ BuzzerOwned /\ RearOwned /\ WarnsUnlessSilenced

\* An upload keeps the types of what it changes.
LEMMA UploadType ==
    ASSUME TypeOK, NEW s \in Sides, NEW value \in {"0", "1", "2"}, Upload(s, value)
    PROVE  /\ t_data' \in [Sides -> {"none", "0", "1", "2"}]
           /\ db' \in [Sides -> {"none", "0", "1", "2"}]
           /\ drops' \in 0 .. MaxDrops
<1>1. t_data' \in [Sides -> {"none", "0", "1", "2"}]
  BY DEF Upload, TypeOK
<1>2. db' \in [Sides -> {"none", "0", "1", "2"}]
  BY DEF Upload, TypeOK
<1>3. drops' \in 0 .. MaxDrops
  BY LightAssumption DEF Upload, TypeOK
<1> QED
  BY <1>1, <1>2, <1>3

\* Every step keeps the types.
LEMMA TypeStep ==
    ASSUME TypeOK, [Next]_vars
    PROVE  TypeOK'
<1> USE LightAssumption
<1>1. ASSUME NEW s \in Sides, Top(s) PROVE TypeOK'
  BY <1>1, UploadType DEF Top, UploadRaises, TypeOK, GoTo, pins
<1>2. ASSUME NEW s \in Sides, Measure(s) PROVE TypeOK'
  BY <1>2 DEF Measure, TypeOK, GoTo, pins
<1>3. ASSUME NEW s \in Sides, Judge(s) PROVE TypeOK'
  BY <1>3 DEF Judge, TypeOK, GoTo
<1>4. ASSUME NEW s \in Sides, Tell(s) PROVE TypeOK'
  BY <1>4, UploadType DEF Tell, UploadRaises, TypeOK, GoTo, pins
<1>5. ASSUME NEW s \in Sides, LampsOn(s) PROVE TypeOK'
  BY <1>5 DEF LampsOn, TypeOK, GoTo
<1>6. ASSUME NEW s \in Sides, LampsOff(s) PROVE TypeOK'
  BY <1>6 DEF LampsOff, TypeOK, GoTo
<1>7. ASSUME NEW s \in Sides, Hush(s) PROVE TypeOK'
  BY <1>7 DEF Hush, TypeOK, GoTo
<1>8. ASSUME NEW s \in Sides, Hang(s) PROVE TypeOK'
  BY <1>8 DEF Hang, TypeOK, GoTo, pins
<1>9. ASSUME NEW s \in Sides, Switch(s) PROVE TypeOK'
  BY <1>9 DEF Switch, TypeOK, pins
<1>10. CASE GatewayEnds \/ UNCHANGED vars
  BY <1>10 DEF GatewayEnds, vars, TypeOK, pins
<1> QED
  BY <1>1, <1>2, <1>3, <1>4, <1>5, <1>6, <1>7, <1>8, <1>9, <1>10 DEF Next, Step

\* Every step leaves the buzzer and the rear lamp to a thread that will turn
\* them off, and a warning its buzzer unless the other side turned it off.
LEMMA PinStep ==
    ASSUME TypeOK, BuzzerOwned, RearOwned, WarnsUnlessSilenced, [Next]_vars
    PROVE  BuzzerOwned' /\ RearOwned' /\ WarnsUnlessSilenced'
<1> USE DEF BuzzerOwned, RearOwned, WarnsUnlessSilenced, Warning, Orphaned, Lit, pins
<1>0. /\ pc = [s \in Sides |-> pc[s]] /\ distance = [s \in Sides |-> distance[s]]
      /\ silenced = [s \in Sides |-> silenced[s]]
  BY DEF TypeOK
<1> DEFINE Goal == BuzzerOwned' /\ RearOwned' /\ WarnsUnlessSilenced'
<1>1. ASSUME NEW s \in Sides, Top(s) PROVE Goal
  BY <1>0, <1>1 DEF Top, GoTo
<1>2. ASSUME NEW s \in Sides, Measure(s) PROVE Goal
  BY <1>0, <1>2 DEF Measure, GoTo
<1>3. ASSUME NEW s \in Sides, Judge(s) PROVE Goal
  BY <1>0, <1>3 DEF Judge, GoTo
<1>4. ASSUME NEW s \in Sides, Tell(s) PROVE Goal
  <2>1. /\ pc[s] = "tell"
        /\ UNCHANGED <<distance, pins, connected, silenced>>
        /\ \/ pc' = [pc EXCEPT ![s] = "on"]
           \/ pc' = [pc EXCEPT ![s] = "cut"] /\ ~connected
    BY <1>4 DEF Tell, UploadRaises, GoTo
  <2> QED
    BY <1>0, <2>1
<1>5. ASSUME NEW s \in Sides, LampsOn(s) PROVE Goal
  BY <1>0, <1>5 DEF LampsOn, GoTo
<1>6. ASSUME NEW s \in Sides, LampsOff(s) PROVE Goal
  BY <1>0, <1>6 DEF LampsOff, GoTo
<1>7. ASSUME NEW s \in Sides, Hush(s) PROVE Goal
  BY <1>0, <1>7 DEF Hush, GoTo
<1>8. ASSUME NEW s \in Sides, Hang(s) PROVE Goal
  BY <1>0, <1>8 DEF Hang, GoTo
<1>9. ASSUME NEW s \in Sides, Switch(s) PROVE Goal
  BY <1>0, <1>9 DEF Switch
<1>10. CASE GatewayEnds \/ UNCHANGED vars
  BY <1>10 DEF GatewayEnds, vars
<1> QED
  BY <1>1, <1>2, <1>3, <1>4, <1>5, <1>6, <1>7, <1>8, <1>9, <1>10 DEF Next, Step

\* The initial states have the inductive invariant.
LEMMA InitInv == Init => IInv
<1> SUFFICES ASSUME Init PROVE IInv
  OBVIOUS
<1>1. TypeOK
  <2>1. switch \in [Sides -> BOOLEAN] /\ lamp \in [Sides -> BOOLEAN]
        /\ silenced \in [Sides -> BOOLEAN]
    BY DEF Init
  <2>2. rear \in BOOLEAN /\ buzzer \in BOOLEAN /\ connected \in BOOLEAN
    BY DEF Init
  <2>3. /\ pc \in [Sides -> {"top", "measure", "judge", "tell", "on", "off", "hush",
                              "hung", "dead", "cut"}]
        /\ distance \in [Sides -> {"unbound", "near", "far"}]
    BY DEF Init
  <2>4. /\ t_data \in [Sides -> {"none", "0", "1", "2"}]
        /\ db \in [Sides -> {"none", "0", "1", "2"}]
    BY DEF Init
  <2>5. drops \in 0 .. MaxDrops /\ missed \in 0 .. MaxMissed
    BY LightAssumption DEF Init
  <2> QED
    BY <2>1, <2>2, <2>3, <2>4, <2>5 DEF TypeOK
<1>2. BuzzerOwned /\ RearOwned /\ WarnsUnlessSilenced
  BY DEF Init, BuzzerOwned, RearOwned, WarnsUnlessSilenced, Warning
<1> QED
  BY <1>1, <1>2 DEF IInv

\* IInv holds in every reachable state.
THEOREM Inductive == Spec => []IInv
<1>1. IInv /\ [Next]_vars => IInv'
  BY TypeStep, PinStep DEF IInv
<1> QED
  BY InitInv, <1>1, PTL DEF Spec

\* Every variable keeps its type.
THEOREM TypeCorrect == Spec => []TypeOK
<1>1. IInv => TypeOK
  BY DEF IInv
<1> QED
  BY Inductive, <1>1, PTL

\* The buzzer and the rear lamp are on only while some thread is going to turn
\* them off, except for a thread that ended while it sent its warning to a
\* gateway that is gone.
THEOREM NoneLeftOn == Spec => []NothingLeftOn
<1>1. IInv => NothingLeftOn
  BY DEF IInv, NothingLeftOn, BuzzerOwned, RearOwned
<1> QED
  BY Inductive, <1>1, PTL

\* A warning loses its buzzer only to the other side.
THEOREM Warned == Spec => []WarnsUnlessSilenced
<1>1. IInv => WarnsUnlessSilenced
  BY DEF IInv
<1> QED
  BY Inductive, <1>1, PTL
=============================================================================
