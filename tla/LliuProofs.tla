----------------------------- MODULE LliuProofs -----------------------------
(***************************************************************************)
(* The order path, for any messages, scores, thresholds, core latency and  *)
(* watchdog limits; a transmitter that refuses any beats; rst at any time. *)
(***************************************************************************)
EXTENDS LliuFeed, TLAPS

-----------------------------------------------------------------------------
(* Types, as far as the arguments below need them.                         *)

Slots == Messages \cup {None}

Types ==
  /\ taken \in Nat /\ emitting \in Slots \cup {Junk}
  /\ fields \in Messages \cup {Junk} /\ fields_valid \in BOOLEAN
  /\ fields_valid => fields \in Messages
  /\ price_d1 \in Messages \cup {Junk}
  /\ delay \in [DelayStages -> Slots] /\ features \in [FeatureStages -> Slots]
  /\ core_left \in Nat /\ core_vector \in Slots
  /\ DOMAIN pipe = 1 .. 5
  /\ calm \in BOOLEAN

LEMMA TypesInit == FeedInit => Types
<1> SUFFICES ASSUME FeedInit PROVE Types
  OBVIOUS
<1>1. Init /\ calm = TRUE
  BY DEF FeedInit
<1>2. /\ taken \in Nat /\ emitting \in Slots \cup {Junk} /\ fields \in Messages \cup {Junk}
      /\ fields_valid = FALSE
  BY <1>1 DEF Init, Parser!Init, Slots, NoMessage
<1>3. price_d1 \in Messages \cup {Junk} /\ delay \in [DelayStages -> Slots] /\ features \in [FeatureStages -> Slots]
  BY <1>1 DEF Init, Slots
<1>4. core_left \in Nat /\ core_vector \in Slots
  BY <1>1 DEF Init, Core!Init, Slots
<1>5. DOMAIN pipe = 1 .. 5
  BY <1>1 DEF Init, Risk!Init, Risk!Stages
<1> QED
  BY <1>1, <1>2, <1>3, <1>4, <1>5 DEF Types

LEMMA TypesStep == Types /\ [FeedNext]_feedVars => Types'
<1> SUFFICES ASSUME Types, [FeedNext]_feedVars PROVE Types'
  OBVIOUS
<1>1. CASE UNCHANGED feedVars
  BY <1>1 DEF feedVars, vars, parserVars, pathVars, coreVars, riskVars, Types
<1>2. CASE FeedReset
  <2>1. Reset /\ calm' = calm
    BY <1>2 DEF FeedReset
  <2>2. /\ taken' \in Nat /\ emitting' \in Slots \cup {Junk} /\ fields' \in Messages \cup {Junk}
        /\ fields_valid' = FALSE
    BY <2>1 DEF Reset, Parser!Reset, Slots, NoMessage
  <2>3. /\ price_d1' \in Messages \cup {Junk} /\ delay' \in [DelayStages -> Slots]
        /\ features' \in [FeatureStages -> Slots]
    BY <2>1 DEF Reset, Slots
  <2>4. core_left' \in Nat /\ core_vector' \in Slots
    BY <2>1 DEF Reset, Core!Reset, Slots
  <2>5. DOMAIN pipe' = 1 .. 5
    BY <2>1 DEF Reset, Risk!Reset, Risk!Stages
  <2> QED
    BY <2>1, <2>2, <2>3, <2>4, <2>5 DEF Types
<1>3. ASSUME NEW tready \in BOOLEAN, Cycle(tready) PROVE Types'
  <2>1. Clock(tready) /\ calm' = (calm /\ (fields_valid => Quiet))
    BY <1>3 DEF Cycle
  <2>2. Parser!Clock(pipeline_hold) /\ Path /\ Core!Clock(features[7])
    BY <2>1 DEF Clock
  <2>3. /\ taken' \in Nat /\ emitting' \in Slots \cup {Junk} /\ fields' \in Messages \cup {Junk}
        /\ fields_valid' \in BOOLEAN /\ (fields_valid' => fields' \in Messages)
    <3>1. CASE Parser!Emit
      <4>1. emitting \in Messages \cup {Junk}
        BY <3>1 DEF Parser!Emit, Types, Slots, NoMessage
      <4>2. taken' = taken /\ emitting' = None /\ fields' = emitting /\ fields_valid' = (emitting # Junk)
        BY <3>1 DEF Parser!Emit, NoMessage
      <4>3. taken' \in Nat /\ emitting' \in Slots
        BY <4>2 DEF Types, Slots
      <4>4. fields_valid' \in BOOLEAN
        <5>1. (emitting # Junk) \in BOOLEAN
          OBVIOUS
        <5> QED
          BY <4>2, <5>1, Zenon
      <4>5. ASSUME fields_valid' PROVE fields' \in Messages
        <5>1. emitting # Junk
          BY <4>2, <4>5, Zenon
        <5> QED
          BY <4>1, <4>2, <5>1, Zenon
      <4> QED
        BY <4>1, <4>2, <4>3, <4>4, <4>5, Zenon
    <3>2. CASE Parser!Gather(pipeline_hold)
      <4>1. fields_valid' = FALSE /\ fields' = fields
        BY <3>2, Zenon DEF Parser!Gather
      <4>2. \/ Parser!Stay \/ Parser!More \/ Parser!Cut
            \/ \E m \in Messages \cup {Junk} : Parser!Last(m)
        BY <3>2, Zenon DEF Parser!Gather
      <4>3. taken' \in Nat /\ emitting' \in Slots \cup {Junk}
        BY <4>2 DEF Parser!Stay, Parser!More, Parser!Cut, Parser!Last, Types, Slots, NoMessage
      <4> QED
        BY <4>1, <4>3 DEF Types
    <3> QED
      BY <2>2, <3>1, <3>2 DEF Parser!Clock
  <2>4. price_d1' \in Messages \cup {Junk} /\ delay' \in [DelayStages -> Slots]
    BY <2>2 DEF Path, Types, Slots, DelayStages
  <2>5. features' \in [FeatureStages -> Slots]
    <3>1. Hit \in Slots
      BY DEF Hit, Types, DelayStages
    <3> QED
      BY <2>2, <3>1 DEF Path, Types, FeatureStages
  <2>6. core_left' \in Nat /\ core_vector' \in Slots
    <3>1. features[7] \in Slots
      BY DEF Types, FeatureStages
    <3> QED
      BY <2>2, <3>1, TopAssumption DEF Core!Clock, Core!Take, Core!Wait, Core!Rest, Types
  <2>7. DOMAIN pipe' = 1 .. 5
    BY <2>1 DEF Clock, Risk!Clock, Risk!Stages
  <2>8. calm' \in BOOLEAN
    BY <2>1
  <2> QED
    BY <2>3, <2>4, <2>5, <2>6, <2>7, <2>8 DEF Types
<1> QED
  BY <1>1, <1>2, <1>3 DEF FeedNext, ReadyCycle, StallCycle

-----------------------------------------------------------------------------
(* One message at a time.  The order path is a line of places; what is in  *)
(* one of them has left it before, or as, it comes to the next.            *)

Places == 1 .. 9

Clear(j) ==
  /\ j = 1 => \A i \in DelayStages : delay[i] = None
  /\ j = 2 => \A i \in FeatureStages : features[i] = None
  /\ j = 3 => core_left = 0
  /\ j = 4 => \A i \in 0 .. 3 : ~lv0_r[i].valid
  /\ j = 5 => \A i \in 0 .. 1 : ~lv1_r[i].valid
  /\ j = 6 => ~best.valid
  /\ j = 7 => \A i \in 1 .. 5 : pipe[i] = None
  /\ j = 8 => verdict.is = "none"
  /\ j = 9 => ouch_state = "IDLE"

\* Nothing is in the order path but in place k.
Only(k) == \A j \in Places : j # k => Clear(j)

\* No two stages of a place hold something.
Single ==
  /\ \A i, j \in DelayStages : delay[i] # None /\ delay[j] # None => i = j
  /\ \A i, j \in FeatureStages : features[i] # None /\ features[j] # None => i = j
  /\ \A i, j \in 1 .. 5 : pipe[i] # None /\ pipe[j] # None => i = j

OneAtATime == Single /\ \E k \in Places : Only(k)

LEMMA QuietIsClear == Types => (Quiet <=> \A j \in Places : Clear(j))
<1> SUFFICES ASSUME Types PROVE Quiet <=> \A j \in Places : Clear(j)
  OBVIOUS
<1>1. ~Core!busy <=> core_left = 0
  BY DEF Core!busy, Types
<1>2. DOMAIN pipe = 1 .. 5
  BY DEF Types
<1>3. (\A j \in Places : Clear(j)) <=>
        Clear(1) /\ Clear(2) /\ Clear(3) /\ Clear(4) /\ Clear(5) /\ Clear(6) /\ Clear(7) /\ Clear(8) /\ Clear(9)
  BY DEF Places
<1>4. /\ Clear(1) <=> \A i \in DelayStages : delay[i] = None
      /\ Clear(2) <=> \A i \in FeatureStages : features[i] = None
      /\ Clear(3) <=> core_left = 0
      /\ Clear(4) <=> \A i \in 0 .. 3 : ~lv0_r[i].valid
      /\ Clear(5) <=> \A i \in 0 .. 1 : ~lv1_r[i].valid
      /\ Clear(6) <=> ~best.valid
      /\ Clear(7) <=> \A i \in 1 .. 5 : pipe[i] = None
      /\ Clear(8) <=> verdict.is = "none"
      /\ Clear(9) <=> ouch_state = "IDLE"
  BY DEF Clear
<1> QED
  BY <1>1, <1>2, <1>3, <1>4, Zenon DEF Quiet

\* The registers that are written at every edge hold nothing behind a place
\* that holds nothing.
LEMMA PlayInvalid == \A a, b : ~a.valid /\ ~b.valid => ~Arb!Play(a, b).valid
BY DEF Arb!Play

LEMMA NoResult ==
  ASSUME NEW tready, Clock(tready), ~Core!result_valid
  PROVE  Clear(4)'
<1>1. Arb!Clock(CoreScores, Thresh)
  BY DEF Clock
<1>2. ASSUME NEW k \in 0 .. 7 PROVE ~Arb!Leaf(CoreScores, Thresh, k).valid
  <2>1. ~CoreScores[k].valid
    BY DEF CoreScores, Arb!Cores
  <2> QED
    BY <2>1 DEF Arb!Leaf, Arb!Gated
<1>3. ASSUME NEW i \in 0 .. 3 PROVE ~lv0_r'[i].valid
  <2>1. 2 * i \in 0 .. 7 /\ 2 * i + 1 \in 0 .. 7
    OBVIOUS
  <2>2. lv0_r'[i] = Arb!Play(Arb!Leaf(CoreScores, Thresh, 2 * i), Arb!Leaf(CoreScores, Thresh, 2 * i + 1))
    BY <1>1 DEF Arb!Clock
  <2> QED
    BY <1>2, <2>1, <2>2, PlayInvalid, Zenon
<1> QED
  BY <1>3 DEF Clear

LEMMA Follows ==
  ASSUME Types, NEW tready, Clock(tready)
  PROVE  /\ Clear(3) => Clear(4)'
         /\ Clear(4) => Clear(5)'
         /\ Clear(5) => Clear(6)'
         /\ pipe[5] = None => Clear(8)'
<1>1. Arb!Clock(CoreScores, Thresh) /\ Risk!Clock(ToRisk, FALSE, tx_overflow)
  BY DEF Clock
<1>3. Clear(3) => Clear(4)'
  BY NoResult DEF Clear, Core!result_valid
<1>4. ASSUME Clear(4) PROVE Clear(5)'
  <2>1. ASSUME NEW i \in 0 .. 1 PROVE ~lv1_r'[i].valid
    <3>1. 2 * i \in 0 .. 3 /\ 2 * i + 1 \in 0 .. 3
      OBVIOUS
    <3>2. lv1_r'[i] = Arb!Play(lv0_r[2 * i], lv0_r[2 * i + 1])
      BY <1>1 DEF Arb!Clock
    <3>3. ~lv0_r[2 * i].valid /\ ~lv0_r[2 * i + 1].valid
      BY <1>4, <3>1 DEF Clear
    <3> QED
      BY <3>2, <3>3, PlayInvalid, Zenon
  <2> QED
    BY <2>1 DEF Clear
<1>5. ASSUME Clear(5) PROVE Clear(6)'
  <2>1. ~lv1_r[0].valid /\ ~lv1_r[1].valid
    BY <1>5 DEF Clear
  <2>2. best' = Arb!Play(lv1_r[0], lv1_r[1])
    BY <1>1 DEF Arb!Clock
  <2>3. ~best'.valid
    BY <2>1, <2>2, PlayInvalid, Zenon
  <2> QED
    BY <2>3 DEF Clear
<1>6. ASSUME pipe[5] = None PROVE Clear(8)'
  <2>1. verdict' = [order |-> pipe[5], is |-> Risk!Decide(pipe[5], new_net_r)]
    BY <1>1 DEF Risk!Clock
  <2>2. Risk!Decide(pipe[5], new_net_r) = "none"
    BY <1>6 DEF Risk!Decide
  <2> QED
    BY <2>1, <2>2 DEF Clear
<1> QED
  BY <1>3, <1>4, <1>5, <1>6

\* A place that holds nothing, behind one that holds nothing, stays so.
LEMMA StaysClear ==
  ASSUME Types, NEW tready, Clock(tready), NEW j \in Places, Clear(j),
         IF j = 1 THEN ~fields_valid ELSE Clear(j - 1)
  PROVE  Clear(j)'
<1>1. /\ Path /\ Core!Clock(features[7]) /\ Risk!Clock(ToRisk, FALSE, tx_overflow)
      /\ Ouch!Clock(ToOuch, tready)
  BY DEF Clock
<1>2. CASE j = 1
  <2>1. \A i \in DelayStages : delay'[i] = None
    BY <1>1, <1>2 DEF Path, Clear, DelayStages
  <2> QED
    BY <1>2, <2>1 DEF Clear
<1>3. CASE j = 2
  <2>1. Hit = None
    BY <1>3 DEF Clear, Hit, DelayStages
  <2>2. \A i \in FeatureStages : features'[i] = None
    BY <1>1, <1>3, <2>1 DEF Path, Clear, FeatureStages
  <2> QED
    BY <1>3, <2>2 DEF Clear
<1>4. CASE j = 3
  <2>1. features[7] = None /\ core_left = 0
    BY <1>4 DEF Clear, FeatureStages
  <2>2. core_left' = 0
    BY <1>1, <2>1 DEF Core!Clock, Core!Take, Core!Wait, Core!Rest
  <2> QED
    BY <1>4, <2>2 DEF Clear
<1>5. CASE j \in {4, 5, 6}
  <2>1. (j = 4 /\ Clear(3)) \/ (j = 5 /\ Clear(4)) \/ (j = 6 /\ Clear(5))
    BY <1>5
  <2> QED
    BY <2>1, Follows, Zenon
<1>6. CASE j = 7
  <2>1. ToRisk = None
    BY <1>6 DEF Clear, ToRisk
  <2>2. \A i \in 1 .. 5 : pipe'[i] = None
    BY <1>1, <1>6, <2>1 DEF Risk!Clock, Risk!Stages, Risk!Enter, Clear
  <2> QED
    BY <1>6, <2>2 DEF Clear
<1>7. CASE j = 8
  <2>1. pipe[5] = None
    BY <1>7 DEF Clear
  <2> QED
    BY <1>7, <2>1, Follows, Zenon
<1>8. CASE j = 9
  <2>1. ouch_state = "IDLE" /\ ToOuch = None
    BY <1>8 DEF Clear, ToOuch, Risk!risk_pass
  <2>2. ouch_state' = "IDLE"
    BY <1>1, <2>1 DEF Ouch!Clock, Ouch!Fsm, Ouch!IdleState, Ouch!FetchState, Ouch!LoadState, Ouch!SendState
  <2> QED
    BY <1>8, <2>2 DEF Clear
<1> QED
  BY <1>2, <1>3, <1>4, <1>5, <1>6, <1>7, <1>8 DEF Places

\* What is alone in the order path leaves its place, or is not in the next yet.
LEMMA HandsOver ==
  ASSUME Types, NEW tready, Clock(tready), ~fields_valid, Single,
         NEW k \in 1 .. 8, Only(k)
  PROVE  Clear(k)' \/ Clear(k + 1)'
<1>1. Path /\ Core!Clock(features[7]) /\ Risk!Clock(ToRisk, FALSE, tx_overflow)
  BY DEF Clock
<1>2. CASE k = 1
  <2>1. CASE delay[3] = None
    <3>1. Clear(2) /\ Hit = None
      BY <1>2, <2>1 DEF Only, Places, Hit
    <3>2. \A i \in FeatureStages : features'[i] = None
      BY <1>1, <3>1 DEF Path, Clear, FeatureStages
    <3> QED
      BY <1>2, <3>2 DEF Clear
  <2>2. CASE delay[3] # None
    <3>1. delay[1] = None /\ delay[2] = None
      BY <2>2 DEF Single, DelayStages
    <3>2. \A i \in DelayStages : delay'[i] = None
      BY <1>1, <3>1 DEF Path, DelayStages
    <3> QED
      BY <1>2, <3>2 DEF Clear
  <2> QED
    BY <2>1, <2>2
<1>3. CASE k = 2
  <2>0. Clear(1) /\ Clear(3)
    BY <1>3 DEF Only, Places
  <2>1. CASE features[7] = None
    <3>1. core_left' = 0
      BY <1>1, <2>0, <2>1 DEF Core!Clock, Core!Take, Core!Wait, Core!Rest, Clear
    <3> QED
      BY <1>3, <3>1 DEF Clear
  <2>2. CASE features[7] # None
    <3>1. \A i \in 1 .. 6 : features[i] = None
      BY <2>2 DEF Single, FeatureStages
    <3>2. Hit = None
      BY <2>0 DEF Clear, Hit, DelayStages
    <3>3. \A i \in FeatureStages : features'[i] = None
      BY <1>1, <3>1, <3>2 DEF Path, FeatureStages
    <3> QED
      BY <1>3, <3>3 DEF Clear
  <2> QED
    BY <2>1, <2>2
<1>4. CASE k = 3
  <2>0. features[7] = None
    BY <1>4 DEF Only, Places, Clear, FeatureStages
  <2>1. CASE core_left \in {0, 1}
    <3>1. core_left' = 0
      BY <1>1, <2>0, <2>1 DEF Core!Clock, Core!Take, Core!Wait, Core!Rest
    <3> QED
      BY <1>4, <3>1 DEF Clear
  <2>2. CASE core_left \notin {0, 1}
    <3>1. Clear(4)'
      BY <2>2, NoResult DEF Core!result_valid
    <3> QED
      BY <1>4, <3>1
  <2> QED
    BY <2>1, <2>2
<1>5. CASE k \in {4, 5, 6}
  <2>1. (k = 4 /\ Clear(3)) \/ (k = 5 /\ Clear(4)) \/ (k = 6 /\ Clear(5))
    BY <1>5 DEF Only, Places
  <2> QED
    BY <2>1, Follows, Zenon
<1>6. CASE k = 7
  <2>1. CASE pipe[5] = None
    BY <1>6, <2>1, Follows
  <2>2. CASE pipe[5] # None
    <3>1. \A i \in 1 .. 4 : pipe[i] = None
      BY <2>2 DEF Single
    <3>2. ToRisk = None
      BY <1>6 DEF Only, Places, Clear, ToRisk
    <3>3. \A i \in 1 .. 5 : pipe'[i] = None
      BY <1>1, <3>1, <3>2 DEF Risk!Clock, Risk!Stages, Risk!Enter
    <3> QED
      BY <1>6, <3>3 DEF Clear
  <2> QED
    BY <2>1, <2>2
<1>7. CASE k = 8
  <2>1. pipe[5] = None
    BY <1>7 DEF Only, Places, Clear
  <2> QED
    BY <1>7, <2>1, Follows, Zenon
<1> QED
  BY <1>2, <1>3, <1>4, <1>5, <1>6, <1>7

\* Each line of registers moves on by one; nothing comes in beside what is there.
LEMMA SingleStep ==
  ASSUME Types, NEW tready, Clock(tready), OneAtATime, fields_valid => Quiet
  PROVE  Single'
<1>1. PICK k \in Places : Only(k)
  BY DEF OneAtATime
<1>2. Path /\ Risk!Clock(ToRisk, FALSE, tx_overflow)
  BY DEF Clock
<1>3. Quiet => \A j \in Places : Clear(j)
  BY QuietIsClear
<1>4. ASSUME NEW i \in DelayStages, NEW j \in DelayStages, delay'[i] # None, delay'[j] # None
      PROVE  i = j
  <2>1. fields_valid => \A n \in DelayStages : delay[n] = None
    BY <1>3 DEF Clear, Places
  <2>2. \A n \in DelayStages : n > 1 => delay'[n] = delay[n - 1] /\ n - 1 \in DelayStages
    BY <1>2 DEF Path, DelayStages
  <2>3. ~fields_valid => delay'[1] = None
    BY <1>2 DEF Path, DelayStages
  <2>4. \A m, n \in DelayStages : delay[m] # None /\ delay[n] # None => m = n
    BY DEF OneAtATime, Single
  <2>5. i \in {1, 2, 3} /\ j \in {1, 2, 3}
    BY DEF DelayStages
  <2> QED
    BY <1>4, <2>1, <2>2, <2>3, <2>4, <2>5
<1>5. ASSUME NEW i \in FeatureStages, NEW j \in FeatureStages, features'[i] # None, features'[j] # None
      PROVE  i = j
  <2>1. Hit # None => \A n \in FeatureStages : features[n] = None
    <3>1. CASE k = 1
      BY <1>1, <3>1 DEF Only, Places, Clear
    <3>2. CASE k # 1
      BY <1>1, <3>2 DEF Only, Places, Clear, Hit, DelayStages
    <3> QED
      BY <3>1, <3>2
  <2>2. \A n \in FeatureStages : n > 1 => features'[n] = features[n - 1] /\ n - 1 \in FeatureStages
    BY <1>2 DEF Path, FeatureStages
  <2>3. Hit = None => features'[1] = None
    BY <1>2 DEF Path, FeatureStages
  <2>4. \A m, n \in FeatureStages : features[m] # None /\ features[n] # None => m = n
    BY DEF OneAtATime, Single
  <2>5. i \in 1 .. 7 /\ j \in 1 .. 7
    BY DEF FeatureStages
  <2>6. (i = 1 \/ i > 1) /\ (j = 1 \/ j > 1)
    BY <2>5
  <2> QED
    BY <1>5, <2>1, <2>2, <2>3, <2>4, <2>5, <2>6
<1>6. ASSUME NEW i \in 1 .. 5, NEW j \in 1 .. 5, pipe'[i] # None, pipe'[j] # None
      PROVE  i = j
  <2>1. ToRisk # None => \A n \in 1 .. 5 : pipe[n] = None
    <3>1. CASE k = 6
      BY <1>1, <3>1 DEF Only, Places, Clear
    <3>2. CASE k # 6
      BY <1>1, <3>2 DEF Only, Places, Clear, ToRisk
    <3> QED
      BY <3>1, <3>2
  <2>2. \A n \in 1 .. 5 : n > 1 => pipe'[n] = pipe[n - 1] /\ n - 1 \in 1 .. 5
    <3>1. pipe' = [n \in 1 .. 5 |-> IF n = 1 THEN Risk!Enter(ToRisk, FALSE, tx_overflow) ELSE pipe[n - 1]]
      BY <1>2 DEF Risk!Clock, Risk!Stages
    <3>2. ASSUME NEW n \in 1 .. 5, n > 1 PROVE pipe'[n] = pipe[n - 1] /\ n - 1 \in 1 .. 5
      <4>1. n # 1 /\ n - 1 \in 1 .. 5
        BY <3>2
      <4>2. pipe'[n] = IF n = 1 THEN Risk!Enter(ToRisk, FALSE, tx_overflow) ELSE pipe[n - 1]
        BY <3>1, Zenon
      <4> QED
        BY <4>1, <4>2, Zenon
    <3> QED
      BY <3>2
  <2>3. ToRisk = None => pipe'[1] = None
    BY <1>2 DEF Risk!Clock, Risk!Stages, Risk!Enter
  <2>4. \A m, n \in 1 .. 5 : pipe[m] # None /\ pipe[n] # None => m = n
    BY DEF OneAtATime, Single
  <2>5. (i = 1 \/ i > 1) /\ (j = 1 \/ j > 1)
    OBVIOUS
  <2> QED
    BY <1>6, <2>1, <2>2, <2>3, <2>4, <2>5
<1> QED
  BY <1>4, <1>5, <1>6 DEF Single

LEMMA OneStep ==
  ASSUME Types, NEW tready, Clock(tready), OneAtATime, fields_valid => Quiet
  PROVE  OneAtATime'
<1>1. Single'
  BY SingleStep
<1>2. CASE fields_valid
  <2>1. \A j \in Places : Clear(j)
    BY <1>2, QuietIsClear
  <2>2. ASSUME NEW j \in Places, j # 1 PROVE Clear(j)'
    <3>1. j - 1 \in Places
      BY <2>2 DEF Places
    <3> QED
      BY <2>1, <2>2, <3>1, StaysClear
  <2>3. Only(1)' /\ 1 \in Places
    BY <2>2 DEF Only, Places
  <2> QED
    BY <1>1, <2>3 DEF OneAtATime
<1>3. CASE ~fields_valid
  <2>1. PICK k \in Places : Only(k)
    BY DEF OneAtATime
  <2>2. ASSUME NEW j \in Places, j # k, j # k + 1 PROVE Clear(j)'
    <3>1. Clear(j)
      BY <2>1, <2>2 DEF Only
    <3>2. j = 1 \/ (j # 1 /\ j - 1 \in Places /\ j - 1 # k)
      BY <2>2 DEF Places
    <3>3. IF j = 1 THEN ~fields_valid ELSE Clear(j - 1)
      BY <1>3, <2>1, <3>2 DEF Only
    <3> QED
      BY <3>1, <3>3, StaysClear
  <2>3. CASE k = 9
    <3>1. \A j \in Places : j # 9 => j # k + 1
      BY <2>3 DEF Places
    <3>2. Only(9)' /\ 9 \in Places
      BY <2>2, <2>3, <3>1 DEF Only, Places
    <3> QED
      BY <1>1, <3>2 DEF OneAtATime
  <2>4. CASE k # 9
    <3>1. k \in 1 .. 8 /\ k + 1 \in Places
      BY <2>4 DEF Places
    <3>2. Clear(k)' \/ Clear(k + 1)'
      BY <1>3, <2>1, <3>1, HandsOver DEF OneAtATime
    <3>3. CASE Clear(k)'
      <4>1. Only(k + 1)'
        BY <2>2, <3>3 DEF Only
      <4> QED
        BY <1>1, <3>1, <4>1 DEF OneAtATime
    <3>4. CASE Clear(k + 1)'
      <4>1. Only(k)'
        BY <2>2, <3>4 DEF Only
      <4> QED
        BY <1>1, <4>1 DEF OneAtATime
    <3> QED
      BY <3>2, <3>3, <3>4
  <2> QED
    BY <2>3, <2>4
<1> QED
  BY <1>2, <1>3

\* Init and rst leave the order path empty.
LEMMA EmptyIsOne ==
  ASSUME Quiet, Types PROVE OneAtATime
<1>1. \A j \in Places : Clear(j)
  BY QuietIsClear
<1>2. Clear(1) /\ Clear(2) /\ Clear(7) /\ Only(1) /\ 1 \in Places
  BY <1>1 DEF Only, Places
<1> QED
  BY <1>2 DEF Clear, OneAtATime, Single

LEMMA InitIsQuiet == FeedInit => Quiet
<1> SUFFICES ASSUME FeedInit PROVE Quiet
  OBVIOUS
<1>1. /\ delay = [i \in DelayStages |-> None] /\ features = [i \in FeatureStages |-> None]
  BY DEF FeedInit, Init
<1>2. core_left = 0
  BY DEF FeedInit, Init, Core!Init
<1>3. /\ best = Arb!ResetNode /\ lv0_r = [i \in 0 .. 3 |-> Arb!ResetNode]
      /\ lv1_r = [i \in 0 .. 1 |-> Arb!ResetNode] /\ Arb!ResetNode.valid = FALSE
  BY DEF FeedInit, Init, Arb!Init, Arb!ResetNode
<1>4. pipe = [i \in Risk!Stages |-> None] /\ verdict.is = "none"
  BY DEF FeedInit, Init, Risk!Init
<1>5. ouch_state = "IDLE"
  BY DEF FeedInit, Init, Ouch!Init
<1> QED
  BY <1>1, <1>2, <1>3, <1>4, <1>5 DEF Quiet, Core!busy

LEMMA ResetIsQuiet == Reset => Quiet'
<1> SUFFICES ASSUME Reset PROVE Quiet'
  OBVIOUS
<1>1. /\ delay' = [i \in DelayStages |-> None] /\ features' = [i \in FeatureStages |-> None]
  BY DEF Reset
<1>2. core_left' = 0
  BY DEF Reset, Core!Reset
<1>3. /\ best' = Arb!ResetNode /\ lv0_r' = [i \in 0 .. 3 |-> Arb!ResetNode]
      /\ lv1_r' = [i \in 0 .. 1 |-> Arb!ResetNode] /\ Arb!ResetNode.valid = FALSE
  BY DEF Reset, Arb!Reset, Arb!ResetNode
<1>4. pipe' = [i \in Risk!Stages |-> None] /\ verdict'.is = "none"
  BY DEF Reset, Risk!Reset
<1>5. ouch_state' = "IDLE"
  BY DEF Reset, Ouch!Reset
<1> QED
  BY <1>1, <1>2, <1>3, <1>4, <1>5 DEF Quiet, Core!busy

CalmInv == Types /\ (calm => OneAtATime)

LEMMA CalmInit == FeedInit => CalmInv
BY TypesInit, InitIsQuiet, EmptyIsOne DEF CalmInv

LEMMA CalmStep == CalmInv /\ [FeedNext]_feedVars => CalmInv'
<1> SUFFICES ASSUME CalmInv, [FeedNext]_feedVars PROVE CalmInv'
  OBVIOUS
<1>1. Types'
  BY TypesStep DEF CalmInv
<1>2. CASE UNCHANGED feedVars
  BY <1>1, <1>2 DEF CalmInv, OneAtATime, Single, Only, Clear, feedVars, vars, parserVars, pathVars, coreVars, arbVars, riskVars, ouchVars
<1>3. CASE FeedReset
  <2>1. Quiet'
    BY <1>3, ResetIsQuiet DEF FeedReset
  <2>2. (Quiet /\ Types => OneAtATime)'
    BY EmptyIsOne, PTL
  <2> QED
    BY <1>1, <2>1, <2>2 DEF CalmInv
<1>4. ASSUME NEW tready \in BOOLEAN, Cycle(tready), calm' PROVE OneAtATime'
  <2>1. Clock(tready) /\ calm /\ (fields_valid => Quiet)
    BY <1>4 DEF Cycle
  <2> QED
    BY <2>1, OneStep DEF CalmInv
<1> QED
  BY <1>1, <1>2, <1>3, <1>4 DEF FeedNext, ReadyCycle, StallCycle, CalmInv

\* As long as one watched message at a time is under way, no vector is offered
\* to cores that are still busy with another.
THEOREM OneContextAlways == FeedSpec => []OneContextWhenCalm
<1>1. CalmInv => OneContextWhenCalm
  <2> SUFFICES ASSUME CalmInv, calm, features[7] # None PROVE ~Core!busy
    BY DEF OneContextWhenCalm, OneContext, core_features_valid
  <2>1. PICK k \in Places : Only(k)
    BY DEF CalmInv, OneAtATime
  <2>2. k = 2
    BY <2>1 DEF Only, Places, Clear, FeatureStages
  <2>3. core_left = 0
    BY <2>1, <2>2 DEF Only, Places, Clear
  <2> QED
    BY <2>3 DEF Core!busy
<1> QED
  BY <1>1, CalmInit, CalmStep, PTL DEF FeedSpec

-----------------------------------------------------------------------------
(* The hold registers.  A message's fields stay in price_d1 until its hit  *)
(* is out, unless the parser has emitted the next one by then; and nothing *)
(* but the next hit moves what is held.                                    *)

\* While something is behind the delay line, no hit comes.
LEMMA HitIsAlone ==
  ASSUME OneAtATime, Hit # None
  PROVE  \A j \in Places : j # 1 => Clear(j)
<1>1. PICK k \in Places : Only(k)
  BY DEF OneAtATime
<1>2. k = 1
  BY <1>1 DEF Only, Places, Clear, Hit, DelayStages
<1> QED
  BY <1>1, <1>2 DEF Only

Settled ==
  /\ emitting # None => taken = 0
  /\ fields_valid => emitting = None /\ taken = 0

Aligned ==
  /\ delay[1] # None => price_d1 = delay[1] /\ fields = delay[1] /\ emitting # Junk /\ ~fields_valid
  /\ delay[2] # None => price_d1 = delay[2] /\ (fields = delay[2] \/ fields_valid)
  /\ delay[3] # None => price_d1 = delay[3]

Holds ==
  /\ \A i \in FeatureStages : features[i] # None => held = features[i]
  /\ (\E j \in 3 .. 6 : ~Clear(j)) => held = core_vector

HeldInv == CalmInv /\ Settled /\ (calm /\ ~heartbeat => Aligned /\ Holds)

\* The parser leaves at least two edges between fields and the next fields.
LEMMA ParserMoves ==
  ASSUME Types, NEW tready, Clock(tready)
  PROVE  \/ /\ emitting # None /\ emitting' = None /\ taken' = taken
            /\ fields' = emitting /\ (emitting = Junk \/ fields_valid')
         \/ /\ emitting = None /\ fields' = fields /\ ~fields_valid'
            /\ emitting' # None => taken' = 0
<1>1. Parser!Emit \/ Parser!Gather(pipeline_hold)
  BY DEF Clock, Parser!Clock
<1>2. CASE Parser!Emit
  <2>1. emitting # None /\ emitting' = None /\ taken' = taken /\ fields' = emitting
    BY <1>2, Zenon DEF Parser!Emit, NoMessage
  <2>2. emitting = Junk \/ fields_valid'
    BY <1>2, Zenon DEF Parser!Emit
  <2> QED
    BY <2>1, <2>2
<1>3. CASE Parser!Gather(pipeline_hold)
  <2>1. emitting = None /\ fields' = fields /\ ~fields_valid'
    BY <1>3, Zenon DEF Parser!Gather, NoMessage
  <2>2. \/ Parser!Stay \/ Parser!More \/ Parser!Cut
        \/ \E m \in Messages \cup {Junk} : Parser!Last(m)
    BY <1>3, Zenon DEF Parser!Gather
  <2>3. CASE Parser!Stay \/ Parser!More \/ Parser!Cut
    <3>1. emitting' = None
      BY <2>3, Zenon DEF Parser!Stay, Parser!More, Parser!Cut, NoMessage
    <3> QED
      BY <2>1, <3>1, TopAssumption
  <2>4. ASSUME NEW m \in Messages \cup {Junk}, Parser!Last(m)
        PROVE  taken' = 0
    BY <2>4, Zenon DEF Parser!Last
  <2> QED
    BY <2>1, <2>2, <2>3, <2>4
<1> QED
  BY <1>1, <1>2, <1>3

LEMMA SettledStep == ASSUME Types, Settled, NEW tready, Clock(tready) PROVE Settled'
<1>1. emitting' # None => taken' = 0
  BY ParserMoves
<1>2. fields_valid' => emitting' = None /\ taken' = 0
  BY ParserMoves DEF Settled
<1> QED
  BY <1>1, <1>2 DEF Settled

\* Where nothing is under way, nothing is out of line.
LEMMA QuietIsAligned == ASSUME Types, Quiet PROVE Aligned /\ Holds
<1>1. \A j \in Places : Clear(j)
  BY QuietIsClear
<1>2. delay[1] = None /\ delay[2] = None /\ delay[3] = None
  BY <1>1 DEF Clear, Places, DelayStages
<1>3. \A i \in FeatureStages : features[i] = None
  BY <1>1 DEF Clear, Places
<1>4. \A j \in 3 .. 6 : Clear(j)
  <2>1. \A j \in 3 .. 6 : j \in Places
    BY DEF Places
  <2> QED
    BY <1>1, <2>1, Zenon
<1> QED
  BY <1>2, <1>3, <1>4, Zenon DEF Aligned, Holds

LEMMA AlignedStep ==
  ASSUME Types, Settled, Aligned, NEW tready, Clock(tready),
         fields_valid => Quiet /\ emitting' # Junk
  PROVE  Aligned'
<1>1. Path
  BY DEF Clock
<1>2. /\ price_d1' = fields
      /\ delay'[1] = (IF fields_valid THEN fields ELSE None)
      /\ delay'[2] = delay[1] /\ delay'[3] = delay[2]
  BY <1>1 DEF Path, DelayStages
<1>3. Junk # None /\ Junk \notin Messages /\ None \notin Messages /\ taken \in Nat
  BY TopAssumption DEF Types
<1>4. delay[2] # None => ~fields_valid
  BY QuietIsClear DEF Places, Clear, DelayStages
<1>7. ASSUME delay'[1] # None
      PROVE  price_d1' = delay'[1] /\ fields' = delay'[1] /\ emitting' # Junk /\ ~fields_valid'
  <2>1. fields_valid /\ delay'[1] = fields
    BY <1>2, <1>7
  <2>2. emitting = None /\ taken = 0
    BY <2>1 DEF Settled
  <2> QED
    BY <1>2, <2>1, <2>2, ParserMoves
<1>8. ASSUME delay'[2] # None
      PROVE  price_d1' = delay'[2] /\ (fields' = delay'[2] \/ fields_valid')
  BY <1>2, <1>8, ParserMoves DEF Aligned
<1>9. ASSUME delay'[3] # None PROVE price_d1' = delay'[3]
  BY <1>2, <1>4, <1>9 DEF Aligned
<1> QED
  BY <1>7, <1>8, <1>9 DEF Aligned

LEMMA HoldsStep ==
  ASSUME Types, Aligned, Holds, OneAtATime, NEW tready, Clock(tready)
  PROVE  Holds'
<1>1. Path /\ Core!Clock(features[7])
  BY DEF Clock
<1>2. held' = IF Hit # None THEN price_d1 ELSE held
  BY <1>1 DEF Path, HeldNext
<1>3. features'[1] = Hit /\ \A i \in 2 .. 7 : features'[i] = features[i - 1]
  BY <1>1 DEF Path, FeatureStages
<1>4. ASSUME NEW i \in FeatureStages, features'[i] # None PROVE held' = features'[i]
  <2>1. CASE i = 1
    BY <1>2, <1>3, <1>4, <2>1 DEF Aligned, Hit
  <2>2. CASE i # 1
    <3>1. i \in 2 .. 7 /\ i - 1 \in FeatureStages
      BY <2>2 DEF FeatureStages
    <3>2. features[i - 1] # None /\ features'[i] = features[i - 1]
      BY <1>3, <1>4, <3>1
    <3>3. Hit = None
      BY <3>1, <3>2, HitIsAlone DEF Places, Clear
    <3> QED
      BY <1>2, <3>1, <3>2, <3>3 DEF Holds
  <2> QED
    BY <2>1, <2>2
<1>5. ASSUME NEW j \in 3 .. 6, ~Clear(j)' PROVE held' = core_vector'
  <2>1. PICK k \in Places : Only(k)
    BY DEF OneAtATime
  <2>2. CASE j = 3
    <3>1. core_left' # 0
      BY <1>5, <2>2 DEF Clear
    <3>2. CASE core_left = 0
      <4>1. features[7] # None /\ core_vector' = features[7]
        BY <1>1, <3>1, <3>2 DEF Core!Clock, Core!Take, Core!Wait, Core!Rest
      <4>2. Hit = None
        BY <4>1, HitIsAlone DEF Places, Clear, FeatureStages
      <4> QED
        BY <1>2, <4>1, <4>2 DEF Holds, FeatureStages
    <3>3. CASE core_left # 0
      <4>1. core_vector' = core_vector
        BY <1>1, <3>3 DEF Core!Clock, Core!Take, Core!Wait, Core!Rest
      <4>2. ~Clear(3) /\ 3 \in 3 .. 6
        BY <3>3 DEF Clear
      <4>3. Hit = None
        BY <4>2, HitIsAlone DEF Places
      <4> QED
        BY <1>2, <4>1, <4>2, <4>3 DEF Holds
    <3> QED
      BY <3>2, <3>3
  <2>3. CASE j # 3
    <3>1. PICK i \in 3 .. 6 : i = j - 1
      BY <2>3
    <3>2. ~Clear(i)
      <4>1. (i = 3 /\ j = 4) \/ (i = 4 /\ j = 5) \/ (i = 5 /\ j = 6)
        BY <2>3, <3>1
      <4> QED
        BY <1>5, <4>1, Follows, Zenon
    <3>3. k = i
      BY <2>1, <3>2 DEF Only, Places
    <3>4. features[7] = None
      BY <2>1, <3>3 DEF Only, Places, Clear, FeatureStages
    <3>5. core_vector' = core_vector
      BY <1>1, <3>4 DEF Core!Clock, Core!Take, Core!Wait, Core!Rest
    <3>6. Hit = None
      <4>1. i \in Places /\ i # 1
        BY DEF Places
      <4> QED
        BY <3>2, <4>1, HitIsAlone
    <3> QED
      BY <1>2, <3>2, <3>5, <3>6 DEF Holds
  <2> QED
    BY <2>2, <2>3
<1> QED
  BY <1>4, <1>5 DEF Holds

LEMMA HeldInit == FeedInit => HeldInv
<1> SUFFICES ASSUME FeedInit PROVE HeldInv
  OBVIOUS
<1>1. CalmInv
  BY CalmInit
<1>2. emitting = None /\ fields_valid = FALSE
  BY DEF FeedInit, Init, Parser!Init, NoMessage
<1>4. Settled
  BY <1>2 DEF Settled
<1>5. Aligned /\ Holds
  BY <1>1, InitIsQuiet, QuietIsAligned DEF CalmInv
<1> QED
  BY <1>1, <1>4, <1>5 DEF HeldInv

\* rst leaves nothing in the order path that could be held.
LEMMA HeldReset == ASSUME Types, Types', Reset PROVE Settled' /\ Aligned' /\ Holds'
<1>1. Quiet'
  BY ResetIsQuiet
<1>2. (Types /\ Quiet => Aligned /\ Holds)'
  BY QuietIsAligned, PTL
<1>3. emitting' = None /\ fields_valid' = FALSE /\ taken' = 0
  BY DEF Reset, Parser!Reset, NoMessage
<1> QED
  BY <1>1, <1>2, <1>3 DEF Settled

LEMMA HeldStep == HeldInv /\ [FeedNext]_feedVars => HeldInv'
<1> SUFFICES ASSUME HeldInv, [FeedNext]_feedVars PROVE HeldInv'
  OBVIOUS
<1>1. CalmInv' /\ CalmInv
  BY CalmStep DEF HeldInv
<1>2. CASE UNCHANGED feedVars
  BY <1>1, <1>2 DEF HeldInv, Settled, Aligned, Holds, Clear, feedVars, vars, parserVars, pathVars, coreVars, arbVars, riskVars, ouchVars
<1>3. CASE FeedReset
  BY <1>1, <1>3, HeldReset DEF FeedReset, HeldInv, CalmInv
<1>4. ASSUME NEW tready \in BOOLEAN, Cycle(tready)
      PROVE  Settled' /\ (calm' /\ ~heartbeat' => Aligned' /\ Holds')
  <2>1. Clock(tready) /\ Types /\ Settled
    BY <1>1, <1>4 DEF Cycle, CalmInv, HeldInv
  <2>2. Settled'
    BY <2>1, SettledStep
  <2>3. ASSUME calm', ~heartbeat' PROVE Aligned' /\ Holds'
    <3>1. calm /\ (fields_valid => Quiet)
      BY <1>4, <2>3 DEF Cycle
    <3>2. IF fields_valid THEN emitting' # Junk ELSE ~heartbeat
      <4>1. heartbeat' = IF fields_valid THEN emitting' = Junk ELSE heartbeat
        BY <1>4 DEF Cycle
      <4> QED
        BY <2>3, <4>1, Zenon
    <3>3. Aligned /\ Holds
      BY <2>1, <3>1, <3>2, QuietIsAligned DEF HeldInv
    <3>4. OneAtATime
      BY <1>1, <3>1 DEF CalmInv
    <3> QED
      BY <2>1, <3>1, <3>2, <3>3, <3>4, AlignedStep, HoldsStep
  <2> QED
    BY <2>2, <2>3
<1> QED
  BY <1>1, <1>2, <1>3, <1>4 DEF FeedNext, ReadyCycle, StallCycle, HeldInv

\* The order that the risk check is given is for the message the cores scored,
\* while one is in the order path at a time and no heartbeat is right behind it.
THEOREM ScoredIsCheckedAlways == FeedSpec => []ScoredIsCheckedWhenCalm
<1>1. HeldInv => ScoredIsCheckedWhenCalm
  <2> SUFFICES ASSUME HeldInv, calm, ~heartbeat, best.valid PROVE held = core_vector
    BY DEF ScoredIsCheckedWhenCalm, ScoredIsChecked
  <2>1. ~Clear(6) /\ 6 \in 3 .. 6
    BY DEF Clear
  <2> QED
    BY <2>1 DEF HeldInv, Holds
<1>2. HeldInv /\ [FeedNext]_feedVars => HeldInv'
  BY HeldStep
<1> QED
  BY <1>1, <1>2, HeldInit, PTL DEF FeedSpec

-----------------------------------------------------------------------------
(* The order on its way through the risk check.                            *)

\* A configuration in which every core proposes the same number of shares, as
\* after rst (lliu_top_v2.sv:564).
SameShares == \A j, k \in 0 .. 7 : Shares[j] = Shares[k]

\* Whatever wins the tournament is one of the eight cores.
NodesOk ==
  /\ \A i \in 0 .. 3 : lv0_r[i].id \in 0 .. 7
  /\ \A i \in 0 .. 1 : lv1_r[i].id \in 0 .. 7
  /\ best.id \in 0 .. 7

LEMMA PlayOne == \A a, b : a.id \in 0 .. 7 /\ b.id \in 0 .. 7 => Arb!Play(a, b).id \in 0 .. 7
BY DEF Arb!Play

LEMMA NodesInit == FeedInit => NodesOk
<1> SUFFICES ASSUME FeedInit PROVE NodesOk
  OBVIOUS
<1>1. Arb!Init
  BY DEF FeedInit, Init
<1>2. Arb!ResetNode.id \in 0 .. 7
  BY DEF Arb!ResetNode
<1> QED
  BY <1>1, <1>2 DEF NodesOk, Arb!Init

LEMMA NodesStep == NodesOk /\ [FeedNext]_feedVars => NodesOk'
<1> SUFFICES ASSUME NodesOk, [FeedNext]_feedVars PROVE NodesOk'
  OBVIOUS
<1>1. CASE UNCHANGED feedVars
  BY <1>1 DEF feedVars, vars, arbVars, NodesOk
<1>2. CASE FeedReset
  <2>1. Arb!Reset
    BY <1>2 DEF FeedReset, Reset
  <2>2. Arb!ResetNode.id \in 0 .. 7
    BY DEF Arb!ResetNode
  <2> QED
    BY <2>1, <2>2 DEF NodesOk, Arb!Reset
<1>3. ASSUME NEW tready \in BOOLEAN, Cycle(tready) PROVE NodesOk'
  <2>1. Arb!Clock(CoreScores, Thresh)
    BY <1>3 DEF Cycle, Clock
  <2>2. \A k \in 0 .. 7 : Arb!Leaf(CoreScores, Thresh, k).id \in 0 .. 7
    BY DEF Arb!Leaf
  <2>3. ASSUME NEW i \in 0 .. 3 PROVE lv0_r'[i].id \in 0 .. 7
    <3>1. 2 * i \in 0 .. 7 /\ 2 * i + 1 \in 0 .. 7
      OBVIOUS
    <3>2. lv0_r'[i] = Arb!Play(Arb!Leaf(CoreScores, Thresh, 2 * i), Arb!Leaf(CoreScores, Thresh, 2 * i + 1))
      BY <2>1 DEF Arb!Clock
    <3> QED
      BY <2>2, <3>1, <3>2, PlayOne, Zenon
  <2>4. ASSUME NEW i \in 0 .. 1 PROVE lv1_r'[i].id \in 0 .. 7
    <3>1. 2 * i \in 0 .. 3 /\ 2 * i + 1 \in 0 .. 3
      OBVIOUS
    <3>2. lv1_r'[i] = Arb!Play(lv0_r[2 * i], lv0_r[2 * i + 1])
      BY <2>1 DEF Arb!Clock
    <3> QED
      BY <3>1, <3>2, PlayOne, Zenon DEF NodesOk
  <2>5. best'.id \in 0 .. 7
    <3>1. best' = Arb!Play(lv1_r[0], lv1_r[1]) /\ 0 \in 0 .. 1 /\ 1 \in 0 .. 1
      BY <2>1 DEF Arb!Clock
    <3> QED
      BY <3>1, PlayOne, Zenon DEF NodesOk
  <2> QED
    BY <2>3, <2>4, <2>5 DEF NodesOk
<1> QED
  BY <1>1, <1>2, <1>3 DEF FeedNext, ReadyCycle, StallCycle

\* Order o is for the message held.
Matches(o) ==
  /\ o.sym = Sym /\ o.side = held.side /\ o.quote.price = held.price
  /\ \E k \in 0 .. 7 : o.shares = Shares[k]
  /\ ~o.fat => ~(o.shares > MaxQty)

PipeMatches ==
  /\ \A i \in 1 .. 5 : pipe[i] # None => Matches(pipe[i])
  /\ verdict.is # "none" => Matches(verdict.order)

PassInv == CalmInv /\ NodesOk /\ (calm => PipeMatches)

\* An order that enters is the proposal.
LEMMA EnterFields ==
  ASSUME NEW o, o # None, NEW k, NEW t
  PROVE  LET e == Risk!Enter(o, k, t)
         IN  /\ e.sym = o.sym /\ e.side = o.side /\ e.shares = o.shares /\ e.quote = o.quote
             /\ e.fat = (o.shares > MaxQty)
<1>1. ASSUME NEW a, NEW b, NEW c, NEW d, NEW f, NEW g, NEW h
      PROVE  LET e == [sym |-> a, side |-> b, shares |-> c, quote |-> d,
                       band |-> f, fat |-> g, killed |-> h]
             IN  e.sym = a /\ e.side = b /\ e.shares = c /\ e.quote = d /\ e.fat = g
  OBVIOUS
<1> QED
  BY <1>1, Zenon DEF Risk!Enter

LEMMA EnterIs ==
  ASSUME NodesOk, NEW o, o = Proposal, NEW k, NEW t
  PROVE  Matches(Risk!Enter(o, k, t)) \/ Risk!Enter(o, k, t) = None
<1> DEFINE e == Risk!Enter(o, k, t)
<1>1. CASE o = None
  BY <1>1 DEF Risk!Enter
<1>2. CASE o # None
  <2>1. /\ e.sym = o.sym /\ e.side = o.side /\ e.shares = o.shares /\ e.quote = o.quote
        /\ e.fat = (o.shares > MaxQty)
    BY <1>2, EnterFields
  <2>2. o.sym = Sym /\ o.side = held.side /\ o.quote = QuoteOf(held) /\ o.shares = Shares[best.id]
    BY DEF Proposal, risk_proposed_shares
  <2>3. o.quote.price = held.price
    BY <2>2 DEF QuoteOf
  <2>4. ~e.fat => ~(e.shares > MaxQty)
    BY <2>1, Zenon
  <2> QED
    BY <2>1, <2>2, <2>3, <2>4, Zenon DEF Matches, NodesOk
<1> QED
  BY <1>1, <1>2

LEMMA PipeStep ==
  ASSUME Types, NodesOk, PipeMatches, OneAtATime, NEW tready, Clock(tready)
  PROVE  PipeMatches'
<1>1. Path /\ Risk!Clock(ToRisk, FALSE, tx_overflow)
  BY DEF Clock
<1>2. held' = IF Hit # None THEN price_d1 ELSE held
  BY <1>1 DEF Path, HeldNext
<1>3. Sym' = Sym /\ QuoteOf(held)' = QuoteOf(held')
  BY DEF Sym, QuoteOf
<1>4. ASSUME NEW o, Matches(o), held' = held PROVE (Matches(o))'
  BY <1>4 DEF Matches, Sym
<1>5. ASSUME NEW i \in 1 .. 5, pipe'[i] # None PROVE (Matches(pipe[i]))'
  <2>1. CASE i = 1
    <3>1. pipe'[1] = Risk!Enter(ToRisk, FALSE, tx_overflow)
      BY <1>1 DEF Risk!Clock, Risk!Stages
    <3>2. best.valid /\ ToRisk = Proposal
      BY <1>5, <2>1, <3>1 DEF ToRisk, Risk!Enter
    <3>3. Matches(pipe'[1])
      BY <1>5, <2>1, <3>1, <3>2, EnterIs
    <3>4. held' = held
      BY <1>2, <3>2, HitIsAlone DEF Places, Clear
    <3> QED
      BY <2>1, <3>3, <3>4 DEF Matches, Sym
  <2>2. CASE i # 1
    <3>1. PICK j \in 1 .. 5 : j = i - 1
      BY <2>2
    <3>2. pipe'[i] = pipe[j]
      <4>1. pipe' = [n \in 1 .. 5 |-> IF n = 1 THEN Risk!Enter(ToRisk, FALSE, tx_overflow) ELSE pipe[n - 1]]
        BY <1>1 DEF Risk!Clock, Risk!Stages
      <4> QED
        BY <2>2, <3>1, <4>1, Zenon
    <3>3. Matches(pipe[j]) /\ pipe[j] # None
      BY <1>5, <3>2 DEF PipeMatches
    <3>4. held' = held
      BY <1>2, <3>3, HitIsAlone DEF Places, Clear
    <3> QED
      BY <3>2, <3>3, <3>4 DEF Matches, Sym
  <2> QED
    BY <2>1, <2>2
<1>6. ASSUME verdict'.is # "none" PROVE (Matches(verdict.order))'
  <2>1. verdict' = [order |-> pipe[5], is |-> Risk!Decide(pipe[5], new_net_r)]
    BY <1>1 DEF Risk!Clock
  <2>2. pipe[5] # None
    BY <1>6, <2>1 DEF Risk!Decide
  <2>3. Matches(pipe[5]) /\ verdict'.order = pipe[5]
    BY <2>1, <2>2 DEF PipeMatches
  <2>4. held' = held
    BY <1>2, <2>2, HitIsAlone DEF Places, Clear
  <2> QED
    BY <2>3, <2>4 DEF Matches, Sym
<1> QED
  BY <1>5, <1>6 DEF PipeMatches

LEMMA PassInit == FeedInit => PassInv
<1> SUFFICES ASSUME FeedInit PROVE PassInv
  OBVIOUS
<1>1. Quiet /\ Types /\ CalmInv
  BY InitIsQuiet, CalmInit DEF CalmInv
<1>2. \A j \in Places : Clear(j)
  BY <1>1, QuietIsClear
<1>3. PipeMatches
  BY <1>2 DEF PipeMatches, Places, Clear
<1> QED
  BY <1>1, <1>3, NodesInit DEF PassInv

LEMMA PassStep == PassInv /\ [FeedNext]_feedVars => PassInv'
<1> SUFFICES ASSUME PassInv, [FeedNext]_feedVars PROVE PassInv'
  OBVIOUS
<1>1. CalmInv /\ CalmInv' /\ NodesOk /\ NodesOk'
  BY CalmStep, NodesStep DEF PassInv
<1>2. CASE UNCHANGED feedVars
  BY <1>1, <1>2 DEF PassInv, PipeMatches, Matches, Sym, feedVars, vars, pathVars, riskVars
<1>3. CASE FeedReset
  <2>1. (\A i \in 1 .. 5 : pipe'[i] = None) /\ verdict'.is = "none"
    BY <1>3 DEF FeedReset, Reset, Risk!Reset, Risk!Stages
  <2> QED
    BY <1>1, <2>1 DEF PassInv, PipeMatches
<1>4. ASSUME NEW tready \in BOOLEAN, Cycle(tready), calm' PROVE PipeMatches'
  <2>1. Clock(tready) /\ calm
    BY <1>4 DEF Cycle
  <2> QED
    BY <1>1, <2>1, PipeStep DEF PassInv, CalmInv
<1> QED
  BY <1>1, <1>2, <1>3, <1>4 DEF FeedNext, ReadyCycle, StallCycle, PassInv

\* The fields of an order record.
LEMMA OrderFields ==
  ASSUME NEW a, NEW b, NEW c, NEW d
  PROVE  LET o == [sym |-> a, side |-> b, price |-> c, shares |-> d]
         IN  o.sym = a /\ o.side = b /\ o.price = c /\ o.shares = d
OBVIOUS

\* The order that the OUCH engine latches has the price, the side and the
\* share count that were checked, if all cores propose the same count.
THEOREM PassedIsSentAlways ==
  ASSUME SameShares PROVE FeedSpec => []PassedIsSentWhenCalm
<1>1. PassInv => PassedIsSentWhenCalm
  <2> SUFFICES ASSUME PassInv, calm, Risk!risk_pass
               PROVE  /\ ToOuch.price = verdict.order.quote.price
                      /\ ToOuch.side = verdict.order.side
                      /\ ToOuch.shares = verdict.order.shares
    BY DEF PassedIsSentWhenCalm, PassedIsSent
  <2>1. verdict.is # "none"
    BY DEF Risk!risk_pass
  <2>2. Matches(verdict.order) /\ best.id \in 0 .. 7
    BY <2>1 DEF PassInv, PipeMatches, NodesOk
  <2>3. ToOuch = [sym |-> Sym, side |-> held.side, price |-> held.price, shares |-> Shares[best.id]]
    BY DEF ToOuch, risk_proposed_shares
  <2>4. ToOuch.side = held.side /\ ToOuch.price = held.price /\ ToOuch.shares = Shares[best.id]
    BY <2>3, OrderFields
  <2>5. verdict.order.shares = Shares[best.id]
    BY <2>2 DEF Matches, SameShares
  <2> QED
    BY <2>2, <2>4, <2>5, Zenon DEF Matches
<1> QED
  BY <1>1, PassInit, PassStep, PTL DEF FeedSpec

-----------------------------------------------------------------------------
(* The position.                                                           *)

\* A limit that the position register can hold, and a share limit that keeps
\* the sum within its one bit more.
Sane == PosLimit < PosHalf /\ MaxQty <= PosHalf

\* A number that fits is not changed by the cut to two's complement.
LEMMA SignedFits ==
  ASSUME NEW h \in Nat \ {0}, NEW x \in Int, -h <= x, x < h
  PROVE  Risk!Signed(x, h) = x
<1>1. x + h \in 0 .. 2 * h - 1
  OBVIOUS
<1>2. \A m \in Nat \ {0} : \A a \in 0 .. m - 1 : a % m = a
  OBVIOUS
<1>3. (x + h) % (2 * h) = x + h
  BY <1>1, <1>2
<1> QED
  BY <1>3 DEF Risk!Signed

\* The magnitude of a number that fits is its absolute value.
LEMMA MagnitudeFits ==
  ASSUME NEW n \in Int, -(2 * PosHalf) < n, n < 2 * PosHalf, Risk!Magnitude(n) <= PosLimit
  PROVE  -PosLimit <= n /\ n <= PosLimit
<1>0. PosHalf \in Nat \ {0} /\ PosLimit \in Nat
  BY TopAssumption
<1>1. \A m \in Nat \ {0} : \A a \in 0 .. m - 1 : a % m = a
  OBVIOUS
<1>2. CASE n < 0
  <2>1. 0 - n \in 0 .. 2 * PosHalf - 1
    BY <1>0, <1>2
  <2>2. Risk!Magnitude(n) = 0 - n
    BY <1>0, <1>1, <1>2, <2>1 DEF Risk!Magnitude
  <2> QED
    BY <1>0, <1>2, <2>2
<1>3. CASE n >= 0
  BY <1>0, <1>3 DEF Risk!Magnitude
<1> QED
  BY <1>2, <1>3

\* The hold registers have been loaded by the time something is behind them.
HeldOk ==
  /\ held \in Messages \cup {Junk, None}
  /\ held = None => \A j \in 2 .. 8 : Clear(j)

LEMMA HeldOkInit == FeedInit => HeldOk
<1> SUFFICES ASSUME FeedInit PROVE HeldOk
  OBVIOUS
<1>1. Quiet /\ Types
  BY InitIsQuiet, TypesInit
<1>2. \A j \in Places : Clear(j)
  BY <1>1, QuietIsClear
<1>3. held = None
  BY DEF FeedInit, Init
<1> QED
  BY <1>2, <1>3 DEF HeldOk, Places

LEMMA HeldOkStep == Types /\ HeldOk /\ [FeedNext]_feedVars => HeldOk'
<1> SUFFICES ASSUME Types, HeldOk, [FeedNext]_feedVars PROVE HeldOk'
  OBVIOUS
<1>1. CASE UNCHANGED feedVars
  BY <1>1 DEF HeldOk, Clear, feedVars, vars, parserVars, pathVars, coreVars, arbVars, riskVars, ouchVars
<1>2. CASE FeedReset
  <2>1. Quiet' /\ Types' /\ held' = None
    BY <1>2, ResetIsQuiet, TypesStep DEF FeedReset, Reset
  <2>2. (Types => (Quiet <=> \A j \in Places : Clear(j)))'
    BY QuietIsClear, PTL
  <2>3. \A j \in 2 .. 8 : Clear(j)'
    BY <2>1, <2>2 DEF Places
  <2> QED
    BY <2>1, <2>3 DEF HeldOk
<1>3. ASSUME NEW tready \in BOOLEAN, Cycle(tready) PROVE HeldOk'
  <2>1. Clock(tready) /\ Path
    BY <1>3 DEF Cycle, Clock
  <2>2. held' = IF Hit # None THEN price_d1 ELSE held
    BY <2>1 DEF Path, HeldNext
  <2>3. held' \in Messages \cup {Junk, None}
    BY <2>2 DEF HeldOk, Types
  <2>4. ASSUME held' = None, NEW j \in 2 .. 8 PROVE Clear(j)'
    <3>1. Hit = None /\ held = None
      BY <2>2, <2>4, TopAssumption DEF Types
    <3>2. \A n \in 2 .. 8 : Clear(n)
      BY <3>1 DEF HeldOk
    <3>3. CASE j = 2
      <4>1. \A i \in FeatureStages : features'[i] = None
        BY <2>1, <3>1, <3>2 DEF Path, Clear, FeatureStages
      <4> QED
        BY <3>3, <4>1 DEF Clear
    <3>4. CASE j # 2
      <4>1. j \in Places /\ j # 1 /\ j - 1 \in 2 .. 8
        BY <3>4 DEF Places
      <4> QED
        BY <2>1, <3>2, <4>1, StaysClear
    <3> QED
      BY <3>3, <3>4
  <2> QED
    BY <2>3, <2>4 DEF HeldOk
<1> QED
  BY <1>1, <1>2, <1>3 DEF FeedNext, ReadyCycle, StallCycle

Within(n) == n \in Int /\ -PosLimit <= n /\ n <= PosLimit

\* What was sent is what is stored, or will be when the write-back of the order
\* that has just passed arrives; an order is charged to what it read.
Charged ==
  /\ Within(sent)
  /\ pos_mem \in [{Sym} -> Int]
  /\ ~Risk!risk_pass => pos_wr = None /\ pos_mem[Sym] = sent
  /\ Risk!risk_pass => /\ pos_wr # None /\ pos_wr.sym = Sym
                       /\ pos_wr.net = sent + Net(ToOuch) /\ Within(pos_wr.net)
  /\ pipe[4] # None => pos_rd_data = sent
  /\ pipe[5] # None => new_net_r = Risk!NewNet(pipe[5], sent)

ChargeInv == PassInv /\ HeldOk /\ (calm => Charged)

LEMMA ChargeInit == FeedInit => ChargeInv
<1> SUFFICES ASSUME FeedInit PROVE ChargeInv
  OBVIOUS
<1>1. PassInv /\ HeldOk
  BY PassInit, HeldOkInit
<1>2. /\ pipe = [i \in 1 .. 5 |-> None] /\ pos_mem = [s \in {Sym} |-> 0] /\ pos_wr = None
      /\ verdict.is = "none" /\ sent = 0
  BY DEF FeedInit, Init, Risk!Init, Risk!Stages
<1>3. Within(sent)
  BY <1>2, TopAssumption DEF Within
<1>4. pipe[4] = None /\ pipe[5] = None /\ ~Risk!risk_pass
  BY <1>2 DEF Risk!risk_pass
<1>5. pos_mem \in [{Sym} -> Int] /\ pos_mem[Sym] = sent
  BY <1>2 DEF Sym
<1> QED
  BY <1>1, <1>2, <1>3, <1>4, <1>5 DEF ChargeInv, Charged

\* An order that passes leaves a position within the limit, and the sum
\* computed for it is that position, at both widths.
LEMMA PassedFits ==
  ASSUME Sane, PipeMatches, Charged, Risk!Decide(pipe[5], new_net_r) = "pass"
  PROVE  /\ new_net_r = sent + Net(pipe[5]) /\ Within(new_net_r)
         /\ Risk!Signed(new_net_r, PosHalf) = new_net_r
<1> DEFINE p == pipe[5]
           x == IF p.side = Risk!Buy THEN sent + p.shares ELSE sent - p.shares
<1>0. PosHalf \in Nat \ {0} /\ PosLimit \in Nat /\ MaxQty \in Nat
  BY TopAssumption
<1>1. p # None /\ ~p.fat /\ ~(Risk!Magnitude(new_net_r) > PosLimit)
  BY DEF Risk!Decide
<1>2. p.shares \in Nat /\ p.shares <= MaxQty
  <2>1. Matches(p)
    BY <1>1 DEF PipeMatches
  <2>2. p.shares \in Nat
    BY <2>1, TopAssumption DEF Matches
  <2>3. ~(p.shares > MaxQty)
    BY <1>1, <2>1, Zenon DEF Matches
  <2> QED
    BY <1>0, <2>2, <2>3
<1>3. sent \in Int /\ -PosLimit <= sent /\ sent <= PosLimit
  BY DEF Charged, Within
<1>4. x \in Int /\ -(2 * PosHalf) < x /\ x < 2 * PosHalf /\ x = sent + Net(p)
  BY <1>0, <1>2, <1>3 DEF Sane, Net, Risk!Buy
<1>5. new_net_r = x
  <2>1. new_net_r = Risk!Signed(x, 2 * PosHalf)
    BY <1>1 DEF Charged, Risk!NewNet
  <2>2. 2 * PosHalf \in Nat \ {0}
    BY <1>0
  <2> QED
    BY <1>4, <2>1, <2>2, SignedFits
<1>6. -PosLimit <= x /\ x <= PosLimit
  <2>1. Risk!Magnitude(x) \in Int
    BY <1>0, <1>4 DEF Risk!Magnitude
  <2>2. Risk!Magnitude(x) <= PosLimit
    BY <1>0, <1>1, <1>5, <2>1
  <2> QED
    BY <1>4, <2>2, MagnitudeFits
<1>7. Risk!Signed(x, PosHalf) = x
  BY <1>0, <1>4, <1>6, SignedFits DEF Sane
<1> QED
  BY <1>4, <1>5, <1>6, <1>7 DEF Within

\* What the registers around the position memory take over at an edge.
LEMMA RiskMoves ==
  ASSUME NEW tready, Clock(tready)
  PROVE  /\ pipe'[4] = pipe[3] /\ pipe'[5] = pipe[4]
         /\ pos_mem' = IF pos_wr = None THEN pos_mem ELSE [pos_mem EXCEPT ![pos_wr.sym] = pos_wr.net]
         /\ pos_rd_data' = IF pipe[3] = None THEN 0 ELSE pos_mem[pipe[3].sym]
         /\ new_net_r' = IF pipe[4] = None THEN 0 ELSE Risk!NewNet(pipe[4], pos_rd_data)
         /\ verdict' = [order |-> pipe[5], is |-> Risk!Decide(pipe[5], new_net_r)]
         /\ pos_wr' = Risk!WriteBack
<1>1. Risk!Clock(ToRisk, FALSE, tx_overflow)
  BY DEF Clock
<1>2. pipe' = [i \in 1 .. 5 |-> IF i = 1 THEN Risk!Enter(ToRisk, FALSE, tx_overflow) ELSE pipe[i - 1]]
  BY <1>1 DEF Risk!Clock, Risk!Stages
<1>3. pipe'[4] = pipe[3] /\ pipe'[5] = pipe[4]
  BY <1>2
<1> QED
  BY <1>1, <1>3, Zenon DEF Risk!Clock

\* The order that passed is taken: nothing else is in the order path, so the
\* OUCH engine is idle.
LEMMA PassedIsTaken ==
  ASSUME Types, OneAtATime, HeldOk, NodesOk, Risk!risk_pass
  PROVE  Taken /\ pipe[3] = None /\ pipe[4] = None /\ pipe[5] = None
<1>1. PICK k \in Places : Only(k)
  BY DEF OneAtATime
<1>2. ~Clear(8) /\ 8 \in 2 .. 8
  BY DEF Clear, Risk!risk_pass
<1>3. Clear(7) /\ Clear(9)
  BY <1>1, <1>2 DEF Only, Places
<1>4. held \in Messages \cup {Junk}
  BY <1>2 DEF HeldOk
<1>5. ToOuch # None
  BY <1>4, TopAssumption DEF ToOuch, Sym, risk_proposed_shares, NodesOk
<1> QED
  BY <1>3, <1>5 DEF Taken, Clear

\* The edge after a pass: the order is sent, its position stored.
LEMMA StoreStep ==
  ASSUME Types, OneAtATime, HeldOk, NodesOk, Charged, NEW tready, Clock(tready),
         Risk!risk_pass, sent' = IF Taken THEN sent + Net(ToOuch) ELSE sent
  PROVE  Charged'
<1>1. Taken /\ pipe[3] = None /\ pipe[4] = None /\ pipe[5] = None
  BY PassedIsTaken
<1>2. Risk!Decide(pipe[5], new_net_r) = "none"
  BY <1>1 DEF Risk!Decide
<1>3. ~Risk!risk_pass' /\ pos_wr' = None /\ pipe'[4] = None /\ pipe'[5] = None
  BY <1>1, <1>2, RiskMoves DEF Risk!risk_pass, Risk!WriteBack
<1>4. pos_wr # None /\ pos_wr.sym = Sym /\ pos_wr.net = sent + Net(ToOuch) /\ Within(pos_wr.net)
  BY DEF Charged
<1>5. pos_mem \in [{Sym} -> Int] /\ pos_wr.net \in Int
  BY <1>4 DEF Charged, Within
<1>6. pos_mem' = [pos_mem EXCEPT ![Sym] = pos_wr.net]
  BY <1>4, RiskMoves
<1>7. pos_mem' \in [{Sym} -> Int] /\ pos_mem'[Sym] = pos_wr.net
  BY <1>5, <1>6
<1>8. sent' = pos_wr.net
  BY <1>1, <1>4
<1>9. Within(sent)'
  BY <1>4, <1>8 DEF Within
<1>10. Sym' = Sym
  BY DEF Sym
<1> QED
  BY <1>3, <1>7, <1>8, <1>9, <1>10 DEF Charged

\* Any other edge: nothing is sent, and the order that comes out, if one does,
\* is charged to what was sent before it.
LEMMA ChargeOne ==
  ASSUME SameShares, Sane, Types, OneAtATime, HeldOk, NodesOk, NodesOk', PipeMatches, Charged,
         NEW tready, Clock(tready), ~Risk!risk_pass,
         sent' = IF Taken THEN sent + Net(ToOuch) ELSE sent
  PROVE  Charged'
<1>0. Sym' = Sym
  BY DEF Sym
<1>1. sent' = sent /\ pos_wr = None /\ pos_mem[Sym] = sent /\ pos_mem' = pos_mem
  BY RiskMoves DEF Charged, Taken, ToOuch
<1>2. Within(sent)' /\ pos_mem' \in [{Sym'} -> Int] /\ pos_mem'[Sym'] = sent'
  BY <1>0, <1>1 DEF Charged, Within
<1>3. ASSUME pipe'[4] # None PROVE pos_rd_data' = sent'
  <2>1. pipe[3] # None
    BY <1>3, RiskMoves
  <2>2. pipe[3].sym = Sym
    BY <2>1 DEF PipeMatches, Matches
  <2> QED
    BY <1>1, <2>1, <2>2, RiskMoves
<1>4. ASSUME pipe'[5] # None PROVE new_net_r' = Risk!NewNet(pipe'[5], sent')
  <2>1. pipe[4] # None /\ pipe'[5] = pipe[4]
    BY <1>4, RiskMoves
  <2>2. pos_rd_data = sent
    BY <2>1 DEF Charged
  <2> QED
    BY <1>1, <2>1, <2>2, RiskMoves
<1>5. CASE Risk!Decide(pipe[5], new_net_r) # "pass"
  <2>1. ~Risk!risk_pass' /\ pos_wr' = None
    BY <1>5, RiskMoves DEF Risk!risk_pass, Risk!WriteBack
  <2> QED
    BY <1>2, <1>3, <1>4, <2>1 DEF Charged
<1>6. CASE Risk!Decide(pipe[5], new_net_r) = "pass"
  <2>1. /\ new_net_r = sent + Net(pipe[5]) /\ Within(new_net_r)
        /\ Risk!Signed(new_net_r, PosHalf) = new_net_r
    BY <1>6, PassedFits
  <2>2. pipe[5] # None
    BY <1>6 DEF Risk!Decide
  <2>3. Risk!risk_pass'
    BY <1>6, RiskMoves DEF Risk!risk_pass
  <2>4. pos_wr' = [sym |-> pipe[5].sym, net |-> new_net_r]
    BY <1>6, <2>1, RiskMoves DEF Risk!WriteBack
  <2>5. Matches(pipe[5])
    BY <2>2 DEF PipeMatches
  <2>6. pos_wr'.sym = Sym' /\ pos_wr'.net = new_net_r
    BY <1>0, <2>4, <2>5 DEF Matches
  <2>7. pos_wr' # None
    <3>1. pos_wr' \in [sym : {0}, net : Int]
      BY <2>1, <2>4, <2>5 DEF Within, Matches, Sym
    <3> QED
      BY <3>1, TopAssumption
  <2>8. held' = held
    <3>1. Hit = None
      BY <2>2, HitIsAlone DEF Places, Clear
    <3> QED
      BY <3>1 DEF Clock, Path, HeldNext
  <2>9. Net(ToOuch') = Net(pipe[5])
    <3>1. ToOuch' = [sym |-> Sym', side |-> held'.side, price |-> held'.price, shares |-> Shares[best'.id]]
      BY <2>3 DEF ToOuch, risk_proposed_shares
    <3>2. ToOuch'.side = held'.side /\ ToOuch'.shares = Shares[best'.id]
      BY <3>1, OrderFields
    <3>3. Shares[best'.id] = pipe[5].shares
      BY <2>5 DEF Matches, SameShares, NodesOk
    <3>4. held'.side = pipe[5].side
      BY <2>5, <2>8 DEF Matches
    <3> QED
      BY <3>2, <3>3, <3>4 DEF Net
  <2>10. pos_wr'.net = sent' + Net(ToOuch')
    BY <1>1, <2>1, <2>6, <2>9
  <2>11. Within(pos_wr'.net)
    BY <2>1, <2>6
  <2>12. Net(ToOuch') = Net(ToOuch)' /\ (Within(pos_wr'.net) <=> Within(pos_wr.net)')
    BY DEF Net, Within
  <2> QED
    BY <1>2, <1>3, <1>4, <2>3, <2>6, <2>7, <2>10, <2>11, <2>12 DEF Charged
<1> QED
  BY <1>5, <1>6

\* rst keeps the position memory and stores the write-back that is on its way.
LEMMA ChargeReset ==
  ASSUME Charged, Reset, sent' = Position
  PROVE  Charged'
<1>1. /\ pipe' = [i \in 1 .. 5 |-> None] /\ pos_wr' = None /\ verdict'.is = "none"
      /\ pos_mem' = IF pos_wr = None THEN pos_mem ELSE [pos_mem EXCEPT ![pos_wr.sym] = pos_wr.net]
  BY DEF Reset, Risk!Reset, Risk!Stages
<1>2. ~Risk!risk_pass' /\ pipe'[4] = None /\ pipe'[5] = None
  BY <1>1 DEF Risk!risk_pass
<1>3. pos_mem' \in [{Sym} -> Int] /\ pos_mem'[Sym] = Position /\ Within(Position)
  <2>1. CASE pos_wr = None
    <3>1. ~Risk!risk_pass
      BY <2>1 DEF Charged
    <3> QED
      BY <1>1, <2>1, <3>1 DEF Charged, Position
  <2>2. CASE pos_wr # None
    <3>1. pos_wr.sym = Sym /\ Within(pos_wr.net)
      BY <2>2 DEF Charged
    <3>2. pos_mem \in [{Sym} -> Int] /\ pos_wr.net \in Int
      BY <3>1 DEF Charged, Within
    <3>3. pos_mem' = [pos_mem EXCEPT ![Sym] = pos_wr.net]
      BY <1>1, <2>2, <3>1
    <3>4. pos_mem' \in [{Sym} -> Int] /\ pos_mem'[Sym] = pos_wr.net
      BY <3>2, <3>3
    <3> QED
      BY <2>2, <3>1, <3>4 DEF Position
  <2> QED
    BY <2>1, <2>2
<1>4. Within(sent)' /\ Sym' = Sym
  BY <1>3 DEF Within, Sym
<1> QED
  BY <1>1, <1>2, <1>3, <1>4 DEF Charged

LEMMA ChargeStep ==
  ASSUME SameShares, Sane, ChargeInv, [FeedNext]_feedVars
  PROVE  ChargeInv'
<1>1. PassInv /\ PassInv' /\ HeldOk /\ HeldOk'
  BY PassStep, HeldOkStep DEF ChargeInv, PassInv, CalmInv
<1>2. CASE UNCHANGED feedVars
  BY <1>1, <1>2 DEF ChargeInv, Charged, Within, Net, ToOuch, risk_proposed_shares, Risk!risk_pass,
                    Sym, feedVars, vars, pathVars, arbVars, riskVars
<1>3. CASE FeedReset
  <2>1. Reset /\ calm' = calm /\ (calm => sent' = Position)
    BY <1>3 DEF FeedReset
  <2> QED
    BY <1>1, <2>1, ChargeReset DEF ChargeInv
<1>4. ASSUME NEW tready \in BOOLEAN, Cycle(tready), calm' PROVE Charged'
  <2>1. Clock(tready) /\ calm /\ sent' = IF Taken THEN sent + Net(ToOuch) ELSE sent
    BY <1>4 DEF Cycle
  <2>2. Types /\ OneAtATime /\ NodesOk /\ NodesOk' /\ PipeMatches /\ Charged
    BY <1>1, <2>1 DEF ChargeInv, PassInv, CalmInv
  <2> QED
    BY <1>1, <2>1, <2>2, StoreStep, ChargeOne
<1> QED
  BY <1>1, <1>2, <1>3, <1>4 DEF FeedNext, ReadyCycle, StallCycle, ChargeInv

\* The position the risk check stores is the net quantity of the orders that
\* the OUCH engine has taken: none that passed comes to an engine still busy
\* with another.
THEOREM ChargedIsSentAlways ==
  ASSUME SameShares, Sane PROVE FeedSpec => []ChargedIsSent
<1>1. ChargeInv => ChargedIsSent
  BY DEF ChargeInv, Charged, ChargedIsSent, Position
<1>2. ChargeInv /\ [FeedNext]_feedVars => ChargeInv'
  BY ChargeStep
<1> QED
  BY <1>1, <1>2, ChargeInit, PTL DEF FeedSpec

\* The net quantity of the orders that have left is within the position limit.
THEOREM SentWithinLimit ==
  ASSUME SameShares, Sane PROVE FeedSpec => [](calm => Within(sent))
<1>1. ChargeInv => (calm => Within(sent))
  BY DEF ChargeInv, Charged
<1>2. ChargeInv /\ [FeedNext]_feedVars => ChargeInv'
  BY ChargeStep
<1> QED
  BY <1>1, <1>2, ChargeInit, PTL DEF FeedSpec

-----------------------------------------------------------------------------
(* The tournament: what three of its edges make of the scores of eight     *)
(* cores.                                                                  *)

\* What the cores may present: any scores, any valid bits, any sides.
Inputs == [Arb!Cores -> [score : Nat, valid : BOOLEAN, side : {0, 1}]]

\* Node w is the first maximum of the cores in S.
Wins(w, cores, thresh, S) ==
  LET In(k) == cores[k].valid /\ cores[k].score >= thresh
  IN  /\ w.id \in S
      /\ w.score = cores[w.id].score /\ w.side = cores[w.id].side
      /\ w.valid = In(w.id)
      /\ w.valid => \A k \in S : In(k) => /\ cores[k].score <= w.score
                                          /\ k < w.id => cores[k].score < w.score
      /\ ~w.valid => \A k \in S : ~In(k)

\* A leaf is the first maximum of its core alone.
LEMMA LeafWins ==
  ASSUME NEW cores \in Inputs, NEW thresh \in Nat, NEW k \in Arb!Cores
  PROVE  Wins(Arb!Leaf(cores, thresh, k), cores, thresh, {k})
BY SMT DEF Wins, Arb!Leaf, Arb!Gated, Inputs, Arb!Cores

\* One comparison merges two groups of cores, the first of them before the
\* second.
LEMMA PlayWins ==
  ASSUME NEW cores \in Inputs, NEW thresh \in Nat,
         NEW S \in SUBSET Arb!Cores, NEW T \in SUBSET Arb!Cores,
         \A i \in S, j \in T : i < j,
         NEW a, NEW b, Wins(a, cores, thresh, S), Wins(b, cores, thresh, T)
  PROVE  Wins(Arb!Play(a, b), cores, thresh, S \cup T)
<1> DEFINE In(k) == cores[k].valid /\ cores[k].score >= thresh
<1>1. \A k \in Arb!Cores : cores[k].score \in Nat /\ cores[k].valid \in BOOLEAN
  BY DEF Inputs
<1>2. a.id \in S /\ b.id \in T /\ S \subseteq Nat /\ T \subseteq Nat
  BY DEF Wins, Arb!Cores
<1>3. CASE Arb!SecondWins(a, b)
  <2>1. Arb!Play(a, b) = b /\ b.valid /\ (a.valid => a.score < b.score)
    BY <1>3 DEF Arb!Play, Arb!SecondWins
  <2>2. ASSUME NEW k \in S \cup T, In(k)
        PROVE  cores[k].score <= b.score /\ (k < b.id => cores[k].score < b.score)
    <3>1. CASE k \in T
      BY <2>1, <2>2, <3>1 DEF Wins
    <3>2. CASE k \in S
      <4>1. a.valid
        BY <2>2, <3>2 DEF Wins
      <4>2. cores[k].score <= a.score /\ a.score < b.score
        BY <2>1, <2>2, <3>2, <4>1 DEF Wins
      <4>3. a.score \in Nat /\ b.score \in Nat /\ cores[k].score \in Nat
        BY <1>1, <1>2, <3>2 DEF Wins
      <4> QED BY <4>2, <4>3
    <3> QED BY <3>1, <3>2
  <2> QED BY <2>1, <2>2 DEF Wins
<1>4. CASE ~Arb!SecondWins(a, b)
  <2>1. Arb!Play(a, b) = a
    BY <1>4 DEF Arb!Play
  <2>2. CASE a.valid
    <3>1. a.score \in Nat /\ b.score \in Nat
      BY <1>1, <1>2 DEF Wins
    <3>2. b.valid => b.score <= a.score
      BY <1>4, <2>2, <3>1 DEF Arb!SecondWins
    <3>3. ASSUME NEW k \in S \cup T, In(k)
          PROVE  cores[k].score <= a.score /\ (k < a.id => cores[k].score < a.score)
      <4>1. CASE k \in S
        BY <2>2, <3>3, <4>1 DEF Wins
      <4>2. CASE k \in T
        <5>1. a.id < k /\ a.id \in Nat /\ k \in Nat
          BY <1>2, <4>2
        <5>2. b.valid
          BY <3>3, <4>2 DEF Wins
        <5>3. cores[k].score <= b.score /\ cores[k].score \in Nat
          BY <1>1, <3>3, <4>2, <5>2 DEF Wins
        <5> QED BY <3>1, <3>2, <5>1, <5>2, <5>3
      <4> QED BY <4>1, <4>2
    <3> QED BY <2>1, <2>2, <3>3 DEF Wins
  <2>3. CASE ~a.valid
    <3>1. ~b.valid
      BY <1>4, <2>3 DEF Arb!SecondWins
    <3> QED BY <2>1, <2>3, <3>1 DEF Wins
  <2> QED BY <2>2, <2>3
<1> QED BY <1>3, <1>4

\* Each half of the tree finds the first maximum of its four cores.
LEMMA HalfWins ==
  ASSUME NEW cores \in Inputs, NEW thresh \in Nat, NEW h \in {0, 1}
  PROVE  Wins(Arb!Half(cores, thresh, h), cores, thresh, 4 * h .. 4 * h + 3)
<1> DEFINE L(k) == Arb!Leaf(cores, thresh, 4 * h + k)
<1>1. \A k \in 0 .. 3 : 4 * h + k \in Arb!Cores
  BY DEF Arb!Cores
<1>2. Wins(L(0), cores, thresh, {4 * h}) /\ Wins(L(1), cores, thresh, {4 * h + 1})
      /\ Wins(L(2), cores, thresh, {4 * h + 2}) /\ Wins(L(3), cores, thresh, {4 * h + 3})
  <2>1. 4 * h + 0 = 4 * h
    OBVIOUS
  <2> QED BY <1>1, <2>1, LeafWins
<1>3. Wins(Arb!Play(L(0), L(1)), cores, thresh, {4 * h} \cup {4 * h + 1})
  <2>1. {4 * h} \in SUBSET Arb!Cores /\ {4 * h + 1} \in SUBSET Arb!Cores
        /\ \A i \in {4 * h}, j \in {4 * h + 1} : i < j
    BY DEF Arb!Cores
  <2> HIDE DEF L
  <2> QED BY <1>2, <2>1, PlayWins
<1>4. Wins(Arb!Play(L(2), L(3)), cores, thresh, {4 * h + 2} \cup {4 * h + 3})
  <2>1. {4 * h + 2} \in SUBSET Arb!Cores /\ {4 * h + 3} \in SUBSET Arb!Cores
        /\ \A i \in {4 * h + 2}, j \in {4 * h + 3} : i < j
    BY DEF Arb!Cores
  <2> HIDE DEF L
  <2> QED BY <1>2, <2>1, PlayWins
<1> DEFINE S == {4 * h} \cup {4 * h + 1}
           T == {4 * h + 2} \cup {4 * h + 3}
<1>5. S \in SUBSET Arb!Cores /\ T \in SUBSET Arb!Cores /\ \A i \in S, j \in T : i < j
  BY DEF Arb!Cores
<1>6. S \cup T = 4 * h .. 4 * h + 3
  OBVIOUS
<1>7. Arb!Half(cores, thresh, h) = Arb!Play(Arb!Play(L(0), L(1)), Arb!Play(L(2), L(3)))
  BY DEF Arb!Half
<1>8. Wins(Arb!Play(Arb!Play(L(0), L(1)), Arb!Play(L(2), L(3))), cores, thresh, S \cup T)
  <2> HIDE DEF L, S, T
  <2>1. Wins(Arb!Play(L(0), L(1)), cores, thresh, S)
    BY <1>3 DEF S
  <2>2. Wins(Arb!Play(L(2), L(3)), cores, thresh, T)
    BY <1>4 DEF T
  <2> QED BY <1>5, <2>1, <2>2, PlayWins
<1> QED BY <1>6, <1>7, <1>8

\* The tree picks the first of the highest scores that reach the threshold,
\* whatever the scores, and picks none only if none does.
THEOREM WinnerIsFirstMaximum ==
  ASSUME NEW cores \in Inputs, NEW thresh \in Nat
  PROVE  Arb!IsFirstMaximum(Arb!Winner(cores, thresh), cores, thresh)
<1> DEFINE w == Arb!Winner(cores, thresh)
<1>1. Wins(w, cores, thresh, (0 .. 3) \cup (4 .. 7))
  <2>1. Wins(Arb!Half(cores, thresh, 0), cores, thresh, 0 .. 3)
    <3>1. Wins(Arb!Half(cores, thresh, 0), cores, thresh, 4 * 0 .. 4 * 0 + 3)
      BY HalfWins
    <3> QED BY <3>1
  <2>2. Wins(Arb!Half(cores, thresh, 1), cores, thresh, 4 .. 7)
    <3>1. Wins(Arb!Half(cores, thresh, 1), cores, thresh, 4 * 1 .. 4 * 1 + 3)
      BY HalfWins
    <3> QED BY <3>1
  <2>3. 0 .. 3 \in SUBSET Arb!Cores /\ 4 .. 7 \in SUBSET Arb!Cores
        /\ \A i \in 0 .. 3, j \in 4 .. 7 : i < j
    BY DEF Arb!Cores
  <2> QED BY <2>1, <2>2, <2>3, PlayWins DEF Arb!Winner
<1>2. Wins(w, cores, thresh, Arb!Cores)
  <2>1. (0 .. 3) \cup (4 .. 7) = Arb!Cores
    BY DEF Arb!Cores
  <2> QED BY <1>1, <2>1
<1> HIDE DEF w
<1>3. w.id \in Arb!Cores /\ cores[w.id].valid \in BOOLEAN
  BY <1>2 DEF Wins, Inputs
<1>4. w.valid = (cores[w.id].valid /\ cores[w.id].score >= thresh)
  BY <1>2 DEF Wins
<1>5. ASSUME w.valid PROVE Arb!IsFirstMaximum(w, cores, thresh)
  BY <1>2, <1>3, <1>4, <1>5 DEF Wins, Arb!IsFirstMaximum
<1>6. ASSUME ~w.valid PROVE Arb!IsFirstMaximum(w, cores, thresh)
  <2>1. \A k \in Arb!Cores : ~(cores[k].valid /\ cores[k].score >= thresh)
    BY <1>2, <1>6 DEF Wins
  <2> QED BY <1>6, <2>1, Zenon DEF Arb!IsFirstMaximum
<1>7. Arb!IsFirstMaximum(w, cores, thresh)
  BY <1>5, <1>6
<1> QED BY <1>7 DEF w
=============================================================================
