----------------------------- MODULE CoreProofs -----------------------------
(***************************************************************************)
(* The sequencer and the dot-product engine, for any vectors and weights,  *)
(* weights written and rst in any cycle, and every VecLen the engine is    *)
(* made for.                                                               *)
(***************************************************************************)
EXTENDS LliuCore, TLAPS, FiniteSetTheorems

-----------------------------------------------------------------------------
(* Sums of products.                                                       *)

\* What is fed for vector v.
Fed(v) == [feature : [vector : {v}, elem : Elements],
           weight : [addr : Elements, weight : Weights]]

\* A product of element e of vector v with the weight of its index.
Of(v, p, e) == p \in Fed(v) /\ p.feature.elem = e /\ p.weight.addr = e

\* SumsUp for vector v.
Sums(v, s, E) ==
  /\ s \in Seq(Fed(v)) /\ Len(s) = Cardinality(E)
  /\ {s[i].feature.elem : i \in DOMAIN s} = E
  /\ \A i \in DOMAIN s : s[i].weight.addr = s[i].feature.elem

LEMMA FedOf ==
  ASSUME NEW v, NEW p \in Fed(v)
  PROVE  p.feature.vector = v /\ p.feature.elem \in Elements
BY DEF Fed

LEMMA SumsIsSumsUp ==
  ASSUME NEW s, NEW E, Sums(feat_latch, s, E)
  PROVE  SumsUp(s, E)
<1> DEFINE summands == {s[i] : i \in DOMAIN s}
<1>1. \A p \in summands : p \in Fed(feat_latch)
  BY DEF Sums
<1>2. \A p \in summands : p.feature.vector = feat_latch /\ p.weight.addr = p.feature.elem
  BY <1>1, FedOf DEF Sums
<1>3. {p.feature.elem : p \in summands} = E
  BY DEF Sums
<1> QED
  BY <1>2, <1>3 DEF Sums, SumsUp

LEMMA SumsOne ==
  ASSUME NEW v, NEW s, NEW E, IsFiniteSet(E), Sums(v, s, E), NEW e, e \notin E,
         NEW p, Of(v, p, e)
  PROVE  Sums(v, s \o <<p>>, E \cup {e})
<1> DEFINE r == s \o <<p>>
<1>1. s \in Seq(Fed(v)) /\ p \in Fed(v) /\ Len(s) \in Nat
  BY DEF Sums, Of
<1>2. r \in Seq(Fed(v)) /\ Len(r) = Len(s) + 1 /\ DOMAIN r = 1 .. Len(s) + 1
  BY <1>1
<1>3. (\A i \in 1 .. Len(s) : r[i] = s[i]) /\ r[Len(s) + 1] = p
  BY <1>1
<1>4. DOMAIN s = 1 .. Len(s)
  BY <1>1
<1>5. Len(r) = Cardinality(E \cup {e})
  <2>1. Cardinality(E \cup {e}) = Cardinality(E) + 1
    BY FS_AddElement
  <2> QED
    BY <1>2, <2>1 DEF Sums
<1> HIDE DEF r
<1>6. {r[i].feature.elem : i \in DOMAIN r} = E \cup {e}
  <2>1. ASSUME NEW i \in DOMAIN r PROVE r[i].feature.elem \in E \cup {e}
    BY <1>1, <1>2, <1>3, <1>4 DEF Sums, Of
  <2>2. ASSUME NEW x \in E \cup {e} PROVE \E i \in DOMAIN r : r[i].feature.elem = x
    <3>1. CASE x = e
      BY <1>1, <1>2, <1>3, <3>1 DEF Of
    <3>2. CASE x \in E
      <4>1. PICK i \in DOMAIN s : s[i].feature.elem = x
        BY <3>2 DEF Sums
      <4> QED
        BY <1>1, <1>2, <1>3, <1>4, <4>1
    <3> QED
      BY <3>1, <3>2
  <2> QED
    BY <2>1, <2>2
<1>7. \A i \in DOMAIN r : r[i].weight.addr = r[i].feature.elem
  BY <1>1, <1>2, <1>3, <1>4 DEF Sums, Of
<1>8. Sums(v, r, E \cup {e})
  BY <1>2, <1>5, <1>6, <1>7 DEF Sums
<1> QED
  BY <1>8 DEF r

LEMMA SumsNone == ASSUME NEW v PROVE Sums(v, <<>>, {})
<1>1. Cardinality({}) = 0
  BY FS_EmptySet
<1> QED
  BY <1>1 DEF Sums

-----------------------------------------------------------------------------
(* One accumulator.  t counts the edges since the vector was taken: 0 when *)
(* idle, Latency when the result is valid.  Element e enters an accumulator *)
(* at edge e + 5 and is in its register from e + 11 on; the next element of *)
(* the same accumulator comes five edges later, when the sum with e is at   *)
(* the output of the adder and is fed back from there.                     *)

Times == 0 .. Latency

\* Accumulator k's elements that have come d edges far by t.
Reached(k, d, t) == {e \in Elements : e % 5 = k /\ e + d <= t}

\* The element in stage i at t is one of accumulator k.
Inside(k, i, t) == t - (5 + i) \in Elements /\ (t - (5 + i)) % 5 = k

\* Accumulator k is a: what has reached a stage is summed up there.
AccIs(v, a, k, t) ==
  /\ \A i \in 1 .. 5 : a.en[i] <=> Inside(k, i, t)
  /\ \A i \in 1 .. 4 : a.en[i] => Sums(v, a.stage[i], Reached(k, 5 + i, t))
  /\ a.en[5] => Sums(v, a.partial, Reached(k, 10, t))
  /\ Sums(v, a.reg, Reached(k, 11, t))

LEMMA Sizes ==
  /\ VecLen \in 4 .. 32 /\ Elements = 0 .. VecLen - 1
  /\ NumAccsUsed \in {4, 5} /\ DrainLastEn \in {12, 16}
  /\ DrainLastEn = (NumAccsUsed - 1) * 4 /\ DrainExit = DrainLastEn + 5
  /\ Latency = VecLen + 10 + DrainExit
BY VecLenAssumption DEF Elements, NumAccsUsed, DrainLastEn, DrainExit, Latency, MergeStep

LEMMA ReachedIsFinite ==
  ASSUME NEW k, NEW d, NEW t PROVE IsFiniteSet(Reached(k, d, t))
<1>1. IsFiniteSet(Elements)
  <2>1. IsFiniteSet(0 .. VecLen - 1)
    BY Sizes, FS_Interval
  <2> QED
    BY <2>1, Sizes
<1>2. Reached(k, d, t) \subseteq Elements
  BY DEF Reached
<1> QED
  BY <1>1, <1>2, FS_Subset

\* One edge on, one edge farther.
LEMMA ReachedMoves ==
  ASSUME NEW k \in Accs, NEW t \in Nat, NEW u \in Nat, u = t + 1, NEW d \in 0 .. 20, NEW f \in 0 .. 20, f = d + 1
  PROVE  Reached(k, d, t) = Reached(k, f, u)
BY Sizes DEF Reached

\* The next element follows five behind the last.
LEMMA ReachedNext ==
  ASSUME NEW k \in Accs, NEW t \in Nat, NEW u \in Nat, u = t + 1,
         NEW e \in Elements, e = t - 5, e % 5 = k
  PROVE  Reached(k, 10, t) \cup {e} = Reached(k, 6, u) /\ e \notin Reached(k, 10, t)
BY Sizes, SMT DEF Reached, Accs

\* Where none is at the adder's output, the register holds all that were.
LEMMA ReachedNone ==
  ASSUME NEW k \in Accs, NEW t \in Nat, ~Inside(k, 5, t)
  PROVE  Reached(k, 11, t) = Reached(k, 10, t)
<1>1. ASSUME NEW e \in Elements, e % 5 = k, e + 10 <= t PROVE e + 11 <= t
  <2>1. e # t - (5 + 5)
    BY <1>1 DEF Inside
  <2> QED
    BY <1>1, <2>1, Sizes
<1> QED
  BY <1>1, Sizes DEF Reached

\* An accumulator that is given element t - 5, if it is its, keeps its sums.
LEMMA AccKeeps ==
  ASSUME NEW v, NEW k \in Accs, NEW t \in Nat, NEW u \in Nat, u = t + 1,
         NEW a, AccIs(v, a, k, t), NEW acc_en, NEW addend,
         acc_en <=> t - 5 \in Elements /\ (t - 5) % 5 = k,
         acc_en => \E p : addend = <<p>> /\ Of(v, p, t - 5)
  PROVE  AccIs(v, AccStep(a, acc_en, addend, FALSE), k, u)
<1> DEFINE b == AccStep(a, acc_en, addend, FALSE)
<1>1. /\ b.en = [i \in 1 .. 5 |-> IF i = 1 THEN acc_en ELSE a.en[i - 1]]
      /\ b.stage = [i \in 1 .. 4 |->
           IF i = 1 THEN IF acc_en THEN Feedback(a) \o addend ELSE a.stage[1]
           ELSE IF a.en[i - 1] THEN a.stage[i - 1] ELSE a.stage[i]]
      /\ b.partial = IF a.en[4] THEN a.stage[4] ELSE a.partial
      /\ b.reg = IF a.en[5] THEN a.partial ELSE a.reg
  BY DEF AccStep
<1> HIDE DEF b
<1>2. ASSUME NEW i \in 1 .. 5 PROVE b.en[i] <=> Inside(k, i, u)
  <2>1. CASE i = 1
    <3>1. b.en[i] = acc_en
      BY <1>1, <2>1, Zenon
    <3>2. u - (5 + i) = t - 5
      BY <2>1
    <3> QED
      BY <3>1, <3>2, Zenon DEF Inside
  <2>2. CASE i # 1
    <3>1. PICK j \in 1 .. 4 : j = i - 1
      BY <2>2
    <3>2. b.en[i] = a.en[j]
      BY <1>1, <2>2, <3>1, Zenon
    <3>3. u - (5 + i) = t - (5 + j) /\ j \in 1 .. 5
      BY <3>1
    <3>4. a.en[j] <=> Inside(k, j, t)
      BY <3>3 DEF AccIs
    <3>5. Inside(k, j, t) <=> Inside(k, i, u)
      BY <3>3, Zenon DEF Inside
    <3> QED
      BY <3>2, <3>4, <3>5, Zenon
  <2> QED
    BY <2>1, <2>2
<1>3. ASSUME NEW i \in 1 .. 4, b.en[i] PROVE Sums(v, b.stage[i], Reached(k, 5 + i, u))
  <2>1. CASE i = 1
    <3>1. acc_en
      <4>1. i \in 1 .. 5
        OBVIOUS
      <4>2. b.en[i] = acc_en
        BY <1>1, <2>1, <4>1, Zenon
      <4> QED
        BY <1>3, <4>2, Zenon
    <3>2. PICK p : addend = <<p>> /\ Of(v, p, t - 5)
      BY <3>1
    <3>3. PICK e \in Elements : e = t - 5
      BY <3>1
    <3>4. e % 5 = k
      BY <3>1, <3>3, Zenon
    <3>5. Sums(v, Feedback(a), Reached(k, 10, t))
      <4>1. CASE a.en[5]
        BY <4>1 DEF Feedback, AccIs
      <4>2. CASE ~a.en[5]
        <5>1. ~Inside(k, 5, t)
          BY <4>2 DEF AccIs
        <5>2. Reached(k, 11, t) = Reached(k, 10, t)
          BY <5>1, ReachedNone
        <5> QED
          BY <4>2, <5>2, Zenon DEF Feedback, AccIs
      <4> QED
        BY <4>1, <4>2
    <3>6. Reached(k, 10, t) \cup {e} = Reached(k, 6, u) /\ e \notin Reached(k, 10, t)
      BY <3>3, <3>4, ReachedNext
    <3>7. Sums(v, Feedback(a) \o <<p>>, Reached(k, 10, t) \cup {e})
      BY <3>2, <3>3, <3>5, <3>6, SumsOne, ReachedIsFinite, Zenon
    <3>8. b.stage[i] = Feedback(a) \o <<p>>
      BY <1>1, <2>1, <3>1, <3>2, Zenon
    <3>9. 5 + i = 6
      BY <2>1
    <3> QED
      BY <3>6, <3>7, <3>8, <3>9, Zenon
  <2>2. CASE i # 1
    <3>1. PICK j \in 1 .. 4 : j = i - 1
      BY <2>2
    <3>2. i \in 1 .. 5
      OBVIOUS
    <3>3. b.en[i] = a.en[j]
      BY <1>1, <2>2, <3>1, <3>2, Zenon
    <3>4. a.en[j]
      BY <1>3, <3>3, Zenon
    <3>5. b.stage[i] = a.stage[j]
      BY <1>1, <2>2, <3>1, <3>4, Zenon
    <3>6. Sums(v, a.stage[j], Reached(k, 5 + j, t))
      BY <3>4 DEF AccIs
    <3>7. Reached(k, 5 + j, t) = Reached(k, 5 + i, u)
      <4>1. 5 + j \in 0 .. 20 /\ 5 + i \in 0 .. 20 /\ 5 + i = (5 + j) + 1
        BY <3>1
      <4> QED
        BY <4>1, ReachedMoves
    <3> QED
      BY <3>5, <3>6, <3>7, Zenon
  <2> QED
    BY <2>1, <2>2
<1>4. ASSUME b.en[5] PROVE Sums(v, b.partial, Reached(k, 10, u))
  <2>1. b.en[5] = a.en[4]
    <3>1. 5 \in 1 .. 5 /\ 5 # 1 /\ 5 - 1 = 4
      OBVIOUS
    <3>2. b.en[5] = IF 5 = 1 THEN acc_en ELSE a.en[5 - 1]
      BY <1>1, <3>1, Zenon
    <3>3. b.en[5] = a.en[5 - 1]
      BY <3>1, <3>2, Zenon
    <3> QED
      BY <3>1, <3>3, Zenon
  <2>2. a.en[4]
    BY <1>4, <2>1, Zenon
  <2>3. b.partial = a.stage[4]
    BY <1>1, <2>2, Zenon
  <2>4. Sums(v, a.stage[4], Reached(k, 9, t))
    <3>1. 4 \in 1 .. 4 /\ 5 + 4 = 9
      OBVIOUS
    <3> QED
      BY <2>2, <3>1, Zenon DEF AccIs
  <2>5. Reached(k, 9, t) = Reached(k, 10, u)
    BY ReachedMoves
  <2> QED
    BY <2>3, <2>4, <2>5, Zenon
<1>5. Sums(v, b.reg, Reached(k, 11, u))
  <2>1. Reached(k, 10, t) = Reached(k, 11, u)
    BY ReachedMoves
  <2>2. CASE a.en[5]
    BY <1>1, <2>1, <2>2, Zenon DEF AccIs
  <2>3. CASE ~a.en[5]
    <3>1. ~Inside(k, 5, t)
      BY <2>3 DEF AccIs
    <3>2. Reached(k, 11, t) = Reached(k, 10, t)
      BY <3>1, ReachedNone
    <3> QED
      BY <1>1, <2>1, <2>3, <3>2, Zenon DEF AccIs
  <2> QED
    BY <2>2, <2>3
<1>6. AccIs(v, b, k, u)
  BY <1>2, <1>3, <1>4, <1>5, Zenon DEF AccIs
<1> QED
  BY <1>6 DEF b

LEMMA ClearedFields ==
  /\ ClearedAcc.en = [i \in 1 .. 5 |-> FALSE] /\ ClearedAcc.stage = [i \in 1 .. 4 |-> <<>>]
  /\ ClearedAcc.partial = <<>> /\ ClearedAcc.reg = <<>>
BY DEF ClearedAcc, Zero

LEMMA ClearedIs ==
  ASSUME NEW v, NEW k \in Accs PROVE AccIs(v, ClearedAcc, k, 3)
<1>1. \A i \in 1 .. 5 : ~ClearedAcc.en[i]
  BY ClearedFields, Zenon
<1>2. \A i \in 1 .. 5 : ~Inside(k, i, 3)
  BY Sizes DEF Inside
<1>3. Reached(k, 11, 3) = {}
  BY Sizes DEF Reached
<1>4. \A i \in 1 .. 4 : ~ClearedAcc.en[i]
  BY <1>1
<1>5. ~ClearedAcc.en[5]
  BY <1>1
<1> QED
  BY <1>1, <1>2, <1>3, <1>4, <1>5, SumsNone, ClearedFields, Zenon DEF AccIs

\* Nothing in an accumulator was multiplied for another vector.
Fresh(v, a) ==
  /\ a.stage \in [1 .. 4 -> Seq(Fed(v))]
  /\ a.partial \in Seq(Fed(v)) /\ a.reg \in Seq(Fed(v))

LEMMA ClearedIsFresh == ASSUME NEW v PROVE Fresh(v, ClearedAcc)
<1>1. <<>> \in Seq(Fed(v))
  OBVIOUS
<1> QED
  BY <1>1, ClearedFields DEF Fresh

LEMMA FreshKeeps ==
  ASSUME NEW v, NEW a, Fresh(v, a), NEW acc_en, NEW addend,
         acc_en => addend \in Seq(Fed(v))
  PROVE  Fresh(v, AccStep(a, acc_en, addend, FALSE))
<1> DEFINE b == AccStep(a, acc_en, addend, FALSE)
           S == Seq(Fed(v))
<1>1. /\ b.stage = [i \in 1 .. 4 |->
           IF i = 1 THEN IF acc_en THEN Feedback(a) \o addend ELSE a.stage[1]
           ELSE IF a.en[i - 1] THEN a.stage[i - 1] ELSE a.stage[i]]
      /\ b.partial = IF a.en[4] THEN a.stage[4] ELSE a.partial
      /\ b.reg = IF a.en[5] THEN a.partial ELSE a.reg
  BY DEF AccStep
<1>2. acc_en => Feedback(a) \o addend \in S
  <2> SUFFICES ASSUME acc_en PROVE Feedback(a) \o addend \in S
    OBVIOUS
  <2>1. Feedback(a) \in S
    BY DEF Feedback, Fresh
  <2> QED
    BY <2>1
<1> HIDE DEF b, S
<1>3. a.stage \in [1 .. 4 -> S] /\ a.partial \in S /\ a.reg \in S
  BY DEF Fresh, S
<1>4. b.stage \in [1 .. 4 -> S]
  <2>1. ASSUME NEW i \in 1 .. 4
        PROVE  (IF i = 1 THEN IF acc_en THEN Feedback(a) \o addend ELSE a.stage[1]
                ELSE IF a.en[i - 1] THEN a.stage[i - 1] ELSE a.stage[i]) \in S
    <3>1. CASE i = 1
      <4>1. 1 \in 1 .. 4
        OBVIOUS
      <4> QED
        BY <1>2, <1>3, <3>1, <4>1, Zenon
    <3>2. CASE i # 1
      <4>1. PICK j \in 1 .. 4 : j = i - 1
        BY <3>2
      <4> QED
        BY <1>3, <3>2, <4>1, Zenon
    <3> QED
      BY <3>1, <3>2
  <2> QED
    BY <1>1, <2>1, Zenon
<1>5. b.partial \in S /\ b.reg \in S
  BY <1>1, <1>3
<1>6. Fresh(v, b)
  BY <1>4, <1>5 DEF Fresh, S
<1> QED
  BY <1>6 DEF b

-----------------------------------------------------------------------------
(* The two state machines, edge by edge.                                   *)

\* The sequencer at t.
SeqAt(t) ==
  /\ seq_state = IF t = 0 THEN "IDLE" ELSE IF t = 1 THEN "PRELOAD"
                 ELSE IF t <= VecLen + 1 THEN "FEED" ELSE "WAIT"
  /\ seq_idx = IF t \in 2 .. VecLen + 1 THEN t - 2 ELSE 0
  /\ dp_start <=> t = 1
  /\ dp_feature_valid <=> t - 3 \in Elements
  /\ t - 3 \in Elements => /\ dp_feature_in = [vector |-> feat_latch, elem |-> t - 3]
                           /\ rd_data.addr = t - 3

\* The engine's state machine at t.
DpeAt(t) ==
  /\ state = IF t <= 1 THEN "IDLE" ELSE IF t <= VecLen + 8 THEN "STREAM"
             ELSE IF t < Latency THEN "DRAIN" ELSE "DONE"
  /\ clear <=> t = 2
  /\ t \in 2 .. VecLen + 8 => (mac_last_fed <=> t >= VecLen + 3)
  /\ t \in 2 .. VecLen + 2 => mac_elem = IF t = 2 THEN 0 ELSE t - 3
  /\ t \in VecLen + 3 .. VecLen + 8 => mac_drain = t - (VecLen + 3)
  /\ t \in VecLen + 9 .. Latency - 1 => drain_cnt = t - (VecLen + 9)

\* The time after t, if vector v is offered.
After(t, v) ==
  IF t = 0 THEN IF v = NoVector THEN 0 ELSE 1 ELSE IF t = Latency THEN 0 ELSE t + 1

LEMMA SeqStep ==
  ASSUME NEW t \in Times, SeqAt(t), DpeAt(t), NEW v, Clock(v), NEW u \in Times, u = After(t, v)
  PROVE  SeqAt(u)' /\ (t # 0 => feat_latch' = feat_latch)
                   /\ (t = 0 => feat_latch' = IF v = NoVector THEN feat_latch ELSE v)
<1>1. rd_data'.addr = seq_idx
  BY DEF Clock, WeightRead, ReadAddress
<1>2. result_valid <=> t = Latency
  BY Sizes DEF DpeAt, result_valid, Times
<1>3. CASE t = 0
  <2>1. SeqIdle(v)
    BY <1>3 DEF Clock, SeqAt, SeqPreload, SeqFeed, SeqWait
  <2>2. CASE v = NoVector
    <3>1. u = 0
      BY <1>3, <2>2 DEF After
    <3>2. seq_state' = seq_state /\ seq_idx' = seq_idx /\ feat_latch' = feat_latch /\ ~dp_start' /\ ~dp_feature_valid'
      BY <2>1, <2>2, Zenon DEF SeqIdle
    <3>3. 0 - 3 \notin Elements
      BY Sizes
    <3> QED
      BY <1>3, <2>2, <3>1, <3>2, <3>3, Sizes DEF SeqAt
  <2>3. CASE v # NoVector
    <3>1. u = 1
      BY <1>3, <2>3 DEF After
    <3>2. dp_start' = (v # NoVector)
      BY <2>1, Zenon DEF SeqIdle
    <3>3. seq_state' = "PRELOAD" /\ seq_idx' = 0 /\ feat_latch' = v /\ dp_start' /\ ~dp_feature_valid'
      BY <2>1, <2>3, <3>2, Zenon DEF SeqIdle
    <3>4. 1 - 3 \notin Elements
      BY Sizes
    <3> QED
      BY <1>3, <2>3, <3>1, <3>3, <3>4, Sizes DEF SeqAt
  <2> QED
    BY <2>2, <2>3
<1>4. CASE t = 1
  <2>1. SeqPreload
    BY <1>4 DEF Clock, SeqAt, SeqIdle, SeqFeed, SeqWait
  <2>2. u = 2
    BY <1>4, Sizes DEF After
  <2> QED
    BY <1>4, <2>1, <2>2, Sizes DEF SeqAt, SeqPreload
<1>5. CASE t \in 2 .. VecLen + 1
  <2>1. SeqFeed
    BY <1>5, Sizes DEF Clock, SeqAt, SeqIdle, SeqPreload, SeqWait
  <2>2. u = t + 1 /\ seq_idx = t - 2
    BY <1>5, Sizes DEF After, SeqAt
  <2>3. dp_feature_in' = [vector |-> feat_latch, elem |-> t - 2] /\ dp_feature_valid' /\ ~dp_start'
        /\ feat_latch' = feat_latch
    BY <2>1, <2>2 DEF SeqFeed
  <2>4. CASE t = VecLen + 1
    BY <1>1, <2>1, <2>2, <2>3, <2>4, Sizes DEF SeqAt, SeqFeed, AtLastElement
  <2>5. CASE t # VecLen + 1
    <3>1. seq_idx' = t - 1 /\ seq_state' = "FEED"
      BY <1>5, <2>1, <2>2, <2>5, Sizes DEF SeqFeed, AtLastElement, SeqAt
    <3> QED
      BY <1>1, <1>5, <2>2, <2>3, <2>5, <3>1, Sizes DEF SeqAt
  <2> QED
    BY <2>4, <2>5
<1>6. CASE t \in VecLen + 2 .. Latency
  <2>1. SeqWait
    BY <1>6, Sizes DEF Clock, SeqAt, SeqIdle, SeqPreload, SeqFeed
  <2>2. seq_idx = 0
    BY <1>6, Sizes DEF SeqAt
  <2>3. CASE t = Latency
    <3>1. u = 0
      BY <2>3, Sizes DEF After
    <3> QED
      BY <1>2, <2>1, <2>2, <2>3, <3>1, Sizes DEF SeqAt, SeqWait, SeqWaitOver
  <2>4. CASE t # Latency
    <3>1. u = t + 1 /\ u \in VecLen + 3 .. Latency
      BY <1>6, <2>4, Sizes DEF After
    <3> QED
      BY <1>2, <1>6, <2>1, <2>2, <2>4, <3>1, Sizes DEF SeqAt, SeqWait, SeqWaitOver
  <2> QED
    BY <1>6, <2>3, <2>4, Sizes
<1> QED
  BY <1>3, <1>4, <1>5, <1>6, Sizes DEF Times

LEMMA DpeStep ==
  ASSUME NEW t \in Times, SeqAt(t), DpeAt(t), NEW v, Clock(v), NEW u \in Times, u = After(t, v)
  PROVE  DpeAt(u)'
<1>1. IdleState(dp_start) \/ StreamFeed(dp_feature_valid) \/ StreamDrain \/ DrainState \/ DoneState
  BY DEF Clock, DpeClock
<1>2. CASE t = 0
  <2>1. IdleState(dp_start) /\ ~dp_start
    BY <1>1, <1>2 DEF DpeAt, SeqAt, StreamFeed, StreamDrain, DrainState, DoneState
  <2>2. u = 0 \/ u = 1
    BY <1>2 DEF After
  <2>3. state' = "IDLE" /\ ~clear'
    BY <2>1 DEF IdleState, StartClears
  <2> QED
    BY <2>2, <2>3, Sizes DEF DpeAt
<1>3. CASE t = 1
  <2>0. state = "IDLE" /\ dp_start
    BY <1>3 DEF DpeAt, SeqAt
  <2>1. IdleState(dp_start) /\ dp_start
    BY <1>1, <2>0 DEF StreamFeed, StreamDrain, DrainState, DoneState
  <2>2. u = 2
    BY <1>3, Sizes DEF After
  <2>3. state' = "STREAM" /\ clear' /\ ~mac_last_fed' /\ mac_elem' = 0
    BY <2>1 DEF IdleState, StartClears
  <2> QED
    BY <2>2, <2>3, Sizes DEF DpeAt
<1>4. CASE t \in 2 .. VecLen + 2
  <2>0. u = t + 1 /\ state = "STREAM" /\ ~mac_last_fed /\ mac_elem = IF t = 2 THEN 0 ELSE t - 3
    BY <1>4, Sizes DEF After, DpeAt
  <2>1. StreamFeed(dp_feature_valid)
    BY <1>1, <2>0 DEF IdleState, StreamDrain, DrainState, DoneState
  <2>2. dp_feature_valid <=> t # 2
    BY <1>4, Sizes DEF SeqAt
  <2>3. state' = "STREAM" /\ ~clear'
    BY <2>0, <2>1 DEF StreamFeed
  <2>4. CASE t = 2
    <3>1. mac_elem' = 0 /\ ~mac_last_fed'
      BY <2>0, <2>1, <2>2, <2>4 DEF StreamFeed
    <3> QED
      BY <2>0, <2>3, <2>4, <3>1, Sizes DEF DpeAt
  <2>5. CASE t = VecLen + 2
    <3>1. mac_last_fed' /\ mac_drain' = 0
      BY <2>0, <2>1, <2>2, <2>5, Sizes DEF StreamFeed
    <3> QED
      BY <2>0, <2>3, <2>5, <3>1, Sizes DEF DpeAt
  <2>6. CASE t \in 3 .. VecLen + 1
    <3>1. mac_elem' = t - 2 /\ ~mac_last_fed'
      BY <2>0, <2>1, <2>2, <2>6, Sizes DEF StreamFeed
    <3> QED
      BY <2>0, <2>3, <2>6, <3>1, Sizes DEF DpeAt
  <2> QED
    BY <1>4, <2>4, <2>5, <2>6, Sizes
<1>5. CASE t \in VecLen + 3 .. VecLen + 8
  <2>0. u = t + 1 /\ state = "STREAM" /\ mac_last_fed /\ mac_drain = t - (VecLen + 3)
    BY <1>5, Sizes DEF After, DpeAt
  <2>1. StreamDrain
    BY <1>1, <2>0 DEF IdleState, StreamFeed, DrainState, DoneState
  <2>2. ~clear' /\ mac_last_fed'
    BY <2>0, <2>1 DEF StreamDrain
  <2>3. CASE t = VecLen + 8
    <3>1. state' = "DRAIN" /\ drain_cnt' = 0
      BY <2>0, <2>1, <2>3, Sizes DEF StreamDrain, StreamDrained
    <3> QED
      BY <2>0, <2>2, <2>3, <3>1, Sizes DEF DpeAt
  <2>4. CASE t # VecLen + 8
    <3>1. state' = "STREAM" /\ mac_drain' = t + 1 - (VecLen + 3)
      BY <1>5, <2>0, <2>1, <2>4, Sizes DEF StreamDrain, StreamDrained
    <3> QED
      BY <1>5, <2>0, <2>2, <2>4, <3>1, Sizes DEF DpeAt
  <2> QED
    BY <2>3, <2>4
<1>6. CASE t \in VecLen + 9 .. Latency - 1
  <2>0. u = t + 1 /\ state = "DRAIN" /\ drain_cnt = t - (VecLen + 9)
    BY <1>6, Sizes DEF After, DpeAt
  <2>1. DrainState
    BY <1>1, <2>0 DEF IdleState, StreamFeed, StreamDrain, DoneState
  <2>2. ~clear' /\ drain_cnt' = t + 1 - (VecLen + 9)
    BY <1>6, <2>0, <2>1, Sizes DEF DrainState
  <2>3. state' = IF t = Latency - 1 THEN "DONE" ELSE "DRAIN"
    BY <1>6, <2>0, <2>1, Sizes DEF DrainState
  <2> QED
    BY <1>6, <2>0, <2>2, <2>3, Sizes DEF DpeAt
<1>7. CASE t = Latency
  <2>1. DoneState
    BY <1>1, <1>7, Sizes DEF DpeAt, IdleState, StreamFeed, StreamDrain, DrainState
  <2>2. u = 0
    BY <1>7, Sizes DEF After
  <2>3. state' = "IDLE" /\ ~clear'
    BY <2>1 DEF DoneState
  <2> QED
    BY <2>2, <2>3, Sizes DEF DpeAt
<1> QED
  BY <1>2, <1>3, <1>4, <1>5, <1>6, <1>7, Sizes DEF Times

-----------------------------------------------------------------------------
(* What the registers of the datapath hold.                                *)

\* Stage j of the multiplier holds element e.
InStage(v, pipe, prods, j, e) == pipe[j] = e /\ \E p : prods[j] = <<p>> /\ Of(v, p, e)

\* The multiplier holds the elements fed one and two edges ago.
MulIs(v, pipe, prods, t) ==
  /\ IF t - 4 \in Elements THEN InStage(v, pipe, prods, 1, t - 4) ELSE pipe[1] = NoElem
  /\ IF t - 5 \in Elements THEN InStage(v, pipe, prods, 2, t - 5) ELSE pipe[2] = NoElem

MemIs == mem \in [Elements -> Weights] /\ rd_data \in [addr : Elements, weight : Weights]

DataIs(v, sums, total, t) ==
  t >= 3 => /\ Fresh(v, total)
            /\ \A k \in Accs : Fresh(v, sums[k]) /\ AccIs(v, sums[k], k, t)

\* A partial sum on its way to u_merge is of this vector.
MergeIs(v, m, t) == m.en => t >= 3 /\ m.addend \in Seq(Fed(v))

At(t) ==
  /\ SeqAt(t) /\ DpeAt(t)
  /\ MulIs(feat_latch, mac_pipe, mul, t)
  /\ DataIs(feat_latch, accs, merge, t)
  /\ MergeIs(feat_latch, merge_r, t)

CoreInv == MemIs /\ \E t \in Times : At(t)

\* An element is fed exactly while t - 3 is one.
LEMMA FeedsThen ==
  ASSUME NEW t \in Times, SeqAt(t), DpeAt(t)
  PROVE  /\ Feeds(dp_feature_valid) <=> t - 3 \in Elements
         /\ t - 3 \in Elements => mac_elem = t - 3
<1>1. t - 3 \in Elements => t \in 3 .. VecLen + 2
  BY Sizes DEF Times
<1>2. t \in 3 .. VecLen + 2 => state = "STREAM" /\ ~mac_last_fed /\ mac_elem = t - 3
  BY Sizes DEF DpeAt, Times
<1> QED
  BY <1>1, <1>2 DEF Feeds, SeqAt

LEMMA FedThen ==
  ASSUME NEW t \in Times, SeqAt(t), MemIs, t - 3 \in Elements
  PROVE  Of(feat_latch, Product, t - 3)
<1>1. dp_feature_in = [vector |-> feat_latch, elem |-> t - 3] /\ rd_data.addr = t - 3
  BY DEF SeqAt
<1>2. Product = [feature |-> dp_feature_in, weight |-> rd_data]
  BY DEF Product
<1>3. Product \in Fed(feat_latch)
  BY <1>1, <1>2 DEF Fed, MemIs
<1> QED
  BY <1>1, <1>2, <1>3 DEF Of

LEMMA MulStep ==
  ASSUME NEW t \in Times, SeqAt(t), DpeAt(t), MemIs, MulIs(feat_latch, mac_pipe, mul, t),
         NEW v, Clock(v), NEW u \in Times, u = After(t, v)
  PROVE  MulIs(feat_latch', mac_pipe', mul', u)
<1>1. /\ mul' = <<IF Feeds(dp_feature_valid) THEN <<Product>> ELSE Zero, mul[1]>>
      /\ mac_pipe' = <<IF Feeds(dp_feature_valid) THEN mac_elem ELSE NoElem, mac_pipe[1]>>
  BY DEF Clock, DpeClock, Datapath
<1>2. /\ mul'[1] = IF Feeds(dp_feature_valid) THEN <<Product>> ELSE Zero
      /\ mac_pipe'[1] = IF Feeds(dp_feature_valid) THEN mac_elem ELSE NoElem
      /\ mul'[2] = mul[1] /\ mac_pipe'[2] = mac_pipe[1]
  BY <1>1
<1>3. CASE t = 0 \/ t = Latency
  <2>1. u = 0 \/ u = 1
    BY <1>3 DEF After
  <2>2. t - 3 \notin Elements /\ t - 4 \notin Elements
    BY <1>3, Sizes
  <2>3. ~Feeds(dp_feature_valid) /\ mac_pipe[1] = NoElem
    BY <2>2, FeedsThen DEF MulIs
  <2>4. u - 4 \notin Elements /\ u - 5 \notin Elements
    BY <2>1, Sizes
  <2> QED
    BY <1>2, <2>3, <2>4 DEF MulIs
<1>4. CASE t # 0 /\ t # Latency
  <2>1. u = t + 1 /\ feat_latch' = feat_latch
    BY <1>4, SeqStep DEF After
  <2>2. u - 4 = t - 3 /\ u - 5 = t - 4
    BY <2>1 DEF Times
  <2>3. IF t - 3 \in Elements THEN InStage(feat_latch, mac_pipe', mul', 1, t - 3) ELSE mac_pipe'[1] = NoElem
    BY <1>2, FeedsThen, FedThen, Zenon DEF InStage
  <2>4. IF t - 4 \in Elements THEN InStage(feat_latch, mac_pipe', mul', 2, t - 4) ELSE mac_pipe'[2] = NoElem
    BY <1>2, Zenon DEF InStage, MulIs
  <2> QED
    BY <2>1, <2>2, <2>3, <2>4, Zenon DEF MulIs
<1> QED
  BY <1>3, <1>4

LEMMA DataStep ==
  ASSUME NEW t \in Times, At(t), NEW v, Clock(v), NEW u \in Times, u = After(t, v)
  PROVE  DataIs(feat_latch', accs', merge', u) /\ MergeIs(feat_latch', merge_r', u)
<1>1. /\ accs' = [i \in Accs |->
                    AccStep(accs[i], mac_pipe[2] # NoElem /\ mac_pipe[2] % 5 = i, mul[2], clear)]
      /\ merge_r' = [en |-> state = "DRAIN" /\ Merging,
                     addend |-> IF Merging THEN accs[drain_cnt \div MergeStep].reg ELSE Zero]
      /\ merge' = AccStep(merge, merge_r.en, merge_r.addend, clear)
  BY DEF Clock, DpeClock, Datapath
<1>2. MergeIs(feat_latch', merge_r', u)
  <2> SUFFICES ASSUME merge_r'.en PROVE u >= 3 /\ merge_r'.addend \in Seq(Fed(feat_latch'))
    BY DEF MergeIs
  <2>1. state = "DRAIN" /\ Merging
    <3>1. merge_r'.en = (state = "DRAIN" /\ Merging)
      BY <1>1, Zenon
    <3> QED
      BY <3>1, Zenon
  <2>2. merge_r'.addend = accs[drain_cnt \div MergeStep].reg
    BY <1>1, <2>1
  <2>3. t \in VecLen + 9 .. Latency - 1
    BY <2>1, Sizes DEF At, DpeAt, Times
  <2>4. u = t + 1 /\ feat_latch' = feat_latch /\ t >= 3 /\ u >= 3
    BY <2>3, SeqStep, Sizes DEF After, At
  <2>5. drain_cnt \in Nat /\ drain_cnt <= 16
    BY <2>1, <2>3, Sizes DEF At, DpeAt, Merging
  <2>6. drain_cnt \div MergeStep \in Accs
    BY <2>5 DEF MergeStep, Accs
  <2>7. Fresh(feat_latch, accs[drain_cnt \div MergeStep])
    BY <2>4, <2>6, Zenon DEF At, DataIs
  <2> QED
    BY <2>2, <2>4, <2>7 DEF Fresh
<1>3. DataIs(feat_latch', accs', merge', u)
  <2> SUFFICES ASSUME u >= 3
               PROVE  /\ Fresh(feat_latch', merge')
                      /\ \A k \in Accs : Fresh(feat_latch', accs'[k]) /\ AccIs(feat_latch', accs'[k], k, u)
    BY DEF DataIs
  <2>1. u = t + 1 /\ t # 0 /\ t # Latency /\ t >= 2 /\ t \in Nat /\ u \in Nat
    BY Sizes DEF After, Times
  <2>2. feat_latch' = feat_latch
    BY <2>1, SeqStep DEF At
  <2>3. clear <=> t = 2
    BY DEF At, DpeAt
  <2>4. CASE t = 2
    <3>1. u = 3 /\ clear
      BY <2>1, <2>3, <2>4
    <3>2. \A a, e, d : AccStep(a, e, d, clear) = ClearedAcc
      BY <3>1 DEF AccStep
    <3>3. merge' = ClearedAcc /\ \A k \in Accs : accs'[k] = ClearedAcc
      BY <1>1, <3>2, Zenon
    <3> QED
      BY <3>1, <3>3, ClearedIs, ClearedIsFresh
  <2>5. CASE t # 2
    <3>1. ~clear /\ t >= 3
      BY <2>1, <2>3, <2>5
    <3>2. Fresh(feat_latch, merge) /\ \A k \in Accs : Fresh(feat_latch, accs[k]) /\ AccIs(feat_latch, accs[k], k, t)
      BY <3>1 DEF At, DataIs
    <3>3. \A a, e, d : AccStep(a, e, d, clear) = AccStep(a, e, d, FALSE)
      BY <3>1 DEF AccStep
    <3>4. Fresh(feat_latch, merge')
      <4>1. merge_r.en => merge_r.addend \in Seq(Fed(feat_latch))
        BY DEF At, MergeIs
      <4>2. Fresh(feat_latch, AccStep(merge, merge_r.en, merge_r.addend, FALSE))
        BY <3>2, <4>1, FreshKeeps
      <4> QED
        BY <1>1, <3>3, <4>2, Zenon
    <3>5. ASSUME NEW k \in Accs
          PROVE  Fresh(feat_latch, accs'[k]) /\ AccIs(feat_latch, accs'[k], k, u)
      <4> DEFINE en == mac_pipe[2] # NoElem /\ mac_pipe[2] % 5 = k
      <4>1. accs'[k] = AccStep(accs[k], en, mul[2], FALSE)
        BY <1>1, <3>3, Zenon
      <4>2. t - 5 \in Elements => mac_pipe[2] = t - 5 /\ \E p : mul[2] = <<p>> /\ Of(feat_latch, p, t - 5)
        BY Zenon DEF At, MulIs, InStage
      <4>3. t - 5 \notin Elements => mac_pipe[2] = NoElem
        BY Zenon DEF At, MulIs
      <4>4. t - 5 \in Elements => t - 5 # NoElem
        BY Sizes DEF NoElem
      <4>5. en <=> t - 5 \in Elements /\ (t - 5) % 5 = k
        BY <4>2, <4>3, <4>4, Zenon
      <4>6. en => \E p : mul[2] = <<p>> /\ Of(feat_latch, p, t - 5)
        BY <4>2, <4>5, Zenon
      <4>7. en => mul[2] \in Seq(Fed(feat_latch))
        <5> SUFFICES ASSUME en PROVE mul[2] \in Seq(Fed(feat_latch))
          OBVIOUS
        <5>1. PICK p : mul[2] = <<p>> /\ Of(feat_latch, p, t - 5)
          BY <4>6
        <5>2. p \in Fed(feat_latch)
          BY <5>1 DEF Of
        <5> QED
          BY <5>1, <5>2
      <4> HIDE DEF en
      <4>8. Fresh(feat_latch, AccStep(accs[k], en, mul[2], FALSE))
        BY <3>2, <4>7, FreshKeeps
      <4>9. AccIs(feat_latch, AccStep(accs[k], en, mul[2], FALSE), k, u)
        BY <2>1, <3>2, <4>5, <4>6, AccKeeps
      <4> QED
        BY <4>1, <4>8, <4>9, Zenon
    <3> QED
      BY <2>2, <3>4, <3>5
  <2> QED
    BY <2>4, <2>5
<1> QED
  BY <1>2, <1>3

\* At t = 0, as after rst and before the first vector.
Idle ==
  /\ seq_state = "IDLE" /\ seq_idx = 0 /\ ~dp_start /\ ~dp_feature_valid
  /\ state = "IDLE" /\ ~clear
  /\ mac_pipe = <<NoElem, NoElem>> /\ ~merge_r.en

LEMMA IdleIsAt == Idle => At(0)
<1> SUFFICES ASSUME Idle PROVE At(0)
  OBVIOUS
<1>1. 0 - 3 \notin Elements /\ 0 - 4 \notin Elements /\ 0 - 5 \notin Elements
  BY Sizes
<1>2. SeqAt(0)
  BY <1>1, Sizes DEF Idle, SeqAt
<1>3. DpeAt(0)
  BY Sizes DEF Idle, DpeAt
<1>4. mac_pipe[1] = NoElem /\ mac_pipe[2] = NoElem
  BY DEF Idle
<1>5. MulIs(feat_latch, mac_pipe, mul, 0)
  BY <1>1, <1>4 DEF MulIs
<1>6. DataIs(feat_latch, accs, merge, 0) /\ MergeIs(feat_latch, merge_r, 0)
  BY DEF DataIs, MergeIs, Idle
<1> QED
  BY <1>2, <1>3, <1>5, <1>6 DEF At

LEMMA CoreInit == Init => CoreInv
<1> SUFFICES ASSUME Init PROVE CoreInv
  OBVIOUS
<1>1. merge_r.en = FALSE
  BY DEF Init, DpeInit
<1>2. Idle
  BY <1>1 DEF Init, DpeInit, Idle
<1>3. MemIs
  BY Sizes, CoreAssumption DEF Init, MemIs
<1>4. 0 \in Times
  BY Sizes DEF Times
<1> QED
  BY <1>2, <1>3, <1>4, IdleIsAt DEF CoreInv

\* An edge at time t leads to time After(t, v).
LEMMA AtStep ==
  ASSUME MemIs, NEW t \in Times, At(t), NEW v, Clock(v), NEW u \in Times, u = After(t, v)
  PROVE  At(u)'
<1>1. SeqAt(u)' /\ DpeAt(u)'
  BY SeqStep, DpeStep DEF At
<1>2. MulIs(feat_latch', mac_pipe', mul', u)
  BY MulStep DEF At
<1>3. DataIs(feat_latch', accs', merge', u) /\ MergeIs(feat_latch', merge_r', u)
  BY DataStep
<1>4. At(u)' <=> /\ SeqAt(u)' /\ DpeAt(u)'
                 /\ MulIs(feat_latch', mac_pipe', mul', u)
                 /\ DataIs(feat_latch', accs', merge', u)
                 /\ MergeIs(feat_latch', merge_r', u)
  BY DEF At
<1> QED
  BY <1>1, <1>2, <1>3, <1>4

LEMMA AfterIsTime ==
  ASSUME NEW t \in Times, NEW v PROVE After(t, v) \in Times
BY Sizes DEF After, Times

LEMMA ResetIsIdle == ASSUME Reset PROVE Idle'
<1>1. merge_r'.en = FALSE
  BY DEF Reset, DpeReset
<1> QED
  BY <1>1 DEF Reset, DpeReset, Idle

LEMMA MemStep ==
  ASSUME MemIs, NEW t \in Times, At(t), [Next]_coreVars
  PROVE  MemIs'
<1>1. seq_idx \in Elements
  BY Sizes DEF At, SeqAt, Times
<1>2. CASE UNCHANGED coreVars
  BY <1>2 DEF coreVars, MemIs
<1>3. CASE Reset
  BY <1>3, Sizes, CoreAssumption DEF Reset, MemIs
<1>4. ASSUME NEW v \in Vectors \cup {NoVector}, Clock(v),
             NoWeightWrite \/ \E i \in Elements, w \in Weights : WeightWrite(i, w)
      PROVE  MemIs'
  <2>1. rd_data' = [addr |-> seq_idx, weight |-> mem[seq_idx]]
    BY <1>4 DEF Clock, WeightRead, ReadAddress
  <2>2. rd_data' \in [addr : Elements, weight : Weights]
    BY <1>1, <2>1 DEF MemIs
  <2>3. mem' \in [Elements -> Weights]
    BY <1>4 DEF MemIs, NoWeightWrite, WeightWrite
  <2> QED
    BY <2>2, <2>3 DEF MemIs
<1> QED
  BY <1>2, <1>3, <1>4 DEF Next

LEMMA CoreStep == CoreInv /\ [Next]_coreVars => CoreInv'
<1> SUFFICES ASSUME CoreInv, [Next]_coreVars PROVE CoreInv'
  OBVIOUS
<1>1. PICK t \in Times : At(t)
  BY DEF CoreInv
<1>2. MemIs /\ MemIs'
  BY <1>1, MemStep DEF CoreInv
<1>3. CASE UNCHANGED coreVars
  <2>1. At(t)'
    BY <1>1, <1>3 DEF coreVars, dpeVars, At, SeqAt, DpeAt
  <2> QED
    BY <1>2, <2>1 DEF CoreInv
<1>4. CASE Reset
  <2>1. (Idle => At(0))'
    BY IdleIsAt, PTL
  <2>2. At(0)' /\ 0 \in Times
    BY <1>4, <2>1, ResetIsIdle, Sizes DEF Times
  <2> QED
    BY <1>2, <2>2 DEF CoreInv
<1>5. ASSUME NEW v \in Vectors \cup {NoVector}, Clock(v) PROVE CoreInv'
  <2>1. PICK u \in Times : u = After(t, v)
    BY AfterIsTime
  <2>2. At(u)'
    BY <1>1, <1>2, <1>5, <2>1, AtStep
  <2> QED
    BY <1>2, <2>2 DEF CoreInv
<1> QED
  BY <1>3, <1>4, <1>5 DEF Next

-----------------------------------------------------------------------------
\* The elements of accumulator k.
Part(k) == {e \in Elements : e % 5 = k}

\* An accumulator that is read for the merge has summed up its elements.
LEMMA ReadIsWhole ==
  ASSUME VecLen % 5 # 1, NEW t \in Times, At(t), state = "DRAIN", Merging,
         NEW k \in Accs, k = drain_cnt \div MergeStep
  PROVE  Sums(feat_latch, accs[k].reg, Part(k))
<1>1. t \in VecLen + 9 .. Latency - 1
  BY Sizes DEF At, DpeAt, Times
<1>2. t = VecLen + 9 + drain_cnt /\ drain_cnt \in 0 .. 16 /\ drain_cnt % 4 = 0
  BY <1>1, Sizes DEF At, DpeAt, Merging, MergeStep
<1>3. drain_cnt = 0 => k = 0
  BY DEF MergeStep
<1>4. t >= 3
  BY <1>1, Sizes
<1>5. Sums(feat_latch, accs[k].reg, Reached(k, 11, t))
  BY <1>4, Zenon DEF At, DataIs, AccIs
<1>6. ASSUME NEW e \in Elements, e % 5 = k PROVE e + 11 <= t
  <2>1. CASE drain_cnt = 0
    <3>1. e # VecLen - 1
      BY <1>3, <1>6, <2>1, Sizes
    <3> QED
      BY <1>2, <2>1, <3>1, Sizes
  <2>2. CASE drain_cnt # 0
    <3>1. drain_cnt >= 4
      BY <1>2, <2>2
    <3> QED
      BY <1>2, <3>1, Sizes
  <2> QED
    BY <2>1, <2>2
<1>7. Reached(k, 11, t) = Part(k)
  BY <1>6 DEF Reached, Part
<1> QED
  BY <1>5, <1>7

\* When an accumulator is read for the merge it has summed up its elements, all
\* of them, and nothing summed up was multiplied for an earlier vector: if the
\* last element does not go to the accumulator that is read first.
THEOREM PartialsAreWhole ==
  ASSUME VecLen % 5 # 1 PROVE Spec => []PartialsWhole
<1>1. CoreInv => PartialsWhole
  <2> SUFFICES ASSUME CoreInv PROVE PartialsWhole
    OBVIOUS
  <2>1. PICK t \in Times : At(t)
    BY DEF CoreInv
  <2>2. ASSUME state = "DRAIN", Merging
        PROVE  LET k == drain_cnt \div MergeStep
               IN  SumsUp(accs[k].reg, {i \in Elements : i % 5 = k})
    <3>1. t \in VecLen + 9 .. Latency - 1
      BY <2>1, <2>2, Sizes DEF At, DpeAt, Times
    <3>2. drain_cnt \in 0 .. 16
      BY <2>1, <2>2, <3>1, Sizes DEF At, DpeAt, Merging
    <3>3. PICK k \in Accs : k = drain_cnt \div MergeStep
      BY <3>2 DEF MergeStep, Accs
    <3>4. SumsUp(accs[k].reg, Part(k))
      BY <2>1, <2>2, <3>3, ReadIsWhole, SumsIsSumsUp
    <3> QED
      BY <3>3, <3>4, Zenon DEF Part
  <2>3. ASSUME seq_state = "WAIT", NEW a \in {accs[i] : i \in Accs} \cup {merge},
               NEW s \in {a.reg, a.partial} \cup {a.stage[i] : i \in DOMAIN a.stage},
               NEW i \in DOMAIN s
        PROVE  s[i].feature.vector = feat_latch
    <3>1. t >= 3
      BY <2>1, <2>3, Sizes DEF At, SeqAt, Times
    <3>2. Fresh(feat_latch, a)
      BY <2>1, <2>3, <3>1, Zenon DEF At, DataIs
    <3>3. s \in Seq(Fed(feat_latch))
      BY <2>3, <3>2 DEF Fresh
    <3>4. s[i] \in Fed(feat_latch)
      BY <3>3
    <3> QED
      BY <3>4, FedOf
  <2> QED
    BY <2>2, <2>3 DEF PartialsWhole
<1> QED
  BY <1>1, CoreInit, CoreStep, PTL DEF Spec

-----------------------------------------------------------------------------
(* The timing the top level relies on.                                     *)

LeftAt(t) == IF t = 0 THEN 0 ELSE Latency + 1 - t

LeftHolds == \A t \in Times : At(t) => CyclesLeft = LeftAt(t)

LEMMA LeftThen == LeftHolds
<1> SUFFICES ASSUME NEW t \in Times, At(t) PROVE CyclesLeft = LeftAt(t)
  BY DEF LeftHolds
<1>1. SeqAt(t) /\ DpeAt(t)
  BY DEF At
<1>2. CASE t \in 0 .. 1
  <2>1. CASE t = 0
    <3>1. seq_state = "IDLE"
      BY <1>1, <2>1 DEF SeqAt
    <3>2. CyclesLeft = 0
      BY <3>1 DEF CyclesLeft
    <3> QED
      BY <2>1, <3>2 DEF LeftAt
  <2>2. CASE t = 1
    <3>1. seq_state = "PRELOAD"
      BY <1>1, <2>2 DEF SeqAt
    <3>2. CyclesLeft = Latency
      BY <3>1 DEF CyclesLeft
    <3> QED
      BY <2>2, <3>2, Sizes DEF LeftAt
  <2> QED
    BY <1>2, <2>1, <2>2
<1>3. CASE t \in 2 .. VecLen + 1
  <2>1. seq_state = "FEED" /\ seq_idx = t - 2
    BY <1>1, <1>3, Sizes DEF SeqAt
  <2>2. CyclesLeft = Latency - 1 - seq_idx
    BY <2>1, Zenon DEF CyclesLeft
  <2> QED
    BY <1>3, <2>1, <2>2, Sizes DEF LeftAt
<1>4. CASE t \in VecLen + 2 .. VecLen + 8
  <2>1. seq_state = "WAIT" /\ state = "STREAM"
    BY <1>1, <1>4, Sizes DEF SeqAt, DpeAt
  <2>2. CyclesLeft = IF mac_last_fed THEN Latency - 2 - VecLen - mac_drain ELSE Latency - 1 - VecLen
    BY <2>1, Zenon DEF CyclesLeft
  <2>3. CASE t = VecLen + 2
    <3>1. ~mac_last_fed
      BY <1>1, <2>3, Sizes DEF DpeAt
    <3> QED
      BY <2>2, <2>3, <3>1, Sizes DEF LeftAt
  <2>4. CASE t # VecLen + 2
    <3>1. mac_last_fed /\ mac_drain = t - (VecLen + 3)
      BY <1>1, <1>4, <2>4, Sizes DEF DpeAt
    <3> QED
      BY <1>4, <2>2, <2>4, <3>1, Sizes DEF LeftAt
  <2> QED
    BY <2>3, <2>4
<1>5. CASE t \in VecLen + 9 .. Latency - 1
  <2>1. seq_state = "WAIT" /\ state = "DRAIN" /\ drain_cnt = t - (VecLen + 9)
    BY <1>1, <1>5, Sizes DEF SeqAt, DpeAt
  <2>2. CyclesLeft = Latency - 8 - VecLen - drain_cnt
    BY <2>1, Zenon DEF CyclesLeft
  <2> QED
    BY <1>5, <2>1, <2>2, Sizes DEF LeftAt
<1>6. CASE t = Latency
  <2>1. seq_state = "WAIT" /\ state = "DONE"
    BY <1>1, <1>6, Sizes DEF SeqAt, DpeAt
  <2>2. CyclesLeft = 1
    BY <2>1, Zenon DEF CyclesLeft
  <2> QED
    BY <1>6, <2>2, Sizes DEF LeftAt
<1> QED
  BY <1>2, <1>3, <1>4, <1>5, <1>6, Sizes DEF Times

LEMMA TimingStep ==
  CoreInv /\ [Next]_coreVars => [Timing!Next]_<<CyclesLeft, feat_latch>>
<1> SUFFICES ASSUME CoreInv, [Next]_coreVars
             PROVE  Timing!Next \/ (CyclesLeft' = CyclesLeft /\ feat_latch' = feat_latch)
  OBVIOUS
<1>1. PICK t \in Times : At(t)
  BY DEF CoreInv
<1>2. CyclesLeft = LeftAt(t)
  BY <1>1, LeftThen DEF LeftHolds
<1>3. LeftHolds'
  BY LeftThen, PTL
<1>4. CASE UNCHANGED coreVars
  BY <1>4 DEF coreVars, dpeVars, CyclesLeft
<1>5. CASE Reset
  <2>1. seq_state' = "IDLE" /\ feat_latch' = NoVector
    BY <1>5 DEF Reset
  <2>2. CyclesLeft' = 0
    BY <2>1 DEF CyclesLeft
  <2> QED
    BY <2>1, <2>2 DEF Timing!Next, Timing!Reset
<1>6. ASSUME NEW v \in Vectors \cup {NoVector}, Clock(v) PROVE Timing!Clock(v)
  <2>1. PICK u \in Times : u = After(t, v)
    BY AfterIsTime
  <2>2. At(u)'
    BY <1>1, <1>6, <2>1, AtStep DEF CoreInv
  <2>3. CyclesLeft' = LeftAt(u)
    BY <1>3, <2>2 DEF LeftHolds, LeftAt
  <2>4. /\ t # 0 => feat_latch' = feat_latch
        /\ t = 0 => feat_latch' = IF v = NoVector THEN feat_latch ELSE v
    BY <1>1, <1>6, <2>1, SeqStep DEF At
  <2>5. CASE t = 0 /\ v = NoVector
    BY <1>2, <2>1, <2>3, <2>4, <2>5 DEF After, LeftAt, Timing!Clock, Timing!Rest
  <2>6. CASE t = 0 /\ v # NoVector
    <3>1. CyclesLeft' = Latency
      BY <2>1, <2>3, <2>6, Sizes DEF After, LeftAt
    <3> QED
      BY <1>2, <2>4, <2>6, <3>1 DEF LeftAt, Timing!Clock, Timing!Take
  <2>7. CASE t # 0
    <3>1. CyclesLeft \in Nat \ {0} /\ CyclesLeft' = CyclesLeft - 1
      BY <1>2, <2>1, <2>3, <2>7, Sizes DEF Times, After, LeftAt
    <3> QED
      BY <2>4, <2>7, <3>1 DEF Timing!Clock, Timing!Wait
  <2> QED
    BY <2>5, <2>6, <2>7
<1> QED
  BY <1>4, <1>5, <1>6 DEF Next, Timing!Next

\* The core takes a vector exactly when idle, answers Latency cycles later and
\* does not see what is offered in between: the safety half of KeepsTiming.
THEOREM CoreIsTimed ==
  Spec => Timing!Init /\ [][Timing!Next]_<<CyclesLeft, feat_latch>>
<1>1. Init => Timing!Init
  BY DEF Init, Timing!Init, CyclesLeft
<1> QED
  BY <1>1, CoreInit, CoreStep, TimingStep, PTL DEF Spec

-----------------------------------------------------------------------------
(* The merge.  u_merge is given a partial sum every four edges, and its sum *)
(* comes back five edges later: each is added to the sum before the last.  *)

LEMMA SumsBoth ==
  ASSUME NEW v, NEW s, NEW E, IsFiniteSet(E), Sums(v, s, E),
         NEW r, NEW F, IsFiniteSet(F), Sums(v, r, F), E \cap F = {}
  PROVE  Sums(v, s \o r, E \cup F)
<1> DEFINE q == s \o r
<1>1. s \in Seq(Fed(v)) /\ r \in Seq(Fed(v)) /\ Len(s) \in Nat /\ Len(r) \in Nat
  BY DEF Sums
<1>2. q \in Seq(Fed(v)) /\ Len(q) = Len(s) + Len(r)
  BY <1>1
<1>3. DOMAIN s = 1 .. Len(s) /\ DOMAIN r = 1 .. Len(r) /\ DOMAIN q = 1 .. Len(s) + Len(r)
  BY <1>1, <1>2
<1>4. (\A i \in 1 .. Len(s) : q[i] = s[i]) /\ \A i \in 1 .. Len(r) : q[Len(s) + i] = r[i]
  BY <1>1
<1>5. Len(q) = Cardinality(E \cup F)
  <2>1. Cardinality(E) \in Nat /\ Cardinality(F) \in Nat /\ Cardinality({}) = 0
    BY FS_EmptySet, FS_CardinalityType
  <2>2. Cardinality(E \cup F) = Cardinality(E) + Cardinality(F) - Cardinality(E \cap F)
    BY FS_Union
  <2>3. Cardinality(E \cap F) = 0
    BY <2>1, Zenon
  <2>4. Cardinality(E \cup F) = Cardinality(E) + Cardinality(F)
    BY <2>1, <2>2, <2>3
  <2> QED
    BY <1>2, <2>4 DEF Sums
<1> HIDE DEF q
<1>6. ASSUME NEW i \in DOMAIN q
      PROVE  q[i].feature.elem \in E \cup F /\ q[i].weight.addr = q[i].feature.elem
  <2>1. CASE i \in 1 .. Len(s)
    BY <1>3, <1>4, <2>1 DEF Sums
  <2>2. CASE i \notin 1 .. Len(s)
    <3>1. PICK j \in 1 .. Len(r) : i = Len(s) + j
      <4>1. i - Len(s) \in 1 .. Len(r) /\ i = Len(s) + (i - Len(s))
        BY <1>1, <1>3, <1>6, <2>2
      <4> QED
        BY <4>1
    <3> QED
      BY <1>3, <1>4, <3>1 DEF Sums
  <2> QED
    BY <2>1, <2>2
<1>7. ASSUME NEW x \in E \cup F PROVE \E i \in DOMAIN q : q[i].feature.elem = x
  <2>1. CASE x \in E
    <3>1. PICK i \in DOMAIN s : s[i].feature.elem = x
      BY <2>1 DEF Sums
    <3> QED
      BY <1>1, <1>3, <1>4, <3>1
  <2>2. CASE x \in F
    <3>1. PICK i \in DOMAIN r : r[i].feature.elem = x
      BY <2>2 DEF Sums
    <3>2. Len(s) + i \in DOMAIN q /\ q[Len(s) + i] = r[i]
      BY <1>1, <1>3, <1>4, <3>1
    <3> QED
      BY <3>1, <3>2
  <2> QED
    BY <2>1, <2>2
<1>8. {q[i].feature.elem : i \in DOMAIN q} = E \cup F
  BY <1>6, <1>7
<1>9. Sums(v, q, E \cup F)
  BY <1>2, <1>5, <1>6, <1>8 DEF Sums
<1> QED
  BY <1>9 DEF q

Parts == 0 .. NumAccsUsed - 1

\* d counts the edges since S_DRAIN was entered (below 0: until it will be).
\* Partial sum k is in merge_r at 4k + 1 and in stage i of u_merge at 4k + 1 + i.
MergeRegIs(v, m, d) ==
  /\ m.en <=> \E k \in Parts : d = 4 * k + 1
  /\ \A k \in Parts : d = 4 * k + 1 => Sums(v, m.addend, Part(k))

TotalIs(v, a, d) ==
  /\ \A i \in 1 .. 5 : a.en[i] <=> \E k \in Parts : d = 4 * k + 1 + i
  /\ \A i \in 1 .. 4, k \in Parts : d = 4 * k + 1 + i => Sums(v, a.stage[i], EverySecond(k))
  /\ \A k \in Parts : d = 4 * k + 6 => Sums(v, a.partial, EverySecond(k))
  /\ d < 7 => Sums(v, a.reg, {})
  /\ \A k \in Parts : d \in 4 * k + 7 .. 4 * k + 10 => Sums(v, a.reg, EverySecond(k))

LEMMA PartFinite ==
  ASSUME NEW k PROVE IsFiniteSet(Part(k)) /\ IsFiniteSet(EverySecond(k))
<1>1. IsFiniteSet(Elements)
  <2>1. IsFiniteSet(0 .. VecLen - 1)
    BY Sizes, FS_Interval
  <2> QED
    BY <2>1, Sizes
<1>2. Part(k) \subseteq Elements /\ EverySecond(k) \subseteq Elements
  BY DEF Part, EverySecond
<1> QED
  BY <1>1, <1>2, FS_Subset

\* The first two begin a sum of their own.
LEMMA EverySecondFirst ==
  ASSUME NEW k \in {0, 1} PROVE EverySecond(k) = {} \cup Part(k)
BY Sizes DEF EverySecond, Part

LEMMA EverySecondNext ==
  ASSUME NEW k \in 2 .. 4, NEW j \in 0 .. 2, j = k - 2
  PROVE  EverySecond(j) \cup Part(k) = EverySecond(k) /\ EverySecond(j) \cap Part(k) = {}
<1>1. ASSUME NEW e \in Elements
      PROVE  /\ e \in EverySecond(j) \/ e \in Part(k) <=> e \in EverySecond(k)
             /\ ~(e \in EverySecond(j) /\ e \in Part(k))
  <2>1. PICK r \in 0 .. 4 : r = e % 5
    BY <1>1, Sizes
  <2>2. /\ e \in EverySecond(j) <=> r <= j /\ (j - r) % 2 = 0
        /\ e \in EverySecond(k) <=> r <= k /\ (k - r) % 2 = 0
        /\ e \in Part(k) <=> r = k
    BY <1>1, <2>1 DEF EverySecond, Part
  <2>3. CASE r <= j
    <3>1. k - r = (j - r) + 2 /\ j - r \in Nat /\ r <= k /\ r # k
      BY <2>3
    <3> QED
      BY <2>2, <2>3, <3>1
  <2>4. CASE ~(r <= j)
    <3>1. r = k \/ r = k - 1 \/ r > k
      BY <2>4
    <3>2. r = k - 1 => k - r = 1
      OBVIOUS
    <3>3. r = k => k - r = 0
      OBVIOUS
    <3> QED
      BY <2>2, <2>4, <3>1, <3>2, <3>3
  <2> QED
    BY <2>3, <2>4
<1>2. EverySecond(j) \subseteq Elements /\ EverySecond(k) \subseteq Elements /\ Part(k) \subseteq Elements
  BY DEF EverySecond, Part
<1> QED
  BY <1>1, <1>2

\* Nothing is at u_merge's output when a partial sum comes, so that it is added
\* to what its register holds.
LEMMA MergeSpacing ==
  ASSUME NEW d \in Int, NEW k \in Parts, d = 4 * k + 1
  PROVE  ~\E j \in Parts : d = 4 * j + 6
BY Sizes DEF Parts

\* u_merge at d edges is that at d + 1 an edge later.
LEMMA TotalKeeps ==
  ASSUME NEW v, NEW d \in Int, NEW n \in Int, n = d + 1,
         NEW a, TotalIs(v, a, d), NEW acc_en, NEW addend,
         acc_en <=> \E k \in Parts : d = 4 * k + 1,
         \A k \in Parts : d = 4 * k + 1 => Sums(v, addend, Part(k))
  PROVE  TotalIs(v, AccStep(a, acc_en, addend, FALSE), n)
<1> DEFINE b == AccStep(a, acc_en, addend, FALSE)
<1>1. /\ b.en = [i \in 1 .. 5 |-> IF i = 1 THEN acc_en ELSE a.en[i - 1]]
      /\ b.stage = [i \in 1 .. 4 |->
           IF i = 1 THEN IF acc_en THEN Feedback(a) \o addend ELSE a.stage[1]
           ELSE IF a.en[i - 1] THEN a.stage[i - 1] ELSE a.stage[i]]
      /\ b.partial = IF a.en[4] THEN a.stage[4] ELSE a.partial
      /\ b.reg = IF a.en[5] THEN a.partial ELSE a.reg
  BY DEF AccStep
<1> HIDE DEF b
<1>2. Parts \subseteq Nat
  BY Sizes DEF Parts
<1>3. ASSUME NEW i \in 1 .. 5 PROVE b.en[i] <=> \E k \in Parts : n = 4 * k + 1 + i
  <2>1. CASE i = 1
    <3>1. b.en[i] = acc_en
      BY <1>1, <2>1, Zenon
    <3>2. \A k \in Parts : n = 4 * k + 1 + i <=> d = 4 * k + 1
      BY <1>2, <2>1
    <3> QED
      BY <3>1, <3>2, Zenon
  <2>2. CASE i # 1
    <3>1. PICK j \in 1 .. 4 : j = i - 1
      BY <2>2
    <3>2. b.en[i] = a.en[j]
      BY <1>1, <2>2, <3>1, Zenon
    <3>3. \A k \in Parts : n = 4 * k + 1 + i <=> d = 4 * k + 1 + j
      BY <1>2, <3>1
    <3>4. a.en[j] <=> \E k \in Parts : d = 4 * k + 1 + j
      <4>1. j \in 1 .. 5
        OBVIOUS
      <4> QED
        BY <4>1, Zenon DEF TotalIs
    <3> QED
      BY <3>2, <3>3, <3>4, Zenon
  <2> QED
    BY <2>1, <2>2
<1>4. ASSUME NEW i \in 1 .. 4, NEW k \in Parts, n = 4 * k + 1 + i
      PROVE  Sums(v, b.stage[i], EverySecond(k))
  <2>1. CASE i = 1
    <3>1. d = 4 * k + 1
      BY <1>2, <1>4, <2>1
    <3>2. acc_en /\ Sums(v, addend, Part(k))
      BY <3>1, Zenon
    <3>3. ~a.en[5]
      <4>1. 5 \in 1 .. 5 /\ \A j \in Parts : 4 * j + 1 + 5 = 4 * j + 6
        BY <1>2
      <4>2. a.en[5] <=> \E j \in Parts : d = 4 * j + 6
        BY <4>1, Zenon DEF TotalIs
      <4> QED
        BY <3>1, <4>2, MergeSpacing, Zenon
    <3>4. b.stage[i] = a.reg \o addend
      BY <1>1, <2>1, <3>2, <3>3, Zenon DEF Feedback
    <3>5. CASE k \in {0, 1}
      <4>1. d < 7
        BY <3>1, <3>5
      <4>2. Sums(v, a.reg, {})
        BY <4>1, Zenon DEF TotalIs
      <4>3. {} \cap Part(k) = {} /\ IsFiniteSet({})
        BY FS_EmptySet
      <4>4. Sums(v, a.reg \o addend, {} \cup Part(k))
        BY <3>2, <4>2, <4>3, SumsBoth, PartFinite, Zenon
      <4> QED
        BY <3>4, <3>5, <4>4, EverySecondFirst, Zenon
    <3>6. CASE k \notin {0, 1}
      <4>1. k \in 2 .. 4
        BY <3>6, Sizes DEF Parts
      <4>2. PICK j \in 0 .. 2 : j = k - 2
        BY <4>1
      <4>3. j \in Parts /\ d \in 4 * j + 7 .. 4 * j + 10
        BY <3>1, <4>1, <4>2, Sizes DEF Parts
      <4>4. Sums(v, a.reg, EverySecond(j))
        BY <4>3, Zenon DEF TotalIs
      <4>5. EverySecond(j) \cup Part(k) = EverySecond(k) /\ EverySecond(j) \cap Part(k) = {}
        BY <4>1, <4>2, EverySecondNext, Zenon
      <4>6. Sums(v, a.reg \o addend, EverySecond(j) \cup Part(k))
        BY <3>2, <4>4, <4>5, SumsBoth, PartFinite, Zenon
      <4> QED
        BY <3>4, <4>5, <4>6, Zenon
    <3> QED
      BY <3>5, <3>6
  <2>2. CASE i # 1
    <3>1. PICK j \in 1 .. 3 : j = i - 1
      BY <2>2
    <3>2. d = 4 * k + 1 + j /\ j \in 1 .. 4 /\ j \in 1 .. 5
      BY <1>2, <1>4, <3>1
    <3>3. a.en[j] /\ Sums(v, a.stage[j], EverySecond(k))
      BY <3>2, Zenon DEF TotalIs
    <3>4. b.stage[i] = a.stage[j]
      BY <1>1, <2>2, <3>1, <3>3, Zenon
    <3> QED
      BY <3>3, <3>4, Zenon
  <2> QED
    BY <2>1, <2>2
<1>5. ASSUME NEW k \in Parts, n = 4 * k + 6 PROVE Sums(v, b.partial, EverySecond(k))
  <2>1. d = 4 * k + 1 + 4 /\ 4 \in 1 .. 4 /\ 4 \in 1 .. 5
    BY <1>2, <1>5
  <2>2. a.en[4] /\ Sums(v, a.stage[4], EverySecond(k))
    BY <2>1, Zenon DEF TotalIs
  <2> QED
    BY <1>1, <2>2, Zenon
<1>6. a.en[5] <=> \E j \in Parts : d = 4 * j + 6
  <2>1. 5 \in 1 .. 5 /\ \A j \in Parts : 4 * j + 1 + 5 = 4 * j + 6
    BY <1>2
  <2> QED
    BY <2>1, Zenon DEF TotalIs
<1>7. ASSUME n < 7 PROVE Sums(v, b.reg, {})
  <2>1. d < 7 /\ ~\E j \in Parts : d = 4 * j + 6
    BY <1>2, <1>7
  <2>2. Sums(v, a.reg, {})
    BY <2>1, Zenon DEF TotalIs
  <2> QED
    BY <1>1, <1>6, <2>1, <2>2, Zenon
<1>8. ASSUME NEW k \in Parts, n \in 4 * k + 7 .. 4 * k + 10 PROVE Sums(v, b.reg, EverySecond(k))
  <2>1. CASE d = 4 * k + 6
    <3>1. a.en[5] /\ Sums(v, a.partial, EverySecond(k))
      BY <1>6, <2>1, Zenon DEF TotalIs
    <3> QED
      BY <1>1, <3>1, Zenon
  <2>2. CASE d # 4 * k + 6
    <3>1. d \in 4 * k + 7 .. 4 * k + 10 /\ ~\E j \in Parts : d = 4 * j + 6
      BY <1>2, <1>8, <2>2
    <3>2. Sums(v, a.reg, EverySecond(k))
      BY <3>1, Zenon DEF TotalIs
    <3> QED
      BY <1>1, <1>6, <3>1, <3>2, Zenon
  <2> QED
    BY <2>1, <2>2
<1>9. TotalIs(v, b, n)
  BY <1>3, <1>4, <1>5, <1>7, <1>8, Zenon DEF TotalIs
<1> QED
  BY <1>9 DEF b

\* The time since the partial sums began to be read.
DrainTime(t) == t - (VecLen + 9)

Merged(v, m, a, t) == t >= 3 => MergeRegIs(v, m, DrainTime(t)) /\ TotalIs(v, a, DrainTime(t))

ResultAt(t) == At(t) /\ Merged(feat_latch, merge_r, merge, t)

ResultInv == MemIs /\ \E t \in Times : ResultAt(t)

LEMMA ClearedIsTotal ==
  ASSUME NEW v, NEW d \in Int, d < 0 PROVE TotalIs(v, ClearedAcc, d)
<1>1. Parts \subseteq Nat
  BY Sizes DEF Parts
<1>2. \A i \in 1 .. 5 : ~ClearedAcc.en[i]
  BY ClearedFields, Zenon
<1>3. \A k \in Parts : /\ \A i \in 1 .. 5 : d # 4 * k + 1 + i
                      /\ d # 4 * k + 6 /\ d \notin 4 * k + 7 .. 4 * k + 10
  BY <1>1
<1>4. \A i \in 1 .. 4 : i \in 1 .. 5
  OBVIOUS
<1> QED
  BY <1>2, <1>3, <1>4, SumsNone, ClearedFields, Zenon DEF TotalIs

LEMMA MergeRegStep ==
  ASSUME VecLen % 5 # 1, NEW t \in Times, At(t), NEW v, Clock(v), t # 0, t # Latency,
         NEW n \in Int, n = DrainTime(t) + 1
  PROVE  MergeRegIs(feat_latch, merge_r', n)
<1>1. merge_r' = [en |-> state = "DRAIN" /\ Merging,
                  addend |-> IF Merging THEN accs[drain_cnt \div MergeStep].reg ELSE Zero]
  BY DEF Clock, DpeClock, Datapath
<1>2. merge_r'.en <=> state = "DRAIN" /\ Merging
  BY <1>1, Zenon
<1>3. state = "DRAIN" <=> t \in VecLen + 9 .. Latency - 1
  BY Sizes DEF At, DpeAt, Times
<1>4. state = "DRAIN" => n - 1 \in Nat /\ drain_cnt = n - 1
  BY <1>3, Sizes DEF At, DpeAt, Times, DrainTime
<1>5. ASSUME NEW k \in Parts, n = 4 * k + 1
      PROVE  state = "DRAIN" /\ Merging /\ Sums(feat_latch, merge_r'.addend, Part(k))
  <2>1. state = "DRAIN"
    BY <1>3, <1>5, Sizes DEF Times, DrainTime, Parts
  <2>2. drain_cnt = 4 * k /\ k \in Accs
    BY <1>4, <1>5, <2>1, Sizes DEF Parts, Accs
  <2>3. Merging
    BY <2>2, Sizes DEF Merging, MergeStep, Parts
  <2>4. k = drain_cnt \div MergeStep
    BY <2>2 DEF MergeStep, Accs
  <2>5. Sums(feat_latch, accs[k].reg, Part(k))
    BY <2>1, <2>2, <2>3, <2>4, ReadIsWhole
  <2>6. merge_r'.addend = accs[k].reg
    BY <1>1, <2>3, <2>4, Zenon
  <2> QED
    BY <2>1, <2>3, <2>5, <2>6, Zenon
<1>6. ASSUME state = "DRAIN", Merging PROVE \E k \in Parts : n = 4 * k + 1
  <2>1. drain_cnt \in Nat /\ drain_cnt % 4 = 0 /\ drain_cnt <= (NumAccsUsed - 1) * 4
    BY <1>4, <1>6, Sizes DEF Merging, MergeStep
  <2>2. PICK k \in Parts : drain_cnt = 4 * k
    <3>1. drain_cnt \div 4 \in Parts /\ drain_cnt = 4 * (drain_cnt \div 4)
      BY <2>1, Sizes DEF Parts
    <3> QED
      BY <3>1
  <2>3. n = 4 * k + 1
    BY <1>4, <1>6, <2>2
  <2> QED
    BY <2>3
<1> QED
  BY <1>2, <1>5, <1>6, Zenon DEF MergeRegIs

LEMMA MergedStep ==
  ASSUME VecLen % 5 # 1, NEW t \in Times, ResultAt(t), NEW v, Clock(v),
         NEW u \in Times, u = After(t, v)
  PROVE  Merged(feat_latch', merge_r', merge', u)
<1> SUFFICES ASSUME u >= 3
             PROVE  /\ MergeRegIs(feat_latch', merge_r', DrainTime(u))
                    /\ TotalIs(feat_latch', merge', DrainTime(u))
  BY DEF Merged
<1>1. At(t) /\ Merged(feat_latch, merge_r, merge, t)
  BY DEF ResultAt
<1>2. t # 0 /\ t # Latency /\ u = t + 1 /\ t >= 2 /\ feat_latch' = feat_latch
  BY <1>1, SeqStep, Sizes DEF After, Times, At
<1>3. PICK d \in Int : d = DrainTime(t)
  BY Sizes DEF DrainTime, Times
<1>4. PICK n \in Int : n = d + 1
  BY <1>3
<1>5. n = DrainTime(u)
  BY <1>2, <1>3, <1>4, Sizes DEF DrainTime, Times
<1>6. MergeRegIs(feat_latch, merge_r', n)
  BY <1>1, <1>2, <1>3, <1>4, MergeRegStep
<1>7. merge' = AccStep(merge, merge_r.en, merge_r.addend, clear)
  BY DEF Clock, DpeClock, Datapath
<1>8. TotalIs(feat_latch, merge', n)
  <2>1. CASE t = 2
    <3>1. clear
      BY <1>1, <2>1 DEF At, DpeAt
    <3>2. merge' = ClearedAcc
      BY <1>7, <3>1 DEF AccStep
    <3>3. n < 0
      BY <1>3, <1>4, <2>1, Sizes DEF DrainTime
    <3> QED
      BY <3>2, <3>3, ClearedIsTotal
  <2>2. CASE t # 2
    <3>1. ~clear /\ t >= 3
      BY <1>1, <1>2, <2>2 DEF At, DpeAt, Times
    <3>2. merge' = AccStep(merge, merge_r.en, merge_r.addend, FALSE)
      BY <1>7, <3>1 DEF AccStep
    <3>3. MergeRegIs(feat_latch, merge_r, d) /\ TotalIs(feat_latch, merge, d)
      BY <1>1, <1>3, <3>1, Zenon DEF Merged
    <3>4. /\ merge_r.en <=> \E k \in Parts : d = 4 * k + 1
          /\ \A k \in Parts : d = 4 * k + 1 => Sums(feat_latch, merge_r.addend, Part(k))
      BY <3>3, Zenon DEF MergeRegIs
    <3>5. TotalIs(feat_latch, AccStep(merge, merge_r.en, merge_r.addend, FALSE), n)
      BY <1>4, <3>3, <3>4, TotalKeeps, Zenon
    <3> QED
      BY <3>2, <3>5, Zenon
  <2> QED
    BY <2>1, <2>2
<1> QED
  BY <1>2, <1>5, <1>6, <1>8, Zenon

LEMMA ResultStep ==
  ASSUME VecLen % 5 # 1 PROVE ResultInv /\ [Next]_coreVars => ResultInv'
<1> SUFFICES ASSUME ResultInv, [Next]_coreVars PROVE ResultInv'
  OBVIOUS
<1>1. PICK t \in Times : ResultAt(t)
  BY DEF ResultInv
<1>2. MemIs /\ MemIs' /\ At(t)
  BY <1>1, MemStep DEF ResultInv, ResultAt
<1>3. CASE UNCHANGED coreVars
  <2>1. At(t)'
    BY <1>2, <1>3 DEF coreVars, dpeVars, At, SeqAt, DpeAt
  <2>2. Merged(feat_latch', merge_r', merge', t)
    <3>1. feat_latch' = feat_latch /\ merge_r' = merge_r /\ merge' = merge
      BY <1>3 DEF coreVars, dpeVars
    <3> QED
      BY <1>1, <3>1, Zenon DEF ResultAt
  <2> QED
    BY <1>2, <2>1, <2>2 DEF ResultInv, ResultAt
<1>4. CASE Reset
  <2>1. (Idle => At(0))'
    BY IdleIsAt, PTL
  <2>2. At(0)' /\ 0 \in Times
    BY <1>4, <2>1, ResetIsIdle, Sizes DEF Times
  <2>3. ResultAt(0)'
    BY <2>2 DEF ResultAt, Merged
  <2> QED
    BY <1>2, <2>2, <2>3 DEF ResultInv
<1>5. ASSUME NEW v \in Vectors \cup {NoVector}, Clock(v) PROVE ResultInv'
  <2>1. PICK u \in Times : u = After(t, v)
    BY AfterIsTime
  <2>2. At(u)'
    BY <1>2, <1>5, <2>1, AtStep
  <2>3. Merged(feat_latch', merge_r', merge', u)
    BY <1>1, <1>5, <2>1, MergedStep
  <2> QED
    BY <1>2, <2>2, <2>3 DEF ResultInv, ResultAt
<1> QED
  BY <1>3, <1>4, <1>5 DEF Next

\* The result is the sum of every second partial sum, from the last but one
\* down, complete and without anything of an earlier vector: for 32 elements
\* that of the second and the fourth, for 4 that of the first and the third.
THEOREM ResultSumsEverySecond ==
  ASSUME VecLen % 5 # 1 PROVE Spec => []ResultIsEverySecond
<1>1. Init => ResultInv
  <2> SUFFICES ASSUME Init PROVE ResultInv
    OBVIOUS
  <2>1. merge_r.en = FALSE
    BY DEF Init, DpeInit
  <2>2. Idle
    BY <2>1 DEF Init, DpeInit, Idle
  <2>3. ResultAt(0) /\ 0 \in Times
    BY <2>2, IdleIsAt, Sizes DEF ResultAt, Merged, Times
  <2> QED
    BY <2>3, CoreInit DEF ResultInv, CoreInv
<1>2. ResultInv => ResultIsEverySecond
  <2> SUFFICES ASSUME ResultInv, result_valid
               PROVE  SumsUp(result, EverySecond(NumAccsUsed - 2))
    BY DEF ResultIsEverySecond
  <2>1. PICK t \in Times : ResultAt(t)
    BY DEF ResultInv
  <2>2. t = Latency /\ t >= 3
    BY <2>1, Sizes DEF ResultAt, At, DpeAt, Times, result_valid
  <2>3. PICK k \in Parts : k = NumAccsUsed - 2
    BY Sizes DEF Parts
  <2>4. PICK d \in Int : d = DrainTime(t)
    BY Sizes DEF DrainTime, Times
  <2>5. d \in 4 * k + 7 .. 4 * k + 10
    BY <2>2, <2>3, <2>4, Sizes DEF DrainTime
  <2>6. Sums(feat_latch, merge.reg, EverySecond(k))
    BY <2>1, <2>2, <2>4, <2>5, Zenon DEF ResultAt, Merged, TotalIs
  <2> QED
    BY <2>3, <2>6, SumsIsSumsUp DEF result
<1> QED
  BY <1>1, <1>2, ResultStep, PTL DEF Spec

\* Both together: the sums of the engine are known at every edge, for 4 and 32
\* elements and every other length that does not leave 1 on division by 5.
THEOREM EngineSumsAlways ==
  ASSUME VecLen % 5 # 1 PROVE Spec => []EngineSums
BY PartialsAreWhole, ResultSumsEverySecond, PTL DEF EngineSums
=============================================================================
