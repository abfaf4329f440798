------------------------------ MODULE LliuCore ------------------------------
(***************************************************************************)
(* rtl/lliu_core.sv: the sequencer that feeds a latched feature vector and *)
(* the weights (rtl/weight_mem.sv) to the dot-product engine.              *)
(*                                                                         *)
(* A feature vector is one model value; a product is the record of what    *)
(* was multiplied.                                                         *)
(***************************************************************************)
EXTENDS DotProduct, FiniteSets

CONSTANTS
  Vectors, NoVector,
  Weights, ResetWeight,
  MayWrite, MayReset   \* whether weights are written and rst comes

ASSUME CoreAssumption == NoVector \notin Vectors /\ ResetWeight \in Weights

VARIABLES
  seq_state,    \* SEQ_IDLE, SEQ_PRELOAD, SEQ_FEED, SEQ_WAIT
  seq_idx,
  feat_latch,
  dp_start, dp_feature_valid,
  dp_feature_in,  \* the vector and the element fed
  mem,          \* weight_mem
  rd_data       \* its output, with the address it came from

coreVars == <<dpeVars, seq_state, seq_idx, feat_latch, dp_start, dp_feature_valid,
              dp_feature_in, mem, rd_data>>

Elements == 0 .. VecLen - 1
NoFeature == [vector |-> NoVector, elem |-> 0]

Init ==
  /\ DpeInit
  /\ seq_state = "IDLE" /\ seq_idx = 0
  /\ feat_latch = NoVector
  /\ dp_start = FALSE /\ dp_feature_valid = FALSE
  /\ dp_feature_in = NoFeature
  /\ mem = [i \in Elements |-> ResetWeight]
  /\ rd_data = [addr |-> 0, weight |-> ResetWeight]

SeqIdle(v) ==
  /\ seq_state = "IDLE"
  /\ dp_start' = (v # NoVector)
  /\ IF v = NoVector THEN UNCHANGED <<feat_latch, seq_idx, seq_state>>
                     ELSE feat_latch' = v /\ seq_idx' = 0 /\ seq_state' = "PRELOAD"
  /\ dp_feature_valid' = FALSE
  /\ UNCHANGED dp_feature_in

SeqPreload ==
  /\ seq_state = "PRELOAD"
  /\ seq_state' = "FEED"
  /\ dp_start' = FALSE /\ dp_feature_valid' = FALSE
  /\ UNCHANGED <<feat_latch, seq_idx, dp_feature_in>>

AtLastElement == seq_idx = VecLen - 1
SeqFeed ==
  /\ seq_state = "FEED"
  /\ dp_feature_in' = [vector |-> feat_latch, elem |-> seq_idx]
  /\ dp_feature_valid' = TRUE
  /\ IF AtLastElement THEN seq_idx' = 0 /\ seq_state' = "WAIT"
                             ELSE seq_idx' = seq_idx + 1 /\ UNCHANGED seq_state
  /\ dp_start' = FALSE
  /\ UNCHANGED feat_latch

SeqWait_short == mac_last_fed
SeqWaitOver == result_valid
SeqWait ==
  /\ seq_state = "WAIT"
  /\ seq_state' = IF SeqWaitOver THEN "IDLE" ELSE "WAIT"
  /\ dp_start' = FALSE /\ dp_feature_valid' = FALSE
  /\ UNCHANGED <<feat_latch, seq_idx, dp_feature_in>>

\* The read port returns what was there before a write of the same edge.
ReadAddress == seq_idx
WeightRead == rd_data' = [addr |-> ReadAddress, weight |-> mem[ReadAddress]]
NoWeightWrite == UNCHANGED mem
WeightWrite(i, w) == mem' = [mem EXCEPT ![i] = w]

Product == [feature |-> dp_feature_in, weight |-> rd_data]

Clock(v) ==
  /\ DpeClock(dp_start, dp_feature_valid, Product)
  /\ WeightRead
  /\ SeqIdle(v) \/ SeqPreload \/ SeqFeed \/ SeqWait

\* rst clears all but the weights.
Reset ==
  /\ DpeReset
  /\ seq_state' = "IDLE" /\ seq_idx' = 0
  /\ feat_latch' = NoVector
  /\ dp_start' = FALSE /\ dp_feature_valid' = FALSE
  /\ dp_feature_in' = NoFeature
  /\ UNCHANGED mem
  /\ rd_data' = [addr |-> 0, weight |-> ResetWeight]

-----------------------------------------------------------------------------
\* Vectors and weight writes arrive in any cycle, and so may rst.
Next ==
  \/ /\ \E v \in Vectors \cup {NoVector} : Clock(v)
     /\ \/ NoWeightWrite
        \/ MayWrite /\ \E i \in Elements, w \in Weights : WeightWrite(i, w)
  \/ MayReset /\ Reset

\* The clock does not stop.
Spec == Init /\ [][Next]_coreVars /\ WF_coreVars(Next)

\* s sums up the products of the elements E of the latched vector, each with
\* the weight of its own index, each once.
SumsUp(s, E) ==
  LET summands == {s[i] : i \in DOMAIN s}
  IN  /\ Len(s) = Cardinality(E)
      /\ {p.feature.elem : p \in summands} = E
      /\ \A p \in summands : p.feature.vector = feat_latch /\ p.weight.addr = p.feature.elem

\* When an accumulator is read for the merge, it has absorbed its elements,
\* all of them (dot_product_engine.sv's drain of six cycles); and none of what
\* is summed up was multiplied for an earlier vector, even one that rst cut short.
PartialsWhole ==
  /\ state = "DRAIN" /\ Merging =>
       LET k == drain_cnt \div MergeStep
       IN  SumsUp(accs[k].reg, {i \in Elements : i % 5 = k})
  /\ seq_state = "WAIT" =>
       \A a \in {accs[i] : i \in Accs} \cup {merge} :
         \A s \in {a.reg, a.partial} \cup {a.stage[i] : i \in DOMAIN a.stage} :
           \A i \in DOMAIN s : s[i].feature.vector = feat_latch

\* "This makes back-to-back accumulation safe for any acc_en spacing >= 4":
\* the result sums up the whole vector.
ResultWhole == result_valid => SumsUp(result, Elements)

\* The elements of accumulator k, of the one two before it, and so on.
EverySecond(k) == {i \in Elements : i % 5 <= k /\ (k - (i % 5)) % 2 = 0}

\* What the result does sum up: partial sums reach u_merge every four edges and
\* its sum comes back after five, so that each is added to the sum before the
\* last, and result is read just before the last one is in the register.
ResultIsEverySecond ==
  result_valid => SumsUp(result, EverySecond(NumAccsUsed - 2))

\* What the engine sums up, from the accumulators to the result: no more, no
\* less, and nothing twice, whatever came before.
EngineSums == PartialsWhole /\ ResultIsEverySecond

\* Cycles until result_valid is gone.
Latency == VecLen + 10 + DrainExit
CyclesLeft ==
  CASE seq_state = "IDLE" -> 0
    [] seq_state = "PRELOAD" -> Latency
    [] seq_state = "FEED" -> Latency - 1 - seq_idx
    [] seq_state = "WAIT" /\ state = "STREAM" ->
         IF mac_last_fed THEN Latency - 2 - VecLen - mac_drain ELSE Latency - 1 - VecLen
    [] seq_state = "WAIT" /\ state = "DRAIN" -> Latency - 8 - VecLen - drain_cnt
    [] OTHER -> 1

\* The core takes a vector exactly when idle and answers Latency cycles later,
\* as rtl/lliu_top_v2.sv and the cores in lockstep with it rely on.
Timing == INSTANCE CoreTiming WITH left <- CyclesLeft, vector <- feat_latch
KeepsTiming == Timing!Spec
=============================================================================
