----------------------------- MODULE DotProduct -----------------------------
(***************************************************************************)
(* rtl/dot_product_engine.sv with its multiplier (rtl/bfloat16_mul.sv) and *)
(* its six accumulators (rtl/fp32_acc.sv).  Clock is one edge.             *)
(*                                                                         *)
(* A number is abstracted to the sequence of products summed up in it: <<>> *)
(* is zero and the sum of two numbers is their concatenation.  What remains *)
(* is which products a result is made of, and how often.                   *)
(***************************************************************************)
EXTENDS Integers, Sequences

CONSTANT VecLen   \* VEC_LEN: 4 in v1, 32 in v2

ASSUME VecLenAssumption == VecLen \in 4 .. 32

NumAccsUsed == IF VecLen >= 5 THEN 5 ELSE VecLen
MergeStep == 4
DrainLastEn == (NumAccsUsed - 1) * MergeStep
DrainExit == DrainLastEn + 5

VARIABLES
  state,        \* S_IDLE, S_STREAM, S_DRAIN, S_DONE
  mac_elem, mac_drain, mac_last_fed, drain_cnt,
  clear,        \* acc_clear and merge_clear, which always agree
  mac_pipe,     \* mac_pipe_elem where mac_pipe_valid, else NoElem
  mul,          \* the two stages of the multiplier
  accs,         \* u_acc0 .. u_acc4
  merge,        \* u_merge
  merge_r       \* merge_en_r and merge_addend_r

dpeVars == <<state, mac_elem, mac_drain, mac_last_fed, drain_cnt, clear, mac_pipe,
             mul, accs, merge, merge_r>>

Accs == 0 .. 4
NoElem == -1
Zero == <<>>

-----------------------------------------------------------------------------
\* fp32_acc: en[i] is acc_en_d<i>; stage[1 .. 4] are the registers of stages
\* A0, A0.5, A1 and B1, all of them holding one addition under way.
ClearedAcc == [en |-> [i \in 1 .. 5 |-> FALSE], stage |-> [i \in 1 .. 4 |-> Zero],
               partial |-> Zero, reg |-> Zero]

\* acc_fb, the operand fed back.
Feedback(a) == IF a.en[5] THEN a.partial ELSE a.reg

AccStep(a, acc_en, addend, acc_clear) ==
  IF acc_clear THEN ClearedAcc
  ELSE [en |-> [i \in 1 .. 5 |-> IF i = 1 THEN acc_en ELSE a.en[i - 1]],
        stage |-> [i \in 1 .. 4 |->
                     IF i = 1 THEN IF acc_en THEN Feedback(a) \o addend ELSE a.stage[1]
                     ELSE IF a.en[i - 1] THEN a.stage[i - 1] ELSE a.stage[i]],
        partial |-> IF a.en[4] THEN a.stage[4] ELSE a.partial,
        reg |-> IF a.en[5] THEN a.partial ELSE a.reg]

DpeInit ==
  /\ state = "IDLE"
  /\ mac_elem = 0 /\ mac_drain = 0 /\ mac_last_fed = FALSE /\ drain_cnt = 0
  /\ clear = FALSE
  /\ mac_pipe = <<NoElem, NoElem>>
  /\ mul = <<Zero, Zero>>
  /\ accs = [i \in Accs |-> ClearedAcc]
  /\ merge = ClearedAcc
  /\ merge_r = [en |-> FALSE, addend |-> Zero]

\* rst.
DpeReset ==
  /\ state' = "IDLE"
  /\ mac_elem' = 0 /\ mac_drain' = 0 /\ mac_last_fed' = FALSE /\ drain_cnt' = 0
  /\ clear' = FALSE
  /\ mac_pipe' = <<NoElem, NoElem>>
  /\ mul' = <<Zero, Zero>>
  /\ accs' = [i \in Accs |-> ClearedAcc]
  /\ merge' = ClearedAcc
  /\ merge_r' = [en |-> FALSE, addend |-> Zero]

result_valid == state = "DONE"
result == merge.reg

\* A product enters while streaming.
Feeds(feature_valid) == state = "STREAM" /\ ~mac_last_fed /\ feature_valid

\* Accumulator drain_cnt \div MergeStep is selected for the merge.
Merging == drain_cnt % MergeStep = 0 /\ drain_cnt <= DrainLastEn

\* The multiplier, the accumulators it feeds and the one that merges them.
Datapath(feature_valid, product) ==
  /\ mul' = <<IF Feeds(feature_valid) THEN <<product>> ELSE Zero, mul[1]>>
  /\ mac_pipe' = <<IF Feeds(feature_valid) THEN mac_elem ELSE NoElem, mac_pipe[1]>>
  /\ accs' = [i \in Accs |->
                AccStep(accs[i], mac_pipe[2] # NoElem /\ mac_pipe[2] % 5 = i, mul[2], clear)]
  /\ merge_r' = [en |-> state = "DRAIN" /\ Merging,
                 addend |-> IF Merging
                              THEN accs[drain_cnt \div MergeStep].reg ELSE Zero]
  /\ merge' = AccStep(merge, merge_r.en, merge_r.addend, clear)

StartClears(start) == start
IdleState(start) ==
  /\ state = "IDLE"
  /\ mac_last_fed' = FALSE
  /\ IF start THEN mac_elem' = 0 /\ mac_drain' = 0 /\ state' = "STREAM"
              ELSE UNCHANGED <<mac_elem, mac_drain, state>>
  /\ clear' = StartClears(start)
  /\ UNCHANGED drain_cnt

StreamFeed(feature_valid) ==
  /\ state = "STREAM" /\ ~mac_last_fed
  /\ IF ~feature_valid THEN UNCHANGED <<mac_elem, mac_drain, mac_last_fed>>
     ELSE IF mac_elem = VecLen - 1
       THEN mac_last_fed' = TRUE /\ mac_drain' = 0 /\ UNCHANGED mac_elem
       ELSE mac_elem' = mac_elem + 1 /\ UNCHANGED <<mac_drain, mac_last_fed>>
  /\ clear' = FALSE
  /\ UNCHANGED <<state, drain_cnt>>

StreamDrain_short == mac_drain = 3
StreamDrained == mac_drain = 5
StreamDrain ==
  /\ state = "STREAM" /\ mac_last_fed
  /\ IF StreamDrained
       THEN drain_cnt' = 0 /\ state' = "DRAIN" /\ UNCHANGED mac_drain
       ELSE mac_drain' = mac_drain + 1 /\ UNCHANGED <<drain_cnt, state>>
  /\ clear' = FALSE
  /\ UNCHANGED <<mac_elem, mac_last_fed>>

DrainState ==
  /\ state = "DRAIN"
  /\ drain_cnt' = drain_cnt + 1
  /\ state' = IF drain_cnt = DrainExit THEN "DONE" ELSE "DRAIN"
  /\ clear' = FALSE
  /\ UNCHANGED <<mac_elem, mac_drain, mac_last_fed>>

DoneState ==
  /\ state = "DONE"
  /\ state' = "IDLE"
  /\ clear' = FALSE
  /\ UNCHANGED <<mac_elem, mac_drain, mac_last_fed, drain_cnt>>

DpeClock(start, feature_valid, product) ==
  /\ Datapath(feature_valid, product)
  /\ \/ IdleState(start)
     \/ StreamFeed(feature_valid)
     \/ StreamDrain
     \/ DrainState
     \/ DoneState
=============================================================================
