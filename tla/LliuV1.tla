------------------------------- MODULE LliuV1 -------------------------------
(***************************************************************************)
(* rtl/lliu_top.sv, the first version of the pipeline: parser, feature     *)
(* extractor, sequencer, weights, dot product engine and output buffer.    *)
(* Clock is one edge.  A message is a record with its number, type, length *)
(* and fields; a product is its value and the number of its message.       *)
(***************************************************************************)
EXTENDS Integers, Sequences

CONSTANTS NoBeat, NoMsg, NoData

FEATURE_VEC_LEN == 4

VARIABLES
  parser,                  \* state, byte_cnt, the message in msg_buf
  fields,                  \* the registered fields, NoMsg when not valid
  last_price, order_flow,
  fx1, fx2,                \* stages 1 and 2 of the feature extractor
  features, feat_valid,
  seq_state, seq_idx, dp_start, dp_feature_valid, dp_feature_in,
  weights, wgt_rd_data,
  result_out, result_ready,
  dpe_state, dpe_elem, dpe_drain, dpe_last_fed, dpe_cnt, dpe_clear, dpe_pipe, dpe_mul,
  dpe_accs, dpe_merge, dpe_merge_r   \* DotProduct

Dpe == INSTANCE DotProduct WITH
  VecLen <- FEATURE_VEC_LEN, state <- dpe_state, mac_elem <- dpe_elem,
  mac_drain <- dpe_drain, mac_last_fed <- dpe_last_fed, drain_cnt <- dpe_cnt,
  clear <- dpe_clear, mac_pipe <- dpe_pipe, mul <- dpe_mul, accs <- dpe_accs,
  merge <- dpe_merge, merge_r <- dpe_merge_r

NoFeature == [msg |-> 0, val |-> 0]

V1Reset ==
  /\ parser = [state |-> "IDLE", byte_cnt |-> 0, msg |-> NoMsg]
  /\ fields = NoMsg /\ fx1 = NoMsg /\ fx2 = NoMsg
  /\ last_price = 0 /\ order_flow = 0
  /\ features = [i \in 1 .. FEATURE_VEC_LEN |-> NoFeature] /\ feat_valid = FALSE
  /\ seq_state = "IDLE" /\ seq_idx = 0
  /\ dp_start = FALSE /\ dp_feature_valid = FALSE /\ dp_feature_in = NoFeature
  /\ weights = [i \in 0 .. FEATURE_VEC_LEN - 1 |-> 0] /\ wgt_rd_data = 0
  /\ result_out = << >> /\ result_ready = FALSE
  /\ Dpe!DpeInit

-----------------------------------------------------------------------------
pipeline_hold == feat_valid \/ seq_state # "IDLE"
s_axis_tready == parser.state # "EMIT" /\ ~pipeline_hold
status_busy == seq_state # "IDLE"

\* itch_parser: six bytes of the body come with the first beat, eight with each
\* later one; a message cut short by tlast is given up.
Parse(beat) ==
  LET got == IF parser.state = "IDLE" THEN 6 ELSE (parser.byte_cnt + 8) % 128
      whole == IF parser.state = "IDLE" THEN beat.msg.len <= 6
               ELSE parser.byte_cnt + 8 >= parser.msg.len
  IN  parser' = IF parser.state = "EMIT" THEN [parser EXCEPT !.state = "IDLE"]
                ELSE IF beat = NoBeat \/ ~s_axis_tready THEN parser
                ELSE [state |-> IF whole THEN "EMIT" ELSE IF beat.last THEN "IDLE" ELSE "ACC",
                      byte_cnt |-> got,
                      msg |-> IF parser.state = "IDLE" THEN beat.msg ELSE parser.msg]

\* itch_field_extract: only Add Orders are valid.
Extract == fields' = IF parser.state = "EMIT" /\ parser.msg.type = "A" THEN parser.msg
                     ELSE NoMsg

\* The highest eight bits: 2^e is the place of the lowest of them.
Truncated(m) == LET e == CHOOSE e \in 0 .. 23 : m \div 2 ^ e \in 0 .. 255
                                  /\ (e = 0 \/ m \div 2 ^ e >= 128)
                IN  (m \div 2 ^ e) * 2 ^ e
mag_to_bf16(v) == IF v < 0 THEN -Truncated(-v) ELSE Truncated(v)

\* feature_extractor: its three stages.
FeatureClock ==
  LET m == fields
      side == IF m.side = "B" THEN 1 ELSE -1
  IN  /\ IF m = NoMsg THEN fx1' = NoMsg /\ UNCHANGED <<last_price, order_flow>>
         ELSE /\ fx1' = [msg |-> m.n, val |-> <<m.price - last_price, side,
                                                order_flow + side, m.price>>]
              /\ last_price' = m.price /\ order_flow' = order_flow + side
      /\ fx2' = fx1
      /\ feat_valid' = (fx2 # NoMsg)
      /\ features' = IF fx2 = NoMsg THEN features
                     ELSE [i \in 1 .. FEATURE_VEC_LEN |->
                             [msg |-> fx2.msg, val |-> mag_to_bf16(fx2.val[i])]]

\* The sequencer: start, one cycle for the first weight, then the features.
Sequence ==
  /\ dp_start' = (seq_state = "IDLE" /\ feat_valid)
  /\ dp_feature_valid' = (seq_state = "FEED")
  /\ dp_feature_in' = IF seq_state = "FEED" THEN features[seq_idx + 1] ELSE dp_feature_in
  /\ seq_state' = IF seq_state = "IDLE" THEN IF feat_valid THEN "PRELOAD" ELSE "IDLE"
                  ELSE IF seq_state = "FEED" /\ seq_idx = FEATURE_VEC_LEN - 1 THEN "IDLE"
                  ELSE "FEED"
  /\ seq_idx' = IF seq_state = "IDLE" /\ feat_valid THEN 0
                ELSE IF seq_state = "FEED" /\ seq_idx # FEATURE_VEC_LEN - 1 THEN seq_idx + 1
                ELSE seq_idx

\* weight_mem and output_buffer.  A result that is read stays ready.
Memories(wgt_addr, wgt_wr) ==
  /\ weights' = IF wgt_wr = NoData THEN weights ELSE [weights EXCEPT ![wgt_addr] = wgt_wr]
  /\ wgt_rd_data' = weights[seq_idx]
  /\ result_out' = IF Dpe!result_valid THEN Dpe!result ELSE result_out
  /\ result_ready' = (result_ready \/ Dpe!result_valid)

Clock(beat, wgt_addr, wgt_wr) ==
  /\ Parse(beat) /\ Extract /\ FeatureClock /\ Sequence
  /\ Memories(wgt_addr, wgt_wr)
  /\ Dpe!DpeClock(dp_start, dp_feature_valid,
                  [msg |-> dp_feature_in.msg, val |-> dp_feature_in.val * wgt_rd_data])
=============================================================================
