---------------------------- MODULE GoldenModel ----------------------------
(***************************************************************************)
(* What the tests of the pipeline are given and compare with:              *)
(* drivers/itch_feeder.py, utils/itch_decoder.py, models/golden_model.py   *)
(* and scoreboard/scoreboard.py.  A message is a record; numbers are       *)
(* integers below 2^24, which a float32 holds exactly.                     *)
(***************************************************************************)
EXTENDS Integers, SequencesExt

\* A chunk of a file: type and length of a message, and whether all of it is
\* there.  Reading stops at an empty or incomplete one; 0 is no maximum.
parse_file(file, msg_types, max_messages) ==
  LET bad == {i \in DOMAIN file : file[i].len = 0 \/ ~file[i].whole}
      read == SubSeq(file, 1, IF bad = {} THEN Len(file) ELSE Min(bad) - 1)
      kept == FlattenSeq([i \in DOMAIN read |->
                            IF read[i].type \in msg_types THEN <<read[i]>> ELSE << >>])
  IN  IF max_messages # 0 /\ Len(kept) > max_messages
        THEN SubSeq(kept, 1, max_messages) ELSE kept

ADD_ORDER_LEN == 36
encode_add_order(order_ref, side, price) ==
  [n |-> order_ref, type |-> "A", len |-> ADD_ORDER_LEN, side |-> side, price |-> price]

parse_add_order(m) == [order_ref |-> m.n, side |-> IF m.side = "B" THEN 1 ELSE 0,
                       price |-> m.price]

\* float_to_bfloat16 and back: the lower 16 bits of the float32 are cut off.
bfloat16(v) ==
  LET m == IF v < 0 THEN -v ELSE v
      place == CHOOSE e \in 0 .. 16 : m < 256 * 2 ^ e /\ (e = 0 \/ m >= 128 * 2 ^ e)
      cut == m - (m % 2 ^ place)
  IN  IF v < 0 THEN -cut ELSE cut

\* last_price is that of the message before; the order flow is not tracked.
extract_features(f, last_price) ==
  <<f.price - last_price, IF f.side = 1 THEN 1 ELSE -1, 0, f.price>>

inference(features, weights) ==
  FoldSeq(+, 0, [i \in DOMAIN features |-> bfloat16(features[i]) * bfloat16(weights[i])])

\* The results expected of a list of Add Orders, one after the other; the tests
\* keep the order flow.
expected_of(adds, weights) ==
  LET fields(i) == parse_add_order(adds[i])
      last(i) == IF i = 1 THEN 0 ELSE adds[i - 1].price
      flow(i) == FoldSeq(LAMBDA m, t : t + (IF m.side = "B" THEN 1 ELSE -1), 0,
                         SubSeq(adds, 1, i))
  IN  [i \in DOMAIN adds |->
         inference([extract_features(fields(i), last(i)) EXCEPT ![3] = flow(i)], weights)]

\* Scoreboard.check of one pair, with tolerance 0.05.
Magnitude(v) == IF v < 0 THEN -v ELSE v
matches(exp, act) == IF exp = 0 THEN act = 0
                     ELSE 20 * Magnitude(act - exp) < Magnitude(exp)
mismatches(expected, actual) ==
  {i \in DOMAIN actual : i > Len(expected) \/ ~matches(expected[i], actual[i])}
=============================================================================
