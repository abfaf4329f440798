------------------------- MODULE FunctionalCoverage -------------------------
(***************************************************************************)
(* tb/cocotb/coverage/functional_coverage.py: coverpoints with named bins, *)
(* crosses of two coverpoints, and the two closure criteria built on them. *)
(* A bin is covered or not; its count beyond the first is left out.  A bin *)
(* is a range of numbers, or the one number a flag or a name stands for.   *)
(***************************************************************************)
EXTENDS Integers, FiniteSetsExt

CONSTANTS
  MsgTypes, Prices, MsgCounts, CamIndices, DropCounts   \* values sampled

ASSUME SampleAssumption ==
  /\ MsgTypes \subseteq Nat /\ Prices \subseteq Nat /\ MsgCounts \subseteq Nat
  /\ CamIndices \subseteq Nat /\ DropCounts \subseteq Nat

In(lo, hi) == [lo |-> lo, hi |-> hi]
Is(v) == In(v, v)

\* The bins of every coverpoint.  Sides, sequence states and flags are numbers:
\* buy and True are 1; accepted, dropped_gap and dropped_dup are 0, 1 and 2.
Bins == [msg_type       |-> [add_order |-> Is(65)],
         price_range    |-> [penny |-> In(1, 99), dollar |-> In(100, 9999),
                             large |-> In(10000, 500000)],
         side           |-> [buy |-> Is(1), sell |-> Is(0)],
         seq_state      |-> [accepted |-> Is(0), dropped_gap |-> Is(1), dropped_dup |-> Is(2)],
         msg_count      |-> [single |-> Is(1), burst |-> In(2, 15), max_burst |-> In(16, 65535)],
         cam_result     |-> [hit |-> Is(1), miss |-> Is(0)],
         cam_index      |-> [lo |-> In(0, 15), mid |-> In(16, 47), hi |-> In(48, 63)],
         back_to_back   |-> [isolated |-> Is(0), consecutive |-> Is(1)],
         drop_event     |-> [no_drop |-> Is(0), dropped |-> Is(1)],
         dropped_frames |-> [zero |-> Is(0), low |-> In(1, 9), high |-> In(10, 2147483647)]]

Coverpoints == DOMAIN Bins
Crosses == {<<"price_range", "side">>, <<"seq_state", "msg_count">>}

VARIABLES
  point_hit,   \* coverpoint -> its bins with a count above zero
  cross_hit,   \* cross -> its pairs with a count above zero
  sampled      \* ghost: the samples of the crossed coverpoints, as pairs of values

coverVars == <<point_hit, cross_hit, sampled>>

BinsOf(cp, v) == {b \in DOMAIN Bins[cp] : Bins[cp][b].lo <= v /\ v <= Bins[cp][b].hi}
PairsOf(x, va, vb) == BinsOf(x[1], va) \X BinsOf(x[2], vb)

\* A sample is a value for some of the coverpoints.
PointsHit(values) ==
  [cp \in Coverpoints |-> IF cp \in DOMAIN values
                          THEN point_hit[cp] \cup BinsOf(cp, values[cp]) ELSE point_hit[cp]]

\* Slip: the cross is made up from the bins covered so far.
PairsHit_points(values) ==
  [x \in Crosses |-> IF x[1] \in DOMAIN values
                     THEN PointsHit(values)[x[1]] \X PointsHit(values)[x[2]] ELSE cross_hit[x]]

\* A pair of a cross is hit by one sample that hits both of its bins.
PairsHit(values) ==
  [x \in Crosses |-> IF x[1] \in DOMAIN values
                     THEN cross_hit[x] \cup PairsOf(x, values[x[1]], values[x[2]])
                     ELSE cross_hit[x]]

CoverInit ==
  /\ point_hit = [cp \in Coverpoints |-> {}]
  /\ cross_hit = [x \in Crosses |-> {}]
  /\ sampled = [x \in Crosses |-> {}]

Take(values) ==
  /\ point_hit' = PointsHit(values)
  /\ cross_hit' = PairsHit(values)
  /\ sampled' = [x \in Crosses |-> IF x[1] \in DOMAIN values
                                   THEN sampled[x] \cup {<<values[x[1]], values[x[2]]>>}
                                   ELSE sampled[x]]

Sample == \E t \in MsgTypes, p \in Prices, s \in 0 .. 1 :
            Take([msg_type |-> t, price_range |-> p, side |-> s])
SampleMoldUDP64 == \E q \in 0 .. 2, n \in MsgCounts :
                     Take([seq_state |-> q, msg_count |-> n])
\* The index is sampled on a miss as well.
SampleSymbolFilter == \E h, b \in 0 .. 1, i \in CamIndices :
                        Take([cam_result |-> h, cam_index |-> i, back_to_back |-> b])
SampleEthDrop == \E d \in 0 .. 1, n \in DropCounts :
                   Take([drop_event |-> d, dropped_frames |-> n])

-----------------------------------------------------------------------------
PointFull(cp) == point_hit[cp] = DOMAIN Bins[cp]
CrossFull(x) == cross_hit[x] = (DOMAIN Bins[x[1]]) \X (DOMAIN Bins[x[2]])

\* is_covered does not ask for msg_type, back_to_back and dropped_frames.
IsCovered == /\ \A cp \in {"price_range", "side", "seq_state", "msg_count",
                           "cam_result", "cam_index", "drop_event"} : PointFull(cp)
             /\ \A x \in Crosses : CrossFull(x)

\* overall_pct: bins covered of all coverpoints and crosses, and bins there are.
CoveredBins == MapThenSumSet(LAMBDA cp : Cardinality(point_hit[cp]), Coverpoints)
               + MapThenSumSet(LAMBDA x : Cardinality(cross_hit[x]), Crosses)
TotalBins == MapThenSumSet(LAMBDA cp : Cardinality(DOMAIN Bins[cp]), Coverpoints)
             + MapThenSumSet(LAMBDA x : Cardinality(DOMAIN Bins[x[1]])
                                        * Cardinality(DOMAIN Bins[x[2]]), Crosses)

\* A cross that counts as full, as closure demands of both, has had each of its
\* pairs hit by some one sample; and 100% overall implies closure.
ClosureNeedsEveryPair ==
  /\ \A x \in Crosses : CrossFull(x) =>
       \A a \in DOMAIN Bins[x[1]], b \in DOMAIN Bins[x[2]] :
         \E v \in sampled[x] : a \in BinsOf(x[1], v[1]) /\ b \in BinsOf(x[2], v[2])
  /\ CoveredBins = TotalBins => IsCovered
=============================================================================
