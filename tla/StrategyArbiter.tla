-------------------------- MODULE StrategyArbiter --------------------------
(***************************************************************************)
(* rtl/strategy_arbiter.sv: a tournament of eight cores in three levels    *)
(* with a register after each.  Clock is one edge; its parameters are the  *)
(* inputs the edge samples.  Scores are compared as the unsigned integers  *)
(* their bits spell.                                                       *)
(***************************************************************************)
EXTENDS Integers

VARIABLES
  lv0_r,   \* winners of the four pairs
  lv1_r,   \* winners of the two halves
  best     \* best_score, best_core_id, best_valid, best_side

arbVars == <<lv0_r, lv1_r, best>>

Cores == 0 .. 7
ResetNode == [score |-> 0, id |-> 0, valid |-> FALSE, side |-> 0]

-----------------------------------------------------------------------------
\* The gate: a core takes part if it is valid and not below the threshold.
Gated(core, thresh) == core.valid /\ core.score >= thresh
Leaf(cores, thresh, k) == [score |-> cores[k].score, id |-> k,
                           valid |-> Gated(cores[k], thresh), side |-> cores[k].side]

\* One comparator: of two valid nodes the higher score, of equal ones the
\* first; of two invalid nodes the first.
SecondWins(a, b) == b.valid /\ (a.valid => a.score < b.score)
Play(a, b) == IF SecondWins(a, b) THEN b ELSE a

Half(cores, thresh, h) ==
  Play(Play(Leaf(cores, thresh, 4 * h), Leaf(cores, thresh, 4 * h + 1)),
       Play(Leaf(cores, thresh, 4 * h + 2), Leaf(cores, thresh, 4 * h + 3)))

\* What the tree makes of inputs that do not change while they pass through.
Winner(cores, thresh) == Play(Half(cores, thresh, 0), Half(cores, thresh, 1))

Init ==
  /\ lv0_r = [i \in 0 .. 3 |-> ResetNode]
  /\ lv1_r = [i \in 0 .. 1 |-> ResetNode]
  /\ best = ResetNode

Clock(cores, thresh) ==
  /\ lv0_r' = [i \in 0 .. 3 |-> Play(Leaf(cores, thresh, 2 * i), Leaf(cores, thresh, 2 * i + 1))]
  /\ lv1_r' = [i \in 0 .. 1 |-> Play(lv0_r[2 * i], lv0_r[2 * i + 1])]
  /\ best' = Play(lv1_r[0], lv1_r[1])

Reset ==
  /\ lv0_r' = [i \in 0 .. 3 |-> ResetNode]
  /\ lv1_r' = [i \in 0 .. 1 |-> ResetNode]
  /\ best' = ResetNode

-----------------------------------------------------------------------------
\* Node w is the first of the highest scores that reach the threshold, or
\* there is none.
IsFirstMaximum(w, cores, thresh) ==
  LET In(k) == cores[k].valid /\ cores[k].score >= thresh
  IN  /\ w.valid <=> \E k \in Cores : In(k)
      /\ w.valid => /\ w.id \in Cores /\ In(w.id)
                    /\ w.score = cores[w.id].score
                    /\ w.side = cores[w.id].side
                    /\ \A k \in Cores : In(k) =>
                         /\ cores[k].score <= w.score
                         /\ k < w.id => cores[k].score < w.score
=============================================================================
