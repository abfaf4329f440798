------------------------------ MODULE RiskFeed ------------------------------
(***************************************************************************)
(* RiskCheck driven by orders at least Gap cycles apart, a kill switch     *)
(* that is set once and for all, and an overflow flag that comes and goes. *)
(* net, since_order and vetoed only observe.                               *)
(***************************************************************************)
EXTENDS RiskCheck

CONSTANTS
  Gap,        \* least distance, in cycles, between two orders
  MayReset    \* whether rst may be asserted

ASSUME GapAssumption == Gap \in Nat \ {0}

Depth == 6    \* edges from score_valid to the verdict
Edges == 1 .. Depth

VARIABLES
  kill_sw,      \* the AXI4-Lite kill switch: write 1 to set
  tx_overflow,
  net,          \* true net position: the sum of all orders that passed
  since_order,  \* cycles since the last order entered, up to Gap
  vetoed        \* vetoed[i]: i edges ago an order entered under a veto

feedVars == <<vars, kill_sw, tx_overflow, net, since_order, vetoed>>

FeedInit ==
  /\ Init
  /\ kill_sw = FALSE /\ tx_overflow = FALSE
  /\ net = [s \in Symbols |-> 0]
  /\ since_order = Gap
  /\ vetoed = [i \in Edges |-> FALSE]

Change(o) == IF o.side = Buy THEN o.shares ELSE -o.shares

\* A verdict of "pass" is what the position is charged for.
Charge ==
  net' = IF verdict'.is = "pass"
           THEN [net EXCEPT ![verdict'.order.sym] = @ + Change(verdict'.order)]
           ELSE net

Cycle(o) ==
  /\ o # None => since_order >= Gap
  /\ Clock(o, kill_sw, tx_overflow)
  /\ Charge
  /\ since_order' = IF o # None THEN 1
                    ELSE IF since_order < Gap THEN since_order + 1 ELSE Gap
  /\ kill_sw' \in {kill_sw, TRUE}
  /\ tx_overflow' \in BOOLEAN
  /\ vetoed' = [i \in Edges |-> IF i = 1 THEN o # None /\ (kill_sw \/ tx_overflow)
                                ELSE vetoed[i - 1]]

FeedReset ==
  /\ MayReset
  /\ Reset
  /\ kill_sw' = FALSE /\ tx_overflow' = FALSE
  /\ vetoed' = [i \in Edges |-> FALSE]
  /\ since_order' = Gap
  /\ UNCHANGED net

FeedNext == (\E o \in Order \cup {None} : Cycle(o)) \/ FeedReset

FeedSpec == FeedInit /\ [][FeedNext]_feedVars

-----------------------------------------------------------------------------
\* No symbol's net position ever exceeds the limit, however orders, vetoes
\* and write-backs overlap in the pipeline.
NetWithinLimit == \A s \in Symbols : -PosLimit <= net[s] /\ net[s] <= PosLimit

\* The stored position, with the write-back on its way, is the sum of the
\* orders that passed: none is charged twice, lost or charged elsewhere.
PositionExact ==
  \A s \in Symbols :
    net[s] = IF pos_wr # None /\ pos_wr.sym = s THEN pos_wr.net ELSE pos_mem[s]

\* An order that enters while the kill switch or the transmit-overflow flag is up
\* does not pass, whatever either does until its verdict: so nothing passes once
\* one of them has been up for the depth of the pipeline.
KillHolds == vetoed[Depth] => ~risk_pass

\* No order passes that is twice the band away from the reference, and none
\* within the band is rejected for it.
BandHolds ==
  /\ risk_pass => WithinBps(verdict.order.quote, 2 * verdict.order.quote.bps)
  /\ verdict.is = "band" =>
       ~WithinBps(verdict.order.quote, verdict.order.quote.bps)

-----------------------------------------------------------------------------
\* The quotes of RiskFeed.cfg: a 2 % band around 1.00, a price on its edge, and
\* one far outside on each side.
QuoteAt(p) == [price |-> p, ref |-> 10000, bps |-> 200]
SampleQuotes == {QuoteAt(10200), QuoteAt(9500), QuoteAt(10500)}
=============================================================================
