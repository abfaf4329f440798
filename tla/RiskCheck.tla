----------------------------- MODULE RiskCheck -----------------------------
(***************************************************************************)
(* rtl/risk_check.sv: the pre-trade checks, a pipeline that takes one      *)
(* order per cycle.  Clock is one edge; its parameters are the inputs the  *)
(* edge samples.                                                           *)
(*                                                                         *)
(* An order carries through the registers _h, _hh, _hhh, _p1 and _p2 what  *)
(* was decided or sampled when it entered: the fat-finger bit, kill_sw and *)
(* tx_overflow.  The price band is a function of values sampled together   *)
(* at entry (price_diff_h, ref_price_d, band_bps_d), so block_band_p1 is   *)
(* decided there too; the order keeps its quote.                           *)
(***************************************************************************)
EXTENDS Integers

CONSTANTS
  Symbols,
  Half,       \* 2^23: a position lies in -Half .. Half - 1
  MaxQty,     \* max_qty
  PosLimit,   \* pos_limit
  Quantities, \* share counts orders may propose
  Quotes,     \* records price, ref, bps that may be sampled with an order
  None        \* a pipeline register without a valid order

ASSUME RiskAssumption ==
  /\ Half \in Nat \ {0}
  /\ MaxQty \in Nat
  /\ PosLimit \in 0 .. 2 * Half - 1
  /\ Quantities \subseteq 1 .. 2 * Half - 1

Buy == 1
Sell == 0
Order == [sym : Symbols, side : {Buy, Sell}, shares : Quantities, quote : Quotes]
InFlight == [sym : Symbols, side : {Buy, Sell}, shares : Quantities, quote : Quotes,
             band : BOOLEAN, fat : BOOLEAN, killed : BOOLEAN]
ASSUME NoneAssumption ==
  None \notin Order /\ None \notin InFlight /\ None \notin [sym : Symbols, net : Int]

VARIABLES
  pipe,         \* valid orders in _h, _hh, _hhh, _p1, _p2
  pos_mem,      \* net position of each symbol
  pos_rd_data,  \* BRAM output, beside _p1
  new_net_r,    \* beside _p2
  pos_wr,       \* pos_wr_en_r / addr / data
  verdict       \* risk_pass, risk_blocked and block_reason, with the order

vars == <<pipe, pos_mem, pos_rd_data, new_net_r, pos_wr, verdict>>

Stages == 1 .. 5

-----------------------------------------------------------------------------
\* The price band.  A quote is what is sampled with an order: its price, the
\* reference price and the width of the band in basis points (1/10000).
RefMod == 134217728  \* ref_price is cut to 27 bits before the multiply
BpsMod == 16384      \* band_bps to 14 bits
Shift == 8192        \* the product is cut to [44:13]

\* price_diff_h, from the full-width inputs.
PriceDiff_signed(price, ref) == price - ref
PriceDiff(price, ref) == IF price >= ref THEN price - ref ELSE ref - price

\* band_thresh_32_r.
BandThresh(ref, bps) == ((ref % RefMod) * (bps % BpsMod)) \div Shift

\* block_band_c05.
BandBlocks(q) == PriceDiff(q.price, q.ref) > BandThresh(q.ref, q.bps)

-----------------------------------------------------------------------------
\* Two's complement with sign weight h.
Signed(x, h) == ((x + h) % (2 * h)) - h

Killed_overflowOnly(kill_sw, tx_overflow) == tx_overflow
Killed(kill_sw, tx_overflow) == kill_sw \/ tx_overflow

\* Stage 0: what is sampled with an order.
Enter(o, kill_sw, tx_overflow) ==
  IF o = None THEN None
  ELSE [sym |-> o.sym, side |-> o.side, shares |-> o.shares, quote |-> o.quote,
        band |-> BandBlocks(o.quote), fat |-> o.shares > MaxQty,
        killed |-> Killed(kill_sw, tx_overflow)]

\* new_net is 25 bits wide; the limit is compared with the low 24 bits of its
\* magnitude.
NewNet(o, pos) == Signed(IF o.side = Buy THEN pos + o.shares ELSE pos - o.shares,
                         2 * Half)
Magnitude_signed(n) == n
Magnitude(n) == IF n < 0 THEN (0 - n) % (2 * Half) ELSE n

\* Stage 2: the priority encoder.
Decide(o, n) ==
  CASE o = None -> "none"
    [] o # None /\ o.killed -> "kill"
    [] o # None /\ ~o.killed /\ o.band -> "band"
    [] o # None /\ ~o.killed /\ ~o.band /\ o.fat -> "fat"
    [] o # None /\ ~o.killed /\ ~o.band /\ ~o.fat /\ Magnitude(n) > PosLimit -> "pos"
    [] OTHER -> "pass"

\* The write-back registered with the verdict.
WriteBack_unconditional ==
  IF pipe[5] # None THEN [sym |-> pipe[5].sym, net |-> Signed(new_net_r, Half)] ELSE None
WriteBack ==
  IF Decide(pipe[5], new_net_r) = "pass"
    THEN [sym |-> pipe[5].sym, net |-> Signed(new_net_r, Half)] ELSE None

Init ==
  /\ pipe = [i \in Stages |-> None]
  /\ pos_mem = [s \in Symbols |-> 0]
  /\ pos_rd_data = 0
  /\ new_net_r = 0
  /\ pos_wr = None
  /\ verdict = [order |-> None, is |-> "none"]

Clock(o, kill_sw, tx_overflow) ==
  /\ pipe' = [i \in Stages |-> IF i = 1 THEN Enter(o, kill_sw, tx_overflow)
                                        ELSE pipe[i - 1]]
  \* the position memory takes the registered write; its read port, addressed
  \* from _hhh, still returns what was there before this edge
  /\ pos_mem' = IF pos_wr = None THEN pos_mem
                ELSE [pos_mem EXCEPT ![pos_wr.sym] = pos_wr.net]
  /\ pos_rd_data' = IF pipe[3] = None THEN 0 ELSE pos_mem[pipe[3].sym]
  /\ new_net_r' = IF pipe[4] = None THEN 0 ELSE NewNet(pipe[4], pos_rd_data)
  /\ verdict' = [order |-> pipe[5], is |-> Decide(pipe[5], new_net_r)]
  /\ pos_wr' = WriteBack

\* rst clears the pipeline, not the position memory.
Reset ==
  /\ pipe' = [i \in Stages |-> None]
  /\ pos_mem' = IF pos_wr = None THEN pos_mem
                ELSE [pos_mem EXCEPT ![pos_wr.sym] = pos_wr.net]
  /\ pos_rd_data' = IF pipe[3] = None THEN 0 ELSE pos_mem[pipe[3].sym]
  /\ new_net_r' = 0
  /\ verdict' = [order |-> None, is |-> "none"]
  /\ pos_wr' = None

risk_pass == verdict.is = "pass"

\* The price is no farther from the reference than bps basis points of it.
WithinBps(q, bps) ==
  -(q.ref * bps) <= (q.price - q.ref) * 10000 /\ (q.price - q.ref) * 10000 <= q.ref * bps
=============================================================================
