------------------------------ MODULE LliuTop ------------------------------
(***************************************************************************)
(* rtl/lliu_top_v2.sv: the order path, from the parser's fields to the     *)
(* packet on the transmit bus.  Clock is one edge of the whole design.     *)
(*                                                                         *)
(* The parser and the eight cores, which run in lockstep, are taken at     *)
(* their timing (ParserTiming, CoreTiming); arbiter, risk check and OUCH   *)
(* engine are the modules of their own.  A message is its fields; what the *)
(* cores make of its features is Score.  The registers written over        *)
(* AXI4-Lite (thresholds, shares, watchlist, kill switch) do not change    *)
(* here.                                                                   *)
(***************************************************************************)
EXTENDS Integers, FiniteSets

CONSTANTS
  Messages,     \* records price, side: messages of stocks on the watchlist
  Beats,        \* Messages -> number of beats
  Score,        \* Messages -> score of each core
  Thresh,       \* score_thresh_r
  Shares,       \* core_shares_ar: shares each core proposes
  Reference,    \* held_ref_r: the BBO midpoint
  Bps, MaxQty, PosLimit, PosHalf,
  CoreLatency,  \* cycles a core takes
  StallLimit, ClearLimit,
  Junk,         \* any other message, or what a heartbeat is taken for
  None          \* no message, vector or order

ASSUME TopAssumption ==
  /\ Beats \in [Messages -> 1 .. 6]
  /\ \A m \in Messages : Score[m] \in [0 .. 7 -> Nat]
  /\ Thresh \in Nat /\ CoreLatency \in Nat \ {0}
  /\ Shares \in [0 .. 7 -> Nat]
  /\ None \notin Messages /\ Junk \notin Messages \cup {None}
  /\ PosHalf \in Nat \ {0} /\ PosLimit \in 0 .. 2 * PosHalf - 1 /\ MaxQty \in Nat
  /\ None \notin [sym : {0}, net : Int]
  /\ \A m \in Messages \cup {Junk}, k \in 0 .. 7 :
       None # [sym |-> 0, side |-> m.side, price |-> m.price, shares |-> Shares[k]]

VARIABLES
  taken, emitting, fields, fields_valid,  \* itch_parser_v2
  price_d1,           \* the fields one cycle later, valid or not
  delay,              \* fields_valid_d1 .. _d3, with the fields
  features,           \* the stages of feature_extractor_v2
  held,               \* held_price_r, held_side_r
  core_left, core_vector,                 \* the eight cores
  in_flight,
  lv0_r, lv1_r, best,                     \* strategy_arbiter
  pipe, pos_mem, pos_rd_data, new_net_r, pos_wr, verdict,  \* risk_check
  ouch_state, latch, tmpl, tmpl_rd, beat_cnt, packet, axis, order_token,
  bp_cnt, clr_cnt, tx_overflow            \* ouch_engine

parserVars == <<taken, emitting, fields, fields_valid>>
pathVars == <<price_d1, delay, features, held, in_flight>>
coreVars == <<core_left, core_vector>>
arbVars == <<lv0_r, lv1_r, best>>
riskVars == <<pipe, pos_mem, pos_rd_data, new_net_r, pos_wr, verdict>>
ouchVars == <<ouch_state, latch, tmpl, tmpl_rd, beat_cnt, packet, axis, order_token,
              bp_cnt, clr_cnt, tx_overflow>>
vars == <<parserVars, pathVars, coreVars, arbVars, riskVars, ouchVars>>

NoMessage == None
Sym == 0    \* the parser reports sym_id 0 for every message
QuoteOf(m) == [price |-> m.price, ref |-> Reference, bps |-> Bps]
RiskQuotes == {QuoteOf(m) : m \in Messages}
ShareCounts == {Shares[k] : k \in 0 .. 7}
Packets == [sym : {Sym}, side : {0, 1}, price : {m.price : m \in Messages}, shares : ShareCounts]

Parser == INSTANCE ParserTiming
Core == INSTANCE CoreTiming WITH
  Latency <- CoreLatency, Vectors <- Messages, NoVector <- None,
  left <- core_left, vector <- core_vector
Arb == INSTANCE StrategyArbiter
Risk == INSTANCE RiskCheck WITH
  Symbols <- {Sym}, Half <- PosHalf, Quantities <- ShareCounts, Quotes <- RiskQuotes
Ouch == INSTANCE OuchEngine WITH
  state <- ouch_state, Orders <- Packets, Syms <- {Sym}, Words <- {4}, Contents <- {0},
  Blank <- 0, TokenMod <- 1, NoOrder <- None

-----------------------------------------------------------------------------
DelayStages == 1 .. 3
FeatureStages == 1 .. 7

Init ==
  /\ Parser!Init /\ Core!Init /\ Arb!Init /\ Risk!Init /\ Ouch!Init
  /\ price_d1 = Junk
  /\ delay = [i \in DelayStages |-> None]
  /\ features = [i \in FeatureStages |-> None]
  /\ held = None
  /\ in_flight = FALSE

\* feat_ext_fv: a message on the watchlist, when watchlist_hit is out.  That of
\* any other message stays low, so here fields_valid is taken to be low already.
Hit_twice == IF delay[3] # None THEN delay[3] ELSE delay[2]
Hit == delay[3]

core_features_valid == features[7] # None
pipeline_hold == core_features_valid \/ in_flight

\* What the cores present; arb_sides are tied to 0.
CoreScores ==
  [k \in Arb!Cores |->
     [score |-> IF core_vector = None THEN 0 ELSE Score[core_vector][k],
      valid |-> Core!result_valid, side |-> 0]]

\* risk_proposed_shares follows the arbiter's output.
risk_proposed_shares == Shares[best.id]
Proposal == [sym |-> Sym, side |-> held.side, shares |-> risk_proposed_shares,
             quote |-> QuoteOf(held)]
ToRisk == IF best.valid THEN Proposal ELSE None
ToOuch_checked ==
  IF verdict.is # "none"
    THEN [sym |-> Sym, side |-> held.side, price |-> held.price,
          shares |-> risk_proposed_shares]
    ELSE None
ToOuch == IF Risk!risk_pass
            THEN [sym |-> Sym, side |-> held.side, price |-> held.price,
                  shares |-> risk_proposed_shares]
            ELSE None

\* The alignment registers, the feature pipeline and the hold registers.
HeldNext_unaligned == IF Hit # None THEN fields ELSE held
HeldNext_open == price_d1
HeldNext == IF Hit # None THEN price_d1 ELSE held
InFlightNext == core_features_valid \/ (in_flight /\ ~Core!result_valid)
Path ==
  /\ price_d1' = fields
  /\ delay' = [i \in DelayStages |->
                 IF i > 1 THEN delay[i - 1] ELSE IF fields_valid THEN fields ELSE None]
  /\ features' = [i \in FeatureStages |-> IF i = 1 THEN Hit ELSE features[i - 1]]
  /\ held' = HeldNext
  /\ in_flight' = InFlightNext

Clock(tready) ==
  /\ Parser!Clock(pipeline_hold)
  /\ Path
  /\ Core!Clock(features[7])
  /\ Arb!Clock(CoreScores, Thresh)
  /\ Risk!Clock(ToRisk, FALSE, tx_overflow)
  /\ Ouch!Clock(ToOuch, tready) /\ Ouch!NoTmplWrite

Reset ==
  /\ Parser!Reset /\ Core!Reset /\ Arb!Reset /\ Risk!Reset
  /\ Ouch!Reset /\ Ouch!NoTmplWrite
  /\ price_d1' = Junk
  /\ delay' = [i \in DelayStages |-> None]
  /\ features' = [i \in FeatureStages |-> None]
  /\ held' = None
  /\ in_flight' = FALSE
=============================================================================
