----------------------------- MODULE OuchEngine -----------------------------
(***************************************************************************)
(* rtl/ouch_engine.sv: assembles an OUCH Enter Order packet of six beats   *)
(* and streams it to the transmitter.  Clock is one edge; its parameters   *)
(* are the inputs the edge samples.                                        *)
(*                                                                         *)
(* A packet's bytes are abstracted to where they come from: the token, the *)
(* latched order and the template entry read for its symbol.               *)
(***************************************************************************)
EXTENDS Integers

CONSTANTS
  Orders,       \* records with a field sym: what risk_pass presents
  Syms,         \* symbols of the template memory
  Words,        \* the BRAMs an entry is spread over: tmpl_b2 .. tmpl_b5
  Contents,     \* what a word of a template may hold
  Blank,        \* its contents at power-up
  StallLimit,   \* stalled cycles that trip the watchdog: 64
  ClearLimit,   \* free cycles that clear it: 256
  TokenMod,     \* order_token is 64 bits: 2^64
  NoOrder       \* no order latched, nothing presented

LastBeat == 5
Templates == [Words -> Contents]
BlankTemplate == [w \in Words |-> Blank]

ASSUME OuchAssumption ==
  /\ StallLimit \in Nat \ {0} /\ ClearLimit \in Nat \ {0}
  /\ TokenMod \in Nat \ {0}
  /\ Blank \in Contents
  /\ NoOrder \notin Orders
  /\ \A o \in Orders : o.sym \in Syms

VARIABLES
  state,        \* S_IDLE, S_FETCH, S_LOAD, S_SEND
  latch,        \* the order latched in S_IDLE
  tmpl,         \* template memory
  tmpl_rd,      \* its registered output
  beat_cnt,
  packet,       \* what S_LOAD assembled: beat 0 on the bus, beats 1-5 in beat_buf
  axis,         \* m_axis_tvalid, the beat number on m_axis_tdata, m_axis_tlast
  order_token,
  bp_cnt, clr_cnt, tx_overflow

vars == <<state, latch, tmpl, tmpl_rd, beat_cnt, packet, axis, order_token,
          bp_cnt, clr_cnt, tx_overflow>>

IdleBus == [valid |-> FALSE, beat |-> 0, last |-> FALSE]

-----------------------------------------------------------------------------
Init ==
  /\ state = "IDLE"
  /\ latch = NoOrder
  /\ tmpl = [s \in Syms |-> BlankTemplate]
  /\ tmpl_rd = BlankTemplate
  /\ beat_cnt = 0
  /\ packet = [token |-> 0, order |-> NoOrder, tmpl |-> BlankTemplate]
  /\ axis = IdleBus
  /\ order_token = 0
  /\ bp_cnt = 0 /\ clr_cnt = 0 /\ tx_overflow = FALSE

\* The read port follows the latched symbol; after reset that is symbol 0.
LatchedSym == IF latch = NoOrder THEN CHOOSE s \in Syms : \A t \in Syms : s <= t
                                 ELSE latch.sym
TmplRead == tmpl_rd' = tmpl[LatchedSym]

\* S_IDLE: risk_pass is looked at here and nowhere else.
AfterIdle_toLoad == "LOAD"
AfterIdle == "FETCH"
IdleState(o) ==
  /\ state = "IDLE"
  /\ axis' = [axis EXCEPT !.valid = FALSE, !.last = FALSE]
  /\ IF o = NoOrder THEN UNCHANGED <<state, latch>>
                    ELSE state' = AfterIdle /\ latch' = o
  /\ UNCHANGED <<beat_cnt, packet, order_token>>

FetchState ==
  /\ state = "FETCH"
  /\ state' = "LOAD"
  /\ UNCHANGED <<latch, beat_cnt, packet, axis, order_token>>

\* S_LOAD: assemble the packet and put beat 0 on the bus.
NextToken == (order_token + 1) % TokenMod
FirstBeat_kept == beat_cnt
FirstBeat == 0
LoadState ==
  /\ state = "LOAD"
  /\ packet' = [token |-> order_token, order |-> latch, tmpl |-> tmpl_rd]
  /\ axis' = [valid |-> TRUE, beat |-> 0, last |-> FALSE]
  /\ order_token' = NextToken
  /\ beat_cnt' = FirstBeat
  /\ state' = "SEND"
  /\ UNCHANGED latch

\* S_SEND: the bus moves on only when the beat on it has been taken.
Advances(ready) == ready
AtLastBeat == beat_cnt = LastBeat
LastFlag_late == beat_cnt = LastBeat
LastFlag == beat_cnt = LastBeat - 1
SendState(ready) ==
  /\ state = "SEND"
  /\ IF ~Advances(ready)
       THEN UNCHANGED <<state, axis, beat_cnt>>
     ELSE IF AtLastBeat
       THEN /\ axis' = [axis EXCEPT !.valid = FALSE, !.last = FALSE]
            /\ state' = "IDLE"
            /\ UNCHANGED beat_cnt
       ELSE /\ axis' = [axis EXCEPT !.beat = beat_cnt + 1, !.last = LastFlag]
            /\ beat_cnt' = beat_cnt + 1
            /\ UNCHANGED state
  /\ UNCHANGED <<latch, packet, order_token>>

\* The watchdog: StallLimit stalled cycles in a row set tx_overflow; any
\* ClearLimit cycles in a row that are not a stalled S_SEND clear it.
Stalled(ready) == state = "SEND" /\ ~ready
ClearCount_shared == clr_cnt
ClearCount == 0
Watchdog(ready) ==
  IF Stalled(ready)
    THEN /\ clr_cnt' = ClearCount
         /\ IF bp_cnt = StallLimit - 1
              THEN tx_overflow' = TRUE /\ UNCHANGED bp_cnt
              ELSE bp_cnt' = bp_cnt + 1 /\ UNCHANGED tx_overflow
    ELSE /\ bp_cnt' = 0
         /\ IF ~tx_overflow THEN UNCHANGED <<clr_cnt, tx_overflow>>
            ELSE IF clr_cnt = ClearLimit - 1
              THEN tx_overflow' = FALSE /\ clr_cnt' = 0
              ELSE clr_cnt' = clr_cnt + 1 /\ UNCHANGED tx_overflow

Fsm(o, ready) == IdleState(o) \/ FetchState \/ LoadState \/ SendState(ready)

\* An AXI4-Lite write changes one word of one entry, on the edge it is
\* presented; the read port still returns what was there before.
NoTmplWrite == UNCHANGED tmpl
TmplWrite(s, w, c) == tmpl' = [tmpl EXCEPT ![s][w] = c]

Clock(o, ready) == Fsm(o, ready) /\ TmplRead /\ Watchdog(ready)

\* rst clears everything but the template memory and its output.
Reset ==
  /\ state' = "IDLE"
  /\ latch' = NoOrder
  /\ TmplRead
  /\ beat_cnt' = 0
  /\ packet' = [token |-> 0, order |-> NoOrder, tmpl |-> BlankTemplate]
  /\ axis' = IdleBus
  /\ order_token' = 0
  /\ bp_cnt' = 0 /\ clr_cnt' = 0 /\ tx_overflow' = FALSE
=============================================================================
