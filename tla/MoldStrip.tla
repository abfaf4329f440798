------------------------------ MODULE MoldStrip ------------------------------
(***************************************************************************)
(* rtl/moldupp64_strip.sv: takes the 20-byte MoldUDP64 header off every    *)
(* datagram, checks its sequence number and moves the payload, which       *)
(* begins in the middle of a beat, to beat boundaries.  Clock is one edge  *)
(* of clk_156; its parameters are the inputs the edge samples.             *)
(*                                                                         *)
(* A beat is the sequence of its valid bytes (tkeep), byte 0 first, with   *)
(* what its datagram's header spells.                                      *)
(***************************************************************************)
EXTENDS Integers, Sequences

CONSTANTS
  DropMax,   \* dropped_datagrams saturates here: 2^32 - 1
  NoBeat     \* tvalid is low

VARIABLES
  state,     \* S_HEADER_B0, _B1, _B2, S_PAYLOAD, S_DROP, S_FLUSH_SHORT
  stage,     \* stage_hi with stage_hi_keep
  stage_hi_valid,
  expected_seq_num,
  dropped_datagrams

stripVars == <<state, stage, stage_hi_valid, expected_seq_num, dropped_datagrams>>

Lower(bytes) == SubSeq(bytes, 1, IF Len(bytes) < 4 THEN Len(bytes) ELSE 4)
Upper(bytes) == SubSeq(bytes, 5, Len(bytes))

Init ==
  /\ state = "B0" /\ stage = << >> /\ stage_hi_valid = FALSE
  /\ expected_seq_num = 1 /\ dropped_datagrams = 0

-----------------------------------------------------------------------------
s_tready(m_tready) == IF state = "PAYLOAD" THEN m_tready ELSE state # "FLUSH"

\* The beat on the master port.
m_beat(b) ==
  IF state = "PAYLOAD" /\ b # NoBeat /\ stage_hi_valid
    THEN [bytes |-> stage \o Lower(b.bytes), last |-> b.last]
  ELSE IF state = "FLUSH" THEN [bytes |-> stage, last |-> TRUE]
  ELSE NoBeat

\* Beats 0 and 1 of the header: too short a datagram is forgotten.
Header(b, next) ==
  /\ IF b.last \/ Len(b.bytes) < 8
       THEN state' = "B0" /\ stage_hi_valid' = FALSE
       ELSE state' = next /\ UNCHANGED stage_hi_valid
  /\ UNCHANGED <<stage, expected_seq_num, dropped_datagrams>>

HeaderB0(b) == state = "B0" /\ Header(b, "B1")
HeaderB1(b) == state = "B1" /\ Header(b, "B2")

\* Beat 2 completes sequence number and message count.
Skip(b) == /\ state' = IF b.last THEN "B0" ELSE "DROP"
           /\ stage_hi_valid' = FALSE
           /\ UNCHANGED stage
InOrder_notOld(b) == b.seq >= expected_seq_num
InOrder(b) == b.seq = expected_seq_num
Advanced(b) == b.seq + b.count
Malformed(b) ==
  /\ Len(b.bytes) < 4
  /\ Skip(b)
  /\ UNCHANGED <<expected_seq_num, dropped_datagrams>>
Accept(b) ==
  /\ Len(b.bytes) >= 4 /\ InOrder(b)
  /\ expected_seq_num' = Advanced(b)
  /\ stage' = Upper(b.bytes) /\ stage_hi_valid' = TRUE
  /\ state' = IF b.last THEN "FLUSH" ELSE "PAYLOAD"
  /\ UNCHANGED dropped_datagrams
OutOfOrder(b) ==
  /\ Len(b.bytes) >= 4 /\ ~InOrder(b)
  /\ Skip(b)
  /\ dropped_datagrams' = IF dropped_datagrams = DropMax THEN DropMax
                                                         ELSE dropped_datagrams + 1
  /\ UNCHANGED expected_seq_num
HeaderB2(b) == state = "B2" /\ (Malformed(b) \/ Accept(b) \/ OutOfOrder(b))

\* The upper half of a beat waits for the lower half of the next; that of the
\* last beat is staged, too, and not sent.
Staged(b) == Upper(b.bytes)
Payload(b, m_tready) ==
  /\ state = "PAYLOAD" /\ stage_hi_valid
  /\ IF ~m_tready THEN UNCHANGED <<state, stage, stage_hi_valid>>
     ELSE /\ stage' = Staged(b)
          /\ stage_hi_valid' = (~b.last \/ Upper(b.bytes) # << >>)
          /\ state' = IF b.last THEN "B0" ELSE "PAYLOAD"
  /\ UNCHANGED <<expected_seq_num, dropped_datagrams>>

Drop(b) ==
  /\ state = "DROP"
  /\ state' = IF b.last THEN "B0" ELSE "DROP"
  /\ UNCHANGED <<stage, stage_hi_valid, expected_seq_num, dropped_datagrams>>

FlushShort(m_tready) ==
  /\ state = "FLUSH"
  /\ IF m_tready THEN state' = "B0" /\ stage_hi_valid' = FALSE
                 ELSE UNCHANGED <<state, stage_hi_valid>>
  /\ UNCHANGED <<stage, expected_seq_num, dropped_datagrams>>

Take(b, m_tready) ==
  HeaderB0(b) \/ HeaderB1(b) \/ HeaderB2(b) \/ Payload(b, m_tready) \/ Drop(b)

Clock(b, m_tready) ==
  \/ FlushShort(m_tready)
  \/ state # "FLUSH" /\ b # NoBeat /\ Take(b, m_tready)
  \/ state # "FLUSH" /\ b = NoBeat /\ UNCHANGED stripVars

Reset ==
  /\ state' = "B0" /\ stage' = << >> /\ stage_hi_valid' = FALSE
  /\ expected_seq_num' = 1 /\ dropped_datagrams' = 0
=============================================================================
