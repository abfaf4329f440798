----------------------------- MODULE ItchParser -----------------------------
(***************************************************************************)
(* rtl/itch_parser_v2.sv: gathers a length-prefixed message beat by beat   *)
(* in msg_buf and registers its fields.  Clock is one edge of clk_300; its *)
(* parameters are the inputs the edge samples.                             *)
(*                                                                         *)
(* A beat has eight bytes, those without data (tkeep is not looked at)     *)
(* are Zero.  A byte is where it comes from; LengthOf and KindOf tell what *)
(* a length prefix and a type byte read as, FieldBytes(k) which bytes of   *)
(* the body the fields of kind k are made of.                              *)
(***************************************************************************)
EXTENDS Integers, Sequences

CONSTANTS
  Zero,
  LengthOf(_, _),    \* of the first two bytes of a frame, at most 65535
  KindOf(_),         \* of msg_buf[0]
  Supported,         \* the kinds that raise fields_valid: A F X D U E C P
  FieldBytes,        \* kind -> set of body offsets
  NoKind,            \* any other type
  NoBeat

VARIABLES
  parser_state,      \* S_IDLE, S_ACCUMULATE, S_EMIT
  msg_buf, byte_cnt, msg_len,
  fields,            \* [kind, bytes], bytes as far as the kind's fields use them
  fields_valid

parserVars == <<parser_state, msg_buf, byte_cnt, msg_len, fields, fields_valid>>

BufSize == 64        \* byte_cnt has six bits
BlankFields == [kind |-> NoKind, bytes |-> << >>]

\* msg_buf has no reset; nothing of it is read before it is written.
Init ==
  /\ parser_state = "IDLE"
  /\ msg_buf = [i \in 0 .. BufSize - 1 |-> Zero]
  /\ byte_cnt = 0 /\ msg_len = 0
  /\ fields = BlankFields /\ fields_valid = FALSE

-----------------------------------------------------------------------------
s_axis_tready(pipeline_hold) == parser_state # "EMIT" /\ ~pipeline_hold

\* S_IDLE: length prefix and bytes 0 to 5 of the body.
InFirstBeat == 6
IdleBeat(b) ==
  /\ parser_state = "IDLE"
  /\ msg_len' = LengthOf(b.bytes[1], b.bytes[2])
  /\ msg_buf' = [i \in DOMAIN msg_buf |-> IF i < InFirstBeat THEN b.bytes[i + 3] ELSE msg_buf[i]]
  /\ byte_cnt' = InFirstBeat
  /\ parser_state' = IF msg_len' <= InFirstBeat THEN "EMIT"
                     ELSE IF b.last THEN "IDLE" ELSE "ACCUMULATE"

\* S_ACCUMULATE: eight bytes more, at byte_cnt and up, modulo the buffer.
Complete_late == byte_cnt >= msg_len
Complete == byte_cnt + 8 >= msg_len
Slot(i) == (i - byte_cnt) % BufSize
AfterLast_emits == "EMIT"
AfterLast == "IDLE"
AccumulateBeat(b) ==
  /\ parser_state = "ACCUMULATE"
  /\ msg_buf' = [i \in DOMAIN msg_buf |-> IF Slot(i) < 8 THEN b.bytes[Slot(i) + 1] ELSE msg_buf[i]]
  /\ byte_cnt' = (byte_cnt + 8) % BufSize
  /\ parser_state' = IF Complete THEN "EMIT"
                     ELSE IF b.last THEN AfterLast ELSE "ACCUMULATE"
  /\ UNCHANGED msg_len

\* S_EMIT: the fields of the kind, out of msg_buf.
Emit ==
  LET kind == KindOf(msg_buf[0])
  IN  /\ parser_state = "EMIT"
      /\ parser_state' = "IDLE"
      /\ fields' = IF kind \in Supported
                     THEN [kind |-> kind, bytes |-> [i \in FieldBytes[kind] |-> msg_buf[i]]]
                     ELSE BlankFields
      /\ fields_valid' = (kind \in Supported)
      /\ UNCHANGED <<msg_buf, byte_cnt, msg_len>>

\* fields_valid falls in S_IDLE only; it is never up in S_ACCUMULATE.
Pulse_level == fields_valid
Pulse == fields_valid /\ parser_state # "IDLE"
Gather(b, pipeline_hold) ==
  /\ parser_state # "EMIT"
  /\ fields_valid' = Pulse
  /\ UNCHANGED fields
  /\ IF b # NoBeat /\ s_axis_tready(pipeline_hold)
       THEN IdleBeat(b) \/ AccumulateBeat(b)
       ELSE UNCHANGED <<parser_state, msg_buf, byte_cnt, msg_len>>

Clock(b, pipeline_hold) == Emit \/ Gather(b, pipeline_hold)

Reset ==
  /\ parser_state' = "IDLE"
  /\ UNCHANGED msg_buf
  /\ byte_cnt' = 0 /\ msg_len' = 0
  /\ fields' = BlankFields /\ fields_valid' = FALSE
=============================================================================
