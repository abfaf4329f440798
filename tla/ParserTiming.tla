---------------------------- MODULE ParserTiming ----------------------------
(***************************************************************************)
(* What rtl/lliu_top_v2.sv relies on in rtl/itch_parser_v2.sv: the beats   *)
(* of a message are taken one per cycle, none while the pipeline holds or  *)
(* the parser emits; two edges after the last beat the fields are those of *)
(* the message, and fields_valid is up for that one cycle.                 *)
(***************************************************************************)
EXTENDS Integers

CONSTANTS
  Messages,
  Beats,      \* Messages -> number of beats of a message
  Junk,       \* a message that does not raise fields_valid, of one beat or more
  NoMessage

VARIABLES
  taken,         \* beats of the current message taken so far
  emitting,      \* the message the parser emits (S_EMIT), or NoMessage
  fields,        \* the message the field registers hold
  fields_valid

MaxBeats == 7

Init ==
  /\ taken = 0 /\ emitting = NoMessage
  /\ fields = Junk /\ fields_valid = FALSE

tready(hold) == emitting = NoMessage /\ ~hold

Emit ==
  /\ emitting # NoMessage
  /\ emitting' = NoMessage
  /\ fields' = emitting /\ fields_valid' = (emitting # Junk)
  /\ UNCHANGED taken

\* No beat, or a beat that leaves the message incomplete, or with tlast cut off.
Stay == taken' = taken /\ emitting' = NoMessage
More == taken + 1 < MaxBeats /\ taken' = taken + 1 /\ emitting' = NoMessage
Cut == taken' = 0 /\ emitting' = NoMessage

\* The beat that completes message m.
Last(m) == /\ m # Junk => taken + 1 = Beats[m]
           /\ taken' = 0 /\ emitting' = m

Gather(hold) ==
  /\ emitting = NoMessage
  /\ fields_valid' = FALSE /\ UNCHANGED fields
  /\ \/ Stay
     \/ tready(hold) /\ (More \/ Cut \/ \E m \in Messages \cup {Junk} : Last(m))

Clock(hold) == Emit \/ Gather(hold)

Reset ==
  /\ taken' = 0 /\ emitting' = NoMessage
  /\ fields' = Junk /\ fields_valid' = FALSE

Next == (\E hold \in BOOLEAN : Clock(hold)) \/ Reset
Spec == Init /\ [][Next]_<<taken, emitting, fields, fields_valid>>
=============================================================================
