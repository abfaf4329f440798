----------------------------- MODULE CoreTiming -----------------------------
(***************************************************************************)
(* What rtl/lliu_top_v2.sv relies on in a core: idle, it takes a feature   *)
(* vector; Latency cycles later result_valid is up for one cycle, and the  *)
(* result is of that vector; vectors offered in between are not seen.      *)
(***************************************************************************)
EXTENDS Naturals

CONSTANTS
  Latency,    \* positive
  Vectors,
  NoVector    \* none of Vectors

VARIABLES
  left,    \* cycles until result_valid has gone, 0 when idle
  vector   \* the vector last taken

Init == left = 0 /\ vector = NoVector

Take(v) == left = 0 /\ v # NoVector /\ left' = Latency /\ vector' = v
Wait == left > 0 /\ left' = left - 1 /\ UNCHANGED vector
Rest == left = 0 /\ UNCHANGED <<left, vector>>

Clock(v) == Take(v) \/ Wait \/ (v = NoVector /\ Rest)
Reset == left' = 0 /\ vector' = NoVector

result_valid == left = 1
busy == left > 0

Next == (\E v \in Vectors \cup {NoVector} : Clock(v)) \/ Reset
Spec == Init /\ [][Next]_<<left, vector>> /\ WF_<<left, vector>>(Wait)
=============================================================================
