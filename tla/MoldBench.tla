------------------------------ MODULE MoldBench -----------------------------
(***************************************************************************)
(* tb/cocotb/tests/test_moldupp64_strip.py: the header stripper between    *)
(* the coroutines of drivers/moldupp64_builder.py, watched by              *)
(* checkers/moldupp64_checker.py.  A step is one clock edge; every         *)
(* coroutine wakes at it and reads what was there before it.               *)
(*                                                                         *)
(* Byte <<n, i>> is payload byte i of the datagram numbered n, <<0, 0>> a  *)
(* byte of its header.                                                     *)
(***************************************************************************)
EXTENDS Integers, Sequences

CONSTANTS
  PayloadLengths,      \* payload lengths the tests send
  IdleCycles,         \* idle_cycles
  MaxSeq,       \* bound: the test ends when it has numbered this many messages
  DropMax, NoBeat, NoDatagram

\* The builder's IMPORTANT note: a datagram's last beat has 1 to 4 bytes, unless
\* the payload fits into one beat.
ASSUME PayloadAssumption ==
  \A l \in PayloadLengths : l \in Nat /\ (l <= 4 \/ (20 + l) % 8 \in 1 .. 4)

MoldByte == Nat \X Nat
MasterBeat == [bytes : Seq(MoldByte), last : BOOLEAN]
SlaveBeat == [bytes : Seq(MoldByte), last : BOOLEAN, seq : Nat, count : Nat]
ASSUME MoldAssumption ==
  /\ IdleCycles \subseteq Nat /\ DropMax \in Nat
  /\ NoBeat \notin MasterBeat \cup SlaveBeat

VARIABLES
  state, stage, stage_hi_valid, expected_seq_num, dropped_datagrams,   \* MoldStrip
  s_beat,            \* what send_datagram drives
  dgram, pos, gap,   \* its datagram, beats taken, idle cycles still to go
  beats, collecting, \* _collect
  flush,             \* edges the test still waits after the last beat
  good,              \* whether the datagram was sent in order
  seq, dropped,      \* the test's own counts
  chk                \* the checker: previous samples, pending_accept, errors

stripVars == <<state, stage, stage_hi_valid, expected_seq_num, dropped_datagrams>>
moldTestVars == <<s_beat, dgram, pos, gap, beats, collecting, flush, good, seq, dropped>>
moldVars == <<stripVars, moldTestVars, chk>>

Strip == INSTANCE MoldStrip

-----------------------------------------------------------------------------
\* build_datagram: header and payload.
Zero == <<0, 0>>
MoldHeader == 20
Datagram(n, l, c, g) == [seq |-> n, count |-> c, idle |-> g,
                         bytes |-> [i \in 1 .. MoldHeader + l |->
                                      IF i <= MoldHeader THEN Zero
                                      ELSE <<n, i - MoldHeader>>]]
PayloadOf(d) == SubSeq(d.bytes, MoldHeader + 1, Len(d.bytes))

\* pack_beats: the beat after the first k.  Only the last may be partial.
\* Slip: the last beat is taken to be full.
BeatAt_lastEarly(d, k) ==
  LET n == Len(d.bytes)
  IN  [bytes |-> SubSeq(d.bytes, 8 * k + 1, IF 8 * k + 8 < n THEN 8 * k + 8 ELSE n),
       last |-> 8 * k + 16 >= n, seq |-> d.seq, count |-> d.count]
BeatAt(d, k) ==
  LET n == Len(d.bytes)
  IN  [bytes |-> SubSeq(d.bytes, 8 * k + 1, IF 8 * k + 8 < n THEN 8 * k + 8 ELSE n),
       last |-> 8 * k + 8 >= n, seq |-> d.seq, count |-> d.count]
LastBeat(d, k) == 8 * k + 8 >= Len(d.bytes)

\* beats_to_bytes: the lanes tkeep names, in order.
beats_to_bytes(bs) ==
  LET upto[k \in 0 .. Len(bs)] == IF k = 0 THEN << >> ELSE upto[k - 1] \o bs[k].bytes
  IN  upto[Len(bs)]

MoldInit ==
  /\ Strip!Init
  /\ s_beat = NoBeat /\ dgram = NoDatagram /\ pos = 0 /\ gap = 0
  /\ beats = << >> /\ collecting = FALSE /\ flush = 0
  /\ good = FALSE /\ seq = 1 /\ dropped = 0
  /\ chk = [valid |-> FALSE, exp |-> 1, drop |-> 0, pending |-> FALSE, errors |-> {}]

-----------------------------------------------------------------------------
\* The checker's turn: rules A, B and C on this sample and the one before it.
seq_valid == state = "B2" /\ s_beat # NoBeat /\ Len(s_beat.bytes) >= 4
             /\ Strip!InOrder(s_beat)
\* Slip: rule C before rule B.
MoldMonitor_clearsFirst ==
  LET moved == expected_seq_num # chk.exp
      drops == dropped_datagrams # chk.drop
      rose == seq_valid /\ ~chk.valid
      pending == (chk.pending \/ (rose /\ ~drops)) /\ ~moved
  IN  chk' = [valid |-> seq_valid, exp |-> expected_seq_num, drop |-> dropped_datagrams,
              pending |-> pending,
              errors |-> chk.errors
                \cup (IF rose /\ drops /\ moved THEN {"moved by a drop"} ELSE {})
                \cup (IF moved /\ ~drops /\ ~rose /\ ~pending THEN {"moved alone"} ELSE {})
                \cup (IF moved /\ pending /\ expected_seq_num < chk.exp
                         /\ expected_seq_num > 4096 THEN {"backward"} ELSE {})]
MoldMonitor ==
  LET moved == expected_seq_num # chk.exp
      drops == dropped_datagrams # chk.drop
      rose == seq_valid /\ ~chk.valid
      pending == chk.pending \/ (rose /\ ~drops)
  IN  chk' = [valid |-> seq_valid, exp |-> expected_seq_num, drop |-> dropped_datagrams,
              pending |-> pending /\ ~moved,
              errors |-> chk.errors
                \cup (IF rose /\ drops /\ moved THEN {"moved by a drop"} ELSE {})
                \cup (IF moved /\ ~drops /\ ~rose /\ ~pending THEN {"moved alone"} ELSE {})
                \cup (IF moved /\ pending /\ expected_seq_num < chk.exp
                         /\ expected_seq_num > 4096 THEN {"backward"} ELSE {})]

\* _collect takes beats up to a last one; m_tready is 1 throughout.
MoldCollect ==
  LET m == Strip!m_beat(s_beat)
  IN  IF collecting /\ m # NoBeat
        THEN beats' = Append(beats, m) /\ collecting' = ~m.last
        ELSE UNCHANGED <<beats, collecting>>

MoldEdge == Strip!Clock(s_beat, TRUE) /\ MoldMonitor

\* send_datagram: drive the beat after the first k, or the gap before it.
MoldDrive(d, k) == IF d.idle > 0 THEN s_beat' = NoBeat /\ gap' = d.idle
                             ELSE s_beat' = BeatAt(d, k) /\ gap' = 0

\* The test begins with a datagram, in order or not, and counts it.
MoldBegin(d) ==
  /\ flush = 0 /\ s_beat = NoBeat /\ gap = 0
  /\ dgram' = d /\ pos' = 0
  /\ MoldDrive(d, 0)
  /\ beats' = << >> /\ collecting' = TRUE
  /\ good' = (d.seq = seq)
  /\ IF good' THEN seq' = seq + d.count /\ UNCHANGED dropped
                ELSE dropped' = dropped + 1 /\ UNCHANGED seq
  /\ UNCHANGED <<stripVars, chk, flush>>

MoldGap ==
  /\ gap > 0
  /\ MoldEdge /\ MoldCollect
  /\ gap' = gap - 1
  /\ s_beat' = IF gap = 1 THEN BeatAt(dgram, pos) ELSE NoBeat
  /\ UNCHANGED <<dgram, pos, flush, good, seq, dropped>>

MoldSend ==
  /\ s_beat # NoBeat
  /\ MoldEdge /\ MoldCollect
  /\ IF ~Strip!s_tready(TRUE) THEN UNCHANGED <<s_beat, gap, pos, flush>>
     ELSE IF LastBeat(dgram, pos)
       THEN s_beat' = NoBeat /\ flush' = 8 /\ UNCHANGED <<pos, gap>>
       ELSE MoldDrive(dgram, pos + 1) /\ pos' = pos + 1 /\ UNCHANGED flush
  /\ UNCHANGED <<dgram, good, seq, dropped>>

\* Eight cycles for the last beat to come out, then the collector is cancelled.
MoldFlush ==
  /\ flush > 0
  /\ MoldEdge /\ MoldCollect
  /\ flush' = flush - 1
  /\ UNCHANGED <<s_beat, dgram, pos, gap, good, seq, dropped>>

\* A datagram of the tests: the next one, or one out of order.
MoldDatagrams ==
  {Datagram(n, l, c, g) : n \in {seq} \cup (IF dropped < DropMax THEN {seq - 1, seq + 1} ELSE {}),
                          l \in PayloadLengths, c \in {1, 2}, g \in IdleCycles}
MoldNext ==
  \/ \E d \in MoldDatagrams : d.seq + d.count <= MaxSeq + 1 /\ MoldBegin(d)
  \/ MoldGap \/ MoldSend \/ MoldFlush

-----------------------------------------------------------------------------
MoldDone == dgram # NoDatagram /\ flush = 0 /\ s_beat = NoBeat /\ gap = 0

\* What the tests assert when a datagram is through: beats_to_bytes of the
\* collected beats is the payload if it was in order and nothing if not, the
\* last beat has tlast, and both counters are those the test has kept.
DatagramStripped ==
  MoldDone =>
    /\ expected_seq_num = seq /\ dropped_datagrams = dropped
    /\ IF good
         THEN beats_to_bytes(beats) = PayloadOf(dgram) /\ beats[Len(beats)].last
         ELSE beats = << >>

\* The checker reports nothing of a stripper that works, and between two
\* datagrams no acceptance is pending: one left over would excuse the next
\* change of expected_seq_num, whatever caused it.
CheckerReady == chk.errors = {} /\ (MoldDone => ~chk.pending)
=============================================================================
