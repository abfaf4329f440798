------------------------------ MODULE EthBench ------------------------------
(***************************************************************************)
(* tb/cocotb/tests/test_eth_axis_rx_wrap.py: frames of eth_frame_builder   *)
(* sent beat by beat into the drop-on-full wrapper while fifo_almost_full  *)
(* rises and falls.  eth_axis_rx, which is not in the repository, takes    *)
(* every beat it is offered, as it does with its consumers ready.          *)
(***************************************************************************)
EXTENDS EthFrame

CONSTANTS
  MessageLists,   \* lists of message lengths
  MaxFrames,      \* bound: frames a test sends
  MacDropMax,     \* dropped_frames saturates here: 2^32 - 1
  NoMacBeat, NoFrame

MacBeat == [bytes : Seq(Nat \X Nat), last : BOOLEAN]

\* The length field of a header has 16 bits.
ASSUME EthAssumption ==
  /\ MessageLists \subseteq Seq(Nat)
  /\ \A l \in MessageLists :
       Ipv4Length + UdpLength + build_moldupp64_payload(1, Len(l), l).length <= 65535
  /\ MacDropMax \in Nat
  /\ NoMacBeat \notin MacBeat

VARIABLES
  frame_active, drop_current, dropped_frames,   \* of the wrapper
  mac_beat, mac_frame, mac_pos,   \* send_mac_frame
  fifo_almost_full,
  sent,        \* frames begun
  due,         \* those that began while the FIFO had room
  rx           \* beats eth_axis_rx has been given

wrapVars == <<frame_active, drop_current, dropped_frames>>
ethVars == <<wrapVars, mac_beat, mac_frame, mac_pos, fifo_almost_full, sent, due, rx>>

-----------------------------------------------------------------------------
\* rtl/eth_axis_rx_wrap.sv: while the FIFO behind is almost full the next whole
\* frame is dropped.  mac_rx_tready is always 1.  WrapClock is one edge.
WrapReset == frame_active = FALSE /\ drop_current = FALSE /\ dropped_frames = 0

\* Slip: the decision is taken anew with every beat.
drop_decision_live(full) == full
drop_decision(full) == IF frame_active THEN drop_current ELSE full

\* What eth_axis_rx is given of beat b.
forwarded(b, full) == IF b # NoMacBeat /\ ~drop_decision(full) THEN b ELSE NoMacBeat

WrapClock(b, full) ==
  /\ IF b # NoMacBeat /\ b.last THEN frame_active' = FALSE /\ drop_current' = FALSE
     ELSE IF b # NoMacBeat /\ ~frame_active
       THEN frame_active' = TRUE /\ drop_current' = drop_decision(full)
     ELSE UNCHANGED <<frame_active, drop_current>>
  /\ dropped_frames' = IF b # NoMacBeat /\ b.last /\ drop_decision(full)
                          /\ dropped_frames # MacDropMax
                         THEN dropped_frames + 1 ELSE dropped_frames

-----------------------------------------------------------------------------
EthInit ==
  /\ WrapReset
  /\ mac_beat = NoMacBeat /\ mac_frame = NoFrame /\ mac_pos = 0
  /\ fifo_almost_full = FALSE
  /\ sent = 0 /\ due = << >> /\ rx = << >>

\* send_mac_frame drives the first beat of a frame, right behind the last
\* beat of the one before or later.
EthBegin(lengths) ==
  /\ mac_beat = NoMacBeat /\ sent < MaxFrames
  /\ sent' = sent + 1
  /\ mac_frame' = build_kc705_frame(lengths, sent + 1, Len(lengths))
  /\ mac_pos' = 0 /\ mac_beat' = frame_beat(mac_frame', 0)
  /\ UNCHANGED <<wrapVars, fifo_almost_full, due, rx>>

\* One edge with a beat; it is taken, as mac_rx_tready is 1.
EthBeat ==
  /\ mac_beat # NoMacBeat
  /\ WrapClock(mac_beat, fifo_almost_full)
  /\ LET b == forwarded(mac_beat, fifo_almost_full)
     IN  rx' = IF b = NoMacBeat THEN rx ELSE Append(rx, b)
  /\ due' = IF mac_pos = 0 /\ ~fifo_almost_full THEN Append(due, mac_frame) ELSE due
  /\ IF mac_beat.last THEN mac_beat' = NoMacBeat /\ mac_pos' = 0
     ELSE mac_pos' = mac_pos + 1 /\ mac_beat' = frame_beat(mac_frame, mac_pos + 1)
  /\ UNCHANGED <<mac_frame, fifo_almost_full, sent>>

EthIdle ==
  /\ mac_beat = NoMacBeat
  /\ WrapClock(NoMacBeat, fifo_almost_full)
  /\ UNCHANGED <<mac_beat, mac_frame, mac_pos, fifo_almost_full, sent, due, rx>>

\* The FIFO behind fills up or drains, between any two edges.
FifoLevel ==
  /\ fifo_almost_full' = ~fifo_almost_full
  /\ UNCHANGED <<wrapVars, mac_beat, mac_frame, mac_pos, sent, due, rx>>

EthNext == (\E l \in MessageLists : EthBegin(l)) \/ EthBeat \/ EthIdle \/ FifoLevel

-----------------------------------------------------------------------------
\* eth_axis_rx is given whole frames only, each of those that began while the
\* FIFO had room, in order and byte for byte, and of the frame on its way what
\* has been sent of it; dropped_frames counts the others; and every frame
\* passes the checks of the stack behind: lengths and IPv4 checksum.
Bytes(beats) == FlattenSeq([i \in 1 .. Len(beats) |-> beats[i].bytes])
FrameBytes(f) == [i \in 1 .. f.length |-> <<f.seq, i>>]
Ended == {i \in 1 .. Len(due) : due[i] # mac_frame \/ mac_beat = NoMacBeat}
OnWay == IF Cardinality(Ended) = Len(due) THEN << >>
         ELSE SubSeq(FrameBytes(mac_frame), 1, 8 * mac_pos)
WholeFrames ==
  /\ Bytes(rx) = FlattenSeq([i \in Ended |-> FrameBytes(due[i])]) \o OnWay
  /\ Cardinality({i \in DOMAIN rx : rx[i].last}) = Cardinality(Ended)
  /\ mac_beat = NoMacBeat =>
       /\ dropped_frames = IF sent - Len(due) < MacDropMax THEN sent - Len(due) ELSE MacDropMax
       /\ \A i \in DOMAIN due : Verifies(due[i], due[i].length)
=============================================================================
