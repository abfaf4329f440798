------------------------------- MODULE Ingress -------------------------------
(***************************************************************************)
(* The way in, as rtl/kc705_top.sv wires it: UDP payloads, the header      *)
(* stripper in clk_156, an asynchronous FIFO, the ITCH parser in clk_300.  *)
(* The exchange numbers its messages 1 .. Len(Stream), one per datagram;   *)
(* the network loses, repeats and reorders datagrams, sends heartbeats,    *)
(* and cuts some short.  The two clocks tick in any order.                 *)
(*                                                                         *)
(* Byte <<n, i>> is byte i of the frame of message n, its two length bytes *)
(* counted, <<0, 0>> a byte of a header or none at all.                    *)
(***************************************************************************)
EXTENDS Integers, Sequences, FiniteSets

CONSTANTS
  Stream,       \* kinds of the exchange's messages, in order
  BodyLength,   \* kind -> bytes of its body
  Supported, FieldBytes, NoKind,
  Cuts,         \* pairs: number and length of UDP payloads cut short
  FifoDepth,    \* axis_async_fifo: 128
  DropMax,
  NoBeat, NoDatagram

VARIABLES
  state, stage, stage_hi_valid, expected_seq_num, dropped_datagrams,   \* MoldStrip
  fifo,                                                                 \* axis_async_fifo
  parser_state, msg_buf, byte_cnt, msg_len, fields, fields_valid,       \* ItchParser
  dgram, at,       \* the UDP payload coming in, and bytes of it taken so far
  accepted,        \* datagrams with a message that were found to be in order
  emitted          \* those the parser has emitted, in order

stripVars == <<state, stage, stage_hi_valid, expected_seq_num, dropped_datagrams>>
parserVars == <<parser_state, msg_buf, byte_cnt, msg_len, fields, fields_valid>>
netVars == <<dgram, at, accepted>>
vars == <<stripVars, fifo, parserVars, netVars, emitted>>

Numbers == 1 .. Len(Stream)
FrameLength(n) == 2 + BodyLength[Stream[n]]
Zero == <<0, 0>>
HeaderLength == 20

\* What the parser makes of bytes; those of a frame's beginning are the only
\* ones it meets in these places as long as a datagram has one message.
LengthOf(b1, b2) == IF Zero \in {b1, b2} THEN 0 ELSE BodyLength[Stream[b2[1]]]
KindOf(b) == IF b = Zero THEN NoKind ELSE Stream[b[1]]

MaxBody == 54       \* room in seven beats; the longest of ITCH 5.0 has 50 bytes

Strip == INSTANCE MoldStrip
Parser == INSTANCE ItchParser

-----------------------------------------------------------------------------
\* A UDP payload: the header's sequence number and message count, and its
\* length in bytes; a heartbeat has no message.
Whole(n) == [seq |-> n, count |-> 1, len |-> HeaderLength + FrameLength(n)]
Cut(n, l) == [seq |-> n, count |-> 1, len |-> l]
Heartbeat(n) == [seq |-> n, count |-> 0, len |-> HeaderLength]
Datagrams == {Whole(n) : n \in Numbers} \cup {Cut(c[1], c[2]) : c \in Cuts}
             \cup {Heartbeat(n) : n \in 1 .. Len(Stream) + 1}

ASSUME StreamAssumption ==
  /\ Stream \in Seq(DOMAIN BodyLength)
  /\ \A k \in DOMAIN BodyLength : BodyLength[k] \in 0 .. MaxBody

\* The fields of every kind hold order_ref, bytes 11 to 18 of the body, and none
\* reaches behind the last beat.  (Some may reach behind the body: a 'C' has 35
\* bytes by itch_parser_v2.sv:36, and its price is in bytes 32 to 35.)
BeatsOf(k) == (BodyLength[k] + 9) \div 8
ASSUME KindAssumption ==
  /\ NoKind \notin Supported
  /\ \A k \in Supported : /\ k \in DOMAIN BodyLength
                          /\ 11 .. 18 \subseteq FieldBytes[k]
                          /\ FieldBytes[k] \subseteq 0 .. 8 * BeatsOf(k) - 3

ASSUME CutAssumption ==
  \A c \in Cuts : \E n \in Numbers, l \in 1 .. HeaderLength + MaxBody + 1 :
    c = <<n, l>> /\ l < HeaderLength + FrameLength(n)

\* No beat is no beat, and no payload is no payload and no message.
ASSUME NothingAssumption ==
  /\ NoDatagram \notin Nat \cup [seq : Nat, count : Nat, len : Nat]
  /\ NoBeat \notin [bytes : Seq(Nat \X Nat), last : BOOLEAN]
                  \cup [bytes : Seq(Nat \X Nat), last : BOOLEAN, seq : Nat, count : Nat]

ASSUME SizeAssumption == FifoDepth \in Nat \ {0} /\ DropMax \in Nat

ByteOf(d, i) == IF i < HeaderLength THEN Zero ELSE <<d.seq, i - HeaderLength>>
NextBeat ==
  LET rest == dgram.len - at
      size == IF rest < 8 THEN rest ELSE 8
  IN  [bytes |-> [k \in 1 .. size |-> ByteOf(dgram, at + k - 1)],
       last |-> rest <= 8, seq |-> dgram.seq, count |-> dgram.count]

Init ==
  /\ Strip!Init /\ Parser!Init
  /\ fifo = << >>
  /\ dgram = NoDatagram /\ at = 0
  /\ accepted = {} /\ emitted = << >>

\* The network delivers a payload.
Arrive(d) ==
  /\ dgram = NoDatagram
  /\ dgram' = d /\ at' = 0
  /\ UNCHANGED <<stripVars, fifo, parserVars, accepted, emitted>>

m_tready == Len(fifo) < FifoDepth
AcceptsNow(b) == state = "B2" /\ b # NoBeat /\ Len(b.bytes) >= 4 /\ Strip!InOrder(b)

\* A tick of clk_156, with or without a beat from the UDP stack.
NetTick(b) ==
  LET m == Strip!m_beat(b)
  IN  /\ Strip!Clock(b, m_tready)
      /\ fifo' = IF m # NoBeat /\ m_tready THEN Append(fifo, m) ELSE fifo
      /\ accepted' = IF AcceptsNow(b) /\ b.count = 1 THEN accepted \cup {dgram} ELSE accepted
      /\ IF b # NoBeat /\ Strip!s_tready(m_tready)
           THEN IF b.last THEN dgram' = NoDatagram /\ at' = 0
                          ELSE at' = at + 8 /\ UNCHANGED dgram
           ELSE UNCHANGED <<dgram, at>>
      /\ UNCHANGED <<parserVars, emitted>>
NetIdle == NetTick(NoBeat)
NetBeat == dgram # NoDatagram /\ NetTick(NextBeat)

\* A tick of clk_300; a beat may take a while to show behind the FIFO.
Padded(m) == [bytes |-> [k \in 1 .. 8 |-> IF k <= Len(m.bytes) THEN m.bytes[k] ELSE Zero],
              last |-> m.last]
AppTick(b, hold) ==
  /\ Parser!Clock(b, hold)
  /\ fifo' = IF b # NoBeat /\ Parser!s_axis_tready(hold) THEN Tail(fifo) ELSE fifo
  /\ emitted' = IF fields_valid' /\ ~fields_valid
                  THEN Append(emitted, fields'.bytes[11][1]) ELSE emitted
  /\ UNCHANGED <<stripVars, netVars>>
AppIdle(hold) == AppTick(NoBeat, hold)
AppBeat(hold) == fifo # << >> /\ AppTick(Padded(Head(fifo)), hold)

\* rst_156 and rst_300 together; the UDP stack drops its datagram, too.
Reset ==
  /\ Strip!Reset /\ Parser!Reset
  /\ fifo' = << >>
  /\ dgram' = NoDatagram /\ at' = 0
  /\ accepted' = {} /\ emitted' = << >>

Next ==
  \/ \E d \in Datagrams : Arrive(d)
  \/ NetIdle \/ NetBeat
  \/ \E hold \in BOOLEAN : AppIdle(hold) \/ AppBeat(hold)
  \/ Reset

Spec == Init /\ [][Next]_vars

-----------------------------------------------------------------------------
\* The byte the parser takes for byte i of the frame datagram d brings: what is
\* behind the end of d reads as none, as the parser does not look at tkeep.
Received(d, i) == IF HeaderLength + i < d.len THEN <<d.seq, i>> ELSE Zero

\* The fields are those of one message that was accepted, each byte as its
\* datagram brought it: none comes from what an earlier message, perhaps of
\* before rst, left in msg_buf.
FieldsWhole ==
  fields_valid =>
    \E d \in accepted :
      /\ fields.kind = Stream[d.seq]
      /\ fields.bytes = [i \in FieldBytes[Stream[d.seq]] |-> Received(d, i + 2)]

\* Nothing is accepted behind a gap, nothing twice, and a heartbeat changes
\* nothing.
Contiguous == {d.seq : d \in accepted} = 1 .. expected_seq_num - 1

Settled == state = "B0" /\ at = 0 /\ fifo = << >> /\ parser_state = "IDLE"

\* No message is emitted twice or after a later one, whatever is repeated or
\* overtaken; and with all quiet, the messages emitted are exactly those of a
\* supported kind whose accepted datagram ends in the lower half of a beat, with
\* the last beat of the message.  The upper half of a last beat is never sent,
\* which test_moldupp64_strip.py:18 calls a constraint on the payload size: an
\* 'F' or 'X' alone never arrives.
LastBeatAt(n) == HeaderLength + 8 * (BeatsOf(Stream[n]) - 1)
Arrives(d) == Stream[d.seq] \in Supported /\ d.len > LastBeatAt(d.seq) /\ d.len % 8 \in 1 .. 4
EmittedExactly ==
  /\ \A i, j \in DOMAIN emitted : i < j => emitted[i] < emitted[j]
  /\ Settled => {emitted[i] : i \in DOMAIN emitted} = {d.seq : d \in {e \in accepted : Arrives(e)}}

\* The parser keeps the timing the order path is composed with: two edges after
\* the last beat of a message its fields are out, for one cycle.
Timing == INSTANCE ParserTiming WITH
  Messages <- {n \in Numbers : Stream[n] \in Supported},
  Beats <- [n \in Numbers |-> BeatsOf(Stream[n])],
  Junk <- 0, NoMessage <- NoDatagram,
  taken <- IF parser_state = "ACCUMULATE" THEN (byte_cnt + 2) \div 8 ELSE 0,
  emitting <- IF parser_state # "EMIT" THEN NoDatagram
              ELSE IF KindOf(msg_buf[0]) \in Supported THEN msg_buf[0][1] ELSE 0,
  fields <- IF fields.kind = NoKind THEN 0 ELSE fields.bytes[11][1]
ParserTimed == Timing!Spec

-----------------------------------------------------------------------------
\* The constants of Ingress.cfg: an 'A', an 'F' whose datagram ends in the upper
\* half of a beat, and a 'D', shorter than both; lengths and field bytes (type,
\* order_ref, shares, side, stock, price, new_order_ref) are the parser's.
SampleStream == <<"A", "F", "D">>
SampleBodyLength == [A |-> 36, F |-> 40, X |-> 23, D |-> 19, U |-> 35, E |-> 30, C |-> 35, P |-> 43, S |-> 12]
SampleSupported == {"A", "F", "X", "D", "U", "E", "C", "P"}
SampleFieldBytes == [k \in SampleSupported |->
  {0} \cup 11 .. 18 \cup
  (CASE k \in {"A", "F", "P"} -> 19 .. 35
     [] k \in {"X", "E"} -> 19 .. 22
     [] k = "C" -> 19 .. 22 \cup 32 .. 35
     [] k = "U" -> 19 .. 34
     [] k = "D" -> {})]

\* Cut in the header, the length field, the body, and the last beat.
SampleCuts == {<<1, 16>>, <<1, 18>>, <<1, 21>>, <<1, 28>>, <<1, 44>>, <<1, 57>>}
=============================================================================
