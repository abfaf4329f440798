------------------------------ MODULE EthFrame ------------------------------
(***************************************************************************)
(* tb/cocotb/drivers/eth_frame_builder.py: an ITCH message list wrapped in *)
(* MoldUDP64, UDP, IPv4 and Ethernet.  A header is the record of the       *)
(* fields that depend on what follows it; addresses and ports are numbers  *)
(* of the builder's defaults.  A frame is its headers and its length; byte *)
(* i of frame f is <<f.seq, i>>.                                           *)
(***************************************************************************)
EXTENDS Integers, SequencesExt

CONSTANTS
  SrcIp, DstIp,   \* each the two 16-bit words of an address
  Session         \* of the MoldUDP64 header, 10 bytes

Word == 0 .. 65535

ASSUME AddressAssumption == {SrcIp, DstIp} \subseteq [1 .. 2 -> Word]

EthLength == 14
Ipv4Length == 20
UdpLength == 8
MoldLength == 20

Total(words) == FoldSeq(+, 0, words)

\* The carries folded back in.  Ten words need the loop at most twice.
Carried(t) == (t % 65536) + (t \div 65536)
Folded(t) == IF t < 65536 THEN t
             ELSE IF Carried(t) < 65536 THEN Carried(t) ELSE Carried(Carried(t))
compute_ipv4_checksum(words) == 65535 - Folded(Total(words))

\* Version and IHL, total length, ident, DF, TTL 64 and UDP, checksum, addresses.
Ipv4Words(total, ident, checksum) ==
  <<17664, total, ident, 16384, 64 * 256 + 17, checksum>> \o SrcIp \o DstIp

build_eth_header == [eth_type |-> 2048]
build_ipv4_header(payload_len, ident) ==
  LET total == Ipv4Length + payload_len
  IN  [total_length |-> total, ident |-> ident,
       checksum |-> compute_ipv4_checksum(Ipv4Words(total, ident, 0))]
build_udp_header(payload_len) == [length |-> UdpLength + payload_len, checksum |-> 0]

\* Each message has its length in two bytes before it.
build_moldupp64_payload(seq, count, lengths) ==
  [seq |-> seq, count |-> count, session |-> Session, messages |-> lengths,
   length |-> MoldLength + FoldSeq(LAMBDA l, t : 2 + l + t, 0, lengths)]

build_kc705_frame(lengths, seq, count) ==
  LET mold == build_moldupp64_payload(seq, count, lengths)
  IN  [eth |-> build_eth_header,
       ipv4 |-> build_ipv4_header(UdpLength + mold.length, 0),
       udp |-> build_udp_header(mold.length), mold |-> mold, seq |-> seq,
       length |-> EthLength + Ipv4Length + UdpLength + mold.length]

\* frame_to_beats: the beat after the first k.
frame_beat(f, k) ==
  LET top == IF 8 * k + 8 < f.length THEN 8 * k + 8 ELSE f.length
  IN  [bytes |-> [i \in 1 .. top - 8 * k |-> <<f.seq, 8 * k + i>>],
       last |-> 8 * k + 8 >= f.length]

-----------------------------------------------------------------------------
\* What the UDP/IP stack behind the wrapper checks of a frame of n bytes.
Verifies(f, n) ==
  /\ f.eth.eth_type = 2048
  /\ Folded(Total(Ipv4Words(f.ipv4.total_length, f.ipv4.ident, f.ipv4.checksum))) = 65535
  /\ EthLength + f.ipv4.total_length = n
  /\ Ipv4Length + f.udp.length = f.ipv4.total_length
  /\ UdpLength + f.mold.length = f.udp.length
=============================================================================
