---------------------------- MODULE IngressProofs ----------------------------
(***************************************************************************)
(* What holds of the way in for every stream of messages, every depth of   *)
(* the FIFO, every way the network treats the datagrams and every          *)
(* interleaving of the two clocks.                                         *)
(***************************************************************************)
EXTENDS Ingress, SequenceTheorems, TLAPS

-----------------------------------------------------------------------------
(* Runs of bytes, cut and joined by the stripper.                          *)

Bytes == Nat \X Nat
Byte(n, i) == <<n, i>>

\* s bytes of the frame of message n, from byte o on.
Run(n, o, s) == [k \in 1 .. s |-> Byte(n, o + k - 1)]

LEMMA ByteIs == \A n, i \in Nat : Byte(n, i) \in Bytes /\ Byte(n, i)[1] = n /\ Byte(n, i)[2] = i
BY DEF Byte, Bytes

LEMMA RunAt ==
  ASSUME NEW n \in Nat, NEW o \in Nat, NEW s \in Nat, NEW k \in 1 .. s, NEW j \in Nat, j + 1 = o + k
  PROVE  Run(n, o, s)[k] = Byte(n, j)
<1>1. o + k - 1 = j
  OBVIOUS
<1> QED
  BY <1>1, Zenon DEF Run

LEMMA RunIsSeq ==
  ASSUME NEW n \in Nat, NEW o \in Nat, NEW s \in Nat
  PROVE  /\ Run(n, o, s) \in Seq(Bytes) /\ Len(Run(n, o, s)) = s
         /\ \A k \in 1 .. s, j \in Nat : j + 1 = o + k => Run(n, o, s)[k] = Byte(n, j)
<1>1. ASSUME NEW k \in 1 .. s PROVE Byte(n, o + k - 1) \in Bytes
  <2>1. o + k - 1 \in Nat
    OBVIOUS
  <2> QED
    BY <2>1, ByteIs
<1>2. Run(n, o, s) \in [1 .. s -> Bytes]
  BY <1>1, Zenon DEF Run
<1>3. Run(n, o, s) \in Seq(Bytes) /\ Len(Run(n, o, s)) = s
  BY <1>2, LenProperties, ElementOfSeq
<1> QED
  BY <1>3, RunAt

LEMMA RunNone ==
  ASSUME NEW n \in Nat, NEW o \in Nat
  PROVE  Run(n, o, 0) = << >>
<1>1. Run(n, o, 0) \in Seq(Bytes) /\ Len(Run(n, o, 0)) = 0
  BY RunIsSeq
<1> QED
  BY <1>1, EmptySeq

LEMMA RunSome ==
  ASSUME NEW n \in Nat, NEW o \in Nat, NEW s \in Nat, s > 0
  PROVE  Run(n, o, s) # << >> /\ Run(n, o, s)[1] = Byte(n, o)
<1>1. Run(n, o, s) \in Seq(Bytes) /\ Len(Run(n, o, s)) = s
  BY RunIsSeq
<1>2. 1 \in 1 .. s /\ o + 1 = o + 1
  OBVIOUS
<1>3. Run(n, o, s)[1] = Byte(n, o)
  BY <1>2, RunAt
<1> QED
  BY <1>1, <1>3, EmptySeq

\* A sequence with the bytes of a run is that run.
IsRun(u, n, o, s) ==
  /\ u \in Seq(Bytes) /\ Len(u) = s
  /\ \A k \in 1 .. s, j \in Nat : j + 1 = o + k => u[k] = Byte(n, j)

LEMMA RunIs ==
  ASSUME NEW n \in Nat, NEW o \in Nat, NEW s \in Nat
  PROVE  IsRun(Run(n, o, s), n, o, s)
BY RunIsSeq DEF IsRun

LEMMA RunIf ==
  ASSUME NEW n \in Nat, NEW o \in Nat, NEW s \in Nat, NEW u, IsRun(u, n, o, s)
  PROVE  u = Run(n, o, s)
<1> DEFINE v == Run(n, o, s)
<1>1. v \in Seq(Bytes) /\ Len(v) = s /\ \A k \in 1 .. s, j \in Nat : j + 1 = o + k => v[k] = Byte(n, j)
  BY RunIsSeq
<1>2. u \in Seq(Bytes) /\ Len(u) = s /\ \A k \in 1 .. s, j \in Nat : j + 1 = o + k => u[k] = Byte(n, j)
  BY DEF IsRun
<1> HIDE DEF v
<1>3. ASSUME NEW k \in 1 .. s PROVE u[k] = v[k]
  <2>1. PICK j \in Nat : j + 1 = o + k
    <3>1. o + k - 1 \in Nat /\ (o + k - 1) + 1 = o + k
      OBVIOUS
    <3> QED
      BY <3>1, Zenon
  <2> QED
    BY <1>1, <1>2, <2>1
<1>4. u = v
  BY <1>1, <1>2, <1>3, SeqEqual, Zenon
<1> QED
  BY <1>4 DEF v

LEMMA RunPrefix ==
  ASSUME NEW n \in Nat, NEW o \in Nat, NEW s \in Nat, NEW l \in Nat, l <= s
  PROVE  SubSeq(Run(n, o, s), 1, l) = Run(n, o, l)
<1> DEFINE r == Run(n, o, s)
           u == SubSeq(r, 1, l)
<1>1. r \in Seq(Bytes) /\ Len(r) = s /\ \A k \in 1 .. s, j \in Nat : j + 1 = o + k => r[k] = Byte(n, j)
  BY RunIsSeq
<1> HIDE DEF r, u
<1>2. \A k \in 1 .. l : r[k] \in Bytes
  BY <1>1, ElementOfSeq
<1>3. l \in Int /\ 1 \in Int /\ l - 1 + 1 = l
  OBVIOUS
<1>4. u \in Seq(Bytes) /\ Len(u) = l
  BY <1>2, <1>3, SubSeqProperties DEF u
<1>5. ASSUME NEW k \in 1 .. l, NEW j \in Nat, j + 1 = o + k PROVE u[k] = Byte(n, j)
  <2>1. k \in 1 .. l - 1 + 1 /\ 1 + k - 1 = k /\ k \in 1 .. s
    OBVIOUS
  <2>2. u[k] = r[1 + k - 1]
    BY <1>2, <1>3, <2>1, SubSeqProperties DEF u
  <2> QED
    BY <1>1, <1>5, <2>1, <2>2, Zenon
<1>6. IsRun(u, n, o, l)
  BY <1>4, <1>5, Zenon DEF IsRun
<1>7. u = Run(n, o, l)
  BY <1>6, RunIf
<1> QED
  BY <1>7 DEF r, u

LEMMA RunLower ==
  ASSUME NEW n \in Nat, NEW o \in Nat, NEW s \in Nat, NEW l \in Nat, l = IF s < 4 THEN s ELSE 4
  PROVE  Strip!Lower(Run(n, o, s)) = Run(n, o, l)
<1>1. Len(Run(n, o, s)) = s
  BY RunIsSeq
<1>2. Strip!Lower(Run(n, o, s)) = SubSeq(Run(n, o, s), 1, l)
  BY <1>1 DEF Strip!Lower
<1>3. l <= s
  OBVIOUS
<1>4. SubSeq(Run(n, o, s), 1, l) = Run(n, o, l)
  BY <1>3, RunPrefix, SMTT(60)
<1> QED
  BY <1>2, <1>4, Zenon

\* The upper half of a beat whose fifth byte is byte o of a frame.
LEMMA UpperIsRun ==
  ASSUME NEW r \in Seq(Bytes), NEW n \in Nat, NEW o \in Nat,
         \A k \in 1 .. Len(r), j \in Nat : j + 5 = o + k => r[k] = Byte(n, j),
         NEW l \in Nat, l = IF Len(r) < 4 THEN 0 ELSE Len(r) - 4
  PROVE  Strip!Upper(r) = Run(n, o, l)
<1> DEFINE s == Len(r)
           u == SubSeq(r, 5, s)
<1>1. Strip!Upper(r) = u
  BY DEF Strip!Upper
<1>2. s \in Nat /\ l = IF s < 4 THEN 0 ELSE s - 4
  BY LenProperties
<1>3. \A k \in 5 .. s : r[k] \in Bytes
  BY <1>2, ElementOfSeq
<1>4. \A k \in 1 .. s, j \in Nat : j + 5 = o + k => r[k] = Byte(n, j)
  OBVIOUS
<1> HIDE DEF s, u
<1>5. s \in Int /\ 5 \in Int
  BY <1>2
<1>6. u \in Seq(Bytes) /\ Len(u) = IF 5 <= s THEN s - 5 + 1 ELSE 0
  BY <1>3, <1>5, SubSeqProperties DEF u
<1>7. Len(u) = l
  BY <1>2, <1>6
<1>8. ASSUME NEW k \in 1 .. l, NEW j \in Nat, j + 1 = o + k PROVE u[k] = Byte(n, j)
  <2>1. k \in 1 .. s - 5 + 1
    BY <1>2
  <2>2. u[k] = r[5 + k - 1]
    BY <1>3, <1>5, <2>1, SubSeqProperties DEF u
  <2>3. 5 + k - 1 \in 1 .. s /\ j + 5 = o + (5 + k - 1)
    BY <1>2, <1>8
  <2> QED
    BY <1>4, <2>2, <2>3, Zenon
<1>9. IsRun(u, n, o, l)
  BY <1>6, <1>7, <1>8, Zenon DEF IsRun
<1> QED
  BY <1>1, <1>9, RunIf

LEMMA RunUpper ==
  ASSUME NEW n \in Nat, NEW o \in Nat, NEW p \in Nat, NEW s \in Nat, NEW l \in Nat,
         p = o + 4, l = IF s < 4 THEN 0 ELSE s - 4
  PROVE  Strip!Upper(Run(n, o, s)) = Run(n, p, l)
<1>1. /\ Run(n, o, s) \in Seq(Bytes) /\ Len(Run(n, o, s)) = s
      /\ \A k \in 1 .. s, j \in Nat : j + 1 = o + k => Run(n, o, s)[k] = Byte(n, j)
  BY RunIsSeq
<1>2. ASSUME NEW k \in 1 .. s, NEW j \in Nat, j + 5 = p + k PROVE Run(n, o, s)[k] = Byte(n, j)
  <2>1. j + 1 = o + k
    BY <1>2
  <2> QED
    BY <1>1, <2>1, Zenon
<1> QED
  BY <1>1, <1>2, UpperIsRun

LEMMA JoinLeft ==
  ASSUME NEW a \in Seq(Bytes), NEW b \in Seq(Bytes), NEW k \in 1 .. Len(a)
  PROVE  (a \o b)[k] = a[k]
BY LenProperties

LEMMA JoinRight ==
  ASSUME NEW a \in Seq(Bytes), NEW b \in Seq(Bytes),
         NEW k \in 1 .. Len(b), NEW m \in Nat, m = Len(a) + k
  PROVE  (a \o b)[m] = b[k]
BY LenProperties

LEMMA JoinRuns ==
  ASSUME NEW n \in Nat, NEW o \in Nat, NEW p \in Nat, NEW q \in Nat, NEW s \in Nat, NEW t \in Nat,
         NEW a, NEW b, IsRun(a, n, o, q), IsRun(b, n, p, s), p = o + q, t = q + s
  PROVE  IsRun(a \o b, n, o, t)
<1> USE DEF IsRun
<1>1. a \in Seq(Bytes) /\ b \in Seq(Bytes) /\ Len(a) = q /\ Len(b) = s
  OBVIOUS
<1>2. ASSUME NEW k \in 1 .. t, NEW j \in Nat, j + 1 = o + k PROVE (a \o b)[k] = Byte(n, j)
  <2>1. CASE k <= Len(a)
    <3>1. k \in 1 .. Len(a)
      BY <1>1, <2>1
    <3>2. (a \o b)[k] = a[k]
      BY <1>1, <3>1, JoinLeft
    <3>3. a[k] = Byte(n, j)
      BY <1>2, <3>1
    <3> QED
      BY <3>2, <3>3, Zenon
  <2>2. CASE ~(k <= Len(a))
    <3>1. PICK i \in 1 .. Len(b) : k = Len(a) + i
      <4>1. k - Len(a) \in 1 .. Len(b) /\ k = Len(a) + (k - Len(a))
        BY <1>1, <2>2
      <4> QED
        BY <4>1, Zenon
    <3>2. k \in Nat /\ j + 1 = p + i
      BY <1>1, <1>2, <3>1
    <3>3. (a \o b)[k] = b[i]
      BY <1>1, <3>1, <3>2, JoinRight
    <3>4. b[i] = Byte(n, j)
      BY <3>2
    <3> QED
      BY <3>3, <3>4, Zenon
  <2> QED
    BY <2>1, <2>2, Zenon
<1>3. a \o b \in Seq(Bytes) /\ Len(a \o b) = t
  BY <1>1, ConcatProperties
<1> QED
  BY <1>2, <1>3, Zenon DEF IsRun

\* s bytes from p on follow q bytes from o on, t in all.
Follow(o, q, p, s, t) == p = o + q /\ t = q + s

LEMMA RunJoin ==
  ASSUME NEW n \in Nat, NEW o \in Nat, NEW p \in Nat, NEW q \in Nat, NEW s \in Nat, NEW t \in Nat,
         Follow(o, q, p, s, t)
  PROVE  IsRun(Run(n, o, q) \o Run(n, p, s), n, o, t)
<1>1. IsRun(Run(n, o, q), n, o, q) /\ IsRun(Run(n, p, s), n, p, s)
  BY RunIs
<1> QED
  BY <1>1, JoinRuns DEF Follow

-----------------------------------------------------------------------------
(* Messages and datagrams.                                                 *)

Dgram == [seq : Nat, count : Nat, len : Nat]

LEMMA MessageFacts ==
  ASSUME NEW n \in Numbers
  PROVE  /\ n \in Nat /\ n > 0
         /\ BodyLength[Stream[n]] \in Nat /\ BodyLength[Stream[n]] <= 54
         /\ FrameLength(n) = 2 + BodyLength[Stream[n]]
<1>1. n \in 1 .. Len(Stream) /\ Stream \in Seq(DOMAIN BodyLength)
  BY StreamAssumption DEF Numbers
<1>2. Stream[n] \in DOMAIN BodyLength
  BY <1>1, ElementOfSeq
<1>3. BodyLength[Stream[n]] \in 0 .. MaxBody
  BY <1>2, StreamAssumption
<1>4. n \in Nat /\ n > 0
  BY <1>1, LenProperties
<1>5. BodyLength[Stream[n]] \in Nat /\ BodyLength[Stream[n]] <= 54
  BY <1>3 DEF MaxBody
<1> QED
  BY <1>4, <1>5 DEF FrameLength

LEMMA DatagramFacts ==
  ASSUME NEW d \in Datagrams
  PROVE  /\ d \in Dgram /\ d.len > 0 /\ d # NoDatagram
         /\ d.count = 1 => d.seq \in Numbers /\ d.len <= HeaderLength + FrameLength(d.seq)
         /\ d.count # 1 => d.count = 0 /\ d.len = HeaderLength
<1> USE DEF HeaderLength
<1>1. CASE d \in {Whole(n) : n \in Numbers}
  <2>1. PICK n \in Numbers : d = Whole(n)
    BY <1>1
  <2> QED
    BY <2>1, MessageFacts, NothingAssumption DEF Whole, Dgram
<1>2. CASE d \in {Cut(c[1], c[2]) : c \in Cuts}
  <2>1. PICK c \in Cuts : d = Cut(c[1], c[2])
    BY <1>2
  <2>2. PICK n \in Numbers, l \in 1 .. HeaderLength + MaxBody + 1 :
          c = <<n, l>> /\ l < HeaderLength + FrameLength(n)
    BY CutAssumption
  <2>3. d = [seq |-> n, count |-> 1, len |-> l]
    BY <2>1, <2>2 DEF Cut
  <2>4. l \in Nat /\ l > 0
    BY DEF MaxBody
  <2> QED
    BY <2>2, <2>3, <2>4, MessageFacts, NothingAssumption DEF Dgram
<1>3. CASE d \in {Heartbeat(n) : n \in 1 .. Len(Stream) + 1}
  <2>1. PICK n \in 1 .. Len(Stream) + 1 : d = Heartbeat(n)
    BY <1>3
  <2>2. n \in Nat
    BY StreamAssumption, LenProperties
  <2> QED
    BY <2>1, <2>2, NothingAssumption DEF Heartbeat, Dgram
<1> QED
  BY <1>1, <1>2, <1>3 DEF Datagrams

LEMMA ReceivedIs ==
  ASSUME NEW d \in Datagrams, NEW i \in Nat
  PROVE  Received(d, i) = IF HeaderLength + i < d.len THEN Byte(d.seq, i) ELSE Zero
BY DEF Received, Byte

LEMMA ZeroIs ==
  /\ Zero = Byte(0, 0) /\ KindOf(Zero) = NoKind
  /\ \A b : LengthOf(Zero, b) = 0 /\ LengthOf(b, Zero) = 0
BY DEF Zero, Byte, KindOf, LengthOf

LEMMA ByteOfMessage ==
  ASSUME NEW n \in Numbers, NEW i \in Nat, NEW j \in Nat
  PROVE  /\ Byte(n, i) # Zero /\ KindOf(Byte(n, i)) = Stream[n]
         /\ LengthOf(Byte(n, i), Byte(n, j)) = BodyLength[Stream[n]]
<1>1. n # 0
  BY MessageFacts
<1>2. Byte(n, i) # Zero /\ Byte(n, j) # Zero /\ Byte(n, i)[1] = n /\ Byte(n, j)[1] = n
  BY <1>1 DEF Byte, Zero
<1> QED
  BY <1>2, Zenon DEF KindOf, LengthOf

-----------------------------------------------------------------------------
(* What the stripper sends.                                                *)

\* The beat of datagram d that begins with byte o of its frame: the last one when
\* no beat comes in behind the one that brings its upper half.
Size(d, o) == IF d.len - HeaderLength - o < 8 THEN d.len - HeaderLength - o ELSE 8
Out(d, o) == [bytes |-> Run(d.seq, o, Size(d, o)), last |-> d.len <= o + 32]
Sendable(d, o) == o % 8 = 0 /\ (o + 24 < d.len \/ (o = 0 /\ d.len \in 21 .. 24))

\* What is sent for a heartbeat.
Empty == [bytes |-> << >>, last |-> TRUE]

Beats == [bytes : Seq(Bytes), last : BOOLEAN]

Skipping == {"B0", "B1", "B2", "DROP"}
Types ==
  /\ state \in Skipping \cup {"PAYLOAD", "FLUSH"}
  /\ expected_seq_num \in Nat /\ expected_seq_num > 0
  /\ at \in Nat
  /\ dgram \in Datagrams \cup {NoDatagram}
  /\ accepted \subseteq Datagrams
  /\ fifo \in Seq(Beats)

\* One datagram was accepted for each number up to the one expected.
InOrderOnce ==
  /\ \A d \in accepted : d.count = 1 /\ d.seq < expected_seq_num /\ d.len >= HeaderLength
  /\ \A n \in 1 .. expected_seq_num - 1 : \E d \in accepted : d.seq = n
  /\ \A d, e \in accepted : d.seq = e.seq => d = e

\* How far the stripper is in its datagram, and what it has staged.
StripPlace ==
  /\ state \in {"B0", "FLUSH"} \/ dgram = NoDatagram => at = 0
  /\ state \in {"B1", "B2", "PAYLOAD", "DROP"} => dgram # NoDatagram /\ at < dgram.len
  /\ dgram # NoDatagram => at < dgram.len
  /\ state = "B1" => at = 8
  /\ state = "B2" => at = 16
  /\ state = "PAYLOAD" => /\ dgram \in accepted /\ dgram.seq + 1 = expected_seq_num
                          /\ at >= 24 /\ at % 8 = 0
                          /\ stage_hi_valid = TRUE /\ stage = Run(dgram.seq, at - 24, 4)
  /\ state = "FLUSH" /\ stage # << >> =>
       \E d \in accepted : /\ d.seq + 1 = expected_seq_num
                           /\ d.len \in 21 .. 24
                           /\ stage = Run(d.seq, 0, d.len - HeaderLength)

\* The beat coming in.
LEMMA NextBeatIs ==
  ASSUME Types, StripPlace, dgram # NoDatagram
  PROVE  /\ NextBeat.bytes \in Seq(Bytes)
         /\ Len(NextBeat.bytes) = IF dgram.len - at < 8 THEN dgram.len - at ELSE 8
         /\ NextBeat.last \in BOOLEAN /\ (NextBeat.last <=> dgram.len <= at + 8)
         /\ NextBeat.seq = dgram.seq /\ NextBeat.count = dgram.count
         /\ NextBeat # NoBeat
         /\ at >= HeaderLength => IsRun(NextBeat.bytes, dgram.seq, at - HeaderLength, Len(NextBeat.bytes))
         /\ at = 16 => \A k \in 1 .. Len(NextBeat.bytes), j \in Nat :
                         j + 5 = 0 + k => NextBeat.bytes[k] = Byte(dgram.seq, j)
<1> DEFINE rest == dgram.len - at
           size == IF rest < 8 THEN rest ELSE 8
           bs == [k \in 1 .. size |-> ByteOf(dgram, at + k - 1)]
<1>1. dgram \in Dgram /\ at \in Nat /\ at < dgram.len
  BY DatagramFacts DEF Types, StripPlace
<1>2. dgram.len \in Nat /\ dgram.seq \in Nat
  BY <1>1 DEF Dgram
<1>3. size \in Nat
  BY <1>1, <1>2
<1>4. NextBeat = [bytes |-> bs, last |-> rest <= 8, seq |-> dgram.seq, count |-> dgram.count]
  BY DEF NextBeat
<1> HIDE DEF size
<1>5. \A i \in Nat : i >= HeaderLength => \A j \in Nat : j + HeaderLength = i => ByteOf(dgram, i) = Byte(dgram.seq, j)
  <2>1. ASSUME NEW i \in Nat, NEW j \in Nat, j + HeaderLength = i PROVE ByteOf(dgram, i) = Byte(dgram.seq, j)
    <3>1. ~(i < HeaderLength) /\ i - HeaderLength = j
      BY <2>1 DEF HeaderLength
    <3> QED
      BY <3>1, Zenon DEF ByteOf, Byte
  <2> QED
    BY <2>1
<1>6. \A i \in Nat : ByteOf(dgram, i) \in Bytes
  <2>1. ASSUME NEW i \in Nat PROVE ByteOf(dgram, i) \in Bytes
    BY <1>2 DEF ByteOf, Bytes, Zero, HeaderLength
  <2> QED
    BY <2>1
<1>7. bs \in Seq(Bytes) /\ Len(bs) = size
  <2>1. ASSUME NEW k \in 1 .. size PROVE ByteOf(dgram, at + k - 1) \in Bytes
    <3>1. at + k - 1 \in Nat
      BY <1>1, <1>3
    <3> QED
      BY <1>6, <3>1, Zenon
  <2>2. bs \in [1 .. size -> Bytes]
    BY <2>1, Zenon
  <2> QED
    BY <1>3, <2>2, LenProperties, ElementOfSeq
<1>8. \A k \in 1 .. size, j \in Nat : j + HeaderLength + 1 = at + k => bs[k] = Byte(dgram.seq, j)
  <2>1. ASSUME NEW k \in 1 .. size, NEW j \in Nat, j + HeaderLength + 1 = at + k PROVE bs[k] = Byte(dgram.seq, j)
    <3>1. bs[k] = ByteOf(dgram, at + k - 1)
      BY Zenon
    <3>2. at + k - 1 \in Nat /\ at + k - 1 >= HeaderLength /\ j + HeaderLength = at + k - 1
      BY <1>1, <1>3, <2>1 DEF HeaderLength
    <3> QED
      BY <1>5, <3>1, <3>2, Zenon
  <2> QED
    BY <2>1
<1>9. NextBeat.bytes = bs /\ NextBeat.last = (rest <= 8) /\ NextBeat.seq = dgram.seq /\ NextBeat.count = dgram.count
  BY <1>4
<1>10. NextBeat # NoBeat
  <2>1. NextBeat \in [bytes : Seq(Bytes), last : BOOLEAN, seq : Nat, count : Nat]
    <3>1. (rest <= 8) \in BOOLEAN /\ dgram.count \in Nat
      BY <1>1 DEF Dgram
    <3> HIDE DEF rest, bs
    <3> QED
      BY <1>2, <1>4, <1>7, <3>1, Zenon
  <2> QED
    BY <2>1, NothingAssumption DEF Bytes
<1> HIDE DEF bs
<1>11. ASSUME at >= HeaderLength PROVE IsRun(bs, dgram.seq, at - HeaderLength, size)
  <2>1. ASSUME NEW k \in 1 .. size, NEW j \in Nat, j + 1 = at - HeaderLength + k PROVE bs[k] = Byte(dgram.seq, j)
    <3>1. j + HeaderLength + 1 = at + k
      BY <1>1, <1>3, <2>1 DEF HeaderLength
    <3> QED
      BY <1>8, <3>1, Zenon
  <2> QED
    BY <1>7, <2>1, Zenon DEF IsRun
<1>12. ASSUME at = 16, NEW k \in 1 .. size, NEW j \in Nat, j + 5 = 0 + k PROVE bs[k] = Byte(dgram.seq, j)
  <2>1. j + HeaderLength + 1 = at + k
    BY <1>3, <1>12 DEF HeaderLength
  <2> QED
    BY <1>8, <2>1, Zenon
<1>13. (rest <= 8) <=> dgram.len <= at + 8
  BY <1>1, <1>2
<1>14. NextBeat.last \in BOOLEAN /\ (NextBeat.last <=> dgram.len <= at + 8)
  <2>1. CASE rest <= 8
    <3>1. NextBeat.last = TRUE
      BY <1>4, <2>1
    <3> QED
      BY <1>13, <2>1, <3>1, Zenon
  <2>2. CASE ~(rest <= 8)
    <3>0. (rest <= 8) = FALSE
      BY <2>2
    <3>1. NextBeat.last = FALSE
      BY <1>4, <3>0, Zenon
    <3> QED
      BY <1>13, <2>2, <3>1, Zenon
  <2> QED
    BY <2>1, <2>2
<1> QED
  BY <1>7, <1>9, <1>10, <1>11, <1>12, <1>14, Zenon DEF size

-----------------------------------------------------------------------------
(* A tick of clk_156 does one of five things.                              *)

Still == UNCHANGED <<state, stage, stage_hi_valid, expected_seq_num, fifo, accepted, dgram, at>>

\* On to the next beat of a header or of what is skipped, or done with it.
Ahead ==
  /\ state \in Skipping
  /\ UNCHANGED <<expected_seq_num, fifo, accepted>>
  /\ \/ state' = "B0" /\ dgram' = NoDatagram /\ at' = 0
     \/ /\ state' \in {"B1", "B2", "DROP"} /\ dgram' = dgram /\ dgram # NoDatagram /\ at' < dgram.len
        /\ at' = at + 8 /\ (state' = "B1" => at' = 8) /\ (state' = "B2" => at' = 16)

Accepts ==
  /\ state = "B2" /\ dgram \in Datagrams /\ dgram.len >= HeaderLength
  /\ dgram.seq = expected_seq_num /\ expected_seq_num' = expected_seq_num + dgram.count
  /\ accepted' = IF dgram.count = 1 THEN accepted \cup {dgram} ELSE accepted
  /\ fifo' = fifo
  /\ IF dgram.len > 24
       THEN /\ state' = "PAYLOAD" /\ stage_hi_valid' = TRUE /\ stage' = Run(dgram.seq, 0, 4)
            /\ dgram' = dgram /\ at' = 24
       ELSE /\ state' = "FLUSH" /\ stage' = Run(dgram.seq, 0, dgram.len - HeaderLength)
            /\ dgram' = NoDatagram /\ at' = 0

Sends ==
  /\ state = "PAYLOAD"
  /\ fifo' = Append(fifo, Out(dgram, at - 24))
  /\ UNCHANGED <<accepted, expected_seq_num>>
  /\ IF dgram.len <= at + 8
       THEN state' = "B0" /\ dgram' = NoDatagram /\ at' = 0
       ELSE /\ state' = "PAYLOAD" /\ stage_hi_valid' = TRUE /\ stage' = Run(dgram.seq, at - 16, 4)
            /\ dgram' = dgram /\ at' = at + 8

Flushes ==
  /\ state = "FLUSH"
  /\ fifo' = Append(fifo, [bytes |-> stage, last |-> TRUE])
  /\ state' = "B0"
  /\ UNCHANGED <<stage, accepted, expected_seq_num, dgram, at>>

LEMMA BeatIsOne ==
  ASSUME NEW bs \in Seq(Bytes), NEW l \in BOOLEAN
  PROVE  [bytes |-> bs, last |-> l] # NoBeat
<1>1. [bytes |-> bs, last |-> l] \in [bytes : Seq(Nat \X Nat), last : BOOLEAN]
  BY Zenon DEF Bytes
<1> QED
  BY <1>1, NothingAssumption, Zenon

LEMMA FlushTick ==
  ASSUME Types, StripPlace, state = "FLUSH", NEW b, NetTick(b)
  PROVE  Still \/ Flushes
<1>1. /\ IF m_tready THEN state' = "B0" /\ stage_hi_valid' = FALSE ELSE UNCHANGED <<state, stage_hi_valid>>
      /\ UNCHANGED <<stage, expected_seq_num>>
  BY DEF NetTick, Strip!Clock, Strip!FlushShort
<1>2. stage \in Seq(Bytes)
  <2>1. CASE stage = << >>
    BY <2>1, EmptySeq
  <2>2. CASE stage # << >>
    <3>1. PICK d \in accepted : d.len \in 21 .. 24 /\ stage = Run(d.seq, 0, d.len - HeaderLength)
      BY <2>2 DEF StripPlace
    <3>2. d.seq \in Nat /\ d.len - HeaderLength \in Nat
      BY <3>1, DatagramFacts DEF Types, Dgram, HeaderLength
    <3> QED
      BY <3>1, <3>2, RunIsSeq
  <2> QED
    BY <2>1, <2>2
<1>3. [bytes |-> stage, last |-> TRUE] # NoBeat
  BY <1>2, BeatIsOne
<1>4. fifo' = IF m_tready THEN Append(fifo, [bytes |-> stage, last |-> TRUE]) ELSE fifo
  BY <1>3 DEF NetTick, Strip!m_beat
<1>5. accepted' = accepted /\ UNCHANGED <<dgram, at>>
  BY DEF NetTick, AcceptsNow, Strip!s_tready
<1> QED
  BY <1>1, <1>4, <1>5 DEF Still, Flushes

LEMMA NetIdles ==
  ASSUME Types, StripPlace, state # "FLUSH", NetTick(NoBeat)
  PROVE  Still
BY DEF NetTick, AcceptsNow, Strip!Clock, Strip!FlushShort, Strip!stripVars, Strip!m_beat, Still

\* A beat of a header, or of a datagram that is skipped.
LEMMA SkipTick ==
  ASSUME Types, StripPlace, dgram # NoDatagram, state \in {"B0", "B1", "DROP"}, NetTick(NextBeat)
  PROVE  Ahead
<1> DEFINE b == NextBeat
<1>1. dgram.len \in Nat /\ at \in Nat /\ at < dgram.len
  BY DatagramFacts DEF Types, StripPlace, Dgram
<1>2. b # NoBeat /\ Len(b.bytes) = (IF dgram.len - at < 8 THEN dgram.len - at ELSE 8)
  BY NextBeatIs
<1>3. b.last \in BOOLEAN /\ (b.last <=> dgram.len <= at + 8)
  BY NextBeatIs
<1> HIDE DEF b
<1>4. Strip!Take(b, m_tready)
  BY <1>2 DEF NetTick, Strip!Clock, Strip!FlushShort, b
<1>5. fifo' = fifo /\ accepted' = accepted
  BY DEF NetTick, Strip!m_beat, AcceptsNow, b
<1>6. IF b.last THEN dgram' = NoDatagram /\ at' = 0 ELSE at' = at + 8 /\ dgram' = dgram
  BY <1>2 DEF NetTick, Strip!s_tready, b
<1>7. expected_seq_num' = expected_seq_num
  BY <1>4 DEF Strip!Take, Strip!HeaderB0, Strip!HeaderB1, Strip!HeaderB2, Strip!Payload, Strip!Drop, Strip!Header
<1>8. CASE b.last
  <2>1. state' = "B0"
    BY <1>4, <1>8 DEF Strip!Take, Strip!HeaderB0, Strip!HeaderB1, Strip!HeaderB2, Strip!Payload, Strip!Drop, Strip!Header
  <2> QED
    BY <1>5, <1>6, <1>7, <1>8, <2>1 DEF Ahead, Skipping
<1>9. CASE ~b.last
  <2>1. ~(dgram.len <= at + 8)
    BY <1>3, <1>9, Zenon
  <2>2. ~(Len(b.bytes) < 8) /\ at + 8 < dgram.len
    BY <1>1, <1>2, <2>1
  <2>3. state' = IF state = "B0" THEN "B1" ELSE IF state = "B1" THEN "B2" ELSE "DROP"
    BY <1>4, <1>9, <2>2 DEF Strip!Take, Strip!HeaderB0, Strip!HeaderB1, Strip!HeaderB2, Strip!Payload, Strip!Drop, Strip!Header
  <2>4. (state = "B0" => at = 0) /\ (state = "B1" => at = 8)
    BY DEF StripPlace
  <2>5. at' = at + 8 /\ dgram' = dgram
    BY <1>6, <1>9
  <2> QED
    BY <1>1, <1>5, <1>7, <2>2, <2>3, <2>4, <2>5 DEF Ahead, Skipping
<1> QED
  BY <1>8, <1>9

LEMMA HeaderTick ==
  ASSUME Types, StripPlace, dgram # NoDatagram, state = "B2", NetTick(NextBeat)
  PROVE  Ahead \/ Accepts
<1> DEFINE b == NextBeat
           n == dgram.seq
           s == Len(b.bytes)
<1>1. dgram \in Datagrams /\ dgram.len \in Nat /\ n \in Nat /\ at = 16 /\ at < dgram.len
  BY DatagramFacts DEF Types, StripPlace, Dgram
<1>2. /\ b # NoBeat /\ s = (IF dgram.len - at < 8 THEN dgram.len - at ELSE 8)
      /\ b.bytes \in Seq(Bytes) /\ b.seq = n /\ b.count = dgram.count
  BY NextBeatIs
<1>3. b.last \in BOOLEAN /\ (b.last <=> dgram.len <= at + 8)
  BY NextBeatIs
<1>4. \A k \in 1 .. s, j \in Nat : j + 5 = 0 + k => b.bytes[k] = Byte(n, j)
  BY <1>1, NextBeatIs, Zenon
<1> HIDE DEF b
<1>5. Strip!Malformed(b) \/ Strip!Accept(b) \/ Strip!OutOfOrder(b)
  BY <1>2 DEF NetTick, Strip!Clock, Strip!FlushShort, Strip!Take, Strip!HeaderB0, Strip!HeaderB1, Strip!HeaderB2, Strip!Payload, Strip!Drop, b
<1>6. fifo' = fifo
  BY DEF NetTick, Strip!m_beat, b
<1>7. IF b.last THEN dgram' = NoDatagram /\ at' = 0 ELSE at' = at + 8 /\ dgram' = dgram
  BY <1>2 DEF NetTick, Strip!s_tready, b
<1>8. accepted' = IF AcceptsNow(b) /\ b.count = 1 THEN accepted \cup {dgram} ELSE accepted
  BY DEF NetTick, b
<1>9. b.last <=> dgram.len <= 24
  <2>1. at + 8 = 24
    BY <1>1
  <2> QED
    BY <1>3, <2>1, Zenon
<1>10. s \in Nat /\ (s < 4 <=> dgram.len < 20) /\ (s >= 4 <=> dgram.len >= 20)
  BY <1>1, <1>2
<1>11. CASE Strip!Malformed(b) \/ Strip!OutOfOrder(b)
  <2>1. ~AcceptsNow(b)
    BY <1>10, <1>11 DEF Strip!Malformed, Strip!OutOfOrder, AcceptsNow
  <2>2. state' = (IF b.last THEN "B0" ELSE "DROP") /\ expected_seq_num' = expected_seq_num
    BY <1>11 DEF Strip!Malformed, Strip!OutOfOrder, Strip!Skip
  <2>3. accepted' = accepted
    BY <1>8, <2>1
  <2>4. CASE b.last
    BY <1>6, <1>7, <2>2, <2>3, <2>4 DEF Ahead, Skipping
  <2>5. CASE ~b.last
    <3>1. at' = at + 8 /\ at' < dgram.len /\ state' = "DROP" /\ dgram' = dgram
      BY <1>1, <1>7, <1>9, <2>2, <2>5
    <3> QED
      BY <1>6, <2>2, <2>3, <3>1 DEF Ahead, Skipping
  <2> QED
    BY <2>4, <2>5
<1>12. CASE Strip!Accept(b)
  <2>1. /\ s >= 4 /\ n = expected_seq_num /\ expected_seq_num' = n + dgram.count
        /\ stage' = Strip!Upper(b.bytes) /\ stage_hi_valid' = TRUE
        /\ state' = IF b.last THEN "FLUSH" ELSE "PAYLOAD"
    BY <1>2, <1>12 DEF Strip!Accept, Strip!InOrder, Strip!Advanced
  <2>2. accepted' = IF dgram.count = 1 THEN accepted \cup {dgram} ELSE accepted
    BY <1>2, <1>8, <1>12 DEF AcceptsNow, Strip!Accept
  <2>3. dgram.len >= HeaderLength
    BY <1>10, <2>1 DEF HeaderLength
  <2>4. PICK l \in Nat : l = IF s < 4 THEN 0 ELSE s - 4
    <3>1. (IF s < 4 THEN 0 ELSE s - 4) \in Nat
      BY <1>10
    <3> QED
      BY <3>1, Zenon
  <2>5. Strip!Upper(b.bytes) = Run(n, 0, l)
    <3>1. /\ b.bytes \in Seq(Bytes) /\ n \in Nat /\ 0 \in Nat
          /\ \A k \in 1 .. Len(b.bytes), j \in Nat : j + 5 = 0 + k => b.bytes[k] = Byte(n, j)
          /\ l = IF Len(b.bytes) < 4 THEN 0 ELSE Len(b.bytes) - 4
      BY <1>1, <1>2, <1>4, <2>4
    <3> HIDE DEF n
    <3> QED
      BY <3>1, UpperIsRun, ZenonT(60)
  <2>6. CASE b.last
    <3>1. l = dgram.len - HeaderLength /\ ~(dgram.len > 24)
      BY <1>1, <1>2, <1>9, <1>10, <2>1, <2>4, <2>6 DEF HeaderLength
    <3> QED
      BY <1>1, <1>6, <1>7, <2>1, <2>2, <2>3, <2>5, <2>6, <3>1, Zenon DEF Accepts
  <2>7. CASE ~b.last
    <3>1. l = 4 /\ dgram.len > 24 /\ at + 8 = 24
      BY <1>1, <1>2, <1>9, <1>10, <2>4, <2>7
    <3> QED
      BY <1>1, <1>6, <1>7, <2>1, <2>2, <2>3, <2>5, <2>7, <3>1, Zenon DEF Accepts
  <2> QED
    BY <2>6, <2>7
<1> QED
  BY <1>5, <1>11, <1>12

\* What is staged and the beat coming in, as bytes of the frame.
LEMMA RunHalves ==
  ASSUME NEW n \in Nat, NEW o \in Nat, NEW p \in Nat, NEW l \in Nat, NEW t \in Nat,
         Follow(o, 4, p, l, t)
  PROVE  IsRun(Run(n, o, 4) \o Run(n, p, l), n, o, t)
BY RunJoin, Zenon, 4 \in Nat

LEMMA RunRest ==
  ASSUME NEW n \in Nat, NEW p \in Nat, NEW r \in Nat, r = p + 4
  PROVE  IsRun(Strip!Upper(Run(n, p, 8)), n, r, 4)
<1>1. Strip!Upper(Run(n, p, 8)) = Run(n, r, 4)
  BY RunUpper
<1>2. 4 \in Nat
  OBVIOUS
<1> QED
  BY <1>1, <1>2, RunIs, Zenon

\* A beat of t bytes is made of four staged ones and the first l of s.
Made(s, l, t) == l = (IF s < 4 THEN s ELSE 4) /\ t = 4 + l

LEMMA Shifted ==
  ASSUME NEW n \in Nat, NEW o \in Nat, NEW p \in Nat, NEW s \in Nat, NEW l \in Nat, NEW t \in Nat,
         p = o + 4, Made(s, l, t)
  PROVE  IsRun(Run(n, o, 4) \o Strip!Lower(Run(n, p, s)), n, o, t)
<1>1. Strip!Lower(Run(n, p, s)) = Run(n, p, l)
  BY RunLower DEF Made
<1>2. Follow(o, 4, p, l, t)
  BY DEF Made, Follow
<1>3. IsRun(Run(n, o, 4) \o Run(n, p, l), n, o, t)
  BY <1>2, RunHalves, Zenon
<1> QED
  BY <1>1, <1>3, Zenon

LEMMA PayloadTick ==
  ASSUME Types, StripPlace, dgram # NoDatagram, state = "PAYLOAD", NetTick(NextBeat)
  PROVE  Still \/ Sends
<1>1. PICK b : b = NextBeat
  OBVIOUS
<1>2. PICK n \in Nat, o \in Nat, p \in Nat, r \in Nat :
        n = dgram.seq /\ o = at - 24 /\ p = at - 20 /\ r = at - 16
  <2>1. dgram.seq \in Nat /\ at - 24 \in Nat /\ at - 20 \in Nat /\ at - 16 \in Nat
    BY DatagramFacts DEF Types, StripPlace, Dgram
  <2> QED
    BY <2>1, Zenon
<1>3. /\ dgram.len \in Nat /\ at \in Nat /\ at < dgram.len /\ at >= 24
      /\ stage_hi_valid = TRUE /\ stage = Run(n, o, 4)
  BY <1>2, DatagramFacts DEF Types, StripPlace, Dgram
<1>4. PICK s \in Nat : s = IF dgram.len - at < 8 THEN dgram.len - at ELSE 8
  <2>1. (IF dgram.len - at < 8 THEN dgram.len - at ELSE 8) \in Nat
    BY <1>3
  <2> QED
    BY <2>1, Zenon
<1>5. b # NoBeat /\ b.bytes \in Seq(Bytes) /\ Len(b.bytes) = s /\ b.last \in BOOLEAN
  BY <1>1, <1>4, NextBeatIs, Zenon
<1>6. b.last <=> dgram.len <= at + 8
  BY <1>1, NextBeatIs, Zenon
<1>7. b.bytes = Run(n, p, s)
  <2>1. at >= HeaderLength /\ at - HeaderLength = p
    BY <1>2, <1>3 DEF HeaderLength
  <2>2. IsRun(b.bytes, n, p, s)
    BY <1>1, <1>2, <1>5, <2>1, NextBeatIs, Zenon
  <2> QED
    BY <2>2, RunIf
<1>8. PICK l \in Nat, t \in Nat : Made(s, l, t)
  <2>1. PICK l \in Nat : l = IF s < 4 THEN s ELSE 4
    OBVIOUS
  <2>2. Made(s, l, 4 + l) /\ 4 + l \in Nat
    BY <2>1 DEF Made
  <2> QED
    BY <2>2, Zenon
<1>9. p = o + 4 /\ r = p + 4
  BY <1>2, <1>3
<1>10. /\ Run(n, o, 4) \o Strip!Lower(Run(n, p, s)) = Run(n, o, t)
       /\ Run(n, o, t) \in Seq(Bytes)
       /\ Strip!Upper(Run(n, p, 8)) = Run(n, r, 4)
  <2>1. IsRun(Run(n, o, 4) \o Strip!Lower(Run(n, p, s)), n, o, t)
    BY <1>8, <1>9, Shifted, Zenon
  <2>2. IsRun(Strip!Upper(Run(n, p, 8)), n, r, 4)
    BY <1>9, RunRest, Zenon
  <2>3. IsRun(Run(n, o, t), n, o, t) /\ 4 \in Nat
    BY RunIs
  <2>4. Run(n, o, t) \in Seq(Bytes)
    BY <2>3, Zenon DEF IsRun
  <2>5. Run(n, o, 4) \o Strip!Lower(Run(n, p, s)) = Run(n, o, t)
    BY <2>1, RunIf
  <2>6. Strip!Upper(Run(n, p, 8)) = Run(n, r, 4)
    BY <2>2, RunIf
  <2> QED
    BY <2>4, <2>5, <2>6
<1>11. Out(dgram, at - 24) = [bytes |-> Run(n, o, t), last |-> b.last]
  <2>1. t = Size(dgram, o)
    BY <1>2, <1>3, <1>4, <1>8 DEF Size, HeaderLength, Made
  <2>2. dgram.len <= at + 8 <=> dgram.len <= o + 32
    BY <1>2, <1>3
  <2>3. b.last = (dgram.len <= o + 32)
    BY <1>5, <1>6, <2>2
  <2>4. Out(dgram, o) = [bytes |-> Run(n, o, t), last |-> b.last]
    BY <1>2, <2>1, <2>3, Zenon DEF Out
  <2> QED
    BY <1>2, <2>4, Zenon
<1>12. Strip!m_beat(b) = Out(dgram, at - 24) /\ Out(dgram, at - 24) # NoBeat
  <2>1. Strip!m_beat(b) = [bytes |-> Run(n, o, t), last |-> b.last]
    BY <1>3, <1>5, <1>7, <1>10, Zenon DEF Strip!m_beat
  <2>2. [bytes |-> Run(n, o, t), last |-> b.last] # NoBeat
    BY <1>5, <1>10, BeatIsOne, Zenon
  <2> QED
    BY <1>11, <2>1, <2>2, Zenon
<1>13. Strip!Payload(b, m_tready)
  BY <1>1, <1>5 DEF NetTick, Strip!Clock, Strip!FlushShort, Strip!Take, Strip!HeaderB0, Strip!HeaderB1, Strip!HeaderB2, Strip!Payload, Strip!Drop
<1>14. accepted' = accepted
  BY DEF NetTick, AcceptsNow
<1>15. IF m_tready THEN IF b.last THEN dgram' = NoDatagram /\ at' = 0 ELSE at' = at + 8 /\ dgram' = dgram
                  ELSE UNCHANGED <<dgram, at>>
  BY <1>1, <1>5 DEF NetTick, Strip!s_tready
<1>16. fifo' = IF m_tready THEN Append(fifo, Out(dgram, at - 24)) ELSE fifo
  BY <1>1, <1>12 DEF NetTick
<1>17. CASE ~m_tready
  BY <1>13, <1>14, <1>15, <1>16, <1>17 DEF Strip!Payload, Still
<1>18. CASE m_tready
  <2>1. /\ stage' = Strip!Upper(b.bytes) /\ state' = (IF b.last THEN "B0" ELSE "PAYLOAD")
        /\ stage_hi_valid' = (~b.last \/ Strip!Upper(b.bytes) # << >>)
        /\ expected_seq_num' = expected_seq_num
    BY <1>13, <1>18 DEF Strip!Payload, Strip!Staged
  <2>2. CASE b.last
    <3>1. dgram.len <= at + 8
      BY <1>6, <2>2, Zenon
    <3> QED
      BY <1>14, <1>15, <1>16, <1>18, <2>1, <2>2, <3>1, Zenon DEF Sends
  <2>3. CASE ~b.last
    <3>1. ~(dgram.len <= at + 8)
      BY <1>6, <2>3, Zenon
    <3>2. stage_hi_valid' = TRUE
      BY <2>1, <2>3, Zenon
    <3>3. s = 8
      BY <1>3, <1>4, <3>1
    <3>4. stage' = Run(dgram.seq, at - 16, 4)
      BY <1>2, <1>7, <1>10, <2>1, <3>3, Zenon
    <3> QED
      BY <1>14, <1>15, <1>16, <1>18, <2>1, <2>3, <3>1, <3>2, <3>4, Zenon DEF Sends
  <2> QED
    BY <2>2, <2>3
<1> QED
  BY <1>17, <1>18

\* The five together.
LEMMA NetStep ==
  ASSUME Types, StripPlace, NetIdle \/ NetBeat
  PROVE  Still \/ Ahead \/ Accepts \/ Sends \/ Flushes
<1>1. CASE NetIdle
  BY <1>1, FlushTick, NetIdles DEF NetIdle
<1>2. CASE NetBeat
  <2>1. dgram # NoDatagram /\ NetTick(NextBeat)
    BY <1>2 DEF NetBeat
  <2> QED
    BY <2>1, FlushTick, SkipTick, HeaderTick, PayloadTick DEF Types, Skipping
<1> QED
  BY <1>1, <1>2

LEMMA OutIs ==
  ASSUME NEW d \in Datagrams, NEW o \in Nat, o + HeaderLength < d.len
  PROVE  Out(d, o) \in Beats
<1>1. PICK s : s = Size(d, o)
  OBVIOUS
<1>2. d.len \in Nat /\ d.seq \in Nat
  BY DatagramFacts DEF Dgram
<1>3. s \in Nat
  BY <1>1, <1>2 DEF Size, HeaderLength
<1>4. Run(d.seq, o, s) \in Seq(Bytes)
  BY <1>2, <1>3, RunIsSeq
<1>5. PICK l : l = (d.len <= o + 32)
  OBVIOUS
<1>6. l \in BOOLEAN
  BY <1>5
<1>7. Out(d, o) = [bytes |-> Run(d.seq, o, s), last |-> l]
  BY <1>1, <1>5, Zenon DEF Out
<1>8. [bytes |-> Run(d.seq, o, s), last |-> l] \in Beats
  BY <1>4, <1>6 DEF Beats
<1> QED
  BY <1>7, <1>8, Zenon

LEMMA StagedIs ==
  ASSUME Types, StripPlace, state = "FLUSH"
  PROVE  stage \in Seq(Bytes) /\ [bytes |-> stage, last |-> TRUE] \in Beats
<1>1. CASE stage = << >>
  BY <1>1, EmptySeq DEF Beats
<1>2. CASE stage # << >>
  <2>1. PICK d \in accepted : d.len \in 21 .. 24 /\ stage = Run(d.seq, 0, d.len - HeaderLength)
    BY <1>2 DEF StripPlace
  <2>2. d.seq \in Nat /\ d.len - HeaderLength \in Nat
    BY <2>1, DatagramFacts DEF Types, Dgram, HeaderLength
  <2>3. stage \in Seq(Bytes)
    BY <2>1, <2>2, RunIsSeq
  <2> QED
    BY <2>3 DEF Beats
<1> QED
  BY <1>1, <1>2

-----------------------------------------------------------------------------
(* What is accepted.                                                       *)

NetInv == Types /\ StripPlace /\ InOrderOnce

LEMMA NetKeeps ==
  ASSUME NetInv, NetIdle \/ NetBeat
  PROVE  NetInv'
<1> USE DEF NetInv
<1>1. Still \/ Ahead \/ Accepts \/ Sends \/ Flushes
  BY NetStep
<1>2. CASE Still
  BY <1>2 DEF Still, Types, StripPlace, InOrderOnce
<1>3. CASE Ahead
  <2>1. Types'
    BY <1>3 DEF Ahead, Types, Skipping
  <2>2. StripPlace'
    BY <1>3, NothingAssumption DEF Ahead, StripPlace, Skipping, Types
  <2>3. InOrderOnce'
    BY <1>3 DEF Ahead, InOrderOnce
  <2> QED
    BY <2>1, <2>2, <2>3
<1>4. CASE Accepts
  <2>1. /\ dgram \in Dgram /\ dgram # NoDatagram /\ dgram.len \in Nat /\ dgram.seq \in Nat
        /\ dgram.count = 1 \/ (dgram.count = 0 /\ dgram.len = HeaderLength)
    BY <1>4, DatagramFacts DEF Accepts, Dgram
  <2>2. Types'
    BY <1>4, <2>1 DEF Accepts, Types, Skipping
  <2>3. StripPlace'
    <3>1. CASE dgram.len > 24
      <4>1. dgram \in accepted' /\ expected_seq_num' = dgram.seq + 1
        BY <1>4, <2>1, <3>1 DEF Accepts, HeaderLength
      <4>2. PICK z : z = 24 - 24
        OBVIOUS
      <4>3. state' = "PAYLOAD" /\ stage_hi_valid' = TRUE /\ stage' = Run(dgram.seq, 0, 4) /\ dgram' = dgram /\ at' = 24
        BY <1>4, <3>1 DEF Accepts
      <4>4. stage' = Run(dgram'.seq, at' - 24, 4)
        <5>1. at' - 24 = 0
          BY <4>3
        <5> QED
          BY <4>3, <5>1, Zenon
      <4> QED
        BY <2>1, <3>1, <4>1, <4>3, <4>4 DEF StripPlace
    <3>2. CASE ~(dgram.len > 24)
      <4>1. state' = "FLUSH" /\ stage' = Run(dgram.seq, 0, dgram.len - HeaderLength) /\ dgram' = NoDatagram /\ at' = 0
        BY <1>4, <3>2 DEF Accepts
      <4>2. ASSUME stage' # << >>
            PROVE  dgram \in accepted' /\ dgram.seq + 1 = expected_seq_num' /\ dgram.len \in 21 .. 24
        <5>1. dgram.len # HeaderLength
          <6>1. dgram.len = HeaderLength => dgram.len - HeaderLength = 0
            BY DEF HeaderLength
          <6> QED
            BY <2>1, <4>1, <4>2, <6>1, RunNone
        <5> QED
          BY <1>4, <2>1, <3>2, <5>1 DEF Accepts, HeaderLength
      <4> QED
        BY <4>1, <4>2 DEF StripPlace
    <3> QED
      BY <3>1, <3>2
  <2>4. InOrderOnce'
    <3>1. CASE dgram.count = 1
      <4>1. accepted' = accepted \cup {dgram} /\ expected_seq_num' = expected_seq_num + 1 /\ dgram.seq = expected_seq_num
            /\ dgram.len >= HeaderLength
        BY <1>4, <3>1 DEF Accepts
      <4>2. expected_seq_num \in Nat /\ \A d \in accepted : d.seq \in Nat
        BY DatagramFacts DEF Types, Dgram
      <4>3. \A d \in accepted' : d.count = 1 /\ d.seq < expected_seq_num' /\ d.len >= HeaderLength
        BY <3>1, <4>1, <4>2 DEF InOrderOnce
      <4>4. \A n \in 1 .. expected_seq_num' - 1 : \E d \in accepted' : d.seq = n
        BY <4>1, <4>2 DEF InOrderOnce
      <4>5. \A d, e \in accepted' : d.seq = e.seq => d = e
        BY <4>1, <4>2 DEF InOrderOnce
      <4> QED
        BY <4>3, <4>4, <4>5 DEF InOrderOnce
    <3>2. CASE dgram.count = 0
      <4>1. accepted' = accepted /\ expected_seq_num' = expected_seq_num
        BY <1>4, <3>2 DEF Accepts, Types
      <4> QED
        BY <4>1 DEF InOrderOnce
    <3> QED
      BY <2>1, <3>1, <3>2
  <2> QED
    BY <2>2, <2>3, <2>4
<1>5. CASE Sends
  <2>1. /\ dgram \in Datagrams /\ dgram # NoDatagram /\ dgram.len \in Nat /\ dgram.seq \in Nat
        /\ at \in Nat /\ at < dgram.len /\ at >= 24 /\ at % 8 = 0
    BY <1>5, DatagramFacts DEF Sends, Types, StripPlace, Dgram
  <2>2. Out(dgram, at - 24) \in Beats
    <3>1. at - 24 \in Nat /\ (at - 24) + HeaderLength < dgram.len
      BY <2>1 DEF HeaderLength
    <3> QED
      BY <2>1, <3>1, OutIs
  <2>3. fifo' \in Seq(Beats)
    BY <1>5, <2>2, AppendProperties DEF Sends, Types
  <2>4. Types'
    BY <1>5, <2>1, <2>3 DEF Sends, Types, Skipping
  <2>5. StripPlace'
    <3>1. CASE dgram.len <= at + 8
      BY <1>5, <3>1 DEF Sends, StripPlace
    <3>2. CASE ~(dgram.len <= at + 8)
      <4>1. /\ state' = "PAYLOAD" /\ stage_hi_valid' = TRUE /\ stage' = Run(dgram.seq, at - 16, 4)
            /\ dgram' = dgram /\ at' = at + 8 /\ accepted' = accepted /\ expected_seq_num' = expected_seq_num
        BY <1>5, <3>2 DEF Sends
      <4>2. stage' = Run(dgram'.seq, at' - 24, 4)
        <5>1. at' - 24 = at - 16
          BY <2>1, <4>1
        <5> QED
          BY <4>1, <5>1, Zenon
      <4>3. at' < dgram.len /\ at' >= 24 /\ at' % 8 = 0
        BY <2>1, <3>2, <4>1
      <4>4. dgram \in accepted /\ dgram.seq + 1 = expected_seq_num
        BY <1>5 DEF Sends, StripPlace
      <4> QED
        BY <2>1, <4>1, <4>2, <4>3, <4>4 DEF StripPlace
    <3> QED
      BY <3>1, <3>2
  <2>6. InOrderOnce'
    BY <1>5 DEF Sends, InOrderOnce
  <2> QED
    BY <2>4, <2>5, <2>6
<1>6. CASE Flushes
  <2>1. fifo' \in Seq(Beats)
    BY <1>6, StagedIs, AppendProperties DEF Flushes, Types
  <2>2. Types'
    BY <1>6, <2>1 DEF Flushes, Types, Skipping
  <2>3. StripPlace'
    BY <1>6 DEF Flushes, StripPlace
  <2>4. InOrderOnce'
    BY <1>6 DEF Flushes, InOrderOnce
  <2> QED
    BY <2>2, <2>3, <2>4
<1> QED
  BY <1>1, <1>2, <1>3, <1>4, <1>5, <1>6

LEMMA NetInductive ==
  /\ Init => NetInv
  /\ NetInv /\ [Next]_vars => NetInv'
<1> USE DEF NetInv
<1>1. ASSUME Init PROVE NetInv
  <2>1. /\ state = "B0" /\ stage = << >> /\ expected_seq_num = 1 /\ fifo = << >> /\ dgram = NoDatagram
        /\ at = 0 /\ accepted = {}
    BY <1>1 DEF Init, Strip!Init
  <2>2. fifo \in Seq(Beats)
    BY <2>1
  <2> QED
    BY <2>1, <2>2 DEF Types, StripPlace, InOrderOnce, Skipping
<1>2. ASSUME NetInv, [Next]_vars PROVE NetInv'
  <2>1. ASSUME NEW d \in Datagrams, Arrive(d) PROVE NetInv'
    <3>1. /\ UNCHANGED <<state, stage, stage_hi_valid, expected_seq_num, fifo, accepted>>
          /\ dgram = NoDatagram /\ dgram' = d /\ at' = 0 /\ d # NoDatagram /\ d.len > 0
      BY <2>1, DatagramFacts DEF Arrive, stripVars
    <3>2. state \notin {"B1", "B2", "PAYLOAD", "DROP"} /\ at = 0
      BY <1>2, <3>1 DEF StripPlace
    <3>3. Types'
      BY <1>2, <3>1 DEF Types
    <3>4. StripPlace'
      BY <1>2, <3>1, <3>2 DEF StripPlace
    <3>5. InOrderOnce'
      BY <1>2, <3>1 DEF InOrderOnce
    <3> QED
      BY <3>3, <3>4, <3>5
  <2>2. CASE NetIdle \/ NetBeat
    BY <1>2, <2>2, NetKeeps
  <2>3. ASSUME NEW hold \in BOOLEAN, AppIdle(hold) \/ AppBeat(hold) PROVE NetInv'
    <3>1. UNCHANGED <<state, stage, stage_hi_valid, expected_seq_num, dgram, at, accepted>>
      BY <2>3 DEF AppIdle, AppBeat, AppTick, stripVars, netVars
    <3>2. fifo' = fifo \/ (fifo # << >> /\ fifo' = Tail(fifo))
      BY <2>3 DEF AppIdle, AppBeat, AppTick
    <3>3. fifo' \in Seq(Beats)
      BY <1>2, <3>2, HeadTailProperties DEF Types
    <3> QED
      BY <1>2, <3>1, <3>3 DEF Types, StripPlace, InOrderOnce
  <2>4. CASE Reset
    <3>1. /\ state' = "B0" /\ stage' = << >> /\ expected_seq_num' = 1 /\ fifo' = << >> /\ dgram' = NoDatagram
          /\ at' = 0 /\ accepted' = {}
      BY <2>4 DEF Reset, Strip!Reset
    <3>2. fifo' \in Seq(Beats)
      BY <3>1
    <3> QED
      BY <3>1, <3>2 DEF Types, StripPlace, InOrderOnce, Skipping
  <2>5. CASE UNCHANGED vars
    BY <1>2, <2>5 DEF vars, stripVars, parserVars, netVars, Types, StripPlace, InOrderOnce
  <2> QED
    BY <1>2, <2>1, <2>2, <2>3, <2>4, <2>5 DEF Next
<1> QED
  BY <1>1, <1>2

LEMMA NetInvAlways == Spec => []NetInv
BY NetInductive, PTL DEF Spec

\* The numbers of the datagrams accepted are those up to the one expected: the
\* stripper accepts none behind a gap and none twice, whatever the network does,
\* and a heartbeat leaves the number as it is.
THEOREM ContiguousAlways == Spec => []Contiguous
<1>1. ASSUME NetInv PROVE Contiguous
  <2>1. expected_seq_num \in Nat /\ \A d \in accepted : d.seq \in Nat /\ d.seq > 0
    BY <1>1, DatagramFacts, MessageFacts DEF NetInv, Types, Dgram, InOrderOnce
  <2>2. \A d \in accepted : d.seq \in 1 .. expected_seq_num - 1
    BY <1>1, <2>1 DEF NetInv, InOrderOnce
  <2>3. \A n \in 1 .. expected_seq_num - 1 : \E d \in accepted : d.seq = n
    BY <1>1 DEF NetInv, InOrderOnce
  <2> QED
    BY <2>2, <2>3 DEF Contiguous
<1> QED
  BY <1>1, NetInvAlways, PTL

-----------------------------------------------------------------------------
(* Beats on their way to the parser.                                       *)

Number(b) == b.bytes[1][1]
Offset(b) == b.bytes[1][2]

LEMMA OutFacts ==
  ASSUME NEW d \in Datagrams, NEW o \in Nat, Sendable(d, o)
  PROVE  /\ Out(d, o) \in Beats /\ Out(d, o) # Empty /\ Out(d, o).bytes[1] = Byte(d.seq, o)
         /\ Number(Out(d, o)) = d.seq /\ Offset(Out(d, o)) = o
         /\ Out(d, o).last <=> d.len <= o + 32
<1>1. PICK s : s = Size(d, o)
  OBVIOUS
<1>2. d.len \in Nat /\ d.seq \in Nat
  BY DatagramFacts DEF Dgram
<1>3. s \in Nat /\ s > 0 /\ o + HeaderLength < d.len
  BY <1>1, <1>2 DEF Size, HeaderLength, Sendable
<1>4. Run(d.seq, o, s) # << >> /\ Run(d.seq, o, s)[1] = Byte(d.seq, o)
  BY <1>2, <1>3, RunSome
<1>5. PICK l : l = (d.len <= o + 32)
  OBVIOUS
<1>6. Out(d, o) = [bytes |-> Run(d.seq, o, s), last |-> l]
  BY <1>1, <1>5, Zenon DEF Out
<1>7. Out(d, o).bytes = Run(d.seq, o, s) /\ Out(d, o).last = l
  BY <1>6
<1>8. Out(d, o) # Empty
  BY <1>4, <1>7 DEF Empty
<1>9. Number(Out(d, o)) = d.seq /\ Offset(Out(d, o)) = o
  BY <1>2, <1>4, <1>7, ByteIs DEF Number, Offset
<1>10. Out(d, o) \in Beats
  BY <1>3, OutIs
<1> QED
  BY <1>4, <1>5, <1>7, <1>8, <1>9, <1>10

\* The beat as the parser takes it: the bytes datagram d brings, from byte o on.
Takes8(p, d, o) == \A k \in 1 .. 8, j \in Nat : j + 1 = o + k => p.bytes[k] = Received(d, j)

LEMMA PaddedIs ==
  ASSUME NEW d \in Datagrams, NEW o \in Nat, Sendable(d, o)
  PROVE  Takes8(Padded(Out(d, o)), d, o) /\ Padded(Out(d, o)).last = Out(d, o).last
<1>1. PICK s : s = Size(d, o)
  OBVIOUS
<1>2. d.len \in Nat /\ d.seq \in Nat
  BY DatagramFacts DEF Dgram
<1>3. s \in Nat /\ s <= 8 /\ o + HeaderLength < d.len
  BY <1>1, <1>2 DEF Size, HeaderLength, Sendable
<1>4. PICK u : u = Run(d.seq, o, s)
  OBVIOUS
<1>5. PICK m : m = Out(d, o)
  OBVIOUS
<1>6. m.bytes = u
  BY <1>1, <1>4, <1>5 DEF Out
<1>7. Len(u) = s /\ \A k \in 1 .. s, j \in Nat : j + 1 = o + k => u[k] = Byte(d.seq, j)
  <2>1. IsRun(u, d.seq, o, s)
    BY <1>2, <1>3, <1>4, RunIs
  <2> QED
    BY <2>1 DEF IsRun
<1>8. Padded(m).last = m.last /\ \A k \in 1 .. 8 : Padded(m).bytes[k] = IF k <= s THEN u[k] ELSE Zero
  BY <1>6, <1>7 DEF Padded
<1>9. ASSUME NEW k \in 1 .. 8, NEW j \in Nat, j + 1 = o + k PROVE Padded(m).bytes[k] = Received(d, j)
  <2>1. Received(d, j) = IF HeaderLength + j < d.len THEN Byte(d.seq, j) ELSE Zero
    BY ReceivedIs
  <2>2. k <= s <=> HeaderLength + j < d.len
    BY <1>1, <1>2, <1>9 DEF Size, HeaderLength
  <2>3. CASE k <= s
    <3>1. u[k] = Byte(d.seq, j)
      BY <1>7, <1>9, <2>3
    <3> QED
      BY <1>8, <2>1, <2>2, <2>3, <3>1, Zenon
  <2>4. CASE ~(k <= s)
    BY <1>8, <2>1, <2>2, <2>4, Zenon
  <2> QED
    BY <2>3, <2>4
<1> QED
  BY <1>5, <1>8, <1>9, Zenon DEF Takes8

LEMMA PaddedEmpty ==
  (\A k \in 1 .. 8 : Padded(Empty).bytes[k] = Zero) /\ Padded(Empty).last = TRUE
BY DEF Padded, Empty

\* The last beat of a message.
LastOffset(n) == 8 * (BeatsOf(Stream[n]) - 1)
IsLast(b, d) == b = Out(d, LastOffset(d.seq))

LEMMA BeatsOfIs ==
  ASSUME NEW n \in Numbers
  PROVE  /\ BeatsOf(Stream[n]) \in Nat
         /\ 8 * BeatsOf(Stream[n]) <= BodyLength[Stream[n]] + 9
         /\ BodyLength[Stream[n]] + 2 <= 8 * BeatsOf(Stream[n])
         /\ LastOffset(n) + 8 = 8 * BeatsOf(Stream[n])
         /\ LastBeatAt(n) = LastOffset(n) + 20
BY MessageFacts DEF BeatsOf, LastOffset, LastBeatAt, HeaderLength

LEMMA SupportedIs ==
  ASSUME NEW k \in Supported
  PROVE  /\ k # NoKind /\ 11 \in FieldBytes[k]
         /\ \A i \in FieldBytes[k] : i \in Nat /\ i < 8 * BeatsOf(k) - 2
         /\ 3 <= BeatsOf(k)
<1>1. /\ NoKind \notin Supported /\ k \in DOMAIN BodyLength
      /\ 11 .. 18 \subseteq FieldBytes[k] /\ FieldBytes[k] \subseteq 0 .. 8 * BeatsOf(k) - 3
  BY KindAssumption
<1>2. BodyLength[k] \in Nat
  <2>1. BodyLength[k] \in 0 .. MaxBody
    BY <1>1, StreamAssumption, Zenon
  <2> QED
    BY <2>1 DEF MaxBody
<1>3. BeatsOf(k) \in Nat
  BY <1>2 DEF BeatsOf
<1>4. 11 \in FieldBytes[k] /\ 18 \in FieldBytes[k]
  BY <1>1
<1>5. 18 \in 0 .. 8 * BeatsOf(k) - 3
  BY <1>1, <1>4
<1>6. 3 <= BeatsOf(k)
  BY <1>3, <1>5
<1>7. \A i \in FieldBytes[k] : i \in 0 .. 8 * BeatsOf(k) - 3
  BY <1>1
<1> QED
  BY <1>1, <1>3, <1>4, <1>6, <1>7

LEMMA ArrivesIs ==
  ASSUME NEW d \in Datagrams, d.count = 1, Arrives(d)
  PROVE  /\ Stream[d.seq] \in Supported /\ LastOffset(d.seq) \in Nat
         /\ LastOffset(d.seq) >= 16 /\ LastOffset(d.seq) % 8 = 0
         /\ LastOffset(d.seq) + 24 < d.len /\ d.len <= LastOffset(d.seq) + 28
         /\ Sendable(d, LastOffset(d.seq))
<1>1. d.seq \in Numbers /\ d.len \in Nat /\ d.len <= 20 + FrameLength(d.seq)
  BY DatagramFacts DEF HeaderLength, Dgram
<1>2. FrameLength(d.seq) = 2 + BodyLength[Stream[d.seq]] /\ BodyLength[Stream[d.seq]] \in Nat
  BY <1>1, MessageFacts
<1>3. Stream[d.seq] \in Supported /\ d.len > LastBeatAt(d.seq) /\ d.len % 8 \in 1 .. 4
  BY DEF Arrives
<1>4. 3 <= BeatsOf(Stream[d.seq])
  BY <1>3, SupportedIs
<1>5. PICK e : e = BeatsOf(Stream[d.seq])
  OBVIOUS
<1>6. e \in Nat /\ 3 <= e
  BY <1>1, <1>4, <1>5, BeatsOfIs
<1>7. PICK x : x = LastOffset(d.seq)
  OBVIOUS
<1>8. x = 8 * (e - 1)
  BY <1>5, <1>7 DEF LastOffset
<1>9. x \in Nat /\ x % 8 = 0 /\ x >= 16
  BY <1>6, <1>8
<1>10. d.len > x + 20 /\ d.len <= x + 28
  BY <1>1, <1>2, <1>3, <1>7, <1>9, BeatsOfIs
<1>11. x + 24 < d.len
  BY <1>1, <1>3, <1>9, <1>10
<1> QED
  BY <1>3, <1>7, <1>9, <1>10, <1>11 DEF Sendable

\* Two beats are the same only when their datagrams have the same number.
LEMMA SameBeat ==
  ASSUME NEW d \in Datagrams, NEW o \in Nat, Sendable(d, o),
         NEW e \in Datagrams, e.count = 1, Arrives(e), IsLast(Out(d, o), e)
  PROVE  d.seq = e.seq /\ o = LastOffset(d.seq)
<1>1. Sendable(e, LastOffset(e.seq)) /\ LastOffset(e.seq) \in Nat
  BY ArrivesIs
<1>2. PICK x \in Nat : x = LastOffset(e.seq)
  BY <1>1
<1>3. Sendable(e, x) /\ Out(d, o) = Out(e, x)
  BY <1>1, <1>2 DEF IsLast
<1>4. Number(Out(e, x)) = e.seq /\ Offset(Out(e, x)) = x
  BY <1>3, OutFacts
<1>5. Number(Out(d, o)) = d.seq /\ Offset(Out(d, o)) = o
  BY OutFacts
<1> QED
  BY <1>2, <1>3, <1>4, <1>5, Zenon

-----------------------------------------------------------------------------
(* What the parser has taken.                                              *)

ParserTypes ==
  /\ parser_state \in {"IDLE", "ACCUMULATE", "EMIT"}
  /\ DOMAIN msg_buf = 0 .. 63
  /\ byte_cnt \in Nat
  /\ fields_valid \in BOOLEAN

\* Every beat in the FIFO is one of an accepted datagram, or a heartbeat's.
BeatOk(b) == b = Empty \/ \E d \in accepted, o \in Nat : Sendable(d, o) /\ b = Out(d, o)
AllOk == \A i \in 1 .. Len(fifo) : BeatOk(fifo[i])

\* The first n bytes of the body are those datagram d brought.
Holds(buf, d, n) == \A i \in 0 .. 63, j \in Nat : i < n /\ j = i + 2 => buf[i] = Received(d, j)

Gathering(d) ==
  /\ byte_cnt >= 6 /\ (byte_cnt + 2) % 8 = 0 /\ byte_cnt < msg_len /\ byte_cnt + 26 < d.len
  /\ msg_len = BodyLength[Stream[d.seq]]
  /\ msg_buf[0] = Byte(d.seq, 2)
  /\ Holds(msg_buf, d, byte_cnt)
Emitting(d) ==
  /\ Arrives(d)
  /\ msg_buf[0] = Byte(d.seq, 2)
  /\ Holds(msg_buf, d, 8 * BeatsOf(Stream[d.seq]) - 2)

ParserHolds ==
  /\ parser_state = "ACCUMULATE" => \E d \in accepted : Gathering(d)
  /\ parser_state = "EMIT" /\ KindOf(msg_buf[0]) \in Supported => \E d \in accepted : Emitting(d)

\* The beats continue one another; Zero is where a datagram begins.
After(b) == IF b.last THEN Zero ELSE Byte(Number(b), Offset(b) + 8)
Fits(w, b) == IF w = Zero THEN b = Empty \/ Offset(b) = 0 ELSE b # Empty /\ b.bytes[1] = w
ParserWants == IF parser_state = "ACCUMULATE" THEN Byte(msg_buf[0][1], byte_cnt + 2) ELSE Zero
FitsFirst == fifo # << >> => Fits(ParserWants, fifo[1])

-----------------------------------------------------------------------------
(* A tick of clk_300 does one of five things.                              *)

Waits ==
  /\ parser_state # "EMIT" /\ fields_valid' = FALSE
  /\ UNCHANGED <<parser_state, msg_buf, byte_cnt, msg_len, fields, fifo, emitted>>

Emits ==
  /\ parser_state = "EMIT" /\ parser_state' = "IDLE"
  /\ UNCHANGED <<msg_buf, byte_cnt, msg_len, fifo>>
  /\ \/ /\ KindOf(msg_buf[0]) \notin Supported
        /\ fields' = Parser!BlankFields /\ fields_valid' = FALSE /\ emitted' = emitted
     \/ \E d \in accepted :
          /\ Emitting(d)
          /\ fields'.kind = Stream[d.seq]
          /\ fields'.bytes = [i \in FieldBytes[Stream[d.seq]] |-> Received(d, i + 2)]
          /\ fields'.bytes[11][1] = d.seq
          /\ fields_valid' = TRUE /\ emitted' = Append(emitted, d.seq)

Pops ==
  /\ parser_state # "EMIT" /\ fields_valid' = FALSE
  /\ fifo # << >> /\ fifo' = Tail(fifo)
  /\ UNCHANGED <<fields, emitted>>

\* The end of a message that does not come out.
Loses ==
  /\ Pops /\ Head(fifo).last
  /\ parser_state' = "IDLE" \/ (parser_state' = "EMIT" /\ KindOf(msg_buf'[0]) \notin Supported)
  /\ \A d \in accepted : Arrives(d) => ~IsLast(Head(fifo), d)

\* A beat that is not the last.
Grows ==
  /\ Pops /\ ~Head(fifo).last
  /\ parser_state' = "ACCUMULATE"
  /\ \E d \in accepted, o \in Nat :
       /\ Sendable(d, o) /\ Head(fifo) = Out(d, o)
       /\ (Gathering(d))'
       /\ o = IF parser_state = "IDLE" THEN 0 ELSE byte_cnt + 2
       /\ byte_cnt' = o + 6

\* The last beat of a message that comes out.
Completes ==
  /\ Pops /\ Head(fifo).last
  /\ parser_state = "ACCUMULATE" /\ parser_state' = "EMIT"
  /\ \E d \in accepted :
       /\ IsLast(Head(fifo), d)
       /\ msg_buf[0] = Byte(d.seq, 2)
       /\ (Emitting(d))'
       /\ byte_cnt + 2 = LastOffset(d.seq)

LEMMA AcceptedIs ==
  ASSUME NetInv, NEW d \in accepted
  PROVE  d \in Datagrams /\ d.count = 1 /\ d.seq \in Numbers /\ d.seq \in Nat /\ d.len \in Nat
         /\ d.len <= 22 + BodyLength[Stream[d.seq]]
<1>1. d \in Datagrams /\ d.count = 1
  BY DEF NetInv, Types, InOrderOnce
<1>2. d.seq \in Numbers /\ d.seq \in Nat /\ d.len \in Nat /\ d.len <= 20 + FrameLength(d.seq)
  BY <1>1, DatagramFacts DEF Dgram, HeaderLength
<1> QED
  BY <1>1, <1>2, MessageFacts

LEMMA HeadOk ==
  ASSUME NetInv, AllOk, FitsFirst, fifo # << >>
  PROVE  BeatOk(Head(fifo)) /\ Fits(ParserWants, Head(fifo)) /\ Head(fifo) = fifo[1]
<1>1. Head(fifo) = fifo[1] /\ 1 \in 1 .. Len(fifo)
  BY EmptySeq, LenProperties DEF NetInv, Types
<1> QED
  BY <1>1, Zenon DEF AllOk, FitsFirst

\* No heartbeat's beat, and no first beat, is the last of a message that arrives.
LEMMA EmptyIsNotLast ==
  ASSUME NEW e \in Datagrams, e.count = 1, Arrives(e)
  PROVE  ~IsLast(Empty, e)
<1>1. Sendable(e, LastOffset(e.seq)) /\ LastOffset(e.seq) \in Nat
  BY ArrivesIs
<1>2. PICK x \in Nat : x = LastOffset(e.seq)
  BY <1>1
<1>3. Out(e, x) # Empty
  BY <1>1, <1>2, OutFacts, Zenon
<1> QED
  BY <1>2, <1>3, Zenon DEF IsLast

LEMMA FirstIsNotLast ==
  ASSUME NEW d \in Datagrams, NEW o \in Nat, o = 0, Sendable(d, o),
         NEW e \in Datagrams, e.count = 1, Arrives(e)
  PROVE  ~IsLast(Out(d, o), e)
<1>1. ASSUME IsLast(Out(d, o), e) PROVE FALSE
  <2>1. d.seq = e.seq /\ o = LastOffset(d.seq)
    BY <1>1, SameBeat
  <2>2. LastOffset(e.seq) >= 16
    BY ArrivesIs
  <2> QED
    BY <2>1, <2>2
<1> QED
  BY <1>1

\* The first beat of a datagram.
LEMMA FirstTick ==
  ASSUME NetInv, AllOk, FitsFirst, ParserTypes, parser_state = "IDLE", Pops,
         Parser!IdleBeat(Padded(Head(fifo)))
  PROVE  Loses \/ Grows
<1>1. PICK m : m = Head(fifo)
  OBVIOUS
<1>2. PICK p : p = Padded(m)
  OBVIOUS
<1>3. m = Empty \/ \E d \in accepted, o \in Nat : Sendable(d, o) /\ m = Out(d, o) /\ Offset(m) = 0
  <2>1. BeatOk(m) /\ Fits(Zero, m)
    BY <1>1, HeadOk DEF Pops, ParserWants
  <2> QED
    BY <2>1 DEF BeatOk, Fits
<1>4. /\ msg_len' = LengthOf(p.bytes[1], p.bytes[2])
      /\ msg_buf' = [i \in DOMAIN msg_buf |-> IF i < 6 THEN p.bytes[i + 3] ELSE msg_buf[i]]
      /\ byte_cnt' = 6
      /\ parser_state' = IF msg_len' <= 6 THEN "EMIT" ELSE IF p.last THEN "IDLE" ELSE "ACCUMULATE"
  BY <1>1, <1>2 DEF Parser!IdleBeat, Parser!InFirstBeat
<1>5. 0 \in DOMAIN msg_buf
  BY DEF ParserTypes
<1>6. msg_buf'[0] = p.bytes[3]
  BY <1>4, <1>5
<1>7. \A e \in accepted : e \in Datagrams /\ e.count = 1
  BY AcceptedIs
<1>8. CASE m = Empty
  <2>1. p.bytes[1] = Zero /\ p.bytes[3] = Zero /\ m.last
    BY <1>2, <1>8, PaddedEmpty DEF Empty
  <2>2. msg_len' = 0 /\ KindOf(msg_buf'[0]) \notin Supported
    BY <1>4, <1>6, <2>1, ZeroIs, KindAssumption
  <2>3. parser_state' = "EMIT"
    BY <1>4, <2>2
  <2>4. \A e \in accepted : Arrives(e) => ~IsLast(m, e)
    BY <1>7, <1>8, EmptyIsNotLast
  <2> QED
    BY <1>1, <2>1, <2>2, <2>3, <2>4 DEF Loses
<1>9. CASE \E d \in accepted, o \in Nat : Sendable(d, o) /\ m = Out(d, o) /\ Offset(m) = 0
  <2>1. PICK d \in accepted, o \in Nat : Sendable(d, o) /\ m = Out(d, o) /\ Offset(m) = 0
    BY <1>9
  <2>2. d \in Datagrams /\ d.seq \in Numbers /\ d.seq \in Nat /\ d.len \in Nat /\ d.len <= 22 + BodyLength[Stream[d.seq]]
    BY AcceptedIs
  <2>3. o = 0
    BY <2>1, <2>2, OutFacts
  <2>4. m.last <=> d.len <= 32
    BY <2>1, <2>2, <2>3, OutFacts
  <2>5. Takes8(p, d, o) /\ p.last = m.last
    BY <1>2, <2>1, <2>2, PaddedIs
  <2>6. p.bytes[1] = Received(d, 0) /\ p.bytes[2] = Received(d, 1) /\ p.bytes[3] = Received(d, 2)
    BY <2>3, <2>5 DEF Takes8
  <2>7. \A e \in accepted : Arrives(e) => ~IsLast(m, e)
    BY <1>7, <2>1, <2>2, <2>3, FirstIsNotLast
  <2>8. PICK n \in Numbers : n = d.seq
    BY <2>2
  <2>9. n \in Nat /\ BodyLength[Stream[n]] \in Nat /\ d.len <= 22 + BodyLength[Stream[n]]
    BY <2>2, <2>8, MessageFacts
  <2>10. CASE d.len <= 22
    <3>1. p.bytes[3] = Zero
      BY <2>2, <2>6, <2>10, ReceivedIs DEF HeaderLength
    <3>2. KindOf(msg_buf'[0]) \notin Supported
      BY <1>6, <3>1, ZeroIs, KindAssumption
    <3>3. m.last
      BY <2>2, <2>4, <2>10
    <3>4. parser_state' = "EMIT" \/ parser_state' = "IDLE"
      BY <1>4, <2>5, <3>3
    <3> QED
      BY <1>1, <2>7, <3>2, <3>3, <3>4 DEF Loses
  <2>11. CASE ~(d.len <= 22)
    <3>1. \A j \in {0, 1, 2} : Received(d, j) = Byte(n, j)
      BY <2>2, <2>8, <2>11, ReceivedIs DEF HeaderLength
    <3>2. msg_len' = BodyLength[Stream[n]] /\ KindOf(msg_buf'[0]) = Stream[n] /\ msg_buf'[0] = Byte(n, 2)
      <4>1. p.bytes[1] = Byte(n, 0) /\ p.bytes[2] = Byte(n, 1) /\ p.bytes[3] = Byte(n, 2)
        BY <2>6, <3>1
      <4>2. LengthOf(Byte(n, 0), Byte(n, 1)) = BodyLength[Stream[n]] /\ KindOf(Byte(n, 2)) = Stream[n]
        BY ByteOfMessage
      <4> QED
        BY <1>4, <1>6, <4>1, <4>2, Zenon
    <3>3. CASE msg_len' <= 6
      <4>1. KindOf(msg_buf'[0]) \notin Supported
        <5>1. ASSUME Stream[n] \in Supported PROVE FALSE
          <6>1. 3 <= BeatsOf(Stream[n])
            BY <5>1, SupportedIs
          <6>2. 8 * BeatsOf(Stream[n]) <= BodyLength[Stream[n]] + 9 /\ BeatsOf(Stream[n]) \in Nat
            BY BeatsOfIs
          <6> QED
            BY <2>9, <3>2, <3>3, <6>1, <6>2
        <5> QED
          BY <3>2, <5>1
      <4>2. m.last
        BY <2>2, <2>4, <2>9, <3>2, <3>3
      <4>3. parser_state' = "EMIT"
        BY <1>4, <3>3
      <4> QED
        BY <1>1, <2>7, <4>1, <4>2, <4>3 DEF Loses
    <3>4. CASE ~(msg_len' <= 6) /\ m.last
      <4>1. parser_state' = "IDLE"
        BY <1>4, <2>5, <3>4
      <4> QED
        BY <1>1, <2>7, <3>4, <4>1 DEF Loses
    <3>5. CASE ~(msg_len' <= 6) /\ ~m.last
      <4>1. parser_state' = "ACCUMULATE"
        BY <1>4, <2>5, <3>5
      <4>2. d.len > 32
        BY <2>2, <2>4, <3>5
      <4>3. ASSUME NEW i \in 0 .. 63, NEW j \in Nat, i < 6, j = i + 2 PROVE msg_buf'[i] = Received(d, j)
        <5>1. PICK k \in 1 .. 8 : k = i + 3
          BY <4>3
        <5>2. msg_buf'[i] = p.bytes[k]
          BY <1>4, <4>3, <5>1 DEF ParserTypes
        <5>3. j + 1 = o + k
          BY <2>3, <4>3, <5>1
        <5> QED
          BY <2>5, <5>2, <5>3, Zenon DEF Takes8
      <4>4. Holds(msg_buf', d, byte_cnt')
        BY <1>4, <4>3 DEF Holds
      <4>5. (Gathering(d))'
        BY <1>4, <2>8, <2>9, <3>2, <3>5, <4>2, <4>4 DEF Gathering
      <4>6. o = (IF parser_state = "IDLE" THEN 0 ELSE byte_cnt + 2) /\ byte_cnt' = o + 6
        BY <1>4, <2>3
      <4> QED
        BY <1>1, <2>1, <3>5, <4>1, <4>5, <4>6, Zenon DEF Grows
    <3> QED
      BY <3>3, <3>4, <3>5
  <2> QED
    BY <2>10, <2>11
<1> QED
  BY <1>3, <1>8, <1>9

\* The beat at the head of the FIFO is the one the message being gathered needs.
LEMMA WantedBeat ==
  ASSUME NetInv, AllOk, FitsFirst, ParserTypes, parser_state = "ACCUMULATE", fifo # << >>,
         NEW d \in accepted, Gathering(d)
  PROVE  \E o \in Nat : o = byte_cnt + 2 /\ Sendable(d, o) /\ Head(fifo) = Out(d, o)
<1>1. PICK m : m = Head(fifo)
  OBVIOUS
<1>2. PICK o \in Nat : o = byte_cnt + 2
  <2>1. byte_cnt + 2 \in Nat
    BY DEF ParserTypes
  <2> QED
    BY <2>1, Zenon
<1>3. d.seq \in Numbers /\ d.seq \in Nat
  BY AcceptedIs
<1>4. ParserWants = Byte(d.seq, o) /\ Byte(d.seq, o) # Zero
  <2>1. msg_buf[0][1] = d.seq
    BY <1>3, ByteIs DEF Gathering
  <2>2. ParserWants = Byte(d.seq, o)
    BY <1>2, <2>1, Zenon DEF ParserWants
  <2> QED
    BY <1>3, <2>2, ByteOfMessage
<1>5. BeatOk(m) /\ m # Empty /\ m.bytes[1] = Byte(d.seq, o)
  <2>1. BeatOk(m) /\ Fits(ParserWants, m)
    BY <1>1, HeadOk
  <2> QED
    BY <1>4, <2>1 DEF Fits
<1>6. PICK e \in accepted, q \in Nat : Sendable(e, q) /\ m = Out(e, q)
  BY <1>5 DEF BeatOk
<1>7. e \in Datagrams /\ e.seq \in Nat
  BY AcceptedIs
<1>8. m.bytes[1] = Byte(e.seq, q)
  BY <1>6, <1>7, OutFacts
<1>9. e.seq = d.seq /\ q = o
  BY <1>3, <1>5, <1>7, <1>8 DEF Byte
<1>10. e = d
  BY <1>9 DEF NetInv, InOrderOnce
<1> QED
  BY <1>1, <1>2, <1>6, <1>9, <1>10, Zenon

LEMMA SlotIs ==
  ASSUME NEW c \in 0 .. 55, byte_cnt = c, NEW i \in 0 .. 63
  PROVE  /\ i < c => ~(Parser!Slot(i) < 8)
         /\ i >= c /\ i < c + 8 => Parser!Slot(i) < 8 /\ Parser!Slot(i) + 1 \in 1 .. 8 /\ Parser!Slot(i) = i - c
BY DEF Parser!Slot, Parser!BufSize

\* One more beat of the message being gathered.
LEMMA MoreTick ==
  ASSUME NetInv, AllOk, FitsFirst, ParserTypes, ParserHolds, parser_state = "ACCUMULATE", Pops,
         Parser!AccumulateBeat(Padded(Head(fifo)))
  PROVE  Loses \/ Grows \/ Completes
<1>1. PICK m : m = Head(fifo)
  OBVIOUS
<1>2. PICK p : p = Padded(m)
  OBVIOUS
<1>3. PICK d \in accepted : Gathering(d)
  BY DEF ParserHolds
<1>4. PICK o \in Nat : o = byte_cnt + 2 /\ Sendable(d, o) /\ m = Out(d, o)
  BY <1>1, <1>3, WantedBeat DEF Pops
<1>5. /\ d \in Datagrams /\ d.seq \in Numbers /\ d.seq \in Nat /\ d.len \in Nat
      /\ d.len <= 22 + BodyLength[Stream[d.seq]]
  BY AcceptedIs
<1>6. PICK n \in Numbers : n = d.seq
  BY <1>5
<1>7. PICK c : c = byte_cnt
  OBVIOUS
<1>8. /\ c \in Nat /\ c >= 6 /\ (c + 2) % 8 = 0 /\ c < msg_len /\ c + 26 < d.len
      /\ msg_len = BodyLength[Stream[n]] /\ BodyLength[Stream[n]] \in Nat /\ BodyLength[Stream[n]] <= 54
      /\ msg_buf[0] = Byte(n, 2)
  BY <1>3, <1>6, <1>7, MessageFacts DEF Gathering, ParserTypes
<1>9. /\ msg_buf' = [i \in DOMAIN msg_buf |->
                      IF Parser!Slot(i) < 8 THEN p.bytes[Parser!Slot(i) + 1] ELSE msg_buf[i]]
      /\ byte_cnt' = (c + 8) % 64
      /\ parser_state' = IF c + 8 >= msg_len THEN "EMIT" ELSE IF p.last THEN "IDLE" ELSE "ACCUMULATE"
      /\ msg_len' = msg_len
  BY <1>1, <1>2, <1>7 DEF Parser!AccumulateBeat, Parser!Complete, Parser!BufSize, Parser!AfterLast
<1>10. byte_cnt' = c + 8 /\ c \in 0 .. 55
  BY <1>8, <1>9
<1>11. Takes8(p, d, o) /\ p.last = m.last /\ (m.last <=> d.len <= o + 32)
  BY <1>2, <1>4, <1>5, PaddedIs, OutFacts
<1>12. ASSUME NEW i \in 0 .. 63, NEW j \in Nat, i < c + 8, j = i + 2 PROVE msg_buf'[i] = Received(d, j)
  <2>1. msg_buf'[i] = IF Parser!Slot(i) < 8 THEN p.bytes[Parser!Slot(i) + 1] ELSE msg_buf[i]
    BY <1>9 DEF ParserTypes
  <2>2. CASE i < c
    <3>1. ~(Parser!Slot(i) < 8)
      BY <1>7, <1>10, <2>2, SlotIs
    <3>2. msg_buf[i] = Received(d, j)
      BY <1>3, <1>7, <1>12, <2>2, Zenon DEF Gathering, Holds
    <3> QED
      BY <2>1, <3>1, <3>2, Zenon
  <2>3. CASE ~(i < c)
    <3>1. Parser!Slot(i) < 8 /\ Parser!Slot(i) + 1 \in 1 .. 8 /\ Parser!Slot(i) = i - c
      BY <1>7, <1>8, <1>10, <1>12, <2>3, SlotIs
    <3>2. PICK k \in 1 .. 8 : k = Parser!Slot(i) + 1
      BY <3>1
    <3>3. j + 1 = o + k
      BY <1>4, <1>7, <1>8, <1>12, <3>1, <3>2
    <3>4. p.bytes[k] = Received(d, j)
      BY <1>11, <3>3 DEF Takes8
    <3> QED
      BY <2>1, <3>1, <3>2, <3>4, Zenon
  <2> QED
    BY <2>2, <2>3
<1>13. msg_buf'[0] = Byte(n, 2)
  <2>1. 0 \in 0 .. 63 /\ 2 \in Nat /\ 0 < c + 8 /\ 2 = 0 + 2
    BY <1>8
  <2>2. msg_buf'[0] = Received(d, 2)
    BY <1>12, <2>1
  <2>3. Received(d, 2) = Byte(n, 2)
    BY <1>5, <1>6, <1>8, ReceivedIs DEF HeaderLength
  <2> QED
    BY <2>2, <2>3
<1>14. /\ 8 * BeatsOf(Stream[n]) <= BodyLength[Stream[n]] + 9 /\ BeatsOf(Stream[n]) \in Nat
       /\ BodyLength[Stream[n]] + 2 <= 8 * BeatsOf(Stream[n])
       /\ LastOffset(n) + 8 = 8 * BeatsOf(Stream[n]) /\ LastBeatAt(n) = LastOffset(n) + 20
  BY BeatsOfIs
<1>15. KindOf(msg_buf'[0]) = Stream[n]
  BY <1>13, ByteOfMessage
<1>16. \A e \in accepted : Arrives(e) /\ IsLast(m, e) => e.seq = n /\ o = LastOffset(n)
  <2>1. ASSUME NEW e \in accepted, Arrives(e), IsLast(m, e) PROVE e.seq = n /\ o = LastOffset(n)
    <3>1. e \in Datagrams /\ e.count = 1
      BY AcceptedIs
    <3> QED
      BY <1>4, <1>5, <1>6, <2>1, <3>1, SameBeat
  <2> QED
    BY <2>1
<1>17. PICK f \in Nat : f = BeatsOf(Stream[n])
  BY <1>14
<1>18. CASE c + 8 >= msg_len
  <2>1. 8 * f = o + 8 /\ o = LastOffset(n)
    <3>1. PICK g \in Nat : o = 8 * g
      <4>1. o % 8 = 0
        BY <1>4, <1>7, <1>8
      <4>2. o = 8 * (o \div 8) /\ o \div 8 \in Nat
        BY <4>1
      <4> QED
        BY <4>2
    <3>2. f = g + 1
      <4>1. 8 * f <= 8 * g + 15 /\ 8 * g + 1 <= 8 * f
        BY <1>4, <1>7, <1>8, <1>14, <1>17, <1>18, <3>1
      <4> QED
        BY <4>1
    <3>3. LastOffset(n) + 8 = 8 * f /\ LastOffset(n) \in Int
      BY <1>14, <1>17 DEF LastOffset
    <3> QED
      BY <3>1, <3>2, <3>3
  <2>2. m.last /\ parser_state' = "EMIT"
    BY <1>4, <1>5, <1>6, <1>7, <1>8, <1>9, <1>11, <1>18
  <2>3. CASE Stream[n] \in Supported
    <3>1. Arrives(d)
      <4>1. d.len > LastBeatAt(n)
        BY <1>4, <1>5, <1>7, <1>8, <1>14, <2>1
      <4>2. d.len >= o + 25 /\ d.len <= o + 28 /\ o % 8 = 0
        BY <1>4, <1>5, <1>6, <1>7, <1>8, <1>18
      <4>3. d.len % 8 \in 1 .. 4
        BY <1>5, <4>2
      <4> QED
        BY <1>6, <2>3, <4>1, <4>3 DEF Arrives
    <3>2. \A i \in 0 .. 63, j \in Nat : i < 8 * BeatsOf(Stream[n]) - 2 /\ j = i + 2 => msg_buf'[i] = Received(d, j)
      <4>1. 8 * BeatsOf(Stream[n]) - 2 = c + 8
        BY <1>4, <1>7, <1>8, <1>17, <2>1
      <4> QED
        BY <1>12, <4>1, Zenon
    <3>3. (Emitting(d))'
      BY <1>6, <1>13, <3>1, <3>2 DEF Emitting, Holds
    <3>4. IsLast(m, d)
      BY <1>4, <1>6, <2>1, Zenon DEF IsLast
    <3>5. byte_cnt + 2 = LastOffset(d.seq) /\ msg_buf[0] = Byte(d.seq, 2)
      BY <1>4, <1>6, <1>8, <2>1
    <3> QED
      BY <1>1, <2>2, <3>3, <3>4, <3>5 DEF Completes
  <2>4. CASE Stream[n] \notin Supported
    <3>1. \A e \in accepted : Arrives(e) => ~IsLast(m, e)
      BY <1>16, <2>4 DEF Arrives
    <3> QED
      BY <1>1, <1>15, <2>2, <2>4, <3>1 DEF Loses
  <2> QED
    BY <2>3, <2>4
<1>19. CASE ~(c + 8 >= msg_len) /\ m.last
  <2>1. o # LastOffset(n)
    BY <1>4, <1>7, <1>8, <1>14, <1>17, <1>19
  <2>2. parser_state' = "IDLE"
    BY <1>9, <1>11, <1>19
  <2> QED
    BY <1>1, <1>16, <1>19, <2>1, <2>2 DEF Loses
<1>20. CASE ~(c + 8 >= msg_len) /\ ~m.last
  <2>1. parser_state' = "ACCUMULATE"
    BY <1>9, <1>11, <1>20
  <2>2. Holds(msg_buf', d, byte_cnt')
    BY <1>10, <1>12, Zenon DEF Holds
  <2>3. /\ byte_cnt' >= 6 /\ (byte_cnt' + 2) % 8 = 0 /\ byte_cnt' < msg_len'
        /\ byte_cnt' + 26 < d.len
    <3>1. ~(d.len <= o + 32)
      BY <1>11, <1>20
    <3> QED
      BY <1>4, <1>5, <1>7, <1>8, <1>9, <1>10, <1>20, <3>1
  <2>4. (Gathering(d))'
    BY <1>6, <1>8, <1>9, <1>13, <2>2, <2>3 DEF Gathering
  <2>5. o = (IF parser_state = "IDLE" THEN 0 ELSE byte_cnt + 2) /\ byte_cnt' = o + 6
    BY <1>4, <1>7, <1>8, <1>10
  <2> QED
    BY <1>1, <1>4, <1>20, <2>1, <2>4, <2>5, Zenon DEF Grows
<1> QED
  BY <1>18, <1>19, <1>20

\* The fields come out of the buffer.
LEMMA EmitTick ==
  ASSUME NetInv, ParserTypes, ParserHolds, fields_valid => parser_state = "IDLE",
         NEW b, NEW hold \in BOOLEAN, AppTick(b, hold), parser_state = "EMIT"
  PROVE  Emits
<1>1. PICK kind : kind = KindOf(msg_buf[0])
  OBVIOUS
<1>2. /\ parser_state' = "IDLE"
      /\ fields' = IF kind \in Supported
                     THEN [kind |-> kind, bytes |-> [i \in FieldBytes[kind] |-> msg_buf[i]]]
                     ELSE Parser!BlankFields
      /\ fields_valid' = (kind \in Supported)
      /\ UNCHANGED <<msg_buf, byte_cnt, msg_len>>
  BY <1>1 DEF AppTick, Parser!Clock, Parser!Emit, Parser!Gather
<1>3. /\ fifo' = fifo
      /\ emitted' = IF fields_valid' /\ ~fields_valid THEN Append(emitted, fields'.bytes[11][1]) ELSE emitted
  BY DEF AppTick, Parser!s_axis_tready
<1>4. fields_valid = FALSE
  BY DEF ParserTypes
<1>5. CASE kind \notin Supported
  <2>1. fields_valid' = FALSE /\ fields' = Parser!BlankFields /\ emitted' = emitted
    <3>1. (kind \in Supported) = FALSE
      BY <1>5
    <3>2. fields_valid' = FALSE /\ fields' = Parser!BlankFields
      BY <1>2, <1>5, <3>1, Zenon
    <3> QED
      BY <1>3, <3>2, Zenon
  <2> QED
    BY <1>1, <1>2, <1>3, <1>5, <2>1 DEF Emits
<1>6. CASE kind \in Supported
  <2>1. PICK d \in accepted : Emitting(d)
    BY <1>1, <1>6 DEF ParserHolds
  <2>2. d \in Datagrams /\ d.count = 1 /\ d.seq \in Numbers /\ d.seq \in Nat /\ d.len \in Nat
    BY AcceptedIs
  <2>3. kind = Stream[d.seq]
    BY <1>1, <2>1, <2>2, ByteOfMessage DEF Emitting
  <2>4. \A i \in FieldBytes[kind] : i \in Nat /\ i < 8 * BeatsOf(kind) - 2 /\ i \in 0 .. 63
    <3>1. BeatsOf(kind) \in Nat /\ 8 * BeatsOf(kind) <= BodyLength[kind] + 9 /\ BodyLength[kind] <= 54
          /\ BodyLength[kind] \in Nat
      BY <2>2, <2>3, BeatsOfIs, MessageFacts
    <3> QED
      BY <1>6, <3>1, SupportedIs
  <2>5. \A i \in FieldBytes[kind] : msg_buf[i] = Received(d, i + 2)
    <3>1. ASSUME NEW i \in FieldBytes[kind] PROVE msg_buf[i] = Received(d, i + 2)
      <4>1. PICK j \in Nat : j = i + 2
        <5>1. i + 2 \in Nat
          BY <2>4
        <5> QED
          BY <5>1, Zenon
      <4>2. msg_buf[i] = Received(d, j)
        BY <2>1, <2>3, <2>4, <4>1, Zenon DEF Emitting, Holds
      <4> QED
        BY <4>1, <4>2, Zenon
    <3> QED
      BY <3>1
  <2>6. [i \in FieldBytes[kind] |-> msg_buf[i]] = [i \in FieldBytes[kind] |-> Received(d, i + 2)]
    BY <2>5, Zenon
  <2>7. fields'.kind = kind /\ fields'.bytes = [i \in FieldBytes[kind] |-> msg_buf[i]]
    BY <1>2, <1>6
  <2>8. fields'.bytes[11][1] = d.seq
    <3>1. 11 \in FieldBytes[kind]
      BY <1>6, SupportedIs
    <3>2. PICK j \in Nat : j = 13
      OBVIOUS
    <3>3. 11 \in 0 .. 63 /\ 11 < 8 * BeatsOf(kind) - 2 /\ j = 11 + 2
      BY <2>4, <3>1, <3>2
    <3>4. msg_buf[11] = Received(d, j)
      BY <2>1, <2>3, <3>3, Zenon DEF Emitting, Holds
    <3>5. HeaderLength + j < d.len
      BY <2>1, <2>2, <3>2, ArrivesIs DEF Emitting, HeaderLength
    <3>6. Received(d, j) = Byte(d.seq, j)
      BY <2>2, <3>5, ReceivedIs
    <3>7. fields'.bytes[11] = Byte(d.seq, j)
      BY <2>7, <3>1, <3>4, <3>6
    <3> QED
      BY <2>2, <3>7, ByteIs
  <2>9. fields_valid' = TRUE
    BY <1>2, <1>6, Zenon
  <2>10. emitted' = Append(emitted, d.seq)
    BY <1>3, <1>4, <2>8, <2>9, Zenon
  <2> QED
    BY <1>2, <1>3, <2>1, <2>3, <2>6, <2>7, <2>8, <2>9, <2>10 DEF Emits
<1> QED
  BY <1>5, <1>6

\* The five together.
LEMMA AppStep ==
  ASSUME NetInv, AllOk, FitsFirst, ParserTypes, ParserHolds, fields_valid => parser_state = "IDLE",
         NEW hold \in BOOLEAN, AppIdle(hold) \/ AppBeat(hold)
  PROVE  Waits \/ Emits \/ Loses \/ Grows \/ Completes
<1>1. CASE parser_state = "EMIT"
  BY <1>1, EmitTick DEF AppIdle, AppBeat
<1>2. CASE parser_state # "EMIT"
  <2>1. PICK b : AppTick(b, hold) /\ (b = NoBeat \/ (fifo # << >> /\ b = Padded(Head(fifo))))
    BY DEF AppIdle, AppBeat
  <2>2. fields_valid' = FALSE /\ UNCHANGED fields
    <3>1. Parser!Gather(b, hold)
      BY <1>2, <2>1 DEF AppTick, Parser!Clock, Parser!Emit
    <3>2. Parser!Pulse = FALSE
      BY DEF Parser!Pulse, ParserTypes
    <3> QED
      BY <3>1, <3>2, Zenon DEF Parser!Gather
  <2>3. emitted' = emitted
    BY <2>1, <2>2 DEF AppTick
  <2>4. CASE b # NoBeat /\ Parser!s_axis_tready(hold)
    <3>1. Pops
      BY <1>2, <2>1, <2>2, <2>3, <2>4 DEF Pops, AppTick
    <3>2. Parser!IdleBeat(b) \/ Parser!AccumulateBeat(b)
      BY <1>2, <2>1, <2>4 DEF AppTick, Parser!Clock, Parser!Emit, Parser!Gather
    <3>3. b = Padded(Head(fifo))
      BY <2>1, <2>4
    <3> QED
      BY <3>1, <3>2, <3>3, FirstTick, MoreTick DEF Parser!IdleBeat, Parser!AccumulateBeat
  <2>5. CASE ~(b # NoBeat /\ Parser!s_axis_tready(hold))
    <3>1. UNCHANGED <<parser_state, msg_buf, byte_cnt, msg_len>>
      BY <1>2, <2>1, <2>5 DEF AppTick, Parser!Clock, Parser!Emit, Parser!Gather
    <3>2. fifo' = fifo
      BY <2>1, <2>5 DEF AppTick
    <3> QED
      BY <1>2, <2>2, <2>3, <3>1, <3>2 DEF Waits
  <2> QED
    BY <2>4, <2>5
<1> QED
  BY <1>1, <1>2

-----------------------------------------------------------------------------
(* Chains of beats: w is what the reader wants next, z what the writer      *)
(* sends next.                                                             *)

Chain(w, q, z) ==
  /\ q = << >> => z = w
  /\ q # << >> => Fits(w, q[1]) /\ z = After(q[Len(q)])
  /\ \A i, j \in 1 .. Len(q) : j = i + 1 => Fits(After(q[i]), q[j])

LEMMA AppendIs ==
  ASSUME NEW q \in Seq(Beats), NEW b \in Beats
  PROVE  /\ Append(q, b) \in Seq(Beats) /\ Append(q, b) # << >> /\ Len(q) \in Nat
         /\ Len(Append(q, b)) = Len(q) + 1 /\ Append(q, b)[Len(q) + 1] = b
         /\ \A i \in 1 .. Len(q) : Append(q, b)[i] = q[i]
         /\ \A i \in 1 .. Len(q) + 1 : i \in 1 .. Len(q) \/ i = Len(q) + 1
<1>1. Len(q) \in Nat
  BY LenProperties
<1> QED
  BY <1>1, AppendProperties

LEMMA TailIs ==
  ASSUME NEW q \in Seq(Beats), q # << >>
  PROVE  /\ Tail(q) \in Seq(Beats) /\ Head(q) \in Beats /\ Head(q) = q[1]
         /\ Len(q) \in Nat /\ Len(q) >= 1 /\ Len(Tail(q)) = Len(q) - 1
         /\ \A i \in 1 .. Len(Tail(q)), j \in 1 .. Len(q) : j = i + 1 => Tail(q)[i] = q[j]
<1>1. Len(q) \in Nat /\ Len(q) >= 1
  BY LenProperties, EmptySeq
<1>2. Head(q) \in Beats /\ Tail(q) \in Seq(Beats) /\ Len(Tail(q)) = Len(q) - 1
      /\ \A i \in 1 .. Len(Tail(q)) : Tail(q)[i] = q[i + 1]
  BY HeadTailProperties
<1>3. Head(q) = q[1]
  OBVIOUS
<1>4. ASSUME NEW i \in 1 .. Len(Tail(q)), NEW j \in 1 .. Len(q), j = i + 1 PROVE Tail(q)[i] = q[j]
  BY <1>2, <1>4, Zenon
<1> QED
  BY <1>1, <1>2, <1>3, <1>4

LEMMA ChainAppend ==
  ASSUME NEW q \in Seq(Beats), NEW b \in Beats, NEW w, NEW z, Chain(w, q, z), Fits(z, b)
  PROVE  Chain(w, Append(q, b), After(b))
<1>1. PICK r : r = Append(q, b)
  OBVIOUS
<1>2. PICK n \in Nat : n = Len(q)
  BY LenProperties
<1>3. /\ r \in Seq(Beats) /\ r # << >> /\ Len(r) = n + 1 /\ r[n + 1] = b
      /\ \A i \in 1 .. n : r[i] = q[i]
      /\ \A i \in 1 .. n + 1 : i \in 1 .. n \/ i = n + 1
  BY <1>1, <1>2, AppendIs
<1>4. q = << >> <=> n = 0
  BY <1>2, EmptySeq
<1>5. Fits(w, r[1])
  <2>1. CASE n = 0
    <3>1. r[1] = b
      BY <1>3, <2>1
    <3> QED
      BY <1>4, <2>1, <3>1, Zenon DEF Chain
  <2>2. CASE n # 0
    <3>1. r[1] = q[1]
      BY <1>3, <2>2
    <3> QED
      BY <1>4, <2>2, <3>1, Zenon DEF Chain
  <2> QED
    BY <2>1, <2>2
<1>6. r[Len(r)] = b
  BY <1>3
<1>7. ASSUME NEW i \in 1 .. Len(r), NEW j \in 1 .. Len(r), j = i + 1 PROVE Fits(After(r[i]), r[j])
  <2>1. i \in 1 .. n /\ r[i] = q[i]
    BY <1>3, <1>7
  <2>2. CASE j \in 1 .. n
    <3>1. r[j] = q[j] /\ Fits(After(q[i]), q[j])
      BY <1>2, <1>3, <1>7, <2>1, <2>2 DEF Chain
    <3> QED
      BY <2>1, <3>1, Zenon
  <2>3. CASE j \notin 1 .. n
    <3>1. j = n + 1 /\ i = n
      BY <1>3, <1>7, <2>3
    <3>2. r[j] = b /\ q # << >> /\ z = After(q[i])
      BY <1>2, <1>3, <1>4, <2>1, <3>1 DEF Chain
    <3> QED
      BY <2>1, <3>2, Zenon
  <2> QED
    BY <2>2, <2>3
<1>8. Chain(w, r, After(b))
  BY <1>3, <1>5, <1>6, <1>7 DEF Chain
<1> QED
  BY <1>1, <1>8

LEMMA ChainTail ==
  ASSUME NEW q \in Seq(Beats), q # << >>, NEW w, NEW z, Chain(w, q, z)
  PROVE  Chain(After(Head(q)), Tail(q), z)
<1>1. PICK r : r = Tail(q)
  OBVIOUS
<1>2. PICK n \in Nat : n = Len(q)
  BY LenProperties
<1>3. /\ r \in Seq(Beats) /\ n >= 1 /\ Len(r) = n - 1 /\ Head(q) = q[1]
      /\ \A i \in 1 .. Len(r), j \in 1 .. n : j = i + 1 => r[i] = q[j]
  BY <1>1, <1>2, TailIs
<1>4. r = << >> <=> n = 1
  BY <1>3, EmptySeq
<1>5. z = After(q[n]) /\ \A i, j \in 1 .. n : j = i + 1 => Fits(After(q[i]), q[j])
  BY <1>2 DEF Chain
<1>6. r = << >> => z = After(q[1])
  BY <1>4, <1>5
<1>7. ASSUME r # << >> PROVE Fits(After(q[1]), r[1]) /\ z = After(r[Len(r)])
  <2>1. n >= 2 /\ 1 \in 1 .. n /\ 2 \in 1 .. n /\ 1 \in 1 .. Len(r) /\ 2 = 1 + 1
    BY <1>3, <1>4, <1>7
  <2>2. r[1] = q[2] /\ Fits(After(q[1]), q[2])
    BY <1>3, <1>5, <2>1
  <2>3. Len(r) \in 1 .. Len(r) /\ n \in 1 .. n /\ n = Len(r) + 1
    BY <1>3, <2>1
  <2>4. r[Len(r)] = q[n]
    BY <1>3, <2>3
  <2> QED
    BY <1>5, <2>2, <2>4, Zenon
<1>8. ASSUME NEW i \in 1 .. Len(r), NEW j \in 1 .. Len(r), j = i + 1 PROVE Fits(After(r[i]), r[j])
  <2>1. PICK k \in 1 .. n, l \in 1 .. n : k = i + 1 /\ l = j + 1
    BY <1>3, <1>8
  <2>2. r[i] = q[k] /\ r[j] = q[l] /\ l = k + 1
    BY <1>3, <1>8, <2>1
  <2> QED
    BY <1>5, <2>2
<1>9. Chain(After(q[1]), r, z)
  BY <1>6, <1>7, <1>8 DEF Chain
<1> QED
  BY <1>1, <1>3, <1>9

-----------------------------------------------------------------------------
(* What a tick of clk_156 means to what is behind the FIFO.                *)

StripSends == IF state = "PAYLOAD" /\ at > 24 THEN Byte(dgram.seq, at - 24) ELSE Zero

\* The number of the message the stripper sends, or sends next.
StripNumber ==
  IF state = "PAYLOAD" \/ (state = "FLUSH" /\ stage # << >>) THEN expected_seq_num - 1 ELSE expected_seq_num

SendsNothing == fifo' = fifo /\ StripSends' = StripSends
SendsOne ==
  \E b \in Beats :
    /\ fifo' = Append(fifo, b)
    /\ (BeatOk(b))' /\ Fits(StripSends, b) /\ StripSends' = After(b)
    /\ b # Empty => Number(b) = StripNumber /\ (b.last => StripNumber' > StripNumber)

LEMMA NetSends ==
  ASSUME NetInv, NetIdle \/ NetBeat
  PROVE  /\ accepted \subseteq accepted' /\ StripNumber \in Nat /\ StripNumber' \in Nat
         /\ StripNumber <= StripNumber'
         /\ SendsNothing \/ SendsOne
<1> USE DEF NetInv
<1>1. Still \/ Ahead \/ Accepts \/ Sends \/ Flushes
  BY NetStep
<1>2. expected_seq_num \in Nat /\ expected_seq_num > 0
  BY DEF Types
<1>3. StripNumber \in Nat
  BY <1>2 DEF StripNumber
<1>4. CASE Still
  BY <1>3, <1>4 DEF Still, SendsNothing, StripSends, StripNumber
<1>5. CASE Ahead
  BY <1>3, <1>5 DEF Ahead, Skipping, SendsNothing, StripSends, StripNumber
<1>6. CASE Accepts
  <2>1. /\ dgram \in Dgram /\ dgram.len \in Nat
        /\ dgram.count = 1 \/ (dgram.count = 0 /\ dgram.len = HeaderLength)
    BY <1>6, DatagramFacts DEF Accepts, Dgram
  <2>2. StripNumber = expected_seq_num /\ StripSends = Zero
    BY <1>6 DEF Accepts, StripNumber, StripSends
  <2>3. StripSends' = Zero /\ fifo' = fifo /\ accepted \subseteq accepted'
    BY <1>6 DEF Accepts, StripSends
  <2>4. expected_seq_num' = expected_seq_num + 1 \/ (expected_seq_num' = expected_seq_num /\ dgram.len = HeaderLength)
    BY <1>2, <1>6, <2>1 DEF Accepts
  <2>5. dgram.len = HeaderLength => state' = "FLUSH" /\ stage' = << >>
    <3>1. dgram.len = HeaderLength => ~(dgram.len > 24) /\ dgram.len - HeaderLength = 0
      BY DEF HeaderLength
    <3>2. dgram.seq \in Nat
      BY <2>1 DEF Dgram
    <3> QED
      BY <1>6, <3>1, <3>2, RunNone DEF Accepts
  <2>6. StripNumber' \in Nat /\ StripNumber <= StripNumber'
    BY <1>2, <2>2, <2>4, <2>5 DEF StripNumber
  <2> QED
    BY <1>3, <2>2, <2>3, <2>6 DEF SendsNothing
<1>7. CASE Sends
  <2>1. PICK d \in accepted : d = dgram /\ d.seq + 1 = expected_seq_num
    BY <1>7 DEF Sends, StripPlace
  <2>2. d \in Datagrams /\ d.seq \in Numbers /\ d.seq \in Nat /\ d.len \in Nat
    BY AcceptedIs
  <2>3. PICK o \in Nat : o = at - 24 /\ o % 8 = 0 /\ o + 24 < d.len /\ at = o + 24
    <3>1. at >= 24 /\ at % 8 = 0 /\ at \in Nat /\ at < d.len
      BY <1>7, <2>1 DEF Sends, StripPlace, Types
    <3>2. at - 24 \in Nat /\ (at - 24) % 8 = 0 /\ (at - 24) + 24 = at
      BY <3>1
    <3> QED
      BY <3>1, <3>2, Zenon
  <2>4. Sendable(d, o)
    BY <2>3 DEF Sendable
  <2>5. PICK b : b = Out(d, o)
    OBVIOUS
  <2>6. /\ b \in Beats /\ b # Empty /\ b.bytes[1] = Byte(d.seq, o)
        /\ Number(b) = d.seq /\ Offset(b) = o /\ (b.last <=> d.len <= o + 32)
    BY <2>2, <2>4, <2>5, OutFacts
  <2>7. fifo' = Append(fifo, b) /\ accepted' = accepted /\ expected_seq_num' = expected_seq_num
    BY <1>7, <2>1, <2>3, <2>5, Zenon DEF Sends
  <2>8. (BeatOk(b))'
    BY <2>1, <2>4, <2>5, <2>7, Zenon DEF BeatOk
  <2>9. Byte(d.seq, o) # Zero
    BY <2>2, ByteOfMessage
  <2>10. StripSends = (IF at > 24 THEN Byte(d.seq, o) ELSE Zero)
    BY <1>7, <2>1, <2>3, Zenon DEF Sends, StripSends
  <2>11. Fits(StripSends, b)
    <3>1. ~(at > 24) => o = 0
      BY <2>3
    <3> QED
      BY <2>6, <2>9, <2>10, <3>1, Zenon DEF Fits
  <2>12. StripNumber = d.seq
    BY <1>2, <1>7, <2>1, <2>2 DEF Sends, StripNumber
  <2>13. CASE b.last
    <3>1. dgram.len <= at + 8
      BY <2>1, <2>2, <2>3, <2>6, <2>13
    <3>2. state' = "B0"
      BY <1>7, <3>1 DEF Sends
    <3>3. StripSends' = Zero /\ StripNumber' = expected_seq_num
      BY <2>7, <3>2 DEF StripSends, StripNumber
    <3>4. After(b) = Zero
      BY <2>13 DEF After
    <3>5. StripNumber' \in Nat /\ StripNumber' > StripNumber
      BY <1>2, <2>1, <2>2, <2>12, <3>3
    <3>6. SendsOne
      BY <2>6, <2>7, <2>8, <2>11, <2>12, <3>3, <3>4, <3>5, Zenon DEF SendsOne
    <3> QED
      BY <1>3, <2>7, <3>5, <3>6
  <2>14. CASE ~b.last
    <3>1. ~(dgram.len <= at + 8)
      BY <2>1, <2>2, <2>3, <2>6, <2>14
    <3>2. state' = "PAYLOAD" /\ dgram' = d /\ at' = at + 8
      BY <1>7, <2>1, <3>1 DEF Sends
    <3>3. StripNumber' = StripNumber
      BY <1>7, <2>7, <3>2 DEF Sends, StripNumber
    <3>4. at' > 24 /\ at' - 24 = o + 8
      BY <2>3, <3>2
    <3>5. StripSends' = Byte(d.seq, o + 8)
      BY <3>2, <3>4, Zenon DEF StripSends
    <3>6. After(b) = Byte(d.seq, o + 8)
      BY <2>6, <2>14, Zenon DEF After
    <3>7. SendsOne
      BY <2>6, <2>7, <2>8, <2>11, <2>12, <2>14, <3>5, <3>6, Zenon DEF SendsOne
    <3> QED
      BY <1>3, <2>7, <3>3, <3>7
  <2> QED
    BY <2>13, <2>14
<1>8. CASE Flushes
  <2>1. PICK b : b = [bytes |-> stage, last |-> TRUE]
    OBVIOUS
  <2>2. b \in Beats /\ fifo' = Append(fifo, b) /\ accepted' = accepted /\ expected_seq_num' = expected_seq_num
        /\ state' = "B0" /\ b.last /\ b.bytes = stage
    BY <1>8, <2>1, StagedIs DEF Flushes
  <2>3. StripSends = Zero /\ StripSends' = Zero /\ After(b) = Zero /\ StripNumber' = expected_seq_num
    BY <1>8, <2>2 DEF Flushes, StripSends, StripNumber, After
  <2>4. CASE stage = << >>
    <3>1. b = Empty
      BY <2>1, <2>4 DEF Empty
    <3>2. Fits(Zero, b) /\ (BeatOk(b))'
      BY <3>1 DEF Fits, BeatOk
    <3>3. SendsOne
      BY <2>2, <2>3, <3>1, <3>2, Zenon DEF SendsOne
    <3>4. StripNumber = expected_seq_num
      BY <1>8, <2>4 DEF StripNumber, Flushes
    <3> QED
      BY <1>2, <2>2, <2>3, <3>3, <3>4
  <2>5. CASE stage # << >>
    <3>1. PICK d \in accepted : d.seq + 1 = expected_seq_num /\ d.len \in 21 .. 24 /\ stage = Run(d.seq, 0, d.len - HeaderLength)
      BY <1>8, <2>5 DEF Flushes, StripPlace
    <3>2. d \in Datagrams /\ d.seq \in Numbers /\ d.seq \in Nat /\ d.len \in Nat
      BY AcceptedIs
    <3>3. PICK o \in Nat : o = 0
      OBVIOUS
    <3>4. Sendable(d, o)
      BY <3>1, <3>3 DEF Sendable
    <3>5. b = Out(d, o)
      <4>1. Size(d, o) = d.len - HeaderLength
        BY <3>1, <3>2, <3>3 DEF Size, HeaderLength
      <4>2. (d.len <= o + 32) = TRUE
        BY <3>1, <3>3
      <4> QED
        BY <2>1, <3>1, <3>3, <4>1, <4>2, Zenon DEF Out
    <3>6. b # Empty /\ Number(b) = d.seq /\ Offset(b) = o
      BY <3>2, <3>4, <3>5, OutFacts
    <3>7. Fits(Zero, b) /\ (BeatOk(b))'
      <4>1. (BeatOk(b))'
        BY <2>2, <3>4, <3>5, Zenon DEF BeatOk
      <4> QED
        BY <3>3, <3>6, <4>1 DEF Fits
    <3>8. StripNumber = d.seq
      BY <1>8, <2>5, <3>1, <3>2 DEF StripNumber, Flushes
    <3>9. StripNumber' > StripNumber
      BY <2>3, <3>1, <3>2, <3>8
    <3>10. SendsOne
      BY <2>2, <2>3, <3>6, <3>7, <3>8, <3>9, Zenon DEF SendsOne
    <3> QED
      BY <1>2, <1>3, <2>2, <2>3, <3>9, <3>10
  <2> QED
    BY <2>4, <2>5
<1> QED
  BY <1>1, <1>4, <1>5, <1>6, <1>7, <1>8

-----------------------------------------------------------------------------
(* What comes out of the parser is what went into the stripper.            *)

FieldsHeld ==
  /\ fields_valid => parser_state = "IDLE"
  /\ \/ fields = Parser!BlankFields
     \/ \E n \in Numbers : Stream[n] \in Supported /\ fields.kind = Stream[n] /\ fields.bytes[11][1] = n

Chained == Chain(ParserWants, fifo, StripSends)

PipeInv == AllOk /\ Chained /\ ParserTypes /\ ParserHolds /\ FieldsHeld /\ FieldsWhole

LEMMA PipeGivesStep ==
  ASSUME NetInv, PipeInv, NEW hold \in BOOLEAN, AppIdle(hold) \/ AppBeat(hold)
  PROVE  Waits \/ Emits \/ Loses \/ Grows \/ Completes
<1>1. FitsFirst
  BY DEF PipeInv, Chained, Chain, FitsFirst
<1> QED
  BY <1>1, AppStep DEF PipeInv, FieldsHeld

LEMMA NumberOfBeat ==
  ASSUME NetInv, NEW b, BeatOk(b), b # Empty
  PROVE  Number(b) \in Numbers /\ Number(b) \in Nat
<1>1. PICK d \in accepted, o \in Nat : Sendable(d, o) /\ b = Out(d, o)
  BY DEF BeatOk
<1>2. d \in Datagrams /\ d.seq \in Numbers /\ d.seq \in Nat
  BY AcceptedIs
<1> QED
  BY <1>1, <1>2, OutFacts

LEMMA PipeNet ==
  ASSUME NetInv, PipeInv, NetIdle \/ NetBeat
  PROVE  PipeInv'
<1>1. accepted \subseteq accepted' /\ (SendsNothing \/ SendsOne)
  BY NetSends
<1>2. UNCHANGED <<parser_state, msg_buf, byte_cnt, msg_len, fields, fields_valid, emitted>>
  BY DEF NetIdle, NetBeat, NetTick, parserVars
<1>3. \A b : BeatOk(b) => (BeatOk(b))'
  BY <1>1 DEF BeatOk
<1>4. ParserTypes' /\ FieldsHeld' /\ ParserWants' = ParserWants
  BY <1>2 DEF PipeInv, ParserTypes, FieldsHeld, ParserWants
<1>5. ParserHolds'
  BY <1>1, <1>2 DEF PipeInv, ParserHolds, Gathering, Emitting
<1>6. FieldsWhole'
  BY <1>1, <1>2 DEF PipeInv, FieldsWhole
<1>7. CASE SendsNothing
  BY <1>3, <1>4, <1>5, <1>6, <1>7 DEF SendsNothing, PipeInv, AllOk, Chained
<1>8. CASE SendsOne
  <2>1. PICK b \in Beats : fifo' = Append(fifo, b) /\ (BeatOk(b))' /\ Fits(StripSends, b) /\ StripSends' = After(b)
    BY <1>8 DEF SendsOne
  <2>2. PICK q \in Seq(Beats) : q = fifo
    BY DEF NetInv, Types
  <2>3. PICK n \in Nat : n = Len(q)
    BY LenProperties
  <2>4. /\ Len(fifo') = n + 1 /\ fifo'[n + 1] = b
        /\ \A i \in 1 .. n : fifo'[i] = q[i]
        /\ \A i \in 1 .. n + 1 : i \in 1 .. n \/ i = n + 1
    BY <2>1, <2>2, <2>3, AppendIs
  <2>5. AllOk'
    BY <1>3, <2>1, <2>2, <2>3, <2>4 DEF PipeInv, AllOk
  <2>6. Chain(ParserWants, Append(q, b), After(b))
    BY <2>1, <2>2, ChainAppend DEF PipeInv, Chained
  <2>7. Chained'
    BY <1>4, <2>1, <2>2, <2>6 DEF Chained
  <2> QED
    BY <1>4, <1>5, <1>6, <2>5, <2>7 DEF PipeInv
<1> QED
  BY <1>1, <1>7, <1>8

LEMMA PipePops ==
  ASSUME NetInv, PipeInv, Pops, accepted' = accepted, StripSends' = StripSends,
         ParserWants' = After(Head(fifo))
  PROVE  AllOk' /\ Chained'
<1>1. PICK q \in Seq(Beats) : q = fifo
  BY DEF NetInv, Types
<1>2. PICK r : r = Tail(q)
  OBVIOUS
<1>3. q # << >> /\ fifo' = r
  BY <1>1, <1>2 DEF Pops
<1>4. /\ Len(q) \in Nat /\ Len(r) = Len(q) - 1
      /\ \A i \in 1 .. Len(r), j \in 1 .. Len(q) : j = i + 1 => r[i] = q[j]
  BY <1>2, <1>3, TailIs
<1>5. ASSUME NEW i \in 1 .. Len(r) PROVE BeatOk(r[i])
  <2>1. PICK j \in 1 .. Len(q) : j = i + 1
    BY <1>4
  <2> QED
    BY <1>1, <1>4, <2>1, Zenon DEF PipeInv, AllOk
<1>6. AllOk'
  BY <1>3, <1>5 DEF AllOk, BeatOk
<1>7. Chain(After(Head(q)), r, StripSends)
  BY <1>1, <1>2, <1>3, ChainTail DEF PipeInv, Chained
<1> QED
  BY <1>1, <1>3, <1>6, <1>7 DEF Chained

LEMMA PipeApp ==
  ASSUME NetInv, PipeInv, NEW hold \in BOOLEAN, AppIdle(hold) \/ AppBeat(hold)
  PROVE  PipeInv'
<1>1. Waits \/ Emits \/ Loses \/ Grows \/ Completes
  BY PipeGivesStep
<1>2. UNCHANGED <<state, dgram, at, accepted>>
  BY DEF AppIdle, AppBeat, AppTick, stripVars, netVars
<1>3. StripSends' = StripSends /\ accepted' = accepted
  BY <1>2 DEF StripSends
<1>4. DOMAIN msg_buf' = 0 .. 63 /\ byte_cnt' \in Nat
  <2>1. DOMAIN msg_buf = 0 .. 63 /\ byte_cnt \in Nat
    BY DEF PipeInv, ParserTypes
  <2>2. PICK b : Parser!Clock(b, hold)
    BY DEF AppIdle, AppBeat, AppTick
  <2>3. CASE Parser!Emit \/ UNCHANGED <<msg_buf, byte_cnt>>
    BY <2>1, <2>3 DEF Parser!Emit
  <2>4. CASE Parser!IdleBeat(b) \/ Parser!AccumulateBeat(b)
    BY <2>1, <2>4 DEF Parser!IdleBeat, Parser!AccumulateBeat, Parser!InFirstBeat, Parser!BufSize
  <2> QED
    BY <2>2, <2>3, <2>4 DEF Parser!Clock, Parser!Gather
<1>5. \A b : BeatOk(b) => (BeatOk(b))'
  BY <1>3 DEF BeatOk
<1>6. CASE Waits
  <2>1. UNCHANGED <<parser_state, msg_buf, byte_cnt, msg_len, fields, fifo>> /\ fields_valid' = FALSE
    BY <1>6 DEF Waits
  <2>2. ParserTypes' /\ FieldsHeld' /\ FieldsWhole' /\ ParserWants' = ParserWants
    BY <2>1 DEF PipeInv, ParserTypes, FieldsHeld, FieldsWhole, ParserWants
  <2>3. ParserHolds'
    BY <1>3, <2>1 DEF PipeInv, ParserHolds, Gathering, Emitting
  <2>4. AllOk' /\ Chained'
    BY <1>3, <1>5, <2>1, <2>2 DEF PipeInv, AllOk, Chained
  <2> QED
    BY <2>2, <2>3, <2>4 DEF PipeInv
<1>7. CASE Emits
  <2>1. parser_state = "EMIT" /\ parser_state' = "IDLE" /\ fifo' = fifo
    BY <1>7 DEF Emits
  <2>2. ParserWants' = ParserWants /\ ParserHolds'
    BY <2>1 DEF ParserWants, ParserHolds
  <2>3. AllOk' /\ Chained'
    BY <1>3, <1>5, <2>1, <2>2 DEF PipeInv, AllOk, Chained
  <2>4. CASE fields' = Parser!BlankFields /\ fields_valid' = FALSE
    BY <1>4, <2>1, <2>2, <2>3, <2>4 DEF PipeInv, ParserTypes, FieldsHeld, FieldsWhole
  <2>5. ASSUME NEW d \in accepted, Emitting(d), fields'.kind = Stream[d.seq],
               fields'.bytes = [i \in FieldBytes[Stream[d.seq]] |-> Received(d, i + 2)],
               fields'.bytes[11][1] = d.seq, fields_valid' = TRUE
        PROVE  PipeInv'
    <3>1. d.seq \in Numbers /\ Stream[d.seq] \in Supported
      BY <2>5, AcceptedIs DEF Emitting, Arrives
    <3>2. FieldsHeld' /\ ParserTypes'
      BY <1>4, <2>1, <2>5, <3>1 DEF FieldsHeld, ParserTypes
    <3>3. FieldsWhole'
      BY <1>3, <2>5, Zenon DEF FieldsWhole
    <3> QED
      BY <2>2, <2>3, <3>2, <3>3 DEF PipeInv
  <2> QED
    BY <1>7, <2>4, <2>5 DEF Emits
<1>8. ASSUME Pops PROVE FieldsHeld' /\ FieldsWhole'
  BY <1>8 DEF Pops, PipeInv, FieldsHeld, FieldsWhole
<1>9. CASE Loses
  <2>1. /\ Pops /\ Head(fifo).last /\ fields_valid' = FALSE /\ parser_state' \in {"IDLE", "EMIT"}
        /\ parser_state' = "EMIT" => KindOf(msg_buf'[0]) \notin Supported
    BY <1>9 DEF Loses, Pops
  <2>2. ParserTypes' /\ ParserHolds'
    BY <1>4, <2>1 DEF ParserTypes, ParserHolds
  <2>3. ParserWants' = Zero /\ After(Head(fifo)) = Zero
    BY <2>1 DEF ParserWants, After
  <2>4. AllOk' /\ Chained'
    BY <1>3, <2>1, <2>3, PipePops
  <2> QED
    BY <1>8, <2>1, <2>2, <2>4 DEF PipeInv
<1>10. CASE Grows
  <2>1. Pops /\ ~Head(fifo).last /\ parser_state' = "ACCUMULATE" /\ fields_valid' = FALSE
    BY <1>10 DEF Grows, Pops
  <2>2. PICK d \in accepted, o \in Nat :
          Sendable(d, o) /\ Head(fifo) = Out(d, o) /\ (Gathering(d))' /\ byte_cnt' = o + 6
    BY <1>10 DEF Grows
  <2>3. d \in Datagrams /\ d.seq \in Nat
    BY AcceptedIs
  <2>4. ParserTypes'
    BY <1>4, <2>1 DEF ParserTypes
  <2>5. ParserHolds'
    BY <1>3, <2>1, <2>2 DEF ParserHolds
  <2>6. ParserWants' = After(Head(fifo))
    <3>1. msg_buf'[0][1] = d.seq
      BY <2>2, <2>3, ByteIs DEF Gathering
    <3>2. byte_cnt' + 2 = o + 8
      BY <2>2
    <3>3. ParserWants' = Byte(d.seq, o + 8)
      BY <2>1, <3>1, <3>2, Zenon DEF ParserWants
    <3>4. Number(Head(fifo)) = d.seq /\ Offset(Head(fifo)) = o
      BY <2>2, <2>3, OutFacts
    <3> QED
      BY <2>1, <3>3, <3>4, Zenon DEF After
  <2>7. AllOk' /\ Chained'
    BY <1>3, <2>1, <2>6, PipePops
  <2> QED
    BY <1>8, <2>1, <2>4, <2>5, <2>7 DEF PipeInv
<1>11. CASE Completes
  <2>1. Pops /\ Head(fifo).last /\ parser_state' = "EMIT" /\ fields_valid' = FALSE
    BY <1>11 DEF Completes, Pops
  <2>2. ParserTypes'
    BY <1>4, <2>1 DEF ParserTypes
  <2>3. ParserHolds'
    BY <1>3, <1>11 DEF Completes, ParserHolds
  <2>4. ParserWants' = Zero /\ After(Head(fifo)) = Zero
    BY <2>1 DEF ParserWants, After
  <2>5. AllOk' /\ Chained'
    BY <1>3, <2>1, <2>4, PipePops
  <2> QED
    BY <1>8, <2>1, <2>2, <2>3, <2>5 DEF PipeInv
<1> QED
  BY <1>1, <1>6, <1>7, <1>9, <1>10, <1>11

LEMMA PipeStart ==
  ASSUME NEW f, f = << >>
  PROVE  Chain(Zero, f, Zero) /\ \A i : i \notin 1 .. Len(f)
BY DEF Chain

LEMMA PipeInductive ==
  /\ Init => PipeInv
  /\ NetInv /\ PipeInv /\ [Next]_vars => PipeInv'
<1>1. ASSUME Init PROVE PipeInv
  <2>1. /\ fifo = << >> /\ parser_state = "IDLE" /\ state = "B0" /\ fields_valid = FALSE /\ byte_cnt = 0
        /\ fields = Parser!BlankFields /\ DOMAIN msg_buf = 0 .. 63
    BY <1>1 DEF Init, Strip!Init, Parser!Init, Parser!BufSize
  <2>2. AllOk /\ Chained
    BY <2>1, PipeStart DEF AllOk, Chained, ParserWants, StripSends
  <2> QED
    BY <2>1, <2>2 DEF PipeInv, ParserTypes, ParserHolds, FieldsHeld, FieldsWhole
<1>2. ASSUME NetInv, PipeInv, [Next]_vars PROVE PipeInv'
  <2>1. ASSUME NEW d \in Datagrams, Arrive(d) PROVE PipeInv'
    <3>1. UNCHANGED <<state, fifo, parser_state, msg_buf, byte_cnt, msg_len, fields, fields_valid, accepted>>
      BY <2>1 DEF Arrive, stripVars, parserVars
    <3>2. state # "PAYLOAD"
      BY <1>2, <2>1 DEF NetInv, StripPlace, Arrive
    <3>3. StripSends' = StripSends
      BY <3>1, <3>2 DEF StripSends
    <3> QED
      BY <1>2, <3>1, <3>3 DEF PipeInv, AllOk, BeatOk, Chained, ParserWants, ParserTypes, ParserHolds,
        Gathering, Emitting, FieldsHeld, FieldsWhole
  <2>2. CASE NetIdle \/ NetBeat
    BY <1>2, <2>2, PipeNet
  <2>3. ASSUME NEW hold \in BOOLEAN, AppIdle(hold) \/ AppBeat(hold) PROVE PipeInv'
    BY <1>2, <2>3, PipeApp
  <2>4. CASE Reset
    <3>1. /\ fifo' = << >> /\ parser_state' = "IDLE" /\ state' = "B0" /\ fields_valid' = FALSE
          /\ byte_cnt' = 0 /\ fields' = Parser!BlankFields /\ msg_buf' = msg_buf
      BY <2>4 DEF Reset, Strip!Reset, Parser!Reset
    <3>2. AllOk' /\ Chained'
      BY <3>1, PipeStart DEF AllOk, Chained, ParserWants, StripSends
    <3> QED
      BY <1>2, <3>1, <3>2 DEF PipeInv, ParserTypes, ParserHolds, FieldsHeld, FieldsWhole
  <2>5. CASE UNCHANGED vars
    BY <1>2, <2>5 DEF vars, stripVars, parserVars, netVars, PipeInv, AllOk, BeatOk, Chained, StripSends,
      ParserWants, ParserTypes, ParserHolds, Gathering, Emitting, FieldsHeld, FieldsWhole
  <2> QED
    BY <1>2, <2>1, <2>2, <2>3, <2>4, <2>5 DEF Next
<1> QED
  BY <1>1, <1>2

LEMMA PipeInvAlways == Spec => [](NetInv /\ PipeInv)
BY NetInductive, PipeInductive, PTL DEF Spec

\* Whenever fields_valid is up the field registers hold the fields of one message
\* that was accepted, every byte as its datagram brought it: whatever the parser
\* gathered before, for whatever message, before or after a reset, is not in them.
THEOREM FieldsWholeAlways == Spec => []FieldsWhole
<1>1. PipeInv => FieldsWhole
  BY DEF PipeInv
<1> QED
  BY <1>1, PipeInvAlways, PTL

-----------------------------------------------------------------------------
(* The timing of the parser, as ParserTiming has it.                       *)

Taken == IF parser_state = "ACCUMULATE" THEN (byte_cnt + 2) \div 8 ELSE 0
EmittingNow == IF parser_state # "EMIT" THEN NoDatagram
               ELSE IF KindOf(msg_buf[0]) \in Supported THEN msg_buf[0][1] ELSE 0
FieldsOf == IF fields.kind = NoKind THEN 0 ELSE fields.bytes[11][1]
TimedVars == <<Taken, EmittingNow, FieldsOf, fields_valid>>

TimedMessages == {n \in Numbers : Stream[n] \in Supported}
TimedBeats == [n \in Numbers |-> BeatsOf(Stream[n])]
TimedLast(m) == /\ m # 0 => Taken + 1 = TimedBeats[m]
                /\ Taken' = 0 /\ EmittingNow' = m
TimedEmit ==
  /\ EmittingNow # NoDatagram /\ EmittingNow' = NoDatagram
  /\ FieldsOf' = EmittingNow /\ fields_valid' = (EmittingNow # 0) /\ Taken' = Taken
TimedGather ==
  /\ EmittingNow = NoDatagram
  /\ fields_valid' = FALSE /\ FieldsOf' = FieldsOf
  /\ \/ Taken' = Taken /\ EmittingNow' = NoDatagram
     \/ Taken + 1 < 7 /\ Taken' = Taken + 1 /\ EmittingNow' = NoDatagram
     \/ Taken' = 0 /\ EmittingNow' = NoDatagram
     \/ \E m \in TimedMessages \cup {0} : TimedLast(m)

LEMMA TimedSteps == TimedEmit \/ TimedGather => Timing!Next
<1>1. ASSUME TimedEmit PROVE Timing!Next
  <2>1. Timing!Emit
    BY <1>1 DEF TimedEmit, Timing!Emit, Taken, EmittingNow, FieldsOf
  <2> QED
    BY <2>1 DEF Timing!Next, Timing!Clock
<1>2. ASSUME TimedGather PROVE Timing!Next
  <2>1. EmittingNow = NoDatagram /\ fields_valid' = FALSE /\ FieldsOf' = FieldsOf
    BY <1>2 DEF TimedGather
  <2>2. CASE Taken' = Taken /\ EmittingNow' = NoDatagram
    <3>1. Timing!Stay
      BY <2>2 DEF Timing!Stay, Taken, EmittingNow
    <3>2. Timing!Gather(FALSE)
      BY <2>1, <3>1 DEF Timing!Gather, EmittingNow, FieldsOf
    <3> QED
      BY <3>2 DEF Timing!Next, Timing!Clock
  <2>3. CASE Taken + 1 < 7 /\ Taken' = Taken + 1 /\ EmittingNow' = NoDatagram
    <3>1. Timing!More
      BY <2>3 DEF Timing!More, Timing!MaxBeats, Taken, EmittingNow
    <3>2. Timing!Gather(FALSE)
      BY <2>1, <3>1 DEF Timing!Gather, Timing!tready, EmittingNow, FieldsOf
    <3> QED
      BY <3>2 DEF Timing!Next, Timing!Clock
  <2>4. CASE Taken' = 0 /\ EmittingNow' = NoDatagram
    <3>1. Timing!Cut
      BY <2>4 DEF Timing!Cut, Taken, EmittingNow
    <3>2. Timing!Gather(FALSE)
      BY <2>1, <3>1 DEF Timing!Gather, Timing!tready, EmittingNow, FieldsOf
    <3> QED
      BY <3>2 DEF Timing!Next, Timing!Clock
  <2>5. ASSUME NEW m \in TimedMessages \cup {0}, TimedLast(m) PROVE Timing!Next
    <3>1. Timing!Last(m)
      BY <2>5 DEF Timing!Last, TimedLast, TimedBeats, Taken, EmittingNow
    <3>2. Timing!Gather(FALSE)
      BY <2>1, <3>1 DEF Timing!Gather, Timing!tready, TimedMessages, EmittingNow, FieldsOf
    <3> QED
      BY <3>2 DEF Timing!Next, Timing!Clock
  <2> QED
    BY <1>2, <2>2, <2>3, <2>4, <2>5 DEF TimedGather
<1> QED
  BY <1>1, <1>2

LEMMA TakenIs ==
  ASSUME NetInv, PipeInv
  PROVE  Taken \in Nat
BY DEF Taken, PipeInv, ParserTypes

LEMMA MessageOfBuffer ==
  ASSUME NEW n \in Numbers, NEW x, x = Byte(n, 2), Stream[n] \in Supported
  PROVE  KindOf(x) \in Supported /\ x[1] = n /\ n \in Nat /\ n # 0 /\ n # NoDatagram
<1>1. n \in Nat /\ n # 0 /\ n # NoDatagram
  BY MessageFacts, NothingAssumption
<1>2. 2 \in Nat
  OBVIOUS
<1>3. KindOf(x) = Stream[n]
  BY <1>2, ByteOfMessage
<1>4. x[1] = n
  BY <1>1, <1>2, ByteIs
<1> QED
  BY <1>1, <1>3, <1>4

LEMMA TimedApp ==
  ASSUME NetInv, PipeInv, NEW hold \in BOOLEAN, AppIdle(hold) \/ AppBeat(hold)
  PROVE  Timing!Next
<1>1. Waits \/ Emits \/ Loses \/ Grows \/ Completes
  BY PipeGivesStep
<1>2. Taken \in Nat /\ NoDatagram # 0
  BY TakenIs, NothingAssumption
<1>3. accepted' = accepted
  BY DEF AppIdle, AppBeat, AppTick, netVars
<1>4. CASE Waits
  <2>1. TimedGather
    BY <1>4 DEF Waits, TimedGather, Taken, EmittingNow, FieldsOf
  <2> QED
    BY <2>1, TimedSteps
<1>5. CASE Emits
  <2>1. Taken' = Taken /\ EmittingNow' = NoDatagram
    BY <1>5 DEF Emits, Taken, EmittingNow
  <2>2. CASE KindOf(msg_buf[0]) \notin Supported /\ fields' = Parser!BlankFields /\ fields_valid' = FALSE
    <3>1. EmittingNow = 0 /\ FieldsOf' = 0
      BY <1>5, <2>2 DEF Emits, EmittingNow, FieldsOf, Parser!BlankFields
    <3>2. fields_valid' = (EmittingNow # 0)
      BY <2>2, <3>1
    <3>3. TimedEmit
      BY <1>2, <2>1, <3>1, <3>2, Zenon DEF TimedEmit
    <3> QED
      BY <3>3, TimedSteps
  <2>3. ASSUME NEW d \in accepted, Emitting(d), fields'.kind = Stream[d.seq],
               fields'.bytes[11][1] = d.seq, fields_valid' = TRUE
        PROVE  Timing!Next
    <3>1. d.seq \in Numbers /\ Stream[d.seq] \in Supported /\ msg_buf[0] = Byte(d.seq, 2)
      BY <2>3, AcceptedIs DEF Emitting, Arrives
    <3>2. EmittingNow = d.seq /\ d.seq # 0 /\ d.seq # NoDatagram
      BY <1>5, <3>1, MessageOfBuffer DEF Emits, EmittingNow
    <3>3. FieldsOf' = d.seq
      BY <2>3, <3>1, SupportedIs DEF FieldsOf
    <3>4. fields_valid' = (EmittingNow # 0)
      BY <2>3, <3>2
    <3>5. TimedEmit
      BY <2>1, <3>2, <3>3, <3>4, Zenon DEF TimedEmit
    <3> QED
      BY <3>5, TimedSteps
  <2> QED
    BY <1>5, <2>2, <2>3 DEF Emits
<1>6. ASSUME Pops PROVE EmittingNow = NoDatagram /\ fields_valid' = FALSE /\ FieldsOf' = FieldsOf
  BY <1>6 DEF Pops, EmittingNow, FieldsOf
<1>7. CASE Loses
  <2>1. CASE parser_state' = "IDLE"
    <3>1. Taken' = 0 /\ EmittingNow' = NoDatagram
      BY <2>1 DEF Taken, EmittingNow
    <3>2. TimedGather
      BY <1>6, <1>7, <3>1 DEF TimedGather, Loses
    <3> QED
      BY <3>2, TimedSteps
  <2>2. CASE parser_state' = "EMIT" /\ KindOf(msg_buf'[0]) \notin Supported
    <3>1. Taken' = 0 /\ EmittingNow' = 0
      BY <2>2 DEF Taken, EmittingNow
    <3>2. TimedLast(0)
      BY <1>2, <3>1 DEF TimedLast
    <3>3. TimedGather
      BY <1>6, <1>7, <3>2 DEF TimedGather, Loses
    <3> QED
      BY <3>3, TimedSteps
  <2> QED
    BY <1>7, <2>1, <2>2 DEF Loses
<1>8. CASE Grows
  <2>1. PICK d \in accepted, o \in Nat :
          /\ Sendable(d, o) /\ (Gathering(d))' /\ o = (IF parser_state = "IDLE" THEN 0 ELSE byte_cnt + 2)
          /\ byte_cnt' = o + 6
    BY <1>8 DEF Grows
  <2>2. parser_state' = "ACCUMULATE" /\ parser_state # "EMIT" /\ parser_state \in {"IDLE", "ACCUMULATE", "EMIT"}
    BY <1>8 DEF Grows, Pops, PipeInv, ParserTypes
  <2>3. o % 8 = 0 /\ o + 6 < 54
    <3>1. byte_cnt' < BodyLength[Stream[d.seq]]
      BY <2>1 DEF Gathering
    <3>2. BodyLength[Stream[d.seq]] \in Nat /\ BodyLength[Stream[d.seq]] <= 54
      BY AcceptedIs, MessageFacts
    <3>3. o % 8 = 0
      BY <2>1 DEF Sendable
    <3> QED
      BY <2>1, <3>1, <3>2, <3>3
  <2>4. PICK g \in Nat : o = 8 * g
    <3>1. o = 8 * (o \div 8) /\ o \div 8 \in Nat
      BY <2>3
    <3> QED
      BY <3>1, Zenon
  <2>5. Taken = g
    <3>1. CASE parser_state = "IDLE"
      BY <2>1, <2>4, <3>1 DEF Taken
    <3>2. CASE parser_state = "ACCUMULATE"
      <4>1. byte_cnt + 2 = 8 * g
        BY <2>1, <2>4, <3>2
      <4>2. (8 * g) \div 8 = g
        OBVIOUS
      <4> QED
        BY <3>2, <4>1, <4>2, Zenon DEF Taken
    <3> QED
      BY <2>2, <3>1, <3>2
  <2>6. Taken' = g + 1 /\ EmittingNow' = NoDatagram
    <3>1. byte_cnt' + 2 = 8 * (g + 1)
      BY <2>1, <2>4
    <3>2. (8 * (g + 1)) \div 8 = g + 1
      OBVIOUS
    <3> QED
      BY <2>2, <3>1, <3>2, Zenon DEF Taken, EmittingNow
  <2>7. g + 1 < 7
    BY <2>3, <2>4
  <2>8. Taken + 1 < 7 /\ Taken' = Taken + 1 /\ EmittingNow' = NoDatagram
    BY <2>5, <2>6, <2>7, Zenon
  <2>9. TimedGather
    BY <1>6, <1>8, <2>8, Zenon DEF TimedGather, Grows
  <2> QED
    BY <2>9, TimedSteps
<1>9. CASE Completes
  <2>1. PICK d \in accepted : (Emitting(d))' /\ byte_cnt + 2 = LastOffset(d.seq)
    BY <1>9 DEF Completes
  <2>2. d.seq \in Numbers /\ Stream[d.seq] \in Supported /\ msg_buf'[0] = Byte(d.seq, 2)
    BY <2>1, AcceptedIs DEF Emitting, Arrives
  <2>3. parser_state = "ACCUMULATE" /\ parser_state' = "EMIT"
    BY <1>9 DEF Completes
  <2>4. EmittingNow' = d.seq /\ d.seq # 0
    BY <2>2, <2>3, MessageOfBuffer DEF EmittingNow
  <2>5. PICK f \in Nat : f = BeatsOf(Stream[d.seq])
    BY <2>2, BeatsOfIs
  <2>6. Taken + 1 = f
    <3>1. byte_cnt + 2 = 8 * (f - 1)
      BY <2>1, <2>5 DEF LastOffset
    <3>2. (8 * (f - 1)) \div 8 = f - 1
      OBVIOUS
    <3>3. Taken = f - 1
      BY <2>3, <3>1, <3>2, Zenon DEF Taken
    <3> QED
      BY <3>3
  <2>7. Taken' = 0
    BY <2>3 DEF Taken
  <2>8. TimedLast(d.seq) /\ d.seq \in TimedMessages
    BY <2>2, <2>4, <2>5, <2>6, <2>7 DEF TimedLast, TimedBeats, TimedMessages
  <2>9. TimedGather
    BY <1>6, <1>9, <2>8 DEF TimedGather, Completes
  <2> QED
    BY <2>9, TimedSteps
<1> QED
  BY <1>1, <1>4, <1>5, <1>7, <1>8, <1>9

LEMMA TimedStutter ==
  ASSUME UNCHANGED parserVars
  PROVE  UNCHANGED TimedVars
BY DEF parserVars, TimedVars, Taken, EmittingNow, FieldsOf

\* The parser the way in is composed with is the one the order path is: for every
\* stream of datagrams it keeps the timing of ParserTiming, whose beats LliuFeed
\* plays to the order path.
THEOREM TimingIsKept == Spec => ParserTimed
<1>1. ASSUME Init PROVE Timing!Init
  BY <1>1 DEF Init, Parser!Init, Timing!Init, Parser!BlankFields
<1>2. ASSUME NetInv, PipeInv, [Next]_vars PROVE [Timing!Next]_TimedVars
  <2>1. CASE (\E d \in Datagrams : Arrive(d)) \/ NetIdle \/ NetBeat \/ UNCHANGED vars
    <3>1. UNCHANGED parserVars
      BY <2>1 DEF Arrive, NetIdle, NetBeat, NetTick, vars
    <3> QED
      BY <3>1, TimedStutter
  <2>2. ASSUME NEW hold \in BOOLEAN, AppIdle(hold) \/ AppBeat(hold) PROVE Timing!Next
    BY <1>2, <2>2, TimedApp
  <2>3. CASE Reset
    <3>1. Parser!Reset
      BY <2>3 DEF Reset
    <3>2. Timing!Reset
      BY <3>1 DEF Parser!Reset, Timing!Reset, Parser!BlankFields
    <3> QED
      BY <3>2 DEF Timing!Next
  <2> QED
    BY <1>2, <2>1, <2>2, <2>3 DEF Next
<1>3. [Timing!Next]_TimedVars =>
        [Timing!Next]_<<IF parser_state = "ACCUMULATE" THEN (byte_cnt + 2) \div 8 ELSE 0,
                        IF parser_state # "EMIT" THEN NoDatagram
                        ELSE IF KindOf(msg_buf[0]) \in Supported THEN msg_buf[0][1] ELSE 0,
                        IF fields.kind = NoKind THEN 0 ELSE fields.bytes[11][1], fields_valid>>
  BY DEF TimedVars, Taken, EmittingNow, FieldsOf
<1> QED
  BY <1>1, <1>2, <1>3, PipeInvAlways, PTL DEF Spec, ParserTimed, Timing!Spec

-----------------------------------------------------------------------------
(* The order of the messages, all the way.                                 *)

\* Message n, its beats all sent if done, comes before what is numbered m.
Before(n, done, m) == n < m \/ (n = m /\ ~done)
ParserHas == parser_state = "ACCUMULATE" \/ (parser_state = "EMIT" /\ KindOf(msg_buf[0]) \in Supported)
ParserNumber == msg_buf[0][1]

\* Number m may come behind the parser.
Coming(m) ==
  /\ \A k \in 1 .. Len(emitted) : emitted[k] < m
  /\ ParserHas => Before(ParserNumber, parser_state = "EMIT", m)
Increasing(q) == \A i, j \in 1 .. Len(q) : i < j => q[i] < q[j]

Ordered ==
  /\ emitted \in Seq(Numbers) /\ Increasing(emitted)
  /\ ParserHas => /\ ParserNumber \in Nat
                  /\ \A k \in 1 .. Len(emitted) : emitted[k] < ParserNumber
  /\ Coming(StripNumber)
  /\ \A i \in 1 .. Len(fifo) : fifo[i] # Empty =>
       Before(Number(fifo[i]), fifo[i].last, StripNumber) /\ Coming(Number(fifo[i]))
  /\ \A i, j \in 1 .. Len(fifo) : i < j /\ fifo[i] # Empty /\ fifo[j] # Empty =>
       Before(Number(fifo[i]), fifo[i].last, Number(fifo[j]))

LEMMA BeforeLater ==
  ASSUME NEW n \in Nat, NEW m \in Nat, NEW l \in Nat, NEW done, Before(n, done, m), m <= l
  PROVE  Before(n, done, l)
BY DEF Before

LEMMA BeatNumbers ==
  ASSUME NetInv, PipeInv, NEW i \in 1 .. Len(fifo), fifo[i] # Empty
  PROVE  Number(fifo[i]) \in Nat
BY NumberOfBeat DEF PipeInv, AllOk

LEMMA ComingLater ==
  ASSUME Ordered, NEW m \in Nat, NEW l \in Nat, Coming(m), m <= l
  PROVE  Coming(l)
<1>1. ASSUME NEW k \in 1 .. Len(emitted) PROVE emitted[k] < l
  <2>1. emitted[k] \in Numbers /\ emitted[k] < m
    BY ElementOfSeq DEF Ordered, Coming
  <2>2. emitted[k] \in Nat
    BY <2>1, MessageFacts
  <2> QED
    BY <2>1, <2>2
<1>2. ParserHas => Before(ParserNumber, parser_state = "EMIT", l)
  BY BeforeLater DEF Ordered, Coming
<1> QED
  BY <1>1, <1>2 DEF Coming

LEMMA OrderNet ==
  ASSUME NetInv, PipeInv, Ordered, NetIdle \/ NetBeat
  PROVE  Ordered'
<1>1. /\ StripNumber \in Nat /\ StripNumber' \in Nat /\ StripNumber <= StripNumber'
      /\ SendsNothing \/ SendsOne
  BY NetSends
<1>2. UNCHANGED <<parser_state, msg_buf, emitted>>
  BY DEF NetIdle, NetBeat, NetTick, parserVars
<1>3. /\ ParserHas' = ParserHas /\ ParserNumber' = ParserNumber
      /\ \A m : (Coming(m))' <=> Coming(m)
  BY <1>2 DEF ParserHas, ParserNumber, Coming
<1>4. PICK n, l : n = StripNumber /\ l = StripNumber'
  OBVIOUS
<1>5. Coming(l)
  BY <1>1, <1>4, ComingLater DEF Ordered
<1>6. emitted' \in Seq(Numbers) /\ Increasing(emitted') /\ (Coming(l))'
      /\ (ParserHas' => ParserNumber' \in Nat /\ \A k \in 1 .. Len(emitted') : emitted'[k] < ParserNumber')
  BY <1>2, <1>3, <1>5 DEF Ordered
<1>7. \A i \in 1 .. Len(fifo) : fifo[i] # Empty =>
        /\ Before(Number(fifo[i]), fifo[i].last, n) /\ Before(Number(fifo[i]), fifo[i].last, l)
        /\ Coming(Number(fifo[i]))
  <2>1. ASSUME NEW i \in 1 .. Len(fifo), fifo[i] # Empty
        PROVE  /\ Before(Number(fifo[i]), fifo[i].last, n) /\ Before(Number(fifo[i]), fifo[i].last, l)
               /\ Coming(Number(fifo[i]))
    <3>1. Number(fifo[i]) \in Nat
      BY <2>1, BeatNumbers
    <3>2. Before(Number(fifo[i]), fifo[i].last, n) /\ Coming(Number(fifo[i]))
      BY <1>4, <2>1 DEF Ordered
    <3>3. Before(Number(fifo[i]), fifo[i].last, l)
      BY <1>1, <1>4, <3>1, <3>2, BeforeLater
    <3> QED
      BY <3>2, <3>3
  <2> QED
    BY <2>1
<1>8. CASE SendsNothing
  BY <1>3, <1>4, <1>6, <1>7, <1>8 DEF SendsNothing, Ordered
<1>9. CASE SendsOne
  <2>1. PICK b \in Beats : /\ fifo' = Append(fifo, b)
                           /\ b # Empty => Number(b) = n /\ (b.last => l > n)
    BY <1>4, <1>9 DEF SendsOne
  <2>2. PICK q, r : q \in Seq(Beats) /\ q = fifo /\ r = Append(q, b)
    BY DEF NetInv, Types
  <2>3. PICK s \in Nat : s = Len(q)
    BY LenProperties
  <2>4. /\ Len(r) = s + 1 /\ r[s + 1] = b
        /\ \A i \in 1 .. s : r[i] = q[i]
        /\ \A i \in 1 .. s + 1 : i \in 1 .. s \/ i = s + 1
    BY <2>2, <2>3, AppendIs
  <2>5. ASSUME NEW i \in 1 .. s + 1, r[i] # Empty
        PROVE  Before(Number(r[i]), r[i].last, l) /\ Coming(Number(r[i]))
    <3>1. CASE i \in 1 .. s
      BY <1>7, <2>2, <2>3, <2>4, <2>5, <3>1
    <3>2. CASE i = s + 1
      <4>1. r[i] = b /\ Number(b) = n /\ (b.last => l > n)
        BY <2>1, <2>4, <2>5, <3>2
      <4>2. Before(n, b.last, l)
        BY <1>1, <1>4, <4>1 DEF Before
      <4> QED
        BY <1>4, <4>1, <4>2 DEF Ordered
    <3> QED
      BY <2>4, <3>1, <3>2
  <2>6. ASSUME NEW i \in 1 .. s + 1, NEW j \in 1 .. s + 1, i < j, r[i] # Empty, r[j] # Empty
        PROVE  Before(Number(r[i]), r[i].last, Number(r[j]))
    <3>1. i \in 1 .. s /\ r[i] = q[i]
      BY <2>3, <2>4, <2>6
    <3>2. CASE j \in 1 .. s
      BY <2>2, <2>3, <2>4, <2>6, <3>1, <3>2 DEF Ordered
    <3>3. CASE j = s + 1
      <4>1. r[j] = b /\ Number(b) = n
        BY <2>1, <2>4, <2>6, <3>3
      <4>2. Before(Number(q[i]), q[i].last, n)
        BY <1>7, <2>2, <2>3, <2>6, <3>1
      <4> QED
        BY <3>1, <4>1, <4>2
    <3> QED
      BY <2>4, <3>2, <3>3
  <2>7. fifo' = r /\ Len(fifo') = s + 1
    BY <2>1, <2>2, <2>4
  <2> QED
    BY <1>3, <1>4, <1>6, <2>5, <2>6, <2>7 DEF Ordered
<1> QED
  BY <1>1, <1>8, <1>9

\* What stays behind the head of the FIFO when the parser takes it.
LEMMA OrderPops ==
  ASSUME NetInv, PipeInv, Ordered, Pops, StripNumber' = StripNumber,
         ParserHas' => /\ Head(fifo) # Empty /\ ParserNumber' = Number(Head(fifo))
                       /\ (parser_state' = "EMIT") = Head(fifo).last
  PROVE  Ordered'
<1>1. PICK q, r, b, n : q \in Seq(Beats) /\ q = fifo /\ r = Tail(q) /\ b = Head(q) /\ n = StripNumber
  BY DEF NetInv, Types
<1>2. q # << >> /\ fifo' = r /\ emitted' = emitted
  BY <1>1 DEF Pops
<1>3. PICK s \in Nat : s = Len(q)
  BY <1>1, LenProperties
<1>4. /\ s >= 1 /\ b = q[1] /\ Len(r) = s - 1
      /\ \A i \in 1 .. Len(r), j \in 1 .. s : j = i + 1 => r[i] = q[j]
  BY <1>1, <1>2, <1>3, TailIs
<1>5. 1 \in 1 .. s
  BY <1>4
<1>6. ASSUME ParserHas'
      PROVE  /\ ParserNumber' \in Nat /\ ParserNumber' = Number(b) /\ b # Empty
             /\ \A k \in 1 .. Len(emitted) : emitted[k] < Number(b)
             /\ Before(Number(b), b.last, n) /\ (parser_state' = "EMIT") = b.last
  <2>1. b # Empty /\ ParserNumber' = Number(b) /\ (parser_state' = "EMIT") = b.last
    BY <1>1, <1>6
  <2>2. Number(b) \in Nat
    BY <1>1, <1>3, <1>4, <1>5, <2>1, BeatNumbers
  <2>3. Before(Number(b), b.last, n) /\ Coming(Number(b))
    BY <1>1, <1>3, <1>4, <1>5, <2>1 DEF Ordered
  <2> QED
    BY <2>1, <2>2, <2>3 DEF Coming
<1>7. (Coming(n))'
  BY <1>1, <1>2, <1>6 DEF Ordered, Coming
<1>8. ASSUME NEW i \in 1 .. Len(r), r[i] # Empty
      PROVE  Before(Number(r[i]), r[i].last, n) /\ (Coming(Number(r[i])))'
  <2>1. PICK j \in 1 .. s : j = i + 1
    BY <1>4
  <2>2. PICK c : c = r[i]
    OBVIOUS
  <2>3. c = q[j] /\ j > 1 /\ c # Empty
    BY <1>4, <1>8, <2>1, <2>2
  <2>4. Before(Number(c), c.last, n) /\ Coming(Number(c))
    BY <1>1, <1>3, <2>3 DEF Ordered
  <2>5. b # Empty => Before(Number(b), b.last, Number(c))
    BY <1>1, <1>3, <1>4, <1>5, <2>3 DEF Ordered
  <2>6. ASSUME ParserHas' PROVE Before(ParserNumber', parser_state' = "EMIT", Number(c))
    BY <1>6, <2>5, <2>6, Zenon
  <2>7. PICK m : m = Number(c)
    OBVIOUS
  <2>8. (Coming(m))'
    BY <1>2, <2>4, <2>6, <2>7 DEF Coming
  <2> QED
    BY <1>2, <2>2, <2>4, <2>7, <2>8, Zenon
<1>9. ASSUME NEW i \in 1 .. Len(r), NEW j \in 1 .. Len(r), i < j, r[i] # Empty, r[j] # Empty
      PROVE  Before(Number(r[i]), r[i].last, Number(r[j]))
  <2>1. PICK k \in 1 .. s, l \in 1 .. s : k = i + 1 /\ l = j + 1
    BY <1>4
  <2>2. r[i] = q[k] /\ r[j] = q[l] /\ k < l
    BY <1>4, <1>9, <2>1
  <2> QED
    BY <1>1, <1>3, <1>9, <2>2 DEF Ordered
<1>10. emitted' \in Seq(Numbers) /\ Increasing(emitted')
       /\ (ParserHas' => ParserNumber' \in Nat /\ \A k \in 1 .. Len(emitted') : emitted'[k] < ParserNumber')
  BY <1>2, <1>6 DEF Ordered
<1> QED
  BY <1>1, <1>2, <1>7, <1>8, <1>9, <1>10 DEF Ordered

\* The number of the message in the buffer.
LEMMA BufferNumber ==
  ASSUME NEW n \in Nat, NEW x, x = Byte(n, 2)
  PROVE  x[1] = n
BY ByteIs, 2 \in Nat

LEMMA EmittedAppend ==
  ASSUME NEW q \in Seq(Numbers), Increasing(q), NEW n \in Numbers,
         \A k \in 1 .. Len(q) : q[k] < n
  PROVE  /\ Append(q, n) \in Seq(Numbers) /\ Increasing(Append(q, n))
         /\ Len(Append(q, n)) = Len(q) + 1 /\ Append(q, n)[Len(q) + 1] = n
         /\ \A k \in 1 .. Len(q) : Append(q, n)[k] = q[k]
         /\ \A k \in 1 .. Len(Append(q, n)) : k \in 1 .. Len(q) \/ k = Len(q) + 1
<1>1. PICK s, r : s \in Nat /\ s = Len(q) /\ r = Append(q, n)
  BY LenProperties
<1>2. /\ r \in Seq(Numbers) /\ Len(r) = s + 1 /\ r[s + 1] = n
      /\ \A k \in 1 .. s : r[k] = q[k]
  BY <1>1, AppendProperties
<1>3. \A k \in 1 .. s + 1 : k \in 1 .. s \/ k = s + 1
  BY <1>1
<1>4. ASSUME NEW i \in 1 .. s + 1, NEW j \in 1 .. s + 1, i < j PROVE r[i] < r[j]
  <2>1. i \in 1 .. s /\ r[i] = q[i]
    BY <1>1, <1>2, <1>4
  <2>2. CASE j \in 1 .. s
    BY <1>1, <1>2, <1>4, <2>1, <2>2 DEF Increasing
  <2>3. CASE j = s + 1
    BY <1>1, <1>2, <2>1, <2>3
  <2> QED
    BY <1>3, <2>2, <2>3
<1> QED
  BY <1>1, <1>2, <1>3, <1>4 DEF Increasing

LEMMA OrderEmits ==
  ASSUME NetInv, PipeInv, Ordered, Emits, StripNumber' = StripNumber
  PROVE  Ordered'
<1>1. ~ParserHas' /\ fifo' = fifo
  BY DEF Emits, ParserHas
<1>2. CASE emitted' = emitted
  <2>1. \A m : Coming(m) => (Coming(m))'
    BY <1>1, <1>2 DEF Coming
  <2>2. \A i \in 1 .. Len(fifo) : fifo[i] # Empty => (Coming(Number(fifo[i])))'
    BY <1>1, <2>1 DEF Ordered
  <2>3. PICK n : n = StripNumber
    OBVIOUS
  <2>4. (Coming(n))'
    BY <2>1, <2>3 DEF Ordered
  <2> QED
    BY <1>1, <1>2, <2>2, <2>3, <2>4 DEF Ordered
<1>3. ASSUME NEW d \in accepted, Emitting(d), emitted' = Append(emitted, d.seq),
             KindOf(msg_buf[0]) \in Supported
      PROVE  Ordered'
  <2>1. d.seq \in Numbers /\ d.seq \in Nat
    BY AcceptedIs
  <2>2. ParserHas /\ ParserNumber = d.seq /\ parser_state = "EMIT"
    BY <1>3, <2>1, BufferNumber DEF Emits, ParserHas, ParserNumber, Emitting
  <2>3. PICK q, r, s : q = emitted /\ r = Append(q, d.seq) /\ s = Len(q)
    OBVIOUS
  <2>4. q \in Seq(Numbers) /\ Increasing(q) /\ \A k \in 1 .. Len(q) : q[k] < d.seq
    BY <2>2, <2>3 DEF Ordered
  <2>5. /\ r \in Seq(Numbers) /\ Increasing(r) /\ r[s + 1] = d.seq
        /\ \A k \in 1 .. s : r[k] = q[k]
        /\ \A k \in 1 .. Len(r) : k \in 1 .. s \/ k = s + 1
    BY <2>1, <2>3, <2>4, EmittedAppend
  <2>6. emitted' = r
    BY <1>3, <2>3
  <2>7. ASSUME NEW m \in Nat, Coming(m) PROVE (Coming(m))'
    <3>1. d.seq < m
      BY <2>2, <2>7 DEF Coming, Before
    <3>2. ASSUME NEW k \in 1 .. Len(r) PROVE r[k] < m
      <4>1. CASE k \in 1 .. s
        BY <2>3, <2>5, <2>7, <4>1 DEF Coming
      <4>2. CASE k = s + 1
        BY <2>5, <3>1, <4>2
      <4> QED
        BY <2>5, <4>1, <4>2
    <3> QED
      BY <1>1, <2>6, <3>2 DEF Coming
  <2>8. PICK n \in Nat : n = StripNumber
    BY DEF StripNumber, NetInv, Types
  <2>9. (Coming(n))'
    BY <2>7, <2>8 DEF Ordered
  <2>10. ASSUME NEW i \in 1 .. Len(fifo), fifo[i] # Empty PROVE (Coming(Number(fifo[i])))'
    <3>1. PICK m \in Nat : m = Number(fifo[i])
      BY <2>10, BeatNumbers
    <3>2. Coming(m)
      BY <2>10, <3>1 DEF Ordered
    <3>3. (Coming(m))'
      BY <2>7, <3>2
    <3>4. Number(fifo'[i]) = m
      BY <1>1, <3>1
    <3> QED
      BY <1>1, <3>1, <3>3, Zenon
  <2> QED
    BY <1>1, <2>5, <2>6, <2>8, <2>9, <2>10 DEF Ordered
<1>4. KindOf(msg_buf[0]) \in Supported \/ emitted' = emitted
  <2>1. ASSUME NEW d \in accepted, Emitting(d) PROVE KindOf(msg_buf[0]) \in Supported
    BY <2>1, AcceptedIs, MessageOfBuffer DEF Emitting, Arrives
  <2> QED
    BY <2>1 DEF Emits
<1> QED
  BY <1>2, <1>3, <1>4 DEF Emits

LEMMA OrderApp ==
  ASSUME NetInv, PipeInv, Ordered, NEW hold \in BOOLEAN, AppIdle(hold) \/ AppBeat(hold)
  PROVE  Ordered'
<1>1. Waits \/ Emits \/ Loses \/ Grows \/ Completes
  BY PipeGivesStep
<1>2. StripNumber' = StripNumber /\ accepted' = accepted
  BY DEF AppIdle, AppBeat, AppTick, stripVars, netVars, StripNumber
<1>3. CASE Waits
  <2>1. UNCHANGED <<parser_state, msg_buf, emitted, fifo>>
    BY <1>3 DEF Waits
  <2> QED
    BY <1>2, <2>1 DEF Ordered, Coming, ParserHas, ParserNumber
<1>4. CASE Emits
  BY <1>2, <1>4, OrderEmits
<1>5. CASE Loses
  <2>1. Pops /\ ~ParserHas'
    BY <1>5 DEF Loses, ParserHas
  <2> QED
    BY <1>2, <2>1, OrderPops
<1>6. CASE Grows
  <2>1. PICK d \in accepted, o \in Nat : Sendable(d, o) /\ Head(fifo) = Out(d, o) /\ (Gathering(d))'
    BY <1>6 DEF Grows
  <2>2. d \in Datagrams /\ d.seq \in Nat
    BY AcceptedIs
  <2>3. Head(fifo) # Empty /\ Number(Head(fifo)) = d.seq
    BY <2>1, <2>2, OutFacts
  <2>4. ParserNumber' = d.seq
    BY <2>1, <2>2, BufferNumber DEF Gathering, ParserNumber
  <2>5. Pops /\ (parser_state' = "EMIT") = Head(fifo).last
    <3>1. Pops /\ ~Head(fifo).last /\ parser_state' = "ACCUMULATE"
      BY <1>6 DEF Grows
    <3>2. Head(fifo).last \in BOOLEAN
      BY <3>1, TailIs DEF Pops, NetInv, Types, Beats
    <3> QED
      BY <3>1, <3>2
  <2> QED
    BY <1>2, <2>3, <2>4, <2>5, OrderPops
<1>7. CASE Completes
  <2>1. PICK d \in accepted : IsLast(Head(fifo), d) /\ (Emitting(d))'
    BY <1>7 DEF Completes
  <2>2. d \in Datagrams /\ d.count = 1 /\ d.seq \in Nat /\ Arrives(d)
    BY <2>1, AcceptedIs DEF Emitting
  <2>3. Head(fifo) # Empty /\ Number(Head(fifo)) = d.seq
    BY <2>1, <2>2, ArrivesIs, OutFacts DEF IsLast
  <2>4. ParserNumber' = d.seq
    BY <2>1, <2>2, BufferNumber DEF Emitting, ParserNumber
  <2>5. Pops /\ (parser_state' = "EMIT") = Head(fifo).last
    <3>1. Pops /\ Head(fifo).last /\ parser_state' = "EMIT"
      BY <1>7 DEF Completes
    <3>2. Head(fifo).last \in BOOLEAN
      BY <3>1, TailIs DEF Pops, NetInv, Types, Beats
    <3> QED
      BY <3>1, <3>2
  <2> QED
    BY <1>2, <2>3, <2>4, <2>5, OrderPops
<1> QED
  BY <1>1, <1>3, <1>4, <1>5, <1>6, <1>7

LEMMA OrderStart ==
  ASSUME NEW f, f = << >>
  PROVE  f \in Seq(Numbers) /\ Increasing(f) /\ \A i : i \notin 1 .. Len(f)
BY DEF Increasing

LEMMA OrderInductive ==
  /\ Init => Ordered
  /\ NetInv /\ PipeInv /\ Ordered /\ [Next]_vars => Ordered'
<1>1. ASSUME Init PROVE Ordered
  <2>1. fifo = << >> /\ emitted = << >> /\ parser_state = "IDLE"
    BY <1>1 DEF Init, Parser!Init
  <2>2. ~ParserHas
    BY <2>1 DEF ParserHas
  <2>3. Coming(StripNumber)
    BY <2>1, <2>2, OrderStart DEF Coming
  <2> QED
    BY <2>1, <2>2, <2>3, OrderStart DEF Ordered
<1>2. ASSUME NetInv, PipeInv, Ordered, [Next]_vars PROVE Ordered'
  <2>1. CASE (\E d \in Datagrams : Arrive(d)) \/ UNCHANGED vars
    <3>1. UNCHANGED <<state, stage, expected_seq_num, fifo, parser_state, msg_buf, emitted>>
      BY <2>1 DEF Arrive, vars, stripVars, parserVars
    <3> QED
      BY <1>2, <3>1 DEF Ordered, Coming, ParserHas, ParserNumber, StripNumber
  <2>2. CASE NetIdle \/ NetBeat
    BY <1>2, <2>2, OrderNet
  <2>3. ASSUME NEW hold \in BOOLEAN, AppIdle(hold) \/ AppBeat(hold) PROVE Ordered'
    BY <1>2, <2>3, OrderApp
  <2>4. CASE Reset
    <3>1. fifo' = << >> /\ emitted' = << >> /\ parser_state' = "IDLE"
      BY <2>4 DEF Reset, Parser!Reset
    <3>2. ~ParserHas'
      BY <3>1 DEF ParserHas
    <3>3. (Coming(StripNumber))'
      BY <3>1, <3>2, OrderStart DEF Coming
    <3> QED
      BY <3>1, <3>2, <3>3, OrderStart DEF Ordered
  <2> QED
    BY <1>2, <2>1, <2>2, <2>3, <2>4 DEF Next
<1> QED
  BY <1>1, <1>2

-----------------------------------------------------------------------------
(* No message is lost inside.                                              *)

OnItsWay(d) ==
  \/ state = "PAYLOAD" /\ dgram = d
  \/ \E i \in 1 .. Len(fifo) : IsLast(fifo[i], d)
  \/ parser_state = "EMIT" /\ msg_buf[0] = Byte(d.seq, 2)
IsOut(d) == \E k \in 1 .. Len(emitted) : emitted[k] = d.seq
Accounted ==
  /\ \A k \in 1 .. Len(emitted) : \E d \in accepted : Arrives(d) /\ d.seq = emitted[k]
  /\ \A d \in accepted : Arrives(d) => OnItsWay(d) \/ IsOut(d)

LEMMA NetAccounts ==
  ASSUME NetInv, NetIdle \/ NetBeat, NEW d \in accepted', Arrives(d),
         d \in accepted => OnItsWay(d) \/ IsOut(d)
  PROVE  (OnItsWay(d))' \/ (IsOut(d))'
<1> USE DEF NetInv
<1>1. Still \/ Ahead \/ Accepts \/ Sends \/ Flushes
  BY NetStep
<1>2. UNCHANGED <<parser_state, msg_buf, emitted>>
  BY DEF NetIdle, NetBeat, NetTick, parserVars
<1>3. SendsNothing \/ SendsOne
  BY NetSends
<1>4. ASSUME NEW i \in 1 .. Len(fifo), IsLast(fifo[i], d) PROVE \E j \in 1 .. Len(fifo') : IsLast(fifo'[j], d)
  <2>1. CASE fifo' = fifo
    BY <1>4, <2>1
  <2>2. ASSUME NEW b \in Beats, fifo' = Append(fifo, b) PROVE \E j \in 1 .. Len(fifo') : IsLast(fifo'[j], d)
    <3>1. PICK q, r : q \in Seq(Beats) /\ q = fifo /\ r = Append(q, b)
      BY DEF Types
    <3>2. Len(q) \in Nat /\ Len(r) = Len(q) + 1 /\ r[i] = q[i]
      BY <3>1, AppendIs
    <3>3. i \in 1 .. Len(r)
      BY <3>1, <3>2
    <3> QED
      BY <1>4, <2>2, <3>1, <3>2, <3>3
  <2> QED
    BY <1>3, <2>1, <2>2 DEF SendsNothing, SendsOne
<1>5. CASE d \in accepted /\ ~(state = "PAYLOAD" /\ dgram = d)
  BY <1>2, <1>4, <1>5 DEF OnItsWay, IsOut
<1>6. CASE d \in accepted /\ state = "PAYLOAD" /\ dgram = d
  <2>1. CASE Still
    BY <1>6, <2>1 DEF Still, OnItsWay
  <2>2. CASE Sends
    <3>1. CASE ~(dgram.len <= at + 8)
      BY <1>6, <2>2, <3>1 DEF Sends, OnItsWay
    <3>2. CASE dgram.len <= at + 8
      <4>1. d \in Datagrams /\ d.count = 1 /\ d.len \in Nat
        BY <1>6, AcceptedIs
      <4>2. PICK x : x = LastOffset(d.seq)
        OBVIOUS
      <4>3. x \in Nat /\ x % 8 = 0 /\ x + 24 < d.len /\ d.len <= x + 28 /\ Sendable(d, x)
        BY <4>1, <4>2, ArrivesIs
      <4>4. at \in Nat /\ at % 8 = 0 /\ at < d.len /\ d.len <= at + 8
        BY <1>6, <3>2 DEF Types, StripPlace
      <4>5. at - 24 = x
        BY <4>1, <4>3, <4>4
      <4>6. PICK q, b, r : q \in Seq(Beats) /\ q = fifo /\ b = Out(d, x) /\ r = Append(q, b)
        BY DEF Types
      <4>7. fifo' = r /\ b \in Beats
        BY <1>6, <2>2, <4>1, <4>3, <4>5, <4>6, OutFacts DEF Sends
      <4>8. Len(q) \in Nat /\ Len(r) = Len(q) + 1 /\ r[Len(q) + 1] = b
        BY <4>6, <4>7, AppendIs
      <4>9. Len(q) + 1 \in 1 .. Len(r)
        BY <4>8
      <4>10. IsLast(b, d)
        BY <4>2, <4>6 DEF IsLast
      <4> QED
        BY <4>7, <4>8, <4>9, <4>10, Zenon DEF OnItsWay
    <3> QED
      BY <3>1, <3>2
  <2> QED
    BY <1>1, <1>6, <2>1, <2>2 DEF Ahead, Skipping, Accepts, Flushes
<1>7. CASE d \notin accepted
  <2>1. Accepts /\ d = dgram
    BY <1>1, <1>7 DEF Still, Ahead, Accepts, Sends, Flushes
  <2>2. d \in Datagrams /\ d.count = 1
    BY <1>7, <2>1 DEF Accepts
  <2>3. d.len > 24
    <3>1. d.len \in Nat /\ LastOffset(d.seq) + 24 < d.len /\ LastOffset(d.seq) \in Nat
      BY <2>2, ArrivesIs, DatagramFacts DEF Dgram
    <3> QED
      BY <3>1
  <2> QED
    BY <2>1, <2>3 DEF Accepts, OnItsWay
<1> QED
  BY <1>5, <1>6, <1>7

LEMMA OutStays ==
  ASSUME Ordered, NEW d, IsOut(d),
         emitted' = emitted \/ \E n \in Numbers : emitted' = Append(emitted, n)
  PROVE  (IsOut(d))'
<1>1. PICK q, k : q = emitted /\ k \in 1 .. Len(q) /\ q[k] = d.seq
  BY DEF IsOut
<1>2. q \in Seq(Numbers)
  BY <1>1 DEF Ordered
<1>3. CASE emitted' = emitted
  BY <1>3 DEF IsOut
<1>4. ASSUME NEW n \in Numbers, emitted' = Append(emitted, n) PROVE (IsOut(d))'
  <2>1. PICK r : r = Append(q, n)
    OBVIOUS
  <2>2. Len(q) \in Nat /\ Len(r) = Len(q) + 1 /\ r[k] = q[k]
    BY <1>1, <1>2, <2>1, LenProperties, AppendProperties
  <2>3. k \in 1 .. Len(r)
    BY <1>1, <2>2
  <2> QED
    BY <1>1, <1>4, <2>1, <2>2, <2>3 DEF IsOut
<1> QED
  BY <1>3, <1>4

LEMMA AppAccounts ==
  ASSUME NetInv, PipeInv, Ordered, NEW hold \in BOOLEAN, AppIdle(hold) \/ AppBeat(hold),
         NEW d \in accepted, Arrives(d), OnItsWay(d) \/ IsOut(d)
  PROVE  (OnItsWay(d))' \/ (IsOut(d))'
<1>1. Waits \/ Emits \/ Loses \/ Grows \/ Completes
  BY PipeGivesStep
<1>2. state' = state /\ dgram' = dgram
  BY DEF AppIdle, AppBeat, AppTick, stripVars, netVars
<1>3. d \in Datagrams /\ d.count = 1 /\ d.seq \in Numbers /\ d.seq \in Nat /\ d.len \in Nat
  BY AcceptedIs
<1>4. Stream[d.seq] \in Supported
  BY DEF Arrives
<1>5. emitted' = emitted \/ \E n \in Numbers : emitted' = Append(emitted, n)
  <2>1. ASSUME NEW e \in accepted PROVE e.seq \in Numbers
    BY AcceptedIs
  <2> QED
    BY <1>1, <2>1 DEF Waits, Emits, Loses, Grows, Completes, Pops
<1>6. CASE IsOut(d)
  BY <1>5, <1>6, OutStays
<1>7. CASE state = "PAYLOAD" /\ dgram = d
  BY <1>2, <1>7 DEF OnItsWay
<1>8. CASE parser_state = "EMIT" /\ msg_buf[0] = Byte(d.seq, 2)
  <2>1. Emits
    BY <1>1, <1>8 DEF Waits, Emits, Loses, Grows, Completes, Pops
  <2>2. KindOf(msg_buf[0]) \in Supported
    BY <1>3, <1>4, <1>8, MessageOfBuffer
  <2>3. PICK e \in accepted : Emitting(e) /\ emitted' = Append(emitted, e.seq)
    BY <2>1, <2>2 DEF Emits
  <2>4. e.seq \in Numbers /\ e.seq \in Nat
    BY AcceptedIs
  <2>5. e.seq = d.seq
    <3>1. msg_buf[0][1] = d.seq /\ msg_buf[0][1] = e.seq
      BY <1>3, <1>8, <2>3, <2>4, BufferNumber DEF Emitting
    <3> QED
      BY <3>1
  <2>6. PICK q, r : q \in Seq(Numbers) /\ q = emitted /\ r = Append(q, e.seq)
    BY DEF Ordered
  <2>7. Len(q) \in Nat /\ Len(r) = Len(q) + 1 /\ r[Len(q) + 1] = e.seq
    BY <2>4, <2>6, LenProperties, AppendProperties
  <2>8. Len(q) + 1 \in 1 .. Len(r)
    BY <2>7
  <2> QED
    BY <2>3, <2>5, <2>6, <2>7, <2>8, Zenon DEF IsOut
<1>9. ASSUME NEW i \in 1 .. Len(fifo), IsLast(fifo[i], d) PROVE (OnItsWay(d))'
  <2>1. CASE fifo' = fifo
    BY <1>9, <2>1 DEF OnItsWay
  <2>2. CASE Pops
    <3>1. PICK q, r : q \in Seq(Beats) /\ q = fifo /\ r = Tail(q)
      BY DEF NetInv, Types
    <3>2. q # << >> /\ fifo' = r
      BY <2>2, <3>1 DEF Pops
    <3>3. /\ Len(q) \in Nat /\ Len(r) = Len(q) - 1 /\ Head(q) = q[1]
          /\ \A l \in 1 .. Len(r), j \in 1 .. Len(q) : j = l + 1 => r[l] = q[j]
      BY <3>1, <3>2, TailIs
    <3>4. CASE i = 1
      <4>1. IsLast(Head(fifo), d)
        BY <1>9, <3>1, <3>3, <3>4
      <4>2. PICK x : x = LastOffset(d.seq)
        OBVIOUS
      <4>3. x \in Nat /\ Sendable(d, x) /\ d.len <= x + 28 /\ Head(fifo) = Out(d, x)
        BY <1>3, <4>1, <4>2, ArrivesIs DEF IsLast
      <4>4. Head(fifo).last
        <5>1. Head(fifo).last <=> d.len <= x + 32
          BY <1>3, <4>3, OutFacts
        <5>2. d.len <= x + 32
          BY <1>3, <4>3
        <5> QED
          BY <5>1, <5>2, Zenon
      <4>5. CASE Completes
        <5>1. PICK e \in accepted : IsLast(Head(fifo), e) /\ (Emitting(e))'
          BY <4>5 DEF Completes
        <5>2. e \in Datagrams /\ e.count = 1 /\ Arrives(e)
          BY <5>1, AcceptedIs DEF Emitting
        <5>3. d.seq = e.seq
          BY <1>3, <4>3, <5>1, <5>2, SameBeat
        <5>4. parser_state' = "EMIT" /\ msg_buf'[0] = Byte(d.seq, 2)
          BY <4>5, <5>1, <5>3 DEF Completes, Emitting
        <5> QED
          BY <5>4 DEF OnItsWay
      <4> QED
        BY <1>1, <2>2, <4>1, <4>4, <4>5 DEF Waits, Emits, Loses, Grows, Pops
    <3>5. CASE i # 1
      <4>1. PICK l \in 1 .. Len(r) : i = l + 1
        <5>1. i - 1 \in 1 .. Len(r) /\ i = (i - 1) + 1
          BY <3>1, <3>3, <3>5
        <5> QED
          BY <5>1, Zenon
      <4>2. r[l] = q[i]
        BY <3>1, <3>3, <4>1
      <4> QED
        BY <1>9, <3>1, <3>2, <4>1, <4>2 DEF OnItsWay
    <3> QED
      BY <3>4, <3>5
  <2> QED
    BY <1>1, <2>1, <2>2 DEF Waits, Emits, Loses, Grows, Completes
<1> QED
  BY <1>6, <1>7, <1>8, <1>9 DEF OnItsWay

LEMMA EmittedAccepted ==
  ASSUME NetInv, PipeInv, Ordered, Accounted, NEW hold \in BOOLEAN, AppIdle(hold) \/ AppBeat(hold)
  PROVE  \A k \in 1 .. Len(emitted') : \E d \in accepted : Arrives(d) /\ d.seq = emitted'[k]
<1>1. Waits \/ Emits \/ Loses \/ Grows \/ Completes
  BY PipeGivesStep
<1>2. CASE emitted' = emitted
  BY <1>2 DEF Accounted
<1>3. ASSUME NEW d \in accepted, Emitting(d), emitted' = Append(emitted, d.seq)
      PROVE  \A k \in 1 .. Len(emitted') : \E e \in accepted : Arrives(e) /\ e.seq = emitted'[k]
  <2>1. PICK q, r : q \in Seq(Numbers) /\ q = emitted /\ r = Append(q, d.seq)
    BY DEF Ordered
  <2>2. d.seq \in Numbers
    BY AcceptedIs
  <2>3. /\ Len(q) \in Nat /\ Len(r) = Len(q) + 1 /\ r[Len(q) + 1] = d.seq
        /\ \A k \in 1 .. Len(q) : r[k] = q[k]
    BY <2>1, <2>2, LenProperties, AppendProperties
  <2>4. ASSUME NEW k \in 1 .. Len(r) PROVE \E e \in accepted : Arrives(e) /\ e.seq = r[k]
    <3>1. CASE k \in 1 .. Len(q)
      BY <2>1, <2>3, <3>1 DEF Accounted
    <3>2. CASE k \notin 1 .. Len(q)
      <4>1. k = Len(q) + 1
        BY <2>3, <3>2
      <4> QED
        BY <1>3, <2>3, <4>1 DEF Emitting
    <3> QED
      BY <3>1, <3>2
  <2> QED
    BY <1>3, <2>1, <2>4
<1> QED
  BY <1>1, <1>2, <1>3 DEF Waits, Emits, Loses, Grows, Completes, Pops

LEMMA AccountInductive ==
  /\ Init => Accounted
  /\ NetInv /\ PipeInv /\ Ordered /\ Accounted /\ [Next]_vars => Accounted'
<1>1. ASSUME Init PROVE Accounted
  <2>1. accepted = {} /\ emitted = << >>
    BY <1>1 DEF Init
  <2> QED
    BY <2>1, OrderStart DEF Accounted
<1>2. ASSUME NetInv, PipeInv, Ordered, Accounted, [Next]_vars PROVE Accounted'
  <2>1. CASE (\E d \in Datagrams : Arrive(d)) \/ UNCHANGED vars
    <3>1. UNCHANGED <<state, fifo, parser_state, msg_buf, emitted, accepted>>
          /\ (dgram' = dgram \/ dgram = NoDatagram)
      BY <2>1 DEF Arrive, vars, stripVars, parserVars, netVars
    <3>2. state = "PAYLOAD" => dgram # NoDatagram
      BY <1>2 DEF NetInv, StripPlace
    <3>3. \A d \in accepted : OnItsWay(d) => (OnItsWay(d))'
      BY <3>1, <3>2 DEF OnItsWay
    <3> QED
      BY <1>2, <3>1, <3>3 DEF Accounted, IsOut
  <2>2. CASE NetIdle \/ NetBeat
    <3>1. emitted' = emitted /\ accepted \subseteq accepted'
      BY <1>2, <2>2, NetSends DEF NetIdle, NetBeat, NetTick
    <3>2. \A d \in accepted' : Arrives(d) => (OnItsWay(d))' \/ (IsOut(d))'
      BY <1>2, <2>2, NetAccounts DEF Accounted
    <3>3. \A k \in 1 .. Len(emitted') : \E d \in accepted' : Arrives(d) /\ d.seq = emitted'[k]
      BY <1>2, <3>1 DEF Accounted
    <3> QED
      BY <3>2, <3>3 DEF Accounted
  <2>3. ASSUME NEW hold \in BOOLEAN, AppIdle(hold) \/ AppBeat(hold) PROVE Accounted'
    <3>1. accepted' = accepted
      BY <2>3 DEF AppIdle, AppBeat, AppTick, netVars
    <3>2. \A d \in accepted : Arrives(d) => (OnItsWay(d))' \/ (IsOut(d))'
      BY <1>2, <2>3, AppAccounts DEF Accounted
    <3>3. \A k \in 1 .. Len(emitted') : \E d \in accepted : Arrives(d) /\ d.seq = emitted'[k]
      BY <1>2, <2>3, EmittedAccepted
    <3> QED
      BY <3>1, <3>2, <3>3 DEF Accounted
  <2>4. CASE Reset
    <3>1. accepted' = {} /\ emitted' = << >>
      BY <2>4 DEF Reset
    <3> QED
      BY <3>1, OrderStart DEF Accounted
  <2> QED
    BY <1>2, <2>1, <2>2, <2>3, <2>4 DEF Next
<1> QED
  BY <1>1, <1>2

\* No message comes out twice or behind a later one, and with all quiet exactly
\* those are out whose accepted datagram brought their last beat and ended in the
\* lower half of one: between stripper, FIFO and parser no message is lost, made
\* up, repeated or overtaken, for every depth of the FIFO, whatever the network
\* does and however the two clocks run.
THEOREM EmittedExactlyAlways == Spec => []EmittedExactly
<1>1. ASSUME NetInv, PipeInv, Ordered, Accounted PROVE EmittedExactly
  <2>1. emitted \in Seq(Numbers) /\ Increasing(emitted)
    BY <1>1 DEF Ordered
  <2>2. DOMAIN emitted = 1 .. Len(emitted)
    BY <2>1, LenProperties
  <2>3. \A i, j \in DOMAIN emitted : i < j => emitted[i] < emitted[j]
    BY <2>1, <2>2 DEF Increasing
  <2>4. ASSUME Settled PROVE {emitted[i] : i \in DOMAIN emitted} = {d.seq : d \in {e \in accepted : Arrives(e)}}
    <3>1. \A k \in DOMAIN emitted : \E d \in accepted : Arrives(d) /\ d.seq = emitted[k]
      BY <1>1, <2>2 DEF Accounted
    <3>2. \A d \in accepted : ~OnItsWay(d)
      BY <2>4, OrderStart DEF Settled, OnItsWay
    <3>3. \A d \in accepted : Arrives(d) => \E k \in DOMAIN emitted : emitted[k] = d.seq
      BY <1>1, <2>2, <3>2 DEF Accounted, IsOut
    <3> QED
      BY <3>1, <3>3
  <2> QED
    BY <2>3, <2>4 DEF EmittedExactly
<1> QED
  BY <1>1, PipeInvAlways, OrderInductive, AccountInductive, PTL DEF Spec
=============================================================================
