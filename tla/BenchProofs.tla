---------------------------- MODULE BenchProofs -----------------------------
(***************************************************************************)
(* The benches at any size.  The watchlist and its checker, for any number *)
(* of entries and stocks and every sequence of writes and lookups; the     *)
(* order book and its Python model, for any references, hash, table,       *)
(* symbols and messages; the header stripper with its checker, for any     *)
(* datagrams and pauses; the frames sent into the Ethernet wrapper, for    *)
(* any messages, addresses and fill of the FIFO behind it; and the drivers,*)
(* monitors, checkers and scoreboard of lliu_top, for any weights, prices, *)
(* sample files and delays.                                                *)
(***************************************************************************)
EXTENDS CocotbBench, SequenceTheorems, FiniteSetTheorems, WellFoundedInduction, TLAPS

Answers == {"hit", "miss", "none"}
Cams == [Entries -> [key : Stocks \cup {NoStock}, en : BOOLEAN]]

\* Two CAMs that answer every lookup alike.
Agree(a, b) == \A i \in Entries : a[i].en = b[i].en /\ (a[i].en => a[i].key = b[i].key)

\* What the strobe makes of a CAM.
Written(c, wr) == IF wr # NoCamWrite /\ wr.index \in Entries
                 THEN [c EXCEPT ![wr.index] = [key |-> wr.key, en |-> wr.en]] ELSE c

LEMMA AgreeHit ==
  ASSUME NEW a, NEW b, Agree(a, b), NEW s
  PROVE  expected_hit(a, s) <=> expected_hit(b, s)
BY DEF Agree, expected_hit

Types ==
  /\ cam \in Cams /\ chk_cam \in Cams
  /\ cam_wr \in CamWrites \cup {NoCamWrite}
  /\ waits \in 0 .. 4
  /\ stock # NoStock => waits \in {3, 4}
  /\ waits = 4 => cam_wr # NoCamWrite

\* The checker's CAM is the filter's once the strobe has been sampled; at the
\* edge at which a lookup and a write were driven together it is one write
\* behind.
SameCam ==
  /\ waits # 4 => Agree(Written(cam, cam_wr), chk_cam)
  /\ waits = 4 => /\ Agree(Written(cam, cam_wr), chk_write(cam_wr))
                  /\ ~raced => (expected_hit(chk_cam, stock)
                                  <=> expected_hit(chk_write(cam_wr), stock))

\* The answers still to come, each beside the stage its stock has reached.
InStep(p, k, answer) == Len(p) >= k => (p[Len(p) + 1 - k] = "hit" <=> answer)

Flight ==
  /\ pending \in Seq(Answers) /\ Len(pending) <= 3
  /\ ~raced => /\ InStep(pending, 1, stock_q # NoStock /\ expected_hit(cam, stock_q))
               /\ InStep(pending, 2, partial.match /\ partial.valid)
               /\ InStep(pending, 3, watchlist_hit)

FilterInv == Types /\ SameCam /\ Flight /\ FilterChecked

-----------------------------------------------------------------------------
\* (Of a length the provers do not find these; of a number they do.)
LEMMA Three == ASSUME NEW n \in Nat, n <= 3, n >= 3 PROVE n = 3
OBVIOUS
LEMMA BelowThree == ASSUME NEW n \in Nat, ~(n >= 3) PROVE n \in {0, 1, 2}
OBVIOUS

\* A queue of three: the oldest leaves when it is full.
LEMMA Shift ==
  ASSUME NEW q \in Seq(Answers), Len(q) <= 3, NEW e \in Answers,
         NEW r, r = Append(IF Len(q) >= 3 THEN Tail(q) ELSE q, e)
  PROVE  /\ r \in Seq(Answers) /\ Len(r) <= 3 /\ Len(r) >= 1
         /\ r[Len(r)] = e
         /\ Len(r) >= 2 => Len(q) >= 1 /\ r[Len(r) - 1] = q[Len(q)]
         /\ Len(r) >= 3 => Len(q) >= 2 /\ r[Len(r) - 2] = q[Len(q) - 1]
<1>1. CASE Len(q) >= 3
  <2>1. Len(q) = 3
    <3>1. Len(q) \in Nat
      BY LenProperties
    <3> QED
      BY <1>1, <3>1, Three
  <2>2. /\ Tail(q) \in Seq(Answers) /\ Len(Tail(q)) = 2
        /\ Tail(q)[1] = q[2] /\ Tail(q)[2] = q[3]
    <3>1. q # <<>>
      BY <2>1
    <3>2. /\ Tail(q) \in Seq(Answers) /\ Len(Tail(q)) = Len(q) - 1
          /\ \A i \in 1 .. Len(Tail(q)) : Tail(q)[i] = q[i + 1]
      BY <3>1, HeadTailProperties, Zenon
    <3>3. Len(Tail(q)) = 2
      BY <2>1, <3>2
    <3>4. Tail(q)[1] = q[1 + 1] /\ Tail(q)[2] = q[2 + 1]
      BY <3>2, <3>3
    <3> QED
      BY <3>2, <3>3, <3>4
  <2>3. r = Append(Tail(q), e)
    BY <1>1
  <2>4. /\ r \in Seq(Answers) /\ Len(r) = Len(Tail(q)) + 1 /\ r[Len(Tail(q)) + 1] = e
        /\ \A i \in 1 .. Len(Tail(q)) : r[i] = Tail(q)[i]
    BY <2>2, <2>3, AppendProperties
  <2>5. Len(r) = 3 /\ r[3] = e /\ r[1] = q[2] /\ r[2] = q[3]
    BY <2>2, <2>4
  <2>6. r \in Seq(Answers)
    BY <2>4
  <2>7. Len(r) - 1 = 2 /\ Len(r) - 2 = 1 /\ Len(q) - 1 = 2
    BY <2>1, <2>5
  <2>8. r[Len(r) - 1] = q[Len(q)] /\ r[Len(r) - 2] = q[Len(q) - 1] /\ r[Len(r)] = e
    BY <2>1, <2>5, <2>7, Zenon
  <2>9. Len(r) <= 3 /\ Len(r) >= 1 /\ Len(q) >= 1 /\ Len(q) >= 2
    <3>1. \A n : n = 3 => n <= 3 /\ n >= 1 /\ n >= 2
      OBVIOUS
    <3> QED
      BY <2>1, <2>5, <3>1, Zenon
  <2> QED
    BY <2>6, <2>8, <2>9, Zenon
<1>2. CASE ~(Len(q) >= 3)
  <2>1. r = Append(q, e) /\ Len(q) \in Nat
    BY <1>2, LenProperties
  <2>2. /\ r \in Seq(Answers) /\ Len(r) = Len(q) + 1 /\ r[Len(q) + 1] = e
        /\ \A i \in 1 .. Len(q) : r[i] = q[i]
    BY <2>1, AppendProperties
  <2>3. Len(q) \in {0, 1, 2}
    BY <1>2, <2>1, BelowThree
  <2>4. CASE Len(q) = 0
    <3>1. Len(r) = 1 /\ r[1] = e /\ \A i \in 1 .. 0 : r[i] = q[i]
      BY <2>2, <2>4
    <3> QED
      BY <2>2, <2>4, <3>1
  <2>5. CASE Len(q) = 1
    <3>1. Len(r) = 2 /\ r[2] = e /\ \A i \in 1 .. 1 : r[i] = q[i]
      BY <2>2, <2>5
    <3> QED
      BY <2>2, <2>5, <3>1
  <2>6. CASE Len(q) = 2
    <3>1. Len(r) = 3 /\ r[3] = e /\ \A i \in 1 .. 2 : r[i] = q[i]
      BY <2>2, <2>6
    <3> QED
      BY <2>2, <2>6, <3>1
  <2> QED
    BY <2>3, <2>4, <2>5, <2>6
<1> QED
  BY <1>1, <1>2

\* One edge, when what the checker notes down is what the filter will find.
LEMMA EdgeStep ==
  ASSUME FilterInv, NEW c, FilterEdge(c), ~raced' => ~raced,
         ~raced' /\ stock # NoStock => (expected_hit(c, stock) <=> expected_hit(cam', stock))
  PROVE  Flight' /\ FilterChecked'
<1> DEFINE e == IF stock = NoStock THEN "none"
                ELSE IF expected_hit(c, stock) THEN "hit" ELSE "miss"
<1>1. /\ mismatch' = (mismatch \/ (Len(pending) >= 3 /\ watchlist_hit # (Head(pending) = "hit")))
      /\ pending' = Append(IF Len(pending) >= 3 THEN Tail(pending) ELSE pending, e)
      /\ stock_q' = stock
      /\ partial' = [match |-> match_vec # {}, valid |-> stock_q # NoStock]
      /\ lookup' = partial
  BY DEF FilterEdge, FilterMonitor, FilterClock
<1>2. e \in Answers /\ (e = "hit" <=> stock # NoStock /\ expected_hit(c, stock))
  BY DEF Answers
<1>3. pending \in Seq(Answers) /\ Len(pending) <= 3 /\ Len(pending) \in Nat
  BY LenProperties DEF FilterInv, Flight
<1> HIDE DEF e
<1>4. /\ pending' \in Seq(Answers) /\ Len(pending') <= 3 /\ Len(pending') >= 1
      /\ pending'[Len(pending')] = e
      /\ Len(pending') >= 2 => Len(pending) >= 1
                               /\ pending'[Len(pending') - 1] = pending[Len(pending)]
      /\ Len(pending') >= 3 => Len(pending) >= 2
                               /\ pending'[Len(pending') - 2] = pending[Len(pending) - 1]
  BY <1>1, <1>2, <1>3, Shift
<1>5. Len(pending') \in Nat
  BY <1>4, LenProperties
<1>6. FilterChecked'
  <2>1. ASSUME ~raced', Len(pending) >= 3 PROVE watchlist_hit <=> Head(pending) = "hit"
    <3>1. Len(pending) = 3
      BY <1>3, <2>1, Three
    <3>2. InStep(pending, 3, watchlist_hit)
      BY <2>1 DEF FilterInv, Flight
    <3>3. Len(pending) + 1 - 3 = 1
      BY <3>1
    <3>4. pending[1] = "hit" <=> watchlist_hit
      BY <2>1, <3>2, <3>3, Zenon DEF InStep
    <3>5. Head(pending) = pending[1]
      BY <1>3, <3>1
    <3> QED
      BY <3>4, <3>5, Zenon
  <2>2. ~raced' => ~mismatch
    BY DEF FilterInv, FilterChecked
  <2>3. watchlist_hit # (Head(pending) = "hit") => ~(watchlist_hit <=> Head(pending) = "hit")
    BY DEF watchlist_hit
  <2>4. ~raced' => ~mismatch'
    BY <1>1, <2>1, <2>2, <2>3, Zenon
  <2> QED
    BY <2>4, Zenon DEF FilterChecked
<1>7. ASSUME ~raced'
      PROVE  InStep(pending', 1, stock_q' # NoStock /\ expected_hit(cam', stock_q'))
  <2>1. e = "hit" <=> stock_q' # NoStock /\ expected_hit(cam', stock_q')
    BY <1>1, <1>2, <1>7
  <2>2. Len(pending') + 1 - 1 = Len(pending')
    BY <1>5
  <2> QED
    BY <1>4, <2>1, <2>2, Zenon DEF InStep
<1>8. ASSUME ~raced'
      PROVE  InStep(pending', 2, partial'.match /\ partial'.valid)
  <2>1. InStep(pending, 1, stock_q # NoStock /\ expected_hit(cam, stock_q))
    BY <1>8 DEF FilterInv, Flight
  <2>2. match_vec # {} <=> expected_hit(cam, stock_q)
    BY DEF match_vec, expected_hit
  <2>3. partial'.match /\ partial'.valid <=> stock_q # NoStock /\ expected_hit(cam, stock_q)
    BY <1>1, <2>2
  <2>4. Len(pending') + 1 - 2 = Len(pending') - 1 /\ Len(pending) + 1 - 1 = Len(pending)
    BY <1>3, <1>5
  <2> QED
    BY <1>4, <2>1, <2>3, <2>4, Zenon DEF InStep
<1>9. ASSUME ~raced'
      PROVE  InStep(pending', 3, lookup'.match /\ lookup'.valid)
  <2>1. InStep(pending, 2, partial.match /\ partial.valid)
    BY <1>9 DEF FilterInv, Flight
  <2>2. Len(pending') + 1 - 3 = Len(pending') - 2 /\ Len(pending) + 1 - 2 = Len(pending) - 1
    BY <1>3, <1>5
  <2> QED
    BY <1>1, <1>4, <2>1, <2>2, Zenon DEF InStep
<1>10. Flight'
  BY <1>4, <1>7, <1>8, <1>9, Zenon DEF Flight, InStep, expected_hit, watchlist_hit
<1> QED
  BY <1>6, <1>10

-----------------------------------------------------------------------------
\* The edge writes the filter's CAM.
LEMMA EdgeWrites ==
  ASSUME Types, NEW c, FilterEdge(c)
  PROVE  cam' = Written(cam, cam_wr) /\ cam' \in Cams
<1>1. cam' = Written(cam, cam_wr)
  BY DEF FilterEdge, FilterClock, Written
<1>2. cam_wr # NoCamWrite => cam_wr.key \in Stocks /\ cam_wr.en \in BOOLEAN
  BY DEF Types, CamWrites
<1>3. cam \in Cams
  BY DEF Types
<1> QED
  BY <1>1, <1>2, <1>3 DEF Written, Cams

\* The checker's own write keeps its CAM a CAM, and in step with the filter's.
LEMMA ChkWrites ==
  ASSUME Types, NEW wr \in CamWrites, wr # NoCamWrite, NEW a \in Cams, Agree(a, chk_cam)
  PROVE  chk_write(wr) \in Cams /\ Agree(Written(a, wr), chk_write(wr))
<1>1. wr.index \in Entries /\ wr.key \in Stocks /\ wr.en \in BOOLEAN
  BY DEF CamWrites
<1>2. chk_cam \in Cams
  BY DEF Types
<1>3. chk_cam[wr.index].key \in Stocks \cup {NoStock}
  BY <1>1, <1>2 DEF Cams
<1>4. chk_write(wr) = [chk_cam EXCEPT ![wr.index] =
                       [key |-> IF wr.en THEN wr.key ELSE chk_cam[wr.index].key, en |-> wr.en]]
  BY DEF chk_write
<1>5. chk_write(wr) \in Cams
  BY <1>1, <1>2, <1>3, <1>4 DEF Cams
<1>6. Written(a, wr) = [a EXCEPT ![wr.index] = [key |-> wr.key, en |-> wr.en]]
  BY <1>1 DEF Written
<1>7. ASSUME NEW i \in Entries
      PROVE  /\ Written(a, wr)[i].en = chk_write(wr)[i].en
             /\ Written(a, wr)[i].en => Written(a, wr)[i].key = chk_write(wr)[i].key
  <2>1. CASE i = wr.index
    BY <1>1, <1>2, <1>4, <1>6, <2>1 DEF Cams
  <2>2. CASE i # wr.index
    BY <1>1, <1>2, <1>4, <1>6, <2>2 DEF Cams, Agree
  <2> QED
    BY <2>1, <2>2
<1> QED
  BY <1>5, <1>7 DEF Agree

LEMMA FilterInitInv == FilterInit => FilterInv
<1> SUFFICES ASSUME FilterInit PROVE FilterInv
  OBVIOUS
<1>1. cam \in Cams /\ chk_cam = cam /\ Agree(cam, cam)
  BY DEF FilterInit, FilterReset, Cams, Agree
<1>2. Types /\ SameCam
  BY <1>1 DEF FilterInit, FilterReset, Types, SameCam, Written
<1>3. Len(pending) = 0 /\ pending \in Seq(Answers)
  BY EmptySeq DEF FilterInit
<1>4. Flight
  BY <1>3 DEF Flight, InStep
<1> QED
  BY <1>2, <1>4 DEF FilterInit, FilterInv, FilterChecked

LEMMA WaitStep ==
  ASSUME FilterInv, waits # 4, FilterWait
  PROVE  FilterInv'
<1>1. /\ FilterEdge(chk_cam) /\ waits > 0
      /\ stock' = NoStock /\ cam_wr' = NoCamWrite /\ waits' = waits - 1
      /\ UNCHANGED <<chk_cam, raced>>
  BY DEF FilterWait
<1>2. cam' = Written(cam, cam_wr) /\ cam' \in Cams
  BY <1>1, EdgeWrites DEF FilterInv
<1>3. Agree(cam', chk_cam)
  BY <1>2 DEF FilterInv, SameCam
<1>4. Flight' /\ FilterChecked'
  BY <1>1, <1>3, AgreeHit, EdgeStep
<1>5. waits' \in 0 .. 4 /\ waits' # 4
  BY <1>1 DEF FilterInv, Types
<1>6. Types'
  BY <1>1, <1>2, <1>5 DEF FilterInv, Types
<1>7. SameCam'
  BY <1>1, <1>3, <1>5 DEF SameCam, Written, Agree
<1> QED
  BY <1>4, <1>6, <1>7 DEF FilterInv

\* A new entry, told to the checker when the strobe is raised.
LEMMA CamWriteStep ==
  ASSUME FilterInv, NEW wr \in CamWrites, CamWrite(wr)
  PROVE  FilterInv'
<1>1. /\ waits = 0 /\ chk_cam' = chk_write(wr)
      /\ stock' = NoStock /\ cam_wr' = wr /\ waits' = 1 /\ UNCHANGED raced
  BY DEF CamWrite
<1>2. PICK c \in {chk_cam, chk_cam'} : FilterEdge(c)
  BY DEF CamWrite
<1>3. cam' = Written(cam, cam_wr) /\ cam' \in Cams
  BY <1>2, EdgeWrites DEF FilterInv
<1>4. Agree(cam', chk_cam) /\ stock = NoStock
  BY <1>1, <1>3 DEF FilterInv, SameCam, Types
<1>5. Flight' /\ FilterChecked'
  BY <1>1, <1>2, <1>4, EdgeStep
<1>6. chk_cam' \in Cams /\ Agree(Written(cam', wr), chk_cam')
  BY <1>1, <1>3, <1>4, ChkWrites, CamWriteAssumption DEF FilterInv
<1>7. Types'
  BY <1>1, <1>3, <1>6 DEF Types
<1>8. SameCam'
  BY <1>1, <1>6 DEF SameCam, Written, Agree
<1> QED
  BY <1>5, <1>7, <1>8 DEF FilterInv

LEMMA PresentStep ==
  ASSUME FilterInv, NEW s \in Stocks, Present(s)
  PROVE  FilterInv'
<1>1. /\ waits = 0 /\ FilterEdge(chk_cam)
      /\ stock' = s /\ cam_wr' = NoCamWrite /\ waits' = 3 /\ UNCHANGED <<chk_cam, raced>>
  BY DEF Present
<1>2. cam' = Written(cam, cam_wr) /\ cam' \in Cams
  BY <1>1, EdgeWrites DEF FilterInv
<1>3. Agree(cam', chk_cam)
  BY <1>1, <1>2 DEF FilterInv, SameCam
<1>4. Flight' /\ FilterChecked'
  BY <1>1, <1>3, AgreeHit, EdgeStep
<1>5. Types'
  BY <1>1, <1>2 DEF FilterInv, Types
<1>6. SameCam'
  BY <1>1, <1>3 DEF SameCam, Written, Agree
<1> QED
  BY <1>4, <1>5, <1>6 DEF FilterInv

\* A lookup and a write in one cycle.
LEMMA RaceStep ==
  ASSUME FilterInv, NEW s \in Stocks, NEW wr \in CamWrites, PresentAndWrite(s, wr)
  PROVE  FilterInv'
<1>1. /\ waits = 0 /\ FilterEdge(chk_cam)
      /\ stock' = s /\ cam_wr' = wr /\ waits' = 4 /\ UNCHANGED chk_cam
      /\ raced' = (raced \/ expected_hit(chk_cam, s) # expected_hit(chk_write(wr), s))
  BY DEF PresentAndWrite
<1>2. cam' = Written(cam, cam_wr) /\ cam' \in Cams
  BY <1>1, EdgeWrites DEF FilterInv
<1>3. Agree(cam', chk_cam)
  BY <1>1, <1>2 DEF FilterInv, SameCam
<1>4. ~raced' => ~raced
  BY <1>1, Zenon
<1>5. Flight' /\ FilterChecked'
  BY <1>1, <1>3, <1>4, AgreeHit, EdgeStep
<1>6. Agree(Written(cam', wr), chk_write(wr)) /\ chk_write(wr)' = chk_write(wr)
  BY <1>1, <1>2, <1>3, ChkWrites, CamWriteAssumption DEF FilterInv, chk_write
<1>7. ~raced' => (expected_hit(chk_cam, s) <=> expected_hit(chk_write(wr), s))
  BY <1>1, Zenon
<1>8. Types'
  BY <1>1, <1>2, CamWriteAssumption DEF FilterInv, Types
<1>9. SameCam'
  BY <1>1, <1>6, <1>7 DEF SameCam, Written, Agree, expected_hit, chk_write
<1> QED
  BY <1>5, <1>8, <1>9 DEF FilterInv

\* The checker is told of that write one edge later.
LEMMA TellStep ==
  ASSUME FilterInv, TellChecker
  PROVE  FilterInv'
<1>1. /\ waits = 4 /\ chk_cam' = chk_write(cam_wr)
      /\ stock' = NoStock /\ cam_wr' = NoCamWrite /\ waits' = 2 /\ UNCHANGED raced
  BY DEF TellChecker
<1>2. PICK c \in {chk_cam, chk_cam'} : FilterEdge(c)
  BY DEF TellChecker
<1>3. cam' = Written(cam, cam_wr) /\ cam' \in Cams
  BY <1>2, EdgeWrites DEF FilterInv
<1>4. Agree(cam', chk_cam')
  BY <1>1, <1>3 DEF FilterInv, SameCam
<1>5. ASSUME ~raced' PROVE expected_hit(c, stock) <=> expected_hit(cam', stock)
  <2>1. expected_hit(chk_cam, stock) <=> expected_hit(chk_cam', stock)
    BY <1>1, <1>5 DEF FilterInv, SameCam
  <2>2. expected_hit(cam', stock) <=> expected_hit(chk_cam', stock)
    BY <1>4, AgreeHit
  <2> QED
    BY <1>2, <2>1, <2>2
<1>6. Flight' /\ FilterChecked'
  BY <1>1, <1>2, <1>5, EdgeStep
<1>7. chk_cam' \in Cams
  <2>1. cam_wr \in CamWrites
    BY <1>1 DEF FilterInv, Types
  <2>2. /\ cam_wr.index \in Entries /\ cam_wr.key \in Stocks /\ cam_wr.en \in BOOLEAN
        /\ chk_cam \in Cams
    BY <2>1 DEF CamWrites, FilterInv, Types
  <2>3. chk_cam[cam_wr.index].key \in Stocks \cup {NoStock}
    BY <2>2 DEF Cams
  <2> QED
    BY <1>1, <2>2, <2>3 DEF Cams, chk_write
<1>8. Types'
  BY <1>1, <1>3, <1>7 DEF Types
<1>9. SameCam'
  BY <1>1, <1>4 DEF SameCam, Written, Agree
<1> QED
  BY <1>6, <1>8, <1>9 DEF FilterInv

LEMMA FilterNextInv == FilterInv /\ [FilterNext]_filterBenchVars => FilterInv'
<1> SUFFICES ASSUME FilterInv, [FilterNext]_filterBenchVars PROVE FilterInv'
  OBVIOUS
<1>1. CASE UNCHANGED filterBenchVars
  BY <1>1 DEF filterBenchVars, filterVars, driveVars, chkVars, FilterInv, Types, SameCam,
              Flight, FilterChecked, InStep, Written, Agree, expected_hit, chk_write, watchlist_hit
<1>2. CASE FilterNext
  BY <1>2, WaitStep, CamWriteStep, PresentStep, RaceStep, TellStep DEF FilterNext
<1> QED
  BY <1>1, <1>2

\* The checker agrees with the filter on every lookup, for any number of entries
\* and any sequence of writes and lookups, until a write changes the answer of a
\* lookup driven in its own cycle.
THEOREM FilterAgrees == CocotbBenchSpec => []FilterChecked
<1>1. CocotbBenchInit => FilterInv
  BY FilterInitInv DEF CocotbBenchInit
<1>2. FilterInv /\ [CocotbBenchNext]_benchVars => FilterInv'
  <2>1. [CocotbBenchNext]_benchVars => [FilterNext]_filterBenchVars
    BY Zenon DEF CocotbBenchNext, benchVars
  <2> QED
    BY <2>1, FilterNextInv
<1>3. FilterInv => FilterChecked
  BY DEF FilterInv
<1> QED
  BY <1>1, <1>2, <1>3, PTL DEF CocotbBenchSpec

-----------------------------------------------------------------------------
(* The order book beside its Python model.                                 *)

Slots == Book!Slots
Orders == Book!Order

\* A table of the model as the hardware's: the bucket is the slot.
Image(e) == IF e = Empty THEN Empty
            ELSE [ref |-> e.order_ref, price |-> e.price, shares |-> e.shares, side |-> e.side]
Pictured(tab) == [h \in Slots |-> Image(tab[h])]

\* An entry lies in the bucket of its reference.
Filed(tab) == /\ tab \in [Slots -> Book!Model!RefEntries \cup {Empty}]
              /\ \A h \in Slots : tab[h] # Empty => /\ Hash[tab[h].order_ref] = h
                                                 /\ Image(tab[h]) \in Orders

\* What the message o does to the table mem, if its order is in its base slot.
Ordered(r, o) == [ref |-> r, price |-> o.price, shares |-> o.shares, side |-> o.side]
Rest(e, o) == IF e.shares > o.shares THEN e.shares - o.shares ELSE 0
Meets(mem, o) ==
  LET e == mem[Hash[o.ref]]
  IN  IF o.type = "A" THEN e = Empty \/ e.ref = o.ref
      ELSE /\ e # Empty /\ e.ref = o.ref
           /\ o.type = "X" => Rest(e, o) # 0
           /\ o.type = "U" => Hash[o.new_ref] # Hash[o.ref]
TableThen(mem, o, new) ==
  LET h == Hash[o.ref]
      e == mem[h]
  IN  /\ o.type = "A" => new = [mem EXCEPT ![h] = Ordered(o.ref, o)]
      /\ o.type = "D" => new = [mem EXCEPT ![h] = Empty]
      /\ o.type = "X" => new = [mem EXCEPT ![h] = [e EXCEPT !.shares = Rest(e, o)]]
      /\ o.type = "E" => new = [mem EXCEPT ![h] = IF Rest(e, o) = 0 THEN Empty
                                                  ELSE [e EXCEPT !.shares = Rest(e, o)]]
      /\ o.type = "U" => new = [[mem EXCEPT ![Hash[o.new_ref]] = Ordered(o.new_ref, o)]
                                  EXCEPT ![h] = Empty]

\* And to the quotes q; a raise is judged by the quotes as they were.
Lowered(q, e, y) ==
  IF q[<<y, e.side>>].price = e.price
  THEN [q EXCEPT ![<<y, e.side>>] = Book!NoLevel] ELSE q
Beats(q, o) == LET best == q[<<o.sym, o.side>>].price
               IN  IF o.side = "bid" THEN o.price > best ELSE best = 0 \/ o.price < best
Lifted(b, q, o) ==
  IF Beats(q, o)
  THEN [b EXCEPT ![<<o.sym, o.side>>] = [price |-> o.price, shares |-> o.shares]] ELSE b
QuotesThen(q, mem, o, new) ==
  LET e == mem[Hash[o.ref]]
  IN  /\ o.type = "A" => new = Lifted(q, q, o)
      /\ o.type = "D" => new = Lowered(q, e, o.sym)
      /\ o.type = "X" => new = q
      /\ o.type = "E" => new = IF Rest(e, o) = 0 THEN Lowered(q, e, o.sym) ELSE q
      /\ o.type = "U" => new = Lifted(Lowered(q, e, o.sym), q, o)

BookCalls == {m \in Msgs : m.type \in {"A", "D", "X", "E", "U"}}

LEMMA HashIsSlot == ASSUME NEW r \in Refs PROVE Hash[r] \in Slots
BY BookAssumption DEF Slots

LEMMA MessageFields ==
  ASSUME NEW m \in Msgs
  PROVE  /\ m.ref \in Refs /\ m.new_ref \in Refs /\ m.price \in BookPrices /\ m.shares \in 0 .. MaxShares
         /\ m.side \in {"bid", "ask"} /\ m.sym \in Symbols
BY BookAssumption DEF Book!Message, Book!Shares, Book!Sides

\* The first probe is the base slot.
LEMMA FirstProbe == ASSUME NEW r \in Refs PROVE Book!ProbeSlot(r, 0) = Hash[r]
<1>1. Hash[r] \in 0 .. TableSize - 1 /\ TableSize \in Nat \ {0}
  BY BookAssumption DEF Book!Slots
<1>2. (Hash[r] + 0) % TableSize = Hash[r]
  BY <1>1
<1> QED
  BY <1>2 DEF Book!ProbeSlot

\* What the model files under a message's reference, old or new.
LEMMA EntryImage ==
  ASSUME NEW m \in Msgs, NEW r \in Refs,
         NEW x, x = Book!Model!Entry(r, m.price, m.shares, m.side, m.sym)
  PROVE  /\ x \in Book!Model!RefEntries /\ x.order_ref = r
         /\ Image(x) = Ordered(r, m) /\ Image(x) \in Orders
<1>1. /\ m.price \in BookPrices /\ m.shares \in 0 .. MaxShares
      /\ m.side \in {"bid", "ask"} /\ m.sym \in Symbols
  BY MessageFields
<1>2. x \in Book!Model!RefEntries
  <2>1. m.price \in Nat
    BY <1>1, BookAssumption, Zenon
  <2>2. m.shares \in Nat
    BY <1>1
  <2> QED
    BY <1>1, <2>1, <2>2 DEF Book!Model!Entry, Book!Model!RefEntries
<1>3. Ordered(r, m) \in Orders
  BY <1>1 DEF Ordered, Orders, Book!Order, Book!Shares, Book!Sides
<1>4. x # Empty
  BY <1>2, BookAssumption
<1> QED
  BY <1>2, <1>3, <1>4 DEF Book!Model!Entry, Image, Ordered

LEMMA FiledExcept ==
  ASSUME NEW tab, Filed(tab), NEW h \in Slots,
         NEW x, x # Empty => /\ x \in Book!Model!RefEntries /\ Hash[x.order_ref] = h
                             /\ Image(x) \in Orders
  PROVE  Filed([tab EXCEPT ![h] = x])
BY DEF Filed

\* What the model has under a reference, the picture has in its slot.
LEMMA FoundImage ==
  ASSUME Filed(ref_table), NEW r \in Refs, Book!Model!Finds(r)
  PROVE  /\ Hash[r] \in Slots /\ ref_table[Hash[r]] \in Book!Model!RefEntries
         /\ ref_table[Hash[r]].order_ref = r
         /\ Pictured(ref_table)[Hash[r]]
              = [ref |-> r, price |-> ref_table[Hash[r]].price,
                 shares |-> ref_table[Hash[r]].shares, side |-> ref_table[Hash[r]].side]
         /\ Pictured(ref_table)[Hash[r]] \in Orders /\ Pictured(ref_table)[Hash[r]] # Empty
<1> DEFINE h == Hash[r]
           e == ref_table[h]
<1>1. h \in Slots
  BY HashIsSlot
<1>2. e # Empty /\ e.order_ref = r
  BY DEF Book!Model!Finds, Book!Model!Has
<1>3. e \in Book!Model!RefEntries
  BY <1>1, <1>2 DEF Filed
<1>4. Pictured(ref_table)[h] = [ref |-> r, price |-> e.price, shares |-> e.shares, side |-> e.side]
  BY <1>1, <1>2 DEF Pictured, Image
<1>5. Pictured(ref_table)[h] \in Orders
  BY <1>1, <1>2 DEF Filed, Pictured
<1>6. Pictured(ref_table)[h] # Empty
  BY <1>5, BookAssumption DEF Orders
<1> QED
  BY <1>1, <1>2, <1>3, <1>4, <1>5, <1>6

\* A call of the model's does to table and quotes what the message does.
Moves(tab, q, m, tabNext, qNext) ==
  LET mem == Pictured(tab)
  IN  /\ Filed(tabNext) /\ Meets(mem, m)
      /\ TableThen(mem, m, Pictured(tabNext)) /\ QuotesThen(q, mem, m, qNext)

LEMMA RaisedIsLifted ==
  ASSUME NEW b, NEW m \in Msgs
  PROVE  Book!Model!Raised(b, m.price, m.shares, m.side, m.sym) = Lifted(b, model_bbo, m)
<1>1. m.side = "bid" \/ m.side = "ask"
  BY MessageFields
<1>2. Beats(model_bbo, m)
        <=> LET best == model_bbo[<<m.sym, m.side>>].price
            IN  (m.side = "bid" /\ m.price > best) \/ (m.side = "ask" /\ (best = 0 \/ m.price < best))
  BY <1>1, Zenon DEF Beats
<1> QED
  BY <1>2, Zenon DEF Book!Model!Raised, Lifted

LEMMA ClearedIsLowered ==
  ASSUME NEW e, NEW x, x.price = e.price, x.side = e.side, NEW y
  PROVE  Book!Model!Cleared(e.price, e.side, y) = Lowered(model_bbo, x, y)
BY Zenon DEF Book!Model!Cleared, Lowered, Book!Model!None, Book!NoLevel

LEMMA AddMoves ==
  ASSUME Filed(ref_table), NEW m \in Msgs, m.type = "A", ~Book!Model!Collides(m.ref),
         Book!Model!add(m.ref, m.price, m.shares, m.side, m.sym)
  PROVE  Moves(ref_table, model_bbo, m, ref_table', model_bbo')
<1> DEFINE h == Hash[m.ref]
           x == Book!Model!Entry(m.ref, m.price, m.shares, m.side, m.sym)
           mem == Pictured(ref_table)
<1>1. h \in Slots /\ DOMAIN ref_table = Slots
  BY MessageFields, HashIsSlot DEF Filed
<1>2. ref_table' = [ref_table EXCEPT ![h] = x]
      /\ model_bbo' = Book!Model!Raised(model_bbo, m.price, m.shares, m.side, m.sym)
  BY DEF Book!Model!add
<1>3. /\ x \in Book!Model!RefEntries /\ x.order_ref = m.ref /\ Image(x) = Ordered(m.ref, m)
      /\ Image(x) \in Orders
  <2>1. m.ref \in Refs
    BY MessageFields
  <2> QED
    BY <2>1, EntryImage
<1> HIDE DEF x
<1>4. Filed(ref_table')
  BY <1>1, <1>2, <1>3, FiledExcept
<1>5. Pictured(ref_table') = [mem EXCEPT ![h] = Ordered(m.ref, m)]
  <2>1. Pictured([ref_table EXCEPT ![h] = x]) = [mem EXCEPT ![h] = Image(x)]
    BY <1>1 DEF Pictured
  <2> QED
    BY <1>2, <1>3, <2>1
<1>6. mem[h] = Empty \/ mem[h].ref = m.ref
  <2>1. ref_table[h] = Empty \/ ref_table[h].order_ref = m.ref
    BY DEF Book!Model!Collides, Book!Model!Has
  <2>2. mem[h] = Image(ref_table[h])
    BY <1>1 DEF Pictured
  <2> QED
    BY <2>1, <2>2 DEF Image
<1>7. model_bbo' = Lifted(model_bbo, model_bbo, m)
  BY <1>2, RaisedIsLifted
<1>8. Meets(mem, m)
  BY <1>6 DEF Meets
<1>9. TableThen(mem, m, Pictured(ref_table')) /\ QuotesThen(model_bbo, mem, m, model_bbo')
  BY <1>5, <1>7 DEF TableThen, QuotesThen
<1> QED
  BY <1>4, <1>8, <1>9 DEF Moves

LEMMA DeleteMoves ==
  ASSUME Filed(ref_table), NEW m \in Msgs, m.type = "D", Book!Listed(m),
         Book!Model!delete(m.ref)
  PROVE  Moves(ref_table, model_bbo, m, ref_table', model_bbo')
<1> DEFINE h == Hash[m.ref]
           mem == Pictured(ref_table)
<1>1. DOMAIN ref_table = Slots /\ m.ref \in Refs
  BY MessageFields DEF Filed
<1>2. Book!Model!Finds(m.ref) /\ m.sym = ref_table[h].sym_id
  BY DEF Book!Listed
<1>3. /\ h \in Slots /\ ref_table[h] \in Book!Model!RefEntries /\ mem[h] # Empty
      /\ mem[h] = [ref |-> m.ref, price |-> ref_table[h].price,
                   shares |-> ref_table[h].shares, side |-> ref_table[h].side]
  BY <1>1, <1>2, FoundImage
<1>4. /\ ref_table' = [ref_table EXCEPT ![h] = Empty]
      /\ model_bbo' = Book!Model!Cleared(ref_table[h].price, ref_table[h].side, ref_table[h].sym_id)
  BY <1>2 DEF Book!Model!delete
<1>5. Filed(ref_table')
  BY <1>3, <1>4, FiledExcept
<1>6. Pictured(ref_table') = [mem EXCEPT ![h] = Empty]
  BY <1>1, <1>3, <1>4 DEF Image, Pictured
<1>7. model_bbo' = Lowered(model_bbo, mem[h], m.sym)
  BY <1>2, <1>3, <1>4, ClearedIsLowered
<1>8. Meets(mem, m)
  BY <1>3 DEF Meets
<1>9. TableThen(mem, m, Pictured(ref_table')) /\ QuotesThen(model_bbo, mem, m, model_bbo')
  BY <1>6, <1>7 DEF TableThen, QuotesThen
<1> QED
  BY <1>5, <1>8, <1>9 DEF Moves

\* Cancel and execute are one method; a cancel leaves something.
LEMMA ReduceMoves ==
  ASSUME Filed(ref_table), NEW m \in Msgs, m.type \in {"X", "E"}, Book!Listed(m),
         m.type = "X" => m.shares < ref_table[Hash[m.ref]].shares,
         Book!Model!cancel(m.ref, m.shares)
  PROVE  Moves(ref_table, model_bbo, m, ref_table', model_bbo')
<1> DEFINE h == Hash[m.ref]
           e == ref_table[h]
           mem == Pictured(ref_table)
           left == e.shares - m.shares
           image(q) == [ref |-> m.ref, price |-> e.price, shares |-> q, side |-> e.side]
<1>1. DOMAIN ref_table = Slots /\ m.ref \in Refs /\ m.shares \in 0 .. MaxShares
  BY MessageFields DEF Filed
<1>2. Book!Model!Finds(m.ref) /\ m.sym = e.sym_id
  BY DEF Book!Listed
<1>3. /\ h \in Slots /\ e \in Book!Model!RefEntries /\ e.order_ref = m.ref /\ mem[h] # Empty
      /\ mem[h] \in Orders /\ mem[h] = image(e.shares)
  BY <1>1, <1>2, FoundImage
<1>4. mem[h].shares = e.shares /\ e.shares \in 0 .. MaxShares
  BY <1>3 DEF Orders, Book!Order, Book!Shares
<1>5. Meets(mem, m)
  <2>1. m.type = "X" => Rest(mem[h], m) # 0
    BY <1>1, <1>4 DEF Rest
  <2> QED
    BY <1>3, <2>1 DEF Meets
<1>6. CASE e.shares > m.shares
  <2> DEFINE x == [e EXCEPT !.shares = left]
  <2>1. ref_table' = [ref_table EXCEPT ![h].shares = left] /\ model_bbo' = model_bbo
    BY <1>2, <1>6 DEF Book!Model!cancel
  <2>2. ref_table' = [ref_table EXCEPT ![h] = x]
    BY <1>1, <1>3, <2>1
  <2>3. left \in 0 .. MaxShares /\ left # 0
    BY <1>1, <1>4, <1>6, BookAssumption
  <2>4. x \in Book!Model!RefEntries /\ x.order_ref = m.ref
    BY <1>3, <2>3 DEF Book!Model!RefEntries
  <2>5. x # Empty
    BY <2>4, BookAssumption
  <2>6. Image(x) = image(left)
    BY <1>3, <2>5 DEF Image, Book!Model!RefEntries
  <2>7. image(left) \in Orders
    BY <1>3, <2>3 DEF Orders, Book!Order, Book!Shares
  <2> HIDE DEF x
  <2>8. Filed(ref_table')
    BY <1>3, <2>2, <2>4, <2>6, <2>7, FiledExcept
  <2>9. Pictured(ref_table') = [mem EXCEPT ![h] = image(left)]
    <3>1. Pictured([ref_table EXCEPT ![h] = x]) = [mem EXCEPT ![h] = Image(x)]
      BY <1>1, <1>3 DEF Pictured
    <3> QED
      BY <2>2, <2>6, <3>1
  <2>10. Rest(mem[h], m) = left
    BY <1>4, <1>6 DEF Rest
  <2>11. [mem[h] EXCEPT !.shares = left] = image(left)
    BY <1>3
  <2>12. Rest(mem[h], m) # 0
    BY <2>3, <2>10
  <2>13. TableThen(mem, m, Pictured(ref_table')) /\ QuotesThen(model_bbo, mem, m, model_bbo')
    <3>1. m.type # "A" /\ m.type # "D" /\ m.type # "U"
      OBVIOUS
    <3>2. Pictured(ref_table') = [mem EXCEPT ![h] = [mem[h] EXCEPT !.shares = Rest(mem[h], m)]]
      BY <2>9, <2>10, <2>11, Zenon
    <3> QED
      BY <2>1, <2>12, <3>1, <3>2, Zenon DEF TableThen, QuotesThen
  <2> QED
    BY <1>5, <2>8, <2>13 DEF Moves
<1>7. CASE ~(e.shares > m.shares)
  <2>1. m.type = "E"
    BY <1>1, <1>4, <1>7
  <2>2. /\ ref_table' = [ref_table EXCEPT ![h] = Empty]
        /\ model_bbo' = Book!Model!Cleared(e.price, e.side, e.sym_id)
    BY <1>2, <1>7 DEF Book!Model!cancel
  <2>3. Filed(ref_table')
    BY <1>3, <2>2, FiledExcept
  <2>4. Pictured(ref_table') = [mem EXCEPT ![h] = Empty]
    BY <1>1, <1>3, <2>2 DEF Image, Pictured
  <2>5. model_bbo' = Lowered(model_bbo, mem[h], m.sym)
    BY <1>2, <1>3, <2>2, ClearedIsLowered
  <2>6. Rest(mem[h], m) = 0
    BY <1>4, <1>7 DEF Rest
  <2>7. TableThen(mem, m, Pictured(ref_table')) /\ QuotesThen(model_bbo, mem, m, model_bbo')
    BY <2>1, <2>4, <2>5, <2>6 DEF TableThen, QuotesThen
  <2> QED
    BY <1>5, <2>3, <2>7 DEF Moves
<1> QED
  BY <1>6, <1>7

LEMMA ReplaceMoves ==
  ASSUME Filed(ref_table), NEW m \in Msgs, m.type = "U", Book!Listed(m),
         Hash[m.new_ref] # Hash[m.ref],
         Book!Model!replace(m.ref, m.new_ref, m.price, m.shares, m.side, m.sym)
  PROVE  Moves(ref_table, model_bbo, m, ref_table', model_bbo')
<1> DEFINE h == Hash[m.ref]
           n == Hash[m.new_ref]
           e == ref_table[h]
           x == Book!Model!Entry(m.new_ref, m.price, m.shares, m.side, m.sym)
           mid == [ref_table EXCEPT ![n] = x]
           mem == Pictured(ref_table)
<1>1. m.ref \in Refs /\ m.new_ref \in Refs
  BY MessageFields
<1>2. Book!Model!Finds(m.ref) /\ m.sym = e.sym_id
  BY DEF Book!Listed
<1>3. /\ h \in Slots /\ n \in Slots /\ mem[h] # Empty /\ mem[h].ref = m.ref
      /\ mem[h].price = e.price /\ mem[h].side = e.side
  <2>1. h \in Slots /\ n \in Slots
    BY <1>1, HashIsSlot
  <2>2. mem[h] # Empty /\ mem[h] = [ref |-> m.ref, price |-> e.price, shares |-> e.shares, side |-> e.side]
    BY <1>1, <1>2, FoundImage
  <2> QED
    BY <2>1, <2>2
<1>4. /\ ref_table' = [ref_table EXCEPT ![h] = Empty, ![n] = x]
      /\ model_bbo' = Book!Model!Raised(Book!Model!Cleared(e.price, e.side, m.sym),
                                        m.price, m.shares, m.side, m.sym)
  BY <1>2 DEF Book!Model!replace
<1>5. /\ x \in Book!Model!RefEntries /\ x.order_ref = m.new_ref /\ Image(x) = Ordered(m.new_ref, m)
      /\ Image(x) \in Orders
  BY <1>1, EntryImage
<1> HIDE DEF x
<1>6. DOMAIN ref_table = Slots /\ DOMAIN mid = Slots
  BY DEF Filed
<1>7. ref_table' = [mid EXCEPT ![h] = Empty]
  BY <1>3, <1>4, <1>6
<1>8. Filed(mid)
  BY <1>3, <1>5, FiledExcept
<1> HIDE DEF mid
<1>9. Filed(ref_table')
  BY <1>3, <1>7, <1>8, FiledExcept
<1>10. Pictured(mid) = [mem EXCEPT ![n] = Ordered(m.new_ref, m)]
  <2>1. Pictured([ref_table EXCEPT ![n] = x]) = [mem EXCEPT ![n] = Image(x)]
    BY <1>3, <1>6 DEF Pictured
  <2> QED
    BY <1>5, <2>1 DEF mid
<1>11. Pictured(ref_table') = [Pictured(mid) EXCEPT ![h] = Empty]
  BY <1>3, <1>6, <1>7 DEF Image, Pictured
<1>12. model_bbo' = Lifted(Lowered(model_bbo, mem[h], m.sym), model_bbo, m)
  BY <1>3, <1>4, RaisedIsLifted, ClearedIsLowered
<1>13. Meets(mem, m)
  BY <1>3 DEF Meets
<1>14. TableThen(mem, m, Pictured(ref_table')) /\ QuotesThen(model_bbo, mem, m, model_bbo')
  BY <1>10, <1>11, <1>12 DEF TableThen, QuotesThen
<1> QED
  BY <1>9, <1>13, <1>14 DEF Moves

-----------------------------------------------------------------------------
(* The book between two comparisons: a message on its way has yet to do to  *)
(* table and quotes what its method has done to the model's.               *)

UnderWay == {"READ_REF1", "READ_REF2", "PROCESS", "MATCH",
             "SCAN_BOOK", "SCAN_BOOK2", "SCAN_BOOK3", "UPDATE"}

Level == /\ ref_wr = Book!NoWrite
         /\ ref_mem = Pictured(ref_table) /\ bbo = model_bbo

Behind ==
  /\ probe_cnt = 0 /\ ref_wr = Book!NoWrite /\ op \in BookCalls
  /\ Meets(ref_mem, op)
  /\ TableThen(ref_mem, op, Pictured(ref_table))
  /\ QuotesThen(bbo, ref_mem, op, model_bbo)
  /\ book_state # "READ_REF1" => ref_rd_addr = Hash[op.ref]
  /\ book_state \notin {"READ_REF1", "READ_REF2"} => ref_rd_data = ref_mem[Hash[op.ref]]

\* A replace has one more slot to clear.
Clearing ==
  /\ Pictured(ref_table) = [Book!Written(ref_mem, ref_wr) EXCEPT ![ref_rd_addr] = Empty]
  /\ bbo = model_bbo

Writing == Pictured(ref_table) = Book!Written(ref_mem, ref_wr) /\ bbo = model_bbo

BookInv ==
  /\ Filed(ref_table)
  /\ book_state \in UnderWay \cup {"IDLE", "UPDATE2", "DONE"}
  /\ book_state = "IDLE" => Level
  /\ book_state \in UnderWay => Behind
  /\ book_state = "UPDATE2" => Clearing
  /\ book_state = "DONE" => Writing

modelVars == <<ref_table, model_bbo>>

LEMMA NothingWritten ==
  ASSUME NEW mem PROVE Book!Written(mem, Book!NoWrite) = mem
BY DEF Book!Written, Book!NoWrite

\* A message is taken when book and model are level.
LEMMA TakenIsBehind ==
  ASSUME BookInv, NEW m \in BookCalls, Book!Accept(m),
         Moves(ref_table, model_bbo, m, ref_table', model_bbo')
  PROVE  BookInv'
<1>1. Level /\ book_state = "IDLE"
  BY DEF BookInv, Book!Accept
<1>2. /\ book_state' = "READ_REF1" /\ op' = m /\ probe_cnt' = 0 /\ ref_wr' = Book!NoWrite
      /\ ref_mem' = Book!Written(ref_mem, ref_wr) /\ bbo' = bbo
  BY DEF Book!Accept, Book!Tick, BookCalls
<1>3. ref_mem' = Pictured(ref_table) /\ bbo' = model_bbo
  BY <1>1, <1>2, NothingWritten DEF Level
<1>4. /\ Filed(ref_table') /\ Meets(ref_mem', op')
      /\ TableThen(ref_mem', op', Pictured(ref_table'))
      /\ QuotesThen(bbo', ref_mem', op', model_bbo')
  BY <1>2, <1>3 DEF Moves
<1>5. Behind'
  BY <1>2, <1>4 DEF Behind
<1> QED
  BY <1>2, <1>4, <1>5 DEF BookInv, UnderWay

LEMMA StressStep ==
  ASSUME BookInv, NEW m \in Msgs,
         \/ Book!StressAdd(m) \/ Book!StressDelete(m)
         \/ Book!StressReduce(m) \/ Book!StressReplace(m)
  PROVE  BookInv'
<1>1. Filed(ref_table)
  BY DEF BookInv
<1>2. CASE Book!StressAdd(m) /\ Book!Model!Collides(m.ref)
  <2>1. /\ UNCHANGED <<ref_table, model_bbo>>
        /\ UNCHANGED <<book_state, op, probe_cnt, ref_rd_addr, ref_rd_data, ref_wr,
                       ref_mem, bbo>>
    BY <1>2 DEF Book!StressAdd, Book!Model!add, Book!vars
  <2> QED
    BY <2>1 DEF BookInv, Level, Behind, Clearing, Writing
<1>3. CASE Book!StressAdd(m) /\ ~Book!Model!Collides(m.ref)
  <2>1. /\ m.type = "A" /\ Book!Accept(m)
        /\ Book!Model!add(m.ref, m.price, m.shares, m.side, m.sym)
    BY <1>3, Zenon DEF Book!StressAdd
  <2>2. Moves(ref_table, model_bbo, m, ref_table', model_bbo')
    BY <1>1, <1>3, <2>1, AddMoves
  <2> QED
    BY <2>1, <2>2, TakenIsBehind DEF BookCalls
<1>4. CASE Book!StressDelete(m)
  <2>1. /\ m.type = "D" /\ Book!Listed(m) /\ Book!Accept(m) /\ Book!Model!delete(m.ref)
    BY <1>4, Zenon DEF Book!StressDelete
  <2>2. Moves(ref_table, model_bbo, m, ref_table', model_bbo')
    BY <1>1, <2>1, DeleteMoves
  <2> QED
    BY <2>1, <2>2, TakenIsBehind DEF BookCalls
<1>5. CASE Book!StressReduce(m)
  <2>1. /\ m.type \in {"X", "E"} /\ Book!Listed(m) /\ Book!Accept(m)
        /\ m.type = "X" => m.shares < ref_table[Hash[m.ref]].shares
        /\ Book!Model!cancel(m.ref, m.shares)
    BY <1>5, Zenon DEF Book!StressReduce, Book!Model!execute
  <2>2. Moves(ref_table, model_bbo, m, ref_table', model_bbo')
    BY <1>1, <2>1, ReduceMoves
  <2> QED
    BY <2>1, <2>2, TakenIsBehind DEF BookCalls
<1>6. CASE Book!StressReplace(m)
  <2>1. /\ m.type = "U" /\ Book!Listed(m) /\ Book!Accept(m)
        /\ Hash[m.new_ref] # Hash[m.ref]
        /\ Book!Model!replace(m.ref, m.new_ref, m.price, m.shares, m.side, m.sym)
    BY <1>6, Zenon DEF Book!StressReplace
  <2>2. Moves(ref_table, model_bbo, m, ref_table', model_bbo')
    BY <1>1, <2>1, ReplaceMoves
  <2> QED
    BY <2>1, <2>2, TakenIsBehind DEF BookCalls
<1> QED
  BY <1>2, <1>3, <1>4, <1>5, <1>6

\* The slot is found at the first probe; the pipeline carries what it holds.
LEMMA LookupStep ==
  ASSUME BookInv, UNCHANGED modelVars,
         \/ Book!ReadRef1 \/ Book!ReadRef2 \/ Book!Process \/ Book!Match
         \/ Book!ScanBook \/ Book!ScanBook2 \/ Book!ScanBook3
  PROVE  BookInv'
<1>1. book_state \in UnderWay /\ Behind
  BY DEF BookInv, UnderWay, Book!ReadRef1, Book!ReadRef2, Book!Process, Book!Match,
         Book!ScanBook, Book!ScanBook2, Book!ScanBook3, Book!Pipeline
<1>2. /\ UNCHANGED <<op, bbo>> /\ ref_wr' = Book!NoWrite
      /\ ref_mem' = Book!Written(ref_mem, ref_wr)
  BY DEF Book!ReadRef1, Book!ReadRef2, Book!Process, Book!Match, Book!Tick,
         Book!ScanBook, Book!ScanBook2, Book!ScanBook3, Book!Pipeline
<1>3. ref_mem' = ref_mem /\ ref_table' = ref_table /\ model_bbo' = model_bbo
  BY <1>1, <1>2, NothingWritten DEF Behind, modelVars
<1>4. Filed(ref_table')
  BY <1>3 DEF BookInv
<1>5. SUFFICES /\ book_state' \in UnderWay /\ probe_cnt' = 0
               /\ book_state' # "READ_REF1" => ref_rd_addr' = Hash[op.ref]
               /\ book_state' \notin {"READ_REF1", "READ_REF2"}
                    => ref_rd_data' = ref_mem[Hash[op.ref]]
  <2>1. Behind'
    BY <1>1, <1>2, <1>3, <1>5 DEF Behind
  <2> QED
    BY <1>4, <1>5, <2>1 DEF BookInv, UnderWay
<1>6. CASE Book!ReadRef1
  <2>1. ref_rd_addr' = Hash[op.ref]
    <3>1. op.ref \in Refs
      BY <1>1, MessageFields DEF Behind, BookCalls
    <3> QED
      BY <1>1, <1>6, <3>1, FirstProbe DEF Behind, Book!ReadRef1
  <2> QED
    BY <1>1, <1>6, <2>1 DEF Behind, Book!ReadRef1, UnderWay
<1>7. CASE Book!ReadRef2
  BY <1>1, <1>7 DEF Behind, Book!ReadRef2, UnderWay
<1>8. CASE Book!Process \/ Book!ScanBook \/ Book!ScanBook2 \/ Book!ScanBook3
  BY <1>1, <1>8 DEF Behind, Book!Process, Book!ScanBook, Book!ScanBook2, Book!ScanBook3,
                    Book!Pipeline, UnderWay
<1>9. CASE Book!Match
  <2>1. ref_rd_data = ref_mem[Hash[op.ref]] /\ ref_rd_addr = Hash[op.ref]
    BY <1>1, <1>9 DEF Behind, Book!Match
  <2>2. Book!MatchFound
    BY <1>1, <2>1 DEF Behind, Meets, BookCalls, Book!MatchFound, Book!IsAdd, Book!Adds,
                      Book!RefMatch, Book!RefEmpty
  <2>3. book_state' = "SCAN_BOOK" /\ probe_cnt' = probe_cnt
    BY <1>9, <2>2 DEF Book!Match, Book!MatchGivesUp, Book!ProbeMore
  <2>4. ref_rd_addr' = ref_rd_addr /\ ref_rd_data' = ref_rd_data
    BY <1>9 DEF Book!Match
  <2> QED
    BY <1>1, <2>1, <2>3, <2>4 DEF Behind, UnderWay
<1> QED
  BY <1>6, <1>7, <1>8, <1>9

\* In UPDATE the book does what it was behind with.
LEMMA UpdateStep ==
  ASSUME BookInv, UNCHANGED modelVars,
         \/ Book!UpdateAdd \/ Book!UpdateCancel \/ Book!UpdateDelete
         \/ Book!UpdateExecute \/ Book!UpdateReplace
  PROVE  BookInv'
<1> DEFINE h == Hash[op.ref]
           e == ref_mem[h]
<1>1. book_state = "UPDATE" /\ Behind
  BY DEF BookInv, UnderWay, Book!UpdateAdd, Book!UpdateCancel, Book!UpdateDelete,
         Book!UpdateExecute, Book!UpdateReplace, Book!Update
<1>2. /\ ref_rd_addr = h /\ ref_rd_data = e /\ ref_wr = Book!NoWrite
      /\ op \in BookCalls /\ Meets(ref_mem, op)
      /\ TableThen(ref_mem, op, Pictured(ref_table)) /\ QuotesThen(bbo, ref_mem, op, model_bbo)
  BY <1>1 DEF Behind
<1>3. ref_rd_addr' = ref_rd_addr
  BY DEF Book!UpdateAdd, Book!UpdateCancel, Book!UpdateDelete,
         Book!UpdateExecute, Book!UpdateReplace, Book!Update
<1>4. ref_mem' = ref_mem
  <2>1. ref_mem' = Book!Written(ref_mem, ref_wr)
    BY DEF Book!UpdateAdd, Book!UpdateCancel, Book!UpdateDelete,
           Book!UpdateExecute, Book!UpdateReplace, Book!Tick
  <2> QED
    BY <1>2, <2>1, NothingWritten
<1>5. ref_table' = ref_table /\ model_bbo' = model_bbo /\ Filed(ref_table')
  BY DEF modelVars, BookInv
<1>6. Book!NewShares = Rest(e, op)
  BY <1>2 DEF Book!NewShares, Rest
<1>7. Book!DropQuote(bbo) = Lowered(bbo, e, op.sym)
  BY <1>2, Zenon DEF Book!DropQuote, Lowered, Book!At
<1>8. ASSUME NEW b PROVE Book!RaiseQuote(b) = Lifted(b, bbo, op)
  BY Zenon DEF Book!RaiseQuote, Book!Better, Lifted, Beats, Book!At
<1>9. ASSUME NEW a, NEW d, ref_wr' = Book!Write(a, d)
      PROVE  Book!Written(ref_mem', ref_wr') = [ref_mem EXCEPT ![a] = d]
  BY <1>4, <1>9 DEF Book!Written, Book!Write
<1>10. ASSUME book_state' = "DONE", bbo' = model_bbo, NEW d, ref_wr' = Book!Write(h, d),
              Pictured(ref_table) = [ref_mem EXCEPT ![h] = d]
       PROVE  BookInv'
  <2>1. Writing'
    BY <1>5, <1>9, <1>10 DEF Writing
  <2> QED
    BY <1>5, <1>10, <2>1 DEF BookInv, UnderWay
<1>11. CASE Book!UpdateAdd
  <2>1. /\ op.type = "A" /\ book_state' = "DONE" /\ bbo' = Book!RaiseQuote(bbo)
        /\ ref_wr' = Book!Write(h, Book!OpOrder(op.ref))
    BY <1>2, <1>11 DEF Book!UpdateAdd, Book!Update, Book!Tick, BookCalls, Book!Adds
  <2>2. bbo' = model_bbo
    BY <1>2, <1>8, <2>1 DEF QuotesThen
  <2>3. Pictured(ref_table) = [ref_mem EXCEPT ![h] = Book!OpOrder(op.ref)]
    BY <1>2, <2>1 DEF TableThen, Ordered, Book!OpOrder
  <2> QED
    BY <1>10, <2>1, <2>2, <2>3
<1>12. CASE Book!UpdateCancel
  <2>1. /\ op.type = "X" /\ book_state' = "DONE" /\ ref_wr' = Book!Write(h, Book!Reduced)
        /\ bbo' = IF Book!NewShares = 0 THEN Book!DropQuote(bbo) ELSE bbo
    BY <1>2, <1>12 DEF Book!UpdateCancel, Book!Update, Book!Tick
  <2>2. Rest(e, op) # 0
    BY <1>2, <2>1 DEF Meets
  <2>3. bbo' = model_bbo
    BY <1>2, <1>6, <2>1, <2>2 DEF QuotesThen
  <2>4. Pictured(ref_table) = [ref_mem EXCEPT ![h] = Book!Reduced]
    BY <1>2, <1>6, <2>1 DEF TableThen, Book!Reduced
  <2> QED
    BY <1>10, <2>1, <2>3, <2>4
<1>13. CASE Book!UpdateDelete
  <2>1. /\ op.type = "D" /\ book_state' = "DONE" /\ ref_wr' = Book!Write(h, Empty)
        /\ bbo' = Book!DropQuote(bbo)
    BY <1>2, <1>13 DEF Book!UpdateDelete, Book!Update, Book!Tick
  <2>2. bbo' = model_bbo
    BY <1>2, <1>7, <2>1 DEF QuotesThen
  <2>3. Pictured(ref_table) = [ref_mem EXCEPT ![h] = Empty]
    BY <1>2, <2>1 DEF TableThen
  <2> QED
    BY <1>10, <2>1, <2>2, <2>3
<1>14. CASE Book!UpdateExecute
  <2>1. op.type = "E" /\ book_state' = "DONE"
    BY <1>2, <1>14 DEF Book!UpdateExecute, Book!Update, BookCalls, Book!Executes
  <2>2. CASE Book!NewShares = 0
    <3>1. ref_wr' = Book!Write(h, Empty) /\ bbo' = Book!DropQuote(bbo)
      BY <1>2, <1>14, <2>2 DEF Book!UpdateExecute, Book!Tick
    <3>2. bbo' = model_bbo
      BY <1>2, <1>6, <1>7, <2>1, <2>2, <3>1 DEF QuotesThen
    <3>3. Pictured(ref_table) = [ref_mem EXCEPT ![h] = Empty]
      BY <1>2, <1>6, <2>1, <2>2 DEF TableThen
    <3> QED
      BY <1>10, <2>1, <3>1, <3>2, <3>3
  <2>3. CASE Book!NewShares # 0
    <3>1. ref_wr' = Book!Write(h, Book!Reduced) /\ bbo' = bbo
      BY <1>2, <1>14, <2>3 DEF Book!UpdateExecute, Book!Tick
    <3>2. bbo' = model_bbo
      BY <1>2, <1>6, <2>1, <2>3, <3>1 DEF QuotesThen
    <3>3. Pictured(ref_table) = [ref_mem EXCEPT ![h] = Book!Reduced]
      BY <1>2, <1>6, <2>1, <2>3 DEF TableThen, Book!Reduced
    <3> QED
      BY <1>10, <2>1, <3>1, <3>2, <3>3
  <2> QED
    BY <2>2, <2>3
<1>15. CASE Book!UpdateReplace
  <2> DEFINE n == Hash[op.new_ref]
             d == Book!OpOrder(op.new_ref)
  <2>1. /\ op.type = "U" /\ book_state' = "UPDATE2" /\ ref_wr' = Book!Write(n, d)
        /\ bbo' = Book!RaiseQuote(Book!DropQuote(bbo))
    BY <1>15 DEF Book!UpdateReplace, Book!Update, Book!Tick
  <2>2. bbo' = model_bbo
    BY <1>2, <1>7, <1>8, <2>1 DEF QuotesThen
  <2>3. Pictured(ref_table) = [[ref_mem EXCEPT ![n] = d] EXCEPT ![h] = Empty]
    BY <1>2, <2>1 DEF TableThen, Ordered, Book!OpOrder
  <2>4. Book!Written(ref_mem', ref_wr') = [ref_mem EXCEPT ![n] = d]
    BY <1>9, <2>1
  <2>5. Clearing'
    BY <1>2, <1>3, <1>5, <2>2, <2>3, <2>4 DEF Clearing
  <2> QED
    BY <1>5, <2>1, <2>5 DEF BookInv, UnderWay
<1> QED
  BY <1>11, <1>12, <1>13, <1>14, <1>15

LEMMA RestStep ==
  ASSUME BookInv, UNCHANGED modelVars, Book!Idle \/ Book!Update2 \/ Book!Done
  PROVE  BookInv'
<1>1. ref_table' = ref_table /\ model_bbo' = model_bbo /\ Filed(ref_table') /\ bbo' = bbo
  BY DEF modelVars, BookInv, Book!Idle, Book!Update2, Book!Done
<1>2. ref_mem' = Book!Written(ref_mem, ref_wr)
  BY DEF Book!Idle, Book!Update2, Book!Done, Book!Tick
<1>3. CASE Book!Idle
  <2>1. Level /\ ref_wr' = Book!NoWrite /\ book_state' = "IDLE"
    BY <1>3 DEF BookInv, Book!Idle, Book!Tick
  <2>2. Level'
    BY <1>1, <1>2, <2>1, NothingWritten DEF Level
  <2> QED
    BY <1>1, <2>1, <2>2 DEF BookInv, UnderWay
<1>4. CASE Book!Update2
  <2>1. /\ Clearing /\ ref_wr' = Book!Write(ref_rd_addr, Empty) /\ book_state' = "DONE"
    BY <1>4 DEF BookInv, Book!Update2, Book!Tick
  <2>2. Book!Written(ref_mem', ref_wr') = [ref_mem' EXCEPT ![ref_rd_addr] = Empty]
    BY <2>1 DEF Book!Written, Book!Write
  <2>3. Writing'
    BY <1>1, <1>2, <2>1, <2>2 DEF Writing, Clearing
  <2> QED
    BY <1>1, <2>1, <2>3 DEF BookInv, UnderWay
<1>5. CASE Book!Done
  <2>1. /\ Writing /\ ref_wr' = Book!NoWrite /\ book_state' = "IDLE"
    BY <1>5 DEF BookInv, Book!Done, Book!Tick
  <2>2. Level'
    BY <1>1, <1>2, <2>1 DEF Level, Writing
  <2> QED
    BY <1>1, <2>1, <2>2 DEF BookInv, UnderWay
<1> QED
  BY <1>3, <1>4, <1>5

LEMMA BookInvHolds == CocotbBenchSpec => []BookInv
<1>1. CocotbBenchInit => BookInv
  <2> SUFFICES ASSUME Book!BenchInit PROVE BookInv
    BY DEF CocotbBenchInit
  <2>1. /\ book_state = "IDLE" /\ ref_wr = Book!NoWrite
        /\ ref_mem = [s \in Slots |-> Empty] /\ ref_table = [s \in Slots |-> Empty]
    BY DEF Book!BenchInit, Book!Init, Book!Model!ModelInit, Slots
  <2>2. bbo = model_bbo
    BY DEF Book!BenchInit, Book!Init, Book!Model!ModelInit, Book!Model!None, Book!NoLevel, Book!Sides
  <2>3. Filed(ref_table)
    BY <2>1 DEF Filed
  <2>4. Pictured(ref_table) = ref_mem
    BY <2>1 DEF Pictured, Image
  <2> QED
    BY <2>1, <2>2, <2>3, <2>4 DEF BookInv, Level, UnderWay
<1>2. BookInv /\ [CocotbBenchNext]_benchVars => BookInv'
  <2> SUFFICES ASSUME BookInv, Book!BenchNext \/ UNCHANGED bookVars PROVE BookInv'
    BY Zenon DEF CocotbBenchNext, benchVars
  <2>1. CASE UNCHANGED bookVars
    <3>1. UNCHANGED <<book_state, op, probe_cnt, ref_rd_addr, ref_rd_data, ref_wr, ref_mem,
                      bbo, ref_table, model_bbo>>
      BY <2>1 DEF bookVars
    <3> QED
      BY <3>1 DEF BookInv, Level, Behind, Clearing, Writing
  <2>2. CASE \E m \in Msgs : \/ Book!StressAdd(m) \/ Book!StressDelete(m)
                             \/ Book!StressReduce(m) \/ Book!StressReplace(m)
    BY <2>2, StressStep
  <2>3. CASE (Book!Idle \/ Book!Busy) /\ UNCHANGED <<ref_table, model_bbo, drops>>
    <3>1. UNCHANGED modelVars
      BY <2>3 DEF modelVars
    <3> QED
      BY <2>3, <3>1, LookupStep, UpdateStep, RestStep, Zenon DEF Book!Busy
  <2> QED
    BY <2>1, <2>2, <2>3, Zenon DEF Book!BenchNext
<1> QED
  BY <1>1, <1>2, PTL DEF CocotbBenchSpec

\* Whatever the references, the hash, the size of the table and the messages:
\* whenever the book is ready, its quotes are those of the Python model.
THEOREM BookIsModel == CocotbBenchSpec => []BookMatchesModel
<1>1. BookInv => BookMatchesModel
  BY DEF BookInv, Level, BookMatchesModel, Book!BookMatchesModel, Book!Model!get_bbo
<1> QED
  BY <1>1, BookInvHolds, PTL

\* And an order the model knows is in its base slot, as the model has it.
THEOREM TableIsModel == CocotbBenchSpec => []TableMatchesModel
<1>1. BookInv => TableMatchesModel
  <2> SUFFICES ASSUME BookInv, book_state = "IDLE", NEW r \in Refs, Book!Model!Finds(r)
               PROVE  Book!BookFinds(r)
    BY DEF TableMatchesModel, Book!TableMatchesModel
  <2>1. Filed(ref_table) /\ ref_wr = Book!NoWrite /\ ref_mem = Pictured(ref_table)
    BY DEF BookInv, Level
  <2>2. Book!Written(ref_mem, ref_wr) = Pictured(ref_table)
    BY <2>1, NothingWritten
  <2>3. Pictured(ref_table)[Hash[r]]
          = [ref |-> r, price |-> ref_table[Hash[r]].price,
             shares |-> ref_table[Hash[r]].shares, side |-> ref_table[Hash[r]].side]
    BY <2>1, FoundImage
  <2>4. 0 \in 0 .. MaxProbe /\ 0 .. 0 - 1 = {}
    BY BookAssumption
  <2>5. Book!ProbeSlot(r, 0) = Hash[r]
    BY FirstProbe
  <2> QED
    BY <2>2, <2>3, <2>4, <2>5, Zenon DEF Book!BookFinds
<1> QED
  BY <1>1, BookInvHolds, PTL

-----------------------------------------------------------------------------
(* The header stripper between the coroutines of its test. *)

\* Induction, of a set of numbers.
LEMMA AllNumbers ==
  ASSUME NEW S, 0 \in S, \A n \in Nat : n \in S => n + 1 \in S
  PROVE  Nat \subseteq S
<1> SUFFICES ASSUME Nat \ S # {} PROVE FALSE
  OBVIOUS
<1> DEFINE R == OpToRel(<, Nat)
<1>1. \A a, b \in Nat : <<a, b>> \in R <=> a < b
  BY DEF OpToRel
<1>2. IsWellFoundedOn(R, Nat)
  BY NatLessThanWellFounded
<1> HIDE DEF R
<1>3. PICK n \in Nat \ S : \A k \in Nat \ S : ~(<<k, n>> \in R)
  BY <1>2, WFMin
<1>4. n # 0 /\ n - 1 \in Nat /\ n - 1 < n /\ (n - 1) + 1 = n
  BY <1>3
<1>5. n - 1 \in S
  BY <1>1, <1>3, <1>4
<1> QED
  BY <1>3, <1>4, <1>5

\* What beats_to_bytes gathers, beat by beat.
Gathers(f, bs, n) == f = [k \in 0 .. n |-> IF k = 0 THEN << >> ELSE f[k - 1] \o bs[k].bytes]

LEMMA GathersAll == ASSUME NEW bs, NEW m \in Nat PROVE \E f : Gathers(f, bs, m)
<1> DEFINE S == {n \in Nat : \E f : Gathers(f, bs, n)}
<1>1. 0 \in S
  <2>1. Gathers([k \in 0 .. 0 |-> << >>], bs, 0)
    BY DEF Gathers
  <2> QED
    BY <2>1
<1>2. ASSUME NEW n \in Nat, n \in S PROVE n + 1 \in S
  <2>1. PICK f : Gathers(f, bs, n)
    BY <1>2
  <2> DEFINE g == [k \in 0 .. n + 1 |-> IF k = n + 1 THEN f[n] \o bs[n + 1].bytes ELSE f[k]]
  <2>2. ASSUME NEW k \in 0 .. n + 1
        PROVE  g[k] = IF k = 0 THEN << >> ELSE g[k - 1] \o bs[k].bytes
    <3>1. CASE k = n + 1
      <4>1. k # 0 /\ k - 1 = n /\ n # n + 1 /\ n \in 0 .. n + 1
        BY <3>1
      <4> QED
        BY <3>1, <4>1
    <3>2. CASE k # n + 1 /\ k # 0
      <4>1. k \in 0 .. n /\ k - 1 \in 0 .. n /\ k - 1 \in 0 .. n + 1 /\ k - 1 # n + 1
        BY <3>2
      <4>2. f[k] = f[k - 1] \o bs[k].bytes
        BY <2>1, <3>2, <4>1 DEF Gathers
      <4> QED
        BY <3>2, <4>1, <4>2
    <3>3. CASE k # n + 1 /\ k = 0
      <4>1. f[0] = << >>
        BY <2>1, <3>3 DEF Gathers
      <4> QED
        BY <3>3, <4>1
    <3> QED
      BY <3>1, <3>2, <3>3
  <2>3. g = [k \in 0 .. n + 1 |-> IF k = 0 THEN << >> ELSE g[k - 1] \o bs[k].bytes]
    <3> DEFINE G == [k \in 0 .. n + 1 |-> IF k = 0 THEN << >> ELSE g[k - 1] \o bs[k].bytes]
    <3>1. \A k \in 0 .. n + 1 : g[k] = G[k]
      BY <2>2
    <3>2. g = [k \in 0 .. n + 1 |-> g[k]] /\ G = [k \in 0 .. n + 1 |-> G[k]]
      OBVIOUS
    <3> HIDE DEF g, G
    <3>3. g = G
      BY <3>1, <3>2
    <3> QED
      BY <3>3 DEF G
  <2> HIDE DEF g
  <2>4. Gathers(g, bs, n + 1)
    BY <2>3 DEF Gathers
  <2> QED
    BY <2>4
<1> HIDE DEF S
<1>3. Nat \subseteq S
  BY <1>1, <1>2, AllNumbers
<1> QED
  BY <1>3 DEF S

LEMMA GathersOne ==
  ASSUME NEW bs, NEW cs, NEW m \in Nat, NEW n \in Nat, n <= m,
         \A k \in 1 .. n : bs[k] = cs[k],
         NEW f, Gathers(f, bs, m), NEW g, Gathers(g, cs, n)
  PROVE  \A k \in 0 .. n : f[k] = g[k]
<1> DEFINE S == {k \in Nat : k <= n => f[k] = g[k]}
<1>1. 0 \in S
  BY DEF Gathers
<1>2. ASSUME NEW k \in Nat, k \in S PROVE k + 1 \in S
  <2> SUFFICES ASSUME k + 1 <= n PROVE f[k + 1] = g[k + 1]
    OBVIOUS
  <2>1. k <= n /\ k + 1 \in 0 .. m /\ k + 1 \in 0 .. n /\ k + 1 # 0 /\ (k + 1) - 1 = k /\ k + 1 \in 1 .. n
    OBVIOUS
  <2>2. f[k + 1] = f[k] \o bs[k + 1].bytes
    BY <2>1 DEF Gathers
  <2>3. g[k + 1] = g[k] \o cs[k + 1].bytes
    BY <2>1 DEF Gathers
  <2>4. f[k] = g[k]
    BY <1>2, <2>1
  <2> QED
    BY <2>1, <2>2, <2>3, <2>4
<1> HIDE DEF S
<1>3. Nat \subseteq S
  BY <1>1, <1>2, AllNumbers
<1> QED
  BY <1>3 DEF S

LEMMA BytesOf ==
  ASSUME NEW bs, Len(bs) \in Nat, NEW f, Gathers(f, bs, Len(bs))
  PROVE  beats_to_bytes(bs) = f[Len(bs)]
<1> DEFINE g == CHOOSE h : h = [k \in 0 .. Len(bs) |-> IF k = 0 THEN << >> ELSE h[k - 1] \o bs[k].bytes]
<1>1. Gathers(g, bs, Len(bs))
  BY DEF Gathers
<1>2. beats_to_bytes(bs) = g[Len(bs)]
  BY DEF beats_to_bytes
<1> HIDE DEF g
<1>3. g[Len(bs)] = f[Len(bs)]
  BY <1>1, GathersOne
<1> QED
  BY <1>2, <1>3, Zenon

LEMMA NoBytes == beats_to_bytes(<< >>) = << >>
<1>1. PICK f : Gathers(f, << >>, 0)
  BY GathersAll
<1>2. beats_to_bytes(<< >>) = f[0]
  BY <1>1, BytesOf
<1> QED
  BY <1>1, <1>2 DEF Gathers

LEMMA MoreBytes ==
  ASSUME NEW X, NEW bs \in Seq(X), NEW b \in X
  PROVE  beats_to_bytes(Append(bs, b)) = beats_to_bytes(bs) \o b.bytes
<1> DEFINE cs == Append(bs, b)
           n == Len(bs)
<1>1. n \in Nat /\ Len(cs) = n + 1 /\ cs[n + 1] = b /\ \A k \in 1 .. n : cs[k] = bs[k]
  BY AppendProperties, LenProperties
<1> HIDE DEF cs, n
<1>2. n + 1 \in Nat /\ n <= n + 1 /\ n + 1 \in 0 .. n + 1 /\ n \in 0 .. n /\ n + 1 # 0 /\ (n + 1) - 1 = n
  BY <1>1
<1>3. PICK f : Gathers(f, cs, n + 1)
  BY <1>2, GathersAll
<1>4. PICK g : Gathers(g, bs, n)
  BY <1>1, GathersAll
<1>5. beats_to_bytes(cs) = f[n + 1] /\ beats_to_bytes(bs) = g[n]
  BY <1>1, <1>2, <1>3, <1>4, BytesOf DEF n
<1>6. f[n] = g[n]
  BY <1>1, <1>2, <1>3, <1>4, GathersOne
<1>7. f[n + 1] = f[n] \o cs[n + 1].bytes
  BY <1>2, <1>3 DEF Gathers
<1> QED
  BY <1>1, <1>5, <1>6, <1>7 DEF cs

-----------------------------------------------------------------------------
(* A datagram on its way through the stripper.                             *)

Whole(d) ==
  /\ d.bytes \in Seq(MoldByte) /\ Len(d.bytes) \in Nat /\ Len(d.bytes) >= 20
  /\ Len(d.bytes) <= 24 \/ Len(d.bytes) % 8 \in 1 .. 4
  /\ d.seq \in Nat /\ d.count \in {1, 2} /\ d.idle \in Nat
Part(s, a, b) == SubSeq(s, a, b)
Cut(d, a, b) == Part(d.bytes, a, b)

LEMMA CutIsSeq ==
  ASSUME NEW d, Whole(d), NEW a \in Nat \ {0}, NEW b \in Nat, b <= Len(d.bytes)
  PROVE  /\ Cut(d, a, b) \in Seq(MoldByte)
         /\ Len(Cut(d, a, b)) = IF a <= b THEN b - a + 1 ELSE 0
         /\ b < a => Cut(d, a, b) = << >>
<1>1. \A i \in a .. b : d.bytes[i] \in MoldByte
  BY ElementOfSeq DEF Whole
<1>2. a \in Int /\ b \in Int
  OBVIOUS
<1>3. b < a => Cut(d, a, b) = << >>
  BY <1>2, SubSeqEmpty DEF Cut, Part
<1> QED
  BY <1>1, <1>2, <1>3, SubSeqProperties DEF Cut, Part

LEMMA CutsMeet ==
  ASSUME NEW d, Whole(d), NEW a \in Nat, NEW b \in Nat, NEW c \in Nat,
         1 <= a, a <= b + 1, b <= c, c <= Len(d.bytes)
  PROVE  Cut(d, a, b) \o Cut(d, b + 1, c) = Cut(d, a, c)
<1>1. /\ d.bytes \in Seq(MoldByte) /\ a \in 1 .. Len(d.bytes) + 1
      /\ b \in a - 1 .. Len(d.bytes) /\ c \in b .. Len(d.bytes)
  BY DEF Whole
<1> QED
  BY <1>1, ConcatAdjacentSubSeq DEF Cut, Part

LEMMA CutOfCut ==
  ASSUME NEW d, Whole(d), NEW a \in Nat, NEW b \in Nat, NEW i \in Nat, NEW j \in Nat,
         1 <= a, b <= Len(d.bytes), 1 <= i, j <= b + 1 - a, a <= b,
         NEW p, NEW q, p = a + i - 1, q = a + j - 1
  PROVE  Part(Cut(d, a, b), i, j) = Cut(d, p, q)
<1>1. CASE j < i
  <2>1. Part(Cut(d, a, b), i, j) = << >>
    BY <1>1, SubSeqEmpty DEF Part
  <2>2. p \in Int /\ q \in Int /\ q < p
    BY <1>1
  <2>3. Cut(d, p, q) = << >>
    BY <2>2, SubSeqEmpty DEF Cut, Part
  <2> QED
    BY <2>1, <2>3
<1>2. CASE i <= j
  <2>1. /\ d.bytes \in Seq(MoldByte) /\ a \in 1 .. Len(d.bytes) /\ b \in 1 .. Len(d.bytes)
        /\ i \in 1 .. b - a + 1 /\ j \in 1 .. b - a + 1
    BY <1>2 DEF Whole
  <2> QED
    BY <2>1, SubSeqOfSubSeq DEF Cut, Part
<1> QED
  BY <1>1, <1>2

\* A beat b of the datagram d, and what its halves are.
Halves(b, d, k, o, n, f, t, a, u) ==
  /\ b \in SlaveBeat /\ b # NoBeat /\ b.bytes \in Seq(MoldByte)
  /\ b.seq = d.seq /\ b.count = d.count
  /\ b.last <=> o + 8 >= n
  /\ LastBeat(d, k) <=> o + 8 >= n
  /\ Len(b.bytes) = t - o
  /\ Strip!Upper(b.bytes) = Cut(d, f, t)
  /\ Strip!Lower(b.bytes) = Cut(d, a, u)
Ends(o, n, f, t, a, u) ==
  /\ o \in Nat /\ n \in Nat /\ o < n /\ f = o + 5 /\ a = o + 1
  /\ t \in Nat
  /\ o + 8 < n => t = o + 8
  /\ o + 8 >= n => t = n
  /\ u \in Nat
  /\ o + 4 < n => u = o + 4
  /\ o + 4 >= n => u = n

\* The beat behind the first o bytes: halves that meet the next beat's.
LEMMA BeatCuts ==
  ASSUME NEW d, Whole(d), NEW k \in Nat, NEW o \in Nat, o = 8 * k, o < Len(d.bytes),
         NEW b, b = BeatAt(d, k), NEW n, n = Len(d.bytes),
         NEW f, f = o + 5, NEW t, o + 8 < n => t = o + 8, o + 8 >= n => t = n,
         NEW a, a = o + 1, NEW u, o + 4 < n => u = o + 4, o + 4 >= n => u = n
  PROVE  Halves(b, d, k, o, n, f, t, a, u)
<1>1. n \in Nat /\ t \in Nat /\ t <= n /\ a \in Nat \ {0} /\ a <= t /\ o < n
  BY DEF Whole
<1>2. b.bytes = Cut(d, a, t) /\ b.seq = d.seq /\ b.count = d.count
  <2>1. t = IF o + 8 < n THEN o + 8 ELSE n
    BY <1>1
  <2> QED
    BY <2>1 DEF BeatAt, Cut, Part
<1>3. LastBeat(d, k) <=> o + 8 >= n
  BY DEF LastBeat
<1>4. b.bytes \in Seq(MoldByte) /\ Len(b.bytes) = t - o
  <2>1. /\ Cut(d, a, t) \in Seq(MoldByte)
        /\ Len(Cut(d, a, t)) = IF a <= t THEN t - a + 1 ELSE 0
    BY <1>1, CutIsSeq
  <2>2. t - a + 1 = t - o
    BY <1>1
  <2> QED
    BY <1>1, <1>2, <2>1, <2>2
<1>5. b.last = (o + 8 >= n)
  BY DEF BeatAt
<1>6. b \in SlaveBeat
  <2>1. d.seq \in Nat /\ d.count \in Nat /\ (o + 8 >= n) \in BOOLEAN
    BY DEF Whole
  <2>2. b = [bytes |-> b.bytes, last |-> b.last, seq |-> b.seq, count |-> b.count]
    BY DEF BeatAt
  <2>3. b.last \in BOOLEAN /\ b.seq \in Nat /\ b.count \in Nat
    BY <1>2, <1>5, <2>1
  <2> QED
    BY <1>4, <2>2, <2>3, Zenon DEF SlaveBeat
<1>7. b # NoBeat
  BY <1>6, MoldAssumption
<1>8. PICK e : e = t - o
  OBVIOUS
<1>9. PICK j : j = IF e < 4 THEN e ELSE 4
  OBVIOUS
<1>15. (e < 4 => j = e) /\ (e >= 4 => j = 4)
  BY <1>1, <1>8, <1>9
<1>10. /\ e \in Nat /\ j \in Nat /\ 1 <= a
       /\ j <= t + 1 - a /\ e <= t + 1 - a /\ u = a + j - 1 /\ a = a + 1 - 1
       /\ f = a + 5 - 1 /\ t = a + e - 1
  BY <1>1, <1>8, <1>15
<1>11. Strip!Lower(b.bytes) = Part(Cut(d, a, t), 1, j)
  BY <1>2, <1>4, <1>8, <1>9 DEF Strip!Lower, Part
<1>12. Strip!Upper(b.bytes) = Part(Cut(d, a, t), 5, e)
  BY <1>2, <1>4, <1>8 DEF Strip!Upper, Part
<1>13. Part(Cut(d, a, t), 1, j) = Cut(d, a, u)
  <2>1. 1 \in Nat /\ 1 <= 1 /\ a \in Nat /\ t <= Len(d.bytes)
    BY <1>1
  <2> QED
    BY <1>1, <1>10, <2>1, CutOfCut
<1>14. Part(Cut(d, a, t), 5, e) = Cut(d, f, t)
  <2>1. 5 \in Nat /\ 1 <= 5 /\ a \in Nat /\ t <= Len(d.bytes)
    BY <1>1
  <2> QED
    BY <1>1, <1>10, <2>1, CutOfCut
<1> QED
  BY <1>2, <1>3, <1>4, <1>5, <1>6, <1>7, <1>11, <1>12, <1>13, <1>14, Zenon DEF Halves

\* Every datagram of the tests.
LEMMA DatagramsWhole ==
  ASSUME NEW d \in MoldDatagrams, seq \in Nat \ {0} PROVE Whole(d)
<1>1. PICK n \in {seq, seq - 1, seq + 1}, l \in PayloadLengths, c \in {1, 2}, g \in IdleCycles :
        d = Datagram(n, l, c, g)
  BY DEF MoldDatagrams
<1>2. n \in Nat /\ l \in Nat /\ g \in Nat /\ (l <= 4 \/ (20 + l) % 8 \in 1 .. 4)
  BY PayloadAssumption, MoldAssumption
<1> DEFINE f == [i \in 1 .. 20 + l |-> IF i <= 20 THEN Zero ELSE <<n, i - 20>>]
<1>3. d.bytes = f /\ d.seq = n /\ d.count = c /\ d.idle = g
  BY <1>1 DEF Datagram, MoldHeader
<1>4. \A i \in 1 .. 20 + l : f[i] \in MoldByte
  <2> SUFFICES ASSUME NEW i \in 1 .. 20 + l PROVE f[i] \in MoldByte
    OBVIOUS
  <2>1. CASE i <= 20
    BY <2>1 DEF MoldByte, Zero
  <2>2. CASE ~(i <= 20)
    <3>1. i - 20 \in Nat
      BY <2>2
    <3> QED
      BY <1>2, <2>2, <3>1 DEF MoldByte
  <2> QED
    BY <2>1, <2>2
<1>5. f \in Seq(MoldByte) /\ Len(f) = 20 + l
  <2>1. 20 + l \in Nat /\ f \in [1 .. 20 + l -> MoldByte]
    BY <1>2, <1>4
  <2> HIDE DEF f
  <2> QED
    BY <2>1, LenProperties, IsASeq
<1> HIDE DEF f
<1>6. /\ 20 + l \in Nat /\ 20 + l >= 20
      /\ 20 + l <= 24 \/ (20 + l) % 8 \in 1 .. 4
  BY <1>2
<1> QED
  BY <1>2, <1>3, <1>5, <1>6 DEF Whole

\* What one edge makes of a beat, state by state.
LEMMA HeaderEdge ==
  ASSUME NEW b, b # NoBeat, state \in {"B0", "B1"}, ~b.last, Len(b.bytes) = 8, Strip!Clock(b, TRUE)
  PROVE  /\ state' = IF state = "B0" THEN "B1" ELSE "B2"
         /\ expected_seq_num' = expected_seq_num /\ dropped_datagrams' = dropped_datagrams
<1>1. Strip!HeaderB0(b) \/ Strip!HeaderB1(b)
  BY Zenon DEF Strip!Clock, Strip!FlushShort, Strip!Take, Strip!HeaderB2, Strip!Payload, Strip!Drop
<1>2. ~(b.last \/ Len(b.bytes) < 8)
  OBVIOUS
<1>3. CASE Strip!HeaderB0(b)
  BY <1>2, <1>3 DEF Strip!HeaderB0, Strip!Header
<1>4. CASE Strip!HeaderB1(b)
  BY <1>2, <1>4 DEF Strip!HeaderB1, Strip!Header
<1> QED
  BY <1>1, <1>3, <1>4

LEMMA AcceptEdge ==
  ASSUME NEW b, b # NoBeat, state = "B2", Len(b.bytes) \in Nat, Len(b.bytes) >= 4,
         Strip!InOrder(b), Strip!Clock(b, TRUE)
  PROVE  /\ expected_seq_num' = b.seq + b.count /\ dropped_datagrams' = dropped_datagrams
         /\ stage' = Strip!Upper(b.bytes) /\ stage_hi_valid'
         /\ state' = IF b.last THEN "FLUSH" ELSE "PAYLOAD"
<1>1. Strip!HeaderB2(b)
  BY Zenon DEF Strip!Clock, Strip!FlushShort, Strip!Take, Strip!HeaderB0, Strip!HeaderB1, Strip!Payload, Strip!Drop
<1>2. ~(Len(b.bytes) < 4)
  OBVIOUS
<1>3. Strip!Accept(b)
  BY <1>1, <1>2, Zenon DEF Strip!HeaderB2, Strip!Malformed, Strip!OutOfOrder
<1> QED
  BY <1>3 DEF Strip!Accept, Strip!Advanced

LEMMA RejectEdge ==
  ASSUME NEW b, b # NoBeat, state = "B2", Len(b.bytes) \in Nat, Len(b.bytes) >= 4,
         ~Strip!InOrder(b), Strip!Clock(b, TRUE)
  PROVE  /\ expected_seq_num' = expected_seq_num
         /\ dropped_datagrams' = IF dropped_datagrams = DropMax THEN DropMax ELSE dropped_datagrams + 1
         /\ state' = IF b.last THEN "B0" ELSE "DROP"
<1>1. Strip!HeaderB2(b)
  BY Zenon DEF Strip!Clock, Strip!FlushShort, Strip!Take, Strip!HeaderB0, Strip!HeaderB1, Strip!Payload, Strip!Drop
<1>2. ~(Len(b.bytes) < 4)
  OBVIOUS
<1>3. Strip!OutOfOrder(b)
  BY <1>1, <1>2, Zenon DEF Strip!HeaderB2, Strip!Malformed, Strip!Accept
<1> QED
  BY <1>3 DEF Strip!OutOfOrder, Strip!Skip

LEMMA PayloadEdge ==
  ASSUME NEW b, b # NoBeat, state = "PAYLOAD", Strip!Clock(b, TRUE)
  PROVE  /\ expected_seq_num' = expected_seq_num /\ dropped_datagrams' = dropped_datagrams
         /\ stage' = Strip!Upper(b.bytes)
         /\ stage_hi_valid' = (~b.last \/ Strip!Upper(b.bytes) # << >>)
         /\ state' = IF b.last THEN "B0" ELSE "PAYLOAD"
<1>1. Strip!Payload(b, TRUE)
  BY Zenon DEF Strip!Clock, Strip!FlushShort, Strip!Take, Strip!HeaderB0, Strip!HeaderB1, Strip!HeaderB2, Strip!Drop
<1> QED
  BY <1>1 DEF Strip!Payload, Strip!Staged

LEMMA DropEdge ==
  ASSUME NEW b, b # NoBeat, state = "DROP", Strip!Clock(b, TRUE)
  PROVE  /\ expected_seq_num' = expected_seq_num /\ dropped_datagrams' = dropped_datagrams
         /\ state' = IF b.last THEN "B0" ELSE "DROP"
<1>1. Strip!Drop(b)
  BY Zenon DEF Strip!Clock, Strip!FlushShort, Strip!Take, Strip!HeaderB0, Strip!HeaderB1, Strip!HeaderB2, Strip!Payload
<1> QED
  BY <1>1 DEF Strip!Drop

LEMMA IdleEdge ==
  ASSUME state # "FLUSH", Strip!Clock(NoBeat, TRUE)
  PROVE  UNCHANGED stripVars
BY Zenon DEF Strip!Clock, Strip!FlushShort, stripVars, Strip!stripVars

LEMMA FlushEdge ==
  ASSUME NEW b, state = "FLUSH", Strip!Clock(b, TRUE)
  PROVE  /\ state' = "B0"
         /\ expected_seq_num' = expected_seq_num /\ dropped_datagrams' = dropped_datagrams
<1>1. Strip!FlushShort(TRUE)
  BY Zenon DEF Strip!Clock
<1> QED
  BY <1>1 DEF Strip!FlushShort

-----------------------------------------------------------------------------
\* The invariant: where the datagram d is after k beats.

MoldTypes ==
  /\ seq \in Nat \ {0} /\ dropped \in 0 .. DropMax
  /\ expected_seq_num \in Nat /\ dropped_datagrams \in Nat
  /\ gap \in Nat /\ pos \in Nat /\ good \in BOOLEAN /\ collecting \in BOOLEAN
  /\ beats \in Seq(MasterBeat)

Counted == expected_seq_num = seq /\ dropped_datagrams = dropped

\* The test has counted it, and the header is not yet through.
InHeader(d, k) ==
  /\ k = 0 => state = "B0"
  /\ k = 1 => state = "B1"
  /\ k = 2 => state = "B2"
  /\ beats = << >>
  /\ good => /\ expected_seq_num = d.seq /\ seq = d.seq + d.count
             /\ dropped_datagrams = dropped
  /\ ~good => expected_seq_num = seq /\ d.seq # seq /\ dropped = dropped_datagrams + 1

\* Four bytes are staged, those before them collected.
InBody(d, k) ==
  /\ Counted
  /\ good => /\ state = "PAYLOAD" /\ stage_hi_valid
             /\ stage = Cut(d, 8 * k - 3, 8 * k)
             /\ beats_to_bytes(beats) = Cut(d, 21, 8 * k - 4)
  /\ ~good => state = "DROP" /\ beats = << >>

InFlight(d, k) ==
  /\ dgram = d /\ pos = k /\ Whole(d) /\ flush = 0 /\ collecting /\ 8 * k < Len(d.bytes)
  /\ gap = 0 => s_beat = BeatAt(d, k)
  /\ gap # 0 => s_beat = NoBeat
  /\ k \in {0, 1, 2} => InHeader(d, k)
  /\ k \notin {0, 1, 2} => InBody(d, k)

Received(d) ==
  /\ good => /\ beats # << >> /\ beats[Len(beats)].last
             /\ beats_to_bytes(beats) = PayloadOf(d)
  /\ ~good => beats = << >>

ToFlush(d) ==
  /\ state = "FLUSH" /\ flush = 8 /\ good /\ collecting /\ beats = << >>
  /\ stage = PayloadOf(d) /\ stage \in Seq(MoldByte)

AtRest(d) == dgram = d /\ Counted /\ ((state = "B0" /\ Received(d)) \/ ToFlush(d))

Sending == s_beat # NoBeat \/ gap # 0
MoldInv ==
  /\ MoldTypes
  /\ Sending => \E d : \E k \in Nat : InFlight(d, k)
  /\ ~Sending => \E d : AtRest(d)

\* The checker: what it has not seen yet.
Watched ==
  /\ chk.errors = {} /\ chk.pending \in BOOLEAN
  /\ chk.pending <=> chk.exp # expected_seq_num
  /\ chk.pending => /\ state \in {"PAYLOAD", "FLUSH"}
                    /\ chk.drop = dropped_datagrams /\ chk.exp \in Nat /\ chk.exp < expected_seq_num
  /\ state = "B2" => chk.drop = dropped_datagrams /\ ~chk.valid /\ chk.exp = expected_seq_num

Steady == /\ expected_seq_num' = expected_seq_num
          /\ state' = "B2" => dropped_datagrams' = dropped_datagrams
Advances == /\ expected_seq_num' \in Nat /\ expected_seq_num < expected_seq_num'
            /\ dropped_datagrams' = dropped_datagrams
            /\ state' \in {"PAYLOAD", "FLUSH"}

LEMMA WatchedSteady ==
  ASSUME Watched, MoldMonitor, expected_seq_num \in Nat, ~seq_valid, Steady PROVE Watched'
<1> DEFINE moved == expected_seq_num # chk.exp
           fell == dropped_datagrams # chk.drop
           rose == seq_valid /\ ~chk.valid
           p == chk.pending \/ (rose /\ ~fell)
           back == moved /\ p /\ expected_seq_num < chk.exp /\ expected_seq_num > 4096
           e1 == IF rose /\ fell /\ moved THEN {"moved by a drop"} ELSE {}
           e2 == IF moved /\ ~fell /\ ~rose /\ ~p THEN {"moved alone"} ELSE {}
           e3 == IF back THEN {"backward"} ELSE {}
<1>1. /\ chk'.valid = seq_valid /\ chk'.exp = expected_seq_num /\ chk'.drop = dropped_datagrams
      /\ chk'.pending = (p /\ ~moved)
      /\ chk'.errors = chk.errors \cup e1 \cup e2 \cup e3
  BY DEF MoldMonitor
<1>2. ~rose
  OBVIOUS
<1>3. p <=> moved
  BY <1>2 DEF Watched
<1>4. ~back
  <2> SUFFICES ASSUME moved, p, expected_seq_num < chk.exp PROVE FALSE
    OBVIOUS
  <2>1. chk.exp \in Nat /\ chk.exp < expected_seq_num
    BY <1>3 DEF Watched
  <2> QED
    BY <2>1
<1>5. ~(moved /\ ~fell /\ ~rose /\ ~p)
  BY <1>3
<1>6. ~(rose /\ fell /\ moved)
  BY <1>2
<1> HIDE DEF moved, fell, rose, p, back
<1>11. e1 = {} /\ e2 = {} /\ e3 = {}
  <2>1. e1 = {}
    BY <1>6
  <2>2. e2 = {}
    BY <1>5
  <2>3. e3 = {}
    BY <1>4
  <2> QED
    BY <2>1, <2>2, <2>3
<1> HIDE DEF e1, e2, e3
<1>7. chk'.errors = {}
  <2>4. chk.errors = {}
    BY DEF Watched
  <2> QED
    BY <1>1, <1>11, <2>4
<1>8. chk'.pending = FALSE
  BY <1>1, <1>3
<1>9. ~chk'.valid
  BY <1>1, Zenon
<1>10. chk'.exp = expected_seq_num' /\ (state' = "B2" => chk'.drop = dropped_datagrams')
  BY <1>1 DEF Steady
<1> QED
  BY <1>7, <1>8, <1>9, <1>10, Zenon DEF Watched

LEMMA WatchedAdvances ==
  ASSUME Watched, MoldMonitor, expected_seq_num \in Nat, seq_valid, Advances PROVE Watched'
<1> DEFINE moved == expected_seq_num # chk.exp
           fell == dropped_datagrams # chk.drop
           rose == seq_valid /\ ~chk.valid
           p == chk.pending \/ (rose /\ ~fell)
<1>1. /\ chk'.valid = seq_valid /\ chk'.exp = expected_seq_num /\ chk'.drop = dropped_datagrams
      /\ chk'.pending = (p /\ ~moved)
      /\ chk'.errors = chk.errors
                \cup (IF rose /\ fell /\ moved THEN {"moved by a drop"} ELSE {})
                \cup (IF moved /\ ~fell /\ ~rose /\ ~p THEN {"moved alone"} ELSE {})
                \cup (IF moved /\ p /\ expected_seq_num < chk.exp
                         /\ expected_seq_num > 4096 THEN {"backward"} ELSE {})
  BY DEF MoldMonitor
<1>2. state = "B2"
  BY DEF seq_valid
<1>3. ~moved /\ ~fell /\ rose
  BY <1>2 DEF Watched
<1>4. p
  BY <1>3
<1> HIDE DEF moved, fell, rose, p
<1>7. chk'.errors = chk.errors
  BY <1>1, <1>3
<1>8. chk'.pending = TRUE
  BY <1>1, <1>3, <1>4
<1>9. state' # "B2"
  BY DEF Advances
<1>10. expected_seq_num # expected_seq_num'
  BY DEF Advances
<1> QED
  BY <1>1, <1>7, <1>8, <1>9, <1>10 DEF Watched, Advances

-----------------------------------------------------------------------------
\* (A beat of a datagram's first 8 k bytes, and the next.)
LEMMA Eights ==
  ASSUME NEW k \in Nat PROVE 8 * k \in Nat /\ 8 * (k + 1) = 8 * k + 8
OBVIOUS

LEMMA BeatHalves ==
  ASSUME NEW d, Whole(d), NEW k \in Nat, 8 * k < Len(d.bytes)
  PROVE  \E o, n, f, t, a, u :
           /\ o = 8 * k /\ n = Len(d.bytes)
           /\ Ends(o, n, f, t, a, u) /\ Halves(BeatAt(d, k), d, k, o, n, f, t, a, u)
<1>1. PICK o \in Nat : o = 8 * k
  BY Eights
<1>2. PICK n : n = Len(d.bytes)
  OBVIOUS
<1>3. n \in Nat
  BY <1>2 DEF Whole
<1>4. \E t \in Nat : (o + 8 < n => t = o + 8) /\ (o + 8 >= n => t = n)
  <2>1. CASE o + 8 < n
    BY <1>3, <2>1
  <2>2. CASE ~(o + 8 < n)
    BY <1>3, <2>2
  <2> QED
    BY <2>1, <2>2
<1>5. \E u \in Nat : (o + 4 < n => u = o + 4) /\ (o + 4 >= n => u = n)
  <2>1. CASE o + 4 < n
    BY <1>3, <2>1
  <2>2. CASE ~(o + 4 < n)
    BY <1>3, <2>2
  <2> QED
    BY <2>1, <2>2
<1>6. o < Len(d.bytes)
  BY <1>1
<1>7. PICK t \in Nat : (o + 8 < n => t = o + 8) /\ (o + 8 >= n => t = n)
  BY <1>4
<1>8. PICK u \in Nat : (o + 4 < n => u = o + 4) /\ (o + 4 >= n => u = n)
  BY <1>5
<1>9. PICK b : b = BeatAt(d, k)
  OBVIOUS
<1>10. PICK f : f = o + 5
  OBVIOUS
<1>11. PICK a : a = o + 1
  OBVIOUS
<1>12. Halves(b, d, k, o, n, f, t, a, u)
  BY <1>1, <1>2, <1>6, <1>7, <1>8, <1>9, <1>10, <1>11, BeatCuts
<1>13. Ends(o, n, f, t, a, u)
  BY <1>2, <1>3, <1>6, <1>7, <1>8, <1>10, <1>11 DEF Ends
<1>14. Halves(BeatAt(d, k), d, k, o, n, f, t, a, u)
  BY <1>9, <1>12
<1> QED
  BY <1>1, <1>2, <1>13, <1>14

LEMMA BeatIsABeat ==
  ASSUME NEW d, Whole(d), NEW k \in Nat, 8 * k < Len(d.bytes)
  PROVE  BeatAt(d, k) # NoBeat
BY BeatHalves DEF Halves

LEMMA MoldDrives ==
  ASSUME NEW d, Whole(d), NEW k \in Nat, 8 * k < Len(d.bytes), MoldDrive(d, k)
  PROVE  /\ gap' \in Nat /\ Sending'
         /\ gap' = 0 => s_beat' = BeatAt(d, k)
         /\ gap' # 0 => s_beat' = NoBeat
<1>1. BeatAt(d, k) # NoBeat
  BY BeatIsABeat
<1>2. CASE d.idle > 0
  BY <1>2 DEF MoldDrive, Sending, Whole
<1>3. CASE ~(d.idle > 0)
  BY <1>1, <1>3 DEF MoldDrive, Sending, Whole
<1> QED
  BY <1>2, <1>3

LEMMA CollectsNothing ==
  ASSUME Strip!m_beat(s_beat) = NoBeat, MoldCollect
  PROVE  beats' = beats /\ collecting' = collecting
BY DEF MoldCollect

LEMMA BeginStep ==
  ASSUME MoldInv, Watched, NEW d \in MoldDatagrams, MoldBegin(d)
  PROVE  MoldInv' /\ Watched'
<1>1. Whole(d) /\ 8 * 0 < Len(d.bytes) /\ 0 \in Nat
  <2>1. seq \in Nat \ {0}
    BY DEF MoldInv, MoldTypes
  <2>2. Whole(d)
    BY <2>1, DatagramsWhole
  <2>3. Len(d.bytes) \in Nat /\ Len(d.bytes) >= 20
    BY <2>2, Zenon DEF Whole
  <2> QED
    BY <2>2, <2>3
<1>2. /\ gap' \in Nat /\ Sending'
      /\ gap' = 0 => s_beat' = BeatAt(d, 0)
      /\ gap' # 0 => s_beat' = NoBeat
  BY <1>1, MoldDrives DEF MoldBegin
<1>3. ~Sending
  BY DEF MoldBegin, Sending
<1>4. PICK e : AtRest(e)
  BY <1>3 DEF MoldInv
<1>5. state = "B0" /\ Counted
  BY <1>4 DEF AtRest, ToFlush, MoldBegin
<1>6. d.seq \in Nat /\ d.count \in {1, 2}
  BY <1>1 DEF Whole
<1>7. Watched'
  BY DEF Watched, MoldBegin, stripVars, seq_valid
<1>8. \/ d.seq = seq /\ good' /\ seq' = seq + d.count /\ dropped' = dropped
      \/ d.seq # seq /\ ~good' /\ seq' = seq /\ dropped' = dropped + 1
  BY Zenon DEF MoldBegin
<1>9. d.seq # seq => dropped < DropMax
  <2> SUFFICES ASSUME d.seq # seq PROVE dropped < DropMax
    OBVIOUS
  <2>1. PICK m \in {seq} \cup (IF dropped < DropMax THEN {seq - 1, seq + 1} ELSE {}),
              l \in PayloadLengths, c \in {1, 2}, g \in IdleCycles : d = Datagram(m, l, c, g)
    BY DEF MoldDatagrams
  <2>2. d.seq = m
    BY <2>1 DEF Datagram
  <2> QED
    BY <2>1, <2>2
<1>10. MoldTypes'
  <2>1. MoldTypes /\ DropMax \in Nat
    BY MoldAssumption DEF MoldInv
  <2>2. seq' \in Nat \ {0} /\ dropped' \in 0 .. DropMax
    BY <1>6, <1>8, <1>9, <2>1 DEF MoldTypes
  <2>3. expected_seq_num' = expected_seq_num /\ dropped_datagrams' = dropped_datagrams
        /\ pos' = 0 /\ collecting' = TRUE /\ beats' = << >>
    BY DEF MoldBegin, stripVars
  <2>4. good' \in BOOLEAN
    BY DEF MoldBegin
  <2> QED
    BY <1>2, <2>1, <2>2, <2>3, <2>4 DEF MoldTypes
<1>11. InHeader(d, 0)'
  <2>1. state' = "B0" /\ beats' = << >> /\ expected_seq_num' = seq /\ dropped_datagrams' = dropped
    BY <1>5 DEF MoldBegin, stripVars, Counted
  <2>2. CASE d.seq = seq /\ good' /\ seq' = seq + d.count /\ dropped' = dropped
    BY <2>1, <2>2 DEF InHeader
  <2>3. CASE d.seq # seq /\ ~good' /\ seq' = seq /\ dropped' = dropped + 1
    BY <2>1, <2>3 DEF InHeader
  <2> QED
    BY <1>8, <2>2, <2>3
<1>12. InFlight(d, 0)'
  <2>1. dgram' = d /\ pos' = 0 /\ flush' = 0 /\ collecting'
    BY DEF MoldBegin
  <2> QED
    BY <1>1, <1>2, <1>11, <2>1 DEF InFlight
<1> QED
  BY <1>1, <1>2, <1>7, <1>10, <1>12 DEF MoldInv

LEMMA GapStep == ASSUME MoldInv, Watched, MoldGap PROVE MoldInv' /\ Watched'
<1>1. Sending /\ gap # 0 /\ MoldTypes
  BY DEF MoldInv, MoldTypes, MoldGap, Sending
<1>15. PICK d : \E k \in Nat : InFlight(d, k)
  BY <1>1, Zenon DEF MoldInv
<1>2. PICK k \in Nat : InFlight(d, k)
  BY <1>15
<1>3. s_beat = NoBeat /\ dgram = d /\ pos = k /\ Whole(d) /\ 8 * k < Len(d.bytes)
  BY <1>1, <1>2 DEF InFlight
<1>4. state \in {"B0", "B1", "B2", "PAYLOAD", "DROP"}
  BY <1>1, <1>2 DEF InFlight, InHeader, InBody, MoldTypes
<1>5. UNCHANGED stripVars
  BY <1>3, <1>4, IdleEdge DEF MoldGap, MoldEdge
<1>6. Strip!m_beat(s_beat) = NoBeat
  BY <1>3, <1>4 DEF Strip!m_beat
<1>7. beats' = beats /\ collecting' = collecting
  BY <1>6, CollectsNothing DEF MoldGap
<1>8. Watched'
  <2>1. ~seq_valid
    BY <1>3 DEF seq_valid
  <2>2. Steady
    BY <1>5 DEF Steady, stripVars
  <2> QED
    BY <1>1, <2>1, <2>2, WatchedSteady DEF MoldGap, MoldEdge, MoldTypes
<1>9. gap' = gap - 1 /\ s_beat' = IF gap = 1 THEN BeatAt(d, k) ELSE NoBeat
  BY <1>3 DEF MoldGap
<1>10. gap' \in Nat /\ (gap' = 0 <=> gap = 1)
  BY <1>1, <1>9 DEF MoldTypes
<1>11. UNCHANGED <<dgram, pos, flush, good, seq, dropped>>
  BY DEF MoldGap
<1>12. MoldTypes'
  BY <1>1, <1>5, <1>7, <1>10, <1>11 DEF MoldTypes, stripVars
<1>13. InFlight(d, k)'
  <2>1. /\ gap' = 0 => s_beat' = BeatAt(d, k)
        /\ gap' # 0 => s_beat' = NoBeat
    BY <1>9, <1>10
  <2>2. k \in {0, 1, 2} => InHeader(d, k)'
    BY <1>2, <1>5, <1>7, <1>11 DEF InFlight, InHeader, stripVars
  <2>3. k \notin {0, 1, 2} => InBody(d, k)'
    BY <1>2, <1>5, <1>7, <1>11 DEF InFlight, InBody, Counted, stripVars
  <2> QED
    BY <1>2, <1>7, <1>11, <2>1, <2>2, <2>3 DEF InFlight
<1>14. Sending'
  <2>1. BeatAt(d, k) # NoBeat
    BY <1>3, BeatIsABeat
  <2> QED
    BY <1>9, <1>10, <2>1 DEF Sending
<1> QED
  BY <1>8, <1>12, <1>13, <1>14 DEF MoldInv

LEMMA FlushStep == ASSUME MoldInv, Watched, MoldFlush PROVE MoldInv' /\ Watched'
<1>1. ~Sending /\ MoldTypes
  <2>1. SUFFICES ASSUME Sending PROVE FALSE
    BY DEF MoldInv
  <2>2. PICK d : \E k \in Nat : InFlight(d, k)
    BY <2>1, Zenon DEF MoldInv
  <2>3. PICK k \in Nat : InFlight(d, k)
    BY <2>2
  <2> QED
    BY <2>3 DEF InFlight, MoldFlush
<1>2. PICK d : AtRest(d)
  BY <1>1 DEF MoldInv
<1>3. s_beat = NoBeat /\ gap = 0
  BY <1>1 DEF Sending
<1>4. UNCHANGED <<s_beat, dgram, pos, gap, good, seq, dropped>>
  BY DEF MoldFlush
<1>5. ~Sending'
  BY <1>3, <1>4 DEF Sending
<1>6. ~seq_valid
  BY <1>3 DEF seq_valid
<1>7. CASE state = "B0" /\ Received(d)
  <2>1. UNCHANGED stripVars
    BY <1>3, <1>7, IdleEdge DEF MoldFlush, MoldEdge
  <2>2. Strip!m_beat(s_beat) = NoBeat
    BY <1>7 DEF Strip!m_beat
  <2>3. beats' = beats /\ collecting' = collecting
    BY <2>2, CollectsNothing DEF MoldFlush
  <2>4. Steady
    BY <2>1 DEF Steady, stripVars
  <2>5. Watched'
    BY <1>1, <1>6, <2>4, WatchedSteady DEF MoldFlush, MoldEdge, MoldTypes
  <2>6. MoldTypes'
    BY <1>1, <1>4, <2>1, <2>3 DEF MoldTypes, stripVars
  <2>7. AtRest(d)'
    BY <1>2, <1>4, <1>7, <2>1, <2>3 DEF AtRest, Counted, Received, stripVars
  <2> QED
    BY <1>5, <2>5, <2>6, <2>7 DEF MoldInv
<1>8. CASE ToFlush(d)
  <2>1. /\ state' = "B0"
        /\ expected_seq_num' = expected_seq_num /\ dropped_datagrams' = dropped_datagrams
    BY <1>8, FlushEdge DEF ToFlush, MoldFlush, MoldEdge
  <2> DEFINE m == [bytes |-> stage, last |-> TRUE]
  <2>2. Strip!m_beat(s_beat) = m
    BY <1>8 DEF ToFlush, Strip!m_beat
  <2>3. m \in MasterBeat
    BY <1>8 DEF ToFlush, MasterBeat
  <2>4. m # NoBeat
    BY <2>3, MoldAssumption
  <2>6. m.last /\ m.bytes = stage
    OBVIOUS
  <2> HIDE DEF m
  <2>5. beats' = Append(<< >>, m) /\ collecting' = ~m.last
    BY <1>8, <2>2, <2>4, Zenon DEF MoldFlush, MoldCollect, ToFlush
  <2>7. beats' \in Seq(MasterBeat) /\ beats' # << >> /\ beats'[Len(beats')] = m
    BY <2>3, <2>5
  <2>8. beats_to_bytes(beats') = stage
    <3>1. << >> \in Seq(MasterBeat)
      OBVIOUS
    <3>2. beats_to_bytes(beats') = << >> \o m.bytes
      BY <2>3, <2>5, <3>1, MoreBytes, NoBytes
    <3>3. stage \in Seq(MoldByte)
      BY <1>8 DEF ToFlush
    <3> QED
      BY <2>6, <3>2, <3>3
  <2>9. Steady
    BY <2>1 DEF Steady
  <2>10. Watched'
    BY <1>1, <1>6, <2>9, WatchedSteady DEF MoldFlush, MoldEdge, MoldTypes
  <2>11. MoldTypes'
    BY <1>1, <1>4, <2>1, <2>5, <2>7 DEF MoldTypes
  <2>12. good /\ good' = good /\ stage = PayloadOf(d)
    BY <1>4, <1>8 DEF ToFlush
  <2>13. PICK s : s = beats'
    OBVIOUS
  <2>14. s # << >> /\ s[Len(s)].last /\ beats_to_bytes(s) = PayloadOf(d)
    BY <2>6, <2>7, <2>8, <2>12, <2>13
  <2>15. Received(d)'
    BY <2>12, <2>13, <2>14 DEF Received
  <2>16. AtRest(d)'
    BY <1>2, <1>4, <2>1, <2>15 DEF AtRest, Counted
  <2> QED
    BY <1>5, <2>10, <2>11, <2>16 DEF MoldInv
<1> QED
  BY <1>2, <1>7, <1>8 DEF AtRest

\* (The last of more than 24 bytes: PayloadAssumption.)
LEMMA LastIsShort ==
  ASSUME NEW k \in Nat, k \notin {0, 1, 2}, NEW o, o = 8 * k, NEW n \in Nat, o < n, o + 8 >= n,
         n <= 24 \/ n % 8 \in 1 .. 4
  PROVE  o + 4 >= n
<1>1. k >= 3
  OBVIOUS
<1>2. n % 8 \in 1 .. 4
  BY <1>1
<1>3. n = 8 * k + (n - o) /\ n - o \in 1 .. 8
  OBVIOUS
<1>4. n - o = 8 => n % 8 = 0
  BY <1>3
<1>5. n - o \in 0 .. 7 => n % 8 = n - o
  BY <1>3
<1> QED
  BY <1>2, <1>3, <1>4, <1>5

\* A beat that is not the last is followed by another.
LEMMA CarriesOn ==
  ASSUME NEW d, Whole(d), NEW k \in Nat, NEW j \in Nat, j = k + 1, ~LastBeat(d, k),
         MoldTypes', dgram' = d, pos' = j, flush' = 0, collecting', MoldDrive(d, j),
         j \in {0, 1, 2} => InHeader(d, j)', j \notin {0, 1, 2} => InBody(d, j)'
  PROVE  MoldInv'
<1>1. 8 * j < Len(d.bytes)
  <2>1. Len(d.bytes) \in Nat
    BY DEF Whole
  <2>2. ~(8 * k + 8 >= Len(d.bytes))
    BY DEF LastBeat
  <2> QED
    BY <2>1, <2>2
<1>2. /\ gap' \in Nat /\ Sending'
      /\ gap' = 0 => s_beat' = BeatAt(d, j)
      /\ gap' # 0 => s_beat' = NoBeat
  BY <1>1, MoldDrives
<1>3. InFlight(d, j)'
  BY <1>1, <1>2 DEF InFlight
<1> QED
  BY <1>2, <1>3 DEF MoldInv

\* What the steps below know of the beat on the wires.
OnWires(d, k, b, o, n, f, t, a, u) ==
  /\ MoldTypes /\ InFlight(d, k) /\ s_beat = b /\ b # NoBeat /\ gap = 0
  /\ o = 8 * k /\ n = Len(d.bytes) /\ Ends(o, n, f, t, a, u) /\ Halves(b, d, k, o, n, f, t, a, u)

\* The counts of the test do not move, and the driver goes on.
LEMMA AfterBeat ==
  ASSUME NEW d, NEW k \in Nat, InFlight(d, k), state # "FLUSH", gap = 0, MoldSend
  PROVE  /\ dgram' = d /\ good' = good /\ seq' = seq /\ dropped' = dropped
         /\ LastBeat(d, k) => ~Sending' /\ flush' = 8 /\ pos' = k /\ gap' = 0
         /\ ~LastBeat(d, k) => MoldDrive(d, k + 1) /\ pos' = k + 1 /\ flush' = 0
<1>1. dgram = d /\ pos = k /\ flush = 0
  BY DEF InFlight
<1>2. Strip!s_tready(TRUE)
  BY DEF Strip!s_tready
<1>3. UNCHANGED <<dgram, good, seq, dropped>>
  BY DEF MoldSend
<1>4. IF LastBeat(d, k)
        THEN s_beat' = NoBeat /\ flush' = 8 /\ UNCHANGED <<pos, gap>>
        ELSE MoldDrive(d, k + 1) /\ pos' = k + 1 /\ UNCHANGED flush
  BY <1>1, <1>2, Zenon DEF MoldSend
<1> QED
  BY <1>1, <1>3, <1>4 DEF Sending

LEMMA SendHeader ==
  ASSUME NEW d, NEW k \in {0, 1}, NEW b, NEW o, NEW n, NEW f, NEW t, NEW a, NEW u,
         OnWires(d, k, b, o, n, f, t, a, u), Watched, MoldSend
  PROVE  MoldInv' /\ Watched'
<1>1. /\ MoldTypes /\ InFlight(d, k) /\ s_beat = b /\ b # NoBeat /\ gap = 0 /\ Whole(d)
      /\ o = 8 * k /\ n = Len(d.bytes) /\ Ends(o, n, f, t, a, u) /\ Halves(b, d, k, o, n, f, t, a, u)
  BY DEF OnWires, InFlight
<1>2. n \in Nat /\ n >= 20 /\ o \in {0, 8}
  BY <1>1 DEF Whole
<1>3. ~b.last /\ ~LastBeat(d, k) /\ Len(b.bytes) = 8
  BY <1>1, <1>2 DEF Halves, Ends
<1>4. InHeader(d, k) /\ state \in {"B0", "B1"}
  BY <1>1 DEF InFlight, InHeader
<1>5. /\ state' = IF state = "B0" THEN "B1" ELSE "B2"
      /\ expected_seq_num' = expected_seq_num /\ dropped_datagrams' = dropped_datagrams
  BY <1>1, <1>3, <1>4, HeaderEdge DEF MoldSend, MoldEdge
<1>6. beats' = beats /\ collecting' = collecting
  <2>1. Strip!m_beat(s_beat) = NoBeat
    BY <1>4 DEF Strip!m_beat
  <2> QED
    BY <2>1, CollectsNothing DEF MoldSend
<1>7. /\ dgram' = d /\ good' = good /\ seq' = seq /\ dropped' = dropped
      /\ MoldDrive(d, k + 1) /\ pos' = k + 1 /\ flush' = 0
  BY <1>1, <1>3, <1>4, AfterBeat
<1>8. gap' \in Nat
  BY <1>1, <1>7 DEF MoldDrive, Whole
<1>9. MoldTypes'
  BY <1>1, <1>5, <1>6, <1>7, <1>8 DEF MoldTypes
<1>10. InHeader(d, k + 1)'
  <2>1. k + 1 = 1 => state' = "B1"
    BY <1>4, <1>5 DEF InHeader
  <2>2. k + 1 = 2 => state' = "B2"
    BY <1>4, <1>5 DEF InHeader
  <2>3. k + 1 # 0
    OBVIOUS
  <2> QED
    BY <1>4, <1>5, <1>6, <1>7, <2>1, <2>2, <2>3 DEF InHeader
<1>11. Watched'
  <2>1. ~seq_valid
    BY <1>4 DEF seq_valid
  <2>2. Steady
    BY <1>5 DEF Steady
  <2> QED
    BY <1>1, <2>1, <2>2, WatchedSteady DEF MoldSend, MoldEdge, MoldTypes
<1>12. PICK j \in {1, 2} : j = k + 1
  OBVIOUS
<1>13. MoldInv'
  <2>1. collecting'
    BY <1>1, <1>6 DEF InFlight
  <2> QED
    BY <1>1, <1>3, <1>7, <1>9, <1>10, <1>12, <2>1, CarriesOn
<1> QED
  BY <1>11, <1>13

\* A datagram of one beat of payload goes to the flush, a longer one on.
LEMMA SendFirst ==
  ASSUME NEW d, NEW b, NEW o, NEW n, NEW f, NEW t, NEW a, NEW u,
         OnWires(d, 2, b, o, n, f, t, a, u), Watched, MoldSend, good
  PROVE  MoldInv' /\ Watched'
<1>1. /\ MoldTypes /\ InFlight(d, 2) /\ s_beat = b /\ b # NoBeat /\ gap = 0 /\ Whole(d)
      /\ o = 16 /\ n = Len(d.bytes) /\ Ends(o, n, f, t, a, u) /\ Halves(b, d, 2, o, n, f, t, a, u)
  BY DEF OnWires, InFlight
<1>2. n \in Nat /\ n >= 20 /\ f = 21 /\ t \in Nat /\ t <= n /\ t >= 20 /\ Len(b.bytes) = t - 16
  BY <1>1 DEF Whole, Ends, Halves
<1>3. InHeader(d, 2) /\ state = "B2" /\ expected_seq_num = d.seq /\ seq = d.seq + d.count
      /\ dropped_datagrams = dropped /\ beats = << >>
  BY <1>1 DEF InFlight, InHeader
<1>4. Len(b.bytes) \in Nat /\ Len(b.bytes) >= 4 /\ Strip!InOrder(b)
  BY <1>1, <1>2, <1>3 DEF Halves, Strip!InOrder
<1>5. /\ expected_seq_num' = b.seq + b.count /\ dropped_datagrams' = dropped_datagrams
      /\ stage' = Strip!Upper(b.bytes) /\ stage_hi_valid'
      /\ state' = IF b.last THEN "FLUSH" ELSE "PAYLOAD"
  BY <1>1, <1>3, <1>4, AcceptEdge DEF MoldSend, MoldEdge
<1>6. expected_seq_num' = seq /\ stage' = Cut(d, 21, t)
  BY <1>1, <1>2, <1>3, <1>5 DEF Halves
<1>7. beats' = << >> /\ collecting'
  <2>1. Strip!m_beat(s_beat) = NoBeat
    BY <1>3 DEF Strip!m_beat
  <2> QED
    BY <1>1, <1>3, <2>1, CollectsNothing DEF MoldSend, InFlight
<1>8. /\ dgram' = d /\ good' = good /\ seq' = seq /\ dropped' = dropped
      /\ LastBeat(d, 2) => ~Sending' /\ flush' = 8 /\ pos' = 2 /\ gap' = 0
      /\ ~LastBeat(d, 2) => MoldDrive(d, 3) /\ pos' = 3 /\ flush' = 0
  <2>1. 2 \in Nat /\ 2 + 1 = 3 /\ state # "FLUSH"
    BY <1>3
  <2> QED
    BY <1>1, <2>1, AfterBeat
<1>9. Watched'
  <2>1. seq_valid
    BY <1>1, <1>3, <1>4 DEF seq_valid
  <2>2. d.count \in {1, 2} /\ d.seq \in Nat
    BY <1>1 DEF Whole
  <2>3. Advances
    BY <1>3, <1>5, <1>6, <2>2 DEF Advances
  <2> QED
    BY <1>1, <2>1, <2>3, WatchedAdvances DEF MoldSend, MoldEdge, MoldTypes
<1>10. CASE LastBeat(d, 2)
  <2>1. b.last /\ t = n
    BY <1>1, <1>10 DEF Halves, Ends
  <2>2. stage' = PayloadOf(d)
    BY <1>1, <1>6, <2>1 DEF PayloadOf, Cut, Part, MoldHeader
  <2>3. stage' \in Seq(MoldByte)
    <3>1. 21 \in Nat \ {0}
      OBVIOUS
    <3> QED
      BY <1>1, <1>2, <1>6, <3>1, CutIsSeq
  <2>4. ToFlush(d)'
    BY <1>5, <1>7, <1>8, <1>10, <2>1, <2>2, <2>3 DEF ToFlush
  <2>5. AtRest(d)'
    BY <1>3, <1>5, <1>6, <1>8, <2>4 DEF AtRest, Counted
  <2>6. MoldTypes'
    <3>1. expected_seq_num' \in Nat /\ beats' \in Seq(MasterBeat)
      BY <1>1, <1>6, <1>7 DEF MoldTypes
    <3> QED
      BY <1>1, <1>3, <1>5, <1>7, <1>8, <1>10, <3>1 DEF MoldTypes
  <2> QED
    BY <1>8, <1>9, <1>10, <2>5, <2>6 DEF MoldInv
<1>11. CASE ~LastBeat(d, 2)
  <2>1. ~b.last /\ t = 24
    BY <1>1, <1>11 DEF Halves, Ends
  <2>2. gap' \in Nat
    BY <1>1, <1>8, <1>11 DEF MoldDrive, Whole
  <2>3. MoldTypes'
    <3>1. expected_seq_num' \in Nat /\ beats' \in Seq(MasterBeat)
      BY <1>1, <1>6, <1>7 DEF MoldTypes
    <3> QED
      BY <1>1, <1>3, <1>5, <1>7, <1>8, <1>11, <2>2, <3>1 DEF MoldTypes
  <2>4. Cut(d, 21, 20) = << >>
    <3>1. 21 \in Nat \ {0} /\ 20 \in Nat /\ 20 < 21 /\ 20 <= Len(d.bytes)
      BY <1>1, <1>2
    <3> QED
      BY <1>1, <3>1, CutIsSeq
  <2>5. InBody(d, 3)'
    <3>1. 8 * 3 - 3 = 21 /\ 8 * 3 - 4 = 20 /\ 8 * 3 = 24
      OBVIOUS
    <3>2. Counted'
      BY <1>3, <1>5, <1>6, <1>8 DEF Counted
    <3>3. state' = "PAYLOAD" /\ stage_hi_valid' /\ stage' = Cut(d, 21, 24)
      BY <1>5, <1>6, <2>1
    <3>4. PICK s : s = beats'
      OBVIOUS
    <3>5. beats_to_bytes(s) = Cut(d, 21, 20)
      BY <1>7, <2>4, <3>4, NoBytes
    <3> QED
      BY <1>8, <3>1, <3>2, <3>3, <3>4, <3>5 DEF InBody
  <2>6. 2 \in Nat /\ 3 \in Nat /\ 3 = 2 + 1
    OBVIOUS
  <2> QED
    BY <1>1, <1>7, <1>8, <1>9, <1>11, <2>3, <2>5, <2>6, CarriesOn
<1> QED
  BY <1>10, <1>11

\* A datagram out of order is dropped with its third beat.
LEMMA SendRejected ==
  ASSUME NEW d, NEW b, NEW o, NEW n, NEW f, NEW t, NEW a, NEW u,
         OnWires(d, 2, b, o, n, f, t, a, u), Watched, MoldSend, ~good
  PROVE  MoldInv' /\ Watched'
<1>1. /\ MoldTypes /\ InFlight(d, 2) /\ s_beat = b /\ b # NoBeat /\ gap = 0 /\ Whole(d)
      /\ o = 16 /\ n = Len(d.bytes) /\ Ends(o, n, f, t, a, u) /\ Halves(b, d, 2, o, n, f, t, a, u)
  BY DEF OnWires, InFlight
<1>2. n \in Nat /\ n >= 20 /\ t \in Nat /\ t >= 20 /\ Len(b.bytes) = t - 16
  BY <1>1 DEF Whole, Ends, Halves
<1>3. InHeader(d, 2) /\ state = "B2" /\ expected_seq_num = seq /\ d.seq # seq
      /\ dropped = dropped_datagrams + 1 /\ beats = << >>
  BY <1>1 DEF InFlight, InHeader
<1>4. Len(b.bytes) \in Nat /\ Len(b.bytes) >= 4 /\ ~Strip!InOrder(b)
  BY <1>1, <1>2, <1>3 DEF Halves, Strip!InOrder
<1>5. /\ expected_seq_num' = expected_seq_num
      /\ dropped_datagrams' = IF dropped_datagrams = DropMax THEN DropMax ELSE dropped_datagrams + 1
      /\ state' = IF b.last THEN "B0" ELSE "DROP"
  BY <1>1, <1>3, <1>4, RejectEdge DEF MoldSend, MoldEdge
<1>6. dropped_datagrams' = dropped
  <2>1. dropped \in 0 .. DropMax /\ DropMax \in Nat /\ dropped_datagrams \in Nat
    BY <1>1, MoldAssumption DEF MoldTypes
  <2>2. dropped_datagrams # DropMax
    BY <1>3, <2>1
  <2> QED
    BY <1>3, <1>5, <2>2
<1>7. beats' = << >> /\ collecting'
  <2>1. Strip!m_beat(s_beat) = NoBeat
    BY <1>3 DEF Strip!m_beat
  <2> QED
    BY <1>1, <1>3, <2>1, CollectsNothing DEF MoldSend, InFlight
<1>8. /\ dgram' = d /\ good' = good /\ seq' = seq /\ dropped' = dropped
      /\ LastBeat(d, 2) => ~Sending' /\ flush' = 8 /\ pos' = 2 /\ gap' = 0
      /\ ~LastBeat(d, 2) => MoldDrive(d, 3) /\ pos' = 3 /\ flush' = 0
  <2>1. 2 \in Nat /\ 2 + 1 = 3 /\ state # "FLUSH"
    BY <1>3
  <2> QED
    BY <1>1, <2>1, AfterBeat
<1>9. Watched'
  <2>1. ~seq_valid
    BY <1>1, <1>4 DEF seq_valid
  <2>2. Steady
    BY <1>5 DEF Steady
  <2> QED
    BY <1>1, <2>1, <2>2, WatchedSteady DEF MoldSend, MoldEdge, MoldTypes
<1>10. gap' \in Nat /\ pos' \in Nat
  BY <1>1, <1>8 DEF MoldDrive, Whole
<1>11. MoldTypes'
  <2>1. expected_seq_num' \in Nat /\ beats' \in Seq(MasterBeat) /\ dropped_datagrams' \in Nat
    BY <1>1, <1>5, <1>6, <1>7 DEF MoldTypes
  <2> QED
    BY <1>1, <1>7, <1>8, <1>10, <2>1 DEF MoldTypes
<1>12. Counted'
  BY <1>3, <1>5, <1>6, <1>8 DEF Counted
<1>13. CASE LastBeat(d, 2)
  <2>1. state' = "B0"
    BY <1>1, <1>5, <1>13 DEF Halves
  <2>2. AtRest(d)'
    BY <1>7, <1>8, <1>12, <2>1 DEF AtRest, Received
  <2> QED
    BY <1>8, <1>9, <1>11, <1>13, <2>2 DEF MoldInv
<1>14. CASE ~LastBeat(d, 2)
  <2>1. state' = "DROP"
    BY <1>1, <1>5, <1>14 DEF Halves
  <2>2. InBody(d, 3)'
    BY <1>7, <1>8, <1>12, <2>1 DEF InBody
  <2>3. 2 \in Nat /\ 3 \in Nat /\ 3 = 2 + 1
    OBVIOUS
  <2> QED
    BY <1>1, <1>7, <1>8, <1>9, <1>11, <1>14, <2>2, <2>3, CarriesOn
<1> QED
  BY <1>13, <1>14

LEMMA SendDropped ==
  ASSUME NEW d, NEW k \in Nat \ {0, 1, 2}, NEW b, NEW o, NEW n, NEW f, NEW t, NEW a, NEW u,
         OnWires(d, k, b, o, n, f, t, a, u), Watched, MoldSend, ~good
  PROVE  MoldInv' /\ Watched'
<1>1. /\ MoldTypes /\ InFlight(d, k) /\ s_beat = b /\ b # NoBeat /\ gap = 0 /\ Whole(d)
      /\ Halves(b, d, k, o, n, f, t, a, u)
  BY DEF OnWires, InFlight
<1>2. Counted /\ state = "DROP" /\ beats = << >> /\ collecting
  BY <1>1 DEF InFlight, InBody
<1>3. /\ expected_seq_num' = expected_seq_num /\ dropped_datagrams' = dropped_datagrams
      /\ state' = IF b.last THEN "B0" ELSE "DROP"
  BY <1>1, <1>2, DropEdge DEF MoldSend, MoldEdge
<1>4. beats' = << >> /\ collecting'
  <2>1. Strip!m_beat(s_beat) = NoBeat
    BY <1>2 DEF Strip!m_beat
  <2> QED
    BY <1>2, <2>1, CollectsNothing DEF MoldSend
<1>5. /\ dgram' = d /\ good' = good /\ seq' = seq /\ dropped' = dropped
      /\ LastBeat(d, k) => ~Sending' /\ flush' = 8 /\ pos' = k /\ gap' = 0
      /\ ~LastBeat(d, k) => MoldDrive(d, k + 1) /\ pos' = k + 1 /\ flush' = 0
  BY <1>1, <1>2, AfterBeat
<1>6. Watched'
  <2>1. ~seq_valid
    BY <1>2 DEF seq_valid
  <2>2. Steady
    BY <1>3 DEF Steady
  <2> QED
    BY <1>1, <2>1, <2>2, WatchedSteady DEF MoldSend, MoldEdge, MoldTypes
<1>7. gap' \in Nat /\ pos' \in Nat
  BY <1>1, <1>5 DEF MoldDrive, Whole
<1>8. MoldTypes'
  BY <1>1, <1>2, <1>3, <1>4, <1>5, <1>7 DEF MoldTypes
<1>9. Counted'
  BY <1>2, <1>3, <1>5 DEF Counted
<1>10. CASE LastBeat(d, k)
  <2>1. state' = "B0"
    BY <1>1, <1>3, <1>10 DEF Halves
  <2>2. AtRest(d)'
    BY <1>4, <1>5, <1>9, <2>1 DEF AtRest, Received
  <2> QED
    BY <1>5, <1>6, <1>8, <1>10, <2>2 DEF MoldInv
<1>11. CASE ~LastBeat(d, k)
  <2>1. state' = "DROP"
    BY <1>1, <1>3, <1>11 DEF Halves
  <2>2. PICK j \in Nat \ {0, 1, 2} : j = k + 1
    OBVIOUS
  <2>3. InBody(d, j)'
    BY <1>4, <1>5, <1>9, <2>1 DEF InBody
  <2> QED
    BY <1>1, <1>4, <1>5, <1>6, <1>8, <1>11, <2>2, <2>3, CarriesOn
<1> QED
  BY <1>10, <1>11

\* The four staged bytes leave with the lower half of this beat.
LEMMA SendBody ==
  ASSUME NEW d, NEW k \in Nat \ {0, 1, 2}, NEW b, NEW o, NEW n, NEW f, NEW t, NEW a, NEW u,
         OnWires(d, k, b, o, n, f, t, a, u), Watched, MoldSend, good
  PROVE  MoldInv' /\ Watched'
<1>1. /\ MoldTypes /\ InFlight(d, k) /\ s_beat = b /\ b # NoBeat /\ gap = 0 /\ Whole(d)
      /\ o = 8 * k /\ n = Len(d.bytes) /\ Ends(o, n, f, t, a, u) /\ Halves(b, d, k, o, n, f, t, a, u)
  BY DEF OnWires, InFlight
<1>2. PICK p : p = o - 3
  OBVIOUS
<1>3. PICK q : q = o - 4
  OBVIOUS
<1>4. /\ o \in Nat /\ o >= 24 /\ n \in Nat /\ o < n /\ p \in Nat /\ q \in Nat /\ p = q + 1
      /\ q >= 20 /\ p <= o /\ q <= n /\ a = o + 1 /\ o <= u /\ u <= n /\ u \in Nat /\ a <= u /\ q <= u
  <2>1. n \in Nat /\ o \in Nat /\ o < n /\ a = o + 1 /\ u \in Nat
        /\ (o + 4 < n => u = o + 4) /\ (o + 4 >= n => u = n)
    BY <1>1, Zenon DEF Ends
  <2>2. o >= 24
    BY <1>1
  <2> QED
    BY <1>2, <1>3, <2>1, <2>2
<1>5. /\ Counted /\ state = "PAYLOAD" /\ stage_hi_valid /\ stage = Cut(d, p, o)
      /\ beats_to_bytes(beats) = Cut(d, 21, q) /\ collecting
  BY <1>1, <1>2, <1>3 DEF InFlight, InBody
<1>6. /\ expected_seq_num' = expected_seq_num /\ dropped_datagrams' = dropped_datagrams
      /\ stage' = Strip!Upper(b.bytes)
      /\ stage_hi_valid' = (~b.last \/ Strip!Upper(b.bytes) # << >>)
      /\ state' = IF b.last THEN "B0" ELSE "PAYLOAD"
  BY <1>1, <1>5, PayloadEdge DEF MoldSend, MoldEdge
<1> DEFINE m == [bytes |-> stage \o Strip!Lower(b.bytes), last |-> b.last]
<1>7. Strip!m_beat(s_beat) = m
  BY <1>1, <1>5 DEF Strip!m_beat
<1>8. stage \o Strip!Lower(b.bytes) = Cut(d, p, u)
  <2>1. Strip!Lower(b.bytes) = Cut(d, a, u)
    BY <1>1 DEF Halves
  <2>2. Cut(d, p, o) \o Cut(d, o + 1, u) = Cut(d, p, u)
    <3>1. /\ Whole(d) /\ p \in Nat /\ o \in Nat /\ u \in Nat
          /\ 1 <= p /\ p <= o + 1 /\ o <= u /\ u <= Len(d.bytes)
      BY <1>1, <1>4
    <3> QED
      BY <3>1, CutsMeet
  <2> QED
    BY <1>4, <1>5, <2>1, <2>2
<1>9. Cut(d, p, u) \in Seq(MoldByte)
  <2>1. p \in Nat \ {0} /\ u <= Len(d.bytes)
    BY <1>1, <1>4
  <2> QED
    BY <1>1, <1>4, <2>1, CutIsSeq
<1>10. m.bytes = Cut(d, p, u) /\ m.last = b.last
  BY <1>8
<1>11. m \in MasterBeat
  <2>1. b.last \in BOOLEAN
    BY <1>1 DEF Halves, SlaveBeat
  <2> QED
    BY <1>8, <1>9, <2>1 DEF MasterBeat
<1> HIDE DEF m
<1>12. m # NoBeat
  BY <1>11, MoldAssumption
<1>13. beats' = Append(beats, m) /\ collecting' = ~b.last
  BY <1>5, <1>7, <1>10, <1>12, Zenon DEF MoldSend, MoldCollect
<1>14. PICK s : s = beats'
  OBVIOUS
<1>15. s \in Seq(MasterBeat) /\ s # << >> /\ s[Len(s)] = m
  <2>1. beats \in Seq(MasterBeat)
    BY <1>1 DEF MoldTypes
  <2> QED
    BY <1>11, <1>13, <1>14, <2>1
<1>16. beats_to_bytes(s) = Cut(d, 21, u)
  <2>1. beats \in Seq(MasterBeat)
    BY <1>1 DEF MoldTypes
  <2>2. beats_to_bytes(s) = beats_to_bytes(beats) \o m.bytes
    BY <1>11, <1>13, <1>14, <2>1, MoreBytes
  <2>3. Cut(d, 21, q) \o Cut(d, q + 1, u) = Cut(d, 21, u)
    <3>1. /\ Whole(d) /\ 21 \in Nat /\ q \in Nat /\ u \in Nat
          /\ 1 <= 21 /\ 21 <= q + 1 /\ q <= u /\ u <= Len(d.bytes)
      BY <1>1, <1>4
    <3> QED
      BY <3>1, CutsMeet
  <2> QED
    BY <1>4, <1>5, <1>10, <2>2, <2>3
<1>17. /\ dgram' = d /\ good' = good /\ seq' = seq /\ dropped' = dropped
       /\ LastBeat(d, k) => ~Sending' /\ flush' = 8 /\ pos' = k /\ gap' = 0
       /\ ~LastBeat(d, k) => MoldDrive(d, k + 1) /\ pos' = k + 1 /\ flush' = 0
  BY <1>1, <1>5, AfterBeat
<1>18. Watched'
  <2>1. ~seq_valid
    BY <1>5 DEF seq_valid
  <2>2. Steady
    BY <1>6 DEF Steady
  <2> QED
    BY <1>1, <2>1, <2>2, WatchedSteady DEF MoldSend, MoldEdge, MoldTypes
<1>19. gap' \in Nat /\ pos' \in Nat
  BY <1>1, <1>17 DEF MoldDrive, Whole
<1>20. MoldTypes'
  <2>1. collecting' \in BOOLEAN /\ beats' \in Seq(MasterBeat)
    BY <1>13, <1>14, <1>15
  <2> QED
    BY <1>1, <1>6, <1>17, <1>19, <2>1 DEF MoldTypes
<1>21. Counted'
  BY <1>5, <1>6, <1>17 DEF Counted
<1>22. CASE LastBeat(d, k)
  <2>1. b.last /\ o + 8 >= n /\ state' = "B0"
    BY <1>1, <1>6, <1>22 DEF Halves
  <2>2. o + 4 >= n
    <3>1. n <= 24 \/ n % 8 \in 1 .. 4
      BY <1>1, Zenon DEF Whole
    <3> QED
      BY <1>1, <1>4, <2>1, <3>1, LastIsShort
  <2>3. u = n
    BY <1>1, <2>2 DEF Ends
  <2>4. beats_to_bytes(s) = PayloadOf(d)
    BY <1>1, <1>16, <2>3 DEF PayloadOf, Cut, Part, MoldHeader
  <2>5. s # << >> /\ s[Len(s)].last
    BY <1>10, <1>15, <2>1
  <2>6. Received(d)'
    BY <1>14, <1>17, <2>4, <2>5 DEF Received
  <2>7. AtRest(d)'
    BY <1>17, <1>21, <2>1, <2>6 DEF AtRest
  <2> QED
    BY <1>17, <1>18, <1>20, <1>22, <2>7 DEF MoldInv
<1>23. CASE ~LastBeat(d, k)
  <2>1. ~b.last /\ ~(o + 8 >= n) /\ state' = "PAYLOAD" /\ stage_hi_valid' /\ collecting'
    BY <1>1, <1>6, <1>13, <1>23 DEF Halves
  <2>2. t = o + 8 /\ u = o + 4 /\ f = o + 5
    BY <1>1, <1>4, <2>1 DEF Ends
  <2>3. PICK j \in Nat \ {0, 1, 2} : j = k + 1
    OBVIOUS
  <2>4. 8 * j - 3 = f /\ 8 * j - 4 = u /\ 8 * j = t
    BY <1>1, <2>2, <2>3
  <2>5. stage' = Cut(d, f, t)
    BY <1>1, <1>6 DEF Halves
  <2>6. InBody(d, j)'
    BY <1>14, <1>16, <1>17, <1>21, <2>1, <2>4, <2>5 DEF InBody
  <2> QED
    BY <1>1, <1>17, <1>18, <1>20, <1>23, <2>1, <2>3, <2>6, CarriesOn
<1> QED
  BY <1>22, <1>23

LEMMA SendStep == ASSUME MoldInv, Watched, MoldSend PROVE MoldInv' /\ Watched'
<1>1. Sending /\ MoldTypes
  BY DEF MoldInv, MoldSend, Sending
<1>2. PICK d : \E k \in Nat : InFlight(d, k)
  BY <1>1, Zenon DEF MoldInv
<1>3. PICK k \in Nat : InFlight(d, k)
  BY <1>2
<1>4. gap = 0 /\ s_beat = BeatAt(d, k) /\ Whole(d) /\ 8 * k < Len(d.bytes)
  BY <1>3 DEF InFlight, MoldSend
<1>5. PICK b : b = BeatAt(d, k)
  OBVIOUS
<1>6. PICK o, n, f, t, a, u :
           /\ o = 8 * k /\ n = Len(d.bytes)
           /\ Ends(o, n, f, t, a, u) /\ Halves(BeatAt(d, k), d, k, o, n, f, t, a, u)
  BY <1>4, BeatHalves
<1>7. Halves(b, d, k, o, n, f, t, a, u)
  BY <1>5, <1>6
<1>8. OnWires(d, k, b, o, n, f, t, a, u)
  BY <1>1, <1>3, <1>4, <1>5, <1>6, <1>7 DEF OnWires, Halves
<1>9. CASE k \in {0, 1}
  BY <1>8, <1>9, SendHeader
<1>10. CASE k = 2
  <2>1. OnWires(d, 2, b, o, n, f, t, a, u)
    BY <1>8, <1>10
  <2> QED
    BY <2>1, SendFirst, SendRejected
<1>11. CASE k \notin {0, 1, 2}
  BY <1>8, <1>11, SendBody, SendDropped
<1> QED
  BY <1>9, <1>10, <1>11

LEMMA MoldStarts == CocotbBenchInit => MoldInv /\ Watched
<1> SUFFICES ASSUME CocotbBenchInit PROVE MoldInv /\ Watched
  OBVIOUS
<1>1. /\ state = "B0" /\ expected_seq_num = 1 /\ dropped_datagrams = 0
      /\ s_beat = NoBeat /\ pos = 0 /\ gap = 0 /\ beats = << >> /\ collecting = FALSE
      /\ good = FALSE /\ seq = 1 /\ dropped = 0
      /\ chk = [valid |-> FALSE, exp |-> 1, drop |-> 0, pending |-> FALSE, errors |-> {}]
  BY DEF CocotbBenchInit, MoldInit, Strip!Init
<1>2. MoldTypes
  <2>1. DropMax \in Nat
    BY MoldAssumption
  <2>2. 0 \in 0 .. DropMax /\ 1 \in Nat \ {0} /\ 0 \in Nat
    BY <2>1
  <2>3. << >> \in Seq(MasterBeat)
    OBVIOUS
  <2> QED
    BY <1>1, <2>2, <2>3, Zenon DEF MoldTypes
<1>3. ~Sending /\ AtRest(dgram)
  BY <1>1 DEF Sending, AtRest, Counted, Received
<1>4. Watched
  BY <1>1 DEF Watched
<1> QED
  BY <1>2, <1>3, <1>4 DEF MoldInv

LEMMA MoldKept ==
  ASSUME MoldInv, Watched, [CocotbBenchNext]_benchVars PROVE MoldInv' /\ Watched'
<1>1. ASSUME NEW d \in MoldDatagrams, MoldBegin(d) PROVE MoldInv' /\ Watched'
  BY <1>1, BeginStep
<1>2. ASSUME MoldNext PROVE MoldInv' /\ Watched'
  BY <1>1, <1>2, GapStep, SendStep, FlushStep DEF MoldNext
<1>3. ASSUME UNCHANGED moldVars PROVE MoldInv' /\ Watched'
  <2>1. UNCHANGED <<state, stage, stage_hi_valid, expected_seq_num, dropped_datagrams, s_beat,
                    dgram, pos, gap, beats, collecting, flush, good, seq, dropped, chk>>
    BY <1>3 DEF moldVars, stripVars, moldTestVars
  <2>2. MoldTypes'
    BY <2>1 DEF MoldInv, MoldTypes
  <2>3. Watched'
    BY <2>1 DEF Watched
  <2>4. CASE Sending
    <3>1. PICK d : \E k \in Nat : InFlight(d, k)
      BY <2>4, Zenon DEF MoldInv
    <3>2. PICK k \in Nat : InFlight(d, k)
      BY <3>1
    <3>3. InFlight(d, k)'
      BY <2>1, <3>2 DEF InFlight, InHeader, InBody, Counted
    <3> QED
      BY <2>1, <2>2, <2>3, <2>4, <3>3 DEF MoldInv, Sending
  <2>5. CASE ~Sending
    <3>1. PICK d : AtRest(d)
      BY <2>5, Zenon DEF MoldInv
    <3>2. AtRest(d)'
      BY <2>1, <3>1 DEF AtRest, Counted, Received, ToFlush
    <3> QED
      BY <2>1, <2>2, <2>3, <2>5, <3>2 DEF MoldInv, Sending
  <2> QED
    BY <2>4, <2>5
<1> QED
  BY <1>2, <1>3, Zenon DEF CocotbBenchNext, benchVars

LEMMA MoldAlways == CocotbBenchSpec => [](MoldInv /\ Watched)
<1>1. (MoldInv /\ Watched) /\ [CocotbBenchNext]_benchVars => (MoldInv /\ Watched)'
  BY MoldKept
<1> QED
  BY MoldStarts, <1>1, PTL DEF CocotbBenchSpec

LEMMA RestShows == MoldInv /\ Watched => DatagramStripped /\ CheckerReady
<1> SUFFICES ASSUME MoldInv, Watched PROVE DatagramStripped /\ CheckerReady
  OBVIOUS
<1>1. chk.errors = {}
  BY DEF Watched
<1>2. ASSUME MoldDone
      PROVE  /\ expected_seq_num = seq /\ dropped_datagrams = dropped /\ ~chk.pending
             /\ IF good
                  THEN beats_to_bytes(beats) = PayloadOf(dgram) /\ beats[Len(beats)].last
                  ELSE beats = << >>
  <2>1. ~Sending
    BY <1>2 DEF MoldDone, Sending
  <2>2. PICK d : AtRest(d)
    BY <2>1, Zenon DEF MoldInv
  <2>3. state = "B0" /\ Received(d) /\ Counted /\ dgram = d
    BY <1>2, <2>2 DEF AtRest, ToFlush, MoldDone
  <2> QED
    BY <2>3 DEF Received, Counted, Watched
<1> QED
  BY <1>1, <1>2, Zenon DEF DatagramStripped, CheckerReady

\* A datagram sent in order comes out of the stripper as its payload, byte for
\* byte, and one out of order not at all, for every payload length the builder
\* allows and every pause of the driver; both counters keep with the test's.
THEOREM StripsEveryHeader == CocotbBenchSpec => []DatagramStripped
BY MoldAlways, RestShows, PTL

\* The checker of the stripper reports nothing, and no acceptance is left over
\* for the next datagram, whatever is sent and however.
THEOREM CheckerKeepsUp == CocotbBenchSpec => []CheckerReady
BY MoldAlways, RestShows, PTL

-----------------------------------------------------------------------------
(* The frames into the wrapper: sums, the header checksum, byte streams.   *)

\* What FoldSeq adds up, element by element.
FirstOf(s) == CHOOSE x \in s : TRUE
OthersOf(s) == s \ {FirstOf(s)}
SumsTo(g, f, D) == g = [s \in D |-> IF s = {} THEN 0 ELSE f[FirstOf(s)] + g[OthersOf(s)]]

LEMMA OneLess ==
  ASSUME NEW S, IsFiniteSet(S), NEW s \in SUBSET S, s # {}
  PROVE  /\ FirstOf(s) \in s /\ OthersOf(s) \in SUBSET S
         /\ Cardinality(s) \in Nat /\ Cardinality(s) # 0
         /\ Cardinality(OthersOf(s)) = Cardinality(s) - 1
<1>1. FirstOf(s) \in s
  BY DEF FirstOf
<1>2. IsFiniteSet(s)
  BY FS_Subset
<1> QED
  BY <1>1, <1>2, FS_RemoveElement, FS_CardinalityType, FS_EmptySet DEF OthersOf

LEMMA SumOfAll ==
  ASSUME NEW S, IsFiniteSet(S), NEW f PROVE \E g : SumsTo(g, f, SUBSET S)
<1> DEFINE D(n) == {s \in SUBSET S : Cardinality(s) <= n}
           P == {n \in Nat : \E g : SumsTo(g, f, D(n))}
<1>1. 0 \in P
  <2> DEFINE g == [s \in D(0) |-> 0]
  <2>1. \A s \in D(0) : s = {}
    <3> SUFFICES ASSUME NEW s \in D(0), s # {} PROVE FALSE
      OBVIOUS
    <3> QED
      BY OneLess
  <2>2. SumsTo(g, f, D(0))
    BY <2>1 DEF SumsTo
  <2> HIDE DEF g
  <2> QED
    BY <2>2
<1>2. ASSUME NEW n \in Nat, n \in P PROVE n + 1 \in P
  <2>1. PICK g : SumsTo(g, f, D(n))
    BY <1>2
  <2> DEFINE h == [s \in D(n + 1) |-> IF s = {} THEN 0 ELSE f[FirstOf(s)] + g[OthersOf(s)]]
  <2>2. ASSUME NEW s \in D(n + 1), s # {} PROVE g[OthersOf(s)] = h[OthersOf(s)]
    <3>1. OthersOf(s) \in D(n) /\ OthersOf(s) \in D(n + 1)
      <4>1. s \in SUBSET S /\ Cardinality(s) <= n + 1
        BY <2>2
      <4>2. OthersOf(s) \in SUBSET S /\ Cardinality(s) \in Nat /\ Cardinality(OthersOf(s)) = Cardinality(s) - 1
        BY <2>2, <4>1, OneLess
      <4> QED
        BY <4>1, <4>2
    <3> HIDE DEF D
    <3>2. PICK t : t = OthersOf(s)
      OBVIOUS
    <3>3. g[t] = IF t = {} THEN 0 ELSE f[FirstOf(t)] + g[OthersOf(t)]
      BY <2>1, <3>1, <3>2 DEF SumsTo
    <3>4. h[t] = IF t = {} THEN 0 ELSE f[FirstOf(t)] + g[OthersOf(t)]
      BY <3>1, <3>2
    <3> QED
      BY <3>2, <3>3, <3>4
  <2>3. SumsTo(h, f, D(n + 1))
    <3> DEFINE H == [s \in D(n + 1) |-> IF s = {} THEN 0 ELSE f[FirstOf(s)] + h[OthersOf(s)]]
    <3> HIDE DEF D
    <3>1. \A s \in D(n + 1) : h[s] = H[s]
      <4> SUFFICES ASSUME NEW s \in D(n + 1) PROVE h[s] = H[s]
        OBVIOUS
      <4>1. h[s] = IF s = {} THEN 0 ELSE f[FirstOf(s)] + g[OthersOf(s)]
        OBVIOUS
      <4>2. H[s] = IF s = {} THEN 0 ELSE f[FirstOf(s)] + h[OthersOf(s)]
        BY Zenon
      <4> HIDE DEF h, H
      <4> QED
        BY <2>2, <4>1, <4>2
    <3>2. h = [s \in D(n + 1) |-> h[s]] /\ H = [s \in D(n + 1) |-> H[s]]
      OBVIOUS
    <3> HIDE DEF h, H
    <3>3. h = H
      BY <3>1, <3>2
    <3> QED
      BY <3>3 DEF H, SumsTo
  <2> HIDE DEF h, D
  <2> QED
    BY <2>3
<1>3. PICK n \in Nat : n = Cardinality(S)
  BY FS_CardinalityType
<1>4. D(n) = SUBSET S
  BY <1>3, FS_Subset
<1> HIDE DEF D
<1>5. Nat \subseteq P
  <2> HIDE DEF P
  <2> QED
    BY <1>1, <1>2, AllNumbers
<1> QED
  BY <1>4, <1>5

\* The sum of the terms of a function.
SumOf(f, S) == (CHOOSE g : SumsTo(g, f, SUBSET S))[S]

\* One term that grows makes the sum grow by as much.
Grown(S, before, after, c, B) ==
  before \in Nat /\ after = before + c /\ after <= B * Cardinality(S)

LEMMA SumsGrow ==
  ASSUME NEW S, IsFiniteSet(S), NEW e \in [S -> Nat], NEW f \in [S -> Nat],
         NEW x \in S, NEW c \in Nat, NEW B \in Nat,
         \A y \in S : f[y] <= B /\ (y # x => f[y] = e[y]), f[x] = e[x] + c,
         NEW g, SumsTo(g, e, SUBSET S), NEW h, SumsTo(h, f, SUBSET S)
  PROVE  Grown(S, g[S], h[S], c, B)
<1> DEFINE Good(s) == /\ g[s] \in Nat /\ h[s] \in Nat /\ h[s] <= B * Cardinality(s)
                      /\ x \in s => h[s] = g[s] + c
                      /\ x \notin s => h[s] = g[s]
           P == {n \in Nat : \A s \in SUBSET S : Cardinality(s) = n => Good(s)}
<1>1. \A s \in SUBSET S : /\ s = {} => g[s] = 0 /\ h[s] = 0
                          /\ s # {} => /\ g[s] = e[FirstOf(s)] + g[OthersOf(s)]
                                       /\ h[s] = f[FirstOf(s)] + h[OthersOf(s)]
  BY DEF SumsTo
<1>2. 0 \in P
  <2> SUFFICES ASSUME NEW s \in SUBSET S, Cardinality(s) = 0 PROVE Good(s)
    OBVIOUS
  <2>1. s = {}
    BY OneLess
  <2>2. g[s] = 0 /\ h[s] = 0
    BY <1>1, <2>1, Zenon
  <2>3. x \notin s
    BY <2>1
  <2> QED
    BY <2>2, <2>3
<1>3. ASSUME NEW n \in Nat, n \in P PROVE n + 1 \in P
  <2> SUFFICES ASSUME NEW s \in SUBSET S, Cardinality(s) = n + 1 PROVE Good(s)
    OBVIOUS
  <2>1. s # {}
    <3> SUFFICES ASSUME s = {} PROVE FALSE
      OBVIOUS
    <3>1. Cardinality({}) = 0 /\ n + 1 # 0
      BY FS_EmptySet
    <3>2. Cardinality(s) = 0
      BY <3>1
    <3> QED
      BY <3>1, <3>2
  <2>2. PICK y : y = FirstOf(s)
    OBVIOUS
  <2>3. PICK t : t = OthersOf(s)
    OBVIOUS
  <2>4. y \in s /\ y \in S /\ y \notin t /\ t \in SUBSET S /\ Cardinality(t) = n /\ s = t \cup {y}
    BY <2>1, <2>2, <2>3, OneLess DEF OthersOf
  <2>5. Good(t)
    BY <1>3, <2>4
  <2>6. g[s] = e[y] + g[t] /\ h[s] = f[y] + h[t]
    BY <1>1, <2>1, <2>2, <2>3
  <2>7. e[y] \in Nat /\ f[y] \in Nat /\ f[y] <= B /\ (y # x => f[y] = e[y])
    BY <2>4
  <2>8. /\ g[t] \in Nat /\ h[t] \in Nat /\ h[t] <= B * n
        /\ (x \in t => h[t] = g[t] + c) /\ (x \notin t => h[t] = g[t])
    BY <2>4, <2>5
  <2> HIDE DEF Good
  <2>9. g[s] \in Nat /\ h[s] \in Nat /\ h[s] <= B * Cardinality(s)
    BY <2>6, <2>7, <2>8
  <2>10. x \in s => h[s] = g[s] + c
    <3>1. CASE x = y
      <4>1. h[s] = e[y] + c + g[t]
        BY <2>4, <2>6, <2>8, <3>1
      <4> QED
        BY <2>6, <2>7, <2>8, <4>1
    <3>2. CASE x # y
      BY <2>4, <2>6, <2>7, <2>8, <3>2
    <3> QED
      BY <3>1, <3>2
  <2>11. x \notin s => h[s] = g[s]
    BY <2>4, <2>6, <2>7, <2>8
  <2> QED
    BY <2>9, <2>10, <2>11, Zenon DEF Good
<1>4. Nat \subseteq P
  <2> HIDE DEF P
  <2> QED
    BY <1>2, <1>3, AllNumbers
<1>5. Cardinality(S) \in Nat /\ S \in SUBSET S
  BY FS_CardinalityType
<1>6. Good(S)
  BY <1>4, <1>5
<1> QED
  BY <1>6 DEF Grown

\* f is e but for the term of x, that is c more.
OneMore(S, e, f, x, c, B) ==
  /\ e \in [S -> Nat] /\ f \in [S -> Nat] /\ x \in S
  /\ f[x] = e[x] + c
  /\ \A y \in S : f[y] <= B /\ (y # x => f[y] = e[y])

LEMMA SumGrows ==
  ASSUME NEW S, IsFiniteSet(S), NEW e, NEW f, NEW x, NEW c \in Nat, NEW B \in Nat,
         OneMore(S, e, f, x, c, B)
  PROVE  Grown(S, SumOf(e, S), SumOf(f, S), c, B)
<1> USE DEF OneMore
<1>1. PICK g : g = CHOOSE k : SumsTo(k, e, SUBSET S)
  OBVIOUS
<1>2. PICK h : h = CHOOSE k : SumsTo(k, f, SUBSET S)
  OBVIOUS
<1>3. SumsTo(g, e, SUBSET S) /\ SumsTo(h, f, SUBSET S)
  <2>1. (\E k : SumsTo(k, e, SUBSET S)) /\ (\E k : SumsTo(k, f, SUBSET S))
    BY SumOfAll
  <2> QED
    BY <1>1, <1>2, <2>1, Zenon
<1>4. SumOf(e, S) = g[S] /\ SumOf(f, S) = h[S]
  BY <1>1, <1>2, Zenon DEF SumOf
<1>5. Grown(S, g[S], h[S], c, B)
  BY <1>3, SumsGrow
<1> QED
  BY <1>4, <1>5

LEMMA SumIsNumber ==
  ASSUME NEW S, IsFiniteSet(S), NEW f \in [S -> Nat], NEW g, SumsTo(g, f, SUBSET S)
  PROVE  g[S] \in Nat
<1> DEFINE P == {n \in Nat : \A s \in SUBSET S : Cardinality(s) = n => g[s] \in Nat}
<1>1. \A s \in SUBSET S : /\ s = {} => g[s] = 0
                          /\ s # {} => g[s] = f[FirstOf(s)] + g[OthersOf(s)]
  BY DEF SumsTo
<1>2. 0 \in P
  <2> SUFFICES ASSUME NEW s \in SUBSET S, Cardinality(s) = 0 PROVE g[s] \in Nat
    OBVIOUS
  <2>1. s = {}
    BY OneLess
  <2>2. g[s] = 0
    BY <1>1, <2>1, Zenon
  <2> QED
    BY <2>2
<1>3. ASSUME NEW n \in Nat, n \in P PROVE n + 1 \in P
  <2> SUFFICES ASSUME NEW s \in SUBSET S, Cardinality(s) = n + 1 PROVE g[s] \in Nat
    OBVIOUS
  <2>1. CASE s = {}
    <3>1. g[s] = 0
      BY <1>1, <2>1, Zenon
    <3> QED
      BY <3>1
  <2>2. CASE s # {}
    <3>1. PICK y : y = FirstOf(s)
      OBVIOUS
    <3>2. PICK t : t = OthersOf(s)
      OBVIOUS
    <3>3. y \in S /\ t \in SUBSET S /\ Cardinality(t) = n
      BY <2>2, <3>1, <3>2, OneLess
    <3>4. f[y] \in Nat /\ g[t] \in Nat
      BY <1>3, <3>3
    <3>5. g[s] = f[y] + g[t]
      BY <1>1, <2>2, <3>1, <3>2, Zenon
    <3> QED
      BY <3>4, <3>5
  <2> QED
    BY <2>1, <2>2
<1>4. Nat \subseteq P
  <2> HIDE DEF P
  <2> QED
    BY <1>2, <1>3, AllNumbers
<1>5. Cardinality(S) \in Nat /\ S \in SUBSET S
  BY FS_CardinalityType
<1> QED
  BY <1>4, <1>5

LEMMA TotalIs == ASSUME NEW words PROVE Total(words) = SumOf(words, DOMAIN words)
BY DEF Total, FoldSeq, FoldFunction, FoldFunctionOnSet, MapThenFoldSet, SumsTo, SumOf, FirstOf, OthersOf

\* A payload has a length.
LEMMA PayloadLength ==
  ASSUME NEW lengths \in Seq(Nat)
  PROVE  FoldSeq(LAMBDA l, t : 2 + l + t, 0, lengths) \in Nat
<1> DEFINE S == DOMAIN lengths
           f == [i \in S |-> 2 + lengths[i]]
<1>1. IsFiniteSet(S) /\ f \in [S -> Nat]
  <2>1. S = 1 .. Len(lengths) /\ Len(lengths) \in Nat /\ \A i \in S : lengths[i] \in Nat
    BY LenProperties, ElementOfSeq
  <2>2. IsFiniteSet(1 .. Len(lengths))
    BY <2>1, FS_Interval
  <2> HIDE DEF S
  <2> QED
    BY <2>1, <2>2
<1>2. FoldSeq(LAMBDA l, t : 2 + l + t, 0, lengths) = SumOf(f, S)
  BY DEF FoldSeq, FoldFunction, FoldFunctionOnSet, MapThenFoldSet, SumsTo, SumOf, FirstOf, OthersOf
<1> HIDE DEF S, f
<1>3. PICK g : g = CHOOSE k : SumsTo(k, f, SUBSET S)
  OBVIOUS
<1>4. SumsTo(g, f, SUBSET S) /\ SumOf(f, S) = g[S]
  BY <1>1, <1>3, SumOfAll DEF SumOf
<1> QED
  BY <1>1, <1>2, <1>4, SumIsNumber

\* The largest word of a header, ten times over.
MaxWord == 65535
TenWords == 655350

\* Ones' complement: what the carries leave of a sum is the sum less a multiple
\* of 65535, and is not 0 if the sum is not.
FoldsTo(t, r) == r \in Nat /\ r <= MaxWord /\ (t > 0 => r > 0) /\ \E a \in Nat : t = r + MaxWord * a

LEMMA FoldsIf ==
  ASSUME NEW t \in Nat, NEW r \in Nat, r <= 65535, t > 0 => r > 0, NEW a \in Nat, t = r + 65535 * a
  PROVE  FoldsTo(t, r)
<1>1. r <= MaxWord /\ t = r + MaxWord * a
  BY SMT DEF MaxWord
<1> QED
  BY <1>1, SMT DEF FoldsTo

LEMMA FoldedIs ==
  ASSUME NEW t \in Nat, t <= TenWords
  PROVE  FoldsTo(t, Folded(t))
<1>1. PICK q \in Nat : q = t \div 65536
  BY SMT
<1>2. PICK r \in Nat : r = t % 65536
  BY SMT
<1>3. t = 65536 * q + r /\ r < 65536 /\ q <= 10
  BY <1>1, <1>2, SMT DEF TenWords
<1>4. Carried(t) = q + r /\ q + r \in Nat
  BY <1>1, <1>2, SMT DEF Carried
<1>5. q + r <= 65545 /\ t = (q + r) + 65535 * q
  BY <1>3, SMT
<1>6. CASE t < 65536
  <2>1. Folded(t) = t
    BY <1>6, SMT DEF Folded
  <2>2. t <= 65535 /\ t = t + 65535 * 0 /\ 0 \in Nat
    BY <1>6, SMT
  <2>3. FoldsTo(t, t)
    BY <2>2, FoldsIf, SMT
  <2> QED
    BY <2>1, <2>3, SMT
<1>7. CASE t >= 65536 /\ q + r < 65536
  <2>1. Folded(t) = q + r
    BY <1>4, <1>7, SMT DEF Folded
  <2>2. q + r <= 65535 /\ q + r > 0
    BY <1>3, <1>7, SMT
  <2>3. FoldsTo(t, q + r)
    BY <1>1, <1>4, <1>5, <2>2, FoldsIf, SMT
  <2> QED
    BY <2>1, <2>3, SMT
<1>8. CASE t >= 65536 /\ q + r >= 65536
  <2>1. PICK u \in Nat : u = q + r
    BY <1>4, SMT
  <2>2. u \div 65536 = 1 /\ u % 65536 = u - 65536
    BY <1>5, <1>8, <2>1, SMT
  <2>3. Carried(u) = u - 65535
    BY <2>1, <2>2, SMT DEF Carried
  <2>4. Folded(t) = u - 65535
    BY <1>4, <1>8, <2>1, <2>3, SMT DEF Folded
  <2>5. u - 65535 \in Nat /\ u - 65535 <= 65535 /\ u - 65535 > 0 /\ t = (u - 65535) + 65535 * (q + 1)
    BY <1>5, <1>8, <2>1, SMT
  <2>6. q + 1 \in Nat
    BY SMT
  <2>7. FoldsTo(t, u - 65535)
    BY <2>5, <2>6, FoldsIf, SMT
  <2> QED
    BY <2>4, <2>7, SMT
<1>9. t < 65536 \/ (t >= 65536 /\ q + r < 65536) \/ (t >= 65536 /\ q + r >= 65536)
  BY <1>4, SMT
<1> QED
  BY <1>6, <1>7, <1>8, <1>9, SMT

\* The sum of the words with the checksum folds to all ones.
LEMMA ChecksumHolds ==
  ASSUME NEW t \in Nat, t > 0, t <= TenWords, NEW u, u = t + (MaxWord - Folded(t)), u <= TenWords
  PROVE  Folded(u) = MaxWord
<1>1. FoldsTo(t, Folded(t))
  BY FoldedIs, Zenon
<1>2. PICK f \in Nat : f = Folded(t)
  BY <1>1, SMT DEF FoldsTo
<1>3. PICK a \in Nat : t = f + MaxWord * a
  BY <1>1, <1>2, SMT DEF FoldsTo
<1>4. f <= 65535 /\ f > 0
  BY <1>1, <1>2, SMT DEF FoldsTo, MaxWord
<1>5. u \in Nat /\ u > 0 /\ u = 65535 * (a + 1)
  BY <1>2, <1>3, <1>4, SMT DEF MaxWord
<1>6. FoldsTo(u, Folded(u))
  <2>1. u \in Nat
    BY <1>5, SMT
  <2> QED
    BY <2>1, FoldedIs, Zenon
<1>7. PICK g \in Nat : g = Folded(u)
  BY <1>6, SMT DEF FoldsTo
<1>8. PICK b \in Nat : u = g + 65535 * b
  BY <1>6, <1>7, SMT DEF FoldsTo, MaxWord
<1>9. g <= 65535 /\ g > 0
  BY <1>5, <1>6, <1>7, SMT DEF FoldsTo, MaxWord
<1>10. g = 65535
  BY <1>5, <1>8, <1>9, SMT
<1> QED
  BY <1>7, <1>10, SMT DEF MaxWord

LEMMA WordsAre == /\ \A x \in Nat : x <= MaxWord => x \in Word
                  /\ \A x \in Word : x \in Nat /\ x <= MaxWord
<1>1. \A m, k \in Nat : \A x : x \in m .. k => x \in Nat /\ x <= k
  BY SMT
<1>2. Word = 0 .. MaxWord
  BY DEF Word, MaxWord
<1>3. MaxWord \in Nat
  BY SMT DEF MaxWord
<1> QED
  BY <1>1, <1>2, <1>3, SMT

\* A tuple of so many words.
Tuple(f, n) == f \in Seq(Word) /\ Len(f) = n

LEMMA ATuple == \A n \in Nat : \A f \in [1 .. n -> Word] : Tuple(f, n)
<1> SUFFICES ASSUME NEW n \in Nat, NEW f \in [1 .. n -> Word] PROVE Tuple(f, n)
  BY Zenon
<1>1. f \in Seq(Word)
  BY IsASeq
<1>2. Len(f) = n
  BY <1>1, LenProperties
<1> QED
  BY <1>1, <1>2 DEF Tuple

LEMMA TwoWords ==
  ASSUME NEW s \in {SrcIp, DstIp}
  PROVE  s \in Seq(Word) /\ Len(s) = 2
<1>1. s \in [1 .. 2 -> Word] /\ 2 \in Nat
  BY AddressAssumption, Zenon
<1> QED
  BY <1>1, ATuple, Zenon DEF Tuple

Places == 1 .. 10

LEMMA PlacesFinite == IsFiniteSet(Places) /\ Cardinality(Places) = 10 /\ 1 \in Places /\ 6 \in Places
<1>1. ASSUME NEW n \in Nat PROVE IsFiniteSet(1 .. n) /\ Cardinality(1 .. n) = n
  BY FS_Interval
<1>2. \A n \in Nat : \A S : S = 1 .. n => IsFiniteSet(S) /\ Cardinality(S) = n
  BY <1>1, Zenon
<1>3. 10 \in Nat /\ Places = 1 .. 10 /\ 1 \in Places /\ 6 \in Places
  BY DEF Places
<1> QED
  BY <1>2, <1>3, Zenon

\* The addresses, behind the six words before them.
Addresses == SrcIp \o DstIp
SixWords(total, c) == <<17664, total, 0, 16384, 64 * 256 + 17, c>>

IsHeader(hw, total, c) ==
  /\ hw \in [Places -> Nat] /\ DOMAIN hw = Places
  /\ \A i \in Places : /\ hw[i] <= MaxWord
                       /\ i <= 6 => hw[i] = SixWords(total, c)[i]
                       /\ i > 6 => hw[i] = Addresses[i - 6]

LEMMA SixAre ==
  ASSUME NEW total \in Nat, total <= MaxWord, NEW c \in Nat, c <= MaxWord
  PROVE  SixWords(total, c) \in Seq(Word) /\ Len(SixWords(total, c)) = 6
<1>1. 17664 \in Word /\ total \in Word /\ 0 \in Word /\ 16384 \in Word
      /\ 64 * 256 + 17 \in Word /\ c \in Word
  <2>1. 17664 <= MaxWord /\ 0 <= MaxWord /\ 16384 <= MaxWord /\ 64 * 256 + 17 <= MaxWord
    BY SMT DEF MaxWord
  <2>2. 17664 \in Nat /\ 0 \in Nat /\ 16384 \in Nat /\ 64 * 256 + 17 \in Nat
    BY SMT
  <2> QED
    BY <2>1, <2>2, WordsAre, SMT
<1>2. SixWords(total, c) \in [1 .. 6 -> Word] /\ 6 \in Nat
  BY <1>1, SMT DEF SixWords
<1> QED
  BY <1>2, ATuple, Zenon DEF Tuple

LEMMA HeaderWords ==
  ASSUME NEW total \in Nat, total <= MaxWord, NEW c \in Nat, c <= MaxWord
  PROVE  IsHeader(Ipv4Words(total, 0, c), total, c)
<1>1. SrcIp \in Seq(Word) /\ Len(SrcIp) = 2 /\ DstIp \in Seq(Word) /\ Len(DstIp) = 2
  BY TwoWords
<1>2. PICK a : a = Addresses
  OBVIOUS
<1>3. a \in Seq(Word) /\ Len(a) = 4
  <2>1. a = SrcIp \o DstIp
    BY <1>2 DEF Addresses
  <2>2. a \in Seq(Word) /\ Len(a) = Len(SrcIp) + Len(DstIp)
    BY <1>1, <2>1, ConcatProperties
  <2> QED
    BY <1>1, <2>2
<1>4. PICK h : h = SixWords(total, c)
  OBVIOUS
<1>5. h \in Seq(Word) /\ Len(h) = 6
  BY <1>4, SixAre
<1>6. PICK hw : hw = Ipv4Words(total, 0, c)
  OBVIOUS
<1>7. hw = h \o a
  <2>1. hw = (h \o SrcIp) \o DstIp
    BY <1>4, <1>6, SMT DEF Ipv4Words, SixWords
  <2>2. (h \o SrcIp) \o DstIp = h \o (SrcIp \o DstIp)
    BY <1>1, <1>5, ConcatAssociative
  <2> QED
    BY <1>2, <2>1, <2>2, Zenon DEF Addresses
<1>8. hw \in Seq(Word) /\ Len(hw) = Len(h) + Len(a)
      /\ \A i \in 1 .. Len(h) + Len(a) : hw[i] = IF i <= Len(h) THEN h[i] ELSE a[i - Len(h)]
  BY <1>3, <1>5, <1>7, ConcatProperties
<1>9. hw \in Seq(Word) /\ Len(hw) = 10 /\ \A i \in Places : hw[i] = IF i <= 6 THEN h[i] ELSE a[i - 6]
  <2>1. PICK k \in Nat : k = 6
    OBVIOUS
  <2>2. Places = 1 .. Len(h) + Len(a) /\ Len(h) = k
    BY <1>3, <1>5, <2>1, SMT DEF Places
  <2>3. Len(hw) = 10
    BY <1>3, <1>5, <1>8, SMT
  <2>4. \A i \in Places : hw[i] = IF i <= k THEN h[i] ELSE a[i - k]
    BY <1>8, <2>2
  <2> QED
    BY <1>8, <2>1, <2>3, <2>4
<1>10. DOMAIN hw = Places /\ hw \in [Places -> Word]
  <2>1. PICK n \in Nat : n = 10
    OBVIOUS
  <2>2. Len(hw) = n /\ Places = 1 .. n
    BY <1>9, <2>1, SMT DEF Places
  <2> QED
    BY <1>9, <2>2, LenProperties
<1>11. \A i \in Places : (i <= 6 => hw[i] = h[i]) /\ (i > 6 => hw[i] = a[i - 6])
  BY <1>9, SMT DEF Places
<1>12. hw \in [Places -> Nat] /\ \A i \in Places : hw[i] <= MaxWord
  BY <1>10, WordsAre, Zenon
<1> QED
  BY <1>2, <1>4, <1>6, <1>10, <1>11, <1>12, Zenon DEF IsHeader

\* What comes of the words of a header when the checksum is put in.
HeaderSums(total, c) ==
  /\ Total(Ipv4Words(total, 0, 0)) \in Nat /\ Total(Ipv4Words(total, 0, 0)) > 0
  /\ Total(Ipv4Words(total, 0, c)) = Total(Ipv4Words(total, 0, 0)) + c
  /\ Total(Ipv4Words(total, 0, c)) <= TenWords

LEMMA HeaderSum ==
  ASSUME NEW total \in Nat, total <= MaxWord, NEW c \in Nat, c <= MaxWord
  PROVE  HeaderSums(total, c)
<1>1. PICK e : e = Ipv4Words(total, 0, 0)
  OBVIOUS
<1>2. PICK f : f = Ipv4Words(total, 0, c)
  OBVIOUS
<1>3. IsHeader(e, total, 0) /\ IsHeader(f, total, c)
  <2>1. 0 \in Nat /\ 0 <= MaxWord
    BY SMT DEF MaxWord
  <2> QED
    BY <1>1, <1>2, <2>1, HeaderWords
<1>4. /\ e \in [Places -> Nat] /\ DOMAIN e = Places /\ \A i \in Places : e[i] <= MaxWord
      /\ f \in [Places -> Nat] /\ DOMAIN f = Places /\ \A i \in Places : f[i] <= MaxWord
  BY <1>3, Zenon DEF IsHeader
<1>5. PICK k \in Nat : k = 17664
  BY SMT
<1>6. e[1] = k /\ e[6] = 0 /\ f[6] = c
  <2>1. 1 <= 6 /\ 6 <= 6
    OBVIOUS
  <2>2. e[1] = SixWords(total, 0)[1] /\ e[6] = SixWords(total, 0)[6] /\ f[6] = SixWords(total, c)[6]
    BY <1>3, <2>1, PlacesFinite, Zenon DEF IsHeader
  <2>3. SixWords(total, 0)[1] = 17664 /\ SixWords(total, 0)[6] = 0 /\ SixWords(total, c)[6] = c
    BY SMT DEF SixWords
  <2> QED
    BY <1>5, <2>2, <2>3, SMT
<1>7. ASSUME NEW i \in Places, i # 6 PROVE f[i] = e[i]
  <2>1. CASE i > 6
    BY <1>3, <1>7, <2>1, Zenon DEF IsHeader
  <2>2. CASE i \in {1, 2, 3, 4, 5}
    <3>1. i <= 6
      BY <2>2
    <3>2. e[i] = SixWords(total, 0)[i] /\ f[i] = SixWords(total, c)[i]
      BY <1>3, <1>7, <3>1, Zenon DEF IsHeader
    <3>3. SixWords(total, 0)[i] = SixWords(total, c)[i]
      BY <2>2, SMT DEF SixWords
    <3> QED
      BY <3>2, <3>3
  <2>3. i > 6 \/ i \in {1, 2, 3, 4, 5}
    BY <1>7, SMT DEF Places
  <2> QED
    BY <2>1, <2>2, <2>3
<1> DEFINE z == [i \in Places |-> IF i = 1 THEN 0 ELSE e[i]]
<1>8. z \in [Places -> Nat] /\ e[1] = z[1] + k /\ \A i \in Places : i # 1 => e[i] = z[i]
  BY <1>4, <1>6, PlacesFinite
<1>9. Total(e) = SumOf(e, Places) /\ Total(f) = SumOf(f, Places)
  BY <1>4, TotalIs
<1> HIDE DEF z
<1>10. MaxWord \in Nat
  BY SMT DEF MaxWord
<1>11. Grown(Places, SumOf(e, Places), SumOf(f, Places), c, MaxWord)
  <2>1. f[6] = e[6] + c
    BY <1>6
  <2>2. OneMore(Places, e, f, 6, c, MaxWord)
    BY <1>4, <1>7, <2>1, PlacesFinite DEF OneMore
  <2> QED
    BY <1>10, <2>2, PlacesFinite, SumGrows
<1>12. Grown(Places, SumOf(z, Places), SumOf(e, Places), k, MaxWord)
  <2>1. OneMore(Places, z, e, 1, k, MaxWord)
    BY <1>4, <1>8, PlacesFinite DEF OneMore
  <2> QED
    BY <1>10, <2>1, PlacesFinite, SumGrows
<1>13. SumOf(e, Places) \in Nat /\ SumOf(f, Places) = SumOf(e, Places) + c
  BY <1>11, Zenon DEF Grown
<1>14. SumOf(f, Places) <= TenWords
  <2>1. SumOf(f, Places) <= MaxWord * 10
    BY <1>11, PlacesFinite, Zenon DEF Grown
  <2>2. MaxWord * 10 = TenWords
    BY SMT DEF MaxWord, TenWords
  <2> QED
    BY <2>1, <2>2
<1>15. SumOf(e, Places) > 0
  <2>1. PICK y \in Nat : y = SumOf(z, Places)
    BY <1>12, Zenon DEF Grown
  <2>2. SumOf(e, Places) = y + k
    BY <1>12, <2>1, Zenon DEF Grown
  <2> QED
    BY <1>5, <2>1, <2>2, SMT
<1> QED
  BY <1>1, <1>2, <1>9, <1>13, <1>14, <1>15, Zenon DEF HeaderSums

\* A frame of the builder: its length, and that the stack behind accepts it.
AFrame(f, n) == f.length \in Nat /\ f.length > 0 /\ f.seq = n /\ Verifies(f, f.length)

LEMMA FrameFacts ==
  ASSUME NEW l \in MessageLists, NEW n \in Nat, NEW f, f = build_kc705_frame(l, n, Len(l))
  PROVE  AFrame(f, n)
<1>1. PICK p : p = FoldSeq(LAMBDA k, t : 2 + k + t, 0, l)
  OBVIOUS
<1>2. p \in Nat
  <2>1. l \in Seq(Nat)
    BY EthAssumption
  <2> QED
    BY <1>1, <2>1, PayloadLength
<1>3. PICK m : m = build_moldupp64_payload(n, Len(l), l)
  OBVIOUS
<1>4. build_moldupp64_payload(1, Len(l), l).length = 20 + p /\ m.length = 20 + p
  BY <1>1, <1>3, Zenon DEF build_moldupp64_payload, MoldLength
<1>5. PICK total \in Nat : total = 48 + p
  BY <1>2
<1>6. total <= MaxWord
  <2>1. Ipv4Length + UdpLength + build_moldupp64_payload(1, Len(l), l).length <= MaxWord
    BY EthAssumption, SMT DEF MaxWord
  <2>2. Ipv4Length = 20 /\ UdpLength = 8
    BY DEF Ipv4Length, UdpLength
  <2> QED
    BY <1>2, <1>4, <1>5, <2>1, <2>2
<1>7. PICK t0 : t0 = Total(Ipv4Words(total, 0, 0))
  OBVIOUS
<1>8. t0 \in Nat /\ t0 > 0 /\ t0 <= TenWords
  <2>1. 0 \in Nat /\ 0 <= MaxWord
    BY SMT DEF MaxWord
  <2> QED
    BY <1>6, <1>7, <2>1, HeaderSum DEF HeaderSums
<1>9. PICK c : c = MaxWord - Folded(t0)
  OBVIOUS
<1>10. c \in Nat /\ c <= MaxWord
  <2>1. FoldsTo(t0, Folded(t0)) /\ MaxWord \in Nat
    BY <1>8, FoldedIs, SMT DEF MaxWord
  <2> QED
    BY <1>9, <2>1, SMT DEF FoldsTo
<1>11. PICK u : u = Total(Ipv4Words(total, 0, c))
  OBVIOUS
<1>12. u = t0 + c /\ u <= TenWords
  BY <1>6, <1>7, <1>10, <1>11, HeaderSum DEF HeaderSums
<1>13. Folded(u) = MaxWord
  BY <1>8, <1>9, <1>12, ChecksumHolds
<1>14. /\ f.seq = n /\ f.length = 14 + 20 + 8 + m.length /\ f.eth.eth_type = 2048
       /\ f.mold = m
  BY <1>3, SMT DEF build_kc705_frame, build_eth_header, EthLength, Ipv4Length, UdpLength
<1>15. PICK k : k = 28 + p
  OBVIOUS
<1>16. 8 + m.length = k /\ 20 + k = total /\ f.length = 62 + p
  BY <1>2, <1>4, <1>5, <1>14, <1>15, SMT
<1>17. /\ build_ipv4_header(k, 0).total_length = 20 + k /\ build_ipv4_header(k, 0).ident = 0
       /\ build_ipv4_header(k, 0).checksum = compute_ipv4_checksum(Ipv4Words(20 + k, 0, 0))
  BY DEF build_ipv4_header, Ipv4Length
<1>18. compute_ipv4_checksum(Ipv4Words(total, 0, 0)) = c
  BY <1>7, <1>9, SMT DEF compute_ipv4_checksum, MaxWord
<1>19. f.ipv4.total_length = total /\ f.ipv4.ident = 0 /\ f.ipv4.checksum = c
  <2>1. f.ipv4 = build_ipv4_header(k, 0)
    <3>1. \A d : d = UdpLength + m.length => f.ipv4 = build_ipv4_header(d, 0)
      BY <1>3, Zenon DEF build_kc705_frame
    <3>2. k = UdpLength + m.length
      BY <1>16 DEF UdpLength
    <3> QED
      BY <3>1, <3>2, Zenon
  <2> QED
    BY <1>16, <1>17, <1>18, <2>1, Zenon
<1>20. f.udp.length = k
  <2>1. build_udp_header(m.length).length = 8 + m.length
    BY DEF build_udp_header, UdpLength
  <2>2. f.udp = build_udp_header(m.length)
    BY <1>3, Zenon DEF build_kc705_frame
  <2>3. 8 + m.length = k
    BY <1>16
  <2> QED
    BY <2>1, <2>2, <2>3, Zenon
<1>21. Folded(Total(Ipv4Words(f.ipv4.total_length, f.ipv4.ident, f.ipv4.checksum))) = 65535
  <2>1. Folded(Total(Ipv4Words(f.ipv4.total_length, f.ipv4.ident, f.ipv4.checksum))) = MaxWord
    BY <1>11, <1>13, <1>19, Zenon
  <2> QED
    BY <2>1, SMT DEF MaxWord
<1>22. /\ EthLength + f.ipv4.total_length = f.length
       /\ Ipv4Length + f.udp.length = f.ipv4.total_length
       /\ UdpLength + f.mold.length = f.udp.length
  <2>1. EthLength = 14 /\ Ipv4Length = 20 /\ UdpLength = 8 /\ f.mold.length = 20 + p
    BY <1>4, <1>14, Zenon DEF EthLength, Ipv4Length, UdpLength
  <2>2. 14 + total = 62 + p /\ 20 + k = total /\ 8 + (20 + p) = k
    BY <1>2, <1>5, <1>15, SMT
  <2> QED
    BY <1>16, <1>19, <1>20, <2>1, <2>2, Zenon
<1>23. f.length \in Nat /\ f.length > 0
  BY <1>2, <1>16, SMTT(20)
<1>24. Verifies(f, f.length)
  BY <1>14, <1>21, <1>22, SMTT(20) DEF Verifies
<1> QED
  BY <1>14, <1>23, <1>24, Zenon DEF AFrame

-----------------------------------------------------------------------------
(* Sequences laid end to end.                                              *)

\* The same, as the beats of a datagram.
Boxed(s) == [i \in 1 .. Len(s) |-> [bytes |-> s[i]]]

LEMMA GatherIs ==
  ASSUME NEW bs, NEW n \in Nat, NEW f, Gathers(f, bs, n)
  PROVE  f[0] = << >> /\ \A k \in 1 .. n : f[k] = f[k - 1] \o bs[k].bytes
<1>1. ASSUME NEW k \in 1 .. n PROVE f[k] = f[k - 1] \o bs[k].bytes
  <2>1. k \in 0 .. n /\ k # 0
    OBVIOUS
  <2> QED
    BY <2>1 DEF Gathers
<1>2. 0 \in 0 .. n
  OBVIOUS
<1> QED
  BY <1>1, <1>2 DEF Gathers

\* Gathered so far, always a sequence.
LEMMA GathersSeqs ==
  ASSUME NEW X, NEW s \in Seq(Seq(X)), NEW f, Gathers(f, Boxed(s), Len(s))
  PROVE  \A k \in 0 .. Len(s) : f[k] \in Seq(X)
<1> DEFINE P == {k \in Nat : k <= Len(s) => f[k] \in Seq(X)}
<1>1. Len(s) \in Nat /\ \A k \in 1 .. Len(s) : s[k] \in Seq(X)
  BY LenProperties, ElementOfSeq
<1>2. f[0] = << >> /\ \A k \in 1 .. Len(s) : f[k] = f[k - 1] \o Boxed(s)[k].bytes
  BY <1>1, GatherIs
<1>3. 0 \in P
  BY <1>2, EmptySeq
<1>4. ASSUME NEW k \in Nat, k \in P PROVE k + 1 \in P
  <2> SUFFICES ASSUME k + 1 <= Len(s) PROVE f[k + 1] \in Seq(X)
    OBVIOUS
  <2>1. f[k] \in Seq(X) /\ k + 1 \in 1 .. Len(s) /\ (k + 1) - 1 = k
    BY <1>1, <1>4
  <2>2. f[k + 1] = f[k] \o Boxed(s)[k + 1].bytes
    BY <1>2, <2>1
  <2>3. Boxed(s)[k + 1].bytes = s[k + 1] /\ s[k + 1] \in Seq(X)
    BY <1>1, <2>1 DEF Boxed
  <2> QED
    BY <2>1, <2>2, <2>3, ConcatProperties
<1> HIDE DEF P
<1>5. Nat \subseteq P
  BY <1>3, <1>4, AllNumbers
<1> QED
  BY <1>1, <1>5 DEF P

Flattens(g, s) == g = [i \in 1 .. Len(s) |-> IF i = 1 THEN s[i] ELSE g[i - 1] \o s[i]]

LEMMA FlattenOne ==
  ASSUME NEW X, NEW s \in Seq(Seq(X)), NEW f, Gathers(f, Boxed(s), Len(s)),
         NEW g, Flattens(g, s)
  PROVE  \A k \in 1 .. Len(s) : g[k] = f[k]
<1> DEFINE P == {k \in Nat : k \in 1 .. Len(s) => g[k] = f[k]}
<1>1. Len(s) \in Nat /\ \A k \in 1 .. Len(s) : s[k] \in Seq(X)
  BY LenProperties, ElementOfSeq
<1>2. f[0] = << >> /\ \A k \in 1 .. Len(s) : f[k] = f[k - 1] \o Boxed(s)[k].bytes
  BY <1>1, GatherIs
<1>3. \A k \in 1 .. Len(s) : Boxed(s)[k].bytes = s[k]
  BY DEF Boxed
<1>4. 0 \in P
  OBVIOUS
<1>5. ASSUME NEW k \in Nat, k \in P PROVE k + 1 \in P
  <2> SUFFICES ASSUME k + 1 \in 1 .. Len(s) PROVE g[k + 1] = f[k + 1]
    OBVIOUS
  <2>1. PICK j : j = k + 1
    OBVIOUS
  <2>2. j \in 1 .. Len(s) /\ j - 1 = k
    BY <2>1
  <2>3. f[j] = f[k] \o s[j]
    BY <1>2, <1>3, <2>2
  <2>4. g[j] = IF j = 1 THEN s[j] ELSE g[j - 1] \o s[j]
    BY <2>2 DEF Flattens
  <2>5. CASE k = 0
    <3>1. f[j] = << >> \o s[j] /\ s[j] \in Seq(X)
      BY <1>1, <1>2, <2>2, <2>3, <2>5
    <3>2. f[j] = s[j]
      BY <3>1, ConcatEmptySeq
    <3>3. g[j] = s[j]
      BY <2>2, <2>4, <2>5
    <3> QED
      BY <2>1, <3>2, <3>3
  <2>6. CASE k # 0
    <3>1. k \in 1 .. Len(s) /\ j # 1
      BY <1>1, <2>2, <2>6
    <3>2. g[k] = f[k]
      BY <1>5, <3>1
    <3>3. g[j] = g[k] \o s[j]
      BY <2>2, <2>4, <3>1
    <3> QED
      BY <2>1, <2>3, <3>2, <3>3
  <2> QED
    BY <2>5, <2>6
<1> HIDE DEF P
<1>6. Nat \subseteq P
  BY <1>4, <1>5, AllNumbers
<1>7. \A k \in 1 .. Len(s) : k \in Nat
  OBVIOUS
<1> QED
  BY <1>6, <1>7 DEF P

LEMMA FlattensAll ==
  ASSUME NEW X, NEW s \in Seq(Seq(X)) PROVE \E g : Flattens(g, s)
<1>1. Len(s) \in Nat /\ \A k \in 1 .. Len(s) : s[k] \in Seq(X)
  BY LenProperties, ElementOfSeq
<1>2. PICK f : Gathers(f, Boxed(s), Len(s))
  BY <1>1, GathersAll
<1>3. f[0] = << >> /\ \A k \in 1 .. Len(s) : f[k] = f[k - 1] \o Boxed(s)[k].bytes
  BY <1>1, <1>2, GatherIs
<1>4. \A k \in 1 .. Len(s) : Boxed(s)[k].bytes = s[k]
  BY DEF Boxed
<1> DEFINE g == [i \in 1 .. Len(s) |-> f[i]]
           h == [i \in 1 .. Len(s) |-> IF i = 1 THEN s[i] ELSE g[i - 1] \o s[i]]
<1>5. ASSUME NEW i \in 1 .. Len(s) PROVE g[i] = h[i]
  <2>1. g[i] = f[i - 1] \o s[i]
    BY <1>3, <1>4, <1>5
  <2>2. CASE i = 1
    <3>1. f[i - 1] = << >>
      BY <1>3, <2>2
    <3>2. s[i] \in Seq(X)
      BY <1>1, <1>5
    <3>3. << >> \o s[i] = s[i]
      BY <3>2, ConcatEmptySeq
    <3>4. h[i] = s[i]
      BY <1>5, <2>2
    <3> QED
      BY <2>1, <3>1, <3>3, <3>4
  <2>3. CASE i # 1
    <3>1. i - 1 \in 1 .. Len(s)
      BY <1>1, <1>5, <2>3
    <3>2. g[i - 1] = f[i - 1]
      BY <3>1
    <3>3. h[i] = g[i - 1] \o s[i]
      BY <1>5, <2>3
    <3> QED
      BY <2>1, <3>2, <3>3
  <2> QED
    BY <2>2, <2>3
<1>6. g = [i \in 1 .. Len(s) |-> g[i]] /\ h = [i \in 1 .. Len(s) |-> h[i]]
  OBVIOUS
<1> HIDE DEF g, h
<1>7. g = h
  BY <1>5, <1>6
<1>8. Flattens(g, s)
  BY <1>7 DEF h, Flattens
<1> QED
  BY <1>8

LEMMA FlatBoxed ==
  ASSUME NEW X, NEW s \in Seq(Seq(X)) PROVE FlattenSeq(s) = beats_to_bytes(Boxed(s))
<1>1. Len(s) \in Nat
  BY LenProperties
<1>2. Len(Boxed(s)) = Len(s)
  BY <1>1 DEF Boxed
<1>3. PICK f : Gathers(f, Boxed(s), Len(s))
  BY <1>1, GathersAll
<1>4. beats_to_bytes(Boxed(s)) = f[Len(s)]
  BY <1>1, <1>2, <1>3, BytesOf
<1>5. CASE Len(s) = 0
  <2>1. s = << >>
    BY <1>5, EmptySeq
  <2>2. FlattenSeq(s) = s
    BY <1>5, Zenon DEF FlattenSeq
  <2>3. f[0] = << >>
    BY <1>1, <1>3, GatherIs
  <2> QED
    BY <1>4, <1>5, <2>1, <2>2, <2>3
<1>6. CASE Len(s) # 0
  <2>1. PICK g : g = CHOOSE k : Flattens(k, s)
    OBVIOUS
  <2>2. Flattens(g, s)
    BY <2>1, FlattensAll
  <2>3. FlattenSeq(s) = g[Len(s)]
    BY <1>6, <2>1, Zenon DEF FlattenSeq, Flattens
  <2>4. Len(s) \in 1 .. Len(s)
    BY <1>1, <1>6
  <2>5. g[Len(s)] = f[Len(s)]
    BY <1>3, <2>2, <2>4, FlattenOne
  <2> QED
    BY <1>4, <2>3, <2>5
<1> QED
  BY <1>5, <1>6

LEMMA FlatType ==
  ASSUME NEW X, NEW s \in Seq(Seq(X)) PROVE FlattenSeq(s) \in Seq(X)
<1>1. Len(s) \in Nat
  BY LenProperties
<1>2. Len(Boxed(s)) = Len(s)
  BY <1>1 DEF Boxed
<1>3. PICK f : Gathers(f, Boxed(s), Len(s))
  BY <1>1, GathersAll
<1>4. beats_to_bytes(Boxed(s)) = f[Len(s)]
  BY <1>1, <1>2, <1>3, BytesOf
<1>5. f[Len(s)] \in Seq(X)
  BY <1>1, <1>3, GathersSeqs
<1> QED
  BY <1>4, <1>5, FlatBoxed

LEMMA FlatMore ==
  ASSUME NEW X, NEW s \in Seq(Seq(X)), NEW x \in Seq(X)
  PROVE  FlattenSeq(Append(s, x)) = FlattenSeq(s) \o x
<1> DEFINE b == [bytes |-> x]
           B == [bytes : Seq(X)]
           t == Append(s, x)
           n == Len(s)
<1>1. /\ n \in Nat /\ t \in Seq(Seq(X)) /\ Len(t) = n + 1 /\ t[n + 1] = x
      /\ \A k \in 1 .. n : t[k] = s[k] /\ s[k] \in Seq(X)
  BY AppendProperties, LenProperties, ElementOfSeq
<1>2. Boxed(s) \in Seq(B) /\ Len(Boxed(s)) = n
  <2>1. Boxed(s) \in [1 .. n -> B]
    BY <1>1 DEF Boxed
  <2> HIDE DEF B, n
  <2>2. Boxed(s) \in Seq(B)
    BY <1>1, <2>1, IsASeq
  <2> QED
    BY <1>1, <2>2 DEF Boxed, n
<1>3. Boxed(t) \in Seq(B) /\ Len(Boxed(t)) = n + 1
  <2>1. \A k \in 1 .. n + 1 : t[k] \in Seq(X)
    BY <1>1, ElementOfSeq
  <2>2. Boxed(t) \in [1 .. n + 1 -> B] /\ n + 1 \in Nat
    BY <1>1, <2>1 DEF Boxed
  <2> HIDE DEF B, n, t
  <2>3. Boxed(t) \in Seq(B)
    BY <2>2, IsASeq
  <2> QED
    BY <1>1, <2>3 DEF Boxed
<1>4. b \in B
  OBVIOUS
<1>5. /\ \A k \in 1 .. n : Boxed(s)[k] = [bytes |-> s[k]]
      /\ \A k \in 1 .. n + 1 : Boxed(t)[k] = [bytes |-> t[k]]
  BY <1>1 DEF Boxed
<1> HIDE DEF t, b, B, n
<1>6. Boxed(t) = Append(Boxed(s), b)
  <2>1. /\ Append(Boxed(s), b) \in Seq(B) /\ Len(Append(Boxed(s), b)) = n + 1
        /\ Append(Boxed(s), b)[n + 1] = b
        /\ \A k \in 1 .. n : Append(Boxed(s), b)[k] = Boxed(s)[k]
    BY <1>2, <1>4, AppendProperties
  <2>2. ASSUME NEW k \in 1 .. n + 1 PROVE Boxed(t)[k] = Append(Boxed(s), b)[k]
    <3>1. CASE k = n + 1
      BY <1>1, <1>5, <2>1, <3>1 DEF b
    <3>2. CASE k # n + 1
      <4>1. k \in 1 .. n
        BY <1>1, <2>2, <3>2
      <4> QED
        BY <1>1, <1>5, <2>1, <2>2, <4>1
    <3> QED
      BY <3>1, <3>2
  <2> QED
    BY <1>3, <2>1, <2>2, SeqEqual
<1>7. beats_to_bytes(Append(Boxed(s), b)) = beats_to_bytes(Boxed(s)) \o b.bytes
  BY <1>2, <1>4, MoreBytes
<1>8. FlattenSeq(t) = beats_to_bytes(Boxed(t)) /\ FlattenSeq(s) = beats_to_bytes(Boxed(s))
  BY <1>1, FlatBoxed
<1> QED
  BY <1>6, <1>7, <1>8 DEF b, t

LEMMA FlatNone == FlattenSeq(<< >>) = << >>
BY DEF FlattenSeq

-----------------------------------------------------------------------------
(* What eth_axis_rx is given.                                              *)

Longer(S, s, t, n) == s \in Seq(S) /\ t \in Seq(S) /\ Len(s) = n /\ t[n + 1] \in S /\ t = Append(s, t[n + 1])

LEMMA OneLonger ==
  ASSUME NEW S, NEW n \in Nat, NEW s \in [1 .. n -> S], NEW t \in [1 .. n + 1 -> S],
         \A k \in 1 .. n : t[k] = s[k]
  PROVE  Longer(S, s, t, n)
<1>1. s \in Seq(S) /\ t \in Seq(S) /\ n + 1 \in Nat
  BY IsASeq
<1>2. Len(s) = n /\ Len(t) = n + 1 /\ t[n + 1] \in S
  BY <1>1, LenProperties
<1> DEFINE a == Append(s, t[n + 1])
<1>3. a \in Seq(S) /\ Len(a) = n + 1 /\ a[n + 1] = t[n + 1] /\ \A k \in 1 .. n : a[k] = s[k]
  BY <1>1, <1>2, AppendProperties
<1> HIDE DEF a
<1>4. ASSUME NEW k \in 1 .. n + 1 PROVE t[k] = a[k]
  <2>1. k \in 1 .. n \/ k = n + 1
    OBVIOUS
  <2> QED
    BY <1>3, <2>1
<1>5. t = a
  BY <1>1, <1>2, <1>3, <1>4, SeqEqual
<1> QED
  BY <1>1, <1>2, <1>5 DEF Longer, a

Pairs == Nat \X Nat
ByteLists(bs) == [i \in 1 .. Len(bs) |-> bs[i].bytes]

LEMMA BytesGrow ==
  ASSUME NEW bs \in Seq(MacBeat), NEW b \in MacBeat
  PROVE  Bytes(bs) \in Seq(Pairs) /\ b.bytes \in Seq(Pairs)
         /\ Bytes(Append(bs, b)) = Bytes(bs) \o b.bytes
<1>1. PICK cs : cs = Append(bs, b)
  OBVIOUS
<1>2. PICK n \in Nat : n = Len(bs)
  BY LenProperties
<1>3. /\ cs \in Seq(MacBeat) /\ Len(cs) = n + 1 /\ cs[n + 1] = b
      /\ \A k \in 1 .. n : cs[k] = bs[k]
  BY <1>1, <1>2, AppendProperties
<1>4. \A c \in MacBeat : c.bytes \in Seq(Pairs)
  BY DEF MacBeat, Pairs
<1>5. (\A k \in 1 .. n : bs[k] \in MacBeat) /\ (\A k \in 1 .. n + 1 : cs[k] \in MacBeat)
  BY <1>2, <1>3, ElementOfSeq
<1>6. PICK s : s = ByteLists(bs)
  OBVIOUS
<1>7. PICK t : t = ByteLists(cs)
  OBVIOUS
<1>8. /\ s \in [1 .. n -> Seq(Pairs)] /\ t \in [1 .. n + 1 -> Seq(Pairs)]
      /\ \A k \in 1 .. n : t[k] = s[k]
  <2>1. s = [k \in 1 .. n |-> bs[k].bytes] /\ t = [k \in 1 .. n + 1 |-> cs[k].bytes]
    BY <1>2, <1>3, <1>6, <1>7 DEF ByteLists
  <2> QED
    BY <1>3, <1>4, <1>5, <2>1
<1>9. t[n + 1] = b.bytes
  BY <1>2, <1>3, <1>7 DEF ByteLists
<1>10. Longer(Seq(Pairs), s, t, n)
  BY <1>8, OneLonger
<1>11. FlattenSeq(t) = FlattenSeq(s) \o b.bytes /\ FlattenSeq(s) \in Seq(Pairs)
  BY <1>4, <1>9, <1>10, FlatMore, FlatType DEF Longer
<1> QED
  BY <1>1, <1>4, <1>6, <1>7, <1>11 DEF Bytes, ByteLists

LEMMA NoBytesYet == Bytes(<< >>) = << >>
BY FlatNone DEF Bytes

\* The first n bytes of a frame.
Upto(f, n) == [i \in 1 .. n |-> <<f.seq, i>>]

LEMMA UptoIsSeq ==
  ASSUME NEW f, f.seq \in Nat, NEW n \in Nat
  PROVE  Upto(f, n) \in Seq(Pairs) /\ Len(Upto(f, n)) = n
<1>1. Upto(f, n) \in [1 .. n -> Pairs]
  BY DEF Upto, Pairs
<1>2. Upto(f, n) \in Seq(Pairs)
  BY <1>1, IsASeq
<1> QED
  BY <1>1, <1>2, LenProperties

Stretch(f, o, m) == [i \in 1 .. m |-> <<f.seq, o + i>>]

LEMMA UptoMeets ==
  ASSUME NEW f, f.seq \in Nat, NEW o \in Nat, NEW m \in Nat, NEW n, n = o + m
  PROVE  Upto(f, o) \o Stretch(f, o, m) = Upto(f, n)
<1>0. PICK x : x = Stretch(f, o, m)
  OBVIOUS
<1>1. x \in [1 .. m -> Pairs] /\ n \in Nat
  BY <1>0 DEF Pairs, Stretch
<1>2. x \in Seq(Pairs)
  BY <1>1, IsASeq
<1>3. Len(x) = m
  BY <1>1, <1>2, LenProperties
<1>4. PICK a : a = Upto(f, o)
  OBVIOUS
<1>5. a \in Seq(Pairs) /\ Len(a) = o /\ \A i \in 1 .. o : a[i] = <<f.seq, i>>
  BY <1>4, UptoIsSeq DEF Upto
<1>6. PICK c : c = Upto(f, n)
  OBVIOUS
<1>7. c \in Seq(Pairs) /\ Len(c) = n /\ \A i \in 1 .. n : c[i] = <<f.seq, i>>
  BY <1>1, <1>6, UptoIsSeq DEF Upto
<1>8. PICK d : d = a \o x
  OBVIOUS
<1>9. d \in Seq(Pairs) /\ Len(d) = n /\ \A i \in 1 .. n : d[i] = IF i <= o THEN a[i] ELSE x[i - o]
  <2>1. /\ d \in Seq(Pairs) /\ Len(d) = Len(a) + Len(x)
        /\ \A i \in 1 .. Len(a) + Len(x) : d[i] = IF i <= Len(a) THEN a[i] ELSE x[i - Len(a)]
    BY <1>2, <1>5, <1>8, ConcatProperties, Zenon
  <2>2. Len(a) + Len(x) = n /\ Len(a) = o
    BY <1>3, <1>5
  <2> QED
    BY <2>1, <2>2, Zenon
<1>10. ASSUME NEW i \in 1 .. n PROVE d[i] = c[i]
  <2>1. CASE i <= o
    <3>1. i \in 1 .. o
      BY <2>1
    <3> QED
      BY <1>5, <1>7, <1>9, <1>10, <2>1, <3>1
  <2>2. CASE i > o
    <3>1. PICK j : j = i - o
      OBVIOUS
    <3>2. j \in 1 .. m /\ o + j = i
      BY <2>2, <3>1
    <3>3. x[j] = <<f.seq, o + j>>
      BY <1>0, <3>2 DEF Stretch
    <3>4. d[i] = x[j]
      BY <1>9, <1>10, <2>2, <3>1
    <3> QED
      BY <1>7, <1>10, <3>2, <3>3, <3>4
  <2> QED
    BY <2>1, <2>2
<1>11. d = c
  BY <1>7, <1>9, <1>10, SeqEqual
<1> QED
  BY <1>0, <1>4, <1>6, <1>8, <1>11

\* The beat behind the first 8 k bytes of a frame.
BeatAfter(f, k, b) ==
  /\ b \in MacBeat /\ b # NoMacBeat /\ b.last \in BOOLEAN
  /\ b.last => 8 * k + 8 >= f.length /\ Upto(f, 8 * k) \o b.bytes = FrameBytes(f)
  /\ ~b.last => 8 * (k + 1) < f.length /\ Upto(f, 8 * k) \o b.bytes = Upto(f, 8 * (k + 1))

LEMMA FrameBeat ==
  ASSUME NEW f, NEW n \in Nat, AFrame(f, n), NEW k \in Nat, 8 * k < f.length,
         NEW b, b = frame_beat(f, k)
  PROVE  BeatAfter(f, k, b)
<1>1. f.length \in Nat /\ f.seq = n /\ f.seq \in Nat
  BY DEF AFrame
<1>2. PICK o \in Nat : o = 8 * k
  OBVIOUS
<1>3. PICK e \in Nat : e = f.length
  BY <1>1
<1>4. PICK top : top = IF o + 8 < e THEN o + 8 ELSE e
  OBVIOUS
<1>5. PICK m \in Nat : m = top - o
  BY <1>2, <1>3, <1>4
<1>6. b.bytes = Stretch(f, o, m) /\ b = [bytes |-> b.bytes, last |-> b.last]
      /\ b.last = (o + 8 >= e)
  BY <1>2, <1>3, <1>4, <1>5, Zenon DEF frame_beat, Stretch
<1>7. b.last \in BOOLEAN /\ (b.last <=> o + 8 >= e)
  <2>1. CASE o + 8 >= e
    <3>1. (o + 8 >= e) = TRUE
      BY <2>1
    <3>2. b.last = TRUE
      BY <1>6, <3>1, Zenon
    <3> QED
      BY <2>1, <3>2, Zenon
  <2>2. CASE ~(o + 8 >= e)
    <3>1. (o + 8 >= e) = FALSE
      BY <2>2
    <3>2. b.last = FALSE
      BY <1>6, <3>1, Zenon
    <3> QED
      BY <2>2, <3>2, Zenon
  <2> QED
    BY <2>1, <2>2, Zenon
<1>8. b.bytes \in Seq(Pairs)
  <2>1. PICK x : x = b.bytes
    OBVIOUS
  <2>2. x \in [1 .. m -> Pairs]
    BY <1>1, <1>6, <2>1 DEF Pairs, Stretch
  <2>3. x \in Seq(Pairs)
    BY <2>2, IsASeq
  <2> QED
    BY <2>1, <2>3
<1>9. b \in MacBeat
  <2>1. [bytes |-> b.bytes, last |-> b.last] \in [bytes : Seq(Pairs), last : BOOLEAN]
    BY <1>7, <1>8, Zenon
  <2> QED
    BY <1>6, <2>1, Zenon DEF MacBeat, Pairs
<1>10. Upto(f, o) \o b.bytes = Upto(f, top)
  <2>1. top = o + m
    BY <1>2, <1>3, <1>4, <1>5
  <2>2. f.seq \in Nat
    BY <1>1
  <2>3. Upto(f, o) \o Stretch(f, o, m) = Upto(f, top)
    BY <1>2, <1>5, <2>1, <2>2, UptoMeets
  <2> QED
    BY <1>6, <2>3, Zenon
<1>11. FrameBytes(f) = Upto(f, e)
  BY <1>3, Zenon DEF FrameBytes, Upto
<1>12. o + 8 = 8 * (k + 1)
  BY <1>2
<1>13. b.last => 8 * k + 8 >= f.length /\ Upto(f, 8 * k) \o b.bytes = FrameBytes(f)
  <2> SUFFICES ASSUME b.last PROVE 8 * k + 8 >= f.length /\ Upto(f, 8 * k) \o b.bytes = FrameBytes(f)
    OBVIOUS
  <2>1. o + 8 >= e
    BY <1>7, Zenon
  <2>2. top = e
    BY <1>2, <1>3, <1>4, <2>1
  <2> QED
    BY <1>2, <1>3, <1>10, <1>11, <2>1, <2>2, Zenon
<1>14. ~b.last => 8 * (k + 1) < f.length /\ Upto(f, 8 * k) \o b.bytes = Upto(f, 8 * (k + 1))
  <2> SUFFICES ASSUME ~b.last
               PROVE  8 * (k + 1) < f.length /\ Upto(f, 8 * k) \o b.bytes = Upto(f, 8 * (k + 1))
    OBVIOUS
  <2>1. ~(o + 8 >= e)
    BY <1>7, Zenon
  <2>2. o + 8 < e
    BY <1>2, <1>3, <2>1
  <2>3. top = o + 8
    BY <1>4, <2>2, Zenon
  <2> QED
    BY <1>2, <1>3, <1>10, <1>12, <2>2, <2>3, Zenon
<1>15. b # NoMacBeat
  BY <1>9, EthAssumption
<1> QED
  BY <1>7, <1>9, <1>13, <1>14, <1>15, Zenon DEF BeatAfter

\* The beats that end a frame.
Lasts(bs) == {i \in DOMAIN bs : bs[i].last}

LEMMA LastsGrow ==
  ASSUME NEW bs \in Seq(MacBeat), NEW b \in MacBeat, IsFiniteSet(Lasts(bs)),
         NEW e \in Nat, Cardinality(Lasts(bs)) = e
  PROVE  /\ IsFiniteSet(Lasts(Append(bs, b)))
         /\ b.last => Cardinality(Lasts(Append(bs, b))) = e + 1
         /\ ~b.last => Cardinality(Lasts(Append(bs, b))) = e
<1>1. PICK cs : cs = Append(bs, b)
  OBVIOUS
<1>2. PICK n \in Nat : n = Len(bs)
  BY LenProperties
<1>3. /\ DOMAIN bs = 1 .. n /\ DOMAIN cs = 1 .. n + 1 /\ cs[n + 1] = b
      /\ \A k \in 1 .. n : cs[k] = bs[k]
  BY <1>1, <1>2, AppendProperties, LenProperties
<1>4. n + 1 \notin Lasts(bs)
  BY <1>2, <1>3 DEF Lasts
<1>5. CASE b.last
  <2>1. Lasts(cs) = Lasts(bs) \cup {n + 1}
    <3>1. \A k \in 1 .. n + 1 : k \in 1 .. n \/ k = n + 1
      BY <1>2
    <3>2. 1 .. n \subseteq 1 .. n + 1 /\ n + 1 \in 1 .. n + 1
      BY <1>2
    <3> QED
      BY <1>3, <1>5, <3>1, <3>2, Zenon DEF Lasts
  <2>2. IsFiniteSet(Lasts(bs) \cup {n + 1}) /\ Cardinality(Lasts(bs) \cup {n + 1}) = e + 1
    BY <1>4, FS_AddElement
  <2> QED
    BY <1>1, <1>5, <2>1, <2>2, Zenon
<1>6. CASE ~b.last
  <2>1. Lasts(cs) = Lasts(bs)
    <3>1. \A k \in 1 .. n + 1 : k \in 1 .. n \/ k = n + 1
      BY <1>2
    <3>2. 1 .. n \subseteq 1 .. n + 1
      BY <1>2
    <3>3. ~cs[n + 1].last
      BY <1>3, <1>6, Zenon
    <3>4. \A k \in 1 .. n : cs[k].last <=> bs[k].last
      BY <1>3, Zenon
    <3>5. Lasts(cs) \subseteq Lasts(bs)
      BY <1>3, <3>1, <3>3, <3>4, Zenon DEF Lasts
    <3>6. Lasts(bs) \subseteq Lasts(cs)
      BY <1>3, <3>2, <3>4, Zenon DEF Lasts
    <3> QED
      BY <3>5, <3>6
  <2> QED
    BY <1>1, <1>6, <2>1, Zenon
<1> QED
  BY <1>5, <1>6

\* The frames of the builder.
Frames == {build_kc705_frame(p[1], p[2], Len(p[1])) : p \in MessageLists \X Nat}
FramesOf(du, e) == [i \in 1 .. e |-> FrameBytes(du[i])]

LEMMA BuiltIsFrame ==
  ASSUME NEW l \in MessageLists, NEW n \in Nat
  PROVE  build_kc705_frame(l, n, Len(l)) \in Frames
<1>1. <<l, n>> \in MessageLists \X Nat /\ <<l, n>>[1] = l /\ <<l, n>>[2] = n
  OBVIOUS
<1> QED
  BY <1>1, Zenon DEF Frames

LEMMA FrameIsOne == ASSUME NEW f \in Frames PROVE f.seq \in Nat /\ AFrame(f, f.seq)
<1>1. PICK p \in MessageLists \X Nat : f = build_kc705_frame(p[1], p[2], Len(p[1]))
  BY Zenon DEF Frames
<1>2. PICK l \in MessageLists : l = p[1]
  BY <1>1
<1>3. PICK n \in Nat : n = p[2]
  BY <1>1
<1>4. f = build_kc705_frame(l, n, Len(l))
  BY <1>1, <1>2, <1>3, Zenon
<1>5. AFrame(f, n)
  BY <1>2, <1>3, <1>4, FrameFacts
<1>6. f.seq = n
  BY <1>5, Zenon DEF AFrame
<1> QED
  BY <1>3, <1>5, <1>6, Zenon

LEMMA FrameHasBytes == ASSUME NEW f \in Frames PROVE FrameBytes(f) \in Seq(Pairs)
<1>1. f.seq \in Nat /\ f.length \in Nat
  BY FrameIsOne DEF AFrame
<1>2. FrameBytes(f) = Upto(f, f.length)
  BY Zenon DEF FrameBytes, Upto
<1> QED
  BY <1>1, <1>2, UptoIsSeq

LEMMA FramesGrow ==
  ASSUME NEW du \in Seq(Frames), NEW e \in Nat, e + 1 <= Len(du)
  PROVE  /\ FramesOf(du, e) \in Seq(Seq(Pairs))
         /\ FrameBytes(du[e + 1]) \in Seq(Pairs)
         /\ FramesOf(du, e + 1) = Append(FramesOf(du, e), FrameBytes(du[e + 1]))
<1>1. PICK s : s = FramesOf(du, e)
  OBVIOUS
<1>2. PICK t : t = FramesOf(du, e + 1)
  OBVIOUS
<1>3. \A k \in 1 .. e + 1 : FrameBytes(du[k]) \in Seq(Pairs)
  <2>1. \A k \in 1 .. e + 1 : du[k] \in Frames
    BY LenProperties, ElementOfSeq
  <2> QED
    BY <2>1, FrameHasBytes
<1>4. /\ s \in [1 .. e -> Seq(Pairs)] /\ t \in [1 .. e + 1 -> Seq(Pairs)]
      /\ \A k \in 1 .. e : t[k] = s[k]
  BY <1>1, <1>2, <1>3 DEF FramesOf
<1>5. t[e + 1] = FrameBytes(du[e + 1])
  BY <1>2 DEF FramesOf
<1>6. Longer(Seq(Pairs), s, t, e)
  BY <1>4, OneLonger
<1> QED
  BY <1>1, <1>2, <1>5, <1>6 DEF Longer

LEMMA FramesAll ==
  ASSUME NEW du \in Seq(Frames), NEW e \in Nat, e <= Len(du)
  PROVE  FlattenSeq(FramesOf(du, e)) \in Seq(Pairs)
<1>1. \A k \in 1 .. e : du[k] \in Frames
  BY LenProperties, ElementOfSeq
<1>2. PICK s : s = FramesOf(du, e)
  OBVIOUS
<1>3. s \in [1 .. e -> Seq(Pairs)]
  BY <1>1, <1>2, FrameHasBytes DEF FramesOf
<1>4. s \in Seq(Seq(Pairs))
  BY <1>3, IsASeq
<1> QED
  BY <1>2, <1>4, FlatType

\* The beats rx are e of the frames du, and the bytes more of one more.
Given(du, bs, e, more) ==
  /\ e \in Nat /\ bs \in Seq(MacBeat)
  /\ Bytes(bs) = FlattenSeq(FramesOf(du, e)) \o more
  /\ IsFiniteSet(Lasts(bs)) /\ Cardinality(Lasts(bs)) = e

LEMMA FrameBegins ==
  ASSUME NEW du \in Seq(Frames), NEW f \in Frames, NEW bs, Given(du, bs, Len(du), << >>)
  PROVE  Given(Append(du, f), bs, Len(du), Upto(f, 0))
<1>1. Upto(f, 0) = << >>
  BY DEF Upto
<1>2. FramesOf(Append(du, f), Len(du)) = FramesOf(du, Len(du))
  <2>1. \A k \in 1 .. Len(du) : Append(du, f)[k] = du[k]
    BY AppendProperties
  <2> QED
    BY <2>1 DEF FramesOf
<1> QED
  BY <1>1, <1>2, Zenon DEF Given

LEMMA EndToEnd ==
  \A a, b, c \in Seq(Pairs) : (a \o b) \o c = a \o (b \o c)
BY ConcatAssociative

LEMMA BeatPasses ==
  ASSUME NEW du \in Seq(Frames), NEW bs, NEW e \in Nat, e + 1 <= Len(du),
         NEW f, f = du[e + 1], NEW k \in Nat, NEW b, BeatAfter(f, k, b),
         Given(du, bs, e, Upto(f, 8 * k))
  PROVE  /\ b.last => Given(du, Append(bs, b), e + 1, << >>)
         /\ ~b.last => Given(du, Append(bs, b), e, Upto(f, 8 * (k + 1)))
<1>1. bs \in Seq(MacBeat) /\ b \in MacBeat
  BY DEF Given, BeatAfter
<1>2. PICK cs : cs = Append(bs, b)
  OBVIOUS
<1>3. cs \in Seq(MacBeat)
  BY <1>1, <1>2, AppendProperties
<1>4. PICK u : u = Upto(f, 8 * k)
  OBVIOUS
<1>5. u \in Seq(Pairs)
  <2>1. f \in Frames
    BY LenProperties, ElementOfSeq
  <2>2. f.seq \in Nat /\ 8 * k \in Nat
    BY <2>1, FrameIsOne
  <2> QED
    BY <1>4, <2>2, UptoIsSeq
<1>6. PICK g : g = FlattenSeq(FramesOf(du, e))
  OBVIOUS
<1>7. g \in Seq(Pairs)
  <2>1. e <= Len(du)
    BY LenProperties
  <2> QED
    BY <1>6, <2>1, FramesAll
<1>8. b.bytes \in Seq(Pairs) /\ Bytes(cs) = Bytes(bs) \o b.bytes
  BY <1>1, <1>2, BytesGrow
<1>9. Bytes(bs) = g \o u
  BY <1>4, <1>6, Zenon DEF Given
<1>10. Bytes(cs) = g \o (u \o b.bytes)
  <2>1. PICK x : x = b.bytes
    OBVIOUS
  <2>2. x \in Seq(Pairs)
    BY <1>8, <2>1
  <2>3. (g \o u) \o x = g \o (u \o x)
    BY <1>5, <1>7, <2>2, EndToEnd
  <2> QED
    BY <1>8, <1>9, <2>1, <2>3, Zenon
<1>11. /\ IsFiniteSet(Lasts(cs))
       /\ b.last => Cardinality(Lasts(cs)) = e + 1
       /\ ~b.last => Cardinality(Lasts(cs)) = e
  BY <1>1, <1>2, LastsGrow DEF Given
<1>12. ASSUME b.last PROVE Given(du, cs, e + 1, << >>)
  <2>1. u \o b.bytes = FrameBytes(f)
    BY <1>4, <1>12, Zenon DEF BeatAfter
  <2>2. FramesOf(du, e + 1) = Append(FramesOf(du, e), FrameBytes(f))
        /\ FramesOf(du, e) \in Seq(Seq(Pairs)) /\ FrameBytes(f) \in Seq(Pairs)
    BY FramesGrow
  <2>3. FlattenSeq(FramesOf(du, e + 1)) = g \o FrameBytes(f)
    BY <1>6, <2>2, FlatMore
  <2>4. g \o FrameBytes(f) \in Seq(Pairs)
    BY <1>7, <2>2, ConcatProperties
  <2>5. Bytes(cs) = FlattenSeq(FramesOf(du, e + 1)) \o << >>
    BY <1>10, <2>1, <2>3, <2>4, ConcatEmptySeq
  <2>6. e + 1 \in Nat
    OBVIOUS
  <2> QED
    BY <1>3, <1>11, <1>12, <2>5, <2>6, Zenon DEF Given
<1>13. ASSUME ~b.last PROVE Given(du, cs, e, Upto(f, 8 * (k + 1)))
  <2>1. u \o b.bytes = Upto(f, 8 * (k + 1))
    BY <1>4, <1>13, Zenon DEF BeatAfter
  <2> QED
    BY <1>3, <1>6, <1>10, <1>11, <1>13, <2>1, Zenon DEF Given
<1> QED
  BY <1>2, <1>12, <1>13, Zenon

-----------------------------------------------------------------------------
(* Frames on their way through the wrapper.                                *)

\* A frame is on its way, mp beats of it sent.
OnItsWay(mb, mf, mp, sn) ==
  /\ mf \in Frames /\ mf.seq = sn
  /\ mp \in Nat /\ 8 * mp < mf.length /\ BeatAfter(mf, mp, mb)

\* Of sn frames all but k have been dropped and counted.
Tallied(dr, sn, k) ==
  \E m \in Nat : sn = k + m /\ dr = IF m < MacDropMax THEN m ELSE MacDropMax

\* Between two frames.
Between(fa, dc, dr, mb, sn, du, bs) ==
  /\ mb = NoMacBeat /\ fa = FALSE /\ dc = FALSE
  /\ Given(du, bs, Len(du), << >>) /\ Tallied(dr, sn, Len(du))
  /\ \A i \in 1 .. Len(du) : du[i].seq <= sn

\* In a frame of which nothing is given: it is about to begin, or is dropped.
Withheld(fa, dc, dr, mb, mf, mp, sn, du, bs) ==
  /\ OnItsWay(mb, mf, mp, sn)
  /\ mp = 0 => fa = FALSE
  /\ mp # 0 => fa = TRUE /\ dc = TRUE
  /\ Given(du, bs, Len(du), << >>) /\ Tallied(dr, sn, Len(du) + 1)
  /\ \A i \in 1 .. Len(du) : du[i].seq < sn

\* In a frame that is given.
Passing(fa, dc, dr, mb, mf, mp, sn, du, bs) ==
  /\ OnItsWay(mb, mf, mp, sn)
  /\ mp # 0 /\ fa = TRUE /\ dc = FALSE
  /\ \E e \in Nat : /\ Len(du) = e + 1 /\ du[e + 1] = mf
                    /\ Given(du, bs, e, Upto(mf, 8 * mp))
                    /\ \A i \in 1 .. e : du[i].seq < sn
  /\ Tallied(dr, sn, Len(du))

EthInv ==
  /\ sent \in Nat /\ due \in Seq(Frames) /\ fifo_almost_full \in BOOLEAN
  /\ \/ Between(frame_active, drop_current, dropped_frames, mac_beat, sent, due, rx)
     \/ Withheld(frame_active, drop_current, dropped_frames, mac_beat, mac_frame, mac_pos,
                 sent, due, rx)
     \/ Passing(frame_active, drop_current, dropped_frames, mac_beat, mac_frame, mac_pos,
                sent, due, rx)

LEMMA OneFewer == ASSUME NEW dr, NEW sn \in Nat, NEW k \in Nat, Tallied(dr, sn, k + 1),
                         NEW d, d = IF dr # MacDropMax THEN dr + 1 ELSE dr
                  PROVE  Tallied(d, sn, k)
<1>1. PICK m \in Nat : sn = k + 1 + m /\ dr = IF m < MacDropMax THEN m ELSE MacDropMax
  BY DEF Tallied
<1>2. MacDropMax \in Nat
  BY EthAssumption
<1>3. PICK j \in Nat : j = m + 1
  OBVIOUS
<1>4. sn = k + j
  BY <1>1, <1>3
<1>5. d = IF j < MacDropMax THEN j ELSE MacDropMax
  BY <1>1, <1>2, <1>3
<1> QED
  BY <1>3, <1>4, <1>5 DEF Tallied

LEMMA EthStarts == EthInit => EthInv
<1> SUFFICES ASSUME EthInit PROVE EthInv
  OBVIOUS
<1>1. /\ frame_active = FALSE /\ drop_current = FALSE /\ dropped_frames = 0
      /\ mac_beat = NoMacBeat /\ sent = 0 /\ due = << >> /\ rx = << >>
  BY Zenon DEF EthInit, WrapReset
<1>2. due \in Seq(Frames) /\ Len(due) = 0 /\ rx \in Seq(MacBeat)
  BY <1>1, EmptySeq
<1>3. FramesOf(due, 0) = << >>
  BY DEF FramesOf
<1>4. Bytes(rx) = FlattenSeq(FramesOf(due, 0)) \o << >>
  <2>1. << >> \o << >> = << >>
    OBVIOUS
  <2> QED
    BY <1>1, <1>3, <2>1, NoBytesYet, FlatNone, Zenon
<1>5. Lasts(rx) = {}
  BY <1>1 DEF Lasts
<1>6. IsFiniteSet(Lasts(rx)) /\ Cardinality(Lasts(rx)) = 0
  BY <1>5, FS_EmptySet
<1>7. Given(due, rx, 0, << >>)
  BY <1>2, <1>4, <1>6 DEF Given
<1>8. Tallied(dropped_frames, sent, 0)
  <2>1. sent = 0 + 0 /\ dropped_frames = IF 0 < MacDropMax THEN 0 ELSE MacDropMax
    BY <1>1, EthAssumption
  <2> QED
    BY <2>1 DEF Tallied
<1>9. \A i \in 1 .. Len(due) : due[i].seq <= sent
  BY <1>2
<1>10. Between(frame_active, drop_current, dropped_frames, mac_beat, sent, due, rx)
  BY <1>1, <1>2, <1>7, <1>8, <1>9, Zenon DEF Between
<1>11. fifo_almost_full \in BOOLEAN
  BY Zenon DEF EthInit
<1> QED
  BY <1>1, <1>2, <1>10, <1>11, Zenon DEF EthInv

LEMMA BeginKeeps == ASSUME EthInv, NEW l \in MessageLists, EthBegin(l) PROVE EthInv'
<1>1. Between(frame_active, drop_current, dropped_frames, mac_beat, sent, due, rx)
  <2>1. mac_beat = NoMacBeat
    BY DEF EthBegin
  <2> QED
    BY <2>1, Zenon DEF EthInv, Withheld, Passing, OnItsWay, BeatAfter
<1>2. sent \in Nat /\ due \in Seq(Frames) /\ fifo_almost_full \in BOOLEAN
  BY Zenon DEF EthInv
<1>3. PICK n \in Nat : n = sent + 1
  BY <1>2
<1>4. PICK f : f = build_kc705_frame(l, n, Len(l))
  OBVIOUS
<1>5. f \in Frames /\ AFrame(f, n) /\ f.seq = n
  BY <1>3, <1>4, BuiltIsFrame, FrameFacts DEF AFrame
<1>6. PICK b : b = frame_beat(f, 0)
  OBVIOUS
<1>7. BeatAfter(f, 0, b) /\ 8 * 0 < f.length
  <2>1. 8 * 0 < f.length
    BY <1>5 DEF AFrame
  <2> QED
    BY <1>3, <1>5, <1>6, <2>1, FrameBeat
<1>8. /\ sent' = n /\ mac_frame' = f /\ mac_pos' = 0 /\ mac_beat' = b
      /\ due' = due /\ rx' = rx /\ dropped_frames' = dropped_frames
      /\ frame_active' = frame_active /\ drop_current' = drop_current
      /\ fifo_almost_full' = fifo_almost_full
  BY <1>3, <1>4, <1>6, Zenon DEF EthBegin, wrapVars
<1>9. OnItsWay(b, f, 0, n)
  BY <1>5, <1>7, Zenon DEF OnItsWay
<1>10. Tallied(dropped_frames, n, Len(due) + 1)
  <2>1. PICK m \in Nat : /\ sent = Len(due) + m
                         /\ dropped_frames = IF m < MacDropMax THEN m ELSE MacDropMax
    BY <1>1, Zenon DEF Between, Tallied
  <2>2. n = Len(due) + 1 + m
    BY <1>2, <1>3, <2>1, LenProperties
  <2> QED
    BY <2>1, <2>2, Zenon DEF Tallied
<1>11. \A i \in 1 .. Len(due) : due[i].seq < n
  <2>1. \A i \in 1 .. Len(due) : due[i].seq \in Nat
    <3>1. \A i \in 1 .. Len(due) : due[i] \in Frames
      BY <1>2, LenProperties, ElementOfSeq
    <3> QED
      BY <3>1, FrameIsOne, Zenon
  <2>2. \A i \in 1 .. Len(due) : due[i].seq <= sent
    BY <1>1, Zenon DEF Between
  <2> QED
    BY <1>2, <1>3, <2>1, <2>2
<1>12. Withheld(frame_active, drop_current, dropped_frames, b, f, 0, n, due, rx)
  BY <1>1, <1>9, <1>10, <1>11, Zenon DEF Withheld, Between
<1> QED
  BY <1>2, <1>3, <1>8, <1>12, Zenon DEF EthInv

\* What one edge makes of the wrapper's registers.
LEMMA WrapSays ==
  ASSUME NEW b, b # NoMacBeat, NEW full, WrapClock(b, full)
  PROVE  /\ b.last => frame_active' = FALSE /\ drop_current' = FALSE
         /\ ~b.last /\ ~frame_active => frame_active' = TRUE /\ drop_current' = full
         /\ ~b.last /\ frame_active => frame_active' = frame_active /\ drop_current' = drop_current
         /\ ~b.last => dropped_frames' = dropped_frames
         /\ ~drop_decision(full) => dropped_frames' = dropped_frames
         /\ b.last /\ drop_decision(full)
              => dropped_frames' = IF dropped_frames # MacDropMax THEN dropped_frames + 1
                                   ELSE dropped_frames
BY Zenon DEF WrapClock, drop_decision

\* The next beat of the frame.
LEMMA WayGoesOn ==
  ASSUME EthBeat, OnItsWay(mac_beat, mac_frame, mac_pos, sent), ~mac_beat.last
  PROVE  OnItsWay(mac_beat', mac_frame', mac_pos', sent') /\ mac_pos' = mac_pos + 1 /\ mac_pos' # 0
<1>1. PICK k \in Nat : k = mac_pos
  BY DEF OnItsWay
<1>2. PICK j \in Nat : j = k + 1
  BY <1>1
<1>3. PICK f \in Frames : f = mac_frame
  BY DEF OnItsWay
<1>4. PICK b : b = mac_beat'
  OBVIOUS
<1>5. /\ mac_pos' = j /\ mac_frame' = f /\ sent' = sent /\ b = frame_beat(f, j)
  BY <1>1, <1>2, <1>3, <1>4, Zenon DEF EthBeat
<1>6. 8 * j < f.length
  BY <1>1, <1>2, <1>3, Zenon DEF OnItsWay, BeatAfter
<1>7. BeatAfter(f, j, b)
  <2>1. f.seq \in Nat /\ AFrame(f, f.seq)
    BY <1>3, FrameIsOne
  <2> QED
    BY <1>2, <1>5, <1>6, <2>1, FrameBeat
<1>8. f.seq = sent
  BY <1>3, Zenon DEF OnItsWay
<1>9. OnItsWay(b, f, j, sent)
  BY <1>2, <1>3, <1>6, <1>7, <1>8, Zenon DEF OnItsWay
<1> QED
  BY <1>1, <1>2, <1>4, <1>5, <1>9

\* A beat that is not given.
LEMMA BeatDropped ==
  ASSUME EthInv, EthBeat, drop_decision(fifo_almost_full),
         Withheld(frame_active, drop_current, dropped_frames, mac_beat, mac_frame, mac_pos,
                  sent, due, rx)
  PROVE  EthInv'
<1>1. sent \in Nat /\ due \in Seq(Frames) /\ Len(due) \in Nat
  BY LenProperties DEF EthInv
<1>2. /\ rx' = rx /\ sent' = sent /\ mac_beat # NoMacBeat
      /\ fifo_almost_full' = fifo_almost_full /\ fifo_almost_full \in BOOLEAN
      /\ WrapClock(mac_beat, fifo_almost_full)
  BY Zenon DEF EthBeat, forwarded, EthInv
<1>3. due' = due
  <2>1. mac_pos = 0 => fifo_almost_full
    BY Zenon DEF Withheld, drop_decision
  <2> QED
    BY <2>1, Zenon DEF EthBeat
<1>4. Given(due, rx, Len(due), << >>) /\ Tallied(dropped_frames, sent, Len(due) + 1)
      /\ OnItsWay(mac_beat, mac_frame, mac_pos, sent) /\ \A i \in 1 .. Len(due) : due[i].seq < sent
  BY Zenon DEF Withheld
<1>5. CASE mac_beat.last
  <2>1. mac_beat' = NoMacBeat /\ frame_active' = FALSE /\ drop_current' = FALSE
    BY <1>2, <1>5, WrapSays, Zenon DEF EthBeat
  <2>2. PICK d : d = dropped_frames'
    OBVIOUS
  <2>3. d = IF dropped_frames # MacDropMax THEN dropped_frames + 1 ELSE dropped_frames
    BY <1>2, <1>5, <2>2, WrapSays, Zenon
  <2>4. PICK c : c = dropped_frames
    OBVIOUS
  <2>5. Tallied(d, sent, Len(due))
    <3>1. d = IF c # MacDropMax THEN c + 1 ELSE c
      BY <2>3, <2>4, Zenon
    <3>2. Tallied(c, sent, Len(due) + 1)
      BY <1>4, <2>4
    <3> QED
      BY <1>1, <3>1, <3>2, OneFewer
  <2>6. \A i \in 1 .. Len(due) : due[i].seq <= sent
    <3>1. \A i \in 1 .. Len(due) : due[i].seq \in Nat
      <4>1. \A i \in 1 .. Len(due) : due[i] \in Frames
        BY <1>1, ElementOfSeq
      <4> QED
        BY <4>1, FrameIsOne, Zenon
    <3> QED
      BY <1>1, <1>4, <3>1
  <2>7. Between(frame_active', drop_current', d, mac_beat', sent, due, rx)
    BY <1>4, <2>1, <2>5, <2>6, Zenon DEF Between
  <2> QED
    BY <1>1, <1>2, <1>3, <2>2, <2>7, Zenon DEF EthInv
<1>6. CASE ~mac_beat.last
  <2>1. OnItsWay(mac_beat', mac_frame', mac_pos', sent') /\ mac_pos' # 0
    BY <1>4, <1>6, WayGoesOn
  <2>2. dropped_frames' = dropped_frames
    BY <1>2, <1>6, WrapSays, Zenon
  <2>3. frame_active' = TRUE /\ drop_current' = TRUE
    <3>1. CASE mac_pos = 0
      <4>1. frame_active = FALSE
        BY <3>1, Zenon DEF Withheld
      <4>2. frame_active' = TRUE /\ drop_current' = fifo_almost_full
        BY <1>2, <1>6, <4>1, WrapSays, Zenon
      <4>3. fifo_almost_full
        BY <4>1, Zenon DEF drop_decision
      <4>4. drop_current' = TRUE
        BY <1>2, <1>6, <4>1, <4>2, <4>3, Zenon DEF WrapClock
      <4> QED
        BY <4>2, <4>4
    <3>2. CASE mac_pos # 0
      <4>1. frame_active = TRUE /\ drop_current = TRUE
        BY <3>2, Zenon DEF Withheld
      <4> QED
        BY <1>2, <1>6, <4>1, WrapSays, Zenon
    <3> QED
      BY <3>1, <3>2
  <2>4. Withheld(frame_active', drop_current', dropped_frames', mac_beat', mac_frame', mac_pos',
                 sent', due, rx)
    BY <1>2, <1>4, <2>1, <2>2, <2>3, Zenon DEF Withheld
  <2> QED
    BY <1>1, <1>2, <1>3, <2>4, Zenon DEF EthInv
<1> QED
  BY <1>5, <1>6

\* What the frame behind n frames shows of itself: it is one of them too.
LEMMA SeqOne ==
  ASSUME NEW du \in Seq(Frames), NEW f \in Frames
  PROVE  /\ Append(du, f) \in Seq(Frames) /\ Len(Append(du, f)) = Len(du) + 1
         /\ Append(du, f)[Len(du) + 1] = f /\ Len(du) \in Nat
         /\ \A i \in 1 .. Len(du) : Append(du, f)[i] = du[i] /\ du[i].seq \in Nat
<1>1. \A i \in 1 .. Len(du) : du[i].seq \in Nat
  <2>1. \A i \in 1 .. Len(du) : du[i] \in Frames
    BY LenProperties, ElementOfSeq
  <2> QED
    BY <2>1, FrameIsOne, Zenon
<1> QED
  BY <1>1, AppendProperties, LenProperties

\* The beat of a frame that is given, with e frames given before it.
LEMMA BeatGiven ==
  ASSUME EthInv, EthBeat, ~drop_decision(fifo_almost_full),
         OnItsWay(mac_beat, mac_frame, mac_pos, sent),
         NEW du \in Seq(Frames), due' = du, NEW e \in Nat, Len(du) = e + 1, du[e + 1] = mac_frame,
         Given(du, rx, e, Upto(mac_frame, 8 * mac_pos)),
         \A i \in 1 .. e : du[i].seq < sent,
         Tallied(dropped_frames, sent, Len(du)),
         mac_pos = 0 => frame_active = FALSE /\ fifo_almost_full = FALSE,
         mac_pos # 0 => frame_active = TRUE /\ drop_current = FALSE
  PROVE  EthInv'
<1>1. sent \in Nat /\ fifo_almost_full \in BOOLEAN
  BY DEF EthInv
<1>2. PICK f \in Frames : f = mac_frame
  BY DEF OnItsWay
<1>3. PICK k \in Nat : k = mac_pos
  BY DEF OnItsWay
<1>4. PICK b : b = mac_beat
  OBVIOUS
<1>5. PICK bs : bs = rx
  OBVIOUS
<1>6. BeatAfter(f, k, b) /\ b # NoMacBeat /\ f.seq = sent
  BY <1>2, <1>3, <1>4, Zenon DEF OnItsWay, BeatAfter
<1>7. /\ b.last => Given(du, Append(bs, b), e + 1, << >>)
      /\ ~b.last => Given(du, Append(bs, b), e, Upto(f, 8 * (k + 1)))
  <2>1. Given(du, bs, e, Upto(f, 8 * k)) /\ f = du[e + 1]
    BY <1>2, <1>3, <1>5, Zenon
  <2>2. e + 1 <= Len(du)
    OBVIOUS
  <2> QED
    BY <1>3, <1>6, <2>1, <2>2, BeatPasses
<1>8. /\ rx' = Append(bs, b) /\ sent' = sent /\ due' = du /\ WrapClock(b, fifo_almost_full)
      /\ fifo_almost_full' = fifo_almost_full /\ mac_frame' = f
  BY <1>2, <1>4, <1>5, <1>6, Zenon DEF EthBeat, forwarded
<1>9. dropped_frames' = dropped_frames
  BY <1>6, <1>8, WrapSays, Zenon
<1>10. CASE b.last
  <2>1. mac_beat' = NoMacBeat
    BY <1>4, <1>10, Zenon DEF EthBeat
  <2>2. frame_active' = FALSE /\ drop_current' = FALSE
    BY <1>6, <1>8, <1>10, WrapSays, Zenon
  <2>3. Given(du, rx', Len(du), << >>)
    BY <1>7, <1>8, <1>10, Zenon
  <2>4. ASSUME NEW i \in 1 .. Len(du) PROVE du[i].seq <= sent
    <3>1. CASE i = e + 1
      BY <1>1, <1>2, <1>6, <3>1
    <3>2. CASE i # e + 1
      <4>1. i \in 1 .. e
        BY <2>4, <3>2
      <4>2. du[i].seq < sent
        BY <4>1
      <4>3. du[i].seq \in Nat
        BY <1>2, <2>4, SeqOne
      <4> QED
        BY <1>1, <4>2, <4>3
    <3> QED
      BY <3>1, <3>2
  <2>5. Between(frame_active', drop_current', dropped_frames', mac_beat', sent, du, rx')
    BY <1>9, <2>1, <2>2, <2>3, <2>4, Zenon DEF Between
  <2> QED
    BY <1>1, <1>8, <2>5, Zenon DEF EthInv
<1>11. CASE ~b.last
  <2>1. OnItsWay(mac_beat', mac_frame', mac_pos', sent') /\ mac_pos' # 0
    BY <1>4, <1>11, WayGoesOn
  <2>2. mac_pos' = k + 1
    BY <1>3, <1>4, <1>11, Zenon DEF EthBeat
  <2>3. frame_active' = TRUE /\ drop_current' = FALSE
    <3>1. CASE mac_pos = 0
      BY <1>6, <1>8, <1>11, <3>1, WrapSays, Zenon
    <3>2. CASE mac_pos # 0
      BY <1>6, <1>8, <1>11, <3>2, WrapSays, Zenon
    <3> QED
      BY <3>1, <3>2
  <2>4. Given(du, rx', e, Upto(mac_frame', 8 * mac_pos'))
    BY <1>7, <1>8, <1>11, <2>2, Zenon
  <2>5. du[e + 1] = mac_frame'
    BY <1>2, <1>8
  <2>6. Passing(frame_active', drop_current', dropped_frames', mac_beat', mac_frame', mac_pos',
                sent', du, rx')
    BY <1>8, <1>9, <2>1, <2>3, <2>4, <2>5, Zenon DEF Passing
  <2> QED
    BY <1>1, <1>8, <2>6, Zenon DEF EthInv
<1> QED
  BY <1>10, <1>11

LEMMA BeatKeeps == ASSUME EthInv, EthBeat PROVE EthInv'
<1>1. sent \in Nat /\ due \in Seq(Frames) /\ fifo_almost_full \in BOOLEAN /\ mac_beat # NoMacBeat
  BY Zenon DEF EthInv, EthBeat
<1>2. CASE Withheld(frame_active, drop_current, dropped_frames, mac_beat, mac_frame, mac_pos,
                    sent, due, rx)
  <2>1. CASE drop_decision(fifo_almost_full)
    BY <1>2, <2>1, BeatDropped
  <2>2. CASE ~drop_decision(fifo_almost_full)
    <3>1. mac_pos = 0 /\ frame_active = FALSE
      BY <1>2, <2>2, Zenon DEF Withheld, drop_decision
    <3>2. fifo_almost_full = FALSE
      <4>1. ~fifo_almost_full
        BY <2>2, <3>1, Zenon DEF drop_decision
      <4> QED
        BY <1>1, <4>1, Zenon
    <3>3. PICK f \in Frames : f = mac_frame
      BY <1>2, Zenon DEF Withheld, OnItsWay
    <3>4. PICK e \in Nat : e = Len(due)
      BY <1>1, LenProperties
    <3>5. PICK du : du = Append(due, f)
      OBVIOUS
    <3>6. /\ du \in Seq(Frames) /\ Len(du) = e + 1 /\ du[e + 1] = f
          /\ \A i \in 1 .. e : du[i] = due[i]
      BY <1>1, <3>3, <3>4, <3>5, SeqOne
    <3>7. due' = du
      BY <3>1, <3>2, <3>3, <3>5, Zenon DEF EthBeat
    <3>8. PICK bs : bs = rx
      OBVIOUS
    <3>9. Given(du, bs, e, Upto(f, 0))
      <4>1. Given(due, bs, Len(due), << >>)
        BY <1>2, <3>8, Zenon DEF Withheld
      <4>2. PICK d : d = due
        OBVIOUS
      <4>3. Given(Append(d, f), bs, Len(d), Upto(f, 0))
        BY <1>1, <3>3, <4>1, <4>2, FrameBegins
      <4> QED
        BY <3>4, <3>5, <4>2, <4>3, Zenon
    <3>10. Given(du, rx, e, Upto(mac_frame, 8 * mac_pos))
      <4>1. 8 * mac_pos = 0
        BY <3>1
      <4> QED
        BY <3>3, <3>8, <3>9, <4>1, Zenon
    <3>11. \A i \in 1 .. e : du[i].seq < sent
      BY <1>2, <3>4, <3>6, Zenon DEF Withheld
    <3>12. Tallied(dropped_frames, sent, Len(du))
      BY <1>2, <3>4, <3>6, Zenon DEF Withheld
    <3>13. OnItsWay(mac_beat, mac_frame, mac_pos, sent)
      BY <1>2, Zenon DEF Withheld
    <3> QED
      BY <2>2, <3>1, <3>2, <3>3, <3>4, <3>6, <3>7, <3>10, <3>11, <3>12, <3>13, BeatGiven
  <2> QED
    BY <2>1, <2>2
<1>3. CASE Passing(frame_active, drop_current, dropped_frames, mac_beat, mac_frame, mac_pos,
                   sent, due, rx)
  <2>1. /\ OnItsWay(mac_beat, mac_frame, mac_pos, sent)
        /\ mac_pos # 0 /\ frame_active = TRUE /\ drop_current = FALSE
        /\ Tallied(dropped_frames, sent, Len(due))
    BY <1>3, Zenon DEF Passing
  <2>2. PICK e \in Nat : /\ Len(due) = e + 1 /\ due[e + 1] = mac_frame
                         /\ Given(due, rx, e, Upto(mac_frame, 8 * mac_pos))
                         /\ \A i \in 1 .. e : due[i].seq < sent
    BY <1>3, Zenon DEF Passing
  <2>3. ~drop_decision(fifo_almost_full)
    BY <2>1, Zenon DEF drop_decision
  <2>4. PICK du \in Seq(Frames) : du = due
    BY <1>1
  <2>5. due' = du
    BY <2>1, <2>4, Zenon DEF EthBeat
  <2>6. /\ Len(du) = e + 1 /\ du[e + 1] = mac_frame
        /\ Given(du, rx, e, Upto(mac_frame, 8 * mac_pos))
        /\ \A i \in 1 .. e : du[i].seq < sent
        /\ Tallied(dropped_frames, sent, Len(du))
    BY <2>1, <2>2, <2>4, Zenon
  <2> QED
    BY <2>1, <2>2, <2>3, <2>4, <2>5, <2>6, BeatGiven
<1>4. ~Between(frame_active, drop_current, dropped_frames, mac_beat, sent, due, rx)
  BY <1>1, Zenon DEF Between
<1> QED
  BY <1>2, <1>3, <1>4, Zenon DEF EthInv

LEMMA EthKept == ASSUME EthInv, [CocotbBenchNext]_benchVars PROVE EthInv'
<1>1. ASSUME NEW l \in MessageLists, EthBegin(l) PROVE EthInv'
  BY <1>1, BeginKeeps
<1>2. ASSUME UNCHANGED <<wrapVars, mac_beat, mac_frame, mac_pos, sent, due, rx>>,
             fifo_almost_full' \in BOOLEAN
      PROVE  EthInv'
  <2>1. /\ frame_active' = frame_active /\ drop_current' = drop_current
        /\ dropped_frames' = dropped_frames /\ mac_beat' = mac_beat /\ mac_frame' = mac_frame
        /\ mac_pos' = mac_pos /\ sent' = sent /\ due' = due /\ rx' = rx
    BY <1>2, Zenon DEF wrapVars
  <2>2. sent \in Nat /\ due \in Seq(Frames)
    BY DEF EthInv
  <2>3. CASE Between(frame_active, drop_current, dropped_frames, mac_beat, sent, due, rx)
    BY <1>2, <2>1, <2>2, <2>3, Zenon DEF EthInv
  <2>4. CASE Withheld(frame_active, drop_current, dropped_frames, mac_beat, mac_frame, mac_pos,
                      sent, due, rx)
    BY <1>2, <2>1, <2>2, <2>4, Zenon DEF EthInv
  <2>5. CASE Passing(frame_active, drop_current, dropped_frames, mac_beat, mac_frame, mac_pos,
                     sent, due, rx)
    BY <1>2, <2>1, <2>2, <2>5, Zenon DEF EthInv
  <2> QED
    BY <2>3, <2>4, <2>5, Zenon DEF EthInv
<1>3. fifo_almost_full \in BOOLEAN
  BY Zenon DEF EthInv
<1>4. ASSUME FifoLevel PROVE EthInv'
  BY <1>2, <1>3, <1>4, Zenon DEF FifoLevel
<1>5. ASSUME EthIdle PROVE EthInv'
  <2>1. UNCHANGED wrapVars
    BY <1>5, Zenon DEF EthIdle, WrapClock, wrapVars
  <2> QED
    BY <1>2, <1>3, <1>5, <2>1, Zenon DEF EthIdle
<1>6. ASSUME UNCHANGED ethVars PROVE EthInv'
  BY <1>2, <1>3, <1>6, Zenon DEF ethVars
<1>7. ASSUME EthNext PROVE EthInv'
  BY <1>1, <1>4, <1>5, <1>7, BeatKeeps, Zenon DEF EthNext
<1> QED
  BY <1>6, <1>7, Zenon DEF CocotbBenchNext, benchVars

LEMMA EthAlways == CocotbBenchSpec => []EthInv
<1>1. CocotbBenchInit => EthInv
  BY EthStarts DEF CocotbBenchInit
<1>2. EthInv /\ [CocotbBenchNext]_benchVars => EthInv'
  BY EthKept
<1> QED
  BY <1>1, <1>2, PTL DEF CocotbBenchSpec

\* The frames of Ended are the first n.
LEMMA EndedShows ==
  ASSUME NEW n \in Nat, Ended = 1 .. n, NEW m, Given(due, rx, n, m)
  PROVE  /\ Bytes(rx) = FlattenSeq([i \in Ended |-> FrameBytes(due[i])]) \o m
         /\ Cardinality({i \in DOMAIN rx : rx[i].last}) = Cardinality(Ended)
         /\ Cardinality(Ended) = n
<1>1. [i \in Ended |-> FrameBytes(due[i])] = FramesOf(due, n)
  BY Zenon DEF FramesOf
<1>2. Cardinality(1 .. n) = n
  <2>1. 1 .. n = {} \/ TRUE
    OBVIOUS
  <2> QED
    BY FS_Interval
<1> QED
  BY <1>1, <1>2, Zenon DEF Given, Lasts

LEMMA EthShows == EthInv => WholeFrames
<1> SUFFICES ASSUME EthInv PROVE WholeFrames
  OBVIOUS
<1>1. sent \in Nat /\ due \in Seq(Frames) /\ Len(due) \in Nat
  BY LenProperties DEF EthInv
<1>2. CASE Between(frame_active, drop_current, dropped_frames, mac_beat, sent, due, rx)
  <2>1. mac_beat = NoMacBeat /\ Given(due, rx, Len(due), << >>)
    BY <1>2, Zenon DEF Between
  <2>2. Ended = 1 .. Len(due)
    BY <2>1, Zenon DEF Ended
  <2>3. PICK n \in Nat : n = Len(due)
    BY <1>1
  <2>4. /\ Bytes(rx) = FlattenSeq([i \in Ended |-> FrameBytes(due[i])]) \o << >>
        /\ Cardinality({i \in DOMAIN rx : rx[i].last}) = Cardinality(Ended)
        /\ Cardinality(Ended) = n
    <3>1. Ended = 1 .. n /\ Given(due, rx, n, << >>)
      BY <2>1, <2>2, <2>3
    <3> QED
      BY <3>1, EndedShows
  <2>5. OnWay = << >>
    BY <2>3, <2>4, Zenon DEF OnWay
  <2>6. dropped_frames = IF sent - Len(due) < MacDropMax THEN sent - Len(due) ELSE MacDropMax
    <3>1. PICK m \in Nat : /\ sent = Len(due) + m
                           /\ dropped_frames = IF m < MacDropMax THEN m ELSE MacDropMax
      BY <1>2, Zenon DEF Between, Tallied
    <3>2. sent - Len(due) = m
      BY <1>1, <3>1
    <3> QED
      BY <3>1, <3>2, Zenon
  <2>7. ASSUME NEW i \in DOMAIN due PROVE Verifies(due[i], due[i].length)
    <3>1. due[i] \in Frames
      BY <1>1, <2>7, LenProperties, ElementOfSeq
    <3>2. AFrame(due[i], due[i].seq)
      BY <3>1, FrameIsOne, Zenon
    <3> QED
      BY <3>2, Zenon DEF AFrame
  <2> QED
    BY <2>4, <2>5, <2>6, <2>7, Zenon DEF WholeFrames
<1>3. CASE Withheld(frame_active, drop_current, dropped_frames, mac_beat, mac_frame, mac_pos,
                    sent, due, rx)
  <2>1. /\ mac_beat # NoMacBeat /\ Given(due, rx, Len(due), << >>) /\ mac_frame.seq = sent
        /\ \A i \in 1 .. Len(due) : due[i].seq < sent
    BY <1>3, Zenon DEF Withheld, OnItsWay, BeatAfter
  <2>2. Ended = 1 .. Len(due)
    <3>1. ASSUME NEW i \in 1 .. Len(due) PROVE due[i] # mac_frame
      <4>1. due[i].seq < sent
        BY <2>1, <3>1
      <4> QED
        BY <1>1, <2>1, <4>1
    <3> QED
      BY <3>1, Zenon DEF Ended
  <2>3. PICK n \in Nat : n = Len(due)
    BY <1>1
  <2>4. /\ Bytes(rx) = FlattenSeq([i \in Ended |-> FrameBytes(due[i])]) \o << >>
        /\ Cardinality({i \in DOMAIN rx : rx[i].last}) = Cardinality(Ended)
        /\ Cardinality(Ended) = n
    <3>1. Ended = 1 .. n /\ Given(due, rx, n, << >>)
      BY <2>1, <2>2, <2>3
    <3> QED
      BY <3>1, EndedShows
  <2>5. OnWay = << >>
    BY <2>3, <2>4, Zenon DEF OnWay
  <2> QED
    BY <2>1, <2>4, <2>5, Zenon DEF WholeFrames
<1>4. CASE Passing(frame_active, drop_current, dropped_frames, mac_beat, mac_frame, mac_pos,
                   sent, due, rx)
  <2>1. OnItsWay(mac_beat, mac_frame, mac_pos, sent) /\ mac_beat # NoMacBeat
    BY <1>4, Zenon DEF Passing, OnItsWay, BeatAfter
  <2>2. PICK e \in Nat : /\ Len(due) = e + 1 /\ due[e + 1] = mac_frame
                         /\ Given(due, rx, e, Upto(mac_frame, 8 * mac_pos))
                         /\ \A i \in 1 .. e : due[i].seq < sent
    BY <1>4, Zenon DEF Passing
  <2>3. Ended = 1 .. e
    <3>1. ASSUME NEW i \in 1 .. e PROVE due[i] # mac_frame
      <4>1. due[i].seq < sent
        BY <2>2, <3>1
      <4>2. mac_frame.seq = sent
        BY <2>1, Zenon DEF OnItsWay
      <4> QED
        BY <1>1, <4>1, <4>2
    <3>2. \A i \in 1 .. Len(due) : i \in 1 .. e \/ i = e + 1
      BY <2>2
    <3>3. 1 .. e \subseteq 1 .. Len(due)
      BY <2>2
    <3> QED
      BY <2>1, <2>2, <3>1, <3>2, <3>3, Zenon DEF Ended
  <2>4. PICK m : m = Upto(mac_frame, 8 * mac_pos)
    OBVIOUS
  <2>5. /\ Bytes(rx) = FlattenSeq([i \in Ended |-> FrameBytes(due[i])]) \o m
        /\ Cardinality({i \in DOMAIN rx : rx[i].last}) = Cardinality(Ended)
        /\ Cardinality(Ended) = e
    <3>1. Given(due, rx, e, m)
      BY <2>2, <2>4
    <3> QED
      BY <2>3, <3>1, EndedShows
  <2>6. OnWay = m
    <3>1. OnWay = SubSeq(FrameBytes(mac_frame), 1, 8 * mac_pos)
      <4>1. Cardinality(Ended) # Len(due)
        BY <2>2, <2>5
      <4> QED
        BY <4>1, Zenon DEF OnWay
    <3>2. PICK f \in Frames : f = mac_frame
      BY <2>1, Zenon DEF OnItsWay
    <3>3. PICK o \in Nat : o = 8 * mac_pos
      BY <2>1 DEF OnItsWay
    <3>4. o < f.length /\ f.length \in Nat /\ f.seq \in Nat
      <4>1. o < f.length
        BY <2>1, <3>2, <3>3, Zenon DEF OnItsWay
      <4> QED
        BY <3>2, <4>1, FrameIsOne DEF AFrame
    <3>5. SubSeq(FrameBytes(f), 1, o) = Upto(f, o)
      BY <3>3, <3>4 DEF FrameBytes, Upto
    <3> QED
      BY <2>4, <3>1, <3>2, <3>3, <3>5, Zenon
  <2> QED
    BY <2>1, <2>5, <2>6, Zenon DEF WholeFrames
<1> QED
  BY <1>2, <1>3, <1>4, Zenon DEF EthInv

\* eth_axis_rx behind the wrapper is given whole frames only, byte for byte and
\* in order, every frame that began with room in the FIFO; the others are
\* counted up to the counter's end; and each passes the checks of the stack:
\* for every list of messages that fits a datagram, every address, and any
\* changes of fifo_almost_full.
THEOREM FramesStayWhole == CocotbBenchSpec => []WholeFrames
BY EthAlways, EthShows, PTL

-----------------------------------------------------------------------------
(* The benches of lliu_top: its drivers, monitors and checkers. *)

\* While the dot product engine takes elements, the sequencer feeds it one at
\* each edge, from the one after the start.
Fed ==
  /\ watch.since \in 1 .. 5
  /\ IF watch.since = 1 THEN dp_feature_valid = FALSE /\ dpe_elem = 0
     ELSE dp_feature_valid = TRUE /\ dpe_elem = watch.since - 2
  /\ IF watch.since = 5 THEN seq_state = "IDLE"
     ELSE seq_state = "FEED" /\ seq_idx = watch.since - 1

Sequenced ==
  /\ seq_state \in {"IDLE", "PRELOAD", "FEED"} /\ seq_idx \in 0 .. 3
  /\ dp_start = (seq_state = "PRELOAD")
  /\ seq_state = "PRELOAD" => seq_idx = 0
  /\ feat_valid \in BOOLEAN /\ dp_feature_valid \in BOOLEAN

\* How long the checker has counted, in each state of the engine.
Computes ==
  /\ dpe_last_fed \in BOOLEAN
  /\ dpe_state \in {"IDLE", "STREAM", "DRAIN", "DONE"}
  /\ IF dpe_state = "IDLE" THEN watch.started = FALSE ELSE watch.started = TRUE
  /\ dpe_state = "IDLE" => watch.since = 0
  /\ dpe_state = "STREAM" /\ ~dpe_last_fed => Fed
  /\ dpe_state = "STREAM" /\ dpe_last_fed => dpe_drain \in 0 .. 5 /\ watch.since = 6 + dpe_drain
  /\ dpe_state = "DRAIN" => dpe_cnt \in 0 .. 17 /\ watch.since = 12 + dpe_cnt
  /\ dpe_state = "DONE" => watch.since = 30

LEMMA V1InitShows ==
  V1Init => /\ Dut!V1Reset /\ Slave!SlaveReset /\ Dut!Dpe!DpeInit
            /\ watch = [beat |-> NoV1Beat, tready |-> FALSE, aw |-> NoAddr, awready |-> FALSE,
                        w |-> NoData, wready |-> FALSE, ar |-> NoAddr, arready |-> FALSE,
                        accumulate |-> 0, started |-> FALSE, since |-> 0, violations |-> {}]
BY Zenon DEF V1Init, Dut!V1Reset

LEMMA SequencerStarts == V1Init => Sequenced
<1> SUFFICES ASSUME V1Init PROVE Sequenced
  OBVIOUS
<1>1. Dut!V1Reset
  BY V1InitShows, Zenon
<1>2. seq_state = "IDLE" /\ seq_idx = 0 /\ dp_start = FALSE /\ feat_valid = FALSE /\ dp_feature_valid = FALSE
  BY <1>1, Zenon DEF Dut!V1Reset
<1>3. (seq_state = "PRELOAD") = FALSE
  BY <1>2
<1>4. dp_start = (seq_state = "PRELOAD")
  BY <1>2, <1>3, Zenon
<1>5. seq_idx \in 0 .. 3 /\ seq_state \in {"IDLE", "PRELOAD", "FEED"} /\ seq_state # "PRELOAD"
  BY <1>2
<1> QED
  BY <1>2, <1>4, <1>5, Zenon DEF Sequenced

LEMMA SequencerKept == Sequenced /\ V1Edge => Sequenced'
<1> SUFFICES ASSUME Sequenced, V1Edge PROVE Sequenced'
  OBVIOUS
<1>1. Dut!Sequence /\ feat_valid' = (fx2 # NoMsg)
  BY DEF V1Edge, Dut!Clock, Dut!FeatureClock
<1>2. feat_valid' \in BOOLEAN /\ dp_feature_valid' \in BOOLEAN
  BY <1>1 DEF Dut!Sequence
<1>3. CASE seq_state = "IDLE" /\ feat_valid
  BY <1>1, <1>2, <1>3 DEF Sequenced, Dut!Sequence
<1>4. CASE seq_state = "IDLE" /\ ~feat_valid
  BY <1>1, <1>2, <1>4 DEF Sequenced, Dut!Sequence
<1>5. CASE seq_state = "PRELOAD"
  BY <1>1, <1>2, <1>5 DEF Sequenced, Dut!Sequence
<1>6. CASE seq_state = "FEED"
  BY <1>1, <1>2, <1>6 DEF Sequenced, Dut!Sequence, Dut!FEATURE_VEC_LEN
<1> QED
  BY <1>3, <1>4, <1>5, <1>6 DEF Sequenced

LEMMA ComputesStarts == V1Init => Computes
<1> SUFFICES ASSUME V1Init PROVE Computes
  OBVIOUS
<1>1. dpe_state = "IDLE" /\ dpe_last_fed = FALSE
  BY V1InitShows, Zenon DEF Dut!Dpe!DpeInit
<1>2. watch.started = FALSE /\ watch.since = 0
  BY V1InitShows
<1> QED
  BY <1>1, <1>2 DEF Computes

\* What an edge does to the checker's count.
LEMMA CountStep ==
  ASSUME Computes, Sequenced, V1Edge
  PROVE  /\ dpe_state \notin {"IDLE", "DONE"}
              => watch'.started = TRUE /\ watch'.since = watch.since + 1
         /\ dpe_state = "IDLE" /\ seq_state = "PRELOAD"
              => watch'.started = TRUE /\ watch'.since = 1
         /\ dpe_state = "IDLE" /\ seq_state # "PRELOAD"
              => watch'.started = FALSE /\ watch'.since = 0
         /\ dpe_state = "DONE" => watch'.started = FALSE /\ watch'.since = 0
<1>1. Checkers
  BY DEF V1Edge
<1>2. /\ watch'.started = (started /\ ~(dpe_state = "DONE"))
      /\ watch'.since = IF started /\ ~(dpe_state = "DONE") THEN cycles_since_start ELSE 0
  BY <1>1 DEF Checkers, Dut!Dpe!result_valid
<1>3. started <=> dpe_state # "IDLE" \/ seq_state = "PRELOAD"
  BY DEF started, Computes, Sequenced
<1>4. dpe_state = "IDLE" => watch.since = 0
  BY DEF Computes
<1>5. CASE started /\ dpe_state # "DONE"
  <2>1. (started /\ ~(dpe_state = "DONE")) = TRUE
    BY <1>5, Zenon
  <2>2. watch'.started = TRUE /\ watch'.since = watch.since + 1
    BY <1>2, <1>5, <2>1, Zenon DEF cycles_since_start
  <2> QED
    BY <1>3, <1>4, <1>5, <2>2
<1>6. CASE ~(started /\ dpe_state # "DONE")
  <2>1. (started /\ ~(dpe_state = "DONE")) = FALSE
    BY <1>6, Zenon
  <2>2. watch'.started = FALSE /\ watch'.since = 0
    BY <1>2, <1>6, <2>1, Zenon
  <2>3. dpe_state = "DONE" => dpe_state # "IDLE"
    OBVIOUS
  <2> QED
    BY <1>3, <1>6, <2>2, <2>3, Zenon
<1> QED
  BY <1>5, <1>6, Zenon

LEMMA NoLateResult == Computes /\ Sequenced => ~ComputeViolation
<1> SUFFICES ASSUME Computes, Sequenced, ComputeViolation PROVE FALSE
  OBVIOUS
<1>1. started <=> dpe_state # "IDLE" \/ seq_state = "PRELOAD"
  BY DEF started, Computes, Sequenced
<1>2. watch.since \in 0 .. 30
  BY DEF Computes, Fed
<1> QED
  BY <1>1, <1>2 DEF ComputeViolation, cycles_since_start, MAX_COMPUTE_CYCLES, Dut!Dpe!result_valid

LEMMA ComputesKept == Computes /\ Sequenced /\ V1Edge => Computes'
<1> SUFFICES ASSUME Computes, Sequenced, V1Edge PROVE Computes'
  OBVIOUS
<1> USE DEF Computes
<1>1. Dut!Dpe!DpeClock(dp_start, dp_feature_valid,
        [msg |-> dp_feature_in.msg, val |-> dp_feature_in.val * wgt_rd_data])
  BY Zenon DEF V1Edge, Dut!Clock
<1>2. Dut!Dpe!IdleState(dp_start) \/ Dut!Dpe!StreamFeed(dp_feature_valid)
        \/ Dut!Dpe!StreamDrain \/ Dut!Dpe!DrainState \/ Dut!Dpe!DoneState
  BY <1>1, Zenon DEF Dut!Dpe!DpeClock
<1>3. Dut!Sequence
  BY Zenon DEF V1Edge, Dut!Clock
<1>4. dp_start <=> seq_state = "PRELOAD"
  BY DEF Sequenced
<1>10. seq_state = "FEED" => dp_feature_valid' = TRUE
  <2>1. dp_feature_valid' = (seq_state = "FEED")
    BY <1>3, Zenon DEF Dut!Sequence
  <2>2. seq_state = "FEED" => (seq_state = "FEED") = TRUE
    OBVIOUS
  <2> QED
    BY <2>1, <2>2, Zenon
<1>11. seq_state = "FEED" => IF seq_idx = 3 THEN seq_state' = "IDLE"
                             ELSE seq_state' = "FEED" /\ seq_idx' = seq_idx + 1
  <2>1. /\ seq_state' = IF seq_state = "IDLE" THEN IF feat_valid THEN "PRELOAD" ELSE "IDLE"
                        ELSE IF seq_state = "FEED" /\ seq_idx = 4 - 1 THEN "IDLE" ELSE "FEED"
        /\ seq_idx' = IF seq_state = "IDLE" /\ feat_valid THEN 0
                      ELSE IF seq_state = "FEED" /\ seq_idx # 4 - 1 THEN seq_idx + 1
                      ELSE seq_idx
    BY <1>3, Zenon DEF Dut!Sequence, Dut!FEATURE_VEC_LEN
  <2> QED
    BY <2>1
<1>5. CASE Dut!Dpe!IdleState(dp_start)
  <2>0. dpe_state = "IDLE" /\ dpe_last_fed' = FALSE
    BY <1>5, Zenon DEF Dut!Dpe!IdleState
  <2>1. CASE seq_state = "PRELOAD"
    <3>1. dpe_state' = "STREAM" /\ dpe_elem' = 0
      BY <1>4, <1>5, <2>1, Zenon DEF Dut!Dpe!IdleState
    <3>2. watch'.started = TRUE /\ watch'.since = 1
      BY <2>0, <2>1, CountStep, Zenon
    <3>3. seq_state' = "FEED" /\ seq_idx' = 0 /\ dp_feature_valid' = FALSE
      BY <1>3, <2>1 DEF Dut!Sequence, Sequenced
    <3>4. Fed'
      BY <3>1, <3>2, <3>3 DEF Fed
    <3> QED
      BY <2>0, <3>1, <3>2, <3>4
  <2>2. CASE seq_state # "PRELOAD"
    <3>1. dpe_state' = "IDLE"
      BY <1>4, <1>5, <2>0, <2>2, Zenon DEF Dut!Dpe!IdleState
    <3>2. watch'.started = FALSE /\ watch'.since = 0
      BY <2>0, <2>2, CountStep, Zenon
    <3> QED
      BY <2>0, <3>1, <3>2
  <2> QED
    BY <2>1, <2>2
<1>6. CASE Dut!Dpe!StreamFeed(dp_feature_valid)
  <2>0. dpe_state = "STREAM" /\ ~dpe_last_fed /\ dpe_state' = "STREAM"
    BY <1>6, Zenon DEF Dut!Dpe!StreamFeed
  <2>1. watch'.started = TRUE /\ watch'.since = watch.since + 1
    <3>1. dpe_state \notin {"IDLE", "DONE"}
      BY <2>0
    <3> QED
      BY <3>1, CountStep, Zenon
  <2>2. Fed
    BY <2>0
  <2>3. CASE watch.since = 1
    <3>1. dp_feature_valid = FALSE /\ dpe_elem = 0 /\ seq_state = "FEED" /\ seq_idx = 0
      BY <2>2, <2>3 DEF Fed
    <3>2. dpe_elem' = 0 /\ dpe_last_fed' = dpe_last_fed
      BY <1>6, <3>1, Zenon DEF Dut!Dpe!StreamFeed
    <3>3. seq_state' = "FEED" /\ seq_idx' = 1 /\ dp_feature_valid' = TRUE
      BY <1>10, <1>11, <3>1
    <3>4. Fed'
      BY <2>1, <2>3, <3>2, <3>3 DEF Fed
    <3> QED
      BY <2>0, <2>1, <3>2, <3>4
  <2>4. CASE watch.since \in 2 .. 4
    <3>1. dp_feature_valid = TRUE /\ dpe_elem = watch.since - 2
            /\ seq_state = "FEED" /\ seq_idx = watch.since - 1
      BY <2>2, <2>4 DEF Fed
    <3>2. dpe_elem' = watch.since - 1 /\ dpe_last_fed' = dpe_last_fed
      BY <1>6, <2>4, <3>1 DEF Dut!Dpe!StreamFeed, Dut!FEATURE_VEC_LEN
    <3>3. dp_feature_valid' = TRUE /\ IF watch.since = 4 THEN seq_state' = "IDLE"
                                      ELSE seq_state' = "FEED" /\ seq_idx' = watch.since
      BY <1>10, <1>11, <2>4, <3>1
    <3>4. Fed'
      BY <2>1, <2>4, <3>2, <3>3 DEF Fed
    <3> QED
      BY <2>0, <2>1, <3>2, <3>4
  <2>5. CASE watch.since = 5
    <3>1. dp_feature_valid = TRUE /\ dpe_elem = 3
      BY <2>2, <2>5 DEF Fed
    <3>2. dpe_drain' = 0 /\ dpe_last_fed' = TRUE
      BY <1>6, <3>1 DEF Dut!Dpe!StreamFeed, Dut!FEATURE_VEC_LEN
    <3> QED
      BY <2>0, <2>1, <2>5, <3>2
  <2>6. watch.since \in 1 .. 5
    BY <2>2, Zenon DEF Fed
  <2>7. watch.since = 1 \/ watch.since \in 2 .. 4 \/ watch.since = 5
    BY <2>6
  <2> QED
    BY <2>3, <2>4, <2>5, <2>7, Zenon
<1>7. CASE Dut!Dpe!StreamDrain
  <2>0. dpe_state = "STREAM" /\ dpe_last_fed /\ dpe_last_fed' = dpe_last_fed
    BY <1>7, Zenon DEF Dut!Dpe!StreamDrain
  <2>1. watch'.started = TRUE /\ watch'.since = watch.since + 1
    <3>1. dpe_state \notin {"IDLE", "DONE"}
      BY <2>0
    <3> QED
      BY <3>1, CountStep, Zenon
  <2>2. CASE dpe_drain = 5
    <3>1. dpe_cnt' = 0 /\ dpe_state' = "DRAIN"
      BY <1>7, <2>2, Zenon DEF Dut!Dpe!StreamDrain, Dut!Dpe!StreamDrained
    <3> QED
      BY <2>0, <2>1, <2>2, <3>1
  <2>3. CASE dpe_drain # 5
    <3>1. dpe_drain' = dpe_drain + 1 /\ dpe_state' = "STREAM"
      BY <1>7, <2>0, <2>3, Zenon DEF Dut!Dpe!StreamDrain, Dut!Dpe!StreamDrained
    <3> QED
      BY <2>0, <2>1, <2>3, <3>1
  <2> QED
    BY <2>2, <2>3
<1>8. CASE Dut!Dpe!DrainState
  <2>0. dpe_state = "DRAIN" /\ dpe_cnt' = dpe_cnt + 1 /\ dpe_last_fed' = dpe_last_fed
    BY <1>8, Zenon DEF Dut!Dpe!DrainState
  <2>1. watch'.started = TRUE /\ watch'.since = watch.since + 1
    <3>1. dpe_state \notin {"IDLE", "DONE"}
      BY <2>0
    <3> QED
      BY <3>1, CountStep, Zenon
  <2>2. dpe_state' = IF dpe_cnt = 17 THEN "DONE" ELSE "DRAIN"
    BY <1>8 DEF Dut!Dpe!DrainState, Dut!Dpe!DrainExit, Dut!Dpe!DrainLastEn, Dut!Dpe!NumAccsUsed,
                Dut!Dpe!MergeStep, Dut!FEATURE_VEC_LEN
  <2> QED
    BY <2>0, <2>1, <2>2
<1>9. CASE Dut!Dpe!DoneState
  <2>0. dpe_state = "DONE" /\ dpe_state' = "IDLE" /\ dpe_last_fed' = dpe_last_fed
    BY <1>9, Zenon DEF Dut!Dpe!DoneState
  <2>1. watch'.started = FALSE /\ watch'.since = 0
    BY <2>0, CountStep, Zenon
  <2> QED
    BY <2>0, <2>1
<1> QED
  BY <1>2, <1>5, <1>6, <1>7, <1>8, <1>9, Zenon

\* The calls of a test.
Sendable == SampleMessage \cup AddOrders
Datums == Nat \cup {bfloat16(Weights[i]) : i \in DOMAIN Weights}
Calls ==
  [op : {"cycles"}, n : Int] \cup [op : {"delay"}] \cup [op : {"send"}, msg : Sendable]
    \cup [op : {"write"}, addr : {"WGT_ADDR", "WGT_DATA"}, data : Datums]
    \cup [op : {"read"}, addr : {"STATUS", "RESULT"}, for : {"flush", "poll", "discard", "score"}]

LEMMA CallIs ==
  ASSUME NEW c \in Calls
  PROVE  /\ c.op \in {"cycles", "delay", "send", "write", "read"}
         /\ c.op = "send" => c.msg \in Sendable
         /\ c.op = "write" => c.addr # NoAddr /\ c.data # NoData
         /\ c.op = "read" => c.addr # NoAddr
<1>1. NoData \notin Datums /\ NoAddr \notin {"WGT_ADDR", "WGT_DATA", "STATUS", "RESULT"}
  BY V1Assumption, Zenon DEF Datums
<1> HIDE DEF Datums, Sendable
<1> QED
  BY <1>1 DEF Calls

LEMMA CyclesCall == ASSUME NEW n \in Int PROVE Cycles(n) \in Calls
BY Zenon DEF Calls, Cycles
LEMMA DelayCall == InterMessageDelay \in Calls
BY Zenon DEF Calls, InterMessageDelay
LEMMA SendCall == ASSUME NEW m \in Sendable PROVE Send(m) \in Calls
BY Zenon DEF Calls, Send
LEMMA WriteCall ==
  ASSUME NEW a \in {"WGT_ADDR", "WGT_DATA"}, NEW d \in Datums PROVE Write(a, d) \in Calls
BY Zenon DEF Calls, Write
LEMMA ReadCall ==
  ASSUME NEW a \in {"STATUS", "RESULT"}, NEW f \in {"flush", "poll", "discard", "score"}
  PROVE  Read(a, f) \in Calls
BY Zenon DEF Calls, Read

\* (Of a set the provers find these.)
LEMMA OneCall == ASSUME NEW X, NEW a \in X PROVE <<a>> \in Seq(X)
OBVIOUS
LEMMA TwoCalls == ASSUME NEW X, NEW a \in X, NEW b \in X PROVE <<a, b>> \in Seq(X)
OBVIOUS
LEMMA ThreeCalls ==
  ASSUME NEW X, NEW a \in X, NEW b \in X, NEW c \in X PROVE <<a, b, c>> \in Seq(X)
OBVIOUS
LEMMA NoCall == ASSUME NEW X PROVE << >> \in Seq(X)
BY EmptySeq

LEMMA ReadsFollow ==
  ASSUME NEW f, NEW d PROVE AfterRead(f, d) \in Seq(Calls)
<1>1. \A n \in Int : Cycles(n) \in Calls
  BY CyclesCall
<1>2. /\ Read("RESULT", "discard") \in Calls /\ Read("STATUS", "poll") \in Calls
      /\ Read("RESULT", "score") \in Calls /\ Cycles(1) \in Calls
      /\ Cycles(PIPELINE_LATENCY) \in Calls
  BY <1>1, ReadCall DEF PIPELINE_LATENCY
<1> HIDE DEF Cycles, Read, Calls
<1>3. (IF d % 2 = 1 THEN <<Read("RESULT", "discard")>> ELSE << >>) \in Seq(Calls)
  BY <1>2, OneCall, NoCall, Zenon
<1>4. <<Cycles(PIPELINE_LATENCY), Read("STATUS", "poll")>> \in Seq(Calls)
  BY <1>2, TwoCalls, Zenon
<1>5. ((IF d % 2 = 1 THEN <<Read("RESULT", "discard")>> ELSE << >>)
         \o <<Cycles(PIPELINE_LATENCY), Read("STATUS", "poll")>>) \in Seq(Calls)
  BY <1>3, <1>4, ConcatProperties, Zenon
<1>6. (IF d % 2 = 1 THEN <<Read("RESULT", "score")>>
       ELSE <<Cycles(1), Read("STATUS", "poll")>>) \in Seq(Calls)
  BY <1>2, OneCall, TwoCalls, Zenon
<1>7. CASE f = "flush"
  BY <1>5, <1>7 DEF AfterRead
<1>8. CASE f = "poll"
  BY <1>6, <1>8 DEF AfterRead
<1>9. CASE f \notin {"flush", "poll"}
  BY <1>9, NoCall DEF AfterRead
<1> QED
  BY <1>7, <1>8, <1>9

LEMMA LoadIsCalls == load_weights \in Seq(Calls)
<1> DEFINE c == [i \in DOMAIN Weights |-> <<Write("WGT_ADDR", i - 1),
                                          Write("WGT_DATA", bfloat16(Weights[i]))>>]
<1>1. PICK n \in Nat : DOMAIN Weights = 1 .. n
  BY V1Assumption, LenProperties
<1>2. \A i \in 1 .. n : <<Write("WGT_ADDR", i - 1), Write("WGT_DATA", bfloat16(Weights[i]))>> \in Seq(Calls)
  <2> SUFFICES ASSUME NEW i \in 1 .. n
               PROVE <<Write("WGT_ADDR", i - 1), Write("WGT_DATA", bfloat16(Weights[i]))>> \in Seq(Calls)
    OBVIOUS
  <2>1. i - 1 \in Datums
    <3>1. i - 1 \in Nat
      OBVIOUS
    <3> QED
      BY <3>1, Zenon DEF Datums
  <2>2. bfloat16(Weights[i]) \in Datums
    BY <1>1, Zenon DEF Datums
  <2> QED
    BY <2>1, <2>2, WriteCall, TwoCalls, Zenon
<1>3. c \in [1 .. n -> Seq(Calls)]
  BY <1>1, <1>2, Zenon
<1> HIDE DEF c
<1>4. c \in Seq(Seq(Calls))
  BY <1>3, SeqDef
<1> QED
  BY <1>4, FlatType, Zenon DEF load_weights, c

LEMMA LeastIn == ASSUME NEW S \in SUBSET Nat, S # {} PROVE Min(S) \in S
<1> DEFINE R == OpToRel(<, Nat)
<1>1. \A a, b \in Nat : <<a, b>> \in R <=> a < b
  BY DEF OpToRel
<1>2. IsWellFoundedOn(R, Nat)
  BY NatLessThanWellFounded
<1> HIDE DEF R
<1>3. PICK n \in S : \A k \in S : ~(<<k, n>> \in R)
  BY <1>2, WFMin
<1>4. ASSUME NEW k \in S PROVE n =< k
  <2>1. k \in Nat /\ n \in Nat
    OBVIOUS
  <2>2. ~(k < n)
    BY <1>1, <1>3, <2>1, Zenon
  <2> QED
    BY <2>1, <2>2
<1> QED
  <2>1. \E x \in S : \A y \in S : x =< y
    BY <1>3, <1>4, Zenon
  <2> QED
    BY <2>1, Zenon DEF Min

LEMMA PartOf ==
  ASSUME NEW X, NEW s \in Seq(X), NEW m \in 1 .. Len(s) + 1, NEW n \in 0 .. Len(s)
  PROVE  SubSeq(s, m, n) \in Seq(X)
<1>1. Len(s) \in Nat /\ \A i \in 1 .. Len(s) : s[i] \in X
  BY LenProperties, ElementOfSeq
<1>2. \A i \in m .. n : s[i] \in X
  BY <1>1
<1> QED
  BY <1>2, SubSeqProperties

\* What parse_file returns are messages of the file.
LEMMA ParsedIsMessages ==
  ASSUME NEW f \in Seq(SampleMessage), NEW T, NEW k \in Nat
  PROVE  parse_file(f, T, k) \in Seq(SampleMessage)
<1> DEFINE bad == {i \in DOMAIN f : f[i].len = 0 \/ ~f[i].whole}
           end == IF bad = {} THEN Len(f) ELSE Min(bad) - 1
           chunks == SubSeq(f, 1, end)
           kept == FlattenSeq([i \in DOMAIN chunks |->
                                 IF chunks[i].type \in T THEN <<chunks[i]>> ELSE << >>])
<1>1. Len(f) \in Nat /\ DOMAIN f = 1 .. Len(f)
  BY LenProperties
<1>2. bad # {} => Min(bad) \in bad
  <2>1. bad \in SUBSET Nat
    BY <1>1
  <2> HIDE DEF bad
  <2> QED
    BY <2>1, LeastIn
<1>3. end \in 0 .. Len(f)
  <2>1. bad # {} => Min(bad) \in 1 .. Len(f)
    BY <1>1, <1>2
  <2> HIDE DEF bad
  <2> QED
    BY <1>1, <2>1
<1> HIDE DEF end
<1>4. chunks \in Seq(SampleMessage)
  <2>1. 1 \in 1 .. Len(f) + 1
    BY <1>1
  <2> QED
    BY <1>3, <2>1, PartOf
<1> HIDE DEF chunks
<1>5. kept \in Seq(SampleMessage)
  <2> DEFINE s == [i \in DOMAIN chunks |-> IF chunks[i].type \in T THEN <<chunks[i]>> ELSE << >>]
  <2>1. PICK n \in Nat : DOMAIN chunks = 1 .. n
    BY <1>4, LenProperties
  <2>2. ASSUME NEW i \in 1 .. n
        PROVE  (IF chunks[i].type \in T THEN <<chunks[i]>> ELSE << >>) \in Seq(SampleMessage)
    <3>1. chunks[i] \in SampleMessage
      BY <1>4, <2>1, ElementOfSeq, LenProperties
    <3> QED
      BY <3>1, OneCall, NoCall, Zenon
  <2>3. s \in [1 .. n -> Seq(SampleMessage)]
    BY <2>1, <2>2, Zenon
  <2> HIDE DEF s
  <2>4. s \in Seq(Seq(SampleMessage))
    BY <2>3, SeqDef
  <2> QED
    BY <2>4, FlatType, Zenon DEF s
<1> HIDE DEF kept
<1>6. SubSeq(kept, 1, k) \in Seq(SampleMessage) \/ ~(Len(kept) > k)
  <2>1. Len(kept) \in Nat
    BY <1>5, LenProperties
  <2>2. Len(kept) > k => 1 \in 1 .. Len(kept) + 1 /\ k \in 0 .. Len(kept)
    BY <2>1
  <2> QED
    BY <1>5, <2>2, PartOf
<1>7. parse_file(f, T, k) = IF k # 0 /\ Len(kept) > k THEN SubSeq(kept, 1, k) ELSE kept
  BY Zenon DEF parse_file, kept, chunks, end
<1> QED
  BY <1>5, <1>6, <1>7, Zenon

LEMMA OrderIs == ASSUME NEW i \in 1 .. Len(Prices) PROVE AddOrder(i) \in AddOrders
<1>1. i \in Nat /\ Prices[i] \in Int
  <2>1. Len(Prices) \in Nat /\ Prices \in Seq(Int)
    BY V1Assumption, LenProperties
  <2> QED
    BY <2>1, ElementOfSeq
<1>2. (IF i % 2 = 1 THEN "B" ELSE "S") \in {"B", "S"}
  OBVIOUS
<1> QED
  BY <1>1, <1>2, Zenon DEF AddOrder, AddOrders, encode_add_order

LEMMA BothCalls == ASSUME NEW X, NEW s \in Seq(X), NEW t \in Seq(X) PROVE s \o t \in Seq(X)
BY ConcatProperties

LEMMA OrderCall == ASSUME NEW i \in 1 .. Len(Prices) PROVE Send(AddOrder(i)) \in Calls
BY OrderIs, SendCall, Zenon DEF Sendable

LEMMA WaitCalls == wait_for_result \in Calls /\ wait_for_new_result \in Calls
BY ReadCall, Zenon DEF wait_for_result, wait_for_new_result

LEMMA LoadThenWait == load_weights \o <<Cycles(5)>> \in Seq(Calls)
<1>1. Cycles(5) \in Calls
  <2>1. 5 \in Int
    OBVIOUS
  <2> QED
    BY <2>1, CyclesCall, Zenon
<1> QED
  BY <1>1, LoadIsCalls, OneCall, BothCalls, Zenon

LEMMA StressIsCalls == StressTest(Len(Prices)) \in Seq(Calls)
<1> DEFINE c == [i \in 1 .. Len(Prices) |->
                   <<Send(AddOrder(i)), InterMessageDelay,
                     IF i = 1 THEN wait_for_result ELSE wait_for_new_result>>]
<1>1. ASSUME NEW i \in 1 .. Len(Prices)
      PROVE  <<Send(AddOrder(i)), InterMessageDelay,
               IF i = 1 THEN wait_for_result ELSE wait_for_new_result>> \in Seq(Calls)
  <2>1. (IF i = 1 THEN wait_for_result ELSE wait_for_new_result) \in Calls
    BY WaitCalls, Zenon
  <2> QED
    BY <2>1, OrderCall, DelayCall, ThreeCalls, Zenon
<1>2. Len(Prices) \in Nat
  BY V1Assumption, LenProperties
<1>3. c \in [1 .. Len(Prices) -> Seq(Calls)]
  BY <1>1, Zenon
<1> HIDE DEF c
<1>4. c \in Seq(Seq(Calls))
  BY <1>2, <1>3, SeqDef
<1>5. FlattenSeq(c) \in Seq(Calls)
  BY <1>4, FlatType, Zenon
<1> QED
  BY <1>5, LoadThenWait, BothCalls, Zenon DEF StressTest, c

LEMMA FedIsCalls ==
  ASSUME NEW ms \in Seq(SampleMessage) PROVE feed_messages(ms) \in Seq(Calls)
<1>1. PICK n \in Nat : DOMAIN ms = 1 .. n
  BY LenProperties
<1>2. ASSUME NEW i \in 1 .. n PROVE Send(ms[i]) \in Calls
  <2>1. ms[i] \in SampleMessage
    BY <1>1, LenProperties, ElementOfSeq
  <2> QED
    BY <2>1, SendCall, Zenon DEF Sendable
<1>3. feed_messages(ms) \in [1 .. n -> Calls]
  BY <1>1, <1>2, Zenon DEF feed_messages
<1> QED
  BY <1>3, SeqDef

\* What the replayed messages are, the others are made of.
LEMMA ReplayParts ==
  ASSUME NEW f, NEW X, parse_file(f, {"S", "R", "A"}, 4) \in Seq(X)
  PROVE  \E b \in Seq(X), a \in Seq(X) :
           ReplayTest(f) = load_weights \o <<Cycles(5)>> \o feed_messages(b) \o <<InterMessageDelay>>
                             \o <<Send(AddOrder(1)), wait_for_new_result>> \o feed_messages(a)
                             \o <<InterMessageDelay>> \o <<Send(AddOrder(2)), wait_for_new_result>>
<1> DEFINE ms == parse_file(f, {"S", "R", "A"}, 4)
           k == Min({2, Len(ms)})
           b == SubSeq(ms, 1, k)
           a == SubSeq(ms, 3, Len(ms))
<1>1. ms \in Seq(X)
  OBVIOUS
<1> HIDE DEF ms
<1>2. Len(ms) \in Nat
  BY <1>1, LenProperties
<1>3. k \in 0 .. Len(ms)
  <2>1. {2, Len(ms)} \in SUBSET Nat /\ {2, Len(ms)} # {}
    BY <1>2
  <2>2. k \in {2, Len(ms)}
    BY <2>1, LeastIn, Zenon
  <2>3. k =< Len(ms)
    BY <1>2, <2>2 DEF Min
  <2> HIDE DEF k
  <2> QED
    BY <1>2, <2>2, <2>3
<1> HIDE DEF k
<1>4. b \in Seq(X)
  BY <1>1, <1>2, <1>3, PartOf
<1>5. a \in Seq(X)
  BY <1>1, <1>2, PartOf, SubSeqProperties, EmptySeq
<1>6. ReplayTest(f) = load_weights \o <<Cycles(5)>> \o feed_messages(b) \o <<InterMessageDelay>>
                        \o <<Send(AddOrder(1)), wait_for_new_result>> \o feed_messages(a)
                        \o <<InterMessageDelay>> \o <<Send(AddOrder(2)), wait_for_new_result>>
  BY Zenon DEF ReplayTest, ms, k, b, a
<1> QED
  BY <1>4, <1>5, <1>6, Zenon

LEMMA ReplayIsCalls == ASSUME NEW f \in Files PROVE ReplayTest(f) \in Seq(Calls)
<1>1. parse_file(f, {"S", "R", "A"}, 4) \in Seq(SampleMessage)
  <2>1. f \in Seq(SampleMessage) /\ 4 \in Nat
    BY V1Assumption
  <2> QED
    BY <2>1, ParsedIsMessages, Zenon
<1>2. PICK b \in Seq(SampleMessage), a \in Seq(SampleMessage) :
        ReplayTest(f) = load_weights \o <<Cycles(5)>> \o feed_messages(b) \o <<InterMessageDelay>>
                          \o <<Send(AddOrder(1)), wait_for_new_result>> \o feed_messages(a)
                          \o <<InterMessageDelay>> \o <<Send(AddOrder(2)), wait_for_new_result>>
  BY <1>1, ReplayParts, Zenon
<1>3. /\ <<Send(AddOrder(1)), wait_for_new_result>> \in Seq(Calls)
      /\ <<Send(AddOrder(2)), wait_for_new_result>> \in Seq(Calls)
  <2>1. 1 \in 1 .. Len(Prices) /\ 2 \in 1 .. Len(Prices)
    <3>1. Len(Prices) \in Nat /\ Len(Prices) > 1
      BY V1Assumption, LenProperties
    <3> QED
      BY <3>1
  <2> QED
    BY <2>1, OrderCall, WaitCalls, TwoCalls, Zenon
<1>4. PICK d \in Seq(Calls) : d = <<InterMessageDelay>>
  BY DelayCall, OneCall, Zenon
<1>5. PICK s \in Seq(Calls) : s = load_weights \o <<Cycles(5)>> \o feed_messages(b) \o d
  <2>1. load_weights \o <<Cycles(5)>> \o feed_messages(b) \in Seq(Calls)
    BY FedIsCalls, LoadThenWait, BothCalls, Zenon
  <2> QED
    BY <2>1, BothCalls, Zenon
<1>6. PICK r \in Seq(Calls) : r = s \o <<Send(AddOrder(1)), wait_for_new_result>> \o feed_messages(a)
  <2>1. s \o <<Send(AddOrder(1)), wait_for_new_result>> \in Seq(Calls)
    BY <1>3, BothCalls, Zenon
  <2> QED
    BY <2>1, FedIsCalls, BothCalls, Zenon
<1>7. r \o d \o <<Send(AddOrder(2)), wait_for_new_result>> \in Seq(Calls)
  <2>1. r \o d \in Seq(Calls)
    BY BothCalls, Zenon
  <2> QED
    BY <1>3, <2>1, BothCalls, Zenon
<1> QED
  BY <1>2, <1>4, <1>5, <1>6, <1>7, Zenon

LEMMA TestsAreCalls == V1Init => test \in Seq(Calls) /\ bus = Driven(test)
BY StressIsCalls, ReplayIsCalls, Zenon DEF V1Init

\* The bus while the first call is under way.
OnBus(b, a, d, br, r, rr) == [beat |-> b, aw |-> a, w |-> d, bready |-> br, ar |-> r, rready |-> rr]
QuietBus == OnBus(NoV1Beat, NoAddr, NoData, FALSE, NoAddr, FALSE)
SendBus(b) == OnBus(b, NoAddr, NoData, FALSE, NoAddr, FALSE)
WriteBus(a, d) == OnBus(NoV1Beat, a, d, TRUE, NoAddr, FALSE)
ReadBus(a) == OnBus(NoV1Beat, NoAddr, NoData, FALSE, a, TRUE)

LEMMA SendBusIs ==
  ASSUME NEW b
  PROVE  /\ SendBus(b).beat = b /\ SendBus(b).aw = NoAddr /\ SendBus(b).w = NoData
         /\ SendBus(b).bready = FALSE /\ SendBus(b).ar = NoAddr /\ SendBus(b).rready = FALSE
         /\ \A x : [SendBus(b) EXCEPT !.beat = x] = SendBus(x)
<1>1. ASSUME NEW x PROVE [SendBus(b) EXCEPT !.beat = x] = SendBus(x)
  <2>1. PICK f : f = FALSE
    OBVIOUS
  <2>2. [OnBus(b, NoAddr, NoData, f, NoAddr, f) EXCEPT !.beat = x]
          = OnBus(x, NoAddr, NoData, f, NoAddr, f)
    BY DEF OnBus
  <2> QED
    BY <2>1, <2>2, Zenon DEF SendBus
<1>2. /\ SendBus(b).beat = b /\ SendBus(b).aw = NoAddr /\ SendBus(b).w = NoData
      /\ SendBus(b).bready = FALSE /\ SendBus(b).ar = NoAddr /\ SendBus(b).rready = FALSE
  BY DEF SendBus, OnBus
<1> QED
  BY <1>1, <1>2, Zenon

LEMMA QuietBusIs ==
  /\ QuietBus.beat = NoV1Beat /\ QuietBus.aw = NoAddr /\ QuietBus.w = NoData
  /\ QuietBus.bready = FALSE /\ QuietBus.ar = NoAddr /\ QuietBus.rready = FALSE
BY DEF QuietBus, OnBus

LEMMA WriteBusIs ==
  ASSUME NEW a, NEW d
  PROVE  /\ WriteBus(a, d).beat = NoV1Beat /\ WriteBus(a, d).aw = a /\ WriteBus(a, d).w = d
BY DEF WriteBus, OnBus

LEMMA WriteBusAlso ==
  ASSUME NEW a, NEW d
  PROVE  /\ WriteBus(a, d).bready = TRUE /\ WriteBus(a, d).ar = NoAddr
         /\ WriteBus(a, d).rready = FALSE
BY DEF WriteBus, OnBus

LEMMA WriteBusTaken ==
  ASSUME NEW a, NEW d
  PROVE  [WriteBus(a, d) EXCEPT !.aw = NoAddr, !.w = NoData] = WriteBus(NoAddr, NoData)
<1>1. PICK f, t : f = FALSE /\ t = TRUE
  OBVIOUS
<1>2. [OnBus(NoV1Beat, a, d, t, NoAddr, f) EXCEPT !.aw = NoAddr]
        = OnBus(NoV1Beat, NoAddr, d, t, NoAddr, f)
  BY DEF OnBus
<1>3. [OnBus(NoV1Beat, NoAddr, d, t, NoAddr, f) EXCEPT !.w = NoData]
        = OnBus(NoV1Beat, NoAddr, NoData, t, NoAddr, f)
  BY DEF OnBus
<1>4. [OnBus(NoV1Beat, a, d, t, NoAddr, f) EXCEPT !.aw = NoAddr, !.w = NoData]
        = OnBus(NoV1Beat, NoAddr, NoData, t, NoAddr, f)
  BY <1>2, <1>3
<1> QED
  BY <1>1, <1>4, Zenon DEF WriteBus

LEMMA ReadBusIs ==
  ASSUME NEW a
  PROVE  /\ ReadBus(a).beat = NoV1Beat /\ ReadBus(a).aw = NoAddr /\ ReadBus(a).w = NoData
         /\ ReadBus(a).bready = FALSE /\ ReadBus(a).ar = a /\ ReadBus(a).rready = TRUE
         /\ [ReadBus(a) EXCEPT !.ar = NoAddr] = ReadBus(NoAddr)
<1>1. [ReadBus(a) EXCEPT !.ar = NoAddr] = ReadBus(NoAddr)
  <2>1. PICK f, t : f = FALSE /\ t = TRUE
    OBVIOUS
  <2>2. [OnBus(NoV1Beat, NoAddr, NoData, f, a, t) EXCEPT !.ar = NoAddr]
          = OnBus(NoV1Beat, NoAddr, NoData, f, NoAddr, t)
    BY DEF OnBus
  <2> QED
    BY <2>1, <2>2, Zenon DEF ReadBus
<1>2. /\ ReadBus(a).beat = NoV1Beat /\ ReadBus(a).aw = NoAddr /\ ReadBus(a).w = NoData
      /\ ReadBus(a).bready = FALSE /\ ReadBus(a).ar = a /\ ReadBus(a).rready = TRUE
  BY DEF ReadBus, OnBus
<1> QED
  BY <1>1, <1>2, Zenon

LEMMA DrivenIs ==
  ASSUME NEW t, NEW h, t # << >>, h = Head(t)
  PROVE  /\ h.op = "send" => Driven(t) = SendBus(BeatOf(h.msg, 0))
         /\ h.op = "write" => Driven(t) = WriteBus(h.addr, h.data)
         /\ h.op = "read" => Driven(t) = ReadBus(h.addr)
         /\ h.op \in {"cycles", "delay"} => Driven(t) = QuietBus
BY DEF Driven, IdleBus, SendBus, WriteBus, ReadBus, QuietBus, OnBus

LEMMA DrivenNone == Driven(<< >>) = QuietBus
BY DEF Driven, IdleBus, QuietBus, OnBus

LEMMA MessageIs ==
  ASSUME NEW m \in Sendable, NEW k \in Nat
  PROVE  /\ m.len \in 0 .. 128 /\ BeatOf(m, k) # NoV1Beat
         /\ BeatOf(m, k).msg = m /\ BeatOf(m, k).k = k
         /\ (BeatOf(m, k).last <=> 8 * k + 8 >= m.len + 2)
<1>1. m.len \in 0 .. 128
  <2>1. CASE m \in SampleMessage
    BY <2>1 DEF SampleMessage
  <2>2. CASE m \in AddOrders
    <3>1. m.len = 36
      BY <2>2 DEF AddOrders, ADD_ORDER_LEN
    <3> QED
      BY <3>1
  <2> QED
    BY <2>1, <2>2, Zenon DEF Sendable
<1>2. (8 * k + 8 >= m.len + 2) \in BOOLEAN
  BY <1>1
<1>3. BeatOf(m, k) \in [msg : SampleMessage \cup AddOrders, k : Nat, last : BOOLEAN]
  BY <1>2, Zenon DEF BeatOf, Sendable
<1>4. BeatOf(m, k) # NoV1Beat
  BY <1>3, V1Assumption, Zenon
<1> QED
  BY <1>1, <1>4, Zenon DEF BeatOf

\* What the stream monitor has gathered of a message under way.
FirstBeats(m, k) == [i \in 1 .. k |-> BeatOf(m, i - 1)]

LEMMA NextBeat ==
  ASSUME NEW m, NEW k \in Nat
  PROVE  Append(FirstBeats(m, k), BeatOf(m, k)) = FirstBeats(m, k + 1)
<1> DEFINE s == FirstBeats(m, k)
           t == FirstBeats(m, k + 1)
           X == {BeatOf(m, i) : i \in Nat}
<1>1. BeatOf(m, k) \in X /\ \A i \in 1 .. k + 1 : BeatOf(m, i - 1) \in X
  <2>1. \A i \in 1 .. k + 1 : i - 1 \in Nat
    OBVIOUS
  <2> QED
    BY <2>1, Zenon
<1> HIDE DEF X
<1>2. s \in [1 .. k -> X] /\ t \in [1 .. k + 1 -> X]
  <2>1. \A i \in 1 .. k : i \in 1 .. k + 1
    OBVIOUS
  <2> QED
    BY <1>1, <2>1, Zenon DEF FirstBeats
<1>3. s \in Seq(X) /\ t \in Seq(X) /\ Len(s) = k /\ Len(t) = k + 1
  <2>1. s \in Seq(X) /\ t \in Seq(X)
    BY <1>2, SeqDef
  <2> QED
    BY <1>2, <2>1, LenProperties DEF FirstBeats
<1>4. /\ Append(s, BeatOf(m, k)) \in Seq(X) /\ Len(Append(s, BeatOf(m, k))) = k + 1
      /\ \A i \in 1 .. k : Append(s, BeatOf(m, k))[i] = s[i]
      /\ Append(s, BeatOf(m, k))[k + 1] = BeatOf(m, k)
  BY <1>1, <1>3, AppendProperties
<1>5. \A i \in 1 .. k : s[i] = BeatOf(m, i - 1) /\ t[i] = BeatOf(m, i - 1)
  <2>1. \A i \in 1 .. k : i \in 1 .. k + 1
    OBVIOUS
  <2> QED
    BY <2>1, Zenon DEF FirstBeats
<1>6. t[k + 1] = BeatOf(m, k)
  <2>1. k + 1 \in 1 .. k + 1 /\ (k + 1) - 1 = k
    OBVIOUS
  <2> QED
    BY <2>1, Zenon DEF FirstBeats
<1> HIDE DEF s, t
<1>7. \A i \in 1 .. k + 1 : Append(s, BeatOf(m, k))[i] = t[i]
  <2>1. \A i \in 1 .. k + 1 : i \in 1 .. k \/ i = k + 1
    OBVIOUS
  <2> QED
    BY <1>4, <1>5, <1>6, <2>1, Zenon
<1>8. Append(s, BeatOf(m, k)) = t
  BY <1>3, <1>4, <1>7, SeqEqual
<1> QED
  BY <1>8 DEF s, t

LEMMA NoBeats == ASSUME NEW m PROVE FirstBeats(m, 0) = << >>
BY DEF FirstBeats

LEMMA ProceedIs ==
  ASSUME test \in Seq(Calls), test # << >>, NEW more \in Seq(Calls), Proceed(more)
  PROVE  test' \in Seq(Calls) /\ bus' = Driven(test')
<1>1. PICK rest : rest = more \o Tail(test)
  OBVIOUS
<1>2. rest \in Seq(Calls)
  BY <1>1, HeadTailProperties, BothCalls
<1>3. rest # << >> => Tail(rest) \in Seq(Calls)
  BY <1>2, HeadTailProperties
<1>4. PICK d \in Delays \cup {0} :
         /\ \/ test' = rest
            \/ rest # << >> /\ test' = Tail(rest)
            \/ rest # << >> /\ test' = <<Cycles(d)>> \o Tail(rest)
         /\ bus' = Driven(test')
  BY <1>1, Zenon DEF Proceed
<1>5. Cycles(d) \in Calls
  <2>1. d \in Int
    BY V1Assumption
  <2> QED
    BY <2>1, CyclesCall, Zenon
<1>6. <<Cycles(d)>> \in Seq(Calls)
  BY <1>5, OneCall, Zenon
<1> QED
  BY <1>2, <1>3, <1>4, <1>6, BothCalls, Zenon

\* An edge of the slave, whose write registers never keep anything.
LEMMA WriteEdge ==
  ASSUME V1Edge, aw = NoAddr, w = NoData,
         (bus.aw = NoAddr /\ bus.w = NoData) \/ (bus.aw # NoAddr /\ bus.w # NoData)
  PROVE  /\ aw' = NoAddr /\ w' = NoData
         /\ bus.aw # NoAddr => bvalid' = TRUE
         /\ bus.aw = NoAddr /\ (bvalid = FALSE \/ bus.bready = TRUE) => bvalid' = FALSE
<1>1. Slave!WriteChannel(bus.aw, bus.w, bus.bready)
  BY Zenon DEF V1Edge, Slave!Clock
<1>2. /\ aw' = IF bus.aw # NoAddr /\ bus.w # NoData THEN NoAddr ELSE bus.aw
      /\ w' = IF bus.aw # NoAddr /\ bus.w # NoData THEN NoData ELSE bus.w
      /\ bvalid' = ((bus.aw # NoAddr /\ bus.w # NoData) \/ (bvalid /\ ~bus.bready))
  BY <1>1, Zenon DEF Slave!WriteChannel, Slave!awready, Slave!wready
<1>3. bus.aw # NoAddr => bvalid' = TRUE
  <2> SUFFICES ASSUME bus.aw # NoAddr PROVE bvalid' = TRUE
    OBVIOUS
  <2>1. ((bus.aw # NoAddr /\ bus.w # NoData) \/ (bvalid /\ ~bus.bready)) = TRUE
    BY Zenon
  <2> QED
    BY <1>2, <2>1, Zenon
<1>4. bus.aw = NoAddr /\ (bvalid = FALSE \/ bus.bready = TRUE) => bvalid' = FALSE
  <2> SUFFICES ASSUME bus.aw = NoAddr, bvalid = FALSE \/ bus.bready = TRUE PROVE bvalid' = FALSE
    OBVIOUS
  <2>1. ((bus.aw # NoAddr /\ bus.w # NoData) \/ (bvalid /\ ~bus.bready)) = FALSE
    BY Zenon
  <2> QED
    BY <1>2, <2>1, Zenon
<1> QED
  BY <1>2, <1>3, <1>4, Zenon

LEMMA ReadEdge ==
  ASSUME V1Edge
  PROVE  /\ ar = NoAddr /\ rvalid = FALSE => ar' = bus.ar /\ rvalid' = FALSE
         /\ ar # NoAddr /\ rvalid = FALSE => ar' = NoAddr /\ rvalid' = TRUE
         /\ ar = NoAddr /\ rvalid = TRUE /\ bus.rready = TRUE => ar' = NoAddr /\ rvalid' = FALSE
<1>1. /\ ar' = IF ar = NoAddr /\ ~rvalid THEN bus.ar ELSE NoAddr
      /\ rvalid' = (ar # NoAddr \/ (rvalid /\ ~bus.rready))
  BY Zenon DEF V1Edge, Slave!Clock, Slave!ReadChannel, Slave!arready
<1>2. ASSUME ar = NoAddr, rvalid = FALSE PROVE ar' = bus.ar /\ rvalid' = FALSE
  <2>1. (ar # NoAddr \/ (rvalid /\ ~bus.rready)) = FALSE
    BY <1>2, Zenon
  <2> QED
    BY <1>1, <1>2, <2>1, Zenon
<1>3. ASSUME ar # NoAddr, rvalid = FALSE PROVE ar' = NoAddr /\ rvalid' = TRUE
  <2>1. (ar # NoAddr \/ (rvalid /\ ~bus.rready)) = TRUE
    BY <1>3, Zenon
  <2> QED
    BY <1>1, <1>3, <2>1, Zenon
<1>4. ASSUME ar = NoAddr, rvalid = TRUE, bus.rready = TRUE PROVE ar' = NoAddr /\ rvalid' = FALSE
  <2>1. (ar # NoAddr \/ (rvalid /\ ~bus.rready)) = FALSE
    BY <1>4, Zenon
  <2> QED
    BY <1>1, <1>4, <2>1, Zenon
<1> QED
  BY <1>2, <1>3, <1>4, Zenon

\* An edge of the monitors.
LEMMA StreamHears ==
  ASSUME V1Edge
  PROVE  /\ ~StreamTaken => seen'.beats = seen.beats /\ seen'.messages = seen.messages
         /\ StreamTaken /\ ~bus.beat.last
              => seen'.beats = Append(seen.beats, bus.beat) /\ seen'.messages = seen.messages
         /\ StreamTaken /\ bus.beat.last
              => /\ seen'.beats = << >>
                 /\ seen'.messages = Append(seen.messages, Append(seen.beats, bus.beat))
<1>1. seen'.beats = StreamMonitor.beats /\ seen'.messages = StreamMonitor.messages
  <2>1. Monitors
    BY Zenon DEF V1Edge
  <2> QED
    BY <2>1, Zenon DEF Monitors
<1> QED
  BY <1>1, Zenon DEF StreamMonitor

SameWrites == seen'.aw = seen.aw /\ seen'.w = seen.w /\ seen'.writes = seen.writes
SameReads == seen'.ar = seen.ar /\ seen'.reads = seen.reads

LEMMA LiteHears ==
  ASSUME V1Edge
  PROVE  /\ bus.aw = NoAddr /\ bus.w = NoData /\ bvalid = FALSE => SameWrites
         /\ bus.ar = NoAddr /\ rvalid = FALSE => SameReads
         /\ bus.aw # NoAddr /\ bus.w # NoData /\ aw = NoAddr /\ w = NoData /\ bvalid = FALSE
              => seen'.aw = bus.aw /\ seen'.w = bus.w /\ seen'.writes = seen.writes
         /\ bus.aw = NoAddr /\ bus.w = NoData /\ bvalid = TRUE /\ bus.bready = TRUE
              /\ seen.aw # NoAddr /\ seen.w # NoData
              => /\ seen'.aw = NoAddr /\ seen'.w = NoData
                 /\ seen'.writes = Append(seen.writes, <<seen.aw, seen.w>>)
         /\ bus.ar # NoAddr /\ ar = NoAddr /\ rvalid = FALSE
              => seen'.ar = bus.ar /\ seen'.reads = seen.reads
         /\ bus.ar = NoAddr /\ rvalid = TRUE /\ bus.rready = TRUE /\ seen.ar # NoAddr
              => seen'.ar = NoAddr /\ seen'.reads = Append(seen.reads, <<seen.ar, rdata>>)
<1>1. /\ seen'.aw = LiteMonitor.aw /\ seen'.w = LiteMonitor.w /\ seen'.writes = LiteMonitor.writes
      /\ seen'.ar = LiteMonitor.ar /\ seen'.reads = LiteMonitor.reads
  <2>1. Monitors
    BY Zenon DEF V1Edge
  <2> QED
    BY <2>1, Zenon DEF Monitors
<1> DEFINE a == IF bus.aw # NoAddr /\ aw = NoAddr THEN bus.aw ELSE seen.aw
           d == IF bus.w # NoData /\ w = NoData THEN bus.w ELSE seen.w
           r == IF bus.ar # NoAddr /\ ar = NoAddr /\ ~rvalid THEN bus.ar ELSE seen.ar
           wr == bvalid /\ bus.bready /\ a # NoAddr /\ d # NoData
           rd == rvalid /\ bus.rready /\ r # NoAddr
<1>2. /\ seen'.aw = (IF wr THEN NoAddr ELSE a) /\ seen'.w = (IF wr THEN NoData ELSE d)
      /\ seen'.writes = IF wr THEN Append(seen.writes, <<a, d>>) ELSE seen.writes
  BY <1>1, Zenon DEF LiteMonitor, Slave!awready, Slave!wready, Slave!arready
<1>3. /\ seen'.ar = (IF rd THEN NoAddr ELSE r)
      /\ seen'.reads = IF rd THEN Append(seen.reads, <<r, rdata>>) ELSE seen.reads
  BY <1>1, Zenon DEF LiteMonitor, Slave!awready, Slave!wready, Slave!arready
<1>4. /\ bus.aw = NoAddr /\ bus.w = NoData => a = seen.aw /\ d = seen.w
      /\ bus.aw # NoAddr /\ bus.w # NoData /\ aw = NoAddr /\ w = NoData => a = bus.aw /\ d = bus.w
      /\ bus.ar = NoAddr => r = seen.ar
      /\ bus.ar # NoAddr /\ ar = NoAddr /\ rvalid = FALSE => r = bus.ar
  BY Zenon
<1>5. (bvalid = FALSE => ~wr) /\ (rvalid = FALSE => ~rd)
  BY Zenon
<1>6. /\ bvalid = TRUE /\ bus.bready = TRUE /\ a # NoAddr /\ d # NoData => wr
      /\ rvalid = TRUE /\ bus.rready = TRUE /\ r # NoAddr => rd
  BY Zenon
<1> HIDE DEF a, d, r, wr, rd
<1> QED
  BY <1>2, <1>3, <1>4, <1>5, <1>6, Zenon DEF SameWrites, SameReads

\* What the slave and the monitors have of the first call, and where it stands:
\* it has just begun, or a message is under way, or a write is taken, or a read
\* waits for its answer.
Silent == bvalid = FALSE /\ rvalid = FALSE /\ ar = NoAddr
Unheard == seen.aw = NoAddr /\ seen.w = NoData /\ seen.ar = NoAddr

CallBegins == bus = Driven(test) /\ Silent /\ Unheard /\ seen.beats = << >>
MessageSent(k) ==
  /\ test # << >> /\ Head(test).op = "send"
  /\ bus = SendBus(BeatOf(Head(test).msg, k)) /\ Silent /\ Unheard
  /\ seen.beats = FirstBeats(Head(test).msg, k)
WriteTaken ==
  /\ test # << >> /\ Head(test).op = "write"
  /\ bus = WriteBus(NoAddr, NoData) /\ bvalid = TRUE /\ rvalid = FALSE /\ ar = NoAddr
  /\ seen.aw = Head(test).addr /\ seen.w = Head(test).data /\ seen.ar = NoAddr
  /\ seen.beats = << >>
ReadAsked ==
  /\ test # << >> /\ Head(test).op = "read"
  /\ bus = ReadBus(NoAddr) /\ bvalid = FALSE
  /\ IF rvalid = FALSE THEN ar = Head(test).addr ELSE rvalid = TRUE /\ ar = NoAddr
  /\ seen.aw = NoAddr /\ seen.w = NoData /\ seen.ar = Head(test).addr
  /\ seen.beats = << >>

\* The monitors have recorded what the drivers have completed.
Heard ==
  /\ seen.messages = done.messages /\ seen.writes = done.writes /\ seen.reads = done.reads
  /\ done = [messages |-> done.messages, writes |-> done.writes, reads |-> done.reads]

CallStands == CallBegins \/ WriteTaken \/ ReadAsked \/ \E k \in Nat : MessageSent(k)

CallsInv ==
  /\ test \in Seq(Calls) /\ Heard
  /\ aw = NoAddr /\ w = NoData
  /\ CallStands

\* How the beat on the bus moves on.
Fresh(b) == b = NoV1Beat \/ \E m \in Sendable : b = BeatOf(m, 0)
BeatMoves ==
  \/ /\ bus'.beat = bus.beat
     /\ bus.beat = NoV1Beat \/ ~Dut!s_axis_tready
  \/ /\ bus.beat # NoV1Beat /\ Dut!s_axis_tready /\ ~bus.beat.last
     /\ bus'.beat = BeatOf(bus.beat.msg, bus.beat.k + 1)
  \/ /\ bus.beat = NoV1Beat \/ (Dut!s_axis_tready /\ bus.beat.last)
     /\ Fresh(bus'.beat)

LEMMA DrivenFresh ==
  ASSUME NEW t \in Seq(Calls) PROVE Fresh(Driven(t).beat)
<1>1. CASE t = << >>
  <2>1. Driven(t).beat = NoV1Beat
    BY <1>1, DrivenNone, QuietBusIs
  <2> QED
    BY <2>1, Zenon DEF Fresh
<1>2. CASE t # << >>
  <2>1. PICK h \in Calls : h = Head(t)
    BY <1>2, HeadTailProperties
  <2>2. CASE h.op = "send"
    <3>1. Driven(t) = SendBus(BeatOf(h.msg, 0)) /\ h.msg \in Sendable
      BY <1>2, <2>1, <2>2, DrivenIs, CallIs, Zenon
    <3>2. Driven(t).beat = BeatOf(h.msg, 0)
      BY <3>1, SendBusIs, Zenon
    <3> QED
      BY <3>1, <3>2, Zenon DEF Fresh
  <2>3. CASE h.op # "send"
    <3>1. Driven(t) = QuietBus \/ Driven(t) = WriteBus(h.addr, h.data) \/ Driven(t) = ReadBus(h.addr)
      BY <1>2, <2>1, <2>3, DrivenIs, CallIs
    <3>2. Driven(t).beat = NoV1Beat
      <4>1. CASE Driven(t) = QuietBus
        BY <4>1, QuietBusIs, Zenon
      <4>2. CASE Driven(t) = WriteBus(h.addr, h.data)
        <5>1. PICK a, d : Driven(t) = WriteBus(a, d)
          BY <4>2, Zenon
        <5>2. WriteBus(a, d).beat = NoV1Beat
          BY WriteBusIs
        <5> QED
          BY <5>1, <5>2
      <4>3. CASE Driven(t) = ReadBus(h.addr)
        BY <4>3, ReadBusIs, Zenon
      <4> QED
        BY <3>1, <4>1, <4>2, <4>3, Zenon
    <3> QED
      BY <3>2, Zenon DEF Fresh
  <2> QED
    BY <2>2, <2>3
<1> QED
  BY <1>1, <1>2

LEMMA CallsStart == V1Init => CallsInv
<1> SUFFICES ASSUME V1Init PROVE CallsInv
  OBVIOUS
<1>1. /\ done = [messages |-> << >>, writes |-> << >>, reads |-> << >>]
      /\ seen = [messages |-> << >>, writes |-> << >>, reads |-> << >>,
                 beats |-> << >>, aw |-> NoAddr, w |-> NoData, ar |-> NoAddr]
  BY Zenon DEF V1Init
<1>2. Heard
  BY <1>1, Zenon DEF Heard
<1>3. aw = NoAddr /\ w = NoData /\ Silent
  BY V1InitShows, Zenon DEF Slave!SlaveReset, Silent
<1>4. Unheard /\ seen.beats = << >>
  BY <1>1, Zenon DEF Unheard
<1> QED
  BY <1>2, <1>3, <1>4, TestsAreCalls, Zenon DEF CallsInv, CallStands, CallBegins

\* A message under way.
LEMMA SendKeeps ==
  ASSUME CallsInv, NEW k \in Nat, MessageSent(k), V1Edge, send
  PROVE  CallsInv' /\ BeatMoves
<1> DEFINE h == Head(test)
           m == h.msg
           b == BeatOf(m, k)
<1>1. /\ test # << >> /\ h.op = "send" /\ bus = SendBus(b) /\ Silent /\ Unheard
      /\ seen.beats = FirstBeats(m, k)
  BY Zenon DEF MessageSent
<1>2. test \in Seq(Calls) /\ m \in Sendable
  <2>1. h \in Calls
    BY <1>1, HeadTailProperties, Zenon DEF CallsInv
  <2> QED
    BY <1>1, <2>1, CallIs, Zenon DEF CallsInv
<1> HIDE DEF h, m
<1>3. /\ bus.beat = b /\ bus.aw = NoAddr /\ bus.w = NoData /\ bus.bready = FALSE
      /\ bus.ar = NoAddr /\ bus.rready = FALSE
  BY <1>1, SendBusIs, Zenon
<1>4. b # NoV1Beat /\ b.msg = m /\ b.k = k
  BY <1>2, MessageIs
<1> HIDE DEF b
<1>5. aw' = NoAddr /\ w' = NoData /\ Silent'
  BY <1>1, <1>3, WriteEdge, ReadEdge, Zenon DEF CallsInv, Silent
<1>6. SameWrites /\ SameReads
  BY <1>1, <1>3, LiteHears, Zenon DEF Silent
<1>7. Unheard'
  BY <1>1, <1>6, Zenon DEF Unheard, SameWrites, SameReads
<1>8. StreamTaken <=> Dut!s_axis_tready
  BY <1>3, <1>4, Zenon DEF StreamTaken
<1>9. CASE ~Dut!s_axis_tready
  <2>1. bus' = bus /\ test' = test /\ done' = done
    BY <1>9, Zenon DEF send
  <2>2. seen'.beats = seen.beats /\ seen'.messages = seen.messages
    BY <1>8, <1>9, StreamHears, Zenon
  <2>3. Heard'
    BY <1>6, <2>1, <2>2, Zenon DEF CallsInv, Heard, SameWrites, SameReads
  <2>4. MessageSent(k)'
    BY <1>1, <1>5, <1>7, <2>1, <2>2, Zenon DEF MessageSent, h, m, b
  <2>5. BeatMoves
    BY <1>9, <2>1, Zenon DEF BeatMoves
  <2> QED
    BY <1>2, <1>5, <2>1, <2>3, <2>4, <2>5, Zenon DEF CallsInv, CallStands
<1>10. CASE Dut!s_axis_tready /\ ~b.last
  <2>1. bus' = [bus EXCEPT !.beat = BeatOf(m, k + 1)] /\ test' = test /\ done' = done
    BY <1>3, <1>4, <1>10, Zenon DEF send
  <2>2. bus' = SendBus(BeatOf(m, k + 1)) /\ bus'.beat = BeatOf(m, k + 1)
    <3>1. PICK x : x = BeatOf(m, k + 1)
      OBVIOUS
    <3>2. bus' = [SendBus(b) EXCEPT !.beat = x]
      BY <1>1, <2>1, <3>1, Zenon
    <3>3. bus' = SendBus(x)
      BY <3>2, SendBusIs, Zenon
    <3> QED
      BY <3>1, <3>3, SendBusIs, Zenon
  <2>3. seen'.beats = FirstBeats(m, k + 1) /\ seen'.messages = seen.messages
    <3>1. Append(FirstBeats(m, k), b) = FirstBeats(m, k + 1)
      BY NextBeat, Zenon DEF b
    <3> QED
      BY <1>1, <1>3, <1>8, <1>10, <3>1, StreamHears, Zenon
  <2>4. Heard'
    BY <1>6, <2>1, <2>3, Zenon DEF CallsInv, Heard, SameWrites, SameReads
  <2>5. MessageSent(k + 1)'
    BY <1>1, <1>5, <1>7, <2>1, <2>2, <2>3, Zenon DEF MessageSent, h, m
  <2>6. BeatMoves
    BY <1>3, <1>4, <1>10, <2>2, Zenon DEF BeatMoves
  <2>7. k + 1 \in Nat
    OBVIOUS
  <2> QED
    BY <1>2, <1>5, <2>1, <2>4, <2>5, <2>6, <2>7, Zenon DEF CallsInv, CallStands
<1>11. CASE Dut!s_axis_tready /\ b.last
  <2>1. /\ Proceed(<< >>)
        /\ done' = [done EXCEPT !.messages =
                      Append(@, [i \in 1 .. k + 1 |-> BeatOf(m, i - 1)])]
    BY <1>3, <1>4, <1>11, Zenon DEF send
  <2>2. test' \in Seq(Calls) /\ bus' = Driven(test')
    BY <1>1, <1>2, <2>1, ProceedIs, NoCall, Zenon
  <2>3. /\ seen'.beats = << >>
        /\ seen'.messages = Append(seen.messages, FirstBeats(m, k + 1))
    <3>1. Append(FirstBeats(m, k), b) = FirstBeats(m, k + 1)
      BY NextBeat, Zenon DEF b
    <3> QED
      BY <1>1, <1>3, <1>8, <1>11, <3>1, StreamHears, Zenon
  <2>4. done' = [messages |-> Append(done.messages, FirstBeats(m, k + 1)),
                 writes |-> done.writes, reads |-> done.reads]
    BY <2>1 DEF CallsInv, Heard, FirstBeats
  <2>5. Heard'
    BY <1>6, <2>3, <2>4, Zenon DEF CallsInv, Heard, SameWrites, SameReads
  <2>6. CallBegins'
    BY <1>5, <1>7, <2>2, <2>3, Zenon DEF CallBegins
  <2>7. BeatMoves
    BY <1>3, <1>11, <2>2, DrivenFresh, Zenon DEF BeatMoves
  <2> QED
    BY <1>5, <2>2, <2>5, <2>6, <2>7, Zenon DEF CallsInv, CallStands
<1> QED
  BY <1>9, <1>10, <1>11

\* Where no message is under way the stream is quiet.
LEMMA StreamQuiet ==
  ASSUME V1Edge, bus.beat = NoV1Beat, Heard
  PROVE  seen'.beats = seen.beats /\ seen'.messages = seen.messages
<1>1. ~StreamTaken
  BY Zenon DEF StreamTaken
<1> QED
  BY <1>1, StreamHears, Zenon

\* A call that drives nothing.
LEMMA CyclesKeep ==
  ASSUME CallsInv, CallBegins, test # << >>, V1Edge, ClockCycles
  PROVE  CallsInv' /\ BeatMoves
<1>1. PICK h \in Calls : h = Head(test)
  BY HeadTailProperties, Zenon DEF CallsInv
<1>2. h.op = "cycles" /\ bus = QuietBus
  <2>1. h.op = "cycles"
    BY <1>1, Zenon DEF ClockCycles
  <2>2. h.op \in {"cycles", "delay"}
    BY <2>1
  <2> QED
    BY <1>1, <2>1, <2>2, DrivenIs, Zenon DEF CallBegins
<1>3. /\ bus.beat = NoV1Beat /\ bus.aw = NoAddr /\ bus.w = NoData /\ bus.bready = FALSE
      /\ bus.ar = NoAddr /\ bus.rready = FALSE
  BY <1>2, QuietBusIs, Zenon
<1>4. Silent /\ Unheard /\ seen.beats = << >> /\ Heard /\ test \in Seq(Calls)
      /\ aw = NoAddr /\ w = NoData
  BY Zenon DEF CallBegins, CallsInv
<1>5. aw' = NoAddr /\ w' = NoData /\ Silent'
  BY <1>3, <1>4, WriteEdge, ReadEdge, Zenon DEF Silent
<1>6. SameWrites /\ SameReads
  BY <1>3, <1>4, LiteHears, Zenon DEF Silent
<1>7. Unheard'
  BY <1>4, <1>6, Zenon DEF Unheard, SameWrites, SameReads
<1>8. seen'.beats = << >> /\ seen'.messages = seen.messages
  BY <1>3, <1>4, StreamQuiet, Zenon
<1>9. done' = done
  BY Zenon DEF ClockCycles
<1>10. Heard'
  BY <1>4, <1>6, <1>8, <1>9, Zenon DEF Heard, SameWrites, SameReads
<1>11. test' \in Seq(Calls) /\ bus' = Driven(test')
  <2>1. CASE Proceed(<< >>)
    BY <1>4, <2>1, ProceedIs, NoCall, Zenon
  <2>2. CASE test' = [test EXCEPT ![1].n = @ - 1] /\ bus' = bus
    <3>1. Len(test) \in Nat /\ Len(test) > 0 /\ DOMAIN test = 1 .. Len(test)
      <4>1. Len(test) \in Nat /\ DOMAIN test = 1 .. Len(test)
        BY <1>4, LenProperties
      <4> QED
        BY <1>4, <4>1, EmptySeq
    <3>2. h = test[1] /\ h.n \in Int /\ h = [op |-> "cycles", n |-> h.n]
      <4>1. h = test[1]
        BY <1>1, HeadTailProperties, <1>4
      <4> QED
        BY <1>2, <4>1 DEF Calls
    <3>3. [h EXCEPT !.n = @ - 1] \in Calls /\ [h EXCEPT !.n = @ - 1].op = "cycles"
      <4>1. [h EXCEPT !.n = @ - 1] = [op |-> "cycles", n |-> h.n - 1]
        BY <3>2
      <4>2. h.n - 1 \in Int
        BY <3>2
      <4>3. [h EXCEPT !.n = @ - 1] = Cycles(h.n - 1)
        BY <4>1, Zenon DEF Cycles
      <4> QED
        BY <4>1, <4>2, <4>3, CyclesCall
    <3>4. PICK x \in Calls : x = [h EXCEPT !.n = @ - 1] /\ x.op = "cycles"
      BY <3>3
    <3>5. test' = [test EXCEPT ![1] = x]
      BY <2>2, <3>1, <3>2, <3>4
    <3>6. test' \in Seq(Calls) /\ test' # << >> /\ Head(test') = x
      BY <1>4, <3>1, <3>5, ExceptSeq
    <3>7. Driven(test') = QuietBus
      <4>1. x.op \in {"cycles", "delay"}
        BY <3>4
      <4> QED
        BY <3>6, <4>1, DrivenIs, Zenon
    <3> QED
      BY <1>2, <2>2, <3>6, <3>7, Zenon
  <2> QED
    BY <2>1, <2>2, Zenon DEF ClockCycles
<1>12. BeatMoves
  BY <1>3, <1>11, DrivenFresh, Zenon DEF BeatMoves
<1>13. CallBegins'
  BY <1>5, <1>7, <1>8, <1>11, Zenon DEF CallBegins
<1> QED
  BY <1>5, <1>10, <1>11, <1>12, <1>13, Zenon DEF CallsInv, CallStands

\* A write that begins is taken at once.
LEMMA WriteBegins ==
  ASSUME CallsInv, CallBegins, test # << >>, V1Edge, write
  PROVE  CallsInv' /\ BeatMoves
<1>1. PICK h \in Calls : h = Head(test)
  BY HeadTailProperties, Zenon DEF CallsInv
<1>2. /\ h.op = "write" /\ bus = WriteBus(h.addr, h.data)
      /\ h.addr # NoAddr /\ h.data # NoData
  BY <1>1, DrivenIs, CallIs, Zenon DEF CallBegins, write
<1>3. PICK a, d : a = h.addr /\ d = h.data
  OBVIOUS
<1>4. bus = WriteBus(a, d) /\ a # NoAddr /\ d # NoData
  BY <1>2, <1>3, Zenon
<1>5. /\ bus.beat = NoV1Beat /\ bus.aw = a /\ bus.w = d /\ bus.bready = TRUE
      /\ bus.ar = NoAddr /\ bus.rready = FALSE
  <2>1. bus.beat = NoV1Beat /\ bus.aw = a /\ bus.w = d
    BY <1>4 DEF WriteBus, OnBus
  <2>2. bus.bready = TRUE /\ bus.ar = NoAddr /\ bus.rready = FALSE
    BY <1>4, WriteBusAlso, Zenon
  <2> QED
    BY <2>1, <2>2, Zenon
<1>6. Silent /\ Unheard /\ seen.beats = << >> /\ Heard /\ test \in Seq(Calls)
      /\ aw = NoAddr /\ w = NoData
  BY Zenon DEF CallBegins, CallsInv
<1>7. aw' = NoAddr /\ w' = NoData /\ bvalid' = TRUE /\ rvalid' = FALSE /\ ar' = NoAddr
  BY <1>4, <1>5, <1>6, WriteEdge, ReadEdge, Zenon DEF Silent
<1>8. seen'.aw = a /\ seen'.w = d /\ seen'.writes = seen.writes /\ SameReads
  BY <1>4, <1>5, <1>6, LiteHears, Zenon DEF Silent
<1>9. seen'.beats = << >> /\ seen'.messages = seen.messages
  BY <1>5, <1>6, StreamQuiet, Zenon
<1>10. bus' = WriteBus(NoAddr, NoData) /\ test' = test /\ done' = done
  <2>1. /\ bus' = [bus EXCEPT !.aw = IF Slave!awready THEN NoAddr ELSE @,
                              !.w = IF Slave!wready THEN NoData ELSE @]
        /\ test' = test /\ done' = done
    BY <1>4, <1>5, Zenon DEF write
  <2>2. Slave!awready /\ Slave!wready
    BY <1>6, Zenon DEF Slave!awready, Slave!wready
  <2>3. bus' = [bus EXCEPT !.aw = NoAddr, !.w = NoData]
    BY <2>1, <2>2
  <2>4. [WriteBus(a, d) EXCEPT !.aw = NoAddr, !.w = NoData] = WriteBus(NoAddr, NoData)
    BY WriteBusTaken
  <2> QED
    BY <1>4, <2>1, <2>3, <2>4
<1>11. Heard'
  BY <1>6, <1>8, <1>9, <1>10, Zenon DEF Heard, SameReads
<1>12. WriteTaken'
  BY <1>1, <1>2, <1>3, <1>6, <1>7, <1>8, <1>9, <1>10, Zenon DEF WriteTaken, Unheard, SameReads
<1>13. BeatMoves
  <2>1. bus'.beat = NoV1Beat
    BY <1>10 DEF WriteBus, OnBus
  <2> QED
    BY <1>5, <2>1, Zenon DEF BeatMoves
<1> QED
  BY <1>6, <1>7, <1>10, <1>11, <1>12, <1>13, Zenon DEF CallsInv, CallStands

\* It is answered at the next edge.
LEMMA WriteEnds ==
  ASSUME CallsInv, WriteTaken, V1Edge, write
  PROVE  CallsInv' /\ BeatMoves
<1>1. PICK h \in Calls : h = Head(test)
  BY HeadTailProperties, Zenon DEF CallsInv, WriteTaken
<1>2. h.op = "write" /\ h.addr # NoAddr /\ h.data # NoData
  BY <1>1, CallIs, Zenon DEF WriteTaken
<1>3. /\ test # << >> /\ bus = WriteBus(NoAddr, NoData)
      /\ bvalid = TRUE /\ rvalid = FALSE /\ ar = NoAddr
      /\ seen.aw = h.addr /\ seen.w = h.data /\ seen.ar = NoAddr /\ seen.beats = << >>
  BY <1>1, Zenon DEF WriteTaken
<1>4. /\ bus.beat = NoV1Beat /\ bus.aw = NoAddr /\ bus.w = NoData /\ bus.bready = TRUE
      /\ bus.ar = NoAddr
  <2>1. PICK a, d : bus = WriteBus(a, d) /\ a = NoAddr /\ d = NoData
    BY <1>3, Zenon
  <2>2. bus.beat = NoV1Beat /\ bus.aw = a /\ bus.w = d
    BY <2>1, WriteBusIs
  <2>3. bus.bready = TRUE /\ bus.ar = NoAddr
    BY <2>1, WriteBusAlso, Zenon
  <2> QED
    BY <2>1, <2>2, <2>3, Zenon
<1>5. Heard /\ test \in Seq(Calls) /\ aw = NoAddr /\ w = NoData
  BY Zenon DEF CallsInv
<1>6. aw' = NoAddr /\ w' = NoData /\ Silent'
  BY <1>3, <1>4, <1>5, WriteEdge, ReadEdge, Zenon DEF Silent
<1>7. /\ seen'.aw = NoAddr /\ seen'.w = NoData
      /\ seen'.writes = Append(seen.writes, <<h.addr, h.data>>) /\ SameReads
  BY <1>2, <1>3, <1>4, LiteHears, Zenon
<1>8. seen'.beats = << >> /\ seen'.messages = seen.messages
  BY <1>3, <1>4, <1>5, StreamQuiet, Zenon
<1>9. /\ Proceed(<< >>)
      /\ done' = [done EXCEPT !.writes = Append(@, <<h.addr, h.data>>)]
  BY <1>1, <1>3, <1>4, Zenon DEF write
<1>10. test' \in Seq(Calls) /\ bus' = Driven(test')
  BY <1>3, <1>5, <1>9, ProceedIs, NoCall, Zenon
<1>11. done' = [messages |-> done.messages,
                writes |-> Append(done.writes, <<h.addr, h.data>>), reads |-> done.reads]
  BY <1>5, <1>9 DEF Heard
<1>12. Heard'
  BY <1>5, <1>7, <1>8, <1>11, Zenon DEF Heard, SameReads
<1>13. CallBegins'
  BY <1>3, <1>6, <1>7, <1>8, <1>10, Zenon DEF CallBegins, Unheard, SameReads
<1>14. BeatMoves
  BY <1>4, <1>10, DrivenFresh, Zenon DEF BeatMoves
<1> QED
  BY <1>6, <1>10, <1>12, <1>13, <1>14, Zenon DEF CallsInv, CallStands

\* A read that begins has its address taken.
LEMMA ReadBegins ==
  ASSUME CallsInv, CallBegins, test # << >>, V1Edge, read
  PROVE  CallsInv' /\ BeatMoves
<1>1. PICK h \in Calls : h = Head(test)
  BY HeadTailProperties, Zenon DEF CallsInv
<1>2. h.op = "read" /\ bus = ReadBus(h.addr) /\ h.addr # NoAddr
  BY <1>1, DrivenIs, CallIs, Zenon DEF CallBegins, read
<1>3. PICK a : a = h.addr /\ a # NoAddr /\ bus = ReadBus(a)
  BY <1>2, Zenon
<1>4. /\ bus.beat = NoV1Beat /\ bus.aw = NoAddr /\ bus.w = NoData /\ bus.bready = FALSE
      /\ bus.ar = a /\ bus.rready = TRUE
  BY <1>3, ReadBusIs, Zenon
<1>5. Silent /\ Unheard /\ seen.beats = << >> /\ Heard /\ test \in Seq(Calls)
      /\ aw = NoAddr /\ w = NoData
  BY Zenon DEF CallBegins, CallsInv
<1>6. aw' = NoAddr /\ w' = NoData /\ bvalid' = FALSE /\ rvalid' = FALSE /\ ar' = a
  BY <1>4, <1>5, WriteEdge, ReadEdge, Zenon DEF Silent
<1>7. seen'.ar = a /\ seen'.reads = seen.reads /\ SameWrites
  BY <1>3, <1>4, <1>5, LiteHears, Zenon DEF Silent
<1>8. seen'.beats = << >> /\ seen'.messages = seen.messages
  BY <1>4, <1>5, StreamQuiet, Zenon
<1>9. bus' = ReadBus(NoAddr) /\ test' = test /\ done' = done
  <2>1. /\ bus' = [bus EXCEPT !.ar = IF Slave!arready THEN NoAddr ELSE @]
        /\ test' = test /\ done' = done
    BY <1>5, Zenon DEF read, Silent
  <2>2. Slave!arready
    BY <1>5, Zenon DEF Slave!arready, Silent
  <2>3. bus' = [bus EXCEPT !.ar = NoAddr]
    BY <2>1, <2>2
  <2>4. [ReadBus(a) EXCEPT !.ar = NoAddr] = ReadBus(NoAddr)
    BY ReadBusIs
  <2> QED
    BY <1>3, <2>1, <2>3, <2>4
<1>10. Heard'
  BY <1>5, <1>7, <1>8, <1>9, Zenon DEF Heard, SameWrites
<1>11. ReadAsked'
  BY <1>1, <1>2, <1>3, <1>5, <1>6, <1>7, <1>8, <1>9, Zenon DEF ReadAsked, Unheard, SameWrites
<1>12. BeatMoves
  <2>1. bus'.beat = NoV1Beat
    BY <1>9, ReadBusIs, Zenon
  <2> QED
    BY <1>4, <2>1, Zenon DEF BeatMoves
<1> QED
  BY <1>5, <1>6, <1>9, <1>10, <1>11, <1>12, Zenon DEF CallsInv, CallStands

\* It waits for an edge more, and ends with the answer.
LEMMA ReadEnds ==
  ASSUME CallsInv, ReadAsked, V1Edge, read
  PROVE  CallsInv' /\ BeatMoves
<1>1. PICK h \in Calls : h = Head(test)
  BY HeadTailProperties, Zenon DEF CallsInv, ReadAsked
<1>2. h.op = "read" /\ h.addr # NoAddr
  BY <1>1, CallIs, Zenon DEF ReadAsked
<1>3. /\ test # << >> /\ bus = ReadBus(NoAddr) /\ bvalid = FALSE
      /\ seen.ar = h.addr /\ seen.aw = NoAddr /\ seen.w = NoData /\ seen.beats = << >>
      /\ IF rvalid = FALSE THEN ar = h.addr ELSE rvalid = TRUE /\ ar = NoAddr
  BY <1>1, Zenon DEF ReadAsked
<1>4. /\ bus.beat = NoV1Beat /\ bus.aw = NoAddr /\ bus.w = NoData /\ bus.bready = FALSE
      /\ bus.ar = NoAddr /\ bus.rready = TRUE
  <2>1. PICK a : bus = ReadBus(a) /\ a = NoAddr
    BY <1>3, Zenon
  <2> QED
    BY <2>1, ReadBusIs, Zenon
<1>5. Heard /\ test \in Seq(Calls) /\ aw = NoAddr /\ w = NoData
  BY Zenon DEF CallsInv
<1>6. aw' = NoAddr /\ w' = NoData /\ bvalid' = FALSE
  BY <1>3, <1>4, <1>5, WriteEdge, Zenon
<1>7. SameWrites
  BY <1>3, <1>4, LiteHears, Zenon
<1>8. seen'.beats = << >> /\ seen'.messages = seen.messages
  BY <1>3, <1>4, <1>5, StreamQuiet, Zenon
<1>9. CASE rvalid = FALSE
  <2>1. ar' = NoAddr /\ rvalid' = TRUE /\ SameReads
    BY <1>2, <1>3, <1>4, <1>9, ReadEdge, LiteHears, Zenon
  <2>2. bus' = bus /\ test' = test /\ done' = done
    <3>1. /\ bus' = [bus EXCEPT !.ar = IF Slave!arready THEN NoAddr ELSE @]
          /\ test' = test /\ done' = done
      BY <1>9, Zenon DEF read
    <3>2. bus' = [bus EXCEPT !.ar = NoAddr]
      BY <1>4, <3>1
    <3>3. PICK a : bus = ReadBus(a) /\ a = NoAddr
      BY <1>3, Zenon
    <3>4. [ReadBus(a) EXCEPT !.ar = NoAddr] = ReadBus(NoAddr)
      BY ReadBusIs
    <3> QED
      BY <3>1, <3>2, <3>3, <3>4
  <2>3. Heard'
    BY <1>5, <1>7, <1>8, <2>1, <2>2, Zenon DEF Heard, SameReads, SameWrites
  <2>4. ReadAsked'
    BY <1>1, <1>2, <1>3, <1>6, <1>7, <1>8, <2>1, <2>2, Zenon
       DEF ReadAsked, SameReads, SameWrites
  <2>5. BeatMoves
    BY <1>4, <2>2, Zenon DEF BeatMoves
  <2> QED
    BY <1>5, <1>6, <2>2, <2>3, <2>4, <2>5, Zenon DEF CallsInv, CallStands
<1>10. CASE rvalid # FALSE
  <2>1. rvalid = TRUE /\ ar = NoAddr
    BY <1>3, <1>10, Zenon
  <2>2. ar' = NoAddr /\ rvalid' = FALSE
    BY <1>4, <2>1, ReadEdge, Zenon
  <2>3. seen'.ar = NoAddr /\ seen'.reads = Append(seen.reads, <<h.addr, rdata>>)
    BY <1>2, <1>3, <1>4, <2>1, LiteHears, Zenon
  <2>4. /\ Proceed(AfterRead(h.for, rdata))
        /\ done' = [done EXCEPT !.reads = Append(@, <<h.addr, rdata>>)]
    BY <1>1, <1>4, <2>1, Zenon DEF read
  <2>5. test' \in Seq(Calls) /\ bus' = Driven(test')
    <3>1. PICK more \in Seq(Calls) : more = AfterRead(h.for, rdata)
      BY ReadsFollow, Zenon
    <3> QED
      BY <1>3, <1>5, <2>4, <3>1, ProceedIs, Zenon
  <2>6. done' = [messages |-> done.messages, writes |-> done.writes,
                 reads |-> Append(done.reads, <<h.addr, rdata>>)]
    BY <1>5, <2>4 DEF Heard
  <2>7. Heard'
    BY <1>5, <1>7, <1>8, <2>3, <2>6, Zenon DEF Heard, SameWrites
  <2>8. CallBegins'
    BY <1>3, <1>6, <1>7, <1>8, <2>2, <2>3, <2>5, Zenon
       DEF CallBegins, Unheard, Silent, SameWrites
  <2>9. BeatMoves
    BY <1>4, <2>5, DrivenFresh, Zenon DEF BeatMoves
  <2> QED
    BY <1>6, <2>5, <2>7, <2>8, <2>9, Zenon DEF CallsInv, CallStands
<1> QED
  BY <1>9, <1>10

LEMMA CallsKept ==
  ASSUME CallsInv, V1Next PROVE CallsInv' /\ BeatMoves
<1>1. test # << >> /\ V1Edge /\ (ClockCycles \/ send \/ write \/ read)
  BY Zenon DEF V1Next
<1>2. /\ ClockCycles => Head(test).op = "cycles"
      /\ send => Head(test).op = "send"
      /\ write => Head(test).op = "write"
      /\ read => Head(test).op = "read"
  BY Zenon DEF ClockCycles, send, write, read
<1>3. CallBegins \/ WriteTaken \/ ReadAsked \/ \E k \in Nat : MessageSent(k)
  BY Zenon DEF CallsInv, CallStands
<1>4. /\ WriteTaken => Head(test).op = "write"
      /\ ReadAsked => Head(test).op = "read"
      /\ \A k \in Nat : MessageSent(k) => Head(test).op = "send"
  BY Zenon DEF WriteTaken, ReadAsked, MessageSent
<1>5. CASE Head(test).op = "cycles"
  <2>1. ClockCycles /\ CallBegins
    BY <1>1, <1>2, <1>3, <1>4, <1>5
  <2> QED
    BY <1>1, <2>1, CyclesKeep, Zenon
<1>6. CASE Head(test).op = "write"
  <2>1. write /\ (CallBegins \/ WriteTaken)
    BY <1>1, <1>2, <1>3, <1>4, <1>6
  <2> QED
    BY <1>1, <2>1, WriteBegins, WriteEnds, Zenon
<1>7. CASE Head(test).op = "read"
  <2>1. read /\ (CallBegins \/ ReadAsked)
    BY <1>1, <1>2, <1>3, <1>4, <1>7
  <2> QED
    BY <1>1, <2>1, ReadBegins, ReadEnds, Zenon
<1>8. CASE Head(test).op = "send"
  <2>1. send /\ (CallBegins \/ \E k \in Nat : MessageSent(k))
    BY <1>1, <1>2, <1>3, <1>4, <1>8
  <2>2. CallBegins => MessageSent(0)
    <3> SUFFICES ASSUME CallBegins PROVE MessageSent(0)
      OBVIOUS
    <3>1. Driven(test) = SendBus(BeatOf(Head(test).msg, 0))
      BY <1>1, <1>8, DrivenIs, Zenon
    <3> QED
      BY <1>1, <1>8, <3>1, NoBeats, Zenon DEF CallBegins, MessageSent
  <2>3. PICK k \in Nat : MessageSent(k)
    BY <2>1, <2>2
  <2> QED
    BY <1>1, <2>1, <2>3, SendKeeps, Zenon
<1> QED
  BY <1>1, <1>2, <1>5, <1>6, <1>7, <1>8, Zenon

\* How long until the pipeline behind the parser is quiet, if nothing comes.
Settling ==
  IF fields # NoMsg THEN 9 ELSE IF fx1 # NoMsg THEN 8 ELSE IF fx2 # NoMsg THEN 7
  ELSE IF feat_valid THEN 6 ELSE IF seq_state = "PRELOAD" THEN 5
  ELSE IF seq_state = "FEED" THEN 4 - seq_idx ELSE 0

LEMMA SettlingIs == Sequenced => Settling \in 0 .. 9
BY DEF Sequenced, Settling

LEMMA Settles ==
  ASSUME Sequenced, V1Edge, parser.state # "EMIT"
  PROVE  Settling' =< Settling /\ (Dut!pipeline_hold => Settling' =< Settling - 1)
<1>1. Dut!Extract /\ Dut!FeatureClock /\ Dut!Sequence
  BY Zenon DEF V1Edge, Dut!Clock
<1>2. fields' = NoMsg
  BY <1>1, Zenon DEF Dut!Extract
<1>3. fields = NoMsg => fx1' = NoMsg
  BY <1>1, Zenon DEF Dut!FeatureClock
<1>4. fx2' = fx1 /\ (feat_valid' <=> fx2 # NoMsg)
  BY <1>1, Zenon DEF Dut!FeatureClock
<1>5. /\ seq_state' = IF seq_state = "IDLE" THEN IF feat_valid THEN "PRELOAD" ELSE "IDLE"
                     ELSE IF seq_state = "FEED" /\ seq_idx = 3 THEN "IDLE" ELSE "FEED"
      /\ seq_idx' = IF seq_state = "IDLE" /\ feat_valid THEN 0
                   ELSE IF seq_state = "FEED" /\ seq_idx # 3 THEN seq_idx + 1
                   ELSE seq_idx
  <2>1. 4 - 1 = 3
    OBVIOUS
  <2> QED
    BY <1>1, <2>1 DEF Dut!Sequence, Dut!FEATURE_VEC_LEN
<1>6. /\ seq_state \in {"IDLE", "PRELOAD", "FEED"} /\ seq_idx \in 0 .. 3
      /\ seq_state = "PRELOAD" => seq_idx = 0
  BY DEF Sequenced
<1>7. Dut!pipeline_hold <=> feat_valid \/ seq_state # "IDLE"
  BY Zenon DEF Dut!pipeline_hold
<1>8. CASE fields # NoMsg
  <2>1. Settling = 9
    BY <1>8 DEF Settling
  <2>2. Settling' =< 8
    BY <1>2, <1>5, <1>6 DEF Settling
  <2> QED
    BY <2>1, <2>2, <1>4, <1>5, <1>6 DEF Settling
<1>9. CASE fields = NoMsg /\ fx1 # NoMsg
  BY <1>2, <1>3, <1>4, <1>5, <1>6, <1>9 DEF Settling
<1>10. CASE fields = NoMsg /\ fx1 = NoMsg /\ fx2 # NoMsg
  BY <1>2, <1>3, <1>4, <1>5, <1>6, <1>10 DEF Settling
<1>11. CASE fields = NoMsg /\ fx1 = NoMsg /\ fx2 = NoMsg
  <2>1. fields' = NoMsg /\ fx1' = NoMsg /\ fx2' = NoMsg /\ ~feat_valid'
    BY <1>2, <1>3, <1>4, <1>11, Zenon
  <2>2. Settling' = IF seq_state' = "PRELOAD" THEN 5
                    ELSE IF seq_state' = "FEED" THEN 4 - seq_idx' ELSE 0
    BY <2>1, Zenon DEF Settling
  <2>3. Settling = IF feat_valid THEN 6 ELSE IF seq_state = "PRELOAD" THEN 5
                   ELSE IF seq_state = "FEED" THEN 4 - seq_idx ELSE 0
    BY <1>11, Zenon DEF Settling
  <2> QED
    BY <1>5, <1>6, <1>7, <2>2, <2>3
<1> QED
  BY <1>8, <1>9, <1>10, <1>11, Zenon

\* The message the parser gathers is the one on the bus, with as many bytes as
\* beats, and it has been waited for no longer than there was something ahead.
Gathering(m, k) ==
  /\ bus.beat = BeatOf(m, k) /\ parser.msg = m /\ parser.byte_cnt = 8 * k - 2
  /\ 8 * k - 2 < m.len /\ watch.accumulate \in Nat /\ watch.accumulate + Settling =< k + 8
ParserFollows ==
  /\ parser.state \in {"IDLE", "ACC", "EMIT"}
  /\ parser = [state |-> parser.state, byte_cnt |-> parser.byte_cnt, msg |-> parser.msg]
  /\ parser.state # "ACC" => Fresh(bus.beat)
  /\ parser.state = "ACC" => \E m \in Sendable, k \in Nat \ {0} : Gathering(m, k)

LEMMA ParserStarts == V1Init => ParserFollows
<1> SUFFICES ASSUME V1Init PROVE ParserFollows
  OBVIOUS
<1>1. parser = [state |-> "IDLE", byte_cnt |-> 0, msg |-> NoMsg]
  BY V1InitShows, Zenon DEF Dut!V1Reset
<1>2. Fresh(bus.beat)
  BY TestsAreCalls, DrivenFresh, Zenon
<1> QED
  BY <1>1, <1>2 DEF ParserFollows

LEMMA ParserInTime == ParserFollows /\ Sequenced => accumulate_count =< MAX_ACCUMULATE_CYCLES
<1> SUFFICES ASSUME ParserFollows, Sequenced PROVE accumulate_count =< MAX_ACCUMULATE_CYCLES
  OBVIOUS
<1>1. CASE parser.state = "ACC"
  <2>1. PICK m \in Sendable, k \in Nat \ {0} : Gathering(m, k)
    BY <1>1, Zenon DEF ParserFollows
  <2>2. m.len \in 0 .. 128
    BY <2>1, MessageIs
  <2>3. /\ 8 * k - 2 < m.len /\ watch.accumulate \in Nat /\ watch.accumulate + Settling =< k + 8
        /\ Settling \in 0 .. 9
    BY <2>1, SettlingIs, Zenon DEF Gathering
  <2> QED
    BY <1>1, <2>2, <2>3 DEF accumulate_count, MAX_ACCUMULATE_CYCLES
<1>2. CASE parser.state # "ACC"
  BY <1>2 DEF accumulate_count, MAX_ACCUMULATE_CYCLES
<1> QED
  BY <1>1, <1>2

LEMMA ParserKept ==
  ASSUME ParserFollows, Sequenced, V1Edge, BeatMoves, CallsInv, CallsInv', Sequenced'
  PROVE  ParserFollows'
<1>1. Dut!Parse(bus.beat) /\ Checkers
  BY Zenon DEF V1Edge, Dut!Clock
<1>2. watch'.accumulate = accumulate_count
  BY <1>1, Zenon DEF Checkers
<1>3. Dut!s_axis_tready <=> parser.state # "EMIT" /\ ~Dut!pipeline_hold
  BY Zenon DEF Dut!s_axis_tready
<1>4. Settling \in 0 .. 9 /\ Settling' \in 0 .. 9
  <2>1. seq_state' \in {"IDLE", "PRELOAD", "FEED"} /\ seq_idx' \in 0 .. 3
    BY DEF Sequenced
  <2>2. Settling' \in {9, 8, 7, 6, 5, 4 - seq_idx', 0}
    BY Zenon DEF Settling
  <2>3. PICK n \in 0 .. 3 : n = seq_idx'
    BY <2>1
  <2>4. Settling' \in {9, 8, 7, 6, 5, 4 - n, 0}
    BY <2>2, <2>3, Zenon
  <2>5. \A x \in {9, 8, 7, 6, 5, 4 - n, 0} : x \in 0 .. 9
    OBVIOUS
  <2> QED
    BY <2>4, <2>5, SettlingIs, Zenon
<1>5. parser = [state |-> parser.state, byte_cnt |-> parser.byte_cnt, msg |-> parser.msg]
  BY Zenon DEF ParserFollows
<1>6. CASE parser.state = "EMIT"
  <2>1. parser' = [parser EXCEPT !.state = "IDLE"]
    BY <1>1, <1>6, Zenon DEF Dut!Parse
  <2>2. parser' = [state |-> "IDLE", byte_cnt |-> parser.byte_cnt, msg |-> parser.msg]
    BY <1>5, <2>1
  <2>3. Fresh(bus'.beat)
    <3>1. Fresh(bus.beat)
      BY <1>6 DEF ParserFollows
    <3> QED
      BY <1>3, <1>6, <3>1, Zenon DEF BeatMoves
  <2> QED
    BY <2>2, <2>3 DEF ParserFollows
<1>7. CASE parser.state # "EMIT" /\ (bus.beat = NoV1Beat \/ ~Dut!s_axis_tready)
  <2>1. parser' = parser
    BY <1>1, <1>7, Zenon DEF Dut!Parse
  <2>2. CASE parser.state # "ACC"
    <3>1. Fresh(bus'.beat)
      BY <1>7, <2>2, Zenon DEF BeatMoves, ParserFollows
    <3> QED
      BY <2>1, <2>2, <3>1, Zenon DEF ParserFollows
  <2>3. CASE parser.state = "ACC"
    <3>1. PICK m \in Sendable, k \in Nat \ {0} : Gathering(m, k)
      BY <2>3, Zenon DEF ParserFollows
    <3>2. bus.beat # NoV1Beat
      BY <3>1, MessageIs DEF Gathering
    <3>3. bus'.beat = bus.beat
      BY <1>7, <3>2, Zenon DEF BeatMoves
    <3>4. Settling' =< Settling - 1
      BY <1>3, <1>7, <3>2, Settles, Zenon
    <3>5. watch'.accumulate = watch.accumulate + 1
      BY <1>2, <2>3, Zenon DEF accumulate_count
    <3>6. Gathering(m, k)'
      <4>1. /\ 8 * k - 2 < m.len /\ watch.accumulate \in Nat
            /\ watch.accumulate + Settling =< k + 8
        BY <3>1, Zenon DEF Gathering
      <4>2. watch'.accumulate \in Nat /\ watch'.accumulate + Settling' =< k + 8
        BY <1>4, <3>4, <3>5, <4>1
      <4>3. bus'.beat = BeatOf(m, k) /\ parser'.msg = m /\ parser'.byte_cnt = 8 * k - 2
        BY <2>1, <3>1, <3>3, Zenon DEF Gathering
      <4> QED
        BY <4>1, <4>2, <4>3, Zenon DEF Gathering
    <3> QED
      BY <2>1, <2>3, <3>1, <3>6 DEF ParserFollows
  <2> QED
    BY <2>2, <2>3
<1>8. CASE parser.state = "IDLE" /\ bus.beat # NoV1Beat /\ Dut!s_axis_tready
  <2>1. PICK m \in Sendable : bus.beat = BeatOf(m, 0)
    BY <1>8 DEF ParserFollows, Fresh
  <2>2. /\ m.len \in 0 .. 128 /\ bus.beat.msg = m /\ bus.beat.k = 0
        /\ (bus.beat.last <=> m.len =< 6)
    <3>1. 0 \in Nat
      OBVIOUS
    <3>2. /\ m.len \in 0 .. 128 /\ bus.beat.msg = m /\ bus.beat.k = 0
          /\ (bus.beat.last <=> 8 * 0 + 8 >= m.len + 2)
      BY <2>1, <3>1, MessageIs
    <3> QED
      BY <3>2
  <2>3. parser' = [state |-> IF m.len =< 6 THEN "EMIT"
                            ELSE IF bus.beat.last THEN "IDLE" ELSE "ACC",
                   byte_cnt |-> 6, msg |-> m]
    BY <1>1, <1>8, <2>2 DEF Dut!Parse
  <2>4. CASE m.len =< 6
    <3>1. Fresh(bus'.beat)
      BY <1>8, <2>2, <2>4, Zenon DEF BeatMoves
    <3> QED
      BY <2>3, <2>4, <3>1 DEF ParserFollows
  <2>5. CASE ~(m.len =< 6)
    <3>1. bus'.beat = BeatOf(m, 0 + 1)
      BY <1>8, <2>2, <2>5, Zenon DEF BeatMoves
    <3>2. parser' = [state |-> "ACC", byte_cnt |-> 6, msg |-> m]
      BY <2>2, <2>3, <2>5
    <3>3. watch'.accumulate = 0
      BY <1>2, <1>8 DEF accumulate_count
    <3>4. Gathering(m, 1)'
      <4>1. 0 + 1 = 1 /\ 8 * 1 - 2 = 6 /\ 6 < m.len /\ 0 \in Nat /\ 0 + Settling' =< 1 + 8
        BY <1>4, <2>2, <2>5
      <4>2. parser'.msg = m /\ parser'.byte_cnt = 6
        BY <3>2
      <4> QED
        BY <3>1, <3>3, <4>1, <4>2 DEF Gathering
    <3> QED
      BY <3>2, <3>4 DEF ParserFollows
  <2> QED
    BY <2>4, <2>5
<1>9. CASE parser.state = "ACC" /\ bus.beat # NoV1Beat /\ Dut!s_axis_tready
  <2>1. PICK m \in Sendable, k \in Nat \ {0} : Gathering(m, k)
    BY <1>9, Zenon DEF ParserFollows
  <2>2. /\ bus.beat = BeatOf(m, k) /\ parser.msg = m /\ parser.byte_cnt = 8 * k - 2
        /\ 8 * k - 2 < m.len /\ watch.accumulate \in Nat
        /\ watch.accumulate + Settling =< k + 8
    BY <2>1, Zenon DEF Gathering
  <2>3. /\ m.len \in 0 .. 128 /\ bus.beat.msg = m /\ bus.beat.k = k
        /\ (bus.beat.last <=> 8 * k + 6 >= m.len)
    <3>1. /\ m.len \in 0 .. 128 /\ bus.beat.msg = m /\ bus.beat.k = k
          /\ (bus.beat.last <=> 8 * k + 8 >= m.len + 2)
      BY <2>2, MessageIs
    <3> QED
      BY <3>1
  <2>4. PICK n \in Int : n = 8 * k - 2 /\ n + 8 = 8 * (k + 1) - 2 /\ n + 8 = 8 * k + 6
    OBVIOUS
  <2>5. parser' = [state |-> IF n + 8 >= m.len THEN "EMIT"
                            ELSE IF bus.beat.last THEN "IDLE" ELSE "ACC",
                   byte_cnt |-> (n + 8) % 128, msg |-> m]
    BY <1>1, <1>9, <2>2, <2>4, Zenon DEF Dut!Parse
  <2>6. CASE n + 8 >= m.len
    <3>1. bus.beat.last
      BY <2>3, <2>4, <2>6
    <3>2. Fresh(bus'.beat)
      BY <1>9, <3>1, Zenon DEF BeatMoves
    <3> QED
      BY <2>5, <2>6, <3>2 DEF ParserFollows
  <2>7. CASE ~(n + 8 >= m.len)
    <3>1. ~bus.beat.last
      BY <2>3, <2>4, <2>7
    <3>2. bus'.beat = BeatOf(m, k + 1)
      BY <1>9, <2>3, <3>1, Zenon DEF BeatMoves
    <3>3. (n + 8) % 128 = n + 8 /\ n + 8 < m.len
      BY <2>3, <2>4, <2>7
    <3>4. parser' = [state |-> "ACC", byte_cnt |-> n + 8, msg |-> m]
      BY <2>5, <2>7, <3>1, <3>3
    <3>5. watch'.accumulate = watch.accumulate + 1
      BY <1>2, <1>9, Zenon DEF accumulate_count
    <3>6. Settling' =< Settling
      BY <1>9, Settles
    <3>7. Gathering(m, k + 1)'
      <4>1. watch'.accumulate \in Nat /\ watch'.accumulate + Settling' =< (k + 1) + 8
        BY <1>4, <2>2, <3>5, <3>6
      <4>2. parser'.msg = m /\ parser'.byte_cnt = 8 * (k + 1) - 2 /\ 8 * (k + 1) - 2 < m.len
        BY <2>4, <3>3, <3>4
      <4> QED
        BY <3>2, <4>1, <4>2, Zenon DEF Gathering
    <3>8. k + 1 \in Nat \ {0} /\ parser'.state = "ACC"
      BY <3>4
    <3> QED
      BY <3>4, <3>7, <3>8 DEF ParserFollows
  <2> QED
    BY <2>6, <2>7
<1> QED
  BY <1>6, <1>7, <1>8, <1>9 DEF ParserFollows

-----------------------------------------------------------------------------
\* What the checkers of the two buses saw at the edge before still holds.
SignalsHeld ==
  /\ watch.beat # NoV1Beat /\ ~watch.tready => bus.beat = watch.beat
  /\ watch.aw # NoAddr => watch.awready
  /\ watch.w # NoData => watch.wready
  /\ watch.ar # NoAddr => watch.arready

V1Inv ==
  /\ Sequenced /\ Computes /\ CallsInv /\ ParserFollows /\ SignalsHeld
  /\ watch.violations = {}

LEMMA NothingDropped == SignalsHeld => ~StreamViolation /\ ~LiteViolation
BY Zenon DEF SignalsHeld, StreamViolation, LiteViolation, Dropped

LEMMA V1Starts == V1Init => V1Inv
<1> SUFFICES ASSUME V1Init PROVE V1Inv
  OBVIOUS
<1>1. /\ watch.beat = NoV1Beat /\ watch.aw = NoAddr /\ watch.w = NoData /\ watch.ar = NoAddr
      /\ watch.violations = {}
  BY V1InitShows
<1>2. SignalsHeld
  BY <1>1, Zenon DEF SignalsHeld
<1> QED
  BY <1>1, <1>2, SequencerStarts, ComputesStarts, CallsStart, ParserStarts, Zenon DEF V1Inv

LEMMA AddressAsked ==
  CallsInv /\ bus.ar # NoAddr => ar = NoAddr /\ rvalid = FALSE
<1> SUFFICES ASSUME CallsInv, bus.ar # NoAddr PROVE ar = NoAddr /\ rvalid = FALSE
  OBVIOUS
<1>1. CASE CallBegins
  BY <1>1, Zenon DEF CallBegins, Silent
<1>2. CASE WriteTaken
  BY <1>2, Zenon DEF WriteTaken
<1>3. CASE ReadAsked
  BY <1>3, ReadBusIs, Zenon DEF ReadAsked
<1>4. CASE \E k \in Nat : MessageSent(k)
  BY <1>4, Zenon DEF MessageSent, Silent
<1> QED
  BY <1>1, <1>2, <1>3, <1>4, Zenon DEF CallsInv, CallStands

LEMMA SignalsKept ==
  ASSUME CallsInv, BeatMoves, V1Edge, CallsInv' PROVE SignalsHeld'
<1>1. /\ watch'.beat = bus.beat /\ watch'.tready = Dut!s_axis_tready
      /\ watch'.aw = bus.aw /\ watch'.awready = Slave!awready
      /\ watch'.w = bus.w /\ watch'.wready = Slave!wready
      /\ watch'.ar = bus.ar /\ watch'.arready = Slave!arready
  BY Zenon DEF V1Edge, Checkers
<1>2. Slave!awready /\ Slave!wready
  BY Zenon DEF CallsInv, Slave!awready, Slave!wready
<1>3. bus.ar # NoAddr => Slave!arready
  BY AddressAsked, Zenon DEF Slave!arready
<1>4. bus.beat # NoV1Beat /\ ~Dut!s_axis_tready => bus'.beat = bus.beat
  BY Zenon DEF BeatMoves
<1> QED
  BY <1>1, <1>2, <1>3, <1>4, Zenon DEF SignalsHeld

LEMMA V1Kept == V1Inv /\ [CocotbBenchNext]_benchVars => V1Inv'
<1> SUFFICES ASSUME V1Inv, [CocotbBenchNext]_benchVars PROVE V1Inv'
  OBVIOUS
<1>1. ASSUME V1Next PROVE V1Inv'
  <2>1. V1Edge /\ Sequenced /\ Computes /\ CallsInv /\ ParserFollows /\ SignalsHeld
    BY <1>1, Zenon DEF V1Next, V1Inv
  <2>2. CallsInv' /\ BeatMoves
    BY <1>1, <2>1, CallsKept, Zenon
  <2>3. Sequenced'
    BY <2>1, SequencerKept, Zenon
  <2>4. Computes'
    BY <2>1, ComputesKept, Zenon
  <2>5. ParserFollows'
    BY <2>1, <2>2, <2>3, ParserKept, Zenon
  <2>6. SignalsHeld'
    BY <2>1, <2>2, SignalsKept, Zenon
  <2>7. watch'.violations = {}
    <3>1. ~StreamViolation /\ ~LiteViolation
      BY <2>1, NothingDropped, Zenon
    <3>2. ~ComputeViolation
      BY <2>1, NoLateResult, Zenon
    <3>3. ~(accumulate_count > MAX_ACCUMULATE_CYCLES)
      <4>1. accumulate_count =< MAX_ACCUMULATE_CYCLES
        BY <2>1, ParserInTime, Zenon
      <4>2. accumulate_count \in Nat /\ MAX_ACCUMULATE_CYCLES \in Nat
        BY <2>1 DEF ParserFollows, Gathering, accumulate_count, MAX_ACCUMULATE_CYCLES
      <4> QED
        BY <4>1, <4>2
    <3>4. watch'.violations = watch.violations
                  \cup (IF StreamViolation THEN {"stream"} ELSE {})
                  \cup (IF LiteViolation THEN {"lite"} ELSE {})
                  \cup (IF accumulate_count > MAX_ACCUMULATE_CYCLES THEN {"parser"} ELSE {})
                  \cup (IF ComputeViolation THEN {"dot product"} ELSE {})
      BY <2>1, Zenon DEF V1Edge, Checkers
    <3>5. watch.violations = {}
      BY Zenon DEF V1Inv
    <3>6. watch'.violations = {} \cup {} \cup {} \cup {} \cup {}
      BY <3>1, <3>2, <3>3, <3>4, <3>5, Zenon
    <3> QED
      BY <3>6
  <2> QED
    BY <2>2, <2>3, <2>4, <2>5, <2>6, <2>7, Zenon DEF V1Inv
<1>2. ASSUME UNCHANGED v1BenchVars PROVE V1Inv'
  <2>1. UNCHANGED v1BenchVars
    BY <1>2
  <2> QED
    BY <2>1 DEF v1BenchVars, dutVars, V1Inv, Sequenced, Computes, Fed, CallsInv, Heard, CallStands,
          CallBegins, Silent, Unheard, MessageSent, WriteTaken, ReadAsked, ParserFollows,
          Gathering, Settling, SignalsHeld
<1> QED
  BY <1>1, <1>2, Zenon DEF CocotbBenchNext, benchVars

LEMMA V1Always == CocotbBenchSpec => []V1Inv
<1>1. CocotbBenchInit => V1Inv
  BY V1Starts DEF CocotbBenchInit
<1>2. V1Inv /\ [CocotbBenchNext]_benchVars => V1Inv'
  BY V1Kept
<1> QED
  BY <1>1, <1>2, PTL DEF CocotbBenchSpec

LEMMA V1Shows == V1Inv => ObserversRight
<1> SUFFICES ASSUME V1Inv PROVE ObserversRight
  OBVIOUS
<1>1. watch.violations = {} /\ Heard
  BY Zenon DEF V1Inv, CallsInv
<1>2. ASSUME NEW kind \in {"messages", "writes", "reads"} PROVE seen[kind] = done[kind]
  BY <1>1 DEF Heard
<1> QED
  BY <1>1, <1>2, Zenon DEF ObserversRight

\* No checker of lliu_top's benches reports a violation of a design that works,
\* and the passive monitors have recorded exactly the messages, writes and reads
\* that the drivers have completed, in their order: for any weights, prices and
\* sample files, and any delays between messages.
THEOREM ObserversAreRight == CocotbBenchSpec => []ObserversRight
BY V1Always, V1Shows, PTL

-----------------------------------------------------------------------------
(* The scoreboard.  Results come at a fixed distance from their messages,   *)
(* and a test never has two of them on their way, so that where a test is,  *)
(* and how far its last message has come, say what each register of the     *)
(* design holds: 36 edges from the last beat to the result, and the weights *)
(* as far as they are written.  Each call of a test takes it to the next    *)
(* phase, and what it reads is the result of the message it waits for.      *)

\* What is on its way of message n, t edges before its result is out: 36 edges
\* before, the parser has all of it; with t = 0 nothing is on its way.
Feats(n) == [k \in 1 .. 4 |-> [msg |-> n, val |-> Dut!mag_to_bf16(Raw(n)[k])]]
Stage(n) == [msg |-> n, val |-> Raw(n)]

InFront(n, t) ==
  /\ IF t = 36 THEN parser.state = "EMIT" /\ parser.msg = AddOrder(n)
     ELSE ~(parser.state = "EMIT" /\ parser.msg.type = "A")
  /\ fields = IF t = 35 THEN AddOrder(n) ELSE NoMsg
  /\ fx1 = IF t = 34 THEN Stage(n) ELSE NoMsg
  /\ fx2 = IF t = 33 THEN Stage(n) ELSE NoMsg
  /\ IF t = 32 THEN feat_valid = TRUE ELSE feat_valid = FALSE
  /\ t \in 27 .. 32 => features = Feats(n)
  /\ IF t >= 35 THEN last_price = LastPrice(n - 1) /\ order_flow = (n - 1) % 2
     ELSE last_price = LastPrice(n) /\ order_flow = n % 2

InSequencer(n, t) ==
  /\ seq_state = IF t = 31 THEN "PRELOAD" ELSE IF t \in 27 .. 30 THEN "FEED" ELSE "IDLE"
  /\ t = 31 => seq_idx = 0
  /\ t \in 27 .. 30 => seq_idx = 30 - t
  /\ IF t \in 26 .. 29 THEN dp_feature_valid = TRUE ELSE dp_feature_valid = FALSE
  /\ t \in 26 .. 29 => /\ dp_feature_in = Feats(n)[30 - t]
                       /\ wgt_rd_data = Loaded(30 - t)

\* An adder of the engine, e edges after x began to be added to nothing.
AddsOne(a, x, e) ==
  /\ \A i \in 1 .. 5 : a.en[i] <=> i = e
  /\ \A i \in 1 .. 4 : i = e => a.stage[i] = x
  /\ e = 5 => a.partial = x
  /\ a.reg = IF e > 5 THEN x ELSE << >>

\* The merging one, d edges after the first sum was looked at.
Sums(n, k) == IF k < 2 THEN <<Times(n, k + 1)>> ELSE <<Times(n, k - 1), Times(n, k + 1)>>
AddsAll(a, n, d) ==
  /\ \A i \in 1 .. 5 : a.en[i] <=> \E k \in 0 .. 3 : d = 4 * k + 1 + i
  /\ \A i \in 1 .. 4 : \A k \in 0 .. 3 : d = 4 * k + 1 + i => a.stage[i] = Sums(n, k)
  /\ \A k \in 0 .. 3 : d = 4 * k + 6 => a.partial = Sums(n, k)
  /\ d < 7 => a.reg = << >>
  /\ \A k \in 0 .. 3 : d \in 4 * k + 7 .. 4 * k + 10 => a.reg = Sums(n, k)

\* The engine, s edges after its start.
Steps(s) ==
  /\ dpe_state = IF s =< 11 THEN "STREAM" ELSE IF s =< 29 THEN "DRAIN" ELSE "DONE"
  /\ IF s = 1 THEN dpe_clear = TRUE ELSE dpe_clear = FALSE
  /\ IF s >= 6 THEN dpe_last_fed = TRUE ELSE dpe_last_fed = FALSE
  /\ s \in 1 .. 5 => dpe_elem = IF s = 1 THEN 0 ELSE s - 2
  /\ s \in 6 .. 11 => dpe_drain = s - 6
  /\ s \in 12 .. 29 => dpe_cnt = s - 12
Multiplies(n, s) ==
  /\ \A k \in 1 .. 4 : s = k + 2 => dpe_mul[1] = <<Times(n, k)>>
  /\ \A k \in 1 .. 4 : s = k + 3 => dpe_mul[2] = <<Times(n, k)>>
  /\ dpe_pipe[1] = IF s \in 3 .. 6 THEN s - 3 ELSE -1
  /\ s > 1 => dpe_pipe[2] = IF s \in 4 .. 7 THEN s - 4 ELSE -1
SumsUp(n, s) ==
  /\ \A k \in 0 .. 3 : AddsOne(dpe_accs[k], <<Times(n, k + 1)>>, s - 4 - k)
  /\ IF s \in {13, 17, 21, 25} THEN dpe_merge_r.en = TRUE ELSE dpe_merge_r.en = FALSE
  /\ \A k \in 0 .. 3 : s = 13 + 4 * k => dpe_merge_r.addend = <<Times(n, k + 1)>>
  /\ AddsAll(dpe_merge, n, s - 12)
InEngine(n, t) ==
  IF t \notin 1 .. 30 THEN dpe_state = "IDLE"
  ELSE Steps(31 - t) /\ Multiplies(n, 31 - t) /\ (t < 30 => SumsUp(n, 31 - t))

InBuffer(n, t) ==
  /\ IF n > 1 \/ (n = 1 /\ t = 0) THEN result_ready = TRUE ELSE result_ready = FALSE
  /\ t = 0 /\ n > 0 => result_out = Judged(n)

Carries(n, t) == InFront(n, t) /\ InSequencer(n, t) /\ InEngine(n, t) /\ InBuffer(n, t)

-----------------------------------------------------------------------------
\* What an edge makes of an adder a that is not cleared.
Shifts(a, en, addend, b) ==
  /\ b.en[1] <=> en
  /\ \A i \in 2 .. 5, j \in 1 .. 4 : i = j + 1 => (b.en[i] <=> a.en[j])
  /\ en => b.stage[1] = Dut!Dpe!Feedback(a) \o addend
  /\ \A i \in 2 .. 4, j \in 1 .. 3 : i = j + 1 /\ a.en[j] => b.stage[i] = a.stage[j]
  /\ b.partial = IF a.en[4] THEN a.stage[4] ELSE a.partial
  /\ b.reg = IF a.en[5] THEN a.partial ELSE a.reg

LEMMA AdderMoves ==
  ASSUME NEW a, NEW en, NEW addend
  PROVE  Shifts(a, en, addend, Dut!Dpe!AccStep(a, en, addend, FALSE))
<1> DEFINE b == Dut!Dpe!AccStep(a, en, addend, FALSE)
<1>1. /\ b.en = [i \in 1 .. 5 |-> IF i = 1 THEN en ELSE a.en[i - 1]]
      /\ b.stage = [i \in 1 .. 4 |->
           IF i = 1 THEN IF en THEN Dut!Dpe!Feedback(a) \o addend ELSE a.stage[1]
           ELSE IF a.en[i - 1] THEN a.stage[i - 1] ELSE a.stage[i]]
      /\ b.partial = IF a.en[4] THEN a.stage[4] ELSE a.partial
      /\ b.reg = IF a.en[5] THEN a.partial ELSE a.reg
  BY DEF Dut!Dpe!AccStep
<1> HIDE DEF b
<1>2. 1 \in 1 .. 5 /\ 1 \in 1 .. 4
  OBVIOUS
<1>3. b.en[1] <=> en
  BY <1>1, <1>2, Zenon
<1>4. ASSUME NEW i \in 2 .. 5, NEW j \in 1 .. 4, i = j + 1 PROVE b.en[i] <=> a.en[j]
  <2>1. i \in 1 .. 5 /\ i # 1 /\ i - 1 = j
    BY <1>4
  <2> QED
    BY <1>1, <2>1, Zenon
<1>5. en => b.stage[1] = Dut!Dpe!Feedback(a) \o addend
  BY <1>1, <1>2, Zenon
<1>6. ASSUME NEW i \in 2 .. 4, NEW j \in 1 .. 3, i = j + 1, a.en[j] PROVE b.stage[i] = a.stage[j]
  <2>1. i \in 1 .. 4 /\ i # 1 /\ i - 1 = j
    BY <1>6
  <2>2. a.en[i - 1] /\ a.stage[i - 1] = a.stage[j]
    BY <1>6, <2>1, Zenon
  <2> QED
    BY <1>1, <2>1, <2>2, Zenon
<1>7. Shifts(a, en, addend, b)
  BY <1>1, <1>3, <1>4, <1>5, <1>6, Zenon DEF Shifts
<1> QED
  BY <1>7, Zenon DEF b

\* An adder to which x is added once.
LEMMA AddsOneMore ==
  ASSUME NEW a, NEW p, NEW x, x = <<p>>, NEW e \in Int, NEW f \in Int, f = e + 1, AddsOne(a, x, e),
         NEW en, en <=> e = 0, NEW addend, en => addend = x, NEW b, Shifts(a, en, addend, b)
  PROVE  AddsOne(b, x, f)
BY DEF Shifts, AddsOne, Dut!Dpe!Feedback

LEMMA TwoOnes == ASSUME NEW X, NEW a \in X, NEW b \in X PROVE <<a>> \o <<b>> = <<a, b>>
<1>1. <<a>> \in Seq(X) /\ <<b>> \in Seq(X)
  OBVIOUS
<1>2. PICK s \in Seq(X) : s = <<a>> /\ Len(s) = 1 /\ s[1] = a
  BY <1>1
<1>3. PICK t \in Seq(X) : t = <<b>> /\ Len(t) = 1 /\ t[1] = b
  BY <1>1
<1>4. /\ s \o t \in Seq(X) /\ Len(s \o t) = Len(s) + Len(t)
      /\ \A i \in 1 .. Len(s) + Len(t) : (s \o t)[i] = IF i <= Len(s) THEN s[i] ELSE t[i - Len(s)]
  BY ConcatProperties, Zenon
<1>5. PICK u \in Seq(X) : u = s \o t
  BY <1>4, Zenon
<1>6. Len(u) = 2 /\ u[1] = a /\ u[2] = b
  BY <1>2, <1>3, <1>4, <1>5
<1>7. PICK v \in Seq(X) : v = <<a, b>> /\ Len(v) = 2 /\ v[1] = a /\ v[2] = b
  <2>1. <<a, b>> \in Seq(X)
    OBVIOUS
  <2>2. Len(<<a, b>>) = 2 /\ <<a, b>>[1] = a /\ <<a, b>>[2] = b
    OBVIOUS
  <2> QED
    BY <2>1, <2>2, Zenon
<1>8. \A i \in 1 .. Len(u) : u[i] = v[i]
  BY <1>6, <1>7
<1>9. u = v
  BY <1>6, <1>7, <1>8, SeqEqual
<1> QED
  BY <1>2, <1>3, <1>5, <1>7, <1>9, Zenon

LEMMA SumsNext ==
  ASSUME NEW n, NEW k \in 0 .. 3
  PROVE  /\ k < 2 => << >> \o <<Times(n, k + 1)>> = Sums(n, k)
         /\ \A j \in 0 .. 1 : j = k - 2 => Sums(n, j) \o <<Times(n, k + 1)>> = Sums(n, k)
<1>1. ASSUME k < 2 PROVE << >> \o <<Times(n, k + 1)>> = Sums(n, k)
  BY <1>1 DEF Sums
<1>2. ASSUME NEW j \in 0 .. 1, j = k - 2 PROVE Sums(n, j) \o <<Times(n, k + 1)>> = Sums(n, k)
  <2>1. PICK x : x = Times(n, k + 1)
    OBVIOUS
  <2>2. PICK y : y = Times(n, j + 1) /\ y = Times(n, k - 1)
    BY <1>2
  <2>3. Sums(n, j) = <<y>> /\ Sums(n, k) = <<y, x>>
    BY <1>2, <2>1, <2>2 DEF Sums
  <2>4. <<y>> \o <<x>> = <<y, x>>
    <3>1. x \in {x, y} /\ y \in {x, y}
      OBVIOUS
    <3> QED
      BY <3>1, TwoOnes, Zenon
  <2> QED
    BY <2>1, <2>3, <2>4, Zenon
<1> QED
  BY <1>1, <1>2

\* The adder of the four sums: every sum is added to the last but one.
LEMMA AddsAllMore ==
  ASSUME NEW n, NEW d \in Int, NEW f \in Int, f = d + 1, NEW a, AddsAll(a, n, d),
         NEW en, en <=> \E k \in 0 .. 3 : d = 4 * k + 1,
         NEW addend, \A k \in 0 .. 3 : d = 4 * k + 1 => addend = <<Times(n, k + 1)>>,
         NEW b, Shifts(a, en, addend, b)
  PROVE  AddsAll(b, n, f)
<1>1. /\ b.en[1] <=> en
      /\ \A i \in 2 .. 5, j \in 1 .. 4 : i = j + 1 => (b.en[i] <=> a.en[j])
  BY Zenon DEF Shifts
<1>2. /\ en => b.stage[1] = Dut!Dpe!Feedback(a) \o addend
      /\ \A i \in 2 .. 4, j \in 1 .. 3 : i = j + 1 /\ a.en[j] => b.stage[i] = a.stage[j]
  BY Zenon DEF Shifts
<1>3. /\ b.partial = IF a.en[4] THEN a.stage[4] ELSE a.partial
      /\ b.reg = IF a.en[5] THEN a.partial ELSE a.reg
  BY Zenon DEF Shifts
<1>4. \A i \in 1 .. 5 : a.en[i] <=> \E k \in 0 .. 3 : d = 4 * k + 1 + i
  BY Zenon DEF AddsAll
<1>5. \A i \in 1 .. 4 : \A k \in 0 .. 3 : d = 4 * k + 1 + i => a.stage[i] = Sums(n, k)
  BY Zenon DEF AddsAll
<1>6. /\ \A k \in 0 .. 3 : d = 4 * k + 6 => a.partial = Sums(n, k)
      /\ d < 7 => a.reg = << >>
      /\ \A k \in 0 .. 3 : d \in 4 * k + 7 .. 4 * k + 10 => a.reg = Sums(n, k)
  BY Zenon DEF AddsAll
<1>7. a.en[5] <=> \E k \in 0 .. 3 : d = 4 * k + 6
  <2>1. 5 \in 1 .. 5 /\ \A k \in 0 .. 3 : 4 * k + 1 + 5 = 4 * k + 6
    OBVIOUS
  <2> QED
    BY <1>4, <2>1, Zenon
<1>8. ASSUME NEW i \in 1 .. 5 PROVE b.en[i] <=> \E k \in 0 .. 3 : f = 4 * k + 1 + i
  <2>1. CASE i = 1
    <3>1. \A k \in 0 .. 3 : f = 4 * k + 1 + i <=> d = 4 * k + 1
      BY <2>1
    <3> QED
      BY <1>1, <2>1, <3>1, Zenon
  <2>2. CASE i # 1
    <3>1. PICK j \in 1 .. 4 : i = j + 1
      BY <2>2
    <3>2. i \in 2 .. 5 /\ j \in 1 .. 5 /\ \A k \in 0 .. 3 : f = 4 * k + 1 + i <=> d = 4 * k + 1 + j
      BY <2>2, <3>1
    <3>3. b.en[i] <=> a.en[j]
      BY <1>1, <3>1, <3>2, Zenon
    <3>4. a.en[j] <=> \E k \in 0 .. 3 : d = 4 * k + 1 + j
      BY <1>4, <3>2, Zenon
    <3> QED
      BY <3>2, <3>3, <3>4, Zenon
  <2> QED
    BY <2>1, <2>2
<1>9. ASSUME NEW i \in 1 .. 4, NEW k \in 0 .. 3, f = 4 * k + 1 + i PROVE b.stage[i] = Sums(n, k)
  <2>1. CASE i = 1
    <3>1. d = 4 * k + 1 /\ (k < 2 => d < 7) /\ ~\E j \in 0 .. 3 : d = 4 * j + 6
      BY <1>9, <2>1
    <3>2. en /\ addend = <<Times(n, k + 1)>>
      BY <3>1, Zenon
    <3>3. b.stage[1] = a.reg \o <<Times(n, k + 1)>>
      BY <1>2, <1>7, <3>1, <3>2, Zenon DEF Dut!Dpe!Feedback
    <3>4. CASE k < 2
      BY <1>6, <2>1, <3>1, <3>3, <3>4, SumsNext, Zenon
    <3>5. CASE ~(k < 2)
      <4>1. PICK j \in 0 .. 1 : j = k - 2
        BY <3>5
      <4>2. j \in 0 .. 3 /\ d \in 4 * j + 7 .. 4 * j + 10
        BY <3>1, <4>1
      <4>3. a.reg = Sums(n, j)
        BY <1>6, <4>2, Zenon
      <4>4. Sums(n, j) \o <<Times(n, k + 1)>> = Sums(n, k)
        BY <4>1, SumsNext, Zenon
      <4> QED
        BY <2>1, <3>3, <4>3, <4>4, Zenon
    <3> QED
      BY <3>4, <3>5, Zenon
  <2>2. CASE i # 1
    <3>1. PICK j \in 1 .. 3 : i = j + 1
      BY <2>2
    <3>2. i \in 2 .. 4 /\ j \in 1 .. 4 /\ j \in 1 .. 5 /\ d = 4 * k + 1 + j
      BY <1>9, <2>2, <3>1
    <3>3. a.en[j] /\ a.stage[j] = Sums(n, k)
      BY <1>4, <1>5, <3>2, Zenon
    <3> QED
      BY <1>2, <3>1, <3>2, <3>3, Zenon
  <2> QED
    BY <2>1, <2>2
<1>10. ASSUME NEW k \in 0 .. 3, f = 4 * k + 6 PROVE b.partial = Sums(n, k)
  <2>1. 4 \in 1 .. 4 /\ 4 \in 1 .. 5 /\ d = 4 * k + 1 + 4
    BY <1>10
  <2> QED
    BY <1>3, <1>4, <1>5, <2>1, Zenon
<1>11. ASSUME f < 7 PROVE b.reg = << >>
  <2>1. d < 7 /\ ~\E j \in 0 .. 3 : d = 4 * j + 6
    BY <1>11
  <2> QED
    BY <1>3, <1>6, <1>7, <2>1, Zenon
<1>12. ASSUME NEW k \in 0 .. 3, f \in 4 * k + 7 .. 4 * k + 10 PROVE b.reg = Sums(n, k)
  <2>1. CASE d = 4 * k + 6
    BY <1>3, <1>6, <1>7, <2>1, Zenon
  <2>2. CASE d # 4 * k + 6
    <3>1. d \in 4 * k + 7 .. 4 * k + 10 /\ ~\E j \in 0 .. 3 : d = 4 * j + 6
      BY <1>12, <2>2
    <3> QED
      BY <1>3, <1>6, <1>7, <3>1, Zenon
  <2> QED
    BY <2>1, <2>2
<1> QED
  BY <1>8, <1>9, <1>10, <1>11, <1>12, Zenon DEF AddsAll

\* What one edge does to the engine, as far as its state goes.
EngineEdge(start, valid, product) ==
  /\ Dut!Dpe!Datapath(valid, product)
  /\ Dut!Dpe!IdleState(start) \/ Dut!Dpe!StreamFeed(valid)
        \/ Dut!Dpe!StreamDrain \/ Dut!Dpe!DrainState \/ Dut!Dpe!DoneState

Fetched == [msg |-> dp_feature_in.msg, val |-> dp_feature_in.val * wgt_rd_data]

LEMMA EngineMoves == V1Edge => EngineEdge(dp_start, dp_feature_valid, Fetched)
BY Zenon DEF V1Edge, Dut!Clock, Dut!Dpe!DpeClock, EngineEdge, Fetched

\* The next element is fed at each edge from the second on.
Feeding(s) == IF s \in 2 .. 5 THEN dp_feature_valid = TRUE ELSE dp_feature_valid = FALSE

LEMMA StepsOn ==
  ASSUME NEW s \in 1 .. 29, NEW u \in 2 .. 30, u = s + 1, Steps(s), Feeding(s), V1Edge
  PROVE  Steps(u)'
<1> DEFINE fv == dp_feature_valid
<1>1. Dut!Dpe!IdleState(dp_start) \/ Dut!Dpe!StreamFeed(fv)
        \/ Dut!Dpe!StreamDrain \/ Dut!Dpe!DrainState \/ Dut!Dpe!DoneState
  BY EngineMoves, Zenon DEF EngineEdge
<1>2. dpe_state = IF s =< 11 THEN "STREAM" ELSE IF s =< 29 THEN "DRAIN" ELSE "DONE"
  BY Zenon DEF Steps
<1>3. CASE s \in 1 .. 5
  BY <1>1, <1>2, <1>3 DEF Steps, Dut!Dpe!IdleState, Dut!Dpe!StreamDrain, Dut!Dpe!DrainState,
       Dut!Dpe!DoneState, Dut!Dpe!StreamFeed, Feeding, Dut!FEATURE_VEC_LEN
<1>4. CASE s \in 6 .. 11
  BY <1>1, <1>2, <1>4 DEF Steps, Dut!Dpe!IdleState, Dut!Dpe!StreamFeed, Dut!Dpe!DrainState,
       Dut!Dpe!DoneState, Dut!Dpe!StreamDrain, Dut!Dpe!StreamDrained
<1>5. CASE s \in 12 .. 29
  BY <1>1, <1>2, <1>5 DEF Steps, Dut!Dpe!IdleState, Dut!Dpe!StreamFeed, Dut!Dpe!StreamDrain,
       Dut!Dpe!DoneState, Dut!Dpe!DrainState, Dut!Dpe!DrainExit, Dut!Dpe!DrainLastEn,
       Dut!Dpe!NumAccsUsed, Dut!Dpe!MergeStep, Dut!FEATURE_VEC_LEN
<1> QED
  BY <1>3, <1>4, <1>5

LEMMA EngineBegins ==
  ASSUME dpe_state = "IDLE", dp_start = TRUE, V1Edge
  PROVE  Steps(1)' /\ dpe_pipe'[1] = -1
BY EngineMoves DEF EngineEdge, Dut!Dpe!StreamFeed, Dut!Dpe!StreamDrain, Dut!Dpe!DrainState,
     Dut!Dpe!DoneState, Dut!Dpe!IdleState, Dut!Dpe!StartClears, Dut!Dpe!Datapath,
     Dut!Dpe!Feeds, Dut!Dpe!NoElem, Steps

LEMMA EngineIdles ==
  ASSUME dpe_state = "IDLE", dp_start = FALSE, V1Edge PROVE dpe_state' = "IDLE"
BY EngineMoves DEF EngineEdge, Dut!Dpe!StreamFeed, Dut!Dpe!StreamDrain, Dut!Dpe!DrainState,
     Dut!Dpe!DoneState, Dut!Dpe!IdleState

LEMMA EngineEnds ==
  ASSUME dpe_state = "DONE", V1Edge PROVE dpe_state' = "IDLE"
BY EngineMoves DEF EngineEdge, Dut!Dpe!StreamFeed, Dut!Dpe!StreamDrain, Dut!Dpe!DrainState,
     Dut!Dpe!IdleState, Dut!Dpe!DoneState

LEMMA TheData ==
  ASSUME V1Edge, NEW valid, valid = dp_feature_valid
  PROVE  /\ dpe_mul' = <<IF Dut!Dpe!Feeds(valid) THEN <<Fetched>> ELSE << >>, dpe_mul[1]>>
         /\ dpe_pipe' = <<IF Dut!Dpe!Feeds(valid) THEN dpe_elem ELSE -1, dpe_pipe[1]>>
         /\ dpe_accs' = [i \in 0 .. 4 |->
              Dut!Dpe!AccStep(dpe_accs[i], dpe_pipe[2] # -1 /\ dpe_pipe[2] % 5 = i, dpe_mul[2], dpe_clear)]
         /\ dpe_merge' = Dut!Dpe!AccStep(dpe_merge, dpe_merge_r.en, dpe_merge_r.addend, dpe_clear)
         /\ dpe_merge_r' = [en |-> dpe_state = "DRAIN" /\ Dut!Dpe!Merging,
                            addend |-> IF Dut!Dpe!Merging
                              THEN dpe_accs[dpe_cnt \div 4].reg ELSE << >>]
BY EngineMoves, Zenon DEF EngineEdge, Dut!Dpe!Datapath, Dut!Dpe!NoElem, Dut!Dpe!Zero, Dut!Dpe!Accs, Dut!Dpe!MergeStep

LEMMA ProductIs ==
  ASSUME NEW n, NEW k \in 1 .. 4, dp_feature_in = Feats(n)[k], wgt_rd_data = Loaded(k)
  PROVE  Fetched = Times(n, k)
BY DEF Feats, Fetched, Times

\* What is fed at edge s after the start.
Feeds(n, s) == s \in 2 .. 5 => dp_feature_in = Feats(n)[s - 1] /\ wgt_rd_data = Loaded(s - 1)

LEMMA MultipliesOn ==
  ASSUME NEW n, NEW s \in 1 .. 29, NEW u \in 2 .. 30, u = s + 1, Steps(s), Feeding(s),
         Feeds(n, s), Multiplies(n, s), V1Edge
  PROVE  Multiplies(n, u)'
BY TheData, ProductIs DEF Dut!Dpe!Feeds, Steps, Feeding, Feeds, Multiplies

\* The clear of the edge before leaves nothing in any adder.
LEMMA ClearedAddsOne ==
  ASSUME NEW x, NEW e \in Int, e =< 0 PROVE AddsOne(Dut!Dpe!ClearedAcc, x, e)
BY DEF Dut!Dpe!ClearedAcc, Dut!Dpe!Zero, AddsOne

LEMMA ClearedAddsAll ==
  ASSUME NEW n, NEW d \in Int, d < 2 PROVE AddsAll(Dut!Dpe!ClearedAcc, n, d)
BY DEF Dut!Dpe!ClearedAcc, Dut!Dpe!Zero, AddsAll

LEMMA SumsBegin ==
  ASSUME NEW n, Steps(1), V1Edge PROVE SumsUp(n, 2)'
<1>1. dpe_clear = TRUE /\ dpe_state = "STREAM"
  BY DEF Steps
<1>2. PICK valid : valid = dp_feature_valid
  OBVIOUS
<1>3. /\ dpe_accs' = [i \in 0 .. 4 |->
              Dut!Dpe!AccStep(dpe_accs[i], dpe_pipe[2] # -1 /\ dpe_pipe[2] % 5 = i, dpe_mul[2], dpe_clear)]
      /\ dpe_merge' = Dut!Dpe!AccStep(dpe_merge, dpe_merge_r.en, dpe_merge_r.addend, dpe_clear)
      /\ dpe_merge_r' = [en |-> dpe_state = "DRAIN" /\ Dut!Dpe!Merging,
                            addend |-> IF Dut!Dpe!Merging
                              THEN dpe_accs[dpe_cnt \div 4].reg ELSE << >>]
  BY <1>2, TheData, Zenon
<1>4. \A a, en, x : Dut!Dpe!AccStep(a, en, x, dpe_clear) = Dut!Dpe!ClearedAcc
  BY <1>1, Zenon DEF Dut!Dpe!AccStep
<1>5. dpe_merge' = Dut!Dpe!ClearedAcc /\ \A k \in 0 .. 3 : dpe_accs'[k] = Dut!Dpe!ClearedAcc
  BY <1>3, <1>4
<1>6. dpe_merge_r'.en = FALSE
  BY <1>1, <1>3
<1>7. \A k \in 0 .. 3 : AddsOne(dpe_accs'[k], <<Times(n, k + 1)>>, 2 - 4 - k)
  BY <1>5, ClearedAddsOne
<1>8. AddsAll(dpe_merge', n, 2 - 12)
  BY <1>5, ClearedAddsAll
<1>9. 2 \notin {13, 17, 21, 25} /\ \A k \in 0 .. 3 : 2 # 13 + 4 * k
  OBVIOUS
<1> QED
  BY <1>6, <1>7, <1>8, <1>9, Zenon DEF SumsUp

LEMMA AccsOn ==
  ASSUME NEW n, NEW s \in 2 .. 29, NEW u \in 3 .. 30, u = s + 1, Steps(s), Multiplies(n, s),
         SumsUp(n, s), V1Edge, NEW k \in 0 .. 3
  PROVE  AddsOne(dpe_accs'[k], <<Times(n, k + 1)>>, u - 4 - k)
<1>1. PICK valid : valid = dp_feature_valid
  OBVIOUS
<1>2. dpe_accs' = [i \in 0 .. 4 |->
         Dut!Dpe!AccStep(dpe_accs[i], dpe_pipe[2] # -1 /\ dpe_pipe[2] % 5 = i, dpe_mul[2], dpe_clear)]
  BY <1>1, TheData, Zenon
<1>3. dpe_clear = FALSE
  BY DEF Steps
<1>4. PICK a : a = dpe_accs[k]
  OBVIOUS
<1>5. PICK q : q = dpe_pipe[2]
  OBVIOUS
<1>6. PICK m : m = dpe_mul[2]
  OBVIOUS
<1>7. PICK p : p = Times(n, k + 1)
  OBVIOUS
<1>8. PICK e \in Int : e = s - 4 - k
  OBVIOUS
<1>9. PICK f \in Int : f = u - 4 - k /\ f = e + 1
  BY <1>8
<1>10. q = IF s \in 4 .. 7 THEN s - 4 ELSE -1
  BY <1>5 DEF Multiplies
<1>11. (q # -1 /\ q % 5 = k) <=> e = 0
  BY <1>8, <1>10
<1>12. e = 0 => m = <<p>>
  BY <1>6, <1>7, <1>8 DEF Multiplies
<1>13. AddsOne(a, <<p>>, e)
  BY <1>4, <1>7, <1>8, Zenon DEF SumsUp
<1>14. PICK en \in BOOLEAN : en = (q # -1 /\ q % 5 = k)
  OBVIOUS
<1>15. PICK b : b = Dut!Dpe!AccStep(a, en, m, FALSE)
  OBVIOUS
<1>16. Shifts(a, en, m, b)
  BY <1>15, AdderMoves, Zenon
<1>17. dpe_accs'[k] = b
  <2>1. k \in 0 .. 4
    OBVIOUS
  <2>2. dpe_accs'[k] = Dut!Dpe!AccStep(dpe_accs[k], dpe_pipe[2] # -1 /\ dpe_pipe[2] % 5 = k, dpe_mul[2], dpe_clear)
    BY <1>2, <2>1, Zenon
  <2> QED
    BY <1>3, <1>4, <1>5, <1>6, <1>14, <1>15, <2>2, Zenon
<1>18. PICK x : x = <<p>>
  OBVIOUS
<1>19. (en <=> e = 0) /\ (en => m = x) /\ AddsOne(a, x, e)
  BY <1>11, <1>12, <1>13, <1>14, <1>18, Zenon
<1>20. AddsOne(b, x, f)
  BY <1>9, <1>16, <1>18, <1>19, AddsOneMore, Zenon
<1> QED
  BY <1>7, <1>9, <1>17, <1>18, <1>20, Zenon

LEMMA MergingOn ==
  ASSUME NEW n, NEW s \in 2 .. 29, NEW u \in 3 .. 30, u = s + 1, Steps(s),
         SumsUp(n, s), V1Edge
  PROVE  AddsAll(dpe_merge', n, u - 12)
<1>1. PICK valid : valid = dp_feature_valid
  OBVIOUS
<1>2. dpe_merge' = Dut!Dpe!AccStep(dpe_merge, dpe_merge_r.en, dpe_merge_r.addend, dpe_clear)
  BY <1>1, TheData, Zenon
<1>3. dpe_clear = FALSE
  BY DEF Steps
<1>4. PICK a : a = dpe_merge
  OBVIOUS
<1>5. PICK en : en = dpe_merge_r.en
  OBVIOUS
<1>6. PICK m : m = dpe_merge_r.addend
  OBVIOUS
<1>7. PICK d \in Int : d = s - 12
  OBVIOUS
<1>8. PICK f \in Int : f = u - 12 /\ f = d + 1
  BY <1>7
<1>9. (en = TRUE) <=> \E k \in 0 .. 3 : d = 4 * k + 1
  BY <1>5, <1>7 DEF SumsUp
<1>10. en = TRUE \/ en = FALSE
  BY <1>5, Zenon DEF SumsUp
<1>11. ASSUME NEW k \in 0 .. 3, d = 4 * k + 1 PROVE m = <<Times(n, k + 1)>>
  BY <1>6, <1>7, <1>11 DEF SumsUp
<1>12. AddsAll(a, n, d)
  BY <1>4, <1>7, Zenon DEF SumsUp
<1>13. PICK b : b = Dut!Dpe!AccStep(a, en, m, FALSE)
  OBVIOUS
<1>14. Shifts(a, en, m, b)
  BY <1>13, AdderMoves, Zenon
<1>15. dpe_merge' = b
  BY <1>2, <1>3, <1>4, <1>5, <1>6, <1>13, Zenon
<1>16. en <=> \E k \in 0 .. 3 : d = 4 * k + 1
  BY <1>9, <1>10, Zenon
<1>17. AddsAll(b, n, f)
  BY <1>8, <1>11, <1>12, <1>14, <1>16, AddsAllMore, Zenon
<1> QED
  BY <1>8, <1>15, <1>17, Zenon

LEMMA MergeRegisterOn ==
  ASSUME NEW n, NEW s \in 2 .. 29, NEW u \in 3 .. 30, u = s + 1, Steps(s),
         SumsUp(n, s), V1Edge
  PROVE  /\ IF u \in {13, 17, 21, 25} THEN dpe_merge_r'.en = TRUE ELSE dpe_merge_r'.en = FALSE
         /\ \A k \in 0 .. 3 : u = 13 + 4 * k => dpe_merge_r'.addend = <<Times(n, k + 1)>>
<1>1. PICK valid : valid = dp_feature_valid
  OBVIOUS
<1>2. dpe_merge_r' = [en |-> dpe_state = "DRAIN" /\ Dut!Dpe!Merging,
                            addend |-> IF Dut!Dpe!Merging
                              THEN dpe_accs[dpe_cnt \div 4].reg ELSE << >>]
  BY <1>1, TheData, Zenon
<1>3. Dut!Dpe!Merging <=> dpe_cnt % 4 = 0 /\ dpe_cnt <= 12
  BY DEF Dut!Dpe!Merging, Dut!Dpe!MergeStep, Dut!Dpe!DrainLastEn, Dut!Dpe!NumAccsUsed, Dut!FEATURE_VEC_LEN
<1>4. PICK g \in BOOLEAN : g = (dpe_state = "DRAIN" /\ Dut!Dpe!Merging)
  OBVIOUS
<1>5. g <=> u \in {13, 17, 21, 25}
  <2>1. CASE s \in 12 .. 29
    <3>1. dpe_cnt = s - 12 /\ dpe_state = "DRAIN"
      BY <2>1 DEF Steps
    <3>2. dpe_cnt % 4 = 0 /\ dpe_cnt <= 12 <=> u \in {13, 17, 21, 25}
      BY <2>1, <3>1
    <3> QED
      BY <1>3, <1>4, <3>1, <3>2, Zenon
  <2>2. CASE s \notin 12 .. 29
    <3>1. dpe_state = "STREAM" /\ u \notin {13, 17, 21, 25}
      BY <2>2 DEF Steps
    <3> QED
      BY <1>4, <3>1
  <2> QED
    BY <2>1, <2>2
<1>6. dpe_merge_r'.en = g
  BY <1>2, <1>4
<1>7. ASSUME NEW k \in 0 .. 3, u = 13 + 4 * k PROVE dpe_merge_r'.addend = <<Times(n, k + 1)>>
  BY <1>2, <1>3, <1>7 DEF Steps, SumsUp, AddsOne
<1> QED
  BY <1>4, <1>5, <1>6, <1>7, Zenon

LEMMA SumsOn ==
  ASSUME NEW n, NEW s \in 2 .. 29, NEW u \in 3 .. 30, u = s + 1, Steps(s), Multiplies(n, s),
         SumsUp(n, s), V1Edge
  PROVE  SumsUp(n, u)'
BY AccsOn, MergingOn, MergeRegisterOn DEF SumsUp

\* All of them are summed up when the engine is done.
LEMMA SumsAreJudged ==
  ASSUME NEW n, SumsUp(n, 30) PROVE Dut!Dpe!result = Judged(n)
BY DEF SumsUp, AddsAll, Sums, Judged, Dut!Dpe!result

\* Nothing more than a message of the bench is at its way through the design.
Nearing(n, t) == n \in 0 .. Len(Prices) /\ t \in 0 .. 36 /\ (t > 0 => n > 0)
Earlier(t) == IF t = 0 THEN 0 ELSE t - 1
OrderEmitted == parser.state = "EMIT" /\ parser.msg.type = "A"

LEMMA PriceIs == ASSUME NEW n \in 1 .. Len(Prices) PROVE Prices[n] \in Int
BY V1Assumption, ElementOfSeq

LEMMA LastPriceIs == ASSUME NEW n \in 0 .. Len(Prices) PROVE LastPrice(n) \in Int
BY PriceIs DEF LastPrice

LEMMA StageIs ==
  ASSUME NEW n \in 1 .. Len(Prices)
  PROVE  /\ Stage(n) # NoMsg /\ AddOrder(n) # NoMsg
         /\ Stage(n).msg = n /\ Stage(n).val = Raw(n)
<1>0. Len(Prices) \in Nat
  BY V1Assumption
<1>1. n \in Nat /\ n - 1 \in 0 .. Len(Prices)
  BY <1>0
<1>2. PICK p \in Int : p = Prices[n]
  BY PriceIs
<1>3. PICK l \in Int : l = LastPrice(n - 1)
  BY <1>1, LastPriceIs
<1>4. PICK r : r = Raw(n)
  OBVIOUS
<1>5. r = <<p - l, IF n % 2 = 1 THEN 1 ELSE -1, n % 2, p>>
  BY <1>2, <1>3, <1>4, Zenon DEF Raw
<1>6. r \in Int \X Int \X Int \X Int
  BY <1>1, <1>5
<1>7. PICK s : s = Stage(n)
  OBVIOUS
<1>8. s = [msg |-> n, val |-> r]
  BY <1>4, <1>7, Zenon DEF Stage
<1>9. s \in [msg : Nat, val : Int \X Int \X Int \X Int] /\ s.msg = n /\ s.val = r
  BY <1>1, <1>6, <1>8
<1>10. AddOrder(n) \in AddOrders
  BY OrderIs
<1> QED
  BY <1>4, <1>7, <1>9, <1>10, V1Assumption

LEMMA OrderFields ==
  ASSUME NEW n \in 1 .. Len(Prices)
  PROVE  /\ AddOrder(n).n = n /\ AddOrder(n).type = "A" /\ AddOrder(n).price = Prices[n]
         /\ AddOrder(n).side = IF n % 2 = 1 THEN "B" ELSE "S"
BY DEF AddOrder, encode_add_order

LEMMA FrontEdge ==
  ASSUME V1Edge
  PROVE  /\ fields' = IF OrderEmitted THEN parser.msg ELSE NoMsg
         /\ fields = NoMsg => fx1' = NoMsg /\ last_price' = last_price /\ order_flow' = order_flow
         /\ fx2' = fx1
         /\ IF fx2 # NoMsg THEN feat_valid' = TRUE ELSE feat_valid' = FALSE
         /\ features' = IF fx2 = NoMsg THEN features
                        ELSE [i \in 1 .. 4 |-> [msg |-> fx2.msg, val |-> Dut!mag_to_bf16(fx2.val[i])]]
BY DEF V1Edge, Dut!Clock, Dut!Extract, OrderEmitted, Dut!FeatureClock, Dut!FEATURE_VEC_LEN

LEMMA FirstStage ==
  ASSUME V1Edge, NEW n \in 1 .. Len(Prices), fields = AddOrder(n),
         last_price = LastPrice(n - 1), order_flow = (n - 1) % 2
  PROVE  fx1' = Stage(n) /\ last_price' = LastPrice(n) /\ order_flow' = n % 2
<1>0. Len(Prices) \in Nat
  BY V1Assumption
<1>1. fields # NoMsg
  BY StageIs, Zenon
<1>2. PICK m : m = fields
  OBVIOUS
<1>3. /\ m.n = n /\ m.price = Prices[n]
      /\ m.side = IF n % 2 = 1 THEN "B" ELSE "S"
  BY <1>2, OrderFields, Zenon
<1>4. PICK side \in Int : side = IF n % 2 = 1 THEN 1 ELSE -1
  OBVIOUS
<1>5. (IF m.side = "B" THEN 1 ELSE -1) = side
  BY <1>3, <1>4
<1>6. Dut!FeatureClock
  BY Zenon DEF V1Edge, Dut!Clock
<1>7. /\ fx1' = [msg |-> m.n, val |-> <<m.price - last_price, side, order_flow + side, m.price>>]
      /\ last_price' = m.price /\ order_flow' = order_flow + side
  BY <1>1, <1>2, <1>5, <1>6, Zenon DEF Dut!FeatureClock
<1>8. order_flow + side = n % 2
  BY <1>0, <1>4
<1>9. LastPrice(n) = Prices[n]
  BY <1>0 DEF LastPrice
<1> QED
  BY <1>3, <1>4, <1>7, <1>8, <1>9, Zenon DEF Stage, Raw

LEMMA FeaturesAre ==
  ASSUME V1Edge, NEW n \in 1 .. Len(Prices), fx2 = Stage(n)
  PROVE  features' = Feats(n)
BY StageIs, FrontEdge DEF Feats

LEMMA FrontOn ==
  ASSUME NEW n, NEW t, Nearing(n, t), InFront(n, t), V1Edge, ~OrderEmitted'
  PROVE  InFront(n, Earlier(t))'
<1>0. Len(Prices) \in Nat
  BY V1Assumption
<1>1. PICK u \in 0 .. 35 : u = Earlier(t)
  BY DEF Nearing, Earlier
<1>2. n \in 0 .. Len(Prices) /\ t \in 0 .. 36 /\ (t = 0 \/ n \in 1 .. Len(Prices))
  BY <1>0 DEF Nearing
<1>3. /\ u = 35 <=> t = 36
      /\ u = 34 <=> t = 35
      /\ u = 33 <=> t = 34
      /\ u = 32 <=> t = 33
      /\ u >= 35 <=> t >= 36
      /\ u \in 27 .. 31 => t \in 27 .. 32
      /\ u # 36
      /\ u \in 27 .. 32 => u = 32 \/ u \in 27 .. 31
  BY <1>1, <1>2 DEF Earlier
<1>4. /\ fields' = IF OrderEmitted THEN parser.msg ELSE NoMsg
      /\ fields = NoMsg => fx1' = NoMsg /\ last_price' = last_price /\ order_flow' = order_flow
      /\ fx2' = fx1
      /\ IF fx2 # NoMsg THEN feat_valid' = TRUE ELSE feat_valid' = FALSE
      /\ features' = IF fx2 = NoMsg THEN features
                     ELSE [i \in 1 .. 4 |-> [msg |-> fx2.msg, val |-> Dut!mag_to_bf16(fx2.val[i])]]
  BY FrontEdge, Zenon
<1>5. fields' = IF u = 35 THEN AddOrder(n) ELSE NoMsg
  BY <1>2, <1>3, <1>4, OrderFields DEF InFront, OrderEmitted
<1>6. /\ fx1' = IF u = 34 THEN Stage(n) ELSE NoMsg
      /\ IF u >= 35 THEN last_price' = LastPrice(n - 1) /\ order_flow' = (n - 1) % 2
         ELSE last_price' = LastPrice(n) /\ order_flow' = n % 2
  BY <1>2, <1>3, <1>4, FirstStage DEF InFront
<1>7. fx2' = IF u = 33 THEN Stage(n) ELSE NoMsg
  BY <1>3, <1>4, Zenon DEF InFront
<1>8. fx2 = IF t = 33 THEN Stage(n) ELSE NoMsg
  BY Zenon DEF InFront
<1>9. t = 33 => n \in 1 .. Len(Prices)
  BY <1>2
<1>10. fx2 # NoMsg <=> t = 33
  BY <1>8, <1>9, StageIs, Zenon
<1>11. IF u = 32 THEN feat_valid' = TRUE ELSE feat_valid' = FALSE
  BY <1>3, <1>4, <1>10, Zenon
<1>12. u \in 27 .. 32 => features' = Feats(n)
  BY <1>1, <1>3, <1>4, <1>8, <1>9, <1>10, FeaturesAre DEF InFront
<1>13. ~(parser'.state = "EMIT" /\ parser'.msg.type = "A")
  BY Zenon DEF OrderEmitted
<1>14. InFront(n, u)'
  BY <1>3, <1>5, <1>6, <1>7, <1>11, <1>12, <1>13, Zenon DEF InFront
<1> QED
  BY <1>1, <1>14, Zenon

AllLoaded == weights = [j \in 0 .. 3 |-> Loaded(j + 1)]

LEMMA SequencerEdge ==
  ASSUME V1Edge
  PROVE  /\ dp_feature_valid' = (seq_state = "FEED")
         /\ dp_feature_in' = IF seq_state = "FEED" THEN features[seq_idx + 1] ELSE dp_feature_in
         /\ seq_state' = IF seq_state = "IDLE" THEN IF feat_valid THEN "PRELOAD" ELSE "IDLE"
                         ELSE IF seq_state = "FEED" /\ seq_idx = 3 THEN "IDLE" ELSE "FEED"
         /\ seq_idx' = IF seq_state = "IDLE" /\ feat_valid THEN 0
                       ELSE IF seq_state = "FEED" /\ seq_idx # 3 THEN seq_idx + 1
                       ELSE seq_idx
         /\ wgt_rd_data' = weights[seq_idx]
BY DEF V1Edge, Dut!Clock, Dut!Memories, Dut!Sequence, Dut!FEATURE_VEC_LEN

LEMMA SequencerOn ==
  ASSUME NEW n, NEW t, Nearing(n, t), InFront(n, t), InSequencer(n, t), V1Edge,
         t > 0 => AllLoaded
  PROVE  InSequencer(n, Earlier(t))'
<1>1. PICK u \in 0 .. 35 : u = Earlier(t)
  BY DEF Nearing, Earlier
<1>2. t \in 0 .. 36 /\ (t > 0 => u = t - 1) /\ (t = 0 => u = 0)
  BY <1>1 DEF Nearing, Earlier
<1>3. /\ dp_feature_valid' = (seq_state = "FEED")
      /\ dp_feature_in' = IF seq_state = "FEED" THEN features[seq_idx + 1] ELSE dp_feature_in
      /\ seq_state' = IF seq_state = "IDLE" THEN IF feat_valid THEN "PRELOAD" ELSE "IDLE"
                      ELSE IF seq_state = "FEED" /\ seq_idx = 3 THEN "IDLE" ELSE "FEED"
      /\ seq_idx' = IF seq_state = "IDLE" /\ feat_valid THEN 0
                    ELSE IF seq_state = "FEED" /\ seq_idx # 3 THEN seq_idx + 1
                    ELSE seq_idx
      /\ wgt_rd_data' = weights[seq_idx]
  BY SequencerEdge, Zenon
<1>4. /\ seq_state = IF t = 31 THEN "PRELOAD" ELSE IF t \in 27 .. 30 THEN "FEED" ELSE "IDLE"
      /\ t = 31 => seq_idx = 0
      /\ t \in 27 .. 30 => seq_idx = 30 - t
  BY DEF InSequencer
<1>5. (IF t = 32 THEN feat_valid = TRUE ELSE feat_valid = FALSE) /\ (t \in 27 .. 32 => features = Feats(n))
  BY Zenon DEF InFront
<1>6. /\ seq_state' = IF u = 31 THEN "PRELOAD" ELSE IF u \in 27 .. 30 THEN "FEED" ELSE "IDLE"
      /\ u = 31 => seq_idx' = 0
      /\ u \in 27 .. 30 => seq_idx' = 30 - u
  BY <1>1, <1>2, <1>3, <1>4, <1>5
<1>7. IF u \in 26 .. 29 THEN dp_feature_valid' = TRUE ELSE dp_feature_valid' = FALSE
  <2>1. (seq_state = "FEED") <=> u \in 26 .. 29
    BY <1>1, <1>2, <1>4
  <2>2. CASE u \in 26 .. 29
    BY <1>3, <2>1, <2>2
  <2>3. CASE u \notin 26 .. 29
    BY <1>3, <2>1, <2>3
  <2> QED
    BY <2>2, <2>3, Zenon
<1>8. ASSUME u \in 26 .. 29
      PROVE  dp_feature_in' = Feats(n)[30 - u] /\ wgt_rd_data' = Loaded(30 - u)
  BY <1>2, <1>3, <1>4, <1>5, <1>8 DEF AllLoaded
<1>9. InSequencer(n, u)'
  BY <1>6, <1>7, <1>8, Zenon DEF InSequencer
<1> QED
  BY <1>1, <1>9, Zenon

LEMMA EngineOn ==
  ASSUME NEW n, NEW t, Nearing(n, t), InSequencer(n, t), InEngine(n, t), Sequenced, V1Edge
  PROVE  InEngine(n, Earlier(t))'
<1>1. PICK u \in 0 .. 35 : u = Earlier(t)
  BY DEF Nearing, Earlier
<1>2. t \in 0 .. 36 /\ (t > 0 => u = t - 1) /\ (t = 0 => u = 0)
  BY <1>1 DEF Nearing, Earlier
<1>3. IF t = 31 THEN dp_start = TRUE ELSE dp_start = FALSE
  BY <1>2 DEF InSequencer, Sequenced
<1>4. CASE t = 31
  BY <1>1, <1>2, <1>3, <1>4, EngineBegins DEF InEngine, Multiplies
<1>5. CASE t = 0 \/ t \in 32 .. 36
  <2>1. t \notin 1 .. 30 /\ t # 31 /\ u \notin 1 .. 30
    BY <1>1, <1>2, <1>5
  <2>2. dpe_state = "IDLE" /\ dp_start = FALSE
    BY <1>3, <2>1, Zenon DEF InEngine
  <2>3. dpe_state' = "IDLE"
    BY <2>2, EngineIdles, Zenon
  <2>4. InEngine(n, u)'
    BY <2>1, <2>3, Zenon DEF InEngine
  <2> QED
    BY <1>1, <2>4, Zenon
<1>6. CASE t = 1
  BY <1>1, <1>2, <1>6, EngineEnds DEF InEngine, Steps
<1>7. CASE t \in 2 .. 30
  <2>1. PICK s \in 1 .. 29 : s = 31 - t
    BY <1>7
  <2>2. PICK r \in 2 .. 30 : r = s + 1 /\ r = 31 - u
    BY <1>2, <1>7, <2>1
  <2>3. t \in 1 .. 30 /\ u \in 1 .. 30 /\ u < 30 /\ (t < 30 <=> s # 1)
    BY <1>2, <1>7, <2>1
  <2>4. Steps(s) /\ Multiplies(n, s) /\ (s # 1 => SumsUp(n, s))
    BY <2>1, <2>3, Zenon DEF InEngine
  <2>5. Feeding(s)
    BY <1>7, <2>1 DEF InSequencer, Feeding
  <2>6. Feeds(n, s)
    BY <1>7, <2>1 DEF InSequencer, Feeds
  <2>7. Steps(r)'
    BY <2>2, <2>4, <2>5, StepsOn, Zenon
  <2>8. Multiplies(n, r)'
    BY <2>2, <2>4, <2>5, <2>6, MultipliesOn, Zenon
  <2>9. SumsUp(n, r)'
    BY <2>2, <2>4, SumsBegin, SumsOn
  <2>10. InEngine(n, u)'
    BY <2>2, <2>3, <2>7, <2>8, <2>9, Zenon DEF InEngine
  <2> QED
    BY <1>1, <2>10, Zenon
<1> QED
  BY <1>2, <1>4, <1>5, <1>6, <1>7

LEMMA BufferOn ==
  ASSUME NEW n, NEW t, Nearing(n, t), InEngine(n, t), InBuffer(n, t), V1Edge
  PROVE  InBuffer(n, Earlier(t))'
<1>0. Len(Prices) \in Nat
  BY V1Assumption
<1>1. PICK u \in 0 .. 35 : u = Earlier(t)
  BY DEF Nearing, Earlier
<1>2. t \in 0 .. 36 /\ (t > 0 => u = t - 1 /\ n > 0) /\ (t = 0 => u = 0) /\ n \in Nat
  BY <1>0, <1>1 DEF Nearing, Earlier
<1>3. /\ result_out' = IF dpe_state = "DONE" THEN Dut!Dpe!result ELSE result_out
      /\ result_ready' = (result_ready \/ dpe_state = "DONE")
  BY DEF V1Edge, Dut!Clock, Dut!Memories, Dut!Dpe!result_valid
<1>4. CASE t = 1
  <2>1. t \in 1 .. 30 /\ 31 - t = 30 /\ t < 30 /\ u = 0 /\ (n > 1 \/ (n = 1 /\ u = 0))
    BY <1>2, <1>4
  <2>2. Steps(30) /\ SumsUp(n, 30)
    BY <2>1, Zenon DEF InEngine
  <2>3. dpe_state = "DONE"
    BY <2>2 DEF Steps
  <2>4. result_out' = Judged(n)
    BY <1>3, <2>2, <2>3, SumsAreJudged, Zenon
  <2>5. (result_ready \/ dpe_state = "DONE") = TRUE
    BY <2>3
  <2>6. InBuffer(n, u)'
    BY <1>3, <2>1, <2>4, <2>5, Zenon DEF InBuffer
  <2> QED
    BY <1>1, <2>6, Zenon
<1>5. CASE t # 1
  <2>1. dpe_state # "DONE"
    BY <1>5 DEF InEngine, Steps
  <2>2. /\ n > 1 \/ (n = 1 /\ t = 0) <=> n > 1 \/ (n = 1 /\ u = 0)
        /\ u = 0 => t = 0
    BY <1>2, <1>5
  <2>3. result_ready = TRUE \/ result_ready = FALSE
    BY Zenon DEF InBuffer
  <2>4. result_ready' = result_ready
    BY <1>3, <2>1, <2>3
  <2>5. result_out' = result_out
    BY <1>3, <2>1, Zenon
  <2>6. InBuffer(n, u)'
    BY <2>2, <2>4, <2>5, Zenon DEF InBuffer
  <2> QED
    BY <1>1, <2>6, Zenon
<1> QED
  BY <1>4, <1>5

\* A message on its way comes one edge nearer.
LEMMA MessageNears ==
  ASSUME NEW n, NEW t, Nearing(n, t), Carries(n, t), Sequenced, V1Edge, ~OrderEmitted',
         t > 0 => AllLoaded, NEW u, u = Earlier(t)
  PROVE  Carries(n, u)'
BY FrontOn, SequencerOn, EngineOn, BufferOn DEF Carries

LEMMA StillNearing ==
  ASSUME NEW n, NEW t, Nearing(n, t) PROVE Nearing(n, Earlier(t))
BY DEF Nearing, Earlier

\* The next one begins, when nothing is.
LEMMA MessageBegins ==
  ASSUME NEW n, NEW m, n \in 0 .. Len(Prices), m \in 1 .. Len(Prices), m = n + 1, Carries(n, 0), Sequenced, V1Edge,
         parser'.state = "EMIT", parser'.msg = AddOrder(m)
  PROVE  Carries(m, 36)' /\ Nearing(m, 36)
<1>0. Len(Prices) \in Nat
  BY V1Assumption
<1>1. InFront(n, 0) /\ InSequencer(n, 0) /\ InEngine(n, 0) /\ InBuffer(n, 0)
  BY Zenon DEF Carries
<1>2. Nearing(n, 0) /\ Earlier(0) = 0 /\ Nearing(m, 36) /\ m - 1 = n
  BY <1>0 DEF Nearing, Earlier
<1>3. 0 > 0 => AllLoaded
  OBVIOUS
<1>4. InSequencer(n, 0)' /\ InEngine(n, 0)' /\ InBuffer(n, 0)'
  BY <1>1, <1>2, <1>3, SequencerOn, EngineOn, BufferOn, Zenon
<1>5. /\ fields' = IF OrderEmitted THEN parser.msg ELSE NoMsg
      /\ fields = NoMsg => fx1' = NoMsg /\ last_price' = last_price /\ order_flow' = order_flow
      /\ fx2' = fx1
      /\ IF fx2 # NoMsg THEN feat_valid' = TRUE ELSE feat_valid' = FALSE
  BY FrontEdge, Zenon
<1>6. /\ 0 \notin 27 .. 32 /\ 0 # 36 /\ 0 # 35 /\ 0 # 34 /\ 0 # 33 /\ 0 # 32 /\ ~(0 >= 35)
      /\ 36 # 35 /\ 36 # 34 /\ 36 # 33 /\ 36 # 32 /\ 36 \notin 27 .. 32 /\ 36 >= 35
      /\ 36 # 31 /\ 36 \notin 27 .. 30 /\ 36 \notin 26 .. 29 /\ 36 \notin 1 .. 30 /\ 36 # 0
      /\ 0 # 31 /\ 0 \notin 27 .. 30 /\ 0 \notin 26 .. 29 /\ 0 \notin 1 .. 30
  OBVIOUS
<1>7. /\ ~OrderEmitted /\ fields = NoMsg /\ fx1 = NoMsg /\ fx2 = NoMsg
      /\ last_price = LastPrice(n) /\ order_flow = n % 2
  BY <1>1, <1>6, Zenon DEF InFront, OrderEmitted
<1>8. InFront(m, 36)'
  BY <1>2, <1>5, <1>6, <1>7, Zenon DEF InFront
<1>9. InSequencer(m, 36)'
  BY <1>4, <1>6, Zenon DEF InSequencer
<1>10. InEngine(m, 36)'
  BY <1>4, <1>6, Zenon DEF InEngine
<1>11. InBuffer(m, 36)'
  BY <1>0, <1>4, <1>6 DEF InBuffer
<1> QED
  BY <1>2, <1>8, <1>9, <1>10, <1>11, Zenon DEF Carries

LEMMA CarriesNothing == V1Init => Carries(0, 0)
BY V1InitShows DEF InFront, Dut!V1Reset, LastPrice, InSequencer, InEngine, Dut!Dpe!DpeInit,
     InBuffer, Carries

\* A call in front of others.
Then(c, s) == <<c>> \o s

LEMMA ThenIs ==
  ASSUME NEW X, NEW c \in X, NEW s \in Seq(X)
  PROVE  /\ Then(c, s) \in Seq(X) /\ Then(c, s) # << >>
         /\ Len(Then(c, s)) = Len(s) + 1
         /\ Then(c, s)[1] = c /\ \A k \in 1 .. Len(s) : Then(c, s)[k + 1] = s[k]
         /\ Head(Then(c, s)) = c /\ Tail(Then(c, s)) = s
BY OneCall, LenProperties, ConcatProperties, EmptySeq, HeadTailProperties, SeqEqual DEF Then

LEMMA HeadThenTail ==
  ASSUME NEW X, NEW s \in Seq(X), s # << >>
  PROVE  s = Then(Head(s), Tail(s)) /\ Head(s) \in X /\ Tail(s) \in Seq(X)
<1>1. /\ Head(s) \in X /\ Tail(s) \in Seq(X) /\ Len(Tail(s)) = Len(s) - 1
      /\ \A i \in 1 .. Len(Tail(s)) : Tail(s)[i] = s[i + 1]
  BY HeadTailProperties
<1>2. PICK c \in X : c = Head(s) /\ c = s[1]
  BY <1>1
<1>3. PICK t \in Seq(X) : t = Tail(s)
  BY <1>1
<1>4. PICK n \in Nat : n = Len(t) /\ Len(s) = n + 1
  <2>1. Len(s) \in Nat /\ Len(t) \in Nat
    BY LenProperties
  <2>2. Len(t) = Len(s) - 1
    BY <1>1, <1>3, Zenon
  <2> QED
    BY <2>1, <2>2
<1>5. PICK r \in Seq(X) : r = Then(c, t) /\ Len(r) = n + 1 /\ r[1] = c /\ \A k \in 1 .. n : r[k + 1] = t[k]
  <2>1. /\ Then(c, t) \in Seq(X) /\ Len(Then(c, t)) = Len(t) + 1
        /\ Then(c, t)[1] = c /\ \A k \in 1 .. Len(t) : Then(c, t)[k + 1] = t[k]
    BY ThenIs
  <2> QED
    BY <1>4, <2>1, Zenon
<1>6. ASSUME NEW i \in 1 .. n + 1 PROVE s[i] = r[i]
  <2>1. CASE i = 1
    BY <1>2, <1>5, <2>1
  <2>2. CASE i # 1
    <3>1. PICK k \in 1 .. n : i = k + 1
      BY <2>2
    <3>2. t[k] = s[k + 1]
      BY <1>1, <1>3, <1>4
    <3> QED
      BY <1>5, <3>1, <3>2
  <2> QED
    BY <2>1, <2>2
<1>7. s = r
  BY <1>4, <1>5, <1>6, SeqEqual
<1> QED
  BY <1>1, <1>2, <1>3, <1>5, <1>7

LEMMA TwoThen ==
  ASSUME NEW X, NEW a \in X, NEW b \in X, NEW s \in Seq(X)
  PROVE  <<a, b>> \o s = Then(a, Then(b, s))
<1>1. <<a>> \in Seq(X) /\ <<b>> \in Seq(X)
  BY OneCall
<1>2. <<a>> \o <<b>> = <<a, b>>
  BY TwoOnes, Zenon
<1>3. (<<a>> \o <<b>>) \o s = <<a>> \o (<<b>> \o s)
  BY <1>1, ConcatAssociative
<1> QED
  BY <1>2, <1>3, Zenon DEF Then

\* The phases a test goes through.  Below 0, it has so many writes of weights
\* before it; in phase 2 n - 2 the n-th Add Order is yet to come, from phase 2 n - 1
\* on it is sent, and it is waited for to come to phase 2 n.
Leads(c, x, y) ==
  \/ /\ c = InterMessageDelay \/ \E d \in Nat \ {0} : c = Cycles(d)
     /\ x >= 0 /\ y = x
  \/ /\ \E m \in Sendable : c = Send(m) /\ m.type # "A"
     /\ x >= 0 /\ x % 2 = 0 /\ y = x
  \/ \E n \in 1 .. Len(Prices) : c = Send(AddOrder(n)) /\ x = 2 * n - 2 /\ y = x + 1
  \/ /\ c = wait_for_new_result \/ (c = wait_for_result /\ x = 1)
     /\ x >= 0 /\ x % 2 = 1 /\ y = x + 1
  \/ \E j \in 0 .. 3 : c = Write("WGT_ADDR", j) /\ x = 2 * j - 8 /\ y = x + 1
  \/ \E j \in 0 .. 3 : c = Write("WGT_DATA", Loaded(j + 1)) /\ x = 2 * j - 7 /\ y = x + 1
Goes(s, a, b) ==
  \E ph \in [1 .. Len(s) + 1 -> Int] :
    /\ ph[1] = a /\ ph[Len(s) + 1] = b
    /\ \A k \in 1 .. Len(s) : Leads(s[k], ph[k], ph[k + 1])

LEMMA GoesNowhere == ASSUME NEW a, NEW b PROVE Goes(<< >>, a, b) => a = b
BY EmptySeq DEF Goes

LEMMA StaysThere == ASSUME NEW a \in Int PROVE Goes(<< >>, a, a)
<1>1. PICK e \in Seq(Int) : e = << >> /\ Len(e) = 0
  BY EmptySeq
<1>2. PICK ph \in [1 .. 1 -> Int] : ph = [k \in 1 .. 1 |-> a]
  OBVIOUS
<1>3. ph[1] = a
  BY <1>2
<1>4. Len(e) + 1 = 1 /\ \A k : k \notin 1 .. Len(e)
  BY <1>1
<1>5. Goes(e, a, a)
  BY <1>3, <1>4, Zenon DEF Goes
<1> QED
  BY <1>1, <1>5, Zenon

LEMMA GoesFirst ==
  ASSUME NEW c \in Calls, NEW s \in Seq(Calls), NEW a, NEW b, Goes(Then(c, s), a, b)
  PROVE  a \in Int /\ \E x \in Int : Leads(c, a, x) /\ Goes(s, x, b)
<1>1. PICK n \in Nat : n = Len(s)
  BY LenProperties
<1>2. PICK r \in Seq(Calls) :
        /\ r = Then(c, s) /\ Len(r) = n + 1 /\ r[1] = c
        /\ \A k \in 1 .. n : r[k + 1] = s[k]
  BY <1>1, ThenIs
<1>3. Goes(r, a, b)
  BY <1>2, Zenon
<1>4. PICK ph \in [1 .. Len(r) + 1 -> Int] :
        /\ ph[1] = a /\ ph[Len(r) + 1] = b
        /\ \A k \in 1 .. Len(r) : Leads(r[k], ph[k], ph[k + 1])
  BY <1>3, Zenon DEF Goes
<1>5. (n + 1) + 1 = n + 2 /\ 1 + 1 = 2
  BY <1>1
<1>6. /\ ph \in [1 .. n + 2 -> Int] /\ ph[n + 2] = b
      /\ \A k \in 1 .. n + 1 : Leads(r[k], ph[k], ph[k + 1])
  BY <1>2, <1>4, <1>5, Zenon
<1>7. PICK ps \in [1 .. n + 1 -> Int] : \A k \in 1 .. n + 1 : ps[k] = ph[k + 1]
  <2>1. \A k \in 1 .. n + 1 : ph[k + 1] \in Int
    BY <1>6
  <2>2. PICK ps : ps = [k \in 1 .. n + 1 |-> ph[k + 1]]
    OBVIOUS
  <2>3. ps \in [1 .. n + 1 -> Int] /\ \A k \in 1 .. n + 1 : ps[k] = ph[k + 1]
    BY <2>1, <2>2, Zenon
  <2> QED
    BY <2>3
<1>8. PICK x \in Int : x = ph[2]
  BY <1>6
<1>9. Leads(c, a, x)
  BY <1>2, <1>4, <1>5, <1>6, <1>8
<1>10. Goes(s, x, b)
  <2>1. 1 \in 1 .. n + 1 /\ n + 1 \in 1 .. n + 1
    OBVIOUS
  <2>2. ps[1] = x /\ ps[n + 1] = b
    BY <1>5, <1>6, <1>7, <1>8, <2>1, Zenon
  <2>3. ASSUME NEW k \in 1 .. n PROVE Leads(s[k], ps[k], ps[k + 1])
    <3>1. k \in 1 .. n + 1 /\ k + 1 \in 1 .. n + 1
      BY <1>1
    <3>2. s[k] = r[k + 1] /\ ps[k] = ph[k + 1] /\ ps[k + 1] = ph[(k + 1) + 1]
      BY <1>2, <1>7, <3>1, Zenon
    <3> QED
      BY <1>6, <3>1, <3>2, Zenon
  <2> QED
    BY <1>1, <2>2, <2>3, Zenon DEF Goes
<1>11. a \in Int
  BY <1>4, <1>6
<1> QED
  BY <1>8, <1>9, <1>10, <1>11

LEMMA GoesAlso ==
  ASSUME NEW s \in Seq(Calls), NEW t \in Seq(Calls), NEW a, NEW x, NEW b,
         Goes(s, a, x), Goes(t, x, b)
  PROVE  Goes(s \o t, a, b)
<1>1. PICK n \in Nat : n = Len(s)
  BY LenProperties
<1>2. PICK m \in Nat : m = Len(t)
  BY LenProperties
<1>3. PICK r : r = s \o t
  OBVIOUS
<1>4. Len(r) = n + m /\ \A i \in 1 .. n + m : r[i] = IF i <= n THEN s[i] ELSE t[i - n]
  BY <1>1, <1>2, <1>3, ConcatProperties, Zenon
<1>5. PICK ps \in [1 .. n + 1 -> Int] :
        ps[1] = a /\ ps[n + 1] = x /\ \A k \in 1 .. n : Leads(s[k], ps[k], ps[k + 1])
  BY <1>1, Zenon DEF Goes
<1>6. PICK pt \in [1 .. m + 1 -> Int] :
        pt[1] = x /\ pt[m + 1] = b /\ \A k \in 1 .. m : Leads(t[k], pt[k], pt[k + 1])
  BY <1>2, Zenon DEF Goes
<1>7. PICK ph : ph = [k \in 1 .. n + m + 1 |-> IF k =< n THEN ps[k] ELSE pt[k - n]]
  OBVIOUS
<1>8. ASSUME NEW k \in 1 .. n + 1 PROVE ph[k] = ps[k] /\ ps[k] \in Int
  <2>1. k \in 1 .. n + m + 1 /\ ps[k] \in Int
    OBVIOUS
  <2>2. CASE k =< n
    BY <1>7, <2>1, <2>2
  <2>3. CASE ~(k =< n)
    <3>1. k = n + 1 /\ k - n = 1
      BY <2>3
    <3>2. ph[k] = pt[k - n]
      BY <1>7, <2>1, <2>3, Zenon
    <3> QED
      BY <1>5, <1>6, <2>1, <3>1, <3>2, Zenon
  <2> QED
    BY <2>2, <2>3
<1>9. ASSUME NEW k \in 1 .. m + 1 PROVE ph[n + k] = pt[k] /\ pt[k] \in Int
  BY <1>7
<1>10. ph \in [1 .. n + m + 1 -> Int]
  BY <1>7, <1>8, <1>9
<1>11. ASSUME NEW k \in 1 .. n + m PROVE Leads(r[k], ph[k], ph[k + 1])
  <2>1. CASE k =< n
    <3>1. k \in 1 .. n /\ k \in 1 .. n + 1 /\ k + 1 \in 1 .. n + 1
      BY <2>1
    <3>2. r[k] = s[k] /\ ph[k] = ps[k] /\ ph[k + 1] = ps[k + 1]
      BY <1>4, <1>8, <2>1, <3>1, Zenon
    <3> QED
      BY <1>5, <3>1, <3>2, Zenon
  <2>2. CASE ~(k =< n)
    <3>1. PICK j \in 1 .. m : k = n + j /\ k - n = j /\ k + 1 = n + (j + 1)
      BY <2>2
    <3>2. j \in 1 .. m + 1 /\ j + 1 \in 1 .. m + 1
      BY <1>2
    <3>3. r[k] = t[j] /\ ph[k] = pt[j] /\ ph[k + 1] = pt[j + 1]
      BY <1>4, <1>9, <2>2, <3>1, <3>2, Zenon
    <3> QED
      BY <1>6, <3>1, <3>3, Zenon
  <2> QED
    BY <2>1, <2>2
<1>12. ph[1] = a /\ ph[n + m + 1] = b
  BY <1>5, <1>6, <1>8, <1>9
<1>13. Goes(r, a, b)
  BY <1>4, <1>10, <1>11, <1>12, Zenon DEF Goes
<1> QED
  BY <1>3, <1>13, Zenon

LEMMA GoesOnce ==
  ASSUME NEW c \in Calls, NEW a \in Int, NEW b \in Int, Leads(c, a, b)
  PROVE  Goes(<<c>>, a, b)
<1>0. <<c>> \in Seq(Calls)
  BY OneCall, Zenon
<1>1. PICK s \in Seq(Calls) : s = <<c>> /\ Len(s) = 1 /\ s[1] = c
  BY <1>0
<1>2. PICK ph \in [1 .. 2 -> Int] : ph[1] = a /\ ph[2] = b
  <2>1. PICK ph : ph = [k \in 1 .. 2 |-> IF k = 1 THEN a ELSE b]
    OBVIOUS
  <2>2. ph \in [1 .. 2 -> Int] /\ ph[1] = a /\ ph[2] = b
    BY <2>1
  <2> QED
    BY <2>2
<1>3. 1 + 1 = 2 /\ \A k \in 1 .. 1 : k = 1
  OBVIOUS
<1>4. Goes(s, a, b)
  BY <1>1, <1>2, <1>3 DEF Goes
<1> QED
  BY <1>1, <1>4, Zenon

LEMMA GoesThen ==
  ASSUME NEW c \in Calls, NEW s \in Seq(Calls), NEW a \in Int, NEW x \in Int, NEW b,
         Leads(c, a, x), Goes(s, x, b)
  PROVE  Goes(Then(c, s), a, b)
BY GoesOnce, OneCall, GoesAlso DEF Then

DiscardResult == Read("RESULT", "discard")
ScoreResult == Read("RESULT", "score")

\* The answer to message n is awaited, with the calls r to follow: t edges before
\* it is out, none of these reads comes too early to be right.
Awaiting(s, n, t, e) ==
  \E r \in Seq(Calls) :
    /\ Goes(r, 2 * n, e)
    /\ \/ t =< 35 /\ s = Then(DiscardResult, Then(Cycles(35), Then(wait_for_result, r)))
       \/ \E m \in Nat \ {0} : /\ n = 1 \/ t =< m
                               /\ s = Then(Cycles(m), Then(wait_for_result, r))
       \/ (n = 1 \/ t = 0) /\ s = Then(wait_for_result, r)
       \/ t = 0 /\ s = Then(ScoreResult, r)

\* The calls s of a test after i results: in phase x, with message n on its way.
Going(s, i, n, t, x, e) ==
  /\ Goes(s, x, e)
  /\ \/ x < 0 /\ i = 0 /\ n = 0 /\ t = 0
     \/ x = 2 * i /\ n = i /\ t = 0
     \/ x = 2 * i + 1 /\ n = i + 1
Stands(s, i, n, t, x, e) ==
  /\ s \in Seq(Calls) /\ i \in Nat /\ x \in Int
  /\ \/ Going(s, i, n, t, x, e)
     \/ x = 2 * i + 2 /\ n = i + 1 /\ Awaiting(s, n, t, e)

\* What is left of the calls when a delay that is reached has been drawn.
Draws(rest, new) ==
  IF rest # << >> /\ Head(rest).op = "delay"
    THEN new = Tail(rest) \/ \E d \in Nat \ {0} : new = Then(Cycles(d), Tail(rest))
    ELSE new = rest

LEMMA ProceedDraws ==
  ASSUME NEW more, NEW rest, rest = more \o Tail(test), Proceed(more) PROVE Draws(rest, test')
BY V1Assumption DEF Proceed, Draws, Then

LEMMA TheCalls ==
  /\ wait_for_result \in Calls /\ wait_for_new_result \in Calls
  /\ DiscardResult \in Calls /\ ScoreResult \in Calls /\ InterMessageDelay \in Calls
  /\ \A m \in Int : Cycles(m) \in Calls
BY ReadCall, CyclesCall, DelayCall DEF wait_for_result, wait_for_new_result, DiscardResult,
     ScoreResult

LEMMA TheOps ==
  /\ wait_for_result.op = "read" /\ wait_for_result.for = "poll" /\ wait_for_result.addr = "STATUS"
  /\ wait_for_new_result.op = "read" /\ wait_for_new_result.for = "flush"
  /\ DiscardResult.op = "read" /\ DiscardResult.for = "discard"
  /\ ScoreResult.op = "read" /\ ScoreResult.for = "score" /\ ScoreResult.addr = "RESULT"
  /\ InterMessageDelay.op = "delay"
  /\ \A m : Cycles(m).op = "cycles" /\ Cycles(m).n = m
  /\ \A m : Send(m).op = "send" /\ Send(m).msg = m
  /\ \A a, d : Write(a, d).op = "write" /\ Write(a, d).addr = a /\ Write(a, d).data = d
BY DEF wait_for_result, wait_for_new_result, DiscardResult, ScoreResult, InterMessageDelay,
       Cycles, Send, Write, Read

LEMMA LeadsBy ==
  ASSUME NEW c, NEW x \in Int, NEW y \in Int, Leads(c, x, y)
  PROVE  /\ c.op = "delay" => x >= 0 /\ y = x
         /\ c.op = "cycles" => x >= 0 /\ y = x /\ \E d \in Nat \ {0} : c = Cycles(d)
         /\ c.op = "send" =>
              /\ x >= 0 /\ x % 2 = 0
              /\ \/ c.msg.type # "A" /\ y = x
                 \/ \E n \in 1 .. Len(Prices) : c.msg = AddOrder(n) /\ x = 2 * n - 2 /\ y = x + 1
         /\ c.op = "write" =>
              \E j \in 0 .. 3 : /\ \/ c = Write("WGT_ADDR", j) /\ x = 2 * j - 8
                                   \/ c = Write("WGT_DATA", Loaded(j + 1)) /\ x = 2 * j - 7
                                /\ y = x + 1
         /\ c.op = "read" =>
              /\ x >= 0 /\ x % 2 = 1 /\ y = x + 1
              /\ c = wait_for_new_result \/ (c = wait_for_result /\ x = 1)
<1>0. Len(Prices) \in Nat
  BY V1Assumption
<1>1. CASE (c = InterMessageDelay \/ \E d \in Nat \ {0} : c = Cycles(d)) /\ x >= 0 /\ y = x
  BY <1>1, TheOps
<1>2. CASE (\E m \in Sendable : c = Send(m) /\ m.type # "A") /\ x >= 0 /\ x % 2 = 0 /\ y = x
  BY <1>2, TheOps
<1>3. CASE \E n \in 1 .. Len(Prices) : c = Send(AddOrder(n)) /\ x = 2 * n - 2 /\ y = x + 1
  BY <1>0, <1>3, TheOps
<1>4. CASE /\ c = wait_for_new_result \/ (c = wait_for_result /\ x = 1)
           /\ x >= 0 /\ x % 2 = 1 /\ y = x + 1
  BY <1>4, TheOps
<1>5. CASE \E j \in 0 .. 3 : c = Write("WGT_ADDR", j) /\ x = 2 * j - 8 /\ y = x + 1
  BY <1>5, TheOps
<1>6. CASE \E j \in 0 .. 3 : c = Write("WGT_DATA", Loaded(j + 1)) /\ x = 2 * j - 7 /\ y = x + 1
  BY <1>6, TheOps
<1> QED
  BY <1>1, <1>2, <1>3, <1>4, <1>5, <1>6, Zenon DEF Leads

LEMMA GoesDrawn ==
  ASSUME NEW rest \in Seq(Calls), NEW new, NEW x, NEW e, Goes(rest, x, e), Draws(rest, new)
  PROVE  new \in Seq(Calls) /\ Goes(new, x, e)
<1>1. CASE rest # << >> /\ Head(rest).op = "delay"
  <2>1. PICK c \in Calls : c = Head(rest)
    BY <1>1, HeadThenTail, Zenon
  <2>2. PICK r \in Seq(Calls) : r = Tail(rest)
    BY <1>1, HeadThenTail, Zenon
  <2>3. rest = Then(c, r)
    BY <1>1, <2>1, <2>2, HeadThenTail, Zenon
  <2>4. x \in Int /\ \E y \in Int : Leads(c, x, y) /\ Goes(r, y, e)
    BY <2>3, GoesFirst, Zenon
  <2>5. PICK y \in Int : Leads(c, x, y) /\ Goes(r, y, e)
    BY <2>4
  <2>6. x >= 0 /\ y = x
    BY <1>1, <2>1, <2>4, <2>5, LeadsBy, Zenon
  <2>7. CASE new = r
    BY <2>5, <2>6, <2>7
  <2>8. CASE \E d \in Nat \ {0} : new = Then(Cycles(d), r)
    <3>1. PICK d \in Nat \ {0} : new = Then(Cycles(d), r)
      BY <2>8
    <3>2. Cycles(d) \in Calls
      BY TheCalls
    <3>3. Leads(Cycles(d), x, x)
      BY <2>6, Zenon DEF Leads
    <3>4. Goes(Then(Cycles(d), r), x, e)
      BY <2>4, <2>5, <2>6, <3>2, <3>3, GoesThen, Zenon
    <3>5. Then(Cycles(d), r) \in Seq(Calls)
      BY <3>2, ThenIs, Zenon
    <3> QED
      BY <3>1, <3>4, <3>5, Zenon
  <2> QED
    BY <1>1, <2>2, <2>7, <2>8, Zenon DEF Draws
<1>2. CASE ~(rest # << >> /\ Head(rest).op = "delay")
  BY <1>2, Zenon DEF Draws
<1> QED
  BY <1>1, <1>2

\* Nothing is drawn in front of another call.
LEMMA NothingDrawn ==
  ASSUME NEW c \in Calls, NEW r \in Seq(Calls), c.op # "delay", NEW new, Draws(Then(c, r), new)
  PROVE  new = Then(c, r)
<1>1. Head(Then(c, r)) = c
  BY ThenIs, Zenon
<1> QED
  BY <1>1, Zenon DEF Draws

-----------------------------------------------------------------------------
\* The first call still waits, an edge later.
LEMMA StandsWaits ==
  ASSUME NEW s, NEW i, NEW n, NEW t \in 0 .. 36, NEW x, NEW e, Stands(s, i, n, t, x, e)
  PROVE  Stands(s, i, n, Earlier(t), x, e)
BY DEF Earlier, Awaiting, Stands, Going

\* In each phase that a test goes through, something is on its way or not.
LEMMA GoingIs ==
  ASSUME NEW s, NEW i \in Nat, NEW n, NEW t, NEW x \in Int, NEW e, Going(s, i, n, t, x, e)
  PROVE  /\ Goes(s, x, e)
         /\ x >= 0 => x \in {2 * i, 2 * i + 1}
         /\ x >= 0 /\ x % 2 = 0 => x = 2 * i /\ n = i /\ t = 0
         /\ x >= 0 /\ x % 2 = 1 => x = 2 * i + 1 /\ n = i + 1
         /\ x < 0 => i = 0 /\ n = 0 /\ t = 0
BY DEF Going

\* The first of the calls, when what is awaited does not come first.
FirstLeads(c, r, x, y, e) == Leads(c, x, y) /\ Goes(r, y, e)

LEMMA GoingFirst ==
  ASSUME NEW s, NEW i, NEW n, NEW t, NEW x, NEW e, Going(s, i, n, t, x, e),
         NEW c \in Calls, NEW r \in Seq(Calls), s = Then(c, r)
  PROVE  x \in Int /\ \E y \in Int : FirstLeads(c, r, x, y, e)
BY GoesFirst DEF Going, FirstLeads

\* The first of the calls of those that await an answer, and what follows it.
AwaitedFirst(c, r, n, t, e) ==
  \E q \in Seq(Calls) :
    /\ Goes(q, 2 * n, e)
    /\ \/ t =< 35 /\ c = DiscardResult /\ r = Then(Cycles(35), Then(wait_for_result, q))
       \/ \E m \in Nat \ {0} : (n = 1 \/ t =< m) /\ c = Cycles(m) /\ r = Then(wait_for_result, q)
       \/ (n = 1 \/ t = 0) /\ c = wait_for_result /\ r = q
       \/ t = 0 /\ c = ScoreResult /\ r = q

LEMMA AwaitingFirst ==
  ASSUME NEW s, NEW n, NEW t, NEW e, Awaiting(s, n, t, e), NEW c \in Calls, NEW r \in Seq(Calls), s = Then(c, r)
  PROVE  AwaitedFirst(c, r, n, t, e)
<1>1. PICK q \in Seq(Calls) :
        /\ Goes(q, 2 * n, e)
        /\ \/ t =< 35 /\ s = Then(DiscardResult, Then(Cycles(35), Then(wait_for_result, q)))
           \/ \E m \in Nat \ {0} : (n = 1 \/ t =< m) /\ s = Then(Cycles(m), Then(wait_for_result, q))
           \/ (n = 1 \/ t = 0) /\ s = Then(wait_for_result, q)
           \/ t = 0 /\ s = Then(ScoreResult, q)
  BY Zenon DEF Awaiting
<1>2. ASSUME NEW d \in Calls, NEW p \in Seq(Calls), s = Then(d, p) PROVE c = d /\ r = p
  <2>1. Head(s) = c /\ Tail(s) = r
    BY ThenIs, ZenonT(30)
  <2>2. Head(Then(d, p)) = d /\ Tail(Then(d, p)) = p
    BY ThenIs, Zenon
  <2> QED
    BY <1>2, <2>1, <2>2, Zenon
<1>3. Then(wait_for_result, q) \in Seq(Calls)
  BY TheCalls, ThenIs, Zenon
<1>4. \A m \in Nat : Cycles(m) \in Calls /\ Then(Cycles(m), Then(wait_for_result, q)) \in Seq(Calls)
  <2> SUFFICES ASSUME NEW m \in Nat
               PROVE Cycles(m) \in Calls /\ Then(Cycles(m), Then(wait_for_result, q)) \in Seq(Calls)
    OBVIOUS
  <2>1. Cycles(m) \in Calls
    BY TheCalls
  <2> QED
    BY <1>3, <2>1, ThenIs, Zenon
<1>5. CASE t =< 35 /\ s = Then(DiscardResult, Then(Cycles(35), Then(wait_for_result, q)))
  BY <1>1, <1>2, <1>4, <1>5, TheCalls DEF AwaitedFirst
<1>6. ASSUME NEW m \in Nat \ {0}, n = 1 \/ t =< m, s = Then(Cycles(m), Then(wait_for_result, q))
      PROVE  c = Cycles(m) /\ r = Then(wait_for_result, q)
  BY <1>2, <1>3, <1>4, <1>6
<1>7. CASE (n = 1 \/ t = 0) /\ s = Then(wait_for_result, q)
  BY <1>1, <1>2, <1>7, TheCalls DEF AwaitedFirst
<1>8. CASE t = 0 /\ s = Then(ScoreResult, q)
  BY <1>1, <1>2, <1>8, TheCalls DEF AwaitedFirst
<1> QED
  BY <1>1, <1>5, <1>6, <1>7, <1>8, Zenon DEF AwaitedFirst

\* A wait of d cycles, d at least 1, becomes one that is shorter or is over.
CyclesOn(c, r, i, n, u, x, e) ==
  \E d \in Nat \ {0} :
    /\ c = Cycles(d)
    /\ d > 1 => Stands(Then(Cycles(d - 1), r), i, n, u, x, e)
    /\ d = 1 => \A new : Draws(r, new) => Stands(new, i, n, u, x, e)

LEMMA StandsCycles ==
  ASSUME NEW s, NEW i, NEW n, NEW t \in 0 .. 36, NEW x, NEW e, Stands(s, i, n, t, x, e),
         NEW c \in Calls, NEW r \in Seq(Calls), s = Then(c, r), c.op = "cycles"
  PROVE  CyclesOn(c, r, i, n, Earlier(t), x, e)
<1>1. PICK u \in 0 .. 36 : u = Earlier(t) /\ u =< t /\ (t = 0 => u = 0) /\ (t > 0 => u = t - 1)
  BY DEF Earlier
<1>2. i \in Nat /\ x \in Int
  BY Zenon DEF Stands
<1>3. \A d \in Int : Cycles(d) \in Calls /\ Then(Cycles(d), r) \in Seq(Calls)
  BY TheCalls, ThenIs, Zenon
<1>4. CASE Going(s, i, n, t, x, e)
  <2>1. PICK y \in Int : FirstLeads(c, r, x, y, e)
    BY <1>4, GoingFirst, Zenon
  <2>2. Leads(c, x, y) /\ Goes(r, y, e)
    BY <2>1, Zenon DEF FirstLeads
  <2>3. x >= 0 /\ y = x /\ \E d \in Nat \ {0} : c = Cycles(d)
    BY <1>2, <2>2, LeadsBy, Zenon
  <2>4. PICK d \in Nat \ {0} : c = Cycles(d)
    BY <2>3
  <2>5. (x = 2 * i /\ n = i /\ t = 0) \/ (x = 2 * i + 1 /\ n = i + 1)
    BY <1>2, <1>4, <2>3 DEF Going
  <2>6. ASSUME NEW q \in Seq(Calls), Goes(q, x, e) PROVE Stands(q, i, n, u, x, e)
    BY <1>1, <1>2, <2>5, <2>6, Zenon DEF Stands, Going
  <2>7. ASSUME d > 1 PROVE Stands(Then(Cycles(d - 1), r), i, n, u, x, e)
    BY <1>2, <1>3, <2>2, <2>3, <2>6, <2>7, GoesThen DEF Leads
  <2>8. ASSUME NEW new, Draws(r, new) PROVE Stands(new, i, n, u, x, e)
    BY <2>2, <2>3, <2>6, <2>8, GoesDrawn
  <2> QED
    BY <1>1, <2>4, <2>7, <2>8, Zenon DEF CyclesOn
<1>5. CASE x = 2 * i + 2 /\ n = i + 1 /\ Awaiting(s, n, t, e)
  <2>0. AwaitedFirst(c, r, n, t, e)
    BY <1>5, AwaitingFirst, Zenon
  <2>1. PICK q \in Seq(Calls) :
          /\ Goes(q, 2 * n, e)
          /\ \/ t =< 35 /\ c = DiscardResult /\ r = Then(Cycles(35), Then(wait_for_result, q))
             \/ \E m \in Nat \ {0} : (n = 1 \/ t =< m) /\ c = Cycles(m) /\ r = Then(wait_for_result, q)
             \/ (n = 1 \/ t = 0) /\ c = wait_for_result /\ r = q
             \/ t = 0 /\ c = ScoreResult /\ r = q
    BY <2>0, Zenon DEF AwaitedFirst
  <2>2. c # DiscardResult /\ c # wait_for_result /\ c # ScoreResult
    BY TheOps
  <2>3. PICK d \in Nat \ {0} : (n = 1 \/ t =< d) /\ c = Cycles(d) /\ r = Then(wait_for_result, q)
    BY <2>1, <2>2, Zenon
  <2>4. ASSUME NEW z \in Seq(Calls), Awaiting(z, n, u, e) PROVE Stands(z, i, n, u, x, e)
    BY <1>2, <1>5, <2>4, Zenon DEF Stands
  <2>5. ASSUME d > 1 PROVE Stands(Then(Cycles(d - 1), r), i, n, u, x, e)
    <3>1. d - 1 \in Nat \ {0} /\ d - 1 \in Int /\ (n = 1 \/ u =< d - 1)
      BY <1>1, <2>3, <2>5
    <3>2. Awaiting(Then(Cycles(d - 1), r), n, u, e)
      BY <2>1, <2>3, <3>1, Zenon DEF Awaiting
    <3> QED
      BY <1>3, <2>4, <3>1, <3>2, Zenon
  <2>6. ASSUME d = 1, NEW new, Draws(r, new) PROVE Stands(new, i, n, u, x, e)
    BY <1>1, <2>1, <2>3, <2>4, <2>6, TheOps, TheCalls, NothingDrawn DEF Awaiting
  <2> QED
    BY <1>1, <2>3, <2>5, <2>6, Zenon DEF CyclesOn
<1> QED
  BY <1>4, <1>5, Zenon DEF Stands

\* What is sent, and what is on its way then.
SendsOn(c, new, i, n, t, x, e) ==
  /\ t = 0 /\ n = i /\ x >= 0
  /\ \/ c.msg.type # "A" /\ Stands(new, i, n, 0, x, e)
     \/ /\ n + 1 \in 1 .. Len(Prices) /\ c.msg = AddOrder(n + 1)
        /\ Stands(new, i, n + 1, 36, x + 1, e)

LEMMA StandsSend ==
  ASSUME NEW s, NEW i, NEW n, NEW t \in 0 .. 36, NEW x, NEW e, Stands(s, i, n, t, x, e),
         NEW c \in Calls, NEW r \in Seq(Calls), s = Then(c, r), c.op = "send",
         NEW new, Draws(r, new)
  PROVE  SendsOn(c, new, i, n, t, x, e)
<1>0. Len(Prices) \in Nat
  BY V1Assumption
<1>1. i \in Nat /\ x \in Int
  BY Zenon DEF Stands
<1>2. CASE Going(s, i, n, t, x, e)
  <2>1. PICK y \in Int : FirstLeads(c, r, x, y, e)
    BY <1>2, GoingFirst, Zenon
  <2>2. Leads(c, x, y) /\ Goes(r, y, e)
    BY <2>1, Zenon DEF FirstLeads
  <2>3. /\ x >= 0 /\ x % 2 = 0
        /\ \/ c.msg.type # "A" /\ y = x
           \/ \E m \in 1 .. Len(Prices) : c.msg = AddOrder(m) /\ x = 2 * m - 2 /\ y = x + 1
    BY <1>1, <2>2, LeadsBy, Zenon
  <2>4. x = 2 * i /\ n = i /\ t = 0
    BY <1>1, <1>2, <2>3, GoingIs, Zenon
  <2>5. new \in Seq(Calls) /\ Goes(new, y, e)
    BY <2>2, GoesDrawn, Zenon
  <2>6. CASE c.msg.type # "A" /\ y = x
    BY <1>1, <2>3, <2>4, <2>5, <2>6 DEF Stands, Going, SendsOn
  <2>7. ASSUME NEW m \in 1 .. Len(Prices), c.msg = AddOrder(m), x = 2 * m - 2, y = x + 1
        PROVE  /\ n + 1 \in 1 .. Len(Prices) /\ c.msg = AddOrder(n + 1)
               /\ Stands(new, i, n + 1, 36, x + 1, e)
    <3>1. m = i + 1 /\ y = 2 * i + 1 /\ n + 1 = i + 1 /\ x + 1 = y /\ n + 1 = m
      BY <1>1, <2>4, <2>7
    <3>2. Going(new, i, i + 1, 36, y, e)
      BY <2>5, <3>1, Zenon DEF Going
    <3>3. Stands(new, i, i + 1, 36, y, e)
      BY <1>1, <2>5, <3>2, Zenon DEF Stands
    <3>4. n + 1 \in 1 .. Len(Prices) /\ c.msg = AddOrder(n + 1)
      BY <2>7, <3>1, Zenon
    <3> QED
      BY <3>1, <3>3, <3>4, Zenon
  <2> QED
    BY <1>1, <2>3, <2>4, <2>6, <2>7, Zenon DEF SendsOn
<1>3. CASE x = 2 * i + 2 /\ n = i + 1 /\ Awaiting(s, n, t, e)
  BY <1>3, AwaitingFirst, TheOps DEF AwaitedFirst
<1> QED
  BY <1>2, <1>3, Zenon DEF Stands

\* A write of a weight or of its address, before anything is on its way.
Writes(c, x) ==
  \E j \in 0 .. 3 : \/ c = Write("WGT_ADDR", j) /\ x = 2 * j - 8
                    \/ c = Write("WGT_DATA", Loaded(j + 1)) /\ x = 2 * j - 7
WritesOn(c, r, i, n, t, x, e) ==
  /\ i = 0 /\ n = 0 /\ t = 0 /\ Writes(c, x)
  /\ \A new : Draws(r, new) => Stands(new, 0, 0, 0, x + 1, e)

LEMMA StandsWrite ==
  ASSUME NEW s, NEW i, NEW n, NEW t \in 0 .. 36, NEW x, NEW e, Stands(s, i, n, t, x, e),
         NEW c \in Calls, NEW r \in Seq(Calls), s = Then(c, r), c.op = "write"
  PROVE  WritesOn(c, r, i, n, t, x, e)
<1>1. i \in Nat /\ x \in Int
  BY Zenon DEF Stands
<1>2. CASE Going(s, i, n, t, x, e)
  <2>1. PICK y \in Int : FirstLeads(c, r, x, y, e)
    BY <1>2, GoingFirst, Zenon
  <2>2. Leads(c, x, y) /\ Goes(r, y, e)
    BY <2>1, Zenon DEF FirstLeads
  <2>3. \E j \in 0 .. 3 : /\ \/ c = Write("WGT_ADDR", j) /\ x = 2 * j - 8
                             \/ c = Write("WGT_DATA", Loaded(j + 1)) /\ x = 2 * j - 7
                          /\ y = x + 1
    BY <1>1, <2>2, LeadsBy, Zenon
  <2>4. x < 0 /\ y = x + 1 /\ (y < 0 \/ y = 2 * 0)
    BY <1>1, <2>3
  <2>5. i = 0 /\ n = 0 /\ t = 0
    BY <1>1, <1>2, <2>4, GoingIs, Zenon
  <2>6. ASSUME NEW new, Draws(r, new) PROVE Stands(new, 0, 0, 0, x + 1, e)
    BY <2>2, <2>4, <2>6, GoesDrawn DEF Stands, Going
  <2> QED
    BY <2>3, <2>5, <2>6, Zenon DEF WritesOn, Writes
<1>3. CASE x = 2 * i + 2 /\ n = i + 1 /\ Awaiting(s, n, t, e)
  BY <1>3, AwaitingFirst, TheOps DEF AwaitedFirst
<1> QED
  BY <1>2, <1>3, Zenon DEF Stands

\* What is ahead of the test after a read.
LEMMA AfterReadIs ==
  ASSUME NEW d, NEW r \in Seq(Calls)
  PROVE  /\ AfterRead("flush", d) \o r
              = IF d % 2 = 1 THEN Then(DiscardResult, Then(Cycles(35), Then(wait_for_result, r)))
                ELSE Then(Cycles(35), Then(wait_for_result, r))
         /\ AfterRead("poll", d) \o r
              = IF d % 2 = 1 THEN Then(ScoreResult, r)
                ELSE Then(Cycles(1), Then(wait_for_result, r))
         /\ AfterRead("discard", d) \o r = r
         /\ AfterRead("score", d) \o r = r
<1>1. /\ DiscardResult = Read("RESULT", "discard") /\ ScoreResult = Read("RESULT", "score")
      /\ wait_for_result = Read("STATUS", "poll") /\ PIPELINE_LATENCY = 35
  BY DEF DiscardResult, ScoreResult, wait_for_result, PIPELINE_LATENCY
<1>2. /\ AfterRead("flush", d) = (IF d % 2 = 1 THEN <<DiscardResult>> ELSE << >>)
                                 \o <<Cycles(35), wait_for_result>>
      /\ AfterRead("poll", d) = IF d % 2 = 1 THEN <<ScoreResult>> ELSE <<Cycles(1), wait_for_result>>
      /\ AfterRead("discard", d) = << >> /\ AfterRead("score", d) = << >>
  BY <1>1 DEF AfterRead
<1>3. /\ Cycles(35) \in Calls /\ Cycles(1) \in Calls /\ wait_for_result \in Calls
      /\ DiscardResult \in Calls /\ ScoreResult \in Calls
  BY TheCalls
<1>4. << >> \in Seq(Calls) /\ << >> \o r = r
  BY ConcatEmptySeq, NoCall
<1>10. \A a, b, q : a \in Calls /\ b \in Calls /\ q \in Seq(Calls) => <<a, b>> \o q = Then(a, Then(b, q))
  BY TwoThen
<1>5. PICK two \in Seq(Calls) : two = <<Cycles(35), wait_for_result>>
  BY <1>3, TwoCalls, Zenon
<1>6. two \o r = Then(Cycles(35), Then(wait_for_result, r))
  BY <1>3, <1>5, TwoThen
<1>7. <<Cycles(1), wait_for_result>> \o r = Then(Cycles(1), Then(wait_for_result, r))
  BY <1>3, TwoThen
<1>8. CASE d % 2 = 1
  <2>1. PICK one \in Seq(Calls) : one = <<DiscardResult>>
    BY <1>3, OneCall, Zenon
  <2>2. AfterRead("flush", d) = one \o two
    BY <1>2, <1>5, <1>8, <2>1, Zenon
  <2>3. (one \o two) \o r = one \o (two \o r)
    BY <2>1, ConcatAssociative
  <2>4. AfterRead("flush", d) \o r = Then(DiscardResult, Then(Cycles(35), Then(wait_for_result, r)))
    BY <1>6, <2>1, <2>2, <2>3, Zenon DEF Then
  <2>5. AfterRead("poll", d) \o r = Then(ScoreResult, r)
    BY <1>2, <1>8, Zenon DEF Then
  <2>6. AfterRead("discard", d) \o r = r /\ AfterRead("score", d) \o r = r
    BY <1>2, <1>4
  <2> QED
    BY <1>8, <2>4, <2>5, <2>6, Zenon
<1>9. CASE d % 2 # 1
  BY <1>2, <1>4, <1>5, <1>6, <1>7, <1>9, ConcatEmptySeq
<1> QED
  BY <1>8, <1>9, Zenon

\* What each read is for.
ReadIs(c, n, t) ==
  \/ c = wait_for_new_result
  \/ c = wait_for_result /\ (n = 1 \/ t = 0)
  \/ c = DiscardResult
  \/ c = ScoreResult /\ t = 0

LEMMA ReadsFor ==
  /\ wait_for_new_result.for = "flush" /\ wait_for_result.for = "poll"
  /\ DiscardResult.for = "discard" /\ ScoreResult.for = "score"
  /\ wait_for_result.addr = "STATUS" /\ ScoreResult.addr = "RESULT"
BY DEF wait_for_result, wait_for_new_result, DiscardResult, ScoreResult, Read

LEMMA StandsAsks ==
  ASSUME NEW s, NEW i, NEW n, NEW t \in 0 .. 36, NEW x, NEW e, Stands(s, i, n, t, x, e),
         NEW c \in Calls, NEW r \in Seq(Calls), s = Then(c, r), c.op = "read"
  PROVE  x >= 0 /\ n = i + 1 /\ i \in Nat /\ ReadIs(c, n, t)
BY GoingFirst, LeadsBy, GoingIs, AwaitingFirst, TheOps DEF Stands, FirstLeads, ReadIs,
     AwaitedFirst

\* What a poll or a flush has the test do awaits the answer.
LEMMA Awaits ==
  ASSUME NEW n, NEW u \in 0 .. 36, NEW e, NEW q \in Seq(Calls), Goes(q, 2 * n, e), NEW z
  PROVE  /\ u =< 35 /\ z = Then(DiscardResult, Then(Cycles(35), Then(wait_for_result, q)))
              => Awaiting(z, n, u, e) /\ z \in Seq(Calls)
         /\ \A m \in Nat \ {0} : (n = 1 \/ u =< m) /\ z = Then(Cycles(m), Then(wait_for_result, q))
              => Awaiting(z, n, u, e) /\ z \in Seq(Calls)
         /\ u = 0 /\ z = Then(ScoreResult, q) => Awaiting(z, n, u, e) /\ z \in Seq(Calls)
<1>1. PICK p \in Seq(Calls) : p = Then(wait_for_result, q)
  BY TheCalls, ThenIs, Zenon
<1>2. \A m \in Int : Then(Cycles(m), p) \in Seq(Calls)
  BY TheCalls, ThenIs, Zenon
<1>3. Then(DiscardResult, Then(Cycles(35), p)) \in Seq(Calls)
  BY <1>2, TheCalls, ThenIs
<1>4. Then(ScoreResult, q) \in Seq(Calls)
  BY TheCalls, ThenIs, Zenon
<1>5. u =< 35 /\ z = Then(DiscardResult, Then(Cycles(35), p)) => Awaiting(z, n, u, e) /\ z \in Seq(Calls)
  BY <1>1, <1>3, Zenon DEF Awaiting
<1>6. ASSUME NEW m \in Nat \ {0}, n = 1 \/ u =< m, z = Then(Cycles(m), p)
      PROVE  Awaiting(z, n, u, e) /\ z \in Seq(Calls)
  BY <1>1, <1>2, <1>6 DEF Awaiting
<1>7. u = 0 /\ z = Then(ScoreResult, q) => Awaiting(z, n, u, e) /\ z \in Seq(Calls)
  BY <1>4, Zenon DEF Awaiting
<1> QED
  BY <1>1, <1>5, <1>6, <1>7, Zenon

\* After the answer d to the call c, the test is told right.
SaysSo(c, d, t) == c.for = "poll" /\ d % 2 = 1 => t = 0

LEMMA FlushAnswered ==
  ASSUME NEW i \in Nat, NEW n, n = i + 1, NEW u \in 0 .. 35, NEW e, NEW q \in Seq(Calls), Goes(q, 2 * n, e),
         NEW d, NEW new, Draws(AfterRead("flush", d) \o q, new)
  PROVE  Stands(new, i, n, u, 2 * i + 2, e)
<1>1. PICK p \in Seq(Calls) : p = Then(wait_for_result, q)
  BY TheCalls, ThenIs, Zenon
<1>2. Cycles(35) \in Calls /\ DiscardResult \in Calls /\ Cycles(35).op # "delay" /\ DiscardResult.op # "delay"
  BY TheOps, TheCalls
<1>3. PICK w35 \in Seq(Calls) : w35 = Then(Cycles(35), p)
  BY <1>2, ThenIs, Zenon
<1>4. new = Then(DiscardResult, w35) \/ new = w35
  <2>1. AfterRead("flush", d) \o q = IF d % 2 = 1 THEN Then(DiscardResult, w35) ELSE w35
    BY <1>1, <1>3, AfterReadIs, Zenon
  <2>2. Draws(IF d % 2 = 1 THEN Then(DiscardResult, w35) ELSE w35, new)
    BY <2>1, Zenon
  <2>3. CASE d % 2 = 1
    BY <1>2, <2>2, <2>3, NothingDrawn
  <2>4. CASE d % 2 # 1
    BY <1>2, <1>3, <2>2, <2>4, NothingDrawn
  <2> QED
    BY <2>3, <2>4
<1>5. u \in 0 .. 36 /\ u =< 35 /\ 35 \in Nat \ {0} /\ 2 * i + 2 \in Int
  OBVIOUS
<1>6. Awaiting(new, n, u, e) /\ new \in Seq(Calls)
  BY <1>1, <1>3, <1>4, <1>5, Awaits, Zenon
<1> QED
  BY <1>5, <1>6, Zenon DEF Stands

LEMMA PollAnswered ==
  ASSUME NEW i \in Nat, NEW n, n = i + 1, NEW u \in 0 .. 36, n = 1 \/ u = 0, NEW e, NEW q \in Seq(Calls), Goes(q, 2 * n, e),
         NEW d, d % 2 = 1 => u = 0, NEW new, Draws(AfterRead("poll", d) \o q, new)
  PROVE  Stands(new, i, n, u, 2 * i + 2, e)
<1>1. PICK p \in Seq(Calls) : p = Then(wait_for_result, q)
  BY TheCalls, ThenIs, Zenon
<1>2. Cycles(1) \in Calls /\ ScoreResult \in Calls /\ Cycles(1).op # "delay" /\ ScoreResult.op # "delay"
  BY TheOps, TheCalls
<1>3. (d % 2 = 1 /\ new = Then(ScoreResult, q)) \/ new = Then(Cycles(1), p)
  <2>1. AfterRead("poll", d) \o q = IF d % 2 = 1 THEN Then(ScoreResult, q) ELSE Then(Cycles(1), p)
    BY <1>1, AfterReadIs, Zenon
  <2>2. Draws(IF d % 2 = 1 THEN Then(ScoreResult, q) ELSE Then(Cycles(1), p), new)
    BY <2>1, Zenon
  <2>3. CASE d % 2 = 1
    BY <1>2, <2>2, <2>3, NothingDrawn
  <2>4. CASE d % 2 # 1
    BY <1>2, <2>2, <2>4, NothingDrawn
  <2> QED
    BY <2>3, <2>4
<1>4. 1 \in Nat \ {0} /\ 2 * i + 2 \in Int /\ (u = 0 => u =< 1)
  OBVIOUS
<1>5. Awaiting(new, n, u, e) /\ new \in Seq(Calls)
  BY <1>1, <1>3, <1>4, Awaits, Zenon
<1> QED
  BY <1>4, <1>5, Zenon DEF Stands

LEMMA StandsAnswered ==
  ASSUME NEW s, NEW i, NEW n, NEW t \in 0 .. 36, NEW x, NEW e, Stands(s, i, n, t, x, e),
         NEW c \in Calls, NEW r \in Seq(Calls), s = Then(c, r), c.op = "read",
         NEW d, SaysSo(c, d, t), NEW new, Draws(AfterRead(c.for, d) \o r, new)
  PROVE  IF c.for = "score" THEN Stands(new, i + 1, n, Earlier(t), x, e) /\ x >= 0
         ELSE \E y \in Nat : Stands(new, i, n, Earlier(t), y, e)
<1>1. PICK u \in 0 .. 35 : u = Earlier(t) /\ (t = 0 => u = 0)
  BY DEF Earlier
<1>2. i \in Nat /\ x \in Int
  BY Zenon DEF Stands
<1>3. PICK z \in Nat : z = 2 * i + 2
  BY <1>2
<1>4. u \in 0 .. 36
  OBVIOUS
<1>5. CASE Going(s, i, n, t, x, e)
  <2>1. PICK y \in Int : FirstLeads(c, r, x, y, e)
    BY <1>5, GoingFirst, Zenon
  <2>2. Leads(c, x, y) /\ Goes(r, y, e)
    BY <2>1, Zenon DEF FirstLeads
  <2>3. x >= 0 /\ x % 2 = 1 /\ y = x + 1 /\ (c = wait_for_new_result \/ (c = wait_for_result /\ x = 1))
    BY <1>2, <2>2, LeadsBy
  <2>4. x = 2 * i + 1 /\ n = i + 1
    BY <1>2, <1>5, <2>3, GoingIs
  <2>5. y = 2 * n /\ (x = 1 => n = 1)
    BY <1>2, <2>3, <2>4
  <2>6. Goes(r, 2 * n, e)
    BY <2>2, <2>5, Zenon
  <2>7. CASE c = wait_for_new_result
    BY <1>1, <1>2, <1>3, <2>4, <2>6, <2>7, ReadsFor, FlushAnswered
  <2>8. CASE c = wait_for_result /\ x = 1
    BY <1>1, <1>2, <1>3, <1>4, <2>4, <2>5, <2>6, <2>8, ReadsFor, PollAnswered DEF SaysSo
  <2> QED
    BY <2>3, <2>7, <2>8
<1>6. CASE x = 2 * i + 2 /\ n = i + 1 /\ Awaiting(s, n, t, e)
  <2>0. AwaitedFirst(c, r, n, t, e)
    BY <1>6, AwaitingFirst, Zenon
  <2>1. PICK q \in Seq(Calls) :
          /\ Goes(q, 2 * n, e)
          /\ \/ t =< 35 /\ c = DiscardResult /\ r = Then(Cycles(35), Then(wait_for_result, q))
             \/ \E m \in Nat \ {0} : (n = 1 \/ t =< m) /\ c = Cycles(m) /\ r = Then(wait_for_result, q)
             \/ (n = 1 \/ t = 0) /\ c = wait_for_result /\ r = q
             \/ t = 0 /\ c = ScoreResult /\ r = q
    BY <2>0, Zenon DEF AwaitedFirst
  <2>2. \A m : c # Cycles(m)
    BY TheOps
  <2>3. CASE c = DiscardResult /\ r = Then(Cycles(35), Then(wait_for_result, q))
    <3>1. c.for = "discard" /\ AfterRead("discard", d) \o r = r
      BY <2>3, ReadsFor, AfterReadIs
    <3>2. Draws(r, new)
      BY <3>1, Zenon
    <3>3. Cycles(35) \in Calls /\ Cycles(35).op # "delay" /\ Then(wait_for_result, q) \in Seq(Calls)
      <4>1. 35 \in Int
        OBVIOUS
      <4>2. Cycles(35).op = "cycles"
        BY TheOps, Zenon
      <4>3. Then(wait_for_result, q) \in Seq(Calls)
        BY TheCalls, ThenIs, Zenon
      <4> QED
        BY <4>1, <4>2, <4>3, TheCalls
    <3>4. new = Then(Cycles(35), Then(wait_for_result, q))
      BY <2>3, <3>2, <3>3, NothingDrawn, Zenon
    <3>5. 35 \in Nat \ {0} /\ u =< 35
      OBVIOUS
    <3>6. Awaiting(new, n, u, e) /\ new \in Seq(Calls)
      BY <1>4, <2>1, <3>4, <3>5, Awaits, Zenon
    <3>7. Stands(new, i, n, u, z, e)
      BY <1>2, <1>3, <1>6, <3>6, Zenon DEF Stands
    <3> QED
      BY <1>1, <3>1, <3>7
  <2>4. CASE (n = 1 \/ t = 0) /\ c = wait_for_result /\ r = q
    BY <1>1, <1>2, <1>3, <1>4, <1>6, <2>1, <2>4, ReadsFor, PollAnswered DEF SaysSo
  <2>5. CASE t = 0 /\ c = ScoreResult /\ r = q
    <3>1. c.for = "score" /\ AfterRead("score", d) \o r = r
      BY <2>5, ReadsFor, AfterReadIs
    <3>2. Draws(q, new)
      BY <2>5, <3>1, Zenon
    <3>3. new \in Seq(Calls) /\ Goes(new, 2 * n, e)
      BY <2>1, <3>2, GoesDrawn, Zenon
    <3>4. x = 2 * (i + 1) /\ n = i + 1 /\ i + 1 \in Nat /\ 2 * n = x /\ x >= 0
      BY <1>2, <1>6
    <3>5. Stands(new, i + 1, n, u, x, e)
      BY <1>1, <1>2, <2>5, <3>3, <3>4, Zenon DEF Stands, Going
    <3> QED
      BY <1>1, <3>1, <3>4, <3>5
  <2> QED
    BY <2>1, <2>2, <2>3, <2>4, <2>5, Zenon
<1> QED
  BY <1>5, <1>6, Zenon DEF Stands

\* The parser emits a message just when its last beat is taken.
LastTaken == bus.beat # NoV1Beat /\ Dut!s_axis_tready /\ bus.beat.last

LEMMA ParserEmits ==
  ASSUME ParserFollows, V1Edge
  PROVE  /\ parser'.state = "EMIT" <=> LastTaken
         /\ LastTaken => parser'.msg = bus.beat.msg
BY MessageIs DEF V1Edge, Dut!Clock, Dut!s_axis_tready, ParserFollows, Dut!Parse, LastTaken,
     Fresh, Gathering

LEMMA NothingEmitted ==
  ASSUME ParserFollows, V1Edge, ~LastTaken PROVE ~OrderEmitted'
BY ParserEmits DEF OrderEmitted

-----------------------------------------------------------------------------
\* What an edge writes to the weights.
BothValid == bus.aw # NoAddr /\ bus.w # NoData

LEMMA PortEdge ==
  ASSUME V1Edge, CallsInv
  PROVE  /\ wgt_addr' = IF BothValid /\ bus.aw = "WGT_ADDR" THEN bus.w ELSE wgt_addr
         /\ wgt_wr' = IF BothValid /\ bus.aw = "WGT_DATA" THEN bus.w ELSE NoData
         /\ weights' = IF wgt_wr = NoData THEN weights ELSE [weights EXCEPT ![wgt_addr] = wgt_wr]
BY DEF V1Edge, Slave!Clock, CallsInv, Slave!awready, Slave!wready, Slave!WriteChannel,
     BothValid, Dut!Clock, Dut!Memories

\* What a read is answered.
LEMMA AnswerEdge ==
  ASSUME V1Edge
  PROVE  /\ ar = "STATUS" => (rdata' % 2 = 1 <=> result_ready)
         /\ ar = "RESULT" => rdata' = result_out
<1>1. PICK s : s = (IF Dut!status_busy THEN 2 ELSE 0) + (IF result_ready THEN 1 ELSE 0)
  OBVIOUS
<1>2. Slave!ReadChannel(bus.ar, bus.rready, s, result_out)
  BY <1>1, Zenon DEF V1Edge, Slave!Clock
<1>3. rdata' = IF ar = "STATUS" THEN s ELSE IF ar = "RESULT" THEN result_out ELSE rdata
  BY <1>2, Zenon DEF Slave!ReadChannel
<1>4. s % 2 = 1 <=> result_ready
  BY <1>1
<1>5. ar = "RESULT" => ar # "STATUS"
  OBVIOUS
<1> QED
  BY <1>3, <1>4, <1>5, Zenon

\* The weights in phase x of the test, and the port they are written through.
PortTaken(c) ==
  /\ c.addr = "WGT_ADDR" => wgt_wr = NoData /\ wgt_addr = c.data
  /\ c.addr = "WGT_DATA" => wgt_wr = c.data
WeightsAt(x) == weights = [j \in 0 .. 3 |-> IF 2 * j - 6 =< x THEN Loaded(j + 1) ELSE 0]
Addressed(x) == \A j \in 0 .. 3 : x = 2 * j - 7 => wgt_addr = j
Port(x) ==
  /\ WeightsAt(x) /\ Addressed(x)
  /\ bvalid = FALSE => wgt_wr = NoData
  /\ bvalid = TRUE => PortTaken(Head(test))

\* An answer on the bus is right.
Replied(n, t) ==
  rvalid = TRUE => /\ SaysSo(Head(test), rdata, t)
                   /\ Head(test).for = "score" => rdata = Judged(n)

LEMMA SameWeights ==
  ASSUME NEW x \in Int, NEW y \in Int, WeightsAt(x), weights' = weights,
         \A j \in 0 .. 3 : 2 * j - 6 =< x <=> 2 * j - 6 =< y
  PROVE  WeightsAt(y)'
BY DEF WeightsAt

LEMMA LoadedAll == ASSUME NEW x \in Int, x >= 0, WeightsAt(x) PROVE AllLoaded
BY DEF WeightsAt, AllLoaded

\* No call but a write does anything to the weights.
LEMMA PortQuiet ==
  ASSUME V1Edge, CallsInv, NEW x \in Int, Port(x), bvalid = FALSE, bus.aw = NoAddr, bvalid' = FALSE,
         NEW y \in Int, y = x \/ (x >= 0 /\ y >= 0)
  PROVE  Port(y)'
BY PortEdge, SameWeights DEF Port, BothValid, Addressed

\* What is on its way needs all the weights.
LEMMA StandsLoaded ==
  ASSUME NEW s, NEW i, NEW n, NEW t \in 0 .. 36, NEW x, NEW e, Stands(s, i, n, t, x, e), t > 0
  PROVE  x >= 0
BY DEF Stands, Going

\* The design, at an edge at which no order is complete.
LEMMA DesignOn ==
  ASSUME Sequenced, V1Edge, ~OrderEmitted', NEW n, NEW t, Nearing(n, t), Carries(n, t),
         NEW x, NEW s, NEW i, NEW e, Stands(s, i, n, t, x, e), WeightsAt(x), NEW u, u = Earlier(t)
  PROVE  Carries(n, u)' /\ Nearing(n, u)
BY StandsLoaded, LoadedAll, MessageNears, StillNearing DEF Nearing, Stands

-----------------------------------------------------------------------------
LEMMA OneCycleLess ==
  ASSUME NEW s \in Seq(Calls), NEW d \in Int, NEW r \in Seq(Calls), s = Then(Cycles(d), r)
  PROVE  [s EXCEPT ![1].n = @ - 1] = Then(Cycles(d - 1), r)
<1>1. PICK a \in Calls : a = Cycles(d)
  BY TheCalls
<1>2. d - 1 \in Int
  OBVIOUS
<1>3. PICK b \in Calls : b = Cycles(d - 1)
  BY <1>2, TheCalls
<1>4. [a EXCEPT !.n = @ - 1] = b
  BY <1>1, <1>3 DEF Cycles
<1>5. PICK k \in Nat : k = Len(r)
  BY LenProperties
<1>6. Len(s) = k + 1 /\ s[1] = a /\ \A j \in 1 .. k : s[j + 1] = r[j]
  <2>1. /\ Len(Then(a, r)) = Len(r) + 1 /\ Then(a, r)[1] = a
        /\ \A j \in 1 .. Len(r) : Then(a, r)[j + 1] = r[j]
    BY ThenIs
  <2> QED
    BY <1>1, <1>5, <2>1, Zenon
<1>7. PICK z \in Seq(Calls) : z = Then(b, r) /\ Len(z) = k + 1 /\ z[1] = b /\ \A j \in 1 .. k : z[j + 1] = r[j]
  <2>1. /\ Then(b, r) \in Seq(Calls) /\ Len(Then(b, r)) = Len(r) + 1 /\ Then(b, r)[1] = b
        /\ \A j \in 1 .. Len(r) : Then(b, r)[j + 1] = r[j]
    BY ThenIs
  <2> QED
    BY <1>5, <2>1, Zenon
<1>8. DOMAIN s = 1 .. k + 1
  BY <1>6
<1>9. 1 \in DOMAIN s
  BY <1>8
<1>10. [s EXCEPT ![1].n = @ - 1] = [s EXCEPT ![1] = b]
  BY <1>4, <1>6, <1>9
<1>11. PICK y : y = [s EXCEPT ![1] = b]
  OBVIOUS
<1>12. /\ y \in Seq(Calls) /\ Len(y) = k + 1
       /\ \A j \in 1 .. k + 1 : y[j] = IF j = 1 THEN b ELSE s[j]
  BY <1>6, <1>8, <1>11, ExceptSeq
<1>13. ASSUME NEW j \in 1 .. k + 1 PROVE y[j] = z[j]
  <2>1. CASE j = 1
    BY <1>7, <1>12, <2>1
  <2>2. CASE j # 1
    <3>1. PICK l \in 1 .. k : j = l + 1
      BY <2>2
    <3> QED
      BY <1>6, <1>7, <1>12, <2>2, <3>1
  <2> QED
    BY <2>1, <2>2
<1>14. y = z
  BY <1>7, <1>12, <1>13, SeqEqual
<1> QED
  BY <1>3, <1>7, <1>10, <1>11, <1>14, Zenon

\* Where the test, the design and the port stand.
Placed(i, n, t, x, e) ==
  /\ Stands(test, i, n, t, x, e) /\ Nearing(n, t) /\ Carries(n, t)
  /\ Port(x) /\ Replied(n, t)

LEMMA TestBegins ==
  ASSUME CallsInv, test # << >>
  PROVE  \E c \in Calls, r \in Seq(Calls) : test = Then(c, r) /\ c = Head(test) /\ r = Tail(test)
BY HeadThenTail DEF CallsInv

LEMMA ProceedOn ==
  ASSUME NEW r \in Seq(Calls), r = Tail(test), Proceed(<< >>) PROVE Draws(r, test')
BY ConcatEmptySeq, ProceedDraws

LEMMA SilentStays ==
  ASSUME V1Edge, CallsInv, Silent, bus.aw = NoAddr, bus.w = NoData
  PROVE  bvalid' = FALSE /\ rvalid' = FALSE
BY WriteEdge, ReadEdge, Zenon DEF Silent, CallsInv

LEMMA PlacedIs ==
  ASSUME NEW i, NEW n, NEW t, NEW x, NEW e, Placed(i, n, t, x, e)
  PROVE  /\ Stands(test, i, n, t, x, e) /\ Nearing(n, t) /\ Carries(n, t) /\ Port(x) /\ Replied(n, t)
         /\ t \in 0 .. 36 /\ x \in Int /\ i \in Nat /\ WeightsAt(x)
BY Zenon DEF Placed, Stands, Nearing, Port

LEMMA CyclesPlaced ==
  ASSUME V1Inv, CallBegins, test # << >>, V1Edge, ClockCycles,
         NEW i, NEW n, NEW t, NEW x, NEW e, Placed(i, n, t, x, e), NEW u, u = Earlier(t)
  PROVE  Placed(i, n, u, x, e)' /\ actual' = actual
<1>1. CallsInv /\ ParserFollows /\ Sequenced
  BY Zenon DEF V1Inv
<1>2. PICK c \in Calls, r \in Seq(Calls) : test = Then(c, r) /\ c = Head(test) /\ r = Tail(test)
  BY <1>1, TestBegins, Zenon
<1>3. c.op = "cycles"
  BY <1>2, Zenon DEF ClockCycles
<1>4. bus = QuietBus
  BY <1>2, <1>3, DrivenIs DEF CallBegins
<1>5. bus.beat = NoV1Beat /\ bus.aw = NoAddr /\ bus.w = NoData
  BY <1>4, QuietBusIs, Zenon
<1>6. Silent
  BY Zenon DEF CallBegins
<1>7. bvalid = FALSE /\ bvalid' = FALSE /\ rvalid' = FALSE
  BY <1>1, <1>5, <1>6, SilentStays, Zenon DEF Silent
<1>8. /\ Stands(test, i, n, t, x, e) /\ Nearing(n, t) /\ Carries(n, t) /\ Port(x)
      /\ t \in 0 .. 36 /\ x \in Int /\ WeightsAt(x)
  BY PlacedIs, Zenon
<1>9. Port(x)'
  BY <1>1, <1>5, <1>7, <1>8, PortQuiet, Zenon
<1>10. Replied(n, u)'
  BY <1>7, Zenon DEF Replied
<1>11. Carries(n, u)' /\ Nearing(n, u)
  BY <1>1, <1>5, <1>8, NothingEmitted, DesignOn DEF LastTaken
<1>18. CyclesOn(c, r, i, n, u, x, e)
  BY <1>2, <1>3, <1>8, StandsCycles, Zenon
<1>12. PICK d \in Nat \ {0} :
         /\ c = Cycles(d)
         /\ d > 1 => Stands(Then(Cycles(d - 1), r), i, n, u, x, e)
         /\ d = 1 => \A new : Draws(r, new) => Stands(new, i, n, u, x, e)
  BY <1>18, Zenon DEF CyclesOn
<1>13. c.n = d
  BY <1>12, TheOps, Zenon
<1>16. Stands(test', i, n, u, x, e)
  <2>1. CASE d = 1
    BY <1>2, <1>12, <1>13, <2>1, ProceedOn DEF ClockCycles
  <2>2. CASE d # 1
    <3>1. test' = [test EXCEPT ![1].n = @ - 1]
      BY <1>2, <1>13, <2>2, Zenon DEF ClockCycles
    <3>2. d \in Int /\ d > 1
      BY <2>2
    <3>3. test \in Seq(Calls)
      BY <1>1, Zenon DEF CallsInv
    <3>5. PICK s \in Seq(Calls) : s = test /\ s = Then(Cycles(d), r)
      BY <1>2, <1>12, <3>3, Zenon
    <3>6. [s EXCEPT ![1].n = @ - 1] = Then(Cycles(d - 1), r)
      BY <3>2, <3>5, OneCycleLess, Zenon
    <3>4. test' = Then(Cycles(d - 1), r)
      BY <3>1, <3>5, <3>6, Zenon
    <3> QED
      BY <1>12, <3>2, <3>4, Zenon
  <2> QED
    BY <2>1, <2>2
<1>17. actual' = actual
  BY Zenon DEF ClockCycles
<1> QED
  BY <1>9, <1>10, <1>11, <1>16, <1>17, Zenon DEF Placed, Nearing

LEMMA SendPlaced ==
  ASSUME V1Inv, NEW k \in Nat, MessageSent(k), V1Edge, send,
         NEW i, NEW n, NEW t, NEW x, NEW e, Placed(i, n, t, x, e)
  PROVE  (\E m, v, y : Placed(i, m, v, y, e)') /\ actual' = actual
<1>1. CallsInv /\ ParserFollows /\ Sequenced
  BY Zenon DEF V1Inv
<1>0. test # << >> /\ Head(test).op = "send" /\ Silent /\ bus = SendBus(BeatOf(Head(test).msg, k))
  BY Zenon DEF MessageSent
<1>2. PICK c \in Calls, r \in Seq(Calls) : test = Then(c, r) /\ c = Head(test) /\ r = Tail(test)
  BY <1>0, <1>1, TestBegins, Zenon
<1>3. c.op = "send"
  BY <1>0, <1>2, Zenon
<1>4. PICK m \in Sendable : m = c.msg
  BY <1>3, CallIs
<1>5. bus.beat = BeatOf(m, k) /\ bus.aw = NoAddr /\ bus.w = NoData
  BY <1>0, <1>2, <1>4, SendBusIs, Zenon
<1>6. bus.beat # NoV1Beat /\ bus.beat.msg = m
  BY <1>5, MessageIs
<1>7. bvalid = FALSE /\ bvalid' = FALSE /\ rvalid' = FALSE
  BY <1>0, <1>1, <1>5, SilentStays, Zenon DEF Silent
<1>8. /\ Stands(test, i, n, t, x, e) /\ Nearing(n, t) /\ Carries(n, t) /\ Port(x)
      /\ t \in 0 .. 36 /\ x \in Int /\ i \in Nat /\ WeightsAt(x)
  BY PlacedIs, Zenon
<1>9. \A nn, uu : Replied(nn, uu)'
  BY <1>7, Zenon DEF Replied
<1>10. actual' = actual
  BY Zenon DEF send
<1>11. CASE ~LastTaken
  <2>1. test' = test
    BY <1>6, <1>11 DEF LastTaken, send
  <2>2. PICK u : u = Earlier(t)
    OBVIOUS
  <2>3. ~OrderEmitted'
    BY <1>1, <1>11, NothingEmitted, Zenon
  <2>4. Carries(n, u)' /\ Nearing(n, u)
    BY <1>1, <1>8, <2>2, <2>3, DesignOn, Zenon
  <2>5. Stands(test', i, n, u, x, e)
    BY <1>8, <2>1, <2>2, StandsWaits, Zenon
  <2>6. Port(x)'
    BY <1>1, <1>5, <1>7, <1>8, PortQuiet, Zenon
  <2>7. Placed(i, n, u, x, e)'
    BY <1>9, <2>4, <2>5, <2>6, Zenon DEF Placed, Nearing
  <2> QED
    BY <1>10, <2>7, Zenon
<1>12. CASE LastTaken
  <2>1. Proceed(<< >>)
    BY <1>12, Zenon DEF send, LastTaken
  <2>2. PICK new : new = test' /\ Draws(r, new)
    BY <1>2, <2>1, ProceedOn, Zenon
  <2>7. SendsOn(c, new, i, n, t, x, e)
    BY <1>2, <1>3, <1>8, <2>2, StandsSend, Zenon
  <2>3. /\ t = 0 /\ n = i /\ x >= 0
        /\ \/ c.msg.type # "A" /\ Stands(new, i, n, 0, x, e)
           \/ /\ n + 1 \in 1 .. Len(Prices) /\ c.msg = AddOrder(n + 1)
              /\ Stands(new, i, n + 1, 36, x + 1, e)
    BY <2>7, Zenon DEF SendsOn
  <2>4. parser'.state = "EMIT" /\ parser'.msg = m
    BY <1>1, <1>6, <1>12, ParserEmits, Zenon
  <2>5. CASE m.type # "A" /\ Stands(new, i, n, 0, x, e)
    <3>1. ~OrderEmitted'
      BY <2>4, <2>5, Zenon DEF OrderEmitted
    <3>2. 0 = Earlier(t)
      BY <2>3 DEF Earlier
    <3>3. Carries(n, 0)' /\ Nearing(n, 0)
      BY <1>1, <1>8, <3>1, <3>2, DesignOn, Zenon
    <3>4. Port(x)'
      BY <1>1, <1>5, <1>7, <1>8, PortQuiet, Zenon
    <3>5. Placed(i, n, 0, x, e)'
      BY <1>9, <2>2, <2>5, <3>3, <3>4, Zenon DEF Placed, Nearing
    <3> QED
      BY <1>10, <3>5, Zenon
  <2>6. CASE n + 1 \in 1 .. Len(Prices) /\ m = AddOrder(n + 1) /\ Stands(new, i, n + 1, 36, x + 1, e)
    <3>1. PICK o, y : o = n + 1 /\ y = x + 1 /\ y \in Int /\ y >= 0
      BY <1>8, <2>3
    <3>2. n \in 0 .. Len(Prices)
      BY <1>8, Zenon DEF Nearing
    <3>3. Carries(o, 36)' /\ Nearing(o, 36)
      BY <1>1, <1>8, <2>3, <2>4, <2>6, <3>1, <3>2, MessageBegins, Zenon
    <3>4. Port(y)'
      BY <1>1, <1>5, <1>7, <1>8, <2>3, <3>1, PortQuiet, Zenon
    <3>5. Placed(i, o, 36, y, e)'
      BY <1>9, <2>2, <2>6, <3>1, <3>3, <3>4, Zenon DEF Placed, Nearing
    <3> QED
      BY <1>10, <3>5, Zenon
  <2> QED
    BY <1>4, <2>3, <2>5, <2>6
<1> QED
  BY <1>11, <1>12

\* An edge at which the design is given no beat.
LEMMA NoBeatOn ==
  ASSUME V1Inv, V1Edge, bus.beat = NoV1Beat,
         NEW i, NEW n, NEW t, NEW x, NEW e, Placed(i, n, t, x, e), NEW u, u = Earlier(t)
  PROVE  Carries(n, u)' /\ Nearing(n, u)
BY NothingEmitted, PlacedIs, DesignOn DEF V1Inv, LastTaken

LEMMA WriteNotes ==
  ASSUME V1Inv, test # << >>, Head(test).op = "write",
         NEW i, NEW n, NEW t, NEW x, NEW e, Placed(i, n, t, x, e)
  PROVE  \E c \in Calls, r \in Seq(Calls) :
           /\ test = Then(c, r) /\ c = Head(test) /\ r = Tail(test)
           /\ WritesOn(c, r, i, n, t, x, e)
BY TestBegins, PlacedIs, StandsWrite DEF V1Inv

LEMMA WriteBegunPlaced ==
  ASSUME V1Inv, CallBegins, test # << >>, V1Edge, write,
         NEW i, NEW n, NEW t, NEW x, NEW e, Placed(i, n, t, x, e)
  PROVE  (\E m, v, y : Placed(i, m, v, y, e)') /\ actual' = actual
<1>1. CallsInv
  BY Zenon DEF V1Inv
<1>2. PICK c \in Calls, r \in Seq(Calls) :
        /\ test = Then(c, r) /\ c = Head(test) /\ r = Tail(test)
        /\ WritesOn(c, r, i, n, t, x, e)
  BY WriteNotes, Zenon DEF write
<1>3. c.op = "write"
  BY <1>2, Zenon DEF write
<1>4. PICK a, d : a = c.addr /\ d = c.data /\ a # NoAddr /\ d # NoData
  BY <1>3, CallIs
<1>5. bus = WriteBus(a, d)
  BY <1>2, <1>3, <1>4, DrivenIs, Zenon DEF CallBegins
<1>6. bus.beat = NoV1Beat /\ bus.aw = a /\ bus.w = d
  BY <1>5 DEF WriteBus, OnBus
<1>7. bus.ar = NoAddr /\ Silent /\ aw = NoAddr /\ w = NoData
  BY <1>1, <1>5, WriteBusAlso, Zenon DEF CallsInv, CallBegins
<1>8. bvalid' = TRUE /\ rvalid' = FALSE /\ bvalid = FALSE
  BY <1>4, <1>6, <1>7, WriteEdge, ReadEdge, Zenon DEF Silent
<1>9. test' = test /\ actual' = actual
  BY <1>4, <1>6, Zenon DEF write
<1>10. x \in Int /\ Port(x) /\ Stands(test, i, n, t, x, e) /\ t \in 0 .. 36
  BY PlacedIs, Zenon
<1>11. wgt_wr = NoData /\ WeightsAt(x) /\ Addressed(x)
  BY <1>8, <1>10, Zenon DEF Port
<1>12. /\ weights' = weights
       /\ wgt_addr' = IF a = "WGT_ADDR" THEN d ELSE wgt_addr
       /\ wgt_wr' = IF a = "WGT_DATA" THEN d ELSE NoData
  BY <1>1, <1>4, <1>6, <1>11, PortEdge, Zenon DEF BothValid
<1>13. WeightsAt(x)'
  BY <1>10, <1>11, <1>12, SameWeights, Zenon
<1>14. Addressed(x)'
  <2>1. a = "WGT_ADDR" => \A l \in 0 .. 3 : x # 2 * l - 7
    <3>1. PICK j \in 0 .. 3 : \/ c = Write("WGT_ADDR", j) /\ x = 2 * j - 8
                              \/ c = Write("WGT_DATA", Loaded(j + 1)) /\ x = 2 * j - 7
      BY <1>2, Zenon DEF WritesOn, Writes
    <3>2. CASE c = Write("WGT_ADDR", j) /\ x = 2 * j - 8
      BY <3>2
    <3>3. CASE c = Write("WGT_DATA", Loaded(j + 1))
      <4>1. a = "WGT_DATA"
        BY <1>4, <3>3, TheOps
      <4> QED
        BY <4>1
    <3> QED
      BY <3>1, <3>2, <3>3
  <2>2. a # "WGT_ADDR" => wgt_addr' = wgt_addr
    BY <1>12, Zenon
  <2> QED
    BY <1>11, <2>1, <2>2, Zenon DEF Addressed
<1>15. PortTaken(Head(test))'
  <2>1. a = "WGT_ADDR" => a # "WGT_DATA"
    OBVIOUS
  <2>2. Head(test') = c
    BY <1>2, <1>9, Zenon
  <2> QED
    BY <1>4, <1>12, <2>1, <2>2, Zenon DEF PortTaken
<1>16. Port(x)'
  BY <1>8, <1>13, <1>14, <1>15, Zenon DEF Port
<1>17. PICK u : u = Earlier(t)
  OBVIOUS
<1>18. Carries(n, u)' /\ Nearing(n, u)
  BY <1>6, <1>17, NoBeatOn, Zenon
<1>19. Stands(test', i, n, u, x, e)
  BY <1>9, <1>10, <1>17, StandsWaits, Zenon
<1>20. Replied(n, u)'
  BY <1>8, Zenon DEF Replied
<1>21. Placed(i, n, u, x, e)'
  BY <1>16, <1>18, <1>19, <1>20, Zenon DEF Placed, Nearing
<1> QED
  BY <1>9, <1>21, Zenon

LEMMA WriteEndedPlaced ==
  ASSUME V1Inv, WriteTaken, V1Edge, write,
         NEW i, NEW n, NEW t, NEW x, NEW e, Placed(i, n, t, x, e)
  PROVE  (\E m, v, y : Placed(i, m, v, y, e)') /\ actual' = actual
<1>1. CallsInv
  BY Zenon DEF V1Inv
<1>2. PICK c \in Calls, r \in Seq(Calls) :
        /\ test = Then(c, r) /\ c = Head(test) /\ r = Tail(test)
        /\ WritesOn(c, r, i, n, t, x, e)
  BY WriteNotes, Zenon DEF WriteTaken
<1>3. bus = WriteBus(NoAddr, NoData) /\ bvalid = TRUE /\ rvalid = FALSE /\ ar = NoAddr
  BY Zenon DEF WriteTaken
<1>4. PICK a, d : bus = WriteBus(a, d) /\ a = NoAddr /\ d = NoData
  BY <1>3, Zenon
<1>5. bus.beat = NoV1Beat /\ bus.aw = NoAddr /\ bus.w = NoData
  BY <1>4, WriteBusIs
<1>6. bus.ar = NoAddr /\ bus.bready = TRUE
  BY <1>4, WriteBusAlso, Zenon
<1>7. bvalid' = FALSE /\ rvalid' = FALSE
  BY <1>1, <1>3, <1>5, <1>6, WriteEdge, ReadEdge, Zenon DEF CallsInv
<1>8. Proceed(<< >>) /\ actual' = actual
  BY <1>3, <1>5, Zenon DEF write
<1>9. Draws(r, test')
  BY <1>2, <1>8, ProceedOn, Zenon
<1>10. i = 0 /\ n = 0 /\ t = 0 /\ Writes(c, x) /\ Stands(test', 0, 0, 0, x + 1, e)
  BY <1>2, <1>9, Zenon DEF WritesOn
<1>11. x \in Int /\ Port(x)
  BY PlacedIs, Zenon
<1>12. WeightsAt(x) /\ Addressed(x) /\ PortTaken(c)
  BY <1>2, <1>3, <1>11, Zenon DEF Port
<1>13. /\ wgt_addr' = wgt_addr /\ wgt_wr' = NoData
       /\ weights' = IF wgt_wr = NoData THEN weights ELSE [weights EXCEPT ![wgt_addr] = wgt_wr]
  BY <1>1, <1>5, PortEdge, Zenon DEF BothValid
<1>14. PICK y \in Int : y = x + 1
  BY <1>11
<1>15. WeightsAt(y)' /\ Addressed(y)'
  <2>1. PICK j \in 0 .. 3 : \/ c = Write("WGT_ADDR", j) /\ x = 2 * j - 8
                            \/ c = Write("WGT_DATA", Loaded(j + 1)) /\ x = 2 * j - 7
    BY <1>10, Zenon DEF Writes
  <2>2. CASE c = Write("WGT_ADDR", j) /\ x = 2 * j - 8
    <3>1. c.addr = "WGT_ADDR" /\ c.data = j
      BY <2>2, TheOps
    <3>2. wgt_wr = NoData /\ wgt_addr = j
      BY <1>12, <3>1, Zenon DEF PortTaken
    <3>3. \A l \in 0 .. 3 : 2 * l - 6 =< x <=> 2 * l - 6 =< y
      BY <1>14, <2>2
    <3>4. WeightsAt(y)'
      BY <1>11, <1>12, <1>13, <3>2, <3>3, SameWeights, Zenon
    <3>5. \A l \in 0 .. 3 : y = 2 * l - 7 => l = j
      BY <1>14, <2>2
    <3> QED
      BY <1>13, <3>2, <3>4, <3>5, Zenon DEF Addressed
  <2>3. CASE c = Write("WGT_DATA", Loaded(j + 1)) /\ x = 2 * j - 7
    <3>1. c.addr = "WGT_DATA" /\ c.data = Loaded(j + 1) /\ c.op = "write"
      BY <2>3, TheOps
    <3>2. wgt_wr = Loaded(j + 1) /\ wgt_wr # NoData
      BY <1>12, <3>1, CallIs, Zenon DEF PortTaken
    <3>3. wgt_addr = j
      BY <1>12, <2>3, Zenon DEF Addressed
    <3>4. weights' = [weights EXCEPT ![j] = Loaded(j + 1)]
      BY <1>13, <3>2, <3>3, Zenon
    <3>5. weights = [l \in 0 .. 3 |-> IF 2 * l - 6 =< x THEN Loaded(l + 1) ELSE 0]
      BY <1>12, Zenon DEF WeightsAt
    <3>6. ASSUME NEW l \in 0 .. 3
          PROVE  (IF l = j THEN Loaded(j + 1) ELSE IF 2 * l - 6 =< x THEN Loaded(l + 1) ELSE 0)
                   = IF 2 * l - 6 =< y THEN Loaded(l + 1) ELSE 0
      <4>1. CASE l = j
        <5>1. 2 * l - 6 =< y
          BY <1>14, <2>3, <4>1
        <5> QED
          BY <4>1, <5>1
      <4>2. CASE l # j
        <5>1. 2 * l - 6 =< x <=> 2 * l - 6 =< y
          BY <1>14, <2>3, <4>2
        <5> QED
          BY <4>2, <5>1
      <4> QED
        BY <4>1, <4>2
    <3>7. weights' = [l \in 0 .. 3 |-> IF l = j THEN Loaded(j + 1)
                                       ELSE IF 2 * l - 6 =< x THEN Loaded(l + 1) ELSE 0]
      BY <3>4, <3>5
    <3>8. weights' = [l \in 0 .. 3 |-> IF 2 * l - 6 =< y THEN Loaded(l + 1) ELSE 0]
      BY <3>6, <3>7
    <3>9. \A l \in 0 .. 3 : y # 2 * l - 7
      BY <1>14, <2>3
    <3> QED
      BY <3>8, <3>9, Zenon DEF WeightsAt, Addressed
  <2> QED
    BY <2>1, <2>2, <2>3
<1>16. Port(y)'
  BY <1>7, <1>13, <1>15, Zenon DEF Port
<1>17. 0 = Earlier(t)
  BY <1>10 DEF Earlier
<1>18. Carries(n, 0)' /\ Nearing(n, 0)
  BY <1>5, <1>17, NoBeatOn, Zenon
<1>19. Replied(n, 0)'
  BY <1>7, Zenon DEF Replied
<1>20. Stands(test', i, n, 0, y, e)
  BY <1>10, <1>14, Zenon
<1>21. Placed(i, n, 0, y, e)'
  BY <1>16, <1>18, <1>19, <1>20, Zenon DEF Placed, Nearing
<1> QED
  BY <1>8, <1>21, Zenon

\* The call of a read, and what of it is known.
LEMMA ReadNotes ==
  ASSUME V1Inv, test # << >>, Head(test).op = "read",
         NEW i, NEW n, NEW t, NEW x, NEW e, Placed(i, n, t, x, e)
  PROVE  \E c \in Calls, r \in Seq(Calls) :
           /\ test = Then(c, r) /\ c = Head(test) /\ r = Tail(test) /\ c.op = "read"
           /\ x >= 0 /\ n = i + 1 /\ ReadIs(c, n, t)
<1>1. PICK c \in Calls, r \in Seq(Calls) : test = Then(c, r) /\ c = Head(test) /\ r = Tail(test)
  BY TestBegins, Zenon DEF V1Inv
<1>2. c.op = "read"
  BY <1>1, Zenon
<1>3. Stands(test, i, n, t, x, e) /\ t \in 0 .. 36
  BY PlacedIs, Zenon
<1>4. x >= 0 /\ n = i + 1 /\ ReadIs(c, n, t)
  BY <1>1, <1>2, <1>3, StandsAsks, Zenon
<1> QED
  BY <1>1, <1>2, <1>4, Zenon

LEMMA ReadBegunPlaced ==
  ASSUME V1Inv, CallBegins, test # << >>, V1Edge, read,
         NEW i, NEW n, NEW t, NEW x, NEW e, Placed(i, n, t, x, e)
  PROVE  (\E m, v, y : Placed(i, m, v, y, e)') /\ actual' = actual
<1>1. CallsInv
  BY Zenon DEF V1Inv
<1>2. Head(test).op = "read" /\ Silent
  BY Zenon DEF read, CallBegins
<1>3. PICK a : bus = ReadBus(a)
  BY <1>2, DrivenIs, Zenon DEF CallBegins
<1>4. bus.beat = NoV1Beat /\ bus.aw = NoAddr /\ bus.w = NoData
  BY <1>3, ReadBusIs, Zenon
<1>5. bvalid' = FALSE /\ rvalid' = FALSE /\ bvalid = FALSE
  BY <1>1, <1>2, <1>4, SilentStays, Zenon DEF Silent
<1>6. test' = test /\ actual' = actual
  BY <1>2, Zenon DEF read, Silent
<1>7. x \in Int /\ Port(x) /\ Stands(test, i, n, t, x, e) /\ t \in 0 .. 36
  BY PlacedIs, Zenon
<1>8. Port(x)'
  BY <1>1, <1>4, <1>5, <1>7, PortQuiet, Zenon
<1>9. PICK u : u = Earlier(t)
  OBVIOUS
<1>10. Carries(n, u)' /\ Nearing(n, u)
  BY <1>4, <1>9, NoBeatOn, Zenon
<1>11. Stands(test', i, n, u, x, e)
  BY <1>6, <1>7, <1>9, StandsWaits, Zenon
<1>12. Replied(n, u)'
  BY <1>5, Zenon DEF Replied
<1>13. Placed(i, n, u, x, e)'
  BY <1>8, <1>10, <1>11, <1>12, Zenon DEF Placed, Nearing
<1> QED
  BY <1>6, <1>13, Zenon

\* A read that is asked leaves the other channels alone.
LEMMA ReadAskedIs ==
  ASSUME V1Inv, ReadAsked, V1Edge
  PROVE  /\ bus.beat = NoV1Beat /\ bus.aw = NoAddr /\ bus.ar = NoAddr
         /\ bvalid = FALSE /\ bvalid' = FALSE
         /\ rvalid = FALSE => ar = Head(test).addr /\ rvalid' = TRUE
         /\ rvalid # FALSE => rvalid = TRUE /\ rvalid' = FALSE
BY ReadBusIs, WriteEdge, TestBegins, CallIs, ReadEdge DEF V1Inv, CallsInv, ReadAsked

LEMMA ReadWaitsPlaced ==
  ASSUME V1Inv, ReadAsked, rvalid = FALSE, V1Edge, read,
         NEW i, NEW n, NEW t, NEW x, NEW e, Placed(i, n, t, x, e)
  PROVE  (\E m, v, y : Placed(i, m, v, y, e)') /\ actual' = actual
<1>1. CallsInv
  BY Zenon DEF V1Inv
<1>2. PICK c \in Calls, r \in Seq(Calls) :
        /\ test = Then(c, r) /\ c = Head(test) /\ r = Tail(test) /\ c.op = "read"
        /\ x >= 0 /\ n = i + 1 /\ ReadIs(c, n, t)
  BY ReadNotes, Zenon DEF ReadAsked
<1>3. /\ bus.beat = NoV1Beat /\ bus.aw = NoAddr /\ bvalid = FALSE /\ bvalid' = FALSE
      /\ ar = c.addr /\ rvalid' = TRUE
  BY <1>2, ReadAskedIs, Zenon
<1>4. test' = test /\ actual' = actual
  BY Zenon DEF read
<1>5. /\ x \in Int /\ Port(x) /\ Stands(test, i, n, t, x, e) /\ t \in 0 .. 36 /\ i \in Nat
      /\ Carries(n, t)
  BY PlacedIs, Zenon
<1>6. Port(x)'
  BY <1>1, <1>3, <1>5, PortQuiet, Zenon
<1>7. PICK u : u = Earlier(t) /\ (t = 0 => u = 0)
  BY DEF Earlier
<1>8. Carries(n, u)' /\ Nearing(n, u)
  BY <1>3, <1>7, NoBeatOn, Zenon
<1>9. Stands(test', i, n, u, x, e)
  BY <1>4, <1>5, <1>7, StandsWaits, Zenon
<1>10. SaysSo(c, rdata', u) /\ (c.for = "score" => rdata' = Judged(n))
  <2>1. /\ IF n > 1 \/ (n = 1 /\ t = 0) THEN result_ready = TRUE ELSE result_ready = FALSE
        /\ t = 0 /\ n > 0 => result_out = Judged(n)
    BY <1>5, Zenon DEF Carries, InBuffer
  <2>2. CASE c = wait_for_new_result \/ c = DiscardResult
    BY <2>2, ReadsFor DEF SaysSo
  <2>3. CASE c = wait_for_result /\ (n = 1 \/ t = 0)
    BY <1>3, <1>7, <2>1, <2>3, ReadsFor, AnswerEdge DEF SaysSo
  <2>4. CASE c = ScoreResult /\ t = 0
    <3>1. c.for = "score" /\ c.for # "poll" /\ ar = "RESULT"
      BY <1>3, <2>4, ReadsFor
    <3>2. n > 0
      BY <1>2, <1>5
    <3>3. rdata' = Judged(n)
      BY <2>1, <2>4, <3>1, <3>2, AnswerEdge, Zenon
    <3> QED
      BY <3>1, <3>3, Zenon DEF SaysSo
  <2> QED
    BY <1>2, <2>2, <2>3, <2>4, Zenon DEF ReadIs
<1>11. Replied(n, u)'
  BY <1>2, <1>4, <1>10 DEF Replied, SaysSo, Judged
<1>12. Placed(i, n, u, x, e)'
  BY <1>6, <1>8, <1>9, <1>11, Zenon DEF Placed, Nearing
<1> QED
  BY <1>4, <1>12, Zenon

LEMMA ReadEndedPlaced ==
  ASSUME V1Inv, ReadAsked, rvalid # FALSE, V1Edge, read,
         NEW i, NEW n, NEW t, NEW x, NEW e, Placed(i, n, t, x, e)
  PROVE  \/ (\E m, v, y : Placed(i, m, v, y, e)') /\ actual' = actual
         \/ (\E m, v, y : Placed(i + 1, m, v, y, e)') /\ actual' = Append(actual, Judged(i + 1))
<1>1. CallsInv
  BY Zenon DEF V1Inv
<1>2. PICK c \in Calls, r \in Seq(Calls) :
        /\ test = Then(c, r) /\ c = Head(test) /\ r = Tail(test) /\ c.op = "read"
        /\ x >= 0 /\ n = i + 1 /\ ReadIs(c, n, t)
  BY ReadNotes, Zenon DEF ReadAsked
<1>3. /\ bus.beat = NoV1Beat /\ bus.aw = NoAddr /\ bus.ar = NoAddr /\ bvalid = FALSE /\ bvalid' = FALSE
      /\ rvalid = TRUE /\ rvalid' = FALSE
  BY ReadAskedIs, Zenon
<1>4. PICK new : new = test'
  OBVIOUS
<1>5. PICK d : d = rdata
  OBVIOUS
<1>6. /\ Proceed(AfterRead(c.for, d))
      /\ actual' = IF c.for = "score" THEN Append(actual, d) ELSE actual
  BY <1>2, <1>3, <1>5, Zenon DEF read
<1>7. PICK rest : rest = AfterRead(c.for, d) \o r
  OBVIOUS
<1>8. Draws(rest, new)
  BY <1>2, <1>4, <1>6, <1>7, ProceedDraws
<1>9. /\ x \in Int /\ Port(x) /\ Stands(test, i, n, t, x, e) /\ t \in 0 .. 36 /\ i \in Nat
      /\ Replied(n, t)
  BY PlacedIs, Zenon
<1>10. SaysSo(c, d, t) /\ (c.for = "score" => d = Judged(n))
  BY <1>2, <1>3, <1>5, <1>9, Zenon DEF Replied
<1>11. PICK u : u = Earlier(t)
  OBVIOUS
<1>12. IF c.for = "score" THEN Stands(new, i + 1, n, u, x, e) /\ x >= 0
       ELSE \E y \in Nat : Stands(new, i, n, u, y, e)
  BY <1>2, <1>7, <1>8, <1>9, <1>10, <1>11, StandsAnswered, Zenon
<1>13. Carries(n, u)' /\ Nearing(n, u)
  BY <1>3, <1>11, NoBeatOn, Zenon
<1>14. Replied(n, u)'
  BY <1>3, Zenon DEF Replied
<1>15. CASE c.for = "score"
  BY <1>1, <1>2, <1>3, <1>4, <1>6, <1>9, <1>10, <1>12, <1>13, <1>14, <1>15, PortQuiet DEF
       Placed, Nearing
<1>16. CASE c.for # "score"
  <2>1. PICK y \in Nat : Stands(new, i, n, u, y, e)
    BY <1>12, <1>16, Zenon
  <2>2. y \in Int /\ y >= 0
    BY <2>1
  <2>3. Port(y)'
    BY <1>1, <1>2, <1>3, <1>9, <2>2, PortQuiet, Zenon
  <2>4. Placed(i, n, u, y, e)'
    BY <1>4, <1>13, <1>14, <2>1, <2>3, Zenon DEF Placed, Nearing
  <2> QED
    BY <1>6, <1>16, <2>4, Zenon
<1> QED
  BY <1>15, <1>16

\* Every step of a test keeps where things stand.
PlacedNext(i, e) ==
  \/ (\E m, v, y : Placed(i, m, v, y, e)') /\ actual' = actual
  \/ (\E m, v, y : Placed(i + 1, m, v, y, e)') /\ actual' = Append(actual, Judged(i + 1))

LEMMA PlacedKept ==
  ASSUME V1Inv, V1Next, NEW i, NEW n, NEW t, NEW x, NEW e, Placed(i, n, t, x, e)
  PROVE  PlacedNext(i, e)
<1>1. test # << >> /\ V1Edge /\ (ClockCycles \/ send \/ write \/ read)
  BY Zenon DEF V1Next
<1>2. /\ ClockCycles => Head(test).op = "cycles"
      /\ send => Head(test).op = "send"
      /\ write => Head(test).op = "write"
      /\ read => Head(test).op = "read"
  BY Zenon DEF ClockCycles, send, write, read
<1>3. CallBegins \/ WriteTaken \/ ReadAsked \/ \E k \in Nat : MessageSent(k)
  BY Zenon DEF V1Inv, CallsInv, CallStands
<1>4. /\ WriteTaken => Head(test).op = "write"
      /\ ReadAsked => Head(test).op = "read"
      /\ \A k \in Nat : MessageSent(k) => Head(test).op = "send"
  BY Zenon DEF WriteTaken, ReadAsked, MessageSent
<1>5. CASE Head(test).op = "cycles"
  BY <1>1, <1>2, <1>3, <1>4, <1>5, CyclesPlaced DEF PlacedNext
<1>6. CASE Head(test).op = "write"
  BY <1>1, <1>2, <1>3, <1>4, <1>6, WriteBegunPlaced, WriteEndedPlaced DEF PlacedNext
<1>7. CASE Head(test).op = "read"
  BY <1>1, <1>2, <1>3, <1>4, <1>7, ReadBegunPlaced, ReadWaitsPlaced, ReadEndedPlaced DEF
       PlacedNext
<1>8. CASE Head(test).op = "send"
  BY <1>1, <1>2, <1>3, <1>4, <1>8, DrivenIs, NoBeats, SendPlaced DEF CallBegins, MessageSent,
       PlacedNext
<1> QED
  BY <1>1, <1>2, <1>5, <1>6, <1>7, <1>8, Zenon

\* The results that a test has, and those it will have.
Results == {Judged(k) : k \in Nat}
Scored(i) == actual \in Seq(Results) /\ Len(actual) = i /\ \A k \in 1 .. i : actual[k] = Judged(k)
OrdersAre(p) ==
  /\ p \in {2, Len(Prices)}
  /\ adds \in Seq(AddOrders) /\ Len(adds) = p /\ \A k \in 1 .. p : adds[k] = AddOrder(k)
ScoresInv ==
  \E i \in Nat, p \in Nat : /\ Scored(i) /\ OrdersAre(p)
                            /\ \E n, t, x : Placed(i, n, t, x, 2 * p)

LEMMA ScoredNext ==
  ASSUME NEW i \in Nat, Scored(i), actual' = Append(actual, Judged(i + 1)) PROVE Scored(i + 1)'
BY AppendProperties DEF Scored, Results, Judged

LEMMA ScoresKept ==
  ASSUME V1Inv, V1Next, ScoresInv PROVE ScoresInv'
BY PlacedKept, ScoredNext DEF ScoresInv, V1Next, OrdersAre, Scored, PlacedNext

\* A sequence without its last element.
LEMMA LastApart ==
  ASSUME NEW X, NEW s \in Seq(X), NEW k \in Nat, Len(s) = k + 1
  PROVE  \E p \in Seq(X) : /\ Len(p) = k /\ \A j \in 1 .. k : p[j] = s[j]
                           /\ s[k + 1] \in X /\ s = Append(p, s[k + 1])
<1>1. \A j \in 1 .. k + 1 : s[j] \in X
  BY ElementOfSeq
<1>2. PICK p : p = [j \in 1 .. k |-> s[j]]
  OBVIOUS
<1>3. p \in [1 .. k -> X]
  BY <1>1, <1>2
<1>4. p \in Seq(X) /\ Len(p) = k
  BY <1>3, SeqDef, LenProperties
<1>5. \A j \in 1 .. k : p[j] = s[j]
  BY <1>2
<1>6. PICK x \in X : x = s[k + 1]
  BY <1>1
<1>7. PICK t : t = Append(p, x)
  OBVIOUS
<1>8. t \in Seq(X) /\ Len(t) = k + 1 /\ (\A j \in 1 .. k : t[j] = p[j]) /\ t[k + 1] = x
  BY <1>4, <1>7, AppendProperties
<1>9. ASSUME NEW j \in 1 .. k + 1 PROVE s[j] = t[j]
  BY <1>5, <1>6, <1>8
<1>10. s = t
  BY <1>8, <1>9, SeqEqual
<1> QED
  BY <1>4, <1>5, <1>6, <1>7, <1>10, Zenon

\* Blocks of calls, each of which goes on where the one before ends.
Linked(bs, k, f) ==
  /\ bs \in Seq(Seq(Calls)) /\ Len(bs) = k
  /\ \A j \in 1 .. k : Goes(bs[j], f[j - 1], f[j])

LEMMA BlocksGo ==
  ASSUME NEW f, f[0] \in Int
  PROVE  \A k \in Nat : \A bs : Linked(bs, k, f) => Goes(FlattenSeq(bs), f[0], f[k])
<1> DEFINE S == {k \in Nat : \A bs : Linked(bs, k, f) => Goes(FlattenSeq(bs), f[0], f[k])}
<1>1. 0 \in S
  BY EmptySeq, LenProperties, FlatNone, StaysThere DEF Linked
<1>2. ASSUME NEW k \in Nat, k \in S PROVE k + 1 \in S
  <2> SUFFICES ASSUME NEW bs, Linked(bs, k + 1, f) PROVE Goes(FlattenSeq(bs), f[0], f[k + 1])
    OBVIOUS
  <2>1. bs \in Seq(Seq(Calls)) /\ Len(bs) = k + 1 /\ \A j \in 1 .. k + 1 : Goes(bs[j], f[j - 1], f[j])
    BY Zenon DEF Linked
  <2>2. PICK p \in Seq(Seq(Calls)) :
          /\ Len(p) = k /\ \A j \in 1 .. k : p[j] = bs[j]
          /\ bs[k + 1] \in Seq(Calls) /\ bs = Append(p, bs[k + 1])
    BY <2>1, LastApart, Zenon
  <2>3. PICK x \in Seq(Calls) : x = bs[k + 1]
    BY <2>2
  <2>4. Linked(p, k, f)
    BY <2>1, <2>2 DEF Linked
  <2>5. Goes(FlattenSeq(p), f[0], f[k])
    BY <1>2, <2>4, Zenon
  <2>6. Goes(x, f[k], f[k + 1])
    BY <2>1, <2>3
  <2>7. FlattenSeq(bs) = FlattenSeq(p) \o x
    BY <2>2, <2>3, FlatMore, Zenon
  <2>8. FlattenSeq(p) \in Seq(Calls)
    BY FlatType, Zenon
  <2> QED
    BY <2>5, <2>6, <2>7, <2>8, GoesAlso, Zenon
<1> HIDE DEF S
<1>3. Nat \subseteq S
  BY <1>1, <1>2, AllNumbers, Zenon
<1> QED
  BY <1>3, Zenon DEF S

\* A function on 1 .. n with values in X is a sequence of length n.
LEMMA SeqOfLen ==
  ASSUME NEW X, NEW n \in Nat, NEW s \in [1 .. n -> X] PROVE s \in Seq(X) /\ Len(s) = n
BY SeqDef, LenProperties

\* The weights are written one after the other.
LEMMA LoadGoes == Goes(load_weights, -8, 0)
<1> DEFINE c == [i \in DOMAIN Weights |-> <<Write("WGT_ADDR", i - 1),
                                          Write("WGT_DATA", bfloat16(Weights[i]))>>]
           f == [k \in 0 .. 4 |-> 2 * k - 8]
<1>1. DOMAIN Weights = 1 .. 4
  BY V1Assumption, LenProperties
<1>2. ASSUME NEW i \in 1 .. 4
      PROVE  /\ <<Write("WGT_ADDR", i - 1), Write("WGT_DATA", bfloat16(Weights[i]))>> \in Seq(Calls)
             /\ Goes(<<Write("WGT_ADDR", i - 1), Write("WGT_DATA", bfloat16(Weights[i]))>>, f[i - 1], f[i])
  <2>1. PICK a \in Calls : a = Write("WGT_ADDR", i - 1)
    BY WriteCall DEF Datums
  <2>2. PICK b \in Calls : b = Write("WGT_DATA", bfloat16(Weights[i]))
    BY <1>1, WriteCall DEF Datums
  <2>3. PICK x \in Int : x = 2 * i - 10
    OBVIOUS
  <2>4. PICK y \in Int : y = 2 * i - 9
    OBVIOUS
  <2>5. PICK z \in Int : z = 2 * i - 8
    OBVIOUS
  <2>6. PICK j \in 0 .. 3 : j = i - 1
    OBVIOUS
  <2>7. Goes(<<a>>, x, y)
    BY <2>1, <2>3, <2>4, <2>6, GoesOnce DEF Leads
  <2>8. Goes(<<b>>, y, z)
    BY <2>2, <2>4, <2>5, <2>6, GoesOnce DEF Loaded, Leads
  <2>9. <<a>> \in Seq(Calls) /\ <<b>> \in Seq(Calls) /\ <<a>> \o <<b>> = <<a, b>> /\ <<a, b>> \in Seq(Calls)
    BY OneCall, TwoOnes, TwoCalls, Zenon
  <2>10. Goes(<<a, b>>, x, z)
    BY <2>7, <2>8, <2>9, GoesAlso
  <2>11. f[i - 1] = x /\ f[i] = z
    BY <2>3, <2>5
  <2> HIDE DEF f
  <2> QED
    BY <2>1, <2>2, <2>9, <2>10, <2>11, Zenon
<1>3. f[0] = -8 /\ f[4] = 0
  OBVIOUS
<1> HIDE DEF f
<1>4. c \in [1 .. 4 -> Seq(Calls)]
  BY <1>1, <1>2, Zenon
<1>5. \A j \in 1 .. 4 : Goes(c[j], f[j - 1], f[j])
  BY <1>1, <1>2, Zenon
<1> HIDE DEF c
<1>6. c \in Seq(Seq(Calls)) /\ Len(c) = 4
  BY <1>4, SeqOfLen
<1>7. Linked(c, 4, f)
  BY <1>5, <1>6, Zenon DEF Linked
<1>8. f[0] \in Int /\ 4 \in Nat
  BY <1>3
<1>9. Goes(FlattenSeq(c), f[0], f[4])
  BY <1>7, <1>8, BlocksGo, Zenon
<1> QED
  BY <1>3, <1>9, Zenon DEF load_weights, c

LEMMA CyclesGo == ASSUME NEW a \in Nat, NEW d \in Nat \ {0} PROVE Goes(<<Cycles(d)>>, a, a)
BY CyclesCall, GoesOnce DEF Leads

LEMMA LoadThenWaitGoes ==
  Goes(load_weights \o <<Cycles(5)>>, -8, 0)
<1>1. Goes(<<Cycles(5)>>, 0, 0) /\ 5 \in Int
  BY CyclesGo
<1>2. <<Cycles(5)>> \in Seq(Calls)
  BY <1>1, CyclesCall, OneCall, Zenon
<1> QED
  BY <1>1, <1>2, LoadGoes, LoadIsCalls, GoesAlso, Zenon

LEMMA ThreeOnes ==
  ASSUME NEW X, NEW a \in X, NEW b \in X, NEW c \in X
  PROVE  (<<a>> \o <<b>>) \o <<c>> = <<a, b, c>>
<1>1. <<a, b>> \in Seq(X) /\ <<c>> \in Seq(X) /\ <<a, b, c>> \in Seq(X)
  BY OneCall, TwoCalls, ThreeCalls, Zenon
<1>2. PICK s \in Seq(X) : s = <<a, b>> /\ Len(s) = 2 /\ s[1] = a /\ s[2] = b
  BY <1>1
<1>3. PICK t \in Seq(X) : t = <<c>> /\ Len(t) = 1 /\ t[1] = c
  BY <1>1
<1>4. PICK u : u = s \o t
  OBVIOUS
<1>5. /\ u \in Seq(X) /\ Len(u) = Len(s) + Len(t)
      /\ \A i \in 1 .. Len(s) + Len(t) : u[i] = IF i <= Len(s) THEN s[i] ELSE t[i - Len(s)]
  BY <1>4, ConcatProperties
<1>6. Len(u) = 3 /\ u[1] = a /\ u[2] = b /\ u[3] = c
  BY <1>2, <1>3, <1>5
<1>7. PICK v \in Seq(X) : v = <<a, b, c>> /\ Len(v) = 3 /\ v[1] = a /\ v[2] = b /\ v[3] = c
  BY <1>1
<1>8. ASSUME NEW i \in 1 .. 3 PROVE u[i] = v[i]
  BY <1>6, <1>7
<1>9. u = v
  BY <1>5, <1>6, <1>7, <1>8, SeqEqual
<1> QED
  BY <1>2, <1>3, <1>4, <1>7, <1>9, TwoOnes, Zenon

LEMMA SendLeads ==
  ASSUME NEW i \in 1 .. Len(Prices) PROVE Goes(<<Send(AddOrder(i))>>, 2 * i - 2, 2 * i - 1)
BY OrderCall, GoesOnce DEF Leads

LEMMA WaitLeads ==
  ASSUME NEW i \in Nat \ {0}, NEW c, c = wait_for_new_result \/ (c = wait_for_result /\ i = 1)
  PROVE  Goes(<<c>>, 2 * i - 1, 2 * i)
BY WaitCalls, GoesOnce DEF Leads

LEMMA DelayLeads == ASSUME NEW a \in Nat PROVE Goes(<<InterMessageDelay>>, a, a)
BY DelayCall, GoesOnce DEF Leads

LEMMA RoundGoes ==
  ASSUME NEW i \in 1 .. Len(Prices)
  PROVE  Goes(<<Send(AddOrder(i)), InterMessageDelay,
                IF i = 1 THEN wait_for_result ELSE wait_for_new_result>>, 2 * i - 2, 2 * i)
<1>1. PICK a \in Calls : a = Send(AddOrder(i))
  BY OrderCall
<1>2. PICK b \in Calls : b = InterMessageDelay
  BY DelayCall
<1>3. PICK c \in Calls : c = IF i = 1 THEN wait_for_result ELSE wait_for_new_result
  BY WaitCalls, Zenon
<1>4. PICK x : x = 2 * i - 2
  OBVIOUS
<1>5. PICK y \in Nat : y = 2 * i - 1
  OBVIOUS
<1>6. PICK z : z = 2 * i
  OBVIOUS
<1>7. PICK p \in Seq(Calls) : p = <<a>>
  BY OneCall, Zenon
<1>8. PICK q \in Seq(Calls) : q = <<b>>
  BY OneCall, Zenon
<1>9. PICK r \in Seq(Calls) : r = <<c>>
  BY OneCall, Zenon
<1>10. Goes(p, x, y)
  BY <1>1, <1>4, <1>5, <1>7, SendLeads, Zenon
<1>11. Goes(q, y, y)
  BY <1>2, <1>8, DelayLeads, Zenon
<1>12. Goes(r, y, z)
  BY <1>3, <1>5, <1>6, <1>9, WaitLeads
<1>13. p \o q \in Seq(Calls) /\ Goes(p \o q, x, y)
  BY <1>10, <1>11, GoesAlso, BothCalls, Zenon
<1>14. Goes((p \o q) \o r, x, z)
  BY <1>12, <1>13, GoesAlso, Zenon
<1>15. (p \o q) \o r = <<a, b, c>>
  BY <1>7, <1>8, <1>9, ThreeOnes, Zenon
<1> QED
  BY <1>1, <1>2, <1>3, <1>4, <1>6, <1>14, <1>15, Zenon

LEMMA StressGoes == Goes(StressTest(Len(Prices)), -8, 2 * Len(Prices))
<1> DEFINE c == [i \in 1 .. Len(Prices) |->
                   <<Send(AddOrder(i)), InterMessageDelay,
                     IF i = 1 THEN wait_for_result ELSE wait_for_new_result>>]
           f == [k \in 0 .. Len(Prices) |-> 2 * k]
<1>1. PICK n \in Nat : n = Len(Prices)
  BY V1Assumption, LenProperties
<1>2. ASSUME NEW i \in 1 .. n PROVE f[i - 1] = 2 * i - 2 /\ f[i] = 2 * i
  BY <1>1
<1>3. f[0] = 0 /\ f[n] = 2 * n
  BY <1>1
<1> HIDE DEF f
<1>4. c \in [1 .. n -> Seq(Calls)]
  BY <1>1, WaitCalls, OrderCall, DelayCall, ThreeCalls
<1>5. ASSUME NEW i \in 1 .. n PROVE Goes(c[i], f[i - 1], f[i])
  <2>1. Goes(c[i], 2 * i - 2, 2 * i)
    BY <1>1, RoundGoes, Zenon
  <2> HIDE DEF c
  <2> QED
    BY <1>2, <2>1, Zenon
<1> HIDE DEF c
<1>6. c \in Seq(Seq(Calls)) /\ Len(c) = n
  BY <1>4, SeqOfLen
<1>7. Linked(c, n, f)
  BY <1>5, <1>6, Zenon DEF Linked
<1>8. f[0] \in Int
  BY <1>3
<1>9. Goes(FlattenSeq(c), 0, 2 * n)
  BY <1>3, <1>7, <1>8, BlocksGo
<1>10. FlattenSeq(c) \in Seq(Calls)
  BY <1>6, FlatType, Zenon
<1>11. Goes(load_weights \o <<Cycles(5)>> \o FlattenSeq(c), -8, 2 * n)
  BY <1>9, <1>10, LoadThenWaitGoes, LoadThenWait, GoesAlso, Zenon
<1> QED
  BY <1>1, <1>11, Zenon DEF StressTest, c

\* Messages of other types are sent between two Add Orders.
LEMMA FedGoes ==
  ASSUME NEW ms \in Seq(SampleMessage), \A i \in 1 .. Len(ms) : ms[i].type # "A",
         NEW a \in Nat, a % 2 = 0
  PROVE  Goes(feed_messages(ms), a, a)
<1>1. PICK n \in Nat : n = Len(ms) /\ DOMAIN ms = 1 .. n
  BY LenProperties
<1>2. ASSUME NEW i \in 1 .. n PROVE ms[i] \in Sendable
  BY <1>1, ElementOfSeq DEF Sendable
<1>3. PICK s : s = [i \in 1 .. n |-> Send(ms[i])]
  OBVIOUS
<1>4. s \in [1 .. n -> Calls]
  BY <1>2, <1>3, SendCall, Zenon
<1>5. s \in Seq(Calls) /\ Len(s) = n
  BY <1>4, SeqOfLen
<1>6. PICK ph \in [1 .. n + 1 -> Int] : \A k \in 1 .. n + 1 : ph[k] = a
  <2>1. PICK ph : ph = [k \in 1 .. n + 1 |-> a]
    OBVIOUS
  <2>2. a \in Int
    OBVIOUS
  <2>3. ph \in [1 .. n + 1 -> Int] /\ \A k \in 1 .. n + 1 : ph[k] = a
    BY <2>1, <2>2, Zenon
  <2> QED
    BY <2>3
<1>7. ASSUME NEW k \in 1 .. n PROVE Leads(s[k], ph[k], ph[k + 1])
  <2>1. k \in 1 .. n + 1 /\ k + 1 \in 1 .. n + 1 /\ a >= 0
    OBVIOUS
  <2>2. ph[k] = a /\ ph[k + 1] = a
    BY <1>6, <2>1, Zenon
  <2>3. s[k] = Send(ms[k]) /\ ms[k].type # "A" /\ ms[k] \in Sendable
    BY <1>1, <1>2, <1>3, Zenon
  <2>4. Leads(s[k], a, a)
    BY <2>1, <2>3, Zenon DEF Leads
  <2> QED
    BY <2>2, <2>4, Zenon
<1>8. ph[1] = a /\ ph[n + 1] = a
  BY <1>6
<1>9. Goes(s, a, a)
  BY <1>5, <1>6, <1>7, <1>8, Zenon DEF Goes
<1> QED
  BY <1>1, <1>3, <1>9, Zenon DEF feed_messages

LEMMA OrderGoes ==
  ASSUME NEW i \in 1 .. Len(Prices)
  PROVE  /\ <<Send(AddOrder(i)), wait_for_new_result>> \in Seq(Calls)
         /\ Goes(<<Send(AddOrder(i)), wait_for_new_result>>, 2 * i - 2, 2 * i)
<1>1. PICK a \in Calls : a = Send(AddOrder(i))
  BY OrderCall
<1>2. PICK b \in Calls : b = wait_for_new_result
  BY WaitCalls
<1>3. PICK p \in Seq(Calls) : p = <<a>>
  BY OneCall, Zenon
<1>4. PICK q \in Seq(Calls) : q = <<b>>
  BY OneCall, Zenon
<1>5. i \in Nat \ {0}
  OBVIOUS
<1>6. Goes(p, 2 * i - 2, 2 * i - 1) /\ Goes(q, 2 * i - 1, 2 * i)
  BY <1>1, <1>2, <1>3, <1>4, <1>5, SendLeads, WaitLeads, Zenon
<1>7. Goes(p \o q, 2 * i - 2, 2 * i) /\ p \o q \in Seq(Calls)
  BY <1>6, GoesAlso, BothCalls, Zenon
<1> QED
  BY <1>1, <1>2, <1>3, <1>4, <1>7, TwoOnes, Zenon

Others == {m \in SampleMessage : m.type # "A"}
LEMMA OthersFed ==
  ASSUME NEW s \in Seq(Others), NEW a \in Nat, a % 2 = 0
  PROVE  feed_messages(s) \in Seq(Calls) /\ Goes(feed_messages(s), a, a)
BY SeqMonotonic, ElementOfSeq, FedGoes, FedIsCalls DEF Others

LEMMA ReplayGoes ==
  ASSUME NEW f, parse_file(f, {"S", "R", "A"}, 4) \in Seq(Others)
  PROVE  Goes(ReplayTest(f), -8, 4)
<1>1. PICK b \in Seq(Others), a \in Seq(Others) :
        ReplayTest(f) = load_weights \o <<Cycles(5)>> \o feed_messages(b) \o <<InterMessageDelay>>
                          \o <<Send(AddOrder(1)), wait_for_new_result>> \o feed_messages(a)
                          \o <<InterMessageDelay>> \o <<Send(AddOrder(2)), wait_for_new_result>>
  BY ReplayParts, Zenon
<1>2. 0 \in Nat /\ 0 % 2 = 0 /\ 2 \in Nat /\ 2 % 2 = 0
  OBVIOUS
<1>3. PICK s1 \in Seq(Calls) : s1 = load_weights \o <<Cycles(5)>> /\ Goes(s1, -8, 0)
  BY LoadThenWait, LoadThenWaitGoes, Zenon
<1>4. PICK s2 \in Seq(Calls) : s2 = feed_messages(b) /\ Goes(s2, 0, 0)
  BY <1>2, OthersFed, Zenon
<1>5. PICK d \in Seq(Calls) : d = <<InterMessageDelay>> /\ Goes(d, 0, 0) /\ Goes(d, 2, 2)
  BY <1>2, DelayLeads, DelayCall, OneCall, Zenon
<1>6. 1 \in 1 .. Len(Prices) /\ 2 \in 1 .. Len(Prices)
  BY V1Assumption, LenProperties
<1>7. 2 * 1 - 2 = 0 /\ 2 * 1 = 2 /\ 2 * 2 - 2 = 2 /\ 2 * 2 = 4
  OBVIOUS
<1>8. PICK o1 \in Seq(Calls) : o1 = <<Send(AddOrder(1)), wait_for_new_result>> /\ Goes(o1, 0, 2)
  BY <1>6, <1>7, OrderGoes
<1>9. PICK s3 \in Seq(Calls) : s3 = feed_messages(a) /\ Goes(s3, 2, 2)
  BY <1>2, OthersFed, Zenon
<1>10. PICK o2 \in Seq(Calls) : o2 = <<Send(AddOrder(2)), wait_for_new_result>> /\ Goes(o2, 2, 4)
  BY <1>6, <1>7, OrderGoes
<1>11. PICK t1 \in Seq(Calls) : t1 = s1 \o s2 /\ Goes(t1, -8, 0)
  <2>1. s1 \o s2 \in Seq(Calls) /\ Goes(s1 \o s2, -8, 0)
    BY <1>3, <1>4, GoesAlso, BothCalls, Zenon
  <2> QED
    BY <2>1, Zenon
<1>12. PICK t2 \in Seq(Calls) : t2 = t1 \o d /\ Goes(t2, -8, 0)
  <2>1. t1 \o d \in Seq(Calls) /\ Goes(t1 \o d, -8, 0)
    BY <1>5, <1>11, GoesAlso, BothCalls, Zenon
  <2> QED
    BY <2>1, Zenon
<1>13. PICK t3 \in Seq(Calls) : t3 = t2 \o o1 /\ Goes(t3, -8, 2)
  <2>1. t2 \o o1 \in Seq(Calls) /\ Goes(t2 \o o1, -8, 2)
    BY <1>8, <1>12, GoesAlso, BothCalls, Zenon
  <2> QED
    BY <2>1, Zenon
<1>14. PICK t4 \in Seq(Calls) : t4 = t3 \o s3 /\ Goes(t4, -8, 2)
  <2>1. t3 \o s3 \in Seq(Calls) /\ Goes(t3 \o s3, -8, 2)
    BY <1>9, <1>13, GoesAlso, BothCalls, Zenon
  <2> QED
    BY <2>1, Zenon
<1>15. PICK t5 \in Seq(Calls) : t5 = t4 \o d /\ Goes(t5, -8, 2)
  <2>1. t4 \o d \in Seq(Calls) /\ Goes(t4 \o d, -8, 2)
    BY <1>5, <1>14, GoesAlso, BothCalls, Zenon
  <2> QED
    BY <2>1, Zenon
<1>16. Goes(t5 \o o2, -8, 4)
  BY <1>10, <1>15, GoesAlso, Zenon
<1>17. ReplayTest(f) = t5 \o o2
  BY <1>1, <1>3, <1>4, <1>5, <1>8, <1>9, <1>10, <1>11, <1>12, <1>13, <1>14, <1>15, Zenon
<1> QED
  BY <1>16, <1>17, Zenon

\* In phase x, so many Add Orders have been sent.
OrdersBy(x, n) == n \in Nat /\ (x < 0 => n = 0) /\ (x >= 0 => x = 2 * n - 1 \/ x = 2 * n)
IsOrder(c) == c.op = "send" /\ c.msg.type = "A"

LEMMA LeadsCounts ==
  ASSUME NEW c, NEW x \in Int, NEW y \in Int, Leads(c, x, y), NEW n, OrdersBy(x, n)
  PROVE  IF IsOrder(c) THEN OrdersBy(y, n + 1) ELSE OrdersBy(y, n)
<1>1. CASE (c = InterMessageDelay \/ \E d \in Nat \ {0} : c = Cycles(d)) /\ y = x
  BY <1>1, TheOps DEF IsOrder
<1>2. CASE \E m \in Sendable : c = Send(m) /\ m.type # "A" /\ y = x
  BY <1>2, TheOps DEF IsOrder
<1>3. CASE \E k \in 1 .. Len(Prices) : c = Send(AddOrder(k)) /\ x = 2 * k - 2 /\ y = x + 1
  BY <1>3, TheOps DEF AddOrder, encode_add_order, IsOrder, OrdersBy
<1>4. CASE (c = wait_for_new_result \/ c = wait_for_result) /\ x >= 0 /\ x % 2 = 1 /\ y = x + 1
  BY <1>4, TheOps DEF OrdersBy, IsOrder
<1>5. CASE \E a, d : c = Write(a, d) /\ y = x + 1 /\ x < 0
  BY <1>5 DEF Write, OrdersBy, IsOrder
<1>6. \A j \in 0 .. 3 : 2 * j - 8 < 0 /\ 2 * j - 7 < 0
  OBVIOUS
<1>7. ASSUME \E j \in 0 .. 3 : c = Write("WGT_ADDR", j) /\ x = 2 * j - 8 /\ y = x + 1
      PROVE  \E a, d : c = Write(a, d) /\ y = x + 1 /\ x < 0
  BY <1>6, <1>7, Zenon
<1>8. ASSUME \E j \in 0 .. 3 : c = Write("WGT_DATA", Loaded(j + 1)) /\ x = 2 * j - 7 /\ y = x + 1
      PROVE  \E a, d : c = Write(a, d) /\ y = x + 1 /\ x < 0
  BY <1>6, <1>8, Zenon
<1>9. \/ (c = InterMessageDelay \/ \E d \in Nat \ {0} : c = Cycles(d)) /\ y = x
      \/ \E m \in Sendable : c = Send(m) /\ m.type # "A" /\ y = x
      \/ \E k \in 1 .. Len(Prices) : c = Send(AddOrder(k)) /\ x = 2 * k - 2 /\ y = x + 1
      \/ (c = wait_for_new_result \/ c = wait_for_result) /\ x >= 0 /\ x % 2 = 1 /\ y = x + 1
      \/ \E j \in 0 .. 3 : c = Write("WGT_ADDR", j) /\ x = 2 * j - 8 /\ y = x + 1
      \/ \E j \in 0 .. 3 : c = Write("WGT_DATA", Loaded(j + 1)) /\ x = 2 * j - 7 /\ y = x + 1
  BY DEF Leads
<1> QED
  BY <1>1, <1>2, <1>3, <1>4, <1>5, <1>7, <1>8, <1>9, Zenon

\* The Add Orders among the first k calls.
Sent(s, k) == {j \in 1 .. k : IsOrder(s[j])}

LEMMA SentMore ==
  ASSUME NEW s, NEW k \in Nat, NEW n \in Nat, IsFiniteSet(Sent(s, k)), Cardinality(Sent(s, k)) = n
  PROVE  /\ IsFiniteSet(Sent(s, k + 1))
         /\ IF IsOrder(s[k + 1]) THEN Cardinality(Sent(s, k + 1)) = n + 1
            ELSE Cardinality(Sent(s, k + 1)) = n
<1>1. \A j : j \in 1 .. k + 1 <=> j \in 1 .. k \/ j = k + 1
  OBVIOUS
<1>2. k + 1 \notin 1 .. k
  OBVIOUS
<1>3. CASE IsOrder(s[k + 1])
  <2>1. Sent(s, k + 1) = Sent(s, k) \cup {k + 1}
    BY <1>1, <1>3, Zenon DEF Sent
  <2>2. k + 1 \notin Sent(s, k)
    BY <1>2, Zenon DEF Sent
  <2>3. IsFiniteSet(Sent(s, k) \cup {k + 1}) /\ Cardinality(Sent(s, k) \cup {k + 1}) = n + 1
    BY <2>2, FS_AddElement
  <2> QED
    BY <1>3, <2>1, <2>3, Zenon
<1>4. CASE ~IsOrder(s[k + 1])
  BY <1>1, <1>4 DEF Sent
<1> QED
  BY <1>3, <1>4

\* A test that goes to phase 2 p sends p Add Orders.
LEMMA OrdersCounted ==
  ASSUME NEW s \in Seq(Calls), NEW a \in Int, a < 0, NEW p \in Nat, Goes(s, a, 2 * p)
  PROVE  Cardinality(Sent(s, Len(s))) = p
<1>1. PICK n \in Nat : n = Len(s)
  BY LenProperties
<1>2. PICK ph \in [1 .. n + 1 -> Int] :
        /\ ph[1] = a /\ ph[n + 1] = 2 * p
        /\ \A k \in 1 .. n : Leads(s[k], ph[k], ph[k + 1])
  BY <1>1, Zenon DEF Goes
<1> DEFINE Right(k, c) == IsFiniteSet(Sent(s, k)) /\ Cardinality(Sent(s, k)) = c /\ OrdersBy(ph[k + 1], c)
           S == {k \in Nat : k =< n => \E c \in Nat : Right(k, c)}
<1>3. 0 \in S
  <2>1. Sent(s, 0) = {}
    BY DEF Sent
  <2>2. IsFiniteSet({}) /\ Cardinality({}) = 0
    BY FS_EmptySet
  <2>3. OrdersBy(ph[0 + 1], 0)
    BY <1>2 DEF OrdersBy
  <2>4. Right(0, 0) /\ 0 \in Nat
    BY <2>1, <2>2, <2>3, Zenon
  <2> HIDE DEF Right
  <2> QED
    BY <2>4, Zenon
<1>4. ASSUME NEW k \in Nat, k \in S PROVE k + 1 \in S
  <2>1. k + 1 \in Nat
    OBVIOUS
  <2> SUFFICES ASSUME k + 1 =< n PROVE \E c \in Nat : Right(k + 1, c)
    BY <2>1, Zenon
  <2>2. k =< n /\ k + 1 \in 1 .. n /\ k + 1 \in 1 .. n + 1 /\ (k + 1) + 1 \in 1 .. n + 1
    BY <1>1
  <2>3. PICK c \in Nat : Right(k, c)
    BY <1>4, <2>2, Zenon
  <2>4. PICK x \in Int : x = ph[k + 1]
    BY <2>2
  <2>5. PICK y \in Int : y = ph[(k + 1) + 1]
    BY <2>2
  <2>6. Leads(s[k + 1], x, y) /\ OrdersBy(x, c)
    BY <1>2, <2>2, <2>3, <2>4, <2>5, Zenon
  <2>7. IF IsOrder(s[k + 1]) THEN OrdersBy(y, c + 1) ELSE OrdersBy(y, c)
    BY <2>6, LeadsCounts, Zenon
  <2>8. /\ IsFiniteSet(Sent(s, k + 1))
        /\ IF IsOrder(s[k + 1]) THEN Cardinality(Sent(s, k + 1)) = c + 1
           ELSE Cardinality(Sent(s, k + 1)) = c
    BY <2>3, SentMore, Zenon
  <2>9. c + 1 \in Nat
    OBVIOUS
  <2>10. Right(k + 1, c + 1) \/ Right(k + 1, c)
    BY <2>5, <2>7, <2>8, Zenon
  <2> HIDE DEF Right
  <2> QED
    BY <2>9, <2>10, Zenon
<1> HIDE DEF Right
<1>5. Nat \subseteq S
  <2> HIDE DEF S
  <2> QED
    BY <1>3, <1>4, AllNumbers, Zenon
<1>6. n =< n
  OBVIOUS
<1>7. PICK c \in Nat : Right(n, c)
  BY <1>5, <1>6, Zenon
<1>8. OrdersBy(2 * p, c)
  BY <1>2, <1>7, Zenon DEF Right
<1>9. c = p
  BY <1>8 DEF OrdersBy
<1> QED
  BY <1>1, <1>7, <1>9, Zenon DEF Right

\* The Add Orders of a test that goes to phase 2 p.
LEMMA OrdersStart ==
  ASSUME NEW t \in Seq(Calls), NEW p \in {2, Len(Prices)}, Goes(t, -8, 2 * p), test = t,
         adds = [i \in 1 .. Cardinality({j \in DOMAIN t : t[j].op = "send" /\ t[j].msg.type = "A"})
                   |-> AddOrder(i)]
  PROVE  OrdersAre(p)
<1>1. Len(Prices) \in Nat /\ Len(Prices) > 1
  BY V1Assumption, LenProperties
<1>2. PICK q \in Nat : q = p /\ q =< Len(Prices)
  BY <1>1
<1>3. Cardinality(Sent(t, Len(t))) = q
  <2>1. -8 \in Int /\ -8 < 0
    OBVIOUS
  <2> QED
    BY <1>2, <2>1, OrdersCounted, Zenon
<1>4. {j \in DOMAIN t : t[j].op = "send" /\ t[j].msg.type = "A"} = Sent(t, Len(t))
  <2>1. DOMAIN t = 1 .. Len(t)
    BY LenProperties
  <2> QED
    BY <2>1, Zenon DEF Sent, IsOrder
<1>5. adds = [i \in 1 .. q |-> AddOrder(i)]
  BY <1>3, <1>4, Zenon
<1>6. \A i \in 1 .. q : AddOrder(i) \in AddOrders
  <2>1. \A i \in 1 .. q : i \in 1 .. Len(Prices)
    BY <1>1, <1>2
  <2> QED
    BY <2>1, OrderIs, Zenon
<1>7. adds \in [1 .. q -> AddOrders]
  BY <1>5, <1>6, Zenon
<1>8. adds \in Seq(AddOrders) /\ Len(adds) = q
  BY <1>7, SeqOfLen
<1>9. \A k \in 1 .. q : adds[k] = AddOrder(k)
  BY <1>5, Zenon
<1> QED
  BY <1>2, <1>8, <1>9, Zenon DEF OrdersAre

\* Of the messages that a file has, no Add Order is replayed.
LEMMA ReplayedOthers ==
  ASSUME NEW f \in Files PROVE parse_file(f, {"S", "R", "A"}, 4) \in Seq(Others)
BY V1Assumption, ParsedIsMessages, V1Tests, LenProperties, ElementOfSeq, SeqOfLen DEF Others

LEMMA TestsGo ==
  ASSUME NEW t \in {StressTest(Len(Prices))} \cup {ReplayTest(f) : f \in Files}
  PROVE  t \in Seq(Calls) /\ \E p \in {2, Len(Prices)} : Goes(t, -8, 2 * p)
BY StressIsCalls, StressGoes, ReplayedOthers, ReplayGoes, ReplayIsCalls

LEMMA NothingLoaded == ASSUME weights = [j \in 0 .. 3 |-> 0] PROVE WeightsAt(-8)
BY DEF WeightsAt

LEMMA ScoresStart == V1Init => ScoresInv
<1> SUFFICES ASSUME V1Init PROVE ScoresInv
  OBVIOUS
<1>1. Dut!V1Reset /\ Slave!SlaveReset
  BY V1InitShows, Zenon
<1>2. PICK t \in {StressTest(Len(Prices))} \cup {ReplayTest(f) : f \in Files} :
        /\ test = t
        /\ adds = [i \in 1 .. Cardinality({j \in DOMAIN t : t[j].op = "send" /\ t[j].msg.type = "A"})
                     |-> AddOrder(i)]
  BY Zenon DEF V1Init
<1>3. t \in Seq(Calls)
  BY TestsGo, Zenon
<1>4. PICK q \in {2, Len(Prices)} : Goes(t, -8, 2 * q)
  BY TestsGo, Zenon
<1>5. OrdersAre(q)
  BY <1>2, <1>3, <1>4, OrdersStart, Zenon
<1>6. q \in Nat
  BY V1Assumption, LenProperties
<1>7. Scored(0)
  BY EmptySeq DEF V1Init, Scored
<1>8. Stands(test, 0, 0, 0, -8, 2 * q)
  BY <1>2, <1>3, <1>4 DEF Going, Stands
<1>9. Nearing(0, 0)
  BY V1Assumption, LenProperties DEF Nearing
<1>10. Carries(0, 0)
  BY CarriesNothing, Zenon
<1>11. Port(-8)
  BY <1>1, NothingLoaded DEF Dut!V1Reset, Dut!FEATURE_VEC_LEN, Addressed, Slave!SlaveReset,
       Port
<1>12. Replied(0, 0)
  BY <1>1 DEF Slave!SlaveReset, Replied
<1>13. Placed(0, 0, 0, -8, 2 * q)
  BY <1>8, <1>9, <1>10, <1>11, <1>12, Zenon DEF Placed
<1>14. 0 \in Nat
  OBVIOUS
<1> QED
  BY <1>5, <1>6, <1>7, <1>13, <1>14, Zenon DEF ScoresInv

\* A result that is judged is made of two of the products of one message.
LEMMA JudgedIs ==
  ASSUME NEW i
  PROVE  /\ Judged(i) # << >> /\ Len(Judged(i)) = 2
         /\ \A k \in DOMAIN Judged(i) : Judged(i)[k].msg = i
BY DEF Times, Judged

\* No call is left to a test that waits for a result.
LEMMA AwaitingSome == ASSUME NEW n, NEW t, NEW e PROVE ~Awaiting(<< >>, n, t, e)
<1> SUFFICES ASSUME Awaiting(<< >>, n, t, e) PROVE FALSE
  OBVIOUS
<1>1. PICK r \in Seq(Calls) :
        \/ << >> = Then(DiscardResult, Then(Cycles(35), Then(wait_for_result, r)))
        \/ \E m \in Nat \ {0} : << >> = Then(Cycles(m), Then(wait_for_result, r))
        \/ << >> = Then(wait_for_result, r)
        \/ << >> = Then(ScoreResult, r)
  BY Zenon DEF Awaiting
<1>2. PICK s \in Seq(Calls) : s = Then(wait_for_result, r) /\ s # << >>
  BY TheCalls, ThenIs, Zenon
<1>3. ASSUME NEW m \in Int PROVE Then(Cycles(m), s) \in Seq(Calls) /\ Then(Cycles(m), s) # << >>
  BY CyclesCall, ThenIs, ZenonT(30)
<1>4. 35 \in Int /\ \A m \in Nat \ {0} : m \in Int
  OBVIOUS
<1>5. Then(DiscardResult, Then(Cycles(35), s)) # << >>
  BY <1>3, <1>4, TheCalls, ThenIs
<1>6. Then(ScoreResult, r) # << >>
  BY TheCalls, ThenIs, ZenonT(30)
<1> QED
  BY <1>1, <1>2, <1>3, <1>4, <1>5, <1>6, Zenon

LEMMA AllDone ==
  ASSUME NEW i \in Nat, NEW p \in Nat, NEW n, NEW t, NEW x, Stands(<< >>, i, n, t, x, 2 * p)
  PROVE  i = p
BY AwaitingSome, GoesNowhere DEF Stands, Going

\* What the golden model expects of the test's Add Orders.
LEMMA ExpectedIs ==
  ASSUME NEW p \in Nat, OrdersAre(p)
  PROVE  /\ adds = [j \in 1 .. p |-> AddOrder(j)]
         /\ Len(expected_of(adds, Weights)) = p
<1>1. adds \in Seq(AddOrders) /\ Len(adds) = p /\ \A k \in 1 .. p : adds[k] = AddOrder(k)
  BY Zenon DEF OrdersAre
<1>2. adds \in [1 .. p -> AddOrders]
  BY <1>1, LenProperties
<1>3. adds = [j \in 1 .. p |-> AddOrder(j)]
  BY <1>1, <1>2, Zenon
<1>4. PICK v : v = expected_of(adds, Weights)
  OBVIOUS
<1>5. DOMAIN adds = 1 .. p
  BY <1>2, Zenon
<1>6. v = [i \in 1 .. p |-> v[i]]
  BY <1>4, <1>5, Zenon DEF expected_of
<1>7. PICK X : \A i \in 1 .. p : v[i] \in X
  <2>1. \A i \in 1 .. p : v[i] \in {v[j] : j \in 1 .. p}
    OBVIOUS
  <2> QED
    BY <2>1, Zenon
<1>8. v \in [1 .. p -> X]
  BY <1>6, <1>7, Zenon
<1> QED
  BY <1>3, <1>4, <1>8, SeqOfLen, Zenon

LEMMA ScoresShow == ScoresInv => ScoresJudged
<1> SUFFICES ASSUME ScoresInv PROVE ScoresJudged
  OBVIOUS
<1>1. PICK i \in Nat, p \in Nat : /\ Scored(i) /\ OrdersAre(p)
                                  /\ \E n, t, x : Placed(i, n, t, x, 2 * p)
  BY Zenon DEF ScoresInv
<1>2. /\ actual \in Seq(Results) /\ Len(actual) = i /\ DOMAIN actual = 1 .. i
      /\ \A k \in 1 .. i : actual[k] = Judged(k)
  BY <1>1, LenProperties DEF Scored
<1>3. \A j \in DOMAIN actual : actual[j] # << >> /\ \A k \in DOMAIN actual[j] : actual[j][k].msg = j
  BY <1>2, JudgedIs, Zenon
<1>4. mismatches(expected_of(adds, Weights), [j \in DOMAIN actual |-> Sum(actual[j])])
        = {j \in DOMAIN actual : Len(actual[j]) # Len(Weights)}
  <2> DEFINE sums == [j \in DOMAIN actual |-> Sum(actual[j])]
  <2>1. PICK v : v = expected_of(adds, Weights) /\ Len(v) = p
    BY <1>1, ExpectedIs, Zenon
  <2>2. \A j \in 1 .. p : ~matches(v[j], Sum(Judged(j)))
    BY <1>1, <2>1, ExpectedIs, V1Tests DEF OrdersAre
  <2>3. DOMAIN sums = 1 .. i /\ \A j \in 1 .. i : sums[j] = Sum(Judged(j))
    BY <1>2, Zenon
  <2> HIDE DEF sums
  <2>4. \A j \in 1 .. i : j > p \/ j \in 1 .. p
    BY <1>1
  <2>5. \A j \in 1 .. i : j > Len(v) \/ ~matches(v[j], sums[j])
    BY <2>1, <2>2, <2>3, <2>4, Zenon
  <2>6. mismatches(v, sums) = 1 .. i
    BY <2>3, <2>5, Zenon DEF mismatches
  <2>7. \A j \in 1 .. i : Len(actual[j]) # Len(Weights)
    <3>1. Len(Weights) = 4 /\ 2 # 4
      BY V1Assumption
    <3> QED
      BY <1>2, <3>1, JudgedIs, Zenon
  <2>8. {j \in DOMAIN actual : Len(actual[j]) # Len(Weights)} = 1 .. i
    BY <1>2, <2>7, Zenon
  <2> QED
    BY <2>1, <2>6, <2>8, Zenon DEF sums
<1>5. test = << >> => Len(actual) = Len(adds)
  BY <1>1, <1>2, AllDone DEF Placed, OrdersAre
<1> QED
  BY <1>3, <1>4, <1>5, Zenon DEF ScoresJudged

\* When nothing changes, everything stands where it did.
LEMMA ScoresUnchanged == ASSUME UNCHANGED v1BenchVars, ScoresInv PROVE ScoresInv'
<1>1. PICK i \in Nat, p \in Nat : /\ Scored(i) /\ OrdersAre(p)
                                  /\ \E n, t, x : Placed(i, n, t, x, 2 * p)
  BY Zenon DEF ScoresInv
<1>2. PICK n, t, x : Placed(i, n, t, x, 2 * p)
  BY <1>1
<1>3. UNCHANGED dutVars /\ UNCHANGED <<aw, w, bvalid, wgt_addr, wgt_wr, ar, rvalid, rdata, bus, test, adds, actual>>
  BY DEF v1BenchVars
<1>4. Carries(n, t) /\ Stands(test, i, n, t, x, 2 * p) /\ Nearing(n, t) /\ Port(x) /\ Replied(n, t)
  BY <1>2, Zenon DEF Placed
<1>5. InFront(n, t)' /\ InSequencer(n, t)'
  BY <1>3, <1>4 DEF dutVars, Carries, InFront, InSequencer
<1>6. InEngine(n, t)'
  BY <1>3, <1>4 DEF dutVars, Steps, Multiplies, SumsUp, Carries, InEngine
<1>7. InBuffer(n, t)'
  BY <1>3, <1>4 DEF dutVars, Carries, InBuffer
<1>8. Carries(n, t)'
  BY <1>5, <1>6, <1>7, Zenon DEF Carries
<1>9. Port(x)'
  BY <1>3, <1>4 DEF dutVars, Port, WeightsAt, Addressed, PortTaken
<1>10. Replied(n, t)'
  BY <1>3, <1>4 DEF Replied
<1>11. test' = test /\ actual' = actual /\ adds' = adds
  BY <1>3
<1>12. Placed(i, n, t, x, 2 * p)'
  BY <1>4, <1>8, <1>9, <1>10, <1>11, Zenon DEF Placed, Nearing
<1>13. Scored(i)' /\ OrdersAre(p)'
  BY <1>1, <1>11, Zenon DEF Scored, OrdersAre
<1> QED
  BY <1>12, <1>13, Zenon DEF ScoresInv

\* The scoreboard is given one result for each Add Order of a test, made of that
\* message's products alone and of two of the four, and it rejects each of them:
\* for any four weights, any prices and sample files that tell the results apart,
\* and any delays between messages.
THEOREM ScoresAreJudged == CocotbBenchSpec => []ScoresJudged
<1>1. CocotbBenchInit => ScoresInv
  BY ScoresStart, Zenon DEF CocotbBenchInit
<1>2. V1Inv /\ ScoresInv /\ [CocotbBenchNext]_benchVars => ScoresInv'
  BY ScoresKept, ScoresUnchanged DEF CocotbBenchNext, benchVars
<1> QED
  BY <1>1, <1>2, V1Always, ScoresShow, PTL DEF CocotbBenchSpec
=============================================================================
