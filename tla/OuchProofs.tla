----------------------------- MODULE OuchProofs -----------------------------
(***************************************************************************)
(* What the transmitter receives and when the watchdog trips, for any      *)
(* orders, templates and token width, either limit of the watchdog, and    *)
(* every pattern of orders, refused beats, template writes and resets.     *)
(***************************************************************************)
EXTENDS OuchFeed, TLAPS

Bus == [valid : BOOLEAN, beat : 0 .. LastBeat, last : BOOLEAN]

-----------------------------------------------------------------------------
(* The frame.                                                              *)

BusOK ==
  /\ state \in {"IDLE", "FETCH", "LOAD", "SEND"}
  /\ axis \in Bus
  /\ axis.valid <=> state = "SEND"

\* Between frames the receiver has nothing and has counted every token.
QuietOK == state # "SEND" => rx = <<>> /\ frames = order_token

\* An order under way is the one latched, and what the read port will return or
\* has returned is a template its entry has had.
FetchOK ==
  /\ state \in {"FETCH", "LOAD"} => latch \in Orders /\ latch = serving
  /\ state = "FETCH" => tmpl[latch.sym] \in seen
  /\ state = "LOAD" => tmpl_rd \in seen

\* The beat on the bus is the next one the receiver lacks.
SendOK ==
  state = "SEND" =>
    /\ beat_cnt \in 0 .. LastBeat
    /\ axis.beat = beat_cnt
    /\ axis.last <=> beat_cnt = LastBeat
    /\ packet.order = serving /\ packet.token = frames /\ packet.tmpl \in seen
    /\ order_token = (frames + 1) % TokenMod

RxOK ==
  state = "SEND" =>
    /\ DOMAIN rx = 1 .. beat_cnt /\ Len(rx) = beat_cnt
    /\ \A i \in 1 .. beat_cnt : rx[i].beat = i - 1 /\ rx[i].pkt = packet

FrameInv == BusOK /\ QuietOK /\ FetchOK /\ SendOK /\ RxOK

LEMMA FrameInit == FeedInit => FrameInv
<1> SUFFICES ASSUME FeedInit PROVE FrameInv
  OBVIOUS
<1>1. /\ state = "IDLE" /\ axis = IdleBus /\ rx = <<>> /\ frames = 0 /\ order_token = 0
  BY DEF FeedInit, Init
<1>2. axis \in Bus /\ ~axis.valid
  BY <1>1 DEF IdleBus, Bus, LastBeat
<1> QED
  BY <1>1, <1>2 DEF FrameInv, BusOK, QuietOK, FetchOK, SendOK, RxOK

LEMMA FrameReset ==
  ASSUME FeedReset
  PROVE  FrameInv'
<1>1. /\ state' = "IDLE" /\ axis' = IdleBus /\ rx' = <<>> /\ frames' = 0 /\ order_token' = 0
  BY DEF FeedReset, Reset
<1>2. axis' \in Bus /\ ~axis'.valid
  BY <1>1 DEF IdleBus, Bus, LastBeat
<1> QED
  BY <1>1, <1>2 DEF FrameInv, BusOK, QuietOK, FetchOK, SendOK, RxOK

\* While nothing is on the bus nothing is received.
LEMMA NothingReceived ==
  ASSUME FrameInv, state # "SEND", NEW ready \in BOOLEAN, Receive(ready)
  PROVE  rx' = <<>> /\ frames' = order_token /\ ~Taken(ready)
BY DEF FrameInv, BusOK, QuietOK, Receive, Taken

\* An order is taken, or not.
LEMMA IdleFrame ==
  ASSUME FrameInv, NEW o \in Orders \cup {NoOrder}, NEW ready \in BOOLEAN,
         Receive(ready), Observe(o, ready), IdleState(o)
  PROVE  FrameInv'
<1>1. state = "IDLE" /\ order_token' = order_token /\ axis' \in Bus /\ ~axis'.valid
  BY DEF IdleState, FrameInv, BusOK, Bus
<1>2. rx' = <<>> /\ frames' = order_token'
  BY <1>1, NothingReceived
<1>3. CASE o = NoOrder
  <2>1. state' = "IDLE"
    BY <1>1, <1>3 DEF IdleState
  <2> QED
    BY <1>1, <1>2, <2>1 DEF FrameInv, BusOK, QuietOK, FetchOK, SendOK, RxOK
<1>4. CASE o # NoOrder
  <2>1. state' = "FETCH" /\ latch' = o /\ o \in Orders
    BY <1>4 DEF IdleState, AfterIdle
  <2>2. serving' = o /\ tmpl'[latch'.sym] \in seen'
    BY <1>1, <1>4, <2>1 DEF Observe
  <2> QED
    BY <1>1, <1>2, <2>1, <2>2 DEF FrameInv, BusOK, QuietOK, FetchOK, SendOK, RxOK
<1> QED
  BY <1>3, <1>4

\* The template entry is read.
LEMMA FetchFrame ==
  ASSUME FrameInv, NEW o \in Orders \cup {NoOrder}, NEW ready \in BOOLEAN,
         Receive(ready), Observe(o, ready), TmplRead, FetchState
  PROVE  FrameInv'
<1>1. /\ state = "FETCH" /\ state' = "LOAD" /\ UNCHANGED <<order_token, axis, latch>>
      /\ latch \in Orders /\ latch = serving /\ tmpl[latch.sym] \in seen
  BY DEF FetchState, FrameInv, FetchOK
<1>2. rx' = <<>> /\ frames' = order_token' /\ ~Taken(ready)
  BY <1>1, NothingReceived
<1>3. serving' = serving
  BY <1>1, <1>2 DEF Observe
<1>4. tmpl_rd' = tmpl[latch.sym]
  BY <1>1, OuchAssumption DEF TmplRead, LatchedSym
<1>5. seen \subseteq seen'
  BY <1>1 DEF Observe
<1>6. axis' \in Bus /\ ~axis'.valid
  BY <1>1 DEF FrameInv, BusOK
<1> QED
  BY <1>1, <1>2, <1>3, <1>4, <1>5, <1>6 DEF FrameInv, BusOK, QuietOK, FetchOK, SendOK, RxOK

\* The packet is assembled.
LEMMA LoadFrame ==
  ASSUME FrameInv, NEW o \in Orders \cup {NoOrder}, NEW ready \in BOOLEAN,
         Receive(ready), Observe(o, ready), LoadState
  PROVE  FrameInv'
<1>1. /\ state = "LOAD" /\ state' = "SEND" /\ beat_cnt' = 0
      /\ latch = serving /\ tmpl_rd \in seen
      /\ packet' = [token |-> order_token, order |-> latch, tmpl |-> tmpl_rd]
      /\ axis' = [valid |-> TRUE, beat |-> 0, last |-> FALSE]
      /\ order_token' = (order_token + 1) % TokenMod
  BY DEF LoadState, FirstBeat, NextToken, FrameInv, FetchOK
<1>2. rx' = <<>> /\ frames' = order_token /\ ~Taken(ready)
  BY <1>1, NothingReceived
<1>3. serving' = serving /\ seen' = seen
  BY <1>1, <1>2 DEF Observe
<1>4. axis' \in Bus /\ axis'.valid /\ axis'.beat = 0 /\ ~axis'.last
  BY <1>1 DEF Bus, LastBeat
<1>5. SendOK'
  BY <1>1, <1>2, <1>3, <1>4 DEF SendOK, LastBeat
<1>6. RxOK'
  BY <1>1, <1>2 DEF RxOK
<1> QED
  BY <1>1, <1>4, <1>5, <1>6 DEF FrameInv, BusOK, QuietOK, FetchOK

\* A beat is refused, and stays.
LEMMA StallFrame ==
  ASSUME FrameInv, NEW o \in Orders \cup {NoOrder},
         Receive(FALSE), Observe(o, FALSE), SendState(FALSE)
  PROVE  FrameInv'
<1>1. state = "SEND" /\ UNCHANGED <<state, axis, beat_cnt, latch, packet, order_token>>
  BY DEF SendState, Advances
<1>2. UNCHANGED <<rx, frames, serving, seen>>
  BY <1>1 DEF Receive, Observe, Taken
<1> QED
  BY <1>1, <1>2 DEF FrameInv, BusOK, QuietOK, FetchOK, SendOK, RxOK

\* The last beat is taken: the receiver has the frame.
LEMMA LastFrame ==
  ASSUME FrameInv, NEW o \in Orders \cup {NoOrder},
         Receive(TRUE), Observe(o, TRUE), SendState(TRUE), AtLastBeat
  PROVE  FrameInv'
<1>1. state = "SEND" /\ state' = "IDLE" /\ order_token' = order_token
  BY DEF SendState, Advances
<1>2. axis' = [axis EXCEPT !.valid = FALSE, !.last = FALSE]
  BY DEF SendState, Advances
<1>3. axis \in Bus /\ axis.valid /\ axis.last
  BY <1>1, Zenon DEF FrameInv, BusOK, SendOK, AtLastBeat
<1>4. axis' \in Bus /\ ~axis'.valid
  BY <1>2, <1>3 DEF Bus
<1>5. rx' = <<>> /\ frames' = (frames + 1) % TokenMod
  BY <1>3 DEF Receive, Taken
<1>6. frames' = order_token'
  BY <1>1, <1>5 DEF FrameInv, SendOK
<1> QED
  BY <1>1, <1>4, <1>5, <1>6 DEF FrameInv, BusOK, QuietOK, FetchOK, SendOK, RxOK

\* Another beat is taken: the next one takes its place.
LEMMA BeatFrame ==
  ASSUME FrameInv, NEW o \in Orders \cup {NoOrder},
         Receive(TRUE), Observe(o, TRUE), SendState(TRUE), ~AtLastBeat
  PROVE  FrameInv'
<1>1. /\ state = "SEND" /\ state' = "SEND" /\ UNCHANGED <<order_token, packet>>
      /\ axis' = [axis EXCEPT !.beat = beat_cnt + 1, !.last = LastFlag]
      /\ beat_cnt' = beat_cnt + 1
  BY DEF SendState, Advances
<1>2. beat_cnt \in 0 .. LastBeat - 1
  BY <1>1 DEF FrameInv, SendOK, AtLastBeat, LastBeat
<1>3. axis \in Bus /\ axis.valid /\ ~axis.last /\ axis.beat = beat_cnt
  BY <1>1, Zenon DEF FrameInv, BusOK, SendOK, AtLastBeat
<1>4. /\ DOMAIN rx = 1 .. beat_cnt /\ Len(rx) = beat_cnt
      /\ \A i \in 1 .. beat_cnt : rx[i].beat = i - 1 /\ rx[i].pkt = packet
  BY <1>1 DEF FrameInv, RxOK
<1>5. LastFlag \in BOOLEAN /\ (LastFlag <=> beat_cnt' = LastBeat)
  BY <1>1, <1>2 DEF LastFlag, LastBeat
<1>6. /\ axis' \in Bus /\ axis'.valid /\ axis'.beat = beat_cnt'
      /\ axis'.last <=> beat_cnt' = LastBeat
  <2>1. beat_cnt + 1 \in 0 .. LastBeat
    BY <1>2 DEF LastBeat
  <2>2. /\ axis' \in Bus /\ axis'.valid = axis.valid /\ axis'.beat = beat_cnt + 1
        /\ axis'.last = LastFlag
    BY <1>1, <1>3, <1>5, <2>1 DEF Bus
  <2> QED
    BY <1>1, <1>3, <1>5, <2>2, Zenon
<1>7. /\ rx' = Append(rx, [beat |-> axis.beat, pkt |-> packet])
      /\ frames' = frames
  <2>1. ~(Len(rx) > LastBeat)
    BY <1>2, <1>4 DEF LastBeat
  <2> QED
    BY <1>3, <2>1, Zenon DEF Receive, Taken
<1>8. serving' = serving /\ seen' = seen
  BY <1>1, <1>3 DEF Observe, Taken
<1>9. RxOK'
  <2>1. /\ Len(rx') = beat_cnt + 1 /\ DOMAIN rx' = 1 .. beat_cnt + 1
        /\ \A i \in 1 .. beat_cnt + 1 :
             rx'[i] = IF i <= beat_cnt THEN rx[i] ELSE [beat |-> axis.beat, pkt |-> packet]
    BY <1>2, <1>4, <1>7
  <2>2. ASSUME NEW i \in 1 .. beat_cnt'
        PROVE  rx'[i].beat = i - 1 /\ rx'[i].pkt = packet'
    <3>1. CASE i <= beat_cnt
      BY <1>1, <1>2, <1>4, <2>1, <3>1
    <3>2. CASE ~(i <= beat_cnt)
      BY <1>1, <1>2, <1>3, <2>1, <3>2
    <3> QED
      BY <3>1, <3>2
  <2> QED
    BY <1>1, <2>1, <2>2 DEF RxOK
<1>10. SendOK'
  <2>1. beat_cnt' \in 0 .. LastBeat
    BY <1>1, <1>2 DEF LastBeat
  <2>2. packet.order = serving /\ packet.token = frames /\ packet.tmpl \in seen
        /\ order_token = (frames + 1) % TokenMod
    BY <1>1 DEF FrameInv, SendOK
  <2> QED
    BY <1>1, <1>6, <1>7, <1>8, <2>1, <2>2, Zenon DEF SendOK
<1> QED
  BY <1>1, <1>6, <1>9, <1>10, Zenon DEF FrameInv, BusOK, QuietOK, FetchOK

LEMMA FrameStep == FrameInv /\ [FeedNext]_feedVars => FrameInv'
<1> SUFFICES ASSUME FrameInv, [FeedNext]_feedVars PROVE FrameInv'
  OBVIOUS
<1>1. CASE UNCHANGED feedVars
  BY <1>1 DEF feedVars, vars, pins, FrameInv, BusOK, QuietOK, FetchOK, SendOK, RxOK
<1>2. ASSUME NEW o \in Orders \cup {NoOrder}, NEW ready \in BOOLEAN, Cycle(o, ready)
      PROVE  FrameInv'
  <2>1. Receive(ready) /\ Observe(o, ready) /\ TmplRead /\ Fsm(o, ready)
    BY <1>2 DEF Cycle, Clock
  <2>2. CASE IdleState(o)
    BY <2>1, <2>2, IdleFrame
  <2>3. CASE FetchState
    BY <2>1, <2>3, FetchFrame
  <2>4. CASE LoadState
    BY <2>1, <2>4, LoadFrame
  <2>5. CASE SendState(ready) /\ ready = FALSE
    BY <2>1, <2>5, StallFrame
  <2>6. CASE SendState(ready) /\ ready = TRUE
    BY <2>1, <2>6, LastFrame, BeatFrame
  <2> QED
    BY <2>1, <2>2, <2>3, <2>4, <2>5, <2>6 DEF Fsm
<1> QED
  BY <1>1, <1>2, FrameReset DEF FeedNext, ReadyCycle, StallCycle

LEMMA FrameEnough == FrameInv => WellFramed /\ CarriesTheOrder
<1> SUFFICES ASSUME FrameInv PROVE WellFramed /\ CarriesTheOrder
  OBVIOUS
<1>1. CASE state # "SEND"
  <2>1. rx = <<>> /\ ~axis.valid
    BY <1>1 DEF FrameInv, QuietOK, BusOK
  <2> QED
    BY <2>1 DEF WellFramed, CarriesTheOrder
<1>2. CASE state = "SEND"
  <2>1. CarriesTheOrder
    BY <1>2 DEF FrameInv, SendOK, CarriesTheOrder
  <2>2. /\ beat_cnt \in 0 .. LastBeat
        /\ DOMAIN rx = 1 .. beat_cnt /\ Len(rx) = beat_cnt
        /\ \A i \in 1 .. beat_cnt : rx[i].beat = i - 1 /\ rx[i].pkt = packet
        /\ axis \in Bus /\ axis.beat = beat_cnt
        /\ axis.last <=> beat_cnt = LastBeat
    BY <1>2, Zenon DEF FrameInv, SendOK, RxOK, BusOK
  <2>3. \A i \in DOMAIN rx : 1 \in 1 .. beat_cnt
    BY <2>2 DEF LastBeat
  <2>4. \A i \in DOMAIN rx : rx[i].beat = i - 1 /\ rx[i].pkt = rx[1].pkt
    BY <2>2, <2>3, Zenon
  <2>5. Len(rx) > 0 => packet = rx[1].pkt
    BY <2>2 DEF LastBeat
  <2>6. axis.last \in BOOLEAN
    BY <2>2 DEF Bus
  <2>7. axis.last = (Len(rx) = LastBeat)
    BY <2>2, <2>6, Zenon
  <2> QED
    BY <2>1, <2>2, <2>4, <2>5, <2>7, Zenon DEF WellFramed
<1> QED
  BY <1>1, <1>2

\* The receiver gets beats 0 to 5 of one packet, each once and in order, for
\* every pattern of refusals, template writes and resets.
THEOREM FramesAreWhole == FeedSpec => []WellFramed
<1>1. FrameInv => WellFramed
  BY FrameEnough
<1> QED
  BY <1>1, FrameInit, FrameStep, PTL DEF FeedSpec

\* Every packet carries the order that was taken, the next token and a template
\* its symbol's entry held as a whole while the order was served.
THEOREM PacketsAreRight == FeedSpec => []CarriesTheOrder
<1>1. FrameInv => CarriesTheOrder
  BY FrameEnough
<1> QED
  BY <1>1, FrameInit, FrameStep, PTL DEF FeedSpec
-----------------------------------------------------------------------------
(* The watchdog.                                                           *)

\* bp_cnt counts the refusals in a row and stops one short of the limit; while
\* tx_overflow is up clr_cnt has counted no edge that was a refusal.
DogInv ==
  /\ BusOK
  /\ bp_cnt \in Nat /\ clr_cnt \in Nat
  /\ stall_run \in 0 .. StallLimit /\ free_run \in 0 .. ClearLimit
  /\ stall_run < StallLimit => bp_cnt = stall_run
  /\ stall_run = StallLimit => bp_cnt = StallLimit - 1
  /\ tx_overflow \in BOOLEAN
  /\ tx_overflow => clr_cnt <= free_run /\ clr_cnt < ClearLimit

WatchdogStep ==
  /\ ~tx_overflow /\ tx_overflow' => stall_run' = StallLimit
  /\ tx_overflow /\ ~tx_overflow' => free_run' = ClearLimit \/ free_run' + stall_run' = 0

LEMMA DogInit == FeedInit => DogInv
<1> SUFFICES ASSUME FeedInit PROVE DogInv
  OBVIOUS
<1>1. BusOK
  BY FrameInit DEF FrameInv
<1>2. /\ bp_cnt = 0 /\ clr_cnt = 0 /\ stall_run = 0 /\ free_run = 0 /\ tx_overflow = FALSE
  BY DEF FeedInit, Init
<1>3. ~tx_overflow /\ tx_overflow \in BOOLEAN
  BY <1>2, Zenon
<1>4. /\ bp_cnt \in Nat /\ clr_cnt \in Nat
      /\ stall_run \in 0 .. StallLimit /\ free_run \in 0 .. ClearLimit
      /\ stall_run < StallLimit => bp_cnt = stall_run
      /\ stall_run # StallLimit
  BY <1>2, OuchAssumption
<1> QED
  BY <1>1, <1>3, <1>4, Zenon DEF DogInv

\* What an edge of the engine does to the bus, the frame's part of the proof.
LEMMA DogCycle ==
  ASSUME DogInv, NEW ready \in BOOLEAN, Watchdog(ready), Receive(ready)
  PROVE  /\ bp_cnt' \in Nat /\ clr_cnt' \in Nat
         /\ stall_run' \in 0 .. StallLimit /\ free_run' \in 0 .. ClearLimit
         /\ stall_run' < StallLimit => bp_cnt' = stall_run'
         /\ stall_run' = StallLimit => bp_cnt' = StallLimit - 1
         /\ tx_overflow' \in BOOLEAN
         /\ tx_overflow' => clr_cnt' <= free_run' /\ clr_cnt' < ClearLimit
         /\ WatchdogStep
<1>1. /\ StallLimit \in Nat \ {0} /\ ClearLimit \in Nat \ {0}
      /\ bp_cnt \in Nat /\ clr_cnt \in Nat
      /\ stall_run \in 0 .. StallLimit /\ free_run \in 0 .. ClearLimit
      /\ stall_run < StallLimit => bp_cnt = stall_run
      /\ stall_run = StallLimit => bp_cnt = StallLimit - 1
      /\ tx_overflow \in BOOLEAN
      /\ tx_overflow => clr_cnt <= free_run /\ clr_cnt < ClearLimit
  BY OuchAssumption DEF DogInv
<1>2. Stalled(ready) <=> Refused(ready)
  BY DEF DogInv, BusOK, Stalled, Refused
<1>3. CASE Refused(ready)
  <2>1. /\ clr_cnt' = 0 /\ free_run' = 0
        /\ stall_run' = IF stall_run < StallLimit THEN stall_run + 1 ELSE stall_run
    BY <1>2, <1>3 DEF Watchdog, ClearCount, Receive, Counting
  <2>2. CASE bp_cnt = StallLimit - 1
    <3>1. bp_cnt' = bp_cnt /\ tx_overflow' = TRUE
      BY <1>2, <1>3, <2>2 DEF Watchdog
    <3>2. stall_run' = StallLimit
      BY <1>1, <2>1, <2>2
    <3> QED
      BY <1>1, <2>1, <2>2, <3>1, <3>2 DEF WatchdogStep
  <2>3. CASE bp_cnt # StallLimit - 1
    <3>1. bp_cnt' = bp_cnt + 1 /\ tx_overflow' = tx_overflow
      BY <1>2, <1>3, <2>3 DEF Watchdog
    <3>2. stall_run' = bp_cnt' /\ stall_run' < StallLimit
      BY <1>1, <2>1, <2>3, <3>1
    <3> QED
      BY <1>1, <2>1, <3>1, <3>2 DEF WatchdogStep
  <2> QED
    BY <2>2, <2>3
<1>4. CASE ~Refused(ready)
  <2>1. /\ bp_cnt' = 0 /\ stall_run' = 0
        /\ free_run' = IF free_run < ClearLimit THEN free_run + 1 ELSE free_run
    BY <1>2, <1>4 DEF Watchdog, Receive, Counting
  <2>6. /\ bp_cnt' \in Nat
        /\ stall_run' \in 0 .. StallLimit /\ free_run' \in 0 .. ClearLimit
        /\ stall_run' < StallLimit => bp_cnt' = stall_run'
        /\ stall_run' = StallLimit => bp_cnt' = StallLimit - 1
    BY <1>1, <2>1
  <2>3. CASE ~tx_overflow
    <3>1. clr_cnt' = clr_cnt /\ tx_overflow' = tx_overflow
      BY <1>2, <1>4, <2>3 DEF Watchdog
    <3>2. ~tx_overflow' /\ tx_overflow' \in BOOLEAN
      BY <1>1, <2>3, <3>1, Zenon
    <3>3. WatchdogStep
      BY <2>3, <3>2, Zenon DEF WatchdogStep
    <3>4. clr_cnt' \in Nat
      BY <1>1, <3>1, Zenon
    <3> QED
      BY <2>6, <3>2, <3>3, <3>4, Zenon
  <2>4. CASE tx_overflow /\ clr_cnt = ClearLimit - 1
    <3>1. clr_cnt' = 0 /\ tx_overflow' = FALSE
      BY <1>2, <1>4, <2>4 DEF Watchdog
    <3>2. free_run' = ClearLimit
      BY <1>1, <2>1, <2>4
    <3>3. ~tx_overflow' /\ tx_overflow' \in BOOLEAN /\ clr_cnt' \in Nat
      BY <3>1
    <3>4. WatchdogStep
      BY <2>4, <3>2, <3>3, Zenon DEF WatchdogStep
    <3> QED
      BY <2>6, <3>3, <3>4, Zenon
  <2>5. CASE tx_overflow /\ clr_cnt # ClearLimit - 1
    <3>1. clr_cnt' = clr_cnt + 1 /\ tx_overflow' = tx_overflow
      BY <1>2, <1>4, <2>5 DEF Watchdog
    <3>2. clr_cnt <= free_run /\ clr_cnt < ClearLimit /\ clr_cnt # ClearLimit - 1
      BY <1>1, <2>5, Zenon
    <3>3. /\ clr_cnt' \in Nat /\ clr_cnt' < ClearLimit
          /\ clr_cnt' <= free_run'
      BY <1>1, <2>1, <3>1, <3>2
    <3>4. tx_overflow' /\ tx_overflow' \in BOOLEAN
      BY <1>1, <2>5, <3>1, Zenon
    <3>5. WatchdogStep
      BY <2>5, <3>4, Zenon DEF WatchdogStep
    <3> QED
      BY <2>6, <3>3, <3>4, <3>5, Zenon
  <2> QED
    BY <2>3, <2>4, <2>5
<1> QED
  BY <1>3, <1>4

LEMMA DogStep ==
  FrameInv /\ DogInv /\ [FeedNext]_feedVars => DogInv' /\ [WatchdogStep]_feedVars
<1> SUFFICES ASSUME FrameInv, DogInv, [FeedNext]_feedVars
             PROVE  DogInv' /\ [WatchdogStep]_feedVars
  OBVIOUS
<1>1. BusOK'
  BY FrameStep DEF FrameInv
<1>2. CASE UNCHANGED feedVars
  BY <1>1, <1>2 DEF feedVars, vars, pins, DogInv
<1>3. CASE FeedReset
  <2>1. /\ bp_cnt' = 0 /\ clr_cnt' = 0 /\ stall_run' = 0 /\ free_run' = 0
        /\ tx_overflow' = FALSE
    BY <1>3 DEF FeedReset, Reset
  <2>2. ~tx_overflow' /\ tx_overflow' \in BOOLEAN
    BY <2>1, Zenon
  <2>3. /\ bp_cnt' \in Nat /\ clr_cnt' \in Nat
        /\ stall_run' \in 0 .. StallLimit /\ free_run' \in 0 .. ClearLimit
        /\ stall_run' < StallLimit => bp_cnt' = stall_run'
        /\ stall_run' = StallLimit => bp_cnt' = StallLimit - 1
        /\ free_run' + stall_run' = 0
    BY <2>1, OuchAssumption
  <2> QED
    BY <1>1, <2>2, <2>3, Zenon DEF DogInv, WatchdogStep
<1>4. ASSUME NEW o \in Orders \cup {NoOrder}, NEW ready \in BOOLEAN, Cycle(o, ready)
      PROVE  DogInv' /\ [WatchdogStep]_feedVars
  <2>1. Watchdog(ready) /\ Receive(ready)
    BY <1>4 DEF Cycle, Clock
  <2> QED
    BY <1>1, <2>1, DogCycle DEF DogInv
<1> QED
  BY <1>2, <1>3, <1>4 DEF FeedNext, ReadyCycle, StallCycle

\* tx_overflow rises only after StallLimit refusals in a row and falls only after
\* ClearLimit edges without one, or with rst, whatever the two limits are.
THEOREM OverflowIsHonest == FeedSpec => WatchdogHonest
<1>1. FeedInit => FrameInv /\ DogInv
  BY FrameInit, DogInit
<1>2. FrameInv /\ DogInv /\ [FeedNext]_feedVars =>
        (FrameInv /\ DogInv)' /\ [WatchdogStep]_feedVars
  BY FrameStep, DogStep
<1>3. FeedSpec => [][WatchdogStep]_feedVars
  BY <1>1, <1>2, PTL DEF FeedSpec
<1>4. [][WatchdogStep]_feedVars <=> WatchdogHonest
  BY DEF WatchdogStep, WatchdogHonest
<1> QED
  BY <1>3, <1>4
=============================================================================
