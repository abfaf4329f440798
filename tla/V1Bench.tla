------------------------------ MODULE V1Bench ------------------------------
(***************************************************************************)
(* The benches of lliu_top: tb/cocotb/tests/test_backpressure.py and       *)
(* test_replay.py with the AXI drivers, the two passive monitors, the four *)
(* checkers and the scoreboard.  A step is one clock edge, at which every  *)
(* coroutine reads what was there before it; what it drives, the design    *)
(* sees at the next.                                                       *)
(*                                                                         *)
(* A test is the list of the calls it still awaits, the first one under    *)
(* way; a call whose answer decides what comes next puts more in front.    *)
(***************************************************************************)
EXTENDS GoldenModel

CONSTANTS
  Weights,        \* the four weights a test loads
  Prices,         \* the prices of its Add Orders, in order
  Files,          \* contents of the sample file
  Delays,         \* inter-message delays of backpressure_gen
  NoV1Beat, NoMsg, NoData, NoAddr

\* What a test may send, and what it writes and asks for.  msg_buf has 128 bytes.
SampleMessage == [type : STRING, len : 0 .. 128, whole : BOOLEAN, n : {0}]
AddOrders == [n : Nat, type : {"A"}, len : {ADD_ORDER_LEN}, side : {"B", "S"}, price : Int]
ASSUME V1Assumption ==
  /\ Weights \in Seq(Int) /\ Prices \in Seq(Int) /\ Len(Weights) = 4 /\ Len(Prices) > 1
  /\ Files \subseteq Seq(SampleMessage) /\ Delays \subseteq Nat
  /\ NoV1Beat \notin [msg : SampleMessage \cup AddOrders, k : Nat, last : BOOLEAN]
  /\ NoData \notin Nat \cup {bfloat16(Weights[i]) : i \in DOMAIN Weights}
  /\ NoAddr \notin {"WGT_ADDR", "WGT_DATA", "STATUS", "RESULT"}
  /\ NoMsg \notin SampleMessage \cup AddOrders \cup [msg : Nat, val : Int \X Int \X Int \X Int]

VARIABLES
  parser, fields, last_price, order_flow, fx1, fx2, features, feat_valid,
  seq_state, seq_idx, dp_start, dp_feature_valid, dp_feature_in,
  weights, wgt_rd_data, result_out, result_ready,
  dpe_state, dpe_elem, dpe_drain, dpe_last_fed, dpe_cnt, dpe_clear, dpe_pipe, dpe_mul,
  dpe_accs, dpe_merge, dpe_merge_r,                          \* LliuV1
  aw, w, bvalid, wgt_addr, wgt_wr, ar, rvalid, rdata,        \* AxilSlave
  bus,         \* what the drivers drive
  test,        \* the calls the test still awaits
  adds,        \* the Add Orders of the test
  actual,      \* the scoreboard's
  done,        \* calls the drivers have completed: messages, writes, reads
  seen,        \* what the monitors have recorded, and what they have pending
  watch        \* the checkers

Dut == INSTANCE LliuV1 WITH NoBeat <- NoV1Beat
Slave == INSTANCE AxilSlave

dutVars == <<parser, fields, last_price, order_flow, fx1, fx2, features, feat_valid,
             seq_state, seq_idx, dp_start, dp_feature_valid, dp_feature_in, weights,
             wgt_rd_data, result_out, result_ready, dpe_state, dpe_elem, dpe_drain,
             dpe_last_fed, dpe_cnt, dpe_clear, dpe_pipe, dpe_mul, dpe_accs, dpe_merge,
             dpe_merge_r>>
v1BenchVars == <<dutVars, aw, w, bvalid, wgt_addr, wgt_wr, ar, rvalid, rdata,
                 bus, test, adds, actual, done, seen, watch>>

-----------------------------------------------------------------------------
\* AXI4StreamDriver.send: the beat after the first k, the last one padded.
BeatOf(m, k) == [msg |-> m, k |-> k, last |-> 8 * k + 8 >= m.len + 2]

\* What the first of the calls has the drivers drive when it begins.
IdleBus == [beat |-> NoV1Beat, aw |-> NoAddr, w |-> NoData, bready |-> FALSE,
            ar |-> NoAddr, rready |-> FALSE]
Driven(calls) ==
  IF calls = << >> THEN IdleBus
  ELSE LET c == Head(calls)
       IN  CASE c.op = "send" -> [IdleBus EXCEPT !.beat = BeatOf(c.msg, 0)]
             [] c.op = "write" -> [IdleBus EXCEPT !.aw = c.addr, !.w = c.data, !.bready = TRUE]
             [] c.op = "read" -> [IdleBus EXCEPT !.ar = c.addr, !.rready = TRUE]
             [] OTHER -> IdleBus

Cycles(n) == [op |-> "cycles", n |-> n]
Read(addr, for) == [op |-> "read", addr |-> addr, for |-> for]
Write(addr, data) == [op |-> "write", addr |-> addr, data |-> data]
Send(m) == [op |-> "send", msg |-> m]
InterMessageDelay == [op |-> "delay"]

load_weights ==
  FlattenSeq([i \in DOMAIN Weights |-> <<Write("WGT_ADDR", i - 1),
                                         Write("WGT_DATA", bfloat16(Weights[i]))>>])

\* Slip: about half of the latency.
PIPELINE_LATENCY_short == 20
PIPELINE_LATENCY == 35
wait_for_result == Read("STATUS", "poll")
wait_for_new_result == Read("STATUS", "flush")

\* What a read of `for` has the test do next.  The polls of a result give up after
\* 200 and 500 of them; a result takes 36 edges, so that end is left out.
AfterRead(for, data) ==
  CASE for = "flush" -> (IF data % 2 = 1 THEN <<Read("RESULT", "discard")>> ELSE << >>)
                        \o <<Cycles(PIPELINE_LATENCY), Read("STATUS", "poll")>>
    [] for = "poll" -> IF data % 2 = 1 THEN <<Read("RESULT", "score")>>
                       ELSE <<Cycles(1), Read("STATUS", "poll")>>
    [] OTHER -> << >>

AddOrder(i) == encode_add_order(i, IF i % 2 = 1 THEN "B" ELSE "S", Prices[i])
feed_messages(messages) == [i \in DOMAIN messages |-> Send(messages[i])]

\* run_stress, and test_replay_with_injected_add_orders, which takes messages of
\* any type.
StressTest(count) ==
  load_weights \o <<Cycles(5)>>
    \o FlattenSeq([i \in 1 .. count |->
         <<Send(AddOrder(i)), InterMessageDelay,
           IF i = 1 THEN wait_for_result ELSE wait_for_new_result>>])
ReplayTest(file) ==
  LET msgs == parse_file(file, {"S", "R", "A"}, 4)
  IN  load_weights \o <<Cycles(5)>>
        \o feed_messages(SubSeq(msgs, 1, Min({2, Len(msgs)}))) \o <<InterMessageDelay>>
        \o <<Send(AddOrder(1)), wait_for_new_result>>
        \o feed_messages(SubSeq(msgs, 3, Len(msgs))) \o <<InterMessageDelay>>
        \o <<Send(AddOrder(2)), wait_for_new_result>>

V1Init ==
  /\ Dut!V1Reset /\ Slave!SlaveReset
  /\ \E t \in {StressTest(Len(Prices))} \cup {ReplayTest(f) : f \in Files} :
       /\ test = t /\ bus = Driven(t)
       /\ adds = [i \in 1 .. Cardinality({j \in DOMAIN t : t[j].op = "send" /\ t[j].msg.type = "A"})
                    |-> AddOrder(i)]
  /\ actual = << >>
  /\ done = [messages |-> << >>, writes |-> << >>, reads |-> << >>]
  /\ seen = [messages |-> << >>, writes |-> << >>, reads |-> << >>,
             beats |-> << >>, aw |-> NoAddr, w |-> NoData, ar |-> NoAddr]
  /\ watch = [beat |-> NoV1Beat, tready |-> FALSE, aw |-> NoAddr, awready |-> FALSE,
              w |-> NoData, wready |-> FALSE, ar |-> NoAddr, arready |-> FALSE,
              accumulate |-> 0, started |-> FALSE, since |-> 0, violations |-> {}]

-----------------------------------------------------------------------------
\* AXI4StreamMonitor and AXI4LiteMonitor, one turn each.  They and the checkers
\* only look on: the bench has all of them, test_backpressure.py starts the
\* checkers, test_replay.py none.
\* Slip: a beat is taken whenever it is valid.
StreamTaken_valid == bus.beat # NoV1Beat
StreamTaken == bus.beat # NoV1Beat /\ Dut!s_axis_tready
StreamMonitor ==
  LET buf == IF StreamTaken THEN Append(seen.beats, bus.beat) ELSE seen.beats
      whole == StreamTaken /\ bus.beat.last
  IN  [messages |-> IF whole THEN Append(seen.messages, buf) ELSE seen.messages,
       beats |-> IF whole THEN << >> ELSE buf]
LiteMonitor ==
  LET awa == IF bus.aw # NoAddr /\ Slave!awready THEN bus.aw ELSE seen.aw
      wda == IF bus.w # NoData /\ Slave!wready THEN bus.w ELSE seen.w
      ara == IF bus.ar # NoAddr /\ Slave!arready THEN bus.ar ELSE seen.ar
      written == bvalid /\ bus.bready /\ awa # NoAddr /\ wda # NoData
      read == rvalid /\ bus.rready /\ ara # NoAddr
  IN  [writes |-> IF written THEN Append(seen.writes, <<awa, wda>>) ELSE seen.writes,
       aw |-> IF written THEN NoAddr ELSE awa, w |-> IF written THEN NoData ELSE wda,
       reads |-> IF read THEN Append(seen.reads, <<ara, rdata>>) ELSE seen.reads,
       ar |-> IF read THEN NoAddr ELSE ara]
Monitors ==
  LET s == StreamMonitor
      l == LiteMonitor
  IN  seen' = [messages |-> s.messages, beats |-> s.beats, writes |-> l.writes,
               aw |-> l.aw, w |-> l.w, reads |-> l.reads, ar |-> l.ar]

\* What a checker calls a violation: a valid signal that fell, or a datum that
\* changed, without its handshake.
Dropped(before, ready, now, none) == before # none /\ ~ready /\ now = none
StreamViolation ==
  \/ Dropped(watch.beat, watch.tready, bus.beat, NoV1Beat)
  \/ watch.beat # NoV1Beat /\ ~watch.tready /\ bus.beat # watch.beat
LiteViolation ==
  \/ Dropped(watch.aw, watch.awready, bus.aw, NoAddr)
  \/ Dropped(watch.w, watch.wready, bus.w, NoData)
  \/ Dropped(watch.ar, watch.arready, bus.ar, NoAddr)

\* ParserChecker and DotProductChecker keep a count each.
MAX_ACCUMULATE_CYCLES == 64
MAX_COMPUTE_CYCLES == 50
accumulate_count == IF parser.state = "ACC" THEN watch.accumulate + 1 ELSE 0
started == watch.started \/ dp_start
cycles_since_start == IF started THEN watch.since + 1 ELSE 0
ComputeViolation ==
  IF started THEN cycles_since_start > MAX_COMPUTE_CYCLES ELSE Dut!Dpe!result_valid
Checkers ==
  LET running == started /\ ~Dut!Dpe!result_valid
  IN  watch' = [beat |-> bus.beat, tready |-> Dut!s_axis_tready,
                aw |-> bus.aw, awready |-> Slave!awready,
                w |-> bus.w, wready |-> Slave!wready,
                ar |-> bus.ar, arready |-> Slave!arready,
                accumulate |-> accumulate_count, started |-> running,
                since |-> IF running THEN cycles_since_start ELSE 0,
                violations |-> watch.violations
                  \cup (IF StreamViolation THEN {"stream"} ELSE {})
                  \cup (IF LiteViolation THEN {"lite"} ELSE {})
                  \cup (IF accumulate_count > MAX_ACCUMULATE_CYCLES THEN {"parser"} ELSE {})
                  \cup (IF ComputeViolation THEN {"dot product"} ELSE {})]

-----------------------------------------------------------------------------
\* The first call has ended; `more` comes before the others.  The delay between
\* messages is drawn when it is reached.
Proceed(more) ==
  LET rest == more \o Tail(test)
      draws == rest # << >> /\ Head(rest).op = "delay"
  IN  \E d \in IF draws THEN Delays ELSE {0} :
        /\ test' = IF ~draws THEN rest
                   ELSE IF d = 0 THEN Tail(rest) ELSE <<Cycles(d)>> \o Tail(rest)
        /\ bus' = Driven(test')

ClockCycles ==
  /\ Head(test).op = "cycles"
  /\ IF Head(test).n = 1 THEN Proceed(<< >>)
     ELSE test' = [test EXCEPT ![1].n = @ - 1] /\ UNCHANGED bus
  /\ UNCHANGED <<done, actual>>

\* AXI4StreamDriver.send, once around its loop.
send ==
  /\ Head(test).op = "send"
  /\ LET b == bus.beat
     IN  IF ~Dut!s_axis_tready THEN UNCHANGED <<bus, test, done>>
         ELSE IF ~b.last
           THEN bus' = [bus EXCEPT !.beat = BeatOf(b.msg, b.k + 1)] /\ UNCHANGED <<test, done>>
         ELSE /\ Proceed(<< >>)
              /\ done' = [done EXCEPT !.messages =
                            Append(@, [i \in 1 .. b.k + 1 |-> BeatOf(b.msg, i - 1)])]
  /\ UNCHANGED actual

\* AXI4LiteDriver.write: the first loop, then the wait for the response.
write ==
  /\ Head(test).op = "write"
  /\ IF bus.aw # NoAddr \/ bus.w # NoData
       THEN /\ bus' = [bus EXCEPT !.aw = IF Slave!awready THEN NoAddr ELSE @,
                                  !.w = IF Slave!wready THEN NoData ELSE @]
            /\ UNCHANGED <<test, done>>
     ELSE IF ~bvalid THEN UNCHANGED <<bus, test, done>>
     ELSE /\ Proceed(<< >>)
          /\ done' = [done EXCEPT !.writes = Append(@, <<Head(test).addr, Head(test).data>>)]
  /\ UNCHANGED actual

\* AXI4LiteDriver.read, which accepts an answer in the cycle of its arready.
read ==
  /\ Head(test).op = "read"
  /\ LET c == Head(test)
     IN  IF rvalid /\ (bus.ar = NoAddr \/ Slave!arready)
           THEN /\ Proceed(AfterRead(c.for, rdata))
                /\ done' = [done EXCEPT !.reads = Append(@, <<c.addr, rdata>>)]
                /\ actual' = IF c.for = "score" THEN Append(actual, rdata) ELSE actual
         ELSE /\ bus' = [bus EXCEPT !.ar = IF Slave!arready THEN NoAddr ELSE @]
              /\ UNCHANGED <<test, done, actual>>

V1Edge ==
  /\ Dut!Clock(bus.beat, wgt_addr, wgt_wr)
  /\ Slave!Clock(bus.aw, bus.w, bus.bready, bus.ar, bus.rready,
                 (IF Dut!status_busy THEN 2 ELSE 0) + (IF result_ready THEN 1 ELSE 0),
                 result_out)
  /\ Monitors /\ Checkers

V1Next ==
  /\ test # << >>
  /\ V1Edge /\ (ClockCycles \/ send \/ write \/ read)
  /\ UNCHANGED adds

-----------------------------------------------------------------------------
\* The features of the n-th Add Order, the weights as they are loaded, the products
\* of the two, and the first and the third of them: what the engine's result has of
\* the four.
LastPrice(n) == IF n = 0 THEN 0 ELSE Prices[n]
Raw(n) == <<Prices[n] - LastPrice(n - 1), IF n % 2 = 1 THEN 1 ELSE -1, n % 2, Prices[n]>>
Loaded(k) == bfloat16(Weights[k])
Times(n, k) == [msg |-> n, val |-> Dut!mag_to_bf16(Raw(n)[k]) * Loaded(k)]
Judged(n) == <<Times(n, 1), Times(n, 3)>>
Sum(products) == FoldSeq(LAMBDA p, t : p.val + t, 0, products)

\* What a test sends tells the results apart: "none are Add Orders in this sample"
\* of the messages test_replay takes from the file, and the weights and the prices
\* are such that two products are not within the tolerance of all four, as those of
\* test_backpressure and test_replay are.
ASSUME V1Tests ==
  /\ \A f \in Files : \A i \in DOMAIN parse_file(f, {"S", "R", "A"}, 4) :
       parse_file(f, {"S", "R", "A"}, 4)[i].type # "A"
  /\ \A p \in {2, Len(Prices)} : \A i \in 1 .. p :
       ~matches(expected_of([j \in 1 .. p |-> AddOrder(j)], Weights)[i], Sum(Judged(i)))

\* The scoreboard judges what it should: each result it is given is made of
\* products of the Add Order it stands for, none of the one before (whose price
\* may be so near that the tolerance would hide it), all of them when the test
\* ends; and it accepts exactly those that are the whole sum of four products.
ScoresJudged ==
  /\ \A i \in DOMAIN actual : /\ actual[i] # << >>
                              /\ \A k \in DOMAIN actual[i] : actual[i][k].msg = i
  /\ mismatches(expected_of(adds, Weights), [i \in DOMAIN actual |-> Sum(actual[i])])
       = {i \in DOMAIN actual : Len(actual[i]) # Len(Weights)}
  /\ test = << >> => Len(actual) = Len(adds)

\* Those who only watch: no checker reports a violation of a design that works,
\* whatever the pacing, and the monitors have recorded exactly the messages,
\* writes and reads that the drivers have completed.
ObserversRight ==
  /\ watch.violations = {}
  /\ \A kind \in {"messages", "writes", "reads"} : seen[kind] = done[kind]
=============================================================================
