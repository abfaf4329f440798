# Verification of the low latency inference unit (LLIU)

TLA+ models of the RTL in `src/rtl/`, of the Python test benches that drive it
(`src/tb/cocotb/`) and of the scripts that decide whether a regression passed
(`src/scripts/`, `src/.github/plan/dvcon/results/`); the TLC runs that check
them on small instances and the theorems TLAPS proves about them.

## 1. The system

The design receives NASDAQ ITCH 5.0 over UDP multicast on a 10 GbE link, keeps
an order book, scores every new order on a watchlist with eight small
inference cores, and sends an OUCH order when the best score passes a
threshold and the risk checks agree.

    mac_rx -> eth_axis_rx_wrap -> (UDP/IP stack) -> moldupp64_strip -> async FIFO
      -> itch_parser_v2 -+-> order_book ----> bbo ---------+
                         +-> symbol_filter -> (delay line) -> feature_extractor_v2
                                 -> 8 x lliu_core -> strategy_arbiter
                                 -> risk_check -> ouch_engine -> TX
      order_book.bbo/l2 -> snapshot_mux -> pcie_dma_engine -> host
      timestamp_tap x 2 -> latency_histogram;  AXI4-Lite: weights, thresholds, kill switch

| component | state it keeps | operations | what is hard | what makes it correct |
|---|---|---|---|---|
| `order_book` | FSM, reference hash table, price levels, BBO registers, registered write port | Add, Cancel, Delete, Replace, Execute, reset | open addressing over several cycles, two-write Replace, reset between writes, messages while busy | the table is the exchange's live orders; no quote without an order; an Add is dropped only when its window is full |
| `risk_check` | six-stage pipeline, position memory, kill switch | check, write back, configure | read-modify-write of the position over a pipeline | the net position never passes the limit; no order passes a standing kill |
| `ouch_engine` | FSM, template, order token, stall watchdog | send, ignore, time out | an order that arrives while one is sent; a stalled transmitter | one packet per accepted order, unique tokens, fields of one order |
| `strategy_arbiter` | three levels of registers | one tournament per cycle | ties, thresholds, invalid entries | winner is the maximum of the valid scores over threshold |
| `lliu_top_v2` | hold registers, `in_flight`, delay line | gate, hold, launch, collect | a new message while an inference is in flight | the order sent is the order that was scored and checked |
| `lliu_core`, `dot_product_engine`, `weight_mem` | sequencer, accumulators, weights | load, run, write weight | alignment of weight and feature reads, drain count | each result is the product of its own features and the weights |
| `itch_parser_v2` | FSM, byte buffer | accumulate, emit | truncation, messages that do not start on a beat | each complete message is reported once with its own bytes |
| `moldupp64_strip` | FSM, expected sequence | strip, drop, re-align | loss, duplication, reordering of datagrams; malformed lengths | no sequence number delivered twice, payload bytes intact |
| `eth_axis_rx_wrap` | drop decision | forward or drop a frame | FIFO filling in the middle of a frame | whole frames only |
| `snapshot_mux`, `pcie_dma_engine` | capture FSM, ping-pong buffers, TLP FSM, ring pointers | capture, send | two clock domains, request and done pulses | each request gives one complete snapshot |
| `latency_histogram`, `timestamp_tap`, `ptp_core` | counters | stamp, bin | event during clear, wrap of the counter | counts every pair once |
| AXI4-Lite (inline and `axi4_lite_slave`) | capture registers | read, write | address and data in either order, back-pressure of the response | one response per transaction |

The other half of the repository is the environment that verifies the design.
Its code decides whether a wrong design is noticed, so what makes it correct is
that it neither blames a design that works nor passes one that does not run.

| component | state it keeps | operations | what is hard | what makes it correct |
|---|---|---|---|---|
| `lliu_top` (v1), `axi4_lite_slave`, `output_buffer` | parser, extractor, sequencer, one result register | send a message, write a weight, poll | a result that was read stays ready | the result polled is that of the last message |
| drivers (`axi4_stream_driver`, `axi4_lite_driver`, `moldupp64_builder`, `eth_frame_builder`) | the beat or call under way | send, write, read | driving and sampling at the same edge | each item is transferred once, whole |
| monitors and checkers | what they saw one edge ago, what they expect | one turn per edge | two coroutines wake in either order; expectations age | no false alarm, no transaction missed |
| `order_book_model` | a dict by CRC bucket, quotes | add, cancel, delete, replace, execute | one entry per bucket against a probed table | table and quotes equal the hardware's |
| `golden_model`, `scoreboard`, `itch_feeder`, `itch_decoder` | expected and actual results | decode, score, compare | which result belongs to which message | a message is judged by its own result |
| `run_cocotb_regression.py` | `results.xml`, copies, report | make per module, copy, merge, `--no-run` | dead simulations, stale files, Ctrl-C | a failing case makes the exit status 1 |
| `run_uvm_regression.py` | binaries, logs, results | compile per toplevel, run, parse, report | groups that do not build, old logs | status 0 only if every test ran and passed |
| coverage readers | running counts | read a line of an annotated or LCOV file | marks, merged files, rounding | 100 % only if nothing was missed |
| `functional_coverage` | bins and crosses | sample, ask for closure | crosses; coverpoints that closure omits | closure only if single samples hit every pair |

The components are listed with their status in `PROJECT.json`, together with
the hazards: the places of this code that are hard to test, each with the
properties that watch it or the reason why none does.

## 2. How the models are written

The design is synchronous, so a component is a module whose `Clock(inputs)` is
one edge of its clock: its parameters are the inputs the edge samples, its
primed variables the registers. The cases of an `always_ff` are operators of
their own, guarded by the state they belong to. `Reset` is an edge with `rst`
up; registers the RTL does not reset (memories, `msg_buf`) keep their value.

A component module has no environment. A *Feed* module (`BookFeed`,
`RiskFeed`, `OuchFeed`, `LliuFeed`) or a composition (`LliuCore`, `Ingress`)
supplies the inputs an edge may see and the variables that only observe: the
exchange's true orders, the true position, the frame as the transmitter got
it. Properties compare the registers with these.

Data is abstract. An order reference is a model value with a hash given as a
function, a price one of two numbers, a feature vector a name, a float the
sequence of products summed up in it, a byte the message and the place it
comes from. Widths stay where they matter: `Signed`, `Magnitude` and `BandThresh`
have those of the RTL, with the position's scaled down by a constant.

| module | models | composed of |
|---|---|---|
| `OrderBook` | `order_book.sv`: every FSM state, the registered write port, levels, BBO | |
| `BookFeed` | the exchange and the parser in front of it | `OrderBook` |
| `OrderMap` | what the table promises: a map changed by one message at a time | implemented by `BookFeed` (`ImplementsMap`) |
| `RiskCheck` | `risk_check.sv`, with the arithmetic of the price band | |
| `RiskFeed` | orders, kill switch, overflow flag | `RiskCheck` |
| `OuchEngine` | `ouch_engine.sv` | |
| `OuchFeed` | `risk_pass`, template port and transmitter | `OuchEngine` |
| `DotProduct` | `dot_product_engine.sv` with its `fp32_acc`s and the multiplier's latency | |
| `LliuCore` | `lliu_core.sv` with `weight_mem` | `DotProduct` |
| `CoreTiming` | what the top level needs of a core | implemented by `LliuCore` (`KeepsTiming`) |
| `StrategyArbiter` | `strategy_arbiter.sv` | |
| `MoldStrip` | `moldupp64_strip.sv` | |
| `ItchParser` | `itch_parser_v2.sv`, byte by byte | |
| `ParserTiming` | what the top level needs of the parser | implemented by `ItchParser` (`ParserTimed`) |
| `Ingress` | UDP payloads to fields: two clocks, the FIFO, the network | `MoldStrip`, `ItchParser` |
| `LliuTop` | `lliu_top_v2.sv` from the parser's fields to the transmit bus | `ParserTiming`, `CoreTiming`, `StrategyArbiter`, `RiskCheck`, `OuchEngine` |
| `LliuFeed` | messages, transmitter, rst | `LliuTop` |
| `LliuV1` | `lliu_top.sv` and its parts | `DotProduct` |
| `AxilSlave` | `axi4_lite_slave.sv` | |
| `GoldenModel` | decoder, features, inference, scoreboard of the v1 benches | |
| `V1Bench` | their tests, AXI drivers, monitors and checkers | `LliuV1`, `AxilSlave`, `GoldenModel` |
| `OrderBookModel` | `order_book_model.py` | |
| `BookBench` | `test_order_book.py` | `OrderBook`, `OrderBookModel` |
| `MoldBench` | `test_moldupp64_strip.py`: builder, driver, collector, checker | `MoldStrip` |
| `FilterBench` | `test_symbol_filter.py` and its checker, with `symbol_filter.sv` | |
| `EthFrame` | `eth_frame_builder.py` | |
| `EthBench` | `test_eth_axis_rx_wrap.py`, with `eth_axis_rx_wrap.sv` | `EthFrame` |
| `CocotbBench` | the five benches, one in each behaviour | the benches |
| `CocotbRegression`, `UvmRegression` | the regression scripts and the cleaning script | |
| `AnnotatedCoverage`, `LcovReports` | the readers of annotated sources and of LCOV files | |
| `FunctionalCoverage` | `functional_coverage.py` | |
| `Scripts` | the two regressions on one working tree, or one of the readers | the five above |
| `BookFeedProofs`, `LliuProofs`, `RiskProofs`, `OuchProofs`, `CoreProofs`, `IngressProofs`, `BenchProofs`, `ScriptsProofs` | theorems | the modules they are named for (`OrderBook`, `LliuFeed` and `StrategyArbiter`, `RiskFeed`, `OuchFeed`, `LliuCore`, `Ingress`, `CocotbBench`) |

In a bench a step is one clock edge: hardware, drivers, monitors and checkers
all read what was there before it. Where the order of two coroutines at an edge
matters both orders are steps. In a script a step is one subprocess or one line
of a file, and between two steps the call may be interrupted.

`LliuTop` uses parser and cores at their timing, and the runs `ingress` and
`core` show that the detailed models keep it; arbiter, risk check and OUCH
engine run in it as they are. The eight cores take the same vector in the same
cycle and run in lockstep, so one copy of their timing stands for all.

A definition named `X_slip`, for instance `Reduced_stale` before `Reduced`, is
`X` with a plausible slip in it. Nothing uses it; putting it in the place of
`X` shows what a property notices. `PROJECT.json` lists under `mutants` which
property notices which slip.

## 3. The runs

`tlc -config <cfg> <module>`, a few seconds to two minutes each.

| run | module, cfg | question | properties |
|---|---|---|---|
| `book_crowded` | `MCBookFeed`, `_crowded` | colliding base slots, full windows, wrap-around, rst in any cycle | `TypeOK`, `InWindow`, `DropMeansFull`, `AlwaysReady` |
| `book_spread` | `MCBookFeed`, `_spread` | without collisions, is the book the exchange's book? | `TableIsLive`, `NoGhostQuote`, `LevelsBacked`, `ImplementsMap` |
| `book_probe_chain` | `MCBookFeed`, `_miss` | with collisions and deletions, is every live order found? **No** | `MissMeansAbsent` |
| `risk` | `RiskFeed` | position limit, exact position, kill switch and overflow veto, price band | `NetWithinLimit`, `PositionExact`, `KillHolds`, `BandHolds` |
| `ouch` | `OuchFeed` | frames under back-pressure, template writes and rst; the watchdog; liveness | `WellFramed`, `CarriesTheOrder`, `WatchdogHonest`, `SentInTheEnd` |
| `core` | `LliuCore` | accumulators complete when read, nothing left over, what the result sums up, timing | `EngineSums`, `KeepsTiming` |
| `core_result` | `LliuCore`, `_result` | is the result the sum of the whole vector? **No** | `ResultWhole` |
| `top` | `LliuFeed` | the order path from the parser to the transmit bus | `OneContextWhenCalm`, `ScoredIsCheckedWhenCalm`, `PassedIsSentWhenCalm`, `ChargedIsSent` |
| `top_shares` | `LliuFeed`, `_shares` | is the order sent the one checked? **No** | `PassedIsSentWhenCalm` |
| `ingress` | `Ingress` | loss, repetition, reordering, cuts, heartbeats, back-pressure, rst | `FieldsWhole`, `Contiguous`, `EmittedExactly`, `ParserTimed` |
| `bench` | `MCCocotbBench` | do drivers, checkers, models and scoreboards agree with hardware that works? | `DatagramStripped`, `CheckerReady`, `FilterChecked`, `WholeFrames`, `ScoresJudged`, `ObserversRight`, `BookMatchesModel`, `TableMatchesModel` |
| `scripts` | `MCScripts` | is a failure, a skipped group or a missed line ever reported as success? | `FailureFailsTheRun`, `CleanRunCountsItself`, `UvmPassMeansRan`, `FullMeansFull`, `GapFindsEveryMiss`, `ClosureNeedsEveryPair` |

### Bounds, and why they are enough

- Book: three references, table of three slots, windows of two (`MaxProbe` 1),
  two levels of at most two prices, shares up to 2. Collision, displacement,
  full window, wrap-around, a level shared by two orders and a level table
  that fills up all occur. `CountMod` bounds the collision counter.
- Risk: positions of 4 bits (`Half` 4), limit 3, orders of 2 and 3: the limit
  is met from both sides. Orders are `Gap` = 4 cycles apart, the least
  distance the parser leaves between two messages; at 3 the pipeline's
  read-modify-write breaks (see 6). `SampleQuotes` are prices at the edge of the
  band on both sides.
- OUCH: watchdog limits 3 and 4 for 64 and 256, tokens modulo 3, a template
  of one word with two contents.
- Core: 32 elements as in the RTL, two vectors, so that one can be left over
  in the other's sums.
- Top: one message that passes until the position limit stops it, one that
  the price band stops, with five and six beats as 'A' and 'F'; any
  other message, or a heartbeat, as `Junk`. A core takes `CoreLatency` = 14 cycles in
  the model for 63: longer than the 13 cycles a second message can follow the
  first at, which is what matters; at 6 to 12 a second vector could arrive
  with the first result and `in_flight` would stick, which the real latency
  excludes. A `Junk` message has one beat or more, as in `ParserTiming` and in
  `Ingress`, which implements it: a heartbeat in order is one beat.
- Ingress: the stream 'A', 'F', 'D', payloads cut in the header, in the length
  field, in the body and in the last beat (`SampleCuts`), and heartbeats; a FIFO of 2 beats for 128, so that it is often full;
  `dropped_datagrams` saturates at 1. One message per datagram, as all
  end-to-end tests send them.
- Benches: payloads of 4, 8 and 14 bytes end before, at and behind a beat's
  middle and edge; sequence numbers up to 3 leave room for a gap, a duplicate
  and an acceptance after either; two CAM entries and two stocks; three frames
  of two message lists; three Add Orders in a stress test and
  three sample files in a replay, with delays of 0, 2 and 7 cycles between
  messages. The prices have bits a bfloat16 does not keep. Book: three references of which two share
  a bucket.
- Scripts: two sessions, as what is stale was left by an earlier one; three
  cocotb modules under two toplevels; a default and two extra UVM groups;
  annotated files of up to three stretches of 1, 199 or 1999 like lines, with
  counts up to 2 and `--annotate-min` 1 and 2: a miss beside 199 hits is what
  rounding to a whole per cent hides, one beside 1999 what rounding to a decimal
  hides. `.info` files of two records, too short to round; the theorems
  `FullIsFull` and `MissesShow` cover files of any length.

### Fairness

The clock does not stop: weak fairness of the step that a running FSM takes
(`BookFeed`: `Busy`; `LliuCore`: `Next`). `OuchFeed`'s `LiveSpec` adds strong
fairness of the edges at which the transmitter is ready: it may refuse any
number of beats but not for ever. The other specifications state safety only:
what a bench or a script must do in the end depends on the simulator.

`CHECK_DEADLOCK` is off in `bench` and `scripts`, whose behaviours end with the
last call of a test, the last session or the end of a file. It is on in every
other run: a clock does not stop.

## 4. What is proved

`BookFeedProofs`. Of the book alone, for every table size, probe depth, hash function, set of
prices and message set, under `TableAssumption` (sizes positive, hashes in
the table):

- `TypeCorrect`: `Spec => []TypeOK`.
- `EntriesInWindow`: `Spec => []InWindow`, no order is ever stored where a
  lookup of its reference does not probe.
- `Invariance`: the inductive invariant behind both. `InWindow` alone is not
  inductive: a write is registered and lands one edge later, and its address
  was chosen several states before. `FsmOK`, `TableOK` and what follows them
  say what is known in each state: `ref_rd_addr` is the slot of probe
  `probe_cnt` for the reference under way, `ref_rd_data` is what that slot
  held, and a pending write obeys the window as the table does. The proof of
  the step has one case for each state of the FSM and one for `Reset`.

Of the book with the exchange, on top of these. For every hash function, message
sequence and reset:

- `DropsAreHonest`: `Spec => DropMeansFull`. The probe is a walk over several
  edges; `ProbeInv` says that nothing is written meanwhile, that what was read
  is what the slot holds, and that every slot behind the probe holds another
  order.

And for any number of references, symbols, levels, prices and shares, but under
`Spread`: no two references share a base slot (what happens when they do is
`book_probe_chain`), a Replace carries its order's side (as the block's tests
drive it), and `rst` does not come while the feed runs.

- `TableFollowsFeed`, `QuotesAreLive`, `LevelsAreLive`: `FeedSpec` implies
  `[]TableIsLive`, `[]NoGhostQuote` and `[]LevelsBacked`. None is inductive: they
  speak of S_IDLE, and between two visits to it the exchange is one message
  ahead of the book. `Agreement` says that at every edge there is a *view* b of
  the orders the book agrees with: the exchange's own while no message is under
  way or S_UPDATE is behind, and before that a view from which the message
  leads to it (`Leads`: an order enters, shrinks, leaves or moves). `Agrees`
  relates the table, the quotes and the levels with b; `FirstMatch` shows that
  the lookup ends at its first probe with b's entry, and `AddAgrees`,
  `ShrunkAgrees`, `LeftAgrees`, `MovedAgrees` that S_UPDATE takes the book to
  the view behind the message. That no price has more levels than orders needs
  counting: a level that is freed or reused goes with an order (`CountAdd`,
  `CountRemove`, `CountMove`).
- `TableRefinesMap`: the safety half of `ImplementsMap`. The visible table is
  the view (`VisibleView`), so every step of the book is a stutter of
  `OrderMap` but S_UPDATE, which is its `Perform`. The fairness half stays with
  TLC.
- `NothingMissed`: `MissMeansAbsent`, the property `book_probe_chain` violates,
  holds under `Spread`.

`LliuProofs`, of the whole order path, for any messages, scores, threshold, core
latency and watchdog limits, a transmitter that refuses any beats, and `rst` in
any cycle; while one watched message at a time is under way:

- `OneContextAlways`: `FeedSpec => []OneContextWhenCalm`. The path is a line of
  nine places (`Places`: delay line, feature stages, cores, three levels of the
  arbiter, risk pipeline, verdict, OUCH engine). `OneAtATime` says that at most
  one of them, and one stage of it, holds something. An empty place behind an
  empty one stays empty (`StaysClear`), and what is alone leaves its place or is
  not in the next yet (`HandsOver`). It says more than the property: nothing
  that follows would be inductive without it.
- `ScoredIsCheckedAlways`: `[]ScoredIsCheckedWhenCalm`, for messages of any
  length. The property itself leaves out the one order of events that breaks it:
  a one-beat message right behind the watched one (section 6). `Aligned` says how
  far the parser may be on with the next message while the last one's hit is
  awaited: `price_d1` still holds the fields when the hold registers load;
  `Settled`, that nothing is emitted while the fields come out. `Holds` says that
  the hold registers keep them to the arbiter.
- `PassedIsSentAlways`: `[]PassedIsSentWhenCalm`, if all cores propose the same
  number of shares (`SameShares`; `top_shares` refutes it otherwise). Any order
  in the risk pipeline is for the message held (`PipeMatches`), and no hit
  comes to move what is held (`HitIsAlone`).
- `ChargedIsSentAlways`: `[]ChargedIsSent`, if besides the position register can
  hold the limit (`Sane`, as in `RiskProofs`). `Charged` joins the position
  memory, its write-back and what was sent; an order that passes finds the OUCH
  engine idle (`PassedIsTaken`), so what is charged is taken.
- `SentWithinLimit`: the net quantity of the orders that have left never passes
  the position limit, from the same invariant.
- `WinnerIsFirstMaximum`: for any eight scores, any set of valid cores and any
  threshold, the tournament's winner is the first of the highest scores that
  reach the threshold, and there is none exactly if no score does. `LeafWins`,
  `PlayWins` and `HalfWins` carry it up the tree: a node speaks for a range of
  cores, and a comparison joins two adjacent ranges.

`RiskProofs`, for every set of symbols, share counts and quotes, and orders and
`rst` in any cycle. `LimitIsKept` and `PositionIsExact` hold in a `Sane`
configuration: orders at least 4 cycles apart (the parser's least distance), a
limit below the position register's half range, `max_qty` at most that half
range. Nothing in the RTL enforces the last two; the registers are wide enough
to violate them.

- `PositionIsExact`: `FeedSpec => []PositionExact`. The invariant, `PosInv`,
  says of each stage what it has read: no write-back is pending when a symbol's
  position is read, so `pos_rd_data` beside `_p1` and `new_net_r` beside `_p2`
  are computed from the position that is current when the order is decided.
  That is the read-modify-write hazard of the pipeline; `Spaced` carries the
  distance between orders from stage to stage and excludes it. Arithmetic: a
  position that passed fits into the register, so its two's complement is
  itself (`SignedFits`, `MagnitudeFits`).
- `LimitIsKept`: `FeedSpec => []NetWithinLimit`, from the same invariant.
- `KillIsFinal`: `FeedSpec => []KillHolds`, in any configuration: an order that
  enters under `kill_sw` or `tx_overflow` does not pass when it is decided
  `Depth` edges later. `vetoed` is the history of such entries; the invariant
  says that the order a history entry stands for is still marked in its stage.
- `BandIsKept`: `FeedSpec => []BandHolds` for every set of quotes whose reference
  fits 27 bits and whose width fits 14 (`QuotesFit`). `BandBracket` is the
  arithmetic: with the truncated product shifted by 13, a price that is not
  blocked is within twice the band, and one that is blocked is outside it.

`OuchProofs`, for every set of orders, symbols and template contents, any token
width and any two limits of the watchdog, an order and a refused beat in any
cycle, template writes and `rst` in any cycle:

- `FramesAreWhole`: `FeedSpec => []WellFramed`, and `PacketsAreRight`:
  `FeedSpec => []CarriesTheOrder`, from one invariant, `FrameInv`. It says for
  each FSM state what the engine holds of the order taken (the latch from
  S_FETCH, the template's registered output from S_LOAD, the packet in S_SEND)
  and, in S_SEND, that the beats received are the first `beat_cnt` of the packet
  on the bus. The registered read is the delicate part: what S_LOAD finds in
  `tmpl_rd` is a version its entry had after the order was taken.
- `OverflowIsHonest`: `FeedSpec => WatchdogHonest`. The invariant, `DogInv`,
  ties the two counters to the runs of edges the receiver counts: `bp_cnt` is
  the run of refusals, up to one short of the limit, and while `tx_overflow` is
  up `clr_cnt` is at most the run without one.

`CoreProofs`, vectors offered, weights written and `rst` in any cycle
(`EngineSumsAlways`: `Spec => []EngineSums`, from the first two):

- `PartialsAreWhole`: `Spec => []PartialsWhole` for every vector length but those
  that leave 1 on division by 5. Such a vector's last element goes to
  accumulator 0, which is the first to be read, and the engine's six cycles of
  drain (`dot_product_engine.sv:238`) are one too few for it; the design builds
  the engine for 4 and for 32. The invariant, `CoreInv`, is about the cycle `t`
  since the vector was taken: `SeqAt(t)` and `DpeAt(t)` give sequencer and
  engine, `MulIs` the products on their way and `AccIs` an accumulator.
  Element `e` is in the multiplier until edge `e + 5` and in the register from
  `e + 11` on, and since the next element of the same accumulator follows
  exactly five cycles later, what is fed back is the sum of all before it. That
  is the one spacing at which the pipeline of `fp32_acc` adds up correctly; with
  the merge's spacing of four it does not (`core_result`). `Fresh` says of the
  cycles before the first element that nothing in the pipeline is enabled.
- `ResultSumsEverySecond`: `Spec => []ResultIsEverySecond`, for the same lengths.
  `core_result` shows that the result is not the whole sum; this says what it is.
  `Merged` continues the invariant from the edge at which the first partial sum
  is read: sum `k` is in `merge_r` at edge `4k + 1` and in the register of
  `u_merge` from `4k + 7` to `4k + 10`, so at `4k + 1` the one to add to is that
  of `k - 2` (`MergeSpacing`), and the last but one is what `S_DONE` finds.
- `CoreIsTimed`: the safety half of `KeepsTiming`, for every vector length.
  `LeftThen` gives `CyclesLeft` at each `t`, and one step of the core is `Take`,
  `Wait`, `Rest` or `Reset` of `CoreTiming`.

`IngressProofs`, for every stream of messages of at most `MaxBody` bytes, every
set of supported kinds and their fields, any cuts, any FIFO depth and drop
limit; datagrams in any order and number, the two clocks and `rst` in any order:

- `ContiguousAlways`: `Spec => []Contiguous`. `NetInv` says for each state of
  the stripper how far into the payload it is and what is staged (`StripPlace`),
  and that a payload in the middle of which it is was the one in order
  (`InOrderOnce`); a tick of clk_156 then is one of five (`Still`, `Ahead`,
  `Accepts`, `Sends`, `Flushes`).
- `FieldsWholeAlways`: `Spec => []FieldsWhole`. `PipeInv` follows the bytes: the
  beats in the FIFO continue one another, from the byte the parser wants next to
  the byte the stripper sends next (`Chained`); `msg_buf` holds the frame under
  way up to `byte_cnt` (`ParserHolds`), and what it holds behind that is never
  looked at, as a message is complete only once its last beat is written. A
  tick of clk_300 is one of `Waits`, `Emits`, `Loses`, `Grows`, `Completes`.
- `TimingIsKept`: `Spec => ParserTimed`. Each of these five is a step of
  `ParserTiming` or a stutter.
- `EmittedExactlyAlways`: `Spec => []EmittedExactly`. What is emitted, on its
  way and given up together is what was accepted (`Accounted`), and the numbers
  on the way rise (`Ordered`).

`BenchProofs`, of `CocotbBenchSpec`:

- `FilterAgrees`: `[]FilterChecked`, for any number of entries and stocks. The
  invariant puts each of
  the checker's pending answers beside the stage its stock has reached
  (`Flight`), and the checker's CAM beside the filter's as it will be once the
  strobe is sampled (`SameCam`), one write behind at the edge at which a test
  drove a lookup and a write together.
- `BookIsModel` and `TableIsModel`: `[]BookMatchesModel` and
  `[]TableMatchesModel`, for any references, hash, table size, probe window,
  symbols and messages. The model moves in one call what the book moves in up to eleven
  cycles. `BookInv` says for each state of the FSM what it has still to do:
  level in IDLE, behind by one message up to UPDATE (`Behind`: `TableThen` and
  `QuotesThen` of the hardware's table and quotes are the model's), one slot to
  clear in UPDATE2, one write in DONE. `AddMoves`, `DeleteMoves`, `ReduceMoves`
  and `ReplaceMoves` show that each method of the model does that much. The
  lookup never goes past the base slot: the model drops every Add for which the
  book would have to.
- `StripsEveryHeader` and `CheckerKeepsUp`: `[]DatagramStripped` and
  `[]CheckerReady`, for any payload lengths the builder allows, pauses, numbers
  and order of the datagrams. `MoldInv` says for a datagram of which `k` beats are taken
  what of it is staged and what is collected (`InHeader`, `InBody`), and how far
  the test's counts are ahead; `BeatHalves` gives the halves of a beat as parts of the
  datagram, and `LastIsShort` is where the builder's note on payload lengths is
  needed: without it the last bytes stay in the stage. `Watched` says which
  change of `expected_seq_num` the checker has still to see. `beats_to_bytes` is
  a recursive function: `GathersAll` and `GathersOne` show by `AllNumbers` that
  it has exactly one value, `MoreBytes` what one more beat adds. `AllNumbers` is
  induction for a set of numbers, from the well-foundedness of `<`; the
  library's own theorem takes an operator, which these provers cannot
  instantiate.
- `FramesStayWhole`: `[]WholeFrames`, for any lists of messages that fit a
  datagram (the builder's 16-bit lengths: `EthAssumption`), any addresses, any
  number of frames and any moves of `fifo_almost_full`. `EthInv` has three
  cases: between two frames (`Between`), in one that is given (`Passing`) and in
  one of which nothing is, because it has not begun or is dropped (`Withheld`);
  a frame never changes from the one to the other, and that is what
  `drop_current` is for. `Given` says that the beats passed on are so many whole
  frames and the bytes sent of one more (`BeatPasses`: one beat more is either
  the next eight bytes or the end of it), `Tallied` that the counter has what is
  missing. That every header verifies is a lemma of its own (`FrameFacts`): folding the
  carries takes a multiple of 65535 off a sum and never leaves 0 of one that is
  not 0 (`FoldedIs`), so the sum with the checksum in place, a multiple of
  65535, folds to all ones (`ChecksumHolds`); `SumGrows` says that putting the checksum in adds
  just that to the sum of the words.

- `ObserversAreRight`: `[]ObserversRight`, for any weights, prices, sample files
  and delays (`V1Assumption`: integers, four weights, messages that fit `msg_buf`,
  more than one price). Four invariants, each by itself. `Sequenced` and `Computes` tie the
  checker's count to each state of the engine, so that it ends at 30 at the
  latest, and 50 are allowed. `CallsInv` says where the call in front of the test
  stands on the bus, in the slave and in the monitors together: begun and nothing
  heard (`CallBegins`), `k` beats of a message taken (`MessageSent`), a write
  taken (`WriteTaken`), a read asked for (`ReadAsked`); a handshake that one of
  the three saw and another did not is in none of these. `ParserFollows`: the
  parser gathers the message on the bus, or has not waited longer than the beats
  that were before it (`Settling`), 25 cycles at most of the 64 allowed.
  `SignalsHeld`: the stream checker's copy of the bus is the bus of one edge ago.
  That the tests drive only messages, writes and reads of the right kind is by
  induction too, `parse_file`'s list included.
- `ScoresAreJudged`: `[]ScoresJudged`, for the same values if they tell the results
  apart (`V1Tests`). `ScoresInv`, on top of the invariants above, says where
  a test stands (`Stands`): after how many results, in which phase, and with which
  message how many edges from its result (`t`). The phases run through the calls of a
  test: below 0 the weights are written, in phase `2 n - 2` the n-th Add Order is to
  come, in `2 n - 1` it is sent, and the wait for its result leads to `2 n` (`Leads`;
  `StressGoes` and `ReplayGoes` show that both tests go this way, and
  `OrdersCounted` that they send as many Add Orders as they have phases). From `n` and
  `t` follow all registers between parser and result (`Carries`): 36 edges lie between
  the last beat and `result_ready`, of which the engine takes 30, and what is
  summed is never that of two messages. That no read comes too early is in
  `Awaiting`: after a flush 35 cycles are waited, and the read of RESULT with
  `t = 0` returns the message's own products (`Replied`). The slave's
  registers and the writes of the weights are `Port`.

`ScriptsProofs`, of `ScriptSpec`:

- `FailureFails`: `[]FailureFailsTheRun` for any list of modules, any results
  and any history of killed, interrupted and cleaned-up calls. Invariant: in a
  call that goes on, whatever a simulation of this call wrote is what its copy
  holds. That the merge then counts at least one failure needs the set of test
  cases to be finite (`CasesFinite`).
- `CleanRunCounts`: `[]CleanRunCountsItself`. In a call that began with a clean
  tree and in which no make left an older file in place, what the merge will
  read is what this call wrote, and the modules still to come have no copy yet
  (`CleanInv`, on top of the invariant above); so the merged cases are the
  call's own, and passed, failed and skipped split them in three.
- `PassMeansRan`: `[]UvmPassMeansRan` for any lists of tests, none in two
  groups. Invariant: every group before the present one is accounted for, and a
  group that did not compile still has a failure that nothing overwrites.
- `FullIsFull`: `[]FullMeansFull` for files of any length: of the points never
  hit, a figure cut off to an integer hides none, the whole per cents of phase
  2's `coverage.txt` at most one in 200, a decimal at most one in 2000, and
  `calc_rtl_cov.py` what it drops. Invariant: what a reader's hits fall short of
  its total is at least the points never hit of the kinds it counts (exactly
  that, for the readers that go by the count).
- `MissesShow`: `[]GapFindsEveryMiss` for any finite set of paths and files of any
  length; the list of gaps and the printed totals, whose decimal hides nothing
  below 2000 lines (`PrintedIsFull`). Invariant: in each file of `coverage_report.py` hits do not exceed
  lines, and are fewer if one was missed (`ReportInv`); for the phases' scripts, what
  is known of a target with no record or one (`PhaseInv`). That the totals then
  differ is about sums over sets: `SumsDiffer` says that sums of terms, none of
  which is greater than its counterpart, are equal only if all terms are. Both
  sums take the elements in the same order, so none has to be fixed.
- `ClosureIsEarned`: `[]ClosureNeedsEveryPair`, for any samples. Invariant: only
  bins there are count as hit, and each pair of a cross that counts had one sample
  for both. 100 per cent is the same lemma about sums, over coverpoints and crosses.

The assumptions are the named ASSUMEs of the modules; the runs evaluate them.

`V1Tests` is needed: if the products that the engine leaves out are 0, a partial sum is
the whole one in value. It says that of the messages taken from the file none
is an Add Order (`test_replay.py:132` says so of the sample), and that the sum of the
first and the third product is not within 5 % of the sum of four. The price's product
is among those left out, and the weights and prices of `test_backpressure.py`
(lines 156, 191, 200 and 209) and `test_replay.py` (lines 169, 179, 180) satisfy it.

Only model-checked is all liveness: `AlwaysReady`, `SentInTheEnd` and the fairness halves of
`ImplementsMap` and `KeepsTiming`; every invariant that a passing run checks is a
theorem too.

## 5. What could come next

1. `Ingress` with several messages in a datagram; parser, book and top level
   together, with `book_ready` left unconnected as it is.
2. `snapshot_mux` with `pcie_dma_engine`'s snapshot side (`snap_done` rises
   once `snap_valid` is down, the capture ends when it sees both at
   `pcie_dma_engine.sv:258`); AXI4-Lite decode of `lliu_top_v2` (lines 536-686).

## 6. Where code and documents disagree

Kept as runs: `book_probe_chain`, `core_result` and `top_shares` (see
`findings`). Met on the way, and told here only:

- **Two inferences at once.** The hold rises one cycle after `fields_valid`, and
  the parser may have the next message's fields out before it sees the hold:
  `OneContext` (no `WhenCalm`) fails in `LliuFeed`.
- **A heartbeat moves the hold registers.** `held_price_r` takes `price_d1`
  (`lliu_top_v2.sv:386`) three cycles after `fields_valid`, though the comment at
  :222 aligns the fields with `price_d3`. A heartbeat in order reaches the parser
  as one beat (`moldupp64_strip.sv:279-288`), which emits it
  (`itch_parser_v2.sv:142`); right behind a watched message it overwrites the
  fields in time, and the order checked is not the one scored. Without
  `~heartbeat` in `ScoredIsCheckedWhenCalm` TLC shows it in run `top`. No ITCH
  message is that short.
- **A replaced bid becomes an ask.** `order_book.sv:578` stores a Replace with
  the message's side; `itch_parser_v2.sv:239` drives 0 for every 'U'. The
  block's own tests drive the side (`test_order_book.py:175`). `book_spread`
  runs with `KeepSide` (as the tests), `book_crowded` without (as the parser).
- **'F' and 'X' alone in a datagram never arrive.** `moldupp64_strip.sv:236-262`
  never sends the upper half of a last beat; `test_moldupp64_strip.py:18`
  names the constraint, the module's header does not. `EmittedExactly` says
  which messages survive; of the exchange's 31-byte 'E' none does.
- **The second message of a datagram is lost** unless the first ends with a
  beat: the parser finds a length only at the start of a beat.
- **A message cut within its last beat comes out.** `itch_parser_v2.sv:176` says
  "Truncated message: discard", but line 173 comes first and counts beats, not
  bytes; the parser has no tkeep (`kc705_top.sv:532`). What was behind the cut
  reads as padding (`Received` in `FieldsWhole`).
- The price of a 'C' is in bytes 32 to 35 (`itch_parser_v2.sv:53`) of a body of
  35 (`:36`): its last byte is behind the body. The parser takes it from the
  padding of the last beat.
- **After a gap nothing is accepted** until rst (`Contiguous`);
  `moldupp64_strip.md` says `expected_seq_num` advances by 1 after `tlast`, the code adds
  the message count at beat 2.
- **The book misses messages**: `book_ready` is unconnected
  (`lliu_top_v2.sv:201`) and an Add takes ten cycles, while the parser may
  deliver a message every four; `order_book.md:113` counts on the hold.
- **risk_pass while the OUCH engine is busy** is charged and not sent
  (`ouch_engine.sv` looks at it in S_IDLE only): reached with a transmitter
  that stalls; `ChargedIsSent` holds for one message at a time.
- `order_book.md:60` says that on a collision the new entry overwrites the slot;
  `order_book.sv` probes on, and drops the message if its window is full
  (`DropMeansFull`). Nor does `collision_count` saturate as that line says: it
  wraps (`CountMod`).
- Quote size: `bbo_bid_size_r` is the size of the order that set the price,
  `order_book.md:39` calls it aggregated.
- Risk: `risk_check.sv:23-24` allows orders two cycles apart, but orders three
  cycles apart use the same position. `kill_sw` is sampled at entry, so up to six
  cycles of orders still pass after it is set (`risk_check.md:29`). The band
  is a shift by 13 for a division by 10000, 22 % wide (`test_risk_fuzz.py:108`).
  Reason code of the kill switch: 00 for `risk_check.md:69`'s 01.
- OUCH: the clear count of `tx_overflow` runs also while no beat is refused
  because none is offered (`ouch_engine.sv:150` against :28).
- Core: a weight may be written in the middle of an inference
  (`weight_mem.md:70` says writes wait); the latency is 63 cycles, not "~41".
  With `VEC_LEN` mod 5 = 1 accumulator 0 is merged one cycle before its last
  element is in it (`PartialsAreWhole`); neither 4 nor 32 is such a length.
- Arbiter: its output is valid three edges after its inputs (`:14` says one);
  scores are floats compared as unsigned, so a negative score beats every
  positive one; `strategy_arbiter.md` says `>`, the code `>=`.
- `feature_extractor_v2.sv:4` says four cycles of latency; there are seven.

In the verification environment:

- **A module that crashes is not in the report.** `run_cocotb_regression.py:89`
  throws make's exit status away; without `results.xml` nothing is copied and
  the exit status stays 0 (`reports/phase1_regression.md:89` describes the
  symptom). A `results.xml` that an earlier module of the same toplevel left is
  copied under the new module's name. `FailureFailsTheRun` holds of cases that
  were written; `CleanRunCountsItself` needs `tidy` and `~kept`.
- `--no-run` of the UVM script reports logs of any age. The Makefile builds to
  `sim_build/verilator/<toplevel>/simv` (`tb/uvm/Makefile:188`), the script runs
  `sim_build/verilator/simv` (`run_uvm_regression.py:34`): it finds a binary of
  the old layout or none. `UvmPassMeansRan` speaks of what was run, not of
  which binary.
- `coverage_report.py` files `rtl/buggy/lliu_top_v2.sv` and
  `rtl/lliu_top_v2.sv` under one name; files with branches but no lines count
  as not compiled. `calc_rtl_cov.py:26` drops every line marked `%`, so it
  prints 100 % of any file with a hit on another line (`reports/v2_uvm/coverage.txt`,
  lines 1, 2 and 29); the last conjunct of `FullMeansFull` says that its misses
  are among the lines it drops. `phase3` counts `%000002` as hit, `phase1` as
  missed. What is printed with a decimal (`coverage_report.py:91`, the table of
  `phase3`, `phase4`, `calc_rtl_cov.py`) is 100.0 from 99.95 on.
- **`coverage.txt` of phase 2 says 100% from 99.5 on**
  (`gen_coverage_report.py:142` and 151 round to a whole per cent), and
  `run_experiment.sh:100` takes that for success; the same script's exit status
  cuts off (`:157`) and asks for 100 (`:163`, "target is 100%").
- `functional_coverage.py`: `cam_index` is sampled on a miss, too; `is_covered`
  leaves out three coverpoints.
- `order_book_model.py:3` tracks "the DUT's exact state-machine semantics", but
  a Cancel of all shares leaves an entry of 0 shares in the hardware and none
  in the model, and a Replace within one bucket loses the new order in the
  hardware only. `BookBench` leaves both out, as the tests' references do
  with high probability; `test_order_book.py:272` says "only non-colliding
  ops are sent", which does not hold for the new references of a Replace.
- The MoldUDP64 checker never checks rules 2 and 4 of its docstring; a heartbeat
  leaves `pending_accept` set. `test_eth_axis_rx_wrap.py` says `mac_rx_tready`
  follows the stack; it is tied to 1 (`eth_axis_rx_wrap.sv:72`).
- v1: with four elements the merge of `core_result` drops two of the four
  products, so the scoreboard flags every result
  (`reports/phase1_regression.md`, section 4: "Expected ~2250, actual=250").
  `ScoresJudged` is therefore about which result is judged, not its value.
  `result_ready` is never cleared, contrary to `test_backpressure.py:111`; only
  `PIPELINE_LATENCY` separates a result from the one before, with about ten
  edges to spare, and above a price of about 2000 the tolerance of 5 % cannot
  tell the two apart.
- The comment at `axi4_lite_driver.py:85-88` has a read take one edge too few.

## 7. Not modelled

Arithmetic of features and floats (covered by directed tests; no step
property depends on it), vendor and third-party IP, clocking, PCIe and the
measurement blocks, the copies under `rtl/buggy`, the SystemVerilog UVM classes
(`UvmRegression` takes a test's verdict as nondeterministic), generators of
random stimulus (the benches draw their inputs from sets), statistics and the
printing of reports. A short `Reset` of one of the two ingress clocks alone is
left out: both follow `cpu_reset` within two cycles. rst in the middle of a
MoldUDP64 bench is left out: its checker is not told of it. Of the v1 benches:
the ends of `wait_for_result` and `wait_for_new_result` after 200 and 500 polls
(a result takes 36 edges), and what `axi4_lite_slave` answers to a read of other
registers than `STATUS` and `RESULT`, 0xDEADBEEF for most addresses; the tests
read none. `V1Bench` puts the passive monitors and all checkers beside every
test, though `test_backpressure.py` starts only the checkers and
`test_replay.py` neither: they look on and drive nothing. `cov_summary.py:64`
falls back on annotated lines with a pattern that asks for a second number,
which Verilator does not write; it finds none, and the fall-back is left out.
Undefined contents
at power-up (`msg_buf`, memories) are never read before they are written and
start blank.
