---------------------------- MODULE CocotbBench ----------------------------
(***************************************************************************)
(* The test benches of tb/cocotb.  Each is a toplevel of its own that      *)
(* never meets the others, so a behaviour follows one `bench`.             *)
(***************************************************************************)
EXTENDS MoldBench, FilterBench, EthBench, V1Bench

CONSTANTS
  Benches,   \* those followed: a subset of {"mold", "filter", "eth", "v1", "book"}
  Refs, Hash, TableSize, MaxProbe, Symbols, NumLevels, BookPrices, MaxShares,
  CountMod, Msgs, Empty, NoOp, MaxDrops                        \* BookBench

VARIABLES
  bench,
  book_state, op, probe_cnt, ref_rd_addr, ref_rd_data, ref_wr, ref_mem, book_mem,
  bbo, bbo_valid, collision_count,                              \* OrderBook
  ref_table, model_bbo, drops                                   \* OrderBookModel

Book == INSTANCE BookBench WITH state <- book_state, Prices <- BookPrices, NoMsg <- NoOp

ASSUME BookAssumption ==
  /\ TableSize \in Nat \ {0} /\ Hash \in [Refs -> Book!Slots]
  /\ MaxProbe \in Nat /\ MaxShares \in Nat /\ BookPrices \subseteq Nat
  /\ Msgs \subseteq Book!Message
  /\ Empty \notin Book!Order \cup Book!Model!RefEntries

bookVars == <<book_state, op, probe_cnt, ref_rd_addr, ref_rd_data, ref_wr, ref_mem,
              book_mem, bbo, bbo_valid, collision_count, ref_table, model_bbo, drops>>
benchVars == <<bench, moldVars, filterBenchVars, ethVars, v1BenchVars, bookVars>>

CocotbBenchInit ==
  /\ bench \in Benches
  /\ MoldInit /\ FilterInit /\ EthInit /\ V1Init /\ Book!BenchInit
  /\ bench # "v1" => test = StressTest(Len(Prices))   \* whichever: it is not run

CocotbBenchNext ==
  /\ UNCHANGED bench
  /\ \/ bench = "mold" /\ MoldNext /\ UNCHANGED <<filterBenchVars, ethVars, v1BenchVars, bookVars>>
     \/ bench = "filter" /\ FilterNext /\ UNCHANGED <<moldVars, ethVars, v1BenchVars, bookVars>>
     \/ bench = "eth" /\ EthNext /\ UNCHANGED <<moldVars, filterBenchVars, v1BenchVars, bookVars>>
     \/ bench = "v1" /\ V1Next /\ UNCHANGED <<moldVars, filterBenchVars, ethVars, bookVars>>
     \/ bench = "book" /\ Book!BenchNext
        /\ UNCHANGED <<moldVars, filterBenchVars, ethVars, v1BenchVars>>

CocotbBenchSpec == CocotbBenchInit /\ [][CocotbBenchNext]_benchVars

-----------------------------------------------------------------------------
\* "BBO bid mismatch", "BBO ask mismatch": whenever the book is ready, get_bbo
\* returns what the hardware's quote registers hold, prices and sizes.
BookMatchesModel == Book!BookMatchesModel

\* "so the ref_mem stays consistent between model and hardware": an order the
\* model knows is in a slot that a lookup of it reaches before an empty one,
\* with the model's price, side and shares.
TableMatchesModel == Book!TableMatchesModel
=============================================================================
