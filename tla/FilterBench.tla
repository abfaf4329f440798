----------------------------- MODULE FilterBench ----------------------------
(***************************************************************************)
(* rtl/symbol_filter.sv, the watchlist, between tb/cocotb/tests/           *)
(* test_symbol_filter.py, which writes entries and presents stocks, and    *)
(* checkers/symbol_filter_checker.py, which runs beside it with a CAM of   *)
(* its own.  A step is one clock edge; test and checker wake at it, read   *)
(* what was there before it, and run in either order.                      *)
(***************************************************************************)
EXTENDS Integers, Sequences

CONSTANTS
  Entries,     \* 0 .. SYM_FILTER_ENTRIES - 1
  Stocks,      \* 64-bit keys
  NoStock,     \* stock_valid is low
  NoCamWrite   \* cam_wr_valid is low

VARIABLES
  cam,              \* cam_entry and cam_valid
  stock_q,          \* with stock_valid_q
  partial,          \* match_partial_r and stock_valid_qq
  lookup,           \* lookup_match_q and lookup_valid_q
  stock, cam_wr,    \* what the test drives
  waits,            \* edges until the test acts again
  chk_cam, pending, mismatch,      \* the checker: _cam, _pending, errors
  raced             \* a write met a lookup of the same entry's old key

filterVars == <<cam, stock_q, partial, lookup>>
driveVars == <<stock, cam_wr, waits>>
chkVars == <<chk_cam, pending, mismatch>>
filterBenchVars == <<filterVars, driveVars, chkVars, raced>>

Unmatched == [match |-> FALSE, valid |-> FALSE]

FilterReset ==
  /\ cam = [i \in Entries |-> [key |-> NoStock, en |-> FALSE]]
  /\ stock_q = NoStock /\ partial = Unmatched /\ lookup = Unmatched

watchlist_hit == lookup.match /\ lookup.valid

match_vec == {i \in Entries : cam[i].en /\ cam[i].key = stock_q}

\* One edge of the filter, a CAM compared in three pipeline stages.  The eight
\* partial ORs of stage 2 cover all entries, so one flag stands for them.  A
\* write whose index is no entry changes nothing.
FilterClock ==
  /\ cam' = IF cam_wr # NoCamWrite /\ cam_wr.index \in Entries
              THEN [cam EXCEPT ![cam_wr.index] = [key |-> cam_wr.key, en |-> cam_wr.en]]
              ELSE cam
  /\ stock_q' = stock
  /\ partial' = [match |-> match_vec # {}, valid |-> stock_q # NoStock]
  /\ lookup' = partial

-----------------------------------------------------------------------------
FilterInit ==
  /\ FilterReset
  /\ stock = NoStock /\ cam_wr = NoCamWrite /\ waits = 0
  /\ chk_cam = [i \in Entries |-> [key |-> NoStock, en |-> FALSE]]
  /\ pending = << >> /\ mismatch = FALSE
  /\ raced = FALSE

\* add_cam_entry, and invalidate_cam_entry when en is false: the key stays.
chk_write(w) == [chk_cam EXCEPT ![w.index] =
                   [key |-> IF w.en THEN w.key ELSE @.key, en |-> w.en]]
expected_hit(c, s) == \E i \in Entries : c[i].en /\ c[i].key = s

\* One turn of _monitor, with its own CAM as c.
\* Slip: an entry resolves once it has aged two cycles.
FilterMonitor_early(c) ==
  /\ LET old == Len(pending) >= 2
         hit == watchlist_hit
     IN  /\ mismatch' = (mismatch \/ (old /\ hit # (Head(pending) = "hit")))
         /\ pending' = Append(IF old THEN Tail(pending) ELSE pending,
                              IF stock = NoStock THEN "none"
                              ELSE IF expected_hit(c, stock) THEN "hit" ELSE "miss")
FilterMonitor(c) ==
  /\ LET old == Len(pending) >= 3
         hit == watchlist_hit
     IN  /\ mismatch' = (mismatch \/ (old /\ hit # (Head(pending) = "hit")))
         /\ pending' = Append(IF old THEN Tail(pending) ELSE pending,
                              IF stock = NoStock THEN "none"
                              ELSE IF expected_hit(c, stock) THEN "hit" ELSE "miss")

FilterEdge(c) == FilterClock /\ FilterMonitor(c)

CamWrites == [index : Entries, key : Stocks, en : BOOLEAN]
ASSUME CamWriteAssumption == NoCamWrite \notin CamWrites

\* Nothing to do for the test but wait.
FilterWait ==
  /\ waits > 0
  /\ FilterEdge(chk_cam)
  /\ stock' = NoStock /\ cam_wr' = NoCamWrite /\ waits' = waits - 1
  /\ UNCHANGED <<chk_cam, raced>>

\* add_cam_entry or invalidate_cam_entry, then _cam_write: strobe and settle.
\* The checker may see the new entry in this edge or from the next on.
CamWrite(w) ==
  /\ waits = 0
  /\ chk_cam' = chk_write(w)
  /\ \E c \in {chk_cam, chk_cam'} : FilterEdge(c)
  /\ stock' = NoStock /\ cam_wr' = w /\ waits' = 1
  /\ UNCHANGED raced

\* _present, and the three cycles every test lets pass after it.
Present(s) ==
  /\ waits = 0
  /\ FilterEdge(chk_cam)
  /\ stock' = s /\ cam_wr' = NoCamWrite /\ waits' = 3
  /\ UNCHANGED <<chk_cam, raced>>

\* test_write_during_lookup: both in one cycle, and the checker is told after.
PresentAndWrite(s, w) ==
  /\ waits = 0
  /\ FilterEdge(chk_cam)
  /\ stock' = s /\ cam_wr' = w /\ waits' = 4
  /\ raced' = (raced \/ expected_hit(chk_cam, s) # expected_hit(chk_write(w), s))
  /\ UNCHANGED chk_cam
TellChecker ==
  /\ waits = 4
  /\ chk_cam' = chk_write(cam_wr)
  /\ \E c \in {chk_cam, chk_cam'} : FilterEdge(c)
  /\ stock' = NoStock /\ cam_wr' = NoCamWrite /\ waits' = 2
  /\ UNCHANGED raced

FilterNext ==
  \/ waits # 4 /\ FilterWait
  \/ TellChecker
  \/ \E w \in CamWrites : CamWrite(w)
  \/ \E s \in Stocks : Present(s) \/ \E w \in CamWrites : w.en /\ PresentAndWrite(s, w)

-----------------------------------------------------------------------------
\* assert_no_errors passes: the checker, which looks its own CAM up three
\* cycles before the filter answers, differs from it only if a write came in
\* the very cycle of a lookup whose answer it changes (the test that does so
\* does not ask).
FilterChecked == mismatch => raced
=============================================================================
