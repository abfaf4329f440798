------------------------------ MODULE BookBench -----------------------------
(***************************************************************************)
(* tb/cocotb/tests/test_order_book.py: the order book beside the Python    *)
(* reference model.  drive_op waits for book_ready, presents one message   *)
(* and waits for the book to be ready again, so the model's method and the *)
(* book's Accept are one step; the comparison is made when the book is     *)
(* back in IDLE.                                                           *)
(*                                                                         *)
(* The stress test adds, then deletes, then replaces; here the calls come  *)
(* in any order, the cancels and executions of the short tests among them. *)
(* A reference may be used again, and a replace may take the bucket of     *)
(* another order, as random references do.                                 *)
(***************************************************************************)
EXTENDS OrderBook

CONSTANT MaxDrops   \* bound on collision_count of the model

VARIABLES ref_table, model_bbo, drops

Model == INSTANCE OrderBookModel WITH
           crc17 <- Hash, Buckets <- Slots, NoEntry <- Empty,
           bbo <- model_bbo, collision_count <- drops

BenchInit == Init /\ Model!ModelInit

\* "Only non-colliding ops are sent to the DUT": a dropped add is not driven.
StressAdd(m) ==
  /\ m.type = "A"
  /\ state = "IDLE"
  /\ Model!add(m.ref, m.price, m.shares, m.side, m.sym)
  /\ IF Model!Collides(m.ref) THEN drops < MaxDrops /\ UNCHANGED vars ELSE Accept(m)

\* The lists live and remaining hold orders the model has accepted, each with
\* the symbol it is driven with.
Listed(m) == Model!Finds(m.ref) /\ m.sym = ref_table[Hash[m.ref]].sym_id

StressDelete(m) ==
  /\ m.type = "D" /\ Listed(m)
  /\ Model!delete(m.ref) /\ Accept(m)

\* A cancel takes less than all (the hardware keeps a cancelled order's entry,
\* empty, and a later add meets it in its window; the model has deleted it).
StressReduce(m) ==
  /\ m.type \in {"X", "E"} /\ Listed(m)
  /\ m.type = "X" => m.shares < ref_table[Hash[m.ref]].shares
  /\ IF m.type = "X" THEN Model!cancel(m.ref, m.shares) ELSE Model!execute(m.ref, m.shares)
  /\ Accept(m)

\* old_side goes to both.  A new reference in the old one's own bucket is left
\* out: the hardware clears the old slot last and loses the new order.
StressReplace(m) ==
  /\ m.type = "U" /\ Listed(m)
  /\ Hash[m.new_ref] # Hash[m.ref]
  /\ m.side = ref_table[Hash[m.ref]].side
  /\ Model!replace(m.ref, m.new_ref, m.price, m.shares, m.side, m.sym)
  /\ Accept(m)

BenchNext ==
  \/ \E m \in Msgs : StressAdd(m) \/ StressDelete(m) \/ StressReduce(m) \/ StressReplace(m)
  \/ (Idle \/ Busy) /\ UNCHANGED <<ref_table, model_bbo, drops>>

-----------------------------------------------------------------------------
\* "BBO bid mismatch", "BBO ask mismatch": whenever the book is ready, get_bbo
\* returns what the hardware's quote registers hold, prices and sizes.
BookMatchesModel ==
  state = "IDLE" =>
    \A y \in Symbols, s \in Sides : Model!get_bbo(y, s) = bbo[<<y, s>>]

\* "so the ref_mem stays consistent between model and hardware": an order the
\* model knows is in a slot that a lookup of it reaches before an empty one,
\* with the model's price, side and shares.
BookFinds(r) ==
  \E k \in 0 .. MaxProbe :
    LET mem == Written(ref_mem, ref_wr)
        e == ref_table[Hash[r]]
    IN  /\ mem[ProbeSlot(r, k)] = [ref |-> r, price |-> e.price,
                                   shares |-> e.shares, side |-> e.side]
        /\ \A j \in 0 .. k - 1 : mem[ProbeSlot(r, j)] # Empty
                                 /\ mem[ProbeSlot(r, j)].ref # r
TableMatchesModel == state = "IDLE" => \A r \in Refs : Model!Finds(r) => BookFinds(r)
=============================================================================
