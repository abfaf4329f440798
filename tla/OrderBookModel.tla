--------------------------- MODULE OrderBookModel ---------------------------
(***************************************************************************)
(* tb/cocotb/models/order_book_model.py: the reference model the order     *)
(* book's tests compare the hardware with.                                 *)
(*                                                                         *)
(* One action is one method call.  The Python dict has one entry per       *)
(* CRC-17 bucket and no probing: an Add into a bucket that holds another   *)
(* reference is dropped and counted.  bbo[<<y, s>>] stands for the four    *)
(* bbo_*_price and bbo_*_size lists.  A best price that goes away leaves   *)
(* 0: there is no rescan.  The mask of shares to 24 bits is left out, the  *)
(* share counts here are below it.                                         *)
(***************************************************************************)
EXTENDS Integers

CONSTANTS
  Refs,       \* order references
  crc17,      \* Refs -> Buckets
  Buckets,
  Symbols,
  NoEntry     \* the value of ref_table where the dict has no key

VARIABLES ref_table, bbo, collision_count

modelVars == <<ref_table, bbo, collision_count>>

None == [price |-> 0, shares |-> 0]

ModelInit ==
  /\ ref_table = [h \in Buckets |-> NoEntry]
  /\ bbo = [x \in Symbols \X {"bid", "ask"} |-> None]
  /\ collision_count = 0

Has(h) == ref_table[h] # NoEntry
Finds(r) == Has(crc17[r]) /\ ref_table[crc17[r]].order_ref = r
Collides(r) == Has(crc17[r]) /\ ref_table[crc17[r]].order_ref # r

RefEntries == [order_ref : Refs, price : Nat, shares : Nat, side : {"bid", "ask"}, sym_id : Symbols]
Entry(r, p, q, s, y) ==
  [order_ref |-> r, price |-> p, shares |-> q, side |-> s, sym_id |-> y]

\* The quotes b after an order joins; "better" is judged on the quotes as they
\* are before the call, also in replace, as the hardware's registers are.
Raised_afterClear(b, p, q, s, y) ==
  LET best == b[<<y, s>>].price
  IN  IF (s = "bid" /\ p > best) \/ (s = "ask" /\ (best = 0 \/ p < best))
        THEN [b EXCEPT ![<<y, s>>] = [price |-> p, shares |-> q]] ELSE b
Raised(b, p, q, s, y) ==
  LET best == bbo[<<y, s>>].price
  IN  IF (s = "bid" /\ p > best) \/ (s = "ask" /\ (best = 0 \/ p < best))
        THEN [b EXCEPT ![<<y, s>>] = [price |-> p, shares |-> q]] ELSE b

\* _bbo_clear_if_at_bbo, and the delete logic of replace.
Cleared(p, s, y) ==
  IF bbo[<<y, s>>].price = p THEN [bbo EXCEPT ![<<y, s>>] = None] ELSE bbo

add(r, p, q, s, y) ==
  \/ /\ Collides(r)
     /\ collision_count' = collision_count + 1
     /\ UNCHANGED <<ref_table, bbo>>
  \/ /\ ~Collides(r)
     /\ ref_table' = [ref_table EXCEPT ![crc17[r]] = Entry(r, p, q, s, y)]
     /\ bbo' = Raised(bbo, p, q, s, y)
     /\ UNCHANGED collision_count

\* Cancel; execute only forwards to it.  An order with no shares left is deleted.
cancel(r, q) ==
  \/ ~Finds(r) /\ UNCHANGED modelVars
  \/ /\ Finds(r)
     /\ LET e == ref_table[crc17[r]]
        IN  IF e.shares > q
              THEN /\ ref_table' = [ref_table EXCEPT ![crc17[r]].shares = e.shares - q]
                   /\ UNCHANGED bbo
              ELSE /\ ref_table' = [ref_table EXCEPT ![crc17[r]] = NoEntry]
                   /\ bbo' = Cleared(e.price, e.side, e.sym_id)
     /\ UNCHANGED collision_count
execute(r, q) == cancel(r, q)

delete(r) ==
  \/ ~Finds(r) /\ UNCHANGED modelVars
  \/ /\ Finds(r)
     /\ ref_table' = [ref_table EXCEPT ![crc17[r]] = NoEntry]
     /\ LET e == ref_table[crc17[r]] IN bbo' = Cleared(e.price, e.side, e.sym_id)
     /\ UNCHANGED collision_count

\* The new entry takes its bucket whatever the bucket holds.
\* Slip: the bucket of an order that is in the way keeps its entry.
replace_polite(r, n, p, q, s, y) ==
  \/ ~Finds(r) /\ UNCHANGED modelVars
  \/ /\ Finds(r)
     /\ ref_table' = [ref_table EXCEPT
                        ![crc17[r]] = NoEntry,
                        ![crc17[n]] = IF Collides(n) THEN @ ELSE Entry(n, p, q, s, y)]
     /\ LET e == ref_table[crc17[r]] IN bbo' = Raised(Cleared(e.price, e.side, y), p, q, s, y)
     /\ UNCHANGED collision_count
replace(r, n, p, q, s, y) ==
  \/ ~Finds(r) /\ UNCHANGED modelVars
  \/ /\ Finds(r)
     /\ ref_table' = [ref_table EXCEPT ![crc17[r]] = NoEntry,
                                       ![crc17[n]] = Entry(n, p, q, s, y)]
     /\ LET e == ref_table[crc17[r]] IN bbo' = Raised(Cleared(e.price, e.side, y), p, q, s, y)
     /\ UNCHANGED collision_count

get_bbo(y, s) == bbo[<<y, s>>]

\* find_collision_pair: the first reference, counting up, whose bucket an
\* earlier one has already taken (references are numbers here).
FirstAgain(rs) == CHOOSE b \in rs :
                    /\ \E a \in rs : a < b /\ crc17[a] = crc17[b]
                    /\ \A c \in rs : c < b =>
                         ~\E a \in rs : a < c /\ crc17[a] = crc17[c]
find_collision_pair(rs) ==
  LET b == FirstAgain(rs)
  IN  <<CHOOSE a \in rs : a < b /\ crc17[a] = crc17[b], b>>
=============================================================================
