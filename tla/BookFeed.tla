------------------------------ MODULE BookFeed ------------------------------
(***************************************************************************)
(* The order book fed as the exchange feeds it: a message names an order   *)
(* that is live at the exchange, a new order has a reference never used    *)
(* before, and a message is presented only when the book is ready for it   *)
(* (book_ready; ParserBook drops this assumption).                         *)
(*                                                                         *)
(* live is the exchange's own view of its orders, the reference the cocotb *)
(* OrderBookModel keeps: it changes at the moment the book accepts a       *)
(* message, and says nothing of hash slots.                                *)
(***************************************************************************)
EXTENDS OrderBook

CONSTANTS
  Gone,       \* live[r] when r is not a live order
  MayReset,   \* whether rst may be asserted while the feed runs
  KeepSide    \* whether a Replace message carries the side of the order it
              \* replaces, as the book's own tests drive it; itch_parser_v2
              \* reports side 0 (ask) for every 'U'

VARIABLES
  live,       \* Refs -> the exchange's order, or Gone
  used,       \* references the exchange has handed out
  had_reset   \* rst has been asserted since the start

feedVars == <<live, used, had_reset, vars>>

Quote == [price : Prices, shares : Shares, side : Sides, sym : Symbols]
ASSUME GoneAssumption ==
  Gone \notin Quote \cup [price : Prices, shares : Shares, side : Sides]

\* The exchange's rules: references are fresh, an order keeps its symbol, and
\* no more shares are taken from an order than it has.
Legal(m) ==
  CASE m.type \in Adds -> m.ref \notin used /\ m.shares > 0
    [] m.type \in Executes \cup {"X"} ->
         /\ live[m.ref] # Gone
         /\ m.sym = live[m.ref].sym
         /\ m.shares \in 1 .. live[m.ref].shares
    [] m.type = "D" -> live[m.ref] # Gone /\ m.sym = live[m.ref].sym
    [] m.type = "U" -> /\ live[m.ref] # Gone
                       /\ m.sym = live[m.ref].sym
                       /\ m.new_ref \notin used
                       /\ m.side = IF KeepSide THEN live[m.ref].side ELSE "ask"
                       /\ m.shares > 0
    [] OTHER -> TRUE

QuoteOf(m) == [price |-> m.price, shares |-> m.shares, side |-> m.side, sym |-> m.sym]
Rest(m) == live[m.ref].shares - m.shares

\* The exchange's orders after message m.  A replaced order keeps its side.
Effect(m) ==
  CASE m.type \in Adds -> [live EXCEPT ![m.ref] = QuoteOf(m)]
    [] m.type = "X" -> [live EXCEPT ![m.ref].shares = Rest(m)]
    [] m.type \in Executes ->
         IF Rest(m) = 0 THEN [live EXCEPT ![m.ref] = Gone]
                        ELSE [live EXCEPT ![m.ref].shares = Rest(m)]
    [] m.type = "D" -> [live EXCEPT ![m.ref] = Gone]
    [] m.type = "U" ->
         [live EXCEPT ![m.ref] = Gone,
                      ![m.new_ref] = [QuoteOf(m) EXCEPT !.side = live[m.ref].side]]
    [] OTHER -> live

FeedInit ==
  /\ Init
  /\ live = [r \in Refs |-> Gone]
  /\ used = {}
  /\ had_reset = FALSE

Feed(m) ==
  /\ Legal(m)
  /\ Accept(m)
  /\ live' = Effect(m)
  /\ used' = used \cup (IF m.type \in Adds THEN {m.ref}
                        ELSE IF m.type = "U" THEN {m.new_ref} ELSE {})
  /\ UNCHANGED had_reset

FeedReset ==
  /\ MayReset
  /\ Reset
  /\ had_reset' = TRUE
  /\ UNCHANGED <<live, used>>

FeedNext ==
  \/ \E m \in Msgs : Feed(m)
  \/ (Idle \/ Busy) /\ UNCHANGED <<live, used, had_reset>>
  \/ FeedReset

FeedSpec == FeedInit /\ [][FeedNext]_feedVars /\ WF_feedVars(Busy /\ UNCHANGED <<live, used, had_reset>>)

-----------------------------------------------------------------------------
\* ref_mem once the pending write has landed.
TableNow == Written(ref_mem, ref_wr)
Holds(r) == {s \in Slots : TableNow[s] # Empty /\ TableNow[s].ref = r}

\* Once the book is ready again, ref_mem holds exactly the exchange's live
\* orders, with their remaining shares (no two references hash alike).
Entry(r) == [ref |-> r, price |-> live[r].price, shares |-> live[r].shares,
             side |-> live[r].side]
TableIsLive ==
  state = "IDLE" /\ ~had_reset =>
    \A r \in Refs : {TableNow[s] : s \in Holds(r)} =
                    IF live[r] = Gone THEN {} ELSE {Entry(r)}

\* A quoted best price is the price of some order that is live at the
\* exchange: the stress test's "BBO mismatch" never happens.
NoGhostQuote ==
  state = "IDLE" =>
    \A y \in Symbols, s \in Sides :
      bbo[<<y, s>>].price # 0 =>
        \E r \in Refs : live[r] # Gone /\ live[r].sym = y /\ live[r].side = s
                        /\ live[r].price = bbo[<<y, s>>].price /\ live[r].shares > 0

\* A price occupies no more levels of a side than there are live orders at it,
\* so no level outlives the orders that put it there.
LevelsBacked ==
  state = "IDLE" /\ ~had_reset =>
    \A y \in Symbols, s \in Sides, p \in Prices :
      Cardinality({k \in Levels : book_mem[<<y, s>>][k].price = p})
        <= Cardinality({r \in Refs : live[r] # Gone /\ live[r].sym = y
                                     /\ live[r].side = s /\ live[r].price = p})

\* A message about a live order is never dropped: the lookup stops empty-handed
\* only if no slot of the window holds the order it was asked for.
MissMeansAbsent ==
  [][(state = "MATCH" /\ state' = "DONE" /\ ~IsAdd) =>
       \A s \in Window(op.ref) : ref_mem[s] = Empty \/ ref_mem[s].ref # op.ref]_feedVars

-----------------------------------------------------------------------------
\* The reference table seen as a map: ref_mem with the pending write landed,
\* and without the replaced order that S_UPDATE2 is about to clear.
Visible(r) == Holds(r) \ (IF state = "UPDATE2" THEN {ref_rd_addr} ELSE {})
MapEntry(q) == [price |-> q.price, shares |-> q.shares, side |-> q.side]
TableOrders == [r \in Refs |-> IF Visible(r) = {} THEN Gone
                               ELSE MapEntry(TableNow[CHOOSE s \in Visible(r) : TRUE])]
LiveOrders == [r \in Refs |-> IF live[r] = Gone THEN Gone ELSE MapEntry(live[r])]

Map == INSTANCE OrderMap WITH
         Orders <- [price : Prices, shares : 1 .. MaxShares, side : Sides],
         live <- LiveOrders, orders <- TableOrders

\* The table implements OrderMap: each message takes effect exactly once, in
\* one step, before the next is accepted, and eventually (no two references
\* hash alike, no reset).
ImplementsMap == Map!MapSpec
=============================================================================
