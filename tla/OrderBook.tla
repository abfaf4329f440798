----------------------------- MODULE OrderBook -----------------------------
(***************************************************************************)
(* rtl/order_book.sv: the BRAM-backed L3 order book.                       *)
(*                                                                         *)
(* One action is one clock edge of the FSM in one of its states.  Inputs   *)
(* are looked at in IDLE only: a message that arrives in another state is  *)
(* not seen at all (book_ready is an output; nothing stalls on it here).   *)
(*                                                                         *)
(* The pipeline registers written in S_PROCESS, S_SCAN_BOOK, S_SCAN_BOOK2  *)
(* and S_SCAN_BOOK3 are functions of registers and memories that keep      *)
(* their value until S_UPDATE has read them, so they are operators here    *)
(* (RefMatch, NewShares, TargetLevel, Better, ...) and those four states   *)
(* only take their cycle.  op_resolved_addr is ref_rd_addr, which does not *)
(* move after the last probe.  l2_cache receives every write of book_mem   *)
(* (OB_LEVELS = 4) and collision_flag marks the cycles in which            *)
(* collision_count moves: neither has a variable of its own.               *)
(*                                                                         *)
(* A definition whose name has a suffix (Name_slip) is a plausible slip in *)
(* the definition Name that follows it; nothing uses it, and the README    *)
(* lists which property notices which slip.                                *)
(***************************************************************************)
EXTENDS Integers, FiniteSets

CONSTANTS
  Refs,         \* order reference numbers (64 bits in the code)
  Hash,         \* Refs -> base slot: crc17(order_ref), truncated to the table
  TableSize,    \* slots of ref_mem: 2^OB_REF_TABLE_BITS
  MaxProbe,     \* OB_MAX_PROBE: slots probed beyond the base slot
  Symbols,      \* sym_id values
  NumLevels,    \* OB_LEVELS
  Prices,       \* prices an order may carry; 0 is "no price"
  MaxShares,    \* largest share count an order may carry
  CountMod,     \* modulus of collision_count: 2^32
  Msgs,         \* the messages fields_valid can present
  Empty,        \* a ref_mem slot whose valid bit is clear
  NoMsg         \* the op registers when no operation is in flight

Slots == 0 .. TableSize - 1
Levels == 0 .. NumLevels - 1
Sides == {"bid", "ask"}
Shares == 0 .. MaxShares
Adds == {"A", "F"}
Executes == {"E", "C"}
MsgTypes == Adds \cup Executes \cup {"X", "D", "U", "P"}

Message == [type : MsgTypes, ref : Refs, new_ref : Refs, price : Prices,
            shares : Shares, side : Sides, sym : Symbols]
Order == [ref : Refs, price : Prices, shares : Shares, side : Sides]

ASSUME TableAssumption ==
  /\ TableSize \in Nat \ {0}
  /\ MaxProbe \in Nat
  /\ NumLevels \in Nat \ {0}
  /\ MaxShares \in Nat
  /\ CountMod \in Nat \ {0}
  /\ Hash \in [Refs -> Slots]
ASSUME PriceAssumption == Prices \subseteq Nat \ {0}
ASSUME MsgAssumption == Msgs \subseteq Message /\ NoMsg \notin Message
ASSUME EmptyAssumption == Empty \notin Order

VARIABLES
  state,            \* FSM state
  op,               \* op_* registers latched in S_IDLE
  probe_cnt,
  ref_rd_addr,
  ref_rd_data,
  ref_wr,           \* ref_wr_en/addr/data: the write ref_mem takes next edge
  ref_mem,
  book_mem,         \* levels of each symbol and side
  bbo,              \* bbo_*_price_r and bbo_*_size_r
  bbo_valid,        \* the bbo_valid pulse
  collision_count

vars == <<state, op, probe_cnt, ref_rd_addr, ref_rd_data, ref_wr, ref_mem,
          book_mem, bbo, bbo_valid, collision_count>>

States == {"IDLE", "READ_REF1", "READ_REF2", "PROCESS", "MATCH", "SCAN_BOOK",
           "SCAN_BOOK2", "SCAN_BOOK3", "UPDATE", "UPDATE2", "DONE"}
NoLevel == [price |-> 0, shares |-> 0]
NoWrite == [en |-> FALSE, addr |-> 0, data |-> Empty]

-----------------------------------------------------------------------------
\* Slot k of the probe sequence of order r.
ProbeSlot(r, k) == (Hash[r] + k) % TableSize

\* The ref_mem write port: what the memory holds after the coming edge.
Written(mem, w) == IF w.en THEN [mem EXCEPT ![w.addr] = w.data] ELSE mem
Write(a, d) == [en |-> TRUE, addr |-> a, data |-> d]

IsAdd == op.type \in Adds
RefEmpty == ref_rd_data = Empty
RefMatch == ~RefEmpty /\ ref_rd_data.ref = op.ref
NewShares == IF ref_rd_data.shares > op.shares
               THEN ref_rd_data.shares - op.shares ELSE 0

\* The book side s of the operation's symbol.
At(s) == <<op.sym, s>>

\* The scan: an Add takes the first level of size 0 on its own side, any other
\* message the first level with the price of the order it names.
ScanSide_ofMessage == op.side
ScanSide == IF IsAdd THEN op.side ELSE ref_rd_data.side
MatchVec == {k \in Levels :
               LET l == book_mem[At(ScanSide)][k]
               IN  IF IsAdd THEN l.shares = 0 ELSE l.price = ref_rd_data.price}
TargetLevel == CHOOSE k \in MatchVec : \A j \in MatchVec : k <= j

\* book_mem bk with the target level of side s replaced, if one was found.
SetLevel(bk, s, l) ==
  IF MatchVec = {} THEN bk ELSE [bk EXCEPT ![At(s)][TargetLevel] = l]

\* Both BBO comparisons read the quotes as they were before this message.
Better(s, p) == LET q == bbo[At(s)].price
                IN  IF s = "bid" THEN p > q ELSE q = 0 \/ p < q
DropQuote_byMessagePrice(b) ==
  LET s == ref_rd_data.side
  IN  IF bbo[At(s)].price = op.price THEN [b EXCEPT ![At(s)] = NoLevel] ELSE b
DropQuote(b) ==
  LET s == ref_rd_data.side
  IN  IF bbo[At(s)].price = ref_rd_data.price
        THEN [b EXCEPT ![At(s)] = NoLevel] ELSE b
RaiseQuote(b) ==
  IF Better(op.side, op.price)
    THEN [b EXCEPT ![At(op.side)] = [price |-> op.price, shares |-> op.shares]]
    ELSE b

-----------------------------------------------------------------------------
Init ==
  /\ state = "IDLE"
  /\ op = NoMsg
  /\ probe_cnt = 0
  /\ ref_rd_addr = 0
  /\ ref_rd_data = Empty
  /\ ref_wr = NoWrite
  /\ ref_mem = [s \in Slots |-> Empty]
  /\ book_mem = [x \in Symbols \X Sides |-> [k \in Levels |-> NoLevel]]
  /\ bbo = [x \in Symbols \X Sides |-> NoLevel]
  /\ bbo_valid = FALSE
  /\ collision_count = 0

\* What every clock edge does: the write port commits and the pulses fall
\* unless the state drives them.
Tick(w, pulse) ==
  /\ ref_mem' = Written(ref_mem, ref_wr)
  /\ ref_wr' = w
  /\ bbo_valid' = pulse

\* S_IDLE: latch a message.  Trades and unknown types leave the FSM in IDLE.
Accept(m) ==
  /\ state = "IDLE"
  /\ IF m.type = "P" THEN UNCHANGED <<state, op>>
                     ELSE state' = "READ_REF1" /\ op' = m
  /\ probe_cnt' = 0
  /\ Tick(NoWrite, FALSE)
  /\ UNCHANGED <<ref_rd_addr, ref_rd_data, book_mem, bbo, collision_count>>

\* S_IDLE without fields_valid.
Idle ==
  /\ state = "IDLE"
  /\ Tick(NoWrite, FALSE)
  /\ UNCHANGED <<state, op, probe_cnt, ref_rd_addr, ref_rd_data, book_mem, bbo,
                 collision_count>>

ReadRef1 ==
  /\ state = "READ_REF1"
  /\ ref_rd_addr' = ProbeSlot(op.ref, probe_cnt)
  /\ state' = "READ_REF2"
  /\ Tick(NoWrite, FALSE)
  /\ UNCHANGED <<op, probe_cnt, ref_rd_data, book_mem, bbo, collision_count>>

ReadRef2 ==
  /\ state = "READ_REF2"
  /\ ref_rd_data' = ref_mem[ref_rd_addr]
  /\ state' = "PROCESS"
  /\ Tick(NoWrite, FALSE)
  /\ UNCHANGED <<op, probe_cnt, ref_rd_addr, book_mem, bbo, collision_count>>

\* S_PROCESS and the three scan states fill the registers named above.
Pipeline(from, to) ==
  /\ state = from
  /\ state' = to
  /\ Tick(NoWrite, FALSE)
  /\ UNCHANGED <<op, probe_cnt, ref_rd_addr, ref_rd_data, book_mem, bbo,
                 collision_count>>
Process == Pipeline("PROCESS", "MATCH")
ScanBook == Pipeline("SCAN_BOOK", "SCAN_BOOK2")
ScanBook2 == Pipeline("SCAN_BOOK2", "SCAN_BOOK3")
ScanBook3 == Pipeline("SCAN_BOOK3", "UPDATE")

\* S_MATCH.  An Add takes an empty slot or one that holds its own reference;
\* any other message stops at an empty slot and counts every foreign entry.
MatchFound == IF IsAdd THEN RefEmpty \/ RefMatch ELSE RefMatch
MatchGivesUp_late == IF IsAdd THEN ~MatchFound /\ probe_cnt = MaxProbe + 1
                              ELSE ~MatchFound /\ (RefEmpty \/ probe_cnt = MaxProbe + 1)
MatchGivesUp_early == IF IsAdd THEN ~MatchFound /\ probe_cnt + 1 >= MaxProbe
                               ELSE ~MatchFound /\ (RefEmpty \/ probe_cnt + 1 >= MaxProbe)
MatchGivesUp == IF IsAdd THEN ~MatchFound /\ probe_cnt = MaxProbe
                         ELSE ~MatchFound /\ (RefEmpty \/ probe_cnt = MaxProbe)
MatchCollides == ~RefEmpty /\ ~RefMatch /\ (~IsAdd \/ probe_cnt = MaxProbe)
ProbeMore == ~MatchFound /\ ~MatchGivesUp
NextProbe_same == probe_cnt
NextProbe == probe_cnt + 1

Match ==
  /\ state = "MATCH"
  /\ \/ MatchFound /\ state' = "SCAN_BOOK" /\ UNCHANGED probe_cnt
     \/ MatchGivesUp /\ state' = "DONE" /\ UNCHANGED probe_cnt
     \/ ProbeMore /\ state' = "READ_REF1" /\ probe_cnt' = NextProbe
  /\ collision_count' = IF MatchCollides THEN (collision_count + 1) % CountMod
                                         ELSE collision_count
  /\ Tick(NoWrite, FALSE)
  /\ UNCHANGED <<op, ref_rd_addr, ref_rd_data, book_mem, bbo>>

-----------------------------------------------------------------------------
\* S_UPDATE, one action per message type.
OpOrder(r) == [ref |-> r, price |-> op.price, shares |-> op.shares, side |-> op.side]
Reduced_stale == ref_rd_data
Reduced == [ref_rd_data EXCEPT !.shares = NewShares]
OpLevel == [price |-> op.price, shares |-> op.shares]
ReducedLevel == [price |-> ref_rd_data.price, shares |-> NewShares]

Update(next) ==
  /\ state = "UPDATE"
  /\ state' = next
  /\ UNCHANGED <<op, probe_cnt, ref_rd_addr, ref_rd_data, collision_count>>

UpdateAdd ==
  /\ Update("DONE")
  /\ op.type \in Adds
  /\ Tick(Write(ref_rd_addr, OpOrder(op.ref)), TRUE)
  /\ book_mem' = SetLevel(book_mem, op.side, OpLevel)
  /\ bbo' = RaiseQuote(bbo)

\* 'X': an order cancelled down to 0 shares keeps its entry and its level.
UpdateCancel ==
  /\ Update("DONE")
  /\ op.type = "X"
  /\ Tick(Write(ref_rd_addr, Reduced), TRUE)
  /\ book_mem' = SetLevel(book_mem, ref_rd_data.side, ReducedLevel)
  /\ bbo' = IF NewShares = 0 THEN DropQuote(bbo) ELSE bbo

UpdateDelete ==
  /\ Update("DONE")
  /\ op.type = "D"
  /\ Tick(Write(ref_rd_addr, Empty), TRUE)
  /\ book_mem' = SetLevel(book_mem, ref_rd_data.side, NoLevel)
  /\ bbo' = DropQuote(bbo)

UpdateExecute ==
  /\ Update("DONE")
  /\ op.type \in Executes
  /\ IF NewShares = 0
       THEN /\ Tick(Write(ref_rd_addr, Empty), TRUE)
            /\ book_mem' = SetLevel(book_mem, ref_rd_data.side, NoLevel)
            /\ bbo' = DropQuote(bbo)
       ELSE /\ Tick(Write(ref_rd_addr, Reduced), TRUE)
            /\ book_mem' = SetLevel(book_mem, ref_rd_data.side, ReducedLevel)
            /\ UNCHANGED bbo

\* 'U': the new order goes to its base slot whatever that slot holds, and to
\* the level index the old order had, on the new order's side.
UpdateReplace ==
  /\ Update("UPDATE2")
  /\ op.type = "U"
  /\ Tick(Write(Hash[op.new_ref], OpOrder(op.new_ref)), TRUE)
  /\ book_mem' = SetLevel(SetLevel(book_mem, ref_rd_data.side, NoLevel),
                          op.side, OpLevel)
  /\ bbo' = RaiseQuote(DropQuote(bbo))

\* S_UPDATE2: the slot of the replaced order is cleared.
Update2_unwritten ==
  /\ state = "UPDATE2"
  /\ state' = "DONE"
  /\ Tick(NoWrite, FALSE)
  /\ UNCHANGED <<op, probe_cnt, ref_rd_addr, ref_rd_data, book_mem, bbo,
                 collision_count>>
Update2 ==
  /\ state = "UPDATE2"
  /\ state' = "DONE"
  /\ Tick(Write(ref_rd_addr, Empty), FALSE)
  /\ UNCHANGED <<op, probe_cnt, ref_rd_addr, ref_rd_data, book_mem, bbo,
                 collision_count>>

\* S_DONE.  The operation's registers are rewritten before they are read
\* again, so they return to their reset values.
Done ==
  /\ state = "DONE"
  /\ state' = "IDLE"
  /\ op' = NoMsg /\ probe_cnt' = 0 /\ ref_rd_addr' = 0 /\ ref_rd_data' = Empty
  /\ Tick(NoWrite, FALSE)
  /\ UNCHANGED <<book_mem, bbo, collision_count>>

\* rst: the FSM, the write port and the BBO registers are reset; ref_mem and
\* book_mem are not, and a write already registered still reaches ref_mem.
Reset ==
  /\ state' = "IDLE"
  /\ op' = NoMsg /\ probe_cnt' = 0 /\ ref_rd_addr' = 0 /\ ref_rd_data' = Empty
  /\ Tick(NoWrite, FALSE)
  /\ bbo' = [x \in Symbols \X Sides |-> NoLevel]
  /\ collision_count' = 0
  /\ UNCHANGED book_mem

Busy ==
  \/ ReadRef1 \/ ReadRef2 \/ Process \/ Match
  \/ ScanBook \/ ScanBook2 \/ ScanBook3
  \/ UpdateAdd \/ UpdateCancel \/ UpdateDelete \/ UpdateExecute \/ UpdateReplace
  \/ Update2 \/ Done

Next == (\E m \in Msgs : Accept(m)) \/ Idle \/ Busy \/ Reset

Spec == Init /\ [][Next]_vars

-----------------------------------------------------------------------------
TypeOK ==
  /\ state \in States
  /\ op \in Message \cup {NoMsg}
  /\ probe_cnt \in 0 .. MaxProbe
  /\ ref_rd_addr \in Slots
  /\ ref_rd_data \in Order \cup {Empty}
  /\ ref_wr \in [en : BOOLEAN, addr : Slots, data : Order \cup {Empty}]
  /\ ref_mem \in [Slots -> Order \cup {Empty}]
  /\ book_mem \in [Symbols \X Sides ->
                     [Levels -> [price : Prices \cup {0}, shares : Shares]]]
  /\ bbo \in [Symbols \X Sides -> [price : Prices \cup {0}, shares : Shares]]
  /\ bbo_valid \in BOOLEAN
  /\ collision_count \in 0 .. CountMod - 1

\* The slots a lookup of order r can reach.
Window(r) == {ProbeSlot(r, k) : k \in 0 .. MaxProbe}

\* Every entry of ref_mem, and the one about to be written, lies in the probe
\* window of its own reference: an insert never puts an order where no lookup
\* of that order could go.
InWindow ==
  /\ \A s \in Slots : ref_mem[s] # Empty => s \in Window(ref_mem[s].ref)
  /\ ref_wr.en /\ ref_wr.data # Empty => ref_wr.addr \in Window(ref_wr.data.ref)

\* An Add is dropped only if every slot of its window holds another order: the
\* probe reads them one at a time and must not give up on the strength of a
\* stale read or a short walk.
DropMeansFull ==
  [][(state = "MATCH" /\ state' = "DONE" /\ IsAdd) =>
       \A s \in Window(op.ref) : ref_mem[s] # Empty /\ ref_mem[s].ref # op.ref]_vars

\* Whatever it is given, the book comes back to IDLE.
AlwaysReady == []<>(state = "IDLE")
=============================================================================
