--------------------------- MODULE BookFeedProofs ---------------------------
(***************************************************************************)
(* First OrderBook alone, for every table size, probe depth, hash function *)
(* and message set: its types, and that no order is stored where a lookup  *)
(* does not probe.  Then the book against the exchange's view of its       *)
(* orders: for every hash and every message, that a dropped Add had no     *)
(* room; and, when no two references share a base slot, that table, quotes *)
(* and levels follow the exchange's orders message by message, and that    *)
(* the table implements OrderMap.                                          *)
(***************************************************************************)
EXTENDS BookFeed, FiniteSetTheorems, WellFoundedInduction, TLAPS

USE DEF Slots, Levels, Sides, Shares, Adds, Executes, MsgTypes, States

-----------------------------------------------------------------------------
(* The book alone.                                                         *)

\* The probe sequence stays in the table, whatever the hash.
LEMMA ProbeInTable ==
  ASSUME NEW r \in Refs, NEW k \in 0 .. MaxProbe
  PROVE  ProbeSlot(r, k) \in Slots
BY TableAssumption DEF ProbeSlot

\* The base slot of a reference is its first probe.
LEMMA BaseInWindow ==
  ASSUME NEW r \in Refs
  PROVE  Hash[r] \in Window(r)
<1>1. 0 \in 0 .. MaxProbe
  BY TableAssumption
<1>2. Hash[r] \in Nat /\ Hash[r] < TableSize /\ TableSize \in Nat
  BY TableAssumption
<1>3. ProbeSlot(r, 0) = Hash[r]
  BY <1>2 DEF ProbeSlot
<1> QED
  BY <1>1, <1>3 DEF Window

\* The write port keeps the table a table.
LEMMA WrittenType ==
  ASSUME NEW mem \in [Slots -> Order \cup {Empty}],
         NEW w \in [en : BOOLEAN, addr : Slots, data : Order \cup {Empty}]
  PROVE  Written(mem, w) \in [Slots -> Order \cup {Empty}]
BY DEF Written

\* A slot of the table after the edge holds what the write port carried, or
\* what it held before.
LEMMA WrittenSlot ==
  ASSUME NEW mem \in [Slots -> Order \cup {Empty}],
         NEW w \in [en : BOOLEAN, addr : Slots, data : Order \cup {Empty}],
         NEW s \in Slots
  PROVE  \/ w.en /\ s = w.addr /\ Written(mem, w)[s] = w.data
         \/ Written(mem, w)[s] = mem[s]
BY DEF Written

LEMMA IdleWrite ==
  NoWrite \in [en : BOOLEAN, addr : Slots, data : Order \cup {Empty}] /\ ~NoWrite.en
BY TableAssumption DEF NoWrite

LEMMA WriteType ==
  ASSUME NEW a \in Slots, NEW d \in Order \cup {Empty}
  PROVE  /\ Write(a, d) \in [en : BOOLEAN, addr : Slots, data : Order \cup {Empty}]
         /\ Write(a, d).en /\ Write(a, d).addr = a /\ Write(a, d).data = d
BY DEF Write

Level == [price : Prices \cup {0}, shares : Shares]
BookType == [Symbols \X Sides -> [Levels -> Level]]
QuotesType == [Symbols \X Sides -> Level]

LEMMA NoLevelType == NoLevel \in Level
BY TableAssumption DEF NoLevel, Level

\* Replacing the target level leaves a book.
LEMMA SetLevelType ==
  ASSUME NEW bk \in BookType, NEW s \in Sides, NEW l \in Level,
         op \in Message
  PROVE  SetLevel(bk, s, l) \in BookType
<1>1. CASE MatchVec = {}
  BY <1>1 DEF SetLevel
<1>2. CASE MatchVec # {}
  <2>1. At(s) \in Symbols \X Sides
    BY DEF Message, At
  <2>2. bk[At(s)] \in [Levels -> Level]
    BY <2>1 DEF BookType
  <2> DEFINE row == [bk[At(s)] EXCEPT ![TargetLevel] = l]
  <2>3. row \in [Levels -> Level]
    BY <2>2
  <2>4. SetLevel(bk, s, l) = [bk EXCEPT ![At(s)] = row]
    BY <1>2 DEF SetLevel
  <2> QED
    BY <2>1, <2>3, <2>4 DEF BookType
<1> QED
  BY <1>1, <1>2

LEMMA DropQuoteType ==
  ASSUME NEW b \in QuotesType
  PROVE  DropQuote(b) \in QuotesType
BY NoLevelType DEF DropQuote, QuotesType

LEMMA RaiseQuoteType ==
  ASSUME NEW b \in QuotesType, op \in Message
  PROVE  RaiseQuote(b) \in QuotesType
<1>1. [price |-> op.price, shares |-> op.shares] \in Level
  BY DEF Message, Level
<1> QED
  BY <1>1 DEF RaiseQuote, QuotesType

-----------------------------------------------------------------------------
\* The part of the state the reference table is about: a valid slot carries an
\* order, and the address under test belongs to the order looked up.
FsmOK ==
  /\ state \in States
  /\ op \in Message \cup {NoMsg}
  /\ state # "IDLE" => op \in Message
  /\ probe_cnt \in 0 .. MaxProbe
  /\ ref_rd_addr \in Slots
  /\ ref_rd_data \in Order \cup {Empty}
TableOK ==
  /\ ref_wr \in [en : BOOLEAN, addr : Slots, data : Order \cup {Empty}]
  /\ ref_mem \in [Slots -> Order \cup {Empty}]
BookOK ==
  /\ book_mem \in BookType
  /\ bbo \in QuotesType
  /\ bbo_valid \in BOOLEAN
  /\ collision_count \in 0 .. CountMod - 1

\* Past S_MATCH a message that is not an Add has found an order in its slot.
LookedUp ==
  /\ state \in {"SCAN_BOOK", "SCAN_BOOK2", "SCAN_BOOK3", "UPDATE"} =>
       MatchFound
  /\ state = "UPDATE2" => RefMatch

\* From S_READ_REF2 on, the slot under test is in the window of the order the
\* message names.
OnProbe ==
  state \notin {"IDLE", "READ_REF1"} => ref_rd_addr \in Window(op.ref)

IInv == FsmOK /\ TableOK /\ BookOK /\ LookedUp /\ OnProbe /\ InWindow

\* The reset values satisfy the invariant.
LEMMA InitIInv == Init => IInv
<1> SUFFICES ASSUME Init PROVE IInv
  OBVIOUS
<1> USE DEF Init
<1>1. FsmOK
  BY TableAssumption DEF FsmOK
<1>2. TableOK
  BY IdleWrite DEF TableOK
<1>3. BookOK
  <2>1. book_mem \in BookType
    BY NoLevelType DEF BookType
  <2>2. bbo \in QuotesType
    BY NoLevelType DEF QuotesType
  <2>3. collision_count \in 0 .. CountMod - 1
    BY TableAssumption
  <2> QED
    BY <2>1, <2>2, <2>3 DEF BookOK
<1>4. LookedUp /\ OnProbe
  BY DEF LookedUp, OnProbe
<1>5. InWindow
  BY IdleWrite DEF InWindow
<1> QED
  BY <1>1, <1>2, <1>3, <1>4, <1>5 DEF IInv

\* A clock edge that registers write w keeps the table well typed and in its
\* windows, if w is.
LEMMA TickTable ==
  ASSUME TableOK, InWindow, NEW pulse \in BOOLEAN,
         NEW w \in [en : BOOLEAN, addr : Slots, data : Order \cup {Empty}],
         w.en /\ w.data # Empty => w.addr \in Window(w.data.ref),
         Tick(w, pulse)
  PROVE  TableOK' /\ InWindow' /\ bbo_valid' \in BOOLEAN
<1>1. ref_mem' \in [Slots -> Order \cup {Empty}]
  BY WrittenType DEF Tick, TableOK
<1>2. ASSUME NEW s \in Slots, ref_mem'[s] # Empty
      PROVE  s \in Window(ref_mem'[s].ref)
  <2>1. ref_mem' = Written(ref_mem, ref_wr)
    BY DEF Tick
  <2>2. CASE ref_wr.en /\ s = ref_wr.addr /\ ref_mem'[s] = ref_wr.data
    BY <1>2, <2>2 DEF InWindow
  <2>3. CASE ref_mem'[s] = ref_mem[s]
    BY <1>2, <2>3 DEF InWindow
  <2> QED
    <3>1. \/ ref_wr.en /\ s = ref_wr.addr /\ ref_mem'[s] = ref_wr.data
          \/ ref_mem'[s] = ref_mem[s]
      BY <2>1, WrittenSlot, Zenon DEF TableOK
    <3> QED
      BY <2>2, <2>3, <3>1, Zenon
<1>3. ref_wr' = w /\ bbo_valid' = pulse
  BY DEF Tick
<1>4. TableOK'
  BY <1>1, <1>3 DEF TableOK
<1>5. (ref_wr.en /\ ref_wr.data # Empty => ref_wr.addr \in Window(ref_wr.data.ref))'
  BY <1>3 DEF Window, ProbeSlot
<1>6. InWindow'
  BY <1>2, <1>5 DEF InWindow, Window, ProbeSlot
<1> QED
  BY <1>3, <1>4, <1>6

\* An edge that registers no write.
LEMMA QuietTable ==
  ASSUME TableOK, InWindow, Tick(NoWrite, FALSE)
  PROVE  TableOK' /\ InWindow' /\ bbo_valid' \in BOOLEAN
BY IdleWrite, TickTable
-----------------------------------------------------------------------------
\* The states in which the operation waits for its turn at the memories.
LEMMA IdleStep ==
  ASSUME IInv, Idle \/ \E m \in Msgs : Accept(m)
  PROVE  IInv'
<1> USE DEF IInv
<1>1. Tick(NoWrite, FALSE)
  BY DEF Idle, Accept
<1>2. TableOK' /\ InWindow' /\ bbo_valid' \in BOOLEAN
  BY <1>1, QuietTable
<1>3. /\ UNCHANGED <<ref_rd_addr, ref_rd_data, book_mem, bbo, collision_count>>
      /\ state = "IDLE" /\ state' \in {"IDLE", "READ_REF1"}
  BY DEF Idle, Accept
<1>4. op' \in Message \cup {NoMsg} /\ (state' # "IDLE" => op' \in Message)
  BY MsgAssumption DEF Idle, Accept, FsmOK
<1>5. probe_cnt' \in 0 .. MaxProbe
  <2>1. probe_cnt' = 0 \/ probe_cnt' = probe_cnt
    BY DEF Idle, Accept
  <2> QED
    BY <2>1, TableAssumption DEF FsmOK
<1>6. FsmOK'
  BY <1>3, <1>4, <1>5 DEF FsmOK
<1>7. BookOK'
  BY <1>2, <1>3 DEF BookOK
<1>8. LookedUp' /\ OnProbe'
  BY <1>3 DEF LookedUp, OnProbe
<1> QED
  BY <1>2, <1>6, <1>7, <1>8

LEMMA ReadRef1Step == IInv /\ ReadRef1 => IInv'
<1> SUFFICES ASSUME IInv, ReadRef1 PROVE IInv'
  OBVIOUS
<1> USE DEF IInv, ReadRef1
<1>1. TableOK' /\ InWindow' /\ bbo_valid' \in BOOLEAN
  BY QuietTable
<1>2. op \in Message /\ op.ref \in Refs
  BY DEF FsmOK, Message
<1>3. ref_rd_addr' \in Slots
  BY <1>2, ProbeInTable DEF FsmOK
<1>4. FsmOK'
  BY <1>2, <1>3 DEF FsmOK
<1>5. ref_rd_addr' \in Window(op'.ref)
  BY DEF FsmOK, Window, ProbeSlot
<1>6. OnProbe'
  BY <1>5 DEF OnProbe
<1>7. BookOK' /\ LookedUp'
  BY <1>1 DEF BookOK, LookedUp
<1> QED
  BY <1>1, <1>4, <1>6, <1>7

LEMMA ReadRef2Step == IInv /\ ReadRef2 => IInv'
<1> SUFFICES ASSUME IInv, ReadRef2 PROVE IInv'
  OBVIOUS
<1> USE DEF IInv, ReadRef2
<1>1. TableOK' /\ InWindow' /\ bbo_valid' \in BOOLEAN
  BY QuietTable
<1>2. ref_rd_data' \in Order \cup {Empty}
  BY DEF FsmOK, TableOK
<1>3. FsmOK'
  BY <1>2 DEF FsmOK
<1>4. BookOK' /\ LookedUp'
  BY <1>1 DEF BookOK, LookedUp
<1>5. OnProbe'
  BY DEF OnProbe, Window, ProbeSlot
<1> QED
  BY <1>1, <1>3, <1>4, <1>5

LEMMA PipelineStep ==
  ASSUME IInv, Process \/ ScanBook \/ ScanBook2 \/ ScanBook3
  PROVE  IInv'
<1> USE DEF IInv, Process, ScanBook, ScanBook2, ScanBook3, Pipeline
<1>1. TableOK' /\ InWindow' /\ bbo_valid' \in BOOLEAN
  BY QuietTable
<1>2. UNCHANGED <<op, probe_cnt, ref_rd_addr, ref_rd_data, book_mem, bbo, collision_count>>
  OBVIOUS
<1>3. FsmOK'
  BY <1>2 DEF FsmOK
<1>4. BookOK'
  BY <1>1, <1>2 DEF BookOK
<1>5. LookedUp'
  BY <1>2 DEF LookedUp, MatchFound, IsAdd, RefEmpty, RefMatch
<1>6. OnProbe'
  BY <1>2 DEF OnProbe, Window, ProbeSlot
<1> QED
  BY <1>1, <1>3, <1>4, <1>5, <1>6

\* The probe counter stops at MaxProbe, found or not.
LEMMA MatchStep == IInv /\ Match => IInv'
<1> SUFFICES ASSUME IInv, Match PROVE IInv'
  OBVIOUS
<1> USE DEF IInv
<1>1. TableOK' /\ InWindow' /\ bbo_valid' \in BOOLEAN
  BY QuietTable DEF Match
<1>2. UNCHANGED <<op, ref_rd_addr, ref_rd_data, book_mem, bbo>> /\ op \in Message
  BY DEF Match, FsmOK, NextProbe
<1>3. /\ state' \in {"SCAN_BOOK", "DONE", "READ_REF1"}
      /\ state' = "SCAN_BOOK" => MatchFound
  BY DEF Match
<1>4. probe_cnt' \in 0 .. MaxProbe
  <2>1. CASE ProbeMore
    <3>1. probe_cnt # MaxProbe
      BY <2>1 DEF ProbeMore, MatchGivesUp, MatchFound, RefEmpty
    <3> QED
      BY <3>1, TableAssumption DEF Match, FsmOK, NextProbe
  <2>2. CASE UNCHANGED probe_cnt
    BY <2>2 DEF FsmOK
  <2> QED
    BY <2>1, <2>2 DEF Match
<1>5. FsmOK'
  BY <1>2, <1>3, <1>4 DEF FsmOK
<1>6. collision_count' \in 0 .. CountMod - 1
  BY TableAssumption DEF Match, BookOK
<1>7. BookOK'
  BY <1>1, <1>2, <1>6 DEF BookOK
<1>8. LookedUp'
  BY <1>2, <1>3 DEF LookedUp, MatchFound, IsAdd, RefEmpty, RefMatch
<1>9. OnProbe'
  BY <1>2, <1>3 DEF OnProbe, Window, ProbeSlot, Match
<1> QED
  BY <1>1, <1>5, <1>7, <1>8, <1>9
-----------------------------------------------------------------------------
\* What every branch of S_UPDATE starts from: the message, and the slot the
\* lookup ended on.
LEMMA UpdateFacts ==
  ASSUME IInv, state = "UPDATE"
  PROVE  /\ op \in Message /\ op.ref \in Refs /\ op.new_ref \in Refs
         /\ op.side \in Sides
         /\ ref_rd_addr \in Slots /\ ref_rd_addr \in Window(op.ref)
         /\ ~IsAdd => /\ ref_rd_data \in Order
                      /\ ref_rd_data.ref = op.ref
                      /\ ref_rd_data.side \in Sides
<1>1. op \in Message /\ ref_rd_addr \in Slots /\ ref_rd_addr \in Window(op.ref)
  BY DEF IInv, FsmOK, OnProbe
<1>2. ASSUME ~IsAdd
      PROVE  ref_rd_data \in Order /\ ref_rd_data.ref = op.ref
  BY <1>2 DEF IInv, FsmOK, LookedUp, MatchFound, RefMatch, RefEmpty
<1> QED
  BY <1>1, <1>2 DEF Message, Order

\* The orders and levels S_UPDATE writes.
LEMMA OpOrderType ==
  ASSUME op \in Message, NEW r \in Refs
  PROVE  OpOrder(r) \in Order /\ OpOrder(r).ref = r /\ OpLevel \in Level
BY DEF OpOrder, OpLevel, Order, Message, Level

LEMMA NewSharesType ==
  ASSUME ref_rd_data \in Order, op \in Message
  PROVE  NewShares \in Shares
<1>1. ref_rd_data.shares \in Shares /\ op.shares \in Shares
  BY DEF Order, Message
<1> QED
  BY <1>1, TableAssumption DEF NewShares

LEMMA ReducedType ==
  ASSUME ref_rd_data \in Order, op \in Message
  PROVE  /\ Reduced \in Order /\ Reduced.ref = ref_rd_data.ref
         /\ ReducedLevel \in Level
BY NewSharesType DEF Reduced, ReducedLevel, Order, Level

\* An update that registers a write in the window of its own order, and keeps
\* the book a book, keeps the invariant.
LEMMA UpdateKeeps ==
  ASSUME IInv, NEW next, next \in {"DONE", "UPDATE2"}, Update(next),
         next = "UPDATE2" => ~IsAdd,
         NEW a \in Slots, NEW d \in Order \cup {Empty},
         d # Empty => a \in Window(d.ref),
         Tick(Write(a, d), TRUE), book_mem' \in BookType, bbo' \in QuotesType
  PROVE  IInv'
<1>1. TableOK' /\ InWindow' /\ bbo_valid' \in BOOLEAN
  <2>1. PICK w \in [en : BOOLEAN, addr : Slots, data : Order \cup {Empty}] :
          w = Write(a, d) /\ w.addr = a /\ w.data = d
    BY WriteType
  <2>2. TableOK /\ InWindow /\ TRUE \in BOOLEAN
    BY Zenon DEF IInv
  <2>3. Tick(w, TRUE) /\ (w.en /\ w.data # Empty => w.addr \in Window(w.data.ref))
    BY <2>1, Zenon
  <2> QED
    BY <2>2, <2>3, TickTable, Zenon
<1>2. FsmOK'
  BY DEF IInv, FsmOK, Update
<1>3. BookOK'
  BY <1>1 DEF IInv, BookOK, Update
<1>4. LookedUp'
  BY DEF IInv, LookedUp, Update, MatchFound, IsAdd, RefMatch, RefEmpty
<1>5. OnProbe'
  BY DEF IInv, OnProbe, Update, Window, ProbeSlot
<1> QED
  BY <1>1, <1>2, <1>3, <1>4, <1>5 DEF IInv

LEMMA UpdateAddStep == IInv /\ UpdateAdd => IInv'
<1> SUFFICES ASSUME IInv, UpdateAdd PROVE IInv'
  OBVIOUS
<1>1. state = "UPDATE" /\ Update("DONE")
  BY DEF UpdateAdd, Update
<1>2. OpOrder(op.ref) \in Order /\ OpOrder(op.ref).ref = op.ref /\ OpLevel \in Level
  BY <1>1, UpdateFacts, OpOrderType
<1>3. book_mem' \in BookType
  BY <1>1, <1>2, UpdateFacts, SetLevelType DEF UpdateAdd, IInv, BookOK
<1>4. bbo' \in QuotesType
  BY <1>1, UpdateFacts, RaiseQuoteType DEF UpdateAdd, IInv, BookOK
<1> QED
  BY <1>1, <1>2, <1>3, <1>4, UpdateFacts, UpdateKeeps DEF UpdateAdd

LEMMA UpdateCancelStep == IInv /\ UpdateCancel => IInv'
<1> SUFFICES ASSUME IInv, UpdateCancel PROVE IInv'
  OBVIOUS
<1>1. state = "UPDATE" /\ Update("DONE") /\ ~IsAdd
  BY DEF UpdateCancel, Update, IsAdd
<1>2. Reduced \in Order /\ Reduced.ref = op.ref /\ ReducedLevel \in Level
  BY <1>1, UpdateFacts, ReducedType
<1>3. book_mem' \in BookType
  BY <1>1, <1>2, UpdateFacts, SetLevelType DEF UpdateCancel, IInv, BookOK
<1>4. bbo' \in QuotesType
  BY DropQuoteType DEF UpdateCancel, IInv, BookOK
<1> QED
  BY <1>1, <1>2, <1>3, <1>4, UpdateFacts, UpdateKeeps DEF UpdateCancel

LEMMA UpdateDeleteStep == IInv /\ UpdateDelete => IInv'
<1> SUFFICES ASSUME IInv, UpdateDelete PROVE IInv'
  OBVIOUS
<1>1. state = "UPDATE" /\ Update("DONE") /\ ~IsAdd
  BY DEF UpdateDelete, Update, IsAdd
<1>2. book_mem' \in BookType
  BY <1>1, NoLevelType, UpdateFacts, SetLevelType DEF UpdateDelete, IInv, BookOK
<1>3. bbo' \in QuotesType
  BY DropQuoteType DEF UpdateDelete, IInv, BookOK
<1> QED
  BY <1>1, <1>2, <1>3, UpdateFacts, UpdateKeeps DEF UpdateDelete

LEMMA UpdateExecuteStep == IInv /\ UpdateExecute => IInv'
<1> SUFFICES ASSUME IInv, UpdateExecute PROVE IInv'
  OBVIOUS
<1>1. state = "UPDATE" /\ Update("DONE") /\ ~IsAdd
  BY DEF UpdateExecute, Update, IsAdd
<1>2. Reduced \in Order /\ Reduced.ref = op.ref /\ ReducedLevel \in Level
  BY <1>1, UpdateFacts, ReducedType
<1>3. book_mem' \in BookType
  BY <1>1, <1>2, NoLevelType, UpdateFacts, SetLevelType DEF UpdateExecute, IInv, BookOK
<1>4. bbo' \in QuotesType
  BY DropQuoteType DEF UpdateExecute, IInv, BookOK
<1>5. CASE NewShares = 0
  BY <1>1, <1>3, <1>4, <1>5, UpdateFacts, UpdateKeeps DEF UpdateExecute
<1>6. CASE NewShares # 0
  BY <1>1, <1>2, <1>3, <1>4, <1>6, UpdateFacts, UpdateKeeps DEF UpdateExecute
<1> QED
  BY <1>5, <1>6

LEMMA UpdateReplaceStep == IInv /\ UpdateReplace => IInv'
<1> SUFFICES ASSUME IInv, UpdateReplace PROVE IInv'
  OBVIOUS
<1>1. state = "UPDATE" /\ Update("UPDATE2") /\ ~IsAdd
  BY DEF UpdateReplace, Update, IsAdd
<1>2. /\ OpOrder(op.new_ref) \in Order /\ OpOrder(op.new_ref).ref = op.new_ref
      /\ OpLevel \in Level
  BY <1>1, UpdateFacts, OpOrderType
<1>3. book_mem' \in BookType
  <2>1. SetLevel(book_mem, ref_rd_data.side, NoLevel) \in BookType
    BY <1>1, NoLevelType, UpdateFacts, SetLevelType DEF IInv, BookOK
  <2> QED
    BY <2>1, <1>1, <1>2, UpdateFacts, SetLevelType DEF UpdateReplace
<1>4. bbo' \in QuotesType
  BY <1>1, UpdateFacts, DropQuoteType, RaiseQuoteType DEF UpdateReplace, IInv, BookOK
<1>5. Hash[op.new_ref] \in Slots /\ Hash[op.new_ref] \in Window(op.new_ref)
  BY <1>1, UpdateFacts, BaseInWindow, TableAssumption
<1> QED
  BY <1>1, <1>2, <1>3, <1>4, <1>5, UpdateFacts, UpdateKeeps DEF UpdateReplace

LEMMA Update2Step == IInv /\ Update2 => IInv'
<1> SUFFICES ASSUME IInv, Update2 PROVE IInv'
  OBVIOUS
<1> USE DEF IInv, Update2
<1>1. /\ Write(ref_rd_addr, Empty) \in [en : BOOLEAN, addr : Slots, data : Order \cup {Empty}]
      /\ Write(ref_rd_addr, Empty).data = Empty
  BY WriteType DEF FsmOK
<1>2. TableOK' /\ InWindow' /\ bbo_valid' \in BOOLEAN
  BY <1>1, TickTable
<1>3. FsmOK'
  BY DEF FsmOK
<1>4. BookOK' /\ LookedUp'
  BY <1>2 DEF BookOK, LookedUp
<1>5. OnProbe'
  BY DEF OnProbe, Window, ProbeSlot
<1> QED
  BY <1>2, <1>3, <1>4, <1>5

\* S_DONE, and rst in any state: back to IDLE with the tables as they are.
LEMMA DoneStep == IInv /\ Done => IInv'
<1> SUFFICES ASSUME IInv, Done PROVE IInv'
  OBVIOUS
<1> USE DEF IInv, Done
<1>1. TableOK' /\ InWindow' /\ bbo_valid' \in BOOLEAN
  BY QuietTable
<1>2. FsmOK'
  BY TableAssumption DEF FsmOK
<1>3. BookOK' /\ LookedUp' /\ OnProbe'
  BY <1>1 DEF BookOK, LookedUp, OnProbe
<1> QED
  BY <1>1, <1>2, <1>3

LEMMA ResetStep == IInv /\ Reset => IInv'
<1> SUFFICES ASSUME IInv, Reset PROVE IInv'
  OBVIOUS
<1> USE DEF IInv, Reset
<1>1. TableOK' /\ InWindow' /\ bbo_valid' \in BOOLEAN
  BY QuietTable
<1>2. FsmOK'
  BY TableAssumption DEF FsmOK
<1>3. bbo' \in QuotesType /\ collision_count' \in 0 .. CountMod - 1
  BY NoLevelType, TableAssumption DEF QuotesType
<1>4. BookOK' /\ LookedUp' /\ OnProbe'
  BY <1>1, <1>3 DEF BookOK, LookedUp, OnProbe
<1> QED
  BY <1>1, <1>2, <1>4

LEMMA NextIInv == IInv /\ [Next]_vars => IInv'
<1> SUFFICES ASSUME IInv, [Next]_vars PROVE IInv'
  OBVIOUS
<1>1. CASE UNCHANGED vars
  BY <1>1 DEF vars, IInv, FsmOK, TableOK, BookOK, LookedUp, OnProbe, InWindow,
              MatchFound, IsAdd, RefEmpty, RefMatch, Window, ProbeSlot
<1>2. CASE Busy
  BY <1>2, ReadRef1Step, ReadRef2Step, PipelineStep, MatchStep, UpdateAddStep,
     UpdateCancelStep, UpdateDeleteStep, UpdateExecuteStep, UpdateReplaceStep,
     Update2Step, DoneStep DEF Busy
<1> QED
  BY <1>1, <1>2, IdleStep, ResetStep DEF Next

\* IInv is an inductive invariant of the book.
THEOREM Invariance == Spec => []IInv
BY InitIInv, NextIInv, PTL DEF Spec

\* Type correctness: no message sequence, legal or not, and no reset drives a
\* register, the table or the book out of its range.
THEOREM TypeCorrect == Spec => []TypeOK
<1>1. IInv => TypeOK
  BY DEF IInv, FsmOK, TableOK, BookOK, TypeOK, BookType, QuotesType, Level
<1> QED
  BY <1>1, Invariance, PTL

\* For every hash function, table size and probe depth, no order is ever put
\* in a slot that a lookup of it does not probe.
THEOREM EntriesInWindow == Spec => []InWindow
<1>1. IInv => InWindow
  BY DEF IInv
<1> QED
  BY <1>1, Invariance, PTL

-----------------------------------------------------------------------------
(* A full window.                                                          *)

\* The probe reads the slots of the window one after the other, nothing is
\* written meanwhile, and for an Add those behind it hold other orders.
Probing == {"READ_REF1", "READ_REF2", "PROCESS", "MATCH"}
Foreign(e) == e # Empty /\ e.ref # op.ref
ProbeInv ==
  /\ ref_wr.en => state \in {"UPDATE2", "DONE"}
  /\ state \in Probing \ {"READ_REF1"} => ref_rd_addr = ProbeSlot(op.ref, probe_cnt)
  /\ state \in {"PROCESS", "MATCH"} => ref_rd_data = ref_mem[ref_rd_addr]
  /\ state \in Probing /\ IsAdd =>
       \A k \in 0 .. probe_cnt - 1 : Foreign(ref_mem[ProbeSlot(op.ref, k)])

DropStep == state = "MATCH" /\ state' = "DONE" /\ IsAdd =>
              \A s \in Window(op.ref) : Foreign(ref_mem[s])

LEMMA ProbeInit == Init => ProbeInv
BY DEF Init, ProbeInv, NoWrite, Probing

\* A failed comparison tells that the slot holds another order.
LEMMA MissIsForeign ==
  ASSUME IInv, ProbeInv, state = "MATCH", IsAdd, ~MatchFound
  PROVE  \A k \in 0 .. probe_cnt : Foreign(ref_mem[ProbeSlot(op.ref, k)])
<1>1. Foreign(ref_mem[ProbeSlot(op.ref, probe_cnt)])
  BY DEF ProbeInv, Probing, MatchFound, RefEmpty, RefMatch, Foreign
<1>2. \A k \in 0 .. probe_cnt : k = probe_cnt \/ k \in 0 .. probe_cnt - 1
  BY DEF IInv, FsmOK
<1>3. \A k \in 0 .. probe_cnt - 1 : Foreign(ref_mem[ProbeSlot(op.ref, k)])
  BY DEF ProbeInv, Probing
<1> QED
  BY <1>1, <1>2, <1>3

LEMMA ProbeMatch ==
  ASSUME IInv, ProbeInv, Match
  PROVE  ProbeInv' /\ DropStep
<1>1. state = "MATCH" /\ ref_mem' = ref_mem /\ ~ref_wr'.en /\ op' = op
      /\ ref_rd_addr' = ref_rd_addr
  BY DEF Match, Tick, Written, NoWrite, ProbeInv
<1>2. CASE MatchFound
  BY <1>1, <1>2 DEF Match, ProbeInv, Probing, DropStep, MatchGivesUp, ProbeMore
<1>3. CASE MatchGivesUp
  <2>1. state' = "DONE"
    BY <1>3 DEF Match, MatchGivesUp, ProbeMore
  <2>2. ProbeInv'
    BY <1>1, <2>1 DEF ProbeInv, Probing
  <2>3. ASSUME IsAdd PROVE \A s \in Window(op.ref) : Foreign(ref_mem[s])
    <3>1. probe_cnt = MaxProbe /\ ~MatchFound
      BY <1>3, <2>3 DEF MatchGivesUp
    <3> QED
      BY <1>1, <2>3, <3>1, MissIsForeign DEF Window
  <2> QED
    BY <2>2, <2>3 DEF DropStep
<1>4. CASE ProbeMore
  <2>1. state' = "READ_REF1" /\ probe_cnt' = probe_cnt + 1 /\ ~MatchFound
    BY <1>4 DEF Match, MatchGivesUp, ProbeMore, NextProbe
  <2>2. ASSUME IsAdd', NEW k \in 0 .. probe_cnt' - 1
        PROVE  Foreign(ref_mem[ProbeSlot(op.ref, k)])'
    <3>1. IsAdd /\ k \in 0 .. probe_cnt
      BY <1>1, <2>1, <2>2 DEF IsAdd, IInv, FsmOK
    <3> QED
      BY <1>1, <3>1, <2>1, MissIsForeign DEF Foreign, ProbeSlot
  <2> QED
    BY <1>1, <2>1, <2>2 DEF ProbeInv, Probing, DropStep
<1> QED
  BY <1>2, <1>3, <1>4 DEF Match

LEMMA ProbeStep ==
  ASSUME IInv, ProbeInv, [Next]_vars
  PROVE  ProbeInv' /\ [DropStep]_vars
<1> USE DEF ProbeInv, Probing
<1>1. CASE UNCHANGED vars
  BY <1>1 DEF vars, IsAdd, Foreign, ProbeSlot, DropStep
<1>2. CASE Idle \/ \E m \in Msgs : Accept(m)
  <2>1. /\ state = "IDLE" /\ state' \in {"IDLE", "READ_REF1"} /\ probe_cnt' \in {0, probe_cnt}
        /\ state' = "READ_REF1" => probe_cnt' = 0
        /\ ~ref_wr'.en
    BY <1>2 DEF Idle, Accept, Tick, NoWrite
  <2>2. state' = "READ_REF1" => 0 .. probe_cnt' - 1 = {}
    BY <2>1
  <2> QED
    BY <2>1, <2>2, Zenon DEF DropStep
<1>3. CASE ReadRef1
  <2>1. ref_mem' = ref_mem /\ ~ref_wr'.en
    BY <1>3 DEF ReadRef1, Tick, Written, NoWrite
  <2>2. /\ op' = op /\ probe_cnt' = probe_cnt /\ state = "READ_REF1" /\ state' = "READ_REF2"
        /\ ref_rd_addr' = ProbeSlot(op.ref, probe_cnt)
    BY <1>3 DEF ReadRef1
  <2>3. /\ IsAdd' = IsAdd /\ \A k : ProbeSlot(op.ref, k)' = ProbeSlot(op.ref, k)
        /\ ref_rd_addr' = ProbeSlot(op.ref, probe_cnt)'
    BY <2>2 DEF IsAdd, ProbeSlot
  <2> QED
    BY <2>1, <2>2, <2>3 DEF DropStep, Foreign
<1>4. CASE ReadRef2
  <2>1. ref_mem' = ref_mem /\ ~ref_wr'.en
    BY <1>4 DEF ReadRef2, Tick, Written, NoWrite
  <2> QED
    BY <1>4, <2>1 DEF ReadRef2, DropStep, IsAdd, Foreign, ProbeSlot
<1>5. CASE Process \/ ScanBook \/ ScanBook2 \/ ScanBook3
  <2>1. ref_mem' = ref_mem /\ ~ref_wr'.en
    BY <1>5 DEF Process, ScanBook, ScanBook2, ScanBook3, Pipeline, Tick, Written, NoWrite
  <2> QED
    BY <1>5, <2>1 DEF Process, ScanBook, ScanBook2, ScanBook3, Pipeline, DropStep, IsAdd, Foreign, ProbeSlot
<1>6. CASE Match
  BY <1>6, ProbeMatch
<1>7. CASE UpdateAdd \/ UpdateCancel \/ UpdateDelete \/ UpdateExecute \/ UpdateReplace
  BY <1>7 DEF UpdateAdd, UpdateCancel, UpdateDelete, UpdateExecute, UpdateReplace, Update, DropStep
<1>8. CASE Update2 \/ Done \/ Reset
  BY <1>8 DEF Update2, Done, Reset, Tick, NoWrite, DropStep
<1> QED
  BY <1>1, <1>2, <1>3, <1>4, <1>5, <1>6, <1>7, <1>8 DEF Next, Busy

\* Whatever the hash, the table size, the messages and the resets: an Add is
\* dropped only if every slot of its window holds another order.
THEOREM DropsAreHonest == Spec => DropMeansFull
<1>1. Init => IInv /\ ProbeInv
  BY InitIInv, ProbeInit
<1>2. IInv /\ ProbeInv /\ [Next]_vars => (IInv /\ ProbeInv)' /\ [DropStep]_vars
  BY NextIInv, ProbeStep
<1>3. Spec => [][DropStep]_vars
  BY <1>1, <1>2, PTL DEF Spec
<1>4. [][DropStep]_vars <=> DropMeansFull
  BY DEF DropStep, Foreign, DropMeansFull
<1> QED
  BY <1>3, <1>4

-----------------------------------------------------------------------------
(* The book is the exchange's book.  What is assumed: no two references    *)
(* share a base slot, a Replace carries its order's side, rst does not     *)
(* come while the feed runs.                                               *)

Spread == /\ \A r, n \in Refs : Hash[r] = Hash[n] => r = n
          /\ KeepSide
          /\ ~MayReset

\* A view: the exchange's orders at some moment.
View == [Refs -> Quote \cup {Gone}]

\* Message m takes the exchange's orders from b to a.
Entered(b, m, a) ==
  /\ m.type \in Adds
  /\ b[m.ref] = Gone /\ m.shares > 0
  /\ a = [b EXCEPT ![m.ref] = QuoteOf(m)]
Shrunk(b, m, a) ==
  /\ m.type \in Executes \cup {"X"}
  /\ b[m.ref] # Gone /\ m.sym = b[m.ref].sym
  /\ m.shares > 0 /\ m.shares <= b[m.ref].shares
  /\ m.type = "X" \/ m.shares < b[m.ref].shares
  /\ a = [b EXCEPT ![m.ref].shares = b[m.ref].shares - m.shares]
Left(b, m, a) ==
  /\ b[m.ref] # Gone /\ m.sym = b[m.ref].sym
  /\ m.type = "D" \/ (m.type \in Executes /\ m.shares = b[m.ref].shares)
  /\ a = [b EXCEPT ![m.ref] = Gone]
Moved(b, m, a) ==
  /\ m.type = "U"
  /\ b[m.ref] # Gone /\ m.sym = b[m.ref].sym /\ m.side = b[m.ref].side
  /\ b[m.new_ref] = Gone /\ m.shares > 0
  /\ a = [b EXCEPT ![m.ref] = Gone, ![m.new_ref] = QuoteOf(m)]
Leads(b, m, a) == Entered(b, m, a) \/ Shrunk(b, m, a) \/ Left(b, m, a) \/ Moved(b, m, a)

\* What the table holds of order r when it agrees with b.
EntryIn(b, r) == IF b[r] = Gone THEN Empty
                 ELSE [ref |-> r, price |-> b[r].price, shares |-> b[r].shares,
                       side |-> b[r].side]

\* The live orders of b at a price, and the levels at it.
OrdersAt(b, y, s, p) ==
  {r \in Refs : b[r] # Gone /\ b[r].sym = y /\ b[r].side = s /\ b[r].price = p}
LevelsAt(y, s, p) == {k \in Levels : book_mem[<<y, s>>][k].price = p}

TableHolds(b) ==
  \A r \in Refs :
    TableNow[Hash[r]] = IF state = "UPDATE2" /\ r = op.ref THEN ref_rd_data
                                                           ELSE EntryIn(b, r)
QuotesBacked(b) ==
  \A y \in Symbols, s \in Sides :
    bbo[<<y, s>>].price # 0 =>
      \E r \in OrdersAt(b, y, s, bbo[<<y, s>>].price) : b[r].shares > 0
LevelsHeld(b) ==
  \A y \in Symbols, s \in Sides, p \in Prices :
    Cardinality(LevelsAt(y, s, p)) <= Cardinality(OrdersAt(b, y, s, p))

\* The book agrees with the exchange's orders, with those before the message
\* under way until S_UPDATE has carried it out.
Settled == state \in {"IDLE", "DONE", "UPDATE2"}
Agrees(b) == TableHolds(b) /\ QuotesBacked(b) /\ LevelsHeld(b)
Agreement ==
  \E b \in View : /\ IF Settled THEN b = live ELSE Leads(b, op, live)
                  /\ Agrees(b)

\* Every order is in its base slot, so the first probe finds it.
AtBase == \A s \in Slots : TableNow[s] # Empty => s = Hash[TableNow[s].ref]
FirstProbe ==
  state # "IDLE" => /\ probe_cnt = 0
                    /\ state # "READ_REF1" => ref_rd_addr = Hash[op.ref]
Fetched ==
  state \in {"PROCESS", "MATCH", "SCAN_BOOK", "SCAN_BOOK2", "SCAN_BOOK3", "UPDATE"} =>
    ref_rd_data = ref_mem[ref_rd_addr]
Replacing ==
  state = "UPDATE2" => live[op.ref] = Gone /\ ref_rd_data # Empty /\ ref_rd_data.ref = op.ref
Known == /\ live \in View
         /\ \A r \in Refs : live[r] # Gone => r \in used
         /\ ~had_reset

BookInv == /\ IInv /\ ProbeInv
           /\ Known /\ AtBase /\ FirstProbe /\ Fetched /\ Replacing /\ Agreement

\* The exchange's rules make every message one of the four.
LEMMA LegalLeads ==
  ASSUME Spread, Known, NEW m \in Msgs, Legal(m), m.type # "P"
  PROVE  Leads(live, m, Effect(m)) /\ Effect(m) \in View
<1>1. /\ m \in Message /\ m.ref \in Refs /\ m.new_ref \in Refs /\ m.type \in MsgTypes
      /\ m.shares \in Shares /\ QuoteOf(m) \in Quote
  BY MsgAssumption DEF Message, QuoteOf, Quote
<1>2. \A r \in Refs : live[r] # Gone => live[r] \in Quote /\ live[r].shares \in Shares
  BY DEF Known, View, Quote
<1>3. CASE m.type \in Adds
  BY <1>1, <1>3 DEF Legal, Effect, Known, View, Leads, Entered
<1>4. CASE m.type = "D"
  <2>1. live[m.ref] # Gone /\ m.sym = live[m.ref].sym
    BY <1>4 DEF Legal
  <2>2. Effect(m) = [live EXCEPT ![m.ref] = Gone]
    BY <1>4 DEF Effect
  <2>3. [live EXCEPT ![m.ref] = Gone] \in View
    BY <1>1 DEF Known, View
  <2> QED
    BY <1>4, <2>1, <2>2, <2>3 DEF Leads, Left
<1>5. CASE m.type = "U"
  <2>1. /\ live[m.ref] # Gone /\ m.sym = live[m.ref].sym /\ m.side = live[m.ref].side
        /\ m.new_ref \notin used /\ m.shares > 0
    BY <1>5 DEF Legal, Spread
  <2>2. [QuoteOf(m) EXCEPT !.side = live[m.ref].side] = QuoteOf(m)
    BY <2>1 DEF QuoteOf
  <2> QED
    BY <1>1, <1>5, <2>1, <2>2 DEF Effect, Known, View, Leads, Moved
<1>6. CASE m.type \in Executes \cup {"X"}
  <2>1. /\ live[m.ref] # Gone /\ m.sym = live[m.ref].sym
        /\ m.shares > 0 /\ m.shares <= live[m.ref].shares
    BY <1>1, <1>2, <1>6 DEF Legal
  <2>2. live[m.ref] \in Quote /\ live[m.ref].shares \in Nat /\ live[m.ref].shares <= MaxShares
    BY <1>1, <1>2, <2>1, TableAssumption
  <2>3. Rest(m) = live[m.ref].shares - m.shares /\ Rest(m) \in Shares
    BY <1>1, <2>1, <2>2, TableAssumption DEF Rest
  <2>4. [live EXCEPT ![m.ref].shares = Rest(m)] \in View
    <3>1. [live[m.ref] EXCEPT !.shares = Rest(m)] \in Quote
      BY <2>2, <2>3 DEF Quote
    <3> QED
      BY <1>1, <3>1 DEF Known, View
  <2>5. CASE m.type \in Executes /\ Rest(m) = 0
    <3>1. m.shares = live[m.ref].shares
      BY <1>1, <2>2, <2>3, <2>5
    <3>2. Effect(m) = [live EXCEPT ![m.ref] = Gone]
      BY <2>5 DEF Effect
    <3> QED
      BY <1>1, <2>1, <2>5, <3>1, <3>2 DEF Known, View, Leads, Left
  <2>6. CASE ~(m.type \in Executes /\ Rest(m) = 0)
    <3>1. Effect(m) = [live EXCEPT ![m.ref].shares = Rest(m)]
      BY <1>6, <2>6 DEF Effect
    <3>2. m.type = "X" \/ m.shares < live[m.ref].shares
      BY <1>1, <1>6, <2>1, <2>2, <2>3, <2>6
    <3> QED
      BY <1>6, <2>1, <2>3, <2>4, <3>1, <3>2 DEF Leads, Shrunk
  <2> QED
    BY <2>5, <2>6
<1> QED
  BY <1>1, <1>3, <1>4, <1>5, <1>6

-----------------------------------------------------------------------------
\* An edge at which the write port is idle leaves the table as it is.
LEMMA NowSame ==
  ASSUME TableOK, Tick(NoWrite, bbo_valid')
  PROVE  TableNow' = TableNow /\ ref_mem' = TableNow
BY DEF Tick, TableNow, Written, NoWrite

\* One that registers a write changes one slot.
LEMMA NowWritten ==
  ASSUME TableOK, NEW a \in Slots, NEW d \in Order \cup {Empty},
         Tick(Write(a, d), bbo_valid')
  PROVE  /\ TableNow' = [TableNow EXCEPT ![a] = d]
         /\ TableNow \in [Slots -> Order \cup {Empty}]
<1>1. ref_mem' = TableNow /\ ref_wr'.en /\ ref_wr'.addr = a /\ ref_wr'.data = d
  BY DEF Tick, TableNow, Write
<1>2. TableNow \in [Slots -> Order \cup {Empty}]
  BY WrittenType DEF TableOK, TableNow
<1> QED
  BY <1>1, <1>2 DEF TableNow, Written

LEMMA NowType ==
  ASSUME IInv
  PROVE  TableNow \in [Slots -> Order \cup {Empty}]
BY WrittenType DEF IInv, TableOK, TableNow

\* With no write pending ref_mem is the table.
LEMMA NowIsMem ==
  ASSUME ProbeInv, state \notin {"UPDATE2", "DONE"}
  PROVE  TableNow = ref_mem
BY DEF ProbeInv, TableNow, Written

LEMMA FirstSlot ==
  ASSUME NEW r \in Refs
  PROVE  ProbeSlot(r, 0) = Hash[r] /\ Hash[r] \in Slots
<1>1. Hash[r] \in Nat /\ Hash[r] < TableSize /\ TableSize \in Nat
  BY TableAssumption
<1> QED
  BY <1>1 DEF ProbeSlot

\* What S_MATCH finds at the first probe: an Add its empty base slot, any other
\* message its order.
LEMMA FirstMatch ==
  ASSUME Spread, BookInv, state \in {"PROCESS", "MATCH", "SCAN_BOOK", "SCAN_BOOK2", "SCAN_BOOK3", "UPDATE"},
         NEW b \in View, Leads(b, op, live), TableHolds(b)
  PROVE  /\ ref_rd_data = EntryIn(b, op.ref)
         /\ IsAdd <=> ref_rd_data = Empty
         /\ ~IsAdd => ref_rd_data.ref = op.ref
         /\ MatchFound
<1>1. op \in Message /\ op.ref \in Refs
  BY DEF BookInv, IInv, FsmOK, Message
<1>2. ref_rd_data = TableNow[Hash[op.ref]]
  BY NowIsMem DEF BookInv, FirstProbe, Fetched
<1>3. ref_rd_data = EntryIn(b, op.ref)
  BY <1>1, <1>2 DEF TableHolds
<1>4. IsAdd => b[op.ref] = Gone
  BY DEF IsAdd, Leads, Entered, Shrunk, Left, Moved
<1>5. ~IsAdd => b[op.ref] # Gone
  BY DEF IsAdd, Leads, Entered, Shrunk, Left, Moved
<1>6. b[op.ref] # Gone => EntryIn(b, op.ref) \in Order /\ EntryIn(b, op.ref).ref = op.ref
  BY <1>1 DEF View, Quote, Order, EntryIn
<1>7. b[op.ref] = Gone => EntryIn(b, op.ref) = Empty
  BY DEF EntryIn
<1> QED
  BY <1>3, <1>4, <1>5, <1>6, <1>7, EmptyAssumption DEF MatchFound, RefEmpty, RefMatch

-----------------------------------------------------------------------------
\* Quotes and levels are compared with a view as long as nothing writes them.
LEMMA BookKept ==
  ASSUME NEW b \in View, UNCHANGED <<book_mem, bbo>>
  PROVE  /\ QuotesBacked(b) => QuotesBacked(b)'
         /\ LevelsHeld(b) => LevelsHeld(b)'
BY DEF QuotesBacked, LevelsHeld, LevelsAt, OrdersAt

LEMMA TableKept ==
  ASSUME NEW b \in View, TableNow' = TableNow, state # "UPDATE2", state' # "UPDATE2",
         TableHolds(b)
  PROVE  TableHolds(b)'
BY DEF TableHolds, EntryIn

LEMMA AtBaseKept ==
  ASSUME AtBase, TableNow' = TableNow
  PROVE  AtBase'
BY DEF AtBase

\* A message is accepted: the book now agrees with the orders before it.
LEMMA FeedStep ==
  ASSUME Spread, BookInv, NEW m \in Msgs, Feed(m), IInv', ProbeInv'
  PROVE  BookInv'
<1>1. /\ state = "IDLE" /\ TableOK /\ live' = Effect(m) /\ had_reset' = had_reset
      /\ UNCHANGED <<ref_rd_addr, ref_rd_data, book_mem, bbo>>
      /\ probe_cnt' = 0 /\ Tick(NoWrite, FALSE)
  BY DEF Feed, Accept, BookInv, IInv
<1>2. TableNow' = TableNow
  BY <1>1, NowSame DEF Tick
<1>3. PICK b \in View : b = live /\ Agrees(b)
  BY <1>1 DEF BookInv, Agreement, Settled
<1>4. state' # "UPDATE2"
  BY <1>1 DEF Feed, Accept
<1>5. Agrees(b)'
  BY <1>1, <1>2, <1>3, <1>4, BookKept, TableKept DEF Agrees
<1>6. AtBase'
  BY <1>2, AtBaseKept DEF BookInv
<1>7. CASE m.type = "P"
  <2>1. state' = "IDLE" /\ live' = live /\ used' = used
    BY <1>1, <1>7 DEF Feed, Accept, Effect
  <2>2. Agreement'
    BY <1>3, <1>5, <2>1 DEF Agreement, Settled
  <2> QED
    BY <1>1, <1>6, <2>1, <2>2 DEF BookInv, Known, FirstProbe, Fetched, Replacing
<1>8. CASE m.type # "P"
  <2>1. state' = "READ_REF1" /\ op' = m
    BY <1>8 DEF Feed, Accept
  <2>2. Leads(live, m, live') /\ live' \in View
    BY <1>1, <1>8, LegalLeads DEF Feed, BookInv
  <2>3. Leads(b, op, live)'
    BY <1>3, <2>1, <2>2 DEF Leads, Entered, Shrunk, Left, Moved, QuoteOf
  <2>4. Agreement'
    BY <1>5, <2>1, <2>3 DEF Agreement, Settled
  <2>5. \A r \in Refs : live'[r] # Gone => r \in used'
    <3>1. m \in Message /\ m.ref \in Refs /\ m.new_ref \in Refs
      BY MsgAssumption DEF Message
    <3>2. /\ used \subseteq used'
          /\ m.type \in Adds => m.ref \in used'
          /\ m.type = "U" => m.new_ref \in used'
      BY DEF Feed
    <3>3. live \in View /\ \A r \in Refs : live[r] # Gone => r \in used
      BY DEF BookInv, Known
    <3> QED
      BY <2>2, <3>1, <3>2, <3>3 DEF Leads, Entered, Shrunk, Left, Moved, View
  <2> QED
    BY <1>1, <1>6, <2>1, <2>2, <2>4, <2>5 DEF BookInv, Known, FirstProbe, Fetched, Replacing
<1> QED
  BY <1>7, <1>8

\* The edges that only read: the lookup finds its slot at the first probe.
LEMMA ReadStep ==
  ASSUME Spread, BookInv, UNCHANGED <<live, used, had_reset>>, IInv', ProbeInv',
         Idle \/ ReadRef1 \/ ReadRef2 \/ Process \/ ScanBook \/ ScanBook2 \/ ScanBook3
         \/ Match \/ Done
  PROVE  BookInv'
<1>1. Tick(NoWrite, FALSE) /\ TableOK /\ UNCHANGED <<book_mem, bbo>>
  BY DEF BookInv, IInv, Idle, ReadRef1, ReadRef2, Process, ScanBook, ScanBook2, ScanBook3,
         Pipeline, Match, Done
<1>2. TableNow' = TableNow /\ ref_mem' = TableNow
  BY <1>1, NowSame DEF Tick
<1>3. AtBase' /\ Known'
  BY <1>2, AtBaseKept DEF BookInv, Known
<1>4. PICK b \in View : /\ IF Settled THEN b = live ELSE Leads(b, op, live)
                        /\ Agrees(b)
  BY DEF BookInv, Agreement
<1>5. state # "UPDATE2" /\ (state' = "UPDATE2" => state = "MATCH")
  BY DEF Idle, ReadRef1, ReadRef2, Process, ScanBook, ScanBook2, ScanBook3, Pipeline, Match, Done
<1>6. state = "MATCH" => MatchFound /\ ~MatchGivesUp /\ ~ProbeMore
  BY <1>4, FirstMatch DEF Settled, MatchGivesUp, ProbeMore, Agrees
<1>7. state' # "UPDATE2"
  BY <1>5, <1>6 DEF Match, Idle, ReadRef1, ReadRef2, Process, ScanBook, ScanBook2, ScanBook3, Pipeline, Done
<1>8. Agrees(b)'
  BY <1>1, <1>2, <1>4, <1>5, <1>7, BookKept, TableKept DEF Agrees
<1>9. CASE Idle
  <2>1. state = "IDLE" /\ state' = "IDLE"
    BY <1>9 DEF Idle
  <2>2. Agreement'
    BY <1>4, <1>8, <2>1 DEF Agreement, Settled
  <2> QED
    BY <1>3, <2>1, <2>2 DEF BookInv, FirstProbe, Fetched, Replacing
<1>10. CASE Done
  <2>1. state = "DONE" /\ state' = "IDLE"
    BY <1>10 DEF Done
  <2>2. Agreement'
    BY <1>4, <1>8, <2>1 DEF Agreement, Settled
  <2> QED
    BY <1>3, <2>1, <2>2 DEF BookInv, FirstProbe, Fetched, Replacing
<1>11. CASE ~Idle /\ ~Done
  <2>1. /\ ~Settled /\ ~Settled' /\ op' = op /\ probe_cnt' = probe_cnt
        /\ state' \notin {"IDLE", "READ_REF1"}
    BY <1>6, <1>11 DEF ReadRef1, ReadRef2, Process, ScanBook, ScanBook2, ScanBook3, Pipeline, Match,
         Settled
  <2>2. Agreement'
    <3>1. Leads(b, op, live)'
      BY <1>4, <2>1 DEF Leads, Entered, Shrunk, Left, Moved, QuoteOf
    <3> QED
      BY <1>8, <2>1, <3>1 DEF Agreement
  <2>4. FirstProbe'
    <3>1. probe_cnt = 0 /\ (state # "READ_REF1" => ref_rd_addr = Hash[op.ref])
      BY <2>1 DEF BookInv, FirstProbe, Settled
    <3>2. CASE ReadRef1
      <4>1. ref_rd_addr' = ProbeSlot(op.ref, 0)
        BY <3>1, <3>2 DEF ReadRef1
      <4>2. op.ref \in Refs
        BY <2>1 DEF BookInv, IInv, FsmOK, Message, Settled
      <4>3. ref_rd_addr' = Hash[op.ref]
        BY <4>1, <4>2, FirstSlot
      <4> QED
        BY <2>1, <3>1, <4>3 DEF FirstProbe
    <3>3. CASE ~ReadRef1
      BY <1>11, <2>1, <3>1, <3>3
         DEF FirstProbe, ReadRef2, Process, ScanBook, ScanBook2, ScanBook3, Pipeline, Match
    <3> QED
      BY <3>2, <3>3
  <2>5. Fetched'
    BY <1>2, <1>11, <2>1 DEF BookInv, Fetched, ReadRef1, ReadRef2, Process, ScanBook, ScanBook2,
         ScanBook3, Pipeline, Match, ProbeInv, TableNow, Written
  <2>6. Replacing'
    BY <1>7 DEF Replacing
  <2> QED
    BY <1>3, <2>2, <2>4, <2>5, <2>6 DEF BookInv
<1> QED
  BY <1>9, <1>10, <1>11

-----------------------------------------------------------------------------
\* A nonempty set of naturals has a least element.
LEMMA LeastOf ==
  ASSUME NEW S \in SUBSET Nat, S # {}
  PROVE  \E m \in S : \A k \in S : m <= k
<1> DEFINE R == OpToRel(<, Nat)
<1>1. \E m \in S : \A k \in S : <<k, m>> \notin R
  BY NatLessThanWellFounded, WFMin
<1>2. \A k, m \in S : k < m => <<k, m>> \in R
  BY DEF OpToRel
<1> HIDE DEF R
<1>3. PICK m \in S : \A k \in S : ~(k < m)
  BY <1>1, <1>2
<1> QED
  BY <1>3

LEMMA TargetMatches ==
  ASSUME MatchVec # {}
  PROVE  TargetLevel \in MatchVec
<1>1. MatchVec \in SUBSET Nat
  BY TableAssumption DEF MatchVec
<1>2. \E m \in MatchVec : \A k \in MatchVec : m <= k
  BY <1>1, LeastOf
<1> QED
  BY <1>2 DEF TargetLevel

\* What a level is after SetLevel.
LEMMA SetLevelAt ==
  ASSUME op \in Message, NEW bk \in BookType, NEW s0 \in Sides, NEW l \in Level,
         NEW y \in Symbols, NEW s \in Sides, NEW k \in Levels
  PROVE  SetLevel(bk, s0, l)[<<y, s>>][k] =
           IF MatchVec # {} /\ y = op.sym /\ s = s0 /\ k = TargetLevel
             THEN l ELSE bk[<<y, s>>][k]
<1>1. CASE MatchVec = {}
  BY <1>1 DEF SetLevel
<1>2. CASE MatchVec # {}
  <2> DEFINE row == [bk[At(s0)] EXCEPT ![TargetLevel] = l]
  <2>1. At(s0) \in Symbols \X Sides /\ <<y, s>> \in Symbols \X Sides /\ At(s0) = <<op.sym, s0>>
    BY DEF Message, At
  <2>2. bk[At(s0)] \in [Levels -> Level] /\ bk[<<y, s>>] \in [Levels -> Level]
    BY <2>1 DEF BookType
  <2>3. SetLevel(bk, s0, l) = [bk EXCEPT ![At(s0)] = row]
    BY <1>2 DEF SetLevel
  <2>4. SetLevel(bk, s0, l)[<<y, s>>] = IF <<y, s>> = At(s0) THEN row ELSE bk[<<y, s>>]
    BY <2>1, <2>3 DEF BookType
  <2>5. row[k] = IF k = TargetLevel THEN l ELSE bk[At(s0)][k]
    BY <2>2
  <2>6. <<y, s>> = At(s0) <=> y = op.sym /\ s = s0
    BY <2>1
  <2> HIDE DEF row
  <2> QED
    BY <1>2, <2>4, <2>5, <2>6
<1> QED
  BY <1>1, <1>2

\* The same, of all the levels of a book.
LEMMA SetLevelAll ==
  ASSUME op \in Message, NEW bk \in BookType, NEW s0 \in Sides, NEW l \in Level
  PROVE  \A y \in Symbols, s \in Sides, k \in Levels :
           SetLevel(bk, s0, l)[<<y, s>>][k] =
             IF MatchVec # {} /\ y = op.sym /\ s = s0 /\ k = TargetLevel
               THEN l ELSE bk[<<y, s>>][k]
BY SetLevelAt, Zenon

LEMMA DropQuoteAt ==
  ASSUME IInv, NEW y \in Symbols, NEW s \in Sides
  PROVE  LET gone == /\ y = op.sym /\ s = ref_rd_data.side
                     /\ bbo[<<y, s>>].price = ref_rd_data.price
         IN  /\ gone => DropQuote(bbo)[<<y, s>>] = NoLevel
             /\ ~gone => DropQuote(bbo)[<<y, s>>] = bbo[<<y, s>>]
<1>1. bbo \in [Symbols \X Sides -> Level] /\ <<y, s>> \in Symbols \X Sides
  BY DEF IInv, BookOK, QuotesType
<1> QED
  BY <1>1 DEF DropQuote, At

LEMMA RaiseQuoteAt ==
  ASSUME IInv, NEW q \in QuotesType, NEW y \in Symbols, NEW s \in Sides
  PROVE  \/ RaiseQuote(q)[<<y, s>>] = q[<<y, s>>]
         \/ y = op.sym /\ s = op.side /\ RaiseQuote(q)[<<y, s>>].price = op.price
<1>1. q \in [Symbols \X Sides -> Level] /\ <<y, s>> \in Symbols \X Sides
  BY DEF QuotesType
<1> QED
  BY <1>1 DEF RaiseQuote, At

-----------------------------------------------------------------------------
(* Counting levels and orders.                                             *)

LEMMA CountSame ==
  ASSUME NEW L, NEW M, NEW A, NEW B, IsFiniteSet(L), IsFiniteSet(B),
         Cardinality(L) <= Cardinality(A), IsFiniteSet(A),
         M \subseteq L, A \subseteq B
  PROVE  Cardinality(M) <= Cardinality(B)
<1>1. Cardinality(M) <= Cardinality(L) /\ IsFiniteSet(M)
  BY FS_Subset
<1>2. Cardinality(A) <= Cardinality(B)
  BY FS_Subset
<1>3. /\ Cardinality(M) \in Nat /\ Cardinality(L) \in Nat
      /\ Cardinality(A) \in Nat /\ Cardinality(B) \in Nat
  BY <1>1, FS_CardinalityType
<1> QED
  BY <1>1, <1>2, <1>3

LEMMA CountAdd ==
  ASSUME NEW L, NEW M, NEW A, NEW B, IsFiniteSet(L), IsFiniteSet(B), IsFiniteSet(A),
         Cardinality(L) <= Cardinality(A),
         NEW t, M \subseteq L \cup {t}, NEW n, n \notin A, A \cup {n} \subseteq B
  PROVE  Cardinality(M) <= Cardinality(B)
<1>1. /\ IsFiniteSet(L \cup {t}) /\ Cardinality(L \cup {t}) <= Cardinality(L) + 1
      /\ IsFiniteSet(A \cup {n}) /\ Cardinality(A \cup {n}) = Cardinality(A) + 1
  <2>1. Cardinality(L) \in Nat
    BY FS_CardinalityType
  <2>2. /\ IsFiniteSet(L \cup {t})
        /\ Cardinality(L \cup {t}) = Cardinality(L) \/ Cardinality(L \cup {t}) = Cardinality(L) + 1
    BY FS_AddElement
  <2>3. IsFiniteSet(A \cup {n}) /\ Cardinality(A \cup {n}) = Cardinality(A) + 1
    BY FS_AddElement
  <2> QED
    BY <2>1, <2>2, <2>3
<1>2. Cardinality(L \cup {t}) <= Cardinality(A \cup {n})
  <2>1. /\ Cardinality(L) \in Nat /\ Cardinality(A) \in Nat
        /\ Cardinality(L \cup {t}) \in Nat /\ Cardinality(A \cup {n}) \in Nat
    BY <1>1, FS_CardinalityType
  <2> QED
    BY <1>1, <2>1
<1> QED
  BY <1>1, <1>2, CountSame

LEMMA CountRemove ==
  ASSUME NEW L, NEW M, NEW A, NEW B, IsFiniteSet(L), IsFiniteSet(B), IsFiniteSet(A),
         Cardinality(L) <= Cardinality(A),
         NEW r, r \in A, A \ {r} \subseteq B,
         NEW t, M = {} \/ (t \in L /\ M \subseteq L \ {t})
  PROVE  Cardinality(M) <= Cardinality(B)
<1>1. CASE M = {}
  BY <1>1, FS_EmptySet, FS_CardinalityType
<1>2. CASE t \in L /\ M \subseteq L \ {t}
  <2>1. /\ IsFiniteSet(L \ {t}) /\ Cardinality(L \ {t}) = Cardinality(L) - 1
        /\ IsFiniteSet(A \ {r}) /\ Cardinality(A \ {r}) = Cardinality(A) - 1
    BY <1>2, FS_RemoveElement
  <2>2. Cardinality(L) \in Nat /\ Cardinality(A) \in Nat
    BY FS_CardinalityType
  <2>3. Cardinality(L \ {t}) <= Cardinality(A \ {r})
    BY <2>1, <2>2
  <2> QED
    BY <1>2, <2>1, <2>3, CountSame
<1> QED
  BY <1>1, <1>2

LEMMA CountMove ==
  ASSUME NEW L, NEW M, NEW A, NEW B, IsFiniteSet(L), IsFiniteSet(B), IsFiniteSet(A),
         Cardinality(L) <= Cardinality(A), M \subseteq L,
         NEW r, r \in A, NEW n, n \notin A, (A \ {r}) \cup {n} \subseteq B
  PROVE  Cardinality(M) <= Cardinality(B)
<1> DEFINE C == A \ {r}
<1>1. IsFiniteSet(C) /\ Cardinality(C) = Cardinality(A) - 1 /\ n \notin C
  BY FS_RemoveElement
<1> HIDE DEF C
<1>2. IsFiniteSet(C \cup {n}) /\ Cardinality(C \cup {n}) = Cardinality(C) + 1
  BY <1>1, FS_AddElement
<1>3. Cardinality(L) <= Cardinality(C \cup {n})
  <2>1. Cardinality(A) \in Nat
    BY FS_CardinalityType
  <2> QED
    BY <1>1, <1>2, <2>1
<1>4. C \cup {n} \subseteq B
  BY DEF C
<1> QED
  BY <1>2, <1>3, <1>4, CountSame

LEMMA FiniteBook ==
  ASSUME Spread, NEW b, NEW y, NEW s, NEW p
  PROVE  /\ IsFiniteSet(LevelsAt(y, s, p)) /\ IsFiniteSet(OrdersAt(b, y, s, p))
         /\ IsFiniteSet(LevelsAt(y, s, p)')
<1>1. IsFiniteSet(0 .. NumLevels - 1) /\ IsFiniteSet(0 .. TableSize - 1)
  BY FS_Interval, TableAssumption
<1>2. Hash \in Injection(Refs, Slots)
  BY TableAssumption DEF Spread, Injection, IsInjective
<1>3. IsFiniteSet(Refs)
  BY <1>1, <1>2, FS_Injection
<1>4. OrdersAt(b, y, s, p) \subseteq Refs
  BY DEF OrdersAt
<1>5. LevelsAt(y, s, p) \subseteq 0 .. NumLevels - 1 /\ LevelsAt(y, s, p)' \subseteq 0 .. NumLevels - 1
  BY DEF LevelsAt
<1> QED
  BY <1>1, <1>3, <1>4, <1>5, FS_Subset

-----------------------------------------------------------------------------
(* S_UPDATE carries the message out.                                       *)

\* What S_UPDATE starts from: the order the lookup found, seen from the orders
\* before the message.
LEMMA UpdateView ==
  ASSUME Spread, BookInv, state = "UPDATE",
         NEW b \in View, Leads(b, op, live), Agrees(b)
  PROVE  /\ op \in Message /\ op.ref \in Refs /\ op.new_ref \in Refs
         /\ ref_rd_addr = Hash[op.ref] /\ Hash[op.ref] \in Slots
         /\ book_mem \in BookType /\ bbo \in QuotesType
         /\ \A r \in Refs : TableNow[Hash[r]] = EntryIn(b, r)
         /\ TableNow \in [Slots -> Order \cup {Empty}]
         /\ ~IsAdd => /\ b[op.ref] # Gone /\ b[op.ref] \in Quote /\ op.sym = b[op.ref].sym
                      /\ ref_rd_data = [ref |-> op.ref, price |-> b[op.ref].price,
                                        shares |-> b[op.ref].shares, side |-> b[op.ref].side]
                      /\ MatchVec = LevelsAt(op.sym, ref_rd_data.side, ref_rd_data.price)
                      /\ ref_rd_data.side \in Sides
<1>1. IInv /\ op.ref \in Refs
  BY UpdateFacts DEF BookInv
<1>2. /\ ref_rd_addr = Hash[op.ref] /\ Hash[op.ref] \in Slots
      /\ TableNow \in [Slots -> Order \cup {Empty}]
  BY <1>1, FirstSlot, NowType DEF BookInv, FirstProbe
<1>3. \A r \in Refs : TableNow[Hash[r]] = EntryIn(b, r)
  BY DEF Agrees, TableHolds
<1>4. ASSUME ~IsAdd
      PROVE  /\ b[op.ref] # Gone /\ b[op.ref] \in Quote /\ op.sym = b[op.ref].sym
             /\ ref_rd_data = [ref |-> op.ref, price |-> b[op.ref].price,
                               shares |-> b[op.ref].shares, side |-> b[op.ref].side]
             /\ MatchVec = LevelsAt(op.sym, ref_rd_data.side, ref_rd_data.price)
  <2>1. b[op.ref] # Gone /\ op.sym = b[op.ref].sym
    BY <1>4 DEF IsAdd, Leads, Entered, Shrunk, Left, Moved
  <2>2. ref_rd_data = EntryIn(b, op.ref)
    BY FirstMatch DEF Agrees
  <2>3. MatchVec = LevelsAt(op.sym, ref_rd_data.side, ref_rd_data.price)
    BY <1>4 DEF MatchVec, ScanSide, At, LevelsAt
  <2> QED
    BY <1>1, <2>1, <2>2, <2>3 DEF View, EntryIn
<1> QED
  BY <1>1, <1>2, <1>3, <1>4, UpdateFacts DEF IInv, BookOK

\* A write of what the orders after the message give one reference, when they
\* leave the others alone, makes the table agree with them.
LEMMA TableAfter ==
  ASSUME Spread, NEW a \in View, NEW b \in View, NEW r0 \in Refs,
         TableNow \in [Slots -> Order \cup {Empty}],
         \A r \in Refs : TableNow[Hash[r]] = EntryIn(b, r),
         \A r \in Refs \ {r0} : a[r] = b[r],
         TableNow' = [TableNow EXCEPT ![Hash[r0]] = EntryIn(a, r0)],
         AtBase, state' # "UPDATE2"
  PROVE  TableHolds(a)' /\ AtBase'
<1>1. Hash[r0] \in Slots /\ \A r \in Refs : Hash[r] \in Slots
  BY FirstSlot
<1>2. \A r \in Refs : TableNow'[Hash[r]] = EntryIn(a, r)
  <2> SUFFICES ASSUME NEW r \in Refs PROVE TableNow'[Hash[r]] = EntryIn(a, r)
    OBVIOUS
  <2>1. CASE r = r0
    BY <1>1, <2>1
  <2>2. CASE r # r0
    <3>1. Hash[r] # Hash[r0] /\ EntryIn(a, r) = EntryIn(b, r)
      BY <2>2 DEF Spread, EntryIn
    <3> QED
      BY <1>1, <3>1
  <2> QED
    BY <2>1, <2>2
<1>3. EntryIn(a, r0) # Empty => EntryIn(a, r0).ref = r0
  BY DEF EntryIn
<1>4. \A s \in Slots : TableNow'[s] # Empty => s = Hash[TableNow'[s].ref]
  BY <1>1, <1>3 DEF AtBase
<1> QED
  BY <1>2, <1>4 DEF TableHolds, AtBase, EntryIn

\* An Add: its order, its level if one is free, its quote if it is better.
LEMMA AddAgrees ==
  ASSUME Spread, BookInv, UpdateAdd,
         NEW b \in View, NEW a \in View, a = live, Leads(b, op, a), Agrees(b)
  PROVE  Agrees(a)' /\ AtBase'
<1>1. /\ state = "UPDATE" /\ state' = "DONE" /\ IInv /\ IsAdd
      /\ book_mem' = SetLevel(book_mem, op.side, OpLevel)
      /\ bbo' = RaiseQuote(bbo)
      /\ Tick(Write(ref_rd_addr, OpOrder(op.ref)), bbo_valid')
  BY DEF UpdateAdd, Update, BookInv, IsAdd, Tick
<1>2. /\ op \in Message /\ op.ref \in Refs /\ op.side \in Sides
      /\ ref_rd_addr = Hash[op.ref] /\ Hash[op.ref] \in Slots
      /\ book_mem \in BookType /\ bbo \in QuotesType
      /\ \A r \in Refs : TableNow[Hash[r]] = EntryIn(b, r)
      /\ TableNow \in [Slots -> Order \cup {Empty}]
  BY <1>1, UpdateView, UpdateFacts
<1>3. b[op.ref] = Gone /\ op.shares > 0 /\ a = [b EXCEPT ![op.ref] = QuoteOf(op)]
  BY <1>1 DEF IsAdd, Leads, Entered, Shrunk, Left, Moved
<1>4. a[op.ref] = QuoteOf(op) /\ \A r \in Refs \ {op.ref} : a[r] = b[r]
  BY <1>2, <1>3 DEF View
<1>5. QuoteOf(op) # Gone /\ QuoteOf(op).price = op.price /\ QuoteOf(op).shares = op.shares
      /\ QuoteOf(op).side = op.side /\ QuoteOf(op).sym = op.sym
  BY <1>2, GoneAssumption DEF QuoteOf, Quote, Message
<1>6. TableHolds(a)' /\ AtBase'
  <2>1. OpOrder(op.ref) = EntryIn(a, op.ref)
    BY <1>4, <1>5 DEF EntryIn, OpOrder
  <2>2. TableNow' = [TableNow EXCEPT ![Hash[op.ref]] = EntryIn(a, op.ref)]
    BY <1>1, <1>2, <2>1, NowWritten, OpOrderType DEF IInv
  <2> QED
    BY <1>1, <1>2, <1>4, <2>2, TableAfter DEF BookInv
<1>7. QuotesBacked(a)'
  <2> SUFFICES ASSUME NEW y \in Symbols, NEW s \in Sides, bbo'[<<y, s>>].price # 0
               PROVE  \E r \in OrdersAt(a, y, s, bbo'[<<y, s>>].price) : a[r].shares > 0
    BY DEF QuotesBacked, OrdersAt
  <2>1. CASE bbo'[<<y, s>>] = bbo[<<y, s>>]
    <3>1. PICK r \in OrdersAt(b, y, s, bbo[<<y, s>>].price) : b[r].shares > 0
      BY <2>1 DEF Agrees, QuotesBacked
    <3>2. r \in Refs \ {op.ref}
      BY <1>3 DEF OrdersAt
    <3> QED
      BY <1>4, <2>1, <3>1, <3>2 DEF OrdersAt
  <2>2. CASE y = op.sym /\ s = op.side /\ bbo'[<<y, s>>].price = op.price
    BY <1>2, <1>3, <1>4, <1>5, <2>2 DEF OrdersAt
  <2> QED
    BY <1>1, <1>2, <2>1, <2>2, RaiseQuoteAt
<1>8. LevelsHeld(a)'
  <2> SUFFICES ASSUME NEW y \in Symbols, NEW s \in Sides, NEW p \in Prices
               PROVE  Cardinality(LevelsAt(y, s, p)') <= Cardinality(OrdersAt(a, y, s, p))
    BY DEF LevelsHeld, OrdersAt, LevelsAt
  <2>1. OrdersAt(b, y, s, p) \subseteq OrdersAt(a, y, s, p) /\ op.ref \notin OrdersAt(b, y, s, p)
    BY <1>3, <1>4 DEF OrdersAt
  <2>2. Cardinality(LevelsAt(y, s, p)) <= Cardinality(OrdersAt(b, y, s, p))
    BY DEF Agrees, LevelsHeld
  <2>3. /\ IsFiniteSet(LevelsAt(y, s, p)) /\ IsFiniteSet(OrdersAt(b, y, s, p))
        /\ IsFiniteSet(OrdersAt(a, y, s, p))
    BY FiniteBook
  <2>4. OpLevel \in Level /\ OpLevel.price = op.price
    BY <1>2, OpOrderType DEF OpLevel
  <2>5. \A k \in Levels : book_mem'[<<y, s>>][k] =
          IF MatchVec # {} /\ y = op.sym /\ s = op.side /\ k = TargetLevel
            THEN OpLevel ELSE book_mem[<<y, s>>][k]
    <3>1. \A z \in Symbols, c \in Sides, k \in Levels :
             SetLevel(book_mem, op.side, OpLevel)[<<z, c>>][k] =
               IF MatchVec # {} /\ z = op.sym /\ c = op.side /\ k = TargetLevel
                 THEN OpLevel ELSE book_mem[<<z, c>>][k]
      <4>1. /\ op \in Message /\ book_mem \in BookType
            /\ op.side \in Sides /\ OpLevel \in Level
        BY <1>2, <2>4
      <4> HIDE DEF Sides, Levels
      <4> QED
        BY <4>1, SetLevelAll, Zenon
    <3> QED
      BY <1>1, <3>1
  <2>6. LevelsAt(y, s, p)' = {k \in Levels : book_mem'[<<y, s>>][k].price = p}
    BY DEF LevelsAt
  <2>7. CASE y = op.sym /\ s = op.side /\ p = op.price
    <3>1. LevelsAt(y, s, p)' \subseteq LevelsAt(y, s, p) \cup {TargetLevel}
      BY <2>5, <2>6 DEF LevelsAt
    <3>2. OrdersAt(b, y, s, p) \cup {op.ref} \subseteq OrdersAt(a, y, s, p)
      BY <1>2, <1>4, <1>5, <2>1, <2>7 DEF OrdersAt
    <3> QED
      BY <2>1, <2>2, <2>3, <3>1, <3>2, CountAdd
  <2>8. CASE ~(y = op.sym /\ s = op.side /\ p = op.price)
    <3>1. LevelsAt(y, s, p)' \subseteq LevelsAt(y, s, p)
      BY <2>4, <2>5, <2>6, <2>8 DEF LevelsAt
    <3> QED
      BY <2>1, <2>2, <2>3, <3>1, CountSame
  <2> QED
    BY <2>7, <2>8
<1> QED
  BY <1>6, <1>7, <1>8 DEF Agrees

\* Shares are taken from an order that keeps some, or is cancelled down to
\* none: its entry and its level change their shares, its quote goes with the
\* last of them.
LEMMA ShrunkAgrees ==
  ASSUME Spread, BookInv, state = "UPDATE", state' = "DONE",
         Tick(Write(ref_rd_addr, Reduced), bbo_valid'),
         book_mem' = SetLevel(book_mem, ref_rd_data.side, ReducedLevel),
         bbo' = IF NewShares = 0 THEN DropQuote(bbo) ELSE bbo,
         NEW b \in View, NEW a \in View, a = live, Shrunk(b, op, a), Agrees(b)
  PROVE  Agrees(a)' /\ AtBase'
<1>1. ~IsAdd /\ Leads(b, op, live) /\ IInv
  BY DEF BookInv, IsAdd, Leads, Shrunk
<1>2. /\ op \in Message /\ op.ref \in Refs /\ op.shares \in Shares
      /\ ref_rd_addr = Hash[op.ref] /\ Hash[op.ref] \in Slots
      /\ book_mem \in BookType /\ bbo \in QuotesType
      /\ \A r \in Refs : TableNow[Hash[r]] = EntryIn(b, r)
      /\ TableNow \in [Slots -> Order \cup {Empty}]
  BY <1>1, UpdateView DEF Message
<1>3. /\ b[op.ref] # Gone /\ b[op.ref] \in Quote /\ op.sym = b[op.ref].sym
      /\ ref_rd_data = [ref |-> op.ref, price |-> b[op.ref].price,
                        shares |-> b[op.ref].shares, side |-> b[op.ref].side]
      /\ MatchVec = LevelsAt(op.sym, ref_rd_data.side, ref_rd_data.price)
      /\ ref_rd_data.side \in Sides /\ ref_rd_data \in Order
  BY <1>1, UpdateView, UpdateFacts
<1>4. /\ b[op.ref].shares \in Nat /\ op.shares \in Nat
      /\ op.shares > 0 /\ op.shares <= b[op.ref].shares
      /\ a = [b EXCEPT ![op.ref].shares = b[op.ref].shares - op.shares]
  BY <1>2, <1>3, TableAssumption DEF Shrunk, Quote
<1>5. NewShares = b[op.ref].shares - op.shares /\ NewShares \in Nat
  BY <1>3, <1>4 DEF NewShares
<1>6. /\ a[op.ref] = [b[op.ref] EXCEPT !.shares = NewShares]
      /\ \A r \in Refs \ {op.ref} : a[r] = b[r]
  BY <1>2, <1>4, <1>5 DEF View
<1>7. /\ a[op.ref] # Gone /\ a[op.ref].price = b[op.ref].price /\ a[op.ref].side = b[op.ref].side
      /\ a[op.ref].sym = b[op.ref].sym /\ a[op.ref].shares = NewShares
  <2>1. NewShares \in Shares
    BY <1>2, <1>3, NewSharesType
  <2>2. a[op.ref] \in Quote
    BY <1>3, <1>6, <2>1 DEF Quote
  <2> QED
    BY <1>3, <1>6, <2>2, GoneAssumption DEF Quote
<1>8. TableHolds(a)' /\ AtBase'
  <2>1. Reduced = EntryIn(a, op.ref)
    BY <1>3, <1>7 DEF EntryIn, Reduced
  <2>2. TableNow' = [TableNow EXCEPT ![Hash[op.ref]] = EntryIn(a, op.ref)]
    BY <1>1, <1>2, <1>3, <2>1, NowWritten, ReducedType DEF IInv
  <2>3. AtBase /\ \A r \in Refs \ {op.ref} : a[r] = b[r]
    BY <1>6 DEF BookInv
  <2> QED
    BY <1>2, <2>2, <2>3, TableAfter
<1>9. QuotesBacked(a)'
  <2> SUFFICES ASSUME NEW y \in Symbols, NEW s \in Sides, bbo'[<<y, s>>].price # 0
               PROVE  \E r \in OrdersAt(a, y, s, bbo'[<<y, s>>].price) : a[r].shares > 0
    BY DEF QuotesBacked, OrdersAt
  <2>1. /\ bbo'[<<y, s>>] = bbo[<<y, s>>]
        /\ ~(/\ NewShares = 0 /\ y = op.sym /\ s = ref_rd_data.side
             /\ bbo[<<y, s>>].price = ref_rd_data.price)
    <3> DEFINE gone == /\ y = op.sym /\ s = ref_rd_data.side
                       /\ bbo[<<y, s>>].price = ref_rd_data.price
    <3>1. gone => DropQuote(bbo)[<<y, s>>] = NoLevel
      BY <1>1, DropQuoteAt
    <3>2. ~gone => DropQuote(bbo)[<<y, s>>] = bbo[<<y, s>>]
      BY <1>1, DropQuoteAt
    <3>3. NoLevel.price = 0
      BY DEF NoLevel
    <3> QED
      BY <3>1, <3>2, <3>3
  <2>2. PICK r \in OrdersAt(b, y, s, bbo[<<y, s>>].price) : b[r].shares > 0
    BY <2>1 DEF Agrees, QuotesBacked
  <2>3. CASE r = op.ref
    <3>1. y = op.sym /\ s = ref_rd_data.side /\ bbo[<<y, s>>].price = ref_rd_data.price
      BY <1>3, <2>2, <2>3 DEF OrdersAt
    <3>2. a[r].shares > 0
      BY <1>5, <1>7, <2>1, <2>3, <3>1
    <3> QED
      BY <1>7, <2>1, <2>2, <2>3, <3>2 DEF OrdersAt
  <2>4. CASE r # op.ref
    BY <1>6, <2>1, <2>2, <2>4 DEF OrdersAt
  <2> QED
    BY <2>3, <2>4
<1>10. LevelsHeld(a)'
  <2> SUFFICES ASSUME NEW y \in Symbols, NEW s \in Sides, NEW p \in Prices
               PROVE  Cardinality(LevelsAt(y, s, p)') <= Cardinality(OrdersAt(a, y, s, p))
    BY DEF LevelsHeld, OrdersAt, LevelsAt
  <2>1. OrdersAt(b, y, s, p) \subseteq OrdersAt(a, y, s, p)
    BY <1>6, <1>7 DEF OrdersAt
  <2>2. Cardinality(LevelsAt(y, s, p)) <= Cardinality(OrdersAt(b, y, s, p))
    BY DEF Agrees, LevelsHeld
  <2>3. /\ IsFiniteSet(LevelsAt(y, s, p)) /\ IsFiniteSet(OrdersAt(b, y, s, p))
        /\ IsFiniteSet(OrdersAt(a, y, s, p))
    BY FiniteBook
  <2>4. ReducedLevel \in Level /\ ReducedLevel.price = ref_rd_data.price
    BY <1>2, <1>3, ReducedType DEF ReducedLevel
  <2>5. \A z \in Symbols, c \in Sides, k \in Levels :
          SetLevel(book_mem, ref_rd_data.side, ReducedLevel)[<<z, c>>][k] =
            IF MatchVec # {} /\ z = op.sym /\ c = ref_rd_data.side /\ k = TargetLevel
              THEN ReducedLevel ELSE book_mem[<<z, c>>][k]
    <3> HIDE DEF Sides, Levels
    <3> QED
      <4>1. /\ op \in Message /\ book_mem \in BookType
            /\ ref_rd_data.side \in Sides /\ ReducedLevel \in Level
        BY <1>2, <1>3, <2>4
      <4> QED
        BY <4>1, SetLevelAll, Zenon
  <2>6. MatchVec # {} => book_mem[<<op.sym, ref_rd_data.side>>][TargetLevel].price = ref_rd_data.price
    BY <1>3, TargetMatches DEF LevelsAt
  <2>7. LevelsAt(y, s, p)' \subseteq LevelsAt(y, s, p)
    BY <2>4, <2>5, <2>6 DEF LevelsAt
  <2> QED
    BY <2>1, <2>2, <2>3, <2>7, CountSame
<1> QED
  BY <1>8, <1>9, <1>10 DEF Agrees

\* An order leaves: its entry is cleared, a level at its price freed, its quote
\* dropped.
LEMMA LeftAgrees ==
  ASSUME Spread, BookInv, state = "UPDATE", state' = "DONE",
         Tick(Write(ref_rd_addr, Empty), bbo_valid'),
         book_mem' = SetLevel(book_mem, ref_rd_data.side, NoLevel),
         bbo' = DropQuote(bbo),
         NEW b \in View, NEW a \in View, a = live, Left(b, op, a), Agrees(b)
  PROVE  Agrees(a)' /\ AtBase'
<1>1. ~IsAdd /\ Leads(b, op, live) /\ IInv
  BY DEF BookInv, IsAdd, Leads, Left
<1>2. /\ op \in Message /\ op.ref \in Refs
      /\ ref_rd_addr = Hash[op.ref] /\ Hash[op.ref] \in Slots
      /\ book_mem \in BookType /\ bbo \in QuotesType
      /\ \A r \in Refs : TableNow[Hash[r]] = EntryIn(b, r)
      /\ TableNow \in [Slots -> Order \cup {Empty}]
  BY <1>1, UpdateView
<1>3. /\ b[op.ref] # Gone /\ b[op.ref] \in Quote /\ op.sym = b[op.ref].sym
      /\ ref_rd_data = [ref |-> op.ref, price |-> b[op.ref].price,
                        shares |-> b[op.ref].shares, side |-> b[op.ref].side]
      /\ MatchVec = LevelsAt(op.sym, ref_rd_data.side, ref_rd_data.price)
      /\ ref_rd_data.side \in Sides
  BY <1>1, UpdateView
<1>4. a[op.ref] = Gone /\ \A r \in Refs \ {op.ref} : a[r] = b[r]
  BY <1>2 DEF View, Left
<1>5. TableHolds(a)' /\ AtBase'
  <2>1. EntryIn(a, op.ref) = Empty
    BY <1>4 DEF EntryIn
  <2>2. TableNow' = [TableNow EXCEPT ![Hash[op.ref]] = EntryIn(a, op.ref)]
    BY <1>1, <1>2, <2>1, NowWritten DEF IInv
  <2> QED
    BY <1>1, <1>2, <1>4, <2>2, TableAfter DEF BookInv
<1>6. QuotesBacked(a)'
  <2> SUFFICES ASSUME NEW y \in Symbols, NEW s \in Sides, bbo'[<<y, s>>].price # 0
               PROVE  \E r \in OrdersAt(a, y, s, bbo'[<<y, s>>].price) : a[r].shares > 0
    BY DEF QuotesBacked, OrdersAt
  <2>1. /\ bbo'[<<y, s>>] = bbo[<<y, s>>]
        /\ ~(/\ y = op.sym /\ s = ref_rd_data.side
             /\ bbo[<<y, s>>].price = ref_rd_data.price)
    <3> DEFINE gone == /\ y = op.sym /\ s = ref_rd_data.side
                       /\ bbo[<<y, s>>].price = ref_rd_data.price
    <3>1. gone => DropQuote(bbo)[<<y, s>>] = NoLevel
      BY <1>1, DropQuoteAt
    <3>2. ~gone => DropQuote(bbo)[<<y, s>>] = bbo[<<y, s>>]
      BY <1>1, DropQuoteAt
    <3>3. NoLevel.price = 0
      BY DEF NoLevel
    <3> QED
      BY <3>1, <3>2, <3>3
  <2>2. PICK r \in OrdersAt(b, y, s, bbo[<<y, s>>].price) : b[r].shares > 0
    BY <2>1 DEF Agrees, QuotesBacked
  <2>3. r # op.ref
    BY <1>3, <2>1, <2>2 DEF OrdersAt
  <2> QED
    BY <1>4, <2>1, <2>2, <2>3 DEF OrdersAt
<1>7. LevelsHeld(a)'
  <2> SUFFICES ASSUME NEW y \in Symbols, NEW s \in Sides, NEW p \in Prices
               PROVE  Cardinality(LevelsAt(y, s, p)') <= Cardinality(OrdersAt(a, y, s, p))
    BY DEF LevelsHeld, OrdersAt, LevelsAt
  <2>1. OrdersAt(b, y, s, p) \ {op.ref} \subseteq OrdersAt(a, y, s, p)
    BY <1>4 DEF OrdersAt
  <2>2. Cardinality(LevelsAt(y, s, p)) <= Cardinality(OrdersAt(b, y, s, p))
    BY DEF Agrees, LevelsHeld
  <2>3. /\ IsFiniteSet(LevelsAt(y, s, p)) /\ IsFiniteSet(OrdersAt(b, y, s, p))
        /\ IsFiniteSet(OrdersAt(a, y, s, p))
    BY FiniteBook
  <2>4. NoLevel \in Level /\ NoLevel.price # p
    BY NoLevelType, PriceAssumption DEF NoLevel
  <2>5. \A z \in Symbols, c \in Sides, k \in Levels :
          SetLevel(book_mem, ref_rd_data.side, NoLevel)[<<z, c>>][k] =
            IF MatchVec # {} /\ z = op.sym /\ c = ref_rd_data.side /\ k = TargetLevel
              THEN NoLevel ELSE book_mem[<<z, c>>][k]
    <3> HIDE DEF Sides, Levels
    <3> QED
      <4>1. /\ op \in Message /\ book_mem \in BookType
            /\ ref_rd_data.side \in Sides /\ NoLevel \in Level
        BY <1>2, <1>3, <2>4
      <4> QED
        BY <4>1, SetLevelAll, Zenon
  <2>6. LevelsAt(y, s, p)' \subseteq LevelsAt(y, s, p)
    BY <2>4, <2>5 DEF LevelsAt
  <2>7. CASE y = op.sym /\ s = ref_rd_data.side /\ p = ref_rd_data.price
    <3>1. op.ref \in OrdersAt(b, y, s, p)
      BY <1>2, <1>3, <2>7 DEF OrdersAt
    <3>2. LevelsAt(y, s, p) = MatchVec
      BY <1>3, <2>7
    <3>3. CASE MatchVec = {}
      <4>1. LevelsAt(y, s, p)' = {}
        BY <2>6, <3>2, <3>3
      <4> QED
        BY <2>1, <2>2, <2>3, <3>1, <4>1, CountRemove
    <3>4. CASE MatchVec # {}
      <4>1. TargetLevel \in LevelsAt(y, s, p)
        BY <3>2, <3>4, TargetMatches
      <4>2. LevelsAt(y, s, p)' \subseteq LevelsAt(y, s, p) \ {TargetLevel}
        BY <2>4, <2>5, <2>6, <2>7, <3>4 DEF LevelsAt
      <4> QED
        BY <2>1, <2>2, <2>3, <3>1, <4>1, <4>2, CountRemove
    <3> QED
      BY <3>3, <3>4
  <2>8. CASE ~(y = op.sym /\ s = ref_rd_data.side /\ p = ref_rd_data.price)
    <3>1. op.ref \notin OrdersAt(b, y, s, p)
      BY <1>3, <2>8 DEF OrdersAt
    <3> QED
      BY <2>1, <2>2, <2>3, <2>6, <3>1, CountSame
  <2> QED
    BY <2>7, <2>8
<1> QED
  BY <1>5, <1>6, <1>7 DEF Agrees

\* A Replace: the new order enters its base slot and takes the old one's level;
\* the old entry waits for S_UPDATE2.
LEMMA MovedAgrees ==
  ASSUME Spread, BookInv, UpdateReplace, live' = live,
         NEW b \in View, NEW a \in View, a = live, Leads(b, op, a), Agrees(b)
  PROVE  Agrees(a)' /\ AtBase' /\ Replacing'
<1>1. /\ state = "UPDATE" /\ state' = "UPDATE2" /\ ~IsAdd /\ IInv
      /\ op' = op /\ ref_rd_data' = ref_rd_data
      /\ Tick(Write(Hash[op.new_ref], OpOrder(op.new_ref)), bbo_valid')
      /\ book_mem' = SetLevel(SetLevel(book_mem, ref_rd_data.side, NoLevel), op.side, OpLevel)
      /\ bbo' = RaiseQuote(DropQuote(bbo))
  BY DEF UpdateReplace, Update, BookInv, IsAdd, Tick
<1>2. /\ op \in Message /\ op.ref \in Refs /\ op.new_ref \in Refs /\ op.side \in Sides
      /\ Hash[op.ref] \in Slots /\ Hash[op.new_ref] \in Slots
      /\ book_mem \in BookType /\ bbo \in QuotesType
      /\ \A r \in Refs : TableNow[Hash[r]] = EntryIn(b, r)
      /\ TableNow \in [Slots -> Order \cup {Empty}]
  BY <1>1, UpdateView, UpdateFacts, FirstSlot
<1>3. /\ b[op.ref] # Gone /\ op.sym = b[op.ref].sym
      /\ ref_rd_data = [ref |-> op.ref, price |-> b[op.ref].price,
                        shares |-> b[op.ref].shares, side |-> b[op.ref].side]
      /\ MatchVec = LevelsAt(op.sym, ref_rd_data.side, ref_rd_data.price)
      /\ ref_rd_data.side \in Sides
  BY <1>1, UpdateView
<1>4. /\ b[op.new_ref] = Gone /\ op.shares > 0 /\ ref_rd_data.side = op.side
      /\ a = [b EXCEPT ![op.ref] = Gone, ![op.new_ref] = QuoteOf(op)]
  BY <1>1, <1>3 DEF UpdateReplace, Leads, Entered, Shrunk, Left, Moved
<1>5. /\ op.ref # op.new_ref /\ a[op.ref] = Gone /\ a[op.new_ref] = QuoteOf(op)
      /\ \A r \in Refs \ {op.ref, op.new_ref} : a[r] = b[r]
  BY <1>2, <1>3, <1>4 DEF View
<1>6. QuoteOf(op) # Gone /\ QuoteOf(op).price = op.price /\ QuoteOf(op).shares = op.shares
      /\ QuoteOf(op).side = op.side /\ QuoteOf(op).sym = op.sym
  BY <1>2, GoneAssumption DEF QuoteOf, Quote, Message
<1>7. OpOrder(op.new_ref) = EntryIn(a, op.new_ref) /\ OpOrder(op.new_ref).ref = op.new_ref
  BY <1>5, <1>6 DEF EntryIn, OpOrder
<1>8. TableNow' = [TableNow EXCEPT ![Hash[op.new_ref]] = OpOrder(op.new_ref)]
  BY <1>1, <1>2, NowWritten, OpOrderType DEF IInv
<1>9. TableHolds(a)'
  <2> SUFFICES ASSUME NEW r \in Refs
               PROVE  TableNow'[Hash[r]] = IF r = op.ref THEN ref_rd_data ELSE EntryIn(a, r)
    BY <1>1 DEF TableHolds, EntryIn
  <2>1. Hash[r] \in Slots /\ (r # op.new_ref => Hash[r] # Hash[op.new_ref])
    BY <1>2, FirstSlot DEF Spread
  <2>2. CASE r = op.new_ref
    BY <1>2, <1>5, <1>7, <1>8, <2>1, <2>2
  <2>3. CASE r = op.ref
    BY <1>2, <1>3, <1>5, <1>8, <2>1, <2>3 DEF EntryIn
  <2>4. CASE r # op.ref /\ r # op.new_ref
    <3>1. EntryIn(a, r) = EntryIn(b, r)
      BY <1>5, <2>4 DEF EntryIn
    <3> QED
      BY <1>2, <1>8, <2>1, <2>4, <3>1
  <2> QED
    BY <2>2, <2>3, <2>4
<1>10. AtBase'
  <2>1. \A s \in Slots : TableNow'[s] # Empty => s = Hash[TableNow'[s].ref]
    BY <1>2, <1>7, <1>8 DEF BookInv, AtBase
  <2> QED
    BY <2>1 DEF AtBase
<1>11. Replacing'
  <2>1. ref_rd_data # Empty /\ ref_rd_data.ref = op.ref
    BY <1>1, UpdateFacts, EmptyAssumption
  <2> QED
    BY <1>1, <1>5, <2>1 DEF Replacing
<1>12. QuotesBacked(a)'
  <2> SUFFICES ASSUME NEW y \in Symbols, NEW s \in Sides, bbo'[<<y, s>>].price # 0
               PROVE  \E r \in OrdersAt(a, y, s, bbo'[<<y, s>>].price) : a[r].shares > 0
    BY DEF QuotesBacked, OrdersAt
  <2>1. CASE y = op.sym /\ s = op.side /\ bbo'[<<y, s>>].price = op.price
    BY <1>2, <1>4, <1>5, <1>6, <2>1 DEF OrdersAt
  <2>2. CASE bbo'[<<y, s>>] = DropQuote(bbo)[<<y, s>>]
    <3> DEFINE gone == /\ y = op.sym /\ s = ref_rd_data.side
                       /\ bbo[<<y, s>>].price = ref_rd_data.price
    <3>1. gone => DropQuote(bbo)[<<y, s>>] = NoLevel
      BY <1>1, DropQuoteAt
    <3>2. ~gone => DropQuote(bbo)[<<y, s>>] = bbo[<<y, s>>]
      BY <1>1, DropQuoteAt
    <3>3. ~gone /\ bbo'[<<y, s>>] = bbo[<<y, s>>]
      BY <2>2, <3>1, <3>2 DEF NoLevel
    <3>4. PICK r \in OrdersAt(b, y, s, bbo[<<y, s>>].price) : b[r].shares > 0
      BY <3>3 DEF Agrees, QuotesBacked
    <3>5. r # op.ref /\ r # op.new_ref
      BY <1>3, <1>4, <3>3, <3>4 DEF OrdersAt
    <3> QED
      BY <1>5, <3>3, <3>4, <3>5 DEF OrdersAt
  <2>3. DropQuote(bbo) \in QuotesType
    BY <1>2, DropQuoteType
  <2> QED
    BY <1>1, <2>1, <2>2, <2>3, RaiseQuoteAt
<1>13. LevelsHeld(a)'
  <2> SUFFICES ASSUME NEW y \in Symbols, NEW s \in Sides, NEW p \in Prices
               PROVE  Cardinality(LevelsAt(y, s, p)') <= Cardinality(OrdersAt(a, y, s, p))
    BY DEF LevelsHeld, OrdersAt, LevelsAt
  <2> DEFINE A == OrdersAt(b, y, s, p)
             B == OrdersAt(a, y, s, p)
             L == LevelsAt(y, s, p)
             M == {k \in Levels : book_mem'[<<y, s>>][k].price = p}
             here == y = op.sym /\ s = op.side
             old == here /\ p = ref_rd_data.price
             new == here /\ p = op.price
  <2>1. /\ op.new_ref \notin A /\ A \ {op.ref} \subseteq B
        /\ old => op.ref \in A
        /\ ~old => op.ref \notin A
        /\ new => op.new_ref \in B
    BY <1>2, <1>3, <1>4, <1>5, <1>6 DEF OrdersAt
  <2>2. Cardinality(L) <= Cardinality(A)
    BY DEF Agrees, LevelsHeld
  <2>3. IsFiniteSet(L) /\ IsFiniteSet(A) /\ IsFiniteSet(B)
    BY FiniteBook
  <2>4. /\ NoLevel \in Level /\ NoLevel.price # p
        /\ OpLevel \in Level /\ OpLevel.price = op.price
    BY <1>2, NoLevelType, OpOrderType, PriceAssumption DEF NoLevel, OpLevel
  <2>5. \A z \in Symbols, c \in Sides, k \in Levels :
          SetLevel(book_mem, ref_rd_data.side, NoLevel)[<<z, c>>][k] =
            IF MatchVec # {} /\ z = op.sym /\ c = ref_rd_data.side /\ k = TargetLevel
              THEN NoLevel ELSE book_mem[<<z, c>>][k]
    <3> HIDE DEF Sides, Levels
    <3> QED
      <4>1. /\ op \in Message /\ book_mem \in BookType
            /\ ref_rd_data.side \in Sides /\ NoLevel \in Level
        BY <1>2, <1>3, <2>4
      <4> QED
        BY <4>1, SetLevelAll, Zenon
  <2>6. \A z \in Symbols, c \in Sides, k \in Levels :
          book_mem'[<<z, c>>][k] =
            IF MatchVec # {} /\ z = op.sym /\ c = op.side /\ k = TargetLevel
              THEN OpLevel ELSE book_mem[<<z, c>>][k]
    <3>1. SetLevel(book_mem, ref_rd_data.side, NoLevel) \in BookType
      BY <1>2, <1>3, <2>4, SetLevelType
    <3>2. \A z \in Symbols, c \in Sides, k \in Levels :
            SetLevel(SetLevel(book_mem, ref_rd_data.side, NoLevel), op.side, OpLevel)[<<z, c>>][k] =
              IF MatchVec # {} /\ z = op.sym /\ c = op.side /\ k = TargetLevel
                THEN OpLevel ELSE SetLevel(book_mem, ref_rd_data.side, NoLevel)[<<z, c>>][k]
      <4> HIDE DEF Sides, Levels
      <4> QED
        <5>1. /\ op \in Message /\ SetLevel(book_mem, ref_rd_data.side, NoLevel) \in BookType
              /\ op.side \in Sides /\ OpLevel \in Level
          BY <1>2, <2>4, <3>1
        <5> QED
          BY <5>1, SetLevelAll, Zenon
    <3> DEFINE freed == SetLevel(book_mem, ref_rd_data.side, NoLevel)
    <3>3. book_mem' = SetLevel(freed, op.side, OpLevel)
      BY <1>1
    <3>4. ref_rd_data.side = op.side
      BY <1>4
    <3> HIDE DEF Sides, Levels, freed
    <3>5. \A z \in Symbols, c \in Sides, k \in Levels :
            ~(MatchVec # {} /\ z = op.sym /\ c = op.side /\ k = TargetLevel) =>
              book_mem'[<<z, c>>][k] = book_mem[<<z, c>>][k]
      BY <2>5, <3>2, <3>3, <3>4 DEF freed
    <3>6. \A z \in Symbols, c \in Sides, k \in Levels :
            MatchVec # {} /\ z = op.sym /\ c = op.side /\ k = TargetLevel =>
              book_mem'[<<z, c>>][k] = OpLevel
      BY <3>2, <3>3 DEF freed
    <3> QED
      BY <3>5, <3>6
  <2>7. old => L = MatchVec
    BY <1>3, <1>4
  <2>8. MatchVec # {} => /\ TargetLevel \in Levels
                         /\ book_mem[<<op.sym, op.side>>][TargetLevel].price = ref_rd_data.price
    BY <1>3, <1>4, TargetMatches DEF LevelsAt
  <2>9. \A k \in M : k \in L \/ (new /\ k = TargetLevel)
    <3> SUFFICES ASSUME NEW k \in M PROVE k \in L \/ (new /\ k = TargetLevel)
      OBVIOUS
    <3>1. k \in Levels /\ book_mem'[<<y, s>>][k].price = p
      OBVIOUS
    <3>2. CASE MatchVec # {} /\ y = op.sym /\ s = op.side /\ k = TargetLevel
      <4>1. book_mem'[<<y, s>>][k] = OpLevel
        BY <2>6, <3>1, <3>2, Zenon
      <4> QED
        BY <2>4, <3>1, <3>2, <4>1, Zenon
    <3>3. CASE ~(MatchVec # {} /\ y = op.sym /\ s = op.side /\ k = TargetLevel)
      <4>1. book_mem'[<<y, s>>][k] = book_mem[<<y, s>>][k]
        BY <2>6, <3>1, <3>3, Zenon
      <4> QED
        BY <3>1, <4>1, Zenon DEF LevelsAt
    <3> QED
      BY <3>2, <3>3, Zenon
  <2>10. old /\ ~new => \A k \in M : k # TargetLevel \/ MatchVec = {}
    BY <2>4, <2>6
  <2>11. LevelsAt(y, s, p)' = M
    BY DEF LevelsAt
  <2>12. old => (MatchVec # {} => TargetLevel \in L)
    BY <2>7, TargetMatches
  <2> SUFFICES Cardinality(M) <= Cardinality(B)
    BY <2>11
  <2> HIDE DEF A, B, L, M, here
  <2>13. CASE old /\ new
    <3>1. M \subseteq L
      <4>1. ASSUME NEW k \in M, k \notin L PROVE FALSE
        <5>1. k = TargetLevel /\ MatchVec = {}
          BY <2>9, <2>12, <2>13, <4>1
        <5>2. k \in Levels /\ book_mem'[<<y, s>>][k] = book_mem[<<y, s>>][k]
          BY <2>6, <5>1 DEF M
        <5> QED
          BY <4>1, <5>2 DEF M, L, LevelsAt
      <4> QED
        BY <4>1
    <3>2. (A \ {op.ref}) \cup {op.new_ref} \subseteq B
      BY <2>1, <2>13
    <3> QED
      BY <2>1, <2>2, <2>3, <2>13, <3>1, <3>2, CountMove
  <2>14. CASE old /\ ~new
    <3>1. M = {} \/ (TargetLevel \in L /\ M \subseteq L \ {TargetLevel})
      BY <2>7, <2>9, <2>10, <2>12, <2>14
    <3> QED
      BY <2>1, <2>2, <2>3, <2>14, <3>1, CountRemove
  <2>15. CASE ~old /\ new
    <3>1. M \subseteq L \cup {TargetLevel}
      BY <2>9
    <3>2. A \cup {op.new_ref} \subseteq B
      BY <2>1, <2>15
    <3> QED
      BY <2>1, <2>2, <2>3, <3>1, <3>2, CountAdd
  <2>16. CASE ~old /\ ~new
    <3>1. M \subseteq L /\ A \subseteq B
      BY <2>1, <2>9, <2>16
    <3> QED
      BY <2>2, <2>3, <3>1, CountSame
  <2> QED
    BY <2>13, <2>14, <2>15, <2>16
<1> QED
  BY <1>9, <1>10, <1>11, <1>12, <1>13 DEF Agrees

LEMMA UpdateStep ==
  ASSUME Spread, BookInv, UNCHANGED <<live, used, had_reset>>, IInv', ProbeInv',
         UpdateAdd \/ UpdateCancel \/ UpdateDelete \/ UpdateExecute \/ UpdateReplace
  PROVE  BookInv'
<1>1. /\ state = "UPDATE" /\ state' \in {"DONE", "UPDATE2"} /\ IInv
      /\ op' = op /\ probe_cnt' = probe_cnt /\ ref_rd_addr' = ref_rd_addr
  BY DEF UpdateAdd, UpdateCancel, UpdateDelete, UpdateExecute, UpdateReplace, Update, BookInv
<1>2. PICK b \in View : Leads(b, op, live) /\ Agrees(b)
  BY <1>1 DEF BookInv, Agreement, Settled
<1>3. PICK a \in View : a = live
  BY DEF BookInv, Known
<1>4. Leads(b, op, a)
  BY <1>2, <1>3
<1>5. Known' /\ FirstProbe' /\ Fetched'
  BY <1>1 DEF BookInv, Known, FirstProbe, Fetched
<1>6. ASSUME Agrees(a)', AtBase', Replacing'
      PROVE  BookInv'
  <2>1. Agreement'
    BY <1>1, <1>3, <1>6 DEF Agreement, Settled
  <2> QED
    BY <1>5, <1>6, <2>1 DEF BookInv
<1>7. ASSUME ~UpdateAdd, ~UpdateReplace
      PROVE  /\ ref_rd_data.shares = b[op.ref].shares
             /\ op.shares \in Nat /\ b[op.ref].shares \in Nat
             /\ NewShares = IF b[op.ref].shares > op.shares THEN b[op.ref].shares - op.shares ELSE 0
             /\ state' = "DONE" /\ ~IsAdd /\ op.type # "U"
  <2>1. ~IsAdd /\ op.type # "U" /\ state' = "DONE"
    BY <1>7 DEF UpdateCancel, UpdateDelete, UpdateExecute, Update, IsAdd
  <2>2. op \in Message /\ b[op.ref] \in Quote /\ ref_rd_data.shares = b[op.ref].shares
    BY <1>1, <1>2, <2>1, UpdateView
  <2>3. op.shares \in Nat /\ b[op.ref].shares \in Nat
    BY <2>2, TableAssumption DEF Message, Quote
  <2> QED
    BY <2>1, <2>2, <2>3 DEF NewShares
<1>8. CASE UpdateAdd
  <2>1. Agrees(a)' /\ AtBase'
    BY <1>2, <1>3, <1>4, <1>8, AddAgrees
  <2>2. Replacing'
    BY <1>8 DEF UpdateAdd, Update, Replacing
  <2> QED
    BY <1>6, <2>1, <2>2
<1>9. CASE UpdateReplace
  BY <1>2, <1>3, <1>4, <1>6, <1>9, MovedAgrees
<1>10. CASE UpdateCancel
  <2>1. /\ ~UpdateAdd /\ ~UpdateReplace /\ state' = "DONE" /\ op.type = "X"
        /\ Tick(Write(ref_rd_addr, Reduced), bbo_valid')
        /\ book_mem' = SetLevel(book_mem, ref_rd_data.side, ReducedLevel)
        /\ bbo' = IF NewShares = 0 THEN DropQuote(bbo) ELSE bbo
    BY <1>10 DEF UpdateAdd, UpdateCancel, UpdateReplace, Update, Tick
  <2>2. Shrunk(b, op, a)
    BY <1>4, <2>1 DEF Leads, Entered, Left, Moved
  <2>3. Agrees(a)' /\ AtBase'
    BY <1>1, <1>2, <1>3, <2>1, <2>2, ShrunkAgrees
  <2> QED
    BY <1>6, <2>1, <2>3 DEF Replacing
<1>11. CASE UpdateDelete
  <2>1. /\ ~UpdateAdd /\ ~UpdateReplace /\ state' = "DONE" /\ op.type = "D"
        /\ Tick(Write(ref_rd_addr, Empty), bbo_valid')
        /\ book_mem' = SetLevel(book_mem, ref_rd_data.side, NoLevel)
        /\ bbo' = DropQuote(bbo)
    BY <1>11 DEF UpdateAdd, UpdateDelete, UpdateReplace, Update, Tick
  <2>2. Left(b, op, a)
    BY <1>4, <2>1 DEF Leads, Entered, Shrunk, Moved
  <2>3. Agrees(a)' /\ AtBase'
    BY <1>1, <1>2, <1>3, <2>1, <2>2, LeftAgrees
  <2> QED
    BY <1>6, <2>1, <2>3 DEF Replacing
<1>12. CASE UpdateExecute /\ NewShares = 0
  <2>1. /\ ~UpdateAdd /\ ~UpdateReplace /\ state' = "DONE" /\ op.type \in Executes
        /\ Tick(Write(ref_rd_addr, Empty), bbo_valid')
        /\ book_mem' = SetLevel(book_mem, ref_rd_data.side, NoLevel)
        /\ bbo' = DropQuote(bbo)
    BY <1>12 DEF UpdateAdd, UpdateExecute, UpdateReplace, Update, Tick
  <2>2. ~Shrunk(b, op, a)
    <3>1. ~(op.shares < b[op.ref].shares)
      BY <1>7, <1>12, <2>1
    <3> QED
      BY <2>1, <3>1 DEF Shrunk
  <2>3. Left(b, op, a)
    BY <1>4, <2>1, <2>2 DEF Leads, Entered, Moved
  <2>4. Agrees(a)' /\ AtBase'
    BY <1>1, <1>2, <1>3, <2>1, <2>3, LeftAgrees
  <2> QED
    BY <1>6, <2>1, <2>4 DEF Replacing
<1>13. CASE UpdateExecute /\ NewShares # 0
  <2>1. /\ ~UpdateAdd /\ ~UpdateReplace /\ state' = "DONE" /\ op.type \in Executes
        /\ Tick(Write(ref_rd_addr, Reduced), bbo_valid')
        /\ book_mem' = SetLevel(book_mem, ref_rd_data.side, ReducedLevel)
        /\ bbo' = IF NewShares = 0 THEN DropQuote(bbo) ELSE bbo
    BY <1>13 DEF UpdateAdd, UpdateExecute, UpdateReplace, Update, Tick
  <2>2. ~Left(b, op, a)
    <3>1. op.shares # b[op.ref].shares
      BY <1>7, <1>13, <2>1
    <3> QED
      BY <2>1, <3>1 DEF Left
  <2>3. Shrunk(b, op, a)
    BY <1>4, <2>1, <2>2 DEF Leads, Entered, Moved
  <2>4. Agrees(a)' /\ AtBase'
    BY <1>1, <1>2, <1>3, <2>1, <2>3, ShrunkAgrees
  <2> QED
    BY <1>6, <2>1, <2>4 DEF Replacing
<1> QED
  BY <1>8, <1>9, <1>10, <1>11, <1>12, <1>13

\* S_UPDATE2: the replaced order's entry goes, as the exchange has it.
LEMMA ClearStep ==
  ASSUME Spread, BookInv, Update2, UNCHANGED <<live, used, had_reset>>, IInv', ProbeInv'
  PROVE  BookInv'
<1>1. /\ state = "UPDATE2" /\ state' = "DONE" /\ op' = op /\ probe_cnt' = probe_cnt
      /\ ref_rd_addr' = ref_rd_addr
      /\ Tick(Write(ref_rd_addr, Empty), bbo_valid') /\ UNCHANGED <<book_mem, bbo>>
  BY DEF Update2, Tick
<1>2. PICK b \in View : b = live /\ Agrees(b)
  BY <1>1 DEF BookInv, Agreement, Settled
<1>3. /\ op.ref \in Refs /\ Hash[op.ref] \in Slots /\ ref_rd_addr = Hash[op.ref]
      /\ b[op.ref] = Gone
  BY <1>1, <1>2, FirstSlot DEF BookInv, IInv, FsmOK, Message, FirstProbe, Replacing
<1>4. /\ TableNow' = [TableNow EXCEPT ![Hash[op.ref]] = Empty]
      /\ TableNow \in [Slots -> Order \cup {Empty}]
  BY <1>1, <1>3, NowWritten DEF BookInv, IInv
<1>5. TableHolds(b)'
  <2> SUFFICES ASSUME NEW r \in Refs PROVE TableNow'[Hash[r]] = EntryIn(b, r)
    BY <1>1 DEF TableHolds, EntryIn
  <2>1. Hash[r] \in Slots /\ (r # op.ref => Hash[r] # Hash[op.ref])
    BY <1>3, FirstSlot DEF Spread
  <2>2. CASE r = op.ref
    BY <1>3, <1>4, <2>2 DEF EntryIn
  <2>3. CASE r # op.ref
    <3>1. TableNow[Hash[r]] = EntryIn(b, r)
      BY <1>2, <2>3 DEF Agrees, TableHolds
    <3> QED
      BY <1>3, <1>4, <2>1, <2>3, <3>1
  <2> QED
    BY <2>2, <2>3
<1>6. AtBase'
  <2>1. \A s \in Slots : TableNow'[s] # Empty => s = Hash[TableNow'[s].ref]
    BY <1>3, <1>4 DEF BookInv, AtBase
  <2> QED
    BY <2>1 DEF AtBase
<1>7. Agrees(b)'
  BY <1>1, <1>2, <1>5, BookKept DEF Agrees
<1>8. Agreement'
  BY <1>1, <1>2, <1>7 DEF Agreement, Settled
<1> QED
  BY <1>1, <1>6, <1>8 DEF BookInv, Known, FirstProbe, Fetched, Replacing

LEMMA BookInit == FeedInit /\ Spread => BookInv
<1> SUFFICES ASSUME FeedInit, Spread PROVE BookInv
  OBVIOUS
<1> USE DEF FeedInit
<1>1. IInv /\ ProbeInv
  BY InitIInv, ProbeInit
<1>2. live \in View /\ Known
  BY DEF View, Known
<1>3. TableNow = [s \in Slots |-> Empty]
  BY DEF Init, TableNow, Written, NoWrite
<1>4. AtBase /\ FirstProbe /\ Fetched /\ Replacing
  BY <1>3 DEF AtBase, FirstProbe, Fetched, Replacing, Init
<1>5. PICK b \in View : b = live
  BY <1>2
<1>6. b = [r \in Refs |-> Gone] /\ state = "IDLE"
  BY <1>5 DEF Init
<1>7. TableHolds(b)
  BY <1>3, <1>6, FirstSlot DEF TableHolds, EntryIn
<1>8. QuotesBacked(b)
  BY DEF Init, NoLevel, QuotesBacked
<1>9. LevelsHeld(b)
  <2> SUFFICES ASSUME NEW y \in Symbols, NEW s \in Sides, NEW p \in Prices
               PROVE  Cardinality(LevelsAt(y, s, p)) <= Cardinality(OrdersAt(b, y, s, p))
    BY DEF LevelsHeld
  <2>1. LevelsAt(y, s, p) = {}
    BY PriceAssumption DEF Init, NoLevel, LevelsAt
  <2>2. Cardinality(OrdersAt(b, y, s, p)) \in Nat
    BY FiniteBook, FS_CardinalityType
  <2> QED
    BY <2>1, <2>2, FS_EmptySet
<1> QED
  BY <1>1, <1>2, <1>4, <1>5, <1>6, <1>7, <1>8, <1>9 DEF BookInv, Agreement, Settled, Agrees

LEMMA BookStep == Spread /\ BookInv /\ [FeedNext]_feedVars => BookInv'
<1> SUFFICES ASSUME Spread, BookInv, [FeedNext]_feedVars PROVE BookInv'
  OBVIOUS
<1>1. [Next]_vars
  BY DEF FeedNext, feedVars, Feed, FeedReset, Next
<1>2. IInv' /\ ProbeInv'
  BY <1>1, NextIInv, ProbeStep DEF BookInv
<1>3. CASE UNCHANGED feedVars
  <2>1. UNCHANGED <<live, used, had_reset>> /\ UNCHANGED vars
    BY <1>3 DEF feedVars
  <2>2. TableNow' = TableNow /\ Settled' = Settled
    BY <2>1 DEF vars, TableNow, Written, Settled
  <2>3. AtBase' /\ Known' /\ FirstProbe' /\ Fetched' /\ Replacing'
    BY <2>1, <2>2 DEF vars, BookInv, AtBase, Known, FirstProbe, Fetched, Replacing
  <2>4. PICK b \in View : /\ IF Settled THEN b = live ELSE Leads(b, op, live)
                          /\ Agrees(b)
    BY DEF BookInv, Agreement
  <2>5. Agrees(b)'
    <3>1. TableHolds(b)'
      BY <2>1, <2>2, <2>4 DEF vars, Agrees, TableHolds, EntryIn
    <3> QED
      BY <2>1, <2>4, <3>1, BookKept DEF vars, Agrees
  <2>6. IF Settled' THEN b = live' ELSE Leads(b, op, live)'
    BY <2>1, <2>2, <2>4 DEF vars, Leads, Entered, Shrunk, Left, Moved, QuoteOf
  <2> QED
    BY <1>2, <2>3, <2>5, <2>6 DEF BookInv, Agreement
<1>4. CASE \E m \in Msgs : Feed(m)
  BY <1>2, <1>4, FeedStep
<1>5. CASE (Idle \/ Busy) /\ UNCHANGED <<live, used, had_reset>>
  BY <1>2, <1>5, ReadStep, UpdateStep, ClearStep DEF Busy
<1> QED
  BY <1>3, <1>4, <1>5 DEF FeedNext, FeedReset, Spread

LEMMA BookInvariance ==
  ASSUME Spread
  PROVE  FeedSpec => []BookInv
<1>1. FeedInit => BookInv
  BY BookInit
<1>2. BookInv /\ [FeedNext]_feedVars => BookInv'
  BY BookStep
<1> QED
  BY <1>1, <1>2, PTL DEF FeedSpec

\* When the book is ready its table holds the exchange's live orders, each with
\* its remaining shares, and nothing else.
THEOREM TableFollowsFeed ==
  ASSUME Spread
  PROVE  FeedSpec => []TableIsLive
<1>1. BookInv => TableIsLive
  <2> SUFFICES ASSUME BookInv, state = "IDLE", NEW r \in Refs
               PROVE  {TableNow[s] : s \in Holds(r)} =
                      IF live[r] = Gone THEN {} ELSE {Entry(r)}
    BY DEF TableIsLive
  <2>1. TableHolds(live)
    BY DEF BookInv, Agreement, Agrees, Settled
  <2>2. TableNow[Hash[r]] = EntryIn(live, r) /\ Hash[r] \in Slots
    BY <2>1, FirstSlot DEF TableHolds
  <2>3. Holds(r) \subseteq {Hash[r]}
    BY DEF BookInv, AtBase, Holds
  <2>4. live[r] # Gone => EntryIn(live, r) = Entry(r) /\ Entry(r).ref = r /\ Entry(r) # Empty
    <3>1. live[r] # Gone => Entry(r) \in Order
      BY DEF BookInv, Known, View, Quote, Entry, Order
    <3> QED
      BY <3>1, EmptyAssumption DEF EntryIn, Entry
  <2>5. live[r] = Gone => EntryIn(live, r) = Empty
    BY DEF EntryIn
  <2> QED
    BY <2>2, <2>3, <2>4, <2>5 DEF Holds
<1> QED
  BY <1>1, BookInvariance, PTL

\* Every quoted price is the price of an order with shares left that is live at
\* the exchange, on that side of that symbol.
THEOREM QuotesAreLive ==
  ASSUME Spread
  PROVE  FeedSpec => []NoGhostQuote
<1>1. BookInv => NoGhostQuote
  <2> SUFFICES ASSUME BookInv, state = "IDLE", NEW y \in Symbols, NEW s \in Sides,
                      bbo[<<y, s>>].price # 0
               PROVE  \E r \in Refs : live[r] # Gone /\ live[r].sym = y /\ live[r].side = s
                        /\ live[r].price = bbo[<<y, s>>].price /\ live[r].shares > 0
    BY DEF NoGhostQuote
  <2>1. QuotesBacked(live)
    BY DEF BookInv, Agreement, Agrees, Settled
  <2>2. PICK r \in OrdersAt(live, y, s, bbo[<<y, s>>].price) : live[r].shares > 0
    BY <2>1 DEF QuotesBacked
  <2> QED
    BY <2>2 DEF OrdersAt
<1> QED
  BY <1>1, BookInvariance, PTL

\* No price occupies more levels than there are live orders at it, however many
\* levels, orders and messages there are.
THEOREM LevelsAreLive ==
  ASSUME Spread
  PROVE  FeedSpec => []LevelsBacked
<1>1. BookInv => LevelsBacked
  <2> SUFFICES ASSUME BookInv, state = "IDLE", NEW y \in Symbols, NEW s \in Sides, NEW p \in Prices
               PROVE  Cardinality(LevelsAt(y, s, p)) <= Cardinality(OrdersAt(live, y, s, p))
    BY DEF LevelsBacked, LevelsAt, OrdersAt
  <2>1. LevelsHeld(live)
    BY DEF BookInv, Agreement, Agrees, Settled
  <2> QED
    BY <2>1 DEF LevelsHeld
<1> QED
  BY <1>1, BookInvariance, PTL

-----------------------------------------------------------------------------
(* The table implements OrderMap.                                          *)

OrdersIn(b) == [r \in Refs |-> IF b[r] = Gone THEN Gone ELSE MapEntry(b[r])]

\* What is visible in the table is the view the book agrees with.
LEMMA VisibleView ==
  ASSUME Spread, BookInv, NEW b \in View, Agrees(b),
         state = "UPDATE2" => b = live
  PROVE  TableOrders = OrdersIn(b)
<1> SUFFICES ASSUME NEW r \in Refs
             PROVE  (IF Visible(r) = {} THEN Gone
                     ELSE MapEntry(TableNow[CHOOSE s \in Visible(r) : TRUE])) =
                    IF b[r] = Gone THEN Gone ELSE MapEntry(b[r])
  BY DEF TableOrders, OrdersIn
<1>1. Holds(r) \subseteq {Hash[r]} /\ Hash[r] \in Slots
  BY FirstSlot DEF BookInv, AtBase, Holds
<1>2. b[r] # Gone => EntryIn(b, r) \in Order /\ EntryIn(b, r).ref = r
                     /\ MapEntry(EntryIn(b, r)) = MapEntry(b[r])
  BY DEF View, Quote, EntryIn, Order, MapEntry
<1>3. state = "UPDATE2" /\ r = op.ref => b[r] = Gone /\ Visible(r) = {}
  BY <1>1 DEF BookInv, Replacing, FirstProbe, Visible
<1>4. ASSUME ~(state = "UPDATE2" /\ r = op.ref)
      PROVE  TableNow[Hash[r]] = EntryIn(b, r) /\ Visible(r) = Holds(r)
  <2>1. state = "UPDATE2" => ref_rd_addr = Hash[op.ref] /\ op.ref \in Refs
    BY DEF BookInv, IInv, FsmOK, Message, FirstProbe
  <2>2. state = "UPDATE2" => ref_rd_addr # Hash[r]
    BY <1>4, <2>1 DEF Spread
  <2> QED
    BY <1>1, <1>4, <2>2 DEF Agrees, TableHolds, Visible
<1>5. CASE b[r] = Gone
  <2>1. Visible(r) = {}
    BY <1>1, <1>3, <1>4, <1>5 DEF EntryIn, Holds
  <2> QED
    BY <1>5, <2>1
<1>6. CASE b[r] # Gone
  <2>1. TableNow[Hash[r]] = EntryIn(b, r) /\ Visible(r) = Holds(r)
    BY <1>3, <1>4, <1>6
  <2>2. Visible(r) = {Hash[r]}
    BY <1>1, <1>2, <1>6, <2>1, EmptyAssumption DEF Holds
  <2>3. (CHOOSE s \in Visible(r) : TRUE) = Hash[r]
    BY <2>2
  <2> QED
    BY <1>2, <1>6, <2>1, <2>2, <2>3
<1> QED
  BY <1>5, <1>6

\* A message changes the orders it leads from.
LEMMA LeadsMoves ==
  ASSUME NEW b \in View, NEW m \in Message, NEW a \in View, Leads(b, m, a)
  PROVE  OrdersIn(b) # OrdersIn(a)
<1>1. m.ref \in Refs /\ m.new_ref \in Refs
  BY DEF Message
<1>2. \A q \in Quote : MapEntry(q) # Gone
  BY GoneAssumption DEF Quote, MapEntry
<1>3. /\ OrdersIn(b)[m.ref] = IF b[m.ref] = Gone THEN Gone ELSE MapEntry(b[m.ref])
      /\ OrdersIn(a)[m.ref] = IF a[m.ref] = Gone THEN Gone ELSE MapEntry(a[m.ref])
      /\ b[m.ref] \in Quote \cup {Gone} /\ a[m.ref] \in Quote \cup {Gone}
  BY <1>1 DEF OrdersIn, View
<1>4. OrdersIn(b)[m.ref] # OrdersIn(a)[m.ref]
  <2>1. CASE Entered(b, m, a)
    <3>1. b[m.ref] = Gone /\ a[m.ref] = QuoteOf(m) /\ QuoteOf(m) \in Quote
      BY <1>1, <2>1 DEF Entered, View, QuoteOf, Quote, Message
    <3> QED
      BY <1>2, <1>3, <3>1, GoneAssumption
  <2>2. CASE Shrunk(b, m, a)
    <3>1. /\ b[m.ref] \in Quote /\ m.shares > 0
          /\ a[m.ref] = [b[m.ref] EXCEPT !.shares = b[m.ref].shares - m.shares]
      BY <1>1, <1>3, <2>2 DEF Shrunk, View
    <3>2. b[m.ref].shares \in Nat /\ m.shares \in Nat
      BY <3>1, TableAssumption DEF Quote, Message
    <3>3. a[m.ref].shares # b[m.ref].shares
      BY <3>1, <3>2 DEF Quote
    <3>4. a[m.ref] \in Quote
      <4>1. m.shares <= b[m.ref].shares /\ b[m.ref].shares <= MaxShares
        BY <2>2, <3>1, TableAssumption DEF Shrunk, Quote
      <4>2. b[m.ref].shares - m.shares \in Shares
        BY <3>1, <3>2, <4>1, TableAssumption
      <4> QED
        BY <3>1, <4>2 DEF Quote
    <3>5. MapEntry(a[m.ref]) # MapEntry(b[m.ref])
      BY <3>3 DEF MapEntry
    <3> QED
      BY <1>2, <1>3, <3>1, <3>4, <3>5, GoneAssumption
  <2>3. CASE Left(b, m, a)
    <3>1. b[m.ref] \in Quote /\ a[m.ref] = Gone
      BY <1>1, <1>3, <2>3 DEF Left, View
    <3> QED
      BY <1>2, <1>3, <3>1, GoneAssumption
  <2>4. CASE Moved(b, m, a)
    <3>1. b[m.ref] \in Quote /\ a[m.ref] = Gone
      BY <1>1, <1>3, <2>4 DEF Moved, View
    <3> QED
      BY <1>2, <1>3, <3>1, GoneAssumption
  <2> QED
    BY <2>1, <2>2, <2>3, <2>4 DEF Leads
<1> QED
  BY <1>4

\* The exchange's orders after a message, in OrderMap's terms.
LEMMA LeadsSubmits ==
  ASSUME NEW b \in View, NEW m \in Message, NEW a \in View, Leads(b, m, a),
         b = live, a = live', TableOrders = OrdersIn(b), TableOrders' = TableOrders
  PROVE  Map!Submit
<1> DEFINE B == OrdersIn(b)
           A == OrdersIn(a)
           Ords == [price : Prices, shares : 1 .. MaxShares, side : Sides]
<1>1. /\ m.ref \in Refs /\ m.new_ref \in Refs /\ QuoteOf(m) \in Quote
      /\ m.shares \in Nat /\ m.shares <= MaxShares
  BY TableAssumption DEF Message, QuoteOf, Quote
<1>2. LiveOrders = B /\ LiveOrders' = A
  BY DEF LiveOrders, OrdersIn
<1>3. \A q \in Quote : MapEntry(q) # Gone
  BY GoneAssumption DEF Quote, MapEntry
<1>4. /\ B \in [Refs -> {A[r] : r \in Refs} \cup {B[r] : r \in Refs}]
      /\ A \in [Refs -> {A[r] : r \in Refs} \cup {B[r] : r \in Refs}]
  BY DEF OrdersIn
<1>5. \A r \in Refs : /\ B[r] = IF b[r] = Gone THEN Gone ELSE MapEntry(b[r])
                      /\ A[r] = IF a[r] = Gone THEN Gone ELSE MapEntry(a[r])
                      /\ b[r] \in Quote \cup {Gone}
  BY DEF OrdersIn, View
<1>6. m.shares > 0 => MapEntry(QuoteOf(m)) \in Ords
  BY <1>1 DEF QuoteOf, Quote, MapEntry
<1> HIDE DEF A, B, Ords
<1>7. \/ \E r \in Refs, o \in Ords : B[r] = Gone /\ A = [B EXCEPT ![r] = o]
      \/ \E r \in Refs : B[r] # Gone /\ \E n \in 0 .. B[r].shares - 1 :
                           n < B[r].shares /\ A = [B EXCEPT ![r].shares = n]
      \/ \E r \in Refs : B[r] # Gone /\ A = [B EXCEPT ![r] = Gone]
      \/ \E r, n \in Refs, o \in Ords :
           B[r] # Gone /\ B[n] = Gone /\ A = [B EXCEPT ![r] = Gone, ![n] = o]
  <2>1. CASE Entered(b, m, a)
    <3>1. /\ b[m.ref] = Gone /\ m.shares > 0 /\ a[m.ref] = QuoteOf(m)
          /\ \A r \in Refs \ {m.ref} : a[r] = b[r]
      BY <1>1, <2>1 DEF Entered, View
    <3>2. B[m.ref] = Gone /\ A[m.ref] = MapEntry(QuoteOf(m))
      BY <1>1, <1>5, <3>1, GoneAssumption
    <3>3. A = [B EXCEPT ![m.ref] = MapEntry(QuoteOf(m))]
      BY <1>1, <1>4, <1>5, <3>1, <3>2
    <3> QED
      BY <1>1, <1>6, <3>1, <3>2, <3>3
  <2>2. CASE Shrunk(b, m, a)
    <3> DEFINE n == b[m.ref].shares - m.shares
    <3>1. /\ b[m.ref] \in Quote /\ m.shares > 0 /\ m.shares <= b[m.ref].shares
          /\ a = [b EXCEPT ![m.ref].shares = n]
      BY <1>1, <1>5, <2>2 DEF Shrunk
    <3>2. b[m.ref].shares \in Nat /\ b[m.ref].shares <= MaxShares
      BY <3>1, TableAssumption DEF Quote
    <3>3. n \in 0 .. b[m.ref].shares - 1 /\ n < b[m.ref].shares /\ n \in Shares
      BY <1>1, <3>1, <3>2, TableAssumption
    <3> HIDE DEF n
    <3>4. a[m.ref] = [b[m.ref] EXCEPT !.shares = n] /\ \A r \in Refs \ {m.ref} : a[r] = b[r]
      BY <1>1, <3>1 DEF View
    <3>5. a[m.ref] \in Quote /\ b[m.ref] # Gone /\ a[m.ref] # Gone
      BY <3>1, <3>3, <3>4, GoneAssumption DEF Quote
    <3>6. B[m.ref] = MapEntry(b[m.ref]) /\ A[m.ref] = MapEntry(a[m.ref])
      BY <1>1, <1>5, <3>5
    <3>7. MapEntry(a[m.ref]) = [MapEntry(b[m.ref]) EXCEPT !.shares = n]
          /\ MapEntry(b[m.ref]).shares = b[m.ref].shares
      BY <3>1, <3>4 DEF MapEntry, Quote
    <3>8. A = [B EXCEPT ![m.ref].shares = n]
      BY <1>1, <1>4, <1>5, <3>4, <3>6, <3>7
    <3>9. B[m.ref] # Gone /\ B[m.ref].shares = b[m.ref].shares
      BY <1>3, <3>1, <3>6, <3>7
    <3> QED
      BY <1>1, <3>3, <3>8, <3>9
  <2>3. CASE Left(b, m, a)
    <3>1. /\ b[m.ref] # Gone /\ a[m.ref] = Gone
          /\ \A r \in Refs \ {m.ref} : a[r] = b[r]
      BY <1>1, <2>3 DEF Left, View
    <3>2. B[m.ref] # Gone /\ A[m.ref] = Gone
      BY <1>1, <1>3, <1>5, <3>1
    <3>3. A = [B EXCEPT ![m.ref] = Gone]
      BY <1>1, <1>4, <1>5, <3>1, <3>2
    <3> QED
      BY <1>1, <3>2, <3>3
  <2>4. CASE Moved(b, m, a)
    <3>1. /\ b[m.ref] # Gone /\ b[m.new_ref] = Gone /\ m.shares > 0
          /\ a[m.ref] = Gone /\ a[m.new_ref] = QuoteOf(m)
          /\ \A r \in Refs \ {m.ref, m.new_ref} : a[r] = b[r]
      BY <1>1, <2>4 DEF Moved, View
    <3>2. /\ B[m.ref] # Gone /\ B[m.new_ref] = Gone
          /\ A[m.ref] = Gone /\ A[m.new_ref] = MapEntry(QuoteOf(m))
      BY <1>1, <1>3, <1>5, <3>1, GoneAssumption
    <3>3. A = [B EXCEPT ![m.ref] = Gone, ![m.new_ref] = MapEntry(QuoteOf(m))]
      BY <1>1, <1>4, <1>5, <3>1, <3>2
    <3> QED
      BY <1>1, <1>6, <3>1, <3>2, <3>3
  <2> QED
    BY <2>1, <2>2, <2>3, <2>4 DEF Leads
<1>8. TableOrders = B
  BY DEF B
<1> QED
  BY <1>2, <1>7, <1>8 DEF Ords, Map!Submit, Map!Enter, Map!Shrink, Map!Leave, Map!Move

LEMMA SameOrders ==
  ASSUME TableNow' = TableNow, state # "UPDATE2", state' # "UPDATE2"
  PROVE  TableOrders' = TableOrders
BY DEF TableOrders, Visible, Holds

LEMMA FeedRefines ==
  ASSUME Spread, BookInv, NEW m \in Msgs, Feed(m)
  PROVE  Map!MapNext \/ UNCHANGED Map!mapVars
<1>1. /\ state = "IDLE" /\ state' # "UPDATE2" /\ live' = Effect(m)
      /\ Tick(NoWrite, bbo_valid')
  BY DEF Feed, Accept, Tick
<1>2. TableOrders' = TableOrders
  BY <1>1, NowSame, SameOrders DEF BookInv, IInv
<1>3. CASE m.type = "P"
  <2>1. live' = live
    BY <1>1, <1>3 DEF Effect
  <2> QED
    BY <1>2, <2>1 DEF Map!mapVars, LiveOrders
<1>4. CASE m.type # "P"
  <2>1. Leads(live, m, Effect(m)) /\ Effect(m) \in View /\ m \in Message
    BY <1>4, LegalLeads, MsgAssumption DEF Feed, BookInv
  <2>2. PICK b \in View : b = live /\ Agrees(b)
    BY <1>1 DEF BookInv, Agreement, Settled
  <2>3. PICK a \in View : a = live'
    BY <1>1, <2>1
  <2>4. TableOrders = OrdersIn(b)
    BY <1>1, <2>2, VisibleView
  <2>5. Leads(b, m, a)
    BY <1>1, <2>1, <2>2, <2>3
  <2> QED
    BY <1>2, <2>1, <2>2, <2>3, <2>4, <2>5, LeadsSubmits DEF Map!MapNext
<1> QED
  BY <1>3, <1>4

\* VisibleView as a formula, so that it can be used of the next state as well.
Seen == \A b \in View : Agrees(b) /\ (state = "UPDATE2" => b = live) =>
                          TableOrders = OrdersIn(b)

\* Inside the FSM only S_UPDATE changes what is visible, and it takes the table
\* to the exchange's orders in one step.
LEMMA BusyRefines ==
  ASSUME Spread, BookInv, BookInv', Seen', Idle \/ Busy, UNCHANGED <<live, used, had_reset>>
  PROVE  Map!MapNext \/ UNCHANGED Map!mapVars
<1>1. LiveOrders' = LiveOrders
  BY DEF LiveOrders
<1>2. PICK b \in View : /\ IF Settled THEN b = live ELSE Leads(b, op, live)
                        /\ Agrees(b)
  BY DEF BookInv, Agreement
<1>3. PICK a \in View : a = live
  BY DEF BookInv, Known
<1>4. LiveOrders = OrdersIn(a)
  BY <1>3 DEF LiveOrders, OrdersIn
<1>5. TableOrders = OrdersIn(b)
  BY <1>2, VisibleView DEF Settled
<1>6. Settled' => TableOrders' = OrdersIn(a)
  <2> SUFFICES ASSUME Settled' PROVE TableOrders' = OrdersIn(a)
    OBVIOUS
  <2>1. PICK c \in View : c = live' /\ Agrees(c)'
    BY DEF BookInv, Agreement
  <2>2. TableOrders' = OrdersIn(c)
    BY <2>1 DEF Seen, OrdersIn
  <2> QED
    BY <1>3, <2>1, <2>2
<1>7. CASE UpdateAdd \/ UpdateCancel \/ UpdateDelete \/ UpdateExecute \/ UpdateReplace
  <2>1. state = "UPDATE" /\ Settled'
    BY <1>7 DEF UpdateAdd, UpdateCancel, UpdateDelete, UpdateExecute, UpdateReplace, Update, Settled
  <2>2. Leads(b, op, a) /\ op \in Message
    BY <1>2, <1>3, <2>1 DEF Settled, BookInv, IInv, FsmOK
  <2>3. TableOrders # LiveOrders
    BY <1>4, <1>5, <2>2, LeadsMoves
  <2> QED
    BY <1>1, <1>4, <1>6, <2>1, <2>3 DEF Map!MapNext, Map!Perform
<1>8. CASE Update2
  <2>1. state = "UPDATE2" /\ Settled /\ Settled'
    BY <1>8 DEF Update2, Settled
  <2> QED
    BY <1>1, <1>2, <1>3, <1>5, <1>6, <2>1 DEF Map!mapVars
<1>9. CASE Idle \/ ReadRef1 \/ ReadRef2 \/ Process \/ Match \/ ScanBook \/ ScanBook2 \/ ScanBook3 \/ Done
  <2>1. Tick(NoWrite, bbo_valid') /\ TableOK /\ state # "UPDATE2" /\ state' # "UPDATE2"
    BY <1>9 DEF Idle, ReadRef1, ReadRef2, Process, Match, ScanBook, ScanBook2, ScanBook3, Done,
                Pipeline, Tick, BookInv, IInv
  <2> QED
    BY <1>1, <2>1, NowSame, SameOrders DEF Map!mapVars
<1> QED
  BY <1>7, <1>8, <1>9 DEF Busy

\* Every message takes effect on the table exactly once, in one step, before
\* the next is accepted: the safety half of ImplementsMap.
THEOREM TableRefinesMap ==
  ASSUME Spread
  PROVE  FeedSpec => Map!MapInit /\ [][Map!MapNext]_(Map!mapVars)
<1>1. FeedInit => Map!MapInit
  <2> SUFFICES ASSUME FeedInit PROVE Map!MapInit
    OBVIOUS
  <2>1. BookInv
    BY BookInit
  <2>2. PICK b \in View : b = live /\ Agrees(b)
    BY <2>1 DEF BookInv, Agreement, Settled, FeedInit, Init
  <2>3. TableOrders = OrdersIn(b)
    BY <2>1, <2>2, VisibleView
  <2>4. LiveOrders = [r \in Refs |-> Gone]
    BY DEF LiveOrders, FeedInit
  <2> QED
    BY <2>2, <2>3, <2>4 DEF Map!MapInit, OrdersIn, LiveOrders
<1>2. BookInv => Seen
  BY VisibleView DEF Seen
<1>3. BookInv /\ BookInv' /\ Seen' /\ [FeedNext]_feedVars => [Map!MapNext]_(Map!mapVars)
  <2> SUFFICES ASSUME BookInv, BookInv', Seen', [FeedNext]_feedVars
               PROVE  Map!MapNext \/ UNCHANGED Map!mapVars
    OBVIOUS
  <2>1. CASE UNCHANGED feedVars
    <3>1. LiveOrders' = LiveOrders /\ TableOrders' = TableOrders
      BY <2>1 DEF feedVars, vars, LiveOrders, TableOrders, Visible, Holds, TableNow, Written
    <3> QED
      BY <3>1 DEF Map!mapVars
  <2>2. CASE FeedReset
    BY <2>2 DEF FeedReset, Spread
  <2> QED
    BY <2>1, <2>2, FeedRefines, BusyRefines DEF FeedNext
<1> QED
  BY <1>1, <1>2, <1>3, BookInvariance, PTL DEF FeedSpec

\* Without shared base slots the lookup of a live order never comes back
\* empty-handed: what book_probe_chain finds takes a collision.
THEOREM NothingMissed ==
  ASSUME Spread
  PROVE  FeedSpec => MissMeansAbsent
<1> DEFINE Gives == state = "MATCH" /\ state' = "DONE" /\ ~IsAdd =>
                      \A s \in Window(op.ref) : ref_mem[s] = Empty \/ ref_mem[s].ref # op.ref
<1>1. BookInv /\ [FeedNext]_feedVars => [Gives]_feedVars
  <2> SUFFICES ASSUME BookInv, FeedNext, state = "MATCH", state' = "DONE" PROVE FALSE
    BY DEF Gives
  <2>1. PICK b \in View : Leads(b, op, live) /\ TableHolds(b)
    BY DEF BookInv, Agreement, Agrees, Settled
  <2>2. MatchFound
    BY <2>1, FirstMatch
  <2>3. Match
    BY DEF FeedNext, Feed, Accept, Idle, Busy, ReadRef1, ReadRef2, Process, ScanBook, ScanBook2,
           ScanBook3, Pipeline, UpdateAdd, UpdateCancel, UpdateDelete, UpdateExecute,
           UpdateReplace, Update, Update2, Done, FeedReset, Spread
  <2> QED
    BY <2>2, <2>3 DEF Match, MatchGivesUp, ProbeMore
<1>2. FeedSpec => [][Gives]_feedVars
  BY <1>1, BookInvariance, PTL DEF FeedSpec
<1>3. [][Gives]_feedVars <=> MissMeansAbsent
  BY DEF Gives, MissMeansAbsent
<1> QED
  BY <1>2, <1>3
=============================================================================
