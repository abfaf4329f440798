----------------------------- MODULE RiskProofs -----------------------------
(***************************************************************************)
(* The position limit and the two vetoes, for every width of the position  *)
(* register and every limit; the limit for orders at least four cycles     *)
(* apart.                                                                  *)
(***************************************************************************)
EXTENDS RiskFeed, TLAPS

\* The configurations for which the limit is kept: the pipeline's distance
\* between orders, a limit that the position register can hold, and a share
\* limit that keeps the sum within its one bit more.
Sane == Gap >= 4 /\ PosLimit < Half /\ MaxQty <= Half

-----------------------------------------------------------------------------
(* Two's complement.                                                       *)

\* A number that fits is not changed.
LEMMA SignedFits ==
  ASSUME NEW h \in Nat \ {0}, NEW x \in Int, -h <= x, x < h
  PROVE  Signed(x, h) = x
<1>1. x + h \in 0 .. 2 * h - 1
  OBVIOUS
<1>2. \A m \in Nat \ {0} : \A a \in 0 .. m - 1 : a % m = a
  OBVIOUS
<1>3. (x + h) % (2 * h) = x + h
  BY <1>1, <1>2
<1> QED
  BY <1>3 DEF Signed

\* The magnitude of a number that fits is its absolute value.
LEMMA MagnitudeFits ==
  ASSUME NEW n \in Int, -(2 * Half) < n, n < 2 * Half, Magnitude(n) <= PosLimit
  PROVE  -PosLimit <= n /\ n <= PosLimit
<1>1. \A m \in Nat \ {0} : \A a \in 0 .. m - 1 : a % m = a
  OBVIOUS
<1>2. CASE n < 0
  <2>1. 0 - n \in 0 .. 2 * Half - 1
    BY <1>2, RiskAssumption
  <2>2. Magnitude(n) = 0 - n
    BY <1>1, <1>2, <2>1, RiskAssumption DEF Magnitude
  <2> QED
    BY <1>2, <2>2, RiskAssumption
<1>3. CASE n >= 0
  BY <1>3, RiskAssumption DEF Magnitude
<1> QED
  BY <1>2, <1>3

-----------------------------------------------------------------------------
(* The vetoes.  An order that entered under one carries that along, next   *)
(* to the record of it, and is refused for it in the last stage.           *)

\* What an order keeps of the edge at which it entered.
LEMMA EnterFields ==
  ASSUME NEW o, o # None, NEW k, NEW t
  PROVE  LET e == Enter(o, k, t)
         IN  /\ e.sym = o.sym /\ e.side = o.side /\ e.shares = o.shares
             /\ e.killed = Killed(k, t)
<1>1. ASSUME NEW a, NEW b, NEW c, NEW d, NEW f, NEW g, NEW h
      PROVE  LET e == [sym |-> a, side |-> b, shares |-> c, quote |-> d,
                       band |-> f, fat |-> g, killed |-> h]
             IN  e.sym = a /\ e.side = b /\ e.shares = c /\ e.killed = h
  OBVIOUS
<1> QED
  BY <1>1, Zenon DEF Enter

KillInv ==
  /\ vetoed \in [Edges -> BOOLEAN]
  /\ \A i \in Stages : vetoed[i] => (pipe[i] = None \/ pipe[i].killed)
  /\ KillHolds

LEMMA KillInit == FeedInit => KillInv
<1> SUFFICES ASSUME FeedInit PROVE KillInv
  OBVIOUS
<1>1. verdict.is # "pass"
  BY DEF FeedInit, Init
<1>2. vetoed \in [Edges -> BOOLEAN]
  BY DEF FeedInit
<1>3. \A i \in Stages : pipe[i] = None
  BY DEF FeedInit, Init
<1> QED
  BY <1>1, <1>2, <1>3 DEF KillInv, KillHolds, risk_pass

LEMMA KillStep == KillInv /\ [FeedNext]_feedVars => KillInv'
<1> SUFFICES ASSUME KillInv, [FeedNext]_feedVars PROVE KillInv'
  OBVIOUS
<1>1. CASE UNCHANGED feedVars
  BY <1>1 DEF feedVars, vars, KillInv, KillHolds, risk_pass
<1>2. CASE FeedReset
  <2>1. vetoed' \in [Edges -> BOOLEAN] /\ verdict'.is # "pass"
    BY <1>2 DEF FeedReset, Reset
  <2>2. \A i \in Stages : pipe'[i] = None
    BY <1>2 DEF FeedReset, Reset
  <2> QED
    BY <2>1, <2>2, Zenon DEF KillInv, KillHolds, risk_pass
<1>3. ASSUME NEW o \in Order \cup {None}, Cycle(o)
      PROVE  KillInv'
  <2>1. /\ vetoed' = [i \in Edges |-> IF i = 1 THEN o # None /\ (kill_sw \/ tx_overflow)
                                      ELSE vetoed[i - 1]]
        /\ pipe' = [i \in Stages |-> IF i = 1 THEN Enter(o, kill_sw, tx_overflow) ELSE pipe[i - 1]]
        /\ verdict' = [order |-> pipe[5], is |-> Decide(pipe[5], new_net_r)]
    BY <1>3 DEF Cycle, Clock
  <2>2. vetoed' \in [Edges -> BOOLEAN]
    <3>1. \A i \in Edges : i # 1 => i - 1 \in Edges
      BY DEF Edges, Depth
    <3> QED
      BY <2>1, <3>1 DEF KillInv
  <2>3. ASSUME NEW i \in Stages, vetoed'[i]
        PROVE  pipe'[i] = None \/ pipe'[i].killed
    <3>0. i \in Edges
      BY DEF Stages, Edges, Depth
    <3>1. CASE i = 1
      <4>1. o # None /\ (kill_sw \/ tx_overflow)
        BY <2>1, <2>3, <3>0, <3>1
      <4>2. pipe'[i] = Enter(o, kill_sw, tx_overflow)
        BY <2>1, <3>1
      <4>3. pipe'[i].killed = Killed(kill_sw, tx_overflow)
        <5> DEFINE e == Enter(o, kill_sw, tx_overflow)
        <5>1. e.killed = Killed(kill_sw, tx_overflow)
          BY <4>1, EnterFields
        <5> QED
          BY <4>2, <5>1
      <4> QED
        BY <4>1, <4>3, Zenon DEF Killed
    <3>2. CASE i # 1
      <4>1. i - 1 \in Stages /\ pipe'[i] = pipe[i - 1]
        BY <2>1, <3>2 DEF Stages
      <4>2. vetoed[i - 1]
        BY <2>1, <2>3, <3>0, <3>2
      <4> QED
        BY <4>1, <4>2 DEF KillInv
    <3> QED
      BY <3>1, <3>2
  <2>4. KillHolds'
    <3> SUFFICES ASSUME vetoed'[Depth] PROVE verdict'.is # "pass"
      BY DEF KillHolds, risk_pass
    <3>1. 5 \in Stages /\ vetoed[5]
      BY <2>1 DEF Stages, Edges, Depth
    <3>2. pipe[5] = None \/ pipe[5].killed
      BY <3>1 DEF KillInv
    <3>3. Decide(pipe[5], new_net_r) # "pass"
      BY <3>2 DEF Decide
    <3> QED
      BY <2>1, <3>3
  <2> QED
    BY <2>2, <2>3, <2>4, Zenon DEF KillInv
<1> QED
  BY <1>1, <1>2, <1>3 DEF FeedNext

\* No order that enters under the kill switch or under tx_overflow passes, for
\* every sequence of orders, vetoes and resets.
THEOREM KillIsFinal == FeedSpec => []KillHolds
<1>1. KillInv => KillHolds
  BY DEF KillInv
<1> QED
  BY <1>1, KillInit, KillStep, PTL DEF FeedSpec

-----------------------------------------------------------------------------
(* The position.  An order's position is read two edges before its verdict *)
(* and written one edge after; orders four cycles apart never find a       *)
(* write-back on its way when they read.                                   *)

\* An order in the pipeline.
Carried(p) ==
  /\ p.sym \in Symbols /\ p.side \in {Buy, Sell} /\ p.shares \in Nat
  /\ ~p.fat => p.shares <= MaxQty

PipeOK == pipe = [i \in Stages |-> pipe[i]] /\ \A i \in Stages : pipe[i] = None \/ Carried(pipe[i])

\* The youngest order is as old as since_order says or older, and no two are
\* less than four stages apart.
Spaced ==
  /\ since_order \in 1 .. Gap
  /\ \A i \in Stages : pipe[i] # None => since_order <= i
  /\ \A i, j \in Stages : pipe[i] # None /\ pipe[j] # None /\ i < j => j - i >= 4

\* What has been read is what the order will be charged to.
ReadsExact ==
  /\ pos_wr # None => pipe[3] = None /\ pipe[4] = None /\ pipe[5] = None
  /\ pipe[4] # None => pos_rd_data = net[pipe[4].sym]
  /\ pipe[5] # None => new_net_r = NewNet(pipe[5], net[pipe[5].sym])

MemOK ==
  /\ net \in [Symbols -> Int] /\ pos_mem \in [Symbols -> Int]
  /\ pos_wr = None \/ pos_wr \in [sym : Symbols, net : Int]

PosInv == PipeOK /\ Spaced /\ ReadsExact /\ MemOK /\ NetWithinLimit /\ PositionExact

LEMMA PosInit == Sane /\ FeedInit => PosInv
<1> SUFFICES ASSUME Sane, FeedInit PROVE PosInv
  OBVIOUS
<1>1. /\ pipe = [i \in Stages |-> None] /\ since_order = Gap /\ pos_wr = None
      /\ net = [s \in Symbols |-> 0] /\ pos_mem = [s \in Symbols |-> 0]
  BY DEF FeedInit, Init
<1>2. PipeOK /\ Spaced /\ ReadsExact
  BY <1>1, GapAssumption DEF PipeOK, Spaced, ReadsExact, Stages
<1>3. MemOK /\ NetWithinLimit /\ PositionExact
  BY <1>1, RiskAssumption DEF MemOK, NetWithinLimit, PositionExact
<1> QED
  BY <1>2, <1>3 DEF PosInv

\* An order that passes leaves a net position within the limit, and the sum
\* computed for it is that position, at both widths.
LEMMA PassedFits ==
  ASSUME Sane, PosInv, Decide(pipe[5], new_net_r) = "pass"
  PROVE  LET p == pipe[5] IN
         /\ p # None /\ p.sym \in Symbols /\ new_net_r \in Int
         /\ new_net_r = net[p.sym] + Change(p)
         /\ -PosLimit <= new_net_r /\ new_net_r <= PosLimit
         /\ Signed(new_net_r, Half) = new_net_r
<1> DEFINE p == pipe[5]
           x == IF p.side = Buy THEN net[p.sym] + p.shares ELSE net[p.sym] - p.shares
<1>1. p # None /\ ~p.fat /\ ~(Magnitude(new_net_r) > PosLimit)
  BY DEF Decide
<1>2. /\ p.sym \in Symbols /\ p.side \in {Buy, Sell} /\ p.shares \in Nat /\ p.shares <= MaxQty
      /\ net[p.sym] \in Int /\ -PosLimit <= net[p.sym] /\ net[p.sym] <= PosLimit
  <2>1. 5 \in Stages
    BY DEF Stages
  <2>2. Carried(p)
    BY <1>1, <2>1 DEF PosInv, PipeOK
  <2>3. p.shares <= MaxQty
    BY <1>1, <2>2, Zenon DEF Carried
  <2> QED
    BY <2>2, <2>3 DEF Carried, PosInv, MemOK, NetWithinLimit
<1>3. x \in Int /\ -(2 * Half) < x /\ x < 2 * Half /\ x = net[p.sym] + Change(p)
  BY <1>2, RiskAssumption DEF Sane, Change, Buy, Sell
<1>4. new_net_r = x
  <2>1. new_net_r = Signed(x, 2 * Half)
    BY <1>1 DEF PosInv, ReadsExact, NewNet
  <2>2. 2 * Half \in Nat \ {0}
    BY RiskAssumption
  <2> QED
    BY <1>3, <2>1, <2>2, SignedFits
<1>5. -PosLimit <= x /\ x <= PosLimit
  <2>1. Magnitude(x) <= PosLimit
    <3>1. Magnitude(x) \in Int
      BY <1>3, RiskAssumption DEF Magnitude
    <3> QED
      BY <1>1, <1>4, <3>1, RiskAssumption
  <2> QED
    BY <1>3, <2>1, MagnitudeFits
<1>6. Signed(x, Half) = x
  BY <1>3, <1>5, SignedFits, RiskAssumption DEF Sane
<1> QED
  BY <1>1, <1>2, <1>3, <1>4, <1>5, <1>6

\* An order that enters carries its own symbol, side and share count.
LEMMA EnterCarries ==
  ASSUME NEW o \in Order, o # None, NEW k, NEW t
  PROVE  Carried(Enter(o, k, t))
<1> DEFINE e == Enter(o, k, t)
<1>1. o.sym \in Symbols /\ o.side \in {Buy, Sell} /\ o.shares \in Nat
  <2>1. o.sym \in Symbols /\ o.side \in {Buy, Sell} /\ o.shares \in Quantities
    BY Zenon DEF Order
  <2>2. \A q \in Quantities : q \in Nat
    BY RiskAssumption
  <2> QED
    BY <2>1, <2>2
<1>2. e.sym = o.sym /\ e.side = o.side /\ e.shares = o.shares
  BY EnterFields
<1>3. ASSUME ~e.fat PROVE ~(o.shares > MaxQty)
  BY <1>3, Zenon DEF Enter
<1>4. ~e.fat => e.shares <= MaxQty
  <2> SUFFICES ASSUME ~e.fat PROVE e.shares <= MaxQty
    OBVIOUS
  <2>1. ~(o.shares > MaxQty)
    BY <1>3
  <2> QED
    BY <1>1, <1>2, <2>1, RiskAssumption
<1> HIDE DEF e
<1>5. e.sym \in Symbols /\ e.side \in {Buy, Sell} /\ e.shares \in Nat
  BY <1>1, <1>2
<1>6. Carried(e)
  BY <1>4, <1>5, Zenon DEF Carried
<1> QED
  BY <1>6 DEF e

\* What one edge does to the pipeline and to the distance between orders.
LEMMA PipeStep ==
  ASSUME Sane, PosInv, NEW o \in Order \cup {None}, Cycle(o)
  PROVE  PipeOK' /\ Spaced'
<1>1. /\ pipe' = [i \in Stages |-> IF i = 1 THEN Enter(o, kill_sw, tx_overflow) ELSE pipe[i - 1]]
      /\ since_order' = IF o # None THEN 1 ELSE IF since_order < Gap THEN since_order + 1 ELSE Gap
      /\ o # None => since_order >= Gap
  BY DEF Cycle, Clock
<1>2. PipeOK'
  <2>1. ASSUME NEW i \in Stages
        PROVE  pipe'[i] = None \/ Carried(pipe'[i])
    <3>1. CASE i = 1
      BY <1>1, <3>1, EnterCarries DEF Enter
    <3>2. CASE i # 1
      <4>1. i - 1 \in Stages /\ pipe'[i] = pipe[i - 1]
        BY <1>1, <3>2 DEF Stages
      <4> QED
        BY <4>1 DEF PosInv, PipeOK
    <3> QED
      BY <3>1, <3>2
  <2>2. pipe' = [i \in Stages |-> pipe'[i]]
    BY <1>1
  <2>3. \A i \in Stages : Carried(pipe'[i]) <=> Carried(pipe[i])'
    BY DEF Carried
  <2> QED
    BY <2>1, <2>2, <2>3 DEF PipeOK
<1>3. \A i \in Stages : pipe'[i] # None =>
        \/ i = 1 /\ o # None
        \/ i # 1 /\ i - 1 \in Stages /\ pipe[i - 1] # None
  BY <1>1 DEF Stages, Enter
<1>4. since_order' \in 1 .. Gap
  BY <1>1, GapAssumption DEF PosInv, Spaced
<1>5. ASSUME NEW i \in Stages, pipe'[i] # None
      PROVE  since_order' <= i
  BY <1>1, <1>3, <1>5, GapAssumption DEF PosInv, Spaced, Stages
<1>6. ASSUME NEW i \in Stages, NEW j \in Stages, pipe'[i] # None, pipe'[j] # None, i < j
      PROVE  j - i >= 4
  <2>1. j # 1 /\ j - 1 \in Stages /\ pipe[j - 1] # None
    BY <1>3, <1>6 DEF Stages
  <2>2. CASE i = 1 /\ o # None
    BY <1>1, <2>1, <2>2, GapAssumption DEF PosInv, Spaced, Stages, Sane
  <2>3. CASE i # 1 /\ i - 1 \in Stages /\ pipe[i - 1] # None
    BY <1>6, <2>1, <2>3 DEF PosInv, Spaced, Stages
  <2> QED
    BY <1>3, <1>6, <2>2, <2>3
<1> QED
  BY <1>2, <1>4, <1>5, <1>6 DEF Spaced

\* An edge at which no order passes moves the write-back into the memory.
LEMMA QuietStep ==
  ASSUME PosInv, net' = net, pos_wr' = None,
         pos_mem' = IF pos_wr = None THEN pos_mem
                    ELSE [pos_mem EXCEPT ![pos_wr.sym] = pos_wr.net]
  PROVE  /\ MemOK' /\ NetWithinLimit' /\ PositionExact'
         /\ \A s \in Symbols : pos_mem'[s] = net[s]
<1>1. MemOK' /\ NetWithinLimit'
  BY DEF PosInv, MemOK, NetWithinLimit
<1>2. \A s \in Symbols : pos_mem'[s] = net[s]
  BY DEF PosInv, MemOK, PositionExact
<1> QED
  BY <1>1, <1>2 DEF PositionExact

\* An edge at which an order passes.
LEMMA PassStep ==
  ASSUME Sane, PosInv, NEW o \in Order \cup {None}, Cycle(o),
         Decide(pipe[5], new_net_r) = "pass"
  PROVE  MemOK' /\ NetWithinLimit' /\ PositionExact'
<1> DEFINE p == pipe[5]
<1>1. /\ p # None /\ p.sym \in Symbols /\ new_net_r \in Int
      /\ new_net_r = net[p.sym] + Change(p)
      /\ -PosLimit <= new_net_r /\ new_net_r <= PosLimit
      /\ Signed(new_net_r, Half) = new_net_r
  BY PassedFits
<1>2. pos_wr = None
  BY <1>1 DEF PosInv, ReadsExact
<1>3. pos_mem' = pos_mem
  BY <1>2 DEF Cycle, Clock
<1>4. pos_wr' = [sym |-> p.sym, net |-> new_net_r]
  BY <1>1 DEF Cycle, Clock, WriteBack
<1>5. net' = [net EXCEPT ![p.sym] = new_net_r]
  <2>1. verdict'.is = "pass" /\ verdict'.order = p
    BY DEF Cycle, Clock
  <2>2. net' = [net EXCEPT ![p.sym] = net[p.sym] + Change(p)]
    BY <2>1 DEF Cycle, Charge
  <2> QED
    BY <1>1, <2>2
<1>6. pos_wr' \in [sym : Symbols, net : Int] /\ pos_wr' # None
  BY <1>1, <1>4, NoneAssumption
<1>7. MemOK'
  BY <1>1, <1>3, <1>5, <1>6 DEF PosInv, MemOK
<1>8. NetWithinLimit'
  BY <1>1, <1>5 DEF PosInv, MemOK, NetWithinLimit
<1>9. PositionExact'
  BY <1>1, <1>2, <1>3, <1>4, <1>5, <1>6 DEF PosInv, MemOK, PositionExact
<1> QED
  BY <1>7, <1>8, <1>9

\* What the next two stages read.
LEMMA ReadStep ==
  ASSUME Sane, PosInv, NEW o \in Order \cup {None}, Cycle(o)
  PROVE  ReadsExact'
<1>1. /\ pipe'[3] = pipe[2] /\ pipe'[4] = pipe[3] /\ pipe'[5] = pipe[4]
      /\ pos_rd_data' = IF pipe[3] = None THEN 0 ELSE pos_mem[pipe[3].sym]
      /\ new_net_r' = IF pipe[4] = None THEN 0 ELSE NewNet(pipe[4], pos_rd_data)
      /\ pos_wr' = WriteBack
  BY DEF Cycle, Clock, Stages
<1>2. pipe[5] # None => pipe[2] = None /\ pipe[3] = None /\ pipe[4] = None
  BY DEF PosInv, Spaced, Stages
<1>3. pipe[5] = None => pos_wr' = None /\ net' = net
  BY DEF Cycle, Clock, Charge, WriteBack, Decide
<1>4. pos_wr' # None => pipe'[3] = None /\ pipe'[4] = None /\ pipe'[5] = None
  BY <1>1, <1>2, <1>3
<1>5. ASSUME pipe'[4] # None PROVE pos_rd_data' = net'[pipe'[4].sym]
  <2>1. pipe[5] = None /\ pos_wr = None
    BY <1>1, <1>2, <1>5 DEF PosInv, ReadsExact
  <2>2. Carried(pipe[3])
    BY <1>1, <1>5 DEF PosInv, PipeOK, Stages
  <2>3. pos_mem[pipe[3].sym] = net[pipe[3].sym]
    BY <2>1, <2>2 DEF PosInv, PositionExact, Carried
  <2> QED
    BY <1>1, <1>3, <1>5, <2>1, <2>3
<1>6. ASSUME pipe'[5] # None PROVE new_net_r' = NewNet(pipe'[5], net'[pipe'[5].sym])
  <2>1. pipe[5] = None
    BY <1>1, <1>2, <1>6
  <2>2. pos_rd_data = net[pipe[4].sym]
    BY <1>1, <1>6 DEF PosInv, ReadsExact
  <2> QED
    BY <1>1, <1>3, <1>6, <2>1, <2>2
<1>7. NewNet(pipe[5], net[pipe[5].sym])' = NewNet(pipe'[5], net'[pipe'[5].sym])
  BY DEF NewNet
<1> QED
  BY <1>4, <1>5, <1>6, <1>7, Zenon DEF ReadsExact

LEMMA PosStep == Sane /\ PosInv /\ [FeedNext]_feedVars => PosInv'
<1> SUFFICES ASSUME Sane, PosInv, [FeedNext]_feedVars PROVE PosInv'
  OBVIOUS
<1>1. CASE UNCHANGED feedVars
  BY <1>1 DEF feedVars, vars, PosInv, PipeOK, Spaced, ReadsExact, MemOK, NetWithinLimit,
              PositionExact, Carried, NewNet
<1>2. CASE FeedReset
  <2>1. MemOK' /\ NetWithinLimit' /\ PositionExact'
    BY <1>2, QuietStep DEF FeedReset, Reset
  <2>2. PipeOK' /\ Spaced' /\ ReadsExact'
    BY <1>2, GapAssumption DEF FeedReset, Reset, PipeOK, Spaced, ReadsExact, Stages
  <2> QED
    BY <2>1, <2>2 DEF PosInv
<1>3. ASSUME NEW o \in Order \cup {None}, Cycle(o)
      PROVE  PosInv'
  <2>1. CASE Decide(pipe[5], new_net_r) = "pass"
    BY <1>3, <2>1, PipeStep, ReadStep, PassStep DEF PosInv
  <2>2. CASE Decide(pipe[5], new_net_r) # "pass"
    <3>1. /\ net' = net /\ pos_wr' = None
          /\ pos_mem' = IF pos_wr = None THEN pos_mem
                        ELSE [pos_mem EXCEPT ![pos_wr.sym] = pos_wr.net]
      BY <1>3, <2>2 DEF Cycle, Clock, Charge, WriteBack
    <3> QED
      BY <1>3, <3>1, PipeStep, ReadStep, QuietStep DEF PosInv
  <2> QED
    BY <2>1, <2>2
<1> QED
  BY <1>1, <1>2, <1>3 DEF FeedNext

\* In a sane configuration the stored position is at all times the sum of the
\* orders that passed, whatever overlaps in the pipeline and whenever rst comes.
THEOREM PositionIsExact == ASSUME Sane PROVE FeedSpec => []PositionExact
<1>1. FeedInit => PosInv
  BY PosInit
<1>2. PosInv /\ [FeedNext]_feedVars => PosInv'
  BY PosStep
<1>3. PosInv => PositionExact
  BY DEF PosInv
<1> QED
  BY <1>1, <1>2, <1>3, PTL DEF FeedSpec

\* In a sane configuration no symbol's net position ever leaves the limit.
THEOREM LimitIsKept == ASSUME Sane PROVE FeedSpec => []NetWithinLimit
<1>1. FeedInit => PosInv
  BY PosInit
<1>2. PosInv /\ [FeedNext]_feedVars => PosInv'
  BY PosStep
<1>3. PosInv => NetWithinLimit
  BY DEF PosInv
<1> QED
  BY <1>1, <1>2, <1>3, PTL DEF FeedSpec

-----------------------------------------------------------------------------
(* The price band.  The code divides by 8192 where the band is defined by  *)
(* 10000, and cuts the reference to 27 bits and the width to 14: for       *)
(* quotes that fit, the limit it draws lies between the band and twice it. *)

\* The quotes whose reference price and width are not cut.
QuotesFit == Quotes \subseteq [price : Nat, ref : 0 .. RefMod - 1, bps : 0 .. BpsMod - 1]

LEMMA FloorBounds ==
  ASSUME NEW x \in Nat
  PROVE  /\ x \div Shift \in Nat
         /\ (x \div Shift) * Shift <= x /\ x < (x \div Shift) * Shift + Shift
BY SMT DEF Shift

\* What the comparison of the code says of the basis points.
LEMMA BandBracket ==
  ASSUME QuotesFit, NEW q \in Quotes
  PROVE  /\ ~BandBlocks(q) => WithinBps(q, 2 * q.bps)
         /\ BandBlocks(q) => ~WithinBps(q, q.bps)
<1>1. /\ q.price \in Nat /\ q.ref \in Nat /\ q.bps \in Nat
      /\ q.ref \in 0 .. RefMod - 1 /\ q.bps \in 0 .. BpsMod - 1
  <2>1. RefMod \in Nat \ {0} /\ BpsMod \in Nat \ {0}
    BY SMT DEF RefMod, BpsMod
  <2>2. q \in [price : Nat, ref : 0 .. RefMod - 1, bps : 0 .. BpsMod - 1]
    BY SMT DEF QuotesFit
  <2> QED
    BY <2>1, <2>2
<1>2. \A m \in Nat \ {0} : \A a \in 0 .. m - 1 : a % m = a
  OBVIOUS
<1>3. q.ref % RefMod = q.ref /\ q.bps % BpsMod = q.bps
  <2>1. RefMod \in Nat \ {0} /\ BpsMod \in Nat \ {0}
    BY SMT DEF RefMod, BpsMod
  <2> QED
    BY <1>1, <1>2, <2>1
<1> DEFINE P == q.ref * q.bps
           T == P \div Shift
           d == PriceDiff(q.price, q.ref)
<1>4. P \in Nat /\ q.ref * (2 * q.bps) = 2 * P
  BY <1>1
<1>5. BandBlocks(q) <=> d > T
  BY <1>3 DEF BandBlocks, BandThresh
<1>6. T \in Nat /\ T * Shift <= P /\ P < T * Shift + Shift
  BY <1>4, FloorBounds
<1>7. /\ d \in Nat
      /\ d = q.price - q.ref \/ d = -(q.price - q.ref)
  BY <1>1 DEF PriceDiff
<1>8. /\ WithinBps(q, 2 * q.bps) <=> -(2 * P) <= (q.price - q.ref) * 10000 /\ (q.price - q.ref) * 10000 <= 2 * P
      /\ WithinBps(q, q.bps) <=> -P <= (q.price - q.ref) * 10000 /\ (q.price - q.ref) * 10000 <= P
  BY <1>4, SMT DEF WithinBps
<1> HIDE DEF P, T, d
<1>9. ASSUME ~(d > T) PROVE d * 10000 <= 2 * P
  <2>1. d * Shift <= T * Shift
    BY <1>6, <1>7, <1>9, SMT DEF Shift
  <2> QED
    BY <1>4, <1>6, <1>7, <2>1, SMT DEF Shift
<1>10. ASSUME d > T PROVE d * 10000 > P
  <2>1. d * Shift >= T * Shift + Shift
    BY <1>6, <1>7, <1>10, SMT DEF Shift
  <2> QED
    BY <1>4, <1>6, <1>7, <2>1, SMT DEF Shift
<1>11. ~(d > T) => WithinBps(q, 2 * q.bps)
  BY <1>1, <1>4, <1>7, <1>8, <1>9, SMT
<1>12. d > T => ~WithinBps(q, q.bps)
  BY <1>1, <1>4, <1>7, <1>8, <1>10, SMT
<1> QED
  BY <1>5, <1>11, <1>12, Zenon

\* An order carries the verdict on the quote it entered with, and takes it out.
Banded(p) == p.quote \in Quotes /\ (p.band <=> BandBlocks(p.quote))
BandInv ==
  /\ \A i \in Stages : pipe[i] = None \/ Banded(pipe[i])
  /\ verdict.is = "pass" => verdict.order.quote \in Quotes /\ ~BandBlocks(verdict.order.quote)
  /\ verdict.is = "band" => verdict.order.quote \in Quotes /\ BandBlocks(verdict.order.quote)

LEMMA EnterBanded ==
  ASSUME NEW o \in Order, o # None, NEW k, NEW t
  PROVE  Banded(Enter(o, k, t))
<1>1. o.quote \in Quotes
  BY Zenon DEF Order
<1>2. ASSUME NEW a, NEW b, NEW c, NEW d, NEW f, NEW g, NEW h
      PROVE  LET e == [sym |-> a, side |-> b, shares |-> c, quote |-> d,
                       band |-> f, fat |-> g, killed |-> h]
             IN  e.quote = d /\ e.band = f
  BY Zenon
<1>3. Enter(o, k, t).quote = o.quote /\ Enter(o, k, t).band = BandBlocks(o.quote)
  BY <1>2, Zenon DEF Enter
<1> QED
  BY <1>1, <1>3, Zenon DEF Banded

LEMMA BandStep == BandInv /\ [FeedNext]_feedVars => BandInv'
<1> SUFFICES ASSUME BandInv, [FeedNext]_feedVars PROVE BandInv'
  OBVIOUS
<1>1. CASE UNCHANGED feedVars
  BY <1>1 DEF feedVars, vars, BandInv, Banded
<1>2. CASE FeedReset
  BY <1>2 DEF FeedReset, Reset, BandInv
<1>3. ASSUME NEW o \in Order \cup {None}, Cycle(o)
      PROVE  BandInv'
  <2>1. /\ pipe' = [i \in Stages |-> IF i = 1 THEN Enter(o, kill_sw, tx_overflow) ELSE pipe[i - 1]]
        /\ verdict' = [order |-> pipe[5], is |-> Decide(pipe[5], new_net_r)]
    BY <1>3 DEF Cycle, Clock
  <2>2. ASSUME NEW i \in Stages
        PROVE  pipe'[i] = None \/ Banded(pipe'[i])
    <3>1. CASE i = 1
      BY <2>1, <3>1, EnterBanded DEF Enter
    <3>2. CASE i # 1
      <4>1. i - 1 \in Stages /\ pipe'[i] = pipe[i - 1]
        BY <2>1, <3>2 DEF Stages
      <4> QED
        BY <4>1 DEF BandInv
    <3> QED
      BY <3>1, <3>2
  <2>3. \A i \in Stages : Banded(pipe'[i]) <=> Banded(pipe[i])'
    BY DEF Banded
  <2>4. 5 \in Stages
    BY DEF Stages
  <2>5. Decide(pipe[5], new_net_r) = "pass" => pipe[5] # None /\ ~pipe[5].band
    BY DEF Decide
  <2>6. Decide(pipe[5], new_net_r) = "band" => pipe[5] # None /\ pipe[5].band
    BY DEF Decide
  <2>7. pipe[5] = None \/ Banded(pipe[5])
    BY <2>4 DEF BandInv
  <2>8. verdict'.order = pipe[5] /\ verdict'.is = Decide(pipe[5], new_net_r)
    BY <2>1
  <2> QED
    BY <2>2, <2>3, <2>5, <2>6, <2>7, <2>8, Zenon DEF BandInv, Banded
<1> QED
  BY <1>1, <1>2, <1>3 DEF FeedNext

\* For every quote that fits the registers, whatever the order, its neighbours
\* in the pipeline and the resets: no order passes twice the band away from the
\* reference, and none is rejected within it.
THEOREM BandIsKept == ASSUME QuotesFit PROVE FeedSpec => []BandHolds
<1>1. FeedInit => BandInv
  BY DEF FeedInit, Init, BandInv
<1>2. BandInv => BandHolds
  BY BandBracket, Zenon DEF BandInv, BandHolds, risk_pass
<1> QED
  BY <1>1, <1>2, BandStep, PTL DEF FeedSpec
=============================================================================
