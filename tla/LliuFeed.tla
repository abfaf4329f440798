------------------------------ MODULE LliuFeed ------------------------------
(***************************************************************************)
(* LliuTop with messages in any order and at any distance the parser       *)
(* admits, a transmitter that takes or refuses any beat, and rst.  calm,   *)
(* heartbeat and sent only observe.                                        *)
(***************************************************************************)
EXTENDS LliuTop

CONSTANT MayReset

VARIABLES
  calm,       \* no message on the watchlist has come while another was in progress
  heartbeat,  \* the last of them had a heartbeat, or any one-beat message, right behind it
  sent        \* while calm, net quantity of the orders the OUCH engine has taken

feedVars == <<vars, calm, heartbeat, sent>>

FeedInit == Init /\ calm = TRUE /\ heartbeat = FALSE /\ sent = 0

\* Nothing is between the parser and the transmit bus.
Quiet ==
  /\ \A i \in DelayStages : delay[i] = None
  /\ \A i \in FeatureStages : features[i] = None
  /\ ~Core!busy
  /\ ~best.valid /\ \A i \in 0 .. 3 : ~lv0_r[i].valid
  /\ \A i \in 0 .. 1 : ~lv1_r[i].valid
  /\ \A i \in DOMAIN pipe : pipe[i] = None
  /\ verdict.is = "none"
  /\ ouch_state = "IDLE"

Taken == ouch_state = "IDLE" /\ ToOuch # None
Net(o) == IF o.side = 1 THEN o.shares ELSE -o.shares

\* The stored position with the write-back on its way.
Position == IF pos_wr # None THEN pos_wr.net ELSE pos_mem[Sym]

Cycle(tready) ==
  /\ Clock(tready)
  /\ calm' = (calm /\ (fields_valid => Quiet))
  /\ heartbeat' = IF fields_valid THEN emitting' = Junk ELSE heartbeat
  /\ sent' = IF ~calm' THEN 0 ELSE IF Taken THEN sent + Net(ToOuch) ELSE sent

\* What was sent so far is taken to be what was charged for so far.
FeedReset ==
  /\ MayReset
  /\ Reset
  /\ UNCHANGED <<calm, heartbeat>>
  /\ sent' = IF calm THEN Position ELSE 0

ReadyCycle == Cycle(TRUE)
StallCycle == Cycle(FALSE)
FeedNext == ReadyCycle \/ StallCycle \/ FeedReset
FeedSpec == FeedInit /\ [][FeedNext]_feedVars

-----------------------------------------------------------------------------
\* "At most one inference context is active at any time": no vector is offered
\* to cores that are busy, and would not see it.
OneContext == core_features_valid => ~Core!busy

\* The order the risk check looks at is for the message the cores scored.
ScoredIsChecked == best.valid => held = core_vector

\* The order the OUCH engine sees is the one that passed.
PassedIsSent ==
  Risk!risk_pass => /\ ToOuch.price = verdict.order.quote.price
                    /\ ToOuch.side = verdict.order.side
                    /\ ToOuch.shares = verdict.order.shares

\* The first and the third as long as one message at a time is in the order path.
OneContextWhenCalm == calm => OneContext
PassedIsSentWhenCalm == calm => PassedIsSent

\* The second needs more: the price is held three edges after fields_valid from
\* a register one edge behind the fields, and a heartbeat, whose one beat the
\* parser takes while fields_valid is up, has put its own there by then.
ScoredIsCheckedWhenCalm == calm /\ ~heartbeat => ScoredIsChecked

\* The position charged is the net quantity of the orders sent: no order that
\* passed comes to an OUCH engine that is still busy with another.
ChargedIsSent ==
  calm /\ ~Risk!risk_pass => Position = sent

-----------------------------------------------------------------------------
\* The constants of LliuFeed.cfg: a buy with two best cores, an 'A' of five
\* beats, and a sell far from the market that core 0 wins, an 'F' of six.
bid == [price |-> 1000, side |-> 1]
far == [price |-> 2000, side |-> 0]

\* What the field registers hold after rst, and after any other message.
blankFields == [price |-> 0, side |-> 0]

SampleMessages == {bid, far}
SampleBeats == [m \in SampleMessages |-> IF m = bid THEN 5 ELSE 6]
SampleScore == [m \in SampleMessages |->
  IF m = bid THEN [k \in 0 .. 7 |-> IF k \in {2, 6} THEN 3 ELSE 1] ELSE [k \in 0 .. 7 |-> 8 - k]]
EqualShares == [k \in 0 .. 7 |-> 2]
OwnShares == [k \in 0 .. 7 |-> IF k = 0 THEN 1 ELSE 2]
=============================================================================
