------------------------------ MODULE OuchFeed ------------------------------
(***************************************************************************)
(* OuchEngine with an order offered in any cycle, a transmitter that takes *)
(* or refuses any beat, template words written in any cycle, and resets.   *)
(* The variables declared here only observe the pins.                      *)
(***************************************************************************)
EXTENDS OuchEngine, Sequences

CONSTANTS MayWrite, MayReset

\* The orders of the run ouch: one for each symbol.
OrderPerSym == {[sym |-> s] : s \in Syms}

VARIABLES
  rx,         \* beats of the frame being received: bus signals and packet
  frames,     \* complete frames received since reset
  serving,    \* the order taken from risk_check and not yet received in full
  seen,       \* contents its template entry has had since it was taken
  released,   \* the last edge transferred the beat or reset the engine
  stall_run,  \* edges in a row that refused a beat, up to StallLimit
  free_run    \* edges in a row that refused none, up to ClearLimit

pins == <<rx, frames, serving, seen, released, stall_run, free_run>>
feedVars == <<vars, pins>>

FeedInit ==
  /\ Init
  /\ rx = <<>> /\ frames = 0 /\ serving = NoOrder /\ seen = {}
  /\ released = TRUE /\ stall_run = 0 /\ free_run = 0

Taken(ready) == axis.valid /\ ready
Refused(ready) == axis.valid /\ ~ready
Counting(run, limit, more) ==
  IF ~more THEN 0 ELSE IF run < limit THEN run + 1 ELSE run

Receive(ready) ==
  /\ rx' = IF ~Taken(ready) THEN rx
           ELSE IF axis.last \/ Len(rx) > LastBeat THEN <<>>
           ELSE Append(rx, [beat |-> axis.beat, pkt |-> packet])
  /\ frames' = IF Taken(ready) /\ axis.last THEN (frames + 1) % TokenMod ELSE frames
  /\ released' = Taken(ready)
  /\ stall_run' = Counting(stall_run, StallLimit, Refused(ready))
  /\ free_run' = Counting(free_run, ClearLimit, ~Refused(ready))

Observe(o, ready) ==
  /\ serving' = IF state = "IDLE" /\ o # NoOrder THEN o
                ELSE IF Taken(ready) /\ axis.last THEN NoOrder ELSE serving
  /\ seen' = IF state' = "IDLE" THEN {}
             ELSE IF state' = "SEND" THEN seen ELSE seen \cup {tmpl'[latch'.sym]}

TmplPort ==
  \/ NoTmplWrite
  \/ MayWrite /\ \E s \in Syms, w \in Words, c \in Contents : TmplWrite(s, w, c)

Cycle(o, ready) ==
  Clock(o, ready) /\ TmplPort /\ Receive(ready) /\ Observe(o, ready)

FeedReset ==
  /\ MayReset
  /\ Reset /\ TmplPort
  /\ rx' = <<>> /\ frames' = 0 /\ serving' = NoOrder /\ seen' = {}
  /\ released' = TRUE /\ stall_run' = 0 /\ free_run' = 0

ReadyCycle == \E o \in Orders \cup {NoOrder} : Cycle(o, TRUE)
StallCycle == \E o \in Orders \cup {NoOrder} : Cycle(o, FALSE)
FeedNext == ReadyCycle \/ StallCycle \/ FeedReset

FeedSpec == FeedInit /\ [][FeedNext]_feedVars

\* The clock does not stop, and a transmitter does not refuse for ever.
LiveSpec == FeedSpec /\ SF_feedVars(ReadyCycle)

-----------------------------------------------------------------------------
\* The receiver gets beats 0 to 5 of one packet, each once and in order, with
\* m_axis_tlast on beat 5 and nowhere else.
WellFramed ==
  /\ \A i \in DOMAIN rx : rx[i].beat = i - 1 /\ rx[i].pkt = rx[1].pkt
  /\ axis.valid => /\ axis.beat = Len(rx)
                   /\ axis.last = (Len(rx) = LastBeat)
                   /\ Len(rx) > 0 => packet = rx[1].pkt

\* The packet carries the order that was taken, the next token in sequence and
\* a template its symbol's entry held, as a whole, while the order was served.
CarriesTheOrder ==
  axis.valid => /\ packet.order = serving
                /\ packet.token = frames
                /\ packet.tmpl \in seen

\* tx_overflow rises only after StallLimit refusals in a row and falls only
\* after ClearLimit edges in a row without one, or with rst (which has both runs
\* at 0).
WatchdogHonest ==
  [][/\ ~tx_overflow /\ tx_overflow' => stall_run' = StallLimit
     /\ tx_overflow /\ ~tx_overflow' =>
          free_run' = ClearLimit \/ free_run' + stall_run' = 0]_feedVars

\* Every order taken is sent in full.
SentInTheEnd == serving # NoOrder ~> serving = NoOrder
=============================================================================
