--------------------------- MODULE MCCocotbBench ---------------------------
(***************************************************************************)
(* Datagrams whose last beat makes no extra one behind the stripper, two   *)
(* watchlist entries and stocks, frames of one message or two, and for     *)
(* lliu_top three Add Orders or two among the messages of a file: one with *)
(* more messages than are taken, one that ends in a message cut short and  *)
(* one with an empty message.                                              *)
(* The weights are those of test_periodic_stall times four.                *)
(***************************************************************************)
EXTENDS CocotbBench

MCLists == {<<36>>, <<36, 19>>}
MCSrcIp == <<2560, 1>>
MCDstIp == <<59702, 3072>>
MCWeights == <<2, -4, 1, 8>>
MCPrices == <<1000, 1100, 1300>>
Chunk(type, len, whole) == [type |-> type, len |-> len, whole |-> whole, n |-> 0]
MCFiles == {<<Chunk("S", 12, TRUE), Chunk("R", 39, TRUE), Chunk("S", 12, TRUE),
              Chunk("R", 39, TRUE), Chunk("A", 36, TRUE)>>,
            <<Chunk("S", 12, TRUE), Chunk("R", 39, TRUE), Chunk("R", 39, TRUE),
              Chunk("S", 12, FALSE)>>,
            <<Chunk("S", 12, TRUE), Chunk("S", 12, TRUE), Chunk("S", 0, TRUE),
              Chunk("R", 39, TRUE)>>}

\* References 1..3, of which the pair that find_collision_pair returns shares a
\* bucket.
PairHash == [r \in Refs |-> IF r = 3 THEN 0 ELSE r - 1]
ASSUME PairAssumption == Book!Model!find_collision_pair(Refs) = <<1, 3>>

Base == [type |-> "P", ref |-> 1, new_ref |-> 1, price |-> 1, shares |-> 1,
         side |-> "ask", sym |-> 0]

\* Bids come at two prices, with two shares; asks at one price, with one share,
\* and not from reference 3.
Offer(p, s) == s = "bid" \/ p = 1
Size(s) == IF s = "bid" THEN MaxShares ELSE 1
Offers(t) == {[Base EXCEPT !.type = t, !.ref = r, !.new_ref = n, !.price = p,
                           !.shares = Size(s), !.side = s] :
                r \in Refs, n \in (IF t = "U" THEN Refs ELSE {1}),
                p \in BookPrices, s \in {"bid", "ask"}}
BenchMsgs ==
  {m \in Offers("A") \cup Offers("U") : Offer(m.price, m.side)
                                              /\ (m.side = "ask" => 3 \notin {m.ref, m.new_ref})}
  \cup {[Base EXCEPT !.type = t, !.ref = r] : t \in {"X", "D"}, r \in Refs}
  \cup {[Base EXCEPT !.type = "E", !.ref = r, !.shares = q] :
           r \in Refs, q \in 1 .. MaxShares}
=============================================================================
