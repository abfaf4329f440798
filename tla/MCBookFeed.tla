----------------------------- MODULE MCBookFeed -----------------------------
(***************************************************************************)
(* Small instances of BookFeed: three references, one symbol, one or two   *)
(* prices and share counts.                                                *)
(***************************************************************************)
EXTENDS BookFeed

CONSTANTS MCRefs, r1, r2, r3

\* Every reference has a base slot of its own.
SpreadHash == [r \in Refs |-> CASE r = r1 -> 0 [] r = r2 -> 1 [] OTHER -> 2]

\* r1 and r2 share the last slot of the table, and their windows wrap around to
\* the base slot of r3.
CrowdedHash == [r \in Refs |-> IF r = r3 THEN 0 ELSE TableSize - 1]

Base == [type |-> "P", ref |-> r1, new_ref |-> r1, price |-> 1, shares |-> 0,
         side |-> "ask", sym |-> 0]

\* The messages of the feed; smaller orders come from cancels and executions.
FeedMsgs ==
  {[Base EXCEPT !.type = "A", !.ref = r, !.price = p, !.shares = MaxShares, !.side = s] :
     r \in Refs, p \in Prices, s \in Sides}
  \cup {[Base EXCEPT !.type = t, !.ref = r, !.shares = q] :
     t \in {"X", "E"}, r \in Refs, q \in 1 .. MaxShares}
  \cup {[Base EXCEPT !.type = "D", !.ref = r] : r \in Refs}
  \cup {[Base EXCEPT !.type = "U", !.ref = r, !.new_ref = n, !.price = p,
                      !.shares = MaxShares, !.side = s] :
     r \in Refs, n \in Refs, p \in Prices, s \in Sides}
=============================================================================
