------------------------------ MODULE OrderMap ------------------------------
(***************************************************************************)
(* What the order book's reference table promises, with no hashing, no     *)
(* probing and no clock: a map from order references to orders that        *)
(* follows the exchange's orders one message at a time.                    *)
(***************************************************************************)
EXTENDS Integers

CONSTANTS Refs, Orders, Gone

VARIABLES
  live,     \* the exchange's orders: Refs -> Orders \cup {Gone}
  orders    \* the book's orders

mapVars == <<live, orders>>

MapInit ==
  /\ live = [r \in Refs |-> Gone]
  /\ orders = live

\* One message changes one order, or moves it to a new reference (Replace).
Enter(r, o) == live[r] = Gone /\ live' = [live EXCEPT ![r] = o]
Shrink(r, n) == /\ live[r] # Gone
                /\ n < live[r].shares
                /\ live' = [live EXCEPT ![r].shares = n]
Leave(r) == live[r] # Gone /\ live' = [live EXCEPT ![r] = Gone]
Move(r, n, o) == /\ live[r] # Gone
                 /\ live[n] = Gone
                 /\ live' = [live EXCEPT ![r] = Gone, ![n] = o]

\* The next message comes when the last one has been carried out.
Submit ==
  /\ orders = live
  /\ \/ \E r \in Refs, o \in Orders : Enter(r, o)
     \/ \E r \in Refs : live[r] # Gone /\ \E n \in 0 .. live[r].shares - 1 : Shrink(r, n)
     \/ \E r \in Refs : Leave(r)
     \/ \E r, n \in Refs, o \in Orders : Move(r, n, o)
  /\ UNCHANGED orders

\* It is carried out in one step, a Replace included.
Perform ==
  /\ orders # live
  /\ orders' = live
  /\ UNCHANGED live

MapNext == Submit \/ Perform

MapSpec == MapInit /\ [][MapNext]_mapVars /\ WF_mapVars(Perform)
=============================================================================
