------------------------------ MODULE MCAgent1 ------------------------------
(* Agent1 on small instances. *)
EXTENDS Agent1

CONSTANTS p1, p2, m1, m2, reuters

\* At two basis points 9998 is a break of 10000, 10001 is none.
AnyQuote == {9998, 10001}
AnyPrice == {0, 10000}
=============================================================================
