--------------------------- MODULE MCTicketLedger ---------------------------
(* A small instance of TicketLedger: two types, four tickets. *)
EXTENDS TicketLedger, TLC

CONSTANTS a, b, t1, t2, t3, t4

MCTypeOf == [t \in Tickets |-> IF t = t4 THEN b ELSE a]
SameType == Permutations({t1, t2, t3})
=============================================================================
