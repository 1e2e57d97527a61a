--------------------------- MODULE MCIdempotency ---------------------------
(***************************************************************************)
(* Instances of Idempotency for TLC.                                       *)
(***************************************************************************)
EXTENDS Idempotency

CONSTANTS r1, r2, r3, r4

\* Calls with the same payload, but for one.
MCPayload == [r \in Requests |-> IF r = r4 THEN "other" ELSE "same"]

=============================================================================
