------------------------------- MODULE MCApi --------------------------------
(* A small instance of Api for TLC. *)
EXTENDS Api, TLC

CONSTANTS r1, r2, r3

\* A request for any endpoint, beside one that locks the row and one that
\* takes a connection: a readiness probe.
MCOffers == (r1 :> Endpoints) @@ (r2 :> {delete_ticket}) @@ (r3 :> {readiness_probe})

\* PostgreSQL and Redis may fail the first one.
MCFaults == [r \in Requests |->
                IF r = r1 THEN {"connect", "database", "redis"} ELSE {}]
=============================================================================
