---------------------------- MODULE TicketLedger ----------------------------
(***************************************************************************)
(* What PostgreSQL promises about tickets, one committed transaction at a  *)
(* time: the tables tickets and ticket_types with the CHECK constraints of *)
(* models/ticket_type.py, and the five kinds of transaction that change    *)
(* them.  There is no Redis, no lock and no half-finished request here;    *)
(* Booking.tla has those and is shown to implement this ledger.            *)
(***************************************************************************)
EXTENDS Integers, FiniteSets

CONSTANTS Types,        \* ids of ticket types
          Tickets,      \* ids of tickets
          TypeOf,       \* the type a ticket id is reserved for
          MaxQuantity   \* bound on tickets_quantity

ASSUME LedgerAssumption ==
    /\ IsFiniteSet(Tickets)
    /\ TypeOf \in [Tickets -> Types]
    /\ MaxQuantity \in Nat

VARIABLES
    status,            \* tickets.status, or that the row is not there (see below)
    tickets_sold,      \* ticket_types.tickets_sold
    tickets_quantity,  \* ticket_types.tickets_quantity; 0 when the type has no row
    excess             \* history: decrements of tickets_sold that no live ticket paid for

vars == <<status, tickets_sold, tickets_quantity, excess>>

\* NONE: the id was never committed.  DELETED: the row was deleted.
Statuses == {"NONE", "RESERVED", "SOLD", "CANCELED", "DELETED"}

OfType(tt) == {t \in Tickets : TypeOf[t] = tt}

\* The tickets that hold a seat.
IsLive(t) == status[t] \in {"RESERVED", "SOLD"}
Live(tt)  == {t \in OfType(tt) : IsLive(t)}

TypeOK ==
    /\ status \in [Tickets -> Statuses]
    /\ tickets_sold \in [Types -> Nat]
    /\ tickets_quantity \in [Types -> 0 .. MaxQuantity]
    /\ excess \in [Types -> Nat]

Init ==
    /\ status = [t \in Tickets |-> "NONE"]
    /\ tickets_sold = [tt \in Types |-> 0]
    /\ tickets_quantity \in [Types -> 0 .. MaxQuantity]
    /\ excess = [tt \in Types |-> 0]

(***************************************************************************)
(* Definitions named ..._Mutant are mistakes the code could have made; no  *)
(* specification uses them.  Each shows that some property would notice.   *)
(***************************************************************************)
\* The CHECK compared with <= before the increment: one sold too many.
Reserve_Mutant(t) ==
    /\ status[t] = "NONE"
    /\ tickets_sold[TypeOf[t]] <= tickets_quantity[TypeOf[t]]
    /\ status' = [status EXCEPT ![t] = "RESERVED"]
    /\ tickets_sold' = [tickets_sold EXCEPT ![TypeOf[t]] = @ + 1]
    /\ UNCHANGED <<tickets_quantity, excess>>

\* TicketService.create commits: the CHECK tickets_quantity >= tickets_sold held.
Reserve(t) ==
    /\ status[t] = "NONE"
    /\ tickets_sold[TypeOf[t]] < tickets_quantity[TypeOf[t]]
    /\ status' = [status EXCEPT ![t] = "RESERVED"]
    /\ tickets_sold' = [tickets_sold EXCEPT ![TypeOf[t]] = @ + 1]
    /\ UNCHANGED <<tickets_quantity, excess>>

\* A payment that forgets the check for CANCELED.
Pay_Mutant(t) ==
    /\ status[t] \in {"RESERVED", "CANCELED"}
    /\ status' = [status EXCEPT ![t] = "SOLD"]
    /\ UNCHANGED <<tickets_sold, tickets_quantity, excess>>

\* PaymentService.pay_for_ticket commits.
Pay(t) ==
    /\ status[t] = "RESERVED"
    /\ status' = [status EXCEPT ![t] = "SOLD"]
    /\ UNCHANGED <<tickets_sold, tickets_quantity, excess>>

\* A sweep that takes one unit per type instead of one per ticket.
Release_Mutant(S) ==
    /\ S # {}
    /\ \A t \in S : status[t] = "RESERVED"
    /\ \A tt \in Types : Cardinality(S \cap OfType(tt)) <= tickets_sold[tt]
    /\ status' = [t \in Tickets |-> IF t \in S THEN "CANCELED" ELSE status[t]]
    /\ tickets_sold' = [tt \in Types |->
                           IF S \cap OfType(tt) = {} THEN tickets_sold[tt]
                                                     ELSE tickets_sold[tt] - 1]
    /\ UNCHANGED <<tickets_quantity, excess>>

\* release_unpaid_ticket (one ticket) or reconcile_hung_tickets (many) commits.
Release(S) ==
    /\ S # {}
    /\ \A t \in S : status[t] = "RESERVED"
    /\ \A tt \in Types : Cardinality(S \cap OfType(tt)) <= tickets_sold[tt]
    /\ status' = [t \in Tickets |-> IF t \in S THEN "CANCELED" ELSE status[t]]
    /\ tickets_sold' = [tt \in Types |->
                           tickets_sold[tt] - Cardinality(S \cap OfType(tt))]
    /\ UNCHANGED <<tickets_quantity, excess>>

\* A table without CHECK tickets_sold >= 0.
Cancel_Mutant(t) ==
    /\ status[t] # "NONE"
    /\ tickets_sold' = [tickets_sold EXCEPT ![TypeOf[t]] = @ - 1]
    /\ status' = [status EXCEPT ![t] = "DELETED"]
    /\ excess' = IF IsLive(t) THEN excess
                              ELSE [excess EXCEPT ![TypeOf[t]] = @ + 1]
    /\ UNCHANGED tickets_quantity

(***************************************************************************)
(* TicketService.delete commits.  It decrements tickets_sold whatever the  *)
(* status of the ticket is and whether or not the row is still there: a    *)
(* decrement for a ticket that no longer holds a seat is an excess one.    *)
(***************************************************************************)
Cancel(t) ==
    /\ status[t] # "NONE"
    /\ tickets_sold[TypeOf[t]] > 0
    /\ tickets_sold' = [tickets_sold EXCEPT ![TypeOf[t]] = @ - 1]
    /\ status' = [status EXCEPT ![t] = "DELETED"]
    /\ excess' = IF IsLive(t) THEN excess
                              ELSE [excess EXCEPT ![TypeOf[t]] = @ + 1]
    /\ UNCHANGED tickets_quantity

\* A foreign key that sees only the tickets that hold a seat.
Resize_Mutant(tt, n) ==
    /\ n >= tickets_sold[tt]
    /\ n = 0 => Live(tt) = {}
    /\ tickets_quantity' = [tickets_quantity EXCEPT ![tt] = n]
    /\ UNCHANGED <<status, tickets_sold, excess>>

\* A ticket type is created (from 0), resized, or deleted (to 0, by the
\* foreign key only when no ticket row refers to it).
Resize(tt, n) ==
    /\ n >= tickets_sold[tt]
    /\ n = 0 => \A t \in OfType(tt) : status[t] \in {"NONE", "DELETED"}
    /\ tickets_quantity' = [tickets_quantity EXCEPT ![tt] = n]
    /\ UNCHANGED <<status, tickets_sold, excess>>

Next ==
    \/ \E t \in Tickets : Reserve(t) \/ Pay(t) \/ Cancel(t)
    \/ \E S \in SUBSET Tickets : Release(S)
    \/ \E tt \in Types, n \in 0 .. MaxQuantity : Resize(tt, n)

Spec == Init /\ [][Next]_vars
-----------------------------------------------------------------------------
(***************************************************************************)
(* Every ticket that holds a seat is counted in tickets_sold, and the only *)
(* way the counter can fall behind is an excess decrement: the counter is  *)
(* an exact account of the seats, corrected by the history of cancellations*)
(* (create, release, sweep and delete each change both sides).             *)
(***************************************************************************)
Balanced ==
    \A tt \in Types : Cardinality(Live(tt)) = tickets_sold[tt] + excess[tt]

\* The CHECK constraint of ticket_types: never more sold than there are.
Capacity == \A tt \in Types : tickets_sold[tt] <= tickets_quantity[tt]

(***************************************************************************)
(* The overselling promise, as far as the code keeps it: a type none of    *)
(* whose cancellations was an excess one never has more tickets holding a  *)
(* seat than it has seats, through resizes too.                            *)
(***************************************************************************)
NoOversellWithoutExcess ==
    \A tt \in Types :
        excess[tt] = 0 => Cardinality(Live(tt)) <= tickets_quantity[tt]

(***************************************************************************)
(* Referential integrity: every ticket row, a canceled one too, belongs to *)
(* a type with a row (the foreign key of tickets against the delete of a   *)
(* type that has sold nothing or has had everything given back).           *)
(***************************************************************************)
RowsHaveTypes ==
    \A t \in Tickets :
        status[t] \notin {"NONE", "DELETED"} => tickets_quantity[TypeOf[t]] > 0

(***************************************************************************)
(* A ticket that stopped holding a seat never holds one again, and an id   *)
(* is never reissued: no step takes a canceled or deleted ticket back to   *)
(* RESERVED or SOLD, and a paid ticket never returns to RESERVED.          *)
(***************************************************************************)
NeverRevived ==
    [][\A t \in Tickets :
          /\ status[t] \in {"CANCELED", "DELETED"} => ~IsLive(t)'
          /\ status[t] = "SOLD" => status'[t] # "RESERVED"]_vars
=============================================================================
