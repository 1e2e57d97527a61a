------------------------------ MODULE MCBooking ------------------------------
(* Small instances of Booking for TLC. *)
EXTENDS Booking, TLC

CONSTANTS a, b,             \* ticket types
          t1, t2, t3, t4,   \* tickets
          b1, b2, c1, c2, p1, d1, r1, s1, g1   \* processes

\* One ticket type with two seats.
OneType    == [t \in Tickets |-> a]
TwoSeats   == [tt \in Types |-> 2]
TwoTypes   == [t \in Tickets |-> IF t = t1 THEN a ELSE b]
TargetBoth == [p \in Buyers \cup Admins |-> IF p = b1 THEN a ELSE b]
OneSeat    == [tt \in Types |-> 1]
NotCreated == [tt \in Types |-> 0]
AllTargetA == [p \in Buyers \cup Admins |-> a]

\* Ids are drawn in any order here, and no definition tells them apart.
TicketSymmetry == Permutations(Tickets)
RequestSymmetry ==
    Permutations(Tickets) \cup Permutations(Buyers) \cup Permutations(Cancelers)

(***************************************************************************)
(* Tickets enough for two types would be too many states under fairness:   *)
(* this instance starts later.  Of the tickets of b, t2 was reserved and   *)
(* canceled by its release job, and t3 is reserved and due, with its job   *)
(* in the queue; their buyer has been served.                              *)
(***************************************************************************)
LaterInit ==
    /\ status = (t1 :> "FREE") @@ (t2 :> "CANCELED") @@ (t3 :> "RESERVED")
    /\ tickets_sold = (a :> 0) @@ (b :> 1)
    /\ tickets_quantity = Capacity0
    /\ created = Types
    /\ expired = {t2, t3}
    /\ typeLock = [tt \in Types |-> None]
    /\ rowLock = [t \in Tickets |-> None]
    /\ redis = (ApiDb    :> [WarmDatabase EXCEPT !.inventory[b] = 0, !.active = {t2, t3}])
                 @@ (WorkerDb :> [EmptyDatabase EXCEPT !.canceled = {t2}])
    /\ jobs = {t3}
    /\ task = [p \in Procs |-> Idle]
    /\ faults = 0
    /\ excess = [tt \in Types |-> 0]
    /\ inflated = [tt \in Types |-> 0]

LaterSpec == LaterInit /\ [][Next]_vars /\ Fairness

\* LaterInit is a state of Spec: TLC finds it when told that it is not.
NeverLater == ~ LaterInit
=============================================================================
