------------------------- MODULE TicketLedgerProofs -------------------------
(***************************************************************************)
(* The ledger is balanced and within capacity, for any number of tickets,  *)
(* types and seats.  The inductive invariant is Inv: the bound on the live *)
(* tickets follows from the balance and the CHECK, and is not inductive    *)
(* without them.                                                           *)
(***************************************************************************)
EXTENDS TicketLedger, FiniteSetTheorems, TLAPS

Inv == TypeOK /\ Capacity /\ Balanced

\* Any set of tickets has a cardinality: used for the live and released ones.
LEMMA FiniteTickets ==
    ASSUME NEW S \in SUBSET Tickets
    PROVE  IsFiniteSet(S) /\ Cardinality(S) \in Nat
BY FS_Subset, FS_CardinalityType, LedgerAssumption

\* Init establishes the invariant: no ticket is live and none is counted.
LEMMA LedgerInit == Init => Inv
<1> SUFFICES ASSUME Init PROVE Inv
  OBVIOUS
<1>1. TypeOK /\ Capacity
  BY DEF Init, TypeOK, Capacity, Statuses
<1>2. ASSUME NEW tt \in Types PROVE Live(tt) = {}
  BY DEF Init, Live, IsLive, OfType
<1>3. Balanced
  BY <1>2, FS_EmptySet DEF Init, Balanced
<1> QED BY <1>1, <1>3 DEF Inv

\* Each transaction keeps the types, the CHECK and the balance.
LEMMA ReserveStep ==
    ASSUME Inv, NEW t \in Tickets, Reserve(t) PROVE Inv'
<1> USE LedgerAssumption DEF Inv
<1>1. TypeOf[t] \in Types
  OBVIOUS
<1>2. TypeOK' /\ Capacity'
  BY <1>1 DEF Reserve, TypeOK, Capacity, Statuses
<1>3. ASSUME NEW tt \in Types
      PROVE  Cardinality(Live(tt))' = tickets_sold'[tt] + excess'[tt]
  <2>1. IsFiniteSet(Live(tt)) /\ Cardinality(Live(tt)) \in Nat
    BY FiniteTickets DEF Live, OfType
  <2>2. CASE tt = TypeOf[t]
    <3>1. Live(tt)' = Live(tt) \cup {t} /\ t \notin Live(tt)
      BY <2>2 DEF Reserve, Live, IsLive, OfType, TypeOK
    <3>2. Cardinality(Live(tt))' = Cardinality(Live(tt)) + 1
      BY <3>1, <2>1, FS_AddElement
    <3> QED BY <3>2, <2>2, <1>1, <2>1 DEF Reserve, TypeOK, Balanced
  <2>3. CASE tt # TypeOf[t]
    <3>1. Live(tt)' = Live(tt)
      BY <2>3 DEF Reserve, Live, IsLive, OfType, TypeOK
    <3> QED BY <3>1, <2>3, <1>1 DEF Reserve, TypeOK, Balanced
  <2> QED BY <2>2, <2>3
<1> QED BY <1>2, <1>3 DEF Balanced

LEMMA PayStep ==
    ASSUME Inv, NEW t \in Tickets, Pay(t) PROVE Inv'
<1> USE DEF Inv
<1>1. TypeOK' /\ Capacity'
  BY DEF Pay, TypeOK, Capacity, Statuses
<1>2. ASSUME NEW tt \in Types PROVE Live(tt)' = Live(tt)
  BY DEF Pay, Live, IsLive, OfType, TypeOK
<1>3. Balanced'
  BY <1>2 DEF Balanced, Pay
<1> QED BY <1>1, <1>3

LEMMA ReleaseStep ==
    ASSUME Inv, NEW S \in SUBSET Tickets, Release(S) PROVE Inv'
<1> USE DEF Inv
<1>1. ASSUME NEW tt \in Types
      PROVE  /\ Cardinality(S \cap OfType(tt)) \in Nat
             /\ Live(tt) \cap (S \cap OfType(tt)) = S \cap OfType(tt)
             /\ Live(tt)' = Live(tt) \ (S \cap OfType(tt))
             /\ IsFiniteSet(Live(tt)) /\ Cardinality(Live(tt)) \in Nat
  <2>1. Cardinality(S \cap OfType(tt)) \in Nat
    BY FiniteTickets
  <2>2. Live(tt) \cap (S \cap OfType(tt)) = S \cap OfType(tt)
    BY DEF Release, Live, IsLive, OfType
  <2>3. Live(tt)' = Live(tt) \ (S \cap OfType(tt))
    BY DEF Release, Live, IsLive, OfType
  <2>4. IsFiniteSet(Live(tt)) /\ Cardinality(Live(tt)) \in Nat
    BY FiniteTickets DEF Live, OfType
  <2> QED BY <2>1, <2>2, <2>3, <2>4
<1>2. status' \in [Tickets -> Statuses]
  BY DEF Release, TypeOK, Statuses
<1>3. tickets_sold' \in [Types -> Nat] /\ Capacity'
  <2>1. ASSUME NEW tt \in Types
        PROVE  /\ tickets_sold'[tt] = tickets_sold[tt] - Cardinality(S \cap OfType(tt))
               /\ tickets_sold'[tt] \in Nat
               /\ tickets_sold'[tt] <= tickets_quantity'[tt]
    <3>1. tickets_sold'[tt] = tickets_sold[tt] - Cardinality(S \cap OfType(tt))
      BY DEF Release
    <3>2. Cardinality(S \cap OfType(tt)) \in Nat
      BY <1>1
    <3>3. Cardinality(S \cap OfType(tt)) <= tickets_sold[tt]
      BY DEF Release
    <3>4. tickets_sold[tt] <= tickets_quantity[tt]
      BY DEF Capacity
    <3>5. tickets_sold[tt] \in Nat /\ tickets_quantity[tt] \in Nat
      BY LedgerAssumption DEF TypeOK
    <3>6. tickets_quantity' = tickets_quantity
      BY DEF Release
    <3> QED BY <3>1, <3>2, <3>3, <3>4, <3>5, <3>6
  <2>2. tickets_sold' = [tt \in Types |->
                           tickets_sold[tt] - Cardinality(S \cap OfType(tt))]
    BY DEF Release
  <2>3. tickets_sold' \in [Types -> Nat]
    BY <2>1, <2>2
  <2> QED BY <2>1, <2>3 DEF Capacity
<1>4. TypeOK'
  BY <1>2, <1>3 DEF Release, TypeOK
<1>5. ASSUME NEW tt \in Types
      PROVE  Cardinality(Live(tt))' = tickets_sold'[tt] + excess'[tt]
  <2>1. Cardinality(Live(tt)') = Cardinality(Live(tt)) - Cardinality(S \cap OfType(tt))
    <3>1. Cardinality(Live(tt) \ (S \cap OfType(tt)))
            = Cardinality(Live(tt)) - Cardinality(Live(tt) \cap (S \cap OfType(tt)))
      BY <1>1, FS_Difference
    <3> QED BY <1>1, <3>1
  <2>2. Cardinality(Live(tt)) = tickets_sold[tt] + excess[tt]
    BY DEF Balanced
  <2>3. /\ tickets_sold'[tt] = tickets_sold[tt] - Cardinality(S \cap OfType(tt))
        /\ excess'[tt] = excess[tt]
    BY DEF Release
  <2>4. tickets_sold[tt] \in Nat /\ excess[tt] \in Nat
    BY DEF TypeOK
  <2> QED BY <1>1, <2>1, <2>2, <2>3, <2>4
<1> QED BY <1>3, <1>4, <1>5 DEF Balanced

LEMMA CancelStep ==
    ASSUME Inv, NEW t \in Tickets, Cancel(t) PROVE Inv'
<1> USE LedgerAssumption DEF Inv
<1>1. TypeOf[t] \in Types
  OBVIOUS
<1>2. TypeOK' /\ Capacity'
  BY <1>1 DEF Cancel, TypeOK, Capacity, Statuses
<1>3. ASSUME NEW tt \in Types
      PROVE  Cardinality(Live(tt))' = tickets_sold'[tt] + excess'[tt]
  <2>1. IsFiniteSet(Live(tt)) /\ Cardinality(Live(tt)) \in Nat
    BY FiniteTickets DEF Live, OfType
  <2>2. Live(tt)' = Live(tt) \ {t}
    BY DEF Cancel, Live, IsLive, OfType, TypeOK
  <2>3. Cardinality(Live(tt))' =
            IF t \in Live(tt) THEN Cardinality(Live(tt)) - 1 ELSE Cardinality(Live(tt))
    BY <2>1, <2>2, FS_RemoveElement
  <2>4. t \in Live(tt) <=> tt = TypeOf[t] /\ IsLive(t)
    BY DEF Live, OfType
  <2>5. Cardinality(Live(tt)) = tickets_sold[tt] + excess[tt]
    BY DEF Balanced
  <2> QED BY <1>1, <2>1, <2>3, <2>4, <2>5 DEF Cancel, TypeOK
<1> QED BY <1>2, <1>3 DEF Balanced

LEMMA ResizeStep ==
    ASSUME Inv, NEW tt \in Types, NEW n \in 0 .. MaxQuantity, Resize(tt, n) PROVE Inv'
<1> USE DEF Inv
<1>1. TypeOK' /\ Capacity'
  BY LedgerAssumption DEF Resize, TypeOK, Capacity
<1>2. ASSUME NEW u \in Types PROVE Live(u)' = Live(u)
  BY DEF Resize, Live, IsLive, OfType
<1>3. Balanced'
  BY <1>2 DEF Balanced, Resize
<1> QED BY <1>1, <1>3

\* The invariant is inductive.
LEMMA LedgerStep == Inv /\ [Next]_vars => Inv'
<1> SUFFICES ASSUME Inv, [Next]_vars PROVE Inv'
  OBVIOUS
<1>1. ASSUME NEW t \in Tickets, Reserve(t) PROVE Inv'
  BY <1>1, ReserveStep
<1>2. ASSUME NEW t \in Tickets, Pay(t) PROVE Inv'
  BY <1>2, PayStep
<1>3. ASSUME NEW t \in Tickets, Cancel(t) PROVE Inv'
  BY <1>3, CancelStep
<1>4. ASSUME NEW S \in SUBSET Tickets, Release(S) PROVE Inv'
  BY <1>4, ReleaseStep
<1>5. ASSUME NEW tt \in Types, NEW n \in 0 .. MaxQuantity, Resize(tt, n) PROVE Inv'
  BY <1>5, ResizeStep
<1>6. CASE UNCHANGED vars
  BY <1>6 DEF vars, Inv, TypeOK, Capacity, Balanced, Live, IsLive, OfType
<1> QED BY <1>1, <1>2, <1>3, <1>4, <1>5, <1>6 DEF Next

(***************************************************************************)
(* In every state of the ledger the counters have their types, the CHECK   *)
(* holds and the seats are accounted for.                                  *)
(***************************************************************************)
THEOREM LedgerInvariant == Spec => []Inv
BY LedgerInit, LedgerStep, PTL DEF Spec

\* The ledger's variables keep their types.
THEOREM LedgerTypeCorrect == Spec => []TypeOK
<1>1. Inv => TypeOK
  BY DEF Inv
<1> QED BY <1>1, LedgerInvariant, PTL

\* Live tickets = tickets_sold + excess decrements, always.
THEOREM LedgerBalanced == Spec => []Balanced
<1>1. Inv => Balanced
  BY DEF Inv
<1> QED BY <1>1, LedgerInvariant, PTL

(***************************************************************************)
(* No overselling as long as no cancellation decremented tickets_sold for  *)
(* a ticket without a seat (services/ticket.py:216-224).                   *)
(***************************************************************************)
THEOREM LedgerNoOversell == Spec => []NoOversellWithoutExcess
<1>1. Inv => NoOversellWithoutExcess
  BY DEF Inv, TypeOK, Capacity, Balanced, NoOversellWithoutExcess
<1> QED BY <1>1, LedgerInvariant, PTL

(***************************************************************************)
(* A seat once given up is never held by the same ticket again, and a      *)
(* payment is never undone except by deleting the ticket.                  *)
(***************************************************************************)
THEOREM LedgerNeverRevived == Spec => NeverRevived
<1>1. Inv /\ [Next]_vars =>
         [\A t \in Tickets :
             /\ status[t] \in {"CANCELED", "DELETED"} => ~IsLive(t)'
             /\ status[t] = "SOLD" => status'[t] # "RESERVED"]_vars
  <2> SUFFICES ASSUME Inv, Next, NEW t \in Tickets
               PROVE  /\ status[t] \in {"CANCELED", "DELETED"} => ~IsLive(t)'
                      /\ status[t] = "SOLD" => status'[t] # "RESERVED"
    OBVIOUS
  <2> USE DEF Inv, TypeOK, IsLive
  <2>1. ASSUME NEW u \in Tickets, Reserve(u) \/ Pay(u) \/ Cancel(u)
        PROVE  /\ status[t] \in {"CANCELED", "DELETED"} => ~IsLive(t)'
               /\ status[t] = "SOLD" => status'[t] # "RESERVED"
    BY <2>1 DEF Reserve, Pay, Cancel
  <2>2. ASSUME NEW S \in SUBSET Tickets, Release(S)
        PROVE  /\ status[t] \in {"CANCELED", "DELETED"} => ~IsLive(t)'
               /\ status[t] = "SOLD" => status'[t] # "RESERVED"
    BY <2>2 DEF Release
  <2>3. ASSUME NEW tt \in Types, NEW n \in 0 .. MaxQuantity, Resize(tt, n)
        PROVE  /\ status[t] \in {"CANCELED", "DELETED"} => ~IsLive(t)'
               /\ status[t] = "SOLD" => status'[t] # "RESERVED"
    BY <2>3 DEF Resize
  <2> QED BY <2>1, <2>2, <2>3 DEF Next
<1> QED BY <1>1, LedgerInvariant, PTL DEF Spec, NeverRevived

(***************************************************************************)
(* No ticket row outlives its type (models/ticket.py: the foreign key).    *)
(***************************************************************************)
THEOREM LedgerRowsHaveTypes == Spec => []RowsHaveTypes
<1>1. Init => RowsHaveTypes
  BY DEF Init, RowsHaveTypes
<1>2. Inv /\ RowsHaveTypes /\ [Next]_vars => RowsHaveTypes'
  <2> SUFFICES ASSUME Inv, RowsHaveTypes, [Next]_vars, NEW t \in Tickets,
                      status'[t] \notin {"NONE", "DELETED"}
               PROVE  tickets_quantity'[TypeOf[t]] > 0
    BY DEF RowsHaveTypes
  <2>1. /\ TypeOf[t] \in Types
        /\ status \in [Tickets -> Statuses]
        /\ tickets_sold[TypeOf[t]] \in Nat
        /\ tickets_quantity \in [Types -> Nat]
    BY LedgerAssumption DEF Inv, TypeOK
  <2>2. status[t] \notin {"NONE", "DELETED"} => tickets_quantity[TypeOf[t]] > 0
    BY DEF RowsHaveTypes
  <2>3. ASSUME NEW u \in Tickets, Reserve(u)
        PROVE  tickets_quantity'[TypeOf[t]] > 0
    BY <2>1, <2>2, <2>3 DEF Reserve
  <2>4. ASSUME NEW u \in Tickets, Pay(u) \/ Cancel(u)
        PROVE  tickets_quantity'[TypeOf[t]] > 0
    BY <2>1, <2>2, <2>4 DEF Pay, Cancel
  <2>5. ASSUME NEW S \in SUBSET Tickets, Release(S)
        PROVE  tickets_quantity'[TypeOf[t]] > 0
    BY <2>1, <2>2, <2>5 DEF Release
  <2>6. ASSUME NEW tt \in Types, NEW n \in 0 .. MaxQuantity, Resize(tt, n)
        PROVE  tickets_quantity'[TypeOf[t]] > 0
    <3>1. status[t] \notin {"NONE", "DELETED"}
      BY <2>6 DEF Resize
    <3>2. TypeOf[t] = tt => n # 0
      BY <2>6, <3>1 DEF Resize, OfType
    <3> QED BY <2>1, <2>2, <2>6, <3>1, <3>2 DEF Resize
  <2>7. CASE UNCHANGED vars
    BY <2>2, <2>7 DEF vars
  <2> QED BY <2>3, <2>4, <2>5, <2>6, <2>7 DEF Next
<1> QED BY <1>1, <1>2, LedgerInvariant, PTL DEF Spec
=============================================================================
