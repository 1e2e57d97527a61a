---------------------------- MODULE BookingProofs ----------------------------
(***************************************************************************)
(* The booking model keeps its types and its lock discipline and is an     *)
(* implementation of the ticket ledger, for any number of processes,       *)
(* tickets, types and seats, any wiring of the Redis databases and any     *)
(* faults.                                                                 *)
(*                                                                         *)
(* The argument is rely/guarantee.  Holds(q) says what process q relies    *)
(* on; Respects(p) says that a step of p touches nothing that any other    *)
(* process holds.  Interference combines the two, so that the lemma of an  *)
(* action has to speak about the process that takes it only.               *)
(***************************************************************************)
EXTENDS Booking, FiniteSetTheorems, TLAPS

L == INSTANCE TicketLedgerProofs
         WITH status <- [t \in Tickets |-> Committed(status[t])]

\* TypeOK in parts, as the actions touch it; faults is counted by Next alone.
RowsOK ==
    /\ status \in [Tickets -> Statuses]
    /\ tickets_sold \in [Types -> Nat]
    /\ tickets_quantity \in [Types -> 0 .. MaxQuantity]
    /\ created \in SUBSET Types
    /\ expired \in SUBSET Tickets
    /\ excess \in [Types -> Nat]
    /\ inflated \in [Types -> Nat]
LocksOK ==
    /\ typeLock \in [Types -> Procs \cup {None}]
    /\ rowLock \in [Tickets -> Procs \cup {None}]
RedisOK ==
    /\ redis \in [{ApiDb, WorkerDb} -> Database]
    /\ jobs \in SUBSET Tickets
TaskOK == task \in [Procs -> Locals]

\* A type has a row only after the sequence has handed out its id.
CatalogOK == \A tt \in Types : TypeRow(tt) => tt \in created

IInv == TypeOK /\ LockDiscipline /\ L!Inv /\ CatalogOK

\* What a step must establish, but for the count of faults and the catalog.
Preserved == /\ RowsOK' /\ LocksOK' /\ RedisOK' /\ TaskOK'
             /\ LockDiscipline'
             /\ [L!Next]_(L!vars)

\* Only p moves.
Moves(p) == TaskOK' /\ \A q \in Procs \ {p} : task'[q] = task[q]

\* p leaves alone what the other processes hold.
Respects(p) ==
    /\ \A q \in Procs \ {p} : task'[q] = task[q]
    /\ \A q \in Procs \ {p}, t \in Tickets :
          rowLock[t] = q => rowLock'[t] = q /\ status'[t] = status[t]
    /\ \A q \in Procs \ {p}, tt \in Types :
          /\ typeLock'[tt] = q <=> typeLock[tt] = q
          /\ typeLock[tt] = q =>
                /\ tickets_sold'[tt] = tickets_sold[tt]
                /\ TypeRow(tt) => tickets_quantity'[tt] = tickets_quantity[tt]
    /\ \A t \in Tickets : status[t] \notin {"FREE", "DRAWN", "VOID"}
                             => status'[t] \notin {"FREE", "DRAWN", "VOID"}

\* Where a process holds nothing.
PlainLabels == Labels \ (TypeLockLabels \cup SweepLabels
                           \cup {"pay_commit", "release_update", "cancel_update"})
-----------------------------------------------------------------------------
(* The ledger *)

LEMMA LedgerParametersHold == L!LedgerAssumption
BY BookingAssumption DEF L!LedgerAssumption, L!IsFiniteSet, IsFiniteSet

LEMMA LedgerKeepsInv == L!Inv /\ [L!Next]_(L!vars) => L!Inv'
BY L!LedgerStep, LedgerParametersHold

\* What Booking uses of the ledger's invariant.
LEMMA LedgerFacts ==
    ASSUME L!Inv
    PROVE  /\ \A tt \in Types : tickets_sold[tt] <= tickets_quantity[tt]
           /\ \A tt \in Types :
                 (\A t \in OfType(tt) : ~IsLive(t)) => tickets_sold[tt] = 0
<1>1. \A tt \in Types : tickets_sold[tt] <= tickets_quantity[tt]
  BY DEF L!Inv, L!Capacity
<1>2. ASSUME NEW tt \in Types, \A t \in OfType(tt) : ~IsLive(t)
      PROVE  tickets_sold[tt] = 0
  <2>1. L!Live(tt) = {}
    BY <1>2 DEF L!Live, L!OfType, L!IsLive, OfType, IsLive, Committed
  <2>2. Cardinality(L!Live(tt)) = 0
    BY <2>1, FS_EmptySet
  <2>3. L!Cardinality(L!Live(tt)) = 0
    BY <2>2 DEF L!Cardinality, Cardinality
  <2> QED BY <2>3 DEF L!Inv, L!Balanced, L!TypeOK
<1> QED BY <1>1, <1>2
-----------------------------------------------------------------------------
(* Types of the helpers *)

LEMMA TypeOKParts ==
    TypeOK <=> RowsOK /\ LocksOK /\ RedisOK /\ TaskOK /\ faults \in 0 .. MaxFaults
BY DEF TypeOK, RowsOK, LocksOK, RedisOK, TaskOK

\* Every Redis operation on a counter yields a database ...
LEMMA CounterTypes ==
    ASSUME NEW db \in Database, NEW tt \in Types
    PROVE  /\ AfterReserve(db, tt) \in Database
           /\ \A n \in Nat : SetInventory(db, tt, n) \in Database
           /\ DelInventory(db, tt) \in Database
           /\ Incr(db, tt) \in Database
           /\ SafeIncr(db, tt) \in Database
<1>1. AfterReserve(db, tt) \in Database
  BY DEF Database, AfterReserve, Admitted
<1>2. ASSUME NEW n \in Nat PROVE SetInventory(db, tt, n) \in Database
  BY DEF Database, SetInventory
<1>3. DelInventory(db, tt) \in Database
  BY DEF Database, DelInventory
<1>4. Incr(db, tt) \in Database
  <2>1. [db.inventory EXCEPT ![tt] = @ + 1] \in [Types -> Nat]
    BY DEF Database
  <2> QED BY <2>1 DEF Database, Incr
<1>5. SafeIncr(db, tt) \in Database
  BY <1>4 DEF SafeIncr
<1> QED BY <1>1, <1>2, <1>3, <1>4, <1>5

\* ... and so does every one on a ticket.
LEMMA RefundTypes ==
    ASSUME NEW db \in Database, NEW t \in Tickets
    PROVE  /\ HSetActive(db, t) \in Database
           /\ HDelActive(db, t) \in Database
           /\ \A tt \in Types : Refund(db, tt, t) \in Database
<1>1. HSetActive(db, t) \in Database
  BY DEF Database, HSetActive
<1>2. ASSUME NEW d \in Database PROVE HDelActive(d, t) \in Database
  BY DEF Database, HDelActive
<1>3. [db EXCEPT !.canceled = @ \cup {t}] \in Database
  BY DEF Database
<1>4. ASSUME NEW tt \in Types PROVE Refund(db, tt, t) \in Database
  BY <1>2, <1>3, CounterTypes DEF Refund
<1> QED BY <1>1, <1>2, <1>4

\* A step on one Redis database keeps the type of both.
LEMMA RedisStepType ==
    ASSUME RedisOK, NEW d \in {ApiDb, WorkerDb}, NEW db \in Database,
           RedisStep(d, db), jobs' \in SUBSET Tickets
    PROVE  RedisOK'
BY DEF RedisOK, RedisStep

\* How the four ways of moving on change the locals of a process.
LEMMA GotoMoves ==
    ASSUME TaskOK, NEW p \in Procs, NEW label \in Labels, Goto(p, label)
    PROVE  /\ Moves(p)
           /\ task'[p].pc = label
           /\ task'[p].ticket = task[p].ticket
           /\ task'[p].todo = task[p].todo
           /\ task'[p].batch = task[p].batch
BY DEF TaskOK, Goto, Moves, Locals

LEMMA WorkMoves ==
    ASSUME TaskOK, NEW p \in Procs, NEW label \in Labels,
           NEW t \in Tickets \cup {None}, Work(p, label, t)
    PROVE  /\ Moves(p)
           /\ task'[p].pc = label
           /\ task'[p].ticket = t
           /\ task'[p].todo = task[p].todo
           /\ task'[p].batch = task[p].batch
BY DEF TaskOK, Work, Moves, Locals

LEMMA ComputeMoves ==
    ASSUME TaskOK, NEW p \in Procs, NEW label \in Labels, NEW n \in Nat,
           task' = [task EXCEPT ![p].pc = label, ![p].avail = n]
    PROVE  /\ Moves(p)
           /\ task'[p].pc = label
           /\ task'[p].batch = task[p].batch
BY DEF TaskOK, Moves, Locals

LEMMA FinishMoves ==
    ASSUME TaskOK, NEW p \in Procs, Finish(p)
    PROVE  /\ Moves(p)
           /\ task'[p].pc = "idle"
           /\ task'[p].batch = {}
BY DEF TaskOK, Finish, Moves, Locals, Idle, Labels
-----------------------------------------------------------------------------
(* Locks *)

\* Unlock(p) frees what p holds and nothing else.
LEMMA UnlockFacts ==
    ASSUME TypeOK, NEW p \in Procs, Unlock(p)
    PROVE  /\ LocksOK'
           /\ \A t \in Tickets : /\ rowLock[t] # p => rowLock'[t] = rowLock[t]
                                 /\ rowLock[t] = p => rowLock'[t] = None
           /\ \A tt \in Types : /\ typeLock[tt] # p => typeLock'[tt] = typeLock[tt]
                                /\ typeLock[tt] = p => typeLock'[tt] = None
           /\ None \notin Procs
<1>1. None \notin Procs
  BY BookingAssumption
<1> QED BY <1>1 DEF TypeOK, Unlock, LocksOK

\* What a process holds, no other process that respects it takes away.
LEMMA Interference ==
    ASSUME IInv, NEW p \in Procs, Respects(p), NEW q \in Procs \ {p}
    PROVE  Holds(q)'
<1>1. Holds(q) /\ q \in Procs /\ q # p
  BY DEF IInv, LockDiscipline
<1>2. /\ task'[q] = task[q]
      /\ \A label : At(q, label)' <=> At(q, label)
  BY DEF Respects, At
<1>3. /\ \A t \in Tickets : rowLock[t] = q => rowLock'[t] = q /\ status'[t] = status[t]
      /\ \A tt \in Types :
            /\ typeLock'[tt] = q <=> typeLock[tt] = q
            /\ typeLock[tt] = q =>
                  /\ tickets_sold'[tt] = tickets_sold[tt]
                  /\ TypeRow(tt) => tickets_quantity'[tt] = tickets_quantity[tt]
      /\ \A t \in Tickets : status[t] \notin {"FREE", "DRAWN", "VOID"}
                               => status'[t] \notin {"FREE", "DRAWN", "VOID"}
  BY DEF Respects
<1>4. /\ task[q].ticket \in Tickets => TypeOf[task[q].ticket] \in Types
      /\ q \in Buyers => Target[q] \in Types
  BY BookingAssumption
<1>5. task[q].batch \subseteq Tickets
  BY DEF IInv, TypeOK, Locals
<1>6. /\ (task[q].pc \in TicketLabels => task[q].ticket \in Tickets)'
      /\ (\A tt \in Types : typeLock[tt] = q => task[q].pc \in TypeLockLabels)'
  BY <1>1, <1>2, <1>3 DEF Holds, TicketLabels, TypeLockLabels
<1>7. BuyerHolds(q)'
  <2>1. \A tt \in Types : tickets_sold[tt] < tickets_quantity[tt] => TypeRow(tt)
    BY DEF IInv, TypeOK, TypeRow
  <2> QED
    BY <2>1, <1>1, <1>2, <1>3, <1>4 DEF Holds, BuyerHolds, At, TicketLabels
<1>8. TicketHolds(q)'
  BY <1>1, <1>2, <1>3, <1>4 DEF Holds, TicketHolds, At, TicketLabels
<1>9. TypeHolds(q)'
  BY <1>1, <1>2, <1>3, <1>4 DEF Holds, TypeHolds, At, TicketLabels
<1>10. CancelerHolds(q)'
  BY <1>1, <1>2, <1>3, <1>4 DEF Holds, CancelerHolds, At, TicketLabels
<1>11. SweeperHolds(q)'
  <2>1. \A tt \in Types : SweptOfType(q, tt)' = SweptOfType(q, tt)
    BY <1>2 DEF SweptOfType, OfType
  <2>2. TypesToSweep(q)' = TypesToSweep(q)
    BY <2>1, <1>3 DEF TypesToSweep
  <2>3. (\A t \in task[q].batch : status[t] = "RESERVED" /\ rowLock[t] = q)'
    BY <1>1, <1>2, <1>3, <1>5 DEF Holds, SweeperHolds
  <2>4. /\ (task[q].batch # {} => task[q].pc \in SweepLabels)'
        /\ (task[q].batch = {} => task[q].pc \notin SweepLabels \ {"sweep_rows"})'
    BY <1>1, <1>2 DEF Holds, SweeperHolds, SweepLabels
  <2>5. ASSUME NEW tt \in Types
        PROVE  (/\ task[q].pc \in SweepLabels /\ typeLock[tt] = q =>
                     Cardinality(SweptOfType(q, tt)) <= tickets_sold[tt]
                /\ At(q, "sweep_refund") \/ At(q, "sweep_commit")
                     => tt \notin TypesToSweep(q))'
    BY <2>1, <2>2, <1>1, <1>2, <1>3 DEF Holds, SweeperHolds, SweepLabels
  <2> QED BY <2>3, <2>4, <2>5 DEF SweeperHolds
<1> QED BY <1>6, <1>7, <1>8, <1>9, <1>10, <1>11 DEF Holds

\* A process that arrives at a plain label holds nothing.
LEMMA Landing ==
    ASSUME NEW p \in Procs, TaskOK',
           task'[p].pc \in PlainLabels, task'[p].batch = {},
           task'[p].pc \in TicketLabels => task'[p].ticket \in Tickets,
           \A tt \in Types : typeLock'[tt] # p
    PROVE  Holds(p)'
BY DEF PlainLabels, TicketLabels, TypeLockLabels, SweepLabels, Labels, Holds,
       BuyerHolds, TicketHolds, TypeHolds, CancelerHolds, SweeperHolds, At

\* Before a process has anything in its batch it is no sweep.
LEMMA NoBatch ==
    ASSUME IInv, NEW p \in Procs, task[p].pc \notin SweepLabels
    PROVE  task[p].batch = {}
BY DEF IInv, LockDiscipline, Holds, SweeperHolds

\* The rows stay locked as they should when no status and no row lock changes.
LEMMA RowsFrame ==
    ASSUME IInv, NEW p \in Procs, Moves(p),
           UNCHANGED <<status, rowLock>>,
           At(p, "hset") \/ At(p, "commit") => /\ At(p, "hset")' \/ At(p, "commit")'
                                               /\ task'[p].ticket = task[p].ticket
    PROVE  RowsLocked'
<1>1. RowsLocked
  BY DEF IInv, LockDiscipline
<1> QED BY <1>1 DEF RowsLocked, RowFree, Moves, At, IInv, TypeOK

\* The ledger sees nothing of a step that commits nothing.
LEMMA LedgerStutter ==
    ASSUME \A t \in Tickets : Committed(status'[t]) = Committed(status[t]),
           UNCHANGED <<tickets_sold, tickets_quantity, excess>>
    PROVE  [L!Next]_(L!vars)
BY DEF L!vars

(***************************************************************************)
(* A step that changes no committed data and no lock, of a process that    *)
(* holds nothing before it and nothing after it.                           *)
(***************************************************************************)
LEMMA NeutralStep ==
    ASSUME IInv, NEW p \in Procs, Moves(p),
           UNCHANGED <<tickets, catalog, expired, locks>>,
           inflated' \in [Types -> Nat], RedisOK',
           task[p].pc \notin TypeLockLabels,
           task'[p].pc \in PlainLabels, task'[p].batch = {},
           task'[p].pc \in TicketLabels => task'[p].ticket \in Tickets
    PROVE  Preserved
<1> USE DEF tickets, catalog, locks
<1>1. RowsOK' /\ LocksOK' /\ TaskOK'
  BY DEF IInv, TypeOK, RowsOK, LocksOK, Moves
<1>2. \A tt \in Types : typeLock'[tt] # p
  BY DEF IInv, LockDiscipline, Holds
<1>3. Holds(p)'
  BY <1>1, <1>2, Landing
<1>4. Respects(p)
  BY DEF Respects, Moves
<1>5. \A q \in Procs : Holds(q)'
  BY <1>3, <1>4, Interference
<1>6. RowsLocked'
  BY RowsFrame DEF At, TypeLockLabels
<1>7. [L!Next]_(L!vars)
  BY LedgerStutter
<1> QED BY <1>1, <1>5, <1>6, <1>7 DEF Preserved, LockDiscipline

(***************************************************************************)
(* The end of a transaction, by commit or rollback: p gives up its locks,  *)
(* leaves no insert of its own uncommitted, touches only rows that nobody  *)
(* else has locked, and goes on holding nothing.                           *)
(***************************************************************************)
LEMMA EndOfTransaction ==
    ASSUME IInv, NEW p \in Procs, Moves(p), Unlock(p),
           RowsOK', UNCHANGED tickets_quantity,
           \A t \in Tickets : rowLock[t] \notin {p, None} => status'[t] = status[t],
           \A t \in Tickets : status'[t] = "DRAWN" => status[t] = "DRAWN" /\ rowLock[t] # p,
           \A t \in Tickets : status[t] \notin {"FREE", "DRAWN", "VOID"}
                                 => status'[t] \notin {"FREE", "DRAWN", "VOID"},
           \A tt \in Types : typeLock[tt] # p => tickets_sold'[tt] = tickets_sold[tt],
           task'[p].pc \in PlainLabels, task'[p].batch = {},
           task'[p].pc \in TicketLabels => task'[p].ticket \in Tickets
    PROVE  LocksOK' /\ LockDiscipline'
<1>1. TypeOK /\ RowsLocked /\ TaskOK'
  BY DEF IInv, LockDiscipline, Moves
<1>2. /\ LocksOK'
      /\ \A t \in Tickets : /\ rowLock[t] # p => rowLock'[t] = rowLock[t]
                            /\ rowLock[t] = p => rowLock'[t] = None
      /\ \A tt \in Types : /\ typeLock[tt] # p => typeLock'[tt] = typeLock[tt]
                           /\ typeLock[tt] = p => typeLock'[tt] = None
      /\ None \notin Procs
  BY <1>1, UnlockFacts
<1>3. Holds(p)'
  BY <1>1, <1>2, Landing
<1>4. Respects(p)
  BY <1>2 DEF Respects, Moves
<1>5. \A q \in Procs : Holds(q)'
  BY <1>3, <1>4, Interference
<1>6. ASSUME NEW t \in Tickets
      PROVE  (/\ ~RowFree(t) => status[t] \in {"DRAWN", "RESERVED"}
              /\ status[t] = "DRAWN" => /\ rowLock[t] \in Procs
                                        /\ task[rowLock[t]].ticket = t
                                        /\ At(rowLock[t], "hset") \/ At(rowLock[t], "commit"))'
  BY <1>1, <1>2 DEF RowsLocked, RowFree, Moves, At
<1>7. RowsLocked'
  BY <1>6 DEF RowsLocked
<1> QED BY <1>2, <1>5, <1>7 DEF LockDiscipline

\* A rollback ends a transaction that has committed nothing.
LEMMA RollbackStep ==
    ASSUME IInv, NEW p \in Procs, Moves(p), Rollback(p),
           UNCHANGED <<catalog, expired, inflated>>, RedisOK',
           task'[p].pc \in PlainLabels, task'[p].batch = {},
           task'[p].pc \in TicketLabels => task'[p].ticket \in Tickets
    PROVE  Preserved
<1>1. TypeOK /\ RowsLocked
  BY DEF IInv, LockDiscipline
<1>2. RowsOK' /\ TaskOK'
  BY <1>1 DEF TypeOK, RowsOK, Rollback, Moves, catalog, Statuses
<1>3. UNCHANGED <<tickets_sold, tickets_quantity, excess>> /\ Unlock(p)
  BY DEF Rollback, catalog
<1>4. \A t \in Tickets :
         /\ rowLock[t] # p => status'[t] = status[t]
         /\ status[t] # "DRAWN" => status'[t] = status[t]
         /\ status'[t] = "DRAWN" => status[t] = "DRAWN" /\ rowLock[t] # p
         /\ status'[t] # status[t] => status[t] = "DRAWN" /\ status'[t] = "VOID"
  BY <1>1 DEF Rollback, TypeOK
<1>5. \A t \in Tickets : status[t] \notin {"FREE", "DRAWN", "VOID"}
                            => status'[t] \notin {"FREE", "DRAWN", "VOID"}
  BY <1>4
<1>6. LocksOK' /\ LockDiscipline'
  BY <1>2, <1>3, <1>4, <1>5, EndOfTransaction
<1>7. [L!Next]_(L!vars)
  BY <1>3, <1>4, LedgerStutter DEF Committed
<1> QED BY <1>2, <1>6, <1>7 DEF Preserved

\* A process with neither an insert nor a lock to lose, or one whose locks
\* are only on rows that were there, rolls back by unlocking.
LEMMA UnlockIsRollback ==
    ASSUME IInv, NEW p \in Procs, ~At(p, "hset"), ~At(p, "commit"),
           Unlock(p), UNCHANGED tickets
    PROVE  Rollback(p)
<1>1. \A t \in Tickets : ~(rowLock[t] = p /\ status[t] = "DRAWN")
  BY DEF IInv, LockDiscipline, RowsLocked
<1>2. status' = [t \in Tickets |->
                    IF rowLock[t] = p /\ status[t] = "DRAWN" THEN "VOID" ELSE status[t]]
  BY <1>1 DEF IInv, TypeOK, tickets
<1> QED BY <1>2 DEF Rollback, tickets
-----------------------------------------------------------------------------
(* TicketService.create *)

\* What every step of create starts from.
LEMMA BuyerFacts ==
    ASSUME IInv, NEW p \in Buyers
    PROVE  /\ TypeOK /\ TaskOK /\ RedisOK /\ p \in Procs /\ Holds(p)
           /\ Target[p] \in Types /\ redis[ApiDb] \in Database
           /\ task[p].pc \notin SweepLabels => task[p].batch = {}
           /\ task[p] \in Locals
BY NoBatch, BookingAssumption
DEF IInv, TypeOKParts, TypeOK, TaskOK, RedisOK, LockDiscipline, Procs

\* The steps of create that only look at, or only change, Redis.
LEMMA GateStep ==
    ASSUME IInv, NEW p \in Buyers, Gate(p) \/ GateAgain(p)
    PROVE  Preserved
<1>1. \/ At(p, "idle") /\ (Goto(p, "insert") \/ Goto(p, "warm_read"))
      \/ At(p, "gate_again") /\ (Goto(p, "insert") \/ Finish(p))
  BY DEF Gate, GateAgain
<1>2. RedisOK'
  BY BuyerFacts, CounterTypes, RedisStepType DEF Gate, GateAgain, RedisOK
<1>3. /\ Moves(p)
      /\ task'[p].pc \in {"insert", "warm_read", "idle"}
      /\ task'[p].batch = {}
  BY <1>1, BuyerFacts, GotoMoves, FinishMoves DEF At, Labels, SweepLabels
<1> QED
  BY <1>1, <1>2, <1>3, BuyerFacts, NeutralStep
  DEF Gate, GateAgain, At, Labels, PlainLabels, TypeLockLabels, SweepLabels,
      TicketLabels, TypeOK

LEMMA WarmStep ==
    ASSUME IInv, NEW p \in Buyers, WarmRead(p) \/ WarmSet(p)
    PROVE  Preserved
<1> USE DEF At, Labels, PlainLabels, TypeLockLabels, SweepLabels, TicketLabels
<1>1. CASE WarmRead(p)
  <2>1. tickets_quantity[Target[p]] - tickets_sold[Target[p]] \in Nat
    BY BuyerFacts, LedgerFacts DEF IInv, TypeOK
  <2>2. /\ Moves(p)
        /\ task'[p].pc \in {"warm_set", "idle"}
        /\ task'[p].batch = {}
    <3>1. CASE TypeRow(Target[p])
      BY <3>1, <1>1, <2>1, BuyerFacts DEF WarmRead, Moves, TaskOK, Locals
    <3>2. CASE ~TypeRow(Target[p])
      BY <3>2, <1>1, BuyerFacts, FinishMoves DEF WarmRead
    <3> QED BY <3>1, <3>2
  <2> QED BY <1>1, <2>2, BuyerFacts, NeutralStep DEF WarmRead, TypeOK, RedisOK
<1>2. CASE WarmSet(p)
  <2>1. task[p].avail \in Nat
    BY BuyerFacts DEF Locals
  <2>2. RedisOK'
    BY <1>2, <2>1, BuyerFacts, CounterTypes, RedisStepType DEF WarmSet, RedisOK
  <2> QED
    BY <1>2, <2>2, BuyerFacts, GotoMoves, NeutralStep DEF WarmSet, TypeOK
<1> QED BY <1>1, <1>2

\* The steps of create before the insert and after the commit, but for Redis.
LEMMA BuyerMovesOn ==
    ASSUME IInv, NEW p \in Buyers,
           InsertRefused(p) \/ RefreshTicket(p) \/ Enqueue(p) \/ Compensate(p)
    PROVE  Preserved
<1> USE DEF At, Labels, PlainLabels, TypeLockLabels, SweepLabels, TicketLabels
<1>1. CASE InsertRefused(p)
  BY <1>1, BuyerFacts, GotoMoves, NeutralStep DEF InsertRefused, TypeOK, RedisOK
<1>2. CASE RefreshTicket(p)
  <2>1. PICK label \in {"enqueue", "compensate"} : Goto(p, label)
    BY <1>2 DEF RefreshTicket
  <2>2. /\ Moves(p)
        /\ task'[p].pc = label
        /\ task'[p].ticket = task[p].ticket
        /\ task'[p].batch = task[p].batch
    BY <2>1, BuyerFacts, GotoMoves
  <2>3. task[p].ticket \in Tickets
    BY <1>2, BuyerFacts DEF Holds, RefreshTicket
  <2> QED BY <1>2, <2>2, <2>3, BuyerFacts, NeutralStep
          DEF RefreshTicket, TypeOK, RedisOK
<1>3. CASE Enqueue(p)
  <2>1. task[p].ticket \in Tickets
    BY <1>3, BuyerFacts DEF Holds, Enqueue
  <2> QED BY <1>3, <2>1, BuyerFacts, FinishMoves, NeutralStep
          DEF Enqueue, TypeOK, RedisOK
<1>4. CASE Compensate(p)
  <2>1. RedisOK'
    BY <1>4, BuyerFacts, CounterTypes, RedisStepType DEF Compensate, RedisOK
  <2>2. inflated' \in [Types -> Nat]
    BY <1>4, BuyerFacts DEF Compensate, TypeOK
  <2> QED BY <1>4, <2>1, <2>2, BuyerFacts, FinishMoves, NeutralStep DEF Compensate
<1> QED BY <1>1, <1>2, <1>3, <1>4

\* The insert locks the type's row and draws a row that nobody else has.
LEMMA InsertTicketStep ==
    ASSUME IInv, NEW p \in Buyers, InsertTicket(p) PROVE Preserved
<1>1. PICK t \in OfType(Target[p]) :
          /\ status[t] = "FREE"
          /\ status' = [status EXCEPT ![t] = "DRAWN"]
          /\ LockRow(p, t)
          /\ Work(p, "hset", t)
  BY DEF InsertTicket
<1>2. /\ At(p, "insert") /\ TypeFree(Target[p]) /\ LockType(p, Target[p])
      /\ tickets_sold[Target[p]] < tickets_quantity[Target[p]]
      /\ UNCHANGED <<tickets_sold, excess, catalog, expired, redis, jobs, inflated>>
  BY DEF InsertTicket
<1>3. t \in Tickets /\ TypeOf[t] = Target[p] /\ None \notin Procs
  BY BookingAssumption DEF OfType
<1>4. TypeOK /\ TaskOK /\ RedisOK /\ RowsLocked /\ p \in Procs /\ Holds(p)
  BY BuyerFacts DEF IInv, LockDiscipline
<1>5. /\ Moves(p)
      /\ task'[p].pc = "hset" /\ task'[p].ticket = t
      /\ task'[p].batch = {}
  BY <1>1, <1>2, <1>3, BuyerFacts, WorkMoves DEF Labels, At, SweepLabels
<1>6. RowsOK' /\ LocksOK' /\ RedisOK' /\ TaskOK'
  BY <1>1, <1>2, <1>3, <1>4, <1>5, BuyerFacts
  DEF TypeOK, RowsOK, LocksOK, RedisOK, Moves, LockRow, LockType, catalog, Statuses
<1>7. rowLock[t] = None /\ typeLock[Target[p]] = None
  BY <1>1, <1>2, <1>3, <1>4 DEF RowsLocked, RowFree, TypeFree
<1>8. Respects(p)
  BY <1>1, <1>2, <1>3, <1>4, <1>5, <1>7, BuyerFacts
  DEF Respects, Moves, LockRow, LockType, TypeOK, catalog
<1>9. Holds(p)'
  BY <1>1, <1>2, <1>3, <1>4, <1>5, BuyerFacts
  DEF Holds, BuyerHolds, TicketHolds, TypeHolds, CancelerHolds, SweeperHolds, At,
      LockRow, LockType, TypeOK, TicketLabels, TypeLockLabels, SweepLabels, catalog
<1>10. RowsLocked'
  BY <1>1, <1>2, <1>3, <1>4, <1>5
  DEF RowsLocked, RowFree, LockRow, Moves, At, TypeOK
<1>11. [L!Next]_(L!vars)
  BY <1>1, <1>2, <1>4, LedgerStutter DEF Committed, TypeOK, catalog
<1>12. \A q \in Procs : Holds(q)'
  BY <1>4, <1>8, <1>9, Interference
<1> QED BY <1>6, <1>10, <1>11, <1>12 DEF Preserved, LockDiscipline

LEMMA HSetStep ==
    ASSUME IInv, NEW p \in Buyers, HSet(p) PROVE Preserved
<1>1. TypeOK /\ TaskOK /\ RedisOK /\ p \in Procs /\ Holds(p)
  BY BuyerFacts
<1>2. At(p, "hset") /\ task[p].ticket \in Tickets
  BY <1>1 DEF HSet, Holds, TicketLabels, At
<1>3. UNCHANGED <<tickets, catalog, expired, locks, inflated>>
  BY DEF HSet
<1>4. /\ Moves(p)
      /\ task'[p].pc = "commit" /\ task'[p].ticket = task[p].ticket
      /\ task'[p].batch = task[p].batch
  BY <1>1, GotoMoves DEF HSet, Labels
<1>5. RedisOK'
  BY <1>1, <1>2, BuyerFacts, RefundTypes, RedisStepType DEF HSet, RedisOK
<1>6. RowsOK' /\ LocksOK' /\ TaskOK'
  BY <1>1, <1>3, <1>4
  DEF TypeOK, RowsOK, LocksOK, Moves, tickets, catalog, locks
<1>7. Respects(p)
  BY <1>3, <1>4 DEF Respects, Moves, tickets, catalog, locks
<1>8. Holds(p)'
  BY <1>1, <1>2, <1>3, <1>4
  DEF Holds, BuyerHolds, TicketHolds, TypeHolds, CancelerHolds, SweeperHolds, At,
      TicketLabels, TypeLockLabels, SweepLabels, tickets, catalog, locks
<1>9. RowsLocked'
  BY <1>1, <1>2, <1>3, <1>4, RowsFrame DEF At, tickets, locks
<1>10. [L!Next]_(L!vars)
  BY <1>3, LedgerStutter DEF tickets, catalog
<1>11. \A q \in Procs : Holds(q)'
  BY <1>1, <1>7, <1>8, Interference
<1> QED BY <1>5, <1>6, <1>9, <1>10, <1>11 DEF Preserved, LockDiscipline

\* The commit of create is the ledger's Reserve.
LEMMA CommitTicketStep ==
    ASSUME IInv, NEW p \in Buyers, CommitTicket(p) PROVE Preserved
<1> DEFINE t == task[p].ticket
<1>1. TypeOK /\ TaskOK /\ RedisOK /\ RowsLocked /\ p \in Procs /\ Holds(p)
  BY BuyerFacts DEF IInv, LockDiscipline
<1>2. At(p, "commit") /\ t \in Tickets
  BY <1>1 DEF CommitTicket, Holds, TicketLabels, At
<1>3. /\ TypeOf[t] = Target[p] /\ Target[p] \in Types
      /\ status[t] = "DRAWN" /\ rowLock[t] = p
      /\ typeLock[Target[p]] = p
      /\ tickets_sold[Target[p]] < tickets_quantity[Target[p]]
  BY <1>1, <1>2, BuyerFacts DEF Holds, BuyerHolds
<1>4. /\ status' = [status EXCEPT ![t] = "RESERVED"]
      /\ tickets_sold' = [tickets_sold EXCEPT ![TypeOf[t]] = @ + 1]
      /\ Unlock(p)
      /\ UNCHANGED <<excess, tickets_quantity, created, expired, redis, jobs, inflated>>
  BY <1>3 DEF CommitTicket, catalog
<1>5. /\ Moves(p)
      /\ task'[p].pc = "refresh" /\ task'[p].ticket = t
      /\ task'[p].batch = {}
  BY <1>1, <1>2, BuyerFacts, GotoMoves DEF CommitTicket, Labels, At, SweepLabels
<1>6. RowsOK' /\ RedisOK' /\ TaskOK'
  BY <1>1, <1>2, <1>3, <1>4, <1>5 DEF TypeOK, RowsOK, RedisOK, Moves, Statuses
<1>7. \A u \in Tickets : status'[u] = "DRAWN" => status[u] = "DRAWN" /\ rowLock[u] # p
  BY <1>1, <1>2, <1>4 DEF RowsLocked, TypeOK
<1>8. /\ \A u \in Tickets : rowLock[u] \notin {p, None} => status'[u] = status[u]
      /\ \A u \in Tickets : status[u] \notin {"FREE", "DRAWN", "VOID"}
                               => status'[u] \notin {"FREE", "DRAWN", "VOID"}
      /\ \A tt \in Types : typeLock[tt] # p => tickets_sold'[tt] = tickets_sold[tt]
  BY <1>1, <1>2, <1>3, <1>4 DEF TypeOK
<1>9. LocksOK' /\ LockDiscipline'
  BY <1>1, <1>2, <1>4, <1>5, <1>6, <1>7, <1>8, EndOfTransaction
  DEF PlainLabels, Labels, TypeLockLabels, SweepLabels
<1>10. L!Reserve(t)
  BY <1>1, <1>2, <1>3, <1>4 DEF L!Reserve, Committed, TypeOK
<1>11. L!Next
  BY <1>2, <1>10 DEF L!Next
<1> QED BY <1>6, <1>9, <1>11 DEF Preserved

\* create preserves the invariant and implements the ledger.
LEMMA BuyStep ==
    ASSUME IInv, NEW p \in Buyers, Buy(p) PROVE Preserved
BY GateStep, WarmStep, BuyerMovesOn, InsertTicketStep, HSetStep, CommitTicketStep
DEF Buy
-----------------------------------------------------------------------------
(* TicketService.delete *)

\* What every step of any process starts from.
LEMMA ProcFacts ==
    ASSUME IInv, NEW p \in Procs
    PROVE  /\ TypeOK /\ TaskOK /\ RedisOK /\ RowsLocked /\ Holds(p)
           /\ redis[ApiDb] \in Database /\ redis[WorkerDb] \in Database
           /\ task[p].pc \notin SweepLabels => task[p].batch = {}
           /\ task[p] \in Locals
           /\ None \notin Procs
           /\ \A t \in Tickets : TypeOf[t] \in Types
BY NoBatch, BookingAssumption
DEF IInv, TypeOKParts, TypeOK, TaskOK, RedisOK, LockDiscipline

LEMMA CancelSelectStep ==
    ASSUME IInv, NEW p \in Procs, CancelSelect(p) PROVE Preserved
<1>1. PICK t \in Tickets : HasRow(t) /\ Work(p, "cancel_update", t)
  BY DEF CancelSelect
<1>2. At(p, "idle") /\ UNCHANGED <<tickets, catalog, expired, locks, redis, jobs, inflated>>
  BY DEF CancelSelect
<1>3. /\ Moves(p)
      /\ task'[p].pc = "cancel_update" /\ task'[p].ticket = t
      /\ task'[p].batch = {}
  BY <1>1, <1>2, ProcFacts, WorkMoves DEF Labels, At, SweepLabels
<1>4. RowsOK' /\ LocksOK' /\ RedisOK' /\ TaskOK'
  BY <1>2, <1>3, ProcFacts
  DEF TypeOK, RowsOK, LocksOK, RedisOK, Moves, tickets, catalog, locks
<1>5. Respects(p)
  BY <1>2, <1>3 DEF Respects, Moves, tickets, catalog, locks
<1>6. Holds(p)'
  BY <1>1, <1>2, <1>3, ProcFacts
  DEF Holds, BuyerHolds, TicketHolds, TypeHolds, CancelerHolds, SweeperHolds, At,
      TicketLabels, TypeLockLabels, SweepLabels, HasRow, tickets, catalog, locks
<1>7. RowsLocked'
  BY <1>2, <1>3, RowsFrame DEF At, tickets, locks
<1>8. [L!Next]_(L!vars)
  BY <1>2, LedgerStutter DEF tickets, catalog
<1>9. \A q \in Procs : Holds(q)'
  BY <1>5, <1>6, Interference
<1> QED BY <1>4, <1>7, <1>8, <1>9 DEF Preserved, LockDiscipline

\* The UPDATE of delete or release locks the type, which must have one to give.
LEMMA LockTypeStep ==
    ASSUME IInv, NEW p \in Procs, CancelUpdate(p) \/ ReleaseUpdate(p)
    PROVE  Preserved
<1> DEFINE t  == task[p].ticket
           tt == TypeOf[t]
<1>1. /\ \/ At(p, "cancel_update") /\ Goto(p, "cancel_delete")
         \/ At(p, "release_update") /\ Goto(p, "release_refund")
      /\ TypeFree(tt) /\ tickets_sold[tt] > 0 /\ LockType(p, tt)
      /\ UNCHANGED <<tickets, catalog, expired, rowLock, redis, jobs, inflated>>
  BY DEF CancelUpdate, ReleaseUpdate
<1>2. t \in Tickets /\ tt \in Types
  BY <1>1, ProcFacts DEF Holds, TicketLabels, At
<1>3. /\ Moves(p)
      /\ \/ At(p, "cancel_update") /\ task'[p].pc = "cancel_delete"
         \/ At(p, "release_update") /\ task'[p].pc = "release_refund"
      /\ task'[p].ticket = t
      /\ task'[p].batch = {}
  BY <1>1, ProcFacts, GotoMoves DEF Labels, At, SweepLabels
<1>4. RowsOK' /\ LocksOK' /\ RedisOK' /\ TaskOK'
  BY <1>1, <1>2, <1>3, ProcFacts
  DEF TypeOK, RowsOK, LocksOK, RedisOK, Moves, LockType, tickets, catalog
<1>5. typeLock' = [typeLock EXCEPT ![tt] = p] /\ typeLock[tt] = None
  BY <1>1 DEF LockType, TypeFree
<1>6. Respects(p)
  BY <1>1, <1>2, <1>3, <1>5, ProcFacts DEF Respects, Moves, TypeOK, tickets, catalog
<1>7. Holds(p)'
  <2>1. /\ UNCHANGED <<status, rowLock, tickets_sold, tickets_quantity>>
        /\ typeLock'[tt] = p
    BY <1>1, <1>2, <1>5, ProcFacts DEF TypeOK, tickets, catalog
  <2>2. /\ (task[p].pc \in TicketLabels => task[p].ticket \in Tickets)'
        /\ (\A u \in Types : typeLock[u] = p => task[p].pc \in TypeLockLabels)'
        /\ BuyerHolds(p)' /\ SweeperHolds(p)'
    BY <1>2, <1>3 DEF BuyerHolds, SweeperHolds, At, TicketLabels, TypeLockLabels, SweepLabels
  <2>3. TicketHolds(p)' /\ TypeHolds(p)' /\ CancelerHolds(p)'
    BY <1>1, <1>2, <1>3, <2>1, ProcFacts
    DEF Holds, TicketHolds, TypeHolds, CancelerHolds, At
  <2> QED BY <2>2, <2>3 DEF Holds
<1>8. RowsLocked'
  BY <1>1, <1>3, RowsFrame DEF At, tickets
<1>9. [L!Next]_(L!vars)
  BY <1>1, LedgerStutter DEF tickets, catalog
<1>10. \A q \in Procs : Holds(q)'
  BY <1>6, <1>7, Interference
<1> QED BY <1>4, <1>8, <1>9, <1>10 DEF Preserved, LockDiscipline

\* The commit of delete is the ledger's Cancel.
LEMMA CancelDeleteStep ==
    ASSUME IInv, NEW p \in Procs, CancelDelete(p) PROVE Preserved
<1> DEFINE t  == task[p].ticket
           tt == TypeOf[t]
<1>1. At(p, "cancel_delete") /\ t \in Tickets /\ tt \in Types
  BY ProcFacts DEF CancelDelete, Holds, TicketLabels, At
<1>2. /\ typeLock[tt] = p /\ tickets_sold[tt] > 0
      /\ status[t] \notin {"FREE", "DRAWN", "VOID"}
  BY <1>1, ProcFacts DEF Holds, TypeHolds, CancelerHolds
<1>3. /\ RowFree(t)
      /\ status' = [status EXCEPT ![t] = "DELETED"]
      /\ tickets_sold' = [tickets_sold EXCEPT ![tt] = @ - 1]
      /\ excess' = IF IsLive(t) THEN excess ELSE [excess EXCEPT ![tt] = @ + 1]
      /\ Unlock(p)
      /\ UNCHANGED <<tickets_quantity, created, expired, redis, jobs, inflated>>
  BY DEF CancelDelete, catalog
<1>4. /\ Moves(p)
      /\ task'[p].pc = "giveback" /\ task'[p].ticket = t
      /\ task'[p].batch = {}
  BY <1>1, ProcFacts, GotoMoves DEF CancelDelete, Labels, At, SweepLabels
<1>5. excess' \in [Types -> Nat] /\ tickets_sold' \in [Types -> Nat]
  BY <1>1, <1>2, <1>3, ProcFacts DEF TypeOK
<1>6. RowsOK' /\ RedisOK' /\ TaskOK'
  BY <1>1, <1>3, <1>4, <1>5, ProcFacts DEF TypeOK, RowsOK, RedisOK, Moves, Statuses
<1>7. \A u \in Tickets : status'[u] = "DRAWN" => status[u] = "DRAWN" /\ rowLock[u] # p
  BY <1>1, <1>3, ProcFacts DEF RowsLocked, TypeOK, At
<1>8. /\ \A u \in Tickets : rowLock[u] \notin {p, None} => status'[u] = status[u]
      /\ \A u \in Tickets : status[u] \notin {"FREE", "DRAWN", "VOID"}
                               => status'[u] \notin {"FREE", "DRAWN", "VOID"}
      /\ \A u \in Types : typeLock[u] # p => tickets_sold'[u] = tickets_sold[u]
  BY <1>1, <1>2, <1>3, ProcFacts DEF TypeOK, RowFree
<1>9. LocksOK' /\ LockDiscipline'
  BY <1>1, <1>3, <1>4, <1>6, <1>7, <1>8, EndOfTransaction
  DEF PlainLabels, Labels, TypeLockLabels, SweepLabels
<1>10. L!Cancel(t)
  <2>1. Committed(status[t]) # "NONE" /\ (L!IsLive(t) <=> IsLive(t))
    BY <1>1, <1>2, ProcFacts DEF L!IsLive, IsLive, Committed, TypeOK, Statuses
  <2>2. [u \in Tickets |-> Committed(status'[u])]
           = [[u \in Tickets |-> Committed(status[u])] EXCEPT ![t] = "DELETED"]
    BY <1>1, <1>3, ProcFacts DEF Committed, TypeOK
  <2> QED BY <1>1, <1>2, <1>3, <2>1, <2>2 DEF L!Cancel
<1>11. L!Next
  BY <1>1, <1>10 DEF L!Next
<1> QED BY <1>6, <1>9, <1>11 DEF Preserved

\* The other steps of delete.
LEMMA CancelerMovesOn ==
    ASSUME IInv, NEW p \in Procs,
           CancelNothing(p) \/ GiveBack(p) \/ CancelHDel(p)
    PROVE  Preserved
<1> USE DEF At, Labels, PlainLabels, TypeLockLabels, SweepLabels, TicketLabels
<1>1. task[p].ticket \in Tickets /\ TypeOf[task[p].ticket] \in Types
  BY ProcFacts DEF Holds, CancelNothing, GiveBack, CancelHDel
<1>2. CASE CancelNothing(p)
  <2>1. /\ Moves(p)
        /\ task'[p].pc \in {"idle", "giveback"}
        /\ task'[p].batch = {}
        /\ task'[p].pc = "giveback" => task'[p].ticket = task[p].ticket
    BY <1>2, ProcFacts, GotoMoves, FinishMoves DEF CancelNothing
  <2> QED BY <1>1, <1>2, <2>1, ProcFacts, NeutralStep DEF CancelNothing, TypeOK, RedisOK
<1>3. CASE GiveBack(p)
  <2>1. RedisOK'
    BY <1>1, <1>3, ProcFacts, CounterTypes, RedisStepType DEF GiveBack, RedisOK
  <2> QED BY <1>1, <1>3, <2>1, ProcFacts, GotoMoves, NeutralStep DEF GiveBack, TypeOK
<1>4. CASE CancelHDel(p)
  <2>1. RedisOK'
    BY <1>1, <1>4, ProcFacts, RefundTypes, RedisStepType DEF CancelHDel, RedisOK
  <2> QED BY <1>4, <2>1, ProcFacts, FinishMoves, NeutralStep DEF CancelHDel, TypeOK
<1> QED BY <1>2, <1>3, <1>4

LEMMA CancelStep == ASSUME IInv, NEW p \in Procs, Cancel(p) PROVE Preserved
BY CancelSelectStep, LockTypeStep, CancelDeleteStep, CancelerMovesOn DEF Cancel
-----------------------------------------------------------------------------
(* PaymentService.pay_for_ticket and release_unpaid_ticket *)

\* SELECT ... FOR UPDATE of a reserved ticket, by a payment or a release job.
LEMMA LockTicketStep ==
    ASSUME IInv, NEW p \in Procs, PaySelect(p) \/ ReleaseSelect(p)
    PROVE  Preserved
<1>1. PICK t \in Tickets :
          /\ RowFree(t)
          /\ status[t] = "RESERVED"
          /\ LockRow(p, t)
          /\ Work(p, "pay_commit", t) \/ Work(p, "release_update", t)
  BY ProcFacts DEF PaySelect, ReleaseSelect, TypeOK
<1>2. /\ At(p, "idle")
      /\ UNCHANGED <<tickets, catalog, expired, typeLock, redis, jobs, inflated>>
  BY DEF PaySelect, ReleaseSelect, Due
<1>3. /\ Moves(p)
      /\ task'[p].pc \in {"pay_commit", "release_update"} /\ task'[p].ticket = t
      /\ task'[p].batch = {}
  BY <1>1, <1>2, ProcFacts, WorkMoves DEF Labels, At, SweepLabels
<1>4. RowsOK' /\ LocksOK' /\ RedisOK' /\ TaskOK'
  BY <1>1, <1>2, <1>3, ProcFacts
  DEF TypeOK, RowsOK, LocksOK, RedisOK, Moves, LockRow, tickets, catalog
<1>5. Respects(p)
  BY <1>1, <1>2, <1>3, ProcFacts
  DEF Respects, Moves, LockRow, RowFree, TypeOK, tickets, catalog
<1>6. Holds(p)'
  BY <1>1, <1>2, <1>3, ProcFacts
  DEF Holds, BuyerHolds, TicketHolds, TypeHolds, CancelerHolds, SweeperHolds, At,
      TicketLabels, TypeLockLabels, SweepLabels, LockRow, TypeOK, tickets, catalog
<1>7. RowsLocked'
  BY <1>1, <1>2, <1>3, ProcFacts
  DEF RowsLocked, RowFree, LockRow, Moves, At, TypeOK, tickets
<1>8. [L!Next]_(L!vars)
  BY <1>2, LedgerStutter DEF tickets, catalog
<1>9. \A q \in Procs : Holds(q)'
  BY <1>5, <1>6, Interference
<1> QED BY <1>4, <1>7, <1>8, <1>9 DEF Preserved, LockDiscipline

\* The commit of a payment is the ledger's Pay.
LEMMA PayCommitStep ==
    ASSUME IInv, NEW p \in Procs, PayCommit(p) PROVE Preserved
<1> DEFINE t == task[p].ticket
<1>1. At(p, "pay_commit") /\ t \in Tickets
  BY ProcFacts DEF PayCommit, Holds, TicketLabels, At
<1>2. status[t] = "RESERVED" /\ rowLock[t] = p
  BY <1>1, ProcFacts DEF Holds, TicketHolds
<1>3. /\ status' = [status EXCEPT ![t] = "SOLD"]
      /\ Unlock(p)
      /\ UNCHANGED <<tickets_sold, excess, tickets_quantity, created, expired,
                     redis, jobs, inflated>>
  BY DEF PayCommit, catalog
<1>4. /\ Moves(p)
      /\ task'[p].pc = "pay_refresh" /\ task'[p].ticket = t
      /\ task'[p].batch = {}
  BY <1>1, ProcFacts, GotoMoves DEF PayCommit, Labels, At, SweepLabels
<1>5. RowsOK' /\ RedisOK' /\ TaskOK'
  BY <1>1, <1>3, <1>4, ProcFacts DEF TypeOK, RowsOK, RedisOK, Moves, Statuses
<1>6. \A u \in Tickets : status'[u] = "DRAWN" => status[u] = "DRAWN" /\ rowLock[u] # p
  BY <1>1, <1>3, ProcFacts DEF RowsLocked, TypeOK, At
<1>7. /\ \A u \in Tickets : rowLock[u] \notin {p, None} => status'[u] = status[u]
      /\ \A u \in Tickets : status[u] \notin {"FREE", "DRAWN", "VOID"}
                               => status'[u] \notin {"FREE", "DRAWN", "VOID"}
  BY <1>1, <1>2, <1>3, ProcFacts DEF TypeOK
<1>8. LocksOK' /\ LockDiscipline'
  BY <1>1, <1>3, <1>4, <1>5, <1>6, <1>7, EndOfTransaction
  DEF PlainLabels, Labels, TypeLockLabels, SweepLabels
<1>9. L!Pay(t)
  BY <1>1, <1>2, <1>3, ProcFacts DEF L!Pay, Committed, TypeOK
<1>10. L!Next
  BY <1>1, <1>9 DEF L!Next
<1> QED BY <1>5, <1>8, <1>10 DEF Preserved

\* The other steps of a payment.
LEMMA PayerMovesOn ==
    ASSUME IInv, NEW p \in Procs, PayRefresh(p) \/ PayHDel(p) PROVE Preserved
<1> USE DEF At, Labels, PlainLabels, TypeLockLabels, SweepLabels, TicketLabels
<1>1. task[p].ticket \in Tickets
  BY ProcFacts DEF Holds, PayRefresh, PayHDel
<1>2. CASE PayRefresh(p)
  <2>1. /\ Moves(p)
        /\ task'[p].pc \in {"idle", "pay_hdel"}
        /\ task'[p].batch = {}
        /\ task'[p].pc = "pay_hdel" => task'[p].ticket = task[p].ticket
    BY <1>2, ProcFacts, GotoMoves, FinishMoves DEF PayRefresh
  <2> QED BY <1>1, <1>2, <2>1, ProcFacts, NeutralStep DEF PayRefresh, TypeOK, RedisOK
<1>3. CASE PayHDel(p)
  <2>1. RedisOK'
    BY <1>1, <1>3, ProcFacts, RefundTypes, RedisStepType DEF PayHDel, RedisOK
  <2> QED BY <1>3, <2>1, ProcFacts, FinishMoves, NeutralStep DEF PayHDel, TypeOK
<1> QED BY <1>2, <1>3

LEMMA PayStep == ASSUME IInv, NEW p \in Procs, Pay(p) PROVE Preserved
BY LockTicketStep, PayCommitStep, PayerMovesOn DEF Pay

\* The refund of a release job, between its locks and its commit.
LEMMA ReleaseRefundStep ==
    ASSUME IInv, NEW p \in Procs, ReleaseRefund(p) PROVE Preserved
<1>1. At(p, "release_refund") /\ task[p].ticket \in Tickets
  BY ProcFacts DEF ReleaseRefund, Holds, TicketLabels, At
<1>2. UNCHANGED <<tickets, catalog, expired, locks, jobs, inflated>>
  BY DEF ReleaseRefund
<1>3. /\ Moves(p)
      /\ task'[p].pc = "release_commit" /\ task'[p].ticket = task[p].ticket
      /\ task'[p].batch = task[p].batch
  BY ProcFacts, GotoMoves DEF ReleaseRefund, Labels
<1>4. RedisOK'
  BY <1>1, <1>2, ProcFacts, RefundTypes, RedisStepType DEF ReleaseRefund, RedisOK
<1>5. RowsOK' /\ LocksOK' /\ TaskOK'
  BY <1>2, <1>3, ProcFacts
  DEF TypeOK, RowsOK, LocksOK, Moves, tickets, catalog, locks
<1>6. Respects(p)
  BY <1>2, <1>3 DEF Respects, Moves, tickets, catalog, locks
<1>7. Holds(p)'
  BY <1>1, <1>2, <1>3, ProcFacts
  DEF Holds, BuyerHolds, TicketHolds, TypeHolds, CancelerHolds, SweeperHolds, At,
      TicketLabels, TypeLockLabels, SweepLabels, tickets, catalog, locks
<1>8. RowsLocked'
  BY <1>1, <1>2, <1>3, RowsFrame DEF At, tickets, locks
<1>9. [L!Next]_(L!vars)
  BY <1>2, LedgerStutter DEF tickets, catalog
<1>10. \A q \in Procs : Holds(q)'
  BY <1>6, <1>7, Interference
<1> QED BY <1>4, <1>5, <1>8, <1>9, <1>10 DEF Preserved, LockDiscipline

\* The commit of a release job is the ledger's Release of its ticket.
LEMMA ReleaseCommitStep ==
    ASSUME IInv, NEW p \in Procs, ReleaseCommit(p) PROVE Preserved
<1> DEFINE t  == task[p].ticket
           tt == TypeOf[t]
<1>1. At(p, "release_commit") /\ t \in Tickets /\ tt \in Types
  BY ProcFacts DEF ReleaseCommit, Holds, TicketLabels, At
<1>2. /\ status[t] = "RESERVED" /\ rowLock[t] = p
      /\ typeLock[tt] = p /\ tickets_sold[tt] > 0
  BY <1>1, ProcFacts DEF Holds, TicketHolds, TypeHolds
<1>3. /\ status' = [status EXCEPT ![t] = "CANCELED"]
      /\ tickets_sold' = [tickets_sold EXCEPT ![tt] = @ - 1]
      /\ Unlock(p)
      /\ jobs' = jobs \ {t}
      /\ UNCHANGED <<excess, tickets_quantity, created, expired, redis, inflated>>
  BY DEF ReleaseCommit, catalog
<1>4. /\ Moves(p)
      /\ task'[p].pc = "idle" /\ task'[p].batch = {}
  BY ProcFacts, FinishMoves DEF ReleaseCommit
<1>5. tickets_sold' \in [Types -> Nat]
  BY <1>1, <1>2, <1>3, ProcFacts DEF TypeOK
<1>6. RowsOK' /\ RedisOK' /\ TaskOK'
  BY <1>1, <1>3, <1>4, <1>5, ProcFacts DEF TypeOK, RowsOK, RedisOK, Moves, Statuses
<1>7. \A u \in Tickets : status'[u] = "DRAWN" => status[u] = "DRAWN" /\ rowLock[u] # p
  BY <1>1, <1>3, ProcFacts DEF RowsLocked, TypeOK, At
<1>8. /\ \A u \in Tickets : rowLock[u] \notin {p, None} => status'[u] = status[u]
      /\ \A u \in Tickets : status[u] \notin {"FREE", "DRAWN", "VOID"}
                               => status'[u] \notin {"FREE", "DRAWN", "VOID"}
      /\ \A u \in Types : typeLock[u] # p => tickets_sold'[u] = tickets_sold[u]
  BY <1>1, <1>2, <1>3, ProcFacts DEF TypeOK
<1>9. LocksOK' /\ LockDiscipline'
  BY <1>1, <1>3, <1>4, <1>6, <1>7, <1>8, EndOfTransaction
  DEF PlainLabels, Labels, TypeLockLabels, SweepLabels, TicketLabels
<1>10. L!Release({t})
  <2>1. ASSUME NEW u \in Types
        PROVE  /\ u = tt => L!Cardinality({t} \cap L!OfType(u)) = 1
               /\ u # tt => L!Cardinality({t} \cap L!OfType(u)) = 0
    <3>1. /\ u = tt => {t} \cap L!OfType(u) = {t}
          /\ u # tt => {t} \cap L!OfType(u) = {}
      BY <1>1 DEF L!OfType
    <3>2. Cardinality({t}) = 1 /\ Cardinality({}) = 0
      BY FS_EmptySet, FS_Singleton
    <3> QED BY <3>1, <3>2 DEF L!Cardinality, Cardinality
  <2>2. ASSUME NEW u \in Types
        PROVE  /\ L!Cardinality({t} \cap L!OfType(u)) <= tickets_sold[u]
               /\ tickets_sold'[u]
                     = tickets_sold[u] - L!Cardinality({t} \cap L!OfType(u))
    <3>1. tickets_sold \in [Types -> Nat]
      BY ProcFacts DEF TypeOK
    <3>2. CASE u = tt
      BY <3>1, <3>2, <2>1, <1>1, <1>2, <1>3
    <3>3. CASE u # tt
      BY <3>1, <3>3, <2>1, <1>1, <1>3
    <3> QED BY <3>2, <3>3
  <2>3. tickets_sold' = [u \in Types |->
                            tickets_sold[u] - L!Cardinality({t} \cap L!OfType(u))]
    BY <1>5, <2>2
  <2>4. [u \in Tickets |-> Committed(status'[u])]
           = [u \in Tickets |-> IF u \in {t} THEN "CANCELED"
                                ELSE [v \in Tickets |-> Committed(status[v])][u]]
    BY <1>1, <1>3, ProcFacts DEF Committed, TypeOK
  <2>5. \A u \in {t} : [v \in Tickets |-> Committed(status[v])][u] = "RESERVED"
    BY <1>1, <1>2 DEF Committed
  <2> QED BY <1>3, <2>2, <2>3, <2>4, <2>5 DEF L!Release
<1>11. L!Next
  BY <1>1, <1>10 DEF L!Next
<1> QED BY <1>6, <1>9, <1>11 DEF Preserved

LEMMA ReleaseStep == ASSUME IInv, NEW p \in Procs, ReleaseUnpaid(p) PROVE Preserved
<1>1. CASE ReleaseSkip(p)
  <2>1. At(p, "idle") /\ task' = task
    BY <1>1 DEF ReleaseSkip, Due
  <2>2. Moves(p) /\ task'[p].batch = {}
    BY <2>1, ProcFacts DEF Moves, TaskOK, At, SweepLabels
  <2> QED
    BY <1>1, <2>1, <2>2, ProcFacts, NeutralStep
    DEF ReleaseSkip, At, Labels, PlainLabels, TypeLockLabels, SweepLabels,
        TicketLabels, TypeOK, RedisOK
<1>2. CASE ReleaseFails(p)
  <2>1. Rollback(p)
    BY <1>2, UnlockIsRollback DEF ReleaseFails, At
  <2> QED
    BY <1>2, <2>1, ProcFacts, FinishMoves, RollbackStep
    DEF ReleaseFails, Labels, PlainLabels, TypeLockLabels, SweepLabels,
        TicketLabels, RedisOK
<1> QED
  BY <1>1, <1>2, LockTicketStep, LockTypeStep, ReleaseRefundStep, ReleaseCommitStep
  DEF ReleaseUnpaid
-----------------------------------------------------------------------------
(* reconcile_hung_tickets *)

\* A sweep's transaction goes on: nothing is committed, the locks of others
\* stay as they are, and p is still at a label of the sweep.
LEMMA SweepGoesOn ==
    ASSUME IInv, NEW p \in Procs, Moves(p),
           UNCHANGED <<tickets, catalog, expired, inflated>>, RedisOK', LocksOK',
           task[p].pc \in SweepLabels \cup {"idle"},
           task'[p].pc \in SweepLabels,
           \A t \in Tickets :
              \/ rowLock'[t] = rowLock[t]
              \/ rowLock[t] = None /\ rowLock'[t] = p /\ status[t] = "RESERVED",
           \A tt \in Types :
              \/ typeLock'[tt] = typeLock[tt]
              \/ typeLock[tt] = None /\ typeLock'[tt] = p,
           task'[p].pc = "sweep_rows" => \A tt \in Types : typeLock'[tt] # p,
           SweeperHolds(p)'
    PROVE  Preserved
<1>1. RowsOK' /\ TaskOK'
  BY ProcFacts DEF TypeOK, RowsOK, Moves, tickets, catalog
<1>2. Respects(p)
  BY ProcFacts DEF Respects, Moves, tickets, catalog
<1>3. Holds(p)'
  BY DEF Holds, BuyerHolds, TicketHolds, TypeHolds, CancelerHolds, At,
         TicketLabels, TypeLockLabels, SweepLabels
<1>4. RowsLocked'
  <2>1. status' = status
    BY DEF tickets
  <2>2. ~At(p, "hset") /\ ~At(p, "commit")
    BY DEF At, SweepLabels
  <2>3. ASSUME NEW t \in Tickets
        PROVE  (/\ ~RowFree(t) => status[t] \in {"DRAWN", "RESERVED"}
                /\ status[t] = "DRAWN" => /\ rowLock[t] \in Procs
                                          /\ task[rowLock[t]].ticket = t
                                          /\ At(rowLock[t], "hset") \/ At(rowLock[t], "commit"))'
    BY <2>1, <2>2, ProcFacts DEF RowsLocked, RowFree, Moves, At
  <2> QED BY <2>3 DEF RowsLocked
<1>5. [L!Next]_(L!vars)
  BY LedgerStutter DEF tickets, catalog
<1>6. \A q \in Procs : Holds(q)'
  BY <1>2, <1>3, Interference
<1> QED BY <1>1, <1>4, <1>5, <1>6 DEF Preserved, LockDiscipline

LEMMA SweepStartStep ==
    ASSUME IInv, NEW p \in Procs, SweepStart(p) PROVE Preserved
<1>1. /\ At(p, "idle")
      /\ UNCHANGED <<tickets, catalog, expired, locks, redis, jobs, inflated>>
  BY DEF SweepStart
<1>2. PICK hung \in SUBSET Tickets :
          task' = [task EXCEPT ![p].pc = "sweep_rows", ![p].todo = hung]
  BY ProcFacts DEF SweepStart, TypeOK
<1>3. /\ Moves(p)
      /\ task'[p].pc = "sweep_rows" /\ task'[p].batch = {}
  <2>1. task \in [Procs -> Locals] /\ task[p].batch = {}
    BY <1>1, ProcFacts DEF TaskOK, At, SweepLabels
  <2>2. "sweep_rows" \in Labels
    BY DEF Labels
  <2> QED BY <1>2, <2>1, <2>2 DEF Moves, TaskOK, Locals
<1>4. \A tt \in Types : typeLock'[tt] # p
  BY <1>1, ProcFacts DEF Holds, At, TypeLockLabels, locks
<1>5. SweeperHolds(p)'
  BY <1>3, <1>4 DEF SweeperHolds, At, SweepLabels
<1>6. RedisOK' /\ LocksOK'
  BY <1>1, ProcFacts DEF RedisOK, LocksOK, TypeOK, locks
<1> QED BY <1>1, <1>3, <1>4, <1>5, <1>6, SweepGoesOn DEF At, SweepLabels, locks

LEMMA SweepRowStep ==
    ASSUME IInv, NEW p \in Procs, SweepRow(p) PROVE Preserved
<1>1. /\ At(p, "sweep_rows")
      /\ UNCHANGED <<tickets, catalog, expired, typeLock, redis, jobs, inflated>>
  BY DEF SweepRow
<1>2. PICK t \in task[p].todo :
          /\ RowFree(t)
          /\ \/ /\ status[t] = "RESERVED" /\ LockRow(p, t)
                /\ task' = [task EXCEPT ![p].todo = @ \ {t}, ![p].batch = @ \cup {t}]
             \/ /\ UNCHANGED rowLock
                /\ task' = [task EXCEPT ![p].todo = @ \ {t}]
  BY DEF SweepRow
<1>3. t \in Tickets /\ task[p].batch \subseteq Tickets
  BY ProcFacts DEF Locals
<1>4. \/ /\ Moves(p) /\ task'[p].pc = "sweep_rows"
         /\ task'[p].batch = task[p].batch \cup {t}
         /\ status[t] = "RESERVED" /\ LockRow(p, t)
      \/ /\ Moves(p) /\ task'[p].pc = "sweep_rows"
         /\ task'[p].batch = task[p].batch
         /\ UNCHANGED rowLock
  BY <1>1, <1>2, <1>3, ProcFacts DEF Moves, TaskOK, Locals, At
<1>5. \A tt \in Types : typeLock'[tt] # p
  BY <1>1, ProcFacts DEF Holds, At, TypeLockLabels
<1>6. \A u \in Tickets : \/ rowLock'[u] = rowLock[u]
                         \/ /\ rowLock[u] = None /\ rowLock'[u] = p
                            /\ status[u] = "RESERVED"
  BY <1>2, <1>3, <1>4, ProcFacts DEF LockRow, RowFree, TypeOK
<1>7. SweeperHolds(p)'
  <2>1. (\A u \in task[p].batch : status[u] = "RESERVED" /\ rowLock[u] = p)'
    BY <1>1, <1>2, <1>3, <1>4, ProcFacts
    DEF Holds, SweeperHolds, LockRow, TypeOK, tickets
  <2> QED BY <2>1, <1>4, <1>5 DEF SweeperHolds, At, SweepLabels
<1>8. RedisOK' /\ LocksOK'
  <2>1. RedisOK'
    BY <1>1, ProcFacts DEF RedisOK
  <2>2. /\ typeLock \in [Types -> Procs \cup {None}]
        /\ rowLock \in [Tickets -> Procs \cup {None}]
    BY ProcFacts DEF TypeOK
  <2> QED BY <1>1, <1>2, <1>3, <2>1, <2>2 DEF LocksOK, LockRow
<1> QED BY <1>1, <1>4, <1>5, <1>6, <1>7, <1>8, SweepGoesOn DEF At, SweepLabels

LEMMA SweepRowsDoneStep ==
    ASSUME IInv, NEW p \in Procs, SweepRowsDone(p) PROVE Preserved
<1>1. /\ At(p, "sweep_rows")
      /\ UNCHANGED <<tickets, catalog, expired, locks, redis, jobs, inflated>>
  BY DEF SweepRowsDone
<1>2. RedisOK' /\ LocksOK'
  BY <1>1, ProcFacts DEF RedisOK, LocksOK, TypeOK, locks
<1>3. CASE Finish(p)
  BY <1>1, <1>2, <1>3, ProcFacts, FinishMoves, NeutralStep
  DEF At, Labels, PlainLabels, TypeLockLabels, SweepLabels, TicketLabels, TypeOK
<1>4. CASE task[p].batch # {} /\ Goto(p, "sweep_types")
  <2>1. /\ Moves(p)
        /\ task'[p].pc = "sweep_types" /\ task'[p].batch = task[p].batch
    BY <1>4, ProcFacts, GotoMoves DEF Labels
  <2>2. \A tt \in Types : typeLock'[tt] # p
    BY <1>1, ProcFacts DEF Holds, At, TypeLockLabels, locks
  <2>3. SweeperHolds(p)'
    BY <1>1, <1>4, <2>1, <2>2, ProcFacts
    DEF Holds, SweeperHolds, At, SweepLabels, tickets, locks
  <2> QED BY <1>1, <1>2, <2>1, <2>2, <2>3, SweepGoesOn DEF At, SweepLabels, locks
<1> QED BY <1>3, <1>4 DEF SweepRowsDone

LEMMA SweepTypeStep ==
    ASSUME IInv, NEW p \in Procs, SweepType(p) PROVE Preserved
<1>1. /\ At(p, "sweep_types")
      /\ UNCHANGED <<tickets, catalog, expired, rowLock, redis, jobs, task, inflated>>
  BY DEF SweepType
<1>2. PICK tt \in Types : /\ TypeFree(tt)
                          /\ Cardinality(SweptOfType(p, tt)) <= tickets_sold[tt]
                          /\ LockType(p, tt)
  BY DEF SweepType, TypesToSweep
<1>3. Moves(p)
  BY <1>1, ProcFacts DEF Moves, TaskOK
<1>4. \A u \in Types : \/ typeLock'[u] = typeLock[u]
                       \/ typeLock[u] = None /\ typeLock'[u] = p /\ u = tt
  BY <1>2, ProcFacts DEF LockType, TypeFree, TypeOK
<1>5. RedisOK' /\ LocksOK'
  BY <1>1, <1>2, ProcFacts DEF RedisOK, LocksOK, TypeOK, LockType
<1>6. SweeperHolds(p)'
  <2>1. \A u \in Types : SweptOfType(p, u)' = SweptOfType(p, u)
    BY <1>1 DEF SweptOfType, OfType
  <2>2. ASSUME NEW u \in Types, typeLock'[u] = p
        PROVE  Cardinality(SweptOfType(p, u))' <= tickets_sold'[u]
    BY <1>1, <1>2, <1>4, <2>1, <2>2, ProcFacts
    DEF Holds, SweeperHolds, At, SweepLabels, tickets
  <2> QED
    BY <1>1, <2>2, ProcFacts DEF Holds, SweeperHolds, At, SweepLabels, tickets
<1> QED BY <1>1, <1>3, <1>4, <1>5, <1>6, SweepGoesOn DEF At, SweepLabels

LEMMA SweepTypesDoneStep ==
    ASSUME IInv, NEW p \in Procs, SweepTypesDone(p) PROVE Preserved
<1>1. /\ At(p, "sweep_types") /\ TypesToSweep(p) = {}
      /\ task' = [task EXCEPT ![p].pc = "sweep_refund", ![p].todo = task[p].batch]
      /\ UNCHANGED <<tickets, catalog, expired, locks, redis, jobs, inflated>>
  BY DEF SweepTypesDone
<1>2. /\ Moves(p)
      /\ task'[p].pc = "sweep_refund" /\ task'[p].batch = task[p].batch
  BY <1>1, ProcFacts DEF Moves, TaskOK, Locals, Labels
<1>3. RedisOK' /\ LocksOK'
  BY <1>1, ProcFacts DEF RedisOK, LocksOK, TypeOK, locks
<1>4. /\ \A tt \in Types : SweptOfType(p, tt)' = SweptOfType(p, tt)
      /\ TypesToSweep(p)' = {}
  BY <1>1, <1>2 DEF TypesToSweep, SweptOfType, OfType, locks
<1>5. SweeperHolds(p)'
  <2>1. SweeperHolds(p) /\ task[p].pc = "sweep_types"
    BY <1>1, ProcFacts DEF Holds, At
  <2>2. UNCHANGED <<status, tickets_sold, typeLock, rowLock>>
    BY <1>1 DEF tickets, locks
  <2> QED BY <1>2, <1>4, <2>1, <2>2 DEF SweeperHolds, At, SweepLabels
<1> QED BY <1>1, <1>2, <1>3, <1>5, SweepGoesOn DEF At, SweepLabels, locks

LEMMA SweepRefundStep ==
    ASSUME IInv, NEW p \in Procs, SweepRefund(p) PROVE Preserved
<1>1. /\ At(p, "sweep_refund")
      /\ UNCHANGED <<tickets, catalog, expired, locks, jobs, inflated>>
  BY DEF SweepRefund
<1>2. PICK t \in task[p].todo :
          /\ RedisStep(WorkerDb, Refund(redis[WorkerDb], TypeOf[t], t))
          /\ task' = [task EXCEPT ![p].todo = @ \ {t},
                                  ![p].pc = IF task[p].todo = {t}
                                            THEN "sweep_commit" ELSE "sweep_refund"]
  BY DEF SweepRefund
<1>3. t \in Tickets
  BY ProcFacts DEF Locals
<1>4. /\ Moves(p)
      /\ task'[p].pc \in {"sweep_refund", "sweep_commit"}
      /\ task'[p].batch = task[p].batch
  <2>1. PICK label \in {"sweep_refund", "sweep_commit"} :
            task' = [task EXCEPT ![p].todo = @ \ {t}, ![p].pc = label]
    BY <1>2
  <2>2. label \in Labels
    BY DEF Labels
  <2>3. task \in [Procs -> Locals]
    BY ProcFacts DEF TaskOK
  <2> QED BY <2>1, <2>2, <2>3 DEF Moves, TaskOK, Locals
<1>5. RedisOK' /\ LocksOK'
  BY <1>1, <1>2, <1>3, ProcFacts, RefundTypes, RedisStepType
  DEF RedisOK, LocksOK, TypeOK, locks
<1>6. /\ \A tt \in Types : SweptOfType(p, tt)' = SweptOfType(p, tt)
      /\ TypesToSweep(p)' = TypesToSweep(p)
  BY <1>1, <1>4 DEF TypesToSweep, SweptOfType, OfType, locks
<1>7. SweeperHolds(p)'
  BY <1>1, <1>4, <1>6, ProcFacts
  DEF Holds, SweeperHolds, At, SweepLabels, tickets, locks
<1> QED BY <1>1, <1>4, <1>5, <1>7, SweepGoesOn DEF At, SweepLabels, locks

\* The commit of a sweep is the ledger's Release of its batch.
LEMMA SweepCommitStep ==
    ASSUME IInv, NEW p \in Procs, SweepCommit(p) PROVE Preserved
<1> DEFINE S == task[p].batch
<1>1. /\ At(p, "sweep_commit")
      /\ status' = [t \in Tickets |-> IF t \in S THEN "CANCELED" ELSE status[t]]
      /\ tickets_sold' = [tt \in Types |->
                             tickets_sold[tt] - Cardinality(SweptOfType(p, tt))]
      /\ Unlock(p)
      /\ UNCHANGED <<excess, tickets_quantity, created, expired, redis, jobs, inflated>>
  BY DEF SweepCommit, catalog
<1>2. /\ S # {} /\ S \in SUBSET Tickets
      /\ \A t \in S : status[t] = "RESERVED" /\ rowLock[t] = p
  BY <1>1, ProcFacts DEF Holds, SweeperHolds, At, SweepLabels, Locals
<1>3. ASSUME NEW tt \in Types
      PROVE  /\ Cardinality(SweptOfType(p, tt)) \in Nat
             /\ Cardinality(SweptOfType(p, tt)) <= tickets_sold[tt]
             /\ typeLock[tt] # p => Cardinality(SweptOfType(p, tt)) = 0
  <2>1. IsFiniteSet(SweptOfType(p, tt))
    BY <1>2, BookingAssumption, FS_Subset DEF SweptOfType
  <2>2. SweptOfType(p, tt) = {} => Cardinality(SweptOfType(p, tt)) = 0
    BY FS_EmptySet
  <2>3. typeLock[tt] # p => SweptOfType(p, tt) = {}
    BY <1>1, ProcFacts DEF Holds, SweeperHolds, TypesToSweep
  <2>4. typeLock[tt] = p => Cardinality(SweptOfType(p, tt)) <= tickets_sold[tt]
    BY <1>1, ProcFacts DEF Holds, SweeperHolds, At, SweepLabels
  <2>5. tickets_sold[tt] \in Nat
    BY ProcFacts DEF TypeOK
  <2> QED BY <2>1, <2>2, <2>3, <2>4, <2>5, FS_CardinalityType
<1>4. /\ Moves(p)
      /\ task'[p].pc = "idle" /\ task'[p].batch = {}
  BY ProcFacts, FinishMoves DEF SweepCommit
<1>5. tickets_sold' \in [Types -> Nat]
  BY <1>1, <1>3, ProcFacts DEF TypeOK
<1>6. status' \in [Tickets -> Statuses]
  BY <1>1, ProcFacts DEF TypeOK, Statuses
<1>7. RowsOK' /\ RedisOK' /\ TaskOK'
  BY <1>1, <1>4, <1>5, <1>6, ProcFacts DEF TypeOK, RowsOK, RedisOK, Moves
<1>8. \A u \in Tickets : status'[u] = "DRAWN" => status[u] = "DRAWN" /\ rowLock[u] # p
  BY <1>1, ProcFacts DEF RowsLocked, At
<1>9. /\ \A u \in Tickets : rowLock[u] \notin {p, None} => status'[u] = status[u]
      /\ \A u \in Tickets : status[u] \notin {"FREE", "DRAWN", "VOID"}
                               => status'[u] \notin {"FREE", "DRAWN", "VOID"}
  BY <1>1, <1>2
<1>10. ASSUME NEW tt \in Types, typeLock[tt] # p
       PROVE  tickets_sold'[tt] = tickets_sold[tt]
  BY <1>1, <1>3, <1>10, ProcFacts DEF TypeOK
<1>11. LocksOK' /\ LockDiscipline'
  BY <1>1, <1>4, <1>7, <1>8, <1>9, <1>10, EndOfTransaction
  DEF PlainLabels, Labels, TypeLockLabels, SweepLabels, TicketLabels
<1>12. L!Release(S)
  <2>1. \A tt \in Types : L!Cardinality(S \cap L!OfType(tt))
                             = Cardinality(SweptOfType(p, tt))
    BY DEF SweptOfType, L!OfType, OfType, L!Cardinality, Cardinality
  <2>2. \A tt \in Types : L!Cardinality(S \cap L!OfType(tt)) <= tickets_sold[tt]
    BY <2>1, <1>3
  <2>3. tickets_sold' = [tt \in Types |->
                            tickets_sold[tt] - L!Cardinality(S \cap L!OfType(tt))]
    BY <2>1, <1>1
  <2>4. [u \in Tickets |-> Committed(status'[u])]
           = [u \in Tickets |-> IF u \in S THEN "CANCELED"
                                ELSE [v \in Tickets |-> Committed(status[v])][u]]
    BY <1>1 DEF Committed
  <2>5. \A u \in S : [v \in Tickets |-> Committed(status[v])][u] = "RESERVED"
    BY <1>2 DEF Committed
  <2> QED BY <1>1, <1>2, <2>2, <2>3, <2>4, <2>5 DEF L!Release
<1>13. L!Next
  BY <1>2, <1>12 DEF L!Next
<1> QED BY <1>7, <1>11, <1>13 DEF Preserved

LEMMA SweepFailsStep ==
    ASSUME IInv, NEW p \in Procs, SweepFails(p) PROVE Preserved
<1>1. Rollback(p)
  BY UnlockIsRollback DEF SweepFails, At
<1> QED
  BY <1>1, ProcFacts, FinishMoves, RollbackStep
  DEF SweepFails, Labels, PlainLabels, TypeLockLabels, SweepLabels, TicketLabels, RedisOK

LEMMA HungStep == ASSUME IInv, NEW p \in Procs, ReconcileHung(p) PROVE Preserved
BY SweepStartStep, SweepRowStep, SweepRowsDoneStep, SweepTypeStep, SweepFailsStep,
   SweepTypesDoneStep, SweepRefundStep, SweepCommitStep
DEF ReconcileHung
-----------------------------------------------------------------------------
(* reconcile_redis_orphans *)

LEMMA OrphansStep == ASSUME IInv, NEW p \in Procs, ReconcileOrphans(p) PROVE Preserved
<1> USE DEF At, Labels, PlainLabels, TypeLockLabels, SweepLabels, TicketLabels
<1>1. /\ task[p].pc \in {"idle", "orphan_query", "orphan_refund"}
      /\ UNCHANGED <<tickets, catalog, expired, locks, jobs, inflated>>
  BY DEF ReconcileOrphans, OrphanScan, OrphanQuery, OrphanRefund
<1>2. RedisOK'
  <2>1. CASE UNCHANGED redis
    BY <2>1, <1>1, ProcFacts DEF RedisOK
  <2>2. CASE OrphanRefund(p)
    <3>1. PICK t \in task[p].todo :
              RedisStep(WorkerDb, Refund(redis[WorkerDb], TypeOf[t], t))
      BY <2>2 DEF OrphanRefund
    <3>2. t \in Tickets
      BY ProcFacts DEF Locals
    <3> QED BY <1>1, <3>1, <3>2, ProcFacts, RefundTypes, RedisStepType DEF RedisOK
  <2> QED BY <2>1, <2>2 DEF ReconcileOrphans, OrphanScan, OrphanQuery
<1>3. /\ Moves(p)
      /\ task'[p].pc \in {"idle", "orphan_query", "orphan_refund"}
      /\ task'[p].batch = {}
  <2>1. CASE Finish(p)
    BY <2>1, ProcFacts, FinishMoves
  <2>2. CASE \E S \in SUBSET Tickets, label \in {"orphan_query", "orphan_refund"} :
                \/ task' = [task EXCEPT ![p].pc = label, ![p].todo = S]
                \/ task' = [task EXCEPT ![p].todo = S]
    BY <2>2, <1>1, ProcFacts DEF Moves, TaskOK, Locals
  <2>3. ASSUME NEW old \in SUBSET OldEnough, OrphanScan(p, old)
        PROVE  old \in SUBSET Tickets
    BY ProcFacts DEF OldEnough, Database
  <2>4. task[p].todo \in SUBSET Tickets
    BY ProcFacts DEF Locals
  <2> QED
    BY <2>1, <2>2, <2>3, <2>4 DEF ReconcileOrphans, OrphanScan, OrphanQuery, OrphanRefund
<1> QED BY <1>1, <1>2, <1>3, ProcFacts, NeutralStep DEF TypeOK
-----------------------------------------------------------------------------
(* TicketTypeService *)

\* Creating, resizing and deleting a type is the ledger's Resize.
LEMMA ResizeStep ==
    ASSUME IInv, NEW p \in Admins, CreateType(p) \/ UpdateType(p) \/ DeleteType(p)
    PROVE  Preserved
<1> DEFINE tt == Target[p]
<1>1. PICK label \in {"create_refresh", "update_refresh", "del_inventory"},
           n \in 0 .. MaxQuantity :
          /\ Goto(p, label)
          /\ tickets_quantity' = [tickets_quantity EXCEPT ![tt] = n]
          /\ n >= tickets_sold[tt]
          /\ n = 0 => \A t \in OfType(tt) : ~HasRow(t)
  <2>1. tt \in Types /\ MaxQuantity \in Nat
    BY BookingAssumption
  <2>2. tickets_sold[tt] \in Nat /\ tickets_quantity[tt] \in Nat
    BY <2>1, ProcFacts DEF IInv, TypeOK
  <2>3. tickets_sold[tt] <= tickets_quantity[tt]
    BY <2>1, LedgerFacts DEF IInv
  <2>4. CASE CreateType(p)
    <3>1. tickets_quantity[tt] = 0
      BY <2>1, <2>2, <2>4 DEF CreateType, IInv, CatalogOK, TypeRow
    <3>2. tickets_sold[tt] = 0
      BY <3>1, <2>2, <2>3
    <3>3. PICK n \in 1 .. MaxQuantity :
              tickets_quantity' = [tickets_quantity EXCEPT ![tt] = n]
      BY <2>4 DEF CreateType
    <3>4. Goto(p, "create_refresh") /\ n \in 0 .. MaxQuantity /\ n >= 0 /\ n # 0
      BY <2>1, <2>4, <3>3 DEF CreateType
    <3> QED BY <3>2, <3>3, <3>4
  <2>5. CASE UpdateType(p)
    <3>1. PICK n \in 1 .. MaxQuantity :
              /\ n >= tickets_sold[tt]
              /\ tickets_quantity' = [tickets_quantity EXCEPT ![tt] = n]
      BY <2>5 DEF UpdateType
    <3>2. Goto(p, "update_refresh") /\ n \in 0 .. MaxQuantity /\ n # 0
      BY <2>1, <2>5, <3>1 DEF UpdateType
    <3> QED BY <3>1, <3>2
  <2>6. CASE DeleteType(p)
    <3>1. tickets_sold[tt] = 0
      BY <2>1, <2>6, LedgerFacts DEF DeleteType, IInv, HasRow, IsLive
    <3>2. 0 \in 0 .. MaxQuantity /\ 0 >= tickets_sold[tt]
      BY <2>1, <3>1
    <3>3. /\ Goto(p, "del_inventory")
          /\ tickets_quantity' = [tickets_quantity EXCEPT ![tt] = 0]
          /\ \A t \in OfType(tt) : ~HasRow(t)
      BY <2>6 DEF DeleteType
    <3> QED BY <3>2, <3>3
  <2> QED BY <2>4, <2>5, <2>6
<1>2. /\ At(p, "idle") /\ tt \in Types /\ p \in Procs
      /\ TypeFree(tt) \/ ~TypeRow(tt)
      /\ created' \in SUBSET Types
      /\ UNCHANGED <<tickets, expired, locks, redis, jobs, inflated>>
  BY BookingAssumption
  DEF CreateType, UpdateType, DeleteType, Procs, IInv, CatalogOK, TypeOK
<1>3. /\ Moves(p)
      /\ task'[p].pc = label /\ task'[p].batch = {}
  BY <1>1, <1>2, ProcFacts, GotoMoves DEF Labels, At, SweepLabels
<1>4. RowsOK' /\ LocksOK' /\ RedisOK' /\ TaskOK'
  BY <1>1, <1>2, <1>3, ProcFacts
  DEF TypeOK, RowsOK, LocksOK, RedisOK, Moves, tickets, locks
<1>5. Respects(p)
  BY <1>1, <1>2, <1>3, ProcFacts DEF Respects, Moves, TypeFree, TypeOK, tickets, locks
<1>6. \A u \in Types : typeLock'[u] # p
  BY <1>2, ProcFacts DEF Holds, At, TypeLockLabels, locks
<1>7. Holds(p)'
  BY <1>2, <1>3, <1>4, <1>6, Landing
  DEF PlainLabels, Labels, TypeLockLabels, SweepLabels, TicketLabels
<1>8. RowsLocked'
  BY <1>2, <1>3, RowsFrame DEF At, tickets, locks
<1>9. L!Resize(tt, n)
  BY <1>1, <1>2, ProcFacts
  DEF L!Resize, L!OfType, OfType, HasRow, Committed, TypeOK, Statuses, tickets
<1>10. L!Next
  BY <1>2, <1>9 DEF L!Next
<1>11. \A q \in Procs : Holds(q)'
  BY <1>2, <1>5, <1>7, Interference
<1> QED BY <1>4, <1>8, <1>10, <1>11 DEF Preserved, LockDiscipline

\* Writing the inventory key after the commit.
LEMMA PublishStep ==
    ASSUME IInv, NEW p \in Admins,
           RefreshType(p) \/ PublishInventory(p) \/ RemoveInventory(p)
    PROVE  Preserved
<1> USE DEF At, Labels, PlainLabels, TypeLockLabels, SweepLabels, TicketLabels
<1>1. p \in Procs /\ Target[p] \in Types
  BY BookingAssumption DEF Procs
<1>2. CASE RefreshType(p)
  <2>1. /\ tickets_quantity[Target[p]] \in Nat
        /\ tickets_quantity[Target[p]] - tickets_sold[Target[p]] \in Nat
    BY <1>1, ProcFacts, LedgerFacts, BookingAssumption DEF IInv, TypeOK
  <2>2. /\ Moves(p)
        /\ task'[p].pc \in {"set_inventory", "idle"}
        /\ task'[p].batch = {}
    <3>1. CASE Finish(p)
      BY <1>1, <3>1, ProcFacts, FinishMoves
    <3>2. ASSUME NEW n \in Nat,
                 task' = [task EXCEPT ![p].pc = "set_inventory", ![p].avail = n]
          PROVE  /\ Moves(p)
                 /\ task'[p].pc \in {"set_inventory", "idle"}
                 /\ task'[p].batch = {}
      <4>1. TaskOK /\ task[p].batch = {}
        BY <1>1, <1>2, ProcFacts DEF RefreshType
      <4>2. "set_inventory" \in Labels
        OBVIOUS
      <4> QED BY <1>1, <3>2, <4>1, <4>2, ComputeMoves
    <3> QED BY <1>2, <2>1, <3>1, <3>2 DEF RefreshType
  <2> QED BY <1>1, <1>2, <2>2, ProcFacts, NeutralStep DEF RefreshType, TypeOK, RedisOK
<1>3. CASE PublishInventory(p)
  <2>1. task[p].avail \in Nat
    BY <1>1, ProcFacts DEF Locals
  <2>2. RedisOK'
    BY <1>1, <1>3, <2>1, ProcFacts, CounterTypes, RedisStepType
    DEF PublishInventory, RedisOK
  <2> QED
    BY <1>1, <1>3, <2>2, ProcFacts, FinishMoves, NeutralStep DEF PublishInventory, TypeOK
<1>4. CASE RemoveInventory(p)
  <2>1. RedisOK'
    BY <1>1, <1>4, ProcFacts, CounterTypes, RedisStepType DEF RemoveInventory, RedisOK
  <2> QED
    BY <1>1, <1>4, <2>1, ProcFacts, FinishMoves, NeutralStep DEF RemoveInventory, TypeOK
<1> QED BY <1>2, <1>3, <1>4

LEMMA AdminStep == ASSUME IInv, NEW p \in Admins, Administer(p) PROVE Preserved
BY ResizeStep, PublishStep DEF Administer
-----------------------------------------------------------------------------
(* Failures *)

\* A deadlock victim, a crash and a failed job roll back and are over.
LEMMA AbortStep ==
    ASSUME IInv, NEW p \in Procs, DeadlockAbort(p) \/ Crash(p) \/ TaskError(p)
    PROVE  Preserved
<1>1. /\ Rollback(p) /\ Finish(p)
      /\ UNCHANGED <<catalog, expired, redis, inflated>>
      /\ jobs' \in SUBSET Tickets
  BY ProcFacts DEF DeadlockAbort, Crash, TaskError, TypeOK
<1> QED
  BY <1>1, ProcFacts, FinishMoves, RollbackStep
  DEF Labels, PlainLabels, TypeLockLabels, SweepLabels, TicketLabels, RedisOK

\* A database error sends create to its except branch.
LEMMA DbErrorStep ==
    ASSUME IInv, NEW p \in Procs, DbError(p) PROVE Preserved
<1>1. task[p].ticket \in Tickets \cup {None} /\ task[p].pc \notin SweepLabels
  BY ProcFacts DEF DbError, Locals, At, SweepLabels
<1>2. /\ Moves(p)
      /\ task'[p].pc = "compensate" /\ task'[p].batch = {}
  BY <1>1, ProcFacts, WorkMoves DEF DbError, Labels
<1> QED
  BY <1>2, ProcFacts, RollbackStep
  DEF DbError, Labels, PlainLabels, TypeLockLabels, SweepLabels, TicketLabels, RedisOK

\* Steps that concern no transaction: time, Redis and rest.
LEMMA EnvironmentStep ==
    ASSUME IInv, UNCHANGED <<tickets, catalog, locks, task, inflated>>,
           expired' \in SUBSET Tickets, RedisOK'
    PROVE  Preserved
<1>1. UNCHANGED <<status, tickets_sold, excess, tickets_quantity, created,
                  typeLock, rowLock, task, inflated>>
  BY DEF tickets, catalog, locks
<1>2. RowsOK' /\ LocksOK' /\ TaskOK'
  BY <1>1 DEF IInv, TypeOK, RowsOK, LocksOK, TaskOK
<1>3. RowsLocked'
  BY <1>1 DEF IInv, LockDiscipline, RowsLocked, RowFree, At
<1>4. ASSUME NEW q \in Procs PROVE Holds(q)'
  BY <1>1 DEF IInv, LockDiscipline, Holds, BuyerHolds, TicketHolds, TypeHolds,
              CancelerHolds, SweeperHolds, SweptOfType, TypesToSweep, OfType, At
<1>5. [L!Next]_(L!vars)
  BY <1>1, LedgerStutter
<1> QED BY <1>2, <1>3, <1>4, <1>5 DEF Preserved, LockDiscipline

LEMMA RestartTypes == RedisRestart => RedisOK'
BY DEF RedisRestart, RedisOK, EmptyDatabase, Database
-----------------------------------------------------------------------------
(* The specification *)

\* Only administrators touch the catalog, and a type they resize was created.
LEMMA CatalogStep ==
    ASSUME IInv, UNCHANGED catalog \/ \E p \in Admins : Administer(p)
    PROVE  CatalogOK'
<1>1. CASE UNCHANGED catalog
  BY <1>1 DEF IInv, CatalogOK, TypeRow, catalog
<1>2. ASSUME NEW p \in Admins, Administer(p)
      PROVE  CatalogOK'
  <2>1. Target[p] \in Types
    BY BookingAssumption
  <2>2. CASE CreateType(p) \/ UpdateType(p) \/ DeleteType(p)
    BY <2>1, <2>2
    DEF CreateType, UpdateType, DeleteType, IInv, TypeOK, CatalogOK, TypeRow
  <2>3. CASE RefreshType(p) \/ PublishInventory(p) \/ RemoveInventory(p)
    BY <2>3 DEF RefreshType, PublishInventory, RemoveInventory, IInv, CatalogOK,
                TypeRow, catalog
  <2> QED BY <1>2, <2>2, <2>3 DEF Administer
<1> QED BY <1>1, <1>2

\* Nobody else does.
LEMMA CatalogUntouched ==
    ASSUME NEW p \in Procs,
           \/ Buy(p) \/ Cancel(p) \/ Pay(p) \/ ReleaseUnpaid(p)
           \/ ReconcileHung(p) \/ ReconcileOrphans(p)
           \/ DeadlockAbort(p) \/ DbError(p) \/ Crash(p) \/ TaskError(p)
    PROVE  UNCHANGED catalog
<1>1. Buy(p) \/ Cancel(p) \/ Pay(p) => UNCHANGED catalog
  BY DEF Buy, Gate, WarmRead, WarmSet, GateAgain, InsertTicket, InsertRefused, HSet,
         CommitTicket, RefreshTicket, Enqueue, Compensate, Cancel, CancelSelect,
         CancelUpdate, CancelNothing, CancelDelete, GiveBack, CancelHDel,
         Pay, PaySelect, PayCommit, PayRefresh, PayHDel
<1>2. ReleaseUnpaid(p) \/ ReconcileHung(p) \/ ReconcileOrphans(p) => UNCHANGED catalog
  BY DEF ReleaseUnpaid, ReleaseSelect, ReleaseSkip, ReleaseUpdate, ReleaseFails,
         ReleaseRefund, ReleaseCommit, ReconcileHung, SweepStart, SweepRow,
         SweepRowsDone, SweepType, SweepFails, SweepTypesDone, SweepRefund,
         SweepCommit, ReconcileOrphans, OrphanScan, OrphanQuery, OrphanRefund
<1>3. DeadlockAbort(p) \/ DbError(p) \/ Crash(p) \/ TaskError(p) => UNCHANGED catalog
  BY DEF DeadlockAbort, DbError, Crash, TaskError
<1> QED BY <1>1, <1>2, <1>3

\* Every step preserves the invariant and is a step of the ledger, or none.
LEMMA NextStep ==
    ASSUME IInv, Next PROVE IInv' /\ [L!Next]_(L!vars)
<1>1. Preserved /\ CatalogOK'
  <2>1. ASSUME NEW p \in Procs, Step(p) PROVE Preserved /\ CatalogOK'
    <3>1. CASE p \in Admins /\ Administer(p)
      BY <3>1, AdminStep, CatalogStep
    <3>2. CASE \/ p \in Buyers /\ Buy(p)
               \/ Cancel(p) \/ Pay(p) \/ ReleaseUnpaid(p)
               \/ ReconcileHung(p) \/ ReconcileOrphans(p) \/ DeadlockAbort(p)
      <4>1. Preserved
        BY <3>2, BuyStep, CancelStep, PayStep, ReleaseStep, HungStep, OrphansStep,
           AbortStep
      <4> QED BY <3>2, <4>1, CatalogUntouched, CatalogStep
    <3> QED BY <2>1, <3>1, <3>2 DEF Step
  <2>2. ASSUME NEW t \in Tickets, Expire(t) PROVE Preserved /\ CatalogOK'
    <3>1. expired' \in SUBSET Tickets /\ RedisOK'
      BY <2>2 DEF Expire, IInv, TypeOK, RedisOK
    <3> QED BY <2>2, <3>1, EnvironmentStep, CatalogStep DEF Expire
  <2>3. CASE Fault
    <3>1. ASSUME RedisRestart PROVE Preserved /\ CatalogOK'
      <4>1. expired' \in SUBSET Tickets
        BY <3>1 DEF RedisRestart, IInv, TypeOK
      <4> QED BY <3>1, <4>1, RestartTypes, EnvironmentStep, CatalogStep DEF RedisRestart
    <3>2. ASSUME NEW p \in Procs, DbError(p) \/ Crash(p) \/ TaskError(p)
          PROVE  Preserved /\ CatalogOK'
      BY <3>2, AbortStep, DbErrorStep, CatalogUntouched, CatalogStep
    <3> QED BY <2>3, <3>1, <3>2 DEF Fault
  <2>4. CASE UNCHANGED vars
    <3>1. /\ UNCHANGED <<tickets, catalog, locks, task, inflated>>
          /\ UNCHANGED <<expired, redis, jobs>>
      BY <2>4 DEF vars, tickets, catalog, locks
    <3>2. expired' \in SUBSET Tickets /\ RedisOK'
      BY <3>1 DEF IInv, TypeOK, RedisOK
    <3> QED BY <3>1, <3>2, EnvironmentStep, CatalogStep
  <2> QED BY <2>1, <2>2, <2>3, <2>4 DEF Next
<1>2. faults' \in 0 .. MaxFaults
  BY BookingAssumption DEF Next, IInv, TypeOK, vars
<1>3. TypeOK'
  BY <1>1, <1>2, TypeOKParts DEF Preserved, TypeOK, RowsOK, LocksOK, RedisOK, TaskOK
<1>4. L!Inv'
  BY <1>1, LedgerKeepsInv DEF IInv, Preserved
<1> QED BY <1>1, <1>3, <1>4 DEF IInv, Preserved

LEMMA InitHolds == Init => IInv /\ L!Init
<1> SUFFICES ASSUME Init PROVE IInv /\ L!Init
  OBVIOUS
<1> USE DEF Init
<1>1. TypeOK
  <2>1. WarmDatabase \in Database /\ EmptyDatabase \in Database
    <3>1. Capacity0 \in [Types -> Nat]
      BY BookingAssumption
    <3>2. EmptyDatabase \in Database
      BY DEF EmptyDatabase, Database
    <3>3. {tt \in Types : Capacity0[tt] > 0} \in SUBSET Types
      OBVIOUS
    <3>4. \A db \in Database, S \in SUBSET Types, f \in [Types -> Nat] :
             [db EXCEPT !.keys = S, !.inventory = f] \in Database
      BY DEF Database
    <3> QED BY <3>1, <3>2, <3>3, <3>4 DEF WarmDatabase
  <2>2. Idle \in Locals
    BY DEF Idle, Locals, Labels
  <2> QED BY <2>1, <2>2, BookingAssumption DEF TypeOK, Statuses
<1>2. None \notin Procs
  BY BookingAssumption
<1>3. LockDiscipline
  <2>1. RowsLocked
    BY DEF RowsLocked, RowFree
  <2>2. ASSUME NEW p \in Procs PROVE Holds(p)
    BY <1>2 DEF Holds, BuyerHolds, TicketHolds, TypeHolds, CancelerHolds,
                SweeperHolds, At, Idle, TicketLabels, TypeLockLabels, SweepLabels
  <2> QED BY <2>1, <2>2 DEF LockDiscipline
<1>4. CatalogOK
  BY DEF CatalogOK, TypeRow
<1>5. L!Init
  BY BookingAssumption DEF L!Init, Committed
<1>6. L!Inv
  BY <1>5, L!LedgerInit, LedgerParametersHold
<1> QED BY <1>1, <1>3, <1>4, <1>5, <1>6 DEF IInv

\* IInv is inductive.
LEMMA Invariance == Spec => []IInv
<1>1. IInv /\ UNCHANGED vars => IInv'
  <2> SUFFICES ASSUME IInv, UNCHANGED vars PROVE IInv'
    OBVIOUS
  <2>1. /\ UNCHANGED <<tickets, catalog, locks, task, inflated, faults>>
        /\ UNCHANGED <<expired, redis, jobs>>
    BY DEF vars, tickets, catalog, locks
  <2>2. expired' \in SUBSET Tickets /\ RedisOK' /\ faults' \in 0 .. MaxFaults
    BY <2>1 DEF IInv, TypeOK, RedisOK
  <2>3. Preserved /\ CatalogOK'
    BY <2>1, <2>2, EnvironmentStep, CatalogStep
  <2>4. L!Inv'
    BY <2>3, LedgerKeepsInv DEF IInv, Preserved
  <2>5. TypeOK'
    BY <2>2, <2>3 DEF Preserved, TypeOK, RowsOK, LocksOK, RedisOK, TaskOK
  <2> QED BY <2>3, <2>4, <2>5 DEF IInv, Preserved
<1> QED BY <1>1, InitHolds, NextStep, PTL DEF Spec
-----------------------------------------------------------------------------
(* The theorems *)

\* Every variable of the model keeps its type.
THEOREM TypeCorrect == Spec => []TypeOK
<1>1. IInv => TypeOK
  BY DEF IInv
<1> QED BY <1>1, Invariance, PTL

(***************************************************************************)
(* What a transaction read under a lock still holds when it commits, under *)
(* every interleaving of requests, tasks, deadlock aborts, crashes and     *)
(* Redis restarts (services/ticket.py, services/payment.py, worker.py).    *)
(***************************************************************************)
THEOREM LocksAreKept == Spec => []LockDiscipline
<1>1. IInv => LockDiscipline
  BY DEF IInv
<1> QED BY <1>1, Invariance, PTL

\* The ledger seen through the proofs' instance of it.
LEMMA ImplementsL == Spec => L!Spec
<1>1. UNCHANGED vars => UNCHANGED L!vars
  BY DEF vars, L!vars
<1>2. IInv /\ [Next]_vars => [L!Next]_(L!vars)
  BY <1>1, NextStep
<1> QED BY <1>2, InitHolds, Invariance, PTL DEF Spec, L!Spec

(***************************************************************************)
(* Every transaction of the code is atomic: what is committed behaves as   *)
(* the ledger does, whatever fails in between.                             *)
(***************************************************************************)
THEOREM Refinement == Spec => ImplementsLedger
<1>1. L!Init => Ledger!Init
  BY DEF L!Init, Ledger!Init
<1>2. L!Next => Ledger!Next
  BY DEF L!Next, Ledger!Next, L!Reserve, Ledger!Reserve, L!Pay, Ledger!Pay,
         L!Cancel, Ledger!Cancel, L!Release, Ledger!Release, L!Resize, Ledger!Resize,
         L!OfType, Ledger!OfType, L!IsLive, Ledger!IsLive,
         L!Cardinality, Ledger!Cardinality
<1>3. [L!Next]_(L!vars) => [Ledger!Next]_(Ledger!vars)
  BY <1>2 DEF L!vars, Ledger!vars
<1> QED BY <1>1, <1>3, ImplementsL, PTL DEF ImplementsLedger, L!Spec, Ledger!Spec

(***************************************************************************)
(* Overselling, as far as the code rules it out: while no delete of a type *)
(* has taken a unit off for a ticket without a seat, its tickets that hold *)
(* one are never more than its seats.                                      *)
(***************************************************************************)
NoOversellingWithoutExcess ==
    \A tt \in Types :
        excess[tt] = 0 =>
            Cardinality({t \in OfType(tt) : IsLive(t)}) <= tickets_quantity[tt]

THEOREM NoOversell == Spec => []NoOversellingWithoutExcess
<1>1. L!NoOversellWithoutExcess => NoOversellingWithoutExcess
  <2> SUFFICES ASSUME L!NoOversellWithoutExcess, NEW tt \in Types, excess[tt] = 0
               PROVE  Cardinality({t \in OfType(tt) : IsLive(t)}) <= tickets_quantity[tt]
    BY DEF NoOversellingWithoutExcess
  <2>1. L!Live(tt) = {t \in OfType(tt) : IsLive(t)}
    BY DEF L!Live, L!OfType, L!IsLive, OfType, IsLive, Committed
  <2>2. L!Cardinality(L!Live(tt)) <= tickets_quantity[tt]
    BY DEF L!NoOversellWithoutExcess
  <2> QED BY <2>1, <2>2 DEF L!Cardinality, Cardinality
<1>2. L!Spec => []L!NoOversellWithoutExcess
  BY L!LedgerNoOversell, LedgerParametersHold, PTL
<1> QED BY <1>1, <1>2, ImplementsL, PTL

(***************************************************************************)
(* A type is never deleted from under a ticket, not even one that is being *)
(* inserted (services/ticket_type.py delete against services/ticket.py).   *)
(***************************************************************************)
THEOREM ReferentialIntegrity == Spec => []TicketsHaveTypes
<1>1. IInv /\ L!RowsHaveTypes => TicketsHaveTypes
  <2> SUFFICES ASSUME IInv, L!RowsHaveTypes, NEW t \in Tickets,
                      HasRow(t) \/ status[t] = "DRAWN"
               PROVE  TypeRow(TypeOf[t])
    BY DEF TicketsHaveTypes
  <2>1. CASE HasRow(t)
    BY <2>1 DEF L!RowsHaveTypes, HasRow, Committed, TypeRow
  <2>2. CASE status[t] = "DRAWN"
    <3>1. PICK p \in Procs : /\ task[p].ticket = t
                             /\ At(p, "hset") \/ At(p, "commit")
      BY <2>2 DEF IInv, LockDiscipline, RowsLocked
    <3>2. TypeOf[t] = Target[p] /\ tickets_sold[Target[p]] < tickets_quantity[Target[p]]
      BY <3>1 DEF IInv, LockDiscipline, Holds, BuyerHolds
    <3>3. TypeOf[t] \in Types
      BY BookingAssumption
    <3> QED BY <3>2, <3>3 DEF IInv, TypeOK, TypeRow
  <2> QED BY <2>1, <2>2
<1>2. L!Spec => []L!RowsHaveTypes
  BY L!LedgerRowsHaveTypes, LedgerParametersHold, PTL
<1> QED BY <1>1, <1>2, ImplementsL, Invariance, PTL
=============================================================================
