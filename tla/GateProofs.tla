----------------------------- MODULE GateProofs ------------------------------
(***************************************************************************)
(* What Redis keeps of the tickets of PostgreSQL, for any number of        *)
(* processes, tickets, types and seats and whether or not the API and the  *)
(* worker share a Redis database:                                          *)
(*                                                                         *)
(*   no ticket is canceled by a task that has not recorded its refund;     *)
(*   the inventory counter of a ticket type covers the requests let in and *)
(*   the units on their way back, and a refund adds to it once.            *)
(*                                                                         *)
(* Redis keeps its data in both.  The second one is about a warm key: the  *)
(* type was there when the system started, and no administrator works on   *)
(* it.  Otherwise the counter is SET from a copy of the row that may be    *)
(* stale by then.                                                          *)
(*                                                                         *)
(* The gate is a balance.  Every unit of the counter, every unit in the    *)
(* hands of a request and every unit on its way back is matched by a seat, *)
(* or by a ticket that was refunded and is not canceled.  A step moves at  *)
(* most one process and at most one ticket from one side to the other, but *)
(* for the commit of a sweep.                                              *)
(***************************************************************************)
EXTENDS DeadlockProofs

\* A ticket that PostgreSQL has as CANCELED is in the worker's set of
\* canceled tickets, which is what keeps its slot from coming back again.
CancelsAreRecorded ==
    \A t \in Tickets : status[t] = "CANCELED" => t \in redis[WorkerDb].canceled

\* What a task that is about to cancel tickets has recorded.
Recorded(p) ==
    /\ At(p, "release_commit") => task[p].ticket \in redis[WorkerDb].canceled
    /\ At(p, "sweep_refund") => task[p].batch \ task[p].todo \subseteq redis[WorkerDb].canceled
    /\ At(p, "sweep_commit") => task[p].batch \subseteq redis[WorkerDb].canceled

RecordInv == CancelsAreRecorded /\ \A p \in Procs : Recorded(p)

\* The types that no administrator works on.
Untouched == {tt \in Types : \A p \in Admins : Target[p] # tt}

\* Where a request has been let in by the gate.
ServedLabels == {"insert", "hset", "commit", "refresh", "enqueue", "compensate"}

\* A request for tt never computes its counter, and is let in only if it has one.
NeverWarms(p) ==
    /\ task[p].pc \notin {"warm_set", "gate_again"}
    /\ At(p, "warm_read") => Capacity0[Target[p]] = 0
    /\ task[p].pc \in ServedLabels => Capacity0[Target[p]] > 0

\* The row and the key of tt are those the system started with.
Warm(tt) ==
    /\ tickets_quantity[tt] = Capacity0[tt]
    /\ tt \in redis[ApiDb].keys <=> Capacity0[tt] > 0
    /\ \A p \in Buyers : Target[p] = tt => NeverWarms(p)
    /\ IsFiniteSet(Held(tt))
    /\ IsFiniteSet(Owed(tt))

GateInv == \A tt \in Untouched : Warm(tt) /\ (tt \in redis[ApiDb].keys => Covered(tt))

\* One step of one process.
StepOf(p) == Step(p) \/ DbError(p) \/ Crash(p) \/ TaskError(p)

\* The commits that cancel tickets.
CancelsTickets(p) == ReleaseCommit(p) \/ SweepCommit(p)

\* A step that is none of these, of whichever process.
LeavesStatusLive(p) ==
    \/ Buy(p) \/ Cancel(p) \/ Pay(p) \/ ReconcileOrphans(p) \/ Administer(p)
    \/ (ReleaseUnpaid(p) \/ ReconcileHung(p)) /\ ~CancelsTickets(p)
    \/ DeadlockAbort(p) \/ DbError(p) \/ Crash(p) \/ TaskError(p)
-----------------------------------------------------------------------------
(* Counting *)

Weight(S, x) == IF x \in S THEN 1 ELSE 0

\* Two sets that differ in x at most.
LEMMA DifferInOne ==
    ASSUME NEW S, IsFiniteSet(S), NEW T, NEW x, T \ {x} = S \ {x}
    PROVE  /\ IsFiniteSet(T)
           /\ Cardinality(S) \in Nat /\ Cardinality(T) \in Nat
           /\ Cardinality(T) - Weight(T, x) = Cardinality(S) - Weight(S, x)
<1>1. /\ IsFiniteSet(S \ {x})
      /\ Cardinality(S \ {x}) = Cardinality(S) - Weight(S, x)
  BY FS_RemoveElement, FS_CardinalityType DEF Weight
<1>2. CASE x \in T
  <2>1. T = (S \ {x}) \cup {x}
    BY <1>2
  <2>2. IsFiniteSet(T) /\ Cardinality(T) = Cardinality(S \ {x}) + 1
    BY <1>1, <2>1, FS_AddElement
  <2> QED BY <1>1, <1>2, <2>2, FS_CardinalityType DEF Weight
<1>3. CASE x \notin T
  <2>1. T = S \ {x}
    BY <1>3
  <2> QED BY <1>1, <1>3, <2>1, FS_CardinalityType DEF Weight
<1> QED BY <1>2, <1>3

\* Only p is let in, is refused or has something to give back.
LEMMA OnlyPCounts ==
    ASSUME NEW p \in Procs, NEW tt \in Types,
           \A q \in Procs \ {p} : task'[q] = task[q]
    PROVE  /\ Held(tt)' \ {p} = Held(tt) \ {p}
           /\ Owed(tt)' \ {p} = Owed(tt) \ {p}
BY DEF Held, Owed, At, Procs
-----------------------------------------------------------------------------
(* The counter under the Redis operations *)

LEMMA CounterEffects ==
    ASSUME NEW db \in Database, NEW tt \in Types, NEW uu \in Types
    PROVE  /\ AfterReserve(db, uu).keys = db.keys
           /\ AfterReserve(db, uu).inventory[tt] =
                 IF tt = uu /\ Admitted(db, uu) THEN db.inventory[tt] - 1
                                                ELSE db.inventory[tt]
           /\ Incr(db, uu).keys = db.keys \cup {uu}
           /\ Incr(db, uu).inventory[tt] =
                 IF tt = uu THEN db.inventory[tt] + 1 ELSE db.inventory[tt]
           /\ SafeIncr(db, uu).keys = db.keys
           /\ SafeIncr(db, uu).inventory[tt] =
                 IF tt = uu /\ uu \in db.keys THEN db.inventory[tt] + 1
                                              ELSE db.inventory[tt]
           /\ \A n : tt # uu =>
                 /\ SetInventory(db, uu, n).inventory[tt] = db.inventory[tt]
                 /\ tt \in SetInventory(db, uu, n).keys <=> tt \in db.keys
           /\ tt # uu => /\ DelInventory(db, uu).inventory[tt] = db.inventory[tt]
                         /\ tt \in DelInventory(db, uu).keys <=> tt \in db.keys
BY DEF Database, AfterReserve, Admitted, Incr, SafeIncr, SetInventory, DelInventory

LEMMA EntryEffects ==
    ASSUME NEW db \in Database, NEW t \in Tickets
    PROVE  /\ HSetActive(db, t).keys = db.keys
           /\ HSetActive(db, t).inventory = db.inventory
           /\ HDelActive(db, t).keys = db.keys
           /\ HDelActive(db, t).inventory = db.inventory
BY DEF Database, HSetActive, HDelActive

LEMMA RedisAfter ==
    ASSUME RedisOK, NEW d \in {ApiDb, WorkerDb}, NEW db, RedisStep(d, db)
    PROVE  /\ redis'[d] = db
           /\ \A e \in {ApiDb, WorkerDb} \ {d} : redis'[e] = redis[e]
BY DEF RedisOK, RedisStep

\* What the Redis operations do to the set of canceled tickets.
LEMMA MarkEffects ==
    ASSUME NEW db \in Database, NEW x, NEW n
    PROVE  \A new \in {AfterReserve(db, x), Incr(db, x), SafeIncr(db, x),
                       SetInventory(db, x, n), DelInventory(db, x),
                       HSetActive(db, x), HDelActive(db, x)} :
              new.canceled = db.canceled
BY DEF Database, AfterReserve, Admitted, Incr, SafeIncr, SetInventory, DelInventory,
       HSetActive, HDelActive

\* A refund adds a unit for a ticket that was not in the set, and none for one that was.
LEMMA RefundEffects ==
    ASSUME NEW db \in Database, NEW t \in Tickets, NEW uu \in Types
    PROVE  /\ Refund(db, uu, t).keys = db.keys
           /\ Refund(db, uu, t).canceled = db.canceled \cup {t}
           /\ \A tt \in Types :
                 Refund(db, uu, t).inventory[tt] =
                    IF tt = uu /\ uu \in db.keys /\ t \notin db.canceled
                    THEN db.inventory[tt] + 1 ELSE db.inventory[tt]
<1>1. CASE t \in db.canceled
  BY <1>1 DEF Refund, Database
<1>2. CASE t \notin db.canceled
  BY <1>2 DEF Refund, Database, SafeIncr, Incr, HDelActive
<1> QED BY <1>1, <1>2
-----------------------------------------------------------------------------
(* The labels a call of each kind goes through *)

Stays(p, labels) == {task[p].pc, task'[p].pc} \subseteq labels \cup {"idle"}

LEMMA BuyStays ==
    ASSUME TaskOK, NEW p \in Procs, Buy(p) PROVE Stays(p, BuyerLabels)
BY DEF TaskOK, Locals, Stays, Buy, Gate, WarmRead, WarmSet, GateAgain, InsertTicket,
       InsertRefused, HSet, CommitTicket, RefreshTicket, Enqueue, Compensate,
       At, Goto, Work, Finish, Idle, BuyerLabels

LEMMA CancelStays ==
    ASSUME TaskOK, NEW p \in Procs, Cancel(p) PROVE Stays(p, CancelerLabels)
BY DEF TaskOK, Locals, Stays, Cancel, CancelSelect, CancelUpdate, CancelNothing,
       CancelDelete, GiveBack, CancelHDel, At, Goto, Work, Finish, Idle, CancelerLabels

LEMMA PayStays ==
    ASSUME TaskOK, NEW p \in Procs, Pay(p) PROVE Stays(p, PayerLabels)
BY DEF TaskOK, Locals, Stays, Pay, PaySelect, PayCommit, PayRefresh, PayHDel,
       At, Goto, Work, Finish, Idle, PayerLabels

LEMMA ReleaseStays ==
    ASSUME TaskOK, NEW p \in Procs, ReleaseUnpaid(p) PROVE Stays(p, ReleaserLabels)
BY DEF TaskOK, Locals, Stays, ReleaseUnpaid, ReleaseSelect, ReleaseSkip, ReleaseUpdate,
       ReleaseFails, ReleaseRefund, ReleaseCommit, Due, At, Goto, Work, Finish, Idle,
       ReleaserLabels

LEMMA HungStays ==
    ASSUME TaskOK, NEW p \in Procs, ReconcileHung(p) PROVE Stays(p, SweepLabels)
<1>1. task[p].pc \in SweepLabels \cup {"idle"}
  BY DEF ReconcileHung, SweepStart, SweepRow, SweepRowsDone, SweepType, SweepFails,
         SweepTypesDone, SweepRefund, SweepCommit, At, SweepLabels
<1>2. CASE Finish(p)
  BY <1>1, <1>2 DEF TaskOK, Stays, Finish, Idle
<1>3. CASE SweepStart(p) \/ SweepTypesDone(p)
  BY <1>3 DEF TaskOK, Locals, Stays, SweepStart, SweepTypesDone, At, SweepLabels
<1>4. CASE SweepRow(p)
  BY <1>4 DEF TaskOK, Locals, Stays, SweepRow, At, SweepLabels
<1>5. CASE SweepRowsDone(p)
  BY <1>2, <1>5 DEF TaskOK, Locals, Stays, SweepRowsDone, Goto, At, SweepLabels
<1>6. CASE SweepType(p)
  BY <1>6 DEF Stays, SweepType, At, SweepLabels
<1>7. CASE SweepRefund(p)
  BY <1>7 DEF TaskOK, Locals, Stays, SweepRefund, At, SweepLabels
<1> QED
  BY <1>2, <1>3, <1>4, <1>5, <1>6, <1>7 DEF ReconcileHung, SweepFails, SweepCommit

LEMMA OrphansStay ==
    ASSUME TaskOK, NEW p \in Procs, ReconcileOrphans(p) PROVE Stays(p, CollectorLabels)
BY DEF TaskOK, Locals, Stays, ReconcileOrphans, OrphanScan, OrphanQuery, OrphanRefund,
       At, Finish, Idle, CollectorLabels

LEMMA AdminStays ==
    ASSUME TaskOK, NEW p \in Procs, Administer(p) PROVE Stays(p, AdminLabels)
BY DEF TaskOK, Locals, Stays, Administer, CreateType, UpdateType, RefreshType,
       PublishInventory, DeleteType, RemoveInventory, At, Goto, Finish, Idle, AdminLabels
-----------------------------------------------------------------------------
(* Canceled tickets are recorded *)

Refunds(t) == RedisStep(WorkerDb, Refund(redis[WorkerDb], TypeOf[t], t))

LEMMA StepKinds ==
    ASSUME NEW p \in Procs, StepOf(p)
    PROVE  LeavesStatusLive(p) \/ CancelsTickets(p)
BY DEF StepOf, Step, LeavesStatusLive

\* A step refunds one ticket or leaves the sets of canceled tickets alone.
LEMMA RefundOrNone ==
    ASSUME IInv, NEW p \in Procs, LeavesStatusLive(p) \/ CancelsTickets(p)
    PROVE  \/ \A d \in {ApiDb, WorkerDb} : redis'[d].canceled = redis[d].canceled
           \/ \E t \in Tickets : Refunds(t)
<1>1. RedisOK /\ redis[ApiDb] \in Database
  BY ProcFacts
<1>2. ASSUME NEW db, RedisStep(ApiDb, db), db.canceled = redis[ApiDb].canceled
      PROVE  \A d \in {ApiDb, WorkerDb} : redis'[d].canceled = redis[d].canceled
  BY <1>1, <1>2, RedisAfter
<1>3. ASSUME NEW x, NEW n,
             \E db \in {AfterReserve(redis[ApiDb], x), Incr(redis[ApiDb], x),
                        SafeIncr(redis[ApiDb], x), SetInventory(redis[ApiDb], x, n),
                        DelInventory(redis[ApiDb], x), HSetActive(redis[ApiDb], x),
                        HDelActive(redis[ApiDb], x)} : RedisStep(ApiDb, db)
      PROVE  \A d \in {ApiDb, WorkerDb} : redis'[d].canceled = redis[d].canceled
  BY <1>1, <1>2, <1>3, MarkEffects
<1>4. CASE Gate(p) \/ GateAgain(p)
  BY <1>3, <1>4 DEF Gate, GateAgain
<1>5. CASE WarmSet(p) \/ PublishInventory(p)
  BY <1>3, <1>5 DEF WarmSet, PublishInventory
<1>6. CASE HSet(p) \/ Compensate(p)
  BY <1>3, <1>6 DEF HSet, Compensate
<1>7. CASE GiveBack(p) \/ CancelHDel(p) \/ PayHDel(p) \/ RemoveInventory(p)
  BY <1>3, <1>7 DEF GiveBack, CancelHDel, PayHDel, RemoveInventory
<1>8. CASE ReleaseRefund(p)
  <2>1. task[p].ticket \in Tickets
    BY <1>8, ProcFacts DEF ReleaseRefund, Holds, TicketLabels, At
  <2> QED BY <1>8, <2>1 DEF ReleaseRefund, Refunds
<1>9. CASE SweepRefund(p) \/ OrphanRefund(p)
  <2>1. task[p].todo \subseteq Tickets
    BY ProcFacts DEF Locals
  <2> QED BY <1>9, <2>1 DEF SweepRefund, OrphanRefund, Refunds
<1>10. CASE redis' = redis
  BY <1>10
<1>11. CASE Buy(p) \/ Cancel(p) \/ Pay(p)
  BY <1>4, <1>5, <1>6, <1>7, <1>10, <1>11
  DEF Buy, WarmRead, InsertTicket, InsertRefused, CommitTicket, RefreshTicket, Enqueue,
      Cancel, CancelSelect, CancelUpdate, CancelNothing, CancelDelete,
      Pay, PaySelect, PayCommit, PayRefresh
<1>12. CASE \/ ReleaseUnpaid(p) \/ ReconcileHung(p) \/ CancelsTickets(p)
            \/ ReconcileOrphans(p)
  BY <1>8, <1>9, <1>10, <1>12
  DEF ReleaseUnpaid, ReleaseSelect, ReleaseSkip, ReleaseUpdate, ReleaseFails,
      ReleaseCommit, ReconcileHung, SweepStart, SweepRow, SweepRowsDone, SweepType,
      SweepFails, SweepTypesDone, SweepCommit, ReconcileOrphans, OrphanScan,
      OrphanQuery, CancelsTickets
<1>13. CASE Administer(p) \/ DeadlockAbort(p) \/ DbError(p) \/ Crash(p) \/ TaskError(p)
  BY <1>5, <1>7, <1>10, <1>13
  DEF Administer, CreateType, UpdateType, RefreshType, DeleteType,
      DeadlockAbort, DbError, Crash, TaskError
<1> QED BY <1>11, <1>12, <1>13 DEF LeavesStatusLive

LEMMA AfterRefund ==
    ASSUME IInv, NEW p \in Procs, NEW t \in Tickets, Refunds(t)
    PROVE  /\ redis'[WorkerDb] = Refund(redis[WorkerDb], TypeOf[t], t)
           /\ redis'[WorkerDb].canceled = redis[WorkerDb].canceled \cup {t}
           /\ redis'[WorkerDb].keys = redis[WorkerDb].keys
           /\ ApiDb # WorkerDb => redis'[ApiDb] = redis[ApiDb]
<1>1. /\ redis'[WorkerDb] = Refund(redis[WorkerDb], TypeOf[t], t)
      /\ ApiDb # WorkerDb => redis'[ApiDb] = redis[ApiDb]
  BY ProcFacts, RedisAfter DEF Refunds
<1> QED BY <1>1, ProcFacts, RefundEffects

\* A record is never taken back.
LEMMA RecordsStay ==
    ASSUME IInv, NEW p \in Procs, LeavesStatusLive(p) \/ CancelsTickets(p)
    PROVE  \A d \in {ApiDb, WorkerDb} : redis[d].canceled \subseteq redis'[d].canceled
<1>1. ASSUME NEW t \in Tickets, Refunds(t)
      PROVE  \A d \in {ApiDb, WorkerDb} : redis[d].canceled \subseteq redis'[d].canceled
  BY <1>1, AfterRefund
<1> QED BY <1>1, RefundOrNone

\* Only two commits make a ticket CANCELED.
LEMMA NoneCanceled ==
    ASSUME IInv, NEW p \in Procs, LeavesStatusLive(p)
    PROVE  \A t \in Tickets : status'[t] = "CANCELED" => status[t] = "CANCELED"
<1>1. status \in [Tickets -> Statuses]
  BY ProcFacts DEF TypeOK
<1>2. ASSUME NEW x, NEW s, s # "CANCELED", status' = [status EXCEPT ![x] = s]
      PROVE  \A t \in Tickets : status'[t] = "CANCELED" => status[t] = "CANCELED"
  BY <1>1, <1>2
<1>3. CASE Rollback(p)
  BY <1>1, <1>3 DEF Rollback
<1>4. CASE status' = status
  BY <1>4
<1>5. CASE Buy(p) \/ Cancel(p) \/ Pay(p)
  BY <1>2, <1>4, <1>5
  DEF Buy, Gate, WarmRead, WarmSet, GateAgain, InsertTicket, InsertRefused, HSet,
      CommitTicket, RefreshTicket, Enqueue, Compensate, Cancel, CancelSelect,
      CancelUpdate, CancelNothing, CancelDelete, GiveBack, CancelHDel,
      Pay, PaySelect, PayCommit, PayRefresh, PayHDel, tickets
<1>6. CASE /\ ReleaseUnpaid(p) \/ ReconcileHung(p) \/ ReconcileOrphans(p)
           /\ ~CancelsTickets(p)
  BY <1>4, <1>6
  DEF ReleaseUnpaid, ReleaseSelect, ReleaseSkip, ReleaseUpdate, ReleaseFails,
      ReleaseRefund, ReconcileHung, SweepStart, SweepRow, SweepRowsDone, SweepType,
      SweepFails, SweepTypesDone, SweepRefund, ReconcileOrphans, OrphanScan,
      OrphanQuery, OrphanRefund, CancelsTickets, tickets
<1>7. CASE ReconcileOrphans(p)
  BY <1>4, <1>7 DEF ReconcileOrphans, OrphanScan, OrphanQuery, OrphanRefund, tickets
<1>8. CASE Administer(p)
  BY <1>4, <1>8 DEF Administer, CreateType, UpdateType, RefreshType, PublishInventory,
                    DeleteType, RemoveInventory, tickets
<1>9. CASE DeadlockAbort(p) \/ DbError(p) \/ Crash(p) \/ TaskError(p)
  BY <1>3, <1>9 DEF DeadlockAbort, DbError, Crash, TaskError
<1> QED BY <1>5, <1>6, <1>7, <1>8, <1>9 DEF LeavesStatusLive

\* A call that ends up at no label of a task that cancels.
LEMMA ElsewhereRecorded ==
    ASSUME NEW p \in Procs,
           task'[p].pc \in Labels \ {"release_commit", "sweep_refund", "sweep_commit"}
    PROVE  Recorded(p)'
BY DEF Recorded, At

\* A release records its ticket before it commits ...
LEMMA ReleaseRecords ==
    ASSUME IInv, NEW p \in Procs, ReleaseUnpaid(p), Recorded(p)
    PROVE  Recorded(p)'
<1>1. CASE ReleaseRefund(p)
  <2>1. PICK t \in Tickets : t = task[p].ticket
    BY <1>1, ProcFacts DEF ReleaseRefund, Holds, TicketLabels, At
  <2>2. t \in redis'[WorkerDb].canceled
    BY <1>1, <2>1, AfterRefund DEF ReleaseRefund, Refunds
  <2>3. task'[p].pc = "release_commit" /\ task'[p].ticket = t
    BY <1>1, <2>1, ProcFacts, GotoMoves DEF ReleaseRefund, Labels
  <2> QED BY <2>2, <2>3 DEF Recorded, At
<1>2. CASE ReleaseSkip(p)
  BY <1>2 DEF ReleaseSkip, Due, Recorded, At
<1>3. CASE ReleaseSelect(p) \/ ReleaseUpdate(p) \/ ReleaseFails(p) \/ ReleaseCommit(p)
  <2>1. task'[p].pc \in {"release_update", "release_refund", "idle"}
    BY <1>3, ProcFacts
    DEF ReleaseSelect, ReleaseUpdate, ReleaseFails, ReleaseCommit, Goto, Work, Finish,
        Idle, TaskOK, Locals
  <2> QED BY <2>1, ElsewhereRecorded DEF Labels
<1> QED BY <1>1, <1>2, <1>3 DEF ReleaseUnpaid

\* ... and a sweep the whole batch, one after another.
LEMMA SweepRecords ==
    ASSUME IInv, NEW p \in Procs, ReconcileHung(p), Recorded(p)
    PROVE  Recorded(p)'
<1>1. TaskOK /\ task[p] \in Locals
  BY ProcFacts
<1>2. CASE SweepTypesDone(p)
  <2>1. /\ task'[p].pc = "sweep_refund"
        /\ task'[p].todo = task[p].batch /\ task'[p].batch = task[p].batch
    BY <1>1, <1>2 DEF SweepTypesDone, TaskOK, Locals
  <2> QED BY <2>1 DEF Recorded, At
<1>3. CASE SweepRefund(p)
  <2>1. PICK t \in task[p].todo :
           /\ Refunds(t)
           /\ task' = [task EXCEPT ![p].todo = @ \ {t},
                                   ![p].pc = IF task[p].todo = {t}
                                             THEN "sweep_commit" ELSE "sweep_refund"]
    BY <1>3 DEF SweepRefund, Refunds
  <2>2. redis'[WorkerDb].canceled = redis[WorkerDb].canceled \cup {t}
    BY <1>1, <2>1, AfterRefund DEF Locals
  <2>3. /\ task'[p].todo = task[p].todo \ {t} /\ task'[p].batch = task[p].batch
        /\ task'[p].pc = IF task[p].todo = {t} THEN "sweep_commit" ELSE "sweep_refund"
    BY <1>1, <2>1 DEF TaskOK, Locals
  <2>4. task[p].batch \ task[p].todo \subseteq redis[WorkerDb].canceled
    BY <1>3 DEF SweepRefund, Recorded
  <2>5. task'[p].batch \ task'[p].todo \subseteq redis'[WorkerDb].canceled
    BY <2>2, <2>3, <2>4
  <2> QED BY <2>3, <2>5 DEF Recorded, At
<1>4. CASE SweepStart(p) \/ SweepRow(p)
  <2>1. task'[p].pc = "sweep_rows"
    BY <1>1, <1>4 DEF SweepStart, SweepRow, At, TaskOK, Locals
  <2> QED BY <2>1, ElsewhereRecorded DEF Labels
<1>5. CASE SweepRowsDone(p) \/ SweepType(p) \/ SweepFails(p) \/ SweepCommit(p)
  <2>1. task'[p].pc \in {"sweep_types", "idle"}
    BY <1>1, <1>5 DEF SweepRowsDone, SweepType, SweepFails, SweepCommit, At, Goto, Finish,
                      Idle, TaskOK, Locals
  <2> QED BY <2>1, ElsewhereRecorded DEF Labels
<1> QED BY <1>2, <1>3, <1>4, <1>5 DEF ReconcileHung

\* A step is one process's.
LEMMA OnlyOneMoves ==
    ASSUME IInv, RolesKept, NEW p \in Procs, StepOf(p)
    PROVE  \A q \in Procs \ {p} : task'[q] = task[q]
<1>1. CASE Rollback(p) /\ Finish(p)
  BY <1>1, ProcFacts, FinishMoves DEF Moves
<1>2. CASE DbError(p)
  BY <1>2 DEF DbError, Work, IInv, TypeOK
<1>3. CASE ReleaseSkip(p)
  BY <1>3 DEF ReleaseSkip
<1> QED
  BY <1>1, <1>2, <1>3, BuyAdvances, CancelAdvances, PayAdvances, ReleaseAdvances,
     SweepAdvances, LocklessAdvances
  DEF Advances, StepOf, Step, DeadlockAbort, Crash, TaskError

\* Nobody else writes CANCELED, and what is recorded stays so.
LEMMA RecordStep ==
    ASSUME IInv, RolesKept, RecordInv, NEW p \in Procs, StepOf(p)
    PROVE  RecordInv'
<1>1. LeavesStatusLive(p) \/ CancelsTickets(p)
  BY StepKinds
<1>2. redis[WorkerDb].canceled \subseteq redis'[WorkerDb].canceled
  BY <1>1, RecordsStay
<1>3. \A q \in Procs \ {p} : task'[q] = task[q]
  BY OnlyOneMoves DEF StepOf
<1>4. ASSUME NEW q \in Procs \ {p} PROVE Recorded(q)'
  BY <1>2, <1>3 DEF RecordInv, Recorded, At
<1>5. Recorded(p)'
  <2>1. TaskOK /\ Recorded(p)
    BY ProcFacts DEF RecordInv
  <2>2. CASE Buy(p)
    BY <2>1, <2>2, BuyStays, ElsewhereRecorded DEF Stays, BuyerLabels, Labels
  <2>3. CASE Cancel(p)
    BY <2>1, <2>3, CancelStays, ElsewhereRecorded DEF Stays, CancelerLabels, Labels
  <2>4. CASE Pay(p)
    BY <2>1, <2>4, PayStays, ElsewhereRecorded DEF Stays, PayerLabels, Labels
  <2>5. CASE ReconcileOrphans(p)
    BY <2>1, <2>5, OrphansStay, ElsewhereRecorded DEF Stays, CollectorLabels, Labels
  <2>6. CASE Administer(p)
    BY <2>1, <2>6, AdminStays, ElsewhereRecorded DEF Stays, AdminLabels, Labels
  <2>7. CASE DeadlockAbort(p) \/ Crash(p) \/ TaskError(p)
    <3>1. Finish(p)
      BY <2>7 DEF DeadlockAbort, Crash, TaskError
    <3> QED BY <2>1, <3>1, FinishMoves, ElsewhereRecorded DEF Labels
  <2>8. CASE DbError(p)
    <3>1. task'[p].pc = "compensate"
      BY <2>1, <2>8 DEF DbError, Work, TaskOK, Locals
    <3> QED BY <3>1, ElsewhereRecorded DEF Labels
  <2> QED
    BY <2>1, <2>2, <2>3, <2>4, <2>5, <2>6, <2>7, <2>8, ReleaseRecords, SweepRecords
    DEF StepOf, Step
<1>6. CancelsAreRecorded'
  <2>1. CASE LeavesStatusLive(p)
    BY <1>2, <2>1, NoneCanceled DEF RecordInv, CancelsAreRecorded
  <2>2. CASE ReleaseCommit(p)
    <3>1. task[p].ticket \in redis[WorkerDb].canceled
      BY <2>2 DEF RecordInv, Recorded, ReleaseCommit
    <3>2. \A t \in Tickets : t # task[p].ticket => status'[t] = status[t]
      BY <2>2, ProcFacts DEF ReleaseCommit, TypeOK
    <3> QED BY <1>2, <3>1, <3>2 DEF RecordInv, CancelsAreRecorded
  <2>3. CASE SweepCommit(p)
    <3>1. task[p].batch \subseteq redis[WorkerDb].canceled
      BY <2>3 DEF RecordInv, Recorded, SweepCommit
    <3>2. \A t \in Tickets : t \notin task[p].batch => status'[t] = status[t]
      BY <2>3 DEF SweepCommit
    <3> QED BY <1>2, <3>1, <3>2 DEF RecordInv, CancelsAreRecorded
  <2> QED BY <1>1, <2>1, <2>2, <2>3 DEF CancelsTickets
<1> QED BY <1>4, <1>5, <1>6 DEF RecordInv

LEMMA RecordFrame ==
    ASSUME RecordInv, UNCHANGED <<status, task, redis>>
    PROVE  RecordInv'
BY DEF RecordInv, CancelsAreRecorded, Recorded, At

LEMMA RecordNext ==
    ASSUME "redis_restart" \notin Faults, IInv, RolesKept, RecordInv, [Next]_vars
    PROVE  RecordInv'
<1>1. CASE \E p \in Procs : StepOf(p)
  BY <1>1, RecordStep
<1>2. CASE \E t \in Tickets : Expire(t)
  BY <1>2, RecordFrame DEF Expire, tickets
<1>3. CASE UNCHANGED vars
  BY <1>3, RecordFrame DEF vars
<1>4. ~RedisRestart
  BY DEF RedisRestart
<1> QED BY <1>1, <1>2, <1>3, <1>4 DEF Next, Fault, StepOf

LEMMA RecordInit == Init => RecordInv
BY DEF Init, RecordInv, CancelsAreRecorded, Recorded, At, Idle

LEMMA Recording == "redis_restart" \notin Faults => (Spec => []RecordInv)
<1>1. CASE "redis_restart" \notin Faults
  <2>1. IInv /\ RolesKept /\ RecordInv /\ [Next]_vars => RecordInv'
    BY <1>1, RecordNext
  <2> QED BY <2>1, RecordInit, Invariance, RolesInvariant, PTL DEF Spec
<1> QED BY <1>1

(***************************************************************************)
(* worker.py refunds before it commits the cancelation, and the refund     *)
(* records the ticket: whatever crashes, fails or is rolled back in        *)
(* between, no ticket is CANCELED in PostgreSQL that the worker's set of   *)
(* canceled tickets lacks, so that neither a retry nor the collection of   *)
(* orphans gives its slot back once more.  Redis must keep its data.       *)
(***************************************************************************)
THEOREM CanceledTicketsAreRecorded ==
    ASSUME "redis_restart" \notin Faults
    PROVE  Spec => []CancelsAreRecorded
<1>1. RecordInv => CancelsAreRecorded
  BY DEF RecordInv
<1> QED BY <1>1, Recording, PTL
-----------------------------------------------------------------------------
(* The balance of a type without the requests that a step leaves alone *)

\* Whether a request with the locals r has taken a unit of tt, or owes it one.
Takes(p, tt, r) ==
    IF /\ p \in Buyers /\ Target[p] = tt
       /\ r.pc \in {"insert", "hset", "commit"} \/ (r.pc = "compensate" /\ r.ticket = None)
    THEN 1 ELSE 0
Owes(p, tt, r) ==
    IF p \in Cancelers /\ r.pc = "giveback" /\ TypeOf[r.ticket] = tt THEN 1 ELSE 0

Claim(p, tt) == redis[ApiDb].inventory[tt] + tickets_sold[tt] - inflated[tt]
                    + Takes(p, tt, task[p]) + Owes(p, tt, task[p])
                    - Cardinality(Advanced(tt))

\* A step of p keeps the row and the key of tt.
KeepsWarm(p, tt) ==
    /\ \A q \in Procs \ {p} : task'[q] = task[q]
    /\ tickets_quantity'[tt] = tickets_quantity[tt]
    /\ tt \in redis'[ApiDb].keys <=> tt \in redis[ApiDb].keys
    /\ p \in Buyers /\ Target[p] = tt => NeverWarms(p)'

LEMMA WarmStays ==
    ASSUME NEW tt \in Untouched, Warm(tt), NEW p \in Procs, KeepsWarm(p, tt)
    PROVE  Warm(tt)'
<1>1. tt \in Types
  BY DEF Untouched
<1>2. IsFiniteSet(Held(tt)') /\ IsFiniteSet(Owed(tt)')
  BY <1>1, OnlyPCounts, DifferInOne DEF Warm, KeepsWarm
<1>3. ASSUME NEW q \in Buyers, Target[q] = tt PROVE NeverWarms(q)'
  <2>1. CASE q = p
    BY <1>3, <2>1 DEF KeepsWarm
  <2>2. CASE q # p
    <3>1. task'[q] = task[q]
      BY <2>2 DEF KeepsWarm, Procs
    <3> QED BY <1>3, <3>1 DEF Warm, NeverWarms, At
  <2> QED BY <2>1, <2>2
<1> QED BY <1>2, <1>3 DEF Warm, KeepsWarm

LEMMA AdvancedCounts ==
    ASSUME NEW tt
    PROVE  /\ IsFiniteSet(Advanced(tt)) /\ Cardinality(Advanced(tt)) \in Nat
           /\ IsFiniteSet(Advanced(tt)') /\ Cardinality(Advanced(tt)') \in Nat
<1>1. IsFiniteSet(Advanced(tt)) /\ IsFiniteSet(Advanced(tt)')
  BY BookingAssumption, FS_Subset DEF Advanced, OfType
<1> QED BY <1>1, FS_CardinalityType

LEMMA CoverStays ==
    ASSUME TypeOK, TypeOK', NEW tt \in Untouched, Warm(tt), NEW p \in Procs,
           KeepsWarm(p, tt), Covered(tt), Claim(p, tt)' <= Claim(p, tt)
    PROVE  Covered(tt)'
<1>1. tt \in Types
  BY DEF Untouched
<1>2. /\ Cardinality(Held(tt)) \in Nat /\ Cardinality(Held(tt)') \in Nat
      /\ Cardinality(Held(tt)') - Weight(Held(tt)', p)
            = Cardinality(Held(tt)) - Weight(Held(tt), p)
  BY <1>1, OnlyPCounts, DifferInOne DEF Warm, KeepsWarm
<1>3. /\ Cardinality(Owed(tt)) \in Nat /\ Cardinality(Owed(tt)') \in Nat
      /\ Cardinality(Owed(tt)') - Weight(Owed(tt)', p)
            = Cardinality(Owed(tt)) - Weight(Owed(tt), p)
  BY <1>1, OnlyPCounts, DifferInOne DEF Warm, KeepsWarm
<1>4. /\ redis[ApiDb].inventory[tt] \in Nat /\ redis'[ApiDb].inventory[tt] \in Nat
      /\ tickets_sold[tt] \in Nat /\ tickets_sold'[tt] \in Nat
      /\ inflated[tt] \in Nat /\ inflated'[tt] \in Nat
      /\ tickets_quantity[tt] \in Nat /\ tickets_quantity'[tt] = tickets_quantity[tt]
  BY <1>1, BookingAssumption DEF TypeOK, Database, KeepsWarm
<1>5. /\ Weight(Held(tt), p) = Takes(p, tt, task[p])
      /\ Weight(Held(tt)', p) = Takes(p, tt, task'[p])
      /\ Weight(Owed(tt), p) = Owes(p, tt, task[p])
      /\ Weight(Owed(tt)', p) = Owes(p, tt, task'[p])
  BY DEF Weight, Held, Owed, Takes, Owes, At
<1>6. /\ Takes(p, tt, task[p]) \in Nat /\ Takes(p, tt, task'[p]) \in Nat
      /\ Owes(p, tt, task[p]) \in Nat /\ Owes(p, tt, task'[p]) \in Nat
  BY DEF Takes, Owes
<1>7. redis'[ApiDb].inventory[tt] + tickets_sold'[tt] - inflated'[tt]
          + Takes(p, tt, task'[p]) + Owes(p, tt, task'[p]) - Cardinality(Advanced(tt)')
        <= redis[ApiDb].inventory[tt] + tickets_sold[tt] - inflated[tt]
             + Takes(p, tt, task[p]) + Owes(p, tt, task[p]) - Cardinality(Advanced(tt))
  BY DEF Claim
<1> QED BY <1>2, <1>3, <1>4, <1>5, <1>6, <1>7, AdvancedCounts DEF Covered
-----------------------------------------------------------------------------
(* The gate *)

\* A step of p is good for the balance of tt.
Balances(p, tt) ==
    KeepsWarm(p, tt) /\ (tt \in redis[ApiDb].keys => Claim(p, tt)' <= Claim(p, tt))

LEMMA GateInvStep ==
    ASSUME IInv, IInv', GateInv, NEW p \in Procs,
           \A tt \in Untouched : Warm(tt) => Balances(p, tt)
    PROVE  GateInv'
<1> SUFFICES ASSUME NEW tt \in Untouched
             PROVE  Warm(tt)' /\ (tt \in redis'[ApiDb].keys => Covered(tt)')
  BY DEF GateInv, Untouched
<1>1. Warm(tt) /\ (tt \in redis[ApiDb].keys => Covered(tt)) /\ Balances(p, tt)
  BY DEF GateInv
<1>2. tt \in redis'[ApiDb].keys <=> tt \in redis[ApiDb].keys
  BY <1>1 DEF Balances, KeepsWarm
<1> QED BY <1>1, <1>2, WarmStays, CoverStays DEF Balances, IInv

\* As long as no ticket is canceled, those refunded can only become more.
LEMMA AdvancedGrows ==
    ASSUME IInv, NEW p \in Procs, LeavesStatusLive(p), NEW tt \in Types
    PROVE  /\ Cardinality(Advanced(tt)) \in Nat /\ Cardinality(Advanced(tt)') \in Nat
           /\ Cardinality(Advanced(tt)) <= Cardinality(Advanced(tt)')
<1>1. Advanced(tt) \subseteq Advanced(tt)'
  BY RecordsStay, NoneCanceled DEF Advanced, OfType
<1> QED BY <1>1, AdvancedCounts, FS_Subset

\* A step that touches no counter and takes no unit.
LEMMA CounterUntouched ==
    ASSUME IInv, IInv', NEW tt \in Types, NEW p \in Procs, KeepsWarm(p, tt),
           LeavesStatusLive(p),
           redis'[ApiDb].inventory[tt] = redis[ApiDb].inventory[tt],
           inflated'[tt] = inflated[tt],
           tickets_sold'[tt] <= tickets_sold[tt],
           Takes(p, tt, task'[p]) <= Takes(p, tt, task[p]),
           Owes(p, tt, task'[p]) <= Owes(p, tt, task[p])
    PROVE  Balances(p, tt)
<1>1. /\ redis[ApiDb].inventory[tt] \in Nat /\ inflated[tt] \in Nat
      /\ tickets_sold[tt] \in Nat /\ tickets_sold'[tt] \in Nat
  BY DEF IInv, TypeOK, Database
<1>2. /\ Takes(p, tt, task[p]) \in Nat /\ Takes(p, tt, task'[p]) \in Nat
      /\ Owes(p, tt, task[p]) \in Nat /\ Owes(p, tt, task'[p]) \in Nat
  BY DEF Takes, Owes
<1> QED BY <1>1, <1>2, AdvancedGrows DEF Balances, Claim

\* What create does to the counter of tt and to what is sold of it.
LEMMA BuyEffects ==
    ASSUME IInv, NEW p \in Buyers, Buy(p), NEW tt \in Types
    PROVE  /\ tickets_quantity'[tt] = tickets_quantity[tt]
           /\ Target[p] # tt =>
                 /\ redis'[ApiDb].inventory[tt] = redis[ApiDb].inventory[tt]
                 /\ tt \in redis'[ApiDb].keys <=> tt \in redis[ApiDb].keys
                 /\ tickets_sold'[tt] = tickets_sold[tt]
                 /\ inflated'[tt] = inflated[tt]
           /\ ~(Gate(p) \/ WarmSet(p) \/ GateAgain(p) \/ Compensate(p)) =>
                 /\ redis'[ApiDb].inventory = redis[ApiDb].inventory
                 /\ redis'[ApiDb].keys = redis[ApiDb].keys
                 /\ inflated' = inflated
<1>1. tickets_quantity'[tt] = tickets_quantity[tt]
  BY BuyerFacts, CatalogUntouched DEF catalog
<1>2. CASE Gate(p) \/ GateAgain(p)
  <2>1. redis'[ApiDb] = AfterReserve(redis[ApiDb], Target[p])
    BY <1>2, BuyerFacts, RedisAfter DEF Gate, GateAgain
  <2>2. UNCHANGED <<tickets_sold, inflated>>
    BY <1>2 DEF Gate, GateAgain, tickets
  <2> QED BY <1>1, <1>2, <2>1, <2>2, BuyerFacts, CounterEffects
<1>3. CASE WarmSet(p)
  <2>1. redis'[ApiDb] = SetInventory(redis[ApiDb], Target[p], task[p].avail)
    BY <1>3, BuyerFacts, RedisAfter DEF WarmSet
  <2>2. UNCHANGED <<tickets_sold, inflated>>
    BY <1>3 DEF WarmSet, tickets
  <2> QED BY <1>1, <1>3, <2>1, <2>2, BuyerFacts, CounterEffects
<1>4. CASE Compensate(p)
  <2>1. redis'[ApiDb] = Incr(redis[ApiDb], Target[p])
    BY <1>4, BuyerFacts, RedisAfter DEF Compensate
  <2>2. tickets_sold' = tickets_sold /\ (Target[p] # tt => inflated'[tt] = inflated[tt])
    BY <1>4, BuyerFacts DEF Compensate, tickets, TypeOK
  <2> QED BY <1>1, <1>4, <2>1, <2>2, BuyerFacts, CounterEffects
<1>5. CASE HSet(p)
  <2>1. task[p].ticket \in Tickets
    BY <1>5, BuyerFacts DEF HSet, Holds, TicketLabels, At
  <2>2. redis'[ApiDb] = HSetActive(redis[ApiDb], task[p].ticket)
    BY <1>5, BuyerFacts, RedisAfter DEF HSet
  <2>3. UNCHANGED <<tickets_sold, inflated>>
    BY <1>5 DEF HSet, tickets
  <2> QED BY <1>1, <1>5, <2>1, <2>2, <2>3, BuyerFacts, EntryEffects
<1>6. CASE CommitTicket(p)
  BY <1>1, <1>6, BuyerFacts DEF CommitTicket, TypeOK
<1>7. CASE \/ WarmRead(p) \/ InsertTicket(p) \/ InsertRefused(p)
           \/ RefreshTicket(p) \/ Enqueue(p)
  <2>1. UNCHANGED <<redis, tickets_sold, inflated>>
    BY <1>7 DEF WarmRead, InsertTicket, InsertRefused, RefreshTicket, Enqueue, tickets
  <2> QED BY <1>1, <2>1
<1> QED BY <1>2, <1>3, <1>4, <1>5, <1>6, <1>7 DEF Buy

\* Requests for other types, whatever they do.
LEMMA BuyElsewhere ==
    ASSUME IInv, IInv', RolesKept, NEW p \in Buyers, Buy(p),
           NEW tt \in Types, Target[p] # tt
    PROVE  Balances(p, tt)
<1>1. KeepsWarm(p, tt)
  BY BuyAdvances, BuyEffects DEF Advances, KeepsWarm
<1>2. Takes(p, tt, task[p]) = 0 /\ Takes(p, tt, task'[p]) = 0
  BY DEF Takes
<1>3. Owes(p, tt, task[p]) = 0 /\ Owes(p, tt, task'[p]) = 0
  BY BuyStays, BuyerFacts DEF Stays, BuyerLabels, Owes
<1>4. tickets_sold'[tt] <= tickets_sold[tt]
  BY BuyEffects, BuyerFacts DEF TypeOK
<1> QED
  BY <1>1, <1>2, <1>3, <1>4, BuyerFacts, BuyEffects, CounterUntouched
  DEF LeavesStatusLive

\* Requests for tt find its key warm and leave it so ...
LEMMA BuyKeepsWarm ==
    ASSUME IInv, RolesKept, NEW p \in Buyers, Buy(p),
           Target[p] \in Untouched, Warm(Target[p])
    PROVE  /\ ~WarmSet(p) /\ ~GateAgain(p)
           /\ KeepsWarm(p, Target[p])
<1> DEFINE tt == Target[p]
<1>1. p \in Procs /\ tt \in Types /\ NeverWarms(p) /\ task'[p].pc \in Labels
  <2>1. task'[p].pc \in BuyerLabels \cup {"idle"}
    BY BuyStays, BuyerFacts DEF Stays
  <2> QED BY <2>1, BuyerFacts DEF Warm, BuyerLabels, Labels
<1>2. ~WarmSet(p) /\ ~GateAgain(p)
  BY <1>1 DEF NeverWarms, WarmSet, GateAgain, At
<1>3. tt \in redis[ApiDb].keys <=> Capacity0[tt] > 0
  BY DEF Warm
<1>4. tt \in redis'[ApiDb].keys <=> tt \in redis[ApiDb].keys
  <2>1. CASE Gate(p)
    <3>1. redis'[ApiDb] = AfterReserve(redis[ApiDb], tt)
      BY <2>1, BuyerFacts, RedisAfter DEF Gate
    <3> QED BY <1>1, <3>1, BuyerFacts, CounterEffects
  <2>2. CASE Compensate(p)
    <3>1. redis'[ApiDb] = Incr(redis[ApiDb], tt)
      BY <2>2, BuyerFacts, RedisAfter DEF Compensate
    <3>2. tt \in redis[ApiDb].keys
      BY <1>1, <1>3, <2>2 DEF NeverWarms, Compensate, At, ServedLabels
    <3> QED BY <1>1, <3>1, <3>2, BuyerFacts, CounterEffects
  <2> QED BY <1>1, <1>2, <2>1, <2>2, BuyEffects
<1>5. NeverWarms(p)'
  <2>1. CASE Gate(p)
    <3>1. \/ tt \in redis[ApiDb].keys /\ task'[p].pc = "insert"
          \/ tt \notin redis[ApiDb].keys /\ task'[p].pc = "warm_read"
      BY <1>1, <2>1, BuyerFacts, GotoMoves DEF Gate, Admitted, Cold, Labels
    <3> QED BY <1>1, <1>3, <3>1, BookingAssumption DEF NeverWarms, At, ServedLabels
  <2>2. CASE WarmRead(p)
    <3>1. ~TypeRow(tt)
      BY <1>1, <2>2 DEF Warm, NeverWarms, WarmRead, TypeRow
    <3>2. task'[p].pc = "idle"
      BY <1>1, <2>2, <3>1, BuyerFacts, FinishMoves DEF WarmRead
    <3> QED BY <3>2 DEF NeverWarms, At, ServedLabels
  <2>3. CASE ~Gate(p) /\ ~WarmRead(p)
    <3>1. task[p].pc \in ServedLabels /\ task'[p].pc \in ServedLabels \cup {"idle"}
      BY <1>2, <2>3, BuyerFacts
      DEF Buy, InsertTicket, InsertRefused, HSet, CommitTicket, RefreshTicket, Enqueue,
          Compensate, At, Goto, Work, Finish, Idle, ServedLabels, TaskOK, Locals
    <3> QED BY <1>1, <3>1 DEF NeverWarms, At, ServedLabels
  <2> QED BY <2>1, <2>2, <2>3
<1>6. tickets_quantity'[tt] = tickets_quantity[tt]
  BY <1>1, BuyEffects
<1> QED BY <1>2, <1>4, <1>5, <1>6, BuyAdvances DEF Advances, KeepsWarm

\* ... and take a unit, or bring one back, for a seat that comes or goes.
LEMMA BuyHere ==
    ASSUME IInv, IInv', RolesKept, NEW p \in Buyers, Buy(p),
           Target[p] \in Untouched, Warm(Target[p])
    PROVE  Balances(p, Target[p])
<1> DEFINE tt == Target[p]
<1>1. /\ p \in Procs /\ tt \in Types /\ KeepsWarm(p, tt)
      /\ ~WarmSet(p) /\ ~GateAgain(p)
  BY BuyKeepsWarm, BuyerFacts
<1>2. Owes(p, tt, task[p]) = 0 /\ Owes(p, tt, task'[p]) = 0
  BY BuyStays, BuyerFacts DEF Stays, BuyerLabels, Owes
<1>3. /\ redis[ApiDb].inventory[tt] \in Nat /\ inflated[tt] \in Nat
      /\ tickets_sold[tt] \in Nat
      /\ Cardinality(Advanced(tt)) \in Nat /\ Cardinality(Advanced(tt)') \in Nat
      /\ Cardinality(Advanced(tt)) <= Cardinality(Advanced(tt)')
  BY <1>1, BuyerFacts, AdvancedGrows DEF TypeOK, Database, LeavesStatusLive
<1>4. CASE Gate(p)
  <2>1. redis'[ApiDb] = AfterReserve(redis[ApiDb], tt)
    BY <1>4, BuyerFacts, RedisAfter DEF Gate
  <2>2. UNCHANGED <<tickets_sold, inflated>> /\ task[p].pc = "idle"
    BY <1>4 DEF Gate, tickets, At
  <2>3. Takes(p, tt, task[p]) = 0 /\ Takes(p, tt, task'[p]) \in {0, 1}
    BY <2>2 DEF Takes
  <2>4. CASE Admitted(redis[ApiDb], tt)
    <3>1. redis'[ApiDb].inventory[tt] = redis[ApiDb].inventory[tt] - 1
      BY <1>1, <2>1, <2>4, BuyerFacts, CounterEffects
    <3> QED BY <1>1, <1>2, <1>3, <2>2, <2>3, <3>1 DEF Balances, Claim
  <2>5. CASE Cold(redis[ApiDb], tt)
    BY <1>1, <2>5 DEF Balances, Cold
  <2> QED BY <1>4, <2>4, <2>5 DEF Gate
<1>5. CASE CommitTicket(p)
  <2>1. tickets_sold'[tt] = tickets_sold[tt] + 1
    BY <1>1, <1>5, BuyerFacts DEF CommitTicket, TypeOK
  <2>2. task[p].pc = "commit" /\ task'[p].pc = "refresh"
    BY <1>1, <1>5, BuyerFacts, GotoMoves DEF CommitTicket, At, Labels
  <2>3. Takes(p, tt, task[p]) = 1 /\ Takes(p, tt, task'[p]) = 0
    BY <2>2 DEF Takes
  <2>4. redis' = redis /\ inflated' = inflated
    BY <1>5 DEF CommitTicket
  <2> QED BY <1>1, <1>2, <1>3, <2>1, <2>3, <2>4 DEF Balances, Claim
<1>6. CASE Compensate(p)
  <2>1. redis'[ApiDb].inventory[tt] = redis[ApiDb].inventory[tt] + 1
    <3>1. redis'[ApiDb] = Incr(redis[ApiDb], tt)
      BY <1>6, BuyerFacts, RedisAfter DEF Compensate
    <3> QED BY <1>1, <3>1, BuyerFacts, CounterEffects
  <2>2. task[p].pc = "compensate" /\ task'[p].pc = "idle" /\ tickets_sold' = tickets_sold
    BY <1>1, <1>6, BuyerFacts, FinishMoves DEF Compensate, At, tickets
  <2>3. /\ Takes(p, tt, task[p]) = IF task[p].ticket = None THEN 1 ELSE 0
        /\ Takes(p, tt, task'[p]) = 0
    BY <2>2 DEF Takes
  <2>4. inflated'[tt] = IF task[p].ticket = None THEN inflated[tt] ELSE inflated[tt] + 1
    BY <1>1, <1>6, BuyerFacts DEF Compensate, TypeOK
  <2> QED BY <1>1, <1>2, <1>3, <2>1, <2>2, <2>3, <2>4 DEF Balances, Claim
<1>7. CASE \/ WarmRead(p) \/ InsertTicket(p) \/ InsertRefused(p) \/ HSet(p)
           \/ RefreshTicket(p) \/ Enqueue(p)
  <2>1. /\ redis'[ApiDb].inventory[tt] = redis[ApiDb].inventory[tt]
        /\ inflated'[tt] = inflated[tt]
    <3>1. ~Gate(p) /\ ~Compensate(p)
      BY <1>7 DEF WarmRead, InsertTicket, InsertRefused, HSet, RefreshTicket, Enqueue,
                  Gate, Compensate, At
    <3> QED BY <1>1, <3>1, BuyEffects
  <2>2. tickets_sold' = tickets_sold
    BY <1>7 DEF WarmRead, InsertTicket, InsertRefused, HSet, RefreshTicket, Enqueue,
                tickets
  <2>3. Takes(p, tt, task'[p]) <= Takes(p, tt, task[p])
    <3>1. CASE task[p].pc \in {"insert", "hset"}
      BY <3>1 DEF Takes
    <3>2. CASE task[p].pc \notin {"insert", "hset"}
      <4>1. task'[p].pc \in {"idle", "warm_set", "enqueue"}
              \/ (task'[p].pc = "compensate" /\ task'[p].ticket # None)
        BY <1>7, <3>2, BuyerFacts, BookingAssumption
        DEF WarmRead, InsertTicket, InsertRefused, HSet, RefreshTicket, Enqueue, At, Goto,
            Finish, Idle, TaskOK, Locals, Holds, TicketLabels
      <4> QED BY <4>1 DEF Takes
    <3> QED BY <3>1, <3>2
  <2> QED BY <1>1, <1>2, <1>3, <2>1, <2>2, <2>3, CounterUntouched DEF LeavesStatusLive
<1> QED BY <1>1, <1>4, <1>5, <1>6, <1>7 DEF Buy

\* A delete owes a unit from its commit on, and gives it to a key that exists.
LEMMA CancelBalances ==
    ASSUME IInv, IInv', RolesKept, NEW p \in Cancelers, Cancel(p),
           NEW tt \in Untouched, Warm(tt)
    PROVE  Balances(p, tt)
<1> DEFINE t == task[p].ticket
<1>1. p \in Procs /\ tt \in Types /\ ApiDb \in {ApiDb, WorkerDb}
  BY DEF Procs, Untouched
<1>2. /\ task[p].pc \in CancelerLabels \cup {"idle"}
      /\ task'[p].pc \in CancelerLabels \cup {"idle"}
  BY <1>1, CancelStays, ProcFacts DEF Stays
<1>3. /\ Takes(p, tt, task[p]) = 0 /\ Takes(p, tt, task'[p]) = 0
      /\ NeverWarms(p)'
  BY <1>2 DEF Takes, NeverWarms, At, CancelerLabels, ServedLabels
<1>4. tickets_quantity'[tt] = tickets_quantity[tt] /\ inflated' = inflated
  BY <1>1, CatalogUntouched
  DEF catalog, Cancel, CancelSelect, CancelUpdate, CancelNothing, CancelDelete, GiveBack,
      CancelHDel
<1>5. task[p].pc # "idle" => t \in Tickets /\ TypeOf[t] \in Types
  BY <1>1, <1>2, ProcFacts DEF Holds, TicketLabels, CancelerLabels
<1>6. /\ LeavesStatusLive(p)
      /\ Cardinality(Advanced(tt)) \in Nat /\ Cardinality(Advanced(tt)') \in Nat
      /\ Cardinality(Advanced(tt)) <= Cardinality(Advanced(tt)')
  BY <1>1, AdvancedGrows DEF LeavesStatusLive
<1>7. CASE GiveBack(p)
  <2>1. redis'[ApiDb] = SafeIncr(redis[ApiDb], TypeOf[t])
    BY <1>1, <1>7, ProcFacts, RedisAfter DEF GiveBack
  <2>2. task[p].pc = "giveback" /\ task'[p].pc = "cancel_hdel"
    BY <1>1, <1>7, ProcFacts, GotoMoves DEF GiveBack, At, Labels
  <2>3. /\ Owes(p, tt, task[p]) = (IF TypeOf[t] = tt THEN 1 ELSE 0)
        /\ Owes(p, tt, task'[p]) = 0
    BY <2>2 DEF Owes
  <2>4. /\ redis'[ApiDb].keys = redis[ApiDb].keys
        /\ redis'[ApiDb].inventory[tt] =
              IF tt = TypeOf[t] /\ tt \in redis[ApiDb].keys
              THEN redis[ApiDb].inventory[tt] + 1 ELSE redis[ApiDb].inventory[tt]
    BY <1>1, <1>5, <2>1, <2>2, ProcFacts, CounterEffects
  <2>5. tickets_sold' = tickets_sold
    BY <1>7 DEF GiveBack, tickets
  <2>6. /\ redis[ApiDb].inventory[tt] \in Nat /\ inflated[tt] \in Nat
        /\ tickets_sold[tt] \in Nat
    BY <1>1, ProcFacts DEF TypeOK, Database
  <2> QED
    BY <1>3, <1>4, <1>6, <2>3, <2>4, <2>5, <2>6, CancelAdvances
    DEF Advances, KeepsWarm, Balances, Claim
<1>8. CASE ~GiveBack(p)
  <2>1. redis'[ApiDb].inventory = redis[ApiDb].inventory
        /\ redis'[ApiDb].keys = redis[ApiDb].keys
    <3>1. CASE CancelHDel(p)
      <4>1. redis'[ApiDb] = HDelActive(redis[ApiDb], t)
        BY <1>1, <3>1, ProcFacts, RedisAfter DEF CancelHDel
      <4> QED BY <1>1, <1>5, <3>1, <4>1, ProcFacts, EntryEffects DEF CancelHDel, At
    <3>2. CASE redis' = redis
      BY <3>2
    <3> QED
      BY <1>8, <3>1, <3>2
      DEF Cancel, CancelSelect, CancelUpdate, CancelNothing, CancelDelete
  <2>2. KeepsWarm(p, tt)
    BY <1>3, <1>4, <2>1, CancelAdvances DEF Advances, KeepsWarm
  <2>3. CASE CancelDelete(p)
    <3>1. task[p].pc = "cancel_delete" /\ task'[p].pc = "giveback" /\ task'[p].ticket = t
      BY <1>1, <2>3, ProcFacts, GotoMoves DEF CancelDelete, At, Labels
    <3>2. /\ Owes(p, tt, task[p]) = 0
          /\ Owes(p, tt, task'[p]) = (IF TypeOf[t] = tt THEN 1 ELSE 0)
      BY <3>1 DEF Owes
    <3>3. tickets_sold'[tt] = IF TypeOf[t] = tt THEN tickets_sold[tt] - 1 ELSE tickets_sold[tt]
      BY <1>1, <1>5, <2>3, ProcFacts DEF CancelDelete, TypeOK
    <3>4. /\ redis[ApiDb].inventory[tt] \in Nat /\ inflated[tt] \in Nat
          /\ tickets_sold[tt] \in Nat
      BY <1>1, ProcFacts DEF TypeOK, Database
    <3> QED BY <1>3, <1>4, <1>6, <2>1, <2>2, <3>2, <3>3, <3>4 DEF Balances, Claim
  <2>4. CASE CancelNothing(p) /\ ~Finish(p)
    <3>1. ~TypeRow(TypeOf[t]) /\ task[p].pc = "cancel_update" /\ task'[p].ticket = t
      BY <1>1, <2>4, ProcFacts, GotoMoves DEF CancelNothing, At, Labels
    <3>2. CASE TypeOf[t] = tt
      <4>1. tt \notin redis[ApiDb].keys
        BY <3>1, <3>2 DEF Warm, TypeRow
      <4> QED BY <2>2, <4>1 DEF Balances
    <3>3. CASE TypeOf[t] # tt
      <4>1. Owes(p, tt, task[p]) = 0 /\ Owes(p, tt, task'[p]) = 0
        BY <3>1, <3>3 DEF Owes
      <4>2. tickets_sold'[tt] <= tickets_sold[tt]
        BY <1>1, <2>4, ProcFacts DEF CancelNothing, tickets, TypeOK
      <4> QED BY <1>1, <1>3, <1>4, <2>1, <2>2, <1>6, <4>1, <4>2, CounterUntouched
    <3> QED BY <3>2, <3>3
  <2>5. CASE CancelSelect(p) \/ CancelUpdate(p) \/ Finish(p)
    <3>1. task'[p].pc # "giveback" /\ task[p].pc # "giveback"
      BY <1>1, <1>8, <2>5, ProcFacts
      DEF Cancel, CancelSelect, CancelUpdate, CancelNothing, CancelDelete, CancelHDel,
          At, Goto, Work, Finish, Idle, TaskOK, Locals
    <3>2. Owes(p, tt, task[p]) = 0 /\ Owes(p, tt, task'[p]) = 0
      BY <3>1 DEF Owes
    <3>3. tickets_sold'[tt] <= tickets_sold[tt]
      <4>1. ~CancelDelete(p) => tickets_sold' = tickets_sold
        BY <1>8
        DEF Cancel, CancelSelect, CancelUpdate, CancelNothing, CancelHDel, tickets
      <4>2. CASE CancelDelete(p)
        BY <1>1, <1>5, <4>2, ProcFacts DEF CancelDelete, At, TypeOK
      <4> QED BY <1>1, <4>1, <4>2, ProcFacts DEF TypeOK
    <3> QED BY <1>1, <1>3, <1>4, <2>1, <2>2, <1>6, <3>2, <3>3, CounterUntouched
  <2> QED BY <1>8, <2>3, <2>4, <2>5 DEF Cancel, CancelHDel
<1> QED BY <1>7, <1>8

\* Calls that are neither requests for tickets nor deletes have no part in it ...
LEMMA Bystander ==
    ASSUME NEW p \in Procs, NEW tt \in Types,
           LET Labels2 == PayerLabels \cup ReleaserLabels \cup SweepLabels
                              \cup CollectorLabels \cup AdminLabels
           IN  Stays(p, Labels2)
    PROVE  /\ Takes(p, tt, task[p]) = 0 /\ Takes(p, tt, task'[p]) = 0
           /\ Owes(p, tt, task[p]) = 0 /\ Owes(p, tt, task'[p]) = 0
           /\ NeverWarms(p)'
BY DEF Stays, Takes, Owes, NeverWarms, At, ServedLabels, PayerLabels, ReleaserLabels,
       SweepLabels, CollectorLabels, AdminLabels

\* ... payments and tasks, which look, refund a ticket or cancel what they have refunded.
WorkerStep(p) == \/ p \in Payers     /\ Pay(p)
                 \/ p \in Releasers  /\ ReleaseUnpaid(p)
                 \/ p \in Sweepers   /\ ReconcileHung(p)
                 \/ p \in Collectors /\ ReconcileOrphans(p)

\* The counters, and what is sold, stay what they are.
CountersStay == /\ redis'[ApiDb].inventory = redis[ApiDb].inventory
                /\ redis'[ApiDb].keys = redis[ApiDb].keys
                /\ tickets_sold' = tickets_sold

LEMMA WorkerKinds ==
    ASSUME IInv, NEW p \in Procs, WorkerStep(p)
    PROVE  \/ CountersStay /\ LeavesStatusLive(p)
           \/ \E t \in Tickets : Refunds(t) /\ UNCHANGED <<status, tickets_sold>>
           \/ ReleaseCommit(p)
           \/ SweepCommit(p)
<1>1. CASE PayHDel(p)
  <2>1. task[p].ticket \in Tickets
    BY <1>1, ProcFacts DEF PayHDel, Holds, TicketLabels, At
  <2>2. redis'[ApiDb] = HDelActive(redis[ApiDb], task[p].ticket)
    BY <1>1, ProcFacts, RedisAfter DEF PayHDel
  <2>3. CountersStay
    BY <1>1, <2>1, <2>2, ProcFacts, EntryEffects DEF PayHDel, CountersStay, tickets
  <2> QED BY <1>1, <2>3 DEF Pay, LeavesStatusLive
<1>2. CASE ReleaseRefund(p)
  <2>1. task[p].ticket \in Tickets
    BY <1>2, ProcFacts DEF ReleaseRefund, Holds, TicketLabels, At
  <2> QED BY <1>2, <2>1 DEF ReleaseRefund, Refunds, tickets
<1>3. CASE SweepRefund(p) \/ OrphanRefund(p)
  <2>1. task[p].todo \subseteq Tickets
    BY ProcFacts DEF Locals
  <2> QED BY <1>3, <2>1 DEF SweepRefund, OrphanRefund, Refunds, tickets
<1>4. CASE UNCHANGED <<redis, tickets>> /\ ~CancelsTickets(p)
  BY <1>4 DEF CountersStay, WorkerStep, LeavesStatusLive, tickets
<1>5. CASE PayCommit(p)
  BY <1>5 DEF PayCommit, Pay, CountersStay, LeavesStatusLive
<1>6. CASE ReleaseCommit(p) \/ SweepCommit(p)
  BY <1>6
<1> QED
  BY <1>1, <1>2, <1>3, <1>4, <1>5, <1>6
  DEF WorkerStep, Pay, PaySelect, PayRefresh, ReleaseUnpaid, ReleaseSelect,
      ReleaseSkip, ReleaseUpdate, ReleaseFails, ReconcileHung, SweepStart, SweepRow,
      SweepRowsDone, SweepType, SweepFails, SweepTypesDone, ReconcileOrphans,
      OrphanScan, OrphanQuery, CancelsTickets

\* None of them has a part in the balance of tt but through the counter and the tickets.
LEMMA WorkerFrame ==
    ASSUME IInv, IInv', RolesKept, NEW p \in Procs, WorkerStep(p), NEW tt \in Types,
           redis'[ApiDb].keys = redis[ApiDb].keys
    PROVE  /\ KeepsWarm(p, tt)
           /\ Takes(p, tt, task[p]) = 0 /\ Takes(p, tt, task'[p]) = 0
           /\ Owes(p, tt, task[p]) = 0 /\ Owes(p, tt, task'[p]) = 0
           /\ inflated' = inflated
           /\ redis[ApiDb].inventory[tt] \in Nat /\ redis'[ApiDb].inventory[tt] \in Nat
           /\ tickets_sold[tt] \in Nat /\ inflated[tt] \in Nat
<1>1. inflated' = inflated
  BY DEF WorkerStep, Pay, PaySelect, PayCommit, PayRefresh, PayHDel, ReleaseUnpaid,
         ReleaseSelect, ReleaseSkip, ReleaseUpdate, ReleaseFails, ReleaseRefund,
         ReleaseCommit, ReconcileHung, SweepStart, SweepRow, SweepRowsDone, SweepType,
         SweepFails, SweepTypesDone, SweepRefund, SweepCommit, ReconcileOrphans,
         OrphanScan, OrphanQuery, OrphanRefund
<1>2. Stays(p, PayerLabels \cup ReleaserLabels \cup SweepLabels
                   \cup CollectorLabels \cup AdminLabels)
  BY ProcFacts, PayStays, ReleaseStays, HungStays, OrphansStay DEF Stays, WorkerStep
<1>3. tickets_quantity' = tickets_quantity
  BY CatalogUntouched DEF catalog, WorkerStep
<1>4. \A q \in Procs \ {p} : task'[q] = task[q]
  BY OnlyOneMoves DEF StepOf, Step, WorkerStep
<1>5. KeepsWarm(p, tt)
  BY <1>2, <1>3, <1>4, Bystander DEF KeepsWarm
<1> QED BY <1>1, <1>2, <1>5, Bystander DEF IInv, TypeOK, Database

(***************************************************************************)
(* A refund of t, by whichever task.  It adds a unit only if t was not     *)
(* recorded before.  Then t was not canceled, and is one more of those     *)
(* that are refunded and not canceled.                                     *)
(***************************************************************************)
LEMMA RefundBalances ==
    ASSUME IInv, IInv', RolesKept, RecordInv, NEW p \in Procs, WorkerStep(p),
           NEW t \in Tickets, Refunds(t), UNCHANGED <<status, tickets_sold>>,
           NEW tt \in Types
    PROVE  Balances(p, tt)
<1>1. TypeOf[t] \in Types /\ redis[WorkerDb] \in Database
  BY ProcFacts
<1>2. redis'[ApiDb].keys = redis[ApiDb].keys
  BY AfterRefund
<1>3. /\ Cardinality(Advanced(tt)) \in Nat /\ Cardinality(Advanced(tt)') \in Nat
      /\ IsFiniteSet(Advanced(tt))
  BY AdvancedCounts
<1>4. CASE /\ redis'[ApiDb].inventory[tt] = redis[ApiDb].inventory[tt]
           /\ redis[ApiDb].canceled \subseteq redis'[ApiDb].canceled
  <2>1. Advanced(tt) \subseteq Advanced(tt)'
    BY <1>4 DEF Advanced
  <2>2. Cardinality(Advanced(tt)) <= Cardinality(Advanced(tt)')
    BY <2>1, AdvancedCounts, FS_Subset
  <2> QED BY <1>2, <1>3, <1>4, <2>2, WorkerFrame DEF Balances, Claim
<1>5. CASE ApiDb # WorkerDb
  BY <1>4, <1>5, AfterRefund
<1>6. CASE ApiDb = WorkerDb
  <2>1. redis'[ApiDb].canceled = redis[ApiDb].canceled \cup {t}
    BY <1>6, AfterRefund
  <2>2. redis'[ApiDb].inventory[tt] =
           IF /\ tt = TypeOf[t] /\ TypeOf[t] \in redis[ApiDb].keys
              /\ t \notin redis[ApiDb].canceled
           THEN redis[ApiDb].inventory[tt] + 1 ELSE redis[ApiDb].inventory[tt]
    BY <1>1, <1>6, AfterRefund, RefundEffects
  <2>3. CASE tt = TypeOf[t] /\ t \notin redis[ApiDb].canceled
    <3>1. status[t] # "CANCELED"
      BY <1>6, <2>3 DEF RecordInv, CancelsAreRecorded
    <3>2. Advanced(tt)' = Advanced(tt) \cup {t} /\ t \notin Advanced(tt)
      BY <2>1, <2>3, <3>1 DEF Advanced, OfType
    <3>3. Cardinality(Advanced(tt)') = Cardinality(Advanced(tt)) + 1
      BY <1>3, <3>2, FS_AddElement
    <3>4. redis'[ApiDb].inventory[tt] \in {redis[ApiDb].inventory[tt],
                                           redis[ApiDb].inventory[tt] + 1}
      BY <2>2
    <3> QED BY <1>2, <1>3, <3>3, <3>4, WorkerFrame DEF Balances, Claim
  <2>4. CASE ~(tt = TypeOf[t] /\ t \notin redis[ApiDb].canceled)
    BY <1>4, <2>1, <2>2, <2>4
  <2> QED BY <2>3, <2>4
<1> QED BY <1>5, <1>6

\* A release takes from tickets_sold the one ticket that it makes CANCELED ...
LEMMA ReleaseBalances ==
    ASSUME IInv, IInv', RolesKept, NEW p \in Procs, WorkerStep(p), ReleaseCommit(p),
           NEW tt \in Types
    PROVE  Balances(p, tt)
<1>1. PICK t \in Tickets : t = task[p].ticket
  BY ProcFacts DEF ReleaseCommit, Holds, TicketLabels, At
<1>2. /\ status' = [status EXCEPT ![t] = "CANCELED"]
      /\ tickets_sold' = [tickets_sold EXCEPT ![TypeOf[t]] = @ - 1]
      /\ redis' = redis
  BY <1>1 DEF ReleaseCommit
<1>3. tickets_sold'[tt] = IF TypeOf[t] = tt THEN tickets_sold[tt] - 1 ELSE tickets_sold[tt]
  BY <1>2, ProcFacts DEF TypeOK
<1>4. Advanced(tt)' = Advanced(tt) \ {t}
  BY <1>2, ProcFacts DEF Advanced, OfType, TypeOK
<1>5. /\ Cardinality(Advanced(tt)) \in Nat /\ Cardinality(Advanced(tt)') \in Nat
      /\ Cardinality(Advanced(tt)') - Weight(Advanced(tt)', t)
            = Cardinality(Advanced(tt)) - Weight(Advanced(tt), t)
  <2>1. Advanced(tt)' \ {t} = Advanced(tt) \ {t}
    BY <1>4
  <2> QED BY <2>1, AdvancedCounts, DifferInOne
<1>6. /\ Weight(Advanced(tt)', t) = 0
      /\ Weight(Advanced(tt), t) = 0 \/ (Weight(Advanced(tt), t) = 1 /\ TypeOf[t] = tt)
  BY <1>4 DEF Weight, Advanced, OfType
<1> QED BY <1>2, <1>3, <1>5, <1>6, WorkerFrame DEF Balances, Claim

\* ... and a sweep as many as the tickets of its batch.
LEMMA SweepBalances ==
    ASSUME IInv, IInv', RolesKept, NEW p \in Procs, WorkerStep(p), SweepCommit(p),
           NEW tt \in Types
    PROVE  Balances(p, tt)
<1> DEFINE Swept == SweptOfType(p, tt)
<1>1. /\ status' = [t \in Tickets |-> IF t \in task[p].batch THEN "CANCELED" ELSE status[t]]
      /\ tickets_sold'[tt] = tickets_sold[tt] - Cardinality(Swept)
      /\ redis' = redis
  BY DEF SweepCommit
<1>2. Advanced(tt)' = Advanced(tt) \ Swept
  BY <1>1 DEF Advanced, OfType, SweptOfType
<1>3. IsFiniteSet(Swept) /\ Cardinality(Swept) \in Nat
  <2>1. IsFiniteSet(Swept)
    BY BookingAssumption, FS_Subset DEF SweptOfType, OfType
  <2> QED BY <2>1, FS_CardinalityType
<1>4. /\ Cardinality(Advanced(tt)) \in Nat /\ Cardinality(Advanced(tt)') \in Nat
      /\ Cardinality(Advanced(tt)') >= Cardinality(Advanced(tt)) - Cardinality(Swept)
  <2>1. Cardinality(Advanced(tt) \ Swept)
           = Cardinality(Advanced(tt)) - Cardinality(Advanced(tt) \cap Swept)
    BY AdvancedCounts, FS_Difference
  <2>2. /\ Cardinality(Advanced(tt) \cap Swept) \in Nat
        /\ Cardinality(Advanced(tt) \cap Swept) <= Cardinality(Swept)
    <3>1. Advanced(tt) \cap Swept \subseteq Swept
      OBVIOUS
    <3> QED BY <1>3, <3>1, FS_Subset, FS_CardinalityType
  <2>3. /\ Cardinality(Advanced(tt)) \in Nat /\ Cardinality(Advanced(tt)') \in Nat
        /\ Cardinality(Advanced(tt)') = Cardinality(Advanced(tt) \ Swept)
    BY <1>2, AdvancedCounts
  <2> QED BY <1>3, <2>1, <2>2, <2>3
<1> QED BY <1>1, <1>3, <1>4, WorkerFrame DEF Balances, Claim

LEMMA OthersBalance ==
    ASSUME IInv, IInv', RolesKept, RecordInv, NEW p \in Procs, WorkerStep(p),
           NEW tt \in Untouched
    PROVE  Balances(p, tt)
<1>1. tt \in Types
  BY DEF Untouched
<1>2. CASE CountersStay /\ LeavesStatusLive(p)
  <2>1. tickets_sold'[tt] <= tickets_sold[tt]
    BY <1>1, <1>2, WorkerFrame DEF CountersStay
  <2> QED BY <1>1, <1>2, <2>1, WorkerFrame, CounterUntouched DEF CountersStay
<1>3. CASE \E t \in Tickets : Refunds(t) /\ UNCHANGED <<status, tickets_sold>>
  BY <1>1, <1>3, RefundBalances
<1>4. CASE ReleaseCommit(p) \/ SweepCommit(p)
  BY <1>1, <1>4, ReleaseBalances, SweepBalances
<1> QED BY <1>2, <1>3, <1>4, WorkerKinds

\* Administrators work on other types.
LEMMA AdminElsewhere ==
    ASSUME IInv, IInv', RolesKept, NEW p \in Admins, Administer(p), NEW tt \in Untouched
    PROVE  Balances(p, tt)
<1>1. p \in Procs /\ tt \in Types /\ Target[p] \in Types /\ Target[p] # tt
  BY BookingAssumption DEF Procs, Untouched
<1>2. Stays(p, PayerLabels \cup ReleaserLabels \cup SweepLabels
                   \cup CollectorLabels \cup AdminLabels)
  BY <1>1, ProcFacts, AdminStays DEF Stays
<1>3. tickets_quantity'[tt] = tickets_quantity[tt]
  BY <1>1, ProcFacts
  DEF Administer, CreateType, UpdateType, RefreshType, PublishInventory, DeleteType,
      RemoveInventory, catalog, TypeOK
<1>4. inflated' = inflated /\ tickets_sold' = tickets_sold
  BY DEF Administer, CreateType, UpdateType, RefreshType, PublishInventory, DeleteType,
         RemoveInventory, tickets
<1>5. /\ redis'[ApiDb].inventory[tt] = redis[ApiDb].inventory[tt]
      /\ tt \in redis'[ApiDb].keys <=> tt \in redis[ApiDb].keys
  <2>1. CASE PublishInventory(p)
    <3>1. redis'[ApiDb] = SetInventory(redis[ApiDb], Target[p], task[p].avail)
      BY <1>1, <2>1, ProcFacts, RedisAfter DEF PublishInventory
    <3> QED BY <1>1, <3>1, ProcFacts, CounterEffects
  <2>2. CASE RemoveInventory(p)
    <3>1. redis'[ApiDb] = DelInventory(redis[ApiDb], Target[p])
      BY <1>1, <2>2, ProcFacts, RedisAfter DEF RemoveInventory
    <3> QED BY <1>1, <3>1, ProcFacts, CounterEffects
  <2>3. CASE redis' = redis
    BY <2>3
  <2> QED
    BY <2>1, <2>2, <2>3 DEF Administer, CreateType, UpdateType, RefreshType, DeleteType
<1>6. KeepsWarm(p, tt)
  BY <1>1, <1>2, <1>3, <1>5, Bystander, LocklessAdvances DEF Advances, KeepsWarm
<1>7. tickets_sold'[tt] <= tickets_sold[tt]
  BY <1>1, <1>4, ProcFacts DEF TypeOK
<1> QED
  BY <1>1, <1>2, <1>4, <1>5, <1>6, <1>7, Bystander, CounterUntouched
  DEF LeavesStatusLive

\* A call that ends early can only lose the unit it has taken.
LEMMA AbortBalances ==
    ASSUME IInv, IInv', NEW p \in Procs, DeadlockAbort(p) \/ Crash(p) \/ TaskError(p),
           NEW tt \in Untouched
    PROVE  Balances(p, tt)
<1>1. tt \in Types
  BY DEF Untouched
<1>2. /\ UNCHANGED <<tickets_quantity, redis, inflated, tickets_sold>>
      /\ Finish(p)
  BY DEF DeadlockAbort, Crash, TaskError, Rollback, catalog
<1>3. Moves(p) /\ task'[p].pc = "idle"
  BY <1>2, ProcFacts, FinishMoves
<1>4. KeepsWarm(p, tt)
  BY <1>2, <1>3 DEF KeepsWarm, Moves, NeverWarms, At, ServedLabels
<1>5. /\ Takes(p, tt, task'[p]) <= Takes(p, tt, task[p])
      /\ Owes(p, tt, task'[p]) <= Owes(p, tt, task[p])
  BY <1>3 DEF Takes, Owes
<1>6. tickets_sold'[tt] <= tickets_sold[tt]
  BY <1>1, <1>2, ProcFacts DEF TypeOK
<1> QED BY <1>1, <1>2, <1>4, <1>5, <1>6, CounterUntouched DEF LeavesStatusLive

LEMMA DbErrorBalances ==
    ASSUME IInv, IInv', NEW p \in Procs, DbError(p), NEW tt \in Untouched, Warm(tt)
    PROVE  Balances(p, tt)
<1>1. tt \in Types /\ p \in Buyers
  BY DEF Untouched, DbError
<1>2. /\ UNCHANGED <<tickets_quantity, redis, inflated, tickets_sold>>
      /\ task[p].pc \in {"insert", "commit", "refresh"}
      /\ Work(p, "compensate", IF At(p, "refresh") THEN task[p].ticket ELSE None)
  BY DEF DbError, Rollback, catalog, At
<1>3. task[p].pc = "refresh" => task[p].ticket \in Tickets /\ task[p].ticket # None
  BY ProcFacts, BookingAssumption DEF Holds, TicketLabels
<1>4. /\ Moves(p) /\ task'[p].pc = "compensate"
      /\ task[p].pc = "refresh" => task'[p].ticket # None
  BY <1>2, <1>3, ProcFacts, WorkMoves DEF Labels, At
<1>5. KeepsWarm(p, tt)
  BY <1>1, <1>2, <1>4 DEF KeepsWarm, Moves, Warm, NeverWarms, At, ServedLabels
<1>6. /\ Takes(p, tt, task'[p]) <= Takes(p, tt, task[p])
      /\ Owes(p, tt, task'[p]) <= Owes(p, tt, task[p])
  BY <1>2, <1>4 DEF Takes, Owes
<1>7. tickets_sold'[tt] <= tickets_sold[tt]
  BY <1>1, <1>2, ProcFacts DEF TypeOK
<1> QED BY <1>1, <1>2, <1>5, <1>6, <1>7, CounterUntouched DEF LeavesStatusLive

\* Time passes, or nothing happens.
LEMMA GateFrame ==
    ASSUME GateInv,
           UNCHANGED <<status, task, redis, tickets_quantity, tickets_sold, inflated>>
    PROVE  GateInv'
<1>1. \A tt \in Untouched : /\ Held(tt)' = Held(tt) /\ Owed(tt)' = Owed(tt)
                            /\ Advanced(tt)' = Advanced(tt)
  BY DEF Held, Owed, Advanced, At
<1>2. \A tt \in Untouched : Warm(tt)' <=> Warm(tt)
  BY <1>1 DEF Warm, NeverWarms, At
<1>3. \A tt \in Untouched : Covered(tt)' <=> Covered(tt)
  BY <1>1 DEF Covered
<1> QED BY <1>2, <1>3 DEF GateInv

LEMMA GateStepOf ==
    ASSUME IInv, IInv', RolesKept, RecordInv, GateInv, NEW p \in Procs, StepOf(p)
    PROVE  GateInv'
<1> SUFFICES ASSUME NEW tt \in Untouched, Warm(tt) PROVE Balances(p, tt)
  BY GateInvStep
<1>1. tt \in Types
  BY DEF Untouched
<1>2. CASE p \in Buyers /\ Buy(p)
  BY <1>1, <1>2, BuyHere, BuyElsewhere
<1>3. CASE p \in Cancelers /\ Cancel(p)
  BY <1>3, CancelBalances
<1>4. CASE WorkerStep(p)
  BY <1>4, OthersBalance
<1>5. CASE p \in Admins /\ Administer(p)
  BY <1>5, AdminElsewhere
<1>6. CASE DeadlockAbort(p) \/ Crash(p) \/ TaskError(p)
  BY <1>6, AbortBalances
<1>7. CASE DbError(p)
  BY <1>7, DbErrorBalances
<1> QED BY <1>2, <1>3, <1>4, <1>5, <1>6, <1>7 DEF StepOf, Step, WorkerStep

LEMMA GateNext ==
    ASSUME "redis_restart" \notin Faults,
           IInv, IInv', RolesKept, RecordInv, GateInv, [Next]_vars
    PROVE  GateInv'
<1>1. CASE \E p \in Procs : StepOf(p)
  BY <1>1, GateStepOf
<1>2. CASE \E t \in Tickets : Expire(t)
  BY <1>2, GateFrame DEF Expire, tickets, catalog
<1>3. CASE UNCHANGED vars
  BY <1>3, GateFrame DEF vars
<1>4. ~RedisRestart
  BY DEF RedisRestart
<1> QED BY <1>1, <1>2, <1>3, <1>4 DEF Next, Fault, StepOf

\* At the start every counter is the whole capacity, and nobody holds a unit.
LEMMA WarmInit ==
    ASSUME Init, NEW tt \in Untouched
    PROVE  /\ Warm(tt)
           /\ Held(tt) = {} /\ Owed(tt) = {}
           /\ redis[ApiDb].inventory[tt] = tickets_quantity[tt]
           /\ redis[ApiDb].canceled = {}
           /\ tickets_sold[tt] = 0 /\ inflated[tt] = 0
<1>1. tt \in Types
  BY DEF Untouched
<1>2. \A p \in Procs : At(p, "idle")
  BY DEF Init, Idle, At
<1>3. Held(tt) = {} /\ Owed(tt) = {}
  BY <1>2 DEF Held, Owed, At, Procs
<1>4. redis[ApiDb] = WarmDatabase
  BY DEF Init
<1>5. /\ WarmDatabase.keys = {uu \in Types : Capacity0[uu] > 0}
      /\ WarmDatabase.inventory = Capacity0
      /\ WarmDatabase.canceled = {}
  BY DEF WarmDatabase, EmptyDatabase
<1>6. \A p \in Buyers : NeverWarms(p)
  BY <1>2 DEF NeverWarms, At, ServedLabels, Procs
<1>7. Warm(tt)
  BY <1>1, <1>3, <1>4, <1>5, <1>6, FS_EmptySet DEF Warm, Init
<1> QED BY <1>1, <1>3, <1>4, <1>5, <1>7 DEF Init

LEMMA GateInit == Init => GateInv
<1> SUFFICES ASSUME Init, NEW tt \in Untouched PROVE Warm(tt) /\ Covered(tt)
  BY DEF GateInv
<1>1. tt \in Types /\ Capacity0[tt] \in Nat /\ tickets_quantity = Capacity0
  BY BookingAssumption DEF Untouched, Init
<1>2. Warm(tt) /\ Held(tt) = {} /\ Owed(tt) = {}
  BY WarmInit
<1>3. /\ redis[ApiDb].inventory[tt] = tickets_quantity[tt]
      /\ tickets_sold[tt] = 0 /\ inflated[tt] = 0
  BY WarmInit
<1>4. Cardinality(Held(tt)) = 0 /\ Cardinality(Owed(tt)) = 0
  BY <1>2, FS_EmptySet
<1>5. Cardinality(Advanced(tt)) = 0
  <2>1. Advanced(tt) = {}
    BY WarmInit DEF Advanced
  <2> QED BY <2>1, FS_EmptySet
<1> QED BY <1>1, <1>2, <1>3, <1>4, <1>5 DEF Covered

\* The bound of the gate for the types that no administrator works on.
GateNeverOverAdmitsUntouched == \A tt \in Untouched \cap redis[ApiDb].keys : Covered(tt)

(***************************************************************************)
(* The gatekeeper script of services/ticket.py never lets in more requests *)
(* than there are seats, whatever the requests, the deletes, the payments, *)
(* the worker's tasks, deadlocks, crashes and database errors do, as long  *)
(* as no administrator works on the type and Redis keeps its data.  With   *)
(* the two Redis databases of the deployment the worker adds nothing to    *)
(* it; with one, a ticket adds a unit to the counter of its type once at   *)
(* most, no matter how often its release, the sweep and the collection of  *)
(* orphans retry, and only until it is canceled.                           *)
(***************************************************************************)
THEOREM GateOfUntouchedTypes ==
    ASSUME "redis_restart" \notin Faults
    PROVE  Spec => []GateNeverOverAdmitsUntouched
<1>1. IInv /\ IInv' /\ RolesKept /\ RecordInv /\ GateInv /\ [Next]_vars => GateInv'
  BY GateNext
<1>2. GateInv => GateNeverOverAdmitsUntouched
  BY DEF GateInv, GateNeverOverAdmitsUntouched
<1> QED BY <1>1, <1>2, GateInit, Invariance, RolesInvariant, Recording, PTL DEF Spec

\* In a system without administrators that is so of every type.
THEOREM GateIsSafe ==
    ASSUME "redis_restart" \notin Faults, Admins = {}
    PROVE  Spec => []GateNeverOverAdmits
<1>1. IInv /\ GateNeverOverAdmitsUntouched => GateNeverOverAdmits
  BY DEF GateNeverOverAdmitsUntouched, GateNeverOverAdmits, Untouched, IInv, TypeOK, Database
<1> QED BY <1>1, GateOfUntouchedTypes, Invariance, PTL
=============================================================================
