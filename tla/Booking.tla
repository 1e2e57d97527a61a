------------------------------- MODULE Booking -------------------------------
(***************************************************************************)
(* The life of a ticket as the code runs it: API requests and background   *)
(* tasks that interleave at every await, PostgreSQL transactions with row  *)
(* locks and CHECK constraints, and the Redis gatekeeper in front of them. *)
(*                                                                         *)
(*   services/ticket.py       create (buyers), delete (cancelers)          *)
(*   services/payment.py      pay_for_ticket (payers)                      *)
(*   services/ticket_type.py  create, update, delete (admins)              *)
(*   worker.py                release_unpaid_ticket (releasers),           *)
(*                            reconcile_hung_tickets (sweepers),           *)
(*                            reconcile_redis_orphans (collectors)         *)
(*                                                                         *)
(* A step is the code between two awaits that touch PostgreSQL or Redis.   *)
(* An early return or error that changes nothing is a stuttering step and  *)
(* has no action.  A process is one request or task slot: it serves one    *)
(* call after another, from the label "idle" back to "idle".               *)
(***************************************************************************)
EXTENDS Integers, FiniteSets, RedisKeys

CONSTANTS
    TypeOf,        \* the ticket type an id is drawn for
    Capacity0,     \* tickets_quantity of each type at the start, 0 if it is not created yet
    MaxQuantity,   \* bound on tickets_quantity
    Buyers, Payers, Cancelers, Admins,      \* slots for API requests
    Releasers, Sweepers, Collectors,        \* slots for background tasks
    Target,        \* the ticket type that a buyer or an admin works on
    None,          \* no ticket, or nobody
    ApiDb,         \* the Redis database of the API
    WorkerDb,      \* the Redis database behind ctx["redis"] of the worker
    Faults,        \* the kinds of fault that may happen
    MaxFaults      \* bound on how many happen

Procs == Buyers \cup Payers \cup Cancelers \cup Admins
             \cup Releasers \cup Sweepers \cup Collectors

ASSUME BookingAssumption ==
    /\ IsFiniteSet(Tickets)
    /\ TypeOf \in [Tickets -> Types]
    /\ MaxQuantity \in Nat
    /\ Capacity0 \in [Types -> 0 .. MaxQuantity]
    /\ Target \in [Buyers \cup Admins -> Types]
    /\ None \notin Procs \cup Tickets
    /\ Faults \subseteq {"crash", "db_error", "task_error", "slow_commit", "redis_restart"}
    /\ MaxFaults \in Nat

VARIABLES
    (* PostgreSQL *)
    status,            \* tickets.status of each id (see Statuses)
    tickets_sold,      \* ticket_types.tickets_sold, as committed
    tickets_quantity,  \* ticket_types.tickets_quantity, 0 when there is no row
    created,           \* the type ids handed out by the sequence so far
    expired,           \* tickets reserved TICKET_RESERVATION_TIME_SECONDS ago or earlier
    typeLock, rowLock, \* who holds the lock on a row of ticket_types, tickets
    (* Redis *)
    redis,             \* the API's and the worker's database
    jobs,              \* release_unpaid_ticket jobs in the queue
    (* processes *)
    task,              \* what each process is doing
    faults,            \* how many faults have happened
    (* history, read by properties only *)
    excess,            \* decrements of tickets_sold for tickets without a seat
    inflated           \* units handed back for reservations that had committed

tickets == <<status, tickets_sold, excess>>
catalog == <<tickets_quantity, created>>
locks   == <<typeLock, rowLock>>
vars == <<status, tickets_sold, tickets_quantity, created, expired, typeLock,
          rowLock, redis, jobs, task, faults, excess, inflated>>

(***************************************************************************)
(* FREE   not drawn from the sequence yet                                  *)
(* DRAWN  inserted by a transaction that has not committed                 *)
(* VOID   drawn by a transaction that rolled back: never a row             *)
(* DELETED  the row was deleted                                            *)
(***************************************************************************)
Statuses == {"FREE", "DRAWN", "VOID", "RESERVED", "SOLD", "CANCELED", "DELETED"}

OfType(tt)  == {t \in Tickets : TypeOf[t] = tt}
HasRow(t)   == status[t] \in {"RESERVED", "SOLD", "CANCELED"}
IsLive(t)   == status[t] \in {"RESERVED", "SOLD"}
TypeRow(tt) == tickets_quantity[tt] > 0

Labels == {"idle",
           "warm_read", "warm_set", "gate_again", "insert", "hset", "commit",
           "refresh", "enqueue", "compensate",
           "cancel_update", "cancel_delete", "giveback", "cancel_hdel",
           "pay_commit", "pay_refresh", "pay_hdel",
           "release_update", "release_refund", "release_commit",
           "sweep_rows", "sweep_types", "sweep_refund", "sweep_commit",
           "orphan_query", "orphan_refund",
           "create_refresh", "update_refresh", "set_inventory", "del_inventory"}

(***************************************************************************)
(* The locals of a process: the ticket it handles, the availability it     *)
(* computed, the tickets a batch task has left to do, and those a sweep    *)
(* has locked.                                                             *)
(***************************************************************************)
Locals == [pc : Labels, ticket : Tickets \cup {None}, avail : Nat,
           todo : SUBSET Tickets, batch : SUBSET Tickets]

Idle == [pc |-> "idle", ticket |-> None, avail |-> 0, todo |-> {}, batch |-> {}]

At(p, label)      == task[p].pc = label
Goto(p, label)    == task' = [task EXCEPT ![p].pc = label]
Work(p, label, t) == task' = [task EXCEPT ![p].pc = label, ![p].ticket = t]
Finish(p)         == task' = [task EXCEPT ![p] = Idle]

(* Locks.  A transaction keeps what it locked until it ends. *)
LockType(p, tt) == typeLock' = [typeLock EXCEPT ![tt] = p]
LockRow(p, t)   == rowLock' = [rowLock EXCEPT ![t] = p]
TypeFree(tt)    == typeLock[tt] = None
RowFree(t)      == rowLock[t] = None

Unlock(p) ==
    /\ typeLock' = [tt \in Types |-> IF typeLock[tt] = p THEN None ELSE typeLock[tt]]
    /\ rowLock' = [t \in Tickets |-> IF rowLock[t] = p THEN None ELSE rowLock[t]]

\* The session rolls back: locks go, an inserted ticket was never there.
Rollback(p) ==
    /\ Unlock(p)
    /\ status' = [t \in Tickets |->
                     IF rowLock[t] = p /\ status[t] = "DRAWN" THEN "VOID" ELSE status[t]]
    /\ UNCHANGED <<tickets_sold, excess>>

RedisStep(d, database) == redis' = [redis EXCEPT ![d] = database]

WarmDatabase ==
    [EmptyDatabase EXCEPT !.keys = {tt \in Types : Capacity0[tt] > 0},
                          !.inventory = Capacity0]

Init ==
    /\ status = [t \in Tickets |-> "FREE"]
    /\ tickets_sold = [tt \in Types |-> 0]
    /\ tickets_quantity = Capacity0
    /\ created = {tt \in Types : Capacity0[tt] > 0}
    /\ expired = {}
    /\ typeLock = [tt \in Types |-> None]
    /\ rowLock = [t \in Tickets |-> None]
    /\ redis = [d \in {ApiDb, WorkerDb} |->
                   IF d = ApiDb THEN WarmDatabase ELSE EmptyDatabase]
    /\ jobs = {}
    /\ task = [p \in Procs |-> Idle]
    /\ faults = 0
    /\ excess = [tt \in Types |-> 0]
    /\ inflated = [tt \in Types |-> 0]
-----------------------------------------------------------------------------
(***************************************************************************)
(* Definitions named ..._Mutant are mistakes the code could have made; no  *)
(* specification uses them.  Each shows that some property would notice.   *)
(***************************************************************************)
-----------------------------------------------------------------------------
(* TicketService.create *)

\* Bound: a request starts only while there is an id left for it to draw.
IdsRemain(tt) ==
    Cardinality({p \in Buyers : Target[p] = tt /\ ~At(p, "idle")})
        < Cardinality({t \in OfType(tt) : status[t] = "FREE"})

\* The gatekeeper script; SoldOut changes nothing.
Gate(p) ==
    /\ At(p, "idle")
    /\ IdsRemain(Target[p])
    /\ \/ Admitted(redis[ApiDb], Target[p]) /\ Goto(p, "insert")
       \/ Cold(redis[ApiDb], Target[p])     /\ Goto(p, "warm_read")
    /\ RedisStep(ApiDb, AfterReserve(redis[ApiDb], Target[p]))
    /\ UNCHANGED <<tickets, catalog, expired, locks, jobs, inflated>>

\* The inventory key is missing: compute it from the committed row.
WarmRead(p) ==
    /\ At(p, "warm_read")
    /\ IF TypeRow(Target[p])
       THEN task' = [task EXCEPT ![p].pc = "warm_set",
                                 ![p].avail = tickets_quantity[Target[p]]
                                                - tickets_sold[Target[p]]]
       ELSE Finish(p)
    /\ UNCHANGED <<tickets, catalog, expired, locks, redis, jobs, inflated>>

WarmSet(p) ==
    /\ At(p, "warm_set")
    /\ RedisStep(ApiDb, SetInventory(redis[ApiDb], Target[p], task[p].avail))
    /\ Goto(p, "gate_again")
    /\ UNCHANGED <<tickets, catalog, expired, locks, jobs, inflated>>

\* The second run of the script: a second "missing" is not told from "taken".
GateAgain(p) ==
    /\ At(p, "gate_again")
    /\ \/ Refused(redis[ApiDb], Target[p])  /\ Finish(p)
       \/ ~Refused(redis[ApiDb], Target[p]) /\ Goto(p, "insert")
    /\ RedisStep(ApiDb, AfterReserve(redis[ApiDb], Target[p]))
    /\ UNCHANGED <<tickets, catalog, expired, locks, jobs, inflated>>

(***************************************************************************)
(* UPDATE ticket_types, then INSERT and flush.  The UPDATE waits for the   *)
(* lock on the type; the CHECK refuses one sold too many, the foreign key  *)
(* a type without a row, and either sends the request to its except branch.*)
(***************************************************************************)
InsertTicket(p) ==
    LET tt == Target[p] IN
    /\ At(p, "insert")
    /\ TypeFree(tt)
    /\ tickets_sold[tt] < tickets_quantity[tt]
    /\ \E t \in OfType(tt) :
          /\ status[t] = "FREE"
          /\ status' = [status EXCEPT ![t] = "DRAWN"]
          /\ LockRow(p, t)
          /\ Work(p, "hset", t)
    /\ LockType(p, tt)
    /\ UNCHANGED <<tickets_sold, excess, catalog, expired, redis, jobs, inflated>>

InsertRefused(p) ==
    /\ At(p, "insert")
    /\ TypeFree(Target[p])
    /\ tickets_sold[Target[p]] >= tickets_quantity[Target[p]]
    /\ Goto(p, "compensate")
    /\ UNCHANGED <<tickets, catalog, expired, locks, redis, jobs, inflated>>

\* The reservation enters system:active_reservations before the commit.
HSet(p) ==
    /\ At(p, "hset")
    /\ RedisStep(ApiDb, HSetActive(redis[ApiDb], task[p].ticket))
    /\ Goto(p, "commit")
    /\ UNCHANGED <<tickets, catalog, expired, locks, jobs, inflated>>

CommitTicket(p) ==
    /\ At(p, "commit")
    /\ status' = [status EXCEPT ![task[p].ticket] = "RESERVED"]
    /\ tickets_sold' = [tickets_sold EXCEPT ![Target[p]] = @ + 1]
    /\ Unlock(p)
    /\ Goto(p, "refresh")
    /\ UNCHANGED <<excess, catalog, expired, redis, jobs, inflated>>

\* refresh() raises, inside the same try, when the row is already deleted.
RefreshTicket(p) ==
    /\ At(p, "refresh")
    /\ Goto(p, IF HasRow(task[p].ticket) THEN "enqueue" ELSE "compensate")
    /\ UNCHANGED <<tickets, catalog, expired, locks, redis, jobs, inflated>>

Enqueue(p) ==
    /\ At(p, "enqueue")
    /\ jobs' = jobs \cup {task[p].ticket}
    /\ Finish(p)
    /\ UNCHANGED <<tickets, catalog, expired, locks, redis, inflated>>

\* The except branches, after their rollback: a plain INCR.
Compensate(p) ==
    /\ At(p, "compensate")
    /\ RedisStep(ApiDb, Incr(redis[ApiDb], Target[p]))
    /\ inflated' = IF task[p].ticket = None
                   THEN inflated ELSE [inflated EXCEPT ![Target[p]] = @ + 1]
    /\ Finish(p)
    /\ UNCHANGED <<tickets, catalog, expired, locks, jobs>>

Buy(p) == \/ Gate(p) \/ WarmRead(p) \/ WarmSet(p) \/ GateAgain(p)
          \/ InsertTicket(p) \/ InsertRefused(p) \/ HSet(p) \/ CommitTicket(p)
          \/ RefreshTicket(p) \/ Enqueue(p) \/ Compensate(p)
-----------------------------------------------------------------------------
(* TicketService.delete *)

\* A plain SELECT: no lock is taken and the status is not looked at.
CancelSelect(p) ==
    /\ At(p, "idle")
    /\ \E t \in Tickets : HasRow(t) /\ Work(p, "cancel_update", t)
    /\ UNCHANGED <<tickets, catalog, expired, locks, redis, jobs, inflated>>

\* A ticket_types table without CHECK tickets_sold >= 0.
CancelUpdate_Mutant(p) ==
    LET tt == TypeOf[task[p].ticket] IN
    /\ At(p, "cancel_update")
    /\ TypeFree(tt)
    /\ LockType(p, tt)
    /\ Goto(p, "cancel_delete")
    /\ UNCHANGED <<tickets, catalog, expired, rowLock, redis, jobs, inflated>>

\* UPDATE ticket_types, held until the commit.
CancelUpdate(p) ==
    LET tt == TypeOf[task[p].ticket] IN
    /\ At(p, "cancel_update")
    /\ TypeFree(tt)
    /\ tickets_sold[tt] > 0
    /\ LockType(p, tt)
    /\ Goto(p, "cancel_delete")
    /\ UNCHANGED <<tickets, catalog, expired, rowLock, redis, jobs, inflated>>

\* A delete that swallows the IntegrityError and gives the unit back all the same.
CancelNothing_Mutant(p) ==
    LET tt == TypeOf[task[p].ticket] IN
    /\ At(p, "cancel_update")
    /\ TypeFree(tt)
    /\ tickets_sold[tt] = 0
    /\ Goto(p, "giveback")
    /\ UNCHANGED <<tickets, catalog, expired, locks, redis, jobs, inflated>>

(***************************************************************************)
(* The UPDATE cannot take a unit off: the CHECK tickets_sold >= 0 fails    *)
(* and the request ends; or the type has no row any more, in which case    *)
(* neither has the ticket, and the request goes on having changed nothing. *)
(***************************************************************************)
CancelNothing(p) ==
    LET tt == TypeOf[task[p].ticket] IN
    /\ At(p, "cancel_update")
    /\ TypeFree(tt)
    /\ tickets_sold[tt] = 0
    /\ IF TypeRow(tt) THEN Finish(p) ELSE Goto(p, "giveback")
    /\ UNCHANGED <<tickets, catalog, expired, locks, redis, jobs, inflated>>

(***************************************************************************)
(* DELETE and COMMIT.  The DELETE waits for the lock on the ticket; when   *)
(* it finds no row SQLAlchemy only warns, and the decrement still commits. *)
(***************************************************************************)
CancelDelete(p) ==
    LET t == task[p].ticket IN
    /\ At(p, "cancel_delete")
    /\ RowFree(t)
    /\ status' = [status EXCEPT ![t] = "DELETED"]
    /\ tickets_sold' = [tickets_sold EXCEPT ![TypeOf[t]] = @ - 1]
    /\ excess' = IF IsLive(t) THEN excess ELSE [excess EXCEPT ![TypeOf[t]] = @ + 1]
    /\ Unlock(p)
    /\ Goto(p, "giveback")
    /\ UNCHANGED <<catalog, expired, redis, jobs, inflated>>

GiveBack(p) ==
    /\ At(p, "giveback")
    /\ RedisStep(ApiDb, SafeIncr(redis[ApiDb], TypeOf[task[p].ticket]))
    /\ Goto(p, "cancel_hdel")
    /\ UNCHANGED <<tickets, catalog, expired, locks, jobs, inflated>>

CancelHDel(p) ==
    /\ At(p, "cancel_hdel")
    /\ RedisStep(ApiDb, HDelActive(redis[ApiDb], task[p].ticket))
    /\ Finish(p)
    /\ UNCHANGED <<tickets, catalog, expired, locks, jobs, inflated>>

Cancel(p) == \/ CancelSelect(p) \/ CancelUpdate(p) \/ CancelNothing(p)
             \/ CancelDelete(p) \/ GiveBack(p) \/ CancelHDel(p)
-----------------------------------------------------------------------------
(* PaymentService.pay_for_ticket *)

\* A payment that reads its ticket without FOR UPDATE.
PaySelect_Mutant(p) ==
    /\ At(p, "idle")
    /\ \E t \in Tickets : status[t] = "RESERVED" /\ Work(p, "pay_commit", t)
    /\ UNCHANGED <<tickets, catalog, expired, locks, redis, jobs, inflated>>

\* SELECT ... FOR UPDATE; SOLD, CANCELED and a missing row are errors.
PaySelect(p) ==
    /\ At(p, "idle")
    /\ \E t \in Tickets : /\ RowFree(t)
                          /\ status[t] = "RESERVED"
                          /\ LockRow(p, t)
                          /\ Work(p, "pay_commit", t)
    /\ UNCHANGED <<tickets, catalog, expired, typeLock, redis, jobs, inflated>>

PayCommit(p) ==
    /\ At(p, "pay_commit")
    /\ status' = [status EXCEPT ![task[p].ticket] = "SOLD"]
    /\ Unlock(p)
    /\ Goto(p, "pay_refresh")
    /\ UNCHANGED <<tickets_sold, excess, catalog, expired, redis, jobs, inflated>>

PayRefresh(p) ==
    /\ At(p, "pay_refresh")
    /\ IF HasRow(task[p].ticket) THEN Goto(p, "pay_hdel") ELSE Finish(p)
    /\ UNCHANGED <<tickets, catalog, expired, locks, redis, jobs, inflated>>

PayHDel(p) ==
    /\ At(p, "pay_hdel")
    /\ RedisStep(ApiDb, HDelActive(redis[ApiDb], task[p].ticket))
    /\ Finish(p)
    /\ UNCHANGED <<tickets, catalog, expired, locks, jobs, inflated>>

Pay(p) == PaySelect(p) \/ PayCommit(p) \/ PayRefresh(p) \/ PayHDel(p)
-----------------------------------------------------------------------------
(* release_unpaid_ticket *)

\* Time passes: t was reserved TICKET_RESERVATION_TIME_SECONDS ago.
Expire(t) ==
    /\ status[t] = "RESERVED"
    /\ t \notin expired
    /\ expired' = expired \cup {t}
    /\ UNCHANGED <<tickets, catalog, locks, redis, jobs, task, inflated>>

\* The queue runs a job in one slot at a time.
Due(p, t) == At(p, "idle") /\ t \in jobs /\ \A q \in Releasers : task[q].ticket # t

\* A release that does not look at the status.
ReleaseSelect_Mutant(p) ==
    /\ \E t \in expired : /\ Due(p, t)
                          /\ RowFree(t)
                          /\ HasRow(t)
                          /\ LockRow(p, t)
                          /\ Work(p, "release_update", t)
    /\ UNCHANGED <<tickets, catalog, expired, typeLock, redis, jobs, inflated>>

\* A release that locks the type before the ticket.
ReleaseSelect_OrderMutant(p) ==
    /\ \E t \in expired : /\ Due(p, t)
                          /\ TypeFree(TypeOf[t])
                          /\ status[t] = "RESERVED"
                          /\ LockType(p, TypeOf[t])
                          /\ Work(p, "release_update", t)
    /\ UNCHANGED <<tickets, catalog, expired, rowLock, redis, jobs, inflated>>

\* SELECT ... FOR UPDATE of a ticket that is still RESERVED ...
ReleaseSelect(p) ==
    /\ \E t \in expired : /\ Due(p, t)
                          /\ RowFree(t)
                          /\ status[t] = "RESERVED"
                          /\ LockRow(p, t)
                          /\ Work(p, "release_update", t)
    /\ UNCHANGED <<tickets, catalog, expired, typeLock, redis, jobs, inflated>>

\* ... or of one that is not, which ends the job.
ReleaseSkip(p) ==
    /\ \E t \in jobs : /\ Due(p, t)
                       /\ RowFree(t)
                       /\ status[t] # "RESERVED"
                       /\ jobs' = jobs \ {t}
    /\ UNCHANGED <<tickets, catalog, expired, locks, redis, task, inflated>>

ReleaseUpdate(p) ==
    LET tt == TypeOf[task[p].ticket] IN
    /\ At(p, "release_update")
    /\ TypeFree(tt)
    /\ tickets_sold[tt] > 0
    /\ LockType(p, tt)
    /\ Goto(p, "release_refund")
    /\ UNCHANGED <<tickets, catalog, expired, rowLock, redis, jobs, inflated>>

\* CHECK tickets_sold >= 0 fails: the job has failed, and is not retried.
ReleaseFails(p) ==
    LET tt == TypeOf[task[p].ticket] IN
    /\ At(p, "release_update")
    /\ TypeFree(tt)
    /\ tickets_sold[tt] = 0
    /\ Unlock(p)
    /\ jobs' = jobs \ {task[p].ticket}
    /\ Finish(p)
    /\ UNCHANGED <<tickets, catalog, expired, redis, inflated>>

\* The refund comes before the commit, and goes to the worker's database.
ReleaseRefund(p) ==
    LET t == task[p].ticket IN
    /\ At(p, "release_refund")
    /\ RedisStep(WorkerDb, Refund(redis[WorkerDb], TypeOf[t], t))
    /\ Goto(p, "release_commit")
    /\ UNCHANGED <<tickets, catalog, expired, locks, jobs, inflated>>

ReleaseCommit(p) ==
    LET t == task[p].ticket IN
    /\ At(p, "release_commit")
    /\ status' = [status EXCEPT ![t] = "CANCELED"]
    /\ tickets_sold' = [tickets_sold EXCEPT ![TypeOf[t]] = @ - 1]
    /\ Unlock(p)
    /\ jobs' = jobs \ {t}
    /\ Finish(p)
    /\ UNCHANGED <<excess, catalog, expired, redis, inflated>>

ReleaseUnpaid(p) == \/ ReleaseSelect(p) \/ ReleaseSkip(p) \/ ReleaseUpdate(p)
                    \/ ReleaseFails(p) \/ ReleaseRefund(p) \/ ReleaseCommit(p)
-----------------------------------------------------------------------------
(* reconcile_hung_tickets *)

\* A sweep that compares created_at with the threshold the wrong way round.
SweepStart_Mutant(p) ==
    LET hung == {t \in Tickets \ expired : status[t] = "RESERVED"} IN
    /\ At(p, "idle")
    /\ hung # {}
    /\ task' = [task EXCEPT ![p].pc = "sweep_rows", ![p].todo = hung]
    /\ UNCHANGED <<tickets, catalog, expired, locks, redis, jobs, inflated>>

\* The snapshot of the UPDATE ... WHERE status = RESERVED AND created_at <= threshold.
SweepStart(p) ==
    LET hung == {t \in expired : status[t] = "RESERVED"} IN
    /\ At(p, "idle")
    /\ hung # {}
    /\ task' = [task EXCEPT ![p].pc = "sweep_rows", ![p].todo = hung]
    /\ UNCHANGED <<tickets, catalog, expired, locks, redis, jobs, inflated>>

\* The UPDATE locks its rows one after another and looks at each again.
SweepRow(p) ==
    /\ At(p, "sweep_rows")
    /\ \E t \in task[p].todo :
          /\ RowFree(t)
          /\ IF status[t] = "RESERVED"
             THEN /\ LockRow(p, t)
                  /\ task' = [task EXCEPT ![p].todo = @ \ {t}, ![p].batch = @ \cup {t}]
             ELSE /\ UNCHANGED rowLock
                  /\ task' = [task EXCEPT ![p].todo = @ \ {t}]
    /\ UNCHANGED <<tickets, catalog, expired, typeLock, redis, jobs, inflated>>

SweepRowsDone(p) ==
    /\ At(p, "sweep_rows")
    /\ task[p].todo = {}
    /\ IF task[p].batch = {} THEN Finish(p) ELSE Goto(p, "sweep_types")
    /\ UNCHANGED <<tickets, catalog, expired, locks, redis, jobs, inflated>>

\* The types whose tickets_sold the sweep must still update, and by how much.
SweptOfType(p, tt) == task[p].batch \cap OfType(tt)
TypesToSweep(p) == {tt \in Types : SweptOfType(p, tt) # {} /\ typeLock[tt] # p}

SweepType(p) ==
    /\ At(p, "sweep_types")
    /\ \E tt \in TypesToSweep(p) :
          /\ TypeFree(tt)
          /\ Cardinality(SweptOfType(p, tt)) <= tickets_sold[tt]
          /\ LockType(p, tt)
    /\ UNCHANGED <<tickets, catalog, expired, rowLock, redis, jobs, task, inflated>>

\* A sweep whose session stays open after the error.
SweepFails_Mutant(p) ==
    /\ At(p, "sweep_types")
    /\ \E tt \in TypesToSweep(p) :
          /\ TypeFree(tt)
          /\ Cardinality(SweptOfType(p, tt)) > tickets_sold[tt]
    /\ Finish(p)
    /\ UNCHANGED <<tickets, catalog, expired, locks, redis, jobs, inflated>>

\* CHECK tickets_sold >= 0 fails for one type: the whole sweep rolls back.
SweepFails(p) ==
    /\ At(p, "sweep_types")
    /\ \E tt \in TypesToSweep(p) :
          /\ TypeFree(tt)
          /\ Cardinality(SweptOfType(p, tt)) > tickets_sold[tt]
    /\ Unlock(p)
    /\ Finish(p)
    /\ UNCHANGED <<tickets, catalog, expired, redis, jobs, inflated>>

SweepTypesDone(p) ==
    /\ At(p, "sweep_types")
    /\ TypesToSweep(p) = {}
    /\ task' = [task EXCEPT ![p].pc = "sweep_refund", ![p].todo = task[p].batch]
    /\ UNCHANGED <<tickets, catalog, expired, locks, redis, jobs, inflated>>

SweepRefund(p) ==
    /\ At(p, "sweep_refund")
    /\ \E t \in task[p].todo :
          /\ RedisStep(WorkerDb, Refund(redis[WorkerDb], TypeOf[t], t))
          /\ task' = [task EXCEPT ![p].todo = @ \ {t},
                                  ![p].pc = IF task[p].todo = {t}
                                            THEN "sweep_commit" ELSE "sweep_refund"]
    /\ UNCHANGED <<tickets, catalog, expired, locks, jobs, inflated>>

SweepCommit(p) ==
    /\ At(p, "sweep_commit")
    /\ status' = [t \in Tickets |->
                     IF t \in task[p].batch THEN "CANCELED" ELSE status[t]]
    /\ tickets_sold' = [tt \in Types |->
                           tickets_sold[tt] - Cardinality(SweptOfType(p, tt))]
    /\ Unlock(p)
    /\ Finish(p)
    /\ UNCHANGED <<excess, catalog, expired, redis, jobs, inflated>>

ReconcileHung(p) == \/ SweepStart(p) \/ SweepRow(p) \/ SweepRowsDone(p)
                    \/ SweepType(p) \/ SweepFails(p) \/ SweepTypesDone(p)
                    \/ SweepRefund(p) \/ SweepCommit(p)
-----------------------------------------------------------------------------
(* reconcile_redis_orphans *)

(***************************************************************************)
(* HGETALL, keeping the entries older than the grace period: any of them,  *)
(* but an entry of a transaction still under way only where transactions   *)
(* may outlast the grace period ("slow_commit").                           *)
(***************************************************************************)
OldEnough == IF "slow_commit" \in Faults
             THEN redis[WorkerDb].active
             ELSE {t \in redis[WorkerDb].active : status[t] # "DRAWN"}

OrphanScan(p, old) ==
    /\ At(p, "idle")
    /\ old # {}
    /\ task' = [task EXCEPT ![p].pc = "orphan_query", ![p].todo = old]
    /\ UNCHANGED <<tickets, catalog, expired, locks, redis, jobs, inflated>>

\* A collection that takes only CANCELED tickets for orphans.
OrphanQuery_Mutant(p) ==
    LET orphans == {t \in task[p].todo : status[t] = "CANCELED"} IN
    /\ At(p, "orphan_query")
    /\ IF orphans = {}
       THEN Finish(p)
       ELSE task' = [task EXCEPT ![p].pc = "orphan_refund", ![p].todo = orphans]
    /\ UNCHANGED <<tickets, catalog, expired, locks, redis, jobs, inflated>>

\* No visible row, or a CANCELED one, makes an entry an orphan.
OrphanQuery(p) ==
    LET orphans == {t \in task[p].todo : ~IsLive(t)} IN
    /\ At(p, "orphan_query")
    /\ IF orphans = {}
       THEN Finish(p)
       ELSE task' = [task EXCEPT ![p].pc = "orphan_refund", ![p].todo = orphans]
    /\ UNCHANGED <<tickets, catalog, expired, locks, redis, jobs, inflated>>

OrphanRefund(p) ==
    /\ At(p, "orphan_refund")
    /\ \E t \in task[p].todo :
          /\ RedisStep(WorkerDb, Refund(redis[WorkerDb], TypeOf[t], t))
          /\ IF task[p].todo = {t} THEN Finish(p)
                                   ELSE task' = [task EXCEPT ![p].todo = @ \ {t}]
    /\ UNCHANGED <<tickets, catalog, expired, locks, jobs, inflated>>

ReconcileOrphans(p) == \/ \E old \in SUBSET OldEnough : OrphanScan(p, old)
                       \/ OrphanQuery(p) \/ OrphanRefund(p)
-----------------------------------------------------------------------------
(* TicketTypeService *)

CreateType(p) ==
    /\ At(p, "idle")
    /\ Target[p] \notin created
    /\ created' = created \cup {Target[p]}
    /\ \E n \in 1 .. MaxQuantity :
          tickets_quantity' = [tickets_quantity EXCEPT ![Target[p]] = n]
    /\ Goto(p, "create_refresh")
    /\ UNCHANGED <<tickets, expired, locks, redis, jobs, inflated>>

\* A resize that trusts its caller and a table without CHECK quantity >= sold.
UpdateType_Mutant(p) ==
    /\ At(p, "idle")
    /\ TypeRow(Target[p])
    /\ TypeFree(Target[p])
    /\ \E n \in 1 .. MaxQuantity :
          tickets_quantity' = [tickets_quantity EXCEPT ![Target[p]] = n]
    /\ Goto(p, "update_refresh")
    /\ UNCHANGED <<tickets, created, expired, locks, redis, jobs, inflated>>

\* The UPDATE waits for the row's lock; the service and the CHECK refuse n < sold.
UpdateType(p) ==
    /\ At(p, "idle")
    /\ TypeRow(Target[p])
    /\ TypeFree(Target[p])
    /\ \E n \in 1 .. MaxQuantity :
          /\ n >= tickets_sold[Target[p]]
          /\ tickets_quantity' = [tickets_quantity EXCEPT ![Target[p]] = n]
    /\ Goto(p, "update_refresh")
    /\ UNCHANGED <<tickets, created, expired, locks, redis, jobs, inflated>>

\* The refresh after the commit: create publishes the whole quantity, update
\* what is left of it.  The key is written from this copy a step later.
RefreshType(p) ==
    LET tt == Target[p] IN
    /\ At(p, "create_refresh") \/ At(p, "update_refresh")
    /\ IF TypeRow(tt)
       THEN task' = [task EXCEPT ![p].pc = "set_inventory",
                                 ![p].avail = IF At(p, "create_refresh")
                                              THEN tickets_quantity[tt]
                                              ELSE tickets_quantity[tt] - tickets_sold[tt]]
       ELSE Finish(p)
    /\ UNCHANGED <<tickets, catalog, expired, locks, redis, jobs, inflated>>

PublishInventory(p) ==
    /\ At(p, "set_inventory")
    /\ RedisStep(ApiDb, SetInventory(redis[ApiDb], Target[p], task[p].avail))
    /\ Finish(p)
    /\ UNCHANGED <<tickets, catalog, expired, locks, jobs, inflated>>

\* A foreign key that only looks at what is committed.
DeleteType_Mutant(p) ==
    /\ At(p, "idle")
    /\ TypeRow(Target[p])
    /\ \A t \in OfType(Target[p]) : ~HasRow(t)
    /\ tickets_quantity' = [tickets_quantity EXCEPT ![Target[p]] = 0]
    /\ Goto(p, "del_inventory")
    /\ UNCHANGED <<tickets, created, expired, locks, redis, jobs, inflated>>

\* The foreign key of tickets refuses to delete a type that a row refers to.
DeleteType(p) ==
    /\ At(p, "idle")
    /\ TypeRow(Target[p])
    /\ TypeFree(Target[p])
    /\ \A t \in OfType(Target[p]) : ~HasRow(t)
    /\ tickets_quantity' = [tickets_quantity EXCEPT ![Target[p]] = 0]
    /\ Goto(p, "del_inventory")
    /\ UNCHANGED <<tickets, created, expired, locks, redis, jobs, inflated>>

RemoveInventory(p) ==
    /\ At(p, "del_inventory")
    /\ RedisStep(ApiDb, DelInventory(redis[ApiDb], Target[p]))
    /\ Finish(p)
    /\ UNCHANGED <<tickets, catalog, expired, locks, jobs, inflated>>

Administer(p) == \/ CreateType(p) \/ UpdateType(p) \/ RefreshType(p)
                 \/ PublishInventory(p) \/ DeleteType(p) \/ RemoveInventory(p)
-----------------------------------------------------------------------------
(* Failures *)

\* The rows whose locks the next statement of p needs ...
WantedTypes(p) ==
    {tt \in Types :
        \/ At(p, "insert")         /\ tt = Target[p]
        \/ At(p, "cancel_update")  /\ tt = TypeOf[task[p].ticket]
        \/ At(p, "release_update") /\ tt = TypeOf[task[p].ticket]
        \/ At(p, "sweep_types")    /\ tt \in TypesToSweep(p)}
WantedTickets(p) ==
    {t \in Tickets :
        \/ At(p, "cancel_delete")  /\ t = task[p].ticket
        \/ At(p, "release_update") /\ t = task[p].ticket
        \/ At(p, "sweep_rows")     /\ t \in task[p].todo}

\* ... and whom it may be waiting for: those who hold them.
WaitsFor(p) ==
    ({typeLock[tt] : tt \in WantedTypes(p)} \cup {rowLock[t] : t \in WantedTickets(p)})
        \ {p, None}

\* A set of processes each of which waits for another one of the set.
Deadlocked(S) ==
    \A p \in S : WaitsFor(p) \cap S # {} /\ \E q \in S : p \in WaitsFor(q)

(***************************************************************************)
(* PostgreSQL breaks a cycle of waiting transactions by failing one of     *)
(* them.  A release job that fails so is finished for the queue.           *)
(***************************************************************************)
DeadlockAbort(p) ==
    /\ \E S \in SUBSET {q \in Procs : WaitsFor(q) # {}} : p \in S /\ Deadlocked(S)
    /\ Rollback(p)
    /\ jobs' = IF p \in Releasers THEN jobs \ {task[p].ticket} ELSE jobs
    /\ Finish(p)
    /\ UNCHANGED <<catalog, expired, redis, inflated>>

\* "db_error": SQLAlchemyError from the flush, the commit or the refresh of create.
DbError(p) ==
    /\ "db_error" \in Faults
    /\ p \in Buyers
    /\ \/ At(p, "insert") \/ At(p, "commit") \/ At(p, "refresh")
    /\ Rollback(p)
    /\ Work(p, "compensate", IF At(p, "refresh") THEN task[p].ticket ELSE None)
    /\ UNCHANGED <<catalog, expired, redis, jobs, inflated>>

\* "crash": the process dies, or the request ends in an exception that no
\* except branch compensates (a Redis error, a cancellation).  The session
\* rolls back; a job stays in the queue.
Crash(p) ==
    /\ "crash" \in Faults
    /\ ~At(p, "idle")
    /\ Rollback(p)
    /\ Finish(p)
    /\ UNCHANGED <<catalog, expired, redis, jobs, inflated>>

\* A job whose session stays open after the error.
TaskError_Mutant(p) ==
    /\ "task_error" \in Faults
    /\ p \in Releasers
    /\ ~At(p, "idle")
    /\ jobs' = jobs \ {task[p].ticket}
    /\ Finish(p)
    /\ UNCHANGED <<tickets, catalog, expired, locks, redis, inflated>>

\* "task_error": an exception in a release job, which the queue does not retry.
TaskError(p) ==
    /\ "task_error" \in Faults
    /\ p \in Releasers
    /\ ~At(p, "idle")
    /\ Rollback(p)
    /\ jobs' = jobs \ {task[p].ticket}
    /\ Finish(p)
    /\ UNCHANGED <<catalog, expired, redis, inflated>>

\* "redis_restart": every key and every queued job is gone.
RedisRestart ==
    /\ "redis_restart" \in Faults
    /\ redis' = [d \in {ApiDb, WorkerDb} |-> EmptyDatabase]
    /\ jobs' = {}
    /\ UNCHANGED <<tickets, catalog, expired, locks, task, inflated>>

Fault == RedisRestart \/ \E p \in Procs : DbError(p) \/ Crash(p) \/ TaskError(p)
-----------------------------------------------------------------------------
Step(p) == \/ p \in Buyers     /\ Buy(p)
           \/ p \in Cancelers  /\ Cancel(p)
           \/ p \in Payers     /\ Pay(p)
           \/ p \in Releasers  /\ ReleaseUnpaid(p)
           \/ p \in Sweepers   /\ ReconcileHung(p)
           \/ p \in Collectors /\ ReconcileOrphans(p)
           \/ p \in Admins     /\ Administer(p)
           \/ DeadlockAbort(p)

\* Nobody has anything to do until the next request comes.
Quiet == \A p \in Procs : At(p, "idle")

Next == \/ (\E p \in Procs : Step(p)) /\ UNCHANGED faults
        \/ (\E t \in Tickets : Expire(t)) /\ UNCHANGED faults
        \/ faults < MaxFaults /\ faults' = faults + 1 /\ Fault
        \/ Quiet /\ UNCHANGED vars

Spec == Init /\ [][Next]_vars

(***************************************************************************)
(* Fairness.  A call that has begun goes on, because the event loop runs   *)
(* every ready coroutine.  PostgreSQL queues the waiters of a row lock, so *)
(* a lock that becomes free again and again is granted to each of them     *)
(* (SF).  The queue offers due jobs, and cron starts both sweeps every     *)
(* five minutes.  An entry of the active hash outlives any grace period,   *)
(* so every so often a scan sees all of OldEnough.  No request is ever     *)
(* bound to come, and no fault to happen.                                  *)
(***************************************************************************)
GoesOn(p)   == ~At(p, "idle") /\ Step(p) /\ UNCHANGED faults
GetsType(p) == /\ \/ p \in Buyers    /\ (InsertTicket(p) \/ InsertRefused(p))
                  \/ p \in Cancelers /\ (CancelUpdate(p) \/ CancelNothing(p))
                  \/ p \in Releasers /\ (ReleaseUpdate(p) \/ ReleaseFails(p))
                  \/ p \in Sweepers  /\ (SweepType(p) \/ SweepFails(p))
               /\ UNCHANGED faults
GetsRow(p)  == /\ \/ p \in Cancelers /\ CancelDelete(p)
                  \/ p \in Sweepers  /\ SweepRow(p)
               /\ UNCHANGED faults
JobRuns(p)  == ReleaseUnpaid(p) /\ UNCHANGED faults
CronHung(p) == SweepStart(p) /\ UNCHANGED faults
CronOrphans(p) == OrphanScan(p, OldEnough) /\ UNCHANGED faults

Fairness ==
    /\ \A p \in Procs : WF_vars(GoesOn(p))
    /\ \A p \in Buyers \cup Cancelers \cup Releasers \cup Sweepers : SF_vars(GetsType(p))
    /\ \A p \in Cancelers \cup Sweepers : SF_vars(GetsRow(p))
    /\ \A p \in Releasers : SF_vars(JobRuns(p))
    /\ \A p \in Sweepers : SF_vars(CronHung(p))
    /\ \A p \in Collectors : SF_vars(CronOrphans(p))
    /\ \A t \in Tickets : WF_vars(Expire(t) /\ UNCHANGED faults)

FairSpec == Spec /\ Fairness
-----------------------------------------------------------------------------
(* Properties *)

TypeOK ==
    /\ status \in [Tickets -> Statuses]
    /\ tickets_sold \in [Types -> Nat]
    /\ tickets_quantity \in [Types -> 0 .. MaxQuantity]
    /\ created \in SUBSET Types
    /\ expired \in SUBSET Tickets
    /\ typeLock \in [Types -> Procs \cup {None}]
    /\ rowLock \in [Tickets -> Procs \cup {None}]
    /\ redis \in [{ApiDb, WorkerDb} -> Database]
    /\ jobs \in SUBSET Tickets
    /\ task \in [Procs -> Locals]
    /\ faults \in 0 .. MaxFaults
    /\ excess \in [Types -> Nat]
    /\ inflated \in [Types -> Nat]

\* Where a call has a ticket, and where its transaction has locked a type.
TicketLabels == {"hset", "commit", "refresh", "enqueue", "cancel_update",
                 "cancel_delete", "giveback", "cancel_hdel", "pay_commit",
                 "pay_refresh", "pay_hdel", "release_update", "release_refund",
                 "release_commit"}
TypeLockLabels == {"hset", "commit", "cancel_delete", "release_refund",
                   "release_commit", "sweep_types", "sweep_refund", "sweep_commit"}
SweepLabels == {"sweep_rows", "sweep_types", "sweep_refund", "sweep_commit"}

\* What each transaction relies on from the moment it has read or locked a
\* row until it commits.
BuyerHolds(p) ==
    At(p, "hset") \/ At(p, "commit") =>
        LET t == task[p].ticket IN
        /\ p \in Buyers
        /\ TypeOf[t] = Target[p]
        /\ status[t] = "DRAWN" /\ rowLock[t] = p
        /\ typeLock[Target[p]] = p
        /\ tickets_sold[Target[p]] < tickets_quantity[Target[p]]

\* A payment or a release job has locked a ticket that is RESERVED.
TicketHolds(p) ==
    At(p, "pay_commit") \/ At(p, "release_update") \/ At(p, "release_refund")
      \/ At(p, "release_commit") =>
        status[task[p].ticket] = "RESERVED" /\ rowLock[task[p].ticket] = p

\* A delete or a release job has locked the type and may take one off.
TypeHolds(p) ==
    At(p, "cancel_delete") \/ At(p, "release_refund") \/ At(p, "release_commit") =>
        LET tt == TypeOf[task[p].ticket] IN typeLock[tt] = p /\ tickets_sold[tt] > 0

\* A delete is for a ticket that was committed, if only once upon a time.
CancelerHolds(p) ==
    At(p, "cancel_update") \/ At(p, "cancel_delete") =>
        status[task[p].ticket] \notin {"FREE", "DRAWN", "VOID"}

SweeperHolds(p) ==
    /\ \A t \in task[p].batch : status[t] = "RESERVED" /\ rowLock[t] = p
    /\ task[p].batch # {} => task[p].pc \in SweepLabels
    /\ task[p].batch = {} => task[p].pc \notin SweepLabels \ {"sweep_rows"}
    /\ \A tt \in Types :
          /\ task[p].pc \in SweepLabels /\ typeLock[tt] = p =>
                Cardinality(SweptOfType(p, tt)) <= tickets_sold[tt]
          /\ At(p, "sweep_refund") \/ At(p, "sweep_commit") => tt \notin TypesToSweep(p)

Holds(p) ==
    /\ task[p].pc \in TicketLabels => task[p].ticket \in Tickets
    /\ \A tt \in Types : typeLock[tt] = p => task[p].pc \in TypeLockLabels
    /\ BuyerHolds(p) /\ TicketHolds(p) /\ TypeHolds(p)
    /\ CancelerHolds(p) /\ SweeperHolds(p)

\* Only a row that is there can be locked, and an uncommitted insert is
\* always its inserter's.
RowsLocked ==
    \A t \in Tickets :
        /\ ~RowFree(t) => status[t] \in {"DRAWN", "RESERVED"}
        /\ status[t] = "DRAWN" => /\ rowLock[t] \in Procs
                                  /\ task[rowLock[t]].ticket = t
                                  /\ At(rowLock[t], "hset") \/ At(rowLock[t], "commit")

(***************************************************************************)
(* What a transaction read under a lock still holds when it commits: no    *)
(* interleaving of requests, tasks, deadlock aborts, crashes and rollbacks *)
(* changes a row between the FOR UPDATE or UPDATE that locked it and the   *)
(* commit that relies on it (create, delete, pay, release and sweep).      *)
(***************************************************************************)
LockDiscipline == RowsLocked /\ \A p \in Procs : Holds(p)

(***************************************************************************)
(* Every behaviour of the code, seen through what is committed, is one of  *)
(* the ledger: the CHECK constraints and row locks make every transaction  *)
(* atomic, and no crash or rollback leaves half of one behind.             *)
(***************************************************************************)
Committed(s) == IF s \in {"FREE", "DRAWN", "VOID"} THEN "NONE" ELSE s
Ledger == INSTANCE TicketLedger WITH status <- [t \in Tickets |-> Committed(status[t])]
ImplementsLedger == Ledger!Spec

\* Units of tt taken from the gate by requests that have not committed ...
Held(tt) == {p \in Buyers : /\ Target[p] = tt
                            /\ \/ At(p, "insert") \/ At(p, "hset") \/ At(p, "commit")
                               \/ At(p, "compensate") /\ task[p].ticket = None}
\* ... and units a committed delete has yet to put back.
Owed(tt) == {p \in Cancelers : At(p, "giveback") /\ TypeOf[task[p].ticket] = tt}

\* Units the worker put back on the counter of the API for tickets that are
\* not canceled, or not yet (none while the API has a database of its own).
Advanced(tt) == {t \in OfType(tt) : t \in redis[ApiDb].canceled /\ status[t] # "CANCELED"}

(***************************************************************************)
(* The gatekeeper admits no more requests than the database has seats for: *)
(* units on the counter, in the hands of requests and on their way back    *)
(* never exceed the unsold seats, but for the units that create handed     *)
(* back for a reservation it had committed (a refresh that failed), and,   *)
(* should the API and the worker share a database, for one unit of each    *)
(* ticket that was refunded and not canceled.                              *)
(***************************************************************************)
Covered(tt) ==
    redis[ApiDb].inventory[tt] + Cardinality(Held(tt)) + Cardinality(Owed(tt))
        <= tickets_quantity[tt] - tickets_sold[tt] + inflated[tt]
             + Cardinality(Advanced(tt))

GateNeverOverAdmits == \A tt \in redis[ApiDb].keys : Covered(tt)

(***************************************************************************)
(* Overselling, as README.md:56-61 has it: never more tickets holding a    *)
(* seat than there are seats.                                              *)
(***************************************************************************)
NoOverselling ==
    \A tt \in Types : Cardinality({t \in OfType(tt) : IsLive(t)}) <= tickets_quantity[tt]

(***************************************************************************)
(* Lock order.  create locks type then ticket, pay only a ticket, release  *)
(* and the sweep ticket then type; only delete locks type then ticket      *)
(* against them.  The sweep locks its tickets, and then their types, in no *)
(* order of their ids.  So every deadlock PostgreSQL has to break has a    *)
(* delete in it, or two sweeps that overlap: no reservation, payment or    *)
(* release job is ever a deadlock victim of its own kind.                  *)
(***************************************************************************)
DeadlocksNeedADeleteOrTwoSweeps ==
    \A S \in SUBSET {p \in Procs : WaitsFor(p) # {}} :
        S # {} /\ Deadlocked(S) =>
            S \cap Cancelers # {} \/ \E p, q \in S \cap Sweepers : p # q

(***************************************************************************)
(* With the API and the worker on one database (as the docstring at        *)
(* redis_keys.py:116 wants it) and no deletes, the refunds are idempotent: *)
(* a slot comes back once, whether the release job, the sweep, a retry of  *)
(* either after a crash, or the orphan collection returns it.  The counter *)
(* can run ahead only by units refunded for tickets that are or become     *)
(* live: a release refunds before it commits, and an insert that outlasts  *)
(* the grace period is taken for an orphan.                                *)
(***************************************************************************)
Ghosts(tt)    == {t \in OfType(tt) : t \in redis[ApiDb].active /\ status[t] = "VOID"}
Prefunded(tt) == {t \in OfType(tt) : /\ t \in redis[WorkerDb].canceled
                                     /\ IsLive(t) \/ status[t] = "DRAWN"}

Accounted(tt) ==
    redis[ApiDb].inventory[tt] + Cardinality(Held(tt)) + Cardinality(Ghosts(tt))
        <= tickets_quantity[tt] - tickets_sold[tt] + Cardinality(Prefunded(tt))

RefundedOnce == \A tt \in redis[ApiDb].keys : Accounted(tt)

(***************************************************************************)
(* worker.py:61-62: a release "increments the available inventory for the  *)
(* associated ticket type", so that when nothing is going on the counter   *)
(* is exactly what is left to sell.                                        *)
(***************************************************************************)
QuietExact ==
    Quiet => \A tt \in redis[ApiDb].keys :
                 redis[ApiDb].inventory[tt] = tickets_quantity[tt] - tickets_sold[tt]

(***************************************************************************)
(* worker.py:122-125: a ticket that stays RESERVED past the threshold is   *)
(* canceled (by its release job, or by a sweep when that was lost).        *)
(***************************************************************************)
HungReleased ==
    \A t \in Tickets :
        (status[t] = "RESERVED" /\ t \in expired) ~> status[t] # "RESERVED"

(***************************************************************************)
(* What the code keeps of it: a lost job, a crashed worker, a restarted    *)
(* Redis or a deadlock only delay the release; it fails for good only when *)
(* an excess decrement has pushed tickets_sold of some type, the ticket's  *)
(* own or another one, below its live tickets: the sweep is one batch for  *)
(* all types (worker.py:155-168), and the CHECK refuses it as a whole.     *)
(***************************************************************************)
HungReleasedUnlessExcess ==
    \A t \in Tickets :
        (status[t] = "RESERVED" /\ t \in expired)
            ~> (status[t] # "RESERVED" \/ \E tt \in Types : excess[tt] > 0)

(***************************************************************************)
(* No request or task waits for ever: lock waits end, in a commit, a       *)
(* rollback or as a deadlock victim.                                       *)
(***************************************************************************)
CallsEnd == \A p \in Procs : ~At(p, "idle") ~> At(p, "idle")

(***************************************************************************)
(* README.md:50-54: a rolled-back transaction leaves its ghost lock in the *)
(* active hash only until the collection finds it.                         *)
(***************************************************************************)
GhostsReclaimed ==
    \A t \in Tickets :
        (t \in redis[ApiDb].active /\ status[t] = "VOID") ~> t \notin redis[ApiDb].active

(***************************************************************************)
(* Referential integrity across the race of an administrator deleting a    *)
(* type with requests reserving, paying and canceling its tickets: every   *)
(* ticket row, committed or being inserted, belongs to a type with a row,  *)
(* and a deleted type is never sold from again.                            *)
(***************************************************************************)
TicketsHaveTypes ==
    \A t \in Tickets : HasRow(t) \/ status[t] = "DRAWN" => TypeRow(TypeOf[t])
=============================================================================
