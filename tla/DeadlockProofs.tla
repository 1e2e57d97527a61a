--------------------------- MODULE DeadlockProofs ----------------------------
(***************************************************************************)
(* Which transactions can be in a deadlock, for any number of processes,   *)
(* tickets and types.                                                      *)
(*                                                                         *)
(* The argument is the order in which each kind of transaction takes its   *)
(* locks.  Whoever is part of a cycle both holds a lock and waits for one. *)
(* A create waits only before it holds anything, and a payment never waits *)
(* with a lock in its hands.  That leaves deletes, release jobs, which     *)
(* hold a ticket and wait for a type, and sweeps; and of these only        *)
(* deletes and sweeps hold a type while they wait.                         *)
(***************************************************************************)
EXTENDS BookingProofs

\* The labels at which only one kind of process can be.
BuyerLabels     == {"warm_read", "warm_set", "gate_again", "insert", "hset", "commit",
                    "refresh", "enqueue", "compensate"}
CancelerLabels  == {"cancel_update", "cancel_delete", "giveback", "cancel_hdel"}
PayerLabels     == {"pay_commit", "pay_refresh", "pay_hdel"}
ReleaserLabels  == {"release_update", "release_refund", "release_commit"}
CollectorLabels == {"orphan_query", "orphan_refund"}
AdminLabels     == {"create_refresh", "update_refresh", "set_inventory", "del_inventory"}

KeepsRole(p) ==
    /\ task[p].pc \in BuyerLabels     => p \in Buyers
    /\ task[p].pc \in CancelerLabels  => p \in Cancelers
    /\ task[p].pc \in PayerLabels     => p \in Payers
    /\ task[p].pc \in ReleaserLabels  => p \in Releasers
    /\ task[p].pc \in SweepLabels     => p \in Sweepers
    /\ task[p].pc \in CollectorLabels => p \in Collectors
    /\ task[p].pc \in AdminLabels     => p \in Admins

\* Where the transaction of a call has locked the ticket it handles.
RowLabels == {"hset", "commit", "pay_commit",
              "release_update", "release_refund", "release_commit"}

\* A process locks the ticket it handles and those in its batch, and no other.
OwnsRows(p) ==
    \A t \in Tickets :
        rowLock[t] = p => \/ task[p].pc \in RowLabels /\ task[p].ticket = t
                          \/ t \in task[p].batch

RolesKept == \A p \in Procs : KeepsRole(p) /\ OwnsRows(p)

\* A step of p: the other processes get no rows, and p what it accounts for.
Advances(p) ==
    /\ \A q \in Procs \ {p} : task'[q] = task[q]
    /\ \A t \in Tickets : rowLock'[t] \in {rowLock[t], None, p}
    /\ KeepsRole(p)'
    /\ OwnsRows(p)'
-----------------------------------------------------------------------------
(* Lemmas *)

LEMMA RolesOfOthers ==
    ASSUME RolesKept, NEW p \in Procs, Advances(p)
    PROVE  RolesKept'
<1>1. ASSUME NEW q \in Procs \ {p} PROVE KeepsRole(q)' /\ OwnsRows(q)'
  <2>1. task'[q] = task[q] /\ q # p /\ q # None
    BY BookingAssumption DEF Advances
  <2>2. KeepsRole(q)'
    BY <2>1 DEF RolesKept, KeepsRole
  <2>3. ASSUME NEW t \in Tickets, rowLock'[t] = q PROVE rowLock[t] = q
    BY <2>1, <2>3 DEF Advances
  <2> QED BY <2>1, <2>2, <2>3 DEF RolesKept, OwnsRows
<1> QED BY <1>1 DEF Advances, RolesKept

\* What the lemmas of the actions use of the invariants.
LEMMA RoleFacts ==
    ASSUME IInv, RolesKept, NEW p \in Procs
    PROVE  /\ TaskOK /\ LocksOK /\ TypeOK
           /\ p # None
           /\ KeepsRole(p) /\ OwnsRows(p)
           /\ task[p].batch # {} => task[p].pc \in SweepLabels
           /\ task[p].pc \notin RowLabels \cup SweepLabels
                => \A t \in Tickets : rowLock[t] # p
<1>1. TaskOK /\ LocksOK /\ TypeOK /\ p # None
  BY BookingAssumption DEF IInv, TypeOK, TaskOK, LocksOK
<1>2. task[p].batch # {} => task[p].pc \in SweepLabels
  BY DEF IInv, LockDiscipline, Holds, SweeperHolds
<1> QED BY <1>1, <1>2 DEF RolesKept, OwnsRows

\* A step that goes to one of its own labels and takes no row ...
LEMMA PlainAdvance ==
    ASSUME IInv, RolesKept, NEW p \in Procs, Moves(p), KeepsRole(p)',
           UNCHANGED rowLock,
           \/ task[p].pc \notin RowLabels \cup SweepLabels
           \/ /\ task'[p].ticket = task[p].ticket
              /\ task[p].pc \in RowLabels => task'[p].pc \in RowLabels
              /\ task[p].batch \subseteq task'[p].batch
           \/ task[p].pc \in SweepLabels /\ task[p].batch = {}
    PROVE  Advances(p)
<1>1. OwnsRows(p)'
  BY RoleFacts DEF OwnsRows, RowLabels, SweepLabels
<1> QED BY <1>1 DEF Advances, Moves

\* ... and one that ends the transaction.
LEMMA EndingAdvance ==
    ASSUME IInv, RolesKept, NEW p \in Procs, Moves(p), KeepsRole(p)', Unlock(p)
    PROVE  Advances(p)
<1>1. \A t \in Tickets : rowLock'[t] \in {rowLock[t], None} /\ rowLock'[t] # p
  BY RoleFacts, UnlockFacts
<1> QED BY <1>1 DEF Advances, Moves, OwnsRows

\* A step that locks one ticket.
LEMMA LockingAdvance ==
    ASSUME IInv, RolesKept, NEW p \in Procs, Moves(p), KeepsRole(p)',
           NEW t \in Tickets, LockRow(p, t),
           \/ /\ task[p].pc \notin RowLabels \cup SweepLabels
              /\ task'[p].pc \in RowLabels /\ task'[p].ticket = t
           \/ /\ task[p].pc \in SweepLabels
              /\ task'[p].batch = task[p].batch \cup {t}
    PROVE  Advances(p)
<1>1. \A s \in Tickets : rowLock'[s] = IF s = t THEN p ELSE rowLock[s]
  BY RoleFacts DEF LocksOK, LockRow
<1>2. OwnsRows(p)'
  BY <1>1, RoleFacts DEF OwnsRows, RowLabels, SweepLabels
<1> QED BY <1>1, <1>2 DEF Advances, Moves

\* The deletes, payments, jobs and requests that give up, time out or crash.
LEMMA AbortAdvance ==
    ASSUME IInv, RolesKept, NEW p \in Procs,
           Rollback(p), Finish(p)
    PROVE  Advances(p)
<1>1. Moves(p) /\ task'[p].pc = "idle"
  BY RoleFacts, FinishMoves
<1>2. KeepsRole(p)'
  BY <1>1 DEF KeepsRole, BuyerLabels, CancelerLabels, PayerLabels, ReleaserLabels,
              SweepLabels, CollectorLabels, AdminLabels
<1> QED BY <1>1, <1>2, EndingAdvance DEF Rollback

\* At home: a label that belongs to no role, or to the process's own.
LEMMA OwnLabel ==
    ASSUME NEW p \in Procs,
           \/ task'[p].pc = "idle"
           \/ task'[p].pc \in BuyerLabels     /\ p \in Buyers
           \/ task'[p].pc \in CancelerLabels  /\ p \in Cancelers
           \/ task'[p].pc \in PayerLabels     /\ p \in Payers
           \/ task'[p].pc \in ReleaserLabels  /\ p \in Releasers
           \/ task'[p].pc \in SweepLabels     /\ p \in Sweepers
           \/ task'[p].pc \in CollectorLabels /\ p \in Collectors
           \/ task'[p].pc \in AdminLabels     /\ p \in Admins
    PROVE  KeepsRole(p)'
BY DEF KeepsRole, BuyerLabels, CancelerLabels, PayerLabels, ReleaserLabels,
       SweepLabels, CollectorLabels, AdminLabels
-----------------------------------------------------------------------------
(* The actions *)

LEMMA BuyAdvances ==
    ASSUME IInv, RolesKept, NEW p \in Buyers, Buy(p)
    PROVE  Advances(p)
<1>1. p \in Procs /\ Target[p] \in Types
  BY BookingAssumption DEF Procs
<1>2. ASSUME NEW label \in BuyerLabels \ RowLabels, Goto(p, label), UNCHANGED locks,
             task[p].pc \notin RowLabels \cup SweepLabels
      PROVE  Advances(p)
  <2>1. Moves(p) /\ task'[p].pc = label
    BY <1>1, <1>2, RoleFacts, GotoMoves DEF BuyerLabels, Labels
  <2> QED BY <1>1, <1>2, <2>1, PlainAdvance, OwnLabel DEF locks
<1>3. ASSUME Finish(p), UNCHANGED locks, task[p].pc \notin RowLabels \cup SweepLabels
      PROVE  Advances(p)
  <2>1. Moves(p) /\ task'[p].pc = "idle"
    BY <1>1, <1>3, RoleFacts, FinishMoves
  <2> QED BY <1>1, <1>3, <2>1, PlainAdvance, OwnLabel DEF locks
<1>4. CASE WarmRead(p) /\ ~Finish(p)
  <2>1. Moves(p) /\ task'[p].pc = "warm_set"
    <3>1. tickets_quantity[Target[p]] - tickets_sold[Target[p]] \in Nat
      BY <1>1, LedgerFacts, RoleFacts DEF IInv, TypeOK
    <3> QED BY <1>1, <1>4, <3>1, RoleFacts, ComputeMoves DEF WarmRead, Labels
  <2> QED
    BY <1>1, <1>4, <2>1, PlainAdvance, OwnLabel
    DEF WarmRead, locks, At, RowLabels, SweepLabels, BuyerLabels
<1>5. CASE \/ Gate(p) \/ (WarmRead(p) /\ Finish(p)) \/ WarmSet(p) \/ GateAgain(p)
           \/ InsertRefused(p) \/ RefreshTicket(p) \/ Enqueue(p) \/ Compensate(p)
  <2>1. task[p].pc \notin RowLabels \cup SweepLabels /\ UNCHANGED locks
    BY <1>5
    DEF Gate, WarmRead, WarmSet, GateAgain, InsertRefused, RefreshTicket, Enqueue,
        Compensate, At, RowLabels, SweepLabels
  <2>2. Finish(p) \/ \E label \in BuyerLabels \ RowLabels : Goto(p, label)
    <3>1. {"insert", "warm_read", "gate_again", "compensate", "enqueue"}
             \subseteq BuyerLabels \ RowLabels
      BY DEF BuyerLabels, RowLabels
    <3>2. CASE Gate(p) \/ WarmSet(p) \/ GateAgain(p) \/ InsertRefused(p)
      BY <3>1, <3>2 DEF Gate, WarmSet, GateAgain, InsertRefused
    <3>3. CASE RefreshTicket(p)
      BY <3>1, <3>3 DEF RefreshTicket
    <3>4. CASE (WarmRead(p) /\ Finish(p)) \/ Enqueue(p) \/ Compensate(p)
      BY <3>4 DEF Enqueue, Compensate
    <3> QED BY <1>5, <3>2, <3>3, <3>4
  <2> QED BY <1>2, <1>3, <2>1, <2>2
<1>6. CASE InsertTicket(p)
  <2>1. PICK t \in Tickets : LockRow(p, t) /\ Work(p, "hset", t)
    BY <1>6 DEF InsertTicket, OfType
  <2>2. Moves(p) /\ task'[p].pc = "hset" /\ task'[p].ticket = t
    BY <1>1, <2>1, RoleFacts, WorkMoves DEF Labels
  <2> QED
    BY <1>1, <1>6, <2>1, <2>2, LockingAdvance, OwnLabel
    DEF InsertTicket, At, RowLabels, SweepLabels, BuyerLabels
<1>7. CASE HSet(p)
  <2>1. /\ Moves(p) /\ task'[p].pc = "commit"
        /\ task'[p].ticket = task[p].ticket /\ task'[p].batch = task[p].batch
    BY <1>1, <1>7, RoleFacts, GotoMoves DEF HSet, Labels
  <2> QED
    BY <1>1, <1>7, <2>1, PlainAdvance, OwnLabel
    DEF HSet, At, RowLabels, SweepLabels, BuyerLabels, locks
<1>8. CASE CommitTicket(p)
  <2>1. Moves(p) /\ task'[p].pc = "refresh"
    BY <1>1, <1>8, RoleFacts, GotoMoves DEF CommitTicket, Labels
  <2> QED
    BY <1>1, <1>8, <2>1, EndingAdvance, OwnLabel DEF CommitTicket, BuyerLabels
<1>9. CASE WarmRead(p)
  BY <1>4, <1>5, <1>9
<1> QED BY <1>5, <1>6, <1>7, <1>8, <1>9 DEF Buy

LEMMA CancelAdvances ==
    ASSUME IInv, RolesKept, NEW p \in Cancelers, Cancel(p)
    PROVE  Advances(p)
<1>1. p \in Procs
  BY DEF Procs
<1>2. task[p].pc \notin RowLabels \cup SweepLabels
  BY DEF Cancel, CancelSelect, CancelUpdate, CancelNothing, CancelDelete, GiveBack,
         CancelHDel, At, RowLabels, SweepLabels
<1>3. Moves(p) /\ task'[p].pc \in CancelerLabels \cup {"idle"}
  <2>1. CASE CancelSelect(p)
    <3>1. PICK t \in Tickets : Work(p, "cancel_update", t)
      BY <2>1 DEF CancelSelect
    <3> QED BY <1>1, <3>1, RoleFacts, WorkMoves DEF Labels, CancelerLabels
  <2>2. CASE Finish(p)
    BY <1>1, <2>2, RoleFacts, FinishMoves
  <2>3. ASSUME NEW label \in {"cancel_delete", "giveback", "cancel_hdel"}, Goto(p, label)
        PROVE  Moves(p) /\ task'[p].pc \in CancelerLabels
    BY <1>1, <2>3, RoleFacts, GotoMoves DEF Labels, CancelerLabels
  <2>4. CASE CancelUpdate(p) \/ CancelDelete(p) \/ GiveBack(p) \/ CancelHDel(p)
    BY <2>2, <2>3, <2>4 DEF CancelUpdate, CancelDelete, GiveBack, CancelHDel
  <2>5. CASE CancelNothing(p)
    BY <2>2, <2>3, <2>5 DEF CancelNothing
  <2> QED BY <2>1, <2>4, <2>5 DEF Cancel
<1>4. UNCHANGED rowLock \/ Unlock(p)
  BY DEF Cancel, CancelSelect, CancelUpdate, CancelNothing, CancelDelete, GiveBack,
         CancelHDel, locks
<1> QED BY <1>1, <1>2, <1>3, <1>4, OwnLabel, PlainAdvance, EndingAdvance

LEMMA PayAdvances ==
    ASSUME IInv, RolesKept, NEW p \in Payers, Pay(p)
    PROVE  Advances(p)
<1>1. p \in Procs
  BY DEF Procs
<1>2. CASE PaySelect(p)
  <2>1. PICK t \in Tickets : LockRow(p, t) /\ Work(p, "pay_commit", t)
    BY <1>2 DEF PaySelect
  <2>2. Moves(p) /\ task'[p].pc = "pay_commit" /\ task'[p].ticket = t
    BY <1>1, <2>1, RoleFacts, WorkMoves DEF Labels
  <2> QED
    BY <1>1, <1>2, <2>1, <2>2, LockingAdvance, OwnLabel
    DEF PaySelect, At, RowLabels, SweepLabels, PayerLabels
<1>3. CASE PayCommit(p)
  <2>1. Moves(p) /\ task'[p].pc = "pay_refresh"
    BY <1>1, <1>3, RoleFacts, GotoMoves DEF PayCommit, Labels
  <2> QED
    BY <1>1, <1>3, <2>1, EndingAdvance, OwnLabel DEF PayCommit, PayerLabels
<1>4. CASE PayRefresh(p) \/ PayHDel(p)
  <2>1. Moves(p) /\ task'[p].pc \in {"idle", "pay_hdel"}
    BY <1>1, <1>4, RoleFacts, GotoMoves, FinishMoves DEF PayRefresh, PayHDel, Labels
  <2>2. task[p].pc \notin RowLabels \cup SweepLabels /\ UNCHANGED rowLock
    BY <1>4 DEF PayRefresh, PayHDel, At, RowLabels, SweepLabels, locks
  <2> QED BY <1>1, <2>1, <2>2, PlainAdvance, OwnLabel DEF PayerLabels
<1> QED BY <1>2, <1>3, <1>4 DEF Pay

LEMMA ReleaseAdvances ==
    ASSUME IInv, RolesKept, NEW p \in Releasers, ReleaseUnpaid(p), ~ReleaseSkip(p)
    PROVE  Advances(p)
<1>1. p \in Procs
  BY DEF Procs
<1>2. CASE ReleaseSelect(p)
  <2>1. PICK t \in Tickets : LockRow(p, t) /\ Work(p, "release_update", t) /\ Due(p, t)
    BY <1>2, RoleFacts, <1>1 DEF ReleaseSelect, TypeOK
  <2>2. Moves(p) /\ task'[p].pc = "release_update" /\ task'[p].ticket = t
    BY <1>1, <2>1, RoleFacts, WorkMoves DEF Labels
  <2> QED
    BY <1>1, <2>1, <2>2, LockingAdvance, OwnLabel
    DEF Due, At, RowLabels, SweepLabels, ReleaserLabels
<1>3. CASE ReleaseUpdate(p) \/ ReleaseRefund(p)
  <2>1. /\ Moves(p) /\ task'[p].pc \in {"release_refund", "release_commit"}
        /\ task'[p].ticket = task[p].ticket /\ task'[p].batch = task[p].batch
    BY <1>1, <1>3, RoleFacts, GotoMoves DEF ReleaseUpdate, ReleaseRefund, Labels
  <2>2. UNCHANGED rowLock
    BY <1>3 DEF ReleaseUpdate, ReleaseRefund, locks
  <2> QED
    BY <1>1, <2>1, <2>2, PlainAdvance, OwnLabel DEF RowLabels, ReleaserLabels
<1>4. CASE ReleaseFails(p) \/ ReleaseCommit(p)
  <2>1. Moves(p) /\ task'[p].pc = "idle" /\ Unlock(p)
    BY <1>1, <1>4, RoleFacts, FinishMoves DEF ReleaseFails, ReleaseCommit
  <2> QED BY <1>1, <2>1, EndingAdvance, OwnLabel
<1> QED BY <1>2, <1>3, <1>4 DEF ReleaseUnpaid

LEMMA SweepAdvances ==
    ASSUME IInv, RolesKept, NEW p \in Sweepers, ReconcileHung(p)
    PROVE  Advances(p)
<1>1. p \in Procs
  BY DEF Procs
<1>2. task[p].todo \in SUBSET Tickets /\ task[p].batch \in SUBSET Tickets
  BY <1>1, RoleFacts DEF TaskOK, Locals
<1>3. CASE SweepStart(p)
  <2>1. PICK hung \in SUBSET Tickets :
          task' = [task EXCEPT ![p].pc = "sweep_rows", ![p].todo = hung]
    BY <1>1, <1>3, RoleFacts DEF SweepStart, TypeOK
  <2>2. Moves(p) /\ task'[p].pc = "sweep_rows"
    BY <1>1, <2>1, RoleFacts DEF TaskOK, Locals, Labels, Moves
  <2> QED
    BY <1>1, <1>3, <2>2, PlainAdvance, OwnLabel
    DEF SweepStart, At, RowLabels, SweepLabels, locks
<1>4. CASE SweepRow(p)
  <2>1. PICK t \in task[p].todo :
          IF status[t] = "RESERVED"
          THEN /\ LockRow(p, t)
               /\ task' = [task EXCEPT ![p].todo = @ \ {t}, ![p].batch = @ \cup {t}]
          ELSE /\ UNCHANGED rowLock
               /\ task' = [task EXCEPT ![p].todo = @ \ {t}]
    BY <1>4 DEF SweepRow
  <2>2. t \in Tickets /\ task[p].pc = "sweep_rows"
    BY <1>2, <1>4 DEF SweepRow, At
  <2>3. CASE status[t] = "RESERVED"
    <3>1. /\ Moves(p) /\ task'[p].pc = "sweep_rows"
          /\ task'[p].batch = task[p].batch \cup {t}
      BY <1>1, <2>1, <2>2, <2>3, RoleFacts DEF TaskOK, Locals, Moves
    <3> QED
      BY <1>1, <2>1, <2>2, <2>3, <3>1, LockingAdvance, OwnLabel DEF SweepLabels
  <2>4. CASE status[t] # "RESERVED"
    <3>1. /\ Moves(p) /\ task'[p].pc = "sweep_rows"
          /\ task'[p].batch = task[p].batch /\ task'[p].ticket = task[p].ticket
      BY <1>1, <2>1, <2>2, <2>4, RoleFacts DEF TaskOK, Locals, Moves
    <3> QED
      BY <1>1, <2>1, <2>2, <2>4, <3>1, PlainAdvance, OwnLabel
      DEF SweepLabels, RowLabels
  <2> QED BY <2>3, <2>4
<1>5. CASE SweepRowsDone(p)
  <2>1. CASE task[p].batch = {}
    <3>1. Moves(p) /\ task'[p].pc = "idle"
      BY <1>1, <1>5, <2>1, RoleFacts, FinishMoves DEF SweepRowsDone
    <3> QED
      BY <1>1, <1>5, <2>1, <3>1, PlainAdvance, OwnLabel
      DEF SweepRowsDone, At, SweepLabels, locks
  <2>2. CASE task[p].batch # {}
    <3>1. /\ Moves(p) /\ task'[p].pc = "sweep_types"
          /\ task'[p].batch = task[p].batch /\ task'[p].ticket = task[p].ticket
      BY <1>1, <1>5, <2>2, RoleFacts, GotoMoves DEF SweepRowsDone, Labels
    <3> QED
      BY <1>1, <1>5, <3>1, PlainAdvance, OwnLabel
      DEF SweepRowsDone, At, SweepLabels, RowLabels, locks
  <2> QED BY <2>1, <2>2
<1>6. CASE SweepType(p)
  <2>1. task' = task /\ UNCHANGED rowLock
    BY <1>6 DEF SweepType
  <2>2. Moves(p)
    BY <1>1, <2>1, RoleFacts DEF TaskOK, Moves
  <2> QED
    BY <1>1, <1>6, <2>1, <2>2, PlainAdvance, OwnLabel
    DEF SweepType, At, SweepLabels, RowLabels
<1>7. CASE SweepTypesDone(p)
  <2>1. /\ Moves(p) /\ task'[p].pc = "sweep_refund"
        /\ task'[p].batch = task[p].batch /\ task'[p].ticket = task[p].ticket
    BY <1>1, <1>2, <1>7, RoleFacts DEF SweepTypesDone, TaskOK, Locals, Labels, Moves
  <2> QED
    BY <1>1, <1>7, <2>1, PlainAdvance, OwnLabel
    DEF SweepTypesDone, At, SweepLabels, RowLabels, locks
<1>8. CASE SweepRefund(p)
  <2>1. PICK t \in task[p].todo :
          task' = [task EXCEPT ![p].todo = @ \ {t},
                               ![p].pc = IF task[p].todo = {t}
                                         THEN "sweep_commit" ELSE "sweep_refund"]
    BY <1>8 DEF SweepRefund
  <2>2. /\ Moves(p) /\ task'[p].pc \in {"sweep_commit", "sweep_refund"}
        /\ task'[p].batch = task[p].batch /\ task'[p].ticket = task[p].ticket
    BY <1>1, <1>2, <2>1, RoleFacts DEF TaskOK, Locals, Labels, Moves
  <2> QED
    BY <1>1, <1>8, <2>2, PlainAdvance, OwnLabel
    DEF SweepRefund, At, SweepLabels, RowLabels, locks
<1>9. CASE SweepCommit(p) \/ SweepFails(p)
  <2>1. Moves(p) /\ task'[p].pc = "idle" /\ Unlock(p)
    BY <1>1, <1>9, RoleFacts, FinishMoves DEF SweepCommit, SweepFails
  <2> QED BY <1>1, <2>1, EndingAdvance, OwnLabel
<1> QED BY <1>3, <1>4, <1>5, <1>6, <1>7, <1>8, <1>9 DEF ReconcileHung

\* Collections and administrators lock nothing beyond a single statement.
LEMMA LocklessAdvances ==
    ASSUME IInv, RolesKept, NEW p \in Collectors \cup Admins,
           \/ p \in Collectors /\ ReconcileOrphans(p)
           \/ p \in Admins /\ Administer(p)
    PROVE  Advances(p)
<1>1. p \in Procs
  BY DEF Procs
<1>2. task[p].todo \in SUBSET Tickets
  BY <1>1, RoleFacts DEF TaskOK, Locals
<1>3. UNCHANGED rowLock /\ task[p].pc \notin RowLabels \cup SweepLabels
  BY DEF ReconcileOrphans, OrphanScan, OrphanQuery, OrphanRefund, Administer, CreateType,
         UpdateType, RefreshType, PublishInventory, DeleteType, RemoveInventory,
         locks, At, RowLabels, SweepLabels
<1>4. CASE Finish(p)
  <2>1. Moves(p) /\ task'[p].pc = "idle"
    BY <1>1, <1>4, RoleFacts, FinishMoves
  <2> QED BY <1>1, <1>3, <2>1, PlainAdvance, OwnLabel
<1>5. CASE p \in Collectors /\ ReconcileOrphans(p) /\ ~Finish(p)
  <2>1. PICK label \in CollectorLabels, s \in SUBSET Tickets :
          \/ task' = [task EXCEPT ![p].pc = label, ![p].todo = s]
          \/ task' = [task EXCEPT ![p].todo = s] /\ task[p].pc = label
    <3>1. CASE \E old \in SUBSET OldEnough : OrphanScan(p, old)
      <4>1. OldEnough \in SUBSET Tickets
        BY <1>1, RoleFacts DEF OldEnough, TypeOK, Database
      <4> QED BY <3>1, <4>1 DEF OrphanScan, CollectorLabels
    <3>2. CASE OrphanQuery(p)
      BY <1>2, <1>5, <3>2 DEF OrphanQuery, CollectorLabels
    <3>3. CASE OrphanRefund(p)
      <4>1. PICK t \in task[p].todo : task' = [task EXCEPT ![p].todo = @ \ {t}]
        BY <1>5, <3>3 DEF OrphanRefund
      <4>2. task' = [task EXCEPT ![p].todo = task[p].todo \ {t}]
        BY <4>1
      <4> QED BY <1>2, <3>3, <4>2 DEF OrphanRefund, CollectorLabels, At
    <3> QED BY <1>5, <3>1, <3>2, <3>3 DEF ReconcileOrphans
  <2>2. Moves(p) /\ task'[p].pc = label
    BY <1>1, <2>1, RoleFacts DEF TaskOK, Locals, Labels, CollectorLabels, Moves
  <2> QED BY <1>1, <1>3, <1>5, <2>2, PlainAdvance, OwnLabel
<1>6. CASE p \in Admins /\ Administer(p) /\ ~Finish(p)
  <2>1. Target[p] \in Types
    BY <1>6, BookingAssumption
  <2>2. PICK label \in AdminLabels, n \in Nat :
          Goto(p, label) \/ task' = [task EXCEPT ![p].pc = label, ![p].avail = n]
    <3>1. 0 \in Nat /\ {"create_refresh", "update_refresh", "set_inventory",
                        "del_inventory"} \subseteq AdminLabels
      BY DEF AdminLabels
    <3>2. CASE CreateType(p) \/ UpdateType(p) \/ DeleteType(p)
      BY <3>1, <3>2 DEF CreateType, UpdateType, DeleteType
    <3>3. CASE RefreshType(p)
      <4>1. /\ tickets_quantity[Target[p]] \in Nat
            /\ tickets_quantity[Target[p]] - tickets_sold[Target[p]] \in Nat
        BY <1>1, <2>1, LedgerFacts, RoleFacts DEF IInv, TypeOK
      <4> QED BY <1>6, <3>1, <3>3, <4>1 DEF RefreshType
    <3> QED BY <1>6, <3>2, <3>3 DEF Administer, PublishInventory, RemoveInventory
  <2>3. label \in Labels
    BY DEF Labels, AdminLabels
  <2>4. Moves(p) /\ task'[p].pc = label
    <3>1. CASE Goto(p, label)
      BY <1>1, <2>3, <3>1, RoleFacts, GotoMoves
    <3>2. CASE task' = [task EXCEPT ![p].pc = label, ![p].avail = n]
      BY <1>1, <2>3, <3>2, RoleFacts, ComputeMoves
    <3> QED BY <2>2, <3>1, <3>2
  <2> QED BY <1>1, <1>3, <1>6, <2>4, PlainAdvance, OwnLabel
<1> QED BY <1>4, <1>5, <1>6

LEMMA DbErrorAdvances ==
    ASSUME IInv, RolesKept, NEW p \in Procs, DbError(p)
    PROVE  Advances(p)
<1>1. task[p].ticket \in Tickets \cup {None}
  BY RoleFacts DEF TaskOK, Locals
<1>2. Moves(p) /\ task'[p].pc = "compensate"
  BY <1>1, RoleFacts, WorkMoves DEF DbError, Labels
<1> QED
  BY <1>2, EndingAdvance, OwnLabel DEF DbError, Rollback, BuyerLabels

\* Steps that leave every process and every lock alone.
LEMMA RolesFrame ==
    ASSUME RolesKept, UNCHANGED <<task, rowLock>> PROVE RolesKept'
BY DEF RolesKept, KeepsRole, OwnsRows

LEMMA RolesStep == IInv /\ RolesKept /\ [Next]_vars => RolesKept'
<1> SUFFICES ASSUME IInv, RolesKept, [Next]_vars PROVE RolesKept'
  OBVIOUS
<1>1. ASSUME NEW p \in Procs, Step(p) PROVE RolesKept'
  <2>1. CASE ReleaseSkip(p)
    BY <2>1, RolesFrame DEF ReleaseSkip, locks
  <2>2. CASE DeadlockAbort(p)
    BY <2>2, AbortAdvance, RolesOfOthers DEF DeadlockAbort
  <2> QED
    BY <1>1, <2>1, <2>2, BuyAdvances, CancelAdvances, PayAdvances, ReleaseAdvances,
       SweepAdvances, LocklessAdvances, RolesOfOthers
    DEF Step
<1>2. ASSUME NEW p \in Procs, DbError(p) \/ Crash(p) \/ TaskError(p) PROVE RolesKept'
  BY <1>2, AbortAdvance, DbErrorAdvances, RolesOfOthers DEF Crash, TaskError
<1>3. CASE (\E t \in Tickets : Expire(t)) \/ RedisRestart \/ UNCHANGED vars
  BY <1>3, RolesFrame DEF Expire, RedisRestart, vars, locks
<1> QED BY <1>1, <1>2, <1>3 DEF Next, Fault

LEMMA RolesInit == Init => RolesKept
<1>1. None \notin Procs
  BY BookingAssumption
<1> QED
  BY <1>1
  DEF Init, RolesKept, KeepsRole, OwnsRows, Idle, BuyerLabels, CancelerLabels,
      PayerLabels, ReleaserLabels, SweepLabels, CollectorLabels, AdminLabels

LEMMA RolesInvariant == Spec => []RolesKept
BY RolesInit, RolesStep, Invariance, PTL DEF Spec
-----------------------------------------------------------------------------
(* The theorem *)

\* Who waits with a lock in its hands, and for what.
LEMMA WaitingHolders ==
    ASSUME IInv, RolesKept, NEW p \in Procs, NEW q \in Procs, q \in WaitsFor(p)
    PROVE  /\ q # p
           /\ \/ At(p, "insert") \/ p \in Cancelers
              \/ At(p, "release_update") /\ \E tt \in Types : typeLock[tt] = q
              \/ At(p, "sweep_rows") /\ p \in Sweepers /\ \E t \in Tickets : rowLock[t] = q
              \/ At(p, "sweep_types") /\ p \in Sweepers /\ \E tt \in Types : typeLock[tt] = q
<1>1. At(p, "cancel_update") \/ At(p, "cancel_delete") => p \in Cancelers
  BY RoleFacts DEF At, KeepsRole, CancelerLabels
<1>2. At(p, "sweep_rows") \/ At(p, "sweep_types") => p \in Sweepers
  BY RoleFacts DEF At, KeepsRole, SweepLabels
<1>3. At(p, "release_update") => rowLock[task[p].ticket] = p
  BY DEF IInv, LockDiscipline, Holds, TicketHolds
<1> QED
  BY <1>1, <1>2, <1>3 DEF WaitsFor, WantedTypes, WantedTickets, At

\* Who is waited for: a type is held only by a delete or a sweep that waits.
LEMMA HeldWhileWaiting ==
    ASSUME IInv, RolesKept, NEW p \in Procs, WaitsFor(p) # {}, p \notin Cancelers
    PROVE  /\ \A tt \in Types : typeLock[tt] = p => p \in Sweepers /\ At(p, "sweep_types")
           /\ \A t \in Tickets :
                 rowLock[t] = p => \/ At(p, "release_update")
                                   \/ At(p, "sweep_rows") \/ At(p, "sweep_types")
<1>1. PICK q : q \in WaitsFor(p)
  OBVIOUS
<1>2. \/ At(p, "insert") \/ At(p, "cancel_update") \/ At(p, "cancel_delete")
      \/ At(p, "release_update") \/ At(p, "sweep_rows") \/ At(p, "sweep_types")
  BY <1>1 DEF WaitsFor, WantedTypes, WantedTickets
<1>3. ~At(p, "cancel_update") /\ ~At(p, "cancel_delete")
  BY RoleFacts DEF At, KeepsRole, CancelerLabels
<1>4. At(p, "sweep_rows") \/ At(p, "sweep_types") => p \in Sweepers
  BY RoleFacts DEF At, KeepsRole, SweepLabels
<1>5. \A tt \in Types : typeLock[tt] = p => task[p].pc \in TypeLockLabels
  BY DEF IInv, LockDiscipline, Holds
<1>6. At(p, "insert") => \A t \in Tickets : rowLock[t] # p
  BY RoleFacts DEF At, RowLabels, SweepLabels
<1> QED BY <1>2, <1>3, <1>4, <1>5, <1>6 DEF At, TypeLockLabels

LEMMA CyclesNeedADeleteOrTwoSweeps ==
    IInv /\ RolesKept => DeadlocksNeedADeleteOrTwoSweeps
<1> SUFFICES ASSUME IInv, RolesKept,
                    NEW S \in SUBSET {p \in Procs : WaitsFor(p) # {}},
                    S # {}, Deadlocked(S), S \cap Cancelers = {},
                    \A p, q \in S \cap Sweepers : p = q
             PROVE  FALSE
  BY DEF DeadlocksNeedADeleteOrTwoSweeps
<1>1. ASSUME NEW p \in S
      PROVE  p \in Procs /\ WaitsFor(p) # {} /\ p \notin Cancelers
  OBVIOUS
<1>2. ASSUME NEW p \in S
      PROVE  \E q \in S : q \in WaitsFor(p)
  BY DEF Deadlocked
<1>3. ASSUME NEW p \in S
      PROVE  ~At(p, "insert")
  <2>1. PICK q \in S : p \in WaitsFor(q)
    BY DEF Deadlocked
  <2>2. (\E tt \in Types : typeLock[tt] = p) \/ (\E t \in Tickets : rowLock[t] = p)
    BY <2>1 DEF WaitsFor, WantedTypes, WantedTickets
  <2> QED BY <1>1, <2>2, HeldWhileWaiting DEF At
<1>4. ASSUME NEW p \in S, ~At(p, "sweep_rows")
      PROVE  \E q \in S \cap Sweepers : q # p /\ At(q, "sweep_types")
  <2>1. PICK q \in S : q \in WaitsFor(p)
    BY <1>2
  <2>2. q # p /\ \E tt \in Types : typeLock[tt] = q
    BY <1>1, <1>3, <1>4, <2>1, WaitingHolders
  <2> QED BY <1>1, <2>2, HeldWhileWaiting
<1>5. PICK x \in S \cap Sweepers : TRUE
  <2>1. PICK p \in S : TRUE
    OBVIOUS
  <2>2. At(p, "sweep_rows") => p \in Sweepers
    BY <1>1, RoleFacts DEF At, KeepsRole, SweepLabels
  <2> QED BY <1>4, <2>1, <2>2
<1>6. CASE ~At(x, "sweep_rows")
  BY <1>4, <1>5, <1>6
<1>7. CASE At(x, "sweep_rows")
  <2>1. PICK q \in S : q # x /\ \E t \in Tickets : rowLock[t] = q
    BY <1>1, <1>2, <1>3, <1>5, <1>7, WaitingHolders DEF At
  <2>2. q \notin Sweepers
    BY <1>5, <2>1
  <2>3. ~At(q, "sweep_rows")
    BY <1>1, <2>2, RoleFacts DEF At, KeepsRole, SweepLabels
  <2>4. PICK r \in S \cap Sweepers : At(r, "sweep_types")
    BY <1>4, <2>3
  <2>5. r # x
    BY <1>7, <2>4 DEF At
  <2> QED BY <1>5, <2>4, <2>5
<1> QED BY <1>6, <1>7

(***************************************************************************)
(* Every deadlock that PostgreSQL can be asked to break, among requests    *)
(* and tasks in any number, has a delete in it (services/ticket.py:221) or *)
(* two sweeps that overlap (worker.py:137): buying, paying and releasing   *)
(* never deadlock among themselves, nor with a single sweep.               *)
(***************************************************************************)
THEOREM DeadlockPartners == Spec => []DeadlocksNeedADeleteOrTwoSweeps
BY Invariance, RolesInvariant, CyclesNeedADeleteOrTwoSweeps, PTL
=============================================================================
