# TicketCore: formal verification

TLA+ models of the booking system in this repository, the TLC runs that
model-check them on small instances, and theorems about them that TLAPS has
checked for every value of their constants. The models are written from the
code under `src/src`; paths below are relative to the repository (`src/...` is
the Python package).

Contents: [the system](#the-system) · [modules](#the-modules) ·
[how state and actions correspond to the code](#state-and-actions) ·
[runs](#the-runs) · [fairness](#fairness) · [theorems](#the-theorems) ·
[where code and documentation disagree](#where-code-and-documentation-disagree) ·
[not modelled](#what-is-not-modelled) · [plan](#plan)

## The system

FastAPI processes and arq workers, any number of each, over one PostgreSQL
database and one Redis server with two databases: 0 for the API's inventory,
cache and idempotency keys, 1 for the arq queue and for everything the worker
does through `ctx["redis"]`. Within a process, coroutines interleave at every
`await`; between processes everything interleaves.

| Component | State it keeps | Operations | Hard behaviour | What makes it correct |
|---|---|---|---|---|
| Reservation and cancellation (`services/ticket.py`) | `tickets`, `ticket_types.tickets_sold`; inventory counter and active-reservation hash in Redis; queued jobs | `create`, `delete` | two stores without a common transaction; a `delete` that neither locks nor looks at the status; errors after the commit | the counter of sold tickets accounts for every seat; the gate never admits more than there is; a ghost lock is found |
| Payment (`services/payment.py`) | `tickets.status`, active hash | `pay_for_ticket` | race with the release job, the sweep and deletes at the deadline | what `FOR UPDATE` read still holds at the commit; SOLD never goes back |
| Worker (`worker.py`) | ticket status, `tickets_sold`, inventory, canceled set | `release_unpaid_ticket` (job), `reconcile_hung_tickets`, `reconcile_redis_orphans` (cron) | refund before commit; batches that fail as a whole; lost jobs; grace period; lock order | each slot comes back once, every expired reservation is released, deadlocks stop nobody |
| Redis scripts (`core/redis_keys.py`, and inline in `services/ticket.py`) | the keys above | gate, plain and guarded INCR, idempotent refund, versioned list keys | each is atomic, sequences of them are not | see their users |
| Ticket types (`services/ticket_type.py`) | `ticket_types`, inventory key, event cache | `create`, `update`, `delete` | resize and delete under live reservations; inventory SET from a stale copy | foreign key and CHECKs keep the ledger whatever the interleaving |
| Event catalogue (`services/event.py`, `repositories/event.py`) | `events`; `event_static`, list pages and list version in Redis | `get`, `get_all`, `create`, `update`, `delete` | readers that fill the cache late; invalidations that get lost; the version's initialisation | a list shows every write whose bump came first; the cache converges |
| Idempotency (`api/decorators.py`, `services/idempotency.py`) | one record per user, action and key, with a time to live | `check_and_lock`, `save_response`, `unlock` | lock that expires under a slow call; unlock and save without a condition; errors after the commit | executions are bounded by the lapses of the record; replays are faithful; keys come free |
| Accounts (`services/auth.py`, `api/v1/auth.py`, `create_superuser.py`) | `users` | `register`, `authenticate`, `change_password`, `create_superuser` | check-then-insert on the email; a password checked and written on a copy loaded earlier; a failure after the commit | the unique index; one account per email; answers that tell what was stored |
| HTTP API (`api/v1`, `api/health.py`, `api/deps.py`, `db/session.py`, `main.py`) | the session and connection of each request, the pool; the exception under way | 21 endpoints; dependencies; rollback and close; exception handlers | a pool that runs out halfway through a request; exceptions that pass three except clauses; sessions that outlive the response | a 4xx changed nothing, a 2xx is committed, a 5xx after a COMMIT is somebody else's doing; only outages free the key of a committed request; everybody is answered |
| Metrics, logging, configuration | none that the program reads back | | | |

How they interact. An endpoint calls one service method inside one database
session (`db/session.py`), which is rolled back when the request fails.
`@idempotent` wraps the endpoints that create tickets, events and ticket types
and the payment endpoint. `TicketService.create` enqueues
`release_unpaid_ticket`, deferred by the reservation time; cron starts each of
the two reconciliations every five minutes. Ticket-type and event writes
invalidate the event cache. Tickets and ticket types share rows, and row locks,
with every request and task that handles them.

## The modules

| Module | What it is |
|---|---|
| `TicketLedger` | The abstract specification: what PostgreSQL promises about tickets and counters, one committed transaction at a time |
| `RedisKeys` | Redis commands and Lua scripts of booking, as operators on a database |
| `Booking` | Requests, tasks, row locks, deadlock aborts, Redis, faults: every await a step. Composes `RedisKeys`, and implements `TicketLedger` |
| `AtMostOnce` | The abstract specification of one idempotency key: effects, responses, lapses |
| `Idempotency` | The decorator and its service for one key, await by await. Implements `AtMostOnce` |
| `EventCache` | The read-aside event cache and its invalidations |
| `Accounts` | The table of users: signups, the superuser script, logins, changes of password |
| `Api` | Every endpoint from its dependencies to its answer: session, pool, idempotency key, exceptions and their handlers |
| `TicketLedgerProofs`, `BookingProofs`, `IdempotencyProofs`, `EventCacheProofs`, `AccountsProofs`, `ApiProofs` | Theorems and proofs, each about the module it is named after |
| `DeadlockProofs`, `GateProofs` | More theorems about `Booking`, on top of `BookingProofs`: who can be in a deadlock; the gate and the record of canceled tickets |
| `MCTicketLedger`, `MCBooking`, `MCIdempotency`, `MCEventCache`, `MCAccounts`, `MCApi` | Instances for TLC |

`Idempotency` and `EventCache` touch none of the state of `Booking`: their keys
are their own, and what a wrapped endpoint or an event write does to tickets is
not theirs to see. They are therefore modules of their own and not composed. `Api`
lies across all of them: it leaves open what the services decide, which the
other modules model, and keeps what those leave out, the way of a request and
its exception through the layers around a service.

Operators whose names end in `_Mutant` are mistakes that the code could have
made. No specification uses them; put in the place of the operator they are
named after, each makes TLC find a violation of some property, which shows that
the property is about the code and not about the model.

## State and actions

### Booking

`status`, `tickets_sold`, `tickets_quantity` are the committed rows, with one
exception: a row inserted by a transaction that has not committed is `DRAWN`,
and `VOID` for ever once that transaction has rolled back, because a sequence
never hands out an id twice. Other uncommitted changes are kept by the process
that will commit them: its program counter says what it is about to write, and
the row lock it holds says that nobody else can. `CommitTicket`, `CancelDelete`,
`PayCommit`, `ReleaseCommit` and `SweepCommit` are the commits; the steps before
them check the CHECK constraints at the statement where PostgreSQL does.

`typeLock` and `rowLock` are row locks; a transaction that waits is one whose
step is not enabled. `DeadlockAbort` is PostgreSQL choosing a victim among the
members of a cycle. `redis` has the API's and the worker's database as two
records, which are one record when `ApiDb = WorkerDb`. `jobs` is the arq queue:
a crashed worker's job is still in it, a job that raised is not.

Each operation is the disjunction named after it in the module's sections
(`Buy`, `Cancel`, `Pay`, `ReleaseUnpaid`, `ReconcileHung`, `ReconcileOrphans`,
`Administer`), one action for each stretch of code between two awaits on
PostgreSQL or Redis. Some awaits are merged because nothing can come between
that anybody would notice: UPDATE and INSERT in `create` (the UPDATE holds the
lock), DELETE and COMMIT in `delete`, SELECT and UPDATE of one's own locked row.
Errors that change nothing (sold out, not found, already paid) are stuttering.

Faults: `crash` (the process dies, or the request ends in an exception no except
branch compensates), `db_error` (SQLAlchemyError in the flush, commit or refresh
of `create`), `task_error` (a release job raises; arq does not run it again),
`slow_commit` (an insert may outlast the 60 s grace period of the orphan
collection), `redis_restart` (Redis loses its data, both databases and the
queue). `MaxFaults` bounds how many happen.

History variables, read by properties only: `excess` counts decrements of
`tickets_sold` that took no seat away, `inflated` the units that `create` handed
back to the gate for a reservation that had committed.

### TicketLedger

The projection of that to what is committed. Its actions are whole transactions
(`Reserve`, `Pay`, `Release`, `Cancel`, `Resize`) with the CHECK constraints and
the foreign key as guards. It is where overselling is talked about: `Balanced`
says that live tickets are `tickets_sold + excess`.

### Idempotency

One Redis record, requests that go `start` → `lookup` or `endpoint` →
`committed` → `returned`, `unlock` or `raised`. The endpoint is abstracted to
what the wrapper can tell of it: it raises (`Refuse`), it commits (`Commit`), it
raises after that (`LateError`), it returns and the response is saved
(`SaveResponse`). `Expire` is the time to live; nothing relates it to how long
an endpoint takes, because nothing in the code does. A `raised` without `unlock`
is the except clause failing on an expired `user.id` after a rollback
(`decorators.py:104`; sessions expire their objects on rollback whatever
`expire_on_commit` says). In `AtMostOnce` only effects, responses and lapses are
left: `Commit` is its `Execute`, `SaveResponse` and a replaying `Lookup` are its
`Respond`. `lapses`, a history variable, counts records that left
Redis while their request ran or after it had committed.

### EventCache

One event and one page of the list; what a response shows is the number of the
last commit it includes. Keys are 0 for `event_static` and `v` for the page under
list version `v`. Readers follow `CachedEventRepository.get` and `get_all` await
by await: `GetVersion`, `InitVersion`, `Lookup`, `Query`, `Fill`. Writers commit,
then DEL (`DeleteKey`), then INCR (`Bump`); update and delete of events and every
write of ticket types are `update` or `delete`, writes to another event `create`.
`bumped` remembers the last commit whose INCR has reached Redis, `rewound` that
the version has gone back.

### Accounts

A call is a request to `/auth`, or a run of `create_superuser.py`; it goes from
await to await: `CheckEmail` or `CheckSuperuser`, then `InsertUser`, then
`RefreshUser`; `GetCurrentUser`, then `ChangePassword`, then `RefreshUser`;
`Authenticate` is one SELECT. What a client types is an `Emails` and a
`Passwords`; `Lower` and `Strip` are what `UserCreate` and `PasswordChange` make
of it, and what the login form does not. `change_password` does not read the user
again: `session.get` answers with the object that `get_current_user` has loaded
into the same session, and the UPDATE writes the one column that was assigned
(`seen`, `Update`). An INSERT or UPDATE is one step with the COMMIT that
follows, because a second INSERT of the same email, or UPDATE of the same row,
waits for it. `DbError` includes a COMMIT that went through before the
connection broke. `past`, `committed`, `failed` and the `after` of a call are
history.

### Api

An endpoint is a record: who may call it, the steps it takes, what it refuses
with and where, which SQL of it waits for a row lock, and which SQL PostgreSQL
or the session can reject without its service noticing the difference to an
outage (`breaks`), each with its reason: `input` (a value that the schemas let
through and a column does not: an explicit null, the id of no event, an integer
too large), `race` (a row that somebody else has deleted, a constraint somebody
else has won), `counter` (the DELETE of a CANCELED ticket at `tickets_sold` 0
fails the CHECK). A request is at a step of its endpoint (`at`)
and becomes `serving` → `answered` → `gone`, or `serving` → `rollback` (the
service's except clause) → `unlock` (the wrapper's) → `failed` (`get_db`, then
the handler) → `gone`. `Connect` is the first SQL of a transaction, which takes
a connection from the pool; COMMIT, ROLLBACK and close give it back, so that the
refresh after a COMMIT needs another one. What a connection answers is an
SQLAlchemyError, and so is the timeout of the pool (`DatabaseFails`,
`PoolTimeout`); a connection that cannot be opened (`ConnectFails`) is a plain
OSError, which no service catches, so that nothing is rolled back there, the user
does not expire, and the wrapper unlocks the key. `Respond` comes before `Close`:
FastAPI leaves a dependency with `yield` after the response is sent.

One row, locked by whoever runs the SQL named in `locks`, stands for all row
locks, the worst case for waiting; which rows and which cycles there are is the
matter of `Booking`, from where it is known that PostgreSQL resolves them.
`replayed` is a key under which a response was found. `Unlock` fails on a user
that a rollback has expired, as in `Idempotency`; here it is known when that is:
after the services' except clauses, which roll back, and therefore also for a
buyer with a key whom the CHECK of the database tells that the tickets are sold
out (the answer is a 500 then, not the 409 of the gate). The causes in `caused`
and the set `committed` are history.

## The runs

All constants named in the configurations are bounds; the ones that matter:

| Run | Instance | What it shows |
|---|---|---|
| `ledger` | 3 tickets of one type with 0 to 2 seats, one of another; created, resized, deleted | `Balanced`, `NoOversellWithoutExcess`, `RowsHaveTypes`, `NeverRevived`: three tickets for two seats is the smallest instance that can be oversold, and a release can take two of them at once |
| `transactions` | one buyer, payer, canceler, release job, sweep and collector over 2 tickets; one fault of any of four kinds; API and worker on two Redis databases as deployed | `LockDiscipline`, `DeadlocksNeedADeleteOrTwoSweeps`, `ImplementsLedger`: every pair, and every triple, of the operations meets on one ticket. There is one sweep, so that every deadlock must have a delete in it; overlapping sweeps are the theorem's |
| `gate` | 2 buyers, 2 deletes, a release job, 3 tickets for 2 seats, one crash or database error, warm inventory key | `GateNeverOverAdmits`: with `delete` incrementing and failed requests compensating, the gate stays on the safe side |
| `admin` | 2 buyers, a delete and an administrator; the type does not exist at first | `TicketsHaveTypes`, `ImplementsLedger` through cold starts, creation, resizes and deletion under live requests |
| `live` | a buyer, a delete, a release job and a sweep over 3 tickets of two types, one job that may fail, under fairness | `HungReleasedUnlessExcess`, `CallsEnd`: the excess of one type holds up the sweep for both, nothing else does; deadlocks between the delete's lock order and the tasks' delay but stop nobody |
| `recover` | a buyer, a release job, a sweep and a collector on ONE Redis database; a crash, a failed job or a slow insert; under fairness | `RefundedOnce`, `HungReleased`, `GhostsReclaimed`: the reconciliation design itself, where it can reach the data it is for |
| `idempotency` | a call, a retry and a call with another payload; time to live, errors, crashes at every step | `ExecutedOnce`, `CompletedStays`, `ImplementsOnce` (faithful replays included), `KeyComesFree` |
| `cache` | a reader of the event and one of the list, each any number of times; an update, a delete and a create; aborts at every step, one Redis restart; versions up to 4 | `CurrentListIsFresh`, `ListsShowBumpedWrites`, `CacheConverges` |
| `accounts` | three calls of any kind with two spellings of one address and three passwords, on no account or one; database errors, deactivation | `OneAccountPerMailbox`, `RegistrationsAreDecided`, `AnswersMatchEffects`, `NewAccountsCanLogIn`, `PasswordsAreProved`, `AccountsKeepTheirIdentity` |
| `api` | one request for any endpoint, with failures of PostgreSQL, of Redis and of opening a connection at any step, beside a delete and a readiness probe; two connections and one row; under fairness | `RefusalsChangeNothing`, `SuccessesAreDurable`, `ServerErrorsHaveACause`, `OnlyOutagesReopenAKey`, `SlowClientsBlockNobody`, `EveryRequestIsAnswered` |
| `oversell`, `refund_deployed` | | violated on purpose: see [below](#where-code-and-documentation-disagree) |

Why the bounds are enough. The properties relate at most two tickets of a type
and two or three processes that handle them; ids, processes and pages are
interchangeable. A process serves call after call, so one buyer is any number of
buyers one after the other. Tickets are never reused, so their number bounds the
length of a history: 2 tickets are one reservation with another one before or
after it. Version 4 is the highest that the three writers can reach. The
theorems below take away the bounds for the safety properties they state. In
`accounts` two calls race for an email and a third one finds what they leave; two
spellings and a padded password are all that `Lower` and `Strip` can tell apart.
In `api`, requests meet in the pool and at the row only; with two connections for
three requests one is always too many, and the request that waits for the row can
have the last connection.

`live` starts later than the other runs (`LaterSpec`): a ticket of the second type
has been canceled by its job, another one is reserved and due. From `Init`, the
same history would take more tickets and states than liveness checking allows;
`NeverLater`, given
to TLC as an invariant of `Spec`, is violated, which shows that the start is one
the system reaches. From there a delete of the canceled ticket makes the excess
of the second type, while the job of a ticket of the first one may be lost: the
property is violated when it excuses the ticket's own type only.

`gate` starts with a warm key on purpose: a cold key is warmed from a value read
before the SET, and the gate then may over-admit (a hazard the code accepts,
because the CHECK of the database refuses the surplus, which is what
`ImplementsLedger` checks in `admin`). `recover` has no Redis restart, since
after one the canceled set is gone and `RefundedOnce` has nothing to rest on;
`transactions` has it, for the database must stay right all the same.

Deadlock in TLC's sense is checked in every run. A state in which nobody has
anything to do, like a booking system between two requests, is modelled by an
explicit stuttering disjunct (`Quiet` in `Booking`, `Done` in `Idempotency`), so
that a process stuck with work left to do still counts as deadlock.

## Fairness

Nobody is obliged to send a request, to pay or to delete, and no fault is
obliged to happen. What is fair:

- a request or task that has begun goes on (weak fairness of its next step): the
  event loop runs every ready coroutine;
- a row lock that becomes free again and again is granted to each waiter (strong
  fairness of the steps that wait): PostgreSQL queues the waiters of a row;
- due jobs run, and cron starts the sweep and the collection again and again
  (strong fairness, as a slot that is busy now is idle later): arq polls its
  queue, `worker.py:242-245` schedules the two reconciliations;
- a collection sees, every so often, all entries that are past the grace period:
  an entry stays in the hash, with its timestamp, until somebody removes it;
- time passes: reservations expire, and Redis drops keys past their time to live;
- in `Api`, a request that can take its next step, failing or not, takes it (weak
  fairness of `Serve`). It needs no timeout of the pool and no strong fairness,
  since nobody comes back for a connection or the row for ever: each request ends.

Stated in `Fairness` of `Booking` and in `FairSpec` of the other modules.

## The theorems

Each module of proofs shows an inductive invariant `IInv` in one lemma per
action. All theorems are for any finite set of tickets, and any numbers of
types, processes, requests, readers and writers, and use only the `ASSUME` of
the module they are about, which TLC evaluates in every run. The exceptions are
the theorems of `GateProofs`, which say in their own `ASSUME` that Redis keeps
its data, and one of them that there are no administrators.

**TicketLedger.** `Inv == TypeOK /\ Capacity /\ Balanced`. `Balanced` is
inductive with types alone, but overselling needs the CHECK constraint
(`Capacity`): live tickets = sold + excess ≤ quantity + excess.
`LedgerNeverRevived` is an action property; `LedgerRowsHaveTypes` rests on
`Reserve` needing a type with room and `Resize` to 0 needing a type without rows.

**Booking.** `IInv == TypeOK /\ LockDiscipline /\ L!Inv /\ CatalogOK`, with `L`
the ledger seen through `Committed`. The argument is rely/guarantee.
`Holds(p)` says what process `p` relies on between the statement that locked a
row and its commit (a release job: its ticket is RESERVED, it has both locks,
`tickets_sold` is above 0). `Respects(p)` says that a step of `p` changes
nothing that another process has locked. Lemma `Interference` shows that
`Respects(p)` preserves everybody else's `Holds`, so that the lemma of each
action has to deal with one process only. The refinement falls out of the same
lemmas: a commit is a step of the ledger because its `Holds` gives the ledger
action's guard, and everything else leaves `Committed` alone. `NoOversell` and
`ReferentialIntegrity` are then properties of the ledger, carried over.

**Deadlocks.** `DeadlockPartners`, for any number of processes of each kind:
every cycle of waiting transactions contains a delete or two sweeps. A member of
a cycle holds a lock that another one waits for. A create waits only for the type,
before it holds anything; a payment and a collector never wait with a lock in
their hands; what is left is deletes, release jobs (which hold a ticket and wait
for a type) and sweeps. Release jobs alone do not close a cycle, since none of
them holds a type while it waits, and a single sweep does not wait for itself.
For this each row lock has to be traced to the process and the label that took it,
which is the invariant `RolesKept` (`KeepsRole`: a label belongs to one kind of
process; `OwnsRows`: a process locks the ticket it handles and those of its batch).
`transactions` has one sweep; the theorem is where the second one shows
(see [below](#where-code-and-documentation-disagree)).

**The gate.** `Covered(tt)` is a balance: the units on the counter, those in the
hands of requests (`Held`) and those a delete has yet to put back (`Owed`) are at
most the unsold seats, plus the units handed back for reservations that had
committed (`inflated`), plus, should API and worker share a database, one for
each ticket refunded and not, or not yet, canceled (`Advanced`; empty as
deployed). `Claim` is the part of the balance that a step can change: a step moves
one process, and at most one ticket, from one side to the other, and lemmas
`CoverStays` and `GateInvStep` reduce each action to that one process. Only the
commit of a sweep moves a whole batch; there the seats given back are counted
against the batch, which by then is all in the canceled set.

| Theorem | Assumes | Says |
|---|---|---|
| `CanceledTicketsAreRecorded` | no Redis restart | a ticket that is CANCELED is in the worker's canceled set |
| `GateOfUntouchedTypes` | no Redis restart | `Covered` for every type that no administrator works on |
| `GateIsSafe` | and no administrators | `GateNeverOverAdmits` |

They hold in either wiring, the deployed one and that of one database for all,
with deletes, crashes, deadlock aborts, failed jobs, slow inserts and database
errors. Why Redis must keep its data, and administrators stay away: a key that is
not there from the start, that Redis loses or that an administrator writes is SET
from a row read earlier, so that units taken in between are back on sale
(`ticket.py:83`, `ticket_type.py:207`); other types may be created, resized and
deleted at will.

The invariants are `RecordInv` and `GateInv`. `RecordInv` says what a release job
or a sweep has put into the canceled set by the time it commits (`Recorded`): the
refund comes before the commit, so whatever ends a task in between leaves a ticket
that is recorded and not canceled, never the other way round. A second refund of a
recorded ticket adds nothing, and the only refund that adds a unit is one of a
ticket that thereby becomes `Advanced`; this is the step where the gate's proof
needs the record. `GateInv` adds that key and row are those of the start (`Warm`).

**Idempotency.** The invariant is an account: `Cardinality(Admitted)` is at most
`lapses`, plus one while the record belongs to an admitted request. A request
gets in only when there is no record (nobody is covered), and a record leaves
only through `Lose`, which counts. `CompletedStays` follows because a second
admitted request without a lapse would break the account. `AtMostOnceUpToLapses`
is the refinement of `AtMostOnce`: the account has room for the effect of a call
that is about to commit, since that call is among the admitted ones and has had no
effect yet (`EffectsComeFirst`). `RetriesAgree` is what a client gains by it.

**EventCache.** `IInv` adds to the two properties what makes them inductive, as
long as the version has not gone back: nothing is cached or read under a version
yet to come (`VersionsInUse`), a page on its way into the current version
includes all that was bumped (`FillsAreFresh`), and serves whoever is about to
read it (`FillsServeReaders`).

**Accounts.** `IInv` relates every call to its row: a copy loaded by a session
has a password that the account has had (`Waiting`), whoever has committed finds
its row still there, with its email and rights (`Lasting`), an answer says what
was stored (`Settled`), and no two registrations own one row (`OwnersDiffer`).
`MailboxesAreUnique` rests on the unique index alone (`Free` in `Store`),
whatever the checks before it have seen.

**Api.** Two lemmas are about tables: `Table` goes through all endpoints once
(whoever locks a row or promises 201 or 204 has a COMMIT, nothing is refused
after it), `Answers` through the handlers. Everything else is about the order of
steps. The invariant is one formula about a request (`Fine`), and lemma `Others`
shows once that a step of one request cannot disturb it for another. All steps
that raise go through one lemma (`Raising`), all that advance through another.
The theorems hold for any number of requests and any size of the pool.

Only model-checked: what is temporal and needs fairness (`HungReleased`,
`HungReleasedUnlessExcess`, `CallsEnd`, `GhostsReclaimed`, `KeyComesFree`,
`CacheConverges`, `EveryRequestIsAnswered`), which TLAPS does not reach, and
`RefundedOnce`. That one is an account of one Redis database without deletes, and
`recover` is an instance of it: a delete, and the except branches of `create` that
a database error takes, increment the counter without a mark in the canceled set,
so that nobody could tell a second refund from the first. Of the deployed wiring,
and with deletes, `GateIsSafe` and `CanceledTicketsAreRecorded` are what is
proved. Every other invariant and every action property of a passing run is
stated by a theorem.

## Where code and documentation disagree

Two runs end in a counterexample to a sentence of the repository.

- `oversell` — "absolutely zero overselling" (README.md, section 5). Two deletes
  of one ticket both read it, both decrement `tickets_sold`, and both commit; the
  row is gone once, two seats are free, and a type of two ends with three live
  tickets. What the code keeps is `NoOversellWithoutExcess`, which is proved.
- `refund_deployed` — a release "increments the available inventory"
  (worker.py:61-62). The worker's Redis database is 1, the gate's is 0; the refund
  increments nothing. With one database for both, `RefundedOnce` holds.

Further gaps show as the condition under which a property holds.

- The sweep cancels "any tickets that remained in 'RESERVED' status past the
  expiration threshold" (worker.py:122-125). That is `HungReleased`, which holds
  in `recover`, without deletes. After a delete of a CANCELED ticket `tickets_sold`
  is below the live tickets, the sweep's UPDATE fails its CHECK, and so does every
  later sweep. A sweep is one transaction for all types, so that the tickets of
  other types are not released either, unless their own jobs do it: with deletes
  only `HungReleasedUnlessExcess` holds, which excuses the excess of any type.
- "Strictly-once execution" (README.md, section 3) is at most one execution plus
  one for every lapse of the record: `ExecutedOnce`. An error after the endpoint's
  commit, for instance, deletes the key, and the retry commits again.
  `OnlyOutagesReopenAKey` says when: Redis fails, or the connection for the refresh
  cannot be opened. Other failures of the database roll back, and the wrapper then
  fails to unlock.
- `main.py` answers a sold-out type with 409, and what the schemas should have
  refused with 422. A 500 is possible nevertheless: for a request with a key that
  the CHECK refuses (its user has expired), for an input that only a column
  refuses, for the delete of a CANCELED ticket at `tickets_sold` 0.
  `ServerErrorsHaveACause` names these causes and says that none of them fails a
  request after its COMMIT.
- `release_unpaid_ticket` and `delete` lock in opposite orders, and so can two
  sweeps: `reconcile_hung_tickets` locks its tickets and then their types in no
  order of their ids (worker.py:137-160), so that two that overlap can block each
  other. It takes a sweep that outlasts the five minutes between two of them;
  PostgreSQL aborts one, which leaves its batch to the next sweep.
- "Cast email string to lowercase" (schemas/user.py) is done at signup, not at
  login: `NewAccountsCanLogIn` holds for what was stored, not for what was typed.

## What is not modelled

Passwords are stored and compared as themselves and tokens name their account:
hashing and JWT are pure functions. Metrics, logging and configuration are not
read back by the program. Of the schemas, only that they may refuse with a 422,
and what they do to emails and passwords of accounts; routing (404 and 405 for
unknown URLs), response validation and the failure of sending a response are the
framework's. Opening and closing pools at startup and shutdown, the 1000
connections to Redis are left out; a pre-ping shows as the connection that it fails
to replace (`ConnectFails`). Wall-clock time is not modelled:
time is the events it causes (expiry of a reservation, of a record, of a cached
key, of the grace period, of the wait for a connection). Deployment files,
migrations and load tests are not part of the running program. Within the
modelled parts: prices, names and pagination; owners (a request for somebody
else's ticket finds nothing); the corrupted-record branch of `check_and_lock`, as
nothing writes a record the schema refuses; a payload whose hash collides.

## Plan

Done: ledger, booking with all its tasks and administrators, idempotency, event
cache, accounts, the API around the services; the theorems above, which state
every safety property of the runs but `RefundedOnce`. Next, in this order:

1. How far a gate warmed from the database can over-admit: a bound by the units
   taken between the SELECT and the SET.
2. Freshness of the static event key: state and prove how stale it can be, as a
   bound by the readers that were filling when the DEL ran.
3. `Idempotency` composed with `Booking`'s `create`, so that the two executions
   of a lapsed key are two reservations of the ledger.
