-------------------------------- MODULE Api ---------------------------------
(***************************************************************************)
(* What surrounds the services: the endpoints of api/v1 and api/health.py  *)
(* with their dependencies (api/deps.py), the session of each request and  *)
(* the pool its connection comes from (db/session.py), the idempotent      *)
(* wrapper (api/decorators.py) as far as exceptions pass through it, and   *)
(* the handlers that turn exceptions into answers (main.py).               *)
(*                                                                         *)
(* A request runs through the steps of its endpoint.  Which exceptions a   *)
(* step may raise is known; which of them it raises is left open, since    *)
(* the data that decides it is the matter of the other modules.            *)
(***************************************************************************)
EXTENDS Naturals, FiniteSets

CONSTANTS Requests,   \* the requests there can be
          Offers,     \* for each request, the endpoints it may be for
          PoolSize,   \* connections of the pool (10 and an overflow of 10)
          Faults,     \* for each request, which of "connect" (opening a connection),
                      \* "database" and "redis" may fail
          None

-----------------------------------------------------------------------------
(***************************************************************************)
(* The steps of requests, in the order in which they are taken:            *)
(* auth: get_current_user (SQL); check: the schemas, then what is decided  *)
(* without an await; lock: the idempotency key (Redis); lookup: the gate   *)
(* or a cache (Redis); read (SQL); fill: the cache or the gate (Redis);    *)
(* write: flush (SQL); stage: the hash of reservations (Redis); commit and *)
(* refresh (SQL); publish: what follows the commit (Redis); save: the      *)
(* response under the key (Redis).                                         *)
(***************************************************************************)
Rank == [start |-> 0, auth |-> 1, check |-> 2, lock |-> 3, lookup |-> 4,
         read |-> 5, fill |-> 6, write |-> 7, stage |-> 8, commit |-> 9,
         refresh |-> 10, publish |-> 11, save |-> 12]

Sql   == {"auth", "read", "write", "commit", "refresh"}
Redis == {"lock", "lookup", "fill", "stage", "publish", "save"}

\* core/exception.py, by the handler of main.py that answers for each.
Unauthorized == {"InvalidCredentialsError", "InactiveUserError"}

\* No handler is registered for TicketTypeNotFoundError.
NotFound_Mutant == {"TicketNotFoundError", "EventNotFoundError"}

NotFound == {"TicketTypeNotFoundError", "TicketNotFoundError", "EventNotFoundError"}

Conflict ==
    {"TicketAlreadyPaidError", "IdempotencyStateError", "IdempotencyConflictError",
     "TicketTypeQuantity", "TicketTypeDeleteError", "EventDeleteError",
     "UserAlreadyExistsError", "TicketsSoldOutError"}

BadRequest == {"TicketReservationExpireError", "EmptyUpdateDataError"}

Unavailable == {"HealthError"}

\* HTTPException of deps.py, and the validation of FastAPI, carry a status.
Carried == {"HTTP 401", "HTTP 403", "RequestValidationError"}

Refusing == Unauthorized \union NotFound \union Conflict \union BadRequest
              \union Carried

\* What nothing handles.  A connection that cannot be opened is an OSError: only
\* what a connection answers is translated to an SQLAlchemyError.
Broken == {"SQLAlchemyError", "OSError", "RedisError"}

Exceptions == Refusing \union Unavailable \union Broken

\* The handlers, with those of the framework.
Handles(e, s) ==
    \/ s = 400 /\ e \in BadRequest
    \/ s = 401 /\ e \in Unauthorized \union {"HTTP 401"}
    \/ s = 403 /\ e = "HTTP 403"
    \/ s = 404 /\ e \in NotFound
    \/ s = 409 /\ e \in Conflict
    \/ s = 422 /\ e = "RequestValidationError"
    \/ s = 503 /\ e \in Unavailable

\* The handler of SQLAlchemyError answers as the framework does without one.
StatusOf(e) == IF \E s \in 400..503 : Handles(e, s)
                 THEN CHOOSE s \in 400..503 : Handles(e, s) ELSE 500
-----------------------------------------------------------------------------
(***************************************************************************)
(* The endpoints.  caller: who may call.  steps: those it takes; between a *)
(* lookup that hits and what follows a fill, none.  locks: the step whose  *)
(* SQL waits for a row that others may have locked.  refusals: what its    *)
(* service, or the endpoint itself, raises, and in which step.  breaks:    *)
(* the steps whose SQL PostgreSQL or the session rejects in a way that no  *)
(* service tells apart, and why: input, a value that the schemas let       *)
(* through and a column does not (an integer too large, a null, a NUL in a *)
(* text, the id of no event); race, a row that another request has deleted *)
(* or a constraint it has won; counter, a tickets_sold that is 0 already.  *)
(***************************************************************************)
create_event ==
    [caller |-> "superuser", success |-> 201, locks |-> "never",
     steps |-> {"auth", "check", "lock", "write", "commit", "publish", "save"},
     breaks |-> {<<"write", "input">>},
     refusals |-> {}]

get_event ==
    [caller |-> "anyone", success |-> 200, locks |-> "never",
     steps |-> {"check", "lookup", "read", "fill"},
     breaks |-> {<<"read", "input">>},
     refusals |-> {<<"read", "EventNotFoundError">>}]

get_events ==
    [caller |-> "anyone", success |-> 200, locks |-> "never",
     steps |-> {"check", "lookup", "read", "fill"},
     breaks |-> {<<"read", "input">>},
     refusals |-> {}]

ticket_type_get_all_for_event ==
    [caller |-> "anyone", success |-> 200, locks |-> "never",
     steps |-> {"check", "read"},
     breaks |-> {<<"read", "input">>},
     refusals |-> {}]

\* The repository turns the IntegrityError of its flush into EventDeleteError; a
\* ticket type that it has loaded and somebody else deletes is a StaleDataError.
delete_event ==
    [caller |-> "superuser", success |-> 204, locks |-> "write",
     steps |-> {"auth", "check", "read", "write", "commit", "publish"},
     breaks |-> {<<"read", "input">>, <<"write", "race">>},
     refusals |-> {<<"read", "EventNotFoundError">>, <<"write", "EventDeleteError">>}]

update_event ==
    [caller |-> "superuser", success |-> 200, locks |-> "write",
     steps |-> {"auth", "check", "read", "write", "commit", "publish"},
     breaks |-> {<<"read", "input">>, <<"write", "input">>, <<"write", "race">>},
     refusals |-> {<<"check", "EmptyUpdateDataError">>, <<"read", "EventNotFoundError">>}]

\* In write, the CHECK on tickets_sold is a refusal and the foreign key a race.
create_ticket ==
    [caller |-> "user", success |-> 201, locks |-> "write",
     steps |-> {"auth", "check", "lock", "lookup", "read", "fill", "write", "stage",
                "commit", "refresh", "publish", "save"},
     breaks |-> {<<"read", "input">>, <<"write", "race">>, <<"refresh", "race">>},
     refusals |-> {<<"lookup", "TicketsSoldOutError">>, <<"read", "TicketTypeNotFoundError">>,
                   <<"fill", "TicketsSoldOutError">>, <<"write", "TicketsSoldOutError">>}]

get_ticket ==
    [caller |-> "user", success |-> 200, locks |-> "never",
     steps |-> {"auth", "check", "read"},
     breaks |-> {<<"read", "input">>},
     refusals |-> {<<"read", "TicketNotFoundError">>}]

get_tickets ==
    [caller |-> "user", success |-> 200, locks |-> "never",
     steps |-> {"auth", "check", "read"},
     breaks |-> {<<"read", "input">>},
     refusals |-> {}]

\* The seat of a canceled ticket has left tickets_sold before: at 0, the CHECK.
delete_ticket ==
    [caller |-> "user", success |-> 204, locks |-> "write",
     steps |-> {"auth", "check", "read", "write", "commit", "publish"},
     breaks |-> {<<"read", "input">>, <<"write", "counter">>},
     refusals |-> {<<"read", "TicketNotFoundError">>}]

ticket_type_create ==
    [caller |-> "superuser", success |-> 201, locks |-> "commit",
     steps |-> {"auth", "check", "lock", "commit", "refresh", "publish", "save"},
     breaks |-> {<<"commit", "input">>, <<"commit", "race">>, <<"refresh", "race">>},
     refusals |-> {}]

ticket_type_get ==
    [caller |-> "anyone", success |-> 200, locks |-> "never",
     steps |-> {"check", "read"},
     breaks |-> {<<"read", "input">>},
     refusals |-> {<<"read", "TicketTypeNotFoundError">>}]

\* The service turns the IntegrityError of its commit into TicketTypeDeleteError;
\* a ticket that it has loaded and its owner deletes is a StaleDataError.
ticket_type_delete ==
    [caller |-> "superuser", success |-> 204, locks |-> "commit",
     steps |-> {"auth", "check", "read", "commit", "publish"},
     breaks |-> {<<"read", "input">>, <<"commit", "race">>},
     refusals |-> {<<"read", "TicketTypeNotFoundError">>,
                   <<"commit", "TicketTypeDeleteError">>}]

\* The quantity is compared with the tickets_sold that the refresh has read.
ticket_type_update_Mutant ==
    [caller |-> "superuser", success |-> 200, locks |-> "commit",
     steps |-> {"auth", "check", "read", "commit", "refresh", "publish"},
     breaks |-> {<<"read", "input">>, <<"commit", "input">>, <<"commit", "race">>,
                 <<"refresh", "race">>},
     refusals |-> {<<"read", "TicketTypeNotFoundError">>, <<"refresh", "TicketTypeQuantity">>}]

ticket_type_update ==
    [caller |-> "superuser", success |-> 200, locks |-> "commit",
     steps |-> {"auth", "check", "read", "commit", "refresh", "publish"},
     breaks |-> {<<"read", "input">>, <<"commit", "input">>, <<"commit", "race">>,
                 <<"refresh", "race">>},
     refusals |-> {<<"check", "EmptyUpdateDataError">>, <<"read", "TicketTypeNotFoundError">>,
                   <<"read", "TicketTypeQuantity">>}]

\* A payment that is never committed.
ticket_payment_Mutant ==
    [caller |-> "user", success |-> 201, locks |-> "read",
     steps |-> {"auth", "check", "lock", "read", "refresh", "publish", "save"},
     breaks |-> {<<"read", "input">>, <<"refresh", "race">>},
     refusals |-> {<<"read", "TicketNotFoundError">>, <<"read", "TicketAlreadyPaidError">>,
                   <<"read", "TicketReservationExpireError">>}]

\* The row is locked by the SELECT, FOR UPDATE, on which the refusals depend.
ticket_payment ==
    [caller |-> "user", success |-> 201, locks |-> "read",
     steps |-> {"auth", "check", "lock", "read", "commit", "refresh", "publish", "save"},
     breaks |-> {<<"read", "input">>, <<"refresh", "race">>},
     refusals |-> {<<"read", "TicketNotFoundError">>, <<"read", "TicketAlreadyPaidError">>,
                   <<"read", "TicketReservationExpireError">>}]

register_user ==
    [caller |-> "anyone", success |-> 201, locks |-> "commit",
     steps |-> {"check", "read", "commit", "refresh"},
     breaks |-> {<<"commit", "race">>},
     refusals |-> {<<"read", "UserAlreadyExistsError">>}]

login_for_access_token ==
    [caller |-> "anyone", success |-> 200, locks |-> "never",
     steps |-> {"check", "read"},
     breaks |-> {<<"read", "input">>},
     refusals |-> {<<"read", "InvalidCredentialsError">>, <<"read", "InactiveUserError">>}]

\* The old password is checked on the user that auth has loaded.
change_user_password ==
    [caller |-> "user", success |-> 200, locks |-> "commit",
     steps |-> {"auth", "check", "commit", "refresh"},
     breaks |-> {},
     refusals |-> {<<"check", "InvalidCredentialsError">>}]

\* SELECT 1, and PING.
readiness_probe ==
    [caller |-> "anyone", success |-> 200, locks |-> "never",
     steps |-> {"read", "fill"},
     breaks |-> {}, refusals |-> {}]

\* public_root and liveness_probe.
liveness_probe ==
    [caller |-> "anyone", success |-> 200, locks |-> "never",
     steps |-> {},
     breaks |-> {}, refusals |-> {}]

Endpoints ==
    {create_event, get_event, get_events, ticket_type_get_all_for_event, delete_event,
     update_event, create_ticket, get_ticket, get_tickets, delete_ticket,
     ticket_type_create, ticket_type_get, ticket_type_delete, ticket_type_update,
     ticket_payment, register_user, login_for_access_token, change_user_password,
     readiness_probe, liveness_probe}

ASSUME ApiAssumption ==
    /\ PoolSize \in Nat \ {0}
    /\ Offers \in [Requests -> SUBSET Endpoints]
    /\ None \notin Requests

\* get_current_user and get_current_superuser.
AuthRefusals(e) ==
    IF e.caller = "superuser" THEN {"HTTP 401", "HTTP 403"} ELSE {"HTTP 401"}

Refusals(e) ==
    e.refusals \union ({"auth"} \X AuthRefusals(e))
      \union {<<"check", "RequestValidationError">>,
              <<"lock", "IdempotencyStateError">>, <<"lock", "IdempotencyConflictError">>}
-----------------------------------------------------------------------------
VARIABLES request,    \* the endpoint each request is for
          state,      \* what becomes of it
          at,         \* the step it has done last
          key,        \* what it has done to its idempotency key, if it sent one
          connected,  \* requests whose session has a connection
          row,        \* the request that has the row lock others wait for
          committed,  \* history: requests whose transaction is committed
          expired,    \* requests whose session, rolled back, has expired its user
          raised,     \* the exception that a request is failing with
          caused,     \* history: what, other than a refusal, made it fail
          status      \* the status it is answered with

vars == <<request, state, at, key, connected, row, committed, expired, raised,
          caused, status>>

States == {"idle", "serving", "rollback", "unlock", "failed", "answered", "gone"}

Keys == {"none", "free", "held", "replayed", "saved"}

\* What does not lie in the request itself, or in the code that serves it.
Outside == {"connect", "database", "redis", "pool", "race"}

Causes == Outside \union {"input", "counter", "expired"}

Statuses == {0, 200, 201, 204, 400, 401, 403, 404, 409, 422, 500, 503}

TypeOK ==
    /\ request \in [Requests -> Endpoints \union {None}]
    /\ state \in [Requests -> States]
    /\ at \in [Requests -> DOMAIN Rank]
    /\ key \in [Requests -> Keys]
    /\ connected \subseteq Requests
    /\ IsFiniteSet(connected) /\ Cardinality(connected) <= PoolSize
    /\ row \in Requests \union {None}
    /\ committed \subseteq Requests
    /\ expired \subseteq Requests
    /\ raised \in [Requests -> Exceptions \union {"none"}]
    /\ caused \in [Requests -> SUBSET Causes]
    /\ status \in [Requests -> Statuses]

Init ==
    /\ request = [r \in Requests |-> None]
    /\ state = [r \in Requests |-> "idle"]
    /\ at = [r \in Requests |-> "start"]
    /\ key = [r \in Requests |-> "none"]
    /\ connected = {}
    /\ row = None
    /\ committed = {}
    /\ expired = {}
    /\ raised = [r \in Requests |-> "none"]
    /\ caused = [r \in Requests |-> {}]
    /\ status = [r \in Requests |-> 0]

\* Without a key, the wrapper only calls the endpoint.
Steps(r) == IF key[r] = "none" THEN request[r].steps \ {"lock", "save"}
                               ELSE request[r].steps

\* p is the step that r takes next.
Due(r, p) ==
    /\ state[r] = "serving"
    /\ p \in Steps(r)
    /\ Rank[at[r]] < Rank[p]
    /\ \A q \in Steps(r) : Rank[at[r]] < Rank[q] => Rank[p] <= Rank[q]

\* The SQL of p gets through: on a connection, and not behind a locked row.
Ready(r, p) ==
    /\ Due(r, p)
    /\ r \in connected
    /\ p = request[r].locks => row = None

Advance(r, p) == at' = [at EXCEPT ![r] = p]
Turn(r, s)    == state' = [state EXCEPT ![r] = s]
Hold(r, p)    == row' = IF p = request[r].locks THEN r ELSE row

\* COMMIT, ROLLBACK or close: locks end, the connection is the pool's again.
FreeRow(r) == row' = IF row = r THEN None ELSE row
Release(r) == connected' = connected \ {r} /\ FreeRow(r)

\* A refresh after the try.
RollsBack_Mutant(p, e) ==
    p \in {"write", "commit"} /\ e \notin {"EventDeleteError", "OSError"}

(***************************************************************************)
(* The services' except clauses roll back what SQL raises inside their     *)
(* try, and that is all they catch; the flush of delete_event has become   *)
(* an EventDeleteError by then, a SELECT is outside the try, and no clause *)
(* is for the OSError of a refresh that finds no connection any more.      *)
(***************************************************************************)
RollsBack(p, e) ==
    p \in {"write", "commit", "refresh"} /\ e \notin {"EventDeleteError", "OSError"}

(***************************************************************************)
(* Step p of request r raises e: next is the service's except clause, then *)
(* that of the wrapper, which has check_and_lock outside its try.  In the  *)
(* readiness probe every exception is a HealthError.                       *)
(***************************************************************************)
Raise(r, p, e, causes) ==
    /\ raised' = [raised EXCEPT ![r] =
                    IF request[r] = readiness_probe THEN "HealthError" ELSE e]
    /\ caused' = [caused EXCEPT ![r] = @ \union causes]
    /\ Turn(r, IF RollsBack(p, e) THEN "rollback"
               ELSE IF key[r] = "held" THEN "unlock" ELSE "failed")
-----------------------------------------------------------------------------
(***************************************************************************)
(* A request arrives, with a key or without one; the providers of deps.py  *)
(* give its service one session, which has no connection before its first  *)
(* SQL, and which every other dependency of the request shares.            *)
(***************************************************************************)
Receive(r) ==
    /\ state[r] = "idle"
    /\ \E e \in Offers[r], k \in {"none", "free"} :
          /\ k = "free" => "lock" \in e.steps
          /\ request' = [request EXCEPT ![r] = e]
          /\ key' = [key EXCEPT ![r] = k]
    /\ Turn(r, "serving")
    /\ UNCHANGED <<at, connected, row, committed, expired, raised, caused, status>>

\* A pool without a limit to its overflow.
Connect_Mutant(r) ==
    /\ \E p \in Sql : Due(r, p)
    /\ r \notin connected
    /\ connected' = connected \union {r}
    /\ UNCHANGED <<request, state, at, key, row, committed, expired, raised, caused, status>>

\* The first SQL of a transaction takes a connection from the pool.
Connect(r) ==
    /\ \E p \in Sql : Due(r, p)
    /\ r \notin connected
    /\ Cardinality(connected) < PoolSize
    /\ connected' = connected \union {r}
    /\ UNCHANGED <<request, state, at, key, row, committed, expired, raised, caused, status>>

\* SQL that belongs to a transaction, and the local checks.
Query(r) ==
    /\ \E p \in Sql \ {"commit"} : Ready(r, p) /\ Advance(r, p) /\ Hold(r, p)
    /\ UNCHANGED <<request, state, key, connected, committed, expired, raised, caused, status>>

Check(r) ==
    /\ Due(r, "check")
    /\ Advance(r, "check")
    /\ UNCHANGED <<request, state, key, connected, row, committed, expired, raised,
                   caused, status>>

\* What is still to be flushed, and the COMMIT; later SQL connects again.
Commit(r) ==
    /\ Ready(r, "commit")
    /\ Advance(r, "commit")
    /\ committed' = committed \union {r}
    /\ Release(r)
    /\ UNCHANGED <<request, state, key, expired, raised, caused, status>>

\* The gate may be open and the cache may hit: nothing to read and to fill.
CallRedis(r) ==
    /\ \/ Due(r, "lookup") /\ Advance(r, "fill")
       \/ \E p \in Redis \ {"lock", "save"} : Due(r, p) /\ Advance(r, p)
    /\ UNCHANGED <<request, state, key, connected, row, committed, expired, raised,
                   caused, status>>

\* check_and_lock: the key is this request's, or has a response to replay.
TakeKey(r) ==
    /\ Due(r, "lock")
    /\ \/ key' = [key EXCEPT ![r] = "held"] /\ Advance(r, "lock")
       \/ key' = [key EXCEPT ![r] = "replayed"] /\ Advance(r, "save")
    /\ UNCHANGED <<request, state, connected, row, committed, expired, raised,
                   caused, status>>

SaveResponse(r) ==
    /\ Due(r, "save")
    /\ key' = [key EXCEPT ![r] = "saved"]
    /\ Advance(r, "save")
    /\ UNCHANGED <<request, state, connected, row, committed, expired, raised,
                   caused, status>>

Served(r) == state[r] = "serving" /\ \A p \in Steps(r) : Rank[p] <= Rank[at[r]]

\* The response is sent while the session is still open.
Respond(r) ==
    /\ Served(r)
    /\ status' = [status EXCEPT ![r] = request[r].success]
    /\ Turn(r, "answered")
    /\ UNCHANGED <<request, at, key, connected, row, committed, expired, raised, caused>>

\* The response has been sent: get_db closes the session.
Close(r) ==
    /\ state[r] = "answered"
    /\ Release(r)
    /\ Turn(r, "gone")
    /\ UNCHANGED <<request, at, key, committed, expired, raised, caused, status>>
-----------------------------------------------------------------------------
\* The endpoint, its service or a dependency refuses the request.
Refuse(r) ==
    /\ state[r] = "serving"
    /\ \E refusal \in Refusals(request[r]) :
          LET p == refusal[1] IN
          /\ Due(r, p)
          /\ p \in Sql /\ refusal[2] # "HTTP 401" => Ready(r, p)
          /\ Hold(r, p)
          /\ Raise(r, p, refusal[2], {})
    /\ UNCHANGED <<request, at, key, connected, committed, expired, status>>

\* PostgreSQL or the session rejects the SQL: IntegrityError, DBAPIError,
\* StaleDataError or InvalidRequestError.
Break(r) ==
    /\ state[r] = "serving"
    /\ \E break \in request[r].breaks :
          LET p == break[1] IN
          /\ Ready(r, p)
          /\ Hold(r, p)
          /\ Raise(r, p, "SQLAlchemyError", {break[2]})
    /\ UNCHANGED <<request, at, key, connected, committed, expired, status>>

\* pool_timeout: no connection was returned for 10 seconds.
PoolTimeout(r) ==
    /\ r \notin connected
    /\ Cardinality(connected) = PoolSize
    /\ \E p \in Sql : Due(r, p) /\ Raise(r, p, "SQLAlchemyError", {"pool"})
    /\ UNCHANGED <<request, at, key, connected, row, committed, expired, status>>

\* The pool has room, but the connection that it opens, or opens again because the
\* ping on checkout has failed, is refused.
ConnectFails(r) ==
    /\ r \notin connected
    /\ Cardinality(connected) < PoolSize
    /\ \E p \in Sql : Due(r, p) /\ Raise(r, p, "OSError", {"connect"})
    /\ UNCHANGED <<request, at, key, connected, row, committed, expired, status>>

\* The database or a connection to it fails; a COMMIT may have gone through.
DatabaseFails(r) ==
    /\ r \in connected
    /\ \E p \in Sql :
          /\ Due(r, p)
          /\ Raise(r, p, "SQLAlchemyError", {"database"})
          /\ \/ UNCHANGED <<committed, row>>
             \/ /\ p = "commit" /\ Ready(r, p)
                /\ committed' = committed \union {r}
                /\ FreeRow(r)
    /\ UNCHANGED <<request, at, key, connected, expired, status>>

\* Redis fails, before or after it has run the command.
RedisFails(r) ==
    /\ \E p \in Redis :
          /\ Due(r, p)
          /\ Raise(r, p, "RedisError", {"redis"})
          /\ \/ UNCHANGED key
             \/ p = "lock" /\ key' = [key EXCEPT ![r] = "held"]
             \/ p = "save" /\ key' = [key EXCEPT ![r] = "saved"]
    /\ UNCHANGED <<request, at, connected, row, committed, expired, status>>
-----------------------------------------------------------------------------
(***************************************************************************)
(* The except clause of a service: rollback, which expires all that the    *)
(* session has loaded, the user too, although a COMMIT does not; and in    *)
(* create_ticket the INCR that returns the place, which may fail itself.   *)
(***************************************************************************)
Rollback(r) ==
    /\ state[r] = "rollback"
    /\ Release(r)
    /\ expired' = expired \union {r}
    /\ \/ UNCHANGED <<raised, caused>>
       \/ /\ "redis" \in Faults[r]
          /\ request[r] = create_ticket
          /\ raised' = [raised EXCEPT ![r] = "RedisError"]
          /\ caused' = [caused EXCEPT ![r] = @ \union {"redis"}]
    /\ Turn(r, IF key[r] = "held" THEN "unlock" ELSE "failed")
    /\ UNCHANGED <<request, at, key, committed, status>>

(***************************************************************************)
(* The except clause of the wrapper: user.id of an expired user needs SQL, *)
(* which an attribute cannot do (MissingGreenlet): unlock is not called.   *)
(***************************************************************************)
Unlock(r) ==
    /\ state[r] = "unlock"
    /\ \/ /\ r \in expired
          /\ raised' = [raised EXCEPT ![r] = "SQLAlchemyError"]
          /\ caused' = [caused EXCEPT ![r] = @ \union {"expired"}]
          /\ UNCHANGED key
       \/ /\ r \notin expired
          /\ key' = [key EXCEPT ![r] = "free"]
          /\ UNCHANGED <<raised, caused>>
       \/ /\ "redis" \in Faults[r]
          /\ r \notin expired
          /\ raised' = [raised EXCEPT ![r] = "RedisError"]
          /\ caused' = [caused EXCEPT ![r] = @ \union {"redis"}]
          /\ UNCHANGED key
    /\ Turn(r, "failed")
    /\ UNCHANGED <<request, at, connected, row, committed, expired, status>>

\* get_db without its except and finally.
Handle_Mutant(r) ==
    /\ state[r] = "failed"
    /\ status' = [status EXCEPT ![r] = StatusOf(raised[r])]
    /\ Turn(r, "gone")
    /\ UNCHANGED <<request, at, key, connected, row, committed, expired, raised, caused>>

\* get_db rolls back and closes the session; then a handler answers.
Handle(r) ==
    /\ state[r] = "failed"
    /\ status' = [status EXCEPT ![r] = StatusOf(raised[r])]
    /\ Release(r)
    /\ Turn(r, "gone")
    /\ UNCHANGED <<request, at, key, committed, expired, raised, caused>>

Serve(r) ==
    \/ Connect(r) \/ Query(r) \/ Check(r) \/ Commit(r) \/ CallRedis(r)
    \/ TakeKey(r) \/ SaveResponse(r) \/ Respond(r) \/ Close(r)
    \/ Rollback(r) \/ Unlock(r) \/ Handle(r)

Fail(r) ==
    \/ Refuse(r) \/ Break(r) \/ PoolTimeout(r)
    \/ "connect" \in Faults[r] /\ ConnectFails(r)
    \/ "database" \in Faults[r] /\ DatabaseFails(r)
    \/ "redis" \in Faults[r] /\ RedisFails(r)

\* All requests there can be are answered.
Quiet == (\A r \in Requests : state[r] = "gone") /\ UNCHANGED vars

Next ==
    \/ \E r \in Requests : Receive(r) \/ Serve(r) \/ Fail(r)
    \/ Quiet

Spec == Init /\ [][Next]_vars

(***************************************************************************)
(* A request that can go on does: the event loop runs every task that is   *)
(* ready, and SQL and Redis commands return.  Nobody need ever time out.   *)
(***************************************************************************)
FairSpec == Spec /\ \A r \in Requests : WF_vars(Serve(r))
-----------------------------------------------------------------------------
Ended(r) == state[r] \in {"answered", "gone"}

(***************************************************************************)
(* A refusal (4xx) is final and harmless: nothing of the request has been  *)
(* committed, on whatever step it was refused, and its idempotency key is  *)
(* neither locked by it nor answered, so that it can be sent again.        *)
(***************************************************************************)
RefusalsChangeNothing ==
    \A r \in Requests : Ended(r) /\ status[r] \in 400..499 =>
        r \notin committed /\ key[r] \notin {"held", "saved"}

(***************************************************************************)
(* A success (2xx) of an endpoint that changes something is committed, or  *)
(* replays a response; with a key, the response is saved for retries.      *)
(***************************************************************************)
SuccessesAreDurable ==
    \A r \in Requests : Ended(r) /\ status[r] \in 200..299 =>
        /\ request[r].success \in {201, 204} \/ request[r].locks # "never" =>
              r \in committed \/ key[r] = "replayed"
        /\ key[r] \in {"none", "replayed", "saved"}

(***************************************************************************)
(* Every exception of core/exception.py has a handler, so that a 5xx has   *)
(* some other cause; and when the request has committed, a cause outside   *)
(* of it.  A 5xx that the request alone brings about (an input that the    *)
(* schemas let through, the ticket whose seat was returned before, the     *)
(* expired user of Unlock) has committed nothing.                          *)
(***************************************************************************)
ServerErrorsHaveACause ==
    \A r \in Requests : Ended(r) /\ status[r] >= 500 =>
        /\ caused[r] # {}
        /\ r \in committed => caused[r] \intersect Outside # {}

(***************************************************************************)
(* A request that has committed, and is answered with a 5xx all the same,  *)
(* is executed again by a retry if its key is free.  It takes an outage to *)
(* get there: Redis fails after the COMMIT, or the connection that the     *)
(* refresh needs cannot be opened.  When the refresh fails otherwise (the  *)
(* pool is exhausted, the row is gone, the database fails on it) the key   *)
(* stays locked.                                                           *)
(***************************************************************************)
OnlyOutagesReopenAKey ==
    \A r \in Requests :
        Ended(r) /\ status[r] >= 500 /\ r \in committed /\ key[r] = "free" =>
            caused[r] \intersect {"redis", "connect"} # {}

(***************************************************************************)
(* While a response is being sent, the session of the request is still     *)
(* open, and has a connection perhaps, but nobody waits for its rows.      *)
(***************************************************************************)
SlowClientsBlockNobody == \A r \in Requests : state[r] = "answered" => row # r

(***************************************************************************)
(* Requests wait for a connection with no row locked, and for a row with a *)
(* connection: all are answered, and what they had comes back, also when   *)
(* an exception leaves a locked row to get_db.                             *)
(***************************************************************************)
EveryRequestIsAnswered ==
    \A r \in Requests : state[r] = "serving" ~> state[r] = "gone"
=============================================================================
