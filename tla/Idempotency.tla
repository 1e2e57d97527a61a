---------------------------- MODULE Idempotency ----------------------------
(***************************************************************************)
(* The decorator @idempotent (api/decorators.py) around the endpoints that *)
(* create tickets, events and ticket types and that pay for a ticket, and  *)
(* the service it locks with (services/idempotency.py), for ONE Redis key: *)
(* one user, one action, one Idempotency-Key.  Different keys share nothing.*)
(*                                                                         *)
(* A request is one call of the wrapper; a client's retry is another       *)
(* request.  Every Redis command and every await of the endpoint is a step *)
(* of its own.  The endpoint itself is what the wrapper can tell of it:    *)
(* it raises, or it commits, and after committing it raises or returns.    *)
(***************************************************************************)
EXTENDS Integers, FiniteSets

CONSTANTS Requests,   \* calls of the wrapper with this key
          Payload,      \* the payload hash of each request
          Faults,     \* which of "ttl", "error" and "crash" happen
          NoRecord,   \* the key is not in Redis
          NoAnswer    \* the request has not returned a response

ASSUME IdempotencyAssumption ==
    /\ IsFiniteSet(Requests)
    /\ Payload \in [Requests -> STRING]
    /\ Faults \subseteq {"ttl", "error", "crash"}
    /\ NoRecord \notin [status : {"IN_PROGRESS", "COMPLETED"},
                        payload_hash : STRING, request : Requests]
    /\ NoAnswer \notin Requests

VARIABLES
    record,    \* the key in Redis, an IdempotencyRecord
    pc,        \* where each request is
    answer,    \* the request whose response a request returned to its client
    effects,   \* history: the requests whose endpoint committed
    lapses     \* history: records lost under a request that ran or had committed

vars == <<record, pc, answer, effects, lapses>>

(***************************************************************************)
(* request: in a COMPLETED record, whose response it stores; in an         *)
(* IN_PROGRESS record a history component, as the code stores no owner.    *)
(***************************************************************************)
IdempotencyRecord ==
    [status : {"IN_PROGRESS", "COMPLETED"},
     payload_hash : {Payload[r] : r \in Requests}, request : Requests]

InProgress(r) ==
    [status |-> "IN_PROGRESS", payload_hash |-> Payload[r], request |-> r]

Completed(r) ==
    [status |-> "COMPLETED", payload_hash |-> Payload[r], request |-> r]

Labels == {"start", "lookup", "endpoint", "committed", "unlock",
           "returned", "raised", "killed"}

TypeOK ==
    /\ record \in IdempotencyRecord \union {NoRecord}
    /\ pc \in [Requests -> Labels]
    /\ answer \in [Requests -> Requests \union {NoAnswer}]
    /\ effects \subseteq Requests
    /\ lapses \in Nat

Init ==
    /\ record = NoRecord
    /\ pc = [r \in Requests |-> "start"]
    /\ answer = [r \in Requests |-> NoAnswer]
    /\ effects = {}
    /\ lapses = 0

Goto(r, label) == pc' = [pc EXCEPT ![r] = label]

\* Requests the lock let through that have taken effect or still may.
IsAdmitted(r) == pc[r] \in {"endpoint", "committed"} \/ r \in effects
Admitted      == {r \in Requests : IsAdmitted(r)}

\* The key leaves Redis.  That is a lapse if its request is still at work or
\* has taken effect: the next request with the key starts afresh.
Lose ==
    /\ record' = NoRecord
    /\ lapses' = IF record # NoRecord /\ IsAdmitted(record.request)
                   THEN lapses + 1 ELSE lapses
-----------------------------------------------------------------------------
\* A lock taken with SET instead of SET NX.
CheckAndLock_Mutant(r) ==
    /\ pc[r] = "start"
    /\ record' = InProgress(r)
    /\ Goto(r, "endpoint")
    /\ UNCHANGED <<answer, effects, lapses>>

\* check_and_lock: SET NX EX takes the key, or finds it taken.
CheckAndLock(r) ==
    /\ pc[r] = "start"
    /\ \/ /\ record = NoRecord
          /\ record' = InProgress(r)
          /\ Goto(r, "endpoint")
       \/ /\ record # NoRecord
          /\ Goto(r, "lookup")
          /\ UNCHANGED record
    /\ UNCHANGED <<answer, effects, lapses>>

(***************************************************************************)
(* The connection fails during SET NX, before or after Redis has run it.   *)
(* check_and_lock is outside the wrapper's try: nobody unlocks the key.    *)
(***************************************************************************)
LockError(r) ==
    /\ pc[r] = "start"
    /\ \/ UNCHANGED record
       \/ record = NoRecord /\ record' = InProgress(r)
    /\ Goto(r, "raised")
    /\ UNCHANGED <<answer, effects, lapses>>

\* A replay that forgets to compare the payload hashes.
CanReplay_Mutant(r) ==
    record # NoRecord /\ record.status = "COMPLETED"

\* check_and_lock, after GET: a COMPLETED record of the same payload.
CanReplay(r) ==
    /\ record # NoRecord
    /\ record.payload_hash = Payload[r]
    /\ record.status = "COMPLETED"

(***************************************************************************)
(* check_and_lock: GET.  The record may be gone by now, or another one in  *)
(* its place; what cannot be replayed raises IdempotencyStateError or      *)
(* IdempotencyConflictError.                                               *)
(***************************************************************************)
Lookup(r) ==
    /\ pc[r] = "lookup"
    /\ \/ /\ CanReplay(r)
          /\ answer' = [answer EXCEPT ![r] = record.request]
          /\ Goto(r, "returned")
       \/ /\ ~CanReplay(r)
          /\ Goto(r, "raised")
          /\ UNCHANGED answer
    /\ UNCHANGED <<record, effects, lapses>>

\* The endpoint commits its transaction.
Commit(r) ==
    /\ pc[r] = "endpoint"
    /\ effects' = effects \union {r}
    /\ Goto(r, "committed")
    /\ UNCHANGED <<record, answer, lapses>>

(***************************************************************************)
(* The endpoint raises before it commits.  If it has rolled its session    *)
(* back, the User loaded in that session is expired, and reading user.id   *)
(* in the wrapper's except clause raises before unlock is called.          *)
(***************************************************************************)
Refuse(r) ==
    /\ pc[r] = "endpoint"
    /\ \/ Goto(r, "unlock")
       \/ Goto(r, "raised")
    /\ UNCHANGED <<record, answer, effects, lapses>>

\* A record without its payload_hash, which the schema lets default to None.
SaveResponse_Mutant(r) ==
    /\ pc[r] = "committed"
    /\ record' = [status |-> "COMPLETED", request |-> r]
    /\ answer' = [answer EXCEPT ![r] = r]
    /\ Goto(r, "returned")
    /\ UNCHANGED <<effects, lapses>>

(***************************************************************************)
(* The endpoint returns and save_response writes the record.  It is a SET  *)
(* without a condition: whatever the key holds by now is overwritten.      *)
(***************************************************************************)
SaveResponse(r) ==
    /\ pc[r] = "committed"
    /\ record' = Completed(r)
    /\ answer' = [answer EXCEPT ![r] = r]
    /\ Goto(r, "returned")
    /\ UNCHANGED <<effects, lapses>>

(***************************************************************************)
(* Something raises after the commit: enqueue_job or cache invalidation in *)
(* the endpoint, save_response itself, whose SET may have run, or the      *)
(* endpoint's refresh, which ends in a rollback (see Refuse).              *)
(***************************************************************************)
LateError(r) ==
    /\ pc[r] = "committed"
    /\ \/ /\ record' \in {record, Completed(r)}
          /\ Goto(r, "unlock")
       \/ /\ UNCHANGED record
          /\ Goto(r, "raised")
    /\ UNCHANGED <<answer, effects, lapses>>

\* unlock: a DEL without a condition, and the exception goes on.
Unlock(r) ==
    /\ pc[r] = "unlock"
    /\ Lose
    /\ Goto(r, "raised")
    /\ UNCHANGED <<answer, effects>>

\* unlock cannot reach Redis.
UnlockError(r) ==
    /\ pc[r] = "unlock"
    /\ Goto(r, "raised")
    /\ UNCHANGED <<record, answer, effects, lapses>>

\* The process dies or the task is cancelled: no except clause runs.
Kill(r) ==
    /\ pc[r] \in {"lookup", "endpoint", "committed", "unlock"}
    /\ Goto(r, "killed")
    /\ UNCHANGED <<record, answer, effects, lapses>>

\* A lock that was set without a time to live.
Expire_Mutant ==
    /\ record # NoRecord
    /\ record.status = "COMPLETED"
    /\ Lose
    /\ UNCHANGED <<pc, answer, effects>>

\* REDIS_TTL_SECONDS pass; nothing bounds how long an endpoint takes.
Expire ==
    /\ record # NoRecord
    /\ Lose
    /\ UNCHANGED <<pc, answer, effects>>

Call(r) ==
    \/ CheckAndLock(r) \/ Lookup(r) \/ Commit(r) \/ Refuse(r)
    \/ SaveResponse(r) \/ Unlock(r)

Error(r) == LockError(r) \/ LateError(r) \/ UnlockError(r)

\* Every call has ended and the key is free: nothing is left to do.
Done ==
    /\ \A r \in Requests : pc[r] \in {"returned", "raised", "killed"}
    /\ record = NoRecord \/ "ttl" \notin Faults
    /\ UNCHANGED vars

Next ==
    \/ \E r \in Requests : Call(r)
    \/ "error" \in Faults /\ \E r \in Requests : Error(r)
    \/ "crash" \in Faults /\ \E r \in Requests : Kill(r)
    \/ "ttl" \in Faults /\ Expire
    \/ Done

Spec == Init /\ [][Next]_vars

(***************************************************************************)
(* A call goes on until it ends, and Redis drops an expired key.           *)
(***************************************************************************)
FairSpec ==
    /\ Spec
    /\ \A r \in Requests : WF_vars(Call(r))
    /\ WF_vars("ttl" \in Faults /\ Expire)
-----------------------------------------------------------------------------
(***************************************************************************)
(* At most one endpoint runs or has taken effect for a key, plus one for   *)
(* every lapse: two executions of one key need a record that left Redis    *)
(* while its request still ran or after it had committed, by its time to   *)
(* live, by an unlock after a late error, or by the unlock of a request    *)
(* that no longer owned the key.  (check_and_lock, save_response, unlock)  *)
(***************************************************************************)
ExecutedOnce == Cardinality(Admitted) <= 1 + lapses

(***************************************************************************)
(* A replayed response is that of a call that committed, and that asked    *)
(* for the same thing: neither late saves nor foreign unlocks ever give a  *)
(* client the response of another payload or of a call without effect.     *)
(***************************************************************************)
ReplayIsFaithful ==
    \A r \in Requests :
        answer[r] # NoAnswer =>
            answer[r] \in effects /\ Payload[answer[r]] = Payload[r]

(***************************************************************************)
(* As long as no record has lapsed, a COMPLETED record is never replaced   *)
(* by another one: every retry in its time to live gets the same response, *)
(* although save_response overwrites without looking.                      *)
(***************************************************************************)
CompletedStays ==
    [][record # NoRecord /\ record.status = "COMPLETED" /\ record' # record
          => record' = NoRecord \/ lapses > 0]_vars

(***************************************************************************)
(* The decorator as the client sees it, without records and locks, is an   *)
(* at-most-once register up to lapses: what takes effect, and whose        *)
(* response each client gets, in which order.                              *)
(***************************************************************************)
Once == INSTANCE AtMostOnce WITH
            Calls <- Requests, executed <- effects, given <- answer
ImplementsOnce == Once!Spec

(***************************************************************************)
(* No key stays IN_PROGRESS for ever under one request, whether its        *)
(* process dies, its unlock fails or its rollback keeps unlock from being  *)
(* called: clients can use the key again (idempotency.py:127-130).         *)
(***************************************************************************)
KeyComesFree ==
    \A r \in Requests : record = InProgress(r) ~> record # InProgress(r)
=============================================================================
