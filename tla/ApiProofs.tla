------------------------------ MODULE ApiProofs ------------------------------
(***************************************************************************)
(* Theorems about Api, for any number of requests and any size of the      *)
(* pool.  The table of endpoints enters through one lemma (Table); from    *)
(* there on only the order of the steps counts (Order).  No step of a      *)
(* request touches what belongs to another one (Leaves), so that the       *)
(* invariant is one formula about a request (Fine).                        *)
(***************************************************************************)
EXTENDS Api, TLAPS, FiniteSetTheorems

\* What the steps have to do with each other is their order.
LEMMA Order ==
    /\ DOMAIN Rank = {"start"} \union Sql \union Redis \union {"check"}
    /\ \A p \in DOMAIN Rank : Rank[p] \in 0..12
    /\ \A p, q \in DOMAIN Rank : Rank[p] = Rank[q] => p = q
    /\ Rank["start"] = 0 /\ Rank["auth"] = 1 /\ Rank["check"] = 2
    /\ Rank["lock"] = 3 /\ Rank["lookup"] = 4 /\ Rank["read"] = 5
    /\ Rank["fill"] = 6 /\ Rank["write"] = 7 /\ Rank["stage"] = 8
    /\ Rank["commit"] = 9 /\ Rank["refresh"] = 10 /\ Rank["publish"] = 11
    /\ Rank["save"] = 12
BY DEF Rank, Sql, Redis

\* The steps in which a request is refused, and the exceptions that refuse it.
Early == {"auth", "check", "lock", "lookup", "read", "fill", "write", "commit"}

\* What the proofs use of the endpoints: none refuses after its COMMIT, no input
\* breaks one after its COMMIT, and whoever locks a row, or promises 201 or 204,
\* has a COMMIT.
LEMMA Table ==
    ASSUME NEW e \in Endpoints
    PROVE  /\ Refusals(e) \subseteq Early \X Refusing
           /\ e.steps \subseteq DOMAIN Rank
           /\ \A break \in e.breaks :
                 /\ break[1] \in Sql /\ break[2] \in Causes
                 /\ break[1] \in {"read", "write", "commit"} \/ break[2] = "race"
           /\ e.locks \in {"never", "read", "write", "commit"}
           /\ e.success \in {200, 201, 204}
           /\ e.success \in {201, 204} \/ e.locks # "never" => "commit" \in e.steps
           /\ "lock" \in e.steps <=> "save" \in e.steps
           /\ e = readiness_probe => e.steps = {"read", "fill"} /\ e.refusals = {}
<1> USE DEF Endpoints, create_event, get_event, get_events, ticket_type_get_all_for_event,
        delete_event, update_event, create_ticket, get_ticket, get_tickets, delete_ticket,
        ticket_type_create, ticket_type_get, ticket_type_delete, ticket_type_update,
        ticket_payment, register_user, login_for_access_token, change_user_password,
        readiness_probe, liveness_probe
<1>1. e.refusals \subseteq Early \X Refusing
  BY DEF Early, Refusing, Unauthorized, NotFound, Conflict, BadRequest
<1>2. e.steps \subseteq DOMAIN Rank
  BY Order DEF Sql, Redis
<1>3. e = readiness_probe => e.steps = {"read", "fill"} /\ e.refusals = {}
  OBVIOUS
<1>4. e.success \in {201, 204} \/ e.locks # "never" => "commit" \in e.steps
  OBVIOUS
<1>5. /\ e.locks \in {"never", "read", "write", "commit"}
      /\ e.success \in {200, 201, 204}
  OBVIOUS
<1>8. \A break \in e.breaks :
         /\ break[1] \in {"read", "write", "commit", "refresh"}
         /\ break[2] \in {"input", "counter", "race"}
         /\ break[1] \in {"read", "write", "commit"} \/ break[2] = "race"
  OBVIOUS
<1>6. "lock" \in e.steps <=> "save" \in e.steps
  OBVIOUS
<1>7. Refusals(e) \subseteq Early \X Refusing
  <2> HIDE DEF Endpoints
  <2>1. AuthRefusals(e) \subseteq Refusing
    BY DEF AuthRefusals, Refusing, Carried
  <2>2. {"IdempotencyStateError", "IdempotencyConflictError", "RequestValidationError"}
          \subseteq Refusing
    BY DEF Refusing, Conflict, Carried
  <2> QED BY <1>1, <2>1, <2>2 DEF Refusals, Early
<1> QED BY <1>1, <1>2, <1>3, <1>4, <1>5, <1>6, <1>7, <1>8 DEF Sql, Causes, Outside

\* How exceptions are answered.
LEMMA Answers ==
    /\ \A e \in Refusing : StatusOf(e) \in {400, 401, 403, 404, 409, 422}
    /\ \A e \in Broken : StatusOf(e) = 500
    /\ StatusOf("HealthError") = 503
    /\ Exceptions = Refusing \union {"HealthError"} \union Broken
<1>1. ASSUME NEW e \in Refusing
      PROVE  \E s \in 400..503 : Handles(e, s)
  <2>1. CASE e \in Unauthorized \union {"HTTP 401"}
    <3> WITNESS 401 \in 400..503
    <3> QED BY <2>1 DEF Handles
  <2>2. CASE e \in NotFound
    <3> WITNESS 404 \in 400..503
    <3> QED BY <2>2 DEF Handles
  <2>3. CASE e \in Conflict
    <3> WITNESS 409 \in 400..503
    <3> QED BY <2>3 DEF Handles
  <2>4. CASE e \in BadRequest
    <3> WITNESS 400 \in 400..503
    <3> QED BY <2>4 DEF Handles
  <2>5. CASE e = "HTTP 403"
    <3> WITNESS 403 \in 400..503
    <3> QED BY <2>5 DEF Handles
  <2>6. CASE e = "RequestValidationError"
    <3> WITNESS 422 \in 400..503
    <3> QED BY <2>6 DEF Handles
  <2> QED BY <2>1, <2>2, <2>3, <2>4, <2>5, <2>6 DEF Refusing, Carried
<1>2. ASSUME NEW e \in Refusing, NEW s \in 400..503, Handles(e, s)
      PROVE  s \in {400, 401, 403, 404, 409, 422}
  <2>1. e \notin Unavailable
    BY DEF Refusing, Unauthorized, NotFound, Conflict, BadRequest, Carried, Unavailable
  <2> QED BY <1>2, <2>1 DEF Handles
<1>3. \A e \in Refusing : StatusOf(e) \in {400, 401, 403, 404, 409, 422}
  BY <1>1, <1>2 DEF StatusOf
<1>4. StatusOf("HealthError") = 503
  <2>1. Handles("HealthError", 503)
    BY DEF Handles, Unavailable
  <2>2. ASSUME NEW s \in 400..503, Handles("HealthError", s)
        PROVE  s = 503
    BY <2>2 DEF Handles, Unauthorized, NotFound, Conflict, BadRequest
  <2> QED BY <2>1, <2>2 DEF StatusOf
<1>5. ASSUME NEW e \in Broken
      PROVE  StatusOf(e) = 500
  <2>1. ASSUME NEW s \in 400..503, Handles(e, s)
        PROVE  FALSE
    BY <2>1 DEF Handles, Broken, Unauthorized, NotFound, Conflict, BadRequest, Unavailable
  <2> QED BY <2>1 DEF StatusOf
<1>6. Exceptions = Refusing \union {"HealthError"} \union Broken
  BY DEF Exceptions, Unavailable
<1> QED BY <1>3, <1>4, <1>5, <1>6
-----------------------------------------------------------------------------
\* What a wrapper that frees the key of a committed request has seen.
Outage(r) == caused[r] \intersect {"redis", "connect"} # {}

Failing(r) == state[r] \in {"rollback", "unlock", "failed"}

\* What holds of a request that is not for any endpoint yet, or is for one.
Known(r) ==
    /\ state[r] = "idle" =>
         /\ r \notin committed /\ r \notin expired /\ r \notin connected /\ row # r
         /\ at[r] = "start" /\ key[r] = "none" /\ caused[r] = {}
    /\ state[r] # "idle" =>
         /\ request[r] \in Endpoints
         /\ key[r] # "none" => "lock" \in request[r].steps
         /\ r \in committed => "commit" \in request[r].steps
         /\ row = r => request[r].locks # "never"

\* What holds between the steps of a request.
Serving(r) ==
    state[r] = "serving" =>
        /\ r \notin expired
        /\ r \in committed => Rank[at[r]] >= 9
        /\ "commit" \in request[r].steps /\ Rank[at[r]] >= 9 =>
             r \in committed \/ key[r] = "replayed"
        /\ row = r => Rank[at[r]] \in 5..8
        /\ key[r] = "free" => Rank[at[r]] < 3
        /\ key[r] = "held" => Rank[at[r]] < 12
        /\ key[r] \in {"saved", "replayed"} => Rank[at[r]] = 12

\* What holds while an exception is on its way.
Raised(r) ==
    Failing(r) =>
        /\ raised[r] \in Exceptions
        /\ raised[r] \in Refusing \/ caused[r] # {}
        /\ r \in committed => raised[r] \in Broken /\ caused[r] \intersect Outside # {}
        /\ r \in committed /\ key[r] = "free" => Outage(r)
        /\ state[r] = "unlock" /\ r \in committed => r \in expired \/ Outage(r)
        /\ state[r] = "rollback" => key[r] # "saved"
        /\ state[r] = "unlock" => key[r] # "none"
        /\ state[r] = "failed" /\ key[r] \in {"held", "saved"} => raised[r] \in Broken

\* What holds of an answer.
Answered(r) ==
    Ended(r) =>
        /\ status[r] \in 400..499 => r \notin committed /\ key[r] \notin {"held", "saved"}
        /\ status[r] \in 200..299 =>
             /\ request[r].success \in {201, 204} \/ request[r].locks # "never" =>
                   r \in committed \/ key[r] = "replayed"
             /\ key[r] \in {"none", "replayed", "saved"}
        /\ status[r] >= 500 =>
             /\ caused[r] # {}
             /\ r \in committed => caused[r] \intersect Outside # {}
             /\ r \in committed /\ key[r] = "free" => Outage(r)
        /\ row # r

Fine(r) == Known(r) /\ Serving(r) /\ Raised(r) /\ Answered(r)

IInv == TypeOK /\ \A r \in Requests : Fine(r)

\* A step of another request leaves q alone; it may only unlock the row.
Leaves(q) ==
    /\ request'[q] = request[q] /\ state'[q] = state[q] /\ at'[q] = at[q]
    /\ key'[q] = key[q] /\ raised'[q] = raised[q] /\ caused'[q] = caused[q]
    /\ status'[q] = status[q]
    /\ q \in committed' <=> q \in committed
    /\ q \in expired' <=> q \in expired
    /\ q \in connected' <=> q \in connected
    /\ row' = q => row = q

LEMMA Others ==
    ASSUME NEW q \in Requests, Fine(q), Leaves(q)
    PROVE  Fine(q)'
<1>1. Known(q)'
  BY DEF Fine, Known, Leaves
<1>2. Serving(q)'
  BY DEF Fine, Serving, Leaves
<1>3. Raised(q)'
  BY DEF Fine, Raised, Leaves, Failing, Outage
<1>4. Answered(q)'
  BY DEF Fine, Answered, Leaves, Ended, Outage
<1> QED BY <1>1, <1>2, <1>3, <1>4 DEF Fine

\* So a step keeps the invariant if it keeps the part of its own request.
LEMMA Step ==
    ASSUME IInv, NEW r \in Requests, TypeOK', Fine(r)', \A q \in Requests \ {r} : Leaves(q)
    PROVE  IInv'
BY Others DEF IInv

\* The next step of a request, and what it has to do with the COMMIT.
LEMMA DueStep ==
    ASSUME IInv, NEW r \in Requests, NEW p, Due(r, p)
    PROVE  /\ state[r] = "serving" /\ p \in Steps(r) /\ p \in DOMAIN Rank
           /\ request[r] \in Endpoints /\ p \in request[r].steps
           /\ at[r] \in DOMAIN Rank /\ Rank[at[r]] < Rank[p]
           /\ Rank[p] \in 0..12 /\ Rank[at[r]] \in 0..12
           /\ key[r] \in {"none", "free", "held"}
           /\ key[r] = "free" => Rank[p] <= 3
           /\ key[r] = "none" => p \notin {"lock", "save"}
           /\ r \in committed => Rank[p] > 9
           /\ "commit" \in request[r].steps /\ Rank[p] > 9 => r \in committed
<1>1. state[r] = "serving" /\ request[r] \in Endpoints /\ at[r] \in DOMAIN Rank
  BY DEF Due, IInv, Fine, Known, TypeOK
<1>2. request[r].steps \subseteq DOMAIN Rank /\ ("lock" \in request[r].steps <=> "save" \in request[r].steps)
  BY <1>1, Table
<1>3. p \in Steps(r) /\ p \in request[r].steps /\ p \in DOMAIN Rank
      /\ Rank[at[r]] < Rank[p] /\ Rank[p] \in 0..12 /\ Rank[at[r]] \in 0..12
  BY <1>1, <1>2, Order DEF Due, Steps
<1>4. key[r] \in {"none", "free", "held"}
  BY <1>1, <1>3 DEF IInv, Fine, Serving, TypeOK, Keys
<1>5. key[r] = "free" => Rank[p] <= 3
  <2> SUFFICES ASSUME key[r] = "free" PROVE Rank[p] <= 3
    OBVIOUS
  <2>1. "lock" \in Steps(r) /\ Rank[at[r]] < Rank["lock"]
    BY <1>1, Order DEF IInv, Fine, Known, Serving, Steps
  <2> QED BY <2>1, Order DEF Due
<1>6. r \in committed => Rank[p] > 9
  BY <1>1, <1>3 DEF IInv, Fine, Serving
<1>7. "commit" \in request[r].steps /\ Rank[p] > 9 => r \in committed
  <2> SUFFICES ASSUME "commit" \in request[r].steps, Rank[p] > 9 PROVE r \in committed
    OBVIOUS
  <2>1. "commit" \in Steps(r)
    BY DEF Steps
  <2>2. Rank[at[r]] >= 9
    BY <1>3, <2>1, Order DEF Due
  <2> QED BY <1>1, <1>4, <2>2 DEF IInv, Fine, Serving
<1> QED BY <1>1, <1>3, <1>4, <1>5, <1>6, <1>7 DEF Steps
-----------------------------------------------------------------------------
\* Closing a session gives its connection back.
LEMMA Releasing ==
    ASSUME TypeOK, NEW r
    PROVE  /\ connected \ {r} \subseteq Requests /\ IsFiniteSet(connected \ {r})
           /\ Cardinality(connected \ {r}) <= PoolSize
<1>1. Cardinality(connected) \in Nat /\ Cardinality(connected \ {r}) \in Nat
      /\ IsFiniteSet(connected \ {r}) /\ Cardinality(connected \ {r}) <= Cardinality(connected)
  BY FS_Subset, FS_CardinalityType DEF TypeOK
<1> QED BY <1>1, ApiAssumption DEF TypeOK

\* A refusal is raised before a COMMIT, a failure has a cause.
Refused(r, p, e, causes) ==
    /\ e \in Refusing /\ p \in Early /\ causes = {} /\ request[r] # readiness_probe
    /\ Hold(r, p)
    /\ UNCHANGED <<committed, key>>

\* Of a request that has committed, what fails is the refresh.
SqlFailed(r, p, e, causes) ==
    /\ p \in Sql /\ causes # {}
    /\ \/ e = "SQLAlchemyError"
       \/ e = "OSError" /\ causes = {"connect"} /\ UNCHANGED committed
    /\ \/ \E cause \in causes : cause \in Outside
       \/ p \in Early /\ UNCHANGED committed
    /\ UNCHANGED key
    /\ \/ UNCHANGED committed
       \/ p = "commit" /\ committed' = committed \union {r}
    /\ UNCHANGED row \/ Hold(r, p) \/ FreeRow(r)

RedisFailed(r, p, e, causes) ==
    /\ e = "RedisError" /\ p \in Redis /\ causes = {"redis"}
    /\ UNCHANGED <<committed, row>>
    /\ \/ UNCHANGED key
       \/ p = "lock" /\ key' = [key EXCEPT ![r] = "held"]
       \/ p = "save" /\ key' = [key EXCEPT ![r] = "saved"]

LEMMA Raising ==
    ASSUME IInv, NEW r \in Requests, NEW p, NEW e, NEW causes \in SUBSET Causes,
           Due(r, p), Raise(r, p, e, causes),
           UNCHANGED <<request, at, connected, expired, status>>,
           Refused(r, p, e, causes) \/ SqlFailed(r, p, e, causes) \/ RedisFailed(r, p, e, causes)
    PROVE  IInv'
<1> DEFINE Next_ == IF RollsBack(p, e) THEN "rollback"
                    ELSE IF key[r] = "held" THEN "unlock" ELSE "failed"
<1>1. /\ state' = [state EXCEPT ![r] = Next_]
      /\ Next_ \in {"rollback", "unlock", "failed"}
      /\ Next_ = "unlock" => key[r] = "held" /\ ~ RollsBack(p, e)
      /\ Next_ = "rollback" => p \in {"write", "commit", "refresh"}
      /\ Next_ = "failed" => key[r] # "held"
  BY DEF Raise, Turn, RollsBack
<1> HIDE DEF Next_
<1>2. /\ state[r] = "serving" /\ p \in DOMAIN Rank
      /\ request[r] \in Endpoints /\ p \in request[r].steps
      /\ key[r] \in {"none", "free", "held"}
      /\ key[r] = "free" => Rank[p] <= 3
      /\ r \in committed => Rank[p] > 9
  BY DueStep
<1>3. e \in Exceptions /\ e \in Refusing \union Broken
  BY Answers DEF Refused, SqlFailed, RedisFailed, Broken
<1>4. /\ raised' = [raised EXCEPT ![r] = raised'[r]]
      /\ raised'[r] \in {e, "HealthError"}
      /\ request[r] # readiness_probe => raised'[r] = e
      /\ caused' = [caused EXCEPT ![r] = caused[r] \union causes]
  BY DEF Raise, IInv, TypeOK
<1>5. raised'[r] \in Exceptions
  BY <1>3, <1>4, Answers
<1>6. request[r] = readiness_probe => "lock" \notin request[r].steps /\ "commit" \notin request[r].steps
  BY <1>2, Table
<1>7. /\ Rank[p] \in 0..12
      /\ p = "commit" => Rank[p] = 9
      /\ p \in Early => Rank[p] <= 9
      /\ p \in Sql /\ Rank[p] > 9 => p = "refresh"
      /\ p = "lock" \/ p = "save" \/ p \notin {"lock", "save"}
  BY <1>2, Order DEF Early, Sql
<1>8. key' = [key EXCEPT ![r] = key'[r]] /\ key'[r] \in Keys
      /\ (key'[r] # key[r] => p \in {"lock", "save"} /\ key'[r] \in {"held", "saved"})
  BY <1>2 DEF Refused, SqlFailed, RedisFailed, Keys, IInv, TypeOK
<1>9. /\ committed' \subseteq Requests
      /\ r \in committed' => r \in committed \/ (p = "commit" /\ SqlFailed(r, p, e, causes))
      /\ committed' \ {r} = committed \ {r}
  BY DEF Refused, SqlFailed, RedisFailed, IInv, TypeOK
<1>10. /\ row' \in Requests \union {None}
       /\ row' = r => row = r \/ p = request[r].locks
       /\ \A q \in Requests \ {r} : row' = q => row = q
  BY ApiAssumption DEF Refused, SqlFailed, RedisFailed, Hold, FreeRow, IInv, TypeOK
<1>11. TypeOK'
  <2>1. state' \in [Requests -> States] /\ caused' \in [Requests -> SUBSET Causes]
    BY <1>1, <1>4 DEF IInv, TypeOK, States
  <2>2. raised' \in [Requests -> Exceptions \union {"none"}] /\ key' \in [Requests -> Keys]
    BY <1>4, <1>5, <1>8 DEF IInv, TypeOK
  <2> QED BY <2>1, <2>2, <1>9, <1>10 DEF IInv, TypeOK
<1>12. Known(r)'
  <2>1. state'[r] # "idle" /\ request'[r] = request[r]
    BY <1>1 DEF IInv, TypeOK
  <2>2. key'[r] # "none" => "lock" \in request[r].steps
    BY <1>2, <1>8, Table DEF IInv, Fine, Known
  <2>3. r \in committed' => "commit" \in request[r].steps
    BY <1>2, <1>9 DEF IInv, Fine, Known
  <2>4. row' = r => request[r].locks # "never"
    <3>1. "never" \notin DOMAIN Rank
      BY Order DEF Sql, Redis
    <3> QED BY <1>2, <1>10, <3>1 DEF IInv, Fine, Known
  <2> QED BY <1>2, <2>1, <2>2, <2>3, <2>4 DEF Known
<1>13. Raised(r)'
  <2>1. raised'[r] \in Refusing \/ caused'[r] # {}
    BY <1>4 DEF Refused, SqlFailed, RedisFailed, IInv, TypeOK
  <2>2. r \in committed' =>
          e \in Broken /\ request[r] # readiness_probe /\ caused'[r] \intersect Outside # {}
    <3>1. r \in committed' => "commit" \in request[r].steps
      BY <1>2, <1>9 DEF IInv, Fine, Known
    <3>2. r \in committed' => e \in Broken
      <4>1. Refused(r, p, e, causes) => r \notin committed
        BY <1>2, <1>7, Order DEF Refused
      <4>2. Refused(r, p, e, causes) => r \notin committed'
        BY <4>1 DEF Refused
      <4>3. ~ Refused(r, p, e, causes) => e \in Broken
        BY DEF SqlFailed, RedisFailed, Broken
      <4> QED BY <4>2, <4>3
    <3>3. r \in committed' => causes \intersect Outside # {}
      <4> SUFFICES ASSUME r \in committed' PROVE causes \intersect Outside # {}
        OBVIOUS
      <4>1. ~ Refused(r, p, e, causes)
        BY <3>2, Answers DEF Refused, Broken, Refusing, Unauthorized, NotFound, Conflict,
                             BadRequest, Carried
      <4>2. RedisFailed(r, p, e, causes) => causes \intersect Outside # {}
        BY DEF RedisFailed, Outside
      <4>3. SqlFailed(r, p, e, causes) => causes \intersect Outside # {}
        BY <1>2, <1>7 DEF SqlFailed
      <4> QED BY <4>1, <4>2, <4>3
    <3> QED BY <3>1, <3>2, <3>3, <1>4, <1>6 DEF IInv, TypeOK
  <2>3. r \in committed' => key'[r] # "free"
    <3>1. r \in committed' => Rank[p] >= 9
      BY <1>2, <1>7, <1>9
    <3> QED BY <1>2, <1>7, <1>8, <3>1
  <2>4. Next_ = "unlock" /\ r \in committed' => caused'[r] \intersect {"redis", "connect"} # {}
    <3> SUFFICES ASSUME Next_ = "unlock", r \in committed'
                 PROVE  causes = {"redis"} \/ causes = {"connect"}
      BY <1>4 DEF IInv, TypeOK
    <3>1. SqlFailed(r, p, e, causes) => causes = {"connect"}
      BY <1>1, <1>2, <1>7, <1>9 DEF SqlFailed, RollsBack
    <3>2. ~ Refused(r, p, e, causes)
      BY <1>2, <1>7, <1>9 DEF Refused
    <3> QED BY <3>1, <3>2 DEF RedisFailed
  <2>5. /\ Next_ = "rollback" => key'[r] # "saved"
        /\ Next_ = "unlock" => key'[r] # "none"
    BY <1>1, <1>2, <1>8
  <2>6. Next_ = "failed" /\ key'[r] \in {"held", "saved"} => raised'[r] \in Broken
    <3> SUFFICES ASSUME Next_ = "failed", key'[r] \in {"held", "saved"}
                 PROVE  raised'[r] \in Broken
      OBVIOUS
    <3>1. key'[r] # key[r] /\ p \in {"lock", "save"}
      BY <1>1, <1>2, <1>8
    <3>2. RedisFailed(r, p, e, causes)
      BY <3>1 DEF Refused, SqlFailed, RedisFailed
    <3>3. "lock" \in request[r].steps
      BY <3>1, <1>2, Table
    <3> QED BY <1>4, <1>6, <3>2, <3>3 DEF RedisFailed, Broken
  <2>7. state'[r] = Next_
    BY <1>1 DEF IInv, TypeOK
  <2> QED BY <1>4, <1>5, <2>1, <2>2, <2>3, <2>4, <2>5, <2>6, <2>7 DEF Raised, Failing, Outage
<1>14. Fine(r)'
  <2>1. state'[r] \in {"rollback", "unlock", "failed"}
    BY <1>1 DEF IInv, TypeOK
  <2> QED BY <1>12, <1>13, <2>1 DEF Fine, Serving, Answered, Ended
<1>15. ASSUME NEW q \in Requests \ {r} PROVE Leaves(q)
  BY <1>1, <1>4, <1>8, <1>9, <1>10 DEF Leaves, IInv, TypeOK
<1> QED BY <1>11, <1>14, <1>15, Step

LEMMA RefuseKeeps ==
    ASSUME IInv, NEW r \in Requests, Refuse(r)
    PROVE  IInv'
<1>1. PICK refusal \in Refusals(request[r]) :
         /\ Due(r, refusal[1])
         /\ Hold(r, refusal[1])
         /\ Raise(r, refusal[1], refusal[2], {})
  BY DEF Refuse
<1> DEFINE p == refusal[1]  e == refusal[2]
<1>2. request[r] \in Endpoints /\ p \in request[r].steps
  BY <1>1, DueStep
<1>3. p \in Early /\ e \in Refusing
  BY <1>2, Table
<1>4. request[r] # readiness_probe
  <2> SUFFICES ASSUME request[r] = readiness_probe PROVE FALSE
    OBVIOUS
  <2>1. request[r].steps = {"read", "fill"} /\ request[r].refusals = {}
    BY <1>2, Table
  <2>2. p \in {"auth", "check", "lock"}
    BY <1>1, <2>1 DEF Refusals
  <2> QED BY <1>2, <2>1, <2>2
<1>5. Refused(r, p, e, {})
  BY <1>1, <1>3, <1>4 DEF Refused, Refuse
<1>6. Due(r, p) /\ Raise(r, p, e, {}) /\ {} \in SUBSET Causes
  BY <1>1
<1> HIDE DEF p, e
<1> QED BY <1>5, <1>6, Raising DEF Refuse

LEMMA BreakKeeps ==
    ASSUME IInv, NEW r \in Requests, Break(r)
    PROVE  IInv'
<1>1. PICK break \in request[r].breaks :
         /\ Due(r, break[1])
         /\ Hold(r, break[1])
         /\ Raise(r, break[1], "SQLAlchemyError", {break[2]})
  BY DEF Break, Ready
<1> DEFINE p == break[1]  cause == break[2]
<1>2. /\ p \in Sql /\ cause \in Causes
      /\ p \in {"read", "write", "commit"} \/ cause = "race"
  BY <1>1, DueStep, Table
<1>3. Due(r, p) /\ Hold(r, p) /\ Raise(r, p, "SQLAlchemyError", {cause})
  BY <1>1
<1> HIDE DEF p, cause
<1>4. cause \in Outside \/ p \in Early
  BY <1>2 DEF Outside, Early
<1>5. UNCHANGED <<key, committed>>
  BY DEF Break
<1>6. SqlFailed(r, p, "SQLAlchemyError", {cause})
  BY <1>2, <1>3, <1>4, <1>5 DEF SqlFailed
<1> QED BY <1>2, <1>3, <1>6, Raising DEF Break

LEMMA PoolTimeoutKeeps ==
    ASSUME IInv, NEW r \in Requests, PoolTimeout(r)
    PROVE  IInv'
<1>1. PICK p \in Sql : Due(r, p) /\ Raise(r, p, "SQLAlchemyError", {"pool"})
  BY DEF PoolTimeout
<1>2. SqlFailed(r, p, "SQLAlchemyError", {"pool"})
  BY <1>1 DEF SqlFailed, PoolTimeout, Outside
<1> QED BY <1>1, <1>2, Raising DEF PoolTimeout, Causes, Outside

LEMMA ConnectFailsKeeps ==
    ASSUME IInv, NEW r \in Requests, ConnectFails(r)
    PROVE  IInv'
<1>1. PICK p \in Sql : Due(r, p) /\ Raise(r, p, "OSError", {"connect"})
  BY DEF ConnectFails
<1>2. SqlFailed(r, p, "OSError", {"connect"})
  BY <1>1 DEF SqlFailed, ConnectFails, Outside
<1> QED BY <1>1, <1>2, Raising DEF ConnectFails, Causes, Outside

LEMMA DatabaseFailsKeeps ==
    ASSUME IInv, NEW r \in Requests, DatabaseFails(r)
    PROVE  IInv'
<1>1. PICK p \in Sql :
         /\ Due(r, p)
         /\ Raise(r, p, "SQLAlchemyError", {"database"})
         /\ \/ UNCHANGED <<committed, row>>
            \/ /\ p = "commit"
               /\ committed' = committed \union {r}
               /\ FreeRow(r)
  BY DEF DatabaseFails
<1>2. SqlFailed(r, p, "SQLAlchemyError", {"database"})
  BY <1>1 DEF SqlFailed, DatabaseFails, Outside
<1> QED BY <1>1, <1>2, Raising DEF DatabaseFails, Causes, Outside

LEMMA RedisFailsKeeps ==
    ASSUME IInv, NEW r \in Requests, RedisFails(r)
    PROVE  IInv'
<1>1. PICK p \in Redis :
         /\ Due(r, p)
         /\ Raise(r, p, "RedisError", {"redis"})
         /\ \/ UNCHANGED key
            \/ p = "lock" /\ key' = [key EXCEPT ![r] = "held"]
            \/ p = "save" /\ key' = [key EXCEPT ![r] = "saved"]
  BY DEF RedisFails
<1>2. RedisFailed(r, p, "RedisError", {"redis"})
  BY <1>1 DEF RedisFailed, RedisFails
<1> QED BY <1>1, <1>2, Raising DEF RedisFails, Causes, Outside
-----------------------------------------------------------------------------
\* A step that neither takes the key, nor commits, nor saves the response.
LEMMA Advancing ==
    ASSUME IInv, NEW r \in Requests, NEW p \in DOMAIN Rank \ {"lock", "commit", "save"},
           state[r] = "serving", key[r] \in {"none", "free", "held"},
           Rank[at[r]] < Rank[p], Advance(r, p),
           key[r] = "free" => Rank[p] <= 3,
           "commit" \in request[r].steps /\ Rank[p] > 9 => r \in committed,
           UNCHANGED row \/ Hold(r, p),
           UNCHANGED <<request, state, key, connected, committed, expired, raised, caused, status>>
    PROVE  IInv'
<1>1. at' = [at EXCEPT ![r] = p] /\ at'[r] = p /\ at[r] \in DOMAIN Rank
  BY DEF Advance, IInv, TypeOK
<1>2. /\ row' \in Requests \union {None}
      /\ row' = r => row = r \/ p = request[r].locks
      /\ \A q \in Requests \ {r} : row' = q => row = q
  BY DEF Hold, IInv, TypeOK
<1>3. TypeOK'
  BY <1>1, <1>2 DEF IInv, TypeOK
<1>4. /\ Rank[p] \in 0..12 /\ Rank[at[r]] \in 0..12
      /\ Rank[p] # 9 /\ Rank[p] # 3 /\ Rank[p] # 12
  BY <1>1, Order DEF Sql, Redis
<1>5. request[r] \in Endpoints /\ "never" \notin DOMAIN Rank
  BY Order DEF IInv, Fine, Known, Sql, Redis
<1>6. Known(r)'
  BY <1>2, <1>5 DEF IInv, Fine, Known
<1>7. row' = r => Rank[p] \in 5..8
  <2>1. row' = r => request[r].locks # "never"
    BY <1>2, <1>5 DEF IInv, Fine, Known
  <2>2. row' = r => "commit" \in request[r].steps
    BY <2>1, <1>5, Table
  <2>3. p = request[r].locks /\ p # "never" => Rank[p] \in 5..9
    BY <1>5, Table, Order
  <2>4. r \in committed => Rank[at[r]] >= 9
    BY DEF IInv, Fine, Serving
  <2>5. row = r => Rank[at[r]] \in 5..8
    BY DEF IInv, Fine, Serving
  <2> QED BY <1>2, <1>4, <1>5, <2>2, <2>3, <2>4, <2>5
<1>8. Serving(r)'
  BY <1>1, <1>4, <1>7 DEF IInv, Fine, Serving
<1>9. Fine(r)'
  BY <1>6, <1>8 DEF Fine, Raised, Failing, Answered, Ended
<1>10. ASSUME NEW q \in Requests \ {r} PROVE Leaves(q)
  BY <1>1, <1>2 DEF Leaves, IInv, TypeOK
<1> QED BY <1>3, <1>9, <1>10, Step

LEMMA QueryKeeps ==
    ASSUME IInv, NEW r \in Requests, Query(r)
    PROVE  IInv'
<1>1. PICK p \in Sql \ {"commit"} : Due(r, p) /\ Advance(r, p) /\ Hold(r, p)
  BY DEF Query, Ready
<1>2. p \notin {"lock", "commit", "save"}
  BY DEF Sql
<1> QED BY <1>1, <1>2, DueStep, Advancing DEF Query

LEMMA CheckKeeps ==
    ASSUME IInv, NEW r \in Requests, Check(r)
    PROVE  IInv'
BY DueStep, Advancing DEF Check

LEMMA CallRedisKeeps ==
    ASSUME IInv, NEW r \in Requests, CallRedis(r)
    PROVE  IInv'
<1>1. CASE Due(r, "lookup") /\ Advance(r, "fill")
  <2>1. /\ "fill" \in DOMAIN Rank /\ Rank["lookup"] = 4 /\ Rank["fill"] = 6
    BY Order DEF Redis
  <2>2. /\ state[r] = "serving" /\ key[r] \in {"none", "held"}
        /\ Rank[at[r]] < 4 /\ Rank[at[r]] \in 0..12
    BY <1>1, <2>1, DueStep
  <2> QED BY <1>1, <2>1, <2>2, Advancing DEF CallRedis
<1>2. CASE \E p \in Redis \ {"lock", "save"} : Due(r, p) /\ Advance(r, p)
  <2>1. PICK p \in Redis \ {"lock", "save"} : Due(r, p) /\ Advance(r, p)
    BY <1>2
  <2>2. p # "commit"
    BY DEF Redis
  <2> QED BY <2>1, <2>2, DueStep, Advancing DEF CallRedis
<1> QED BY <1>1, <1>2 DEF CallRedis

LEMMA ReceiveKeeps ==
    ASSUME IInv, NEW r \in Requests, Receive(r)
    PROVE  IInv'
<1>1. PICK e \in Offers[r], k \in {"none", "free"} :
         /\ k = "free" => "lock" \in e.steps
         /\ request' = [request EXCEPT ![r] = e]
         /\ key' = [key EXCEPT ![r] = k]
  BY DEF Receive
<1>2. e \in Endpoints
  BY <1>1, ApiAssumption
<1>3. /\ state[r] = "idle" /\ state' = [state EXCEPT ![r] = "serving"]
      /\ UNCHANGED <<at, connected, row, committed, expired, raised, caused, status>>
  BY DEF Receive, Turn
<1>4. /\ r \notin committed /\ r \notin expired /\ row # r /\ at[r] = "start"
      /\ Rank[at[r]] = 0
  BY <1>3, Order DEF IInv, Fine, Known
<1>5. TypeOK'
  BY <1>1, <1>2, <1>3 DEF IInv, TypeOK, States, Keys
<1>6. request'[r] = e /\ key'[r] = k /\ state'[r] = "serving" /\ at'[r] = at[r]
  BY <1>1, <1>3 DEF IInv, TypeOK
<1>7. Known(r)' /\ Serving(r)'
  BY <1>1, <1>2, <1>3, <1>4, <1>6 DEF Known, Serving
<1>8. Fine(r)'
  BY <1>6, <1>7 DEF Fine, Raised, Failing, Answered, Ended
<1>9. ASSUME NEW q \in Requests \ {r} PROVE Leaves(q)
  BY <1>1, <1>3 DEF Leaves, IInv, TypeOK
<1> QED BY <1>5, <1>8, <1>9, Step

LEMMA ConnectKeeps ==
    ASSUME IInv, NEW r \in Requests, Connect(r)
    PROVE  IInv'
<1>1. /\ state[r] = "serving" /\ connected' = connected \union {r}
      /\ r \notin connected /\ Cardinality(connected) < PoolSize
      /\ UNCHANGED <<request, state, at, key, row, committed, expired, raised, caused, status>>
  BY DEF Connect, Due
<1>2. TypeOK'
  <2>1. IsFiniteSet(connected') /\ Cardinality(connected') = Cardinality(connected) + 1
        /\ Cardinality(connected) \in Nat
    BY <1>1, FS_AddElement, FS_CardinalityType DEF IInv, TypeOK
  <2>2. Cardinality(connected') <= PoolSize
    BY <1>1, <2>1, ApiAssumption
  <2> QED BY <1>1, <2>1, <2>2 DEF IInv, TypeOK
<1>3. Fine(r)'
  BY <1>1 DEF IInv, Fine, Known, Serving, Raised, Failing, Answered, Ended
<1>4. ASSUME NEW q \in Requests \ {r} PROVE Leaves(q)
  BY <1>1 DEF Leaves
<1> QED BY <1>2, <1>3, <1>4, Step

LEMMA CommitKeeps ==
    ASSUME IInv, NEW r \in Requests, Commit(r)
    PROVE  IInv'
<1>1. /\ Due(r, "commit") /\ at' = [at EXCEPT ![r] = "commit"]
      /\ committed' = committed \union {r} /\ connected' = connected \ {r}
      /\ row' = IF row = r THEN None ELSE row
      /\ UNCHANGED <<request, state, key, expired, raised, caused, status>>
  BY DEF Commit, Ready, Advance, Release, FreeRow
<1>2. /\ state[r] = "serving" /\ "commit" \in DOMAIN Rank /\ Rank["commit"] = 9
      /\ request[r] \in Endpoints /\ "commit" \in request[r].steps
      /\ key[r] \in {"none", "held"}
  BY <1>1, DueStep, Order
<1>3. TypeOK'
  BY <1>1, <1>2, Releasing DEF IInv, TypeOK
<1>4. at'[r] = "commit" /\ row' # r /\ r \notin expired
  BY <1>1, <1>2, ApiAssumption DEF IInv, TypeOK, Fine, Serving
<1>5. Known(r)' /\ Serving(r)'
  BY <1>1, <1>2, <1>4 DEF IInv, Fine, Known, Serving
<1>6. Fine(r)'
  BY <1>1, <1>2, <1>5 DEF Fine, Raised, Failing, Answered, Ended
<1>7. ASSUME NEW q \in Requests \ {r} PROVE Leaves(q)
  BY <1>1, ApiAssumption DEF Leaves, IInv, TypeOK
<1> QED BY <1>3, <1>6, <1>7, Step

LEMMA TakeKeyKeeps ==
    ASSUME IInv, NEW r \in Requests, TakeKey(r)
    PROVE  IInv'
<1>1. PICK k \in {"held", "replayed"} :
         /\ key' = [key EXCEPT ![r] = k]
         /\ at' = [at EXCEPT ![r] = IF k = "held" THEN "lock" ELSE "save"]
  BY DEF TakeKey, Advance
<1>2. /\ Due(r, "lock")
      /\ UNCHANGED <<request, state, connected, row, committed, expired, raised, caused, status>>
  BY DEF TakeKey
<1>3. /\ {"lock", "save"} \subseteq DOMAIN Rank /\ Rank["lock"] = 3 /\ Rank["save"] = 12
  BY Order DEF Redis
<1>4. /\ state[r] = "serving" /\ request[r] \in Endpoints /\ "lock" \in request[r].steps
      /\ Rank[at[r]] < 3 /\ r \notin committed
  BY <1>2, <1>3, DueStep
<1>5. TypeOK'
  BY <1>1, <1>2, <1>3 DEF IInv, TypeOK, Keys
<1>6. row # r /\ r \notin expired
  BY <1>4 DEF IInv, Fine, Serving
<1>7. key'[r] = k /\ at'[r] = IF k = "held" THEN "lock" ELSE "save"
  BY <1>1 DEF IInv, TypeOK
<1>8. Known(r)' /\ Serving(r)'
  BY <1>2, <1>3, <1>4, <1>6, <1>7 DEF IInv, Fine, Known, Serving
<1>9. Fine(r)'
  BY <1>2, <1>4, <1>8 DEF Fine, Raised, Failing, Answered, Ended
<1>10. ASSUME NEW q \in Requests \ {r} PROVE Leaves(q)
  BY <1>1, <1>2 DEF Leaves, IInv, TypeOK
<1> QED BY <1>5, <1>9, <1>10, Step

LEMMA SaveResponseKeeps ==
    ASSUME IInv, NEW r \in Requests, SaveResponse(r)
    PROVE  IInv'
<1>1. /\ Due(r, "save")
      /\ key' = [key EXCEPT ![r] = "saved"] /\ at' = [at EXCEPT ![r] = "save"]
      /\ UNCHANGED <<request, state, connected, row, committed, expired, raised, caused, status>>
  BY DEF SaveResponse, Advance
<1>2. "save" \in DOMAIN Rank /\ Rank["save"] = 12
  BY Order DEF Redis
<1>3. /\ state[r] = "serving" /\ request[r] \in Endpoints /\ "lock" \in request[r].steps
      /\ "commit" \in request[r].steps => r \in committed
  BY <1>1, <1>2, DueStep, Table
<1>4. row # r /\ r \notin expired
  <2>1. row = r => r \in committed
    BY <1>3, Table DEF IInv, Fine, Known
  <2> QED BY <1>3, <2>1 DEF IInv, Fine, Serving
<1>5. TypeOK'
  BY <1>1, <1>2 DEF IInv, TypeOK, Keys
<1>6. key'[r] = "saved" /\ at'[r] = "save"
  BY <1>1 DEF IInv, TypeOK
<1>7. Known(r)' /\ Serving(r)'
  BY <1>1, <1>2, <1>3, <1>4, <1>6 DEF IInv, Fine, Known, Serving
<1>8. Fine(r)'
  BY <1>1, <1>3, <1>7 DEF Fine, Raised, Failing, Answered, Ended
<1>9. ASSUME NEW q \in Requests \ {r} PROVE Leaves(q)
  BY <1>1 DEF Leaves, IInv, TypeOK
<1> QED BY <1>5, <1>8, <1>9, Step
-----------------------------------------------------------------------------
LEMMA RespondKeeps ==
    ASSUME IInv, NEW r \in Requests, Respond(r)
    PROVE  IInv'
<1>1. /\ state[r] = "serving" /\ \A p \in Steps(r) : Rank[p] <= Rank[at[r]]
      /\ status' = [status EXCEPT ![r] = request[r].success]
      /\ state' = [state EXCEPT ![r] = "answered"]
      /\ UNCHANGED <<request, at, key, connected, row, committed, expired, raised, caused>>
  BY DEF Respond, Served, Turn
<1>2. request[r] \in Endpoints /\ request[r].success \in {200, 201, 204}
  BY <1>1, Table DEF IInv, Fine, Known
<1>3. TypeOK'
  BY <1>1, <1>2 DEF IInv, TypeOK, States, Statuses
<1>4. status'[r] = request[r].success /\ state'[r] = "answered"
  BY <1>1 DEF IInv, TypeOK
<1>5. at[r] \in DOMAIN Rank /\ Rank[at[r]] \in 0..12
  BY Order DEF IInv, TypeOK
<1>6. "commit" \in request[r].steps => r \in committed \/ key[r] = "replayed"
  <2> SUFFICES ASSUME "commit" \in request[r].steps
               PROVE  Rank[at[r]] >= 9
    BY <1>1 DEF IInv, Fine, Serving
  <2>1. "commit" \in Steps(r)
    BY DEF Steps
  <2> QED BY <1>1, <1>5, <2>1, Order
<1>7. key[r] \in {"none", "replayed", "saved"}
  <2> SUFFICES ASSUME key[r] \in {"free", "held"} PROVE FALSE
    BY DEF IInv, TypeOK, Keys
  <2>1. {"lock", "save"} \subseteq Steps(r)
    BY <1>1, <1>2, Table DEF IInv, Fine, Known, Steps
  <2>2. Rank[at[r]] >= 12
    BY <1>1, <1>5, <2>1, Order
  <2> QED BY <1>1, <1>5, <2>2 DEF IInv, Fine, Serving
<1>8. row # r
  <2> SUFFICES ASSUME row = r PROVE FALSE
    OBVIOUS
  <2>1. "commit" \in Steps(r)
    BY <1>1, <1>2, Table DEF IInv, Fine, Known, Steps
  <2>2. Rank[at[r]] >= 9
    BY <1>1, <1>5, <2>1, Order
  <2> QED BY <1>1, <2>2 DEF IInv, Fine, Serving
<1>9. Known(r)'
  BY <1>1, <1>2, <1>4 DEF IInv, Fine, Known
<1>10. Answered(r)'
  <2>1. request[r].success \in {201, 204} \/ request[r].locks # "never" => "commit" \in request[r].steps
    BY <1>2, Table
  <2> QED BY <1>1, <1>2, <1>4, <1>6, <1>7, <1>8, <2>1 DEF Answered
<1>11. Fine(r)'
  BY <1>4, <1>9, <1>10 DEF Fine, Serving, Raised, Failing
<1>12. ASSUME NEW q \in Requests \ {r} PROVE Leaves(q)
  BY <1>1 DEF Leaves, IInv, TypeOK
<1> QED BY <1>3, <1>11, <1>12, Step

LEMMA CloseKeeps ==
    ASSUME IInv, NEW r \in Requests, Close(r)
    PROVE  IInv'
<1>1. /\ state[r] = "answered" /\ state' = [state EXCEPT ![r] = "gone"]
      /\ connected' = connected \ {r} /\ row' = IF row = r THEN None ELSE row
      /\ UNCHANGED <<request, at, key, committed, expired, raised, caused, status>>
  BY DEF Close, Turn, Release, FreeRow
<1>2. TypeOK'
  BY <1>1, Releasing DEF IInv, TypeOK, States
<1>3. state'[r] = "gone" /\ row' # r
  BY <1>1, ApiAssumption DEF IInv, TypeOK
<1>4. Fine(r)'
  BY <1>1, <1>3 DEF IInv, Fine, Known, Serving, Raised, Failing, Answered, Ended, Outage
<1>5. ASSUME NEW q \in Requests \ {r} PROVE Leaves(q)
  BY <1>1, ApiAssumption DEF Leaves, IInv, TypeOK
<1> QED BY <1>2, <1>4, <1>5, Step

LEMMA RollbackKeeps ==
    ASSUME IInv, NEW r \in Requests, Rollback(r)
    PROVE  IInv'
<1> DEFINE Next_ == IF key[r] = "held" THEN "unlock" ELSE "failed"
<1>1. /\ state[r] = "rollback" /\ state' = [state EXCEPT ![r] = Next_]
      /\ connected' = connected \ {r} /\ row' = IF row = r THEN None ELSE row
      /\ expired' = expired \union {r}
      /\ UNCHANGED <<request, at, key, committed, status>>
  BY DEF Rollback, Turn, Release, FreeRow
<1>2. /\ raised' = [raised EXCEPT ![r] = raised'[r]]
      /\ caused' = [caused EXCEPT ![r] = caused'[r]]
      /\ \/ raised'[r] = raised[r] /\ caused'[r] = caused[r]
         \/ raised'[r] = "RedisError" /\ caused'[r] = caused[r] \union {"redis"}
  BY DEF Rollback, IInv, TypeOK
<1>3. Raised(r)
  BY DEF IInv, Fine
<1>4. raised'[r] \in Exceptions
  BY <1>1, <1>2, <1>3, Answers DEF Raised, Failing, Broken
<1>5. TypeOK'
  <2>1. caused'[r] \in SUBSET Causes
    BY <1>2 DEF IInv, TypeOK, Causes, Outside
  <2> QED BY <1>1, <1>2, <1>4, <2>1, Releasing DEF IInv, TypeOK, States
<1>6. state'[r] = Next_ /\ row' # r
  BY <1>1, ApiAssumption DEF IInv, TypeOK
<1>7. Known(r)'
  BY <1>1, <1>6 DEF IInv, Fine, Known
<1>8. Raised(r)'
  BY <1>1, <1>2, <1>3, <1>4, <1>6 DEF Raised, Failing, Broken, Outage, Outside
<1>9. Fine(r)'
  BY <1>6, <1>7, <1>8 DEF Fine, Serving, Answered, Ended
<1>10. ASSUME NEW q \in Requests \ {r} PROVE Leaves(q)
  BY <1>1, <1>2, ApiAssumption DEF Leaves, IInv, TypeOK
<1> QED BY <1>5, <1>9, <1>10, Step

LEMMA UnlockKeeps ==
    ASSUME IInv, NEW r \in Requests, Unlock(r)
    PROVE  IInv'
<1>1. /\ state[r] = "unlock" /\ state' = [state EXCEPT ![r] = "failed"]
      /\ UNCHANGED <<request, at, connected, row, committed, expired, status>>
  BY DEF Unlock, Turn
<1>2. /\ raised' = [raised EXCEPT ![r] = raised'[r]]
      /\ caused' = [caused EXCEPT ![r] = caused'[r]]
      /\ key' = [key EXCEPT ![r] = key'[r]]
      /\ \/ /\ r \in expired /\ raised'[r] = "SQLAlchemyError"
            /\ caused'[r] = caused[r] \union {"expired"} /\ key'[r] = key[r]
         \/ /\ r \notin expired /\ key'[r] = "free"
            /\ raised'[r] = raised[r] /\ caused'[r] = caused[r]
         \/ /\ raised'[r] = "RedisError" /\ caused'[r] = caused[r] \union {"redis"}
            /\ key'[r] = key[r]
  BY DEF Unlock, IInv, TypeOK
<1>3. Raised(r) /\ key[r] # "none"
  BY <1>1 DEF IInv, Fine, Raised, Failing
<1>4. raised'[r] \in Exceptions
  BY <1>1, <1>2, <1>3, Answers DEF Raised, Failing, Broken
<1>5. TypeOK'
  <2>1. caused'[r] \in SUBSET Causes /\ key'[r] \in Keys
    BY <1>2 DEF IInv, TypeOK, Causes, Outside, Keys
  <2> QED BY <1>1, <1>2, <1>4, <2>1 DEF IInv, TypeOK, States
<1>6. state'[r] = "failed"
  BY <1>1 DEF IInv, TypeOK
<1>7. Known(r)'
  BY <1>1, <1>3, <1>6 DEF IInv, Fine, Known
<1>8. Raised(r)'
  BY <1>1, <1>2, <1>3, <1>4, <1>6 DEF Raised, Failing, Broken, Outage, Outside
<1>9. Fine(r)'
  BY <1>6, <1>7, <1>8 DEF Fine, Serving, Answered, Ended
<1>10. ASSUME NEW q \in Requests \ {r} PROVE Leaves(q)
  BY <1>1, <1>2 DEF Leaves, IInv, TypeOK
<1> QED BY <1>5, <1>9, <1>10, Step

LEMMA HandleKeeps ==
    ASSUME IInv, NEW r \in Requests, Handle(r)
    PROVE  IInv'
<1>1. /\ state[r] = "failed" /\ state' = [state EXCEPT ![r] = "gone"]
      /\ status' = [status EXCEPT ![r] = StatusOf(raised[r])]
      /\ connected' = connected \ {r} /\ row' = IF row = r THEN None ELSE row
      /\ UNCHANGED <<request, at, key, committed, expired, raised, caused>>
  BY DEF Handle, Turn, Release, FreeRow
<1>2. Raised(r) /\ raised[r] \in Exceptions
  BY <1>1 DEF IInv, Fine, Raised, Failing
<1>3. /\ StatusOf(raised[r]) \in {400, 401, 403, 404, 409, 422, 500, 503}
      /\ StatusOf(raised[r]) < 500 => raised[r] \notin Broken
      /\ StatusOf(raised[r]) >= 500 => raised[r] \notin Refusing
  BY <1>2, Answers DEF Broken
<1>4. TypeOK'
  <2>1. StatusOf(raised[r]) \in Statuses
    BY <1>3 DEF Statuses
  <2>2. status' \in [Requests -> Statuses] /\ state' \in [Requests -> States]
    BY <1>1, <2>1 DEF IInv, TypeOK, States
  <2> QED BY <1>1, <2>2, Releasing DEF IInv, TypeOK
<1>5. state'[r] = "gone" /\ row' # r /\ status'[r] = StatusOf(raised[r])
  BY <1>1, ApiAssumption DEF IInv, TypeOK
<1>6. Known(r)'
  BY <1>1, <1>5 DEF IInv, Fine, Known
<1>7. Answered(r)'
  BY <1>1, <1>2, <1>3, <1>5 DEF Answered, Raised, Failing, Outage
<1>8. Fine(r)'
  BY <1>5, <1>6, <1>7 DEF Fine, Serving, Raised, Failing
<1>9. ASSUME NEW q \in Requests \ {r} PROVE Leaves(q)
  BY <1>1, ApiAssumption DEF Leaves, IInv, TypeOK
<1> QED BY <1>4, <1>8, <1>9, Step
-----------------------------------------------------------------------------
LEMMA InitInv == Init => IInv
<1> SUFFICES ASSUME Init PROVE IInv
  OBVIOUS
<1>1. "start" \in DOMAIN Rank
  BY Order
<1>2. IsFiniteSet(connected) /\ Cardinality(connected) <= PoolSize
  BY FS_EmptySet, ApiAssumption DEF Init
<1>3. TypeOK
  BY <1>1, <1>2 DEF Init, TypeOK, States, Keys, Statuses
<1>4. ASSUME NEW r \in Requests PROVE Fine(r)
  BY ApiAssumption DEF Init, Fine, Known, Serving, Raised, Failing, Answered, Ended
<1> QED BY <1>3, <1>4 DEF IInv

LEMMA NextInv == IInv /\ [Next]_vars => IInv'
<1> SUFFICES ASSUME IInv, [Next]_vars PROVE IInv'
  OBVIOUS
<1>1. CASE UNCHANGED vars
  BY <1>1 DEF vars, IInv, TypeOK, Fine, Known, Serving, Raised, Failing, Answered, Ended,
         Outage
<1>2. ASSUME NEW r \in Requests, Receive(r) PROVE IInv'
  BY <1>2, ReceiveKeeps
<1>3. ASSUME NEW r \in Requests, Serve(r) PROVE IInv'
  BY <1>3, ConnectKeeps, QueryKeeps, CheckKeeps, CommitKeeps, CallRedisKeeps, TakeKeyKeeps,
     SaveResponseKeeps, RespondKeeps, CloseKeeps, RollbackKeeps, UnlockKeeps, HandleKeeps
     DEF Serve
<1>4. ASSUME NEW r \in Requests, Fail(r) PROVE IInv'
  BY <1>4, RefuseKeeps, BreakKeeps, PoolTimeoutKeeps, ConnectFailsKeeps, DatabaseFailsKeeps, RedisFailsKeeps
     DEF Fail
<1> QED BY <1>1, <1>2, <1>3, <1>4 DEF Next, Quiet

LEMMA Invariance == Spec => []IInv
BY InitInv, NextInv, PTL DEF Spec

(***************************************************************************)
(* TypeOK in every behaviour of the API: in particular, requests never     *)
(* have more connections than the pool (db/session.py).                    *)
(***************************************************************************)
THEOREM ApiTypeCorrect == Spec => []TypeOK
<1>1. IInv => TypeOK
  BY DEF IInv
<1> QED BY <1>1, Invariance, PTL

(***************************************************************************)
(* A 4xx of any endpoint (main.py's handlers) has committed nothing and    *)
(* left its idempotency key neither locked nor answered.                   *)
(***************************************************************************)
THEOREM RefusalsHarmless == Spec => []RefusalsChangeNothing
<1>1. IInv => RefusalsChangeNothing
  BY DEF IInv, Fine, Answered, RefusalsChangeNothing
<1> QED BY <1>1, Invariance, PTL

(***************************************************************************)
(* A 2xx of an endpoint that changes something has committed, or replays a *)
(* response, and saved its response if it came with a key.                 *)
(***************************************************************************)
THEOREM SuccessesDurable == Spec => []SuccessesAreDurable
<1>1. IInv => SuccessesAreDurable
  BY DEF IInv, Fine, Answered, SuccessesAreDurable
<1> QED BY <1>1, Invariance, PTL

(***************************************************************************)
(* main.py has a handler for all that the endpoints raise themselves: a    *)
(* 5xx has another cause, and a 5xx after a COMMIT one outside the request,*)
(* whatever the input, and however many requests there are.                *)
(***************************************************************************)
THEOREM ServerErrorsCaused == Spec => []ServerErrorsHaveACause
<1>1. IInv => ServerErrorsHaveACause
  BY DEF IInv, Fine, Answered, ServerErrorsHaveACause
<1> QED BY <1>1, Invariance, PTL

(***************************************************************************)
(* The wrapper of decorators.py leaves the key of a request that has       *)
(* committed and failed locked, unless Redis failed or a new connection    *)
(* was refused: neither an exhausted pool nor a lost race frees it.        *)
(***************************************************************************)
THEOREM KeysReopenedByOutages == Spec => []OnlyOutagesReopenAKey
<1>1. IInv => OnlyOutagesReopenAKey
  BY DEF IInv, Fine, Answered, OnlyOutagesReopenAKey, Outage
<1> QED BY <1>1, Invariance, PTL

(***************************************************************************)
(* A request whose response is being sent (get_db is still open) has no    *)
(* row locked, however slow its client.                                    *)
(***************************************************************************)
THEOREM SlowClientsHarmless == Spec => []SlowClientsBlockNobody
<1>1. IInv => SlowClientsBlockNobody
  BY DEF IInv, Fine, Answered, Ended, SlowClientsBlockNobody
<1> QED BY <1>1, Invariance, PTL
=============================================================================
