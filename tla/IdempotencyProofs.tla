------------------------- MODULE IdempotencyProofs -------------------------
(***************************************************************************)
(* Theorems about Idempotency, for any number of calls with one key, any   *)
(* payloads and any faults.  The inductive invariant counts the calls the  *)
(* lock has let through: each but the last lost its record to a lapse, and *)
(* the last one may still have it.                                         *)
(***************************************************************************)
EXTENDS Idempotency, FiniteSetTheorems, TLAPS

\* The record of a call that runs or has taken effect.
Covered == record # NoRecord /\ IsAdmitted(record.request)

\* Every lapse lets one call more through than the record accounts for.
Accounted ==
    Cardinality(Admitted) <= lapses + (IF Covered THEN 1 ELSE 0)

\* What is replayed from a COMPLETED record.
RecordIsFaithful ==
    record # NoRecord =>
        /\ record.payload_hash = Payload[record.request]
        /\ record.status = "COMPLETED" => record.request \in effects

\* A call that has committed stays admitted.
CommittedHasEffect ==
    \A r \in Requests : pc[r] = "committed" => r \in effects

IInv ==
    /\ TypeOK
    /\ Accounted
    /\ RecordIsFaithful
    /\ CommittedHasEffect
    /\ ReplayIsFaithful

\* Admitted is finite and its cardinality a number.
LEMMA AdmittedFinite ==
    IsFiniteSet(Admitted) /\ Cardinality(Admitted) \in Nat
<1>1. IsFiniteSet(Admitted)
  BY FS_Subset, IdempotencyAssumption DEF Admitted
<1> QED BY <1>1, FS_CardinalityType

\* The same for the next state.
LEMMA AdmittedFiniteNext ==
    IsFiniteSet(Admitted') /\ Cardinality(Admitted') \in Nat
<1>1. Admitted' \subseteq Requests
  BY DEF Admitted
<1>2. IsFiniteSet(Admitted')
  BY <1>1, FS_Subset, IdempotencyAssumption
<1> QED BY <1>2, FS_CardinalityType

\* An element more makes a finite set larger by one at most.
LEMMA OneMore ==
    ASSUME NEW S, IsFiniteSet(S), NEW e
    PROVE  IsFiniteSet(S \union {e}) /\ Cardinality(S \union {e}) <= Cardinality(S) + 1
<1>0. Cardinality(S) \in Nat
  BY FS_CardinalityType
<1>1. CASE e \in S
  <2>1. S \union {e} = S
    BY <1>1
  <2> QED BY <1>0, <2>1
<1>2. CASE e \notin S
  BY <1>0, <1>2, FS_AddElement
<1> QED BY <1>1, <1>2

\* Admitting one call raises the count by at most one.
LEMMA AdmitOne ==
    ASSUME NEW r \in Requests, Admitted' \subseteq Admitted \union {r}
    PROVE  Cardinality(Admitted') <= Cardinality(Admitted) + 1
<1>1. /\ IsFiniteSet(Admitted \union {r})
      /\ Cardinality(Admitted \union {r}) <= Cardinality(Admitted) + 1
  BY AdmittedFinite, OneMore
<1>2. /\ Cardinality(Admitted') <= Cardinality(Admitted \union {r})
      /\ Cardinality(Admitted \union {r}) \in Nat
  BY <1>1, FS_Subset, FS_CardinalityType
<1> QED BY <1>1, <1>2, AdmittedFinite, AdmittedFiniteNext

\* Dropping calls never raises it.
LEMMA AdmitNone ==
    ASSUME Admitted' \subseteq Admitted
    PROVE  Cardinality(Admitted') <= Cardinality(Admitted)
BY AdmittedFinite, FS_Subset

\* A call that gives up before its effect takes the count down with it.
LEMMA AdmitLess ==
    ASSUME NEW r \in Requests, r \in Admitted, Admitted' \subseteq Admitted \ {r}
    PROVE  Cardinality(Admitted') <= Cardinality(Admitted) - 1
<1>1. /\ IsFiniteSet(Admitted \ {r})
      /\ Cardinality(Admitted \ {r}) = Cardinality(Admitted) - 1
  BY AdmittedFinite, FS_RemoveElement
<1> QED BY <1>1, FS_Subset, AdmittedFinite, AdmittedFiniteNext

\* The account over a step that admits nobody and keeps what is covered,
LEMMA KeepsAccount ==
    ASSUME TypeOK, Accounted, UNCHANGED lapses,
           Admitted' \subseteq Admitted, Covered => Covered'
    PROVE  Accounted'
BY AdmitNone, AdmittedFinite, AdmittedFiniteNext DEF Accounted, TypeOK

\* over a step in which a call gives up before its effect,
LEMMA DropsOne ==
    ASSUME TypeOK, Accounted, UNCHANGED lapses,
           NEW r \in Requests, r \in Admitted, Admitted' \subseteq Admitted \ {r}
    PROVE  Accounted'
BY AdmitLess, AdmittedFinite, AdmittedFiniteNext DEF Accounted, TypeOK

\* and over a step that takes the record away.
LEMMA LosesRecord ==
    ASSUME TypeOK, Accounted, Lose, Admitted' \subseteq Admitted
    PROVE  Accounted'
<1>1. lapses' = lapses + (IF Covered THEN 1 ELSE 0) /\ ~Covered'
  BY DEF Lose, Covered, TypeOK
<1> QED BY <1>1, AdmitNone, AdmittedFinite, AdmittedFiniteNext DEF Accounted, TypeOK

LEMMA RecordsExist ==
    ASSUME NEW r \in Requests PROVE InProgress(r) # NoRecord /\ Completed(r) # NoRecord
BY IdempotencyAssumption DEF InProgress, Completed

LEMMA IdempotencyInit == Init => IInv
<1> SUFFICES ASSUME Init PROVE IInv
  OBVIOUS
<1>1. TypeOK /\ RecordIsFaithful /\ CommittedHasEffect /\ ReplayIsFaithful
  BY DEF Init, TypeOK, Labels, RecordIsFaithful, CommittedHasEffect, ReplayIsFaithful
<1>2. Admitted = {}
  BY DEF Init, Admitted, IsAdmitted
<1>3. Accounted
  BY <1>2, FS_EmptySet DEF Init, Accounted, Covered
<1> QED BY <1>1, <1>3 DEF IInv

\* SET NX: only a free key lets a call through, and then covers it.
LEMMA CheckAndLockStep ==
    ASSUME IInv, NEW r \in Requests, CheckAndLock(r) PROVE IInv'
<1> USE DEF IInv
<1>1. TypeOK'
  BY DEF CheckAndLock, TypeOK, Goto, Labels, InProgress, IdempotencyRecord
<1>2. RecordIsFaithful' /\ CommittedHasEffect' /\ ReplayIsFaithful'
  BY DEF CheckAndLock, TypeOK, Goto, InProgress, RecordIsFaithful,
         CommittedHasEffect, ReplayIsFaithful
<1>3. Accounted'
  <2>1. CASE record = NoRecord
    <3>1. Admitted' \subseteq Admitted \union {r}
      BY DEF CheckAndLock, Admitted, IsAdmitted, Goto, TypeOK
    <3>2. ~Covered /\ Covered' /\ UNCHANGED lapses
      BY <2>1, RecordsExist DEF CheckAndLock, Covered, IsAdmitted, Goto, TypeOK, InProgress
    <3> QED BY <3>1, <3>2, AdmitOne, AdmittedFinite, AdmittedFiniteNext DEF Accounted, TypeOK
  <2>2. CASE record # NoRecord
    <3>1. Admitted' \subseteq Admitted
      BY <2>2 DEF CheckAndLock, Admitted, IsAdmitted, Goto, TypeOK
    <3>2. Covered => Covered'
      BY <2>2 DEF CheckAndLock, Covered, IsAdmitted, Goto, TypeOK, IdempotencyRecord
    <3>3. UNCHANGED lapses
      BY DEF CheckAndLock
    <3> QED BY <3>1, <3>2, <3>3, KeepsAccount
  <2> QED BY <2>1, <2>2
<1> QED BY <1>1, <1>2, <1>3

LEMMA LockErrorStep ==
    ASSUME IInv, NEW r \in Requests, LockError(r) PROVE IInv'
<1> USE DEF IInv
<1>1. TypeOK'
  BY DEF LockError, TypeOK, Goto, Labels, InProgress, IdempotencyRecord
<1>2. RecordIsFaithful' /\ CommittedHasEffect' /\ ReplayIsFaithful'
  BY DEF LockError, TypeOK, Goto, InProgress, RecordIsFaithful,
         CommittedHasEffect, ReplayIsFaithful
<1>3. Admitted' \subseteq Admitted /\ UNCHANGED lapses
  BY DEF LockError, Admitted, IsAdmitted, Goto, TypeOK
<1>4. Covered => Covered'
  BY DEF LockError, Covered, IsAdmitted, Goto, TypeOK, IdempotencyRecord
<1> QED BY <1>1, <1>2, <1>3, <1>4, KeepsAccount

\* GET and replay: only a COMPLETED record of the same payload is returned.
LEMMA LookupStep ==
    ASSUME IInv, NEW r \in Requests, Lookup(r) PROVE IInv'
<1> USE DEF IInv
<1>1. TypeOK'
  BY DEF Lookup, CanReplay, TypeOK, Goto, Labels, IdempotencyRecord
<1>2. RecordIsFaithful' /\ CommittedHasEffect'
  BY DEF Lookup, TypeOK, Goto, RecordIsFaithful, CommittedHasEffect
<1>3. ReplayIsFaithful'
  BY DEF Lookup, CanReplay, TypeOK, IdempotencyRecord, RecordIsFaithful, ReplayIsFaithful
<1>4. Admitted' \subseteq Admitted /\ UNCHANGED lapses
  BY DEF Lookup, Admitted, IsAdmitted, Goto, TypeOK
<1>5. Covered => Covered'
  BY DEF Lookup, Covered, IsAdmitted, Goto, TypeOK, IdempotencyRecord
<1> QED BY <1>1, <1>2, <1>3, <1>4, <1>5, KeepsAccount

LEMMA CommitStep ==
    ASSUME IInv, NEW r \in Requests, Commit(r) PROVE IInv'
<1> USE DEF IInv
<1>1. TypeOK'
  BY DEF Commit, TypeOK, Goto, Labels
<1>2. RecordIsFaithful' /\ CommittedHasEffect' /\ ReplayIsFaithful'
  BY DEF Commit, TypeOK, Goto, RecordIsFaithful, CommittedHasEffect, ReplayIsFaithful
<1>3. Admitted' \subseteq Admitted /\ UNCHANGED lapses
  BY DEF Commit, Admitted, IsAdmitted, Goto, TypeOK
<1>4. Covered => Covered'
  BY DEF Commit, Covered, IsAdmitted, Goto, TypeOK, IdempotencyRecord
<1> QED BY <1>1, <1>2, <1>3, <1>4, KeepsAccount

\* A call that ends in the endpoint before its effect, raised or killed.
LEMMA GivesUp ==
    ASSUME IInv, NEW r \in Requests, pc[r] = "endpoint",
           NEW label \in {"unlock", "raised", "killed"}, Goto(r, label),
           UNCHANGED <<record, answer, effects, lapses>>
    PROVE  Accounted'
<1> USE DEF IInv
<1>1. r \in Admitted /\ UNCHANGED lapses
  BY DEF Admitted, IsAdmitted
<1>2. CASE r \notin effects
  <2>1. Admitted' \subseteq Admitted \ {r}
    BY <1>2 DEF Admitted, IsAdmitted, Goto, TypeOK
  <2> QED BY <1>1, <2>1, DropsOne
<1>3. CASE r \in effects
  <2>1. Admitted' \subseteq Admitted
    BY DEF Admitted, IsAdmitted, Goto, TypeOK
  <2>2. Covered => Covered'
    BY <1>3 DEF Covered, IsAdmitted, Goto, TypeOK, IdempotencyRecord
  <2> QED BY <1>1, <2>1, <2>2, KeepsAccount
<1> QED BY <1>2, <1>3

LEMMA RefuseStep ==
    ASSUME IInv, NEW r \in Requests, Refuse(r) PROVE IInv'
<1> USE DEF IInv
<1>1. TypeOK'
  BY DEF Refuse, TypeOK, Goto, Labels
<1>2. RecordIsFaithful' /\ CommittedHasEffect' /\ ReplayIsFaithful'
  BY DEF Refuse, TypeOK, Goto, RecordIsFaithful, CommittedHasEffect, ReplayIsFaithful
<1>3. Accounted'
  BY GivesUp DEF Refuse
<1> QED BY <1>1, <1>2, <1>3

\* save_response overwrites, but with a record of a call that has committed.
LEMMA SaveResponseStep ==
    ASSUME IInv, NEW r \in Requests, SaveResponse(r) PROVE IInv'
<1> USE DEF IInv
<1>1. TypeOK'
  BY DEF SaveResponse, TypeOK, Goto, Labels, Completed, IdempotencyRecord
<1>2. RecordIsFaithful' /\ CommittedHasEffect' /\ ReplayIsFaithful'
  BY DEF SaveResponse, TypeOK, Goto, Completed, RecordIsFaithful,
         CommittedHasEffect, ReplayIsFaithful
<1>3. Admitted' \subseteq Admitted /\ UNCHANGED lapses
  BY DEF SaveResponse, Admitted, IsAdmitted, Goto, TypeOK
<1>4. Covered'
  BY RecordsExist
     DEF SaveResponse, Covered, IsAdmitted, Goto, TypeOK, Completed, CommittedHasEffect
<1> QED BY <1>1, <1>2, <1>3, <1>4, KeepsAccount

LEMMA LateErrorStep ==
    ASSUME IInv, NEW r \in Requests, LateError(r) PROVE IInv'
<1> USE DEF IInv
<1>1. TypeOK'
  BY DEF LateError, TypeOK, Goto, Labels, Completed, IdempotencyRecord
<1>2. RecordIsFaithful' /\ CommittedHasEffect' /\ ReplayIsFaithful'
  BY DEF LateError, TypeOK, Goto, Completed, RecordIsFaithful,
         CommittedHasEffect, ReplayIsFaithful
<1>3. r \in effects /\ UNCHANGED <<effects, lapses>>
  BY DEF LateError, CommittedHasEffect
<1>4. Admitted' \subseteq Admitted
  BY <1>3 DEF LateError, Admitted, IsAdmitted, Goto, TypeOK
<1>5. Covered => Covered'
  <2>1. CASE record' = record
    BY <2>1, <1>3 DEF LateError, Covered, IsAdmitted, Goto, TypeOK, IdempotencyRecord
  <2>2. CASE record' = Completed(r)
    BY <2>2, <1>3, RecordsExist DEF Covered, IsAdmitted, Completed
  <2> QED BY <2>1, <2>2 DEF LateError
<1> QED BY <1>1, <1>2, <1>3, <1>4, <1>5, KeepsAccount

LEMMA UnlockStep ==
    ASSUME IInv, NEW r \in Requests, Unlock(r) PROVE IInv'
<1> USE DEF IInv
<1>1. TypeOK'
  BY DEF Unlock, Lose, TypeOK, Goto, Labels
<1>2. RecordIsFaithful' /\ CommittedHasEffect' /\ ReplayIsFaithful'
  BY DEF Unlock, Lose, TypeOK, Goto, RecordIsFaithful, CommittedHasEffect, ReplayIsFaithful
<1>3. Admitted' \subseteq Admitted /\ Lose
  BY DEF Unlock, Admitted, IsAdmitted, Goto, TypeOK
<1> QED BY <1>1, <1>2, <1>3, LosesRecord

LEMMA UnlockErrorStep ==
    ASSUME IInv, NEW r \in Requests, UnlockError(r) PROVE IInv'
<1> USE DEF IInv
<1>1. TypeOK'
  BY DEF UnlockError, TypeOK, Goto, Labels
<1>2. RecordIsFaithful' /\ CommittedHasEffect' /\ ReplayIsFaithful'
  BY DEF UnlockError, TypeOK, Goto, RecordIsFaithful, CommittedHasEffect, ReplayIsFaithful
<1>3. Admitted' \subseteq Admitted /\ UNCHANGED lapses
  BY DEF UnlockError, Admitted, IsAdmitted, Goto, TypeOK
<1>4. Covered => Covered'
  BY DEF UnlockError, Covered, IsAdmitted, Goto, TypeOK, IdempotencyRecord
<1> QED BY <1>1, <1>2, <1>3, <1>4, KeepsAccount

\* A killed call leaves its record behind, for its time to live.
LEMMA KillStep ==
    ASSUME IInv, NEW r \in Requests, Kill(r) PROVE IInv'
<1> USE DEF IInv
<1>1. TypeOK'
  BY DEF Kill, TypeOK, Goto, Labels
<1>2. RecordIsFaithful' /\ CommittedHasEffect' /\ ReplayIsFaithful'
  BY DEF Kill, TypeOK, Goto, RecordIsFaithful, CommittedHasEffect, ReplayIsFaithful
<1>3. Accounted'
  <2>1. CASE pc[r] = "endpoint"
    BY <2>1, GivesUp DEF Kill
  <2>2. CASE pc[r] # "endpoint"
    <3>1. Admitted' \subseteq Admitted /\ UNCHANGED lapses
      BY DEF Kill, Admitted, IsAdmitted, Goto, TypeOK
    <3>2. Covered => Covered'
      BY <2>2 DEF Kill, Covered, IsAdmitted, Goto, TypeOK, IdempotencyRecord,
                  CommittedHasEffect
    <3> QED BY <3>1, <3>2, KeepsAccount
  <2> QED BY <2>1, <2>2
<1> QED BY <1>1, <1>2, <1>3

LEMMA ExpireStep == ASSUME IInv, Expire PROVE IInv'
<1> USE DEF IInv
<1>1. TypeOK'
  BY DEF Expire, Lose, TypeOK
<1>2. RecordIsFaithful' /\ CommittedHasEffect' /\ ReplayIsFaithful'
  BY DEF Expire, Lose, RecordIsFaithful, CommittedHasEffect, ReplayIsFaithful
<1>3. Admitted' \subseteq Admitted /\ Lose
  BY DEF Expire, Admitted, IsAdmitted
<1> QED BY <1>1, <1>2, <1>3, LosesRecord

\* A step that changes nothing keeps the invariant.
LEMMA StutterStep == ASSUME IInv, UNCHANGED vars PROVE IInv'
<1> USE DEF IInv, vars
<1>1. TypeOK' /\ RecordIsFaithful' /\ CommittedHasEffect' /\ ReplayIsFaithful'
  BY DEF TypeOK, RecordIsFaithful, CommittedHasEffect, ReplayIsFaithful
<1>2. Admitted' \subseteq Admitted /\ (Covered => Covered') /\ UNCHANGED lapses
  BY DEF Admitted, IsAdmitted, Covered
<1> QED BY <1>1, <1>2, KeepsAccount

LEMMA IdempotencyInvariant == Spec => []IInv
<1>1. IInv /\ [Next]_vars => IInv'
  <2> SUFFICES ASSUME IInv, [Next]_vars PROVE IInv'
    OBVIOUS
  <2>1. ASSUME NEW r \in Requests, Call(r) PROVE IInv'
    BY <2>1, CheckAndLockStep, LookupStep, CommitStep, RefuseStep, SaveResponseStep,
       UnlockStep DEF Call
  <2>2. ASSUME NEW r \in Requests, Error(r) PROVE IInv'
    BY <2>2, LockErrorStep, LateErrorStep, UnlockErrorStep DEF Error
  <2>3. ASSUME NEW r \in Requests, Kill(r) PROVE IInv'
    BY <2>3, KillStep
  <2>4. CASE Expire
    BY <2>4, ExpireStep
  <2>5. CASE Done \/ UNCHANGED vars
    BY <2>5, StutterStep DEF Done
  <2> QED BY <2>1, <2>2, <2>3, <2>4, <2>5 DEF Next
<1> QED BY <1>1, IdempotencyInit, PTL DEF Spec

(***************************************************************************)
(* The variables keep their types (services/idempotency.py and the wrapper *)
(* of api/decorators.py never leave a record without its payload hash).    *)
(***************************************************************************)
THEOREM RecordsKeepTheirTypes == Spec => []TypeOK
BY IdempotencyInvariant, PTL DEF IInv

(***************************************************************************)
(* However many retries race, at most one call with a key runs or has      *)
(* taken effect, plus one for every lapse of its record (check_and_lock,   *)
(* save_response and unlock of services/idempotency.py).                   *)
(***************************************************************************)
THEOREM OnceUnlessLapsed == Spec => []ExecutedOnce
<1>1. IInv => ExecutedOnce
  BY AdmittedFinite DEF IInv, TypeOK, Accounted, ExecutedOnce
<1> QED BY <1>1, IdempotencyInvariant, PTL

(***************************************************************************)
(* A replayed response is always one of a committed call with the same     *)
(* payload (check_and_lock against save_response).                         *)
(***************************************************************************)
THEOREM ReplaysAreFaithful == Spec => []ReplayIsFaithful
BY IdempotencyInvariant, PTL DEF IInv

\* Two calls of one key can only both be admitted after a lapse.
LEMMA TwoAdmitted ==
    ASSUME IInv, NEW r \in Admitted, NEW q \in Admitted, r # q
    PROVE  lapses > 0
<1>1. Cardinality({r, q}) = 2
  <2>1. IsFiniteSet({r}) /\ Cardinality({r}) = 1 /\ q \notin {r}
    BY FS_Singleton
  <2>2. Cardinality({r} \union {q}) = 2
    BY <2>1, FS_AddElement
  <2>3. {r} \union {q} = {r, q}
    OBVIOUS
  <2> QED BY <2>2, <2>3
<1>2. 2 <= Cardinality(Admitted)
  BY <1>1, AdmittedFinite, FS_Subset
<1> QED BY <1>2, AdmittedFinite DEF IInv, TypeOK, Accounted

(***************************************************************************)
(* A stored response is replaced by another only after a lapse, although   *)
(* save_response writes without looking at what the key holds.             *)
(***************************************************************************)
THEOREM StoredResponsesStay == Spec => CompletedStays
<1> DEFINE Replaced == /\ record # NoRecord /\ record.status = "COMPLETED"
                       /\ record' # record /\ record' # NoRecord
<1>1. ASSUME IInv, [Next]_vars, Replaced PROVE lapses > 0
  <2>1. ASSUME NEW r \in Requests, r \in effects, record' = Completed(r)
        PROVE  lapses > 0
    <3> DEFINE q == record.request
    <3>1. record \in IdempotencyRecord /\ q \in Requests
      BY <1>1 DEF IInv, TypeOK, IdempotencyRecord
    <3>2. q \in effects /\ record = Completed(q)
      BY <1>1, <3>1 DEF IInv, RecordIsFaithful, Completed, IdempotencyRecord
    <3>3. q # r
      BY <1>1, <2>1, <3>2
    <3>4. r \in Admitted /\ q \in Admitted
      BY <2>1, <3>1, <3>2 DEF Admitted, IsAdmitted
    <3> QED BY <1>1, <3>3, <3>4, TwoAdmitted
  <2>2. ASSUME NEW r \in Requests, Call(r) PROVE lapses > 0
    BY <1>1, <2>1, <2>2
       DEF Call, CheckAndLock, Lookup, Commit, Refuse, SaveResponse, Unlock, Lose,
           IInv, CommittedHasEffect
  <2>3. ASSUME NEW r \in Requests, Error(r) PROVE lapses > 0
    BY <1>1, <2>1, <2>3
       DEF Error, LockError, LateError, UnlockError, IInv, CommittedHasEffect
  <2>4. ASSUME NEW r \in Requests, Kill(r) PROVE FALSE
    BY <1>1, <2>4 DEF Kill
  <2>5. CASE Expire \/ Done \/ UNCHANGED vars
    BY <1>1, <2>5 DEF Expire, Lose, Done, vars
  <2> QED BY <1>1, <2>2, <2>3, <2>4, <2>5 DEF Next
<1>2. IInv /\ [Next]_vars =>
        [record # NoRecord /\ record.status = "COMPLETED" /\ record' # record
            => record' = NoRecord \/ lapses > 0]_vars
  BY <1>1
<1> QED BY <1>2, IdempotencyInvariant, PTL DEF Spec, CompletedStays
-----------------------------------------------------------------------------
(***************************************************************************)
(* The decorator implements AtMostOnce.  A commit is an execution because  *)
(* the call that commits has been counted among the admitted ones without  *)
(* having taken effect; every loss of a record is a lapse or nothing.      *)
(***************************************************************************)

\* A call takes effect in its endpoint only, and is answered last.
EffectsComeFirst ==
    \A r \in Requests :
        /\ pc[r] \in {"start", "lookup", "endpoint"} => r \notin effects
        /\ answer[r] # NoAnswer => pc[r] = "returned"

LEMMA EffectsComeFirstInvariant == Spec => []EffectsComeFirst
<1>1. Init => EffectsComeFirst
  BY DEF Init, EffectsComeFirst
<1>2. IInv /\ EffectsComeFirst /\ [Next]_vars => EffectsComeFirst'
  <2> SUFFICES ASSUME IInv, EffectsComeFirst, [Next]_vars PROVE EffectsComeFirst'
    OBVIOUS
  <2> USE DEF IInv, TypeOK, EffectsComeFirst, Goto
  <2>1. ASSUME NEW r \in Requests, Call(r) PROVE EffectsComeFirst'
    BY <2>1 DEF Call, CheckAndLock, Lookup, Commit, Refuse, SaveResponse, Unlock
  <2>2. ASSUME NEW r \in Requests, Error(r) \/ Kill(r) PROVE EffectsComeFirst'
    BY <2>2 DEF Error, LockError, LateError, UnlockError, Kill
  <2>3. CASE Expire \/ Done \/ UNCHANGED vars
    BY <2>3 DEF Expire, Done, vars
  <2> QED BY <2>1, <2>2, <2>3 DEF Next
<1> QED BY <1>1, <1>2, IdempotencyInvariant, PTL DEF Spec

\* The account has room for the effect of a call that is in its endpoint.
LEMMA CommitExecutes ==
    ASSUME IInv, EffectsComeFirst, NEW r \in Requests, Commit(r)
    PROVE  Once!Execute(r)
<1>1. /\ pc[r] = "endpoint" /\ r \notin effects /\ answer[r] = NoAnswer
      /\ effects' = effects \union {r} /\ UNCHANGED <<answer, lapses>>
  BY DEF Commit, EffectsComeFirst
<1>2. r \in Admitted /\ effects \subseteq Admitted \ {r}
  BY <1>1 DEF IInv, TypeOK, Admitted, IsAdmitted
<1>3. /\ IsFiniteSet(Admitted \ {r})
      /\ Cardinality(Admitted \ {r}) = Cardinality(Admitted) - 1
  BY <1>2, AdmittedFinite, FS_RemoveElement
<1>4. /\ Cardinality(effects) \in Nat
      /\ Cardinality(effects) <= Cardinality(Admitted) - 1
  BY <1>2, <1>3, FS_Subset, FS_CardinalityType
<1>5. Cardinality(effects) <= lapses
  BY <1>4, AdmittedFinite DEF IInv, TypeOK, Accounted
<1> QED BY <1>1, <1>5 DEF Once!Execute, Once!Cardinality, Cardinality

LEMMA AnswersRespond ==
    ASSUME IInv, EffectsComeFirst, NEW r \in Requests, Lookup(r) \/ SaveResponse(r)
    PROVE  UNCHANGED Once!vars \/ \E e \in Requests : Once!Respond(r, e)
<1>1. CASE SaveResponse(r)
  <2>1. Once!Respond(r, r)
    BY <1>1 DEF SaveResponse, IInv, CommittedHasEffect, EffectsComeFirst, Once!Respond
  <2> QED BY <2>1
<1>2. CASE Lookup(r) /\ CanReplay(r)
  <2>1. record \in IdempotencyRecord
    BY <1>2 DEF CanReplay, IInv, TypeOK
  <2>2. record.request \in effects /\ Payload[record.request] = Payload[r]
    BY <1>2, <2>1 DEF CanReplay, IInv, RecordIsFaithful
  <2>3. Once!Respond(r, record.request)
    BY <1>2, <2>2 DEF Lookup, EffectsComeFirst, Once!Respond
  <2> QED BY <2>1, <2>3 DEF IdempotencyRecord
<1>3. CASE Lookup(r) /\ ~CanReplay(r)
  BY <1>3 DEF Lookup, Once!vars
<1> QED BY <1>1, <1>2, <1>3

(***************************************************************************)
(* Every behaviour of the wrapper and its service is one of the register,  *)
(* for any number of retries, payloads and faults (api/decorators.py,      *)
(* services/idempotency.py).                                               *)
(***************************************************************************)
THEOREM AtMostOnceUpToLapses == Spec => ImplementsOnce
<1>1. Init => Once!Init
  BY DEF Init, Once!Init
<1>2. IInv /\ EffectsComeFirst /\ [Next]_vars => [Once!Next]_(Once!vars)
  <2> SUFFICES ASSUME IInv, EffectsComeFirst, [Next]_vars
               PROVE  Once!Next \/ UNCHANGED Once!vars
    OBVIOUS
  <2>1. ASSUME NEW r \in Requests, Commit(r) PROVE Once!Next
    BY <2>1, CommitExecutes DEF Once!Next
  <2>2. ASSUME NEW r \in Requests, Lookup(r) \/ SaveResponse(r)
        PROVE  Once!Next \/ UNCHANGED Once!vars
    BY <2>2, AnswersRespond DEF Once!Next
  <2>3. ASSUME Lose, UNCHANGED <<answer, effects>> PROVE Once!Lapse \/ UNCHANGED Once!vars
    BY <2>3 DEF Lose, Once!Lapse, Once!vars
  <2>4. ASSUME NEW r \in Requests, Unlock(r) PROVE Once!Next \/ UNCHANGED Once!vars
    BY <2>3, <2>4 DEF Unlock, Once!Next
  <2>5. CASE Expire
    BY <2>3, <2>5 DEF Expire, Once!Next
  <2>6. ASSUME NEW r \in Requests,
               CheckAndLock(r) \/ Refuse(r) \/ Error(r) \/ Kill(r)
        PROVE  UNCHANGED Once!vars
    BY <2>6 DEF CheckAndLock, Refuse, Error, LockError, LateError, UnlockError, Kill,
                Once!vars
  <2>7. CASE Done \/ UNCHANGED vars
    BY <2>7 DEF Done, vars, Once!vars
  <2> QED BY <2>1, <2>2, <2>4, <2>5, <2>6, <2>7 DEF Next, Call
<1> QED BY <1>1, <1>2, IdempotencyInvariant, EffectsComeFirstInvariant, PTL
        DEF Spec, ImplementsOnce, Once!Spec

(***************************************************************************)
(* Until a record lapses every retry that gets a response gets the same    *)
(* one (check_and_lock answers from the record that save_response wrote).  *)
(***************************************************************************)
THEOREM RetriesAgree == Spec => []Once!OneResponse
<1>1. IInv => Once!OneResponse
  <2> SUFFICES ASSUME IInv, lapses = 0, NEW r \in Requests, NEW q \in Requests,
                      answer[r] # NoAnswer, answer[q] # NoAnswer, answer[r] # answer[q]
               PROVE  FALSE
    BY DEF Once!OneResponse
  <2>1. answer[r] \in Admitted /\ answer[q] \in Admitted
    BY DEF IInv, TypeOK, ReplayIsFaithful, Admitted, IsAdmitted
  <2> QED BY <2>1, TwoAdmitted
<1> QED BY <1>1, IdempotencyInvariant, PTL
=============================================================================
