----------------------------- MODULE AtMostOnce -----------------------------
(***************************************************************************)
(* What README.md:40-46 promises for one Idempotency-Key, "strictly-once   *)
(* execution, serving cached responses for retry bursts", as far as the    *)
(* code keeps it: one execution, and one more for every lapse of the key.  *)
(* There is no record, no lock and no call under way here; Idempotency.tla *)
(* has those and is shown to implement this.                               *)
(***************************************************************************)
EXTENDS Integers, FiniteSets

CONSTANTS Calls,     \* calls of an endpoint with one key
          Payload,   \* the payload hash of each call
          NoAnswer   \* the client of a call has not got a response

VARIABLES
    executed,   \* the calls that have taken effect
    given,      \* the call whose response each client has got
    lapses      \* how often the key has been forgotten

vars == <<executed, given, lapses>>

Init ==
    /\ executed = {}
    /\ given = [c \in Calls |-> NoAnswer]
    /\ lapses = 0

\* A call takes effect: the first one, or one that a lapse has let in.
Execute(c) ==
    /\ c \notin executed
    /\ given[c] = NoAnswer
    /\ Cardinality(executed) <= lapses
    /\ executed' = executed \union {c}
    /\ UNCHANGED <<given, lapses>>

(***************************************************************************)
(* A client gets its one response: of its own call if that took effect,    *)
(* otherwise of one that did, with the same payload.                       *)
(***************************************************************************)
Respond(c, e) ==
    /\ given[c] = NoAnswer
    /\ e \in executed
    /\ Payload[e] = Payload[c]
    /\ c \in executed => e = c
    /\ given' = [given EXCEPT ![c] = e]
    /\ UNCHANGED <<executed, lapses>>

\* The key is forgotten while a call with it is at work or has taken effect.
Lapse ==
    /\ lapses' = lapses + 1
    /\ UNCHANGED <<executed, given>>

Next ==
    \/ \E c \in Calls : Execute(c)
    \/ \E c, e \in Calls : Respond(c, e)
    \/ Lapse

Spec == Init /\ [][Next]_vars

(***************************************************************************)
(* What a client may rely on: whoever gets a response to a retry before a  *)
(* lapse gets the same response as everybody else.                         *)
(***************************************************************************)
OneResponse ==
    lapses = 0 =>
        \A c, d \in Calls : NoAnswer \notin {given[c], given[d]} => given[c] = given[d]
=============================================================================
