----------------------------- MODULE MCAccounts -----------------------------
(* A small instance of Accounts for TLC. *)
EXTENDS Accounts, TLC

CONSTANTS r1, r2, r3, i1, i2, i3,
          lower, mixed,            \* one address, typed in two ways
          secret, padded, other    \* padded: secret with a space after it

MCLower == [e \in Emails |-> lower]
MCStrip == [p \in Passwords |-> IF p = padded THEN secret ELSE p]

\* Nobody has signed up yet, or one user has.
Nobody  == [i \in Ids |-> None]
OneUser == [Nobody EXCEPT ![i1] = [email |-> lower, password |-> secret,
                                   active |-> TRUE, superuser |-> FALSE]]
MCExisting == {Nobody, OneUser}

\* No definition tells two requests apart.
RequestSymmetry == Permutations(Requests)
=============================================================================
