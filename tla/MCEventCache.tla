---------------------------- MODULE MCEventCache ----------------------------
(***************************************************************************)
(* Instances of EventCache for TLC.                                        *)
(***************************************************************************)
EXTENDS EventCache

CONSTANTS s1, l1, l2, w1, w2, w3

MCKind == [r \in Readers |-> IF r = s1 THEN "static" ELSE "list"]

MCWrite == [w \in Writers |-> IF w = w1 THEN "update"
                              ELSE IF w = w2 THEN "delete" ELSE "create"]
=============================================================================
