--------------------------- MODULE MCCreateStatus ----------------------------
(* Instances of CreateStatus for TLC. *)
EXTENDS CreateStatus, TLC

CONSTANTS r1, r2, r3, k1

\* Three requests that race for one key.
OneKey == r1 :> k1 @@ r2 :> k1 @@ r3 :> k1
==============================================================================
