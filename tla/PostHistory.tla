---------------------------- MODULE PostHistory ----------------------------
(***************************************************************************)
(* What a reader of GET /api/v1/statuses/:id/history is promised: a status *)
(* has a list of versions, the one shown last, and an edit only ever adds  *)
(* one at the end.  The module knows nothing of tables or requests;        *)
(* OwnStatuses implements it when its owner edits one thing at a time.     *)
(***************************************************************************)
EXTENDS Sequences

CONSTANTS
    Statuses,  \* the statuses of the owner
    Versions   \* what a version may say

VARIABLE
    versions   \* versions[s]: the versions of s, oldest first; <<>> when there is no s

vars == <<versions>>

Init == versions \in [Statuses -> {<<>>} \cup {<<v>> : v \in Versions}]

Publish(s, v) ==
    /\ versions[s] = <<>>
    /\ versions' = [versions EXCEPT ![s] = <<v>>]

Revise(s, v) ==
    /\ versions[s] # <<>>
    /\ versions' = [versions EXCEPT ![s] = Append(@, v)]

Remove(s) ==
    /\ versions[s] # <<>>
    /\ versions' = [versions EXCEPT ![s] = <<>>]

Next == \E s \in Statuses : Remove(s) \/ \E v \in Versions : Publish(s, v) \/ Revise(s, v)

Spec == Init /\ [][Next]_vars
=============================================================================
