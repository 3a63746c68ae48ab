------------------------------ MODULE MCOAuth ------------------------------
(* Two applications, of which a2 may only read; a page and a code, two     *)
(* exchanges that race for it, and a caller with their tokens.             *)
EXTENDS OAuth, TLC

CONSTANTS l1, a1, a2, u1, p1, c1, x1, x2, k1

ReadWriteAndRead == (a1 :> {"read", "write:statuses"}) @@ (a2 :> {"read"})
OneUri           == (a1 :> {u1}) @@ (a2 :> {u1})
NothingOrWrite   == {{}, {"write:statuses"}}
FaultsOrLogins   == {{}, {"faults"}, {"logins"}}

Symmetry == Permutations({x1, x2})

=============================================================================
