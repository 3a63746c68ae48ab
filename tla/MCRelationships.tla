-------------------------- MODULE MCRelationships ---------------------------
(* Instances of Relationships for TLC. *)
EXTENDS Relationships, TLC

CONSTANTS r1, r2, r3, alice, bob, aliceAddr, alicePort, bobAddr

\* alice@remote.example and alice@remote.example:443 are one account.
Addressee == (aliceAddr :> alice) @@ (alicePort :> alice) @@ (bobAddr :> bob)

AllModes == {{}, {"faulty"}, {"serial"}, {"serial", "faulty"}}

Symmetry == Permutations(Requests) \cup Permutations({aliceAddr, alicePort})
=============================================================================
