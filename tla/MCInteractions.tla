-------------------------- MODULE MCInteractions ---------------------------
(* Instances of Interactions for TLC. *)
EXTENDS Interactions, TLC

CONSTANTS r1, r2, r3, own, theirs

Request(k, a, u, b) == [kind |-> k, add |-> a, status |-> u, byUri |-> b]

\* What a client may do to a remote status, by its URI or its id, and to the
\* owner's.
AllOps ==
    {Request(k, a, theirs, TRUE) : k \in {"favourite", "repost"}, a \in BOOLEAN}
    \cup {Request("favourite", TRUE, theirs, FALSE), Request("repost", FALSE, theirs, FALSE),
          Request("bookmark", TRUE, theirs, TRUE),
          Request("repost", TRUE, own, FALSE), Request("delete", TRUE, own, FALSE)}

\* Overlapping requests, and requests one at a time with and without faults.
AllModes == {{}, {"serial"}, {"serial", "faulty"}}

Symmetry == Permutations({r1, r2, r3})
=============================================================================
