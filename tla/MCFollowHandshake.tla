------------------------- MODULE MCFollowHandshake ---------------------------
(* Instances of FollowHandshake for TLC. *)
EXTENDS FollowHandshake, TLC

CONSTANTS a1, h1, h2

\* Handlers are interchangeable.
Symmetry == Permutations(Handlers)

\* Software that delivers in order, and software that does not.
AnySoftware == [ordered : BOOLEAN, undo : {"id", "uri", "bare"}]

\* Software as well-behaved as can be.
GoodSoftware == [ordered : {TRUE}, undo : {"id"}]
==============================================================================
