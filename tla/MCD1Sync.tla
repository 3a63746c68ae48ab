------------------------------ MODULE MCD1Sync -------------------------------
(* Instances of D1Sync for TLC. *)
EXTENDS D1Sync, TLC

CONSTANTS x, y, a, b, c

\* c differs from b only in a blank line.
BlankLine == a :> a @@ b :> b @@ c :> b @@ Absent :> Absent

\* Two values that differ in their words.
Words == a :> a @@ b :> b @@ Absent :> Absent
==============================================================================
