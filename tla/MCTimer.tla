------------------------------ MODULE MCTimer ------------------------------
(***************************************************************************)
(* Small instances of Timer for TLC.                                       *)
(***************************************************************************)
EXTENDS Timer

CONSTANTS h1, s1, s2

\* What follows a missed deadline or a crossed call is not explored: nothing is claimed of it.
Claimed == ~missed /\ ~crossed

InitsC == (h1 :> {2}) @@ (s1 :> {1}) @@ (s2 :> {1, 3})
=============================================================================
