------------------------------ MODULE MCMutex ------------------------------
(***************************************************************************)
(* A small instance of Mutex for TLC.                                      *)
(***************************************************************************)
EXTENDS Mutex

CONSTANTS t1, t2, t3, m1, m2

ThreadsC == {t1, t2, t3}

\* t1 is the most urgent thread.
BaseC == (t1 :> 2) @@ (t2 :> 9) @@ (t3 :> 20)

\* The mutexes may be exchanged.
Sym == Permutations({m1, m2})
=============================================================================
