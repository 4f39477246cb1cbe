----------------------------- MODULE MCMailbox -----------------------------
(***************************************************************************)
(* Small instances of Mailbox for TLC.                                     *)
(***************************************************************************)
EXTENDS MailboxRefinement

CONSTANTS t1, t2, t3, m1, m2

ThreadsC == {t1, t2, t3}

\* t1 is the most urgent thread, t2 and t3 are equally urgent.
PrioC == [t \in ThreadsC |-> IF t = t1 THEN 2 ELSE 10]

TwoThreads == {t1, t2}
TwoPrio == [t \in TwoThreads |-> IF t = t1 THEN 2 ELSE 10]

\* No wait, a finite wait, wait forever.
TimeoutsC == {RT_WAITING_NO, 2, RT_WAITING_FOREVER}

ShortTimeouts == {1, RT_WAITING_FOREVER}

\* t2 and t3 have the same priority and may be exchanged.
Sym == Permutations({t2, t3})
=============================================================================
