---------------------------- MODULE BoundedFifo ----------------------------
(***************************************************************************)
(* What a mailbox promises its users, without waiting, timers or a ring:   *)
(* a queue of at most Size mails, from which each mail is handed to one    *)
(* receiver, oldest first, and which a reset empties.                      *)
(***************************************************************************)
EXTENDS Naturals, Sequences

CONSTANTS Threads, Values, Size, NoMail

VARIABLES queue, got

fifoVars == <<queue, got>>

Init ==
    /\ queue = <<>>
    /\ got = [t \in Threads |-> NoMail]

Enqueue(v) ==
    /\ Len(queue) < Size
    /\ queue' = Append(queue, v)
    /\ UNCHANGED got

Dequeue(t) ==
    /\ queue # <<>>
    /\ got' = [got EXCEPT ![t] = Head(queue)]
    /\ queue' = Tail(queue)

Reset ==
    /\ queue' = <<>>
    /\ UNCHANGED got

Next ==
    \/ \E v \in Values : Enqueue(v)
    \/ \E t \in Threads : Dequeue(t)
    \/ Reset

Spec == Init /\ [][Next]_fifoVars
=============================================================================
