------------------------------ MODULE IpcList ------------------------------
(***************************************************************************)
(* The suspended-thread lists of an RT-Thread IPC object                   *)
(* (rt-thread/src/ipc.c).  A list is a sequence of threads, head first.    *)
(* Every object (semaphore, mutex, mailbox, ...) queues its waiters with   *)
(* rt_ipc_list_suspend and takes them off with rt_thread_resume (head) or  *)
(* rt_thread_timeout (any position).                                       *)
(***************************************************************************)
EXTENDS Naturals, Sequences, SequencesExt

\* Object flag: how waiters are ordered.
RT_IPC_FLAG_FIFO == "FIFO"
RT_IPC_FLAG_PRIO == "PRIO"

IpcFlags == {RT_IPC_FLAG_FIFO, RT_IPC_FLAG_PRIO}

\* Position of a new waiter t in a priority-ordered list: in front of the first
\* waiter that is strictly less urgent (a smaller number is more urgent).
IsInsertPos(list, t, prio, i) ==
    /\ i \in DOMAIN list
    /\ prio[t] < prio[list[i]]
    /\ \A j \in DOMAIN list : j < i => prio[list[j]] <= prio[t]

\* Mutant: RT_IPC_FLAG_PRIO is ignored.
rt_ipc_list_suspend_AlwaysFifo(list, t, flag, prio) == Append(list, t)

\* rt_ipc_list_suspend: where the thread is linked into the list.
rt_ipc_list_suspend(list, t, flag, prio) ==
    IF flag = RT_IPC_FLAG_PRIO /\ \E i \in DOMAIN list : IsInsertPos(list, t, prio, i)
    THEN InsertAt(list, CHOOSE i \in DOMAIN list : IsInsertPos(list, t, prio, i), t)
    ELSE Append(list, t)

\* rt_list_remove(&thread->tlist): unlink t, wherever it is queued.
Unlink(list, t) ==
    IF \E i \in DOMAIN list : list[i] = t
    THEN RemoveAt(list, CHOOSE i \in DOMAIN list : list[i] = t)
    ELSE list

\* No thread is linked twice.
IsDuplicateFree(list) ==
    \A i, j \in DOMAIN list : i # j => list[i] # list[j]

\* Nobody of S waits behind a less urgent thread.  (A waiter outside S whose priority was
\* raised while it waits is not moved.)
IsPrioOrderedFor(list, prio, S) ==
    \A j, k \in DOMAIN list : j < k /\ list[k] \in S => prio[list[j]] <= prio[list[k]]
=============================================================================
