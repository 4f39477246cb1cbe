------------------------------- MODULE Mutex -------------------------------
(***************************************************************************)
(* The kernel mutex rt_mutex_* (rt-thread/src/ipc.c): recursive, handed    *)
(* over to the first waiter on release, with priority inheritance.         *)
(*                                                                         *)
(* A step is a section the code runs with interrupts disabled.  Any ready  *)
(* thread may take the next step: this includes every schedule of the      *)
(* priority scheduler.  The timer of a waiting thread may run out at any   *)
(* moment.                                                                 *)
(***************************************************************************)
EXTENDS Integers, FiniteSets, IpcList

CONSTANTS
    Threads,
    Mutexes,
    Flag,      \* the flag the mutexes are created with
    Base,      \* the priority each thread was created with; smaller is more urgent
    MaxHold,   \* bound on the nesting of one mutex, below the width of mutex->hold
    NoThread,  \* RT_NULL as an owner
    NoMutex    \* a thread that waits for no mutex

\* The timeout argument: no waiting, a number of ticks, RT_WAITING_FOREVER.
Times == {"no", "ticks", "forever"}

ASSUME MutexAssumption ==
    /\ Flag \in IpcFlags
    /\ Base \in [Threads -> 0 .. 31]
    /\ MaxHold \in 1 .. 255
    /\ NoThread \notin Threads
    /\ NoMutex \notin Mutexes

VARIABLES
    value,              \* mutex->value, 1 when available
    owner,              \* mutex->owner
    hold,               \* mutex->hold
    original_priority,  \* mutex->original_priority
    suspend_thread,     \* mutex->parent.suspend_thread
    current_priority,   \* thread->current_priority
    stat,               \* thread->stat: "ready" (or running) or "suspend"
    error,              \* thread->error
    call,               \* the rt_mutex_take the thread waits in, and whether it has a timer
    taken,              \* history: takes that returned RT_EOK less releases, per thread
    outer,              \* history: the mutex a thread took when it had none
    nested,             \* history: the thread always gave that one back last
    alone               \* history: the thread has had no two mutexes since it had none

mutexVars == <<value, owner, hold, original_priority, suspend_thread>>
vars == <<value, owner, hold, original_priority, suspend_thread, current_priority, stat,
          error, call, taken, outer, nested, alone>>

NoCall == [mutex |-> NoMutex, timed |-> FALSE]

Running(t) == stat[t] = "ready" /\ call[t] = NoCall

\* rt_mutex_init / rt_mutex_create.
Init ==
    /\ value = [m \in Mutexes |-> 1]
    /\ owner = [m \in Mutexes |-> NoThread]
    /\ hold = [m \in Mutexes |-> 0]
    /\ original_priority = [m \in Mutexes |-> 255]
    /\ suspend_thread = [m \in Mutexes |-> <<>>]
    /\ current_priority = Base
    /\ stat = [t \in Threads |-> "ready"]
    /\ error = [t \in Threads |-> "EOK"]
    /\ call = [t \in Threads |-> NoCall]
    /\ taken = [t \in Threads |-> [m \in Mutexes |-> 0]]
    /\ outer = [t \in Threads |-> NoMutex]
    /\ nested = [t \in Threads |-> TRUE]
    /\ alone = [t \in Threads |-> TRUE]
-----------------------------------------------------------------------------
Has(t) == {m \in Mutexes : taken[t][m] > 0}

\* History: rt_mutex_take returns RT_EOK to t.
Taken(t, m) ==
    /\ taken' = [taken EXCEPT ![t][m] = @ + 1]
    /\ outer' = [outer EXCEPT ![t] = IF Has(t) = {} THEN m ELSE @]
    /\ alone' = [alone EXCEPT ![t] = @ /\ Has(t) \subseteq {m}]
    /\ UNCHANGED nested

\* History: rt_mutex_release returns RT_EOK to t; it was the last take of m, or not.
Released(t, m) ==
    /\ taken' = [taken EXCEPT ![t][m] = @ - 1]
    /\ \/ taken[t][m] > 1 /\ UNCHANGED <<outer, nested, alone>>
       \/ /\ taken[t][m] = 1 /\ Has(t) = {m}
          /\ outer' = [outer EXCEPT ![t] = NoMutex]
          /\ alone' = [alone EXCEPT ![t] = TRUE]
          /\ UNCHANGED nested
       \/ /\ taken[t][m] = 1 /\ Has(t) # {m}
          /\ nested' = [nested EXCEPT ![t] = @ /\ m # outer[t]]
          /\ UNCHANGED <<outer, alone>>

historyVars == <<taken, outer, nested, alone>>

\* The owner takes the mutex once more.
TakeAgain(t, m) ==
    /\ Running(t)
    /\ owner[m] = t
    /\ hold[m] < MaxHold
    /\ hold' = [hold EXCEPT ![m] = @ + 1]
    /\ error' = [error EXCEPT ![t] = "EOK"]
    /\ Taken(t, m)
    /\ UNCHANGED <<value, owner, original_priority, suspend_thread, current_priority, stat, call>>

\* Mutant: mutex->value is not looked at.
TakeFree_Unchecked(t, m) ==
    /\ Running(t)
    /\ owner[m] # t
    /\ value' = [value EXCEPT ![m] = @ - 1]
    /\ owner' = [owner EXCEPT ![m] = t]
    /\ original_priority' = [original_priority EXCEPT ![m] = current_priority[t]]
    /\ hold' = [hold EXCEPT ![m] = @ + 1]
    /\ error' = [error EXCEPT ![t] = "EOK"]
    /\ Taken(t, m)
    /\ UNCHANGED <<suspend_thread, current_priority, stat, call>>

\* The mutex is available.
TakeFree(t, m) ==
    /\ Running(t)
    /\ owner[m] # t
    /\ value[m] > 0
    /\ value' = [value EXCEPT ![m] = @ - 1]
    /\ owner' = [owner EXCEPT ![m] = t]
    /\ original_priority' = [original_priority EXCEPT ![m] = current_priority[t]]
    /\ hold' = [hold EXCEPT ![m] = @ + 1]
    /\ error' = [error EXCEPT ![t] = "EOK"]
    /\ Taken(t, m)
    /\ UNCHANGED <<suspend_thread, current_priority, stat, call>>

\* It is not, and the caller does not wait: returns -RT_ETIMEOUT.
TakeRefused(t, m) ==
    /\ Running(t)
    /\ owner[m] # t
    /\ value[m] = 0
    /\ error' = [error EXCEPT ![t] = "ETIMEOUT"]
    /\ UNCHANGED <<mutexVars, current_priority, stat, call, historyVars>>

\* Mutant: the owner's priority is overwritten, also by a less urgent one.
Inherit_Always(t, m) ==
    current_priority' = [current_priority EXCEPT ![owner[m]] = current_priority[t]]

\* The owner inherits the priority of a more urgent waiter.
Inherit(t, m) ==
    current_priority' =
        [current_priority EXCEPT ![owner[m]] =
             IF current_priority[t] < @ THEN current_priority[t] ELSE @]

\* The caller suspends itself; a number of ticks starts its timer.
TakeWaits(t, m, time) ==
    /\ Running(t)
    /\ owner[m] # t
    /\ value[m] = 0
    /\ time # "no"
    /\ Inherit(t, m)
    /\ suspend_thread' = [suspend_thread EXCEPT
                             ![m] = rt_ipc_list_suspend(@, t, Flag, current_priority)]
    /\ stat' = [stat EXCEPT ![t] = "suspend"]
    /\ error' = [error EXCEPT ![t] = "EOK"]
    /\ call' = [call EXCEPT ![t] = [mutex |-> m, timed |-> time = "ticks"]]
    /\ UNCHANGED <<value, owner, hold, original_priority, historyVars>>

rt_mutex_take(t, m, time) ==
    \/ TakeAgain(t, m)
    \/ TakeFree(t, m)
    \/ time = "no" /\ TakeRefused(t, m)
    \/ TakeWaits(t, m, time)

\* Mutant: the error code is not looked at after the wait.
TakeResumed_Unchecked(t) ==
    /\ stat[t] = "ready"
    /\ call[t] # NoCall
    /\ call' = [call EXCEPT ![t] = NoCall]
    /\ Taken(t, call[t].mutex)
    /\ UNCHANGED <<mutexVars, current_priority, stat, error>>

\* The caller runs again after rt_schedule: it returns thread->error, or has the mutex.
TakeResumed(t) ==
    /\ stat[t] = "ready"
    /\ call[t] # NoCall
    /\ call' = [call EXCEPT ![t] = NoCall]
    /\ \/ error[t] # "EOK" /\ UNCHANGED historyVars
       \/ error[t] = "EOK" /\ Taken(t, call[t].mutex)
    /\ UNCHANGED <<mutexVars, current_priority, stat, error>>

\* Mutant: the waiting thread stays linked.
rt_thread_timeout_StaysLinked(t) ==
    /\ stat[t] = "suspend"
    /\ call[t].timed
    /\ error' = [error EXCEPT ![t] = "ETIMEOUT"]
    /\ stat' = [stat EXCEPT ![t] = "ready"]
    /\ UNCHANGED <<mutexVars, current_priority, call, historyVars>>

\* The waiter's timer runs out.  The owner keeps what it inherited until it releases.
rt_thread_timeout(t) ==
    /\ stat[t] = "suspend"
    /\ call[t].timed
    /\ error' = [error EXCEPT ![t] = "ETIMEOUT"]
    /\ stat' = [stat EXCEPT ![t] = "ready"]
    /\ suspend_thread' = [m \in Mutexes |-> Unlink(suspend_thread[m], t)]
    /\ UNCHANGED <<value, owner, hold, original_priority, current_priority, call, historyVars>>
-----------------------------------------------------------------------------
\* Somebody else's mutex: returns -RT_ERROR.
ReleaseRefused(t, m) ==
    /\ Running(t)
    /\ owner[m] # t
    /\ error' = [error EXCEPT ![t] = "ERROR"]
    /\ UNCHANGED <<mutexVars, current_priority, stat, call, historyVars>>

\* It was taken more than once.
ReleaseOnce(t, m) ==
    /\ Running(t)
    /\ owner[m] = t
    /\ hold[m] > 1
    /\ hold' = [hold EXCEPT ![m] = @ - 1]
    /\ Released(t, m)
    /\ UNCHANGED <<value, owner, original_priority, suspend_thread, current_priority, stat,
                   error, call>>

\* Mutant: the priority the owner was created with is not restored.
Restore_Not(t, m) == UNCHANGED current_priority

\* The owner returns to the priority it had when it took the mutex.
Restore(t, m) == current_priority' = [current_priority EXCEPT ![t] = original_priority[m]]

\* Nobody waits.
ReleaseFree(t, m) ==
    /\ Running(t)
    /\ owner[m] = t
    /\ hold[m] = 1
    /\ suspend_thread[m] = <<>>
    /\ Restore(t, m)
    /\ hold' = [hold EXCEPT ![m] = 0]
    /\ value' = [value EXCEPT ![m] = @ + 1]
    /\ owner' = [owner EXCEPT ![m] = NoThread]
    /\ original_priority' = [original_priority EXCEPT ![m] = 255]
    /\ Released(t, m)
    /\ UNCHANGED <<suspend_thread, stat, error, call>>

\* The first waiter becomes the owner (hold is 0 and then 1 again) and is resumed.
HandOver(t, m) ==
    LET next == Head(suspend_thread[m]) IN
    /\ Running(t)
    /\ owner[m] = t
    /\ hold[m] = 1
    /\ suspend_thread[m] # <<>>
    /\ Restore(t, m)
    /\ owner' = [owner EXCEPT ![m] = next]
    /\ original_priority' = [original_priority EXCEPT ![m] = current_priority[next]]
    /\ suspend_thread' = [suspend_thread EXCEPT ![m] = Tail(@)]
    /\ stat' = [stat EXCEPT ![next] = "ready"]
    /\ Released(t, m)
    /\ UNCHANGED <<value, hold, error, call>>

rt_mutex_release(t, m) ==
    ReleaseRefused(t, m) \/ ReleaseOnce(t, m) \/ ReleaseFree(t, m) \/ HandOver(t, m)

Next ==
    \/ \E t \in Threads, m \in Mutexes, time \in Times : rt_mutex_take(t, m, time)
    \/ \E t \in Threads : TakeResumed(t)
    \/ \E t \in Threads : rt_thread_timeout(t)
    \/ \E t \in Threads, m \in Mutexes : rt_mutex_release(t, m)

Spec == Init /\ [][Next]_vars
-----------------------------------------------------------------------------
\* t owns m but has not run since the release that handed m over to it.
Handed(t, m) == owner[m] = t /\ stat[t] = "ready" /\ call[t].mutex = m /\ error[t] = "EOK"

\* Every variable holds a value of the C type it stands for: value is 0 or 1, hold does
\* not wrap, priorities are levels of the scheduler.
TypeOK ==
    /\ value \in [Mutexes -> {0, 1}]
    /\ owner \in [Mutexes -> Threads \cup {NoThread}]
    /\ hold \in [Mutexes -> 0 .. MaxHold]
    /\ original_priority \in [Mutexes -> 0 .. 31 \cup {255}]
    /\ suspend_thread \in [Mutexes -> Seq(Threads)]
    /\ current_priority \in [Threads -> 0 .. 31]
    /\ stat \in [Threads -> {"ready", "suspend"}]
    /\ error \in [Threads -> {"EOK", "ETIMEOUT", "ERROR"}]
    /\ call \in [Threads -> [mutex : Mutexes \cup {NoMutex}, timed : BOOLEAN]]
    /\ taken \in [Threads -> [Mutexes -> 0 .. MaxHold]]
    /\ outer \in [Threads -> Mutexes \cup {NoMutex}]
    /\ nested \in [Threads -> BOOLEAN]
    /\ alone \in [Threads -> BOOLEAN]

\* What the callers were told is what the mutex says: a thread has a mutex exactly as many
\* times as mutex->hold counts if it is the owner, and not at all if it is not.  So no two
\* threads have the same mutex, and one that timed out does not have it.
OwnerKnows ==
    \A t \in Threads, m \in Mutexes :
        taken[t][m] = IF owner[m] = t /\ ~Handed(t, m) THEN hold[m] ELSE 0

\* Nobody sleeps for a mutex that is free: threads wait for m only while a thread has it,
\* or is on its way to it, and that thread is not one of them.
NoWaiterForgotten ==
    \A m \in Mutexes :
        /\ owner[m] = NoThread <=> value[m] = 1 /\ hold[m] = 0
        /\ owner[m] = NoThread => suspend_thread[m] = <<>>
        /\ \A t \in Threads :
              /\ t \in ToSet(suspend_thread[m]) <=> stat[t] = "suspend" /\ call[t].mutex = m
              /\ t \in ToSet(suspend_thread[m]) => owner[m] # t

\* A thread that gives back last the mutex it took first is left with its own priority once
\* it has none: nothing it inherited, from waiters that got the mutex or timed out, stays.
PriorityRestored ==
    \A t \in Threads :
        nested[t] /\ (\A m \in Mutexes : owner[m] # t) => current_priority[t] = Base[t]

\* No unbounded priority inversion: with RT_IPC_FLAG_PRIO the owner of one mutex is at least
\* as urgent as every waiter that has no mutex itself (and so cannot become more urgent
\* while it waits), also after the mutex was handed over past some of them.
WaitersInherited ==
    Flag = RT_IPC_FLAG_PRIO =>
        \A m \in Mutexes, w \in Threads :
            /\ w \in ToSet(suspend_thread[m]) /\ Has(w) = {}
            /\ alone[owner[m]] /\ \A n \in Mutexes \ {m} : owner[n] # owner[m]
            => current_priority[owner[m]] <= current_priority[w]
=============================================================================
