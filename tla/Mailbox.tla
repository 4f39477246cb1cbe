------------------------------ MODULE Mailbox ------------------------------
(***************************************************************************)
(* The kernel mailbox rt_mb_* (rt-thread/src/ipc.c, with the thread and    *)
(* timer operations it calls in thread.c, timer.c and clock.c).            *)
(*                                                                         *)
(* A step is a section the code runs with interrupts disabled, or one      *)
(* iteration of the tick interrupt.  Any ready thread may take the next    *)
(* step: this includes every schedule of the priority scheduler.           *)
(* Between two steps a thread is at one of three places: outside a call    *)
(* (op = "none"), suspended inside a call, or resumed inside a call but    *)
(* not yet running again (the window in which others overtake it).         *)
(***************************************************************************)
EXTENDS Integers, FiniteSets, IpcList

CONSTANTS
    Threads,    \* threads that use the mailbox
    Values,     \* mails (rt_ubase_t)
    Size,       \* mb->size, capacity in mails
    Flag,       \* mb->parent.parent.flag
    Prio,       \* the priority a thread was created with; smaller is more urgent
    Inherited,  \* priorities of the threads that may wait for a mutex of one of Threads
    Timeouts,   \* the timeout arguments of the calls, in ticks
    NoMail      \* the content of a slot never written; outside Values

RT_WAITING_FOREVER == -1
RT_WAITING_NO == 0

ASSUME MailboxAssumption ==
    /\ IsFiniteSet(Threads)
    /\ Size \in Nat \ {0}
    /\ Flag \in IpcFlags
    /\ Prio \in [Threads -> Nat]
    /\ Inherited \subseteq Nat
    /\ Timeouts \subseteq Nat \cup {RT_WAITING_FOREVER}
    /\ NoMail \notin Values

VARIABLES
    msg_pool,    \* mb->msg_pool, slots 0 .. Size - 1
    entry,       \* mb->entry, number of mails
    in_offset,   \* mb->in_offset, next slot to fill
    out_offset,  \* mb->out_offset, next slot to empty
    suspend_thread,         \* mb->parent.suspend_thread: waiting receivers
    suspend_sender_thread,  \* mb->suspend_sender_thread: waiting senders
    stat,        \* thread->stat: "ready" (or running) or "suspend"
    error,       \* thread->error
    current_priority,  \* thread->current_priority
    raised,      \* history: sleepers that inherited a priority while they wait
    call,        \* the rt_mb_* call a thread is in: arguments and locals
    got          \* *value of a thread's last successful rt_mb_recv

mbVars == <<msg_pool, entry, in_offset, out_offset>>
vars == <<msg_pool, entry, in_offset, out_offset, suspend_thread,
          suspend_sender_thread, stat, error, current_priority, raised, call, got>>

(***************************************************************************)
(* A call record.  timeout is the local variable of that name; since is    *)
(* rt_tick_get() - tick_delta, the ticks since the thread last suspended   *)
(* itself; limit and age (ticks since the call began) remember the         *)
(* caller's request.  Both clocks stop once they reach the timeout.        *)
(***************************************************************************)
NoCall == [op |-> "none", value |-> NoMail, timeout |-> 0, since |-> 0,
           limit |-> 0, age |-> 0]

NewCall(op, v, timeout) ==
    [op |-> op, value |-> v, timeout |-> timeout, since |-> 0,
     limit |-> timeout, age |-> 0]

Timed(c) == c.op # "none" /\ c.timeout > 0

\* Mutant: the elapsed ticks are not subtracted, each wait starts afresh.
Recalculate_NotSubtracted(c) == [c EXCEPT !.since = 0]

\* Mutant: each wait starts afresh, as if the call had just been made.
Recalculate_Restarts(c) == [c EXCEPT !.since = 0, !.age = 0]

\* tick_delta = rt_tick_get() - tick_delta; timeout -= tick_delta; clipped at 0.
Recalculate(c) ==
    IF c.timeout > 0
    THEN [c EXCEPT !.timeout = IF c.since < c.timeout THEN c.timeout - c.since ELSE 0,
                   !.since = 0]
    ELSE c

(***************************************************************************)
(* Timers of suspended threads.  Interrupts stay disabled until            *)
(* rt_timer_check has fired every expired timer, so no thread runs while   *)
(* one is due.                                                             *)
(***************************************************************************)
Due == {t \in Threads : stat[t] = "suspend" /\ Timed(call[t])
                        /\ call[t].since >= call[t].timeout}

ThreadRuns(t) == stat[t] = "ready" /\ Due = {}

IsFull == entry = Size
IsEmpty == entry = 0

\* Mutant: wraps one slot too late.
NextOffset_Late(o) == IF o + 1 > Size THEN 0 ELSE o + 1

NextOffset(o) == IF o + 1 >= Size THEN 0 ELSE o + 1
-----------------------------------------------------------------------------
(***************************************************************************)
(* Building blocks of the calls.                                           *)
(***************************************************************************)

\* Priorities stay; whoever is woken is no longer one that was raised while waiting.
KeepPriorities ==
    /\ current_priority' = current_priority
    /\ raised' = {t \in raised : stat'[t] = "suspend"}

\* Mutant: the waiting receiver is not resumed.
PutMail_NoWake(v) ==
    /\ msg_pool' = [msg_pool EXCEPT ![in_offset] = v]
    /\ in_offset' = NextOffset(in_offset)
    /\ entry' = entry + 1
    /\ UNCHANGED <<out_offset, suspend_thread, suspend_sender_thread, stat>>
    /\ KeepPriorities

\* Store a mail and, if a receiver waits, resume the first one.
PutMail(v) ==
    /\ msg_pool' = [msg_pool EXCEPT ![in_offset] = v]
    /\ in_offset' = NextOffset(in_offset)
    /\ entry' = entry + 1
    /\ IF suspend_thread = <<>>
       THEN UNCHANGED <<suspend_thread, stat>>
       ELSE /\ suspend_thread' = Tail(suspend_thread)
            /\ stat' = [stat EXCEPT ![Head(suspend_thread)] = "ready"]
    /\ UNCHANGED <<out_offset, suspend_sender_thread>>
    /\ KeepPriorities

\* Mutant: the waiting sender is not resumed.
TakeMail_NoWake(t) ==
    /\ got' = [got EXCEPT ![t] = msg_pool[out_offset]]
    /\ out_offset' = NextOffset(out_offset)
    /\ entry' = entry - 1
    /\ UNCHANGED <<msg_pool, in_offset, suspend_thread, suspend_sender_thread, stat>>
    /\ KeepPriorities

\* Mutant: the offset is advanced before the slot is read.
TakeMail_AdvanceFirst(t) ==
    /\ got' = [got EXCEPT ![t] = msg_pool[NextOffset(out_offset)]]
    /\ out_offset' = NextOffset(out_offset)
    /\ entry' = entry - 1
    /\ IF suspend_sender_thread = <<>>
       THEN UNCHANGED <<suspend_sender_thread, stat>>
       ELSE /\ suspend_sender_thread' = Tail(suspend_sender_thread)
            /\ stat' = [stat EXCEPT ![Head(suspend_sender_thread)] = "ready"]
    /\ UNCHANGED <<msg_pool, in_offset, suspend_thread>>
    /\ KeepPriorities

\* Fetch the oldest mail for t and, if a sender waits, resume the first one.
TakeMail(t) ==
    /\ got' = [got EXCEPT ![t] = msg_pool[out_offset]]
    /\ out_offset' = NextOffset(out_offset)
    /\ entry' = entry - 1
    /\ IF suspend_sender_thread = <<>>
       THEN UNCHANGED <<suspend_sender_thread, stat>>
       ELSE /\ suspend_sender_thread' = Tail(suspend_sender_thread)
            /\ stat' = [stat EXCEPT ![Head(suspend_sender_thread)] = "ready"]
    /\ UNCHANGED <<msg_pool, in_offset, suspend_thread>>
    /\ KeepPriorities

\* The call returns to its caller.
Return(t) == call' = [call EXCEPT ![t] = NoCall]

\* t suspends itself inside call c; with a timeout its timer is started.
Suspend(t, c) ==
    /\ error' = [error EXCEPT ![t] = "EOK"]
    /\ stat' = [stat EXCEPT ![t] = "suspend"]
    /\ call' = [call EXCEPT ![t] = [c EXCEPT !.since = 0]]
    /\ UNCHANGED <<mbVars, current_priority, raised, got>>

SuspendSender(t, c) ==
    /\ Suspend(t, c)
    /\ suspend_sender_thread' =
            rt_ipc_list_suspend(suspend_sender_thread, t, Flag, current_priority)
    /\ UNCHANGED suspend_thread

SuspendReceiver(t, c) ==
    /\ Suspend(t, c)
    /\ suspend_thread' = rt_ipc_list_suspend(suspend_thread, t, Flag, current_priority)
    /\ UNCHANGED suspend_sender_thread

\* The call returns without touching the mailbox; code is left in thread->error.
Refuse(t, code) ==
    /\ Return(t)
    /\ error' = [error EXCEPT ![t] = code]
    /\ UNCHANGED <<mbVars, suspend_thread, suspend_sender_thread, stat, current_priority,
                   raised, got>>
-----------------------------------------------------------------------------
(***************************************************************************)
(* rt_mb_send_wait.  rt_mb_send is the call with timeout 0.                *)
(***************************************************************************)
rt_mb_send_wait(t, v, timeout) ==
    /\ ThreadRuns(t)
    /\ call[t].op = "none"
    /\ \/ /\ ~IsFull
          /\ PutMail(v)
          /\ UNCHANGED <<error, call, got>>
       \/ /\ IsFull
          /\ timeout = RT_WAITING_NO                  \* returns -RT_EFULL
          /\ UNCHANGED vars
       \/ /\ IsFull
          /\ timeout # RT_WAITING_NO
          /\ SuspendSender(t, NewCall("send", v, timeout))

\* The sender runs again after rt_schedule().
SendResumed(t) ==
    /\ ThreadRuns(t)
    /\ call[t].op = "send"
    /\ LET c == Recalculate(call[t]) IN
       \/ /\ error[t] # "EOK"                         \* returns thread->error
          /\ Refuse(t, error[t])
       \/ /\ error[t] = "EOK"
          /\ ~IsFull
          /\ PutMail(c.value)
          /\ Return(t)
          /\ UNCHANGED <<error, got>>
       \/ /\ error[t] = "EOK"
          /\ IsFull
          /\ c.timeout = RT_WAITING_NO                \* returns -RT_EFULL
          /\ Refuse(t, "EOK")
       \/ /\ error[t] = "EOK"
          /\ IsFull
          /\ c.timeout # RT_WAITING_NO
          /\ SuspendSender(t, c)

\* rt_mb_send from an interrupt handler: no thread, never waits (-RT_EFULL when the
\* box is full).  It may nest in the tick interrupt, before rt_timer_check.
IsrSend(v) ==
    /\ ~IsFull
    /\ PutMail(v)
    /\ UNCHANGED <<error, call, got>>

(***************************************************************************)
(* rt_mb_recv.                                                             *)
(***************************************************************************)
rt_mb_recv(t, timeout) ==
    /\ ThreadRuns(t)
    /\ call[t].op = "none"
    /\ \/ /\ ~IsEmpty
          /\ TakeMail(t)
          /\ UNCHANGED <<error, call>>
       \/ /\ IsEmpty
          /\ timeout = RT_WAITING_NO                  \* returns -RT_ETIMEOUT
          /\ UNCHANGED vars
       \/ /\ IsEmpty
          /\ timeout # RT_WAITING_NO
          /\ SuspendReceiver(t, NewCall("recv", NoMail, timeout))

\* The receiver runs again after rt_schedule().
RecvResumed(t) ==
    /\ ThreadRuns(t)
    /\ call[t].op = "recv"
    /\ LET c == Recalculate(call[t]) IN
       \/ /\ error[t] # "EOK"                         \* returns thread->error
          /\ Refuse(t, error[t])
       \/ /\ error[t] = "EOK"
          /\ ~IsEmpty
          /\ TakeMail(t)
          /\ Return(t)
          /\ UNCHANGED error
       \/ /\ error[t] = "EOK"
          /\ IsEmpty
          /\ c.timeout = RT_WAITING_NO                \* returns -RT_ETIMEOUT
          /\ Refuse(t, "ETIMEOUT")
       \/ /\ error[t] = "EOK"
          /\ IsEmpty
          /\ c.timeout # RT_WAITING_NO
          /\ SuspendReceiver(t, c)

\* Mutant: the reset forgets the input offset.
rt_mb_control_KeepOffset ==
    LET waiters == ToSet(suspend_thread) \cup ToSet(suspend_sender_thread) IN
    /\ Due = {}
    /\ \E t \in Threads : stat[t] = "ready" /\ call[t].op = "none"
    /\ stat' = [t \in Threads |-> IF t \in waiters THEN "ready" ELSE stat[t]]
    /\ error' = [t \in Threads |-> IF t \in waiters THEN "ERROR" ELSE error[t]]
    /\ suspend_thread' = <<>>
    /\ suspend_sender_thread' = <<>>
    /\ entry' = 0
    /\ out_offset' = 0
    /\ KeepPriorities
    /\ UNCHANGED <<in_offset, msg_pool, call, got>>

(***************************************************************************)
(* rt_mb_control(mb, RT_IPC_CMD_RESET): every waiter is resumed with       *)
(* -RT_ERROR and the mails are dropped.                                    *)
(***************************************************************************)
rt_mb_control ==
    LET waiters == ToSet(suspend_thread) \cup ToSet(suspend_sender_thread) IN
    /\ Due = {}
    /\ \E t \in Threads : stat[t] = "ready" /\ call[t].op = "none"
    /\ stat' = [t \in Threads |-> IF t \in waiters THEN "ready" ELSE stat[t]]
    /\ error' = [t \in Threads |-> IF t \in waiters THEN "ERROR" ELSE error[t]]
    /\ suspend_thread' = <<>>
    /\ suspend_sender_thread' = <<>>
    /\ entry' = 0
    /\ in_offset' = 0
    /\ out_offset' = 0
    /\ KeepPriorities
    /\ UNCHANGED <<msg_pool, call, got>>
-----------------------------------------------------------------------------
(***************************************************************************)
(* The tick interrupt: rt_tick_increase advances the clock, then           *)
(* rt_timer_check runs rt_thread_timeout for every expired thread timer.   *)
(***************************************************************************)
Aged(c) ==
    IF Timed(c) /\ c.since < c.timeout
    THEN [c EXCEPT !.since = @ + 1, !.age = @ + 1]
    ELSE c

rt_tick_increase ==
    /\ Due = {}
    /\ call' = [t \in Threads |-> Aged(call[t])]
    /\ UNCHANGED <<mbVars, suspend_thread, suspend_sender_thread, stat, error,
                   current_priority, raised, got>>

\* Mutant: the thread is made ready but stays linked in the waiting list.
rt_thread_timeout_StaysLinked(t) ==
    /\ t \in Due
    /\ error' = [error EXCEPT ![t] = "ETIMEOUT"]
    /\ stat' = [stat EXCEPT ![t] = "ready"]
    /\ KeepPriorities
    /\ UNCHANGED <<suspend_thread, suspend_sender_thread, mbVars, call, got>>

rt_thread_timeout(t) ==
    /\ t \in Due
    /\ error' = [error EXCEPT ![t] = "ETIMEOUT"]
    /\ stat' = [stat EXCEPT ![t] = "ready"]
    /\ suspend_thread' = Unlink(suspend_thread, t)
    /\ suspend_sender_thread' = Unlink(suspend_sender_thread, t)
    /\ KeepPriorities
    /\ UNCHANGED <<mbVars, call, got>>

\* rt_thread_resume of a waiting thread by somebody who knows nothing of the
\* mailbox, as vcom_init does to the shell thread: thread->error stays RT_EOK.
rt_thread_resume(t) ==
    /\ Due = {}
    /\ stat[t] = "suspend"
    /\ stat' = [stat EXCEPT ![t] = "ready"]
    /\ suspend_thread' = Unlink(suspend_thread, t)
    /\ suspend_sender_thread' = Unlink(suspend_sender_thread, t)
    /\ KeepPriorities
    /\ UNCHANGED <<mbVars, error, call, got>>
-----------------------------------------------------------------------------
(***************************************************************************)
(* The threads also own mutexes.  rt_thread_control(CHANGE_PRIORITY), which *)
(* only rt_mutex_take and rt_mutex_release call, assigns the priority of a *)
(* suspended thread where it is: its place in the mailbox's list remains.  *)
(***************************************************************************)
rt_thread_control(t, p) ==
    /\ current_priority' = [current_priority EXCEPT ![t] = p]
    /\ UNCHANGED <<mbVars, suspend_thread, suspend_sender_thread, stat, error, call, got>>

\* In rt_mutex_take: somebody more urgent is about to wait for a mutex t owns.
InheritPriority(t, p) ==
    /\ Due = {}
    /\ p < current_priority[t]
    /\ rt_thread_control(t, p)
    /\ raised' = IF stat[t] = "suspend" THEN raised \cup {t} ELSE raised

\* In rt_mutex_release by t itself, which therefore is in no call of the mailbox: it
\* goes back to the priority it had when it took the mutex.
GiveBackPriority(t, p) ==
    /\ ThreadRuns(t)
    /\ call[t].op = "none"
    /\ p # current_priority[t]
    /\ rt_thread_control(t, p)
    /\ UNCHANGED raised
-----------------------------------------------------------------------------
\* rt_mb_init / rt_mb_create.  The pool is not initialised: NoMail stands for
\* whatever the memory held.
Init ==
    /\ msg_pool = [i \in 0 .. Size - 1 |-> NoMail]
    /\ entry = 0
    /\ in_offset = 0
    /\ out_offset = 0
    /\ suspend_thread = <<>>
    /\ suspend_sender_thread = <<>>
    /\ stat = [t \in Threads |-> "ready"]
    /\ error = [t \in Threads |-> "EOK"]
    /\ current_priority = Prio
    /\ raised = {}
    /\ call = [t \in Threads |-> NoCall]
    /\ got = [t \in Threads |-> NoMail]

Next ==
    \/ \E t \in Threads, v \in Values, to \in Timeouts : rt_mb_send_wait(t, v, to)
    \/ \E t \in Threads, to \in Timeouts : rt_mb_recv(t, to)
    \/ \E t \in Threads : SendResumed(t)
    \/ \E t \in Threads : RecvResumed(t)
    \/ \E v \in Values : IsrSend(v)
    \/ rt_mb_control
    \/ rt_tick_increase
    \/ \E t \in Threads : rt_thread_timeout(t)
    \/ \E t \in Threads : rt_thread_resume(t)
    \/ \E t \in Threads, p \in Inherited : InheritPriority(t, p)
    \/ \E t \in Threads : \E p \in Inherited \cup {Prio[t]} : GiveBackPriority(t, p)

Spec == Init /\ [][Next]_vars

(***************************************************************************)
(* The tick interrupt keeps coming and a thread that is ready and in the   *)
(* middle of a call is eventually scheduled (the more urgent threads of    *)
(* the board all block).  Nobody is obliged to start a call.               *)
(***************************************************************************)
Fairness ==
    /\ WF_vars(rt_tick_increase)
    /\ \A t \in Threads :
          /\ WF_vars(rt_thread_timeout(t))
          /\ SF_vars(SendResumed(t))
          /\ SF_vars(RecvResumed(t))

FairSpec == Spec /\ Fairness
-----------------------------------------------------------------------------
Calls ==
    [op : {"none", "send", "recv"}, value : Values \cup {NoMail},
     timeout : Nat \cup {RT_WAITING_FOREVER}, since : Nat,
     limit : Nat \cup {RT_WAITING_FOREVER}, age : Nat]

\* Every variable holds a value of the C type it stands for, offsets inside the
\* pool included (msg_pool is indexed with them unchecked).
TypeOK ==
    /\ msg_pool \in [0 .. Size - 1 -> Values \cup {NoMail}]
    /\ entry \in 0 .. Size
    /\ in_offset \in 0 .. Size - 1
    /\ out_offset \in 0 .. Size - 1
    /\ suspend_thread \in Seq(Threads)
    /\ suspend_sender_thread \in Seq(Threads)
    /\ stat \in [Threads -> {"ready", "suspend"}]
    /\ error \in [Threads -> {"EOK", "ETIMEOUT", "ERROR"}]
    /\ current_priority \in [Threads -> Nat]
    /\ raised \subseteq Threads
    /\ call \in [Threads -> Calls]
    /\ got \in [Threads -> Values \cup {NoMail}]

\* The mails form one contiguous stretch of the ring: the slot to fill is always
\* entry slots after the slot to empty, across wrap-around and resets.
RingConsistent == in_offset = (out_offset + entry) % Size

\* Threads resumed for a mail (or a free slot) that have not run yet.
WokenReceivers ==
    {t \in Threads : call[t].op = "recv" /\ stat[t] = "ready" /\ error[t] = "EOK"}
WokenSenders ==
    {t \in Threads : call[t].op = "send" /\ stat[t] = "ready" /\ error[t] = "EOK"}

\* No lost wake-up: while receivers sleep, every mail in the box has a receiver on
\* its way to it; while senders sleep, every free slot has a sender on its way.
\* (rt_mb_send_wait and rt_mb_recv resume one waiter per mail and no more; mails
\* are overtaken, waiters time out, are reset and are resumed by others.)
NoLostWakeup ==
    /\ suspend_thread # <<>> => entry <= Cardinality(WokenReceivers)
    /\ suspend_sender_thread # <<>> => Size - entry <= Cardinality(WokenSenders)

\* A thread is suspended exactly when it is linked in the one list its call
\* belongs to, and it is linked there once.
ListsMatchStates ==
    /\ IsDuplicateFree(suspend_thread)
    /\ IsDuplicateFree(suspend_sender_thread)
    /\ \A t \in Threads :
          /\ t \in ToSet(suspend_thread) <=> stat[t] = "suspend" /\ call[t].op = "recv"
          /\ t \in ToSet(suspend_sender_thread) <=> stat[t] = "suspend" /\ call[t].op = "send"
          /\ stat[t] = "suspend" => call[t].op # "none"

\* Being overtaken and suspended again never stretches a wait: the time already
\* waited plus what the timer still has to run is what the caller asked for.
DeadlineKept ==
    \A t \in Threads :
        stat[t] = "suspend" /\ call[t].limit > 0 =>
            call[t].age + (call[t].timeout - call[t].since) = call[t].limit

\* With RT_IPC_FLAG_PRIO nobody waits behind a less urgent thread, unless it became
\* the more urgent one by inheritance while it was already waiting: such a waiter is not
\* moved, and what it overtakes in urgency stays in front of it.
PrioritySelected ==
    Flag = RT_IPC_FLAG_PRIO =>
        /\ IsPrioOrderedFor(suspend_thread, current_priority, Threads \ raised)
        /\ IsPrioOrderedFor(suspend_sender_thread, current_priority, Threads \ raised)

\* A call with a timeout always returns, however often its mail or its free slot
\* is taken by somebody else.
TimedCallReturns ==
    \A t \in Threads :
        (call[t].op # "none" /\ call[t].limit > 0) ~> (call[t].op = "none")

\* A mail that lies in the box while receivers sleep does not stay there: some
\* receiver comes for it (or a reset drops it).
MailIsFetched ==
    (suspend_thread # <<>> /\ entry > 0) ~> (entry = 0 \/ suspend_thread = <<>>)
=============================================================================
