------------------------------- MODULE Timer -------------------------------
(***************************************************************************)
(* The kernel timers rt_timer_* (rt-thread/src/timer.c): hard timers,      *)
(* called in the tick interrupt, and soft timers, called by the timer      *)
(* thread, which sleeps on a hard timer of its own (its thread_timer).     *)
(*                                                                         *)
(* Three actors take steps.  The tick interrupt runs with interrupts       *)
(* disabled, so nobody else moves until it returns.  The timer thread is   *)
(* more urgent (RT_TIMER_THREAD_PRIO 4) than every thread of the firmware  *)
(* that starts timers: the caller moves only while the timer thread is     *)
(* suspended.  Between two steps of a thread the tick may advance.         *)
(*                                                                         *)
(* RT_TIMER_SKIP_LIST_LEVEL is 1: a timer list is one sequence.            *)
(***************************************************************************)
EXTENDS Integers, FiniteSets, IpcList

CONSTANTS
    Hard, Soft,    \* the timers of the application, by RT_TIMER_FLAG_SOFT_TIMER
    ThreadTimer,   \* timer_thread.thread_timer, a hard timer
    TickMod,       \* number of values of rt_tick_t; 2^32 in the code
    Inits,         \* the values of init_tick each timer of the application is given
    CallbackOps,   \* what a timeout function may do with timers
    MaxLag,        \* bound: successive ticks that find a thread in the middle of its work
    NoTick, NoTimer

Timers == Hard \cup Soft \cup {ThreadTimer}
RT_TICK_MAX == TickMod - 1
Half == RT_TICK_MAX \div 2
Longest == Half - 2 * MaxLag - 2   \* bound: the longest timeout, lateness included shorter than Half
Ops == {"stop self", "stop other", "start self", "start other"}

ASSUME TimerAssumption ==
    /\ TickMod \in Nat \ {0} /\ MaxLag \in Nat \ {0} /\ Longest > 0
    /\ Inits \in [Hard \cup Soft -> (SUBSET (1 .. Longest)) \ {{}}]
    /\ CallbackOps \subseteq Ops
    /\ Hard \cap Soft = {} /\ ThreadTimer \notin Hard \cup Soft /\ NoTimer \notin Timers
    /\ NoTick \notin Nat

VARIABLES
    tick,     \* rt_tick
    timer,    \* the timer objects; left is history: the ticks to the deadline, as an integer
    list,     \* rt_timer_list ("hard") and rt_soft_timer_list ("soft")
    irq,      \* where rt_timer_check is, and the timer it calls
    thr,      \* the timer thread: where it is, the timer it calls or starts (and goes back to), and
              \* its variables n, current_tick (now) and next_timeout (next)
    app,      \* the caller: where it is in which call
    lag,      \* successive ticks that found a thread at work
    stopped,  \* history: rt_timer_stop has returned since the timer was last started
    missed,   \* history: the timer thread took a deadline for "no timer"
    crossed   \* history: the caller's rt_timer_start or rt_timer_stop wrote to a timer that a timeout
              \* function had started, and so linked, in the middle of the call

vars == <<tick, timer, list, irq, thr, app, lag, stopped, missed, crossed>>

Idle == [pc |-> "idle", t |-> NoTimer]

\* _rt_timer_init: deactivated, not linked.
_rt_timer_init(time, flag) ==
    [timeout_tick |-> NoTick, init_tick |-> time, active |-> FALSE, periodic |-> flag,
     left |-> 0]

Smallest(S) == CHOOSE i \in S : \A j \in S : i <= j

\* rt_system_timer_init, rt_system_timer_thread_init.
Init ==
    /\ tick = 0
    /\ timer = [t \in Timers |-> _rt_timer_init(IF t = ThreadTimer THEN 0 ELSE Smallest(Inits[t]), FALSE)]
    /\ list = [hard |-> <<>>, soft |-> <<>>]
    /\ irq = Idle /\ app = Idle
    /\ thr = [pc |-> "look", t |-> NoTimer, n |-> NoTimer, now |-> NoTick, next |-> NoTick, ret |-> NoTimer]
    /\ lag = 0 /\ stopped = {} /\ missed = FALSE /\ crossed = FALSE
-----------------------------------------------------------------------------
Kind(t) == IF t \in Soft THEN "soft" ELSE "hard"
Linked(t) == t \in Range(list[Kind(t)])

\* Difference of two ticks, as unsigned integers of the width of rt_tick_t.
Diff(a, b) == (a - b) % TickMod

\* Mutant: ticks are compared as numbers.
Due_Plain(t, now) == timer[t].timeout_tick <= now

\* "It supposes that the new tick shall less than the half duration of tick max."
Due(t, now) == Diff(now, timer[t].timeout_tick) < Half

\* Mutant: the search ends at the first deadline that is a larger number.
IsLater_Plain(at, deadline) == at > deadline

\* The search in rt_timer_start goes on at equal deadlines and ends at the first later one.
IsLater(at, deadline) == Diff(at, deadline) # 0 /\ Diff(at, deadline) < Half

\* The places in the list at which the search of rt_timer_start could end.
LaterPlaces(l, tm, t) ==
    {i \in DOMAIN l : IsLater(tm[l[i]].timeout_tick, tm[t].timeout_tick)}

\* The list walk of rt_timer_start and rt_list_insert_after.
Insert(l, tm, t) ==
    IF LaterPlaces(l, tm, t) = {} THEN Append(l, t)
    ELSE InsertAt(l, Smallest(LaterPlaces(l, tm, t)), t)

_rt_timer_remove(l, t) == [l EXCEPT ![Kind(t)] = Unlink(@, t)]

\* rt_soft_timer_check has saved the timer as the next one, or the caller is about to link it.
Held(t) == thr.n = t \/ (app.pc = "insert" /\ app.t = t)

\* The deadline of a timer that is not linked is not read again, unless it is held.
Forget(tm, t) ==
    IF Held(t) THEN tm ELSE [tm EXCEPT ![t].timeout_tick = NoTick, ![t].left = 0]

(***************************************************************************)
(* rt_timer_start has two sections with interrupts disabled.  Between them *)
(* the deadline is computed, where a tick can come.  In a timeout function *)
(* of the timer thread only ticks can come between, which touch no soft    *)
(* timer: there the computation belongs to the first section.              *)
(***************************************************************************)
WithDeadline(tm, t) ==
    [tm EXCEPT ![t].left = tm[t].init_tick, ![t].timeout_tick = (tick + tm[t].init_tick) % TickMod]
Deactivated(tm, t) == [tm EXCEPT ![t].active = FALSE]
StartBegun(tm, t) == WithDeadline(Deactivated(tm, t), t)
StartLinked(l, tm, t) == [l EXCEPT ![Kind(t)] = Insert(@, tm, t)]
Activated(tm, t) == [tm EXCEPT ![t].active = TRUE]

\* rt_timer_start where no tick can come between the two sections.
Started(tm, t) ==
    LET begun == StartBegun(tm, t)
    IN  /\ timer' = Activated(begun, t)
        /\ list' = StartLinked(_rt_timer_remove(list, t), begun, t)

\* rt_timer_stop where nobody can come between its steps.
Stopped(tm, l, t) ==
    IF tm[t].active
    THEN /\ list' = _rt_timer_remove(l, t)
         /\ timer' = Forget(Deactivated(tm, t), t)
    ELSE UNCHANGED <<timer, list>>
-----------------------------------------------------------------------------
(***************************************************************************)
(* rt_tick_increase and rt_timer_check, in the tick interrupt.             *)
(***************************************************************************)
Busy == thr.pc # "suspended" \/ app.pc # "idle"
Lowest == -(2 * MaxLag + 2)

Tick ==
    /\ irq = Idle
    /\ Busy => lag < MaxLag
    /\ tick' = (tick + 1) % TickMod
    /\ lag' = IF Busy THEN lag + 1 ELSE 0
    /\ timer' = [t \in Timers |->
                   IF timer[t].timeout_tick # NoTick /\ timer[t].left > Lowest
                   THEN [timer[t] EXCEPT !.left = @ - 1] ELSE timer[t]]
    /\ irq' = [pc |-> "check", t |-> NoTimer]
    /\ UNCHANGED <<list, thr, app, stopped, missed, crossed>>

CheckCall ==
    /\ irq.pc = "check" /\ list.hard # <<>> /\ Due(Head(list.hard), tick)
    /\ irq' = [pc |-> "call", t |-> Head(list.hard)]
    /\ list' = _rt_timer_remove(list, Head(list.hard))
    /\ UNCHANGED <<tick, timer, thr, app, lag, stopped, missed, crossed>>

CheckEnd ==
    /\ irq.pc = "check" /\ (list.hard # <<>> => ~Due(Head(list.hard), tick))
    /\ irq' = Idle
    /\ UNCHANGED <<tick, timer, list, thr, app, lag, stopped, missed, crossed>>

\* The timers a timeout function may stop or start: its own, or another of its kind, the one
\* that the caller is starting or stopping included.
Affected(self, other, t, kind) ==
    {u \in kind : IF u = t THEN self \in CallbackOps ELSE other \in CallbackOps}

\* The timeout function of a hard timer of the application.  The hard timers of the firmware
\* are thread timers, whose timeout function starts no timer.
HardCallback ==
    /\ irq.pc = "call" /\ irq.t \in Hard
    /\ irq' = [irq EXCEPT !.pc = "return"]
    /\ \/ UNCHANGED <<timer, list, stopped>>
       \/ \E u \in Affected("stop self", "stop other", irq.t, Hard) :
             /\ Stopped(timer, list, u)
             /\ stopped' = stopped \cup {u}
    /\ UNCHANGED <<tick, thr, app, lag, missed, crossed>>

\* rt_thread_timeout of the timer thread.
rt_thread_timeout ==
    /\ irq.pc = "call" /\ irq.t = ThreadTimer
    /\ irq' = [irq EXCEPT !.pc = "return"]
    /\ thr' = [thr EXCEPT !.pc = "check"]
    /\ UNCHANGED <<tick, timer, list, app, lag, stopped, missed, crossed>>

\* Mutant: a periodic timer is started again even if it was stopped in its timeout function.
Again_Always(t) == timer[t].periodic

\* After the timeout function, in both lists.
Again(t) == timer[t].periodic /\ timer[t].active

CheckReturn ==
    /\ irq.pc = "return"
    /\ irq' = [pc |-> "check", t |-> NoTimer]
    /\ IF Again(irq.t) THEN Started(timer, irq.t)
       ELSE LET cleared == Deactivated(timer, irq.t)
            IN  /\ timer' = IF Linked(irq.t) THEN cleared ELSE Forget(cleared, irq.t)
                /\ UNCHANGED list
    /\ UNCHANGED <<tick, thr, app, lag, stopped, missed, crossed>>

Interrupt == Tick \/ CheckCall \/ CheckEnd \/ HardCallback \/ rt_thread_timeout \/ CheckReturn
-----------------------------------------------------------------------------
(***************************************************************************)
(* rt_thread_timer_entry and rt_soft_timer_check, in the timer thread.     *)
(***************************************************************************)
ThreadAt(pc) == irq = Idle /\ thr.pc = pc

rt_timer_list_next_timeout(l) == IF l = <<>> THEN RT_TICK_MAX ELSE timer[Head(l)].timeout_tick

\* RT_TICK_MAX: "no software timer exist, suspend self."  rt_thread_suspend stops the thread
\* timer anyway.
SuspendSelf ==
    /\ ThreadAt("look")
    /\ rt_timer_list_next_timeout(list.soft) = RT_TICK_MAX
    /\ thr' = [thr EXCEPT !.pc = "suspended"]
    /\ Stopped(timer, list, ThreadTimer)
    /\ missed' = (missed \/ list.soft # <<>>)
    /\ UNCHANGED <<tick, irq, app, lag, stopped, crossed>>

Look ==
    /\ ThreadAt("look")
    /\ rt_timer_list_next_timeout(list.soft) # RT_TICK_MAX
    /\ thr' = [thr EXCEPT !.pc = "measure", !.next = rt_timer_list_next_timeout(list.soft)]
    /\ UNCHANGED <<tick, timer, list, irq, app, lag, stopped, missed, crossed>>

\* current_tick = rt_tick_get(), and the ticks to the deadline, if it has not passed.
Measure ==
    /\ ThreadAt("measure")
    /\ thr' = IF Diff(thr.next, tick) < Half
              THEN [thr EXCEPT !.pc = "delay", !.next = Diff(thr.next, tick)]
              ELSE [thr EXCEPT !.pc = "check", !.next = NoTick]
    /\ UNCHANGED <<tick, timer, list, irq, app, lag, stopped, missed, crossed>>

\* rt_thread_sleep: suspend, set and start the thread timer.
rt_thread_delay ==
    /\ ThreadAt("delay")
    /\ thr' = [thr EXCEPT !.pc = "suspended", !.next = NoTick]
    /\ Started([timer EXCEPT ![ThreadTimer].init_tick = thr.next], ThreadTimer)
    /\ UNCHANGED <<tick, irq, app, lag, stopped, missed, crossed>>

\* Begin of rt_soft_timer_check: the list is walked from its head.
SoftCheck ==
    /\ ThreadAt("check")
    /\ thr' = [thr EXCEPT !.pc = "walk", !.now = tick,
                          !.n = IF list.soft = <<>> THEN NoTimer ELSE Head(list.soft)]
    /\ UNCHANGED <<tick, timer, list, irq, app, lag, stopped, missed, crossed>>

\* n->next: NoTimer is the list head.  A node that was removed points to itself.
NextOf(n) ==
    IF ~Linked(n) THEN n
    ELSE LET i == CHOOSE j \in DOMAIN list.soft : list.soft[j] = n
         IN  IF i = Len(list.soft) THEN NoTimer ELSE list.soft[i + 1]

SoftCall ==
    /\ ThreadAt("walk") /\ thr.n # NoTimer /\ Due(thr.n, thr.now)
    /\ thr' = [thr EXCEPT !.pc = "callback", !.t = thr.n, !.n = NextOf(thr.n)]
    /\ list' = _rt_timer_remove(list, thr.n)
    /\ UNCHANGED <<tick, timer, irq, app, lag, stopped, missed, crossed>>

\* "not check anymore".
SoftEnd ==
    /\ ThreadAt("walk") /\ (thr.n # NoTimer => ~Due(thr.n, thr.now))
    /\ thr' = [thr EXCEPT !.pc = "look", !.n = NoTimer, !.now = NoTick]
    /\ UNCHANGED <<tick, timer, list, irq, app, lag, stopped, missed, crossed>>

\* The timeout function of a soft timer.
SoftCallback ==
    /\ ThreadAt("callback")
    /\ \/ /\ thr' = [thr EXCEPT !.pc = "return"]
          /\ UNCHANGED <<timer, list, stopped>>
       \/ \E u \in Affected("stop self", "stop other", thr.t, Soft) :
             /\ thr' = [thr EXCEPT !.pc = "return"]
             /\ Stopped(timer, list, u)
             /\ stopped' = stopped \cup {u}
       \/ \E u \in Affected("start self", "start other", thr.t, Soft) :
             /\ thr' = [thr EXCEPT !.pc = "insert", !.t = u, !.ret = thr.t]
             /\ timer' = StartBegun(timer, u)
             /\ list' = _rt_timer_remove(list, u)
             /\ stopped' = stopped \ {u}
    /\ UNCHANGED <<tick, irq, app, lag, missed, crossed>>

\* Second section of a start in the timer thread.
ThreadInserts ==
    /\ ThreadAt("insert")
    /\ thr' = IF thr.ret \in Soft THEN [thr EXCEPT !.pc = "return", !.t = thr.ret, !.ret = NoTimer]
              ELSE [thr EXCEPT !.pc = "walk", !.t = NoTimer]
    /\ timer' = Activated(timer, thr.t)
    /\ list' = StartLinked(list, timer, thr.t)
    /\ UNCHANGED <<tick, irq, app, lag, stopped, missed, crossed>>

\* Re-get tick; start the timer again or deactivate it.
SoftReturn ==
    /\ ThreadAt("return")
    /\ IF Again(thr.t)
       THEN /\ thr' = [thr EXCEPT !.pc = "insert", !.now = tick]
            /\ timer' = StartBegun(timer, thr.t)
            /\ list' = _rt_timer_remove(list, thr.t)
       ELSE LET cleared == Deactivated(timer, thr.t)
            IN  /\ thr' = [thr EXCEPT !.pc = "walk", !.t = NoTimer, !.now = tick]
                /\ timer' = IF Linked(thr.t) THEN cleared ELSE Forget(cleared, thr.t)
                /\ UNCHANGED list
    /\ UNCHANGED <<tick, irq, app, lag, stopped, missed, crossed>>

TimerThread ==
    \/ SuspendSelf \/ Look \/ Measure \/ rt_thread_delay
    \/ SoftCheck \/ SoftCall \/ SoftEnd \/ SoftCallback \/ ThreadInserts \/ SoftReturn
-----------------------------------------------------------------------------
(***************************************************************************)
(* The caller: rt_timer_start, rt_timer_stop, rt_timer_control,            *)
(* rt_timer_detach and rt_timer_init on the timers of the application.     *)
(***************************************************************************)
AppAt(pc) == irq = Idle /\ thr.pc = "suspended" /\ app.pc = pc
AppGoto(pc, t) == app' = [pc |-> pc, t |-> t]

\* The caller writes to its timer on the assumption that it is not linked.
CallerWrites == crossed' = (crossed \/ Linked(app.t))

\* First section: remove, clear ACTIVATED.
StartFirst(t) ==
    /\ AppAt("idle")
    /\ AppGoto("time", t)
    /\ timer' = Forget(Deactivated(timer, t), t)
    /\ list' = _rt_timer_remove(list, t)
    /\ stopped' = stopped \ {t}
    /\ UNCHANGED <<tick, irq, thr, lag, missed, crossed>>

\* Interrupts enabled: timeout_tick = rt_tick_get() + init_tick.
StartTime ==
    /\ AppAt("time")
    /\ AppGoto("insert", app.t)
    /\ timer' = WithDeadline(timer, app.t)
    /\ CallerWrites
    /\ UNCHANGED <<tick, list, irq, thr, lag, stopped, missed>>

\* Second section: link, without looking whether a timeout function has done so, set ACTIVATED.
StartSecond ==
    /\ AppAt("insert")
    /\ IF app.t \in Soft THEN AppGoto("wake", app.t) ELSE app' = Idle
    /\ timer' = Activated(timer, app.t)
    /\ list' = StartLinked(list, timer, app.t)
    /\ stopped' = stopped \ {app.t}
    /\ CallerWrites
    /\ UNCHANGED <<tick, irq, thr, lag, missed>>

\* Mutant: the timer thread is resumed only for the first timer of an empty list.
StartWake_IfFirst ==
    /\ AppAt("wake")
    /\ app' = Idle
    /\ IF Len(list.soft) = 1
       THEN /\ thr' = [thr EXCEPT !.pc = "check"]
            /\ Stopped(timer, list, ThreadTimer)
       ELSE UNCHANGED <<thr, timer, list>>
    /\ UNCHANGED <<tick, irq, lag, stopped, missed, crossed>>

\* Mutant: rt_thread_resume leaves the thread timer running.
StartWake_KeepsTimer ==
    /\ AppAt("wake")
    /\ app' = Idle
    /\ thr' = [thr EXCEPT !.pc = "check"]
    /\ UNCHANGED <<tick, timer, list, irq, lag, stopped, missed, crossed>>

\* The timer thread is suspended: rt_thread_resume, which stops its thread timer.
StartWake ==
    /\ AppAt("wake")
    /\ app' = Idle
    /\ thr' = [thr EXCEPT !.pc = "check"]
    /\ Stopped(timer, list, ThreadTimer)
    /\ UNCHANGED <<tick, irq, lag, stopped, missed, crossed>>

\* rt_timer_stop looks at the flag, removes, and clears the flag, in three steps.
StopTest(t) ==
    /\ AppAt("idle")
    /\ IF timer[t].active THEN AppGoto("remove", t) /\ UNCHANGED stopped
       ELSE app' = Idle /\ stopped' = stopped \cup {t}
    /\ UNCHANGED <<tick, timer, list, irq, thr, lag, missed, crossed>>

StopRemove ==
    /\ AppAt("remove")
    /\ AppGoto("clear", app.t)
    /\ list' = _rt_timer_remove(list, app.t)
    /\ timer' = Forget(timer, app.t)
    /\ UNCHANGED <<tick, irq, thr, lag, stopped, missed, crossed>>

StopClear ==
    /\ AppAt("clear")
    /\ app' = Idle
    /\ timer' = Deactivated(timer, app.t)
    /\ stopped' = stopped \cup {app.t}
    /\ CallerWrites
    /\ UNCHANGED <<tick, list, irq, thr, lag, missed>>

\* RT_TIMER_CTRL_SET_TIME, _SET_ONESHOT, _SET_PERIODIC: one assignment each.
rt_timer_control(t) ==
    /\ AppAt("idle")
    /\ \/ \E time \in Inits[t] : timer' = [timer EXCEPT ![t].init_tick = time]
       \/ \E flag \in BOOLEAN : timer' = [timer EXCEPT ![t].periodic = flag]
    /\ timer' # timer
    /\ UNCHANGED <<tick, list, irq, thr, app, lag, stopped, missed, crossed>>

\* rt_timer_detach, and rt_timer_init before the object is used again; rt_timer_delete and
\* rt_timer_create do the same to an object of the heap.
rt_timer_detach(t) ==
    /\ AppAt("idle")
    /\ list' = _rt_timer_remove(list, t)
    /\ \E time \in Inits[t], flag \in BOOLEAN :
          timer' = [timer EXCEPT ![t] = _rt_timer_init(time, flag)]
    /\ stopped' = stopped \ {t}
    /\ UNCHANGED <<tick, irq, thr, app, lag, missed, crossed>>

Continue == StartTime \/ StartSecond \/ StartWake \/ StopRemove \/ StopClear

Caller ==
    \/ Continue
    \/ \E t \in Hard \cup Soft :
          StartFirst(t) \/ StopTest(t) \/ rt_timer_control(t) \/ rt_timer_detach(t)

Next == Interrupt \/ TimerThread \/ Caller

Spec == Init /\ [][Next]_vars
-----------------------------------------------------------------------------
(***************************************************************************)
(* rt_timer_start links a timer without removing it first, and             *)
(* rt_timer_stop clears ACTIVATED after the section that removes.  When a  *)
(* timeout function starts the timer in between, it is linked twice,       *)
(* linked at the wrong place, or linked and not to be stopped: crossed.    *)
(* The properties speak of the time before the first such crossing; every  *)
(* other way in which a timeout function starts or stops the caller's      *)
(* timer is within them.                                                   *)
(***************************************************************************)

\* A running timer is in its list once, and both lists are in the order of the real deadlines, as
\* integers, although the deadlines wrap around and are compared modulo the width of rt_tick_t.
Sorted == ~crossed =>
    /\ \A k \in DOMAIN list : IsDuplicateFree(list[k])
    /\ ~missed => \A k \in DOMAIN list : \A i, j \in DOMAIN list[k] :
                      i < j => timer[list[k][i]].left <= timer[list[k][j]].left

\* The timer whose timeout function is about to run.
Called ==
    (IF irq.pc = "call" THEN {irq.t} ELSE {}) \cup (IF thr.pc = "callback" THEN {thr.t} ELSE {})

\* A hard timer is late only by the ticks that passed during rt_timer_start; a soft one also
\* by the tick that rt_thread_delay adds and by those the timer thread was busy.
Lateness(t) == IF t \in Soft THEN 2 * MaxLag + 1 ELSE MaxLag

\* No timer is called before its time, and none is called or left waiting later than that,
\* whatever is started, restarted and stopped around it.
OnTime ==
    ~missed /\ ~crossed =>
               /\ \A t \in Called : timer[t].left <= 0
               /\ \A t \in Timers : t \in Called \/ Linked(t) => timer[t].left >= -Lateness(t)

\* When the timer thread sleeps while soft timers are running, its thread timer ends the sleep
\* in time for the first of them, or the caller that has just started one is about to wake it.
SleepCovered ==
    thr.pc = "suspended" /\ list.soft # <<>> /\ ~missed /\ ~crossed =>
        \/ app.pc = "wake"
        \/ /\ Linked(ThreadTimer) \/ irq = [pc |-> "call", t |-> ThreadTimer]
           /\ timer[ThreadTimer].left <= timer[Head(list.soft)].left + MaxLag

\* rt_thread_timeout asserts that its thread is suspended: the timer thread never leaves its
\* thread timer running when something else woke it.
TimesOutSuspended ==
    irq = [pc |-> "call", t |-> ThreadTimer] /\ ~crossed => thr.pc = "suspended"

\* "This function will stop the timer": once rt_timer_stop has returned, whatever it returned,
\* the timeout function is not called again before the timer is started again.
StopHolds == ~crossed => \A t \in stopped : ~Linked(t) /\ t \notin Called
=============================================================================
