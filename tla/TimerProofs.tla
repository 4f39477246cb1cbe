---------------------------- MODULE TimerProofs ----------------------------
(***************************************************************************)
(* Safety of the kernel timers for any number of timers, any width of the  *)
(* tick and any times, whatever timeout functions do until a start of the  *)
(* timer that the interrupted call works on crosses with it (IInv), and    *)
(* that a timer that was stopped stays stopped, where timeout functions    *)
(* stop only themselves and start only others (StopInv).                   *)
(***************************************************************************)
EXTENDS Timer, IpcListProofs

Ticks == 0 .. RT_TICK_MAX
HardTimers == Hard \cup {ThreadTimer}
TimerRecs ==
    [timeout_tick : Ticks \cup {NoTick}, init_tick : Nat, active : BOOLEAN, periodic : BOOLEAN,
     left : Int]
Lists == [hard : Seq(HardTimers), soft : Seq(Soft)]
ThrPcs == {"look", "suspended", "measure", "delay", "check", "walk", "callback", "insert", "return"}

TypeOK ==
    /\ tick \in Ticks
    /\ timer \in [Timers -> TimerRecs]
    /\ list \in Lists
    /\ irq \in [pc : {"idle", "check", "call", "return"}, t : HardTimers \cup {NoTimer}]
    /\ thr \in [pc : ThrPcs, t : Soft \cup {NoTimer}, n : Soft \cup {NoTimer},
                now : Ticks \cup {NoTick}, next : Ticks \cup {NoTick}, ret : Soft \cup {NoTimer}]
    /\ app \in [pc : {"idle", "time", "insert", "wake", "remove", "clear"}, t : Hard \cup Soft \cup {NoTimer}]
    /\ stopped \in SUBSET (Hard \cup Soft)

\* A timer is in its list at most once.
LinkedOnce == IsDuplicateFree(list.hard) /\ IsDuplicateFree(list.soft)

\* A timer in a list has a deadline.
HasDeadline == \A t \in Timers : Linked(t) => timer[t].timeout_tick \in Ticks

\* The timer that the interrupt calls is not in the list.
IrqOwn ==
    /\ irq.pc \in {"call", "return"} => irq.t \in HardTimers /\ ~Linked(irq.t)
    /\ irq.pc \in {"idle", "check"} => irq.t = NoTimer

\* What the timer thread has in its hands at each place.
ThrOwn ==
    /\ thr.pc \in {"callback", "return", "insert"} => thr.t \in Soft
    /\ thr.pc = "insert" => ~Linked(thr.t) /\ timer[thr.t].timeout_tick \in Ticks
    /\ thr.pc \notin {"callback", "return", "insert"} => thr.t = NoTimer
    /\ thr.pc # "insert" => thr.ret = NoTimer
    /\ thr.pc \notin {"walk", "callback", "return", "insert"} => thr.n = NoTimer
    /\ thr.pc \in {"measure", "delay"} => thr.next \in Ticks

\* Before the second section of a start, the timer has a deadline, whatever timeout functions
\* have done to it in the meantime.
AppOwn ==
    /\ app.pc # "idle" => app.t \in Hard \cup Soft
    /\ app.pc = "insert" => timer[app.t].timeout_tick \in Ticks

\* The thread timer runs only while the timer thread sleeps.
SleepOwn ==
    /\ ~timer[ThreadTimer].periodic
    /\ Linked(ThreadTimer) => timer[ThreadTimer].active
    /\ Linked(ThreadTimer) \/ (irq.pc = "call" /\ irq.t = ThreadTimer) => thr.pc = "suspended"

IInv == TypeOK /\ LinkedOnce /\ HasDeadline /\ IrqOwn /\ ThrOwn /\ AppOwn /\ SleepOwn

-----------------------------------------------------------------------------
\* What the flag RT_TIMER_FLAG_ACTIVATED says.
ActiveOK ==
    /\ \A t \in Timers : Linked(t) => timer[t].active
    /\ \A t \in stopped : ~timer[t].active
    /\ irq.pc = "call" => timer[irq.t].active
    /\ thr.pc = "callback" => timer[thr.t].active
    /\ thr.pc = "insert" => thr.t \notin stopped

\* The next timer of the walk is in the list, and is not the one whose turn it is.
WalkOK ==
    /\ thr.n # NoTimer => Linked(thr.n) \/ (thr.pc = "insert" /\ thr.t = thr.n)
    /\ thr.pc \in {"callback", "return"} => thr.t # thr.n /\ ~Linked(thr.t)
    /\ thr.pc = "insert" /\ thr.ret # NoTimer => thr.ret \notin {thr.n, thr.t} /\ ~Linked(thr.ret)
    /\ thr.pc = "insert" /\ thr.ret = NoTimer => thr.t # thr.n

\* Timeout functions stop only their own timer and start only others.
SafeOps == "stop other" \notin CallbackOps /\ "start self" \notin CallbackOps

StopInv == IInv /\ (SafeOps => ActiveOK /\ WalkOK)

-----------------------------------------------------------------------------
(***************************************************************************)
(* The operators on lists and timer objects.                               *)
(***************************************************************************)
In(l, t) == t \in Range(l[Kind(t)])

\* Remainders of the width of the tick are ticks.
LEMMA ModTick ==
    ASSUME NEW a \in Int
    PROVE  a % TickMod \in Ticks
PROOF
<1>1. TickMod \in Nat /\ TickMod > 0
  BY TimerAssumption
<1>2. a % TickMod \in 0 .. TickMod - 1
  BY <1>1
<1> QED BY <1>1, <1>2 DEF Ticks, RT_TICK_MAX

\* The two kinds of timers, and their lists.
LEMMA KindFacts ==
    ASSUME NEW l \in Lists, NEW t \in Timers
    PROVE  /\ t \in Soft => Kind(t) = "soft" /\ l[Kind(t)] = l.soft /\ t \notin HardTimers
           /\ t \notin Soft => Kind(t) = "hard" /\ l[Kind(t)] = l.hard /\ t \in HardTimers
           /\ l.hard \in Seq(HardTimers) /\ l.soft \in Seq(Soft)
           /\ l = [hard |-> l.hard, soft |-> l.soft]
PROOF
BY TimerAssumption DEF Kind, Lists, Timers, HardTimers

\* The elements of a sequence, by both names.
LEMMA RangeIsToSet ==
    ASSUME NEW l
    PROVE  Range(l) = ToSet(l)
PROOF
BY DEF Range, ToSet

\* _rt_timer_remove takes the timer out and nothing else.
LEMMA RemoveFacts ==
    ASSUME NEW l \in Lists, IsDuplicateFree(l.hard), IsDuplicateFree(l.soft), NEW t \in Timers,
           NEW r, r = _rt_timer_remove(l, t)
    PROVE  /\ r \in Lists /\ IsDuplicateFree(r.hard) /\ IsDuplicateFree(r.soft)
           /\ \A u \in Timers : In(r, u) <=> In(l, u) /\ u # t
PROOF
<1>1. CASE t \in Soft
  <2>1. PICK m : m = Unlink(l.soft, t)
    OBVIOUS
  <2>3. m \in Seq(Soft) /\ Range(m) = Range(l.soft) \ {t} /\ IsDuplicateFree(m)
    <3>1. m \in Seq(Soft) /\ ToSet(m) = ToSet(l.soft) \ {t} /\ IsDuplicateFree(m)
      BY <1>1, <2>1, KindFacts, UnlinkFacts
    <3> QED BY <3>1, RangeIsToSet
  <2>4. r = [hard |-> l.hard, soft |-> m]
    <3>1. Kind(t) = "soft"
      BY <1>1, KindFacts
    <3>2. r = [l EXCEPT !.soft = m]
      BY <2>1, <3>1 DEF _rt_timer_remove
    <3> QED BY <3>2 DEF Lists
  <2>5. r.hard = l.hard /\ r.soft = m /\ r \in Lists
    BY <2>3, <2>4, KindFacts DEF Lists
  <2>6. ASSUME NEW u \in Timers PROVE In(r, u) <=> In(l, u) /\ u # t
    <3>1. CASE u \in Soft
      <4>1. r[Kind(u)] = m /\ l[Kind(u)] = l.soft
        BY <2>5, <3>1, KindFacts
      <4> QED BY <2>3, <4>1 DEF In
    <3>2. CASE u \notin Soft
      <4>1. r[Kind(u)] = l.hard /\ l[Kind(u)] = l.hard
        BY <2>5, <3>2, KindFacts
      <4> QED BY <1>1, <3>2, <4>1 DEF In
    <3> QED BY <3>1, <3>2
  <2> QED BY <2>3, <2>5, <2>6
<1>2. CASE t \notin Soft
  <2>1. PICK m : m = Unlink(l.hard, t)
    OBVIOUS
  <2>3. m \in Seq(HardTimers) /\ Range(m) = Range(l.hard) \ {t} /\ IsDuplicateFree(m)
    <3>1. m \in Seq(HardTimers) /\ ToSet(m) = ToSet(l.hard) \ {t} /\ IsDuplicateFree(m)
      BY <1>2, <2>1, KindFacts, UnlinkFacts
    <3> QED BY <3>1, RangeIsToSet
  <2>4. r = [hard |-> m, soft |-> l.soft]
    <3>1. Kind(t) = "hard"
      BY <1>2, KindFacts
    <3>2. r = [l EXCEPT !.hard = m]
      BY <2>1, <3>1 DEF _rt_timer_remove
    <3> QED BY <3>2 DEF Lists
  <2>5. r.soft = l.soft /\ r.hard = m /\ r \in Lists
    BY <2>3, <2>4, KindFacts DEF Lists
  <2>6. ASSUME NEW u \in Timers PROVE In(r, u) <=> In(l, u) /\ u # t
    <3>1. CASE u \notin Soft
      <4>1. r[Kind(u)] = m /\ l[Kind(u)] = l.hard
        BY <2>5, <3>1, KindFacts
      <4> QED BY <2>3, <4>1 DEF In
    <3>2. CASE u \in Soft
      <4>1. r[Kind(u)] = l.soft /\ l[Kind(u)] = l.soft
        BY <2>5, <3>2, KindFacts
      <4> QED BY <1>2, <3>2, <4>1 DEF In
    <3> QED BY <3>1, <3>2
  <2> QED BY <2>3, <2>5, <2>6
<1> QED BY <1>1, <1>2

\* The walk of rt_timer_start links the timer once, wherever it ends.
LEMMA InsertOnce ==
    ASSUME NEW T, NEW l \in Seq(T), NEW t \in T, IsDuplicateFree(l), t \notin Range(l), NEW tm,
           NEW r, r = Insert(l, tm, t)
    PROVE  r \in Seq(T) /\ IsDuplicateFree(r) /\ Range(r) = Range(l) \cup {t}
PROOF
<1>0. Len(l) \in Nat /\ DOMAIN l = 1 .. Len(l) /\ \A k \in 1 .. Len(l) : l[k] \in T /\ l[k] # t
  BY LenProperties, ElementOfSeq DEF Range
<1>1. PICK later : later = LaterPlaces(l, tm, t)
  OBVIOUS
<1>2. \E i \in 1 .. Len(l) + 1 :
         /\ r \in Seq(T) /\ DOMAIN r = 1 .. Len(l) + 1
         /\ \A j \in 1 .. Len(l) + 1 :
               r[j] = IF j < i THEN l[j] ELSE IF j = i THEN t ELSE l[j - 1]
  <2>1. CASE later = {}
    <3>1. r = Append(l, t)
      BY <1>1, <2>1, Zenon DEF Insert
    <3>2. /\ r \in Seq(T) /\ DOMAIN r = 1 .. Len(l) + 1
          /\ \A j \in 1 .. Len(l) : r[j] = l[j]
          /\ r[Len(l) + 1] = t
      BY <1>0, <3>1
    <3>3. Len(l) + 1 \in 1 .. Len(l) + 1
      BY <1>0
    <3>4. \A j \in 1 .. Len(l) + 1 :
             r[j] = IF j < Len(l) + 1 THEN l[j] ELSE IF j = Len(l) + 1 THEN t ELSE l[j - 1]
      BY <1>0, <3>2
    <3> QED BY <3>2, <3>3, <3>4
  <2>2. CASE later # {}
    <3>1. \E m \in later : \A n \in later : m <= n
      BY <1>0, <1>1, <2>2, SmallestNat DEF LaterPlaces
    <3>2. PICK c : c = Smallest(later)
      OBVIOUS
    <3>3. c \in later
      BY <3>1, <3>2, Zenon DEF Smallest
    <3>4. c \in 1 .. Len(l) /\ r = InsertAt(l, c, t)
      <4>1. c \in 1 .. Len(l)
        BY <1>0, <1>1, <3>3 DEF LaterPlaces
      <4>2. r = InsertAt(l, c, t)
        BY <1>1, <2>2, <3>2, Zenon DEF Insert
      <4> QED BY <4>1, <4>2
    <3>5. /\ r \in Seq(T) /\ Len(r) = Len(l) + 1
          /\ \A j \in 1 .. Len(l) + 1 :
                r[j] = IF j < c THEN l[j] ELSE IF j = c THEN t ELSE l[j - 1]
      <4>1. /\ InsertAt(l, c, t) \in Seq(T) /\ Len(InsertAt(l, c, t)) = Len(l) + 1
            /\ \A j \in 1 .. Len(l) + 1 :
                 InsertAt(l, c, t)[j] = IF j < c THEN l[j] ELSE IF j = c THEN t ELSE l[j - 1]
        BY <3>4, InsertAtFacts
      <4> QED BY <3>4, <4>1, Zenon
    <3>6. DOMAIN r = 1 .. Len(l) + 1
      BY <3>5, LenProperties
    <3>7. c \in 1 .. Len(l) + 1
      BY <1>0, <3>4
    <3> QED BY <3>5, <3>6, <3>7
  <2> QED BY <2>1, <2>2
<1>3. PICK i \in 1 .. Len(l) + 1 :
         /\ r \in Seq(T) /\ DOMAIN r = 1 .. Len(l) + 1
         /\ \A j \in 1 .. Len(l) + 1 :
               r[j] = IF j < i THEN l[j] ELSE IF j = i THEN t ELSE l[j - 1]
  BY <1>2
<1>4. r[i] = t
  BY <1>3
<1>5. \A j \in 1 .. Len(l) + 1 : j # i =>
         \E m \in 1 .. Len(l) : r[j] = l[m] /\ m = IF j < i THEN j ELSE j - 1
  BY <1>0, <1>3
<1>6. IsDuplicateFree(r)
  <2>1. SUFFICES ASSUME NEW j \in 1 .. Len(l) + 1, NEW k \in 1 .. Len(l) + 1, j # k
                 PROVE  r[j] # r[k]
    BY <1>3 DEF IsDuplicateFree
  <2>2. CASE j = i
    BY <1>0, <1>4, <1>5, <2>1, <2>2
  <2>3. CASE k = i
    BY <1>0, <1>4, <1>5, <2>1, <2>3
  <2>4. CASE j # i /\ k # i
    <3>1. PICK m \in 1 .. Len(l) : r[j] = l[m] /\ m = IF j < i THEN j ELSE j - 1
      BY <1>5, <2>4
    <3>2. PICK n \in 1 .. Len(l) : r[k] = l[n] /\ n = IF k < i THEN k ELSE k - 1
      BY <1>5, <2>4
    <3>3. m # n
      BY <2>1, <2>4, <3>1, <3>2
    <3> QED BY <1>0, <3>1, <3>2, <3>3 DEF IsDuplicateFree
  <2> QED BY <2>2, <2>3, <2>4
<1>7. Range(r) = Range(l) \cup {t}
  <2>1. ASSUME NEW x \in Range(r) PROVE x \in Range(l) \cup {t}
    <3>1. PICK j \in 1 .. Len(l) + 1 : x = r[j]
      BY <1>3, <2>1 DEF Range
    <3> QED BY <1>0, <1>4, <1>5, <3>1 DEF Range
  <2>2. ASSUME NEW x \in Range(l) PROVE x \in Range(r)
    <3>1. PICK m \in 1 .. Len(l) : x = l[m]
      BY <1>0, <2>2 DEF Range
    <3>2. CASE m < i
      <4>1. m \in 1 .. Len(l) + 1 /\ r[m] = x
        BY <1>0, <1>3, <3>1, <3>2
      <4> QED BY <1>3, <4>1 DEF Range
    <3>3. CASE ~(m < i)
      <4>1. m + 1 \in 1 .. Len(l) + 1 /\ ~(m + 1 < i) /\ m + 1 # i /\ (m + 1) - 1 = m
        BY <1>0, <3>3
      <4>2. r[m + 1] = x
        BY <1>3, <3>1, <4>1
      <4> QED BY <1>3, <4>1, <4>2 DEF Range
    <3> QED BY <3>2, <3>3
  <2>3. t \in Range(r)
    BY <1>3, <1>4 DEF Range
  <2> QED BY <2>1, <2>2, <2>3
<1> QED BY <1>3, <1>6, <1>7

\* The second section of rt_timer_start.
LEMMA LinkFacts ==
    ASSUME NEW l \in Lists, IsDuplicateFree(l.hard), IsDuplicateFree(l.soft), NEW t \in Timers,
           ~In(l, t), NEW tm, NEW r, r = StartLinked(l, tm, t)
    PROVE  /\ r \in Lists /\ IsDuplicateFree(r.hard) /\ IsDuplicateFree(r.soft)
           /\ \A u \in Timers : In(r, u) <=> In(l, u) \/ u = t
PROOF
<1>1. CASE t \in Soft
  <2>1. PICK m : m = Insert(l.soft, tm, t)
    OBVIOUS
  <2>2. t \notin Range(l.soft)
    BY <1>1, KindFacts DEF In
  <2>3. m \in Seq(Soft) /\ Range(m) = Range(l.soft) \cup {t} /\ IsDuplicateFree(m)
    BY <1>1, <2>1, <2>2, KindFacts, InsertOnce
  <2>4. r = [hard |-> l.hard, soft |-> m]
    <3>1. Kind(t) = "soft"
      BY <1>1, KindFacts
    <3>2. r = [l EXCEPT !.soft = m]
      BY <2>1, <3>1 DEF StartLinked
    <3> QED BY <3>2 DEF Lists
  <2>5. r.hard = l.hard /\ r.soft = m /\ r \in Lists
    BY <2>3, <2>4, KindFacts DEF Lists
  <2>6. ASSUME NEW u \in Timers PROVE In(r, u) <=> In(l, u) \/ u = t
    <3>1. CASE u \in Soft
      <4>1. r[Kind(u)] = m /\ l[Kind(u)] = l.soft
        BY <2>5, <3>1, KindFacts
      <4> QED BY <2>3, <4>1 DEF In
    <3>2. CASE u \notin Soft
      <4>1. r[Kind(u)] = l.hard /\ l[Kind(u)] = l.hard
        BY <2>5, <3>2, KindFacts
      <4> QED BY <1>1, <3>2, <4>1 DEF In
    <3> QED BY <3>1, <3>2
  <2> QED BY <2>3, <2>5, <2>6
<1>2. CASE t \notin Soft
  <2>1. PICK m : m = Insert(l.hard, tm, t)
    OBVIOUS
  <2>2. t \notin Range(l.hard)
    BY <1>2, KindFacts DEF In
  <2>3. m \in Seq(HardTimers) /\ Range(m) = Range(l.hard) \cup {t} /\ IsDuplicateFree(m)
    BY <1>2, <2>1, <2>2, KindFacts, InsertOnce
  <2>4. r = [hard |-> m, soft |-> l.soft]
    <3>1. Kind(t) = "hard"
      BY <1>2, KindFacts
    <3>2. r = [l EXCEPT !.hard = m]
      BY <2>1, <3>1 DEF StartLinked
    <3> QED BY <3>2 DEF Lists
  <2>5. r.soft = l.soft /\ r.hard = m /\ r \in Lists
    BY <2>3, <2>4, KindFacts DEF Lists
  <2>6. ASSUME NEW u \in Timers PROVE In(r, u) <=> In(l, u) \/ u = t
    <3>1. CASE u \notin Soft
      <4>1. r[Kind(u)] = m /\ l[Kind(u)] = l.hard
        BY <2>5, <3>1, KindFacts
      <4> QED BY <2>3, <4>1 DEF In
    <3>2. CASE u \in Soft
      <4>1. r[Kind(u)] = l.soft /\ l[Kind(u)] = l.soft
        BY <2>5, <3>2, KindFacts
      <4> QED BY <1>2, <3>2, <4>1 DEF In
    <3> QED BY <3>1, <3>2
  <2> QED BY <2>3, <2>5, <2>6
<1> QED BY <1>1, <1>2

\* The deadline is computed.
LEMMA DeadlineFacts ==
    ASSUME tick \in Ticks, NEW tm \in [Timers -> TimerRecs], NEW t \in Timers,
           NEW r, r = WithDeadline(tm, t)
    PROVE  /\ r \in [Timers -> TimerRecs]
           /\ \A u \in Timers \ {t} : r[u] = tm[u]
           /\ r[t].active = tm[t].active /\ r[t].periodic = tm[t].periodic
           /\ r[t].timeout_tick \in Ticks
           /\ r[t].init_tick = tm[t].init_tick /\ r[t].left = tm[t].init_tick
           /\ r[t].timeout_tick = (tick + tm[t].init_tick) % TickMod
PROOF
<1>1. tm[t] \in TimerRecs /\ tm[t].init_tick \in Nat
  BY DEF TimerRecs
<1>2. tick \in Int
  BY TimerAssumption DEF Ticks, RT_TICK_MAX
<1>3. PICK at \in Ticks : at = (tick + tm[t].init_tick) % TickMod
  <2>1. PICK a \in Int : a = tick + tm[t].init_tick
    BY <1>1, <1>2
  <2>2. a % TickMod \in Ticks
    BY ModTick
  <2> QED BY <2>1, <2>2
<1>4. PICK e : e = [tm[t] EXCEPT !.left = tm[t].init_tick, !.timeout_tick = at]
  OBVIOUS
<1>5. /\ e \in TimerRecs /\ e.active = tm[t].active /\ e.periodic = tm[t].periodic
      /\ e.timeout_tick = at /\ e.init_tick = tm[t].init_tick /\ e.left = tm[t].init_tick
  <2>1. e = [timeout_tick |-> at, init_tick |-> tm[t].init_tick, active |-> tm[t].active,
             periodic |-> tm[t].periodic, left |-> tm[t].init_tick]
    BY <1>1, <1>4 DEF TimerRecs
  <2>2. /\ at \in Ticks \cup {NoTick} /\ tm[t].init_tick \in Int
        /\ tm[t].active \in BOOLEAN /\ tm[t].periodic \in BOOLEAN
    BY <1>1 DEF TimerRecs
  <2> QED BY <1>1, <2>1, <2>2 DEF TimerRecs
<1>6. r = [tm EXCEPT ![t] = e]
  BY <1>3, <1>4 DEF WithDeadline
<1> QED BY <1>3, <1>5, <1>6

\* The flag is cleared.
LEMMA ClearedFacts ==
    ASSUME NEW tm \in [Timers -> TimerRecs], NEW t \in Timers, NEW r, r = Deactivated(tm, t)
    PROVE  /\ r \in [Timers -> TimerRecs]
           /\ \A u \in Timers \ {t} : r[u] = tm[u]
           /\ ~r[t].active /\ r[t].periodic = tm[t].periodic
           /\ r[t].timeout_tick = tm[t].timeout_tick
           /\ r[t].init_tick = tm[t].init_tick /\ r[t].left = tm[t].left
PROOF
<1>1. PICK e : e = [tm[t] EXCEPT !.active = FALSE]
  OBVIOUS
<1>2. /\ e \in TimerRecs /\ e.active = FALSE /\ e.periodic = tm[t].periodic
      /\ e.timeout_tick = tm[t].timeout_tick /\ e.init_tick = tm[t].init_tick
      /\ e.left = tm[t].left
  BY <1>1 DEF TimerRecs
<1>3. r = [tm EXCEPT ![t] = e]
  BY <1>1 DEF Deactivated
<1> QED BY <1>2, <1>3

\* The first section of rt_timer_start and the deadline.
LEMMA BegunFacts ==
    ASSUME tick \in Ticks, NEW tm \in [Timers -> TimerRecs], NEW t \in Timers,
           NEW r, r = StartBegun(tm, t)
    PROVE  /\ r \in [Timers -> TimerRecs]
           /\ \A u \in Timers \ {t} : r[u] = tm[u]
           /\ ~r[t].active /\ r[t].periodic = tm[t].periodic /\ r[t].timeout_tick \in Ticks
           /\ r[t].init_tick = tm[t].init_tick /\ r[t].left = tm[t].init_tick
           /\ r[t].timeout_tick = (tick + tm[t].init_tick) % TickMod
PROOF
<1>1. PICK c : c = Deactivated(tm, t)
  OBVIOUS
<1>2. /\ c \in [Timers -> TimerRecs] /\ \A u \in Timers \ {t} : c[u] = tm[u]
      /\ ~c[t].active /\ c[t].periodic = tm[t].periodic /\ c[t].init_tick = tm[t].init_tick
  BY <1>1, ClearedFacts
<1>3. r = WithDeadline(c, t)
  BY <1>1 DEF StartBegun
<1>4. /\ r \in [Timers -> TimerRecs] /\ \A u \in Timers \ {t} : r[u] = c[u]
      /\ r[t].active = c[t].active /\ r[t].periodic = c[t].periodic /\ r[t].timeout_tick \in Ticks
      /\ r[t].init_tick = c[t].init_tick /\ r[t].left = c[t].init_tick
      /\ r[t].timeout_tick = (tick + c[t].init_tick) % TickMod
  BY <1>2, <1>3, DeadlineFacts
<1> QED BY <1>2, <1>4

\* The flag is set.
LEMMA ActivatedFacts ==
    ASSUME NEW tm \in [Timers -> TimerRecs], NEW t \in Timers, NEW r, r = Activated(tm, t)
    PROVE  /\ r \in [Timers -> TimerRecs]
           /\ \A u \in Timers \ {t} : r[u] = tm[u]
           /\ r[t].active /\ r[t].periodic = tm[t].periodic
           /\ r[t].timeout_tick = tm[t].timeout_tick
           /\ r[t].init_tick = tm[t].init_tick /\ r[t].left = tm[t].left
PROOF
<1>1. PICK e : e = [tm[t] EXCEPT !.active = TRUE]
  OBVIOUS
<1>2. /\ e \in TimerRecs /\ e.active = TRUE /\ e.periodic = tm[t].periodic
      /\ e.timeout_tick = tm[t].timeout_tick /\ e.init_tick = tm[t].init_tick
      /\ e.left = tm[t].left
  BY <1>1 DEF TimerRecs
<1>3. r = [tm EXCEPT ![t] = e]
  BY <1>1 DEF Activated
<1> QED BY <1>2, <1>3

\* A timer that is not linked loses its deadline, not its flags.
LEMMA ForgetFacts ==
    ASSUME NEW tm \in [Timers -> TimerRecs], NEW t \in Timers, NEW r, r = Forget(tm, t)
    PROVE  /\ r \in [Timers -> TimerRecs]
           /\ \A u \in Timers \ {t} : r[u] = tm[u]
           /\ r[t].active = tm[t].active /\ r[t].periodic = tm[t].periodic
           /\ r[t].init_tick = tm[t].init_tick /\ (Held(t) => r = tm)
PROOF
<1>1. CASE Held(t)
  BY <1>1 DEF Forget
<1>2. CASE ~Held(t)
  <2>1. PICK e : e = [tm[t] EXCEPT !.timeout_tick = NoTick, !.left = 0]
    OBVIOUS
  <2>2. /\ e \in TimerRecs /\ e.active = tm[t].active /\ e.periodic = tm[t].periodic
        /\ e.init_tick = tm[t].init_tick
    <3>1. tm[t] \in TimerRecs
      OBVIOUS
    <3>2. e = [timeout_tick |-> NoTick, init_tick |-> tm[t].init_tick, active |-> tm[t].active,
               periodic |-> tm[t].periodic, left |-> 0]
      BY <2>1, <3>1 DEF TimerRecs
    <3>3. /\ NoTick \in Ticks \cup {NoTick} /\ tm[t].init_tick \in Nat
          /\ tm[t].active \in BOOLEAN /\ tm[t].periodic \in BOOLEAN
      BY <3>1 DEF TimerRecs
    <3> QED BY <3>2, <3>3 DEF TimerRecs
  <2>3. r = [tm EXCEPT ![t] = e]
    BY <1>2, <2>1 DEF Forget
  <2> QED BY <1>2, <2>2, <2>3
<1> QED BY <1>1, <1>2

\* rt_timer_start in one step.
LEMMA StartedFacts ==
    ASSUME tick \in Ticks, list \in Lists, LinkedOnce, NEW tm \in [Timers -> TimerRecs],
           NEW t \in Timers, Started(tm, t)
    PROVE  /\ timer' \in [Timers -> TimerRecs] /\ list' \in Lists /\ LinkedOnce'
           /\ \A u \in Timers \ {t} : timer'[u] = tm[u]
           /\ \A u \in Timers : In(list', u) <=> In(list, u) \/ u = t
           /\ timer'[t].active /\ timer'[t].periodic = tm[t].periodic
           /\ timer'[t].timeout_tick \in Ticks
           /\ timer'[t].init_tick = tm[t].init_tick /\ timer'[t].left = tm[t].init_tick
           /\ timer'[t].timeout_tick = (tick + tm[t].init_tick) % TickMod
PROOF
<1>1. PICK b : b = StartBegun(tm, t)
  OBVIOUS
<1>2. /\ b \in [Timers -> TimerRecs] /\ \A u \in Timers \ {t} : b[u] = tm[u]
      /\ b[t].periodic = tm[t].periodic /\ b[t].timeout_tick \in Ticks
      /\ b[t].init_tick = tm[t].init_tick /\ b[t].left = tm[t].init_tick
      /\ b[t].timeout_tick = (tick + tm[t].init_tick) % TickMod
  BY <1>1, BegunFacts
<1>3. timer' = Activated(b, t) /\ list' = StartLinked(_rt_timer_remove(list, t), b, t)
  BY <1>1 DEF Started
<1>4. /\ timer' \in [Timers -> TimerRecs] /\ \A u \in Timers \ {t} : timer'[u] = b[u]
      /\ timer'[t].active /\ timer'[t].periodic = b[t].periodic
      /\ timer'[t].timeout_tick = b[t].timeout_tick
      /\ timer'[t].init_tick = b[t].init_tick /\ timer'[t].left = b[t].left
  BY <1>2, <1>3, ActivatedFacts
<1>5. PICK l : l = _rt_timer_remove(list, t)
  OBVIOUS
<1>6. /\ l \in Lists /\ IsDuplicateFree(l.hard) /\ IsDuplicateFree(l.soft)
      /\ \A u \in Timers : In(l, u) <=> In(list, u) /\ u # t
  BY <1>5, RemoveFacts DEF LinkedOnce
<1>7. /\ list' \in Lists /\ IsDuplicateFree(list'.hard) /\ IsDuplicateFree(list'.soft)
      /\ \A u \in Timers : In(list', u) <=> In(l, u) \/ u = t
  BY <1>3, <1>5, <1>6, LinkFacts
<1> QED BY <1>2, <1>4, <1>6, <1>7 DEF LinkedOnce

\* rt_timer_stop in one step.
LEMMA StoppedFacts ==
    ASSUME list \in Lists, LinkedOnce, timer \in [Timers -> TimerRecs], NEW t \in Timers,
           Stopped(timer, list, t)
    PROVE  /\ timer' \in [Timers -> TimerRecs] /\ list' \in Lists /\ LinkedOnce'
           /\ \A u \in Timers \ {t} : timer'[u] = timer[u] /\ (In(list', u) <=> In(list, u))
           /\ In(list', t) => In(list, t) /\ ~timer[t].active
           /\ In(list', t) => timer'[t].timeout_tick = timer[t].timeout_tick
           /\ ~timer'[t].active /\ timer'[t].periodic = timer[t].periodic
           /\ timer'[t].init_tick = timer[t].init_tick
           /\ In(list', t) \/ Held(t) => /\ timer'[t].timeout_tick = timer[t].timeout_tick
                                      /\ timer'[t].left = timer[t].left
           /\ list' = list \/ list' = _rt_timer_remove(list, t)
PROOF
<1>1. CASE timer[t].active
  <2>1. PICK c : c = Deactivated(timer, t)
    OBVIOUS
  <2>2. /\ c \in [Timers -> TimerRecs] /\ \A u \in Timers \ {t} : c[u] = timer[u]
        /\ ~c[t].active /\ c[t].periodic = timer[t].periodic /\ c[t].init_tick = timer[t].init_tick
        /\ c[t].timeout_tick = timer[t].timeout_tick /\ c[t].left = timer[t].left
    BY <2>1, ClearedFacts
  <2>3. timer' = Forget(c, t) /\ list' = _rt_timer_remove(list, t)
    BY <1>1, <2>1 DEF Stopped
  <2>4. /\ timer' \in [Timers -> TimerRecs] /\ \A u \in Timers \ {t} : timer'[u] = c[u]
        /\ timer'[t].active = c[t].active /\ timer'[t].periodic = c[t].periodic
        /\ timer'[t].init_tick = c[t].init_tick /\ (Held(t) => timer' = c)
    BY <2>2, <2>3, ForgetFacts
  <2>5. /\ list' \in Lists /\ IsDuplicateFree(list'.hard) /\ IsDuplicateFree(list'.soft)
        /\ \A u \in Timers : In(list', u) <=> In(list, u) /\ u # t
    BY <2>3, RemoveFacts DEF LinkedOnce
  <2> QED BY <2>2, <2>3, <2>4, <2>5 DEF LinkedOnce
<1>2. CASE ~timer[t].active
  <2>1. timer' = timer /\ list' = list
    BY <1>2 DEF Stopped
  <2> QED BY <1>2, <2>1 DEF LinkedOnce
<1> QED BY <1>1, <1>2

-----------------------------------------------------------------------------
(***************************************************************************)
(* The steps.                                                              *)
(***************************************************************************)
\* The parts of the invariant.
LEMMA Parts ==
    ASSUME StopInv
    PROVE  /\ TypeOK /\ LinkedOnce /\ HasDeadline /\ IrqOwn /\ ThrOwn /\ AppOwn /\ SleepOwn
           /\ SafeOps => ActiveOK /\ WalkOK
           /\ NoTimer \notin HardTimers /\ NoTimer \notin Soft /\ NoTimer \notin Hard
           /\ ThreadTimer \notin Hard /\ ThreadTimer \notin Soft
           /\ Hard \subseteq Timers /\ Soft \subseteq Timers /\ HardTimers \subseteq Timers
           /\ ThreadTimer \in HardTimers /\ ThreadTimer \in Timers /\ HardTimers \cap Soft = {}
           /\ Hard \cap Soft = {} /\ Hard \subseteq HardTimers
PROOF
BY TimerAssumption DEF StopInv, IInv, Timers, HardTimers

\* Where lists, flags and deadlines are left alone, the lists are as before.
LEMMA QuietLists ==
    ASSUME StopInv, list' = list,
           \A u \in Timers : timer'[u].timeout_tick = timer[u].timeout_tick
    PROVE  LinkedOnce' /\ HasDeadline' /\ \A u : Linked(u)' <=> Linked(u)
PROOF
<1>1. \A u : Linked(u)' <=> Linked(u)
  BY DEF Linked
<1>2. LinkedOnce'
  BY Parts DEF LinkedOnce
<1>3. HasDeadline'
  BY <1>1, Parts DEF HasDeadline
<1> QED BY <1>1, <1>2, <1>3

\* The tick advances.
LEMMA TickStep ==
    ASSUME StopInv, Tick
    PROVE  StopInv'
PROOF
<1>0. TypeOK /\ irq = Idle
  BY Parts DEF Tick
<1>1. UNCHANGED <<list, thr, app, stopped, missed>> /\ irq' = [pc |-> "check", t |-> NoTimer]
  BY DEF Tick
<1>2. ASSUME NEW u \in Timers
      PROVE  /\ timer'[u] \in TimerRecs
             /\ timer'[u].active = timer[u].active /\ timer'[u].periodic = timer[u].periodic
             /\ timer'[u].timeout_tick = timer[u].timeout_tick
  <2>1. timer[u] \in TimerRecs
    BY <1>0 DEF TypeOK
  <2>2. timer'[u] = timer[u] \/ timer'[u] = [timer[u] EXCEPT !.left = @ - 1]
    BY DEF Tick
  <2> QED BY <2>1, <2>2 DEF TimerRecs
<1>3. timer' \in [Timers -> TimerRecs]
  BY <1>2 DEF Tick
<1>4. TypeOK'
  <2>1. tick' \in Ticks
    <3>1. tick + 1 \in Int
      BY <1>0, TimerAssumption DEF TypeOK, Ticks, RT_TICK_MAX
    <3> QED BY <3>1, ModTick DEF Tick
  <2> QED BY <1>0, <1>1, <1>3, <2>1 DEF TypeOK
<1>5. LinkedOnce' /\ HasDeadline' /\ \A u : Linked(u)' <=> Linked(u)
  BY <1>1, <1>2, QuietLists
<1>6. IrqOwn' /\ ThrOwn' /\ AppOwn' /\ SleepOwn'
  <2>1. IrqOwn'
    BY <1>1 DEF IrqOwn
  <2>2. ThrOwn'
    BY <1>1, <1>2, <1>5, Parts DEF ThrOwn
  <2>3. AppOwn'
    BY <1>0, <1>1, <1>2, <1>5, Parts DEF AppOwn, Idle, Timers
  <2>4. SleepOwn'
    BY <1>0, <1>1, <1>2, <1>5, Parts DEF SleepOwn
  <2> QED BY <2>1, <2>2, <2>3, <2>4
<1>7. ASSUME SafeOps PROVE ActiveOK' /\ WalkOK'
  <2>1. ActiveOK /\ WalkOK /\ ThrOwn /\ stopped \in SUBSET Timers
    BY <1>0, <1>7, Parts DEF TypeOK, Timers
  <2>2. ActiveOK'
    BY <1>1, <1>2, <1>5, <2>1, Parts DEF ActiveOK, ThrOwn
  <2>3. WalkOK'
    BY <1>1, <1>5, <2>1 DEF WalkOK
  <2> QED BY <2>2, <2>3
<1> QED BY <1>4, <1>5, <1>6, <1>7 DEF StopInv, IInv

\* rt_timer_check finds nothing more, or rt_thread_timeout runs.
LEMMA IrqQuietStep ==
    ASSUME StopInv, CheckEnd \/ rt_thread_timeout
    PROVE  StopInv'
PROOF
<1>0. TypeOK
  BY Parts
<1>1. UNCHANGED <<tick, timer, list, app, stopped, missed>>
  BY DEF CheckEnd, rt_thread_timeout
<1>2. \/ irq.pc = "check" /\ irq' = Idle /\ thr' = thr
      \/ /\ irq.pc = "call" /\ irq.t = ThreadTimer /\ irq' = [irq EXCEPT !.pc = "return"]
         /\ thr' = [thr EXCEPT !.pc = "check"]
  BY DEF CheckEnd, rt_thread_timeout
<1>3. LinkedOnce' /\ HasDeadline' /\ \A u : Linked(u)' <=> Linked(u)
  BY <1>1, QuietLists
<1>4. CASE irq.pc = "check" /\ irq' = Idle /\ thr' = thr
  <2>1. TypeOK'
    BY <1>0, <1>1, <1>4 DEF TypeOK, Idle
  <2>2. IrqOwn'
    BY <1>4 DEF IrqOwn, Idle
  <2>3. ThrOwn'
    BY <1>1, <1>3, <1>4, Parts DEF ThrOwn
  <2>4. AppOwn'
    BY <1>0, <1>1, <1>3, <1>4, Parts DEF AppOwn, Idle
  <2>5. SleepOwn'
    BY <1>1, <1>3, <1>4, Parts DEF SleepOwn, Idle
  <2>6. ASSUME SafeOps PROVE ActiveOK' /\ WalkOK'
    BY <1>1, <1>3, <1>4, <2>6, Parts DEF ActiveOK, WalkOK, Idle
  <2> QED BY <1>3, <2>1, <2>2, <2>3, <2>4, <2>5, <2>6 DEF StopInv, IInv
<1>5. CASE /\ irq.pc = "call" /\ irq.t = ThreadTimer /\ irq' = [irq EXCEPT !.pc = "return"]
           /\ thr' = [thr EXCEPT !.pc = "check"]
  <2>0. thr.pc = "suspended" /\ ~Linked(ThreadTimer)
    BY <1>5, Parts DEF SleepOwn, IrqOwn
  <2>1. TypeOK'
    BY <1>0, <1>1, <1>5 DEF TypeOK, ThrPcs
  <2>2. irq'.pc = "return" /\ irq'.t = ThreadTimer /\ thr'.pc = "check"
        /\ thr'.t = thr.t /\ thr'.n = thr.n /\ thr'.ret = thr.ret /\ thr'.next = thr.next
    BY <1>0, <1>5 DEF TypeOK
  <2>3. IrqOwn'
    BY <1>3, <2>0, <2>2, Parts DEF IrqOwn
  <2>4. ThrOwn'
    BY <1>1, <1>3, <2>0, <2>2, Parts DEF ThrOwn
  <2>5. AppOwn'
    BY <1>1, <1>3, <1>5, <2>2, Parts DEF AppOwn
  <2>6. SleepOwn'
    BY <1>1, <1>3, <2>0, <2>2, Parts DEF SleepOwn
  <2>7. ASSUME SafeOps PROVE ActiveOK' /\ WalkOK'
    BY <1>1, <1>3, <2>0, <2>2, <2>7, Parts DEF ActiveOK, WalkOK, ThrOwn
  <2> QED BY <1>3, <2>1, <2>3, <2>4, <2>5, <2>6, <2>7 DEF StopInv, IInv
<1> QED BY <1>2, <1>4, <1>5

\* The head of a list is a timer of its kind, and linked.
LEMMA HeadFacts ==
    ASSUME StopInv
    PROVE  /\ list.soft # <<>> => Head(list.soft) \in Soft /\ Linked(Head(list.soft))
           /\ list.hard # <<>> => Head(list.hard) \in HardTimers /\ Linked(Head(list.hard))
PROOF
<1>1. /\ list \in Lists /\ list.soft \in Seq(Soft) /\ list.hard \in Seq(HardTimers)
      /\ Soft \subseteq Timers /\ HardTimers \subseteq Timers /\ HardTimers \cap Soft = {}
  BY Parts DEF TypeOK, Lists
<1>2. ASSUME list.soft # <<>> PROVE Head(list.soft) \in Soft /\ Linked(Head(list.soft))
  <2>1. PICK h : h = Head(list.soft)
    OBVIOUS
  <2>2. h \in Soft /\ h \in Range(list.soft)
    BY <1>1, <1>2, <2>1 DEF Range
  <2>3. list[Kind(h)] = list.soft
    BY <1>1, <2>2, KindFacts
  <2> QED BY <2>1, <2>2, <2>3 DEF Linked
<1>3. ASSUME list.hard # <<>> PROVE Head(list.hard) \in HardTimers /\ Linked(Head(list.hard))
  <2>1. PICK h : h = Head(list.hard)
    OBVIOUS
  <2>2. h \in HardTimers /\ h \in Range(list.hard)
    BY <1>1, <1>3, <2>1 DEF Range
  <2>3. list[Kind(h)] = list.hard
    BY <1>1, <2>2, KindFacts
  <2> QED BY <2>1, <2>2, <2>3 DEF Linked
<1> QED BY <1>2, <1>3

\* The timer thread moves with no timer in its hands.
LEMMA ThrQuietStep ==
    ASSUME StopInv, irq = Idle, thr.pc # "suspended",
           UNCHANGED <<tick, timer, list, irq, app, stopped>>,
           TypeOK', thr'.t = NoTimer, thr'.ret = NoTimer,
           thr'.pc \in {"look", "measure", "delay", "check", "walk"},
           thr'.n = NoTimer \/ (thr'.pc = "walk" /\ Linked(thr'.n)),
           thr'.pc \in {"measure", "delay"} => thr'.next \in Ticks
    PROVE  StopInv'
PROOF
<1>1. LinkedOnce' /\ HasDeadline' /\ \A u : Linked(u)' <=> Linked(u)
  BY QuietLists
<1>2. IrqOwn'
  BY <1>1, Parts DEF IrqOwn
<1>3. ThrOwn'
  BY DEF ThrOwn
<1>4. AppOwn'
  BY <1>1, Parts DEF AppOwn, Idle
<1>5. SleepOwn'
  BY <1>1, Parts DEF SleepOwn
<1>6. ASSUME SafeOps PROVE ActiveOK' /\ WalkOK'
  <2>1. ActiveOK'
    BY <1>1, <1>6, Parts DEF ActiveOK
  <2>2. WalkOK'
    <3>1. (thr.n # NoTimer => Linked(thr.n))'
      BY DEF Linked
    <3> QED BY <3>1 DEF WalkOK
  <2> QED BY <2>1, <2>2
<1> QED BY <1>1, <1>2, <1>3, <1>4, <1>5, <1>6 DEF StopInv, IInv

\* The first deadline is read.
LEMMA LookStep ==
    ASSUME StopInv, Look
    PROVE  StopInv'
PROOF
<1>0. TypeOK /\ ThrOwn
  BY Parts
<1>1. /\ irq = Idle /\ thr.pc = "look" /\ UNCHANGED <<tick, timer, list, irq, app, stopped>>
      /\ thr' = [thr EXCEPT !.pc = "measure", !.next = rt_timer_list_next_timeout(list.soft)]
  BY DEF Look, ThreadAt
<1>2. rt_timer_list_next_timeout(list.soft) \in Ticks
  <2>1. list.soft # <<>>
    BY DEF Look, rt_timer_list_next_timeout
  <2>2. timer[Head(list.soft)].timeout_tick \in Ticks
    BY <2>1, HeadFacts, Parts DEF HasDeadline
  <2> QED BY <2>1, <2>2 DEF rt_timer_list_next_timeout
<1>3. PICK next \in Ticks : next = rt_timer_list_next_timeout(list.soft)
  BY <1>2
<1>4. /\ thr'.pc = "measure" /\ thr'.next = next /\ thr'.t = thr.t /\ thr'.n = thr.n
      /\ thr'.ret = thr.ret
      /\ thr' \in [pc : ThrPcs, t : Soft \cup {NoTimer}, n : Soft \cup {NoTimer},
                   now : Ticks \cup {NoTick}, next : Ticks \cup {NoTick}, ret : Soft \cup {NoTimer}]
  BY <1>0, <1>1, <1>3 DEF TypeOK, ThrPcs
<1>5. TypeOK'
  BY <1>0, <1>1, <1>4 DEF TypeOK
<1> QED BY <1>0, <1>1, <1>4, <1>5, ThrQuietStep DEF ThrOwn

\* The ticks to the deadline.
LEMMA MeasureStep ==
    ASSUME StopInv, Measure
    PROVE  StopInv'
PROOF
<1>0. TypeOK /\ ThrOwn
  BY Parts
<1>1. /\ irq = Idle /\ thr.pc = "measure" /\ UNCHANGED <<tick, timer, list, irq, app, stopped>>
  BY DEF Measure, ThreadAt
<1>2. PICK d \in Ticks : d = Diff(thr.next, tick)
  <2>1. thr.next \in Ticks /\ tick \in Ticks
    BY <1>0, <1>1 DEF ThrOwn, TypeOK
  <2>2. PICK a \in Int : a = thr.next - tick
    BY <2>1, TimerAssumption DEF Ticks, RT_TICK_MAX
  <2>3. a % TickMod \in Ticks
    BY ModTick
  <2> QED BY <2>2, <2>3 DEF Diff
<1>3. \/ thr' = [thr EXCEPT !.pc = "delay", !.next = d]
      \/ thr' = [thr EXCEPT !.pc = "check", !.next = NoTick]
  BY <1>2 DEF Measure
<1>4. /\ thr'.pc \in {"delay", "check"} /\ (thr'.pc = "delay" => thr'.next = d)
      /\ thr'.t = thr.t /\ thr'.n = thr.n /\ thr'.ret = thr.ret
      /\ thr' \in [pc : ThrPcs, t : Soft \cup {NoTimer}, n : Soft \cup {NoTimer},
                   now : Ticks \cup {NoTick}, next : Ticks \cup {NoTick}, ret : Soft \cup {NoTimer}]
  BY <1>0, <1>3 DEF TypeOK, ThrPcs
<1>5. TypeOK'
  BY <1>0, <1>1, <1>4 DEF TypeOK
<1> QED BY <1>0, <1>1, <1>4, <1>5, ThrQuietStep DEF ThrOwn

\* rt_soft_timer_check begins, or stops at a timer that is not due.
LEMMA SoftWalkStep ==
    ASSUME StopInv, SoftCheck \/ SoftEnd
    PROVE  StopInv'
PROOF
<1>0. TypeOK /\ ThrOwn
  BY Parts
<1>1. /\ irq = Idle /\ thr.pc \in {"check", "walk"}
      /\ UNCHANGED <<tick, timer, list, irq, app, stopped>>
  BY DEF SoftCheck, SoftEnd, ThreadAt
<1>2. CASE SoftCheck
  <2>1. PICK n \in Soft \cup {NoTimer} :
           /\ n = IF list.soft = <<>> THEN NoTimer ELSE Head(list.soft)
           /\ n = NoTimer \/ Linked(n)
    <3>1. CASE list.soft = <<>>
      BY <3>1
    <3>2. CASE list.soft # <<>>
      BY <3>2, HeadFacts
    <3> QED BY <3>1, <3>2
  <2>2. thr' = [thr EXCEPT !.pc = "walk", !.now = tick, !.n = n]
    BY <1>2, <2>1 DEF SoftCheck
  <2>3. /\ thr'.pc = "walk" /\ thr'.t = thr.t /\ thr'.n = n /\ thr'.ret = thr.ret
        /\ thr' \in [pc : ThrPcs, t : Soft \cup {NoTimer}, n : Soft \cup {NoTimer},
                   now : Ticks \cup {NoTick}, next : Ticks \cup {NoTick}, ret : Soft \cup {NoTimer}]
    BY <1>0, <2>2 DEF TypeOK, ThrPcs
  <2>4. TypeOK'
    BY <1>0, <1>1, <2>3 DEF TypeOK
  <2> QED BY <1>0, <1>1, <2>1, <2>3, <2>4, ThrQuietStep DEF ThrOwn
<1>3. CASE SoftEnd
  <2>1. thr' = [thr EXCEPT !.pc = "look", !.n = NoTimer, !.now = NoTick]
    BY <1>3 DEF SoftEnd
  <2>2. /\ thr'.pc = "look" /\ thr'.t = thr.t /\ thr'.n = NoTimer /\ thr'.ret = thr.ret
        /\ thr' \in [pc : ThrPcs, t : Soft \cup {NoTimer}, n : Soft \cup {NoTimer},
                   now : Ticks \cup {NoTick}, next : Ticks \cup {NoTick}, ret : Soft \cup {NoTimer}]
    BY <1>0, <2>1 DEF TypeOK, ThrPcs
  <2>3. TypeOK'
    BY <1>0, <1>1, <2>2 DEF TypeOK
  <2> QED BY <1>0, <1>1, <2>2, <2>3, ThrQuietStep DEF ThrOwn
<1> QED BY <1>2, <1>3

\* rt_timer_check takes the head of the list.
LEMMA CheckCallStep ==
    ASSUME StopInv, CheckCall
    PROVE  StopInv'
PROOF
<1>0. TypeOK /\ LinkedOnce /\ list \in Lists
  BY Parts DEF TypeOK
<1>1. PICK h \in HardTimers : h = Head(list.hard) /\ Linked(h)
  BY HeadFacts DEF CheckCall
<1>2. /\ irq.pc = "check" /\ irq' = [pc |-> "call", t |-> h] /\ list' = _rt_timer_remove(list, h)
      /\ UNCHANGED <<tick, timer, thr, app, stopped>>
  BY <1>1 DEF CheckCall
<1>3. /\ list' \in Lists /\ LinkedOnce'
      /\ \A u \in Timers : Linked(u)' <=> Linked(u) /\ u # h
  <2>1. h \in Timers
    BY Parts
  <2>2. /\ list' \in Lists /\ IsDuplicateFree(list'.hard) /\ IsDuplicateFree(list'.soft)
        /\ \A u \in Timers : In(list', u) <=> In(list, u) /\ u # h
    BY <1>0, <1>2, <2>1, RemoveFacts DEF LinkedOnce
  <2> QED BY <2>2 DEF LinkedOnce, In, Linked
<1>4. TypeOK'
  BY <1>0, <1>2, <1>3 DEF TypeOK
<1>5. HasDeadline' /\ IrqOwn'
  BY <1>2, <1>3, Parts DEF HasDeadline, IrqOwn
<1>6. ThrOwn'
  BY <1>2, <1>3, Parts DEF ThrOwn
<1>7. AppOwn'
  BY <1>1, <1>2, <1>3, Parts DEF AppOwn
<1>8. SleepOwn'
  BY <1>1, <1>2, <1>3, Parts DEF SleepOwn
<1>9. ASSUME SafeOps PROVE ActiveOK' /\ WalkOK'
  <2>1. ActiveOK /\ WalkOK /\ h \in Timers
    BY <1>9, Parts
  <2>2. ActiveOK'
    BY <1>1, <1>2, <1>3, <2>1 DEF ActiveOK
  <2>3. WalkOK'
    BY <1>0, <1>2, <1>3, <2>1, Parts DEF WalkOK, ThrOwn, TypeOK
  <2> QED BY <2>2, <2>3
<1> QED BY <1>3, <1>4, <1>5, <1>6, <1>7, <1>8, <1>9 DEF StopInv, IInv

\* The timeout function of a hard timer.
LEMMA HardCallbackStep ==
    ASSUME StopInv, HardCallback
    PROVE  StopInv'
PROOF
<1>0. TypeOK /\ LinkedOnce /\ list \in Lists /\ timer \in [Timers -> TimerRecs]
  BY Parts DEF TypeOK
<1>1. /\ irq.pc = "call" /\ irq.t \in Hard /\ irq' = [irq EXCEPT !.pc = "return"]
      /\ UNCHANGED <<tick, thr, app>>
  BY DEF HardCallback
<1>2. irq'.pc = "return" /\ irq'.t = irq.t
  BY <1>0, <1>1 DEF TypeOK
<1>3. CASE UNCHANGED <<timer, list, stopped>>
  <2>1. LinkedOnce' /\ HasDeadline' /\ \A u : Linked(u)' <=> Linked(u)
    BY <1>3, QuietLists
  <2>2. TypeOK'
    BY <1>0, <1>1, <1>3 DEF TypeOK
  <2>3. IrqOwn' /\ ThrOwn'
    BY <1>1, <1>2, <1>3, <2>1, Parts DEF IrqOwn, ThrOwn
  <2>4. AppOwn' /\ SleepOwn'
    BY <1>1, <1>2, <1>3, <2>1, Parts DEF AppOwn, SleepOwn
  <2>5. ASSUME SafeOps PROVE ActiveOK' /\ WalkOK'
    BY <1>1, <1>2, <1>3, <2>1, <2>5, Parts DEF ActiveOK, WalkOK
  <2> QED BY <2>1, <2>2, <2>3, <2>4, <2>5 DEF StopInv, IInv
<1>4. ASSUME NEW u \in Hard, Stopped(timer, list, u),
             stopped' = stopped \cup {u}
      PROVE  StopInv'
  <2>1. u \in Timers /\ u \notin Soft /\ u # ThreadTimer
    BY Parts
  <2>2. /\ timer' \in [Timers -> TimerRecs] /\ list' \in Lists /\ LinkedOnce'
        /\ \A v \in Timers \ {u} : timer'[v] = timer[v] /\ (Linked(v)' <=> Linked(v))
        /\ Linked(u)' => Linked(u) /\ ~timer[u].active
        /\ Linked(u)' => timer'[u].timeout_tick = timer[u].timeout_tick
        /\ ~timer'[u].active
        /\ app.pc = "insert" /\ app.t = u => timer'[u].timeout_tick = timer[u].timeout_tick
    BY <1>0, <1>4, <2>1, StoppedFacts DEF In, Linked, Held
  <2>3. TypeOK'
    BY <1>0, <1>1, <1>4, <2>2 DEF TypeOK
  <2>4. HasDeadline'
    BY <2>1, <2>2, Parts DEF HasDeadline
  <2>5. IrqOwn'
    BY <1>1, <1>2, <2>1, <2>2, Parts DEF IrqOwn
  <2>6. ThrOwn'
    BY <1>1, <2>1, <2>2, Parts DEF ThrOwn
  <2>7. AppOwn'
    BY <1>1, <2>1, <2>2, Parts DEF AppOwn
  <2>8. SleepOwn'
    BY <1>1, <1>2, <2>1, <2>2, Parts DEF SleepOwn
  <2>9. ASSUME SafeOps PROVE ActiveOK' /\ WalkOK'
    <3>1. ActiveOK /\ WalkOK /\ stopped \subseteq Timers /\ ~Linked(u)'
      BY <1>0, <2>1, <2>2, <2>9, Parts DEF ActiveOK, TypeOK
    <3>3. ActiveOK'
      BY <1>1, <1>2, <1>4, <2>1, <2>2, <3>1, Parts DEF ActiveOK, ThrOwn
    <3>4. WalkOK'
      BY <1>0, <1>1, <2>1, <2>2, <3>1, Parts DEF WalkOK, TypeOK, ThrOwn
    <3> QED BY <3>3, <3>4
  <2> QED BY <2>2, <2>3, <2>4, <2>5, <2>6, <2>7, <2>8, <2>9 DEF StopInv, IInv
<1> QED BY <1>3, <1>4 DEF HardCallback, Affected

\* After the timeout function: the timer is started again, or its flag cleared.
LEMMA CheckReturnStep ==
    ASSUME StopInv, CheckReturn
    PROVE  StopInv'
PROOF
<1>0. TypeOK /\ LinkedOnce /\ list \in Lists /\ timer \in [Timers -> TimerRecs] /\ tick \in Ticks
  BY Parts DEF TypeOK
<1>1. /\ irq.pc = "return" /\ irq' = [pc |-> "check", t |-> NoTimer]
      /\ UNCHANGED <<tick, thr, app, stopped>>
  BY DEF CheckReturn
<1>2. PICK t \in HardTimers : t = irq.t /\ ~Linked(t) /\ t \in Timers /\ t \notin Soft
  BY <1>1, Parts DEF IrqOwn
<1>4. /\ timer' \in [Timers -> TimerRecs] /\ list' \in Lists /\ LinkedOnce'
      /\ \A u \in Timers \ {t} : timer'[u] = timer[u] /\ (Linked(u)' <=> Linked(u))
      /\ timer'[t].periodic = timer[t].periodic
      /\ \/ /\ Again(t) /\ timer'[t].active /\ Linked(t)' /\ timer'[t].timeout_tick \in Ticks
         \/ /\ ~timer'[t].active /\ ~Linked(t)'
            /\ Held(t) => timer'[t].timeout_tick = timer[t].timeout_tick
  <2>1. CASE Again(t)
    <3>1. Started(timer, t)
      BY <1>2, <2>1 DEF CheckReturn
    <3> QED BY <1>0, <1>2, <2>1, <3>1, StartedFacts DEF In, Linked
  <2>2. CASE ~Again(t)
    <3>1. PICK c : c = Deactivated(timer, t)
      OBVIOUS
    <3>2. /\ c \in [Timers -> TimerRecs] /\ \A u \in Timers \ {t} : c[u] = timer[u]
          /\ ~c[t].active /\ c[t].periodic = timer[t].periodic
          /\ c[t].timeout_tick = timer[t].timeout_tick
      BY <1>0, <1>2, <3>1, ClearedFacts
    <3>3. timer' = Forget(c, t) /\ list' = list
      BY <1>2, <2>2, <3>1 DEF CheckReturn
    <3>4. /\ timer' \in [Timers -> TimerRecs] /\ \A u \in Timers \ {t} : timer'[u] = c[u]
          /\ timer'[t].active = c[t].active /\ timer'[t].periodic = c[t].periodic
          /\ Held(t) => timer' = c
      BY <1>2, <3>2, <3>3, ForgetFacts
    <3>5. LinkedOnce' /\ \A u : Linked(u)' <=> Linked(u)
      BY <1>0, <3>3 DEF LinkedOnce, Linked
    <3> QED BY <1>0, <1>2, <3>2, <3>3, <3>4, <3>5
  <2> QED BY <2>1, <2>2
<1>5. TypeOK'
  BY <1>0, <1>1, <1>4 DEF TypeOK
<1>6. HasDeadline'
  BY <1>4, Parts DEF HasDeadline
<1>7. IrqOwn'
  BY <1>1 DEF IrqOwn
<1>8. ThrOwn'
  BY <1>1, <1>2, <1>4, Parts DEF ThrOwn
<1>9. AppOwn'
  BY <1>1, <1>2, <1>4, Parts DEF AppOwn, Timers, Held
<1>10. SleepOwn'
  BY <1>1, <1>2, <1>4, Parts DEF SleepOwn, Again
<1>11. ASSUME SafeOps PROVE ActiveOK' /\ WalkOK'
  <2>1. ActiveOK /\ WalkOK /\ stopped \subseteq Timers
    BY <1>0, <1>11, Parts DEF TypeOK, Timers
  <2>2. ActiveOK'
    BY <1>1, <1>2, <1>4, <2>1, Parts DEF ActiveOK, ThrOwn, Again
  <2>3. WalkOK'
    BY <1>0, <1>1, <1>2, <1>4, <2>1, Parts DEF WalkOK, TypeOK, ThrOwn
  <2> QED BY <2>2, <2>3
<1> QED BY <1>4, <1>5, <1>6, <1>7, <1>8, <1>9, <1>10, <1>11 DEF StopInv, IInv

\* The timer thread suspends itself, for lack of a deadline or on its thread timer.
LEMMA SleepStep ==
    ASSUME StopInv, SuspendSelf \/ rt_thread_delay
    PROVE  StopInv'
PROOF
<1>0. TypeOK /\ LinkedOnce /\ list \in Lists /\ timer \in [Timers -> TimerRecs] /\ tick \in Ticks
  BY Parts DEF TypeOK
<1>1. /\ irq = Idle /\ thr.pc \in {"look", "delay"} /\ UNCHANGED <<tick, irq, app, stopped>>
  BY DEF SuspendSelf, rt_thread_delay, ThreadAt
<1>2. \/ thr' = [thr EXCEPT !.pc = "suspended"]
      \/ thr' = [thr EXCEPT !.pc = "suspended", !.next = NoTick]
  BY DEF SuspendSelf, rt_thread_delay
<1>3. /\ thr'.pc = "suspended" /\ thr'.t = thr.t /\ thr'.n = thr.n /\ thr'.ret = thr.ret
      /\ thr' \in [pc : ThrPcs, t : Soft \cup {NoTimer}, n : Soft \cup {NoTimer},
                   now : Ticks \cup {NoTick}, next : Ticks \cup {NoTick}, ret : Soft \cup {NoTimer}]
  BY <1>0, <1>2 DEF TypeOK, ThrPcs
<1>4. PICK t \in Timers : t = ThreadTimer
  BY Parts
<1>5. ~Linked(t) /\ ~timer[t].periodic
  BY <1>1, <1>4, Parts DEF SleepOwn
<1>6. /\ timer' \in [Timers -> TimerRecs] /\ list' \in Lists /\ LinkedOnce'
      /\ \A u \in Timers \ {t} : timer'[u] = timer[u] /\ (Linked(u)' <=> Linked(u))
      /\ Linked(t)' => timer'[t].active /\ timer'[t].timeout_tick \in Ticks
      /\ timer'[t].periodic = timer[t].periodic
  <2>1. CASE SuspendSelf
    <3>1. Stopped(timer, list, t)
      BY <1>4, <2>1 DEF SuspendSelf
    <3> QED BY <1>0, <1>5, <3>1, StoppedFacts DEF In, Linked
  <2>2. CASE rt_thread_delay
    <3>1. PICK tm : tm = [timer EXCEPT ![t].init_tick = thr.next]
      OBVIOUS
    <3>2. Started(tm, t)
      BY <1>4, <2>2, <3>1 DEF rt_thread_delay
    <3>3. tm \in [Timers -> TimerRecs] /\ tm[t].periodic = timer[t].periodic
          /\ \A u \in Timers \ {t} : tm[u] = timer[u]
      <4>1. thr.next \in Nat
        <5>1. thr.pc = "delay"
          BY <2>2 DEF rt_thread_delay, ThreadAt
        <5>2. thr.next \in Ticks
          BY <5>1, Parts DEF ThrOwn
        <5> QED BY <5>2, TimerAssumption DEF Ticks, RT_TICK_MAX
      <4>2. PICK e : e = [timer[t] EXCEPT !.init_tick = thr.next]
        OBVIOUS
      <4>3. e \in TimerRecs /\ e.periodic = timer[t].periodic
        BY <1>0, <4>1, <4>2 DEF TimerRecs
      <4>4. tm = [timer EXCEPT ![t] = e]
        BY <1>0, <3>1, <4>2
      <4> QED BY <1>0, <4>3, <4>4
    <3> QED BY <1>0, <3>2, <3>3, StartedFacts DEF In, Linked
  <2> QED BY <2>1, <2>2
<1>7. TypeOK'
  BY <1>0, <1>1, <1>3, <1>6 DEF TypeOK
<1>8. HasDeadline'
  BY <1>6, Parts DEF HasDeadline
<1>9. IrqOwn'
  BY <1>1, Parts DEF IrqOwn, Idle
<1>10. ThrOwn'
  BY <1>1, <1>3, Parts DEF ThrOwn
<1>11. AppOwn'
  BY <1>1, <1>3, <1>4, <1>6, Parts DEF AppOwn
<1>12. SleepOwn'
  BY <1>1, <1>3, <1>4, <1>5, <1>6 DEF SleepOwn
<1>13. ASSUME SafeOps PROVE ActiveOK' /\ WalkOK'
  <2>1. ActiveOK /\ stopped \subseteq Timers \ {t}
    BY <1>0, <1>4, <1>13, Parts DEF TypeOK
  <2>2. ActiveOK'
    BY <1>1, <1>3, <1>6, <2>1 DEF ActiveOK, Idle
  <2>3. WalkOK'
    BY <1>1, <1>3, Parts DEF WalkOK, ThrOwn
  <2> QED BY <2>2, <2>3
<1> QED BY <1>6, <1>7, <1>8, <1>9, <1>10, <1>11, <1>12, <1>13 DEF StopInv, IInv

\* n->next of a timer that is linked is another one; of one that is not, itself.
LEMMA NextFacts ==
    ASSUME StopInv, NEW n \in Soft
    PROVE  /\ NextOf(n) \in Soft \cup {NoTimer}
           /\ NextOf(n) = NoTimer \/ NextOf(n) = n \/ Linked(NextOf(n))
           /\ Linked(n) => NextOf(n) # n /\ (NextOf(n) # NoTimer => Linked(NextOf(n)))
PROOF
<1>1. /\ list \in Lists /\ list.soft \in Seq(Soft) /\ n \in Timers /\ n # NoTimer
      /\ IsDuplicateFree(list.soft)
  BY Parts DEF TypeOK, Lists, LinkedOnce
<1>2. CASE ~Linked(n)
  BY <1>2 DEF NextOf
<1>3. CASE Linked(n)
  <2>1. Len(list.soft) \in Nat /\ DOMAIN list.soft = 1 .. Len(list.soft)
    BY <1>1, LenProperties
  <2>2. \E j \in DOMAIN list.soft : list.soft[j] = n
    <3>1. n \in Range(list.soft)
      BY <1>1, <1>3, KindFacts DEF Linked
    <3> QED BY <3>1 DEF Range
  <2>3. PICK i : i = CHOOSE j \in DOMAIN list.soft : list.soft[j] = n
    OBVIOUS
  <2>4. i \in DOMAIN list.soft /\ list.soft[i] = n
    BY <2>2, <2>3, Zenon
  <2>5. NextOf(n) = IF i = Len(list.soft) THEN NoTimer ELSE list.soft[i + 1]
    BY <1>3, <2>3 DEF NextOf
  <2>6. CASE i = Len(list.soft)
    BY <1>1, <2>5, <2>6
  <2>7. CASE i # Len(list.soft)
    <3>1. i + 1 \in DOMAIN list.soft /\ i + 1 # i
      BY <2>1, <2>4, <2>7
    <3>2. PICK m : m = list.soft[i + 1]
      OBVIOUS
    <3>3. m \in Soft /\ m \in Range(list.soft)
      BY <1>1, <2>1, <3>1, <3>2, ElementOfSeq DEF Range
    <3>4. m # n
      BY <1>1, <2>4, <3>1, <3>2 DEF IsDuplicateFree
    <3>5. Linked(m)
      <4>1. m \in Timers
        BY <3>3, Parts
      <4> QED BY <1>1, <3>3, <4>1, KindFacts DEF Linked
    <3> QED BY <2>5, <2>7, <3>2, <3>3, <3>4, <3>5
  <2> QED BY <2>6, <2>7
<1> QED BY <1>2, <1>3

\* A timer of the walk is due.
LEMMA SoftCallStep ==
    ASSUME StopInv, SoftCall
    PROVE  StopInv'
PROOF
<1>0. TypeOK /\ LinkedOnce /\ list \in Lists
  BY Parts DEF TypeOK
<1>1. /\ irq = Idle /\ thr.pc = "walk" /\ UNCHANGED <<tick, timer, irq, app, stopped>>
  BY DEF SoftCall, ThreadAt
<1>2. PICK n \in Soft : n = thr.n /\ n \in Timers /\ n # ThreadTimer /\ n # NoTimer
  BY <1>0, Parts DEF SoftCall, TypeOK
<1>3. PICK m \in Soft \cup {NoTimer} :
         /\ m = NextOf(n) /\ (m = NoTimer \/ m = n \/ Linked(m))
         /\ Linked(n) => m # n /\ (m # NoTimer => Linked(m))
  BY NextFacts
<1>4. thr' = [thr EXCEPT !.pc = "callback", !.t = n, !.n = m] /\ list' = _rt_timer_remove(list, n)
  BY <1>2, <1>3 DEF SoftCall
<1>5. /\ thr'.pc = "callback" /\ thr'.t = n /\ thr'.n = m /\ thr'.ret = thr.ret
      /\ thr' \in [pc : ThrPcs, t : Soft \cup {NoTimer}, n : Soft \cup {NoTimer},
                   now : Ticks \cup {NoTick}, next : Ticks \cup {NoTick}, ret : Soft \cup {NoTimer}]
  BY <1>0, <1>4 DEF TypeOK, ThrPcs
<1>6. /\ list' \in Lists /\ LinkedOnce'
      /\ \A u \in Timers : Linked(u)' <=> Linked(u) /\ u # n
  <2>1. /\ list' \in Lists /\ IsDuplicateFree(list'.hard) /\ IsDuplicateFree(list'.soft)
        /\ \A u \in Timers : In(list', u) <=> In(list, u) /\ u # n
    BY <1>0, <1>2, <1>4, RemoveFacts DEF LinkedOnce
  <2> QED BY <2>1 DEF LinkedOnce, In, Linked
<1>7. TypeOK'
  BY <1>0, <1>1, <1>5, <1>6 DEF TypeOK
<1>8. HasDeadline'
  BY <1>1, <1>6, Parts DEF HasDeadline
<1>9. IrqOwn'
  BY <1>1, Parts DEF IrqOwn, Idle
<1>10. ThrOwn'
  BY <1>1, <1>2, <1>5, Parts DEF ThrOwn
<1>11. AppOwn'
  BY <1>1, <1>2, <1>3, <1>5, <1>6, Parts DEF AppOwn
<1>12. SleepOwn'
  BY <1>1, <1>2, <1>5, <1>6, Parts DEF SleepOwn, Idle
<1>13. ASSUME SafeOps PROVE ActiveOK' /\ WalkOK'
  <2>1. ActiveOK /\ WalkOK /\ Linked(n)
    BY <1>1, <1>2, <1>13, Parts DEF WalkOK
  <2>2. ActiveOK'
    BY <1>1, <1>2, <1>5, <1>6, <2>1 DEF ActiveOK, Idle
  <2>3. m = NoTimer \/ Linked(m)'
    BY <1>3, <1>6, <2>1, Parts
  <2>4. WalkOK'
    BY <1>2, <1>3, <1>5, <1>6, <2>1, <2>3 DEF WalkOK
  <2> QED BY <2>2, <2>4
<1> QED BY <1>6, <1>7, <1>8, <1>9, <1>10, <1>11, <1>12, <1>13 DEF StopInv, IInv

\* The first section of a start, in a state of the timers.
LEMMA StartFacts ==
    ASSUME StopInv, NEW u \in Timers, timer' = StartBegun(timer, u)
    PROVE  /\ timer' \in [Timers -> TimerRecs] /\ \A v \in Timers \ {u} : timer'[v] = timer[v]
           /\ ~timer'[u].active /\ timer'[u].timeout_tick \in Ticks
           /\ timer'[u].periodic = timer[u].periodic
           /\ timer'[u].init_tick = timer[u].init_tick /\ timer'[u].left = timer[u].init_tick
           /\ timer'[u].timeout_tick = (tick + timer[u].init_tick) % TickMod
PROOF
<1>1. tick \in Ticks /\ timer \in [Timers -> TimerRecs]
  BY Parts DEF TypeOK
<1> QED BY <1>1, BegunFacts

\* The timeout function of a soft timer stops a timer, or none.
LEMMA SoftCallbackStops ==
    ASSUME StopInv, irq = Idle, thr.pc = "callback", UNCHANGED <<tick, irq, app>>,
           thr' = [thr EXCEPT !.pc = "return"],
           NEW u \in Soft, u = thr.t \/ "stop other" \in CallbackOps,
           \/ UNCHANGED <<timer, list, stopped>>
           \/ Stopped(timer, list, u) /\ stopped' = stopped \cup {u}
    PROVE  StopInv'
PROOF
<1>0. TypeOK /\ LinkedOnce /\ list \in Lists /\ timer \in [Timers -> TimerRecs]
  BY Parts DEF TypeOK
<1>1. u \in Timers /\ u # ThreadTimer /\ u # NoTimer
  BY Parts
<1>2. /\ thr'.pc = "return" /\ thr'.t = thr.t /\ thr'.n = thr.n /\ thr'.ret = thr.ret
      /\ thr' \in [pc : ThrPcs, t : Soft \cup {NoTimer}, n : Soft \cup {NoTimer},
                   now : Ticks \cup {NoTick}, next : Ticks \cup {NoTick}, ret : Soft \cup {NoTimer}]
  BY <1>0 DEF TypeOK, ThrPcs
<1>3. /\ timer' \in [Timers -> TimerRecs] /\ list' \in Lists /\ LinkedOnce'
      /\ \A v \in Timers \ {u} : timer'[v] = timer[v] /\ (Linked(v)' <=> Linked(v))
      /\ Linked(u)' => Linked(u) /\ (timer' = timer \/ ~timer[u].active)
      /\ Linked(u)' => timer'[u].timeout_tick = timer[u].timeout_tick
      /\ timer' = timer \/ ~timer'[u].active
      /\ app.pc = "insert" /\ app.t = u => timer'[u].timeout_tick = timer[u].timeout_tick
      /\ stopped' \subseteq stopped \cup {u} /\ (u \in stopped' => u \in stopped \/ ~timer'[u].active)
  <2>1. CASE UNCHANGED <<timer, list, stopped>>
    BY <1>0, <2>1 DEF LinkedOnce, Linked
  <2>2. CASE Stopped(timer, list, u) /\ stopped' = stopped \cup {u}
    BY <1>0, <1>1, <2>2, StoppedFacts DEF In, Linked, Held
  <2> QED BY <2>1, <2>2
<1>4. TypeOK'
  <2>1. stopped' \subseteq Hard \cup Soft
    BY <1>0, <1>3 DEF TypeOK
  <2> QED BY <1>0, <1>2, <1>3, <2>1 DEF TypeOK
<1>5. HasDeadline'
  BY <1>1, <1>3, Parts DEF HasDeadline
<1>6. IrqOwn'
  BY Parts DEF IrqOwn, Idle
<1>7. ThrOwn'
  BY <1>2, Parts DEF ThrOwn
<1>9. AppOwn'
  BY <1>1, <1>3, Parts DEF AppOwn
<1>10. SleepOwn'
  BY <1>1, <1>2, <1>3, Parts DEF SleepOwn, Idle
<1>11. ASSUME SafeOps PROVE ActiveOK' /\ WalkOK'
  <2>1. ActiveOK /\ WalkOK /\ u = thr.t /\ stopped \subseteq Timers
    BY <1>0, <1>11, Parts DEF SafeOps, TypeOK
  <2>2. ~Linked(u) /\ u # thr.n /\ ~Linked(u)'
    BY <1>3, <2>1 DEF WalkOK
  <2>3. ActiveOK'
    BY <1>1, <1>2, <1>3, <2>1, <2>2 DEF ActiveOK, Idle
  <2>4. WalkOK'
    BY <1>0, <1>2, <1>3, <2>1, <2>2, Parts DEF WalkOK, TypeOK
  <2> QED BY <2>3, <2>4
<1> QED BY <1>3, <1>4, <1>5, <1>6, <1>7, <1>9, <1>10, <1>11 DEF StopInv, IInv

\* The timeout function of a soft timer begins to start a timer.
LEMMA SoftCallbackStarts ==
    ASSUME StopInv, irq = Idle, thr.pc = "callback", UNCHANGED <<tick, irq, app>>,
           NEW u \in Soft, thr' = [thr EXCEPT !.pc = "insert", !.t = u, !.ret = thr.t],
           u # thr.t \/ "start self" \in CallbackOps,
           timer' \in [Timers -> TimerRecs], \A v \in Timers \ {u} : timer'[v] = timer[v],
           ~timer'[u].active, timer'[u].timeout_tick \in Ticks, list' = _rt_timer_remove(list, u),
           stopped' = stopped \ {u}
    PROVE  StopInv'
PROOF
<1>0. /\ TypeOK /\ LinkedOnce /\ list \in Lists /\ timer \in [Timers -> TimerRecs] /\ tick \in Ticks
      /\ thr.t \in Soft
  BY Parts DEF TypeOK, ThrOwn
<1>1. u \in Timers /\ u # ThreadTimer /\ u # NoTimer /\ thr.t # NoTimer
  BY <1>0, Parts
<1>2. /\ thr'.pc = "insert" /\ thr'.t = u /\ thr'.n = thr.n /\ thr'.ret = thr.t
      /\ thr' \in [pc : ThrPcs, t : Soft \cup {NoTimer}, n : Soft \cup {NoTimer},
                   now : Ticks \cup {NoTick}, next : Ticks \cup {NoTick}, ret : Soft \cup {NoTimer}]
  BY <1>0 DEF TypeOK, ThrPcs
<1>3. /\ list' \in Lists /\ LinkedOnce'
      /\ \A v \in Timers : Linked(v)' <=> Linked(v) /\ v # u
  <2>1. /\ list' \in Lists /\ IsDuplicateFree(list'.hard) /\ IsDuplicateFree(list'.soft)
        /\ \A v \in Timers : In(list', v) <=> In(list, v) /\ v # u
    BY <1>0, <1>1, RemoveFacts DEF LinkedOnce
  <2> QED BY <2>1 DEF LinkedOnce, In, Linked
<1>5. TypeOK'
  BY <1>0, <1>2, <1>3 DEF TypeOK
<1>6. HasDeadline'
  BY <1>3, Parts DEF HasDeadline
<1>7. IrqOwn'
  BY Parts DEF IrqOwn, Idle
<1>8. ThrOwn'
  BY <1>1, <1>2, <1>3 DEF ThrOwn
<1>9. AppOwn'
  BY <1>1, Parts DEF AppOwn
<1>10. SleepOwn'
  BY <1>1, <1>2, <1>3, Parts DEF SleepOwn, Idle
<1>11. ASSUME SafeOps PROVE ActiveOK' /\ WalkOK'
  <2>1. ActiveOK /\ WalkOK /\ u # thr.t /\ stopped \subseteq Timers
    BY <1>0, <1>11, Parts DEF SafeOps, TypeOK
  <2>3. ActiveOK'
    BY <1>1, <1>2, <1>3, <2>1 DEF ActiveOK, Idle
  <2>4. WalkOK'
    BY <1>0, <1>1, <1>2, <1>3, <2>1, Parts DEF WalkOK, TypeOK
  <2> QED BY <2>3, <2>4
<1> QED BY <1>3, <1>5, <1>6, <1>7, <1>8, <1>9, <1>10, <1>11 DEF StopInv, IInv

\* The timeout function of a soft timer.
LEMMA SoftCallbackStep ==
    ASSUME StopInv, SoftCallback
    PROVE  StopInv'
PROOF
<1>1. irq = Idle /\ thr.pc = "callback" /\ UNCHANGED <<tick, irq, app>>
  BY DEF SoftCallback, ThreadAt
<1>2. thr.t \in Soft
  BY <1>1, Parts DEF ThrOwn
<1>3. CASE thr' = [thr EXCEPT !.pc = "return"] /\ UNCHANGED <<timer, list, stopped>>
  BY <1>1, <1>2, <1>3, SoftCallbackStops
<1>4. ASSUME NEW u \in Affected("stop self", "stop other", thr.t, Soft),
             thr' = [thr EXCEPT !.pc = "return"],
             Stopped(timer, list, u), stopped' = stopped \cup {u}
      PROVE  StopInv'
  <2>1. u \in Soft /\ (u = thr.t \/ "stop other" \in CallbackOps)
    BY DEF Affected
  <2> QED BY <1>1, <1>4, <2>1, SoftCallbackStops
<1>5. ASSUME NEW u \in Affected("start self", "start other", thr.t, Soft),
             thr' = [thr EXCEPT !.pc = "insert", !.t = u, !.ret = thr.t],
             timer' = StartBegun(timer, u), list' = _rt_timer_remove(list, u),
             stopped' = stopped \ {u}
      PROVE  StopInv'
  <2>0. u \in Soft /\ (IF u = thr.t THEN "start self" \in CallbackOps
                       ELSE "start other" \in CallbackOps)
    BY Zenon DEF Affected
  <2>1. u \in Soft /\ (u # thr.t \/ "start self" \in CallbackOps)
    BY <2>0, Zenon
  <2>2. u \in Timers /\ timer' = StartBegun(timer, u)
    BY <1>5, <2>1, Parts
  <2>3. /\ timer' \in [Timers -> TimerRecs] /\ \A v \in Timers \ {u} : timer'[v] = timer[v]
        /\ ~timer'[u].active /\ timer'[u].timeout_tick \in Ticks
    BY <2>2, StartFacts, Zenon
  <2> QED BY <1>1, <1>5, <2>1, <2>3, SoftCallbackStarts
<1> QED BY <1>3, <1>4, <1>5 DEF SoftCallback

\* The timer thread links the timer it starts.
LEMMA ThreadInsertsStep ==
    ASSUME StopInv, ThreadInserts
    PROVE  StopInv'
PROOF
<1>0. TypeOK /\ LinkedOnce /\ list \in Lists /\ timer \in [Timers -> TimerRecs]
  BY Parts DEF TypeOK
<1>1. /\ irq = Idle /\ thr.pc = "insert" /\ UNCHANGED <<tick, irq, app, stopped>>
  BY DEF ThreadInserts, ThreadAt
<1>2. PICK u \in Soft : /\ u = thr.t /\ ~Linked(u) /\ timer[u].timeout_tick \in Ticks
                        /\ u \in Timers /\ u # ThreadTimer /\ u # NoTimer
  BY <1>1, Parts DEF ThrOwn
<1>3. /\ timer' = Activated(timer, u) /\ list' = StartLinked(list, timer, u)
  BY <1>2 DEF ThreadInserts
<1>4. /\ list' \in Lists /\ LinkedOnce'
      /\ \A v \in Timers : Linked(v)' <=> Linked(v) \/ v = u
  <2>1. /\ list' \in Lists /\ IsDuplicateFree(list'.hard) /\ IsDuplicateFree(list'.soft)
        /\ \A v \in Timers : In(list', v) <=> In(list, v) \/ v = u
    BY <1>0, <1>2, <1>3, LinkFacts DEF LinkedOnce, In, Linked
  <2> QED BY <2>1 DEF LinkedOnce, In, Linked
<1>5. /\ timer' \in [Timers -> TimerRecs] /\ \A v \in Timers \ {u} : timer'[v] = timer[v]
      /\ timer'[u].active /\ timer'[u].timeout_tick = timer[u].timeout_tick
  BY <1>0, <1>2, <1>3, ActivatedFacts
<1>6. \/ thr.ret \in Soft /\ thr' = [thr EXCEPT !.pc = "return", !.t = thr.ret, !.ret = NoTimer]
      \/ thr.ret = NoTimer /\ thr' = [thr EXCEPT !.pc = "walk", !.t = NoTimer]
  BY <1>0 DEF ThreadInserts, TypeOK
<1>7. /\ thr'.n = thr.n /\ thr'.ret = NoTimer
      /\ \/ thr.ret \in Soft /\ thr'.pc = "return" /\ thr'.t = thr.ret
         \/ thr.ret = NoTimer /\ thr'.pc = "walk" /\ thr'.t = NoTimer
      /\ thr' \in [pc : ThrPcs, t : Soft \cup {NoTimer}, n : Soft \cup {NoTimer},
                   now : Ticks \cup {NoTick}, next : Ticks \cup {NoTick}, ret : Soft \cup {NoTimer}]
  BY <1>0, <1>6 DEF TypeOK, ThrPcs
<1>8. TypeOK'
  BY <1>0, <1>1, <1>4, <1>5, <1>7 DEF TypeOK
<1>9. HasDeadline'
  BY <1>2, <1>4, <1>5, Parts DEF HasDeadline
<1>10. IrqOwn'
  BY <1>1, Parts DEF IrqOwn, Idle
<1>11. ThrOwn'
  BY <1>7 DEF ThrOwn
<1>12. AppOwn'
  BY <1>1, <1>2, <1>4, <1>5, <1>7, Parts DEF AppOwn
<1>13. SleepOwn'
  BY <1>1, <1>2, <1>4, <1>5, <1>7, Parts DEF SleepOwn, Idle
<1>14. ASSUME SafeOps PROVE ActiveOK' /\ WalkOK'
  <2>1. ActiveOK /\ WalkOK /\ stopped \subseteq Timers
    BY <1>0, <1>14, Parts DEF TypeOK
  <2>2. ActiveOK'
    BY <1>1, <1>2, <1>4, <1>5, <1>7, <2>1 DEF ActiveOK, Idle
  <2>3. WalkOK'
    BY <1>0, <1>1, <1>2, <1>4, <1>7, <2>1, Parts DEF WalkOK, TypeOK
  <2> QED BY <2>2, <2>3
<1> QED BY <1>4, <1>8, <1>9, <1>10, <1>11, <1>12, <1>13, <1>14 DEF StopInv, IInv

\* After the timeout function of a soft timer.
LEMMA SoftReturnStep ==
    ASSUME StopInv, SoftReturn
    PROVE  StopInv'
PROOF
<1>0. TypeOK /\ LinkedOnce /\ list \in Lists /\ timer \in [Timers -> TimerRecs] /\ tick \in Ticks
  BY Parts DEF TypeOK
<1>1. /\ irq = Idle /\ thr.pc = "return" /\ UNCHANGED <<tick, irq, app, stopped>>
  BY DEF SoftReturn, ThreadAt
<1>2. PICK u \in Soft : u = thr.t /\ u \in Timers /\ u # ThreadTimer /\ u # NoTimer
  BY <1>1, Parts DEF ThrOwn
<1>3. thr.ret = NoTimer
  BY <1>1, Parts DEF ThrOwn
<1>5. CASE Again(u)
  <2>1. /\ thr' = [thr EXCEPT !.pc = "insert", !.now = tick]
        /\ timer' = StartBegun(timer, u) /\ list' = _rt_timer_remove(list, u)
    BY <1>2, <1>5 DEF SoftReturn
  <2>2. /\ thr'.pc = "insert" /\ thr'.t = u /\ thr'.n = thr.n /\ thr'.ret = NoTimer
        /\ thr' \in [pc : ThrPcs, t : Soft \cup {NoTimer}, n : Soft \cup {NoTimer},
                   now : Ticks \cup {NoTick}, next : Ticks \cup {NoTick}, ret : Soft \cup {NoTimer}]
    BY <1>0, <1>2, <1>3, <2>1 DEF TypeOK, ThrPcs
  <2>3. /\ list' \in Lists /\ LinkedOnce'
        /\ \A v \in Timers : Linked(v)' <=> Linked(v) /\ v # u
    <3>1. /\ list' \in Lists /\ IsDuplicateFree(list'.hard) /\ IsDuplicateFree(list'.soft)
          /\ \A v \in Timers : In(list', v) <=> In(list, v) /\ v # u
      BY <1>0, <1>2, <2>1, RemoveFacts DEF LinkedOnce
    <3> QED BY <3>1 DEF LinkedOnce, In, Linked
  <2>4. /\ timer' \in [Timers -> TimerRecs] /\ \A v \in Timers \ {u} : timer'[v] = timer[v]
        /\ ~timer'[u].active /\ timer'[u].timeout_tick \in Ticks
    BY <1>0, <1>2, <2>1, BegunFacts
  <2>5. TypeOK'
    BY <1>0, <1>1, <2>2, <2>3, <2>4 DEF TypeOK
  <2>6. HasDeadline'
    BY <2>3, <2>4, Parts DEF HasDeadline
  <2>7. IrqOwn'
    BY <1>1, Parts DEF IrqOwn, Idle
  <2>8. ThrOwn'
    BY <1>2, <2>2, <2>3, <2>4 DEF ThrOwn
  <2>9. AppOwn'
    BY <1>1, <1>2, <2>4, Parts DEF AppOwn
  <2>10. SleepOwn'
    BY <1>1, <1>2, <2>2, <2>3, <2>4, Parts DEF SleepOwn, Idle
  <2>11. ASSUME SafeOps PROVE ActiveOK' /\ WalkOK'
    <3>1. ActiveOK /\ WalkOK /\ stopped \subseteq Timers
      BY <1>0, <2>11, Parts DEF TypeOK
    <3>2. ActiveOK'
      BY <1>1, <1>2, <1>5, <2>2, <2>3, <2>4, <3>1 DEF ActiveOK, Idle, Again
    <3>3. WalkOK'
      BY <1>0, <1>1, <1>2, <2>2, <2>3, <3>1, Parts DEF WalkOK, TypeOK
    <3> QED BY <3>2, <3>3
  <2> QED BY <2>3, <2>5, <2>6, <2>7, <2>8, <2>9, <2>10, <2>11 DEF StopInv, IInv
<1>6. CASE ~Again(u)
  <2>1. PICK c : c = Deactivated(timer, u)
    OBVIOUS
  <2>2. /\ thr' = [thr EXCEPT !.pc = "walk", !.t = NoTimer, !.now = tick]
        /\ timer' = (IF Linked(u) THEN c ELSE Forget(c, u)) /\ list' = list
    BY <1>2, <1>6, <2>1 DEF SoftReturn
  <2>3. /\ thr'.pc = "walk" /\ thr'.t = NoTimer /\ thr'.n = thr.n /\ thr'.ret = NoTimer
        /\ thr' \in [pc : ThrPcs, t : Soft \cup {NoTimer}, n : Soft \cup {NoTimer},
                   now : Ticks \cup {NoTick}, next : Ticks \cup {NoTick}, ret : Soft \cup {NoTimer}]
    BY <1>0, <1>3, <2>2 DEF TypeOK, ThrPcs
  <2>4. /\ c \in [Timers -> TimerRecs] /\ \A v \in Timers \ {u} : c[v] = timer[v]
        /\ ~c[u].active /\ c[u].timeout_tick = timer[u].timeout_tick
    BY <1>0, <1>2, <2>1, ClearedFacts
  <2>5. /\ timer' \in [Timers -> TimerRecs] /\ \A v \in Timers \ {u} : timer'[v] = timer[v]
        /\ ~timer'[u].active
        /\ Linked(u) \/ Held(u) => timer'[u].timeout_tick = timer[u].timeout_tick
    <3>1. CASE Linked(u)
      BY <2>2, <2>4, <3>1
    <3>2. CASE ~Linked(u)
      <4>1. timer' = Forget(c, u)
        BY <2>2, <3>2
      <4>2. /\ timer' \in [Timers -> TimerRecs] /\ \A v \in Timers \ {u} : timer'[v] = c[v]
            /\ timer'[u].active = c[u].active /\ (Held(u) => timer' = c)
        BY <1>2, <2>4, <4>1, ForgetFacts
      <4> QED BY <2>4, <3>2, <4>2
    <3> QED BY <3>1, <3>2
  <2>6. LinkedOnce' /\ \A v : Linked(v)' <=> Linked(v)
    BY <1>0, <2>2 DEF LinkedOnce, Linked
  <2>7. TypeOK'
    BY <1>0, <1>1, <2>2, <2>3, <2>5 DEF TypeOK
  <2>8. HasDeadline'
    BY <1>2, <2>5, <2>6, Parts DEF HasDeadline
  <2>9. IrqOwn' /\ ThrOwn'
    BY <1>1, <2>3, Parts DEF IrqOwn, Idle, ThrOwn
  <2>10. AppOwn'
    BY <1>1, <1>2, <2>5, Parts DEF AppOwn, Held
  <2>11. SleepOwn'
    BY <1>1, <1>2, <2>3, <2>5, <2>6, Parts DEF SleepOwn, Idle
  <2>12. ASSUME SafeOps PROVE ActiveOK' /\ WalkOK'
    <3>1. ActiveOK /\ WalkOK /\ stopped \subseteq Timers /\ ~Linked(u)
      BY <1>0, <1>1, <1>2, <2>12, Parts DEF TypeOK, WalkOK
    <3>2. ActiveOK'
      BY <1>1, <1>2, <2>3, <2>5, <2>6, <3>1 DEF ActiveOK, Idle
    <3>3. WalkOK'
      BY <1>1, <2>3, <2>6, <3>1 DEF WalkOK
    <3> QED BY <3>2, <3>3
  <2> QED BY <2>6, <2>7, <2>8, <2>9, <2>10, <2>11, <2>12 DEF StopInv, IInv
<1> QED BY <1>5, <1>6

\* A step of the caller's call changes nothing but the timer of the call.
LEMMA CallerStep ==
    ASSUME StopInv, irq = Idle, thr.pc = "suspended", UNCHANGED <<tick, irq, thr>>,
           NEW t \in Hard \cup Soft,
           timer' \in [Timers -> TimerRecs], list' \in Lists, LinkedOnce',
           \A v \in Timers \ {t} : timer'[v] = timer[v] /\ (Linked(v)' <=> Linked(v)),
           Linked(t)' => timer'[t].timeout_tick \in Ticks,
           app' \in [pc : {"idle", "time", "insert", "wake", "remove", "clear"}, t : Hard \cup Soft \cup {NoTimer}],
           app'.pc # "idle" => app'.t = t,
           app'.pc = "insert" => timer'[t].timeout_tick \in Ticks,
           stopped' \subseteq stopped \cup {t},
           SafeOps => /\ Linked(t)' => timer'[t].active
                      /\ t \in stopped' => ~timer'[t].active
    PROVE  StopInv'
PROOF
<1>0. TypeOK /\ t \in Timers /\ t # ThreadTimer /\ t # NoTimer
  BY Parts
<1>1. thr.t = NoTimer /\ thr.n = NoTimer /\ thr.ret = NoTimer /\ irq.t = NoTimer /\ irq.pc = "idle"
  BY Parts DEF ThrOwn, Idle
<1>2. TypeOK'
  <2>1. stopped' \in SUBSET (Hard \cup Soft)
    BY <1>0 DEF TypeOK
  <2> QED BY <1>0, <2>1 DEF TypeOK
<1>3. HasDeadline'
  BY Parts DEF HasDeadline
<1>4. IrqOwn' /\ ThrOwn'
  BY <1>1 DEF IrqOwn, ThrOwn
<1>5. AppOwn'
  BY <1>0, <1>1 DEF AppOwn
<1>6. SleepOwn'
  BY <1>0, <1>1, Parts DEF SleepOwn
<1>7. ASSUME SafeOps PROVE ActiveOK' /\ WalkOK'
  <2>1. ActiveOK /\ stopped \subseteq Timers
    BY <1>0, <1>7, Parts DEF TypeOK
  <2>2. ActiveOK'
    BY <1>0, <1>1, <1>7, <2>1 DEF ActiveOK
  <2>3. WalkOK'
    BY <1>1 DEF WalkOK
  <2> QED BY <2>2, <2>3
<1> QED BY <1>2, <1>3, <1>4, <1>5, <1>6, <1>7 DEF StopInv, IInv

\* Taking a timer out of its list, in a state of the timers.
LEMMA UnlinkStep ==
    ASSUME StopInv, NEW t \in Timers, list' = _rt_timer_remove(list, t)
    PROVE  /\ list' \in Lists /\ LinkedOnce'
           /\ \A v \in Timers : Linked(v)' <=> Linked(v) /\ v # t
PROOF
<1>1. list \in Lists /\ LinkedOnce
  BY Parts DEF TypeOK
<1>2. /\ list' \in Lists /\ IsDuplicateFree(list'.hard) /\ IsDuplicateFree(list'.soft)
      /\ \A v \in Timers : In(list', v) <=> In(list, v) /\ v # t
  BY <1>1, RemoveFacts DEF LinkedOnce
<1> QED BY <1>2 DEF LinkedOnce, In, Linked

\* First section of rt_timer_start.
LEMMA StartFirstStep ==
    ASSUME StopInv, NEW t \in Hard \cup Soft, StartFirst(t)
    PROVE  StopInv'
PROOF
<1>0. t \in Timers /\ timer \in [Timers -> TimerRecs]
  BY Parts DEF TypeOK
<1>1. /\ irq = Idle /\ thr.pc = "suspended" /\ UNCHANGED <<tick, irq, thr>>
      /\ app' = [pc |-> "time", t |-> t] /\ timer' = Forget(Deactivated(timer, t), t)
      /\ list' = _rt_timer_remove(list, t) /\ stopped' = stopped \ {t}
  BY DEF StartFirst, AppAt, AppGoto
<1>2. /\ timer' \in [Timers -> TimerRecs] /\ \A v \in Timers \ {t} : timer'[v] = timer[v]
      /\ ~timer'[t].active
  <2>1. PICK c : c = Deactivated(timer, t)
    OBVIOUS
  <2>2. c \in [Timers -> TimerRecs] /\ (\A v \in Timers \ {t} : c[v] = timer[v]) /\ ~c[t].active
    BY <1>0, <2>1, ClearedFacts
  <2>3. timer' = Forget(c, t)
    BY <1>1, <2>1
  <2> QED BY <1>0, <2>2, <2>3, ForgetFacts
<1>3. /\ list' \in Lists /\ LinkedOnce'
      /\ \A v \in Timers : Linked(v)' <=> Linked(v) /\ v # t
  BY <1>0, <1>1, UnlinkStep, Zenon
<1>4. /\ app' \in [pc : {"idle", "time", "insert", "wake", "remove", "clear"}, t : Hard \cup Soft \cup {NoTimer}]
      /\ app'.pc = "time" /\ app'.t = t
  BY <1>1
<1> QED BY <1>0, <1>1, <1>2, <1>3, <1>4, CallerStep

\* The caller computes the deadline of a timer that is not linked.
LEMMA StartTimeStep ==
    ASSUME StopInv, StartTime, ~crossed'
    PROVE  StopInv'
PROOF
<1>0. TypeOK /\ list \in Lists /\ LinkedOnce /\ timer \in [Timers -> TimerRecs] /\ tick \in Ticks
  BY Parts DEF TypeOK
<1>1. /\ irq = Idle /\ thr.pc = "suspended" /\ app.pc = "time"
      /\ UNCHANGED <<tick, list, irq, thr, stopped>>
  BY DEF StartTime, AppAt
<1>2. PICK t \in Hard \cup Soft : t = app.t /\ t \in Timers /\ ~Linked(t)
  BY <1>1, Parts DEF AppOwn, StartTime, CallerWrites
<1>3. timer' = WithDeadline(timer, t) /\ app' = [pc |-> "insert", t |-> t]
  BY <1>2 DEF StartTime, AppGoto
<1>4. /\ timer' \in [Timers -> TimerRecs] /\ \A v \in Timers \ {t} : timer'[v] = timer[v]
      /\ timer'[t].timeout_tick \in Ticks /\ timer'[t].active = timer[t].active
  BY <1>0, <1>2, <1>3, DeadlineFacts
<1>5. LinkedOnce' /\ \A v : Linked(v)' <=> Linked(v)
  BY <1>0, <1>1 DEF LinkedOnce, Linked
<1>6. /\ app' \in [pc : {"idle", "time", "insert", "wake", "remove", "clear"}, t : Hard \cup Soft \cup {NoTimer}]
      /\ app'.pc = "insert" /\ app'.t = t
  BY <1>3
<1>7. SafeOps => (t \in stopped' => ~timer'[t].active)
  BY <1>1, <1>4, Parts DEF ActiveOK
<1> QED BY <1>0, <1>1, <1>2, <1>4, <1>5, <1>6, <1>7, CallerStep

\* Second section of rt_timer_start.
LEMMA StartSecondStep ==
    ASSUME StopInv, StartSecond, ~crossed'
    PROVE  StopInv'
PROOF
<1>0. TypeOK /\ list \in Lists /\ LinkedOnce /\ timer \in [Timers -> TimerRecs]
  BY Parts DEF TypeOK
<1>1. /\ irq = Idle /\ thr.pc = "suspended" /\ app.pc = "insert" /\ UNCHANGED <<tick, irq, thr>>
      /\ stopped' = stopped \ {app.t}
  BY DEF StartSecond, AppAt
<1>2. PICK t \in Hard \cup Soft : /\ t = app.t /\ t \in Timers /\ ~Linked(t)
                                  /\ timer[t].timeout_tick \in Ticks
  BY <1>1, Parts DEF AppOwn, StartSecond, CallerWrites
<1>3. timer' = Activated(timer, t) /\ list' = StartLinked(list, timer, t)
  BY <1>2 DEF StartSecond
<1>4. /\ list' \in Lists /\ LinkedOnce'
      /\ \A v \in Timers : Linked(v)' <=> Linked(v) \/ v = t
  <2>1. /\ list' \in Lists /\ IsDuplicateFree(list'.hard) /\ IsDuplicateFree(list'.soft)
        /\ \A v \in Timers : In(list', v) <=> In(list, v) \/ v = t
    BY <1>0, <1>2, <1>3, LinkFacts DEF LinkedOnce, In, Linked
  <2> QED BY <2>1 DEF LinkedOnce, In, Linked
<1>5. /\ timer' \in [Timers -> TimerRecs] /\ \A v \in Timers \ {t} : timer'[v] = timer[v]
      /\ timer'[t].active /\ timer'[t].timeout_tick = timer[t].timeout_tick
  BY <1>0, <1>2, <1>3, ActivatedFacts
<1>6. app' = [pc |-> "wake", t |-> t] \/ app' = [pc |-> "idle", t |-> NoTimer]
  BY <1>2 DEF StartSecond, AppGoto, Idle
<1>7. /\ app' \in [pc : {"idle", "time", "insert", "wake", "remove", "clear"}, t : Hard \cup Soft \cup {NoTimer}]
      /\ app'.pc \in {"wake", "idle"} /\ (app'.pc = "wake" => app'.t = t)
  BY <1>6
<1>8. stopped' \subseteq stopped \cup {t} /\ t \notin stopped'
  BY <1>1, <1>2
<1> QED BY <1>1, <1>2, <1>4, <1>5, <1>7, <1>8, CallerStep

\* rt_timer_stop looks at the flag.
LEMMA StopTestStep ==
    ASSUME StopInv, NEW t \in Hard \cup Soft, StopTest(t)
    PROVE  StopInv'
PROOF
<1>0. TypeOK /\ t \in Timers /\ list \in Lists /\ timer \in [Timers -> TimerRecs]
  BY Parts DEF TypeOK
<1>1. irq = Idle /\ thr.pc = "suspended" /\ UNCHANGED <<tick, irq, thr, timer, list>>
  BY DEF StopTest, AppAt
<1>2. \/ app' = [pc |-> "remove", t |-> t] /\ stopped' = stopped
      \/ app' = [pc |-> "idle", t |-> NoTimer] /\ stopped' = stopped \cup {t} /\ ~timer[t].active
  BY DEF StopTest, AppGoto, Idle
<1>3. /\ app' \in [pc : {"idle", "time", "insert", "wake", "remove", "clear"}, t : Hard \cup Soft \cup {NoTimer}]
      /\ app'.pc \in {"remove", "idle"} /\ (app'.pc = "remove" => app'.t = t)
  BY <1>2
<1>4. LinkedOnce' /\ HasDeadline' /\ \A u : Linked(u)' <=> Linked(u)
  BY <1>1, QuietLists
<1>5. /\ Linked(t)' => timer'[t].timeout_tick \in Ticks
      /\ SafeOps => /\ Linked(t)' => timer'[t].active
                    /\ t \in stopped' => ~timer'[t].active
  BY <1>0, <1>1, <1>2, <1>4, Parts DEF HasDeadline, ActiveOK
<1>6. stopped' \subseteq stopped \cup {t}
  BY <1>2
<1> QED BY <1>0, <1>1, <1>3, <1>4, <1>5, <1>6, CallerStep

\* rt_timer_stop removes the timer.
LEMMA StopRemoveStep ==
    ASSUME StopInv, StopRemove
    PROVE  StopInv'
PROOF
<1>0. TypeOK /\ timer \in [Timers -> TimerRecs]
  BY Parts DEF TypeOK
<1>1. /\ irq = Idle /\ thr.pc = "suspended" /\ app.pc = "remove" /\ UNCHANGED <<tick, irq, thr, stopped>>
  BY DEF StopRemove, AppAt
<1>2. PICK t \in Hard \cup Soft : t = app.t /\ t \in Timers
  BY <1>1, Parts DEF AppOwn
<1>3. /\ app' = [pc |-> "clear", t |-> t] /\ list' = _rt_timer_remove(list, t)
      /\ timer' = Forget(timer, t)
  BY <1>2 DEF StopRemove, AppGoto
<1>4. /\ list' \in Lists /\ LinkedOnce'
      /\ \A v \in Timers : Linked(v)' <=> Linked(v) /\ v # t
  BY <1>2, <1>3, UnlinkStep, Zenon
<1>5. /\ timer' \in [Timers -> TimerRecs] /\ \A v \in Timers \ {t} : timer'[v] = timer[v]
      /\ timer'[t].active = timer[t].active
  BY <1>0, <1>2, <1>3, ForgetFacts
<1>6. /\ app' \in [pc : {"idle", "time", "insert", "wake", "remove", "clear"}, t : Hard \cup Soft \cup {NoTimer}]
      /\ app'.pc = "clear" /\ app'.t = t
  BY <1>3
<1>7. SafeOps => (t \in stopped' => ~timer'[t].active)
  BY <1>1, <1>5, Parts DEF ActiveOK
<1> QED BY <1>1, <1>2, <1>4, <1>5, <1>6, <1>7, CallerStep

\* rt_timer_stop clears the flag.
LEMMA StopClearStep ==
    ASSUME StopInv, StopClear, ~crossed'
    PROVE  StopInv'
PROOF
<1>0. TypeOK /\ list \in Lists /\ LinkedOnce /\ timer \in [Timers -> TimerRecs]
  BY Parts DEF TypeOK
<1>1. /\ irq = Idle /\ thr.pc = "suspended" /\ app.pc = "clear" /\ UNCHANGED <<tick, list, irq, thr>>
      /\ app' = [pc |-> "idle", t |-> NoTimer]
  BY DEF StopClear, AppAt, Idle
<1>2. PICK t \in Hard \cup Soft : t = app.t /\ t \in Timers /\ ~Linked(t)
  BY <1>1, Parts DEF AppOwn, StopClear, CallerWrites
<1>3. timer' = Deactivated(timer, t) /\ stopped' = stopped \cup {t}
  BY <1>2 DEF StopClear
<1>4. /\ timer' \in [Timers -> TimerRecs] /\ \A v \in Timers \ {t} : timer'[v] = timer[v]
      /\ ~timer'[t].active
  BY <1>0, <1>2, <1>3, ClearedFacts
<1>5. LinkedOnce' /\ \A v : Linked(v)' <=> Linked(v)
  BY <1>0, <1>1 DEF LinkedOnce, Linked
<1>6. /\ app' \in [pc : {"idle", "time", "insert", "wake", "remove", "clear"}, t : Hard \cup Soft \cup {NoTimer}]
      /\ app'.pc = "idle"
  BY <1>1
<1> QED BY <1>0, <1>1, <1>2, <1>3, <1>4, <1>5, <1>6, CallerStep

\* The times a timer is given are numbers.
LEMMA InitsFacts ==
    ASSUME NEW t \in Hard \cup Soft
    PROVE  Inits[t] \subseteq Nat /\ Inits[t] # {}
PROOF
<1>1. Inits[t] \in (SUBSET (1 .. Longest)) \ {{}}
  BY TimerAssumption
<1>2. PICK top : top = Longest
  OBVIOUS
<1>3. top \in Int
  BY <1>2, TimerAssumption DEF Longest, Half, RT_TICK_MAX
<1> QED BY <1>1, <1>2, <1>3

\* rt_timer_control.
LEMMA ControlStep ==
    ASSUME StopInv, NEW t \in Hard \cup Soft, rt_timer_control(t)
    PROVE  StopInv'
PROOF
<1>0. /\ TypeOK /\ t \in Timers /\ list \in Lists /\ timer \in [Timers -> TimerRecs]
      /\ timer[t] \in TimerRecs
  BY Parts DEF TypeOK
<1>1. /\ irq = Idle /\ thr.pc = "suspended" /\ app.pc = "idle"
      /\ UNCHANGED <<tick, irq, thr, app, list, stopped>>
  BY DEF rt_timer_control, AppAt
<1>2. PICK e \in TimerRecs :
         /\ e.timeout_tick = timer[t].timeout_tick /\ e.active = timer[t].active
         /\ timer' = [timer EXCEPT ![t] = e]
  <2>1. ASSUME NEW time \in Inits[t], timer' = [timer EXCEPT ![t].init_tick = time]
        PROVE  \E e \in TimerRecs :
                 /\ e.timeout_tick = timer[t].timeout_tick /\ e.active = timer[t].active
                 /\ timer' = [timer EXCEPT ![t] = e]
    <3>1. time \in Nat
      BY InitsFacts
    <3>2. PICK e : e = [timer[t] EXCEPT !.init_tick = time]
      OBVIOUS
    <3>3. e \in TimerRecs /\ e.timeout_tick = timer[t].timeout_tick /\ e.active = timer[t].active
      BY <1>0, <3>1, <3>2 DEF TimerRecs
    <3>4. timer' = [timer EXCEPT ![t] = e]
      BY <2>1, <3>2
    <3> QED BY <3>3, <3>4
  <2>2. ASSUME NEW flag \in BOOLEAN, timer' = [timer EXCEPT ![t].periodic = flag]
        PROVE  \E e \in TimerRecs :
                 /\ e.timeout_tick = timer[t].timeout_tick /\ e.active = timer[t].active
                 /\ timer' = [timer EXCEPT ![t] = e]
    <3>2. PICK e : e = [timer[t] EXCEPT !.periodic = flag]
      OBVIOUS
    <3>3. e \in TimerRecs /\ e.timeout_tick = timer[t].timeout_tick /\ e.active = timer[t].active
      BY <1>0, <3>2 DEF TimerRecs
    <3>4. timer' = [timer EXCEPT ![t] = e]
      BY <2>2, <3>2
    <3> QED BY <3>3, <3>4
  <2> QED BY <2>1, <2>2 DEF rt_timer_control
<1>3. /\ timer' \in [Timers -> TimerRecs] /\ \A v \in Timers \ {t} : timer'[v] = timer[v]
      /\ timer'[t].timeout_tick = timer[t].timeout_tick /\ timer'[t].active = timer[t].active
  BY <1>0, <1>2
<1>4. LinkedOnce' /\ HasDeadline' /\ \A u : Linked(u)' <=> Linked(u)
  BY <1>1, <1>3, QuietLists
<1>5. /\ Linked(t)' => timer'[t].timeout_tick \in Ticks
      /\ SafeOps => /\ Linked(t)' => timer'[t].active
                    /\ t \in stopped' => ~timer'[t].active
  BY <1>0, <1>1, <1>3, <1>4, Parts DEF HasDeadline, ActiveOK
<1>6. /\ app' \in [pc : {"idle", "time", "insert", "wake", "remove", "clear"}, t : Hard \cup Soft \cup {NoTimer}]
      /\ app'.pc = "idle"
  BY <1>0, <1>1 DEF TypeOK
<1> QED BY <1>0, <1>1, <1>3, <1>4, <1>5, <1>6, CallerStep

\* rt_timer_detach and rt_timer_init.
LEMMA DetachStep ==
    ASSUME StopInv, NEW t \in Hard \cup Soft, rt_timer_detach(t)
    PROVE  StopInv'
PROOF
<1>0. TypeOK /\ t \in Timers /\ timer \in [Timers -> TimerRecs]
  BY Parts DEF TypeOK
<1>1. /\ irq = Idle /\ thr.pc = "suspended" /\ app.pc = "idle" /\ UNCHANGED <<tick, irq, thr, app>>
      /\ list' = _rt_timer_remove(list, t) /\ stopped' = stopped \ {t}
  BY DEF rt_timer_detach, AppAt
<1>2. PICK time \in Inits[t], flag \in BOOLEAN :
         timer' = [timer EXCEPT ![t] = _rt_timer_init(time, flag)]
  BY DEF rt_timer_detach
<1>3. PICK e : e = _rt_timer_init(time, flag)
  OBVIOUS
<1>4. e \in TimerRecs /\ ~e.active
  <2>1. time \in Nat
    BY InitsFacts
  <2> QED BY <1>3, <2>1 DEF _rt_timer_init, TimerRecs
<1>5. /\ timer' \in [Timers -> TimerRecs] /\ \A v \in Timers \ {t} : timer'[v] = timer[v]
      /\ ~timer'[t].active
  BY <1>0, <1>2, <1>3, <1>4
<1>6. /\ list' \in Lists /\ LinkedOnce'
      /\ \A v \in Timers : Linked(v)' <=> Linked(v) /\ v # t
  BY <1>0, <1>1, UnlinkStep, Zenon
<1>7. /\ app' \in [pc : {"idle", "time", "insert", "wake", "remove", "clear"}, t : Hard \cup Soft \cup {NoTimer}]
      /\ app'.pc = "idle"
  BY <1>0, <1>1 DEF TypeOK
<1> QED BY <1>0, <1>1, <1>5, <1>6, <1>7, CallerStep

\* A start of a soft timer resumes the timer thread.
LEMMA StartWakeStep ==
    ASSUME StopInv, StartWake
    PROVE  StopInv'
PROOF
<1>0. TypeOK /\ LinkedOnce /\ list \in Lists /\ timer \in [Timers -> TimerRecs]
  BY Parts DEF TypeOK
<1>1. /\ irq = Idle /\ thr.pc = "suspended" /\ UNCHANGED <<tick, irq, stopped>>
      /\ app' = Idle /\ thr' = [thr EXCEPT !.pc = "check"] /\ Stopped(timer, list, ThreadTimer)
  BY DEF StartWake, AppAt
<1>2. thr.t = NoTimer /\ thr.n = NoTimer /\ thr.ret = NoTimer /\ irq.t = NoTimer /\ irq.pc = "idle"
  BY <1>1, Parts DEF ThrOwn, Idle
<1>3. /\ thr'.pc = "check" /\ thr'.t = NoTimer /\ thr'.n = NoTimer /\ thr'.ret = NoTimer
      /\ thr' \in [pc : ThrPcs, t : Soft \cup {NoTimer}, n : Soft \cup {NoTimer},
                   now : Ticks \cup {NoTick}, next : Ticks \cup {NoTick}, ret : Soft \cup {NoTimer}]
  BY <1>0, <1>1, <1>2 DEF TypeOK, ThrPcs
<1>4. /\ timer' \in [Timers -> TimerRecs] /\ list' \in Lists /\ LinkedOnce'
      /\ \A v \in Timers \ {ThreadTimer} : timer'[v] = timer[v] /\ (Linked(v)' <=> Linked(v))
      /\ ~Linked(ThreadTimer)' /\ timer'[ThreadTimer].periodic = timer[ThreadTimer].periodic
  <2>1. ThreadTimer \in Timers /\ (In(list, ThreadTimer) => timer[ThreadTimer].active)
    BY Parts DEF SleepOwn, In, Linked
  <2>2. /\ timer' \in [Timers -> TimerRecs] /\ list' \in Lists /\ LinkedOnce'
        /\ \A v \in Timers \ {ThreadTimer} : timer'[v] = timer[v] /\ (In(list', v) <=> In(list, v))
        /\ ~In(list', ThreadTimer) /\ timer'[ThreadTimer].periodic = timer[ThreadTimer].periodic
    BY <1>0, <1>1, <2>1, StoppedFacts
  <2> QED BY <2>2 DEF In, Linked
<1>5. app' \in [pc : {"idle", "time", "insert", "wake", "remove", "clear"}, t : Hard \cup Soft \cup {NoTimer}]
      /\ app'.pc = "idle"
  BY <1>1 DEF Idle
<1>6. TypeOK'
  BY <1>0, <1>1, <1>3, <1>4, <1>5 DEF TypeOK
<1>7. HasDeadline'
  BY <1>4, Parts DEF HasDeadline
<1>8. IrqOwn' /\ ThrOwn' /\ AppOwn'
  BY <1>1, <1>2, <1>3, <1>5 DEF IrqOwn, ThrOwn, AppOwn
<1>9. SleepOwn'
  BY <1>1, <1>2, <1>4, Parts DEF SleepOwn
<1>10. ASSUME SafeOps PROVE ActiveOK' /\ WalkOK'
  <2>1. ActiveOK /\ stopped \subseteq Timers \ {ThreadTimer}
    BY <1>0, <1>10, Parts DEF TypeOK
  <2>2. ActiveOK'
    BY <1>1, <1>2, <1>3, <1>4, <1>5, <2>1 DEF ActiveOK
  <2>3. WalkOK'
    BY <1>3 DEF WalkOK
  <2> QED BY <2>2, <2>3
<1> QED BY <1>4, <1>6, <1>7, <1>8, <1>9, <1>10 DEF StopInv, IInv

-----------------------------------------------------------------------------
(***************************************************************************)
(* The theorems.                                                           *)
(***************************************************************************)
\* No timer runs after rt_system_timer_init and rt_system_timer_thread_init.
LEMMA InitInv == Init => StopInv
PROOF
<1> SUFFICES ASSUME Init PROVE StopInv
  OBVIOUS
<1>1. tick = 0 /\ list = [hard |-> <<>>, soft |-> <<>>] /\ irq = Idle /\ app = Idle /\ stopped = {}
      /\ thr = [pc |-> "look", t |-> NoTimer, n |-> NoTimer, now |-> NoTick, next |-> NoTick,
                ret |-> NoTimer]
      /\ timer = [t \in Timers |->
                    _rt_timer_init(IF t = ThreadTimer THEN 0 ELSE Smallest(Inits[t]), FALSE)]
  BY DEF Init
<1>2. ASSUME NEW t \in Timers PROVE timer[t] \in TimerRecs /\ ~timer[t].periodic
  <2>1. PICK time : time = IF t = ThreadTimer THEN 0 ELSE Smallest(Inits[t])
    OBVIOUS
  <2>2. time \in Nat
    <3>1. CASE t = ThreadTimer
      BY <2>1, <3>1
    <3>2. CASE t # ThreadTimer
      <4>1. t \in Hard \cup Soft
        BY <3>2 DEF Timers
      <4>2. PICK S : S = Inits[t]
        OBVIOUS
      <4>3. S \subseteq Nat /\ S # {}
        BY <4>1, <4>2, InitsFacts
      <4>4. \E i \in S : \A j \in S : i <= j
        BY <4>3, SmallestNat
      <4>5. Smallest(S) \in S
        BY <4>4, Zenon DEF Smallest
      <4> QED BY <2>1, <3>2, <4>2, <4>3, <4>5
    <3> QED BY <3>1, <3>2
  <2>3. timer[t] = _rt_timer_init(time, FALSE)
    BY <1>1, <2>1
  <2> QED BY <2>2, <2>3 DEF _rt_timer_init, TimerRecs
<1>3. timer \in [Timers -> TimerRecs]
  BY <1>1, <1>2
<1>4. TypeOK
  <2>1. tick \in Ticks
    BY <1>1, TimerAssumption DEF Ticks, RT_TICK_MAX
  <2>2. list \in Lists
    BY <1>1 DEF Lists
  <2>3. irq \in [pc : {"idle", "check", "call", "return"}, t : HardTimers \cup {NoTimer}]
    BY <1>1 DEF Idle
  <2>4. app \in [pc : {"idle", "time", "insert", "wake", "remove", "clear"}, t : Hard \cup Soft \cup {NoTimer}]
    BY <1>1 DEF Idle
  <2>5. thr \in [pc : ThrPcs, t : Soft \cup {NoTimer}, n : Soft \cup {NoTimer},
                 now : Ticks \cup {NoTick}, next : Ticks \cup {NoTick}, ret : Soft \cup {NoTimer}]
    BY <1>1 DEF ThrPcs
  <2> QED BY <1>1, <1>3, <2>1, <2>2, <2>3, <2>4, <2>5 DEF TypeOK
<1>5. ASSUME NEW t PROVE ~Linked(t)
  <2>1. list[Kind(t)] = <<>>
    BY <1>1 DEF Kind
  <2> QED BY <2>1 DEF Linked, Range
<1>6. LinkedOnce
  BY <1>1 DEF LinkedOnce, IsDuplicateFree
<1>7. HasDeadline /\ IrqOwn /\ AppOwn
  BY <1>1, <1>5 DEF HasDeadline, IrqOwn, AppOwn, Idle
<1>8. ThrOwn
  BY <1>1 DEF ThrOwn
<1>9. SleepOwn
  <2>1. ThreadTimer \in Timers
    BY DEF Timers
  <2> QED BY <1>1, <1>2, <1>5, <2>1 DEF SleepOwn, Idle
<1>10. ActiveOK /\ WalkOK
  BY <1>1, <1>5 DEF ActiveOK, WalkOK, Idle
<1> QED BY <1>4, <1>6, <1>7, <1>8, <1>9, <1>10 DEF StopInv, IInv

\* A crossing is not forgotten.
LEMMA CrossedStays == [Next]_vars /\ crossed => crossed'
PROOF
BY DEF Next, vars, Interrupt, TimerThread, Caller, Continue, CallerWrites,
       Tick, CheckCall, CheckEnd, HardCallback, rt_thread_timeout, CheckReturn,
       SuspendSelf, Look, Measure, rt_thread_delay, SoftCheck, SoftCall, SoftEnd, SoftCallback,
       ThreadInserts, SoftReturn, StartFirst, StartTime, StartSecond, StartWake, StopTest,
       StopRemove, StopClear, rt_timer_control, rt_timer_detach

\* Every step of the tick, the timer thread and the caller keeps the invariant, unless a call of
\* the caller crosses with the start of its timer.
LEMMA StepInv == StopInv /\ [Next]_vars /\ ~crossed' => StopInv'
PROOF
<1> SUFFICES ASSUME StopInv, [Next]_vars, ~crossed' PROVE StopInv'
  OBVIOUS
<1>1. CASE Interrupt
  BY <1>1, TickStep, CheckCallStep, IrqQuietStep, HardCallbackStep, CheckReturnStep DEF Interrupt
<1>2. CASE TimerThread
  BY <1>2, SleepStep, LookStep, MeasureStep, SoftWalkStep, SoftCallStep, SoftCallbackStep,
     ThreadInsertsStep, SoftReturnStep DEF TimerThread
<1>3. CASE Caller
  <2>1. CASE Continue
    BY <2>1, StartTimeStep, StartSecondStep, StartWakeStep, StopRemoveStep, StopClearStep
       DEF Continue
  <2>2. ASSUME NEW t \in Hard \cup Soft,
               StartFirst(t) \/ StopTest(t) \/ rt_timer_control(t) \/ rt_timer_detach(t)
        PROVE  StopInv'
    BY <2>2, StartFirstStep, StopTestStep, ControlStep, DetachStep
  <2> QED BY <1>3, <2>1, <2>2 DEF Caller
<1>4. CASE UNCHANGED vars
  BY <1>4 DEF vars, StopInv, IInv, TypeOK, LinkedOnce, HasDeadline, IrqOwn, ThrOwn, AppOwn, SleepOwn,
              ActiveOK, WalkOK, Linked
<1> QED BY <1>1, <1>2, <1>3, <1>4 DEF Next

\* Until a call crosses with the start of its timer, the invariant holds whatever timeout
\* functions stop and start, the timer of a call in progress included; what it says of the flag
\* and of the walk, where they stop only their own timer and start only others.
THEOREM Invariance == Spec => [](~crossed => StopInv)
PROOF
<1>1. Init => (~crossed => StopInv)
  BY InitInv
<1>2. (~crossed => StopInv) /\ [Next]_vars => (~crossed => StopInv)'
  BY StepInv, CrossedStays
<1> QED BY <1>1, <1>2, PTL DEF Spec

\* Until rt_timer_start or rt_timer_stop writes to a timer that a timeout function has linked in
\* the middle of the call, a timer is in its list at most once, and has a deadline there.
THEOREM ListsAreSound == Spec => [](~crossed => LinkedOnce /\ HasDeadline)
PROOF
<1>1. (~crossed => StopInv) => (~crossed => LinkedOnce /\ HasDeadline)
  BY Parts
<1> QED BY <1>1, Invariance, PTL

\* rt_thread_timeout finds the timer thread suspended, as it asserts.
THEOREM TimesOutSuspendedHolds == Spec => []TimesOutSuspended
PROOF
<1>1. (~crossed => StopInv) => TimesOutSuspended
  BY Parts DEF TimesOutSuspended, SleepOwn
<1> QED BY <1>1, Invariance, PTL

\* Where timeout functions stop only their own timer and start only others, a timer whose
\* rt_timer_stop has returned is in no list and is not called until it is started again, as long
\* as no call has crossed with the start of its timer.
THEOREM StopHoldsSafely ==
    ASSUME SafeOps
    PROVE  Spec => []StopHolds
PROOF
<1>1. (~crossed => StopInv) => StopHolds
  <2> SUFFICES ASSUME ~crossed, StopInv, NEW t \in stopped PROVE ~Linked(t) /\ t \notin Called
    BY DEF StopHolds
  <2>1. ActiveOK /\ t \in Timers
    BY SafeOps, Parts DEF TypeOK
  <2> QED BY <2>1 DEF ActiveOK, Called
<1> QED BY <1>1, Invariance, PTL
=============================================================================
