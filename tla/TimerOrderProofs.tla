-------------------------- MODULE TimerOrderProofs --------------------------
(***************************************************************************)
(* The order and the punctuality of the kernel timers for any number of    *)
(* timers, any width of the tick, any times and whatever timeout functions *)
(* do, as long as the timer thread has taken no deadline for "no timer"    *)
(* and no timeout function has started the timer that the interrupted call *)
(* was about to link, or to deactivate.                                    *)
(*                                                                         *)
(* The invariant TimeInv ties the history variable left to what the code   *)
(* has, the deadline modulo the width of the tick (DeadlineOK), at every   *)
(* place where a deadline will be read.                                    *)
(***************************************************************************)
EXTENDS TimerProofs

\* A timer whose deadline will be compared with the tick: it is in its list, the next one of the
\* walk, or between the two sections of its start.
Live(t) ==
    \/ Linked(t) \/ t = thr.n
    \/ thr.pc = "insert" /\ t = thr.t
    \/ app.pc = "insert" /\ t = app.t

\* A difference of ticks, wrapped around at most once in either direction.
Wrapped(a, b) == a \in {b, b + TickMod, b - TickMod}

\* init_tick of a timer of the application is one of the times it may be given.
TimesOK == \A t \in Hard \cup Soft : timer[t].init_tick \in 1 .. Longest

LagOK == lag \in 0 .. MaxLag

\* The deadline is the tick that is left ticks ahead.
DeadlineAt(tm, t) ==
    /\ tm[t].timeout_tick \in Ticks /\ tm[t].left <= Longest
    /\ Wrapped(tm[t].timeout_tick, tick + tm[t].left)
DeadlineOK == \A t \in Timers : Live(t) => DeadlineAt(timer, t)

\* How late a hard timer may be: the tick that finds it expired calls it.
HardTime ==
    /\ \A t \in HardTimers : Linked(t) =>
          timer[t].left >= -MaxLag /\ (irq.pc = "idle" => timer[t].left >= 1 - MaxLag)
    /\ Linked(ThreadTimer) =>
          timer[ThreadTimer].left >= -1 /\ (irq.pc = "idle" => timer[ThreadTimer].left >= 0)

\* How late a soft timer may be, counted from the last tick that found no thread at work.
SoftTime == \A t \in Soft : Live(t) => timer[t].left >= -(MaxLag + 1) - lag

\* A timer that is called has expired.
CallTime ==
    /\ irq.pc = "call" => timer[irq.t].left <= 0 /\ timer[irq.t].left >= -MaxLag
    /\ thr.pc = "callback" => timer[thr.t].left <= 0 /\ timer[thr.t].left >= -(MaxLag + 1) - lag

\* The ticks that passed between the two sections of a start.
AppTime == app.pc = "insert" => timer[app.t].left >= 1 - lag

\* The order of a list.
InOrder(l, tm) == \A i, j \in DOMAIN l : i < j => tm[l[i]].left <= tm[l[j]].left
OrderOK == InOrder(list.hard, timer) /\ InOrder(list.soft, timer)

\* rt_soft_timer_check compares with a tick it has read up to lag ticks ago.
NowOK ==
    thr.pc \in {"walk", "callback", "insert", "return"} =>
        thr.now \in Ticks /\ \E e \in 0 .. lag : thr.now + e \in {tick, tick + TickMod}

\* Before it sleeps, the timer thread has the deadline of the first soft timer, and then the
\* ticks to it; and it sleeps no longer.
SleepOK ==
    /\ thr.pc = "measure" => list.soft # <<>> /\ thr.next = timer[Head(list.soft)].timeout_tick
    /\ thr.pc = "delay" =>
          list.soft # <<>> /\ thr.next <= Longest /\ thr.next <= timer[Head(list.soft)].left + lag
    /\ thr.pc = "suspended" /\ list.soft # <<>> =>
          \/ app.pc = "wake"
          \/ /\ Linked(ThreadTimer) \/ (irq.pc = "call" /\ irq.t = ThreadTimer)
             /\ timer[ThreadTimer].left <= timer[Head(list.soft)].left + MaxLag

Times ==
    /\ TimesOK /\ LagOK /\ DeadlineOK /\ HardTime /\ SoftTime /\ CallTime
    /\ AppTime /\ OrderOK /\ NowOK /\ SleepOK

TimeInv == StopInv /\ (~missed => Times)

-----------------------------------------------------------------------------
(***************************************************************************)
(* Ticks, modulo the width of rt_tick_t.                                   *)
(***************************************************************************)
\* The bounds are small against the width of the tick.
LEMMA NumFacts ==
    /\ TickMod \in Nat /\ MaxLag \in Nat /\ MaxLag >= 1 /\ Half \in Nat /\ 2 * Half + 1 <= TickMod
    /\ Longest = Half - 2 * MaxLag - 2 /\ Longest >= 1 /\ Lowest = -(2 * MaxLag + 2)
    /\ Ticks = 0 .. TickMod - 1
PROOF
<1>1. TickMod \in Nat \ {0} /\ MaxLag \in Nat \ {0} /\ Longest > 0
  BY TimerAssumption
<1>2. PICK h : h = Half
  OBVIOUS
<1>3. h = (TickMod - 1) \div 2
  BY <1>2 DEF Half, RT_TICK_MAX
<1>4. h \in Nat /\ 2 * h + 1 <= TickMod
  BY <1>1, <1>3
<1> QED BY <1>1, <1>2, <1>4 DEF Longest, Lowest, Ticks, RT_TICK_MAX

\* A number that is off by at most the width of the tick.
LEMMA ModCases ==
    ASSUME NEW a \in Int, NEW r \in Ticks, Wrapped(a, r)
    PROVE  a % TickMod = r
PROOF
<1>1. TickMod \in Nat /\ TickMod > 0 /\ r \in 0 .. TickMod - 1
  BY NumFacts
<1>2. \E k \in {-1, 0, 1} : a = r + k * TickMod
  BY <1>1 DEF Wrapped
<1>3. a % TickMod \in 0 .. TickMod - 1 /\ a = TickMod * (a \div TickMod) + (a % TickMod)
  BY <1>1
<1> QED BY <1>1, <1>2, <1>3

\* The difference of two ticks that are d apart tells which one is the later, as long as d is less
\* than the half of the width.
LEMMA DiffFacts ==
    ASSUME NEW a \in Ticks, NEW b \in Ticks, NEW d \in Int, Wrapped(a, b + d), -Half < d, d < Half
    PROVE  /\ Diff(a, b) < Half <=> d >= 0
           /\ d >= 0 => Diff(a, b) = d
           /\ d # 0 => Diff(a, b) # 0
PROOF
<1>1. /\ TickMod \in Nat /\ Half \in Nat /\ 2 * Half + 1 <= TickMod
      /\ a \in 0 .. TickMod - 1 /\ b \in 0 .. TickMod - 1
  BY NumFacts
<1>2. PICK h \in Nat : h = Half
  BY <1>1
<1>3. a - b \in Int
  BY <1>1
<1>4. CASE d >= 0
  <2>1. d \in Ticks /\ Wrapped(a - b, d)
    BY <1>1, <1>2, <1>4, NumFacts DEF Wrapped
  <2>2. (a - b) % TickMod = d
    BY <1>3, <2>1, ModCases
  <2> QED BY <1>4, <2>2 DEF Diff
<1>5. CASE d < 0
  <2>1. d + TickMod \in Ticks
    BY <1>1, <1>2, <1>5, NumFacts
  <2>2. Wrapped(a - b, d + TickMod)
    BY <1>1, <1>2, <1>5 DEF Wrapped
  <2>3. (a - b) % TickMod = d + TickMod
    BY <1>3, <2>1, <2>2, ModCases
  <2>4. d + TickMod >= h /\ d + TickMod # 0
    BY <1>1, <1>2
  <2> QED BY <1>1, <1>2, <1>5, <2>3, <2>4 DEF Diff
<1> QED BY <1>4, <1>5

\* rt_timer_start compares two deadlines as their distances from the tick.
LEMMA LaterFacts ==
    ASSUME NEW a \in Ticks, NEW b \in Ticks, NEW i \in Int, NEW j \in Int, tick \in Ticks,
           Wrapped(a, tick + i), Wrapped(b, tick + j), i - j < Half, j - i < Half
    PROVE  IsLater(a, b) <=> i > j
PROOF
<1>1. /\ TickMod \in Nat /\ Half \in Nat /\ 2 * Half + 1 <= TickMod
      /\ a \in 0 .. TickMod - 1 /\ b \in 0 .. TickMod - 1 /\ tick \in Int
  BY NumFacts
<1>2. PICK h \in Nat : h = Half
  BY <1>1
<1>3. PICK d \in Int : d = i - j
  OBVIOUS
<1>4. -h < d /\ d < h
  BY <1>2, <1>3
<1>5. \E k \in {-1, 0, 1}, m \in {-1, 0, 1} : a = tick + i + k * TickMod /\ b = tick + j + m * TickMod
  BY <1>1 DEF Wrapped
<1>6. Wrapped(a, b + d)
  BY <1>1, <1>2, <1>3, <1>4, <1>5 DEF Wrapped
<1>7. /\ Diff(a, b) < Half <=> d >= 0
      /\ d >= 0 => Diff(a, b) = d
      /\ d # 0 => Diff(a, b) # 0
  BY <1>2, <1>4, <1>6, DiffFacts
<1>8. IsLater(a, b) <=> d > 0
  BY <1>7 DEF IsLater
<1> QED BY <1>3, <1>8

\* Both walks compare the deadline with a tick that was read up to e ticks ago.
LEMMA DueFacts ==
    ASSUME NEW t, NEW now \in Ticks, NEW e \in 0 .. MaxLag, now + e \in {tick, tick + TickMod},
           tick \in Ticks, DeadlineAt(timer, t), timer[t].left \in Int,
           timer[t].left >= -(2 * MaxLag + 1)
    PROVE  Due(t, now) <=> timer[t].left + e <= 0
PROOF
<1>1. /\ TickMod \in Nat /\ Half \in Nat /\ 2 * Half + 1 <= TickMod /\ MaxLag \in Nat
      /\ now \in 0 .. TickMod - 1 /\ tick \in 0 .. TickMod - 1 /\ Longest = Half - 2 * MaxLag - 2
      /\ Longest >= 1
  BY NumFacts
<1>2. PICK h \in Nat : h = Half
  BY <1>1
<1>3. PICK a \in Ticks : a = timer[t].timeout_tick
  BY DEF DeadlineAt
<1>4. PICK i \in Int : i = timer[t].left
  OBVIOUS
<1>5. a \in 0 .. TickMod - 1 /\ i <= h - 2 * MaxLag - 2 /\ i >= -(2 * MaxLag + 1)
      /\ Wrapped(a, tick + i)
  BY <1>1, <1>2, <1>3, <1>4 DEF DeadlineAt, Ticks, RT_TICK_MAX
<1>6. PICK d \in Int : d = -(i + e)
  OBVIOUS
<1>7. -h < d /\ d < h
  BY <1>1, <1>2, <1>5, <1>6
<1>8. Wrapped(now, a + d)
  BY <1>1, <1>2, <1>5, <1>6, <1>7 DEF Wrapped
<1>9. Diff(now, a) < Half <=> d >= 0
  BY <1>2, <1>7, <1>8, DiffFacts
<1> QED BY <1>3, <1>4, <1>6, <1>9 DEF Due

\* The types of a state, for arithmetic.
LEMMA TimeParts ==
    ASSUME StopInv, Times
    PROVE  /\ TimesOK /\ LagOK /\ DeadlineOK /\ HardTime /\ SoftTime /\ CallTime
           /\ AppTime /\ OrderOK /\ NowOK /\ SleepOK
           /\ tick \in Ticks /\ tick \in Int /\ lag \in Int /\ lag >= 0 /\ lag <= MaxLag
           /\ \A t \in Timers : /\ timer[t].left \in Int /\ timer[t].init_tick \in Nat
                                /\ timer[t].timeout_tick \in Ticks \cup {NoTick}
           /\ list \in Lists /\ timer \in [Timers -> TimerRecs]
PROOF
<1>1. TypeOK
  BY Parts
<1>2. \A t \in Timers : timer[t] \in TimerRecs
  BY <1>1 DEF TypeOK
<1>3. tick \in Ticks /\ tick \in Int
  BY <1>1, NumFacts DEF TypeOK
<1>4. lag \in Int /\ lag >= 0 /\ lag <= MaxLag
  BY NumFacts DEF Times, LagOK
<1> QED BY <1>1, <1>2, <1>3, <1>4 DEF Times, TypeOK, TimerRecs

\* A deadline that will be read is less than the half of the width away.
LEMMA LiveRange ==
    ASSUME StopInv, Times, NEW t \in Timers, Live(t)
    PROVE  /\ DeadlineAt(timer, t) /\ timer[t].left \in Int
           /\ timer[t].left >= -(2 * MaxLag + 1) /\ timer[t].left <= Longest
PROOF
<1>1. DeadlineAt(timer, t) /\ timer[t].left \in Int /\ timer[t].left <= Longest
  BY TimeParts DEF DeadlineOK, DeadlineAt
<1>2. MaxLag \in Nat /\ MaxLag >= 1 /\ lag \in Int /\ lag <= MaxLag
  BY NumFacts, TimeParts
<1>3. CASE t \in Soft
  <2>1. timer[t].left >= -(MaxLag + 1) - lag
    BY <1>3, TimeParts DEF SoftTime
  <2> QED BY <1>1, <1>2, <2>1
<1>4. CASE t \notin Soft
  <2>1. t \in HardTimers /\ t # thr.n /\ ~(thr.pc = "insert" /\ t = thr.t)
    BY <1>4, Parts DEF Timers, HardTimers, TypeOK, ThrOwn
  <2>2. Linked(t) \/ (app.pc = "insert" /\ t = app.t)
    BY <2>1 DEF Live
  <2>3. CASE Linked(t)
    <3>1. timer[t].left >= -MaxLag
      BY <2>1, <2>3, TimeParts DEF HardTime
    <3> QED BY <1>1, <1>2, <3>1
  <2>4. CASE app.pc = "insert" /\ t = app.t
    <3>1. timer[t].left >= 1 - lag
      BY <2>4, TimeParts DEF AppTime
    <3> QED BY <1>1, <1>2, <3>1
  <2> QED BY <2>2, <2>3, <2>4
<1> QED BY <1>3, <1>4

-----------------------------------------------------------------------------
(***************************************************************************)
(* The order of the lists.                                                 *)
(***************************************************************************)
\* Taking a timer out of a list keeps its order.
LEMMA UnlinkOrder ==
    ASSUME NEW T, NEW l \in Seq(T), NEW t \in T, NEW tm, InOrder(l, tm)
    PROVE  InOrder(Unlink(l, t), tm)
PROOF
<1>1. Len(l) \in Nat /\ DOMAIN l = 1 .. Len(l) /\ \A k \in 1 .. Len(l) : l[k] \in T
  BY LenProperties, ElementOfSeq
<1>2. PICK left : left = [u \in T |-> tm[u].left]
  OBVIOUS
<1>3. \A u \in T : left[u] = tm[u].left
  BY <1>2
<1>4. IsPrioOrderedFor(l, left, T)
  BY <1>1, <1>3 DEF InOrder, IsPrioOrderedFor
<1>5. PICK r : r = Unlink(l, t)
  OBVIOUS
<1>6. IsPrioOrderedFor(r, left, T)
  BY <1>4, <1>5, UnlinkOrderedFor
<1>7. r \in Seq(T)
  <2>1. CASE \E i \in DOMAIN l : l[i] = t
    <3>1. PICK c : c = CHOOSE i \in DOMAIN l : l[i] = t
      OBVIOUS
    <3>2. c \in 1 .. Len(l)
      BY <1>1, <2>1, <3>1, Zenon
    <3>3. r = RemoveAt(l, c)
      BY <1>5, <2>1, <3>1, Zenon DEF Unlink
    <3> QED BY <3>2, <3>3, RemoveAtFacts
  <2>2. CASE ~\E i \in DOMAIN l : l[i] = t
    BY <1>5, <2>2, Zenon DEF Unlink
  <2> QED BY <2>1, <2>2
<1>8. DOMAIN r = 1 .. Len(r) /\ \A k \in 1 .. Len(r) : r[k] \in T
  BY <1>7, LenProperties, ElementOfSeq
<1>9. InOrder(r, tm)
  BY <1>3, <1>6, <1>8 DEF InOrder, IsPrioOrderedFor
<1> QED BY <1>5, <1>9

\* The walk of rt_timer_start links a timer behind those that expire no later, where comparing
\* the deadlines modulo the width of the tick tells which those are.
LEMMA InsertOrder ==
    ASSUME NEW T, NEW l \in Seq(T), NEW t \in T, NEW tm, InOrder(l, tm),
           \A u \in T : tm[u].left \in Int,
           \A u \in Range(l) :
              IsLater(tm[u].timeout_tick, tm[t].timeout_tick) <=> tm[u].left > tm[t].left
    PROVE  InOrder(Insert(l, tm, t), tm)
PROOF
<1>0. /\ Len(l) \in Nat /\ DOMAIN l = 1 .. Len(l)
      /\ \A k \in 1 .. Len(l) : l[k] \in T /\ l[k] \in Range(l)
  BY LenProperties, ElementOfSeq DEF Range
<1>1. PICK later : later = LaterPlaces(l, tm, t)
  OBVIOUS
<1>2. \A k \in 1 .. Len(l) : k \in later <=> tm[l[k]].left > tm[t].left
  BY <1>0, <1>1 DEF LaterPlaces
<1>3. PICK r : r = Insert(l, tm, t)
  OBVIOUS
<1>4. \E i \in 1 .. Len(l) + 1 :
         /\ DOMAIN r = 1 .. Len(l) + 1
         /\ \A j \in 1 .. Len(l) + 1 :
               r[j] = IF j < i THEN l[j] ELSE IF j = i THEN t ELSE l[j - 1]
         /\ \A j \in 1 .. Len(l) : j < i => tm[l[j]].left <= tm[t].left
         /\ \A j \in 1 .. Len(l) : j >= i => tm[t].left <= tm[l[j]].left
  <2>1. CASE later = {}
    <3>1. r = Append(l, t)
      BY <1>1, <1>3, <2>1, Zenon DEF Insert
    <3>2. /\ DOMAIN r = 1 .. Len(l) + 1 /\ \A j \in 1 .. Len(l) : r[j] = l[j]
          /\ r[Len(l) + 1] = t
      BY <1>0, <3>1
    <3>3. \A j \in 1 .. Len(l) : tm[l[j]].left <= tm[t].left
      BY <1>0, <1>2, <2>1
    <3>4. Len(l) + 1 \in 1 .. Len(l) + 1 /\ \A j \in 1 .. Len(l) : ~(j >= Len(l) + 1)
      BY <1>0
    <3>5. \A j \in 1 .. Len(l) + 1 :
             r[j] = IF j < Len(l) + 1 THEN l[j] ELSE IF j = Len(l) + 1 THEN t ELSE l[j - 1]
      BY <1>0, <3>2
    <3> QED BY <3>2, <3>3, <3>4, <3>5
  <2>2. CASE later # {}
    <3>1. \E m \in later : \A n \in later : m <= n
      BY <1>0, <1>1, <2>2, SmallestNat DEF LaterPlaces
    <3>2. PICK c : c = Smallest(later)
      OBVIOUS
    <3>3. c \in later /\ \A n \in later : c <= n
      BY <3>1, <3>2, Zenon DEF Smallest
    <3>4. c \in 1 .. Len(l)
      BY <1>0, <1>1, <3>3 DEF LaterPlaces
    <3>5. r = InsertAt(l, c, t)
      BY <1>1, <1>3, <2>2, <3>2, Zenon DEF Insert
    <3>6. /\ InsertAt(l, c, t) \in Seq(T) /\ Len(InsertAt(l, c, t)) = Len(l) + 1
          /\ \A j \in 1 .. Len(l) + 1 :
               InsertAt(l, c, t)[j] = IF j < c THEN l[j] ELSE IF j = c THEN t ELSE l[j - 1]
      BY <3>4, InsertAtFacts
    <3>7. /\ r \in Seq(T) /\ Len(r) = Len(l) + 1
          /\ \A j \in 1 .. Len(l) + 1 :
                r[j] = IF j < c THEN l[j] ELSE IF j = c THEN t ELSE l[j - 1]
      BY <3>5, <3>6, Zenon
    <3>8. DOMAIN r = 1 .. Len(l) + 1
      BY <3>7, LenProperties
    <3>9. \A j \in 1 .. Len(l) : j < c => tm[l[j]].left <= tm[t].left
      <4>1. SUFFICES ASSUME NEW j \in 1 .. Len(l), j < c PROVE tm[l[j]].left <= tm[t].left
        OBVIOUS
      <4>2. j \notin later
        BY <3>3, <3>4, <4>1
      <4> QED BY <1>0, <1>2, <4>2
    <3>10. \A j \in 1 .. Len(l) : j >= c => tm[t].left <= tm[l[j]].left
      <4>1. SUFFICES ASSUME NEW j \in 1 .. Len(l), j >= c PROVE tm[t].left <= tm[l[j]].left
        OBVIOUS
      <4>2. tm[t].left < tm[l[c]].left
        BY <1>0, <1>2, <3>3, <3>4
      <4>3. tm[l[c]].left <= tm[l[j]].left
        BY <1>0, <3>4, <4>1 DEF InOrder
      <4> QED BY <1>0, <3>4, <4>2, <4>3
    <3>11. c \in 1 .. Len(l) + 1
      BY <1>0, <3>4
    <3> QED BY <3>7, <3>8, <3>9, <3>10, <3>11
  <2> QED BY <2>1, <2>2
<1>5. PICK i \in 1 .. Len(l) + 1 :
         /\ DOMAIN r = 1 .. Len(l) + 1
         /\ \A j \in 1 .. Len(l) + 1 :
               r[j] = IF j < i THEN l[j] ELSE IF j = i THEN t ELSE l[j - 1]
         /\ \A j \in 1 .. Len(l) : j < i => tm[l[j]].left <= tm[t].left
         /\ \A j \in 1 .. Len(l) : j >= i => tm[t].left <= tm[l[j]].left
  BY <1>4
<1>6. ASSUME NEW j \in 1 .. Len(l) + 1, NEW k \in 1 .. Len(l) + 1, j < k
      PROVE  tm[r[j]].left <= tm[r[k]].left
  <2>1. CASE k < i
    BY <1>0, <1>5, <1>6, <2>1 DEF InOrder
  <2>2. CASE k = i
    BY <1>0, <1>5, <1>6, <2>2
  <2>3. CASE k > i
    <3>1. k - 1 \in 1 .. Len(l) /\ r[k] = l[k - 1]
      BY <1>0, <1>5, <2>3
    <3>2. CASE j < i
      <4>1. j \in 1 .. Len(l) /\ r[j] = l[j] /\ j < k - 1
        BY <1>0, <1>5, <2>3, <3>2
      <4> QED BY <1>0, <3>1, <4>1 DEF InOrder
    <3>3. CASE j = i
      <4>1. r[j] = t /\ k - 1 >= i
        BY <1>0, <1>5, <2>3, <3>3
      <4> QED BY <1>5, <3>1, <4>1
    <3>4. CASE j > i
      <4>1. j - 1 \in 1 .. Len(l) /\ r[j] = l[j - 1] /\ j - 1 < k - 1
        BY <1>0, <1>5, <1>6, <3>4
      <4> QED BY <1>0, <3>1, <4>1 DEF InOrder
    <3> QED BY <3>2, <3>3, <3>4
  <2> QED BY <2>1, <2>2, <2>3
<1>7. InOrder(r, tm)
  BY <1>5, <1>6 DEF InOrder
<1> QED BY <1>3, <1>7

\* The order of a list depends only on the times of its timers.
LEMMA SameOrder ==
    ASSUME NEW T, NEW l \in Seq(T), NEW tm, NEW tn, InOrder(l, tm),
           \A u \in Range(l) : tn[u].left = tm[u].left
    PROVE  InOrder(l, tn)
PROOF
<1>1. \A i \in DOMAIN l : l[i] \in Range(l)
  BY DEF Range
<1> QED BY <1>1 DEF InOrder

Ordered(l, tm) == InOrder(l.hard, tm) /\ InOrder(l.soft, tm)

\* The same for both lists: the order after _rt_timer_remove.
LEMMA RemovedOrder ==
    ASSUME NEW l \in Lists, NEW tm, Ordered(l, tm), NEW t \in Timers,
           NEW r, r = _rt_timer_remove(l, t)
    PROVE  Ordered(r, tm)
PROOF
<1>0. l.hard \in Seq(HardTimers) /\ l.soft \in Seq(Soft) /\ l = [hard |-> l.hard, soft |-> l.soft]
  BY KindFacts
<1>1. CASE t \in Soft
  <2>1. PICK m : m = Unlink(l.soft, t)
    OBVIOUS
  <2>2. InOrder(m, tm)
    BY <1>0, <1>1, <2>1, UnlinkOrder DEF Ordered
  <2>3. r = [l EXCEPT !.soft = m]
    BY <1>1, <2>1, KindFacts DEF _rt_timer_remove
  <2>4. r.hard = l.hard /\ r.soft = m
    BY <1>0, <2>3 DEF Lists
  <2> QED BY <2>2, <2>4 DEF Ordered
<1>2. CASE t \notin Soft
  <2>0. t \in HardTimers
    BY <1>2, KindFacts
  <2>1. PICK m : m = Unlink(l.hard, t)
    OBVIOUS
  <2>2. InOrder(m, tm)
    BY <1>0, <2>0, <2>1, UnlinkOrder DEF Ordered
  <2>3. r = [l EXCEPT !.hard = m]
    BY <1>2, <2>1, KindFacts DEF _rt_timer_remove
  <2>4. r.soft = l.soft /\ r.hard = m
    BY <1>0, <2>3 DEF Lists
  <2> QED BY <2>2, <2>4 DEF Ordered
<1> QED BY <1>1, <1>2

\* The order after the second section of a start, where every deadline is near enough.
LEMMA LinkedOrder ==
    ASSUME tick \in Ticks, NEW l \in Lists, NEW tm \in [Timers -> TimerRecs], Ordered(l, tm),
           NEW t \in Timers,
           \A v \in Timers : In(l, v) \/ v = t =>
              DeadlineAt(tm, v) /\ tm[v].left >= -(2 * MaxLag + 1),
           NEW r, r = StartLinked(l, tm, t)
    PROVE  Ordered(r, tm)
PROOF
<1>0. l.hard \in Seq(HardTimers) /\ l.soft \in Seq(Soft) /\ l = [hard |-> l.hard, soft |-> l.soft]
  BY KindFacts
<1>1. \A v \in Timers : tm[v].left \in Int
  BY DEF TimerRecs
<1>2. ASSUME NEW v \in Timers, In(l, v)
      PROVE  IsLater(tm[v].timeout_tick, tm[t].timeout_tick) <=> tm[v].left > tm[t].left
  <2>1. /\ DeadlineAt(tm, v) /\ tm[v].left >= -(2 * MaxLag + 1)
        /\ DeadlineAt(tm, t) /\ tm[t].left >= -(2 * MaxLag + 1)
    BY <1>2
  <2>2. PICK i \in Int : i = tm[v].left
    BY <1>1
  <2>3. PICK j \in Int : j = tm[t].left
    BY <1>1
  <2>4. i <= Longest /\ j <= Longest /\ i >= -(2 * MaxLag + 1) /\ j >= -(2 * MaxLag + 1)
    BY <2>1, <2>2, <2>3 DEF DeadlineAt
  <2>5. i - j < Half /\ j - i < Half
    BY <2>4, NumFacts
  <2>6. PICK a \in Ticks : a = tm[v].timeout_tick
    BY <2>1 DEF DeadlineAt
  <2>7. PICK b \in Ticks : b = tm[t].timeout_tick
    BY <2>1 DEF DeadlineAt
  <2>8. Wrapped(a, tick + i) /\ Wrapped(b, tick + j)
    BY <2>1, <2>2, <2>3, <2>6, <2>7 DEF DeadlineAt
  <2>9. IsLater(a, b) <=> i > j
    BY <2>5, <2>8, LaterFacts
  <2> QED BY <2>2, <2>3, <2>6, <2>7, <2>9
<1>3. CASE t \in Soft
  <2>1. PICK m : m = Insert(l.soft, tm, t)
    OBVIOUS
  <2>2. \A u \in Soft : tm[u].left \in Int
    BY <1>1 DEF Timers
  <2>3. \A u \in Range(l.soft) :
           IsLater(tm[u].timeout_tick, tm[t].timeout_tick) <=> tm[u].left > tm[t].left
    <3>1. SUFFICES ASSUME NEW u \in Range(l.soft)
                   PROVE  IsLater(tm[u].timeout_tick, tm[t].timeout_tick) <=> tm[u].left > tm[t].left
      OBVIOUS
    <3>2. u \in Soft
      BY <1>0, <3>1, ElementOfSeq, LenProperties DEF Range
    <3>3. u \in Timers /\ In(l, u)
      BY <3>1, <3>2, KindFacts DEF In, Timers
    <3> QED BY <1>2, <3>3
  <2>4. InOrder(m, tm)
    BY <1>0, <1>3, <2>1, <2>2, <2>3, InsertOrder DEF Ordered
  <2>5. r = [l EXCEPT !.soft = m]
    BY <1>3, <2>1, KindFacts DEF StartLinked
  <2>6. r.hard = l.hard /\ r.soft = m
    BY <1>0, <2>5 DEF Lists
  <2> QED BY <2>4, <2>6 DEF Ordered
<1>4. CASE t \notin Soft
  <2>0. t \in HardTimers
    BY <1>4, KindFacts
  <2>1. PICK m : m = Insert(l.hard, tm, t)
    OBVIOUS
  <2>2. \A u \in HardTimers : tm[u].left \in Int
    BY <1>1 DEF Timers, HardTimers
  <2>3. \A u \in Range(l.hard) :
           IsLater(tm[u].timeout_tick, tm[t].timeout_tick) <=> tm[u].left > tm[t].left
    <3>1. SUFFICES ASSUME NEW u \in Range(l.hard)
                   PROVE  IsLater(tm[u].timeout_tick, tm[t].timeout_tick) <=> tm[u].left > tm[t].left
      OBVIOUS
    <3>2. u \in HardTimers
      BY <1>0, <3>1, ElementOfSeq, LenProperties DEF Range
    <3>3. u \in Timers /\ u \notin Soft
      BY <3>2, TimerAssumption DEF Timers, HardTimers
    <3>4. In(l, u)
      BY <3>1, <3>3, KindFacts DEF In
    <3> QED BY <1>2, <3>3, <3>4
  <2>4. InOrder(m, tm)
    BY <1>0, <2>0, <2>1, <2>2, <2>3, InsertOrder DEF Ordered
  <2>5. r = [l EXCEPT !.hard = m]
    BY <1>4, <2>1, KindFacts DEF StartLinked
  <2>6. r.soft = l.soft /\ r.hard = m
    BY <1>0, <2>5 DEF Lists
  <2> QED BY <2>4, <2>6 DEF Ordered
<1> QED BY <1>3, <1>4

\* The first timer of a list is in it.
LEMMA HeadOf ==
    ASSUME NEW l \in Lists
    PROVE  /\ l.soft # <<>> => Head(l.soft) \in Soft /\ In(l, Head(l.soft))
           /\ l.hard # <<>> => Head(l.hard) \in HardTimers /\ In(l, Head(l.hard))
PROOF
<1>1. l.hard \in Seq(HardTimers) /\ l.soft \in Seq(Soft)
  BY DEF Lists
<1>2. ASSUME l.soft # <<>> PROVE Head(l.soft) \in Soft /\ In(l, Head(l.soft))
  <2>1. PICK h : h = Head(l.soft)
    OBVIOUS
  <2>2. h \in Soft /\ h \in Range(l.soft)
    BY <1>1, <1>2, <2>1 DEF Range
  <2>3. l[Kind(h)] = l.soft
    BY <2>2, KindFacts DEF Timers
  <2> QED BY <2>1, <2>2, <2>3 DEF In
<1>3. ASSUME l.hard # <<>> PROVE Head(l.hard) \in HardTimers /\ In(l, Head(l.hard))
  <2>1. PICK h : h = Head(l.hard)
    OBVIOUS
  <2>2. h \in HardTimers /\ h \in Range(l.hard)
    BY <1>1, <1>3, <2>1 DEF Range
  <2>3. h \in Timers /\ h \notin Soft
    BY <2>2, TimerAssumption DEF Timers, HardTimers
  <2>4. l[Kind(h)] = l.hard
    BY <2>3, KindFacts
  <2> QED BY <2>1, <2>2, <2>4 DEF In
<1> QED BY <1>2, <1>3

\* The first timer of a list is the first to expire.
LEMMA HeadLeast ==
    ASSUME NEW l \in Lists, NEW tm, Ordered(l, tm), NEW t \in Timers, In(l, t),
           \A u \in Timers : tm[u].left \in Int
    PROVE  /\ t \in Soft => l.soft # <<>> /\ tm[Head(l.soft)].left <= tm[t].left
           /\ t \notin Soft => l.hard # <<>> /\ tm[Head(l.hard)].left <= tm[t].left
PROOF
<1>1. ASSUME NEW T, NEW m \in Seq(T), InOrder(m, tm), t \in Range(m)
      PROVE  m # <<>> /\ tm[Head(m)].left <= tm[t].left
  <2>1. Len(m) \in Nat /\ DOMAIN m = 1 .. Len(m)
    BY <1>1, LenProperties
  <2>2. PICK i \in 1 .. Len(m) : m[i] = t
    BY <1>1, <2>1 DEF Range
  <2>3. 1 \in 1 .. Len(m) /\ m # <<>> /\ Head(m) = m[1]
    BY <2>1, <2>2
  <2>4. CASE i = 1
    BY <2>2, <2>3, <2>4
  <2>5. CASE i # 1
    <3>1. 1 < i
      BY <2>1, <2>5
    <3> QED BY <1>1, <2>1, <2>2, <2>3, <3>1 DEF InOrder
  <2> QED BY <2>4, <2>5
<1>2. l.hard \in Seq(HardTimers) /\ l.soft \in Seq(Soft)
  BY KindFacts
<1>3. CASE t \in Soft
  <2>1. t \in Range(l.soft)
    BY <1>3, KindFacts DEF In
  <2> QED BY <1>1, <1>2, <1>3, <2>1 DEF Ordered
<1>4. CASE t \notin Soft
  <2>1. t \in Range(l.hard)
    BY <1>4, KindFacts DEF In
  <2> QED BY <1>1, <1>2, <1>4, <2>1 DEF Ordered
<1> QED BY <1>3, <1>4

\* The same for both lists, with the timers that are in them.
LEMMA OrderedSame ==
    ASSUME NEW l \in Lists, NEW tm, NEW tn, Ordered(l, tm),
           \A v \in Timers : In(l, v) => tn[v].left = tm[v].left
    PROVE  Ordered(l, tn)
PROOF
<1>1. l.hard \in Seq(HardTimers) /\ l.soft \in Seq(Soft)
  BY DEF Lists
<1>2. \A u \in Range(l.hard) : tn[u].left = tm[u].left
  <2>1. SUFFICES ASSUME NEW u \in Range(l.hard) PROVE tn[u].left = tm[u].left
    OBVIOUS
  <2>2. u \in HardTimers
    BY <1>1, <2>1, ElementOfSeq, LenProperties DEF Range
  <2>3. u \in Timers /\ u \notin Soft
    BY <2>2, TimerAssumption DEF Timers, HardTimers
  <2>4. In(l, u)
    BY <2>1, <2>3, KindFacts DEF In
  <2> QED BY <2>3, <2>4
<1>3. \A u \in Range(l.soft) : tn[u].left = tm[u].left
  <2>1. SUFFICES ASSUME NEW u \in Range(l.soft) PROVE tn[u].left = tm[u].left
    OBVIOUS
  <2>2. u \in Soft
    BY <1>1, <2>1, ElementOfSeq, LenProperties DEF Range
  <2>3. u \in Timers
    BY <2>2 DEF Timers
  <2>4. In(l, u)
    BY <2>1, <2>2, <2>3, KindFacts DEF In
  <2> QED BY <2>3, <2>4
<1> QED BY <1>1, <1>2, <1>3, SameOrder DEF Ordered

\* The lists stay in order where the timers that stay in them keep their times.
LEMMA OrderKept ==
    ASSUME NEW l \in Lists, NEW tm, Ordered(l, tm),
           list' = l, \A v \in Timers : In(l, v) => timer'[v].left = tm[v].left
    PROVE  OrderOK'
PROOF
<1>1. PICK tn : tn = timer'
  OBVIOUS
<1>2. Ordered(l, tn)
  BY <1>1, OrderedSame
<1> QED BY <1>1, <1>2 DEF OrderOK, Ordered

-----------------------------------------------------------------------------
(***************************************************************************)
(* What most steps have in common: the tick stands still, and every timer  *)
(* keeps its deadline or gets a new one.                                   *)
(***************************************************************************)
Kept(v) ==
    /\ \/ timer'[v].init_tick = timer[v].init_tick
       \/ v # ThreadTimer /\ timer'[v].init_tick \in 1 .. Longest
    /\ Live(v)' => /\ Live(v) /\ timer'[v].left = timer[v].left
                   /\ timer'[v].timeout_tick = timer[v].timeout_tick
    /\ v \in HardTimers /\ Linked(v)' => Linked(v)

Fresh(v) ==
    /\ v # ThreadTimer => timer'[v].init_tick \in 1 .. Longest
    /\ Live(v)' => /\ DeadlineAt(timer', v)
                   /\ timer'[v].left >= IF v = ThreadTimer THEN 0 ELSE 1 - lag

\* The parts of the invariant that speak of one timer at a time.
LEMMA Frame ==
    ASSUME StopInv, StopInv', Times, tick' = tick, lag' = lag,
           \A v \in Timers : Kept(v) \/ Fresh(v)
    PROVE  /\ TimesOK' /\ LagOK' /\ DeadlineOK' /\ SoftTime'
           /\ (irq'.pc = "idle" => irq.pc = "idle") => HardTime'
PROOF
<1>0. /\ MaxLag \in Nat /\ MaxLag >= 1 /\ lag \in Int /\ lag >= 0 /\ lag <= MaxLag
      /\ Soft \subseteq Timers /\ Hard \subseteq Timers /\ HardTimers \subseteq Timers
      /\ ThreadTimer \in HardTimers /\ ThreadTimer \notin Soft /\ ThreadTimer \notin Hard
  BY NumFacts, TimeParts, Parts
<1>1. \A v \in Timers : timer[v].left \in Int /\ timer'[v].left \in Int
  <2>1. \A v \in Timers : timer'[v] \in TimerRecs
    BY DEF StopInv, IInv, TypeOK
  <2> QED BY <2>1, TimeParts DEF TimerRecs
<1>2. TimesOK'
  <2>1. SUFFICES ASSUME NEW v \in Hard \cup Soft PROVE timer'[v].init_tick \in 1 .. Longest
    BY DEF TimesOK
  <2>2. v \in Timers /\ v # ThreadTimer /\ timer[v].init_tick \in 1 .. Longest
    BY <1>0, <2>1, TimeParts DEF TimesOK
  <2> QED BY <2>2 DEF Kept, Fresh
<1>3. LagOK'
  BY TimeParts DEF LagOK
<1>4. DeadlineOK'
  <2>1. SUFFICES ASSUME NEW v \in Timers, Live(v)' PROVE DeadlineAt(timer, v)'
    BY DEF DeadlineOK
  <2>2. CASE Kept(v)
    <3>1. /\ DeadlineAt(timer, v) /\ timer'[v].left = timer[v].left
          /\ timer'[v].timeout_tick = timer[v].timeout_tick
      BY <2>1, <2>2, TimeParts DEF Kept, DeadlineOK
    <3> QED BY <3>1 DEF DeadlineAt, Wrapped, Ticks, RT_TICK_MAX
  <2>3. CASE Fresh(v)
    BY <2>1, <2>3 DEF Fresh, DeadlineAt
  <2> QED BY <2>2, <2>3
<1>5. ASSUME irq'.pc = "idle" => irq.pc = "idle" PROVE HardTime'
  <2>1. SUFFICES ASSUME NEW v \in HardTimers, Linked(v)'
                 PROVE  /\ timer'[v].left >= -MaxLag
                        /\ irq'.pc = "idle" => timer'[v].left >= 1 - MaxLag
                        /\ v = ThreadTimer => /\ timer'[v].left >= -1
                                              /\ irq'.pc = "idle" => timer'[v].left >= 0
    BY <1>0 DEF HardTime
  <2>2. v \in Timers /\ Live(v)'
    BY <1>0, <2>1 DEF Live
  <2>3. CASE Kept(v)
    <3>1. Linked(v) /\ timer'[v].left = timer[v].left
      BY <2>1, <2>2, <2>3 DEF Kept
    <3> QED BY <1>5, <2>1, <3>1, TimeParts DEF HardTime
  <2>4. CASE Fresh(v)
    <3>1. timer'[v].left >= IF v = ThreadTimer THEN 0 ELSE 1 - lag
      BY <2>2, <2>4 DEF Fresh
    <3> QED BY <1>0, <1>1, <2>2, <3>1
  <2> QED BY <2>2, <2>3, <2>4
<1>6. SoftTime'
  <2>1. SUFFICES ASSUME NEW v \in Soft, Live(v)' PROVE timer'[v].left >= -(MaxLag + 1) - lag
    BY DEF SoftTime
  <2>2. v \in Timers
    BY <1>0
  <2>3. CASE Kept(v)
    <3>1. Live(v) /\ timer'[v].left = timer[v].left
      BY <2>1, <2>3 DEF Kept
    <3> QED BY <2>1, <3>1, TimeParts DEF SoftTime
  <2>4. CASE Fresh(v)
    <3>1. timer'[v].left >= 1 - lag
      BY <1>0, <2>1, <2>4 DEF Fresh
    <3> QED BY <1>0, <1>1, <2>2, <3>1
  <2> QED BY <2>2, <2>3, <2>4
<1> QED BY <1>2, <1>3, <1>4, <1>5, <1>6

\* The deadline the caller has written is no further away than the ticks that passed since, or a
\* timeout function has written a new one.
LEMMA AppKept ==
    ASSUME StopInv, Times, lag' = lag, app' = app, \A v \in Timers : Kept(v) \/ Fresh(v)
    PROVE  AppTime'
PROOF
<1>1. SUFFICES ASSUME app.pc = "insert" PROVE timer'[app.t].left >= 1 - lag
  BY DEF AppTime
<1>2. app.t \in Timers /\ app.t # ThreadTimer /\ Live(app.t)'
  BY <1>1, Parts DEF AppOwn, Live
<1>3. CASE Kept(app.t)
  <2>1. timer'[app.t].left = timer[app.t].left
    BY <1>2, <1>3 DEF Kept
  <2> QED BY <1>1, <2>1, TimeParts DEF AppTime
<1>4. CASE Fresh(app.t)
  BY <1>2, <1>4 DEF Fresh
<1> QED BY <1>2, <1>3, <1>4

\* The timer thread keeps the tick it compares with, or reads it again.
LEMMA NowKept ==
    ASSUME StopInv, Times, tick' = tick, lag' = lag,
           thr'.pc \in {"walk", "callback", "insert", "return"} =>
              \/ thr'.now = tick
              \/ thr'.now = thr.now /\ thr.pc \in {"walk", "callback", "insert", "return"}
    PROVE  NowOK'
PROOF
<1>1. SUFFICES ASSUME thr'.pc \in {"walk", "callback", "insert", "return"}
               PROVE  /\ thr'.now \in Ticks
                      /\ \E e \in 0 .. lag : thr'.now + e \in {tick, tick + TickMod}
  BY DEF NowOK, Ticks, RT_TICK_MAX
<1>2. CASE thr'.now = tick
  <2>1. 0 \in 0 .. lag /\ tick + 0 = tick
    BY TimeParts
  <2> QED BY <1>2, <2>1, TimeParts
<1>3. CASE thr'.now = thr.now /\ thr.pc \in {"walk", "callback", "insert", "return"}
  BY <1>3, TimeParts DEF NowOK
<1> QED BY <1>1, <1>2, <1>3

\* While the timer thread prepares its sleep nobody touches the soft timers, and while it sleeps
\* they are at most taken out of their list.
LEMMA SleepKept ==
    ASSUME StopInv, StopInv', Times, lag' = lag, thr'.pc = thr.pc, thr'.next = thr.next,
           thr.pc \in {"measure", "delay"} =>
              /\ list'.soft = list.soft
              /\ \A v \in Soft : /\ timer'[v].left = timer[v].left
                                 /\ timer'[v].timeout_tick = timer[v].timeout_tick,
           thr.pc = "suspended" =>
              /\ app.pc = "wake" => app'.pc = "wake"
              /\ \A v \in Soft : Linked(v)' => Linked(v) /\ timer'[v].left = timer[v].left
              /\ Linked(ThreadTimer) \/ (irq.pc = "call" /\ irq.t = ThreadTimer) =>
                    /\ Linked(ThreadTimer)' \/ (irq'.pc = "call" /\ irq'.t = ThreadTimer)
                    /\ timer'[ThreadTimer].left = timer[ThreadTimer].left
    PROVE  SleepOK'
PROOF
<1>0. /\ Soft \subseteq Timers /\ ThreadTimer \in Timers /\ MaxLag \in Int
      /\ \A v \in Timers : timer[v].left \in Int
  BY NumFacts, TimeParts, Parts
<1>1. ASSUME thr'.pc = "measure"
      PROVE  list'.soft # <<>> /\ thr'.next = timer'[Head(list'.soft)].timeout_tick
  <2>1. list.soft # <<>> /\ thr.next = timer[Head(list.soft)].timeout_tick
    BY <1>1, TimeParts DEF SleepOK
  <2>2. Head(list.soft) \in Soft
    BY <2>1, HeadFacts
  <2> QED BY <1>1, <2>1, <2>2
<1>2. ASSUME thr'.pc = "delay"
      PROVE  /\ list'.soft # <<>> /\ thr'.next <= Longest
             /\ thr'.next <= timer'[Head(list'.soft)].left + lag'
  <2>1. list.soft # <<>> /\ thr.next <= Longest /\ thr.next <= timer[Head(list.soft)].left + lag
    BY <1>2, TimeParts DEF SleepOK
  <2>2. Head(list.soft) \in Soft
    BY <2>1, HeadFacts
  <2> QED BY <1>2, <2>1, <2>2
<1>3. ASSUME thr'.pc = "suspended", list'.soft # <<>>, app'.pc # "wake"
      PROVE  /\ Linked(ThreadTimer)' \/ (irq'.pc = "call" /\ irq'.t = ThreadTimer)
             /\ timer'[ThreadTimer].left <= timer'[Head(list'.soft)].left + MaxLag
  <2>1. PICK h \in Soft : h = Head(list'.soft) /\ Linked(h)'
    <3>1. PICK l : l = list'
      OBVIOUS
    <3>2. l \in Lists /\ l.soft # <<>>
      BY <1>3, <3>1 DEF StopInv, IInv, TypeOK
    <3>3. PICK h \in Soft : h = Head(l.soft) /\ In(l, h)
      BY <3>2, HeadOf
    <3> QED BY <3>1, <3>3 DEF Linked, In
  <2>2. Linked(h) /\ timer'[h].left = timer[h].left /\ app.pc # "wake" /\ h \in Timers
    BY <1>0, <1>3, <2>1
  <2>3. list.soft # <<>> /\ timer[Head(list.soft)].left <= timer[h].left
    <3>1. In(list, h) /\ Ordered(list, timer) /\ list \in Lists
      BY <2>2, TimeParts DEF In, Linked, OrderOK, Ordered
    <3> QED BY <1>0, <2>1, <2>2, <3>1, HeadLeast
  <2>4. PICK g \in Timers : g = Head(list.soft)
    BY <1>0, <2>3, HeadFacts
  <2>5. /\ Linked(ThreadTimer) \/ (irq.pc = "call" /\ irq.t = ThreadTimer)
        /\ timer[ThreadTimer].left <= timer[g].left + MaxLag
    BY <1>3, <2>2, <2>3, <2>4, TimeParts DEF SleepOK
  <2>6. timer[ThreadTimer].left <= timer[h].left + MaxLag
    BY <1>0, <2>2, <2>3, <2>4, <2>5
  <2> QED BY <1>3, <2>1, <2>2, <2>5, <2>6
<1> QED BY <1>1, <1>2, <1>3 DEF SleepOK

-----------------------------------------------------------------------------
(***************************************************************************)
(* The steps of the tick interrupt.                                        *)
(***************************************************************************)
\* A running timer is a tick nearer to its deadline, and nothing else is new of a timer.
LEMMA TickFacts ==
    ASSUME StopInv, Times, Tick, NEW u \in Timers
    PROVE  /\ timer'[u].timeout_tick = timer[u].timeout_tick
           /\ timer'[u].init_tick = timer[u].init_tick
           /\ timer'[u].left \in Int
           /\ timer'[u].left = timer[u].left \/ timer'[u].left = timer[u].left - 1
           /\ Live(u) => timer'[u].left = timer[u].left - 1
PROOF
<1>1. timer[u] \in TimerRecs /\ timer[u].left \in Int
  BY TimeParts DEF TimerRecs
<1>2. timer'[u] = IF timer[u].timeout_tick # NoTick /\ timer[u].left > Lowest
                  THEN [timer[u] EXCEPT !.left = @ - 1] ELSE timer[u]
  BY DEF Tick
<1>3. CASE timer'[u] = [timer[u] EXCEPT !.left = @ - 1]
  BY <1>1, <1>3 DEF TimerRecs
<1>4. CASE timer'[u] = timer[u] /\ ~(timer[u].timeout_tick # NoTick /\ timer[u].left > Lowest)
  <2>1. ~Live(u)
    <3>1. SUFFICES ASSUME Live(u) PROVE FALSE
      OBVIOUS
    <3>2. DeadlineAt(timer, u) /\ timer[u].left >= -(2 * MaxLag + 1)
      BY <3>1, LiveRange
    <3>3. timer[u].timeout_tick # NoTick
      BY <3>2, NumFacts, TimerAssumption DEF DeadlineAt
    <3> QED BY <1>1, <1>4, <3>2, <3>3, NumFacts
  <2> QED BY <1>1, <1>4, <2>1
<1> QED BY <1>2, <1>3, <1>4

\* The tick advances by one, around the width of rt_tick_t.
LEMMA NextTick ==
    ASSUME StopInv, Times, Tick
    PROVE  tick' \in Ticks /\ tick' \in {tick + 1, tick + 1 - TickMod}
PROOF
<1>1. TickMod \in Nat /\ tick \in 0 .. TickMod - 1 /\ tick' = (tick + 1) % TickMod
  BY NumFacts, TimeParts DEF Tick
<1>2. CASE tick + 1 = TickMod
  <2>1. 0 \in Ticks /\ Wrapped(tick + 1, 0)
    BY <1>1, <1>2, NumFacts DEF Wrapped
  <2>2. tick' = 0
    BY <1>1, <2>1, ModCases
  <2> QED BY <1>1, <1>2, <2>1, <2>2
<1>3. CASE tick + 1 # TickMod
  <2>1. tick + 1 \in Ticks /\ Wrapped(tick + 1, tick + 1)
    BY <1>1, <1>3, NumFacts DEF Wrapped
  <2>2. tick' = tick + 1
    BY <1>1, <2>1, ModCases
  <2> QED BY <2>1, <2>2
<1> QED BY <1>2, <1>3

\* Where no thread is at work the thread timer covers the first soft timer, so none is late by
\* more than it was allowed when the timer thread went to sleep.
LEMMA Covered ==
    ASSUME StopInv, Times, irq = Idle, ~Busy, NEW t \in Soft, Live(t)
    PROVE  timer[t].left >= -MaxLag
PROOF
<1>0. /\ Soft \subseteq Timers /\ ThreadTimer \in Timers /\ MaxLag \in Int
      /\ \A v \in Timers : timer[v].left \in Int
  BY NumFacts, TimeParts, Parts
<1>1. thr.pc = "suspended" /\ app.pc = "idle" /\ irq.pc = "idle"
  BY DEF Busy, Idle
<1>2. Linked(t)
  BY <1>1, Parts DEF Live, ThrOwn
<1>3. list.soft # <<>> /\ timer[Head(list.soft)].left <= timer[t].left
  <2>1. In(list, t) /\ Ordered(list, timer) /\ list \in Lists
    BY <1>2, TimeParts DEF In, Linked, OrderOK, Ordered
  <2> QED BY <1>0, <2>1, HeadLeast
<1>4. PICK g \in Timers : g = Head(list.soft)
  BY <1>0, <1>3, HeadFacts
<1>5. Linked(ThreadTimer) /\ timer[ThreadTimer].left <= timer[g].left + MaxLag
  BY <1>1, <1>3, <1>4, TimeParts DEF SleepOK
<1>6. timer[ThreadTimer].left >= 0
  BY <1>1, <1>5, TimeParts DEF HardTime
<1> QED BY <1>0, <1>3, <1>4, <1>5, <1>6

\* The tick advances.
LEMMA TickTime ==
    ASSUME StopInv, StopInv', Times, Tick
    PROVE  Times'
PROOF
<1>0. /\ MaxLag \in Nat /\ MaxLag >= 1 /\ lag \in Int /\ lag >= 0 /\ lag <= MaxLag
      /\ Soft \subseteq Timers /\ Hard \subseteq Timers /\ HardTimers \subseteq Timers
      /\ ThreadTimer \in HardTimers /\ ThreadTimer \in Timers
      /\ \A v \in Timers : timer[v].left \in Int
  BY NumFacts, TimeParts, Parts
<1>1. irq = Idle /\ irq.pc = "idle" /\ irq'.pc = "check" /\ UNCHANGED <<list, thr, app>>
  BY DEF Tick, Idle
<1>2. /\ \A v : Live(v)' <=> Live(v)
      /\ \A v : Linked(v)' <=> Linked(v)
      /\ \A v : Linked(v) => Live(v)
  BY <1>1 DEF Live, Linked
<1>3. /\ Busy => lag' = lag + 1 /\ lag + 1 <= MaxLag
      /\ ~Busy => lag' = 0
  BY <1>0 DEF Tick
<1>4. \A u \in Timers :
         /\ timer'[u].timeout_tick = timer[u].timeout_tick
         /\ timer'[u].init_tick = timer[u].init_tick
         /\ timer'[u].left \in Int
         /\ timer'[u].left = timer[u].left \/ timer'[u].left = timer[u].left - 1
         /\ Live(u) => timer'[u].left = timer[u].left - 1
  BY TickFacts
<1>5. TimesOK'
  BY <1>0, <1>4, TimeParts DEF TimesOK
<1>6. LagOK'
  BY <1>0, <1>3 DEF LagOK
<1>7. DeadlineOK'
  <2>1. SUFFICES ASSUME NEW v \in Timers, Live(v) PROVE DeadlineAt(timer, v)'
    BY <1>2 DEF DeadlineOK
  <2>2. DeadlineAt(timer, v) /\ timer[v].left >= -(2 * MaxLag + 1) /\ timer'[v].left = timer[v].left - 1
    BY <1>4, <2>1, LiveRange
  <2>3. PICK at \in Ticks : at = timer[v].timeout_tick /\ at = timer'[v].timeout_tick
    BY <1>4, <2>2 DEF DeadlineAt
  <2>4. PICK i \in Int : i = timer[v].left
    BY <1>0
  <2>5. /\ at \in 0 .. TickMod - 1 /\ tick \in 0 .. TickMod - 1 /\ tick' \in 0 .. TickMod - 1
        /\ TickMod \in Nat /\ tick' \in {tick + 1, tick + 1 - TickMod} /\ 2 * MaxLag + 1 < TickMod
    BY NumFacts, TimeParts, NextTick
  <2>6. Wrapped(at, tick + i) /\ i <= Longest /\ i >= -(2 * MaxLag + 1)
    BY <2>2, <2>3, <2>4 DEF DeadlineAt
  <2>7. Wrapped(at, tick' + (i - 1))
    <3>1. PICK n \in 0 .. TickMod - 1 : n = tick'
      BY <2>5
    <3>2. CASE n = tick + 1
      BY <2>5, <2>6, <3>1, <3>2 DEF Wrapped
    <3>3. CASE n = tick + 1 - TickMod
      <4>1. at = tick + i \/ at = tick + i - TickMod
        BY <1>0, <2>5, <2>6, <3>1, <3>3 DEF Wrapped
      <4> QED BY <2>5, <3>1, <3>3, <4>1 DEF Wrapped
    <3> QED BY <2>5, <3>1, <3>2, <3>3
  <2>8. i - 1 <= Longest
    BY <2>6, NumFacts
  <2>9. timer'[v].left = i - 1
    BY <2>2, <2>4
  <2> QED BY <2>3, <2>7, <2>8, <2>9 DEF DeadlineAt, Wrapped, Ticks, RT_TICK_MAX
<1>8. HardTime'
  <2>1. SUFFICES ASSUME NEW v \in HardTimers, Linked(v)
                 PROVE  timer'[v].left >= -MaxLag /\ (v = ThreadTimer => timer'[v].left >= -1)
    BY <1>0, <1>1, <1>2 DEF HardTime
  <2>2. timer'[v].left = timer[v].left - 1 /\ v \in Timers
    BY <1>0, <1>2, <1>4, <2>1
  <2>3. timer[v].left >= 1 - MaxLag /\ (v = ThreadTimer => timer[v].left >= 0)
    BY <1>1, <2>1, TimeParts DEF HardTime
  <2> QED BY <1>0, <2>2, <2>3
<1>9. SoftTime'
  <2>1. SUFFICES ASSUME NEW v \in Soft, Live(v) PROVE timer'[v].left >= -(MaxLag + 1) - lag'
    BY <1>2 DEF SoftTime
  <2>2. timer'[v].left = timer[v].left - 1 /\ v \in Timers
    BY <1>0, <1>4, <2>1
  <2>3. CASE Busy
    <3>1. timer[v].left >= -(MaxLag + 1) - lag
      BY <2>1, TimeParts DEF SoftTime
    <3> QED BY <1>0, <1>3, <2>2, <2>3, <3>1
  <2>4. CASE ~Busy
    <3>1. timer[v].left >= -MaxLag
      BY <1>1, <2>1, <2>4, Covered
    <3> QED BY <1>0, <1>3, <2>2, <2>4, <3>1
  <2> QED BY <2>3, <2>4
<1>10. CallTime'
  <2>1. SUFFICES ASSUME thr.pc = "callback"
                 PROVE  timer'[thr.t].left <= 0 /\ timer'[thr.t].left >= -(MaxLag + 1) - lag'
    BY <1>1 DEF CallTime
  <2>2. thr.t \in Timers /\ Busy
    BY <1>0, <2>1, Parts DEF ThrOwn, Busy
  <2>3. timer[thr.t].left <= 0 /\ timer[thr.t].left >= -(MaxLag + 1) - lag
    BY <2>1, TimeParts DEF CallTime
  <2> QED BY <1>0, <1>3, <1>4, <2>2, <2>3
<1>11. AppTime'
  <2>1. SUFFICES ASSUME app.pc = "insert" PROVE timer'[app.t].left >= 1 - lag'
    BY <1>1 DEF AppTime
  <2>2. app.t \in Timers /\ Live(app.t) /\ Busy
    BY <1>0, <2>1, Parts DEF AppOwn, Busy, Live
  <2>3. timer[app.t].left >= 1 - lag /\ timer'[app.t].left = timer[app.t].left - 1
    BY <1>4, <2>1, <2>2, TimeParts DEF AppTime
  <2> QED BY <1>0, <1>3, <2>2, <2>3
<1>12. OrderOK'
  <2>0. list.hard \in Seq(HardTimers) /\ list.soft \in Seq(Soft) /\ list \in Lists
    BY TimeParts DEF Lists
  <2>1. \A i \in DOMAIN list.hard : /\ timer'[list.hard[i]].left = timer[list.hard[i]].left - 1
                                    /\ timer[list.hard[i]].left \in Int
    <3>1. SUFFICES ASSUME NEW i \in DOMAIN list.hard, NEW v, v = list.hard[i]
                   PROVE  timer'[v].left = timer[v].left - 1 /\ timer[v].left \in Int
      OBVIOUS
    <3>2. v \in HardTimers
      BY <2>0, <3>1, ElementOfSeq, LenProperties
    <3>3. v \in Timers /\ v \notin Soft /\ v \in Range(list.hard)
      BY <3>1, <3>2, Parts DEF Range
    <3>4. Linked(v)
      BY <2>0, <3>3, KindFacts DEF Linked
    <3> QED BY <1>0, <1>2, <1>4, <3>3, <3>4
  <2>2. \A i \in DOMAIN list.soft : /\ timer'[list.soft[i]].left = timer[list.soft[i]].left - 1
                                    /\ timer[list.soft[i]].left \in Int
    <3>1. SUFFICES ASSUME NEW i \in DOMAIN list.soft, NEW v, v = list.soft[i]
                   PROVE  timer'[v].left = timer[v].left - 1 /\ timer[v].left \in Int
      OBVIOUS
    <3>2. v \in Soft
      BY <2>0, <3>1, ElementOfSeq, LenProperties
    <3>3. v \in Timers /\ v \in Range(list.soft)
      BY <3>1, <3>2, Parts DEF Range
    <3>4. Linked(v)
      BY <2>0, <3>2, <3>3, KindFacts DEF Linked
    <3> QED BY <1>0, <1>2, <1>4, <3>3, <3>4
  <2>3. InOrder(list.hard, timer) /\ InOrder(list.soft, timer)
    BY TimeParts DEF OrderOK
  <2>4. InOrder(list.hard, timer') /\ InOrder(list.soft, timer')
    BY <2>1, <2>2, <2>3 DEF InOrder
  <2> QED BY <1>1, <2>4 DEF OrderOK
<1>13. NowOK'
  <2>1. SUFFICES ASSUME thr.pc \in {"walk", "callback", "insert", "return"}
                 PROVE  \E e \in 0 .. lag' : thr.now + e \in {tick', tick' + TickMod}
    BY <1>1, TimeParts DEF NowOK, Ticks, RT_TICK_MAX
  <2>2. PICK e \in 0 .. lag : thr.now + e \in {tick, tick + TickMod}
    BY <2>1, TimeParts DEF NowOK
  <2>3. PICK now : now = thr.now
    OBVIOUS
  <2>4. thr.now \in Ticks
    BY <2>1, TimeParts DEF NowOK
  <2>5. Busy
    BY <2>1 DEF Busy
  <2>6. e + 1 \in 0 .. lag'
    BY <1>0, <1>3, <2>5
  <2>7. /\ tick \in 0 .. TickMod - 1 /\ tick' \in 0 .. TickMod - 1 /\ now \in 0 .. TickMod - 1
        /\ TickMod \in Nat /\ tick' \in {tick + 1, tick + 1 - TickMod} /\ MaxLag + 1 < TickMod
    BY <2>3, <2>4, NumFacts, TimeParts, NextTick
  <2>8. now + (e + 1) \in {tick', tick' + TickMod}
    BY <1>0, <2>2, <2>3, <2>7
  <2> QED BY <2>3, <2>6, <2>8
<1>14. SleepOK'
  <2>1. ASSUME list.soft # <<>>
        PROVE  /\ Head(list.soft) \in Timers
               /\ timer'[Head(list.soft)].left = timer[Head(list.soft)].left - 1
    BY <1>0, <1>2, <1>4, <2>1, HeadFacts
  <2>2. ASSUME thr.pc = "measure"
        PROVE  list.soft # <<>> /\ thr.next = timer'[Head(list.soft)].timeout_tick
    BY <1>4, <2>1, <2>2, TimeParts DEF SleepOK
  <2>3. ASSUME thr.pc = "delay"
        PROVE  /\ list.soft # <<>> /\ thr.next <= Longest
               /\ thr.next <= timer'[Head(list.soft)].left + lag'
    <3>1. list.soft # <<>> /\ thr.next <= Longest /\ thr.next <= timer[Head(list.soft)].left + lag
      BY <2>3, TimeParts DEF SleepOK
    <3>2. lag' = lag + 1
      BY <1>3, <2>3 DEF Busy
    <3>3. timer'[Head(list.soft)].left + lag' = timer[Head(list.soft)].left + lag
      BY <1>0, <2>1, <3>1, <3>2
    <3> QED BY <3>1, <3>3
  <2>4. ASSUME thr.pc = "suspended", list.soft # <<>>, app.pc # "wake"
        PROVE  /\ Linked(ThreadTimer)
               /\ timer'[ThreadTimer].left <= timer'[Head(list.soft)].left + MaxLag
    <3>1. /\ Linked(ThreadTimer)
          /\ timer[ThreadTimer].left <= timer[Head(list.soft)].left + MaxLag
      BY <1>1, <2>4, TimeParts DEF SleepOK
    <3>2. timer'[ThreadTimer].left = timer[ThreadTimer].left - 1
      BY <1>0, <1>2, <1>4, <3>1
    <3>3. PICK g \in Timers : g = Head(list.soft)
      BY <2>1, <2>4
    <3>4. timer'[g].left = timer[g].left - 1 /\ timer[ThreadTimer].left <= timer[g].left + MaxLag
      BY <2>1, <2>4, <3>1, <3>3
    <3>5. timer[g].left \in Int /\ timer[ThreadTimer].left \in Int
      BY <1>0
    <3>6. timer'[ThreadTimer].left <= timer'[g].left + MaxLag
      BY <1>0, <3>2, <3>4, <3>5
    <3> QED BY <3>1, <3>3, <3>6
  <2>5. list' = list /\ thr' = thr /\ app' = app /\ (Linked(ThreadTimer)' <=> Linked(ThreadTimer))
    BY <1>1, <1>2
  <2> QED BY <2>2, <2>3, <2>4, <2>5 DEF SleepOK
<1> QED BY <1>5, <1>6, <1>7, <1>8, <1>9, <1>10, <1>11, <1>12, <1>13, <1>14 DEF Times

\* Where timers and lists are left alone, and no timer comes into anybody's hands.
LEMMA QuietTime ==
    ASSUME StopInv, StopInv', Times, UNCHANGED <<tick, timer, list, lag>>,
           \A v \in Timers : Live(v)' => Live(v)
    PROVE  /\ TimesOK' /\ LagOK' /\ DeadlineOK' /\ SoftTime' /\ OrderOK'
           /\ (irq'.pc = "idle" => irq.pc = "idle") => HardTime'
           /\ \A v : Linked(v)' <=> Linked(v)
PROOF
<1>1. \A v : Linked(v)' <=> Linked(v)
  BY DEF Linked
<1>2. \A v \in Timers : Kept(v)
  BY <1>1 DEF Kept
<1>3. OrderOK'
  BY TimeParts DEF OrderOK
<1> QED BY <1>1, <1>2, <1>3, Frame

\* rt_timer_check ends when the first hard timer is not due: then none is.
LEMMA CheckEndTime ==
    ASSUME StopInv, StopInv', Times, CheckEnd
    PROVE  Times'
PROOF
<1>1. /\ irq.pc = "check" /\ irq'.pc = "idle" /\ UNCHANGED <<tick, timer, list, thr, app, lag>>
      /\ list.hard # <<>> => ~Due(Head(list.hard), tick)
  BY DEF CheckEnd, Idle
<1>2. \A v \in Timers : Live(v)' => Live(v)
  BY <1>1 DEF Live, Linked
<1>3. /\ TimesOK' /\ LagOK' /\ DeadlineOK' /\ SoftTime' /\ OrderOK'
      /\ \A v : Linked(v)' <=> Linked(v)
  BY <1>1, <1>2, QuietTime
<1>4. HardTime'
  <2>0. MaxLag \in Nat /\ MaxLag >= 1 /\ tick \in Ticks /\ tick \in Int
        /\ \A v \in Timers : timer[v].left \in Int
    BY NumFacts, TimeParts
  <2>1. SUFFICES ASSUME NEW v \in HardTimers, Linked(v) PROVE timer[v].left >= 1
    BY <1>1, <1>3, <2>0, Parts DEF HardTime
  <2>2. v \in Timers /\ v \notin Soft
    BY <2>1, Parts
  <2>3. list.hard # <<>> /\ timer[Head(list.hard)].left <= timer[v].left
    <3>1. In(list, v) /\ Ordered(list, timer) /\ list \in Lists
      BY <2>1, TimeParts DEF In, Linked, OrderOK, Ordered
    <3> QED BY <2>0, <2>2, <3>1, HeadLeast
  <2>4. PICK h \in Timers : h = Head(list.hard) /\ Live(h)
    BY <2>3, HeadFacts, Parts DEF Live
  <2>5. DeadlineAt(timer, h) /\ timer[h].left >= -(2 * MaxLag + 1) /\ timer[h].left \in Int
    BY <2>4, LiveRange
  <2>6. 0 \in 0 .. MaxLag /\ tick + 0 \in {tick, tick + TickMod}
    BY <2>0
  <2>7. Due(h, tick) <=> timer[h].left + 0 <= 0
    BY <2>0, <2>5, <2>6, DueFacts
  <2> QED BY <1>1, <2>0, <2>2, <2>3, <2>4, <2>5, <2>7
<1>5. CallTime' /\ AppTime' /\ NowOK'
  BY <1>1, TimeParts DEF CallTime, AppTime, NowOK, Ticks, RT_TICK_MAX
<1>6. SleepOK'
  BY <1>1, <1>3, SleepKept
<1> QED BY <1>3, <1>4, <1>5, <1>6 DEF Times

\* rt_thread_timeout wakes the timer thread.
LEMMA TimeoutTime ==
    ASSUME StopInv, StopInv', Times, rt_thread_timeout
    PROVE  Times'
PROOF
<1>1. /\ irq.pc = "call" /\ irq.t = ThreadTimer /\ irq' = [irq EXCEPT !.pc = "return"]
      /\ thr' = [thr EXCEPT !.pc = "check"] /\ UNCHANGED <<tick, timer, list, app, lag>>
  BY DEF rt_thread_timeout
<1>2. irq'.pc = "return" /\ thr'.pc = "check" /\ thr'.t = thr.t /\ thr'.n = thr.n
  BY <1>1, Parts DEF TypeOK
<1>3. \A v \in Timers : Live(v)' => Live(v)
  BY <1>1, <1>2 DEF Live, Linked
<1>4. TimesOK' /\ LagOK' /\ DeadlineOK' /\ SoftTime' /\ OrderOK' /\ HardTime'
  BY <1>1, <1>2, <1>3, QuietTime
<1>5. CallTime' /\ AppTime' /\ NowOK' /\ SleepOK'
  BY <1>1, <1>2, TimeParts DEF CallTime, AppTime, NowOK, SleepOK
<1> QED BY <1>4, <1>5 DEF Times

\* rt_timer_check takes the first hard timer when it is due: it is late by what HardTime says.
LEMMA CheckCallTime ==
    ASSUME StopInv, StopInv', Times, CheckCall
    PROVE  Times'
PROOF
<1>0. /\ MaxLag \in Nat /\ MaxLag >= 1 /\ tick \in Ticks /\ tick \in Int /\ list \in Lists
      /\ \A v \in Timers : timer[v].left \in Int
  BY NumFacts, TimeParts
<1>1. PICK h \in HardTimers : h = Head(list.hard) /\ Linked(h)
  BY HeadFacts DEF CheckCall
<1>2. /\ irq.pc = "check" /\ irq' = [pc |-> "call", t |-> h] /\ list' = _rt_timer_remove(list, h)
      /\ UNCHANGED <<tick, timer, thr, app, lag>> /\ Due(h, tick)
  BY <1>1 DEF CheckCall
<1>3. h \in Timers /\ h \notin Soft /\ Live(h)
  BY <1>1, Parts DEF Live
<1>4. /\ list' \in Lists /\ \A v \in Timers : Linked(v)' <=> Linked(v) /\ v # h
  BY <1>2, <1>3, UnlinkStep, Zenon
<1>5. \A v \in Timers : Kept(v)
  BY <1>2, <1>4 DEF Kept, Live
<1>6. TimesOK' /\ LagOK' /\ DeadlineOK' /\ SoftTime' /\ HardTime'
  BY <1>2, <1>5, Frame
<1>7. CallTime'
  <2>1. DeadlineAt(timer, h) /\ timer[h].left >= -(2 * MaxLag + 1) /\ timer[h].left \in Int
    BY <1>3, LiveRange
  <2>2. 0 \in 0 .. MaxLag /\ tick + 0 \in {tick, tick + TickMod}
    BY <1>0
  <2>3. Due(h, tick) <=> timer[h].left + 0 <= 0
    BY <1>0, <2>1, <2>2, DueFacts
  <2>4. timer[h].left <= 0 /\ timer[h].left >= -MaxLag
    BY <1>1, <1>2, <2>1, <2>3, TimeParts DEF HardTime
  <2> QED BY <1>2, <2>4, TimeParts DEF CallTime
<1>8. AppTime' /\ NowOK'
  BY <1>2, TimeParts DEF AppTime, NowOK, Ticks, RT_TICK_MAX
<1>9. OrderOK'
  <2>1. PICK l : l = _rt_timer_remove(list, h)
    OBVIOUS
  <2>2. l \in Lists /\ list' = l
    BY <1>2, <1>4, <2>1
  <2>3. Ordered(l, timer)
    BY <1>0, <1>3, <2>1, RemovedOrder, TimeParts DEF OrderOK, Ordered
  <2> QED BY <1>2, <2>2, <2>3, OrderKept
<1>10. SleepOK'
  <2>1. list'.soft = list.soft
    <3>1. PICK m : m = Unlink(list.hard, h)
      OBVIOUS
    <3>2. list' = [list EXCEPT !.hard = m]
      BY <1>0, <1>2, <1>3, <3>1, KindFacts DEF _rt_timer_remove
    <3> QED BY <1>0, <3>2 DEF Lists
  <2>2. \A v \in Soft : Linked(v)' => Linked(v)
    BY <1>4, Parts
  <2>3. Linked(ThreadTimer) => Linked(ThreadTimer)' \/ (irq'.pc = "call" /\ irq'.t = ThreadTimer)
    BY <1>2, <1>4, Parts
  <2> QED BY <1>2, <2>1, <2>2, <2>3, SleepKept
<1> QED BY <1>6, <1>7, <1>8, <1>9, <1>10 DEF Times

\* rt_timer_stop, by whomever: the timer keeps its deadline if it stays linked or is the next one
\* of the walk.
LEMMA StopTime ==
    ASSUME StopInv, StopInv', Times, NEW u \in Timers, Stopped(timer, list, u),
           UNCHANGED <<tick, lag>>, app' = app \/ app'.pc # "insert",
           thr'.n = thr.n,
           thr'.pc = "insert" => thr.pc = "insert" /\ thr'.t = thr.t /\ thr.t # u
    PROVE  /\ TimesOK' /\ LagOK' /\ DeadlineOK' /\ SoftTime' /\ OrderOK' /\ AppTime'
           /\ (irq'.pc = "idle" => irq.pc = "idle") => HardTime'
           /\ \A v \in Timers \ {u} : timer'[v] = timer[v] /\ (Linked(v)' <=> Linked(v))
           /\ Linked(u)' => Linked(u) /\ timer'[u].left = timer[u].left
           /\ list' = list \/ list' = _rt_timer_remove(list, u)
PROOF
<1>1. /\ \A v \in Timers \ {u} : timer'[v] = timer[v] /\ (Linked(v)' <=> Linked(v))
      /\ Linked(u)' => Linked(u)
      /\ timer'[u].init_tick = timer[u].init_tick
      /\ Linked(u)' \/ Held(u) => /\ timer'[u].timeout_tick = timer[u].timeout_tick
                                 /\ timer'[u].left = timer[u].left
      /\ list' = list \/ list' = _rt_timer_remove(list, u)
  <2>1. list \in Lists /\ LinkedOnce /\ timer \in [Timers -> TimerRecs]
    BY Parts DEF TypeOK
  <2>2. /\ \A v \in Timers \ {u} : timer'[v] = timer[v] /\ (In(list', v) <=> In(list, v))
        /\ In(list', u) => In(list, u)
        /\ timer'[u].init_tick = timer[u].init_tick
        /\ In(list', u) \/ Held(u) => /\ timer'[u].timeout_tick = timer[u].timeout_tick
                                     /\ timer'[u].left = timer[u].left
        /\ list' = list \/ list' = _rt_timer_remove(list, u)
    BY <2>1, StoppedFacts
  <2> QED BY <2>2 DEF In, Linked
<1>2. \A v \in Timers : Kept(v)
  <2>1. SUFFICES ASSUME NEW v \in Timers PROVE Kept(v)
    OBVIOUS
  <2>2. CASE v = u
    BY <1>1, <2>2 DEF Kept, Live, Held
  <2>3. CASE v # u
    <3>1. timer'[v] = timer[v] /\ (Linked(v)' <=> Linked(v))
      BY <1>1, <2>3
    <3> QED BY <3>1 DEF Kept, Live
  <2> QED BY <2>2, <2>3
<1>3. TimesOK' /\ LagOK' /\ DeadlineOK' /\ SoftTime'
      /\ ((irq'.pc = "idle" => irq.pc = "idle") => HardTime')
  BY <1>2, Frame
<1>4. OrderOK'
  <2>1. PICK l \in Lists : list' = l /\ Ordered(l, timer)
    <3>1. CASE list' = list
      BY <3>1, TimeParts DEF OrderOK, Ordered
    <3>2. CASE list' = _rt_timer_remove(list, u)
      <4>1. PICK l : l = list'
        OBVIOUS
      <4>2. l \in Lists
        BY <4>1 DEF StopInv, IInv, TypeOK
      <4>3. Ordered(l, timer)
        BY <3>2, <4>1, RemovedOrder, TimeParts DEF OrderOK, Ordered
      <4> QED BY <4>1, <4>2, <4>3
    <3> QED BY <1>1, <3>1, <3>2
  <2>2. \A v \in Timers : In(l, v) => timer'[v].left = timer[v].left
    BY <1>1, <2>1 DEF In, Linked
  <2> QED BY <2>1, <2>2, OrderKept
<1>5. AppTime'
  <2>1. CASE app' = app
    BY <1>2, <2>1, AppKept
  <2>2. CASE app'.pc # "insert"
    BY <2>2 DEF AppTime
  <2> QED BY <2>1, <2>2
<1> QED BY <1>1, <1>3, <1>4, <1>5

\* The list of the soft timers is not touched where a hard one is linked or unlinked.
LEMMA HardLists ==
    ASSUME NEW l \in Lists, NEW t \in HardTimers, NEW tm
    PROVE  _rt_timer_remove(l, t).soft = l.soft /\ StartLinked(l, tm, t).soft = l.soft
PROOF
<1>1. t \in Timers /\ t \notin Soft
  BY TimerAssumption DEF Timers, HardTimers
<1>2. Kind(t) = "hard"
  BY <1>1, KindFacts
<1>3. PICK m : m = Unlink(l.hard, t)
  OBVIOUS
<1>4. PICK n : n = Insert(l.hard, tm, t)
  OBVIOUS
<1>5. _rt_timer_remove(l, t) = [l EXCEPT !.hard = m] /\ StartLinked(l, tm, t) = [l EXCEPT !.hard = n]
  BY <1>2, <1>3, <1>4 DEF _rt_timer_remove, StartLinked
<1> QED BY <1>5 DEF Lists

\* The timeout function of a hard timer stops a timer, or none.
LEMMA HardCallbackTime ==
    ASSUME StopInv, StopInv', Times, HardCallback
    PROVE  Times'
PROOF
<1>1. /\ irq.pc = "call" /\ irq.t \in Hard /\ irq' = [irq EXCEPT !.pc = "return"]
      /\ UNCHANGED <<tick, thr, app, lag>>
  BY DEF HardCallback
<1>2. irq'.pc = "return" /\ irq'.t = irq.t
  BY <1>1, Parts DEF TypeOK
<1>3. CASE UNCHANGED <<timer, list>>
  <2>1. \A v \in Timers : Live(v)' => Live(v)
    BY <1>1, <1>3 DEF Live, Linked
  <2>2. /\ TimesOK' /\ LagOK' /\ DeadlineOK' /\ SoftTime' /\ OrderOK' /\ HardTime'
        /\ \A v : Linked(v)' <=> Linked(v)
    BY <1>1, <1>2, <1>3, <2>1, QuietTime
  <2>3. CallTime' /\ AppTime' /\ NowOK'
    BY <1>1, <1>2, <1>3, TimeParts DEF CallTime, AppTime, NowOK, Ticks, RT_TICK_MAX
  <2>4. SleepOK'
    <3>1. ~(irq.pc = "call" /\ irq.t = ThreadTimer)
      BY <1>1, Parts
    <3> QED BY <1>1, <1>3, <2>2, <3>1, SleepKept
  <2> QED BY <2>2, <2>3, <2>4 DEF Times
<1>4. ASSUME NEW u \in Hard, Stopped(timer, list, u)
      PROVE  Times'
  <2>1. u \in Timers /\ u \in HardTimers /\ u \notin Soft /\ u # ThreadTimer
    BY Parts
  <2>3. thr.pc = "insert" => thr.t # u
    BY <2>1, Parts DEF ThrOwn
  <2>4. /\ TimesOK' /\ LagOK' /\ DeadlineOK' /\ SoftTime' /\ OrderOK' /\ AppTime' /\ HardTime'
        /\ \A v \in Timers \ {u} : timer'[v] = timer[v] /\ (Linked(v)' <=> Linked(v))
        /\ list' = list \/ list' = _rt_timer_remove(list, u)
    BY <1>1, <1>2, <1>4, <2>1, <2>3, StopTime
  <2>5. list'.soft = list.soft
    BY <2>1, <2>4, HardLists, TimeParts
  <2>6. \A v \in Soft : timer'[v] = timer[v] /\ (Linked(v)' <=> Linked(v))
    BY <2>1, <2>4, Parts
  <2>7. CallTime'
    <3>1. thr.pc = "callback" => thr.t \in Soft
      BY Parts DEF ThrOwn
    <3> QED BY <1>1, <1>2, <2>6, <3>1, TimeParts DEF CallTime
  <2>8. NowOK'
    BY <1>1, TimeParts DEF NowOK, Ticks, RT_TICK_MAX
  <2>9. SleepOK'
    <3>1. ~(irq.pc = "call" /\ irq.t = ThreadTimer)
      BY <1>1, Parts
    <3>2. timer'[ThreadTimer] = timer[ThreadTimer] /\ (Linked(ThreadTimer)' <=> Linked(ThreadTimer))
      BY <2>1, <2>4, Parts
    <3> QED BY <1>1, <2>5, <2>6, <3>1, <3>2, SleepKept
  <2> QED BY <2>4, <2>7, <2>8, <2>9 DEF Times
<1> QED BY <1>3, <1>4 DEF HardCallback, Affected

\* A deadline that is n ticks ahead.
LEMMA NewDeadline ==
    ASSUME tick \in Ticks, NEW n \in 0 .. Longest
    PROVE  (tick + n) % TickMod \in Ticks /\ Wrapped((tick + n) % TickMod, tick + n)
PROOF
<1>1. TickMod \in Nat /\ tick \in 0 .. TickMod - 1 /\ n \in Nat /\ n < TickMod
  BY NumFacts
<1>2. PICK a \in Int : a = tick + n
  BY <1>1
<1>3. CASE a < TickMod
  <2>1. a \in Ticks /\ Wrapped(a, a)
    BY <1>1, <1>2, <1>3, NumFacts DEF Wrapped
  <2>2. a % TickMod = a
    BY <2>1, ModCases
  <2> QED BY <1>2, <2>1, <2>2
<1>4. CASE ~(a < TickMod)
  <2>1. a - TickMod \in Ticks /\ Wrapped(a, a - TickMod) /\ Wrapped(a - TickMod, a)
    BY <1>1, <1>2, <1>4, NumFacts DEF Wrapped
  <2>2. a % TickMod = a - TickMod
    BY <2>1, ModCases
  <2> QED BY <1>2, <2>1, <2>2
<1> QED BY <1>3, <1>4

\* The first section of rt_timer_start gives a timer a deadline.
LEMMA BegunDeadline ==
    ASSUME tick \in Ticks, NEW tm \in [Timers -> TimerRecs], NEW t \in Timers,
           tm[t].init_tick \in 0 .. Longest, NEW r, r = StartBegun(tm, t)
    PROVE  DeadlineAt(r, t) /\ r[t].left \in Int /\ r[t].left >= 0
PROOF
<1>1. PICK n \in 0 .. Longest : n = tm[t].init_tick
  OBVIOUS
<1>2. r[t].left = n /\ r[t].timeout_tick = (tick + n) % TickMod
  BY <1>1, BegunFacts
<1>3. n \in Int /\ n >= 0 /\ n <= Longest
  BY NumFacts
<1> QED BY <1>2, <1>3, NewDeadline DEF DeadlineAt

\* rt_timer_start where no tick can come between its sections: the timer finds its place.
LEMMA StartedTime ==
    ASSUME StopInv, Times, NEW tm \in [Timers -> TimerRecs], NEW t \in Timers,
           \A v \in Timers \ {t} : tm[v] = timer[v], tm[t].init_tick \in 0 .. Longest,
           Started(tm, t)
    PROVE  /\ OrderOK' /\ DeadlineAt(timer', t)
           /\ timer'[t].init_tick = tm[t].init_tick /\ timer'[t].left = tm[t].init_tick
           /\ \A v \in Timers \ {t} : timer'[v] = timer[v] /\ (Linked(v)' <=> Linked(v))
           /\ Linked(t)'
PROOF
<1>0. list \in Lists /\ tick \in Ticks /\ LinkedOnce
  BY TimeParts, Parts
<1>1. PICK b : b = StartBegun(tm, t)
  OBVIOUS
<1>2. /\ b \in [Timers -> TimerRecs] /\ \A u \in Timers \ {t} : b[u] = tm[u]
      /\ DeadlineAt(b, t) /\ b[t].left \in Int /\ b[t].left >= 0
      /\ b[t].init_tick = tm[t].init_tick /\ b[t].left = tm[t].init_tick
  BY <1>0, <1>1, BegunFacts, BegunDeadline
<1>3. timer' = Activated(b, t) /\ list' = StartLinked(_rt_timer_remove(list, t), b, t)
  BY <1>1 DEF Started
<1>4. /\ \A u \in Timers \ {t} : timer'[u] = b[u]
      /\ timer'[t].timeout_tick = b[t].timeout_tick
      /\ timer'[t].init_tick = b[t].init_tick /\ timer'[t].left = b[t].left
  BY <1>2, <1>3, ActivatedFacts
<1>5. PICK l : l = _rt_timer_remove(list, t)
  OBVIOUS
<1>6. /\ l \in Lists /\ IsDuplicateFree(l.hard) /\ IsDuplicateFree(l.soft)
      /\ \A u \in Timers : In(l, u) <=> In(list, u) /\ u # t
  BY <1>0, <1>5, RemoveFacts DEF LinkedOnce
<1>7. PICK r : r = StartLinked(l, b, t)
  OBVIOUS
<1>8. list' = r /\ r \in Lists /\ \A u \in Timers : In(r, u) <=> In(l, u) \/ u = t
  BY <1>3, <1>5, <1>6, <1>7, LinkFacts
<1>9. Ordered(l, b)
  <2>1. Ordered(l, timer)
    BY <1>0, <1>5, RemovedOrder, TimeParts DEF OrderOK, Ordered
  <2>2. \A v \in Timers : In(l, v) => b[v].left = timer[v].left
    BY <1>2, <1>6
  <2> QED BY <1>6, <2>1, <2>2, OrderedSame
<1>10. \A v \in Timers : In(l, v) \/ v = t => DeadlineAt(b, v) /\ b[v].left >= -(2 * MaxLag + 1)
  <2>1. SUFFICES ASSUME NEW v \in Timers, In(l, v) \/ v = t
                 PROVE  DeadlineAt(b, v) /\ b[v].left >= -(2 * MaxLag + 1)
    OBVIOUS
  <2>2. CASE v = t
    BY <1>2, <2>2, NumFacts
  <2>3. CASE v # t
    <3>1. Live(v) /\ b[v] = timer[v]
      BY <1>2, <1>6, <2>1, <2>3 DEF Live, Linked, In
    <3>2. DeadlineAt(timer, v) /\ timer[v].left >= -(2 * MaxLag + 1)
      BY <3>1, LiveRange
    <3> QED BY <3>1, <3>2 DEF DeadlineAt
  <2> QED BY <2>2, <2>3
<1>11. Ordered(r, b)
  BY <1>0, <1>2, <1>6, <1>7, <1>9, <1>10, LinkedOrder
<1>12. \A v \in Timers : timer'[v].left = b[v].left
  BY <1>4
<1>13. OrderOK'
  BY <1>8, <1>11, <1>12, OrderKept
<1>14. \A v \in Timers : Linked(v)' <=> (Linked(v) /\ v # t) \/ v = t
  BY <1>6, <1>8 DEF In, Linked
<1> QED BY <1>2, <1>4, <1>13, <1>14 DEF DeadlineAt

\* A time an application timer is given.
LEMMA TimeFacts ==
    ASSUME StopInv, Times, NEW t \in Hard \cup Soft
    PROVE  /\ timer[t].init_tick \in 1 .. Longest /\ timer[t].init_tick \in 0 .. Longest
           /\ timer[t].init_tick >= 1 - lag
PROOF
<1>1. timer[t].init_tick \in 1 .. Longest
  BY TimeParts DEF TimesOK
<1> QED BY <1>1, NumFacts, TimeParts

\* A periodic hard timer is started again after its timeout function; the flag of another is
\* cleared.
LEMMA CheckReturnTime ==
    ASSUME StopInv, StopInv', Times, CheckReturn
    PROVE  Times'
PROOF
<1>0. /\ timer \in [Timers -> TimerRecs] /\ list \in Lists
      /\ \A v \in Timers : timer[v].left \in Int
  BY TimeParts
<1>1. /\ irq.pc = "return" /\ irq' = [pc |-> "check", t |-> NoTimer]
      /\ UNCHANGED <<tick, thr, app, lag>>
  BY DEF CheckReturn
<1>2. PICK t \in HardTimers : t = irq.t /\ ~Linked(t) /\ t \in Timers /\ t \notin Soft
  BY <1>1, Parts DEF IrqOwn
<1>3. thr.n # t /\ ~(thr.pc = "insert" /\ thr.t = t)
  BY <1>2, Parts DEF ThrOwn, TypeOK
<1>4. /\ \A v \in Timers \ {t} : timer'[v] = timer[v] /\ (Linked(v)' <=> Linked(v))
      /\ OrderOK' /\ (Kept(t) \/ Fresh(t)) /\ list'.soft = list.soft
  <2>1. CASE Again(t)
    <3>1. Started(timer, t)
      BY <1>2, <2>1 DEF CheckReturn
    <3>2. t \in Hard
      BY <1>2, <2>1, Parts DEF SleepOwn, Again, HardTimers
    <3>3. timer[t].init_tick \in 1 .. Longest /\ timer[t].init_tick \in 0 .. Longest
          /\ timer[t].init_tick >= 1 - lag
      BY <3>2, TimeFacts
    <3>4. /\ OrderOK' /\ DeadlineAt(timer', t)
          /\ timer'[t].init_tick = timer[t].init_tick /\ timer'[t].left = timer[t].init_tick
          /\ \A v \in Timers \ {t} : timer'[v] = timer[v] /\ (Linked(v)' <=> Linked(v))
      BY <1>0, <1>2, <3>1, <3>3, StartedTime
    <3>5. Fresh(t)
      BY <3>2, <3>3, <3>4, Parts DEF Fresh
    <3>6. list'.soft = list.soft
      <4>1. PICK l : l = _rt_timer_remove(list, t)
        OBVIOUS
      <4>2. l \in Lists /\ l.soft = list.soft
        BY <1>0, <1>2, <4>1, HardLists, RemoveFacts, Parts DEF LinkedOnce
      <4>3. list' = StartLinked(l, StartBegun(timer, t), t)
        BY <3>1, <4>1 DEF Started
      <4> QED BY <1>2, <4>2, <4>3, HardLists
    <3> QED BY <3>4, <3>5, <3>6
  <2>2. CASE ~Again(t)
    <3>1. PICK c : c = Deactivated(timer, t)
      OBVIOUS
    <3>2. /\ c \in [Timers -> TimerRecs] /\ \A u \in Timers \ {t} : c[u] = timer[u]
          /\ c[t].init_tick = timer[t].init_tick
          /\ c[t].timeout_tick = timer[t].timeout_tick /\ c[t].left = timer[t].left
      BY <1>0, <1>2, <3>1, ClearedFacts
    <3>3. timer' = Forget(c, t) /\ list' = list
      BY <1>2, <2>2, <3>1 DEF CheckReturn
    <3>4. /\ \A u \in Timers \ {t} : timer'[u] = timer[u]
          /\ timer'[t].init_tick = timer[t].init_tick
          /\ Held(t) => /\ timer'[t].timeout_tick = timer[t].timeout_tick
                        /\ timer'[t].left = timer[t].left
      BY <1>2, <3>2, <3>3, ForgetFacts
    <3>5. \A u : Linked(u)' <=> Linked(u)
      BY <3>3 DEF Linked
    <3>6. Kept(t)
      BY <1>1, <1>2, <1>3, <3>4, <3>5 DEF Kept, Live, Held
    <3>7. OrderOK'
      <4>1. Ordered(list, timer)
        BY TimeParts DEF OrderOK, Ordered
      <4>2. \A v \in Timers : In(list, v) => timer'[v].left = timer[v].left
        BY <1>2, <3>4 DEF In, Linked
      <4> QED BY <1>0, <3>3, <4>1, <4>2, OrderKept
    <3> QED BY <3>3, <3>4, <3>5, <3>6, <3>7
  <2> QED BY <2>1, <2>2
<1>5. \A v \in Timers : Kept(v) \/ Fresh(v)
  <2>1. SUFFICES ASSUME NEW v \in Timers \ {t} PROVE Kept(v)
    BY <1>4
  <2>2. timer'[v] = timer[v] /\ (Linked(v)' <=> Linked(v))
    BY <1>4
  <2> QED BY <1>1, <2>2 DEF Kept, Live
<1>6. TimesOK' /\ LagOK' /\ DeadlineOK' /\ SoftTime' /\ HardTime'
  BY <1>1, <1>5, Frame
<1>7. \A v \in Soft : v \in Timers \ {t}
  BY <1>2, Parts
<1>8. CallTime'
  <2>1. thr.pc = "callback" => thr.t \in Soft
    BY Parts DEF ThrOwn
  <2> QED BY <1>1, <1>4, <1>7, <2>1, TimeParts DEF CallTime
<1>9. AppTime'
  BY <1>1, <1>5, AppKept
<1>10. NowOK'
  BY <1>1, TimeParts DEF NowOK, Ticks, RT_TICK_MAX
<1>11. SleepOK'
  <2>1. Linked(ThreadTimer) => ThreadTimer \in Timers \ {t}
    BY <1>2, Parts
  <2> QED BY <1>1, <1>4, <1>7, <2>1, SleepKept
<1> QED BY <1>4, <1>6, <1>8, <1>9, <1>10, <1>11 DEF Times

-----------------------------------------------------------------------------
(***************************************************************************)
(* The steps of the timer thread.                                          *)
(***************************************************************************)
\* The timer thread has the first deadline.
LEMMA LookTime ==
    ASSUME StopInv, StopInv', Times, Look
    PROVE  Times'
PROOF
<1>1. /\ irq.pc = "idle" /\ thr.pc = "look" /\ UNCHANGED <<tick, timer, list, irq, app, lag>>
      /\ thr' = [thr EXCEPT !.pc = "measure", !.next = rt_timer_list_next_timeout(list.soft)]
  BY DEF Look, ThreadAt, Idle
<1>2. thr'.pc = "measure" /\ thr'.n = thr.n /\ thr'.next = rt_timer_list_next_timeout(list.soft)
  BY <1>1, Parts DEF TypeOK
<1>3. \A v \in Timers : Live(v)' => Live(v)
  BY <1>1, <1>2 DEF Live, Linked
<1>4. TimesOK' /\ LagOK' /\ DeadlineOK' /\ SoftTime' /\ OrderOK' /\ HardTime'
  BY <1>1, <1>3, QuietTime
<1>5. list.soft # <<>> /\ thr'.next = timer[Head(list.soft)].timeout_tick
  BY <1>2 DEF Look, rt_timer_list_next_timeout
<1>6. CallTime' /\ AppTime' /\ NowOK' /\ SleepOK'
  BY <1>1, <1>2, <1>5, TimeParts DEF CallTime, AppTime, NowOK, SleepOK
<1> QED BY <1>4, <1>6 DEF Times

\* It has the ticks to that deadline, as long as it has not passed.
LEMMA MeasureTime ==
    ASSUME StopInv, StopInv', Times, Measure
    PROVE  Times'
PROOF
<1>1. /\ irq.pc = "idle" /\ thr.pc = "measure" /\ UNCHANGED <<tick, timer, list, irq, app, lag>>
  BY DEF Measure, ThreadAt, Idle
<1>2. list.soft # <<>> /\ thr.next = timer[Head(list.soft)].timeout_tick
  BY <1>1, TimeParts DEF SleepOK
<1>3. PICK h \in Timers : h = Head(list.soft) /\ Live(h)
  BY <1>2, HeadFacts, Parts DEF Live
<1>4. /\ DeadlineAt(timer, h) /\ timer[h].left \in Int
      /\ timer[h].left >= -(2 * MaxLag + 1) /\ timer[h].left <= Longest
  BY <1>3, LiveRange
<1>5. PICK d \in Int : d = timer[h].left
  BY <1>4
<1>6. PICK at \in Ticks : at = timer[h].timeout_tick
  BY <1>4 DEF DeadlineAt
<1>7. /\ Diff(at, tick) < Half <=> d >= 0
      /\ d >= 0 => Diff(at, tick) = d
  <2>1. -Half < d /\ d < Half /\ tick \in Ticks
    BY <1>4, <1>5, NumFacts, TimeParts
  <2>2. Wrapped(at, tick + d)
    BY <1>4, <1>5, <1>6 DEF DeadlineAt
  <2> QED BY <2>1, <2>2, DiffFacts
<1>8. \/ thr' = [thr EXCEPT !.pc = "delay", !.next = d]
      \/ thr' = [thr EXCEPT !.pc = "check", !.next = NoTick]
  BY <1>2, <1>3, <1>6, <1>7 DEF Measure
<1>9. /\ thr'.n = thr.n /\ thr'.pc \in {"delay", "check"}
      /\ thr'.pc = "delay" => thr'.next = d
  BY <1>8, Parts DEF TypeOK
<1>10. \A v \in Timers : Live(v)' => Live(v)
  BY <1>1, <1>9 DEF Live, Linked
<1>11. TimesOK' /\ LagOK' /\ DeadlineOK' /\ SoftTime' /\ OrderOK' /\ HardTime'
  BY <1>1, <1>10, QuietTime
<1>12. CallTime' /\ AppTime' /\ NowOK'
  BY <1>1, <1>9, TimeParts DEF CallTime, AppTime, NowOK
<1>13. SleepOK'
  <2>1. d <= Longest /\ d <= timer[h].left + lag
    BY <1>4, <1>5, TimeParts
  <2> QED BY <1>1, <1>2, <1>3, <1>9, <2>1 DEF SleepOK
<1> QED BY <1>11, <1>12, <1>13 DEF Times

\* rt_soft_timer_check begins with the first timer, or stops at one that is not due.
LEMMA SoftWalkTime ==
    ASSUME StopInv, StopInv', Times, SoftCheck \/ SoftEnd
    PROVE  Times'
PROOF
<1>1. /\ irq.pc = "idle" /\ thr.pc \in {"check", "walk"}
      /\ UNCHANGED <<tick, timer, list, irq, app, lag>>
  BY DEF SoftCheck, SoftEnd, ThreadAt, Idle
<1>2. /\ thr'.pc \in {"walk", "look"} /\ (thr'.pc = "walk" => thr'.now = tick)
      /\ \A v \in Timers : v = thr'.n => Linked(v)
  <2>1. CASE SoftCheck
    <3>1. PICK n : n = IF list.soft = <<>> THEN NoTimer ELSE Head(list.soft)
      OBVIOUS
    <3>2. thr' = [thr EXCEPT !.pc = "walk", !.now = tick, !.n = n]
      BY <2>1, <3>1 DEF SoftCheck
    <3>3. thr'.pc = "walk" /\ thr'.now = tick /\ thr'.n = n
      BY <3>2, Parts DEF TypeOK
    <3>4. n = NoTimer \/ Linked(n)
      BY <3>1, HeadFacts
    <3>5. NoTimer \notin Timers
      BY TimerAssumption
    <3> QED BY <3>3, <3>4, <3>5
  <2>2. CASE SoftEnd
    <3>1. thr' = [thr EXCEPT !.pc = "look", !.n = NoTimer, !.now = NoTick]
      BY <2>2 DEF SoftEnd
    <3>2. thr'.pc = "look" /\ thr'.n = NoTimer
      BY <3>1, Parts DEF TypeOK
    <3> QED BY <3>2, TimerAssumption
  <2> QED BY <2>1, <2>2
<1>3. \A v \in Timers : Live(v)' => Live(v)
  BY <1>1, <1>2 DEF Live, Linked
<1>4. TimesOK' /\ LagOK' /\ DeadlineOK' /\ SoftTime' /\ OrderOK' /\ HardTime'
  BY <1>1, <1>3, QuietTime
<1>5. NowOK'
  BY <1>1, <1>2, NowKept
<1>6. CallTime' /\ AppTime' /\ SleepOK'
  BY <1>1, <1>2, TimeParts DEF CallTime, AppTime, SleepOK
<1> QED BY <1>4, <1>5, <1>6 DEF Times

\* The timer thread sleeps on its thread timer, no longer than the first soft timer needs.
LEMMA DelayTime ==
    ASSUME StopInv, StopInv', Times, rt_thread_delay
    PROVE  Times'
PROOF
<1>1. /\ irq.pc = "idle" /\ thr.pc = "delay" /\ UNCHANGED <<tick, irq, app, lag>>
      /\ thr' = [thr EXCEPT !.pc = "suspended", !.next = NoTick]
  BY DEF rt_thread_delay, ThreadAt, Idle
<1>2. thr'.pc = "suspended" /\ thr'.n = thr.n
  BY <1>1, Parts DEF TypeOK
<1>3. list.soft # <<>> /\ thr.next <= Longest /\ thr.next <= timer[Head(list.soft)].left + lag
  BY <1>1, TimeParts DEF SleepOK
<1>4. PICK n \in 0 .. Longest : n = thr.next
  <2>1. thr.next \in Ticks
    BY <1>1, Parts DEF ThrOwn
  <2> QED BY <1>3, <2>1, NumFacts
<1>5. PICK t \in Timers : t = ThreadTimer /\ t \notin Soft
  BY Parts
<1>6. PICK e : e = [timer[t] EXCEPT !.init_tick = n]
  OBVIOUS
<1>7. e \in TimerRecs /\ e.init_tick = n
  <2>1. timer[t] \in TimerRecs /\ n \in Nat
    BY NumFacts, TimeParts
  <2> QED BY <1>6, <2>1 DEF TimerRecs
<1>8. PICK tm : tm = [timer EXCEPT ![t] = e]
  OBVIOUS
<1>9. /\ tm \in [Timers -> TimerRecs] /\ tm[t].init_tick = n
      /\ \A v \in Timers \ {t} : tm[v] = timer[v]
  BY <1>7, <1>8, TimeParts
<1>10. Started(tm, t)
  BY <1>4, <1>5, <1>6, <1>8 DEF rt_thread_delay
<1>11. /\ OrderOK' /\ DeadlineAt(timer', t) /\ timer'[t].left = n
       /\ \A v \in Timers \ {t} : timer'[v] = timer[v] /\ (Linked(v)' <=> Linked(v))
       /\ Linked(t)'
  BY <1>9, <1>10, StartedTime
<1>12. ~Linked(t) /\ n >= 0 /\ n \in Int
  BY <1>1, <1>5, NumFacts, Parts DEF SleepOwn
<1>13. \A v \in Timers : Kept(v) \/ Fresh(v)
  <2>1. ASSUME NEW v \in Timers \ {t} PROVE Kept(v)
    <3>1. timer'[v] = timer[v] /\ (Linked(v)' <=> Linked(v))
      BY <1>11
    <3> QED BY <1>1, <1>2, <3>1 DEF Kept, Live
  <2>2. Fresh(t)
    BY <1>5, <1>11, <1>12 DEF Fresh
  <2> QED BY <2>1, <2>2
<1>14. TimesOK' /\ LagOK' /\ DeadlineOK' /\ SoftTime' /\ HardTime'
  BY <1>1, <1>13, Frame
<1>15. CallTime' /\ NowOK'
  BY <1>1, <1>2 DEF CallTime, NowOK
<1>16. AppTime'
  <2>1. app.pc = "insert" => app.t \in Timers \ {t}
    BY <1>5, Parts DEF AppOwn
  <2> QED BY <1>1, <1>11, <2>1, TimeParts DEF AppTime
<1>17. SleepOK'
  <2>1. list'.soft = list.soft
    <3>0. t \in HardTimers /\ list \in Lists
      BY <1>5, Parts, TimeParts
    <3>1. PICK l : l = _rt_timer_remove(list, t)
      OBVIOUS
    <3>2. l \in Lists /\ l.soft = list.soft
      BY <3>0, <3>1, HardLists, RemoveFacts, Parts DEF LinkedOnce
    <3>3. list' = StartLinked(l, StartBegun(tm, t), t)
      BY <1>10, <3>1 DEF Started
    <3> QED BY <3>0, <3>2, <3>3, HardLists
  <2>2. PICK h \in Timers \ {t} : h = Head(list.soft)
    BY <1>3, <1>5, HeadFacts, Parts
  <2>3. timer'[h].left = timer[h].left /\ timer[h].left \in Int
    BY <1>11, <2>2, TimeParts
  <2>4. n <= timer'[h].left + MaxLag
    BY <1>3, <1>4, <1>12, <2>2, <2>3, NumFacts, TimeParts
  <2> QED BY <1>2, <1>5, <1>11, <2>1, <2>2, <2>4 DEF SleepOK
<1> QED BY <1>11, <1>14, <1>15, <1>16, <1>17 DEF Times

\* The timer thread suspends itself: unless it takes a deadline for "no timer", there is none.
LEMMA SuspendTime ==
    ASSUME StopInv, StopInv', Times, SuspendSelf, ~missed'
    PROVE  Times'
PROOF
<1>1. /\ irq.pc = "idle" /\ thr.pc = "look" /\ UNCHANGED <<tick, irq, app, lag>>
      /\ thr' = [thr EXCEPT !.pc = "suspended"] /\ Stopped(timer, list, ThreadTimer)
      /\ list.soft = <<>>
  BY DEF SuspendSelf, ThreadAt, Idle
<1>2. thr'.pc = "suspended" /\ thr'.n = thr.n
  BY <1>1, Parts DEF TypeOK
<1>3. ThreadTimer \in Timers
  BY Parts
<1>4. /\ TimesOK' /\ LagOK' /\ DeadlineOK' /\ SoftTime' /\ OrderOK' /\ AppTime' /\ HardTime'
      /\ list' = list \/ list' = _rt_timer_remove(list, ThreadTimer)
  BY <1>1, <1>2, <1>3, StopTime
<1>5. list'.soft = <<>>
  BY <1>1, <1>4, HardLists, TimeParts, Parts
<1>6. CallTime' /\ NowOK' /\ SleepOK'
  BY <1>1, <1>2, <1>5 DEF CallTime, NowOK, SleepOK
<1> QED BY <1>4, <1>6 DEF Times

\* A soft timer is called once it is due, and no later than SoftTime says.
LEMMA SoftCallTime ==
    ASSUME StopInv, StopInv', Times, SoftCall
    PROVE  Times'
PROOF
<1>0. /\ MaxLag \in Nat /\ lag \in Int /\ lag >= 0 /\ lag <= MaxLag /\ tick \in Ticks
      /\ list \in Lists
  BY NumFacts, TimeParts
<1>1. /\ irq.pc = "idle" /\ thr.pc = "walk" /\ UNCHANGED <<tick, timer, irq, app, lag>>
      /\ Due(thr.n, thr.now)
  BY DEF SoftCall, ThreadAt, Idle
<1>2. PICK n \in Soft : n = thr.n /\ n \in Timers /\ Live(n)
  BY Parts DEF SoftCall, TypeOK, Live
<1>3. PICK m \in Soft \cup {NoTimer} : m = NextOf(n) /\ (m = NoTimer \/ m = n \/ Linked(m))
  BY NextFacts
<1>4. thr' = [thr EXCEPT !.pc = "callback", !.t = n, !.n = m] /\ list' = _rt_timer_remove(list, n)
  BY <1>2, <1>3 DEF SoftCall
<1>5. thr'.pc = "callback" /\ thr'.t = n /\ thr'.n = m /\ thr'.now = thr.now
  BY <1>4, Parts DEF TypeOK
<1>6. list' \in Lists /\ \A v \in Timers : Linked(v)' <=> Linked(v) /\ v # n
  BY <1>2, <1>4, UnlinkStep, Zenon
<1>7. \A v \in Timers : Live(v)' => Live(v)
  BY <1>1, <1>2, <1>3, <1>5, <1>6, TimerAssumption DEF Live
<1>8. \A v \in Timers : Kept(v)
  BY <1>1, <1>6, <1>7 DEF Kept
<1>9. TimesOK' /\ LagOK' /\ DeadlineOK' /\ SoftTime' /\ HardTime'
  BY <1>1, <1>8, Frame
<1>10. OrderOK'
  <2>1. PICK l : l = _rt_timer_remove(list, n)
    OBVIOUS
  <2>2. l \in Lists /\ list' = l
    BY <1>4, <1>6, <2>1
  <2>3. Ordered(l, timer)
    BY <1>0, <1>2, <2>1, RemovedOrder, TimeParts DEF OrderOK, Ordered
  <2> QED BY <1>1, <2>2, <2>3, OrderKept
<1>11. CallTime'
  <2>1. PICK now \in Ticks, e \in 0 .. lag : now = thr.now /\ now + e \in {tick, tick + TickMod}
    BY <1>1, TimeParts DEF NowOK
  <2>2. e \in 0 .. MaxLag /\ e >= 0 /\ e \in Int
    BY <1>0
  <2>3. DeadlineAt(timer, n) /\ timer[n].left >= -(2 * MaxLag + 1) /\ timer[n].left \in Int
    BY <1>2, LiveRange
  <2>4. Due(n, now) <=> timer[n].left + e <= 0
    BY <1>0, <2>1, <2>2, <2>3, DueFacts
  <2>5. timer[n].left + e <= 0
    BY <1>1, <1>2, <2>1, <2>4
  <2>6. timer[n].left <= 0
    BY <2>2, <2>3, <2>5
  <2>7. timer[n].left >= -(MaxLag + 1) - lag
    BY <1>2, TimeParts DEF SoftTime
  <2> QED BY <1>1, <1>5, <2>6, <2>7 DEF CallTime
<1>12. NowOK'
  BY <1>1, <1>5, NowKept
<1>13. AppTime' /\ SleepOK'
  BY <1>1, <1>5, TimeParts DEF AppTime, SleepOK
<1> QED BY <1>9, <1>10, <1>11, <1>12, <1>13 DEF Times

\* The first section of a start in the timer thread, and the deadline: the timer is out of its
\* list and has a new deadline, also when the caller is about to link it.
LEMMA BeginTime ==
    ASSUME StopInv, StopInv', Times, NEW u \in Soft, UNCHANGED <<tick, irq, app, lag>>,
           timer' = StartBegun(timer, u), list' = _rt_timer_remove(list, u),
           thr'.n = thr.n, thr'.pc = "insert" => thr'.t = u
    PROVE  /\ TimesOK' /\ LagOK' /\ DeadlineOK' /\ SoftTime' /\ OrderOK' /\ HardTime' /\ AppTime'
           /\ \A v \in Timers \ {u} : timer'[v] = timer[v]
           /\ \A v \in Timers : Linked(v)' => Linked(v) /\ v # u
PROOF
<1>0. u \in Timers /\ u # ThreadTimer /\ tick \in Ticks /\ timer \in [Timers -> TimerRecs]
  BY Parts, TimeParts
<1>1. timer[u].init_tick \in 1 .. Longest /\ timer[u].init_tick \in 0 .. Longest
      /\ timer[u].init_tick >= 1 - lag
  BY TimeFacts
<1>2. /\ \A v \in Timers \ {u} : timer'[v] = timer[v]
      /\ timer'[u].init_tick = timer[u].init_tick /\ timer'[u].left = timer[u].init_tick
      /\ DeadlineAt(timer', u)
  <2>1. PICK r : r = StartBegun(timer, u)
    OBVIOUS
  <2>2. /\ DeadlineAt(r, u) /\ \A v \in Timers \ {u} : r[v] = timer[v]
        /\ r[u].init_tick = timer[u].init_tick /\ r[u].left = timer[u].init_tick
    BY <1>0, <1>1, <2>1, BegunDeadline, BegunFacts
  <2> QED BY <2>1, <2>2
<1>3. list' \in Lists /\ \A v \in Timers : Linked(v)' <=> Linked(v) /\ v # u
  BY <1>0, UnlinkStep, Zenon
<1>4. \A v \in Timers : Kept(v) \/ Fresh(v)
  <2>1. ASSUME NEW v \in Timers, v # u PROVE Kept(v)
    <3>1. timer'[v] = timer[v] /\ (Linked(v)' <=> Linked(v)) /\ v # NoTimer
      BY <1>2, <1>3, <2>1, TimerAssumption
    <3> QED BY <2>1, <3>1 DEF Kept, Live
  <2>2. Fresh(u)
    BY <1>0, <1>1, <1>2 DEF Fresh
  <2> QED BY <2>1, <2>2
<1>5. TimesOK' /\ LagOK' /\ DeadlineOK' /\ SoftTime' /\ HardTime'
  BY <1>4, Frame
<1>6. OrderOK'
  <2>1. PICK l : l = _rt_timer_remove(list, u)
    OBVIOUS
  <2>2. l \in Lists /\ list' = l
    BY <1>3, <2>1
  <2>3. Ordered(l, timer)
    BY <1>0, <2>1, RemovedOrder, TimeParts DEF OrderOK, Ordered
  <2>4. \A v \in Timers : In(l, v) => timer'[v].left = timer[v].left
    <3>1. \A v \in Timers : In(l, v) <=> Linked(v)'
      BY <2>2 DEF In, Linked
    <3> QED BY <1>2, <1>3, <3>1
  <2> QED BY <2>2, <2>3, <2>4, OrderKept
<1>7. AppTime'
  BY <1>4, AppKept
<1> QED BY <1>2, <1>3, <1>5, <1>6, <1>7

\* The timeout function of a soft timer stops one, starts one, or neither.
LEMMA SoftCallbackTime ==
    ASSUME StopInv, StopInv', Times, SoftCallback
    PROVE  Times'
PROOF
<1>1. irq.pc = "idle" /\ thr.pc = "callback" /\ UNCHANGED <<tick, irq, app, lag>>
  BY DEF SoftCallback, ThreadAt, Idle
<1>3. CASE thr' = [thr EXCEPT !.pc = "return"] /\ UNCHANGED <<timer, list>>
  <2>1. thr'.pc = "return" /\ thr'.n = thr.n /\ thr'.now = thr.now
    BY <1>3, Parts DEF TypeOK
  <2>2. \A v \in Timers : Live(v)' => Live(v)
    BY <1>1, <1>3, <2>1 DEF Live, Linked
  <2>3. TimesOK' /\ LagOK' /\ DeadlineOK' /\ SoftTime' /\ OrderOK' /\ HardTime'
    BY <1>1, <1>3, <2>2, QuietTime
  <2>4. NowOK'
    BY <1>1, <2>1, NowKept
  <2>5. CallTime' /\ AppTime' /\ SleepOK'
    BY <1>1, <1>3, <2>1, TimeParts DEF CallTime, AppTime, SleepOK
  <2> QED BY <2>3, <2>4, <2>5 DEF Times
<1>4. ASSUME NEW u \in Soft, thr' = [thr EXCEPT !.pc = "return"],
             Stopped(timer, list, u)
      PROVE  Times'
  <2>1. thr'.pc = "return" /\ thr'.n = thr.n /\ thr'.now = thr.now
    BY <1>4, Parts DEF TypeOK
  <2>2. u \in Timers
    BY Parts
  <2>3. TimesOK' /\ LagOK' /\ DeadlineOK' /\ SoftTime' /\ OrderOK' /\ AppTime' /\ HardTime'
    BY <1>1, <1>4, <2>1, <2>2, StopTime
  <2>4. NowOK'
    BY <1>1, <2>1, NowKept
  <2>5. CallTime' /\ SleepOK'
    BY <1>1, <2>1 DEF CallTime, SleepOK
  <2> QED BY <2>3, <2>4, <2>5 DEF Times
<1>5. ASSUME NEW u \in Soft,
             thr' = [thr EXCEPT !.pc = "insert", !.t = u, !.ret = thr.t],
             timer' = StartBegun(timer, u), list' = _rt_timer_remove(list, u)
      PROVE  Times'
  <2>1. thr'.pc = "insert" /\ thr'.t = u /\ thr'.n = thr.n /\ thr'.now = thr.now
    BY <1>5, Parts DEF TypeOK
  <2>3. TimesOK' /\ LagOK' /\ DeadlineOK' /\ SoftTime' /\ OrderOK' /\ HardTime' /\ AppTime'
    BY <1>1, <1>5, <2>1, BeginTime
  <2>4. NowOK'
    BY <1>1, <2>1, NowKept
  <2>5. CallTime' /\ SleepOK'
    BY <1>1, <2>1 DEF CallTime, SleepOK
  <2> QED BY <2>3, <2>4, <2>5 DEF Times
<1> QED BY <1>3, <1>4, <1>5 DEF SoftCallback, Affected

\* A second section of a start, by whomever: the timer finds its place, although the tick may
\* have advanced since it got its deadline.
LEMMA LinkTime ==
    ASSUME StopInv, Times, NEW t \in Timers, Live(t), ~Linked(t),
           timer' = Activated(timer, t), list' = StartLinked(list, timer, t)
    PROVE  /\ OrderOK' /\ \A v \in Timers : Linked(v)' <=> Linked(v) \/ v = t
           /\ \A v \in Timers : /\ timer'[v].left = timer[v].left
                                /\ timer'[v].init_tick = timer[v].init_tick
                                /\ timer'[v].timeout_tick = timer[v].timeout_tick
PROOF
<1>0. list \in Lists /\ tick \in Ticks /\ LinkedOnce /\ timer \in [Timers -> TimerRecs]
  BY TimeParts, Parts
<1>1. PICK r : r = StartLinked(list, timer, t)
  OBVIOUS
<1>2. r \in Lists /\ \A v \in Timers : In(r, v) <=> In(list, v) \/ v = t
  BY <1>0, <1>1, LinkFacts DEF LinkedOnce, In, Linked
<1>3. \A v \in Timers : Linked(v)' <=> Linked(v) \/ v = t
  BY <1>1, <1>2 DEF In, Linked
<1>4. \A v \in Timers : /\ timer'[v].left = timer[v].left
                        /\ timer'[v].init_tick = timer[v].init_tick
                        /\ timer'[v].timeout_tick = timer[v].timeout_tick
  BY <1>0, ActivatedFacts
<1>5. \A v \in Timers : In(list, v) \/ v = t =>
         DeadlineAt(timer, v) /\ timer[v].left >= -(2 * MaxLag + 1)
  <2>1. \A v \in Timers : In(list, v) => Live(v)
    BY DEF In, Linked, Live
  <2> QED BY <2>1, LiveRange
<1>6. Ordered(list, timer)
  BY TimeParts DEF OrderOK, Ordered
<1>7. Ordered(r, timer)
  BY <1>0, <1>1, <1>5, <1>6, LinkedOrder
<1>8. OrderOK'
  BY <1>1, <1>2, <1>4, <1>7, OrderKept
<1> QED BY <1>3, <1>4, <1>8

\* The timer thread links the timer it starts.
LEMMA ThreadInsertsTime ==
    ASSUME StopInv, StopInv', Times, ThreadInserts
    PROVE  Times'
PROOF
<1>1. irq.pc = "idle" /\ thr.pc = "insert" /\ UNCHANGED <<tick, irq, app, lag>>
  BY DEF ThreadInserts, ThreadAt, Idle
<1>2. PICK t \in Soft : t = thr.t /\ t \in Timers /\ Live(t) /\ ~Linked(t)
  BY <1>1, Parts DEF ThrOwn, Live
<1>3. timer' = Activated(timer, t) /\ list' = StartLinked(list, timer, t)
  BY <1>2 DEF ThreadInserts
<1>4. /\ OrderOK' /\ \A v \in Timers : Linked(v)' <=> Linked(v) \/ v = t
      /\ \A v \in Timers : /\ timer'[v].left = timer[v].left
                           /\ timer'[v].init_tick = timer[v].init_tick
                           /\ timer'[v].timeout_tick = timer[v].timeout_tick
  BY <1>2, <1>3, LinkTime
<1>5. thr'.pc \in {"return", "walk"} /\ thr'.n = thr.n /\ thr'.now = thr.now
  <2>1. \/ thr' = [thr EXCEPT !.pc = "return", !.t = thr.ret, !.ret = NoTimer]
        \/ thr' = [thr EXCEPT !.pc = "walk", !.t = NoTimer]
    BY DEF ThreadInserts
  <2> QED BY <2>1, Parts DEF TypeOK
<1>6. \A v \in Timers : Kept(v)
  <2>1. SUFFICES ASSUME NEW v \in Timers PROVE Kept(v)
    OBVIOUS
  <2>2. Linked(v)' <=> Linked(v) \/ v = t
    BY <1>4
  <2>3. Live(v)' => Live(v)
    BY <1>1, <1>2, <1>5, <2>2 DEF Live
  <2>4. v \in HardTimers => v # t
    BY <1>2, Parts
  <2> QED BY <1>4, <2>2, <2>3, <2>4 DEF Kept
<1>7. TimesOK' /\ LagOK' /\ DeadlineOK' /\ SoftTime' /\ HardTime'
  BY <1>1, <1>6, Frame
<1>8. NowOK'
  BY <1>1, <1>5, NowKept
<1>9. AppTime'
  <2>1. app.pc = "insert" => app.t \in Timers
    BY Parts DEF AppOwn
  <2> QED BY <1>1, <1>4, <2>1, TimeParts DEF AppTime
<1>10. CallTime' /\ SleepOK'
  BY <1>1, <1>5 DEF CallTime, SleepOK
<1> QED BY <1>4, <1>7, <1>8, <1>9, <1>10 DEF Times

\* A periodic soft timer is started again, from a tick read anew.
LEMMA SoftReturnTime ==
    ASSUME StopInv, StopInv', Times, SoftReturn
    PROVE  Times'
PROOF
<1>1. irq.pc = "idle" /\ thr.pc = "return" /\ UNCHANGED <<tick, irq, app, lag>>
  BY DEF SoftReturn, ThreadAt, Idle
<1>2. PICK t \in Soft : t = thr.t /\ t \in Timers
  BY <1>1, Parts DEF ThrOwn
<1>4. CASE Again(t)
  <2>1. /\ thr' = [thr EXCEPT !.pc = "insert", !.now = tick]
        /\ timer' = StartBegun(timer, t) /\ list' = _rt_timer_remove(list, t)
    BY <1>2, <1>4 DEF SoftReturn
  <2>2. thr'.pc = "insert" /\ thr'.t = t /\ thr'.n = thr.n /\ thr'.now = tick
    BY <1>2, <2>1, Parts DEF TypeOK
  <2>3. TimesOK' /\ LagOK' /\ DeadlineOK' /\ SoftTime' /\ OrderOK' /\ HardTime' /\ AppTime'
    BY <1>1, <1>2, <2>1, <2>2, BeginTime
  <2>4. NowOK'
    BY <1>1, <2>2, NowKept
  <2>5. CallTime' /\ SleepOK'
    BY <1>1, <2>2 DEF CallTime, SleepOK
  <2> QED BY <2>3, <2>4, <2>5 DEF Times
<1>5. CASE ~Again(t)
  <2>1. PICK c : c = Deactivated(timer, t)
    OBVIOUS
  <2>2. /\ thr' = [thr EXCEPT !.pc = "walk", !.t = NoTimer, !.now = tick] /\ list' = list
        /\ timer' = IF Linked(t) THEN c ELSE Forget(c, t)
    BY <1>2, <1>5, <2>1 DEF SoftReturn
  <2>3. thr'.pc = "walk" /\ thr'.n = thr.n /\ thr'.now = tick
    BY <2>2, Parts DEF TypeOK
  <2>4. /\ c \in [Timers -> TimerRecs] /\ \A v \in Timers \ {t} : c[v] = timer[v]
        /\ c[t].init_tick = timer[t].init_tick
        /\ c[t].timeout_tick = timer[t].timeout_tick /\ c[t].left = timer[t].left
    BY <1>2, <2>1, ClearedFacts, TimeParts
  <2>5. /\ \A v \in Timers \ {t} : timer'[v] = timer[v]
        /\ timer'[t].init_tick = timer[t].init_tick
        /\ Linked(t) \/ Held(t) => /\ timer'[t].timeout_tick = timer[t].timeout_tick
                                   /\ timer'[t].left = timer[t].left
    <3>1. CASE Linked(t)
      BY <2>2, <2>4, <3>1
    <3>2. CASE ~Linked(t)
      <4>1. timer' = Forget(c, t)
        BY <2>2, <3>2
      <4>2. /\ \A v \in Timers \ {t} : timer'[v] = c[v]
            /\ timer'[t].init_tick = c[t].init_tick /\ (Held(t) => timer' = c)
        BY <1>2, <2>4, <4>1, ForgetFacts
      <4> QED BY <2>4, <3>2, <4>2
    <3> QED BY <3>1, <3>2
  <2>6. \A v : Linked(v)' <=> Linked(v)
    BY <2>2 DEF Linked
  <2>7. \A v \in Timers : Kept(v)
    <3>1. SUFFICES ASSUME NEW v \in Timers PROVE Kept(v)
      OBVIOUS
    <3>2. Live(v)' => Linked(v) \/ v = thr.n \/ (app.pc = "insert" /\ v = app.t)
      BY <1>1, <2>3, <2>6 DEF Live
    <3>3. CASE v = t
      BY <2>5, <2>6, <3>2, <3>3 DEF Kept, Live, Held
    <3>4. CASE v # t
      <4>1. timer'[v] = timer[v]
        BY <2>5, <3>4
      <4> QED BY <2>6, <3>2, <4>1 DEF Kept, Live
    <3> QED BY <3>3, <3>4
  <2>8. TimesOK' /\ LagOK' /\ DeadlineOK' /\ SoftTime' /\ HardTime'
    BY <1>1, <2>7, Frame
  <2>9. OrderOK'
    <3>1. Ordered(list, timer) /\ list \in Lists
      BY TimeParts DEF OrderOK, Ordered
    <3>2. \A v \in Timers : In(list, v) => timer'[v].left = timer[v].left
      BY <2>5 DEF In, Linked
    <3> QED BY <2>2, <3>1, <3>2, OrderKept
  <2>10. NowOK'
    BY <1>1, <2>3, NowKept
  <2>11. AppTime'
    BY <1>1, <2>7, AppKept
  <2>12. CallTime' /\ SleepOK'
    BY <1>1, <2>3 DEF CallTime, SleepOK
  <2> QED BY <2>8, <2>9, <2>10, <2>11, <2>12 DEF Times
<1> QED BY <1>4, <1>5

-----------------------------------------------------------------------------
(***************************************************************************)
(* The steps of the caller.                                                *)
(***************************************************************************)
\* The timer thread has nothing in its hands and the interrupt is over.
LEMMA CallerFacts ==
    ASSUME StopInv, irq = Idle, thr.pc = "suspended"
    PROVE  irq.pc = "idle" /\ thr.n = NoTimer /\ \A v \in Timers : v # thr.n
PROOF
BY Parts, TimerAssumption DEF Idle, ThrOwn

\* The caller computes the deadline of a timer that is not linked.
LEMMA StartTimeTime ==
    ASSUME StopInv, StopInv', Times, StartTime, ~crossed'
    PROVE  Times'
PROOF
<1>1. /\ irq = Idle /\ thr.pc = "suspended" /\ app.pc = "time"
      /\ UNCHANGED <<tick, list, irq, thr, lag>>
  BY DEF StartTime, AppAt
<1>2. PICK t \in Hard \cup Soft : t = app.t /\ t \in Timers /\ ~Linked(t) /\ t # ThreadTimer
  BY <1>1, Parts DEF AppOwn, StartTime, CallerWrites
<1>3. timer' = WithDeadline(timer, t) /\ app'.pc = "insert" /\ app'.t = t
  BY <1>2 DEF StartTime, AppGoto
<1>4. irq.pc = "idle" /\ \A v \in Timers : v # thr.n
  BY <1>1, CallerFacts
<1>5. /\ timer[t].init_tick \in 1 .. Longest /\ timer[t].init_tick \in 0 .. Longest
      /\ timer[t].init_tick >= 1 - lag /\ timer[t].init_tick <= Longest
  BY TimeFacts, NumFacts
<1>6. /\ \A v \in Timers \ {t} : timer'[v] = timer[v]
      /\ timer'[t].init_tick = timer[t].init_tick /\ timer'[t].left = timer[t].init_tick
      /\ timer'[t].timeout_tick \in Ticks
      /\ timer'[t].timeout_tick = (tick + timer[t].init_tick) % TickMod
  BY <1>2, <1>3, DeadlineFacts, TimeParts
<1>7. DeadlineAt(timer', t)
  <2>1. PICK n \in 0 .. Longest : n = timer[t].init_tick
    BY <1>5
  <2>2. Wrapped((tick + n) % TickMod, tick + n)
    BY NewDeadline, TimeParts
  <2> QED BY <1>1, <1>5, <1>6, <2>1, <2>2 DEF DeadlineAt
<1>8. \A v : Linked(v)' <=> Linked(v)
  BY <1>1 DEF Linked
<1>9. \A v \in Timers : Kept(v) \/ Fresh(v)
  <2>1. ASSUME NEW v \in Timers, v # t PROVE Kept(v)
    <3>1. timer'[v] = timer[v] /\ (Live(v)' => Live(v))
      BY <1>1, <1>3, <1>6, <1>8, <2>1 DEF Live
    <3> QED BY <1>8, <3>1 DEF Kept
  <2>2. Fresh(t)
    BY <1>2, <1>5, <1>6, <1>7 DEF Fresh
  <2> QED BY <2>1, <2>2
<1>10. TimesOK' /\ LagOK' /\ DeadlineOK' /\ SoftTime' /\ HardTime'
  BY <1>1, <1>9, Frame
<1>11. OrderOK'
  <2>1. Ordered(list, timer) /\ list \in Lists
    BY TimeParts DEF OrderOK, Ordered
  <2>2. \A v \in Timers : In(list, v) => timer'[v].left = timer[v].left
    BY <1>2, <1>6 DEF In, Linked
  <2> QED BY <1>1, <2>1, <2>2, OrderKept
<1>12. CallTime' /\ NowOK' /\ AppTime'
  BY <1>1, <1>3, <1>4, <1>5, <1>6 DEF CallTime, NowOK, AppTime
<1>13. SleepOK'
  <2>1. \A v \in Soft : Linked(v)' => Linked(v) /\ timer'[v].left = timer[v].left
    BY <1>2, <1>6, <1>8, Parts
  <2>2. timer'[ThreadTimer].left = timer[ThreadTimer].left
    BY <1>2, <1>6, Parts
  <2> QED BY <1>1, <1>4, <1>8, <2>1, <2>2, SleepKept
<1> QED BY <1>10, <1>11, <1>12, <1>13 DEF Times

\* Second section of rt_timer_start: the caller of a soft timer is about to wake the timer thread.
LEMMA StartSecondTime ==
    ASSUME StopInv, StopInv', Times, StartSecond, ~crossed'
    PROVE  Times'
PROOF
<1>1. /\ irq = Idle /\ thr.pc = "suspended" /\ app.pc = "insert" /\ UNCHANGED <<tick, irq, thr, lag>>
  BY DEF StartSecond, AppAt
<1>2. PICK t \in Hard \cup Soft : t = app.t /\ t \in Timers /\ ~Linked(t) /\ Live(t)
                                  /\ t # ThreadTimer
  BY <1>1, Parts DEF AppOwn, Live, StartSecond, CallerWrites
<1>3. timer' = Activated(timer, t) /\ list' = StartLinked(list, timer, t)
  BY <1>2 DEF StartSecond
<1>4. /\ OrderOK' /\ \A v \in Timers : Linked(v)' <=> Linked(v) \/ v = t
      /\ \A v \in Timers : /\ timer'[v].left = timer[v].left
                           /\ timer'[v].init_tick = timer[v].init_tick
                           /\ timer'[v].timeout_tick = timer[v].timeout_tick
  BY <1>2, <1>3, LinkTime
<1>5. /\ t \in Soft => app'.pc = "wake"
      /\ app'.pc \in {"wake", "idle"}
  BY <1>2 DEF StartSecond, AppGoto, Idle
<1>6. irq.pc = "idle" /\ \A v \in Timers : v # thr.n
  BY <1>1, CallerFacts
<1>7. \A v \in Timers : Kept(v) \/ Fresh(v)
  <2>1. ASSUME NEW v \in Timers, v # t PROVE Kept(v)
    <3>1. Linked(v)' <=> Linked(v)
      BY <1>4, <2>1
    <3>2. Live(v)' => Live(v)
      BY <1>1, <1>5, <3>1 DEF Live
    <3> QED BY <1>4, <3>1, <3>2 DEF Kept
  <2>2. Fresh(t)
    <3>1. timer'[t].init_tick \in 1 .. Longest
      BY <1>2, <1>4, TimeFacts
    <3>2. DeadlineAt(timer', t)
      BY <1>2, <1>4, LiveRange DEF DeadlineAt
    <3>3. timer'[t].left >= 1 - lag
      BY <1>1, <1>2, <1>4, TimeParts DEF AppTime
    <3> QED BY <1>2, <3>1, <3>2, <3>3 DEF Fresh
  <2> QED BY <2>1, <2>2
<1>8. TimesOK' /\ LagOK' /\ DeadlineOK' /\ SoftTime' /\ HardTime'
  BY <1>1, <1>7, Frame
<1>9. CallTime' /\ NowOK' /\ AppTime'
  BY <1>1, <1>5, <1>6 DEF CallTime, NowOK, AppTime
<1>10. SleepOK'
  <2>1. CASE t \in Soft
    BY <1>1, <1>5, <2>1 DEF SleepOK
  <2>2. CASE t \notin Soft
    <3>1. \A v \in Soft : Linked(v)' => Linked(v) /\ timer'[v].left = timer[v].left
      BY <1>4, <2>2, Parts
    <3>2. /\ Linked(ThreadTimer) => Linked(ThreadTimer)'
          /\ timer'[ThreadTimer].left = timer[ThreadTimer].left
      BY <1>4, Parts
    <3> QED BY <1>1, <1>6, <3>1, <3>2, SleepKept
  <2> QED BY <2>1, <2>2
<1> QED BY <1>4, <1>8, <1>9, <1>10 DEF Times

\* The caller wakes the timer thread, which stops its thread timer.
LEMMA StartWakeTime ==
    ASSUME StopInv, StopInv', Times, StartWake
    PROVE  Times'
PROOF
<1>1. /\ irq = Idle /\ thr.pc = "suspended" /\ app.pc = "wake" /\ app'.pc = "idle"
      /\ UNCHANGED <<tick, irq, lag>>
      /\ thr' = [thr EXCEPT !.pc = "check"] /\ Stopped(timer, list, ThreadTimer)
  BY DEF StartWake, AppAt, Idle
<1>2. thr'.pc = "check" /\ thr'.n = thr.n
  BY <1>1, Parts DEF TypeOK
<1>3. irq.pc = "idle" /\ ThreadTimer \in Timers
  BY <1>1, CallerFacts, Parts
<1>4. TimesOK' /\ LagOK' /\ DeadlineOK' /\ SoftTime' /\ OrderOK' /\ AppTime' /\ HardTime'
  BY <1>1, <1>2, <1>3, StopTime
<1>5. CallTime' /\ NowOK' /\ SleepOK'
  BY <1>1, <1>2, <1>3 DEF CallTime, NowOK, SleepOK
<1> QED BY <1>4, <1>5 DEF Times

\* A step of the caller that starts nothing: the timer of the call keeps its deadline if it stays
\* linked, and has a time it may be given.
LEMMA CallTimes ==
    ASSUME StopInv, StopInv', Times, irq = Idle, thr.pc = "suspended", app.pc # "wake",
           UNCHANGED <<tick, irq, thr, lag>>, app'.pc # "insert", NEW t \in Hard \cup Soft,
           timer'[t].init_tick \in 1 .. Longest,
           \A v \in Timers \ {t} : timer'[v] = timer[v],
           list' = list \/ list' = _rt_timer_remove(list, t),
           Linked(t)' => /\ timer'[t].left = timer[t].left
                         /\ timer'[t].timeout_tick = timer[t].timeout_tick
    PROVE  Times'
PROOF
<1>0. t \in Timers /\ t # ThreadTimer /\ ThreadTimer \in Timers
  BY Parts
<1>1. irq.pc = "idle" /\ \A v \in Timers : v # thr.n
  BY CallerFacts
<1>2. PICK l \in Lists :
         /\ list' = l /\ Ordered(l, timer) /\ \A v \in Timers \ {t} : Linked(v)' <=> Linked(v)
         /\ Linked(t)' => Linked(t)
  <2>1. CASE list' = list
    <3>1. \A v : Linked(v)' <=> Linked(v)
      BY <2>1 DEF Linked
    <3> QED BY <2>1, <3>1, TimeParts DEF OrderOK, Ordered
  <2>2. CASE list' = _rt_timer_remove(list, t)
    <3>1. PICK l : l = list'
      OBVIOUS
    <3>2. l \in Lists /\ \A v \in Timers : Linked(v)' <=> Linked(v) /\ v # t
      BY <1>0, <2>2, <3>1, UnlinkStep, Zenon
    <3>3. Ordered(l, timer)
      BY <1>0, <2>2, <3>1, RemovedOrder, TimeParts DEF OrderOK, Ordered
    <3> QED BY <1>0, <3>1, <3>2, <3>3
  <2> QED BY <2>1, <2>2
<1>3. \A v \in Timers : Kept(v)
  <2>1. SUFFICES ASSUME NEW v \in Timers PROVE Kept(v)
    OBVIOUS
  <2>2. Live(v)' => Linked(v)'
    BY <1>1, <2>1 DEF Live
  <2>3. CASE v = t
    BY <1>0, <1>2, <2>2, <2>3 DEF Kept, Live
  <2>4. CASE v # t
    <3>1. timer'[v] = timer[v] /\ (Linked(v)' <=> Linked(v))
      BY <1>2, <2>4
    <3> QED BY <2>2, <3>1 DEF Kept, Live
  <2> QED BY <2>3, <2>4
<1>4. TimesOK' /\ LagOK' /\ DeadlineOK' /\ SoftTime' /\ HardTime'
  BY <1>3, Frame
<1>5. OrderOK'
  <2>1. \A v \in Timers : In(l, v) => timer'[v].left = timer[v].left
    BY <1>2 DEF In, Linked
  <2> QED BY <1>2, <2>1, OrderKept
<1>6. CallTime' /\ NowOK' /\ AppTime'
  BY <1>1 DEF CallTime, NowOK, AppTime
<1>7. SleepOK'
  <2>1. \A v \in Soft : Linked(v)' => Linked(v) /\ timer'[v].left = timer[v].left
    BY <1>2, Parts
  <2>2. /\ Linked(ThreadTimer) => Linked(ThreadTimer)'
        /\ timer'[ThreadTimer].left = timer[ThreadTimer].left
    BY <1>0, <1>2
  <2> QED BY <1>1, <2>1, <2>2, SleepKept
<1> QED BY <1>4, <1>5, <1>6, <1>7 DEF Times

\* First section of rt_timer_start: the timer is taken out.
LEMMA StartFirstTime ==
    ASSUME StopInv, StopInv', Times, NEW t \in Hard \cup Soft, StartFirst(t)
    PROVE  Times'
PROOF
<1>1. /\ irq = Idle /\ thr.pc = "suspended" /\ app.pc = "idle" /\ app'.pc = "time"
      /\ UNCHANGED <<tick, irq, thr, lag>> /\ list' = _rt_timer_remove(list, t)
  BY DEF StartFirst, AppAt, AppGoto
<1>2. t \in Timers /\ timer \in [Timers -> TimerRecs]
  BY Parts, TimeParts
<1>3. (\A v \in Timers \ {t} : timer'[v] = timer[v]) /\ timer'[t].init_tick = timer[t].init_tick
  <2>1. PICK c : c = Deactivated(timer, t)
    OBVIOUS
  <2>2. /\ c \in [Timers -> TimerRecs] /\ \A v \in Timers \ {t} : c[v] = timer[v]
        /\ c[t].init_tick = timer[t].init_tick
    BY <1>2, <2>1, ClearedFacts
  <2>3. timer' = Forget(c, t)
    BY <2>1 DEF StartFirst
  <2> QED BY <1>2, <2>2, <2>3, ForgetFacts
<1>4. timer[t].init_tick \in 1 .. Longest
  BY TimeFacts
<1>5. ~Linked(t)'
  <2>1. \A v \in Timers : Linked(v)' <=> Linked(v) /\ v # t
    BY <1>1, <1>2, UnlinkStep, Zenon
  <2> QED BY <1>2, <2>1
<1> QED BY <1>1, <1>3, <1>4, <1>5, CallTimes

\* rt_timer_stop looks at the flag.
LEMMA StopTestTime ==
    ASSUME StopInv, StopInv', Times, NEW t \in Hard \cup Soft, StopTest(t)
    PROVE  Times'
PROOF
<1>1. /\ irq = Idle /\ thr.pc = "suspended" /\ app.pc = "idle" /\ app'.pc \in {"remove", "idle"}
      /\ UNCHANGED <<tick, irq, thr, lag, timer, list>>
  BY DEF StopTest, AppAt, AppGoto, Idle
<1>2. timer[t].init_tick \in 1 .. Longest
  BY TimeFacts
<1> QED BY <1>1, <1>2, CallTimes

\* rt_timer_stop removes the timer, whose deadline is not read again.
LEMMA StopRemoveTime ==
    ASSUME StopInv, StopInv', Times, StopRemove
    PROVE  Times'
PROOF
<1>1. /\ irq = Idle /\ thr.pc = "suspended" /\ app.pc = "remove" /\ app'.pc = "clear"
      /\ UNCHANGED <<tick, irq, thr, lag>>
  BY DEF StopRemove, AppAt, AppGoto
<1>2. PICK t \in Hard \cup Soft : t = app.t /\ t \in Timers
  BY <1>1, Parts DEF AppOwn
<1>3. list' = _rt_timer_remove(list, t) /\ timer' = Forget(timer, t)
  BY <1>2 DEF StopRemove
<1>4. ~Linked(t)'
  <2>1. \A v \in Timers : Linked(v)' <=> Linked(v) /\ v # t
    BY <1>2, <1>3, UnlinkStep, Zenon
  <2> QED BY <1>2, <2>1
<1>5. \A v \in Timers \ {t} : timer'[v] = timer[v]
  BY <1>2, <1>3, ForgetFacts, TimeParts
<1>6. timer'[t].init_tick \in 1 .. Longest
  <2>1. timer'[t].init_tick = timer[t].init_tick
    BY <1>2, <1>3, ForgetFacts, TimeParts
  <2>2. timer[t].init_tick \in 1 .. Longest
    BY TimeFacts
  <2> QED BY <2>1, <2>2
<1> QED BY <1>1, <1>3, <1>4, <1>5, <1>6, CallTimes

\* rt_timer_stop clears the flag.
LEMMA StopClearTime ==
    ASSUME StopInv, StopInv', Times, StopClear
    PROVE  Times'
PROOF
<1>1. /\ irq = Idle /\ thr.pc = "suspended" /\ app.pc = "clear" /\ app'.pc = "idle"
      /\ UNCHANGED <<tick, irq, thr, lag, list>>
  BY DEF StopClear, AppAt, Idle
<1>2. PICK t \in Hard \cup Soft : t = app.t /\ t \in Timers
  BY <1>1, Parts DEF AppOwn
<1>3. timer' = Deactivated(timer, t)
  BY <1>2 DEF StopClear
<1>4. /\ \A v \in Timers \ {t} : timer'[v] = timer[v]
      /\ timer'[t].init_tick = timer[t].init_tick /\ timer'[t].left = timer[t].left
      /\ timer'[t].timeout_tick = timer[t].timeout_tick
  BY <1>2, <1>3, ClearedFacts, TimeParts
<1>5. timer[t].init_tick \in 1 .. Longest
  BY TimeFacts
<1> QED BY <1>1, <1>4, <1>5, CallTimes

\* rt_timer_control changes what the next start will do.
LEMMA ControlTime ==
    ASSUME StopInv, StopInv', Times, NEW t \in Hard \cup Soft, rt_timer_control(t)
    PROVE  Times'
PROOF
<1>1. /\ irq = Idle /\ thr.pc = "suspended" /\ app.pc = "idle" /\ app' = app
      /\ UNCHANGED <<tick, irq, thr, lag, list>>
  BY DEF rt_timer_control, AppAt
<1>2. timer[t] \in TimerRecs /\ t \in Timers /\ timer \in [Timers -> TimerRecs]
  BY Parts, TimeParts
<1>3. timer[t].init_tick \in 1 .. Longest
  BY TimeFacts
<1>4. PICK e : /\ e.timeout_tick = timer[t].timeout_tick /\ e.left = timer[t].left
               /\ e.init_tick \in 1 .. Longest /\ timer' = [timer EXCEPT ![t] = e]
  <2>1. ASSUME NEW time \in Inits[t], timer' = [timer EXCEPT ![t].init_tick = time]
        PROVE  \E e : /\ e.timeout_tick = timer[t].timeout_tick /\ e.left = timer[t].left
                      /\ e.init_tick \in 1 .. Longest /\ timer' = [timer EXCEPT ![t] = e]
    <3>1. time \in 1 .. Longest
      BY TimerAssumption
    <3>2. PICK e : e = [timer[t] EXCEPT !.init_tick = time]
      OBVIOUS
    <3>3. /\ e.timeout_tick = timer[t].timeout_tick /\ e.left = timer[t].left
          /\ e.init_tick = time
      BY <1>2, <3>2 DEF TimerRecs
    <3>4. timer' = [timer EXCEPT ![t] = e]
      BY <2>1, <3>2
    <3> QED BY <3>1, <3>3, <3>4
  <2>2. ASSUME NEW flag \in BOOLEAN, timer' = [timer EXCEPT ![t].periodic = flag]
        PROVE  \E e : /\ e.timeout_tick = timer[t].timeout_tick /\ e.left = timer[t].left
                      /\ e.init_tick \in 1 .. Longest /\ timer' = [timer EXCEPT ![t] = e]
    <3>2. PICK e : e = [timer[t] EXCEPT !.periodic = flag]
      OBVIOUS
    <3>3. /\ e.timeout_tick = timer[t].timeout_tick /\ e.left = timer[t].left
          /\ e.init_tick = timer[t].init_tick
      BY <1>2, <3>2 DEF TimerRecs
    <3>4. timer' = [timer EXCEPT ![t] = e]
      BY <2>2, <3>2
    <3> QED BY <1>3, <3>3, <3>4
  <2> QED BY <2>1, <2>2 DEF rt_timer_control
<1>5. /\ \A v \in Timers \ {t} : timer'[v] = timer[v]
      /\ timer'[t].left = timer[t].left /\ timer'[t].timeout_tick = timer[t].timeout_tick
      /\ timer'[t].init_tick \in 1 .. Longest
  BY <1>2, <1>4
<1> QED BY <1>1, <1>5, CallTimes

\* rt_timer_detach and rt_timer_init.
LEMMA DetachTime ==
    ASSUME StopInv, StopInv', Times, NEW t \in Hard \cup Soft, rt_timer_detach(t)
    PROVE  Times'
PROOF
<1>1. /\ irq = Idle /\ thr.pc = "suspended" /\ app.pc = "idle" /\ app' = app
      /\ UNCHANGED <<tick, irq, thr, lag>> /\ list' = _rt_timer_remove(list, t)
  BY DEF rt_timer_detach, AppAt
<1>2. t \in Timers /\ timer \in [Timers -> TimerRecs]
  BY Parts, TimeParts
<1>3. PICK time \in Inits[t], flag \in BOOLEAN :
         timer' = [timer EXCEPT ![t] = _rt_timer_init(time, flag)]
  BY DEF rt_timer_detach
<1>4. PICK e : e = _rt_timer_init(time, flag)
  OBVIOUS
<1>5. e.init_tick \in 1 .. Longest
  <2>1. time \in 1 .. Longest
    BY TimerAssumption
  <2> QED BY <1>4, <2>1 DEF _rt_timer_init
<1>6. (\A v \in Timers \ {t} : timer'[v] = timer[v]) /\ timer'[t].init_tick \in 1 .. Longest
  BY <1>2, <1>3, <1>4, <1>5
<1>7. ~Linked(t)'
  <2>1. \A v \in Timers : Linked(v)' <=> Linked(v) /\ v # t
    BY <1>1, <1>2, UnlinkStep, Zenon
  <2> QED BY <1>2, <2>1
<1> QED BY <1>1, <1>6, <1>7, CallTimes

-----------------------------------------------------------------------------
(***************************************************************************)
(* The theorems.                                                           *)
(***************************************************************************)
\* At the beginning no timer runs, and all have a time they may be given.
LEMMA InitTimes == Init => TimeInv
PROOF
<1> SUFFICES ASSUME Init PROVE TimeInv
  OBVIOUS
<1>1. StopInv
  BY InitInv
<1>2. tick = 0 /\ lag = 0 /\ list = [hard |-> <<>>, soft |-> <<>>] /\ irq.pc = "idle" /\ app.pc = "idle"
      /\ thr.pc = "look" /\ thr.n = NoTimer
      /\ timer = [t \in Timers |->
                    _rt_timer_init(IF t = ThreadTimer THEN 0 ELSE Smallest(Inits[t]), FALSE)]
  BY DEF Init, Idle
<1>3. ASSUME NEW t PROVE ~Linked(t)
  <2>1. list[Kind(t)] = <<>>
    BY <1>2 DEF Kind
  <2> QED BY <2>1 DEF Linked, Range
<1>4. \A t \in Timers : ~Live(t)
  BY <1>2, <1>3, TimerAssumption DEF Live
<1>5. TimesOK
  <2>1. SUFFICES ASSUME NEW t \in Hard \cup Soft PROVE timer[t].init_tick \in 1 .. Longest
    BY DEF TimesOK
  <2>2. PICK S : S = Inits[t]
    OBVIOUS
  <2>3. S \subseteq 1 .. Longest /\ S # {}
    BY <2>2, TimerAssumption
  <2>4. S \in SUBSET Nat
    BY <2>3, NumFacts
  <2>5. \E i \in S : \A j \in S : i <= j
    BY <2>3, <2>4, SmallestNat
  <2>6. PICK time : time = Smallest(S)
    OBVIOUS
  <2>7. time \in S
    BY <2>5, <2>6, Zenon DEF Smallest
  <2>8. t \in Timers /\ t # ThreadTimer
    BY <1>1, Parts
  <2>9. timer[t] = _rt_timer_init(time, FALSE)
    BY <1>2, <2>2, <2>6, <2>8
  <2>10. PICK e : e = _rt_timer_init(time, FALSE)
    OBVIOUS
  <2>11. e.init_tick = time
    BY <2>10 DEF _rt_timer_init
  <2>12. timer[t].init_tick = time
    BY <2>9, <2>10, <2>11
  <2>13. time \in 1 .. Longest
    BY <2>3, <2>7
  <2> QED BY <2>12, <2>13
<1>6. LagOK
  BY <1>2, NumFacts DEF LagOK
<1>7. DeadlineOK /\ HardTime /\ SoftTime
  BY <1>1, <1>3, <1>4, Parts DEF DeadlineOK, HardTime, SoftTime
<1>8. CallTime /\ AppTime /\ NowOK /\ SleepOK
  BY <1>2 DEF CallTime, AppTime, NowOK, SleepOK
<1>9. OrderOK
  BY <1>2 DEF OrderOK, InOrder
<1> QED BY <1>1, <1>5, <1>6, <1>7, <1>8, <1>9 DEF TimeInv, Times

\* Every step of the tick, the timer thread and the caller keeps the times, unless the timer
\* thread takes a deadline for "no timer" or a call of the caller crosses with a start.
LEMMA StepTimes == TimeInv /\ [Next]_vars /\ ~crossed' => TimeInv'
PROOF
<1> SUFFICES ASSUME TimeInv, [Next]_vars, ~crossed' PROVE TimeInv'
  OBVIOUS
<1>1. StopInv /\ StopInv'
  BY StepInv DEF TimeInv
<1> SUFFICES ASSUME ~missed' PROVE Times'
  BY <1>1 DEF TimeInv
<1>2. CASE UNCHANGED vars
  <2>1. Times
    BY <1>2 DEF TimeInv, vars
  <2>2. UNCHANGED <<tick, timer, list, irq, thr, app, lag>>
    BY <1>2 DEF vars
  <2> QED BY <2>1, <2>2 DEF Times, TimesOK, LagOK, DeadlineOK, DeadlineAt, Wrapped, Ticks, RT_TICK_MAX,
                            HardTime, SoftTime, CallTime, AppTime, OrderOK, InOrder, NowOK, SleepOK,
                            Live, Linked
<1>3. CASE Interrupt
  <2>1. Times
    <3>1. missed' = missed
      BY <1>3 DEF Interrupt, Tick, CheckCall, CheckEnd, HardCallback, rt_thread_timeout, CheckReturn
    <3> QED BY <3>1 DEF TimeInv
  <2> QED BY <1>1, <1>3, <2>1, TickTime, CheckCallTime, CheckEndTime, HardCallbackTime, TimeoutTime,
             CheckReturnTime DEF Interrupt
<1>4. CASE TimerThread
  <2>1. Times
    <3>1. ~missed
      BY <1>4 DEF TimerThread, SuspendSelf, Look, Measure, rt_thread_delay, SoftCheck, SoftCall,
                  SoftEnd, SoftCallback, ThreadInserts, SoftReturn
    <3> QED BY <3>1 DEF TimeInv
  <2> QED BY <1>1, <1>4, <2>1, SuspendTime, LookTime, MeasureTime, DelayTime, SoftWalkTime,
             SoftCallTime, SoftCallbackTime, ThreadInsertsTime, SoftReturnTime DEF TimerThread
<1>5. CASE Caller
  <2>1. Times
    <3>1. missed' = missed
      BY <1>5 DEF Caller, Continue, StartTime, StartSecond, StartWake, StopRemove, StopClear, StartFirst,
                  StopTest, rt_timer_control, rt_timer_detach
    <3> QED BY <3>1 DEF TimeInv
  <2>2. CASE Continue
    BY <1>1, <2>1, <2>2, StartTimeTime, StartSecondTime, StartWakeTime, StopRemoveTime,
       StopClearTime DEF Continue
  <2>3. ASSUME NEW t \in Hard \cup Soft,
               StartFirst(t) \/ StopTest(t) \/ rt_timer_control(t) \/ rt_timer_detach(t)
        PROVE  Times'
    BY <1>1, <2>1, <2>3, StartFirstTime, StopTestTime, ControlTime, DetachTime
  <2> QED BY <1>5, <2>2, <2>3 DEF Caller
<1> QED BY <1>2, <1>3, <1>4, <1>5 DEF Next

-----------------------------------------------------------------------------
(***************************************************************************)
(* What the runs check, for every value of the constants.                  *)
(***************************************************************************)
\* As long as the timer thread has taken no deadline for "no timer", and no call of the caller has
\* crossed with a start of its timer, every deadline that will be read is the tick that is left
\* ticks ahead, and left is bounded on both sides, whatever timeout functions stop and start.
THEOREM TimesInvariance == Spec => [](~crossed => TimeInv)
PROOF
<1>1. Init => (~crossed => TimeInv)
  BY InitTimes
<1>2. (~crossed => TimeInv) /\ [Next]_vars => (~crossed => TimeInv)'
  BY StepTimes, CrossedStays
<1> QED BY <1>1, <1>2, PTL DEF Spec

\* Both lists are in the order of the real deadlines, although rt_timer_start compares them
\* modulo the width of rt_tick_t, and hold a timer at most once.
THEOREM SortedHolds == Spec => []Sorted
PROOF
<1>1. (~crossed => TimeInv) => Sorted
  <2> SUFFICES ASSUME ~crossed, TimeInv PROVE Sorted
    BY DEF Sorted
  <2>1. StopInv /\ (~missed => OrderOK)
    BY DEF TimeInv, Times
  <2>2. DOMAIN list = {"hard", "soft"}
    BY <2>1, Parts DEF TypeOK, Lists
  <2>3. \A k \in DOMAIN list : IsDuplicateFree(list[k])
    BY <2>1, <2>2, Parts DEF LinkedOnce
  <2>4. ASSUME ~missed, NEW k \in DOMAIN list
        PROVE  \A i, j \in DOMAIN list[k] :
                  i < j => timer[list[k][i]].left <= timer[list[k][j]].left
    <3>1. InOrder(list.hard, timer) /\ InOrder(list.soft, timer)
      BY <2>1, <2>4 DEF OrderOK
    <3>2. InOrder(list[k], timer)
      BY <2>2, <2>4, <3>1
    <3> QED BY <3>2 DEF InOrder
  <2> QED BY <2>3, <2>4, Zenon DEF Sorted
<1> QED BY <1>1, TimesInvariance, PTL

\* A timer that is called has expired; one that is called or still waits is late at most by the
\* ticks that passed while a thread was at work, and a soft one by one more.
THEOREM OnTimeHolds == Spec => []OnTime
PROOF
<1>1. (~crossed => TimeInv) => OnTime
  <2> SUFFICES ASSUME ~crossed, TimeInv, ~missed
               PROVE  /\ \A t \in Called : timer[t].left <= 0
                      /\ \A t \in Timers : t \in Called \/ Linked(t) =>
                            timer[t].left >= -Lateness(t)
    BY Zenon DEF OnTime
  <2>1. StopInv /\ Times
    BY DEF TimeInv
  <2>2. /\ IrqOwn /\ ThrOwn /\ HardTime /\ SoftTime /\ CallTime /\ HardTimers \cap Soft = {}
        /\ MaxLag \in Nat /\ lag \in Int /\ lag <= MaxLag
        /\ \A t \in Timers : timer[t].left \in Int
    BY <2>1, Parts, TimeParts, NumFacts
  <2>3. \A t \in Called : timer[t].left <= 0
    BY <2>2 DEF Called, CallTime
  <2>4. ASSUME NEW t \in Timers, t \in Called \/ Linked(t)
        PROVE  timer[t].left >= -Lateness(t)
    <3>1. CASE t \in Soft
      <4>1. ~(irq.pc = "call" /\ irq.t = t)
        BY <2>2, <3>1 DEF IrqOwn
      <4>2. Linked(t) \/ (thr.pc = "callback" /\ t = thr.t)
        BY <2>4, <4>1 DEF Called
      <4>3. timer[t].left >= -(MaxLag + 1) - lag
        BY <2>2, <3>1, <4>2 DEF SoftTime, CallTime, Live
      <4>4. Lateness(t) = 2 * MaxLag + 1
        BY <3>1 DEF Lateness
      <4> QED BY <2>2, <4>3, <4>4
    <3>2. CASE t \notin Soft
      <4>1. t \in HardTimers
        BY <3>2 DEF Timers, HardTimers
      <4>2. ~(thr.pc = "callback" /\ thr.t = t)
        BY <2>2, <3>2 DEF ThrOwn
      <4>3. Linked(t) \/ (irq.pc = "call" /\ t = irq.t)
        BY <2>4, <4>2 DEF Called
      <4>4. timer[t].left >= -MaxLag
        BY <2>2, <4>1, <4>3 DEF HardTime, CallTime
      <4>5. Lateness(t) = MaxLag
        BY <3>2 DEF Lateness
      <4> QED BY <4>4, <4>5
    <3> QED BY <3>1, <3>2
  <2> QED BY <2>3, <2>4
<1> QED BY <1>1, TimesInvariance, PTL

\* The timer thread never sleeps past the first soft timer: its thread timer ends the sleep in
\* time, or the caller that put a soft timer in the list is about to wake it.
THEOREM SleepCoveredHolds == Spec => []SleepCovered
PROOF
<1>1. (~crossed => TimeInv) => SleepCovered
  <2> SUFFICES ASSUME ~crossed, TimeInv, thr.pc = "suspended", list.soft # <<>>, ~missed
               PROVE  \/ app.pc = "wake"
                      \/ /\ Linked(ThreadTimer) \/ irq = [pc |-> "call", t |-> ThreadTimer]
                         /\ timer[ThreadTimer].left <= timer[Head(list.soft)].left + MaxLag
    BY Zenon DEF SleepCovered
  <2>1. StopInv /\ SleepOK
    BY DEF TimeInv, Times
  <2>2. irq = [pc |-> irq.pc, t |-> irq.t]
    BY <2>1, Parts DEF TypeOK
  <2>3. \/ app.pc = "wake"
        \/ /\ Linked(ThreadTimer) \/ (irq.pc = "call" /\ irq.t = ThreadTimer)
           /\ timer[ThreadTimer].left <= timer[Head(list.soft)].left + MaxLag
    BY <2>1 DEF SleepOK
  <2> QED BY <2>2, <2>3
<1> QED BY <1>1, TimesInvariance, PTL
=============================================================================
