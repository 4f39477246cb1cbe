---------------------------- MODULE MutexProofs ----------------------------
(***************************************************************************)
(* Safety of the mutex for any threads, mutexes, priorities and both kinds *)
(* of waiting list.                                                        *)
(***************************************************************************)
EXTENDS Mutex, IpcListProofs, TLAPS

HasNone(t) == \A m \in Mutexes : taken[t][m] = 0

\* The fields of a mutex agree with each other.
FieldsAgree ==
    \A m \in Mutexes :
        IF owner[m] = NoThread
        THEN value[m] = 1 /\ hold[m] = 0 /\ suspend_thread[m] = <<>>
        ELSE value[m] = 0 /\ hold[m] >= 1 /\ original_priority[m] \in 0 .. 31

\* The waiting lists agree with the states of the threads.
ListsAgree ==
    \A m \in Mutexes :
        /\ IsDuplicateFree(suspend_thread[m])
        /\ \A t \in Threads :
              /\ t \in ToSet(suspend_thread[m]) <=> stat[t] = "suspend" /\ call[t].mutex = m
              /\ t \in ToSet(suspend_thread[m]) => owner[m] # t

\* A thread inside rt_mutex_take sleeps, timed out, or was handed the mutex.
CallsAgree ==
    \A t \in Threads :
        /\ call[t].mutex = NoMutex => call[t] = NoCall
        /\ stat[t] = "suspend" => call[t].mutex # NoMutex /\ error[t] = "EOK"
        /\ stat[t] = "ready" /\ call[t].mutex # NoMutex /\ error[t] = "EOK" =>
              owner[call[t].mutex] = t /\ hold[call[t].mutex] = 1

\* Where the priority to return to is kept: nowhere, in the outermost mutex, or in the
\* first mutex a thread was just handed.
PrioritySaved ==
    \A t \in Threads : nested[t] =>
        /\ (\A m \in Mutexes : owner[m] # t) => current_priority[t] = Base[t]
        /\ ~HasNone(t) => /\ outer[t] \in Mutexes
                          /\ taken[t][outer[t]] > 0
                          /\ original_priority[outer[t]] = Base[t]
        /\ HasNone(t) => \A m \in Mutexes : owner[m] = t => original_priority[m] = Base[t]

IInv ==
    /\ TypeOK
    /\ FieldsAgree
    /\ ListsAgree
    /\ CallsAgree
    /\ OwnerKnows
    /\ PrioritySaved
-----------------------------------------------------------------------------
\* A mutex starts available, and the threads with their own priority.
LEMMA IInvInit == Init => IInv
PROOF
<1> SUFFICES ASSUME Init PROVE IInv
  OBVIOUS
<1>1. TypeOK
  <2>1. <<>> \in Seq(Threads) /\ 0 \in 0 .. MaxHold /\ 1 \in {0, 1}
    BY EmptySeq, MutexAssumption
  <2> QED BY <2>1, MutexAssumption DEF Init, TypeOK, NoCall
<1>2. FieldsAgree
  BY DEF Init, FieldsAgree
<1>3. ListsAgree
  <2>1. ToSet(<<>>) = {} /\ IsDuplicateFree(<<>>)
    BY DEF ToSet, IsDuplicateFree
  <2> QED BY <2>1 DEF Init, ListsAgree
<1>4. CallsAgree
  BY DEF Init, CallsAgree, NoCall
<1>5. OwnerKnows
  BY MutexAssumption DEF Init, OwnerKnows
<1>6. PrioritySaved
  BY MutexAssumption DEF Init, PrioritySaved, HasNone
<1> QED BY <1>1, <1>2, <1>3, <1>4, <1>5, <1>6 DEF IInv

\* Returning RT_EOK from rt_mutex_take, seen by the callers.
LEMMA TakenFacts ==
    ASSUME TypeOK, NEW t \in Threads, NEW m \in Mutexes, taken[t][m] < MaxHold, Taken(t, m)
    PROVE  /\ taken' \in [Threads -> [Mutexes -> 0 .. MaxHold]]
           /\ outer' \in [Threads -> Mutexes \cup {NoMutex}]
           /\ nested' = nested
           /\ alone' \in [Threads -> BOOLEAN]
           /\ taken'[t][m] = taken[t][m] + 1
           /\ \A n \in Mutexes \ {m} : taken'[t][n] = taken[t][n]
           /\ outer'[t] = IF HasNone(t) THEN m ELSE outer[t]
           /\ \A u \in Threads \ {t} : taken'[u] = taken[u] /\ outer'[u] = outer[u]
PROOF
<1>1. MaxHold \in Nat
  BY MutexAssumption
<1>2. taken[t][m] + 1 \in 0 .. MaxHold
  BY <1>1 DEF TypeOK
<1>3. /\ taken' = [taken EXCEPT ![t][m] = @ + 1]
      /\ outer' = [outer EXCEPT ![t] = IF Has(t) = {} THEN m ELSE @]
      /\ alone' = [alone EXCEPT ![t] = @ /\ Has(t) \subseteq {m}]
      /\ nested' = nested
  BY DEF Taken
<1>4. Has(t) = {} <=> HasNone(t)
  BY <1>1 DEF Has, HasNone, TypeOK
<1>5. (alone[t] /\ Has(t) \subseteq {m}) \in BOOLEAN
  OBVIOUS
<1>6. taken' \in [Threads -> [Mutexes -> 0 .. MaxHold]]
  BY <1>2, <1>3 DEF TypeOK
<1>7. alone' \in [Threads -> BOOLEAN]
  BY <1>3, <1>5 DEF TypeOK
<1>8. outer' \in [Threads -> Mutexes \cup {NoMutex}]
  BY <1>3 DEF TypeOK
<1>9. /\ taken'[t][m] = taken[t][m] + 1
      /\ \A n \in Mutexes \ {m} : taken'[t][n] = taken[t][n]
      /\ \A u \in Threads \ {t} : taken'[u] = taken[u]
  BY <1>3 DEF TypeOK
<1>10. /\ outer'[t] = IF HasNone(t) THEN m ELSE outer[t]
       /\ \A u \in Threads \ {t} : outer'[u] = outer[u]
  BY <1>3, <1>4 DEF TypeOK
<1> QED BY <1>3, <1>6, <1>7, <1>8, <1>9, <1>10

\* Returning RT_EOK from rt_mutex_release, seen by the callers.
LEMMA ReleasedFacts ==
    ASSUME TypeOK, NEW t \in Threads, NEW m \in Mutexes, taken[t][m] > 0, Released(t, m)
    PROVE  /\ taken' \in [Threads -> [Mutexes -> 0 .. MaxHold]]
           /\ outer' \in [Threads -> Mutexes \cup {NoMutex}]
           /\ nested' \in [Threads -> BOOLEAN]
           /\ alone' \in [Threads -> BOOLEAN]
           /\ taken'[t][m] = taken[t][m] - 1
           /\ \A n \in Mutexes \ {m} : taken'[t][n] = taken[t][n]
           /\ nested'[t] => nested[t]
           /\ taken[t][m] > 1 => outer'[t] = outer[t]
           /\ taken[t][m] = 1 /\ nested'[t] /\ ~HasNone(t)' =>
                 outer'[t] = outer[t] /\ outer[t] # m
           /\ \A u \in Threads \ {t} :
                 taken'[u] = taken[u] /\ outer'[u] = outer[u] /\ nested'[u] = nested[u]
PROOF
<1>1. MaxHold \in Nat /\ taken[t][m] \in 0 .. MaxHold
  BY MutexAssumption DEF TypeOK
<1>2. taken[t][m] - 1 \in 0 .. MaxHold
  BY <1>1
<1>3. taken' = [taken EXCEPT ![t][m] = @ - 1]
  BY DEF Released
<1>4. taken' \in [Threads -> [Mutexes -> 0 .. MaxHold]]
  BY <1>2, <1>3 DEF TypeOK
<1>5. /\ taken'[t][m] = taken[t][m] - 1
      /\ \A n \in Mutexes \ {m} : taken'[t][n] = taken[t][n]
      /\ \A u \in Threads \ {t} : taken'[u] = taken[u]
  BY <1>3 DEF TypeOK
<1>6. CASE taken[t][m] > 1
  <2>1. UNCHANGED <<outer, nested, alone>>
    BY <1>1, <1>6 DEF Released
  <2> QED BY <1>1, <1>4, <1>5, <1>6, <2>1 DEF TypeOK
<1>7. CASE taken[t][m] = 1 /\ Has(t) = {m}
  <2>1. /\ outer' = [outer EXCEPT ![t] = NoMutex]
        /\ alone' = [alone EXCEPT ![t] = TRUE]
        /\ nested' = nested
    BY <1>7 DEF Released
  <2>2. HasNone(t)'
    <3>1. \A n \in Mutexes : n # m => taken[t][n] = 0
      BY <1>1, <1>7 DEF Has, TypeOK
    <3> QED BY <1>5, <1>7, <3>1 DEF HasNone
  <2>3. /\ outer' \in [Threads -> Mutexes \cup {NoMutex}]
        /\ alone' \in [Threads -> BOOLEAN] /\ nested' \in [Threads -> BOOLEAN]
        /\ \A u \in Threads \ {t} : outer'[u] = outer[u]
    BY <2>1 DEF TypeOK
  <2> QED BY <1>1, <1>4, <1>5, <1>7, <2>1, <2>2, <2>3
<1>8. CASE taken[t][m] = 1 /\ Has(t) # {m}
  <2>1. /\ nested' = [nested EXCEPT ![t] = @ /\ m # outer[t]]
        /\ outer' = outer /\ alone' = alone
    BY <1>8 DEF Released
  <2>2. (nested[t] /\ m # outer[t]) \in BOOLEAN
    OBVIOUS
  <2>3. /\ nested' \in [Threads -> BOOLEAN]
        /\ nested'[t] = (nested[t] /\ m # outer[t])
        /\ \A u \in Threads \ {t} : nested'[u] = nested[u]
    BY <2>1, <2>2 DEF TypeOK
  <2> QED BY <1>1, <1>4, <1>5, <1>8, <2>1, <2>3 DEF TypeOK
<1> QED BY <1>1, <1>6, <1>7, <1>8

\* A thread outside rt_mutex_take was not just handed a mutex.
LEMMA RunningFacts ==
    ASSUME IInv, NEW t \in Threads, Running(t)
    PROVE  /\ stat[t] = "ready" /\ call[t].mutex = NoMutex
           /\ \A m \in Mutexes : ~Handed(t, m) /\ t \notin ToSet(suspend_thread[m])
           /\ \A m \in Mutexes : taken[t][m] = IF owner[m] = t THEN hold[m] ELSE 0
           /\ HasNone(t) => \A m \in Mutexes : owner[m] # t
PROOF
<1>1. stat[t] = "ready" /\ call[t].mutex = NoMutex
  BY DEF Running, NoCall
<1>2. \A m \in Mutexes : ~Handed(t, m) /\ t \notin ToSet(suspend_thread[m])
  BY <1>1, MutexAssumption DEF IInv, ListsAgree, Handed
<1>3. \A m \in Mutexes : taken[t][m] = IF owner[m] = t THEN hold[m] ELSE 0
  BY <1>2 DEF IInv, OwnerKnows
<1>4. ASSUME HasNone(t), NEW m \in Mutexes PROVE owner[m] # t
  BY <1>3, <1>4, MutexAssumption DEF IInv, FieldsAgree, HasNone
<1> QED BY <1>1, <1>2, <1>3, <1>4

\* The owner takes the mutex once more.
LEMMA TakeAgainStep ==
    ASSUME IInv, NEW t \in Threads, NEW m \in Mutexes, TakeAgain(t, m)
    PROVE  IInv'
PROOF
<1>1. /\ TypeOK /\ Running(t) /\ owner[m] = t /\ hold[m] < MaxHold
      /\ hold' = [hold EXCEPT ![m] = @ + 1]
      /\ error' = [error EXCEPT ![t] = "EOK"]
      /\ Taken(t, m)
      /\ UNCHANGED <<value, owner, original_priority, suspend_thread, current_priority, stat, call>>
  BY DEF IInv, TakeAgain
<1>2. MaxHold \in Nat /\ hold[m] \in 0 .. MaxHold /\ t # NoThread
  BY <1>1, MutexAssumption DEF TypeOK
<1>3. hold[m] >= 1 /\ taken[t][m] = hold[m]
  BY <1>1, <1>2, RunningFacts DEF IInv, FieldsAgree
<1>4. taken[t][m] < MaxHold
  BY <1>1, <1>3
<1>5. /\ hold' \in [Mutexes -> 0 .. MaxHold]
      /\ hold'[m] = hold[m] + 1
      /\ \A n \in Mutexes \ {m} : hold'[n] = hold[n]
      /\ error' \in [Threads -> {"EOK", "ETIMEOUT", "ERROR"}]
      /\ error'[t] = "EOK"
      /\ \A u \in Threads \ {t} : error'[u] = error[u]
  BY <1>1, <1>2 DEF TypeOK
<1>6. TypeOK'
  BY <1>1, <1>4, <1>5, TakenFacts DEF TypeOK
<1>7. FieldsAgree'
  BY <1>1, <1>2, <1>3, <1>5 DEF IInv, FieldsAgree
<1>8. ListsAgree'
  BY <1>1 DEF IInv, ListsAgree
<1>9. CallsAgree'
  <2>1. ASSUME NEW u \in Threads \ {t}, stat[u] = "ready", call[u].mutex # NoMutex, error[u] = "EOK"
        PROVE  call[u].mutex # m /\ call[u].mutex \in Mutexes
    BY <1>1, <2>1 DEF IInv, CallsAgree, TypeOK
  <2> QED BY <1>1, <1>5, <2>1, RunningFacts DEF IInv, CallsAgree
<1>10. OwnerKnows'
  <2>1. ASSUME NEW u \in Threads, NEW n \in Mutexes
        PROVE  Handed(u, n)' <=> Handed(u, n)
    BY <1>1, <1>5, RunningFacts, MutexAssumption DEF Handed
  <2>2. ASSUME NEW u \in Threads, NEW n \in Mutexes
        PROVE  taken'[u][n] = IF owner[n] = u /\ ~Handed(u, n) THEN hold'[n] ELSE 0
    <3>1. CASE u = t /\ n = m
      BY <1>1, <1>3, <1>4, <1>5, <3>1, TakenFacts, RunningFacts
    <3>2. CASE u = t /\ n # m
      BY <1>1, <1>4, <1>5, <3>2, TakenFacts DEF IInv, OwnerKnows
    <3>3. CASE u # t
      BY <1>1, <1>4, <1>5, <3>3, TakenFacts DEF IInv, OwnerKnows
    <3> QED BY <3>1, <3>2, <3>3
  <2> QED BY <1>1, <2>1, <2>2 DEF OwnerKnows
<1>11. PrioritySaved'
  <2>1. ~HasNone(t)
    BY <1>2, <1>3 DEF HasNone
  <2>2. ASSUME NEW u \in Threads, NEW n \in Mutexes
        PROVE  /\ taken[u][n] \in Nat /\ taken'[u][n] \in Nat
               /\ taken'[u][n] > 0 <=> taken[u][n] > 0
    <3>1. taken[u][n] \in Nat
      BY <1>1, <1>2 DEF TypeOK
    <3>2. CASE u = t /\ n = m
      BY <1>1, <1>2, <1>3, <1>4, <3>1, <3>2, TakenFacts
    <3>3. CASE ~(u = t /\ n = m)
      BY <1>1, <1>4, <3>1, <3>3, TakenFacts
    <3> QED BY <3>2, <3>3
  <2>3. \A u \in Threads : HasNone(u)' <=> HasNone(u)
    BY <2>2 DEF HasNone
  <2>4. outer' = outer /\ nested' = nested
    <3>1. \A u \in Threads : outer'[u] = outer[u]
      BY <1>1, <1>4, <2>1, TakenFacts
    <3> QED BY <1>1, <1>4, <1>6, <3>1, TakenFacts DEF TypeOK
  <2> QED BY <1>1, <2>2, <2>3, <2>4 DEF IInv, PrioritySaved
<1> QED BY <1>6, <1>7, <1>8, <1>9, <1>10, <1>11 DEF IInv

\* An available mutex is taken; the priority to return to is saved in it.
LEMMA TakeFreeStep ==
    ASSUME IInv, NEW t \in Threads, NEW m \in Mutexes, TakeFree(t, m)
    PROVE  IInv'
PROOF
<1>1. /\ TypeOK /\ Running(t) /\ value[m] > 0
      /\ value' = [value EXCEPT ![m] = @ - 1]
      /\ owner' = [owner EXCEPT ![m] = t]
      /\ original_priority' = [original_priority EXCEPT ![m] = current_priority[t]]
      /\ hold' = [hold EXCEPT ![m] = @ + 1]
      /\ error' = [error EXCEPT ![t] = "EOK"]
      /\ Taken(t, m)
      /\ UNCHANGED <<suspend_thread, current_priority, stat, call>>
  BY DEF IInv, TakeFree
<1>2. MaxHold \in 1 .. 255 /\ t # NoThread
  BY MutexAssumption
<1>3. /\ owner[m] = NoThread /\ value[m] = 1 /\ hold[m] = 0 /\ suspend_thread[m] = <<>>
  BY <1>1 DEF IInv, FieldsAgree
<1>4. taken[t][m] = 0 /\ taken[t][m] < MaxHold
  <2>1. taken[t][m] = 0
    BY <1>1, <1>2, <1>3, RunningFacts
  <2>2. 0 < MaxHold
    BY <1>2
  <2> QED BY <2>1, <2>2
<1>5. /\ value'[m] = 0 /\ hold'[m] = 1 /\ owner'[m] = t
      /\ original_priority'[m] = current_priority[t]
      /\ \A n \in Mutexes \ {m} : /\ value'[n] = value[n] /\ hold'[n] = hold[n]
                                  /\ owner'[n] = owner[n]
                                  /\ original_priority'[n] = original_priority[n]
      /\ error'[t] = "EOK"
      /\ \A u \in Threads \ {t} : error'[u] = error[u]
  BY <1>1, <1>3 DEF TypeOK
<1>6. TypeOK'
  <2>1. /\ value' \in [Mutexes -> {0, 1}]
        /\ hold' \in [Mutexes -> 0 .. MaxHold]
    BY <1>1, <1>2, <1>3 DEF TypeOK
  <2>2. /\ owner' \in [Mutexes -> Threads \cup {NoThread}]
        /\ original_priority' \in [Mutexes -> 0 .. 31 \cup {255}]
        /\ error' \in [Threads -> {"EOK", "ETIMEOUT", "ERROR"}]
    BY <1>1 DEF TypeOK
  <2> QED BY <1>1, <1>4, <2>1, <2>2, TakenFacts DEF TypeOK
<1>7. FieldsAgree'
  <2>1. current_priority[t] \in 0 .. 31
    BY <1>1 DEF TypeOK
  <2>2. ASSUME NEW n \in Mutexes
        PROVE  IF owner'[n] = NoThread
               THEN value'[n] = 1 /\ hold'[n] = 0 /\ suspend_thread[n] = <<>>
               ELSE value'[n] = 0 /\ hold'[n] >= 1 /\ original_priority'[n] \in 0 .. 31
    <3>1. CASE n = m
      <4>1. value'[m] = 0 /\ hold'[m] = 1 /\ owner'[m] = t /\ original_priority'[m] \in 0 .. 31
        BY <1>5, <2>1
      <4> QED BY <1>2, <3>1, <4>1
    <3>2. CASE n # m
      BY <1>5, <3>2 DEF IInv, FieldsAgree
    <3> QED BY <3>1, <3>2
  <2> QED BY <1>1, <2>2 DEF FieldsAgree
<1>8. ListsAgree'
  <2>1. ToSet(suspend_thread[m]) = {}
    BY <1>3 DEF ToSet
  <2> QED BY <1>1, <1>5, <2>1 DEF IInv, ListsAgree
<1>9. CallsAgree'
  <2>1. ASSUME NEW u \in Threads \ {t}, stat[u] = "ready", call[u].mutex # NoMutex, error[u] = "EOK"
        PROVE  call[u].mutex # m /\ call[u].mutex \in Mutexes
    BY <1>1, <1>3, <2>1, MutexAssumption DEF IInv, CallsAgree, TypeOK
  <2> QED BY <1>1, <1>5, <2>1, RunningFacts DEF IInv, CallsAgree
<1>10. OwnerKnows'
  <2>1. ASSUME NEW u \in Threads, NEW n \in Mutexes
        PROVE  taken'[u][n] = IF owner'[n] = u /\ ~Handed(u, n)' THEN hold'[n] ELSE 0
    <3>1. CASE u = t /\ n = m
      <4>1. ~Handed(t, m)'
        BY <1>1, RunningFacts, MutexAssumption DEF Handed
      <4> QED BY <1>1, <1>4, <1>5, <3>1, <4>1, TakenFacts
    <3>2. CASE u = t /\ n # m
      <4>1. ~Handed(t, n)' /\ ~Handed(t, n)
        BY <1>1, RunningFacts, MutexAssumption DEF Handed
      <4> QED BY <1>1, <1>4, <1>5, <3>2, <4>1, TakenFacts DEF IInv, OwnerKnows
    <3>3. CASE u # t /\ n = m
      BY <1>1, <1>2, <1>3, <1>4, <1>5, <3>3, TakenFacts, MutexAssumption DEF IInv, OwnerKnows
    <3>4. CASE u # t /\ n # m
      <4>1. Handed(u, n)' <=> Handed(u, n)
        BY <1>1, <1>5, <3>4 DEF Handed
      <4> QED BY <1>1, <1>4, <1>5, <3>4, <4>1, TakenFacts DEF IInv, OwnerKnows
    <3> QED BY <3>1, <3>2, <3>3, <3>4
  <2> QED BY <2>1 DEF OwnerKnows
<1>11. PrioritySaved'
  <2>1. ASSUME NEW u \in Threads, nested[u]
        PROVE /\ (\A n \in Mutexes : owner'[n] # u) => current_priority[u] = Base[u]
              /\ ~HasNone(u)' => /\ outer'[u] \in Mutexes
                                 /\ taken'[u][outer'[u]] > 0
                                 /\ original_priority'[outer'[u]] = Base[u]
              /\ HasNone(u)' => \A n \in Mutexes : owner'[n] = u => original_priority'[n] = Base[u]
    <3>1. CASE u = t
      <4>1. taken'[t][m] = 1
        BY <1>1, <1>4, TakenFacts
      <4>2. ~HasNone(t)'
        BY <4>1 DEF HasNone
      <4>3. CASE HasNone(t)
        <5>1. current_priority[t] = Base[t]
          BY <1>1, <2>1, <3>1, <4>3, RunningFacts DEF IInv, PrioritySaved
        <5>2. outer'[t] = m
          BY <1>1, <1>4, <4>3, TakenFacts
        <5> QED BY <1>5, <3>1, <4>1, <4>2, <5>1, <5>2
      <4>4. CASE ~HasNone(t)
        <5>1. /\ outer[t] \in Mutexes /\ taken[t][outer[t]] > 0
              /\ original_priority[outer[t]] = Base[t]
          BY <2>1, <3>1, <4>4 DEF IInv, PrioritySaved
        <5>2. outer'[t] = outer[t] /\ outer[t] # m
          BY <1>1, <1>4, <4>4, <5>1, TakenFacts
        <5>3. taken'[t][outer[t]] = taken[t][outer[t]]
          BY <1>1, <1>4, <5>1, <5>2, TakenFacts
        <5> QED BY <1>5, <3>1, <4>2, <5>1, <5>2, <5>3
      <4> QED BY <4>3, <4>4
    <3>2. CASE u # t
      <4>1. taken'[u] = taken[u] /\ outer'[u] = outer[u]
        BY <1>1, <1>4, <3>2, TakenFacts
      <4>2. HasNone(u)' <=> HasNone(u)
        BY <4>1 DEF HasNone
      <4>3. taken[u][m] = 0
        BY <1>3, MutexAssumption DEF IInv, OwnerKnows
      <4>4. \A n \in Mutexes : owner'[n] = u <=> owner[n] = u
        BY <1>3, <1>5, <3>2, MutexAssumption
      <4>5. \A n \in Mutexes : owner[n] = u => n # m
        BY <1>3, MutexAssumption
      <4> QED BY <1>5, <2>1, <4>1, <4>2, <4>3, <4>4, <4>5 DEF IInv, PrioritySaved
    <3> QED BY <3>1, <3>2
  <2>2. nested' = nested /\ current_priority' = current_priority
    BY <1>1, <1>4, TakenFacts
  <2> QED BY <2>1, <2>2 DEF PrioritySaved
<1> QED BY <1>6, <1>7, <1>8, <1>9, <1>10, <1>11 DEF IInv

\* Priorities are numbers.
LEMMA PrioritiesNat ==
    ASSUME TypeOK
    PROVE  current_priority \in [Threads -> Nat]
PROOF
<1>1. current_priority \in [Threads -> 0 .. 31]
  BY DEF TypeOK
<1>2. 0 .. 31 \subseteq Nat
  OBVIOUS
<1> QED BY <1>1, <1>2, Zenon

\* Steps that only set the error code of a thread outside rt_mutex_take.
LEMMA RefusedStep ==
    ASSUME IInv, NEW t \in Threads, NEW m \in Mutexes, TakeRefused(t, m) \/ ReleaseRefused(t, m)
    PROVE  IInv'
PROOF
<1>1. PICK code \in {"ETIMEOUT", "ERROR"} :
        /\ Running(t)
        /\ error' = [error EXCEPT ![t] = code]
        /\ UNCHANGED <<value, owner, hold, original_priority, suspend_thread, current_priority,
                       stat, call, taken, outer, nested, alone>>
  BY DEF TakeRefused, ReleaseRefused, mutexVars, historyVars
<1>2. TypeOK /\ TypeOK'
  BY <1>1 DEF IInv, TypeOK
<1>3. \A u \in Threads \ {t} : error'[u] = error[u]
  BY <1>1, <1>2 DEF TypeOK
<1>4. FieldsAgree' /\ ListsAgree'
  BY <1>1 DEF IInv, FieldsAgree, ListsAgree
<1>5. CallsAgree'
  BY <1>1, <1>3, RunningFacts DEF IInv, CallsAgree
<1>6. \A u \in Threads, n \in Mutexes : Handed(u, n)' <=> Handed(u, n)
  BY <1>1, <1>3, RunningFacts, MutexAssumption DEF Handed
<1>7. OwnerKnows'
  BY <1>1, <1>6 DEF IInv, OwnerKnows
<1>8. PrioritySaved'
  BY <1>1 DEF IInv, PrioritySaved, HasNone
<1> QED BY <1>2, <1>4, <1>5, <1>7, <1>8 DEF IInv

\* The caller joins the waiting list and the owner inherits its priority.
LEMMA TakeWaitsStep ==
    ASSUME IInv, NEW t \in Threads, NEW m \in Mutexes, NEW time \in Times, TakeWaits(t, m, time)
    PROVE  IInv'
PROOF
<1>1. /\ TypeOK /\ Running(t) /\ owner[m] # t /\ value[m] = 0
      /\ Inherit(t, m)
      /\ suspend_thread' = [suspend_thread EXCEPT
                               ![m] = rt_ipc_list_suspend(@, t, Flag, current_priority)]
      /\ stat' = [stat EXCEPT ![t] = "suspend"]
      /\ error' = [error EXCEPT ![t] = "EOK"]
      /\ call' = [call EXCEPT ![t] = [mutex |-> m, timed |-> time = "ticks"]]
      /\ UNCHANGED <<value, owner, hold, original_priority, taken, outer, nested, alone>>
  BY DEF IInv, TakeWaits, historyVars
<1>2. owner[m] \in Threads
  BY <1>1 DEF IInv, FieldsAgree, TypeOK
<1>3. /\ current_priority' \in [Threads -> 0 .. 31]
      /\ \A u \in Threads : u # owner[m] => current_priority'[u] = current_priority[u]
  BY <1>1, <1>2 DEF TypeOK, Inherit
<1>4. /\ suspend_thread[m] \in Seq(Threads) /\ IsDuplicateFree(suspend_thread[m])
      /\ t \notin ToSet(suspend_thread[m])
      /\ \A n \in Mutexes : t \notin ToSet(suspend_thread[n])
      /\ Flag \in IpcFlags /\ current_priority \in [Threads -> Nat]
  <2>1. current_priority \in [Threads -> Nat]
    BY <1>1, PrioritiesNat
  <2>2. suspend_thread[m] \in Seq(Threads) /\ IsDuplicateFree(suspend_thread[m])
    BY <1>1 DEF IInv, ListsAgree, TypeOK
  <2> QED BY <1>1, <2>1, <2>2, RunningFacts, MutexAssumption
<1>5. /\ suspend_thread'[m] = rt_ipc_list_suspend(suspend_thread[m], t, Flag, current_priority)
      /\ \A n \in Mutexes \ {m} : suspend_thread'[n] = suspend_thread[n]
  BY <1>1 DEF TypeOK
<1>6. /\ suspend_thread'[m] \in Seq(Threads)
      /\ IsDuplicateFree(suspend_thread'[m])
      /\ ToSet(suspend_thread'[m]) = ToSet(suspend_thread[m]) \cup {t}
  BY <1>4, <1>5, SuspendFacts
<1>7. /\ stat'[t] = "suspend" /\ error'[t] = "EOK" /\ call'[t].mutex = m
      /\ \A u \in Threads \ {t} : stat'[u] = stat[u] /\ error'[u] = error[u] /\ call'[u] = call[u]
  BY <1>1 DEF TypeOK
<1>8. TypeOK'
  <2>1. suspend_thread' \in [Mutexes -> Seq(Threads)]
    BY <1>1, <1>5, <1>6 DEF TypeOK
  <2>2. (time = "ticks") \in BOOLEAN
    OBVIOUS
  <2>3. call' \in [Threads -> [mutex : Mutexes \cup {NoMutex}, timed : BOOLEAN]]
    BY <1>1, <2>2 DEF TypeOK
  <2> QED BY <1>1, <1>3, <2>1, <2>3 DEF TypeOK
<1>9. FieldsAgree'
  <2>1. owner[m] # NoThread
    BY <1>2, MutexAssumption
  <2>2. ASSUME NEW n \in Mutexes
        PROVE  owner[n] = NoThread => suspend_thread'[n] = suspend_thread[n]
    BY <1>5, <2>1
  <2> QED BY <1>1, <2>2 DEF IInv, FieldsAgree
<1>10. ListsAgree'
  <2>1. ASSUME NEW n \in Mutexes, NEW u \in Threads
        PROVE  /\ u \in ToSet(suspend_thread'[n]) <=> stat'[u] = "suspend" /\ call'[u].mutex = n
               /\ u \in ToSet(suspend_thread'[n]) => owner[n] # u
    <3>1. CASE u = t
      <4>1. CASE n = m
        BY <1>1, <1>6, <1>7, <3>1, <4>1
      <4>2. CASE n # m
        BY <1>4, <1>5, <1>7, <3>1, <4>2
      <4> QED BY <4>1, <4>2
    <3>2. CASE u # t
      <4>1. u \in ToSet(suspend_thread'[n]) <=> u \in ToSet(suspend_thread[n])
        BY <1>5, <1>6, <3>2
      <4> QED BY <1>7, <3>2, <4>1 DEF IInv, ListsAgree
    <3> QED BY <3>1, <3>2
  <2>2. \A n \in Mutexes : IsDuplicateFree(suspend_thread'[n])
    BY <1>5, <1>6 DEF IInv, ListsAgree
  <2> QED BY <1>1, <2>1, <2>2 DEF ListsAgree
<1>11. CallsAgree'
  BY <1>1, <1>7, MutexAssumption DEF IInv, CallsAgree
<1>12. \A u \in Threads, n \in Mutexes : Handed(u, n)' <=> Handed(u, n)
  BY <1>1, <1>7, RunningFacts DEF Handed
<1>13. OwnerKnows'
  BY <1>1, <1>12 DEF IInv, OwnerKnows
<1>14. PrioritySaved'
  BY <1>1, <1>3 DEF IInv, PrioritySaved, HasNone
<1> QED BY <1>8, <1>9, <1>10, <1>11, <1>13, <1>14 DEF IInv

\* After the wait: rt_mutex_take returns the error, or the mutex that was handed over.
LEMMA TakeResumedStep ==
    ASSUME IInv, NEW t \in Threads, TakeResumed(t)
    PROVE  IInv'
PROOF
<1> DEFINE m == call[t].mutex
<1>1. /\ TypeOK /\ stat[t] = "ready" /\ call[t] # NoCall
      /\ call' = [call EXCEPT ![t] = NoCall]
      /\ UNCHANGED <<value, owner, hold, original_priority, suspend_thread, current_priority,
                     stat, error>>
  BY DEF IInv, TakeResumed, mutexVars
<1>2. m \in Mutexes /\ m # NoMutex
  BY <1>1 DEF IInv, CallsAgree, TypeOK
<1>3. /\ call' \in [Threads -> [mutex : Mutexes \cup {NoMutex}, timed : BOOLEAN]]
      /\ call'[t] = NoCall /\ call'[t].mutex = NoMutex
      /\ \A u \in Threads \ {t} : call'[u] = call[u]
  BY <1>1 DEF TypeOK, NoCall
<1>4. FieldsAgree'
  BY <1>1 DEF IInv, FieldsAgree
<1>5. ListsAgree'
  BY <1>1, <1>3, MutexAssumption DEF IInv, ListsAgree
<1>6. CallsAgree'
  BY <1>1, <1>3 DEF IInv, CallsAgree
<1>7. \A u \in Threads, n \in Mutexes :
         Handed(u, n)' <=> Handed(u, n) /\ u # t
  BY <1>1, <1>3, MutexAssumption DEF Handed
<1>8. CASE error[t] # "EOK" /\ UNCHANGED historyVars
  <2>1. TypeOK'
    BY <1>1, <1>3, <1>8 DEF TypeOK, historyVars
  <2>2. OwnerKnows'
    <3>1. \A n \in Mutexes : ~Handed(t, n)
      BY <1>8 DEF Handed
    <3> QED BY <1>1, <1>7, <1>8, <3>1 DEF IInv, OwnerKnows, historyVars
  <2>3. PrioritySaved'
    BY <1>1, <1>8 DEF IInv, PrioritySaved, HasNone, historyVars
  <2> QED BY <1>4, <1>5, <1>6, <2>1, <2>2, <2>3 DEF IInv
<1>9. CASE error[t] = "EOK" /\ Taken(t, m)
  <2>1. owner[m] = t /\ hold[m] = 1 /\ Handed(t, m) /\ \A n \in Mutexes \ {m} : ~Handed(t, n)
    BY <1>1, <1>2, <1>9 DEF IInv, CallsAgree, Handed
  <2>2. taken[t][m] = 0
    BY <1>2, <2>1 DEF IInv, OwnerKnows
  <2>3. taken[t][m] < MaxHold
    BY <2>2, MutexAssumption
  <2> HIDE DEF m
  <2>4. TypeOK'
    BY <1>1, <1>2, <1>3, <1>9, <2>3, TakenFacts DEF TypeOK
  <2>5. OwnerKnows'
    <3>1. ASSUME NEW u \in Threads, NEW n \in Mutexes
          PROVE  taken'[u][n] = IF owner[n] = u /\ ~Handed(u, n)' THEN hold[n] ELSE 0
      <4>1. CASE u = t /\ n = m
        BY <1>1, <1>7, <1>9, <2>1, <2>2, <2>3, <4>1, TakenFacts
      <4>2. CASE u = t /\ n # m
        <5>1. taken'[t][n] = taken[t][n]
          BY <1>1, <1>2, <1>9, <2>3, <4>2, TakenFacts
        <5> QED BY <1>7, <2>1, <4>2, <5>1 DEF IInv, OwnerKnows
      <4>3. CASE u # t
        <5>1. taken'[u] = taken[u]
          BY <1>1, <1>2, <1>9, <2>3, <4>3, TakenFacts
        <5> QED BY <1>7, <4>3, <5>1 DEF IInv, OwnerKnows
      <4> QED BY <4>1, <4>2, <4>3
    <3> QED BY <1>1, <3>1 DEF OwnerKnows
  <2>6. PrioritySaved'
    <3>1. ASSUME NEW u \in Threads, nested[u]
          PROVE /\ (\A n \in Mutexes : owner[n] # u) => current_priority[u] = Base[u]
                /\ ~HasNone(u)' => /\ outer'[u] \in Mutexes
                                   /\ taken'[u][outer'[u]] > 0
                                   /\ original_priority[outer'[u]] = Base[u]
                /\ HasNone(u)' => \A n \in Mutexes : owner[n] = u => original_priority[n] = Base[u]
      <4>1. CASE u = t
        <5>1. taken'[t][m] = 1
          BY <1>1, <1>2, <1>9, <2>2, <2>3, TakenFacts
        <5>2. ~HasNone(t)'
          BY <1>2, <5>1 DEF HasNone
        <5>3. CASE HasNone(t)
          <6>1. outer'[t] = m
            BY <1>1, <1>2, <1>9, <2>3, <5>3, TakenFacts
          <6>2. original_priority[m] = Base[t]
            BY <1>2, <2>1, <3>1, <4>1, <5>3 DEF IInv, PrioritySaved
          <6> QED BY <1>2, <2>1, <4>1, <5>1, <5>2, <6>1, <6>2
        <5>4. CASE ~HasNone(t)
          <6>1. /\ outer[t] \in Mutexes /\ taken[t][outer[t]] > 0
                /\ original_priority[outer[t]] = Base[t]
            BY <3>1, <4>1, <5>4 DEF IInv, PrioritySaved
          <6>2. outer'[t] = outer[t] /\ outer[t] # m
            BY <1>1, <1>2, <1>9, <2>2, <2>3, <5>4, <6>1, TakenFacts
          <6>3. taken'[t][outer[t]] = taken[t][outer[t]]
            BY <1>1, <1>2, <1>9, <2>3, <6>1, <6>2, TakenFacts
          <6> QED BY <1>2, <2>1, <4>1, <5>2, <6>1, <6>2, <6>3
        <5> QED BY <5>3, <5>4
      <4>2. CASE u # t
        <5>1. taken'[u] = taken[u] /\ outer'[u] = outer[u]
          BY <1>1, <1>2, <1>9, <2>3, <4>2, TakenFacts
        <5>2. HasNone(u)' <=> HasNone(u)
          BY <5>1 DEF HasNone
        <5> QED BY <3>1, <5>1, <5>2 DEF IInv, PrioritySaved
      <4> QED BY <4>1, <4>2
    <3>2. nested' = nested
      BY <1>1, <1>2, <1>9, <2>3, TakenFacts
    <3> QED BY <1>1, <3>1, <3>2 DEF PrioritySaved
  <2> QED BY <1>4, <1>5, <1>6, <2>4, <2>5, <2>6 DEF IInv
<1> QED BY <1>8, <1>9 DEF TakeResumed

\* A waiter times out and leaves the list.
LEMMA TimeoutStep ==
    ASSUME IInv, NEW t \in Threads, rt_thread_timeout(t)
    PROVE  IInv'
PROOF
<1>1. /\ TypeOK /\ stat[t] = "suspend"
      /\ error' = [error EXCEPT ![t] = "ETIMEOUT"]
      /\ stat' = [stat EXCEPT ![t] = "ready"]
      /\ suspend_thread' = [m \in Mutexes |-> Unlink(suspend_thread[m], t)]
      /\ UNCHANGED <<value, owner, hold, original_priority, current_priority, call,
                     taken, outer, nested, alone>>
  BY DEF IInv, rt_thread_timeout, historyVars
<1>0. current_priority \in [Threads -> Nat]
  BY <1>1, PrioritiesNat
<1>2. ASSUME NEW m \in Mutexes
      PROVE  /\ suspend_thread'[m] \in Seq(Threads)
             /\ ToSet(suspend_thread'[m]) = ToSet(suspend_thread[m]) \ {t}
             /\ IsDuplicateFree(suspend_thread'[m])
             /\ suspend_thread'[m] # <<>> => suspend_thread[m] # <<>>
  <2> DEFINE l == suspend_thread[m]
  <2>1. l \in Seq(Threads) /\ IsDuplicateFree(l)
    BY <1>1 DEF IInv, ListsAgree, TypeOK
  <2>2. suspend_thread'[m] = Unlink(l, t)
    BY <1>1
  <2> HIDE DEF l
  <2>3. /\ Unlink(l, t) \in Seq(Threads)
        /\ ToSet(Unlink(l, t)) = ToSet(l) \ {t}
        /\ IsDuplicateFree(Unlink(l, t))
        /\ Unlink(l, t) # <<>> => l # <<>>
    BY <1>0, <2>1, UnlinkFacts
  <2> QED BY <2>2, <2>3 DEF l
<1>3. TypeOK'
  BY <1>1, <1>2 DEF TypeOK
<1>4. /\ stat'[t] = "ready" /\ error'[t] = "ETIMEOUT"
      /\ \A u \in Threads \ {t} : stat'[u] = stat[u] /\ error'[u] = error[u]
  BY <1>1 DEF TypeOK
<1>5. FieldsAgree'
  BY <1>1, <1>2 DEF IInv, FieldsAgree
<1>6. ListsAgree'
  <2>1. ASSUME NEW m \in Mutexes, NEW u \in Threads
        PROVE  /\ u \in ToSet(suspend_thread'[m]) <=> stat'[u] = "suspend" /\ call[u].mutex = m
               /\ u \in ToSet(suspend_thread'[m]) => owner[m] # u
    BY <1>2, <1>4 DEF IInv, ListsAgree
  <2> QED BY <1>1, <1>2, <2>1 DEF ListsAgree
<1>7. CallsAgree'
  BY <1>1, <1>4 DEF IInv, CallsAgree
<1>8. \A u \in Threads, n \in Mutexes : Handed(u, n)' <=> Handed(u, n)
  BY <1>1, <1>4 DEF Handed
<1>9. OwnerKnows'
  BY <1>1, <1>8 DEF IInv, OwnerKnows
<1>10. PrioritySaved'
  BY <1>1 DEF IInv, PrioritySaved, HasNone
<1> QED BY <1>3, <1>5, <1>6, <1>7, <1>9, <1>10 DEF IInv

\* The owner gives one of several takes back.
LEMMA ReleaseOnceStep ==
    ASSUME IInv, NEW t \in Threads, NEW m \in Mutexes, ReleaseOnce(t, m)
    PROVE  IInv'
PROOF
<1>1. /\ TypeOK /\ Running(t) /\ owner[m] = t /\ hold[m] > 1
      /\ hold' = [hold EXCEPT ![m] = @ - 1]
      /\ Released(t, m)
      /\ UNCHANGED <<value, owner, original_priority, suspend_thread, current_priority, stat,
                     error, call>>
  BY DEF IInv, ReleaseOnce
<1>2. MaxHold \in Nat /\ hold[m] \in 0 .. MaxHold /\ t # NoThread
  BY <1>1, MutexAssumption DEF TypeOK
<1>3. taken[t][m] = hold[m]
  BY <1>1, RunningFacts
<1>4. taken[t][m] > 0 /\ taken[t][m] > 1
  BY <1>1, <1>2, <1>3
<1>5. /\ hold' \in [Mutexes -> 0 .. MaxHold]
      /\ hold'[m] = hold[m] - 1
      /\ \A n \in Mutexes \ {m} : hold'[n] = hold[n]
  BY <1>1, <1>2 DEF TypeOK
<1>6. TypeOK'
  BY <1>1, <1>4, <1>5, ReleasedFacts DEF TypeOK
<1>7. FieldsAgree'
  BY <1>1, <1>2, <1>5 DEF IInv, FieldsAgree
<1>8. ListsAgree'
  BY <1>1 DEF IInv, ListsAgree
<1>9. CallsAgree'
  <2>1. ASSUME NEW u \in Threads, stat[u] = "ready", call[u].mutex # NoMutex, error[u] = "EOK"
        PROVE  call[u].mutex # m /\ call[u].mutex \in Mutexes
    BY <1>1, <2>1 DEF IInv, CallsAgree, TypeOK, Running, NoCall
  <2> QED BY <1>1, <1>5, <2>1 DEF IInv, CallsAgree
<1>10. OwnerKnows'
  <2>1. \A u \in Threads, n \in Mutexes : Handed(u, n)' <=> Handed(u, n)
    BY <1>1 DEF Handed
  <2>2. ASSUME NEW u \in Threads, NEW n \in Mutexes
        PROVE  taken'[u][n] = IF owner[n] = u /\ ~Handed(u, n) THEN hold'[n] ELSE 0
    <3>1. CASE u = t /\ n = m
      BY <1>1, <1>3, <1>4, <1>5, <3>1, ReleasedFacts, RunningFacts
    <3>2. CASE u = t /\ n # m
      BY <1>1, <1>4, <1>5, <3>2, ReleasedFacts DEF IInv, OwnerKnows
    <3>3. CASE u # t
      BY <1>1, <1>4, <1>5, <3>3, ReleasedFacts DEF IInv, OwnerKnows
    <3> QED BY <3>1, <3>2, <3>3
  <2> QED BY <1>1, <2>1, <2>2 DEF OwnerKnows
<1>11. PrioritySaved'
  <2>1. ASSUME NEW u \in Threads, NEW n \in Mutexes
        PROVE  taken'[u][n] > 0 <=> taken[u][n] > 0
    <3>1. taken[u][n] \in Nat
      BY <1>1, <1>2 DEF TypeOK
    <3>2. CASE u = t /\ n = m
      BY <1>1, <1>2, <1>3, <1>4, <3>1, <3>2, ReleasedFacts
    <3>3. CASE ~(u = t /\ n = m)
      BY <1>1, <1>4, <3>1, <3>3, ReleasedFacts
    <3> QED BY <3>2, <3>3
  <2>2. \A u \in Threads, n \in Mutexes : taken[u][n] \in Nat /\ taken'[u][n] \in Nat
    BY <1>1, <1>2, <1>6 DEF TypeOK
  <2>3. \A u \in Threads : HasNone(u)' <=> HasNone(u)
    BY <2>1, <2>2 DEF HasNone
  <2>4. \A u \in Threads : outer'[u] = outer[u] /\ (nested'[u] => nested[u])
    BY <1>1, <1>4, ReleasedFacts
  <2> QED BY <1>1, <2>1, <2>3, <2>4 DEF IInv, PrioritySaved
<1> QED BY <1>6, <1>7, <1>8, <1>9, <1>10, <1>11 DEF IInv

\* What the last release of m by t does for the saved priorities, whoever owns m next.
LEMMA RestoreFacts ==
    ASSUME IInv, NEW t \in Threads, NEW m \in Mutexes, Running(t), owner[m] = t, hold[m] = 1,
           Released(t, m), Restore(t, m)
    PROVE  /\ taken[t][m] = 1
           /\ current_priority' \in [Threads -> 0 .. 31]
           /\ \A u \in Threads \ {t} : current_priority'[u] = current_priority[u]
           /\ nested'[t] /\ HasNone(t)' => current_priority'[t] = Base[t]
           /\ nested'[t] /\ ~HasNone(t)' => /\ outer'[t] \in Mutexes \ {m}
                                            /\ taken'[t][outer'[t]] > 0
                                            /\ original_priority[outer'[t]] = Base[t]
PROOF
<1>1. TypeOK /\ t # NoThread
  BY MutexAssumption DEF IInv
<1>2. taken[t][m] = 1 /\ taken[t][m] > 0
  BY RunningFacts
<1>3. original_priority[m] \in 0 .. 31
  BY <1>1 DEF IInv, FieldsAgree
<1>4. /\ current_priority' \in [Threads -> 0 .. 31]
      /\ current_priority'[t] = original_priority[m]
      /\ \A u \in Threads \ {t} : current_priority'[u] = current_priority[u]
  BY <1>1, <1>3 DEF TypeOK, Restore
<1>5. ~HasNone(t)
  BY <1>2 DEF HasNone
<1>6. ASSUME nested[t]
      PROVE  outer[t] \in Mutexes /\ taken[t][outer[t]] > 0 /\ original_priority[outer[t]] = Base[t]
  BY <1>5, <1>6 DEF IInv, PrioritySaved
<1>7. ASSUME nested'[t], HasNone(t)' PROVE current_priority'[t] = Base[t]
  <2>1. nested[t]
    BY <1>1, <1>2, <1>7, ReleasedFacts
  <2>2. \A n \in Mutexes \ {m} : taken[t][n] = 0
    BY <1>1, <1>2, <1>7, ReleasedFacts DEF HasNone
  <2>3. outer[t] = m
    BY <1>6, <2>1, <2>2
  <2> QED BY <1>4, <1>6, <2>1, <2>3
<1>8. ASSUME nested'[t], ~HasNone(t)'
      PROVE  /\ outer'[t] \in Mutexes \ {m}
             /\ taken'[t][outer'[t]] > 0
             /\ original_priority[outer'[t]] = Base[t]
  <2>1. nested[t] /\ outer'[t] = outer[t] /\ outer[t] # m
    BY <1>1, <1>2, <1>8, ReleasedFacts
  <2>2. taken'[t][outer[t]] = taken[t][outer[t]]
    BY <1>1, <1>2, <1>6, <2>1, ReleasedFacts
  <2> QED BY <1>6, <2>1, <2>2
<1> QED BY <1>2, <1>4, <1>7, <1>8

\* The last release with nobody waiting.
LEMMA ReleaseFreeStep ==
    ASSUME IInv, NEW t \in Threads, NEW m \in Mutexes, ReleaseFree(t, m)
    PROVE  IInv'
PROOF
<1>1. /\ TypeOK /\ Running(t) /\ owner[m] = t /\ hold[m] = 1 /\ suspend_thread[m] = <<>>
      /\ Restore(t, m) /\ Released(t, m)
      /\ hold' = [hold EXCEPT ![m] = 0]
      /\ value' = [value EXCEPT ![m] = @ + 1]
      /\ owner' = [owner EXCEPT ![m] = NoThread]
      /\ original_priority' = [original_priority EXCEPT ![m] = 255]
      /\ UNCHANGED <<suspend_thread, stat, error, call>>
  BY DEF IInv, ReleaseFree
<1>2. MaxHold \in 1 .. 255 /\ t # NoThread /\ value[m] = 0
  BY <1>1, MutexAssumption DEF IInv, FieldsAgree
<1>3. taken[t][m] = 1 /\ taken[t][m] > 0
  BY <1>1, RestoreFacts
<1>4. /\ value'[m] = 1 /\ hold'[m] = 0 /\ owner'[m] = NoThread
      /\ \A n \in Mutexes \ {m} : /\ value'[n] = value[n] /\ hold'[n] = hold[n]
                                  /\ owner'[n] = owner[n]
                                  /\ original_priority'[n] = original_priority[n]
  BY <1>1, <1>2 DEF TypeOK
<1>5. TypeOK'
  <2>1. value' \in [Mutexes -> {0, 1}]
    BY <1>1, <1>2 DEF TypeOK
  <2>2. hold' \in [Mutexes -> 0 .. MaxHold]
    BY <1>1, <1>2 DEF TypeOK
  <2>3. /\ owner' \in [Mutexes -> Threads \cup {NoThread}]
        /\ original_priority' \in [Mutexes -> 0 .. 31 \cup {255}]
    BY <1>1 DEF TypeOK
  <2>4. current_priority' \in [Threads -> 0 .. 31]
    BY <1>1, RestoreFacts
  <2> QED BY <1>1, <1>3, <2>1, <2>2, <2>3, <2>4, ReleasedFacts DEF TypeOK
<1>6. FieldsAgree'
  BY <1>1, <1>4 DEF IInv, FieldsAgree
<1>7. ListsAgree'
  <2>1. ToSet(suspend_thread[m]) = {}
    BY <1>1 DEF ToSet
  <2> QED BY <1>1, <1>4, <2>1 DEF IInv, ListsAgree
<1>8. CallsAgree'
  <2>1. ASSUME NEW u \in Threads, stat[u] = "ready", call[u].mutex # NoMutex, error[u] = "EOK"
        PROVE  call[u].mutex # m /\ call[u].mutex \in Mutexes
    BY <1>1, <2>1 DEF IInv, CallsAgree, TypeOK, Running, NoCall
  <2> QED BY <1>1, <1>4, <2>1 DEF IInv, CallsAgree
<1>9. OwnerKnows'
  <2>1. ASSUME NEW u \in Threads, NEW n \in Mutexes
        PROVE  taken'[u][n] = IF owner'[n] = u /\ ~Handed(u, n)' THEN hold'[n] ELSE 0
    <3>1. CASE u = t /\ n = m
      BY <1>1, <1>2, <1>3, <1>4, <3>1, ReleasedFacts
    <3>2. CASE u # t /\ n = m
      <4>1. taken'[u][m] = taken[u][m]
        BY <1>1, <1>3, <3>2, ReleasedFacts
      <4> QED BY <1>1, <1>4, <3>2, <4>1 DEF IInv, OwnerKnows
    <3>3. CASE n # m
      <4>1. taken'[u][n] = taken[u][n]
        BY <1>1, <1>3, <3>3, ReleasedFacts
      <4>2. Handed(u, n)' <=> Handed(u, n)
        BY <1>1, <1>4, <3>3 DEF Handed
      <4> QED BY <1>4, <3>3, <4>1, <4>2 DEF IInv, OwnerKnows
    <3> QED BY <3>1, <3>2, <3>3
  <2> QED BY <2>1 DEF OwnerKnows
<1>10. PrioritySaved'
  <2>1. ASSUME NEW u \in Threads, nested'[u]
        PROVE /\ (\A n \in Mutexes : owner'[n] # u) => current_priority'[u] = Base[u]
              /\ ~HasNone(u)' => /\ outer'[u] \in Mutexes
                                 /\ taken'[u][outer'[u]] > 0
                                 /\ original_priority'[outer'[u]] = Base[u]
              /\ HasNone(u)' => \A n \in Mutexes : owner'[n] = u => original_priority'[n] = Base[u]
    <3>1. CASE u = t
      <4>1. HasNone(t)' => \A n \in Mutexes : owner'[n] # t
        <5>1. ASSUME HasNone(t)', NEW n \in Mutexes PROVE owner'[n] # t
          <6>1. CASE n = m
            BY <1>2, <1>4, <6>1
          <6>2. CASE n # m
            <7>1. taken[t][n] = 0
              BY <1>1, <1>3, <5>1, <6>2, ReleasedFacts DEF HasNone
            <7>2. owner[n] = t => hold[n] >= 1
              BY <1>2 DEF IInv, FieldsAgree
            <7>3. hold[n] \in Nat
              BY <1>1, <1>2 DEF TypeOK
            <7> QED BY <1>1, <1>4, <6>2, <7>1, <7>2, <7>3, RunningFacts
          <6> QED BY <6>1, <6>2
        <5> QED BY <5>1
      <4>2. (\A n \in Mutexes : owner'[n] # t) => HasNone(t)'
        BY <1>9 DEF OwnerKnows, HasNone
      <4>3. HasNone(t)' => current_priority'[t] = Base[t]
        BY <1>1, <2>1, <3>1, RestoreFacts
      <4>4. ~HasNone(t)' => /\ outer'[t] \in Mutexes \ {m}
                            /\ taken'[t][outer'[t]] > 0
                            /\ original_priority[outer'[t]] = Base[t]
        BY <1>1, <2>1, <3>1, RestoreFacts
      <4> QED BY <1>4, <3>1, <4>1, <4>2, <4>3, <4>4
    <3>2. CASE u # t
      <4>1. taken'[u] = taken[u] /\ outer'[u] = outer[u] /\ nested[u]
        BY <1>1, <1>3, <2>1, <3>2, ReleasedFacts
      <4>2. HasNone(u)' <=> HasNone(u)
        BY <4>1 DEF HasNone
      <4>3. taken[u][m] = 0
        BY <1>1, <3>2 DEF IInv, OwnerKnows
      <4>4. \A n \in Mutexes : owner'[n] = u <=> owner[n] = u
        BY <1>1, <1>4, <3>2, MutexAssumption
      <4>5. \A n \in Mutexes : owner[n] = u => n # m
        BY <1>1, <3>2
      <4>6. current_priority'[u] = current_priority[u]
        BY <1>1, <3>2, RestoreFacts
      <4> QED BY <1>4, <4>1, <4>2, <4>3, <4>4, <4>5, <4>6 DEF IInv, PrioritySaved
    <3> QED BY <3>1, <3>2
  <2> QED BY <2>1 DEF PrioritySaved
<1> QED BY <1>5, <1>6, <1>7, <1>8, <1>9, <1>10 DEF IInv

\* The last release with threads waiting: the first one owns the mutex before it runs.
LEMMA HandOverStep ==
    ASSUME IInv, NEW t \in Threads, NEW m \in Mutexes, HandOver(t, m)
    PROVE  IInv'
PROOF
<1>0. PICK next : next = Head(suspend_thread[m])
  OBVIOUS
<1>1. /\ TypeOK /\ Running(t) /\ owner[m] = t /\ hold[m] = 1 /\ suspend_thread[m] # <<>>
      /\ Restore(t, m) /\ Released(t, m)
      /\ owner' = [owner EXCEPT ![m] = next]
      /\ original_priority' = [original_priority EXCEPT ![m] = current_priority[next]]
      /\ suspend_thread' = [suspend_thread EXCEPT ![m] = Tail(@)]
      /\ stat' = [stat EXCEPT ![next] = "ready"]
      /\ UNCHANGED <<value, hold, error, call>>
  BY <1>0 DEF IInv, HandOver
<1>2. /\ next \in Threads /\ next \in ToSet(suspend_thread[m])
      /\ Tail(suspend_thread[m]) \in Seq(Threads)
      /\ ToSet(Tail(suspend_thread[m])) = ToSet(suspend_thread[m]) \ {next}
      /\ IsDuplicateFree(Tail(suspend_thread[m]))
  <2>1. suspend_thread[m] \in Seq(Threads) /\ IsDuplicateFree(suspend_thread[m])
    BY <1>1 DEF IInv, ListsAgree, TypeOK
  <2>2. current_priority \in [Threads -> Nat]
    BY <1>1, PrioritiesNat
  <2> QED BY <1>0, <1>1, <2>1, <2>2, TailFacts
<1>3. next # t /\ stat[next] = "suspend" /\ call[next].mutex = m /\ error[next] = "EOK"
  BY <1>1, <1>2, RunningFacts DEF IInv, ListsAgree, CallsAgree
<1>4. taken[t][m] = 1 /\ taken[t][m] > 0 /\ t # NoThread /\ next # NoThread
  BY <1>1, <1>2, RestoreFacts, MutexAssumption
<1>5. /\ owner'[m] = next /\ original_priority'[m] = current_priority[next]
      /\ suspend_thread'[m] = Tail(suspend_thread[m])
      /\ \A n \in Mutexes \ {m} : /\ owner'[n] = owner[n]
                                  /\ original_priority'[n] = original_priority[n]
                                  /\ suspend_thread'[n] = suspend_thread[n]
      /\ stat'[next] = "ready"
      /\ \A u \in Threads \ {next} : stat'[u] = stat[u]
  BY <1>1, <1>2 DEF TypeOK
<1>6. current_priority[next] \in 0 .. 31
  BY <1>1, <1>2 DEF TypeOK
<1>7. TypeOK'
  <2>1. /\ owner' \in [Mutexes -> Threads \cup {NoThread}]
        /\ suspend_thread' \in [Mutexes -> Seq(Threads)]
        /\ stat' \in [Threads -> {"ready", "suspend"}]
    BY <1>1, <1>2 DEF TypeOK
  <2>2. original_priority' \in [Mutexes -> 0 .. 31 \cup {255}]
    BY <1>1, <1>6 DEF TypeOK
  <2>3. current_priority' \in [Threads -> 0 .. 31]
    BY <1>1, RestoreFacts
  <2> QED BY <1>1, <1>4, <2>1, <2>2, <2>3, ReleasedFacts DEF TypeOK
<1>8. FieldsAgree'
  <2>1. ASSUME NEW n \in Mutexes
        PROVE  IF owner'[n] = NoThread
               THEN value[n] = 1 /\ hold[n] = 0 /\ suspend_thread'[n] = <<>>
               ELSE value[n] = 0 /\ hold[n] >= 1 /\ original_priority'[n] \in 0 .. 31
    <3>1. CASE n = m
      BY <1>1, <1>4, <1>5, <1>6, <3>1 DEF IInv, FieldsAgree
    <3>2. CASE n # m
      BY <1>5, <3>2 DEF IInv, FieldsAgree
    <3> QED BY <3>1, <3>2
  <2> QED BY <1>1, <2>1 DEF FieldsAgree
<1>9. ListsAgree'
  <2>1. ASSUME NEW n \in Mutexes, NEW u \in Threads
        PROVE  /\ u \in ToSet(suspend_thread'[n]) <=> stat'[u] = "suspend" /\ call[u].mutex = n
               /\ u \in ToSet(suspend_thread'[n]) => owner'[n] # u
    <3>1. CASE n = m
      <4>1. u \in ToSet(suspend_thread'[m]) <=> u \in ToSet(suspend_thread[m]) /\ u # next
        BY <1>2, <1>5
      <4> QED BY <1>3, <1>5, <3>1, <4>1 DEF IInv, ListsAgree
    <3>2. CASE n # m
      BY <1>3, <1>5, <3>2 DEF IInv, ListsAgree
    <3> QED BY <3>1, <3>2
  <2>2. \A n \in Mutexes : IsDuplicateFree(suspend_thread'[n])
    BY <1>2, <1>5 DEF IInv, ListsAgree
  <2> QED BY <1>1, <2>1, <2>2 DEF ListsAgree
<1>10. CallsAgree'
  <2>1. ASSUME NEW u \in Threads \ {next}, stat[u] = "ready", call[u].mutex # NoMutex, error[u] = "EOK"
        PROVE  call[u].mutex # m /\ call[u].mutex \in Mutexes
    BY <1>1, <2>1 DEF IInv, CallsAgree, TypeOK, Running, NoCall
  <2>2. ASSUME NEW u \in Threads
        PROVE  /\ call[u].mutex = NoMutex => call[u] = NoCall
               /\ stat'[u] = "suspend" => call[u].mutex # NoMutex /\ error[u] = "EOK"
               /\ stat'[u] = "ready" /\ call[u].mutex # NoMutex /\ error[u] = "EOK" =>
                     owner'[call[u].mutex] = u /\ hold[call[u].mutex] = 1
    <3>1. CASE u = next
      BY <1>1, <1>3, <1>5, <3>1, MutexAssumption
    <3>2. CASE u # next
      BY <1>5, <2>1, <3>2 DEF IInv, CallsAgree
    <3> QED BY <3>1, <3>2
  <2> QED BY <1>1, <2>2 DEF CallsAgree
<1>11. OwnerKnows'
  <2>1. ASSUME NEW u \in Threads, NEW n \in Mutexes
        PROVE  taken'[u][n] = IF owner'[n] = u /\ ~Handed(u, n)' THEN hold[n] ELSE 0
    <3>1. CASE u = t /\ n = m
      BY <1>1, <1>3, <1>4, <1>5, <3>1, ReleasedFacts
    <3>2. CASE u # t /\ n = m
      <4>1. taken'[u][m] = taken[u][m] /\ taken[u][m] = 0
        BY <1>1, <1>4, <3>2, ReleasedFacts DEF IInv, OwnerKnows
      <4>2. Handed(next, m)'
        BY <1>1, <1>3, <1>5 DEF Handed
      <4> QED BY <1>5, <3>2, <4>1, <4>2
    <3>3. CASE n # m
      <4>1. taken'[u][n] = taken[u][n]
        BY <1>1, <1>4, <3>3, ReleasedFacts
      <4>2. Handed(u, n)' <=> Handed(u, n)
        BY <1>1, <1>3, <1>5, <3>3 DEF Handed
      <4> QED BY <1>5, <3>3, <4>1, <4>2 DEF IInv, OwnerKnows
    <3> QED BY <3>1, <3>2, <3>3
  <2> QED BY <1>1, <2>1 DEF OwnerKnows
<1>12. PrioritySaved'
  <2>1. ASSUME NEW u \in Threads, nested'[u]
        PROVE /\ (\A n \in Mutexes : owner'[n] # u) => current_priority'[u] = Base[u]
              /\ ~HasNone(u)' => /\ outer'[u] \in Mutexes
                                 /\ taken'[u][outer'[u]] > 0
                                 /\ original_priority'[outer'[u]] = Base[u]
              /\ HasNone(u)' => \A n \in Mutexes : owner'[n] = u => original_priority'[n] = Base[u]
    <3>1. CASE u = t
      <4>1. HasNone(t)' => \A n \in Mutexes : owner'[n] # t
        <5>1. ASSUME HasNone(t)', NEW n \in Mutexes PROVE owner'[n] # t
          <6>1. CASE n = m
            BY <1>3, <1>5, <6>1
          <6>2. CASE n # m
            <7>1. taken[t][n] = 0
              BY <1>1, <1>4, <5>1, <6>2, ReleasedFacts DEF HasNone
            <7>2. owner[n] = t => hold[n] >= 1
              BY <1>4 DEF IInv, FieldsAgree
            <7>3. hold[n] \in Nat
              BY <1>1, MutexAssumption DEF TypeOK
            <7> QED BY <1>1, <1>5, <6>2, <7>1, <7>2, <7>3, RunningFacts
          <6> QED BY <6>1, <6>2
        <5> QED BY <5>1
      <4>2. (\A n \in Mutexes : owner'[n] # t) => HasNone(t)'
        BY <1>11 DEF OwnerKnows, HasNone
      <4>3. HasNone(t)' => current_priority'[t] = Base[t]
        BY <1>1, <2>1, <3>1, RestoreFacts
      <4>4. ~HasNone(t)' => /\ outer'[t] \in Mutexes \ {m}
                            /\ taken'[t][outer'[t]] > 0
                            /\ original_priority[outer'[t]] = Base[t]
        BY <1>1, <2>1, <3>1, RestoreFacts
      <4> QED BY <1>5, <3>1, <4>1, <4>2, <4>3, <4>4
    <3>2. CASE u # t
      <4>1. taken'[u] = taken[u] /\ outer'[u] = outer[u] /\ nested[u]
        BY <1>1, <1>4, <2>1, <3>2, ReleasedFacts
      <4>2. HasNone(u)' <=> HasNone(u)
        BY <4>1 DEF HasNone
      <4>3. taken[u][m] = 0
        BY <1>1, <3>2 DEF IInv, OwnerKnows
      <4>4. current_priority'[u] = current_priority[u]
        BY <1>1, <3>2, RestoreFacts
      <4>5. (\A n \in Mutexes : owner'[n] # u) => current_priority'[u] = Base[u]
        <5>1. ASSUME \A n \in Mutexes : owner'[n] # u PROVE \A n \in Mutexes : owner[n] # u
          BY <1>1, <1>5, <3>2, <5>1
        <5> QED BY <4>1, <4>4, <5>1 DEF IInv, PrioritySaved
      <4>6. ~HasNone(u)' => /\ outer'[u] \in Mutexes
                            /\ taken'[u][outer'[u]] > 0
                            /\ original_priority'[outer'[u]] = Base[u]
        BY <1>5, <4>1, <4>2, <4>3 DEF IInv, PrioritySaved
      <4>7. ASSUME HasNone(u)', NEW n \in Mutexes, owner'[n] = u
            PROVE  original_priority'[n] = Base[u]
        <5>1. CASE n # m
          BY <1>5, <4>1, <4>2, <4>7, <5>1 DEF IInv, PrioritySaved
        <5>2. CASE n = m
          <6>1. u = next
            BY <1>5, <4>7, <5>2
          <6>2. \A k \in Mutexes : owner[k] # u
            <7>1. ASSUME NEW k \in Mutexes, owner[k] = u PROVE FALSE
              <8>1. ~Handed(u, k) /\ taken[u][k] = 0
                BY <1>3, <4>2, <4>7, <6>1 DEF Handed, HasNone
              <8>2. hold[k] >= 1
                BY <1>4, <6>1, <7>1 DEF IInv, FieldsAgree
              <8>3. hold[k] = 0
                BY <7>1, <8>1 DEF IInv, OwnerKnows
              <8> QED BY <8>2, <8>3
            <7> QED BY <7>1
          <6>3. current_priority[u] = Base[u]
            BY <4>1, <6>2 DEF IInv, PrioritySaved
          <6> QED BY <1>5, <5>2, <6>1, <6>3
        <5> QED BY <5>1, <5>2
      <4> QED BY <4>5, <4>6, <4>7
    <3> QED BY <3>1, <3>2
  <2> QED BY <2>1 DEF PrioritySaved
<1> QED BY <1>7, <1>8, <1>9, <1>10, <1>11, <1>12 DEF IInv
-----------------------------------------------------------------------------
\* Every step of every thread keeps the invariant.
LEMMA IInvNext == IInv /\ [Next]_vars => IInv'
PROOF
<1> SUFFICES ASSUME IInv, [Next]_vars PROVE IInv'
  OBVIOUS
<1>1. CASE \E t \in Threads, m \in Mutexes, time \in Times : rt_mutex_take(t, m, time)
  BY <1>1, TakeAgainStep, TakeFreeStep, RefusedStep, TakeWaitsStep DEF rt_mutex_take
<1>2. CASE \E t \in Threads : TakeResumed(t)
  BY <1>2, TakeResumedStep
<1>3. CASE \E t \in Threads : rt_thread_timeout(t)
  BY <1>3, TimeoutStep
<1>4. CASE \E t \in Threads, m \in Mutexes : rt_mutex_release(t, m)
  BY <1>4, RefusedStep, ReleaseOnceStep, ReleaseFreeStep, HandOverStep DEF rt_mutex_release
<1>5. CASE UNCHANGED vars
  BY <1>5 DEF vars, IInv, TypeOK, FieldsAgree, ListsAgree, CallsAgree, OwnerKnows, Handed,
              PrioritySaved, HasNone
<1> QED BY <1>1, <1>2, <1>3, <1>4, <1>5 DEF Next

\* The fields of a mutex and its threads keep their types: value stays 0 or 1.
THEOREM MutexTypeCorrect == Spec => []TypeOK
PROOF
<1>1. IInv => TypeOK
  BY DEF IInv
<1> QED BY <1>1, IInvInit, IInvNext, PTL DEF Spec

\* Mutual exclusion: what rt_mutex_take and rt_mutex_release told the callers is what the
\* mutex says, through recursion, hand-over and timeouts.
THEOREM OwnersKnow == Spec => []OwnerKnows
PROOF
<1>1. IInv => OwnerKnows
  BY DEF IInv
<1> QED BY <1>1, IInvInit, IInvNext, PTL DEF Spec

\* No thread waits for a mutex that nobody has.
THEOREM NoWaiterIsForgotten == Spec => []NoWaiterForgotten
PROOF
<1>1. IInv => NoWaiterForgotten
  BY DEF IInv, FieldsAgree, ListsAgree, NoWaiterForgotten
<1> QED BY <1>1, IInvInit, IInvNext, PTL DEF Spec

\* The priority a thread inherited never stays with it, if it gives its outermost mutex
\* back last.
THEOREM PrioritiesAreRestored == Spec => []PriorityRestored
PROOF
<1>1. IInv => PriorityRestored
  BY DEF IInv, PrioritySaved, PriorityRestored
<1> QED BY <1>1, IInvInit, IInvNext, PTL DEF Spec

-----------------------------------------------------------------------------
(***************************************************************************)
(* Priority inheritance.  WaitersInherited survives a hand-over because    *)
(* the list is ordered for the waiters without a mutex (WaitersOrdered):   *)
(* nobody else can have made them more urgent while they waited, and the   *)
(* others only became more urgent.  A release that lowers the priority of  *)
(* a thread which keeps another mutex is excluded by OneMutex.             *)
(***************************************************************************)
WithoutMutex == {t \in Threads : HasNone(t)}

OneMutex ==
    \A t \in Threads : alone[t] =>
        \A m, n \in Mutexes : taken[t][m] > 0 /\ taken[t][n] > 0 => m = n

WaitersOrdered ==
    Flag = RT_IPC_FLAG_PRIO =>
        \A m \in Mutexes : IsPrioOrderedFor(suspend_thread[m], current_priority, WithoutMutex)

InheritInv == OneMutex /\ WaitersOrdered /\ WaitersInherited

\* The set the model names and the predicate of the proofs.
LEMMA HasNothing ==
    ASSUME TypeOK, NEW t \in Threads
    PROVE  Has(t) = {} <=> HasNone(t)
PROOF
<1>1. \A m \in Mutexes : taken[t][m] \in Nat
  BY MutexAssumption DEF TypeOK
<1> QED BY <1>1 DEF Has, HasNone

\* A waiter is a thread that sleeps in a call for that mutex.
LEMMA WaiterFacts ==
    ASSUME IInv, NEW m \in Mutexes, NEW w \in ToSet(suspend_thread[m])
    PROVE  /\ w \in Threads /\ stat[w] = "suspend"
           /\ owner[m] \in Threads /\ owner[m] # w
           /\ HasNone(w) => \A n \in Mutexes : owner[n] # w
PROOF
<1>1. w \in Threads
  BY DEF IInv, TypeOK, ToSet
<1>2. stat[w] = "suspend" /\ owner[m] # w
  BY <1>1 DEF IInv, ListsAgree
<1>3. owner[m] \in Threads
  <2>1. ToSet(<<>>) = {}
    BY DEF ToSet
  <2> QED BY <2>1 DEF IInv, FieldsAgree, TypeOK
<1>4. ASSUME HasNone(w), NEW n \in Mutexes, owner[n] = w PROVE FALSE
  <2>1. taken[w][n] = hold[n]
    BY <1>1, <1>2, <1>4 DEF IInv, OwnerKnows, Handed
  <2>2. hold[n] >= 1
    BY <1>1, <1>4, MutexAssumption DEF IInv, FieldsAgree
  <2> QED BY <1>4, <2>1, <2>2 DEF HasNone
<1> QED BY <1>1, <1>2, <1>3, <1>4

\* A take that succeeds leaves its caller with one mutex, or no longer alone.
LEMMA TakenAlone ==
    ASSUME TypeOK, OneMutex, NEW t \in Threads, NEW m \in Mutexes, taken[t][m] < MaxHold, Taken(t, m)
    PROVE  /\ OneMutex'
           /\ \A u \in Threads : alone'[u] => alone[u]
PROOF
<1>1. /\ \A n \in Mutexes \ {m} : taken'[t][n] = taken[t][n]
      /\ \A u \in Threads \ {t} : taken'[u] = taken[u]
  BY TakenFacts
<1>2. /\ alone'[t] => alone[t] /\ Has(t) \subseteq {m}
      /\ \A u \in Threads \ {t} : alone'[u] = alone[u]
  BY DEF Taken, TypeOK
<1>3. ASSUME alone'[t], NEW n \in Mutexes \ {m} PROVE ~(taken'[t][n] > 0)
  BY <1>1, <1>2, <1>3 DEF Has
<1>4. ASSUME NEW u \in Threads, alone'[u], NEW n \in Mutexes, NEW k \in Mutexes,
             taken'[u][n] > 0, taken'[u][k] > 0
      PROVE  n = k
  <2>1. CASE u = t
    BY <1>3, <1>4, <2>1
  <2>2. CASE u # t
    BY <1>1, <1>2, <1>4, <2>2 DEF OneMutex
  <2> QED BY <2>1, <2>2
<1> QED BY <1>2, <1>4 DEF OneMutex

\* A release leaves its caller without a mutex, or not alone unless it was alone before with
\* the mutex it keeps.
LEMMA ReleasedAlone ==
    ASSUME TypeOK, OneMutex, NEW t \in Threads, NEW m \in Mutexes, taken[t][m] > 0, Released(t, m)
    PROVE  /\ OneMutex'
           /\ \A u \in Threads \ {t} : alone'[u] = alone[u]
           /\ taken[t][m] > 1 => alone'[t] = alone[t]
           /\ taken[t][m] = 1 /\ ~HasNone(t)' => ~alone'[t]
PROOF
<1>0. \A u \in Threads, n \in Mutexes : taken[u][n] \in Nat
  BY MutexAssumption DEF TypeOK
<1>1. /\ taken'[t][m] = taken[t][m] - 1
      /\ \A n \in Mutexes \ {m} : taken'[t][n] = taken[t][n]
      /\ \A u \in Threads \ {t} : taken'[u] = taken[u]
  BY ReleasedFacts
<1>2. \A u \in Threads, n \in Mutexes : taken'[u][n] > 0 => taken[u][n] > 0
  BY <1>0, <1>1
<1>3. CASE taken[t][m] > 1
  <2>1. alone' = alone
    BY <1>0, <1>3 DEF Released
  <2> QED BY <1>0, <1>2, <1>3, <2>1 DEF OneMutex
<1>4. CASE taken[t][m] = 1 /\ Has(t) = {m}
  <2>1. \A u \in Threads \ {t} : alone'[u] = alone[u]
    BY <1>4 DEF Released, TypeOK
  <2>2. \A n \in Mutexes : taken'[t][n] = 0
    <3>1. \A n \in Mutexes \ {m} : ~(taken[t][n] > 0)
      BY <1>4 DEF Has
    <3> QED BY <1>0, <1>1, <1>4, <3>1
  <2>3. HasNone(t)'
    BY <2>2 DEF HasNone
  <2> QED BY <1>2, <1>4, <2>1, <2>2, <2>3 DEF OneMutex
<1>5. CASE taken[t][m] = 1 /\ Has(t) # {m}
  <2>1. alone' = alone
    BY <1>5 DEF Released
  <2>2. PICK n \in Mutexes \ {m} : taken[t][n] > 0
    BY <1>5 DEF Has
  <2>3. ~alone[t]
    BY <1>5, <2>2 DEF OneMutex
  <2> QED BY <1>2, <1>5, <2>1, <2>3 DEF OneMutex
<1> QED BY <1>0, <1>3, <1>4, <1>5

\* Steps that leave the waiting lists and the priorities alone: a mutex gains an owner only
\* when nobody waits for it.
LEMMA QuietStep ==
    ASSUME IInv, TypeOK', InheritInv, OneMutex', UNCHANGED <<suspend_thread, current_priority>>,
           \A w \in Threads : stat[w] = "suspend" => taken'[w] = taken[w],
           \A u \in Threads : alone'[u] => alone[u],
           \A m \in Mutexes : owner[m] # NoThread => owner'[m] = owner[m]
    PROVE  InheritInv'
PROOF
<1>1. \A w \in Threads : stat[w] = "suspend" => (HasNone(w)' <=> HasNone(w))
  BY DEF HasNone
<1>2. ASSUME Flag = RT_IPC_FLAG_PRIO, NEW m \in Mutexes
      PROVE  IsPrioOrderedFor(suspend_thread[m], current_priority, WithoutMutex')
  <2>1. ASSUME NEW i \in DOMAIN suspend_thread[m],
               suspend_thread[m][i] \in WithoutMutex'
        PROVE  suspend_thread[m][i] \in WithoutMutex
    <3>1. suspend_thread[m][i] \in ToSet(suspend_thread[m])
      BY DEF ToSet
    <3> QED BY <1>1, <2>1, <3>1, WaiterFacts DEF WithoutMutex
  <2>2. IsPrioOrderedFor(suspend_thread[m], current_priority, WithoutMutex)
    BY <1>2 DEF InheritInv, WaitersOrdered
  <2> QED BY <2>1, <2>2 DEF IsPrioOrderedFor
<1>3. ASSUME Flag = RT_IPC_FLAG_PRIO, NEW m \in Mutexes, NEW w \in Threads,
             w \in ToSet(suspend_thread'[m]), Has(w)' = {}, alone'[owner'[m]],
             \A n \in Mutexes \ {m} : owner'[n] # owner'[m]
      PROVE  current_priority'[owner'[m]] <= current_priority'[w]
  <2>1. w \in ToSet(suspend_thread[m])
    BY <1>3
  <2>2. owner[m] \in Threads /\ owner[m] # NoThread /\ stat[w] = "suspend"
    BY <2>1, WaiterFacts, MutexAssumption
  <2>3. owner'[m] = owner[m] /\ alone[owner[m]]
    BY <1>3, <2>2
  <2>4. \A n \in Mutexes \ {m} : owner[n] # owner[m]
    BY <1>3, <2>2, <2>3
  <2>5. Has(w) = {}
    <3>1. taken'[w] = taken[w]
      BY <2>2
    <3> QED BY <1>3, <3>1 DEF Has
  <2> QED BY <1>3, <2>1, <2>3, <2>4, <2>5 DEF InheritInv, WaitersInherited
<1>4. WaitersOrdered'
  BY <1>2 DEF WaitersOrdered
<1>5. WaitersInherited'
  BY <1>3 DEF WaitersInherited
<1> QED BY <1>4, <1>5 DEF InheritInv

\* A waiter of S keeps its priority and the others only become more urgent: the order holds.
LEMMA RaisedOrder ==
    ASSUME NEW l \in Seq(Threads), NEW p \in [Threads -> Nat], NEW q \in [Threads -> Nat], NEW S,
           IsPrioOrderedFor(l, p, S),
           \A w \in ToSet(l) : q[w] <= p[w] /\ (w \in S => q[w] = p[w])
    PROVE  IsPrioOrderedFor(l, q, S)
PROOF
<1>1. ASSUME NEW i \in DOMAIN l, NEW j \in DOMAIN l, i < j, l[j] \in S
      PROVE  q[l[i]] <= q[l[j]]
  <2>1. l[i] \in Threads /\ l[j] \in Threads /\ l[i] \in ToSet(l) /\ l[j] \in ToSet(l)
    BY DEF ToSet
  <2>2. p[l[i]] <= p[l[j]] /\ q[l[i]] <= p[l[i]] /\ q[l[j]] = p[l[j]]
    BY <1>1, <2>1 DEF IsPrioOrderedFor
  <2>3. p[l[i]] \in Nat /\ p[l[j]] \in Nat /\ q[l[i]] \in Nat
    BY <2>1
  <2> QED BY <2>2, <2>3
<1> QED BY <1>1 DEF IsPrioOrderedFor

\* A caller that waits makes the owner at least as urgent as itself.
LEMMA TakeWaitsInherits ==
    ASSUME IInv, IInv', InheritInv, NEW t \in Threads, NEW m \in Mutexes, NEW time \in Times,
           TakeWaits(t, m, time)
    PROVE  InheritInv'
PROOF
<1> DEFINE o == owner[m]
<1>1. /\ TypeOK /\ TypeOK' /\ Running(t) /\ owner[m] # t /\ value[m] = 0 /\ Inherit(t, m)
      /\ suspend_thread' = [suspend_thread EXCEPT
                               ![m] = rt_ipc_list_suspend(@, t, Flag, current_priority)]
      /\ UNCHANGED <<owner, taken, alone>>
  BY DEF IInv, TakeWaits, historyVars
<1>2. o \in Threads /\ o # t
  BY <1>1 DEF IInv, FieldsAgree, TypeOK
<1>3. current_priority \in [Threads -> Nat] /\ current_priority' \in [Threads -> Nat]
  <2>1. 0 .. 31 \subseteq Nat
    OBVIOUS
  <2>2. current_priority' \in [Threads -> 0 .. 31]
    BY <1>1 DEF TypeOK
  <2>3. current_priority' \in [Threads -> Nat]
    BY <2>1, <2>2, Zenon
  <2> QED BY <1>1, <2>3, PrioritiesNat
<1>4. /\ current_priority'[o] <= current_priority[o] /\ current_priority'[o] <= current_priority[t]
      /\ \A u \in Threads \ {o} : current_priority'[u] = current_priority[u]
  BY <1>1, <1>2, <1>3 DEF Inherit
<1>5. \A u \in Threads : current_priority'[u] <= current_priority[u]
  BY <1>2, <1>3, <1>4
<1>6. /\ suspend_thread'[m] = rt_ipc_list_suspend(suspend_thread[m], t, Flag, current_priority)
      /\ \A n \in Mutexes \ {m} : suspend_thread'[n] = suspend_thread[n]
      /\ \A n \in Mutexes : suspend_thread[n] \in Seq(Threads) /\ suspend_thread'[n] \in Seq(Threads)
  BY <1>1 DEF TypeOK
<1>7. /\ ToSet(suspend_thread'[m]) = ToSet(suspend_thread[m]) \cup {t}
  BY <1>3, <1>6, SuspendFacts, MutexAssumption
<1>8. WithoutMutex' = WithoutMutex /\ \A w \in Threads : Has(w)' = Has(w)
  BY <1>1 DEF WithoutMutex, HasNone, Has
<1>9. ASSUME NEW n \in Mutexes, NEW w \in ToSet(suspend_thread'[n])
      PROVE  w \in Threads /\ (w \in WithoutMutex => w # o)
  <2>1. CASE w \in ToSet(suspend_thread[n])
    <3>1. w \in Threads /\ (HasNone(w) => owner[m] # w)
      BY <2>1, WaiterFacts
    <3> QED BY <3>1 DEF WithoutMutex
  <2>2. CASE w \notin ToSet(suspend_thread[n])
    <3>1. w = t
      BY <1>6, <1>7, <1>9, <2>2
    <3> QED BY <1>2, <3>1
  <2> QED BY <2>1, <2>2
<1>10. WaitersOrdered'
  <2>1. ASSUME Flag = RT_IPC_FLAG_PRIO, NEW n \in Mutexes
        PROVE  IsPrioOrderedFor(suspend_thread'[n], current_priority', WithoutMutex)
    <3>1. IsPrioOrderedFor(suspend_thread[n], current_priority, WithoutMutex)
      BY <2>1 DEF InheritInv, WaitersOrdered
    <3>2. IsPrioOrderedFor(suspend_thread'[n], current_priority, WithoutMutex)
      <4>1. CASE n = m
        BY <1>3, <1>6, <2>1, <3>1, <4>1, SuspendOrderedFor
      <4>2. CASE n # m
        BY <1>6, <3>1, <4>2
      <4> QED BY <4>1, <4>2
    <3>3. \A w \in ToSet(suspend_thread'[n]) :
             /\ current_priority'[w] <= current_priority[w]
             /\ w \in WithoutMutex => current_priority'[w] = current_priority[w]
      BY <1>4, <1>5, <1>9
    <3> QED BY <1>3, <1>6, <3>2, <3>3, RaisedOrder
  <2> QED BY <1>8, <2>1 DEF WaitersOrdered
<1>11. WaitersInherited'
  <2>1. ASSUME Flag = RT_IPC_FLAG_PRIO, NEW n \in Mutexes, NEW w \in Threads,
               w \in ToSet(suspend_thread'[n]), Has(w) = {}, alone[owner[n]],
               \A k \in Mutexes \ {n} : owner[k] # owner[n]
        PROVE  current_priority'[owner[n]] <= current_priority'[w]
    <3>1. current_priority'[w] = current_priority[w]
      <4>1. w \in WithoutMutex
        BY <1>1, <2>1, HasNothing DEF WithoutMutex
      <4> QED BY <1>4, <1>9, <2>1, <4>1
    <3>2. CASE w \in ToSet(suspend_thread[n])
      <4>1. current_priority[owner[n]] <= current_priority[w]
        BY <2>1, <3>2 DEF InheritInv, WaitersInherited
      <4>2. owner[n] \in Threads
        BY <3>2, WaiterFacts
      <4>3. current_priority'[owner[n]] <= current_priority[owner[n]]
        BY <1>5, <4>2
      <4>4. /\ current_priority'[owner[n]] \in Nat /\ current_priority[owner[n]] \in Nat
            /\ current_priority[w] \in Nat
        BY <1>3, <4>2
      <4> QED BY <3>1, <4>1, <4>3, <4>4
    <3>3. CASE w \notin ToSet(suspend_thread[n])
      <4>1. w = t /\ n = m
        BY <1>6, <1>7, <2>1, <3>3
      <4> QED BY <1>4, <3>1, <4>1
    <3> QED BY <3>2, <3>3
  <2> QED BY <1>1, <1>8, <2>1 DEF WaitersInherited
<1>12. OneMutex'
  BY <1>1 DEF InheritInv, OneMutex
<1> QED BY <1>10, <1>11, <1>12 DEF InheritInv

\* A waiter that gives up leaves the others in their order, and the owner what it inherited.
LEMMA TimeoutInherits ==
    ASSUME IInv, InheritInv, NEW t \in Threads, rt_thread_timeout(t)
    PROVE  InheritInv'
PROOF
<1>1. /\ suspend_thread' = [m \in Mutexes |-> Unlink(suspend_thread[m], t)]
      /\ UNCHANGED <<owner, current_priority, taken, alone>>
  BY DEF rt_thread_timeout, historyVars
<1>2. \A m \in Mutexes : suspend_thread[m] \in Seq(Threads) /\ IsDuplicateFree(suspend_thread[m])
  BY DEF IInv, TypeOK, ListsAgree
<1>3. \A m \in Mutexes : suspend_thread'[m] = Unlink(suspend_thread[m], t)
  BY <1>1
<1>4. \A m \in Mutexes : ToSet(suspend_thread'[m]) \subseteq ToSet(suspend_thread[m])
  <2>1. current_priority \in [Threads -> Nat]
    BY PrioritiesNat DEF IInv
  <2> QED BY <1>2, <1>3, <2>1, UnlinkFacts
<1>5. WithoutMutex' = WithoutMutex /\ \A w \in Threads : Has(w)' = Has(w)
  BY <1>1 DEF WithoutMutex, HasNone, Has
<1>6. WaitersOrdered'
  <2>1. ASSUME Flag = RT_IPC_FLAG_PRIO, NEW m \in Mutexes
        PROVE  IsPrioOrderedFor(suspend_thread'[m], current_priority, WithoutMutex)
    <3>1. IsPrioOrderedFor(suspend_thread[m], current_priority, WithoutMutex)
      BY <2>1 DEF InheritInv, WaitersOrdered
    <3>2. IsPrioOrderedFor(Unlink(suspend_thread[m], t), current_priority, WithoutMutex)
      BY <1>2, <3>1, UnlinkOrderedFor
    <3> QED BY <1>3, <3>2
  <2> QED BY <1>1, <1>5, <2>1 DEF WaitersOrdered
<1>7. WaitersInherited'
  BY <1>1, <1>4, <1>5 DEF InheritInv, WaitersInherited
<1>8. OneMutex'
  BY <1>1 DEF InheritInv, OneMutex
<1> QED BY <1>6, <1>7, <1>8 DEF InheritInv

\* The last release of a mutex: its owner falls back to a lower priority, and the first waiter,
\* if there is one, is urgent enough for those behind it.
LEMMA LastReleaseInherits ==
    ASSUME IInv, IInv', InheritInv, NEW t \in Threads, NEW m \in Mutexes,
           ReleaseFree(t, m) \/ HandOver(t, m)
    PROVE  InheritInv'
PROOF
<1>1. /\ TypeOK /\ Running(t) /\ owner[m] = t /\ hold[m] = 1
      /\ Restore(t, m) /\ Released(t, m)
  BY DEF IInv, ReleaseFree, HandOver
<1>2. \A n \in Mutexes \ {m} : owner'[n] = owner[n] /\ suspend_thread'[n] = suspend_thread[n]
  BY <1>1 DEF ReleaseFree, HandOver, TypeOK
<1>3. \/ suspend_thread[m] = <<>> /\ suspend_thread'[m] = <<>>
      \/ /\ suspend_thread[m] # <<>> /\ suspend_thread'[m] = Tail(suspend_thread[m])
         /\ owner'[m] = Head(suspend_thread[m])
  BY <1>1 DEF ReleaseFree, HandOver, TypeOK
<1>4. taken[t][m] = 1 /\ \A u \in Threads \ {t} : current_priority'[u] = current_priority[u]
  BY <1>1, RestoreFacts
<1>5. /\ OneMutex'
      /\ \A u \in Threads \ {t} : alone'[u] = alone[u]
      /\ ~HasNone(t)' => ~alone'[t]
  BY <1>1, <1>4, ReleasedAlone DEF InheritInv
<1>6. /\ \A n \in Mutexes \ {m} : taken'[t][n] = taken[t][n]
      /\ \A u \in Threads \ {t} : taken'[u] = taken[u]
  BY <1>1, <1>4, ReleasedFacts
<1>7. ASSUME NEW n \in Mutexes
      PROVE  ToSet(suspend_thread'[n]) \subseteq ToSet(suspend_thread[n])
  <2>1. CASE n # m \/ suspend_thread[m] = <<>>
    BY <1>2, <1>3, <2>1
  <2>2. CASE n = m /\ suspend_thread[m] # <<>>
    <3>1. suspend_thread[m] \in Seq(Threads) /\ IsDuplicateFree(suspend_thread[m])
      BY <1>1 DEF TypeOK, IInv, ListsAgree
    <3>2. current_priority \in [Threads -> Nat]
      BY <1>1, PrioritiesNat
    <3> QED BY <1>3, <2>2, <3>1, <3>2, TailFacts
  <2> QED BY <2>1, <2>2
<1>8. ASSUME NEW n \in Mutexes, NEW w \in ToSet(suspend_thread'[n])
      PROVE  /\ w \in ToSet(suspend_thread[n]) /\ w \in Threads /\ w # t
             /\ current_priority'[w] = current_priority[w]
             /\ w \in WithoutMutex' <=> w \in WithoutMutex
             /\ Has(w)' = Has(w)
  <2>1. w \in ToSet(suspend_thread[n]) /\ w \in Threads
    BY <1>7, WaiterFacts
  <2>2. w # t
    BY <1>1, <2>1, RunningFacts
  <2>3. taken'[w] = taken[w] /\ current_priority'[w] = current_priority[w]
    BY <1>4, <1>6, <2>1, <2>2
  <2> QED BY <2>1, <2>2, <2>3 DEF WithoutMutex, HasNone, Has
<1>9. ASSUME Flag = RT_IPC_FLAG_PRIO, NEW n \in Mutexes
      PROVE  IsPrioOrderedFor(suspend_thread'[n], current_priority', WithoutMutex')
  <2>1. IsPrioOrderedFor(suspend_thread[n], current_priority, WithoutMutex)
    BY <1>9 DEF InheritInv, WaitersOrdered
  <2>2. IsPrioOrderedFor(suspend_thread'[n], current_priority, WithoutMutex)
    <3>1. CASE n # m \/ suspend_thread[m] = <<>>
      BY <1>2, <1>3, <2>1, <3>1
    <3>2. CASE n = m /\ suspend_thread[m] # <<>>
      <4>1. suspend_thread[m] \in Seq(Threads)
        BY <1>1 DEF TypeOK
      <4>2. IsPrioOrderedFor(Tail(suspend_thread[m]), current_priority, WithoutMutex)
        BY <2>1, <3>2, <4>1, TailOrderedFor
      <4> QED BY <1>3, <3>2, <4>2
    <3> QED BY <3>1, <3>2
  <2>3. \A i \in DOMAIN suspend_thread'[n] : suspend_thread'[n][i] \in ToSet(suspend_thread'[n])
    BY DEF ToSet
  <2> QED BY <1>8, <2>2, <2>3 DEF IsPrioOrderedFor
<1>10. ASSUME Flag = RT_IPC_FLAG_PRIO, NEW n \in Mutexes, NEW w \in Threads,
              w \in ToSet(suspend_thread'[n]), Has(w)' = {}, alone'[owner'[n]],
              \A k \in Mutexes \ {n} : owner'[k] # owner'[n]
       PROVE  current_priority'[owner'[n]] <= current_priority'[w]
  <2>1. w \in WithoutMutex /\ Has(w) = {}
    BY <1>1, <1>8, <1>10, HasNothing DEF WithoutMutex
  <2>2. CASE n = m
    <3>1. suspend_thread[m] # <<>> /\ owner'[m] = Head(suspend_thread[m])
          /\ suspend_thread'[m] = Tail(suspend_thread[m])
      <4>1. ToSet(<<>>) = {}
        BY DEF ToSet
      <4> QED BY <1>3, <1>10, <2>2, <4>1
    <3>2. IsPrioOrderedFor(suspend_thread[m], current_priority, WithoutMutex)
      BY <1>10 DEF InheritInv, WaitersOrdered
    <3>3. suspend_thread[m] \in Seq(Threads)
      BY <1>1 DEF TypeOK
    <3>4. current_priority[Head(suspend_thread[m])] <= current_priority[w]
      BY <1>10, <2>1, <2>2, <3>1, <3>2, <3>3, TailOrderedFor
    <3>5. Head(suspend_thread[m]) \in ToSet(suspend_thread[m])
      BY <3>1, <3>3 DEF ToSet
    <3>6. Head(suspend_thread[m]) # t /\ Head(suspend_thread[m]) \in Threads
      BY <1>1, <3>5, RunningFacts, WaiterFacts
    <3> QED BY <1>4, <1>8, <1>10, <2>2, <3>1, <3>4, <3>6
  <2>3. CASE n # m
    <3>1. owner'[n] = owner[n] /\ w \in ToSet(suspend_thread[n])
      BY <1>2, <1>8, <1>10, <2>3
    <3>2. owner[n] \in Threads
      BY <3>1, WaiterFacts
    <3>3. owner[n] # t
      <4>1. SUFFICES ASSUME owner[n] = t PROVE FALSE
        OBVIOUS
      <4>2. taken[t][n] = hold[n] /\ hold[n] >= 1
        BY <1>1, <3>2, <4>1, RunningFacts, MutexAssumption DEF IInv, FieldsAgree
      <4>3. ~HasNone(t)'
        BY <1>6, <2>3, <4>2 DEF HasNone
      <4> QED BY <1>5, <1>10, <3>1, <4>1, <4>3
    <3>4. alone[owner[n]]
      BY <1>5, <1>10, <3>1, <3>2, <3>3
    <3>5. \A k \in Mutexes \ {n} : owner[k] # owner[n]
      BY <1>1, <1>2, <1>10, <3>1, <3>3
    <3>6. current_priority[owner[n]] <= current_priority[w]
      BY <1>10, <2>1, <3>1, <3>4, <3>5 DEF InheritInv, WaitersInherited
    <3> QED BY <1>4, <1>8, <1>10, <3>1, <3>2, <3>3, <3>6
  <2> QED BY <2>2, <2>3
<1>11. WaitersOrdered'
  BY <1>9 DEF WaitersOrdered
<1>12. WaitersInherited'
  BY <1>10 DEF WaitersInherited
<1> QED BY <1>5, <1>11, <1>12 DEF InheritInv

\* Every step keeps the priority inheritance.
LEMMA InheritNext == IInv /\ IInv' /\ InheritInv /\ [Next]_vars => InheritInv'
PROOF
<1> SUFFICES ASSUME IInv, IInv', InheritInv, [Next]_vars PROVE InheritInv'
  OBVIOUS
<1>0. TypeOK /\ TypeOK' /\ OneMutex
  BY DEF IInv, InheritInv
<1>1. ASSUME NEW t \in Threads, NEW m \in Mutexes, TakeAgain(t, m) \/ TakeFree(t, m)
      PROVE  InheritInv'
  <2>1. /\ Running(t) /\ Taken(t, m) /\ UNCHANGED <<suspend_thread, current_priority>>
        /\ \A n \in Mutexes : owner[n] # NoThread => owner'[n] = owner[n]
    <3>1. TakeFree(t, m) => owner[m] = NoThread
      BY DEF TakeFree, IInv, FieldsAgree
    <3> QED BY <1>0, <1>1, <3>1 DEF TakeAgain, TakeFree, TypeOK
  <2>2. taken[t][m] < MaxHold
    <3>1. taken[t][m] = IF owner[m] = t THEN hold[m] ELSE 0
      BY <2>1, RunningFacts
    <3>2. owner[m] = t => hold[m] < MaxHold
      BY <1>1 DEF TakeAgain, TakeFree
    <3> QED BY <3>1, <3>2, MutexAssumption
  <2>3. OneMutex' /\ \A u \in Threads : alone'[u] => alone[u]
    BY <1>0, <2>1, <2>2, TakenAlone
  <2>4. \A w \in Threads : stat[w] = "suspend" => taken'[w] = taken[w]
    BY <1>0, <2>1, <2>2, TakenFacts DEF Running
  <2> QED BY <1>0, <2>1, <2>3, <2>4, QuietStep
<1>2. ASSUME NEW t \in Threads, NEW m \in Mutexes, TakeRefused(t, m) \/ ReleaseRefused(t, m)
      PROVE  InheritInv'
  <2>1. UNCHANGED <<owner, suspend_thread, current_priority, taken, alone>>
    BY <1>2 DEF TakeRefused, ReleaseRefused, mutexVars, historyVars
  <2>2. OneMutex'
    BY <1>0, <2>1 DEF OneMutex
  <2> QED BY <1>0, <2>1, <2>2, QuietStep
<1>3. ASSUME NEW t \in Threads, TakeResumed(t)
      PROVE  InheritInv'
  <2>1. /\ stat[t] = "ready" /\ call[t] # NoCall
        /\ UNCHANGED <<owner, suspend_thread, current_priority>>
    BY <1>3 DEF TakeResumed, mutexVars
  <2>2. CASE error[t] # "EOK"
    <3>1. UNCHANGED <<taken, alone>>
      BY <1>3, <2>2 DEF TakeResumed, historyVars
    <3>2. OneMutex'
      BY <1>0, <3>1 DEF OneMutex
    <3> QED BY <1>0, <2>1, <3>1, <3>2, QuietStep
  <2>3. CASE error[t] = "EOK"
    <3> DEFINE m == call[t].mutex
    <3>1. Taken(t, m)
      BY <1>3, <2>3 DEF TakeResumed
    <3>2. m \in Mutexes /\ owner[m] = t /\ hold[m] = 1
      BY <1>0, <2>1, <2>3 DEF IInv, CallsAgree, TypeOK
    <3>3. taken[t][m] < MaxHold
      <4>1. taken[t][m] = 0
        BY <2>1, <2>3, <3>2 DEF IInv, OwnerKnows, Handed
      <4> QED BY <4>1, MutexAssumption
    <3> HIDE DEF m
    <3>4. OneMutex' /\ \A u \in Threads : alone'[u] => alone[u]
      BY <1>0, <3>1, <3>2, <3>3, TakenAlone
    <3>5. \A w \in Threads : stat[w] = "suspend" => taken'[w] = taken[w]
      BY <1>0, <2>1, <3>1, <3>2, <3>3, TakenFacts
    <3> QED BY <1>0, <2>1, <3>4, <3>5, QuietStep
  <2> QED BY <2>2, <2>3
<1>4. ASSUME NEW t \in Threads, NEW m \in Mutexes, ReleaseOnce(t, m)
      PROVE  InheritInv'
  <2>1. /\ Running(t) /\ owner[m] = t /\ hold[m] > 1 /\ Released(t, m)
        /\ UNCHANGED <<owner, suspend_thread, current_priority>>
    BY <1>4 DEF ReleaseOnce
  <2>2. taken[t][m] > 1 /\ taken[t][m] > 0
    <3>1. taken[t][m] = hold[m] /\ hold[m] \in Nat
      BY <1>0, <2>1, RunningFacts, MutexAssumption DEF TypeOK
    <3> QED BY <2>1, <3>1
  <2>3. OneMutex' /\ \A u \in Threads : alone'[u] = alone[u]
    BY <1>0, <2>1, <2>2, ReleasedAlone
  <2>4. \A w \in Threads : stat[w] = "suspend" => taken'[w] = taken[w]
    BY <1>0, <2>1, <2>2, ReleasedFacts DEF Running
  <2> QED BY <1>0, <2>1, <2>3, <2>4, QuietStep
<1>5. ASSUME UNCHANGED vars PROVE InheritInv'
  <2>1. UNCHANGED <<owner, suspend_thread, current_priority, taken, alone>>
    BY <1>5 DEF vars
  <2>2. OneMutex'
    BY <1>0, <2>1 DEF OneMutex
  <2> QED BY <1>0, <2>1, <2>2, QuietStep
<1>6. CASE \E t \in Threads, m \in Mutexes, time \in Times : rt_mutex_take(t, m, time)
  BY <1>1, <1>2, <1>6, TakeWaitsInherits DEF rt_mutex_take
<1>7. CASE \E t \in Threads, m \in Mutexes : rt_mutex_release(t, m)
  BY <1>2, <1>4, <1>7, LastReleaseInherits DEF rt_mutex_release
<1> QED BY <1>3, <1>5, <1>6, <1>7, TimeoutInherits DEF Next

\* Priority inheritance without inversion: an owner of one mutex is at least as urgent as every
\* waiter that has none, through waits, timeouts, recursion and hand-overs, for any threads,
\* mutexes and priorities.
THEOREM WaitersAreInherited == Spec => []WaitersInherited
PROOF
<1>1. Init => InheritInv
  <2> SUFFICES ASSUME Init PROVE InheritInv
    OBVIOUS
  <2>1. OneMutex
    BY DEF Init, OneMutex
  <2>2. \A m \in Mutexes : suspend_thread[m] = <<>> /\ DOMAIN suspend_thread[m] = {}
    BY DEF Init
  <2>3. \A m \in Mutexes : ToSet(suspend_thread[m]) = {}
    BY <2>2 DEF ToSet
  <2> QED BY <2>1, <2>2, <2>3 DEF InheritInv, WaitersOrdered, WaitersInherited, IsPrioOrderedFor
<1>2. InheritInv => WaitersInherited
  BY DEF InheritInv
<1> QED BY <1>1, <1>2, IInvInit, IInvNext, InheritNext, PTL DEF Spec
=============================================================================
