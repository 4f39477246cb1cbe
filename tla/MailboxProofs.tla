--------------------------- MODULE MailboxProofs ---------------------------
(***************************************************************************)
(* Theorems about Mailbox for any number of threads, any priorities, any   *)
(* capacity and any timeouts.                                              *)
(*                                                                         *)
(* The inductive invariant IInv adds to the checked properties what they   *)
(* silently rely on: a suspended thread has thread->error = RT_EOK (so     *)
(* resuming it always counts as a wake-up), and the two clocks of a call   *)
(* add up to the caller's timeout at every moment, not only while it       *)
(* sleeps.                                                                 *)
(* The order of a list survives the inheritance of priorities because      *)
(* these only become more urgent while a thread waits.                     *)
(***************************************************************************)
EXTENDS MailboxRefinement, IpcListProofs, FiniteSetTheorems

\* thread->error is RT_EOK while a thread is suspended.
ErrorsReset == \A t \in Threads : stat[t] = "suspend" => error[t] = "EOK"

\* Only sleepers count as raised while waiting.
RaisedSleep == \A t \in raised : stat[t] = "suspend"

\* Every call in progress: a sender has its mail, the clocks add up.
CallOK(c) ==
    c.op # "none" =>
        /\ c.op = "send" => c.value \in Values
        /\ c.timeout # 0
        /\ c.timeout > 0 <=> c.limit > 0
        /\ c.limit > 0 => c.since <= c.timeout /\ c.age + (c.timeout - c.since) = c.limit

CallsOK == \A t \in Threads : CallOK(call[t])

IInv ==
    /\ TypeOK
    /\ RingConsistent
    /\ ListsMatchStates
    /\ ErrorsReset
    /\ CallsOK
    /\ RaisedSleep
    /\ PrioritySelected
    /\ NoLostWakeup

-----------------------------------------------------------------------------
\* The offsets advance through the ring as through the integers modulo its size.
LEMMA RingStep ==
    ASSUME NEW N \in Nat \ {0}, NEW a \in 0 .. N - 1, NEW b \in 0 .. N
    PROVE  (a + b) % N = IF a + b < N THEN a + b ELSE a + b - N
PROOF
<1>1. CASE a + b < N
  BY <1>1
<1>2. CASE a + b >= N
  <2>1. a + b - N \in 0 .. N - 1
    BY <1>2
  <2>2. (a + b - N) % N = a + b - N
    BY <2>1
  <2> QED BY <1>2, <2>1, <2>2
<1> QED BY <1>1, <1>2

\* A set of threads gains or loses one member.
LEMMA AddThread ==
    ASSUME NEW S \in SUBSET Threads, NEW t \in Threads, t \notin S
    PROVE  Cardinality(S \cup {t}) = Cardinality(S) + 1 /\ Cardinality(S) \in Nat
PROOF
<1>1. IsFiniteSet(S)
  BY MailboxAssumption, FS_Subset
<1> QED BY <1>1, FS_AddElement, FS_CardinalityType

\* A set of threads loses one member (a woken waiter that runs or fails).
LEMMA DropThread ==
    ASSUME NEW S \in SUBSET Threads, NEW t \in S
    PROVE  Cardinality(S \ {t}) = Cardinality(S) - 1 /\ Cardinality(S) \in Nat
PROOF
<1>1. IsFiniteSet(S)
  BY MailboxAssumption, FS_Subset
<1> QED BY <1>1, FS_RemoveElement, FS_CardinalityType

\* The number of threads in a set is a natural number.
LEMMA ThreadCount ==
    ASSUME NEW S \in SUBSET Threads
    PROVE  Cardinality(S) \in Nat
PROOF
BY MailboxAssumption, FS_Subset, FS_CardinalityType

\* The waiters that were resumed and have not run yet are threads.
LEMMA WokenAreThreads == WokenReceivers \subseteq Threads /\ WokenSenders \subseteq Threads
PROOF
BY DEF WokenReceivers, WokenSenders

\* Waking threads keeps the order of what is left of the lists.
LEMMA OrderKept ==
    ASSUME ListsMatchStates', KeepPriorities, raised \subseteq Threads,
           Flag = RT_IPC_FLAG_PRIO =>
              /\ IsPrioOrderedFor(suspend_thread', current_priority, Threads \ raised)
              /\ IsPrioOrderedFor(suspend_sender_thread', current_priority, Threads \ raised)
    PROVE  PrioritySelected' /\ RaisedSleep'
PROOF
<1>1. /\ current_priority' = current_priority
      /\ raised' = {t \in raised : stat'[t] = "suspend"}
  BY DEF KeepPriorities
<1>2. /\ ToSet(suspend_thread') \cap (Threads \ raised') \subseteq Threads \ raised
      /\ ToSet(suspend_sender_thread') \cap (Threads \ raised') \subseteq Threads \ raised
  BY <1>1 DEF ListsMatchStates
<1>3. ASSUME Flag = RT_IPC_FLAG_PRIO
      PROVE  /\ IsPrioOrderedFor(suspend_thread', current_priority', Threads \ raised')
             /\ IsPrioOrderedFor(suspend_sender_thread', current_priority', Threads \ raised')
  BY <1>1, <1>2, <1>3, OrderedForFewer
<1>4. PrioritySelected'
  BY <1>3 DEF PrioritySelected
<1> QED BY <1>1, <1>4 DEF RaisedSleep

\* A mail is put into the box by a thread or an interrupt handler that was in no
\* call (call unchanged), or by a woken sender, whose call returns.
LEMMA PutMailStep ==
    ASSUME IInv, NEW v \in Values, ~IsFull, PutMail(v), UNCHANGED <<error, got>>,
           \/ call' = call
           \/ \E t \in WokenSenders : call' = [call EXCEPT ![t] = NoCall]
    PROVE  IInv'
PROOF
<1>1. Size \in Nat \ {0}
  BY MailboxAssumption
<1>2. entry \in 0 .. Size - 1 /\ in_offset \in 0 .. Size - 1 /\ out_offset \in 0 .. Size - 1
  BY <1>1 DEF IInv, TypeOK, IsFull
<1>3. RingConsistent'
  <2>0. entry \in 0 .. Size /\ entry + 1 \in 0 .. Size
    BY <1>1, <1>2
  <2>1. (out_offset + entry) % Size =
           IF out_offset + entry < Size THEN out_offset + entry
           ELSE out_offset + entry - Size
    BY <1>1, <1>2, <2>0, RingStep
  <2>2. (out_offset + (entry + 1)) % Size =
           IF out_offset + (entry + 1) < Size THEN out_offset + (entry + 1)
           ELSE out_offset + (entry + 1) - Size
    BY <1>1, <1>2, <2>0, RingStep
  <2>3. NextOffset(in_offset) = (out_offset + (entry + 1)) % Size
    BY <1>1, <1>2, <2>1, <2>2 DEF NextOffset, IInv, RingConsistent
  <2> QED BY <2>3 DEF RingConsistent, PutMail
<1>4. /\ call' \in [Threads -> Calls]
      /\ \A u \in Threads : \/ call'[u] = call[u]
                            \/ u \in WokenSenders /\ call'[u] = NoCall
  <2>1. NoCall \in Calls
    BY DEF NoCall, Calls
  <2> QED BY <2>1 DEF IInv, TypeOK, WokenSenders
<1>5. CallsOK'
  BY <1>4 DEF IInv, CallsOK, CallOK, NoCall
<1> DEFINE woken == IF suspend_thread = <<>> THEN {} ELSE {Head(suspend_thread)}
<1>6. /\ stat' \in [Threads -> {"ready", "suspend"}]
      /\ \A u \in Threads : stat'[u] = IF u \in woken THEN "ready" ELSE stat[u]
      /\ suspend_thread' \in Seq(Threads)
      /\ ToSet(suspend_thread') = ToSet(suspend_thread) \ woken
      /\ IsDuplicateFree(suspend_thread')
      /\ Flag = RT_IPC_FLAG_PRIO =>
            IsPrioOrderedFor(suspend_thread', current_priority, Threads \ raised)
      /\ woken \subseteq Threads
      /\ \A u \in woken : stat[u] = "suspend" /\ call[u].op = "recv" /\ error[u] = "EOK"
  <2>1. CASE suspend_thread = <<>>
    BY <2>1 DEF IInv, TypeOK, PutMail, ListsMatchStates, PrioritySelected
  <2>2. CASE suspend_thread # <<>>
    <3>1. /\ Head(suspend_thread) \in Threads
          /\ Head(suspend_thread) \in ToSet(suspend_thread)
          /\ Tail(suspend_thread) \in Seq(Threads)
          /\ ToSet(Tail(suspend_thread)) = ToSet(suspend_thread) \ {Head(suspend_thread)}
          /\ IsDuplicateFree(Tail(suspend_thread))
      BY <2>2, TailFacts DEF IInv, TypeOK, ListsMatchStates
    <3>4. Flag = RT_IPC_FLAG_PRIO =>
             IsPrioOrderedFor(Tail(suspend_thread), current_priority, Threads \ raised)
      BY <2>2, TailOrderedFor DEF IInv, TypeOK, PrioritySelected
    <3>2. /\ suspend_thread' = Tail(suspend_thread)
          /\ stat' = [stat EXCEPT ![Head(suspend_thread)] = "ready"]
      BY <2>2 DEF PutMail
    <3>3. LET h == Head(suspend_thread)
          IN  stat[h] = "suspend" /\ call[h].op = "recv" /\ error[h] = "EOK"
      BY <3>1 DEF IInv, ListsMatchStates, ErrorsReset
    <3> QED BY <2>2, <3>1, <3>2, <3>3, <3>4 DEF IInv, TypeOK
  <2> QED BY <2>1, <2>2
<1>7. suspend_sender_thread' = suspend_sender_thread /\ entry' = entry + 1 /\ error' = error
  BY DEF PutMail
<1>8. TypeOK'
  <2>1. NextOffset(in_offset) \in 0 .. Size - 1
    BY <1>1, <1>2 DEF NextOffset
  <2> QED BY <1>1, <1>2, <1>4, <1>6, <2>1 DEF IInv, TypeOK, PutMail, KeepPriorities
<1> HIDE DEF woken
<1>9. ListsMatchStates'
  <2>1. ASSUME NEW u \in Threads
        PROVE /\ u \in ToSet(suspend_thread') <=> stat'[u] = "suspend" /\ call'[u].op = "recv"
              /\ u \in ToSet(suspend_sender_thread') <=> stat'[u] = "suspend" /\ call'[u].op = "send"
              /\ stat'[u] = "suspend" => call'[u].op # "none"
    BY <1>4, <1>6, <1>7 DEF IInv, ListsMatchStates, WokenSenders, NoCall
  <2> QED BY <2>1, <1>6, <1>7 DEF IInv, ListsMatchStates
<1>10. ErrorsReset'
  BY <1>6, <1>7 DEF IInv, ErrorsReset
<1>11. PrioritySelected' /\ RaisedSleep'
  <2>1. Flag = RT_IPC_FLAG_PRIO =>
           /\ IsPrioOrderedFor(suspend_thread', current_priority, Threads \ raised)
           /\ IsPrioOrderedFor(suspend_sender_thread', current_priority, Threads \ raised)
    BY <1>6, <1>7 DEF IInv, PrioritySelected
  <2> QED BY <1>9, <2>1, OrderKept DEF IInv, TypeOK, PutMail
<1>12. NoLostWakeup'
  <2>1. ASSUME suspend_thread' # <<>>
        PROVE  entry' <= Cardinality(WokenReceivers')
    <3>1. suspend_thread # <<>>
      BY <2>1 DEF PutMail
    <3>2. PICK h \in Threads : woken = {h} /\ stat[h] = "suspend"
      BY <3>1, <1>6 DEF woken
    <3>3. WokenReceivers' = WokenReceivers \cup {h}
      BY <3>2, <1>4, <1>6, <1>7 DEF WokenReceivers, WokenSenders, NoCall
    <3>4. h \notin WokenReceivers
      BY <3>2 DEF WokenReceivers
    <3>5. Cardinality(WokenReceivers \cup {h}) = Cardinality(WokenReceivers) + 1
          /\ Cardinality(WokenReceivers) \in Nat
      BY <3>4, AddThread, WokenAreThreads
    <3>6. entry <= Cardinality(WokenReceivers)
      BY <3>1 DEF IInv, NoLostWakeup
    <3> QED BY <3>3, <3>5, <3>6, <1>2, <1>7
  <2>2. ASSUME suspend_sender_thread' # <<>>
        PROVE  Size - entry' <= Cardinality(WokenSenders')
    <3>1. Size - entry <= Cardinality(WokenSenders) /\ Cardinality(WokenSenders) \in Nat
      BY <2>2, <1>7, ThreadCount, WokenAreThreads DEF IInv, NoLostWakeup
    <3>2. CASE call' = call
      <4>1. WokenSenders' = WokenSenders
        BY <3>2, <1>6, <1>7 DEF WokenSenders
      <4> QED BY <3>1, <4>1, <1>1, <1>2, <1>7
    <3>3. CASE \E t \in WokenSenders : call' = [call EXCEPT ![t] = NoCall]
      <4>1. PICK t \in WokenSenders : call' = [call EXCEPT ![t] = NoCall]
        BY <3>3
      <4>2. WokenSenders' = WokenSenders \ {t}
        BY <4>1, <1>6, <1>7 DEF WokenSenders, NoCall, IInv, TypeOK
      <4>3. Cardinality(WokenSenders \ {t}) = Cardinality(WokenSenders) - 1
        BY DropThread, WokenAreThreads
      <4> QED BY <3>1, <4>2, <4>3, <1>1, <1>2, <1>7
    <3> QED BY <3>2, <3>3
  <2> QED BY <2>1, <2>2 DEF NoLostWakeup
<1> QED BY <1>3, <1>5, <1>8, <1>9, <1>10, <1>11, <1>12 DEF IInv

\* A mail is fetched by a thread that was in no call (call unchanged), or by a woken
\* receiver, whose call returns.
LEMMA TakeMailStep ==
    ASSUME IInv, NEW r \in Threads, ~IsEmpty, TakeMail(r), UNCHANGED error,
           \/ call' = call
           \/ \E t \in WokenReceivers : call' = [call EXCEPT ![t] = NoCall]
    PROVE  IInv'
PROOF
<1>1. Size \in Nat \ {0}
  BY MailboxAssumption
<1>2. entry \in 1 .. Size /\ in_offset \in 0 .. Size - 1 /\ out_offset \in 0 .. Size - 1
  BY <1>1 DEF IInv, TypeOK, IsEmpty
<1>3. NextOffset(out_offset) \in 0 .. Size - 1 /\ RingConsistent'
  <2>0. entry \in 0 .. Size /\ entry - 1 \in 0 .. Size /\ NextOffset(out_offset) \in 0 .. Size - 1
    BY <1>1, <1>2 DEF NextOffset
  <2>1. (out_offset + entry) % Size =
           IF out_offset + entry < Size THEN out_offset + entry
           ELSE out_offset + entry - Size
    BY <1>1, <1>2, <2>0, RingStep
  <2>2. (NextOffset(out_offset) + (entry - 1)) % Size =
           IF NextOffset(out_offset) + (entry - 1) < Size THEN NextOffset(out_offset) + (entry - 1)
           ELSE NextOffset(out_offset) + (entry - 1) - Size
    BY <1>1, <1>2, <2>0, RingStep
  <2>3. in_offset = (NextOffset(out_offset) + (entry - 1)) % Size
    BY <1>1, <1>2, <2>1, <2>2 DEF NextOffset, IInv, RingConsistent
  <2> QED BY <2>0, <2>3 DEF RingConsistent, TakeMail
<1>4. /\ call' \in [Threads -> Calls]
      /\ \A u \in Threads : \/ call'[u] = call[u]
                            \/ u \in WokenReceivers /\ call'[u] = NoCall
  <2>1. NoCall \in Calls
    BY DEF NoCall, Calls
  <2> QED BY <2>1 DEF IInv, TypeOK, WokenReceivers
<1>5. CallsOK'
  BY <1>4 DEF IInv, CallsOK, CallOK, NoCall
<1> DEFINE woken == IF suspend_sender_thread = <<>> THEN {} ELSE {Head(suspend_sender_thread)}
<1>6. /\ stat' \in [Threads -> {"ready", "suspend"}]
      /\ \A u \in Threads : stat'[u] = IF u \in woken THEN "ready" ELSE stat[u]
      /\ suspend_sender_thread' \in Seq(Threads)
      /\ ToSet(suspend_sender_thread') = ToSet(suspend_sender_thread) \ woken
      /\ IsDuplicateFree(suspend_sender_thread')
      /\ Flag = RT_IPC_FLAG_PRIO =>
            IsPrioOrderedFor(suspend_sender_thread', current_priority, Threads \ raised)
      /\ woken \subseteq Threads
      /\ \A u \in woken : stat[u] = "suspend" /\ call[u].op = "send" /\ error[u] = "EOK"
  <2>1. CASE suspend_sender_thread = <<>>
    BY <2>1 DEF IInv, TypeOK, TakeMail, ListsMatchStates, PrioritySelected
  <2>2. CASE suspend_sender_thread # <<>>
    <3>1. /\ Head(suspend_sender_thread) \in Threads
          /\ Head(suspend_sender_thread) \in ToSet(suspend_sender_thread)
          /\ Tail(suspend_sender_thread) \in Seq(Threads)
          /\ ToSet(Tail(suspend_sender_thread)) = ToSet(suspend_sender_thread) \ {Head(suspend_sender_thread)}
          /\ IsDuplicateFree(Tail(suspend_sender_thread))
      BY <2>2, TailFacts DEF IInv, TypeOK, ListsMatchStates
    <3>4. Flag = RT_IPC_FLAG_PRIO =>
             IsPrioOrderedFor(Tail(suspend_sender_thread), current_priority, Threads \ raised)
      BY <2>2, TailOrderedFor DEF IInv, TypeOK, PrioritySelected
    <3>2. /\ suspend_sender_thread' = Tail(suspend_sender_thread)
          /\ stat' = [stat EXCEPT ![Head(suspend_sender_thread)] = "ready"]
      BY <2>2 DEF TakeMail
    <3>3. LET h == Head(suspend_sender_thread)
          IN  stat[h] = "suspend" /\ call[h].op = "send" /\ error[h] = "EOK"
      BY <3>1 DEF IInv, ListsMatchStates, ErrorsReset
    <3> QED BY <2>2, <3>1, <3>2, <3>3, <3>4 DEF IInv, TypeOK
  <2> QED BY <2>1, <2>2
<1>7. suspend_thread' = suspend_thread /\ entry' = entry - 1 /\ error' = error
  BY DEF TakeMail
<1>8. TypeOK'
  <2>1. msg_pool[out_offset] \in Values \cup {NoMail}
    BY <1>2 DEF IInv, TypeOK
  <2>2. got' \in [Threads -> Values \cup {NoMail}]
    BY <2>1 DEF IInv, TypeOK, TakeMail
  <2>3. entry' \in 0 .. Size
    BY <1>1, <1>2, <1>7
  <2> QED BY <1>3, <1>4, <1>6, <1>7, <2>2, <2>3 DEF IInv, TypeOK, TakeMail, KeepPriorities
<1> HIDE DEF woken
<1>9. ListsMatchStates'
  <2>1. ASSUME NEW u \in Threads
        PROVE /\ u \in ToSet(suspend_thread') <=> stat'[u] = "suspend" /\ call'[u].op = "recv"
              /\ u \in ToSet(suspend_sender_thread') <=> stat'[u] = "suspend" /\ call'[u].op = "send"
              /\ stat'[u] = "suspend" => call'[u].op # "none"
    BY <1>4, <1>6, <1>7 DEF IInv, ListsMatchStates, WokenReceivers, NoCall
  <2> QED BY <2>1, <1>6, <1>7 DEF IInv, ListsMatchStates
<1>10. ErrorsReset'
  BY <1>6, <1>7 DEF IInv, ErrorsReset
<1>11. PrioritySelected' /\ RaisedSleep'
  <2>1. Flag = RT_IPC_FLAG_PRIO =>
           /\ IsPrioOrderedFor(suspend_thread', current_priority, Threads \ raised)
           /\ IsPrioOrderedFor(suspend_sender_thread', current_priority, Threads \ raised)
    BY <1>6, <1>7 DEF IInv, PrioritySelected
  <2> QED BY <1>9, <2>1, OrderKept DEF IInv, TypeOK, TakeMail
<1>12. NoLostWakeup'
  <2>1. ASSUME suspend_sender_thread' # <<>>
        PROVE  Size - entry' <= Cardinality(WokenSenders')
    <3>1. suspend_sender_thread # <<>>
      BY <2>1 DEF TakeMail
    <3>2. PICK h \in Threads : woken = {h} /\ stat[h] = "suspend"
      BY <3>1, <1>6 DEF woken
    <3>3. WokenSenders' = WokenSenders \cup {h}
      BY <3>2, <1>4, <1>6, <1>7 DEF WokenReceivers, WokenSenders, NoCall
    <3>4. h \notin WokenSenders
      BY <3>2 DEF WokenSenders
    <3>5. Cardinality(WokenSenders \cup {h}) = Cardinality(WokenSenders) + 1
          /\ Cardinality(WokenSenders) \in Nat
      BY <3>4, AddThread, WokenAreThreads
    <3>6. Size - entry <= Cardinality(WokenSenders)
      BY <3>1 DEF IInv, NoLostWakeup
    <3> QED BY <3>3, <3>5, <3>6, <1>1, <1>2, <1>7
  <2>2. ASSUME suspend_thread' # <<>>
        PROVE  entry' <= Cardinality(WokenReceivers')
    <3>1. entry <= Cardinality(WokenReceivers) /\ Cardinality(WokenReceivers) \in Nat
      BY <2>2, <1>7, ThreadCount, WokenAreThreads DEF IInv, NoLostWakeup
    <3>2. CASE call' = call
      <4>1. WokenReceivers' = WokenReceivers
        BY <3>2, <1>6, <1>7 DEF WokenReceivers
      <4> QED BY <3>1, <4>1, <1>1, <1>2, <1>7
    <3>3. CASE \E t \in WokenReceivers : call' = [call EXCEPT ![t] = NoCall]
      <4>1. PICK t \in WokenReceivers : call' = [call EXCEPT ![t] = NoCall]
        BY <3>3
      <4>2. WokenReceivers' = WokenReceivers \ {t}
        BY <4>1, <1>6, <1>7 DEF WokenReceivers, NoCall, IInv, TypeOK
      <4>3. Cardinality(WokenReceivers \ {t}) = Cardinality(WokenReceivers) - 1
        BY DropThread, WokenAreThreads
      <4> QED BY <3>1, <4>2, <4>3, <1>1, <1>2, <1>7
    <3> QED BY <3>2, <3>3
  <2> QED BY <2>1, <2>2 DEF NoLostWakeup
<1> QED BY <1>3, <1>5, <1>8, <1>9, <1>10, <1>11, <1>12 DEF IInv

\* A call that returns without touching the mailbox: a waiter that comes back with an
\* error, or a woken one that finds the box full (empty) again and its time used up.
LEMMA RefuseStep ==
    ASSUME IInv, NEW t \in Threads, stat[t] = "ready",
           NEW code \in {"EOK", "ETIMEOUT", "ERROR"}, Refuse(t, code),
           \/ error[t] # "EOK"
           \/ call[t].op = "send" /\ IsFull
           \/ call[t].op = "recv" /\ IsEmpty
    PROVE  IInv'
PROOF
<1>1. Size \in Nat \ {0} /\ entry \in 0 .. Size
  BY MailboxAssumption DEF IInv, TypeOK
<1>2. /\ NoCall \in Calls /\ NoCall.op = "none"
      /\ call' = [call EXCEPT ![t] = NoCall]
      /\ error' = [error EXCEPT ![t] = code]
      /\ UNCHANGED <<mbVars, suspend_thread, suspend_sender_thread, stat, current_priority,
                     raised, got>>
  BY DEF NoCall, Calls, Refuse, Return
<1>3. TypeOK'
  BY <1>2 DEF IInv, TypeOK, mbVars
<1>4. RingConsistent'
  BY <1>2 DEF IInv, RingConsistent, mbVars
<1>5. ListsMatchStates'
  <2>1. ASSUME NEW u \in Threads
        PROVE  stat'[u] = stat[u] /\ (stat[u] = "suspend" => call'[u] = call[u])
    BY <1>2 DEF IInv, TypeOK
  <2> QED BY <1>2, <2>1 DEF IInv, ListsMatchStates
<1>6. ErrorsReset'
  BY <1>2 DEF IInv, ErrorsReset, TypeOK
<1>7. CallsOK'
  BY <1>2 DEF IInv, CallsOK, CallOK, TypeOK
<1>8. PrioritySelected' /\ RaisedSleep'
  BY <1>2 DEF IInv, PrioritySelected, RaisedSleep
<1>9. NoLostWakeup'
  <2>1. entry' = entry /\ UNCHANGED <<suspend_thread, suspend_sender_thread>>
    BY <1>2 DEF mbVars
  <2>2. WokenReceivers' \subseteq Threads /\ WokenSenders' \subseteq Threads
    BY DEF WokenReceivers, WokenSenders
  <2>3. Cardinality(WokenReceivers') \in Nat /\ Cardinality(WokenSenders') \in Nat
    BY <2>2, ThreadCount
  <2>4. IsEmpty \/ WokenReceivers' = WokenReceivers
    BY <1>1, <1>2 DEF IInv, TypeOK, WokenReceivers, IsEmpty, IsFull
  <2>5. IsFull \/ WokenSenders' = WokenSenders
    BY <1>1, <1>2 DEF IInv, TypeOK, WokenSenders, IsEmpty, IsFull
  <2>6. suspend_thread' # <<>> => entry' <= Cardinality(WokenReceivers')
    BY <1>1, <2>1, <2>3, <2>4 DEF IInv, NoLostWakeup, IsEmpty
  <2>7. suspend_sender_thread' # <<>> => Size - entry' <= Cardinality(WokenSenders')
    BY <1>1, <2>1, <2>3, <2>5 DEF IInv, NoLostWakeup, IsFull
  <2> QED BY <2>6, <2>7 DEF NoLostWakeup
<1> QED BY <1>3, <1>4, <1>5, <1>6, <1>7, <1>8, <1>9 DEF IInv

\* What Suspend does whichever list the thread joins.
LEMMA SuspendCommon ==
    ASSUME IInv, NEW t \in Threads, NEW c \in Calls, c.op # "none", c.timeout # 0,
           c.op = "send" => c.value \in Values,
           c.timeout > 0 <=> c.limit > 0,
           c.limit > 0 => c.age + c.timeout = c.limit,
           Suspend(t, c)
    PROVE  /\ stat' \in [Threads -> {"ready", "suspend"}]
           /\ error' \in [Threads -> {"EOK", "ETIMEOUT", "ERROR"}]
           /\ call' \in [Threads -> Calls]
           /\ stat'[t] = "suspend" /\ error'[t] = "EOK" /\ call'[t].op = c.op
           /\ \A u \in Threads : u # t => /\ stat'[u] = stat[u]
                                          /\ error'[u] = error[u]
                                          /\ call'[u] = call[u]
           /\ UNCHANGED <<msg_pool, entry, in_offset, out_offset, current_priority, raised, got>>
           /\ RingConsistent'
           /\ RaisedSleep'
           /\ ErrorsReset'
           /\ CallsOK'
PROOF
<1> DEFINE d == [c EXCEPT !.since = 0]
<1>1. d \in Calls /\ d.op = c.op /\ d.value = c.value /\ d.timeout = c.timeout /\ d.limit = c.limit
      /\ d.age = c.age /\ d.since = 0
  BY DEF Calls
<1>2. /\ stat' = [stat EXCEPT ![t] = "suspend"]
      /\ error' = [error EXCEPT ![t] = "EOK"]
      /\ call' = [call EXCEPT ![t] = d]
      /\ UNCHANGED <<msg_pool, entry, in_offset, out_offset, current_priority, raised, got>>
  BY DEF Suspend, mbVars
<1> HIDE DEF d
<1>3. CallOK(d)
  BY <1>1 DEF CallOK, Calls, RT_WAITING_FOREVER
<1>4. CallsOK'
  <2>1. \A u \in Threads : call'[u] = call[u] \/ call'[u] = d
    BY <1>2 DEF IInv, TypeOK
  <2> QED BY <1>3, <2>1 DEF IInv, CallsOK
<1> QED BY <1>1, <1>2, <1>4 DEF IInv, TypeOK, RingConsistent, ErrorsReset, RaisedSleep

\* A receiver goes to sleep: the box is empty, it is in no list and, if it was woken
\* before, no mail is left for it.
LEMMA SuspendReceiverStep ==
    ASSUME IInv, IsEmpty, NEW t \in Threads, stat[t] = "ready",
           call[t].op \in {"none", "recv"},
           NEW c \in Calls, c.op = "recv", c.timeout # 0,
           c.timeout > 0 <=> c.limit > 0,
           c.limit > 0 => c.age + c.timeout = c.limit,
           SuspendReceiver(t, c)
    PROVE  IInv'
PROOF
<1>1. /\ Size \in Nat \ {0} /\ Flag \in IpcFlags /\ current_priority \in [Threads -> Nat]
      /\ entry \in 0 .. Size
  BY MailboxAssumption DEF IInv, TypeOK
<1>2. /\ stat' \in [Threads -> {"ready", "suspend"}]
      /\ error' \in [Threads -> {"EOK", "ETIMEOUT", "ERROR"}]
      /\ call' \in [Threads -> Calls]
      /\ stat'[t] = "suspend" /\ error'[t] = "EOK" /\ call'[t].op = "recv"
      /\ \A u \in Threads : u # t => /\ stat'[u] = stat[u]
                                     /\ error'[u] = error[u]
                                     /\ call'[u] = call[u]
      /\ UNCHANGED <<msg_pool, entry, in_offset, out_offset, current_priority, raised, got>>
      /\ RingConsistent'
      /\ RaisedSleep'
      /\ ErrorsReset'
      /\ CallsOK'
  BY SuspendCommon DEF SuspendReceiver
<1>3. /\ suspend_thread' = rt_ipc_list_suspend(suspend_thread, t, Flag, current_priority)
      /\ suspend_sender_thread' = suspend_sender_thread
  BY DEF SuspendReceiver
<1>4. t \notin ToSet(suspend_thread) /\ t \notin ToSet(suspend_sender_thread)
  BY DEF IInv, ListsMatchStates
<1>5. /\ suspend_thread' \in Seq(Threads)
      /\ ToSet(suspend_thread') = ToSet(suspend_thread) \cup {t}
      /\ IsDuplicateFree(suspend_thread')
      /\ Flag = RT_IPC_FLAG_PRIO =>
            IsPrioOrderedFor(suspend_thread', current_priority, Threads \ raised)
  <2>1. /\ suspend_thread \in Seq(Threads)
        /\ IsDuplicateFree(suspend_thread)
        /\ Flag = RT_IPC_FLAG_PRIO =>
              IsPrioOrderedFor(suspend_thread, current_priority, Threads \ raised)
    BY DEF IInv, TypeOK, ListsMatchStates, PrioritySelected
  <2>2. Flag = RT_IPC_FLAG_PRIO =>
           IsPrioOrderedFor(suspend_thread', current_priority, Threads \ raised)
    BY <1>1, <1>3, <2>1, SuspendOrderedFor
  <2> QED BY <1>1, <1>3, <1>4, <2>1, <2>2, SuspendFacts
<1>6. TypeOK'
  BY <1>2, <1>3, <1>5 DEF IInv, TypeOK
<1>7. ListsMatchStates'
  <2>1. ASSUME NEW u \in Threads
        PROVE /\ u \in ToSet(suspend_thread') <=> stat'[u] = "suspend" /\ call'[u].op = "recv"
              /\ u \in ToSet(suspend_sender_thread') <=> stat'[u] = "suspend" /\ call'[u].op = "send"
              /\ stat'[u] = "suspend" => call'[u].op # "none"
    <3>1. CASE u = t
      BY <3>1, <1>2, <1>3, <1>4, <1>5
    <3>2. CASE u # t
      BY <3>2, <1>2, <1>3, <1>5 DEF IInv, ListsMatchStates
    <3> QED BY <3>1, <3>2
  <2> QED BY <2>1, <1>3, <1>5 DEF IInv, ListsMatchStates
<1>8. PrioritySelected'
  BY <1>2, <1>3, <1>5 DEF IInv, PrioritySelected
<1>9. NoLostWakeup'
  <2>1. WokenReceivers' \subseteq Threads
    BY DEF WokenReceivers
  <2>2. Cardinality(WokenReceivers') \in Nat
    BY <2>1, ThreadCount
  <2>3. WokenSenders' = WokenSenders
    BY <1>2 DEF WokenSenders
  <2> QED BY <1>1, <1>2, <1>3, <2>2, <2>3 DEF IInv, NoLostWakeup, IsEmpty
<1> QED BY <1>2, <1>6, <1>7, <1>8, <1>9 DEF IInv

\* A sender goes to sleep: the box is full, it is in no list and, if it was woken
\* before, no slot is left for it.
LEMMA SuspendSenderStep ==
    ASSUME IInv, IsFull, NEW t \in Threads, stat[t] = "ready",
           call[t].op \in {"none", "send"},
           NEW c \in Calls, c.op = "send", c.value \in Values, c.timeout # 0,
           c.timeout > 0 <=> c.limit > 0,
           c.limit > 0 => c.age + c.timeout = c.limit,
           SuspendSender(t, c)
    PROVE  IInv'
PROOF
<1>1. /\ Size \in Nat \ {0} /\ Flag \in IpcFlags /\ current_priority \in [Threads -> Nat]
      /\ entry \in 0 .. Size
  BY MailboxAssumption DEF IInv, TypeOK
<1>2. /\ stat' \in [Threads -> {"ready", "suspend"}]
      /\ error' \in [Threads -> {"EOK", "ETIMEOUT", "ERROR"}]
      /\ call' \in [Threads -> Calls]
      /\ stat'[t] = "suspend" /\ error'[t] = "EOK" /\ call'[t].op = "send"
      /\ \A u \in Threads : u # t => /\ stat'[u] = stat[u]
                                     /\ error'[u] = error[u]
                                     /\ call'[u] = call[u]
      /\ UNCHANGED <<msg_pool, entry, in_offset, out_offset, current_priority, raised, got>>
      /\ RingConsistent'
      /\ RaisedSleep'
      /\ ErrorsReset'
      /\ CallsOK'
  BY SuspendCommon DEF SuspendSender
<1>3. /\ suspend_sender_thread' = rt_ipc_list_suspend(suspend_sender_thread, t, Flag, current_priority)
      /\ suspend_thread' = suspend_thread
  BY DEF SuspendSender
<1>4. t \notin ToSet(suspend_sender_thread) /\ t \notin ToSet(suspend_thread)
  BY DEF IInv, ListsMatchStates
<1>5. /\ suspend_sender_thread' \in Seq(Threads)
      /\ ToSet(suspend_sender_thread') = ToSet(suspend_sender_thread) \cup {t}
      /\ IsDuplicateFree(suspend_sender_thread')
      /\ Flag = RT_IPC_FLAG_PRIO =>
            IsPrioOrderedFor(suspend_sender_thread', current_priority, Threads \ raised)
  <2>1. /\ suspend_sender_thread \in Seq(Threads)
        /\ IsDuplicateFree(suspend_sender_thread)
        /\ Flag = RT_IPC_FLAG_PRIO =>
              IsPrioOrderedFor(suspend_sender_thread, current_priority, Threads \ raised)
    BY DEF IInv, TypeOK, ListsMatchStates, PrioritySelected
  <2>2. Flag = RT_IPC_FLAG_PRIO =>
           IsPrioOrderedFor(suspend_sender_thread', current_priority, Threads \ raised)
    BY <1>1, <1>3, <2>1, SuspendOrderedFor
  <2> QED BY <1>1, <1>3, <1>4, <2>1, <2>2, SuspendFacts
<1>6. TypeOK'
  BY <1>2, <1>3, <1>5 DEF IInv, TypeOK
<1>7. ListsMatchStates'
  <2>1. ASSUME NEW u \in Threads
        PROVE /\ u \in ToSet(suspend_thread') <=> stat'[u] = "suspend" /\ call'[u].op = "recv"
              /\ u \in ToSet(suspend_sender_thread') <=> stat'[u] = "suspend" /\ call'[u].op = "send"
              /\ stat'[u] = "suspend" => call'[u].op # "none"
    <3>1. CASE u = t
      BY <3>1, <1>2, <1>3, <1>4, <1>5
    <3>2. CASE u # t
      BY <3>2, <1>2, <1>3, <1>5 DEF IInv, ListsMatchStates
    <3> QED BY <3>1, <3>2
  <2> QED BY <2>1, <1>3, <1>5 DEF IInv, ListsMatchStates
<1>8. PrioritySelected'
  BY <1>2, <1>3, <1>5 DEF IInv, PrioritySelected
<1>9. NoLostWakeup'
  <2>1. WokenSenders' \subseteq Threads
    BY DEF WokenSenders
  <2>2. Cardinality(WokenSenders') \in Nat
    BY <2>1, ThreadCount
  <2>3. WokenReceivers' = WokenReceivers
    BY <1>2 DEF WokenReceivers
  <2> QED BY <1>1, <1>2, <1>3, <2>2, <2>3 DEF IInv, NoLostWakeup, IsFull
<1> QED BY <1>2, <1>6, <1>7, <1>8, <1>9 DEF IInv

\* A sleeping thread is taken off its list, by its timer or by rt_thread_resume.
LEMMA UnlinkStep ==
    ASSUME IInv, NEW t \in Threads, stat[t] = "suspend",
           NEW code \in {"EOK", "ETIMEOUT"},
           error' = [error EXCEPT ![t] = code],
           stat' = [stat EXCEPT ![t] = "ready"],
           suspend_thread' = Unlink(suspend_thread, t),
           suspend_sender_thread' = Unlink(suspend_sender_thread, t),
           KeepPriorities,
           UNCHANGED <<msg_pool, entry, in_offset, out_offset, call, got>>
    PROVE  IInv'
PROOF
<1>1. /\ Size \in Nat \ {0}
      /\ entry \in 0 .. Size
  BY MailboxAssumption DEF IInv, TypeOK
<1>2. /\ suspend_thread' \in Seq(Threads)
      /\ ToSet(suspend_thread') = ToSet(suspend_thread) \ {t}
      /\ IsDuplicateFree(suspend_thread')
      /\ suspend_thread' # <<>> => suspend_thread # <<>>
      /\ Flag = RT_IPC_FLAG_PRIO =>
            IsPrioOrderedFor(suspend_thread', current_priority, Threads \ raised)
  <2>1. suspend_thread \in Seq(Threads) /\ IsDuplicateFree(suspend_thread)
    BY DEF IInv, TypeOK, ListsMatchStates
  <2>2. LET r == Unlink(suspend_thread, t)
        IN  /\ r \in Seq(Threads)
            /\ ToSet(r) = ToSet(suspend_thread) \ {t}
            /\ IsDuplicateFree(r)
            /\ r # <<>> => suspend_thread # <<>>
    BY <2>1, UnlinkFacts
  <2>3. Flag = RT_IPC_FLAG_PRIO =>
           IsPrioOrderedFor(Unlink(suspend_thread, t), current_priority, Threads \ raised)
    BY <2>1, UnlinkOrderedFor DEF IInv, PrioritySelected
  <2> QED BY <2>2, <2>3
<1>3. /\ suspend_sender_thread' \in Seq(Threads)
      /\ ToSet(suspend_sender_thread') = ToSet(suspend_sender_thread) \ {t}
      /\ IsDuplicateFree(suspend_sender_thread')
      /\ suspend_sender_thread' # <<>> => suspend_sender_thread # <<>>
      /\ Flag = RT_IPC_FLAG_PRIO =>
            IsPrioOrderedFor(suspend_sender_thread', current_priority, Threads \ raised)
  <2>1. suspend_sender_thread \in Seq(Threads) /\ IsDuplicateFree(suspend_sender_thread)
    BY DEF IInv, TypeOK, ListsMatchStates
  <2>2. LET r == Unlink(suspend_sender_thread, t)
        IN  /\ r \in Seq(Threads)
            /\ ToSet(r) = ToSet(suspend_sender_thread) \ {t}
            /\ IsDuplicateFree(r)
            /\ r # <<>> => suspend_sender_thread # <<>>
    BY <2>1, UnlinkFacts
  <2>3. Flag = RT_IPC_FLAG_PRIO =>
           IsPrioOrderedFor(Unlink(suspend_sender_thread, t), current_priority, Threads \ raised)
    BY <2>1, UnlinkOrderedFor DEF IInv, PrioritySelected
  <2> QED BY <2>2, <2>3
<1>4. /\ stat'[t] = "ready"
      /\ \A u \in Threads : u # t => stat'[u] = stat[u] /\ error'[u] = error[u]
  BY DEF IInv, TypeOK
<1>5. TypeOK'
  BY <1>2, <1>3 DEF IInv, TypeOK, KeepPriorities
<1>6. RingConsistent' /\ CallsOK'
  BY <1>2, <1>3 DEF IInv, RingConsistent, CallsOK
<1>7. ErrorsReset'
  BY <1>4 DEF IInv, ErrorsReset
<1>8. ListsMatchStates'
  <2>1. ASSUME NEW u \in Threads
        PROVE /\ u \in ToSet(suspend_thread') <=> stat'[u] = "suspend" /\ call'[u].op = "recv"
              /\ u \in ToSet(suspend_sender_thread') <=> stat'[u] = "suspend" /\ call'[u].op = "send"
              /\ stat'[u] = "suspend" => call'[u].op # "none"
    BY <1>2, <1>3, <1>4 DEF IInv, ListsMatchStates
  <2> QED BY <2>1, <1>2, <1>3 DEF ListsMatchStates
<1>9. NoLostWakeup'
  <2>1. /\ WokenReceivers \subseteq WokenReceivers' /\ WokenReceivers' \subseteq Threads
        /\ WokenSenders \subseteq WokenSenders' /\ WokenSenders' \subseteq Threads
    BY <1>4 DEF WokenReceivers, WokenSenders
  <2>2. /\ Cardinality(WokenReceivers) <= Cardinality(WokenReceivers')
        /\ Cardinality(WokenReceivers) \in Nat /\ Cardinality(WokenReceivers') \in Nat
    BY <2>1, MailboxAssumption, FS_Subset, FS_CardinalityType
  <2>3. /\ Cardinality(WokenSenders) <= Cardinality(WokenSenders')
        /\ Cardinality(WokenSenders) \in Nat /\ Cardinality(WokenSenders') \in Nat
    BY <2>1, MailboxAssumption, FS_Subset, FS_CardinalityType
  <2> QED BY <1>1, <1>2, <1>3, <2>2, <2>3 DEF IInv, NoLostWakeup
<1>10. PrioritySelected' /\ RaisedSleep'
  BY <1>2, <1>3, <1>8, OrderKept DEF IInv, TypeOK
<1> QED BY <1>5, <1>6, <1>7, <1>8, <1>9, <1>10 DEF IInv

\* A reset empties the lists and the box.
LEMMA ResetStep ==
    ASSUME IInv, rt_mb_control
    PROVE  IInv'
PROOF
<1> DEFINE waiters == ToSet(suspend_thread) \cup ToSet(suspend_sender_thread)
<1>1. Size \in Nat \ {0}
  BY MailboxAssumption
<1>2. /\ stat' = [t \in Threads |-> IF t \in waiters THEN "ready" ELSE stat[t]]
      /\ error' = [t \in Threads |-> IF t \in waiters THEN "ERROR" ELSE error[t]]
      /\ suspend_thread' = <<>> /\ suspend_sender_thread' = <<>>
      /\ entry' = 0 /\ in_offset' = 0 /\ out_offset' = 0
      /\ UNCHANGED <<msg_pool, current_priority, call, got>>
      /\ raised' = {t \in raised : stat'[t] = "suspend"}
  BY DEF rt_mb_control, KeepPriorities
<1>3. \A u \in Threads : stat'[u] = "ready"
  BY <1>2 DEF IInv, TypeOK, ListsMatchStates, Calls
<1>4. TypeOK'
  <2>1. <<>> \in Seq(Threads)
    OBVIOUS
  <2>2. stat' \in [Threads -> {"ready", "suspend"}]
        /\ error' \in [Threads -> {"EOK", "ETIMEOUT", "ERROR"}]
    BY <1>2 DEF IInv, TypeOK
  <2> QED BY <1>1, <1>2, <2>1, <2>2 DEF IInv, TypeOK
<1>5. RingConsistent' /\ CallsOK' /\ ErrorsReset'
  BY <1>1, <1>2, <1>3 DEF IInv, RingConsistent, CallsOK, ErrorsReset
<1>6. ListsMatchStates' /\ PrioritySelected' /\ NoLostWakeup' /\ RaisedSleep'
  <2>1. DOMAIN <<>> = {}
    OBVIOUS
  <2> QED BY <1>2, <1>3, <2>1 DEF ListsMatchStates, PrioritySelected, NoLostWakeup,
                              RaisedSleep, IsDuplicateFree, IsPrioOrderedFor, ToSet
<1> QED BY <1>4, <1>5, <1>6 DEF IInv

\* A tick moves the clocks of the timed calls and nothing else.
LEMMA TickStep ==
    ASSUME IInv, rt_tick_increase
    PROVE  IInv'
PROOF
<1>1. /\ call' = [t \in Threads |-> Aged(call[t])]
      /\ UNCHANGED <<msg_pool, entry, in_offset, out_offset, suspend_thread,
                     suspend_sender_thread, stat, error, current_priority, raised, got>>
  BY DEF rt_tick_increase, mbVars
<1>2. ASSUME NEW c \in Calls
      PROVE  Aged(c) \in Calls /\ Aged(c).op = c.op /\ (CallOK(c) => CallOK(Aged(c)))
  <2>1. CASE Timed(c) /\ c.since < c.timeout
    <3> DEFINE d == [c EXCEPT !.since = @ + 1, !.age = @ + 1]
    <3>1. /\ d \in Calls /\ d.op = c.op /\ d.value = c.value /\ d.timeout = c.timeout /\ d.limit = c.limit
          /\ d.since = c.since + 1 /\ d.age = c.age + 1
      <4> DEFINE e == [c EXCEPT !.since = c.since + 1]
      <4>1. /\ e \in Calls /\ e.op = c.op /\ e.value = c.value /\ e.timeout = c.timeout /\ e.limit = c.limit
            /\ e.since = c.since + 1 /\ e.age = c.age
        BY DEF Calls
      <4>2. d = [e EXCEPT !.age = c.age + 1]
        BY DEF Calls
      <4> HIDE DEF d, e
      <4> QED BY <4>1, <4>2 DEF Calls
    <3>2. Aged(c) = d
      BY <2>1 DEF Aged
    <3>3. c.since \in Nat /\ c.age \in Nat /\ c.timeout \in Int /\ c.limit \in Int
      BY DEF Calls, RT_WAITING_FOREVER
    <3> HIDE DEF d
    <3>4. CallOK(c) => CallOK(d)
      BY <2>1, <3>1, <3>3 DEF CallOK
    <3> QED BY <3>1, <3>2, <3>4
  <2>2. CASE ~(Timed(c) /\ c.since < c.timeout)
    BY <2>2 DEF Aged
  <2> QED BY <2>1, <2>2
<1>3. /\ call' \in [Threads -> Calls]
      /\ \A u \in Threads : call'[u].op = call[u].op
      /\ CallsOK'
  BY <1>1, <1>2 DEF IInv, TypeOK, CallsOK
<1>4. WokenReceivers' = WokenReceivers /\ WokenSenders' = WokenSenders
  BY <1>1, <1>3 DEF WokenReceivers, WokenSenders
<1> QED BY <1>1, <1>3, <1>4 DEF IInv, TypeOK, RingConsistent, ListsMatchStates,
                                ErrorsReset, RaisedSleep, PrioritySelected, NoLostWakeup

\* A priority changes: nothing but the order of the lists depends on it.
LEMMA PriorityStep ==
    ASSUME IInv, NEW t \in Threads, NEW p \in Nat, rt_thread_control(t, p),
           raised' \subseteq Threads, RaisedSleep', PrioritySelected'
    PROVE  IInv'
PROOF
<1>1. /\ current_priority' \in [Threads -> Nat]
      /\ UNCHANGED <<msg_pool, entry, in_offset, out_offset, suspend_thread,
                     suspend_sender_thread, stat, error, call, got>>
  BY DEF rt_thread_control, mbVars, IInv, TypeOK
<1>2. TypeOK'
  BY <1>1 DEF IInv, TypeOK
<1> QED BY <1>1, <1>2 DEF IInv, RingConsistent, ListsMatchStates, ErrorsReset, CallsOK,
                          NoLostWakeup, WokenReceivers, WokenSenders

\* A thread inherits a more urgent priority, awake or asleep.
LEMMA InheritStep ==
    ASSUME IInv, NEW t \in Threads, NEW p \in Nat, InheritPriority(t, p)
    PROVE  IInv'
PROOF
<1>1. /\ current_priority' = [current_priority EXCEPT ![t] = p]
      /\ UNCHANGED <<suspend_thread, suspend_sender_thread, stat>>
      /\ raised' = IF stat[t] = "suspend" THEN raised \cup {t} ELSE raised
      /\ rt_thread_control(t, p)
  BY DEF InheritPriority, rt_thread_control
<1>2. /\ current_priority \in [Threads -> Nat] /\ p <= current_priority[t]
      /\ suspend_thread \in Seq(Threads) /\ suspend_sender_thread \in Seq(Threads)
  BY DEF InheritPriority, IInv, TypeOK
<1>3. raised' \subseteq Threads /\ RaisedSleep'
  BY <1>1 DEF IInv, TypeOK, RaisedSleep
<1>4. /\ ToSet(suspend_thread) \cap (Threads \ raised') \subseteq (Threads \ raised) \ {t}
      /\ ToSet(suspend_sender_thread) \cap (Threads \ raised') \subseteq (Threads \ raised) \ {t}
  BY <1>1 DEF IInv, ListsMatchStates
<1>5. ASSUME Flag = RT_IPC_FLAG_PRIO
      PROVE  /\ IsPrioOrderedFor(suspend_thread', current_priority', Threads \ raised')
             /\ IsPrioOrderedFor(suspend_sender_thread', current_priority', Threads \ raised')
  <2>1. /\ IsPrioOrderedFor(suspend_thread, current_priority, Threads \ raised)
        /\ IsPrioOrderedFor(suspend_sender_thread, current_priority, Threads \ raised)
    BY <1>5 DEF IInv, PrioritySelected
  <2>2. /\ IsPrioOrderedFor(suspend_thread, current_priority', (Threads \ raised) \ {t})
        /\ IsPrioOrderedFor(suspend_sender_thread, current_priority', (Threads \ raised) \ {t})
    BY <1>1, <1>2, <2>1, RaisedOrderedFor
  <2> QED BY <1>1, <1>4, <2>2, OrderedForFewer
<1>6. PrioritySelected'
  BY <1>5 DEF PrioritySelected
<1> QED BY <1>1, <1>3, <1>6, PriorityStep

\* A thread that runs outside a call gives an inherited priority back: it is in no list.
LEMMA GiveBackStep ==
    ASSUME IInv, NEW t \in Threads, NEW p \in Nat, GiveBackPriority(t, p)
    PROVE  IInv'
PROOF
<1>1. /\ current_priority' = [current_priority EXCEPT ![t] = p]
      /\ UNCHANGED <<suspend_thread, suspend_sender_thread, stat, raised>>
      /\ rt_thread_control(t, p)
      /\ stat[t] = "ready"
  BY DEF GiveBackPriority, rt_thread_control, ThreadRuns
<1>2. /\ current_priority \in [Threads -> Nat]
      /\ suspend_thread \in Seq(Threads) /\ suspend_sender_thread \in Seq(Threads)
      /\ t \notin ToSet(suspend_thread) /\ t \notin ToSet(suspend_sender_thread)
  BY <1>1 DEF IInv, TypeOK, ListsMatchStates
<1>3. raised' \subseteq Threads /\ RaisedSleep'
  BY <1>1 DEF IInv, TypeOK, RaisedSleep
<1>4. ASSUME Flag = RT_IPC_FLAG_PRIO
      PROVE  /\ IsPrioOrderedFor(suspend_thread', current_priority', Threads \ raised')
             /\ IsPrioOrderedFor(suspend_sender_thread', current_priority', Threads \ raised')
  <2>1. /\ IsPrioOrderedFor(suspend_thread, current_priority, Threads \ raised)
        /\ IsPrioOrderedFor(suspend_sender_thread, current_priority, Threads \ raised)
    BY <1>4 DEF IInv, PrioritySelected
  <2> QED BY <1>1, <1>2, <2>1, OthersOrderedFor
<1>5. PrioritySelected'
  BY <1>4 DEF PrioritySelected
<1> QED BY <1>1, <1>3, <1>5, PriorityStep

\* The remaining time of a call (Recalculate) is what its clocks leave of the caller's
\* timeout.
LEMMA RecalculateFacts ==
    ASSUME NEW c \in Calls, c.op # "none", CallOK(c)
    PROVE  LET d == Recalculate(c)
           IN  /\ d \in Calls /\ d.op = c.op /\ d.value = c.value
               /\ d.limit = c.limit
               /\ d.timeout # 0 => (d.timeout > 0 <=> d.limit > 0)
               /\ d.timeout # 0 /\ d.limit > 0 => d.age + d.timeout = d.limit
PROOF
<1>0. /\ c.since \in Nat /\ c.age \in Nat /\ c.timeout \in Nat \cup {-1}
      /\ c.limit \in Nat \cup {-1}
  BY DEF Calls, RT_WAITING_FOREVER
<1>1. CASE c.timeout > 0
  <2> DEFINE left == IF c.since < c.timeout THEN c.timeout - c.since ELSE 0
             e == [c EXCEPT !.timeout = left]
             d == [e EXCEPT !.since = 0]
  <2>1. left \in Nat
    BY <1>0, <1>1
  <2> HIDE DEF left
  <2>2. /\ e \in Calls /\ e.op = c.op /\ e.value = c.value /\ e.limit = c.limit
        /\ e.timeout = left /\ e.age = c.age
    BY <2>1 DEF Calls
  <2>3. Recalculate(c) = d
    BY <1>1 DEF Recalculate, Calls, left
  <2> HIDE DEF e
  <2>4. /\ d \in Calls /\ d.op = c.op /\ d.value = c.value /\ d.limit = c.limit
        /\ d.timeout = left /\ d.age = c.age
    BY <2>2 DEF Calls
  <2> HIDE DEF d
  <2> QED BY <1>0, <1>1, <2>3, <2>4 DEF CallOK, left
<1>2. CASE ~(c.timeout > 0)
  BY <1>0, <1>2 DEF Recalculate, CallOK
<1> QED BY <1>1, <1>2

\* A new call starts with its clocks in order.
LEMMA NewCallFacts ==
    ASSUME NEW op \in {"send", "recv"}, NEW v \in Values \cup {NoMail},
           NEW timeout \in Timeouts, timeout # RT_WAITING_NO
    PROVE  LET c == NewCall(op, v, timeout)
           IN  /\ c \in Calls /\ c.op = op /\ c.value = v /\ c.timeout # 0
               /\ c.timeout > 0 <=> c.limit > 0
               /\ c.limit > 0 => c.age + c.timeout = c.limit
PROOF
<1>1. timeout \in Nat \cup {RT_WAITING_FOREVER}
  BY MailboxAssumption
<1> QED BY <1>1 DEF NewCall, Calls, RT_WAITING_NO, RT_WAITING_FOREVER

\* rt_mb_init leaves an empty box, empty lists and no call: the invariant holds.
LEMMA IInvInit == Init => IInv
PROOF
<1> SUFFICES ASSUME Init PROVE IInv
  OBVIOUS
<1>1. Size \in Nat \ {0} /\ Prio \in [Threads -> Nat]
  BY MailboxAssumption
<1>2. <<>> \in Seq(Threads) /\ DOMAIN <<>> = {}
  OBVIOUS
<1>3. NoCall \in Calls /\ NoCall.op = "none"
  BY DEF NoCall, Calls
<1>4. TypeOK
  BY <1>1, <1>2, <1>3 DEF Init, TypeOK
<1>5. RingConsistent
  BY <1>1 DEF Init, RingConsistent
<1>6. ListsMatchStates /\ ErrorsReset /\ RaisedSleep /\ PrioritySelected /\ NoLostWakeup
  BY <1>2 DEF Init, ListsMatchStates, ErrorsReset, RaisedSleep, PrioritySelected,
              NoLostWakeup, IsDuplicateFree, IsPrioOrderedFor, ToSet
<1>7. CallsOK
  BY <1>3 DEF Init, CallsOK, CallOK
<1> QED BY <1>4, <1>5, <1>6, <1>7 DEF IInv

\* Every step of the kernel, of a thread and of an interrupt handler preserves the
\* invariant: one case per action of Next.
LEMMA IInvNext == IInv /\ [Next]_vars => IInv'
PROOF
<1> SUFFICES ASSUME IInv, [Next]_vars PROVE IInv'
  OBVIOUS
<1>0. RT_WAITING_NO = 0
  BY DEF RT_WAITING_NO
<1>1. ASSUME NEW t \in Threads, NEW v \in Values, NEW to \in Timeouts, rt_mb_send_wait(t, v, to)
      PROVE  IInv'
  <2>1. stat[t] = "ready" /\ call[t].op = "none"
    BY <1>1 DEF rt_mb_send_wait, ThreadRuns
  <2>2. CASE ~IsFull /\ PutMail(v) /\ UNCHANGED <<error, call, got>>
    BY <2>2, PutMailStep
  <2>3. CASE UNCHANGED vars
    BY <2>3 DEF vars, IInv, TypeOK, RingConsistent, ListsMatchStates, ErrorsReset, CallsOK,
                RaisedSleep, PrioritySelected, NoLostWakeup, WokenReceivers, WokenSenders
  <2>4. CASE IsFull /\ to # RT_WAITING_NO /\ SuspendSender(t, NewCall("send", v, to))
    <3> DEFINE c == NewCall("send", v, to)
    <3>1. /\ c \in Calls /\ c.op = "send" /\ c.value \in Values /\ c.timeout # 0
          /\ c.timeout > 0 <=> c.limit > 0
          /\ c.limit > 0 => c.age + c.timeout = c.limit
      BY <2>4, NewCallFacts
    <3> HIDE DEF c
    <3>2. SuspendSender(t, c)
      BY <2>4 DEF c
    <3> QED BY <2>1, <2>4, <3>1, <3>2, SuspendSenderStep
  <2> QED BY <1>1, <2>2, <2>3, <2>4 DEF rt_mb_send_wait
<1>2. ASSUME NEW t \in Threads, NEW to \in Timeouts, rt_mb_recv(t, to)
      PROVE  IInv'
  <2>1. stat[t] = "ready" /\ call[t].op = "none"
    BY <1>2 DEF rt_mb_recv, ThreadRuns
  <2>2. CASE ~IsEmpty /\ TakeMail(t) /\ UNCHANGED <<error, call>>
    BY <2>2, TakeMailStep
  <2>3. CASE UNCHANGED vars
    BY <2>3 DEF vars, IInv, TypeOK, RingConsistent, ListsMatchStates, ErrorsReset, CallsOK,
                RaisedSleep, PrioritySelected, NoLostWakeup, WokenReceivers, WokenSenders
  <2>4. CASE IsEmpty /\ to # RT_WAITING_NO /\ SuspendReceiver(t, NewCall("recv", NoMail, to))
    <3> DEFINE c == NewCall("recv", NoMail, to)
    <3>1. /\ c \in Calls /\ c.op = "recv" /\ c.timeout # 0
          /\ c.timeout > 0 <=> c.limit > 0
          /\ c.limit > 0 => c.age + c.timeout = c.limit
      BY <2>4, NewCallFacts
    <3> HIDE DEF c
    <3>2. SuspendReceiver(t, c)
      BY <2>4 DEF c
    <3> QED BY <2>1, <2>4, <3>1, <3>2, SuspendReceiverStep
  <2> QED BY <1>2, <2>2, <2>3, <2>4 DEF rt_mb_recv
<1>3. ASSUME NEW t \in Threads, SendResumed(t) PROVE IInv'
  <2> DEFINE c == Recalculate(call[t])
  <2>1. /\ stat[t] = "ready" /\ call[t].op = "send"
        /\ call[t] \in Calls /\ CallOK(call[t])
        /\ error[t] \in {"EOK", "ETIMEOUT", "ERROR"}
    BY <1>3 DEF SendResumed, ThreadRuns, IInv, TypeOK, CallsOK
  <2>2. /\ c \in Calls /\ c.op = "send" /\ c.value \in Values
        /\ c.timeout # 0 => (c.timeout > 0 <=> c.limit > 0)
        /\ c.timeout # 0 /\ c.limit > 0 => c.age + c.timeout = c.limit
    BY <2>1, RecalculateFacts DEF CallOK
  <2>3. \/ error[t] # "EOK" /\ Refuse(t, error[t])
        \/ error[t] = "EOK" /\ ~IsFull /\ PutMail(c.value) /\ Return(t) /\ UNCHANGED <<error, got>>
        \/ IsFull /\ Refuse(t, "EOK")
        \/ IsFull /\ c.timeout # 0 /\ SuspendSender(t, c)
    BY <1>3, <1>0 DEF SendResumed
  <2> HIDE DEF c
  <2>4. CASE error[t] # "EOK" /\ Refuse(t, error[t])
    BY <2>1, <2>4, RefuseStep
  <2>5. CASE error[t] = "EOK" /\ ~IsFull /\ PutMail(c.value) /\ Return(t) /\ UNCHANGED <<error, got>>
    <3>1. t \in WokenSenders
      BY <2>1, <2>5 DEF WokenSenders
    <3> QED BY <2>2, <2>5, <3>1, PutMailStep DEF Return
  <2>6. CASE IsFull /\ Refuse(t, "EOK")
    BY <2>1, <2>6, RefuseStep
  <2>7. CASE IsFull /\ c.timeout # 0 /\ SuspendSender(t, c)
    BY <2>1, <2>2, <2>7, SuspendSenderStep
  <2> QED BY <2>3, <2>4, <2>5, <2>6, <2>7
<1>4. ASSUME NEW t \in Threads, RecvResumed(t) PROVE IInv'
  <2> DEFINE c == Recalculate(call[t])
  <2>1. /\ stat[t] = "ready" /\ call[t].op = "recv"
        /\ call[t] \in Calls /\ CallOK(call[t])
        /\ error[t] \in {"EOK", "ETIMEOUT", "ERROR"}
    BY <1>4 DEF RecvResumed, ThreadRuns, IInv, TypeOK, CallsOK
  <2>2. /\ c \in Calls /\ c.op = "recv"
        /\ c.timeout # 0 => (c.timeout > 0 <=> c.limit > 0)
        /\ c.timeout # 0 /\ c.limit > 0 => c.age + c.timeout = c.limit
    BY <2>1, RecalculateFacts
  <2>3. \/ error[t] # "EOK" /\ Refuse(t, error[t])
        \/ error[t] = "EOK" /\ ~IsEmpty /\ TakeMail(t) /\ Return(t) /\ UNCHANGED error
        \/ IsEmpty /\ Refuse(t, "ETIMEOUT")
        \/ IsEmpty /\ c.timeout # 0 /\ SuspendReceiver(t, c)
    BY <1>4, <1>0 DEF RecvResumed
  <2> HIDE DEF c
  <2>4. CASE error[t] # "EOK" /\ Refuse(t, error[t])
    BY <2>1, <2>4, RefuseStep
  <2>5. CASE error[t] = "EOK" /\ ~IsEmpty /\ TakeMail(t) /\ Return(t) /\ UNCHANGED error
    <3>1. t \in WokenReceivers
      BY <2>1, <2>5 DEF WokenReceivers
    <3> QED BY <2>5, <3>1, TakeMailStep DEF Return
  <2>6. CASE IsEmpty /\ Refuse(t, "ETIMEOUT")
    BY <2>1, <2>6, RefuseStep
  <2>7. CASE IsEmpty /\ c.timeout # 0 /\ SuspendReceiver(t, c)
    BY <2>1, <2>2, <2>7, SuspendReceiverStep
  <2> QED BY <2>3, <2>4, <2>5, <2>6, <2>7
<1>5. ASSUME NEW v \in Values, IsrSend(v) PROVE IInv'
  BY <1>5, PutMailStep DEF IsrSend
<1>6. CASE rt_mb_control
  BY <1>6, ResetStep
<1>7. CASE rt_tick_increase
  BY <1>7, TickStep
<1>8. ASSUME NEW t \in Threads, rt_thread_timeout(t) PROVE IInv'
  BY <1>8, UnlinkStep DEF rt_thread_timeout, Due, mbVars
<1>9. ASSUME NEW t \in Threads, rt_thread_resume(t) PROVE IInv'
  <2>1. stat[t] = "suspend" /\ error' = [error EXCEPT ![t] = "EOK"]
    BY <1>9 DEF rt_thread_resume, IInv, TypeOK, ErrorsReset
  <2> QED BY <1>9, <2>1, UnlinkStep DEF rt_thread_resume, mbVars
<1>10. CASE UNCHANGED vars
  BY <1>10 DEF vars, IInv, TypeOK, RingConsistent, ListsMatchStates, ErrorsReset, CallsOK,
               RaisedSleep, PrioritySelected, NoLostWakeup, WokenReceivers, WokenSenders
<1>11. ASSUME NEW t \in Threads, NEW p \in Nat, InheritPriority(t, p) PROVE IInv'
  BY <1>11, InheritStep
<1>12. ASSUME NEW t \in Threads, NEW p \in Nat, GiveBackPriority(t, p) PROVE IInv'
  BY <1>12, GiveBackStep
<1>13. Inherited \subseteq Nat /\ \A t \in Threads : Prio[t] \in Nat
  BY MailboxAssumption
<1> QED BY <1>1, <1>2, <1>3, <1>4, <1>5, <1>6, <1>7, <1>8, <1>9, <1>10, <1>11, <1>12, <1>13
        DEF Next

-----------------------------------------------------------------------------
\* All the invariants at once.
THEOREM Invariance == Spec => []IInv
PROOF
BY IInvInit, IInvNext, PTL DEF Spec

\* Every variable keeps its type: in particular in_offset and out_offset, with which
\* rt_mb_send_wait and rt_mb_recv index msg_pool unchecked, stay inside the pool.
THEOREM TypeCorrect == Spec => []TypeOK
PROOF
<1>1. IInv => TypeOK
  BY DEF IInv
<1> QED BY <1>1, Invariance, PTL

\* The mails lie in one contiguous stretch of the ring, for every capacity.
THEOREM RingIsConsistent == Spec => []RingConsistent
PROOF
<1>1. IInv => RingConsistent
  BY DEF IInv
<1> QED BY <1>1, Invariance, PTL

\* No sequence of sends, receives, timeouts, resets and foreign resumes, by any number
\* of threads, leaves a sleeping receiver beside a mail that nobody comes for, or a
\* sleeping sender beside a free slot.
THEOREM NoWakeupIsLost == Spec => []NoLostWakeup
PROOF
<1>1. IInv => NoLostWakeup
  BY DEF IInv
<1> QED BY <1>1, Invariance, PTL

\* A thread sleeps exactly when it is linked, once, in the list of its call.
THEOREM ListsAgreeWithStates == Spec => []ListsMatchStates
PROOF
<1>1. IInv => ListsMatchStates
  BY DEF IInv
<1> QED BY <1>1, Invariance, PTL

\* However often a call is overtaken and suspended again, its timer never runs past
\* the timeout the caller asked for.
THEOREM DeadlinesAreKept == Spec => []DeadlineKept
PROOF
<1>1. IInv => DeadlineKept
  BY DEF IInv, CallsOK, CallOK, ListsMatchStates, DeadlineKept
<1> QED BY <1>1, Invariance, PTL

\* With RT_IPC_FLAG_PRIO nobody waits behind a less urgent thread but a waiter that has
\* inherited its urgency since it began to wait, whatever mutexes the threads own.
THEOREM MostUrgentFirst == Spec => []PrioritySelected
PROOF
<1>1. IInv => PrioritySelected
  BY DEF IInv
<1> QED BY <1>1, Invariance, PTL

-----------------------------------------------------------------------------
(***************************************************************************)
(* The mailbox implements the bounded FIFO, for any capacity and any       *)
(* number of threads: every step of Mailbox is a step of BoundedFifo on    *)
(* MailQueue, or leaves it alone.                                          *)
(***************************************************************************)
\* MailQueue as a function of the ring it is read from.
QueueOf(pool, n, out) == [i \in 1 .. n |-> pool[(out + (i - 1)) % Size]]

\* What a slot may hold.
Contents == Values \cup {NoMail}

\* The slot of the k-th mail behind the oldest one.
Slot(out, k) == IF out + k < Size THEN out + k ELSE out + k - Size

\* The abstract queue: its length is entry, and its k-th mail lies in the k-th occupied
\* slot of msg_pool.
LEMMA QueueFacts ==
    ASSUME NEW pool \in [0 .. Size - 1 -> Contents], NEW n \in 0 .. Size,
           NEW out \in 0 .. Size - 1
    PROVE  /\ QueueOf(pool, n, out) \in Seq(Contents)
           /\ Len(QueueOf(pool, n, out)) = n
           /\ \A i \in 1 .. n : QueueOf(pool, n, out)[i] = pool[Slot(out, i - 1)]
PROOF
<1>1. Size \in Nat \ {0} /\ n \in Nat /\ n <= Size
  BY MailboxAssumption
<1>2. ASSUME NEW i \in 1 .. n
      PROVE  /\ (out + (i - 1)) % Size = Slot(out, i - 1)
             /\ Slot(out, i - 1) \in 0 .. Size - 1
  <2>1. \A k \in 0 .. Size : (out + k) % Size = Slot(out, k)
    BY <1>1, RingStep DEF Slot
  <2>2. i - 1 \in 0 .. Size /\ Slot(out, i - 1) \in 0 .. Size - 1
    BY <1>1 DEF Slot
  <2> QED BY <2>1, <2>2
<1> DEFINE q == QueueOf(pool, n, out)
<1>3. q = [i \in 1 .. n |-> pool[(out + (i - 1)) % Size]]
  BY DEF QueueOf
<1> HIDE DEF q
<1>4. q \in [1 .. n -> Contents]
  BY <1>2, <1>3
<1>5. q \in Seq(Contents) /\ DOMAIN q = 1 .. n
  BY <1>1, <1>4, IsASeq
<1>6. Len(q) = n
  BY <1>1, <1>5, LenProperties
<1>7. \A i \in 1 .. n : q[i] = pool[Slot(out, i - 1)]
  BY <1>2, <1>3
<1> QED BY <1>5, <1>6, <1>7 DEF q

\* Storing a mail appends it to the queue: the slot written is none of the occupied ones.
LEMMA PutIsEnqueue ==
    ASSUME IInv, NEW v \in Values, ~IsFull, PutMail(v), got' = got
    PROVE  Fifo!Enqueue(v)
PROOF
<1> DEFINE pool == [msg_pool EXCEPT ![in_offset] = v]
           q == QueueOf(msg_pool, entry, out_offset)
           r == QueueOf(pool, entry + 1, out_offset)
<1>1. /\ Size \in Nat \ {0} /\ entry \in 0 .. Size - 1 /\ out_offset \in 0 .. Size - 1
      /\ in_offset \in 0 .. Size - 1 /\ msg_pool \in [0 .. Size - 1 -> Contents]
  BY MailboxAssumption DEF IInv, TypeOK, IsFull, Contents
<1>2. MailQueue = q /\ MailQueue' = r
  BY DEF PutMail, MailQueue, QueueOf
<1>3. pool \in [0 .. Size - 1 -> Contents] /\ entry \in 0 .. Size /\ entry + 1 \in 0 .. Size
  BY <1>1 DEF Contents
<1>4. in_offset = Slot(out_offset, entry)
  BY <1>1, <1>3, RingStep DEF IInv, RingConsistent, Slot
<1> HIDE DEF pool
<1>5. /\ q \in Seq(Contents) /\ Len(q) = entry
      /\ \A i \in 1 .. entry : q[i] = msg_pool[Slot(out_offset, i - 1)]
  BY <1>1, <1>3, QueueFacts
<1>6. /\ r \in Seq(Contents) /\ Len(r) = entry + 1
      /\ \A i \in 1 .. entry + 1 : r[i] = pool[Slot(out_offset, i - 1)]
  BY <1>1, <1>3, QueueFacts
<1> USE DEF pool
<1> DEFINE a == Append(q, v)
<1>7. /\ a \in Seq(Contents) /\ Len(a) = entry + 1
      /\ \A i \in 1 .. entry : a[i] = q[i]
      /\ a[entry + 1] = v
  <2> HIDE DEF q
  <2> QED BY <1>5, AppendProperties DEF Contents
<1> HIDE DEF q, r, a
<1>8. ASSUME NEW i \in 1 .. entry + 1 PROVE r[i] = a[i]
  <2>1. CASE i = entry + 1
    <3>1. Slot(out_offset, i - 1) = in_offset
      BY <2>1, <1>1, <1>4
    <3>2. pool[in_offset] = v
      BY <1>1
    <3> QED BY <2>1, <3>1, <3>2, <1>6, <1>7
  <2>2. CASE i \in 1 .. entry
    <3>1. Slot(out_offset, i - 1) # in_offset /\ Slot(out_offset, i - 1) \in 0 .. Size - 1
      BY <2>2, <1>1, <1>4 DEF Slot
    <3>2. pool[Slot(out_offset, i - 1)] = msg_pool[Slot(out_offset, i - 1)]
      BY <3>1, <1>1
    <3> QED BY <2>2, <3>2, <1>5, <1>6, <1>7
  <2> QED BY <2>1, <2>2, <1>1
<1>9. r = a
  BY <1>6, <1>7, <1>8, SeqEqual
<1> QED BY <1>1, <1>2, <1>5, <1>9 DEF Fifo!Enqueue, a

\* Fetching a mail hands out the oldest one and leaves the others in order.
LEMMA TakeIsDequeue ==
    ASSUME IInv, NEW t \in Threads, ~IsEmpty, TakeMail(t)
    PROVE  Fifo!Dequeue(t)
PROOF
<1> DEFINE q == QueueOf(msg_pool, entry, out_offset)
           r == QueueOf(msg_pool, entry - 1, NextOffset(out_offset))
           a == Tail(q)
<1>1. /\ Size \in Nat \ {0} /\ entry \in 1 .. Size /\ out_offset \in 0 .. Size - 1
      /\ msg_pool \in [0 .. Size - 1 -> Contents]
  BY MailboxAssumption DEF IInv, TypeOK, IsEmpty, Contents
<1>2. MailQueue = q /\ MailQueue' = r
  BY DEF TakeMail, MailQueue, QueueOf
<1>3. NextOffset(out_offset) \in 0 .. Size - 1 /\ entry \in 0 .. Size /\ entry - 1 \in 0 .. Size
  BY <1>1 DEF NextOffset
<1>4. /\ q \in Seq(Contents) /\ Len(q) = entry
      /\ \A i \in 1 .. entry : q[i] = msg_pool[Slot(out_offset, i - 1)]
  BY <1>1, <1>3, QueueFacts
<1>5. /\ r \in Seq(Contents) /\ Len(r) = entry - 1
      /\ \A i \in 1 .. entry - 1 : r[i] = msg_pool[Slot(NextOffset(out_offset), i - 1)]
  BY <1>1, <1>3, QueueFacts
<1> HIDE DEF q, r
<1>6. q # <<>>
  BY <1>1, <1>4
<1>7. /\ a \in Seq(Contents) /\ Len(a) = entry - 1
      /\ \A i \in 1 .. entry - 1 : a[i] = q[i + 1]
  BY <1>4, <1>6, HeadTailProperties
<1>8. Head(q) = msg_pool[out_offset]
  <2>1. 1 \in 1 .. entry /\ Slot(out_offset, 1 - 1) = out_offset
    BY <1>1 DEF Slot
  <2>2. Head(q) = q[1]
    BY <1>4, <1>6
  <2> QED BY <2>1, <2>2, <1>4
<1> HIDE DEF a
<1>9. ASSUME NEW i \in 1 .. entry - 1 PROVE r[i] = a[i]
  <2>1. i + 1 \in 1 .. entry
    BY <1>1
  <2>2. Slot(NextOffset(out_offset), i - 1) = Slot(out_offset, (i + 1) - 1)
    BY <1>1, <2>1 DEF NextOffset, Slot
  <2> QED BY <2>1, <2>2, <1>4, <1>5, <1>7
<1>10. r = a
  BY <1>5, <1>7, <1>9, SeqEqual
<1> QED BY <1>2, <1>6, <1>8, <1>10 DEF Fifo!Dequeue, TakeMail, a

\* rt_mb_init leaves an empty queue.
LEMMA RefinementInit == Init => Fifo!Init
PROOF
<1> SUFFICES ASSUME Init PROVE MailQueue = <<>>
  BY DEF Init, Fifo!Init
<1> QED BY DEF Init, MailQueue

\* Every step of the mailbox appends to the queue, hands out its head, empties it or
\* leaves it alone.
LEMMA RefinementNext == IInv /\ [Next]_vars => [Fifo!Next]_(Fifo!fifoVars)
PROOF
<1> SUFFICES ASSUME IInv, [Next]_vars PROVE [Fifo!Next]_(Fifo!fifoVars)
  OBVIOUS
<1>0. ASSUME UNCHANGED <<msg_pool, entry, out_offset, got>>
      PROVE  UNCHANGED Fifo!fifoVars
  BY <1>0 DEF Fifo!fifoVars, MailQueue
<1>1. ASSUME NEW t \in Threads, NEW v \in Values, NEW to \in Timeouts, rt_mb_send_wait(t, v, to)
      PROVE  [Fifo!Next]_(Fifo!fifoVars)
  <2>1. CASE ~IsFull /\ PutMail(v) /\ got' = got
    BY <2>1, PutIsEnqueue DEF Fifo!Next
  <2>2. CASE UNCHANGED <<msg_pool, entry, out_offset, got>>
    BY <2>2, <1>0
  <2> QED BY <1>1, <2>1, <2>2 DEF rt_mb_send_wait, SuspendSender, Suspend, vars, mbVars
<1>2. ASSUME NEW t \in Threads, NEW to \in Timeouts, rt_mb_recv(t, to)
      PROVE  [Fifo!Next]_(Fifo!fifoVars)
  <2>1. CASE ~IsEmpty /\ TakeMail(t)
    BY <2>1, TakeIsDequeue DEF Fifo!Next
  <2>2. CASE UNCHANGED <<msg_pool, entry, out_offset, got>>
    BY <2>2, <1>0
  <2> QED BY <1>2, <2>1, <2>2 DEF rt_mb_recv, SuspendReceiver, Suspend, vars, mbVars
<1>3. ASSUME NEW t \in Threads, SendResumed(t)
      PROVE  [Fifo!Next]_(Fifo!fifoVars)
  <2>1. call[t] \in Calls /\ CallOK(call[t]) /\ call[t].op = "send"
    BY <1>3 DEF SendResumed, IInv, TypeOK, CallsOK
  <2>2. Recalculate(call[t]).value \in Values
    BY <2>1, RecalculateFacts DEF CallOK
  <2>3. CASE ~IsFull /\ PutMail(Recalculate(call[t]).value) /\ got' = got
    BY <2>2, <2>3, PutIsEnqueue DEF Fifo!Next
  <2>4. CASE UNCHANGED <<msg_pool, entry, out_offset, got>>
    BY <2>4, <1>0
  <2> QED BY <1>3, <2>3, <2>4 DEF SendResumed, SuspendSender, Suspend, Refuse, mbVars
<1>4. ASSUME NEW t \in Threads, RecvResumed(t)
      PROVE  [Fifo!Next]_(Fifo!fifoVars)
  <2>1. CASE ~IsEmpty /\ TakeMail(t)
    BY <2>1, TakeIsDequeue DEF Fifo!Next
  <2>2. CASE UNCHANGED <<msg_pool, entry, out_offset, got>>
    BY <2>2, <1>0
  <2> QED BY <1>4, <2>1, <2>2 DEF RecvResumed, SuspendReceiver, Suspend, Refuse, mbVars
<1>5. ASSUME NEW v \in Values, IsrSend(v)
      PROVE  [Fifo!Next]_(Fifo!fifoVars)
  BY <1>5, PutIsEnqueue DEF IsrSend, Fifo!Next
<1>6. ASSUME rt_mb_control
      PROVE  [Fifo!Next]_(Fifo!fifoVars)
  <2>1. MailQueue' = <<>> /\ got' = got
    BY <1>6 DEF rt_mb_control, MailQueue
  <2> QED BY <2>1 DEF Fifo!Next, Fifo!Reset
<1>7. CASE rt_tick_increase
  BY <1>7, <1>0 DEF rt_tick_increase, mbVars
<1>8. ASSUME NEW t \in Threads, rt_thread_timeout(t) \/ rt_thread_resume(t)
      PROVE  [Fifo!Next]_(Fifo!fifoVars)
  BY <1>8, <1>0 DEF rt_thread_timeout, rt_thread_resume, mbVars
<1>9. CASE UNCHANGED vars
  BY <1>9, <1>0 DEF vars
<1>10. ASSUME NEW t \in Threads, NEW p, InheritPriority(t, p) \/ GiveBackPriority(t, p)
      PROVE  [Fifo!Next]_(Fifo!fifoVars)
  BY <1>10, <1>0 DEF InheritPriority, GiveBackPriority, rt_thread_control, mbVars
<1> QED BY <1>1, <1>2, <1>3, <1>4, <1>5, <1>6, <1>7, <1>8, <1>9, <1>10 DEF Next

\* rt_mb_* is a bounded FIFO: each mail reaches exactly one receiver, unchanged and in
\* the order the sends completed; only a reset drops mails.
THEOREM MailboxImplementsFifo == Spec => ImplementsFifo
PROOF
BY RefinementInit, RefinementNext, Invariance, PTL DEF Spec, ImplementsFifo, Fifo!Spec
=============================================================================
