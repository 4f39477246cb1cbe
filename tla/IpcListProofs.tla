--------------------------- MODULE IpcListProofs ---------------------------
(***************************************************************************)
(* What the waiting-list operations of IpcList do to the elements, the     *)
(* uniqueness and the order of a list of any length, for any number of     *)
(* threads and any priorities.                                             *)
(***************************************************************************)
EXTENDS IpcList, SequenceTheorems, WellFoundedInduction, TLAPS

\* Element by element, what rt_list_insert_before in front of waiter i leaves.
LEMMA InsertAtFacts ==
    ASSUME NEW T, NEW l \in Seq(T), NEW i \in 1 .. Len(l), NEW t \in T
    PROVE  /\ InsertAt(l, i, t) \in Seq(T)
           /\ Len(InsertAt(l, i, t)) = Len(l) + 1
           /\ \A j \in 1 .. Len(l) + 1 :
                 InsertAt(l, i, t)[j] = IF j < i THEN l[j] ELSE IF j = i THEN t ELSE l[j - 1]
PROOF
<1> DEFINE a == SubSeq(l, 1, i - 1)
           b == SubSeq(l, i, Len(l))
           ae == a \o <<t>>
<1>0. Len(l) \in Nat /\ \A k \in 1 .. Len(l) : l[k] \in T
  BY LenProperties, ElementOfSeq
<1>1. /\ a \in Seq(T)
      /\ Len(a) = i - 1
      /\ \A j \in 1 .. i - 1 : a[j] = l[j]
  <2>1. 1 \in Int /\ i - 1 \in Int /\ \A k \in 1 .. i - 1 : l[k] \in T
    BY <1>0
  <2>2. /\ a \in Seq(T)
        /\ Len(a) = IF 1 <= i - 1 THEN (i - 1) - 1 + 1 ELSE 0
        /\ \A j \in 1 .. (i - 1) - 1 + 1 : a[j] = l[1 + j - 1]
    BY <2>1, SubSeqProperties
  <2> QED BY <2>2, <1>0
<1>2. /\ b \in Seq(T)
      /\ Len(b) = Len(l) - i + 1
      /\ \A j \in 1 .. Len(l) - i + 1 : b[j] = l[i + j - 1]
  <2>1. i \in Int /\ Len(l) \in Int /\ \A k \in i .. Len(l) : l[k] \in T
    BY <1>0
  <2>2. /\ b \in Seq(T)
        /\ Len(b) = IF i <= Len(l) THEN Len(l) - i + 1 ELSE 0
        /\ \A j \in 1 .. Len(l) - i + 1 : b[j] = l[i + j - 1]
    BY <2>1, SubSeqProperties
  <2> QED BY <2>2, <1>0
<1>3. <<t>> \in Seq(T) /\ Len(<<t>>) = 1 /\ <<t>>[1] = t
  OBVIOUS
<1>4. /\ ae \in Seq(T)
      /\ Len(ae) = i
      /\ \A j \in 1 .. i : ae[j] = IF j < i THEN l[j] ELSE t
  <2>1. /\ ae \in Seq(T)
        /\ Len(ae) = Len(a) + Len(<<t>>)
        /\ \A j \in 1 .. Len(a) + Len(<<t>>) :
              ae[j] = IF j <= Len(a) THEN a[j] ELSE <<t>>[j - Len(a)]
    BY <1>1, <1>3, ConcatProperties
  <2> HIDE DEF a, ae
  <2>2. Len(ae) = i
    BY <2>1, <1>1, <1>3
  <2>3. ASSUME NEW j \in 1 .. i
        PROVE  ae[j] = IF j < i THEN l[j] ELSE t
    <3>1. ae[j] = IF j <= i - 1 THEN a[j] ELSE <<t>>[j - (i - 1)]
      BY <2>1, <1>1, <1>3
    <3>2. CASE j < i
      BY <3>1, <3>2, <1>1
    <3>3. CASE j = i
      <4>1. j - (i - 1) = 1 /\ ~(j <= i - 1)
        BY <3>3
      <4> QED BY <4>1, <3>1, <3>3, <1>3
    <3> QED BY <3>2, <3>3
  <2> QED BY <2>1, <2>2, <2>3
<1>5. /\ ae \o b \in Seq(T)
      /\ Len(ae \o b) = Len(ae) + Len(b)
      /\ \A j \in 1 .. Len(ae) + Len(b) :
            (ae \o b)[j] = IF j <= Len(ae) THEN ae[j] ELSE b[j - Len(ae)]
  BY <1>4, <1>2, ConcatProperties
<1>6. InsertAt(l, i, t) = ae \o b
  BY Zenon DEF InsertAt
<1> HIDE DEF a, b, ae
<1>7. Len(ae \o b) = Len(l) + 1
  BY <1>0, <1>2, <1>4, <1>5
<1>8. ASSUME NEW j \in 1 .. Len(l) + 1
      PROVE  (ae \o b)[j] = IF j < i THEN l[j] ELSE IF j = i THEN t ELSE l[j - 1]
  <2>1. (ae \o b)[j] = IF j <= i THEN ae[j] ELSE b[j - i]
    BY <1>0, <1>2, <1>4, <1>5
  <2>2. CASE j <= i
    BY <2>1, <2>2, <1>4
  <2>3. CASE j > i
    <3>1. j - i \in 1 .. Len(l) - i + 1 /\ i + (j - i) - 1 = j - 1
      BY <2>3, <1>0
    <3> QED BY <3>1, <2>1, <2>3, <1>2
  <2>4. j <= i \/ j > i
    BY <1>0
  <2> QED BY <2>2, <2>3, <2>4, Zenon
<1> QED BY <1>5, <1>6, <1>7, <1>8

\* Element by element, what rt_list_remove of waiter i leaves.
LEMMA RemoveAtFacts ==
    ASSUME NEW T, NEW l \in Seq(T), NEW i \in 1 .. Len(l)
    PROVE  /\ RemoveAt(l, i) \in Seq(T)
           /\ Len(RemoveAt(l, i)) = Len(l) - 1
           /\ \A j \in 1 .. Len(l) - 1 :
                 RemoveAt(l, i)[j] = IF j < i THEN l[j] ELSE l[j + 1]
PROOF
<1> DEFINE a == SubSeq(l, 1, i - 1)
           b == SubSeq(l, i + 1, Len(l))
<1>0. Len(l) \in Nat /\ \A k \in 1 .. Len(l) : l[k] \in T
  BY LenProperties, ElementOfSeq
<1>1. /\ a \in Seq(T)
      /\ Len(a) = i - 1
      /\ \A j \in 1 .. i - 1 : a[j] = l[j]
  <2>1. 1 \in Int /\ i - 1 \in Int /\ \A k \in 1 .. i - 1 : l[k] \in T
    BY <1>0
  <2>2. /\ a \in Seq(T)
        /\ Len(a) = IF 1 <= i - 1 THEN (i - 1) - 1 + 1 ELSE 0
        /\ \A j \in 1 .. (i - 1) - 1 + 1 : a[j] = l[1 + j - 1]
    BY <2>1, SubSeqProperties
  <2> QED BY <2>2, <1>0
<1>2. /\ b \in Seq(T)
      /\ Len(b) = Len(l) - i
      /\ \A j \in 1 .. Len(l) - i : b[j] = l[i + j]
  <2>1. i + 1 \in Int /\ Len(l) \in Int /\ \A k \in i + 1 .. Len(l) : l[k] \in T
    BY <1>0
  <2>2. /\ b \in Seq(T)
        /\ Len(b) = IF i + 1 <= Len(l) THEN Len(l) - (i + 1) + 1 ELSE 0
        /\ \A j \in 1 .. Len(l) - (i + 1) + 1 : b[j] = l[(i + 1) + j - 1]
    BY <2>1, SubSeqProperties
  <2>3. \A j \in 1 .. Len(l) - i : j \in 1 .. Len(l) - (i + 1) + 1 /\ (i + 1) + j - 1 = i + j
    BY <1>0
  <2> HIDE DEF b
  <2> QED BY <2>2, <2>3, <1>0
<1>3. /\ a \o b \in Seq(T)
      /\ Len(a \o b) = Len(a) + Len(b)
      /\ \A j \in 1 .. Len(a) + Len(b) :
            (a \o b)[j] = IF j <= Len(a) THEN a[j] ELSE b[j - Len(a)]
  BY <1>1, <1>2, ConcatProperties
<1>4. RemoveAt(l, i) = a \o b
  BY Zenon DEF RemoveAt
<1> HIDE DEF a, b
<1>5. Len(a \o b) = Len(l) - 1
  BY <1>0, <1>1, <1>2, <1>3
<1>6. ASSUME NEW j \in 1 .. Len(l) - 1
      PROVE  (a \o b)[j] = IF j < i THEN l[j] ELSE l[j + 1]
  <2>1. (a \o b)[j] = IF j <= i - 1 THEN a[j] ELSE b[j - (i - 1)]
    BY <1>0, <1>1, <1>2, <1>3
  <2>2. CASE j < i
    BY <2>1, <2>2, <1>1
  <2>3. CASE j >= i
    <3>1. j - (i - 1) \in 1 .. Len(l) - i /\ i + (j - (i - 1)) = j + 1 /\ ~(j <= i - 1)
      BY <2>3, <1>0
    <3> QED BY <3>1, <2>1, <2>3, <1>2
  <2>4. j < i \/ j >= i
    BY <1>0
  <2> QED BY <2>2, <2>3, <2>4, Zenon
<1> QED BY <1>3, <1>4, <1>5, <1>6

-----------------------------------------------------------------------------
\* The search loop of rt_ipc_list_suspend stops at the first match: a non-empty set
\* of positions has a smallest one.
LEMMA SmallestNat ==
    ASSUME NEW S \in SUBSET Nat, S # {}
    PROVE  \E m \in S : \A n \in S : m <= n
PROOF
<1> DEFINE R == OpToRel(<, Nat)
<1>1. \A x, y \in Nat : x < y => <<x, y>> \in R
  BY DEF OpToRel
<1>2. IsWellFoundedOn(R, Nat)
  BY NatLessThanWellFounded
<1> HIDE DEF R
<1>3. PICK m \in S : \A n \in S : ~(<<n, m>> \in R)
  BY <1>2, WFMin
<1>4. ASSUME NEW n \in S PROVE m <= n
  <2>1. m \in Nat /\ n \in Nat
    OBVIOUS
  <2>2. ~(n < m)
    BY <2>1, <1>1, <1>3
  <2> QED BY <2>1, <2>2
<1> QED BY <1>4

\* rt_ipc_list_suspend links exactly the new waiter, once.
LEMMA SuspendFacts ==
    ASSUME NEW T, NEW l \in Seq(T), NEW t \in T, NEW flag \in IpcFlags,
           NEW prio \in [T -> Nat]
    PROVE  LET r == rt_ipc_list_suspend(l, t, flag, prio)
           IN  /\ r \in Seq(T)
               /\ r # <<>>
               /\ ToSet(r) = ToSet(l) \cup {t}
               /\ IsDuplicateFree(l) /\ t \notin ToSet(l) => IsDuplicateFree(r)
PROOF
<1> DEFINE r == rt_ipc_list_suspend(l, t, flag, prio)
<1>0. /\ Len(l) \in Nat
      /\ DOMAIN l = 1 .. Len(l)
      /\ \A k \in 1 .. Len(l) : l[k] \in T
  BY LenProperties, ElementOfSeq
<1>1. CASE flag = RT_IPC_FLAG_PRIO /\ \E i \in DOMAIN l : IsInsertPos(l, t, prio, i)
  <2>1. PICK i \in 1 .. Len(l) : IsInsertPos(l, t, prio, i) /\ r = InsertAt(l, i, t)
    <3> DEFINE c == CHOOSE i \in DOMAIN l : IsInsertPos(l, t, prio, i)
    <3>1. c \in DOMAIN l /\ IsInsertPos(l, t, prio, c)
      BY <1>1, Zenon
    <3>2. r = InsertAt(l, c, t)
      BY <1>1, Zenon DEF rt_ipc_list_suspend
    <3> QED BY <3>1, <3>2, <1>0, Zenon
  <2>2. /\ r \in Seq(T)
        /\ Len(r) = Len(l) + 1
        /\ \A j \in 1 .. Len(l) + 1 :
              r[j] = IF j < i THEN l[j] ELSE IF j = i THEN t ELSE l[j - 1]
    <3>1. /\ InsertAt(l, i, t) \in Seq(T)
          /\ Len(InsertAt(l, i, t)) = Len(l) + 1
          /\ \A j \in 1 .. Len(l) + 1 : InsertAt(l, i, t)[j] =
                IF j < i THEN l[j] ELSE IF j = i THEN t ELSE l[j - 1]
      BY InsertAtFacts
    <3> HIDE DEF r
    <3> QED BY <2>1, <3>1, Zenon
  <2>3. DOMAIN r = 1 .. Len(l) + 1
    BY <2>2, LenProperties
  <2> HIDE DEF r
  <2>4. r # <<>>
    BY <2>2, <1>0
  <2>5. ToSet(r) = ToSet(l) \cup {t}
    <3>1. ASSUME NEW x \in ToSet(r) PROVE x \in ToSet(l) \cup {t}
      <4>1. PICK j \in 1 .. Len(l) + 1 : x = r[j]
        BY <2>3 DEF ToSet
      <4>2. CASE j = i
        BY <4>1, <4>2, <2>2
      <4>3. CASE j < i
        <5>1. j \in DOMAIN l /\ x = l[j]
          BY <4>1, <4>3, <2>2, <1>0
        <5> QED BY <5>1 DEF ToSet
      <4>4. CASE j > i
        <5>1. j - 1 \in DOMAIN l /\ x = l[j - 1]
          BY <4>1, <4>4, <2>2, <1>0
        <5> QED BY <5>1 DEF ToSet
      <4> QED BY <4>2, <4>3, <4>4
    <3>2. ASSUME NEW x \in ToSet(l) PROVE x \in ToSet(r)
      <4>1. PICK j \in 1 .. Len(l) : x = l[j]
        BY <1>0 DEF ToSet
      <4>2. CASE j < i
        <5>1. j \in 1 .. Len(l) + 1 /\ r[j] = x
          BY <4>1, <4>2, <2>2, <1>0
        <5> QED BY <5>1, <2>3 DEF ToSet
      <4>3. CASE j >= i
        <5>1. j + 1 \in 1 .. Len(l) + 1 /\ r[j + 1] = x
          BY <4>1, <4>3, <2>2, <1>0
        <5> QED BY <5>1, <2>3 DEF ToSet
      <4> QED BY <4>2, <4>3
    <3>3. t \in ToSet(r)
      <4>1. i \in 1 .. Len(l) + 1 /\ r[i] = t
        BY <2>2, <1>0
      <4> QED BY <4>1, <2>3 DEF ToSet
    <3> QED BY <3>1, <3>2, <3>3
  <2>6. ASSUME IsDuplicateFree(l), t \notin ToSet(l) PROVE IsDuplicateFree(r)
    <3>1. \A k \in 1 .. Len(l) : l[k] # t
      BY <2>6, <1>0 DEF ToSet
    <3>2. \A j, k \in 1 .. Len(l) : j # k => l[j] # l[k]
      BY <2>6, <1>0 DEF IsDuplicateFree
    <3>3. ASSUME NEW j \in 1 .. Len(l) + 1, NEW k \in 1 .. Len(l) + 1, j < k
          PROVE  r[j] # r[k]
      <4>1. CASE k < i
        <5>1. j \in 1 .. Len(l) /\ k \in 1 .. Len(l) /\ r[j] = l[j] /\ r[k] = l[k]
          BY <4>1, <3>3, <2>2, <1>0
        <5> QED BY <5>1, <3>2, <3>3
      <4>2. CASE k = i
        <5>1. j \in 1 .. Len(l) /\ r[j] = l[j] /\ r[k] = t
          BY <4>2, <3>3, <2>2, <1>0
        <5> QED BY <5>1, <3>1
      <4>3. CASE k > i /\ j < i
        <5>1. /\ j \in 1 .. Len(l) /\ k - 1 \in 1 .. Len(l) /\ j # k - 1
              /\ r[j] = l[j] /\ r[k] = l[k - 1]
          BY <4>3, <3>3, <2>2, <1>0
        <5> QED BY <5>1, <3>2
      <4>4. CASE k > i /\ j = i
        <5>1. k - 1 \in 1 .. Len(l) /\ r[j] = t /\ r[k] = l[k - 1]
          BY <4>4, <3>3, <2>2, <1>0
        <5> QED BY <5>1, <3>1
      <4>5. CASE k > i /\ j > i
        <5>1. /\ j - 1 \in 1 .. Len(l) /\ k - 1 \in 1 .. Len(l) /\ j - 1 # k - 1
              /\ r[j] = l[j - 1] /\ r[k] = l[k - 1]
          BY <4>5, <3>3, <2>2, <1>0
        <5> QED BY <5>1, <3>2
      <4> QED BY <4>1, <4>2, <4>3, <4>4, <4>5, <1>0
    <3> QED BY <3>3, <2>3, <1>0 DEF IsDuplicateFree
  <2> QED BY <2>2, <2>4, <2>5, <2>6 DEF r
<1>2. CASE ~(flag = RT_IPC_FLAG_PRIO /\ \E i \in DOMAIN l : IsInsertPos(l, t, prio, i))
  <2>1. r = Append(l, t)
    BY <1>2, Zenon DEF rt_ipc_list_suspend
  <2>2. /\ r \in Seq(T)
        /\ r # <<>>
        /\ Len(r) = Len(l) + 1
        /\ \A j \in 1 .. Len(l) : r[j] = l[j]
        /\ r[Len(l) + 1] = t
    BY <2>1, AppendProperties
  <2>3. DOMAIN r = 1 .. Len(l) + 1
    BY <2>2, LenProperties
  <2> HIDE DEF r
  <2>5. ToSet(r) = ToSet(l) \cup {t}
    <3>1. \A j \in 1 .. Len(l) + 1 : j \in 1 .. Len(l) \/ j = Len(l) + 1
      BY <1>0
    <3>2. Len(l) + 1 \in 1 .. Len(l) + 1 /\ 1 .. Len(l) \subseteq 1 .. Len(l) + 1
      BY <1>0
    <3> QED BY <3>1, <3>2, <2>2, <2>3, <1>0 DEF ToSet
  <2>6. ASSUME IsDuplicateFree(l), t \notin ToSet(l) PROVE IsDuplicateFree(r)
    <3>1. \A k \in 1 .. Len(l) : l[k] # t
      BY <2>6, <1>0 DEF ToSet
    <3>2. \A j, k \in 1 .. Len(l) : j # k => l[j] # l[k]
      BY <2>6, <1>0 DEF IsDuplicateFree
    <3>3. ASSUME NEW j \in 1 .. Len(l) + 1, NEW k \in 1 .. Len(l) + 1, j < k
          PROVE  r[j] # r[k]
      <4>1. j \in 1 .. Len(l) /\ r[j] = l[j]
        BY <3>3, <2>2, <1>0
      <4>2. CASE k = Len(l) + 1
        BY <4>1, <4>2, <3>1, <2>2
      <4>3. CASE k # Len(l) + 1
        <5>1. k \in 1 .. Len(l) /\ r[k] = l[k]
          BY <4>3, <2>2, <1>0
        <5> QED BY <4>1, <5>1, <3>2, <3>3
      <4> QED BY <4>2, <4>3
    <3> QED BY <3>3, <2>3, <1>0 DEF IsDuplicateFree
  <2> QED BY <2>2, <2>5, <2>6 DEF r
<1> QED BY <1>1, <1>2

\* rt_list_remove takes off exactly the named waiter and disturbs nobody else.
LEMMA UnlinkFacts ==
    ASSUME NEW T, NEW l \in Seq(T), NEW t \in T, IsDuplicateFree(l)
    PROVE  LET r == Unlink(l, t)
           IN  /\ r \in Seq(T)
               /\ ToSet(r) = ToSet(l) \ {t}
               /\ IsDuplicateFree(r)
               /\ r # <<>> => l # <<>>
PROOF
<1> DEFINE r == Unlink(l, t)
<1>0. /\ Len(l) \in Nat
      /\ DOMAIN l = 1 .. Len(l)
      /\ \A k \in 1 .. Len(l) : l[k] \in T
  BY LenProperties, ElementOfSeq
<1>1. CASE ~\E i \in DOMAIN l : l[i] = t
  <2>1. r = l
    BY <1>1, Zenon DEF Unlink
  <2>2. ToSet(l) = ToSet(l) \ {t}
    BY <1>1 DEF ToSet
  <2> HIDE DEF r
  <2> QED BY <2>1, <2>2, Zenon DEF r
<1>2. CASE \E i \in DOMAIN l : l[i] = t
  <2>1. PICK i \in 1 .. Len(l) : l[i] = t /\ r = RemoveAt(l, i)
    <3> DEFINE c == CHOOSE i \in DOMAIN l : l[i] = t
    <3>1. c \in DOMAIN l /\ l[c] = t
      BY <1>2, Zenon
    <3>2. r = RemoveAt(l, c)
      BY <1>2, Zenon DEF Unlink
    <3> QED BY <3>1, <3>2, <1>0, Zenon
  <2>2. /\ r \in Seq(T)
        /\ Len(r) = Len(l) - 1
        /\ \A j \in 1 .. Len(l) - 1 : r[j] = IF j < i THEN l[j] ELSE l[j + 1]
    <3>1. /\ RemoveAt(l, i) \in Seq(T)
          /\ Len(RemoveAt(l, i)) = Len(l) - 1
          /\ \A j \in 1 .. Len(l) - 1 : RemoveAt(l, i)[j] = IF j < i THEN l[j] ELSE l[j + 1]
      BY RemoveAtFacts
    <3> HIDE DEF r
    <3> QED BY <2>1, <3>1, Zenon
  <2>3. DOMAIN r = 1 .. Len(l) - 1
    BY <2>2, LenProperties
  <2> HIDE DEF r
  <2>4. \A j, k \in 1 .. Len(l) : j # k => l[j] # l[k]
    BY <1>0 DEF IsDuplicateFree
  <2>5. \A j \in 1 .. Len(l) - 1 :
           \E m \in 1 .. Len(l) : m # i /\ r[j] = l[m] /\ m = IF j < i THEN j ELSE j + 1
    <3> TAKE j \in 1 .. Len(l) - 1
    <3>1. r[j] = IF j < i THEN l[j] ELSE l[j + 1]
      BY <2>2
    <3>2. CASE j < i
      <4>1. j \in 1 .. Len(l) /\ j # i
        BY <3>2, <1>0
      <4> QED BY <4>1, <3>1, <3>2
    <3>3. CASE ~(j < i)
      <4>1. j + 1 \in 1 .. Len(l) /\ j + 1 # i
        BY <3>3, <1>0
      <4> QED BY <4>1, <3>1, <3>3
    <3> QED BY <3>2, <3>3
  <2>6. ToSet(r) = ToSet(l) \ {t}
    <3>1. ASSUME NEW x \in ToSet(r) PROVE x \in ToSet(l) \ {t}
      <4>1. PICK j \in 1 .. Len(l) - 1 : x = r[j]
        BY <2>3 DEF ToSet
      <4>2. PICK m \in 1 .. Len(l) : m # i /\ x = l[m]
        BY <4>1, <2>5
      <4>3. l[m] # t
        BY <4>2, <2>4, <2>1
      <4> QED BY <4>2, <4>3, <1>0 DEF ToSet
    <3>2. ASSUME NEW x \in ToSet(l) \ {t} PROVE x \in ToSet(r)
      <4>1. PICK m \in 1 .. Len(l) : x = l[m] /\ m # i
        BY <2>1, <1>0 DEF ToSet
      <4>2. CASE m < i
        <5>1. m \in 1 .. Len(l) - 1
          BY <4>2, <1>0
        <5>2. r[m] = l[m]
          BY <5>1, <4>2, <2>2
        <5> QED BY <4>1, <5>1, <5>2, <2>3 DEF ToSet
      <4>3. CASE m > i
        <5>1. m - 1 \in 1 .. Len(l) - 1 /\ r[m - 1] = x
          BY <4>1, <4>3, <2>2, <1>0
        <5> QED BY <5>1, <2>3 DEF ToSet
      <4> QED BY <4>1, <4>2, <4>3
    <3> QED BY <3>1, <3>2
  <2>7. IsDuplicateFree(r)
    <3>1. ASSUME NEW j \in 1 .. Len(l) - 1, NEW k \in 1 .. Len(l) - 1, j < k
          PROVE  r[j] # r[k] /\ r[k] # r[j]
      <4>1. PICK m \in 1 .. Len(l) : r[j] = l[m] /\ m = IF j < i THEN j ELSE j + 1
        BY <2>5
      <4>2. PICK n \in 1 .. Len(l) : r[k] = l[n] /\ n = IF k < i THEN k ELSE k + 1
        BY <2>5
      <4>3. m < n
        BY <4>1, <4>2, <3>1, <1>0
      <4>4. m # n
        BY <4>3
      <4> QED BY <4>1, <4>2, <4>4, <2>4, Zenon
    <3>2. \A j, k \in 1 .. Len(l) - 1 : j # k => j < k \/ k < j
      BY <1>0
    <3> QED BY <3>1, <3>2, <2>3, Zenon DEF IsDuplicateFree
  <2>8. l # <<>>
    BY <1>0
  <2> QED BY <2>2, <2>6, <2>7, <2>8 DEF r
<1> QED BY <1>1, <1>2

\* rt_ipc_list_resume takes off the first waiter and disturbs nobody else.
LEMMA TailFacts ==
    ASSUME NEW T, NEW l \in Seq(T), l # <<>>, IsDuplicateFree(l)
    PROVE  /\ Head(l) \in T
           /\ Head(l) \in ToSet(l)
           /\ Tail(l) \in Seq(T)
           /\ ToSet(Tail(l)) = ToSet(l) \ {Head(l)}
           /\ IsDuplicateFree(Tail(l))
PROOF
<1> DEFINE r == Tail(l)
<1>0. /\ Len(l) \in Nat /\ Len(l) > 0
      /\ DOMAIN l = 1 .. Len(l)
      /\ \A k \in 1 .. Len(l) : l[k] \in T
      /\ Head(l) = l[1]
  BY LenProperties, ElementOfSeq, EmptySeq
<1>1. /\ r \in Seq(T)
      /\ Len(r) = Len(l) - 1
      /\ \A j \in 1 .. Len(l) - 1 : r[j] = l[j + 1]
  BY HeadTailProperties
<1>2. DOMAIN r = 1 .. Len(l) - 1
  BY <1>1, LenProperties
<1> HIDE DEF r
<1>3. \A j, k \in 1 .. Len(l) : j # k => l[j] # l[k]
  BY <1>0 DEF IsDuplicateFree
<1>4. Head(l) \in T /\ Head(l) \in ToSet(l)
  BY <1>0 DEF ToSet
<1>5. ToSet(r) = ToSet(l) \ {Head(l)}
  <2>1. ASSUME NEW x \in ToSet(r) PROVE x \in ToSet(l) \ {Head(l)}
    <3>1. PICK j \in 1 .. Len(l) - 1 : x = r[j]
      BY <1>2 DEF ToSet
    <3>2. j + 1 \in 1 .. Len(l) /\ x = l[j + 1] /\ j + 1 # 1 /\ 1 \in 1 .. Len(l)
      BY <3>1, <1>1, <1>0
    <3>3. l[j + 1] # l[1]
      BY <3>2, <1>3
    <3> QED BY <3>2, <3>3, <1>0 DEF ToSet
  <2>2. ASSUME NEW x \in ToSet(l) \ {Head(l)} PROVE x \in ToSet(r)
    <3>1. PICK m \in 1 .. Len(l) : x = l[m] /\ m # 1
      BY <1>0 DEF ToSet
    <3>2. m - 1 \in 1 .. Len(l) - 1 /\ r[m - 1] = x
      BY <3>1, <1>1, <1>0
    <3> QED BY <3>2, <1>2 DEF ToSet
  <2> QED BY <2>1, <2>2
<1>6. IsDuplicateFree(r)
  <2>1. ASSUME NEW j \in 1 .. Len(l) - 1, NEW k \in 1 .. Len(l) - 1, j # k
        PROVE  r[j] # r[k]
    <3>1. j + 1 \in 1 .. Len(l) /\ k + 1 \in 1 .. Len(l) /\ j + 1 # k + 1
      BY <2>1, <1>0
    <3> QED BY <3>1, <1>1, <1>3
  <2> QED BY <2>1, <1>2 DEF IsDuplicateFree
<1> QED BY <1>1, <1>4, <1>5, <1>6 DEF r

-----------------------------------------------------------------------------
\* Where a priority-ordered suspension puts the thread: behind waiters that are at least as
\* urgent, and directly in front of a less urgent one or at the end.
LEMMA SuspendPlace ==
    ASSUME NEW T, NEW l \in Seq(T), NEW t \in T, NEW prio \in [T -> Nat]
    PROVE  LET r == rt_ipc_list_suspend(l, t, RT_IPC_FLAG_PRIO, prio)
           IN  /\ DOMAIN l = 1 .. Len(l) /\ DOMAIN r = 1 .. Len(l) + 1
               /\ \E i \in 1 .. Len(l) + 1 :
                     /\ \A j \in 1 .. Len(l) + 1 :
                           r[j] = IF j < i THEN l[j] ELSE IF j = i THEN t ELSE l[j - 1]
                     /\ \A j \in 1 .. Len(l) : j < i => prio[l[j]] <= prio[t]
                     /\ i <= Len(l) => prio[t] < prio[l[i]]
PROOF
<1> DEFINE r == rt_ipc_list_suspend(l, t, RT_IPC_FLAG_PRIO, prio)
<1>0. /\ Len(l) \in Nat
      /\ DOMAIN l = 1 .. Len(l)
      /\ \A k \in 1 .. Len(l) : l[k] \in T
  BY LenProperties, ElementOfSeq
<1>1. CASE \E i \in DOMAIN l : IsInsertPos(l, t, prio, i)
  <2>1. PICK i \in 1 .. Len(l) : IsInsertPos(l, t, prio, i) /\ r = InsertAt(l, i, t)
    <3> DEFINE c == CHOOSE i \in DOMAIN l : IsInsertPos(l, t, prio, i)
    <3>1. c \in DOMAIN l /\ IsInsertPos(l, t, prio, c)
      BY <1>1, Zenon
    <3>2. r = InsertAt(l, c, t)
      BY <1>1, Zenon DEF rt_ipc_list_suspend
    <3> QED BY <3>1, <3>2, <1>0, Zenon
  <2> HIDE DEF r
  <2>2. /\ r \in Seq(T)
        /\ Len(r) = Len(l) + 1
        /\ \A j \in 1 .. Len(l) + 1 :
              r[j] = IF j < i THEN l[j] ELSE IF j = i THEN t ELSE l[j - 1]
    <3>1. /\ InsertAt(l, i, t) \in Seq(T)
          /\ Len(InsertAt(l, i, t)) = Len(l) + 1
          /\ \A j \in 1 .. Len(l) + 1 : InsertAt(l, i, t)[j] =
                IF j < i THEN l[j] ELSE IF j = i THEN t ELSE l[j - 1]
      BY InsertAtFacts
    <3> QED BY <2>1, <3>1, Zenon
  <2>3. DOMAIN r = 1 .. Len(l) + 1
    BY <2>2, LenProperties
  <2>4. i \in 1 .. Len(l) + 1 /\ prio[t] < prio[l[i]]
        /\ \A j \in 1 .. Len(l) : j < i => prio[l[j]] <= prio[t]
    BY <1>0, <2>1 DEF IsInsertPos
  <2> QED BY <1>0, <2>2, <2>3, <2>4 DEF r
<1>2. CASE ~\E i \in DOMAIN l : IsInsertPos(l, t, prio, i)
  <2>1. r = Append(l, t)
    BY <1>2, Zenon DEF rt_ipc_list_suspend
  <2>2. /\ r \in Seq(T)
        /\ Len(r) = Len(l) + 1
        /\ \A j \in 1 .. Len(l) : r[j] = l[j]
        /\ r[Len(l) + 1] = t
    BY <2>1, AppendProperties
  <2>3. DOMAIN r = 1 .. Len(l) + 1
    BY <2>2, LenProperties
  <2> HIDE DEF r
  <2>4. prio[t] \in Nat /\ \A k \in 1 .. Len(l) : prio[l[k]] \in Nat
    BY <1>0
  <2>5. ASSUME NEW k \in 1 .. Len(l), prio[t] < prio[l[k]] PROVE FALSE
    <3> DEFINE less == {n \in Nat : n \in 1 .. Len(l) /\ prio[t] < prio[l[n]]}
    <3>1. k \in less
      BY <2>5, <1>0
    <3>2. PICK i \in less : \A n \in less : i <= n
      BY <3>1, SmallestNat
    <3>3. IsInsertPos(l, t, prio, i)
      BY <3>2, <2>4, <1>0 DEF IsInsertPos
    <3> QED BY <3>2, <3>3, <1>2, <1>0
  <2>6. \A j \in 1 .. Len(l) : prio[l[j]] <= prio[t]
    BY <2>4, <2>5
  <2>7. Len(l) + 1 \in 1 .. Len(l) + 1 /\ ~(Len(l) + 1 <= Len(l))
    BY <1>0
  <2>8. \A j \in 1 .. Len(l) + 1 :
           r[j] = IF j < Len(l) + 1 THEN l[j] ELSE IF j = Len(l) + 1 THEN t ELSE l[j - 1]
    BY <1>0, <2>2
  <2> QED BY <1>0, <2>3, <2>6, <2>7, <2>8 DEF r
<1> QED BY <1>1, <1>2

\* A priority-ordered suspension keeps the order for S, whether the new waiter is of S or not.
LEMMA SuspendOrderedFor ==
    ASSUME NEW T, NEW l \in Seq(T), NEW t \in T, NEW prio \in [T -> Nat], NEW S,
           IsPrioOrderedFor(l, prio, S)
    PROVE  IsPrioOrderedFor(rt_ipc_list_suspend(l, t, RT_IPC_FLAG_PRIO, prio), prio, S)
PROOF
<1> DEFINE r == rt_ipc_list_suspend(l, t, RT_IPC_FLAG_PRIO, prio)
<1>0. Len(l) \in Nat /\ \A k \in 1 .. Len(l) : prio[l[k]] \in Nat
  BY LenProperties, ElementOfSeq
<1>1. DOMAIN l = 1 .. Len(l) /\ DOMAIN r = 1 .. Len(l) + 1
  BY SuspendPlace
<1>2. PICK i \in 1 .. Len(l) + 1 :
        /\ \A j \in 1 .. Len(l) + 1 :
              r[j] = IF j < i THEN l[j] ELSE IF j = i THEN t ELSE l[j - 1]
        /\ \A j \in 1 .. Len(l) : j < i => prio[l[j]] <= prio[t]
        /\ i <= Len(l) => prio[t] < prio[l[i]]
  BY SuspendPlace
<1> HIDE DEF r
<1>3. \A j, k \in 1 .. Len(l) : j < k /\ l[k] \in S => prio[l[j]] <= prio[l[k]]
  BY <1>1 DEF IsPrioOrderedFor
<1>4. ASSUME NEW j \in 1 .. Len(l) + 1, NEW k \in 1 .. Len(l) + 1, j < k, r[k] \in S
      PROVE  prio[r[j]] <= prio[r[k]]
  <2>1. CASE k < i
    <3>1. j \in 1 .. Len(l) /\ k \in 1 .. Len(l) /\ r[j] = l[j] /\ r[k] = l[k]
      BY <1>0, <1>2, <1>4, <2>1
    <3> QED BY <1>3, <1>4, <3>1
  <2>2. CASE k = i
    <3>1. j \in 1 .. Len(l) /\ j < i /\ r[j] = l[j] /\ r[k] = t
      BY <1>0, <1>2, <1>4, <2>2
    <3> QED BY <1>2, <3>1
  <2>3. CASE k > i
    <3>1. k - 1 \in 1 .. Len(l) /\ i <= k - 1 /\ i \in 1 .. Len(l) /\ r[k] = l[k - 1]
      BY <1>0, <1>2, <1>4, <2>3
    <3>2. prio[l[i]] <= prio[l[k - 1]]
      <4>1. CASE i = k - 1
        BY <1>0, <3>1, <4>1
      <4>2. CASE i < k - 1
        BY <1>3, <1>4, <3>1, <4>2
      <4> QED BY <3>1, <4>1, <4>2
    <3>3. prio[t] \in Nat /\ prio[t] < prio[l[i]] /\ prio[l[i]] \in Nat /\ prio[l[k - 1]] \in Nat
      BY <1>0, <1>2, <3>1
    <3>4. CASE j < i
      <4>1. j \in 1 .. Len(l) /\ r[j] = l[j] /\ prio[l[j]] <= prio[t]
        BY <1>0, <1>2, <3>1, <3>4
      <4>2. prio[l[j]] \in Nat
        BY <1>0, <4>1
      <4> QED BY <3>1, <3>2, <3>3, <4>1, <4>2
    <3>5. CASE j = i
      <4>1. r[j] = t
        BY <1>2, <3>5
      <4> QED BY <3>1, <3>2, <3>3, <4>1
    <3>6. CASE j > i
      <4>1. j - 1 \in 1 .. Len(l) /\ j - 1 < k - 1 /\ r[j] = l[j - 1]
        BY <1>0, <1>2, <1>4, <3>6
      <4> QED BY <1>3, <1>4, <3>1, <4>1
    <3> QED BY <3>4, <3>5, <3>6
  <2> QED BY <2>1, <2>2, <2>3
<1>5. IsPrioOrderedFor(r, prio, S)
  BY <1>1, <1>4 DEF IsPrioOrderedFor
<1> QED BY <1>5 DEF r

\* Taking a waiter off keeps the order for S.
LEMMA UnlinkOrderedFor ==
    ASSUME NEW T, NEW l \in Seq(T), NEW t \in T, NEW prio, NEW S, IsPrioOrderedFor(l, prio, S)
    PROVE  IsPrioOrderedFor(Unlink(l, t), prio, S)
PROOF
<1> DEFINE r == Unlink(l, t)
<1>0. Len(l) \in Nat /\ DOMAIN l = 1 .. Len(l)
  BY LenProperties
<1>1. CASE ~\E i \in DOMAIN l : l[i] = t
  BY <1>1, Zenon DEF Unlink
<1>2. CASE \E i \in DOMAIN l : l[i] = t
  <2>1. PICK i \in 1 .. Len(l) : l[i] = t /\ r = RemoveAt(l, i)
    <3> DEFINE c == CHOOSE i \in DOMAIN l : l[i] = t
    <3>1. c \in DOMAIN l /\ l[c] = t
      BY <1>2, Zenon
    <3>2. r = RemoveAt(l, c)
      BY <1>2, Zenon DEF Unlink
    <3> QED BY <3>1, <3>2, <1>0, Zenon
  <2> HIDE DEF r
  <2>2. /\ r \in Seq(T)
        /\ Len(r) = Len(l) - 1
        /\ \A j \in 1 .. Len(l) - 1 : r[j] = IF j < i THEN l[j] ELSE l[j + 1]
    BY <2>1, RemoveAtFacts
  <2>3. DOMAIN r = 1 .. Len(l) - 1
    BY <2>2, LenProperties
  <2>4. ASSUME NEW j \in 1 .. Len(l) - 1, NEW k \in 1 .. Len(l) - 1, j < k, r[k] \in S
        PROVE  prio[r[j]] <= prio[r[k]]
    <3>1. PICK a \in 1 .. Len(l) : r[j] = l[a] /\ a = IF j < i THEN j ELSE j + 1
      BY <1>0, <2>2, <2>4
    <3>2. PICK b \in 1 .. Len(l) : r[k] = l[b] /\ b = IF k < i THEN k ELSE k + 1
      BY <1>0, <2>2, <2>4
    <3>3. a < b
      BY <2>4, <3>1, <3>2
    <3> QED BY <1>0, <2>4, <3>1, <3>2, <3>3 DEF IsPrioOrderedFor
  <2>5. IsPrioOrderedFor(r, prio, S)
    BY <2>3, <2>4 DEF IsPrioOrderedFor
  <2> QED BY <2>5 DEF r
<1> QED BY <1>1, <1>2

\* So does taking the first one, which is at least as urgent as every waiter of S behind it.
LEMMA TailOrderedFor ==
    ASSUME NEW T, NEW l \in Seq(T), l # <<>>, NEW prio, NEW S, IsPrioOrderedFor(l, prio, S)
    PROVE  /\ IsPrioOrderedFor(Tail(l), prio, S)
           /\ \A w \in ToSet(Tail(l)) \cap S : prio[Head(l)] <= prio[w]
PROOF
<1>1. /\ Len(l) \in Nat /\ DOMAIN l = 1 .. Len(l) /\ 1 \in 1 .. Len(l)
      /\ Head(l) = l[1] /\ DOMAIN Tail(l) = 1 .. Len(l) - 1
      /\ \A j \in 1 .. Len(l) - 1 : Tail(l)[j] = l[j + 1] /\ j + 1 \in 1 .. Len(l)
  OBVIOUS
<1>2. ASSUME NEW j \in 1 .. Len(l) - 1, NEW k \in 1 .. Len(l) - 1, j < k, Tail(l)[k] \in S
      PROVE  prio[Tail(l)[j]] <= prio[Tail(l)[k]]
  <2>1. j + 1 < k + 1
    BY <1>2
  <2> QED BY <1>1, <1>2, <2>1 DEF IsPrioOrderedFor
<1>3. ASSUME NEW w \in ToSet(Tail(l)) \cap S PROVE prio[Head(l)] <= prio[w]
  <2>1. PICK j \in 1 .. Len(l) - 1 : w = Tail(l)[j]
    BY <1>1 DEF ToSet
  <2>2. 1 < j + 1
    BY <2>1
  <2> QED BY <1>1, <1>3, <2>1, <2>2 DEF IsPrioOrderedFor
<1> QED BY <1>1, <1>2, <1>3 DEF IsPrioOrderedFor

\* What is in order for S is in order for any waiters that belong to S.
LEMMA OrderedForFewer ==
    ASSUME NEW l, NEW prio, NEW S, NEW R, IsPrioOrderedFor(l, prio, S),
           ToSet(l) \cap R \subseteq S
    PROVE  IsPrioOrderedFor(l, prio, R)
PROOF
<1>1. \A k \in DOMAIN l : l[k] \in R => l[k] \in S
  BY DEF ToSet
<1> QED BY <1>1 DEF IsPrioOrderedFor

\* A thread that becomes more urgent leaves the order to the others, wherever it waits.
LEMMA RaisedOrderedFor ==
    ASSUME NEW T, NEW l \in Seq(T), NEW prio \in [T -> Nat], NEW S, NEW t \in T, NEW p \in Nat,
           p <= prio[t], IsPrioOrderedFor(l, prio, S)
    PROVE  IsPrioOrderedFor(l, [prio EXCEPT ![t] = p], S \ {t})
PROOF
<1> DEFINE q == [prio EXCEPT ![t] = p]
<1>1. \A k \in DOMAIN l : l[k] \in T
  BY ElementOfSeq, LenProperties
<1>2. \A u \in T : q[u] \in Nat /\ prio[u] \in Nat /\ q[u] <= prio[u] /\ (u # t => q[u] = prio[u])
  OBVIOUS
<1> HIDE DEF q
<1>3. ASSUME NEW j \in DOMAIN l, NEW k \in DOMAIN l, j < k, l[k] \in S \ {t}
      PROVE  q[l[j]] <= q[l[k]]
  <2>1. prio[l[j]] <= prio[l[k]]
    BY <1>3 DEF IsPrioOrderedFor
  <2>2. l[j] \in T /\ l[k] \in T /\ l[k] # t
    BY <1>1, <1>3
  <2>3. q[l[j]] <= prio[l[j]] /\ q[l[k]] = prio[l[k]]
    BY <1>2, <2>2
  <2>4. prio[l[j]] \in Nat /\ prio[l[k]] \in Nat /\ q[l[j]] \in Nat
    BY <1>2, <2>2
  <2> QED BY <2>1, <2>3, <2>4
<1>4. IsPrioOrderedFor(l, q, S \ {t})
  BY <1>3 DEF IsPrioOrderedFor
<1> QED BY <1>4 DEF q

\* The priority of a thread that waits elsewhere, or nowhere, does not matter.
LEMMA OthersOrderedFor ==
    ASSUME NEW T, NEW l \in Seq(T), NEW prio \in [T -> Nat], NEW S, NEW t \in T, NEW p,
           t \notin ToSet(l), IsPrioOrderedFor(l, prio, S)
    PROVE  IsPrioOrderedFor(l, [prio EXCEPT ![t] = p], S)
PROOF
<1>1. \A k \in DOMAIN l : l[k] \in T /\ l[k] # t
  BY ElementOfSeq, LenProperties DEF ToSet
<1>2. \A k \in DOMAIN l : [prio EXCEPT ![t] = p][l[k]] = prio[l[k]]
  BY <1>1
<1> QED BY <1>2 DEF IsPrioOrderedFor
=============================================================================
