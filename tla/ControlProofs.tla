---------------------------- MODULE ControlProofs ----------------------------
(***************************************************************************)
(* Proofs about the control plane: the tier queue (TierQueue) for every      *)
(* finite set of requests and every integer configuration, and the two parts *)
(* that keep a file beside what they serve from, the quotas with quota.json  *)
(* (Quota) and the configuration with config.yaml (ConfigStore), for any     *)
(* number of requests, admin calls, crashes and edits.                       *)
(***************************************************************************)
EXTENDS TierQueue, Quota, ConfigStore, FiniteSetTheorems, SequenceTheorems, WellFoundedInduction, TLAPS

-----------------------------------------------------------------------------
(* The tier queue.  The inductive invariant is the conjunction of the type   *)
(* invariant, the slot accounting, the waiter bookkeeping and the no-lost-   *)
(* wakeup count: none of the last three is inductive alone, since what       *)
(* dispatch does to the semaphore is right only if the head of the list owns *)
(* no slot yet.                                                              *)


\* The capacity NewTierQueue computes is positive whatever is configured.
LEMMA CapacityType == Capacity \in Nat \ {0}
BY ConfigAssumption DEF Capacity

\* What insertion at a position does: one longer, the newcomer at that
\* position, everybody else in the old order.
LEMMA InsertAtPosition ==
    ASSUME NEW S, NEW q \in Seq(S), NEW r \in S, NEW pos \in 1..(Len(q) + 1)
    PROVE  /\ InsertAt(q, pos, r) \in Seq(S)
           /\ Len(InsertAt(q, pos, r)) = Len(q) + 1
           /\ \A i \in 1..(pos - 1) : InsertAt(q, pos, r)[i] = q[i]
           /\ InsertAt(q, pos, r)[pos] = r
           /\ \A i \in (pos + 1)..(Len(q) + 1) : InsertAt(q, pos, r)[i] = q[i - 1]
<1> DEFINE a == SubSeq(q, 1, pos - 1)
           b == SubSeq(q, pos, Len(q))
           c == a \o <<r>>
           w == c \o b
<1>1. Len(q) \in Nat /\ pos \in Int /\ \A i \in 1..Len(q) : q[i] \in S
  BY LenProperties, ElementOfSeq
<1>2. /\ a \in Seq(S)
      /\ Len(a) = pos - 1
      /\ \A i \in 1..(pos - 1) : a[i] = q[i]
  <2>1. \A i \in 1..(pos - 1) : q[i] \in S
    BY <1>1
  <2>2. /\ SubSeq(q, 1, pos - 1) \in Seq(S)
        /\ Len(SubSeq(q, 1, pos - 1)) = IF 1 <= pos - 1 THEN pos - 1 - 1 + 1 ELSE 0
        /\ \A i \in 1..(pos - 1 - 1 + 1) : SubSeq(q, 1, pos - 1)[i] = q[1 + i - 1]
    BY <1>1, <2>1, SubSeqProperties
  <2> QED
    BY <1>1, <2>2
<1>3. /\ b \in Seq(S)
      /\ Len(b) = Len(q) - pos + 1
      /\ \A i \in 1..(Len(q) - pos + 1) : b[i] = q[pos + i - 1]
  <2>1. \A i \in pos..Len(q) : q[i] \in S
    BY <1>1
  <2>2. /\ SubSeq(q, pos, Len(q)) \in Seq(S)
        /\ Len(SubSeq(q, pos, Len(q))) = IF pos <= Len(q) THEN Len(q) - pos + 1 ELSE 0
        /\ \A i \in 1..(Len(q) - pos + 1) : SubSeq(q, pos, Len(q))[i] = q[pos + i - 1]
    BY <1>1, <2>1, SubSeqProperties
  <2> QED
    BY <1>1, <2>2
<1> HIDE DEF a, b
<1>4. /\ c \in Seq(S)
      /\ Len(c) = pos
      /\ \A i \in 1..(pos - 1) : c[i] = q[i]
      /\ c[pos] = r
  <2>1. Append(a, r) = c
    BY <1>2, AppendIsConcat
  <2>2. /\ Append(a, r) \in Seq(S)
        /\ Len(Append(a, r)) = Len(a) + 1
        /\ \A i \in 1..Len(a) : Append(a, r)[i] = a[i]
        /\ Append(a, r)[Len(a) + 1] = r
    BY <1>2, AppendProperties
  <2>3. Len(a) + 1 = pos
    BY <1>1, <1>2
  <2> HIDE DEF c
  <2> QED BY <2>1, <2>2, <2>3, <1>2
<1> HIDE DEF c
<1>5. /\ w \in Seq(S)
      /\ Len(w) = Len(q) + 1
      /\ \A i \in 1..(Len(q) + 1) : w[i] = IF i <= pos THEN c[i] ELSE b[i - pos]
  <2>1. /\ c \o b \in Seq(S)
        /\ Len(c \o b) = Len(c) + Len(b)
        /\ \A i \in 1..(Len(c) + Len(b)) :
              (c \o b)[i] = IF i <= Len(c) THEN c[i] ELSE b[i - Len(c)]
    BY <1>3, <1>4, ConcatProperties
  <2>2. Len(c) + Len(b) = Len(q) + 1
    BY <1>1, <1>3, <1>4
  <2> QED BY <2>1, <2>2, <1>4
<1>6. /\ \A i \in 1..(pos - 1) : w[i] = q[i]
      /\ w[pos] = r
  <2> HIDE DEF w
  <2> QED BY <1>1, <1>4, <1>5
<1>7. ASSUME NEW i \in (pos + 1)..(Len(q) + 1)
      PROVE  w[i] = q[i - 1]
  <2> HIDE DEF w
  <2>1. i - pos \in 1..(Len(q) - pos + 1)
    BY <1>1
  <2>2. w[i] = b[i - pos]
    BY <1>1, <1>5
  <2>3. b[i - pos] = q[pos + (i - pos) - 1]
    BY <2>1, <1>3
  <2>4. pos + (i - pos) - 1 = i - 1
    BY <1>1
  <2> QED BY <2>2, <2>3, <2>4
<1>8. InsertAt(q, pos, r) = w
  BY DEF InsertAt, a, b, c
<1> HIDE DEF w
<1> QED BY <1>5, <1>6, <1>7, <1>8

\* The part of the list behind the newcomer.
LEMMA InsertAtTail ==
    ASSUME NEW S, NEW q \in Seq(S), NEW r \in S, NEW pos \in 1..(Len(q) + 1),
           NEW i \in (pos + 1)..(Len(q) + 1)
    PROVE  InsertAt(q, pos, r)[i] = q[i - 1]
BY InsertAtPosition

\* What dropping the occupant of a position does: one shorter, everybody
\* else in the old order.
LEMMA RemoveAtPosition ==
    ASSUME NEW S, NEW q \in Seq(S), NEW pos \in 1..Len(q)
    PROVE  /\ RemoveAt(q, pos) \in Seq(S)
           /\ Len(RemoveAt(q, pos)) = Len(q) - 1
           /\ \A i \in 1..(Len(q) - 1) : RemoveAt(q, pos)[i] = IF i < pos THEN q[i] ELSE q[i + 1]
<1> DEFINE a == SubSeq(q, 1, pos - 1)
           b == SubSeq(q, pos + 1, Len(q))
           w == a \o b
<1>1. Len(q) \in Nat /\ pos \in Int /\ \A i \in 1..Len(q) : q[i] \in S
  BY LenProperties, ElementOfSeq
<1>2. /\ a \in Seq(S)
      /\ Len(a) = pos - 1
      /\ \A i \in 1..(pos - 1) : a[i] = q[i]
  <2>1. \A i \in 1..(pos - 1) : q[i] \in S
    BY <1>1
  <2>2. /\ SubSeq(q, 1, pos - 1) \in Seq(S)
        /\ Len(SubSeq(q, 1, pos - 1)) = IF 1 <= pos - 1 THEN pos - 1 - 1 + 1 ELSE 0
        /\ \A i \in 1..(pos - 1 - 1 + 1) : SubSeq(q, 1, pos - 1)[i] = q[1 + i - 1]
    BY <1>1, <2>1, SubSeqProperties
  <2> QED
    BY <1>1, <2>2
<1>3. /\ b \in Seq(S)
      /\ Len(b) = Len(q) - pos
      /\ \A i \in 1..(Len(q) - pos) : b[i] = q[pos + i]
  <2>1. \A i \in (pos + 1)..Len(q) : q[i] \in S
    BY <1>1
  <2>2. /\ SubSeq(q, pos + 1, Len(q)) \in Seq(S)
        /\ Len(SubSeq(q, pos + 1, Len(q))) = IF pos + 1 <= Len(q) THEN Len(q) - (pos + 1) + 1 ELSE 0
        /\ \A i \in 1..(Len(q) - (pos + 1) + 1) :
              SubSeq(q, pos + 1, Len(q))[i] = q[(pos + 1) + i - 1]
    BY <1>1, <2>1, SubSeqProperties
  <2> QED
    BY <1>1, <2>2
<1> HIDE DEF a, b
<1>4. /\ w \in Seq(S)
      /\ Len(w) = Len(q) - 1
      /\ \A i \in 1..(Len(q) - 1) : w[i] = IF i <= pos - 1 THEN a[i] ELSE b[i - (pos - 1)]
  BY <1>1, <1>2, <1>3, ConcatProperties
<1>5. \A i \in 1..(Len(q) - 1) : w[i] = IF i < pos THEN q[i] ELSE q[i + 1]
  <2> SUFFICES ASSUME NEW i \in 1..(Len(q) - 1)
               PROVE  w[i] = IF i < pos THEN q[i] ELSE q[i + 1]
    OBVIOUS
  <2> HIDE DEF w
  <2>1. CASE i < pos
    BY <2>1, <1>1, <1>2, <1>4
  <2>2. CASE i >= pos
    <3>1. i - (pos - 1) \in 1..(Len(q) - pos)
      BY <2>2, <1>1
    <3>2. w[i] = b[i - (pos - 1)] /\ b[i - (pos - 1)] = q[pos + (i - (pos - 1))]
      BY <2>2, <3>1, <1>1, <1>3, <1>4
    <3> QED BY <3>2, <2>2, <1>1
  <2> QED BY <2>1, <2>2, <1>1
<1>6. RemoveAt(q, pos) = w
  BY DEF RemoveAt, a, b
<1> HIDE DEF w
<1> QED BY <1>4, <1>5, <1>6

\* A non-empty set of natural numbers has a least element.
LEMMA LeastNatural ==
    ASSUME NEW T, T \subseteq Nat, T # {}
    PROVE  \E n \in T : \A m \in T : n <= m
<1> DEFINE R == {ss \in Nat \X Nat : ss[1] < ss[2]}
<1>1. IsWellFoundedOn(R, Nat)
  BY NatLessThanWellFounded DEF OpToRel
<1>2. PICK n \in T : \A m \in T : ~ (<<m, n>> \in R)
  <2> HIDE DEF R
  <2> QED BY <1>1, WFMin
<1>3. ASSUME NEW m \in T, m < n
      PROVE  FALSE
  <2>1. <<m, n>> \in Nat \X Nat /\ <<m, n>>[1] = m /\ <<m, n>>[2] = n
    OBVIOUS
  <2>2. <<m, n>> \in R
    BY <2>1, <1>3
  <2> QED BY <2>2, <1>2
<1>4. \A m \in T : n <= m
  BY <1>3
<1> QED BY <1>4

\* insertWaiter puts r in front of everybody of a strictly less urgent tier
\* and behind everybody else.
LEMMA InsertPositionFacts ==
    ASSUME TypeOK, NEW r \in Requests
    PROVE  LET pos == InsertPosition(waiters, tier[r])
           IN  /\ pos \in 1..(Len(waiters) + 1)
               /\ \A j \in 1..(pos - 1) : ~ (Rank(tier[r]) < Rank(tier[waiters[j]]))
               /\ pos <= Len(waiters) => Rank(tier[r]) < Rank(tier[waiters[pos]])
<1> DEFINE Less(i) == Rank(tier[r]) < Rank(tier[waiters[i]])
           P(i) == Less(i) /\ \A j \in 1..(i - 1) : ~ Less(j)
           pos == InsertPosition(waiters, tier[r])
<1>1. Len(waiters) \in Nat
  BY LenProperties DEF TypeOK
<1>2. CASE \E i \in 1..Len(waiters) : Less(i)
  <2>1. \E i \in 1..Len(waiters) : P(i)
    <3> DEFINE T == {i \in 1..Len(waiters) : Less(i)}
    <3>1. PICK n \in T : \A m \in T : n <= m
      <4>1. T \subseteq Nat /\ T # {}
        BY <1>1, <1>2
      <4> HIDE DEF T
      <4> QED BY <4>1, LeastNatural
    <3> HIDE DEF Less
    <3>2. n \in 1..Len(waiters) /\ Less(n)
      OBVIOUS
    <3>3. \A j \in 1..(n - 1) : ~ Less(j)
      BY <3>1, <3>2, <1>1
    <3> QED BY <3>2, <3>3
  <2>2. pos = CHOOSE i \in 1..Len(waiters) : P(i)
    BY <1>2 DEF InsertPosition
  <2>3. pos \in 1..Len(waiters) /\ P(pos)
    <3> HIDE DEF P, pos
    <3> QED BY <2>1, <2>2
  <2> HIDE DEF pos
  <2>4. /\ pos \in 1..(Len(waiters) + 1)
        /\ \A j \in 1..(pos - 1) : ~ Less(j)
        /\ pos <= Len(waiters) => Less(pos)
    BY <2>3, <1>1
  <2> QED BY <2>4 DEF pos
<1>3. CASE ~ \E i \in 1..Len(waiters) : Less(i)
  <2>1. pos = Len(waiters) + 1
    BY <1>3 DEF InsertPosition
  <2> HIDE DEF pos
  <2>2. /\ pos \in 1..(Len(waiters) + 1)
        /\ \A j \in 1..(pos - 1) : ~ Less(j)
        /\ pos <= Len(waiters) => Less(pos)
    BY <2>1, <1>1, <1>3
  <2> QED BY <2>2 DEF pos
<1> QED BY <1>2, <1>3

IInv ==
    /\ TypeOK
    /\ SlotAccounting
    /\ WaiterOnceQueuedOrCommitted
    /\ NoLostWakeup
    /\ OrderedByRank

\* Ranks are numbers.
LEMMA RankType == \A t \in Tiers : Rank(t) \in Nat
BY DEF Tiers, Rank

\* Owners and Pending are finite sets of requests.
LEMMA FiniteParts ==
    ASSUME TypeOK
    PROVE  /\ IsFiniteSet(Owners) /\ Cardinality(Owners) \in Nat
           /\ IsFiniteSet(Pending) /\ Cardinality(Pending) \in Nat
<1>1. Owners \in SUBSET Requests /\ Pending \in SUBSET Requests
  BY DEF TypeOK, Owners, Pending
<1> QED BY <1>1, RequestsAssumption, FS_Subset, FS_CardinalityType

\* The list after a handover to its head.
LEMMA TailFacts ==
    ASSUME IInv, waiters # <<>>
    PROVE  LET h == Head(waiters)  w == Tail(waiters)
           IN  /\ h \in Registered /\ h \notin ready
               /\ w \in Seq(Requests)
               /\ Len(w) = Len(waiters) - 1
               /\ \A i \in 1..Len(w) : w[i] = waiters[i + 1]
               /\ \A i, j \in 1..Len(w) : w[i] = w[j] => i = j
               /\ ToSet(w) = ToSet(waiters) \ {h}
<1> DEFINE h == Head(waiters)
           w == Tail(waiters)
<1>1. waiters \in Seq(Requests) /\ Len(waiters) \in Nat \ {0} /\ DOMAIN waiters = 1..Len(waiters)
  BY EmptySeq, LenProperties DEF IInv, TypeOK
<1>2. h = waiters[1]
  BY <1>1
<1>3. /\ w \in Seq(Requests)
      /\ Len(w) = Len(waiters) - 1
      /\ \A i \in 1..Len(w) : w[i] = waiters[i + 1]
  BY <1>1, HeadTailProperties
<1>4. DOMAIN w = 1..Len(w)
  BY <1>3, LenProperties
<1> HIDE DEF h, w
<1>5. h \in Registered /\ h \notin ready
  <2>1. h \in ToSet(waiters)
    BY <1>1, <1>2 DEF ToSet
  <2> QED BY <2>1 DEF IInv, WaiterOnceQueuedOrCommitted
<1>6. \A i, j \in 1..Len(waiters) : waiters[i] = waiters[j] => i = j
  BY DEF IInv, WaiterOnceQueuedOrCommitted
<1>7. \A i, j \in 1..Len(w) : w[i] = w[j] => i = j
  <2> SUFFICES ASSUME NEW i \in 1..Len(w), NEW j \in 1..Len(w), w[i] = w[j]
               PROVE  i = j
    OBVIOUS
  <2>1. i + 1 \in 1..Len(waiters) /\ j + 1 \in 1..Len(waiters)
    BY <1>1, <1>3
  <2> QED BY <2>1, <1>3, <1>6
<1>8. ToSet(w) = ToSet(waiters) \ {h}
  <2>1. ASSUME NEW x \in ToSet(w)
        PROVE  x \in ToSet(waiters) \ {h}
    <3>1. PICK i \in 1..Len(w) : x = w[i]
      BY <2>1, <1>4 DEF ToSet
    <3>2. i + 1 \in 1..Len(waiters) /\ x = waiters[i + 1] /\ i + 1 # 1
      BY <3>1, <1>1, <1>3
    <3>3. x # waiters[1]
      BY <3>2, <1>1, <1>6
    <3> QED BY <3>2, <3>3, <1>1, <1>2 DEF ToSet
  <2>2. ASSUME NEW x \in ToSet(waiters) \ {h}
        PROVE  x \in ToSet(w)
    <3>1. PICK i \in 1..Len(waiters) : x = waiters[i]
      BY <2>2, <1>1 DEF ToSet
    <3>2. i - 1 \in 1..Len(w) /\ (i - 1) + 1 = i
      BY <3>1, <2>2, <1>1, <1>2, <1>3
    <3>3. w[i - 1] = waiters[(i - 1) + 1]
      BY <3>2, <1>3
    <3>4. w[i - 1] = x
      BY <3>1, <3>2, <3>3
    <3> QED BY <3>2, <3>4, <1>4 DEF ToSet
  <2> QED BY <2>1, <2>2
<1> QED BY <1>3, <1>5, <1>7, <1>8 DEF h, w

\* dispatch preserves the invariant, whoever calls it.
LEMMA DispatchStep ==
    ASSUME IInv, NEW r \in Requests, NEW l,
           \/ pc[r] = "dispatch" /\ l = "try"
           \/ pc[r] = "freed" /\ l = "idle",
           dispatch, Goto(r, l), UNCHANGED tier
    PROVE  IInv'
<1>1. /\ pc' \in [Requests -> Labels]
      /\ tier' \in [Requests -> Tiers]
      /\ \A x \in Requests : pc'[x] = IF x = r THEN l ELSE pc[x]
  BY DEF IInv, TypeOK, Goto, Labels
<1>2. Registered' = Registered
  BY <1>1 DEF Registered
<1>3. {x \in Requests : pc'[x] = "hold"} = {x \in Requests : pc[x] = "hold"}
  BY <1>1
<1>4. Pending' = Pending \ {r} /\ r \in Pending
  BY <1>1 DEF Pending
<1>5. Cardinality(Pending') = Cardinality(Pending) - 1 /\ Cardinality(Pending') \in Nat
  <2>1. IsFiniteSet(Pending) /\ Cardinality(Pending) \in Nat
    BY FiniteParts DEF IInv
  <2>2. IsFiniteSet(Pending \ {r}) /\ Cardinality(Pending \ {r}) = Cardinality(Pending) - 1
    BY <2>1, <1>4, FS_RemoveElement
  <2>3. Cardinality(Pending \ {r}) \in Nat
    BY <2>2, FS_CardinalityType
  <2> QED BY <2>2, <2>3, <1>4
<1>6. /\ Len(waiters) \in Nat /\ sem \in 0..Capacity /\ Capacity \in Nat
      /\ Cardinality(Pending) \in Nat
  BY LenProperties, CapacityType, FiniteParts DEF IInv, TypeOK
<1>7. CASE waiters # <<>> /\ sem < Capacity
  <2> DEFINE h == Head(waiters)
  <2>1. /\ sem' = sem + 1
        /\ waiters' = Tail(waiters)
        /\ committed' = committed \union {h}
        /\ ready' = ready \union {h}
    BY <1>7 DEF dispatch
  <2>2. /\ h \in Registered /\ h \notin ready
        /\ waiters' \in Seq(Requests)
        /\ Len(waiters') = Len(waiters) - 1
        /\ \A i \in 1..Len(waiters') : waiters'[i] = waiters[i + 1]
        /\ \A i, j \in 1..Len(waiters') : waiters'[i] = waiters'[j] => i = j
        /\ ToSet(waiters') = ToSet(waiters) \ {h}
    BY <1>7, <2>1, TailFacts
  <2> HIDE DEF h
  <2>3. TypeOK'
    BY <1>1, <1>6, <1>7, <2>1, <2>2 DEF IInv, TypeOK, Registered
  <2>4. SlotAccounting'
    <3>1. Owners' = Owners \union {h} /\ h \notin Owners
      BY <1>3, <2>1, <2>2 DEF Owners, Registered
    <3>2. IsFiniteSet(Owners) /\ sem = Cardinality(Owners)
      BY FiniteParts DEF IInv, SlotAccounting
    <3>3. Cardinality(Owners \union {h}) = Cardinality(Owners) + 1
      BY <3>1, <3>2, FS_AddElement
    <3> QED BY <3>1, <3>2, <3>3, <2>1 DEF SlotAccounting
  <2>5. WaiterOnceQueuedOrCommitted'
    BY <1>2, <2>1, <2>2 DEF IInv, WaiterOnceQueuedOrCommitted
  <2>6. NoLostWakeup'
    BY <1>5, <1>6, <2>1, <2>2 DEF IInv, NoLostWakeup, Capacity
  <2>7. OrderedByRank'
    <3> SUFFICES ASSUME NEW i \in 1..Len(waiters'), NEW j \in 1..Len(waiters'), i < j
                 PROVE  Rank(tier[waiters'[i]]) <= Rank(tier[waiters'[j]])
      BY DEF OrderedByRank
    <3>1. i + 1 \in 1..Len(waiters) /\ j + 1 \in 1..Len(waiters) /\ i + 1 < j + 1
      BY <1>6, <2>2
    <3> QED BY <3>1, <2>2 DEF IInv, OrderedByRank
  <2> QED BY <2>3, <2>4, <2>5, <2>6, <2>7 DEF IInv
<1>8. CASE ~ (waiters # <<>> /\ sem < Capacity)
  <2>1. UNCHANGED <<sem, waiters, committed, ready>>
    BY <1>8 DEF dispatch
  <2>2. TypeOK'
    BY <1>1, <2>1 DEF IInv, TypeOK
  <2>3. SlotAccounting'
    BY <1>3, <2>1 DEF IInv, SlotAccounting, Owners
  <2>4. WaiterOnceQueuedOrCommitted'
    BY <1>2, <2>1 DEF IInv, WaiterOnceQueuedOrCommitted
  <2>5. NoLostWakeup'
    <3>1. Len(waiters) = 0 \/ Capacity - sem <= 0
      BY <1>6, <1>8
    <3> QED BY <3>1, <1>5, <1>6, <2>1 DEF NoLostWakeup, Capacity
  <2>6. OrderedByRank'
    BY <2>1 DEF IInv, OrderedByRank
  <2> QED BY <2>2, <2>3, <2>4, <2>5, <2>6 DEF IInv
<1> QED BY <1>7, <1>8

\* Steps that leave the list, the semaphore and the handed-over slots alone
\* and move r between labels that none of the parts tells apart.
LEMMA LabelStep ==
    ASSUME IInv, NEW r \in Requests, NEW l,
           \/ pc[r] = "try" /\ l = "wait"
           \/ pc[r] = "wait" /\ l = "expired"
           \/ pc[r] = "expired" /\ l = "drain"
           \/ pc[r] = "idle" /\ l = "insert",
           Goto(r, l), tier' \in [Requests -> Tiers],
           \A x \in Requests : x # r => tier'[x] = tier[x],
           pc[r] # "idle" => UNCHANGED tier,
           UNCHANGED <<sem, waiters, committed, ready>>
    PROVE  IInv'
<1>1. /\ pc' \in [Requests -> Labels]
      /\ \A x \in Requests : pc'[x] = IF x = r THEN l ELSE pc[x]
  BY DEF IInv, TypeOK, Goto, Labels
<1>2. Registered' = Registered /\ Pending' = Pending
  BY <1>1 DEF Registered, Pending
<1>3. Owners' = Owners
  BY <1>1 DEF Owners
<1>4. OrderedByRank'
  <2>1. \A i \in 1..Len(waiters) : tier'[waiters[i]] = tier[waiters[i]]
    <3> SUFFICES ASSUME NEW i \in 1..Len(waiters) PROVE tier'[waiters[i]] = tier[waiters[i]]
      OBVIOUS
    <3>1. waiters[i] \in ToSet(waiters) /\ waiters[i] \in Requests
      BY LenProperties, ElementOfSeq DEF IInv, TypeOK, ToSet
    <3>2. pc[waiters[i]] # "idle"
      BY <3>1 DEF IInv, WaiterOnceQueuedOrCommitted, Registered
    <3> QED BY <3>1, <3>2
  <2> QED BY <2>1 DEF IInv, OrderedByRank
<1>5. TypeOK' /\ SlotAccounting' /\ NoLostWakeup'
  BY <1>1, <1>2, <1>3 DEF IInv, TypeOK, SlotAccounting, NoLostWakeup
<1>6. WaiterOnceQueuedOrCommitted'
  BY <1>2 DEF IInv, WaiterOnceQueuedOrCommitted
<1> QED BY <1>4, <1>5, <1>6 DEF IInv

\* Consuming the ready signal turns a handed-over slot into a held one.
LEMMA TakeReadyStep ==
    ASSUME IInv, NEW r \in Requests, pc[r] \in {"try", "wait", "drain"},
           TakeReady(r), UNCHANGED <<tier, sem, waiters>>
    PROVE  IInv'
<1>1. /\ pc' \in [Requests -> Labels]
      /\ \A x \in Requests : pc'[x] = IF x = r THEN "hold" ELSE pc[x]
      /\ r \in ready /\ ready' = ready \ {r} /\ committed' = committed \ {r}
  BY DEF IInv, TypeOK, Goto, Labels, TakeReady
<1>2. Registered' = Registered \ {r} /\ Pending' = Pending
  BY <1>1 DEF Registered, Pending
<1>3. Owners' = Owners
  BY <1>1 DEF Owners, IInv, TypeOK
<1>4. WaiterOnceQueuedOrCommitted'
  BY <1>1, <1>2 DEF IInv, WaiterOnceQueuedOrCommitted
<1>5. TypeOK' /\ SlotAccounting' /\ NoLostWakeup' /\ OrderedByRank'
  BY <1>1, <1>2, <1>3 DEF IInv, TypeOK, SlotAccounting, NoLostWakeup, OrderedByRank
<1> QED BY <1>4, <1>5 DEF IInv

\* The fast path with a free slot and nobody queued.
LEMMA FastPathStep ==
    ASSUME IInv, NEW r \in Requests, pc[r] = "idle", waiters = <<>>, sem < Capacity,
           sem' = sem + 1, Goto(r, "hold"), tier' \in [Requests -> Tiers],
           UNCHANGED <<waiters, committed, ready>>
    PROVE  IInv'
<1>1. /\ pc' \in [Requests -> Labels]
      /\ \A x \in Requests : pc'[x] = IF x = r THEN "hold" ELSE pc[x]
  BY DEF IInv, TypeOK, Goto, Labels
<1>2. Registered' = Registered /\ Pending' = Pending
  BY <1>1 DEF Registered, Pending
<1>3. Owners' = Owners \union {r} /\ r \notin Owners
  BY <1>1 DEF Owners, IInv, WaiterOnceQueuedOrCommitted, Registered
<1>4. IsFiniteSet(Owners) /\ Cardinality(Pending) \in Nat /\ sem \in 0..Capacity /\ Capacity \in Nat
  BY FiniteParts, CapacityType DEF IInv, TypeOK
<1>5. SlotAccounting'
  BY <1>3, <1>4, FS_AddElement DEF IInv, SlotAccounting
<1>6. TypeOK' /\ OrderedByRank'
  BY <1>1, <1>4 DEF IInv, TypeOK, OrderedByRank
<1>7. WaiterOnceQueuedOrCommitted'
  BY <1>2 DEF IInv, WaiterOnceQueuedOrCommitted
<1>8. NoLostWakeup'
  BY <1>2, <1>4 DEF NoLostWakeup
<1> QED BY <1>5, <1>6, <1>7, <1>8 DEF IInv

\* Draining the semaphore frees one slot and owes one dispatch.
LEMMA ReleaseDrainStep ==
    ASSUME IInv, NEW r \in Requests, releaseDrain(r)
    PROVE  IInv'
<1>1. pc[r] = "hold" /\ UNCHANGED <<tier, waiters, committed, ready>>
  BY DEF releaseDrain
<1>2. IsFiniteSet(Owners) /\ IsFiniteSet(Pending) /\ Cardinality(Owners) \in Nat
      /\ Cardinality(Pending) \in Nat
      /\ sem \in 0..Capacity /\ Capacity \in Nat /\ Len(waiters) \in Nat
  BY FiniteParts, CapacityType, LenProperties DEF IInv, TypeOK
<1>3. r \in Owners
  BY <1>1 DEF Owners
<1>4. sem > 0
  <2>1. Cardinality(Owners) # 0
    BY <1>2, <1>3, FS_EmptySet
  <2> QED BY <2>1, <1>2 DEF IInv, SlotAccounting
<1>5. sem' = sem - 1 /\ Goto(r, "freed")
  BY <1>4 DEF releaseDrain
<1>6. /\ pc' \in [Requests -> Labels]
      /\ \A x \in Requests : pc'[x] = IF x = r THEN "freed" ELSE pc[x]
  BY <1>5 DEF IInv, TypeOK, Goto, Labels
<1>7. Registered' = Registered
  BY <1>1, <1>6 DEF Registered
<1>8. Owners' = Owners \ {r}
  BY <1>1, <1>6 DEF Owners, IInv, WaiterOnceQueuedOrCommitted, Registered
<1>9. Pending' = Pending \union {r} /\ r \notin Pending
  BY <1>1, <1>6 DEF Pending
<1>10. SlotAccounting'
  BY <1>2, <1>3, <1>5, <1>8, FS_RemoveElement DEF IInv, SlotAccounting
<1>11. NoLostWakeup'
  <2>1. Cardinality(Pending') = Cardinality(Pending) + 1
    BY <1>2, <1>9, FS_AddElement
  <2> QED BY <2>1, <1>1, <1>2, <1>5 DEF IInv, NoLostWakeup, Capacity
<1>12. TypeOK' /\ OrderedByRank'
  BY <1>1, <1>2, <1>4, <1>5, <1>6 DEF IInv, TypeOK, OrderedByRank
<1>13. WaiterOnceQueuedOrCommitted'
  BY <1>1, <1>7 DEF IInv, WaiterOnceQueuedOrCommitted
<1> QED BY <1>10, <1>11, <1>12, <1>13 DEF IInv

\* Insertion queues r exactly once, in rank order, and owes one dispatch.
LEMMA InsertStep ==
    ASSUME IInv, NEW r \in Requests, AcquireInsert(r)
    PROVE  IInv'
<1> DEFINE n == Len(waiters)
<1>1. pc[r] = "insert" /\ Goto(r, "dispatch") /\ UNCHANGED <<tier, sem, committed, ready>>
  BY DEF AcquireInsert
<1>2. /\ waiters \in Seq(Requests) /\ n \in Nat /\ DOMAIN waiters = 1..n
      /\ \A i \in 1..n : waiters[i] \in Requests
      /\ IsFiniteSet(Pending) /\ Cardinality(Pending) \in Nat
      /\ sem \in 0..Capacity /\ Capacity \in Nat
  BY LenProperties, ElementOfSeq, FiniteParts, CapacityType DEF IInv, TypeOK
<1>3. PICK pos \in 1..(n + 1) :
         /\ pos = InsertPosition(waiters, tier[r])
         /\ \A j \in 1..(pos - 1) : ~ (Rank(tier[r]) < Rank(tier[waiters[j]]))
         /\ pos <= n => Rank(tier[r]) < Rank(tier[waiters[pos]])
  BY InsertPositionFacts DEF IInv
<1>4. waiters' = InsertAt(waiters, pos, r)
  BY <1>3 DEF AcquireInsert, insertWaiter
<1>5. /\ waiters' \in Seq(Requests)
      /\ Len(waiters') = n + 1
      /\ \A i \in 1..(pos - 1) : waiters'[i] = waiters[i]
      /\ waiters'[pos] = r
      /\ \A i \in (pos + 1)..(n + 1) : waiters'[i] = waiters[i - 1]
  <2>1. pos \in 1..(Len(waiters) + 1) /\ waiters \in Seq(Requests)
    BY <1>2, <1>3
  <2>2. waiters' \in Seq(Requests)
    BY <2>1, <1>4, InsertAtPosition
  <2>3. Len(waiters') = n + 1
    BY <2>1, <1>4, InsertAtPosition
  <2>4. \A i \in 1..(pos - 1) : waiters'[i] = waiters[i]
    BY <2>1, <1>4, InsertAtPosition
  <2>5. waiters'[pos] = r
    BY <2>1, <1>4, InsertAtPosition
  <2>6. ASSUME NEW i \in (pos + 1)..(Len(waiters) + 1)
        PROVE  waiters'[i] = waiters[i - 1]
    <3>1. InsertAt(waiters, pos, r)[i] = waiters[i - 1]
      BY <2>1, InsertAtTail
    <3> QED BY <3>1, <1>4
  <2> QED BY <2>2, <2>3, <2>4, <2>5, <2>6
<1>6. DOMAIN waiters' = 1..(n + 1)
  BY <1>5, LenProperties
<1> DEFINE old(i) == IF i < pos THEN i ELSE i - 1
<1>7. \A i \in 1..(n + 1) : i # pos =>
         /\ old(i) \in 1..n /\ waiters'[i] = waiters[old(i)]
         /\ \A j \in 1..(n + 1) : j # pos /\ old(i) = old(j) => i = j
  BY <1>2, <1>3, <1>5
<1>8. r \notin ToSet(waiters) /\ r \notin ready
  BY <1>1 DEF IInv, WaiterOnceQueuedOrCommitted, Registered
<1>9. \A i \in 1..n : waiters[i] # r
  BY <1>2, <1>8 DEF ToSet
<1>10. ToSet(waiters') = ToSet(waiters) \union {r}
  <2>1. ASSUME NEW x \in ToSet(waiters')
        PROVE  x \in ToSet(waiters) \union {r}
    <3>1. PICK i \in 1..(n + 1) : x = waiters'[i]
      BY <1>6 DEF ToSet
    <3>2. CASE i = pos
      BY <3>1, <3>2, <1>3, <1>5
    <3>3. CASE i # pos
      BY <3>1, <3>3, <1>2, <1>7 DEF ToSet
    <3> QED BY <3>2, <3>3
  <2>2. r \in ToSet(waiters')
    BY <1>3, <1>5, <1>6, <1>2 DEF ToSet
  <2>3. ASSUME NEW x \in ToSet(waiters)
        PROVE  x \in ToSet(waiters')
    <3>1. PICK i \in 1..n : x = waiters[i]
      BY <1>2 DEF ToSet
    <3>2. CASE i < pos
      <4>1. i \in 1..(n + 1) /\ waiters'[i] = x
        BY <3>1, <3>2, <1>2, <1>3, <1>5
      <4> QED BY <4>1, <1>6 DEF ToSet
    <3>3. CASE i >= pos
      <4>1. i + 1 \in 1..(n + 1) /\ ~ (i + 1 < pos) /\ i + 1 # pos /\ (i + 1) - 1 = i
        BY <3>1, <3>3, <1>2, <1>3
      <4>2. waiters'[i + 1] = waiters[(i + 1) - 1]
        BY <4>1, <1>5
      <4>3. waiters'[i + 1] = x
        BY <4>1, <4>2, <3>1
      <4> QED BY <4>1, <4>3, <1>6 DEF ToSet
    <3> QED BY <3>2, <3>3, <1>2, <1>3
  <2> QED BY <2>1, <2>2, <2>3
<1>11. /\ pc' \in [Requests -> Labels]
       /\ \A x \in Requests : pc'[x] = IF x = r THEN "dispatch" ELSE pc[x]
  BY <1>1 DEF IInv, TypeOK, Goto, Labels
<1>12. Registered' = Registered \union {r} /\ Pending' = Pending \union {r} /\ r \notin Pending
  BY <1>1, <1>11 DEF Registered, Pending
<1>13. Owners' = Owners
  BY <1>1, <1>11 DEF Owners
<1>14. TypeOK' /\ SlotAccounting'
  BY <1>1, <1>5, <1>11, <1>13 DEF IInv, TypeOK, SlotAccounting
<1>15. WaiterOnceQueuedOrCommitted'
  <2>1. \A i, j \in 1..(n + 1) : waiters'[i] = waiters'[j] => i = j
    <3> SUFFICES ASSUME NEW i \in 1..(n + 1), NEW j \in 1..(n + 1), waiters'[i] = waiters'[j]
                 PROVE  i = j
      OBVIOUS
    <3>1. waiters'[pos] = r
      BY <1>2, <1>3, <1>5
    <3>2. CASE i = pos \/ j = pos
      <4> HIDE DEF old
      <4> QED BY <3>1, <3>2, <1>7, <1>9
    <3>3. CASE i # pos /\ j # pos
      <4>1. old(i) \in 1..n /\ old(j) \in 1..n /\ waiters[old(i)] = waiters[old(j)]
        <5> HIDE DEF old
        <5> QED BY <3>3, <1>7
      <4> HIDE DEF old
      <4>2. old(i) = old(j)
        BY <4>1 DEF IInv, WaiterOnceQueuedOrCommitted
      <4> QED BY <4>2, <3>3, <1>7
    <3> QED BY <3>2, <3>3
  <2>2. ToSet(waiters') = Registered' \ ready'
    BY <1>1, <1>8, <1>10, <1>12 DEF IInv, WaiterOnceQueuedOrCommitted
  <2>3. ready' \subseteq Registered' \intersect committed'
    BY <1>1, <1>12 DEF IInv, WaiterOnceQueuedOrCommitted
  <2> QED BY <2>1, <2>2, <2>3, <1>5 DEF WaiterOnceQueuedOrCommitted
<1>16. NoLostWakeup'
  <2>1. Cardinality(Pending') = Cardinality(Pending) + 1
    BY <1>2, <1>12, FS_AddElement
  <2> QED BY <2>1, <1>1, <1>2, <1>5 DEF IInv, NoLostWakeup, Capacity
<1>17. OrderedByRank'
  <2> SUFFICES ASSUME NEW i \in 1..(n + 1), NEW j \in 1..(n + 1), i < j
               PROVE  Rank(tier[waiters'[i]]) <= Rank(tier[waiters'[j]])
    BY <1>1, <1>5 DEF OrderedByRank
  <2>1. /\ \A k \in 1..n : Rank(tier[waiters[k]]) \in Nat
        /\ Rank(tier[r]) \in Nat
    BY <1>2, RankType DEF IInv, TypeOK
  <2>2. \A k, m \in 1..n : k < m => Rank(tier[waiters[k]]) <= Rank(tier[waiters[m]])
    BY DEF IInv, OrderedByRank
  <2>3. CASE i # pos /\ j # pos
    <3>1. old(i) \in 1..n /\ old(j) \in 1..n /\ old(i) < old(j)
      BY <2>3, <1>2, <1>3
    <3>2. waiters'[i] = waiters[old(i)] /\ waiters'[j] = waiters[old(j)]
      BY <2>3, <1>7
    <3> HIDE DEF old
    <3> QED BY <3>1, <3>2, <2>2
  <2>4. CASE j = pos
    <3>1. waiters'[i] = waiters[i] /\ waiters'[j] = r /\ i \in 1..(pos - 1) /\ i \in 1..n
      BY <2>4, <1>2, <1>3, <1>5
    <3> QED BY <3>1, <1>3, <2>1
  <2>5. CASE i = pos
    <3>1. waiters'[i] = r /\ waiters'[j] = waiters[j - 1] /\ j - 1 \in 1..n /\ pos \in 1..n /\ pos <= j - 1
      BY <2>5, <1>2, <1>3, <1>5
    <3>2. Rank(tier[r]) < Rank(tier[waiters[pos]])
      BY <3>1, <1>2, <1>3
    <3>3. Rank(tier[waiters[pos]]) <= Rank(tier[waiters[j - 1]])
      <4>1. CASE pos = j - 1
        BY <4>1, <3>1, <2>1
      <4>2. CASE pos < j - 1
        BY <4>2, <3>1, <2>2
      <4> QED BY <4>1, <4>2, <3>1, <1>2
    <3> QED BY <3>1, <3>2, <3>3, <2>1
  <2> QED BY <2>3, <2>4, <2>5
<1> QED BY <1>14, <1>15, <1>16, <1>17 DEF IInv

\* A waiter that gives up before it is committed leaves the list whole.
LEMMA RemoveStep ==
    ASSUME IInv, NEW r \in Requests, pc[r] = "expired", r \notin committed,
           removeWaiterIfNotCommitted(r)
    PROVE  IInv'
<1> DEFINE n == Len(waiters)
<1>1. /\ waiters' = removeWaiter(waiters, r) /\ Goto(r, "idle")
      /\ UNCHANGED <<tier, sem, committed, ready>>
  BY DEF removeWaiterIfNotCommitted
<1>2. /\ waiters \in Seq(Requests) /\ n \in Nat /\ DOMAIN waiters = 1..n
      /\ Cardinality(Pending) \in Nat /\ sem \in 0..Capacity /\ Capacity \in Nat
  BY LenProperties, FiniteParts, CapacityType DEF IInv, TypeOK
<1>3. r \in ToSet(waiters) /\ r \notin ready
  BY DEF IInv, WaiterOnceQueuedOrCommitted, Registered
<1>4. PICK pos \in 1..n :
         /\ waiters[pos] = r
         /\ waiters' = RemoveAt(waiters, pos)
  <2>1. \E i \in 1..n : waiters[i] = r
    BY <1>2, <1>3 DEF ToSet
  <2> DEFINE pos == CHOOSE i \in 1..n : waiters[i] = r
  <2>2. pos \in 1..n /\ waiters[pos] = r
    BY <2>1
  <2>3. waiters' = RemoveAt(waiters, pos)
    BY <2>1, <1>1 DEF removeWaiter
  <2> HIDE DEF pos
  <2> QED BY <2>2, <2>3
<1>5. /\ waiters' \in Seq(Requests)
      /\ Len(waiters') = n - 1
      /\ \A i \in 1..(n - 1) : waiters'[i] = IF i < pos THEN waiters[i] ELSE waiters[i + 1]
  BY <1>2, <1>4, RemoveAtPosition
<1>6. DOMAIN waiters' = 1..(n - 1)
  BY <1>5, LenProperties
<1> DEFINE old(i) == IF i < pos THEN i ELSE i + 1
<1>7. \A i \in 1..(n - 1) :
         /\ old(i) \in 1..n /\ old(i) # pos /\ waiters'[i] = waiters[old(i)]
         /\ \A j \in 1..(n - 1) : /\ old(i) = old(j) => i = j
                                  /\ i < j => old(i) < old(j)
  <2> SUFFICES ASSUME NEW i \in 1..(n - 1)
               PROVE  /\ old(i) \in 1..n /\ old(i) # pos /\ waiters'[i] = waiters[old(i)]
                      /\ \A j \in 1..(n - 1) : /\ old(i) = old(j) => i = j
                                               /\ i < j => old(i) < old(j)
    OBVIOUS
  <2>1. old(i) \in 1..n /\ old(i) # pos
    BY <1>2, <1>4
  <2>2. waiters'[i] = waiters[old(i)]
    BY <1>5
  <2>3. \A j \in 1..(n - 1) : (old(i) = old(j) => i = j) /\ (i < j => old(i) < old(j))
    BY <1>2, <1>4
  <2> HIDE DEF old
  <2> QED BY <2>1, <2>2, <2>3
<1>8. \A i, j \in 1..n : waiters[i] = waiters[j] => i = j
  BY DEF IInv, WaiterOnceQueuedOrCommitted
<1>9. ToSet(waiters') = ToSet(waiters) \ {r}
  <2>1. ASSUME NEW x \in ToSet(waiters')
        PROVE  x \in ToSet(waiters) \ {r}
    <3>1. PICK i \in 1..(n - 1) : x = waiters'[i]
      BY <1>6 DEF ToSet
    <3> HIDE DEF old
    <3>2. old(i) \in 1..n /\ old(i) # pos /\ x = waiters[old(i)]
      BY <3>1, <1>7
    <3> QED BY <3>2, <1>2, <1>4, <1>8 DEF ToSet
  <2>2. ASSUME NEW x \in ToSet(waiters) \ {r}
        PROVE  x \in ToSet(waiters')
    <3>1. PICK i \in 1..n : x = waiters[i]
      BY <1>2 DEF ToSet
    <3>2. i # pos
      BY <3>1, <2>2, <1>4
    <3>3. CASE i < pos
      <4>1. i \in 1..(n - 1)
        BY <3>1, <3>3, <1>2, <1>4
      <4>2. waiters'[i] = x
        BY <4>1, <3>1, <3>3, <1>5
      <4> QED BY <4>1, <4>2, <1>6 DEF ToSet
    <3>4. CASE i > pos
      <4>1. i - 1 \in 1..(n - 1) /\ ~ (i - 1 < pos) /\ (i - 1) + 1 = i
        BY <3>1, <3>4, <1>2, <1>4
      <4>2. waiters'[i - 1] = waiters[(i - 1) + 1]
        BY <4>1, <1>5
      <4>3. waiters'[i - 1] = x
        BY <4>1, <4>2, <3>1
      <4> QED BY <4>1, <4>3, <1>6 DEF ToSet
    <3> QED BY <3>2, <3>3, <3>4, <1>2, <1>4
  <2> QED BY <2>1, <2>2
<1>10. /\ pc' \in [Requests -> Labels]
       /\ \A x \in Requests : pc'[x] = IF x = r THEN "idle" ELSE pc[x]
  BY <1>1 DEF IInv, TypeOK, Goto, Labels
<1>11. Registered' = Registered \ {r} /\ Pending' = Pending
  BY <1>10 DEF Registered, Pending
<1>12. Owners' = Owners
  BY <1>1, <1>10 DEF Owners
<1>13. TypeOK' /\ SlotAccounting'
  BY <1>1, <1>5, <1>10, <1>12 DEF IInv, TypeOK, SlotAccounting
<1>14. NoLostWakeup'
  BY <1>1, <1>2, <1>5, <1>11 DEF IInv, NoLostWakeup, Capacity
<1>15. WaiterOnceQueuedOrCommitted'
  <2>1. \A i, j \in 1..(n - 1) : waiters'[i] = waiters'[j] => i = j
    <3> HIDE DEF old
    <3> QED BY <1>7, <1>8
  <2>2. ToSet(waiters') = Registered' \ ready'
    BY <1>1, <1>3, <1>9, <1>11 DEF IInv, WaiterOnceQueuedOrCommitted
  <2>3. ready' \subseteq Registered' \intersect committed'
    BY <1>1, <1>3, <1>11 DEF IInv, WaiterOnceQueuedOrCommitted
  <2> QED BY <2>1, <2>2, <2>3, <1>5 DEF WaiterOnceQueuedOrCommitted
<1>16. OrderedByRank'
  <2> HIDE DEF old
  <2>1. \A i, j \in 1..(n - 1) : i < j => Rank(tier[waiters'[i]]) <= Rank(tier[waiters'[j]])
    BY <1>7 DEF IInv, OrderedByRank
  <2> QED BY <2>1, <1>1, <1>5 DEF OrderedByRank
<1> QED BY <1>13, <1>14, <1>15, <1>16 DEF IInv

----------------------------------------------------------------------------

\* The invariant holds initially.
LEMMA IInvInit == Init => IInv
<1> SUFFICES ASSUME Init PROVE IInv
  OBVIOUS
<1>1. Owners = {} /\ Pending = {} /\ Registered = {}
  BY DEF Init, Owners, Pending, Registered
<1>2. TypeOK
  BY CapacityType DEF Init, TypeOK, Labels, Tiers
<1>3. ToSet(waiters) = {} /\ Len(waiters) = 0
  BY DEF Init, ToSet
<1> QED
  BY <1>1, <1>2, <1>3, FS_EmptySet, CapacityType
  DEF Init, IInv, SlotAccounting, WaiterOnceQueuedOrCommitted, NoLostWakeup, OrderedByRank

\* Every step of every request preserves the invariant.
LEMMA IInvStep == IInv /\ [Next]_vars => IInv'
<1> SUFFICES ASSUME IInv, [Next]_vars PROVE IInv'
  OBVIOUS
<1>1. CASE UNCHANGED vars
  BY <1>1 DEF vars, IInv, TypeOK, SlotAccounting, Owners, WaiterOnceQueuedOrCommitted,
              Registered, NoLostWakeup, Pending, OrderedByRank
<1>2. ASSUME NEW r \in Requests, AcquireFastPath(r) PROVE IInv'
  <2>1. /\ pc[r] = "idle"
        /\ tier' \in [Requests -> Tiers]
        /\ \A x \in Requests : x # r => tier'[x] = tier[x]
        /\ UNCHANGED <<waiters, committed, ready>>
    BY <1>2 DEF AcquireFastPath, IInv, TypeOK, TierForRequest, Tiers
  <2>2. CASE waiters = <<>> /\ sem < Capacity
    BY <1>2, <2>1, <2>2, FastPathStep DEF AcquireFastPath
  <2>3. CASE ~ (waiters = <<>> /\ sem < Capacity)
    BY <1>2, <2>1, <2>3, LabelStep DEF AcquireFastPath
  <2> QED BY <2>2, <2>3
<1>3. ASSUME NEW r \in Requests, AcquireInsert(r) PROVE IInv'
  BY <1>3, InsertStep
<1>4. ASSUME NEW r \in Requests, AcquireDispatch(r) PROVE IInv'
  BY <1>4, DispatchStep DEF AcquireDispatch
<1>5. ASSUME NEW r \in Requests, tryTakeWaiter(r) PROVE IInv'
  <2>1. CASE TakeReady(r)
    BY <1>5, <2>1, TakeReadyStep DEF tryTakeWaiter
  <2>2. CASE ~ TakeReady(r)
    BY <1>5, <2>2, LabelStep DEF tryTakeWaiter, IInv, TypeOK
  <2> QED BY <2>1, <2>2
<1>6. ASSUME NEW r \in Requests, AcquireReady(r) PROVE IInv'
  BY <1>6, TakeReadyStep DEF AcquireReady
<1>7. ASSUME NEW r \in Requests, AcquireExpire(r) PROVE IInv'
  BY <1>7, LabelStep DEF AcquireExpire, IInv, TypeOK
<1>8. ASSUME NEW r \in Requests, removeWaiterIfNotCommitted(r) PROVE IInv'
  <2>1. CASE r \in committed
    BY <1>8, <2>1, LabelStep DEF removeWaiterIfNotCommitted, IInv, TypeOK
  <2>2. CASE r \notin committed
    BY <1>8, <2>2, RemoveStep DEF removeWaiterIfNotCommitted
  <2> QED BY <2>1, <2>2
<1>9. ASSUME NEW r \in Requests, releaseDrain(r) PROVE IInv'
  BY <1>9, ReleaseDrainStep
<1>10. ASSUME NEW r \in Requests, releaseDispatch(r) PROVE IInv'
  BY <1>10, DispatchStep DEF releaseDispatch
<1> QED
  BY <1>1, <1>2, <1>3, <1>4, <1>5, <1>6, <1>7, <1>8, <1>9, <1>10
  DEF Next, AcquireStep, ReleaseStep

\* Every reachable state of the queue satisfies the inductive invariant.
THEOREM Invariance == Spec => []IInv
<1>1. Init => IInv
  BY IInvInit
<1>2. IInv /\ [Next]_vars => IInv'
  BY IInvStep
<1> QED BY <1>1, <1>2, PTL DEF Spec

\* The queue's state is well typed; the semaphore never exceeds its capacity.
THEOREM TypeCorrect == Spec => []TypeOK
<1>1. IInv => TypeOK
  BY DEF IInv
<1> QED BY <1>1, Invariance, PTL

\* Every taken slot has exactly one owner, whatever timeouts and cancels race
\* with dispatch.
THEOREM SlotsAccounted == Spec => []SlotAccounting
<1>1. IInv => SlotAccounting
  BY DEF IInv
<1> QED BY <1>1, Invariance, PTL

\* A registered waiter is queued exactly once or owns a slot, never both.
THEOREM WaitersAccounted == Spec => []WaiterOnceQueuedOrCommitted
<1>1. IInv => WaiterOnceQueuedOrCommitted
  BY DEF IInv
<1> QED BY <1>1, Invariance, PTL

\* Free slots and waiters coexist only while enough dispatch calls are due.
THEOREM WakeupsNotLost == Spec => []NoLostWakeup
<1>1. IInv => NoLostWakeup
  BY DEF IInv
<1> QED BY <1>1, Invariance, PTL

\* The list is ordered by tier.
THEOREM ListOrdered == Spec => []OrderedByRank
<1>1. IInv => OrderedByRank
  BY DEF IInv
<1> QED BY <1>1, Invariance, PTL

\* A dispatch hands the slot to a request that nobody in the list precedes.
LEMMA DispatchInOrder ==
    ASSUME IInv, dispatch, UNCHANGED tier, NEW r \in Requests,
           r \in ready', r \notin ready, NEW a \in ToSet(waiters) \ {r}
    PROVE  \/ Rank(tier'[r]) < Rank(tier[a]) /\ r \in ToSet(waiters)
           \/ Rank(tier'[r]) = Rank(tier[a]) /\ Before(r, a)
<1>1. waiters # <<>> /\ r = Head(waiters)
  BY DEF dispatch
<1>2. waiters \in Seq(Requests) /\ Len(waiters) \in Nat \ {0} /\ DOMAIN waiters = 1..Len(waiters)
  BY <1>1, EmptySeq, LenProperties DEF IInv, TypeOK
<1>3. r = waiters[1] /\ 1 \in 1..Len(waiters)
  BY <1>1, <1>2
<1>4. PICK j \in 1..Len(waiters) : a = waiters[j]
  BY <1>2 DEF ToSet
<1>5. 1 < j
  BY <1>2, <1>3, <1>4
<1>6. Before(r, a)
  BY <1>3, <1>4, <1>5 DEF Before
<1>7. Rank(tier[r]) <= Rank(tier[a])
  BY <1>3, <1>4, <1>5 DEF IInv, OrderedByRank
<1>8. Rank(tier[r]) \in Nat /\ Rank(tier[a]) \in Nat
  <2>1. a \in Requests
    BY <1>2, <1>4
  <2>2. tier[r] \in Tiers /\ tier[a] \in Tiers
    BY <2>1 DEF IInv, TypeOK
  <2> QED BY <2>2, RankType
<1>9. r \in ToSet(waiters)
  BY <1>2, <1>3 DEF ToSet
<1>10. tier'[r] = tier[r]
  OBVIOUS
<1>11. Rank(tier'[r]) = Rank(tier[r])
  BY <1>10
<1> QED BY <1>6, <1>7, <1>8, <1>9, <1>11

\* A slot is granted only over less urgent requests and over later ones of the
\* same tier, by dispatch and by the fast path of Acquire (B9).
THEOREM GrantsInOrder == Spec => GrantInOrder
<1> DEFINE Order(r, a) ==
       \/ Rank(tier'[r]) < Rank(tier[a]) /\ r \in ToSet(waiters)
       \/ Rank(tier'[r]) = Rank(tier[a]) /\ Before(r, a)
           Grant == \A r \in Requests : (~Owns(r) /\ Owns(r)') =>
              \A a \in ToSet(waiters) \ {r} : Order(r, a)
<1>1. IInv /\ [Next]_vars => [Grant]_vars
  <2> SUFFICES ASSUME IInv, NEW x \in Requests, NEW r \in Requests, ~Owns(r), Owns(r)',
                      NEW a \in ToSet(waiters) \ {r},
                      \/ AcquireFastPath(x) \/ AcquireStep(x) \/ AcquireExpire(x) \/ ReleaseStep(x)
               PROVE  Order(r, a)
    BY DEF Next
  <2> HIDE DEF Order
  <2>1. pc \in [Requests -> Labels] /\ pc[r] # "hold" /\ r \notin ready
    BY DEF IInv, TypeOK, Owns
  <2>2. \A l : Goto(x, l) => pc'[r] = IF r = x THEN l ELSE pc[r]
    BY <2>1 DEF Goto
  <2>3. Owns(r)' <=> pc'[r] = "hold" \/ r \in ready'
    BY DEF Owns
  <2>4. CASE AcquireFastPath(x)
    <3>1. waiters = <<>>
      BY <2>1, <2>2, <2>3, <2>4 DEF AcquireFastPath
    <3>2. ToSet(waiters) = {}
      BY <3>1 DEF ToSet
    <3> QED BY <3>2
  <2>5. CASE AcquireDispatch(x) \/ releaseDispatch(x)
    <3>1. dispatch /\ UNCHANGED tier /\ pc'[r] # "hold"
      BY <2>1, <2>2, <2>5 DEF AcquireDispatch, releaseDispatch
    <3>2. r \in ready'
      BY <2>3, <3>1
    <3> QED BY <2>1, <3>1, <3>2, DispatchInOrder DEF Order
  <2>6. CASE tryTakeWaiter(x) \/ AcquireReady(x)
    <3>1. ready' \subseteq ready
      BY <2>6 DEF tryTakeWaiter, AcquireReady, TakeReady
    <3>2. pc'[r] # "hold"
      BY <2>1, <2>2, <2>6 DEF tryTakeWaiter, AcquireReady, TakeReady
    <3> QED BY <2>1, <2>3, <3>1, <3>2
  <2>7. CASE AcquireInsert(x) \/ AcquireExpire(x) \/ removeWaiterIfNotCommitted(x) \/ releaseDrain(x)
    <3>1. ready' = ready
      BY <2>7 DEF AcquireInsert, AcquireExpire, removeWaiterIfNotCommitted, releaseDrain
    <3>2. pc'[r] # "hold"
      BY <2>1, <2>2, <2>7 DEF AcquireInsert, AcquireExpire, removeWaiterIfNotCommitted, releaseDrain
    <3> QED BY <2>1, <2>3, <3>1, <3>2
  <2> QED BY <2>4, <2>5, <2>6, <2>7 DEF AcquireStep, ReleaseStep
<1> QED BY <1>1, Invariance, PTL DEF Spec, GrantInOrder

\* An insertion changes the order of nobody, and the newcomer passes only
\* requests of strictly less urgent tiers.
LEMMA InsertOvertakes ==
    ASSUME IInv, NEW r \in Requests, AcquireInsert(r), NEW a \in ToSet(waiters), NEW b \in Requests,
           Before(b, a)', ~ Before(b, a)
    PROVE  Rank(tier[b]) < Rank(tier[a])
<1> DEFINE n == Len(waiters)
<1>1. /\ waiters \in Seq(Requests) /\ n \in Nat /\ DOMAIN waiters = 1..n
      /\ \A i \in 1..n : waiters[i] \in Requests
  BY LenProperties, ElementOfSeq DEF IInv, TypeOK
<1>2. PICK pos \in 1..(n + 1) :
         /\ pos = InsertPosition(waiters, tier[r])
         /\ pos <= n => Rank(tier[r]) < Rank(tier[waiters[pos]])
  BY InsertPositionFacts DEF IInv
<1>3. waiters' = InsertAt(waiters, pos, r)
  BY <1>2 DEF AcquireInsert, insertWaiter
<1>4. /\ Len(waiters') = n + 1
      /\ \A i \in 1..(pos - 1) : waiters'[i] = waiters[i]
      /\ waiters'[pos] = r
  BY <1>1, <1>2, <1>3, InsertAtPosition
<1>5. \A i \in (pos + 1)..(n + 1) : waiters'[i] = waiters[i - 1]
  <2> SUFFICES ASSUME NEW i \in (pos + 1)..(Len(waiters) + 1)
               PROVE  waiters'[i] = waiters[i - 1]
    OBVIOUS
  <2>1. InsertAt(waiters, pos, r)[i] = waiters[i - 1]
    BY <1>1, <1>2, InsertAtTail
  <2> QED BY <2>1, <1>3
<1>6. r \notin ToSet(waiters)
  BY DEF AcquireInsert, IInv, WaiterOnceQueuedOrCommitted, Registered
<1>7. PICK i, j \in 1..(n + 1) : i < j /\ waiters'[i] = b /\ waiters'[j] = a
  BY <1>4 DEF Before
<1>8. j # pos
  BY <1>4, <1>6, <1>7
<1> DEFINE old(k) == IF k < pos THEN k ELSE k - 1
<1>9. old(j) \in 1..n /\ waiters[old(j)] = a
  BY <1>1, <1>2, <1>4, <1>5, <1>7, <1>8
<1>10. CASE i = pos
  <2>1. b = r /\ pos <= n /\ j - 1 \in pos..n /\ waiters[j - 1] = a
    BY <1>1, <1>2, <1>4, <1>7, <1>9, <1>10
  <2>2. Rank(tier[b]) < Rank(tier[waiters[pos]])
    BY <1>2, <2>1
  <2>3. pos \in 1..n /\ j - 1 \in 1..n
    BY <1>1, <1>2, <2>1
  <2>4. Rank(tier[waiters[pos]]) <= Rank(tier[a])
    <3>1. CASE pos < j - 1
      BY <2>1, <2>3, <3>1 DEF IInv, OrderedByRank
    <3>2. CASE pos = j - 1
      <4>1. tier[a] \in Tiers /\ waiters[pos] = a
        BY <1>1, <2>1, <2>3, <3>2 DEF IInv, TypeOK
      <4> QED BY <4>1, RankType
    <3> QED BY <2>1, <2>3, <3>1, <3>2
  <2>5. tier[b] \in Tiers /\ tier[a] \in Tiers /\ tier[waiters[pos]] \in Tiers
    BY <1>1, <2>1, <2>3 DEF IInv, TypeOK
  <2>6. Rank(tier[b]) \in Nat /\ Rank(tier[a]) \in Nat /\ Rank(tier[waiters[pos]]) \in Nat
    BY <2>5, RankType
  <2> QED BY <2>2, <2>4, <2>6
<1>11. CASE i # pos
  <2>1. old(i) \in 1..n /\ waiters[old(i)] = b
    BY <1>1, <1>2, <1>4, <1>5, <1>7, <1>11
  <2>2. old(i) < old(j)
    BY <1>1, <1>2, <1>7, <1>8, <1>11
  <2> HIDE DEF old
  <2>3. Before(b, a)
    BY <1>9, <2>1, <2>2 DEF Before
  <2> QED BY <2>3
<1> QED BY <1>10, <1>11

\* A list that loses its head, or a request that gives up, keeps its order.
LEMMA ShorterListKeepsOrder ==
    ASSUME IInv, NEW r \in Requests, NEW a \in Requests, NEW b \in Requests, Before(b, a)',
           \/ waiters' = waiters
           \/ waiters # <<>> /\ waiters' = Tail(waiters)
           \/ waiters' = removeWaiter(waiters, r)
    PROVE  Before(b, a)
<1> DEFINE n == Len(waiters)
<1>1. waiters \in Seq(Requests) /\ n \in Nat
  BY LenProperties DEF IInv, TypeOK
<1>2. CASE waiters' = waiters
  BY <1>2 DEF Before
<1>3. ASSUME NEW pos \in 1..n, Len(waiters') = n - 1,
             \A i \in 1..(n - 1) : waiters'[i] = IF i < pos THEN waiters[i] ELSE waiters[i + 1]
      PROVE  Before(b, a)
  <2>1. PICK i, j \in 1..(n - 1) : i < j /\ waiters'[i] = b /\ waiters'[j] = a
    BY <1>3 DEF Before
  <2> DEFINE old(k) == IF k < pos THEN k ELSE k + 1
  <2>2. old(i) \in 1..n /\ old(j) \in 1..n /\ old(i) < old(j)
    BY <1>1, <1>3, <2>1
  <2>3. waiters[old(i)] = b /\ waiters[old(j)] = a
    BY <1>3, <2>1
  <2> HIDE DEF old
  <2> QED BY <2>2, <2>3 DEF Before
<1>4. CASE waiters # <<>> /\ waiters' = Tail(waiters)
  <2>1. /\ 1 \in 1..n /\ Len(waiters') = n - 1
        /\ \A i \in 1..(n - 1) : waiters'[i] = waiters[i + 1]
    BY <1>1, <1>4, HeadTailProperties, EmptySeq
  <2>2. \A i \in 1..(n - 1) : waiters'[i] = IF i < 1 THEN waiters[i] ELSE waiters[i + 1]
    BY <1>1, <2>1
  <2> QED BY <1>3, <2>1, <2>2
<1>5. CASE waiters' = removeWaiter(waiters, r) /\ waiters' # waiters
  <2>1. \E i \in 1..n : waiters[i] = r
    BY <1>5 DEF removeWaiter
  <2> DEFINE pos == CHOOSE i \in 1..n : waiters[i] = r
  <2>2. pos \in 1..n
    BY <2>1
  <2>3. waiters' = RemoveAt(waiters, pos)
    BY <2>1, <1>5 DEF removeWaiter
  <2> HIDE DEF pos
  <2>4. Len(waiters') = n - 1
    BY <1>1, <2>2, <2>3, RemoveAtPosition
  <2>5. \A i \in 1..(n - 1) : waiters'[i] = IF i < pos THEN waiters[i] ELSE waiters[i + 1]
    BY <1>1, <2>2, <2>3, RemoveAtPosition
  <2> QED BY <1>3, <2>2, <2>4, <2>5
<1> QED BY <1>2, <1>4, <1>5

\* Only a more urgent request overtakes one that is queued: within a tier the
\* list that insertWaiter keeps is first in, first out.
THEOREM OvertakenByRankOnly == Spec => OvertakenOnlyByRank
<1> DEFINE Overtaken == \A a, b \in Requests :
              (a \in ToSet(waiters) /\ a \in ToSet(waiters') /\ Before(b, a)' /\ ~Before(b, a))
                  => Rank(tier[b]) < Rank(tier[a])
<1>1. IInv /\ [Next]_vars => [Overtaken]_vars
  <2> SUFFICES ASSUME IInv, NEW x \in Requests, NEW a \in Requests, NEW b \in Requests,
                      a \in ToSet(waiters), Before(b, a)', ~ Before(b, a),
                      \/ AcquireFastPath(x) \/ AcquireStep(x) \/ AcquireExpire(x) \/ ReleaseStep(x)
               PROVE  Rank(tier[b]) < Rank(tier[a])
    BY DEF Next
  <2>1. CASE AcquireInsert(x)
    BY <2>1, InsertOvertakes
  <2>2. CASE ~ AcquireInsert(x)
    <3>1. \/ waiters' = waiters
          \/ waiters # <<>> /\ waiters' = Tail(waiters)
          \/ waiters' = removeWaiter(waiters, x)
      BY <2>2 DEF AcquireFastPath, AcquireStep, AcquireExpire, ReleaseStep, AcquireDispatch,
                  tryTakeWaiter, AcquireReady, removeWaiterIfNotCommitted, releaseDrain,
                  releaseDispatch, dispatch
    <3> QED BY <3>1, ShorterListKeepsOrder
  <2> QED BY <2>1, <2>2
<1> QED BY <1>1, Invariance, PTL DEF Spec, OvertakenOnlyByRank

----------------------------------------------------------------------------
(* Quotas. *)

QuotaFile == [usage : 0 .. MaxUsage, day : 0 .. MaxUsage, date : 0 .. LastDate]

\* A copy of the counters, in the file or on its way there, is behind them: in
\* all, and in the day's part when it is of the same day.
Behind(u) ==
  /\ u \in QuotaFile
  /\ u.day <= u.usage /\ u.usage <= usage /\ u.date <= date
  /\ u.date = date => u.day <= dayUsage

\* The inductive invariant.  The day's counter is part of the whole one and
\* its day is not in the future; every copy is behind; one write is under way
\* at a time, with a copy no older than the file; and what an admin call is about to write has key names only.
QInv ==
  /\ QuotaSound
  /\ dayUsage <= usage /\ date <= now
  /\ Behind(disk) /\ \A u \in saving : Behind(u)
  /\ (\A u, v \in saving : u = v) /\ \A u \in saving : disk.usage <= u.usage
  /\ admin \in [Admins -> [pc : {"idle", "changed", "writing"}, dels : SUBSET KeyNames, snap : SUBSET KeyNames]]

RunningJobs == {j \in Jobs : job[j] = "running"}

\* The bounds are numbers.
LEMMA Bounds ==
  /\ Limit \in Nat /\ DayLimit \in Nat /\ LastDate \in Nat /\ MaxUsage \in Nat /\ MaxCrashes \in Nat
  /\ IsFiniteSet(Jobs) /\ Cardinality(Jobs) \in Nat
BY QuotaAssumption, FS_CardinalityType

\* The requests behind the gate are finitely many, at most all.
LEMMA RunningBound ==
  /\ IsFiniteSet(RunningJobs) /\ Running = Cardinality(RunningJobs)
  /\ Running \in Nat /\ Running <= Cardinality(Jobs)
<1>1. RunningJobs \in SUBSET Jobs
  BY DEF RunningJobs
<1> QED BY <1>1, Bounds, FS_Subset, FS_CardinalityType DEF Running, RunningJobs

\* A request passes the gate: before it does, there is room for it in Jobs.
LEMMA OneMoreRunning ==
  ASSUME NEW j \in Jobs, job \in [Jobs -> {"idle", "running", "charged"}],
         job[j] # "running", job' = [job EXCEPT ![j] = "running"]
  PROVE  Running' = Running + 1 /\ Running + 1 <= Cardinality(Jobs)
<1>1. RunningJobs' = RunningJobs \cup {j} /\ j \notin RunningJobs
  BY DEF RunningJobs
<1>2. Cardinality(RunningJobs') = Cardinality(RunningJobs) + 1
  BY <1>1, RunningBound, FS_AddElement
<1>3. RunningJobs' \in SUBSET Jobs
  BY DEF RunningJobs
<1>4. Cardinality(RunningJobs') <= Cardinality(Jobs)
  BY <1>3, Bounds, FS_Subset
<1>5. Running' = Cardinality(RunningJobs') /\ Running = Cardinality(RunningJobs)
  BY DEF Running, RunningJobs
<1> QED BY <1>2, <1>4, <1>5

\* A request is charged.
LEMMA OneLessRunning ==
  ASSUME NEW j \in Jobs, job \in [Jobs -> {"idle", "running", "charged"}],
         job[j] = "running", job' = [job EXCEPT ![j] = "charged"]
  PROVE  Running' = Running - 1
<1>1. RunningJobs' = RunningJobs \ {j} /\ j \in RunningJobs
  BY DEF RunningJobs
<1>2. Cardinality(RunningJobs') = Cardinality(RunningJobs) - 1
  BY <1>1, RunningBound, FS_RemoveElement
<1> QED BY <1>2 DEF Running, RunningJobs

\* The requests behind the gate stay the same ones.
LEMMA SameRunning ==
  ASSUME \A j \in Jobs : job'[j] = "running" <=> job[j] = "running"
  PROVE  Running' = Running
<1>1. RunningJobs' = RunningJobs
  BY DEF RunningJobs
<1> QED BY <1>1 DEF Running, RunningJobs

\* The parts of QInv about the counters and about the way to the disk.
Spent ==
  /\ usage \in 0 .. MaxUsage /\ dayUsage \in 0 .. MaxUsage /\ date \in 0 .. LastDate /\ now \in 0 .. LastDate
  /\ job \in [Jobs -> {"idle", "running", "charged"}]
  /\ dayUsage <= usage /\ date <= now
Written ==
  /\ Behind(disk) /\ \A u \in saving : Behind(u)
  /\ (\A u, v \in saving : u = v) /\ \A u \in saving : disk.usage <= u.usage
Timers ==
  /\ handle \in BOOLEAN /\ armed \in 0 .. 2 /\ fired \in 0 .. 2
Keys ==
  /\ keys \subseteq KeyNames /\ keyDisk \subseteq KeyNames /\ crashes \in 0 .. MaxCrashes
  /\ admin \in [Admins -> [pc : {"idle", "changed", "writing"}, dels : SUBSET KeyNames, snap : SUBSET KeyNames]]

\* The same invariant, cut along the lines of its proof.
LEMMA QInvParts == QInv <=> Spent /\ Written /\ Timers /\ Keys /\ OverrunBounded /\ SpendingIsPending
<1>1. Spent /\ Written => FileNeverAhead /\ disk.usage \in 0 .. MaxUsage
  BY DEF Written, Spent, Behind, QuotaFile, FileNeverAhead
<1> QED BY <1>1 DEF QInv, QuotaSound, QuotaTypeOK, Spent, Written, Timers, Keys

\* A key change leaves the quotas alone.
KeyStep == \E a \in Admins : \/ \E k \in KeyNames, p \in BOOLEAN : KeyChange(a, k, p)
                             \/ SaveKeysSnapshot(a) \/ SaveKeysRename(a)
\* Key changes touch neither the counters nor the way to the disk.
LEMMA KeyStepKeeps ==
  ASSUME KeyStep
  PROVE  UNCHANGED <<usage, dayUsage, date, now, job, handle, armed, fired, saving, disk, crashes>>
BY DEF KeyStep, KeyChange, SaveKeysSnapshot, SaveKeysRename, counters, timerVars

\* Spending keeps its bounds, also after a crash.
LEMMA SpentStep == QInv /\ [QuotaNext]_quotaVars => Spent'
<1> SUFFICES ASSUME QInv, [QuotaNext]_quotaVars PROVE Spent'
  OBVIOUS
<1>0. Spent /\ Written
  BY QInvParts
<1>1. Today \in 0 .. MaxUsage /\ Today <= usage
  BY <1>0, Bounds DEF Today, Spent
<1>2. CASE \E j \in Jobs : BudgetBlock(j)
  BY <1>0, <1>1, <1>2, Bounds DEF Spent, BudgetBlock
<1>3. CASE \E j \in Jobs : Deduct(j)
  BY <1>0, <1>1, <1>3, Bounds DEF Spent, Deduct
<1>4. CASE \E j \in Jobs : Schedule(j)
  BY <1>0, <1>4 DEF Spent, Schedule, counters
<1>5. CASE Fire \/ Callback \/ SaveQuota \/ Flush \/ KeyStep \/ UNCHANGED quotaVars
  <2>1. UNCHANGED <<usage, dayUsage, date, now, job>>
    BY <1>5, KeyStepKeeps DEF Fire, Callback, SaveQuota, Flush, quotaVars, counters
  <2> QED BY <1>0, <2>1 DEF Spent
<1>6. CASE Midnight
  BY <1>0, <1>6, Bounds DEF Spent, Midnight, counters
<1>7. CASE Crash
  <2>1. /\ disk.usage \in 0 .. MaxUsage /\ disk.day \in 0 .. MaxUsage /\ disk.date \in 0 .. LastDate
        /\ disk.day <= disk.usage /\ disk.date <= now
    BY <1>0, Bounds DEF Written, Behind, QuotaFile, Spent
  <2> QED BY <1>0, <1>7, <2>1 DEF Spent, Crash
<1> QED BY <1>2, <1>3, <1>4, <1>5, <1>6, <1>7 DEF QuotaNext, KeyStep

\* A snapshot of the counters is behind them.
LEMMA SnapshotBehind == Spent => Behind(SnapshotQuota)
BY DEF Spent, Behind, SnapshotQuota, QuotaFile

\* What was behind stays behind when the day turns over or a unit is spent.
LEMMA BehindStays ==
  ASSUME QInv, NEW u, Behind(u),
         \/ \E j \in Jobs : BudgetBlock(j) \/ Deduct(j)
         \/ UNCHANGED <<usage, dayUsage, date>>
  PROVE  Behind(u)'
<1>0. Spent
  BY QInvParts
<1>1. u.usage \in Nat /\ u.day \in Nat /\ u.date \in Nat
  BY Bounds DEF Behind, QuotaFile
<1>2. CASE UNCHANGED <<usage, dayUsage, date>>
  BY <1>2 DEF Behind
<1>3. CASE \E j \in Jobs : BudgetBlock(j)
  BY <1>0, <1>1, <1>3, Bounds DEF Behind, BudgetBlock, Today, Spent
<1>4. CASE \E j \in Jobs : Deduct(j)
  BY <1>0, <1>1, <1>4, Bounds DEF Behind, Deduct, Today, Spent
<1> QED BY <1>2, <1>3, <1>4

\* The file and the write under way stay behind the counters.
LEMMA WrittenStep == QInv /\ [QuotaNext]_quotaVars => Written'
<1> SUFFICES ASSUME QInv, [QuotaNext]_quotaVars PROVE Written'
  OBVIOUS
<1>0. Spent /\ Written
  BY QInvParts
<1>1. CASE \E j \in Jobs : BudgetBlock(j) \/ Deduct(j)
  <2>1. UNCHANGED <<saving, disk>>
    BY <1>1 DEF BudgetBlock, Deduct, timerVars
  <2> QED BY <1>0, <1>1, <2>1, BehindStays DEF Written
<1>2. CASE (\E j \in Jobs : Schedule(j)) \/ Fire \/ Midnight \/ KeyStep \/ UNCHANGED quotaVars
  <2>1. UNCHANGED <<usage, dayUsage, date, saving, disk>>
    BY <1>2, KeyStepKeeps DEF Schedule, Fire, Midnight, quotaVars, counters, timerVars
  <2> QED BY <1>0, <2>1, BehindStays DEF Written
<1>3. CASE Callback
  <2>1. UNCHANGED <<usage, dayUsage, date, disk>> /\ saving' = {SnapshotQuota}
    BY <1>3 DEF Callback, counters
  <2>2. Behind(disk) /\ Behind(SnapshotQuota)
    BY <1>0, SnapshotBehind DEF Written
  <2>3. Behind(disk)' /\ \A u \in saving' : Behind(u)'
    BY <2>1, <2>2 DEF Behind
  <2>4. \A u \in saving' : disk'.usage <= u.usage
    BY <1>0, <2>1 DEF SnapshotQuota, Written, Behind
  <2> QED BY <2>1, <2>3, <2>4 DEF Written
<1>4. CASE SaveQuota
  <2>1. UNCHANGED <<usage, dayUsage, date>> /\ saving' = {} /\ disk' \in saving
    BY <1>4 DEF SaveQuota, counters
  <2>2. Behind(disk)'
    BY <1>0, <2>1 DEF Written, Behind
  <2> QED BY <2>1, <2>2 DEF Written
<1>5. CASE Flush
  <2>1. UNCHANGED <<usage, dayUsage, date>> /\ saving' = {} /\ disk' = SnapshotQuota
    BY <1>5 DEF Flush, counters
  <2>2. Behind(disk)'
    BY <1>0, <2>1, SnapshotBehind DEF Behind
  <2> QED BY <2>1, <2>2 DEF Written
<1>6. CASE Crash
  <2>1. usage' = disk.usage /\ dayUsage' = disk.day /\ date' = disk.date /\ UNCHANGED disk /\ saving' = {}
    BY <1>6 DEF Crash
  <2>2. disk \in QuotaFile /\ disk.day <= disk.usage
    BY <1>0 DEF Written, Behind
  <2>3. disk.usage \in Nat /\ disk.day \in Nat /\ disk.date \in Nat
    BY <2>2, Bounds DEF QuotaFile
  <2>4. Behind(disk)'
    BY <2>1, <2>2, <2>3 DEF Behind
  <2> QED BY <2>1, <2>4 DEF Written
<1> QED BY <1>1, <1>2, <1>3, <1>4, <1>5, <1>6 DEF QuotaNext, KeyStep

\* The timers and the keys stay in range.
LEMMA TimersKeysStep == QInv /\ [QuotaNext]_quotaVars => Timers' /\ Keys'
<1> SUFFICES ASSUME QInv, [QuotaNext]_quotaVars PROVE Timers' /\ Keys'
  OBVIOUS
<1>0. Timers /\ Keys
  BY QInvParts
<1>1. ScheduledTimers \in Nat
  BY <1>0 DEF ScheduledTimers, Timers
<1>2. CASE \E j \in Jobs : BudgetBlock(j) \/ Deduct(j)
  BY <1>0, <1>2 DEF Timers, Keys, BudgetBlock, Deduct, timerVars, keyVars
<1>3. CASE \E j \in Jobs : Schedule(j)
  <2>1. handle' = TRUE /\ armed' \in 0 .. 2 /\ UNCHANGED <<fired, keys, keyDisk, admin, crashes>>
    BY <1>1, <1>3 DEF Schedule, keyVars
  <2> QED BY <1>0, <2>1 DEF Timers, Keys
<1>4. CASE Fire \/ Callback \/ SaveQuota
  <2>1. armed' \in 0 .. 2 /\ fired' \in 0 .. 2
    BY <1>0, <1>4 DEF Timers, Fire, Callback, SaveQuota
  <2>2. handle' \in BOOLEAN
    BY <1>0, <1>4, Zenon DEF Timers, Fire, Callback, SaveQuota
  <2>3. Timers'
    BY <2>1, <2>2 DEF Timers
  <2> QED BY <1>0, <1>4, <2>3 DEF Keys, Fire, Callback, SaveQuota, keyVars
<1>5. NoCall \in [pc : {"idle", "changed", "writing"}, dels : SUBSET KeyNames, snap : SUBSET KeyNames]
  BY DEF NoCall
<1>6. CASE Flush \/ Crash
  <2>1. /\ handle' = FALSE /\ armed' = 0 /\ fired' = 0 /\ keys' = keyDisk /\ UNCHANGED keyDisk
        /\ admin' = [a \in Admins |-> NoCall] /\ crashes < MaxCrashes /\ crashes' = crashes + 1
    BY <1>6 DEF Flush, Crash
  <2>2. Timers'
    <3>1. handle' \in BOOLEAN
      BY <2>1, Zenon
    <3>2. armed' \in 0 .. 2 /\ fired' \in 0 .. 2
      BY <2>1
    <3> QED BY <3>1, <3>2 DEF Timers
  <2>3. keys' \subseteq KeyNames /\ keyDisk' \subseteq KeyNames /\ crashes' \in 0 .. MaxCrashes
    BY <1>0, <2>1, Bounds DEF Keys
  <2>4. admin' \in [Admins -> [pc : {"idle", "changed", "writing"}, dels : SUBSET KeyNames, snap : SUBSET KeyNames]]
    BY <1>5, <2>1
  <2> QED BY <2>2, <2>3, <2>4 DEF Keys
<1>7. CASE Midnight \/ UNCHANGED quotaVars
  BY <1>0, <1>7 DEF Timers, Keys, Midnight, quotaVars, timerVars, keyVars
<1>8. CASE KeyStep
  <2>1. Timers' /\ UNCHANGED crashes
    BY <1>0, <1>8, KeyStepKeeps DEF Timers
  <2>2. ASSUME NEW a \in Admins, NEW k \in KeyNames, NEW p \in BOOLEAN, KeyChange(a, k, p)
        PROVE  Keys'
    BY <1>0, <2>1, <2>2 DEF Keys, KeyChange
  <2>3. ASSUME NEW a \in Admins, SaveKeysSnapshot(a)
        PROVE  Keys'
    BY <1>0, <2>1, <2>3 DEF Keys, SaveKeysSnapshot
  <2>4. ASSUME NEW a \in Admins, SaveKeysRename(a)
        PROVE  Keys'
    BY <1>0, <1>5, <2>1, <2>4 DEF Keys, SaveKeysRename
  <2> QED BY <1>8, <2>1, <2>2, <2>3, <2>4 DEF KeyStep
<1> QED BY <1>2, <1>3, <1>4, <1>6, <1>7, <1>8 DEF QuotaNext, KeyStep

\* The overrun stays bounded: the gate lets a request in only below the limit,
\* and then there are at most all of Jobs behind it.
LEMMA OverrunStep == QInv /\ [QuotaNext]_quotaVars => OverrunBounded'
<1> SUFFICES ASSUME QInv, [QuotaNext]_quotaVars PROVE OverrunBounded'
  OBVIOUS
<1>0. Spent /\ Written /\ OverrunBounded
  BY QInvParts
<1>1. Running \in Nat /\ Running' \in Nat /\ Running <= Cardinality(Jobs)
  <2>1. (Running \in Nat)'
    BY RunningBound, PTL
  <2> QED BY <2>1, RunningBound
<1>2. /\ usage \in Nat /\ dayUsage \in Nat /\ date \in Nat /\ now \in Nat /\ date <= now
      /\ job \in [Jobs -> {"idle", "running", "charged"}]
  BY <1>0, Bounds DEF Spent
<1>3. ASSUME NEW j \in Jobs, BudgetBlock(j)
      PROVE  OverrunBounded'
  <2>1. Running' = Running + 1 /\ Running + 1 <= Cardinality(Jobs)
    BY <1>2, <1>3, OneMoreRunning DEF BudgetBlock
  <2>2. ~ Exceeded /\ usage' = usage /\ dayUsage' = Today /\ date' = now /\ now' = now
    BY <1>3 DEF BudgetBlock
  <2> HIDE DEF Running
  <2> QED BY <1>0, <1>1, <1>2, <2>1, <2>2, Bounds DEF OverrunBounded, Exceeded, Today
<1>4. ASSUME NEW j \in Jobs, Deduct(j)
      PROVE  OverrunBounded'
  <2>1. Running' = Running - 1
    BY <1>2, <1>4, OneLessRunning DEF Deduct
  <2>2. usage' = usage + 1 /\ dayUsage' = Today + 1 /\ date' = now /\ now' = now
    BY <1>4 DEF Deduct
  <2> QED BY <1>0, <1>1, <1>2, <2>1, <2>2, Bounds DEF OverrunBounded, Today
<1>5. CASE \E j \in Jobs : Schedule(j)
  <2>1. Running' = Running
    BY <1>2, <1>5, SameRunning DEF Schedule
  <2> QED BY <1>0, <1>5, <2>1 DEF OverrunBounded, Schedule, counters
<1>6. CASE Fire \/ Callback \/ SaveQuota \/ Flush \/ KeyStep \/ UNCHANGED quotaVars
  <2>1. UNCHANGED <<usage, dayUsage, date, now, job>>
    BY <1>6, KeyStepKeeps DEF Fire, Callback, SaveQuota, Flush, quotaVars, counters
  <2>2. Running' = Running
    BY <2>1, SameRunning
  <2> QED BY <1>0, <2>1, <2>2 DEF OverrunBounded
<1>7. CASE Midnight
  <2>1. UNCHANGED <<usage, dayUsage, date, job>> /\ now' = now + 1
    BY <1>7 DEF Midnight, counters
  <2>2. Running' = Running
    BY <2>1, SameRunning
  <2> QED BY <1>0, <1>2, <2>1, <2>2 DEF OverrunBounded
<1>8. CASE Crash
  <2>1. usage' = disk.usage /\ dayUsage' = disk.day /\ date' = disk.date /\ UNCHANGED now
    BY <1>8 DEF Crash
  <2>2. /\ disk.usage \in Nat /\ disk.day \in Nat /\ disk.date \in Nat /\ disk.usage <= usage
        /\ disk.date <= date /\ (disk.date = date => disk.day <= dayUsage)
    BY <1>0, Bounds DEF Written, Behind, QuotaFile
  <2>3. RunningJobs' = {}
    BY <1>8 DEF Crash, RunningJobs
  <2>4. Running' = 0
    BY <2>3, FS_EmptySet DEF Running, RunningJobs
  <2> QED BY <1>0, <1>1, <1>2, <2>1, <2>2, <2>4, Bounds DEF OverrunBounded
<1> QED BY <1>3, <1>4, <1>5, <1>6, <1>7, <1>8 DEF QuotaNext, KeyStep

\* What is not on disk stays on its way there.
LEMMA PendingStep == QInv /\ [QuotaNext]_quotaVars => SpendingIsPending'
<1> SUFFICES ASSUME QInv, [QuotaNext]_quotaVars PROVE SpendingIsPending'
  OBVIOUS
<1>0. Spent /\ Written /\ Timers /\ SpendingIsPending
  BY QInvParts
<1>1. CASE \E j \in Jobs : BudgetBlock(j)
  <2>1. UNCHANGED <<usage, armed, fired, saving, disk>> /\ \A j \in Jobs : job[j] = "charged" => job'[j] = "charged"
    BY <1>0, <1>1 DEF BudgetBlock, timerVars, Spent
  <2> QED BY <1>0, <2>1 DEF SpendingIsPending
<1>2. CASE \E j \in Jobs : Deduct(j)
  BY <1>0, <1>2 DEF Deduct, Spent, SpendingIsPending
<1>3. CASE \E j \in Jobs : Schedule(j)
  <2>1. armed' > 0
    BY <1>0, <1>3 DEF Schedule, ScheduledTimers, Timers
  <2> QED BY <2>1 DEF SpendingIsPending
<1>4. CASE Fire
  <2>1. fired' > 0
    BY <1>0, <1>4 DEF Fire, Timers
  <2> QED BY <2>1 DEF SpendingIsPending
<1>5. CASE Callback
  <2>1. saving' = {SnapshotQuota} /\ usage' = usage
    BY <1>5 DEF Callback, counters
  <2>2. \E u \in saving' : u.usage = usage'
    BY <2>1 DEF SnapshotQuota
  <2> QED BY <2>2 DEF SpendingIsPending
<1>6. CASE SaveQuota
  <2>1. UNCHANGED <<usage, armed, fired, job>> /\ disk' \in saving
    BY <1>6 DEF SaveQuota, counters
  <2>2. (\E u \in saving : u.usage = usage) => disk'.usage = usage
    BY <1>0, <2>1 DEF Written
  <2>3. CASE disk.usage = usage
    <3>1. disk'.usage \in Nat /\ disk'.usage <= usage /\ disk.usage <= disk'.usage /\ usage \in Nat
      BY <1>0, <2>1, Bounds DEF Written, Behind, QuotaFile, Spent
    <3>2. disk'.usage = usage'
      BY <2>1, <2>3, <3>1
    <3> QED BY <3>2 DEF SpendingIsPending
  <2>4. CASE disk.usage # usage
    BY <1>0, <2>1, <2>2, <2>4 DEF SpendingIsPending
  <2> QED BY <2>3, <2>4
<1>7. CASE Flush
  BY <1>7 DEF Flush, SnapshotQuota, SpendingIsPending, counters
<1>8. CASE Crash
  BY <1>8 DEF Crash, SpendingIsPending
<1>9. CASE Midnight \/ KeyStep \/ UNCHANGED quotaVars
  <2>1. UNCHANGED <<usage, armed, fired, saving, disk, job>>
    BY <1>9, KeyStepKeeps DEF Midnight, quotaVars, counters, timerVars
  <2> QED BY <1>0, <2>1 DEF SpendingIsPending
<1> QED BY <1>1, <1>2, <1>3, <1>4, <1>5, <1>6, <1>7, <1>8, <1>9 DEF QuotaNext, KeyStep

\* The counters and the file start equal.
LEMMA QInvInit == QuotaInit => QInv
<1> SUFFICES ASSUME QuotaInit PROVE QInv
  OBVIOUS
<1>1. Spent
  BY Bounds DEF QuotaInit, Spent
<1>2. Behind(disk)
  BY <1>1, SnapshotBehind DEF QuotaInit
<1>3. Written /\ SpendingIsPending
  BY <1>2 DEF QuotaInit, Written, SpendingIsPending, SnapshotQuota
<1>4. Timers
  <2>1. handle \in BOOLEAN
    BY Zenon DEF QuotaInit
  <2>2. armed \in 0 .. 2 /\ fired \in 0 .. 2
    BY DEF QuotaInit
  <2> QED BY <2>1, <2>2 DEF Timers
<1>5. NoCall \in [pc : {"idle", "changed", "writing"}, dels : SUBSET KeyNames, snap : SUBSET KeyNames]
  BY DEF NoCall
<1>6. Keys
  BY <1>5, Bounds DEF QuotaInit, Keys
<1>7. RunningJobs = {}
  BY DEF QuotaInit, RunningJobs
<1>8. Running = 0
  BY <1>7, FS_EmptySet DEF Running, RunningJobs
<1>9. OverrunBounded
  BY <1>8, Bounds DEF QuotaInit, OverrunBounded
<1> QED BY <1>1, <1>3, <1>4, <1>6, <1>9, QInvParts

\* Every step preserves the invariant.
LEMMA QInvStep == QInv /\ [QuotaNext]_quotaVars => QInv'
<1> SUFFICES ASSUME QInv, [QuotaNext]_quotaVars PROVE QInv'
  OBVIOUS
<1>1. Spent' /\ Written' /\ Timers' /\ Keys' /\ OverrunBounded' /\ SpendingIsPending'
  BY SpentStep, WrittenStep, TimersKeysStep, OverrunStep, PendingStep
<1>2. (QInv <=> Spent /\ Written /\ Timers /\ Keys /\ OverrunBounded /\ SpendingIsPending)'
  BY QInvParts, PTL
<1> QED BY <1>1, <1>2

\* For any number of requests, limits, midnights and crashes: a budget is
\* overrun by at most the requests behind the gate, unwritten spending is on
\* its way to quota.json, and the file is never ahead of the counters.
THEOREM QuotaIsSound == QuotaSpec => []QuotaSound
<1>1. QInv => QuotaSound
  BY DEF QInv
<1> QED BY <1>1, QInvInit, QInvStep, PTL DEF QuotaSpec

----------------------------------------------------------------------------
(* The configuration. *)

Docs == [text : {"yaml", "garbage", "missing"}, bad : SUBSET Rules, has : SUBSET Writers,
         secret : {"old", "new"}, rev : Nat]

\* A call that holds configMutex.
Active(w) == put[w].pc \in {"backup", "write", "reread", "commit"}

ConfigTyped ==
  /\ file \in Docs /\ lastGood \in Docs /\ live \in [doc : Docs, decrypted : BOOLEAN]
  /\ put \in [Writers -> [pc : {"idle", "backup", "write", "reread", "commit", "saved", "refused"}, doc : Docs]]
  /\ rel \in [Reloaders -> [pc : {"idle", "commit", "recover", "quarantine", "restore"}, doc : Docs]]
  /\ up \in {"boot", "restore", "up", "fatal"} /\ edits \in Nat

\* What is about to be served from loads.
CommitsLoad ==
  /\ \A w \in Writers : put[w].pc = "commit" => Loadable(put[w].doc)
  /\ \A p \in Reloaders : rel[p].pc \in {"commit", "recover"} => Loadable(rel[p].doc)
  /\ up \in {"up", "restore"} => Loadable(live.doc)

\* One call at a time holds configMutex.
OneWriter == \A w, x \in Writers : Active(w) /\ Active(x) => w = x

\* Without an edit by hand no recovery runs, and a call that is about to
\* replace the file has everything the file has: nothing changed it since the
\* call read it.
NothingLost ==
  /\ Loadable(file) /\ (lastGood # Missing => Loadable(lastGood))
  /\ Saved \subseteq file.has
  /\ up # "restore" /\ \A p \in Reloaders : rel[p].pc \in {"idle", "commit"}
  /\ \A w \in Writers : put[w].pc \in {"backup", "write"} => Loadable(put[w].doc) /\ file.has \cup {w} \subseteq put[w].doc.has
  /\ \A w \in Writers : put[w].pc \in {"reread", "commit"} => w \in file.has

\* The inductive invariant.
CfgInv == ConfigTyped /\ CommitsLoad /\ OneWriter /\ (edits = 0 => NothingLost)

PutRecord == [pc : {"idle", "backup", "write", "reread", "commit", "saved", "refused"}, doc : Docs]
RelRecord == [pc : {"idle", "commit", "recover", "quarantine", "restore"}, doc : Docs]

\* The documents that appear by name are documents, and only one loads.
LEMMA NamedDocs ==
  /\ Missing \in Docs /\ DefaultConfig \in Docs /\ Loadable(DefaultConfig) /\ ~ Loadable(Missing)
  /\ IdlePut \in PutRecord /\ IdlePut.pc = "idle" /\ IdleReload \in RelRecord /\ IdleReload.pc = "idle"
<1>1. Missing \in Docs /\ DefaultConfig \in Docs
  BY DEF Missing, DefaultConfig, Doc, Docs
<1>2. Loadable(DefaultConfig) /\ ~ Loadable(Missing)
  BY DEF Missing, DefaultConfig, Doc, Loadable, Parses
<1> HIDE DEF Missing
<1> QED BY <1>1, <1>2 DEF IdlePut, IdleReload, PutRecord, RelRecord

\* An endpoint's secret is of one of three kinds.
LEMMA EndpointSecrets == \A e \in Endpoints : e.secret \in {"none", "file", "snapshot"}
BY DEF Endpoints, Endpoint, handleServerConfig, handleRateLimitConfig, handleRetryConfig, handleNegotiationConfig,
       handleUpdateRoutingConfig, handleCacheConfig, handleCostMarkupConfig, handlePIIConfig,
       handleCloudRoutingConfig, handleHardwareConfig, handleTokenizerConfig, handleObservabilityConfig,
       handleCORSConfig, handleHotReloadConfig, handleClusterConfig, handleRealtimeConfig, handleAdminConfig,
       handleOIDCConfig, handleRBACConfig, handleSemanticCacheConfig, handlePromptInjectionConfig,
       handleBatchConfig, handleStoreConfig, handleValidationConfig, handleAuthConfig, handlePersistenceConfig,
       handleFindingApply, createBackend, deleteBackend, handleBackendByName

\* A masked value leaves a secret as it was.
LEMMA MaskedKept ==
  ASSUME NEW old \in {"old", "new"}, NEW val \in {"empty", "masked", "new"}
  PROVE  ApplyMaskedString(old, val) \in {"old", "new"}
BY DEF ApplyMaskedString

\* The document of a call is one, with the call's change beside all others.
LEMMA MutatedDoc ==
  ASSUME NEW d \in Docs, live.doc \in Docs, NEW w \in Writers, NEW e \in Endpoints,
         NEW val \in {"empty", "masked", "new"}
  PROVE  Mutated(d, w, e, val) \in Docs /\ Mutated(d, w, e, val).has = d.has \cup {w}
<1> DEFINE secret == CASE e.secret = "none" -> d.secret
                       [] e.secret = "file" -> ApplyMaskedString(d.secret, val)
                       [] e.secret = "snapshot" -> ApplyMaskedString(live.doc.secret, val)
           bad == {r \in d.bad : r \cap e.sections = {}}
<1>1. d.secret \in {"old", "new"} /\ live.doc.secret \in {"old", "new"}
  BY DEF Docs
<1>2. secret \in {"old", "new"}
  BY <1>1, EndpointSecrets, MaskedKept
<1>3. bad \in SUBSET Rules
  BY DEF Docs
<1>4. Mutated(d, w, e, val) = [[[d EXCEPT !.has = d.has \cup {w}] EXCEPT !.bad = bad] EXCEPT !.secret = secret]
  BY DEF Mutated
<1> HIDE DEF secret, bad
<1>5. d.has \cup {w} \in SUBSET Writers
  BY DEF Docs
<1> DEFINE made(h, b, t) == [[[d EXCEPT !.has = h] EXCEPT !.bad = b] EXCEPT !.secret = t]
<1>6. \A h \in SUBSET Writers, b \in SUBSET Rules, t \in {"old", "new"} :
         made(h, b, t) \in Docs /\ made(h, b, t).has = h
  BY DEF Docs
<1>7. Mutated(d, w, e, val) = made(d.has \cup {w}, bad, secret)
  BY <1>4
<1> HIDE DEF made
<1> QED BY <1>2, <1>3, <1>5, <1>6, <1>7

\* Where a call's own steps leave its record.
LEMMA OnePut ==
  ASSUME ConfigTyped, NEW w \in Writers, NEW x \in PutRecord, put' = [put EXCEPT ![w] = x]
  PROVE  /\ put' \in [Writers -> PutRecord] /\ put'[w] = x
         /\ \A v \in Writers \ {w} : put'[v] = put[v]
BY DEF ConfigTyped, PutRecord

\* Where a reload's own steps leave its record.
LEMMA OneReload ==
  ASSUME ConfigTyped, NEW p \in Reloaders, NEW x \in RelRecord, rel' = [rel EXCEPT ![p] = x]
  PROVE  /\ rel' \in [Reloaders -> RelRecord] /\ rel'[p] = x
         /\ \A q \in Reloaders \ {p} : rel'[q] = rel[q]
BY DEF ConfigTyped, RelRecord

\* The record of one call changes, the file and the reloads do not.
LEMMA PutOnly ==
  ASSUME CfgInv, NEW w \in Writers, NEW x \in PutRecord, put' = [put EXCEPT ![w] = x],
         UNCHANGED <<file, rel, up, edits>>, lastGood' \in {lastGood, file}, live' \in [doc : Docs, decrypted : BOOLEAN],
         live' # live => Loadable(live'.doc),
         x.pc = "commit" => Loadable(x.doc),
         x.pc \in {"backup", "write", "reread", "commit"} => \A v \in Writers \ {w} : ~ Active(v),
         edits = 0 => /\ x.pc \in {"reread", "commit", "saved"} => w \in file.has
                      /\ x.pc \in {"backup", "write"} => Loadable(x.doc) /\ file.has \cup {w} \subseteq x.doc.has
  PROVE  CfgInv'
<1>0. ConfigTyped /\ CommitsLoad /\ OneWriter /\ (edits = 0 => NothingLost)
  BY DEF CfgInv
<1>1. /\ put' \in [Writers -> PutRecord] /\ put'[w] = x
      /\ \A v \in Writers \ {w} : put'[v] = put[v]
  BY <1>0, OnePut
<1>2. ConfigTyped'
  BY <1>0, <1>1 DEF ConfigTyped, PutRecord
<1>3. CommitsLoad'
  BY <1>0, <1>1 DEF CommitsLoad
<1>4. OneWriter'
  BY <1>0, <1>1 DEF OneWriter, Active
<1>5. ASSUME edits' = 0 PROVE NothingLost'
  <2>1. NothingLost
    BY <1>0, <1>5
  <2>2. Loadable(file') /\ (lastGood' # Missing => Loadable(lastGood'))
    BY <2>1 DEF NothingLost
  <2>3. Saved' \subseteq file'.has
    BY <1>1, <1>5, <2>1 DEF NothingLost, Saved
  <2>4. \A v \in Writers : put'[v].pc \in {"backup", "write"} =>
                               Loadable(put'[v].doc) /\ file'.has \cup {v} \subseteq put'[v].doc.has
    BY <1>1, <1>5, <2>1 DEF NothingLost
  <2>5. \A v \in Writers : put'[v].pc \in {"reread", "commit"} => v \in file'.has
    BY <1>1, <1>5, <2>1 DEF NothingLost
  <2> QED BY <2>1, <2>2, <2>3, <2>4, <2>5 DEF NothingLost
<1> QED BY <1>2, <1>3, <1>4, <1>5 DEF CfgInv

\* The call's record, and what the invariant says of it.
LEMMA PutFacts ==
  ASSUME CfgInv, NEW w \in Writers
  PROVE  /\ put[w] \in PutRecord /\ put[w].doc \in Docs /\ file \in Docs /\ live \in [doc : Docs, decrypted : BOOLEAN]
         /\ live.doc \in Docs /\ lastGood \in Docs
         /\ \A v \in Writers \ {w} : Active(w) => ~ Active(v)
BY DEF CfgInv, ConfigTyped, OneWriter, PutRecord

\* A PUT is refused, or begins.
LEMMA PutBeginsStep ==
  ASSUME CfgInv, NEW w \in Writers,
         PutRefused(w) \/ \E e \in Endpoints, v \in {"empty", "masked", "new"} : PutBegins(w, e, v)
  PROVE  CfgInv'
<1>0. /\ put[w] \in PutRecord /\ file \in Docs /\ live.doc \in Docs /\ put[w].doc \in Docs
      /\ live \in [doc : Docs, decrypted : BOOLEAN]
  BY PutFacts
<1>1. CASE PutRefused(w)
  <2> DEFINE x == [put[w] EXCEPT !.pc = "refused"]
  <2>1. x \in PutRecord /\ x.pc = "refused"
    BY <1>0 DEF PutRecord
  <2>2. put' = [put EXCEPT ![w] = x] /\ UNCHANGED <<file, lastGood, live, rel, up, edits>>
    BY <1>1 DEF PutRefused
  <2> HIDE DEF x
  <2> QED BY <1>0, <2>1, <2>2, PutOnly
<1>2. CASE \E e \in Endpoints, v \in {"empty", "masked", "new"} : PutBegins(w, e, v)
  <2>1. PICK e \in Endpoints, v \in {"empty", "masked", "new"} : PutBegins(w, e, v)
    BY <1>2
  <2> DEFINE m == Mutated(file, w, e, v)
             x == [pc |-> "backup", doc |-> m]
  <2>2. m \in Docs /\ m.has = file.has \cup {w}
    BY <1>0, MutatedDoc
  <2>3. /\ put' = [put EXCEPT ![w] = x] /\ UNCHANGED <<file, lastGood, live, rel, up, edits>>
        /\ Loadable(m) /\ ConfigMutexFree
    BY <2>1 DEF PutBegins
  <2> HIDE DEF m
  <2>4. x \in PutRecord /\ x.pc = "backup" /\ x.doc = m
    BY <2>2 DEF PutRecord
  <2> HIDE DEF x
  <2>5. \A u \in Writers \ {w} : ~ Active(u)
    BY <2>3 DEF ConfigMutexFree, Active
  <2> QED BY <1>0, <2>2, <2>3, <2>4, <2>5, PutOnly
<1> QED BY <1>1, <1>2

\* The backup, the reread and the commit of a PUT.
LEMMA PutGoesOn ==
  ASSUME CfgInv, NEW w \in Writers, PutBackup(w) \/ PutReread(w) \/ PutCommit(w)
  PROVE  CfgInv'
<1>0. /\ put[w] \in PutRecord /\ put[w].doc \in Docs /\ file \in Docs /\ live \in [doc : Docs, decrypted : BOOLEAN]
      /\ \A v \in Writers \ {w} : Active(w) => ~ Active(v)
      /\ (edits = 0 => NothingLost) /\ CommitsLoad
  BY PutFacts DEF CfgInv
<1>1. CASE PutBackup(w)
  <2> DEFINE x == [put[w] EXCEPT !.pc = "write"]
  <2>1. x \in PutRecord /\ x.pc = "write" /\ x.doc = put[w].doc
    BY <1>0 DEF PutRecord
  <2>2. /\ put' = [put EXCEPT ![w] = x] /\ UNCHANGED <<file, live, rel, up, edits>>
        /\ put[w].pc = "backup" /\ lastGood' \in {lastGood, file}
    BY <1>1 DEF PutBackup, BackupFile
  <2> HIDE DEF x
  <2>3. Active(w) /\ (edits = 0 => Loadable(x.doc) /\ file.has \cup {w} \subseteq x.doc.has)
    BY <1>0, <2>1, <2>2 DEF NothingLost, Active
  <2> QED BY <1>0, <2>1, <2>2, <2>3, PutOnly
<1>2. CASE PutReread(w)
  <2> DEFINE x == IF Loadable(file) THEN [pc |-> "commit", doc |-> file] ELSE [pc |-> "refused", doc |-> Missing]
  <2>1. /\ x \in PutRecord /\ x.pc \in {"commit", "refused"}
        /\ x.pc = "commit" => Loadable(x.doc)
    BY <1>0, NamedDocs DEF PutRecord
  <2>2. /\ put' = [put EXCEPT ![w] = x] /\ UNCHANGED <<file, lastGood, live, rel, up, edits>>
        /\ put[w].pc = "reread"
    BY <1>2 DEF PutReread
  <2> HIDE DEF x
  <2>3. Active(w) /\ (edits = 0 => w \in file.has)
    BY <1>0, <2>2 DEF NothingLost, Active
  <2> QED BY <1>0, <2>1, <2>2, <2>3, PutOnly
<1>3. CASE PutCommit(w)
  <2> DEFINE x == [pc |-> "saved", doc |-> Missing]
  <2>1. x \in PutRecord /\ x.pc = "saved"
    BY NamedDocs DEF PutRecord
  <2>2. /\ put' = [put EXCEPT ![w] = x] /\ UNCHANGED <<file, lastGood, rel, up, edits>>
        /\ put[w].pc = "commit" /\ live' = [doc |-> put[w].doc, decrypted |-> FALSE]
    BY <1>3 DEF PutCommit, Reloaded
  <2> HIDE DEF x
  <2>3. live' \in [doc : Docs, decrypted : BOOLEAN] /\ live'.doc = put[w].doc
    BY <1>0, <2>2
  <2>4. Loadable(live'.doc) /\ (edits = 0 => w \in file.has)
    BY <1>0, <2>2, <2>3 DEF NothingLost, CommitsLoad
  <2> QED BY <2>1, <2>2, <2>3, <2>4, PutOnly
<1> QED BY <1>1, <1>2, <1>3

\* The rename of a PUT: the new file has everything the old one has.
LEMMA PutRenameStep ==
  ASSUME CfgInv, NEW w \in Writers, PutRename(w)
  PROVE  CfgInv'
<1>0. ConfigTyped /\ CommitsLoad /\ OneWriter /\ (edits = 0 => NothingLost)
  BY DEF CfgInv
<1>1. /\ put[w] \in PutRecord /\ put[w].doc \in Docs
      /\ \A v \in Writers \ {w} : Active(w) => ~ Active(v)
  BY PutFacts
<1> DEFINE x == [put[w] EXCEPT !.pc = "reread"]
<1>2. x \in PutRecord /\ x.pc = "reread"
  BY <1>1 DEF PutRecord
<1>3. /\ put' = [put EXCEPT ![w] = x] /\ UNCHANGED <<lastGood, live, rel, up, edits>>
      /\ put[w].pc = "write" /\ file' = put[w].doc
  BY DEF PutRename
<1> HIDE DEF x
<1>4. /\ put' \in [Writers -> PutRecord] /\ put'[w] = x
      /\ \A v \in Writers \ {w} : put'[v] = put[v]
  BY <1>0, <1>2, <1>3, OnePut
<1>5. \A v \in Writers \ {w} : ~ Active(v)
  BY <1>1, <1>3 DEF Active
<1>6. ConfigTyped'
  BY <1>0, <1>1, <1>3, <1>4 DEF ConfigTyped, PutRecord
<1>7. CommitsLoad'
  BY <1>0, <1>2, <1>3, <1>4 DEF CommitsLoad
<1>8. OneWriter'
  BY <1>4, <1>5 DEF OneWriter, Active
<1>9. ASSUME edits' = 0 PROVE NothingLost'
  <2>1. NothingLost
    BY <1>0, <1>3, <1>9
  <2>2. Loadable(put[w].doc) /\ file.has \cup {w} \subseteq put[w].doc.has
    BY <1>3, <2>1 DEF NothingLost
  <2>3. Saved' \subseteq file'.has
    BY <1>2, <1>3, <1>4, <2>1, <2>2 DEF NothingLost, Saved
  <2>4. \A v \in Writers : put'[v].pc \notin {"backup", "write"} /\ (put'[v].pc \in {"reread", "commit"} => v = w)
    BY <1>2, <1>4, <1>5 DEF Active
  <2> QED BY <1>3, <2>1, <2>2, <2>3, <2>4 DEF NothingLost
<1> QED BY <1>6, <1>7, <1>8, <1>9 DEF CfgInv

\* The record of one reload changes; without an edit, the file does not.
LEMMA ReloadOnly ==
  ASSUME CfgInv, NEW p \in Reloaders, NEW x \in RelRecord, rel' = [rel EXCEPT ![p] = x],
         UNCHANGED <<lastGood, put, up, edits>>, file' \in Docs, live' \in [doc : Docs, decrypted : BOOLEAN],
         live' # live => Loadable(live'.doc),
         x.pc \in {"commit", "recover"} => Loadable(x.doc),
         edits = 0 => file' = file /\ x.pc \in {"idle", "commit"}
  PROVE  CfgInv'
<1>0. ConfigTyped /\ CommitsLoad /\ OneWriter /\ (edits = 0 => NothingLost)
  BY DEF CfgInv
<1>1. /\ rel' \in [Reloaders -> RelRecord] /\ rel'[p] = x
      /\ \A q \in Reloaders \ {p} : rel'[q] = rel[q]
  BY <1>0, OneReload
<1>2. ConfigTyped'
  BY <1>0, <1>1 DEF ConfigTyped, RelRecord
<1>3. CommitsLoad'
  BY <1>0, <1>1 DEF CommitsLoad
<1>4. OneWriter'
  BY <1>0 DEF OneWriter, Active
<1>5. ASSUME edits' = 0 PROVE NothingLost'
  BY <1>0, <1>1, <1>5 DEF NothingLost, Saved
<1> QED BY <1>2, <1>3, <1>4, <1>5 DEF CfgInv

\* Every step of a reload.
LEMMA ReloadKeeps ==
  ASSUME CfgInv, NEW p \in Reloaders, ReloadBegins(p) \/ ReloadStep(p)
  PROVE  CfgInv'
<1>0. ConfigTyped /\ CommitsLoad /\ (edits = 0 => NothingLost)
  BY DEF CfgInv
<1>1. /\ rel[p] \in RelRecord /\ rel[p].doc \in Docs /\ file \in Docs /\ lastGood \in Docs
      /\ live \in [doc : Docs, decrypted : BOOLEAN]
  BY <1>0 DEF ConfigTyped, RelRecord
<1>2. CASE ReloadBegins(p)
  <2> DEFINE x == CASE Loadable(file) -> [pc |-> "commit", doc |-> file]
                    [] ~Loadable(file) /\ Loadable(lastGood) -> [pc |-> "recover", doc |-> lastGood]
                    [] OTHER -> IdleReload
  <2>1. rel' = [rel EXCEPT ![p] = x] /\ UNCHANGED <<file, lastGood, live, put, up, edits>>
    BY <1>2 DEF ReloadBegins
  <2>2. CASE Loadable(file)
    <3>1. x = [pc |-> "commit", doc |-> file]
      BY <2>2
    <3>2. x \in RelRecord /\ x.pc = "commit" /\ x.doc = file
      BY <1>1, <3>1 DEF RelRecord
    <3> HIDE DEF x
    <3> QED BY <1>1, <2>1, <2>2, <3>2, ReloadOnly
  <2>3. CASE ~ Loadable(file) /\ Loadable(lastGood)
    <3>1. x = [pc |-> "recover", doc |-> lastGood]
      BY <2>3
    <3>2. x \in RelRecord /\ x.pc = "recover" /\ x.doc = lastGood
      BY <1>1, <3>1 DEF RelRecord
    <3>3. edits # 0
      BY <1>0, <2>3 DEF NothingLost
    <3> HIDE DEF x
    <3> QED BY <1>1, <2>1, <2>3, <3>2, <3>3, ReloadOnly
  <2>4. CASE ~ Loadable(file) /\ ~ Loadable(lastGood)
    <3>1. x = IdleReload
      BY <2>4
    <3>2. edits # 0
      BY <1>0, <2>4 DEF NothingLost
    <3> HIDE DEF x
    <3> QED BY <1>1, <2>1, <3>1, <3>2, NamedDocs, ReloadOnly
  <2> QED BY <2>2, <2>3, <2>4
<1>3. CASE ReloadCommits(p)
  <2> DEFINE x == IF rel[p].pc = "commit" THEN IdleReload ELSE [pc |-> "quarantine", doc |-> lastGood]
  <2>1. /\ rel' = [rel EXCEPT ![p] = x] /\ UNCHANGED <<file, lastGood, put, up, edits>>
        /\ rel[p].pc \in {"commit", "recover"} /\ live' = [doc |-> rel[p].doc, decrypted |-> FALSE]
    BY <1>3 DEF ReloadCommits, Reloaded
  <2>2. x \in RelRecord /\ x.pc \in {"idle", "quarantine"} /\ (rel[p].pc = "commit" => x.pc = "idle")
    BY <1>1, NamedDocs DEF RelRecord
  <2> HIDE DEF x
  <2>3. live' \in [doc : Docs, decrypted : BOOLEAN] /\ Loadable(live'.doc)
    BY <1>0, <1>1, <2>1 DEF CommitsLoad
  <2>4. edits = 0 => rel[p].pc = "commit"
    BY <1>0, <2>1 DEF NothingLost
  <2> QED BY <1>1, <2>1, <2>2, <2>3, <2>4, ReloadOnly
<1>4. CASE ReloadQuarantines(p)
  <2> DEFINE x == IF file = Missing THEN IdleReload ELSE [rel[p] EXCEPT !.pc = "restore"]
  <2>1. /\ rel' = [rel EXCEPT ![p] = x] /\ UNCHANGED <<lastGood, live, put, up, edits>>
        /\ rel[p].pc = "quarantine" /\ file' = Missing
    BY <1>4 DEF ReloadQuarantines
  <2>2. x \in RelRecord /\ x.pc \in {"idle", "restore"}
    BY <1>1, NamedDocs DEF RelRecord
  <2> HIDE DEF x
  <2>3. edits # 0
    BY <1>0, <2>1 DEF NothingLost
  <2> QED BY <1>1, <2>1, <2>2, <2>3, NamedDocs, ReloadOnly
<1>5. CASE ReloadRestores(p)
  <2>1. /\ rel' = [rel EXCEPT ![p] = IdleReload] /\ UNCHANGED <<lastGood, live, put, up, edits>>
        /\ rel[p].pc = "restore" /\ file' = rel[p].doc
    BY <1>5 DEF ReloadRestores
  <2>2. edits # 0
    BY <1>0, <2>1 DEF NothingLost
  <2> QED BY <1>1, <2>1, <2>2, NamedDocs, ReloadOnly
<1> QED BY <1>2, <1>3, <1>4, <1>5 DEF ReloadStep

\* An edit by hand.
LEMMA EditKeeps ==
  ASSUME CfgInv, NEW text \in {"yaml", "garbage"}, NEW bad \in SUBSET Rules, ExternalEdit(text, bad)
  PROVE  CfgInv'
<1>0. ConfigTyped /\ CommitsLoad /\ OneWriter
  BY DEF CfgInv
<1>1. edits \in Nat /\ edits' = edits + 1 /\ edits' # 0 /\ edits' \in Nat
  BY <1>0 DEF ExternalEdit, ConfigTyped
<1>2. file' = [[[file EXCEPT !.text = text] EXCEPT !.bad = bad] EXCEPT !.rev = edits + 1] /\ file \in Docs
  BY <1>0 DEF ExternalEdit, ConfigTyped
<1>3. file' \in Docs
  BY <1>1, <1>2 DEF Docs
<1>4. UNCHANGED <<lastGood, live, put, rel, up>>
  BY DEF ExternalEdit
<1>5. ConfigTyped'
  BY <1>0, <1>1, <1>3, <1>4 DEF ConfigTyped
<1>6. CommitsLoad' /\ OneWriter'
  BY <1>0, <1>4 DEF CommitsLoad, OneWriter, Active
<1> QED BY <1>1, <1>5, <1>6 DEF CfgInv

\* The start of the process, its recovery and its crash.
LEMMA BootKeeps ==
  ASSUME CfgInv, Boot \/ BootRestores \/ CrashProcess
  PROVE  CfgInv'
<1>0. ConfigTyped /\ CommitsLoad /\ OneWriter /\ (edits = 0 => NothingLost)
  BY DEF CfgInv
<1>1. CASE Boot
  <2> DEFINE found == IF Loadable(file) THEN file ELSE lastGood
  <2>1. UNCHANGED <<put, rel, edits>>
    BY <1>1 DEF Boot
  <2>2. OneWriter'
    BY <1>0, <2>1 DEF OneWriter, Active
  <2>3. CASE Loadable(found) /\ file # Missing
    <3>1. /\ live' = [doc |-> found, decrypted |-> TRUE] /\ up' \in {"up", "restore"}
          /\ found = file => up' = "up" /\ lastGood' = file /\ file' = file
          /\ found # file => file' = Missing /\ lastGood' = lastGood
      BY <1>1, <2>3 DEF Boot, BackupFile
    <3>2. found \in Docs
      BY <1>0 DEF ConfigTyped
    <3>3. edits = 0 => found = file
      BY <1>0 DEF NothingLost
    <3> HIDE DEF found
    <3>4. live' \in [doc : Docs, decrypted : BOOLEAN] /\ live'.doc = found
      BY <3>1, <3>2
    <3>5. ConfigTyped'
      BY <1>0, <2>1, <3>1, <3>4, NamedDocs DEF ConfigTyped
    <3>6. CommitsLoad'
      BY <1>0, <2>1, <2>3, <3>1, <3>4 DEF CommitsLoad
    <3>7. ASSUME edits' = 0 PROVE NothingLost'
      BY <1>0, <2>1, <3>1, <3>3, <3>7 DEF NothingLost, Saved
    <3> QED BY <2>2, <3>5, <3>6, <3>7 DEF CfgInv
  <2>4. CASE ~ (Loadable(found) /\ file # Missing)
    <3>1. up' = "fatal" /\ UNCHANGED <<live, file, lastGood>>
      BY <1>1, <2>4 DEF Boot
    <3> HIDE DEF found
    <3>2. ConfigTyped' /\ CommitsLoad'
      BY <1>0, <2>1, <3>1 DEF ConfigTyped, CommitsLoad
    <3>3. ASSUME edits' = 0 PROVE NothingLost'
      BY <1>0, <2>1, <3>1, <3>3 DEF NothingLost, Saved
    <3> QED BY <2>2, <3>2, <3>3 DEF CfgInv
  <2> QED BY <2>3, <2>4
<1>2. CASE BootRestores
  <2>1. up = "restore" /\ up' = "up" /\ file' = lastGood /\ UNCHANGED <<lastGood, live, put, rel, edits>>
    BY <1>2 DEF BootRestores
  <2>2. edits # 0
    BY <1>0, <2>1 DEF NothingLost
  <2>3. ConfigTyped'
    BY <1>0, <2>1 DEF ConfigTyped
  <2>4. CommitsLoad' /\ OneWriter'
    BY <1>0, <2>1 DEF CommitsLoad, OneWriter, Active
  <2> QED BY <2>1, <2>2, <2>3, <2>4 DEF CfgInv
<1>3. CASE CrashProcess
  <2> DEFINE left(w) == IF put[w].pc \in {"saved", "idle"} THEN put[w] ELSE [put[w] EXCEPT !.pc = "refused"]
  <2>1. /\ up' = "boot" /\ put' = [w \in Writers |-> left(w)] /\ rel' = [p \in Reloaders |-> IdleReload]
        /\ UNCHANGED <<file, lastGood, live, edits>>
    BY <1>3 DEF CrashProcess
  <2>2. \A w \in Writers : /\ left(w) \in PutRecord /\ left(w).pc \in {"saved", "idle", "refused"}
                           /\ left(w).pc = "saved" => put[w].pc = "saved"
    BY <1>0 DEF ConfigTyped, PutRecord
  <2> HIDE DEF left
  <2>3. ConfigTyped'
    BY <1>0, <2>1, <2>2, NamedDocs DEF ConfigTyped, PutRecord, RelRecord
  <2>4. CommitsLoad' /\ OneWriter'
    BY <2>1, <2>2, NamedDocs DEF CommitsLoad, OneWriter, Active
  <2>5. ASSUME edits' = 0 PROVE NothingLost'
    <3>1. NothingLost
      BY <1>0, <2>1, <2>5
    <3>2. Saved' \subseteq Saved
      BY <2>1, <2>2 DEF Saved
    <3> QED BY <2>1, <2>2, <3>1, <3>2, NamedDocs DEF NothingLost
  <2> QED BY <2>3, <2>4, <2>5 DEF CfgInv
<1> QED BY <1>1, <1>2, <1>3

\* A gateway that has not started yet has lost nothing.
LEMMA CfgInvInit == ConfigInit => CfgInv
<1> SUFFICES ASSUME ConfigInit PROVE CfgInv
  OBVIOUS
<1>1. ConfigTyped
  BY NamedDocs DEF ConfigInit, ConfigTyped, PutRecord, RelRecord
<1>2. CommitsLoad /\ OneWriter
  BY NamedDocs DEF ConfigInit, CommitsLoad, OneWriter, Active
<1>3. Saved = {}
  BY NamedDocs DEF ConfigInit, Saved
<1>4. NothingLost
  BY <1>3, NamedDocs DEF ConfigInit, NothingLost
<1> QED BY <1>1, <1>2, <1>4 DEF CfgInv

\* Every step preserves the invariant.
LEMMA CfgInvStep == CfgInv /\ [ConfigNext]_cfgVars => CfgInv'
<1> SUFFICES ASSUME CfgInv, [ConfigNext]_cfgVars PROVE CfgInv'
  OBVIOUS
<1>1. CASE UNCHANGED cfgVars
  BY <1>1 DEF cfgVars, CfgInv, ConfigTyped, CommitsLoad, OneWriter, Active, NothingLost, Saved
<1>2. CASE \E w \in Writers : PutRefused(w) \/ PutStep(w) \/
                              \E e \in Endpoints, v \in {"empty", "masked", "new"} : PutBegins(w, e, v)
  BY <1>2, PutBeginsStep, PutGoesOn, PutRenameStep DEF PutStep
<1>3. CASE \E p \in Reloaders : ReloadBegins(p) \/ ReloadStep(p)
  BY <1>3, ReloadKeeps
<1>4. CASE ExternalEdit("garbage", {}) \/ \E b \in SUBSET Breakable : ExternalEdit("yaml", b)
  <2>1. \A b \in SUBSET Breakable : b \in SUBSET Rules
    BY ConfigStoreAssumption
  <2> QED BY <1>4, <2>1, EditKeeps
<1>5. CASE Boot \/ BootRestores \/ CrashProcess
  BY <1>5, BootKeeps
<1> QED BY <1>1, <1>2, <1>3, <1>4, <1>5 DEF ConfigNext

\* For any number of admin calls, reloads, edits and crashes: without an edit
\* by hand config.yaml always loads and has every change that was reported
\* saved; no masked value becomes a secret; nothing is served that does not
\* load.
THEOREM ConfigIsSound == ConfigSpec => []ConfigSound
<1>1. CfgInv => ConfigSound
  <2> SUFFICES ASSUME CfgInv PROVE ConfigSound
    OBVIOUS
  <2>1. SavedSurvives
    BY DEF CfgInv, NothingLost, SavedSurvives
  <2>2. file \in Docs /\ lastGood \in Docs /\ live.doc \in Docs
    BY DEF CfgInv, ConfigTyped
  <2>3. SecretsNeverMasked
    BY <2>2 DEF Docs, SecretsNeverMasked
  <2>4. ServedLoads
    BY DEF CfgInv, CommitsLoad, ServedLoads
  <2> QED BY <2>1, <2>3, <2>4 DEF ConfigSound
<1> QED BY <1>1, CfgInvInit, CfgInvStep, PTL DEF ConfigSpec
=============================================================================
