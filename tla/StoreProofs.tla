----------------------------- MODULE StoreProofs -----------------------------
(***************************************************************************)
(* Proofs about what is kept of requests: the semantic cache                 *)
(* (SemanticCache), the response cache (Cache) and the stores (Stores), each *)
(* with an inductive invariant of its own.  Lemmas about sequences, finite   *)
(* sets of numbers and running totals, which several of them need, come      *)
(* first.  RequestProofs states what follows for the composition.            *)
(***************************************************************************)
EXTENDS Cache, SemanticCache, Stores, FiniteSetsExt, FiniteSetTheorems, SequenceTheorems, TLAPS

\* No element occurs twice.
Distinct(s) == \A i, j \in 1 .. Len(s) : s[i] = s[j] => i = j

\* The elements of a sequence.
LEMMA ElementsOf ==
    ASSUME NEW S, NEW s \in Seq(S)
    PROVE  /\ ToSet(s) = {s[i] : i \in 1 .. Len(s)} /\ ToSet(s) \subseteq S
           /\ \A x : x \in ToSet(s) <=> \E i \in 1 .. Len(s) : s[i] = x
BY LenProperties DEF ToSet

\* The empty sequence has none.
LEMMA EmptySequence ==
    ASSUME NEW S
    PROVE  <<>> \in Seq(S) /\ Len(<<>>) = 0 /\ ToSet(<<>>) = {} /\ Distinct(<<>>)
<1>1. <<>> \in Seq(S) /\ Len(<<>>) = 0
  BY EmptySeq
<1>2. \A x : x \in ToSet(<<>>) <=> \E i \in 1 .. Len(<<>>) : <<>>[i] = x
  BY <1>1, ElementsOf
<1>3. 1 .. Len(<<>>) = {}
  BY <1>1
<1> QED BY <1>1, <1>2, <1>3 DEF Distinct

\* One more element at the end.
LEMMA AppendElement ==
    ASSUME NEW S, NEW s \in Seq(S), NEW x \in S
    PROVE  LET t == Append(s, x)
           IN  /\ t \in Seq(S) /\ Len(t) = Len(s) + 1 /\ ToSet(t) = ToSet(s) \cup {x}
               /\ Distinct(s) /\ x \notin ToSet(s) => Distinct(t)
<1> DEFINE t == Append(s, x)
<1>1. /\ t \in Seq(S) /\ Len(t) = Len(s) + 1 /\ Len(s) \in Nat /\ t[Len(s) + 1] = x
      /\ \A i \in 1 .. Len(s) : t[i] = s[i]
  BY AppendProperties, LenProperties
<1> HIDE DEF t
<1>2. \A i \in 1 .. Len(t) : i \in 1 .. Len(s) \/ i = Len(s) + 1
  BY <1>1
<1>3. ToSet(t) = ToSet(s) \cup {x}
  <2>1. \A y : y \in ToSet(t) <=> \E i \in 1 .. Len(t) : t[i] = y
    BY <1>1, ElementsOf
  <2>2. \A y : y \in ToSet(s) <=> \E i \in 1 .. Len(s) : s[i] = y
    BY ElementsOf
  <2>3. 1 .. Len(s) \subseteq 1 .. Len(t) /\ Len(s) + 1 \in 1 .. Len(t)
    BY <1>1
  <2> QED BY <1>1, <1>2, <2>1, <2>2, <2>3
<1>4. ASSUME Distinct(s), x \notin ToSet(s) PROVE Distinct(t)
  <2>1. \A i \in 1 .. Len(s) : s[i] # x
    BY <1>4, ElementsOf
  <2>2. ASSUME NEW i \in 1 .. Len(t), NEW j \in 1 .. Len(t), t[i] = t[j]
        PROVE  i = j
    BY <1>1, <1>2, <1>4, <2>1, <2>2 DEF Distinct
  <2> QED BY <2>2 DEF Distinct
<1> QED BY <1>1, <1>3, <1>4 DEF t

\* Two sequences, one after the other.
LEMMA JoinSequences ==
    ASSUME NEW S, NEW s \in Seq(S), NEW t \in Seq(S)
    PROVE  /\ s \o t \in Seq(S) /\ Len(s \o t) = Len(s) + Len(t) /\ ToSet(s \o t) = ToSet(s) \cup ToSet(t)
           /\ Distinct(s) /\ Distinct(t) /\ ToSet(s) \cap ToSet(t) = {} => Distinct(s \o t)
<1> DEFINE c == s \o t
<1>1. PICK M, N \in Nat : M = Len(s) /\ N = Len(t)
  BY LenProperties
<1>2. /\ c \in Seq(S) /\ Len(c) = M + N
      /\ \A i \in 1 .. (M + N) : c[i] = IF i <= M THEN s[i] ELSE t[i - M]
  BY <1>1, ConcatProperties
<1> HIDE DEF c
<1>3. /\ \A i \in 1 .. M : i \in 1 .. (M + N) /\ c[i] = s[i]
      /\ \A i \in 1 .. N : M + i \in 1 .. (M + N) /\ c[M + i] = t[i]
      /\ \A i \in 1 .. (M + N) : \/ i \in 1 .. M /\ c[i] = s[i]
                                 \/ i - M \in 1 .. N /\ c[i] = t[i - M]
  <2>1. \A i \in 1 .. M : i \in 1 .. (M + N) /\ i <= M
    OBVIOUS
  <2>2. \A i \in 1 .. N : M + i \in 1 .. (M + N) /\ ~ (M + i <= M) /\ (M + i) - M = i
    OBVIOUS
  <2>3. \A i \in 1 .. (M + N) : (i \in 1 .. M /\ i <= M) \/ (i - M \in 1 .. N /\ ~ (i <= M))
    OBVIOUS
  <2> QED BY <1>2, <2>1, <2>2, <2>3
<1>4. /\ \A y : y \in ToSet(s) <=> \E i \in 1 .. M : s[i] = y
      /\ \A y : y \in ToSet(t) <=> \E i \in 1 .. N : t[i] = y
      /\ \A y : y \in ToSet(c) <=> \E i \in 1 .. (M + N) : c[i] = y
  <2>1. \A y : y \in ToSet(c) <=> \E i \in 1 .. Len(c) : c[i] = y
    BY <1>2, ElementsOf
  <2> QED BY <1>1, <1>2, <2>1, ElementsOf
<1>5. ToSet(c) = ToSet(s) \cup ToSet(t)
  <2>1. ASSUME NEW y, y \in ToSet(c) PROVE y \in ToSet(s) \cup ToSet(t)
    BY <1>3, <1>4, <2>1
  <2>2. ASSUME NEW y, y \in ToSet(s) PROVE y \in ToSet(c)
    BY <1>3, <1>4, <2>2
  <2>3. ASSUME NEW y, y \in ToSet(t) PROVE y \in ToSet(c)
    <3>1. PICK i \in 1 .. N : t[i] = y
      BY <1>4, <2>3
    <3> QED BY <1>3, <1>4, <3>1
  <2> QED BY <2>1, <2>2, <2>3
<1>6. ASSUME Distinct(s), Distinct(t), ToSet(s) \cap ToSet(t) = {} PROVE Distinct(c)
  <2>1. ASSUME NEW i \in 1 .. (M + N), NEW j \in 1 .. (M + N), c[i] = c[j]
        PROVE  i = j
    <3>1. CASE i \in 1 .. M /\ c[i] = s[i] /\ j \in 1 .. M /\ c[j] = s[j]
      BY <1>1, <1>6, <2>1, <3>1 DEF Distinct
    <3>2. CASE i - M \in 1 .. N /\ c[i] = t[i - M] /\ j - M \in 1 .. N /\ c[j] = t[j - M]
      <4>1. i - M = j - M
        BY <1>1, <1>6, <2>1, <3>2 DEF Distinct
      <4> QED BY <4>1
    <3>3. \/ i \in 1 .. M /\ c[i] = s[i] /\ j \in 1 .. M /\ c[j] = s[j]
          \/ i - M \in 1 .. N /\ c[i] = t[i - M] /\ j - M \in 1 .. N /\ c[j] = t[j - M]
      BY <1>3, <1>4, <1>6, <2>1
    <3> QED BY <3>1, <3>2, <3>3
  <2> QED BY <1>2, <2>1 DEF Distinct
<1> QED BY <1>1, <1>2, <1>5, <1>6 DEF c

\* The least element of a set of numbers, the form in which induction is used.
LEMMA LeastNumber ==
    ASSUME NEW S \in SUBSET Nat, S # {}
    PROVE  \E n \in S : \A m \in S : n <= m
<1>1. PICK n \in S : \A m \in S : <<m, n>> \notin OpToRel(<, Nat)
  BY NatLessThanWellFounded, WFMin
<1>2. \A m \in S : ~ (m < n)
  BY <1>1 DEF OpToRel
<1> QED BY <1>2

\* A finite set of numbers has an upper bound.
LEMMA FiniteBounded ==
    ASSUME NEW S, IsFiniteSet(S), S \subseteq Nat
    PROVE  \E b \in Nat : \A x \in S : x <= b
<1> DEFINE Bounded(T) == \E b \in Nat : \A x \in T : x <= b
           Bad == {n \in Nat : \E T \in SUBSET Nat : IsFiniteSet(T) /\ Cardinality(T) = n /\ ~ Bounded(T)}
<1>1. SUFFICES ASSUME ~ Bounded(S) PROVE FALSE
  OBVIOUS
<1>2. Cardinality(S) \in Bad
  BY <1>1, FS_CardinalityType
<1>3. PICK n \in Bad : \A m \in Bad : n <= m
  BY <1>2, LeastNumber
<1>4. PICK T \in SUBSET Nat : IsFiniteSet(T) /\ Cardinality(T) = n /\ ~ Bounded(T)
  BY <1>3
<1>5. T # {}
  BY <1>4
<1>6. PICK y \in T : TRUE
  BY <1>5
<1>7. IsFiniteSet(T \ {y}) /\ Cardinality(T \ {y}) = n - 1 /\ Cardinality(T \ {y}) \in Nat
  BY <1>4, <1>6, FS_RemoveElement, FS_CardinalityType
<1>8. n - 1 \notin Bad
  BY <1>3
<1>9. Bounded(T \ {y})
  BY <1>7, <1>8
<1>10. PICK b \in Nat : \A x \in T \ {y} : x <= b
  BY <1>9
<1>11. y \in Nat
  BY <1>6
<1>12. \A x \in T : x <= b + y
  BY <1>10, <1>11
<1>13. Bounded(T)
  BY <1>10, <1>11, <1>12
<1> QED BY <1>4, <1>13

\* What Max and Min pick of a finite set of numbers.
LEMMA MaxMin ==
    ASSUME NEW S, IsFiniteSet(S), S \subseteq Nat, S # {}
    PROVE  /\ Max(S) \in S /\ \A x \in S : x <= Max(S)
           /\ Min(S) \in S /\ \A x \in S : Min(S) <= x
<1>1. PICK n \in S : \A x \in S : n <= x
  BY LeastNumber
<1>2. Min(S) \in S /\ \A x \in S : Min(S) <= x
  BY <1>1 DEF Min
<1>3. PICK k \in Nat : \A x \in S : x <= k
  BY FiniteBounded
<1> DEFINE B == {b \in Nat : \A x \in S : x <= b}
<1>4. B \subseteq Nat /\ B # {}
  BY <1>3
<1>5. PICK b \in B : \A m \in B : b <= m
  BY <1>4, LeastNumber
<1>6. b \in S
  <2>1. SUFFICES ASSUME b \notin S PROVE FALSE
    OBVIOUS
  <2>2. \A x \in S : x <= b /\ x # b /\ x \in Nat
    BY <1>5, <2>1
  <2>3. b # 0
    BY <1>1, <2>2
  <2>4. b - 1 \in B
    BY <1>5, <2>2, <2>3
  <2> QED BY <1>5, <2>4
<1>7. \E x \in S : \A y \in S : x >= y
  BY <1>5, <1>6
<1>8. Max(S) \in S /\ \A y \in S : Max(S) >= y
  BY <1>7 DEF Max
<1> QED BY <1>2, <1>8

-----------------------------------------------------------------------------
(* Running totals                                                            *)

\* A table of the totals of f up to n.
Totals(s, f, n) == s = [i \in 0 .. n |-> IF i = 0 THEN 0 ELSE s[i - 1] + f[i]]

\* There is one.
LEMMA TotalsExist == ASSUME NEW f, NEW N \in Nat PROVE \E s : Totals(s, f, N)
<1> DEFINE bad == {n \in Nat : ~ \E s : Totals(s, f, n)}
<1>1. SUFFICES ASSUME bad # {} PROVE FALSE
  OBVIOUS
<1>2. PICK n \in bad : \A m \in bad : n <= m
  BY <1>1, LeastNumber
<1>3. n \in Nat /\ ~ \E s : Totals(s, f, n)
  BY <1>2
<1>4. CASE n = 0
  <2> DEFINE s == [i \in 0 .. 0 |-> 0]
  <2>1. \A i \in 0 .. 0 : i = 0
    OBVIOUS
  <2>2. Totals(s, f, 0)
    BY <2>1 DEF Totals
  <2> QED BY <1>3, <1>4, <2>2
<1>5. CASE n # 0
  <2> DEFINE k == n - 1
  <2>1. k \in Nat /\ ~ (n <= k) /\ n = k + 1
    BY <1>3, <1>5
  <2>2. k \notin bad
    BY <1>2, <2>1
  <2>3. PICK g : Totals(g, f, k)
    BY <2>1, <2>2
  <2> HIDE DEF k
  <2> DEFINE s == [i \in 0 .. n |-> IF i <= k THEN g[i] ELSE g[k] + f[i]]
  <2>4. ASSUME NEW i \in 0 .. n PROVE s[i] = IF i = 0 THEN 0 ELSE s[i - 1] + f[i]
    <3>1. CASE i = 0
      BY <2>1, <2>3, <3>1 DEF Totals
    <3>2. CASE i # 0 /\ i <= k
      <4>1. i \in 0 .. k /\ i - 1 \in 0 .. k /\ i - 1 \in 0 .. n /\ i - 1 <= k
        BY <2>1, <3>2
      <4>2. s[i] = g[i] /\ s[i - 1] = g[i - 1]
        BY <3>2, <4>1
      <4>3. g[i] = g[i - 1] + f[i]
        BY <2>3, <3>2, <4>1 DEF Totals
      <4> QED BY <3>2, <4>2, <4>3
    <3>3. CASE i # 0 /\ ~ (i <= k)
      <4>1. i - 1 = k /\ k \in 0 .. n
        BY <2>1, <3>3
      <4>2. s[i] = g[k] + f[i]
        BY <3>3
      <4>3. s[k] = g[k]
        BY <2>1, <4>1
      <4> QED BY <3>3, <4>1, <4>2, <4>3
    <3> QED BY <3>1, <3>2, <3>3
  <2>5. s = [i \in 0 .. n |-> s[i]]
    OBVIOUS
  <2> HIDE DEF s
  <2>6. Totals(s, f, n)
    BY <2>4, <2>5 DEF Totals
  <2> QED BY <1>3, <2>6
<1> QED BY <1>4, <1>5

\* Tables agree where both are defined.
LEMMA TotalsAgree ==
    ASSUME NEW f, NEW n \in Nat, NEW m \in Nat, n <= m, NEW s, NEW t, Totals(s, f, n), Totals(t, f, m)
    PROVE  \A i \in 0 .. n : s[i] = t[i]
<1> DEFINE bad == {i \in 0 .. n : s[i] # t[i]}
<1>1. SUFFICES ASSUME bad # {} PROVE FALSE
  OBVIOUS
<1>2. bad \in SUBSET Nat
  OBVIOUS
<1>3. PICK i \in bad : \A j \in bad : i <= j
  BY <1>1, <1>2, LeastNumber
<1>4. i \in 0 .. n /\ i \in 0 .. m /\ i \in Nat /\ s[i] # t[i]
  BY <1>3
<1>5. i # 0
  BY <1>4 DEF Totals
<1>6. i - 1 \in 0 .. n /\ ~ (i <= i - 1)
  BY <1>4, <1>5
<1>7. s[i - 1] = t[i - 1]
  BY <1>3, <1>6
<1>8. s[i] = s[i - 1] + f[i] /\ t[i] = t[i - 1] + f[i]
  BY <1>4, <1>5 DEF Totals
<1> QED BY <1>4, <1>7, <1>8

\* A total is an entry of any table that reaches so far.
LEMMA SumIs ==
    ASSUME NEW f, NEW n \in Nat, NEW m \in Nat, n <= m, NEW t, Totals(t, f, m)
    PROVE  SumUpTo(f, n) = t[n]
<1>1. \E s : Totals(s, f, n)
  BY TotalsExist
<1> DEFINE s == CHOOSE u : Totals(u, f, n)
<1>2. Totals(s, f, n)
  BY <1>1
<1>3. SumUpTo(f, n) = s[n]
  BY DEF SumUpTo, Totals
<1> HIDE DEF s
<1>4. n \in 0 .. n
  OBVIOUS
<1> QED BY <1>2, <1>3, <1>4, TotalsAgree

\* One more turn of the loop.
LEMMA SumStep ==
    ASSUME NEW f
    PROVE  SumUpTo(f, 0) = 0 /\ \A n \in Nat : SumUpTo(f, n + 1) = SumUpTo(f, n) + f[n + 1]
<1>1. ASSUME NEW n \in Nat PROVE SumUpTo(f, n + 1) = SumUpTo(f, n) + f[n + 1]
  <2>1. PICK t : Totals(t, f, n + 1)
    BY TotalsExist
  <2>2. SumUpTo(f, n) = t[n] /\ SumUpTo(f, n + 1) = t[n + 1]
    BY <2>1, SumIs
  <2>3. n + 1 \in 0 .. (n + 1) /\ n + 1 # 0 /\ (n + 1) - 1 = n
    OBVIOUS
  <2>4. t[n + 1] = t[(n + 1) - 1] + f[n + 1]
    BY <2>1, <2>3 DEF Totals
  <2> QED BY <2>2, <2>3, <2>4
<1>2. SumUpTo(f, 0) = 0
  <2>1. PICK t : Totals(t, f, 0)
    BY TotalsExist
  <2>2. t[0] = 0
    BY <2>1 DEF Totals
  <2> QED BY <2>1, <2>2, SumIs
<1> QED BY <1>1, <1>2

\* Totals of counts are counts, and grow with what is counted.
LEMMA SumLeq ==
    ASSUME NEW f, NEW g, NEW N \in Nat, \A i \in 1 .. N : f[i] \in Nat /\ g[i] \in Nat /\ f[i] <= g[i]
    PROVE  SumUpTo(f, N) \in Nat /\ SumUpTo(g, N) \in Nat /\ SumUpTo(f, N) <= SumUpTo(g, N)
<1> DEFINE Good(n) == SumUpTo(f, n) \in Nat /\ SumUpTo(g, n) \in Nat /\ SumUpTo(f, n) <= SumUpTo(g, n)
           bad == {n \in 0 .. N : ~ Good(n)}
<1>1. bad = {}
  <2>1. SUFFICES ASSUME bad # {} PROVE FALSE
    OBVIOUS
  <2>2. bad \in SUBSET Nat
    OBVIOUS
  <2>3. PICK n \in bad : \A m \in bad : n <= m
    BY <2>1, <2>2, LeastNumber
  <2>4. n \in 0 .. N /\ n \in Nat /\ ~ Good(n)
    BY <2>3
  <2>5. n # 0
    BY <2>4, SumStep
  <2> DEFINE k == n - 1
  <2>6. k \in 0 .. N /\ k \in Nat /\ k + 1 = n /\ ~ (n <= k) /\ n \in 1 .. N
    BY <2>4, <2>5
  <2>7. Good(k)
    BY <2>3, <2>6
  <2>8. SumUpTo(f, n) = SumUpTo(f, k) + f[n] /\ SumUpTo(g, n) = SumUpTo(g, k) + g[n]
    BY <2>6, SumStep
  <2>9. f[n] \in Nat /\ g[n] \in Nat /\ f[n] <= g[n]
    BY <2>6
  <2> HIDE DEF k
  <2>10. Good(n)
    BY <2>7, <2>8, <2>9
  <2> QED BY <2>4, <2>10
<1> QED BY <1>1

\* A total of counts is a count.
LEMMA SumNat == ASSUME NEW f, NEW N \in Nat, \A i \in 1 .. N : f[i] \in Nat PROVE SumUpTo(f, N) \in Nat
<1>1. \A i \in 1 .. N : f[i] \in Nat /\ f[i] <= f[i]
  OBVIOUS
<1> QED BY <1>1, SumLeq

\* What is counted the same has the same total.
LEMMA SumSame ==
    ASSUME NEW f, NEW g, NEW N \in Nat, \A i \in 1 .. N : f[i] = g[i]
    PROVE  SumUpTo(f, N) = SumUpTo(g, N)
<1> DEFINE bad == {n \in 0 .. N : SumUpTo(f, n) # SumUpTo(g, n)}
<1>1. bad = {}
  <2>1. SUFFICES ASSUME bad # {} PROVE FALSE
    OBVIOUS
  <2>2. bad \in SUBSET Nat
    OBVIOUS
  <2>3. PICK n \in bad : \A m \in bad : n <= m
    BY <2>1, <2>2, LeastNumber
  <2>4. n \in 0 .. N /\ n \in Nat /\ SumUpTo(f, n) # SumUpTo(g, n)
    BY <2>3
  <2>5. n # 0
    BY <2>4, SumStep
  <2> DEFINE k == n - 1
  <2>6. k \in 0 .. N /\ k \in Nat /\ k + 1 = n /\ ~ (n <= k) /\ n \in 1 .. N
    BY <2>4, <2>5
  <2>7. SumUpTo(f, k) = SumUpTo(g, k)
    BY <2>3, <2>6
  <2>8. SumUpTo(f, n) = SumUpTo(f, k) + f[n] /\ SumUpTo(g, n) = SumUpTo(g, k) + g[n]
    BY <2>6, SumStep
  <2>9. f[n] = g[n]
    BY <2>6
  <2> QED BY <2>4, <2>7, <2>8, <2>9
<1> QED BY <1>1

\* One entry changes, and the total by as much.
LEMMA SumChange ==
    ASSUME NEW f, NEW g, NEW N \in Nat, NEW k \in 1 .. N, \A i \in 1 .. N : f[i] \in Nat /\ g[i] \in Nat,
           \A i \in 1 .. N : i # k => f[i] = g[i]
    PROVE  SumUpTo(f, N) \in Nat /\ SumUpTo(g, N) \in Nat /\ SumUpTo(g, N) + f[k] = SumUpTo(f, N) + g[k]
<1> DEFINE Good(n) == SumUpTo(g, n) + f[k] = SumUpTo(f, n) + g[k]
           bad == {n \in k .. N : ~ Good(n)}
<1>1. \A n \in 0 .. N : SumUpTo(f, n) \in Nat /\ SumUpTo(g, n) \in Nat
  <2> TAKE n \in 0 .. N
  <2>1. n \in Nat /\ \A i \in 1 .. n : i \in 1 .. N
    OBVIOUS
  <2> QED BY <2>1, SumNat
<1>2. bad = {}
  <2>1. SUFFICES ASSUME bad # {} PROVE FALSE
    OBVIOUS
  <2>2. bad \in SUBSET Nat
    OBVIOUS
  <2>3. PICK n \in bad : \A m \in bad : n <= m
    BY <2>1, <2>2, LeastNumber
  <2>4. n \in k .. N /\ n \in Nat /\ ~ Good(n)
    BY <2>3
  <2> DEFINE j == n - 1
  <2>5. j \in 0 .. N /\ j \in Nat /\ j + 1 = n /\ ~ (n <= j) /\ n \in 1 .. N
    BY <2>4
  <2>6. SumUpTo(f, n) = SumUpTo(f, j) + f[n] /\ SumUpTo(g, n) = SumUpTo(g, j) + g[n]
    BY <2>5, SumStep
  <2>7. f[n] \in Nat /\ g[n] \in Nat /\ f[k] \in Nat /\ g[k] \in Nat /\ SumUpTo(f, j) \in Nat /\ SumUpTo(g, j) \in Nat
    BY <1>1, <2>5
  <2>8. CASE n = k
    <3>1. \A i \in 1 .. j : f[i] = g[i]
      BY <2>4, <2>5, <2>8
    <3>2. SumUpTo(f, j) = SumUpTo(g, j)
      BY <2>5, <3>1, SumSame
    <3> HIDE DEF j
    <3> QED BY <2>4, <2>6, <2>7, <2>8, <3>2
  <2>9. CASE n # k
    <3>1. j \in k .. N
      BY <2>4, <2>5, <2>9
    <3>2. Good(j) /\ f[n] = g[n]
      BY <2>3, <2>5, <2>9, <3>1
    <3> HIDE DEF j
    <3> QED BY <2>4, <2>6, <2>7, <3>2
  <2> QED BY <2>8, <2>9
<1>3. N \in k .. N /\ N \in 0 .. N
  OBVIOUS
<1> QED BY <1>1, <1>2, <1>3

\* No entry is more than the total.
LEMMA SumPart ==
    ASSUME NEW f, NEW N \in Nat, NEW k \in 1 .. N, \A i \in 1 .. N : f[i] \in Nat
    PROVE  SumUpTo(f, N) \in Nat /\ f[k] <= SumUpTo(f, N)
<1> DEFINE g == [i \in 1 .. N |-> IF i = k THEN 0 ELSE f[i]]
<1>1. \A i \in 1 .. N : f[i] \in Nat /\ g[i] \in Nat /\ (i # k => f[i] = g[i])
  OBVIOUS
<1>2. g[k] = 0
  OBVIOUS
<1> HIDE DEF g
<1>3. SumUpTo(f, N) \in Nat /\ SumUpTo(g, N) \in Nat /\ SumUpTo(g, N) + f[k] = SumUpTo(f, N) + g[k]
  BY <1>1, SumChange
<1> QED BY <1>2, <1>3

\* A total within two others.
LEMMA SumPlus ==
    ASSUME NEW f, NEW g, NEW h, NEW N \in Nat, \A i \in 1 .. N : f[i] \in Nat /\ g[i] \in Nat /\ h[i] \in Nat /\ f[i] <= g[i] + h[i]
    PROVE  SumUpTo(f, N) <= SumUpTo(g, N) + SumUpTo(h, N)
<1> DEFINE Good(n) == SumUpTo(f, n) <= SumUpTo(g, n) + SumUpTo(h, n)
           bad == {n \in 0 .. N : ~ Good(n)}
<1>1. bad = {}
  <2>1. SUFFICES ASSUME bad # {} PROVE FALSE
    OBVIOUS
  <2>2. bad \in SUBSET Nat
    OBVIOUS
  <2>3. PICK n \in bad : \A m \in bad : n <= m
    BY <2>1, <2>2, LeastNumber
  <2>4. n \in 0 .. N /\ n \in Nat /\ ~ Good(n)
    BY <2>3
  <2>5. n # 0
    BY <2>4, SumStep
  <2> DEFINE k == n - 1
  <2>6. k \in 0 .. N /\ k \in Nat /\ ~ (n <= k) /\ n = k + 1 /\ n \in 1 .. N
    BY <2>4, <2>5
  <2> HIDE DEF k
  <2>7. Good(k)
    BY <2>3, <2>6
  <2>8. /\ SumUpTo(f, n) = SumUpTo(f, k) + f[n] /\ SumUpTo(g, n) = SumUpTo(g, k) + g[n]
        /\ SumUpTo(h, n) = SumUpTo(h, k) + h[n]
    BY <2>6, SumStep
  <2>9. SumUpTo(f, k) \in Nat /\ SumUpTo(g, k) \in Nat /\ SumUpTo(h, k) \in Nat
    <3>1. \A i \in 1 .. k : i \in 1 .. N
      BY <2>6
    <3> QED BY <2>6, <3>1, SumNat
  <2>10. f[n] \in Nat /\ g[n] \in Nat /\ h[n] \in Nat /\ f[n] <= g[n] + h[n]
    BY <2>6
  <2> QED BY <2>4, <2>7, <2>8, <2>9, <2>10
<1>2. N \in 0 .. N
  OBVIOUS
<1> QED BY <1>1, <1>2

-----------------------------------------------------------------------------
(* The semantic cache                                                        *)

\* One element more in front.
LEMMA PushFront ==
    ASSUME NEW S, NEW s \in Seq(S), NEW x \in S, NEW t, t = <<x>> \o s
    PROVE  t \in Seq(S) /\ Len(t) = Len(s) + 1 /\ t[1] = x /\ \A i \in 1 .. Len(s) : t[i + 1] = s[i]
<1>1. <<x>> \in Seq(S) /\ Len(<<x>>) = 1 /\ <<x>>[1] = x
  OBVIOUS
<1>2. PICK N \in Nat : N = Len(s)
  BY LenProperties
<1>3. /\ t \in Seq(S) /\ Len(t) = 1 + N
      /\ \A i \in 1 .. (1 + N) : t[i] = IF i <= 1 THEN <<x>>[i] ELSE s[i - 1]
  BY <1>1, <1>2, ConcatProperties
<1>4. \A i \in 1 .. N : i + 1 \in 1 .. (1 + N) /\ ~ (i + 1 <= 1) /\ (i + 1) - 1 = i
  OBVIOUS
<1>5. 1 \in 1 .. (1 + N)
  OBVIOUS
<1> QED BY <1>1, <1>2, <1>3, <1>4, <1>5

\* The first n elements.
LEMMA KeepFirst ==
    ASSUME NEW S, NEW s \in Seq(S), NEW n \in 0 .. Len(s), NEW t, t = SubSeq(s, 1, n)
    PROVE  t \in Seq(S) /\ Len(t) = n /\ \A i \in 1 .. n : t[i] = s[i]
<1>1. PICK N \in Nat : N = Len(s)
  BY LenProperties
<1>2. \A i \in 1 .. n : s[i] \in S
  BY <1>1, LenProperties
<1>3. /\ t \in Seq(S) /\ Len(t) = (IF 1 <= n THEN n - 1 + 1 ELSE 0)
      /\ \A i \in 1 .. (n - 1 + 1) : t[i] = s[1 + i - 1]
  BY <1>1, <1>2, SubSeqProperties
<1>4. n \in Nat /\ n - 1 + 1 = n /\ \A i \in 1 .. n : 1 + i - 1 = i
  BY <1>1
<1> QED BY <1>3, <1>4

SemEntry == [sys : SystemHashes, payload : Payloads, val : Nat, old : BOOLEAN]

SemCall(r) ==
  /\ r = [pc |-> r.pc, sys |-> r.sys, payload |-> r.payload]
  /\ r.pc # "idle" => r.sys \in SystemHashes /\ r.payload \in Payloads

\* The requests, the list and the map of embeddings.
SemType ==
  /\ semEntries \in Seq(SemEntry) /\ semStored \in Nat /\ IsFiniteSet(embeds)
  /\ semCaller = [c \in SemCallers |-> semCaller[c]] /\ \A c \in SemCallers : SemCall(semCaller[c])
  /\ \A i \in 1 .. Len(semEntries) : semEntries[i].val <= semStored

SmInv == SemType /\ SemWithinLimit /\ NewestFirst /\ ExpiredLast

\* A request moves on: the list and the map stay within their order and limits.
LEMMA SemMoves ==
    ASSUME SmInv, NEW c \in SemCallers, NEW x, SemCall(x), semCaller' = [semCaller EXCEPT ![c] = x]
    PROVE  semCaller' = [d \in SemCallers |-> semCaller'[d]] /\ \A d \in SemCallers : SemCall(semCaller[d])'
<1>1. semCaller = [d \in SemCallers |-> semCaller[d]] /\ \A d \in SemCallers : SemCall(semCaller[d])
  BY DEF SmInv, SemType
<1>2. semCaller'[c] = x /\ \A d \in SemCallers : d # c => semCaller'[d] = semCaller[d]
  BY <1>1
<1>3. \A d \in SemCallers : SemCall(semCaller'[d])
  BY <1>1, <1>2
<1> QED BY <1>1, <1>3 DEF SemCall

\* A caller that goes on to its next place, or returns, holds what a caller may.
LEMMA SemGoes ==
    ASSUME SmInv, NEW c \in SemCallers, SemDone(c) \/ \E z \in {"scan", "insert", "storing", "upstream"} : SemGo(c, z), semCaller[c].pc # "idle"
    PROVE  semCaller' = [d \in SemCallers |-> semCaller'[d]] /\ \A d \in SemCallers : SemCall(semCaller[d])'
<1>1. semCaller = [d \in SemCallers |-> semCaller[d]] /\ SemCall(semCaller[c])
  BY DEF SmInv, SemType
<1>2. CASE SemDone(c)
  <2>1. SemCall(AtRest)
    BY DEF SemCall, AtRest
  <2> QED BY <1>2, <2>1, SemMoves DEF SemDone
<1>3. ASSUME NEW z \in {"scan", "insert", "storing", "upstream"}, SemGo(c, z)
      PROVE  semCaller' = [d \in SemCallers |-> semCaller'[d]] /\ \A d \in SemCallers : SemCall(semCaller[d])'
  <2> DEFINE x == [semCaller[c] EXCEPT !.pc = z]
  <2>1. semCaller' = [semCaller EXCEPT ![c] = x]
    BY <1>1, <1>3 DEF SemGo
  <2>2. SemCall(x)
    BY <1>1, <1>3 DEF SemCall
  <2> HIDE DEF x
  <2> QED BY <2>1, <2>2, SemMoves
<1> QED BY <1>2, <1>3

\* What keeps the entries and the number stored.
LEMMA SemQuiet ==
    ASSUME SmInv, UNCHANGED <<semEntries, semStored>>, IsFiniteSet(embeds'), Cardinality(embeds') <= SemMax,
           semCaller' = [d \in SemCallers |-> semCaller'[d]], \A d \in SemCallers : SemCall(semCaller[d])'
    PROVE  SmInv'
<1>1. SemType'
  BY DEF SmInv, SemType
<1>2. SemWithinLimit' /\ NewestFirst' /\ ExpiredLast'
  BY DEF SmInv, SemWithinLimit, NewestFirst, ExpiredLast
<1> QED BY <1>1, <1>2 DEF SmInv

\* An embedding is kept: at the limit something goes first.
LEMMA EmbeddingKept ==
    ASSUME SmInv, NEW p, EmbedInsert(p)
    PROVE  IsFiniteSet(embeds') /\ Cardinality(embeds') <= SemMax
<1>1. IsFiniteSet(embeds) /\ Cardinality(embeds) <= SemMax /\ Cardinality(embeds) \in Nat /\ SemMax \in Nat
  BY SemAssumption, FS_CardinalityType DEF SmInv, SemType, SemWithinLimit
<1>2. ASSUME NEW S, IsFiniteSet(S), embeds' = S \cup {p}, Cardinality(S) + 1 <= SemMax
      PROVE  IsFiniteSet(embeds') /\ Cardinality(embeds') <= SemMax
  <2>1. Cardinality(S) \in Nat
    BY <1>2, FS_CardinalityType
  <2>2. IsFiniteSet(S \cup {p}) /\ (Cardinality(S \cup {p}) = Cardinality(S) \/ Cardinality(S \cup {p}) = Cardinality(S) + 1)
    BY <1>2, FS_AddElement
  <2> QED BY <1>1, <1>2, <2>1, <2>2
<1>3. CASE Cardinality(embeds) >= SemMax
  <2>1. PICK out \in SUBSET embeds : Cardinality(out) = DropCount /\ embeds' = (embeds \ out) \cup {p}
    BY <1>3 DEF EmbedInsert
  <2>2. DropCount >= 1 /\ DropCount \in Nat
    BY <1>1 DEF DropCount
  <2>3. IsFiniteSet(out) /\ IsFiniteSet(embeds \ out) /\ embeds \cap out = out
    BY <1>1, <2>1, FS_Subset
  <2>4. Cardinality(embeds \ out) = Cardinality(embeds) - Cardinality(embeds \cap out)
    BY <1>1, FS_Difference
  <2>5. Cardinality(embeds \ out) + 1 <= SemMax
    <3>1. Cardinality(embeds \ out) = Cardinality(embeds) - DropCount
      BY <2>1, <2>3, <2>4
    <3> HIDE DEF DropCount
    <3> QED BY <1>1, <2>2, <3>1
  <2> QED BY <1>2, <2>1, <2>3, <2>5
<1>4. CASE ~ (Cardinality(embeds) >= SemMax)
  BY <1>1, <1>2, <1>4 DEF EmbedInsert
<1> QED BY <1>3, <1>4

\* A response is stored in front, after the last is dropped at the limit.
LEMMA StoreStep == ASSUME SmInv, NEW c \in SemCallers, Store(c) PROVE SmInv'
<1> DEFINE N == Len(semEntries)
           n == IF N >= SemMax THEN SemMax - 1 ELSE N
           x == [sys |-> semCaller[c].sys, payload |-> semCaller[c].payload, val |-> semStored + 1, old |-> FALSE]
<1>1. SemType /\ SemWithinLimit /\ NewestFirst /\ ExpiredLast /\ semCaller[c].pc = "insert" /\ UNCHANGED embeds
      /\ semEntries \in Seq(SemEntry) /\ semStored \in Nat /\ semStored' = semStored + 1
  BY DEF SmInv, SemType, Store
<1>2. N \in Nat /\ N <= SemMax /\ SemMax \in Nat \ {0}
  BY <1>1, SemAssumption, LenProperties DEF SemWithinLimit
<1>3. n \in 0 .. N /\ n + 1 <= SemMax /\ n \in Nat
  BY <1>2
<1>4. x \in SemEntry /\ x.val = semStored + 1 /\ x.old = FALSE
  BY <1>1 DEF SemEntry, SemType, SemCall
<1>5. Room = SubSeq(semEntries, 1, n) /\ semEntries' = <<x>> \o Room
  BY DEF Room, Store
<1>6. semCaller' = [d \in SemCallers |-> semCaller'[d]] /\ \A d \in SemCallers : SemCall(semCaller[d])'
  BY <1>1, SemGoes DEF Store
<1> HIDE DEF n, x, N
<1>7. N = Len(semEntries)
  BY DEF N
<1>8. Room \in Seq(SemEntry) /\ Len(Room) = n /\ \A i \in 1 .. n : Room[i] = semEntries[i]
  BY <1>1, <1>3, <1>5, <1>7, KeepFirst
<1> DEFINE t == semEntries'
<1>9. t \in Seq(SemEntry) /\ Len(t) = n + 1 /\ t[1] = x /\ \A i \in 1 .. n : t[i + 1] = Room[i]
  BY <1>4, <1>5, <1>8, PushFront
<1>10. \A i \in 1 .. (n + 1) : i = 1 \/ (i - 1 \in 1 .. n /\ i - 1 \in 1 .. N /\ t[i] = semEntries[i - 1])
  <2> TAKE i \in 1 .. (n + 1)
  <2>1. i = 1 \/ (i - 1 \in 1 .. n /\ i - 1 \in 1 .. N /\ (i - 1) + 1 = i)
    BY <1>2, <1>3
  <2> QED BY <1>8, <1>9, <2>1
<1>11. \A i \in 1 .. N : semEntries[i].val \in Nat /\ semEntries[i].val <= semStored
  <2>1. \A i \in 1 .. N : semEntries[i] \in SemEntry
    BY <1>1, <1>7, LenProperties
  <2> QED BY <1>1, <1>7, <2>1 DEF SemType, SemEntry
<1> HIDE DEF t
<1>12. \A i \in 1 .. (n + 1) : t[i].val <= semStored + 1
  <2> TAKE i \in 1 .. (n + 1)
  <2> QED BY <1>1, <1>4, <1>9, <1>10, <1>11
<1>13. \A i, j \in 1 .. (n + 1) : i < j => t[i].val > t[j].val
  <2> SUFFICES ASSUME NEW i \in 1 .. (n + 1), NEW j \in 1 .. (n + 1), i < j PROVE t[i].val > t[j].val
    OBVIOUS
  <2>1. j # 1 /\ i - 1 < j - 1
    BY <1>3
  <2>2. j - 1 \in 1 .. N /\ t[j] = semEntries[j - 1]
    BY <1>10, <2>1
  <2>3. CASE i = 1
    BY <1>1, <1>4, <1>9, <1>11, <2>2, <2>3
  <2>4. CASE i # 1
    <3>1. i - 1 \in 1 .. N /\ t[i] = semEntries[i - 1]
      BY <1>10, <2>4
    <3> QED BY <1>1, <1>7, <2>1, <2>2, <3>1 DEF NewestFirst
  <2> QED BY <2>3, <2>4
<1>14. \A i, j \in 1 .. (n + 1) : i < j /\ t[i].old => t[j].old
  <2> SUFFICES ASSUME NEW i \in 1 .. (n + 1), NEW j \in 1 .. (n + 1), i < j, t[i].old PROVE t[j].old
    OBVIOUS
  <2>1. i # 1 /\ j # 1 /\ i - 1 < j - 1
    BY <1>3, <1>4, <1>9
  <2>2. j - 1 \in 1 .. N /\ t[j] = semEntries[j - 1] /\ i - 1 \in 1 .. N /\ t[i] = semEntries[i - 1]
    BY <1>10, <2>1
  <2> QED BY <1>1, <1>7, <2>1, <2>2 DEF ExpiredLast
<1>15. Cardinality(embeds') <= SemMax /\ IsFiniteSet(embeds')
  BY <1>1 DEF SemType, SemWithinLimit
<1>16. Len(t) = n + 1 /\ t \in Seq(SemEntry)
  BY <1>9
<1>17. SemType'
  BY <1>1, <1>6, <1>12, <1>15, <1>16 DEF SemType, t
<1> QED BY <1>3, <1>13, <1>14, <1>15, <1>16, <1>17 DEF SmInv, SemWithinLimit, NewestFirst, ExpiredLast, t

\* The oldest entry that is not expired expires.
LEMMA TtlStep == ASSUME SmInv, NEW k \in 1 .. SemMax, SemTtlPasses(k) PROVE SmInv'
<1>1. /\ SemType /\ SemWithinLimit /\ NewestFirst /\ ExpiredLast /\ UNCHANGED <<embeds, semCaller, semStored>>
      /\ k \in 1 .. Len(semEntries) /\ (\A j \in k + 1 .. Len(semEntries) : semEntries[j].old)
      /\ semEntries' = [semEntries EXCEPT ![k].old = TRUE] /\ semEntries \in Seq(SemEntry)
  BY DEF SmInv, SemType, SemTtlPasses
<1>2. PICK N \in Nat : N = Len(semEntries)
  BY <1>1, LenProperties
<1> DEFINE x == [semEntries[k] EXCEPT !.old = TRUE]
<1>3. semEntries = [i \in 1 .. N |-> semEntries[i]] /\ \A i \in 1 .. N : semEntries[i] \in SemEntry
  BY <1>1, <1>2, LenProperties
<1>4. semEntries' = [i \in 1 .. N |-> IF i = k THEN x ELSE semEntries[i]]
  BY <1>1, <1>2, <1>3
<1>5. x \in SemEntry /\ x.old = TRUE /\ x.val = semEntries[k].val
  BY <1>1, <1>2, <1>3 DEF SemEntry
<1> HIDE DEF x
<1> DEFINE t == semEntries'
<1>6. t \in Seq(SemEntry) /\ Len(t) = N
  <2>1. \A i \in 1 .. N : (IF i = k THEN x ELSE semEntries[i]) \in SemEntry
    BY <1>3, <1>5
  <2>2. t \in [1 .. N -> SemEntry]
    BY <1>4, <2>1
  <2>3. t \in Seq(SemEntry)
    BY <2>2, IsASeq
  <2> QED BY <2>2, <2>3, LenProperties
<1>7. \A i \in 1 .. N : t[i].val = semEntries[i].val /\ (t[i].old <=> (i = k \/ semEntries[i].old))
  <2> TAKE i \in 1 .. N
  <2>1. CASE i = k
    BY <1>4, <1>5, <2>1
  <2>2. CASE i # k
    BY <1>4, <2>2
  <2> QED BY <2>1, <2>2
<1> HIDE DEF t
<1>8. \A i, j \in 1 .. N : i < j => t[i].val > t[j].val
  BY <1>1, <1>2, <1>7 DEF NewestFirst
<1>9. \A i, j \in 1 .. N : i < j /\ t[i].old => t[j].old
  BY <1>1, <1>2, <1>7 DEF ExpiredLast
<1>10. \A i \in 1 .. N : t[i].val <= semStored
  BY <1>1, <1>2, <1>7 DEF SemType
<1>11. SemType'
  <2>1. \A d \in SemCallers : SemCall(semCaller[d])'
    BY <1>1 DEF SemType
  <2> QED BY <1>1, <1>2, <1>6, <1>10, <2>1 DEF SemType, t
<1> QED BY <1>1, <1>2, <1>6, <1>8, <1>9, <1>11 DEF SmInv, SemWithinLimit, NewestFirst, ExpiredLast, t

\* The sweep takes the expired ones at the end.
LEMMA SemSweepStep == ASSUME SmInv, SemEvictExpired PROVE SmInv'
<1>1. /\ SemType /\ SemWithinLimit /\ NewestFirst /\ ExpiredLast /\ UNCHANGED <<embeds, semCaller, semStored>>
      /\ semEntries \in Seq(SemEntry) /\ SemMax \in Nat
  BY SemAssumption DEF SmInv, SemType, SemEvictExpired
<1>2. PICK N \in Nat : N = Len(semEntries)
  BY <1>1, LenProperties
<1>3. PICK n \in 0 .. N - 1 : semEntries' = SubSeq(semEntries, 1, n)
  BY <1>2 DEF SemEvictExpired
<1>4. n \in 0 .. N /\ n \in Nat /\ n <= N /\ \A i \in 1 .. n : i \in 1 .. N
  BY <1>3
<1> DEFINE t == semEntries'
<1>5. t \in Seq(SemEntry) /\ Len(t) = n /\ \A i \in 1 .. n : t[i] = semEntries[i]
  BY <1>1, <1>2, <1>3, <1>4, KeepFirst
<1> HIDE DEF t
<1>6. \A i \in 1 .. n : t[i].val <= semStored
  BY <1>1, <1>2, <1>4, <1>5 DEF SemType
<1>7. SemType'
  <2>1. \A d \in SemCallers : SemCall(semCaller[d])'
    BY <1>1 DEF SemType
  <2> QED BY <1>1, <1>5, <1>6, <2>1 DEF SemType, t
<1>8. NewestFirst' /\ ExpiredLast'
  BY <1>1, <1>2, <1>4, <1>5 DEF NewestFirst, ExpiredLast, t
<1>9. SemWithinLimit'
  BY <1>1, <1>2, <1>4, <1>5 DEF SemWithinLimit, t
<1> QED BY <1>7, <1>8, <1>9 DEF SmInv

\* Every step keeps it.
LEMMA SmInvStep == ASSUME SmInv, [SemNext]_semVars PROVE SmInv'
<1>1. IsFiniteSet(embeds) /\ Cardinality(embeds) <= SemMax /\ SemType
  BY DEF SmInv, SemType, SemWithinLimit
<1>2. CASE UNCHANGED semVars
  <2>1. UNCHANGED <<semEntries, semStored, embeds, semCaller>>
    BY <1>2 DEF semVars
  <2>2. semCaller' = [d \in SemCallers |-> semCaller'[d]] /\ \A d \in SemCallers : SemCall(semCaller[d])'
    BY <1>1, <2>1 DEF SemType
  <2> QED BY <1>1, <2>1, <2>2, SemQuiet
<1>3. ASSUME NEW c \in SemCallers, NEW h \in SystemHashes, NEW p \in Payloads, SemanticCachePrompt(c, h, p) PROVE SmInv'
  <2> DEFINE x == [pc |-> IF p \in embeds THEN "scan" ELSE "embedding", sys |-> h, payload |-> p]
  <2>1. semCaller' = [semCaller EXCEPT ![c] = x] /\ UNCHANGED <<semEntries, embeds, semStored>>
    BY <1>3 DEF SemanticCachePrompt
  <2>2. SemCall(x)
    BY <1>3 DEF SemCall
  <2> HIDE DEF x
  <2>3. semCaller' = [d \in SemCallers |-> semCaller'[d]] /\ \A d \in SemCallers : SemCall(semCaller[d])'
    BY <2>1, <2>2, SemMoves
  <2> QED BY <1>1, <2>1, <2>3, SemQuiet
<1>4. ASSUME NEW c \in SemCallers, EmbedOK(c) PROVE SmInv'
  <2>1. UNCHANGED <<semEntries, semStored>> /\ EmbedInsert(semCaller[c].payload) /\ semCaller[c].pc # "idle"
    BY <1>4 DEF EmbedOK
  <2>2. \E z \in {"scan", "insert", "storing", "upstream"} : SemGo(c, z)
    BY <1>4 DEF EmbedOK
  <2> QED BY <2>1, <2>2, SemGoes, EmbeddingKept, SemQuiet
<1>5. ASSUME NEW c \in SemCallers, EmbedFails(c) \/ Search(c) \/ UpstreamAnswers(c) PROVE SmInv'
  <2>1. UNCHANGED <<semEntries, semStored, embeds>> /\ semCaller[c].pc # "idle"
    BY <1>5 DEF EmbedFails, Search, UpstreamAnswers
  <2>2. SemDone(c) \/ \E z \in {"scan", "insert", "storing", "upstream"} : SemGo(c, z)
    BY <1>5 DEF EmbedFails, Search, UpstreamAnswers
  <2> QED BY <1>1, <2>1, <2>2, SemGoes, SemQuiet
<1> QED BY <1>2, <1>3, <1>4, <1>5, StoreStep, TtlStep, SemSweepStep DEF SemNext

\* Nothing is stored at the start.
LEMMA SmInvInit == ASSUME SemInit PROVE SmInv
<1>1. semEntries = <<>> /\ embeds = {} /\ semStored = 0 /\ semCaller = [c \in SemCallers |-> AtRest]
  BY DEF SemInit
<1>2. semEntries \in Seq(SemEntry) /\ Len(semEntries) = 0
  BY <1>1, EmptySequence
<1>3. 1 .. Len(semEntries) = {}
  BY <1>2
<1>4. SemCall(AtRest)
  BY DEF SemCall, AtRest
<1>5. SemType
  <2> HIDE DEF AtRest
  <2> QED BY <1>1, <1>2, <1>3, <1>4, FS_EmptySet DEF SemType
<1>6. SemWithinLimit
  BY <1>1, <1>2, FS_EmptySet, SemAssumption DEF SemWithinLimit
<1>7. NewestFirst /\ ExpiredLast
  BY <1>3 DEF NewestFirst, ExpiredLast
<1> QED BY <1>5, <1>6, <1>7 DEF SmInv

-----------------------------------------------------------------------------
(* The response cache                                                        *)

CacheElem == [key : Keys, size : Sizes, expired : BOOLEAN, val : Elems]
CacheOps == {"idle", "hit", "drop", "l2", "fill", "set2", "del1", "del2"}

\* A list and a map that belong together: every entry of the map is in the
\* list under its own key, and no more bytes are accounted for than listed.
LruGood(elems, s) ==
  /\ s.items \in [Keys -> 0 .. Len(elems)] /\ s.order \in Seq(1 .. Len(elems)) /\ Distinct(s.order) /\ s.used \in Int
  /\ \A k \in Keys : s.items[k] # 0 => s.items[k] \in ToSet(s.order) /\ elems[s.items[k]].key = k
  /\ s.used <= SizeOf(elems, ToSet(s.order))

\* The values: each of the key it was stored under, and none of a revoked one
\* in either tier.
ValuesGood ==
  /\ celem \in Seq(CacheElem) /\ Stored <= MaxElems
  /\ \A n \in 1 .. Stored : celem[n].val \in 1 .. Stored /\ celem[celem[n].val].key = celem[n].key
  /\ revoked \subseteq 1 .. Stored /\ NoStaleRevival
  /\ l2 \in [Keys -> 0 .. Stored] /\ \A k \in Keys : l2[k] # 0 => celem[l2[k]].key = k /\ l2[k] \notin revoked

\* What a call in progress relies on.
CacheCall(g, r) ==
  /\ r \in [op : CacheOps, elem : 0 .. MaxElems, key : Keys]
  /\ r.op \in {"hit", "drop"} => r.elem \in 1 .. Stored
  /\ r.op \in {"fill", "set2"} => r.elem \in 1 .. Stored /\ celem[r.elem].key = r.key /\ r.elem \notin revoked
  /\ r.op \in {"del1", "del2"} => r.elem \in 0 .. Stored /\ (r.elem # 0 => celem[r.elem].key = r.key)
  /\ r.op \in {"fill", "del1", "del2"} => tierMu = {g}
  /\ r.op = "set2" => \A k \in Keys : l2[k] # r.elem
  /\ r.op = "del2" => \A k \in Keys : items[k] # 0 => celem[items[k]].val # r.elem

\* A value on its way to the second tier is not the one a Delete removes.
SetsApart ==
  \A g, h \in Callers : caller[g].op = "set2" /\ caller[h].op \in {"set2", "del1", "del2"} /\ caller[g].elem = caller[h].elem => g = h

CcInv ==
  /\ ValuesGood /\ LruGood(celem, Lru) /\ EntriesWithinLimit
  /\ limits \in [entries : EntryLimits, bytes : ByteLimits] /\ sweep \subseteq Keys
  /\ tierMu \in {{}} \cup {{g} : g \in Callers}
  /\ caller = [g \in Callers |-> caller[g]] /\ \A g \in Callers : CacheCall(g, caller[g])
  /\ SetsApart

\* The prefixes of a list without some elements.
KeptIn(f, s, gone, n) ==
  f = [i \in 0 .. n |-> IF i = 0 THEN <<>> ELSE IF s[i] \in gone THEN f[i - 1] ELSE Append(f[i - 1], s[i])]

\* There are such.
LEMMA KeptExists == ASSUME NEW s, NEW gone, NEW N \in Nat PROVE \E f : KeptIn(f, s, gone, N)
<1> DEFINE bad == {n \in Nat : ~ \E f : KeptIn(f, s, gone, n)}
<1>1. SUFFICES ASSUME bad # {} PROVE FALSE
  OBVIOUS
<1>2. PICK n \in bad : \A m \in bad : n <= m
  BY <1>1, LeastNumber
<1>3. n \in Nat /\ ~ \E f : KeptIn(f, s, gone, n)
  BY <1>2
<1>4. CASE n = 0
  <2> DEFINE f == [i \in 0 .. 0 |-> <<>>]
  <2>1. \A i \in 0 .. 0 : i = 0
    OBVIOUS
  <2>2. KeptIn(f, s, gone, 0)
    BY <2>1 DEF KeptIn
  <2> QED BY <1>3, <1>4, <2>2
<1>5. CASE n # 0
  <2>1. n - 1 \in Nat /\ n - 1 \notin bad
    BY <1>2, <1>5
  <2>2. PICK f : KeptIn(f, s, gone, n - 1)
    BY <2>1
  <2> DEFINE z == IF s[n] \in gone THEN f[n - 1] ELSE Append(f[n - 1], s[n])
             h == [i \in 0 .. n |-> IF i = n THEN z ELSE f[i]]
  <2>3. \A i \in 0 .. n : i # n => i \in 0 .. (n - 1)
    BY <1>3
  <2>4. \A i \in 0 .. (n - 1) : i \in 0 .. n /\ i # n /\ h[i] = f[i]
    BY <1>3
  <2>5. n \in 0 .. n /\ h[n] = z /\ n - 1 \in 0 .. (n - 1)
    BY <1>3, <2>1
  <2> HIDE DEF h, z
  <2>6. \A i \in 0 .. (n - 1) : f[i] = IF i = 0 THEN <<>> ELSE IF s[i] \in gone THEN f[i - 1] ELSE Append(f[i - 1], s[i])
    BY <2>2 DEF KeptIn
  <2>7. ASSUME NEW i \in 0 .. n
        PROVE  h[i] = IF i = 0 THEN <<>> ELSE IF s[i] \in gone THEN h[i - 1] ELSE Append(h[i - 1], s[i])
    <3>1. CASE i = n
      <4>1. h[i - 1] = f[n - 1]
        BY <2>4, <2>5, <3>1
      <4> QED BY <1>5, <2>5, <3>1, <4>1 DEF z
    <3>2. CASE i # n /\ i # 0
      <4>1. i \in 0 .. (n - 1) /\ i - 1 \in 0 .. (n - 1)
        BY <1>3, <3>2
      <4>2. h[i] = f[i] /\ h[i - 1] = f[i - 1]
        BY <2>4, <4>1
      <4> QED BY <2>6, <3>2, <4>1, <4>2
    <3>3. CASE i = 0
      <4>1. i \in 0 .. (n - 1)
        BY <2>1, <3>3
      <4> QED BY <2>4, <2>6, <3>3, <4>1
    <3> QED BY <3>1, <3>2, <3>3
  <2>8. KeptIn(h, s, gone, n)
    <3>1. h = [i \in 0 .. n |-> h[i]]
      BY DEF h
    <3> QED BY <2>7, <3>1 DEF KeptIn
  <2> QED BY <1>3, <2>8
<1> QED BY <1>4, <1>5

\* What is left of a list.
LEMMA WithoutIs ==
    ASSUME NEW S, NEW s \in Seq(S), Distinct(s), NEW gone
    PROVE  LET t == Without(s, gone) IN t \in Seq(S) /\ Distinct(t) /\ ToSet(t) = ToSet(s) \ gone
<1>1. PICK N \in Nat : N = Len(s)
  BY LenProperties
<1>2. \A i \in 1 .. N : s[i] \in S
  BY <1>1, LenProperties
<1>3. \E f : KeptIn(f, s, gone, N)
  BY KeptExists
<1> DEFINE f == CHOOSE u : KeptIn(u, s, gone, N)
<1>4. KeptIn(f, s, gone, N)
  BY <1>3
<1>5. Without(s, gone) = f[N]
  BY <1>1 DEF Without, KeptIn
<1> HIDE DEF f
<1>6. f[0] = <<>> /\ \A i \in 0 .. N : i # 0 => f[i] = IF s[i] \in gone THEN f[i - 1] ELSE Append(f[i - 1], s[i])
  <2>1. \A i \in 0 .. N : f[i] = IF i = 0 THEN <<>> ELSE IF s[i] \in gone THEN f[i - 1] ELSE Append(f[i - 1], s[i])
    BY <1>4 DEF KeptIn
  <2>2. 0 \in 0 .. N
    OBVIOUS
  <2> QED BY <2>1, <2>2
<1> DEFINE first(i) == {s[j] : j \in 1 .. i} \ gone
           Good(i) == f[i] \in Seq(S) /\ Distinct(f[i]) /\ ToSet(f[i]) = first(i)
           bad == {i \in 0 .. N : ~ Good(i)}
<1>7. Good(0)
  <2>1. first(0) = {}
    OBVIOUS
  <2> QED BY <1>6, <2>1, EmptySequence
<1>8. ASSUME NEW i \in 0 .. N, i # 0, Good(i - 1) PROVE Good(i)
  <2>1. i \in 1 .. N /\ i - 1 \in 0 .. N /\ \A j \in 1 .. i : j \in 1 .. N /\ (j = i \/ j \in 1 .. (i - 1))
    BY <1>8
  <2>2. s[i] \in S /\ s[i] \notin first(i - 1)
    <3>1. \A j \in 1 .. (i - 1) : j \in 1 .. N /\ j # i
      BY <2>1
    <3> QED BY <1>1, <1>2, <2>1, <3>1 DEF Distinct
  <2>3. first(i) = first(i - 1) \cup ({s[i]} \ gone)
    <3>1. 1 .. i = 1 .. (i - 1) \cup {i}
      BY <2>1
    <3> QED BY <3>1
  <2>4. CASE s[i] \in gone
    BY <1>6, <1>8, <2>1, <2>3, <2>4
  <2>5. CASE s[i] \notin gone
    <3>1. f[i] = Append(f[i - 1], s[i])
      BY <1>6, <1>8, <2>5
    <3> HIDE DEF first
    <3>2. f[i] \in Seq(S) /\ Distinct(f[i]) /\ ToSet(f[i]) = ToSet(f[i - 1]) \cup {s[i]}
      BY <1>8, <2>2, <3>1, AppendElement
    <3> QED BY <1>8, <2>3, <2>5, <3>2
  <2> QED BY <2>4, <2>5
<1>9. bad = {}
  <2>1. SUFFICES ASSUME bad # {} PROVE FALSE
    OBVIOUS
  <2>2. bad \in SUBSET Nat
    OBVIOUS
  <2>3. PICK i \in bad : \A j \in bad : i <= j
    BY <2>1, <2>2, LeastNumber
  <2>4. i \in 0 .. N /\ ~ Good(i)
    BY <2>3
  <2>5. i # 0
    BY <1>7, <2>4
  <2>6. i - 1 \in 0 .. N /\ ~ (i <= i - 1)
    BY <2>4, <2>5
  <2>7. Good(i - 1)
    BY <2>3, <2>6
  <2> HIDE DEF Good
  <2> QED BY <1>8, <2>4, <2>5, <2>7
<1>10. Good(N)
  <2>1. N \in 0 .. N
    OBVIOUS
  <2> HIDE DEF Good
  <2> QED BY <1>9, <2>1
<1>11. ToSet(s) = {s[j] : j \in 1 .. N}
  BY <1>1, ElementsOf
<1> QED BY <1>5, <1>10, <1>11

\* The bytes of sets of entries.
LEMMA SizesAdd ==
    ASSUME NEW elems \in Seq(CacheElem), NEW A, NEW B
    PROVE  /\ SizeOf(elems, A) \in Nat /\ SizeOf(elems, B) \in Nat /\ SizeOf(elems, A \ B) \in Nat
           /\ SizeOf(elems, A) <= SizeOf(elems, A \ B) + SizeOf(elems, B)
<1>1. PICK N \in Nat : N = Len(elems)
  BY LenProperties
<1>2. \A n \in 1 .. N : elems[n].size \in Nat
  <2>1. \A n \in 1 .. N : elems[n] \in CacheElem
    BY <1>1, LenProperties
  <2> QED BY <2>1, CacheAssumption DEF CacheElem
<1> DEFINE f == [n \in 1 .. N |-> IF n \in A THEN elems[n].size ELSE 0]
           g == [n \in 1 .. N |-> IF n \in A \ B THEN elems[n].size ELSE 0]
           h == [n \in 1 .. N |-> IF n \in B THEN elems[n].size ELSE 0]
<1>3. \A i \in 1 .. N : f[i] \in Nat /\ g[i] \in Nat /\ h[i] \in Nat /\ f[i] <= g[i] + h[i]
  BY <1>2
<1>4. SizeOf(elems, A) = SumUpTo(f, N) /\ SizeOf(elems, A \ B) = SumUpTo(g, N) /\ SizeOf(elems, B) = SumUpTo(h, N)
  BY <1>1 DEF SizeOf
<1> HIDE DEF f, g, h
<1>5. SumUpTo(f, N) \in Nat /\ SumUpTo(g, N) \in Nat /\ SumUpTo(h, N) \in Nat
  BY <1>3, SumNat
<1>6. SumUpTo(f, N) <= SumUpTo(g, N) + SumUpTo(h, N)
  BY <1>3, SumPlus
<1> QED BY <1>4, <1>5, <1>6

EntriesOf(elems, A) == A \subseteq 1 .. Len(elems)
GrownBy(elems, x, more) == elems \in Seq(CacheElem) /\ x \in CacheElem /\ more = Append(elems, x)
Grew(elems, x, more, A) ==
  /\ SizeOf(more, A) = SizeOf(elems, A) /\ SizeOf(more, A \cup {Len(elems) + 1}) = SizeOf(elems, A) + x.size
  /\ more \in Seq(CacheElem) /\ Len(more) = Len(elems) + 1 /\ more[Len(elems) + 1] = x
  /\ \A n \in 1 .. Len(elems) : more[n] = elems[n]

\* One entry more, of a list that has it or has not.
LEMMA SizeGrows ==
    ASSUME NEW elems, NEW x, NEW more, GrownBy(elems, x, more), NEW A, EntriesOf(elems, A)
    PROVE  Grew(elems, x, more, A)
<1>0. elems \in Seq(CacheElem) /\ x \in CacheElem /\ more = Append(elems, x)
  BY DEF GrownBy
<1>1. PICK N \in Nat : N = Len(elems)
  BY <1>0, LenProperties
<1>2. /\ more \in Seq(CacheElem) /\ Len(more) = N + 1 /\ more[N + 1] = x /\ \A n \in 1 .. N : more[n] = elems[n]
  BY <1>0, <1>1, AppendProperties
<1>3. x.size \in Nat /\ \A n \in 1 .. N : elems[n].size \in Nat
  <2>1. \A n \in 1 .. N : elems[n] \in CacheElem
    BY <1>0, <1>1, LenProperties
  <2> QED BY <1>0, <2>1, CacheAssumption DEF CacheElem
<1> DEFINE f == [n \in 1 .. N |-> IF n \in A THEN elems[n].size ELSE 0]
           g == [n \in 1 .. (N + 1) |-> IF n \in A THEN more[n].size ELSE 0]
           h == [n \in 1 .. (N + 1) |-> IF n \in A \cup {N + 1} THEN more[n].size ELSE 0]
<1>4. N + 1 \in 1 .. (N + 1) /\ N + 1 \notin A /\ \A i \in 1 .. N : i \in 1 .. (N + 1) /\ i # N + 1
  BY <1>1 DEF EntriesOf
<1>5. g[N + 1] = 0 /\ h[N + 1] = x.size /\ \A i \in 1 .. N : f[i] = g[i] /\ f[i] = h[i] /\ f[i] \in Nat
  BY <1>2, <1>3, <1>4
<1>6. SizeOf(elems, A) = SumUpTo(f, N) /\ SizeOf(more, A) = SumUpTo(g, N + 1) /\ SizeOf(more, A \cup {N + 1}) = SumUpTo(h, N + 1)
  BY <1>1, <1>2 DEF SizeOf
<1> HIDE DEF f, g, h
<1>7. SumUpTo(f, N) \in Nat /\ SumUpTo(f, N) = SumUpTo(g, N) /\ SumUpTo(f, N) = SumUpTo(h, N)
  BY <1>5, SumNat, SumSame
<1>8. SumUpTo(g, N + 1) = SumUpTo(g, N) + g[N + 1] /\ SumUpTo(h, N + 1) = SumUpTo(h, N) + h[N + 1]
  BY SumStep
<1> QED BY <1>1, <1>2, <1>3, <1>5, <1>6, <1>7, <1>8 DEF Grew

\* Entries only leave the map.
Shrunk(s, t) == \A k \in Keys : t.items[k] = 0 \/ t.items[k] = s.items[k]

\* Fewer entries are fewer.
LEMMA ShrunkSize ==
    ASSUME NEW s, NEW t, Shrunk(s, t)
    PROVE  /\ Size(t) <= Size(s) /\ Size(t) \in Nat /\ Size(s) \in Nat
           /\ (\A k \in Keys : t.items[k] = 0) => Size(t) = 0
<1> DEFINE A == {k \in Keys : t.items[k] # 0}
           B == {k \in Keys : s.items[k] # 0}
<1>1. A \subseteq B /\ B \subseteq Keys
  BY DEF Shrunk
<1>2. IsFiniteSet(A) /\ IsFiniteSet(B) /\ Cardinality(A) <= Cardinality(B)
  BY <1>1, CacheAssumption, FS_Subset
<1>3. Cardinality(A) \in Nat /\ Cardinality(B) \in Nat
  BY <1>2, FS_CardinalityType
<1>4. (\A k \in Keys : t.items[k] = 0) => Cardinality(A) = 0
  BY FS_EmptySet
<1> QED BY <1>2, <1>3, <1>4 DEF Size

\* Removing entries keeps the list and the map together.
LEMMA RemoveKeeps ==
    ASSUME NEW elems \in Seq(CacheElem), NEW s, LruGood(elems, s), NEW gone, gone \subseteq 1 .. Len(elems),
           NEW t, t = RemoveElements(elems, s, gone)
    PROVE  /\ LruGood(elems, t) /\ Shrunk(s, t) /\ t = [items |-> t.items, order |-> t.order, used |-> t.used]
           /\ \A n \in gone : t.items[elems[n].key] = 0
           /\ ToSet(t.order) = ToSet(s.order) \ gone
<1>1. /\ t.items = [k \in Keys |-> IF \E n \in gone : elems[n].key = k THEN 0 ELSE s.items[k]]
      /\ t.order = Without(s.order, gone) /\ t.used = s.used - SizeOf(elems, gone)
      /\ t = [items |-> t.items, order |-> t.order, used |-> t.used]
  BY DEF RemoveElements
<1>2. /\ s.items \in [Keys -> 0 .. Len(elems)] /\ s.order \in Seq(1 .. Len(elems)) /\ Distinct(s.order) /\ s.used \in Int
      /\ \A k \in Keys : s.items[k] # 0 => s.items[k] \in ToSet(s.order) /\ elems[s.items[k]].key = k
      /\ s.used <= SizeOf(elems, ToSet(s.order))
  BY DEF LruGood
<1>3. t.order \in Seq(1 .. Len(elems)) /\ Distinct(t.order) /\ ToSet(t.order) = ToSet(s.order) \ gone
  BY <1>1, <1>2, WithoutIs
<1>4. \A k \in Keys : t.items[k] = IF \E n \in gone : elems[n].key = k THEN 0 ELSE s.items[k]
  BY <1>1
<1>5. t.items \in [Keys -> 0 .. Len(elems)]
  <2>1. Len(elems) \in Nat
    BY LenProperties
  <2>2. \A k \in Keys : t.items[k] \in 0 .. Len(elems)
    BY <1>2, <1>4, <2>1
  <2>3. t.items = [k \in Keys |-> t.items[k]]
    BY <1>1
  <2> QED BY <2>2, <2>3
<1>6. \A k \in Keys : t.items[k] # 0 => t.items[k] \in ToSet(t.order) /\ elems[t.items[k]].key = k
  <2> SUFFICES ASSUME NEW k \in Keys, t.items[k] # 0 PROVE t.items[k] \in ToSet(t.order) /\ elems[t.items[k]].key = k
    OBVIOUS
  <2>1. t.items[k] = s.items[k] /\ ~ \E n \in gone : elems[n].key = k
    BY <1>4
  <2>2. s.items[k] \in ToSet(s.order) /\ elems[s.items[k]].key = k /\ s.items[k] \notin gone
    BY <1>2, <2>1
  <2> QED BY <1>3, <2>1, <2>2
<1>7. t.used \in Int /\ t.used <= SizeOf(elems, ToSet(t.order))
  <2> DEFINE A == ToSet(s.order)
  <2>1. /\ SizeOf(elems, A) \in Nat /\ SizeOf(elems, gone) \in Nat /\ SizeOf(elems, A \ gone) \in Nat
        /\ SizeOf(elems, A) <= SizeOf(elems, A \ gone) + SizeOf(elems, gone)
    BY SizesAdd
  <2> HIDE DEF A
  <2>2. s.used <= SizeOf(elems, A)
    BY <1>2 DEF A
  <2>3. SizeOf(elems, ToSet(t.order)) = SizeOf(elems, A \ gone)
    BY <1>3 DEF A
  <2> QED BY <1>1, <1>2, <2>1, <2>2, <2>3
<1>8. \A n \in gone : t.items[elems[n].key] = 0
  <2>1. \A n \in 1 .. Len(elems) : elems[n].key \in Keys
    <3>1. \A n \in 1 .. Len(elems) : elems[n] \in CacheElem
      BY LenProperties
    <3> QED BY <3>1 DEF CacheElem
  <2> QED BY <1>4, <2>1
<1>9. Shrunk(s, t)
  BY <1>4 DEF Shrunk
<1> QED BY <1>1, <1>3, <1>5, <1>6, <1>7, <1>8, <1>9 DEF LruGood

\* An eviction loop ends where its test fails, or with nothing left.
LEMMA EvictEnds ==
    ASSUME NEW elems \in Seq(CacheElem), NEW s, LruGood(elems, s), NEW fits, fits \subseteq 0 .. Len(s.order),
           NEW t, t = EvictUntil(elems, s, fits)
    PROVE  /\ LruGood(elems, t) /\ Shrunk(s, t) /\ t = [items |-> t.items, order |-> t.order, used |-> t.used]
           /\ (\E m \in fits : t = After(elems, s, m)) \/ (\A k \in Keys : t.items[k] = 0)
<1>1. s.order \in Seq(1 .. Len(elems))
  BY DEF LruGood
<1>2. PICK N \in Nat : N = Len(s.order)
  BY <1>1, LenProperties
<1> DEFINE stop == {m \in 0 .. Len(s.order) : m = Len(s.order) \/ m \in fits}
           m == Min(stop)
<1>3. m \in stop
  <2>1. IsFiniteSet(0 .. N)
    BY FS_Interval
  <2>2. stop \subseteq 0 .. N /\ N \in stop
    BY <1>2
  <2>3. IsFiniteSet(stop) /\ stop \subseteq Nat /\ stop # {}
    BY <2>1, <2>2, FS_Subset
  <2> HIDE DEF stop
  <2> QED BY <2>3, MaxMin
<1>4. t = After(elems, s, m)
  BY DEF EvictUntil
<1> HIDE DEF m
<1>5. m \in 0 .. N /\ (m = N \/ m \in fits)
  BY <1>2, <1>3
<1>6. \A i \in 1 .. N : s.order[i] \in 1 .. Len(elems)
  BY <1>1, <1>2, LenProperties
<1> DEFINE gone == Back(s.order, m)
<1>7. gone \subseteq 1 .. Len(elems)
  <2>1. N - m + 1 .. N \subseteq 1 .. N
    BY <1>5
  <2> QED BY <1>2, <1>6, <2>1 DEF Back
<1>8. t = RemoveElements(elems, s, gone)
  BY <1>4 DEF After
<1>9. m = N => gone = ToSet(s.order)
  <2>1. N - N + 1 .. N = 1 .. N
    OBVIOUS
  <2>2. ToSet(s.order) = {s.order[i] : i \in 1 .. N}
    <3> DEFINE q == s.order
    <3>1. q \in Seq(1 .. Len(elems)) /\ N = Len(q)
      BY <1>1, <1>2
    <3> HIDE DEF q
    <3>2. ToSet(q) = {q[i] : i \in 1 .. Len(q)}
      BY <3>1, ElementsOf
    <3> QED BY <3>1, <3>2 DEF q
  <2> QED BY <1>2, <2>1, <2>2 DEF Back
<1> HIDE DEF gone
<1>10. /\ LruGood(elems, t) /\ Shrunk(s, t) /\ t = [items |-> t.items, order |-> t.order, used |-> t.used]
       /\ ToSet(t.order) = ToSet(s.order) \ gone
  BY <1>7, <1>8, RemoveKeeps
<1>11. m = N => \A k \in Keys : t.items[k] = 0
  <2>1. m = N => ToSet(t.order) = {}
    BY <1>9, <1>10
  <2> QED BY <1>10, <2>1 DEF LruGood
<1> QED BY <1>4, <1>5, <1>10, <1>11

\* Entries left the map, but for the one that was set.
SetIn(k, n) == \A j \in Keys : items'[j] = 0 \/ items'[j] = items[j] \/ (j = k /\ items'[j] = n)

Fronted(s, x, n) == [items |-> [s.items EXCEPT ![x.key] = n], order |-> <<n>> \o s.order, used |-> s.used + x.size]

EntrySet(s, x, n, t) == \A k \in Keys : t.items[k] = IF k = x.key THEN n ELSE s.items[k]

\* A list and map that grow by one entry in front.
LEMMA FrontKeeps ==
    ASSUME NEW elems, NEW x, NEW more, GrownBy(elems, x, more), NEW s, LruGood(elems, s),
           s.items[x.key] = 0, NEW n, n = Len(elems) + 1,
           NEW t, t = Fronted(s, x, n)
    PROVE  LruGood(more, t) /\ EntrySet(s, x, n, t)
<1>1. /\ s.items \in [Keys -> 0 .. Len(elems)] /\ s.order \in Seq(1 .. Len(elems)) /\ Distinct(s.order) /\ s.used \in Int
      /\ \A k \in Keys : s.items[k] # 0 => s.items[k] \in ToSet(s.order) /\ elems[s.items[k]].key = k
      /\ s.used <= SizeOf(elems, ToSet(s.order))
  BY DEF LruGood
<1>0. elems \in Seq(CacheElem) /\ x \in CacheElem /\ more = Append(elems, x)
  BY DEF GrownBy
<1>2. PICK N \in Nat : N = Len(elems)
  BY <1>0, LenProperties
<1> DEFINE q == s.order
           A == ToSet(q)
<1>3. q \in Seq(1 .. N) /\ Distinct(q)
  BY <1>1, <1>2
<1> HIDE DEF q
<1>4. A \subseteq 1 .. N
  BY <1>3, ElementsOf
<1> HIDE DEF A
<1>5. /\ SizeOf(more, A \cup {N + 1}) = SizeOf(elems, A) + x.size
      /\ more \in Seq(CacheElem) /\ Len(more) = N + 1 /\ more[N + 1] = x /\ \A i \in 1 .. N : more[i] = elems[i]
  <2>1. EntriesOf(elems, A)
    BY <1>2, <1>4 DEF EntriesOf
  <2>2. /\ SizeOf(more, A \cup {Len(elems) + 1}) = SizeOf(elems, A) + x.size
        /\ more \in Seq(CacheElem) /\ Len(more) = Len(elems) + 1 /\ more[Len(elems) + 1] = x
        /\ \A i \in 1 .. Len(elems) : more[i] = elems[i]
    <3>1. Grew(elems, x, more, A)
      BY <2>1, SizeGrows
    <3> QED BY <3>1 DEF Grew
  <2> QED BY <1>2, <2>2
<1>6. <<n>> \o q \in Seq(1 .. (N + 1)) /\ ToSet(<<n>> \o q) = A \cup {N + 1} /\ Distinct(<<n>> \o q)
  <2>1. q \in Seq(1 .. (N + 1)) /\ n \in 1 .. (N + 1) /\ n \notin A /\ n = N + 1
    <3>1. n = N + 1 /\ n \in 1 .. (N + 1) /\ n \notin A
      BY <1>2, <1>4
    <3>2. 1 .. N \subseteq 1 .. (N + 1)
      OBVIOUS
    <3> QED BY <1>3, <3>1, <3>2
  <2> DEFINE o == <<n>>
  <2>2. o \in Seq(1 .. (N + 1)) /\ Len(o) = 1 /\ o[1] = n
    BY <2>1
  <2> HIDE DEF o
  <2>3. ToSet(o) = {n} /\ Distinct(o)
    <3>1. \A y : y \in ToSet(o) <=> \E i \in 1 .. Len(o) : o[i] = y
      BY <2>2, ElementsOf
    <3>2. \A i \in 1 .. Len(o) : i = 1
      BY <2>2
    <3> QED BY <2>2, <3>1, <3>2 DEF Distinct
  <2>4. A = ToSet(q)
    BY DEF A
  <2>5. o \o q \in Seq(1 .. (N + 1)) /\ ToSet(o \o q) = ToSet(o) \cup ToSet(q) /\ Distinct(o \o q)
    BY <1>3, <2>1, <2>2, <2>3, <2>4, JoinSequences
  <2> QED BY <2>1, <2>3, <2>4, <2>5 DEF o
<1>7. t.items = [s.items EXCEPT ![x.key] = n] /\ t.order = <<n>> \o q /\ t.used = s.used + x.size /\ x.key \in Keys /\ x.size \in Nat
  BY <1>0, CacheAssumption DEF CacheElem, q, Fronted
<1>8. \A k \in Keys : t.items[k] = IF k = x.key THEN n ELSE s.items[k]
  BY <1>1, <1>7
<1>9. t.items \in [Keys -> 0 .. (N + 1)]
  <2>1. \A k \in Keys : t.items[k] \in 0 .. (N + 1)
    BY <1>1, <1>2, <1>8
  <2>2. t.items = [k \in Keys |-> t.items[k]]
    BY <1>1, <1>7
  <2> QED BY <2>1, <2>2
<1>10. \A k \in Keys : t.items[k] # 0 => t.items[k] \in ToSet(t.order) /\ more[t.items[k]].key = k
  <2> SUFFICES ASSUME NEW k \in Keys, t.items[k] # 0 PROVE t.items[k] \in ToSet(t.order) /\ more[t.items[k]].key = k
    OBVIOUS
  <2>1. CASE k = x.key
    <3>1. t.items[k] = N + 1
      BY <1>2, <1>8, <2>1
    <3>2. N + 1 \in ToSet(t.order)
      BY <1>6, <1>7
    <3> QED BY <1>5, <2>1, <3>1, <3>2
  <2>2. CASE k # x.key
    <3>1. t.items[k] = s.items[k] /\ s.items[k] \in A /\ elems[s.items[k]].key = k
      BY <1>1, <1>8, <2>2 DEF A, q
    <3>2. s.items[k] \in 1 .. N
      BY <1>4, <3>1
    <3>3. more[s.items[k]] = elems[s.items[k]]
      BY <1>5, <3>2
    <3>4. s.items[k] \in ToSet(t.order)
      BY <1>6, <1>7, <3>1
    <3> QED BY <3>1, <3>3, <3>4
  <2> QED BY <2>1, <2>2
<1>11. t.used \in Int /\ t.used <= SizeOf(more, ToSet(t.order))
  <2>1. SizeOf(elems, A) \in Nat /\ s.used <= SizeOf(elems, A)
    BY <1>0, <1>1, SizesAdd DEF A, q
  <2>2. SizeOf(more, ToSet(t.order)) = SizeOf(elems, A) + x.size
    BY <1>5, <1>6, <1>7
  <2>3. s.used \in Int /\ x.size \in Nat /\ t.used = s.used + x.size
    BY <1>1, <1>7
  <2> QED BY <2>1, <2>2, <2>3
<1> QED BY <1>5, <1>6, <1>7, <1>8, <1>9, <1>10, <1>11 DEF LruGood, EntrySet

\* Set keeps the list and the map together and within the limit.
LEMMA SetKeeps ==
    ASSUME celem \in Seq(CacheElem), LruGood(celem, Lru), limits \in [entries : EntryLimits, bytes : ByteLimits],
           NEW k \in Keys, NEW z \in Sizes, NEW val \in Elems, SetLru(k, z, val), NEW x,
           x = [key |-> k, size |-> z, expired |-> FALSE, val |-> val]
    PROVE  /\ LruGood(celem', Lru') /\ Size(Lru') <= limits.entries
           /\ Stored < MaxElems /\ celem' = Append(celem, x) /\ celem' \in Seq(CacheElem) /\ Stored' = Stored + 1
           /\ celem'[Stored + 1] = x /\ \A n \in 1 .. Stored : celem'[n] = celem[n]
           /\ SetIn(k, Stored + 1)
<1> DEFINE n == Stored + 1
           elems == Append(celem, x)
           s == IF items[k] # 0 THEN RemoveElement(elems, Lru, items[k]) ELSE Lru
           t == [items |-> [s.items EXCEPT ![k] = n], order |-> <<n>> \o s.order, used |-> s.used + z]
           fits == BytesFit(elems, t, limits.bytes) \cap EntriesFit(elems, t, limits.entries)
           u == EvictUntil(elems, t, fits)
<1>1. Stored < MaxElems /\ celem' = elems /\ items' = u.items /\ order' = u.order /\ usedBytes' = u.used
  BY DEF SetLru, Install
<1>2. x \in CacheElem /\ x.key = k /\ x.size = z
  BY DEF CacheElem
<1>3. PICK N \in Nat : N = Stored /\ N = Len(celem)
  BY LenProperties DEF Stored
<1>4. /\ elems \in Seq(CacheElem) /\ Len(elems) = N + 1 /\ elems[N + 1] = x /\ \A i \in 1 .. N : elems[i] = celem[i]
  BY <1>2, <1>3, AppendProperties
<1> HIDE DEF u, fits
<1>5. LruGood(elems, t) /\ \A j \in Keys : t.items[j] = (IF j = k THEN n ELSE 0) \/ t.items[j] = (IF j = k THEN n ELSE items[j])
  <2>1. LruGood(celem, s) /\ Shrunk(Lru, s) /\ s.items[k] = 0
    <3>1. CASE items[k] = 0
      <4>1. s = Lru
        BY <3>1
      <4>2. Shrunk(Lru, Lru) /\ Lru.items[k] = 0
        BY <3>1 DEF Shrunk, Lru
      <4> QED BY <4>1, <4>2
    <3>2. CASE items[k] # 0
      <4> DEFINE gone == {items[k]}
      <4>1. items[k] \in 1 .. N /\ celem[items[k]].key = k
        <5>1. Lru.items = items
          BY DEF Lru
        <5>2. items[k] \in 0 .. N /\ celem[items[k]].key = k
          BY <1>3, <3>2, <5>1 DEF LruGood
        <5> QED BY <3>2, <5>2
      <4>2. RemoveElements(elems, Lru, gone) = RemoveElements(celem, Lru, gone)
        <5>1. \A i \in gone : elems[i] = celem[i]
          BY <1>4, <4>1
        <5>2. SizeOf(elems, gone) = SizeOf(celem, gone)
          <6>1. EntriesOf(celem, gone)
            BY <1>3, <4>1 DEF EntriesOf
          <6> HIDE DEF gone
          <6>2. GrownBy(celem, x, elems)
            BY <1>2 DEF GrownBy
          <6> HIDE DEF elems
          <6>3. Grew(celem, x, elems, gone)
            BY <6>1, <6>2, SizeGrows
          <6> QED BY <6>3 DEF Grew
        <5> QED BY <5>1, <5>2 DEF RemoveElements
      <4>3. s = RemoveElements(celem, Lru, gone)
        BY <3>2, <4>2 DEF RemoveElement
      <4>4. gone \subseteq 1 .. Len(celem) /\ items[k] \in gone
        BY <1>3, <4>1
      <4> HIDE DEF s, gone
      <4>5. LruGood(celem, s) /\ Shrunk(Lru, s) /\ \A i \in gone : s.items[celem[i].key] = 0
        BY <4>3, <4>4, RemoveKeeps
      <4> QED BY <4>1, <4>4, <4>5
    <3> QED BY <3>1, <3>2
  <2> HIDE DEF s
  <2>2. n = Len(celem) + 1
    BY <1>3
  <2>3. t = Fronted(s, x, n)
    BY <1>2 DEF Fronted
  <2>4. GrownBy(celem, x, elems) /\ s.items[x.key] = 0
    BY <1>2, <2>1 DEF GrownBy
  <2> HIDE DEF t, n, elems
  <2>5. LruGood(elems, t) /\ EntrySet(s, x, n, t)
    BY <1>2, <2>1, <2>2, <2>3, <2>4, FrontKeeps
  <2>6. \A j \in Keys : s.items[j] = 0 \/ s.items[j] = items[j]
    BY <2>1 DEF Shrunk, Lru
  <2> QED BY <1>2, <2>5, <2>6 DEF EntrySet
<1> HIDE DEF t, s
<1>6. fits \subseteq 0 .. Len(t.order)
  BY DEF fits, BytesFit, EntriesFit
<1>7. u = EvictUntil(elems, t, fits)
  BY DEF u
<1> HIDE DEF elems
<1>8. /\ LruGood(elems, u) /\ Shrunk(t, u) /\ u = [items |-> u.items, order |-> u.order, used |-> u.used]
      /\ (\E m \in fits : u = After(elems, t, m)) \/ (\A j \in Keys : u.items[j] = 0)
  BY <1>4, <1>5, <1>6, <1>7, EvictEnds
<1>9. Lru' = u
  BY <1>1, <1>8 DEF Lru
<1>10. Size(u) <= limits.entries
  <2>1. limits.entries \in Nat
    BY CacheAssumption
  <2>2. ASSUME NEW m \in fits, u = After(elems, t, m) PROVE Size(u) <= limits.entries
    BY <2>2 DEF fits, EntriesFit
  <2>3. CASE \A j \in Keys : u.items[j] = 0
    BY <1>8, <2>1, <2>3, ShrunkSize
  <2> QED BY <1>8, <2>2, <2>3
<1>11. SetIn(k, Stored + 1)
  <2>1. \A j \in Keys : u.items[j] = 0 \/ u.items[j] = t.items[j]
    BY <1>8 DEF Shrunk
  <2>2. \A j \in Keys : t.items[j] = 0 \/ t.items[j] = items[j] \/ (j = k /\ t.items[j] = Stored + 1)
    BY <1>5
  <2> QED BY <1>1, <2>1, <2>2 DEF SetIn
<1>12. Stored' = Stored + 1
  BY <1>1, <1>3, <1>4 DEF Stored
<1> QED BY <1>1, <1>3, <1>4, <1>8, <1>9, <1>10, <1>11, <1>12 DEF elems

\* The values that stay what they are while entries are added or expire.
ValuesStay ==
  /\ Stored \in Nat /\ Stored' \in Nat /\ Stored <= Stored' /\ Stored' <= MaxElems
  /\ \A n \in 1 .. Stored : celem'[n].key = celem[n].key /\ celem'[n].val = celem[n].val

\* A call that is not touched keeps what it relies on.
LEMMA CallKept ==
    ASSUME NEW h, CacheCall(h, caller[h]), ValuesStay, caller'[h] = caller[h],
           caller[h].op \in {"fill", "set2"} => caller[h].elem \notin revoked',
           caller[h].op \in {"fill", "del1", "del2"} => tierMu' = {h},
           caller[h].op = "set2" => \A k \in Keys : l2'[k] # caller[h].elem,
           caller[h].op = "del2" => \A k \in Keys : items'[k] # 0 => celem'[items'[k]].val # caller[h].elem
    PROVE  CacheCall(h, caller[h])'
<1> DEFINE r == caller[h]
<1>1. /\ r \in [op : CacheOps, elem : 0 .. MaxElems, key : Keys]
      /\ r.op \in {"hit", "drop"} => r.elem \in 1 .. Stored
      /\ r.op \in {"fill", "set2"} => r.elem \in 1 .. Stored /\ celem[r.elem].key = r.key
      /\ r.op \in {"del1", "del2"} => r.elem \in 0 .. Stored /\ (r.elem # 0 => celem[r.elem].key = r.key)
  BY DEF CacheCall
<1>2. /\ 1 .. Stored \subseteq 1 .. Stored' /\ 0 .. Stored \subseteq 0 .. Stored'
      /\ \A n \in 0 .. Stored : n # 0 => n \in 1 .. Stored
  BY DEF ValuesStay
<1>3. /\ r.op \in {"hit", "drop"} => r.elem \in 1 .. Stored'
      /\ r.op \in {"fill", "set2"} => r.elem \in 1 .. Stored' /\ celem'[r.elem].key = r.key
      /\ r.op \in {"del1", "del2"} => r.elem \in 0 .. Stored' /\ (r.elem # 0 => celem'[r.elem].key = r.key)
  BY <1>1, <1>2 DEF ValuesStay
<1> QED BY <1>1, <1>3 DEF CacheCall

\* What is on its way to the second tier, or being removed from it, was before.
LEMMA ApartKept ==
    ASSUME SetsApart,
           \A h \in Callers : /\ caller'[h].op = "set2" => caller[h].op = "set2" /\ caller'[h].elem = caller[h].elem
                              /\ caller'[h].op \in {"del1", "del2"} => caller[h].op \in {"del1", "del2"} /\ caller'[h].elem = caller[h].elem
    PROVE  SetsApart'
BY DEF SetsApart

\* What the invariant says of the values and the map.
LEMMA CacheFacts ==
    ASSUME CcInv
    PROVE  /\ celem \in Seq(CacheElem) /\ Stored \in Nat /\ Stored = Len(celem) /\ Stored <= MaxElems /\ MaxElems \in Nat
           /\ items \in [Keys -> 0 .. Stored] /\ \A k \in Keys : items[k] # 0 => items[k] \in 1 .. Stored /\ celem[items[k]].key = k
           /\ \A n \in 1 .. Stored : celem[n] \in CacheElem
           /\ \A n \in 1 .. Stored : celem[n].val \in 1 .. Stored /\ celem[celem[n].val].key = celem[n].key
           /\ l2 \in [Keys -> 0 .. Stored] /\ revoked \subseteq 1 .. Stored
           /\ \A k \in Keys : l2[k] # 0 => l2[k] \in 1 .. Stored /\ celem[l2[k]].key = k /\ l2[k] \notin revoked
           /\ \A k \in Keys : items[k] # 0 => celem[items[k]].val \notin revoked
<1>1. celem \in Seq(CacheElem) /\ Stored = Len(celem) /\ ValuesGood /\ LruGood(celem, Lru)
  BY DEF CcInv, ValuesGood, Stored
<1>2. Stored \in Nat /\ \A n \in 1 .. Stored : celem[n] \in CacheElem
  BY <1>1, LenProperties
<1>3. Lru.items = items
  BY DEF Lru
<1>4. items \in [Keys -> 0 .. Stored] /\ \A k \in Keys : items[k] # 0 => celem[items[k]].key = k
  BY <1>1, <1>3 DEF LruGood
<1>5. \A n \in 0 .. Stored : n # 0 => n \in 1 .. Stored
  BY <1>2
<1> QED BY <1>1, <1>2, <1>4, <1>5, CacheAssumption DEF ValuesGood, NoStaleRevival

\* Steps that leave the values and the second tier alone, and add nothing to
\* the map.
LEMMA CacheQuiet ==
    ASSUME CcInv, UNCHANGED <<celem, revoked, l2>>, \A k \in Keys : items'[k] = 0 \/ items'[k] = items[k],
           LruGood(celem, Lru'), EntriesWithinLimit', limits' \in [entries : EntryLimits, bytes : ByteLimits], sweep' \subseteq Keys,
           tierMu' \in {{}} \cup {{g} : g \in Callers}, caller' = [h \in Callers |-> caller'[h]],
           \A h \in Callers : \/ CacheCall(h, caller[h])'
                              \/ caller'[h] = caller[h] /\ (caller[h].op \in {"fill", "del1", "del2"} => tierMu' = tierMu),
           SetsApart'
    PROVE  CcInv'
<1>1. ValuesStay
  BY CacheFacts DEF ValuesStay, Stored
<1>2. ValuesGood'
  <2>1. NoStaleRevival'
    BY DEF CcInv, ValuesGood, NoStaleRevival
  <2>2. Stored' = Stored
    BY DEF Stored
  <2> QED BY <2>1, <2>2 DEF CcInv, ValuesGood
<1>3. \A h \in Callers : CacheCall(h, caller[h])'
  <2> TAKE h \in Callers
  <2>1. CASE caller'[h] = caller[h] /\ (caller[h].op \in {"fill", "del1", "del2"} => tierMu' = tierMu)
    <3>1. CacheCall(h, caller[h])
      BY DEF CcInv
    <3>2. /\ caller[h].op \in {"fill", "set2"} => caller[h].elem \notin revoked'
          /\ caller[h].op \in {"fill", "del1", "del2"} => tierMu' = {h}
          /\ caller[h].op = "set2" => \A k \in Keys : l2'[k] # caller[h].elem
          /\ caller[h].op = "del2" => \A k \in Keys : items'[k] # 0 => celem'[items'[k]].val # caller[h].elem
      BY <2>1, <3>1 DEF CacheCall
    <3> QED BY <1>1, <2>1, <3>1, <3>2, CallKept
  <2> QED BY <2>1
<1>4. LruGood(celem, Lru)'
  OBVIOUS
<1> QED BY <1>2, <1>3, <1>4 DEF CcInv

\* One call moves.
LEMMA CacheMoves ==
    ASSUME CcInv, NEW g \in Callers, NEW r, caller' = [caller EXCEPT ![g] = r]
    PROVE  caller' = [h \in Callers |-> caller'[h]] /\ caller'[g] = r /\ \A h \in Callers : h # g => caller'[h] = caller[h]
BY DEF CcInv

\* A caller that does nothing.
LEMMA IdleCall == ASSUME NEW g PROVE CacheCall(g, Idle)
<1>1. (CHOOSE k \in Keys : TRUE) \in Keys
  BY CacheAssumption
<1>2. 0 \in 0 .. MaxElems
  BY CacheAssumption
<1> QED BY <1>1, <1>2 DEF CacheCall, Idle, CacheOps

\* A call that moves to an operation which relies on no more than an element.
LEMMA LightCall ==
    ASSUME CcInv, NEW g, NEW what \in {"l2", "hit", "drop"}, NEW n \in 0 .. Stored, what = "l2" \/ n # 0, NEW k \in Keys,
           caller'[g] = [op |-> what, elem |-> n, key |-> k], Stored' = Stored
    PROVE  CacheCall(g, caller[g])'
<1>1. Stored \in Nat /\ MaxElems \in Nat /\ Stored <= MaxElems
  BY CacheFacts
<1>2. n \in 0 .. MaxElems /\ (n # 0 => n \in 1 .. Stored)
  BY <1>1
<1> QED BY <1>2 DEF CacheCall, CacheOps

\* Steps of one call that leave the entries and the second tier alone.
LEMMA CallOnly ==
    ASSUME CcInv, NEW g \in Callers, NEW r, caller' = [caller EXCEPT ![g] = r],
           UNCHANGED <<items, order, celem, usedBytes, limits, sweep, l2, revoked>>,
           tierMu' \in {tierMu, {}, {g}}, tierMu' # tierMu => tierMu \subseteq {g},
           CacheCall(g, caller[g])', SetsApart'
    PROVE  CcInv'
<1>1. caller' = [h \in Callers |-> caller'[h]] /\ caller'[g] = r /\ \A h \in Callers : h # g => caller'[h] = caller[h]
  BY CacheMoves
<1>2. Lru' = Lru /\ EntriesWithinLimit'
  BY DEF CcInv, EntriesWithinLimit, Lru, Size
<1>3. \A h \in Callers : h # g /\ caller[h].op \in {"fill", "del1", "del2"} => tierMu = {h}
  BY DEF CcInv, CacheCall
<1>4. \A h \in Callers : h # g /\ caller[h].op \in {"fill", "del1", "del2"} => tierMu' = tierMu
  BY <1>3
<1>5. LruGood(celem, Lru') /\ tierMu' \in {{}} \cup {{h} : h \in Callers} /\ sweep' \subseteq Keys
  BY <1>2 DEF CcInv
<1>6. limits' \in [entries : EntryLimits, bytes : ByteLimits]
  BY DEF CcInv
<1> QED BY <1>1, <1>2, <1>4, <1>5, <1>6, CacheQuiet

\* The lookup under the read lock.
LEMMA GetLookupStep == ASSUME CcInv, NEW g \in Callers, NEW k \in Keys, GetLookup(g, k) PROVE CcInv'
<1> DEFINE what == CASE items[k] = 0 -> "l2" [] items[k] # 0 /\ celem[items[k]].expired -> "drop" [] OTHER -> "hit"
           r == [op |-> what, elem |-> items[k], key |-> k]
<1>1. items[k] \in 0 .. Stored
  BY CacheFacts
<1>2. what \in {"l2", "hit", "drop"} /\ (what = "l2" \/ items[k] # 0)
  OBVIOUS
<1>3. caller' = [caller EXCEPT ![g] = r] /\ UNCHANGED <<items, order, celem, usedBytes, limits, sweep, l2, tierMu, revoked>>
  BY DEF GetLookup, Go
<1> HIDE DEF what
<1>4. caller'[g] = r /\ \A h \in Callers : h # g => caller'[h] = caller[h]
  BY <1>3, CacheMoves
<1>5. CacheCall(g, caller[g])'
  BY <1>1, <1>2, <1>3, <1>4, LightCall DEF Stored
<1>6. SetsApart'
  <2>1. r.op \notin {"set2", "del1", "del2"}
    BY <1>2
  <2> QED BY <1>4, <2>1, ApartKept DEF CcInv
<1> HIDE DEF r
<1> QED BY <1>3, <1>5, <1>6, CallOnly

\* The second tier is read, under its lock.
LEMMA TierReadStep == ASSUME CcInv, NEW g \in Callers, TierRead(g) PROVE CcInv'
<1>0. UNCHANGED <<items, order, celem, usedBytes, limits, sweep, l2, revoked>> /\ tierMu = {} /\ caller[g].key \in Keys
  BY DEF TierRead, RefillLock, CcInv, CacheCall
<1>1. CASE l2[caller[g].key] # 0 /\ tierMu' = {g} /\ Go(g, "fill", l2[caller[g].key], caller[g].key)
  <2> DEFINE k == caller[g].key
             r == [op |-> "fill", elem |-> l2[k], key |-> k]
  <2>1. caller' = [caller EXCEPT ![g] = r]
    BY <1>1 DEF Go
  <2>2. caller'[g] = r /\ \A h \in Callers : h # g => caller'[h] = caller[h]
    BY <2>1, CacheMoves
  <2>3. l2[k] \in 1 .. Stored /\ celem[l2[k]].key = k /\ l2[k] \notin revoked /\ Stored \in Nat /\ MaxElems \in Nat /\ Stored <= MaxElems
    BY <1>0, <1>1, CacheFacts
  <2>4. l2[k] \in 0 .. MaxElems /\ Stored' = Stored
    BY <1>0, <2>3 DEF Stored
  <2>5. CacheCall(g, caller[g])'
    BY <1>0, <1>1, <2>2, <2>3, <2>4 DEF CacheCall, CacheOps
  <2>6. SetsApart'
    BY <2>2, ApartKept DEF CcInv
  <2> HIDE DEF r
  <2> QED BY <1>0, <1>1, <2>1, <2>5, <2>6, CallOnly
<1>2. CASE UNCHANGED tierMu /\ Done(g)
  <2>1. caller' = [caller EXCEPT ![g] = Idle]
    BY <1>2 DEF Done
  <2>2. caller'[g] = Idle /\ \A h \in Callers : h # g => caller'[h] = caller[h]
    BY <2>1, CacheMoves
  <2>3. CacheCall(g, Idle)'
    BY IdleCall DEF CacheCall, Idle, CacheOps
  <2>4. SetsApart'
    <3>1. Idle.op = "idle"
      BY DEF Idle
    <3> QED BY <2>2, <3>1, ApartKept DEF CcInv
  <2>5. CacheCall(g, caller[g])'
    BY <2>2, <2>3
  <2> QED BY <1>0, <1>2, <2>1, <2>4, <2>5, CallOnly
<1> QED BY <1>1, <1>2 DEF TierRead, RefillLock

\* Delete takes the lock of the tiers and notes the value it removes.
LEMMA DeleteLockStep == ASSUME CcInv, NEW g \in Callers, NEW k \in Keys, DeleteLock(g, k) PROVE CcInv'
<1> DEFINE r == [op |-> "del1", elem |-> l2[k], key |-> k]
<1>1. /\ caller' = [caller EXCEPT ![g] = r] /\ UNCHANGED <<items, order, celem, usedBytes, limits, sweep, l2, revoked>>
      /\ tierMu = {} /\ tierMu' = {g}
  BY DEF DeleteLock, Go
<1>2. caller'[g] = r /\ \A h \in Callers : h # g => caller'[h] = caller[h]
  BY <1>1, CacheMoves
<1>3. l2[k] \in 0 .. Stored /\ (l2[k] # 0 => celem[l2[k]].key = k) /\ Stored \in Nat /\ MaxElems \in Nat /\ Stored <= MaxElems
  BY CacheFacts
<1>4. l2[k] \in 0 .. MaxElems /\ Stored' = Stored
  BY <1>1, <1>3 DEF Stored
<1>5. CacheCall(g, caller[g])'
  BY <1>1, <1>2, <1>3, <1>4 DEF CacheCall, CacheOps
<1>6. SetsApart'
  <2>1. \A h \in Callers : caller[h].op = "set2" => caller[h].elem # l2[k]
    BY DEF CcInv, CacheCall
  <2>2. \A h \in Callers : caller[h].op \notin {"fill", "del1", "del2"}
    BY <1>1 DEF CcInv, CacheCall
  <2>3. r.op = "del1" /\ r.elem = l2[k]
    OBVIOUS
  <2> HIDE DEF r
  <2>4. SetsApart
    BY DEF CcInv
  <2> QED BY <1>2, <2>1, <2>2, <2>3, <2>4 DEF SetsApart
<1> HIDE DEF r
<1> QED BY <1>1, <1>5, <1>6, CallOnly

IsLru(t) == t = [items |-> t.items, order |-> t.order, used |-> t.used]

\* Steps that take entries out of the list and the map.
LEMMA ListStep ==
    ASSUME CcInv, NEW t, LruGood(celem, t), Shrunk(Lru, t), IsLru(t), Install(t), Size(t) <= limits'.entries,
           UNCHANGED <<celem, l2, tierMu, revoked>>,
           limits' \in [entries : EntryLimits, bytes : ByteLimits], sweep' \subseteq Keys, caller' = [h \in Callers |-> caller'[h]],
           \A h \in Callers : CacheCall(h, caller[h])' \/ caller'[h] = caller[h], SetsApart'
    PROVE  CcInv'
<1>1. items' = t.items /\ order' = t.order /\ usedBytes' = t.used /\ Lru' = t
  BY DEF Install, Lru, IsLru
<1>2. \A k \in Keys : items'[k] = 0 \/ items'[k] = items[k]
  BY <1>1 DEF Shrunk, Lru
<1>3. EntriesWithinLimit'
  BY <1>1 DEF EntriesWithinLimit, Size
<1>4. tierMu' \in {{}} \cup {{g} : g \in Callers}
  BY DEF CcInv
<1> QED BY <1>1, <1>2, <1>3, <1>4, CacheQuiet

\* The map stays within the limit when entries leave.
LEMMA StillFits == ASSUME CcInv, NEW t, Shrunk(Lru, t) PROVE Size(t) <= limits.entries
<1>1. Size(t) <= Size(Lru) /\ Size(t) \in Nat /\ Size(Lru) \in Nat
  BY ShrunkSize
<1>2. Size(Lru) <= limits.entries /\ limits.entries \in Nat
  BY CacheAssumption DEF CcInv, EntriesWithinLimit
<1> QED BY <1>1, <1>2

\* A call that only moves, to an operation which needs nothing.
LEMMA OneMoves ==
    ASSUME CcInv, NEW g \in Callers, NEW r, caller' = [caller EXCEPT ![g] = r],
           (r.op \notin {"set2", "del1", "del2"}) \/ (r.op = "del2" /\ caller[g].op = "del1" /\ r.elem = caller[g].elem)
    PROVE  SetsApart' /\ caller' = [h \in Callers |-> caller'[h]] /\ caller'[g] = r /\ \A h \in Callers : h # g => caller'[h] = caller[h]
<1>1. caller' = [h \in Callers |-> caller'[h]] /\ caller'[g] = r /\ \A h \in Callers : h # g => caller'[h] = caller[h]
  BY CacheMoves
<1>2. \A h \in Callers : /\ caller'[h].op = "set2" => caller[h].op = "set2" /\ caller'[h].elem = caller[h].elem
                         /\ caller'[h].op \in {"del1", "del2"} => caller[h].op \in {"del1", "del2"} /\ caller'[h].elem = caller[h].elem
  BY <1>1
<1>3. SetsApart
  BY DEF CcInv
<1> QED BY <1>1, <1>2, <1>3, ApartKept

\* A removal of one element under the write lock.
LEMMA GetExpiredStep == ASSUME CcInv, NEW g \in Callers, GetExpired(g) PROVE CcInv'
<1> DEFINE gone == {caller[g].elem}
           t == RemoveElements(celem, Lru, gone)
           r == [op |-> "l2", elem |-> 0, key |-> caller[g].key]
<1>1. Install(t) /\ caller' = [caller EXCEPT ![g] = r] /\ UNCHANGED <<celem, limits, sweep, l2, tierMu, revoked>>
  BY DEF GetExpired, Go, RemoveElement
<1>2. gone \subseteq 1 .. Len(celem) /\ caller[g].key \in Keys
  BY DEF GetExpired, CcInv, CacheCall, Stored
<1>3. celem \in Seq(CacheElem) /\ LruGood(celem, Lru) /\ Stored \in Nat
  BY CacheFacts DEF CcInv
<1> HIDE DEF gone
<1>4. \A u : u = t => LruGood(celem, u) /\ Shrunk(Lru, u) /\ u = [items |-> u.items, order |-> u.order, used |-> u.used]
  <2> HIDE DEF t
  <2> TAKE u
  <2> HAVE u = t
  <2>1. t = RemoveElements(celem, Lru, gone)
    BY DEF t
  <2> QED BY <1>2, <1>3, <2>1, RemoveKeeps
<1>5. LruGood(celem, t) /\ Shrunk(Lru, t) /\ IsLru(t)
  BY <1>4 DEF IsLru
<1> HIDE DEF t
<1>6. Size(t) <= limits.entries
  BY <1>5, StillFits
<1>7. r.op = "l2"
  OBVIOUS
<1>8. CacheCall(g, caller[g])'
  <2>1. caller'[g] = r
    BY <1>1, CacheMoves
  <2>2. 0 \in 0 .. Stored /\ Stored' = Stored
    BY <1>1, <1>3 DEF Stored
  <2> QED BY <1>2, <2>1, <2>2, LightCall
<1> HIDE DEF r
<1>9. SetsApart' /\ caller' = [h \in Callers |-> caller'[h]] /\ \A h \in Callers : h # g => caller'[h] = caller[h]
  BY <1>1, <1>7, OneMoves
<1>10. limits' \in [entries : EntryLimits, bytes : ByteLimits] /\ sweep' \subseteq Keys /\ limits' = limits
  BY <1>1 DEF CcInv
<1> QED BY <1>1, <1>5, <1>6, <1>8, <1>9, <1>10, ListStep

\* The move to the front.
LEMMA GetHitStep == ASSUME CcInv, NEW g \in Callers, GetHit(g) PROVE CcInv'
<1> DEFINE n == caller[g].elem
           t == [items |-> items, order |-> order', used |-> usedBytes]
<1>1. /\ order' = IF n \in ToSet(order) THEN <<n>> \o Without(order, {n}) ELSE order
      /\ caller' = [caller EXCEPT ![g] = Idle] /\ UNCHANGED <<items, celem, usedBytes, limits, sweep, l2, tierMu, revoked>>
  BY DEF GetHit, Done
<1>2. n \in 1 .. Stored /\ Stored \in Nat /\ Stored = Len(celem)
  BY CacheFacts DEF GetHit, CcInv, CacheCall
<1>3. /\ items \in [Keys -> 0 .. Stored] /\ order \in Seq(1 .. Stored) /\ Distinct(order) /\ usedBytes \in Int
      /\ \A k \in Keys : items[k] # 0 => items[k] \in ToSet(order) /\ celem[items[k]].key = k
      /\ usedBytes <= SizeOf(celem, ToSet(order))
  BY <1>2 DEF CcInv, LruGood, Lru
<1>4. order' \in Seq(1 .. Stored) /\ Distinct(order') /\ ToSet(order') = ToSet(order)
  <2>1. CASE n \notin ToSet(order)
    BY <1>1, <1>3, <2>1
  <2>2. CASE n \in ToSet(order)
    <3> DEFINE o == <<n>>
               q == Without(order, {n})
    <3>1. order' = o \o q
      BY <1>1, <2>2
    <3>2. q \in Seq(1 .. Stored) /\ Distinct(q) /\ ToSet(q) = ToSet(order) \ {n}
      BY <1>3, WithoutIs
    <3>3. o \in Seq(1 .. Stored) /\ Len(o) = 1 /\ o[1] = n
      BY <1>2
    <3> HIDE DEF o, q
    <3>4. ToSet(o) = {n} /\ Distinct(o)
      <4>1. \A y : y \in ToSet(o) <=> \E i \in 1 .. Len(o) : o[i] = y
        BY <3>3, ElementsOf
      <4>2. \A i \in 1 .. Len(o) : i = 1
        BY <3>3
      <4> QED BY <3>3, <4>1, <4>2 DEF Distinct
    <3>5. o \o q \in Seq(1 .. Stored) /\ ToSet(o \o q) = ToSet(o) \cup ToSet(q) /\ Distinct(o \o q)
      BY <3>2, <3>3, <3>4, JoinSequences
    <3> QED BY <2>2, <3>1, <3>2, <3>4, <3>5
  <2> QED BY <2>1, <2>2
<1>5. LruGood(celem, t) /\ Shrunk(Lru, t) /\ IsLru(t) /\ Install(t)
  <2>1. t.items = items /\ t.order = order' /\ t.used = usedBytes /\ IsLru(t)
    BY DEF IsLru
  <2> HIDE DEF t
  <2>2. LruGood(celem, t)
    BY <1>2, <1>3, <1>4, <2>1 DEF LruGood
  <2>3. Shrunk(Lru, t) /\ Install(t)
    BY <1>1, <2>1 DEF Shrunk, Lru, Install
  <2> QED BY <2>1, <2>2, <2>3
<1> HIDE DEF t, n
<1>6. Size(t) <= limits.entries
  BY <1>5, StillFits
<1>7. Idle.op = "idle"
  BY DEF Idle
<1>8. SetsApart' /\ caller' = [h \in Callers |-> caller'[h]] /\ caller'[g] = Idle /\ \A h \in Callers : h # g => caller'[h] = caller[h]
  BY <1>1, <1>7, OneMoves
<1>9. CacheCall(g, caller[g])'
  <2>1. CacheCall(g, Idle)'
    BY IdleCall DEF CacheCall, Idle, CacheOps
  <2> QED BY <1>8, <2>1
<1>10. limits' \in [entries : EntryLimits, bytes : ByteLimits] /\ sweep' \subseteq Keys /\ limits' = limits
  BY <1>1 DEF CcInv
<1> QED BY <1>1, <1>5, <1>6, <1>8, <1>9, <1>10, ListStep

Removed(t, gone) ==
  /\ LruGood(celem, t) /\ Shrunk(Lru, t) /\ IsLru(t) /\ Size(t) <= limits.entries
  /\ \A n \in gone : t.items[celem[n].key] = 0

\* What a removal does to the list and the map.
LEMMA Removal ==
    ASSUME CcInv, NEW gone, gone \subseteq 1 .. Stored, NEW t, t = RemoveElements(celem, Lru, gone)
    PROVE  Removed(t, gone)
<1>1. celem \in Seq(CacheElem) /\ LruGood(celem, Lru) /\ gone \subseteq 1 .. Len(celem)
  BY CacheFacts DEF CcInv
<1>2. /\ LruGood(celem, t) /\ Shrunk(Lru, t) /\ t = [items |-> t.items, order |-> t.order, used |-> t.used]
      /\ \A n \in gone : t.items[celem[n].key] = 0
  BY <1>1, RemoveKeeps
<1>3. Size(t) <= limits.entries
  BY <1>2, StillFits
<1> QED BY <1>2, <1>3 DEF Removed, IsLru

\* Delete removes the key's entry from the first tier.
LEMMA DeleteLocalStep == ASSUME CcInv, NEW g \in Callers, DeleteLocal(g) PROVE CcInv'
<1> DEFINE k == caller[g].key
           gone == {items[k]} \ {0}
           r == [op |-> "del2", elem |-> caller[g].elem, key |-> k]
<1>1. /\ IF items[k] # 0 THEN Install(RemoveElement(celem, Lru, items[k])) ELSE UNCHANGED <<items, order, usedBytes>>
      /\ caller' = [caller EXCEPT ![g] = r] /\ UNCHANGED <<celem, limits, sweep, l2, tierMu, revoked>> /\ caller[g].op = "del1"
  BY DEF DeleteLocal, Go
<1>2. /\ k \in Keys /\ items[k] \in 0 .. Stored /\ gone \subseteq 1 .. Stored /\ Stored \in Nat /\ Stored' = Stored
      /\ \A n \in gone : celem[n].key = k
  BY <1>1, CacheFacts DEF CcInv, CacheCall, Stored
<1>3. PICK t : LruGood(celem, t) /\ Shrunk(Lru, t) /\ IsLru(t) /\ Size(t) <= limits.entries /\ Install(t) /\ t.items[k] = 0
  <2>1. CASE items[k] # 0
    <3> DEFINE t == RemoveElements(celem, Lru, gone)
    <3>1. gone = {items[k]}
      BY <2>1
    <3>2. Install(t)
      BY <1>1, <2>1, <3>1 DEF RemoveElement
    <3>3. items[k] \in gone
      BY <3>1
    <3> HIDE DEF gone
    <3>4. Removed(t, gone)
      <4> HIDE DEF t
      <4>1. t = RemoveElements(celem, Lru, gone)
        BY DEF t
      <4> QED BY <1>2, <4>1, Removal
    <3>5. t.items[k] = 0
      <4> HIDE DEF t
      <4> QED BY <1>2, <3>3, <3>4 DEF Removed
    <3> HIDE DEF t
    <3> QED BY <3>2, <3>4, <3>5 DEF Removed
  <2>2. CASE items[k] = 0
    <3>1. Shrunk(Lru, Lru) /\ IsLru(Lru) /\ Install(Lru) /\ Lru.items[k] = 0
      BY <1>1, <2>2 DEF Shrunk, IsLru, Install, Lru
    <3>2. LruGood(celem, Lru) /\ Size(Lru) <= limits.entries
      BY DEF CcInv, EntriesWithinLimit
    <3> QED BY <3>1, <3>2
  <2> QED BY <2>1, <2>2
<1>4. items'[k] = 0 /\ \A j \in Keys : items'[j] = 0 \/ items'[j] = items[j]
  BY <1>2, <1>3 DEF Install, Shrunk, Lru
<1>5. /\ caller[g].elem \in 0 .. MaxElems /\ caller[g].elem \in 0 .. Stored /\ tierMu = {g}
      /\ caller[g].elem # 0 => celem[caller[g].elem].key = k
  BY <1>1 DEF CcInv, CacheCall
<1>6. ASSUME NEW j \in Keys, items'[j] # 0 PROVE celem[items'[j]].val # caller[g].elem
  <2>1. items'[j] = items[j] /\ j # k /\ items[j] # 0
    BY <1>4, <1>6
  <2>2. items[j] \in 1 .. Stored /\ celem[items[j]].key = j
    BY <2>1, CacheFacts
  <2>3. celem[items[j]].val \in 1 .. Stored /\ celem[celem[items[j]].val].key = j
    BY <2>2, CacheFacts
  <2> QED BY <1>5, <2>1, <2>3
<1>7. caller'[g] = r
  BY <1>1, CacheMoves
<1>8. CacheCall(g, caller[g])'
  BY <1>1, <1>2, <1>5, <1>6, <1>7 DEF CacheCall, CacheOps
<1>9. r.op = "del2" /\ r.elem = caller[g].elem
  OBVIOUS
<1> HIDE DEF r
<1>10. SetsApart' /\ caller' = [h \in Callers |-> caller'[h]] /\ \A h \in Callers : h # g => caller'[h] = caller[h]
  BY <1>1, <1>9, OneMoves
<1>11. limits' \in [entries : EntryLimits, bytes : ByteLimits] /\ sweep' \subseteq Keys /\ limits' = limits
  BY <1>1 DEF CcInv
<1> QED BY <1>1, <1>3, <1>8, <1>10, <1>11, ListStep

\* No call moves.
LEMMA NoCallMoves == ASSUME CcInv, UNCHANGED caller PROVE SetsApart' /\ caller' = [h \in Callers |-> caller'[h]]
BY DEF CcInv, SetsApart

\* The sweep takes the entries of the keys it noted, whatever they are by now.
LEMMA SweepRemoveStep == ASSUME CcInv, SweepRemove PROVE CcInv'
<1> DEFINE gone == {items[k] : k \in {h \in sweep : items[h] # 0}}
           t == RemoveElements(celem, Lru, gone)
<1>1. Install(t) /\ sweep' = {} /\ UNCHANGED <<celem, limits, caller, l2, tierMu, revoked>>
  BY DEF SweepRemove
<1>2. gone \subseteq 1 .. Stored
  <2>1. sweep \subseteq Keys
    BY DEF CcInv
  <2> QED BY <2>1, CacheFacts
<1> HIDE DEF gone
<1>3. Removed(t, gone)
  <2> HIDE DEF t
  <2>1. t = RemoveElements(celem, Lru, gone)
    BY DEF t
  <2> QED BY <1>2, <2>1, Removal
<1> HIDE DEF t
<1>4. SetsApart' /\ caller' = [h \in Callers |-> caller'[h]] /\ \A h \in Callers : caller'[h] = caller[h]
  BY <1>1, NoCallMoves
<1>5. limits' \in [entries : EntryLimits, bytes : ByteLimits] /\ sweep' \subseteq Keys /\ limits' = limits
  BY <1>1 DEF CcInv
<1> QED BY <1>1, <1>3, <1>4, <1>5, ListStep DEF Removed

\* The sweep looks under the read lock.
LEMMA SweepCollectStep == ASSUME CcInv, SweepCollect PROVE CcInv'
<1>1. sweep' \subseteq Keys /\ UNCHANGED <<items, order, celem, usedBytes, limits, caller, l2, tierMu, revoked>>
  BY DEF SweepCollect
<1>2. SetsApart' /\ caller' = [h \in Callers |-> caller'[h]] /\ \A h \in Callers : caller'[h] = caller[h]
  BY <1>1, NoCallMoves
<1>3. Install(Lru) /\ IsLru(Lru) /\ Shrunk(Lru, Lru)
  BY <1>1 DEF Install, IsLru, Lru, Shrunk
<1>4. LruGood(celem, Lru) /\ Size(Lru) <= limits'.entries
  BY <1>1 DEF CcInv, EntriesWithinLimit
<1>5. limits' \in [entries : EntryLimits, bytes : ByteLimits]
  BY <1>1 DEF CcInv
<1> QED BY <1>1, <1>2, <1>3, <1>4, <1>5, ListStep

\* A reload evicts until both new limits hold, one loop after the other.
LEMMA CacheConfigStep ==
    ASSUME CcInv, NEW e \in EntryLimits, NEW b \in ByteLimits, CacheUpdateConfig(e, b)
    PROVE  CcInv'
<1> DEFINE fits == EntriesFit(celem, Lru, e)
           s == EvictUntil(celem, Lru, fits)
           room == BytesFit(celem, s, b)
           t == EvictUntil(celem, s, room)
<1>1. limits' = [entries |-> e, bytes |-> b] /\ Install(t) /\ UNCHANGED <<celem, caller, sweep, l2, tierMu, revoked>>
  BY DEF CacheUpdateConfig
<1>2. celem \in Seq(CacheElem) /\ LruGood(celem, Lru) /\ e \in Nat
  BY CacheFacts, CacheAssumption DEF CcInv
<1>3. fits \subseteq 0 .. Len(Lru.order) /\ (\A m \in fits : Size(After(celem, Lru, m)) <= e) /\ room \subseteq 0 .. Len(s.order)
  BY DEF EntriesFit, BytesFit
<1>4. s = EvictUntil(celem, Lru, fits) /\ t = EvictUntil(celem, s, room)
  OBVIOUS
<1> HIDE DEF fits, room, s, t
<1>5. /\ LruGood(celem, s) /\ Shrunk(Lru, s)
      /\ (\E m \in fits : s = After(celem, Lru, m)) \/ (\A k \in Keys : s.items[k] = 0)
  BY <1>2, <1>3, <1>4, EvictEnds
<1>6. LruGood(celem, t) /\ Shrunk(s, t) /\ t = [items |-> t.items, order |-> t.order, used |-> t.used]
  BY <1>2, <1>3, <1>4, <1>5, EvictEnds
<1>7. Size(s) <= e
  <2>1. ASSUME NEW m \in fits, s = After(celem, Lru, m) PROVE Size(s) <= e
    BY <1>3, <2>1
  <2>2. CASE \A k \in Keys : s.items[k] = 0
    <3>1. Size(s) = 0
      BY <1>5, <2>2, ShrunkSize
    <3> QED BY <1>2, <3>1
  <2> QED BY <1>5, <2>1, <2>2
<1>8. Size(t) <= e /\ Shrunk(Lru, t) /\ IsLru(t)
  <2>1. Size(t) <= Size(s) /\ Size(t) \in Nat /\ Size(s) \in Nat
    BY <1>6, ShrunkSize
  <2>2. Size(t) <= e
    BY <1>2, <1>7, <2>1
  <2>3. Shrunk(Lru, t)
    BY <1>5, <1>6 DEF Shrunk
  <2> QED BY <1>6, <2>2, <2>3 DEF IsLru
<1>9. SetsApart' /\ caller' = [h \in Callers |-> caller'[h]] /\ \A h \in Callers : caller'[h] = caller[h]
  BY <1>1, NoCallMoves
<1>10. limits' \in [entries : EntryLimits, bytes : ByteLimits] /\ sweep' \subseteq Keys /\ limits'.entries = e
  BY <1>1 DEF CcInv
<1> QED BY <1>1, <1>6, <1>8, <1>9, <1>10, ListStep

NewValue(k, val) == val = Stored + 1 \/ (val \in 1 .. Stored /\ celem[val].key = k /\ val \notin revoked)

Stores(k, val) ==
  /\ ValuesStay /\ ValuesGood' /\ LruGood(celem, Lru)' /\ EntriesWithinLimit' /\ Stored' = Stored + 1
  /\ celem'[Stored + 1].key = k
  /\ \A j \in Keys : items'[j] # 0 => (items[j] # 0 /\ celem'[items'[j]].val = celem[items[j]].val) \/ (celem'[items'[j]].val = val)

\* Set of the first tier: the new element holds a value of its key that no
\* Delete has removed.
LEMMA StoresKeeps ==
    ASSUME CcInv, NEW k \in Keys, NEW z \in Sizes, NEW val, NewValue(k, val), SetLru(k, z, val), UNCHANGED <<l2, revoked, limits>>
    PROVE  Stores(k, val)
<1> DEFINE x == [key |-> k, size |-> z, expired |-> FALSE, val |-> val]
<1>1. /\ celem \in Seq(CacheElem) /\ Stored \in Nat /\ Stored <= MaxElems /\ MaxElems \in Nat
      /\ \A n \in 1 .. Stored : celem[n].val \in 1 .. Stored /\ celem[celem[n].val].key = celem[n].key
      /\ l2 \in [Keys -> 0 .. Stored] /\ revoked \subseteq 1 .. Stored
      /\ \A j \in Keys : l2[j] # 0 => l2[j] \in 1 .. Stored /\ celem[l2[j]].key = j /\ l2[j] \notin revoked
      /\ \A j \in Keys : items[j] # 0 => items[j] \in 1 .. Stored /\ celem[items[j]].val \notin revoked
  BY CacheFacts
<1>2. Stored < MaxElems
  BY DEF SetLru
<1>3. val \in Elems /\ val \in 1 .. (Stored + 1) /\ val \notin revoked
  BY <1>1, <1>2 DEF NewValue, Elems
<1>4. LruGood(celem, Lru) /\ limits \in [entries : EntryLimits, bytes : ByteLimits]
  BY DEF CcInv
<1>5. /\ LruGood(celem', Lru') /\ Size(Lru') <= limits.entries
      /\ celem' \in Seq(CacheElem) /\ Stored' = Stored + 1
      /\ celem'[Stored + 1] = x /\ \A n \in 1 .. Stored : celem'[n] = celem[n]
      /\ SetIn(k, Stored + 1)
  <2>1. x = [key |-> k, size |-> z, expired |-> FALSE, val |-> val]
    OBVIOUS
  <2> HIDE DEF x
  <2> QED BY <1>1, <1>3, <1>4, <2>1, SetKeeps
<1>6. celem'[Stored + 1].key = k /\ celem'[Stored + 1].val = val
  BY <1>5
<1> HIDE DEF x
<1>7. ValuesStay
  BY <1>1, <1>2, <1>5 DEF ValuesStay
<1>8. \A j \in Keys : items'[j] # 0 => (items[j] # 0 /\ celem'[items'[j]].val = celem[items[j]].val) \/ (celem'[items'[j]].val = val)
  BY <1>1, <1>5, <1>6 DEF SetIn
<1>9. \A n \in 1 .. Stored' : celem'[n].val \in 1 .. Stored' /\ celem'[celem'[n].val].key = celem'[n].key
  <2> SUFFICES ASSUME NEW n \in 1 .. Stored' PROVE celem'[n].val \in 1 .. Stored' /\ celem'[celem'[n].val].key = celem'[n].key
    OBVIOUS
  <2>1. CASE n = Stored + 1
    <3>1. CASE val = Stored + 1
      BY <1>1, <1>5, <1>6, <2>1, <3>1
    <3>2. CASE val \in 1 .. Stored /\ celem[val].key = k
      <4>1. celem'[val] = celem[val] /\ val \in 1 .. Stored'
        BY <1>1, <1>5, <3>2
      <4> QED BY <1>6, <2>1, <3>2, <4>1
    <3> QED BY <3>1, <3>2 DEF NewValue
  <2>2. CASE n # Stored + 1
    <3>1. n \in 1 .. Stored
      BY <1>1, <1>5, <2>2
    <3>2. celem'[n] = celem[n] /\ celem[n].val \in 1 .. Stored /\ celem[celem[n].val].key = celem[n].key
      BY <1>1, <1>5, <3>1
    <3>3. celem'[celem[n].val] = celem[celem[n].val] /\ celem[n].val \in 1 .. Stored'
      BY <1>1, <1>5, <3>2
    <3> QED BY <3>2, <3>3
  <2> QED BY <2>1, <2>2
<1>10. l2' \in [Keys -> 0 .. Stored'] /\ revoked' \subseteq 1 .. Stored'
  <2>1. 0 .. Stored \subseteq 0 .. (Stored + 1) /\ 1 .. Stored \subseteq 1 .. (Stored + 1)
    BY <1>1
  <2> QED BY <1>1, <1>5, <2>1
<1>11. \A j \in Keys : l2'[j] # 0 => celem'[l2'[j]].key = j /\ l2'[j] \notin revoked'
  BY <1>1, <1>5
<1>12. NoStaleRevival'
  <2>1. \A j \in Keys : items'[j] # 0 => celem'[items'[j]].val \notin revoked'
    BY <1>1, <1>3, <1>8
  <2> QED BY <2>1 DEF NoStaleRevival
<1>13. Stored' <= MaxElems
  BY <1>1, <1>2, <1>5
<1>14. ValuesGood'
  BY <1>5, <1>9, <1>10, <1>11, <1>12, <1>13 DEF ValuesGood
<1>15. EntriesWithinLimit'
  BY <1>5 DEF EntriesWithinLimit, Size
<1> QED BY <1>5, <1>6, <1>7, <1>8, <1>14, <1>15 DEF Stores

\* Set stores in the first tier.
LEMMA SetLocalStep == ASSUME CcInv, NEW g \in Callers, NEW k \in Keys, NEW z \in Sizes, SetLocal(g, k, z) PROVE CcInv'
<1> DEFINE n == Stored + 1
           r == [op |-> "set2", elem |-> n, key |-> k]
<1>1. SetLru(k, z, n) /\ caller' = [caller EXCEPT ![g] = r] /\ UNCHANGED <<limits, sweep, l2, tierMu, revoked>> /\ caller[g].op = "idle"
  BY DEF SetLocal, Go
<1>2. NewValue(k, n)
  BY DEF NewValue
<1>3. Stored \in Nat /\ l2 \in [Keys -> 0 .. Stored] /\ revoked \subseteq 1 .. Stored /\ MaxElems \in Nat
  BY CacheFacts
<1>4. n \in Nat /\ n > Stored /\ n = Stored + 1
  BY <1>3
<1> HIDE DEF n
<1>5. Stores(k, n)
  BY <1>1, <1>2, StoresKeeps
<1>6. caller' = [h \in Callers |-> caller'[h]] /\ caller'[g] = r /\ \A h \in Callers : h # g => caller'[h] = caller[h]
  BY <1>1, CacheMoves
<1>7. \A h \in Callers : caller[h].op \in {"set2", "del1", "del2"} => caller[h].elem # n
  <2>1. \A h \in Callers : caller[h].op \in {"set2", "del1", "del2"} => caller[h].elem \in 0 .. Stored
    BY <1>3 DEF CcInv, CacheCall
  <2> QED BY <1>3, <1>4, <2>1
<1>8. CacheCall(g, caller[g])'
  <2>1. n \in 1 .. Stored' /\ n \in 0 .. MaxElems /\ celem'[n].key = k
    BY <1>3, <1>4, <1>5 DEF Stores, ValuesStay
  <2>2. n \notin revoked /\ \A j \in Keys : l2[j] # n
    BY <1>3, <1>4
  <2> QED BY <1>1, <1>6, <2>1, <2>2 DEF CacheCall, CacheOps
<1>9. ASSUME NEW h \in Callers, h # g PROVE CacheCall(h, caller[h])'
  <2>1. CacheCall(h, caller[h]) /\ ValuesStay /\ caller'[h] = caller[h]
    BY <1>5, <1>6, <1>9 DEF CcInv, Stores
  <2>2. /\ caller[h].op \in {"fill", "set2"} => caller[h].elem \notin revoked'
        /\ caller[h].op \in {"fill", "del1", "del2"} => tierMu' = {h}
        /\ caller[h].op = "set2" => \A j \in Keys : l2'[j] # caller[h].elem
    BY <1>1, <2>1 DEF CacheCall
  <2>3. caller[h].op = "del2" => \A j \in Keys : items'[j] # 0 => celem'[items'[j]].val # caller[h].elem
    BY <1>5, <1>7, <2>1 DEF CacheCall, Stores
  <2> QED BY <2>1, <2>2, <2>3, CallKept
<1>10. SetsApart'
  <2>1. SetsApart /\ r.elem = n /\ r.op = "set2"
    BY DEF CcInv
  <2> HIDE DEF r
  <2> QED BY <1>6, <1>7, <2>1 DEF SetsApart
<1> QED BY <1>1, <1>5, <1>6, <1>8, <1>9, <1>10 DEF CcInv, Stores

\* A refill stores the value read from the second tier.
LEMMA TierFillStep == ASSUME CcInv, NEW g \in Callers, TierFill(g) PROVE CcInv'
<1> DEFINE k == caller[g].key
           n == caller[g].elem
           z == celem[n].size
<1>1. SetLru(k, z, n) /\ caller' = [caller EXCEPT ![g] = Idle] /\ tierMu' = tierMu \ {g} /\ UNCHANGED <<limits, sweep, l2, revoked>> /\ caller[g].op = "fill"
  BY DEF TierFill, Done
<1>2. k \in Keys /\ n \in 1 .. Stored /\ celem[n].key = k /\ n \notin revoked /\ tierMu = {g}
  BY <1>1 DEF CcInv, CacheCall
<1>3. z \in Sizes /\ NewValue(k, n) /\ tierMu' = {}
  <2>1. celem[n] \in CacheElem
    BY <1>2, CacheFacts
  <2> QED BY <1>1, <1>2, <2>1 DEF CacheElem, NewValue
<1> HIDE DEF k, n, z
<1>5. Stores(k, n)
  BY <1>1, <1>2, <1>3, StoresKeeps
<1>4. Idle.op = "idle"
  BY DEF Idle
<1>6. SetsApart' /\ caller' = [h \in Callers |-> caller'[h]] /\ caller'[g] = Idle /\ \A h \in Callers : h # g => caller'[h] = caller[h]
  BY <1>1, <1>4, OneMoves
<1>7. CacheCall(g, caller[g])'
  <2>1. CacheCall(g, Idle)'
    BY IdleCall DEF CacheCall, Idle, CacheOps
  <2> QED BY <1>6, <2>1
<1>8. ASSUME NEW h \in Callers, h # g PROVE CacheCall(h, caller[h])'
  <2>1. CacheCall(h, caller[h]) /\ ValuesStay /\ caller'[h] = caller[h]
    BY <1>5, <1>6, <1>8 DEF CcInv, Stores
  <2>2. caller[h].op \notin {"fill", "del1", "del2"}
    BY <1>2, <1>8, <2>1 DEF CacheCall
  <2>3. /\ caller[h].op \in {"fill", "set2"} => caller[h].elem \notin revoked'
        /\ caller[h].op = "set2" => \A j \in Keys : l2'[j] # caller[h].elem
    BY <1>1, <2>1 DEF CacheCall
  <2> QED BY <2>1, <2>2, <2>3, CallKept
<1> QED BY <1>1, <1>3, <1>5, <1>6, <1>7, <1>8 DEF CcInv, Stores

\* Steps of one call on the second tier that leave the first alone.
LEMMA TierStep ==
    ASSUME CcInv, NEW g \in Callers, caller' = [caller EXCEPT ![g] = Idle], ValuesGood',
           UNCHANGED <<items, order, celem, usedBytes, limits, sweep>>, tierMu' = tierMu \ {g} \/ tierMu' = tierMu,
           \A h \in Callers : h # g /\ caller[h].op \in {"fill", "set2"} => caller[h].elem \notin revoked',
           \A h \in Callers : h # g /\ caller[h].op = "set2" => \A k \in Keys : l2'[k] # caller[h].elem
    PROVE  CcInv'
<1>1. Idle.op = "idle"
  BY DEF Idle
<1>2. SetsApart' /\ caller' = [h \in Callers |-> caller'[h]] /\ caller'[g] = Idle /\ \A h \in Callers : h # g => caller'[h] = caller[h]
  BY <1>1, OneMoves
<1>3. CacheCall(g, caller[g])'
  <2>1. CacheCall(g, Idle)'
    BY IdleCall DEF CacheCall, Idle, CacheOps
  <2> QED BY <1>2, <2>1
<1>4. ValuesStay
  BY CacheFacts DEF ValuesStay, Stored
<1>5. ASSUME NEW h \in Callers, h # g PROVE CacheCall(h, caller[h])'
  <2>1. CacheCall(h, caller[h]) /\ caller'[h] = caller[h]
    BY <1>2, <1>5 DEF CcInv
  <2>2. caller[h].op \in {"fill", "del1", "del2"} => tierMu' = {h}
    <3>1. caller[h].op \in {"fill", "del1", "del2"} => tierMu = {h}
      BY <2>1 DEF CacheCall
    <3> QED BY <1>5, <3>1
  <2>3. caller[h].op = "del2" => \A k \in Keys : items'[k] # 0 => celem'[items'[k]].val # caller[h].elem
    BY <2>1 DEF CacheCall
  <2> QED BY <1>4, <1>5, <2>1, <2>2, <2>3, CallKept
<1>6. Lru' = Lru /\ LruGood(celem, Lru)' /\ EntriesWithinLimit'
  BY DEF CcInv, Lru, LruGood, EntriesWithinLimit, Size
<1>7. tierMu' \in {{}} \cup {{h} : h \in Callers}
  BY DEF CcInv
<1>8. limits' \in [entries : EntryLimits, bytes : ByteLimits] /\ sweep' \subseteq Keys
  BY DEF CcInv
<1> QED BY <1>2, <1>3, <1>5, <1>6, <1>7, <1>8 DEF CcInv

\* Set writes the second tier.
LEMMA SetRedisStep == ASSUME CcInv, NEW g \in Callers, SetRedis(g) PROVE CcInv'
<1> DEFINE k == caller[g].key
           n == caller[g].elem
<1>1. /\ l2' = [l2 EXCEPT ![k] = n] \/ l2' = l2
      /\ caller' = [caller EXCEPT ![g] = Idle] /\ UNCHANGED <<items, order, celem, usedBytes, limits, sweep, tierMu, revoked>>
      /\ caller[g].op = "set2"
  BY DEF SetRedis, Done
<1>2. n \in 1 .. Stored /\ celem[n].key = k /\ n \notin revoked
  BY <1>1 DEF CcInv, CacheCall
<1>3. l2 \in [Keys -> 0 .. Stored] /\ \A j \in Keys : l2[j] # 0 => celem[l2[j]].key = j /\ l2[j] \notin revoked
  BY CacheFacts
<1> HIDE DEF n, k
<1>4. l2' \in [Keys -> 0 .. Stored] /\ \A j \in Keys : l2'[j] = l2[j] \/ (j = k /\ l2'[j] = n)
  <2>1. 1 .. Stored \subseteq 0 .. Stored
    OBVIOUS
  <2> QED BY <1>1, <1>2, <1>3, <2>1
<1>5. ValuesGood'
  <2>1. Stored' = Stored
    BY <1>1 DEF Stored
  <2>2. \A j \in Keys : l2'[j] # 0 => celem[l2'[j]].key = j /\ l2'[j] \notin revoked
    BY <1>2, <1>3, <1>4
  <2>3. NoStaleRevival'
    BY <1>1 DEF CcInv, ValuesGood, NoStaleRevival
  <2> QED BY <1>1, <1>4, <2>1, <2>2, <2>3 DEF CcInv, ValuesGood
<1>6. \A h \in Callers : h # g /\ caller[h].op \in {"fill", "set2"} => caller[h].elem \notin revoked'
  BY <1>1 DEF CcInv, CacheCall
<1>7. ASSUME NEW h \in Callers, h # g, caller[h].op = "set2", NEW j \in Keys PROVE l2'[j] # caller[h].elem
  <2>1. l2[j] # caller[h].elem
    BY <1>7 DEF CcInv, CacheCall
  <2>2. caller[h].elem # n
    BY <1>1, <1>7 DEF CcInv, SetsApart, n
  <2> QED BY <1>4, <2>1, <2>2
<1> QED BY <1>1, <1>5, <1>6, <1>7, TierStep

\* Delete removes the value from the second tier, and has returned.
LEMMA DeleteRedisStep == ASSUME CcInv, NEW g \in Callers, DeleteRedis(g) PROVE CcInv'
<1> DEFINE k == caller[g].key
           n == caller[g].elem
<1>1. /\ l2' = [l2 EXCEPT ![k] = 0] /\ revoked' = revoked \cup ({n} \ {0}) /\ tierMu' = tierMu \ {g}
      /\ caller' = [caller EXCEPT ![g] = Idle] /\ UNCHANGED <<items, order, celem, usedBytes, limits, sweep>>
      /\ caller[g].op = "del2"
  BY DEF DeleteRedis, Done
<1>2. /\ k \in Keys /\ n \in 0 .. Stored /\ (n # 0 => celem[n].key = k) /\ tierMu = {g}
      /\ \A j \in Keys : items[j] # 0 => celem[items[j]].val # n
  BY <1>1 DEF CcInv, CacheCall
<1>3. /\ l2 \in [Keys -> 0 .. Stored] /\ (\A j \in Keys : l2[j] # 0 => celem[l2[j]].key = j /\ l2[j] \notin revoked)
      /\ revoked \subseteq 1 .. Stored /\ Stored \in Nat
      /\ \A j \in Keys : items[j] # 0 => celem[items[j]].val \notin revoked
  BY CacheFacts
<1> HIDE DEF n, k
<1>4. l2' \in [Keys -> 0 .. Stored] /\ \A j \in Keys : l2'[j] = IF j = k THEN 0 ELSE l2[j]
  <2>1. 0 \in 0 .. Stored
    BY <1>3
  <2> QED BY <1>1, <1>3, <2>1
<1>5. revoked' \subseteq 1 .. Stored
  <2>1. {n} \ {0} \subseteq 1 .. Stored
    BY <1>2, <1>3
  <2>2. revoked' = revoked \cup ({n} \ {0}) /\ revoked \subseteq 1 .. Stored
    BY <1>1, <1>3
  <2> QED BY <2>1, <2>2
<1>6. ValuesGood'
  <2>1. Stored' = Stored
    BY <1>1 DEF Stored
  <2>2. \A j \in Keys : l2'[j] # 0 => celem[l2'[j]].key = j /\ l2'[j] \notin revoked'
    BY <1>1, <1>2, <1>3, <1>4
  <2>3. NoStaleRevival'
    BY <1>1, <1>2, <1>3 DEF NoStaleRevival
  <2> QED BY <1>1, <1>4, <1>5, <2>1, <2>2, <2>3 DEF CcInv, ValuesGood
<1>7. \A h \in Callers : h # g /\ caller[h].op \in {"fill", "set2"} => caller[h].elem \notin revoked'
  <2> SUFFICES ASSUME NEW h \in Callers, h # g, caller[h].op \in {"fill", "set2"} PROVE caller[h].elem \notin revoked'
    OBVIOUS
  <2>1. CacheCall(h, caller[h])
    BY DEF CcInv
  <2>2. caller[h].op = "set2" /\ caller[h].elem \notin revoked
    BY <1>2, <2>1 DEF CacheCall
  <2>3. caller[h].elem # n
    BY <1>1, <2>2 DEF CcInv, SetsApart, n
  <2> QED BY <1>1, <2>2, <2>3
<1>8. ASSUME NEW h \in Callers, h # g, caller[h].op = "set2", NEW j \in Keys PROVE l2'[j] # caller[h].elem
  <2>1. l2[j] # caller[h].elem /\ caller[h].elem \in 1 .. Stored
    BY <1>8 DEF CcInv, CacheCall
  <2> QED BY <1>4, <2>1
<1> QED BY <1>1, <1>6, <1>7, <1>8, TierStep

\* The time to live of an entry passes.
LEMMA CacheExpireStep == ASSUME CcInv, NEW n \in Elems, Expire(n) PROVE CcInv'
<1>1. /\ celem \in Seq(CacheElem) /\ Stored \in Nat /\ Stored = Len(celem) /\ Stored <= MaxElems
      /\ items \in [Keys -> 0 .. Stored] /\ \A i \in 1 .. Stored : celem[i] \in CacheElem
      /\ \A i \in 1 .. Stored : celem[i].val \in 1 .. Stored /\ celem[celem[i].val].key = celem[i].key
      /\ \A k \in Keys : items[k] # 0 => items[k] \in 1 .. Stored
      /\ \A k \in Keys : l2[k] # 0 => l2[k] \in 1 .. Stored /\ celem[l2[k]].key = k /\ l2[k] \notin revoked
      /\ l2 \in [Keys -> 0 .. Stored] /\ revoked \subseteq 1 .. Stored
  BY CacheFacts
<1> DEFINE x == [celem[n] EXCEPT !.expired = TRUE]
<1>2. n \in 1 .. Stored /\ celem' = [celem EXCEPT ![n] = x] /\ UNCHANGED <<items, order, usedBytes, limits, caller, sweep, l2, tierMu, revoked>>
  BY <1>1 DEF Expire, Elems
<1>3. x \in CacheElem /\ x.key = celem[n].key /\ x.val = celem[n].val /\ x.size = celem[n].size
  <2> DEFINE e == celem[n]
  <2>1. e \in CacheElem
    BY <1>1, <1>2
  <2>2. x = [e EXCEPT !.expired = TRUE]
    OBVIOUS
  <2> HIDE DEF e, x
  <2>3. e = [key |-> e.key, size |-> e.size, expired |-> e.expired, val |-> e.val] /\ e.key \in Keys /\ e.size \in Sizes /\ e.val \in Elems
    BY <2>1 DEF CacheElem
  <2>4. x = [key |-> e.key, size |-> e.size, expired |-> TRUE, val |-> e.val]
    BY <2>2, <2>3
  <2>5. x \in CacheElem
    BY <2>3, <2>4, Zenon DEF CacheElem
  <2>6. x.key = e.key /\ x.val = e.val /\ x.size = e.size
    BY <2>4
  <2> QED BY <2>5, <2>6 DEF e
<1> HIDE DEF x
<1>4. celem' \in Seq(CacheElem) /\ Len(celem') = Stored /\ \A i \in 1 .. Stored : celem'[i] = IF i = n THEN x ELSE celem[i]
  BY <1>1, <1>2, <1>3, ExceptSeq
<1>5. \A i \in 1 .. Stored : celem'[i].key = celem[i].key /\ celem'[i].val = celem[i].val /\ celem'[i].size = celem[i].size
  BY <1>3, <1>4
<1>6. Stored' = Stored
  BY <1>4 DEF Stored
<1>7. ValuesStay
  <2>1. Stored' \in Nat /\ Stored <= Stored' /\ Stored' <= MaxElems
    BY <1>1, <1>6
  <2> QED BY <1>1, <1>5, <2>1 DEF ValuesStay
<1>8. ValuesGood'
  <2>1. NoStaleRevival'
    BY <1>1, <1>2, <1>5 DEF CcInv, ValuesGood, NoStaleRevival
  <2>2. \A i \in 1 .. Stored : celem'[i].val \in 1 .. Stored /\ celem'[celem'[i].val].key = celem'[i].key
    BY <1>1, <1>5
  <2>3. \A k \in Keys : l2'[k] # 0 => celem'[l2'[k]].key = k /\ l2'[k] \notin revoked'
    BY <1>1, <1>2, <1>5
  <2> QED BY <1>1, <1>2, <1>4, <1>6, <2>1, <2>2, <2>3 DEF ValuesGood
<1>9. Lru' = Lru /\ LruGood(celem, Lru)' /\ EntriesWithinLimit'
  <2>1. Lru' = Lru /\ Lru.items = items /\ Lru.order = order /\ Lru.used = usedBytes
    BY <1>2 DEF Lru
  <2>2. EntriesWithinLimit'
    BY <1>2 DEF CcInv, EntriesWithinLimit, Lru, Size
  <2>3. SizeOf(celem', ToSet(order)) = SizeOf(celem, ToSet(order))
    <3> DEFINE N == Stored
               f == [i \in 1 .. N |-> IF i \in ToSet(order) THEN celem[i].size ELSE 0]
               h == [i \in 1 .. N |-> IF i \in ToSet(order) THEN celem'[i].size ELSE 0]
    <3>1. SizeOf(celem, ToSet(order)) = SumUpTo(f, N) /\ SizeOf(celem', ToSet(order)) = SumUpTo(h, N)
      BY <1>1, <1>4 DEF SizeOf
    <3>2. f = h
      BY <1>5
    <3> HIDE DEF f, h, N
    <3> QED BY <3>1, <3>2
  <2>4. LruGood(celem, Lru)
    BY DEF CcInv
  <2>5. LruGood(celem', Lru)
    <3>1. \A k \in Keys : items[k] # 0 => items[k] \in ToSet(order) /\ celem'[items[k]].key = k
      BY <1>1, <1>5, <2>1, <2>4 DEF LruGood
    <3> QED BY <1>1, <1>4, <2>1, <2>3, <2>4, <3>1 DEF LruGood
  <2> QED BY <2>1, <2>2, <2>5
<1>10. \A h \in Callers : CacheCall(h, caller[h])'
  <2> TAKE h \in Callers
  <2>1. CacheCall(h, caller[h]) /\ caller'[h] = caller[h]
    BY <1>2 DEF CcInv
  <2>2. /\ caller[h].op \in {"fill", "set2"} => caller[h].elem \notin revoked'
        /\ caller[h].op \in {"fill", "del1", "del2"} => tierMu' = {h}
        /\ caller[h].op = "set2" => \A k \in Keys : l2'[k] # caller[h].elem
        /\ caller[h].op = "del2" => \A k \in Keys : items'[k] # 0 => celem'[items'[k]].val # caller[h].elem
    BY <1>1, <1>2, <1>5, <2>1 DEF CacheCall
  <2> QED BY <1>7, <2>1, <2>2, CallKept
<1>11. SetsApart' /\ caller' = [h \in Callers |-> caller'[h]]
  BY <1>2, NoCallMoves
<1>12. limits' \in [entries : EntryLimits, bytes : ByteLimits] /\ sweep' \subseteq Keys /\ tierMu' \in {{}} \cup {{h} : h \in Callers}
  BY <1>2 DEF CcInv
<1> QED BY <1>8, <1>9, <1>10, <1>11, <1>12 DEF CcInv

\* The invariant holds at the start.
LEMMA CcInvInit == ASSUME CacheInit PROVE CcInv
<1>1. celem = <<>> /\ celem \in Seq(CacheElem) /\ Len(celem) = 0 /\ Stored = 0 /\ order = <<>> /\ order \in Seq(1 .. 0) /\ ToSet(order) = {} /\ Distinct(order)
  BY EmptySequence DEF CacheInit, Stored
<1>2. \A k \in Keys : items[k] = 0 /\ l2[k] = 0
  BY DEF CacheInit
<1>3. items \in [Keys -> 0 .. 0] /\ l2 \in [Keys -> 0 .. 0]
  BY DEF CacheInit
<1>4. ValuesGood
  BY <1>1, <1>2, <1>3, CacheAssumption DEF CacheInit, ValuesGood, NoStaleRevival
<1>5. LruGood(celem, Lru)
  <2>1. SizeOf(celem, ToSet(order)) \in Nat /\ usedBytes = 0
    BY <1>1, SizesAdd DEF CacheInit
  <2>2. usedBytes \in Int /\ usedBytes <= SizeOf(celem, ToSet(order))
    BY <2>1
  <2> QED BY <1>1, <1>2, <1>3, <2>2 DEF LruGood, Lru
<1>6. EntriesWithinLimit
  <2>1. \A k \in Keys : Lru.items[k] = 0
    BY <1>2 DEF Lru
  <2>2. Shrunk(Lru, Lru)
    BY DEF Shrunk
  <2>3. Size(Lru) = 0
    BY <2>1, <2>2, ShrunkSize
  <2>4. limits.entries \in Nat
    BY CacheAssumption DEF CacheInit
  <2> QED BY <2>3, <2>4 DEF EntriesWithinLimit
<1>7. caller = [g \in Callers |-> caller[g]] /\ \A g \in Callers : caller[g] = Idle
  BY DEF CacheInit
<1>8. \A g \in Callers : CacheCall(g, caller[g])
  BY <1>7, IdleCall
<1>9. SetsApart
  BY <1>7 DEF SetsApart, Idle
<1> QED BY <1>4, <1>5, <1>6, <1>7, <1>8, <1>9 DEF CacheInit, CcInv

\* Every step of the cache keeps the invariant.
LEMMA CcInvStep == ASSUME CcInv, CacheNext PROVE CcInv'
BY GetLookupStep, GetHitStep, GetExpiredStep, TierReadStep, TierFillStep, SetLocalStep, SetRedisStep, DeleteLockStep,
   DeleteLocalStep, DeleteRedisStep, CacheExpireStep, SweepCollectStep, SweepRemoveStep, CacheConfigStep DEF CacheNext

\* A step that leaves the cache alone.
LEMMA CcInvStutter == ASSUME CcInv, UNCHANGED cacheVars PROVE CcInv'
<1>1. ValuesGood' /\ LruGood(celem, Lru)' /\ EntriesWithinLimit'
  BY DEF cacheVars, CcInv, ValuesGood, NoStaleRevival, Stored, LruGood, Lru, EntriesWithinLimit, Size
<1>2. \A g \in Callers : CacheCall(g, caller[g])'
  BY DEF cacheVars, CcInv, CacheCall, Stored
<1>3. SetsApart'
  BY DEF cacheVars, CcInv, SetsApart
<1> QED BY <1>1, <1>2, <1>3 DEF CcInv, cacheVars

\* The invariant says what the cache promises.
LEMMA CcInvSound == ASSUME CcInv PROVE CacheSound
<1>1. /\ celem \in Seq(CacheElem) /\ Stored \in Nat /\ Stored = Len(celem) /\ Stored <= MaxElems /\ MaxElems \in Nat
      /\ items \in [Keys -> 0 .. Stored] /\ \A n \in 1 .. Stored : celem[n] \in CacheElem
      /\ l2 \in [Keys -> 0 .. Stored] /\ revoked \subseteq 1 .. Stored
  BY CacheFacts
<1>2. 0 .. Stored \subseteq 0 .. MaxElems /\ 1 .. Stored \subseteq Elems
  BY <1>1 DEF Elems
<1>3. Lru.items = items /\ Lru.order = order /\ Lru.used = usedBytes
  BY DEF Lru
<1>4. /\ order \in Seq(1 .. Stored) /\ usedBytes \in Int
      /\ \A k \in Keys : items[k] # 0 => items[k] \in ToSet(order) /\ celem[items[k]].key = k
      /\ usedBytes <= SizeOf(celem, ToSet(order))
  BY <1>1, <1>3 DEF CcInv, LruGood
<1>5. order \in Seq(Elems)
  <2> DEFINE T == 1 .. Stored
  <2>1. order \in Seq(T) /\ T \subseteq Elems
    BY <1>2, <1>4
  <2> HIDE DEF T
  <2> QED BY <2>1
<1>6. Cardinality(tierMu) <= 1 /\ tierMu \subseteq Callers
  <2>1. CASE tierMu = {}
    BY <2>1, FS_EmptySet
  <2>2. ASSUME NEW g \in Callers, tierMu = {g} PROVE Cardinality(tierMu) <= 1 /\ tierMu \subseteq Callers
    BY <2>2, FS_Singleton
  <2> QED BY <2>1, <2>2 DEF CcInv
<1>7. caller \in [Callers -> [op : {"idle", "hit", "drop", "l2", "fill", "set2", "del1", "del2"}, elem : 0 .. MaxElems, key : Keys]]
  BY DEF CcInv, CacheCall, CacheOps
<1>8. items \in [Keys -> 0 .. MaxElems] /\ l2 \in [Keys -> 0 .. MaxElems] /\ revoked \subseteq Elems
  BY <1>1, <1>2
<1>9. CacheTypeOK
  BY <1>1, <1>4, <1>5, <1>6, <1>7, <1>8 DEF CcInv, CacheTypeOK, CacheElem
<1> QED BY <1>4, <1>9 DEF CcInv, ValuesGood, CacheSound, ItemsListed, NeverOverCounts, ListBytes

-----------------------------------------------------------------------------
(* The stores                                                                *)

\* The request log.  In memory: the ring and how its slots are numbered.
RingWell ==
  /\ logs.ring = [i \in 0 .. RingSize - 1 |-> logs.ring[i]] /\ logs.head \in 0 .. RingSize - 1
  /\ logs.count = (IF written < RingSize THEN written ELSE RingSize)
  /\ logs.count < RingSize => logs.head = 0
  /\ \A i \in 1 .. logs.count : logs.ring[(logs.head + i - 1) % RingSize] = written - logs.count + i
LogInv ==
  /\ written \in Nat
  /\ logs = [ring |-> logs.ring, head |-> logs.head, count |-> logs.count, rows |-> logs.rows, index |-> logs.index]
  /\ backend = "memory" => RingWell
  /\ IsFiniteSet(logs.index)

\* A batch and its workers.
BatchWell(b) == b \in Batches /\ (b.status = "completed" => b.ok + b.failed = b.total)
BatchInv ==
  /\ backend \in {"redis", "memory"}
  /\ batch = Nil \/ BatchWell(batch)
  /\ bworker = [w \in StCalls |-> bworker[w]]
  /\ \A w \in StCalls : bworker[w] = Nil \/ bworker[w] \in BatchWorker
  /\ runs \in Nat
  /\ backend = "memory" =>
       /\ \A v, w \in StCalls : bworker[v] # Nil /\ bworker[w] # Nil => v = w
       /\ \A w \in StCalls : bworker[w] # Nil => /\ batch # Nil
                                                 /\ bworker[w].pc = "picked" => batch.status = "pending"
                                                 /\ bworker[w].pc = "running" => batch.status = "running"
       /\ batch # Nil /\ batch.status = "pending" => runs = 0
       /\ runs <= 1

\* What the database holds: a table for every prefix.
DbShape(d) ==
  /\ d = [key |-> d.key, hash |-> d.hash, used |-> d.used, team |-> d.team, bound |-> d.bound, org |-> d.org,
          tused |-> d.tused, tcost |-> d.tcost, tday |-> d.tday]
  /\ d.key = [n \in StKeys |-> d.key[n]] /\ d.used = [n \in StKeys |-> d.used[n]]
  /\ d.hash = [h \in Hashes |-> d.hash[h]] /\ d.bound = [h \in Hashes |-> d.bound[h]] /\ d.org = [o \in StOrgs |-> d.org[o]]
  /\ d.team = [t \in StTeams |-> d.team[t]] /\ d.tused = [t \in StTeams |-> d.tused[t]]
  /\ d.tcost = [t \in StTeams |-> d.tcost[t]] /\ d.tday = [t \in StTeams |-> d.tday[t]]

\* A key, with the hashes that are its own: m are those generated so far, and
\* own[h] is whose a hash of them is.
KeyRec == [hash : Hashes, prev : Hashes \cup {Nil}, status : {"active", "revoked", "disabled"}, tenant : StTeams \cup {Nil}]
Owned(own, m, n, k) ==
  /\ k \in KeyRec /\ k.hash \in m /\ own[k.hash] = n
  /\ k.prev # Nil => k.prev \in m /\ own[k.prev] = n

\* The commands a call may have to send, over the counters u; seen is what
\* had been charged when the call began.
SetsKey(own, m, x) == x.how = "set" /\ x.f = "key" /\ x.at \in StKeys /\ Owned(own, m, x.at, x.val)
SetsHash(own, m, x) == x.how = "set" /\ x.f = "hash" /\ x.at \in m /\ x.val = own[x.at] /\ x.val \in StKeys
Binds(x) == x.how = "set" /\ x.f = "bound" /\ x.at \in Hashes /\ x.val \in StTeams
Seeds(x) == x.how = "setnx" /\ x.f = "used" /\ x.at \in StKeys /\ x.val = 0
Looks(x) == x.how = "get"
ChargesKey(x) == x.how = "incr" /\ x.f = "used" /\ x.at \in StKeys /\ x.val = 1
ChargesTeam(x) == x.how = "eval" /\ x.at \in StTeams /\ x.val = 1
Gates(u, x, seen) == x.how = "gate" /\ x.at \in StKeys /\ seen <= Counter(u[x.at])
Known(own, m, u, x, seen) ==
  \/ SetsKey(own, m, x) \/ SetsHash(own, m, x) \/ Binds(x) \/ Seeds(x) \/ Looks(x) \/ ChargesKey(x) \/ ChargesTeam(x)
  \/ Gates(u, x, seen)

\* A key is written before its hash, and a lookup before what it decides on.
Hashing(x, n, h) == x.how = "set" /\ x.f = "hash" /\ x.at = h /\ x.val = n
Leads(x, y) ==
  /\ x.how = "set" /\ x.f = "key" => Hashing(y, x.at, x.val.hash)
  /\ x.how = "get" => y.how \in {"incr", "eval"}
Alone(x) == x.how # "get" /\ (x.how = "set" => x.f # "key")
PlanWell(own, m, u, s, seen) ==
  /\ seen \in Nat /\ \E S : s \in Seq(S)
  /\ \A i \in 1 .. Len(s) : Known(own, m, u, s[i], seen) /\ (Alone(s[i]) \/ (i + 1 \in 1 .. Len(s) /\ Leads(s[i], s[i + 1])))

CallsShaped(o) == o = [c \in StCalls |-> o[c]] /\ \A c \in StCalls : o[c] = [todo |-> o[c].todo, seen |-> o[c].seen]
Pending(o, n, h) == \E c \in StCalls : \E i \in 1 .. Len(o[c].todo) : Hashing(o[c].todo[i], n, h)
KeysHold(own, m, d, o) ==
  /\ m \subseteq Hashes /\ CallsShaped(o)
  /\ \A c \in StCalls : PlanWell(own, m, d.used, o[c].todo, o[c].seen)
  /\ \A n \in StKeys : d.key[n] = Nil \/ Owned(own, m, n, d.key[n])
Resolves(d, o) == \A n \in StKeys : d.key[n] # Nil => d.hash[d.key[n].hash] = n \/ Pending(o, n, d.key[n].hash)
KeysWell(own, m, d, o, z) == KeysHold(own, m, d, o) /\ (z = 0 => Resolves(d, o))

\* The counters of keys u and of teams tu, tc, td, against the charges a that
\* were acknowledged.
KeyCounts(u, a) == a \in [StKeys -> Nat] /\ \A n \in StKeys : u[n] \in Nat \cup {Nil} /\ a[n] <= Counter(u[n])
TeamCount(bk, tu, tc, td, a) ==
  /\ a \in Nat /\ tu \in Nat /\ tc = tu /\ td \in [1 .. StDays -> Nat] /\ a <= tu
  /\ bk = "redis" => SumUpTo(td, StDays) = tu
AcksShaped(a) == a = [key |-> a.key, team |-> a.team]
TeamsCounted(bk, d, a) == a = [t \in StTeams |-> a[t]] /\ \A t \in StTeams : TeamCount(bk, d.tused[t], d.tcost[t], d.tday[t], a[t])
Counted(bk, d, a) == AcksShaped(a) /\ KeyCounts(d.used, a.key) /\ TeamsCounted(bk, d, a.team)
ChargeInv == Counted(backend, db, acks) /\ late = FALSE /\ today \in 1 .. StDays

\* In memory bindings and teams lead somewhere.
TeamLives(d, t) == d.team[t] = Nil \/ (d.team[t] \in Team /\ (d.team[t].had = FALSE \/ d.org[d.team[t].org] # Nil))
RefsWell(d) ==
  /\ \A h \in Hashes : d.bound[h] = Nil \/ (d.bound[h] \in StTeams /\ d.team[d.bound[h]] # Nil)
  /\ \A t \in StTeams : TeamLives(d, t)
RefInv == backend = "memory" => RefsWell(db) /\ \A c \in StCalls : op[c].todo = <<>>
KeyInv == backend \in {"redis", "memory"} /\ DbShape(db) /\ ChargeInv /\ RefInv /\ faults \in Nat
          /\ \E own : KeysWell(own, minted, db, op, faults)

StInv == LogInv /\ BatchInv /\ KeyInv

\* A remainder that is one subtraction away.
Wrapped(x, R) == IF x < R THEN x ELSE x - R

\* The remainder of a number below twice the modulus.
LEMMA WrapAround ==
    ASSUME NEW R \in Nat \ {0}, NEW x \in Nat, x < 2 * R
    PROVE  x % R = Wrapped(x, R)
BY DEF Wrapped

\* The slot of the ring that is i behind a, and the one after a.
LEMMA WrapSum ==
    ASSUME NEW R \in Nat \ {0}, NEW a \in 0 .. R - 1, NEW i \in 1 .. R
    PROVE  (a + i - 1) % R = Wrapped(a + i - 1, R) /\ (a + 1) % R = Wrapped(a + 1, R)
<1>1. PICK x, y \in Nat : x = a + i - 1 /\ y = a + 1 /\ x < 2 * R /\ y < 2 * R
  OBVIOUS
<1>2. x % R = Wrapped(x, R) /\ y % R = Wrapped(y, R)
  BY <1>1, WrapAround
<1> QED BY <1>1, <1>2

\* What a step of each area leaves alone.
StNext == (\E c \in StCalls : CallStep(c)) \/ TeamsStep \/ LogStep \/ BatchStep \/ UNCHANGED storeVars

\* Calls, teams, logs and batches change variables of their own.
LEMMA AreasApart ==
    /\ \A c \in StCalls : CallStep(c) => UNCHANGED <<backend, logs, written, batch, bworker, runs>>
    /\ TeamsStep => UNCHANGED <<backend, op, minted, faults, logs, written, batch, bworker, runs>>
    /\ LogStep => UNCHANGED <<backend, db, op, minted, acks, late, faults, today, batch, bworker, runs>>
    /\ BatchStep => UNCHANGED <<backend, db, op, minted, acks, late, today, logs, written>>
<1>1. ASSUME NEW c \in StCalls, CallStep(c) PROVE UNCHANGED <<backend, logs, written, batch, bworker, runs>>
  BY <1>1 DEF CallStep, Command, CommandFails, GatewayDies, handleKeys, handleUserKeyCreate, handleUserKeyRotate,
              handleUserKeyRevoke, handleKeyByID, chargeQuota, BudgetGate, OnlyOp, areaLogs, areaBatch
<1>2. ASSUME TeamsStep PROVE UNCHANGED <<backend, op, minted, faults, logs, written, batch, bworker, runs>>
  BY <1>2 DEF TeamsStep, handleAdminTeams, handleAdminTeamsCRUD, handleAdminOrgs, handleAdminOrgsCRUD, MemoryBind, AddCost, Midnight,
              CreateTeam, RedisSetTeam, UpdateTeam, DeleteTeam, RedisDeleteTeam, CreateOrg, RedisCreateOrg, DeleteOrg, RedisDeleteOrg,
              TeamStep, areaLogs, areaBatch
<1>3. LogStep => UNCHANGED <<backend, db, op, minted, acks, late, faults, today, batch, bworker, runs>>
  BY DEF LogStep, RingAppend, AppendLog, RowExpires, keyVarsSt, areaBatch
<1>4. BatchStep => UNCHANGED <<backend, db, op, minted, acks, late, today, logs, written>>
  BY DEF BatchStep, handleBatches, handleBatchCRUD, processPendingBatches, MarkRunning, processBatchEnds, WorkerDies,
         executeBatchRequest, keyVarsSt, areaLogs
<1> QED BY <1>1, <1>2, <1>3, <1>4

\* A row more in the ring.
LEMMA RingStep == ASSUME LogInv, backend = "memory", RingAppend PROVE RingWell'
<1> USE StoresAssumption
<1>0. PICK R \in Nat \ {0}, w \in Nat : R = RingSize /\ w = written
  BY DEF LogInv
<1>1. RingWell /\ backend' = backend
  BY DEF LogInv, RingAppend
<1>2. logs.count = (IF w < R THEN w ELSE R) /\ logs.head \in 0 .. R - 1 /\ logs.ring = [i \in 0 .. R - 1 |-> logs.ring[i]]
  BY <1>0, <1>1 DEF RingWell
<1>3. PICK h \in 0 .. R - 1 : h = logs.head
  BY <1>2
<1>4. ASSUME NEW i \in 1 .. logs.count PROVE logs.ring[Wrapped(h + i - 1, R)] = w - logs.count + i
  <2>1. i \in 1 .. R
    BY <1>2
  <2>2. (h + i - 1) % R = Wrapped(h + i - 1, R)
    BY <2>1, WrapSum
  <2> QED BY <2>2, <1>0, <1>1, <1>3 DEF RingWell
<1>5. SUFFICES /\ written' = w + 1 /\ logs'.ring = [i \in 0 .. R - 1 |-> logs'.ring[i]] /\ logs'.head \in 0 .. R - 1
               /\ logs'.count = (IF w + 1 < R THEN w + 1 ELSE R)
               /\ logs'.count < R => logs'.head = 0
               /\ \A i \in 1 .. logs'.count : logs'.ring[Wrapped(logs'.head + i - 1, R)] = (w + 1) - logs'.count + i
  <2>1. ASSUME NEW i \in 1 .. logs'.count PROVE (logs'.head + i - 1) % R = Wrapped(logs'.head + i - 1, R)
    <3>1. i \in 1 .. R
      BY <1>5
    <3> QED BY <3>1, <1>5, WrapSum
  <2> QED BY <2>1, <1>0, <1>5 DEF RingWell
<1>6. CASE logs.count < RingSize
  <2>1. logs.count = w /\ w < R /\ h = 0 /\ w \in 0 .. R - 1
    BY <1>0, <1>1, <1>2, <1>3, <1>6 DEF RingWell
  <2>2. logs' = [logs EXCEPT !.ring[logs.count] = written + 1, !.count = @ + 1] /\ written' = w + 1
    BY <1>0, <1>6 DEF RingAppend
  <2>3. logs'.head = 0 /\ logs'.count = w + 1 /\ logs'.ring = [logs.ring EXCEPT ![w] = w + 1]
    BY <2>1, <2>2, <1>0, <1>3 DEF LogInv
  <2>4. \A i \in 1 .. w : logs.ring[i - 1] = i
    BY <1>4, <2>1 DEF Wrapped
  <2>5. ASSUME NEW i \in 1 .. (w + 1) PROVE logs'.ring[i - 1] = i
    BY <2>1, <2>3, <2>4, <1>2
  <2>6. logs'.ring = [i \in 0 .. R - 1 |-> logs'.ring[i]]
    BY <2>3, <1>2
  <2>7. \A i \in 1 .. logs'.count : logs'.ring[Wrapped(logs'.head + i - 1, R)] = (w + 1) - logs'.count + i
    BY <2>1, <2>3, <2>5 DEF Wrapped
  <2> QED BY <2>1, <2>2, <2>3, <2>6, <2>7
<1>7. CASE ~(logs.count < RingSize)
  <2>1. logs.count = R /\ R <= w
    BY <1>0, <1>2, <1>7
  <2>2. logs' = [logs EXCEPT !.ring[logs.head] = written + 1, !.head = (@ + 1) % RingSize] /\ written' = w + 1
    BY <1>0, <1>7 DEF RingAppend
  <2>3. logs'.head = (h + 1) % R /\ logs'.count = R /\ logs'.ring = [logs.ring EXCEPT ![h] = w + 1]
    BY <2>1, <2>2, <1>0, <1>3 DEF LogInv
  <2>4. PICK k \in 0 .. R - 1 : k = logs'.head /\ k = IF h + 1 < R THEN h + 1 ELSE 0
    <3>1. PICK one \in 1 .. R : one = 1
      OBVIOUS
    <3>2. (h + 1) % R = Wrapped(h + 1, R)
      BY <3>1, WrapSum
    <3> QED BY <3>2, <2>3 DEF Wrapped
  <2>5. ASSUME NEW i \in 1 .. R PROVE logs'.ring[Wrapped(k + i - 1, R)] = (w + 1) - R + i
    <3>1. CASE i = R
      <4>1. Wrapped(k + i - 1, R) = h
        BY <3>1, <2>4 DEF Wrapped
      <4> QED BY <4>1, <3>1, <2>3, <1>2
    <3>2. CASE i < R
      <4>1. PICK j \in 1 .. R : j = i + 1
        BY <3>2
      <4>2. PICK x \in 0 .. R - 1 : x = Wrapped(h + j - 1, R)
        <5>1. Wrapped(h + j - 1, R) \in 0 .. R - 1
          BY DEF Wrapped
        <5> QED BY <5>1
      <4>3. Wrapped(k + i - 1, R) = x /\ x # h
        BY <4>1, <4>2, <3>2, <2>4 DEF Wrapped
      <4>4. logs.ring[x] = w - R + j
        BY <1>4, <2>1, <4>2
      <4>5. logs'.ring[x] = logs.ring[x]
        BY <4>3, <2>3, <1>2
      <4> QED BY <4>1, <4>3, <4>4, <4>5
    <3> QED BY <3>1, <3>2
  <2>6. logs'.ring = [i \in 0 .. R - 1 |-> logs'.ring[i]]
    BY <2>3, <1>2
  <2>7. logs'.count = (IF w + 1 < R THEN w + 1 ELSE R) /\ ~(logs'.count < R)
    BY <2>1, <2>3
  <2>8. \A i \in 1 .. logs'.count : logs'.ring[Wrapped(logs'.head + i - 1, R)] = (w + 1) - logs'.count + i
    BY <2>3, <2>4, <2>5
  <2> QED BY <2>2, <2>4, <2>6, <2>7, <2>8
<1> QED BY <1>6, <1>7

\* The log under any step.
LEMMA LogInvInit == ASSUME StoresInit PROVE LogInv
<1>1. logs = [ring |-> [i \in 0 .. RingSize - 1 |-> 0], head |-> 0, count |-> 0, rows |-> {}, index |-> {}] /\ written = 0
  BY DEF StoresInit
<1>2. RingWell
  BY <1>1, StoresAssumption DEF RingWell
<1> QED BY <1>1, <1>2, FS_EmptySet DEF LogInv

\* Every step of the stores keeps the invariant of the log.
LEMMA LogInvStep == ASSUME LogInv, StNext PROVE LogInv'
<1>1. CASE UNCHANGED <<backend, logs, written>>
  BY <1>1 DEF LogInv, RingWell
<1>2. CASE RingAppend
  <2>1. RingWell'
    BY <1>2, RingStep DEF RingAppend
  <2>2. PICK r, h, n : logs' = [ring |-> r, head |-> h, count |-> n, rows |-> logs.rows, index |-> logs.index]
    <3>1. CASE logs.count < RingSize
      BY <3>1, <1>2 DEF RingAppend, LogInv
    <3>2. CASE ~(logs.count < RingSize)
      BY <3>2, <1>2 DEF RingAppend, LogInv
    <3> QED BY <3>1, <3>2
  <2>3. written' \in Nat
    BY <1>2 DEF RingAppend, LogInv
  <2> QED BY <2>1, <2>2, <2>3 DEF LogInv
<1>3. CASE AppendLog
  <2>1. backend' = "redis" /\ written' \in Nat
    BY <1>3 DEF AppendLog, LogInv
  <2>2. PICK r, x : logs' = [ring |-> logs.ring, head |-> logs.head, count |-> logs.count, rows |-> r, index |-> x]
                    /\ x \in {logs.index, logs.index \cup {written + 1}}
    BY <1>3 DEF AppendLog, LogInv
  <2>3. IsFiniteSet(x)
    BY <2>2, FS_AddElement DEF LogInv
  <2> QED BY <2>1, <2>2, <2>3 DEF LogInv
<1>4. CASE RowExpires
  <2>1. backend' = "redis" /\ written' \in Nat
    BY <1>4 DEF RowExpires, LogInv
  <2>2. PICK r : logs' = [ring |-> logs.ring, head |-> logs.head, count |-> logs.count, rows |-> r, index |-> logs.index]
    BY <1>4 DEF RowExpires, LogInv
  <2> QED BY <2>1, <2>2 DEF LogInv
<1> QED BY <1>1, <1>2, <1>3, <1>4, AreasApart DEF StNext, LogStep, storeVars

\* A page of the newest rows.
PageLen(N, p, size) == IF p * size < N THEN size ELSE IF (p - 1) * size < N THEN N - (p - 1) * size ELSE 0
PageCut(w, N, p, size, q) ==
  /\ w \in Nat /\ N \in Nat /\ p \in Nat \ {0} /\ size \in Nat \ {0}
  /\ \E s : /\ \A i \in 1 .. N : s[i] = w + 1 - i
           /\ q = SubSeq(s, (p - 1) * size + 1, IF p * size < N THEN p * size ELSE N)
PageRows(w, N, p, size, q) == Len(q) = PageLen(N, p, size) /\ q = [i \in 1 .. Len(q) |-> w + 1 - i - (p - 1) * size]

\* A page that is cut from the newest rows holds the rows of its place.
LEMMA PageIs == ASSUME NEW w, NEW N, NEW p, NEW size, NEW q, PageCut(w, N, p, size, q) PROVE PageRows(w, N, p, size, q)
<1> USE DEF PageCut, PageRows
<1>0. PICK s : /\ \A i \in 1 .. N : s[i] = w + 1 - i
               /\ q = SubSeq(s, (p - 1) * size + 1, IF p * size < N THEN p * size ELSE N)
  OBVIOUS
<1>9. w \in Nat /\ N \in Nat /\ p \in Nat \ {0} /\ size \in Nat \ {0}
  OBVIOUS
<1> HIDE DEF PageCut, PageRows
<1> USE <1>0, <1>9
<1>1. PICK a \in Nat, b \in Nat : a = (p - 1) * size /\ b = p * size /\ b = a + size
  <2>1. (p - 1) * size \in Nat /\ p * size \in Nat /\ p * size = (p - 1) * size + size
    OBVIOUS
  <2> QED BY <2>1
<1>2. PICK m \in Int, n \in Int : m = a + 1 /\ n = IF b < N THEN b ELSE N
  OBVIOUS
<1>3. q = SubSeq(s, m, n) /\ n <= N
  BY <1>1, <1>2
<1>4. \A i \in m .. n : s[i] \in Int
  BY <1>2, <1>3
<1>5. q \in Seq(Int) /\ Len(q) = (IF m <= n THEN n - m + 1 ELSE 0) /\ \A i \in 1 .. n - m + 1 : q[i] = s[m + i - 1]
  <2>1. /\ SubSeq(s, m, n) \in Seq(Int) /\ Len(SubSeq(s, m, n)) = (IF m <= n THEN n - m + 1 ELSE 0)
        /\ \A i \in 1 .. n - m + 1 : SubSeq(s, m, n)[i] = s[m + i - 1]
    BY <1>4, SubSeqProperties
  <2> QED BY <2>1, <1>3
<1>6. Len(q) = PageLen(N, p, size)
  BY <1>1, <1>2, <1>5 DEF PageLen
<1>7. ASSUME NEW i \in 1 .. Len(q) PROVE q[i] = w + 1 - i - a
  <2>1. m + i - 1 \in 1 .. N /\ i \in 1 .. n - m + 1
    BY <1>2, <1>3, <1>5
  <2> QED BY <2>1, <1>2, <1>5
<1>8. q = [i \in 1 .. Len(q) |-> q[i]]
  BY <1>5, LenProperties
<1> QED BY <1>1, <1>6, <1>7, <1>8 DEF PageRows

\* The pages of the newest N rows add up to N.
LEMMA PagesAddUp ==
    ASSUME NEW N \in Nat, NEW R \in Nat, NEW size \in Nat \ {0}, N <= R,
           NEW f, \A p \in 1 .. R : f[p] = PageLen(N, p, size)
    PROVE  SumUpTo(f, R) = N
<1> DEFINE Up(k) == IF k * size < N THEN k * size ELSE N
           bad == {k \in Nat : k <= R /\ SumUpTo(f, k) # Up(k)}
<1>1. bad = {}
  <2>1. SUFFICES ASSUME bad # {} PROVE FALSE
    OBVIOUS
  <2>2. PICK k \in bad : \A m \in bad : k <= m
    BY <2>1, LeastNumber
  <2>3. k \in Nat /\ k <= R /\ SumUpTo(f, k) # Up(k)
    BY <2>2
  <2>4. k # 0
    <3>1. SumUpTo(f, 0) = 0 /\ Up(0) = 0
      BY SumStep
    <3> QED BY <3>1, <2>3
  <2>5. PICK m \in Nat : k = m + 1
    BY <2>3, <2>4
  <2>6. SumUpTo(f, m) = Up(m)
    BY <2>2, <2>3, <2>5
  <2>7. SumUpTo(f, k) = SumUpTo(f, m) + PageLen(N, k, size)
    <3>1. k \in 1 .. R
      BY <2>3, <2>4
    <3> QED BY <3>1, <2>5, SumStep
  <2>8. PICK a \in Nat, b \in Nat : a = m * size /\ b = k * size /\ b = a + size
    <3>1. m * size \in Nat /\ k * size \in Nat /\ k * size = m * size + size
      BY <2>5
    <3> QED BY <3>1
  <2>9. k - 1 = m
    BY <2>5
  <2>10. PageLen(N, k, size) = IF b < N THEN size ELSE IF a < N THEN N - a ELSE 0
    BY <2>8, <2>9 DEF PageLen
  <2> HIDE DEF bad
  <2> QED BY <2>3, <2>6, <2>7, <2>8, <2>10
<1>2. SumUpTo(f, R) = Up(R)
  BY <1>1
<1>3. R * size >= R
  OBVIOUS
<1> QED BY <1>2, <1>3

\* The log under LogInv is what LogIsNewest says.
LEMMA LogInvSound == ASSUME LogInv, backend \in {"redis", "memory"} PROVE LogIsNewest
<1>1. CASE backend = "memory"
  <2>0. RingWell /\ RingSize \in Nat \ {0} /\ written \in Nat
    BY <1>1, StoresAssumption DEF LogInv
  <2>1. PICK N \in Nat, w \in Nat, R \in Nat \ {0} :
          N = logs.count /\ w = written /\ R = RingSize /\ N = (IF w < R THEN w ELSE R)
    BY <2>0 DEF RingWell
  <2>2. ordered = [i \in 1 .. N |-> w - N + i]
    BY <2>0, <2>1 DEF ordered, RingWell
  <2>3. ASSUME NEW size \in 1 .. R, NEW p \in 1 .. R
        PROVE  /\ Len(Query(p, size)) = PageLen(N, p, size)
               /\ Query(p, size) = [i \in 1 .. Len(Query(p, size)) |-> w + 1 - i - (p - 1) * size]
    <3>1. PICK s : s = [i \in 1 .. N |-> ordered[N + 1 - i]]
      OBVIOUS
    <3>2. \A i \in 1 .. N : s[i] = w + 1 - i
      BY <2>2, <3>1
    <3>3. PICK q : q = Query(p, size)
      OBVIOUS
    <3>4. q = SubSeq(s, (p - 1) * size + 1, IF p * size < N THEN p * size ELSE N)
      BY <2>1, <3>1, <3>3 DEF Query
    <3>5. p \in Nat \ {0} /\ size \in Nat \ {0}
      OBVIOUS
    <3>6. Len(q) = PageLen(N, p, size) /\ q = [i \in 1 .. Len(q) |-> w + 1 - i - (p - 1) * size]
      <4>1. PageCut(w, N, p, size, q)
        BY <3>2, <3>4, <3>5 DEF PageCut
      <4>2. PageRows(w, N, p, size, q)
        BY <4>1, PageIs
      <4> QED BY <4>2 DEF PageRows
    <3> QED BY <3>3, <3>6
  <2>4. ASSUME NEW size \in 1 .. R PROVE N = SumUpTo([p \in 1 .. R |-> Len(Query(p, size))], R)
    <3>1. PICK f : f = [p \in 1 .. R |-> Len(Query(p, size))]
      OBVIOUS
    <3>2. \A p \in 1 .. R : f[p] = PageLen(N, p, size)
      BY <2>3, <3>1
    <3>3. size \in Nat \ {0} /\ N <= R
      BY <2>1
    <3>4. SumUpTo(f, R) = N
      BY <3>2, <3>3, PagesAddUp
    <3> QED BY <3>1, <3>4
  <2>5. \A size, p \in 1 .. RingSize :
          Query(p, size) = [i \in 1 .. Len(Query(p, size)) |-> written + 1 - i - (p - 1) * size]
    <3> SUFFICES ASSUME NEW size \in 1 .. RingSize, NEW p \in 1 .. RingSize
                 PROVE  Query(p, size) = [i \in 1 .. Len(Query(p, size)) |-> written + 1 - i - (p - 1) * size]
      OBVIOUS
    <3>1. size \in 1 .. R /\ p \in 1 .. R
      BY <2>1
    <3>2. Query(p, size) = [i \in 1 .. Len(Query(p, size)) |-> w + 1 - i - (p - 1) * size]
      BY <3>1, <2>3
    <3> QED BY <3>2, <2>1
  <2>6. \A size \in 1 .. RingSize : logs.count = SumUpTo([p \in 1 .. RingSize |-> Len(Query(p, size))], RingSize)
    BY <2>1, <2>4
  <2> QED BY <1>1, <2>1, <2>2, <2>5, <2>6 DEF LogIsNewest
<1>2. CASE backend = "redis"
  <2>1. logs.index \cap logs.rows \subseteq logs.index
    OBVIOUS
  <2>2. Cardinality(logs.index \cap logs.rows) <= Cardinality(logs.index)
    BY <2>1, FS_Subset DEF LogInv
  <2> QED BY <1>2, <2>2 DEF LogIsNewest, QueryLogs
<1> QED BY <1>1, <1>2

\* A batch with another status.
LEMMA BatchChange ==
    ASSUME NEW b \in Batches, NEW st \in {"pending", "running", "completed", "cancelled"}
    PROVE  /\ [b EXCEPT !.status = st] \in Batches
           /\ [b EXCEPT !.status = st].status = st
           /\ [b EXCEPT !.status = st].ok = b.ok /\ [b EXCEPT !.status = st].failed = b.failed
           /\ [b EXCEPT !.status = st].total = b.total
BY DEF Batches

\* The stores start without a batch.
LEMMA BatchInvInit == ASSUME StoresInit PROVE BatchInv
BY DEF StoresInit, BatchInv

\* What in memory ties a worker to its batch.
BatchTied ==
  backend = "memory" =>
       /\ \A v, w \in StCalls : bworker[v] # Nil /\ bworker[w] # Nil => v = w
       /\ \A w \in StCalls : bworker[w] # Nil => /\ batch # Nil
                                                 /\ bworker[w].pc = "picked" => batch.status = "pending"
                                                 /\ bworker[w].pc = "running" => batch.status = "running"
       /\ batch # Nil /\ batch.status = "pending" => runs = 0
       /\ runs <= 1
BatchKept ==
  /\ backend \in {"redis", "memory"}
  /\ batch = Nil \/ BatchWell(batch)
  /\ bworker = [w \in StCalls |-> bworker[w]]
  /\ \A w \in StCalls : bworker[w] = Nil \/ bworker[w] \in BatchWorker
  /\ runs \in Nat

\* What the worker works on.
LEMMA LiveBatch ==
    ASSUME BatchInv, NEW w \in StCalls, bworker[w] # Nil
    PROVE  Live(w) \in Batches /\ (backend = "memory" => Live(w) = batch /\ batch # Nil) /\ bworker[w] \in BatchWorker
<1>1. bworker[w] \in BatchWorker
  BY DEF BatchInv
<1>2. bworker[w].copy \in Batches
  BY <1>1 DEF BatchWorker
<1>3. backend = "memory" => batch # Nil /\ batch \in Batches
  BY DEF BatchInv, BatchWell
<1>4. backend = "redis" \/ backend = "memory"
  BY DEF BatchInv
<1> QED BY <1>1, <1>2, <1>3, <1>4 DEF Live

\* One worker moves, to state x.
LEMMA WorkerMoves ==
    ASSUME BatchInv, NEW w \in StCalls, NEW x, x = Nil \/ x \in BatchWorker, bworker' = [bworker EXCEPT ![w] = x],
           batch' = Nil \/ BatchWell(batch'), runs' \in Nat, backend' = backend
    PROVE  BatchKept' /\ bworker'[w] = x /\ \A v \in StCalls : v # w => bworker'[v] = bworker[v]
BY DEF BatchInv, BatchKept

\* The record a worker keeps of its batch.
LEMMA WorkerRecord == ASSUME NEW p \in {"picked", "running"}, NEW b \in Batches
                      PROVE [pc |-> p, copy |-> b] \in BatchWorker /\ [pc |-> p, copy |-> b].pc = p
BY DEF BatchWorker

\* A worker's step in memory keeps it the only one.
LEMMA WorkerAlone ==
    ASSUME BatchInv, NEW w \in StCalls, NEW x, bworker'[w] = x, \A v \in StCalls : v # w => bworker'[v] = bworker[v], backend' = backend,
           backend = "memory" =>
             /\ \A v \in StCalls \ {w} : bworker[v] = Nil
             /\ x # Nil => /\ batch' # Nil
                           /\ x.pc = "picked" => batch'.status = "pending"
                           /\ x.pc = "running" => batch'.status = "running"
             /\ batch' # Nil /\ batch'.status = "pending" => runs' = 0
             /\ runs' <= 1
    PROVE  BatchTied'
BY DEF BatchTied

\* In memory, a worker that holds a batch is the only one.
LEMMA OnlyWorker ==
    ASSUME BatchInv, NEW w \in StCalls, bworker[w] # Nil, backend = "memory"
    PROVE  \A v \in StCalls \ {w} : bworker[v] = Nil
BY DEF BatchInv

\* Every step of the stores keeps the invariant of the batch.
LEMMA BatchInvStep == ASSUME BatchInv, StNext PROVE BatchInv'
<1>1. CASE UNCHANGED <<backend, batch, bworker, runs>>
  BY <1>1 DEF BatchInv
<1>2. CASE handleBatches
  <2>1. PICK total \in 1 .. BatchTotal : batch' = [status |-> "pending", ok |-> 0, failed |-> 0, total |-> total]
    BY <1>2 DEF handleBatches
  <2>2. UNCHANGED <<backend, bworker, runs>> /\ runs = 0 /\ batch = Nil
    BY <1>2 DEF handleBatches
  <2>3. total \in Nat
    BY StoresAssumption
  <2>4. BatchWell(batch') /\ batch'.status = "pending"
    BY <2>1, <2>3 DEF BatchWell, Batches
  <2> QED BY <2>2, <2>4 DEF BatchInv
<1>3. CASE handleBatchCRUD
  BY <1>3 DEF handleBatchCRUD, CancelBatch, BatchInv
<1>4. ASSUME NEW w \in StCalls, processPendingBatches(w) PROVE BatchInv'
  <2>1. /\ bworker[w] = Nil /\ batch # Nil /\ batch.status = "pending" /\ UNCHANGED <<backend, batch, runs>>
        /\ bworker' = [bworker EXCEPT ![w] = [pc |-> "picked", copy |-> batch]]
        /\ backend = "memory" => \A v \in StCalls \ {w} : bworker[v] = Nil
    BY <1>4 DEF processPendingBatches, Workers
  <2>2. batch \in Batches /\ BatchWell(batch) /\ runs \in Nat
    BY <2>1 DEF BatchInv, BatchWell
  <2>3. PICK x : x = [pc |-> "picked", copy |-> batch]
    OBVIOUS
  <2>4. x \in BatchWorker /\ x.pc = "picked"
    BY <2>2, <2>3, WorkerRecord
  <2>5. BatchKept' /\ bworker'[w] = x /\ \A v \in StCalls : v # w => bworker'[v] = bworker[v]
    BY <2>1, <2>2, <2>3, <2>4, WorkerMoves
  <2>6. BatchTied'
    BY <2>1, <2>4, <2>5, WorkerAlone DEF BatchInv
  <2> QED BY <2>5, <2>6 DEF BatchInv, BatchKept, BatchTied
<1>5. ASSUME NEW w \in StCalls, MarkRunning(w) PROVE BatchInv'
  <2>1. PICK b, x : /\ b = [Live(w) EXCEPT !.status = "running"] /\ batch' = b
                    /\ x = [pc |-> "running", copy |-> b] /\ bworker' = [bworker EXCEPT ![w] = x]
    BY <1>5 DEF MarkRunning
  <2>2. bworker[w] # Nil /\ bworker[w].pc = "picked" /\ runs' = runs + 1 /\ backend' = backend
    BY <1>5 DEF MarkRunning
  <2>3. b \in Batches /\ b.status = "running"
    BY <2>1, <2>2, LiveBatch, BatchChange
  <2>4. x \in BatchWorker /\ x.pc = "running" /\ BatchWell(batch') /\ batch' # Nil
    BY <2>1, <2>3, WorkerRecord, NilAssumption DEF BatchWell
  <2>5. runs \in Nat /\ runs' \in Nat /\ (backend = "memory" => runs = 0)
    BY <2>2 DEF BatchInv
  <2>6. BatchKept' /\ bworker'[w] = x /\ \A v \in StCalls : v # w => bworker'[v] = bworker[v]
    BY <2>1, <2>2, <2>4, <2>5, WorkerMoves
  <2>7. BatchTied'
    BY <2>1, <2>2, <2>3, <2>4, <2>5, <2>6, OnlyWorker, WorkerAlone
  <2> QED BY <2>6, <2>7 DEF BatchInv, BatchKept, BatchTied
<1>6. ASSUME NEW w \in StCalls, processBatchEnds(w) PROVE BatchInv'
  <2>1. /\ bworker[w] # Nil /\ Live(w).ok + Live(w).failed = Live(w).total /\ UNCHANGED <<backend, runs>>
        /\ batch' = [Live(w) EXCEPT !.status = "completed"] /\ bworker' = [bworker EXCEPT ![w] = Nil]
    BY <1>6 DEF processBatchEnds
  <2>2. BatchWell(batch') /\ batch'.status = "completed"
    BY <2>1, LiveBatch, BatchChange DEF BatchWell
  <2>3. runs \in Nat /\ (backend = "memory" => runs <= 1)
    BY DEF BatchInv
  <2>4. BatchKept' /\ bworker'[w] = Nil /\ \A v \in StCalls : v # w => bworker'[v] = bworker[v]
    BY <2>1, <2>2, <2>3, WorkerMoves
  <2>5. BatchTied'
    BY <2>1, <2>2, <2>3, <2>4, OnlyWorker, WorkerAlone
  <2> QED BY <2>4, <2>5 DEF BatchInv, BatchKept, BatchTied
<1>7. ASSUME NEW w \in StCalls, WorkerDies(w) PROVE BatchInv'
  <2>1. /\ bworker[w] # Nil /\ UNCHANGED <<backend, runs>> /\ bworker' = [bworker EXCEPT ![w] = Nil]
        /\ batch' = IF backend = "memory" THEN Nil ELSE batch
    BY <1>7 DEF WorkerDies
  <2>2. runs \in Nat /\ (backend = "memory" => runs <= 1) /\ (batch' = Nil \/ BatchWell(batch'))
    BY <2>1 DEF BatchInv
  <2>3. BatchKept' /\ bworker'[w] = Nil /\ \A v \in StCalls : v # w => bworker'[v] = bworker[v]
    BY <2>1, <2>2, WorkerMoves
  <2>4. BatchTied'
    BY <2>1, <2>2, <2>3, OnlyWorker, WorkerAlone
  <2> QED BY <2>3, <2>4 DEF BatchInv, BatchKept, BatchTied
<1>8. ASSUME NEW w \in StCalls, NEW good \in BOOLEAN, executeBatchRequest(w, good) PROVE BatchInv'
  <2>1. PICK b : /\ b \in {[Live(w) EXCEPT !.ok = @ + 1], [Live(w) EXCEPT !.failed = @ + 1]}
                 /\ bworker' = [bworker EXCEPT ![w].copy = b]
                 /\ batch' = IF backend = "memory" THEN b ELSE batch
    BY <1>8 DEF executeBatchRequest
  <2>2. bworker[w] # Nil /\ bworker[w].pc = "running" /\ UNCHANGED <<backend, runs>>
    BY <1>8 DEF executeBatchRequest
  <2>3. b \in Batches /\ b.status = Live(w).status
    <3>1. PICK l \in Batches : l = Live(w)
      BY <2>2, LiveBatch
    <3>2. /\ [l EXCEPT !.ok = @ + 1] \in Batches /\ [l EXCEPT !.ok = @ + 1].status = l.status
          /\ [l EXCEPT !.failed = @ + 1] \in Batches /\ [l EXCEPT !.failed = @ + 1].status = l.status
      BY DEF Batches
    <3> QED BY <3>1, <3>2, <2>1
  <2>4. PICK x : x = [pc |-> "running", copy |-> b]
    OBVIOUS
  <2>5. x \in BatchWorker /\ x.pc = "running"
    BY <2>3, <2>4, WorkerRecord
  <2>6. bworker' = [bworker EXCEPT ![w] = x]
    <3>1. bworker[w] \in BatchWorker
      BY <2>2, LiveBatch
    <3>2. [bworker[w] EXCEPT !.copy = b] = x
      BY <3>1, <2>2, <2>4 DEF BatchWorker
    <3> QED BY <3>2, <2>1 DEF BatchInv
  <2>7. backend = "memory" => batch' = b /\ b.status = "running" /\ batch.status = "running" /\ b # Nil
    BY <2>1, <2>2, <2>3, LiveBatch, NilAssumption DEF BatchInv
  <2>8. runs \in Nat /\ (backend = "memory" => runs <= 1) /\ (batch' = Nil \/ BatchWell(batch'))
    BY <2>1, <2>3, <2>7 DEF BatchInv, BatchWell
  <2>9. BatchKept' /\ bworker'[w] = x /\ \A v \in StCalls : v # w => bworker'[v] = bworker[v]
    BY <2>2, <2>5, <2>6, <2>8, WorkerMoves
  <2>10. BatchTied'
    BY <2>2, <2>5, <2>7, <2>8, <2>9, OnlyWorker, WorkerAlone
  <2> QED BY <2>9, <2>10 DEF BatchInv, BatchKept, BatchTied
<1> QED BY <1>1, <1>2, <1>3, <1>4, <1>5, <1>6, <1>7, <1>8, AreasApart DEF StNext, BatchStep, storeVars

\* What BatchInv says of a completed batch, and of its runs in memory.
LEMMA BatchInvSound == ASSUME BatchInv PROVE BatchCounted
BY DEF BatchInv, BatchCounted, BatchWell

\* The tables of a database: keys, teams and what teams spent.
KeyTables(e, k, h, u) == e.key = k /\ e.hash = h /\ e.used = u
TeamTables(e, t, b, o) == e.team = t /\ e.bound = b /\ e.org = o
CostTables(e, tu, tc, td) == e.tused = tu /\ e.tcost = tc /\ e.tday = td
SameKeys(d, e) == KeyTables(e, d.key, d.hash, d.used)
SameTeams(d, e) == TeamTables(e, d.team, d.bound, d.org)
SameCosts(d, e) == CostTables(e, d.tused, d.tcost, d.tday)

\* What a command does to them.
LEMMA ExecKey ==
    ASSUME NEW d, DbShape(d), NEW x, x.how = "set", x.f = "key", x.at \in StKeys, NEW e, e = Exec(d, x)
    PROVE  DbShape(e) /\ KeyTables(e, [d.key EXCEPT ![x.at] = x.val], d.hash, d.used) /\ SameTeams(d, e) /\ SameCosts(d, e)
<1>1. e = [d EXCEPT !.key[x.at] = x.val]
  BY DEF Exec
<1> QED BY <1>1 DEF DbShape, KeyTables, TeamTables, CostTables, SameTeams, SameCosts

\* A hash is written.
LEMMA ExecHash ==
    ASSUME NEW d, DbShape(d), NEW x, x.how = "set", x.f = "hash", x.at \in Hashes, NEW e, e = Exec(d, x)
    PROVE  DbShape(e) /\ KeyTables(e, d.key, [d.hash EXCEPT ![x.at] = x.val], d.used) /\ SameTeams(d, e) /\ SameCosts(d, e)
<1>1. e = [d EXCEPT !.hash[x.at] = x.val]
  BY DEF Exec
<1> QED BY <1>1 DEF DbShape, KeyTables, TeamTables, CostTables, SameTeams, SameCosts

\* A binding is written.
LEMMA ExecBind ==
    ASSUME NEW d, DbShape(d), NEW x, x.how = "set", x.f = "bound", x.at \in Hashes, NEW e, e = Exec(d, x)
    PROVE  DbShape(e) /\ SameKeys(d, e) /\ SameCosts(d, e)
<1>1. e = [d EXCEPT !.bound[x.at] = x.val]
  BY DEF Exec
<1> QED BY <1>1 DEF DbShape, KeyTables, CostTables, SameKeys, SameCosts

\* The counter of a key is seeded, unless there is one.
LEMMA ExecSeed ==
    ASSUME NEW d, DbShape(d), NEW x, Seeds(x), NEW e, e = Exec(d, x)
    PROVE  /\ DbShape(e) /\ SameTeams(d, e) /\ SameCosts(d, e)
           /\ KeyTables(e, d.key, d.hash, IF d.used[x.at] = Nil THEN [d.used EXCEPT ![x.at] = 0] ELSE d.used)
<1>1. e = IF d.used[x.at] = Nil THEN [d EXCEPT !.used[x.at] = 0] ELSE d
  BY DEF Exec, Seeds
<1> QED BY <1>1 DEF DbShape, KeyTables, TeamTables, CostTables, SameTeams, SameCosts, Seeds

\* The counter of a key is incremented.
LEMMA ExecCharge ==
    ASSUME NEW d, DbShape(d), NEW x, ChargesKey(x), NEW e, e = Exec(d, x)
    PROVE  /\ DbShape(e) /\ SameTeams(d, e) /\ SameCosts(d, e)
           /\ KeyTables(e, d.key, d.hash, [d.used EXCEPT ![x.at] = Counter(d.used[x.at]) + 1])
<1>1. e = [d EXCEPT !.used[x.at] = Counter(d.used[x.at]) + 1]
  BY DEF Exec, ChargesKey, Counter
<1> QED BY <1>1 DEF DbShape, KeyTables, TeamTables, CostTables, SameTeams, SameCosts, ChargesKey

\* The script of a team increments its three counters, and nothing else.
LEMMA ScriptIs ==
    ASSUME NEW d, DbShape(d), NEW t \in StTeams, NEW e, e = addTeamCostScript(d, t, 1)
    PROVE  /\ DbShape(e) /\ SameKeys(d, e) /\ SameTeams(d, e)
           /\ CostTables(e, [d.tused EXCEPT ![t] = @ + 1], [d.tcost EXCEPT ![t] = @ + 1],
                            [d.tday EXCEPT ![t] = [d.tday[t] EXCEPT ![today] = @ + 1]])
BY DEF addTeamCostScript, DbShape, KeyTables, TeamTables, CostTables, SameTeams, SameKeys

\* A command that only reads.
LEMMA ExecNothing ==
    ASSUME NEW d, NEW x, x.how \in {"get", "gate"} PROVE Exec(d, x) = d
BY DEF Exec

\* The command that runs the script.
LEMMA ExecScript ==
    ASSUME NEW d, NEW x, ChargesTeam(x) PROVE Exec(d, x) = addTeamCostScript(d, x.at, 1)
BY DEF Exec, ChargesTeam

\* The counters of keys only grow.
Up(u, v) == \A n \in StKeys : Counter(u[n]) <= Counter(v[n])

\* Seeding a counter loses no charge.
LEMMA KeySeeded ==
    ASSUME NEW u, NEW a, KeyCounts(u, a), u = [n \in StKeys |-> u[n]], NEW n \in StKeys,
           NEW v, v = IF u[n] = Nil THEN [u EXCEPT ![n] = 0] ELSE u
    PROVE  KeyCounts(v, a) /\ Up(u, v)
BY NilAssumption DEF KeyCounts, Up, Counter

\* An increment counts one charge more, acknowledged or not.
LEMMA KeyCharged ==
    ASSUME NEW u, NEW a, KeyCounts(u, a), u = [n \in StKeys |-> u[n]], NEW n \in StKeys,
           NEW v, v = [u EXCEPT ![n] = Counter(u[n]) + 1], NEW b, b \in {a, [a EXCEPT ![n] = @ + 1]}
    PROVE  KeyCounts(v, b) /\ Up(u, v)
<1>1. PICK z \in Nat : z = Counter(u[n]) /\ a[n] <= z
  BY DEF KeyCounts, Counter
<1>2. v[n] = z + 1 /\ Counter(v[n]) = z + 1 /\ \A k \in StKeys : k # n => v[k] = u[k]
  BY <1>1, NilAssumption DEF Counter
<1>3. b \in [StKeys -> Nat] /\ b[n] <= z + 1 /\ \A k \in StKeys : k # n => b[k] = a[k]
  BY <1>1 DEF KeyCounts
<1>4. ASSUME NEW k \in StKeys PROVE v[k] \in Nat \cup {Nil} /\ b[k] <= Counter(v[k]) /\ Counter(u[k]) <= Counter(v[k])
  <2>1. CASE k = n
    BY <2>1, <1>1, <1>2, <1>3
  <2>2. CASE k # n
    <3>1. u[k] \in Nat \cup {Nil} /\ a[k] <= Counter(u[k]) /\ Counter(u[k]) \in Nat
      BY DEF KeyCounts, Counter
    <3> QED BY <3>1, <2>2, <1>2, <1>3
  <2> QED BY <2>1, <2>2
<1> QED BY <1>3, <1>4 DEF KeyCounts, Up
OneApart(f, g, N, k) ==
  N \in Nat /\ k \in 1 .. N /\ (\A i \in 1 .. N : f[i] \in Nat /\ g[i] \in Nat) /\ (\A i \in 1 .. N : i # k => f[i] = g[i])
SumsApart(f, g, N, k) == SumUpTo(f, N) \in Nat /\ SumUpTo(g, N) \in Nat /\ SumUpTo(g, N) + f[k] = SumUpTo(f, N) + g[k]

\* Two functions that differ at one place have sums that differ by as much.
LEMMA SumsDiffer == ASSUME NEW f, NEW g, NEW N, NEW k, OneApart(f, g, N, k) PROVE SumsApart(f, g, N, k)
<1>1. /\ N \in Nat /\ k \in 1 .. N /\ (\A i \in 1 .. N : f[i] \in Nat /\ g[i] \in Nat)
      /\ (\A i \in 1 .. N : i # k => f[i] = g[i])
  BY DEF OneApart
<1>2. SumUpTo(f, N) \in Nat /\ SumUpTo(g, N) \in Nat /\ SumUpTo(g, N) + f[k] = SumUpTo(f, N) + g[k]
  BY <1>1, SumChange
<1> QED BY <1>2 DEF SumsApart

\* The counters of a team stay in step under a charge.
LEMMA TeamCharged ==
    ASSUME NEW bk, NEW tu, NEW tc, NEW td, NEW a, TeamCount(bk, tu, tc, td, a), NEW y \in 1 .. StDays, NEW b, b \in {a, a + 1},
           NEW te, te = [td EXCEPT ![y] = @ + 1]
    PROVE  TeamCount(bk, tu + 1, tc + 1, te, b)
<1>1. StDays \in Nat /\ te \in [1 .. StDays -> Nat] /\ te[y] = td[y] + 1 /\ \A i \in 1 .. StDays : i # y => td[i] = te[i]
  BY StoresAssumption DEF TeamCount
<1>2. \A i \in 1 .. StDays : td[i] \in Nat /\ te[i] \in Nat
  BY <1>1 DEF TeamCount
<1>3. SumUpTo(td, StDays) \in Nat /\ SumUpTo(te, StDays) \in Nat /\ SumUpTo(te, StDays) + td[y] = SumUpTo(td, StDays) + te[y]
  <2>1. OneApart(td, te, StDays, y)
    BY <1>1, <1>2 DEF OneApart
  <2>2. SumsApart(td, te, StDays, y)
    BY <2>1, SumsDiffer
  <2> QED BY <2>2 DEF SumsApart
<1>4. SumUpTo(te, StDays) = SumUpTo(td, StDays) + 1
  BY <1>1, <1>2, <1>3
<1> QED BY <1>1, <1>4 DEF TeamCount

\* A team that has spent nothing is counted.
LEMMA TeamIdle == ASSUME NEW bk PROVE TeamCount(bk, 0, 0, [y \in 1 .. StDays |-> 0], 0)
<1>1. PICK td : td = [y \in 1 .. StDays |-> 0]
  OBVIOUS
<1>2. \A i \in 1 .. StDays : td[i] = 0
  BY <1>1
<1> DEFINE bad == {n \in 0 .. StDays : SumUpTo(td, n) # 0}
<1>3. bad = {}
  <2>1. SUFFICES ASSUME bad # {} PROVE FALSE
    OBVIOUS
  <2>2. bad \in SUBSET Nat
    BY StoresAssumption
  <2>3. PICK n \in bad : \A m \in bad : n <= m
    BY <2>1, <2>2, LeastNumber
  <2>4. n \in 0 .. StDays /\ SumUpTo(td, n) # 0 /\ n # 0
    BY <2>3, SumStep
  <2>5. PICK m \in Nat : n = m + 1 /\ m \in 0 .. StDays /\ n \in 1 .. StDays
    <3>1. n - 1 \in Nat /\ n = (n - 1) + 1 /\ n - 1 \in 0 .. StDays /\ n \in 1 .. StDays
      BY <2>4, StoresAssumption
    <3> QED BY <3>1
  <2>6. SumUpTo(td, m) = 0
    BY <2>3, <2>5
  <2> QED BY <2>4, <2>5, <2>6, <1>2, SumStep
<1>4. SumUpTo(td, StDays) = 0
  BY <1>3, StoresAssumption
<1> QED BY <1>1, <1>4 DEF TeamCount

\* A charge is acknowledged or not.
Acked(x, a) == CASE x.how = "incr" -> [a EXCEPT !.key[x.at] = @ + 1]
                 [] x.how = "eval" -> [a EXCEPT !.team[x.at] = @ + 1]
                 [] OTHER -> a

\* A charge of a key is acknowledged at the key, or not.
LEMMA AckKey ==
    ASSUME NEW x, ChargesKey(x), NEW a, AcksShaped(a), NEW b, b \in {a, Acked(x, a)}
    PROVE  AcksShaped(b) /\ b.team = a.team /\ b.key \in {a.key, [a.key EXCEPT ![x.at] = @ + 1]}
BY DEF ChargesKey, AcksShaped, Acked

\* A charge of a team is acknowledged at the team, or not.
LEMMA AckTeam ==
    ASSUME NEW x, ChargesTeam(x), NEW a, AcksShaped(a), NEW b, b \in {a, Acked(x, a)}
    PROVE  AcksShaped(b) /\ b.key = a.key /\ b.team \in {a.team, [a.team EXCEPT ![x.at] = @ + 1]}
BY DEF ChargesTeam, AcksShaped, Acked

\* Other commands acknowledge nothing.
LEMMA AckOther ==
    ASSUME NEW x, x.how \notin {"incr", "eval"}, NEW a PROVE Acked(x, a) = a
BY DEF Acked

\* The counters of teams under a charge.
ScriptRuns(bk, d, a, t, e, b) ==
  /\ DbShape(d) /\ TeamsCounted(bk, d, a) /\ t \in StTeams /\ today \in 1 .. StDays /\ b \in {a, [a EXCEPT ![t] = @ + 1]}
  /\ CostTables(e, [d.tused EXCEPT ![t] = @ + 1], [d.tcost EXCEPT ![t] = @ + 1],
                   [d.tday EXCEPT ![t] = [d.tday[t] EXCEPT ![today] = @ + 1]])

\* The script counts one charge more at one team, acknowledged or not.
LEMMA ScriptCounts ==
    ASSUME NEW bk, NEW d, NEW a, NEW t, NEW e, NEW b, ScriptRuns(bk, d, a, t, e, b) PROVE TeamsCounted(bk, e, b)
<1>0. DbShape(d) /\ TeamsCounted(bk, d, a) /\ t \in StTeams /\ today \in 1 .. StDays
  BY DEF ScriptRuns
<1>1. /\ \A s \in StTeams : s # t => e.tused[s] = d.tused[s] /\ e.tcost[s] = d.tcost[s] /\ e.tday[s] = d.tday[s]
      /\ e.tused[t] = d.tused[t] + 1 /\ e.tcost[t] = d.tcost[t] + 1
      /\ e.tday[t] = [d.tday[t] EXCEPT ![today] = @ + 1]
  BY DEF CostTables, DbShape, ScriptRuns
<1>2. b = [s \in StTeams |-> b[s]] /\ b[t] \in {a[t], a[t] + 1} /\ \A s \in StTeams : s # t => b[s] = a[s]
  BY DEF TeamsCounted, ScriptRuns
<1>3. TeamCount(bk, d.tused[t], d.tcost[t], d.tday[t], a[t])
  BY <1>0 DEF TeamsCounted
<1>4. PICK te : te = [d.tday[t] EXCEPT ![today] = @ + 1]
  OBVIOUS
<1>5. TeamCount(bk, d.tused[t] + 1, d.tcost[t] + 1, te, b[t])
  BY <1>0, <1>2, <1>3, <1>4, TeamCharged
<1>6. ASSUME NEW s \in StTeams PROVE TeamCount(bk, e.tused[s], e.tcost[s], e.tday[s], b[s])
  <2>1. CASE s = t
    BY <2>1, <1>1, <1>4, <1>5
  <2>2. CASE s # t
    BY <2>2, <1>0, <1>1, <1>2 DEF TeamsCounted
  <2> QED BY <2>1, <2>2
<1> QED BY <1>2, <1>6 DEF TeamsCounted

\* What is counted, under a command.
LEMMA CountedSame ==
    ASSUME NEW bk, NEW d, NEW a, Counted(bk, d, a), NEW e, e.used = d.used, SameCosts(d, e)
    PROVE  Counted(bk, e, a)
BY DEF Counted, TeamsCounted, SameCosts, CostTables

\* A command keeps the tables and what was counted, and takes no counter of a key back.
LEMMA ExecCounts ==
    ASSUME NEW bk, NEW d, DbShape(d), NEW a, Counted(bk, d, a), NEW own, NEW m \in SUBSET Hashes, NEW x, NEW k, Known(own, m, d.used, x, k),
           today \in 1 .. StDays, NEW e, e = Exec(d, x), NEW b, b \in {a, Acked(x, a)}
    PROVE  DbShape(e) /\ Counted(bk, e, b) /\ Up(d.used, e.used)
<1>0. Up(d.used, d.used)
  BY DEF Up, Counted, KeyCounts, Counter
<1>1. CASE SetsKey(own, m, x)
  <2>1. DbShape(e) /\ e.used = d.used /\ SameCosts(d, e)
    <3>1. x.how = "set" /\ x.f = "key" /\ x.at \in StKeys
      BY <1>1 DEF SetsKey
    <3>2. DbShape(e) /\ KeyTables(e, [d.key EXCEPT ![x.at] = x.val], d.hash, d.used) /\ SameCosts(d, e)
      BY <3>1, ExecKey
    <3> QED BY <3>2 DEF KeyTables
  <2>2. b = a
    BY <1>1, AckOther DEF SetsKey
  <2> QED BY <2>1, <2>2, <1>0, CountedSame
<1>2. CASE SetsHash(own, m, x)
  <2>1. DbShape(e) /\ e.used = d.used /\ SameCosts(d, e)
    <3>1. x.how = "set" /\ x.f = "hash" /\ x.at \in Hashes
      BY <1>2 DEF SetsHash
    <3>2. DbShape(e) /\ KeyTables(e, d.key, [d.hash EXCEPT ![x.at] = x.val], d.used) /\ SameCosts(d, e)
      BY <3>1, ExecHash
    <3> QED BY <3>2 DEF KeyTables
  <2>2. b = a
    BY <1>2, AckOther DEF SetsHash
  <2> QED BY <2>1, <2>2, <1>0, CountedSame
<1>3. CASE Binds(x)
  <2>1. DbShape(e) /\ e.used = d.used /\ SameCosts(d, e)
    BY <1>3, ExecBind DEF Binds, SameKeys, KeyTables
  <2>2. b = a
    BY <1>3, AckOther DEF Binds
  <2> QED BY <2>1, <2>2, <1>0, CountedSame
<1>4. CASE Looks(x) \/ Gates(d.used, x, k)
  <2>1. e = d
    BY <1>4, ExecNothing DEF Looks, Gates
  <2>2. b = a
    BY <1>4, AckOther DEF Looks, Gates
  <2> QED BY <2>1, <2>2, <1>0
<1>5. CASE Seeds(x)
  <2>1. /\ DbShape(e) /\ SameCosts(d, e)
        /\ e.used = IF d.used[x.at] = Nil THEN [d.used EXCEPT ![x.at] = 0] ELSE d.used
    BY <1>5, ExecSeed DEF KeyTables
  <2>2. b = a /\ x.at \in StKeys
    BY <1>5, AckOther DEF Seeds
  <2>3. KeyCounts(e.used, a.key) /\ Up(d.used, e.used)
    <3>1. d.used = [n \in StKeys |-> d.used[n]] /\ KeyCounts(d.used, a.key)
      BY DEF DbShape, Counted
    <3> QED BY <2>1, <2>2, <3>1, KeySeeded
  <2> QED BY <2>1, <2>2, <2>3 DEF Counted, TeamsCounted, SameCosts, CostTables
<1>6. CASE ChargesKey(x)
  <2>1. DbShape(e) /\ SameCosts(d, e) /\ e.used = [d.used EXCEPT ![x.at] = Counter(d.used[x.at]) + 1]
    BY <1>6, ExecCharge DEF KeyTables
  <2>2. AcksShaped(b) /\ b.team = a.team /\ b.key \in {a.key, [a.key EXCEPT ![x.at] = @ + 1]} /\ x.at \in StKeys
    BY <1>6, AckKey DEF Counted, ChargesKey
  <2>3. KeyCounts(e.used, b.key) /\ Up(d.used, e.used)
    <3>1. d.used = [n \in StKeys |-> d.used[n]] /\ KeyCounts(d.used, a.key)
      BY DEF DbShape, Counted
    <3> QED BY <2>1, <2>2, <3>1, KeyCharged
  <2> QED BY <2>1, <2>2, <2>3 DEF Counted, TeamsCounted, SameCosts, CostTables
<1>7. CASE ChargesTeam(x)
  <2>1. e = addTeamCostScript(d, x.at, 1) /\ x.at \in StTeams
    BY <1>7, ExecScript DEF ChargesTeam
  <2>2. /\ DbShape(e) /\ SameKeys(d, e)
        /\ CostTables(e, [d.tused EXCEPT ![x.at] = @ + 1], [d.tcost EXCEPT ![x.at] = @ + 1],
                            [d.tday EXCEPT ![x.at] = [d.tday[x.at] EXCEPT ![today] = @ + 1]])
    BY <2>1, ScriptIs
  <2>3. AcksShaped(b) /\ b.key = a.key /\ b.team \in {a.team, [a.team EXCEPT ![x.at] = @ + 1]}
    BY <1>7, AckTeam DEF Counted
  <2>4. TeamsCounted(bk, e, b.team)
    <3>1. PICK y, ta, tb : y = x.at /\ ta = a.team /\ tb = b.team
      OBVIOUS
    <3>2. TeamsCounted(bk, d, ta) /\ y \in StTeams /\ tb \in {ta, [ta EXCEPT ![y] = @ + 1]}
      BY <2>1, <2>3, <3>1 DEF Counted
    <3>3. CostTables(e, [d.tused EXCEPT ![y] = @ + 1], [d.tcost EXCEPT ![y] = @ + 1],
                        [d.tday EXCEPT ![y] = [d.tday[y] EXCEPT ![today] = @ + 1]])
      BY <2>2, <3>1
    <3>4. TeamsCounted(bk, e, tb)
      <4>1. ScriptRuns(bk, d, ta, y, e, tb)
        BY <3>2, <3>3 DEF ScriptRuns
      <4> QED BY <4>1, ScriptCounts
    <3> QED BY <3>1, <3>4
  <2>5. e.used = d.used
    BY <2>2 DEF SameKeys, KeyTables
  <2> QED BY <2>2, <2>3, <2>4, <2>5, <1>0 DEF Counted
<1> QED BY <1>1, <1>2, <1>3, <1>4, <1>5, <1>6, <1>7 DEF Known

\* A command stays known while hashes are generated and counters grow.
LEMMA OwnedStays ==
    ASSUME NEW own, NEW m, NEW n, NEW k, Owned(own, m, n, k), NEW own2, NEW m2, m \subseteq m2, \A h \in m : own2[h] = own[h]
    PROVE  Owned(own2, m2, n, k)
BY DEF Owned

\* A command that was known stays so when hashes are generated and counters grow.
LEMMA KnownStays ==
    ASSUME NEW own, NEW m, NEW u, NEW x, NEW k \in Nat, Known(own, m, u, x, k), NEW own2, NEW m2, m \subseteq m2,
           \A h \in m : own2[h] = own[h], NEW v, Up(u, v), \A n \in StKeys : Counter(u[n]) \in Nat /\ Counter(v[n]) \in Nat
    PROVE  Known(own2, m2, v, x, k)
<1>1. SetsKey(own, m, x) => SetsKey(own2, m2, x)
  BY OwnedStays DEF SetsKey
<1>2. SetsHash(own, m, x) => SetsHash(own2, m2, x)
  BY DEF SetsHash
<1>3. Gates(u, x, k) => Gates(v, x, k)
  BY DEF Gates, Up
<1> QED BY <1>1, <1>2, <1>3 DEF Known
Growing(own, m, u, own2, m2, v) ==
  /\ m \subseteq m2 /\ (\A h \in m : own2[h] = own[h]) /\ Up(u, v)
  /\ \A n \in StKeys : Counter(u[n]) \in Nat /\ Counter(v[n]) \in Nat

\* So does a program.
LEMMA PlanStays ==
    ASSUME NEW own, NEW m, NEW u, NEW s, NEW k, PlanWell(own, m, u, s, k), NEW own2, NEW m2, NEW v, Growing(own, m, u, own2, m2, v)
    PROVE  PlanWell(own2, m2, v, s, k)
<1>1. k \in Nat
  BY DEF PlanWell
<1>2. ASSUME NEW i \in 1 .. Len(s) PROVE Known(own2, m2, v, s[i], k)
  <2>1. PICK x : x = s[i]
    OBVIOUS
  <2>2. Known(own, m, u, x, k)
    BY <2>1 DEF PlanWell
  <2>3. Known(own2, m2, v, x, k)
    BY <1>1, <2>2, KnownStays DEF Growing
  <2> QED BY <2>1, <2>3
<1> QED BY <1>2 DEF PlanWell

\* Plans are shortened from the front.
LEMMA PlanEmpty == ASSUME NEW own, NEW m, NEW u, NEW k \in Nat PROVE PlanWell(own, m, u, <<>>, k)
<1>1. <<>> \in Seq({}) /\ Len(<<>>) = 0
  BY EmptySeq
<1> QED BY <1>1 DEF PlanWell

\* The rest of a program is one, and what leads to its head is there.
LEMMA PlanTail ==
    ASSUME NEW own, NEW m, NEW u, NEW s, NEW k, PlanWell(own, m, u, s, k), s # <<>>
    PROVE  /\ PlanWell(own, m, u, Tail(s), k) /\ Known(own, m, u, Head(s), k) /\ Head(s) = s[1] /\ Len(s) \in Nat /\ Len(s) > 0
           /\ Len(Tail(s)) = Len(s) - 1 /\ \A i \in 1 .. Len(s) - 1 : Tail(s)[i] = s[i + 1]
           /\ Alone(Head(s)) \/ (Tail(s) # <<>> /\ Leads(Head(s), Head(Tail(s))))
<1>1. PICK S : s \in Seq(S)
  BY DEF PlanWell
<1>2. PICK N \in Nat, t \in {Tail(s)} : t = Tail(s) /\ N = Len(s)
  BY <1>1, LenProperties
<1>3. t \in Seq(S) /\ Len(t) = N - 1 /\ (\A i \in 1 .. Len(t) : t[i] = s[i + 1]) /\ N > 0 /\ Head(s) = s[1]
  <2>1. Tail(s) \in Seq(S) /\ Len(Tail(s)) = Len(s) - 1 /\ \A i \in 1 .. Len(Tail(s)) : Tail(s)[i] = s[i + 1]
    BY <1>1, HeadTailProperties
  <2>2. Len(s) # 0 /\ Head(s) = s[1]
    BY <1>1, EmptySeq
  <2> QED BY <2>1, <2>2, <1>2
<1>4. ASSUME NEW i \in 1 .. Len(t)
      PROVE  Known(own, m, u, t[i], k) /\ (Alone(t[i]) \/ (i + 1 \in 1 .. Len(t) /\ Leads(t[i], t[i + 1])))
  <2>1. PICK j \in 1 .. N : j = i + 1
    BY <1>2, <1>3
  <2>2. t[i] = s[j]
    BY <2>1, <1>3
  <2>3. Known(own, m, u, s[j], k) /\ (Alone(s[j]) \/ (j + 1 \in 1 .. N /\ Leads(s[j], s[j + 1])))
    BY <2>1, <1>2 DEF PlanWell
  <2>4. ASSUME j + 1 \in 1 .. N PROVE i + 1 \in 1 .. Len(t) /\ t[i + 1] = s[j + 1]
    <3>1. i + 1 \in 1 .. Len(t) /\ (i + 1) + 1 = j + 1
      BY <2>1, <2>4, <1>2, <1>3
    <3> QED BY <3>1, <1>3
  <2> QED BY <2>2, <2>3, <2>4
<1>5. PlanWell(own, m, u, t, k)
  BY <1>3, <1>4 DEF PlanWell
<1>6. 1 \in 1 .. N
  BY <1>2, <1>3
<1>7. Known(own, m, u, s[1], k) /\ (Alone(s[1]) \/ (1 + 1 \in 1 .. N /\ Leads(s[1], s[1 + 1])))
  BY <1>2, <1>6 DEF PlanWell
<1>8. ASSUME 1 + 1 \in 1 .. N PROVE t # <<>> /\ Head(t) = s[1 + 1]
  <2>1. Len(t) # 0 /\ 1 \in 1 .. Len(t) /\ t[1] = s[1 + 1]
    BY <1>8, <1>2, <1>3
  <2> QED BY <2>1, <1>3, EmptySeq
<1> QED BY <1>2, <1>3, <1>5, <1>7, <1>8

PlanCut(own, m, u, s, t, k) ==
  /\ PlanWell(own, m, u, t, k) /\ Len(s) \in Nat /\ Len(s) > 0
  /\ Len(t) = Len(s) - 1 /\ (\A i \in 1 .. Len(s) - 1 : t[i] = s[i + 1])
  /\ Alone(s[1]) \/ (t # <<>> /\ Leads(s[1], Head(t)))

\* The same, with the places of the commands.
LEMMA PlanCuts ==
    ASSUME NEW own, NEW m, NEW u, NEW s, NEW k, PlanWell(own, m, u, s, k), s # <<>>
    PROVE  PlanCut(own, m, u, s, Tail(s), k) /\ Head(s) = s[1]
<1>1. Head(s) = s[1] /\ (Alone(Head(s)) \/ (Tail(s) # <<>> /\ Leads(Head(s), Head(Tail(s)))))
  BY PlanTail
<1>2. PlanWell(own, m, u, Tail(s), k) /\ Len(s) \in Nat /\ Len(s) > 0
  BY PlanTail
<1>3. Len(Tail(s)) = Len(s) - 1 /\ \A i \in 1 .. Len(s) - 1 : Tail(s)[i] = s[i + 1]
  BY PlanTail
<1> QED BY <1>1, <1>2, <1>3 DEF PlanCut

\* And put together from single commands.
LEMMA PlanOne ==
    ASSUME NEW own, NEW m, NEW u, NEW k \in Nat, NEW x, Known(own, m, u, x, k), Alone(x) PROVE PlanWell(own, m, u, <<x>>, k)
<1>1. PICK s : s = <<x>>
  OBVIOUS
<1>2. s \in Seq({x}) /\ Len(s) = 1 /\ s[1] = x
  BY <1>1
<1>3. PlanWell(own, m, u, s, k)
  BY <1>2 DEF PlanWell
<1> QED BY <1>1, <1>3

\* Two commands of which the first leads to the second.
LEMMA PlanTwo ==
    ASSUME NEW own, NEW m, NEW u, NEW k \in Nat, NEW x, Known(own, m, u, x, k), NEW y, Known(own, m, u, y, k), Leads(x, y), Alone(y)
    PROVE  PlanWell(own, m, u, <<x, y>>, k)
<1>1. PICK s : s = <<x, y>>
  OBVIOUS
<1>2. s \in Seq({x, y}) /\ Len(s) = 2 /\ s[1] = x /\ s[2] = y
  BY <1>1
<1>3. PlanWell(own, m, u, s, k)
  BY <1>2 DEF PlanWell
<1> QED BY <1>1, <1>3

\* Two programs, one after the other.
LEMMA PlanJoin ==
    ASSUME NEW own, NEW m, NEW u, NEW k, NEW s, NEW t, PlanWell(own, m, u, s, k), PlanWell(own, m, u, t, k)
    PROVE  PlanWell(own, m, u, s \o t, k)
<1>1. PICK S, T : s \in Seq(S) /\ t \in Seq(T)
  BY DEF PlanWell
<1>2. PICK U : U = S \cup T
  OBVIOUS
<1>3. s \in Seq(U) /\ t \in Seq(U)
  BY <1>1, <1>2
<1>4. PICK c \in {s \o t}, M \in Nat, N \in Nat : c = s \o t /\ M = Len(s) /\ N = Len(t)
  BY <1>3, LenProperties
<1>5. c \in Seq(U) /\ Len(c) = M + N /\ (\A i \in 1 .. M : c[i] = s[i]) /\ (\A i \in 1 .. N : c[M + i] = t[i])
  BY <1>3, <1>4, ConcatProperties
<1>6. ASSUME NEW i \in 1 .. (M + N)
      PROVE  Known(own, m, u, c[i], k) /\ (Alone(c[i]) \/ (i + 1 \in 1 .. (M + N) /\ Leads(c[i], c[i + 1])))
  <2>1. CASE i <= M
    <3>1. i \in 1 .. M /\ c[i] = s[i]
      BY <2>1, <1>5
    <3>2. Known(own, m, u, s[i], k) /\ (Alone(s[i]) \/ (i + 1 \in 1 .. M /\ Leads(s[i], s[i + 1])))
      BY <3>1, <1>4 DEF PlanWell
    <3>3. ASSUME i + 1 \in 1 .. M PROVE i + 1 \in 1 .. (M + N) /\ c[i + 1] = s[i + 1]
      BY <3>3, <1>5
    <3> QED BY <3>1, <3>2, <3>3
  <2>2. CASE i > M
    <3>1. PICK j \in 1 .. N : i = M + j
      <4>1. i - M \in 1 .. N /\ i = M + (i - M)
        BY <2>2
      <4> QED BY <4>1
    <3>2. c[i] = t[j]
      BY <3>1, <1>5
    <3>3. Known(own, m, u, t[j], k) /\ (Alone(t[j]) \/ (j + 1 \in 1 .. N /\ Leads(t[j], t[j + 1])))
      BY <3>1, <1>4 DEF PlanWell
    <3>4. ASSUME j + 1 \in 1 .. N PROVE i + 1 \in 1 .. (M + N) /\ c[i + 1] = t[j + 1]
      <4>1. PICK l \in 1 .. N : l = j + 1
        BY <3>4
      <4>2. c[M + l] = t[l] /\ M + l = i + 1 /\ i + 1 \in 1 .. (M + N)
        BY <4>1, <3>1, <1>5
      <4> QED BY <4>1, <4>2
    <3> QED BY <3>2, <3>3, <3>4
  <2> QED BY <2>1, <2>2
<1>7. PlanWell(own, m, u, c, k)
  BY <1>5, <1>6 DEF PlanWell
<1> QED BY <1>4, <1>7

\* The fields of a command.
Sends(x, how, f, at, val) == x.how = how /\ x.f = f /\ x.at = at /\ x.val = val

\* What Must and Try make of their arguments.
LEMMA CommandFields ==
    ASSUME NEW how, NEW f, NEW at, NEW val PROVE Sends(Must(how, f, at, val), how, f, at, val) /\ Sends(Try(how, f, at, val), how, f, at, val)
BY DEF Sends, Must, Try

\* The programs of the handlers.
LEMMA CreateKeyPlan ==
    ASSUME NEW own, NEW m, NEW u, NEW n \in StKeys, NEW k, Owned(own, m, n, k)
    PROVE  PlanWell(own, m, u, CreateKey(n, k), 0)
<1>1. PICK x, y, z, w : /\ x = Must("set", "key", n, k) /\ y = Try("set", "hash", k.hash, n) /\ z = Try("set", "hash", k.prev, n)
                        /\ w = Try("setnx", "used", n, 0)
  OBVIOUS
<1>2. Sends(x, "set", "key", n, k) /\ Sends(y, "set", "hash", k.hash, n) /\ Sends(z, "set", "hash", k.prev, n) /\ Sends(w, "setnx", "used", n, 0)
  BY <1>1, CommandFields
<1>3. Known(own, m, u, x, 0) /\ Known(own, m, u, y, 0) /\ Leads(x, y) /\ Alone(y)
  BY <1>2 DEF Sends, Known, SetsKey, SetsHash, Leads, Alone, Hashing, Owned
<1>4. k.prev # Nil => Known(own, m, u, z, 0) /\ Alone(z)
  BY <1>2 DEF Sends, Known, SetsHash, Alone, Owned
<1>5. Known(own, m, u, w, 0) /\ Alone(w)
  BY <1>2 DEF Sends, Known, Seeds, Alone
<1>6. PICK a, b, c : a = <<x, y>> /\ b = (IF k.prev # Nil /\ k.prev # k.hash THEN <<z>> ELSE <<>>) /\ c = <<w>>
  OBVIOUS
<1>7. PlanWell(own, m, u, a, 0) /\ PlanWell(own, m, u, c, 0)
  BY <1>3, <1>5, <1>6, PlanOne, PlanTwo
<1>8. PlanWell(own, m, u, b, 0)
  <2>1. CASE k.prev # Nil /\ k.prev # k.hash
    BY <2>1, <1>4, <1>6, PlanOne
  <2>2. CASE ~(k.prev # Nil /\ k.prev # k.hash)
    BY <2>2, <1>6, PlanEmpty
  <2> QED BY <2>1, <2>2
<1>9. CreateKey(n, k) = a \o b \o c
  BY <1>1, <1>6 DEF CreateKey
<1>10. PICK ab : ab = a \o b
  OBVIOUS
<1>11. PlanWell(own, m, u, ab, 0)
  BY <1>7, <1>8, <1>10, PlanJoin
<1>12. PlanWell(own, m, u, ab \o c, 0)
  BY <1>7, <1>11, PlanJoin
<1> QED BY <1>9, <1>10, <1>12

\* The program that binds a key.
LEMMA BindPlan ==
    ASSUME NEW own, NEW m, NEW u, NEW h \in Hashes, NEW t \in StTeams PROVE PlanWell(own, m, u, BindKeyToTeam(h, t), 0)
<1>1. PICK x : x = Try("set", "bound", h, t)
  OBVIOUS
<1>2. Sends(x, "set", "bound", h, t)
  BY <1>1, CommandFields
<1>3. Known(own, m, u, x, 0) /\ Alone(x)
  BY <1>2 DEF Sends, Known, Binds, Alone
<1> QED BY <1>1, <1>3, PlanOne DEF BindKeyToTeam

\* The program of chargeQuota.
LEMMA ChargePlan ==
    ASSUME NEW own, NEW m, NEW u, NEW n \in StKeys, NEW t \in StTeams
    PROVE  PlanWell(own, m, u, DeductQuota(n) \o AddTeamCost(t), 0)
<1>1. PICK x, y, z, w : /\ x = Try("get", "key", n, 0) /\ y = Try("incr", "used", n, 1)
                        /\ z = Try("get", "team", t, 0) /\ w = Try("eval", "team", t, 1)
  OBVIOUS
<1>2. Sends(x, "get", "key", n, 0) /\ Sends(y, "incr", "used", n, 1) /\ Sends(z, "get", "team", t, 0) /\ Sends(w, "eval", "team", t, 1)
  BY <1>1, CommandFields
<1>3. Known(own, m, u, x, 0) /\ Known(own, m, u, y, 0) /\ Leads(x, y) /\ Alone(y)
  BY <1>2 DEF Sends, Known, Looks, ChargesKey, Leads, Alone
<1>4. Known(own, m, u, z, 0) /\ Known(own, m, u, w, 0) /\ Leads(z, w) /\ Alone(w)
  BY <1>2 DEF Sends, Known, Looks, ChargesTeam, Leads, Alone
<1>5. PICK a, b : a = <<x, y>> /\ b = <<z, w>>
  OBVIOUS
<1>6. PlanWell(own, m, u, a, 0) /\ PlanWell(own, m, u, b, 0)
  BY <1>3, <1>4, <1>5, PlanTwo
<1>7. PlanWell(own, m, u, a \o b, 0)
  BY <1>6, PlanJoin
<1> QED BY <1>1, <1>5, <1>7 DEF DeductQuota, AddTeamCost

\* The program of BudgetGate.
LEMMA GatePlan ==
    ASSUME NEW own, NEW m, NEW u, NEW n \in StKeys, NEW k \in Nat, k <= Counter(u[n])
    PROVE  PlanWell(own, m, u, <<Must("gate", "used", n, 0)>>, k)
<1>1. PICK x : x = Must("gate", "used", n, 0)
  OBVIOUS
<1>2. Sends(x, "gate", "used", n, 0)
  BY <1>1, CommandFields
<1>3. Known(own, m, u, x, k) /\ Alone(x)
  BY <1>2 DEF Sends, Known, Gates, Alone
<1> QED BY <1>1, <1>3, PlanOne

\* A call that sends nothing begins a program.
LEMMA SendKeeps ==
    ASSUME NEW own, NEW m, NEW d, NEW o, NEW z, KeysWell(own, m, d, o, z), NEW c \in StCalls, o[c].todo = <<>>,
           NEW own2, NEW m2 \in SUBSET Hashes, Growing(own, m, d.used, own2, m2, d.used),
           NEW s, NEW k, PlanWell(own2, m2, d.used, s, k), NEW o2, o2 = [o EXCEPT ![c] = [todo |-> s, seen |-> k]]
    PROVE  KeysWell(own2, m2, d, o2, z)
<1>1. /\ o2 = [b \in StCalls |-> o2[b]] /\ o2[c] = [todo |-> s, seen |-> k] /\ o2[c].todo = s /\ o2[c].seen = k
      /\ \A b \in StCalls : b # c => o2[b] = o[b]
  BY DEF KeysWell, KeysHold, CallsShaped
<1>2. CallsShaped(o2)
  <2>1. \A b \in StCalls : o2[b] = [todo |-> o2[b].todo, seen |-> o2[b].seen]
    BY <1>1 DEF KeysWell, KeysHold, CallsShaped
  <2> QED BY <1>1, <2>1 DEF CallsShaped
<1>3. ASSUME NEW b \in StCalls PROVE PlanWell(own2, m2, d.used, o2[b].todo, o2[b].seen)
  <2>1. CASE b = c
    BY <2>1, <1>1
  <2>2. CASE b # c
    <3>1. PICK t, j : t = o[b].todo /\ j = o[b].seen
      OBVIOUS
    <3>2. PlanWell(own, m, d.used, t, j)
      BY <3>1 DEF KeysWell, KeysHold
    <3>3. PlanWell(own2, m2, d.used, t, j)
      BY <3>2, PlanStays
    <3> QED BY <2>2, <1>1, <3>1, <3>3
  <2> QED BY <2>1, <2>2
<1>4. \A n \in StKeys : d.key[n] = Nil \/ Owned(own2, m2, n, d.key[n])
  <2> TAKE n \in StKeys
  <2>1. PICK k1 : k1 = d.key[n]
    OBVIOUS
  <2>2. k1 = Nil \/ Owned(own, m, n, k1)
    BY <2>1 DEF KeysWell, KeysHold
  <2>3. k1 = Nil \/ Owned(own2, m2, n, k1)
    BY <2>2, OwnedStays DEF Growing
  <2> QED BY <2>1, <2>3
<1>5. \A n, h : Pending(o, n, h) => Pending(o2, n, h)
  <2> SUFFICES ASSUME NEW n, NEW h, Pending(o, n, h) PROVE Pending(o2, n, h)
    OBVIOUS
  <2>1. PICK b \in StCalls : \E i \in 1 .. Len(o[b].todo) : Hashing(o[b].todo[i], n, h)
    BY DEF Pending
  <2>2. Len(<<>>) = 0
    BY EmptySeq
  <2>3. b # c
    BY <2>1, <2>2
  <2> QED BY <2>1, <2>3, <1>1 DEF Pending
<1> QED BY <1>2, <1>3, <1>4, <1>5 DEF KeysWell, KeysHold, Resolves

\* The owner of a hash that is generated.
OwnerSet(own, h, n) == [g \in Hashes |-> IF g = h THEN n ELSE own[g]]

\* A generated hash belongs to the key it is generated for.
LEMMA Minting ==
    ASSUME NEW own, NEW m \in SUBSET Hashes, NEW u, \A n \in StKeys : Counter(u[n]) \in Nat, NEW h \in Hashes, h \notin m, NEW n \in StKeys
    PROVE  Growing(own, m, u, OwnerSet(own, h, n), m \cup {h}, u) /\ OwnerSet(own, h, n)[h] = n
BY DEF Growing, OwnerSet, Up

\* Nothing is generated or counted.
LEMMA Staying ==
    ASSUME NEW own, NEW m, NEW u, \A n \in StKeys : Counter(u[n]) \in Nat PROVE Growing(own, m, u, own, m, u)
BY DEF Growing, Up

\* Entries as the handlers write them.
LEMMA NewOwned ==
    ASSUME NEW own, NEW m \in SUBSET Hashes, NEW h \in m, NEW n, own[h] = n, NEW t \in StTeams \cup {Nil}
    PROVE  Owned(own, m, n, NewKey(h, t))
BY DEF Owned, NewKey, KeyRec

\* The entry a rotation writes back.
LEMMA RotatedOwned ==
    ASSUME NEW own, NEW m \in SUBSET Hashes, NEW h \in m, NEW n, own[h] = n, NEW k, Owned(own, m, n, k)
    PROVE  Owned(own, m, n, [k EXCEPT !.hash = h, !.prev = k.hash])
<1>1. PICK r : r = [k EXCEPT !.hash = h, !.prev = k.hash]
  OBVIOUS
<1>2. r = [hash |-> h, prev |-> k.hash, status |-> k.status, tenant |-> k.tenant]
  BY <1>1 DEF Owned, KeyRec
<1>3. k.hash \in Hashes /\ k.hash \in m /\ own[k.hash] = n /\ k.status \in {"active", "revoked", "disabled"} /\ k.tenant \in StTeams \cup {Nil}
  BY DEF Owned, KeyRec
<1>4. Owned(own, m, n, r)
  BY <1>2, <1>3 DEF Owned, KeyRec
<1> QED BY <1>1, <1>4

\* The entry a change of status writes back.
LEMMA RestatusOwned ==
    ASSUME NEW own, NEW m \in SUBSET Hashes, NEW n, NEW k, Owned(own, m, n, k), NEW st \in {"active", "revoked", "disabled"}
    PROVE  Owned(own, m, n, [k EXCEPT !.status = st])
<1>1. PICK r : r = [k EXCEPT !.status = st]
  OBVIOUS
<1>2. r = [hash |-> k.hash, prev |-> k.prev, status |-> st, tenant |-> k.tenant]
  BY <1>1 DEF Owned, KeyRec
<1>3. Owned(own, m, n, r)
  BY <1>2 DEF Owned, KeyRec
<1> QED BY <1>1, <1>3

\* What a command does to keys and hashes.
KeyMoved(own, m, x, d, e) == SetsKey(own, m, x) /\ e.key = [d.key EXCEPT ![x.at] = x.val] /\ e.hash = d.hash
HashMoved(own, m, x, d, e) == SetsHash(own, m, x) /\ e.key = d.key /\ e.hash = [d.hash EXCEPT ![x.at] = x.val]
NeitherMoved(x, d, e) == (x.how = "set" => x.f = "bound") /\ e.key = d.key /\ e.hash = d.hash

\* A command writes a key, a hash, or neither.
LEMMA ExecKeys ==
    ASSUME NEW own, NEW m \in SUBSET Hashes, NEW u, NEW k, NEW d, DbShape(d), NEW x, Known(own, m, u, x, k), NEW e, e = Exec(d, x)
    PROVE  KeyMoved(own, m, x, d, e) \/ HashMoved(own, m, x, d, e) \/ NeitherMoved(x, d, e)
<1>1. CASE SetsKey(own, m, x)
  <2>1. x.how = "set" /\ x.f = "key" /\ x.at \in StKeys
    BY <1>1 DEF SetsKey
  <2>2. KeyTables(e, [d.key EXCEPT ![x.at] = x.val], d.hash, d.used)
    BY <2>1, ExecKey
  <2> QED BY <2>2, <1>1 DEF KeyTables, KeyMoved
<1>2. CASE SetsHash(own, m, x)
  <2>1. x.how = "set" /\ x.f = "hash" /\ x.at \in Hashes
    BY <1>2 DEF SetsHash
  <2>2. KeyTables(e, d.key, [d.hash EXCEPT ![x.at] = x.val], d.used)
    BY <2>1, ExecHash
  <2> QED BY <2>2, <1>2 DEF KeyTables, HashMoved
<1>3. CASE Binds(x)
  <2>1. SameKeys(d, e)
    BY <1>3, ExecBind DEF Binds
  <2> QED BY <2>1, <1>3 DEF SameKeys, KeyTables, NeitherMoved, Binds
<1>4. CASE Looks(x) \/ Gates(u, x, k)
  <2>1. e = d /\ x.how # "set"
    BY <1>4, ExecNothing DEF Looks, Gates
  <2> QED BY <2>1 DEF NeitherMoved
<1>5. CASE Seeds(x)
  <2>1. e.key = d.key /\ e.hash = d.hash
    BY <1>5, ExecSeed DEF KeyTables
  <2> QED BY <2>1, <1>5 DEF NeitherMoved, Seeds
<1>6. CASE ChargesKey(x)
  <2>1. e.key = d.key /\ e.hash = d.hash
    <3>1. KeyTables(e, d.key, d.hash, [d.used EXCEPT ![x.at] = Counter(d.used[x.at]) + 1])
      BY <1>6, ExecCharge
    <3> QED BY <3>1 DEF KeyTables
  <2> QED BY <2>1, <1>6 DEF NeitherMoved, ChargesKey
<1>7. CASE ChargesTeam(x)
  <2>1. e = addTeamCostScript(d, x.at, 1) /\ x.at \in StTeams /\ x.how # "set"
    BY <1>7, ExecScript DEF ChargesTeam
  <2>2. SameKeys(d, e)
    BY <2>1, ScriptIs
  <2> QED BY <2>1, <2>2 DEF SameKeys, KeyTables, NeitherMoved
<1> QED BY <1>1, <1>2, <1>3, <1>4, <1>5, <1>6, <1>7 DEF Known

\* The call c goes on with the program t; the database becomes e.
LEMMA HoldStep ==
    ASSUME NEW own, NEW m, NEW d, NEW o, KeysHold(own, m, d, o), NEW c \in StCalls, NEW t, NEW k, PlanWell(own, m, d.used, t, k),
           NEW o2, o2 = [o EXCEPT ![c] = [todo |-> t, seen |-> k]],
           NEW e, Growing(own, m, d.used, own, m, e.used), \A n \in StKeys : e.key[n] = d.key[n] \/ Owned(own, m, n, e.key[n])
    PROVE  KeysHold(own, m, e, o2)
<1>1. /\ o2 = [b \in StCalls |-> o2[b]] /\ o2[c] = [todo |-> t, seen |-> k] /\ o2[c].todo = t /\ o2[c].seen = k
      /\ \A b \in StCalls : b # c => o2[b] = o[b]
  BY DEF KeysHold, CallsShaped
<1>2. CallsShaped(o2)
  <2>1. \A b \in StCalls : o2[b] = [todo |-> o2[b].todo, seen |-> o2[b].seen]
    BY <1>1 DEF KeysHold, CallsShaped
  <2> QED BY <1>1, <2>1 DEF CallsShaped
<1>3. ASSUME NEW b \in StCalls PROVE PlanWell(own, m, e.used, o2[b].todo, o2[b].seen)
  <2>1. PICK s, j : s = o2[b].todo /\ j = o2[b].seen
    OBVIOUS
  <2>2. PlanWell(own, m, d.used, s, j)
    <3>1. CASE b = c
      BY <3>1, <1>1, <2>1
    <3>2. CASE b # c
      BY <3>2, <1>1, <2>1 DEF KeysHold
    <3> QED BY <3>1, <3>2
  <2>3. PlanWell(own, m, e.used, s, j)
    BY <2>2, PlanStays
  <2> QED BY <2>1, <2>3
<1> QED BY <1>2, <1>3 DEF KeysHold

\* A key that a command writes is one of its own.
LEMMA HoldExec ==
    ASSUME NEW own, NEW m, NEW d, DbShape(d), NEW o, KeysHold(own, m, d, o), NEW u, NEW k, NEW x, Known(own, m, u, x, k),
           NEW e, e \in {d, Exec(d, x)}
    PROVE  \A n \in StKeys : e.key[n] = d.key[n] \/ Owned(own, m, n, e.key[n])
<1>1. CASE e = d
  BY <1>1
<1>2. CASE e = Exec(d, x)
  <2>1. m \in SUBSET Hashes
    BY DEF KeysHold
  <2>2. KeyMoved(own, m, x, d, e) \/ HashMoved(own, m, x, d, e) \/ NeitherMoved(x, d, e)
    BY <1>2, <2>1, ExecKeys
  <2>3. d.key = [n \in StKeys |-> d.key[n]]
    BY DEF DbShape
  <2>4. KeyMoved(own, m, x, d, e) => \A n \in StKeys : e.key[n] = d.key[n] \/ Owned(own, m, n, e.key[n])
    BY <2>3 DEF KeyMoved, SetsKey
  <2> QED BY <2>2, <2>4 DEF HashMoved, NeitherMoved
<1> QED BY <1>1, <1>2

\* A hash that is to be written still is when the call goes on, unless the
\* command that was sent wrote it.
Onto(x, s, t) == t = Tail(s) \/ (x.how = "get" /\ t = Tail(Tail(s)))
Goes(own, m, d, o, c, s, x, t, k, o2) ==
  /\ KeysHold(own, m, d, o) /\ c \in StCalls /\ s = o[c].todo /\ s # <<>>
  /\ x = Head(s) /\ Onto(x, s, t) /\ o2 = [o EXCEPT ![c] = [todo |-> t, seen |-> k]]

\* Goes(...) is a call going on from s to t past the command x.
LEMMA PendingStep ==
    ASSUME NEW own, NEW m, NEW d, NEW o, NEW c, NEW s, NEW x, NEW t, NEW k, NEW o2, Goes(own, m, d, o, c, s, x, t, k, o2),
           NEW n, NEW h, Pending(o, n, h)
    PROVE  Hashing(x, n, h) \/ Pending(o2, n, h)
<1>0. /\ KeysHold(own, m, d, o) /\ c \in StCalls /\ s = o[c].todo /\ s # <<>>
      /\ x = Head(s) /\ Onto(x, s, t) /\ o2 = [o EXCEPT ![c] = [todo |-> t, seen |-> k]]
  BY DEF Goes
<1> USE <1>0
<1>1. o2[c].todo = t /\ \A b \in StCalls : b # c => o2[b] = o[b]
  BY DEF KeysHold, CallsShaped
<1>2. PICK b \in StCalls : \E i \in 1 .. Len(o[b].todo) : Hashing(o[b].todo[i], n, h)
  BY DEF Pending
<1>3. CASE b # c
  BY <1>1, <1>2, <1>3 DEF Pending
<1>4. CASE b = c
  <2>1. PICK i \in 1 .. Len(s) : Hashing(s[i], n, h)
    BY <1>2, <1>4
  <2>2. PICK j : PlanWell(own, m, d.used, s, j)
    BY DEF KeysHold
  <2>3. PICK r : r = Tail(s)
    OBVIOUS
  <2>4. /\ PlanWell(own, m, d.used, r, j) /\ x = s[1] /\ Len(s) \in Nat /\ Len(s) > 0
        /\ Len(r) = Len(s) - 1 /\ (\A l \in 1 .. Len(s) - 1 : r[l] = s[l + 1])
        /\ Alone(x) \/ (r # <<>> /\ Leads(x, Head(r)))
    <3>1. PlanCut(own, m, d.used, s, Tail(s), j) /\ Head(s) = s[1]
      BY <2>2, PlanCuts
    <3>2. PlanCut(own, m, d.used, s, r, j) /\ x = s[1]
      BY <3>1, <2>3
    <3> QED BY <3>2 DEF PlanCut
  <2>5. CASE i = 1
    BY <2>1, <2>4, <2>5
  <2>6. CASE i # 1
    <3>1. PICK l \in 1 .. Len(r) : r[l] = s[i] /\ l = i - 1
      <4>1. i - 1 \in 1 .. Len(r) /\ i - 1 \in 1 .. Len(s) - 1 /\ (i - 1) + 1 = i
        BY <2>4, <2>6
      <4> QED BY <4>1, <2>4
    <3>2. CASE t = r
      BY <3>1, <3>2, <2>1, <1>1 DEF Pending
    <3>3. CASE t # r
      <4>1. x.how = "get" /\ t = Tail(r)
        BY <3>3, <2>3 DEF Onto
      <4>2. r # <<>> /\ Leads(x, Head(r))
        BY <4>1, <2>4 DEF Alone
      <4>3. /\ Head(r) = r[1] /\ Len(r) \in Nat /\ Len(t) = Len(r) - 1 /\ (\A p \in 1 .. Len(r) - 1 : t[p] = r[p + 1])
        BY <2>4, <4>1, <4>2, PlanTail
      <4>4. l # 1
        <5>1. r[1].how \in {"incr", "eval"}
          BY <4>1, <4>2, <4>3 DEF Leads
        <5> QED BY <5>1, <3>1, <2>1 DEF Hashing
      <4>5. l - 1 \in 1 .. Len(t) /\ l - 1 \in 1 .. Len(r) - 1 /\ (l - 1) + 1 = l
        BY <4>3, <4>4
      <4>6. t[l - 1] = s[i]
        BY <4>3, <4>5, <3>1
      <4> QED BY <4>5, <4>6, <2>1, <1>1 DEF Pending
    <3> QED BY <3>2, <3>3
  <2> QED BY <2>5, <2>6
<1> QED BY <1>3, <1>4

\* Without faults a key is found by its hash, or the hash is still to be written.
LEMMA ResolveStep ==
    ASSUME NEW own, NEW m, NEW d, NEW o, NEW c, NEW s, NEW x, NEW t, NEW k, NEW o2, Goes(own, m, d, o, c, s, x, t, k, o2),
           DbShape(d), Resolves(d, o), NEW e, e = Exec(d, x)
    PROVE  Resolves(e, o2)
<1>10. /\ KeysHold(own, m, d, o) /\ c \in StCalls /\ s = o[c].todo /\ s # <<>>
       /\ x = Head(s) /\ Onto(x, s, t) /\ o2 = [o EXCEPT ![c] = [todo |-> t, seen |-> k]]
  BY DEF Goes
<1> USE <1>10
<1>0. PICK j : PlanWell(own, m, d.used, s, j)
  BY DEF KeysHold
<1>1. /\ Known(own, m, d.used, x, j) /\ Len(s) > 0 /\ Len(s) \in Nat
      /\ Alone(x) \/ (Tail(s) # <<>> /\ Leads(x, Head(Tail(s))))
      /\ PlanWell(own, m, d.used, Tail(s), j)
  BY <1>0, PlanTail
<1>2. m \in SUBSET Hashes
  BY DEF KeysHold
<1>3. KeyMoved(own, m, x, d, e) \/ HashMoved(own, m, x, d, e) \/ NeitherMoved(x, d, e)
  BY <1>1, <1>2, ExecKeys
<1>4. d.key = [n \in StKeys |-> d.key[n]] /\ d.hash = [h \in Hashes |-> d.hash[h]]
  BY DEF DbShape
<1>5. o2[c].todo = t
  BY DEF KeysHold, CallsShaped
<1>6. ASSUME NEW n \in StKeys, d.key[n] # Nil
      PROVE  /\ d.key[n].hash \in m /\ own[d.key[n].hash] = n
             /\ d.hash[d.key[n].hash] = n \/ Hashing(x, n, d.key[n].hash) \/ Pending(o2, n, d.key[n].hash)
  <2>1. PICK h : h = d.key[n].hash
    OBVIOUS
  <2>2. d.hash[h] = n \/ Pending(o, n, h)
    BY <1>6, <2>1 DEF Resolves
  <2>3. Pending(o, n, h) => Hashing(x, n, h) \/ Pending(o2, n, h)
    BY PendingStep
  <2>4. h \in m /\ own[h] = n
    BY <1>6, <2>1 DEF KeysHold, Owned
  <2> QED BY <2>1, <2>2, <2>3, <2>4
<1>7. CASE KeyMoved(own, m, x, d, e)
  <2>1. x.how = "set" /\ x.f = "key" /\ x.at \in StKeys /\ e.hash = d.hash /\ e.key = [d.key EXCEPT ![x.at] = x.val]
    BY <1>7 DEF KeyMoved, SetsKey
  <2>2. t = Tail(s) /\ t # <<>> /\ Hashing(Head(t), x.at, x.val.hash) /\ \A n, h : ~Hashing(x, n, h)
    BY <2>1, <1>1 DEF Onto, Alone, Leads, Hashing
  <2>3. Pending(o2, x.at, x.val.hash)
    <3>1. Head(t) = t[1] /\ Len(t) \in Nat /\ Len(t) > 0
      BY <1>1, <2>2, PlanTail
    <3>2. 1 \in 1 .. Len(t)
      BY <3>1
    <3> QED BY <3>1, <3>2, <2>2, <1>5 DEF Pending
  <2>4. ASSUME NEW n \in StKeys, e.key[n] # Nil PROVE e.hash[e.key[n].hash] = n \/ Pending(o2, n, e.key[n].hash)
    <3>1. CASE n = x.at
      BY <3>1, <2>1, <2>3, <1>4
    <3>2. CASE n # x.at
      <4>1. e.key[n] = d.key[n]
        BY <3>2, <2>1, <1>4
      <4> QED BY <4>1, <2>1, <2>2, <2>4, <1>6
    <3> QED BY <3>1, <3>2
  <2> QED BY <2>4 DEF Resolves
<1>8. CASE HashMoved(own, m, x, d, e)
  <2>1. x.at \in Hashes /\ x.val = own[x.at] /\ e.key = d.key /\ e.hash = [d.hash EXCEPT ![x.at] = x.val]
    BY <1>8, <1>2 DEF HashMoved, SetsHash
  <2>2. ASSUME NEW n \in StKeys, e.key[n] # Nil PROVE e.hash[e.key[n].hash] = n \/ Pending(o2, n, e.key[n].hash)
    <3>1. PICK h : h = d.key[n].hash
      OBVIOUS
    <3>2. h \in Hashes /\ own[h] = n /\ (d.hash[h] = n \/ Hashing(x, n, h) \/ Pending(o2, n, h))
      BY <2>1, <2>2, <3>1, <1>2, <1>6
    <3>3. CASE h = x.at
      <4>1. e.hash[h] = x.val /\ x.val = n /\ e.key[n].hash = h
        BY <3>1, <3>2, <3>3, <2>1, <1>4
      <4> QED BY <4>1
    <3>4. CASE h # x.at
      BY <3>1, <3>2, <3>4, <2>1, <1>4 DEF Hashing
    <3> QED BY <3>3, <3>4
  <2> QED BY <2>2 DEF Resolves
<1>9. CASE NeitherMoved(x, d, e)
  <2>1. e.key = d.key /\ e.hash = d.hash /\ \A n, h : ~Hashing(x, n, h)
    BY <1>9 DEF NeitherMoved, Hashing
  <2> QED BY <2>1, <1>6 DEF Resolves
<1> QED BY <1>3, <1>7, <1>8, <1>9

\* What is left of a plan is one.
LEMMA PlanOnto ==
    ASSUME NEW own, NEW m, NEW u, NEW s, NEW k, PlanWell(own, m, u, s, k), s # <<>>, NEW x, x = Head(s), NEW t, Onto(x, s, t)
    PROVE  PlanWell(own, m, u, t, k)
<1>1. PICK r : r = Tail(s)
  OBVIOUS
<1>2. PlanWell(own, m, u, r, k) /\ (Alone(x) \/ (r # <<>> /\ Leads(x, Head(r))))
  BY <1>1, PlanTail
<1>3. CASE t = r
  BY <1>2, <1>3
<1>4. CASE t # r
  <2>1. x.how = "get" /\ t = Tail(r) /\ r # <<>>
    BY <1>1, <1>2, <1>4 DEF Onto, Alone
  <2> QED BY <2>1, <1>2, PlanTail
<1> QED BY <1>3, <1>4

\* The handlers begin their programs.
LEMMA CounterNat == ASSUME NEW bk, NEW d, NEW a, Counted(bk, d, a) PROVE \A n \in StKeys : Counter(d.used[n]) \in Nat
BY DEF Counted, KeyCounts, Counter

\* A call that was free begins the program s.
LEMMA SendStep ==
    ASSUME KeyInv, NEW c \in StCalls, Free(c), OnlyOp, NEW own, KeysWell(own, minted, db, op, faults), NEW own2, minted' \subseteq Hashes,
           Growing(own, minted, db.used, own2, minted', db.used), NEW s, NEW k, PlanWell(own2, minted', db.used, s, k), Send(c, s, k)
    PROVE  KeyInv'
<1>1. UNCHANGED <<backend, db, acks, late, faults, today>> /\ backend = "redis" /\ op[c].todo = <<>>
      /\ op' = [op EXCEPT ![c] = [todo |-> s, seen |-> k]]
  BY DEF OnlyOp, Free, Send
<1>2. PICK m2, o2 : m2 = minted' /\ o2 = op'
  OBVIOUS
<1>3. KeysWell(own2, m2, db, o2, faults)
  BY <1>1, <1>2, SendKeeps
<1>4. \E w : KeysWell(w, minted', db', op', faults')
  BY <1>1, <1>2, <1>3
<1>5. ChargeInv'
  BY <1>1 DEF KeyInv, ChargeInv
<1> QED BY <1>1, <1>4, <1>5 DEF KeyInv, RefInv

\* Keys are created, for a tenant or for none.
LEMMA CreateSteps ==
    ASSUME KeyInv, NEW c \in StCalls, handleKeys(c) \/ handleUserKeyCreate(c) PROVE KeyInv'
<1>1. PICK own : KeysWell(own, minted, db, op, faults)
  BY DEF KeyInv
<1>2. minted \in SUBSET Hashes /\ \A n \in StKeys : Counter(db.used[n]) \in Nat
  BY <1>1, CounterNat DEF KeysWell, KeysHold, KeyInv, ChargeInv
<1>3. ASSUME NEW n \in StKeys, NEW h \in Hashes, generateUserAPIKey(h), NEW t \in StTeams \cup {Nil}
      PROVE  /\ minted' \subseteq Hashes /\ Growing(own, minted, db.used, OwnerSet(own, h, n), minted', db.used)
             /\ PlanWell(OwnerSet(own, h, n), minted', db.used, CreateKey(n, NewKey(h, t)), 0)
  <2>1. PICK m, own2 : m = minted' /\ own2 = OwnerSet(own, h, n)
    OBVIOUS
  <2>2. h \notin minted /\ m = minted \cup {h} /\ m \in SUBSET Hashes /\ h \in m
    BY <2>1, <1>2, <1>3 DEF generateUserAPIKey
  <2>3. Growing(own, minted, db.used, own2, m, db.used) /\ own2[h] = n
    BY <2>1, <2>2, <1>2, Minting
  <2>4. Owned(own2, m, n, NewKey(h, t))
    BY <2>2, <2>3, NewOwned
  <2>5. PlanWell(own2, m, db.used, CreateKey(n, NewKey(h, t)), 0)
    BY <2>4, CreateKeyPlan
  <2> QED BY <2>1, <2>2, <2>3, <2>5
<1>4. CASE handleKeys(c)
  <2>1. PICK n \in StKeys, h \in Hashes : generateUserAPIKey(h) /\ Send(c, CreateKey(n, NewKey(h, Nil)), 0)
    BY <1>4 DEF handleKeys
  <2>2. Free(c) /\ OnlyOp
    BY <1>4 DEF handleKeys
  <2>3. PICK own2, s : own2 = OwnerSet(own, h, n) /\ s = CreateKey(n, NewKey(h, Nil))
    OBVIOUS
  <2>4. /\ minted' \subseteq Hashes /\ Growing(own, minted, db.used, own2, minted', db.used)
        /\ PlanWell(own2, minted', db.used, s, 0)
    BY <2>1, <2>3, <1>3
  <2>5. Send(c, s, 0)
    BY <2>1, <2>3
  <2> QED BY <2>2, <2>4, <2>5, <1>1, SendStep
<1>5. CASE handleUserKeyCreate(c)
  <2>1. PICK n \in StKeys, h \in Hashes, t \in StTeams :
          generateUserAPIKey(h) /\ Send(c, CreateKey(n, NewKey(h, t)) \o BindKeyToTeam(h, t), 0)
    BY <1>5 DEF handleUserKeyCreate
  <2>2. Free(c) /\ OnlyOp
    BY <1>5 DEF handleUserKeyCreate
  <2>3. PICK own2, s, b : own2 = OwnerSet(own, h, n) /\ s = CreateKey(n, NewKey(h, t)) /\ b = BindKeyToTeam(h, t)
    OBVIOUS
  <2>4. /\ minted' \subseteq Hashes /\ Growing(own, minted, db.used, own2, minted', db.used)
        /\ PlanWell(own2, minted', db.used, s, 0)
    BY <2>1, <2>3, <1>3
  <2>5. PlanWell(own2, minted', db.used, b, 0)
    BY <2>3, BindPlan
  <2>6. PlanWell(own2, minted', db.used, s \o b, 0)
    BY <2>4, <2>5, PlanJoin
  <2>7. Send(c, s \o b, 0)
    BY <2>1, <2>3
  <2> QED BY <2>2, <2>4, <2>6, <2>7, <1>1, SendStep
<1> QED BY <1>4, <1>5

\* A key is rotated.
LEMMA RotateStep == ASSUME KeyInv, NEW c \in StCalls, handleUserKeyRotate(c) PROVE KeyInv'
<1>1. PICK own : KeysWell(own, minted, db, op, faults)
  BY DEF KeyInv
<1>2. minted \in SUBSET Hashes /\ \A n \in StKeys : Counter(db.used[n]) \in Nat
  BY <1>1, CounterNat DEF KeysWell, KeysHold, KeyInv, ChargeInv
<1>0. PICK n \in StKeys, h \in Hashes :
        /\ db.key[n] # Nil /\ generateUserAPIKey(h)
        /\ Send(c, (IF db.key[n].tenant = Nil THEN <<>> ELSE BindKeyToTeam(h, db.key[n].tenant)) \o
                   UpdateKey(n, [db.key[n] EXCEPT !.hash = h, !.prev = db.key[n].hash]), 0)
  BY DEF handleUserKeyRotate
<1>3. PICK entry :
        /\ entry = db.key[n] /\ entry # Nil /\ generateUserAPIKey(h)
        /\ Send(c, (IF entry.tenant = Nil THEN <<>> ELSE BindKeyToTeam(h, entry.tenant)) \o
                   UpdateKey(n, [entry EXCEPT !.hash = h, !.prev = entry.hash]), 0)
  BY <1>0
<1>4. Free(c) /\ OnlyOp
  BY DEF handleUserKeyRotate
<1>5. PICK m, own2, k, b : /\ m = minted' /\ own2 = OwnerSet(own, h, n) /\ k = [entry EXCEPT !.hash = h, !.prev = entry.hash]
                           /\ b = IF entry.tenant = Nil THEN <<>> ELSE BindKeyToTeam(h, entry.tenant)
  OBVIOUS
<1>6. h \notin minted /\ m = minted \cup {h} /\ m \in SUBSET Hashes /\ h \in m
  BY <1>2, <1>3, <1>5 DEF generateUserAPIKey
<1>7. Growing(own, minted, db.used, own2, m, db.used) /\ own2[h] = n
  <2>1. h \notin minted
    BY <1>6
  <2>2. Growing(own, minted, db.used, OwnerSet(own, h, n), minted \cup {h}, db.used) /\ OwnerSet(own, h, n)[h] = n
    BY <1>2, <2>1, Minting
  <2> QED BY <2>2, <1>5, <1>6
<1>8. Owned(own2, m, n, entry)
  <2>1. Owned(own, minted, n, entry)
    BY <1>1, <1>3 DEF KeysWell, KeysHold
  <2> QED BY <2>1, <1>7, OwnedStays DEF Growing
<1>9. Owned(own2, m, n, k)
  BY <1>5, <1>6, <1>7, <1>8, RotatedOwned
<1>10. PlanWell(own2, m, db.used, CreateKey(n, k), 0)
  BY <1>9, CreateKeyPlan
<1>11. PlanWell(own2, m, db.used, b, 0)
  <2>1. entry.tenant \in StTeams \cup {Nil}
    BY <1>8 DEF Owned, KeyRec
  <2>2. CASE entry.tenant = Nil
    BY <2>2, <1>5, PlanEmpty
  <2>3. CASE entry.tenant # Nil
    BY <2>1, <2>3, <1>5, BindPlan
  <2> QED BY <2>2, <2>3
<1>12. PICK s : s = b \o CreateKey(n, k)
  OBVIOUS
<1>13. PlanWell(own2, m, db.used, s, 0)
  BY <1>10, <1>11, <1>12, PlanJoin
<1>14. Send(c, s, 0)
  BY <1>3, <1>5, <1>12 DEF UpdateKey
<1>15. /\ minted' \subseteq Hashes /\ Growing(own, minted, db.used, own2, minted', db.used)
       /\ PlanWell(own2, minted', db.used, s, 0)
  BY <1>5, <1>6, <1>7, <1>13
<1> QED BY <1>1, <1>4, <1>14, <1>15, SendStep

\* The handlers that generate no hash.
LEMMA QuietSends ==
    ASSUME KeyInv, NEW c \in StCalls, handleUserKeyRevoke(c) \/ handleKeyByID(c) \/ chargeQuota(c) \/ BudgetGate(c) PROVE KeyInv'
<1>1. PICK own : KeysWell(own, minted, db, op, faults)
  BY DEF KeyInv
<1>2. minted \in SUBSET Hashes /\ \A n \in StKeys : Counter(db.used[n]) \in Nat
  BY <1>1, CounterNat DEF KeysWell, KeysHold, KeyInv, ChargeInv
<1>3. Free(c) /\ OnlyOp /\ minted' = minted
  BY DEF handleUserKeyRevoke, handleKeyByID, chargeQuota, BudgetGate
<1>4. ASSUME NEW s, NEW k, PlanWell(own, minted, db.used, s, k), Send(c, s, k) PROVE KeyInv'
  <2>1. Growing(own, minted, db.used, own, minted, db.used)
    BY <1>2, Staying
  <2>2. minted' \subseteq Hashes /\ Growing(own, minted, db.used, own, minted', db.used) /\ PlanWell(own, minted', db.used, s, k)
    BY <2>1, <1>2, <1>3, <1>4
  <2> QED BY <2>2, <1>1, <1>3, <1>4, SendStep
<1>5. ASSUME NEW n \in StKeys, db.key[n] # Nil, NEW st \in {"active", "revoked", "disabled"}, Restatus(c, n, st) PROVE KeyInv'
  <2>1. PICK k, r : k = db.key[n] /\ r = [k EXCEPT !.status = st]
    OBVIOUS
  <2>2. Owned(own, minted, n, k)
    BY <1>1, <1>5, <2>1 DEF KeysWell, KeysHold
  <2>3. Owned(own, minted, n, r)
    BY <2>1, <2>2, <1>2, RestatusOwned
  <2>4. PlanWell(own, minted, db.used, CreateKey(n, r), 0)
    BY <2>3, CreateKeyPlan
  <2>5. Send(c, CreateKey(n, r), 0)
    BY <2>1, <1>5 DEF Restatus, UpdateKey
  <2> QED BY <2>4, <2>5, <1>4
<1>6. CASE handleUserKeyRevoke(c)
  <2>1. PICK n \in StKeys : db.key[n] # Nil /\ Restatus(c, n, "revoked")
    BY <1>6 DEF handleUserKeyRevoke
  <2> QED BY <2>1, <1>5
<1>7. CASE handleKeyByID(c)
  <2>1. PICK n \in StKeys, st \in {"active", "disabled"} : db.key[n] # Nil /\ Restatus(c, n, st)
    BY <1>7 DEF handleKeyByID
  <2> QED BY <2>1, <1>5
<1>8. CASE chargeQuota(c)
  <2>1. PICK n \in StKeys, t \in StTeams : Send(c, DeductQuota(n) \o AddTeamCost(t), 0)
    BY <1>8 DEF chargeQuota
  <2>2. PlanWell(own, minted, db.used, DeductQuota(n) \o AddTeamCost(t), 0)
    BY ChargePlan
  <2> QED BY <2>1, <2>2, <1>4
<1>9. CASE BudgetGate(c)
  <2>1. PICK n \in StKeys : Send(c, <<Must("gate", "used", n, 0)>>, acks.key[n])
    BY <1>9 DEF BudgetGate
  <2>2. PICK k \in Nat : k = acks.key[n] /\ k <= Counter(db.used[n])
    BY DEF KeyInv, ChargeInv, Counted, KeyCounts
  <2>3. PlanWell(own, minted, db.used, <<Must("gate", "used", n, 0)>>, k)
    BY <2>2, GatePlan
  <2> QED BY <2>1, <2>2, <2>3, <1>4
<1> QED BY <1>6, <1>7, <1>8, <1>9

\* The program of a call is replaced.
LEMMA TodoSet ==
    ASSUME NEW o, CallsShaped(o), NEW c \in StCalls, NEW t
    PROVE  [o EXCEPT ![c].todo = t] = [o EXCEPT ![c] = [todo |-> t, seen |-> o[c].seen]]
<1>1. PICK q, r : q = o[c] /\ r = [q EXCEPT !.todo = t]
  OBVIOUS
<1>2. q = [todo |-> q.todo, seen |-> q.seen]
  BY <1>1 DEF CallsShaped
<1>3. r = [todo |-> t, seen |-> q.seen]
  BY <1>1, <1>2
<1>4. [o EXCEPT ![c].todo = t] = [o EXCEPT ![c] = r]
  BY <1>1
<1> QED BY <1>1, <1>3, <1>4

\* A command is sent and answered.
LEMMA CommandStep == ASSUME KeyInv, NEW c \in StCalls, Command(c) PROVE KeyInv'
<1>1. PICK own : KeysWell(own, minted, db, op, faults)
  BY DEF KeyInv
<1>2. PICK d, o, s, k, x, e, b : /\ d = db /\ o = op /\ s = op[c].todo /\ k = op[c].seen /\ x = Head(s) /\ e = db' /\ b = acks'
  OBVIOUS
<1>3. PICK t : op' = [op EXCEPT ![c].todo = t] /\ Onto(x, s, t)
  <2>1. op' = [op EXCEPT ![c].todo = IF x.how = "get" /\ db[x.f][x.at] = Nil THEN Tail(Tail(s)) ELSE Tail(s)]
    BY <1>2 DEF Command
  <2>2. PICK t : t = IF x.how = "get" /\ db[x.f][x.at] = Nil THEN Tail(Tail(s)) ELSE Tail(s)
    OBVIOUS
  <2>3. op' = [op EXCEPT ![c].todo = t]
    BY <2>1, <2>2
  <2>4. Onto(x, s, t)
    BY <2>2 DEF Onto
  <2> QED BY <2>3, <2>4
<1>4. s # <<>> /\ e = Exec(d, x) /\ b = Acked(x, acks) /\ UNCHANGED <<backend, minted, faults, today>>
  BY <1>2 DEF Command, Acked
<1>5. backend = "redis"
  BY <1>2, <1>4 DEF KeyInv, RefInv
<1>6. KeysHold(own, minted, d, o) /\ CallsShaped(o) /\ PlanWell(own, minted, d.used, s, k) /\ minted \in SUBSET Hashes
  BY <1>1, <1>2 DEF KeysWell, KeysHold
<1>7. op' = [o EXCEPT ![c] = [todo |-> t, seen |-> k]]
  <2>1. [o EXCEPT ![c].todo = t] = [o EXCEPT ![c] = [todo |-> t, seen |-> o[c].seen]]
    BY <1>6, TodoSet
  <2> QED BY <2>1, <1>2, <1>3
<1>8. PICK o2 : o2 = op'
  OBVIOUS
<1>9. Goes(own, minted, d, o, c, s, x, t, k, o2)
  BY <1>2, <1>3, <1>4, <1>6, <1>7, <1>8 DEF Goes
<1>10. Known(own, minted, d.used, x, k)
  BY <1>2, <1>4, <1>6, PlanTail
<1>11. DbShape(d) /\ Counted(backend, d, acks) /\ today \in 1 .. StDays
  BY <1>2 DEF KeyInv, ChargeInv
<1>12. DbShape(e) /\ Counted(backend, e, b) /\ Up(d.used, e.used)
  <2>1. b \in {acks, Acked(x, acks)}
    BY <1>4
  <2> QED BY <2>1, <1>4, <1>6, <1>10, <1>11, ExecCounts
<1>13. PlanWell(own, minted, d.used, t, k)
  BY <1>3, <1>4, <1>6, <1>2, PlanOnto
<1>14. Growing(own, minted, d.used, own, minted, e.used)
  BY <1>11, <1>12, CounterNat DEF Growing
<1>15. \A n \in StKeys : e.key[n] = d.key[n] \/ Owned(own, minted, n, e.key[n])
  BY <1>4, <1>6, <1>10, <1>11, HoldExec
<1>16. KeysHold(own, minted, e, o2)
  BY <1>6, <1>7, <1>8, <1>13, <1>14, <1>15, HoldStep
<1>17. faults = 0 => Resolves(e, o2)
  <2>1. faults = 0 => Resolves(d, o)
    BY <1>1, <1>2 DEF KeysWell
  <2> QED BY <2>1, <1>4, <1>9, <1>11, ResolveStep
<1>18. KeysWell(own, minted', db', op', faults')
  BY <1>2, <1>4, <1>8, <1>16, <1>17 DEF KeysWell
<1>19. late' = FALSE
  <2>1. ~(x.how = "gate" /\ CheckQuota(x.at) /\ op[c].seen >= KeyLimit)
    <3> SUFFICES ASSUME x.how = "gate", op[c].seen >= KeyLimit PROVE ~CheckQuota(x.at)
      OBVIOUS
    <3>1. x.at \in StKeys /\ k <= Counter(d.used[x.at])
      BY <1>10 DEF Known, SetsKey, SetsHash, Binds, Seeds, Looks, ChargesKey, ChargesTeam, Gates
    <3>2. Counter(d.used[x.at]) \in Nat /\ k \in Nat /\ KeyLimit \in Nat
      BY <3>1, <1>6, <1>11, CounterNat, StoresAssumption DEF PlanWell
    <3> QED BY <3>1, <3>2, <1>2 DEF CheckQuota
  <2>2. late = FALSE
    BY DEF KeyInv, ChargeInv
  <2>3. late' = (late \/ (x.how = "gate" /\ CheckQuota(x.at) /\ op[c].seen >= KeyLimit))
    BY <1>2 DEF Command
  <2> QED BY <2>1, <2>2, <2>3
<1>20. ChargeInv'
  BY <1>2, <1>4, <1>11, <1>12, <1>19 DEF ChargeInv
<1> QED BY <1>2, <1>4, <1>5, <1>12, <1>18, <1>20 DEF KeyInv, RefInv

\* A command fails or the gateway dies: the call goes on with the program t, or
\* ends, and nothing is acknowledged.
LEMMA FaultStep ==
    ASSUME KeyInv, NEW own, KeysWell(own, minted, db, op, faults), NEW c \in StCalls, op[c].todo # <<>>,
           NEW t, NEW k, PlanWell(own, minted, db.used, t, k), op' = [op EXCEPT ![c] = [todo |-> t, seen |-> k]],
           db' \in {db, Exec(db, Head(op[c].todo))}, faults' = faults + 1, UNCHANGED <<backend, minted, acks, late, today>>
    PROVE  KeyInv'
<1>2. PICK d, o, s, x, e, o2, j : /\ d = db /\ o = op /\ s = op[c].todo /\ x = Head(s) /\ e = db' /\ o2 = op' /\ j = op[c].seen
  OBVIOUS
<1>3. s # <<>> /\ e \in {d, Exec(d, x)} /\ o2 = [o EXCEPT ![c] = [todo |-> t, seen |-> k]]
  BY <1>2
<1>5. backend = "redis"
  BY DEF KeyInv, RefInv
<1>6. KeysHold(own, minted, d, o) /\ PlanWell(own, minted, d.used, s, j) /\ minted \in SUBSET Hashes
  BY <1>2 DEF KeysWell, KeysHold
<1>10. Known(own, minted, d.used, x, j)
  BY <1>2, <1>3, <1>6, PlanTail
<1>11. DbShape(d) /\ Counted(backend, d, acks) /\ today \in 1 .. StDays
  BY <1>2 DEF KeyInv, ChargeInv
<1>12. DbShape(e) /\ Counted(backend, e, acks) /\ Up(d.used, e.used)
  <2>1. CASE e = Exec(d, x)
    <3>1. PICK b : b = acks
      OBVIOUS
    <3>2. b \in {acks, Acked(x, acks)}
      BY <3>1
    <3>3. DbShape(e) /\ Counted(backend, e, b) /\ Up(d.used, e.used)
      BY <3>2, <2>1, <1>6, <1>10, <1>11, ExecCounts
    <3> QED BY <3>1, <3>3
  <2>2. CASE e = d
    <3>1. Up(d.used, d.used)
      BY <1>11, CounterNat DEF Up
    <3> QED BY <2>2, <3>1, <1>11
  <2> QED BY <1>3, <2>1, <2>2
<1>13. PlanWell(own, minted, d.used, t, k)
  BY <1>2
<1>14. Growing(own, minted, d.used, own, minted, e.used)
  BY <1>11, <1>12, CounterNat DEF Growing
<1>15. \A n \in StKeys : e.key[n] = d.key[n] \/ Owned(own, minted, n, e.key[n])
  BY <1>3, <1>6, <1>10, <1>11, HoldExec
<1>16. KeysHold(own, minted, e, o2)
  BY <1>3, <1>6, <1>13, <1>14, <1>15, HoldStep
<1>17. faults' \in Nat /\ faults' # 0
  BY DEF KeyInv
<1>18. KeysWell(own, minted', db', op', faults')
  BY <1>2, <1>16, <1>17 DEF KeysWell
<1>20. ChargeInv'
  BY <1>2, <1>12 DEF ChargeInv, KeyInv
<1> QED BY <1>2, <1>5, <1>12, <1>17, <1>18, <1>20 DEF KeyInv, RefInv

\* A command fails, or the gateway dies.
LEMMA FaultSteps == ASSUME KeyInv, NEW c \in StCalls, CommandFails(c) \/ GatewayDies(c) PROVE KeyInv'
<1>1. PICK own : KeysWell(own, minted, db, op, faults)
  BY DEF KeyInv
<1>2. PICK o, s, k, x : o = op /\ s = op[c].todo /\ k = op[c].seen /\ x = Head(s)
  OBVIOUS
<1>3. CallsShaped(o) /\ PlanWell(own, minted, db.used, s, k)
  BY <1>1, <1>2 DEF KeysWell, KeysHold
<1>4. k \in Nat
  BY <1>3 DEF PlanWell
<1>5. CASE CommandFails(c)
  <2>1. PICK t : op' = [o EXCEPT ![c].todo = t] /\ (t = <<>> \/ Onto(x, s, t))
    <3>1. PICK t : t = IF x.must THEN <<>> ELSE IF x.how = "get" THEN Tail(Tail(s)) ELSE Tail(s)
      OBVIOUS
    <3>2. op' = [op EXCEPT ![c].todo = IF x.must THEN <<>> ELSE IF x.how = "get" THEN Tail(Tail(s)) ELSE Tail(s)]
      BY <1>5, <1>2 DEF CommandFails
    <3> QED BY <3>1, <3>2, <1>2 DEF Onto
  <2>2. s # <<>> /\ db' \in {db, Exec(db, Head(op[c].todo))} /\ faults' = faults + 1 /\ UNCHANGED <<backend, minted, acks, late, today>>
    BY <1>5, <1>2 DEF CommandFails
  <2>3. PlanWell(own, minted, db.used, t, k)
    <3>1. CASE t = <<>>
      BY <3>1, <1>4, PlanEmpty
    <3>2. CASE Onto(x, s, t)
      BY <3>2, <2>2, <1>2, <1>3, PlanOnto
    <3> QED BY <2>1, <3>1, <3>2
  <2>4. op' = [op EXCEPT ![c] = [todo |-> t, seen |-> k]]
    <3>1. [o EXCEPT ![c].todo = t] = [o EXCEPT ![c] = [todo |-> t, seen |-> o[c].seen]]
      BY <1>3, TodoSet
    <3> QED BY <3>1, <2>1, <1>2
  <2> QED BY <2>2, <2>3, <2>4, <1>1, <1>2, FaultStep
<1>6. CASE GatewayDies(c)
  <2>1. s # <<>> /\ db' = db /\ faults' = faults + 1 /\ UNCHANGED <<backend, minted, acks, late, today>>
        /\ op' = [op EXCEPT ![c] = [todo |-> <<>>, seen |-> 0]]
    BY <1>6, <1>2 DEF GatewayDies, NoOp
  <2>2. PICK z \in Nat : z = 0
    OBVIOUS
  <2>3. PICK e : e = <<>>
    OBVIOUS
  <2>4. PlanWell(own, minted, db.used, e, z)
    BY <2>2, <2>3, PlanEmpty
  <2>5. op' = [op EXCEPT ![c] = [todo |-> e, seen |-> z]] /\ db' \in {db, Exec(db, Head(op[c].todo))}
    BY <2>1, <2>2, <2>3
  <2> QED BY <2>1, <2>4, <2>5, <1>1, <1>2, FaultStep
<1> QED BY <1>5, <1>6

\* A step of a call.
LEMMA StoreCallSteps == ASSUME KeyInv, NEW c \in StCalls, CallStep(c) PROVE KeyInv'
BY CommandStep, FaultSteps, CreateSteps, RotateStep, QuietSends DEF CallStep

\* A step that leaves the tables of keys alone.
LEMMA TeamMoves ==
    ASSUME KeyInv, NEW e, NEW a, TeamStep(e, a), DbShape(e), SameKeys(db, e), AcksShaped(a), a.key = acks.key,
           TeamsCounted(backend, e, a.team), backend = "memory" => RefsWell(e)
    PROVE  KeyInv'
<1>1. db' = e /\ acks' = a /\ UNCHANGED <<backend, op, minted, late, faults, today>>
  BY DEF TeamStep
<1>2. PICK own : KeysWell(own, minted, db, op, faults)
  BY DEF KeyInv
<1>3. KeysWell(own, minted, e, op, faults)
  BY <1>2 DEF KeysWell, KeysHold, Resolves, SameKeys, KeyTables
<1>4. KeyCounts(e.used, a.key)
  BY DEF KeyInv, ChargeInv, Counted, SameKeys, KeyTables
<1>5. Counted(backend, e, a)
  BY <1>4 DEF Counted
<1>6. ChargeInv'
  BY <1>1, <1>5 DEF ChargeInv, KeyInv
<1>7. \E w : KeysWell(w, minted', db', op', faults')
  BY <1>1, <1>3
<1> QED BY <1>1, <1>6, <1>7 DEF KeyInv, RefInv

\* One entry of a table of teams is replaced.
LEMMA TeamSet ==
    ASSUME NEW d, DbShape(d), NEW t \in StTeams, NEW v, NEW e, e = [d EXCEPT !.team[t] = v]
    PROVE  DbShape(e) /\ SameKeys(d, e) /\ SameCosts(d, e) /\ TeamTables(e, [d.team EXCEPT ![t] = v], d.bound, d.org)
BY DEF DbShape, SameKeys, SameCosts, KeyTables, CostTables, TeamTables

\* The same for organizations.
LEMMA OrgSet ==
    ASSUME NEW d, DbShape(d), NEW o \in StOrgs, NEW v, NEW e, e = [d EXCEPT !.org[o] = v]
    PROVE  DbShape(e) /\ SameKeys(d, e) /\ SameCosts(d, e) /\ TeamTables(e, d.team, d.bound, [d.org EXCEPT ![o] = v])
BY DEF DbShape, SameKeys, SameCosts, KeyTables, CostTables, TeamTables

\* The same for bindings.
LEMMA BoundSet ==
    ASSUME NEW d, DbShape(d), NEW h \in Hashes, NEW t, NEW e, e = [d EXCEPT !.bound[h] = t]
    PROVE  DbShape(e) /\ SameKeys(d, e) /\ SameCosts(d, e) /\ TeamTables(e, d.team, [d.bound EXCEPT ![h] = t], d.org)
BY DEF DbShape, SameKeys, SameCosts, KeyTables, CostTables, TeamTables

\* A team that has spent nothing.
LEMMA SpendingReset ==
    ASSUME NEW d, DbShape(d), NEW t \in StTeams, DOMAIN d.tday[t] = 1 .. StDays, NEW e, e = NoSpending(d, t)
    PROVE  /\ DbShape(e) /\ SameKeys(d, e) /\ SameTeams(d, e)
           /\ CostTables(e, [d.tused EXCEPT ![t] = 0], [d.tcost EXCEPT ![t] = 0], [d.tday EXCEPT ![t] = [y \in 1 .. StDays |-> 0]])
BY DEF DbShape, SameKeys, SameTeams, KeyTables, CostTables, TeamTables, NoSpending

\* What was counted of other teams stays.
LEMMA ResetCounts ==
    ASSUME NEW bk, NEW d, DbShape(d), NEW a, TeamsCounted(bk, d, a), NEW t \in StTeams,
           NEW e, CostTables(e, [d.tused EXCEPT ![t] = 0], [d.tcost EXCEPT ![t] = 0], [d.tday EXCEPT ![t] = [y \in 1 .. StDays |-> 0]]),
           NEW b, b = [a EXCEPT ![t] = 0]
    PROVE  TeamsCounted(bk, e, b)
<1>1. PICK td : td = [y \in 1 .. StDays |-> 0]
  OBVIOUS
<1>2. /\ \A s \in StTeams : s # t => e.tused[s] = d.tused[s] /\ e.tcost[s] = d.tcost[s] /\ e.tday[s] = d.tday[s]
      /\ e.tused[t] = 0 /\ e.tcost[t] = 0 /\ e.tday[t] = td
  BY <1>1 DEF CostTables, DbShape
<1>3. b = [s \in StTeams |-> b[s]] /\ b[t] = 0 /\ \A s \in StTeams : s # t => b[s] = a[s]
  BY DEF TeamsCounted
<1>4. TeamCount(bk, 0, 0, td, 0)
  BY <1>1, TeamIdle
<1>5. ASSUME NEW s \in StTeams PROVE TeamCount(bk, e.tused[s], e.tcost[s], e.tday[s], b[s])
  <2>1. CASE s = t
    BY <2>1, <1>2, <1>3, <1>4
  <2>2. CASE s # t
    BY <2>2, <1>2, <1>3 DEF TeamsCounted
  <2> QED BY <2>1, <2>2
<1> QED BY <1>3, <1>5 DEF TeamsCounted

\* A team is created in an organization that exists or does not.
LEMMA NewTeamIs ==
    ASSUME NEW o \in StOrgs PROVE NewTeam(o) \in Team /\ NewTeam(o).org = o /\ (NewTeam(o).had = FALSE \/ db.org[o] # Nil)
<1>1. CASE db.org[o] # Nil
  <2>1. NewTeam(o) = [org |-> o, had |-> TRUE]
    <3>1. (db.org[o] # Nil) = TRUE
      BY <1>1
    <3> QED BY <3>1, Zenon DEF NewTeam
  <2> QED BY <1>1, <2>1 DEF Team
<1>2. CASE db.org[o] = Nil
  <2>1. NewTeam(o) = [org |-> o, had |-> FALSE]
    <3>1. (db.org[o] # Nil) = FALSE
      BY <1>2
    <3> QED BY <3>1, Zenon DEF NewTeam
  <2> QED BY <2>1 DEF Team
<1> QED BY <1>1, <1>2

\* References under each change of teams, organizations and bindings.
LEMMA RefsTeam ==
    ASSUME NEW d, DbShape(d), RefsWell(d), NEW t \in StTeams, NEW v \in Team, v.had = FALSE \/ d.org[v.org] # Nil,
           NEW e, TeamTables(e, [d.team EXCEPT ![t] = v], d.bound, d.org)
    PROVE  RefsWell(e)
<1>1. e.bound = d.bound /\ e.org = d.org /\ e.team[t] = v /\ \A s \in StTeams : s # t => e.team[s] = d.team[s]
  BY DEF TeamTables, DbShape
<1>2. v # Nil
  BY NilAssumption
<1>3. ASSUME NEW h \in Hashes PROVE e.bound[h] = Nil \/ (e.bound[h] \in StTeams /\ e.team[e.bound[h]] # Nil)
  BY <1>1, <1>2 DEF RefsWell
<1>4. ASSUME NEW s \in StTeams PROVE TeamLives(e, s)
  <2>1. CASE s = t
    BY <2>1, <1>1 DEF TeamLives
  <2>2. CASE s # t
    BY <2>2, <1>1 DEF TeamLives, RefsWell
  <2> QED BY <2>1, <2>2
<1> QED BY <1>3, <1>4 DEF RefsWell

\* A team is deleted with its bindings.
LEMMA RefsDeleted ==
    ASSUME NEW d, DbShape(d), RefsWell(d), NEW t \in StTeams,
           NEW e, TeamTables(e, [d.team EXCEPT ![t] = Nil], [h \in Hashes |-> IF d.bound[h] = t THEN Nil ELSE d.bound[h]], d.org)
    PROVE  RefsWell(e)
<1>1. e.org = d.org /\ e.team[t] = Nil /\ \A s \in StTeams : s # t => e.team[s] = d.team[s]
  BY DEF TeamTables, DbShape
<1>2. \A h \in Hashes : e.bound[h] = IF d.bound[h] = t THEN Nil ELSE d.bound[h]
  BY DEF TeamTables
<1>3. ASSUME NEW h \in Hashes PROVE e.bound[h] = Nil \/ (e.bound[h] \in StTeams /\ e.team[e.bound[h]] # Nil)
  BY <1>1, <1>2 DEF RefsWell
<1>4. ASSUME NEW s \in StTeams PROVE TeamLives(e, s)
  <2>1. CASE s = t
    BY <2>1, <1>1 DEF TeamLives
  <2>2. CASE s # t
    BY <2>2, <1>1 DEF TeamLives, RefsWell
  <2> QED BY <2>1, <2>2
<1> QED BY <1>3, <1>4 DEF RefsWell

\* An organization is created, or deleted when no team is in it.
LEMMA RefsOrg ==
    ASSUME NEW d, DbShape(d), RefsWell(d), NEW o \in StOrgs, NEW v,
           v # Nil \/ ~\E t \in StTeams : d.team[t] # Nil /\ d.team[t].org = o,
           NEW e, TeamTables(e, d.team, d.bound, [d.org EXCEPT ![o] = v])
    PROVE  RefsWell(e)
<1>1. e.bound = d.bound /\ e.team = d.team /\ e.org[o] = v /\ \A p \in StOrgs : p # o => e.org[p] = d.org[p]
  BY DEF TeamTables, DbShape
<1>2. ASSUME NEW s \in StTeams PROVE TeamLives(e, s)
  <2>1. TeamLives(d, s)
    BY DEF RefsWell
  <2>2. CASE d.team[s] = Nil
    BY <2>2, <1>1 DEF TeamLives
  <2>3. CASE d.team[s] # Nil
    <3>1. PICK q : q = d.team[s] /\ q = e.team[s] /\ q # Nil
      BY <2>3, <1>1
    <3>2. q \in Team /\ (q.had = FALSE \/ d.org[q.org] # Nil)
      BY <3>1, <2>1 DEF TeamLives
    <3>3. PICK p \in StOrgs : p = q.org
      BY <3>2 DEF Team
    <3>4. d.org[p] # Nil => e.org[p] # Nil
      BY <3>1, <3>3, <1>1
    <3>5. q.had = FALSE \/ e.org[q.org] # Nil
      BY <3>2, <3>3, <3>4
    <3> QED BY <3>1, <3>2, <3>5 DEF TeamLives
  <2> QED BY <2>2, <2>3
<1> QED BY <1>1, <1>2 DEF RefsWell

\* A key is bound to a team that exists.
LEMMA RefsBound ==
    ASSUME NEW d, DbShape(d), RefsWell(d), NEW h \in Hashes, NEW t \in StTeams, d.team[t] # Nil,
           NEW e, TeamTables(e, d.team, [d.bound EXCEPT ![h] = t], d.org)
    PROVE  RefsWell(e)
BY DEF TeamTables, DbShape, RefsWell, TeamLives

\* Nothing of the three changes.
LEMMA RefsSame == ASSUME NEW d, RefsWell(d), NEW e, SameTeams(d, e) PROVE RefsWell(e)
BY DEF SameTeams, TeamTables, RefsWell, TeamLives

\* What the counters of teams show when they stay.
LEMMA CountsSame ==
    ASSUME NEW bk, NEW d, NEW a, TeamsCounted(bk, d, a), NEW e, SameCosts(d, e) PROVE TeamsCounted(bk, e, a)
BY DEF TeamsCounted, SameCosts, CostTables

\* What the steps of teams use of the invariant.
LEMMA TeamFacts ==
    ASSUME KeyInv
    PROVE  /\ DbShape(db) /\ AcksShaped(acks) /\ TeamsCounted(backend, db, acks.team) /\ (backend = "memory" => RefsWell(db))
           /\ today \in 1 .. StDays /\ \A t \in StTeams : DOMAIN db.tday[t] = 1 .. StDays
<1>1. TeamsCounted(backend, db, acks.team)
  BY DEF KeyInv, ChargeInv, Counted
<1>2. \A t \in StTeams : DOMAIN db.tday[t] = 1 .. StDays
  BY <1>1 DEF TeamsCounted, TeamCount
<1> QED BY <1>1, <1>2 DEF KeyInv, ChargeInv, Counted, RefInv

\* A team is created or replaced, and keeps its counters.
LEMMA SetTeamStep ==
    ASSUME KeyInv, NEW t \in StTeams, NEW o \in StOrgs, TeamStep([db EXCEPT !.team[t] = NewTeam(o)], acks) PROVE KeyInv'
<1>1. PICK d, v, e : d = db /\ v = NewTeam(o) /\ e = [db EXCEPT !.team[t] = NewTeam(o)]
  OBVIOUS
<1>2. DbShape(e) /\ SameKeys(d, e) /\ SameCosts(d, e) /\ TeamTables(e, [d.team EXCEPT ![t] = v], d.bound, d.org)
  BY <1>1, TeamFacts, TeamSet
<1>3. TeamsCounted(backend, e, acks.team)
  BY <1>1, <1>2, TeamFacts, CountsSame
<1>4. v \in Team /\ (v.had = FALSE \/ d.org[v.org] # Nil)
  BY <1>1, NewTeamIs
<1>5. ASSUME backend = "memory" PROVE RefsWell(e)
  BY <1>1, <1>2, <1>4, <1>5, TeamFacts, RefsTeam
<1>6. TeamStep(e, acks)
  BY <1>1
<1> QED BY <1>1, <1>2, <1>3, <1>5, <1>6, TeamFacts, TeamMoves

\* On Redis a team or an organization comes and goes as it likes.
LEMMA RedisSteps ==
    ASSUME KeyInv, RedisSetTeam \/ RedisDeleteTeam \/ RedisCreateOrg \/ RedisDeleteOrg PROVE KeyInv'
<1>1. backend = "redis" /\ backend # "memory"
  BY DEF RedisSetTeam, RedisDeleteTeam, RedisCreateOrg, RedisDeleteOrg
<1>2. ASSUME NEW e, DbShape(e), SameKeys(db, e), SameCosts(db, e), TeamStep(e, acks) PROVE KeyInv'
  <2>1. TeamsCounted(backend, e, acks.team)
    BY <1>2, TeamFacts, CountsSame
  <2> QED BY <2>1, <1>1, <1>2, TeamFacts, TeamMoves
<1>3. CASE RedisSetTeam
  <2>1. PICK t \in StTeams, o \in StOrgs : TeamStep([db EXCEPT !.team[t] = NewTeam(o)], acks)
    BY <1>3 DEF RedisSetTeam
  <2> QED BY <2>1, SetTeamStep
<1>4. CASE RedisDeleteTeam
  <2>1. PICK t \in StTeams : TeamStep([db EXCEPT !.team[t] = Nil], acks)
    BY <1>4 DEF RedisDeleteTeam
  <2>2. PICK e : e = [db EXCEPT !.team[t] = Nil]
    OBVIOUS
  <2>3. DbShape(e) /\ SameKeys(db, e) /\ SameCosts(db, e)
    BY <2>2, TeamFacts, TeamSet
  <2> QED BY <2>1, <2>2, <2>3, <1>2
<1>5. CASE RedisCreateOrg \/ RedisDeleteOrg
  <2>2. PICK e : (\E p \in StOrgs : \E w : e = [db EXCEPT !.org[p] = w]) /\ TeamStep(e, acks)
    <3>1. CASE RedisCreateOrg
      <4>1. PICK p \in StOrgs : TeamStep([db EXCEPT !.org[p] = TRUE], acks)
        BY <3>1 DEF RedisCreateOrg
      <4> QED BY <4>1
    <3>2. CASE RedisDeleteOrg
      <4>1. PICK p \in StOrgs : TeamStep([db EXCEPT !.org[p] = Nil], acks)
        BY <3>2 DEF RedisDeleteOrg
      <4> QED BY <4>1
    <3> QED BY <1>5, <3>1, <3>2
  <2>3. DbShape(e) /\ SameKeys(db, e) /\ SameCosts(db, e)
    BY <2>2, TeamFacts, OrgSet
  <2> QED BY <2>2, <2>3, <1>2
<1> QED BY <1>3, <1>4, <1>5

\* The memory store: a team is created, replaced or deleted.
LEMMA MemoryTeams == ASSUME KeyInv, CreateTeam \/ UpdateTeam \/ DeleteTeam PROVE KeyInv'
<1>1. backend = "memory"
  BY DEF CreateTeam, UpdateTeam, DeleteTeam
<1>2. CASE CreateTeam
  <2>1. PICK t \in StTeams, o \in StOrgs : TeamStep([db EXCEPT !.team[t] = NewTeam(o)], acks)
    BY <1>2 DEF CreateTeam
  <2> QED BY <2>1, SetTeamStep
<1>3. CASE UpdateTeam
  <2>1. PICK t \in StTeams, o \in StOrgs :
          \/ TeamStep([db EXCEPT !.team[t] = NewTeam(o)], acks)
          \/ TeamStep(NoSpending([db EXCEPT !.team[t] = NewTeam(o)], t), [acks EXCEPT !.team[t] = 0])
    BY <1>3 DEF UpdateTeam
  <2>2. CASE TeamStep([db EXCEPT !.team[t] = NewTeam(o)], acks)
    BY <2>2, SetTeamStep
  <2>3. CASE TeamStep(NoSpending([db EXCEPT !.team[t] = NewTeam(o)], t), [acks EXCEPT !.team[t] = 0])
    <3>1. PICK c, v, d, e, a : /\ c = db /\ v = NewTeam(o) /\ d = [db EXCEPT !.team[t] = NewTeam(o)] /\ e = NoSpending(d, t)
                               /\ a = [acks EXCEPT !.team[t] = 0]
      OBVIOUS
    <3>2. DbShape(d) /\ SameKeys(c, d) /\ SameCosts(c, d) /\ TeamTables(d, [c.team EXCEPT ![t] = v], c.bound, c.org)
      BY <3>1, TeamFacts, TeamSet
    <3>3. v \in Team /\ (v.had = FALSE \/ c.org[v.org] # Nil)
      BY <3>1, NewTeamIs
    <3>4. RefsWell(d)
      BY <3>1, <3>2, <3>3, <1>1, TeamFacts, RefsTeam
    <3>5. TeamsCounted(backend, d, acks.team) /\ DOMAIN d.tday[t] = 1 .. StDays
      <4>1. TeamsCounted(backend, d, acks.team)
        BY <3>1, <3>2, TeamFacts, CountsSame
      <4>2. d.tday = c.tday
        BY <3>2 DEF SameCosts, CostTables
      <4> QED BY <4>1, <4>2, <3>1, TeamFacts
    <3>6. /\ DbShape(e) /\ SameKeys(d, e) /\ SameTeams(d, e)
          /\ CostTables(e, [d.tused EXCEPT ![t] = 0], [d.tcost EXCEPT ![t] = 0], [d.tday EXCEPT ![t] = [y \in 1 .. StDays |-> 0]])
      BY <3>1, <3>2, <3>5, SpendingReset
    <3>7. AcksShaped(a) /\ a.key = acks.key /\ a.team = [acks.team EXCEPT ![t] = 0]
      <4>1. PICK f, z : f = acks /\ z = 0
        OBVIOUS
      <4>2. AcksShaped(f) /\ a = [f EXCEPT !.team[t] = z]
        BY <4>1, <3>1, TeamFacts
      <4>3. AcksShaped(a) /\ a.key = f.key /\ a.team = [f.team EXCEPT ![t] = z]
        BY <4>2 DEF AcksShaped
      <4> QED BY <4>1, <4>3
    <3>8. TeamsCounted(backend, e, a.team)
      <4>1. PICK f, b : f = acks.team /\ b = a.team
        OBVIOUS
      <4>2. TeamsCounted(backend, d, f) /\ b = [f EXCEPT ![t] = 0]
        BY <4>1, <3>5, <3>7
      <4>3. TeamsCounted(backend, e, b)
        BY <4>2, <3>2, <3>6, ResetCounts
      <4> QED BY <4>1, <4>3
    <3>9. RefsWell(e)
      BY <3>4, <3>6, RefsSame
    <3>10. SameKeys(db, e)
      BY <3>1, <3>2, <3>6 DEF SameKeys, KeyTables
    <3>11. TeamStep(e, a)
      BY <2>3, <3>1
    <3> QED BY <3>6, <3>7, <3>8, <3>9, <3>10, <3>11, TeamMoves
  <2> QED BY <2>1, <2>2, <2>3
<1>4. CASE DeleteTeam
  <2>1. PICK t \in StTeams :
          TeamStep([NoSpending(db, t) EXCEPT !.team[t] = Nil,
                      !.bound = [h \in Hashes |-> IF @[h] = t THEN Nil ELSE @[h]]], [acks EXCEPT !.team[t] = 0])
    BY <1>4 DEF DeleteTeam
  <2>2. PICK c, d, e, a : /\ c = db /\ d = NoSpending(c, t) /\ a = [acks EXCEPT !.team[t] = 0]
                          /\ e = [d EXCEPT !.team[t] = Nil, !.bound = [h \in Hashes |-> IF @[h] = t THEN Nil ELSE @[h]]]
    OBVIOUS
  <2>3. DbShape(c) /\ DOMAIN c.tday[t] = 1 .. StDays /\ RefsWell(c) /\ TeamsCounted(backend, c, acks.team)
    BY <2>2, <1>1, TeamFacts
  <2>4. /\ DbShape(d) /\ SameKeys(c, d) /\ SameTeams(c, d)
        /\ CostTables(d, [c.tused EXCEPT ![t] = 0], [c.tcost EXCEPT ![t] = 0], [c.tday EXCEPT ![t] = [y \in 1 .. StDays |-> 0]])
    BY <2>2, <2>3, SpendingReset
  <2>5. AcksShaped(a) /\ a.key = acks.key /\ a.team = [acks.team EXCEPT ![t] = 0]
    <3>1. PICK f, z : f = acks /\ z = 0
      OBVIOUS
    <3>2. AcksShaped(f) /\ a = [f EXCEPT !.team[t] = z]
      BY <3>1, <2>2, TeamFacts
    <3>3. AcksShaped(a) /\ a.key = f.key /\ a.team = [f.team EXCEPT ![t] = z]
      BY <3>2 DEF AcksShaped
    <3> QED BY <3>1, <3>3
  <2>6. TeamsCounted(backend, d, a.team)
    <3>1. PICK f, b : f = acks.team /\ b = a.team
      OBVIOUS
    <3>2. TeamsCounted(backend, c, f) /\ b = [f EXCEPT ![t] = 0]
      BY <3>1, <2>3, <2>5
    <3>3. TeamsCounted(backend, d, b)
      BY <3>2, <2>3, <2>4, ResetCounts
    <3> QED BY <3>1, <3>3
  <2>7. /\ DbShape(e) /\ SameKeys(d, e) /\ SameCosts(d, e)
        /\ TeamTables(e, [d.team EXCEPT ![t] = Nil], [h \in Hashes |-> IF d.bound[h] = t THEN Nil ELSE d.bound[h]], d.org)
    BY <2>2, <2>4 DEF DbShape, SameKeys, SameCosts, KeyTables, CostTables, TeamTables
  <2>8. RefsWell(e)
    <3>1. RefsWell(d)
      BY <2>3, <2>4, RefsSame
    <3> QED BY <3>1, <2>4, <2>7, RefsDeleted
  <2>9. TeamsCounted(backend, e, a.team)
    BY <2>6, <2>7, CountsSame
  <2>10. SameKeys(db, e)
    BY <2>2, <2>4, <2>7 DEF SameKeys, KeyTables
  <2>11. TeamStep(e, a)
    BY <2>1, <2>2
  <2> QED BY <2>5, <2>7, <2>8, <2>9, <2>10, <2>11, TeamMoves
<1> QED BY <1>2, <1>3, <1>4

\* The memory store: organizations and bindings.
LEMMA MemoryOrgs == ASSUME KeyInv, CreateOrg \/ DeleteOrg \/ MemoryBind PROVE KeyInv'
<1>1. backend = "memory"
  BY DEF CreateOrg, DeleteOrg, MemoryBind
<1>2. ASSUME NEW e, DbShape(e), SameKeys(db, e), SameCosts(db, e), RefsWell(e), TeamStep(e, acks) PROVE KeyInv'
  <2>1. TeamsCounted(backend, e, acks.team)
    BY <1>2, TeamFacts, CountsSame
  <2> QED BY <2>1, <1>2, TeamFacts, TeamMoves
<1>3. ASSUME NEW o \in StOrgs, NEW v, v # Nil \/ ~\E t \in StTeams : db.team[t] # Nil /\ db.team[t].org = o,
             TeamStep([db EXCEPT !.org[o] = v], acks)
      PROVE  KeyInv'
  <2>1. PICK d, e : d = db /\ e = [d EXCEPT !.org[o] = v]
    OBVIOUS
  <2>2. DbShape(e) /\ SameKeys(d, e) /\ SameCosts(d, e) /\ TeamTables(e, d.team, d.bound, [d.org EXCEPT ![o] = v])
    BY <2>1, TeamFacts, OrgSet
  <2>3. RefsWell(e)
    BY <2>1, <2>2, <1>1, <1>3, TeamFacts, RefsOrg
  <2> QED BY <2>1, <2>2, <2>3, <1>2, <1>3
<1>4. CASE CreateOrg
  <2>1. PICK o \in StOrgs : TeamStep([db EXCEPT !.org[o] = TRUE], acks)
    BY <1>4 DEF CreateOrg
  <2>2. PICK v : v = TRUE /\ v # Nil
    BY NilAssumption
  <2>3. TeamStep([db EXCEPT !.org[o] = v], acks)
    BY <2>1, <2>2, Zenon
  <2> QED BY <2>2, <2>3, <1>3
<1>5. CASE DeleteOrg
  <2>1. PICK o \in StOrgs : (~\E t \in StTeams : db.team[t] # Nil /\ db.team[t].org = o) /\ TeamStep([db EXCEPT !.org[o] = Nil], acks)
    BY <1>5 DEF DeleteOrg
  <2> QED BY <2>1, <1>3
<1>6. CASE MemoryBind
  <2>1. PICK h \in Hashes, t \in StTeams : db.team[t] # Nil /\ TeamStep([db EXCEPT !.bound[h] = t], acks)
    BY <1>6 DEF MemoryBind
  <2>2. PICK d, e : d = db /\ e = [d EXCEPT !.bound[h] = t]
    OBVIOUS
  <2>3. DbShape(e) /\ SameKeys(d, e) /\ SameCosts(d, e) /\ TeamTables(e, d.team, [d.bound EXCEPT ![h] = t], d.org)
    BY <2>2, TeamFacts, BoundSet
  <2>4. RefsWell(e)
    BY <2>1, <2>2, <2>3, <1>1, TeamFacts, RefsBound
  <2> QED BY <2>1, <2>2, <2>3, <2>4, <1>2
<1> QED BY <1>4, <1>5, <1>6

\* The daily counter of a team in memory starts again with the day.
LEMMA DayCharged ==
    ASSUME NEW tu, NEW tc, NEW td, NEW a, TeamCount("memory", tu, tc, td, a), today \in 1 .. StDays,
           NEW te, te = [y \in 1 .. StDays |-> IF y = today THEN td[y] + 1 ELSE 0]
    PROVE  TeamCount("memory", tu + 1, tc + 1, te, a + 1)
<1>1. te \in [1 .. StDays -> Nat]
  BY DEF TeamCount
<1> QED BY <1>1 DEF TeamCount

\* The tables after a charge in memory.
LEMMA DayTables ==
    ASSUME NEW d, DbShape(d), NEW t \in StTeams, today \in 1 .. StDays, d.tday[t] \in [1 .. StDays -> Nat],
           NEW e, e = [addTeamCostScript(d, t, 1) EXCEPT !.tday[t] = [y \in DOMAIN @ |-> IF y = today THEN @[y] ELSE 0]]
    PROVE  /\ DbShape(e) /\ SameKeys(d, e) /\ SameTeams(d, e)
           /\ CostTables(e, [d.tused EXCEPT ![t] = @ + 1], [d.tcost EXCEPT ![t] = @ + 1],
                            [d.tday EXCEPT ![t] = [y \in 1 .. StDays |-> IF y = today THEN d.tday[t][y] + 1 ELSE 0]])
<1>1. PICK s : s = addTeamCostScript(d, t, 1)
  OBVIOUS
<1>2. /\ DbShape(s) /\ SameKeys(d, s) /\ SameTeams(d, s)
      /\ CostTables(s, [d.tused EXCEPT ![t] = @ + 1], [d.tcost EXCEPT ![t] = @ + 1],
                       [d.tday EXCEPT ![t] = [d.tday[t] EXCEPT ![today] = @ + 1]])
  BY <1>1, ScriptIs
<1>3. PICK q, r : q = s.tday[t] /\ r = [y \in DOMAIN q |-> IF y = today THEN q[y] ELSE 0]
  OBVIOUS
<1>4. q = [d.tday[t] EXCEPT ![today] = @ + 1]
  BY <1>2, <1>3 DEF CostTables, DbShape
<1>5. DOMAIN q = 1 .. StDays /\ q[today] = d.tday[t][today] + 1
  BY <1>4
<1>6. r = [y \in 1 .. StDays |-> IF y = today THEN d.tday[t][y] + 1 ELSE 0]
  BY <1>3, <1>5
<1>7. e = [s EXCEPT !.tday[t] = r]
  BY <1>1, <1>3
<1>8. DbShape(e) /\ SameKeys(s, e) /\ SameTeams(s, e) /\ e.tused = s.tused /\ e.tcost = s.tcost /\ e.tday = [s.tday EXCEPT ![t] = r]
  BY <1>2, <1>7 DEF DbShape, SameKeys, SameTeams, KeyTables, TeamTables
<1>9. e.tday = [d.tday EXCEPT ![t] = r]
  BY <1>2, <1>8 DEF CostTables, DbShape
<1> QED BY <1>2, <1>6, <1>8, <1>9 DEF SameKeys, SameTeams, KeyTables, TeamTables, CostTables

\* A charge in memory.
LEMMA AddCostStep == ASSUME KeyInv, AddCost PROVE KeyInv'
<1>1. PICK t \in StTeams :
        TeamStep([addTeamCostScript(db, t, 1) EXCEPT !.tday[t] = [d \in DOMAIN @ |-> IF d = today THEN @[d] ELSE 0]],
                 [acks EXCEPT !.team[t] = @ + 1])
  BY DEF AddCost
<1>2. backend = "memory"
  BY DEF AddCost
<1>3. PICK d, e, f, a : /\ d = db /\ f = acks /\ a = [f EXCEPT !.team[t] = f.team[t] + 1]
                        /\ e = [addTeamCostScript(d, t, 1) EXCEPT !.tday[t] = [y \in DOMAIN @ |-> IF y = today THEN @[y] ELSE 0]]
  OBVIOUS
<1>4. DbShape(d) /\ AcksShaped(f) /\ TeamsCounted("memory", d, f.team) /\ RefsWell(d) /\ today \in 1 .. StDays
  BY <1>2, <1>3, TeamFacts
<1>5. \A s \in StTeams : TeamCount("memory", d.tused[s], d.tcost[s], d.tday[s], f.team[s])
  BY <1>4 DEF TeamsCounted
<1>6. d.tday[t] \in [1 .. StDays -> Nat]
  BY <1>5 DEF TeamCount
<1>7. PICK td, te : td = d.tday[t] /\ te = [y \in 1 .. StDays |-> IF y = today THEN td[y] + 1 ELSE 0]
  OBVIOUS
<1>8. /\ DbShape(e) /\ SameKeys(d, e) /\ SameTeams(d, e)
      /\ CostTables(e, [d.tused EXCEPT ![t] = @ + 1], [d.tcost EXCEPT ![t] = @ + 1], [d.tday EXCEPT ![t] = te])
  <2>1. /\ DbShape(e) /\ SameKeys(d, e) /\ SameTeams(d, e)
        /\ CostTables(e, [d.tused EXCEPT ![t] = @ + 1], [d.tcost EXCEPT ![t] = @ + 1],
                         [d.tday EXCEPT ![t] = [y \in 1 .. StDays |-> IF y = today THEN d.tday[t][y] + 1 ELSE 0]])
    BY <1>3, <1>4, <1>6, DayTables
  <2> QED BY <2>1, <1>7
<1>9. TeamCount("memory", d.tused[t] + 1, d.tcost[t] + 1, te, f.team[t] + 1)
  BY <1>4, <1>5, <1>7, DayCharged
<1>10. AcksShaped(a) /\ a.key = f.key /\ a.team = [f.team EXCEPT ![t] = f.team[t] + 1]
  <2>1. PICK v : v = f.team[t] + 1
    OBVIOUS
  <2>2. a = [f EXCEPT !.team[t] = v]
    BY <2>1, <1>3
  <2>3. AcksShaped(a) /\ a.key = f.key /\ a.team = [f.team EXCEPT ![t] = v]
    BY <2>2, <1>4 DEF AcksShaped
  <2> QED BY <2>1, <2>3
<1>11. /\ a.team = [s \in StTeams |-> a.team[s]] /\ a.team[t] = f.team[t] + 1
       /\ \A s \in StTeams : s # t => a.team[s] = f.team[s]
  BY <1>4, <1>10 DEF TeamsCounted
<1>12. /\ \A s \in StTeams : s # t => e.tused[s] = d.tused[s] /\ e.tcost[s] = d.tcost[s] /\ e.tday[s] = d.tday[s]
       /\ e.tused[t] = d.tused[t] + 1 /\ e.tcost[t] = d.tcost[t] + 1 /\ e.tday[t] = te
  BY <1>4, <1>8 DEF CostTables, DbShape
<1>13. ASSUME NEW s \in StTeams PROVE TeamCount("memory", e.tused[s], e.tcost[s], e.tday[s], a.team[s])
  <2>1. CASE s = t
    BY <2>1, <1>9, <1>11, <1>12
  <2>2. CASE s # t
    BY <2>2, <1>5, <1>11, <1>12
  <2> QED BY <2>1, <2>2
<1>14. TeamsCounted(backend, e, a.team)
  BY <1>2, <1>11, <1>13 DEF TeamsCounted
<1>15. RefsWell(e)
  BY <1>4, <1>8, RefsSame
<1>16. TeamStep(e, a)
  BY <1>1, <1>3
<1> QED BY <1>3, <1>8, <1>10, <1>14, <1>15, <1>16, TeamMoves

\* A step of teams, organizations, bindings or the calendar.
LEMMA TeamsSteps == ASSUME KeyInv, TeamsStep PROVE KeyInv'
<1>1. CASE Midnight
  <2>1. UNCHANGED <<backend, db, op, minted, acks, late, faults>> /\ today' \in 1 .. StDays
    BY <1>1, StoresAssumption DEF Midnight, KeyInv, ChargeInv
  <2>2. ChargeInv'
    BY <2>1 DEF KeyInv, ChargeInv
  <2> QED BY <2>1, <2>2 DEF KeyInv, RefInv
<1> QED BY <1>1, RedisSteps, MemoryTeams, MemoryOrgs, AddCostStep
       DEF TeamsStep, handleAdminTeams, handleAdminTeamsCRUD, handleAdminOrgs, handleAdminOrgsCRUD

\* The keys under any step.
LEMMA KeyInvStep == ASSUME KeyInv, StNext PROVE KeyInv'
<1>1. CASE UNCHANGED <<backend, db, op, minted, acks, late, today>> /\ faults' \in Nat /\ (faults' = 0 => faults = 0)
  <2>1. PICK own : KeysWell(own, minted, db, op, faults)
    BY DEF KeyInv
  <2>2. KeysWell(own, minted, db, op, faults')
    BY <2>1, <1>1 DEF KeysWell
  <2>3. \E w : KeysWell(w, minted', db', op', faults')
    BY <2>2, <1>1
  <2>4. ChargeInv'
    BY <1>1 DEF KeyInv, ChargeInv
  <2> QED BY <1>1, <2>3, <2>4 DEF KeyInv, RefInv
<1>2. ASSUME BatchStep PROVE UNCHANGED faults \/ faults' = faults + 1
  BY <1>2 DEF BatchStep, handleBatches, handleBatchCRUD, processPendingBatches, MarkRunning, processBatchEnds, WorkerDies,
              executeBatchRequest, keyVarsSt
<1>3. CASE BatchStep
  <2>1. faults \in Nat
    BY DEF KeyInv
  <2>2. faults' \in Nat /\ (faults' = 0 => faults = 0)
    BY <2>1, <1>2, <1>3
  <2> QED BY <2>2, <1>1, <1>3, AreasApart
<1>4. CASE LogStep \/ UNCHANGED storeVars
  <2>1. UNCHANGED <<backend, db, op, minted, acks, late, today, faults>>
    BY <1>4, AreasApart DEF storeVars
  <2>2. faults \in Nat
    BY DEF KeyInv
  <2> QED BY <2>1, <2>2, <1>1
<1> QED BY <1>3, <1>4, StoreCallSteps, TeamsSteps DEF StNext

\* The stores start without keys, and with nothing charged.
LEMMA KeyInvInit == ASSUME StoresInit PROVE KeyInv
<1>1. PICK d, o, own : d = db /\ o = op /\ own = [h \in Hashes |-> h]
  OBVIOUS
<1>2. d = [key |-> [n \in StKeys |-> Nil], hash |-> [h \in Hashes |-> Nil], used |-> [n \in StKeys |-> Nil],
           team |-> seedDefaults(StTeams, [org |-> "default", had |-> TRUE]), bound |-> [h \in Hashes |-> Nil],
           org |-> seedDefaults(StOrgs, TRUE),
           tused |-> [t \in StTeams |-> 0], tcost |-> [t \in StTeams |-> 0],
           tday |-> [t \in StTeams |-> [y \in 1 .. StDays |-> 0]]]
  BY <1>1 DEF StoresInit
<1>3. PICK te, og : te = seedDefaults(StTeams, [org |-> "default", had |-> TRUE]) /\ og = seedDefaults(StOrgs, TRUE)
  OBVIOUS
<1>4. /\ d.key = [n \in StKeys |-> Nil] /\ d.hash = [h \in Hashes |-> Nil] /\ d.used = [n \in StKeys |-> Nil]
      /\ d.bound = [h \in Hashes |-> Nil] /\ d.team = te /\ d.org = og
      /\ d.tused = [t \in StTeams |-> 0] /\ d.tcost = [t \in StTeams |-> 0] /\ d.tday = [t \in StTeams |-> [y \in 1 .. StDays |-> 0]]
      /\ d = [key |-> d.key, hash |-> d.hash, used |-> d.used, team |-> d.team, bound |-> d.bound, org |-> d.org,
              tused |-> d.tused, tcost |-> d.tcost, tday |-> d.tday]
  BY <1>2, <1>3
<1>5. /\ te = [t \in StTeams |-> te[t]] /\ og = [t \in StOrgs |-> og[t]]
      /\ \A t \in StTeams : te[t] = Nil \/ (t = "default" /\ te[t] = [org |-> "default", had |-> TRUE])
      /\ og["default"] = TRUE
  BY <1>3, StoresAssumption DEF seedDefaults
<1>6. DbShape(d)
  BY <1>4, <1>5 DEF DbShape
<1>7. AcksShaped(acks) /\ acks.key = [n \in StKeys |-> 0] /\ acks.team = [t \in StTeams |-> 0]
  BY DEF StoresInit, AcksShaped
<1>8. KeyCounts(d.used, acks.key)
  BY <1>4, <1>7 DEF KeyCounts, Counter
<1>9. TeamsCounted(backend, d, acks.team)
  <2>1. PICK td : td = [y \in 1 .. StDays |-> 0]
    OBVIOUS
  <2>2. TeamCount(backend, 0, 0, td, 0)
    BY <2>1, TeamIdle
  <2>3. \A t \in StTeams : d.tused[t] = 0 /\ d.tcost[t] = 0 /\ d.tday[t] = td /\ acks.team[t] = 0
    BY <2>1, <1>4, <1>7
  <2> QED BY <2>2, <2>3, <1>7 DEF TeamsCounted
<1>10. RefsWell(d)
  <2>1. ASSUME NEW t \in StTeams PROVE TeamLives(d, t)
    <3>1. PICK v : v = te[t]
      OBVIOUS
    <3>2. v = Nil \/ v = [org |-> "default", had |-> TRUE]
      BY <3>1, <1>5
    <3>3. v = [org |-> "default", had |-> TRUE] => v \in Team /\ v.org = "default"
      BY StoresAssumption DEF Team
    <3>4. og["default"] # Nil
      BY <1>5, NilAssumption
    <3> QED BY <3>1, <3>2, <3>3, <3>4, <1>4 DEF TeamLives
  <2>2. \A h \in Hashes : d.bound[h] = Nil
    BY <1>4
  <2> QED BY <2>1, <2>2 DEF RefsWell
<1>11. o = [c \in StCalls |-> [todo |-> <<>>, seen |-> 0]] /\ minted = {} /\ faults = 0
  BY <1>1 DEF StoresInit, NoOp
<1>12. CallsShaped(o) /\ \A c \in StCalls : o[c].todo = <<>> /\ o[c].seen = 0
  BY <1>11 DEF CallsShaped
<1>13. KeysHold(own, minted, d, o)
  <2>1. ASSUME NEW c \in StCalls PROVE PlanWell(own, minted, d.used, o[c].todo, o[c].seen)
    <3>1. PICK z \in Nat, e \in {<<>>} : z = 0
      OBVIOUS
    <3>2. PlanWell(own, minted, d.used, e, z)
      BY PlanEmpty
    <3> QED BY <3>1, <3>2, <1>12
  <2> QED BY <2>1, <1>4, <1>11, <1>12 DEF KeysHold
<1>14. KeysWell(own, minted, d, o, faults)
  BY <1>4, <1>13 DEF KeysWell, Resolves
<1>15. backend \in {"redis", "memory"} /\ late = FALSE /\ today \in 1 .. StDays
  BY StoresAssumption DEF StoresInit
<1>16. ChargeInv
  BY <1>1, <1>7, <1>8, <1>9, <1>15 DEF ChargeInv, Counted
<1>17. RefInv
  BY <1>1, <1>10, <1>12 DEF RefInv
<1> QED BY <1>1, <1>6, <1>11, <1>14, <1>15, <1>16, <1>17 DEF KeyInv

\* What KeyInv says of charges, counters, hashes and references.
LEMMA KeyInvSound == ASSUME KeyInv PROVE ChargesKept /\ TeamCountersAgree /\ LiveKeyResolves /\ ReferencesAlive
<1>1. ChargesKept /\ TeamCountersAgree
  <2>1. Counted(backend, db, acks) /\ late = FALSE
    BY DEF KeyInv, ChargeInv
  <2>2. \A n \in StKeys : acks.key[n] <= Counter(db.used[n])
    BY <2>1 DEF Counted, KeyCounts
  <2>3. ASSUME NEW t \in StTeams
        PROVE  /\ acks.team[t] <= db.tused[t] /\ db.tused[t] = db.tcost[t]
               /\ backend = "redis" => SumUpTo(db.tday[t], StDays) = db.tused[t]
    <3>1. TeamCount(backend, db.tused[t], db.tcost[t], db.tday[t], acks.team[t])
      BY <2>1 DEF Counted, TeamsCounted
    <3> QED BY <3>1 DEF TeamCount
  <2> QED BY <2>1, <2>2, <2>3 DEF ChargesKept, TeamCountersAgree
<1>2. LiveKeyResolves
  <2> SUFFICES ASSUME Settled, faults = 0, NEW n \in StKeys, db.key[n] # Nil PROVE GetKeyByHash(db.key[n].hash) = db.key[n]
    BY DEF LiveKeyResolves
  <2>1. PICK own : KeysWell(own, minted, db, op, faults)
    BY DEF KeyInv
  <2>2. PICK h : h = db.key[n].hash
    OBVIOUS
  <2>3. ~Pending(op, n, h)
    <3>1. Len(<<>>) = 0
      BY EmptySeq
    <3> QED BY <3>1 DEF Pending, Settled
  <2>4. db.hash[h] = n
    BY <2>1, <2>2, <2>3 DEF KeysWell, Resolves
  <2>5. n # Nil
    BY NilAssumption
  <2> QED BY <2>2, <2>4, <2>5 DEF GetKeyByHash
<1>3. ReferencesAlive
  <2> SUFFICES ASSUME backend = "memory"
               PROVE  /\ \A h \in Hashes : db.bound[h] # Nil => StGetTeamByKey(h) # Nil
                      /\ \A t \in StTeams : db.team[t] # Nil /\ db.team[t].had => db.org[db.team[t].org] # Nil
    BY DEF ReferencesAlive
  <2>1. RefsWell(db)
    BY DEF KeyInv, RefInv
  <2>2. \A h \in Hashes : db.bound[h] # Nil => StGetTeamByKey(h) # Nil
    BY <2>1 DEF RefsWell, StGetTeamByKey
  <2>3. \A t \in StTeams : db.team[t] # Nil /\ db.team[t].had => db.org[db.team[t].org] # Nil
    BY <2>1, Zenon DEF RefsWell, TeamLives
  <2> QED BY <2>2, <2>3
<1> QED BY <1>1, <1>2, <1>3

=============================================================================
