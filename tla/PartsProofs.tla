----------------------------- MODULE PartsProofs -----------------------------
(***************************************************************************)
(* Proofs about the parts beside the path of a request: the writer of        *)
(* request logs (Sink), the gateway processes of a machine with their        *)
(* reloads and their worker (Lifecycle), the endpoints other than chat with  *)
(* the task registry and the sharded batches (Endpoints), and the web shell  *)
(* (Manifests, ShellAdmin, ModelPolicy).  Each invariant is of one           *)
(* component; the steps of the others leave its variables alone.             *)
(***************************************************************************)
EXTENDS MCParts, FiniteSetTheorems, SequenceTheorems, TLAPS

\* No element occurs twice.
Distinct(s) == \A i, j \in 1 .. Len(s) : s[i] = s[j] => i = j

\* The elements of a sequence.
LEMMA ElementsOf ==
    ASSUME NEW S, NEW s \in Seq(S)
    PROVE  /\ ToSet(s) = {s[i] : i \in 1 .. Len(s)} /\ ToSet(s) \subseteq S
           /\ \A x : x \in ToSet(s) <=> \E i \in 1 .. Len(s) : s[i] = x
BY LenProperties DEF ToSet

\* The empty sequence has none.
LEMMA EmptySequence ==
    ASSUME NEW S
    PROVE  <<>> \in Seq(S) /\ Len(<<>>) = 0 /\ ToSet(<<>>) = {} /\ Distinct(<<>>)
<1>1. <<>> \in Seq(S) /\ Len(<<>>) = 0
  BY EmptySeq
<1>2. \A x : x \in ToSet(<<>>) <=> \E i \in 1 .. Len(<<>>) : <<>>[i] = x
  BY <1>1, ElementsOf
<1>3. 1 .. Len(<<>>) = {}
  BY <1>1
<1> QED BY <1>1, <1>2, <1>3 DEF Distinct

\* One more element at the end.
LEMMA AppendElement ==
    ASSUME NEW S, NEW s \in Seq(S), NEW x \in S
    PROVE  LET t == Append(s, x)
           IN  /\ t \in Seq(S) /\ Len(t) = Len(s) + 1 /\ ToSet(t) = ToSet(s) \cup {x}
               /\ Distinct(s) /\ x \notin ToSet(s) => Distinct(t)
<1> DEFINE t == Append(s, x)
<1>1. /\ t \in Seq(S) /\ Len(t) = Len(s) + 1 /\ Len(s) \in Nat /\ t[Len(s) + 1] = x
      /\ \A i \in 1 .. Len(s) : t[i] = s[i]
  BY AppendProperties, LenProperties
<1> HIDE DEF t
<1>2. \A i \in 1 .. Len(t) : i \in 1 .. Len(s) \/ i = Len(s) + 1
  BY <1>1
<1>3. ToSet(t) = ToSet(s) \cup {x}
  <2>1. \A y : y \in ToSet(t) <=> \E i \in 1 .. Len(t) : t[i] = y
    BY <1>1, ElementsOf
  <2>2. \A y : y \in ToSet(s) <=> \E i \in 1 .. Len(s) : s[i] = y
    BY ElementsOf
  <2>3. 1 .. Len(s) \subseteq 1 .. Len(t) /\ Len(s) + 1 \in 1 .. Len(t)
    BY <1>1
  <2> QED BY <1>1, <1>2, <2>1, <2>2, <2>3
<1>4. ASSUME Distinct(s), x \notin ToSet(s) PROVE Distinct(t)
  <2>1. \A i \in 1 .. Len(s) : s[i] # x
    BY <1>4, ElementsOf
  <2>2. ASSUME NEW i \in 1 .. Len(t), NEW j \in 1 .. Len(t), t[i] = t[j]
        PROVE  i = j
    BY <1>1, <1>2, <1>4, <2>1, <2>2 DEF Distinct
  <2> QED BY <2>2 DEF Distinct
<1> QED BY <1>1, <1>3, <1>4 DEF t

\* A sequence cut after its first k elements.
LEMMA CutSequence ==
    ASSUME NEW S, NEW s \in Seq(S), NEW k \in 0 .. Len(s)
    PROVE  LET f == SubSeq(s, 1, k)
               t == SubSeq(s, k + 1, Len(s))
           IN  /\ f \in Seq(S) /\ t \in Seq(S) /\ Len(f) = k /\ Len(t) = Len(s) - k
               /\ ToSet(f) \cup ToSet(t) = ToSet(s)
               /\ Distinct(s) => Distinct(f) /\ Distinct(t) /\ ToSet(f) \cap ToSet(t) = {}
<1> DEFINE f == SubSeq(s, 1, k)
           t == SubSeq(s, k + 1, Len(s))
<1>1. PICK N \in Nat : N = Len(s)
  BY LenProperties
<1>2. k \in Nat /\ k <= N /\ \A i \in 1 .. N : s[i] \in S
  BY <1>1, LenProperties
<1>3. f \in Seq(S) /\ Len(f) = k /\ \A i \in 1 .. k : f[i] = s[i]
  <2>1. \A i \in 1 .. k : s[i] \in S
    BY <1>2
  <2> QED BY <1>1, <1>2, <2>1, SubSeqProperties
<1>4. t \in Seq(S) /\ Len(t) = N - k /\ \A i \in 1 .. (N - k) : t[i] = s[k + i]
  <2>1. \A i \in (k + 1) .. N : s[i] \in S
    BY <1>2
  <2>2. CASE k < N
    BY <1>1, <1>2, <2>1, <2>2, SubSeqProperties
  <2>3. CASE k = N
    <3>1. t = <<>>
      BY <1>1, <1>2, <2>3, SubSeqEmpty
    <3>2. t \in Seq(S) /\ Len(t) = 0
      BY <3>1, EmptySeq
    <3> QED BY <1>2, <2>3, <3>2
  <2> QED BY <1>2, <2>2, <2>3
<1> HIDE DEF f, t
<1>5. /\ \A y : y \in ToSet(s) <=> \E i \in 1 .. N : s[i] = y
      /\ \A y : y \in ToSet(f) <=> \E i \in 1 .. k : f[i] = y
      /\ \A y : y \in ToSet(t) <=> \E i \in 1 .. (N - k) : t[i] = y
  <2>1. \A y : y \in ToSet(s) <=> \E i \in 1 .. N : s[i] = y
    BY <1>1, ElementsOf
  <2>2. \A y : y \in ToSet(f) <=> \E i \in 1 .. k : f[i] = y
    BY <1>3, ElementsOf
  <2>3. \A y : y \in ToSet(t) <=> \E i \in 1 .. Len(t) : t[i] = y
    BY <1>4, ElementsOf
  <2> QED BY <1>4, <2>1, <2>2, <2>3
<1>6. /\ \A i \in 1 .. k : i \in 1 .. N
      /\ \A i \in 1 .. (N - k) : k + i \in 1 .. N
      /\ \A i \in 1 .. N : i \in 1 .. k \/ (i - k \in 1 .. (N - k) /\ i = k + (i - k))
  BY <1>2
<1>7. ToSet(f) \cup ToSet(t) = ToSet(s)
  <2>1. ASSUME NEW y, y \in ToSet(s) PROVE y \in ToSet(f) \cup ToSet(t)
    <3>1. PICK i \in 1 .. N : s[i] = y
      BY <1>5, <2>1
    <3>2. CASE i \in 1 .. k
      BY <1>3, <1>5, <3>1, <3>2
    <3>3. CASE i - k \in 1 .. (N - k) /\ i = k + (i - k)
      BY <1>4, <1>5, <3>1, <3>3
    <3> QED BY <1>6, <3>2, <3>3
  <2>2. ASSUME NEW y, y \in ToSet(f) PROVE y \in ToSet(s)
    BY <1>3, <1>5, <1>6, <2>2
  <2>3. ASSUME NEW y, y \in ToSet(t) PROVE y \in ToSet(s)
    <3>1. PICK i \in 1 .. (N - k) : t[i] = y
      BY <1>5, <2>3
    <3>2. k + i \in 1 .. N /\ s[k + i] = y
      BY <1>4, <1>6, <3>1
    <3> QED BY <1>5, <3>2
  <2> QED BY <2>1, <2>2, <2>3
<1>8. ASSUME Distinct(s) PROVE Distinct(f) /\ Distinct(t) /\ ToSet(f) \cap ToSet(t) = {}
  <2>1. Distinct(f)
    BY <1>1, <1>3, <1>6, <1>8 DEF Distinct
  <2>2. Distinct(t)
    <3>1. ASSUME NEW i \in 1 .. (N - k), NEW j \in 1 .. (N - k), t[i] = t[j]
          PROVE  i = j
      <4>1. s[k + i] = s[k + j] /\ k + i \in 1 .. N /\ k + j \in 1 .. N
        BY <1>4, <1>6, <3>1
      <4>2. k + i = k + j
        BY <1>1, <1>8, <4>1 DEF Distinct
      <4> QED BY <1>2, <4>2
    <3> QED BY <1>4, <3>1 DEF Distinct
  <2>3. ASSUME NEW y, y \in ToSet(f), y \in ToSet(t) PROVE FALSE
    <3>1. PICK i \in 1 .. k : f[i] = y
      BY <1>5, <2>3
    <3>2. PICK j \in 1 .. (N - k) : t[j] = y
      BY <1>5, <2>3
    <3>3. s[i] = s[k + j] /\ i \in 1 .. N /\ k + j \in 1 .. N
      BY <1>3, <1>4, <1>6, <3>1, <3>2
    <3>4. i = k + j
      BY <1>1, <1>8, <3>3 DEF Distinct
    <3> QED BY <1>2, <3>4
  <2> QED BY <2>1, <2>2, <2>3
<1> QED BY <1>1, <1>3, <1>4, <1>7, <1>8 DEF f, t

\* Two sequences, one after the other.
LEMMA JoinSequences ==
    ASSUME NEW S, NEW s \in Seq(S), NEW t \in Seq(S)
    PROVE  /\ s \o t \in Seq(S) /\ Len(s \o t) = Len(s) + Len(t) /\ ToSet(s \o t) = ToSet(s) \cup ToSet(t)
           /\ Distinct(s) /\ Distinct(t) /\ ToSet(s) \cap ToSet(t) = {} => Distinct(s \o t)
<1> DEFINE c == s \o t
<1>1. PICK M, N \in Nat : M = Len(s) /\ N = Len(t)
  BY LenProperties
<1>2. /\ c \in Seq(S) /\ Len(c) = M + N
      /\ \A i \in 1 .. (M + N) : c[i] = IF i <= M THEN s[i] ELSE t[i - M]
  BY <1>1, ConcatProperties
<1> HIDE DEF c
<1>3. /\ \A i \in 1 .. M : i \in 1 .. (M + N) /\ c[i] = s[i]
      /\ \A i \in 1 .. N : M + i \in 1 .. (M + N) /\ c[M + i] = t[i]
      /\ \A i \in 1 .. (M + N) : \/ i \in 1 .. M /\ c[i] = s[i]
                                 \/ i - M \in 1 .. N /\ c[i] = t[i - M]
  <2>1. \A i \in 1 .. M : i \in 1 .. (M + N) /\ i <= M
    OBVIOUS
  <2>2. \A i \in 1 .. N : M + i \in 1 .. (M + N) /\ ~ (M + i <= M) /\ (M + i) - M = i
    OBVIOUS
  <2>3. \A i \in 1 .. (M + N) : (i \in 1 .. M /\ i <= M) \/ (i - M \in 1 .. N /\ ~ (i <= M))
    OBVIOUS
  <2> QED BY <1>2, <2>1, <2>2, <2>3
<1>4. /\ \A y : y \in ToSet(s) <=> \E i \in 1 .. M : s[i] = y
      /\ \A y : y \in ToSet(t) <=> \E i \in 1 .. N : t[i] = y
      /\ \A y : y \in ToSet(c) <=> \E i \in 1 .. (M + N) : c[i] = y
  <2>1. \A y : y \in ToSet(c) <=> \E i \in 1 .. Len(c) : c[i] = y
    BY <1>2, ElementsOf
  <2> QED BY <1>1, <1>2, <2>1, ElementsOf
<1>5. ToSet(c) = ToSet(s) \cup ToSet(t)
  <2>1. ASSUME NEW y, y \in ToSet(c) PROVE y \in ToSet(s) \cup ToSet(t)
    BY <1>3, <1>4, <2>1
  <2>2. ASSUME NEW y, y \in ToSet(s) PROVE y \in ToSet(c)
    BY <1>3, <1>4, <2>2
  <2>3. ASSUME NEW y, y \in ToSet(t) PROVE y \in ToSet(c)
    <3>1. PICK i \in 1 .. N : t[i] = y
      BY <1>4, <2>3
    <3> QED BY <1>3, <1>4, <3>1
  <2> QED BY <2>1, <2>2, <2>3
<1>6. ASSUME Distinct(s), Distinct(t), ToSet(s) \cap ToSet(t) = {} PROVE Distinct(c)
  <2>1. ASSUME NEW i \in 1 .. (M + N), NEW j \in 1 .. (M + N), c[i] = c[j]
        PROVE  i = j
    <3>1. CASE i \in 1 .. M /\ c[i] = s[i] /\ j \in 1 .. M /\ c[j] = s[j]
      BY <1>1, <1>6, <2>1, <3>1 DEF Distinct
    <3>2. CASE i - M \in 1 .. N /\ c[i] = t[i - M] /\ j - M \in 1 .. N /\ c[j] = t[j - M]
      <4>1. i - M = j - M
        BY <1>1, <1>6, <2>1, <3>2 DEF Distinct
      <4> QED BY <4>1
    <3>3. \/ i \in 1 .. M /\ c[i] = s[i] /\ j \in 1 .. M /\ c[j] = s[j]
          \/ i - M \in 1 .. N /\ c[i] = t[i - M] /\ j - M \in 1 .. N /\ c[j] = t[j - M]
      BY <1>3, <1>4, <1>6, <2>1
    <3> QED BY <3>1, <3>2, <3>3
  <2> QED BY <1>2, <2>1 DEF Distinct
<1> QED BY <1>1, <1>2, <1>5, <1>6 DEF c

\* The first element of a sequence taken off.
LEMMA TailElements ==
    ASSUME NEW S, NEW s \in Seq(S), s # <<>>
    PROVE  /\ Head(s) \in S /\ Tail(s) \in Seq(S) /\ Len(Tail(s)) = Len(s) - 1 /\ Head(s) \in ToSet(s)
           /\ ToSet(s) = ToSet(Tail(s)) \cup {Head(s)}
           /\ Distinct(s) => Distinct(Tail(s)) /\ Head(s) \notin ToSet(Tail(s))
<1> DEFINE h == Head(s)
           t == Tail(s)
<1>1. PICK N \in Nat : N = Len(s) /\ N >= 1
  BY LenProperties, EmptySeq
<1>2. h \in S /\ h = s[1] /\ t \in Seq(S) /\ Len(t) = N - 1 /\ \A i \in 1 .. (N - 1) : t[i] = s[i + 1]
  BY <1>1, HeadTailProperties
<1> HIDE DEF h, t
<1>3. /\ \A i \in 1 .. (N - 1) : i + 1 \in 1 .. N
      /\ \A i \in 1 .. N : i = 1 \/ (i - 1 \in 1 .. (N - 1) /\ i = (i - 1) + 1)
      /\ 1 \in 1 .. N
  BY <1>1
<1>4. /\ \A y : y \in ToSet(s) <=> \E i \in 1 .. N : s[i] = y
      /\ \A y : y \in ToSet(t) <=> \E i \in 1 .. (N - 1) : t[i] = y
  BY <1>1, <1>2, ElementsOf
<1>5. ToSet(s) = ToSet(t) \cup {h}
  <2>1. ASSUME NEW y, y \in ToSet(s) PROVE y \in ToSet(t) \cup {h}
    <3>1. PICK i \in 1 .. N : s[i] = y
      BY <1>4, <2>1
    <3>2. CASE i = 1
      BY <1>2, <3>1, <3>2
    <3>3. CASE i - 1 \in 1 .. (N - 1) /\ i = (i - 1) + 1
      <4>1. t[i - 1] = y
        BY <1>2, <3>1, <3>3
      <4> QED BY <1>4, <3>3, <4>1
    <3> QED BY <1>3, <3>2, <3>3
  <2> QED BY <1>2, <1>3, <1>4, <2>1
<1>6. ASSUME Distinct(s) PROVE Distinct(t) /\ h \notin ToSet(t)
  <2>1. ASSUME NEW i \in 1 .. (N - 1), NEW j \in 1 .. (N - 1), t[i] = t[j]
        PROVE  i = j
    <3>1. s[i + 1] = s[j + 1] /\ i + 1 \in 1 .. N /\ j + 1 \in 1 .. N
      BY <1>2, <1>3, <2>1
    <3>2. i + 1 = j + 1
      BY <1>1, <1>6, <3>1 DEF Distinct
    <3> QED BY <3>2
  <2>2. ASSUME NEW i \in 1 .. (N - 1), t[i] = h
        PROVE  FALSE
    <3>1. s[i + 1] = s[1] /\ i + 1 \in 1 .. N /\ 1 \in 1 .. N
      BY <1>2, <1>3, <2>2
    <3>2. i + 1 = 1
      BY <1>1, <1>6, <3>1 DEF Distinct
    <3> QED BY <3>2
  <2> QED BY <1>2, <1>4, <2>1, <2>2 DEF Distinct
<1> QED BY <1>1, <1>2, <1>5, <1>6 DEF h, t

\* Without duplicates a sequence has as many elements as it is long.
LEMMA DistinctCount ==
    ASSUME NEW S, NEW s \in Seq(S), Distinct(s)
    PROVE  Cardinality(ToSet(s)) = Len(s)
<1>1. PICK N \in Nat : N = Len(s)
  BY LenProperties
<1>2. s \in [1 .. N -> S] /\ s = [i \in 1 .. N |-> s[i]]
  BY <1>1, LenProperties
<1>3. ToSet(s) = {s[i] : i \in 1 .. N}
  BY <1>1, ElementsOf
<1>4. s \in Surjection(1 .. N, ToSet(s))
  BY <1>2, <1>3 DEF Surjection
<1>5. s \in Injection(1 .. N, ToSet(s))
  BY <1>1, <1>2, <1>3 DEF Distinct, Injection, IsInjective
<1>6. Cardinality(ToSet(s)) = N
  <2> DEFINE T == ToSet(s)
             D == 1 .. N
  <2>1. IsFiniteSet(D) /\ Cardinality(D) = N
    BY FS_Interval
  <2>2. s \in Surjection(D, T) /\ s \in Injection(D, T)
    BY <1>4, <1>5
  <2> HIDE DEF T, D
  <2>3. Cardinality(T) = Cardinality(D)
    BY <2>1, <2>2, FS_Surjection
  <2> QED BY <2>1, <2>3 DEF T
<1> QED BY <1>1, <1>6

\* The least element of a set of numbers, the form in which induction is used.
LEMMA LeastNumber ==
    ASSUME NEW S \in SUBSET Nat, S # {}
    PROVE  \E n \in S : \A m \in S : n <= m
<1>1. PICK n \in S : \A m \in S : <<m, n>> \notin OpToRel(<, Nat)
  BY NatLessThanWellFounded, WFMin
<1>2. \A m \in S : ~ (m < n)
  BY <1>1 DEF OpToRel
<1> QED BY <1>2

-----------------------------------------------------------------------------
(* The log sink. *)

Ends == {"new", "checked", "accepted", "evicted", "refused"}

\* Nothing is in the queue and the batch twice, or in the queue and in the
\* database; what is in one of the three is what was accepted.
SkInv ==
    /\ enq \in [Entries -> Ends] /\ queue \in Seq(Entries) /\ pending \in Seq(Entries) /\ Len(queue) <= QueueCap
    /\ flusher \in {"collect", "write", "off"} /\ closing \in BOOLEAN
    /\ Distinct(queue) /\ Distinct(pending) /\ ToSet(queue) \cap ToSet(pending) = {} /\ ToSet(queue) \cap logRows = {}
    /\ \A e \in Entries : enq[e] = "accepted" <=> e \in ToSet(queue) \cup ToSet(pending) \cup logRows
    /\ logRows \subseteq Entries /\ payloads \subseteq logRows \ BadPayloads

\* The sink starts empty.
LEMMA SkInvInit == SinkInit => SkInv
<1> SUFFICES ASSUME SinkInit PROVE SkInv
  OBVIOUS
<1>1. <<>> \in Seq(Entries) /\ Len(<<>>) = 0 /\ ToSet(<<>>) = {} /\ Distinct(<<>>)
  BY EmptySequence
<1>2. 0 <= QueueCap
  BY SinkAssumption
<1> QED BY <1>1, <1>2 DEF SinkInit, SkInv, Ends

\* What a write commits is in the batch, and no refused payload with it.
LEMMA CommittedFromBatch ==
    ASSUME NEW b \in Seq(Entries)
    PROVE  PayloadsCommitted(b) \subseteq ToSet(b) \ BadPayloads
<1>1. ASSUME NEW x \in PayloadsCommitted(b) PROVE x \in ToSet(b) /\ x \notin BadPayloads
  <2>1. PICK i \in 1 .. Len(b) : x = b[i] /\ \A j \in i .. Len(b) : b[j] \notin BadPayloads
    BY <1>1 DEF PayloadsCommitted
  <2>2. i \in i .. Len(b)
    BY LenProperties
  <2> QED BY <2>1, <2>2, ElementsOf
<1> QED BY <1>1

\* A step that moves entries towards the database: what it takes from the
\* queue it keeps in the batch or has written, and it writes what was in
\* the batch.
LEMMA MovedOn ==
    ASSUME SkInv, UNCHANGED <<enq, closing>>, flusher' \in {"collect", "write", "off"},
           queue' \in Seq(Entries), pending' \in Seq(Entries), Len(queue') <= QueueCap,
           Distinct(queue'), Distinct(pending'), ToSet(queue') \cap ToSet(pending') = {},
           ToSet(queue') \subseteq ToSet(queue),
           logRows \subseteq logRows', ToSet(queue') \cap logRows' = {},
           ToSet(queue') \cup ToSet(pending') \cup logRows' = ToSet(queue) \cup ToSet(pending) \cup logRows,
           payloads' \subseteq logRows' \ BadPayloads
    PROVE  SkInv'
<1>1. logRows' \subseteq Entries
  BY ElementsOf DEF SkInv
<1>2. \A e \in Entries : enq'[e] = "accepted" <=> e \in ToSet(queue') \cup ToSet(pending') \cup logRows'
  BY DEF SkInv
<1> QED BY <1>1, <1>2 DEF SkInv

\* The write of a batch.
LEMMA CommitStep ==
    ASSUME SkInv, NEW b \in Seq(Entries), Commit(b)
    PROVE  logRows' = logRows \cup ToSet(b) /\ payloads' \subseteq logRows' \ BadPayloads
<1>1. logRows' = logRows \cup ToSet(b) /\ payloads' = payloads \cup PayloadsCommitted(b)
  BY DEF Commit
<1>2. payloads \subseteq logRows \ BadPayloads
  BY DEF SkInv
<1> QED BY <1>1, <1>2, CommittedFromBatch

\* Every step of Enqueue, of the flusher and of Close keeps the account.
LEMMA SkInvStep == SkInv /\ [SinkNext]_sinkVars => SkInv'
<1> SUFFICES ASSUME SkInv, [SinkNext]_sinkVars PROVE SkInv'
  OBVIOUS
<1> USE SinkAssumption
<1>1. CASE UNCHANGED sinkVars
  BY <1>1 DEF sinkVars, SkInv
<1>2. ASSUME NEW e \in Entries, EnqueueCheck(e) PROVE SkInv'
  <2>1. enq' = [enq EXCEPT ![e] = IF closing THEN "refused" ELSE "checked"] /\ enq[e] = "new"
    BY <1>2 DEF EnqueueCheck
  <2>2. enq' \in [Entries -> Ends] /\ \A x \in Entries : enq'[x] = "accepted" <=> enq[x] = "accepted"
    BY <2>1 DEF SkInv, Ends
  <2>3. UNCHANGED <<queue, pending, flusher, closing, logRows, payloads>>
    BY <1>2 DEF EnqueueCheck
  <2> QED BY <2>2, <2>3 DEF SkInv
<1>3. ASSUME NEW e \in Entries, EnqueueSend(e) PROVE SkInv'
  <2>1. /\ enq[e] = "checked" /\ Len(queue) < QueueCap /\ queue' = Append(queue, e)
        /\ enq' = [enq EXCEPT ![e] = "accepted"] /\ UNCHANGED <<pending, flusher, closing, logRows, payloads>>
    BY <1>3 DEF EnqueueSend
  <2>2. e \notin ToSet(queue) \cup ToSet(pending) \cup logRows /\ queue \in Seq(Entries) /\ Distinct(queue)
    BY <2>1 DEF SkInv
  <2>3. /\ queue' \in Seq(Entries) /\ Len(queue') = Len(queue) + 1 /\ ToSet(queue') = ToSet(queue) \cup {e}
        /\ Distinct(queue')
    BY <2>1, <2>2, AppendElement
  <2>4. Len(queue') <= QueueCap
    BY <2>1, <2>2, <2>3, LenProperties
  <2>5. enq' \in [Entries -> Ends] /\ \A x \in Entries : enq'[x] = "accepted" <=> (enq[x] = "accepted" \/ x = e)
    BY <2>1 DEF SkInv, Ends
  <2> QED BY <2>1, <2>2, <2>3, <2>4, <2>5 DEF SkInv
<1>4. ASSUME NEW e \in Entries, EnqueueEvict(e) PROVE SkInv'
  <2>1. /\ enq[e] = "checked" /\ Len(queue) = QueueCap /\ queue' = Tail(queue)
        /\ enq' = [enq EXCEPT ![Head(queue)] = "evicted", ![e] = IF closing THEN "refused" ELSE @]
        /\ UNCHANGED <<pending, flusher, closing, logRows, payloads>>
    BY <1>4 DEF EnqueueEvict
  <2>2. queue \in Seq(Entries) /\ queue # <<>> /\ Distinct(queue)
    BY <2>1, EmptySeq DEF SkInv
  <2> DEFINE h == Head(queue)
  <2>3. /\ h \in Entries /\ queue' \in Seq(Entries) /\ Len(queue') = Len(queue) - 1
        /\ ToSet(queue) = ToSet(queue') \cup {h} /\ Distinct(queue') /\ h \notin ToSet(queue')
    BY <2>1, <2>2, TailElements
  <2>4. enq' = [enq EXCEPT ![h] = "evicted", ![e] = IF closing THEN "refused" ELSE @]
    BY <2>1
  <2> HIDE DEF h
  <2>5. enq[h] = "accepted" /\ h # e /\ h \notin ToSet(pending) \cup logRows
    BY <2>1, <2>3 DEF SkInv
  <2>6. /\ enq' \in [Entries -> Ends]
        /\ \A x \in Entries : enq'[x] = "accepted" <=> (enq[x] = "accepted" /\ x # h)
    BY <2>1, <2>3, <2>4, <2>5 DEF SkInv, Ends
  <2>7. Len(queue') <= QueueCap
    BY <2>1, <2>3
  <2>8. \A x \in Entries : enq'[x] = "accepted" <=> x \in ToSet(queue') \cup ToSet(pending) \cup logRows
    BY <2>3, <2>5, <2>6 DEF SkInv
  <2> QED BY <2>1, <2>3, <2>6, <2>7, <2>8 DEF SkInv
<1>5. ASSUME Collect PROVE SkInv'
  <2>1. /\ queue # <<>> /\ pending' = Append(pending, Head(queue)) /\ queue' = Tail(queue)
        /\ flusher' \in {"collect", "write"} /\ UNCHANGED <<enq, closing, logRows, payloads>>
    BY <1>5 DEF Collect
  <2>2. queue \in Seq(Entries) /\ pending \in Seq(Entries) /\ Distinct(queue) /\ Distinct(pending)
    BY DEF SkInv
  <2> DEFINE h == Head(queue)
  <2>3. /\ h \in Entries /\ queue' \in Seq(Entries) /\ Len(queue') = Len(queue) - 1
        /\ ToSet(queue) = ToSet(queue') \cup {h} /\ Distinct(queue') /\ h \notin ToSet(queue')
    BY <2>1, <2>2, TailElements
  <2>4. pending' = Append(pending, h)
    BY <2>1
  <2> HIDE DEF h
  <2>5. h \notin ToSet(pending)
    BY <2>3 DEF SkInv
  <2>6. pending' \in Seq(Entries) /\ ToSet(pending') = ToSet(pending) \cup {h} /\ Distinct(pending')
    BY <2>2, <2>3, <2>4, <2>5, AppendElement
  <2>7. Len(queue') <= QueueCap
    BY <2>2, <2>3, LenProperties DEF SkInv
  <2>8. /\ ToSet(queue') \cap ToSet(pending') = {} /\ ToSet(queue') \cap logRows' = {}
        /\ ToSet(queue') \cup ToSet(pending') \cup logRows' = ToSet(queue) \cup ToSet(pending) \cup logRows
        /\ payloads' \subseteq logRows' \ BadPayloads
    BY <2>1, <2>3, <2>6 DEF SkInv
  <2> QED BY <2>1, <2>3, <2>6, <2>7, <2>8, MovedOn
<1>6. ASSUME FlushTick \/ Close PROVE SkInv'
  BY <1>6 DEF FlushTick, Close, SkInv
<1>7. ASSUME WriteOK PROVE SkInv'
  <2>1. Commit(pending) /\ pending' = <<>> /\ flusher' = "collect" /\ UNCHANGED <<enq, queue, closing>>
    BY <1>7 DEF WriteOK
  <2>2. logRows' = logRows \cup ToSet(pending) /\ payloads' \subseteq logRows' \ BadPayloads
    BY <2>1, CommitStep DEF SkInv
  <2>3. pending' \in Seq(Entries) /\ ToSet(pending') = {} /\ Distinct(pending')
    BY <2>1, EmptySequence
  <2>4. ToSet(queue') \cap logRows' = {}
    BY <2>1, <2>2 DEF SkInv
  <2>5. queue' \in Seq(Entries) /\ Len(queue') <= QueueCap /\ Distinct(queue')
    BY <2>1 DEF SkInv
  <2> QED BY <2>1, <2>2, <2>3, <2>4, <2>5, MovedOn
<1>8. ASSUME WriteFails PROVE SkInv'
  <2>1. /\ Commit(pending) \/ UNCHANGED <<logRows, payloads>>
        /\ pending' = pending \o SubSeq(queue, 1, Refill(pending))
        /\ queue' = SubSeq(queue, Refill(pending) + 1, Len(queue))
        /\ flusher' = "collect" /\ UNCHANGED <<enq, closing>>
    BY <1>8 DEF WriteFails, Kept
  <2>2. queue \in Seq(Entries) /\ pending \in Seq(Entries) /\ Distinct(queue) /\ Distinct(pending)
    BY DEF SkInv
  <2>3. Refill(pending) \in 0 .. Len(queue)
    <3>1. Len(pending) \in Nat /\ Len(queue) \in Nat /\ BatchSize \in Nat
      BY <2>2, LenProperties
    <3> QED BY <3>1 DEF Refill
  <2>4. PICK k \in 0 .. Len(queue) : k = Refill(pending)
    BY <2>3
  <2> DEFINE f == SubSeq(queue, 1, k)
  <2>5. /\ f \in Seq(Entries) /\ queue' \in Seq(Entries) /\ Len(queue') = Len(queue) - k
        /\ ToSet(f) \cup ToSet(queue') = ToSet(queue)
        /\ Distinct(f) /\ Distinct(queue') /\ ToSet(f) \cap ToSet(queue') = {}
    BY <2>1, <2>2, <2>4, CutSequence
  <2>6. pending' = pending \o f
    BY <2>1, <2>4
  <2> HIDE DEF f
  <2>7. ToSet(pending) \cap ToSet(f) = {}
    BY <2>5 DEF SkInv
  <2>8. pending' \in Seq(Entries) /\ ToSet(pending') = ToSet(pending) \cup ToSet(f) /\ Distinct(pending')
    BY <2>2, <2>5, <2>6, <2>7, JoinSequences
  <2>9. Len(queue') <= QueueCap
    BY <2>2, <2>4, <2>5, LenProperties DEF SkInv
  <2>10. /\ logRows \subseteq logRows' /\ logRows' \subseteq logRows \cup ToSet(pending)
         /\ payloads' \subseteq logRows' \ BadPayloads
    BY <2>1, <2>2, CommitStep DEF SkInv
  <2>11. /\ ToSet(queue') \cap ToSet(pending') = {} /\ ToSet(queue') \subseteq ToSet(queue)
         /\ ToSet(queue') \cap logRows' = {}
    BY <2>5, <2>8, <2>10 DEF SkInv
  <2>12. ToSet(queue') \cup ToSet(pending') \cup logRows' = ToSet(queue) \cup ToSet(pending) \cup logRows
    BY <2>5, <2>8, <2>10
  <2> QED BY <2>1, <2>5, <2>8, <2>9, <2>10, <2>11, <2>12, MovedOn
<1>9. ASSUME FinalDrain PROVE SkInv'
  <2>1. /\ flusher' = "off" /\ queue' = <<>> /\ UNCHANGED <<enq, closing>>
        /\ \/ Commit(pending \o queue) /\ pending' = <<>>
           \/ pending' = pending \o queue /\ UNCHANGED <<logRows, payloads>>
    BY <1>9 DEF FinalDrain, Drained
  <2>2. /\ queue \in Seq(Entries) /\ pending \in Seq(Entries) /\ Distinct(queue) /\ Distinct(pending)
        /\ ToSet(pending) \cap ToSet(queue) = {}
    BY DEF SkInv
  <2> DEFINE d == pending \o queue
  <2>3. d \in Seq(Entries) /\ ToSet(d) = ToSet(pending) \cup ToSet(queue) /\ Distinct(d)
    BY <2>2, JoinSequences
  <2>4. (Commit(d) /\ pending' = <<>>) \/ (pending' = d /\ UNCHANGED <<logRows, payloads>>)
    BY <2>1
  <2> HIDE DEF d
  <2>5. queue' \in Seq(Entries) /\ ToSet(queue') = {} /\ Distinct(queue') /\ Len(queue') <= QueueCap
    BY <2>1, EmptySequence
  <2>6. /\ pending' \in Seq(Entries) /\ Distinct(pending') /\ logRows \subseteq logRows'
        /\ ToSet(queue') \cup ToSet(pending') \cup logRows' = ToSet(queue) \cup ToSet(pending) \cup logRows
        /\ payloads' \subseteq logRows' \ BadPayloads
    <3>1. CASE Commit(d) /\ pending' = <<>>
      <4>1. logRows' = logRows \cup ToSet(d) /\ payloads' \subseteq logRows' \ BadPayloads
        BY <2>3, <3>1, CommitStep
      <4>2. pending' \in Seq(Entries) /\ ToSet(pending') = {} /\ Distinct(pending')
        BY <3>1, EmptySequence
      <4> QED BY <2>3, <2>5, <4>1, <4>2
    <3>2. CASE pending' = d /\ UNCHANGED <<logRows, payloads>>
      BY <2>3, <2>5, <3>2 DEF SkInv
    <3> QED BY <2>4, <3>1, <3>2
  <2> QED BY <2>1, <2>5, <2>6, MovedOn
<1> QED
  BY <1>1, <1>2, <1>3, <1>4, <1>5, <1>6, <1>7, <1>8, <1>9 DEF SinkNext

\* The account implies what the sink promises.
LEMMA SkInvSound == SkInv => SinkSound
<1> SUFFICES ASSUME SkInv PROVE SinkSound
  OBVIOUS
<1>1. SinkTypeOK
  <2>1. payloads \subseteq Entries \ BadPayloads
    BY DEF SkInv
  <2> QED BY <2>1 DEF SinkTypeOK, SkInv, Ends
<1>2. AcceptedAccounted
  BY DEF AcceptedAccounted, Accepted, SkInv
<1>3. DroppedIsDropped
  <2> DEFINE way == pending \o queue
  <2>1. ToSet(way) = ToSet(pending) \cup ToSet(queue) /\ Distinct(way) /\ way \in Seq(Entries)
    BY JoinSequences DEF SkInv
  <2> HIDE DEF way
  <2>2. Cardinality(ToSet(way)) = Len(way)
    BY <2>1, DistinctCount
  <2>3. \A e \in Entries : enq[e] \in {"evicted", "refused"} => e \notin ToSet(way) \cup logRows
    BY <2>1 DEF SkInv
  <2> QED BY <2>2, <2>3 DEF DroppedIsDropped, way
<1>4. PayloadsHaveLogs
  BY DEF PayloadsHaveLogs, SkInv
<1> QED BY <1>1, <1>2, <1>3, <1>4 DEF SinkSound

\* Through evictions, outages, retries, a lost answer of the database and the
\* drain at the end, for any entries, queue and batch: what the sink accepted
\* is queued, in the batch or written, and what it dropped is nowhere.
THEOREM LogSinkIsSound == PartsSpec => []LogSinkSound
<1>1. PartsInit => SkInv
  BY SkInvInit DEF PartsInit
<1> DEFINE v == <<focus, gateVars, limVars, tqVars, cacheVars, semVars, sinkVars, storeVars, processVars, reloadVars,
                  mfVars, storeFileVars, policyVars, epVars, shardVars>>
<1>2. SkInv /\ [PartsNext]_v => SkInv'
  <2> SUFFICES ASSUME SkInv, [PartsNext]_v PROVE SkInv'
    OBVIOUS
  <2>1. PartsNext => SinkNext \/ UNCHANGED sinkVars
    BY DEF PartsNext
  <2> QED BY <2>1, SkInvStep
<1>3. SkInv => LogSinkSound
  BY SkInvSound DEF LogSinkSound
<1> QED BY <1>1, <1>2, <1>3, PTL DEF PartsSpec

-----------------------------------------------------------------------------
(* Processes. *)

Stations == {"new", "loaded", "locked", "launching", "started", "built", "made", "persistent",
             "running", "draining", "waiting", "drained", "stopping", "stopped", "exited"}
Serving == {"running", "draining", "waiting", "drained", "stopping", "stopped"}
Drains == {"drained", "stopping", "stopped"}
Stoppable == {"discovery", "browser", "engine", "model", "index", "metrics",
              "detector", "rules", "reports", "alerts", "sink"}
AllWorkers == Stoppable \cup {"reapers"}

ProcessType ==
    [pc : Stations, owns : BOOLEAN, srv : {"none", "routes", "server", "unix", "listening", "ended"}, unix : BOOLEAN,
     reqs : Nat, workers : SUBSET AllWorkers, sink : {"off", "open", "closed"}, cut : BOOLEAN, missed : BOOLEAN,
     closed : BOOLEAN, toStop : Seq(Stoppable)]

\* One process: it serves only between StartServer and its end; from the drain
\* on it has no request that is not excused; the sink is the last to be
\* stopped, and whoever still works is still to be stopped.
Timely(x) ==
    /\ x.srv # "none" \/ x.unix => x.pc \in Serving
    /\ x.pc = "waiting" => x.closed
    /\ x.pc \in Drains => x.missed \/ (x.closed /\ (x.cut \/ x.reqs = 0))

TornDown(x) ==
    /\ x.sink = "closed" => x.pc = "stopped" /\ x.toStop = <<>>
    /\ x.pc \in {"stopping", "stopped"} => "reapers" \notin x.workers
    /\ x.pc = "stopped" => /\ x.workers \subseteq ToSet(x.toStop)
                           /\ \A i \in 1 .. Len(x.toStop) : x.toStop[i] = "sink" <=> i = Len(x.toStop)

Well(x) == x \in ProcessType /\ Timely(x) /\ TornDown(x)

\* Past the lock.
Past(x) == x.pc \notin {"new", "exited", "loaded"}

\* The processes together: with a data directory one of them at most is past
\* the lock, and the socket is its own.
PsInv ==
    /\ proc = [p \in Procs |-> proc[p]] /\ \A p \in Procs : Well(proc[p])
    /\ DataDir => /\ \A p \in Procs : Past(proc[p]) => lock = p
                  /\ socket \in {Nobody, lock}
                  /\ \A p \in Procs : Past(proc[p]) /\ proc[p].unix /\ ~ proc[p].closed => socket = p
                  /\ harm \cap {"stopped under a gateway", "took a socket"} = {}
    /\ harm \cap {"stopped under a request", "enqueued late"} = {}

\* A step of one process that touches neither the lock nor the socket.
LEMMA QuietStep ==
    ASSUME PsInv, NEW p \in Procs, NEW x, To(p, x), Well(x), UNCHANGED <<lock, socket>>,
           harm' = harm \/ (~ DataDir /\ harm' \subseteq harm \cup {"stopped under a gateway", "took a socket"}),
           Past(x) => Past(proc[p]), x.unix /\ ~ x.closed => proc[p].unix /\ ~ proc[p].closed
    PROVE  PsInv'
<1>1. proc' = [proc EXCEPT ![p] = x]
  BY DEF To
<1>2. proc' = [q \in Procs |-> proc'[q]] /\ \A q \in Procs : proc'[q] = IF q = p THEN x ELSE proc[q]
  BY <1>1 DEF PsInv
<1>3. \A q \in Procs : Well(proc'[q])
  BY <1>2 DEF PsInv
<1>4. \A q \in Procs : /\ Past(proc'[q]) => Past(proc[q])
                       /\ proc'[q].unix /\ ~ proc'[q].closed => proc[q].unix /\ ~ proc[q].closed
  BY <1>2
<1> QED BY <1>2, <1>3, <1>4 DEF PsInv

\* A process that is no more.
LEMMA GoneWell == LET x == [NewProcess EXCEPT !.pc = "exited"] IN Well(x) /\ ~ Past(x) /\ Well(NewProcess) /\ ~ Past(NewProcess)
<1> DEFINE n == NewProcess
           x == [NewProcess EXCEPT !.pc = "exited"]
<1>1. <<>> \in Seq(Stoppable)
  BY EmptySequence
<1>2. n \in ProcessType /\ x \in ProcessType
  BY <1>1 DEF NewProcess, ProcessType, Stations
<1>3. /\ n.pc = "new" /\ n.srv = "none" /\ n.unix = FALSE /\ n.sink = "off"
      /\ x.pc = "exited" /\ x.srv = "none" /\ x.unix = FALSE /\ x.sink = "off"
  BY DEF NewProcess
<1> HIDE DEF n, x
<1>4. Timely(n) /\ Timely(x)
  BY <1>3 DEF Timely, Drains
<1>5. TornDown(n) /\ TornDown(x)
  BY <1>3 DEF TornDown
<1>6. ~ Past(n) /\ ~ Past(x)
  BY <1>3 DEF Past
<1> QED BY <1>2, <1>4, <1>5, <1>6 DEF Well, n, x

\* A process that ends gives back the lock, the port and the socket.
LEMMA ExitStep ==
    ASSUME PsInv, NEW p \in Procs, Exit(p), UNCHANGED harm
    PROVE  PsInv'
<1> DEFINE x == [NewProcess EXCEPT !.pc = "exited"]
<1>1. /\ proc' = [proc EXCEPT ![p] = x] /\ lock' = (IF lock = p THEN Nobody ELSE lock)
      /\ socket' = (IF socket = p THEN Nobody ELSE socket)
  BY DEF Exit, To
<1>2. Well(x) /\ ~ Past(x)
  BY GoneWell
<1> HIDE DEF x
<1>3. proc' = [q \in Procs |-> proc'[q]] /\ \A q \in Procs : proc'[q] = IF q = p THEN x ELSE proc[q]
  BY <1>1 DEF PsInv
<1>4. \A q \in Procs : Well(proc'[q])
  BY <1>2, <1>3 DEF PsInv
<1>5. ASSUME DataDir
      PROVE  /\ \A q \in Procs : Past(proc'[q]) => lock' = q
             /\ socket' \in {Nobody, lock'}
             /\ \A q \in Procs : Past(proc'[q]) /\ proc'[q].unix /\ ~ proc'[q].closed => socket' = q
  <2>1. ASSUME NEW q \in Procs, Past(proc'[q])
        PROVE  lock' = q /\ (proc'[q].unix /\ ~ proc'[q].closed => socket' = q)
    BY <1>1, <1>2, <1>3, <1>5, <2>1 DEF PsInv
  <2>2. socket' \in {Nobody, lock'}
    BY <1>1, <1>5 DEF PsInv
  <2> QED BY <2>1, <2>2
<1> QED BY <1>3, <1>4, <1>5 DEF PsInv

\* A process that goes on to its next station, before the drain.
LEMMA Relabelled ==
    ASSUME NEW o, Well(o), NEW c \in Stations \ (Drains \cup {"waiting"}), o.pc \notin Drains,
           c \in Serving \/ o.pc \notin Serving, NEW x, x = [o EXCEPT !.pc = c]
    PROVE  Well(x) /\ x.pc = c /\ (x.unix /\ ~ x.closed => o.unix /\ ~ o.closed)
<1>1. x \in ProcessType
  BY DEF Well, ProcessType
<1>2. x.pc = c /\ x.srv = o.srv /\ x.unix = o.unix /\ x.closed = o.closed /\ x.sink = o.sink
  BY DEF Well, ProcessType
<1>3. Timely(x)
  BY <1>2 DEF Well, Timely, Drains
<1>4. TornDown(x)
  BY <1>2 DEF Well, TornDown, Drains
<1> QED BY <1>1, <1>2, <1>3, <1>4 DEF Well

\* The start of a process, up to its serving.
LEMMA StartSteps ==
    ASSUME PsInv, NEW p \in Procs,
           \/ LoadWithRecovery(p) \/ AcquireInstanceLock(p) \/ autoStartLocal(p) \/ autoStartLaunch(p)
           \/ BuildProviders(p) \/ New(p) \/ OpenPersistence(p) \/ StartServer(p) \/ Signal(p)
    PROVE  PsInv'
<1> DEFINE o == proc[p]
<1>1. Well(o) /\ o \in ProcessType
  BY DEF PsInv, Well
<1>2. ASSUME NEW c \in Stations \ (Drains \cup {"waiting"}), o.pc \notin Drains, c \in Serving \/ o.pc \notin Serving,
             c = "loaded" \/ Past(o), Goto(p, c), UNCHANGED <<lock, socket, harm>>
      PROVE  PsInv'
  <2> DEFINE x == [o EXCEPT !.pc = c]
  <2>1. To(p, x)
    BY <1>2 DEF Goto
  <2> HIDE DEF o
  <2>2. Well(x) /\ x.pc = c /\ (x.unix /\ ~ x.closed => o.unix /\ ~ o.closed)
    BY <1>1, <1>2, Relabelled
  <2> HIDE DEF x
  <2>3. Past(x) => Past(o)
    BY <1>2, <2>2 DEF Past
  <2> QED BY <1>2, <2>1, <2>2, <2>3, QuietStep DEF o
<1>3. CASE LoadWithRecovery(p)
  BY <1>2, <1>3 DEF LoadWithRecovery, At, Stations, Drains, Serving
<1>4. CASE autoStartLocal(p)
  <2>1. o.pc = "locked" /\ UNCHANGED <<lock, socket, harm>> /\ (Goto(p, "started") \/ Goto(p, "launching"))
    BY <1>4 DEF autoStartLocal, At
  <2> QED BY <1>2, <2>1 DEF Stations, Drains, Serving, Past
<1>5. CASE BuildProviders(p)
  <2>1. o.pc = "started" /\ UNCHANGED harm
    BY <1>5 DEF BuildProviders, At
  <2>2. CASE Goto(p, "built") /\ UNCHANGED <<lock, port, socket>>
    BY <1>2, <2>1, <2>2 DEF Stations, Drains, Serving, Past
  <2>3. CASE Exit(p)
    BY <2>1, <2>3, ExitStep
  <2> QED BY <1>5, <2>2, <2>3 DEF BuildProviders
<1>6. CASE Signal(p)
  BY <1>2, <1>6 DEF Signal, At, Stations, Drains, Serving, Past
<1>7. CASE autoStartLaunch(p)
  <2>1. o.pc = "launching" /\ UNCHANGED <<lock, socket, harm>>
    BY <1>7 DEF autoStartLaunch, At
  <2>2. CASE Goto(p, "started")
    BY <1>2, <2>1, <2>2 DEF Stations, Drains, Serving, Past
  <2> DEFINE x == [o EXCEPT !.pc = "started", !.owns = TRUE]
  <2>3. CASE To(p, x)
    <3>1. x \in ProcessType
      BY <1>1 DEF ProcessType, Stations
    <3>2. x.pc = "started" /\ x.srv = o.srv /\ x.unix = o.unix /\ x.closed = o.closed /\ x.sink = o.sink
      BY <1>1 DEF ProcessType
    <3> HIDE DEF x, o
    <3>3. Timely(x) /\ TornDown(x)
      BY <1>1, <2>1, <3>2 DEF Well, Timely, TornDown, Drains, Serving
    <3>4. Past(x) => Past(o)
      BY <2>1 DEF Past
    <3>5. x.unix /\ ~ x.closed => o.unix /\ ~ o.closed
      BY <3>2
    <3>6. Well(x)
      BY <3>1, <3>3 DEF Well
    <3> QED BY <2>1, <2>3, <3>4, <3>5, <3>6, QuietStep DEF o
  <2> QED BY <1>7, <2>2, <2>3 DEF autoStartLaunch
<1>8. CASE New(p)
  <2> DEFINE x == [o EXCEPT !.pc = "made", !.workers = {"reapers", "alerts"}]
  <2>1. o.pc = "built" /\ UNCHANGED <<lock, socket, harm>> /\ To(p, x)
    BY <1>8 DEF New, At
  <2>2. x \in ProcessType
    BY <1>1 DEF ProcessType, Stations, AllWorkers, Stoppable
  <2>3. x.pc = "made" /\ x.srv = o.srv /\ x.unix = o.unix /\ x.closed = o.closed /\ x.sink = o.sink
    BY <1>1 DEF ProcessType
  <2> HIDE DEF x, o
  <2>4. Timely(x) /\ TornDown(x)
    BY <1>1, <2>1, <2>3 DEF Well, Timely, TornDown, Drains, Serving
  <2>5. Past(x) => Past(o)
    BY <2>1 DEF Past
  <2>6. Well(x) /\ (x.unix /\ ~ x.closed => o.unix /\ ~ o.closed)
    BY <2>2, <2>3, <2>4 DEF Well
  <2> QED BY <2>1, <2>5, <2>6, QuietStep DEF o
<1>9. CASE OpenPersistence(p)
  <2>1. o.pc = "made" /\ UNCHANGED harm
    BY <1>9 DEF OpenPersistence, At
  <2>2. CASE Goto(p, "persistent") /\ UNCHANGED <<lock, port, socket>>
    BY <1>2, <2>1, <2>2 DEF Stations, Drains, Serving, Past
  <2>3. CASE Exit(p)
    BY <2>1, <2>3, ExitStep
  <2> DEFINE x == [o EXCEPT !.pc = "persistent", !.sink = "open", !.workers = @ \cup InsightsWorkers]
  <2>4. CASE To(p, x) /\ UNCHANGED <<lock, port, socket>>
    <3>1. x \in ProcessType
      BY <1>1 DEF ProcessType, Stations, AllWorkers, Stoppable, InsightsWorkers
    <3>2. x.pc = "persistent" /\ x.srv = o.srv /\ x.unix = o.unix /\ x.closed = o.closed /\ x.sink = "open"
      BY <1>1 DEF ProcessType
    <3> HIDE DEF x, o
    <3>3. Timely(x) /\ TornDown(x)
      BY <1>1, <2>1, <3>2 DEF Well, Timely, TornDown, Drains, Serving
    <3>4. Past(x) => Past(o)
      BY <2>1 DEF Past
    <3>5. Well(x) /\ (x.unix /\ ~ x.closed => o.unix /\ ~ o.closed)
      BY <3>1, <3>2, <3>3 DEF Well
    <3> QED BY <2>1, <2>4, <3>4, <3>5, QuietStep DEF o
  <2> QED BY <1>9, <2>2, <2>3, <2>4 DEF OpenPersistence
<1>10. CASE StartServer(p)
  <2> DEFINE x == [o EXCEPT !.pc = "running", !.srv = "routes", !.workers = @ \cup BackgroundWorkers]
  <2>1. o.pc = "persistent" /\ UNCHANGED <<lock, socket, harm>> /\ To(p, x)
    BY <1>10 DEF StartServer, At
  <2>2. x \in ProcessType
    BY <1>1 DEF ProcessType, Stations, AllWorkers, Stoppable, BackgroundWorkers
  <2>3. x.pc = "running" /\ x.srv = "routes" /\ x.unix = o.unix /\ x.closed = o.closed /\ x.sink = o.sink
    BY <1>1 DEF ProcessType
  <2> HIDE DEF x, o
  <2>4. Timely(x) /\ TornDown(x)
    BY <1>1, <2>1, <2>3 DEF Well, Timely, TornDown, Drains, Serving
  <2>5. Past(x) => Past(o)
    BY <2>1 DEF Past
  <2>6. Well(x) /\ (x.unix /\ ~ x.closed => o.unix /\ ~ o.closed)
    BY <2>2, <2>3, <2>4 DEF Well
  <2> QED BY <2>1, <2>5, <2>6, QuietStep DEF o
<1>11. CASE AcquireInstanceLock(p)
  <2>1. o.pc = "loaded" /\ UNCHANGED harm
    BY <1>11 DEF AcquireInstanceLock, At
  <2>2. CASE Exit(p)
    BY <2>1, <2>2, ExitStep
  <2>3. CASE ~ (DataDir /\ lock # Nobody)
    <3> DEFINE x == [o EXCEPT !.pc = "locked"]
    <3>1. proc' = [proc EXCEPT ![p] = x] /\ lock' = (IF DataDir THEN p ELSE lock) /\ UNCHANGED socket
      BY <1>11, <2>3 DEF AcquireInstanceLock, Goto, To
    <3> HIDE DEF o
    <3>2. Well(x) /\ x.pc = "locked"
      BY <1>1, <2>1, Relabelled DEF Stations, Drains, Serving
    <3>3. ~ x.unix
      BY <3>2 DEF Well, Timely, Serving
    <3> HIDE DEF x
    <3>4. proc' = [q \in Procs |-> proc'[q]] /\ \A q \in Procs : proc'[q] = IF q = p THEN x ELSE proc[q]
      BY <3>1 DEF PsInv
    <3>5. \A q \in Procs : Well(proc'[q])
      BY <3>2, <3>4 DEF PsInv
    <3>6. ASSUME DataDir
          PROVE  /\ \A q \in Procs : Past(proc'[q]) => lock' = q
                 /\ socket' \in {Nobody, lock'}
                 /\ \A q \in Procs : Past(proc'[q]) /\ proc'[q].unix /\ ~ proc'[q].closed => socket' = q
      <4>1. \A q \in Procs : ~ Past(proc[q])
        BY <2>3, <3>6, LifecycleAssumption DEF PsInv
      <4>2. \A q \in Procs : Past(proc'[q]) => q = p
        BY <3>4, <4>1
      <4>3. lock' = p /\ socket' = Nobody
        BY <2>3, <3>1, <3>6 DEF PsInv
      <4> QED BY <3>3, <3>4, <4>2, <4>3
    <3> QED BY <2>1, <3>4, <3>5, <3>6 DEF PsInv
  <2> QED BY <1>11, <2>2, <2>3 DEF AcquireInstanceLock
<1> QED
  BY <1>3, <1>4, <1>5, <1>6, <1>7, <1>8, <1>9, <1>10, <1>11

\* A step of a process past the lock that makes the socket its own, or removes
\* it.
LEMMA SocketStep ==
    ASSUME PsInv, NEW p \in Procs, NEW x, To(p, x), Well(x), Past(proc[p]), UNCHANGED lock,
           harm' = harm \/ (~ DataDir /\ harm' \subseteq harm \cup {"stopped under a gateway", "took a socket"}),
           socket' = p \/ (socket' = Nobody /\ ~ (x.unix /\ ~ x.closed))
    PROVE  PsInv'
<1>1. proc' = [proc EXCEPT ![p] = x]
  BY DEF To
<1>2. proc' = [q \in Procs |-> proc'[q]] /\ \A q \in Procs : proc'[q] = IF q = p THEN x ELSE proc[q]
  BY <1>1 DEF PsInv
<1>3. \A q \in Procs : Well(proc'[q])
  BY <1>2 DEF PsInv
<1>4. ASSUME DataDir
      PROVE  /\ \A q \in Procs : Past(proc'[q]) => lock' = q
             /\ socket' \in {Nobody, lock'}
             /\ \A q \in Procs : Past(proc'[q]) /\ proc'[q].unix /\ ~ proc'[q].closed => socket' = q
  <2>1. lock' = p /\ \A q \in Procs : q # p => ~ Past(proc[q])
    BY <1>4 DEF PsInv
  <2>2. \A q \in Procs : Past(proc'[q]) => q = p
    BY <1>2, <2>1
  <2>3. x.unix /\ ~ x.closed => socket' = p
    OBVIOUS
  <2> QED BY <1>2, <2>1, <2>2, <2>3
<1> QED BY <1>2, <1>3, <1>4 DEF PsInv

\* server.Start and the requests.
LEMMA ServeSteps ==
    ASSUME PsInv, NEW p \in Procs,
           Start(p) \/ listenUnix(p) \/ ListenAndServe(p) \/ Begin(p) \/ End(p)
    PROVE  PsInv'
<1> DEFINE o == proc[p]
<1>1. Well(o) /\ o \in ProcessType
  BY DEF PsInv, Well
<1>2. ASSUME NEW s \in {"server", "listening", "ended"}, To(p, [o EXCEPT !.srv = s]), o.srv # "none",
             UNCHANGED <<lock, socket, harm>>
      PROVE  PsInv'
  <2> DEFINE x == [o EXCEPT !.srv = s]
  <2>1. x \in ProcessType
    BY <1>1 DEF ProcessType
  <2>2. /\ x.pc = o.pc /\ x.srv = s /\ x.sink = o.sink /\ x.toStop = o.toStop /\ x.workers = o.workers
        /\ x.reqs = o.reqs
    BY <1>1 DEF ProcessType
  <2>3. x.unix = o.unix /\ x.closed = o.closed /\ x.missed = o.missed /\ x.cut = o.cut
    BY <1>1 DEF ProcessType
  <2>4. To(p, x)
    BY <1>2
  <2> HIDE DEF x, o
  <2>5. Timely(x)
    BY <1>1, <1>2, <2>2, <2>3 DEF Well, Timely
  <2>6. TornDown(x)
    BY <1>1, <2>2 DEF Well, TornDown
  <2>7. Well(x) /\ (Past(x) => Past(o)) /\ (x.unix /\ ~ x.closed => o.unix /\ ~ o.closed)
    BY <2>1, <2>2, <2>3, <2>5, <2>6 DEF Well, Past
  <2> QED BY <1>2, <2>4, <2>7, QuietStep DEF o
<1>3. ASSUME NEW n \in Nat, To(p, [o EXCEPT !.reqs = n]), UNCHANGED <<lock, socket, harm>>,
             o.pc \in Drains => o.missed \/ (o.closed /\ (o.cut \/ n = 0))
      PROVE  PsInv'
  <2> DEFINE x == [o EXCEPT !.reqs = n]
  <2>1. x \in ProcessType
    BY <1>1 DEF ProcessType
  <2>2. /\ x.pc = o.pc /\ x.srv = o.srv /\ x.sink = o.sink /\ x.toStop = o.toStop /\ x.workers = o.workers
        /\ x.reqs = n
    BY <1>1 DEF ProcessType
  <2>3. x.unix = o.unix /\ x.closed = o.closed /\ x.missed = o.missed /\ x.cut = o.cut
    BY <1>1 DEF ProcessType
  <2>4. To(p, x)
    BY <1>3
  <2> HIDE DEF x, o
  <2>5. Timely(x)
    BY <1>1, <1>3, <2>2, <2>3 DEF Well, Timely
  <2>6. TornDown(x)
    BY <1>1, <2>2 DEF Well, TornDown
  <2>7. Well(x) /\ (Past(x) => Past(o)) /\ (x.unix /\ ~ x.closed => o.unix /\ ~ o.closed)
    BY <2>1, <2>2, <2>3, <2>5, <2>6 DEF Well, Past
  <2> QED BY <1>3, <2>4, <2>7, QuietStep DEF o
<1>4. CASE Start(p)
  BY <1>2, <1>4 DEF Start
<1>5. CASE ListenAndServe(p)
  BY <1>2, <1>5 DEF ListenAndServe
<1>6. CASE Begin(p)
  <2>1. o.reqs \in Nat /\ ~ o.closed /\ To(p, [o EXCEPT !.reqs = o.reqs + 1]) /\ UNCHANGED <<lock, socket, harm>>
    BY <1>1, <1>6 DEF Begin, Accepting, ProcessType
  <2>2. o.pc \in Drains => o.missed
    BY <1>1, <2>1 DEF Well, Timely
  <2>3. o.reqs + 1 \in Nat
    BY <2>1
  <2> QED BY <1>3, <2>1, <2>2, <2>3
<1>7. CASE End(p)
  <2>1. /\ o.reqs > 0 /\ To(p, [o EXCEPT !.reqs = o.reqs - 1]) /\ UNCHANGED <<lock, socket>>
        /\ harm' = harm \cup (IF o.sink = "closed" /\ ~ (o.cut \/ o.missed) THEN {"enqueued late"} ELSE {})
    BY <1>7 DEF End, Excused
  <2>2. PICK n \in Nat : n = o.reqs
    BY <1>1 DEF ProcessType
  <2>3. n > 0
    BY <2>1, <2>2
  <2>4. n # 0 /\ n - 1 \in Nat
    BY <2>3
  <2>5. To(p, [o EXCEPT !.reqs = n - 1])
    BY <2>1, <2>2
  <2>6. o.pc \in Drains => o.missed \/ (o.closed /\ o.cut)
    BY <1>1, <2>2, <2>4 DEF Well, Timely
  <2>7. o.sink = "closed" => o.pc \in Drains
    BY <1>1 DEF Well, TornDown, Drains
  <2>8. UNCHANGED harm
    BY <2>1, <2>6, <2>7
  <2> QED BY <1>3, <2>1, <2>4, <2>5, <2>6, <2>8
<1>8. CASE listenUnix(p)
  <2> DEFINE x == [o EXCEPT !.srv = "unix", !.unix = ~ o.closed]
  <2>1. /\ o.srv = "server" /\ To(p, x) /\ socket' = (IF o.closed THEN Nobody ELSE p) /\ UNCHANGED <<lock, harm>>
    BY <1>8 DEF listenUnix
  <2>2. x \in ProcessType
    BY <1>1 DEF ProcessType
  <2>3. /\ x.pc = o.pc /\ x.srv = "unix" /\ x.sink = o.sink /\ x.toStop = o.toStop /\ x.workers = o.workers
        /\ x.reqs = o.reqs
    BY <1>1 DEF ProcessType
  <2>4. x.closed = o.closed /\ x.missed = o.missed /\ x.cut = o.cut
    BY <1>1 DEF ProcessType
  <2> HIDE DEF x, o
  <2>5. o.pc \in Serving
    BY <1>1, <2>1 DEF Well, Timely
  <2>6. Timely(x)
    BY <1>1, <2>3, <2>4, <2>5 DEF Well, Timely
  <2>7. TornDown(x)
    BY <1>1, <2>3 DEF Well, TornDown
  <2>8. Well(x) /\ Past(o)
    BY <2>2, <2>5, <2>6, <2>7 DEF Well, Past, Serving
  <2>9. socket' = p \/ (socket' = Nobody /\ ~ (x.unix /\ ~ x.closed))
    BY <2>1, <2>4
  <2> QED BY <2>1, <2>8, <2>9, SocketStep DEF o
<1> QED BY <1>4, <1>5, <1>6, <1>7, <1>8

\* The order in which run stops its workers.
LEMMA StopOrderSound ==
    /\ StopOrder \in Seq(Stoppable) /\ Stoppable \subseteq ToSet(StopOrder)
    /\ \A i \in 1 .. Len(StopOrder) : StopOrder[i] = "sink" <=> i = Len(StopOrder)
<1>1. StopOrder \in Seq(Stoppable)
  BY DEF StopOrder, Stoppable
<1>2. Len(StopOrder) = 11
  BY DEF StopOrder
<1>3. \A i \in 1 .. 11 : StopOrder[i] = "sink" <=> i = 11
  BY DEF StopOrder
<1>4. ASSUME NEW w \in Stoppable PROVE \E i \in 1 .. 11 : StopOrder[i] = w
  BY <1>4 DEF StopOrder, Stoppable
<1> QED BY <1>1, <1>2, <1>3, <1>4, ElementsOf

\* Shutdown and the teardown after it.
LEMMA TeardownSteps ==
    ASSUME PsInv, NEW p \in Procs,
           \/ Shutdown(p) \/ shutdownDrainTimeout(p) \/ CloseServer(p) \/ autoStopLocal(p) \/ StopNext(p)
           \/ Return(p) \/ Killed(p)
    PROVE  PsInv'
<1> DEFINE o == proc[p]
<1>1. Well(o) /\ o \in ProcessType
  BY DEF PsInv, Well
<1>2. CASE Shutdown(p) /\ o.srv = "routes"
  <2> DEFINE x == [o EXCEPT !.pc = "drained", !.missed = TRUE]
  <2>1. o.pc = "draining" /\ To(p, x) /\ UNCHANGED <<lock, socket, harm>>
    BY <1>2 DEF Shutdown, At
  <2>2. x \in ProcessType
    BY <1>1 DEF ProcessType, Stations
  <2>3. x.pc = "drained" /\ x.srv = o.srv /\ x.sink = o.sink
    BY <1>1 DEF ProcessType
  <2>4. x.unix = o.unix /\ x.closed = o.closed /\ x.missed
    BY <1>1 DEF ProcessType
  <2> HIDE DEF x, o
  <2>5. Timely(x)
    BY <2>3, <2>4 DEF Timely, Serving
  <2>6. TornDown(x)
    BY <1>1, <2>1, <2>3 DEF Well, TornDown
  <2>7. Well(x) /\ Past(o) /\ (x.unix /\ ~ x.closed => o.unix /\ ~ o.closed)
    BY <2>1, <2>2, <2>4, <2>5, <2>6 DEF Well, Past
  <2> QED BY <2>1, <2>7, QuietStep DEF o
<1>3. CASE Shutdown(p) /\ o.srv # "routes"
  <2> DEFINE x == [o EXCEPT !.pc = "waiting", !.closed = TRUE]
  <2>1. /\ o.pc = "draining" /\ To(p, x) /\ UNCHANGED <<lock, harm>>
        /\ socket' = IF o.unix THEN Nobody ELSE socket
    BY <1>3 DEF Shutdown, At
  <2>2. x \in ProcessType
    BY <1>1 DEF ProcessType, Stations
  <2>3. x.pc = "waiting" /\ x.srv = o.srv /\ x.sink = o.sink
    BY <1>1 DEF ProcessType
  <2>4. x.unix = o.unix /\ x.closed
    BY <1>1 DEF ProcessType
  <2> HIDE DEF x, o
  <2>5. Timely(x)
    BY <2>3, <2>4 DEF Timely, Serving, Drains
  <2>6. TornDown(x)
    BY <1>1, <2>1, <2>3 DEF Well, TornDown
  <2>7. Well(x) /\ Past(o) /\ ~ (x.unix /\ ~ x.closed)
    BY <2>1, <2>2, <2>4, <2>5, <2>6 DEF Well, Past
  <2>8. CASE o.unix
    BY <2>1, <2>7, <2>8, SocketStep DEF o
  <2>9. CASE ~ o.unix
    BY <2>1, <2>7, <2>9, QuietStep DEF o
  <2> QED BY <2>8, <2>9
<1>4. CASE shutdownDrainTimeout(p)
  <2> DEFINE c == o.reqs > 0
             x == [o EXCEPT !.pc = "drained", !.cut = c]
  <2>1. o.pc = "waiting" /\ To(p, x) /\ UNCHANGED <<lock, socket, harm>>
    BY <1>4 DEF shutdownDrainTimeout, At
  <2>2. c \in BOOLEAN /\ (c \/ o.reqs = 0)
    BY <1>1 DEF ProcessType
  <2> HIDE DEF c
  <2>3. x \in ProcessType
    BY <1>1, <2>2 DEF ProcessType, Stations
  <2>4. x.pc = "drained" /\ x.srv = o.srv /\ x.sink = o.sink /\ x.reqs = o.reqs
    BY <1>1 DEF ProcessType
  <2>5. x.unix = o.unix /\ x.closed = o.closed /\ x.cut = c
    BY <1>1 DEF ProcessType
  <2> HIDE DEF x, o
  <2>6. o.closed
    BY <1>1, <2>1 DEF Well, Timely
  <2>7. Timely(x)
    BY <2>2, <2>4, <2>5, <2>6 DEF Timely, Serving
  <2>8. TornDown(x)
    BY <1>1, <2>1, <2>4 DEF Well, TornDown
  <2>9. Well(x) /\ Past(o) /\ (x.unix /\ ~ x.closed => o.unix /\ ~ o.closed)
    BY <2>1, <2>3, <2>5, <2>7, <2>8 DEF Well, Past
  <2> QED BY <2>1, <2>9, QuietStep DEF o
<1>5. CASE CloseServer(p)
  <2> DEFINE x == [o EXCEPT !.pc = "stopping", !.unix = FALSE, !.workers = @ \ {"reapers"}]
  <2>1. /\ o.pc = "drained" /\ To(p, x) /\ UNCHANGED lock
        /\ socket' = (IF o.unix THEN Nobody ELSE socket)
        /\ harm' = harm \cup (IF o.unix /\ socket \notin {p, Nobody} THEN {"took a socket"} ELSE {})
    BY <1>5 DEF CloseServer, At
  <2>2. x \in ProcessType
    BY <1>1 DEF ProcessType, Stations
  <2>3. /\ x.pc = "stopping" /\ x.srv = o.srv /\ x.sink = o.sink /\ x.reqs = o.reqs
        /\ x.workers = o.workers \ {"reapers"}
    BY <1>1 DEF ProcessType
  <2>4. x.unix = FALSE /\ x.closed = o.closed /\ x.cut = o.cut /\ x.missed = o.missed
    BY <1>1 DEF ProcessType
  <2>5. Past(o)
    BY <2>1 DEF Past
  <2>6. DataDir => socket \in {p, Nobody}
    BY <2>5 DEF PsInv
  <2> HIDE DEF x, o
  <2>7. Timely(x)
    BY <1>1, <2>1, <2>3, <2>4 DEF Well, Timely, Serving, Drains
  <2>8. TornDown(x)
    BY <1>1, <2>1, <2>3 DEF Well, TornDown
  <2>9. Well(x)
    BY <2>2, <2>7, <2>8 DEF Well
  <2>10. harm' = harm \/ (~ DataDir /\ harm' \subseteq harm \cup {"stopped under a gateway", "took a socket"})
    BY <2>1, <2>6
  <2>11. CASE o.unix
    BY <2>1, <2>4, <2>5, <2>9, <2>10, <2>11, SocketStep DEF o
  <2>12. CASE ~ o.unix
    BY <2>1, <2>4, <2>5, <2>9, <2>10, <2>12, QuietStep DEF o
  <2> QED BY <2>11, <2>12
<1>6. CASE autoStopLocal(p)
  <2> DEFINE x == [o EXCEPT !.pc = "stopped", !.toStop = StopOrder]
             g == \E q \in Others(p) : ~ At(q, "loaded")
             h == o.reqs > 0 /\ ~ (o.cut \/ o.missed)
  <2>1. /\ o.pc = "stopping" /\ To(p, x) /\ UNCHANGED <<lock, socket>>
        /\ \/ UNCHANGED harm
           \/ harm' = harm \cup (IF h THEN {"stopped under a request"} ELSE {})
                           \cup (IF g THEN {"stopped under a gateway"} ELSE {})
    BY <1>6 DEF autoStopLocal, At, Excused
  <2>2. x \in ProcessType
    BY <1>1, StopOrderSound DEF ProcessType, Stations
  <2>3. /\ x.pc = "stopped" /\ x.srv = o.srv /\ x.sink = o.sink /\ x.reqs = o.reqs /\ x.workers = o.workers
        /\ x.toStop = StopOrder
    BY <1>1 DEF ProcessType
  <2>4. x.unix = o.unix /\ x.closed = o.closed /\ x.cut = o.cut /\ x.missed = o.missed
    BY <1>1 DEF ProcessType
  <2>5. Past(o)
    BY <2>1 DEF Past
  <2>6. DataDir => ~ g
    BY <2>5 DEF PsInv, Others, Alive, At, Past
  <2>7. ~ h
    <3>1. o.missed \/ o.cut \/ o.reqs = 0
      BY <1>1, <2>1 DEF Well, Timely, Drains
    <3>2. o.reqs = 0 => ~ (o.reqs > 0)
      OBVIOUS
    <3> QED BY <3>1, <3>2
  <2> HIDE DEF g, h
  <2>8. harm' = harm \/ (~ DataDir /\ harm' \subseteq harm \cup {"stopped under a gateway", "took a socket"})
    BY <2>1, <2>6, <2>7
  <2>9. o.workers \subseteq Stoppable
    BY <1>1, <2>1 DEF Well, TornDown, ProcessType, AllWorkers
  <2> HIDE DEF x, o
  <2>10. Timely(x)
    BY <1>1, <2>1, <2>3, <2>4 DEF Well, Timely, Serving, Drains
  <2>11. TornDown(x)
    BY <1>1, <2>1, <2>3, <2>9, StopOrderSound DEF Well, TornDown
  <2>12. Well(x) /\ (x.unix /\ ~ x.closed => o.unix /\ ~ o.closed)
    BY <2>2, <2>4, <2>10, <2>11 DEF Well
  <2> QED BY <2>1, <2>5, <2>8, <2>12, QuietStep DEF o
<1>7. CASE StopNext(p)
  <2> DEFINE t == o.toStop
             w == Head(t)
             s == IF w = "sink" /\ o.sink = "open" THEN "closed" ELSE o.sink
             x == [o EXCEPT !.toStop = Tail(t), !.workers = @ \ {w}, !.sink = s]
  <2>1. o.pc = "stopped" /\ t # <<>> /\ To(p, x) /\ UNCHANGED <<lock, socket, harm>>
    BY <1>7 DEF StopNext, At
  <2>2. t \in Seq(Stoppable)
    BY <1>1 DEF ProcessType
  <2>3. /\ Tail(t) \in Seq(Stoppable) /\ Len(Tail(t)) = Len(t) - 1 /\ ToSet(t) = ToSet(Tail(t)) \cup {w}
        /\ Len(t) \in Nat \ {0}
    BY <2>1, <2>2, TailElements, EmptySeq
  <2>4. w = t[1] /\ \A i \in 1 .. (Len(t) - 1) : Tail(t)[i] = t[i + 1]
    BY <2>1, <2>2, HeadTailProperties
  <2>5. o.workers \subseteq ToSet(t) /\ \A i \in 1 .. Len(t) : t[i] = "sink" <=> i = Len(t)
    BY <1>1, <2>1 DEF Well, TornDown
  <2>6. s \in {"off", "open", "closed"} /\ (s = "closed" => w = "sink" \/ o.sink = "closed")
    BY <1>1 DEF ProcessType
  <2>7. o.sink # "closed"
    BY <1>1, <2>1 DEF Well, TornDown
  <2>8. w = "sink" => Tail(t) = <<>>
    <3>1. ASSUME w = "sink" PROVE Len(Tail(t)) = 0
      <4>1. 1 \in 1 .. Len(t)
        BY <2>3
      <4>2. Len(t) = 1
        BY <2>4, <2>5, <3>1, <4>1
      <4> QED BY <2>3, <4>2
    <3> QED BY <2>3, <3>1, EmptySeq
  <2>9. \A i \in 1 .. Len(Tail(t)) : Tail(t)[i] = "sink" <=> i = Len(Tail(t))
    <3> SUFFICES ASSUME NEW i \in 1 .. Len(Tail(t)) PROVE Tail(t)[i] = "sink" <=> i = Len(Tail(t))
      OBVIOUS
    <3>1. i \in 1 .. (Len(t) - 1) /\ i + 1 \in 1 .. Len(t) /\ (i + 1 = Len(t) <=> i = Len(t) - 1)
      BY <2>3
    <3>2. Tail(t)[i] = t[i + 1]
      BY <2>4, <3>1
    <3> QED BY <2>3, <2>5, <3>1, <3>2
  <2> HIDE DEF s
  <2>10. x \in ProcessType
    BY <1>1, <2>3, <2>6 DEF ProcessType
  <2>11. /\ x.pc = o.pc /\ x.srv = o.srv /\ x.sink = s /\ x.reqs = o.reqs /\ x.workers = o.workers \ {w}
         /\ x.toStop = Tail(t)
    BY <1>1 DEF ProcessType
  <2>12. x.unix = o.unix /\ x.closed = o.closed /\ x.cut = o.cut /\ x.missed = o.missed
    BY <1>1 DEF ProcessType
  <2> HIDE DEF x, o, t, w
  <2>13. Timely(x)
    BY <1>1, <2>11, <2>12 DEF Well, Timely
  <2>14. x.workers \subseteq ToSet(x.toStop)
    BY <2>3, <2>5, <2>11
  <2>15. "reapers" \notin x.workers
    BY <1>1, <2>1, <2>11 DEF Well, TornDown
  <2>16. TornDown(x)
    BY <2>1, <2>6, <2>7, <2>8, <2>9, <2>11, <2>14, <2>15 DEF TornDown
  <2>17. Well(x) /\ Past(o) /\ (x.unix /\ ~ x.closed => o.unix /\ ~ o.closed)
    BY <2>1, <2>10, <2>12, <2>13, <2>16 DEF Well, Past
  <2> QED BY <2>1, <2>17, QuietStep DEF o
<1>8. CASE Return(p) \/ Killed(p)
  BY <1>8, ExitStep DEF Return, Killed
<1> QED BY <1>2, <1>3, <1>4, <1>5, <1>6, <1>7, <1>8

\* Every step of a process, of the backend or of the supervisor.
LEMMA PsInvStep == PsInv /\ [ProcessNext]_processVars => PsInv'
<1> SUFFICES ASSUME PsInv, [ProcessNext]_processVars PROVE PsInv'
  OBVIOUS
<1>1. CASE UNCHANGED processVars \/ EngineComesUp \/ SupervisorFlips
  <2>1. UNCHANGED <<proc, lock, socket, harm>>
    BY <1>1 DEF processVars, EngineComesUp, SupervisorFlips
  <2> QED BY <2>1 DEF PsInv
<1> QED BY <1>1, StartSteps, ServeSteps, TeardownSteps DEF ProcessNext

\* Before any process is started.
LEMMA PsInvInit == ProcessInit => PsInv
<1> SUFFICES ASSUME ProcessInit PROVE PsInv
  OBVIOUS
<1>1. Well(NewProcess) /\ ~ Past(NewProcess)
  BY GoneWell
<1>2. proc = [p \in Procs |-> NewProcess] /\ lock = Nobody /\ socket = Nobody /\ harm = {}
  BY DEF ProcessInit
<1> QED BY <1>1, <1>2 DEF PsInv

\* What the processes promise.
LEMMA PsInvSound == PsInv => AloneOnDataDir /\ DrainBeforeTeardown /\ TeardownInOrder
<1> SUFFICES ASSUME PsInv PROVE AloneOnDataDir /\ DrainBeforeTeardown /\ TeardownInOrder
  OBVIOUS
<1>1. \A p \in Procs : Alive(p) /\ ~ At(p, "loaded") <=> Past(proc[p])
  BY DEF Alive, At, Past
<1>2. \A p \in Procs : proc[p].unix => Past(proc[p])
  BY DEF PsInv, Well, Timely, Serving, Past
<1>3. AloneOnDataDir
  BY <1>1, <1>2 DEF AloneOnDataDir, PsInv
<1>4. DrainBeforeTeardown
  BY DEF DrainBeforeTeardown, PsInv
<1>5. ASSUME NEW p \in Procs, At(p, "stopped"), proc[p].toStop = <<>> PROVE proc[p].workers = {}
  <2>1. proc[p].workers \subseteq ToSet(proc[p].toStop)
    BY <1>5 DEF PsInv, Well, TornDown, At
  <2>2. ToSet(proc[p].toStop) = {}
    BY <1>5, EmptySequence
  <2> QED BY <2>1, <2>2
<1>6. ASSUME NEW p \in Procs, proc[p].sink = "closed" PROVE proc[p].workers \cap InsightsWorkers = {}
  <2>1. At(p, "stopped") /\ proc[p].toStop = <<>>
    BY <1>6 DEF PsInv, Well, TornDown, At
  <2> QED BY <1>5, <2>1
<1> QED BY <1>3, <1>4, <1>5, <1>6 DEF TeardownInOrder

-----------------------------------------------------------------------------
(* Reloads. *)

HandlerParts == {"router", "intent", "heuristic", "providers", "index", "discovery", "cache", "snapshot", "guardrails",
                 "strategy", "window", "chain", "allowlist", "settings", "identity", "pricing", "manifests"}

\* The parts that OnReload's handler converges are seventeen different ones,
\* the providers the fourth and the adapter index the fifth.
LEMMA HandlerSteps ==
    /\ DOMAIN HandlerOrder = 1 .. 17 /\ Len(HandlerOrder) = 17
    /\ \A i, j \in 1 .. 17 : HandlerOrder[i] = HandlerOrder[j] => i = j
    /\ HandlerOrder[4] = "providers" /\ HandlerOrder[5] = "index"
<1> DEFINE a == <<"router", "intent", "heuristic", "providers", "index", "discovery", "cache">>
<1> DEFINE b == RebuildMiddlewareChain
<1> DEFINE c == <<"pricing", "manifests">>
<1> DEFINE h == a \o b
<1>1. a \in Seq(HandlerParts) /\ Len(a) = 7
  BY DEF HandlerParts
<1>2. b \in Seq(HandlerParts) /\ Len(b) = 8
  BY DEF RebuildMiddlewareChain, HandlerParts
<1>3. c \in Seq(HandlerParts) /\ Len(c) = 2
  BY DEF HandlerParts
<1>4. HandlerOrder = h \o c
  BY DEF HandlerOrder
<1>a. a[1] = "router" /\ a[2] = "intent" /\ a[3] = "heuristic" /\ a[4] = "providers"
      /\ a[5] = "index" /\ a[6] = "discovery" /\ a[7] = "cache"
  OBVIOUS
<1>b. b[1] = "snapshot" /\ b[2] = "guardrails" /\ b[3] = "strategy" /\ b[4] = "window"
      /\ b[5] = "chain" /\ b[6] = "allowlist" /\ b[7] = "settings" /\ b[8] = "identity"
  BY DEF RebuildMiddlewareChain
<1>c. c[1] = "pricing" /\ c[2] = "manifests"
  OBVIOUS
<1> HIDE DEF a, b, c
<1>5. h \in Seq(HandlerParts) /\ Len(h) = 15 /\ (\A i \in 1 .. 7 : h[i] = a[i]) /\ \A i \in 8 .. 15 : h[i] = b[i - 7]
  <2>1. /\ h \in Seq(HandlerParts) /\ Len(h) = Len(a) + Len(b)
        /\ \A i \in 1 .. Len(a) + Len(b) : h[i] = IF i <= Len(a) THEN a[i] ELSE b[i - Len(a)]
    BY <1>1, <1>2, ConcatProperties
  <2> HIDE DEF h
  <2> QED BY <1>1, <1>2, <2>1
<1> HIDE DEF h
<1>6. h[1] = "router" /\ h[2] = "intent" /\ h[3] = "heuristic" /\ h[4] = "providers"
      /\ h[5] = "index" /\ h[6] = "discovery" /\ h[7] = "cache"
  BY <1>a, <1>5
<1>7. h[8] = "snapshot" /\ h[9] = "guardrails" /\ h[10] = "strategy" /\ h[11] = "window"
      /\ h[12] = "chain" /\ h[13] = "allowlist" /\ h[14] = "settings" /\ h[15] = "identity"
  BY <1>b, <1>5
<1>8. HandlerOrder \in Seq(HandlerParts) /\ Len(HandlerOrder) = 17 /\ (\A i \in 1 .. 15 : HandlerOrder[i] = h[i])
      /\ HandlerOrder[16] = c[1] /\ HandlerOrder[17] = c[2]
  <2> DEFINE k == h \o c
  <2>1. /\ k \in Seq(HandlerParts) /\ Len(k) = Len(h) + Len(c)
        /\ \A i \in 1 .. Len(h) + Len(c) : k[i] = IF i <= Len(h) THEN h[i] ELSE c[i - Len(h)]
    BY <1>3, <1>5, ConcatProperties
  <2>2. HandlerOrder = k
    BY <1>4
  <2> HIDE DEF k
  <2>3. Len(k) = 17 /\ \A i \in 1 .. 17 : k[i] = IF i <= 15 THEN h[i] ELSE c[i - 15]
    BY <1>3, <1>5, <2>1
  <2>4. k[16] = c[1] /\ k[17] = c[2] /\ \A i \in 1 .. 15 : k[i] = h[i]
    <3>1. 16 - 15 = 1 /\ 17 - 15 = 2 /\ 16 \in 1 .. 17 /\ 17 \in 1 .. 17 /\ ~(16 <= 15) /\ ~(17 <= 15)
      OBVIOUS
    <3>2. \A i \in 1 .. 15 : i \in 1 .. 17 /\ i <= 15
      OBVIOUS
    <3>3. k[16] = c[16 - 15] /\ k[17] = c[17 - 15]
      BY <2>3, <3>1
    <3>4. \A i \in 1 .. 15 : k[i] = h[i]
      BY <2>3, <3>2
    <3> QED BY <3>1, <3>3, <3>4
  <2> QED BY <2>1, <2>2, <2>3, <2>4, Zenon
<1> DEFINE Name(i) == HandlerOrder[i]
<1>9. Name(1) = "router" /\ Name(2) = "intent" /\ Name(3) = "heuristic" /\ Name(4) = "providers"
      /\ Name(5) = "index" /\ Name(6) = "discovery" /\ Name(7) = "cache"
      /\ Name(8) = "snapshot" /\ Name(9) = "guardrails" /\ Name(10) = "strategy" /\ Name(11) = "window"
      /\ Name(12) = "chain" /\ Name(13) = "allowlist" /\ Name(14) = "settings" /\ Name(15) = "identity"
      /\ Name(16) = "pricing" /\ Name(17) = "manifests"
  BY <1>c, <1>6, <1>7, <1>8
<1>10. \A i \in 1 .. 17 : i \in {1, 2, 3, 4, 5, 6, 7, 8, 9, 10, 11, 12, 13, 14, 15, 16, 17}
  OBVIOUS
<1>11. \A i, j \in 1 .. 17 : Name(i) = Name(j) => i = j
  <2> HIDE DEF Name
  <2> QED BY <1>9, <1>10
<1> QED BY <1>8, <1>9, <1>11

\* What a reload that has come to r.at leaves behind it and has before it.
Halfway(r) ==
    \A i \in 1 .. 17 : i \notin {4, 5} => parts[HandlerOrder[i]] = IF i < r.at THEN r.ver ELSE committed
Indexed(v) == lookup = fusionMLXBackendCfg(v) /\ index = fusionMLXBackendCfg(v)

\* The typed records of the reloads; a version that is in use was parsed.
ReloadType ==
    /\ reloads \in [Reloaders -> [pc : {"idle", "parsed", "applying"}, ver : Nat, at : 0 .. 18]]
    /\ committed \in Nat /\ parsed \in Nat /\ committed <= parsed
    /\ \A c \in Reloaders : reloads[c].ver <= parsed
    /\ parts = [x \in ReloadParts |-> parts[x]]

\* One reload at a time holds the mutex; the parts before its place have its
\* version, the others the committed one.
RlInv ==
    /\ ReloadType
    /\ \A c, d \in Reloaders : reloads[c].pc = "applying" /\ reloads[d].pc = "applying" => c = d
    /\ \A c \in Reloaders : reloads[c].pc = "applying" =>
         reloads[c].at > 0 /\ Halfway(reloads[c]) /\ Indexed(IF reloads[c].at > 5 THEN reloads[c].ver ELSE committed)
    /\ MutexFree => (\A i \in 1 .. 17 : i \notin {4, 5} => parts[HandlerOrder[i]] = committed) /\ Indexed(committed)

\* The worker of the adapter index.
WkInv ==
    /\ worker \in [pc : {"none", "running", "backoff", "ended", "disabled"}, panics : Nat, cancelled : BOOLEAN, joined : BOOLEAN]
    /\ WorkerJoined

\* The worker's own steps, and the ones that leave it alone.
LEMMA WkInvStep == WkInv /\ [ReloadNext]_reloadVars => WkInv'
<1> SUFFICES ASSUME WkInv, [ReloadNext]_reloadVars PROVE WkInv'
  OBVIOUS
<1>1. CASE UNCHANGED worker
  BY <1>1 DEF WkInv, WorkerJoined
<1>2. CASE refreshIndex
  <2>1. PICK before \in {0, worker.panics} :
          worker' = [worker EXCEPT !.panics = before + 1, !.pc = IF before + 1 > MaxPanics THEN "disabled" ELSE "backoff"]
    BY <1>2 DEF refreshIndex
  <2>2. worker.pc = "running" /\ before \in Nat
    BY <1>2, <2>1 DEF refreshIndex, WkInv
  <2>3. ~ worker.joined
    BY <2>2 DEF WkInv, WorkerJoined
  <2>4. worker' \in [pc : {"none", "running", "backoff", "ended", "disabled"}, panics : Nat, cancelled : BOOLEAN, joined : BOOLEAN]
    <3> DEFINE n == before + 1
    <3> DEFINE k == IF n > MaxPanics THEN "disabled" ELSE "backoff"
    <3>1. n \in Nat /\ k \in {"disabled", "backoff"} /\ worker' = [worker EXCEPT !.panics = n, !.pc = k]
      BY <2>1, <2>2
    <3> HIDE DEF n, k
    <3> QED BY <3>1 DEF WkInv
  <2>5. worker'.panics = before + 1 /\ worker'.pc = IF before + 1 > MaxPanics THEN "disabled" ELSE "backoff"
    BY <2>1 DEF WkInv
  <2>6. worker'.joined = worker.joined
    BY <2>1 DEF WkInv
  <2>7. worker'.pc = "disabled" => worker'.panics > MaxPanics
    <3> DEFINE n == before + 1
    <3>1. worker'.panics = n /\ worker'.pc = IF n > MaxPanics THEN "disabled" ELSE "backoff"
      BY <2>5
    <3> HIDE DEF n
    <3> QED BY <3>1
  <2>8. worker'.pc # "ended"
    BY <2>5
  <2> QED BY <2>3, <2>4, <2>6, <2>7, <2>8 DEF WkInv, WorkerJoined
<1>3. CASE WorkerRestarts \/ WorkerEnds \/ Stop \/ StopReturns
  BY <1>3 DEF WkInv, WorkerJoined, WorkerRestarts, WorkerEnds, Stop, StopReturns
<1> QED BY <1>1, <1>2, <1>3 DEF ReloadNext, reloadVars, Parse, TakeMutex, ApplyPart, CommitSnapshot

\* The steps of the worker change none of the parts.
LEMMA RlInvUnchanged == RlInv /\ UNCHANGED <<parts, reloads, committed, parsed, withMLX, index, lookup>> => RlInv'
BY DEF RlInv, ReloadType, Halfway, Indexed, MutexFree, fusionMLXBackendCfg

\* A parsed version is a new one: no version in use changes its backends.
LEMMA ParseStep == ASSUME RlInv, NEW c \in Reloaders, Parse(c) PROVE RlInv'
<1>1. /\ reloads[c].pc = "idle" /\ parsed' = parsed + 1
      /\ reloads' = [reloads EXCEPT ![c] = [pc |-> "parsed", ver |-> parsed + 1, at |-> 0]]
      /\ withMLX' \in {withMLX, withMLX \cup {parsed + 1}}
      /\ UNCHANGED <<parts, committed, index, lookup>>
  BY DEF Parse, Set
<1>2. \A v \in Nat : v <= parsed => (fusionMLXBackendCfg(v)' <=> fusionMLXBackendCfg(v))
  BY <1>1 DEF fusionMLXBackendCfg, RlInv, ReloadType
<1>3. reloads'[c].pc = "parsed" /\ \A d \in Reloaders : reloads'[d].pc = "applying" => reloads'[d] = reloads[d] /\ d # c
  BY <1>1 DEF RlInv, ReloadType
<1>4. ReloadType'
  <2>1. reloads' \in [Reloaders -> [pc : {"idle", "parsed", "applying"}, ver : Nat, at : 0 .. 18]]
    BY <1>1 DEF RlInv, ReloadType
  <2>2. \A d \in Reloaders : reloads'[d].ver <= parsed'
    BY <1>1 DEF RlInv, ReloadType
  <2> QED BY <1>1, <2>1, <2>2 DEF RlInv, ReloadType
<1>5. MutexFree' <=> MutexFree
  BY <1>1, <1>3 DEF MutexFree, RlInv, ReloadType
<1>6. \A v \in Nat : v <= parsed /\ Indexed(v) => Indexed(v)'
  BY <1>1, <1>2 DEF Indexed, fusionMLXBackendCfg
<1>7. MutexFree' => (\A i \in 1 .. 17 : i \notin {4, 5} => parts'[HandlerOrder[i]] = committed') /\ Indexed(committed)'
  BY <1>1, <1>5, <1>6 DEF RlInv, ReloadType, Indexed
<1>8. ASSUME NEW d \in Reloaders, reloads'[d].pc = "applying"
      PROVE  reloads'[d].at > 0 /\ Halfway(reloads[d])' /\ Indexed(IF reloads[d].at > 5 THEN reloads[d].ver ELSE committed)'
  <2>1. reloads'[d] = reloads[d] /\ reloads[d].pc = "applying"
    BY <1>3, <1>8
  <2>2. reloads[d].at > 0 /\ Halfway(reloads[d]) /\ Indexed(IF reloads[d].at > 5 THEN reloads[d].ver ELSE committed)
    BY <2>1 DEF RlInv
  <2>3. Halfway(reloads[d])'
    BY <1>1, <2>1, <2>2 DEF Halfway
  <2>4. reloads[d].ver \in Nat /\ reloads[d].ver <= parsed /\ committed \in Nat /\ committed <= parsed
    BY DEF RlInv, ReloadType
  <2>5. Indexed(IF reloads[d].at > 5 THEN reloads[d].ver ELSE committed)'
    BY <1>1, <1>2, <2>1, <2>2, <2>4 DEF Indexed, fusionMLXBackendCfg
  <2> QED BY <2>1, <2>2, <2>3, <2>5
<1>9. \A x, d \in Reloaders : reloads'[x].pc = "applying" /\ reloads'[d].pc = "applying" => x = d
  BY <1>3 DEF RlInv
<1> QED BY <1>4, <1>7, <1>8, <1>9 DEF RlInv

\* The mutex is taken by a reload when none holds it.
LEMMA TakeMutexStep == ASSUME RlInv, NEW c \in Reloaders, TakeMutex(c) PROVE RlInv'
<1>1. /\ reloads[c].pc = "parsed" /\ MutexFree
      /\ reloads' = [reloads EXCEPT ![c] = [reloads[c] EXCEPT !.pc = "applying", !.at = 1]]
      /\ UNCHANGED <<parts, committed, parsed, withMLX, index, lookup>>
  BY DEF TakeMutex, Set
<1>2. reloads'[c].pc = "applying" /\ reloads'[c].at = 1 /\ reloads'[c].ver = reloads[c].ver
  BY <1>1 DEF RlInv, ReloadType
<1>3. \A d \in Reloaders : reloads'[d].pc = "applying" => d = c
  BY <1>1 DEF RlInv, ReloadType, MutexFree
<1>4. ReloadType'
  <2>1. reloads' \in [Reloaders -> [pc : {"idle", "parsed", "applying"}, ver : Nat, at : 0 .. 18]]
    <3>1. 1 \in 0 .. 18
      OBVIOUS
    <3>2. reloads \in [Reloaders -> [pc : {"idle", "parsed", "applying"}, ver : Nat, at : 0 .. 18]]
      BY DEF RlInv, ReloadType
    <3>3. [reloads[c] EXCEPT !.pc = "applying", !.at = 1] \in [pc : {"idle", "parsed", "applying"}, ver : Nat, at : 0 .. 18]
      BY <3>1, <3>2
    <3> QED BY <1>1, <3>2, <3>3
  <2>2. \A d \in Reloaders : reloads'[d].ver <= parsed'
    BY <1>1 DEF RlInv, ReloadType
  <2> QED BY <1>1, <2>1, <2>2 DEF RlInv, ReloadType
<1>5. (\A i \in 1 .. 17 : i \notin {4, 5} => parts'[HandlerOrder[i]] = committed') /\ Indexed(committed)'
  BY <1>1 DEF RlInv, Indexed, fusionMLXBackendCfg
<1>6. \A i \in 1 .. 17 : ~ (i < 1)
  OBVIOUS
<1>7. Halfway(reloads[c])'
  BY <1>2, <1>5, <1>6 DEF Halfway
<1>8. Indexed(IF reloads[c].at > 5 THEN reloads[c].ver ELSE committed)'
  BY <1>2, <1>5 DEF Indexed
<1>9. ~ MutexFree'
  BY <1>2 DEF MutexFree
<1> QED BY <1>2, <1>3, <1>4, <1>7, <1>8, <1>9 DEF RlInv

\* One part after the other takes the version of the reload.
LEMMA ApplyPartStep == ASSUME RlInv, NEW c \in Reloaders, ApplyPart(c) PROVE RlInv'
<1> DEFINE r == reloads[c]
<1> DEFINE x == HandlerOrder[r.at]
<1>1. r.pc = "applying" /\ r.at <= 17
  BY HandlerSteps DEF ApplyPart
<1>2. r \in [pc : {"idle", "parsed", "applying"}, ver : Nat, at : 0 .. 18] /\ r.at \in 1 .. 17
  BY <1>1 DEF RlInv, ReloadType
<1>3. reloads' = [reloads EXCEPT ![c] = [r EXCEPT !.at = r.at + 1]] /\ UNCHANGED <<committed, parsed, withMLX>>
  BY DEF ApplyPart, Set
<1>4. reloads'[c].pc = "applying" /\ reloads'[c].at = r.at + 1 /\ reloads'[c].ver = r.ver
  BY <1>1, <1>2, <1>3 DEF RlInv, ReloadType
<1>5. \A d \in Reloaders : d # c => reloads'[d] = reloads[d] /\ reloads[d].pc # "applying"
  BY <1>1, <1>3 DEF RlInv, ReloadType
<1>6. x = "index" <=> r.at = 5
  BY <1>2, HandlerSteps
<1>7. x = "providers" <=> r.at = 4
  BY <1>2, HandlerSteps
<1>8. IF r.at = 5 THEN ApplyIndex(r.ver)
      ELSE (parts' = [parts EXCEPT ![x] = r.ver] \/ (r.at = 4 /\ UNCHANGED parts)) /\ UNCHANGED <<index, lookup>>
  BY <1>6, <1>7 DEF ApplyPart
<1>9. Halfway(r) /\ Indexed(IF r.at > 5 THEN r.ver ELSE committed)
  BY <1>1 DEF RlInv
<1>10. parts = [y \in ReloadParts |-> parts[y]]
  BY DEF RlInv, ReloadType
<1>11. \A i \in 1 .. 17 : i # 5 => HandlerOrder[i] \in ReloadParts
  BY HandlerSteps DEF ReloadParts
<1>12. parts' = [y \in ReloadParts |-> parts'[y]]
  BY <1>8, <1>10 DEF ApplyIndex
<1> DEFINE n == r.at + 1
<1>13. n \in 0 .. 18 /\ n > 0
  BY <1>2
<1>14. ReloadType'
  <2>1. [r EXCEPT !.at = n] \in [pc : {"idle", "parsed", "applying"}, ver : Nat, at : 0 .. 18]
    BY <1>2, <1>13
  <2>2. reloads' \in [Reloaders -> [pc : {"idle", "parsed", "applying"}, ver : Nat, at : 0 .. 18]]
    BY <1>3, <2>1 DEF RlInv, ReloadType
  <2>3. \A d \in Reloaders : reloads'[d].ver <= parsed'
    BY <1>3, <1>4, <1>5 DEF RlInv, ReloadType
  <2> QED BY <1>3, <1>12, <2>2, <2>3 DEF RlInv, ReloadType
<1>15. \A i \in 1 .. 17 : i \notin {4, 5} => parts'[HandlerOrder[i]] = IF i < n THEN r.ver ELSE committed
  <2> SUFFICES ASSUME NEW i \in 1 .. 17, i \notin {4, 5}
               PROVE  parts'[HandlerOrder[i]] = IF i < n THEN r.ver ELSE committed
    OBVIOUS
  <2>1. HandlerOrder[i] \in ReloadParts /\ parts[HandlerOrder[i]] = IF i < r.at THEN r.ver ELSE committed
    BY <1>9, <1>11 DEF Halfway
  <2>2. CASE i = r.at
    <3>1. parts' = [parts EXCEPT ![x] = r.ver]
      BY <1>8, <2>2
    <3>2. parts'[x] = r.ver
      BY <1>10, <2>1, <2>2, <3>1
    <3> QED BY <1>2, <2>2, <3>2
  <2>3. CASE i # r.at
    <3>1. HandlerOrder[i] # x
      BY <1>2, <2>3, HandlerSteps
    <3>2. parts'[HandlerOrder[i]] = parts[HandlerOrder[i]]
      BY <1>8, <1>10, <2>1, <3>1 DEF ApplyIndex
    <3>3. i < n <=> i < r.at
      BY <1>2, <2>3
    <3> QED BY <2>1, <3>2, <3>3
  <2> QED BY <2>2, <2>3
<1>16. Halfway(reloads[c])'
  BY <1>3, <1>4, <1>15 DEF Halfway
<1>17. Indexed(IF reloads[c].at > 5 THEN reloads[c].ver ELSE committed)'
  <2>1. CASE r.at = 5
    <3>1. Indexed(r.ver)'
      BY <1>3, <1>8, <2>1 DEF ApplyIndex, Indexed, fusionMLXBackendCfg
    <3>2. reloads'[c].at > 5
      BY <1>4, <2>1
    <3> QED BY <1>4, <3>1, <3>2 DEF Indexed, fusionMLXBackendCfg
  <2>2. CASE r.at # 5
    <3>1. reloads'[c].at > 5 <=> r.at > 5
      BY <1>2, <1>4, <2>2
    <3> QED BY <1>3, <1>4, <1>8, <1>9, <2>2, <3>1 DEF Indexed, fusionMLXBackendCfg
  <2> QED BY <2>1, <2>2
<1>18. ~ MutexFree'
  BY <1>4 DEF MutexFree
<1>19. reloads'[c].at > 0
  BY <1>4, <1>13
<1> QED BY <1>4, <1>5, <1>14, <1>16, <1>17, <1>18, <1>19 DEF RlInv

\* The commit of a reload whose handler is done.
LEMMA CommitSnapshotStep == ASSUME RlInv, NEW c \in Reloaders, CommitSnapshot(c) PROVE RlInv'
<1> DEFINE r == reloads[c]
<1>1. r.pc = "applying" /\ r.at > 17 /\ committed' = r.ver /\ reloads' = [reloads EXCEPT ![c] = Ready]
      /\ UNCHANGED <<parts, parsed, withMLX, index, lookup>>
  BY HandlerSteps DEF CommitSnapshot, Set
<1>2. r \in [pc : {"idle", "parsed", "applying"}, ver : Nat, at : 0 .. 18] /\ r.ver <= parsed
  BY DEF RlInv, ReloadType
<1>3. Halfway(r) /\ Indexed(IF r.at > 5 THEN r.ver ELSE committed)
  BY <1>1 DEF RlInv
<1>4. r.at > 5 /\ \A i \in 1 .. 17 : i < r.at
  BY <1>1, <1>2
<1>5. (\A i \in 1 .. 17 : i \notin {4, 5} => parts'[HandlerOrder[i]] = committed')
  BY <1>1, <1>3, <1>4 DEF Halfway
<1>6. Indexed(committed)'
  BY <1>1, <1>3, <1>4 DEF Indexed, fusionMLXBackendCfg
<1>7. \A d \in Reloaders : reloads'[d].pc # "applying"
  BY <1>1 DEF RlInv, ReloadType, Ready
<1>8. ReloadType'
  <2>1. Ready \in [pc : {"idle", "parsed", "applying"}, ver : Nat, at : 0 .. 18] /\ Ready.ver = 0
    BY DEF Ready
  <2>2. reloads' \in [Reloaders -> [pc : {"idle", "parsed", "applying"}, ver : Nat, at : 0 .. 18]]
    BY <1>1, <2>1 DEF RlInv, ReloadType
  <2>3. \A d \in Reloaders : reloads'[d].ver <= parsed'
    BY <1>1, <2>1 DEF RlInv, ReloadType
  <2> QED BY <1>1, <1>2, <2>2, <2>3 DEF RlInv, ReloadType
<1> QED BY <1>5, <1>6, <1>7, <1>8 DEF RlInv

\* Every step of a reload or of the worker.
LEMMA RlInvStep == RlInv /\ [ReloadNext]_reloadVars => RlInv'
<1> SUFFICES ASSUME RlInv, [ReloadNext]_reloadVars PROVE RlInv'
  OBVIOUS
<1>1. CASE \E c \in Reloaders : Parse(c) \/ TakeMutex(c) \/ ApplyPart(c) \/ CommitSnapshot(c)
  BY <1>1, ParseStep, TakeMutexStep, ApplyPartStep, CommitSnapshotStep
<1>2. CASE refreshIndex \/ WorkerRestarts \/ WorkerEnds \/ Stop \/ StopReturns \/ UNCHANGED reloadVars
  BY <1>2, RlInvUnchanged DEF refreshIndex, WorkerRestarts, WorkerEnds, Stop, StopReturns, reloadVars
<1> QED BY <1>1, <1>2 DEF ReloadNext

\* Before the first reload.
LEMMA ReloadInvInit == ReloadInit => RlInv /\ WkInv
<1> SUFFICES ASSUME ReloadInit PROVE RlInv /\ WkInv
  OBVIOUS
<1>1. /\ parts = [x \in ReloadParts |-> 0] /\ reloads = [c \in Reloaders |-> Ready] /\ committed = 0 /\ parsed = 0
      /\ index = (0 \in withMLX) /\ lookup = index
  BY DEF ReloadInit
<1>2. Ready \in [pc : {"idle", "parsed", "applying"}, ver : Nat, at : 0 .. 18] /\ Ready.ver = 0 /\ Ready.pc = "idle"
  BY DEF Ready
<1>3. ReloadType
  BY <1>1, <1>2 DEF ReloadType
<1>4. \A i \in 1 .. 17 : i # 5 => HandlerOrder[i] \in ReloadParts
  BY HandlerSteps DEF ReloadParts
<1>5. Indexed(committed)
  BY <1>1 DEF Indexed, fusionMLXBackendCfg
<1>6. \A c \in Reloaders : reloads[c].pc # "applying"
  BY <1>1, <1>2
<1>7. RlInv
  BY <1>1, <1>3, <1>4, <1>5, <1>6 DEF RlInv
<1>8. WkInv
  BY DEF ReloadInit, WkInv, WorkerJoined
<1> QED BY <1>7, <1>8

\* What a reload promises.
LEMMA RlInvSound == RlInv => PartsAgree
<1> SUFFICES ASSUME RlInv, MutexFree
             PROVE  /\ \A x \in ReloadParts \ {"providers"} : parts[x] = committed
                    /\ lookup = fusionMLXBackendCfg(committed) /\ index = lookup
  BY DEF PartsAgree
<1>1. ASSUME NEW x \in ReloadParts \ {"providers"} PROVE parts[x] = committed
  <2>1. PICK i \in 1 .. 17 : HandlerOrder[i] = x
    BY HandlerSteps DEF ReloadParts
  <2>2. i # 4 /\ i # 5
    BY <2>1, HandlerSteps DEF ReloadParts
  <2> QED BY <2>1, <2>2 DEF RlInv
<1>2. Indexed(committed)
  BY DEF RlInv
<1> QED BY <1>1, <1>2 DEF Indexed

\* ProcessSound, for any processes, any number of requests, kills, versions of
\* the configuration and panics: a gateway past the lock of its data directory
\* is alone on it, no request loses its backend or its log to a teardown that
\* waited for it, the sink outlives its writers, and between reloads the parts
\* agree with the committed configuration.
THEOREM ProcessIsSound == PartsSpec => []ProcessSound
<1> DEFINE Inv == PsInv /\ RlInv /\ WkInv
<1>1. PartsInit => Inv
  BY PsInvInit, ReloadInvInit DEF PartsInit
<1> DEFINE v == <<focus, gateVars, limVars, tqVars, cacheVars, semVars, sinkVars, storeVars, processVars, reloadVars,
                  mfVars, storeFileVars, policyVars, epVars, shardVars>>
<1>2. Inv /\ [PartsNext]_v => Inv'
  <2> SUFFICES ASSUME Inv, [PartsNext]_v PROVE Inv'
    OBVIOUS
  <2>1. PartsNext => (ProcessNext \/ UNCHANGED processVars) /\ (ReloadNext \/ UNCHANGED reloadVars)
    BY DEF PartsNext
  <2>2. [ProcessNext]_processVars /\ [ReloadNext]_reloadVars
    BY <2>1
  <2> QED BY <2>2, PsInvStep, RlInvStep, WkInvStep
<1>3. Inv => ProcessSound
  BY PsInvSound, RlInvSound DEF ProcessSound, LifecycleSound, WkInv
<1> QED BY <1>1, <1>2, <1>3, PTL DEF PartsSpec

-----------------------------------------------------------------------------
(* Shards of a batch. *)

\* The number of shards covers the batch, and not by a whole shard.
LEMMA ShardCounted ==
    /\ ShardCount \in Nat /\ Batch \in Nat /\ ShardSize \in Nat \ {0}
    /\ Batch <= ShardCount * ShardSize
    /\ ShardCount > 0 => (ShardCount - 1) * ShardSize < Batch
<1> DEFINE a == Batch + ShardSize - 1
<1> DEFINE q == a \div ShardSize
<1>1. Batch \in Nat /\ ShardSize \in Nat /\ ShardSize > 0
  BY EndpointsAssumption
<1>2. a \in Nat
  BY <1>1
<1> HIDE DEF a
<1>3. q \in Nat /\ q * ShardSize <= a /\ a < q * ShardSize + ShardSize
  BY <1>1, <1>2
<1> HIDE DEF q
<1>4. (q - 1) * ShardSize = q * ShardSize - ShardSize
  BY <1>1, <1>3
<1>5. ShardCount = q
  BY DEF ShardCount, q, a
<1> QED BY <1>1, <1>3, <1>4, <1>5 DEF a

\* Where shard i begins and ends.
Before(i) == (i - 1) * ShardSize
UpTo(i) == IF i * ShardSize > Batch THEN Batch ELSE i * ShardSize

\* A shard is an interval of the batch that follows the shard before it.
LEMMA ShardBounds ==
    ASSUME NEW i \in Shards
    PROVE  /\ i \in Nat /\ i >= 1 /\ i <= ShardCount /\ Before(i) \in Nat /\ UpTo(i) \in Nat
           /\ Before(i) < UpTo(i) /\ UpTo(i) <= Batch /\ UpTo(i) <= Before(i) + ShardSize
           /\ UpTo(i) = Before(i) + ShardSize \/ UpTo(i) = Batch
           /\ UpTo(i - 1) = Before(i)
<1>1. i \in Nat /\ i >= 1 /\ i <= ShardCount
  BY ShardCounted DEF Shards
<1>2. Batch \in Nat /\ ShardSize \in Nat /\ ShardSize > 0 /\ ShardCount \in Nat
  BY ShardCounted
<1>3. i * ShardSize \in Nat /\ (i - 1) * ShardSize = i * ShardSize - ShardSize
  BY <1>1, <1>2
<1>4. (i - 1) * ShardSize \in Nat
  BY <1>1, <1>2
<1>5. (i - 1) * ShardSize < Batch
  <2>1. (ShardCount - 1) * ShardSize < Batch
    BY <1>1, <1>2, ShardCounted
  <2>2. (i - 1) * ShardSize <= (ShardCount - 1) * ShardSize
    <3> DEFINE x == i - 1
    <3> DEFINE y == ShardCount - 1
    <3>1. x \in Nat /\ y \in Nat /\ x <= y
      BY <1>1, <1>2
    <3> HIDE DEF x, y
    <3>2. x * ShardSize <= y * ShardSize
      BY <1>2, <3>1
    <3> QED BY <3>2 DEF x, y
  <2> QED BY <1>2, <1>4, <2>1, <2>2
<1> DEFINE b == (i - 1) * ShardSize
<1> DEFINE e == i * ShardSize
<1>6. b \in Nat /\ e \in Nat /\ b = e - ShardSize /\ b < Batch
  BY <1>3, <1>4, <1>5
<1>7. Before(i) = b /\ UpTo(i) = (IF e > Batch THEN Batch ELSE e) /\ UpTo(i - 1) = IF b > Batch THEN Batch ELSE b
  BY DEF Before, UpTo
<1> HIDE DEF b, e
<1> QED BY <1>1, <1>2, <1>6, <1>7

\* As many inputs as the interval is long.
LEMMA ShardLength ==
    ASSUME NEW i \in Shards
    PROVE  splitInput(i) = Before(i) + 1 .. UpTo(i) /\ Cardinality(splitInput(i)) = UpTo(i) - Before(i)
<1> DEFINE b == Before(i)
<1> DEFINE u == UpTo(i)
<1> DEFINE e == i * ShardSize
<1>1. Batch \in Nat /\ ShardSize \in Nat
  BY ShardCounted
<1>2. b \in Nat /\ u \in Nat /\ b < u /\ i \in Nat
  BY ShardBounds
<1>3. e \in Nat /\ u = IF e > Batch THEN Batch ELSE e
  BY <1>1, <1>2 DEF UpTo
<1>4. splitInput(i) = {n \in 1 .. Batch : b < n /\ n <= e}
  BY DEF splitInput, Before
<1> HIDE DEF b, u, e
<1>5. splitInput(i) = b + 1 .. u
  BY <1>1, <1>2, <1>3, <1>4
<1>6. Cardinality(b + 1 .. u) = u - b
  <2>1. b + 1 \in Int /\ u \in Int /\ ~ (b + 1 > u) /\ u - (b + 1) + 1 = u - b
    BY <1>2
  <2> QED BY <2>1, FS_Interval
<1> QED BY <1>5, <1>6 DEF b, u

\* What a shard's result counts for, when no node answers too much.
LEMMA VectorsBounded ==
    ASSUME NEW i \in Shards
    PROVE  /\ Vectors(i) \in Nat
           /\ results[i] # "long" => Vectors(i) <= UpTo(i) - Before(i)
           /\ results[i] # "long" /\ Vectors(i) = UpTo(i) - Before(i) => results[i] = "full"
<1> DEFINE n == Cardinality(splitInput(i))
<1>1. n = UpTo(i) - Before(i)
  BY ShardLength
<1>2. n \in Nat /\ n > 0
  BY <1>1, ShardBounds
<1>3. Vectors(i) = CASE results[i] = "full" -> n [] results[i] = "short" -> n - 1 [] results[i] = "long" -> n + 1 [] OTHER -> 0
  BY DEF Vectors
<1> HIDE DEF n
<1>4. CASE results[i] = "full"
  BY <1>1, <1>2, <1>3, <1>4
<1>5. CASE results[i] = "short"
  BY <1>1, <1>2, <1>3, <1>5
<1>6. CASE results[i] = "long"
  BY <1>1, <1>2, <1>3, <1>6
<1>7. CASE results[i] \notin {"full", "short", "long"}
  BY <1>1, <1>2, <1>3, <1>7
<1> QED BY <1>4, <1>5, <1>6, <1>7

\* The running total that the merge compares with the batch is well defined.
LEMMA VectorsSummed ==
    VectorsUpTo = [i \in 0 .. ShardCount |-> IF i = 0 THEN 0 ELSE VectorsUpTo[i - 1] + Vectors(i)]
<1> DEFINE Sum(f, n) == f = [i \in 0 .. n |-> IF i = 0 THEN 0 ELSE f[i - 1] + Vectors(i)]
<1> DEFINE bad == {n \in 0 .. ShardCount : ~ \E f : Sum(f, n)}
<1>1. ShardCount \in Nat
  BY ShardCounted
<1>2. bad = {}
  <2> SUFFICES ASSUME bad # {} PROVE FALSE
    OBVIOUS
  <2>1. bad \in SUBSET Nat
    BY <1>1
  <2>2. PICK n \in bad : \A m \in bad : n <= m
    BY <2>1, LeastNumber
  <2>3. n \in 0 .. ShardCount /\ n \in Nat /\ ~ \E f : Sum(f, n)
    BY <1>1
  <2>4. CASE n = 0
    <3> DEFINE f == [i \in 0 .. 0 |-> 0]
    <3>1. \A i \in 0 .. 0 : i = 0
      OBVIOUS
    <3>2. Sum(f, 0)
      BY <3>1
    <3> QED BY <2>3, <2>4, <3>2
  <2>5. CASE n # 0
    <3> DEFINE k == n - 1
    <3>1. k \in 0 .. ShardCount /\ k \in Nat /\ ~ (n <= k) /\ n = k + 1
      BY <1>1, <2>3, <2>5
    <3>2. k \notin bad
      BY <2>2, <3>1
    <3>3. PICK g : Sum(g, k)
      BY <3>1, <3>2
    <3> HIDE DEF k
    <3> DEFINE f == [i \in 0 .. n |-> IF i <= k THEN g[i] ELSE g[k] + Vectors(i)]
    <3>4. ASSUME NEW i \in 0 .. n PROVE f[i] = IF i = 0 THEN 0 ELSE f[i - 1] + Vectors(i)
      <4>1. CASE i = 0
        BY <3>1, <3>3, <4>1
      <4>2. CASE i # 0 /\ i <= k
        <5>1. i \in 0 .. k /\ i - 1 \in 0 .. k /\ i - 1 \in 0 .. n /\ i - 1 <= k
          BY <3>1, <4>2
        <5>2. f[i] = g[i] /\ f[i - 1] = g[i - 1]
          BY <4>2, <5>1
        <5>3. g[i] = g[i - 1] + Vectors(i)
          BY <3>3, <4>2, <5>1
        <5> QED BY <4>2, <5>2, <5>3
      <4>3. CASE i # 0 /\ ~ (i <= k)
        <5>1. i - 1 = k /\ k \in 0 .. n
          BY <3>1, <4>3
        <5>2. f[i] = g[k] + Vectors(i)
          BY <4>3
        <5>3. f[k] = g[k]
          BY <3>1, <5>1
        <5> QED BY <4>3, <5>1, <5>2, <5>3
      <4> QED BY <4>1, <4>2, <4>3
    <3>5. f = [i \in 0 .. n |-> f[i]]
      OBVIOUS
    <3> HIDE DEF f
    <3>6. Sum(f, n)
      BY <3>4, <3>5
    <3> QED BY <2>3, <3>6
  <2> QED BY <2>4, <2>5
<1>3. ShardCount \notin bad /\ ShardCount \in 0 .. ShardCount
  BY <1>1, <1>2
<1>4. \E f : Sum(f, ShardCount)
  BY <1>3
<1> QED BY <1>4 DEF VectorsUpTo

\* Up to a shard there are never more vectors than inputs, and as many only
\* where every shard is full.
LEMMA TotalBounded ==
    ASSUME \A i \in Shards : results[i] # "long", NEW n \in 0 .. ShardCount
    PROVE  /\ VectorsUpTo[n] \in Nat /\ UpTo(n) \in Nat /\ VectorsUpTo[n] <= UpTo(n)
           /\ VectorsUpTo[n] = UpTo(n) => \A i \in 1 .. n : results[i] = "full"
<1> DEFINE Good(m) == /\ VectorsUpTo[m] \in Nat /\ UpTo(m) \in Nat /\ VectorsUpTo[m] <= UpTo(m)
                      /\ VectorsUpTo[m] = UpTo(m) => \A i \in 1 .. m : results[i] = "full"
<1> DEFINE bad == {m \in 0 .. ShardCount : ~ Good(m)}
<1>1. ShardCount \in Nat /\ Batch \in Nat /\ ShardSize \in Nat
  BY ShardCounted
<1>2. bad = {}
  <2> SUFFICES ASSUME bad # {} PROVE FALSE
    OBVIOUS
  <2>1. bad \in SUBSET Nat
    BY <1>1
  <2>2. PICK m \in bad : \A k \in bad : m <= k
    BY <2>1, LeastNumber
  <2>3. m \in 0 .. ShardCount /\ m \in Nat /\ ~ Good(m)
    BY <1>1
  <2>4. CASE m = 0
    <3>1. VectorsUpTo[0] = 0
      BY <1>1, VectorsSummed
    <3>2. UpTo(0) = 0
      BY <1>1 DEF UpTo
    <3>3. 1 .. 0 = {}
      OBVIOUS
    <3> QED BY <2>3, <2>4, <3>1, <3>2, <3>3
  <2>5. CASE m # 0
    <3> DEFINE k == m - 1
    <3>1. k \in 0 .. ShardCount /\ k \in Nat /\ ~ (m <= k) /\ m = k + 1 /\ m \in Shards
      BY <1>1, <2>3, <2>5 DEF Shards
    <3>2. Good(k)
      BY <2>2, <3>1
    <3>3. VectorsUpTo[m] = VectorsUpTo[k] + Vectors(m)
      BY <2>3, <2>5, VectorsSummed
    <3> DEFINE t == VectorsUpTo[k]
    <3> DEFINE w == Vectors(m)
    <3> DEFINE b == Before(m)
    <3> DEFINE u == UpTo(m)
    <3>4. t \in Nat /\ UpTo(k) = b /\ t <= b /\ (t = b => \A i \in 1 .. k : results[i] = "full")
      BY <3>1, <3>2, ShardBounds
    <3>5. w \in Nat /\ w <= u - b /\ (w = u - b => results[m] = "full")
      BY <3>1, VectorsBounded
    <3>6. b \in Nat /\ u \in Nat /\ b < u /\ VectorsUpTo[m] = t + w
      BY <3>1, <3>3, ShardBounds
    <3>7. \A i \in 1 .. m : i \in 1 .. k \/ i = m
      BY <3>1
    <3> HIDE DEF t, w, b, k
    <3>8. VectorsUpTo[m] \in Nat /\ u \in Nat /\ VectorsUpTo[m] <= u
      <4> HIDE DEF u
      <4> QED BY <3>4, <3>5, <3>6
    <3>9. VectorsUpTo[m] = u => t = b /\ w = u - b
      <4> HIDE DEF u
      <4> QED BY <3>4, <3>5, <3>6
    <3>10. VectorsUpTo[m] = u => \A i \in 1 .. m : results[i] = "full"
      <4> HIDE DEF u
      <4> QED BY <3>4, <3>5, <3>7, <3>9
    <3> QED BY <2>3, <3>8, <3>10
  <2> QED BY <2>4, <2>5
<1> QED BY <1>2

\* Every input belongs to a shard.
LEMMA InputSharded == ASSUME NEW n \in 1 .. Batch PROVE \E i \in Shards : n \in splitInput(i)
<1> DEFINE a == n - 1
<1> DEFINE q == a \div ShardSize
<1>1. Batch \in Nat /\ ShardSize \in Nat /\ ShardSize > 0 /\ ShardCount \in Nat /\ n \in Nat /\ a \in Nat
  BY ShardCounted
<1>2. q \in Nat /\ q * ShardSize <= a /\ a < q * ShardSize + ShardSize
  BY <1>1
<1> HIDE DEF q
<1>3. (q + 1) * ShardSize = q * ShardSize + ShardSize /\ (q + 1) - 1 = q
  BY <1>1, <1>2
<1>4. q + 1 \in Shards
  <2> SUFFICES ASSUME ~ (q + 1 <= ShardCount) PROVE FALSE
    BY <1>1, <1>2 DEF Shards
  <2>1. ShardCount <= q
    BY <1>1, <1>2
  <2>2. ShardCount * ShardSize <= q * ShardSize
    BY <1>1, <1>2, <2>1
  <2>3. Batch <= ShardCount * ShardSize /\ ShardCount * ShardSize \in Nat /\ q * ShardSize \in Nat
    BY <1>1, <1>2, ShardCounted
  <2>4. Batch <= a
    BY <1>1, <1>2, <2>2, <2>3
  <2> QED BY <1>1, <2>4
<1>5. ((q + 1) - 1) * ShardSize < n /\ n <= (q + 1) * ShardSize
  <2> DEFINE z == q * ShardSize
  <2>1. z \in Nat /\ z <= n - 1 /\ n - 1 < z + ShardSize
    BY <1>1, <1>2
  <2>2. ((q + 1) - 1) * ShardSize = z /\ (q + 1) * ShardSize = z + ShardSize
    BY <1>3
  <2> HIDE DEF z
  <2> QED BY <1>1, <2>1, <2>2
<1>6. n \in splitInput(q + 1)
  BY <1>5 DEF splitInput
<1> QED BY <1>4, <1>6

\* The vectors of a full shard are numbered as its inputs.
LEMMA FullNumbered == ASSUME NEW i \in Shards, results[i] = "full" PROVE Numbered(i) = splitInput(i)
<1> DEFINE b == Before(i)
<1> DEFINE u == UpTo(i)
<1>1. Batch \in Nat /\ b \in Nat /\ u \in Nat /\ b < u /\ u <= Batch
  BY ShardBounds, ShardCounted
<1>2. splitInput(i) = b + 1 .. u /\ Vectors(i) = u - b
  BY ShardLength DEF Vectors
<1>3. Numbered(i) = {IF b + j > Batch THEN Batch ELSE b + j : j \in 1 .. u - b}
  BY <1>2 DEF Numbered, Before
<1> HIDE DEF b, u
<1>4. \A j \in 1 .. u - b : ~ (b + j > Batch) /\ b + j \in b + 1 .. u
  BY <1>1
<1>5. \A x \in b + 1 .. u : x - b \in 1 .. u - b /\ b + (x - b) = x
  BY <1>1
<1>6. Numbered(i) = {b + j : j \in 1 .. u - b}
  BY <1>3, <1>4
<1>7. {b + j : j \in 1 .. u - b} = b + 1 .. u
  BY <1>4, <1>5
<1> QED BY <1>2, <1>6, <1>7

\* The merged answer of shards none of which is too long.
LEMMA MergeComplete ==
    ASSUME \A i \in Shards : results[i] # "long", ~ (VectorsUpTo[ShardCount] < Batch)
    PROVE  UNION {Numbered(i) : i \in Shards} = 1 .. Batch
<1>1. ShardCount \in Nat /\ Batch \in Nat /\ ShardCount \in 0 .. ShardCount /\ Shards = 1 .. ShardCount
  BY ShardCounted DEF Shards
<1>2. VectorsUpTo[ShardCount] \in Nat /\ UpTo(ShardCount) \in Nat /\ VectorsUpTo[ShardCount] <= UpTo(ShardCount)
      /\ (VectorsUpTo[ShardCount] = UpTo(ShardCount) => \A i \in 1 .. ShardCount : results[i] = "full")
  BY <1>1, TotalBounded
<1>3. UpTo(ShardCount) <= Batch
  BY <1>1, ShardCounted DEF UpTo
<1>4. \A i \in Shards : results[i] = "full"
  BY <1>1, <1>2, <1>3
<1>5. \A i \in Shards : Numbered(i) = splitInput(i)
  BY <1>4, FullNumbered
<1>6. \A i \in Shards : Numbered(i) \subseteq 1 .. Batch
  BY <1>5 DEF splitInput
<1>7. \A n \in 1 .. Batch : \E i \in Shards : n \in Numbered(i)
  BY <1>5, InputSharded
<1> QED BY <1>6, <1>7

\* Once the batch is merged no worker is left to change a result.
ShInv ==
    /\ sharded.state # "running" => \A w \in ShardWorkers : shardAt[w] = -1
    /\ ShardsComplete

\* Workers change results while the batch runs; the merge counts the vectors.
LEMMA ShInvStep == ShInv /\ [ShardNext]_shardVars => ShInv'
<1> SUFFICES ASSUME ShInv, [ShardNext]_shardVars PROVE ShInv'
  OBVIOUS
<1>1. CASE UNCHANGED shardVars
  BY <1>1 DEF ShInv, ShardsComplete, shardVars
<1>2. CASE \E w \in ShardWorkers : TakeShard(w) \/ ShardAnswers(w) \/ ShardFails(w)
  <2>1. PICK w \in ShardWorkers : TakeShard(w) \/ ShardAnswers(w) \/ ShardFails(w)
    BY <1>2
  <2>2. shardAt[w] # -1 /\ UNCHANGED sharded
    BY <2>1 DEF TakeShard, ShardAnswers, ShardFails
  <2>3. sharded.state = "running"
    BY <2>2 DEF ShInv
  <2> QED BY <2>2, <2>3 DEF ShInv, ShardsComplete
<1>3. CASE MergeShards
  <2>1. UNCHANGED <<shardAt, results>> /\ \A w \in ShardWorkers : shardAt[w] = -1
    BY <1>3 DEF MergeShards
  <2>2. ASSUME sharded'.state = "ok", \A i \in Shards : results[i] # "long" PROVE sharded'.vectors = 1 .. Batch
    <3>1. ~ (VectorsUpTo[ShardCount] < Batch)
      BY <1>3, <2>2 DEF MergeShards
    <3>2. sharded'.vectors = UNION {Numbered(i) : i \in Shards}
      BY <1>3, <2>2 DEF MergeShards
    <3> QED BY <2>2, <3>1, <3>2, MergeComplete
  <2> QED BY <2>1, <2>2 DEF ShInv, ShardsComplete
<1> QED BY <1>1, <1>2, <1>3 DEF ShardNext

-----------------------------------------------------------------------------
(* The endpoints beside chat. *)

Keyed == Owners \cup {NoOwner}
EpStations == {"idle", "queue", "register", "stream", "call", "return", "done"}
EpBackends == {"local", "cluster", "cloud"}

EpType ==
    [at : EpStations, kind : Kinds \cup {"none"}, id : TaskIds \cup {NoTask}, owner : Keyed, backend : EpBackends \cup {"none"},
     provider : EpBackends \cup {"none"}, stream : BOOLEAN, held : SUBSET {"queue", "stream"}, registered : BOOLEAN,
     by : Keyed \cup {NoTask, "master", "reaper"}, outcome : {"none", "success", "failure"},
     charged : EpBackends \cup {"none"}, answer : EpBackends \cup {"none", "error"}]

\* What was recorded agrees with the answer; nothing is recorded before it.
Consistent(x) ==
    /\ x.charged # "none" => x.answer \in Answering(x.charged)
    /\ x.outcome = "success" => x.answer \in Answering(x.backend)
    /\ x.outcome = "failure" => x.answer = "error"
    /\ x.at \notin {"return", "done"} => x.charged = "none" /\ x.outcome = "none"
    /\ x.at = "call" /\ x.kind \in {"embed", "rerank"} => x.backend \in EpBackends /\ x.provider \in Answering(x.backend)

\* A request holds a slot only past its acquisition, is registered only past
\* Register, and is cancelled only where it is registered.
InOrder(x) ==
    /\ x.at \in {"idle", "queue", "done"} => x.held = {}
    /\ x.at \in {"register", "stream"} => "stream" \notin x.held
    /\ x.at \in {"idle", "queue", "register", "done"} => ~ x.registered
    /\ ~ x.registered => x.by = NoTask
    /\ x.at \in {"queue", "register"} => x.id \in TaskIds
    /\ x.registered => x.id \in TaskIds
    /\ x.at \in {"queue", "register", "stream"} => x.kind = "messages"
    /\ x.kind # "none" => x.provider \in EpBackends

\* Nobody but its owner cancels a request that has one.
Allowed(x) == x.by \in Keyed => x.owner \in {NoOwner, x.by}

EpWell(x) == x \in EpType /\ Consistent(x) /\ InOrder(x) /\ Allowed(x)

Holding(s) == {c \in EpCalls : s \in ep[c].held}

\* The registry's entry of id i, for the request that is registered under it.
EntryOf(i) == LET q == ep[tasks[i].call]
              IN  tasks[i].call \in EpCalls /\ q.registered /\ q.id = i /\ q.owner = tasks[i].owner /\ q.by = NoTask

EpInv ==
    /\ ep = [c \in EpCalls |-> ep[c]] /\ \A c \in EpCalls : EpWell(ep[c])
    /\ streamSem = Cardinality(Holding("stream")) /\ streamSem \in 0 .. StreamCap
    /\ queueUsed = Cardinality(Holding("queue")) /\ queueUsed \in 0 .. QueueSlots
    /\ tasks = [i \in TaskIds |-> tasks[i]] /\ \A i \in LiveTasks : EntryOf(i)
    /\ MaxEntries > 0 => Cardinality(LiveTasks) <= MaxEntries

\* A request that moves on under the same registration.
LEMMA EpMoves ==
    ASSUME EpInv, NEW c \in EpCalls, NEW x, ep' = [ep EXCEPT ![c] = x], EpWell(x), UNCHANGED tasks,
           ep[c].registered => /\ x.registered = ep[c].registered /\ x.id = ep[c].id
                               /\ x.owner = ep[c].owner /\ x.by = ep[c].by,
           streamSem' = Cardinality(Holding("stream")') /\ streamSem' \in 0 .. StreamCap,
           queueUsed' = Cardinality(Holding("queue")') /\ queueUsed' \in 0 .. QueueSlots
    PROVE  EpInv'
<1>1. ep' = [d \in EpCalls |-> ep'[d]] /\ ep'[c] = x /\ \A d \in EpCalls : d # c => ep'[d] = ep[d]
  BY DEF EpInv
<1>2. \A d \in EpCalls : EpWell(ep'[d])
  BY <1>1 DEF EpInv
<1>3. LiveTasks' = LiveTasks
  BY DEF LiveTasks
<1>4. ASSUME NEW i \in LiveTasks PROVE EntryOf(i)'
  <2>1. EntryOf(i)
    BY <1>4 DEF EpInv
  <2>2. tasks[i].call \in EpCalls
    BY <2>1 DEF EntryOf
  <2>3. ep'[tasks[i].call].registered /\ ep'[tasks[i].call].id = i /\ ep'[tasks[i].call].owner = tasks[i].owner
        /\ ep'[tasks[i].call].by = NoTask
    BY <1>1, <2>1, <2>2 DEF EntryOf
  <2> QED BY <2>2, <2>3 DEF EntryOf
<1>5. \A d \in EpCalls : EpWell(ep[d])'
  BY <1>2 DEF EpWell, EpType, Consistent, InOrder, Allowed
<1> QED BY <1>1, <1>3, <1>4, <1>5 DEF EpInv

\* The slots of the requests, when one of them takes or gives back none.
LEMMA HoldingSame ==
    ASSUME EpInv, NEW c \in EpCalls, NEW x, ep' = [ep EXCEPT ![c] = x], NEW s, s \in x.held <=> s \in ep[c].held
    PROVE  Holding(s)' = Holding(s)
<1>1. ep'[c] = x /\ \A d \in EpCalls : d # c => ep'[d] = ep[d]
  BY DEF EpInv
<1> QED BY <1>1 DEF Holding

\* One more, or one less.
LEMMA HoldingChanged ==
    ASSUME EpInv, NEW c \in EpCalls, NEW x, ep' = [ep EXCEPT ![c] = x], NEW s
    PROVE  /\ s \in x.held /\ s \notin ep[c].held => Cardinality(Holding(s)') = Cardinality(Holding(s)) + 1
           /\ s \notin x.held /\ s \in ep[c].held => Cardinality(Holding(s)') = Cardinality(Holding(s)) - 1
           /\ Cardinality(Holding(s)) \in Nat
<1>1. ep'[c] = x /\ \A d \in EpCalls : d # c => ep'[d] = ep[d]
  BY DEF EpInv
<1>2. IsFiniteSet(Holding(s))
  <2>1. Holding(s) \subseteq EpCalls
    BY DEF Holding
  <2> QED BY <2>1, FS_Subset, EndpointsAssumption
<1>3. ASSUME s \in x.held, s \notin ep[c].held PROVE Cardinality(Holding(s)') = Cardinality(Holding(s)) + 1
  <2>1. Holding(s)' = Holding(s) \cup {c} /\ c \notin Holding(s)
    BY <1>1, <1>3 DEF Holding
  <2> QED BY <1>2, <2>1, FS_AddElement
<1>4. ASSUME s \notin x.held, s \in ep[c].held PROVE Cardinality(Holding(s)') = Cardinality(Holding(s)) - 1
  <2>1. Holding(s)' = Holding(s) \ {c} /\ c \in Holding(s)
    BY <1>1, <1>4 DEF Holding
  <2> QED BY <1>2, <2>1, FS_RemoveElement
<1> QED BY <1>2, <1>3, <1>4, FS_CardinalityType

\* What Decide and the endpoint's choice of a provider leave.
LEMMA ServedBy ==
    ASSUME NEW kind \in Kinds, NEW choice \in Backends, NEW b \in Decided(kind, choice), NEW p \in Served(kind, b)
    PROVE  b \in EpBackends /\ p \in EpBackends /\ (kind \in {"embed", "rerank"} => p \in Answering(b))
<1>1. b \in EpBackends
  BY DEF Decided, Backends, EpBackends
<1>2. p \in EpBackends
  BY DEF Served, EpBackends
<1>3. ASSUME kind \in {"embed", "rerank"} PROVE p \in Answering(b)
  BY <1>1, <1>3 DEF Served, EpBackends, Answering
<1> QED BY <1>1, <1>2, <1>3

\* A request before anything has happened to it.
LEMMA NewRequest ==
    /\ EpWell(NoEp) /\ NoEp \in EpType /\ NoEp.held = {} /\ NoEp.registered = FALSE /\ NoEp.by = NoTask /\ NoEp.outcome = "none"
    /\ NoEp.charged = "none" /\ NoEp.answer = "none" /\ NoEp.owner = NoOwner /\ NoEp.id = NoTask
<1>1. NoEp \in EpType
  BY DEF NoEp, EpType, EpStations, Keyed, Kinds, EpBackends
<1>2. NoEp.held = {} /\ NoEp.registered = FALSE /\ NoEp.by = NoTask /\ NoEp.outcome = "none" /\ NoEp.at = "idle"
      /\ NoEp.kind = "none" /\ NoEp.charged = "none" /\ NoEp.answer = "none" /\ NoEp.owner = NoOwner /\ NoEp.id = NoTask
  BY DEF NoEp
<1>3. Consistent(NoEp) /\ InOrder(NoEp)
  BY <1>2 DEF Consistent, InOrder
<1>4. Allowed(NoEp)
  BY <1>2 DEF Allowed
<1> QED BY <1>1, <1>2, <1>3, <1>4 DEF EpWell

\* The new request of EpArrive.
LEMMA ArriveStep ==
    ASSUME EpInv, NEW c \in EpCalls, NEW kind \in Kinds, NEW id \in TaskIds \cup {NoTask}, NEW owner \in Keyed,
           NEW choice \in Backends, NEW stream \in BOOLEAN, kind = "messages" => id \in TaskIds,
           EpArrive(c, kind, id, owner, choice, stream)
    PROVE  EpInv'
<1>1. PICK b \in Decided(kind, choice) : \E p \in Served(kind, b) :
        ep' = [ep EXCEPT ![c] = [NoEp EXCEPT !.at = IF kind = "messages" THEN "queue" ELSE "call", !.kind = kind, !.id = id,
                                             !.owner = owner, !.backend = b, !.provider = p, !.stream = stream]]
  BY DEF EpArrive
<1>2. PICK p \in Served(kind, b) :
        ep' = [ep EXCEPT ![c] = [NoEp EXCEPT !.at = IF kind = "messages" THEN "queue" ELSE "call", !.kind = kind, !.id = id,
                                             !.owner = owner, !.backend = b, !.provider = p, !.stream = stream]]
  BY <1>1
<1> DEFINE x == [NoEp EXCEPT !.at = IF kind = "messages" THEN "queue" ELSE "call", !.kind = kind, !.id = id,
                             !.owner = owner, !.backend = b, !.provider = p, !.stream = stream]
<1>3. b \in EpBackends /\ p \in EpBackends /\ (kind \in {"embed", "rerank"} => p \in Answering(b))
  BY ServedBy
<1>4. x \in EpType
  <2> DEFINE a == IF kind = "messages" THEN "queue" ELSE "call"
  <2>1. a \in EpStations
    BY DEF EpStations
  <2> HIDE DEF a
  <2>2. [NoEp EXCEPT !.at = a, !.kind = kind, !.id = id, !.owner = owner, !.backend = b, !.provider = p, !.stream = stream]
        \in EpType
    BY <1>3, <2>1, NewRequest DEF EpType
  <2> QED BY <2>2 DEF a
<1>5. x.at = (IF kind = "messages" THEN "queue" ELSE "call") /\ x.kind = kind /\ x.id = id /\ x.owner = owner /\ x.backend = b
      /\ x.provider = p /\ x.held = {} /\ x.registered = FALSE /\ x.by = NoTask /\ x.outcome = "none" /\ x.charged = "none"
  BY NewRequest DEF EpType, NoEp
<1>6. ep' = [ep EXCEPT ![c] = x]
  BY <1>2
<1> HIDE DEF x
<1>7. Consistent(x)
  BY <1>3, <1>5 DEF Consistent
<1>8. InOrder(x)
  BY <1>3, <1>5 DEF InOrder
<1>9. Allowed(x)
  BY <1>5, EndpointsAssumption DEF Allowed, Keyed
<1>10. ep[c].held = {} /\ ~ ep[c].registered
  BY DEF EpArrive, EpInv, EpWell, InOrder
<1>11. UNCHANGED <<tasks, streamSem, queueUsed>>
  BY DEF EpArrive
<1>12. Holding("stream")' = Holding("stream") /\ Holding("queue")' = Holding("queue")
  BY <1>5, <1>6, <1>10, HoldingSame
<1>13. EpWell(x)
  BY <1>4, <1>7, <1>8, <1>9 DEF EpWell
<1>14. streamSem' = Cardinality(Holding("stream")') /\ streamSem' \in 0 .. StreamCap
       /\ queueUsed' = Cardinality(Holding("queue")') /\ queueUsed' \in 0 .. QueueSlots
  BY <1>11, <1>12 DEF EpInv
<1> QED BY <1>6, <1>10, <1>11, <1>13, <1>14, EpMoves

\* The local queue's slot.
LEMMA QueueStep == ASSUME EpInv, NEW c \in EpCalls, acquireLocalSlot(c) PROVE EpInv'
<1> DEFINE o == ep[c]
<1>1. EpWell(o) /\ o.at = "queue" /\ UNCHANGED <<tasks, streamSem>>
  BY DEF EpInv, acquireLocalSlot
<1>2. o.held = {} /\ ~ o.registered /\ o \in EpType /\ o.by = NoTask /\ o.charged = "none" /\ o.outcome = "none"
      /\ o.kind = "messages" /\ o.provider \in EpBackends
  BY <1>1 DEF EpWell, InOrder, Consistent
<1>3. CASE ep' = [ep EXCEPT ![c].at = "return"] /\ UNCHANGED queueUsed
  <2> DEFINE x == [o EXCEPT !.at = "return"]
  <2>1. ep' = [ep EXCEPT ![c] = x]
    BY <1>3
  <2>a. x.at = "return" /\ x.held = o.held /\ x.registered = o.registered /\ x.by = o.by /\ x.charged = o.charged
        /\ x.outcome = o.outcome /\ x.provider = o.provider
    BY <1>2 DEF EpType
  <2>b. "return" \in EpStations
    BY DEF EpStations
  <2>c. x \in EpType
    BY <1>2, <2>b DEF EpType
  <2>2. x \in EpType /\ x.at = "return" /\ x.held = {} /\ ~ x.registered /\ x.by = NoTask /\ x.charged = "none"
        /\ x.outcome = "none" /\ x.provider \in EpBackends
    BY <1>2, <2>a, <2>c
  <2> HIDE DEF x
  <2>3. EpWell(x)
    BY <2>2, EndpointsAssumption DEF EpWell, Consistent, InOrder, Allowed, Keyed
  <2>4. Holding("stream")' = Holding("stream") /\ Holding("queue")' = Holding("queue")
    BY <1>2, <2>1, <2>2, HoldingSame
  <2>5. streamSem' = Cardinality(Holding("stream")') /\ streamSem' \in 0 .. StreamCap
        /\ queueUsed' = Cardinality(Holding("queue")') /\ queueUsed' \in 0 .. QueueSlots
    BY <1>1, <1>3, <2>4 DEF EpInv
  <2> QED BY <1>1, <1>2, <2>1, <2>3, <2>5, EpMoves
<1>4. CASE /\ o.backend = "local" => queueUsed < QueueSlots
           /\ queueUsed' = queueUsed + (IF o.backend = "local" THEN 1 ELSE 0)
           /\ ep' = [ep EXCEPT ![c].at = "register", ![c].held = IF o.backend = "local" THEN {"queue"} ELSE {}]
  <2> DEFINE h == IF o.backend = "local" THEN {"queue"} ELSE {}
  <2> DEFINE x == [o EXCEPT !.at = "register", !.held = h]
  <2>1. ep' = [ep EXCEPT ![c] = x]
    BY <1>4
  <2>2. h \in SUBSET {"queue", "stream"} /\ "stream" \notin h /\ ("queue" \in h <=> o.backend = "local")
    OBVIOUS
  <2> HIDE DEF h
  <2>c. x.at = "register" /\ x.held = h /\ x.registered = o.registered /\ x.by = o.by /\ x.charged = o.charged
        /\ x.outcome = o.outcome /\ x.id = o.id /\ x.kind = o.kind /\ x.provider = o.provider
    BY <1>2 DEF EpType
  <2>3. x.at = "register" /\ x.held = h /\ ~ x.registered /\ x.by = NoTask /\ x.charged = "none"
        /\ x.outcome = "none" /\ x.id = o.id /\ x.kind = "messages" /\ x.provider \in EpBackends
    BY <1>2, <2>c
  <2>a. "register" \in EpStations
    BY DEF EpStations
  <2>b. x \in EpType
    BY <1>2, <2>2, <2>a DEF EpType
  <2>4. o.id \in TaskIds
    BY <1>1 DEF EpWell, InOrder
  <2> HIDE DEF x
  <2>5. EpWell(x)
    BY <2>2, <2>3, <2>4, <2>b, EndpointsAssumption DEF EpWell, Consistent, InOrder, Allowed, Keyed
  <2>6. Holding("stream")' = Holding("stream")
    BY <1>2, <2>1, <2>2, <2>3, HoldingSame
  <2>7. streamSem' = Cardinality(Holding("stream")') /\ streamSem' \in 0 .. StreamCap
    BY <1>1, <2>6 DEF EpInv
  <2>8. queueUsed' = Cardinality(Holding("queue")') /\ queueUsed' \in 0 .. QueueSlots
    <3>1. CASE o.backend = "local"
      <4>1. Cardinality(Holding("queue")') = Cardinality(Holding("queue")) + 1
        BY <1>2, <2>1, <2>2, <2>3, <3>1, HoldingChanged
      <4>2. queueUsed' = queueUsed + 1 /\ queueUsed < QueueSlots
        BY <1>4, <3>1
      <4>3. queueUsed = Cardinality(Holding("queue")) /\ queueUsed \in 0 .. QueueSlots /\ QueueSlots \in Nat
        BY EndpointsAssumption DEF EpInv
      <4> QED BY <4>1, <4>2, <4>3
    <3>2. CASE o.backend # "local"
      <4>1. Holding("queue")' = Holding("queue")
        BY <1>2, <2>1, <2>2, <2>3, <3>2, HoldingSame
      <4>2. queueUsed' = queueUsed + 0
        BY <1>4, <3>2
      <4>3. queueUsed = Cardinality(Holding("queue")) /\ queueUsed \in 0 .. QueueSlots /\ QueueSlots \in Nat
        BY EndpointsAssumption DEF EpInv
      <4>4. queueUsed' = queueUsed
        BY <4>2, <4>3
      <4> QED BY <4>1, <4>3, <4>4
    <3> QED BY <3>1, <3>2
  <2> QED BY <1>1, <1>2, <2>1, <2>5, <2>7, <2>8, EpMoves
<1> QED BY <1>3, <1>4 DEF acquireLocalSlot

\* A stream's slot.
LEMMA StreamStep == ASSUME EpInv, NEW c \in EpCalls, acquireStreamSlot(c) PROVE EpInv'
<1> DEFINE o == ep[c]
<1>1. EpWell(o) /\ o.at = "stream" /\ UNCHANGED <<tasks, queueUsed>>
  BY DEF EpInv, acquireStreamSlot
<1>2. "stream" \notin o.held /\ o \in EpType /\ o.charged = "none" /\ o.outcome = "none" /\ InOrder(o) /\ Allowed(o)
  BY <1>1 DEF EpWell, InOrder, Consistent
<1>3. "return" \in EpStations /\ "call" \in EpStations
  BY DEF EpStations
<1>4. CASE ep' = [ep EXCEPT ![c].at = "return"] /\ UNCHANGED streamSem
  <2> DEFINE x == [o EXCEPT !.at = "return"]
  <2>1. ep' = [ep EXCEPT ![c] = x]
    BY <1>4
  <2>2. x.at = "return" /\ x.held = o.held /\ x.registered = o.registered /\ x.by = o.by /\ x.charged = o.charged
        /\ x.outcome = o.outcome /\ x.id = o.id /\ x.owner = o.owner /\ x.kind = o.kind /\ x.provider = o.provider
    BY <1>2 DEF EpType
  <2>3. x \in EpType
    BY <1>2, <1>3 DEF EpType
  <2> HIDE DEF x, o
  <2>4. EpWell(x)
    BY <1>2, <2>2, <2>3 DEF EpWell, Consistent, InOrder, Allowed
  <2>5. Holding("stream")' = Holding("stream") /\ Holding("queue")' = Holding("queue")
    <3>1. x.held = ep[c].held
      BY <2>2 DEF o
    <3> QED BY <2>1, <3>1, HoldingSame
  <2>6. streamSem' = Cardinality(Holding("stream")') /\ streamSem' \in 0 .. StreamCap
        /\ queueUsed' = Cardinality(Holding("queue")') /\ queueUsed' \in 0 .. QueueSlots
    BY <1>1, <1>4, <2>5 DEF EpInv
  <2> QED BY <1>1, <2>1, <2>2, <2>4, <2>6, EpMoves DEF o
<1>5. CASE streamSem < StreamCap /\ streamSem' = streamSem + 1
           /\ ep' = [ep EXCEPT ![c].at = "call", ![c].held = @ \cup {"stream"}]
  <2> DEFINE h == o.held \cup {"stream"}
  <2> DEFINE x == [o EXCEPT !.at = "call", !.held = h]
  <2>1. ep' = [ep EXCEPT ![c] = x]
    BY <1>5
  <2>2. h \in SUBSET {"queue", "stream"} /\ "stream" \in h /\ ("queue" \in h <=> "queue" \in o.held)
    BY <1>2 DEF EpType
  <2> HIDE DEF h
  <2>3. x.at = "call" /\ x.held = h /\ x.registered = o.registered /\ x.by = o.by /\ x.charged = o.charged
        /\ x.outcome = o.outcome /\ x.id = o.id /\ x.owner = o.owner /\ x.kind = o.kind
        /\ x.provider = o.provider
    BY <1>2 DEF EpType
  <2>4. x \in EpType
    BY <1>2, <1>3, <2>2 DEF EpType
  <2>5. o.kind = "messages"
    BY <1>1 DEF EpWell, InOrder
  <2> HIDE DEF x, o
  <2>6. EpWell(x)
    BY <1>2, <2>3, <2>4, <2>5 DEF EpWell, Consistent, InOrder, Allowed
  <2>7. Holding("queue")' = Holding("queue")
    BY <2>1, <2>2, <2>3, HoldingSame DEF o
  <2>8. queueUsed' = Cardinality(Holding("queue")') /\ queueUsed' \in 0 .. QueueSlots
    BY <1>1, <2>7 DEF EpInv
  <2>9. Cardinality(Holding("stream")') = Cardinality(Holding("stream")) + 1
    BY <1>2, <2>1, <2>2, <2>3, HoldingChanged DEF o
  <2>10. streamSem = Cardinality(Holding("stream")) /\ streamSem \in 0 .. StreamCap /\ StreamCap \in Nat
    BY EndpointsAssumption DEF EpInv
  <2>11. streamSem' = Cardinality(Holding("stream")') /\ streamSem' \in 0 .. StreamCap
    BY <1>5, <2>9, <2>10
  <2> QED BY <1>1, <2>1, <2>3, <2>6, <2>8, <2>11, EpMoves DEF o
<1> QED BY <1>4, <1>5 DEF acquireStreamSlot

\* An answer, and what is recorded of it.
LEMMA RecordedStep ==
    ASSUME EpInv, NEW c \in EpCalls, NEW outcome \in {"none", "success", "failure"}, NEW charged \in EpBackends \cup {"none"},
           NEW answer \in EpBackends \cup {"error"}, Recorded(c, outcome, charged, answer),
           charged # "none" => answer \in Answering(charged),
           outcome = "success" => answer \in Answering(ep[c].backend),
           outcome = "failure" => answer = "error"
    PROVE  EpInv'
<1> DEFINE o == ep[c]
<1> DEFINE x == [o EXCEPT !.at = "return", !.outcome = outcome, !.charged = charged, !.answer = answer]
<1>1. EpWell(o) /\ o.at = "call" /\ UNCHANGED <<tasks, streamSem, queueUsed>> /\ ep' = [ep EXCEPT ![c] = x]
  BY DEF EpInv, Recorded
<1>2. o \in EpType /\ InOrder(o) /\ Allowed(o) /\ "return" \in EpStations
  BY <1>1 DEF EpWell, EpStations
<1>3. x \in EpType
  BY <1>2 DEF EpType
<1>4. x.at = "return" /\ x.held = o.held /\ x.registered = o.registered /\ x.by = o.by /\ x.id = o.id /\ x.owner = o.owner
      /\ x.backend = o.backend /\ x.kind = o.kind /\ x.provider = o.provider
  BY <1>2 DEF EpType
<1>5. x.outcome = outcome /\ x.charged = charged /\ x.answer = answer
  BY <1>2 DEF EpType
<1> HIDE DEF x, o
<1>6. EpWell(x)
  BY <1>2, <1>3, <1>4, <1>5 DEF EpWell, Consistent, InOrder, Allowed, o
<1>7. Holding("stream")' = Holding("stream") /\ Holding("queue")' = Holding("queue")
  <2>1. x.held = ep[c].held
    BY <1>4 DEF o
  <2> QED BY <1>1, <2>1, HoldingSame
<1>8. streamSem' = Cardinality(Holding("stream")') /\ streamSem' \in 0 .. StreamCap
      /\ queueUsed' = Cardinality(Holding("queue")') /\ queueUsed' \in 0 .. QueueSlots
  BY <1>1, <1>7 DEF EpInv
<1> QED BY <1>1, <1>4, <1>6, <1>8, EpMoves DEF o

\* The answers of the endpoints.
LEMMA AnswerSteps ==
    ASSUME EpInv, NEW c \in EpCalls,
           MessagesAnswer(c) \/ EmbeddingAnswer(c) \/ DivertEmbedding(c) \/ ShardedAnswer(c)
    PROVE  EpInv'
<1>1. ep[c].at = "call" /\ EpWell(ep[c])
  BY DEF EpInv, MessagesAnswer, EmbeddingAnswer, DivertEmbedding, ShardedAnswer, Recorded
<1>2. ep[c].kind \in {"embed", "rerank"} => ep[c].backend \in EpBackends /\ ep[c].provider \in Answering(ep[c].backend)
  BY <1>1 DEF EpWell, Consistent
<1>3. ep[c].kind # "none" => ep[c].provider \in EpBackends
  BY <1>1 DEF EpWell, InOrder
<1>4. CASE MessagesAnswer(c)
  <2>1. ep[c].provider \in EpBackends
    BY <1>3, <1>4 DEF MessagesAnswer
  <2> QED BY <1>4, <2>1, RecordedStep DEF MessagesAnswer
<1>5. CASE EmbeddingAnswer(c)
  <2>1. ep[c].provider \in EpBackends
    BY <1>3, <1>5 DEF EmbeddingAnswer
  <2>2. ep[c].backend \in EpBackends /\ ep[c].provider \in Answering(ep[c].backend)
    BY <1>2, <1>5 DEF EmbeddingAnswer
  <2>3. CASE Recorded(c, "success", ep[c].backend, ep[c].provider)
    BY <2>1, <2>2, <2>3, RecordedStep
  <2>4. CASE Recorded(c, "failure", "none", "error")
    BY <2>4, RecordedStep
  <2> QED BY <1>5, <2>3, <2>4 DEF EmbeddingAnswer
<1>6. CASE DivertEmbedding(c)
  <2>1. "cloud" \in EpBackends /\ "cloud" \in Answering("cloud")
    BY DEF EpBackends, Answering
  <2>2. CASE Recorded(c, "none", "cloud", "cloud")
    BY <2>1, <2>2, RecordedStep
  <2>3. CASE Recorded(c, "failure", "none", "error")
    BY <2>3, RecordedStep
  <2> QED BY <1>6, <2>2, <2>3 DEF DivertEmbedding
<1>7. CASE ShardedAnswer(c)
  <2>1. "cluster" \in EpBackends
    BY DEF EpBackends
  <2> QED BY <1>7, <2>1, RecordedStep DEF ShardedAnswer
<1> QED BY <1>4, <1>5, <1>6, <1>7

\* The registry's cap.
LEMMA RegistryCapped ==
    ASSUME EpInv, NEW id \in TaskIds, NEW e, tasks' = [tasks EXCEPT ![id] = e], e = NoTask \/ RegistryTakes(id)
    PROVE  MaxEntries > 0 => Cardinality(LiveTasks') <= MaxEntries
<1> SUFFICES ASSUME MaxEntries > 0 PROVE Cardinality(LiveTasks') <= MaxEntries
  OBVIOUS
<1>1. tasks'[id] = e /\ \A j \in TaskIds : j # id => tasks'[j] = tasks[j]
  BY DEF EpInv
<1>2. IsFiniteSet(LiveTasks) /\ IsFiniteSet(LiveTasks')
  <2>1. LiveTasks \subseteq TaskIds /\ LiveTasks' \subseteq TaskIds
    BY DEF LiveTasks
  <2> QED BY <2>1, FS_Subset, EndpointsAssumption
<1>3. Cardinality(LiveTasks) <= MaxEntries /\ Cardinality(LiveTasks) \in Nat /\ Cardinality(LiveTasks') \in Nat /\ MaxEntries \in Nat
  BY <1>2, FS_CardinalityType, EndpointsAssumption DEF EpInv
<1>4. CASE LiveTasks' \subseteq LiveTasks
  <2>1. Cardinality(LiveTasks') <= Cardinality(LiveTasks)
    BY <1>2, <1>4, FS_Subset
  <2> QED BY <1>3, <2>1
<1>5. CASE ~ (LiveTasks' \subseteq LiveTasks)
  <2>1. tasks[id] = NoTask /\ e # NoTask
    BY <1>1, <1>5 DEF LiveTasks
  <2>2. Cardinality(LiveTasks) < MaxEntries
    BY <1>3, <2>1 DEF RegistryTakes
  <2>3. LiveTasks' = LiveTasks \cup {id} /\ id \notin LiveTasks
    BY <1>1, <2>1 DEF LiveTasks
  <2>4. Cardinality(LiveTasks') = Cardinality(LiveTasks) + 1
    BY <1>2, <2>3, FS_AddElement
  <2> QED BY <1>3, <2>2, <2>4
<1> QED BY <1>4, <1>5

\* Register takes the entry of whoever has the same id.
LEMMA RegisterStep == ASSUME EpInv, NEW c \in EpCalls, Register(c) PROVE EpInv'
<1> DEFINE o == ep[c]
<1> DEFINE a == IF o.stream THEN "stream" ELSE "call"
<1> DEFINE x == [o EXCEPT !.at = a, !.registered = TRUE]
<1> DEFINE e == [call |-> c, owner |-> o.owner]
<1>1. EpWell(o) /\ o.at = "register" /\ UNCHANGED <<streamSem, queueUsed>> /\ ep' = [ep EXCEPT ![c] = x]
      /\ tasks' = IF RegistryTakes(o.id) THEN [tasks EXCEPT ![o.id] = e] ELSE tasks
  BY DEF EpInv, Register
<1>2. o \in EpType /\ InOrder(o) /\ Allowed(o) /\ ~ o.registered /\ o.by = NoTask /\ o.id \in TaskIds /\ "stream" \notin o.held
      /\ o.kind = "messages" /\ o.charged = "none" /\ o.outcome = "none"
  BY <1>1 DEF EpWell, InOrder, Consistent
<1>3. a \in {"stream", "call"} /\ a \in EpStations
  BY DEF EpStations
<1> HIDE DEF a
<1>4. x.at = a /\ x.held = o.held /\ x.registered = TRUE /\ x.by = o.by /\ x.id = o.id /\ x.owner = o.owner
      /\ x.charged = o.charged /\ x.outcome = o.outcome /\ x.kind = o.kind /\ x.provider = o.provider
  BY <1>2 DEF EpType
<1>5. x \in EpType
  BY <1>2, <1>3 DEF EpType
<1> HIDE DEF x
<1>6. Consistent(x)
  BY <1>2, <1>3, <1>4 DEF Consistent
<1>7. InOrder(x)
  BY <1>2, <1>3, <1>4 DEF InOrder
<1>8. EpWell(x)
  BY <1>2, <1>4, <1>5, <1>6, <1>7 DEF EpWell, Allowed
<1>9. ep' = [d \in EpCalls |-> ep'[d]] /\ ep'[c] = x /\ \A d \in EpCalls : d # c => ep'[d] = ep[d]
  BY <1>1 DEF EpInv
<1>10. \A d \in EpCalls : EpWell(ep[d])'
  BY <1>8, <1>9 DEF EpInv, EpWell, EpType, Consistent, InOrder, Allowed
<1>11. streamSem' = Cardinality(Holding("stream")') /\ streamSem' \in 0 .. StreamCap
       /\ queueUsed' = Cardinality(Holding("queue")') /\ queueUsed' \in 0 .. QueueSlots
  <2>1. Holding("stream")' = Holding("stream") /\ Holding("queue")' = Holding("queue")
    <3>1. x.held = ep[c].held
      BY <1>4
    <3> QED BY <1>1, <3>1, HoldingSame
  <2> QED BY <1>1, <2>1 DEF EpInv
<1>12. \A i \in LiveTasks : EntryOf(i) /\ tasks[i].call # c
  BY <1>2 DEF EpInv, EntryOf
<1>13. tasks' = [i \in TaskIds |-> tasks'[i]]
  BY <1>1 DEF EpInv
<1>14. ASSUME NEW i \in LiveTasks' PROVE EntryOf(i)'
  <2>1. i \in TaskIds /\ tasks'[i] # NoTask
    BY <1>14 DEF LiveTasks
  <2>2. CASE tasks'[i] = tasks[i]
    <3>1. i \in LiveTasks
      BY <2>1, <2>2 DEF LiveTasks
    <3>2. EntryOf(i) /\ tasks[i].call # c
      BY <1>12, <3>1
    <3>3. ep'[tasks[i].call] = ep[tasks[i].call]
      BY <1>9, <3>2 DEF EntryOf
    <3> QED BY <2>2, <3>2, <3>3 DEF EntryOf
  <2>3. CASE tasks'[i] # tasks[i]
    <3>1. i = o.id /\ tasks'[i] = e
      BY <1>1, <1>2, <2>1, <2>3 DEF EpInv
    <3>2. tasks'[i].call = c /\ tasks'[i].owner = o.owner
      BY <3>1
    <3> QED BY <1>2, <1>4, <1>9, <3>1, <3>2 DEF EntryOf
  <2> QED BY <2>2, <2>3
<1>15. MaxEntries > 0 => Cardinality(LiveTasks') <= MaxEntries
  <2>1. CASE RegistryTakes(o.id)
    BY <1>1, <1>2, <2>1, RegistryCapped
  <2>2. CASE ~ RegistryTakes(o.id)
    <3>1. LiveTasks' = LiveTasks
      BY <1>1, <2>2 DEF LiveTasks
    <3> QED BY <3>1 DEF EpInv
  <2> QED BY <2>1, <2>2
<1> QED BY <1>9, <1>10, <1>11, <1>13, <1>14, <1>15 DEF EpInv

\* Entries that go, and requests that are cancelled with them.
LEMMA EntriesGo ==
    ASSUME EpInv, NEW old \in SUBSET LiveTasks, NEW y \in Keyed \cup {"master", "reaper"},
           tasks' = [i \in TaskIds |-> IF i \in old THEN NoTask ELSE tasks[i]],
           ep' = [c \in EpCalls |-> IF \E i \in old : tasks[i].call = c THEN [ep[c] EXCEPT !.by = y] ELSE ep[c]],
           y \in Keyed => \A i \in old : tasks[i].owner \in {NoOwner, y},
           UNCHANGED <<streamSem, queueUsed>>
    PROVE  EpInv'
<1>1. \A i \in LiveTasks : EntryOf(i)
  BY DEF EpInv
<1>2. \A c \in EpCalls : ep[c] \in EpType
  BY DEF EpInv, EpWell
<1>3. ASSUME NEW c \in EpCalls
      PROVE  EpWell(ep'[c]) /\ ep'[c].held = ep[c].held
  <2>1. CASE ~ \E i \in old : tasks[i].call = c
    BY <2>1 DEF EpInv
  <2>2. CASE \E i \in old : tasks[i].call = c
    <3> DEFINE o == ep[c]
    <3> DEFINE x == [o EXCEPT !.by = y]
    <3>1. PICK i \in old : tasks[i].call = c
      BY <2>2
    <3>2. o.registered /\ o.owner = tasks[i].owner
      BY <1>1, <3>1 DEF EntryOf
    <3>3. ep'[c] = x /\ o \in EpType /\ EpWell(o)
      BY <1>2, <2>2 DEF EpInv
    <3>4. x \in EpType
      BY <3>3 DEF EpType
    <3>5. x.at = o.at /\ x.held = o.held /\ x.registered = o.registered /\ x.by = y /\ x.id = o.id /\ x.owner = o.owner
          /\ x.charged = o.charged /\ x.outcome = o.outcome /\ x.kind = o.kind /\ x.provider = o.provider
      BY <3>3 DEF EpType
    <3>6. x.answer = o.answer /\ x.backend = o.backend
      BY <3>3 DEF EpType
    <3> HIDE DEF x, o
    <3>7. Consistent(x)
      BY <3>3, <3>5, <3>6 DEF EpWell, Consistent
    <3>8. InOrder(x)
      BY <3>2, <3>3, <3>5 DEF EpWell, InOrder
    <3>9. Allowed(x)
      BY <3>1, <3>2, <3>5 DEF Allowed
    <3> QED BY <3>3, <3>4, <3>5, <3>7, <3>8, <3>9 DEF EpWell, o
  <2> QED BY <2>1, <2>2
<1>4. Holding("stream")' = Holding("stream") /\ Holding("queue")' = Holding("queue")
  BY <1>3 DEF Holding
<1>5. streamSem' = Cardinality(Holding("stream")') /\ streamSem' \in 0 .. StreamCap
      /\ queueUsed' = Cardinality(Holding("queue")') /\ queueUsed' \in 0 .. QueueSlots
  BY <1>4 DEF EpInv
<1>6. LiveTasks' \subseteq LiveTasks /\ \A i \in LiveTasks' : i \notin old /\ tasks'[i] = tasks[i]
  BY DEF LiveTasks
<1>7. ASSUME NEW i \in LiveTasks' PROVE EntryOf(i)'
  <2>1. EntryOf(i) /\ i \notin old /\ tasks'[i] = tasks[i]
    BY <1>1, <1>6
  <2>2. tasks[i].call \in EpCalls /\ ~ \E j \in old : tasks[j].call = tasks[i].call
    BY <1>1, <2>1 DEF EntryOf
  <2>3. ep'[tasks[i].call] = ep[tasks[i].call]
    BY <2>2
  <2> QED BY <2>1, <2>3 DEF EntryOf
<1>8. MaxEntries > 0 => Cardinality(LiveTasks') <= MaxEntries
  <2>1. IsFiniteSet(LiveTasks)
    <3>1. LiveTasks \subseteq TaskIds
      BY DEF LiveTasks
    <3> QED BY <3>1, FS_Subset, EndpointsAssumption
  <2>2. Cardinality(LiveTasks') <= Cardinality(LiveTasks) /\ IsFiniteSet(LiveTasks')
    BY <1>6, <2>1, FS_Subset
  <2>3. Cardinality(LiveTasks') \in Nat /\ Cardinality(LiveTasks) \in Nat /\ MaxEntries \in Nat
    BY <2>1, <2>2, FS_CardinalityType, EndpointsAssumption
  <2> QED BY <2>2, <2>3 DEF EpInv
<1>9. \A c \in EpCalls : EpWell(ep[c])'
  BY <1>3 DEF EpWell, EpType, Consistent, InOrder, Allowed
<1> QED BY <1>5, <1>7, <1>8, <1>9 DEF EpInv

\* Cancel, by the master key, by a key or without one.
LEMMA CancelStep ==
    ASSUME EpInv, NEW id \in TaskIds, NEW who \in Keyed, NEW isMaster \in BOOLEAN, Cancel(id, who, isMaster)
    PROVE  EpInv'
<1> DEFINE y == IF isMaster THEN "master" ELSE who
<1> DEFINE d == tasks[id].call
<1>1. tasks[id] # NoTask /\ MayCancel(tasks[id], who, isMaster) /\ tasks' = [tasks EXCEPT ![id] = NoTask]
      /\ ep' = [ep EXCEPT ![d].by = y] /\ UNCHANGED <<streamSem, queueUsed>>
  BY DEF Cancel
<1>2. {id} \in SUBSET LiveTasks
  BY <1>1 DEF LiveTasks
<1>3. tasks' = [i \in TaskIds |-> IF i \in {id} THEN NoTask ELSE tasks[i]]
  BY <1>1 DEF EpInv
<1>4. ep' = [c \in EpCalls |-> IF \E i \in {id} : tasks[i].call = c THEN [ep[c] EXCEPT !.by = y] ELSE ep[c]]
  <2>1. ep' = [c \in EpCalls |-> IF c = d THEN [ep[c] EXCEPT !.by = y] ELSE ep[c]]
    BY <1>1 DEF EpInv
  <2>2. \A c \in EpCalls : (\E i \in {id} : tasks[i].call = c) <=> c = d
    OBVIOUS
  <2> QED BY <2>1, <2>2
<1>5. y \in Keyed \cup {"master", "reaper"}
  OBVIOUS
<1>6. y \in Keyed => \A i \in {id} : tasks[i].owner \in {NoOwner, y}
  BY <1>1, EndpointsAssumption DEF MayCancel, Keyed
<1> HIDE DEF y, d
<1> QED BY <1>1, <1>2, <1>3, <1>4, <1>5, <1>6, EntriesGo

\* The reaper.
LEMMA ReapStep == ASSUME EpInv, ReapExpired PROVE EpInv'
<1>1. PICK old \in (SUBSET LiveTasks) \ {{}} :
        /\ tasks' = [i \in TaskIds |-> IF i \in old THEN NoTask ELSE tasks[i]]
        /\ ep' = [c \in EpCalls |-> IF \E i \in old : tasks[i].call = c THEN [ep[c] EXCEPT !.by = "reaper"] ELSE ep[c]]
        /\ UNCHANGED <<streamSem, queueUsed, epOps>>
  BY DEF ReapExpired
<1>2. "reaper" \notin Keyed /\ "reaper" \in Keyed \cup {"master", "reaper"}
  BY EndpointsAssumption DEF Keyed
<1> QED BY <1>1, <1>2, EntriesGo

\* A request gives back what it holds, and releases its id whoever has it now.
LEMMA ReturnStep == ASSUME EpInv, NEW c \in EpCalls, EpReturn(c) PROVE EpInv'
<1> DEFINE o == ep[c]
<1> DEFINE x == [NoEp EXCEPT !.at = "done", !.backend = o.backend, !.outcome = o.outcome,
                             !.charged = o.charged, !.answer = o.answer]
<1>1. EpWell(o) /\ o.at = "return" /\ ep' = [ep EXCEPT ![c] = x]
      /\ streamSem' = streamSem - (IF "stream" \in o.held THEN 1 ELSE 0)
      /\ queueUsed' = queueUsed - (IF "queue" \in o.held THEN 1 ELSE 0)
      /\ tasks' = IF o.registered THEN [tasks EXCEPT ![o.id] = NoTask] ELSE tasks
  BY DEF EpInv, EpReturn
<1>2. o \in EpType /\ "done" \in EpStations /\ (o.registered => o.id \in TaskIds)
  BY <1>1 DEF EpWell, InOrder, EpStations
<1>3. x \in EpType
  <2>1. o.backend \in EpBackends \cup {"none"} /\ o.outcome \in {"none", "success", "failure"}
        /\ o.charged \in EpBackends \cup {"none"} /\ o.answer \in EpBackends \cup {"none", "error"}
    BY <1>2 DEF EpType
  <2>2. ASSUME NEW b \in EpBackends \cup {"none"}, NEW t \in {"none", "success", "failure"},
               NEW h \in EpBackends \cup {"none"}, NEW a \in EpBackends \cup {"none", "error"}
        PROVE  [NoEp EXCEPT !.at = "done", !.backend = b, !.outcome = t, !.charged = h, !.answer = a] \in EpType
    <3> DEFINE y == [NoEp EXCEPT !.at = "done", !.backend = b]
    <3> DEFINE z == [y EXCEPT !.outcome = t, !.charged = h]
    <3>1. y \in EpType
      <4>1. NoEp \in EpType /\ "done" \in EpStations
        BY <1>2, NewRequest
      <4> QED BY <4>1 DEF EpType
    <3> HIDE DEF y
    <3>2. z \in EpType
      BY <3>1 DEF EpType
    <3> HIDE DEF z
    <3>3. [z EXCEPT !.answer = a] \in EpType
      BY <3>2 DEF EpType
    <3>4. [z EXCEPT !.answer = a] = [NoEp EXCEPT !.at = "done", !.backend = b, !.outcome = t, !.charged = h, !.answer = a]
      BY DEF z, y, NoEp
    <3> QED BY <3>3, <3>4
  <2> QED BY <2>1, <2>2
<1>4. x.at = "done" /\ x.held = {} /\ x.registered = FALSE /\ x.by = NoTask /\ x.owner = NoOwner /\ x.kind = "none"
  BY NewRequest DEF NoEp
<1>5. x.backend = o.backend /\ x.outcome = o.outcome /\ x.charged = o.charged /\ x.answer = o.answer
  BY DEF NoEp
<1> HIDE DEF x
<1>6. Consistent(x)
  BY <1>1, <1>4, <1>5 DEF EpWell, Consistent
<1>7. InOrder(x) /\ Allowed(x)
  BY <1>4 DEF InOrder, Allowed
<1>8. ep' = [d \in EpCalls |-> ep'[d]] /\ ep'[c] = x /\ \A d \in EpCalls : d # c => ep'[d] = ep[d]
  BY <1>1 DEF EpInv
<1>9. \A d \in EpCalls : EpWell(ep[d])'
  BY <1>3, <1>6, <1>7, <1>8 DEF EpInv, EpWell, EpType, Consistent, InOrder, Allowed
<1>10. ASSUME NEW s, NEW n, NEW n2, NEW k, n = Cardinality(Holding(s)), n \in 0 .. k, k \in Nat,
              n2 = n - (IF s \in o.held THEN 1 ELSE 0)
       PROVE  n2 = Cardinality(Holding(s)') /\ n2 \in 0 .. k
  <2>1. Cardinality(Holding(s)) \in Nat /\ Cardinality(Holding(s)') \in Nat
    <3>1. IsFiniteSet(Holding(s)) /\ IsFiniteSet(Holding(s)')
      <4>1. Holding(s) \subseteq EpCalls /\ Holding(s)' \subseteq EpCalls
        BY DEF Holding
      <4> QED BY <4>1, FS_Subset, EndpointsAssumption
    <3> QED BY <3>1, FS_CardinalityType
  <2>2. CASE s \in o.held
    <3>1. Cardinality(Holding(s)') = Cardinality(Holding(s)) - 1
      BY <1>1, <1>4, <2>2, HoldingChanged
    <3>2. n2 = n - 1
      BY <1>10, <2>2
    <3> QED BY <1>10, <2>1, <3>1, <3>2
  <2>3. CASE s \notin o.held
    <3>1. Holding(s)' = Holding(s)
      BY <1>1, <1>4, <2>3, HoldingSame
    <3>2. n2 = n - 0
      BY <1>10, <2>3
    <3> QED BY <1>10, <2>1, <3>1, <3>2
  <2> QED BY <2>2, <2>3
<1>11. streamSem' = Cardinality(Holding("stream")') /\ streamSem' \in 0 .. StreamCap
  BY <1>1, <1>10, EndpointsAssumption DEF EpInv
<1>12. queueUsed' = Cardinality(Holding("queue")') /\ queueUsed' \in 0 .. QueueSlots
  BY <1>1, <1>10, EndpointsAssumption DEF EpInv
<1>13. tasks' = [i \in TaskIds |-> tasks'[i]] /\ \A i \in LiveTasks' : i \in LiveTasks /\ tasks'[i] = tasks[i]
  BY <1>1, <1>2 DEF EpInv, LiveTasks
<1>14. ASSUME NEW i \in LiveTasks' PROVE EntryOf(i)'
  <2>1. i \in LiveTasks /\ tasks'[i] = tasks[i] /\ EntryOf(i)
    BY <1>13 DEF EpInv
  <2>2. tasks[i].call # c
    <3> SUFFICES ASSUME tasks[i].call = c PROVE FALSE
      OBVIOUS
    <3>1. o.registered /\ o.id = i
      BY <2>1 DEF EntryOf
    <3>2. tasks'[i] = NoTask
      BY <1>1, <1>2, <3>1 DEF EpInv
    <3> QED BY <3>2 DEF LiveTasks
  <2>3. ep'[tasks[i].call] = ep[tasks[i].call]
    BY <1>8, <2>1, <2>2 DEF EntryOf
  <2> QED BY <2>1, <2>3 DEF EntryOf
<1>15. MaxEntries > 0 => Cardinality(LiveTasks') <= MaxEntries
  <2>1. CASE o.registered
    BY <1>1, <1>2, <2>1, RegistryCapped
  <2>2. CASE ~ o.registered
    <3>1. LiveTasks' = LiveTasks
      BY <1>1, <2>2 DEF LiveTasks
    <3> QED BY <3>1 DEF EpInv
  <2> QED BY <2>1, <2>2
<1> QED BY <1>8, <1>9, <1>11, <1>12, <1>13, <1>14, <1>15 DEF EpInv

\* Every step of a request, of a cancellation or of the reaper.
LEMMA EpInvStep == EpInv /\ [EpNext]_epVars => EpInv'
<1> SUFFICES ASSUME EpInv, [EpNext]_epVars PROVE EpInv'
  OBVIOUS
<1>1. CASE UNCHANGED epVars
  BY <1>1 DEF epVars, EpInv, EpWell, EpType, Consistent, InOrder, Allowed, Holding, LiveTasks, EntryOf
<1>2. CASE \E c \in EpCalls, i \in TaskIds, o \in Owners \cup {NoOwner}, b \in {"local", "cloud"}, s \in BOOLEAN :
             EpArrive(c, "messages", i, o, b, s)
  <2>1. "messages" \in Kinds /\ \A b \in {"local", "cloud"} : b \in Backends
    BY DEF Kinds, Backends
  <2> QED BY <1>2, <2>1, ArriveStep DEF Keyed
<1>3. CASE \E c \in EpCalls, k \in Kinds \ {"messages"}, b \in Backends : EpArrive(c, k, NoTask, NoOwner, b, FALSE)
  <2>1. NoOwner \in Keyed
    BY DEF Keyed
  <2> QED BY <1>3, <2>1, ArriveStep
<1>4. CASE \E c \in EpCalls : acquireLocalSlot(c) \/ Register(c) \/ acquireStreamSlot(c) \/ EpReturn(c)
  BY <1>4, QueueStep, RegisterStep, StreamStep, ReturnStep
<1>5. CASE \E c \in EpCalls : MessagesAnswer(c) \/ EmbeddingAnswer(c) \/ DivertEmbedding(c) \/ ShardedAnswer(c)
  BY <1>5, AnswerSteps
<1>6. CASE \E i \in TaskIds : Cancel(i, NoOwner, TRUE) \/ \E o \in Owners \cup {NoOwner} : Cancel(i, o, FALSE)
  <2>1. NoOwner \in Keyed
    BY DEF Keyed
  <2> QED BY <1>6, <2>1, CancelStep DEF Keyed
<1>7. CASE ReapExpired
  BY <1>7, ReapStep
<1> QED BY <1>1, <1>2, <1>3, <1>4, <1>5, <1>6, <1>7 DEF EpNext

\* Before the first request.
LEMMA EpInvInit == EpInit => EpInv
<1> SUFFICES ASSUME EpInit PROVE EpInv
  OBVIOUS
<1>1. ep = [c \in EpCalls |-> NoEp] /\ tasks = [i \in TaskIds |-> NoTask] /\ streamSem = 0 /\ queueUsed = 0
  BY DEF EpInit
<1>2. Holding("stream") = {} /\ Holding("queue") = {}
  BY <1>1, NewRequest DEF Holding
<1>3. LiveTasks = {}
  BY <1>1 DEF LiveTasks
<1>4. Cardinality({}) = 0
  BY FS_EmptySet
<1>5. 0 \in 0 .. StreamCap /\ 0 \in 0 .. QueueSlots /\ MaxEntries \in Nat
  BY EndpointsAssumption
<1>6. \A c \in EpCalls : EpWell(ep[c])
  BY <1>1, NewRequest
<1>7. MaxEntries > 0 => Cardinality(LiveTasks) <= MaxEntries
  BY <1>3, <1>4, <1>5
<1> QED BY <1>1, <1>2, <1>3, <1>4, <1>5, <1>6, <1>7 DEF EpInv

\* What the endpoints promise.
LEMMA EpInvSound == EpInv => EpTypeOK /\ SlotsReturned /\ RegistryLive /\ CancelledByOwner /\ OutcomeFitsAnswer
<1> SUFFICES ASSUME EpInv PROVE EpTypeOK /\ SlotsReturned /\ RegistryLive /\ CancelledByOwner /\ OutcomeFitsAnswer
  OBVIOUS
<1>1. \A c \in EpCalls : ep[c].held \subseteq {"queue", "stream"}
  BY DEF EpInv, EpWell, EpType
<1>2. EpTypeOK
  BY <1>1 DEF EpTypeOK, EpInv
<1>3. SlotsReturned
  BY DEF SlotsReturned, EpInv, Holding
<1>4. RegistryLive
  BY DEF RegistryLive, EpInv, EntryOf
<1>5. CancelledByOwner
  BY DEF CancelledByOwner, EpInv, EpWell, Allowed, Keyed
<1>6. OutcomeFitsAnswer
  BY DEF OutcomeFitsAnswer, EpInv, EpWell, Consistent
<1> QED BY <1>2, <1>3, <1>4, <1>5, <1>6

\* EndpointsSound, for any requests, ids, keys, caps, batches, shard sizes and
\* workers: every exit of an endpoint gives back its slots, the task registry
\* holds only requests that run, only the owner of one cancels it, what is
\* charged and credited answered, and a sharded batch has the vector of every
\* input or is an error.
THEOREM EndpointsAreSound == PartsSpec => []EndpointsSound
<1> DEFINE Inv == EpInv /\ ShInv
<1>1. PartsInit => Inv
  <2>1. ShardInit => ShInv
    BY DEF ShardInit, ShInv, ShardsComplete
  <2> QED BY <2>1, EpInvInit DEF PartsInit
<1> DEFINE v == <<focus, gateVars, limVars, tqVars, cacheVars, semVars, sinkVars, storeVars, processVars, reloadVars,
                  mfVars, storeFileVars, policyVars, epVars, shardVars>>
<1>2. Inv /\ [PartsNext]_v => Inv'
  <2> SUFFICES ASSUME Inv, [PartsNext]_v PROVE Inv'
    OBVIOUS
  <2>1. PartsNext => (EpNext \/ UNCHANGED epVars) /\ (ShardNext \/ UNCHANGED shardVars)
    BY DEF PartsNext
  <2>2. [EpNext]_epVars /\ [ShardNext]_shardVars
    BY <2>1
  <2> QED BY <2>2, EpInvStep, ShInvStep
<1>3. Inv => EndpointsSound
  BY EpInvSound DEF EndpointsSound, ShInv
<1> QED BY <1>1, <1>2, <1>3, PTL DEF PartsSpec

-----------------------------------------------------------------------------
(* The model policies                                                        *)

PolicyAt == {"idle", "save", "prefer", "gate", "chat", "encode"}
MaybeModel == PolicyModels \cup {NoModel}
Prefs == [Tenants -> [PolicyUsers -> MaybeModel]]
PolicyCall(q) ==
  /\ q = [at |-> q.at, t |-> q.t, u |-> q.u, m |-> q.m, maps |-> q.maps]
  /\ q.at \in PolicyAt /\ (q.at = "prefer" => q.t \in Tenants /\ q.u \in PolicyUsers /\ q.m \in PolicyModels)

PolicySaving == \E c \in PolicyCalls : pc[c].at \in {"save", "encode"}

\* The file as it may be once no save is to come.
FileUpToDate ==
  polFile.pol = pol /\ \A t \in Tenants, u \in PolicyUsers : polFile.pref[t][u] \in {pref[t][u], NoModel}

PlInv ==
  /\ pol \in [Tenants -> Policy] /\ pref \in Prefs
  /\ polFile.pol \in [Tenants -> Policy] /\ polFile.pref \in Prefs
  /\ pc = [c \in PolicyCalls |-> pc[c]] /\ \A c \in PolicyCalls : PolicyCall(pc[c])
  /\ PolicySaving \/ FileUpToDate

\* A request with only its place set.
LEMMA FreshCall ==
    ASSUME NEW a \in PolicyAt, a # "prefer", NEW q, q = [NoPolicyCall EXCEPT !.at = a]
    PROVE  PolicyCall(q) /\ q.at = a
BY DEF PolicyCall, NoPolicyCall

\* A request that does nothing.
LEMMA NoCallIdle == PolicyCall(NoPolicyCall) /\ NoPolicyCall.at = "idle"
BY DEF PolicyCall, NoPolicyCall, PolicyAt

CallFor(a, t, u, m) == [NoPolicyCall EXCEPT !.at = a, !.t = t, !.u = u, !.m = m]

\* A request with its fields set.
LEMMA SpelledCall ==
    ASSUME NEW a, NEW t, NEW u, NEW m
    PROVE  CallFor(a, t, u, m) = [at |-> a, t |-> t, u |-> u, m |-> m, maps |-> {}]
<1> DEFINE r1 == [NoPolicyCall EXCEPT !.at = a]
           r2 == [r1 EXCEPT !.t = t]
           r3 == [r2 EXCEPT !.u = u]
           r4 == [r3 EXCEPT !.m = m]
<1>1. r1 = [at |-> a, t |-> NoModel, u |-> NoModel, m |-> NoModel, maps |-> {}]
  BY DEF NoPolicyCall
<1> HIDE DEF r1
<1>2. r2 = [at |-> a, t |-> t, u |-> NoModel, m |-> NoModel, maps |-> {}]
  BY <1>1
<1> HIDE DEF r2
<1>3. r3 = [at |-> a, t |-> t, u |-> u, m |-> NoModel, maps |-> {}]
  BY <1>2
<1> HIDE DEF r3
<1>4. r4 = [at |-> a, t |-> t, u |-> u, m |-> m, maps |-> {}]
  BY <1>3
<1>5. r4 = CallFor(a, t, u, m)
  BY DEF r1, r2, r3, CallFor
<1> QED BY <1>4, <1>5

\* One request moves.
LEMMA PolicyMoves ==
    ASSUME PlInv, NEW c \in PolicyCalls, NEW q, PolicyCall(q), pc' = [pc EXCEPT ![c] = q]
    PROVE  /\ pc' = [d \in PolicyCalls |-> pc'[d]] /\ pc'[c] = q /\ \A d \in PolicyCalls : PolicyCall(pc'[d])
           /\ \A d \in PolicyCalls : d # c => pc'[d] = pc[d]
<1>1. pc' = [d \in PolicyCalls |-> pc'[d]] /\ pc'[c] = q /\ \A d \in PolicyCalls : d # c => pc'[d] = pc[d]
  BY DEF PlInv
<1>2. \A d \in PolicyCalls : PolicyCall(pc[d])
  BY DEF PlInv
<1> QED BY <1>1, <1>2

\* A request ends in a save of its own.
LEMMA SaveFollows ==
    ASSUME PlInv, pol' \in [Tenants -> Policy], pref' \in Prefs, UNCHANGED polFile,
           pc' = [d \in PolicyCalls |-> pc'[d]], \A d \in PolicyCalls : PolicyCall(pc'[d]),
           \E c \in PolicyCalls : pc'[c].at \in {"save", "encode"}
    PROVE  PlInv'
BY DEF PlInv, PolicySaving

\* A request moves and no save ends.
LEMMA PolicyQuiet ==
    ASSUME PlInv, UNCHANGED <<pol, pref, polFile>>, NEW c \in PolicyCalls, NEW q, PolicyCall(q), pc' = [pc EXCEPT ![c] = q],
           pc[c].at \in {"save", "encode"} => q.at \in {"save", "encode"}
    PROVE  PlInv'
<1>1. /\ pc' = [d \in PolicyCalls |-> pc'[d]] /\ pc'[c] = q /\ \A d \in PolicyCalls : PolicyCall(pc'[d])
      /\ \A d \in PolicyCalls : d # c => pc'[d] = pc[d]
  BY PolicyMoves
<1>2. CASE PolicySaving
  <2>1. PolicySaving'
    BY <1>1, <1>2 DEF PolicySaving
  <2> QED BY <1>1, <2>1 DEF PlInv
<1>3. CASE FileUpToDate
  <2>1. FileUpToDate'
    BY <1>3 DEF FileUpToDate
  <2> QED BY <1>1, <2>1 DEF PlInv
<1> QED BY <1>2, <1>3 DEF PlInv

\* Every step keeps the invariant.
LEMMA PlInvStep == ASSUME PlInv, [PolicyNext]_policyVars PROVE PlInv'
<1>0. /\ pol \in [Tenants -> Policy] /\ pref \in Prefs
      /\ polFile.pol \in [Tenants -> Policy] /\ polFile.pref \in Prefs
      /\ \A c \in PolicyCalls : PolicyCall(pc[c])
  BY DEF PlInv
<1>1. CASE UNCHANGED policyVars
  BY <1>1 DEF policyVars, PlInv, PolicySaving, FileUpToDate
<1>2. ASSUME NEW c \in PolicyCalls, NEW t \in Tenants, NEW p \in Policies, SetPolicy(c, t, p) PROVE PlInv'
  <2> DEFINE q == [NoPolicyCall EXCEPT !.at = "save"]
  <2>1. pc' = [pc EXCEPT ![c] = q] /\ pol' = [pol EXCEPT ![t] = p] /\ UNCHANGED <<pref, polFile>>
    BY <1>2 DEF SetPolicy, PolicyStart
  <2>2. PolicyCall(q) /\ q.at = "save"
    BY FreshCall DEF PolicyAt
  <2> HIDE DEF q
  <2>3. pc' = [d \in PolicyCalls |-> pc'[d]] /\ (\A d \in PolicyCalls : PolicyCall(pc'[d])) /\ pc'[c] = q
    BY <2>1, <2>2, PolicyMoves
  <2>4. pol' \in [Tenants -> Policy]
    <3>1. p \in Policy
      BY PolicyAssumption
    <3> HIDE DEF Policy
    <3> QED BY <1>0, <2>1, <3>1
  <2> QED BY <1>0, <2>1, <2>2, <2>3, <2>4, SaveFollows
<1>3. ASSUME NEW c \in PolicyCalls, NEW t \in Tenants, NEW u \in PolicyUsers, NEW m \in PolicyModels, SetUserPreference(c, t, u, m)
      PROVE  PlInv'
  <2> DEFINE q == [NoPolicyCall EXCEPT !.at = "prefer", !.t = t, !.u = u, !.m = m]
  <2>1. pc' = [pc EXCEPT ![c] = q] /\ pc[c] = NoPolicyCall /\ UNCHANGED <<pol, pref, polFile>>
    BY <1>3 DEF SetUserPreference, PolicyStart
  <2>2. PolicyCall(q)
    <3>0. q = CallFor("prefer", t, u, m)
      BY DEF CallFor
    <3> HIDE DEF q
    <3>1. q = [at |-> "prefer", t |-> t, u |-> u, m |-> m, maps |-> {}]
      BY <3>0, SpelledCall
    <3> QED BY <3>1 DEF PolicyCall, PolicyAt
  <2> HIDE DEF q
  <2> QED BY <2>1, <2>2, NoCallIdle, PolicyQuiet
<1>4. ASSUME NEW c \in PolicyCalls, NEW t \in Tenants, NEW u \in PolicyUsers, DeleteUserPreference(c, t, u) PROVE PlInv'
  <2> DEFINE q == [NoPolicyCall EXCEPT !.at = "save"]
             new(d) == IF d = c THEN q ELSE [pc[d] EXCEPT !.maps = @ \ {<<t, u>>}]
  <2>1. pref' = [pref EXCEPT ![t][u] = NoModel] /\ pc' = [d \in PolicyCalls |-> new(d)] /\ UNCHANGED <<pol, polFile>>
    BY <1>4 DEF DeleteUserPreference
  <2>2. PolicyCall(q) /\ q.at = "save"
    BY FreshCall DEF PolicyAt
  <2>3. \A d \in PolicyCalls : PolicyCall(new(d))
    <3> TAKE d \in PolicyCalls
    <3>1. CASE d # c
      <4> DEFINE o == pc[d]
                 x == [o EXCEPT !.maps = o.maps \ {<<t, u>>}]
      <4>1. PolicyCall(o)
        BY <1>0
      <4>2. new(d) = x
        BY <3>1
      <4> HIDE DEF o, q
      <4>3. PolicyCall(x)
        BY <4>1 DEF PolicyCall
      <4> QED BY <4>2, <4>3
    <3>2. CASE d = c
      <4> HIDE DEF q
      <4> QED BY <2>2, <3>2
    <3> QED BY <3>1, <3>2
  <2>4. new(c) = q
    OBVIOUS
  <2> HIDE DEF new
  <2>5. pc' = [d \in PolicyCalls |-> pc'[d]] /\ (\A d \in PolicyCalls : PolicyCall(pc'[d])) /\ pc'[c] = q
    BY <2>1, <2>3, <2>4
  <2>6. pref' \in Prefs
    <3> DEFINE x == [pref[t] EXCEPT ![u] = NoModel]
    <3>1. x \in [PolicyUsers -> MaybeModel]
      BY <1>0 DEF Prefs, MaybeModel
    <3>2. pref' = [pref EXCEPT ![t] = x]
      BY <2>1
    <3> HIDE DEF x
    <3> QED BY <1>0, <3>1, <3>2 DEF Prefs
  <2> QED BY <1>0, <2>1, <2>2, <2>5, <2>6, SaveFollows
<1>5. ASSUME NEW c \in PolicyCalls, NEW t, NEW u, NEW m, Backfill(c, t, u, m) PROVE PlInv'
  <2>1. PICK z : PolicyStart(c, [NoPolicyCall EXCEPT !.at = "gate", !.t = t, !.u = u, !.m = z])
    BY <1>5 DEF Backfill
  <2> DEFINE q == [NoPolicyCall EXCEPT !.at = "gate", !.t = t, !.u = u, !.m = z]
  <2>2. pc' = [pc EXCEPT ![c] = q] /\ pc[c] = NoPolicyCall /\ UNCHANGED <<pol, pref, polFile>>
    BY <1>5, <2>1 DEF Backfill, PolicyStart
  <2>3. PolicyCall(q)
    <3>0. q = CallFor("gate", t, u, z)
      BY DEF CallFor
    <3> HIDE DEF q
    <3>1. q = [at |-> "gate", t |-> t, u |-> u, m |-> z, maps |-> {}]
      BY <3>0, SpelledCall
    <3> QED BY <3>1 DEF PolicyCall, PolicyAt
  <2> HIDE DEF q
  <2> QED BY <2>2, <2>3, NoCallIdle, PolicyQuiet
<1>6. ASSUME NEW c \in PolicyCalls, StorePreference(c) PROVE PlInv'
  <2> DEFINE q == [NoPolicyCall EXCEPT !.at = "save"]
             r == pc[c]
  <2>1. pref' = [pref EXCEPT ![r.t][r.u] = r.m] /\ pc' = [pc EXCEPT ![c] = q] /\ UNCHANGED <<pol, polFile>> /\ r.at = "prefer"
    BY <1>6 DEF StorePreference
  <2>2. PolicyCall(q) /\ q.at = "save"
    BY FreshCall DEF PolicyAt
  <2>3. r.t \in Tenants /\ r.u \in PolicyUsers /\ r.m \in MaybeModel
    BY <1>0, <2>1 DEF PolicyCall, MaybeModel
  <2> HIDE DEF q, r
  <2>4. pc' = [d \in PolicyCalls |-> pc'[d]] /\ (\A d \in PolicyCalls : PolicyCall(pc'[d])) /\ pc'[c] = q
    BY <2>1, <2>2, PolicyMoves
  <2>5. pref' \in Prefs
    <3> DEFINE x == [pref[r.t] EXCEPT ![r.u] = r.m]
    <3>1. x \in [PolicyUsers -> MaybeModel]
      BY <1>0, <2>3 DEF Prefs
    <3>2. pref' = [pref EXCEPT ![r.t] = x]
      BY <2>1
    <3> HIDE DEF x
    <3> QED BY <1>0, <2>3, <3>1, <3>2 DEF Prefs
  <2> QED BY <1>0, <2>1, <2>2, <2>4, <2>5, SaveFollows
<1>7. ASSUME NEW c \in PolicyCalls, PolicyGate(c) \/ ChatEnds(c) PROVE PlInv'
  <2>1. PICK q : pc' = [pc EXCEPT ![c] = q] /\ (q = NoPolicyCall \/ q = [pc[c] EXCEPT !.at = "chat"]) /\ pc[c].at \in {"gate", "chat"}
                 /\ UNCHANGED <<pol, pref, polFile>>
    BY <1>7 DEF PolicyGate, ChatEnds
  <2>2. PolicyCall(q)
    <3> DEFINE o == pc[c]
    <3>1. PolicyCall(o) /\ (q = NoPolicyCall \/ q = [o EXCEPT !.at = "chat"])
      BY <1>0, <2>1
    <3> HIDE DEF o
    <3>2. CASE q = [o EXCEPT !.at = "chat"]
      BY <3>1, <3>2 DEF PolicyCall, PolicyAt
    <3> QED BY <3>1, <3>2, NoCallIdle
  <2> QED BY <2>1, <2>2, PolicyQuiet
<1>8. ASSUME NEW c \in PolicyCalls, CollectMaps(c) PROVE PlInv'
  <2> DEFINE o == pc[c]
             maps == {x \in Tenants \X PolicyUsers : pref[x[1]][x[2]] # NoModel}
             q == [at |-> "encode", t |-> o.t, u |-> o.u, m |-> o.m, maps |-> maps]
  <2>1. pc' = [pc EXCEPT ![c] = [[pc[c] EXCEPT !.at = "encode"] EXCEPT !.maps = maps]] /\ UNCHANGED <<pol, pref, polFile>>
    BY <1>8 DEF CollectMaps
  <2>2. PolicyCall(o)
    BY <1>0
  <2> HIDE DEF maps
  <2>3. [[o EXCEPT !.at = "encode"] EXCEPT !.maps = maps] = q
    <3> HIDE DEF o
    <3>1. o = [at |-> o.at, t |-> o.t, u |-> o.u, m |-> o.m, maps |-> o.maps]
      BY <2>2 DEF PolicyCall
    <3> DEFINE x == [o EXCEPT !.at = "encode"]
    <3>2. x = [at |-> "encode", t |-> o.t, u |-> o.u, m |-> o.m, maps |-> o.maps]
      BY <3>1
    <3> HIDE DEF x
    <3>3. [x EXCEPT !.maps = maps] = q
      BY <3>2
    <3> QED BY <3>3 DEF x
  <2>4. PolicyCall(q) /\ q.at = "encode"
    BY DEF PolicyCall, PolicyAt
  <2>5. pc' = [pc EXCEPT ![c] = q]
    BY <2>1, <2>3
  <2> HIDE DEF q
  <2> QED BY <2>1, <2>4, <2>5, PolicyQuiet
<1>9. ASSUME NEW c \in PolicyCalls, EncodeMaps(c) PROVE PlInv'
  <2> DEFINE f == [t \in Tenants |-> [u \in PolicyUsers |-> IF <<t, u>> \in pc[c].maps THEN pref[t][u] ELSE NoModel]]
  <2>1. polFile' = [pol |-> pol, pref |-> f] /\ pc' = [pc EXCEPT ![c] = NoPolicyCall] /\ UNCHANGED <<pol, pref>>
    BY <1>9 DEF EncodeMaps
  <2>2. pc' = [d \in PolicyCalls |-> pc'[d]] /\ \A d \in PolicyCalls : PolicyCall(pc'[d])
    BY <2>1, NoCallIdle, PolicyMoves
  <2>3. f \in Prefs /\ \A t \in Tenants, u \in PolicyUsers : f[t][u] \in {pref[t][u], NoModel}
    BY <1>0 DEF Prefs, MaybeModel
  <2> HIDE DEF f
  <2>4. FileUpToDate'
    BY <2>1, <2>3 DEF FileUpToDate
  <2> QED BY <1>0, <2>1, <2>2, <2>3, <2>4 DEF PlInv
<1>10. CASE PolicyLoad
  <2>1. pol' = polFile.pol /\ pref' = polFile.pref /\ pc' = [c \in PolicyCalls |-> NoPolicyCall] /\ polFile' = polFile
    BY <1>10 DEF PolicyLoad
  <2>2. FileUpToDate'
    BY <2>1 DEF FileUpToDate
  <2>3. pc' = [c \in PolicyCalls |-> pc'[c]] /\ \A c \in PolicyCalls : PolicyCall(pc'[c])
    BY <2>1, NoCallIdle
  <2> QED BY <1>0, <2>1, <2>2, <2>3 DEF PlInv
<1> QED BY <1>1, <1>2, <1>3, <1>4, <1>5, <1>6, <1>7, <1>8, <1>9, <1>10 DEF PolicyNext

\* Nothing is set at the start, and the file says so.
LEMMA PlInvInit == ASSUME PolicyInit PROVE PlInv
<1>1. ZeroPolicy \in Policy
  BY Zenon DEF ZeroPolicy, Policy
<1>2. pol \in [Tenants -> Policy] /\ pref \in Prefs /\ polFile.pol = pol /\ polFile.pref = pref
  <2> HIDE DEF Policy, ZeroPolicy
  <2> QED BY <1>1 DEF PolicyInit, Prefs, MaybeModel
<1>3. pc = [c \in PolicyCalls |-> pc[c]] /\ \A c \in PolicyCalls : PolicyCall(pc[c])
  BY NoCallIdle DEF PolicyInit
<1> QED BY <1>2, <1>3 DEF PlInv, FileUpToDate

\* Resolution takes the first permitted link.
LEMMA ResolveFirst ==
    ASSUME NEW t, NEW u, NEW module, NEW d, d = Resolve(t, u, module)
    PROVE  d = [model |-> NoModel, source |-> 0]
           \/ \E i \in 1 .. 4 : Permitted(t, PolicyChain(t, u, module)[i]) /\ d = [model |-> PolicyChain(t, u, module)[i], source |-> i]
<1> DEFINE chain == PolicyChain(t, u, module)
           links == {i \in 1 .. 4 : Permitted(t, chain[i])}
           first == CHOOSE i \in links : \A j \in links : i <= j
<1>1. CASE links = {}
  BY <1>1 DEF Resolve
<1>2. CASE links # {}
  <2>1. links \in SUBSET Nat
    OBVIOUS
  <2>2. \E i \in links : \A j \in links : i <= j
    BY <1>2, <2>1, LeastNumber
  <2>3. first \in links
    BY <2>2
  <2>4. d = [model |-> chain[first], source |-> first]
    BY <1>2 DEF Resolve
  <2> HIDE DEF first
  <2> QED BY <2>3, <2>4
<1> QED BY <1>1, <1>2

\* The invariant and the definitions of resolution say what the plane promises.
LEMMA PlInvSound == ASSUME PlInv PROVE PolicyTypeOK /\ ResolutionSound /\ PickerMatchesGate /\ PolicyDurable
<1>1. PolicyTypeOK
  BY DEF PlInv, PolicyTypeOK, Prefs, MaybeModel
<1>2. PickerMatchesGate
  BY DEF PickerMatchesGate, handleShellModelPolicy, modelPolicyAllowsModel
<1>3. PolicyDurable
  BY DEF PlInv, PolicySaving, FileUpToDate, PolicyDurable
<1>4. ResolutionSound
  <2> SUFFICES ASSUME NEW t \in Tenants, NEW u \in PolicyUsers, NEW module \in BOOLEAN, NEW d, d = Resolve(t, u, module)
               PROVE  /\ d.source = 2 /\ pol[t].allow # {} => d.model \in pol[t].allow
                      /\ pol[t].localOnly => d.model \in LocalModels \cup {NoModel}
    BY DEF ResolutionSound
  <2>1. CASE d = [model |-> NoModel, source |-> 0]
    BY <2>1
  <2>2. ASSUME NEW i \in 1 .. 4, Permitted(t, PolicyChain(t, u, module)[i]), d = [model |-> PolicyChain(t, u, module)[i], source |-> i]
        PROVE  /\ d.source = 2 /\ pol[t].allow # {} => d.model \in pol[t].allow
               /\ pol[t].localOnly => d.model \in LocalModels \cup {NoModel}
    <3>1. pol[t].localOnly => d.model \in LocalModels
      BY <2>2 DEF Permitted
    <3>2. CASE i = 2
      <4>1. PolicyChain(t, u, module)[2] = IF module /\ PrefOK(t, u) THEN pref[t][u] ELSE NoModel
        BY DEF PolicyChain
      <4>2. d.model = pref[t][u] /\ PrefOK(t, u)
        BY <2>2, <3>2, <4>1 DEF Permitted
      <4> QED BY <3>1, <4>2 DEF PrefOK
    <3> QED BY <2>2, <3>1, <3>2
  <2> QED BY <2>1, <2>2, ResolveFirst
<1> QED BY <1>1, <1>2, <1>3, <1>4

-----------------------------------------------------------------------------
(* The stores of the web shell                                               *)

ShSpecials == {ShNoFile, Cleared, Torn}
ShUserOps == {"create", "disable", "enable", "roles", "delete", "reset", "password"}
ShSurfaceOps == {"roleCreate", "roleDelete", "menus", "vault", "connectors", "overrides", "audit"}
ShBusyAt == {"open", "fill", "rename"}

\* A chain of rows: each row follows the one before it, and names it.
Chain(rows) ==
  /\ rows \in AuditRows
  /\ \A i \in 1 .. Len(rows) : rows[i].prev = rows[i].seq - 1
  /\ \A i \in 2 .. Len(rows) : rows[i].seq = rows[i - 1].seq + 1

HasAdmin(a) == \E u \in ShUsers : a[u] # NoAccount /\ ~a[u].disabled /\ "admin" \in a[u].roles

\* What a store may hold, in memory, in a snapshot and in a file that parses.
Content(s, v) ==
  /\ s = "users" => v \in Accounts
  /\ s = "audit" => Chain(v)
  /\ s = "roles" => v \subseteq ShRoles
  /\ s \in StoreNames \ {"users", "audit"} => v \subseteq Names
ShHolds(s, v) == Content(s, v) /\ (~raced /\ s = "users" => HasAdmin(v))
ShFile(s, v) == v \in ShSpecials \/ ShHolds(s, v)

\* The check of a handler: the change leaves an administrator among those it saw.
Spares(q) ==
  (q.op \in {"disable", "delete"} \/ (q.op = "roles" /\ "admin" \notin q.arg)) => (q.u \notin q.seen \/ Cardinality(q.seen) > 1)

ShCall(q) ==
  /\ q = [at |-> q.at, op |-> q.op, u |-> q.u, arg |-> q.arg, seen |-> q.seen, store |-> q.store, snap |-> q.snap, fd |-> q.fd]
  /\ q.at \in {"idle", "apply", "snapshot"} \cup ShBusyAt
  /\ q.at = "apply" => \/ q.u \in ShUsers /\ q.op \in ShUserOps /\ q.arg \subseteq Builtins \cup ShRoles /\ Spares(q)
                       \/ /\ q.u = NoAccount /\ q.op \in ShSurfaceOps /\ q.arg \subseteq Names
                          /\ q.op \in {"roleCreate", "roleDelete"} => q.arg \subseteq ShRoles
  /\ q.at \in {"snapshot"} \cup ShBusyAt => q.store \in StoreNames
  /\ q.at \in ShBusyAt => ShHolds(q.store, q.snap)

Busy(c, s) == sh[c].store = s /\ sh[c].at \in ShBusyAt
Waiting(s) == \E c \in ShCalls : sh[c].store = s /\ sh[c].at = "snapshot"

\* A store whose saves do not overlap: one writer at a time, and its file is
\* complete and, once nobody writes, the newest.
StoreApart(s) ==
  /\ Content(s, disk[s])
  /\ \A c, d \in ShCalls : Busy(c, s) /\ Busy(d, s) => c = d
  /\ \A c \in ShCalls : Busy(c, s) =>
        /\ sh[c].at = "fill" => sh[c].fd = "tmp" /\ tmp[s] = Cleared
        /\ sh[c].at = "rename" => tmp[s] = sh[c].snap
        /\ sh[c].snap = mem[s] \/ Waiting(s)
  /\ (\E c \in ShCalls : Saving(c, s)) \/ disk[s] = mem[s]

AdInv ==
  /\ mem = [s \in StoreNames |-> mem[s]] /\ disk = [s \in StoreNames |-> disk[s]] /\ tmp = [s \in StoreNames |-> tmp[s]]
  /\ \A s \in StoreNames : ShHolds(s, mem[s]) /\ ShFile(s, disk[s]) /\ ShFile(s, tmp[s])
  /\ sh = [c \in ShCalls |-> sh[c]] /\ \A c \in ShCalls : ShCall(sh[c])
  /\ raced \in BOOLEAN /\ overlaps \subseteq StoreNames
  /\ \A s \in StoreNames \ overlaps : StoreApart(s)

\* What has raced stays so: the stores keep what they hold.
LEMMA HoldsStay ==
    ASSUME raced => raced', NEW s, NEW v
    PROVE  (ShHolds(s, v) => ShHolds(s, v)') /\ (ShFile(s, v) => ShFile(s, v)')
<1>1. ShHolds(s, v) => ShHolds(s, v)'
  BY DEF ShHolds, Content, Chain, HasAdmin
<1> QED BY <1>1 DEF ShFile, ShSpecials

\* Contents are no marks of a file.
LEMMA ContentParses == ASSUME NEW s \in StoreNames, NEW v, Content(s, v) PROVE v \notin ShSpecials
<1>1. CASE s = "users"
  BY <1>1, ShellAssumption DEF Content, ShSpecials
<1>2. CASE s = "audit"
  BY <1>2, ShellAssumption DEF Content, Chain, ShSpecials
<1>3. CASE s \in StoreNames \ {"users", "audit"}
  BY <1>3, ShellAssumption DEF Content, ShSpecials
<1> QED BY <1>1, <1>2, <1>3

\* A store nobody touches stays apart.
LEMMA Elsewhere ==
    ASSUME NEW s, StoreApart(s), mem'[s] = mem[s], disk'[s] = disk[s], tmp'[s] = tmp[s],
           \A d \in ShCalls : sh'[d] = sh[d] \/ (~Saving(d, s) /\ ~Saving(d, s)')
    PROVE  StoreApart(s)'
<1>1. \A d \in ShCalls : (Busy(d, s) <=> Busy(d, s)') /\ (Saving(d, s) <=> Saving(d, s)')
  BY DEF Busy, Saving, ShBusyAt
<1>2. Waiting(s) => Waiting(s)'
  BY DEF Waiting, Saving
<1>3. \A d \in ShCalls : Busy(d, s)' => sh'[d] = sh[d]
  BY DEF Busy, Saving, ShBusyAt
<1>4. Content(s, disk[s])'
  BY DEF StoreApart, Content, Chain
<1>5. \A c, d \in ShCalls : Busy(c, s)' /\ Busy(d, s)' => c = d
  BY <1>1 DEF StoreApart
<1>6. \A c \in ShCalls : Busy(c, s)' =>
        /\ sh'[c].at = "fill" => sh'[c].fd = "tmp" /\ tmp'[s] = Cleared
        /\ sh'[c].at = "rename" => tmp'[s] = sh'[c].snap
        /\ sh'[c].snap = mem'[s] \/ Waiting(s)'
  BY <1>1, <1>2, <1>3 DEF StoreApart
<1>7. (\E c \in ShCalls : Saving(c, s)') \/ disk'[s] = mem'[s]
  BY <1>1 DEF StoreApart
<1> QED BY <1>4, <1>5, <1>6, <1>7 DEF StoreApart

\* One request moves.
LEMMA ShMoves ==
    ASSUME AdInv, NEW c \in ShCalls, NEW q, sh' = [sh EXCEPT ![c] = q], ShCall(q)', raced => raced'
    PROVE  /\ sh' = [d \in ShCalls |-> sh'[d]] /\ sh'[c] = q /\ \A d \in ShCalls : d # c => sh'[d] = sh[d]
           /\ \A d \in ShCalls : ShCall(sh[d])'
<1>1. sh' = [d \in ShCalls |-> sh'[d]] /\ sh'[c] = q /\ \A d \in ShCalls : d # c => sh'[d] = sh[d]
  BY DEF AdInv
<1>2. \A d \in ShCalls : ShCall(sh[d]) => (d # c => ShCall(sh[d])')
  BY <1>1, HoldsStay DEF ShCall, Spares
<1> QED BY <1>1, <1>2 DEF AdInv

\* A request moves that saves nothing before or after.
LEMMA Aside ==
    ASSUME AdInv, NEW c \in ShCalls, NEW q, sh' = [sh EXCEPT ![c] = q], ShCall(q)',
           sh[c].at \in {"idle", "apply"}, q.at \in {"idle", "apply"}, UNCHANGED <<mem, disk, tmp, overlaps>>,
           raced => raced', raced' \in BOOLEAN
    PROVE  AdInv'
<1>1. /\ sh' = [d \in ShCalls |-> sh'[d]] /\ sh'[c] = q /\ \A d \in ShCalls : d # c => sh'[d] = sh[d]
      /\ \A d \in ShCalls : ShCall(sh[d])'
  BY ShMoves
<1>2. \A s \in StoreNames : ShHolds(s, mem[s])' /\ ShFile(s, disk[s])' /\ ShFile(s, tmp[s])'
  BY HoldsStay DEF AdInv
<1>3. \A s : ~Saving(c, s) /\ ~Saving(c, s)'
  BY <1>1 DEF Saving
<1>4. \A s \in StoreNames \ overlaps : StoreApart(s)'
  BY <1>1, <1>3, Elsewhere DEF AdInv
<1> QED BY <1>1, <1>2, <1>4 DEF AdInv

\* A request that does nothing.
LEMMA NoReqCall == ShCall(NoReq) /\ ShCall(NoReq)' /\ NoReq.at = "idle"
BY DEF ShCall, NoReq, ShBusyAt

ReqFor(what, u, arg, seen) == [NoReq EXCEPT !.at = "apply", !.op = what, !.u = u, !.arg = arg, !.seen = seen]

\* A request with its fields set.
LEMMA SpelledReq ==
    ASSUME NEW what, NEW u, NEW arg, NEW seen
    PROVE  ReqFor(what, u, arg, seen) =
             [at |-> "apply", op |-> what, u |-> u, arg |-> arg, seen |-> seen, store |-> "none", snap |-> ShNoFile, fd |-> "none"]
<1> DEFINE r1 == [NoReq EXCEPT !.at = "apply"]
           r2 == [r1 EXCEPT !.op = what]
           r3 == [r2 EXCEPT !.u = u]
           r4 == [r3 EXCEPT !.arg = arg]
           r5 == [r4 EXCEPT !.seen = seen]
<1>1. r1 = [at |-> "apply", op |-> "none", u |-> NoAccount, arg |-> {}, seen |-> {}, store |-> "none", snap |-> ShNoFile, fd |-> "none"]
  BY DEF NoReq
<1> HIDE DEF r1
<1>2. r2 = [at |-> "apply", op |-> what, u |-> NoAccount, arg |-> {}, seen |-> {}, store |-> "none", snap |-> ShNoFile, fd |-> "none"]
  BY <1>1
<1> HIDE DEF r2
<1>3. r3 = [at |-> "apply", op |-> what, u |-> u, arg |-> {}, seen |-> {}, store |-> "none", snap |-> ShNoFile, fd |-> "none"]
  BY <1>2
<1> HIDE DEF r3
<1>4. r4 = [at |-> "apply", op |-> what, u |-> u, arg |-> arg, seen |-> {}, store |-> "none", snap |-> ShNoFile, fd |-> "none"]
  BY <1>3
<1> HIDE DEF r4
<1>5. r5 = [at |-> "apply", op |-> what, u |-> u, arg |-> arg, seen |-> seen, store |-> "none", snap |-> ShNoFile, fd |-> "none"]
  BY <1>4
<1>6. r5 = ReqFor(what, u, arg, seen)
  BY DEF r1, r2, r3, r4, ReqFor
<1> QED BY <1>5, <1>6

ForAccounts(what, u, arg) ==
  /\ u \in ShUsers /\ what \in ShUserOps /\ arg \subseteq Builtins \cup ShRoles
  /\ (what \in {"disable", "delete"} \/ (what = "roles" /\ "admin" \notin arg)) => ~LastAdmin(u)
ForSurfaces(what, u, arg) ==
  u = NoAccount /\ what \in ShSurfaceOps /\ arg \subseteq Names /\ (what \in {"roleCreate", "roleDelete"} => arg \subseteq ShRoles)

\* A handler begins.
LEMMA BeginStep ==
    ASSUME AdInv, NEW c \in ShCalls, NEW what, NEW u, NEW arg, ShBegin(c, what, u, arg), ForAccounts(what, u, arg) \/ ForSurfaces(what, u, arg)
    PROVE  AdInv'
<1>0. PICK q, seen : q = ReqFor(what, u, arg, seen) /\ seen = EnabledAdmins
  OBVIOUS
<1>1. sh' = [sh EXCEPT ![c] = q] /\ sh[c] = NoReq /\ UNCHANGED <<mem, disk, tmp, raced, overlaps>>
  BY <1>0 DEF ShBegin, ReqFor
<1>2. q = [at |-> "apply", op |-> what, u |-> u, arg |-> arg, seen |-> seen, store |-> "none", snap |-> ShNoFile, fd |-> "none"]
  BY <1>0, SpelledReq
<1>3. LastAdmin(u) \/ u \notin seen \/ Cardinality(seen) > 1
  <2>1. seen \subseteq ShUsers
    BY <1>0 DEF EnabledAdmins
  <2>2. Cardinality(seen) \in Nat
    BY <2>1, ShellAssumption, FS_Subset, FS_CardinalityType
  <2>3. LastAdmin(u) <=> u \in seen /\ Cardinality(seen) <= 1
    BY <1>0 DEF LastAdmin
  <2> QED BY <2>2, <2>3
<1>4. ShCall(q) /\ q.at = "apply"
  <2>1. q = [at |-> q.at, op |-> q.op, u |-> q.u, arg |-> q.arg, seen |-> q.seen, store |-> q.store, snap |-> q.snap, fd |-> q.fd]
    BY <1>2
  <2>2. q.at = "apply" /\ q.op = what /\ q.u = u /\ q.arg = arg /\ q.seen = seen
    BY <1>2
  <2>3. ForAccounts(what, u, arg) => Spares(q)
    BY <1>3, <2>2 DEF ForAccounts, Spares
  <2> QED BY <2>1, <2>2, <2>3 DEF ShCall, ForAccounts, ForSurfaces, ShBusyAt
<1>5. ShCall(q)'
  <2>1. q.at \notin {"snapshot"} \cup ShBusyAt
    BY <1>4 DEF ShBusyAt
  <2> QED BY <1>4, <2>1 DEF ShCall, Spares
<1>6. raced' \in BOOLEAN
  BY <1>1 DEF AdInv
<1> QED BY <1>1, <1>4, <1>5, <1>6, NoReqCall, Aside

\* The accounts' handlers.
LEMMA AccountHandlers ==
    ASSUME AdInv, NEW c \in ShCalls, NEW u \in ShUsers,
           \/ handleShellUserCreate(c, u) \/ \E off \in BOOLEAN : handleShellUserDisable(c, u, off)
           \/ \E r \in {{"admin"}, {"user"}} : handleShellUserRoles(c, u, r)
           \/ handleShellUserDelete(c, u) \/ handleShellUserPasswordReset(c, u) \/ handleShellPasswordChange(c, u)
    PROVE  AdInv'
<1>0. {} \subseteq Builtins \cup ShRoles
  OBVIOUS
<1>1. CASE handleShellUserCreate(c, u) \/ handleShellUserPasswordReset(c, u) \/ handleShellPasswordChange(c, u)
  <2>1. PICK what \in {"create", "reset", "password"} : ShBegin(c, what, u, {})
    BY <1>1 DEF handleShellUserCreate, handleShellUserPasswordReset, handleShellPasswordChange
  <2>2. ForAccounts(what, u, {})
    BY <1>0 DEF ForAccounts, ShUserOps
  <2> QED BY <2>1, <2>2, BeginStep
<1>2. ASSUME NEW off \in BOOLEAN, handleShellUserDisable(c, u, off) PROVE AdInv'
  <2>1. PICK what \in {"disable", "enable"} : ShBegin(c, what, u, {}) /\ (what = "disable" => ~LastAdmin(u))
    BY <1>2, Zenon DEF handleShellUserDisable
  <2>2. ForAccounts(what, u, {})
    BY <1>0, <2>1 DEF ForAccounts, ShUserOps
  <2> QED BY <2>1, <2>2, BeginStep
<1>3. ASSUME NEW r \in {{"admin"}, {"user"}}, handleShellUserRoles(c, u, r) PROVE AdInv'
  <2>1. ShBegin(c, "roles", u, r) /\ ~("admin" \notin r /\ LastAdmin(u))
    BY <1>3 DEF handleShellUserRoles
  <2>2. ForAccounts("roles", u, r)
    BY <2>1 DEF ForAccounts, ShUserOps, Builtins
  <2> QED BY <2>1, <2>2, BeginStep
<1>4. CASE handleShellUserDelete(c, u)
  <2>1. ShBegin(c, "delete", u, {}) /\ ~LastAdmin(u)
    BY <1>4 DEF handleShellUserDelete
  <2>2. ForAccounts("delete", u, {})
    BY <1>0, <2>1 DEF ForAccounts, ShUserOps
  <2> QED BY <2>1, <2>2, BeginStep
<1> QED BY <1>1, <1>2, <1>3, <1>4

\* The other surfaces' handlers.
LEMMA SurfaceHandlers ==
    ASSUME AdInv, NEW c \in ShCalls,
           \/ \E r \in ShRoles : handleShellRoleCreate(c, r) \/ handleShellRoleDelete(c, r)
           \/ \E r \in ShRoles : handleShellMenuPermissionsPut(c, {r})
           \/ \E v \in {{}, {"secret"}} : handleShellAdapterPut(c, v)
           \/ handleShellConnectorPut(c, {"doc"}) \/ handleShellConfigPut(c, {"doc"}) \/ handleShellSessionIssue(c)
    PROVE  AdInv'
<1>1. ASSUME NEW r \in ShRoles, handleShellRoleCreate(c, r) \/ handleShellRoleDelete(c, r) \/ handleShellMenuPermissionsPut(c, {r}) PROVE AdInv'
  <2>1. PICK what \in {"roleCreate", "roleDelete", "menus"} : ShBegin(c, what, NoAccount, {r})
    BY <1>1 DEF handleShellRoleCreate, handleShellRoleDelete, handleShellMenuPermissionsPut
  <2>2. ForSurfaces(what, NoAccount, {r})
    BY DEF ForSurfaces, ShSurfaceOps, Names
  <2> QED BY <2>1, <2>2, BeginStep
<1>2. ASSUME NEW v \in {{}, {"secret"}}, handleShellAdapterPut(c, v) PROVE AdInv'
  <2>1. ShBegin(c, "vault", NoAccount, v)
    BY <1>2 DEF handleShellAdapterPut
  <2>2. ForSurfaces("vault", NoAccount, v)
    BY DEF ForSurfaces, ShSurfaceOps, Names
  <2> QED BY <2>1, <2>2, BeginStep
<1>3. CASE handleShellConnectorPut(c, {"doc"}) \/ handleShellConfigPut(c, {"doc"})
  <2>1. PICK what \in {"connectors", "overrides"} : ShBegin(c, what, NoAccount, {"doc"})
    BY <1>3 DEF handleShellConnectorPut, handleShellConfigPut
  <2>2. ForSurfaces(what, NoAccount, {"doc"})
    BY DEF ForSurfaces, ShSurfaceOps, Names
  <2> QED BY <2>1, <2>2, BeginStep
<1>4. CASE handleShellSessionIssue(c)
  <2>1. ShBegin(c, "audit", NoAccount, {})
    BY <1>4 DEF handleShellSessionIssue
  <2>2. ForSurfaces("audit", NoAccount, {})
    BY DEF ForSurfaces, ShSurfaceOps
  <2> QED BY <2>1, <2>2, BeginStep
<1> QED BY <1>1, <1>2, <1>3, <1>4

\* A store changes, and its save begins.
LEMMA AdminSaves ==
    ASSUME AdInv, NEW c \in ShCalls, sh[c].at = "apply", NEW s \in StoreNames, NEW v, SaveNext(c, s, v), ShHolds(s, v)',
           UNCHANGED <<disk, tmp, overlaps>>, raced => raced', raced' \in BOOLEAN
    PROVE  AdInv'
<1> DEFINE o == sh[c]
           x == [o EXCEPT !.at = "snapshot"]
<1>0. PICK q : q = [x EXCEPT !.store = s]
  OBVIOUS
<1>1. mem' = [mem EXCEPT ![s] = v] /\ sh' = [sh EXCEPT ![c] = q]
  BY <1>0 DEF SaveNext
<1>2. ShCall(o)
  BY DEF AdInv
<1>3. q = [at |-> "snapshot", op |-> o.op, u |-> o.u, arg |-> o.arg, seen |-> o.seen, store |-> s, snap |-> o.snap, fd |-> o.fd]
  <2> HIDE DEF o
  <2>1. x = [at |-> "snapshot", op |-> o.op, u |-> o.u, arg |-> o.arg, seen |-> o.seen, store |-> o.store, snap |-> o.snap, fd |-> o.fd]
    BY <1>2 DEF ShCall
  <2> HIDE DEF x
  <2> QED BY <1>0, <2>1
<1> HIDE DEF x
<1>4. ShCall(q)' /\ q.at = "snapshot" /\ q.store = s
  BY <1>3 DEF ShCall, ShBusyAt
<1>5. /\ sh' = [d \in ShCalls |-> sh'[d]] /\ sh'[c] = q /\ \A d \in ShCalls : d # c => sh'[d] = sh[d]
      /\ \A d \in ShCalls : ShCall(sh[d])'
  BY <1>1, <1>4, ShMoves
<1>6. mem' = [z \in StoreNames |-> mem'[z]] /\ mem'[s] = v /\ \A z \in StoreNames : z # s => mem'[z] = mem[z]
  BY <1>1 DEF AdInv
<1>7. \A z \in StoreNames : ShHolds(z, mem[z])' /\ ShFile(z, disk[z])' /\ ShFile(z, tmp[z])'
  <2> TAKE z \in StoreNames
  <2>1. ShHolds(z, mem[z]) /\ ShFile(z, disk[z]) /\ ShFile(z, tmp[z])
    BY DEF AdInv
  <2>2. ShFile(z, disk[z])' /\ ShFile(z, tmp[z])'
    BY <2>1, HoldsStay
  <2>3. CASE z = s
    BY <1>6, <2>2, <2>3
  <2>4. CASE z # s
    <3>1. mem'[z] = mem[z]
      BY <1>6, <2>4
    <3>2. ShHolds(z, mem[z])'
      BY <2>1, <3>1, HoldsStay DEF ShHolds, Content, Chain, HasAdmin
    <3> QED BY <2>2, <3>2
  <2> QED BY <2>3, <2>4
<1>8. ~Saving(c, s) /\ \A z : z # s => ~Saving(c, z) /\ ~Saving(c, z)'
  BY <1>4, <1>5 DEF Saving
<1>9. \A z \in StoreNames \ overlaps : StoreApart(z)'
  <2> TAKE z \in StoreNames \ overlaps
  <2>1. StoreApart(z)
    BY DEF AdInv
  <2>2. CASE z # s
    BY <1>5, <1>6, <1>8, <2>1, <2>2, Elsewhere
  <2>3. CASE z = s
    <3>1. Waiting(s)' /\ Saving(c, s)'
      BY <1>4, <1>5 DEF Waiting, Saving
    <3>2. \A d \in ShCalls : Busy(d, s)' => Busy(d, s) /\ sh'[d] = sh[d]
      BY <1>4, <1>5 DEF Busy, ShBusyAt
    <3>3. Content(s, disk[s])'
      BY <2>1, <2>3 DEF StoreApart, Content, Chain
    <3>4. \A d \in ShCalls : Busy(d, s)' =>
            /\ sh'[d].at = "fill" => sh'[d].fd = "tmp" /\ tmp'[s] = Cleared
            /\ sh'[d].at = "rename" => tmp'[s] = sh'[d].snap
      BY <2>1, <2>3, <3>2 DEF StoreApart
    <3>5. \A a, b \in ShCalls : Busy(a, s)' /\ Busy(b, s)' => a = b
      BY <2>1, <2>3, <3>2 DEF StoreApart
    <3> QED BY <2>3, <3>1, <3>3, <3>4, <3>5 DEF StoreApart
  <2> QED BY <2>2, <2>3
<1> QED BY <1>5, <1>6, <1>7, <1>9 DEF AdInv

\* A row that is recorded continues the chain.
LEMMA AuditGrows == ASSUME NEW rows, Chain(rows) PROVE Chain(AuditRecord(rows))
<1> DEFINE Row == [seq : Int, prev : Int]
<1>1. rows \in Seq(Row)
  BY DEF Chain, AuditRows
<1>2. PICK n \in Nat : n = Len(rows)
  BY <1>1, LenProperties
<1>3. \A i \in 1 .. n : rows[i] \in Row
  BY <1>1, <1>2, LenProperties
<1> DEFINE row == IF n = 0 THEN [seq |-> 0, prev |-> -1] ELSE [seq |-> rows[n].seq + 1, prev |-> rows[n].seq]
           next == Append(rows, row)
<1>4. row \in Row /\ row.prev = row.seq - 1 /\ (n # 0 => row.seq = rows[n].seq + 1)
  <2>1. CASE n = 0
    BY <2>1
  <2>2. CASE n # 0
    <3>1. n \in 1 .. n
      BY <2>2
    <3>2. rows[n].seq \in Int
      BY <1>3, <3>1
    <3> QED BY <2>2, <3>2
  <2> QED BY <2>1, <2>2
<1>5. AuditRecord(rows) = IF Len(next) > AuditCap THEN SubSeq(next, Len(next) - AuditCap + 1, Len(next)) ELSE next
  BY <1>2 DEF AuditRecord
<1> HIDE DEF row, Row
<1>6. next \in Seq(Row) /\ Len(next) = n + 1 /\ next[n + 1] = row /\ \A i \in 1 .. n : next[i] = rows[i]
  BY <1>1, <1>2, <1>4, AppendProperties
<1> HIDE DEF next
<1>7. \A i \in 1 .. (n + 1) : next[i].prev = next[i].seq - 1
  <2> TAKE i \in 1 .. (n + 1)
  <2>1. CASE i = n + 1
    BY <1>4, <1>6, <2>1
  <2>2. CASE i # n + 1
    <3>1. i \in 1 .. n
      BY <2>2
    <3> QED BY <1>2, <1>6, <3>1 DEF Chain
  <2> QED BY <2>1, <2>2
<1>8. \A i \in 2 .. (n + 1) : next[i].seq = next[i - 1].seq + 1
  <2> TAKE i \in 2 .. (n + 1)
  <2>1. CASE i = n + 1
    <3>1. n \in 1 .. n /\ i - 1 = n /\ n # 0
      BY <2>1
    <3> QED BY <1>4, <1>6, <2>1, <3>1
  <2>2. CASE i # n + 1
    <3>1. i \in 2 .. n /\ i \in 1 .. n /\ i - 1 \in 1 .. n
      BY <2>2
    <3> QED BY <1>2, <1>6, <3>1 DEF Chain
  <2> QED BY <2>1, <2>2
<1>9. CASE ~ (Len(next) > AuditCap)
  BY <1>5, <1>6, <1>7, <1>8, <1>9 DEF Chain, AuditRows, Row
<1>10. CASE Len(next) > AuditCap
  <2> DEFINE k == n + 1 - AuditCap
             t == SubSeq(next, k + 1, n + 1)
  <2>1. AuditRecord(rows) = t /\ k \in Nat /\ AuditCap \in Nat \ {0} /\ k + 1 \in 1 .. (n + 1) /\ n + 1 \in 1 .. (n + 1)
    BY <1>5, <1>6, <1>10, ShellAssumption
  <2>2. n + 1 = AuditCap + k
    BY <2>1
  <2> HIDE DEF k
  <2>3. t \in Seq(Row) /\ Len(t) = AuditCap /\ \A i \in 1 .. AuditCap : t[i] = next[k + i]
    BY <1>6, <2>1, <2>2, SubSeqProperties
  <2> HIDE DEF t
  <2>4. \A i \in 1 .. AuditCap : t[i].prev = t[i].seq - 1
    <3> TAKE i \in 1 .. AuditCap
    <3>1. k + i \in 1 .. (n + 1)
      BY <2>1, <2>2
    <3> QED BY <1>7, <2>3, <3>1
  <2>5. \A i \in 2 .. AuditCap : t[i].seq = t[i - 1].seq + 1
    <3> TAKE i \in 2 .. AuditCap
    <3>1. k + i \in 2 .. (n + 1) /\ i \in 1 .. AuditCap /\ i - 1 \in 1 .. AuditCap /\ k + (i - 1) = (k + i) - 1
      BY <2>1, <2>2
    <3> QED BY <1>8, <2>3, <3>1
  <2> QED BY <2>1, <2>3, <2>4, <2>5 DEF Chain, AuditRows, Row
<1> QED BY <1>9, <1>10

IsAccount(a) == a \in Account
Restated(a, x) == [a EXCEPT !.disabled = x]
Marked(a, x) == [a EXCEPT !.must = x]
Assigned(a, x) == [a EXCEPT !.roles = x]

\* What makes an account.
LEMMA AnAccount ==
    ASSUME NEW z \in SUBSET (Builtins \cup ShRoles), NEW x \in BOOLEAN, NEW y \in BOOLEAN
    PROVE  IsAccount([roles |-> z, disabled |-> x, must |-> y])
BY Zenon DEF IsAccount, Account

\* An account that is disabled or enabled.
LEMMA RestatedAccount ==
    ASSUME NEW a, IsAccount(a), NEW x \in BOOLEAN, NEW b, b = Restated(a, x)
    PROVE  IsAccount(b) /\ b.roles = a.roles /\ b.disabled = x
<1>1. a = [roles |-> a.roles, disabled |-> a.disabled, must |-> a.must] /\ a.roles \in SUBSET (Builtins \cup ShRoles)
  BY DEF IsAccount, Account
<1>2. a.must \in BOOLEAN
  BY Zenon DEF IsAccount, Account
<1>3. b = [roles |-> a.roles, disabled |-> x, must |-> a.must]
  BY <1>1 DEF Restated
<1>4. IsAccount(b)
  BY <1>1, <1>2, <1>3, AnAccount
<1> QED BY <1>3, <1>4

\* An account whose password is reset or changed.
LEMMA MarkedAccount ==
    ASSUME NEW a, IsAccount(a), NEW x \in BOOLEAN, NEW b, b = Marked(a, x)
    PROVE  IsAccount(b) /\ b.roles = a.roles /\ b.disabled = a.disabled
<1>1. a = [roles |-> a.roles, disabled |-> a.disabled, must |-> a.must] /\ a.roles \in SUBSET (Builtins \cup ShRoles)
  BY DEF IsAccount, Account
<1>2. a.disabled \in BOOLEAN
  BY Zenon DEF IsAccount, Account
<1>3. b = [roles |-> a.roles, disabled |-> a.disabled, must |-> x]
  BY <1>1 DEF Marked
<1>4. IsAccount(b)
  BY <1>1, <1>2, <1>3, AnAccount
<1> QED BY <1>3, <1>4

\* An account that is given roles.
LEMMA AssignedAccount ==
    ASSUME NEW a, IsAccount(a), NEW x \in SUBSET (Builtins \cup ShRoles), NEW b, b = Assigned(a, x)
    PROVE  IsAccount(b) /\ b.roles = x /\ b.disabled = a.disabled
<1>1. a = [roles |-> a.roles, disabled |-> a.disabled, must |-> a.must]
  BY DEF IsAccount, Account
<1>2. a.disabled \in BOOLEAN /\ a.must \in BOOLEAN
  BY Zenon DEF IsAccount, Account
<1>3. b = [roles |-> x, disabled |-> a.disabled, must |-> a.must]
  BY <1>1 DEF Assigned
<1>4. IsAccount(b)
  BY <1>1, <1>2, <1>3, AnAccount
<1> QED BY <1>3, <1>4

\* A set of more than one has another.
LEMMA AnotherOne == ASSUME NEW S, IsFiniteSet(S), Cardinality(S) > 1, NEW u PROVE \E w \in S : w # u
<1>1. SUFFICES ASSUME \A w \in S : w = u PROVE FALSE
  OBVIOUS
<1>2. S \subseteq {u}
  BY <1>1
<1>3. Cardinality(S) <= Cardinality({u}) /\ Cardinality({u}) = 1 /\ Cardinality(S) \in Nat
  BY <1>2, FS_Subset, FS_Singleton, FS_CardinalityType
<1> QED BY <1>3

\* The accounts after a change: whoever administers the shell still does, if
\* the handler saw the administrators there are.
LEMMA AccountsStep ==
    ASSUME mem["users"] \in Accounts, NEW what \in ShUserOps, NEW u \in ShUsers, NEW arg \in SUBSET (Builtins \cup ShRoles),
           ~Conflict(what, u), NEW v, v = [mem["users"] EXCEPT ![u] = UpdateAccounts(what, u, arg)]
    PROVE  /\ v \in Accounts
           /\ \/ ~HasAdmin(mem["users"]) \/ HasAdmin(v)
              \/ (what \in {"disable", "delete"} \/ (what = "roles" /\ "admin" \notin arg)) /\ u \in EnabledAdmins /\ ~ (Cardinality(EnabledAdmins) > 1)
<1> DEFINE m == mem["users"]
           a == m[u]
           b == UpdateAccounts(what, u, arg)
<1>1. (a = NoAccount) <=> (what = "create")
  BY DEF Conflict
<1>2. \A w \in ShUsers : m[w] = NoAccount \/ IsAccount(m[w])
  BY DEF Accounts, IsAccount
<1>3. \/ what = "create" /\ a = NoAccount /\ b = NewAccount
      \/ what = "delete" /\ b = NoAccount
      \/ what = "disable" /\ a # NoAccount /\ b = Restated(a, TRUE)
      \/ what = "enable" /\ a # NoAccount /\ b = Restated(a, FALSE)
      \/ what = "roles" /\ a # NoAccount /\ b = Assigned(a, arg)
      \/ what = "reset" /\ a # NoAccount /\ b = Marked(a, TRUE)
      \/ what = "password" /\ a # NoAccount /\ b = Marked(a, FALSE)
  BY <1>1 DEF ShUserOps, UpdateAccounts, Restated, Assigned, Marked
<1>4. IsAccount(NewAccount)
  BY Zenon DEF IsAccount, NewAccount, Account, Builtins
<1> HIDE DEF b
<1>5. \/ b = NoAccount \/ IsAccount(b)
  <2>1. CASE a # NoAccount
    <3>1. IsAccount(a)
      BY <1>2, <2>1
    <3>2. TRUE \in BOOLEAN /\ FALSE \in BOOLEAN
      BY Zenon
    <3> HIDE DEF a
    <3> QED BY <1>3, <1>4, <3>1, <3>2, RestatedAccount, MarkedAccount, AssignedAccount
  <2>2. CASE a = NoAccount
    BY <1>3, <1>4, <2>2
  <2> QED BY <2>1, <2>2
<1>6. v = [m EXCEPT ![u] = b]
  BY DEF b
<1>7. v \in Accounts /\ v[u] = b /\ \A w \in ShUsers : w # u => v[w] = m[w]
  BY <1>5, <1>6 DEF Accounts, IsAccount
<1>8. ASSUME NEW w \in ShUsers, w # u, w \in EnabledAdmins PROVE HasAdmin(v)
  BY <1>7, <1>8 DEF HasAdmin, EnabledAdmins
<1>9. EnabledAdmins \subseteq ShUsers /\ IsFiniteSet(EnabledAdmins)
  BY ShellAssumption, FS_Subset DEF EnabledAdmins
<1>10. Cardinality(EnabledAdmins) > 1 => HasAdmin(v)
  BY <1>8, <1>9, AnotherOne
<1>11. HasAdmin(m) => EnabledAdmins # {}
  BY DEF HasAdmin, EnabledAdmins
<1>12. EnabledAdmins # {} /\ u \notin EnabledAdmins => HasAdmin(v)
  BY <1>8, <1>9
<1>13. ASSUME u \in EnabledAdmins, what \notin {"disable", "delete"}, ~ (what = "roles" /\ "admin" \notin arg) PROVE HasAdmin(v)
  <2>1. a # NoAccount /\ ~a.disabled /\ "admin" \in a.roles
    BY <1>13 DEF EnabledAdmins
  <2>2. IsAccount(a)
    BY <1>2, <2>1
  <2>3. b # NoAccount /\ ~b.disabled /\ "admin" \in b.roles
    <3> HIDE DEF a
    <3>1. IsAccount(b) /\ ~b.disabled /\ "admin" \in b.roles
      <4>1. CASE what = "enable"
        <5>1. FALSE \in BOOLEAN /\ b = Restated(a, FALSE)
          BY <1>3, <4>1
        <5>2. IsAccount(b) /\ b.roles = a.roles /\ b.disabled = FALSE
          BY <2>2, <5>1, RestatedAccount
        <5> QED BY <2>1, <5>2
      <4>2. CASE what \in {"reset", "password"}
        <5>1. \E x \in BOOLEAN : b = Marked(a, x)
          BY <1>3, <4>2
        <5>2. IsAccount(b) /\ b.roles = a.roles /\ b.disabled = a.disabled
          BY <2>2, <5>1, MarkedAccount
        <5> QED BY <2>1, <5>2
      <4>3. CASE what = "roles"
        <5>1. IsAccount(b) /\ b.roles = arg /\ b.disabled = a.disabled
          BY <1>3, <2>2, <4>3, AssignedAccount
        <5> QED BY <1>13, <2>1, <4>3, <5>1
      <4> QED BY <1>3, <1>13, <2>1, <4>1, <4>2, <4>3
    <3> QED BY <3>1, ShellAssumption DEF IsAccount
  <2> QED BY <1>7, <2>3 DEF HasAdmin
<1> HIDE DEF m
<1> QED BY <1>7, <1>10, <1>11, <1>12, <1>13 DEF m

\* A refused change.
LEMMA RefusedStep ==
    ASSUME AdInv, NEW c \in ShCalls, sh[c].at = "apply", sh' = [sh EXCEPT ![c] = NoReq], UNCHANGED <<mem, disk, tmp, overlaps>>,
           raced => raced', raced' \in BOOLEAN
    PROVE  AdInv'
<1> HIDE DEF NoReq
<1>1. PICK q : q = NoReq
  OBVIOUS
<1>2. ShCall(q)' /\ q.at = "idle"
  BY <1>1, NoReqCall
<1> QED BY <1>1, <1>2, Aside

\* The store's own operation.
LEMMA ApplyStep == ASSUME AdInv, NEW c \in ShCalls, Apply(c) PROVE AdInv'
<1> DEFINE q == sh[c]
<1>1. ShCall(q) /\ q.at = "apply" /\ UNCHANGED <<disk, tmp, overlaps>>
  BY DEF AdInv, Apply
<1>2. \A s \in StoreNames : ShHolds(s, mem[s])
  BY DEF AdInv
<1>3. mem["users"] \in Accounts /\ Chain(mem["audit"]) /\ mem["roles"] \subseteq ShRoles
      /\ mem["menus"] \subseteq Names /\ mem["vault"] \subseteq Names /\ mem["connectors"] \subseteq Names /\ mem["overrides"] \subseteq Names
  BY <1>2 DEF ShHolds, Content, StoreNames
<1>4. CASE q.u # NoAccount
  <2>1. q.u \in ShUsers /\ q.op \in ShUserOps /\ q.arg \subseteq Builtins \cup ShRoles /\ Spares(q)
    BY <1>1, <1>4 DEF ShCall
  <2>2. raced' = (raced \/ q.seen # EnabledAdmins)
    BY <1>4 DEF Apply
  <2>3. (raced => raced') /\ raced' \in BOOLEAN
    BY <2>2
  <2>4. CASE Conflict(q.op, q.u)
    BY <1>1, <1>4, <2>3, <2>4, RefusedStep DEF Apply
  <2>5. CASE ~Conflict(q.op, q.u)
    <3>1. PICK v : v = [mem["users"] EXCEPT ![q.u] = UpdateAccounts(q.op, q.u, q.arg)]
      OBVIOUS
    <3>2. SaveNext(c, "users", v)
      BY <1>4, <2>5, <3>1 DEF Apply
    <3>3. /\ v \in Accounts
          /\ \/ ~HasAdmin(mem["users"]) \/ HasAdmin(v)
             \/ (q.op \in {"disable", "delete"} \/ (q.op = "roles" /\ "admin" \notin q.arg)) /\ q.u \in EnabledAdmins /\ ~ (Cardinality(EnabledAdmins) > 1)
      BY <1>3, <2>1, <2>5, <3>1, AccountsStep
    <3>4. raced' \/ HasAdmin(v)
      <4>1. raced \/ HasAdmin(mem["users"])
        BY <1>2 DEF ShHolds, StoreNames
      <4>2. raced' \/ q.seen = EnabledAdmins
        BY <2>2
      <4> HIDE DEF q
      <4> QED BY <2>1, <2>3, <3>3, <4>1, <4>2 DEF Spares
    <3>5. ShHolds("users", v)'
      BY <3>3, <3>4 DEF ShHolds, Content, HasAdmin
    <3>6. "users" \in StoreNames
      BY DEF StoreNames
    <3> QED BY <1>1, <2>3, <3>2, <3>5, <3>6, AdminSaves
  <2> QED BY <2>4, <2>5
<1>5. CASE q.u = NoAccount
  <2>1. q.op \in ShSurfaceOps /\ q.arg \subseteq Names /\ (q.op \in {"roleCreate", "roleDelete"} => q.arg \subseteq ShRoles)
    BY <1>1, <1>5, ShellAssumption DEF ShCall
  <2>2. (raced => raced') /\ raced' \in BOOLEAN /\ raced' = raced
    BY <1>5 DEF AdInv, Apply
  <2>3. ASSUME NEW s \in StoreNames, NEW v, SaveNext(c, s, v), Content(s, v), s # "users" PROVE AdInv'
    <3>1. ShHolds(s, v)'
      BY <2>3 DEF ShHolds, Content, Chain
    <3> QED BY <1>1, <2>2, <2>3, <3>1, AdminSaves
  <2>4. ASSUME NEW r \in ShRoles, SaveNew(c, "roles", CreateRole(r)) \/ SaveNew(c, "roles", DeleteRole(r)) PROVE AdInv'
    <3>1. CASE sh' = [sh EXCEPT ![c] = NoReq] /\ UNCHANGED mem
      BY <1>1, <2>2, <3>1, RefusedStep
    <3>2. ASSUME NEW v, SaveNext(c, "roles", v), v = mem["roles"] \cup {r} \/ v = mem["roles"] \ {r} PROVE AdInv'
      <4>1. Content("roles", v) /\ "roles" \in StoreNames
        BY <1>3, <3>2 DEF Content, StoreNames, Names
      <4> QED BY <2>3, <3>2, <4>1
    <3> QED BY <2>4, <3>1, <3>2 DEF SaveNew, CreateRole, DeleteRole
  <2>5. CASE q.op \in {"roleCreate", "roleDelete"}
    <3>1. PICK r \in q.arg : SaveNew(c, "roles", CreateRole(r)) \/ SaveNew(c, "roles", DeleteRole(r))
      BY <1>5, <2>5 DEF Apply
    <3> QED BY <2>1, <2>4, <2>5, <3>1
  <2>6. CASE q.op \in {"menus", "vault", "connectors", "overrides"}
    <3>1. PICK v : SaveNext(c, q.op, v) /\ (v = q.arg \/ v = mem["vault"] \/ v = mem["connectors"] \cup q.arg \/ v = mem["overrides"] \cup q.arg)
      BY <1>5, <2>6 DEF Apply, PutMenus, VaultPut, PutConnector, PutOverride
    <3>2. v \subseteq Names
      BY <1>3, <2>1, <3>1
    <3>3. Content(q.op, v) /\ q.op \in StoreNames /\ q.op # "users"
      BY <2>6, <3>2 DEF Content, StoreNames
    <3> QED BY <2>3, <3>1, <3>3
  <2>7. CASE q.op = "audit"
    <3>1. SaveNext(c, "audit", AuditRecord(mem["audit"]))
      BY <1>5, <2>7 DEF Apply
    <3>2. PICK v : v = AuditRecord(mem["audit"])
      OBVIOUS
    <3>3. Chain(v)
      BY <1>3, <3>2, AuditGrows
    <3>4. Content("audit", v) /\ "audit" \in StoreNames
      BY <3>3 DEF Content, StoreNames
    <3> QED BY <2>3, <3>1, <3>2, <3>4
  <2> QED BY <2>1, <2>5, <2>6, <2>7 DEF ShSurfaceOps
<1> QED BY <1>4, <1>5

SpelledAs(q, at, store, snap, fd, o) ==
  q = [at |-> at, op |-> o.op, u |-> o.u, arg |-> o.arg, seen |-> o.seen, store |-> store, snap |-> snap, fd |-> fd]

\* A request that saves, one field after another.
LEMMA SpelledSave ==
    ASSUME NEW o, ShCall(o), NEW at, NEW x
    PROVE  /\ SpelledAs([[o EXCEPT !.at = at] EXCEPT !.snap = x], at, o.store, x, o.fd, o)
           /\ SpelledAs([[o EXCEPT !.at = at] EXCEPT !.fd = x], at, o.store, o.snap, x, o)
           /\ SpelledAs([o EXCEPT !.fd = x], o.at, o.store, o.snap, x, o)
<1> DEFINE r == [o EXCEPT !.at = at]
<1>1. o = [at |-> o.at, op |-> o.op, u |-> o.u, arg |-> o.arg, seen |-> o.seen, store |-> o.store, snap |-> o.snap, fd |-> o.fd]
  BY DEF ShCall
<1>2. r = [at |-> at, op |-> o.op, u |-> o.u, arg |-> o.arg, seen |-> o.seen, store |-> o.store, snap |-> o.snap, fd |-> o.fd]
  BY <1>1
<1>3. SpelledAs([o EXCEPT !.fd = x], o.at, o.store, o.snap, x, o)
  BY <1>1 DEF SpelledAs
<1> HIDE DEF r
<1>4. SpelledAs([r EXCEPT !.snap = x], at, o.store, x, o.fd, o)
  BY <1>2 DEF SpelledAs
<1>5. SpelledAs([r EXCEPT !.fd = x], at, o.store, o.snap, x, o)
  BY <1>2 DEF SpelledAs
<1> QED BY <1>3, <1>4, <1>5 DEF r

\* The save takes its snapshot; from now on another save of the store overlaps it.
LEMMA SnapStep == ASSUME AdInv, NEW c \in ShCalls, Snap(c) PROVE AdInv'
<1>1. PICK o, s, q : o = sh[c] /\ s = sh[c].store /\ q = [[o EXCEPT !.at = "open"] EXCEPT !.snap = mem[s]]
  OBVIOUS
<1>2. /\ sh' = [sh EXCEPT ![c] = q] /\ o.at = "snapshot" /\ UNCHANGED <<mem, disk, tmp, raced>>
      /\ overlaps' = IF \E d \in ShCalls \ {c} : Saving(d, s) THEN overlaps \cup {s} ELSE overlaps
  BY <1>1 DEF Snap
<1>3. ShCall(o) /\ s \in StoreNames /\ o.store = s
  BY <1>1, <1>2 DEF AdInv, ShCall
<1>4. SpelledAs(q, "open", s, mem[s], o.fd, o)
  BY <1>1, <1>3, SpelledSave
<1>5. q.at = "open" /\ q.store = s /\ q.snap = mem[s]
  BY <1>4 DEF SpelledAs
<1>6. ShCall(q)'
  <2>1. q = [at |-> q.at, op |-> q.op, u |-> q.u, arg |-> q.arg, seen |-> q.seen, store |-> q.store, snap |-> q.snap, fd |-> q.fd]
    BY <1>4 DEF SpelledAs
  <2>2. ShHolds(s, q.snap)'
    BY <1>2, <1>3, <1>5 DEF AdInv, ShHolds, Content, Chain, HasAdmin
  <2> QED BY <1>3, <1>5, <2>1, <2>2 DEF ShCall, ShBusyAt
<1>7. /\ sh' = [d \in ShCalls |-> sh'[d]] /\ sh'[c] = q /\ \A d \in ShCalls : d # c => sh'[d] = sh[d]
      /\ \A d \in ShCalls : ShCall(sh[d])'
  BY <1>2, <1>6, ShMoves
<1>8. \A z \in StoreNames : ShHolds(z, mem[z])' /\ ShFile(z, disk[z])' /\ ShFile(z, tmp[z])'
  BY <1>2, HoldsStay DEF AdInv
<1>9. ASSUME NEW z \in StoreNames \ overlaps' PROVE StoreApart(z)'
  <2>1. StoreApart(z)
    BY <1>2 DEF AdInv
  <2>2. CASE z # s
    <3>1. ~Saving(c, z) /\ ~Saving(c, z)'
      BY <1>1, <1>5, <1>7, <2>2 DEF Saving
    <3> QED BY <1>2, <1>7, <2>1, <3>1, Elsewhere
  <2>3. CASE z = s
    <3>1. \A d \in ShCalls : d # c => ~Saving(d, s)
      BY <1>2, <1>9, <2>3
    <3>2. \A d \in ShCalls : Busy(d, s)' => d = c
      BY <1>7, <3>1 DEF Saving, Busy, ShBusyAt
    <3>3. Content(s, disk[s])'
      BY <1>2, <2>1, <2>3 DEF StoreApart, Content, Chain
    <3>4. Saving(c, s)'
      BY <1>5, <1>7 DEF Saving
    <3> QED BY <1>2, <1>5, <1>7, <2>3, <3>2, <3>3, <3>4 DEF StoreApart
  <2> QED BY <2>2, <2>3
<1>10. overlaps' \subseteq StoreNames /\ raced' \in BOOLEAN
  BY <1>2, <1>3 DEF AdInv
<1> QED BY <1>2, <1>7, <1>8, <1>9, <1>10 DEF AdInv

\* The step of a save that has its snapshot and has not renamed its file: the
\* request o becomes q, and only the files of its store change.
SaveAdvances(c, o, s, q) ==
  /\ o = sh[c] /\ s = o.store /\ o.at \in {"open", "fill"} /\ sh' = [sh EXCEPT ![c] = q]
  /\ q.at \in {"fill", "rename"} /\ q.snap = o.snap /\ q.store = s
  /\ q = [at |-> q.at, op |-> q.op, u |-> q.u, arg |-> q.arg, seen |-> q.seen, store |-> q.store, snap |-> q.snap, fd |-> q.fd]
  /\ UNCHANGED <<mem, raced, overlaps>>
  /\ disk' = [z \in StoreNames |-> disk'[z]] /\ tmp' = [z \in StoreNames |-> tmp'[z]]
  /\ \A z \in StoreNames : z # s => disk'[z] = disk[z] /\ tmp'[z] = tmp[z]
  /\ ShFile(s, disk'[s]) /\ ShFile(s, tmp'[s])
  /\ s \notin overlaps => /\ disk'[s] = disk[s]
                          /\ q.at = "fill" => q.fd = "tmp" /\ tmp'[s] = Cleared
                          /\ q.at = "rename" => tmp'[s] = q.snap

\* A save in progress goes on: it alone changes the files of its store.
LEMMA SaveGoesOn ==
    ASSUME AdInv, NEW c \in ShCalls, NEW o, NEW s, NEW q, SaveAdvances(c, o, s, q)
    PROVE  AdInv'
<1>. /\ o = sh[c] /\ s = o.store /\ o.at \in {"open", "fill"} /\ sh' = [sh EXCEPT ![c] = q]
     /\ q.at \in {"fill", "rename"} /\ q.snap = o.snap /\ q.store = s
     /\ q = [at |-> q.at, op |-> q.op, u |-> q.u, arg |-> q.arg, seen |-> q.seen, store |-> q.store, snap |-> q.snap, fd |-> q.fd]
     /\ UNCHANGED <<mem, raced, overlaps>>
     /\ disk' = [z \in StoreNames |-> disk'[z]] /\ tmp' = [z \in StoreNames |-> tmp'[z]]
     /\ \A z \in StoreNames : z # s => disk'[z] = disk[z] /\ tmp'[z] = tmp[z]
     /\ ShFile(s, disk'[s]) /\ ShFile(s, tmp'[s])
     /\ s \notin overlaps => /\ disk'[s] = disk[s]
                             /\ q.at = "fill" => q.fd = "tmp" /\ tmp'[s] = Cleared
                             /\ q.at = "rename" => tmp'[s] = q.snap
  BY DEF SaveAdvances
<1>1. ShCall(o) /\ s \in StoreNames /\ ShHolds(s, o.snap)
  BY DEF AdInv, ShCall, ShBusyAt
<1>2. ShCall(q)'
  <2>1. ShHolds(s, q.snap)'
    BY <1>1 DEF ShHolds, Content, Chain, HasAdmin
  <2> QED BY <1>1, <2>1 DEF ShCall, ShBusyAt
<1>3. /\ sh' = [d \in ShCalls |-> sh'[d]] /\ sh'[c] = q /\ \A d \in ShCalls : d # c => sh'[d] = sh[d]
      /\ \A d \in ShCalls : ShCall(sh[d])'
  BY <1>2, ShMoves
<1>4. ASSUME NEW z \in StoreNames PROVE ShHolds(z, mem[z])' /\ ShFile(z, disk[z])' /\ ShFile(z, tmp[z])'
  <2>1. ShHolds(z, mem[z]) /\ ShFile(z, disk'[z]) /\ ShFile(z, tmp'[z])
    BY DEF AdInv
  <2> QED BY <2>1 DEF ShHolds, ShFile, Content, Chain, HasAdmin, ShSpecials
<1>5. ASSUME NEW z \in StoreNames \ overlaps PROVE StoreApart(z)'
  <2>1. StoreApart(z)
    BY DEF AdInv
  <2>2. CASE z # s
    <3>1. ~Saving(c, z) /\ ~Saving(c, z)'
      BY <1>3, <2>2 DEF Saving
    <3> QED BY <1>3, <2>1, <2>2, <3>1, Elsewhere
  <2>3. CASE z = s
    <3>1. Busy(c, s) /\ Saving(c, s)'
      BY <1>3 DEF Busy, ShBusyAt, Saving
    <3>2. \A d \in ShCalls : Busy(d, s)' => d = c
      BY <1>3, <2>1, <2>3, <3>1 DEF StoreApart, Busy, ShBusyAt
    <3>3. Content(s, disk[s])'
      BY <1>5, <2>1, <2>3 DEF StoreApart, Content, Chain
    <3>4. q.snap = mem[s] \/ Waiting(s)
      BY <2>1, <2>3, <3>1 DEF StoreApart
    <3>5. Waiting(s) => Waiting(s)'
      BY <1>3 DEF Waiting
    <3> QED BY <1>3, <1>5, <2>3, <3>1, <3>2, <3>3, <3>4, <3>5 DEF StoreApart
  <2> QED BY <2>2, <2>3
<1>6. mem' = [z \in StoreNames |-> mem'[z]] /\ overlaps' \subseteq StoreNames /\ raced' \in BOOLEAN
  BY DEF AdInv
<1> QED BY <1>3, <1>4, <1>5, <1>6 DEF AdInv

\* The temporary file is opened and emptied.
LEMMA OpenStep == ASSUME AdInv, NEW c \in ShCalls, OpenTemp(c) PROVE AdInv'
<1>1. PICK o, s, q : o = sh[c] /\ s = o.store /\ q = [[o EXCEPT !.at = "fill"] EXCEPT !.fd = "tmp"]
  OBVIOUS
<1>2. /\ sh' = [sh EXCEPT ![c] = q] /\ o.at = "open" /\ tmp' = [tmp EXCEPT ![s] = Cleared] /\ UNCHANGED <<mem, disk, raced, overlaps>>
  BY <1>1 DEF OpenTemp
<1>3. ShCall(o) /\ s \in StoreNames
  BY <1>1, <1>2 DEF AdInv, ShCall, ShBusyAt
<1>4. SpelledAs(q, "fill", s, o.snap, "tmp", o)
  BY <1>1, <1>3, SpelledSave
<1>5. /\ q.at = "fill" /\ q.store = s /\ q.snap = o.snap /\ q.fd = "tmp"
      /\ q = [at |-> q.at, op |-> q.op, u |-> q.u, arg |-> q.arg, seen |-> q.seen, store |-> q.store, snap |-> q.snap, fd |-> q.fd]
  BY <1>4 DEF SpelledAs
<1>6. disk' = [z \in StoreNames |-> disk'[z]] /\ tmp' = [z \in StoreNames |-> tmp'[z]] /\ tmp'[s] = Cleared
      /\ \A z \in StoreNames : z # s => disk'[z] = disk[z] /\ tmp'[z] = tmp[z]
  BY <1>2, <1>3 DEF AdInv
<1>7. ShFile(s, disk'[s]) /\ ShFile(s, tmp'[s])
  BY <1>2, <1>3, <1>6 DEF AdInv, ShFile, ShSpecials
<1>8. /\ o.at \in {"open", "fill"} /\ q.at \in {"fill", "rename"} /\ UNCHANGED <<mem, raced, overlaps>>
      /\ s \notin overlaps => /\ disk'[s] = disk[s]
                              /\ q.at = "fill" => q.fd = "tmp" /\ tmp'[s] = Cleared
                              /\ q.at = "rename" => tmp'[s] = q.snap
  BY <1>2, <1>5, <1>6
<1>9. SaveAdvances(c, o, s, q)
  BY <1>1, <1>2, <1>5, <1>6, <1>7, <1>8 DEF SaveAdvances
<1> QED BY <1>9, SaveGoesOn

\* The snapshot is written, to where the descriptor leads.
LEMMA FillStep == ASSUME AdInv, NEW c \in ShCalls, FillTemp(c) PROVE AdInv'
<1>1. PICK o, s, q : o = sh[c] /\ s = o.store /\ q = [[o EXCEPT !.at = "rename"] EXCEPT !.fd = "none"]
  OBVIOUS
<1>2. /\ sh' = [sh EXCEPT ![c] = q] /\ o.at = "fill" /\ UNCHANGED <<mem, raced, overlaps>>
  BY <1>1 DEF FillTemp
<1>3. ShCall(o) /\ s \in StoreNames /\ ShHolds(s, o.snap)
  BY <1>1, <1>2 DEF AdInv, ShCall, ShBusyAt
<1>4. SpelledAs(q, "rename", s, o.snap, "none", o)
  BY <1>1, <1>3, SpelledSave
<1>5. /\ q.at = "rename" /\ q.store = s /\ q.snap = o.snap
      /\ q = [at |-> q.at, op |-> q.op, u |-> q.u, arg |-> q.arg, seen |-> q.seen, store |-> q.store, snap |-> q.snap, fd |-> q.fd]
  BY <1>4 DEF SpelledAs
<1>6. \/ o.fd = "tmp" /\ disk' = disk /\ \E v \in Filled(tmp[s], o.snap) : tmp' = [tmp EXCEPT ![s] = v]
      \/ o.fd = "disk" /\ tmp' = tmp /\ \E v \in Filled(disk[s], o.snap) : disk' = [disk EXCEPT ![s] = v]
      \/ o.fd = "gone" /\ disk' = disk /\ tmp' = tmp
  BY <1>1 DEF FillTemp
<1>7. disk' = [z \in StoreNames |-> disk'[z]] /\ tmp' = [z \in StoreNames |-> tmp'[z]]
      /\ \A z \in StoreNames : z # s => disk'[z] = disk[z] /\ tmp'[z] = tmp[z]
  BY <1>3, <1>6 DEF AdInv
<1>8. ShFile(s, disk'[s]) /\ ShFile(s, tmp'[s])
  <2>1. \A old : \A v \in Filled(old, o.snap) : ShFile(s, v)
    BY <1>3 DEF Filled, ShFile, ShSpecials
  <2>2. ShFile(s, disk[s]) /\ ShFile(s, tmp[s]) /\ disk = [z \in StoreNames |-> disk[z]] /\ tmp = [z \in StoreNames |-> tmp[z]]
    BY <1>3 DEF AdInv
  <2>3. disk'[s] = disk[s] \/ \E v \in Filled(disk[s], o.snap) : disk'[s] = v
    BY <1>3, <1>6, <2>2
  <2>4. tmp'[s] = tmp[s] \/ \E v \in Filled(tmp[s], o.snap) : tmp'[s] = v
    BY <1>3, <1>6, <2>2
  <2> QED BY <2>1, <2>2, <2>3, <2>4
<1>9. s \notin overlaps => disk'[s] = disk[s] /\ tmp'[s] = q.snap
  <2> SUFFICES ASSUME s \notin overlaps PROVE disk'[s] = disk[s] /\ tmp'[s] = q.snap
    OBVIOUS
  <2>1. StoreApart(s) /\ Busy(c, s)
    BY <1>1, <1>2, <1>3 DEF AdInv, Busy, ShBusyAt
  <2>2. o.fd = "tmp" /\ tmp[s] = Cleared
    BY <1>1, <1>2, <2>1 DEF StoreApart
  <2>3. Filled(tmp[s], o.snap) = {o.snap}
    BY <2>2 DEF Filled
  <2>4. tmp' = [tmp EXCEPT ![s] = o.snap] /\ disk' = disk
    BY <1>6, <2>2, <2>3
  <2> QED BY <1>3, <1>5, <2>4 DEF AdInv
<1>10. /\ o.at \in {"open", "fill"} /\ q.at \in {"fill", "rename"} /\ UNCHANGED <<mem, raced, overlaps>>
       /\ s \notin overlaps => /\ disk'[s] = disk[s]
                               /\ q.at = "fill" => q.fd = "tmp" /\ tmp'[s] = Cleared
                               /\ q.at = "rename" => tmp'[s] = q.snap
  BY <1>2, <1>5, <1>9
<1>11. SaveAdvances(c, o, s, q)
  BY <1>1, <1>2, <1>5, <1>7, <1>8, <1>10 DEF SaveAdvances
<1> QED BY <1>11, SaveGoesOn

\* A request but for its descriptor.
Refiled(q, o) == q.at = o.at /\ q.store = o.store /\ q.snap = o.snap /\ q.op = o.op /\ q.u = o.u /\ q.arg = o.arg /\ q.seen = o.seen

\* A descriptor that follows its file changes nothing else of its request.
LEMMA RefiledCall ==
    ASSUME NEW o, ShCall(o), NEW x, NEW q, q = [o EXCEPT !.fd = x]
    PROVE  Refiled(q, o) /\ ShCall(q)
<1>1. SpelledAs(q, o.at, o.store, o.snap, x, o)
  BY SpelledSave
<1>2. /\ Refiled(q, o)
      /\ q = [at |-> q.at, op |-> q.op, u |-> q.u, arg |-> q.arg, seen |-> q.seen, store |-> q.store, snap |-> q.snap, fd |-> q.fd]
  BY <1>1 DEF SpelledAs, Refiled
<1> QED BY <1>2 DEF ShCall, Refiled, Spares

\* What a request becomes when its file is renamed: it answers, or it goes on to the audit chain.
LEMMA AnsweredCall ==
    ASSUME NEW c, NEW q, q = Answered(c)
    PROVE  ShCall(q) /\ q.at \in {"idle", "apply"}
<1>1. CASE q = NoReq
  BY <1>1, NoReqCall
<1>2. CASE q = [[NoReq EXCEPT !.at = "apply"] EXCEPT !.op = "audit"]
  <2>1. q = [at |-> "apply", op |-> "audit", u |-> NoAccount, arg |-> {}, seen |-> {}, store |-> "none", snap |-> ShNoFile, fd |-> "none"]
    BY <1>2 DEF NoReq
  <2> QED BY <2>1 DEF ShCall, ShBusyAt, ShSurfaceOps
<1> QED BY <1>1, <1>2 DEF Answered

\* The file takes its place; descriptors of other saves of the store follow their files.
LEMMA RenameStep == ASSUME AdInv, NEW c \in ShCalls, Rename(c) PROVE AdInv'
<1>1. PICK o, s, v : o = sh[c] /\ s = o.store /\ v = tmp[s]
  OBVIOUS
<1>2. /\ o.at = "rename" /\ disk' = IF v = ShNoFile THEN disk ELSE [disk EXCEPT ![s] = v]
      /\ tmp' = [tmp EXCEPT ![s] = ShNoFile] /\ UNCHANGED <<mem, raced, overlaps>>
      /\ sh' = [d \in ShCalls |->
                  IF d = c THEN Answered(c)
                  ELSE IF sh[d].store = s /\ v # ShNoFile THEN [sh[d] EXCEPT !.fd = Follow(sh[d].fd)] ELSE sh[d]]
  BY <1>1 DEF Rename
<1>3. ShCall(o) /\ s \in StoreNames /\ ShHolds(s, o.snap)
  BY <1>1, <1>2 DEF AdInv, ShCall, ShBusyAt
<1>4. sh' = [d \in ShCalls |-> sh'[d]] /\ sh'[c] = Answered(c)
  BY <1>2
<1>5. ShCall(sh'[c]) /\ sh'[c].at \in {"idle", "apply"}
  BY <1>4, AnsweredCall
<1>6. ASSUME NEW d \in ShCalls, d # c
      PROVE  /\ ShCall(sh'[d]) /\ Refiled(sh'[d], sh[d])
             /\ sh[d].store # s => sh'[d] = sh[d]
  <2>1. ShCall(sh[d])
    BY DEF AdInv
  <2>2. sh'[d] = sh[d] \/ (sh[d].store = s /\ sh'[d] = [sh[d] EXCEPT !.fd = Follow(sh[d].fd)])
    BY <1>2, <1>6
  <2>3. CASE sh'[d] = sh[d]
    BY <2>1, <2>3 DEF Refiled
  <2>4. CASE sh[d].store = s /\ sh'[d] = [sh[d] EXCEPT !.fd = Follow(sh[d].fd)]
    BY <2>1, <2>4, RefiledCall
  <2> QED BY <2>2, <2>3, <2>4
<1>7. ASSUME NEW d \in ShCalls PROVE ShCall(sh[d])'
  <2>1. ShCall(sh'[d])
    BY <1>5, <1>6
  <2> QED BY <1>2, <2>1 DEF ShCall, Spares, ShHolds, Content, Chain, HasAdmin
<1>8. /\ disk' = [z \in StoreNames |-> disk'[z]] /\ tmp' = [z \in StoreNames |-> tmp'[z]]
      /\ tmp'[s] = ShNoFile /\ (v # ShNoFile => disk'[s] = v) /\ (v = ShNoFile => disk' = disk)
      /\ \A z \in StoreNames : z # s => disk'[z] = disk[z] /\ tmp'[z] = tmp[z]
  BY <1>2, <1>3 DEF AdInv
<1>9. ASSUME NEW z \in StoreNames PROVE ShHolds(z, mem[z])' /\ ShFile(z, disk[z])' /\ ShFile(z, tmp[z])'
  <2>1. ShHolds(z, mem[z]) /\ ShFile(z, disk[z]) /\ ShFile(z, tmp[z])
    BY DEF AdInv
  <2>2. ShFile(z, disk'[z]) /\ ShFile(z, tmp'[z])
    BY <1>1, <1>8, <2>1 DEF ShFile, ShSpecials
  <2> QED BY <1>2, <2>1, <2>2 DEF ShHolds, ShFile, Content, Chain, HasAdmin, ShSpecials
<1>10. ASSUME NEW z \in StoreNames \ overlaps PROVE StoreApart(z)'
  <2>1. StoreApart(z)
    BY DEF AdInv
  <2>2. CASE z # s
    <3>1. ~Saving(c, z) /\ ~Saving(c, z)'
      BY <1>1, <1>5, <2>2 DEF Saving
    <3>2. \A d \in ShCalls : sh'[d] = sh[d] \/ (~Saving(d, z) /\ ~Saving(d, z)')
      BY <1>6, <2>2, <3>1 DEF Saving, Refiled
    <3> QED BY <1>2, <1>8, <2>1, <2>2, <3>2, Elsewhere
  <2>3. CASE z = s
    <3>1. Busy(c, s)
      BY <1>1, <1>2 DEF Busy, ShBusyAt
    <3>2. \A d \in ShCalls : d # c => ~Busy(d, s)
      BY <2>1, <2>3, <3>1 DEF StoreApart
    <3>3. \A d \in ShCalls : ~Busy(d, s)'
      BY <1>5, <1>6, <3>2 DEF Busy, ShBusyAt, Refiled
    <3>4. v = o.snap /\ (o.snap = mem[s] \/ Waiting(s))
      BY <1>1, <1>2, <2>1, <2>3, <3>1 DEF StoreApart
    <3>5. Content(s, v) /\ v # ShNoFile
      BY <1>3, <3>4, ContentParses DEF ShHolds, ShSpecials
    <3>6. Content(s, disk[s])'
      BY <1>8, <3>5 DEF Content, Chain
    <3>7. Waiting(s) => \E d \in ShCalls : Saving(d, s)'
      BY <1>1, <1>2, <1>6 DEF Waiting, Saving, Refiled
    <3> QED BY <1>2, <1>8, <2>3, <3>3, <3>4, <3>5, <3>6, <3>7 DEF StoreApart
  <2> QED BY <2>2, <2>3
<1>11. mem' = [z \in StoreNames |-> mem'[z]] /\ overlaps' \subseteq StoreNames /\ raced' \in BOOLEAN
  BY <1>2 DEF AdInv
<1>12. \A z \in StoreNames \ overlaps' : StoreApart(z)'
  BY <1>2, <1>10
<1> QED BY <1>4, <1>7, <1>8, <1>9, <1>11, <1>12 DEF AdInv

\* What a store holds without a file: the accounts of the config, or nothing.
LEMMA BlankHolds == ASSUME NEW s \in StoreNames PROVE ShHolds(s, Blank(s)) /\ (s = "users" => Blank(s) = Seed)
<1>1. s = "users" => Blank(s) = Seed
  BY DEF Blank, StoreNames
<1>2. CASE s = "users"
  BY <1>1, <1>2, ShellAssumption DEF ShHolds, Content, HasAdmin
<1>3. CASE s = "audit"
  <2>1. Blank(s) = <<>>
    BY <1>3 DEF Blank
  <2>2. Chain(<<>>)
    BY DEF Chain, AuditRows
  <2> QED BY <1>3, <2>1, <2>2 DEF ShHolds, Content
<1>4. CASE s \in StoreNames \ {"users", "audit"}
  <2>1. Blank(s) = {}
    BY <1>4 DEF Blank
  <2> QED BY <1>4, <2>1 DEF ShHolds, Content
<1> QED BY <1>1, <1>2, <1>3, <1>4

\* Nobody saves: the stores are apart when their files are what they hold.
LEMMA ApartAtRest ==
    ASSUME NEW s \in StoreNames, ShHolds(s, mem[s]), disk[s] = mem[s], \A c \in ShCalls : sh[c] = NoReq
    PROVE  StoreApart(s)
<1>1. \A c \in ShCalls : ~Busy(c, s)
  BY NoReqCall DEF Busy, ShBusyAt
<1> QED BY <1>1 DEF StoreApart, ShHolds

\* A restart reads what the files hold.
LEMMA LoadStep == ASSUME AdInv, LoadStores PROVE AdInv'
<1>1. /\ mem' = [s \in StoreNames |-> IF ~Parses(s) THEN Blank(s)
                                      ELSE IF s = "users" THEN SeedFromConfig(disk[s]) ELSE disk[s]]
      /\ sh' = [c \in ShCalls |-> NoReq] /\ disk' = [disk EXCEPT !["users"] = mem'["users"]]
      /\ UNCHANGED <<tmp, raced, overlaps>>
  BY DEF LoadStores
<1>2. \A c \in ShCalls : sh'[c] = NoReq
  BY <1>1
<1>3. ASSUME NEW s \in StoreNames
      PROVE  ShHolds(s, mem'[s]) /\ (s # "users" /\ Parses(s) => mem'[s] = disk[s])
  <2>1. ShHolds(s, Blank(s)) /\ (s = "users" => Blank(s) = Seed)
    BY BlankHolds
  <2>2. Parses(s) => ShHolds(s, disk[s])
    BY DEF AdInv, ShFile, ShSpecials, Parses
  <2>3. mem'[s] = IF ~Parses(s) THEN Blank(s) ELSE IF s = "users" THEN SeedFromConfig(disk[s]) ELSE disk[s]
    BY <1>1
  <2> QED BY <2>1, <2>2, <2>3 DEF SeedFromConfig
<1>4. /\ disk' = [z \in StoreNames |-> disk'[z]] /\ disk'["users"] = mem'["users"]
      /\ \A z \in StoreNames : z # "users" => disk'[z] = disk[z]
  BY <1>1 DEF AdInv, StoreNames
<1>5. ASSUME NEW z \in StoreNames PROVE ShHolds(z, mem[z])' /\ ShFile(z, disk[z])' /\ ShFile(z, tmp[z])'
  <2>1. ShFile(z, disk[z]) /\ ShFile(z, tmp[z])
    BY DEF AdInv
  <2>2. ShHolds(z, mem'[z]) /\ ShFile(z, disk'[z]) /\ ShFile(z, tmp'[z])
    BY <1>1, <1>3, <1>4, <2>1 DEF ShFile
  <2> QED BY <1>1, <2>2 DEF ShHolds, ShFile, Content, Chain, HasAdmin, ShSpecials
<1>6. ASSUME NEW z \in StoreNames \ overlaps PROVE StoreApart(z)'
  <2>1. Parses(z)
    BY ContentParses DEF AdInv, StoreApart, Parses, ShSpecials
  <2>2. disk'[z] = mem'[z]
    BY <1>3, <1>4, <2>1
  <2>3. \A c \in ShCalls : ~Busy(c, z)'
    BY <1>2, NoReqCall DEF Busy, ShBusyAt
  <2>4. Content(z, disk'[z])
    BY <1>3, <2>2 DEF ShHolds
  <2>5. Content(z, disk[z])'
    BY <2>4 DEF Content, Chain
  <2> QED BY <2>2, <2>3, <2>5 DEF StoreApart
<1>7. /\ mem' = [z \in StoreNames |-> mem'[z]] /\ sh' = [c \in ShCalls |-> sh'[c]] /\ tmp' = [z \in StoreNames |-> tmp'[z]]
      /\ overlaps' \subseteq StoreNames /\ raced' \in BOOLEAN
  BY <1>1 DEF AdInv
<1>8. \A z \in StoreNames \ overlaps' : StoreApart(z)'
  BY <1>1, <1>6
<1>9. \A c \in ShCalls : ShCall(sh[c])'
  BY <1>2, NoReqCall
<1> QED BY <1>4, <1>5, <1>7, <1>8, <1>9 DEF AdInv

\* A full audit file is a chain.
LEMMA FullChainHolds == Chain(FullChain)
<1>1. FullChain \in AuditRows /\ Len(FullChain) = AuditCap
  BY ShellAssumption DEF FullChain, AuditRows
<1>2. \A i \in 1 .. AuditCap : FullChain[i].seq = i - 1 /\ FullChain[i].prev = i - 2
  BY DEF FullChain
<1> QED BY <1>1, <1>2, ShellAssumption DEF Chain

\* The stores at the start.
LEMMA AdInvInit == ASSUME StoreFileInit PROVE AdInv
<1>1. PICK rows \in {<<>>, FullChain} : mem = [s \in StoreNames |-> IF s = "audit" THEN rows ELSE Blank(s)]
  BY DEF StoreFileInit
<1>2. /\ disk = mem /\ tmp = [s \in StoreNames |-> ShNoFile] /\ sh = [c \in ShCalls |-> NoReq] /\ raced = FALSE /\ overlaps = {}
  BY DEF StoreFileInit
<1>3. ASSUME NEW s \in StoreNames PROVE ShHolds(s, mem[s])
  <2>1. CASE s = "audit"
    <3>1. ShHolds(s, Blank(s)) /\ Blank(s) = <<>>
      BY <2>1, BlankHolds DEF Blank
    <3>2. ShHolds(s, FullChain)
      BY <2>1, FullChainHolds DEF ShHolds, Content
    <3> QED BY <1>1, <2>1, <3>1, <3>2
  <2>2. CASE s # "audit"
    BY <1>1, <2>2, BlankHolds
  <2> QED BY <2>1, <2>2
<1>4. \A s \in StoreNames : ShFile(s, disk[s]) /\ ShFile(s, tmp[s])
  BY <1>2, <1>3 DEF ShFile, ShSpecials
<1>5. \A c \in ShCalls : sh[c] = NoReq /\ ShCall(sh[c])
  BY <1>2, NoReqCall
<1>6. \A s \in StoreNames : StoreApart(s)
  BY <1>2, <1>3, <1>5, ApartAtRest
<1> QED BY <1>1, <1>2, <1>3, <1>4, <1>5, <1>6 DEF AdInv

\* Every step of the shell's stores, and every step elsewhere.
LEMMA AdInvStep ==
    ASSUME AdInv, AccountsNext \/ SurfacesNext \/ UNCHANGED storeFileVars
    PROVE  AdInv'
<1>1. CASE SaveStep
  BY <1>1, ApplyStep, SnapStep, OpenStep, FillStep, RenameStep, LoadStep DEF SaveStep
<1>2. CASE AccountsNext /\ ~SaveStep
  BY <1>2, AccountHandlers DEF AccountsNext
<1>3. CASE SurfacesNext /\ ~SaveStep
  BY <1>3, SurfaceHandlers DEF SurfacesNext
<1>4. CASE UNCHANGED storeFileVars
  <2>1. UNCHANGED <<mem, disk, tmp, sh, raced, overlaps>>
    BY <1>4 DEF storeFileVars
  <2>2. /\ \A s \in StoreNames : ShHolds(s, mem[s])' /\ ShFile(s, disk[s])' /\ ShFile(s, tmp[s])'
        /\ \A c \in ShCalls : ShCall(sh[c])'
    BY <2>1 DEF AdInv, ShHolds, ShFile, ShSpecials, Content, Chain, HasAdmin, ShCall, Spares
  <2>3. \A s \in StoreNames \ overlaps : StoreApart(s)'
    BY <2>1, Elsewhere DEF AdInv
  <2> QED BY <2>1, <2>2, <2>3 DEF AdInv
<1> QED BY <1>1, <1>2, <1>3, <1>4

\* What the invariant says of accounts, files and the audit chain.
LEMMA AdInvSound == ASSUME AdInv PROVE ShTypeOK /\ SavesAtomic /\ AnAdminRemains /\ ChainIntact
<1>1. ShTypeOK
  BY DEF AdInv, ShTypeOK, ShHolds, Content, StoreNames
<1>2. SavesAtomic
  BY ContentParses DEF AdInv, SavesAtomic, StoreApart, Parses, ShSpecials
<1>3. AnAdminRemains
  BY DEF AdInv, ShHolds, HasAdmin, AnAdminRemains, EnabledAdmins, StoreNames
<1>4. Chain(mem["audit"])
  BY DEF AdInv, ShHolds, Content, StoreNames
<1>5. ChainIntact
  <2>1. PICK rows : rows = mem["audit"]
    OBVIOUS
  <2>2. /\ rows \in AuditRows /\ \A i \in 1 .. Len(rows) : rows[i].prev = rows[i].seq - 1
        /\ \A i \in 2 .. Len(rows) : rows[i].seq = rows[i - 1].seq + 1
    BY <1>4, <2>1 DEF Chain
  <2>3. Len(rows) \in Nat /\ \A i \in 1 .. Len(rows) : rows[i].seq \in Int
    <3>1. Len(rows) \in Nat /\ \A i \in 1 .. Len(rows) : rows[i] \in [seq : Int, prev : Int]
      BY <2>2, LenProperties DEF AuditRows
    <3> QED BY <3>1
  <2>4. \A i \in 2 .. Len(rows) : rows[i].prev = rows[i - 1].seq
    <3> SUFFICES ASSUME NEW i \in 2 .. Len(rows) PROVE rows[i].prev = rows[i - 1].seq
      OBVIOUS
    <3>1. i \in 1 .. Len(rows) /\ i - 1 \in 1 .. Len(rows)
      BY <2>3
    <3> QED BY <2>2, <2>3, <3>1
  <2>5. rows # <<>> /\ Head(rows).seq = 0 => \A i \in 1 .. Len(rows) : IntegrityOK(rows, i)
    <3> SUFFICES ASSUME rows # <<>>, Head(rows).seq = 0, NEW i \in 1 .. Len(rows) PROVE IntegrityOK(rows, i)
      OBVIOUS
    <3>1. rows[1].seq = 0
      BY <2>2 DEF AuditRows
    <3>2. ASSUME NEW j \in 1 .. i
          PROVE  /\ rows[j].prev = (IF j = 1 THEN -1 ELSE rows[j - 1].seq)
                 /\ rows[j].seq = (IF j = 1 THEN 0 ELSE rows[j - 1].seq + 1)
      <4>1. j \in 1 .. Len(rows) /\ (j = 1 \/ j \in 2 .. Len(rows))
        BY <2>3
      <4> QED BY <2>2, <2>4, <3>1, <4>1
    <3> QED BY <3>2 DEF IntegrityOK
  <2> QED BY <2>1, <2>2, <2>4, <2>5 DEF ChainIntact
<1> QED BY <1>1, <1>2, <1>3, <1>5

-----------------------------------------------------------------------------
(* The manifest registry                                                     *)

MfSteps == {"upsert", "upsertOwn", "ensure", "rotate", "rotateUsed", "revoke", "auth", "beat", "refresh", "refreshOwn",
            "remove", "expire"}

\* A registration when n keys have been issued.
Shaped(e) == e = [api |-> e.api, hash |-> e.hash, prev |-> e.prev, revoked |-> e.revoked, used |-> e.used, fresh |-> e.fresh]
MfKeyed(e, n) ==
  /\ e.hash \in 0 .. n /\ e.prev \in 0 .. n /\ e.api \in {Own} \cup 0 .. n
  /\ e.hash # 0 => e.api \in {e.hash, Own}
  /\ e.revoked => e.hash = 0 /\ e.prev = 0
  /\ e.prev # 0 => e.prev < e.hash
Flagged(e) == e.revoked \in BOOLEAN /\ e.used \in BOOLEAN /\ e.fresh \in BOOLEAN
MfEntry(e, n) == Shaped(e) /\ MfKeyed(e, n) /\ Flagged(e)
MfSlot(e, n) == e = Absent \/ MfEntry(e, n)

\* A registration has the type of one.
LEMMA EntryTyped == ASSUME NEW n \in 0 .. MaxKeys, NEW e, MfEntry(e, n) PROVE e \in Entry /\ e # Absent
<1>1. e = [api |-> e.api, hash |-> e.hash, prev |-> e.prev, revoked |-> e.revoked, used |-> e.used, fresh |-> e.fresh]
  BY DEF MfEntry, Shaped
<1>2. e.api \in {Own} \cup 0 .. MaxKeys /\ e.hash \in 0 .. MaxKeys /\ e.prev \in 0 .. MaxKeys
  BY MfAssumption DEF MfEntry, MfKeyed
<1>3. e.revoked \in BOOLEAN /\ e.used \in BOOLEAN /\ e.fresh \in BOOLEAN
  BY Zenon DEF MfEntry, Flagged
<1>4. e \in Entry
  BY <1>1, <1>2, <1>3, Zenon DEF Entry
<1> QED BY <1>4, MfAssumption, Zenon

\* More keys may be issued.
LEMMA SlotStays == ASSUME NEW n \in Nat, NEW k \in Nat, n <= k, NEW e, MfSlot(e, n) PROVE MfSlot(e, k)
<1>1. MfKeyed(e, n) => MfKeyed(e, k)
  BY DEF MfKeyed
<1> QED BY <1>1 DEF MfSlot, MfEntry

\* A registration by its fields.
MfEntryOf(api, hash, prev, gone, used, seen) ==
  [api |-> api, hash |-> hash, prev |-> prev, revoked |-> gone, used |-> used, fresh |-> seen]

\* Keys that agree, and flags.
KeysFit(api, hash, prev, gone, n) ==
  /\ hash \in 0 .. n /\ prev \in 0 .. n /\ api \in {Own} \cup 0 .. n
  /\ hash # 0 => api \in {hash, Own}
  /\ gone => hash = 0 /\ prev = 0
  /\ prev # 0 => prev < hash
FlagsFit(gone, used, seen) == gone \in BOOLEAN /\ used \in BOOLEAN /\ seen \in BOOLEAN

\* What makes a registration: a live key, or none.
LEMMA AnEntry ==
    ASSUME NEW n, NEW api, NEW hash, NEW prev, NEW gone, NEW used, NEW seen, KeysFit(api, hash, prev, gone, n),
           FlagsFit(gone, used, seen), NEW e, e = MfEntryOf(api, hash, prev, gone, used, seen)
    PROVE  MfEntry(e, n)
<1>1. Shaped(e) /\ e.api = api /\ e.hash = hash /\ e.prev = prev /\ e.revoked = gone /\ e.used = used /\ e.fresh = seen
  BY DEF MfEntryOf, Shaped
<1>2. MfKeyed(e, n)
  BY <1>1 DEF MfKeyed, KeysFit
<1>3. Flagged(e)
  BY <1>1, Zenon DEF Flagged, FlagsFit
<1> QED BY <1>1, <1>2, <1>3 DEF MfEntry

\* The flags of a registration, and what an operation sets.
LEMMA FlagsOf ==
    ASSUME NEW e, NEW n, MfEntry(e, n)
    PROVE  /\ FlagsFit(e.revoked, e.used, e.fresh) /\ FlagsFit(e.revoked, e.used, TRUE) /\ FlagsFit(e.revoked, TRUE, e.fresh)
           /\ FlagsFit(FALSE, e.used, e.fresh) /\ FlagsFit(TRUE, e.used, e.fresh)
           /\ KeysFit(e.api, e.hash, e.prev, e.revoked, n)
<1>1. e.revoked \in BOOLEAN /\ e.used \in BOOLEAN /\ e.fresh \in BOOLEAN
  BY Zenon DEF MfEntry, Flagged
<1>2. KeysFit(e.api, e.hash, e.prev, e.revoked, n)
  BY Zenon DEF MfEntry, MfKeyed, KeysFit
<1> QED BY <1>1, <1>2, Zenon DEF FlagsFit

Presented(e, x, y) == [e EXCEPT !.prev = x, !.used = y]
Refreshed(e, x, y) == [e EXCEPT !.fresh = x, !.api = y]

\* What the operations make of the fields of a registration.
LEMMA EntryFields ==
    ASSUME NEW e, Shaped(e), NEW x, NEW y
    PROVE  /\ [e EXCEPT !.api = x] = MfEntryOf(x, e.hash, e.prev, e.revoked, e.used, e.fresh)
           /\ [e EXCEPT !.fresh = x] = MfEntryOf(e.api, e.hash, e.prev, e.revoked, e.used, x)
           /\ [e EXCEPT !.used = x] = MfEntryOf(e.api, e.hash, e.prev, e.revoked, x, e.fresh)
           /\ Presented(e, x, y) = MfEntryOf(e.api, e.hash, x, e.revoked, y, e.fresh)
           /\ [e EXCEPT !.api = x, !.prev = e.hash, !.hash = x] = MfEntryOf(x, x, e.hash, e.revoked, e.used, e.fresh)
           /\ [e EXCEPT !.api = x, !.hash = x, !.prev = 0, !.revoked = y] = MfEntryOf(x, x, 0, y, e.used, e.fresh)
<1>. e = [api |-> e.api, hash |-> e.hash, prev |-> e.prev, revoked |-> e.revoked, used |-> e.used, fresh |-> e.fresh]
  BY DEF Shaped
<1>1. [e EXCEPT !.fresh = x] = MfEntryOf(e.api, e.hash, e.prev, e.revoked, e.used, x)
  BY DEF MfEntryOf
<1>2. [e EXCEPT !.used = x] = MfEntryOf(e.api, e.hash, e.prev, e.revoked, x, e.fresh)
  BY DEF MfEntryOf
<1>3. Presented(e, x, y) = MfEntryOf(e.api, e.hash, x, e.revoked, y, e.fresh)
  <2> DEFINE r1 == [e EXCEPT !.prev = x]
  <2>1. r1 = [api |-> e.api, hash |-> e.hash, prev |-> x, revoked |-> e.revoked, used |-> e.used, fresh |-> e.fresh]
    OBVIOUS
  <2> HIDE DEF r1
  <2> DEFINE r2 == [r1 EXCEPT !.used = y]
  <2>2. r2 = [api |-> e.api, hash |-> e.hash, prev |-> x, revoked |-> e.revoked, used |-> y, fresh |-> e.fresh]
    BY <2>1
  <2> QED BY <2>2 DEF MfEntryOf, Presented, r1
<1>5. [e EXCEPT !.api = x, !.prev = e.hash, !.hash = x] = MfEntryOf(x, x, e.hash, e.revoked, e.used, e.fresh)
  <2> DEFINE r1 == [e EXCEPT !.api = x]
  <2>1. r1 = [api |-> x, hash |-> e.hash, prev |-> e.prev, revoked |-> e.revoked, used |-> e.used, fresh |-> e.fresh]
    OBVIOUS
  <2> HIDE DEF r1
  <2> DEFINE r2 == [r1 EXCEPT !.prev = e.hash]
  <2>2. r2 = [api |-> x, hash |-> e.hash, prev |-> e.hash, revoked |-> e.revoked, used |-> e.used, fresh |-> e.fresh]
    BY <2>1
  <2> HIDE DEF r2
  <2> DEFINE r3 == [r2 EXCEPT !.hash = x]
  <2>3. r3 = [api |-> x, hash |-> x, prev |-> e.hash, revoked |-> e.revoked, used |-> e.used, fresh |-> e.fresh]
    BY <2>2
  <2> QED BY <2>3 DEF MfEntryOf, r1, r2
<1>6. [e EXCEPT !.api = x, !.hash = x, !.prev = 0, !.revoked = y] = MfEntryOf(x, x, 0, y, e.used, e.fresh)
  <2> DEFINE r1 == [e EXCEPT !.api = x]
  <2>1. r1 = [api |-> x, hash |-> e.hash, prev |-> e.prev, revoked |-> e.revoked, used |-> e.used, fresh |-> e.fresh]
    OBVIOUS
  <2> HIDE DEF r1
  <2> DEFINE r2 == [r1 EXCEPT !.hash = x]
  <2>2. r2 = [api |-> x, hash |-> x, prev |-> e.prev, revoked |-> e.revoked, used |-> e.used, fresh |-> e.fresh]
    BY <2>1
  <2> HIDE DEF r2
  <2> DEFINE r3 == [r2 EXCEPT !.prev = 0]
  <2>3. r3 = [api |-> x, hash |-> x, prev |-> 0, revoked |-> e.revoked, used |-> e.used, fresh |-> e.fresh]
    BY <2>2
  <2> HIDE DEF r3
  <2> DEFINE r4 == [r3 EXCEPT !.revoked = y]
  <2>4. r4 = [api |-> x, hash |-> x, prev |-> 0, revoked |-> y, used |-> e.used, fresh |-> e.fresh]
    BY <2>3
  <2> QED BY <2>4 DEF MfEntryOf, r1, r2, r3
<1>7. [e EXCEPT !.api = x] = MfEntryOf(x, e.hash, e.prev, e.revoked, e.used, e.fresh)
  BY DEF MfEntryOf
<1> QED BY <1>1, <1>2, <1>3, <1>5, <1>6, <1>7

\* A registration with a credential of the module's own.
Supplied(e) == [e EXCEPT !.api = Own]

\* A manifest that replaces the one registered.
LEMMA ReplacedFields ==
    ASSUME NEW e, Shaped(e), NEW x, NEW y
    PROVE  /\ Refreshed(e, x, y) = MfEntryOf(y, e.hash, e.prev, e.revoked, e.used, x)
           /\ Supplied(e) = MfEntryOf(Own, e.hash, e.prev, e.revoked, e.used, e.fresh)
<1>. e = [api |-> e.api, hash |-> e.hash, prev |-> e.prev, revoked |-> e.revoked, used |-> e.used, fresh |-> e.fresh]
  BY DEF Shaped
<1>1. Refreshed(e, x, y) = MfEntryOf(y, e.hash, e.prev, e.revoked, e.used, x)
  <2> DEFINE r1 == [e EXCEPT !.fresh = x]
  <2>1. r1 = [api |-> e.api, hash |-> e.hash, prev |-> e.prev, revoked |-> e.revoked, used |-> e.used, fresh |-> x]
    OBVIOUS
  <2> HIDE DEF r1
  <2> DEFINE r2 == [r1 EXCEPT !.api = y]
  <2>2. r2 = [api |-> y, hash |-> e.hash, prev |-> e.prev, revoked |-> e.revoked, used |-> e.used, fresh |-> x]
    BY <2>1
  <2> QED BY <2>2 DEF MfEntryOf, Refreshed, r1
<1>2. Supplied(e) = MfEntryOf(Own, e.hash, e.prev, e.revoked, e.used, e.fresh)
  BY EntryFields DEF Supplied
<1> QED BY <1>1, <1>2

\* What an operation leaves: a registration whose credentials agree, or none;
\* n keys were issued before it, and one more when it is saved with a new key.
Performed(out, step, e, n) ==
  /\ out.then \in {"save", "next", "stop"}
  /\ MfSlot(out.e, IF step \in KeySteps /\ out.then = "save" THEN n + 1 ELSE n)
  /\ e = Absent /\ step \notin {"upsert", "upsertOwn"} => out.e = Absent

\* An outcome by its two parts.
LEMMA OutcomeParts == ASSUME NEW e, NEW then PROVE Outcome(e, then).e = e /\ Outcome(e, then).then = then
BY DEF Outcome

\* A registration with what the module sends: a credential of its own, or none.
LEMMA UpsertEntry ==
    ASSUME NEW n \in Nat, NEW e, MfSlot(e, n), NEW own \in BOOLEAN
    PROVE  MfSlot(Upsert(e, own), n)
<1>1. Shaped(Registered) /\ Registered = MfEntryOf(0, 0, 0, FALSE, FALSE, TRUE)
  BY DEF Registered, Shaped, MfEntryOf
<1>2. \A x \in {0, Own} : KeysFit(x, 0, 0, FALSE, n) /\ FlagsFit(FALSE, FALSE, TRUE)
  BY DEF KeysFit, FlagsFit
<1>3. MfEntry(Registered, n)
  BY <1>1, <1>2, AnEntry
<1>4. CASE own
  <2> DEFINE r == Supplied(Registered)
  <2>1. r = MfEntryOf(Own, 0, 0, FALSE, FALSE, TRUE)
    <3>1. r = MfEntryOf(Own, Registered.hash, Registered.prev, Registered.revoked, Registered.used, Registered.fresh)
      BY <1>1, ReplacedFields
    <3>2. /\ Registered.hash = 0 /\ Registered.prev = 0 /\ Registered.revoked = FALSE /\ Registered.used = FALSE
          /\ Registered.fresh = TRUE
      BY DEF Registered
    <3> QED BY <3>1, <3>2, Zenon
  <2> HIDE DEF r
  <2>2. MfEntry(r, n)
    BY <1>2, <2>1, AnEntry
  <2> QED BY <1>4, <2>2 DEF Upsert, MfSlot, Supplied, r
<1>5. CASE ~own /\ e = Absent
  BY <1>3, <1>5 DEF Upsert, MfSlot
<1>6. CASE ~own /\ e # Absent
  <2> DEFINE r == [e EXCEPT !.fresh = TRUE]
  <2>1. MfEntry(e, n)
    BY <1>6 DEF MfSlot
  <2>2. r = MfEntryOf(e.api, e.hash, e.prev, e.revoked, e.used, TRUE)
    BY <2>1, EntryFields DEF MfEntry
  <2> HIDE DEF r
  <2>3. MfEntry(r, n)
    BY <2>1, <2>2, AnEntry, FlagsOf
  <2> QED BY <1>6, <2>3 DEF Upsert, MfSlot, r
<1> QED BY <1>4, <1>5, <1>6

\* A key for a registration that has none.
LEMMA EnsureEntry ==
    ASSUME NEW n \in Nat, NEW e, MfSlot(e, n), NEW out, out = EnsureServiceKey(e, n + 1)
    PROVE  Performed(out, "ensure", e, n)
<1>1. CASE e = Absent
  BY <1>1, OutcomeParts DEF EnsureServiceKey, Performed, MfSlot
<1>2. CASE e # Absent /\ e.hash # 0 /\ ~e.revoked
  BY <1>2, OutcomeParts DEF EnsureServiceKey, Performed
<1>3. CASE e # Absent /\ ~(e.hash # 0 /\ ~e.revoked)
  <2> DEFINE r == [e EXCEPT !.api = n + 1, !.hash = n + 1, !.prev = 0, !.revoked = FALSE]
  <2>1. MfEntry(e, n)
    BY <1>3 DEF MfSlot
  <2>2. out = Outcome(r, "save")
    BY <1>3 DEF EnsureServiceKey
  <2>3. r = MfEntryOf(n + 1, n + 1, 0, FALSE, e.used, e.fresh)
    BY <2>1, EntryFields DEF MfEntry
  <2> HIDE DEF r
  <2>4. MfEntry(r, n + 1)
    <3>1. KeysFit(n + 1, n + 1, 0, FALSE, n + 1)
      BY DEF KeysFit
    <3> QED BY <2>1, <2>3, <3>1, AnEntry, FlagsOf
  <2> QED BY <1>3, <2>2, <2>4, OutcomeParts DEF Performed, MfSlot, KeySteps
<1> QED BY <1>1, <1>2, <1>3

\* A new key beside the old one.
LEMMA RotateEntry ==
    ASSUME NEW n \in Nat, NEW e, MfSlot(e, n), NEW out, out = RotateServiceKey(e, n + 1), NEW step \in {"rotate", "rotateUsed"}
    PROVE  Performed(out, step, e, n)
<1>1. CASE e = Absent \/ e.hash = 0 \/ e.revoked
  BY <1>1, OutcomeParts DEF RotateServiceKey, Performed
<1>2. CASE ~(e = Absent \/ e.hash = 0 \/ e.revoked)
  <2> DEFINE r == [e EXCEPT !.api = n + 1, !.prev = e.hash, !.hash = n + 1]
  <2>1. MfEntry(e, n)
    BY <1>2 DEF MfSlot
  <2>2. out = Outcome(r, "save")
    BY <1>2 DEF RotateServiceKey
  <2>3. r = MfEntryOf(n + 1, n + 1, e.hash, e.revoked, e.used, e.fresh)
    BY <2>1, EntryFields DEF MfEntry
  <2>4. e.hash \in 0 .. n /\ e.hash < n + 1 /\ e.revoked = FALSE
    BY <1>2, <2>1 DEF MfEntry, MfKeyed, Flagged
  <2> HIDE DEF r
  <2>5. MfEntry(r, n + 1)
    <3>1. KeysFit(n + 1, n + 1, e.hash, e.revoked, n + 1)
      BY <2>4 DEF KeysFit
    <3> QED BY <2>1, <2>3, <3>1, AnEntry, FlagsOf
  <2> QED BY <1>2, <2>2, <2>5, OutcomeParts DEF Performed, MfSlot, KeySteps
<1> QED BY <1>1, <1>2

\* A key that is honoured no more.
LEMMA RevokeEntry ==
    ASSUME NEW n \in Nat, NEW e, MfSlot(e, n), NEW out, out = RevokeServiceKey(e)
    PROVE  Performed(out, "revoke", e, n)
<1>1. CASE e = Absent \/ e.hash = 0
  BY <1>1, OutcomeParts DEF RevokeServiceKey, Performed, KeySteps
<1>2. CASE ~(e = Absent \/ e.hash = 0)
  <2> DEFINE r == [e EXCEPT !.api = 0, !.hash = 0, !.prev = 0, !.revoked = TRUE]
  <2>1. MfEntry(e, n)
    BY <1>2 DEF MfSlot
  <2>2. out = Outcome(r, "save")
    BY <1>2 DEF RevokeServiceKey
  <2>3. r = MfEntryOf(0, 0, 0, TRUE, e.used, e.fresh)
    BY <2>1, EntryFields DEF MfEntry
  <2> HIDE DEF r
  <2>4. MfEntry(r, n)
    <3>1. KeysFit(0, 0, 0, TRUE, n)
      BY DEF KeysFit
    <3> QED BY <2>1, <2>3, <3>1, AnEntry, FlagsOf
  <2> QED BY <1>2, <2>2, <2>4, OutcomeParts DEF Performed, MfSlot, KeySteps
<1> QED BY <1>1, <1>2

\* A key that is presented.
LEMMA AuthEntry ==
    ASSUME NEW n \in Nat, NEW e, MfSlot(e, n), NEW k, NEW inGrace, NEW out, out = AuthServiceKey(e, k, inGrace)
    PROVE  Performed(out, "auth", e, n)
<1> DEFINE r == Presented(e, 0, TRUE)
           s == [e EXCEPT !.used = TRUE]
<1>1. \/ out = Outcome(e, "stop")
      \/ e # Absent /\ \E x \in {"next", "save"} : out = Outcome(r, x)
      \/ e # Absent /\ \E x \in {"next", "save"} : out = Outcome(s, x)
  BY DEF AuthServiceKey, Presented
<1>2. ASSUME e # Absent PROVE MfEntry(r, n) /\ MfEntry(s, n)
  <2>1. MfEntry(e, n)
    BY <1>2 DEF MfSlot
  <2>2. r = MfEntryOf(e.api, e.hash, 0, e.revoked, TRUE, e.fresh)
    BY <2>1, EntryFields, Zenon DEF MfEntry
  <2>3. s = MfEntryOf(e.api, e.hash, e.prev, e.revoked, TRUE, e.fresh)
    BY <2>1, EntryFields, Zenon DEF MfEntry
  <2> HIDE DEF r, s
  <2>4. MfEntry(r, n)
    <3>1. KeysFit(e.api, e.hash, 0, e.revoked, n)
      BY <2>1 DEF KeysFit, MfEntry, MfKeyed
    <3> QED BY <2>1, <2>2, <3>1, AnEntry, FlagsOf
  <2>5. MfEntry(s, n)
    BY <2>1, <2>3, AnEntry, FlagsOf
  <2> QED BY <2>4, <2>5
<1> HIDE DEF r, s
<1> QED BY <1>1, <1>2, OutcomeParts DEF Performed, MfSlot, KeySteps

\* A heartbeat, with a manifest or without.
LEMMA BeatEntry ==
    ASSUME NEW n \in Nat, NEW e, MfSlot(e, n), NEW own \in BOOLEAN
    PROVE  /\ Performed(Heartbeat(e), "beat", e, n)
           /\ \A step \in {"refresh", "refreshOwn"} : Performed(HeartbeatWithManifest(e, own), step, e, n)
<1>1. CASE e = Absent
  BY <1>1, OutcomeParts DEF Heartbeat, HeartbeatWithManifest, Performed, KeySteps
<1>2. CASE e # Absent
  <2>4. PICK y : y = IF own THEN Own ELSE e.api
    OBVIOUS
  <2> DEFINE r == [e EXCEPT !.fresh = TRUE]
             s == Refreshed(e, TRUE, y)
  <2>1. MfEntry(e, n)
    BY <1>2 DEF MfSlot
  <2>2. r = MfEntryOf(e.api, e.hash, e.prev, e.revoked, e.used, TRUE)
    BY <2>1, EntryFields, Zenon DEF MfEntry
  <2>3. Heartbeat(e) = Outcome(r, "next") /\ HeartbeatWithManifest(e, own) = Outcome(s, "save")
    BY <1>2, <2>4 DEF Heartbeat, HeartbeatWithManifest, Refreshed
  <2>5. s = MfEntryOf(y, e.hash, e.prev, e.revoked, e.used, TRUE)
    BY <2>1, ReplacedFields, Zenon DEF MfEntry
  <2> HIDE DEF r, s
  <2>6. MfEntry(r, n)
    BY <2>1, <2>2, AnEntry, FlagsOf
  <2>7. MfEntry(s, n)
    <3>1. KeysFit(y, e.hash, e.prev, e.revoked, n)
      BY <2>1, <2>4 DEF KeysFit, MfEntry, MfKeyed
    <3> QED BY <2>1, <2>5, <3>1, AnEntry, FlagsOf
  <2> QED BY <1>2, <2>3, <2>6, <2>7, OutcomeParts DEF Performed, MfSlot, KeySteps
<1> QED BY <1>1, <1>2

\* Every operation keeps the credentials of a registration in agreement.
LEMMA PerformedEntry ==
    ASSUME NEW n \in Nat, NEW e, MfSlot(e, n), NEW step \in MfSteps, NEW key, NEW inGrace,
           NEW out, out = Perform(step, e, n + 1, key, inGrace)
    PROVE  Performed(out, step, e, n)
<1>1. CASE step \in {"upsert", "upsertOwn"}
  <2>1. \E own \in BOOLEAN : out = Outcome(Upsert(e, own), "save")
    BY <1>1 DEF Perform
  <2> QED BY <1>1, <2>1, UpsertEntry, OutcomeParts DEF Performed, KeySteps
<1>2. CASE step = "ensure"
  BY <1>2, EnsureEntry DEF Perform
<1>3. CASE step = "rotate"
  BY <1>3, RotateEntry DEF Perform
<1>4. CASE step = "rotateUsed"
  <2>1. out = RotateServiceKey(e, n + 1) \/ out = Outcome(e, "stop")
    BY <1>4 DEF Perform
  <2>2. CASE out = Outcome(e, "stop")
    BY <1>4, <2>2, OutcomeParts DEF Performed
  <2> QED BY <1>4, <2>1, <2>2, RotateEntry
<1>5. CASE step = "revoke"
  BY <1>5, RevokeEntry DEF Perform
<1>6. CASE step = "auth"
  BY <1>6, AuthEntry DEF Perform
<1>7. CASE step \in {"beat", "refresh", "refreshOwn"}
  <2>1. (out = Heartbeat(e) /\ step = "beat") \/ (step \in {"refresh", "refreshOwn"} /\ \E own \in BOOLEAN : out = HeartbeatWithManifest(e, own))
    BY <1>7 DEF Perform
  <2> QED BY <2>1, BeatEntry
<1>8. CASE step \in {"remove", "expire"}
  <2>1. out = RemoveEntry(e)
    BY <1>8 DEF Perform
  <2> QED BY <1>8, <2>1, OutcomeParts DEF RemoveEntry, Performed, MfSlot, KeySteps
<1> QED BY <1>1, <1>2, <1>3, <1>4, <1>5, <1>6, <1>7, <1>8 DEF MfSteps

\* A request when n keys have been issued.
CallShaped(q) == q = [at |-> q.at, gw |-> q.gw, m |-> q.m, todo |-> q.todo, key |-> q.key, snap |-> q.snap, locked |-> q.locked]
MfStore(r, n) == r = [m \in Modules |-> r[m]] /\ \A m \in Modules : MfSlot(r[m], n)
MfCall(q, n) ==
  /\ CallShaped(q)
  /\ q.at \in {"idle", "run", "save", "snapshot", "write"}
  /\ q.locked \in BOOLEAN /\ (q.locked => q.at \in {"snapshot", "write"})
  /\ q.at # "idle" => q.gw \in Gateways /\ q.m \in Modules /\ q.todo \in Seq(MfSteps)
  /\ q.at = "run" => q.todo # <<>>
  /\ q.at = "write" => MfStore(q.snap, n)

\* The save of the request that holds the file lock will write the module.
WillWrite(c, m) ==
  /\ mf[c].at = "snapshot" => reg[mf[c].gw][m] # Absent
  /\ mf[c].at = "write" => mf[c].snap[m] # Absent

\* What is settled about a module.
FateFits(m) ==
  /\ fate[m] \in {"removed", "gone"} => \A g \in Gateways : reg[g][m] = Absent
  /\ fate[m] = "gone" => file[m] = Absent
  /\ fate[m] = "kept" => /\ file[m] # Absent
                         /\ \A g \in Gateways : Valid(g, m) /\ (reg[g][m] # Absent \/ m \notin last[g])
                         /\ \A c \in MfCalls : mf[c].locked => WillWrite(c, m)

MfStores ==
  /\ reg = [g \in Gateways |-> reg[g]] /\ \A g \in Gateways : MfStore(reg[g], issued)
  /\ MfStore(file, issued)
  /\ last = [g \in Gateways |-> last[g]] /\ \A g \in Gateways : last[g] \subseteq Modules

MfInv ==
  /\ issued \in 0 .. MaxKeys /\ MfStores
  /\ mf = [c \in MfCalls |-> mf[c]] /\ \A c \in MfCalls : MfCall(mf[c], issued)
  /\ \A c, d \in MfCalls : mf[c].locked /\ mf[d].locked => c = d
  /\ fate = [m \in Modules |-> fate[m]] /\ sealed = [m \in Modules |-> sealed[m]]
  /\ \A m \in Modules : FateFits(m)

\* One process on the file: every request is its own, and the key that a save
\* made durable is in memory and on disk.
MfAlone(g, m) == (\A c \in MfCalls : mf[c].at # "idle" => mf[c].gw = g) /\ KeysDurable(g, m)

\* A request that is over.
LEMMA NoCallOK == ASSUME NEW n PROVE MfCall(NoCall, n) /\ NoCall.at = "idle" /\ NoCall.locked = FALSE
BY DEF MfCall, CallShaped, NoCall

\* Requests by their fields.
CallOf(at, gw, m, todo, key, snap, locked) ==
  [at |-> at, gw |-> gw, m |-> m, todo |-> todo, key |-> key, snap |-> snap, locked |-> locked]

\* Stores and requests stay what they are when more keys have been issued.
LEMMA CallStays ==
    ASSUME NEW n \in Nat, NEW k \in Nat, n <= k
    PROVE  (\A r : MfStore(r, n) => MfStore(r, k)) /\ (\A q : MfCall(q, n) => MfCall(q, k))
<1>1. ASSUME NEW r, MfStore(r, n) PROVE MfStore(r, k)
  BY <1>1, SlotStays DEF MfStore
<1>2. ASSUME NEW q, MfCall(q, n) PROVE MfCall(q, k)
  BY <1>1, <1>2 DEF MfCall
<1> QED BY <1>1, <1>2

\* One request moves.
LEMMA MfMoves ==
    ASSUME MfInv, NEW c \in MfCalls, NEW q, mf' = [mf EXCEPT ![c] = q], issued' \in Nat, issued <= issued', MfCall(q, issued')
    PROVE  /\ mf' = [d \in MfCalls |-> mf'[d]] /\ mf'[c] = q /\ \A d \in MfCalls : d # c => mf'[d] = mf[d]
           /\ \A d \in MfCalls : MfCall(mf'[d], issued')
<1>1. mf' = [d \in MfCalls |-> mf'[d]] /\ mf'[c] = q /\ \A d \in MfCalls : d # c => mf'[d] = mf[d]
  BY DEF MfInv
<1>2. PICK n, k : n = issued /\ k = issued'
  OBVIOUS
<1>3. n \in Nat /\ k \in Nat /\ n <= k /\ MfCall(q, k)
  BY <1>2 DEF MfInv
<1>4. \A d \in MfCalls : MfCall(mf[d], n)
  BY <1>2 DEF MfInv
<1>5. \A d \in MfCalls : MfCall(mf[d], k)
  BY <1>3, <1>4, CallStays
<1> QED BY <1>1, <1>2, <1>3, <1>5

\* A step of a request that holds no lock, before or after, and touches no store.
LEMMA MfAside ==
    ASSUME MfInv, NEW c \in MfCalls, NEW q, mf' = [mf EXCEPT ![c] = q], MfCall(q, issued),
           mf[c].locked = FALSE, q.locked = FALSE, UNCHANGED <<reg, last, file, issued, fate, sealed>>
    PROVE  MfInv'
<1>1. /\ mf' = [d \in MfCalls |-> mf'[d]] /\ mf'[c] = q /\ \A d \in MfCalls : d # c => mf'[d] = mf[d]
      /\ \A d \in MfCalls : MfCall(mf'[d], issued')
  BY MfMoves, MfAssumption DEF MfInv
<1>2. \A d \in MfCalls : mf'[d].locked => mf'[d] = mf[d]
  BY <1>1
<1>3. \A c1, d \in MfCalls : mf'[c1].locked /\ mf'[d].locked => c1 = d
  BY <1>2 DEF MfInv
<1>4. \A m \in Modules : FateFits(m)'
  BY <1>2 DEF MfInv, FateFits, WillWrite, Valid
<1>5. MfStores'
  BY DEF MfInv, MfStores
<1> QED BY <1>1, <1>3, <1>4, <1>5 DEF MfInv

\* A request, or the poller, begins.
LEMMA BeginsCall ==
    ASSUME MfInv, NEW c \in MfCalls, NEW g \in Gateways, NEW m \in Modules, NEW todo \in Seq(MfSteps), todo # <<>>, NEW key,
           mf[c] = NoCall, NEW q, q = CallOf("run", g, m, todo, key, Absent, FALSE), mf' = [mf EXCEPT ![c] = q],
           UNCHANGED <<reg, last, file, issued, fate, sealed>>
    PROVE  MfInv'
<1>1. MfCall(q, issued) /\ q.locked = FALSE
  BY DEF MfCall, CallShaped, CallOf
<1> QED BY <1>1, NoCallOK, MfAside

Begun(e, g, m, todo, key) == [e EXCEPT !.at = "run", !.gw = g, !.m = m, !.todo = todo, !.key = key]
Polled(e, g, m, todo) == [e EXCEPT !.at = "run", !.gw = g, !.m = m, !.todo = todo]

\* A request with its fields set, one after another.
LEMMA BegunFields ==
    ASSUME NEW e, NEW s, NEW l, NEW t, NEW a, NEW k, e = CallOf("idle", a, a, t, k, s, l), NEW g, NEW m, NEW todo, NEW key
    PROVE  /\ Begun(e, g, m, todo, key) = CallOf("run", g, m, todo, key, s, l)
           /\ Polled(e, g, m, todo) = CallOf("run", g, m, todo, k, s, l)
<1> DEFINE r1 == [e EXCEPT !.at = "run"]
<1>1. r1 = CallOf("run", a, a, t, k, s, l)
  BY DEF CallOf
<1> HIDE DEF r1
<1> DEFINE r2 == [r1 EXCEPT !.gw = g]
<1>2. r2 = CallOf("run", g, a, t, k, s, l)
  BY <1>1 DEF CallOf
<1> HIDE DEF r2
<1> DEFINE r3 == [r2 EXCEPT !.m = m]
<1>3. r3 = CallOf("run", g, m, t, k, s, l)
  BY <1>2 DEF CallOf
<1> HIDE DEF r3
<1> DEFINE r4 == [r3 EXCEPT !.todo = todo]
<1>4. r4 = CallOf("run", g, m, todo, k, s, l)
  BY <1>3 DEF CallOf
<1> HIDE DEF r4
<1> DEFINE r5 == [r4 EXCEPT !.key = key]
<1>5. r5 = CallOf("run", g, m, todo, key, s, l)
  BY <1>4 DEF CallOf
<1> QED BY <1>4, <1>5 DEF r1, r2, r3, r4, Begun, Polled

\* The request that begins where none was.
LEMMA BegunCall ==
    ASSUME NEW g, NEW m, NEW todo, NEW key
    PROVE  /\ Begun(NoCall, g, m, todo, key) = CallOf("run", g, m, todo, key, Absent, FALSE)
           /\ Polled(NoCall, g, m, todo) = CallOf("run", g, m, todo, 0, Absent, FALSE)
<1>1. PICK l : l = FALSE
  OBVIOUS
<1>2. NoCall = CallOf("idle", Absent, Absent, <<>>, 0, Absent, l)
  BY <1>1, Zenon DEF NoCall, CallOf
<1>3. /\ Begun(NoCall, g, m, todo, key) = CallOf("run", g, m, todo, key, Absent, l)
      /\ Polled(NoCall, g, m, todo) = CallOf("run", g, m, todo, 0, Absent, l)
  BY <1>2, BegunFields
<1> QED BY <1>1, <1>3, Zenon

\* A request that the registry accepts.
LEMMA RequestStep ==
    ASSUME MfInv, NEW c \in MfCalls, NEW g \in Gateways, NEW m \in Modules, NEW p \in Programs, NEW k, Request(c, g, m, p, k)
    PROVE  MfInv'
<1>1. p \in Seq(MfSteps) /\ p # <<>>
  <2>1. AdminRegister \in Seq(MfSteps) /\ AdminRegister # <<>>
    BY DEF AdminRegister, MfSteps
  <2>2. ServiceRegister \in Seq(MfSteps) /\ ServiceRegister # <<>>
    BY DEF ServiceRegister, MfSteps
  <2>3. <<"auth", "beat">> \in Seq(MfSteps) /\ <<"auth", "beat">> # <<>>
    BY DEF MfSteps
  <2>4. \A s \in MfSteps : <<s>> \in Seq(MfSteps) /\ <<s>> # <<>>
    OBVIOUS
  <2>5. p \in {AdminRegister, ServiceRegister, <<"auth", "beat">>} \/ \E s \in MfSteps : p = <<s>>
    BY DEF Programs, MfSteps
  <2> QED BY <2>1, <2>2, <2>3, <2>4, <2>5
<1>2. /\ mf[c] = NoCall /\ UNCHANGED <<reg, last, file, issued, fate, sealed>>
      /\ mf' = [mf EXCEPT ![c] = CallOf("run", g, m, p, k, Absent, FALSE)]
  <2>1. mf' = [mf EXCEPT ![c] = Begun(NoCall, g, m, p, k)] /\ mf[c] = NoCall /\ UNCHANGED <<reg, last, file, issued, fate, sealed>>
    BY DEF Request, Begun
  <2> QED BY <2>1, BegunCall, Zenon
<1> QED BY <1>1, <1>2, BeginsCall

\* The poller finds a stale registration.
LEMMA ExpireStep ==
    ASSUME MfInv, NEW c \in MfCalls, NEW g \in Gateways, NEW m \in Modules, expireStale(c, g, m)
    PROVE  MfInv'
<1>1. <<"expire">> \in Seq(MfSteps) /\ <<"expire">> # <<>>
  BY DEF MfSteps
<1>2. /\ mf[c] = NoCall /\ UNCHANGED <<reg, last, file, issued, fate, sealed>>
      /\ mf' = [mf EXCEPT ![c] = CallOf("run", g, m, <<"expire">>, 0, Absent, FALSE)]
  <2>1. mf' = [mf EXCEPT ![c] = Polled(NoCall, g, m, <<"expire">>)] /\ mf[c] = NoCall /\ UNCHANGED <<reg, last, file, issued, fate, sealed>>
    BY DEF expireStale, Polled
  <2> QED BY <2>1, BegunCall, Zenon
<1> QED BY <1>1, <1>2, BeginsCall

\* One registration of one process changes.
RegPut(g, m, e) ==
  /\ reg' = [reg EXCEPT ![g] = [reg[g] EXCEPT ![m] = e]] /\ issued' \in Nat /\ issued <= issued' /\ MfSlot(e, issued')
  /\ UNCHANGED <<file, last>>
RegHas(g, m, e) ==
  MfStores' /\ reg'[g][m] = e /\ \A h \in Gateways, z \in Modules : (h # g \/ z # m) => reg'[h][z] = reg[h][z]

\* The registration is what was put, the others are as they were.
LEMMA RegMoves ==
    ASSUME MfInv, NEW g \in Gateways, NEW m \in Modules, NEW e, RegPut(g, m, e)
    PROVE  RegHas(g, m, e)
<1>. /\ reg' = [reg EXCEPT ![g] = [reg[g] EXCEPT ![m] = e]] /\ issued' \in Nat /\ issued <= issued' /\ MfSlot(e, issued')
     /\ UNCHANGED <<file, last>>
  BY DEF RegPut
<1>1. PICK n, k : n = issued /\ k = issued'
  OBVIOUS
<1>2. n \in Nat /\ k \in Nat /\ n <= k /\ MfSlot(e, k) /\ MfStores
  BY <1>1 DEF MfInv
<1>3. /\ reg = [h \in Gateways |-> reg[h]] /\ \A h \in Gateways : reg[h] = [z \in Modules |-> reg[h][z]]
      /\ \A h \in Gateways, z \in Modules : MfSlot(reg[h][z], n)
  BY <1>1, <1>2 DEF MfStores, MfStore
<1>4. /\ reg' = [h \in Gateways |-> reg'[h]] /\ \A h \in Gateways : reg'[h] = [z \in Modules |-> reg'[h][z]]
      /\ reg'[g][m] = e /\ \A h \in Gateways, z \in Modules : (h # g \/ z # m) => reg'[h][z] = reg[h][z]
  BY <1>3
<1>5. \A h \in Gateways, z \in Modules : MfSlot(reg[h][z], k)
  BY <1>2, <1>3, SlotStays
<1>6. \A h \in Gateways, z \in Modules : MfSlot(reg'[h][z], k)
  BY <1>2, <1>4, <1>5
<1>7. MfStore(file, k)
  BY <1>1, <1>2, CallStays DEF MfStores
<1>8. \A h \in Gateways : MfStore(reg'[h], k)
  BY <1>4, <1>6 DEF MfStore
<1>9. MfStores'
  BY <1>1, <1>2, <1>4, <1>7, <1>8 DEF MfStores
<1> QED BY <1>4, <1>9 DEF RegHas

\* The heartbeat timeout passes.
LEMMA StaleStep == ASSUME MfInv, NEW g \in Gateways, NEW m \in Modules, Stale(g, m) PROVE MfInv'
<1>1. PICK e, r : e = reg[g][m] /\ r = [e EXCEPT !.fresh = FALSE]
  OBVIOUS
<1>2. /\ e # Absent /\ reg' = [reg EXCEPT ![g] = [reg[g] EXCEPT ![m] = r]] /\ UNCHANGED <<last, file, mf, issued, fate, sealed>>
  BY <1>1 DEF Stale, MfInv, MfStores, MfStore
<1>3. issued \in 0 .. MaxKeys /\ issued \in Nat /\ MfEntry(e, issued)
  BY <1>1, <1>2, MfAssumption DEF MfInv, MfStores, MfStore, MfSlot
<1>4. r = MfEntryOf(e.api, e.hash, e.prev, e.revoked, e.used, FALSE)
  <2>1. PICK x : x = FALSE
    OBVIOUS
  <2>2. [e EXCEPT !.fresh = x] = MfEntryOf(e.api, e.hash, e.prev, e.revoked, e.used, x)
    BY <1>3, EntryFields DEF MfEntry
  <2> QED BY <1>1, <2>1, <2>2, Zenon
<1>5. FlagsFit(e.revoked, e.used, FALSE)
  BY <1>3, Zenon DEF MfEntry, Flagged, FlagsFit
<1>6. MfEntry(r, issued)
  BY <1>3, <1>4, <1>5, AnEntry, FlagsOf
<1>7. MfSlot(r, issued') /\ r # Absent
  BY <1>2, <1>3, <1>6, EntryTyped DEF MfSlot
<1>8. /\ MfStores' /\ reg'[g][m] = r
      /\ \A h \in Gateways, z \in Modules : (h # g \/ z # m) => reg'[h][z] = reg[h][z]
  <2>1. RegPut(g, m, r)
    BY <1>2, <1>3, <1>7 DEF RegPut
  <2> QED BY <2>1, RegMoves DEF RegHas
<1>9. \A h \in Gateways, z \in Modules : reg'[h][z] = Absent <=> reg[h][z] = Absent
  BY <1>1, <1>2, <1>7, <1>8
<1>10. \A d \in MfCalls : mf[d].locked => mf[d].gw \in Gateways
  BY DEF MfInv, MfCall
<1>11. \A z \in Modules : FateFits(z)'
  BY <1>2, <1>9, <1>10 DEF MfInv, FateFits, WillWrite, Valid
<1> QED BY <1>2, <1>8, <1>11 DEF MfInv

\* What is left of a program.
LEMMA RestSteps ==
    ASSUME NEW todo \in Seq(MfSteps), todo # <<>>, NEW then
    PROVE  Head(todo) \in MfSteps /\ Rest(todo, then) \in Seq(MfSteps)
BY DEF Rest

Advanced(q, at, todo) == [q EXCEPT !.at = at, !.todo = todo, !.key = 0]
Onward(q, todo) == [q EXCEPT !.todo = todo, !.key = 0]

\* A request after one of its steps.
LEMMA AdvancedCall ==
    ASSUME NEW q, NEW n, MfCall(q, n), q.at = "run", NEW todo \in Seq(MfSteps)
    PROVE  /\ MfCall(Advanced(q, "save", todo), n) /\ Advanced(q, "save", todo).locked = FALSE
           /\ todo # <<>> => MfCall(Onward(q, todo), n) /\ Onward(q, todo).locked = FALSE
           /\ Advanced(q, "save", todo).gw = q.gw /\ Onward(q, todo).gw = q.gw
<1>1. /\ q = CallOf(q.at, q.gw, q.m, q.todo, q.key, q.snap, q.locked) /\ q.gw \in Gateways /\ q.m \in Modules
  BY DEF MfCall, CallShaped, CallOf
<1>2. q.locked = FALSE
  BY DEF MfCall
<1> DEFINE r1 == [q EXCEPT !.at = "save"]
<1>3. r1 = CallOf("save", q.gw, q.m, q.todo, q.key, q.snap, q.locked)
  BY <1>1 DEF CallOf
<1> HIDE DEF r1
<1> DEFINE r2 == [r1 EXCEPT !.todo = todo]
<1>4. r2 = CallOf("save", q.gw, q.m, todo, q.key, q.snap, q.locked)
  BY <1>3 DEF CallOf
<1> HIDE DEF r2
<1> DEFINE r3 == [r2 EXCEPT !.key = 0]
<1>5. r3 = CallOf("save", q.gw, q.m, todo, 0, q.snap, q.locked)
  BY <1>4 DEF CallOf
<1>6. r3 = Advanced(q, "save", todo)
  BY DEF r1, r2, Advanced
<1> HIDE DEF r3
<1> DEFINE s1 == [q EXCEPT !.todo = todo]
<1>7. s1 = CallOf(q.at, q.gw, q.m, todo, q.key, q.snap, q.locked)
  BY <1>1 DEF CallOf
<1> HIDE DEF s1
<1> DEFINE s2 == [s1 EXCEPT !.key = 0]
<1>8. s2 = CallOf(q.at, q.gw, q.m, todo, 0, q.snap, q.locked)
  BY <1>7 DEF CallOf
<1>9. s2 = Onward(q, todo)
  BY DEF s1, Onward
<1> HIDE DEF s2
<1>10. /\ r3.at = "save" /\ r3.gw = q.gw /\ r3.m = q.m /\ r3.todo = todo /\ r3.locked = q.locked /\ CallShaped(r3)
       /\ s2.at = "run" /\ s2.gw = q.gw /\ s2.m = q.m /\ s2.todo = todo /\ s2.locked = q.locked /\ CallShaped(s2)
  BY <1>5, <1>8 DEF CallOf, CallShaped
<1>11. MfCall(r3, n) /\ r3.locked = FALSE
  BY <1>1, <1>2, <1>10 DEF MfCall
<1>12. todo # <<>> => MfCall(s2, n) /\ s2.locked = FALSE
  BY <1>1, <1>2, <1>10 DEF MfCall
<1> QED BY <1>6, <1>9, <1>10, <1>11, <1>12

\* One operation of a request on its registration.
LEMMA RunStep == ASSUME MfInv, NEW c \in MfCalls, NEW inGrace, Run(c, inGrace) PROVE MfInv'
<1>1. PICK q, g, m, old, step, n : /\ q = mf[c] /\ g = q.gw /\ m = q.m /\ old = reg[g][m] /\ step = Head(q.todo) /\ n = issued
  OBVIOUS
<1>2. PICK out : out = Perform(step, old, n + 1, q.key, inGrace)
  OBVIOUS
<1>3. PICK todo, k : todo = Rest(q.todo, out.then) /\ k = n + (IF step \in KeySteps /\ out.then = "save" THEN 1 ELSE 0)
  OBVIOUS
<1>4. /\ q.at = "run" /\ issued' = k /\ k <= MaxKeys
      /\ reg' = [reg EXCEPT ![g] = [reg[g] EXCEPT ![m] = out.e]]
      /\ mf' = [mf EXCEPT ![c] = IF out.then = "save" THEN Advanced(q, "save", todo)
                                 ELSE IF todo = <<>> THEN NoCall ELSE Onward(q, todo)]
      /\ fate' = IF step \in {"upsert", "upsertOwn"} THEN [fate EXCEPT ![m] = "open"]
                 ELSE IF old = Absent \/ out.e # Absent THEN fate
                 ELSE [fate EXCEPT ![m] = IF \A h \in Gateways : reg'[h][m] = Absent THEN "removed" ELSE "open"]
      /\ sealed' = IF old # Absent /\ out.e # Absent /\ old.hash = out.e.hash THEN sealed ELSE [sealed EXCEPT ![m] = 0]
      /\ UNCHANGED <<last, file>>
  BY <1>1, <1>2, <1>3 DEF Run, Advanced, Onward
<1>5. MfCall(q, n) /\ g \in Gateways /\ m \in Modules /\ q.todo \in Seq(MfSteps) /\ q.todo # <<>> /\ n \in Nat
  BY <1>1, <1>4, MfAssumption DEF MfInv, MfCall
<1>6. step \in MfSteps /\ todo \in Seq(MfSteps)
  BY <1>1, <1>3, <1>5, RestSteps
<1>7. MfSlot(old, n)
  BY <1>1, <1>5 DEF MfInv, MfStores, MfStore
<1>8. Performed(out, step, old, n)
  BY <1>2, <1>5, <1>6, <1>7, PerformedEntry
<1>9. /\ k \in Nat /\ n <= k /\ k \in 0 .. MaxKeys /\ MfSlot(out.e, k)
      /\ old = Absent /\ step \notin {"upsert", "upsertOwn"} => out.e = Absent
  BY <1>3, <1>4, <1>5, <1>8, MfAssumption DEF Performed
<1>10. PICK r : /\ mf' = [mf EXCEPT ![c] = r]
                /\ r = IF out.then = "save" THEN Advanced(q, "save", todo) ELSE IF todo = <<>> THEN NoCall ELSE Onward(q, todo)
  BY <1>4
<1>11. MfCall(r, n) /\ r.locked = FALSE
  BY <1>4, <1>5, <1>6, <1>10, AdvancedCall, NoCallOK
<1>12. MfCall(r, k)
  BY <1>5, <1>9, <1>11, CallStays
<1>13. /\ mf' = [d \in MfCalls |-> mf'[d]] /\ mf'[c] = r /\ \A d \in MfCalls : d # c => mf'[d] = mf[d]
       /\ \A d \in MfCalls : MfCall(mf'[d], issued')
  <2>1. issued' \in Nat /\ issued <= issued' /\ MfCall(r, issued')
    BY <1>1, <1>4, <1>9, <1>12
  <2> QED BY <1>10, <2>1, MfMoves
<1>14. /\ MfStores' /\ reg'[g][m] = out.e
       /\ \A h \in Gateways, z \in Modules : (h # g \/ z # m) => reg'[h][z] = reg[h][z]
  <2>1. RegPut(g, m, out.e)
    BY <1>1, <1>4, <1>9 DEF RegPut
  <2> QED BY <1>5, <2>1, RegMoves DEF RegHas
<1>15. \A d \in MfCalls : mf'[d].locked => d # c /\ mf'[d] = mf[d]
  BY <1>11, <1>13
<1>16. fate' = [z \in Modules |-> fate'[z]] /\ sealed' = [z \in Modules |-> sealed'[z]] /\ \A z \in Modules : z # m => fate'[z] = fate[z]
  BY <1>4, <1>5 DEF MfInv
<1>17. ASSUME NEW z \in Modules PROVE FateFits(z)'
  <2>1. FateFits(z)
    BY DEF MfInv
  <2>2. \A d \in MfCalls : mf'[d].locked => mf[d].gw \in Gateways
    BY <1>15 DEF MfInv, MfCall
  <2>3. CASE z # m
    BY <1>4, <1>14, <1>15, <1>16, <2>1, <2>2, <2>3 DEF FateFits, WillWrite, Valid
  <2>4. CASE z = m /\ step \in {"upsert", "upsertOwn"}
    <3>1. fate'[z] = "open"
      BY <1>4, <1>5, <2>4 DEF MfInv
    <3> QED BY <3>1 DEF FateFits
  <2>5. CASE z = m /\ step \notin {"upsert", "upsertOwn"} /\ (old = Absent \/ out.e # Absent)
    <3>1. fate'[z] = fate[z] /\ (out.e = Absent <=> old = Absent)
      BY <1>4, <1>9, <2>5
    <3>2. \A h \in Gateways : reg'[h][z] = Absent <=> reg[h][z] = Absent
      BY <1>1, <1>14, <2>5, <3>1
    <3> QED BY <1>4, <1>15, <2>1, <2>2, <3>1, <3>2 DEF FateFits, WillWrite, Valid
  <2>6. CASE z = m /\ step \notin {"upsert", "upsertOwn"} /\ ~(old = Absent \/ out.e # Absent)
    <3>1. fate'[z] = IF \A h \in Gateways : reg'[h][m] = Absent THEN "removed" ELSE "open"
      BY <1>4, <1>5, <2>6 DEF MfInv
    <3> QED BY <2>6, <3>1 DEF FateFits
  <2> QED BY <2>3, <2>4, <2>5, <2>6
<1>18. \A d, e \in MfCalls : mf'[d].locked /\ mf'[e].locked => d = e
  BY <1>15 DEF MfInv
<1> QED BY <1>4, <1>9, <1>13, <1>14, <1>16, <1>17, <1>18 DEF MfInv

\* A store of one process is replaced.
LEMMA StoreReplaced ==
    ASSUME MfStores, NEW g \in Gateways, NEW r, MfStore(r, issued), reg' = [reg EXCEPT ![g] = r]
    PROVE  /\ reg' = [h \in Gateways |-> reg'[h]] /\ \A h \in Gateways : MfStore(reg'[h], issued)
           /\ reg'[g] = r /\ \A h \in Gateways : h # g => reg'[h] = reg[h]
BY DEF MfStores

Locking(q, l) == [q EXCEPT !.at = "snapshot", !.locked = l]

\* A request that enters its save.
LEMMA LockedCall ==
    ASSUME NEW q, NEW n, MfCall(q, n), q.at = "save"
    PROVE  /\ MfCall(Locking(q, TRUE), n) /\ Locking(q, TRUE).locked /\ Locking(q, TRUE).at = "snapshot" /\ Locking(q, TRUE).gw = q.gw
           /\ MfCall([q EXCEPT !.at = "snapshot"], n) /\ [q EXCEPT !.at = "snapshot"].locked = FALSE /\ q.locked = FALSE
           /\ [q EXCEPT !.at = "snapshot"].gw = q.gw
<1>1. q = CallOf(q.at, q.gw, q.m, q.todo, q.key, q.snap, q.locked) /\ q.gw \in Gateways /\ q.m \in Modules /\ q.todo \in Seq(MfSteps)
  BY DEF MfCall, CallShaped, CallOf
<1>2. q.locked = FALSE
  BY DEF MfCall
<1> DEFINE r == [q EXCEPT !.at = "snapshot"]
<1>3. r = CallOf("snapshot", q.gw, q.m, q.todo, q.key, q.snap, q.locked)
  BY <1>1 DEF CallOf
<1>4. PICK l : l = TRUE
  OBVIOUS
<1> HIDE DEF r
<1> DEFINE s == [r EXCEPT !.locked = l]
<1>5. s = CallOf("snapshot", q.gw, q.m, q.todo, q.key, q.snap, l)
  BY <1>3 DEF CallOf
<1>6. s = Locking(q, TRUE)
  BY <1>4, Zenon DEF Locking, r
<1> HIDE DEF s
<1>7. /\ r.at = "snapshot" /\ r.gw = q.gw /\ r.m = q.m /\ r.todo = q.todo /\ r.locked = q.locked /\ CallShaped(r)
      /\ s.at = "snapshot" /\ s.gw = q.gw /\ s.m = q.m /\ s.todo = q.todo /\ s.locked = l /\ CallShaped(s)
  BY <1>3, <1>5 DEF CallOf, CallShaped
<1>8. MfCall(r, n) /\ r.locked = FALSE
  BY <1>1, <1>2, <1>7 DEF MfCall
<1>9. MfCall(s, n) /\ s.locked
  BY <1>1, <1>4, <1>7 DEF MfCall
<1> QED BY <1>2, <1>6, <1>7, <1>8, <1>9 DEF r

\* A save begins: with the file lock it adopts what other processes wrote.
LEMMA LockStep == ASSUME MfInv, NEW c \in MfCalls, lockStore(c) PROVE MfInv'
<1>1. PICK q, g : q = mf[c] /\ g = q.gw
  OBVIOUS
<1>2. /\ q.at = "save" /\ UNCHANGED <<last, file, issued, sealed>>
      /\ \/ /\ \A d \in MfCalls : ~mf[d].locked
            /\ mf' = [mf EXCEPT ![c] = Locking(q, TRUE)]
            /\ reg' = [reg EXCEPT ![g] = adoptForeign(g)]
            /\ fate' = Learned(g, Modules \ last[g])
         \/ mf' = [mf EXCEPT ![c] = [q EXCEPT !.at = "snapshot"]] /\ UNCHANGED <<reg, fate>>
  BY <1>1 DEF lockStore, Locking
<1>3. MfCall(q, issued) /\ g \in Gateways /\ issued \in Nat
  BY <1>1, <1>2, MfAssumption DEF MfInv, MfCall
<1>4. CASE mf' = [mf EXCEPT ![c] = [q EXCEPT !.at = "snapshot"]] /\ UNCHANGED <<reg, fate>>
  <2>1. PICK r : r = [q EXCEPT !.at = "snapshot"]
    OBVIOUS
  <2>2. MfCall(r, issued) /\ r.locked = FALSE /\ q.locked = FALSE
    BY <1>2, <1>3, <2>1, LockedCall
  <2>3. UNCHANGED <<reg, last, file, issued, fate, sealed>> /\ mf[c].locked = FALSE /\ mf' = [mf EXCEPT ![c] = r]
    BY <1>1, <1>2, <1>4, <2>1, <2>2
  <2> QED BY <2>2, <2>3, MfAside
<1>5. CASE /\ \A d \in MfCalls : ~mf[d].locked
           /\ mf' = [mf EXCEPT ![c] = Locking(q, TRUE)]
           /\ reg' = [reg EXCEPT ![g] = adoptForeign(g)]
           /\ fate' = Learned(g, Modules \ last[g])
  <2>1. PICK r, a : r = Locking(q, TRUE) /\ a = adoptForeign(g)
    OBVIOUS
  <2>2. MfCall(r, issued) /\ r.locked /\ r.at = "snapshot" /\ r.gw = g
    BY <1>1, <1>2, <1>3, <2>1, LockedCall
  <2>3. /\ mf' = [d \in MfCalls |-> mf'[d]] /\ mf'[c] = r /\ \A d \in MfCalls : d # c => mf'[d] = mf[d]
        /\ \A d \in MfCalls : MfCall(mf'[d], issued')
    <3>1. mf' = [mf EXCEPT ![c] = r]
      BY <1>5, <2>1, Zenon
    <3>2. issued' = issued /\ MfCall(r, issued)
      BY <1>2, <2>2
    <3>3. issued' \in Nat /\ issued <= issued' /\ MfCall(r, issued')
      BY <1>3, <3>2
    <3> QED BY <3>1, <3>3, MfMoves
  <2>4. \A z \in Modules : a[z] = IF reg[g][z] = Absent /\ z \notin last[g] /\ Valid(g, z) THEN file[z] ELSE reg[g][z]
    BY <2>1 DEF adoptForeign
  <2>5. MfStore(a, issued)
    <3>1. a = [z \in Modules |-> a[z]]
      BY <2>1 DEF adoptForeign
    <3>2. \A z \in Modules : MfSlot(file[z], issued) /\ MfSlot(reg[g][z], issued)
      BY <1>3 DEF MfInv, MfStores, MfStore
    <3> QED BY <2>4, <3>1, <3>2 DEF MfStore
  <2>6. /\ reg' = [h \in Gateways |-> reg'[h]] /\ \A h \in Gateways : MfStore(reg'[h], issued)
        /\ reg'[g] = a /\ \A h \in Gateways : h # g => reg'[h] = reg[h]
    BY <1>3, <1>5, <2>1, <2>5, StoreReplaced DEF MfInv
  <2>7. /\ fate' = [z \in Modules |-> fate'[z]]
        /\ \A z \in Modules : fate'[z] = IF fate[z] = "removed" /\ z \notin last[g] /\ a[z] # Absent THEN "open" ELSE fate[z]
    BY <1>5, <2>6 DEF Learned
  <2>8. \A d \in MfCalls : mf'[d].locked => d = c
    BY <1>5, <2>3
  <2>9. ASSUME NEW z \in Modules PROVE FateFits(z)'
    <3>1. FateFits(z)
      BY DEF MfInv
    <3>2. CASE fate'[z] \in {"removed", "gone"}
      <4>1. fate[z] = fate'[z] /\ \A h \in Gateways : reg[h][z] = Absent
        BY <2>7, <3>1, <3>2 DEF FateFits
      <4>2. fate[z] = "gone" => file[z] = Absent
        BY <3>1 DEF FateFits
      <4>3. a[z] = Absent
        BY <1>3, <2>4, <2>7, <3>2, <4>1, <4>2
      <4>4. \A h \in Gateways : reg'[h][z] = Absent
        BY <2>6, <4>1, <4>3
      <4> QED BY <1>2, <3>2, <4>1, <4>2, <4>4 DEF FateFits
    <3>3. CASE fate'[z] = "kept"
      <4>1. fate[z] = "kept"
        BY <2>7, <3>3
      <4>2. file[z] # Absent /\ \A h \in Gateways : Valid(h, z) /\ (reg[h][z] # Absent \/ z \notin last[h])
        BY <3>1, <4>1 DEF FateFits
      <4>3. a[z] # Absent
        BY <1>3, <2>4, <4>2
      <4>4. \A h \in Gateways : Valid(h, z) /\ (reg'[h][z] # Absent \/ z \notin last'[h])
        BY <1>2, <2>6, <4>2, <4>3
      <4>5. \A d \in MfCalls : mf'[d].locked => WillWrite(d, z)'
        BY <2>2, <2>3, <2>6, <2>8, <4>3 DEF WillWrite
      <4> QED BY <1>2, <3>3, <4>2, <4>4, <4>5 DEF FateFits, Valid
    <3> QED BY <3>2, <3>3 DEF FateFits
  <2>10. MfStores'
    BY <1>2, <2>6 DEF MfInv, MfStores
  <2>11. \A d, e \in MfCalls : mf'[d].locked /\ mf'[e].locked => d = e
    BY <2>8
  <2> QED BY <1>2, <2>3, <2>7, <2>9, <2>10, <2>11 DEF MfInv
<1> QED BY <1>2, <1>4, <1>5

Snapped(q, s) == [q EXCEPT !.at = "write", !.snap = s]
Resumed(q, todo, l) == [q EXCEPT !.at = "run", !.todo = todo, !.locked = l, !.snap = Absent]

\* A request that has taken its snapshot.
LEMMA SnappedCall ==
    ASSUME NEW q, NEW n, MfCall(q, n), q.at = "snapshot", NEW s, MfStore(s, n)
    PROVE  /\ MfCall(Snapped(q, s), n) /\ Snapped(q, s).locked = q.locked /\ Snapped(q, s).gw = q.gw
           /\ Snapped(q, s).at = "write" /\ Snapped(q, s).snap = s
<1>1. q = CallOf(q.at, q.gw, q.m, q.todo, q.key, q.snap, q.locked) /\ q.gw \in Gateways /\ q.m \in Modules /\ q.todo \in Seq(MfSteps)
  BY DEF MfCall, CallShaped, CallOf
<1> DEFINE r1 == [q EXCEPT !.at = "write"]
<1>2. r1 = CallOf("write", q.gw, q.m, q.todo, q.key, q.snap, q.locked)
  BY <1>1 DEF CallOf
<1> HIDE DEF r1
<1> DEFINE r2 == [r1 EXCEPT !.snap = s]
<1>3. r2 = CallOf("write", q.gw, q.m, q.todo, q.key, s, q.locked)
  BY <1>2 DEF CallOf
<1>4. r2 = Snapped(q, s)
  BY DEF Snapped, r1
<1> HIDE DEF r2
<1>5. r2.at = "write" /\ r2.gw = q.gw /\ r2.m = q.m /\ r2.todo = q.todo /\ r2.locked = q.locked /\ r2.snap = s /\ CallShaped(r2)
  BY <1>3 DEF CallOf, CallShaped
<1>6. MfCall(r2, n)
  BY <1>1, <1>5 DEF MfCall
<1> QED BY <1>4, <1>5, <1>6

\* The registrations that are written: the same ones, heartbeats included.
LEMMA PersistedStore ==
    ASSUME NEW n \in 0 .. MaxKeys, NEW r, MfStore(r, n)
    PROVE  MfStore(Persisted(r), n) /\ \A m \in Modules : (Persisted(r)[m] = Absent <=> r[m] = Absent)
<1>1. PICK p : p = Persisted(r)
  OBVIOUS
<1>2. p = [m \in Modules |-> p[m]] /\ \A m \in Modules : p[m] = IF r[m] = Absent THEN Absent ELSE [r[m] EXCEPT !.fresh = TRUE]
  BY <1>1 DEF Persisted
<1>3. ASSUME NEW m \in Modules PROVE MfSlot(p[m], n) /\ (p[m] = Absent <=> r[m] = Absent)
  <2>1. CASE r[m] = Absent
    BY <1>2, <2>1 DEF MfSlot
  <2>2. CASE r[m] # Absent
    <3>1. PICK e, x : e = r[m] /\ x = TRUE
      OBVIOUS
    <3>2. MfEntry(e, n)
      BY <2>2, <3>1 DEF MfStore, MfSlot
    <3>3. [e EXCEPT !.fresh = x] = MfEntryOf(e.api, e.hash, e.prev, e.revoked, e.used, x)
      BY <3>2, EntryFields DEF MfEntry
    <3>4. FlagsFit(e.revoked, e.used, x)
      BY <3>1, <3>2, Zenon DEF MfEntry, Flagged, FlagsFit
    <3>5. MfEntry([e EXCEPT !.fresh = x], n)
      BY <3>2, <3>3, <3>4, AnEntry, FlagsOf
    <3>6. p[m] = [e EXCEPT !.fresh = x]
      BY <1>2, <2>2, <3>1, Zenon
    <3>7. MfEntry(p[m], n)
      BY <3>5, <3>6
    <3> QED BY <2>2, <3>7, EntryTyped DEF MfSlot
  <2> QED BY <2>1, <2>2
<1>4. MfStore(p, n)
  BY <1>2, <1>3 DEF MfStore
<1> QED BY <1>1, <1>3, <1>4

\* The save takes its snapshot.
LEMMA MfSnapshotStep == ASSUME MfInv, NEW c \in MfCalls, MfSnapshot(c) PROVE MfInv'
<1>1. PICK q, s, r : q = mf[c] /\ s = Persisted(reg[q.gw]) /\ r = Snapped(q, s)
  OBVIOUS
<1>2. q.at = "snapshot" /\ mf' = [mf EXCEPT ![c] = r] /\ UNCHANGED <<reg, last, file, issued, fate, sealed>>
  BY <1>1 DEF MfSnapshot, Snapped
<1>3. MfCall(q, issued) /\ q.gw \in Gateways /\ issued \in 0 .. MaxKeys
  BY <1>1, <1>2 DEF MfInv, MfCall
<1>4. MfStore(s, issued) /\ \A m \in Modules : (s[m] = Absent <=> reg[q.gw][m] = Absent)
  <2>1. MfStore(reg[q.gw], issued)
    BY <1>3 DEF MfInv, MfStores
  <2> QED BY <1>1, <1>3, <2>1, PersistedStore
<1>5. MfCall(r, issued) /\ r.locked = q.locked /\ r.at = "write" /\ r.snap = s
  BY <1>1, <1>2, <1>3, <1>4, SnappedCall
<1>6. /\ mf' = [d \in MfCalls |-> mf'[d]] /\ mf'[c] = r /\ \A d \in MfCalls : d # c => mf'[d] = mf[d]
      /\ \A d \in MfCalls : MfCall(mf'[d], issued')
  <2>1. issued' \in Nat /\ issued <= issued' /\ MfCall(r, issued')
    BY <1>2, <1>3, <1>5, MfAssumption
  <2> QED BY <1>2, <2>1, MfMoves
<1>7. \A d \in MfCalls : mf'[d].locked => mf[d].locked
  BY <1>1, <1>5, <1>6
<1>8. ASSUME NEW z \in Modules PROVE FateFits(z)'
  <2>1. FateFits(z)
    BY DEF MfInv
  <2>2. fate[z] = "kept" => \A d \in MfCalls : mf'[d].locked => WillWrite(d, z)'
    <3> SUFFICES ASSUME fate[z] = "kept", NEW d \in MfCalls, mf'[d].locked PROVE WillWrite(d, z)'
      OBVIOUS
    <3>1. WillWrite(d, z)
      BY <1>7, <2>1 DEF FateFits
    <3>2. CASE d = c
      BY <1>1, <1>2, <1>4, <1>5, <1>6, <3>1, <3>2 DEF WillWrite
    <3>3. CASE d # c
      BY <1>2, <1>6, <3>1, <3>3 DEF WillWrite
    <3> QED BY <3>2, <3>3
  <2> QED BY <1>2, <2>1, <2>2 DEF FateFits, Valid
<1>9. \A d, e \in MfCalls : mf'[d].locked /\ mf'[e].locked => d = e
  BY <1>7 DEF MfInv
<1>10. MfStores'
  BY <1>2 DEF MfInv, MfStores
<1> QED BY <1>2, <1>6, <1>8, <1>9, <1>10 DEF MfInv

\* A request goes on after its save.
LEMMA ResumedCall ==
    ASSUME NEW q, NEW n, MfCall(q, n), q.at = "write", q.todo # <<>>
    PROVE  MfCall(Resumed(q, q.todo, FALSE), n) /\ Resumed(q, q.todo, FALSE).locked = FALSE /\ Resumed(q, q.todo, FALSE).gw = q.gw
<1>1. q = CallOf(q.at, q.gw, q.m, q.todo, q.key, q.snap, q.locked) /\ q.gw \in Gateways /\ q.m \in Modules /\ q.todo \in Seq(MfSteps)
  BY DEF MfCall, CallShaped, CallOf
<1>2. PICK l : l = FALSE
  OBVIOUS
<1> DEFINE r1 == [q EXCEPT !.at = "run"]
<1>3. r1 = CallOf("run", q.gw, q.m, q.todo, q.key, q.snap, q.locked)
  BY <1>1 DEF CallOf
<1> HIDE DEF r1
<1> DEFINE r2 == [r1 EXCEPT !.todo = q.todo]
<1>4. r2 = CallOf("run", q.gw, q.m, q.todo, q.key, q.snap, q.locked)
  BY <1>3 DEF CallOf
<1> HIDE DEF r2
<1> DEFINE r3 == [r2 EXCEPT !.locked = l]
<1>5. r3 = CallOf("run", q.gw, q.m, q.todo, q.key, q.snap, l)
  BY <1>4 DEF CallOf
<1> HIDE DEF r3
<1> DEFINE r4 == [r3 EXCEPT !.snap = Absent]
<1>6. r4 = CallOf("run", q.gw, q.m, q.todo, q.key, Absent, l)
  BY <1>5 DEF CallOf
<1>7. r4 = Resumed(q, q.todo, FALSE)
  BY <1>2, Zenon DEF Resumed, r1, r2, r3
<1> HIDE DEF r4
<1>8. r4.at = "run" /\ r4.gw = q.gw /\ r4.m = q.m /\ r4.todo = q.todo /\ r4.locked = l /\ CallShaped(r4)
  BY <1>6 DEF CallOf, CallShaped
<1>9. MfCall(r4, n) /\ r4.locked = FALSE
  BY <1>1, <1>2, <1>8 DEF MfCall
<1> QED BY <1>7, <1>8, <1>9

\* The rename, or a write that fails.
LEMMA WriteStep == ASSUME MfInv, NEW c \in MfCalls, Write(c) PROVE MfInv'
<1>1. PICK q, g, s, r : q = mf[c] /\ g = q.gw /\ s = q.snap /\ r = Resume(c, q.todo)
  OBVIOUS
<1>2. /\ q.at = "write" /\ mf' = [mf EXCEPT ![c] = r] /\ UNCHANGED <<reg, issued>>
      /\ \/ /\ file' = s /\ last' = [last EXCEPT ![g] = Ids(s)]
            /\ fate' = IF q.locked THEN MfSettled(s) ELSE [m \in Modules |-> "open"]
            /\ sealed' = [m \in Modules |-> IF s[m] # Absent /\ reg[g][m] # Absent /\ s[m].hash = reg[g][m].hash THEN s[m].hash ELSE 0]
         \/ UNCHANGED <<file, last, fate, sealed>>
  BY <1>1 DEF Write
<1>3. MfCall(q, issued) /\ g \in Gateways /\ MfStore(s, issued) /\ issued \in Nat /\ issued \in 0 .. MaxKeys
  BY <1>1, <1>2, MfAssumption DEF MfInv, MfCall
<1>4. MfCall(r, issued) /\ r.locked = FALSE
  <2>1. CASE q.todo = <<>>
    BY <1>1, <2>1, NoCallOK DEF Resume
  <2>2. CASE q.todo # <<>>
    <3>1. r = Resumed(q, q.todo, FALSE)
      BY <1>1, <2>2, Zenon DEF Resume, Resumed
    <3> QED BY <1>2, <1>3, <2>2, <3>1, ResumedCall
  <2> QED BY <2>1, <2>2
<1>5. /\ mf' = [d \in MfCalls |-> mf'[d]] /\ mf'[c] = r /\ \A d \in MfCalls : d # c => mf'[d] = mf[d]
      /\ \A d \in MfCalls : MfCall(mf'[d], issued')
  <2>1. issued' \in Nat /\ issued <= issued' /\ MfCall(r, issued')
    BY <1>2, <1>3, <1>4
  <2> QED BY <1>2, <2>1, MfMoves
<1>6. \A d \in MfCalls : mf'[d].locked => d # c /\ mf'[d] = mf[d]
  BY <1>4, <1>5
<1>7. \A d, e \in MfCalls : mf'[d].locked /\ mf'[e].locked => d = e
  BY <1>6 DEF MfInv
<1>8. CASE UNCHANGED <<file, last, fate, sealed>>
  <2>1. UNCHANGED <<reg, last, file, issued, fate, sealed>>
    BY <1>2, <1>8
  <2>2. \A z \in Modules : FateFits(z)'
    BY <1>6, <2>1 DEF MfInv, FateFits, WillWrite, Valid
  <2>3. MfStores'
    BY <2>1 DEF MfInv, MfStores
  <2> QED BY <1>5, <1>7, <2>1, <2>2, <2>3 DEF MfInv
<1>9. CASE /\ file' = s /\ last' = [last EXCEPT ![g] = Ids(s)]
           /\ fate' = IF q.locked THEN MfSettled(s) ELSE [m \in Modules |-> "open"]
           /\ sealed' = [m \in Modules |-> IF s[m] # Absent /\ reg[g][m] # Absent /\ s[m].hash = reg[g][m].hash THEN s[m].hash ELSE 0]
  <2>1. Ids(s) \subseteq Modules
    BY <1>3 DEF Ids, MfStore
  <2>2. MfStores'
    BY <1>2, <1>3, <1>9, <2>1 DEF MfInv, MfStores
  <2>3. ASSUME NEW z \in Modules PROVE FateFits(z)'
    <3>1. CASE ~q.locked
      BY <1>9, <3>1 DEF FateFits
    <3>2. CASE q.locked
      <4>1. fate'[z] = IF s[z] # Absent
                       THEN IF \A h \in Gateways : Valid(h, z) /\ (reg[h][z] # Absent \/ z \notin last'[h]) THEN "kept" ELSE "open"
                       ELSE IF \A h \in Gateways : reg[h][z] = Absent THEN "gone" ELSE "open"
        BY <1>9, <3>2 DEF MfSettled
      <4>2. \A d \in MfCalls : ~mf'[d].locked
        BY <1>1, <1>6, <3>2 DEF MfInv
      <4> QED BY <1>2, <1>9, <4>1, <4>2 DEF FateFits, Valid
    <3> QED BY <3>1, <3>2
  <2>4. fate' = [z \in Modules |-> fate'[z]] /\ sealed' = [z \in Modules |-> sealed'[z]]
    BY <1>9 DEF MfSettled
  <2>5. issued' \in 0 .. MaxKeys
    BY <1>2, <1>3
  <2> QED BY <1>5, <1>7, <2>2, <2>3, <2>4, <2>5 DEF MfInv
<1> QED BY <1>2, <1>8, <1>9

\* A process restarts from the file.
LEMMA MfLoadStep == ASSUME MfInv, NEW g \in Gateways, Load(g) PROVE MfInv'
<1>1. PICK r : r = [m \in Modules |-> IF Valid(g, m) THEN file[m] ELSE Absent]
  OBVIOUS
<1>2. /\ \A c \in MfCalls : mf[c].locked => mf[c].gw = g
      /\ reg' = [reg EXCEPT ![g] = r] /\ last' = [last EXCEPT ![g] = {m \in Ids(file) : Valid(g, m)}]
      /\ mf' = [c \in MfCalls |-> IF mf[c].gw = g THEN NoCall ELSE mf[c]]
      /\ fate' = Learned(g, Modules) /\ UNCHANGED <<file, issued, sealed>>
  BY <1>1 DEF Load
<1>3. MfStore(r, issued)
  BY <1>1 DEF MfInv, MfStores, MfStore, MfSlot
<1>4. /\ reg' = [h \in Gateways |-> reg'[h]] /\ \A h \in Gateways : MfStore(reg'[h], issued)
      /\ reg'[g] = r /\ \A h \in Gateways : h # g => reg'[h] = reg[h]
  BY <1>2, <1>3, StoreReplaced DEF MfInv
<1>5. Ids(file) \subseteq Modules
  BY DEF Ids, MfInv, MfStores, MfStore
<1>6. MfStores' /\ \A h \in Gateways : h # g => last'[h] = last[h]
  BY <1>2, <1>4, <1>5 DEF MfInv, MfStores
<1>7. \A c \in MfCalls : (mf'[c] = NoCall \/ (mf'[c] = mf[c] /\ mf[c].gw # g))
  BY <1>2
<1>8. \A c \in MfCalls : ~mf'[c].locked /\ MfCall(mf'[c], issued')
  BY <1>2, <1>7, NoCallOK DEF MfInv
<1>9. /\ fate' = [z \in Modules |-> fate'[z]]
      /\ \A z \in Modules : fate'[z] = IF fate[z] = "removed" /\ r[z] # Absent THEN "open" ELSE fate[z]
  BY <1>2, <1>4 DEF Learned
<1>10. ASSUME NEW z \in Modules PROVE FateFits(z)'
  <2>1. FateFits(z)
    BY DEF MfInv
  <2>2. r[z] = IF Valid(g, z) THEN file[z] ELSE Absent
    BY <1>1
  <2>3. CASE fate'[z] \in {"removed", "gone"}
    <3>1. fate[z] = fate'[z] /\ (\A h \in Gateways : reg[h][z] = Absent) /\ (fate[z] = "gone" => file[z] = Absent)
      BY <1>9, <2>1, <2>3 DEF FateFits
    <3>2. r[z] = Absent
      BY <1>9, <2>2, <2>3, <3>1
    <3> QED BY <1>2, <1>4, <2>3, <3>1, <3>2 DEF FateFits
  <2>4. CASE fate'[z] = "kept"
    <3>1. fate[z] = "kept"
      BY <1>9, <2>4
    <3>2. file[z] # Absent /\ \A h \in Gateways : Valid(h, z) /\ (reg[h][z] # Absent \/ z \notin last[h])
      BY <2>1, <3>1 DEF FateFits
    <3>3. \A h \in Gateways : Valid(h, z) /\ (reg'[h][z] # Absent \/ z \notin last'[h])
      BY <1>4, <1>6, <2>2, <3>2
    <3> QED BY <1>2, <1>8, <2>4, <3>2, <3>3 DEF FateFits, Valid
  <2> QED BY <2>3, <2>4 DEF FateFits
<1>11. \A c, d \in MfCalls : mf'[c].locked /\ mf'[d].locked => c = d
  BY <1>8
<1>12. /\ mf' = [c \in MfCalls |-> mf'[c]] /\ issued' \in 0 .. MaxKeys /\ sealed' = [m \in Modules |-> sealed'[m]]
  BY <1>2 DEF MfInv
<1> QED BY <1>6, <1>8, <1>9, <1>10, <1>11, <1>12 DEF MfInv

\* The registry at the start.
LEMMA MfInvInit == ASSUME MfInit PROVE MfInv
<1>1. issued \in 0 .. MaxKeys
  BY MfAssumption DEF MfInit
<1>2. MfStores
  BY DEF MfInit, MfStores, MfStore, MfSlot
<1>3. mf = [c \in MfCalls |-> mf[c]] /\ \A c \in MfCalls : mf[c] = NoCall
  BY DEF MfInit
<1>4. \A c \in MfCalls : MfCall(mf[c], issued) /\ ~mf[c].locked
  BY <1>3, NoCallOK
<1>5. fate = [m \in Modules |-> fate[m]] /\ sealed = [m \in Modules |-> sealed[m]] /\ \A m \in Modules : FateFits(m)
  BY DEF MfInit, FateFits
<1> QED BY <1>1, <1>2, <1>3, <1>4, <1>5 DEF MfInv

\* Every step of the registry, whatever programs are requested.
LEMMA MfInvStep ==
    ASSUME MfInv, NEW g \in Gateways, NEW m \in Modules, RegistryNext \/ ServiceKeyNext(g, m) \/ UNCHANGED mfVars
    PROVE  MfInv'
<1>1. CASE SaveSteps
  BY <1>1, RunStep, LockStep, MfSnapshotStep, WriteStep DEF SaveSteps
<1>2. CASE RegistryNext
  <2>1. {<<"upsertOwn">>, <<"remove">>} \subseteq Programs
    BY DEF Programs
  <2>2. CASE \E c \in MfCalls, h \in Gateways, z \in Modules, p \in {<<"upsertOwn">>, <<"remove">>} : Request(c, h, z, p, 0)
    BY <2>1, <2>2, RequestStep
  <2> QED BY <1>1, <1>2, <2>2, MfLoadStep DEF RegistryNext
<1>3. CASE ServiceKeyNext(g, m)
  <2>1. CASE \E c \in MfCalls, p \in Programs, k \in {0, issued - 1, issued} : Request(c, g, m, p, k)
    BY <2>1, RequestStep
  <2>2. \/ \E c \in MfCalls, p \in Programs, k \in {0, issued - 1, issued} : Request(c, g, m, p, k)
        \/ \E c \in MfCalls : expireStale(c, g, m)
        \/ Stale(g, m) \/ SaveSteps \/ Load(g)
    BY <1>3 DEF ServiceKeyNext
  <2> QED BY <1>1, <2>1, <2>2, ExpireStep, StaleStep, MfLoadStep
<1>4. CASE UNCHANGED mfVars
  <2>1. UNCHANGED <<reg, last, file, mf, issued, fate, sealed>>
    BY <1>4 DEF mfVars
  <2>2. \A z \in Modules : FateFits(z)'
    BY <2>1 DEF MfInv, FateFits, WillWrite, Valid
  <2>3. MfStores'
    BY <2>1 DEF MfInv, MfStores
  <2> QED BY <2>1, <2>2, <2>3 DEF MfInv
<1> QED BY <1>2, <1>3, <1>4

\* What the invariant says of registrations and credentials.
LEMMA MfInvSound == ASSUME MfInv PROVE MfTypeOK /\ RegistrationsKept /\ CredentialsAgree
<1>1. ASSUME NEW e, MfSlot(e, issued) PROVE e \in Entry \cup {Absent}
  BY <1>1, EntryTyped DEF MfSlot, MfInv
<1>2. MfTypeOK
  BY <1>1 DEF MfInv, MfStores, MfStore, MfTypeOK
<1>3. RegistrationsKept
  BY DEF MfInv, FateFits, RegistrationsKept
<1>4. CredentialsAgree
  <2> SUFFICES ASSUME NEW e \in {reg[g][m] : g \in Gateways, m \in Modules} \cup {file[m] : m \in Modules}, e # Absent
               PROVE  /\ e.hash # 0 => Forwarded(e) \in {e.hash, Own}
                      /\ e.revoked => e.hash = 0 /\ e.prev = 0
                      /\ e.prev # 0 => e.prev < e.hash
    BY DEF CredentialsAgree
  <2>1. MfSlot(e, issued)
    BY DEF MfInv, MfStores, MfStore
  <2>2. MfKeyed(e, issued)
    BY <2>1 DEF MfSlot, MfEntry
  <2> QED BY <2>2 DEF MfKeyed, Forwarded
<1> QED BY <1>2, <1>3, <1>4

\* The requests of one process stay its own.
LEMMA OwnRequests ==
    ASSUME MfInv, NEW g \in Gateways, NEW m \in Modules, \A c \in MfCalls : mf[c].at # "idle" => mf[c].gw = g,
           ServiceKeyNext(g, m) \/ UNCHANGED mfVars
    PROVE  \A c \in MfCalls : mf'[c].at # "idle" => mf'[c].gw = g
<1>0. mf = [c \in MfCalls |-> mf[c]]
  BY DEF MfInv
<1>1. ASSUME NEW c \in MfCalls, NEW q, mf' = [mf EXCEPT ![c] = q], q.at = "idle" \/ q.gw = g
      PROVE  \A d \in MfCalls : mf'[d].at # "idle" => mf'[d].gw = g
  BY <1>0, <1>1
<1>2. ASSUME NEW c \in MfCalls, NEW todo, NEW k, mf' = [mf EXCEPT ![c] = CallOf("run", g, m, todo, k, Absent, FALSE)]
      PROVE  \A d \in MfCalls : mf'[d].at # "idle" => mf'[d].gw = g
  <2>1. PICK q : q = CallOf("run", g, m, todo, k, Absent, FALSE)
    OBVIOUS
  <2>2. mf' = [mf EXCEPT ![c] = q] /\ q.gw = g
    BY <1>2, <2>1, Zenon DEF CallOf
  <2> QED BY <1>1, <2>2
<1>3. ASSUME NEW c \in MfCalls, NEW p, NEW k, Request(c, g, m, p, k) PROVE \A d \in MfCalls : mf'[d].at # "idle" => mf'[d].gw = g
  <2>1. mf' = [mf EXCEPT ![c] = Begun(NoCall, g, m, p, k)]
    BY <1>3 DEF Request, Begun
  <2>2. mf' = [mf EXCEPT ![c] = CallOf("run", g, m, p, k, Absent, FALSE)]
    BY <2>1, BegunCall, Zenon
  <2> QED BY <1>2, <2>2
<1>4. ASSUME NEW c \in MfCalls, expireStale(c, g, m) PROVE \A d \in MfCalls : mf'[d].at # "idle" => mf'[d].gw = g
  <2>1. mf' = [mf EXCEPT ![c] = Polled(NoCall, g, m, <<"expire">>)]
    BY <1>4 DEF expireStale, Polled
  <2>2. mf' = [mf EXCEPT ![c] = CallOf("run", g, m, <<"expire">>, 0, Absent, FALSE)]
    BY <2>1, BegunCall, Zenon
  <2> QED BY <1>2, <2>2
<1>5. ASSUME NEW c \in MfCalls, NEW b, Run(c, b) PROVE \A d \in MfCalls : mf'[d].at # "idle" => mf'[d].gw = g
  <2>1. PICK q, then, todo : /\ q = mf[c] /\ q.at = "run" /\ todo = Rest(q.todo, then)
                             /\ mf' = [mf EXCEPT ![c] = IF then = "save" THEN Advanced(q, "save", todo)
                                                        ELSE IF todo = <<>> THEN NoCall ELSE Onward(q, todo)]
    BY <1>5 DEF Run, Advanced, Onward
  <2>2. MfCall(q, issued) /\ q.todo \in Seq(MfSteps) /\ q.todo # <<>> /\ q.gw = g
    BY <2>1 DEF MfInv, MfCall
  <2>3. todo \in Seq(MfSteps)
    BY <2>1, <2>2, RestSteps
  <2>4. Advanced(q, "save", todo).gw = g /\ Onward(q, todo).gw = g
    BY <2>1, <2>2, <2>3, AdvancedCall
  <2> QED BY <1>1, <2>1, <2>4, NoCallOK
<1>6. ASSUME NEW c \in MfCalls, lockStore(c) PROVE \A d \in MfCalls : mf'[d].at # "idle" => mf'[d].gw = g
  <2>1. PICK q, r : /\ q = mf[c] /\ q.at = "save" /\ (r = Locking(q, TRUE) \/ r = [q EXCEPT !.at = "snapshot"])
                    /\ mf' = [mf EXCEPT ![c] = r]
    BY <1>6 DEF lockStore, Locking
  <2>2. MfCall(q, issued) /\ q.gw = g
    BY <2>1 DEF MfInv
  <2>3. r.gw = g
    BY <2>1, <2>2, LockedCall
  <2> QED BY <1>1, <2>1, <2>3
<1>7. ASSUME NEW c \in MfCalls, MfSnapshot(c) PROVE \A d \in MfCalls : mf'[d].at # "idle" => mf'[d].gw = g
  <2>1. PICK q, s : q = mf[c] /\ q.at = "snapshot" /\ s = Persisted(reg[q.gw]) /\ mf' = [mf EXCEPT ![c] = Snapped(q, s)]
    BY <1>7 DEF MfSnapshot, Snapped
  <2>2. MfCall(q, issued) /\ q.gw = g /\ issued \in 0 .. MaxKeys /\ MfStore(reg[g], issued)
    BY <2>1 DEF MfInv, MfStores
  <2>3. Snapped(q, s).gw = g
    BY <2>1, <2>2, PersistedStore, SnappedCall
  <2> QED BY <1>1, <2>1, <2>3
<1>8. ASSUME NEW c \in MfCalls, Write(c) PROVE \A d \in MfCalls : mf'[d].at # "idle" => mf'[d].gw = g
  <2>1. PICK q, r : q = mf[c] /\ q.at = "write" /\ r = Resume(c, q.todo) /\ mf' = [mf EXCEPT ![c] = r]
    BY <1>8 DEF Write
  <2>2. MfCall(q, issued) /\ q.gw = g
    BY <2>1 DEF MfInv
  <2>3. CASE q.todo = <<>>
    BY <1>1, <2>1, <2>3, NoCallOK DEF Resume
  <2>4. CASE q.todo # <<>>
    <3>1. r = Resumed(q, q.todo, FALSE)
      BY <2>1, <2>4, Zenon DEF Resume, Resumed
    <3>2. r.gw = g
      BY <2>1, <2>2, <2>4, <3>1, ResumedCall
    <3> QED BY <1>1, <2>1, <3>2
  <2> QED BY <2>3, <2>4
<1>9. ASSUME Load(g) PROVE \A d \in MfCalls : mf'[d].at # "idle" => mf'[d].gw = g
  BY <1>9, NoCallOK DEF Load
<1>10. CASE UNCHANGED mf
  BY <1>10
<1>11. (Stale(g, m) \/ UNCHANGED mfVars) => UNCHANGED mf
  BY DEF Stale, mfVars
<1>12. CASE SaveSteps
  BY <1>5, <1>6, <1>7, <1>8, <1>12 DEF SaveSteps
<1> QED BY <1>3, <1>4, <1>9, <1>10, <1>11, <1>12 DEF ServiceKeyNext

\* The key that a save made durable stays so until it changes.
LEMMA KeysStay ==
    ASSUME MfInv, NEW g \in Gateways, NEW m \in Modules, MfAlone(g, m), Valid(g, m), ServiceKeyNext(g, m) \/ UNCHANGED mfVars
    PROVE  KeysDurable(g, m)'
<1>1. ASSUME NEW c \in MfCalls, NEW b, Run(c, b) PROVE KeysDurable(g, m)'
  <2>1. PICK q, z, old, step, n : q = mf[c] /\ z = q.m /\ old = reg[g][z] /\ step = Head(q.todo) /\ n = issued
    OBVIOUS
  <2>2. PICK out : out = Perform(step, old, n + 1, q.key, b)
    OBVIOUS
  <2>3. q.at = "run" /\ q.gw = g /\ z \in Modules
    BY <1>1, <2>1 DEF Run, MfAlone, MfInv, MfCall
  <2>4. /\ reg' = [reg EXCEPT ![g] = [reg[g] EXCEPT ![z] = out.e]] /\ UNCHANGED file
        /\ sealed' = IF old # Absent /\ out.e # Absent /\ old.hash = out.e.hash THEN sealed ELSE [sealed EXCEPT ![z] = 0]
    BY <1>1, <2>1, <2>2, <2>3 DEF Run
  <2>5. reg'[g][z] = out.e /\ (z # m => reg'[g][m] = reg[g][m])
    BY <2>3, <2>4 DEF MfInv, MfStores, MfStore
  <2>6. CASE z # m
    <3>1. sealed'[m] = sealed[m]
      BY <2>3, <2>4, <2>6 DEF MfInv
    <3> QED BY <2>4, <2>5, <2>6, <3>1 DEF MfAlone, KeysDurable
  <2>7. CASE z = m /\ old # Absent /\ out.e # Absent /\ old.hash = out.e.hash
    BY <2>1, <2>4, <2>5, <2>7 DEF MfAlone, KeysDurable
  <2>8. CASE z = m /\ ~(old # Absent /\ out.e # Absent /\ old.hash = out.e.hash)
    <3>1. sealed'[m] = 0
      BY <2>4, <2>8 DEF MfInv
    <3> QED BY <3>1 DEF KeysDurable
  <2> QED BY <2>6, <2>7, <2>8
<1>2. ASSUME NEW c \in MfCalls, lockStore(c) PROVE KeysDurable(g, m)'
  <2>1. mf[c].gw = g
    BY <1>2 DEF lockStore, MfAlone
  <2>2. UNCHANGED <<file, sealed>> /\ (reg' = reg \/ reg' = [reg EXCEPT ![g] = adoptForeign(g)])
    BY <1>2, <2>1 DEF lockStore
  <2>3. reg[g][m] # Absent => reg'[g][m] = reg[g][m]
    BY <2>2 DEF MfInv, MfStores, adoptForeign
  <2> QED BY <2>2, <2>3 DEF MfAlone, KeysDurable
<1>3. ASSUME NEW c \in MfCalls, Write(c) PROVE KeysDurable(g, m)'
  <2>1. PICK s : s = mf[c].snap
    OBVIOUS
  <2>2. mf[c].gw = g
    BY <1>3 DEF Write, MfAlone
  <2>3. /\ UNCHANGED reg
        /\ \/ /\ file' = s
              /\ sealed' = [z \in Modules |-> IF s[z] # Absent /\ reg[g][z] # Absent /\ s[z].hash = reg[g][z].hash THEN s[z].hash ELSE 0]
           \/ UNCHANGED <<file, sealed>>
    BY <1>3, <2>1, <2>2 DEF Write
  <2> QED BY <2>3 DEF MfAlone, KeysDurable
<1>4. ASSUME Stale(g, m) PROVE KeysDurable(g, m)'
  <2>1. PICK e, r : e = reg[g][m] /\ r = [e EXCEPT !.fresh = FALSE]
    OBVIOUS
  <2>2. e # Absent /\ reg'[g][m] = r /\ UNCHANGED <<file, sealed>>
    BY <1>4, <2>1 DEF Stale, MfInv, MfStores, MfStore
  <2>3. MfEntry(e, issued) /\ issued \in 0 .. MaxKeys
    BY <2>1, <2>2 DEF MfInv, MfStores, MfStore, MfSlot
  <2>4. PICK x : x = FALSE
    OBVIOUS
  <2>5. [e EXCEPT !.fresh = x] = MfEntryOf(e.api, e.hash, e.prev, e.revoked, e.used, x)
    BY <2>3, EntryFields DEF MfEntry
  <2>6. r = MfEntryOf(e.api, e.hash, e.prev, e.revoked, e.used, x)
    BY <2>1, <2>4, <2>5, Zenon
  <2>7. r.hash = e.hash
    BY <2>6 DEF MfEntryOf
  <2>8. FlagsFit(e.revoked, e.used, x)
    BY <2>3, <2>4, Zenon DEF MfEntry, Flagged, FlagsFit
  <2>9. MfEntry(r, issued)
    BY <2>3, <2>6, <2>8, AnEntry, FlagsOf
  <2>10. r # Absent
    BY <2>3, <2>9, EntryTyped
  <2> QED BY <2>1, <2>2, <2>7, <2>10 DEF MfAlone, KeysDurable
<1>5. ASSUME Load(g) PROVE KeysDurable(g, m)'
  <2>1. reg'[g][m] = file[m] /\ UNCHANGED <<file, sealed>>
    BY <1>5 DEF Load, MfInv, MfStores
  <2> QED BY <2>1 DEF MfAlone, KeysDurable
<1>6. CASE UNCHANGED <<reg, file, sealed>>
  BY <1>6 DEF MfAlone, KeysDurable
<1>7. \/ UNCHANGED <<reg, file, sealed>> \/ Stale(g, m) \/ Load(g)
      \/ \E c \in MfCalls : (\E b \in BOOLEAN : Run(c, b)) \/ lockStore(c) \/ Write(c)
  BY DEF ServiceKeyNext, SaveSteps, Request, expireStale, MfSnapshot, mfVars
<1> QED BY <1>1, <1>2, <1>3, <1>4, <1>5, <1>6, <1>7

\* One process on the file, at the start and at every step.
LEMMA MfAloneInit == ASSUME MfInit, NEW g \in Gateways, NEW m \in Modules PROVE MfAlone(g, m)
BY NoCallOK DEF MfInit, MfAlone, KeysDurable

\* Its requests are its own, its key is durable.
LEMMA MfAloneStep ==
    ASSUME MfInv, NEW g \in Gateways, NEW m \in Modules, MfAlone(g, m), Valid(g, m), ServiceKeyNext(g, m) \/ UNCHANGED mfVars
    PROVE  MfAlone(g, m)'
<1>1. \A c \in MfCalls : mf'[c].at # "idle" => mf'[c].gw = g
  BY OwnRequests DEF MfAlone
<1>2. KeysDurable(g, m)'
  BY KeysStay
<1> QED BY <1>1, <1>2 DEF MfAlone

-----------------------------------------------------------------------------
(* The web shell                                                             *)

\* ShellSound, for any gateways, modules, accounts, roles, tenants and models:
\* a saved registration stays in the manifest file until it is removed, and
\* its credentials agree in memory and on disk; a service key is durable for a
\* process alone on its file; a store whose saves never overlapped has a
\* complete and current file; an administrator remains unless two changes ran
\* at once; the audit chain is unbroken; a model policy resolves within its
\* allowlist and its pin, shows what it admits, and survives a restart.
THEOREM ShellIsSound == PartsSpec => []ShellSound
<1> DEFINE Followed == focus = "servicekeys" => MfAlone(g1, m1)
           Inv == MfInv /\ Followed /\ AdInv /\ PlInv
<1>1. PartsInit => Inv
  BY MfInvInit, MfAloneInit, AdInvInit, PlInvInit, PartsAssumption DEF PartsInit
<1> DEFINE v == <<focus, gateVars, limVars, tqVars, cacheVars, semVars, sinkVars, storeVars, processVars, reloadVars,
                  mfVars, storeFileVars, policyVars, epVars, shardVars>>
<1>2. Inv /\ [PartsNext]_v => Inv'
  <2> SUFFICES ASSUME Inv, [PartsNext]_v PROVE Inv'
    OBVIOUS
  <2>1. PartsNext => /\ RegistryNext \/ ServiceKeyNext(g1, m1) \/ UNCHANGED mfVars
                     /\ AccountsNext \/ SurfacesNext \/ UNCHANGED storeFileVars
                     /\ PolicyNext \/ UNCHANGED policyVars
    BY DEF PartsNext
  <2>2. /\ RegistryNext \/ ServiceKeyNext(g1, m1) \/ UNCHANGED mfVars
        /\ AccountsNext \/ SurfacesNext \/ UNCHANGED storeFileVars
        /\ [PolicyNext]_policyVars
    BY <2>1
  <2>3. MfInv'
    BY <2>2, MfInvStep, PartsAssumption
  <2>4. AdInv' /\ PlInv'
    BY <2>2, AdInvStep, PlInvStep
  <2>5. focus' = focus
    BY DEF PartsNext
  <2>6. ASSUME focus = "servicekeys" PROVE MfAlone(g1, m1)'
    <3>1. ServiceKeyNext(g1, m1) \/ UNCHANGED mfVars
      BY <2>6 DEF PartsNext
    <3> QED BY <3>1, <2>6, MfAloneStep, PartsAssumption
  <2> QED BY <2>3, <2>4, <2>5, <2>6
<1>3. Inv => ShellSound
  BY MfInvSound, AdInvSound, PlInvSound, PartsAssumption DEF ShellSound, MfAlone
<1> QED BY <1>1, <1>2, <1>3, PTL DEF PartsSpec

=============================================================================
