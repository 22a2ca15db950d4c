----------------------------- MODULE TierQueue -----------------------------
(***************************************************************************)
(* internal/router/tier_queue.go: the bounded three-tier wait queue over   *)
(* the local inference slots.  Every request is a goroutine that runs      *)
(* Acquire, does its work and calls release exactly once.  The semaphore   *)
(* channel q.sem is the number of slots taken; a step of the model is one  *)
(* critical section of q.mu or one channel operation outside it.  The      *)
(* drain of q.sem in release and the dispatch that follows it are two      *)
(* steps, as are the failed fast path, the insertion and the dispatch in   *)
(* Acquire: other goroutines run between them.                             *)
(***************************************************************************)
EXTENDS Integers, Sequences, FiniteSets, SequencesExt

CONSTANTS
    Requests,        \* the goroutines that call Acquire
    MaxConcurrent,   \* routing.tier_queue.max_concurrent, as configured
    HeavyGuarantee,  \* routing.tier_queue.heavy_guarantee, as configured
    LightGuarantee   \* routing.tier_queue.light_guarantee, as configured

ASSUME RequestsAssumption == IsFiniteSet(Requests)
ASSUME ConfigAssumption ==
    /\ MaxConcurrent \in Int
    /\ HeavyGuarantee \in Int
    /\ LightGuarantee \in Int

VARIABLES
    pc,         \* pc[r]: where r's goroutine stands in Acquire or release
    tier,       \* tier[r]: the tier of r's latest Acquire
    sem,        \* slots taken: len(q.sem)
    waiters,    \* q.waiters, head first
    committed,  \* requests whose tierWaiter has committed = true
    ready       \* requests whose buffered ready signal has not been consumed

vars == <<pc, tier, sem, waiters, committed, ready>>

----------------------------------------------------------------------------
(* Tiers and capacity. *)

Tiers == {"heavy", "general", "light"}

\* Lower rank is dispatched first.
Rank(t) == CASE t = "heavy" -> 0 [] t = "general" -> 1 [] t = "light" -> 2

Intents == {"diffusion", "heavy_model", "lightweight", "other"}

\* "none" is a tenant with no tier, or with a tag that is none of the three.
TenantTiers == Tiers \union {"none"}

\* The tenant's tag wins over the intent of the request.
TierForRequest(intent, tenantTier) ==
    CASE tenantTier \in Tiers -> tenantTier
      [] tenantTier \notin Tiers /\ intent \in {"diffusion", "heavy_model"} -> "heavy"
      [] tenantTier \notin Tiers /\ intent = "lightweight" -> "light"
      [] OTHER -> "general"

\* A non-positive max_concurrent is clamped to 1.
Capacity == IF MaxConcurrent <= 0 THEN 1 ELSE MaxConcurrent

clampGuarantee(g) == IF g < 0 THEN 0 ELSE IF g > Capacity THEN Capacity ELSE g

\* The light guarantee shrinks first until the two sum to at most Capacity.
\* A heavy guarantee is at most Capacity, so it never has to shrink.
Guarantees ==
    LET heavy == clampGuarantee(HeavyGuarantee)
        light == clampGuarantee(LightGuarantee)
    IN  [heavy |-> heavy,
         light |-> IF heavy + light > Capacity THEN Capacity - heavy ELSE light]

----------------------------------------------------------------------------
(* The wait list. *)

\* Mutant: a newcomer goes in front of the waiters of its own tier.
MutantInsertBeforePeers(q, t) ==
    IF \E i \in 1..Len(q) : Rank(t) <= Rank(tier[q[i]])
    THEN CHOOSE i \in 1..Len(q) :
            /\ Rank(t) <= Rank(tier[q[i]])
            /\ \A j \in 1..(i - 1) : ~ (Rank(t) <= Rank(tier[q[j]]))
    ELSE Len(q) + 1

\* The first position whose occupant ranks behind tier t, else the end.
InsertPosition(q, t) ==
    IF \E i \in 1..Len(q) : Rank(t) < Rank(tier[q[i]])
    THEN CHOOSE i \in 1..Len(q) :
            /\ Rank(t) < Rank(tier[q[i]])
            /\ \A j \in 1..(i - 1) : ~ (Rank(t) < Rank(tier[q[j]]))
    ELSE Len(q) + 1

insertWaiter(q, r) == InsertAt(q, InsertPosition(q, tier[r]), r)

\* Drops r from the list if it is there.
removeWaiter(q, r) ==
    IF \E i \in 1..Len(q) : q[i] = r
    THEN RemoveAt(q, CHOOSE i \in 1..Len(q) : q[i] = r)
    ELSE q

\* Mutant: the head is committed and stays in the list.
MutantDispatchKeepsHead ==
    IF waiters # <<>> /\ sem < Capacity
    THEN /\ sem' = sem + 1
         /\ committed' = committed \union {Head(waiters)}
         /\ ready' = ready \union {Head(waiters)}
         /\ UNCHANGED waiters
    ELSE UNCHANGED <<sem, waiters, committed, ready>>

\* Mutant: the ready channel is unbuffered, a signal nobody waits for is lost.
MutantDispatchWithoutSignal ==
    IF waiters # <<>> /\ sem < Capacity
    THEN /\ sem' = sem + 1
         /\ waiters' = Tail(waiters)
         /\ committed' = committed \union {Head(waiters)}
         /\ ready' = ready \union ({Head(waiters)} \intersect {r \in Requests : pc[r] = "wait"})
    ELSE UNCHANGED <<sem, waiters, committed, ready>>

\* One critical section: at most one free slot goes to the head of the list.
dispatch ==
    IF waiters # <<>> /\ sem < Capacity
    THEN /\ sem' = sem + 1
         /\ waiters' = Tail(waiters)
         /\ committed' = committed \union {Head(waiters)}
         /\ ready' = ready \union {Head(waiters)}
    ELSE UNCHANGED <<sem, waiters, committed, ready>>

----------------------------------------------------------------------------

Init ==
    /\ pc = [r \in Requests |-> "idle"]
    /\ tier = [r \in Requests |-> "general"]
    /\ sem = 0
    /\ waiters = <<>>
    /\ committed = {}
    /\ ready = {}

Goto(r, label) == pc' = [pc EXCEPT ![r] = label]

\* Mutant: the semaphore is not bounded.
MutantFastPathIgnoresCapacity(r) ==
    /\ pc[r] = "idle"
    /\ waiters = <<>>
    /\ sem' = sem + 1
    /\ Goto(r, "hold")
    /\ UNCHANGED <<tier, waiters, committed, ready>>

\* Mutant: the code before audit item B9, a free slot goes to the newcomer.
MutantFastPathIgnoresWaiters(r) ==
    /\ pc[r] = "idle"
    /\ \E t \in Tiers : tier' = [tier EXCEPT ![r] = t]
    /\ IF sem < Capacity
       THEN sem' = sem + 1 /\ Goto(r, "hold")
       ELSE UNCHANGED sem /\ Goto(r, "insert")
    /\ UNCHANGED <<waiters, committed, ready>>

\* Acquire looks at the fast path first: a slot is taken only when nobody is
\* queued.
AcquireFastPath(r) ==
    /\ pc[r] = "idle"
    /\ \E intent \in Intents, tenantTier \in TenantTiers :
            tier' = [tier EXCEPT ![r] = TierForRequest(intent, tenantTier)]
    /\ IF waiters = <<>> /\ sem < Capacity
       THEN sem' = sem + 1 /\ Goto(r, "hold")
       ELSE UNCHANGED sem /\ Goto(r, "insert")
    /\ UNCHANGED <<waiters, committed, ready>>

\* Mutant: no second look at the semaphore after registering.
MutantInsertWithoutRetry(r) ==
    /\ pc[r] = "insert"
    /\ waiters' = insertWaiter(waiters, r)
    /\ Goto(r, "try")
    /\ UNCHANGED <<tier, sem, committed, ready>>

AcquireInsert(r) ==
    /\ pc[r] = "insert"
    /\ waiters' = insertWaiter(waiters, r)
    /\ Goto(r, "dispatch")
    /\ UNCHANGED <<tier, sem, committed, ready>>

AcquireDispatch(r) ==
    /\ pc[r] = "dispatch"
    /\ dispatch
    /\ Goto(r, "try")
    /\ UNCHANGED tier

\* Acquire returns the release closure and drops its tierWaiter.
TakeReady(r) ==
    /\ r \in ready
    /\ ready' = ready \ {r}
    /\ committed' = committed \ {r}
    /\ Goto(r, "hold")

tryTakeWaiter(r) ==
    /\ pc[r] = "try"
    /\ \/ TakeReady(r)
       \/ r \notin ready /\ Goto(r, "wait") /\ UNCHANGED <<ready, committed>>
    /\ UNCHANGED <<tier, sem, waiters>>

\* case <-waiter.ready, in the select or after a timeout or a cancel that
\* came too late.
AcquireReady(r) ==
    /\ pc[r] \in {"wait", "drain"}
    /\ TakeReady(r)
    /\ UNCHANGED <<tier, sem, waiters>>

\* case <-timer.C or case <-waitCtx.Done(): the wait budget runs out or the
\* client is gone.  Both may be chosen when ready is signalled as well.
AcquireExpire(r) ==
    /\ pc[r] = "wait"
    /\ Goto(r, "expired")
    /\ UNCHANGED <<tier, sem, waiters, committed, ready>>

\* Mutant: a timeout that races with dispatch drops the handed-over slot.
MutantRemoveIgnoresCommit(r) ==
    /\ pc[r] = "expired"
    /\ waiters' = removeWaiter(waiters, r)
    /\ ready' = ready \ {r}
    /\ committed' = committed \ {r}
    /\ Goto(r, "idle")
    /\ UNCHANGED <<tier, sem>>

\* A committed waiter keeps its slot and goes on to consume the signal; the
\* caller of any other one gets ErrTierQueueTimeout or ctx.Err().
removeWaiterIfNotCommitted(r) ==
    /\ pc[r] = "expired"
    /\ IF r \in committed
       THEN UNCHANGED waiters /\ Goto(r, "drain")
       ELSE waiters' = removeWaiter(waiters, r) /\ Goto(r, "idle")
    /\ UNCHANGED <<tier, sem, committed, ready>>

\* release, up to the drain of the semaphore channel; on an empty channel it
\* warns and returns.
releaseDrain(r) ==
    /\ pc[r] = "hold"
    /\ IF sem > 0
       THEN sem' = sem - 1 /\ Goto(r, "freed")
       ELSE UNCHANGED sem /\ Goto(r, "idle")
    /\ UNCHANGED <<tier, waiters, committed, ready>>

\* Mutant: release frees the slot and wakes nobody.
MutantReleaseWithoutDispatch(r) ==
    /\ pc[r] = "freed"
    /\ Goto(r, "idle")
    /\ UNCHANGED <<tier, sem, waiters, committed, ready>>

\* release, the dispatch that follows.
releaseDispatch(r) ==
    /\ pc[r] = "freed"
    /\ dispatch
    /\ Goto(r, "idle")
    /\ UNCHANGED tier

AcquireStep(r) ==
    \/ AcquireInsert(r)
    \/ AcquireDispatch(r)
    \/ tryTakeWaiter(r)
    \/ AcquireReady(r)
    \/ removeWaiterIfNotCommitted(r)

ReleaseStep(r) == releaseDrain(r) \/ releaseDispatch(r)

Next ==
    \E r \in Requests :
        \/ AcquireFastPath(r)
        \/ AcquireStep(r)
        \/ AcquireExpire(r)
        \/ ReleaseStep(r)

Spec == Init /\ [][Next]_vars

\* The Go scheduler runs every goroutine that can run, and a request that
\* holds a slot finishes: its handler has a deadline and defers release.
Fairness ==
    \A r \in Requests : WF_vars(AcquireStep(r)) /\ WF_vars(ReleaseStep(r))

FairSpec == Spec /\ Fairness

\* The timer of a waiting Acquire fires in the end.
TimersFire == \A r \in Requests : WF_vars(AcquireExpire(r))

----------------------------------------------------------------------------
(* Properties. *)

Labels == {"idle", "insert", "dispatch", "try", "wait", "expired", "drain",
           "hold", "freed"}

\* Types of the queue's state.
TypeOK ==
    /\ pc \in [Requests -> Labels]
    /\ tier \in [Requests -> Tiers]
    /\ sem \in 0..Capacity
    /\ waiters \in Seq(Requests)
    /\ committed \subseteq Requests
    /\ ready \subseteq Requests

\* Requests whose tierWaiter has been inserted and which have not returned.
Registered == {r \in Requests : pc[r] \in {"dispatch", "try", "wait", "expired", "drain"}}

\* Requests that own a slot: running, or handed one they have not seen yet.
Owners == {r \in Requests : pc[r] = "hold"} \union ready

\* Every slot taken in q.sem has exactly one owner: no timeout or client
\* cancel that races with dispatch leaks the slot or gives it away twice.
SlotAccounting == sem = Cardinality(Owners)

\* A registered waiter is either queued, once, or owns a committed slot,
\* never both and never neither; nobody else is in the list.
WaiterOnceQueuedOrCommitted ==
    /\ \A i, j \in 1..Len(waiters) : waiters[i] = waiters[j] => i = j
    /\ ToSet(waiters) = Registered \ ready
    /\ ready \subseteq Registered \intersect committed

Pending == {r \in Requests : pc[r] \in {"dispatch", "freed"}}

\* No lost wakeup: while a free slot and a waiter coexist, some goroutine is
\* still on its way into dispatch, one for each slot that could be handed
\* over.  dispatch hands over a single slot per call, so the count matters.
NoLostWakeup ==
    \/ Capacity - sem <= Cardinality(Pending)
    \/ Len(waiters) <= Cardinality(Pending)

\* The wait list is ordered by rank at all times, so the head that dispatch
\* takes is of the most urgent tier that waits.
OrderedByRank ==
    \A i, j \in 1..Len(waiters) : i < j => Rank(tier[waiters[i]]) <= Rank(tier[waiters[j]])

Owns(r) == pc[r] = "hold" \/ r \in ready

Before(r, a) == \E i, j \in 1..Len(waiters) : i < j /\ waiters[i] = r /\ waiters[j] = a

\* A slot goes to r only when every other queued request is of a less urgent
\* tier, or of the same tier and queued behind r.  This covers the fast path
\* (audit B9: a newcomer must not take a slot over the heads of waiters).
GrantInOrder ==
    [][\A r \in Requests : (~Owns(r) /\ Owns(r)') =>
          \A a \in ToSet(waiters) \ {r} :
              \/ Rank(tier'[r]) < Rank(tier[a]) /\ r \in ToSet(waiters)
              \/ Rank(tier'[r]) = Rank(tier[a]) /\ Before(r, a)]_vars

\* A request that is queued is only ever overtaken by requests of a strictly
\* more urgent tier: within a tier the list is first in, first out.
OvertakenOnlyByRank ==
    [][\A a, b \in Requests :
          (a \in ToSet(waiters) /\ a \in ToSet(waiters') /\ Before(b, a)' /\ ~Before(b, a))
              => Rank(tier[b]) < Rank(tier[a])]_vars

\* If timers fire, every Acquire ends, with a slot or with a rejection: the
\* wait for a signal that removeWaiterIfNotCommitted announced never hangs.
AcquireReturns ==
    TimersFire => \A r \in Requests : (pc[r] = "insert") ~> (pc[r] \in {"hold", "idle"})

\* A heavy request that waits is served, or its client gives up, without
\* help from the timer: as long as holders release, slots reach the head.
HeavyServed ==
    \A r \in Requests :
        (pc[r] = "wait" /\ tier[r] = "heavy") ~> (pc[r] \in {"hold", "expired"})

\* tier_queue.go:47 promises that HeavyGuarantee and LightGuarantee reserve
\* capacity: slots owned by other tiers leave the guaranteed number free or
\* with the tier they are reserved for.
GuaranteeReserved ==
    \A t \in {"heavy", "light"} :
        Cardinality({r \in Owners : tier[r] # t}) <= Capacity - Guarantees[t]
============================================================================
