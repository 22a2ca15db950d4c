-------------------------------- MODULE Cache --------------------------------
(***************************************************************************)
(* The response cache: the LRU map of internal/cache/cache.go, the sweep   *)
(* that evicts its expired entries, and the two-tier backend of            *)
(* backend.go over it and the Redis store of redis.go.                     *)
(*                                                                         *)
(* A list element is a number: element n is the n-th value stored, and     *)
(* celem[n] is what its entry holds.  "order" is the LRU list, front       *)
(* first, "items" the map.  Get and the sweep look an entry up under the   *)
(* read lock and act on it under the write lock, so each is two steps.     *)
(***************************************************************************)
EXTENDS Naturals, Integers, Sequences, FiniteSets, SequencesExt, FiniteSetsExt, Sums

CONSTANTS
  Keys,        \* cache keys
  Callers,     \* goroutines of requests
  Sizes,       \* sizes of a stored value
  EntryLimits, \* values of cache.max_entries a reload may set
  ByteLimits,  \* values of cache.max_memory_mb a reload may set, in bytes
  MaxElems     \* how many values are stored at most (a bound of the model)

ASSUME CacheAssumption ==
  /\ IsFiniteSet(Keys) /\ Keys # {} /\ MaxElems \in Nat /\ Sizes \subseteq Nat \ {0}
  /\ EntryLimits \subseteq Nat \ {0} /\ ByteLimits \subseteq Nat \ {0}

VARIABLES
  items,     \* items[k]: the element the map holds for k, 0 if none
  order,     \* the LRU list of elements, most recent first
  celem,     \* celem[n]: key, size, expiry and origin of element n
  usedBytes, \* the memory the cache accounts for
  limits,    \* the configured limits
  caller,    \* caller[g]: where goroutine g is in its call
  sweep,     \* the keys the sweep collected under the read lock
  l2,        \* l2[k]: the value of k in the Redis tier, 0 if none
  tierMu,    \* who holds tieredBackend.mu, {} if nobody
  revoked    \* the values a finished Delete had to remove (history)

cacheVars == <<items, order, celem, usedBytes, limits, caller, sweep, l2, tierMu, revoked>>

Elems == 1 .. MaxElems
Idle == [op |-> "idle", elem |-> 0, key |-> CHOOSE k \in Keys : TRUE]
Stored == Len(celem)

\* A value: the number of the Set call it comes from. A refill of L1 from L2
\* makes a new element for an old value.
CacheTypeOK ==
  /\ items \in [Keys -> 0 .. MaxElems] /\ order \in Seq(Elems) /\ Stored <= MaxElems
  /\ \A n \in 1 .. Stored : celem[n] \in [key : Keys, size : Sizes, expired : BOOLEAN, val : Elems]
  /\ usedBytes \in Int /\ limits \in [entries : EntryLimits, bytes : ByteLimits]
  /\ caller \in [Callers -> [op : {"idle", "hit", "drop", "l2", "fill", "set2", "del1", "del2"}, elem : 0 .. MaxElems, key : Keys]]
  /\ sweep \subseteq Keys /\ l2 \in [Keys -> 0 .. MaxElems] /\ tierMu \subseteq Callers
  /\ Cardinality(tierMu) <= 1 /\ revoked \subseteq Elems

CacheInit ==
  /\ items = [k \in Keys |-> 0] /\ order = <<>> /\ celem = <<>> /\ usedBytes = 0
  /\ limits \in [entries : EntryLimits, bytes : ByteLimits]
  /\ caller = [g \in Callers |-> Idle] /\ sweep = {} /\ l2 = [k \in Keys |-> 0]
  /\ tierMu = {} /\ revoked = {}

\* The state that the list operations work on.
Lru == [items |-> items, order |-> order, used |-> usedBytes]
Install(s) == items' = s.items /\ order' = s.order /\ usedBytes' = s.used

\* A list without some of its elements.
Without(s, gone) ==
  LET kept[i \in 0 .. Len(s)] ==
        IF i = 0 THEN <<>> ELSE IF s[i] \in gone THEN kept[i - 1] ELSE Append(kept[i - 1], s[i])
  IN  kept[Len(s)]

SizeOf(elems, N) == SumUpTo([n \in 1 .. Len(elems) |-> IF n \in N THEN elems[n].size ELSE 0], Len(elems))

\* removeElement, for each of some elements: list.Remove is a no-op for one
\* already removed, the map delete and the accounting are not.
RemoveElements(elems, s, gone) ==
  [items |-> [k \in Keys |-> IF \E n \in gone : elems[n].key = k THEN 0 ELSE s.items[k]],
   order |-> Without(s.order, gone),
   used  |-> s.used - SizeOf(elems, gone)]

RemoveElement(elems, s, n) == RemoveElements(elems, s, {n})

Size(s) == Cardinality({k \in Keys : s.items[k] # 0})

\* The eviction loops remove from the back of the list, m times in all: until
\* the test of the loop fails, or the list is empty.
Back(s, m) == {s[i] : i \in Len(s) - m + 1 .. Len(s)}
After(elems, s, m) == RemoveElements(elems, s, Back(s.order, m))
EvictUntil(elems, s, fits) ==
  After(elems, s, Min({m \in 0 .. Len(s.order) : m = Len(s.order) \/ m \in fits}))

EntriesFit(elems, s, most) == {m \in 0 .. Len(s.order) : Size(After(elems, s, m)) <= most}
BytesFit(elems, s, most) == {m \in 0 .. Len(s.order) : After(elems, s, m).used <= most}

\* Set: the same key's entry leaves, the new one enters in front, the rest is
\* evicted until both limits hold.
SetLru(k, size, val) ==
  LET n == Stored + 1
      elems == Append(celem, [key |-> k, size |-> size, expired |-> FALSE, val |-> val])
      s == IF items[k] # 0 THEN RemoveElement(elems, Lru, items[k]) ELSE Lru
      t == [items |-> [s.items EXCEPT ![k] = n], order |-> <<n>> \o s.order, used |-> s.used + size]
  IN  /\ Stored < MaxElems
      /\ celem' = elems
      /\ Install(EvictUntil(elems, t, BytesFit(elems, t, limits.bytes) \cap EntriesFit(elems, t, limits.entries)))

Go(g, op, n, k) == caller' = [caller EXCEPT ![g] = [op |-> op, elem |-> n, key |-> k]]
Done(g) == caller' = [caller EXCEPT ![g] = Idle]

(***************************************************************************)
(* Get: the lookup under the read lock, then the removal of an expired     *)
(* entry or the move to the front under the write lock.  In the tiered     *)
(* backend a miss goes on to the Redis tier under tieredBackend.mu.        *)
(***************************************************************************)
GetLookup(g, k) ==
  /\ caller[g].op = "idle"
  /\ Go(g, CASE items[k] = 0 -> "l2" [] items[k] # 0 /\ celem[items[k]].expired -> "drop" [] OTHER -> "hit", items[k], k)
  /\ UNCHANGED <<items, order, celem, usedBytes, limits, sweep, l2, tierMu, revoked>>

GetHit(g) ==
  /\ caller[g].op = "hit"
  /\ LET n == caller[g].elem
     IN  order' = IF n \in ToSet(order) THEN <<n>> \o Without(order, {n}) ELSE order
  /\ Done(g)
  /\ UNCHANGED <<items, celem, usedBytes, limits, sweep, l2, tierMu, revoked>>

GetExpired(g) ==
  /\ caller[g].op = "drop"
  /\ Install(RemoveElement(celem, Lru, caller[g].elem))
  /\ Go(g, "l2", 0, caller[g].key)
  /\ UNCHANGED <<celem, limits, sweep, l2, tierMu, revoked>>

MutantRefillLock(g, k) == tierMu' = tierMu \cup {g}

\* The refill branch holds mu from the L2 read to the L1 write; the Redis
\* call may fail or time out, which is a miss.
RefillLock(g, k) == tierMu = {} /\ tierMu' = {g}

TierRead(g) ==
  /\ caller[g].op = "l2"
  /\ \/ /\ l2[caller[g].key] # 0
        /\ RefillLock(g, caller[g].key)
        /\ Go(g, "fill", l2[caller[g].key], caller[g].key)
     \/ tierMu = {} /\ Done(g) /\ UNCHANGED tierMu
  /\ UNCHANGED <<items, order, celem, usedBytes, limits, sweep, l2, revoked>>

TierFill(g) ==
  /\ caller[g].op = "fill"
  /\ SetLru(caller[g].key, celem[caller[g].elem].size, caller[g].elem)
  /\ tierMu' = tierMu \ {g} /\ Done(g)
  /\ UNCHANGED <<limits, sweep, l2, revoked>>

(***************************************************************************)
(* Set and Delete of the tiered backend.                                   *)
(***************************************************************************)
SetLocal(g, k, size) ==
  /\ caller[g].op = "idle"
  /\ SetLru(k, size, Stored + 1)
  /\ Go(g, "set2", Stored + 1, k)
  /\ UNCHANGED <<limits, sweep, l2, tierMu, revoked>>

\* redis.go Set: an error is logged and the old value stays.
SetRedis(g) ==
  /\ caller[g].op = "set2"
  /\ \/ l2' = [l2 EXCEPT ![caller[g].key] = caller[g].elem]
     \/ UNCHANGED l2
  /\ Done(g)
  /\ UNCHANGED <<items, order, celem, usedBytes, limits, sweep, tierMu, revoked>>

DeleteLock(g, k) ==
  /\ caller[g].op = "idle" /\ tierMu = {} /\ tierMu' = {g}
  /\ Go(g, "del1", l2[k], k)
  /\ UNCHANGED <<items, order, celem, usedBytes, limits, sweep, l2, revoked>>

DeleteLocal(g) ==
  /\ caller[g].op = "del1"
  /\ LET k == caller[g].key
     IN  /\ IF items[k] # 0 THEN Install(RemoveElement(celem, Lru, items[k])) ELSE UNCHANGED <<items, order, usedBytes>>
         /\ Go(g, "del2", caller[g].elem, k)
  /\ UNCHANGED <<celem, limits, sweep, l2, tierMu, revoked>>

\* The Delete that ends here revokes the value the Redis tier held when it
\* began; a Set that overlaps it may still land.
\* A failing redis Del is logged only; it is left out of the promise.
DeleteRedis(g) ==
  /\ caller[g].op = "del2"
  /\ LET k == caller[g].key
     IN  /\ l2' = [l2 EXCEPT ![k] = 0]
         /\ revoked' = revoked \cup ({caller[g].elem} \ {0})
  /\ tierMu' = tierMu \ {g} /\ Done(g)
  /\ UNCHANGED <<items, order, celem, usedBytes, limits, sweep>>

(***************************************************************************)
(* The passage of an entry's TTL, the sweep and the reload.                *)
(***************************************************************************)
Expire(n) ==
  /\ n <= Stored /\ ~celem[n].expired
  /\ celem' = [celem EXCEPT ![n].expired = TRUE]
  /\ UNCHANGED <<items, order, usedBytes, limits, caller, sweep, l2, tierMu, revoked>>

SweepCollect ==
  /\ sweep = {}
  /\ sweep' = {k \in Keys : items[k] # 0 /\ celem[items[k]].expired}
  /\ sweep' # {}
  /\ UNCHANGED <<items, order, celem, usedBytes, limits, caller, l2, tierMu, revoked>>

\* The keys are looked up again under the write lock: an entry stored in
\* between goes with them.
SweepRemove ==
  /\ sweep # {}
  /\ Install(RemoveElements(celem, Lru, {items[k] : k \in {h \in sweep : items[h] # 0}}))
  /\ sweep' = {}
  /\ UNCHANGED <<celem, limits, caller, l2, tierMu, revoked>>

CacheUpdateConfig(e, b) ==
  /\ [entries |-> e, bytes |-> b] # limits
  /\ limits' = [entries |-> e, bytes |-> b]
  /\ LET s == EvictUntil(celem, Lru, EntriesFit(celem, Lru, e))
     IN  Install(EvictUntil(celem, s, BytesFit(celem, s, b)))
  /\ UNCHANGED <<celem, caller, sweep, l2, tierMu, revoked>>

CacheNext ==
  \/ \E g \in Callers : \/ \E k \in Keys : GetLookup(g, k) \/ DeleteLock(g, k) \/ \E z \in Sizes : SetLocal(g, k, z)
                        \/ GetHit(g) \/ GetExpired(g) \/ TierRead(g) \/ TierFill(g)
                        \/ SetRedis(g) \/ DeleteLocal(g) \/ DeleteRedis(g)
  \/ \E n \in Elems : Expire(n)
  \/ SweepCollect \/ SweepRemove
  \/ \E e \in EntryLimits, b \in ByteLimits : CacheUpdateConfig(e, b)

CacheSpec == CacheInit /\ [][CacheNext]_cacheVars

-----------------------------------------------------------------------------
(* Properties *)

\* Every entry the map serves is in the LRU list under its own key, whatever
\* a removal on a stale element did in between: the eviction loops of Set and
\* UpdateConfig can always reach it, and an empty list means an empty map.
ItemsListed == \A k \in Keys : items[k] # 0 => items[k] \in ToSet(order) /\ celem[items[k]].key = k

\* The map is within max_entries after every operation, although the list may
\* hold entries the map has lost.
EntriesWithinLimit == Size(Lru) <= limits.entries

ListBytes == SizeOf(celem, ToSet(order))

\* The memory accounted is never more than what the list holds: a double
\* removal makes the cache under-count (and so exceed max_memory_mb), it
\* never makes it evict what fits.
NeverOverCounts == usedBytes <= ListBytes

\* Once a Delete has returned, no refill brings the value it removed back
\* into the first tier (the window tieredBackend.mu closes).
NoStaleRevival == \A k \in Keys : items[k] # 0 => celem[items[k]].val \notin revoked

\* What the cache promises together: callers, sweep and reload interleaved
\* between the read lock and the write lock of each.
CacheSound == CacheTypeOK /\ ItemsListed /\ EntriesWithinLimit /\ NeverOverCounts /\ NoStaleRevival
=============================================================================
