---------------------------- MODULE ClusterProofs ----------------------------
(***************************************************************************)
(* Proofs about the node registry, for any sets of nodes, models and         *)
(* requests and any thresholds: whatever registrations, syncs, health checks *)
(* and requests interleave, the in-flight counters are exact, deaths come at *)
(* the threshold, and a node turns healthy only at the end of a check.       *)
(***************************************************************************)
EXTENDS Cluster, BreakerProofs, FiniteSetTheorems

\* The requests that run on the object registered under n.
RunningOn(n) == {r \in Requests : pc[r] = "flying" /\ holds[r] /\ target[r] = n}

\* A request that holds a registered object is flying, and its node is
\* registered.  Without this a re-registered node could inherit requests that
\* its new counter never saw.
HoldersFly ==
    \A r \in Requests : holds[r] => pc[r] = "flying" /\ target[r] \in Registered

\* The inductive invariant: ClusterSound, what a holder is, and every node
\* breaker sound in the sense of BreakerProofs.
CInv ==
    /\ ClusterSound
    /\ HoldersFly
    /\ \A n \in Nodes : Sound(nodeBreakers[n])

----------------------------------------------------------------------------
(* The records of nodes. *)

\* What TypeOK and DeadAfterThreshold say of one node's record in mode m.
NodeOK(x, m) ==
    /\ x \in NodeType
    /\ x.state = "dead" => x.failures >= threshold
    /\ x.state = "healthy" /\ m = "standalone" => x.failures = 0

\* The thresholds are numbers, and a count stays below its cap.
LEMMA Counting ==
    /\ threshold \in Nat /\ FailureCap \in Nat /\ 0 \in 0..FailureCap
    /\ \A k \in 0..FailureCap : CountFailure(k) \in 0..FailureCap
BY ClusterAssumption DEF threshold, CountFailure

\* A new node is fine in every state it can begin in.
LEMMA NewNodeOK ==
    ASSUME NEW s \in {"healthy", "unhealthy"}, NEW m
    PROVE  NodeOK(NewNode(s), m) /\ NewNode(s).inFlight = 0
BY Counting DEF NodeOK, NodeType, NewNode

\* A failed check.
LEMMA FailedOK ==
    ASSUME NEW x, NEW m, NodeOK(x, m)
    PROVE  LET y == [[x EXCEPT !.failures = CountFailure(x.failures)] EXCEPT !.state = "unhealthy"]
           IN  NodeOK(y, m) /\ y.inFlight = x.inFlight /\ y.state = "unhealthy"
<1>1. CountFailure(x.failures) \in 0..FailureCap
  BY Counting DEF NodeOK, NodeType
<1> QED BY <1>1 DEF NodeOK, NodeType

\* A passed check.
LEMMA PassedOK ==
    ASSUME NEW x, NEW m, NodeOK(x, m)
    PROVE  LET y == [[x EXCEPT !.state = "healthy"] EXCEPT !.failures = 0]
           IN  NodeOK(y, m) /\ y.inFlight = x.inFlight
BY Counting DEF NodeOK, NodeType

\* The threshold is reached.
LEMMA DeadOK ==
    ASSUME NEW x, NEW m, NodeOK(x, m), x.failures >= threshold
    PROVE  LET y == [x EXCEPT !.state = "dead"]
           IN  NodeOK(y, m) /\ y.inFlight = x.inFlight
BY DEF NodeOK, NodeType

\* A poll of the models.
LEMMA PolledOK ==
    ASSUME NEW x, NEW m, NodeOK(x, m), NEW ms \in SUBSET Models
    PROVE  LET y == [[x EXCEPT !.models = ms] EXCEPT !.modelsReady = TRUE]
           IN  NodeOK(y, m) /\ y.inFlight = x.inFlight /\ y.state = x.state
BY DEF NodeOK, NodeType

\* A push of the breaker's flag.
LEMMA FlaggedOK ==
    ASSUME NEW x, NEW m, NodeOK(x, m), NEW b \in BOOLEAN
    PROVE  LET y == [x EXCEPT !.breakerBypassed = b]
           IN  NodeOK(y, m) /\ y.inFlight = x.inFlight /\ y.state = x.state
BY DEF NodeOK, NodeType

\* The start and the end of a provider call.
LEMMA CountedOK ==
    ASSUME NEW x, NEW m, NodeOK(x, m), NEW d \in {1, -1}
    PROVE  LET y == [x EXCEPT !.inFlight = x.inFlight + d]
           IN  NodeOK(y, m) /\ y.inFlight = x.inFlight + d /\ y.state = x.state
BY DEF NodeOK, NodeType

\* A sync with a master.
LEMMA SyncedOK ==
    ASSUME NEW x, NodeOK(x, "master"), NEW s \in {"healthy", "unhealthy"}
    PROVE  LET y == [x EXCEPT !.state = s]
           IN  NodeOK(y, "master") /\ y.inFlight = x.inFlight
BY DEF NodeOK, NodeType

----------------------------------------------------------------------------
(* The steps, by what they do to the registry. *)

\* The registry's part of CInv.
NodesFine ==
    /\ mode \in Modes
    /\ Registered \subseteq Nodes
    /\ \A n \in Registered : NodeOK(nodes[n], mode)

\* The rest of TypeOK, and the node breakers.
Typed ==
    /\ check \in [Nodes -> {"idle", "passed", "polled", "unpolled", "failed"}]
    /\ nodeBreakers \in [Nodes -> CircuitBreaker]
    /\ pc \in [Requests -> {"idle", "selected", "flying", "cloud", "returned", "opened", "recovered"}]
    /\ target \in [Requests -> Nodes]
    /\ outcome \in [Requests -> {"none", "success", "failure"}]
    /\ holds \in [Requests -> BOOLEAN]
    /\ works \in [Nodes -> BOOLEAN]
    /\ serves \in [Nodes -> SUBSET Models]
    /\ \A n \in Nodes : Sound(nodeBreakers[n])

\* The same invariant, cut along the lines of its proof.
LEMMA CInvParts == CInv <=> NodesFine /\ InFlightAccounted /\ HoldersFly /\ Typed
<1>1. TypeOK /\ DeadAfterThreshold /\ (\A n \in Nodes : Sound(nodeBreakers[n])) <=> NodesFine /\ Typed
  BY DEF TypeOK, DeadAfterThreshold, NodesFine, NodeOK, Typed
<1> QED BY <1>1 DEF CInv, ClusterSound

\* A step that registers and drops nothing and counts no request.
KeepsCounts ==
    /\ Registered' = Registered /\ mode' = mode
    /\ \A k \in Registered : NodeOK(nodes'[k], mode) /\ nodes'[k].inFlight = nodes[k].inFlight

\* Leaving the registry alone keeps the counts.
LEMMA IdleRegistry ==
    ASSUME CInv, UNCHANGED nodes, UNCHANGED mode
    PROVE  KeepsCounts
BY CInvParts DEF KeepsCounts, NodesFine, Registered

\* Replacing one node's record by another fine one with the same counter.
LEMMA OneNode ==
    ASSUME CInv, NEW n, NEW x,
           n \in Registered => NodeOK(x, mode) /\ x.inFlight = nodes[n].inFlight,
           UNCHANGED mode, nodes' = [nodes EXCEPT ![n] = x]
    PROVE  KeepsCounts
BY CInvParts DEF KeepsCounts, NodesFine, Registered

\* The health checks.
LEMMA ChecksKeepCounts ==
    ASSUME CInv, NEW n \in Nodes, Checks(n)
    PROVE  KeepsCounts
<1>1. n \in Registered => NodeOK(nodes[n], mode)
  BY CInvParts DEF NodesFine
<1>2. CASE UNCHANGED nodes
  BY <1>2, IdleRegistry DEF Checks, checkNode, fetchModels, checkPanics, markHealthy, checkFailureThreshold
<1>3. UNCHANGED mode
  BY DEF Checks, checkNode, fetchModels, checkPanics, markHealthy, checkFailureThreshold
<1>4. CASE markUnhealthy(n)
  <2> DEFINE x == [[nodes[n] EXCEPT !.failures = CountFailure(nodes[n].failures)] EXCEPT !.state = "unhealthy"]
  <2>1. nodes' = [nodes EXCEPT ![n] = x]
    BY <1>4 DEF markUnhealthy
  <2>2. n \in Registered => NodeOK(x, mode) /\ x.inFlight = nodes[n].inFlight
    BY <1>1, FailedOK
  <2> QED BY <1>3, <2>1, <2>2, OneNode
<1>5. CASE \E ok \in BOOLEAN : fetchModels(n, ok) /\ ok
  <2> DEFINE x == [[nodes[n] EXCEPT !.models = serves[n]] EXCEPT !.modelsReady = TRUE]
  <2>1. nodes' = [nodes EXCEPT ![n] = x]
    BY <1>5 DEF fetchModels
  <2>2. serves[n] \in SUBSET Models
    BY CInvParts DEF Typed
  <2>3. n \in Registered => NodeOK(x, mode) /\ x.inFlight = nodes[n].inFlight
    BY <1>1, <2>2, PolledOK
  <2> QED BY <1>3, <2>1, <2>3, OneNode
<1>6. CASE markHealthy(n)
  <2> DEFINE x == [[nodes[n] EXCEPT !.state = "healthy"] EXCEPT !.failures = 0]
  <2>1. nodes' = [nodes EXCEPT ![n] = x]
    BY <1>6 DEF markHealthy
  <2>2. n \in Registered => NodeOK(x, mode) /\ x.inFlight = nodes[n].inFlight
    BY <1>1, PassedOK
  <2> QED BY <1>3, <2>1, <2>2, OneNode
<1>7. CASE checkFailureThreshold(n) /\ nodes[n].failures >= threshold
  <2> DEFINE x == [nodes[n] EXCEPT !.state = "dead"]
  <2>1. nodes' = [nodes EXCEPT ![n] = x]
    BY <1>7 DEF checkFailureThreshold
  <2>2. n \in Registered => NodeOK(x, mode) /\ x.inFlight = nodes[n].inFlight
    BY <1>1, <1>7, DeadOK
  <2> QED BY <1>3, <2>1, <2>2, OneNode
<1> QED BY <1>2, <1>4, <1>5, <1>6, <1>7
        DEF Checks, checkNode, fetchModels, checkPanics, checkFailureThreshold

\* The model poll after a sync.
LEMMA SyncModelsKeepsCounts ==
    ASSUME CInv, NEW n \in Nodes, syncNodeModels(n)
    PROVE  KeepsCounts
<1> DEFINE x == [[nodes[n] EXCEPT !.models = serves[n]] EXCEPT !.modelsReady = TRUE]
<1>1. nodes' = [nodes EXCEPT ![n] = x] /\ UNCHANGED mode
  BY DEF syncNodeModels
<1>2. serves[n] \in SUBSET Models /\ (n \in Registered => NodeOK(nodes[n], mode))
  BY CInvParts DEF Typed, NodesFine
<1>3. n \in Registered => NodeOK(x, mode) /\ x.inFlight = nodes[n].inFlight
  BY <1>2, PolledOK
<1> QED BY <1>1, <1>3, OneNode

\* The push of a breaker's flag.
LEMMA FlagKeepsCounts ==
    ASSUME CInv, NEW n, NEW b \in BOOLEAN, SetBreakerBypassed(n, b), UNCHANGED mode
    PROVE  KeepsCounts
<1> DEFINE x == [nodes[n] EXCEPT !.breakerBypassed = b]
<1>1. CASE n \in Registered
  <2>1. nodes' = [nodes EXCEPT ![n] = x]
    BY <1>1 DEF SetBreakerBypassed
  <2>2. NodeOK(x, mode) /\ x.inFlight = nodes[n].inFlight
    BY <1>1, CInvParts, FlaggedOK DEF NodesFine
  <2> QED BY <2>1, <2>2, OneNode
<1>2. CASE n \notin Registered
  BY <1>2, IdleRegistry DEF SetBreakerBypassed
<1> QED BY <1>1, <1>2

----------------------------------------------------------------------------
(* The counters. *)

\* The counter of a registered node is the size of a finite set.
LEMMA RunningFinite ==
    \A n : IsFiniteSet(RunningOn(n)) /\ Cardinality(RunningOn(n)) \in Nat
<1>1. \A n : RunningOn(n) \in SUBSET Requests
  BY DEF RunningOn
<1> QED BY <1>1, FS_Subset, FS_CardinalityType, ClusterAssumption

\* What the counters and the holders make of a step that keeps them.
Accounted == NodesFine /\ InFlightAccounted /\ HoldersFly

\* A step that counts nothing and after which the same requests run.
LEMMA SameRunning ==
    ASSUME CInv, KeepsCounts, HoldersFly', \A n \in Registered : RunningOn(n)' = RunningOn(n)
    PROVE  Accounted'
<1>1. NodesFine'
  BY CInvParts DEF NodesFine, KeepsCounts
<1>2. \A n \in Registered : nodes[n].inFlight = Cardinality(RunningOn(n))
  BY CInvParts DEF InFlightAccounted, RunningOn
<1>3. \A n \in Registered' : nodes'[n].inFlight = Cardinality(RunningOn(n)')
  BY <1>2 DEF KeepsCounts
<1>4. InFlightAccounted'
  BY <1>3 DEF InFlightAccounted, RunningOn
<1> QED BY <1>1, <1>4 DEF Accounted

\* The same, for a step that leaves the requests alone.
LEMMA SameRequests ==
    ASSUME CInv, KeepsCounts, UNCHANGED <<pc, target, holds>>
    PROVE  Accounted'
<1>1. HoldersFly'
  BY CInvParts DEF HoldersFly, KeepsCounts
<1>2. \A n \in Registered : RunningOn(n)' = RunningOn(n)
  BY DEF RunningOn
<1> QED BY <1>1, <1>2, SameRunning

\* A request that is not flying changes place, to one where it does not fly.
LEMMA GroundedStep ==
    ASSUME CInv, KeepsCounts, NEW r \in Requests,
           pc[r] # "flying" /\ pc'[r] # "flying" /\ ~ holds'[r],
           \A q \in Requests \ {r} : pc'[q] = pc[q] /\ target'[q] = target[q] /\ holds'[q] = holds[q]
    PROVE  Accounted'
<1>1. HoldersFly'
  BY CInvParts DEF HoldersFly, KeepsCounts
<1>2. \A n \in Registered : RunningOn(n)' = RunningOn(n)
  BY DEF RunningOn
<1> QED BY <1>1, <1>2, SameRunning

\* A provider call starts on the registered object.
LEMMA DispatchAccounted ==
    ASSUME CInv, NEW r \in Requests, Dispatch(r)
    PROVE  Accounted'
<1> DEFINE t == target[r]
           x == [nodes[t] EXCEPT !.inFlight = nodes[t].inFlight + 1]
<1>1. /\ nodes' = [nodes EXCEPT ![t] = x] /\ t \in Registered /\ pc[r] = "selected"
      /\ pc' = [pc EXCEPT ![r] = "flying"] /\ holds' = [holds EXCEPT ![r] = TRUE]
      /\ UNCHANGED <<mode, target>>
  BY DEF Dispatch
<1>2. NodeOK(x, mode) /\ x.inFlight = nodes[t].inFlight + 1
  BY <1>1, CInvParts, CountedOK DEF NodesFine
<1>3. Registered' = Registered /\ \A n \in Registered : nodes'[n] = IF n = t THEN x ELSE nodes[n]
  BY <1>1 DEF Registered
<1> HIDE DEF x
<1>4. NodesFine'
  BY <1>1, <1>2, <1>3, CInvParts DEF NodesFine
<1>5. /\ pc'[r] = "flying" /\ holds'[r] = TRUE /\ target'[r] = t
      /\ \A q \in Requests \ {r} : pc'[q] = pc[q] /\ target'[q] = target[q] /\ holds'[q] = holds[q]
  BY <1>1, CInvParts DEF Typed
<1>6. HoldersFly'
  BY <1>1, <1>3, <1>5, CInvParts DEF HoldersFly
<1>7. /\ r \notin RunningOn(t) /\ RunningOn(t)' = RunningOn(t) \cup {r}
      /\ \A n \in Registered : n # t => RunningOn(n)' = RunningOn(n)
  BY <1>1, <1>5 DEF RunningOn
<1>8. Cardinality(RunningOn(t)') = Cardinality(RunningOn(t)) + 1
  BY <1>7, RunningFinite, FS_AddElement
<1>9. \A n \in Registered : nodes[n].inFlight = Cardinality(RunningOn(n))
  BY CInvParts DEF InFlightAccounted, RunningOn
<1>10. \A n \in Registered' : nodes'[n].inFlight = Cardinality(RunningOn(n)')
  BY <1>1, <1>2, <1>3, <1>7, <1>8, <1>9
<1>11. InFlightAccounted'
  BY <1>10 DEF InFlightAccounted, RunningOn
<1> QED BY <1>4, <1>6, <1>11 DEF Accounted

\* A provider call ends: it counts down on the object it counted up on.
LEMMA ReturnAccounted ==
    ASSUME CInv, NEW r \in Requests, NEW o, Return(r, o)
    PROVE  Accounted'
<1> DEFINE t == target[r]
           x == [nodes[t] EXCEPT !.inFlight = nodes[t].inFlight + (-1)]
<1>1. /\ nodes' = IF holds[r] THEN [nodes EXCEPT ![t].inFlight = @ - 1] ELSE nodes
      /\ pc[r] = "flying" /\ UNCHANGED <<mode, target>>
      /\ pc' = [pc EXCEPT ![r] = "returned"] /\ holds' = [holds EXCEPT ![r] = FALSE]
  BY DEF Return
<1>2. /\ pc'[r] = "returned" /\ holds'[r] = FALSE
      /\ \A q \in Requests \ {r} : pc'[q] = pc[q] /\ target'[q] = target[q] /\ holds'[q] = holds[q]
  BY <1>1, CInvParts DEF Typed
<1>3. CASE ~ holds[r]
  <2>1. KeepsCounts
    BY <1>1, <1>3, IdleRegistry
  <2>2. HoldersFly'
    BY <1>2, <2>1, CInvParts DEF HoldersFly, KeepsCounts
  <2>3. \A n \in Registered : RunningOn(n)' = RunningOn(n)
    BY <1>2, <1>3 DEF RunningOn
  <2> QED BY <2>1, <2>2, <2>3, SameRunning
<1>4. CASE holds[r]
  <2>1. t \in Registered /\ NodeOK(nodes[t], mode)
    BY <1>4, CInvParts DEF HoldersFly, NodesFine
  <2>2. nodes[t].inFlight \in Int
    BY <2>1 DEF NodeOK, NodeType
  <2>3. nodes' = [nodes EXCEPT ![t] = x]
    BY <1>1, <1>4, <2>2
  <2>4. NodeOK(x, mode) /\ x.inFlight = nodes[t].inFlight - 1
    BY <2>1, <2>2, CountedOK
  <2>5. Registered' = Registered /\ \A n \in Registered : nodes'[n] = IF n = t THEN x ELSE nodes[n]
    BY <2>1, <2>3 DEF Registered
  <2> HIDE DEF x
  <2>6. NodesFine'
    BY <1>1, <2>4, <2>5, CInvParts DEF NodesFine
  <2>7. HoldersFly'
    BY <1>2, <2>5, CInvParts DEF HoldersFly
  <2>8. /\ r \in RunningOn(t) /\ RunningOn(t)' = RunningOn(t) \ {r}
        /\ \A n \in Registered : n # t => RunningOn(n)' = RunningOn(n)
    BY <1>1, <1>2, <1>4 DEF RunningOn
  <2>9. Cardinality(RunningOn(t)') = Cardinality(RunningOn(t)) - 1
    BY <2>8, RunningFinite, FS_RemoveElement
  <2>10. \A n \in Registered : nodes[n].inFlight = Cardinality(RunningOn(n))
    BY CInvParts DEF InFlightAccounted, RunningOn
  <2>11. \A n \in Registered' : nodes'[n].inFlight = Cardinality(RunningOn(n)')
    BY <1>1, <2>1, <2>4, <2>5, <2>8, <2>9, <2>10
  <2>12. InFlightAccounted'
    BY <2>11 DEF InFlightAccounted, RunningOn
  <2> QED BY <2>6, <2>7, <2>12 DEF Accounted
<1> QED BY <1>3, <1>4

\* Registrations and removals: a node that stays keeps its counter and its
\* requests, one that is new starts with neither.
LEMMA MembershipAccounted ==
    ASSUME CInv, NEW ids \in SUBSET Nodes, Drop(ids), UNCHANGED <<mode, pc, target>>,
           Registered' = ids,
           \A n \in ids : /\ NodeOK(nodes'[n], mode)
                          /\ nodes'[n].inFlight = IF n \in Registered THEN nodes[n].inFlight ELSE 0
    PROVE  Accounted'
<1>1. \A r \in Requests : holds'[r] = (holds[r] /\ target[r] \in ids)
  BY DEF Drop
<1>2. HoldersFly'
  BY <1>1, CInvParts DEF HoldersFly
<1>3. NodesFine'
  BY CInvParts DEF NodesFine
<1>4. \A n \in ids \cap Registered : RunningOn(n)' = RunningOn(n)
  BY <1>1, CInvParts DEF RunningOn, Typed
<1>5. \A n \in ids \ Registered : RunningOn(n)' = {}
  BY <1>1, CInvParts DEF RunningOn, HoldersFly
<1>6. \A n \in Registered : nodes[n].inFlight = Cardinality(RunningOn(n))
  BY CInvParts DEF InFlightAccounted, RunningOn
<1>7. \A n \in Registered' : nodes'[n].inFlight = Cardinality(RunningOn(n)')
  BY <1>4, <1>5, <1>6, FS_EmptySet
<1>8. InFlightAccounted'
  BY <1>7 DEF InFlightAccounted, RunningOn
<1> QED BY <1>2, <1>3, <1>8 DEF Accounted

\* A reload of the node list.
LEMMA UpdateAccounted ==
    ASSUME CInv, NEW ids \in SUBSET Nodes, UpdateConfig(ids)
    PROVE  Accounted'
<1>1. /\ nodes' = [n \in ids |-> IF n \in Registered THEN nodes[n] ELSE NewNode("unhealthy")]
      /\ Drop(ids) /\ UNCHANGED <<mode, pc, target>>
  BY DEF UpdateConfig
<1>2. Registered' = ids
  BY <1>1 DEF Registered
<1>3. \A n \in Registered : NodeOK(nodes[n], mode)
  BY CInvParts DEF NodesFine
<1>4. \A n \in ids : /\ NodeOK(nodes'[n], mode)
                     /\ nodes'[n].inFlight = IF n \in Registered THEN nodes[n].inFlight ELSE 0
  BY <1>1, <1>3, NewNodeOK
<1> QED BY <1>1, <1>2, <1>4, MembershipAccounted

\* A sync with the master.
LEMMA SyncAccounted ==
    ASSUME CInv, NEW ids \in SUBSET Nodes, NEW online \in SUBSET ids, syncFromMaster(ids, online)
    PROVE  Accounted'
<1> DEFINE state(n) == IF n \in online THEN "healthy" ELSE "unhealthy"
<1>1. /\ nodes' = [n \in ids |-> IF n \in Registered THEN [nodes[n] EXCEPT !.state = state(n)]
                                 ELSE NewNode(state(n))]
      /\ Drop(ids) /\ UNCHANGED <<mode, pc, target>> /\ mode = "master"
  BY DEF syncFromMaster
<1>2. Registered' = ids
  BY <1>1 DEF Registered
<1>3. \A n : state(n) \in {"healthy", "unhealthy"}
  OBVIOUS
<1> HIDE DEF state
<1>4. ASSUME NEW n \in ids
      PROVE  /\ NodeOK(nodes'[n], mode)
             /\ nodes'[n].inFlight = IF n \in Registered THEN nodes[n].inFlight ELSE 0
  <2>1. CASE n \in Registered
    <3>1. NodeOK(nodes[n], "master")
      BY <1>1, <2>1, CInvParts DEF NodesFine
    <3> QED BY <1>1, <1>3, <2>1, <3>1, SyncedOK
  <2>2. CASE n \notin Registered
    BY <1>1, <1>3, <2>2, NewNodeOK
  <2> QED BY <2>1, <2>2
<1> QED BY <1>1, <1>2, <1>4, MembershipAccounted

\* A request's own steps.
LEMMA ProgressAccounted ==
    ASSUME CInv, NEW r \in Requests, Progress(r)
    PROVE  Accounted'
<1>0. Typed /\ HoldersFly
  BY CInvParts
<1>1. CASE Dispatch(r)
  BY <1>1, DispatchAccounted
<1>2. CASE \E o \in {"success", "failure"} : Return(r, o)
  BY <1>2, ReturnAccounted
<1>3. ASSUME Idle(r), pc[r] # "flying", KeepsCounts
      PROVE  Accounted'
  <2>1. /\ pc'[r] # "flying" /\ ~ holds'[r]
        /\ \A q \in Requests \ {r} : pc'[q] = pc[q] /\ target'[q] = target[q] /\ holds'[q] = holds[q]
    BY <1>0, <1>3 DEF Idle, Typed
  <2> QED BY <1>3, <2>1, GroundedStep
<1>4. ASSUME NEW s \in {"cloud", "returned", "recovered", "opened"}, pc' = [pc EXCEPT ![r] = s],
             UNCHANGED <<target, holds>>, pc[r] # "flying", KeepsCounts
      PROVE  Accounted'
  <2>1. /\ pc'[r] # "flying" /\ ~ holds'[r]
        /\ \A q \in Requests \ {r} : pc'[q] = pc[q] /\ target'[q] = target[q] /\ holds'[q] = holds[q]
    BY <1>0, <1>4 DEF Typed, HoldersFly
  <2> QED BY <1>4, <2>1, GroundedStep
<1>5. CASE FallBackToCloud(r)
  BY <1>4, <1>5, IdleRegistry DEF FallBackToCloud, registry
<1>6. CASE \E o \in {"success", "failure"} : CloudReturns(r, o)
  BY <1>4, <1>6, IdleRegistry DEF CloudReturns, registry
<1>7. CASE Abandon(r)
  BY <1>3, <1>7, IdleRegistry DEF Abandon, registry
<1>8. CASE RecordNodeSuccess(r)
  BY <1>3, <1>4, <1>8, IdleRegistry DEF RecordNodeSuccess, registry
<1>9. CASE RecordNodeFailure(r)
  BY <1>3, <1>4, <1>9, IdleRegistry DEF RecordNodeFailure, registry
<1>10. CASE MarkNodeBreakerOpen(r)
  BY <1>3, <1>10, FlagKeepsCounts DEF MarkNodeBreakerOpen
<1>11. CASE MarkNodeBreakerClosed(r)
  BY <1>3, <1>11, FlagKeepsCounts DEF MarkNodeBreakerClosed
<1> QED BY <1>1, <1>2, <1>5, <1>6, <1>7, <1>8, <1>9, <1>10, <1>11 DEF Progress

\* A selection: the request is not flying before or after it.
LEMMA TryAccounted ==
    ASSUME CInv, NEW r \in Requests, NEW m, NEW n \in Nodes, tryCluster(r, m, n)
    PROVE  Accounted'
<1>0. Typed /\ HoldersFly
  BY CInvParts
<1>1. KeepsCounts
  BY IdleRegistry DEF tryCluster, registry
<1>2. /\ pc'[r] # "flying" /\ ~ holds'[r] /\ pc[r] # "flying"
      /\ \A q \in Requests \ {r} : pc'[q] = pc[q] /\ target'[q] = target[q] /\ holds'[q] = holds[q]
  BY <1>0 DEF tryCluster, Typed, HoldersFly
<1> QED BY <1>1, <1>2, GroundedStep

\* Every step.
LEMMA AccountedStep == CInv /\ [Next]_vars => Accounted'
<1> SUFFICES ASSUME CInv, [Next]_vars PROVE Accounted'
  OBVIOUS
<1>1. CASE \E n \in Nodes : Checks(n)
  <2>1. UNCHANGED <<pc, target, holds>>
    BY <1>1 DEF Checks, checkNode, fetchModels, checkPanics, markHealthy, checkFailureThreshold, request
  <2> QED BY <1>1, <2>1, ChecksKeepCounts, SameRequests
<1>2. CASE \E n \in Nodes : syncNodeModels(n)
  <2>1. UNCHANGED <<pc, target, holds>>
    BY <1>2 DEF syncNodeModels, request
  <2> QED BY <1>2, <2>1, SyncModelsKeepsCounts, SameRequests
<1>3. CASE \/ \E n \in Nodes : NodeFlips(n)
           \/ \E c \in BreakerConfigs : ReloadBreakers(c)
           \/ PublishBreakerStates \/ Tick
           \/ UNCHANGED vars
  <2>1. UNCHANGED <<pc, target, holds, nodes, mode>>
    BY <1>3 DEF NodeFlips, ReloadBreakers, PublishBreakerStates, Tick, vars, request, registry
  <2> QED BY <2>1, IdleRegistry, SameRequests
<1>4. CASE \E n \in Nodes, r \in Requests, m \in Models \union {AnyModel} : tryCluster(r, m, n)
  BY <1>4, TryAccounted
<1>5. CASE \E ids \in SUBSET Nodes : UpdateConfig(ids)
  BY <1>5, UpdateAccounted
<1>6. CASE \E ids \in SUBSET Nodes : \E online \in SUBSET ids : syncFromMaster(ids, online)
  BY <1>6, SyncAccounted
<1>7. CASE \E r \in Requests : Progress(r)
  BY <1>7, ProgressAccounted
<1> QED BY <1>1, <1>2, <1>3, <1>4, <1>5, <1>6, <1>7 DEF Next

----------------------------------------------------------------------------
(* Types, and the node breakers. *)

\* One breaker is replaced by a sound one.
LEMMA OneBreaker ==
    ASSUME Typed, NEW n \in Nodes, NEW cb, Sound(cb), nodeBreakers' = [nodeBreakers EXCEPT ![n] = cb]
    PROVE  nodeBreakers' \in [Nodes -> CircuitBreaker] /\ \A k \in Nodes : Sound(nodeBreakers'[k])
<1>1. cb \in CircuitBreaker
  BY DEF Sound
<1>2. \A k \in Nodes : nodeBreakers'[k] = IF k = n THEN cb ELSE nodeBreakers[k]
  BY DEF Typed
<1>3. nodeBreakers' \in [Nodes -> CircuitBreaker]
  BY <1>1 DEF Typed
<1> QED BY <1>2, <1>3 DEF Typed

\* Every breaker is replaced by a sound one.
LEMMA EveryBreaker ==
    ASSUME nodeBreakers' = [n \in Nodes |-> nodeBreakers'[n]], \A n \in Nodes : Sound(nodeBreakers'[n])
    PROVE  nodeBreakers' \in [Nodes -> CircuitBreaker]
<1>1. \A n \in Nodes : nodeBreakers'[n] \in CircuitBreaker
  BY DEF Sound
<1> HIDE DEF Sound
<1> QED BY <1>1

\* A request that comes to rest.
LEMMA IdleTyped ==
    ASSUME Typed, NEW r \in Requests, Idle(r)
    PROVE  /\ pc' \in [Requests -> {"idle", "selected", "flying", "cloud", "returned", "opened", "recovered"}]
           /\ target' \in [Requests -> Nodes]
           /\ outcome' \in [Requests -> {"none", "success", "failure"}]
           /\ holds' \in [Requests -> BOOLEAN]
<1>1. NoNode \in Nodes
  BY ClusterAssumption DEF NoNode
<1> QED BY <1>1 DEF Idle, Typed

\* Checks, syncs and the environment.
LEMMA RegistryTyped ==
    ASSUME Typed,
           \/ \E n \in Nodes : Checks(n) \/ syncNodeModels(n) \/ NodeFlips(n)
           \/ \E ids \in SUBSET Nodes :
                 UpdateConfig(ids) \/ \E online \in SUBSET ids : syncFromMaster(ids, online)
    PROVE  Typed'
<1>1. CASE \E n \in Nodes : Checks(n)
  <2>1. UNCHANGED <<nodeBreakers, pc, target, outcome, holds, works, serves>>
    BY <1>1 DEF Checks, checkNode, fetchModels, checkPanics, markHealthy, checkFailureThreshold,
                request, environment
  <2>2. check' \in [Nodes -> {"idle", "passed", "polled", "unpolled", "failed"}]
    BY <1>1 DEF Typed, Checks, checkNode, fetchModels, checkPanics, markHealthy, checkFailureThreshold
  <2> QED BY <2>1, <2>2 DEF Typed
<1>2. CASE \E n \in Nodes : syncNodeModels(n)
  BY <1>2 DEF Typed, syncNodeModels, request, environment
<1>3. CASE \E n \in Nodes : NodeFlips(n)
  <2>1. works' \in [Nodes -> BOOLEAN] /\ serves' \in [Nodes -> SUBSET Models]
    BY <1>3 DEF Typed, NodeFlips
  <2>2. UNCHANGED <<check, nodeBreakers, pc, target, outcome, holds>>
    BY <1>3 DEF NodeFlips, request, registry
  <2> QED BY <2>1, <2>2 DEF Typed
<1>4. CASE \E ids \in SUBSET Nodes :
              UpdateConfig(ids) \/ \E online \in SUBSET ids : syncFromMaster(ids, online)
  <2>1. UNCHANGED <<nodeBreakers, pc, target, outcome, works, serves>> /\ \E ids \in SUBSET Nodes : Drop(ids)
    BY <1>4 DEF UpdateConfig, syncFromMaster, environment
  <2>2. check' \in [Nodes -> {"idle", "passed", "polled", "unpolled", "failed"}]
    BY <2>1 DEF Drop, Typed
  <2>3. holds' \in [Requests -> BOOLEAN]
    BY <2>1 DEF Drop, Typed
  <2> QED BY <2>1, <2>2, <2>3 DEF Typed
<1> QED BY <1>1, <1>2, <1>3, <1>4

\* The breakers as a whole.
LEMMA AllBreakersTyped ==
    ASSUME Typed, (\E c \in BreakerConfigs : ReloadBreakers(c)) \/ PublishBreakerStates \/ Tick
    PROVE  Typed'
<1>1. UNCHANGED <<check, pc, target, outcome, holds, works, serves>>
  BY DEF ReloadBreakers, PublishBreakerStates, Tick, registry, request, environment
<1>2. \A n \in Nodes : Sound(nodeBreakers[n])
  BY DEF Typed
<1>3. \A n \in Nodes : \A c \in BreakerConfigs :
         /\ Sound(InheritSnapshot(NewCircuitBreaker(c), Snapshot(nodeBreakers[n])))
         /\ Sound(State(nodeBreakers[n])) /\ Sound(Age(nodeBreakers[n]))
  BY <1>2, InheritQuiet, StateQuiet, AgeQuiet DEF Quiet
<1>4. /\ nodeBreakers' = [n \in Nodes |-> nodeBreakers'[n]]
      /\ \A n \in Nodes : Sound(nodeBreakers'[n])
  BY <1>3, BreakerAssumption DEF ReloadBreakers, PublishBreakerStates, Tick
<1>5. nodeBreakers' \in [Nodes -> CircuitBreaker]
  BY <1>4, EveryBreaker
<1> QED BY <1>1, <1>4, <1>5 DEF Typed

\* A request's steps.
LEMMA RequestTyped ==
    ASSUME Typed, NEW r \in Requests,
           Progress(r) \/ \E n \in Nodes, m \in Models \union {AnyModel} : tryCluster(r, m, n)
    PROVE  Typed'
<1>0. target[r] \in Nodes /\ Sound(nodeBreakers[target[r]])
  BY DEF Typed
<1>1. CASE Dispatch(r) \/ FallBackToCloud(r) \/ \E o \in {"success", "failure"} : Return(r, o) \/ CloudReturns(r, o)
  <2>1. UNCHANGED <<check, nodeBreakers, target, works, serves>>
    BY <1>1 DEF Dispatch, FallBackToCloud, Return, CloudReturns, registry, environment
  <2>2. \E s \in {"flying", "cloud", "returned"} : pc' = [pc EXCEPT ![r] = s]
    BY <1>1 DEF Dispatch, FallBackToCloud, Return, CloudReturns
  <2>3. outcome' = outcome \/ \E o \in {"success", "failure"} : outcome' = [outcome EXCEPT ![r] = o]
    BY <1>1 DEF Dispatch, FallBackToCloud, Return, CloudReturns
  <2>4. holds' = holds \/ \E b \in BOOLEAN : holds' = [holds EXCEPT ![r] = b]
    BY <1>1 DEF Dispatch, FallBackToCloud, Return, CloudReturns
  <2>5. /\ pc' \in [Requests -> {"idle", "selected", "flying", "cloud", "returned", "opened", "recovered"}]
        /\ outcome' \in [Requests -> {"none", "success", "failure"}]
        /\ holds' \in [Requests -> BOOLEAN]
    BY <2>2, <2>3, <2>4 DEF Typed
  <2> QED BY <2>1, <2>5 DEF Typed
<1>2. CASE Abandon(r) \/ MarkNodeBreakerOpen(r) \/ MarkNodeBreakerClosed(r)
  <2>1. Idle(r) /\ UNCHANGED <<check, nodeBreakers, works, serves>>
    BY <1>2 DEF Abandon, MarkNodeBreakerOpen, MarkNodeBreakerClosed, registry, environment
  <2> QED BY <2>1, IdleTyped DEF Typed
<1>3. CASE RecordNodeSuccess(r)
  <2> DEFINE after == State(RecordSuccess(State(nodeBreakers[target[r]])))
  <2>1. Sound(after)
    BY <1>0, StateQuiet, SuccessSound DEF Quiet
  <2>2. nodeBreakers' = [nodeBreakers EXCEPT ![target[r]] = after] /\ UNCHANGED <<check, works, serves>>
    BY <1>3 DEF RecordNodeSuccess, registry, environment
  <2>3. Idle(r) \/ (pc' = [pc EXCEPT ![r] = "recovered"] /\ UNCHANGED <<target, outcome, holds>>)
    BY <1>3 DEF RecordNodeSuccess
  <2> HIDE DEF after
  <2>4. nodeBreakers' \in [Nodes -> CircuitBreaker] /\ \A k \in Nodes : Sound(nodeBreakers'[k])
    BY <1>0, <2>1, <2>2, OneBreaker
  <2> QED BY <2>2, <2>3, <2>4, IdleTyped DEF Typed
<1>4. CASE RecordNodeFailure(r)
  <2> DEFINE after == State(RecordFailure(nodeBreakers[target[r]]))
  <2>1. Sound(after)
    BY <1>0, StateQuiet, FailureQuiet DEF Quiet
  <2>2. nodeBreakers' = [nodeBreakers EXCEPT ![target[r]] = after] /\ UNCHANGED <<check, works, serves>>
    BY <1>4 DEF RecordNodeFailure, registry, environment
  <2>3. Idle(r) \/ (pc' = [pc EXCEPT ![r] = "opened"] /\ UNCHANGED <<target, outcome, holds>>)
    BY <1>4 DEF RecordNodeFailure
  <2> HIDE DEF after
  <2>4. nodeBreakers' \in [Nodes -> CircuitBreaker] /\ \A k \in Nodes : Sound(nodeBreakers'[k])
    BY <1>0, <2>1, <2>2, OneBreaker
  <2> QED BY <2>2, <2>3, <2>4, IdleTyped DEF Typed
<1>5. CASE \E n \in Nodes, m \in Models \union {AnyModel} : tryCluster(r, m, n)
  <2>1. PICK n \in Nodes, m \in Models \union {AnyModel} : tryCluster(r, m, n)
    BY <1>5
  <2>2. Sound(State(nodeBreakers[n]))
    BY StateQuiet DEF Quiet, Typed
  <2>3. nodeBreakers' \in [Nodes -> CircuitBreaker] /\ \A k \in Nodes : Sound(nodeBreakers'[k])
    BY <2>1, <2>2, OneBreaker DEF tryCluster
  <2>4. UNCHANGED <<check, outcome, holds, works, serves>>
    BY <2>1 DEF tryCluster, registry, environment
  <2>5. /\ pc' \in [Requests -> {"idle", "selected", "flying", "cloud", "returned", "opened", "recovered"}]
        /\ target' \in [Requests -> Nodes]
    BY <2>1 DEF tryCluster, Typed
  <2> QED BY <2>3, <2>4, <2>5 DEF Typed
<1> QED BY <1>1, <1>2, <1>3, <1>4, <1>5 DEF Progress

\* Every step.
LEMMA TypedStep == Typed /\ [Next]_vars => Typed'
<1>1. Typed /\ UNCHANGED vars => Typed'
  BY DEF Typed, vars
<1>2. ASSUME Typed, NEW n \in Nodes, NEW r \in Requests, NEW m \in Models \union {AnyModel}, tryCluster(r, m, n)
      PROVE  Typed'
  BY <1>2, RequestTyped
<1> QED BY <1>1, <1>2, RegistryTyped, AllBreakersTyped, RequestTyped DEF Next

----------------------------------------------------------------------------
(* The theorems. *)

\* The registry starts sound: new nodes, no request under way.
LEMMA CInvInit == Init => CInv
<1> SUFFICES ASSUME Init PROVE CInv
  OBVIOUS
<1>1. NoNode \in Nodes
  BY ClusterAssumption DEF NoNode
<1>2. PICK c \in BreakerConfigs : nodeBreakers = [n \in Nodes |-> NewCircuitBreaker(c)]
  BY DEF Init
<1>3. Sound(NewCircuitBreaker(c)) /\ NewCircuitBreaker(c) \in CircuitBreaker
  BY NewSound DEF Sound
<1>4. Typed
  BY <1>1, <1>2, <1>3 DEF Init, Typed
<1>5. Registered \subseteq Nodes /\ \A n \in Registered : nodes[n] = NewNode("unhealthy")
  BY DEF Init, Start, Registered
<1>6. NodesFine
  BY <1>5, NewNodeOK DEF Init, NodesFine
<1>7. HoldersFly
  BY DEF Init, HoldersFly
<1>8. \A n : {r \in Requests : pc[r] = "flying" /\ holds[r] /\ target[r] = n} = {}
  BY DEF Init
<1>9. InFlightAccounted
  BY <1>5, <1>8, NewNodeOK, FS_EmptySet DEF InFlightAccounted
<1> QED BY <1>4, <1>6, <1>7, <1>9, CInvParts

\* Every step preserves the invariant.
LEMMA CInvStep == CInv /\ [Next]_vars => CInv'
<1> SUFFICES ASSUME CInv, [Next]_vars PROVE CInv'
  OBVIOUS
<1>1. Accounted'
  BY AccountedStep
<1>2. Typed'
  BY CInvParts, TypedStep
<1>3. (CInv <=> NodesFine /\ InFlightAccounted /\ HoldersFly /\ Typed)'
  BY CInvParts, PTL
<1> QED BY <1>1, <1>2, <1>3 DEF Accounted

\* The inductive invariant holds in every reachable state.
THEOREM ClusterInvariant == Spec => []CInv
BY CInvInit, CInvStep, PTL DEF Spec

\* The registry of discovery.go is sound for any number of nodes, models and
\* requests: every counter is exactly the number of requests that run on the
\* registered object, through removals, re-registrations and master syncs; a
\* node is dead only at the failure threshold.
THEOREM ClusterIsSound == Spec => []ClusterSound
<1>1. CInv => ClusterSound
  BY DEF CInv
<1> QED BY <1>1, ClusterInvariant, PTL

\* In standalone mode a node turns healthy only in markHealthy, at the end of
\* a check that tried to poll its models (RR13), whatever else interleaves.
THEOREM HealthyOnlyAfterPoll == Spec => HealthyAfterPoll
<1> DEFINE Polled == mode = "standalone" =>
              \A n \in Registered :
                  n \in DOMAIN nodes' /\ nodes[n].state # "healthy" /\ nodes'[n].state = "healthy" =>
                     check[n] \in {"polled", "unpolled"}
<1>1. CInv /\ [Next]_vars => [Polled]_vars
  <2> SUFFICES ASSUME CInv, Next, mode = "standalone", NEW n \in Registered,
                      n \in DOMAIN nodes', nodes[n].state # "healthy", nodes'[n].state = "healthy"
               PROVE  check[n] \in {"polled", "unpolled"}
    OBVIOUS
  <2>0. NodeOK(nodes[n], mode)
    BY CInvParts DEF NodesFine
  <2>1. CASE nodes' = nodes
    BY <2>1
  <2>2. ASSUME NEW k, NEW x, nodes' = [nodes EXCEPT ![k] = x], k # n \/ x.state # "healthy"
        PROVE  FALSE
    BY <2>2 DEF Registered
  <2>3. CASE \E k \in Nodes : Checks(k)
    <3>1. PICK k \in Nodes : Checks(k)
      BY <2>3
    <3> DEFINE failed == [[nodes[k] EXCEPT !.failures = CountFailure(nodes[k].failures)] EXCEPT !.state = "unhealthy"]
               polled == [[nodes[k] EXCEPT !.models = serves[k]] EXCEPT !.modelsReady = TRUE]
               dead == [nodes[k] EXCEPT !.state = "dead"]
               passed == [[nodes[k] EXCEPT !.state = "healthy"] EXCEPT !.failures = 0]
    <3>2. \/ nodes' = nodes
          \/ nodes' = [nodes EXCEPT ![k] = failed]
          \/ nodes' = [nodes EXCEPT ![k] = polled]
          \/ nodes' = [nodes EXCEPT ![k] = dead]
          \/ markHealthy(k) /\ nodes' = [nodes EXCEPT ![k] = passed]
      BY <3>1 DEF Checks, checkNode, fetchModels, checkPanics, markHealthy, checkFailureThreshold, markUnhealthy
    <3>3. k = n => failed.state # "healthy" /\ polled.state # "healthy" /\ dead.state # "healthy"
      BY <2>0 DEF NodeOK, NodeType
    <3> HIDE DEF failed, polled, dead, passed
    <3>4. CASE markHealthy(k) /\ nodes' = [nodes EXCEPT ![k] = passed]
      BY <2>2, <3>4 DEF markHealthy
    <3> QED BY <2>1, <2>2, <3>2, <3>3, <3>4
  <2>4. CASE \E k \in Nodes : syncNodeModels(k)
    BY <2>4 DEF syncNodeModels
  <2>5. CASE \E ids \in SUBSET Nodes : UpdateConfig(ids)
    BY <2>5 DEF UpdateConfig
  <2>6. CASE \E ids \in SUBSET Nodes : \E online \in SUBSET ids : syncFromMaster(ids, online)
    BY <2>6 DEF syncFromMaster
  <2>7. CASE \E r \in Requests : Progress(r)
    <3>1. PICK r \in Requests : Progress(r)
      BY <2>7
    <3> DEFINE t == target[r]
               counted(d) == [nodes[t] EXCEPT !.inFlight = nodes[t].inFlight + d]
               returned == [nodes[t] EXCEPT !.inFlight = nodes[t].inFlight - 1]
               flagged(b) == [nodes[t] EXCEPT !.breakerBypassed = b]
    <3>2. \/ nodes' = nodes
          \/ nodes' = [nodes EXCEPT ![t] = counted(1)]
          \/ nodes' = [nodes EXCEPT ![t] = returned]
          \/ \E b \in BOOLEAN : nodes' = [nodes EXCEPT ![t] = flagged(b)]
      BY <3>1 DEF Progress, Dispatch, FallBackToCloud, Abandon, Return, CloudReturns, RecordNodeSuccess,
                  RecordNodeFailure, MarkNodeBreakerOpen, MarkNodeBreakerClosed, SetBreakerBypassed, registry
    <3>3. t = n => /\ counted(1).state # "healthy" /\ returned.state # "healthy"
                   /\ \A b \in BOOLEAN : flagged(b).state # "healthy"
      BY <2>0 DEF NodeOK, NodeType
    <3> HIDE DEF counted, returned, flagged
    <3> QED BY <2>1, <2>2, <3>2, <3>3
  <2>8. CASE \/ \E k \in Nodes : NodeFlips(k)
             \/ \E k \in Nodes, r \in Requests, m \in Models \union {AnyModel} : tryCluster(r, m, k)
             \/ \E c \in BreakerConfigs : ReloadBreakers(c)
             \/ PublishBreakerStates \/ Tick
    BY <2>1, <2>8 DEF NodeFlips, tryCluster, ReloadBreakers, PublishBreakerStates, Tick, registry
  <2> QED BY <2>3, <2>4, <2>5, <2>6, <2>7, <2>8 DEF Next
<1> QED BY <1>1, ClusterInvariant, PTL DEF Spec, HealthyAfterPoll
=============================================================================
