------------------------------ MODULE Cluster -------------------------------
(***************************************************************************)
(* internal/cluster/discovery.go and node_adapter.go: the registry of       *)
(* cluster nodes, its health checks and master syncs, and the requests the  *)
(* router sends to a node; and the per-node circuit breakers of             *)
(* internal/router/engine.go with the flag they push into the registry.     *)
(*                                                                          *)
(* Every step below is one critical section (of d.mu, of a node's mutex, of *)
(* breakerMu) or one atomic operation.  A request keeps the *Node it was    *)
(* given: when the node is removed and registered again under its ID, the   *)
(* request still counts on the old object, which nothing else can see.      *)
(***************************************************************************)
EXTENDS Breaker, FiniteSets

CONSTANTS
    Nodes,             \* node IDs
    Requests,          \* request goroutines
    Models,            \* model names
    Modes,             \* subset of {"standalone", "master"}: the modes of Start
    FailureThreshold,  \* cluster.failure_threshold
    FailureCap,        \* bound: failed checks are not told apart beyond this
    MaxConcurrent      \* routing.local_priority.max_concurrent, 0 for no cap

\* A request whose node is selected by platform, whatever its model.
CONSTANT AnyModel

ASSUME ClusterAssumption ==
    /\ Modes \subseteq {"standalone", "master"}
    /\ FailureThreshold \in Nat /\ FailureCap \in Nat /\ MaxConcurrent \in Nat
    /\ FailureCap >= 3 /\ FailureCap >= FailureThreshold
    /\ AnyModel \notin Models
    /\ Nodes # {} /\ IsFiniteSet(Requests)

VARIABLES
    mode,          \* how Discovery was started
    nodes,         \* d.nodes, a function on the registered IDs
    check,         \* check[n]: where checkNode of the registered n stands
    nodeBreakers,  \* e.nodeBreakers; one never created acts as a new one
    pc,            \* pc[r]: idle, selected, flying, cloud, returned, opened or recovered
    target,        \* target[r]: the NodeID of r's decision
    outcome,       \* outcome[r]: what the handler is about to record
    holds,         \* holds[r]: r's *Node is the object registered now
    works,         \* works[n]: n answers probes and requests (environment)
    serves         \* serves[n]: the models n has loaded (environment)

vars == <<mode, nodes, check, nodeBreakers, pc, target, outcome, holds, works, serves>>

registry == <<mode, nodes, check>>
request == <<pc, target, outcome, holds>>
environment == <<works, serves>>

NodeType ==
    [state : {"healthy", "unhealthy", "dead"}, failures : 0..FailureCap, inFlight : Int,
     models : SUBSET Models, modelsReady : BOOLEAN, breakerBypassed : BOOLEAN]

NewNode(s) ==
    [state |-> s, failures |-> 0, inFlight |-> 0, models |-> {}, modelsReady |-> FALSE,
     breakerBypassed |-> FALSE]

Start == [n \in Nodes |-> NewNode("unhealthy")]

NoNode == CHOOSE n \in Nodes : TRUE

Init ==
    /\ mode \in Modes
    /\ nodes = IF mode = "standalone" THEN Start ELSE [n \in {} |-> NewNode("unhealthy")]
    /\ check = [n \in Nodes |-> "idle"]
    /\ \E c \in BreakerConfigs : nodeBreakers = [n \in Nodes |-> NewCircuitBreaker(c)]
    /\ pc = [r \in Requests |-> "idle"]
    /\ target = [r \in Requests |-> NoNode]
    /\ outcome = [r \in Requests |-> "none"]
    /\ holds = [r \in Requests |-> FALSE]
    /\ works = [n \in Nodes |-> FALSE]
    /\ serves \in [Nodes -> SUBSET Models]

Registered == DOMAIN nodes

----------------------------------------------------------------------------
(* Health checks (standalone).  checkAll waits for all its checks, so a node *)
(* has one at a time.                                                        *)

threshold == IF FailureThreshold = 0 THEN 3 ELSE FailureThreshold

CountFailure(k) == IF k < FailureCap THEN k + 1 ELSE k

markUnhealthy(n) ==
    nodes' = [nodes EXCEPT ![n].failures = CountFailure(@), ![n].state = "unhealthy"]

\* GET /health of a node.
checkNode(n, ok) ==
    /\ mode = "standalone" /\ n \in Registered /\ check[n] = "idle"
    /\ works[n] => ok
    /\ IF ok THEN UNCHANGED nodes ELSE markUnhealthy(n)
    /\ check' = [check EXCEPT ![n] = IF ok THEN "passed" ELSE "failed"]
    /\ UNCHANGED <<mode, nodeBreakers, request, environment>>

\* GET /v1/models of a node that passed, before it is marked healthy (RR13).
\* A poll that fails leaves the registry alone.
fetchModels(n, ok) ==
    /\ check[n] = "passed"
    /\ works[n] => ok
    /\ nodes' = IF ok THEN [nodes EXCEPT ![n].models = serves[n], ![n].modelsReady = TRUE] ELSE nodes
    /\ check' = [check EXCEPT ![n] = IF ok THEN "polled" ELSE "unpolled"]
    /\ UNCHANGED <<mode, nodeBreakers, request, environment>>

\* A panic while an answer is decoded counts as a failed check.
checkPanics(n) ==
    /\ check[n] = "passed" /\ ~ works[n]
    /\ markUnhealthy(n)
    /\ check' = [check EXCEPT ![n] = "failed"]
    /\ UNCHANGED <<mode, nodeBreakers, request, environment>>

\* Mutant: a dead node stays dead.
MutantDeadIsFinal(n) ==
    /\ check[n] \in {"polled", "unpolled"}
    /\ nodes' = IF nodes[n].state = "dead" THEN nodes
                ELSE [nodes EXCEPT ![n].state = "healthy", ![n].failures = 0]
    /\ check' = [check EXCEPT ![n] = "idle"]
    /\ UNCHANGED <<mode, nodeBreakers, request, environment>>

\* Mutant: the code before RR13, healthy before the models are polled.
MutantHealthyBeforePoll(n) ==
    /\ check[n] \in {"passed", "polled", "unpolled"}
    /\ nodes' = [nodes EXCEPT ![n].state = "healthy", ![n].failures = 0]
    /\ check' = [check EXCEPT ![n] = IF @ = "passed" THEN @ ELSE "idle"]
    /\ UNCHANGED <<mode, nodeBreakers, request, environment>>

markHealthy(n) ==
    /\ check[n] \in {"polled", "unpolled"}
    /\ nodes' = [nodes EXCEPT ![n].state = "healthy", ![n].failures = 0]
    /\ check' = [check EXCEPT ![n] = "idle"]
    /\ UNCHANGED <<mode, nodeBreakers, request, environment>>

checkFailureThreshold(n) ==
    /\ check[n] = "failed"
    /\ nodes' = IF nodes[n].failures >= threshold THEN [nodes EXCEPT ![n].state = "dead"] ELSE nodes
    /\ check' = [check EXCEPT ![n] = "idle"]
    /\ UNCHANGED <<mode, nodeBreakers, request, environment>>

----------------------------------------------------------------------------
(* The registry's membership. *)

\* Whatever registers ids anew and drops the rest: requests and checks that
\* hold a dropped node keep an object nobody sees any more.
Drop(ids) ==
    /\ check' = [n \in Nodes |-> IF n \in ids THEN check[n] ELSE "idle"]
    /\ holds' = [r \in Requests |-> holds[r] /\ target[r] \in ids]

UpdateConfig(ids) ==
    /\ nodes' = [n \in ids |-> IF n \in Registered THEN nodes[n] ELSE NewNode("unhealthy")]
    /\ Drop(ids)
    /\ UNCHANGED <<mode, nodeBreakers, pc, target, outcome, environment>>

\* The master lists ids, those in online as such.
syncFromMaster(ids, online) ==
    LET state(n) == IF n \in online THEN "healthy" ELSE "unhealthy"
    IN  /\ mode = "master"
        /\ nodes' = [n \in ids |-> IF n \in Registered THEN [nodes[n] EXCEPT !.state = state(n)]
                                   ELSE NewNode(state(n))]
        /\ Drop(ids)
        /\ UNCHANGED <<mode, nodeBreakers, pc, target, outcome, environment>>

\* The model poll that follows each sync; a failed one changes nothing.
syncNodeModels(n) ==
    /\ mode = "master" /\ n \in Registered
    /\ nodes[n].state = "healthy"
    /\ nodes' = [nodes EXCEPT ![n].models = serves[n], ![n].modelsReady = TRUE]
    /\ UNCHANGED <<mode, check, nodeBreakers, request, environment>>

----------------------------------------------------------------------------
(* Selection, and a request's way to its node and back. *)

selectable(n) == nodes[n].state = "healthy" /\ ~ nodes[n].breakerBypassed

servesModel(n, m) == m = AnyModel \/ (nodes[n].modelsReady /\ m \in nodes[n].models)

\* SelectNodeByModel applies the slot cap, SelectNodeByPlatform does not.
BelowCap(n, m) == m = AnyModel \/ MaxConcurrent = 0 \/ nodes[n].inFlight < MaxConcurrent

\* The nodes a strategy chooses from; which one it takes is left open.
Candidates(m) ==
    {n \in Registered : selectable(n) /\ servesModel(n, m) /\ BelowCap(n, m)}

\* tryClusterLocked picks n, and bypasses it if its breaker is open: the
\* request goes to the cloud.
tryCluster(r, m, n) ==
    /\ pc[r] = "idle"
    /\ n \in Candidates(m)
    /\ nodeBreakers' = [nodeBreakers EXCEPT ![n] = State(@)]
    /\ IF IsOpen(nodeBreakers[n]) THEN UNCHANGED <<pc, target>>
       ELSE pc' = [pc EXCEPT ![r] = "selected"] /\ target' = [target EXCEPT ![r] = n]
    /\ UNCHANGED <<registry, outcome, holds, environment>>

Idle(r) ==
    /\ pc' = [pc EXCEPT ![r] = "idle"]
    /\ target' = [target EXCEPT ![r] = NoNode]
    /\ outcome' = [outcome EXCEPT ![r] = "none"]
    /\ holds' = [holds EXCEPT ![r] = FALSE]

\* GetNode, and the IncrInFlight with which every provider call starts.
Dispatch(r) ==
    /\ pc[r] = "selected"
    /\ target[r] \in Registered
    /\ nodes' = [nodes EXCEPT ![target[r]].inFlight = @ + 1]
    /\ pc' = [pc EXCEPT ![r] = "flying"]
    /\ holds' = [holds EXCEPT ![r] = TRUE]
    /\ UNCHANGED <<mode, check, nodeBreakers, target, outcome, environment>>

\* GetNode finds nothing any more: the request is served by a cloud provider,
\* but its decision still names the node.
FallBackToCloud(r) ==
    /\ pc[r] = "selected"
    /\ target[r] \notin Registered
    /\ pc' = [pc EXCEPT ![r] = "cloud"]
    /\ UNCHANGED <<registry, nodeBreakers, target, outcome, holds, environment>>

\* The cloud's outcome, about to be recorded on the node the decision names.
CloudReturns(r, o) ==
    /\ pc[r] = "cloud"
    /\ pc' = [pc EXCEPT ![r] = "returned"]
    /\ outcome' = [outcome EXCEPT ![r] = o]
    /\ UNCHANGED <<registry, nodeBreakers, target, holds, environment>>

\* The handler turns the request away, or diverts it, before the dispatch.
Abandon(r) ==
    /\ pc[r] = "selected"
    /\ Idle(r)
    /\ UNCHANGED <<registry, nodeBreakers, environment>>

\* Mutant: DecrInFlight looks the node up by its ID again.
MutantDecrById(r, o) ==
    /\ pc[r] = "flying"
    /\ works[target[r]] => o = "success"
    /\ nodes' = IF target[r] \in Registered THEN [nodes EXCEPT ![target[r]].inFlight = @ - 1] ELSE nodes
    /\ pc' = [pc EXCEPT ![r] = "returned"]
    /\ outcome' = [outcome EXCEPT ![r] = o]
    /\ holds' = [holds EXCEPT ![r] = FALSE]
    /\ UNCHANGED <<mode, check, nodeBreakers, target, environment>>

\* The provider call ends, its DecrInFlight first.
Return(r, o) ==
    /\ pc[r] = "flying"
    /\ works[target[r]] => o = "success"
    /\ nodes' = IF holds[r] THEN [nodes EXCEPT ![target[r]].inFlight = @ - 1] ELSE nodes
    /\ pc' = [pc EXCEPT ![r] = "returned"]
    /\ outcome' = [outcome EXCEPT ![r] = o]
    /\ holds' = [holds EXCEPT ![r] = FALSE]
    /\ UNCHANGED <<mode, check, nodeBreakers, target, environment>>

\* RecordNodeSuccess, up to the unlock of breakerMu.
RecordNodeSuccess(r) ==
    LET before == State(nodeBreakers[target[r]])
        after == State(RecordSuccess(before))
    IN  /\ pc[r] = "returned" /\ outcome[r] = "success"
        /\ nodeBreakers' = [nodeBreakers EXCEPT ![target[r]] = after]
        /\ IF after.state = "closed" /\ before.state # "closed"
           THEN pc' = [pc EXCEPT ![r] = "recovered"] /\ UNCHANGED <<target, outcome, holds>>
           ELSE Idle(r)
        /\ UNCHANGED <<registry, environment>>

\* RecordNodeFailure, up to the unlock of breakerMu.
RecordNodeFailure(r) ==
    LET after == State(RecordFailure(nodeBreakers[target[r]]))
    IN  /\ pc[r] = "returned" /\ outcome[r] = "failure"
        /\ nodeBreakers' = [nodeBreakers EXCEPT ![target[r]] = after]
        /\ IF after.state = "open"
           THEN pc' = [pc EXCEPT ![r] = "opened"] /\ UNCHANGED <<target, outcome, holds>>
           ELSE Idle(r)
        /\ UNCHANGED <<registry, environment>>

SetBreakerBypassed(n, b) ==
    nodes' = IF n \in Registered THEN [nodes EXCEPT ![n].breakerBypassed = b] ELSE nodes

\* The push into Discovery that follows the unlock.
MarkNodeBreakerOpen(r) ==
    /\ pc[r] = "opened"
    /\ SetBreakerBypassed(target[r], TRUE)
    /\ Idle(r)
    /\ UNCHANGED <<mode, check, nodeBreakers, environment>>

MarkNodeBreakerClosed(r) ==
    /\ pc[r] = "recovered"
    /\ SetBreakerBypassed(target[r], FALSE)
    /\ Idle(r)
    /\ UNCHANGED <<mode, check, nodeBreakers, environment>>

----------------------------------------------------------------------------

\* DrainAndApply rebuilds the breakers of the nodes and lets them inherit.
ReloadBreakers(c) ==
    /\ nodeBreakers' = [n \in Nodes |->
          InheritSnapshot(NewCircuitBreaker(c), Snapshot(nodeBreakers[n]))]
    /\ UNCHANGED <<registry, request, environment>>

\* The metrics worker and the status endpoint read the states.
PublishBreakerStates ==
    /\ nodeBreakers' = [n \in Nodes |-> State(nodeBreakers[n])]
    /\ UNCHANGED <<registry, request, environment>>

Tick ==
    /\ nodeBreakers' = [n \in Nodes |-> Age(nodeBreakers[n])]
    /\ UNCHANGED <<registry, request, environment>>

\* A node breaks or works again, then with whatever models it has loaded.
NodeFlips(n) ==
    /\ works' = [works EXCEPT ![n] = ~ @]
    /\ \E ms \in SUBSET Models : serves' = [serves EXCEPT ![n] = ms]
    /\ UNCHANGED <<registry, nodeBreakers, request>>

Checks(n) ==
    \/ \E ok \in BOOLEAN : checkNode(n, ok) \/ fetchModels(n, ok)
    \/ checkPanics(n)
    \/ markHealthy(n)
    \/ checkFailureThreshold(n)

Progress(r) ==
    \/ Dispatch(r)
    \/ FallBackToCloud(r)
    \/ Abandon(r)
    \/ \E o \in {"success", "failure"} : Return(r, o) \/ CloudReturns(r, o)
    \/ RecordNodeSuccess(r)
    \/ RecordNodeFailure(r)
    \/ MarkNodeBreakerOpen(r)
    \/ MarkNodeBreakerClosed(r)

Next ==
    \/ \E n \in Nodes :
          \/ Checks(n)
          \/ syncNodeModels(n)
          \/ NodeFlips(n)
          \/ \E r \in Requests, m \in Models \union {AnyModel} : tryCluster(r, m, n)
    \/ \E ids \in SUBSET Nodes :
          \/ UpdateConfig(ids)
          \/ \E online \in SUBSET ids : syncFromMaster(ids, online)
    \/ \E r \in Requests : Progress(r)
    \/ \E c \in BreakerConfigs : ReloadBreakers(c)
    \/ PublishBreakerStates
    \/ Tick

Spec == Init /\ [][Next]_vars

(***************************************************************************)
(* Fairness: time passes, the health-check loop goes on, a request in       *)
(* flight ends, the metrics worker runs, and every node that keeps being a  *)
(* candidate keeps being chosen and dispatched to.                          *)
(***************************************************************************)
Fairness ==
    /\ WF_vars(Tick)
    /\ WF_vars(PublishBreakerStates)
    /\ \A n \in Nodes : WF_vars(Checks(n))
    /\ \A r \in Requests :
          /\ WF_vars(Progress(r))
          /\ SF_vars(Dispatch(r))
          /\ \A n \in Nodes : SF_vars(\E m \in Models \union {AnyModel} : tryCluster(r, m, n))

FairSpec == Spec /\ Fairness

----------------------------------------------------------------------------
(* Properties. *)

\* Every variable stays in its range.
TypeOK ==
    /\ mode \in Modes
    /\ Registered \subseteq Nodes
    /\ \A n \in Registered : nodes[n] \in NodeType
    /\ check \in [Nodes -> {"idle", "passed", "polled", "unpolled", "failed"}]
    /\ nodeBreakers \in [Nodes -> CircuitBreaker]
    /\ pc \in [Requests -> {"idle", "selected", "flying", "cloud", "returned", "opened", "recovered"}]
    /\ target \in [Requests -> Nodes]
    /\ outcome \in [Requests -> {"none", "success", "failure"}]
    /\ holds \in [Requests -> BOOLEAN]
    /\ works \in [Nodes -> BOOLEAN]
    /\ serves \in [Nodes -> SUBSET Models]

\* The in-flight counter of a registered node is the number of requests that
\* are running on it, whatever removals and re-registrations went on while
\* they ran: it never goes negative and never keeps a phantom request that
\* would hold it at the slot cap for good.
InFlightAccounted ==
    \A n \in Registered :
        nodes[n].inFlight = Cardinality({r \in Requests : pc[r] = "flying" /\ holds[r] /\ target[r] = n})

\* A node is dead only after as many failed checks in a row as the threshold
\* says: a passed check in between starts the count again, and neither the
\* breaker's trips nor a master sync add to it (R8).
DeadAfterThreshold ==
    \A n \in Registered :
        /\ nodes[n].state = "dead" => nodes[n].failures >= threshold
        /\ nodes[n].state = "healthy" /\ mode = "standalone" => nodes[n].failures = 0

\* Types, exact in-flight counters and deaths at the threshold, under removals,
\* re-registrations, syncs and trips in any order.
ClusterSound == TypeOK /\ InFlightAccounted /\ DeadAfterThreshold

\* A node that turns healthy in a check has the registry which that same check
\* polled, unless the poll failed: no request that names a model is sent by a
\* registry from before the node's outage (RR13).
HealthyAfterPoll ==
    [][mode = "standalone" =>
          \A n \in Registered :
              n \in DOMAIN nodes' /\ nodes[n].state # "healthy" /\ nodes'[n].state = "healthy" =>
                 check[n] \in {"polled", "unpolled"}]_vars

\* A registered node that works again is found healthy by the check loop, also
\* from dead.
HealthRecovers ==
    \A n \in Nodes :
        mode = "standalone" /\ <>[](works[n] /\ n \in Registered) =>
            <>[](n \in Registered /\ nodes[n].state = "healthy")

\* "NOT selectable until the breaker cooldown elapses": a registered, healthy
\* node that works can be selected again and again.
NodeSelectableAgain ==
    \A n \in Nodes :
        <>[](works[n] /\ n \in Registered) => []<>(n \in Registered /\ selectable(n))
=============================================================================
