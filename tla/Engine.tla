------------------------------- MODULE Engine -------------------------------
(***************************************************************************)
(* internal/router/engine.go: requests through Decide and recordOutcome,    *)
(* the shared circuit breakers they read and feed, and the hot reload that  *)
(* replaces those breakers under them.                                      *)
(*                                                                          *)
(* Decide takes and releases breakerMu several times: the rule chain, the   *)
(* trips it asked for and the probe admission at its tail are separate      *)
(* steps, and so are the dispatch and the outcome the handler records       *)
(* later.  DrainAndApply is a process of its own.                           *)
(***************************************************************************)
EXTENDS RouteDecision, FiniteSets

CONSTANTS
    Requests,  \* the request goroutines
    Inputs,    \* the facts records of the requests that may arrive
    Watched    \* the backends that are up at times; any other may always fail

ASSUME InputsAssumption ==
    /\ Inputs # {}
    /\ Inputs \subseteq
        [type : {"chat", "embedding", "rerank"}, mode : {"local", "cloud", "hybrid"},
         intent : {"none", "guard", "code", "platform"}, inLocalSet : {"yes", "no", "unknown"},
         mapped : BOOLEAN, allowed : BOOLEAN, supply : Seq({"fusion-mlx", "cloud", "disabled"}),
         exclusiveSupply : BOOLEAN, cluster : {"off", "none", "node"}, haNode : BOOLEAN,
         platformNode : BOOLEAN, affinity : {"none", "local", "cloud"},
         load : Loads, ready : BOOLEAN, budget : {"missing", "empty", "exceeded", "ratio", "ok"},
         full : BOOLEAN, larger : BOOLEAN, rerankModel : BOOLEAN]

VARIABLES
    breakers,  \* e.breakers
    pc,        \* pc[r]: idle, decided (chain done), tail, routed
    facts,     \* facts[r]: what arrived
    decision,  \* decision[r]: the decision so far
    reload,    \* where DrainAndApply stands
    newCfg,    \* the breaker section of the configuration being applied
    up         \* up[b]: whether requests to b succeed (the environment)

vars == <<breakers, pc, facts, decision, reload, newCfg, up>>

\* What the handler sees of a decision.
Verdict(d) == [backend |-> d.backend, reason |-> d.reason]

NoDecision == Verdict(Decision("none", "none"))

NoFacts == CHOOSE f \in Inputs : TRUE

Fallible == {"local", "cloud"}

ASSUME WatchedAssumption == Watched \subseteq Fallible

Init ==
    /\ \E c \in BreakerConfigs :
          /\ breakers = [b \in BackendNames |-> NewCircuitBreaker(c)]
          /\ newCfg = c
    /\ pc = [r \in Requests |-> "idle"]
    /\ facts = [r \in Requests |-> NoFacts]
    /\ decision = [r \in Requests |-> NoDecision]
    /\ reload = "idle"
    /\ up = [b \in Fallible |-> FALSE]

----------------------------------------------------------------------------
(* Decide. *)

\* The rule chain, under breakerMu.RLock.
DecideChain(r, f) ==
    /\ pc[r] = "idle"
    /\ facts' = [facts EXCEPT ![r] = f]
    /\ decision' = [decision EXCEPT ![r] = Verdict(decideLocked(f, breakers))]
    /\ breakers' = decideEffects(f, breakers)
    /\ pc' = [pc EXCEPT ![r] = IF decideLocked(f, breakers).trip THEN "decided" ELSE "tail"]
    /\ UNCHANGED <<reload, newCfg, up>>

\* The trips collected by the chain, once its lock is released.
ApplyTrips(r) ==
    /\ pc[r] = "decided"
    /\ breakers' = [breakers EXCEPT !["local"] = Trip(@)]
    /\ pc' = [pc EXCEPT ![r] = "tail"]
    /\ UNCHANGED <<facts, decision, reload, newCfg, up>>

\* Only a decision about to dispatch local asks for admission.
NeedsAdmission(r) == decision[r].backend = "local" /\ facts[r].mode # "local"

\* Mutant: a denied request goes to the cloud whatever its model.
MutantDeniedIgnoresExclusive(r) ==
    tryClusterLocked(facts[r], breakers, Decision("cloud", "half_open_probe_busy"))

\* Where a local decision goes when the breaker denies it.
Denied(r) ==
    IF localExclusive(facts[r]) THEN Rejected("local_exclusive_model_breaker_open")
    ELSE tryClusterLocked(facts[r], breakers, Decision("cloud", "half_open_probe_busy"))

DecideTail(r) ==
    /\ pc[r] = "tail"
    /\ pc' = [pc EXCEPT ![r] = "routed"]
    /\ IF NeedsAdmission(r)
       THEN LET cb == breakers["local"]
            IN  /\ breakers' = [b \in BackendNames |->
                      IF b = "local" THEN Admit(cb)
                      ELSE IF b = "cluster" /\ ~ Admitted(cb) /\ b \in Denied(r).asked
                      THEN Admit(breakers[b]) ELSE breakers[b]]
                /\ decision' = IF Admitted(cb) THEN decision ELSE [decision EXCEPT ![r] = Verdict(Denied(r))]
       ELSE UNCHANGED <<breakers, decision>>
    /\ UNCHANGED <<facts, reload, newCfg, up>>

----------------------------------------------------------------------------
(* The handler that asked for the decision. *)

Finish(r) ==
    /\ pc' = [pc EXCEPT ![r] = "idle"]
    /\ facts' = [facts EXCEPT ![r] = NoFacts]
    /\ decision' = [decision EXCEPT ![r] = NoDecision]

\* The request ends with nothing recorded: it was rejected, the handler turned
\* it away before dispatch (access, queue, stream cap), or the local slots were
\* full.
EndUnrecorded(r) ==
    /\ pc[r] = "routed"
    /\ Finish(r)
    /\ UNCHANGED <<breakers, reload, newCfg, up>>

\* An armed overflow cooldown sends a local or cluster decision to the cloud.
CooldownDivert(r) ==
    /\ pc[r] = "routed"
    /\ decision[r].backend \in {"local", "cluster"}
    /\ decision' = [decision EXCEPT ![r] = Verdict(Decision("cloud", "overflow_cooldown"))]
    /\ UNCHANGED <<breakers, pc, facts, reload, newCfg, up>>

\* Record* on the backend's breaker and the State read that follows it.  A
\* cluster decision is recorded on its node's breaker, not on the shared one.
\* A backend that is down may still be recorded as a success: a stream the
\* client cancelled is.
recordOutcome(r, success) ==
    LET b == decision[r].backend
    IN  /\ pc[r] = "routed"
        /\ b \in BackendNames
        /\ b \in Fallible => (up[b] => success)
        /\ breakers' = IF b = "cluster" THEN breakers
                       ELSE [breakers EXCEPT ![b] =
                               State(IF success THEN RecordSuccess(@) ELSE RecordFailure(@))]
        /\ Finish(r)
        /\ UNCHANGED <<reload, newCfg, up>>

----------------------------------------------------------------------------
(* DrainAndApply: one configuration at a time. *)

\* Wait for the requests in flight, at most drainTimeout: the wait guards nothing.
ReloadDrain(c) ==
    /\ reload = "idle"
    /\ reload' = "swap"
    /\ newCfg' = c
    /\ UNCHANGED <<breakers, pc, facts, decision, up>>

\* New breakers that inherit the old ones' snapshots, under breakerMu.
ReloadSwap ==
    /\ reload = "swap"
    /\ reload' = "warmup"
    /\ breakers' = [b \in BackendNames |->
          InheritSnapshot(NewCircuitBreaker(newCfg), Snapshot(breakers[b]))]
    /\ UNCHANGED <<pc, facts, decision, newCfg, up>>

\* The warm-up looks at the local breaker ...
ReloadCheck ==
    /\ reload = "warmup"
    /\ reload' = IF breakers["local"].state = "open" THEN "reset" ELSE "idle"
    /\ UNCHANGED <<breakers, pc, facts, decision, newCfg, up>>

\* ... and, in a later critical section of that breaker, resets it.
ReloadReset ==
    /\ reload = "reset"
    /\ reload' = "idle"
    /\ breakers' = [breakers EXCEPT !["local"] = ResetToHalfOpen(@)]
    /\ UNCHANGED <<pc, facts, decision, newCfg, up>>

----------------------------------------------------------------------------

\* The metrics worker reads the state of every breaker.
PublishBreakerStates ==
    /\ breakers' = [b \in BackendNames |-> State(breakers[b])]
    /\ UNCHANGED <<pc, facts, decision, reload, newCfg, up>>

Tick ==
    /\ breakers' = [b \in BackendNames |-> Age(breakers[b])]
    /\ UNCHANGED <<pc, facts, decision, reload, newCfg, up>>

\* The environment: a backend fails or recovers.
BackendFlips(b) ==
    /\ up' = [up EXCEPT ![b] = ~ @]
    /\ UNCHANGED <<breakers, pc, facts, decision, reload, newCfg>>

Next ==
    \/ \E r \in Requests :
          \/ \E f \in Inputs : DecideChain(r, f)
          \/ ApplyTrips(r)
          \/ DecideTail(r)
          \/ EndUnrecorded(r)
          \/ CooldownDivert(r)
          \/ \E success \in BOOLEAN : recordOutcome(r, success)
    \/ \E c \in BreakerConfigs : ReloadDrain(c)
    \/ ReloadSwap
    \/ ReloadCheck
    \/ ReloadReset
    \/ PublishBreakerStates
    \/ Tick
    \/ \E b \in Watched : BackendFlips(b)

Spec == Init /\ [][Next]_vars

(***************************************************************************)
(* Fairness, for the recovery of a breaker.  Time passes.  A request that   *)
(* has entered Decide is driven on by its goroutine and ends.  Traffic of   *)
(* every kind keeps arriving, and not every request to a backend is turned  *)
(* away before its outcome.  Nothing is assumed of reloads or of backends.  *)
(***************************************************************************)
Progress(r) ==
    ApplyTrips(r) \/ DecideTail(r) \/ EndUnrecorded(r) \/ \E success \in BOOLEAN : recordOutcome(r, success)

\* SF_vars(DecideChain(r, f)), with its enabling condition written out.
Arrives(r, f) == []<>(pc[r] = "idle") => []<><<DecideChain(r, f)>>_vars

Fairness ==
    /\ WF_vars(Tick)
    /\ \A r \in Requests :
          /\ WF_vars(Progress(r))
          /\ \A f \in Inputs : Arrives(r, f)
          /\ \A b \in Watched : SF_vars(decision[r].backend = b /\ recordOutcome(r, TRUE))

FairSpec == Spec /\ Fairness

----------------------------------------------------------------------------
(* Properties. *)

Decisions ==
    [backend : BackendNames \union {"reject", "none"}, reason : Reasons \union {"none"}]

\* Every variable stays in its range.
TypeOK ==
    /\ breakers \in [BackendNames -> CircuitBreaker]
    /\ pc \in [Requests -> {"idle", "decided", "tail", "routed"}]
    /\ facts \in [Requests -> Inputs]
    /\ decision \in [Requests -> Decisions]
    /\ reload \in {"idle", "swap", "warmup", "reset"}
    /\ newCfg \in BreakerConfigs
    /\ up \in [Fallible -> BOOLEAN]

\* A closed breaker is below its failure threshold and keeps nothing of the
\* recovery that closed it: whatever outcomes, trips and reloads came before,
\* failureCount, successCount and the probe reservation start from scratch.
ClosedIsClean ==
    \A b \in BackendNames : breakers[b].state = "closed" =>
        /\ breakers[b].failureCount = 0
              \/ breakers[b].failureCount < breakers[b].cfg.failureThreshold
        /\ breakers[b].successCount = 0
        /\ ~ breakers[b].probeInFlight

\* A breaker that comes out of open starts a recovery of its own: it counts no
\* success of an earlier one, and no reservation left from before the trip
\* makes Admit deny its first probe.  (With timeout 0 the default window may
\* outlive the open state.)
RecoveryStartsFresh ==
    [][\A b \in BackendNames :
          breakers[b].state = "open" /\ breakers'[b].state = "half_open" =>
             /\ breakers'[b].successCount = 0
             /\ breakers[b].cfg.timeout > 0 => Admitted(breakers'[b])]_vars

\* A tripped breaker closes only from half-open and only in the step in which
\* some request to that backend reports its outcome.  In particular a reload
\* never makes a backend that is known to be down look healthy (EI3).
ClosesOnlyOnOutcome ==
    [][\A b \in BackendNames :
          breakers[b].state # "closed" /\ breakers'[b].state = "closed" =>
             /\ breakers[b].state = "half_open"
             /\ \E r \in Requests :
                   decision[r].backend = b /\ pc[r] = "routed" /\ pc'[r] = "idle"]_vars

\* The half-open probe is reserved only in the step that sends a request to
\* local: requests the chain sends elsewhere do not use it up (#535).
ProbeOnlyForLocalDispatch ==
    [][breakers'["local"].probeInFlight /\ breakers'["local"].probeLeft > breakers["local"].probeLeft =>
          \E r \in Requests : pc[r] = "tail" /\ pc'[r] = "routed" /\ decision'[r].backend = "local"]_vars

\* A chat request in mode hybrid that no intent and no supply list claims.
Plain(f) == f.type = "chat" /\ f.mode = "hybrid" /\ f.intent = "none" /\ f.supply = <<>>

\* Such a request for a model that only local serves is never sent to the
\* cloud by Decide, even when the breaker trips between the chain and the
\* admission at the tail: it is served or refused (#429).
ExclusiveNeverCloud ==
    \A r \in Requests :
        pc[r] = "routed" /\ localExclusive(facts[r]) /\ Plain(facts[r])
          /\ decision[r].reason # "overflow_cooldown" =>
             decision[r].backend \in {"local", "reject"}

\* Such a request for a model outside routing.cloud_models leaves for the
\* cloud only when the local breaker is not closed at that moment (#265).
AllowlistHeldWhileClosed ==
    [][\A r \in Requests :
          decision[r].backend # "cloud" /\ decision'[r].backend = "cloud"
            /\ Plain(facts'[r]) /\ ~ facts'[r].allowed /\ breakers["local"].state = "closed" =>
               decision'[r].reason = "overflow_cooldown"]_vars

\* Such a request for a model that is not in the local set is not sent to
\* local, not even when the cloud breaker does not admit it (#394).  A larger
\* model that stands in for it, an empty prompt, an affinity and a model
\* outside the allowlist do send it there.
UnservableNeverLocal ==
    \A r \in Requests :
        decision[r].backend = "local" /\ Plain(facts[r]) /\ facts[r].inLocalSet = "no" =>
           \/ facts[r].larger \/ facts[r].budget = "empty"
           \/ facts[r].affinity = "local" \/ ~ facts[r].allowed

\* The shared cluster breaker stays closed: outcomes of cluster requests go to
\* the breakers of the nodes.
ClusterBreakerUnused == breakers["cluster"].state = "closed"

\* Types, and the two facts about dispatch that Decide owes its callers: a
\* local-exclusive model stays local and cluster outcomes reach no shared breaker.
EngineSound == TypeOK /\ ExclusiveNeverCloud /\ ClusterBreakerUnused

\* Once a backend works again and stays up its breaker is closed again and
\* again: neither lost probes, late failures nor reloads keep it open.
BreakersRecover ==
    \A b \in {"local", "cloud"} : <>[]up[b] => []<>(breakers[b].state = "closed")

----------------------------------------------------------------------------
(* What comments in the code say and the code does not keep. *)

\* "falls back to local instead of returning a cloud decision that would 502
\* against a dead upstream": a request that fell back to local because the
\* cloud breaker does not admit is not sent to the cloud by Decide after all.
FallbackStaysLocal ==
    [][\A r \in Requests :
          decision[r].reason = "local_fallback" /\ pc[r] # "routed" =>
             decision'[r].backend # "cloud"]_vars

=============================================================================
