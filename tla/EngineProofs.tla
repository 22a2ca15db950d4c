---------------------------- MODULE EngineProofs ----------------------------
(***************************************************************************)
(* Proofs about the engine, for any set of requests, any kinds of requests   *)
(* and any breaker sections.  The first part is about its breakers: every    *)
(* step applies one method to each of them, a quiet one, which closes        *)
(* nothing, unless the step is the outcome of a request.  The second part is *)
(* about the rule chain: whichever rule is the first to match, its decision  *)
(* is one the request is owed, and the tail keeps it so.                     *)
(***************************************************************************)
EXTENDS Engine, BreakerProofs, SequenceTheorems, WellFoundedInduction

\* The inductive invariant: every breaker is sound, and the shared cluster
\* breaker is closed.
EInv ==
    /\ breakers \in [BackendNames -> CircuitBreaker]
    /\ \A b \in BackendNames : Sound(breakers[b])
    /\ breakers["cluster"].state = "closed"
    /\ newCfg \in BreakerConfigs
    /\ pc \in [Requests -> {"idle", "decided", "tail", "routed"}]

\* A step in which no request reports an outcome.
QuietStep ==
    /\ breakers' = [b \in BackendNames |-> breakers'[b]]
    /\ \A b \in BackendNames : Quiet(breakers[b], breakers'[b])
    /\ breakers'["cluster"].state = "closed"

\* The step in which r reports an outcome.
OutcomeStep(r) ==
    /\ pc[r] = "routed" /\ pc'[r] = "idle"
    /\ breakers' = [b \in BackendNames |-> breakers'[b]]
    /\ \A b \in BackendNames :
          /\ Sound(breakers'[b])
          /\ FreshFrom(breakers[b], breakers'[b])
          /\ breakers[b].state = "open" => breakers'[b].state # "closed"
          /\ b # decision[r].backend => breakers'[b] = breakers[b]
    /\ breakers'["cluster"].state = "closed"

\* A step that leaves the breakers alone.
LEMMA UntouchedStep ==
    ASSUME EInv, UNCHANGED breakers
    PROVE  QuietStep
BY SameQuiet DEF EInv, QuietStep, BackendNames

\* The rule chain reads and admits.
LEMMA ChainStep ==
    ASSUME EInv, NEW r \in Requests, NEW f \in Inputs, DecideChain(r, f)
    PROVE  QuietStep
<1>1. breakers' = decideEffects(f, breakers)
  BY DEF DecideChain
<1>2. \A b \in BackendNames : breakers'[b] \in {breakers[b], State(breakers[b]), Admit(breakers[b])}
  BY <1>1 DEF decideEffects
<1>3. breakers' = [b \in BackendNames |-> breakers'[b]]
  BY <1>1 DEF decideEffects
<1>4. \A b \in BackendNames : Quiet(breakers[b], breakers'[b])
  BY <1>2, SameQuiet, StateQuiet, AdmitQuiet DEF EInv
<1>5. breakers'["cluster"].state = "closed"
  BY <1>2, ClosedStays DEF EInv, BackendNames
<1> QED BY <1>3, <1>4, <1>5 DEF QuietStep

\* The tail admits.
LEMMA TailStep ==
    ASSUME EInv, NEW r \in Requests, DecideTail(r)
    PROVE  QuietStep
<1>1. CASE NeedsAdmission(r)
  <2>1. \A b \in BackendNames : breakers'[b] \in {breakers[b], Admit(breakers[b])}
    BY <1>1 DEF DecideTail
  <2>2. breakers' = [b \in BackendNames |-> breakers'[b]]
    BY <1>1 DEF DecideTail
  <2>3. \A b \in BackendNames : Quiet(breakers[b], breakers'[b])
    BY <2>1, SameQuiet, AdmitQuiet DEF EInv
  <2>4. breakers'["cluster"].state = "closed"
    BY <2>1, ClosedStays DEF EInv, BackendNames
  <2> QED BY <2>2, <2>3, <2>4 DEF QuietStep
<1>2. CASE ~ NeedsAdmission(r)
  BY <1>2, UntouchedStep DEF DecideTail
<1> QED BY <1>1, <1>2

\* A step that changes the local breaker only, by Trip or by the warm-up.
LEMMA LocalStep ==
    ASSUME EInv, NEW cb, Quiet(breakers["local"], cb), breakers' = [breakers EXCEPT !["local"] = cb]
    PROVE  QuietStep
<1>1. \A b \in BackendNames : breakers'[b] = IF b = "local" THEN cb ELSE breakers[b]
  BY DEF EInv, BackendNames
<1>2. breakers' = [b \in BackendNames |-> breakers'[b]]
  BY DEF EInv
<1>3. \A b \in BackendNames : Quiet(breakers[b], breakers'[b])
  BY <1>1, SameQuiet DEF EInv
<1>4. breakers'["cluster"].state = "closed"
  BY <1>1 DEF EInv, BackendNames
<1> QED BY <1>2, <1>3, <1>4 DEF QuietStep

\* Reload, the metrics worker and the clock treat every breaker alike.
LEMMA AllStep ==
    ASSUME EInv, ReloadSwap \/ PublishBreakerStates \/ Tick
    PROVE  QuietStep
<1> DEFINE inherited(cb) == InheritSnapshot(NewCircuitBreaker(newCfg), Snapshot(cb))
<1>1. \/ \A b \in BackendNames : breakers'[b] = inherited(breakers[b])
      \/ \A b \in BackendNames : breakers'[b] = State(breakers[b])
      \/ \A b \in BackendNames : breakers'[b] = Age(breakers[b])
  BY DEF ReloadSwap, PublishBreakerStates, Tick
<1>2. breakers' = [b \in BackendNames |-> breakers'[b]]
  BY DEF ReloadSwap, PublishBreakerStates, Tick
<1>3. \A b \in BackendNames :
         /\ Quiet(breakers[b], inherited(breakers[b])) /\ inherited(breakers[b]).state = breakers[b].state
         /\ Quiet(breakers[b], State(breakers[b]))
         /\ Quiet(breakers[b], Age(breakers[b]))
  BY InheritQuiet, StateQuiet, AgeQuiet DEF EInv
<1> HIDE DEF inherited
<1>4. \A b \in BackendNames : Quiet(breakers[b], breakers'[b])
  BY <1>1, <1>3
<1>5. breakers'["cluster"].state = "closed"
  BY <1>1, <1>3, ClosedStays DEF EInv, BackendNames
<1> QED BY <1>2, <1>4, <1>5 DEF QuietStep

\* recordOutcome changes the breaker of the decision's backend at most.
LEMMA RecordStep ==
    ASSUME EInv, NEW r \in Requests, NEW success \in BOOLEAN, recordOutcome(r, success)
    PROVE  OutcomeStep(r)
<1> DEFINE d == decision[r].backend
           next(cb) == State(IF success THEN RecordSuccess(cb) ELSE RecordFailure(cb))
<1>1. pc[r] = "routed" /\ pc'[r] = "idle" /\ d \in BackendNames
  BY DEF recordOutcome, Finish, EInv
<1>2. CASE d = "cluster"
  <2>1. UNCHANGED breakers
    BY <1>2 DEF recordOutcome
  <2>2. QuietStep
    BY <2>1, UntouchedStep
  <2> QED BY <1>1, <2>1, <2>2 DEF QuietStep, Quiet, OutcomeStep
<1>3. CASE d # "cluster"
  <2>1. breakers' = [breakers EXCEPT ![d] = next(breakers[d])]
    BY <1>3 DEF recordOutcome
  <2>2. /\ Sound(next(breakers[d])) /\ FreshFrom(breakers[d], next(breakers[d]))
        /\ breakers[d].state = "open" => next(breakers[d]).state # "closed"
    BY <1>1, OutcomeSound DEF EInv
  <2> HIDE DEF next
  <2>3. \A b \in BackendNames : breakers'[b] = IF b = d THEN next(breakers[d]) ELSE breakers[b]
    BY <2>1 DEF EInv
  <2>4. breakers' = [b \in BackendNames |-> breakers'[b]]
    BY <2>1 DEF EInv
  <2>5. breakers'["cluster"].state = "closed"
    BY <1>3, <2>3 DEF EInv, BackendNames
  <2>6. ASSUME NEW b \in BackendNames
        PROVE  /\ Sound(breakers'[b])
               /\ FreshFrom(breakers[b], breakers'[b])
               /\ breakers[b].state = "open" => breakers'[b].state # "closed"
               /\ b # d => breakers'[b] = breakers[b]
    <3>1. CASE b = d
      BY <2>2, <2>3, <3>1
    <3>2. CASE b # d
      BY <2>3, <3>2 DEF EInv, FreshFrom
    <3> QED BY <3>1, <3>2
  <2> QED BY <1>1, <2>4, <2>5, <2>6 DEF OutcomeStep
<1> QED BY <1>2, <1>3

\* Every step of the engine is quiet or reports one outcome.
LEMMA QuietOrOutcome ==
    ASSUME EInv, [Next]_vars
    PROVE  QuietStep \/ \E r \in Requests : OutcomeStep(r)
<1>1. CASE UNCHANGED vars
  BY <1>1, UntouchedStep DEF vars
<1>2. ASSUME NEW r \in Requests, NEW f \in Inputs, DecideChain(r, f) PROVE QuietStep
  BY <1>2, ChainStep
<1>3. ASSUME NEW r \in Requests, ApplyTrips(r) PROVE QuietStep
  <2>1. Quiet(breakers["local"], Trip(breakers["local"]))
    BY TripQuiet DEF EInv, BackendNames
  <2>2. breakers' = [breakers EXCEPT !["local"] = Trip(breakers["local"])]
    BY <1>3 DEF ApplyTrips
  <2> QED BY <2>1, <2>2, LocalStep
<1>4. ASSUME NEW r \in Requests, DecideTail(r) PROVE QuietStep
  BY <1>4, TailStep
<1>5. ASSUME NEW r \in Requests, EndUnrecorded(r) \/ CooldownDivert(r) PROVE QuietStep
  BY <1>5, UntouchedStep DEF EndUnrecorded, CooldownDivert
<1>6. ASSUME NEW r \in Requests, NEW success \in BOOLEAN, recordOutcome(r, success)
      PROVE  \E x \in Requests : OutcomeStep(x)
  BY <1>6, RecordStep
<1>7. ASSUME NEW c \in BreakerConfigs, ReloadDrain(c) PROVE QuietStep
  BY <1>7, UntouchedStep DEF ReloadDrain
<1>8. CASE ReloadSwap \/ PublishBreakerStates \/ Tick
  BY <1>8, AllStep
<1>9. CASE ReloadCheck
  BY <1>9, UntouchedStep DEF ReloadCheck
<1>10. CASE ReloadReset
  <2>1. Quiet(breakers["local"], ResetToHalfOpen(breakers["local"]))
    BY ResetQuiet DEF EInv, BackendNames
  <2>2. breakers' = [breakers EXCEPT !["local"] = ResetToHalfOpen(breakers["local"])]
    BY <1>10 DEF ReloadReset
  <2> QED BY <2>1, <2>2, LocalStep
<1>11. ASSUME NEW b \in Watched, BackendFlips(b) PROVE QuietStep
  BY <1>11, UntouchedStep DEF BackendFlips
<1> QED
  BY <1>1, <1>2, <1>3, <1>4, <1>5, <1>6, <1>7, <1>8, <1>9, <1>10, <1>11 DEF Next

\* The breakers of a new engine are sound.
LEMMA EInvInit == Init => EInv
<1> SUFFICES ASSUME Init PROVE EInv
  OBVIOUS
<1>1. PICK c \in BreakerConfigs : breakers = [b \in BackendNames |-> NewCircuitBreaker(c)] /\ newCfg = c
  BY DEF Init
<1>2. NewCircuitBreaker(c) \in CircuitBreaker
  BY BreakerAssumption DEF NewCircuitBreaker, CircuitBreaker, BreakerStates
<1>3. Sound(NewCircuitBreaker(c)) /\ NewCircuitBreaker(c).state = "closed"
  BY <1>2, ConfigType DEF NewCircuitBreaker, Sound, Clean, WindowEnds
<1>4. pc \in [Requests -> {"idle", "decided", "tail", "routed"}]
  BY DEF Init
<1> QED BY <1>1, <1>2, <1>3, <1>4 DEF EInv, BackendNames

\* Every step keeps the breakers sound.
LEMMA EInvStep == EInv /\ [Next]_vars => EInv'
<1> SUFFICES ASSUME EInv, [Next]_vars PROVE EInv'
  OBVIOUS
<1>1. /\ breakers' = [b \in BackendNames |-> breakers'[b]]
      /\ \A b \in BackendNames : Sound(breakers'[b])
      /\ breakers'["cluster"].state = "closed"
  BY QuietOrOutcome DEF QuietStep, Quiet, OutcomeStep
<1>2. \A b \in BackendNames : breakers'[b] \in CircuitBreaker
  BY <1>1 DEF Sound
<1>3. breakers' \in [BackendNames -> CircuitBreaker]
  BY <1>1, <1>2
<1>4. newCfg' \in BreakerConfigs
  BY DEF EInv, Next, vars, DecideChain, ApplyTrips, DecideTail, EndUnrecorded, CooldownDivert,
         recordOutcome, ReloadDrain, ReloadSwap, ReloadCheck, ReloadReset, PublishBreakerStates,
         Tick, BackendFlips
<1>5. pc' \in [Requests -> {"idle", "decided", "tail", "routed"}]
  BY DEF EInv, Next, vars, DecideChain, ApplyTrips, DecideTail, EndUnrecorded, CooldownDivert,
         recordOutcome, Finish, ReloadDrain, ReloadSwap, ReloadCheck, ReloadReset,
         PublishBreakerStates, Tick, BackendFlips
<1> QED BY <1>1, <1>3, <1>4, <1>5 DEF EInv

\* Every breaker is sound in every reachable state.
THEOREM BreakersSound == Spec => []EInv
<1>1. Init => EInv
  BY EInvInit
<1>2. EInv /\ [Next]_vars => EInv'
  BY EInvStep
<1> QED BY <1>1, <1>2, PTL DEF Spec

\* A closed breaker is below its threshold and keeps nothing of a recovery.
THEOREM ClosedBreakersClean == Spec => []ClosedIsClean
<1>1. EInv => ClosedIsClean
  BY DEF EInv, Sound, Clean, ClosedIsClean
<1> QED BY <1>1, BreakersSound, PTL

\* Outcomes of cluster requests never reach the shared cluster breaker (RR5).
THEOREM SharedClusterBreakerClosed == Spec => []ClusterBreakerUnused
<1>1. EInv => ClusterBreakerUnused
  BY DEF EInv, ClusterBreakerUnused
<1> QED BY <1>1, BreakersSound, PTL

\* A breaker that leaves open counts no earlier success and admits a probe.
THEOREM RecoveriesStartFresh == Spec => RecoveryStartsFresh
<1> DEFINE Fresh == \A b \in BackendNames :
              breakers[b].state = "open" /\ breakers'[b].state = "half_open" =>
                 /\ breakers'[b].successCount = 0
                 /\ breakers[b].cfg.timeout > 0 => Admitted(breakers'[b])
<1>1. EInv /\ [Next]_vars => [Fresh]_vars
  <2> SUFFICES ASSUME EInv, [Next]_vars PROVE Fresh
    OBVIOUS
  <2>1. \A b \in BackendNames : FreshFrom(breakers[b], breakers'[b])
    BY QuietOrOutcome DEF QuietStep, Quiet, OutcomeStep
  <2> QED BY <2>1 DEF FreshFrom
<1> QED BY <1>1, BreakersSound, PTL DEF Spec, RecoveryStartsFresh

\* Only the outcome of a request closes a tripped breaker, from half-open; no
\* reload, trip, read or passage of time does (EI3).
THEOREM ClosedByOutcomesOnly == Spec => ClosesOnlyOnOutcome
<1> DEFINE Closes == \A b \in BackendNames :
              breakers[b].state # "closed" /\ breakers'[b].state = "closed" =>
                 /\ breakers[b].state = "half_open"
                 /\ \E r \in Requests :
                       decision[r].backend = b /\ pc[r] = "routed" /\ pc'[r] = "idle"
<1>1. EInv /\ [Next]_vars => [Closes]_vars
  <2> SUFFICES ASSUME EInv, [Next]_vars, NEW b \in BackendNames,
                      breakers[b].state # "closed", breakers'[b].state = "closed"
               PROVE  /\ breakers[b].state = "half_open"
                      /\ \E r \in Requests :
                            decision[r].backend = b /\ pc[r] = "routed" /\ pc'[r] = "idle"
    OBVIOUS
  <2>1. ~ QuietStep
    BY DEF QuietStep, Quiet
  <2>2. PICK r \in Requests : OutcomeStep(r)
    BY <2>1, QuietOrOutcome
  <2>3. decision[r].backend = b /\ pc[r] = "routed" /\ pc'[r] = "idle"
    BY <2>2 DEF OutcomeStep
  <2>4. breakers[b].state # "open" /\ breakers[b].state \in BreakerStates
    BY <2>2, FieldTypes DEF OutcomeStep, EInv
  <2> QED BY <2>3, <2>4 DEF BreakerStates
<1> QED BY <1>1, BreakersSound, PTL DEF Spec, ClosesOnlyOnOutcome

\* Only an Admit that reserves the probe prolongs a reservation.
LEMMA ReservationShrinks ==
    ASSUME NEW cb, Sound(cb), NEW c \in BreakerConfigs
    PROVE  /\ State(cb).probeLeft <= cb.probeLeft
           /\ Trip(cb).probeLeft <= cb.probeLeft
           /\ ResetToHalfOpen(cb).probeLeft <= cb.probeLeft
           /\ Age(cb).probeLeft <= cb.probeLeft
           /\ InheritSnapshot(NewCircuitBreaker(c), Snapshot(cb)).probeLeft <= cb.probeLeft
           /\ State(RecordSuccess(cb)).probeLeft <= cb.probeLeft
           /\ State(RecordFailure(cb)).probeLeft <= cb.probeLeft
<1>1. cb \in CircuitBreaker /\ cb.probeLeft \in Nat /\ cb.state \in BreakerStates
  BY FieldTypes DEF Sound
<1>2. ASSUME NEW x \in CircuitBreaker PROVE State(x).probeLeft = x.probeLeft
  BY <1>2 DEF State, CircuitBreaker
<1>3. Trip(cb).probeLeft = cb.probeLeft
  BY <1>1 DEF Trip, CircuitBreaker
<1>4. ResetToHalfOpen(cb).probeLeft = 0
  BY <1>1 DEF ResetToHalfOpen, CircuitBreaker
<1>5. Age(cb).probeLeft = IF cb.probeLeft > 0 THEN cb.probeLeft - 1 ELSE 0
  BY <1>1 DEF Age, CircuitBreaker
<1>6. InheritSnapshot(NewCircuitBreaker(c), Snapshot(cb)).probeLeft = 0
  BY DEF InheritSnapshot, NewCircuitBreaker
<1>7. RecordSuccess(cb).probeLeft = cb.probeLeft
  BY <1>1 DEF RecordSuccess, CircuitBreaker, BreakerStates
<1>8. RecordFailure(cb).probeLeft = cb.probeLeft
  BY <1>1 DEF RecordFailure, CircuitBreaker, BreakerStates
<1>9. RecordSuccess(cb) \in CircuitBreaker /\ RecordFailure(cb) \in CircuitBreaker
  BY SuccessSound, FailureQuiet DEF Sound, Quiet
<1>10. /\ State(RecordSuccess(cb)).probeLeft = cb.probeLeft
       /\ State(RecordFailure(cb)).probeLeft = cb.probeLeft
  BY <1>2, <1>7, <1>8, <1>9
<1>11. State(cb).probeLeft = cb.probeLeft
  BY <1>1, <1>2
<1>12. Age(cb).probeLeft <= cb.probeLeft
  BY <1>1, <1>5
<1> QED BY <1>1, <1>3, <1>4, <1>6, <1>10, <1>11, <1>12

\* The half-open probe of local is reserved only by a request on its way to
\* local, never by one that the chain sends elsewhere (#535).
THEOREM ProbesForLocalOnly == Spec => ProbeOnlyForLocalDispatch
<1> DEFINE Grows == breakers'["local"].probeInFlight /\ breakers'["local"].probeLeft > breakers["local"].probeLeft
           Probe == Grows => \E r \in Requests :
              pc[r] = "tail" /\ pc'[r] = "routed" /\ decision'[r].backend = "local"
<1>1. EInv /\ [Next]_vars => [Probe]_vars
  <2> SUFFICES ASSUME EInv, Next, Grows
               PROVE  \E r \in Requests :
                         pc[r] = "tail" /\ pc'[r] = "routed" /\ decision'[r].backend = "local"
    OBVIOUS
  <2> DEFINE cb == breakers["local"]
             new == breakers'["local"]
  <2>1. Sound(cb) /\ cb.probeLeft \in Nat /\ "local" \in BackendNames
    BY FieldTypes DEF EInv, BackendNames, Sound
  <2>2. new.probeLeft \in Nat
    BY EInvStep, FieldTypes, <2>1 DEF EInv
  <2>3. ~ (new.probeLeft <= cb.probeLeft)
    BY <2>1, <2>2
  <2>shrinks. /\ cb.probeLeft <= cb.probeLeft
              /\ State(cb).probeLeft <= cb.probeLeft
              /\ Trip(cb).probeLeft <= cb.probeLeft
              /\ ResetToHalfOpen(cb).probeLeft <= cb.probeLeft
              /\ Age(cb).probeLeft <= cb.probeLeft
              /\ InheritSnapshot(NewCircuitBreaker(newCfg), Snapshot(cb)).probeLeft <= cb.probeLeft
              /\ State(RecordSuccess(cb)).probeLeft <= cb.probeLeft
              /\ State(RecordFailure(cb)).probeLeft <= cb.probeLeft
    <3>1. newCfg \in BreakerConfigs
      BY DEF EInv
    <3>2. cb.probeLeft <= cb.probeLeft
      BY <2>1
    <3> HIDE DEF cb
    <3> QED BY <2>1, <3>1, <3>2, ReservationShrinks
  <2> HIDE DEF cb, new
  <2>4. ASSUME NEW r \in Requests, NEW f \in Inputs, DecideChain(r, f) PROVE FALSE
    <3>1. new = cb \/ new = State(cb)
      BY <2>1, <2>4 DEF DecideChain, decideEffects, cb, new
    <3> QED BY <2>3, <2>shrinks, <3>1
  <2>5. ASSUME NEW r \in Requests, NEW success \in BOOLEAN, recordOutcome(r, success) PROVE FALSE
    <3>1. new \in {cb, State(RecordSuccess(cb)), State(RecordFailure(cb))}
      BY <2>1, <2>5 DEF recordOutcome, EInv, cb, new
    <3> QED BY <2>3, <2>shrinks, <3>1
  <2>6. ASSUME NEW r \in Requests, ApplyTrips(r) \/ EndUnrecorded(r) \/ CooldownDivert(r) PROVE FALSE
    <3>1. new = cb \/ new = Trip(cb)
      BY <2>1, <2>6 DEF ApplyTrips, EndUnrecorded, CooldownDivert, EInv, cb, new
    <3> QED BY <2>3, <2>shrinks, <3>1
  <2>7. ASSUME ReloadSwap \/ ReloadCheck \/ ReloadReset \/ PublishBreakerStates \/ Tick PROVE FALSE
    <3>1. \/ new = cb \/ new = State(cb) \/ new = Age(cb) \/ new = ResetToHalfOpen(cb)
          \/ new = InheritSnapshot(NewCircuitBreaker(newCfg), Snapshot(cb))
      BY <2>1, <2>7 DEF ReloadSwap, ReloadCheck, ReloadReset, PublishBreakerStates, Tick, EInv, cb, new
    <3> QED BY <2>3, <2>shrinks, <3>1
  <2>8. ASSUME \/ \E c \in BreakerConfigs : ReloadDrain(c)
               \/ \E b \in Watched : BackendFlips(b)
        PROVE  FALSE
    <3>1. new = cb
      BY <2>8 DEF ReloadDrain, BackendFlips, cb, new
    <3> QED BY <2>3, <2>shrinks, <3>1
  <2>9. PICK r \in Requests : DecideTail(r)
    BY <2>4, <2>5, <2>6, <2>7, <2>8 DEF Next
  <2>10. NeedsAdmission(r) /\ new = Admit(cb)
    <3>1. new = cb \/ (NeedsAdmission(r) /\ new = Admit(cb))
      BY <2>1, <2>9 DEF DecideTail, cb, new
    <3> QED BY <2>3, <2>shrinks, <3>1
  <2>11. Admitted(cb)
    <3>1. Admit(cb) # State(cb)
      BY <2>3, <2>10, <2>shrinks
    <3> QED BY <3>1 DEF Admit
  <2>12. pc[r] = "tail" /\ pc'[r] = "routed" /\ decision' = decision
    BY <2>9, <2>10, <2>11 DEF DecideTail, EInv, cb
  <2> QED BY <2>10, <2>12 DEF NeedsAdmission
<1> QED BY <1>1, BreakersSound, PTL DEF Spec, ProbeOnlyForLocalDispatch

----------------------------------------------------------------------------
(* The rule chain as a priority table. *)

DecisionType ==
    [backend : BackendNames \union {"reject"}, reason : Reasons, trip : BOOLEAN, asked : SUBSET BackendNames]
RuleType == [when : BOOLEAN, then : DecisionType]

Matches(rules) == \E i \in 1..Len(rules) : rules[i].when

\* A set of positions has a first one.
LEMMA FirstPosition ==
    ASSUME NEW I, I \subseteq Nat, I # {}
    PROVE  Min(I) \in I /\ \A j \in I : Min(I) <= j
<1>1. PICK x \in I : \A y \in I : ~ (<<y, x>> \in OpToRel(<, Nat))
  BY NatLessThanWellFounded, WFMin
<1>2. ASSUME NEW y \in I
      PROVE  x <= y
  <2>1. x \in Nat /\ y \in Nat
    OBVIOUS
  <2>2. ~ (<<y, x>> \in OpToRel(<, Nat))
    BY <1>1
  <2>3. ~ (y < x)
    BY <2>1, <2>2 DEF OpToRel
  <2> QED BY <2>1, <2>3
<1> QED BY <1>2 DEF Min

\* The chain answers with its first rule that matches.
LEMMA FirstRule ==
    ASSUME NEW p \in Seq(RuleType), Matches(p)
    PROVE  \E i \in 1..Len(p) : /\ p[i].when /\ FirstMatch(p) = p[i].then
                                /\ \A j \in 1..Len(p) : p[j].when => i <= j
<1> DEFINE I == {i \in 1..Len(p) : p[i].when}
<1>1. I \subseteq Nat /\ I # {}
  BY DEF Matches
<1>2. Min(I) \in I /\ \A j \in I : Min(I) <= j
  BY <1>1, FirstPosition
<1>3. FirstMatch(p) = p[Min(I)].then
  BY <1>1 DEF FirstMatch, SelectInSeq
<1> QED BY <1>2, <1>3

\* Of two tables in a row the second is looked at when nothing in the first matches.
LEMMA FirstOfTwo ==
    ASSUME NEW p \in Seq(RuleType), NEW q \in Seq(RuleType)
    PROVE  /\ p \o q \in Seq(RuleType)
           /\ Matches(p) => Matches(p \o q) /\ FirstMatch(p \o q) = FirstMatch(p)
           /\ ~ Matches(p) /\ Matches(q) => Matches(p \o q) /\ FirstMatch(p \o q) = FirstMatch(q)
           /\ ~ Matches(p) /\ ~ Matches(q) => ~ Matches(p \o q)
<1> DEFINE s == p \o q
<1>1. /\ s \in Seq(RuleType) /\ Len(s) = Len(p) + Len(q) /\ Len(p) \in Nat /\ Len(q) \in Nat
      /\ \A i \in 1..Len(p) + Len(q) : s[i] = IF i <= Len(p) THEN p[i] ELSE q[i - Len(p)]
  BY ConcatProperties, LenProperties
<1> HIDE DEF s
<1>2. ASSUME Matches(p)
      PROVE  Matches(s) /\ FirstMatch(s) = FirstMatch(p)
  <2>1. PICK i \in 1..Len(p) : /\ p[i].when /\ FirstMatch(p) = p[i].then
                               /\ \A j \in 1..Len(p) : p[j].when => i <= j
    BY <1>2, FirstRule
  <2>2. i \in 1..Len(s) /\ s[i] = p[i]
    BY <1>1
  <2>3. Matches(s)
    BY <2>1, <2>2 DEF Matches
  <2>4. PICK k \in 1..Len(s) : /\ s[k].when /\ FirstMatch(s) = s[k].then
                               /\ \A j \in 1..Len(s) : s[j].when => k <= j
    BY <1>1, <2>3, FirstRule
  <2>5. k <= i /\ i <= Len(p)
    BY <2>1, <2>2, <2>4
  <2>6. k \in 1..Len(p) /\ s[k] = p[k]
    BY <1>1, <2>5
  <2>7. i <= k
    BY <2>1, <2>4, <2>6
  <2>8. i = k
    BY <1>1, <2>5, <2>7
  <2> QED BY <2>1, <2>3, <2>4, <2>6, <2>8
<1>3. ASSUME ~ Matches(p), Matches(q)
      PROVE  Matches(s) /\ FirstMatch(s) = FirstMatch(q)
  <2>1. PICK i \in 1..Len(q) : /\ q[i].when /\ FirstMatch(q) = q[i].then
                               /\ \A j \in 1..Len(q) : q[j].when => i <= j
    BY <1>3, FirstRule
  <2>2. i + Len(p) \in 1..Len(s) /\ s[i + Len(p)] = q[i]
    <3>1. i + Len(p) \in 1..Len(p) + Len(q) /\ ~ (i + Len(p) <= Len(p)) /\ i + Len(p) - Len(p) = i
      BY <1>1
    <3> QED BY <1>1, <3>1
  <2>3. Matches(s)
    BY <2>1, <2>2 DEF Matches
  <2>4. PICK k \in 1..Len(s) : /\ s[k].when /\ FirstMatch(s) = s[k].then
                               /\ \A j \in 1..Len(s) : s[j].when => k <= j
    BY <1>1, <2>3, FirstRule
  <2>5. k <= i + Len(p)
    BY <2>1, <2>2, <2>4
  <2>6. k > Len(p)
    <3>1. k <= Len(p) => k \in 1..Len(p) /\ s[k] = p[k]
      BY <1>1
    <3> QED BY <1>1, <1>3, <2>4, <3>1 DEF Matches
  <2>7. k - Len(p) \in 1..Len(q) /\ s[k] = q[k - Len(p)]
    BY <1>1, <2>6
  <2>8. i <= k - Len(p)
    BY <2>1, <2>4, <2>7
  <2>9. i = k - Len(p)
    <3>1. \A x, y, z \in Int : y <= x + z /\ x <= y - z => x = y - z
      OBVIOUS
    <3>2. i \in Int /\ k \in Int /\ Len(p) \in Int
      BY <1>1
    <3> QED BY <2>5, <2>8, <3>1, <3>2
  <2> QED BY <2>1, <2>3, <2>4, <2>7, <2>9
<1>4. ASSUME NEW i \in 1..Len(s), s[i].when
      PROVE  Matches(p) \/ Matches(q)
  <2>1. CASE i <= Len(p)
    BY <1>1, <1>4, <2>1 DEF Matches
  <2>2. CASE ~ (i <= Len(p))
    <3>1. i - Len(p) \in 1..Len(q) /\ s[i] = q[i - Len(p)]
      BY <1>1, <2>2
    <3> QED BY <1>4, <3>1 DEF Matches
  <2> QED BY <2>1, <2>2
<1>5. ~ Matches(p) /\ ~ Matches(q) => ~ Matches(s)
  BY <1>4 DEF Matches
<1> QED BY <1>1, <1>2, <1>3, <1>5 DEF s

\* What the helpers of the chain return.
LEMMA HelperTypes ==
    ASSUME NEW f, NEW b, NEW d \in DecisionType
    PROVE  /\ tryClusterLocked(f, b, d) \in DecisionType
           /\ tryClusterLocked(f, b, d).backend \in {"cluster", d.backend}
           /\ cloudOrLocalLocked(f, b, d) \in DecisionType
           /\ cloudOrLocalLocked(f, b, d).backend \in {"local", d.backend}
           /\ f.inLocalSet = "no" => cloudOrLocalLocked(f, b, d).backend = d.backend
<1>1. tryClusterLocked(f, b, d) \in DecisionType /\ tryClusterLocked(f, b, d).backend \in {"cluster", d.backend}
  <2>1. CASE f.cluster = "node" /\ Admitted(b["cluster"])
    BY <2>1 DEF tryClusterLocked, Decision, DecisionType, BackendNames, Reasons
  <2>2. CASE ~ (f.cluster = "node" /\ Admitted(b["cluster"]))
    <3> DEFINE a == IF f.cluster = "off" THEN d.asked ELSE d.asked \union {"cluster"}
    <3>1. a \in SUBSET BackendNames
      BY DEF DecisionType, BackendNames
    <3>2. tryClusterLocked(f, b, d) = [d EXCEPT !.asked = a]
      BY <2>2 DEF tryClusterLocked
    <3> HIDE DEF a
    <3> QED BY <3>1, <3>2 DEF DecisionType
  <2> QED BY <2>1, <2>2
<1>2. /\ cloudOrLocalLocked(f, b, d) \in DecisionType
      /\ cloudOrLocalLocked(f, b, d).backend \in {"local", d.backend}
      /\ f.inLocalSet = "no" => cloudOrLocalLocked(f, b, d).backend = d.backend
  <2> DEFINE a == d.asked \union {"cloud"}
  <2>1. a \in SUBSET BackendNames
    BY DEF DecisionType, BackendNames
  <2>2. CASE Admitted(b["cloud"]) \/ f.inLocalSet = "no"
    <3>1. cloudOrLocalLocked(f, b, d) = [d EXCEPT !.asked = a]
      BY <2>2 DEF cloudOrLocalLocked
    <3> HIDE DEF a
    <3> QED BY <2>1, <3>1 DEF DecisionType
  <2>3. CASE ~ (Admitted(b["cloud"]) \/ f.inLocalSet = "no")
    <3>1. cloudOrLocalLocked(f, b, d) = [d EXCEPT !.asked = a, !.backend = "local", !.reason = "local_fallback"]
      BY <2>3 DEF cloudOrLocalLocked
    <3> HIDE DEF a
    <3>2. cloudOrLocalLocked(f, b, d).backend = "local"
      BY <3>1 DEF DecisionType
    <3>3. cloudOrLocalLocked(f, b, d) \in DecisionType
      BY <2>1, <3>1 DEF DecisionType, BackendNames, Reasons
    <3> QED BY <2>3, <3>2, <3>3
  <2> QED BY <2>2, <2>3
<1> QED BY <1>1, <1>2

\* A decision by a named rule, and a rule that returns one.
LEMMA DecisionTyped ==
    ASSUME NEW to \in BackendNames \union {"reject"}, NEW why \in Reasons
    PROVE  Decision(to, why) \in DecisionType /\ Decision(to, why).backend = to
BY DEF Decision, DecisionType, BackendNames

\* The same for a decision that called Admit on the cluster breaker, and for one
\* that trips local.
LEMMA AskedTyped ==
    ASSUME NEW to \in BackendNames, NEW why \in Reasons
    PROVE  /\ [Decision(to, why) EXCEPT !.asked = {"cluster"}] \in DecisionType
           /\ [Decision(to, why) EXCEPT !.asked = {"cluster"}].backend = to
BY DEF Decision, DecisionType, BackendNames

\* A trip changes nothing else of a decision.
LEMMA TripTyped ==
    ASSUME NEW d \in DecisionType
    PROVE  [d EXCEPT !.trip = TRUE] \in DecisionType /\ [d EXCEPT !.trip = TRUE].backend = d.backend
BY DEF DecisionType

\* A rule has the condition and the decision it was made of.
LEMMA RuleTyped ==
    ASSUME NEW c \in BOOLEAN, NEW d \in DecisionType
    PROVE  Rule(c, d) \in RuleType /\ Rule(c, d).when = c /\ Rule(c, d).then = d
BY DEF Rule, RuleType

\* The facts a rule tests are truth values.
LEMMA FactsBoolean ==
    ASSUME NEW f \in Inputs
    PROVE  /\ f.mapped \in BOOLEAN /\ f.allowed \in BOOLEAN /\ f.exclusiveSupply \in BOOLEAN
           /\ f.haNode \in BOOLEAN /\ f.platformNode \in BOOLEAN /\ f.ready \in BOOLEAN
           /\ f.full \in BOOLEAN /\ f.larger \in BOOLEAN /\ f.rerankModel \in BOOLEAN
           /\ f.load \in Loads /\ f.mode \in {"local", "cloud", "hybrid"}
           /\ f.type \in {"chat", "embedding", "rerank"}
BY InputsAssumption

\* The tables consist of rules.
LEMMA ShortTables ==
    ASSUME NEW f \in Inputs, NEW b
    PROVE  /\ modeRules(f, b) \in Seq(RuleType)
           /\ decideEmbeddingLocked(f, b) \in Seq(RuleType) /\ Matches(decideEmbeddingLocked(f, b))
           /\ decideRerankLocked(f, b) \in Seq(RuleType) /\ Matches(decideRerankLocked(f, b))
<1> USE DecisionTyped, HelperTypes, RuleTyped, FactsBoolean
<1>1. modeRules(f, b) \in Seq(RuleType)
  <2>1. Rule(f.type = "chat" /\ f.intent = "guard", Rejected("laya_guard_blocked")) \in RuleType
    BY DEF Rejected, Reasons
  <2>2. Rule(f.mode = "local", Decision("local", "mode_local")) \in RuleType
    BY DEF Reasons, BackendNames
  <2>3. Rule(f.mode = "cloud", tryClusterLocked(f, b, Decision("cloud", "mode_cloud"))) \in RuleType
    BY DEF Reasons, BackendNames
  <2> QED BY <2>1, <2>2, <2>3 DEF modeRules
<1>2. decideEmbeddingLocked(f, b) \in Seq(RuleType) /\ Matches(decideEmbeddingLocked(f, b))
  <2> DEFINE x == Rule(IsOpen(b["local"]) \/ ~ f.ready,
                       tryClusterLocked(f, b, Decision("cloud", "embedding_local_unavailable")))
             y == Rule(TRUE, Decision("local", "embedding_local_priority"))
  <2>1. x \in RuleType
    BY DEF Reasons, BackendNames
  <2>2. y \in RuleType /\ y.when
    BY DEF Reasons, BackendNames
  <2>3. decideEmbeddingLocked(f, b) = <<x, y>>
    BY DEF decideEmbeddingLocked
  <2> HIDE DEF x, y
  <2>4. <<x, y>> \in Seq(RuleType) /\ Len(<<x, y>>) = 2 /\ <<x, y>>[2] = y
    BY <2>1, <2>2
  <2> QED BY <2>2, <2>3, <2>4 DEF Matches
<1>3. decideRerankLocked(f, b) \in Seq(RuleType) /\ Matches(decideRerankLocked(f, b))
  <2> DEFINE x == Rule(f.ready /\ f.inLocalSet = "yes" /\ f.rerankModel /\ ~ IsOpen(b["local"]),
                       Decision("local", "rerank_local_available"))
             y == Rule(~ f.allowed, Decision("local", "cloud_models_allowlist_miss"))
             z == Rule(TRUE, tryClusterLocked(f, b, Decision("cloud", "rerank_cloud_default")))
  <2>1. x \in RuleType
    BY DEF Reasons, BackendNames
  <2>2. y \in RuleType
    BY DEF Reasons, BackendNames
  <2>3. z \in RuleType /\ z.when
    BY DEF Reasons, BackendNames
  <2>4. decideRerankLocked(f, b) = <<x, y, z>>
    BY DEF decideRerankLocked
  <2> HIDE DEF x, y, z
  <2>5. <<x, y, z>> \in Seq(RuleType) /\ Len(<<x, y, z>>) = 3 /\ <<x, y, z>>[3] = z
    BY <2>1, <2>2, <2>3
  <2> QED BY <2>3, <2>4, <2>5 DEF Matches
<1> QED BY <1>1, <1>2, <1>3

\* The intent layer and the supply list say nothing about a plain request, and
\* no mode overrides its rules.
LEMMA ClaimTables ==
    ASSUME NEW f \in Inputs, NEW b
    PROVE  /\ decideIntentLocked(f, b) \in Seq(RuleType) /\ modelsSupplyDecision(f, b) \in Seq(RuleType)
           /\ Plain(f) => /\ ~ Matches(modeRules(f, b)) /\ ~ Matches(decideIntentLocked(f, b))
                          /\ ~ Matches(modelsSupplyDecision(f, b))
<1> USE DecisionTyped, AskedTyped, HelperTypes, RuleTyped, FactsBoolean
<1>1. Plain(f) => ~ Matches(modeRules(f, b))
  <2> DEFINE x == Rule(f.type = "chat" /\ f.intent = "guard", Rejected("laya_guard_blocked"))
             y == Rule(f.mode = "local", Decision("local", "mode_local"))
             z == Rule(f.mode = "cloud", tryClusterLocked(f, b, Decision("cloud", "mode_cloud")))
  <2>1. Plain(f) => ~ x.when
    BY DEF Rejected, Reasons, Plain
  <2>2. Plain(f) => ~ y.when
    BY DEF Reasons, BackendNames, Plain
  <2>3. Plain(f) => ~ z.when
    BY DEF Reasons, BackendNames, Plain
  <2>4. modeRules(f, b) = <<x, y, z>>
    BY DEF modeRules
  <2> HIDE DEF x, y, z
  <2> QED BY <2>1, <2>2, <2>3, <2>4 DEF Matches
<1>2. decideIntentLocked(f, b) \in Seq(RuleType) /\ (Plain(f) => ~ Matches(decideIntentLocked(f, b)))
  <2> DEFINE x == Rule(f.intent = "code", Decision("local", "intent_code"))
             y == Rule(f.intent = "platform" /\ tryClusterByPlatformLocked(f, b),
                       [Decision("cluster", "intent_platform") EXCEPT !.asked = {"cluster"}])
             z == Rule(f.intent = "platform",
                       [Decision("cloud", "no_platform_node") EXCEPT !.asked = {"cluster"}])
  <2>1. x \in RuleType /\ (Plain(f) => ~ x.when)
    BY DEF Reasons, BackendNames, Plain
  <2>2. y \in RuleType /\ (Plain(f) => ~ y.when)
    BY DEF Reasons, BackendNames, Plain
  <2>3. z \in RuleType /\ (Plain(f) => ~ z.when)
    BY DEF Reasons, BackendNames, Plain
  <2>4. decideIntentLocked(f, b) = <<x, y, z>>
    BY DEF decideIntentLocked
  <2> HIDE DEF x, y, z
  <2> QED BY <2>1, <2>2, <2>3, <2>4 DEF Matches
<1>3. modelsSupplyDecision(f, b) \in Seq(RuleType) /\ (Plain(f) => ~ Matches(modelsSupplyDecision(f, b)))
  <2> DEFINE d == IF supplyIsLocal(f, b) THEN Decision("local", "models_supply")
                  ELSE Decision("cloud", "models_supply")
             x == Rule(supplyEligible(f, b) # {}, d)
             y == Rule(f.supply # <<>> /\ f.exclusiveSupply, Rejected("models_supply_miss"))
  <2>1. d \in DecisionType
    BY DEF Reasons, BackendNames
  <2>2. Plain(f) => supplyEligible(f, b) = {}
    BY DEF supplyEligible, Plain
  <2>3. x \in RuleType /\ (Plain(f) => ~ x.when)
    <3> HIDE DEF d
    <3> QED BY <2>1, <2>2
  <2>4. y \in RuleType /\ (Plain(f) => ~ y.when)
    BY DEF Rejected, Reasons, Plain
  <2>5. modelsSupplyDecision(f, b) = <<x, y>>
    BY DEF modelsSupplyDecision
  <2> HIDE DEF x, y
  <2> QED BY <2>3, <2>4, <2>5 DEF Matches
<1> QED BY <1>1, <1>2, <1>3

\* What the chain owes a plain request: a local-exclusive model stays local or is
\* refused, a model outside the allowlist leaves only past an open breaker, and
\* a model local does not have goes there for a reason only.
Owed(f, b, d) ==
    /\ localExclusive(f) => d.backend \in {"local", "reject"}
    /\ ~ f.allowed /\ d.backend = "cloud" => IsOpen(b["local"])
    /\ f.inLocalSet = "no" /\ d.backend = "local" =>
          f.larger \/ f.budget = "empty" \/ f.affinity = "local" \/ ~ f.allowed

\* P0 and P0.1: an open breaker or a model outside the allowlist settles it.
LEMMA OwnerTable ==
    ASSUME NEW f \in Inputs, NEW b
    PROVE  LET p == <<Rule(IsOpen(b["local"]) /\ localExclusive(f), Rejected("local_exclusive_model_breaker_open")),
                      Rule(IsOpen(b["local"]), tryClusterLocked(f, b, Decision("cloud", "circuit_breaker_open"))),
                      Rule(~ f.allowed, Decision("local", "cloud_models_allowlist_miss"))>>
           IN  /\ p \in Seq(RuleType)
               /\ Matches(p) => Owed(f, b, FirstMatch(p))
               /\ ~ Matches(p) => ~ IsOpen(b["local"]) /\ f.allowed
<1> USE DecisionTyped, HelperTypes, RuleTyped, FactsBoolean
<1> DEFINE u == Rejected("local_exclusive_model_breaker_open")
           v == tryClusterLocked(f, b, Decision("cloud", "circuit_breaker_open"))
           w == Decision("local", "cloud_models_allowlist_miss")
           x == Rule(IsOpen(b["local"]) /\ localExclusive(f), u)
           y == Rule(IsOpen(b["local"]), v)
           z == Rule(~ f.allowed, w)
           p == <<x, y, z>>
<1>1. u \in DecisionType /\ u.backend = "reject"
  BY DEF Rejected, Reasons
<1>2. v \in DecisionType /\ v.backend \in {"cluster", "cloud"}
  BY DEF Reasons, BackendNames
<1>3. w \in DecisionType /\ w.backend = "local"
  BY DEF Reasons, BackendNames
<1> HIDE DEF u, v, w
<1>4. IsOpen(b["local"]) \in BOOLEAN /\ localExclusive(f) \in BOOLEAN
  BY DEF IsOpen, localExclusive
<1>5. x \in RuleType /\ x.when = (IsOpen(b["local"]) /\ localExclusive(f)) /\ x.then = u
  BY <1>1, <1>4
<1>6. y \in RuleType /\ y.when = IsOpen(b["local"]) /\ y.then = v
  BY <1>2, <1>4
<1>7. z \in RuleType /\ z.when = ~ f.allowed /\ z.then = w
  BY <1>3
<1> HIDE DEF x, y, z
<1>8. p \in Seq(RuleType) /\ Len(p) = 3 /\ p[1] = x /\ p[2] = y /\ p[3] = z
  BY <1>5, <1>6, <1>7
<1> HIDE DEF p
<1>9. ASSUME Matches(p)
      PROVE  Owed(f, b, FirstMatch(p))
  <2>1. PICK i \in 1..3 : p[i].when /\ FirstMatch(p) = p[i].then /\ \A j \in 1..3 : p[j].when => i <= j
    BY <1>8, <1>9, FirstRule
  <2>2. CASE i = 1
    BY <1>1, <1>5, <1>8, <2>1, <2>2 DEF Owed
  <2>3. CASE i = 2
    <3>1. ~ x.when
      BY <1>8, <2>1, <2>3
    <3> QED BY <1>2, <1>5, <1>6, <1>8, <2>1, <2>3, <3>1 DEF Owed
  <2>4. CASE i = 3
    BY <1>3, <1>7, <1>8, <2>1, <2>4 DEF Owed
  <2> QED BY <2>1, <2>2, <2>3, <2>4
<1>10. ~ Matches(p) => ~ IsOpen(b["local"]) /\ f.allowed
  <2>1. ~ Matches(p) => ~ y.when /\ ~ z.when
    BY <1>8 DEF Matches
  <2> QED BY <1>4, <1>6, <1>7, <2>1
<1> QED BY <1>8, <1>9, <1>10 DEF p, x, y, z, u, v, w

\* P0.2 and P0.25: local-exclusive models, high availability and affinity.
LEMMA PlacementTable ==
    ASSUME NEW f \in Inputs, NEW b
    PROVE  LET p == <<Rule(localExclusive(f), Decision("local", "local_exclusive_model")),
                      Rule(tryLocalClusterHALocked(f, b),
                           [Decision("cluster", "ha_routing") EXCEPT !.asked = {"cluster"}]),
                      Rule(f.affinity = "local" /\ f.ready /\ ~ IsOpen(b["local"]),
                           Decision("local", "session_affinity")),
                      Rule(f.affinity = "cloud", Decision("cloud", "session_affinity"))>>
           IN  /\ p \in Seq(RuleType)
               /\ Matches(p) /\ f.allowed => Owed(f, b, FirstMatch(p))
               /\ ~ Matches(p) => ~ localExclusive(f)
<1> USE DecisionTyped, AskedTyped, RuleTyped, FactsBoolean
<1> DEFINE t == Decision("local", "local_exclusive_model")
           u == [Decision("cluster", "ha_routing") EXCEPT !.asked = {"cluster"}]
           v == Decision("local", "session_affinity")
           w == Decision("cloud", "session_affinity")
           x1 == Rule(localExclusive(f), t)
           x2 == Rule(tryLocalClusterHALocked(f, b), u)
           x3 == Rule(f.affinity = "local" /\ f.ready /\ ~ IsOpen(b["local"]), v)
           x4 == Rule(f.affinity = "cloud", w)
           p == <<x1, x2, x3, x4>>
<1>1. t \in DecisionType /\ t.backend = "local" /\ v \in DecisionType /\ v.backend = "local"
  BY DEF Reasons, BackendNames
<1>2. u \in DecisionType /\ u.backend = "cluster" /\ w \in DecisionType /\ w.backend = "cloud"
  <2>1. "ha_routing" \in Reasons /\ "cluster" \in BackendNames
    BY DEF Reasons, BackendNames
  <2>2. u \in DecisionType /\ u.backend = "cluster"
    BY <2>1, AskedTyped
  <2>3. w \in DecisionType /\ w.backend = "cloud"
    BY DEF Reasons, BackendNames
  <2> QED BY <2>2, <2>3
<1> HIDE DEF t, u, v, w
<1>3. localExclusive(f) \in BOOLEAN /\ tryLocalClusterHALocked(f, b) \in BOOLEAN
  BY DEF localExclusive, tryLocalClusterHALocked
<1>4. x1 \in RuleType /\ x1.when = localExclusive(f) /\ x1.then = t
  BY <1>1, <1>3
<1>5. x2 \in RuleType /\ x2.then = u
  BY <1>2, <1>3
<1>6. x3 \in RuleType /\ x3.when = (f.affinity = "local" /\ f.ready /\ ~ IsOpen(b["local"])) /\ x3.then = v
  BY <1>1
<1>7. x4 \in RuleType /\ x4.then = w
  BY <1>2
<1> HIDE DEF x1, x2, x3, x4
<1>8. p \in Seq(RuleType) /\ Len(p) = 4 /\ p[1] = x1 /\ p[2] = x2 /\ p[3] = x3 /\ p[4] = x4
  BY <1>4, <1>5, <1>6, <1>7
<1> HIDE DEF p
<1>9. ASSUME Matches(p), f.allowed
      PROVE  Owed(f, b, FirstMatch(p))
  <2>1. PICK i \in 1..4 : p[i].when /\ FirstMatch(p) = p[i].then /\ \A j \in 1..4 : p[j].when => i <= j
    BY <1>8, <1>9, FirstRule
  <2>2. CASE i = 1
    <3>1. localExclusive(f) /\ FirstMatch(p).backend = "local"
      BY <1>1, <1>3, <1>4, <1>8, <2>1, <2>2
    <3> QED BY <1>9, <3>1 DEF Owed, localExclusive
  <2>3. CASE i # 1
    <3>1. ~ x1.when
      BY <1>8, <2>1, <2>3
    <3>2. ~ localExclusive(f)
      BY <1>3, <1>4, <3>1
    <3>3. CASE i = 2
      BY <1>2, <1>5, <1>8, <1>9, <2>1, <3>2, <3>3 DEF Owed
    <3>4. CASE i = 3
      <4>1. f.affinity = "local"
        BY <1>6, <1>8, <2>1, <3>4
      <4> QED BY <1>9, <3>2, <4>1 DEF Owed
    <3>5. CASE i = 4
      BY <1>2, <1>7, <1>8, <1>9, <2>1, <3>2, <3>5 DEF Owed
    <3> QED BY <2>1, <2>3, <3>3, <3>4, <3>5
  <2> QED BY <2>2, <2>3
<1>10. ~ Matches(p) => ~ localExclusive(f)
  <2>1. ~ Matches(p) => ~ x1.when
    BY <1>8 DEF Matches
  <2> QED BY <1>3, <1>4, <2>1
<1> QED BY <1>8, <1>9, <1>10 DEF p, x1, x2, x3, x4, t, u, v, w

\* P0.5 to P3 send a model local does not have to the cloud or to a node.
LEMMA HealthTable ==
    ASSUME NEW f \in Inputs, NEW b
    PROVE  /\ healthRules(f, b) \in Seq(RuleType)
           /\ Matches(healthRules(f, b)) /\ f.inLocalSet = "no" => FirstMatch(healthRules(f, b)).backend # "local"
<1> DEFINE d == Decision("cloud", f.load)
           e == Decision("cloud", "local_not_ready")
           dd == cloudOrFallbackLocked(f, b, d)
           ee == cloudOrFallbackLocked(f, b, e)
           dt == [dd EXCEPT !.trip = TRUE]
           overload == f.load \in {"memory_overload", "swap_thrashing"}
           x == Rule(overload, dt)
           y == Rule(f.load # "ok", dd)
           z == Rule(~ f.ready, ee)
           p == <<x, y, z>>
<1>1. ASSUME NEW c \in DecisionType, c.backend = "cloud"
      PROVE  /\ cloudOrFallbackLocked(f, b, c) \in DecisionType
             /\ f.inLocalSet = "no" => cloudOrFallbackLocked(f, b, c).backend # "local"
  <2> DEFINE g == cloudOrLocalLocked(f, b, c)
  <2>1. g \in DecisionType /\ (f.inLocalSet = "no" => g.backend = "cloud")
    BY <1>1, HelperTypes
  <2> HIDE DEF g
  <2>2. tryClusterLocked(f, b, g) \in DecisionType /\ tryClusterLocked(f, b, g).backend \in {"cluster", g.backend}
    BY <2>1, HelperTypes
  <2>3. cloudOrFallbackLocked(f, b, c) = tryClusterLocked(f, b, g)
    BY DEF cloudOrFallbackLocked, g
  <2> QED BY <2>1, <2>2, <2>3
<1>2. d \in DecisionType /\ d.backend = "cloud"
  BY DecisionTyped, FactsBoolean DEF Reasons, BackendNames
<1>3. e \in DecisionType /\ e.backend = "cloud"
  BY DecisionTyped DEF Reasons, BackendNames
<1> HIDE DEF d, e
<1>4. dd \in DecisionType /\ (f.inLocalSet = "no" => dd.backend # "local")
  BY <1>1, <1>2
<1>5. ee \in DecisionType /\ (f.inLocalSet = "no" => ee.backend # "local")
  BY <1>1, <1>3
<1> HIDE DEF dd, ee
<1>6. dt \in DecisionType /\ (f.inLocalSet = "no" => dt.backend # "local")
  BY <1>4, TripTyped
<1> HIDE DEF dt
<1>7. x \in RuleType /\ x.then = dt
  <2>1. overload \in BOOLEAN
    OBVIOUS
  <2> HIDE DEF overload
  <2> QED BY <1>6, <2>1, RuleTyped
<1>8. y \in RuleType /\ y.then = dd
  BY <1>4, RuleTyped
<1>9. z \in RuleType /\ z.then = ee
  BY <1>5, RuleTyped, FactsBoolean
<1> HIDE DEF x, y, z
<1>10. p \in Seq(RuleType) /\ Len(p) = 3 /\ p[1] = x /\ p[2] = y /\ p[3] = z
  BY <1>7, <1>8, <1>9
<1> HIDE DEF p
<1>11. ASSUME Matches(p), f.inLocalSet = "no"
       PROVE  FirstMatch(p).backend # "local"
  <2>1. PICK i \in 1..3 : FirstMatch(p) = p[i].then
    BY <1>10, <1>11, FirstRule
  <2> QED BY <1>4, <1>5, <1>6, <1>7, <1>8, <1>9, <1>10, <1>11, <2>1
<1>12. healthRules(f, b) = p
  BY DEF healthRules, p, x, y, z, overload, dt, dd, ee, d, e
<1> QED BY <1>10, <1>11, <1>12

\* P4 to P7 always have an answer; local gets a model it does not have only in
\* place of another or with an empty prompt.
LEMMA SizeTable ==
    ASSUME NEW f \in Inputs, NEW b
    PROVE  LET p == sizeRules(f, b)
           IN  /\ p \in Seq(RuleType) /\ Matches(p)
               /\ f.inLocalSet = "no" /\ FirstMatch(p).backend = "local" => f.larger \/ f.budget = "empty"
<1> USE DecisionTyped, HelperTypes, RuleTyped, FactsBoolean
<1> DEFINE d1 == Decision("local", "empty_prompt_local")
           d2 == cloudOrLocalLocked(f, b, Decision("cloud", "token_budget"))
           d3 == tryClusterLocked(f, b, Decision("cloud", "concurrent_limit"))
           d4 == Decision("local", "context_window_fallback")
           d5 == tryClusterLocked(f, b, Decision("cloud", "model_not_available_locally"))
           d6 == Decision("local", "local_priority")
<1>1. d1 \in DecisionType /\ d4 \in DecisionType /\ d6 \in DecisionType
  BY DEF Reasons, BackendNames
<1>2. d2 \in DecisionType /\ (f.inLocalSet = "no" => d2.backend = "cloud")
  BY DEF Reasons, BackendNames
<1>3. d3 \in DecisionType /\ d3.backend \in {"cluster", "cloud"}
  BY DEF Reasons, BackendNames
<1>4. d5 \in DecisionType /\ d5.backend \in {"cluster", "cloud"}
  BY DEF Reasons, BackendNames
<1> HIDE DEF d1, d2, d3, d4, d5, d6
<1> DEFINE x1 == Rule(f.budget = "empty", d1)
           large == f.budget \in {"missing", "exceeded", "ratio"}
           x2 == Rule(large, d2)
           x3 == Rule(f.full, d3)
           x4 == Rule(f.inLocalSet = "no" /\ f.larger, d4)
           x5 == Rule(f.inLocalSet = "no", d5)
           x6 == Rule(TRUE, d6)
           p == <<x1, x2, x3, x4, x5, x6>>
<1>5. x1 \in RuleType /\ x1.when = (f.budget = "empty")
  BY <1>1
<1>6. x2 \in RuleType /\ x2.then = d2
  <2>1. large \in BOOLEAN
    OBVIOUS
  <2> HIDE DEF large
  <2> QED BY <1>2, <2>1
<1>7. x3 \in RuleType /\ x3.then = d3
  BY <1>3
<1>8. x4 \in RuleType /\ x4.when = (f.inLocalSet = "no" /\ f.larger)
  BY <1>1
<1>9. x5 \in RuleType /\ x5.when = (f.inLocalSet = "no") /\ x5.then = d5
  BY <1>4
<1>10. x6 \in RuleType /\ x6.when
  BY <1>1
<1> HIDE DEF x1, x2, x3, x4, x5, x6
<1>11. /\ p \in Seq(RuleType) /\ Len(p) = 6
       /\ p[1] = x1 /\ p[2] = x2 /\ p[3] = x3 /\ p[4] = x4 /\ p[5] = x5 /\ p[6] = x6
  BY <1>5, <1>6, <1>7, <1>8, <1>9, <1>10
<1> HIDE DEF p
<1>12. Matches(p)
  BY <1>10, <1>11 DEF Matches
<1>13. ASSUME f.inLocalSet = "no", FirstMatch(p).backend = "local"
       PROVE  f.larger \/ f.budget = "empty"
  <2>1. PICK i \in 1..6 : p[i].when /\ FirstMatch(p) = p[i].then /\ \A j \in 1..6 : p[j].when => i <= j
    BY <1>11, <1>12, FirstRule
  <2>2. i # 6
    <3>1. p[5].when
      BY <1>9, <1>11, <1>13
    <3>2. i <= 5
      BY <2>1, <3>1
    <3> QED BY <3>2
  <2>3. i \notin {2, 3, 5}
    BY <1>2, <1>3, <1>4, <1>6, <1>7, <1>9, <1>11, <1>13, <2>1
  <2>4. i \in {1, 4}
    BY <2>1, <2>2, <2>3
  <2> QED BY <1>5, <1>8, <1>11, <2>1, <2>4
<1>14. sizeRules(f, b) = p
  BY DEF sizeRules, p, x1, x2, x3, x4, x5, x6, d1, d2, d3, d4, d5, d6
<1> QED BY <1>11, <1>12, <1>13, <1>14

\* A table that has an answer answers with a decision.
LEMMA AnswerTyped ==
    ASSUME NEW p \in Seq(RuleType), Matches(p)
    PROVE  FirstMatch(p) \in DecisionType
<1>1. PICK i \in 1..Len(p) : FirstMatch(p) = p[i].then
  BY FirstRule
<1>2. p[i] \in RuleType
  BY ElementOfSeq
<1> QED BY <1>1, <1>2 DEF RuleType

\* P0 to P0.25 for a plain request: an answer it is owed, or a model that local
\* does not own alone, in the allowlist.
LEMMA ModelTable ==
    ASSUME NEW f \in Inputs, NEW b
    PROVE  LET p == modelRules(f, b)
           IN  /\ p \in Seq(RuleType)
               /\ Plain(f) /\ Matches(p) => Owed(f, b, FirstMatch(p))
               /\ Plain(f) /\ ~ Matches(p) => ~ localExclusive(f) /\ f.allowed
<1> DEFINE o == <<Rule(IsOpen(b["local"]) /\ localExclusive(f), Rejected("local_exclusive_model_breaker_open")),
                  Rule(IsOpen(b["local"]), tryClusterLocked(f, b, Decision("cloud", "circuit_breaker_open"))),
                  Rule(~ f.allowed, Decision("local", "cloud_models_allowlist_miss"))>>
           s == modelsSupplyDecision(f, b)
           l == <<Rule(localExclusive(f), Decision("local", "local_exclusive_model")),
                  Rule(tryLocalClusterHALocked(f, b),
                       [Decision("cluster", "ha_routing") EXCEPT !.asked = {"cluster"}]),
                  Rule(f.affinity = "local" /\ f.ready /\ ~ IsOpen(b["local"]),
                       Decision("local", "session_affinity")),
                  Rule(f.affinity = "cloud", Decision("cloud", "session_affinity"))>>
           m == modelRules(f, b)
<1>1. /\ o \in Seq(RuleType)
      /\ Matches(o) => Owed(f, b, FirstMatch(o))
      /\ ~ Matches(o) => f.allowed
  BY OwnerTable
<1>2. s \in Seq(RuleType) /\ (Plain(f) => ~ Matches(s))
  BY ClaimTables
<1>3. /\ l \in Seq(RuleType)
      /\ Matches(l) /\ f.allowed => Owed(f, b, FirstMatch(l))
      /\ ~ Matches(l) => ~ localExclusive(f)
  BY PlacementTable
<1>4. m = (o \o s) \o l
  BY DEF modelRules
<1> HIDE DEF o, s, l, m
<1> DEFINE os == o \o s
<1>5. /\ os \in Seq(RuleType)
      /\ Matches(o) => Matches(os) /\ FirstMatch(os) = FirstMatch(o)
      /\ ~ Matches(o) /\ ~ Matches(s) => ~ Matches(os)
  BY <1>1, <1>2, FirstOfTwo
<1> HIDE DEF os
<1>6. /\ os \o l \in Seq(RuleType)
      /\ Matches(os) => Matches(os \o l) /\ FirstMatch(os \o l) = FirstMatch(os)
      /\ ~ Matches(os) /\ Matches(l) => Matches(os \o l) /\ FirstMatch(os \o l) = FirstMatch(l)
      /\ ~ Matches(os) /\ ~ Matches(l) => ~ Matches(os \o l)
  BY <1>3, <1>5, FirstOfTwo
<1>7. m = os \o l
  BY <1>4 DEF os
<1>8. ASSUME Plain(f), Matches(m)
      PROVE  Owed(f, b, FirstMatch(m))
  <2>1. CASE Matches(o)
    BY <1>1, <1>5, <1>6, <1>7, <2>1
  <2>2. CASE ~ Matches(o)
    <3>1. f.allowed /\ ~ Matches(os)
      BY <1>1, <1>2, <1>5, <1>8, <2>2
    <3>2. Matches(l) /\ FirstMatch(m) = FirstMatch(l)
      BY <1>6, <1>7, <1>8, <3>1
    <3> QED BY <1>3, <3>1, <3>2
  <2> QED BY <2>1, <2>2
<1>9. Plain(f) /\ ~ Matches(m) => ~ localExclusive(f) /\ f.allowed
  BY <1>1, <1>2, <1>3, <1>5, <1>6, <1>7
<1> QED BY <1>6, <1>7, <1>8, <1>9 DEF m

\* The chain of a chat request, from the intent layer on.
ChatChain(f, b) == decideIntentLocked(f, b) \o modelRules(f, b) \o healthRules(f, b) \o sizeRules(f, b)

\* It always has an answer, and owes a plain request what Owed says.
LEMMA ChatTable ==
    ASSUME NEW f \in Inputs, NEW b
    PROVE  /\ ChatChain(f, b) \in Seq(RuleType) /\ Matches(ChatChain(f, b))
           /\ Plain(f) => Owed(f, b, FirstMatch(ChatChain(f, b)))
<1> DEFINE i == decideIntentLocked(f, b)
           m == modelRules(f, b)
           h == healthRules(f, b)
           z == sizeRules(f, b)
<1>1. i \in Seq(RuleType) /\ (Plain(f) => ~ Matches(i))
  BY ClaimTables
<1>2. /\ m \in Seq(RuleType)
      /\ Plain(f) /\ Matches(m) => Owed(f, b, FirstMatch(m))
      /\ Plain(f) /\ ~ Matches(m) => ~ localExclusive(f) /\ f.allowed
  BY ModelTable
<1>3. h \in Seq(RuleType) /\ (Matches(h) /\ f.inLocalSet = "no" => FirstMatch(h).backend # "local")
  BY HealthTable
<1>4. /\ z \in Seq(RuleType) /\ Matches(z)
      /\ f.inLocalSet = "no" /\ FirstMatch(z).backend = "local" => f.larger \/ f.budget = "empty"
  BY SizeTable
<1>5. ChatChain(f, b) = ((i \o m) \o h) \o z
  BY DEF ChatChain
<1> HIDE DEF i, m, h, z
<1> DEFINE im == i \o m
<1>6. /\ im \in Seq(RuleType)
      /\ ~ Matches(i) /\ Matches(m) => Matches(im) /\ FirstMatch(im) = FirstMatch(m)
      /\ ~ Matches(i) /\ ~ Matches(m) => ~ Matches(im)
  BY <1>1, <1>2, FirstOfTwo
<1>7. ChatChain(f, b) = (im \o h) \o z
  BY <1>5
<1> HIDE DEF im
<1> DEFINE imh == im \o h
<1>8. /\ imh \in Seq(RuleType)
      /\ Matches(im) => Matches(imh) /\ FirstMatch(imh) = FirstMatch(im)
      /\ ~ Matches(im) /\ Matches(h) => Matches(imh) /\ FirstMatch(imh) = FirstMatch(h)
      /\ ~ Matches(im) /\ ~ Matches(h) => ~ Matches(imh)
  BY <1>3, <1>6, FirstOfTwo
<1>9. ChatChain(f, b) = imh \o z
  BY <1>7
<1> HIDE DEF imh
<1>10. /\ imh \o z \in Seq(RuleType)
       /\ Matches(imh) => Matches(imh \o z) /\ FirstMatch(imh \o z) = FirstMatch(imh)
       /\ ~ Matches(imh) /\ Matches(z) => Matches(imh \o z) /\ FirstMatch(imh \o z) = FirstMatch(z)
  BY <1>4, <1>8, FirstOfTwo
<1>11. ASSUME Plain(f)
       PROVE  Owed(f, b, FirstMatch(ChatChain(f, b)))
  <2>1. CASE Matches(m)
    BY <1>1, <1>2, <1>6, <1>8, <1>9, <1>10, <1>11, <2>1
  <2>2. CASE ~ Matches(m)
    <3>1. ~ localExclusive(f) /\ f.allowed /\ ~ Matches(im)
      BY <1>1, <1>2, <1>6, <1>11, <2>2
    <3>2. CASE Matches(h)
      <4>1. FirstMatch(ChatChain(f, b)) = FirstMatch(h)
        BY <1>8, <1>9, <1>10, <3>1, <3>2
      <4> QED BY <1>3, <3>1, <3>2, <4>1 DEF Owed
    <3>3. CASE ~ Matches(h)
      <4>1. FirstMatch(ChatChain(f, b)) = FirstMatch(z)
        BY <1>4, <1>8, <1>9, <1>10, <3>1, <3>3
      <4> QED BY <1>4, <3>1, <4>1 DEF Owed
    <3> QED BY <3>2, <3>3
  <2> QED BY <2>1, <2>2
<1> QED BY <1>4, <1>9, <1>10, <1>11

\* decideLocked returns a decision for every request, whatever the breakers, and
\* owes a plain one what Owed says.
LEMMA ChainDecides ==
    ASSUME NEW f \in Inputs, NEW b
    PROVE  /\ decideLocked(f, b) \in DecisionType
           /\ Plain(f) => Owed(f, b, decideLocked(f, b))
<1> DEFINE n == modeRules(f, b)
           c == CASE f.type = "embedding" -> decideEmbeddingLocked(f, b)
                  [] f.type = "rerank" -> decideRerankLocked(f, b)
                  [] f.type = "chat" -> ChatChain(f, b)
<1>1. n \in Seq(RuleType) /\ (Plain(f) => ~ Matches(n))
  BY ShortTables, ClaimTables
<1>2. c \in Seq(RuleType) /\ Matches(c)
  <2>1. CASE f.type = "embedding"
    BY <2>1, ShortTables
  <2>2. CASE f.type = "rerank"
    BY <2>2, ShortTables
  <2>3. CASE f.type = "chat"
    BY <2>3, ChatTable
  <2> QED BY <2>1, <2>2, <2>3, FactsBoolean
<1>3. Plain(f) => c = ChatChain(f, b)
  BY DEF Plain
<1>4. decideLocked(f, b) = FirstMatch(n \o c)
  BY DEF decideLocked, ChatChain
<1> HIDE DEF n, c
<1>5. /\ n \o c \in Seq(RuleType) /\ Matches(n \o c)
      /\ ~ Matches(n) => FirstMatch(n \o c) = FirstMatch(c)
  BY <1>1, <1>2, FirstOfTwo
<1>6. decideLocked(f, b) \in DecisionType
  BY <1>4, <1>5, AnswerTyped
<1>7. Plain(f) => Owed(f, b, decideLocked(f, b))
  BY <1>1, <1>3, <1>4, <1>5, ChatTable
<1> QED BY <1>6, <1>7

----------------------------------------------------------------------------
(* The decisions of the requests under way. *)

\* What holds of a request that has a decision: the chain owed it, the tail kept
\* to it, and only an overflow diversion broke it.
Answered(f, d) ==
    Plain(f) =>
       /\ localExclusive(f) => d.backend \in {"local", "reject"} \/ d.reason = "overflow_cooldown"
       /\ f.inLocalSet = "no" /\ d.backend = "local" =>
             f.larger \/ f.budget = "empty" \/ f.affinity = "local" \/ ~ f.allowed

\* The inductive invariant of the routes, next to EInv.
RInv ==
    /\ facts \in [Requests -> Inputs]
    /\ decision \in [Requests -> Decisions]
    /\ reload \in {"idle", "swap", "warmup", "reset"}
    /\ up \in [Fallible -> BOOLEAN]
    /\ \A r \in Requests : pc[r] = "idle" => decision[r].backend = "none"
    /\ \A r \in Requests : pc[r] # "idle" => Answered(facts[r], decision[r])

\* The handler sees the backend and the rule of a decision.
LEMMA VerdictTyped ==
    ASSUME NEW d \in DecisionType
    PROVE  Verdict(d) \in Decisions /\ Verdict(d).backend = d.backend /\ Verdict(d).reason = d.reason
BY DEF Verdict, Decisions, DecisionType

\* No decision is one of the values of the variable.
LEMMA NoneTyped == NoDecision \in Decisions /\ NoDecision.backend = "none" /\ NoFacts \in Inputs
<1>1. NoDecision \in Decisions /\ NoDecision.backend = "none"
  BY DEF NoDecision, Verdict, Decision, Decisions
<1>2. NoFacts \in Inputs
  BY InputsAssumption DEF NoFacts
<1> QED BY <1>1, <1>2

\* A denied request is refused if its model is local's alone and leaves local.
LEMMA DeniedTyped ==
    ASSUME RInv, NEW r \in Requests
    PROVE  /\ Denied(r) \in DecisionType /\ Denied(r).backend # "local"
           /\ localExclusive(facts[r]) => Denied(r).backend = "reject"
<1>1. CASE localExclusive(facts[r])
  <2>1. Denied(r) = Decision("reject", "local_exclusive_model_breaker_open")
    BY <1>1 DEF Denied, Rejected
  <2> QED BY <2>1, DecisionTyped DEF Reasons
<1>2. CASE ~ localExclusive(facts[r])
  <2> DEFINE d == Decision("cloud", "half_open_probe_busy")
  <2>1. d \in DecisionType /\ d.backend = "cloud"
    BY DecisionTyped DEF Reasons, BackendNames
  <2>2. Denied(r) = tryClusterLocked(facts[r], breakers, d)
    BY <1>2 DEF Denied
  <2> HIDE DEF d
  <2> QED BY <1>2, <2>1, <2>2, HelperTypes
<1> QED BY <1>1, <1>2

\* One request gets a decision of its own; the others keep theirs.
LEMMA OneRequest ==
    ASSUME EInv, RInv, NEW r \in Requests, NEW q \in {"idle", "decided", "tail", "routed"},
           NEW f \in Inputs, NEW d \in Decisions,
           pc' = [pc EXCEPT ![r] = q], facts' = [facts EXCEPT ![r] = f],
           decision' = [decision EXCEPT ![r] = d], UNCHANGED <<reload, up>>,
           q = "idle" => d.backend = "none", q # "idle" => Answered(f, d)
    PROVE  RInv'
<1>1. facts' \in [Requests -> Inputs] /\ decision' \in [Requests -> Decisions]
  BY DEF RInv
<1>2. reload' \in {"idle", "swap", "warmup", "reset"} /\ up' \in [Fallible -> BOOLEAN]
  BY DEF RInv
<1>3. ASSUME NEW s \in Requests
      PROVE  /\ pc'[s] = "idle" => decision'[s].backend = "none"
             /\ pc'[s] # "idle" => Answered(facts'[s], decision'[s])
  <2>1. CASE s = r
    <3>1. pc'[s] = q /\ facts'[s] = f /\ decision'[s] = d
      BY <2>1 DEF EInv, RInv
    <3> QED BY <3>1
  <2>2. CASE s # r
    <3>1. pc'[s] = pc[s] /\ facts'[s] = facts[s] /\ decision'[s] = decision[s]
      BY <2>2 DEF EInv, RInv
    <3> QED BY <3>1 DEF RInv
  <2> QED BY <2>1, <2>2
<1>4. (\A s \in Requests : pc[s] # "idle" => Answered(facts[s], decision[s]))'
  BY <1>3
<1> QED BY <1>1, <1>2, <1>3, <1>4 DEF RInv

\* A new engine has decided nothing.
LEMMA RInvInit == Init => RInv
BY NoneTyped DEF Init, RInv, Fallible

\* Every step keeps the routes.
LEMMA RInvStep == EInv /\ RInv /\ [Next]_vars => RInv'
<1> SUFFICES ASSUME EInv, RInv, [Next]_vars PROVE RInv'
  OBVIOUS
<1>1. ASSUME UNCHANGED <<pc, facts, decision, reload, up>>
      PROVE  RInv'
  BY <1>1 DEF RInv, Answered
<1>2. CASE UNCHANGED vars
  BY <1>1, <1>2 DEF vars
<1>3. ASSUME NEW r \in Requests, NEW f \in Inputs, DecideChain(r, f)
      PROVE  RInv'
  <2> DEFINE d == decideLocked(f, breakers)
             q == IF d.trip THEN "decided" ELSE "tail"
  <2>1. d \in DecisionType /\ (Plain(f) => Owed(f, breakers, d))
    BY ChainDecides
  <2>2. /\ pc' = [pc EXCEPT ![r] = q] /\ facts' = [facts EXCEPT ![r] = f]
        /\ decision' = [decision EXCEPT ![r] = Verdict(d)] /\ UNCHANGED <<reload, up>>
    BY <1>3 DEF DecideChain
  <2>3. q \in {"idle", "decided", "tail", "routed"} /\ q # "idle"
    OBVIOUS
  <2> HIDE DEF d, q
  <2>4. Verdict(d) \in Decisions /\ Verdict(d).backend = d.backend
    BY <2>1, VerdictTyped
  <2>5. Answered(f, Verdict(d))
    BY <2>1, <2>4 DEF Answered, Owed
  <2> QED BY <2>2, <2>3, <2>4, <2>5, OneRequest
<1>4. ASSUME NEW r \in Requests, ApplyTrips(r)
      PROVE  RInv'
  <2>1. /\ facts' = [facts EXCEPT ![r] = facts[r]] /\ decision' = [decision EXCEPT ![r] = decision[r]]
        /\ pc' = [pc EXCEPT ![r] = "tail"] /\ UNCHANGED <<reload, up>> /\ pc[r] # "idle"
    BY <1>4 DEF ApplyTrips, RInv
  <2>2. facts[r] \in Inputs /\ decision[r] \in Decisions /\ Answered(facts[r], decision[r])
    BY <2>1 DEF RInv
  <2> QED BY <2>1, <2>2, OneRequest
<1>5. ASSUME NEW r \in Requests, DecideTail(r)
      PROVE  RInv'
  <2>1. /\ facts' = [facts EXCEPT ![r] = facts[r]] /\ pc' = [pc EXCEPT ![r] = "routed"]
        /\ UNCHANGED <<reload, up>> /\ pc[r] # "idle"
    BY <1>5 DEF DecideTail, RInv
  <2>2. facts[r] \in Inputs /\ decision[r] \in Decisions /\ Answered(facts[r], decision[r])
    BY <2>1 DEF RInv
  <2>3. CASE decision' = decision
    <3>1. decision' = [decision EXCEPT ![r] = decision[r]]
      BY <2>3 DEF RInv
    <3> QED BY <2>1, <2>2, <3>1, OneRequest
  <2>4. CASE decision' = [decision EXCEPT ![r] = Verdict(Denied(r))]
    <3> DEFINE d == Denied(r)
    <3>1. /\ d \in DecisionType /\ d.backend # "local"
          /\ localExclusive(facts[r]) => d.backend = "reject"
      BY DeniedTyped
    <3>2. decision' = [decision EXCEPT ![r] = Verdict(d)]
      BY <2>4
    <3> HIDE DEF d
    <3>3. Verdict(d) \in Decisions /\ Verdict(d).backend = d.backend
      BY <3>1, VerdictTyped
    <3>4. Answered(facts[r], Verdict(d))
      BY <3>1, <3>3 DEF Answered
    <3> QED BY <2>1, <2>2, <3>2, <3>3, <3>4, OneRequest
  <2> QED BY <1>5, <2>3, <2>4 DEF DecideTail
<1>6. ASSUME NEW r \in Requests, EndUnrecorded(r) \/ \E success \in BOOLEAN : recordOutcome(r, success)
      PROVE  RInv'
  <2>1. Finish(r) /\ UNCHANGED <<reload, up>>
    BY <1>6 DEF EndUnrecorded, recordOutcome
  <2> QED BY <2>1, NoneTyped, OneRequest DEF Finish
<1>7. ASSUME NEW r \in Requests, CooldownDivert(r)
      PROVE  RInv'
  <2> DEFINE d == Decision("cloud", "overflow_cooldown")
  <2>1. d \in DecisionType /\ d.backend = "cloud" /\ d.reason = "overflow_cooldown"
    BY DecisionTyped DEF Decision, Reasons, BackendNames
  <2>2. /\ facts' = [facts EXCEPT ![r] = facts[r]] /\ pc' = [pc EXCEPT ![r] = "routed"]
        /\ decision' = [decision EXCEPT ![r] = Verdict(d)] /\ UNCHANGED <<reload, up>>
    BY <1>7 DEF CooldownDivert, RInv, EInv
  <2> HIDE DEF d
  <2>3. Verdict(d) \in Decisions /\ Verdict(d).backend = "cloud" /\ Verdict(d).reason = "overflow_cooldown"
    BY <2>1, VerdictTyped
  <2>4. facts[r] \in Inputs /\ Answered(facts[r], Verdict(d))
    BY <2>3 DEF RInv, Answered
  <2> QED BY <2>2, <2>3, <2>4, OneRequest
<1>8. ASSUME \/ \E c \in BreakerConfigs : ReloadDrain(c)
             \/ ReloadSwap \/ ReloadCheck \/ ReloadReset
      PROVE  RInv'
  <2>1. UNCHANGED <<pc, facts, decision, up>> /\ reload' \in {"idle", "swap", "warmup", "reset"}
    BY <1>8 DEF ReloadDrain, ReloadSwap, ReloadCheck, ReloadReset
  <2> QED BY <2>1 DEF RInv, Answered
<1>9. CASE PublishBreakerStates \/ Tick
  BY <1>1, <1>9 DEF PublishBreakerStates, Tick
<1>10. ASSUME NEW b \in Watched, BackendFlips(b)
       PROVE  RInv'
  <2>1. UNCHANGED <<pc, facts, decision, reload>> /\ up' = [up EXCEPT ![b] = ~ up[b]]
    BY <1>10 DEF BackendFlips
  <2>2. up' \in [Fallible -> BOOLEAN]
    BY <2>1 DEF RInv
  <2> QED BY <2>1, <2>2 DEF RInv, Answered
<1> QED
  BY <1>2, <1>3, <1>4, <1>5, <1>6, <1>7, <1>8, <1>9, <1>10 DEF Next

\* What Decide answers is typed, whatever arrives.
THEOREM RoutesInvariant == Spec => [](EInv /\ RInv)
<1>1. Init => EInv /\ RInv
  BY EInvInit, RInvInit
<1>2. (EInv /\ RInv) /\ [Next]_vars => (EInv /\ RInv)'
  BY EInvStep, RInvStep
<1> QED BY <1>1, <1>2, PTL DEF Spec

\* A plain request for a model that only local serves is never sent to the cloud
\* by Decide, even when the breaker trips between the chain and the tail (#429),
\* and no outcome reaches the shared cluster breaker.
THEOREM EngineIsSound == Spec => []EngineSound
<1>1. EInv /\ RInv => EngineSound
  <2> SUFFICES ASSUME EInv, RInv PROVE EngineSound
    OBVIOUS
  <2>1. TypeOK
    BY DEF EInv, RInv, TypeOK
  <2>2. ExclusiveNeverCloud
    BY DEF RInv, Answered, ExclusiveNeverCloud
  <2>3. ClusterBreakerUnused
    BY DEF EInv, ClusterBreakerUnused
  <2> QED BY <2>1, <2>2, <2>3 DEF EngineSound
<1> QED BY <1>1, RoutesInvariant, PTL

\* A plain request for a model local does not have is not sent to local, also when
\* the cloud breaker does not admit it (#394).
THEOREM UnservableStaysAway == Spec => []UnservableNeverLocal
<1>1. EInv /\ RInv => UnservableNeverLocal
  BY DEF RInv, Answered, UnservableNeverLocal
<1> QED BY <1>1, RoutesInvariant, PTL

\* A closed breaker neither counts as open nor denies.
LEMMA ClosedAdmits ==
    ASSUME NEW cb, Sound(cb), cb.state = "closed"
    PROVE  ~ IsOpen(cb) /\ Admitted(cb)
<1>1. State(cb).state = "closed"
  BY ClosedStays
<1> QED BY <1>1 DEF IsOpen, Admitted

\* While the local breaker is closed, only an overflow diversion sends a plain
\* request for a model outside routing.cloud_models to the cloud (#265).
THEOREM AllowlistHolds == Spec => AllowlistHeldWhileClosed
<1> DEFINE Kept == \A r \in Requests :
              decision[r].backend # "cloud" /\ decision'[r].backend = "cloud"
                /\ Plain(facts'[r]) /\ ~ facts'[r].allowed /\ breakers["local"].state = "closed" =>
                   decision'[r].reason = "overflow_cooldown"
<1>1. (EInv /\ RInv) /\ [Next]_vars => [Kept]_vars
  <2> SUFFICES ASSUME EInv, RInv, [Next]_vars, NEW r \in Requests,
                      decision[r].backend # "cloud", decision'[r].backend = "cloud",
                      Plain(facts'[r]), ~ facts'[r].allowed, breakers["local"].state = "closed"
               PROVE  decision'[r].reason = "overflow_cooldown"
    OBVIOUS
  <2>1. ~ IsOpen(breakers["local"]) /\ Admitted(breakers["local"])
    BY ClosedAdmits DEF EInv, BackendNames
  <2>2. decision'[r] # decision[r]
    OBVIOUS
  <2>3. ASSUME NEW s \in Requests, NEW f \in Inputs, DecideChain(s, f)
        PROVE  FALSE
    <3> DEFINE d == decideLocked(f, breakers)
    <3>1. d \in DecisionType /\ (Plain(f) => Owed(f, breakers, d))
      BY ChainDecides
    <3>2. facts' = [facts EXCEPT ![s] = f] /\ decision' = [decision EXCEPT ![s] = Verdict(d)]
      BY <2>3 DEF DecideChain
    <3> HIDE DEF d
    <3>3. s = r
      BY <2>2, <3>2 DEF RInv
    <3>4. facts'[r] = f /\ decision'[r] = Verdict(d)
      BY <3>2, <3>3 DEF RInv
    <3>5. Plain(f) /\ ~ f.allowed /\ d.backend = "cloud"
      BY <3>1, <3>4, VerdictTyped
    <3> QED BY <2>1, <3>1, <3>5 DEF Owed
  <2>4. ASSUME NEW s \in Requests, DecideTail(s)
        PROVE  FALSE
    BY <2>1, <2>2, <2>4 DEF DecideTail
  <2>5. ASSUME NEW s \in Requests, EndUnrecorded(s) \/ \E success \in BOOLEAN : recordOutcome(s, success)
        PROVE  FALSE
    <3>1. decision' = [decision EXCEPT ![s] = NoDecision]
      BY <2>5 DEF EndUnrecorded, recordOutcome, Finish
    <3>2. decision'[r] \in {decision[r], NoDecision}
      BY <3>1 DEF RInv
    <3> QED BY <2>2, <3>2, NoneTyped
  <2>6. ASSUME NEW s \in Requests, CooldownDivert(s)
        PROVE  decision'[r].reason = "overflow_cooldown"
    <3> DEFINE d == Verdict(Decision("cloud", "overflow_cooldown"))
    <3>1. d.reason = "overflow_cooldown"
      BY DEF Verdict, Decision
    <3>2. decision' = [decision EXCEPT ![s] = d]
      BY <2>6 DEF CooldownDivert
    <3> HIDE DEF d
    <3>3. decision'[r] \in {decision[r], d}
      BY <3>2 DEF RInv
    <3> QED BY <2>2, <3>1, <3>3
  <2> QED
    BY <2>2, <2>3, <2>4, <2>5, <2>6 DEF Next, vars, ApplyTrips, ReloadDrain, ReloadSwap, ReloadCheck,
       ReloadReset, PublishBreakerStates, Tick, BackendFlips
<1> QED BY <1>1, RoutesInvariant, PTL DEF Spec, AllowlistHeldWhileClosed
=============================================================================
