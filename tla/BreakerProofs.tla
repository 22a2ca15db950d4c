---------------------------- MODULE BreakerProofs ----------------------------
(***************************************************************************)
(* What each method of a circuit breaker preserves, for any breaker section. *)
(* The engine's backend breakers (EngineProofs) and the breakers of the      *)
(* cluster's nodes (ClusterProofs) both rest on these lemmas.                *)
(***************************************************************************)
EXTENDS Breaker, TLAPS

\* A closed breaker remembers nothing but failures below its threshold.
Clean(cb) ==
    cb.state = "closed" =>
        /\ cb.failureCount = 0 \/ cb.failureCount < cb.cfg.failureThreshold
        /\ cb.successCount = 0
        /\ ~ cb.probeInFlight

\* A reservation is over before the timeout of a trip that came after it is.
\* With timeout 0 the window is DefaultProbeWindow and this need not hold.
WindowEnds(cb) ==
    cb.cfg.timeout > 0 =>
        /\ cb.probeLeft <= cb.cfg.timeout
        /\ cb.state = "open" /\ cb.probeLeft > 0 => cb.probeLeft + cb.sinceFailure <= cb.cfg.timeout

Sound(cb) == cb \in CircuitBreaker /\ Clean(cb) /\ WindowEnds(cb)

\* From open to half-open: no success is carried over, and a probe is admitted.
FreshFrom(cb, next) ==
    cb.state = "open" /\ next.state = "half_open" =>
        /\ next.successCount = 0
        /\ cb.cfg.timeout > 0 => Admitted(next)

\* What every method but RecordSuccess does to a breaker.
Quiet(cb, next) ==
    /\ Sound(next)
    /\ cb.state # "closed" => next.state # "closed"
    /\ FreshFrom(cb, next)

\* A breaker section is in range.
LEMMA ConfigType ==
    ASSUME NEW c \in BreakerConfigs
    PROVE  /\ c \in [failureThreshold : Nat, successThreshold : Nat \ {0}, timeout : Nat]
           /\ c.failureThreshold \in Nat /\ c.successThreshold \in Nat \ {0} /\ c.timeout \in Nat
           /\ c.timeout < Horizon
BY BreakerAssumption

\* A breaker's fields are in range.
LEMMA FieldTypes ==
    ASSUME NEW cb \in CircuitBreaker
    PROVE  /\ cb.state \in BreakerStates /\ cb.cfg \in BreakerConfigs
           /\ cb.failureCount \in Nat /\ cb.successCount \in Nat
           /\ cb.sinceFailure \in 0..Horizon /\ cb.probeInFlight \in BOOLEAN /\ cb.probeLeft \in Nat
           /\ Horizon \in Nat
           /\ cb.cfg.failureThreshold \in Nat /\ cb.cfg.successThreshold \in Nat \ {0}
           /\ cb.cfg.timeout \in Nat /\ cb.cfg.timeout < Horizon
<1>1. cb.cfg \in BreakerConfigs
  BY DEF CircuitBreaker
<1> QED BY <1>1, ConfigType, BreakerAssumption DEF CircuitBreaker

\* Leaving a breaker alone is quiet.
LEMMA SameQuiet ==
    ASSUME NEW cb, Sound(cb)
    PROVE  Quiet(cb, cb)
BY DEF Quiet, FreshFrom

\* State is quiet, and leaves a breaker that is not open as it is.
LEMMA StateQuiet ==
    ASSUME NEW cb, Sound(cb)
    PROVE  Quiet(cb, State(cb)) /\ (cb.state # "open" => State(cb) = cb)
<1>1. CASE ~ TimedOut(cb)
  BY <1>1, SameQuiet DEF State
<1>2. CASE TimedOut(cb)
  <2> DEFINE next == [cb EXCEPT !.state = "half_open", !.successCount = 0]
  <2>1. State(cb) = next /\ cb.state = "open"
    BY <1>2 DEF State, TimedOut
  <2>2. next \in CircuitBreaker
    BY DEF Sound, CircuitBreaker, BreakerStates
  <2>3. /\ next.state = "half_open" /\ next.successCount = 0 /\ next.cfg = cb.cfg
        /\ next.probeLeft = cb.probeLeft /\ next.sinceFailure = cb.sinceFailure
    BY DEF Sound, CircuitBreaker
  <2> HIDE DEF next
  <2>4. cb.cfg.timeout > 0 => cb.probeLeft = 0
    BY <1>2, <2>1, FieldTypes DEF Sound, WindowEnds, TimedOut
  <2>5. Sound(next)
    BY <2>2, <2>3 DEF Sound, Clean, WindowEnds
  <2>6. FreshFrom(cb, next)
    BY <2>3, <2>4 DEF FreshFrom, Admitted
  <2> QED BY <2>1, <2>3, <2>5, <2>6 DEF Quiet
<1> QED BY <1>1, <1>2

\* Admit is quiet.
LEMMA AdmitQuiet ==
    ASSUME NEW cb, Sound(cb)
    PROVE  Quiet(cb, Admit(cb))
<1>1. CASE cb.state = "half_open" /\ Admitted(cb)
  <2> DEFINE next == [cb EXCEPT !.probeInFlight = TRUE, !.probeLeft = probeWindow(cb)]
  <2>1. Admit(cb) = next
    BY <1>1 DEF Admit
  <2>2. probeWindow(cb) \in Nat /\ (cb.cfg.timeout > 0 => probeWindow(cb) = cb.cfg.timeout)
    BY FieldTypes, BreakerAssumption DEF probeWindow, Sound
  <2>3. next \in CircuitBreaker
    BY <2>2 DEF Sound, CircuitBreaker
  <2>4. next.state = "half_open" /\ next.cfg = cb.cfg /\ next.probeLeft = probeWindow(cb)
    BY <1>1 DEF Sound, CircuitBreaker
  <2> HIDE DEF next
  <2>5. Sound(next)
    BY <2>2, <2>3, <2>4, FieldTypes DEF Sound, Clean, WindowEnds
  <2> QED BY <1>1, <2>1, <2>4, <2>5 DEF Quiet, FreshFrom
<1>2. CASE ~ (cb.state = "half_open" /\ Admitted(cb))
  BY <1>2, StateQuiet DEF Admit
<1> QED BY <1>1, <1>2

\* Time passing is quiet.
LEMMA AgeQuiet ==
    ASSUME NEW cb, Sound(cb)
    PROVE  Quiet(cb, Age(cb))
<1> DEFINE since == IF cb.sinceFailure < Horizon THEN cb.sinceFailure + 1 ELSE cb.sinceFailure
           left == IF cb.probeLeft > 0 THEN cb.probeLeft - 1 ELSE 0
           next == [cb EXCEPT !.sinceFailure = since, !.probeLeft = left]
<1>1. Age(cb) = next
  BY DEF Age
<1>2. since \in 0..Horizon /\ left \in Nat
  BY FieldTypes DEF Sound
<1>3. next \in CircuitBreaker
  BY <1>2 DEF Sound, CircuitBreaker
<1>4. /\ next.state = cb.state /\ next.cfg = cb.cfg /\ next.probeInFlight = cb.probeInFlight
      /\ next.failureCount = cb.failureCount /\ next.successCount = cb.successCount
      /\ next.sinceFailure = since /\ next.probeLeft = left
  BY DEF Sound, CircuitBreaker
<1> HIDE DEF next
<1>5. WindowEnds(next)
  BY <1>4, FieldTypes DEF Sound, WindowEnds
<1>6. Clean(next)
  BY <1>4 DEF Sound, Clean
<1> QED BY <1>1, <1>3, <1>4, <1>5, <1>6 DEF Quiet, FreshFrom, Sound

\* Trip is quiet.
LEMMA TripQuiet ==
    ASSUME NEW cb, Sound(cb)
    PROVE  Quiet(cb, Trip(cb))
<1>1. Trip(cb) \in CircuitBreaker
  <2>1. 0 \in 0..Horizon
    BY BreakerAssumption
  <2> QED BY <2>1 DEF Sound, Trip, CircuitBreaker, BreakerStates
<1>2. /\ Trip(cb).state = "open" /\ Trip(cb).sinceFailure = 0
      /\ Trip(cb).cfg = cb.cfg /\ Trip(cb).probeLeft = cb.probeLeft
  BY DEF Sound, Trip, CircuitBreaker
<1>3. WindowEnds(Trip(cb))
  BY <1>2, FieldTypes DEF Sound, WindowEnds
<1> QED BY <1>1, <1>2, <1>3 DEF Quiet, FreshFrom, Sound, Clean

\* The warm-up of a reload is quiet.
LEMMA ResetQuiet ==
    ASSUME NEW cb, Sound(cb)
    PROVE  Quiet(cb, ResetToHalfOpen(cb))
<1>1. ResetToHalfOpen(cb) \in CircuitBreaker
  BY DEF Sound, ResetToHalfOpen, CircuitBreaker, BreakerStates
<1>2. /\ ResetToHalfOpen(cb).state = "half_open" /\ ResetToHalfOpen(cb).successCount = 0
      /\ ~ ResetToHalfOpen(cb).probeInFlight /\ ResetToHalfOpen(cb).probeLeft = 0
      /\ ResetToHalfOpen(cb).cfg = cb.cfg
  BY DEF Sound, ResetToHalfOpen, CircuitBreaker
<1>3. WindowEnds(ResetToHalfOpen(cb))
  BY <1>2, FieldTypes DEF Sound, WindowEnds
<1> QED BY <1>1, <1>2, <1>3 DEF Quiet, FreshFrom, Sound, Clean, Admitted

\* A new breaker that inherits the snapshot of an old one is quiet: the reload
\* closes nothing (EI3).
LEMMA InheritQuiet ==
    ASSUME NEW cb, Sound(cb), NEW c \in BreakerConfigs
    PROVE  /\ Quiet(cb, InheritSnapshot(NewCircuitBreaker(c), Snapshot(cb)))
           /\ InheritSnapshot(NewCircuitBreaker(c), Snapshot(cb)).state = cb.state
<1> DEFINE new == NewCircuitBreaker(c)
           next == InheritSnapshot(new, Snapshot(cb))
<1>1. /\ Snapshot(cb).state = cb.state /\ Snapshot(cb).failureCount = cb.failureCount
      /\ Snapshot(cb).sinceFailure = cb.sinceFailure
  BY DEF Snapshot
<1>2. /\ new \in CircuitBreaker /\ new.state = "closed" /\ new.failureCount = 0
      /\ new.successCount = 0 /\ ~ new.probeInFlight /\ new.probeLeft = 0
  BY BreakerAssumption DEF NewCircuitBreaker, CircuitBreaker, BreakerStates
<1>3. c.timeout \in Nat /\ new.cfg = c
  BY ConfigType DEF NewCircuitBreaker
<1> HIDE DEF new
<1>4. CASE cb.state = "closed"
  <2>1. next = new
    BY <1>1, <1>4 DEF InheritSnapshot
  <2>2. Sound(new)
    BY <1>2, <1>3 DEF Sound, Clean, WindowEnds
  <2> QED BY <1>2, <1>4, <2>1, <2>2 DEF Quiet, FreshFrom, new
<1>5. CASE cb.state # "closed"
  <2>1. next = [new EXCEPT !.state = cb.state, !.failureCount = cb.failureCount,
                           !.sinceFailure = cb.sinceFailure]
    BY <1>1, <1>5 DEF InheritSnapshot
  <2>2. next \in CircuitBreaker
    BY <1>2, <2>1, FieldTypes DEF Sound, CircuitBreaker
  <2>3. next.state = cb.state /\ next.probeLeft = 0 /\ next.cfg = c
    BY <1>2, <1>3, <2>1 DEF CircuitBreaker
  <2>4. Sound(next)
    BY <1>3, <1>5, <2>2, <2>3 DEF Sound, Clean, WindowEnds
  <2> HIDE DEF next
  <2>5. Quiet(cb, next) /\ next.state = cb.state
    BY <1>5, <2>3, <2>4 DEF Quiet, FreshFrom
  <2> QED BY <2>5 DEF next, new
<1> QED BY <1>4, <1>5

\* RecordFailure closes nothing and half-opens nothing.
LEMMA FailureQuiet ==
    ASSUME NEW cb, Sound(cb)
    PROVE  /\ Quiet(cb, RecordFailure(cb))
           /\ cb.state = "open" => RecordFailure(cb).state = "open" /\ RecordFailure(cb).sinceFailure = 0
<1>0. 0 \in 0..Horizon /\ cb \in CircuitBreaker
  BY BreakerAssumption DEF Sound
<1>1. CASE cb.state = "closed"
  <2>1. CASE cb.cfg.failureThreshold = 0
    BY <1>1, <2>1, SameQuiet DEF RecordFailure
  <2>2. CASE cb.cfg.failureThreshold # 0 /\ cb.failureCount + 1 >= cb.cfg.failureThreshold
    <3> DEFINE next == [cb EXCEPT !.failureCount = @ + 1, !.state = "open", !.sinceFailure = 0]
    <3>1. RecordFailure(cb) = next
      BY <1>1, <2>2 DEF RecordFailure
    <3>2. next \in CircuitBreaker
      <4>1. cb.failureCount + 1 \in Nat
        BY <1>0, FieldTypes
      <4> QED BY <1>0, <4>1 DEF CircuitBreaker, BreakerStates
    <3>3. /\ next.state = "open" /\ next.sinceFailure = 0 /\ next.cfg = cb.cfg
          /\ next.probeLeft = cb.probeLeft
      BY <1>0 DEF CircuitBreaker
    <3> HIDE DEF next
    <3>4. WindowEnds(next)
      BY <3>3, FieldTypes DEF Sound, WindowEnds
    <3> QED BY <1>1, <3>1, <3>2, <3>3, <3>4 DEF Quiet, FreshFrom, Sound, Clean
  <2>3. CASE cb.cfg.failureThreshold # 0 /\ ~ (cb.failureCount + 1 >= cb.cfg.failureThreshold)
    <3> DEFINE next == [cb EXCEPT !.failureCount = @ + 1]
    <3>1. RecordFailure(cb) = next
      BY <1>1, <2>3 DEF RecordFailure
    <3>2. next \in CircuitBreaker
      <4>1. cb.failureCount + 1 \in Nat
        BY <1>0, FieldTypes
      <4> QED BY <1>0, <4>1 DEF CircuitBreaker
    <3>3. /\ next.state = cb.state /\ next.sinceFailure = cb.sinceFailure /\ next.cfg = cb.cfg
          /\ next.probeLeft = cb.probeLeft /\ next.probeInFlight = cb.probeInFlight
          /\ next.successCount = cb.successCount /\ next.failureCount = cb.failureCount + 1
      BY <1>0 DEF CircuitBreaker
    <3> HIDE DEF next
    <3>4. WindowEnds(next)
      BY <3>3 DEF Sound, WindowEnds
    <3>5. Clean(next)
      BY <2>3, <3>3, FieldTypes DEF Sound, Clean
    <3> QED BY <1>1, <3>1, <3>2, <3>3, <3>4, <3>5 DEF Quiet, FreshFrom, Sound
  <2> QED BY <2>1, <2>2, <2>3
<1>2. CASE cb.state = "half_open"
  <2> DEFINE next == [cb EXCEPT !.probeInFlight = FALSE, !.state = "open", !.sinceFailure = 0]
  <2>1. RecordFailure(cb) = next
    BY <1>2 DEF RecordFailure
  <2>2. next \in CircuitBreaker
    BY <1>0 DEF CircuitBreaker, BreakerStates
  <2>3. /\ next.state = "open" /\ next.sinceFailure = 0 /\ next.cfg = cb.cfg
        /\ next.probeLeft = cb.probeLeft
    BY <1>0 DEF CircuitBreaker
  <2> HIDE DEF next
  <2>4. WindowEnds(next)
    BY <2>3, FieldTypes DEF Sound, WindowEnds
  <2> QED BY <1>2, <2>1, <2>2, <2>3, <2>4 DEF Quiet, FreshFrom, Sound, Clean
<1>3. CASE cb.state = "open"
  <2> DEFINE next == [cb EXCEPT !.sinceFailure = 0]
  <2>1. RecordFailure(cb) = next
    BY <1>3 DEF RecordFailure
  <2>2. next \in CircuitBreaker
    BY <1>0 DEF CircuitBreaker
  <2>3. /\ next.state = "open" /\ next.sinceFailure = 0 /\ next.cfg = cb.cfg
        /\ next.probeLeft = cb.probeLeft
    BY <1>0, <1>3 DEF CircuitBreaker
  <2> HIDE DEF next
  <2>4. WindowEnds(next)
    BY <2>3, FieldTypes DEF Sound, WindowEnds
  <2> QED BY <1>3, <2>1, <2>2, <2>3, <2>4 DEF Quiet, FreshFrom, Sound, Clean
<1> QED BY <1>0, <1>1, <1>2, <1>3 DEF CircuitBreaker, BreakerStates

\* RecordSuccess closes a breaker only from half-open, and leaves it clean.
LEMMA SuccessSound ==
    ASSUME NEW cb, Sound(cb)
    PROVE  /\ Sound(RecordSuccess(cb))
           /\ cb.state = "open" => RecordSuccess(cb) = cb
<1>0. cb \in CircuitBreaker
  BY DEF Sound
<1>1. CASE cb.state = "open"
  BY <1>1 DEF RecordSuccess
<1>2. CASE cb.state = "closed"
  <2> DEFINE next == [cb EXCEPT !.failureCount = 0]
  <2>1. RecordSuccess(cb) = next
    BY <1>2 DEF RecordSuccess
  <2>2. next \in CircuitBreaker
    BY <1>0 DEF CircuitBreaker
  <2>3. /\ next.state = "closed" /\ next.failureCount = 0 /\ next.cfg = cb.cfg
        /\ next.successCount = cb.successCount /\ next.probeInFlight = cb.probeInFlight
        /\ next.probeLeft = cb.probeLeft
    BY <1>0, <1>2 DEF CircuitBreaker
  <2> HIDE DEF next
  <2> QED BY <1>2, <2>1, <2>2, <2>3 DEF Sound, Clean, WindowEnds
<1>3. CASE cb.state = "half_open" /\ cb.successCount + 1 >= cb.cfg.successThreshold
  <2> DEFINE next == [cb EXCEPT !.probeInFlight = FALSE, !.successCount = 0,
                                !.failureCount = 0, !.state = "closed"]
  <2>1. RecordSuccess(cb) = next
    BY <1>3 DEF RecordSuccess
  <2>2. next \in CircuitBreaker
    BY <1>0 DEF CircuitBreaker, BreakerStates
  <2>3. /\ next.state = "closed" /\ next.failureCount = 0 /\ next.cfg = cb.cfg
        /\ next.successCount = 0 /\ ~ next.probeInFlight /\ next.probeLeft = cb.probeLeft
    BY <1>0 DEF CircuitBreaker
  <2> HIDE DEF next
  <2> QED BY <1>3, <2>1, <2>2, <2>3 DEF Sound, Clean, WindowEnds
<1>4. CASE cb.state = "half_open" /\ ~ (cb.successCount + 1 >= cb.cfg.successThreshold)
  <2> DEFINE next == [cb EXCEPT !.probeInFlight = FALSE, !.successCount = @ + 1]
  <2>1. RecordSuccess(cb) = next
    BY <1>4 DEF RecordSuccess
  <2>2. next \in CircuitBreaker
    <3>1. cb.successCount + 1 \in Nat
      BY <1>0, FieldTypes
    <3> QED BY <1>0, <3>1 DEF CircuitBreaker
  <2>3. next.state = "half_open" /\ next.cfg = cb.cfg /\ next.probeLeft = cb.probeLeft
    BY <1>0, <1>4 DEF CircuitBreaker
  <2> HIDE DEF next
  <2> QED BY <1>4, <2>1, <2>2, <2>3 DEF Sound, Clean, WindowEnds
<1> QED BY <1>0, <1>1, <1>2, <1>3, <1>4 DEF CircuitBreaker, BreakerStates

\* An outcome, with the State read that follows it in recordOutcome.
LEMMA OutcomeSound ==
    ASSUME NEW cb, Sound(cb), NEW success \in BOOLEAN
    PROVE  LET next == State(IF success THEN RecordSuccess(cb) ELSE RecordFailure(cb))
           IN  /\ Sound(next)
               /\ FreshFrom(cb, next)
               /\ cb.state = "open" => next.state # "closed"
<1>0. cb.state \in BreakerStates
  BY FieldTypes DEF Sound
<1>1. CASE success = TRUE
  <2>1. Sound(RecordSuccess(cb))
    BY SuccessSound
  <2>2. Sound(State(RecordSuccess(cb)))
    BY <2>1, StateQuiet DEF Quiet
  <2>3. CASE cb.state = "open"
    BY <1>1, <2>2, <2>3, SuccessSound, StateQuiet DEF Quiet
  <2>4. CASE cb.state # "open"
    BY <1>1, <2>2, <2>4 DEF FreshFrom
  <2> QED BY <2>3, <2>4
<1>2. CASE success = FALSE
  <2>1. Sound(RecordFailure(cb))
    BY FailureQuiet DEF Quiet
  <2>2. Sound(State(RecordFailure(cb)))
    BY <2>1, StateQuiet DEF Quiet
  <2>3. CASE cb.state = "open"
    <3>1. RecordFailure(cb).state = "open" /\ RecordFailure(cb).sinceFailure = 0
      BY <2>3, FailureQuiet
    <3>2. ~ TimedOut(RecordFailure(cb))
      BY <2>1, <3>1, FieldTypes DEF TimedOut, Sound
    <3>3. State(RecordFailure(cb)) = RecordFailure(cb)
      BY <3>2 DEF State
    <3> QED BY <1>2, <2>2, <3>1, <3>3 DEF FreshFrom
  <2>4. CASE cb.state # "open"
    BY <1>2, <2>2, <2>4 DEF FreshFrom
  <2> QED BY <2>3, <2>4
<1> QED BY <1>1, <1>2

\* A method of a closed breaker that is read or admitted to leaves it closed.
LEMMA ClosedStays ==
    ASSUME NEW cb, Sound(cb), cb.state = "closed"
    PROVE  Admit(cb) = cb /\ State(cb) = cb /\ Age(cb).state = "closed"
<1>1. State(cb) = cb
  BY DEF State, TimedOut
<1>2. Admit(cb) = cb
  BY <1>1 DEF Admit
<1>3. Age(cb).state = "closed"
  BY DEF Age, Sound, CircuitBreaker
<1> QED BY <1>1, <1>2, <1>3

\* A new breaker is sound and closed.
LEMMA NewSound ==
    ASSUME NEW c \in BreakerConfigs
    PROVE  Sound(NewCircuitBreaker(c)) /\ NewCircuitBreaker(c).state = "closed"
<1> DEFINE new == NewCircuitBreaker(c)
<1>1. /\ new \in CircuitBreaker /\ new.state = "closed" /\ new.failureCount = 0
      /\ new.successCount = 0 /\ ~ new.probeInFlight /\ new.probeLeft = 0
  BY BreakerAssumption DEF NewCircuitBreaker, CircuitBreaker, BreakerStates
<1>2. c.timeout \in Nat /\ new.cfg = c
  BY ConfigType DEF NewCircuitBreaker
<1> HIDE DEF new
<1>3. Sound(new) /\ new.state = "closed"
  BY <1>1, <1>2 DEF Sound, Clean, WindowEnds
<1> QED BY <1>3 DEF new
=============================================================================
