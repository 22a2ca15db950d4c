------------------------------ MODULE Breaker ------------------------------
(***************************************************************************)
(* internal/router/circuit_breaker.go: one circuit breaker as a record, and *)
(* what each method leaves in it.  Every method body is one critical        *)
(* section of cb.mu, so a method is one operator from the breaker before to *)
(* the breaker after.  (State takes the lock twice with a re-check of the   *)
(* same condition, which amounts to one section.)                           *)
(*                                                                          *)
(* The two timestamps are kept as distances from now: sinceFailure is the   *)
(* time since lastFailureTime, and probeLeft the time until probeDeadline,  *)
(* 0 once it has passed.  Age lets one unit of time go by.  tripReason is   *)
(* only logged and is left out.                                             *)
(***************************************************************************)
EXTENDS Integers

CONSTANTS
    BreakerConfigs,      \* the routing.circuit_breaker sections in use
    DefaultProbeWindow,  \* the 30 s of probeWindow when timeout is 0
    Horizon              \* sinceFailure is not told apart beyond this

\* The ranges config validation accepts: failure_threshold 0 disables.
ASSUME BreakerAssumption ==
    /\ BreakerConfigs # {}
    /\ BreakerConfigs \subseteq
          [failureThreshold : Nat, successThreshold : Nat \ {0}, timeout : Nat]
    /\ DefaultProbeWindow \in Nat \ {0}
    /\ Horizon \in Nat
    /\ \A c \in BreakerConfigs : c.timeout < Horizon

BreakerStates == {"closed", "open", "half_open"}

CircuitBreaker ==
    [state         : BreakerStates,
     cfg           : BreakerConfigs,
     failureCount  : Nat,
     successCount  : Nat,
     sinceFailure  : 0..Horizon,
     probeInFlight : BOOLEAN,
     probeLeft     : Nat]

NewCircuitBreaker(c) ==
    [state         |-> "closed",
     cfg           |-> c,
     failureCount  |-> 0,
     successCount  |-> 0,
     sinceFailure  |-> Horizon,
     probeInFlight |-> FALSE,
     probeLeft     |-> 0]

Age(cb) ==
    [cb EXCEPT !.sinceFailure = IF @ < Horizon THEN @ + 1 ELSE @,
               !.probeLeft    = IF @ > 0 THEN @ - 1 ELSE 0]

----------------------------------------------------------------------------

TimedOut(cb) == cb.state = "open" /\ cb.sinceFailure > cb.cfg.timeout

\* Mutant: the successes of the previous half-open period still count.
MutantStateKeepsSuccesses(cb) ==
    IF TimedOut(cb) THEN [cb EXCEPT !.state = "half_open"] ELSE cb

\* Reading the state moves an open breaker to half-open once its timeout is over.
State(cb) ==
    IF TimedOut(cb)
    THEN [cb EXCEPT !.state = "half_open", !.successCount = 0]
    ELSE cb

IsOpen(cb) == State(cb).state = "open"

probeWindow(cb) == IF cb.cfg.timeout = 0 THEN DefaultProbeWindow ELSE cb.cfg.timeout

\* Mutant: a reservation never expires.
MutantReservationNeverExpires(cb) ==
    cb.state = "closed" \/ (cb.state = "half_open" /\ ~ cb.probeInFlight)

\* What Admit answers: open denies, half-open lets one reservation through.
Admitted(cb) ==
    \/ cb.state = "closed"
    \/ cb.state = "half_open" /\ ~ (cb.probeInFlight /\ cb.probeLeft > 0)

Admit(cb) ==
    IF cb.state = "half_open" /\ Admitted(cb)
    THEN [cb EXCEPT !.probeInFlight = TRUE, !.probeLeft = probeWindow(cb)]
    ELSE State(cb)

\* Mutant: failureCount survives the recovery.
MutantCloseKeepsFailures(cb) ==
    CASE cb.state = "half_open" ->
           IF cb.successCount + 1 >= cb.cfg.successThreshold
           THEN [cb EXCEPT !.probeInFlight = FALSE, !.successCount = 0, !.state = "closed"]
           ELSE [cb EXCEPT !.probeInFlight = FALSE, !.successCount = @ + 1]
      [] cb.state = "closed" -> [cb EXCEPT !.failureCount = 0]
      [] cb.state = "open" -> cb

RecordSuccess(cb) ==
    CASE cb.state = "half_open" ->
           IF cb.successCount + 1 >= cb.cfg.successThreshold
           THEN [cb EXCEPT !.probeInFlight = FALSE, !.successCount = 0,
                           !.failureCount = 0, !.state = "closed"]
           ELSE [cb EXCEPT !.probeInFlight = FALSE, !.successCount = @ + 1]
      [] cb.state = "closed" -> [cb EXCEPT !.failureCount = 0]
      [] cb.state = "open" -> cb

\* failure_threshold 0 never trips; a failure seen while open restarts the timeout.
RecordFailure(cb) ==
    CASE cb.state = "closed" ->
           IF cb.cfg.failureThreshold = 0 THEN cb
           ELSE IF cb.failureCount + 1 >= cb.cfg.failureThreshold
           THEN [cb EXCEPT !.failureCount = @ + 1, !.state = "open", !.sinceFailure = 0]
           ELSE [cb EXCEPT !.failureCount = @ + 1]
      [] cb.state = "half_open" ->
           [cb EXCEPT !.probeInFlight = FALSE, !.state = "open", !.sinceFailure = 0]
      [] cb.state = "open" -> [cb EXCEPT !.sinceFailure = 0]

Trip(cb) == [cb EXCEPT !.state = "open", !.sinceFailure = 0]

ResetToHalfOpen(cb) ==
    [cb EXCEPT !.state = "half_open", !.successCount = 0, !.failureCount = 0,
               !.probeInFlight = FALSE, !.probeLeft = 0]

----------------------------------------------------------------------------
(* Hot reload: a new breaker inherits what the old one's snapshot holds. *)

Snapshot(cb) ==
    [state |-> cb.state, failureCount |-> cb.failureCount, sinceFailure |-> cb.sinceFailure]

\* Mutant: the code before EI3, the new breaker starts closed.
MutantInheritNothing(cb, s) == cb

InheritSnapshot(cb, s) ==
    IF s.state = "closed" THEN cb
    ELSE [cb EXCEPT !.state = s.state, !.failureCount = s.failureCount,
                    !.sinceFailure = s.sinceFailure]

=============================================================================
