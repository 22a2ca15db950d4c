------------------------------- MODULE Limits -------------------------------
(***************************************************************************)
(* The sliding-window rate limiter (internal/middleware/ratelimit.go) as   *)
(* the calls of one key meet it.  The windows live in a sync.Map under     *)
(* "<key>:rpm" and "<key>:tpm"; a call looks its window up, then locks it, *)
(* and the cleanup goroutine may take the window out of the map between    *)
(* the two.  Time is a counter that moves with every slot taken; the start *)
(* of the sliding minute is horizon, and it moves at any moment.           *)
(***************************************************************************)
EXTENDS Naturals, FiniteSets, FiniteSetsExt, Sums

CONSTANTS
  LimCalls,  \* the calls of the key
  RPM, TPM,  \* the limits of the key, TPM = 0 for none
  Tokens,    \* the estimates a call may have
  MaxGen     \* window objects made per map entry (a bound of the model)

\* A key with an rpm limit: without one AllowRPM lets every call pass.
ASSUME LimitsAssumption ==
  /\ IsFiniteSet(LimCalls) /\ RPM \in Nat \ {0} /\ TPM \in Nat /\ Tokens \subseteq Nat /\ MaxGen \in Nat

WindowNames == {"rpm", "tpm"}

VARIABLES
  lim,       \* each call: its stage, estimate, the window it loaded and its slot
  windows,   \* every window object made: the instants of its slots, with their tokens
  made,      \* how many were made under each entry
  current,   \* the object in the map under each entry, 0 for none
  fresh,     \* entries used within the idle time (lastAccess)
  doomed,    \* entries the cleanup found idle and is about to delete
  now, horizon,
  misdrops   \* slots given back that were another call's (a history variable)

limVars == <<lim, windows, made, current, fresh, doomed, now, horizon, misdrops>>

LimInit ==
  /\ lim = [c \in LimCalls |-> [stage |-> "new", tokens |-> 0, window |-> 0, at |-> 0, gen |-> 0]]
  /\ windows = [e \in WindowNames |-> [g \in 1..MaxGen |-> [t \in {} |-> 0]]]
  /\ made = [e \in WindowNames |-> 0] /\ current = [e \in WindowNames |-> 0]
  /\ fresh = {} /\ doomed = {}
  /\ now = 0 /\ horizon = 0 /\ misdrops = 0

LimitArrives(c) ==
  /\ lim[c].stage = "new"
  /\ \E t \in Tokens : lim' = [lim EXCEPT ![c].stage = "loadRPM", ![c].tokens = t]
  /\ UNCHANGED <<windows, made, current, fresh, doomed, now, horizon, misdrops>>

\* Load, or LoadOrStore of a new window.
getOrCreate(e) ==
  /\ current[e] = 0 => made[e] < MaxGen
  /\ made' = [made EXCEPT ![e] = IF current[e] = 0 THEN @ + 1 ELSE @]
  /\ current' = [current EXCEPT ![e] = IF @ = 0 THEN made[e] + 1 ELSE @]
  /\ fresh' = fresh \cup {e}

LoadWindow(c, e, stage, next) ==
  /\ lim[c].stage = stage
  /\ getOrCreate(e)
  /\ lim' = [lim EXCEPT ![c].stage = next, ![c].window = current'[e]]
  /\ UNCHANGED <<windows, doomed, now, horizon, misdrops>>

InWindow(w) == [t \in {u \in DOMAIN w : u > horizon} |-> w[t]]
TokensAt(w) == [t \in 1..now |-> IF t \in DOMAIN w THEN w[t] ELSE 0]
TotalTokens(w) == SumUpTo(TokensAt(w), now)
Slots(w) == Cardinality(DOMAIN w)

\* append(sw.timestamps, t) and append(sw.tokens, k).
WithSlot(w, t, k) == [u \in DOMAIN w \cup {t} |-> IF u = t THEN k ELSE w[u]]

Take(c, e, w) ==
  /\ now' = now + 1
  /\ windows' = [windows EXCEPT ![e][lim[c].window] = WithSlot(w, now + 1, lim[c].tokens)]

\* A key without a tpm limit, or an estimate of 0, skips the second window.
AfterRPM(c) == IF TPM > 0 /\ lim[c].tokens > 0 THEN "loadTPM" ELSE "remaining"

RPMFull(w) == Slots(w) >= RPM

AllowRPM(c) ==
  LET w == InWindow(windows["rpm"][lim[c].window]) IN
  /\ lim[c].stage = "rpm"
  /\ IF RPMFull(w)
     THEN /\ windows' = [windows EXCEPT !["rpm"][lim[c].window] = w]
          /\ lim' = [lim EXCEPT ![c].stage = "refused"]
          /\ UNCHANGED now
     ELSE /\ Take(c, "rpm", w)
          /\ lim' = [lim EXCEPT ![c].stage = AfterRPM(c), ![c].at = now + 1, ![c].gen = lim[c].window]
  /\ UNCHANGED <<made, current, fresh, doomed, horizon, misdrops>>

AllowTPM(c) ==
  LET w == InWindow(windows["tpm"][lim[c].window]) IN
  /\ lim[c].stage = "tpm"
  /\ IF TotalTokens(w) + lim[c].tokens > TPM
     THEN /\ windows' = [windows EXCEPT !["tpm"][lim[c].window] = w]
          /\ lim' = [lim EXCEPT ![c].stage = "rollback"]
          /\ UNCHANGED now
     ELSE /\ Take(c, "tpm", w)
          /\ lim' = [lim EXCEPT ![c].stage = "remaining"]
  /\ UNCHANGED <<made, current, fresh, doomed, horizon, misdrops>>

WithoutSlot(w, t) == [u \in DOMAIN w \ {t} |-> w[u]]

\* The newest slot of the window now in the map is given back, whoever took it.
RollbackRPM(c) ==
  LET g == current["rpm"]
      w == windows["rpm"][g]
      newest == Max(DOMAIN w) IN
  /\ lim[c].stage = "rollback"
  /\ lim' = [lim EXCEPT ![c].stage = "refused"]
  /\ IF g = 0 \/ DOMAIN w = {} THEN UNCHANGED <<windows, misdrops>>
     ELSE /\ windows' = [windows EXCEPT !["rpm"][g] = WithoutSlot(w, newest)]
          /\ misdrops' = IF newest = lim[c].at THEN misdrops ELSE misdrops + 1
  /\ UNCHANGED <<made, current, fresh, doomed, now, horizon>>

\* X-RateLimit-Remaining looks the window up once more.
RemainingRPM(c) == LoadWindow(c, "rpm", "remaining", "admitted")

\* cleanupIdle, for an entry: the idle test under the lock, then the Delete.
CleanupFinds(e) ==
  /\ current[e] # 0 /\ e \notin fresh /\ e \notin doomed
  /\ doomed' = doomed \cup {e}
  /\ UNCHANGED <<lim, windows, made, current, fresh, now, horizon, misdrops>>

CleanupDeletes(e) ==
  /\ e \in doomed
  /\ doomed' = doomed \ {e}
  /\ current' = [current EXCEPT ![e] = 0]
  /\ UNCHANGED <<lim, windows, made, fresh, now, horizon, misdrops>>

TimePasses ==
  /\ horizon < now
  /\ horizon' \in (horizon + 1)..now
  /\ UNCHANGED <<lim, windows, made, current, fresh, doomed, now, misdrops>>

\* Ten minutes without a call: every slot is out of its window, and no call is
\* between its lookup and its lock.
IdleTimePasses ==
  /\ fresh # {} /\ \A c \in LimCalls : lim[c].stage \in {"new", "loadRPM", "admitted", "refused"}
  /\ fresh' = {} /\ horizon' = now
  /\ UNCHANGED <<lim, windows, made, current, doomed, now, misdrops>>

LimNext ==
  \/ TimePasses \/ IdleTimePasses
  \/ \E e \in WindowNames : CleanupFinds(e) \/ CleanupDeletes(e)
  \/ \E c \in LimCalls :
       \/ LimitArrives(c)
       \/ LoadWindow(c, "rpm", "loadRPM", "rpm") \/ AllowRPM(c)
       \/ LoadWindow(c, "tpm", "loadTPM", "tpm") \/ AllowTPM(c)
       \/ RollbackRPM(c) \/ RemainingRPM(c)

LimSpec == LimInit /\ [][LimNext]_limVars

-----------------------------------------------------------------------------
(* Properties                                                               *)

\* The calls of the last minute that hold a slot of window g.
Holders(g) == {c \in LimCalls : lim[c].gen = g /\ lim[c].at > horizon /\ lim[c].stage # "refused"}

\* Within a minute a window lets RPM calls through, and one more for each time
\* a rollback gave back the slot of another call.
RPMHeld == \A g \in 1..MaxGen : Cardinality(Holders(g)) <= RPM + misdrops

\* The token window is never over its limit: it is not touched by rollbacks.
TPMHeld == \A g \in 1..MaxGen : TPM > 0 => TotalTokens(InWindow(windows["tpm"][g])) <= TPM

\* A window that is in the map counts every call of the minute that holds one
\* of its slots, but for the slots rollbacks gave back wrongly.
SlotsCounted ==
  \A g \in 1..MaxGen : Cardinality(Holders(g)) <= Slots(InWindow(windows["rpm"][g])) + misdrops

\* The rate limiter: its invariants, as one.
LimitsSound == RPMHeld /\ TPMHeld /\ SlotsCounted

\* Refuted: no more than RPM calls of a key are admitted in a minute.  The
\* rollback of another call's slot and a window deleted after a call has
\* loaded it each let one more through.
KeyHeldToRPM ==
  Cardinality({c \in LimCalls : lim[c].stage = "admitted" /\ lim[c].at > horizon}) <= RPM
=============================================================================
