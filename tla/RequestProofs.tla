---------------------------- MODULE RequestProofs ----------------------------
(***************************************************************************)
(* Proofs about what a request meets before a backend, the middleware chain  *)
(* (Gate), the rate limiter (Limits) and the try quota (TryQuota), and what  *)
(* the composition of the parts owes to these invariants and to those of     *)
(* StoreProofs.  Each invariant is of one component; the steps of the others *)
(* leave its variables alone.                                                *)
(***************************************************************************)
EXTENDS MCParts, StoreProofs

-----------------------------------------------------------------------------
(* The middleware chain                                                      *)

Passed == {"oidc", "rbac", "scope", "injection", "budget", "limits", "run"}
Stages == {"new", "auth", "identity", "acquiring", "returned", "panicked", "ended"} \cup Passed
GateKeys == {"none", "master", "config", "backend", "stored", "rotated"}
GateTeams == {"none", "keyTeam", "idTeam", "default"}

\* A call in the chain.
GateCall ==
  [stage : Stages, cred : Credentials, poll : BOOLEAN, bearer : {"none", "oidc", "other"},
   method : {"none", "apikey", "adminJWT", "shellSession", "oidc"}, master : BOOLEAN, key : GateKeys, team : GateTeams,
   outer : [lease : BOOLEAN, tenant : GateTeams], inner : [lease : BOOLEAN, tenant : GateTeams], probe : BOOLEAN,
   granted : BOOLEAN, read : BOOLEAN, marked : BOOLEAN, copies : {0, 1}, entryKey : GateKeys \cup {"anonymous"},
   logged : BOOLEAN, rows : {0, 1}]

\* A body was copied once when it was read and not at all before; a marked one
\* was read; a row is written at the end, of a body that was read.
BodyOnce(r) ==
  /\ r.copies = (IF r.read THEN 1 ELSE 0) /\ (r.marked => r.read)
  /\ r.stage # "ended" => r.rows = 0
  /\ r.rows = 1 => r.read
\* The entry is named when the key is, and a strict gate lets granted calls by.
NamedAndGranted(r) ==
  /\ r.key # "none" => r.entryKey = r.key
  /\ r.stage \in {"new", "auth"} => r.key = "none"
  /\ IdStrict /\ r.stage \in Passed /\ NeedsIdentity(r) => r.granted
GateWell(r) == r \in GateCall /\ BodyOnce(r) /\ NamedAndGranted(r)

\* The probes of a half-open breaker.
Probe(c) == call[c].stage = "acquiring" /\ call[c].probe
BreakerInv ==
  /\ idBreaker \in [failures : 0 .. IdThreshold, state : {"closed", "open", "elapsed"}, probing : BOOLEAN]
  /\ idBreaker.state # "closed" => idBreaker.failures = IdThreshold
  /\ \A c \in Calls : Probe(c) => idBreaker.state = "elapsed" /\ idBreaker.probing
  /\ idBreaker.state = "elapsed" => \A c \in Calls : call[c].stage = "acquiring" => Probe(c)
  /\ \A c, d \in Calls : Probe(c) /\ Probe(d) => c = d
  /\ idBreaker.probing => \E c \in Calls : Probe(c)

\* The invariant of the chain.
GtInv ==
  /\ call = [c \in Calls |-> call[c]] /\ \A c \in Calls : GateWell(call[c])
  /\ leases \subseteq Calls /\ BreakerInv

\* A call moves on, and the breaker is left alone.
LEMMA CallMoves ==
    ASSUME GtInv, NEW c \in Calls, NEW x, call' = [call EXCEPT ![c] = x], GateWell(x),
           idBreaker' = idBreaker, leases' \subseteq Calls, call[c].stage # "acquiring", x.stage # "acquiring"
    PROVE  GtInv'
<1>1. call' = [d \in Calls |-> call'[d]] /\ call'[c] = x /\ \A d \in Calls : d # c => call'[d] = call[d]
  BY DEF GtInv
<1>2. \A d \in Calls : GateWell(call[d])'
  BY <1>1 DEF GtInv, GateWell, GateCall, BodyOnce, NamedAndGranted, NeedsIdentity
<1>3. ~ Probe(c) /\ \A d \in Calls : Probe(d)' <=> Probe(d)
  BY <1>1 DEF Probe
<1>4. BreakerInv'
  BY <1>1, <1>3 DEF BreakerInv, GtInv
<1> QED BY <1>1, <1>2, <1>4 DEF GtInv

\* The record after one gate.
LEMMA BodyRead ==
    ASSUME NEW r, GateWell(r)
    PROVE  /\ GateWell(captureRead(r)) /\ captureRead(r).stage = r.stage /\ captureRead(r).read
           /\ captureRead(r) = [r EXCEPT !.read = TRUE, !.copies = 1]
           /\ LET m == MarkRequestBodyCaptured(captureRead(r))
              IN  GateWell(m) /\ m.stage = r.stage /\ m.key = r.key /\ m.master = r.master /\ m.method = r.method
<1>1. captureRead(r) = [r EXCEPT !.read = TRUE, !.copies = 1]
  BY DEF captureRead, GateWell, BodyOnce, GateCall
<1>2. captureRead(r) \in GateCall
  BY <1>1 DEF GateWell, GateCall
<1>3. MarkRequestBodyCaptured(captureRead(r)) \in GateCall
  BY <1>2 DEF GateCall, MarkRequestBodyCaptured
<1> QED BY <1>1, <1>2, <1>3 DEF GateWell, GateCall, BodyOnce, NamedAndGranted, NeedsIdentity, MarkRequestBodyCaptured

\* A record that only changes its stage.
LEMMA StageMoves ==
    ASSUME NEW r, GateWell(r), r.stage \notin {"new", "auth", "ended"}, NEW s \in Stages \ {"new", "auth", "ended"},
           s \in Passed /\ IdStrict /\ NeedsIdentity(r) => r.granted
    PROVE  LET x == [r EXCEPT !.stage = s] IN GateWell(x) /\ x.stage = s
<1>1. [r EXCEPT !.stage = s] \in GateCall
  BY DEF GateWell, GateCall
<1> QED BY <1>1 DEF GateWell, GateCall, BodyOnce, NamedAndGranted, NeedsIdentity

\* Authentication fills in the call.
LEMMA AuthenticatedCall ==
    ASSUME NEW r \in GateCall, NEW name \in GateKeys, NEW team \in GateTeams
    PROVE  Authenticated(r, name, team) \in GateCall
<1> DEFINE i == [r.inner EXCEPT !.tenant = team]
<1>1. i \in [lease : BOOLEAN, tenant : GateTeams]
  BY DEF GateCall
<1>2. Authenticated(r, name, team) = [r EXCEPT !.method = "apikey", !.key = name, !.team = team, !.inner = i, !.entryKey = name]
  BY DEF Authenticated, GateCall
<1> QED BY <1>1, <1>2 DEF GateCall

\* The call arrives and is authenticated.
LEMMA AuthSteps ==
    ASSUME GtInv, NEW c \in Calls, Arrive(c) \/ APIKeyAuthWithStore(c)
    PROVE  GtInv'
<1> DEFINE r == call[c]
<1>1. GateWell(r) /\ idBreaker' = idBreaker /\ leases' \subseteq Calls
  BY DEF GtInv, Arrive, APIKeyAuthWithStore
<1>2. CASE Arrive(c)
  <2>1. PICK a \in Arrivals : call' = [call EXCEPT ![c] = [r EXCEPT !.stage = "auth", !.cred = a.cred, !.poll = a.poll,
                                                                     !.bearer = a.bearer]]
    BY <1>2 DEF Arrive, GtInv
  <2> DEFINE x == [r EXCEPT !.stage = "auth", !.cred = a.cred, !.poll = a.poll, !.bearer = a.bearer]
  <2>2. x \in GateCall
    BY <1>1, GateAssumption DEF GateWell, GateCall, Stages
  <2>3. r.stage = "new"
    BY <1>2 DEF Arrive
  <2>4. GateWell(x) /\ x.stage = "auth"
    BY <1>1, <2>2, <2>3 DEF GateWell, GateCall, BodyOnce, NamedAndGranted, NeedsIdentity, Passed
  <2> QED BY <1>1, <2>1, <2>3, <2>4, CallMoves
<1>3. CASE APIKeyAuthWithStore(c)
  <2>1. r.stage = "auth"
    BY <1>3 DEF APIKeyAuthWithStore
  <2>2. ASSUME NEW name \in GateKeys \ {"none"}, NEW team \in {"none", "keyTeam"}, NEW m \in BOOLEAN, NEW x,
               x = [Authenticated(r, name, team) EXCEPT !.master = m, !.stage = "identity"]
        PROVE  GateWell(x) /\ x.stage = "identity"
    <3>1. Authenticated(r, name, team) \in GateCall
      <4>1. r \in GateCall /\ team \in GateTeams /\ name \in GateKeys
        BY <1>1 DEF GateWell, GateTeams
      <4> QED BY <4>1, AuthenticatedCall
    <3>2. x \in GateCall
      BY <2>2, <3>1 DEF GateCall, Stages
    <3>3. x.key = name /\ x.entryKey = name /\ x.stage = "identity" /\ x.copies = r.copies /\ x.read = r.read
          /\ x.marked = r.marked /\ x.rows = r.rows
      BY <1>1, <2>2 DEF Authenticated, GateWell, GateCall
    <3> QED BY <1>1, <2>1, <3>2, <3>3 DEF GateWell, BodyOnce, NamedAndGranted, Passed
  <2>3. ASSUME NEW m \in {"none", "adminJWT", "shellSession", "apikey", "oidc"}, NEW s \in {"identity", "returned"},
               NEW x, x = [r EXCEPT !.method = m, !.stage = s]
        PROVE  GateWell(x) /\ x.stage = s
    <3>1. x \in GateCall
      BY <1>1, <2>3 DEF GateWell, GateCall, Stages
    <3> QED BY <1>1, <2>1, <2>3, <3>1 DEF GateWell, GateCall, BodyOnce, NamedAndGranted, Passed
  <2>4. r = [r EXCEPT !.method = r.method] /\ r.method \in {"none", "adminJWT", "shellSession", "apikey", "oidc"}
    BY <1>1 DEF GateWell, GateCall
  <2>5. \E x : call' = [call EXCEPT ![c] = x] /\ GateWell(x) /\ x.stage # "acquiring"
    <3>1. CASE r.cred = "unchecked" /\ Pass(c, r, "identity")
      <4>1. [r EXCEPT !.stage = "identity"] = [r EXCEPT !.method = r.method, !.stage = "identity"]
        BY <1>1 DEF GateWell, GateCall
      <4> QED BY <2>3, <2>4, <3>1, <4>1 DEF Pass
    <3>2. CASE r.cred \in {"adminJWT", "shellSession"} /\ Pass(c, [r EXCEPT !.method = r.cred], "identity")
      <4>1. [[r EXCEPT !.method = r.cred] EXCEPT !.stage = "identity"] = [r EXCEPT !.method = r.cred, !.stage = "identity"]
        OBVIOUS
      <4> QED BY <2>3, <3>2, <4>1 DEF Pass
    <3>3. CASE r.cred = "master" /\ Pass(c, [Authenticated(r, "master", "none") EXCEPT !.master = TRUE], "identity")
      BY <2>2, <3>3 DEF Pass, GateKeys
    <3>4. ASSUME NEW name \in GateKeys \ {"none"}, NEW team \in {"none", "keyTeam"}, Pass(c, Authenticated(r, name, team), "identity")
          PROVE  \E x : call' = [call EXCEPT ![c] = x] /\ GateWell(x) /\ x.stage # "acquiring"
      <4> DEFINE y == Authenticated(r, name, team)
      <4>1. y \in GateCall
        <5>1. r \in GateCall /\ team \in GateTeams /\ name \in GateKeys
          BY <1>1 DEF GateWell, GateTeams
        <5> QED BY <5>1, AuthenticatedCall
      <4>2. [y EXCEPT !.stage = "identity"] = [y EXCEPT !.master = y.master, !.stage = "identity"] /\ y.master \in BOOLEAN
        BY <4>1 DEF GateCall
      <4> QED BY <2>2, <3>4, <4>2 DEF Pass
    <3>5. CASE r.cred \in {"config", "backend"} /\ Pass(c, Authenticated(r, r.cred, "none"), "identity")
      BY <3>4, <3>5 DEF GateKeys
    <3>6. CASE TRUE \in lookupKeyByHash(r.cred) /\ Pass(c, Authenticated(r, r.cred, GetTeamByKey(r.cred)), "identity")
      <4>1. r.cred \in {"stored", "rotated"} /\ GetTeamByKey(r.cred) = "keyTeam"
        BY <3>6 DEF lookupKeyByHash, GetTeamByKey
      <4> QED BY <3>4, <3>6, <4>1 DEF GateKeys
    <3>7. CASE Refuse(c, r)
      <4>1. [r EXCEPT !.stage = "returned"] = [r EXCEPT !.method = r.method, !.stage = "returned"]
        BY <1>1 DEF GateWell, GateCall
      <4> QED BY <2>3, <2>4, <3>7, <4>1 DEF Refuse
    <3> QED BY <1>3, <3>1, <3>2, <3>3, <3>5, <3>6, <3>7 DEF APIKeyAuthWithStore
  <2> QED BY <1>1, <2>1, <2>5, CallMoves
<1> QED BY <1>2, <1>3

\* The next gate of the chain, or the end of it.
LEMMA PassOrRefuse ==
    ASSUME GtInv, NEW c \in Calls, NEW r, GateWell(r), r.stage \notin {"new", "auth", "acquiring", "ended"},
           r.stage = call[c].stage, IdStrict /\ NeedsIdentity(r) => r.granted,
           \E s \in Passed \cup {"returned"} : Pass(c, r, s), idBreaker' = idBreaker, leases' = leases
    PROVE  GtInv'
<1>1. PICK s \in Passed \cup {"returned"} : call' = [call EXCEPT ![c] = [r EXCEPT !.stage = s]]
  BY DEF Pass
<1>2. s \in Stages \ {"new", "auth", "ended", "acquiring"}
  BY DEF Stages, Passed
<1>3. GateWell([r EXCEPT !.stage = s]) /\ [r EXCEPT !.stage = s].stage = s
  BY <1>2, StageMoves
<1>4. leases' \subseteq Calls
  BY DEF GtInv
<1> QED BY <1>1, <1>2, <1>3, <1>4, CallMoves

\* A refusal only.
LEMMA JustRefused ==
    ASSUME GtInv, NEW c \in Calls, NEW r, GateWell(r), r.stage \notin {"new", "auth", "acquiring", "ended"},
           r.stage = call[c].stage, Refuse(c, r), idBreaker' = idBreaker, leases' = leases
    PROVE  GtInv'
<1>1. call' = [call EXCEPT ![c] = [r EXCEPT !.stage = "returned"]]
  BY DEF Refuse
<1>2. "returned" \in Stages \ {"new", "auth", "ended"} /\ "returned" \notin Passed
  BY DEF Stages, Passed
<1>3. GateWell([r EXCEPT !.stage = "returned"]) /\ [r EXCEPT !.stage = "returned"].stage = "returned"
  BY <1>2, StageMoves
<1>4. leases' \subseteq Calls
  BY DEF GtInv
<1> QED BY <1>1, <1>3, <1>4, CallMoves

\* The breaker is asked: a probe when the time of an open one is over.
LEMMA IdentityBeginsStep == ASSUME GtInv, NEW c \in Calls, IdentityBegins(c) PROVE GtInv'
<1> DEFINE r == captureRead(call[c])
           x == [r EXCEPT !.probe = idBreaker.state = "elapsed", !.stage = "acquiring"]
<1>1. GateWell(call[c]) /\ call[c].stage = "identity" /\ breakerAllows /\ leases' = leases
  BY DEF GtInv, IdentityBegins
<1>2. GateWell(r)
  BY <1>1, BodyRead
<1>3. call' = [call EXCEPT ![c] = x]
  BY DEF IdentityBegins, Pass
<1>4. idBreaker' = [idBreaker EXCEPT !.probing = idBreaker.probing \/ idBreaker.state = "elapsed"]
  BY DEF IdentityBegins
<1>5. x \in GateCall /\ x.stage = "acquiring" /\ x.probe = (idBreaker.state = "elapsed")
  BY <1>2 DEF GateWell, GateCall, Stages
<1>6. GateWell(x)
  <2>1. r.stage = "identity"
    BY <1>1, BodyRead
  <2>2. x.read = r.read /\ x.copies = r.copies /\ x.marked = r.marked /\ x.rows = r.rows /\ x.key = r.key
        /\ x.entryKey = r.entryKey
    BY <1>2 DEF GateWell, GateCall
  <2> QED BY <1>2, <1>5, <2>1, <2>2 DEF GateWell, BodyOnce, NamedAndGranted, Passed
<1> HIDE DEF x
<1>7. call' = [d \in Calls |-> call'[d]] /\ call'[c] = x /\ \A d \in Calls : d # c => call'[d] = call[d]
  BY <1>3 DEF GtInv
<1>8. \A d \in Calls : GateWell(call[d])'
  BY <1>6, <1>7 DEF GtInv, GateWell, GateCall, BodyOnce, NamedAndGranted, NeedsIdentity
<1>9. /\ \A d \in Calls : d # c => (Probe(d)' <=> Probe(d))
      /\ Probe(c)' <=> idBreaker.state = "elapsed"
      /\ ~ Probe(c)
  BY <1>1, <1>5, <1>7 DEF Probe
<1>10. BreakerInv
  BY DEF GtInv
<1>11. idBreaker.state = "elapsed" => ~ idBreaker.probing /\ \A d \in Calls : ~ Probe(d)
  BY <1>1, <1>10 DEF BreakerInv, breakerAllows
<1>12. idBreaker.state # "elapsed" => ~ idBreaker.probing
  BY <1>10 DEF BreakerInv
<1>13. BreakerInv'
  <2>1. idBreaker' \in [failures : 0 .. IdThreshold, state : {"closed", "open", "elapsed"}, probing : BOOLEAN]
        /\ idBreaker'.state = idBreaker.state /\ idBreaker'.failures = idBreaker.failures
        /\ idBreaker'.probing = (idBreaker.probing \/ idBreaker.state = "elapsed")
    BY <1>4, <1>10 DEF BreakerInv
  <2>2. CASE idBreaker.state = "elapsed"
    <3>1. \A d \in Calls : Probe(d)' <=> d = c
      BY <1>9, <1>11, <2>2
    <3>2. \A d \in Calls : call'[d].stage = "acquiring" => d = c
      BY <1>7, <1>10, <1>11, <2>2 DEF BreakerInv
    <3> QED BY <1>10, <2>1, <2>2, <3>1, <3>2 DEF BreakerInv
  <2>3. CASE idBreaker.state # "elapsed"
    BY <1>9, <1>10, <1>12, <2>1, <2>3 DEF BreakerInv
  <2> QED BY <2>2, <2>3
<1> QED BY <1>1, <1>7, <1>8, <1>13 DEF GtInv

\* The answer of the identity service, or none, ends the call that asked.
LEMMA AnswerStep ==
    ASSUME GtInv, NEW c \in Calls, NEW x, call[c].stage = "acquiring", call' = [call EXCEPT ![c] = x], GateWell(x),
           x.stage # "acquiring", recordSuccess \/ recordFailure, leases' \subseteq Calls
    PROVE  GtInv'
<1>1. call' = [d \in Calls |-> call'[d]] /\ call'[c] = x /\ \A d \in Calls : d # c => call'[d] = call[d]
  BY DEF GtInv
<1>2. \A d \in Calls : GateWell(call[d])'
  BY <1>1 DEF GtInv, GateWell, GateCall, BodyOnce, NamedAndGranted, NeedsIdentity
<1>3. BreakerInv
  BY DEF GtInv
<1>4. \A d \in Calls : ~ Probe(d)'
  BY <1>1, <1>3 DEF Probe, BreakerInv
<1>5. IdThreshold \in Nat
  BY GateAssumption
<1>6. idBreaker' \in [failures : 0 .. IdThreshold, state : {"closed", "open", "elapsed"}, probing : BOOLEAN]
      /\ ~ idBreaker'.probing
  <2>1. idBreaker.failures \in 0 .. IdThreshold /\ idBreaker.state \in {"closed", "open", "elapsed"}
    BY <1>3 DEF BreakerInv
  <2>2. CASE recordSuccess
    BY <1>5, <2>2 DEF recordSuccess
  <2>3. CASE recordFailure
    <3>1. PICK n \in 0 .. IdThreshold, t \in {"closed", "open", "elapsed"} : idBreaker' = [failures |-> n, state |-> t, probing |-> FALSE]
      <4> DEFINE n == idBreaker.failures + 1
                 f == IF n > IdThreshold THEN IdThreshold ELSE n
                 t == IF n >= IdThreshold THEN "open" ELSE idBreaker.state
      <4>1. f \in 0 .. IdThreshold /\ t \in {"closed", "open", "elapsed"}
        BY <1>5, <2>1
      <4>2. idBreaker' = [failures |-> f, state |-> t, probing |-> FALSE]
        BY <2>3 DEF recordFailure
      <4> QED BY <4>1, <4>2
    <3> QED BY <3>1
  <2> QED BY <2>2, <2>3
<1>7. idBreaker'.state # "elapsed"
  BY <1>3, <1>5 DEF recordSuccess, recordFailure, BreakerInv
<1>8. idBreaker'.state # "closed" => idBreaker'.failures = IdThreshold
  BY <1>3, <1>5 DEF recordSuccess, recordFailure, BreakerInv
<1>9. BreakerInv'
  BY <1>4, <1>6, <1>7, <1>8 DEF BreakerInv
<1> QED BY <1>1, <1>2, <1>9 DEF GtInv

\* The identity gate: skipped, refused, failed, denied or granted.
LEMMA IdentitySteps ==
    ASSUME GtInv, NEW c \in Calls,
           \/ IdentitySkipped(c) \/ IdentityBreakerOpen(c) \/ AuthorizeFails(c) \/ AuthorizeDenied(c) \/ AuthorizeGranted(c)
    PROVE  GtInv'
<1> DEFINE r == call[c]
<1>1. GateWell(r) /\ r \in GateCall /\ leases \subseteq Calls
  BY DEF GtInv, GateWell
<1>2. CASE IdentitySkipped(c)
  <2>1. "oidc" \in Passed \cup {"returned"}
    BY DEF Passed
  <2> QED BY <1>1, <1>2, <2>1, PassOrRefuse DEF IdentitySkipped
<1>3. CASE IdentityBreakerOpen(c)
  <2> DEFINE y == captureRead(r)
  <2>1. GateWell(y) /\ y.stage = "identity"
    BY <1>1, <1>3, BodyRead DEF IdentityBreakerOpen
  <2>2. CASE IdStrict
    BY <1>3, <2>1, <2>2, JustRefused DEF IdentityBreakerOpen, IdentityUnavailable
  <2>3. CASE ~ IdStrict
    <3>1. "oidc" \in Passed \cup {"returned"}
      BY DEF Passed
    <3> QED BY <1>3, <2>1, <2>3, <3>1, PassOrRefuse DEF IdentityBreakerOpen, IdentityUnavailable
  <2> QED BY <2>2, <2>3
<1>4. ASSUME NEW s \in {"oidc", "returned"}, NEW x, r.stage = "acquiring",
             x = [[r EXCEPT !.probe = FALSE] EXCEPT !.stage = s], s = "oidc" => ~ IdStrict
      PROVE  GateWell(x) /\ x.stage # "acquiring"
  <2>1. x \in GateCall
    BY <1>1, <1>4 DEF GateCall, Stages, Passed
  <2> QED BY <1>1, <1>4, <2>1 DEF GateWell, GateCall, BodyOnce, NamedAndGranted, NeedsIdentity, Passed
<1>5. CASE AuthorizeFails(c)
  <2>1. PICK s \in {"oidc", "returned"} : call' = [call EXCEPT ![c] = [[r EXCEPT !.probe = FALSE] EXCEPT !.stage = s]]
                                          /\ (s = "oidc" => ~ IdStrict)
    BY <1>5 DEF AuthorizeFails, IdentityUnavailable, Refuse, Pass
  <2>2. r.stage = "acquiring" /\ recordFailure /\ leases' \subseteq Calls
    BY <1>1, <1>5 DEF AuthorizeFails
  <2> QED BY <1>4, <2>1, <2>2, AnswerStep
<1>6. CASE AuthorizeDenied(c)
  <2>1. call' = [call EXCEPT ![c] = [[r EXCEPT !.probe = FALSE] EXCEPT !.stage = "returned"]]
    BY <1>6 DEF AuthorizeDenied, Refuse
  <2>2. r.stage = "acquiring" /\ recordSuccess /\ leases' \subseteq Calls
    BY <1>1, <1>6 DEF AuthorizeDenied
  <2> QED BY <1>4, <2>1, <2>2, AnswerStep
<1>7. CASE AuthorizeGranted(c)
  <2> DEFINE i == [lease |-> TRUE, tenant |-> "idTeam"]
             y == [r EXCEPT !.probe = FALSE, !.granted = TRUE, !.team = "idTeam", !.inner = i]
             x == [y EXCEPT !.stage = "oidc"]
  <2>1. call' = [call EXCEPT ![c] = x]
    BY <1>7 DEF AuthorizeGranted, Pass
  <2>2. r.stage = "acquiring" /\ recordSuccess /\ leases' \subseteq Calls
    BY <1>1, <1>7 DEF AuthorizeGranted
  <2>3. i \in [lease : BOOLEAN, tenant : GateTeams] /\ "oidc" \in Stages
    BY DEF Stages, Passed, GateTeams
  <2> HIDE DEF i
  <2>4. y \in GateCall
    BY <1>1, <2>3 DEF GateCall, GateTeams
  <2>5. /\ x \in GateCall /\ x.granted /\ x.stage = "oidc" /\ x.read = r.read /\ x.copies = r.copies /\ x.marked = r.marked
        /\ x.rows = r.rows /\ x.key = r.key /\ x.entryKey = r.entryKey
    <3>1. y.granted /\ y.read = r.read /\ y.copies = r.copies /\ y.marked = r.marked /\ y.rows = r.rows /\ y.key = r.key
          /\ y.entryKey = r.entryKey
      BY <1>1 DEF GateCall
    <3> HIDE DEF y
    <3> QED BY <2>3, <2>4, <3>1 DEF GateCall
  <2> HIDE DEF x
  <2>6. GateWell(x)
    BY <1>1, <2>2, <2>5 DEF GateWell, BodyOnce, NamedAndGranted
  <2> QED BY <2>1, <2>2, <2>5, <2>6, AnswerStep
<1> QED BY <1>2, <1>3, <1>5, <1>6, <1>7

\* The gates after it, up to the handler.
LEMMA ChainSteps ==
    ASSUME GtInv, NEW c \in Calls,
           OIDC(c) \/ RBACAuth(c) \/ ScopeEnforce(c) \/ PromptInjection(c) \/ BudgetBlock(c) \/ LimitsGate(c) \/ HandlerReturns(c)
    PROVE  GtInv'
<1> DEFINE r == call[c]
<1>1. GateWell(r) /\ r \in GateCall /\ idBreaker' = idBreaker /\ leases' = leases
  BY DEF GtInv, GateWell, OIDC, RBACAuth, ScopeEnforce, PromptInjection, BudgetBlock, LimitsGate, HandlerReturns
<1>2. r.stage \in Passed
  BY DEF Passed, OIDC, RBACAuth, ScopeEnforce, PromptInjection, BudgetBlock, LimitsGate, HandlerReturns
<1>3. r.stage \notin {"new", "auth", "acquiring", "ended"} /\ (IdStrict /\ NeedsIdentity(r) => r.granted)
  BY <1>1, <1>2 DEF Passed, GateWell, NamedAndGranted
<1>4. ASSUME NEW s \in Passed \cup {"returned"}, Pass(c, r, s) PROVE GtInv'
  BY <1>1, <1>3, <1>4, PassOrRefuse
<1>5. ASSUME Refuse(c, r) PROVE GtInv'
  BY <1>1, <1>3, <1>5, JustRefused
<1>6. ASSUME NEW y, y = captureRead(r) \/ y = MarkRequestBodyCaptured(captureRead(r))
      PROVE  /\ GateWell(y) /\ y.stage = r.stage /\ (IdStrict /\ NeedsIdentity(y) => y.granted)
             /\ \A s \in Passed \cup {"returned"} : Pass(c, y, s) => GtInv'
             /\ Refuse(c, y) => GtInv'
  <2>1. GateWell(y) /\ y.stage = r.stage
    BY <1>1, <1>6, BodyRead
  <2>2. IdStrict /\ NeedsIdentity(y) => y.granted
    BY <1>2, <2>1 DEF GateWell, NamedAndGranted
  <2>3. y.stage \notin {"new", "auth", "acquiring", "ended"}
    BY <1>3, <2>1
  <2>4. ASSUME NEW s \in Passed \cup {"returned"}, Pass(c, y, s) PROVE GtInv'
    BY <1>1, <2>1, <2>2, <2>3, <2>4, PassOrRefuse
  <2>5. ASSUME Refuse(c, y) PROVE GtInv'
    BY <1>1, <2>1, <2>3, <2>5, JustRefused
  <2> QED BY <2>1, <2>2, <2>4, <2>5
<1>7. {"rbac", "scope", "injection", "budget", "limits", "run", "returned"} \subseteq Passed \cup {"returned"}
  BY DEF Passed
<1>8. CASE OIDC(c)
  <2>1. CASE Pass(c, r, "rbac") \/ Refuse(c, r)
    BY <1>4, <1>5, <1>7, <2>1
  <2>2. CASE r.key = "none" /\ Pass(c, [r EXCEPT !.method = "oidc"], "rbac")
    <3> DEFINE y == [r EXCEPT !.method = "oidc"]
    <3>1. y \in GateCall /\ y.stage = r.stage /\ y.key = "none"
      BY <1>1, <2>2 DEF GateCall
    <3>2. GateWell(y) /\ ~ NeedsIdentity(y)
      BY <1>1, <1>2, <3>1 DEF GateWell, GateCall, BodyOnce, NamedAndGranted, NeedsIdentity
    <3> HIDE DEF y
    <3>3. \E s \in Passed \cup {"returned"} : Pass(c, y, s)
      BY <1>7, <2>2 DEF y
    <3> QED BY <1>1, <1>3, <3>1, <3>2, <3>3, PassOrRefuse
  <2> QED BY <1>8, <2>1, <2>2 DEF OIDC
<1>9. CASE RBACAuth(c)
  <2> DEFINE t == IF r.inner.tenant = "none" THEN "default" ELSE r.inner.tenant
             i == [r.inner EXCEPT !.tenant = t]
             y == [r EXCEPT !.team = "default", !.inner = i]
  <2>1. CASE Pass(c, r, "scope") \/ Refuse(c, r)
    BY <1>4, <1>5, <1>7, <2>1
  <2>2. CASE Pass(c, y, "scope")
    <3>1. t \in GateTeams
      BY <1>1 DEF GateCall, GateTeams
    <3>2. i \in [lease : BOOLEAN, tenant : GateTeams]
      BY <1>1, <3>1 DEF GateCall
    <3> HIDE DEF i
    <3>3. y \in GateCall /\ y.stage = r.stage
      BY <1>1, <3>2 DEF GateCall, GateTeams
    <3>4. GateWell(y) /\ (IdStrict /\ NeedsIdentity(y) => y.granted)
      BY <1>1, <1>2, <1>3, <3>3 DEF GateWell, GateCall, BodyOnce, NamedAndGranted, NeedsIdentity
    <3> HIDE DEF y
    <3>5. \E s \in Passed \cup {"returned"} : Pass(c, y, s)
      BY <1>7, <2>2
    <3> QED BY <1>1, <1>3, <3>3, <3>4, <3>5, PassOrRefuse
  <2>3. y = [r EXCEPT !.team = "default", !.inner.tenant = IF @ = "none" THEN "default" ELSE @]
    BY <1>1 DEF GateCall
  <2> QED BY <1>9, <2>1, <2>2, <2>3 DEF RBACAuth
<1>10. CASE ScopeEnforce(c)
  BY <1>4, <1>5, <1>7, <1>10 DEF ScopeEnforce
<1>11. CASE PromptInjection(c)
  BY <1>4, <1>6, <1>7, <1>11 DEF PromptInjection
<1>12. CASE BudgetBlock(c)
  BY <1>4, <1>5, <1>7, <1>12 DEF BudgetBlock
<1>13. CASE LimitsGate(c)
  BY <1>4, <1>6, <1>7, <1>13 DEF LimitsGate
<1>14. CASE HandlerReturns(c)
  BY <1>4, <1>6, <1>7, <1>14 DEF HandlerReturns
<1> QED BY <1>8, <1>9, <1>10, <1>11, <1>12, <1>13, <1>14

\* The handler panics, or withMiddleware logs the call and writes its row.
LEMMA EndSteps ==
    ASSUME GtInv, NEW c \in Calls, HandlerPanics(c) \/ withMiddlewareEnds(c)
    PROVE  GtInv'
<1> DEFINE r == call[c]
<1>1. GateWell(r) /\ r \in GateCall /\ leases \subseteq Calls
  BY DEF GtInv, GateWell
<1>2. CASE HandlerPanics(c)
  <2> DEFINE x == [r EXCEPT !.stage = "panicked"]
  <2>1. call' = [call EXCEPT ![c] = x] /\ idBreaker' = idBreaker /\ leases' \subseteq Calls /\ r.stage = "run"
    BY <1>1, <1>2 DEF HandlerPanics, GtInv
  <2>2. x \in GateCall
    BY <1>1 DEF GateCall, Stages
  <2>3. GateWell(x) /\ x.stage = "panicked"
    BY <1>1, <2>1, <2>2 DEF GateWell, GateCall, BodyOnce, NamedAndGranted, Passed
  <2> QED BY <2>1, <2>3, CallMoves
<1>3. CASE withMiddlewareEnds(c)
  <2> DEFINE l == FinalizeAndAppendLog(r)
             e == captureRequest(l)
             p == enqueuePersistEntry(l)
  <2>1. r.stage = "returned" /\ idBreaker' = idBreaker /\ leases' \subseteq Calls
    BY <1>1, <1>3 DEF withMiddlewareEnds, releaseIdentityLease
  <2>2. l \in GateCall /\ l.stage = "returned"
    BY <1>1, <2>1 DEF FinalizeAndAppendLog, GateCall
  <2>3. GateWell(l)
    BY <1>1, <2>1, <2>2 DEF FinalizeAndAppendLog, GateWell, GateCall, BodyOnce, NamedAndGranted, NeedsIdentity
  <2>4. e \in GateCall /\ GateWell(e) /\ e.read /\ e.stage = "returned" /\ e.rows = 0
    <3>1. CASE l.marked
      BY <2>2, <2>3, <3>1 DEF captureRequest, GateWell, BodyOnce
    <3>2. CASE ~ l.marked
      <4>1. GateWell(captureRead(l)) /\ captureRead(l).stage = "returned" /\ captureRead(l).read
        BY <2>2, <2>3, BodyRead
      <4>2. e = MarkRequestBodyCaptured(captureRead(l))
        BY <3>2 DEF captureRequest, MarkRequestBodyCaptured
      <4>3. GateWell(e) /\ e.stage = "returned"
        BY <2>2, <2>3, <4>2, BodyRead
      <4>4. captureRead(l) \in GateCall
        BY <4>1 DEF GateWell
      <4>5. e.marked
        BY <4>2, <4>4 DEF MarkRequestBodyCaptured, GateCall
      <4> QED BY <4>3, <4>5 DEF GateWell, BodyOnce
    <3> QED BY <3>1, <3>2
  <2> HIDE DEF e, l
  <2>5. p = [e EXCEPT !.rows = 1]
    BY <2>4 DEF enqueuePersistEntry, e, GateCall
  <2>6. p \in GateCall /\ p.rows = 1 /\ p.read
    BY <2>4, <2>5 DEF GateCall
  <2>7. ASSUME NEW y, y = r \/ y = l
        PROVE  LET x == [y EXCEPT !.stage = "ended"] IN GateWell(x) /\ x.stage # "acquiring"
    <3> DEFINE x == [y EXCEPT !.stage = "ended"]
    <3>1. x \in GateCall
      BY <1>1, <2>2, <2>7 DEF GateCall, Stages
    <3>2. GateWell(y) /\ y \in GateCall
      BY <1>1, <2>2, <2>3, <2>7
    <3> QED BY <3>1, <3>2, <2>1, <2>2, <2>7 DEF GateWell, GateCall, BodyOnce, NamedAndGranted, Passed
  <2>8. LET x == [p EXCEPT !.stage = "ended"] IN GateWell(x) /\ x.stage # "acquiring"
    <3> DEFINE x == [p EXCEPT !.stage = "ended"]
    <3>1. x \in GateCall
      BY <2>6 DEF GateCall, Stages
    <3> QED BY <3>1, <2>4, <2>5, <2>6 DEF GateWell, GateCall, BodyOnce, NamedAndGranted, Passed
  <2>9. \E x : call' = [call EXCEPT ![c] = x] /\ GateWell(x) /\ x.stage # "acquiring"
    <3>1. Pass(c, r, "ended") \/ Pass(c, l, "ended") \/ Pass(c, p, "ended")
      BY <1>3 DEF withMiddlewareEnds, l
    <3> QED BY <3>1, <2>7, <2>8 DEF Pass
  <2> QED BY <2>1, <2>9, CallMoves
<1> QED BY <1>2, <1>3

\* Every step of the chain and of the breaker's clock.
LEMMA GtInvStep == GtInv /\ [GateNext]_gateVars => GtInv'
<1> SUFFICES ASSUME GtInv, [GateNext]_gateVars PROVE GtInv'
  OBVIOUS
<1>1. CASE UNCHANGED gateVars
  BY <1>1 DEF gateVars, GtInv, GateWell, BodyOnce, NamedAndGranted, NeedsIdentity, BreakerInv, Probe
<1>2. CASE CoolDownElapses
  <2>1. call' = call /\ leases' = leases /\ idBreaker.state = "open" /\ \A c \in Calls : call[c].stage # "acquiring"
    BY <1>2 DEF CoolDownElapses
  <2>2. idBreaker' = [idBreaker EXCEPT !.state = "elapsed"] /\ BreakerInv
    BY <1>2 DEF CoolDownElapses, GtInv
  <2>3. \A c \in Calls : ~ Probe(c) /\ ~ Probe(c)' /\ call'[c].stage # "acquiring"
    BY <2>1 DEF Probe
  <2>4. BreakerInv'
    BY <2>1, <2>2, <2>3 DEF BreakerInv
  <2> QED BY <2>1, <2>4 DEF GtInv, GateWell, BodyOnce, NamedAndGranted, NeedsIdentity
<1>3. ASSUME NEW c \in Calls,
             \/ Arrive(c) \/ APIKeyAuthWithStore(c) \/ IdentitySkipped(c) \/ IdentityBegins(c) \/ IdentityBreakerOpen(c)
             \/ AuthorizeFails(c) \/ AuthorizeDenied(c) \/ AuthorizeGranted(c)
             \/ OIDC(c) \/ RBACAuth(c) \/ ScopeEnforce(c) \/ PromptInjection(c) \/ BudgetBlock(c) \/ LimitsGate(c)
             \/ HandlerReturns(c) \/ HandlerPanics(c) \/ withMiddlewareEnds(c)
      PROVE  GtInv'
  BY <1>3, AuthSteps, IdentitySteps, IdentityBeginsStep, ChainSteps, EndSteps
<1> QED BY <1>1, <1>2, <1>3 DEF GateNext

\* Before the first call.
LEMMA GtInvInit == GateInit => GtInv
<1> SUFFICES ASSUME GateInit PROVE GtInv
  OBVIOUS
<1>1. call = [c \in Calls |-> NewCall] /\ leases = {}
  BY DEF GateInit
<1>2. NoContext \in [lease : BOOLEAN, tenant : GateTeams]
  BY DEF NoContext, GateTeams
<1>3. NewCall \in GateCall
  BY <1>2 DEF NewCall, GateCall, Stages, Credentials, GateKeys, GateTeams
<1>4. GateWell(NewCall) /\ NewCall.stage = "new"
  BY <1>3 DEF GateWell, NewCall, BodyOnce, NamedAndGranted, Passed
<1>5. \A c \in Calls : ~ Probe(c) /\ call[c].stage # "acquiring"
  BY <1>1, <1>4 DEF Probe
<1>6. idBreaker \in [failures : 0 .. IdThreshold, state : {"closed", "open", "elapsed"}, probing : BOOLEAN]
      /\ idBreaker.state = "closed" /\ ~ idBreaker.probing
  BY GateAssumption DEF GateInit
<1>7. BreakerInv
  BY <1>5, <1>6 DEF BreakerInv
<1> QED BY <1>1, <1>4, <1>7 DEF GtInv

\* What the chain promises.
LEMMA GtInvSound == GtInv => GateSound
<1> SUFFICES ASSUME GtInv PROVE GateSound
  OBVIOUS
<1>1. BreakerInv /\ leases \subseteq Calls
  BY DEF GtInv
<1>2. \A c \in Calls : GateWell(call[c])
  BY DEF GtInv
<1>3. GateTypeOK
  <2>1. \A c \in Calls : call[c].cred \in Credentials /\ call[c].copies \in {0, 1} /\ call[c].rows \in {0, 1}
    BY <1>2 DEF GateWell, GateCall
  <2>2. {0, 1} \subseteq 0 .. 2 /\ {0, 1} \subseteq 0 .. 1
    OBVIOUS
  <2> QED BY <1>1, <2>1, <2>2 DEF GateTypeOK, BreakerInv
<1>4. OneProbe
  <2> DEFINE probes == {c \in Calls : call[c].stage = "acquiring" /\ call[c].probe}
  <2>1. \A c \in Calls : c \in probes <=> Probe(c)
    BY DEF Probe
  <2>2. idBreaker.probing <=> probes # {}
    BY <1>1, <2>1 DEF BreakerInv
  <2>3. Cardinality(probes) <= 1
    <3>1. CASE probes = {}
      BY <3>1, FS_EmptySet
    <3>2. CASE probes # {}
      <4>1. PICK c \in Calls : probes = {c}
        BY <1>1, <2>1, <3>2 DEF BreakerInv
      <4>2. Cardinality(probes) = 1
        BY <4>1, FS_Singleton
      <4> QED BY <4>2
    <3> QED BY <3>1, <3>2
  <2> QED BY <2>2, <2>3 DEF OneProbe
<1>5. StrictNeedsGrant
  BY <1>2 DEF StrictNeedsGrant, GateWell, NamedAndGranted, Passed
<1>6. CapturedOnce
  BY <1>2 DEF CapturedOnce, GateWell, BodyOnce
<1>7. LoggedUnderItsKey
  BY <1>2 DEF LoggedUnderItsKey, GateWell, NamedAndGranted
<1> QED BY <1>3, <1>4, <1>5, <1>6, <1>7 DEF GateSound

-----------------------------------------------------------------------------
(* The rate limiter                                                          *)

\* A window of slots taken up to an instant n, what of it is after h, and its
\* tokens.
IsWindow(w, n) == w \in [DOMAIN w -> Nat] /\ DOMAIN w \subseteq 1 .. n
CutAt(w, h) == [t \in {u \in DOMAIN w : u > h} |-> w[t]]
Table(W) == W = [e \in WindowNames |-> [g \in 1 .. MaxGen |-> W[e][g]]]
Replaced(W, e, g, v) == [W EXCEPT ![e][g] = v]
TokensUpTo(w, n) == SumUpTo([t \in 1 .. n |-> IF t \in DOMAIN w THEN w[t] ELSE 0], n)

LimStages == {"new", "loadRPM", "rpm", "loadTPM", "tpm", "remaining", "rollback", "admitted", "refused"}
LimCall(r) ==
  /\ r \in [stage : LimStages, tokens : Nat, window : 0 .. MaxGen, at : Nat, gen : 0 .. MaxGen]
  /\ r.at <= now
  /\ r.stage \in {"rpm", "tpm"} => r.window # 0
  /\ r.stage \in {"new", "loadRPM", "rpm"} => r.gen = 0
  /\ r.stage \in {"loadTPM", "tpm", "rollback", "remaining"} => r.gen # 0

LimType ==
  /\ lim = [c \in LimCalls |-> lim[c]] /\ \A c \in LimCalls : LimCall(lim[c])
  /\ Table(windows)
  /\ \A e \in WindowNames, g \in 1 .. MaxGen : IsWindow(windows[e][g], now)
  /\ made \in [WindowNames -> 0 .. MaxGen] /\ current \in [WindowNames -> 0 .. MaxGen]
  /\ now \in Nat /\ horizon \in Nat /\ horizon <= now /\ misdrops \in Nat

\* A call whose slot is gone though it still counts.
Dropped(c) ==
  /\ lim[c].gen # 0 /\ lim[c].at > horizon /\ lim[c].stage # "refused"
  /\ lim[c].at \notin DOMAIN windows["rpm"][lim[c].gen]
Lost == {c \in LimCalls : Dropped(c)}

SlotsDistinct == \A c, d \in LimCalls : lim[c].gen # 0 /\ lim[d].gen # 0 /\ lim[c].at = lim[d].at => c = d
RPMBounded == \A g \in 1 .. MaxGen : Cardinality(DOMAIN CutAt(windows["rpm"][g], horizon)) <= RPM
TPMBounded == TPM > 0 => \A g \in 1 .. MaxGen : TokensUpTo(CutAt(windows["tpm"][g], horizon), now) <= TPM

LmInv == LimType /\ SlotsDistinct /\ Cardinality(Lost) <= misdrops /\ RPMBounded /\ TPMBounded

\* The slots of a window are finitely many.
LEMMA WindowFinite ==
    ASSUME NEW n \in Nat, NEW w, IsWindow(w, n)
    PROVE  IsFiniteSet(DOMAIN w) /\ Cardinality(DOMAIN w) \in Nat
<1>1. IsFiniteSet(1 .. n)
  <2>1. 1 \in Int /\ n \in Int
    OBVIOUS
  <2> QED BY <2>1, FS_Interval
<1>2. IsFiniteSet(DOMAIN w)
  BY <1>1, FS_Subset DEF IsWindow
<1> QED BY <1>2, FS_CardinalityType

\* What of a window is after an instant.
LEMMA CutWindow ==
    ASSUME NEW n \in Nat, NEW w, IsWindow(w, n), NEW h \in Nat, NEW v, v = CutAt(w, h)
    PROVE  /\ IsWindow(v, n) /\ DOMAIN v = {t \in DOMAIN w : t > h} /\ DOMAIN v \subseteq DOMAIN w
           /\ \A t \in DOMAIN v : v[t] = w[t]
BY DEF CutAt, IsWindow

\* A part of a window: no more slots, no more tokens.
LEMMA LessCounts ==
    ASSUME NEW n \in Nat, NEW w, NEW v, IsWindow(w, n), IsWindow(v, n), DOMAIN v \subseteq DOMAIN w,
           \A t \in DOMAIN v : v[t] = w[t]
    PROVE  /\ TokensUpTo(v, n) \in Nat /\ TokensUpTo(w, n) \in Nat /\ TokensUpTo(v, n) <= TokensUpTo(w, n)
           /\ Cardinality(DOMAIN v) <= Cardinality(DOMAIN w)
<1> DEFINE f == [t \in 1 .. n |-> IF t \in DOMAIN v THEN v[t] ELSE 0]
           g == [t \in 1 .. n |-> IF t \in DOMAIN w THEN w[t] ELSE 0]
<1>1. \A i \in 1 .. n : f[i] \in Nat /\ g[i] \in Nat /\ f[i] <= g[i]
  BY DEF IsWindow
<1>2. SumUpTo(f, n) \in Nat /\ SumUpTo(g, n) \in Nat /\ SumUpTo(f, n) <= SumUpTo(g, n)
  <2> HIDE DEF f, g
  <2> QED BY <1>1, SumLeq
<1>3. IsFiniteSet(DOMAIN w)
  BY WindowFinite
<1> QED BY <1>2, <1>3, FS_Subset DEF TokensUpTo

\* The clock moves on, with a slot of k tokens or without.
LEMMA ClockMoves ==
    ASSUME NEW n \in Nat, NEW w, IsWindow(w, n), NEW k \in Nat, NEW m, m = n + 1, NEW v, v = WithSlot(w, m, k)
    PROVE  /\ IsWindow(w, m) /\ IsWindow(v, m) /\ DOMAIN v = DOMAIN w \cup {m}
           /\ TokensUpTo(w, m) = TokensUpTo(w, n) /\ TokensUpTo(v, m) = TokensUpTo(w, n) + k
           /\ Cardinality(DOMAIN v) = Cardinality(DOMAIN w) + 1
<1>0. m \in Nat /\ m = n + 1
  OBVIOUS
<1> DEFINE f == [t \in 1 .. n |-> IF t \in DOMAIN w THEN w[t] ELSE 0]
           g == [t \in 1 .. m |-> IF t \in DOMAIN w THEN w[t] ELSE 0]
           h == [t \in 1 .. m |-> IF t \in DOMAIN v THEN v[t] ELSE 0]
<1>1. m \notin DOMAIN w /\ m \in 1 .. m /\ DOMAIN w \subseteq 1 .. m
  BY <1>0 DEF IsWindow
<1>2. DOMAIN v = DOMAIN w \cup {m} /\ IsWindow(w, m) /\ IsWindow(v, m)
  BY <1>0, <1>1 DEF IsWindow, WithSlot
<1>3. g[m] = 0 /\ h[m] = k /\ \A i \in 1 .. n : f[i] = g[i] /\ f[i] = h[i] /\ f[i] \in Nat
  BY <1>0, <1>1 DEF IsWindow, WithSlot
<1>4. SumUpTo(g, m) = SumUpTo(f, n) + 0 /\ SumUpTo(h, m) = SumUpTo(f, n) + k /\ SumUpTo(f, n) \in Nat
  <2> HIDE DEF f, g, h
  <2>1. SumUpTo(f, n) = SumUpTo(g, n) /\ SumUpTo(f, n) = SumUpTo(h, n) /\ SumUpTo(f, n) \in Nat
    BY <1>3, SumSame, SumNat
  <2> QED BY <1>0, <1>3, <2>1, SumStep
<1>5. IsFiniteSet(DOMAIN w)
  BY WindowFinite
<1>6. Cardinality(DOMAIN v) = Cardinality(DOMAIN w) + 1
  BY <1>1, <1>2, <1>5, FS_AddElement
<1> QED BY <1>2, <1>4, <1>6 DEF TokensUpTo

\* Calls that are not lost now and were not before.
LEMMA LostShrinks ==
    ASSUME Cardinality(Lost) <= misdrops, misdrops \in Nat, misdrops' = misdrops, \A c \in LimCalls : Dropped(c)' => Dropped(c)
    PROVE  Cardinality(Lost') <= misdrops'
<1>1. Lost \subseteq LimCalls /\ Lost' \subseteq Lost
  BY DEF Lost
<1>2. IsFiniteSet(Lost)
  BY <1>1, LimitsAssumption, FS_Subset
<1>3. Cardinality(Lost') <= Cardinality(Lost) /\ Cardinality(Lost) \in Nat /\ Cardinality(Lost') \in Nat
  BY <1>1, <1>2, FS_Subset, FS_CardinalityType
<1> QED BY <1>3

\* A step that leaves the windows and the clocks alone, and takes no slot.
LEMMA QuietLimStep ==
    ASSUME LmInv, UNCHANGED <<windows, now, horizon, misdrops>>,
           made' \in [WindowNames -> 0 .. MaxGen], current' \in [WindowNames -> 0 .. MaxGen],
           lim' = [c \in LimCalls |-> lim'[c]], \A c \in LimCalls : LimCall(lim'[c]),
           \A c \in LimCalls : /\ lim'[c].gen = lim[c].gen /\ lim'[c].at = lim[c].at
                               /\ lim[c].stage = "refused" => lim'[c].stage = "refused"
    PROVE  LmInv'
<1>1. LimType'
  <2>1. \A c \in LimCalls : LimCall(lim[c])'
    BY DEF LimCall
  <2>2. \A e \in WindowNames, g \in 1 .. MaxGen : IsWindow(windows[e][g], now)'
    BY DEF LmInv, LimType
  <2>3. Table(windows')
    BY DEF LmInv, LimType
  <2>4. now' \in Nat /\ horizon' \in Nat /\ horizon' <= now' /\ misdrops' \in Nat
    BY DEF LmInv, LimType
  <2> QED BY <2>1, <2>2, <2>3, <2>4 DEF LimType
<1>2. SlotsDistinct' /\ RPMBounded' /\ TPMBounded'
  BY DEF LmInv, SlotsDistinct, RPMBounded, TPMBounded
<1>3. \A c \in LimCalls : Dropped(c)' => Dropped(c)
  BY DEF Dropped
<1>4. Cardinality(Lost') <= misdrops'
  BY <1>3, LostShrinks DEF LmInv, LimType
<1> QED BY <1>1, <1>2, <1>4 DEF LmInv

\* A call arrives, or looks a window up and makes one.
LEMMA LookupSteps ==
    ASSUME LmInv, NEW c \in LimCalls,
           \/ LimitArrives(c) \/ LoadWindow(c, "rpm", "loadRPM", "rpm") \/ LoadWindow(c, "tpm", "loadTPM", "tpm")
           \/ RemainingRPM(c)
    PROVE  LmInv'
<1>1. LimType /\ UNCHANGED <<windows, now, horizon, misdrops>>
  BY DEF LmInv, LimitArrives, LoadWindow, RemainingRPM
<1>2. LimCall(lim[c])
  BY <1>1 DEF LimType
<1>3. CASE LimitArrives(c)
  <2>1. PICK t \in Tokens : lim' = [lim EXCEPT ![c].stage = "loadRPM", ![c].tokens = t]
    BY <1>3 DEF LimitArrives
  <2>2. t \in Nat /\ lim[c].stage = "new" /\ UNCHANGED <<made, current>>
    BY <1>3, LimitsAssumption DEF LimitArrives
  <2> DEFINE x == [lim[c] EXCEPT !.stage = "loadRPM", !.tokens = t]
  <2>3. lim' = [lim EXCEPT ![c] = x]
    BY <2>1, <1>1 DEF LimType
  <2>4. x.gen = lim[c].gen /\ x.at = lim[c].at /\ LimCall(x)
    BY <1>2, <2>2 DEF LimCall, LimStages
  <2>5. lim' = [d \in LimCalls |-> lim'[d]] /\ lim'[c] = x /\ \A d \in LimCalls : d # c => lim'[d] = lim[d]
    BY <1>1, <2>3 DEF LimType
  <2> HIDE DEF x
  <2>6. \A d \in LimCalls : LimCall(lim'[d]) /\ lim'[d].gen = lim[d].gen /\ lim'[d].at = lim[d].at
                            /\ (lim[d].stage = "refused" => lim'[d].stage = "refused")
    BY <1>1, <2>2, <2>4, <2>5 DEF LimType
  <2>7. made' \in [WindowNames -> 0 .. MaxGen] /\ current' \in [WindowNames -> 0 .. MaxGen]
    BY <1>1, <2>2 DEF LimType
  <2> QED BY <1>1, <2>5, <2>6, <2>7, QuietLimStep
<1>4. ASSUME NEW e \in WindowNames, NEW s \in {"loadRPM", "loadTPM", "remaining"}, NEW z \in {"rpm", "tpm", "admitted"},
             LoadWindow(c, e, s, z), z = "rpm" => s = "loadRPM", z = "tpm" => s = "loadTPM"
      PROVE  LmInv'
  <2>1. lim[c].stage = s /\ getOrCreate(e) /\ lim' = [lim EXCEPT ![c].stage = z, ![c].window = current'[e]]
    BY <1>4 DEF LoadWindow
  <2>2. /\ made \in [WindowNames -> 0 .. MaxGen] /\ current \in [WindowNames -> 0 .. MaxGen] /\ MaxGen \in Nat
        /\ made[e] \in 0 .. MaxGen /\ current[e] \in 0 .. MaxGen
    BY <1>1, LimitsAssumption DEF LimType
  <2>3. /\ current[e] = 0 => made[e] < MaxGen
        /\ made' = [made EXCEPT ![e] = IF current[e] = 0 THEN made[e] + 1 ELSE made[e]]
        /\ current' = [current EXCEPT ![e] = IF current[e] = 0 THEN made[e] + 1 ELSE current[e]]
    BY <2>1 DEF getOrCreate
  <2>4. made' \in [WindowNames -> 0 .. MaxGen] /\ current' \in [WindowNames -> 0 .. MaxGen] /\ current'[e] \in 0 .. MaxGen
        /\ current'[e] # 0
    <3>1. (IF current[e] = 0 THEN made[e] + 1 ELSE made[e]) \in 0 .. MaxGen
      BY <2>2, <2>3
    <3>2. (IF current[e] = 0 THEN made[e] + 1 ELSE current[e]) \in 1 .. MaxGen
      BY <2>2, <2>3
    <3>3. 1 .. MaxGen \subseteq 0 .. MaxGen /\ 0 \notin 1 .. MaxGen
      OBVIOUS
    <3> QED BY <2>2, <2>3, <3>1, <3>2, <3>3
  <2> DEFINE x == [lim[c] EXCEPT !.stage = z, !.window = current'[e]]
  <2>5. lim' = [lim EXCEPT ![c] = x]
    BY <1>1, <2>1 DEF LimType
  <2>6. x.gen = lim[c].gen /\ x.at = lim[c].at /\ LimCall(x)
    BY <1>2, <1>4, <2>1, <2>4 DEF LimCall, LimStages
  <2>7. lim' = [d \in LimCalls |-> lim'[d]] /\ lim'[c] = x /\ \A d \in LimCalls : d # c => lim'[d] = lim[d]
    BY <1>1, <2>5 DEF LimType
  <2> HIDE DEF x
  <2>8. \A d \in LimCalls : LimCall(lim'[d]) /\ lim'[d].gen = lim[d].gen /\ lim'[d].at = lim[d].at
                            /\ (lim[d].stage = "refused" => lim'[d].stage = "refused")
    BY <1>1, <2>1, <2>6, <2>7 DEF LimType
  <2> QED BY <1>1, <2>4, <2>7, <2>8, QuietLimStep
<1> QED BY <1>3, <1>4 DEF RemainingRPM, WindowNames

\* One window of a table is replaced.
LEMMA WindowReplaced ==
    ASSUME NEW W, Table(W), NEW e \in WindowNames, NEW g \in 1 .. MaxGen, NEW v, NEW V, V = Replaced(W, e, g, v)
    PROVE  /\ Table(V) /\ V[e][g] = v
           /\ \A a \in WindowNames, b \in 1 .. MaxGen : (a # e \/ b # g) => V[a][b] = W[a][b]
<1> DEFINE A == WindowNames
           B == 1 .. MaxGen
<1>0. W = [a \in A |-> [b \in B |-> W[a][b]]] /\ V = [W EXCEPT ![e][g] = v] /\ e \in A /\ g \in B
  BY DEF Table, Replaced
<1> HIDE DEF A, B
<1>1. W[e] = [b \in B |-> W[e][b]]
  BY <1>0
<1>2. V = [a \in A |-> IF a = e THEN [W[e] EXCEPT ![g] = v] ELSE W[a]]
  BY <1>0
<1>3. [W[e] EXCEPT ![g] = v] = [b \in B |-> IF b = g THEN v ELSE W[e][b]]
  BY <1>1
<1>4. ASSUME NEW a \in A PROVE V[a] = [b \in B |-> IF a = e /\ b = g THEN v ELSE W[a][b]]
  <2>1. CASE a = e
    BY <1>2, <1>3, <2>1
  <2>2. CASE a # e
    <3>1. V[a] = W[a] /\ W[a] = [b \in B |-> W[a][b]]
      BY <1>0, <1>2, <2>2
    <3> QED BY <2>2, <3>1
  <2> QED BY <2>1, <2>2
<1>5. \A a \in A, b \in B : V[a][b] = IF a = e /\ b = g THEN v ELSE W[a][b]
  BY <1>4
<1>6. V = [a \in A |-> V[a]] /\ \A a \in A : V[a] = [b \in B |-> V[a][b]]
  BY <1>2, <1>4, <1>5
<1>7. V = [a \in A |-> [b \in B |-> V[a][b]]]
  BY <1>6
<1> QED BY <1>0, <1>5, <1>7 DEF A, B, Table

\* A window w as it stays at an instant n, or with one more slot.
SlotMove(n, m, v, w, k) == (m = n /\ v = w) \/ (m = n + 1 /\ v = WithSlot(w, n + 1, k))

Filtered(n, h, y, k, m, v, w) ==
  /\ IsWindow(w, n) /\ DOMAIN w = {t \in DOMAIN y : t > h} /\ TokensUpTo(w, n) \in Nat /\ Cardinality(DOMAIN w) \in Nat
  /\ IsWindow(v, m) /\ DOMAIN v \subseteq DOMAIN w \cup {n + 1} /\ CutAt(v, h) = v
  /\ TokensUpTo(v, m) = TokensUpTo(w, n) + (IF m = n THEN 0 ELSE k)
  /\ Cardinality(DOMAIN v) = Cardinality(DOMAIN w) + (IF m = n THEN 0 ELSE 1)

\* What is left of a window that is filtered, and of the clock.
LEMMA FilteredWindow ==
    ASSUME NEW n \in Nat, NEW h \in Nat, h <= n, NEW y, IsWindow(y, n), NEW k \in Nat, NEW m, NEW v, NEW w,
           w = CutAt(y, h), SlotMove(n, m, v, w, k)
    PROVE  Filtered(n, h, y, k, m, v, w)
<1>1. IsWindow(w, n) /\ DOMAIN w = {t \in DOMAIN y : t > h}
  BY CutWindow
<1>2. Cardinality(DOMAIN w) \in Nat
  BY <1>1, WindowFinite
<1>3. TokensUpTo(w, n) \in Nat
  BY <1>1, LessCounts
<1>4. /\ IsWindow(v, m) /\ DOMAIN v \subseteq DOMAIN w \cup {n + 1}
      /\ TokensUpTo(v, m) = TokensUpTo(w, n) + (IF m = n THEN 0 ELSE k)
      /\ Cardinality(DOMAIN v) = Cardinality(DOMAIN w) + (IF m = n THEN 0 ELSE 1)
  <2>1. CASE m = n /\ v = w
    BY <1>1, <1>2, <1>3, <2>1
  <2>2. CASE m = n + 1 /\ v = WithSlot(w, n + 1, k)
    <3>1. m # n /\ v = WithSlot(w, n + 1, k) /\ m = n + 1
      BY <2>2
    <3>2. /\ IsWindow(v, n + 1) /\ DOMAIN v = DOMAIN w \cup {n + 1} /\ TokensUpTo(v, n + 1) = TokensUpTo(w, n) + k
          /\ Cardinality(DOMAIN v) = Cardinality(DOMAIN w) + 1
      BY <1>1, <3>1, ClockMoves
    <3> QED BY <3>1, <3>2
  <2> QED BY <2>1, <2>2 DEF SlotMove
<1>5. CutAt(v, h) = v
  <2>1. n + 1 > h /\ \A t \in DOMAIN w : t > h
    BY <1>1
  <2>2. {t \in DOMAIN v : t > h} = DOMAIN v
    BY <1>4, <2>1
  <2>3. v = [t \in DOMAIN v |-> v[t]]
    BY <1>4 DEF IsWindow
  <2> QED BY <2>2, <2>3 DEF CutAt
<1> QED BY <1>1, <1>2, <1>3, <1>4, <1>5 DEF Filtered

WindowMoved(e, g, k, v, w) ==
  /\ Table(windows') /\ windows'[e][g] = v
  /\ \A a \in WindowNames, b \in 1 .. MaxGen : (a # e \/ b # g) => windows'[a][b] = windows[a][b]
  /\ \A a \in WindowNames, b \in 1 .. MaxGen : IsWindow(windows[a][b], now)'
  /\ DOMAIN CutAt(v, horizon) = DOMAIN v /\ CutAt(v, horizon) = v
  /\ DOMAIN w = {t \in DOMAIN windows[e][g] : t > horizon} /\ DOMAIN v \subseteq DOMAIN w \cup {now + 1}
  /\ \A b \in 1 .. MaxGen : b # g \/ e # "tpm" =>
        TokensUpTo(CutAt(windows["tpm"][b], horizon), now)' = TokensUpTo(CutAt(windows["tpm"][b], horizon), now)
  /\ TokensUpTo(v, now') = TokensUpTo(w, now) + (IF now' = now THEN 0 ELSE k)
  /\ Cardinality(DOMAIN v) = Cardinality(DOMAIN w) + (IF now' = now THEN 0 ELSE 1)
  /\ TokensUpTo(w, now) \in Nat /\ Cardinality(DOMAIN w) \in Nat /\ w = CutAt(windows[e][g], horizon)

\* A window is filtered and a slot of it may be taken: what of it counts then.
LEMMA WindowStep ==
    ASSUME LmInv, NEW e \in WindowNames, NEW g \in 1 .. MaxGen, NEW k \in Nat, NEW v, NEW w, w = InWindow(windows[e][g]),
           windows' = Replaced(windows, e, g, v), horizon' = horizon,
           SlotMove(now, now', v, w, k)
    PROVE  WindowMoved(e, g, k, v, w)
<1>1. /\ Table(windows) /\ now \in Nat /\ horizon \in Nat
      /\ horizon <= now /\ \A a \in WindowNames, b \in 1 .. MaxGen : IsWindow(windows[a][b], now)
  BY DEF LmInv, LimType
<1>2. w = CutAt(windows[e][g], horizon)
  BY DEF InWindow, CutAt
<1> DEFINE y == windows[e][g]
<1>3. IsWindow(y, now)
  BY <1>1
<1>4. /\ Table(windows') /\ windows'[e][g] = v
      /\ \A a \in WindowNames, b \in 1 .. MaxGen : (a # e \/ b # g) => windows'[a][b] = windows[a][b]
  BY <1>1, WindowReplaced
<1>5. now' \in {now, now + 1}
  BY DEF SlotMove
<1> HIDE DEF y
<1>6. /\ IsWindow(w, now) /\ DOMAIN w = {t \in DOMAIN y : t > horizon} /\ TokensUpTo(w, now) \in Nat
      /\ Cardinality(DOMAIN w) \in Nat
      /\ IsWindow(v, now') /\ DOMAIN v \subseteq DOMAIN w \cup {now + 1} /\ CutAt(v, horizon) = v
      /\ TokensUpTo(v, now') = TokensUpTo(w, now) + (IF now' = now THEN 0 ELSE k)
      /\ Cardinality(DOMAIN v) = Cardinality(DOMAIN w) + (IF now' = now THEN 0 ELSE 1)
  <2>1. w = CutAt(y, horizon) /\ now \in Nat /\ horizon \in Nat /\ horizon <= now
    BY <1>1, <1>2 DEF y
  <2>2. Filtered(now, horizon, y, k, now', v, w)
    BY <1>3, <2>1, FilteredWindow
  <2> QED BY <2>2 DEF Filtered
<1>9. ASSUME NEW a \in WindowNames, NEW b \in 1 .. MaxGen PROVE IsWindow(windows[a][b], now)'
  <2>1. CASE a = e /\ b = g
    BY <1>4, <1>6, <2>1
  <2>2. CASE ~ (a = e /\ b = g)
    <3>1. windows'[a][b] = windows[a][b] /\ IsWindow(windows[a][b], now)
      BY <1>1, <1>4, <2>2
    <3>2. 1 .. now \subseteq 1 .. now'
      BY <1>1, <1>5
    <3> QED BY <3>1, <3>2 DEF IsWindow
  <2> QED BY <2>1, <2>2
<1>10. ASSUME NEW b \in 1 .. MaxGen, b # g \/ e # "tpm"
       PROVE  TokensUpTo(CutAt(windows["tpm"][b], horizon), now)' = TokensUpTo(CutAt(windows["tpm"][b], horizon), now)
  <2> DEFINE z == CutAt(windows["tpm"][b], horizon)
  <2>1. "tpm" \in WindowNames
    BY DEF WindowNames
  <2>2. windows'["tpm"][b] = windows["tpm"][b] /\ z' = z
    BY <1>4, <1>10, <2>1
  <2>3. IsWindow(z, now)
    BY <1>1, <2>1, CutWindow
  <2> HIDE DEF z
  <2>4. TokensUpTo(z, now + 1) = TokensUpTo(z, now)
    <3>1. 0 \in Nat
      OBVIOUS
    <3> QED BY <1>1, <2>3, <3>1, ClockMoves
  <2>5. TokensUpTo(z, now)' = TokensUpTo(z, now)
    BY <1>5, <2>2, <2>4
  <2> QED BY <2>5 DEF z
<1> QED BY <1>2, <1>4, <1>6, <1>9, <1>10 DEF y, WindowMoved

\* The RPM window.
LEMMA AllowRPMStep == ASSUME LmInv, NEW c \in LimCalls, AllowRPM(c) PROVE LmInv'
<1> DEFINE g == lim[c].window
           w == InWindow(windows["rpm"][g])
<1>1. LimType /\ LimCall(lim[c]) /\ lim[c].stage = "rpm" /\ UNCHANGED <<made, current, fresh, doomed, horizon, misdrops>>
  BY DEF LmInv, LimType, AllowRPM
<1>2. g \in 1 .. MaxGen /\ lim[c].tokens \in Nat /\ "rpm" \in WindowNames /\ "tpm" \in WindowNames /\ lim[c].gen = 0
      /\ now \in Nat /\ horizon \in Nat /\ horizon <= now
  BY <1>1 DEF LimCall, WindowNames, LimType
<1> DEFINE v == IF RPMFull(w) THEN w ELSE WithSlot(w, now + 1, lim[c].tokens)
           x == IF RPMFull(w) THEN [lim[c] EXCEPT !.stage = "refused"]
                ELSE [lim[c] EXCEPT !.stage = AfterRPM(c), !.at = now + 1, !.gen = g]
<1>3. windows' = Replaced(windows, "rpm", g, v) /\ now' = (IF RPMFull(w) THEN now ELSE now + 1)
  BY DEF AllowRPM, Take, Replaced
<1>4. lim' = [lim EXCEPT ![c] = x]
  BY <1>1 DEF AllowRPM, LimType
<1>5. /\ Table(windows') /\ windows'["rpm"][g] = v
      /\ \A a \in WindowNames, b \in 1 .. MaxGen : (a # "rpm" \/ b # g) => windows'[a][b] = windows[a][b]
      /\ \A a \in WindowNames, b \in 1 .. MaxGen : IsWindow(windows[a][b], now)'
      /\ DOMAIN CutAt(v, horizon) = DOMAIN v
      /\ DOMAIN w = {t \in DOMAIN windows["rpm"][g] : t > horizon}
      /\ \A b \in 1 .. MaxGen :
            TokensUpTo(CutAt(windows["tpm"][b], horizon), now)' = TokensUpTo(CutAt(windows["tpm"][b], horizon), now)
      /\ Cardinality(DOMAIN v) = Cardinality(DOMAIN w) + (IF now' = now THEN 0 ELSE 1)
      /\ Cardinality(DOMAIN w) \in Nat /\ w = CutAt(windows["rpm"][g], horizon)
  <2> HIDE DEF w, g
  <2>1. SlotMove(now, now', v, w, lim[c].tokens)
    BY <1>3 DEF SlotMove
  <2>2. w = InWindow(windows["rpm"][g])
    BY DEF w
  <2>3. horizon' = horizon /\ "rpm" # "tpm" /\ windows' = Replaced(windows, "rpm", g, v)
    BY <1>1, <1>3
  <2> HIDE DEF v
  <2>4. WindowMoved("rpm", g, lim[c].tokens, v, w)
    BY <1>2, <2>1, <2>2, <2>3, WindowStep
  <2> QED BY <2>3, <2>4 DEF WindowMoved
<1>6. /\ x \in [stage : LimStages, tokens : Nat, window : 0 .. MaxGen, at : Nat, gen : 0 .. MaxGen] /\ x.at <= now'
      /\ x.stage \notin {"new", "loadRPM", "rpm", "tpm"}
      /\ IF RPMFull(w) THEN x.stage = "refused" /\ x.gen = 0 ELSE x.at = now + 1 /\ x.gen = g
  <2>1. CASE RPMFull(w)
    BY <1>1, <1>2, <1>3, <2>1 DEF LimCall, LimStages
  <2>2. CASE ~ RPMFull(w)
    <3>1. AfterRPM(c) \in LimStages \ {"new", "loadRPM", "rpm", "tpm"}
      BY DEF AfterRPM, LimStages
    <3>2. x = [lim[c] EXCEPT !.stage = AfterRPM(c), !.at = now + 1, !.gen = g] /\ now + 1 \in Nat /\ g \in 0 .. MaxGen
          /\ now' = now + 1
      BY <1>2, <1>3, <2>2
    <3> HIDE DEF g, x, w
    <3>3. lim[c] \in [stage : LimStages, tokens : Nat, window : 0 .. MaxGen, at : Nat, gen : 0 .. MaxGen]
      BY <1>1 DEF LimCall
    <3>4. /\ x \in [stage : LimStages, tokens : Nat, window : 0 .. MaxGen, at : Nat, gen : 0 .. MaxGen]
          /\ x.stage = AfterRPM(c) /\ x.at = now + 1 /\ x.gen = g
      BY <3>1, <3>2, <3>3
    <3> QED BY <2>2, <3>1, <3>2, <3>4
  <2> QED BY <2>1, <2>2
<1> HIDE DEF x, v
<1>7. lim' = [d \in LimCalls |-> lim'[d]] /\ lim'[c] = x /\ \A d \in LimCalls : d # c => lim'[d] = lim[d]
  BY <1>1, <1>4 DEF LimType
<1>8. now' \in Nat /\ now <= now' /\ now' \in {now, now + 1}
  BY <1>2, <1>3
<1>9. LimType'
  <2>1. \A d \in LimCalls : LimCall(lim[d])'
    <3> TAKE d \in LimCalls
    <3>1. CASE d = c
      BY <1>2, <1>6, <1>7, <3>1 DEF LimCall
    <3>2. CASE d # c
      <4>1. LimCall(lim[d]) /\ lim'[d] = lim[d]
        BY <1>1, <1>7, <3>2 DEF LimType
      <4> QED BY <1>2, <1>8, <4>1 DEF LimCall
    <3> QED BY <3>1, <3>2
  <2>2. horizon' <= now' /\ horizon' \in Nat /\ misdrops' \in Nat
    BY <1>1, <1>2, <1>8 DEF LimType
  <2> QED BY <1>1, <1>5, <1>7, <1>8, <2>1, <2>2 DEF LimType
<1>10. \A d \in LimCalls : lim[d].at \in Nat /\ lim[d].at <= now /\ lim[d].gen \in 0 .. MaxGen
  BY <1>1 DEF LimType, LimCall
<1>11. SlotsDistinct'
  <2>1. SlotsDistinct
    BY DEF LmInv
  <2>2. \A d \in LimCalls : d # c /\ x.gen # 0 => lim[d].at # x.at
    BY <1>2, <1>6, <1>10
  <2> QED BY <1>7, <2>1, <2>2 DEF SlotsDistinct
<1>12. \A d \in LimCalls : Dropped(d)' => Dropped(d)
  <2> TAKE d \in LimCalls
  <2>1. CASE d = c
    <3>1. CASE RPMFull(w)
      BY <1>6, <1>7, <2>1, <3>1 DEF Dropped
    <3>2. CASE ~ RPMFull(w)
      <4>1. now + 1 \in DOMAIN v
        BY <3>2 DEF v, WithSlot
      <4>2. lim'[c].gen = g /\ lim'[c].at = now + 1
        BY <1>6, <1>7, <3>2
      <4> QED BY <1>5, <2>1, <4>1, <4>2 DEF Dropped
    <3> QED BY <3>1, <3>2
  <2>2. CASE d # c
    <3>1. lim'[d] = lim[d] /\ horizon' = horizon
      BY <1>1, <1>7, <2>2
    <3>2. SUFFICES ASSUME lim[d].gen # 0, lim[d].at > horizon, lim[d].at \in DOMAIN windows["rpm"][lim[d].gen]
                   PROVE  lim[d].at \in DOMAIN windows'["rpm"][lim[d].gen]
      BY <3>1 DEF Dropped
    <3>3. lim[d].gen \in 1 .. MaxGen
      BY <1>10, <3>2
    <3>4. CASE lim[d].gen = g
      <4>1. lim[d].at \in DOMAIN w
        BY <1>5, <3>2, <3>4
      <4>2. DOMAIN w \subseteq DOMAIN v
        BY DEF v, WithSlot
      <4> QED BY <1>5, <3>4, <4>1, <4>2
    <3>5. CASE lim[d].gen # g
      BY <1>2, <1>5, <3>2, <3>3, <3>5
    <3> QED BY <3>4, <3>5
  <2> QED BY <2>1, <2>2
<1>13. Cardinality(Lost') <= misdrops'
  BY <1>1, <1>12, LostShrinks DEF LmInv, LimType
<1>14. RPMBounded'
  <2> SUFFICES ASSUME NEW b \in 1 .. MaxGen PROVE Cardinality(DOMAIN CutAt(windows'["rpm"][b], horizon)) <= RPM
    BY <1>1 DEF RPMBounded
  <2>1. RPMBounded /\ RPM \in Nat
    BY LimitsAssumption DEF LmInv
  <2>2. CASE b # g
    <3>1. windows'["rpm"][b] = windows["rpm"][b]
      BY <1>2, <1>5, <2>2
    <3> QED BY <2>1, <3>1 DEF RPMBounded
  <2>3. CASE b = g
    <3>1. DOMAIN CutAt(windows'["rpm"][b], horizon) = DOMAIN v
      BY <1>5, <2>3
    <3>2. Cardinality(DOMAIN w) <= RPM
      BY <1>2, <1>5, <2>1 DEF RPMBounded
    <3>3. ~ RPMFull(w) => Cardinality(DOMAIN w) < RPM
      BY <1>5, <2>1 DEF RPMFull, Slots
    <3>4. Cardinality(DOMAIN v) <= RPM
      BY <1>2, <1>3, <1>5, <2>1, <3>2, <3>3
    <3> QED BY <3>1, <3>4
  <2> QED BY <2>2, <2>3
<1>15. TPMBounded'
  BY <1>1, <1>5 DEF LmInv, TPMBounded
<1> QED BY <1>9, <1>11, <1>13, <1>14, <1>15 DEF LmInv

\* The TPM window.
LEMMA AllowTPMStep == ASSUME LmInv, NEW c \in LimCalls, AllowTPM(c) PROVE LmInv'
<1> DEFINE g == lim[c].window
           w == InWindow(windows["tpm"][g])
           k == lim[c].tokens
           over == TotalTokens(w) + k > TPM
<1>1. LimType /\ LimCall(lim[c]) /\ lim[c].stage = "tpm" /\ UNCHANGED <<made, current, fresh, doomed, horizon, misdrops>>
  BY DEF LmInv, LimType, AllowTPM
<1>2. g \in 1 .. MaxGen /\ k \in Nat /\ "rpm" \in WindowNames /\ "tpm" \in WindowNames
      /\ now \in Nat /\ horizon \in Nat /\ horizon <= now
  BY <1>1 DEF LimCall, WindowNames, LimType
<1> DEFINE v == IF over THEN w ELSE WithSlot(w, now + 1, k)
           x == [lim[c] EXCEPT !.stage = IF over THEN "rollback" ELSE "remaining"]
<1>3. windows' = Replaced(windows, "tpm", g, v) /\ now' = (IF over THEN now ELSE now + 1)
  BY DEF AllowTPM, Take, Replaced
<1>4. lim' = [lim EXCEPT ![c] = x]
  BY <1>1 DEF AllowTPM, LimType
<1>5. WindowMoved("tpm", g, k, v, w)
  <2> HIDE DEF w, g, k, over
  <2>1. SlotMove(now, now', v, w, k)
    BY <1>3 DEF SlotMove
  <2>2. w = InWindow(windows["tpm"][g])
    BY DEF w
  <2>3. horizon' = horizon /\ windows' = Replaced(windows, "tpm", g, v)
    BY <1>1, <1>3
  <2> HIDE DEF v
  <2> QED BY <1>2, <2>1, <2>2, <2>3, WindowStep
<1>6. ~ over => TokensUpTo(w, now) + k <= TPM
  <2> HIDE DEF w, k, over
  <2>1. TotalTokens(w) = TokensUpTo(w, now)
    BY DEF TotalTokens, TokensAt, TokensUpTo
  <2>2. TokensUpTo(w, now) \in Nat
    BY <1>5 DEF WindowMoved
  <2> QED BY <1>2, <2>1, <2>2, LimitsAssumption DEF over
<1>7. /\ x \in [stage : LimStages, tokens : Nat, window : 0 .. MaxGen, at : Nat, gen : 0 .. MaxGen]
      /\ x.at = lim[c].at /\ x.gen = lim[c].gen /\ x.stage \in {"rollback", "remaining"}
  <2> HIDE DEF over
  <2>1. lim[c] \in [stage : LimStages, tokens : Nat, window : 0 .. MaxGen, at : Nat, gen : 0 .. MaxGen]
    BY <1>1 DEF LimCall
  <2> QED BY <2>1 DEF LimStages
<1> HIDE DEF x, v, w, over, g, k
<1>8. lim' = [d \in LimCalls |-> lim'[d]] /\ lim'[c] = x /\ \A d \in LimCalls : d # c => lim'[d] = lim[d]
  BY <1>1, <1>4 DEF LimType
<1>9. now' \in Nat /\ now <= now'
  BY <1>2, <1>3
<1>10. \A d \in LimCalls : LimCall(lim[d])'
  <2> TAKE d \in LimCalls
  <2>1. CASE d = c
    BY <1>1, <1>2, <1>7, <1>8, <1>9, <2>1 DEF LimCall
  <2>2. CASE d # c
    <3>1. LimCall(lim[d]) /\ lim'[d] = lim[d]
      BY <1>1, <1>8, <2>2 DEF LimType
    <3> QED BY <1>2, <1>9, <3>1 DEF LimCall
  <2> QED BY <2>1, <2>2
<1>11. LimType'
  <2>1. horizon' <= now' /\ horizon' \in Nat /\ misdrops' \in Nat
    BY <1>1, <1>2, <1>9 DEF LimType
  <2>2. Table(windows') /\ \A a \in WindowNames, b \in 1 .. MaxGen : IsWindow(windows[a][b], now)'
    BY <1>5 DEF WindowMoved
  <2> QED BY <1>1, <1>8, <1>9, <1>10, <2>1, <2>2 DEF LimType
<1>12. \A b \in 1 .. MaxGen : windows'["rpm"][b] = windows["rpm"][b]
  BY <1>2, <1>5 DEF WindowMoved
<1>13. \A d \in LimCalls : lim'[d].at = lim[d].at /\ lim'[d].gen = lim[d].gen /\ (lim[d].stage = "refused" => lim'[d].stage = "refused")
  BY <1>1, <1>7, <1>8
<1>14. SlotsDistinct' /\ RPMBounded'
  BY <1>1, <1>12, <1>13 DEF LmInv, SlotsDistinct, RPMBounded
<1>15. \A d \in LimCalls : Dropped(d)' => Dropped(d)
  <2>1. \A d \in LimCalls : lim[d].gen \in 0 .. MaxGen
    BY <1>1 DEF LimType, LimCall
  <2>2. \A d \in LimCalls : lim[d].gen # 0 => lim[d].gen \in 1 .. MaxGen
    BY <2>1
  <2> QED BY <1>1, <1>12, <1>13, <2>2 DEF Dropped
<1>16. Cardinality(Lost') <= misdrops'
  BY <1>1, <1>15, LostShrinks DEF LmInv, LimType
<1>17. TPMBounded'
  <2> SUFFICES ASSUME TPM > 0, NEW b \in 1 .. MaxGen PROVE TokensUpTo(CutAt(windows["tpm"][b], horizon), now)' <= TPM
    BY DEF TPMBounded
  <2>1. \A a \in 1 .. MaxGen : TokensUpTo(CutAt(windows["tpm"][a], horizon), now) <= TPM
    BY DEF LmInv, TPMBounded
  <2>2. CASE b # g
    BY <1>5, <2>1, <2>2 DEF WindowMoved
  <2>3. CASE b = g
    <3>1. windows'["tpm"][g] = v /\ CutAt(v, horizon) = v /\ horizon' = horizon
      BY <1>1, <1>5 DEF WindowMoved
    <3>2. TokensUpTo(CutAt(windows["tpm"][b], horizon), now)' = TokensUpTo(v, now')
      BY <2>3, <3>1
    <3>3. TokensUpTo(v, now') = TokensUpTo(w, now) + (IF now' = now THEN 0 ELSE k) /\ TokensUpTo(w, now) \in Nat
          /\ w = CutAt(windows["tpm"][g], horizon)
      BY <1>5 DEF WindowMoved
    <3>4. TokensUpTo(w, now) <= TPM
      BY <1>2, <2>1, <3>3
    <3>5. TokensUpTo(v, now') <= TPM
      BY <1>2, <1>3, <1>6, <3>3, <3>4, LimitsAssumption
    <3> QED BY <3>2, <3>5
  <2> QED BY <2>2, <2>3
<1> QED BY <1>11, <1>14, <1>16, <1>17 DEF LmInv

\* The newest slot of the window is given back.
LEMMA RollbackStep == ASSUME LmInv, NEW c \in LimCalls, RollbackRPM(c) PROVE LmInv'
<1> DEFINE g == current["rpm"]
           w == windows["rpm"][g]
           newest == Max(DOMAIN w)
           x == [lim[c] EXCEPT !.stage = "refused"]
<1>1. LimType /\ LimCall(lim[c]) /\ UNCHANGED <<made, current, fresh, doomed, now, horizon>>
  BY DEF LmInv, LimType, RollbackRPM
<1>2. lim' = [lim EXCEPT ![c] = x]
  BY <1>1 DEF RollbackRPM, LimType
<1>3. x.at = lim[c].at /\ x.gen = lim[c].gen /\ x.stage = "refused" /\ LimCall(x)
  BY <1>1 DEF LimCall, LimStages
<1>4. lim' = [d \in LimCalls |-> lim'[d]] /\ lim'[c] = x /\ \A d \in LimCalls : d # c => lim'[d] = lim[d]
  BY <1>1, <1>2 DEF LimType
<1> HIDE DEF x
<1>5. \A d \in LimCalls : /\ LimCall(lim'[d]) /\ lim'[d].gen = lim[d].gen /\ lim'[d].at = lim[d].at
                          /\ lim[d].stage = "refused" => lim'[d].stage = "refused"
  BY <1>1, <1>3, <1>4 DEF LimType
<1>6. CASE g = 0 \/ DOMAIN w = {}
  <2>1. UNCHANGED <<windows, misdrops>>
    BY <1>6 DEF RollbackRPM
  <2>2. made' \in [WindowNames -> 0 .. MaxGen] /\ current' \in [WindowNames -> 0 .. MaxGen]
    BY <1>1 DEF LimType
  <2> QED BY <1>1, <1>4, <1>5, <2>1, <2>2, QuietLimStep
<1>7. CASE ~ (g = 0 \/ DOMAIN w = {})
  <2>1. /\ windows' = Replaced(windows, "rpm", g, WithoutSlot(w, newest))
        /\ misdrops' = IF newest = lim[c].at THEN misdrops ELSE misdrops + 1
    BY <1>7 DEF RollbackRPM, Replaced
  <2>2. /\ "rpm" \in WindowNames /\ "tpm" \in WindowNames /\ g \in 1 .. MaxGen /\ now \in Nat /\ horizon \in Nat
        /\ Table(windows) /\ misdrops \in Nat
    BY <1>1, <1>7 DEF LimType, WindowNames
  <2>3. IsWindow(w, now) /\ DOMAIN w # {}
    BY <1>1, <1>7, <2>2 DEF LimType
  <2> HIDE DEF w, g
  <2>4. newest \in DOMAIN w
    <3>1. IsFiniteSet(DOMAIN w) /\ DOMAIN w \subseteq Nat
      BY <2>2, <2>3, WindowFinite DEF IsWindow
    <3> QED BY <2>3, <3>1, MaxMin
  <2> HIDE DEF newest
  <2> DEFINE v == WithoutSlot(w, newest)
  <2>5. IsWindow(v, now) /\ DOMAIN v = DOMAIN w \ {newest} /\ \A t \in DOMAIN v : v[t] = w[t]
    BY <2>3 DEF WithoutSlot, IsWindow
  <2>6. w = windows["rpm"][g]
    BY DEF w
  <2>7. windows' = Replaced(windows, "rpm", g, v)
    BY <2>1
  <2> HIDE DEF v
  <2>8. /\ Table(windows') /\ windows'["rpm"][g] = v
        /\ \A a \in WindowNames, b \in 1 .. MaxGen : (a # "rpm" \/ b # g) => windows'[a][b] = windows[a][b]
    BY <2>2, <2>7, WindowReplaced
  <2>9. LimType'
    <3>1. \A d \in LimCalls : LimCall(lim[d])'
      BY <1>1, <1>5 DEF LimCall
    <3>2. \A a \in WindowNames, b \in 1 .. MaxGen : IsWindow(windows[a][b], now)'
      BY <1>1, <2>5, <2>8 DEF LimType
    <3>3. horizon' <= now' /\ horizon' \in Nat /\ misdrops' \in Nat /\ now' \in Nat
      BY <1>1, <2>1, <2>2 DEF LimType
    <3> QED BY <1>1, <1>4, <2>8, <3>1, <3>2, <3>3 DEF LimType
  <2>10. SlotsDistinct'
    BY <1>5 DEF LmInv, SlotsDistinct
  <2>11. TPMBounded'
    BY <1>1, <2>2, <2>8 DEF LmInv, TPMBounded
  <2>12. RPMBounded'
    <3> SUFFICES ASSUME NEW b \in 1 .. MaxGen PROVE Cardinality(DOMAIN CutAt(windows'["rpm"][b], horizon)) <= RPM
      BY <1>1 DEF RPMBounded
    <3>1. RPMBounded /\ RPM \in Nat
      BY LimitsAssumption DEF LmInv
    <3>2. CASE b # g
      <4>1. windows'["rpm"][b] = windows["rpm"][b]
        BY <2>2, <2>8, <3>2
      <4> QED BY <3>1, <4>1 DEF RPMBounded
    <3>3. CASE b = g
      <4> DEFINE cv == CutAt(v, horizon)
                 cw == CutAt(w, horizon)
      <4>1. IsWindow(cv, now) /\ DOMAIN cv = {t \in DOMAIN v : t > horizon} /\ \A t \in DOMAIN cv : cv[t] = v[t]
        BY <2>2, <2>5, CutWindow
      <4>2. IsWindow(cw, now) /\ DOMAIN cw = {t \in DOMAIN w : t > horizon} /\ \A t \in DOMAIN cw : cw[t] = w[t]
        BY <2>2, <2>3, CutWindow
      <4>3. Cardinality(DOMAIN cw) <= RPM
        BY <2>2, <2>6, <3>1 DEF RPMBounded
      <4>4. windows'["rpm"][b] = v
        BY <2>8, <3>3
      <4> HIDE DEF cv, cw
      <4>5. DOMAIN cv \subseteq DOMAIN cw /\ \A t \in DOMAIN cv : cv[t] = cw[t]
        BY <2>5, <4>1, <4>2
      <4>6. Cardinality(DOMAIN cv) <= Cardinality(DOMAIN cw) /\ Cardinality(DOMAIN cv) \in Nat /\ Cardinality(DOMAIN cw) \in Nat
        BY <2>2, <4>1, <4>2, <4>5, LessCounts, WindowFinite
      <4>7. Cardinality(DOMAIN cv) <= RPM
        BY <3>1, <4>3, <4>6
      <4> QED BY <4>4, <4>7 DEF cv
    <3> QED BY <3>2, <3>3
  <2>13. \A d \in LimCalls : lim[d].gen # 0 => lim[d].gen \in 1 .. MaxGen
    <3>1. \A d \in LimCalls : lim[d].gen \in 0 .. MaxGen
      BY <1>1 DEF LimType, LimCall
    <3> QED BY <3>1
  <2>14. \A d \in LimCalls : Dropped(d)' /\ ~ Dropped(d) => lim[d].gen # 0 /\ d # c /\ lim[d].at = newest
    <3> SUFFICES ASSUME NEW d \in LimCalls, Dropped(d)', ~ Dropped(d) PROVE lim[d].gen # 0 /\ d # c /\ lim[d].at = newest
      OBVIOUS
    <3>1. /\ lim[d].gen # 0 /\ lim'[d].stage # "refused" /\ lim[d].at > horizon
          /\ lim[d].at \notin DOMAIN windows'["rpm"][lim[d].gen]
      BY <1>1, <1>5 DEF Dropped
    <3>2. d # c
      BY <1>3, <1>4, <3>1
    <3>3. lim[d].at \in DOMAIN windows["rpm"][lim[d].gen]
      BY <1>4, <3>1, <3>2 DEF Dropped
    <3>4. lim[d].gen = g
      BY <2>2, <2>8, <2>13, <3>1, <3>3
    <3> QED BY <2>5, <2>6, <2>8, <3>1, <3>2, <3>3, <3>4
  <2>15. Lost \subseteq LimCalls /\ Lost' \subseteq LimCalls /\ IsFiniteSet(Lost)
    <3>1. Lost \subseteq LimCalls /\ Lost' \subseteq LimCalls
      BY DEF Lost
    <3> QED BY <3>1, LimitsAssumption, FS_Subset
  <2>16. Cardinality(Lost') <= misdrops'
    <3>1. Cardinality(Lost) <= misdrops /\ Cardinality(Lost) \in Nat
      BY <2>15, FS_CardinalityType DEF LmInv
    <3>2. CASE Lost' \subseteq Lost
      <4>1. Cardinality(Lost') <= Cardinality(Lost) /\ Cardinality(Lost') \in Nat
        BY <2>15, <3>2, FS_Subset, FS_CardinalityType
      <4> QED BY <2>1, <2>2, <3>1, <4>1
    <3>3. CASE ~ Lost' \subseteq Lost
      <4>1. PICK d \in LimCalls : Dropped(d)' /\ ~ Dropped(d)
        BY <3>3, <2>15 DEF Lost
      <4>2. lim[d].gen # 0 /\ d # c /\ lim[d].at = newest
        BY <2>14, <4>1
      <4>3. SlotsDistinct
        BY DEF LmInv
      <4>4. lim[c].gen # 0
        BY <1>1 DEF RollbackRPM, LimCall
      <4>5. misdrops' = misdrops + 1
        BY <2>1, <4>2, <4>3, <4>4 DEF SlotsDistinct
      <4>6. Lost' \subseteq Lost \cup {d}
        BY <2>14, <4>2, <4>3 DEF Lost, SlotsDistinct
      <4>7. IsFiniteSet(Lost \cup {d}) /\ Cardinality(Lost \cup {d}) <= Cardinality(Lost) + 1
        BY <2>15, <3>1, FS_AddElement
      <4>8. Cardinality(Lost') <= Cardinality(Lost \cup {d}) /\ Cardinality(Lost') \in Nat /\ Cardinality(Lost \cup {d}) \in Nat
        BY <4>6, <4>7, FS_Subset, FS_CardinalityType
      <4> QED BY <2>2, <3>1, <4>5, <4>7, <4>8
    <3> QED BY <3>2, <3>3
  <2> QED BY <2>9, <2>10, <2>11, <2>12, <2>16 DEF LmInv
<1> QED BY <1>6, <1>7

\* The start of the minute moves on: less of every window counts.
LEMMA MinutePasses ==
    ASSUME LmInv, UNCHANGED <<lim, windows, made, current, now, misdrops>>, horizon' \in Nat, horizon <= horizon', horizon' <= now
    PROVE  LmInv'
<1>1. /\ LimType /\ now \in Nat /\ horizon \in Nat /\ RPM \in Nat /\ TPM \in Nat
      /\ "rpm" \in WindowNames /\ "tpm" \in WindowNames
  BY LimitsAssumption DEF LmInv, LimType, WindowNames
<1>2. LimType'
  <2>1. \A c \in LimCalls : LimCall(lim[c])'
    BY <1>1 DEF LimType, LimCall
  <2>2. \A e \in WindowNames, g \in 1 .. MaxGen : IsWindow(windows[e][g], now)'
    BY <1>1 DEF LimType
  <2>3. Table(windows') /\ now' \in Nat /\ misdrops' \in Nat
    BY <1>1 DEF LimType
  <2> QED BY <1>1, <2>1, <2>2, <2>3 DEF LimType
<1>3. SlotsDistinct'
  BY DEF LmInv, SlotsDistinct
<1>4. \A c \in LimCalls : Dropped(c)' => Dropped(c)
  <2>1. \A c \in LimCalls : lim[c].at \in Nat
    BY <1>1 DEF LimType, LimCall
  <2> QED BY <1>1, <2>1 DEF Dropped
<1>5. Cardinality(Lost') <= misdrops'
  BY <1>4, LostShrinks DEF LmInv, LimType
<1>6. ASSUME NEW e \in WindowNames, NEW g \in 1 .. MaxGen
      PROVE  /\ Cardinality(DOMAIN CutAt(windows[e][g], horizon')) <= Cardinality(DOMAIN CutAt(windows[e][g], horizon))
             /\ TokensUpTo(CutAt(windows[e][g], horizon'), now) <= TokensUpTo(CutAt(windows[e][g], horizon), now)
             /\ Cardinality(DOMAIN CutAt(windows[e][g], horizon')) \in Nat
             /\ Cardinality(DOMAIN CutAt(windows[e][g], horizon)) \in Nat
             /\ TokensUpTo(CutAt(windows[e][g], horizon'), now) \in Nat /\ TokensUpTo(CutAt(windows[e][g], horizon), now) \in Nat
  <2> DEFINE w == windows[e][g]
             v == CutAt(w, horizon')
             u == CutAt(w, horizon)
  <2>1. IsWindow(w, now)
    BY <1>1 DEF LimType
  <2>0. v = CutAt(w, horizon') /\ u = CutAt(w, horizon) /\ horizon' \in Nat
    OBVIOUS
  <2> HIDE DEF w, v, u
  <2>7. ASSUME NEW h \in Nat, NEW z, z = CutAt(w, h)
        PROVE  IsWindow(z, now) /\ DOMAIN z = {t \in DOMAIN w : t > h} /\ \A t \in DOMAIN z : z[t] = w[t]
    BY <1>1, <2>1, <2>7, CutWindow
  <2>2. IsWindow(v, now) /\ DOMAIN v = {t \in DOMAIN w : t > horizon'} /\ \A t \in DOMAIN v : v[t] = w[t]
    BY <2>0, <2>7
  <2>3. IsWindow(u, now) /\ DOMAIN u = {t \in DOMAIN w : t > horizon} /\ \A t \in DOMAIN u : u[t] = w[t]
    BY <1>1, <2>0, <2>7
  <2>4. DOMAIN v \subseteq DOMAIN u /\ \A t \in DOMAIN v : v[t] = u[t]
    <3>1. DOMAIN w \subseteq Nat
      BY <2>1 DEF IsWindow
    <3> QED BY <1>1, <2>2, <2>3, <3>1
  <2>5. /\ Cardinality(DOMAIN v) <= Cardinality(DOMAIN u) /\ TokensUpTo(v, now) <= TokensUpTo(u, now)
        /\ TokensUpTo(v, now) \in Nat /\ TokensUpTo(u, now) \in Nat
    BY <1>1, <2>2, <2>3, <2>4, LessCounts
  <2>6. Cardinality(DOMAIN v) \in Nat /\ Cardinality(DOMAIN u) \in Nat
    BY <1>1, <2>2, <2>3, WindowFinite
  <2> QED BY <2>5, <2>6 DEF u, v, w
<1>7. RPMBounded'
  <2>1. \A g \in 1 .. MaxGen : Cardinality(DOMAIN CutAt(windows["rpm"][g], horizon)) <= RPM
    BY DEF LmInv, RPMBounded
  <2>2. \A g \in 1 .. MaxGen : Cardinality(DOMAIN CutAt(windows["rpm"][g], horizon')) <= RPM
    BY <1>1, <1>6, <2>1
  <2> QED BY <2>2 DEF RPMBounded
<1>8. TPMBounded'
  <2>1. TPM > 0 => \A g \in 1 .. MaxGen : TokensUpTo(CutAt(windows["tpm"][g], horizon), now) <= TPM
    BY DEF LmInv, TPMBounded
  <2>2. TPM > 0 => \A g \in 1 .. MaxGen : TokensUpTo(CutAt(windows["tpm"][g], horizon'), now) <= TPM
    BY <1>1, <1>6, <2>1
  <2> QED BY <2>2 DEF TPMBounded
<1> QED BY <1>2, <1>3, <1>5, <1>7, <1>8 DEF LmInv

\* Every step of the rate limiter keeps it.
LEMMA LmInvStep == ASSUME LmInv, [LimNext]_limVars PROVE LmInv'
<1>1. LimType /\ now \in Nat /\ horizon \in Nat /\ horizon <= now /\ lim = [c \in LimCalls |-> lim[c]]
      /\ \A c \in LimCalls : LimCall(lim[c])
  BY DEF LmInv, LimType
<1>2. CASE TimePasses
  BY <1>1, <1>2, MinutePasses DEF TimePasses
<1>3. CASE IdleTimePasses
  BY <1>1, <1>3, MinutePasses DEF IdleTimePasses
<1>4. ASSUME UNCHANGED <<lim, windows, made, now, horizon, misdrops>>, current' \in [WindowNames -> 0 .. MaxGen] PROVE LmInv'
  <2>1. made' \in [WindowNames -> 0 .. MaxGen]
    BY <1>1, <1>4 DEF LimType
  <2>2. lim' = [c \in LimCalls |-> lim'[c]] /\ \A c \in LimCalls : LimCall(lim'[c])
    BY <1>1, <1>4
  <2>3. \A c \in LimCalls : /\ lim'[c].gen = lim[c].gen /\ lim'[c].at = lim[c].at
                            /\ lim[c].stage = "refused" => lim'[c].stage = "refused"
    BY <1>4
  <2> QED BY <1>4, <2>1, <2>2, <2>3, QuietLimStep
<1>5. ASSUME NEW e \in WindowNames, CleanupFinds(e) \/ CleanupDeletes(e) PROVE LmInv'
  <2>1. current' \in [WindowNames -> 0 .. MaxGen]
    <3>1. 0 \in 0 .. MaxGen
      BY LimitsAssumption
    <3> QED BY <1>1, <1>5, <3>1 DEF LimType, CleanupFinds, CleanupDeletes
  <2>2. UNCHANGED <<lim, windows, made, now, horizon, misdrops>>
    BY <1>5 DEF CleanupFinds, CleanupDeletes
  <2> QED BY <1>4, <2>1, <2>2
<1>6. CASE UNCHANGED limVars
  <2>1. current' \in [WindowNames -> 0 .. MaxGen] /\ UNCHANGED <<lim, windows, made, now, horizon, misdrops>>
    BY <1>1, <1>6 DEF LimType, limVars
  <2> QED BY <1>4, <2>1
<1> QED BY <1>2, <1>3, <1>5, <1>6, LookupSteps, AllowRPMStep, AllowTPMStep, RollbackStep DEF LimNext

\* Nothing has been taken at the start.
LEMMA LmInvInit == ASSUME LimInit PROVE LmInv
<1> DEFINE none == [t \in {} |-> 0]
<1>1. DOMAIN none = {} /\ IsWindow(none, 0)
  BY DEF IsWindow
<1>2. windows = [e \in WindowNames |-> [g \in 1 .. MaxGen |-> none]] /\ now = 0 /\ horizon = 0 /\ misdrops = 0
  BY DEF LimInit
<1> HIDE DEF none
<1>3. \A e \in WindowNames, g \in 1 .. MaxGen : windows[e][g] = none
  BY <1>2
<1>4. Table(windows)
  BY <1>2 DEF Table
<1>5. \A c \in LimCalls : LimCall(lim[c])
  BY LimitsAssumption DEF LimInit, LimCall, LimStages
<1>6. LimType
  <2>1. 0 \in 0 .. MaxGen
    BY LimitsAssumption
  <2> QED BY <1>1, <1>2, <1>3, <1>4, <1>5, <2>1 DEF LimInit, LimType
<1>7. \A c \in LimCalls : lim[c].gen = 0
  BY DEF LimInit
<1>8. SlotsDistinct /\ Lost = {}
  BY <1>7 DEF SlotsDistinct, Lost, Dropped
<1>9. Cardinality(Lost) <= misdrops
  BY <1>2, <1>8, FS_EmptySet
<1>10. "rpm" \in WindowNames /\ "tpm" \in WindowNames
  BY DEF WindowNames
<1> DEFINE cut == CutAt(none, horizon)
<1>11. DOMAIN cut = {}
  BY <1>1 DEF CutAt
<1> HIDE DEF cut
<1>12. RPMBounded
  <2>1. Cardinality(DOMAIN cut) <= RPM
    BY <1>11, FS_EmptySet, LimitsAssumption
  <2> QED BY <1>3, <1>10, <2>1 DEF RPMBounded, cut
<1>13. TPMBounded
  <2>1. TokensUpTo(cut, 0) = 0
    BY SumStep DEF TokensUpTo
  <2>2. \A g \in 1 .. MaxGen : CutAt(windows["tpm"][g], horizon) = cut
    BY <1>3, <1>10 DEF cut
  <2> QED BY <1>2, <2>1, <2>2, LimitsAssumption DEF TPMBounded
<1> QED BY <1>6, <1>8, <1>9, <1>12, <1>13 DEF LmInv

\* The invariant gives what the limiter promises.
LEMMA LmInvSound == ASSUME LmInv PROVE LimitsSound
<1>1. /\ LimType /\ now \in Nat /\ horizon \in Nat /\ RPM \in Nat /\ misdrops \in Nat
      /\ "rpm" \in WindowNames /\ "tpm" \in WindowNames
  BY LimitsAssumption DEF LmInv, LimType, WindowNames
<1>2. \A w : InWindow(w) = CutAt(w, horizon) /\ TotalTokens(w) = TokensUpTo(w, now)
  BY DEF InWindow, CutAt, TotalTokens, TokensAt, TokensUpTo
<1>3. TPMHeld
  BY <1>2 DEF LmInv, TPMBounded, TPMHeld
<1>4. ASSUME NEW g \in 1 .. MaxGen
      PROVE  /\ Cardinality(Holders(g)) <= Slots(InWindow(windows["rpm"][g])) + misdrops
             /\ Cardinality(Holders(g)) <= RPM + misdrops
  <2> DEFINE w == windows["rpm"][g]
             v == CutAt(w, horizon)
             kept == Holders(g) \ Lost
  <2>1. IsWindow(w, now)
    BY <1>1 DEF LimType
  <2>2. IsWindow(v, now) /\ DOMAIN v = {t \in DOMAIN w : t > horizon}
    <3> HIDE DEF w
    <3> QED BY <1>1, <2>1, CutWindow
  <2>3. Holders(g) \subseteq LimCalls /\ Lost \subseteq LimCalls
    BY DEF Holders, Lost
  <2>4. IsFiniteSet(Holders(g)) /\ IsFiniteSet(Lost) /\ IsFiniteSet(kept)
    BY <2>3, LimitsAssumption, FS_Subset
  <2>5. \A c \in kept : c \in LimCalls /\ lim[c].gen = g /\ lim[c].gen # 0 /\ lim[c].at \in DOMAIN v
    <3> SUFFICES ASSUME NEW c \in kept PROVE c \in LimCalls /\ lim[c].gen = g /\ lim[c].gen # 0 /\ lim[c].at \in DOMAIN v
      OBVIOUS
    <3>1. c \in LimCalls /\ lim[c].gen = g /\ lim[c].at > horizon /\ lim[c].stage # "refused" /\ ~ Dropped(c)
      BY DEF Holders, Lost
    <3>2. g # 0
      OBVIOUS
    <3>3. lim[c].at \in DOMAIN w
      BY <3>1, <3>2 DEF Dropped
    <3> QED BY <2>2, <3>1, <3>2, <3>3
  <2> DEFINE at == [c \in kept |-> lim[c].at]
  <2> HIDE DEF v, kept
  <2>6. at \in Injection(kept, DOMAIN v)
    <3>1. \A c, d \in kept : at[c] = at[d] => c = d
      BY <2>5 DEF LmInv, SlotsDistinct
    <3>2. at \in [kept -> DOMAIN v]
      BY <2>5
    <3> QED BY <3>1, <3>2 DEF Injection, IsInjective
  <2>7. IsFiniteSet(DOMAIN v) /\ Cardinality(DOMAIN v) \in Nat
    BY <1>1, <2>2, WindowFinite
  <2>8. Cardinality(kept) <= Cardinality(DOMAIN v)
    BY <2>6, <2>7, FS_Injection
  <2>9. Cardinality(Holders(g)) <= Cardinality(kept) + Cardinality(Lost)
    <3>1. Holders(g) \subseteq kept \cup Lost
      BY DEF kept
    <3>2. IsFiniteSet(kept \cup Lost) /\ Cardinality(kept \cup Lost) = Cardinality(kept) + Cardinality(Lost) - Cardinality(kept \cap Lost)
      BY <2>4, FS_Union
    <3>3. Cardinality(kept \cap Lost) \in Nat /\ Cardinality(kept) \in Nat /\ Cardinality(Lost) \in Nat
      BY <2>4, FS_Intersection, FS_CardinalityType
    <3>4. Cardinality(Holders(g)) <= Cardinality(kept \cup Lost) /\ Cardinality(Holders(g)) \in Nat
      BY <3>1, <3>2, <2>4, FS_Subset, FS_CardinalityType
    <3> QED BY <3>2, <3>3, <3>4
  <2>10. Cardinality(Lost) <= misdrops /\ Cardinality(DOMAIN v) <= RPM
    BY DEF LmInv, RPMBounded, v
  <2>11. Cardinality(kept) \in Nat /\ Cardinality(Lost) \in Nat /\ Cardinality(Holders(g)) \in Nat
    BY <2>4, FS_CardinalityType
  <2>12. Slots(InWindow(w)) = Cardinality(DOMAIN v)
    BY <1>2 DEF Slots, v
  <2> QED BY <1>1, <2>7, <2>8, <2>9, <2>10, <2>11, <2>12
<1> QED BY <1>3, <1>4 DEF LimitsSound, RPMHeld, SlotsCounted

-----------------------------------------------------------------------------
(* The try quota                                                             *)

Savers == {"timer", "flush"}
Buckets == [day : Nat, total : Nat, alerted : BOOLEAN]
Snapshots == [bucket : Buckets, override : Nat]
TqActive(c) == tq[c].stage \in {"read", "checked", "running"}
\* What the identity may come to, and the most it may be granted.
Granted == Max(Overrides \cup {Budget})
Ceiling == Granted + (Max(Used \cup Estimates) - Min(Estimates))

TqType ==
  /\ tq \in [TqCalls -> [stage : {"new", "read", "checked", "running", "ended"}, est : Nat, used : Nat, budget : Nat]]
  /\ bucket \in Buckets /\ override \in Overrides \cup {0} /\ day \in Nat \ {0}
  /\ saveTimer \in BOOLEAN /\ saver \in [Savers -> {"idle", "fired", "encoding", "writing"}]
  /\ tqDisk \in [snap : Snapshots, whole : BOOLEAN] /\ tqDisk.snap.override \in Overrides \cup {0}
  /\ tqUp \in {"serving", "drained", "down"} /\ alerts \in Nat /\ lost \in BOOLEAN /\ overlapped \in BOOLEAN

\* Nothing is of a later day, and a process that is down does nothing.
TqShape ==
  /\ bucket.day <= day /\ tqDisk.snap.bucket.day <= day
  /\ tqUp = "down" => (\A c \in TqCalls : ~ TqActive(c)) /\ (\A t \in Savers : saver[t] = "idle")
  /\ tqUp = "serving" => saver["flush"] = "idle"
  /\ \A t, u \in Savers : saver[t] \in {"encoding", "writing"} /\ saver[u] \in {"encoding", "writing"} => t = u

\* The flag of an alert that was sent is where the next reader finds it.
TqAlert ==
  ~ lost => /\ alerts <= 1
            /\ alerts = 1 /\ tqUp # "down" => bucket.day = day /\ bucket.alerted
            /\ alerts = 1 /\ tqUp = "down" => Loaded.bucket.day = day /\ Loaded.bucket.alerted

\* Without overlap one call at a time is between its reading and its record.
TqBudget ==
  ~ overlapped =>
     /\ bucket.total <= Ceiling /\ tqDisk.snap.bucket.total <= Ceiling
     /\ \A c, d \in TqCalls : TqActive(c) /\ TqActive(d) => c = d
     /\ \A c \in TqCalls : TqActive(c) =>
           UsedToday <= tq[c].used /\ tq[c].est \in Estimates /\ tq[c].budget <= Granted
     /\ \A c \in TqCalls : tq[c].stage = "running" => tq[c].used + tq[c].est <= tq[c].budget

\* A file that is being written is not what the process would load.
TqPending ==
  \/ tqUp = "down" \/ lost \/ saveTimer
  \/ \E t \in Savers : saver[t] \in {"fired", "encoding"}
  \/ \E t \in Savers : saver[t] = "writing" /\ tqDisk.snap = Snapshot
  \/ Snapshot = Loaded /\ \A t \in Savers : saver[t] # "writing"

TqInv == TqType /\ TqShape /\ TqAlert /\ TqBudget /\ TqPending

\* The largest grant and the ceiling are numbers, and a call that was admitted
\* stays below the ceiling whatever it used.
LEMMA CeilingBounds ==
    /\ Granted \in Nat /\ Budget <= Granted /\ \A o \in Overrides : o <= Granted
    /\ Ceiling \in Nat /\ Granted <= Ceiling
    /\ \A n \in Used \cup Estimates, e \in Estimates, u \in Nat : u + e <= Granted => u + n <= Ceiling
<1>1. /\ IsFiniteSet(Overrides) /\ IsFiniteSet(Used) /\ IsFiniteSet(Estimates) /\ Estimates # {}
      /\ Overrides \subseteq Nat /\ Used \subseteq Nat /\ Estimates \subseteq Nat /\ Budget \in Nat
  BY TqAssumption
<1> DEFINE A == Overrides \cup {Budget}
           B == Used \cup Estimates
<1>2. IsFiniteSet(A) /\ IsFiniteSet(B)
  BY <1>1, FS_Singleton, FS_Union
<1>3. A \subseteq Nat /\ A # {} /\ B \subseteq Nat /\ B # {}
  BY <1>1
<1>4. Granted \in A /\ \A x \in A : x <= Granted
  BY <1>2, <1>3, MaxMin DEF Granted
<1>5. Max(B) \in B /\ \A x \in B : x <= Max(B)
  BY <1>2, <1>3, MaxMin
<1>6. Min(Estimates) \in Estimates /\ \A x \in Estimates : Min(Estimates) <= x
  BY <1>1, MaxMin
<1>7. Max(B) \in Nat /\ Min(Estimates) \in Nat /\ Min(Estimates) <= Max(B) /\ Granted \in Nat
  BY <1>1, <1>3, <1>4, <1>5, <1>6
<1>8. Ceiling = Granted + (Max(B) - Min(Estimates))
  BY DEF Ceiling
<1>9. ASSUME NEW n \in B, NEW e \in Estimates, NEW u \in Nat, u + e <= Granted
      PROVE  u + n <= Ceiling
  <2>1. n \in Nat /\ e \in Nat /\ n <= Max(B) /\ Min(Estimates) <= e
    BY <1>1, <1>5, <1>6
  <2> QED BY <1>7, <1>8, <1>9, <2>1
<1>10. Budget <= Granted /\ \A o \in Overrides : o <= Granted
  BY <1>4
<1>11. Ceiling \in Nat /\ Granted <= Ceiling
  BY <1>7, <1>8
<1> QED BY <1>7, <1>9, <1>10, <1>11

\* Before the first call.
LEMMA TqInvInit == TqInit => TqInv
<1> SUFFICES ASSUME TqInit PROVE TqInv
  OBVIOUS
<1>1. NoBucket \in Buckets /\ NoBucket.day = 0 /\ NoBucket.total = 0
  BY DEF NoBucket, Buckets
<1>2. /\ NoFile.snap = [bucket |-> NoBucket, override |-> 0] /\ NoFile.snap \in Snapshots
      /\ NoFile \in [snap : Snapshots, whole : BOOLEAN]
  BY <1>1 DEF NoFile, FileOf, Snapshots
<1>3. TqType
  <2>1. tq \in [TqCalls -> [stage : {"new", "read", "checked", "running", "ended"}, est : Nat, used : Nat, budget : Nat]]
    BY DEF TqInit
  <2>2. saver \in [Savers -> {"idle", "fired", "encoding", "writing"}]
    BY DEF TqInit, Savers
  <2>3. bucket \in Buckets /\ tqDisk \in [snap : Snapshots, whole : BOOLEAN] /\ tqDisk.snap.override = 0
    BY <1>1, <1>2 DEF TqInit
  <2>4. override \in Overrides \cup {0} /\ day \in Nat \ {0} /\ alerts \in Nat
    BY DEF TqInit
  <2>5. tqUp \in {"serving", "drained", "down"} /\ saveTimer \in BOOLEAN /\ lost \in BOOLEAN /\ overlapped \in BOOLEAN
    BY DEF TqInit
  <2>6. tqDisk.snap.override \in Overrides \cup {0}
    BY <2>3
  <2> QED BY <2>1, <2>2, <2>3, <2>4, <2>5, <2>6 DEF TqType
<1>4. \A c \in TqCalls : ~ TqActive(c) /\ tq[c].stage # "running"
  BY DEF TqInit, TqActive
<1>5. TqShape
  BY <1>1, <1>2, <1>4 DEF TqInit, TqShape, Savers
<1>6. TqAlert /\ TqBudget
  BY <1>1, <1>2, <1>4, CeilingBounds DEF TqInit, TqAlert, TqBudget
<1>7. Snapshot = Loaded
  BY <1>2 DEF TqInit, Snapshot, Loaded
<1>8. TqPending
  BY <1>7 DEF TqPending, TqInit, Savers
<1> QED BY <1>3, <1>5, <1>6, <1>8 DEF TqInv

\* What the try quota promises.
LEMMA TqInvSound == TqInv => TryQuotaSound
<1> SUFFICES ASSUME TqInv PROVE TryQuotaSound
  OBVIOUS
<1>1. AlertedOnce
  BY DEF TqInv, TqAlert, AlertedOnce, TqType
<1>2. HeldToBudget
  BY DEF TqInv, TqBudget, HeldToBudget, Ceiling, Granted
<1>3. DOMAIN saver = Savers
  BY DEF TqInv, TqType
<1>4. UnsavedIsPending
  BY <1>3 DEF TqInv, TqPending, UnsavedIsPending
<1> QED BY <1>1, <1>2, <1>4 DEF TryQuotaSound

\* The bucket of the window, whatever happened to the last one.
LEMMA WindowBucketIs ==
    ASSUME TqInv
    PROVE  /\ WindowBucket \in Buckets /\ WindowBucket.day = day /\ WindowBucket.total = UsedToday /\ UsedToday \in Nat
           /\ WindowBucket.alerted => WindowBucket = bucket
           /\ bucket.day = day => WindowBucket = bucket
<1>1. bucket \in Buckets /\ day \in Nat
  BY DEF TqInv, TqType
<1>2. CASE bucket.day = day
  BY <1>1, <1>2 DEF WindowBucket, UsedToday, Buckets
<1>3. CASE bucket.day # day
  BY <1>1, <1>3 DEF WindowBucket, UsedToday, Buckets, NoBucket
<1> QED BY <1>2, <1>3

\* The gate reads the usage.
LEMMA ReadsStep == ASSUME TqInv, NEW c \in TqCalls, TryQuotaReads(c) PROVE TqInv'
<1>1. PICK e \in Estimates : tq' = [tq EXCEPT ![c] = [stage |-> "read", est |-> e, used |-> UsedToday,
                                                        budget |-> IF override > 0 THEN override ELSE Budget]]
  BY DEF TryQuotaReads
<1> DEFINE b == IF override > 0 THEN override ELSE Budget
           x == [stage |-> "read", est |-> e, used |-> UsedToday, budget |-> b]
<1>2. /\ tq[c].stage = "new" /\ tqUp = "serving"
      /\ UNCHANGED <<bucket, override, day, saveTimer, saver, tqDisk, tqUp, tqCrashes, alerts, lost>>
      /\ overlapped' = (overlapped \/ \E d \in TqCalls : tq[d].stage \in {"read", "checked", "running"})
  BY DEF TryQuotaReads
<1>3. UsedToday \in Nat /\ e \in Nat /\ b \in Nat /\ b <= Granted
  BY WindowBucketIs, TqAssumption, CeilingBounds DEF TqInv, TqType
<1>4. x \in [stage : {"new", "read", "checked", "running", "ended"}, est : Nat, used : Nat, budget : Nat]
  BY <1>3
<1>5. tq' \in [TqCalls -> [stage : {"new", "read", "checked", "running", "ended"}, est : Nat, used : Nat, budget : Nat]]
      /\ tq'[c] = x /\ \A d \in TqCalls : d # c => tq'[d] = tq[d]
  BY <1>1, <1>4 DEF TqInv, TqType
<1>6. TqType'
  BY <1>2, <1>5 DEF TqInv, TqType
<1>7. TqShape' /\ TqAlert' /\ TqPending'
  BY <1>2 DEF TqInv, TqShape, TqAlert, TqPending, Loaded, Snapshot
<1>8. TqBudget'
  <2>1. SUFFICES ASSUME ~ overlapped' PROVE TqBudget'
    BY DEF TqBudget
  <2>2. ~ overlapped /\ \A d \in TqCalls : ~ TqActive(d)
    BY <1>2, <2>1 DEF TqActive
  <2>3. \A d \in TqCalls : TqActive(d)' => d = c
    BY <1>5, <2>2 DEF TqActive
  <2>4. \A d \in TqCalls : tq'[d].stage # "running"
    BY <1>5, <2>2 DEF TqActive
  <2>5. UsedToday' = UsedToday
    BY <1>2 DEF UsedToday
  <2>6. UsedToday' <= tq'[c].used /\ tq'[c].est \in Estimates /\ tq'[c].budget <= Granted
    BY <1>3, <1>5, <2>5
  <2>7. bucket'.total <= Ceiling /\ tqDisk'.snap.bucket.total <= Ceiling
    BY <1>2, <2>2 DEF TqInv, TqBudget
  <2> QED BY <2>3, <2>4, <2>6, <2>7 DEF TqBudget
<1> QED BY <1>6, <1>7, <1>8 DEF TqInv

\* A call that goes from one active stage to the next, and the bucket it
\* leaves: of this window, and no more in it than before.
LEMMA ActiveStep ==
    ASSUME TqInv, NEW c \in TqCalls, NEW s \in {"checked", "running", "ended"}, tq' = [tq EXCEPT ![c].stage = s],
           TqActive(c), tqUp # "down", UNCHANGED <<override, day, saver, tqDisk, tqUp, lost, overlapped>>,
           bucket' \in Buckets, bucket' # bucket => bucket'.day = day /\ saveTimer',
           saveTimer' \in BOOLEAN, saveTimer => saveTimer',
           s = "ended" /\ ~ overlapped => bucket'.total <= Ceiling,
           s # "ended" => bucket' = bucket \/ bucket'.total = UsedToday,
           s = "running" => tq[c].used + tq[c].est <= tq[c].budget,
           alerts' \in Nat, ~ lost => alerts' <= 1, ~ lost /\ alerts' = 1 => bucket'.day = day /\ bucket'.alerted
    PROVE  TqInv'
<1>1. /\ tq \in [TqCalls -> [stage : {"new", "read", "checked", "running", "ended"}, est : Nat, used : Nat, budget : Nat]]
      /\ bucket \in Buckets /\ day \in Nat \ {0}
  BY DEF TqInv, TqType
<1>2. /\ tq' \in [TqCalls -> [stage : {"new", "read", "checked", "running", "ended"}, est : Nat, used : Nat, budget : Nat]]
      /\ tq'[c].stage = s /\ tq'[c].used = tq[c].used /\ tq'[c].est = tq[c].est /\ tq'[c].budget = tq[c].budget
      /\ \A d \in TqCalls : d # c => tq'[d] = tq[d]
  BY <1>1
<1>3. TqType'
  BY <1>2 DEF TqInv, TqType
<1>4. bucket'.day <= day
  BY <1>1 DEF TqInv, TqShape
<1>5. TqShape'
  BY <1>4 DEF TqInv, TqShape
<1>6. TqAlert'
  BY DEF TqInv, TqAlert
<1>7. TqPending'
  <2>1. CASE bucket' = bucket
    <3>1. Snapshot' = Snapshot /\ Loaded' = Loaded
      BY <2>1 DEF Snapshot, Loaded
    <3> QED BY <3>1 DEF TqInv, TqPending
  <2>2. CASE bucket' # bucket
    BY <2>2 DEF TqPending
  <2> QED BY <2>1, <2>2
<1>8. TqBudget'
  <2>1. SUFFICES ASSUME ~ overlapped PROVE TqBudget'
    BY DEF TqBudget
  <2>2. TqBudget
    BY DEF TqInv
  <2>3. \A d \in TqCalls : TqActive(d)' => d = c /\ s # "ended"
    <3>1. \A d \in TqCalls : d # c => (TqActive(d)' <=> TqActive(d))
      BY <1>2 DEF TqActive
    <3>2. TqActive(c)' => s # "ended"
      BY <1>2 DEF TqActive
    <3> QED BY <2>1, <2>2, <3>1, <3>2 DEF TqBudget
  <2>4. UsedToday \in Nat
    BY WindowBucketIs
  <2>5. s # "ended" => UsedToday' <= UsedToday /\ bucket'.total <= Ceiling
    <3>1. CASE bucket' = bucket
      BY <2>1, <2>2, <2>4, <3>1 DEF UsedToday, TqBudget
    <3>2. ASSUME bucket' # bucket, bucket'.total = UsedToday PROVE UsedToday' <= UsedToday /\ bucket'.total <= Ceiling
      <4>1. UsedToday' = bucket'.total
        BY <3>2 DEF UsedToday
      <4>2. UsedToday = bucket.total \/ UsedToday = 0
        BY DEF UsedToday
      <4>3. bucket.total <= Ceiling /\ Ceiling \in Nat
        BY <2>1, <2>2, CeilingBounds DEF TqBudget
      <4> QED BY <2>4, <3>2, <4>1, <4>2, <4>3
    <3> QED BY <3>1, <3>2
  <2>6. bucket'.total <= Ceiling /\ tqDisk'.snap.bucket.total <= Ceiling
    BY <2>1, <2>2, <2>5 DEF TqBudget
  <2>7. UsedToday' \in Nat
    BY <1>1 DEF UsedToday, Buckets
  <2>8. ASSUME NEW d \in TqCalls, TqActive(d)'
        PROVE  UsedToday' <= tq'[d].used /\ tq'[d].est \in Estimates /\ tq'[d].budget <= Granted
    <3>1. d = c /\ s # "ended"
      BY <2>3, <2>8
    <3>2. UsedToday <= tq[c].used /\ tq[c].est \in Estimates /\ tq[c].budget <= Granted /\ tq[c].used \in Nat
      BY <1>1, <2>1, <2>2 DEF TqBudget
    <3> QED BY <1>2, <2>4, <2>5, <2>7, <3>1, <3>2
  <2>9. ASSUME NEW d \in TqCalls, tq'[d].stage = "running" PROVE tq'[d].used + tq'[d].est <= tq'[d].budget
    <3>1. d = c
      BY <2>3, <2>9 DEF TqActive
    <3> QED BY <1>2, <2>9, <3>1
  <2> QED BY <2>3, <2>6, <2>8, <2>9 DEF TqBudget
<1> QED BY <1>3, <1>5, <1>6, <1>7, <1>8 DEF TqInv

\* The alert, the decision and the record of what the call used.
LEMMA CallSteps ==
    ASSUME TqInv, NEW c \in TqCalls, MarkSoftAlerted(c) \/ TryQuotaDecides(c) \/ TryQuotaFinalize(c)
    PROVE  TqInv'
<1>1. /\ TqActive(c) /\ tqUp # "down" /\ UNCHANGED <<override, day, saver, tqDisk, tqUp, lost, overlapped>>
  BY DEF TqActive, MarkSoftAlerted, TryQuotaDecides, TryQuotaFinalize
<1>2. /\ bucket \in Buckets /\ saveTimer \in BOOLEAN /\ alerts \in Nat /\ day \in Nat \ {0} /\ lost \in BOOLEAN
      /\ tq \in [TqCalls -> [stage : {"new", "read", "checked", "running", "ended"}, est : Nat, used : Nat, budget : Nat]]
  BY DEF TqInv, TqType
<1>3. ~ lost => alerts <= 1 /\ (alerts = 1 => bucket.day = day /\ bucket.alerted)
  BY <1>1 DEF TqInv, TqAlert
<1>4. /\ WindowBucket \in Buckets /\ WindowBucket.day = day /\ WindowBucket.total = UsedToday /\ UsedToday \in Nat
      /\ WindowBucket.alerted => WindowBucket = bucket
      /\ bucket.day = day => WindowBucket = bucket
  BY WindowBucketIs
<1>5. CASE MarkSoftAlerted(c)
  <2>1. tq' = [tq EXCEPT ![c].stage = "checked"] /\ tq[c].stage = "read"
    BY <1>5 DEF MarkSoftAlerted
  <2>2. CASE ~ OverSoft(c)
    BY <1>1, <1>2, <1>3, <1>5, <2>1, <2>2, ActiveStep DEF MarkSoftAlerted
  <2>3. CASE OverSoft(c) /\ WindowBucket.alerted
    <3>1. bucket' = [WindowBucket EXCEPT !.alerted = TRUE] /\ alerts' = alerts /\ saveTimer' = saveTimer
      BY <1>5, <2>3 DEF MarkSoftAlerted
    <3>2. bucket' = bucket
      BY <1>4, <2>3, <3>1 DEF Buckets
    <3> QED BY <1>1, <1>2, <1>3, <2>1, <3>1, <3>2, ActiveStep
  <2>4. CASE OverSoft(c) /\ ~ WindowBucket.alerted
    <3>1. bucket' = [WindowBucket EXCEPT !.alerted = TRUE] /\ alerts' = alerts + 1 /\ saveTimer' = TRUE
      BY <1>5, <2>4 DEF MarkSoftAlerted, scheduleSave
    <3>2. bucket' \in Buckets /\ bucket'.day = day /\ bucket'.alerted /\ bucket'.total = UsedToday
      BY <1>4, <3>1 DEF Buckets
    <3>3. ~ lost => alerts = 0
      BY <1>2, <1>3, <1>4, <2>4
    <3>4. alerts' \in Nat /\ (~ lost => alerts' <= 1)
      BY <1>2, <3>1, <3>3
    <3> QED BY <1>1, <1>2, <2>1, <3>1, <3>2, <3>4, ActiveStep
  <2> QED BY <2>2, <2>3, <2>4
<1>6. CASE TryQuotaDecides(c)
  <2>1. UNCHANGED <<bucket, saveTimer, alerts>> /\ tq[c].stage = "checked"
    BY <1>6 DEF TryQuotaDecides
  <2>2. ~ overlapped => bucket.total <= Ceiling
    BY DEF TqInv, TqBudget
  <2>3. CASE OverBudget(c)
    <3>1. tq' = [tq EXCEPT ![c].stage = "ended"]
      BY <1>6, <2>3 DEF TryQuotaDecides
    <3> QED BY <1>1, <1>2, <1>3, <2>1, <2>2, <3>1, ActiveStep
  <2>4. CASE ~ OverBudget(c)
    <3>1. tq' = [tq EXCEPT ![c].stage = "running"]
      BY <1>6, <2>4 DEF TryQuotaDecides
    <3>2. tq[c].used + tq[c].est <= tq[c].budget
      BY <1>2, <2>4 DEF OverBudget
    <3> QED BY <1>1, <1>2, <1>3, <2>1, <3>1, <3>2, ActiveStep
  <2> QED BY <2>3, <2>4
<1>7. CASE TryQuotaFinalize(c)
  <2>1. tq' = [tq EXCEPT ![c].stage = "ended"] /\ alerts' = alerts /\ tq[c].stage = "running"
    BY <1>7 DEF TryQuotaFinalize
  <2>2. CASE UNCHANGED <<bucket, saveTimer>>
    <3>1. ~ overlapped => bucket.total <= Ceiling
      BY DEF TqInv, TqBudget
    <3> QED BY <1>1, <1>2, <1>3, <2>1, <2>2, <3>1, ActiveStep
  <2>3. CASE ~ UNCHANGED <<bucket, saveTimer>>
    <3>1. PICK n \in Nat : Record(n) /\ (n \in Used \/ n = tq[c].est)
      BY <1>2, <1>7, <2>3, TqAssumption DEF TryQuotaFinalize
    <3>2. bucket' = [WindowBucket EXCEPT !.total = WindowBucket.total + n] /\ saveTimer' = TRUE
      BY <3>1 DEF Record, scheduleSave
    <3>3. bucket' \in Buckets /\ bucket'.day = day /\ bucket'.alerted = WindowBucket.alerted /\ bucket'.total = UsedToday + n
      BY <1>4, <3>2 DEF Buckets
    <3>4. ~ overlapped => bucket'.total <= Ceiling
      <4>1. SUFFICES ASSUME ~ overlapped PROVE bucket'.total <= Ceiling
        OBVIOUS
      <4>2. UsedToday <= tq[c].used /\ tq[c].est \in Estimates /\ tq[c].budget <= Granted
            /\ tq[c].used + tq[c].est <= tq[c].budget
        BY <1>1, <2>1, <4>1 DEF TqInv, TqBudget
      <4>3. n \in Used \cup Estimates
        BY <3>1, <4>2
      <4>4. tq[c].used \in Nat /\ tq[c].est \in Nat /\ tq[c].budget \in Nat /\ Granted \in Nat /\ Ceiling \in Nat
        BY <1>2, CeilingBounds
      <4>5. tq[c].used + tq[c].est <= Granted
        BY <4>2, <4>4
      <4>6. tq[c].used + n <= Ceiling
        BY <4>2, <4>3, <4>4, <4>5, CeilingBounds
      <4> QED BY <1>4, <3>3, <4>2, <4>4, <4>6
    <3>5. ~ lost /\ alerts' = 1 => bucket'.alerted
      BY <1>3, <1>4, <2>1, <3>3
    <3> QED BY <1>1, <1>2, <1>3, <2>1, <3>2, <3>3, <3>4, <3>5, ActiveStep
  <2> QED BY <2>2, <2>3
<1> QED BY <1>5, <1>6, <1>7

\* An admin pins a budget, or the window passes.
LEMMA AdminAndDaySteps == ASSUME TqInv, SetBudgetOverride \/ WindowPasses PROVE TqInv'
<1>1. CASE SetBudgetOverride
  <2>1. override' \in Overrides \cup {0} /\ saveTimer' = TRUE
        /\ UNCHANGED <<tq, bucket, day, saver, tqDisk, tqUp, tqCrashes, alerts, lost, overlapped>>
    BY <1>1 DEF SetBudgetOverride, scheduleSave
  <2>2. TqType'
    BY <2>1 DEF TqInv, TqType
  <2>3. TqShape' /\ TqAlert'
    BY <2>1 DEF TqInv, TqShape, TqAlert, TqActive, Loaded
  <2>4. TqBudget'
    BY <2>1 DEF TqInv, TqBudget, TqActive, UsedToday
  <2>5. TqPending'
    BY <2>1 DEF TqPending
  <2> QED BY <2>2, <2>3, <2>4, <2>5 DEF TqInv
<1>2. CASE WindowPasses
  <2>1. day' = day + 1 /\ alerts' = 0
        /\ UNCHANGED <<tq, bucket, override, saveTimer, saver, tqDisk, tqUp, tqCrashes, lost, overlapped>>
    BY <1>2 DEF WindowPasses
  <2>2. day \in Nat \ {0} /\ bucket \in Buckets /\ tqDisk \in [snap : Snapshots, whole : BOOLEAN]
        /\ bucket.day \in Nat /\ tqDisk.snap.bucket.day \in Nat
    BY DEF TqInv, TqType, Buckets, Snapshots
  <2>3. TqType'
    BY <2>1, <2>2 DEF TqInv, TqType
  <2>4. TqShape'
    BY <2>1, <2>2 DEF TqInv, TqShape, TqActive
  <2>5. TqAlert'
    BY <2>1 DEF TqAlert
  <2>6. UsedToday' = 0
    BY <2>1, <2>2 DEF UsedToday, TqInv, TqShape
  <2>7. \A c \in TqCalls : tq[c].used \in Nat
    BY DEF TqInv, TqType
  <2>8. TqBudget'
    BY <2>1, <2>6, <2>7 DEF TqInv, TqBudget, TqActive
  <2>9. TqPending'
    BY <2>1 DEF TqInv, TqPending, Snapshot, Loaded
  <2> QED BY <2>3, <2>4, <2>5, <2>8, <2>9 DEF TqInv
<1> QED BY <1>1, <1>2

\* The timer and Flush begin a save, and a save is made.
LEMMA TqSaveSteps ==
    ASSUME TqInv, TimerFires \/ Flush \/ \E t \in Savers : SaveBegins(t) \/ SaveWrites(t) \/ SaveEnds(t)
    PROVE  TqInv'
<1>1. /\ UNCHANGED <<tq, bucket, override, day, alerts, overlapped>> /\ tqUp # "down" /\ tqUp' # "down"
      /\ tqUp' \in {"serving", "drained", "down"}
  BY DEF TimerFires, Flush, SaveBegins, SaveWrites, SaveEnds, TqInv, TqType
<1>2. /\ saver \in [Savers -> {"idle", "fired", "encoding", "writing"}] /\ DOMAIN saver = Savers
      /\ tqDisk \in [snap : Snapshots, whole : BOOLEAN] /\ lost \in BOOLEAN /\ saveTimer \in BOOLEAN
      /\ bucket \in Buckets /\ override \in Nat
  BY TqAssumption DEF TqInv, TqType
<1>3. ASSUME saver' \in [Savers -> {"idle", "fired", "encoding", "writing"}], saveTimer' \in BOOLEAN, lost' \in BOOLEAN,
             lost => lost', tqDisk' \in [snap : Snapshots, whole : BOOLEAN], tqDisk'.snap = tqDisk.snap \/ tqDisk'.snap = Snapshot,
             tqUp' = "serving" => saver'["flush"] = "idle",
             \A t, u \in Savers : saver'[t] \in {"encoding", "writing"} /\ saver'[u] \in {"encoding", "writing"} => t = u,
             TqPending'
      PROVE  TqInv'
  <2>1. Snapshot.override = override /\ Snapshot.bucket = bucket
    BY DEF Snapshot
  <2>2. TqType'
    BY <1>1, <1>3, <2>1 DEF TqInv, TqType
  <2>3. TqShape'
    BY <1>1, <1>3, <2>1 DEF TqInv, TqShape
  <2>4. TqAlert'
    BY <1>1, <1>3 DEF TqInv, TqAlert
  <2>5. TqBudget'
    BY <1>1, <1>3, <2>1 DEF TqInv, TqBudget, TqActive, UsedToday
  <2> QED BY <1>3, <2>2, <2>3, <2>4, <2>5 DEF TqInv
<1>4. Snapshot \in Snapshots /\ Snapshot' = Snapshot
  BY <1>1, <1>2 DEF Snapshot, Snapshots
<1>5. CASE TimerFires
  <2>1. saver' = [saver EXCEPT !["timer"] = "fired"] /\ saveTimer' = FALSE /\ UNCHANGED <<tqDisk, lost, tqUp>>
        /\ saver["timer"] = "idle"
    BY <1>5 DEF TimerFires
  <2>2. saver' \in [Savers -> {"idle", "fired", "encoding", "writing"}] /\ saver'["timer"] = "fired"
        /\ saver'["flush"] = saver["flush"]
    BY <1>2, <2>1 DEF Savers
  <2>3. TqPending'
    BY <2>2 DEF TqPending, Savers
  <2>4. \A t, u \in Savers : saver'[t] \in {"encoding", "writing"} /\ saver'[u] \in {"encoding", "writing"} => t = u
    BY <2>2 DEF Savers
  <2>5. tqUp' = "serving" => saver'["flush"] = "idle"
    BY <2>1, <2>2 DEF TqInv, TqShape
  <2> QED BY <1>2, <1>3, <2>1, <2>2, <2>3, <2>4, <2>5
<1>6. CASE Flush
  <2>1. saver' = [saver EXCEPT !["flush"] = IF saveTimer THEN "fired" ELSE "idle"] /\ saveTimer' = FALSE /\ tqUp' = "drained"
        /\ UNCHANGED <<tqDisk, lost>> /\ tqUp = "serving"
    BY <1>6 DEF Flush
  <2>2. saver["flush"] = "idle"
    BY <2>1 DEF TqInv, TqShape
  <2>3. saver' \in [Savers -> {"idle", "fired", "encoding", "writing"}] /\ saver'["timer"] = saver["timer"]
        /\ saver'["flush"] = (IF saveTimer THEN "fired" ELSE "idle")
    BY <1>2, <2>1 DEF Savers
  <2>4. TqPending'
    <3>1. CASE saveTimer
      BY <2>3, <3>1 DEF TqPending, Savers
    <3>2. CASE ~ saveTimer
      <4>1. \A t \in Savers : saver'[t] = saver[t]
        BY <2>2, <2>3, <3>2 DEF Savers
      <4>2. Loaded' = Loaded
        BY <2>1 DEF Loaded
      <4> QED BY <1>1, <1>4, <2>1, <3>2, <4>1, <4>2 DEF TqInv, TqPending
    <3> QED BY <3>1, <3>2
  <2>5. \A t, u \in Savers : saver'[t] \in {"encoding", "writing"} /\ saver'[u] \in {"encoding", "writing"} => t = u
    BY <2>3 DEF Savers
  <2> QED BY <1>2, <1>3, <2>1, <2>3, <2>4, <2>5
<1>7. ASSUME NEW t \in Savers, SaveBegins(t) \/ SaveWrites(t) \/ SaveEnds(t) PROVE TqInv'
  <2>1. PICK s \in {"encoding", "writing", "idle"} : saver' = [saver EXCEPT ![t] = s]
    BY <1>7 DEF SaveBegins, SaveWrites, SaveEnds
  <2>2. saver' \in [Savers -> {"idle", "fired", "encoding", "writing"}] /\ saver'[t] = s
        /\ \A u \in Savers : u # t => saver'[u] = saver[u]
    BY <1>2, <2>1
  <2>3. saveTimer' = saveTimer /\ tqUp' = tqUp /\ saver[t] # "idle"
    BY <1>7 DEF SaveBegins, SaveWrites, SaveEnds
  <2>4. tqUp' = "serving" => saver'["flush"] = "idle"
    BY <2>2, <2>3 DEF TqInv, TqShape, Savers
  <2>5. \A u, v \in Savers : saver'[u] \in {"encoding", "writing"} /\ saver'[v] \in {"encoding", "writing"} => u = v
    <3>1. CASE SaveBegins(t)
      BY <1>2, <2>2, <3>1 DEF SaveBegins
    <3>2. CASE SaveWrites(t) \/ SaveEnds(t)
      BY <2>2, <3>2 DEF SaveWrites, SaveEnds, TqInv, TqShape
    <3> QED BY <1>7, <3>1, <3>2
  <2>6. CASE SaveBegins(t)
    <3>1. saver'[t] = "encoding" /\ UNCHANGED <<tqDisk, lost>>
      BY <1>2, <2>6 DEF SaveBegins
    <3>2. TqPending'
      BY <3>1 DEF TqPending
    <3> QED BY <1>2, <1>3, <2>2, <2>3, <2>4, <2>5, <3>1, <3>2
  <2>7. CASE SaveWrites(t)
    <3>1. saver'[t] = "writing" /\ tqDisk' = [snap |-> Snapshot, whole |-> FALSE] /\ lost' = lost
      BY <1>2, <2>7 DEF SaveWrites, FileOf
    <3>2. TqPending'
      BY <1>4, <3>1 DEF TqPending
    <3>3. tqDisk' \in [snap : Snapshots, whole : BOOLEAN] /\ tqDisk'.snap = Snapshot
      BY <1>4, <3>1
    <3> QED BY <1>2, <1>3, <2>2, <2>3, <2>4, <2>5, <3>1, <3>2, <3>3
  <2>8. CASE SaveEnds(t)
    <3>1. saver[t] = "writing" /\ saver'[t] = "idle"
      BY <1>2, <2>8 DEF SaveEnds
    <3>2. CASE tqDisk' = [snap |-> tqDisk.snap, whole |-> TRUE] /\ lost' = lost
      <4>1. tqDisk' \in [snap : Snapshots, whole : BOOLEAN] /\ tqDisk'.snap = tqDisk.snap /\ tqDisk'.whole
        BY <1>2, <3>2
      <4>2. Loaded' = tqDisk.snap
        BY <4>1 DEF Loaded
      <4>3. \A u \in Savers : saver'[u] # "writing"
        BY <2>2, <3>1 DEF TqInv, TqShape
      <4>4. TqPending'
        <5>1. CASE saveTimer \/ lost
          BY <2>3, <3>2, <5>1 DEF TqPending
        <5>2. CASE \E u \in Savers : saver[u] \in {"fired", "encoding"}
          BY <2>2, <3>1, <5>2 DEF TqPending
        <5>3. CASE tqDisk.snap = Snapshot
          BY <1>4, <4>2, <4>3, <5>3 DEF TqPending
        <5> QED BY <1>1, <3>1, <5>1, <5>2, <5>3 DEF TqInv, TqPending
      <4> QED BY <1>2, <1>3, <2>2, <2>3, <2>4, <2>5, <3>2, <4>1, <4>4
    <3>3. CASE tqDisk' = tqDisk /\ lost' = TRUE
      <4>1. TqPending'
        BY <3>3 DEF TqPending
      <4> QED BY <1>2, <1>3, <2>2, <2>3, <2>4, <2>5, <3>3, <4>1
    <3> QED BY <2>8, <3>2, <3>3 DEF SaveEnds, FileOf
  <2> QED BY <1>7, <2>6, <2>7, <2>8
<1> QED BY <1>5, <1>6, <1>7

\* The process stops, with what the file says of it, and comes up again.
LEMMA ProcessSteps == ASSUME TqInv, TqCrash \/ Exits \/ TqLoad PROVE TqInv'
<1>1. NoBucket \in Buckets /\ NoBucket.day = 0 /\ NoBucket.total = 0
  BY DEF NoBucket, Buckets
<1>2. NoFile.snap = [bucket |-> NoBucket, override |-> 0] /\ NoFile.snap \in Snapshots
  BY <1>1 DEF NoFile, FileOf, Snapshots
<1>3. /\ tq \in [TqCalls -> [stage : {"new", "read", "checked", "running", "ended"}, est : Nat, used : Nat, budget : Nat]]
      /\ saver \in [Savers -> {"idle", "fired", "encoding", "writing"}] /\ DOMAIN saver = Savers
      /\ tqDisk \in [snap : Snapshots, whole : BOOLEAN] /\ day \in Nat \ {0} /\ bucket \in Buckets
      /\ tqUp \in {"serving", "drained", "down"} /\ lost \in BOOLEAN
  BY DEF TqInv, TqType
<1>4. Loaded \in Snapshots /\ Loaded.bucket \in Buckets /\ Loaded.override \in Overrides \cup {0}
      /\ Loaded.bucket.day <= day /\ (~ overlapped => Loaded.bucket.total <= Ceiling)
  <2>1. CASE tqDisk.whole
    BY <1>3, <2>1 DEF Loaded, TqInv, TqType, TqShape, TqBudget, Snapshots
  <2>2. CASE ~ tqDisk.whole
    BY <1>1, <1>2, <1>3, <2>2, CeilingBounds DEF Loaded
  <2> QED BY <2>1, <2>2
<1>5. CASE TqCrash \/ Exits
  <2>1. Stops /\ lost' = (lost \/ Snapshot # Loaded) /\ UNCHANGED <<day, alerts, overlapped>> /\ tqUp # "down"
    BY <1>5 DEF TqCrash, Exits
  <2>2. /\ tq' = [c \in TqCalls |-> IF tq[c].stage = "new" THEN tq[c] ELSE [tq[c] EXCEPT !.stage = "ended"]]
        /\ saver' = [t \in Savers |-> "idle"] /\ saveTimer' = FALSE /\ bucket' = NoBucket /\ override' = 0 /\ tqUp' = "down"
        /\ tqDisk' = tqDisk
    BY <1>3, <2>1 DEF Stops
  <2>3. tq' \in [TqCalls -> [stage : {"new", "read", "checked", "running", "ended"}, est : Nat, used : Nat, budget : Nat]]
        /\ \A c \in TqCalls : tq'[c].stage \in {"new", "ended"}
    BY <1>3, <2>2
  <2>4. TqType'
    BY <1>1, <2>1, <2>2, <2>3 DEF TqInv, TqType
  <2>5. TqShape'
    BY <1>1, <1>3, <2>1, <2>2, <2>3 DEF TqInv, TqShape, TqActive
  <2>6. TqAlert'
    <3>1. SUFFICES ASSUME ~ lost' PROVE TqAlert'
      BY DEF TqAlert
    <3>2. ~ lost /\ Loaded = Snapshot
      BY <2>1, <3>1, Zenon
    <3>4. Loaded.bucket = bucket
      BY <3>2 DEF Snapshot
    <3>3. Loaded' = Loaded
      BY <2>2 DEF Loaded
    <3> QED BY <2>1, <2>2, <3>2, <3>3, <3>4 DEF TqInv, TqAlert
  <2>7. TqBudget'
    BY <1>1, <2>1, <2>2, <2>3, CeilingBounds DEF TqInv, TqBudget, TqActive
  <2>8. TqPending'
    BY <2>2 DEF TqPending
  <2> QED BY <2>4, <2>5, <2>6, <2>7, <2>8 DEF TqInv
<1>6. CASE TqLoad
  <2>1. /\ tqUp = "down" /\ tqUp' = "serving" /\ bucket' = Loaded.bucket /\ override' = Loaded.override
        /\ UNCHANGED <<tq, day, saveTimer, saver, tqDisk, tqCrashes, alerts, lost, overlapped>>
    BY <1>6 DEF TqLoad
  <2>2. \A c \in TqCalls : ~ TqActive(c) /\ ~ TqActive(c)' /\ tq'[c].stage # "running"
    BY <2>1 DEF TqInv, TqShape, TqActive
  <2>3. \A t \in Savers : saver'[t] = "idle"
    BY <2>1 DEF TqInv, TqShape
  <2>4. TqType'
    BY <1>4, <2>1 DEF TqInv, TqType
  <2>5. TqShape'
    BY <1>4, <2>1, <2>2, <2>3 DEF TqInv, TqShape, Savers
  <2>6. TqAlert'
    BY <2>1 DEF TqInv, TqAlert
  <2>7. TqBudget'
    BY <1>4, <2>1, <2>2 DEF TqInv, TqBudget
  <2>8. TqPending'
    <3>1. Loaded' = Loaded
      BY <2>1 DEF Loaded
    <3>2. Loaded = [bucket |-> Loaded.bucket, override |-> Loaded.override]
      BY <1>4 DEF Snapshots
    <3>3. Snapshot' = Loaded'
      BY <2>1, <3>1, <3>2 DEF Snapshot
    <3> QED BY <2>3, <3>3 DEF TqPending
  <2> QED BY <2>4, <2>5, <2>6, <2>7, <2>8 DEF TqInv
<1> QED BY <1>5, <1>6

\* Every step of the try quota.
LEMMA TqInvStep == TqInv /\ [TqNext]_tqVars => TqInv'
<1> SUFFICES ASSUME TqInv, [TqNext]_tqVars PROVE TqInv'
  OBVIOUS
<1>1. CASE UNCHANGED tqVars
  BY <1>1 DEF tqVars, TqInv, TqType, TqShape, TqAlert, TqBudget, TqPending, TqActive, UsedToday, Loaded, Snapshot
<1>2. DOMAIN saver = Savers
  BY DEF TqInv, TqType
<1> QED BY <1>1, <1>2, ReadsStep, CallSteps, AdminAndDaySteps, TqSaveSteps, ProcessSteps DEF TqNext

-----------------------------------------------------------------------------
(* The composition                                                           *)

\* AdmissionSound, for any calls, limits, budgets and estimates: half open, the
\* identity breaker lets one call through, and in strict mode none passes
\* without a grant; a persisted row has the body once, and the log names the
\* key; a window lets no more calls through than its rate and the slots that
\* rollbacks gave away, the token window none over its limit; the try quota
\* alerts once in a window, holds calls that do not overlap to the largest
\* budget but for what one used over its estimate, and has its unsaved usage
\* on the way to the disk.
THEOREM AdmissionIsSound == PartsSpec => []AdmissionSound
<1> DEFINE Inv == GtInv /\ LmInv /\ TqInv
<1>1. PartsInit => Inv
  BY GtInvInit, LmInvInit, TqInvInit DEF PartsInit
<1> DEFINE v == <<focus, gateVars, limVars, tqVars, cacheVars, semVars, sinkVars, storeVars, processVars, reloadVars,
                  mfVars, storeFileVars, policyVars, epVars, shardVars>>
<1>2. Inv /\ [PartsNext]_v => Inv'
  <2> SUFFICES ASSUME Inv, [PartsNext]_v PROVE Inv'
    OBVIOUS
  <2>1. PartsNext => (GateNext \/ UNCHANGED gateVars) /\ (LimNext \/ UNCHANGED limVars) /\ (TqNext \/ UNCHANGED tqVars)
    BY DEF PartsNext
  <2>2. [GateNext]_gateVars /\ [LimNext]_limVars /\ [TqNext]_tqVars
    BY <2>1
  <2> QED BY <2>2, GtInvStep, LmInvStep, TqInvStep
<1>3. Inv => AdmissionSound
  BY GtInvSound, LmInvSound, TqInvSound DEF AdmissionSound
<1> QED BY <1>1, <1>2, <1>3, PTL DEF PartsSpec

\* CachesSound, for any keys, callers, payloads, sizes and limits: what the map
\* serves is in the LRU list under its key, within max_entries and with its
\* memory never over-counted, although a removal may meet an element that is
\* gone already; no refill brings a deleted value back; and the semantic cache
\* stays within its limit in both maps, newest and unexpired first, with any
\* number of embeddings in flight.
THEOREM CachesAreSound == PartsSpec => []CachesSound
<1> DEFINE Inv == CcInv /\ SmInv
<1>1. PartsInit => Inv
  BY CcInvInit, SmInvInit DEF PartsInit
<1> DEFINE v == <<focus, gateVars, limVars, tqVars, cacheVars, semVars, sinkVars, storeVars, processVars, reloadVars,
                  mfVars, storeFileVars, policyVars, epVars, shardVars>>
<1>2. Inv /\ [PartsNext]_v => Inv'
  <2> SUFFICES ASSUME Inv, [PartsNext]_v PROVE Inv'
    OBVIOUS
  <2>1. PartsNext => (CacheNext \/ UNCHANGED cacheVars) /\ (SemNext \/ UNCHANGED semVars)
    BY DEF PartsNext
  <2>2. (CacheNext \/ UNCHANGED cacheVars) /\ [SemNext]_semVars
    BY <2>1
  <2> QED BY <2>2, CcInvStep, CcInvStutter, SmInvStep
<1>3. Inv => CachesSound
  BY CcInvSound DEF CachesSound, SmInv, SemanticSound
<1> QED BY <1>1, <1>2, <1>3, PTL DEF PartsSpec

\* StoresSound, for any keys, teams, hashes, calls in progress, limits and
\* sizes: no acknowledged charge is lost and the counters of a team agree, a
\* key is found by its hash once the calls on it are over and no command
\* failed, references lead somewhere, the log holds the newest rows in pages
\* that partition them, and a completed batch has a result for every request.
THEOREM StoresAreSound == PartsSpec => []StoresSound
<1> DEFINE Inv == LogInv /\ BatchInv /\ KeyInv
<1>1. PartsInit => Inv
  BY LogInvInit, BatchInvInit, KeyInvInit DEF PartsInit
<1> DEFINE v == <<focus, gateVars, limVars, tqVars, cacheVars, semVars, sinkVars, storeVars, processVars, reloadVars,
                  mfVars, storeFileVars, policyVars, epVars, shardVars>>
<1>2. Inv /\ [PartsNext]_v => Inv'
  <2> SUFFICES ASSUME Inv, [PartsNext]_v PROVE Inv'
    OBVIOUS
  <2>1. PartsNext => StNext
    BY DEF PartsNext, StNext
  <2>2. StNext
    BY <2>1 DEF StNext
  <2> QED BY <2>2, LogInvStep, BatchInvStep, KeyInvStep
<1>3. Inv => StoresSound
  <2> SUFFICES ASSUME Inv PROVE StoresSound
    OBVIOUS
  <2>1. backend \in {"redis", "memory"}
    BY DEF BatchInv
  <2> QED BY <2>1, LogInvSound, BatchInvSound, KeyInvSound DEF StoresSound, StoreSound
<1> QED BY <1>1, <1>2, <1>3, PTL DEF PartsSpec

=============================================================================
