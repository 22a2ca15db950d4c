-------------------------------- MODULE Gate --------------------------------
(***************************************************************************)
(* withMiddleware (internal/server/server.go) and the middleware chain it  *)
(* runs a call through: key authentication, the identity control plane     *)
(* with its breaker and its leases, OIDC, RBAC, scopes, prompt injection,  *)
(* budget, rate limit and try quota, the handler, and what is done when    *)
(* the handler returns.  What the last two gates count is in Limits.       *)
(*                                                                         *)
(* A middleware hands the next one a request with a derived context, so a  *)
(* value it puts there ("inner") is not in the context withMiddleware has  *)
(* ("outer"); the log entry is shared by pointer and is in both.           *)
(***************************************************************************)
EXTENDS Naturals, FiniteSets

CONSTANTS
  Calls,       \* the calls of an execution
  Arrivals,    \* what a call may bring: [cred, poll, bearer]
  IdThreshold, \* identity.breaker_threshold
  IdStrict,    \* ~identity.fallback_to_local
  LeaseLimit   \* the leases the identity service grants at once

\* A credential, by how APIKeyAuthWithStore finds it; "unchecked" is any when
\* auth is off or passes calls through.
Credentials == {"absent", "master", "config", "expired", "stored", "rotated", "disabled", "backend", "unknown",
                "adminJWT", "shellSession", "unchecked"}

\* A call may bring a bearer token, of the OIDC issuer or of another.
ASSUME GateAssumption ==
  /\ Arrivals \subseteq [cred : Credentials, poll : BOOLEAN, bearer : {"none", "oidc", "other"}]
  /\ IdThreshold \in Nat

VARIABLES
  call,        \* the state of each call
  idBreaker,   \* the breaker of the identity client
  leases       \* identity service: the leases it counts as in use

gateVars == <<call, idBreaker, leases>>

\* A context carries the lease and the tenant of the outbound headers.
NoContext == [lease |-> FALSE, tenant |-> "none"]

NewCall == [stage |-> "new", cred |-> "absent", poll |-> FALSE, bearer |-> "none",
            method |-> "none", master |-> FALSE, key |-> "none", team |-> "none",
            outer |-> NoContext, inner |-> NoContext, probe |-> FALSE, granted |-> FALSE,
            read |-> FALSE, marked |-> FALSE, copies |-> 0,
            entryKey |-> "none", logged |-> FALSE, rows |-> 0]

GateInit ==
  /\ call = [c \in Calls |-> NewCall]
  /\ idBreaker = [failures |-> 0, state |-> "closed", probing |-> FALSE]
  /\ leases = {}

Arrive(c) ==
  /\ call[c].stage = "new"
  /\ \E a \in Arrivals : call' = [call EXCEPT ![c].stage = "auth", ![c].cred = a.cred, ![c].poll = a.poll,
                                              ![c].bearer = a.bearer]
  /\ UNCHANGED <<idBreaker, leases>>

\* A gate answers the call itself: withMiddleware goes on to its last part.
Refuse(c, rec) == call' = [call EXCEPT ![c] = [rec EXCEPT !.stage = "returned"]]
Pass(c, rec, next) == call' = [call EXCEPT ![c] = [rec EXCEPT !.stage = next]]

-----------------------------------------------------------------------------
(* The body.  Reading it copies it, through a TeeReader, to the capture     *)
(* buffer; a peek puts a plain copy in its place.                           *)

captureRead(rec) == [rec EXCEPT !.read = TRUE, !.copies = IF rec.read THEN @ ELSE @ + 1]
MarkRequestBodyCaptured(rec) == [rec EXCEPT !.marked = TRUE]
\* At the end an unread body is drained, again through the TeeReader.
MutantCaptureRequest(rec) ==
  IF rec.marked THEN rec ELSE [rec EXCEPT !.marked = TRUE, !.copies = IF rec.read THEN @ ELSE @ + 2]
captureRequest(rec) == IF rec.marked THEN rec ELSE [captureRead(rec) EXCEPT !.marked = TRUE]

-----------------------------------------------------------------------------
(* Authentication                                                           *)

Management(rec) == rec.method \in {"adminJWT", "shellSession"}

\* The team of the key->team side table; config and backend keys have none.
GetTeamByKey(cred) == IF cred \in {"stored", "rotated"} THEN "keyTeam" ELSE "none"

\* A pre-rotation key counts inside the grace window only; a store error is a
\* miss, so both answers are possible for a key that lives in the store.
lookupKeyByHash(cred) ==
  CASE cred \in {"stored", "rotated"} -> {TRUE, FALSE}
    [] OTHER -> {FALSE}

Authenticated(rec, name, team) ==
  [rec EXCEPT !.method = "apikey", !.key = name, !.team = team, !.inner.tenant = team, !.entryKey = name]

\* withAdminOnly and the shell bridge their sessions before the chain runs.
APIKeyAuthWithStore(c) ==
  LET rec == call[c] IN
  /\ rec.stage = "auth"
  /\ \/ rec.cred = "unchecked" /\ Pass(c, rec, "identity")
     \/ rec.cred \in {"adminJWT", "shellSession"} /\ Pass(c, [rec EXCEPT !.method = rec.cred], "identity")
     \/ rec.cred = "master" /\ Pass(c, [Authenticated(rec, "master", "none") EXCEPT !.master = TRUE], "identity")
     \/ rec.cred \in {"config", "backend"} /\ Pass(c, Authenticated(rec, rec.cred, "none"), "identity")
     \/ TRUE \in lookupKeyByHash(rec.cred) /\ Pass(c, Authenticated(rec, rec.cred, GetTeamByKey(rec.cred)), "identity")
     \/ /\ rec.cred \notin {"adminJWT", "shellSession", "master", "config", "backend", "unchecked"}
        /\ FALSE \in lookupKeyByHash(rec.cred)
        /\ Refuse(c, rec)
  /\ UNCHANGED <<idBreaker, leases>>

-----------------------------------------------------------------------------
(* The identity control plane                                               *)

NeedsIdentity(rec) == rec.method # "adminJWT" /\ ~rec.master /\ rec.key # "none"

IdentitySkipped(c) ==
  /\ call[c].stage = "identity" /\ ~NeedsIdentity(call[c])
  /\ Pass(c, call[c], "oidc")
  /\ UNCHANGED <<idBreaker, leases>>

breakerAllows == idBreaker.state = "closed" \/ (idBreaker.state = "elapsed" /\ ~idBreaker.probing)

\* requestModel peeks at the body; then the breaker is asked.
IdentityBegins(c) ==
  /\ call[c].stage = "identity" /\ NeedsIdentity(call[c]) /\ breakerAllows
  /\ Pass(c, [captureRead(call[c]) EXCEPT !.probe = idBreaker.state = "elapsed"], "acquiring")
  /\ idBreaker' = [idBreaker EXCEPT !.probing = @ \/ idBreaker.state = "elapsed"]
  /\ UNCHANGED leases

\* On an error or an open breaker: 503, or on with the local result.
IdentityUnavailable(c, rec) == IF IdStrict THEN Refuse(c, rec) ELSE Pass(c, rec, "oidc")

IdentityBreakerOpen(c) ==
  /\ call[c].stage = "identity" /\ NeedsIdentity(call[c]) /\ ~breakerAllows
  /\ IdentityUnavailable(c, captureRead(call[c]))
  /\ UNCHANGED <<idBreaker, leases>>

recordSuccess == idBreaker' = [failures |-> 0, state |-> "closed", probing |-> FALSE]
recordFailure ==
  LET n == idBreaker.failures + 1
  IN idBreaker' = [failures |-> IF n > IdThreshold THEN IdThreshold ELSE n,
                   state |-> IF n >= IdThreshold THEN "open" ELSE idBreaker.state, probing |-> FALSE]

\* The RPC fails, runs into its deadline, or the client goes away.  The lease
\* the service may already have granted is not known to the gateway.
AuthorizeFails(c) ==
  /\ call[c].stage = "acquiring"
  /\ recordFailure
  /\ IdentityUnavailable(c, [call[c] EXCEPT !.probe = FALSE])
  /\ UNCHANGED leases

\* mapAuthErrorCode gives the status, and a denial is no failure.
AuthorizeDenied(c) ==
  /\ call[c].stage = "acquiring"
  /\ recordSuccess
  /\ Refuse(c, [call[c] EXCEPT !.probe = FALSE])
  /\ UNCHANGED leases

\* The tenant of the answer replaces the team of the key; the lease goes into
\* the context of the next handler.
AuthorizeGranted(c) ==
  /\ call[c].stage = "acquiring" /\ Cardinality(leases) < LeaseLimit
  /\ recordSuccess
  /\ leases' = leases \cup {c}
  /\ Pass(c, [call[c] EXCEPT !.probe = FALSE, !.granted = TRUE, !.team = "idTeam",
                             !.inner = [lease |-> TRUE, tenant |-> "idTeam"]], "oidc")

\* breaker_open_sec is in seconds and a call ends within deadline_ms, so the
\* calls made before the breaker opened have ended when its time is over.
CoolDownElapses ==
  /\ idBreaker.state = "open"
  /\ \A c \in Calls : call[c].stage # "acquiring"
  /\ idBreaker' = [idBreaker EXCEPT !.state = "elapsed"]
  /\ UNCHANGED <<call, leases>>

-----------------------------------------------------------------------------
(* The rest of the chain                                                    *)

\* Off, or a bearer token when no key was found: the key set is refreshed when
\* it is older than an hour, so a good token may be refused before that.
OIDC(c) ==
  LET rec == call[c]
      looks == rec.key = "none" /\ rec.bearer # "none" IN
  /\ rec.stage = "oidc"
  /\ \/ Pass(c, rec, "rbac")
     \/ looks /\ rec.bearer = "oidc" /\ Pass(c, [rec EXCEPT !.method = "oidc"], "rbac")
     \/ looks /\ Refuse(c, rec)
  /\ UNCHANGED <<idBreaker, leases>>

\* The roles a call may get: default_role, or the mapped claim when
\* trust_oidc_claims is on; the master key is inference only.
RolesOf(rec) == IF rec.master THEN {"inference"}
                ELSE {"viewer", "inference"} \cup (IF rec.method = "oidc" THEN {"editor", "admin"} ELSE {})

\* default_team or the claim replaces the team of the principal, but not a
\* tenant the context already has.
RBACAuth(c) ==
  LET rec == call[c]
      Teamed(r) == [r EXCEPT !.team = "default", !.inner.tenant = IF @ = "none" THEN "default" ELSE @] IN
  /\ rec.stage = "rbac"
  /\ \/ Pass(c, rec, "scope")
     \/ ~Management(rec) /\ Pass(c, Teamed(rec), "scope")
     \/ ~Management(rec) /\ "viewer" \in RolesOf(rec) /\ Refuse(c, rec)
  /\ UNCHANGED <<idBreaker, leases>>

ScopeEnforce(c) ==
  LET rec == call[c] IN
  /\ rec.stage = "scope"
  /\ \/ Pass(c, rec, "injection")
     \/ ~rec.master /\ rec.method = "apikey" /\ Refuse(c, rec)
  /\ UNCHANGED <<idBreaker, leases>>

PromptInjection(c) ==
  LET rec == MarkRequestBodyCaptured(captureRead(call[c])) IN
  /\ call[c].stage = "injection"
  /\ Pass(c, call[c], "budget") \/ Pass(c, rec, "budget") \/ Refuse(c, rec)
  /\ UNCHANGED <<idBreaker, leases>>

\* A quota that cannot be read refuses as well (503).
BudgetBlock(c) ==
  LET rec == call[c] IN
  /\ rec.stage = "budget"
  /\ \/ Pass(c, rec, "limits")
     \/ rec.key # "none" /\ ~rec.master /\ Refuse(c, rec)
  /\ UNCHANGED <<idBreaker, leases>>

\* RateLimit and TryQuota; estimateRequestTokens peeks at the body.
LimitsGate(c) ==
  LET rec == MarkRequestBodyCaptured(captureRead(call[c])) IN
  /\ call[c].stage = "limits"
  /\ \/ Pass(c, call[c], "run")
     \/ ~call[c].master /\ ~Management(call[c]) /\ (Pass(c, rec, "run") \/ Refuse(c, rec))
  /\ UNCHANGED <<idBreaker, leases>>

-----------------------------------------------------------------------------
(* The handler, and the end of withMiddleware                               *)

HandlerReturns(c) ==
  /\ call[c].stage = "run"
  /\ Pass(c, call[c], "returned") \/ Pass(c, captureRead(call[c]), "returned")
  /\ UNCHANGED <<idBreaker, leases>>

\* The deferred recover answers 500; what follows ServeHTTP is not run.
HandlerPanics(c) ==
  /\ call[c].stage = "run"
  /\ call' = [call EXCEPT ![c].stage = "panicked"]
  /\ UNCHANGED <<idBreaker, leases>>

\* The name auth stamped on the entry wins; the outer context has no key.
FinalizeAndAppendLog(rec) ==
  [rec EXCEPT !.logged = TRUE, !.entryKey = IF @ = "none" THEN "anonymous" ELSE @]
enqueuePersistEntry(rec) == [captureRequest(rec) EXCEPT !.rows = @ + 1]

\* The lease is looked for in the context given; the RPC, in a goroutine, is
\* taken to succeed.
releaseIdentityLease(c, ctx) == leases' = IF ctx.lease THEN leases \ {c} ELSE leases

\* A poll is not logged (isLogSkippedPoll); persistence may be off.
withMiddlewareEnds(c) ==
  LET logged == FinalizeAndAppendLog(call[c]) IN
  /\ call[c].stage = "returned"
  /\ IF call[c].poll THEN Pass(c, call[c], "ended")
     ELSE Pass(c, logged, "ended") \/ Pass(c, enqueuePersistEntry(logged), "ended")
  /\ releaseIdentityLease(c, call[c].outer)
  /\ UNCHANGED idBreaker

GateNext ==
  \/ CoolDownElapses
  \/ \E c \in Calls :
       \/ Arrive(c) \/ APIKeyAuthWithStore(c) \/ IdentitySkipped(c) \/ IdentityBegins(c) \/ IdentityBreakerOpen(c)
       \/ AuthorizeFails(c) \/ AuthorizeDenied(c) \/ AuthorizeGranted(c)
       \/ OIDC(c) \/ RBACAuth(c) \/ ScopeEnforce(c) \/ PromptInjection(c) \/ BudgetBlock(c) \/ LimitsGate(c)
       \/ HandlerReturns(c) \/ HandlerPanics(c) \/ withMiddlewareEnds(c)

GateSpec == GateInit /\ [][GateNext]_gateVars

-----------------------------------------------------------------------------
(* Properties                                                               *)

GateTypeOK ==
  /\ \A c \in Calls : call[c].cred \in Credentials /\ call[c].copies \in 0..2 /\ call[c].rows \in 0..1
  /\ idBreaker.failures \in 0..IdThreshold /\ idBreaker.state \in {"closed", "open", "elapsed"}
  /\ leases \subseteq Calls

\* Half open, the identity breaker lets one call through, and the flag that
\* says so is down again whichever way that call ends.
OneProbe ==
  LET probes == {c \in Calls : call[c].stage = "acquiring" /\ call[c].probe}
  IN Cardinality(probes) <= 1 /\ (idBreaker.probing <=> probes # {})

\* In strict mode no call with a key gets past the identity gate unless the
\* service granted it, whatever the breaker and the RPC did.
StrictNeedsGrant ==
  IdStrict => \A c \in Calls :
    call[c].stage \in {"oidc", "rbac", "scope", "injection", "budget", "limits", "run"} /\ NeedsIdentity(call[c])
      => call[c].granted

\* A persisted row carries the request body exactly once, whether a gate
\* peeked at it, the handler read it, both, or a refusal left it unread.
CapturedOnce == \A c \in Calls : call[c].rows = 1 => call[c].copies = 1

\* The log names the key a call was authenticated with, though the context
\* withMiddleware holds never learns of it.
LoggedUnderItsKey == \A c \in Calls : call[c].logged /\ call[c].key # "none" => call[c].entryKey = call[c].key

\* The chain of gates: its invariants, as one.
GateSound == GateTypeOK /\ OneProbe /\ StrictNeedsGrant /\ CapturedOnce /\ LoggedUnderItsKey

\* Refuted: a call that has ended has given its identity lease back.
LeaseReturned == \A c \in Calls : call[c].stage = "ended" => c \notin leases

\* Refuted: enqueuePersistEntry is called on every exit, a recovered panic too.
EveryExitLogged == \A c \in Calls : call[c].stage = "panicked" => call[c].logged
=============================================================================
