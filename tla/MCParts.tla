------------------------------- MODULE MCParts -------------------------------
(* The parts around a request that are checked for safety: the middleware     *)
(* chain, the rate limiter, the try quota, the response and semantic caches,  *)
(* the log sink, the stores, the process itself, the web shell and the        *)
(* endpoints beside chat.  They share no state, so a behaviour follows one of *)
(* them, the one "focus" names, while the others stay as they began.          *)
EXTENDS Gate, Limits, TryQuota, Cache, SemanticCache, Sink, Stores, Lifecycle,
        Manifests, ShellAdmin, ModelPolicy, Endpoints

CONSTANTS p1, p2, g1, m1, localModel, cloudModel

\* The process whose service keys are followed accepts their module.
ASSUME PartsAssumption == g1 \in Gateways /\ m1 \in Modules /\ Valid(g1, m1)

VARIABLE focus

Parts == {"gate", "limits", "quota", "cache", "semantic", "sink", "keys", "teams", "logs", "batch",
          "process", "reload", "manifests", "servicekeys", "accounts", "surfaces", "policy", "endpoints", "shards"}

\* Every credential once; a bearer token where no key is found; a poll.
AnyCall == [cred : Credentials, poll : {FALSE}, bearer : {"none"}] \cup
           {[cred |-> "unchecked", poll |-> FALSE, bearer |-> "oidc"],
            [cred |-> "adminJWT", poll |-> FALSE, bearer |-> "other"],
            [cred |-> "stored", poll |-> TRUE, bearer |-> "none"]}

\* p1 and p2 are paraphrases of each other; other payloads are far apart.
Cosines == [p \in Payloads |-> [q \in Payloads |-> IF p = q THEN 10 ELSE IF {p, q} = {p1, p2} THEN 9 ELSE 3]]

\* The second gateway's allowlist admits the first module only.
Allowlists == [g \in Gateways |-> IF g = g1 THEN Modules ELSE {m1}]

\* The config lists every account as an administrator.
AllAdmins == [u \in ShUsers |-> [NewAccount EXCEPT !.roles = {"admin"}]]

\* No policy; a default off the allowlist; the same, pinned to local models;
\* a cloud override under the pin.
SomePolicies == {ZeroPolicy,
                 [ZeroPolicy EXCEPT !.allow = {localModel}, !.default = cloudModel],
                 [ZeroPolicy EXCEPT !.allow = {cloudModel}, !.default = localModel, !.localOnly = TRUE],
                 [ZeroPolicy EXCEPT !.override = cloudModel, !.localOnly = TRUE]}

PartsInit ==
  /\ GateInit /\ LimInit /\ TqInit /\ CacheInit /\ SemInit /\ SinkInit /\ StoresInit
  /\ ProcessInit /\ ReloadInit /\ MfInit /\ StoreFileInit /\ PolicyInit /\ EpInit /\ ShardInit
  /\ focus \in Parts
  /\ focus # "cache" => limits.bytes = 1
  /\ focus \notin {"teams", "logs", "batch"} => backend = "redis"
  /\ focus # "process" => engine = "down"
  /\ focus # "reload" => withMLX = {}
  /\ mfFaults = (IF focus = "servicekeys" THEN MaxMfFaults ELSE 0)
  /\ focus # "surfaces" => mem["audit"] = <<>>
  /\ shOps = (IF focus \in {"accounts", "surfaces"} THEN 1 ELSE 0)

PartsNext ==
  /\ UNCHANGED focus
  /\ IF focus = "gate" THEN GateNext ELSE UNCHANGED gateVars
  /\ IF focus = "limits" THEN LimNext ELSE UNCHANGED limVars
  /\ IF focus = "quota" THEN TqNext ELSE UNCHANGED tqVars
  /\ IF focus = "cache" THEN CacheNext ELSE UNCHANGED cacheVars
  /\ IF focus = "semantic" THEN SemNext ELSE UNCHANGED semVars
  /\ IF focus = "sink" THEN SinkNext ELSE UNCHANGED sinkVars
  /\ CASE focus = "keys" -> \E c \in StCalls : CallStep(c)
       [] focus = "teams" -> TeamsStep
       [] focus = "logs" -> LogStep
       [] focus = "batch" -> BatchStep
       [] OTHER -> UNCHANGED storeVars
  /\ IF focus = "process" THEN ProcessNext ELSE UNCHANGED processVars
  /\ IF focus = "reload" THEN ReloadNext ELSE UNCHANGED reloadVars
  /\ CASE focus = "manifests" -> RegistryNext
       [] focus = "servicekeys" -> ServiceKeyNext(g1, m1)
       [] OTHER -> UNCHANGED mfVars
  /\ CASE focus = "accounts" -> AccountsNext
       [] focus = "surfaces" -> SurfacesNext
       [] OTHER -> UNCHANGED storeFileVars
  /\ IF focus = "policy" THEN PolicyNext ELSE UNCHANGED policyVars
  /\ IF focus = "endpoints" THEN EpNext ELSE UNCHANGED epVars
  /\ IF focus = "shards" THEN ShardNext ELSE UNCHANGED shardVars

PartsSpec == PartsInit /\ [][PartsNext]_<<focus, gateVars, limVars, tqVars, cacheVars, semVars, sinkVars, storeVars,
                                              processVars, reloadVars, mfVars, storeFileVars, policyVars, epVars, shardVars>>

-----------------------------------------------------------------------------
(* The invariants of each part, in the behaviours that follow it.           *)

\* What a request passes before its handler: the chain, the rate limiter and
\* the try quota keep their invariants.
AdmissionSound ==
  /\ focus = "gate" => GateSound
  /\ focus = "limits" => LimitsSound
  /\ focus = "quota" => TryQuotaSound

\* What a cache answers: the two-tier response cache and the semantic cache
\* keep their invariants.
CachesSound ==
  /\ focus = "cache" => CacheSound
  /\ focus = "semantic" => SemanticSound

\* The log sink loses, repeats and reorders no entry but those it counts as
\* dropped.
LogSinkSound == focus = "sink" => SinkSound

\* The stores keep charges, counters, keys, references, logs and batches.
StoresSound == focus \in {"keys", "teams", "logs", "batch"} => StoreSound

\* Start, reload and teardown of gateway processes keep their order.
ProcessSound == focus \in {"process", "reload"} => LifecycleSound

\* The web shell keeps registrations, service keys, accounts, store files, the
\* audit chain and the model policies.
ShellSound ==
  /\ focus \in {"manifests", "servicekeys"} => MfTypeOK /\ RegistrationsKept /\ CredentialsAgree
  /\ focus = "servicekeys" => KeysDurable(g1, m1)
  /\ focus \in {"accounts", "surfaces"} => ShTypeOK /\ SavesAtomic /\ AnAdminRemains /\ ChainIntact
  /\ focus = "policy" => PolicyTypeOK /\ ResolutionSound /\ PickerMatchesGate /\ PolicyDurable

\* The endpoints beside chat return their slots, keep the task registry and
\* record what they answered; a sharded batch is whole or an error.
EndpointsSound ==
  /\ focus = "endpoints" => EpTypeOK /\ SlotsReturned /\ RegistryLive /\ CancelledByOwner /\ OutcomeFitsAnswer
  /\ focus = "shards" => ShardsComplete
=============================================================================
