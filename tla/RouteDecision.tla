--------------------------- MODULE RouteDecision ---------------------------
(***************************************************************************)
(* internal/router/engine.go: the rule chain of decideLocked, as a priority *)
(* table.  A rule is a condition and the decision it returns; the chain     *)
(* returns the decision of the first rule whose condition holds.            *)
(*                                                                          *)
(* Everything the chain reads about a request (its model, its tokens, the   *)
(* configuration it carries in its context, the hardware metrics and the    *)
(* wiring snapshot taken before the chain runs) is a record f of facts:     *)
(*   type        chat, embedding or rerank                                  *)
(*   mode        routing.mode                                               *)
(*   intent      what the classifiers made of it: none (also lightweight    *)
(*               and low confidence), guard (blocked), code (with a LoRA    *)
(*               adapter), platform (heavy model or diffusion)              *)
(*   inLocalSet  yes, no, or unknown while the model set is not warmed      *)
(*   mapped      the model has an enabled fallback.model_mapping entry      *)
(*   allowed     the model passes routing.cloud_models                      *)
(*   supply      its models.supply list: fusion-mlx, enabled or disabled    *)
(*               cloud backends; exclusiveSupply is allow_cross_supply=false*)
(*   cluster     off, none (no selectable node for the model) or node       *)
(*   haNode, platformNode                                                   *)
(*               a selectable node of the mac platform for the model, and   *)
(*               one of the intent's platform                               *)
(*   affinity    the provider its space is bound to                         *)
(*   load        the hardware rule that fires                               *)
(*   ready       the local provider is ready                                *)
(*   budget      missing, empty, exceeded, ratio or ok                      *)
(*   full        max_concurrent local requests are in flight                *)
(*   larger      a loaded context_window_fallback model                     *)
(*   rerankModel the model is a rerank model                                *)
(* b is the map of the shared breakers.                                     *)
(***************************************************************************)
EXTENDS Breaker, Sequences, SequencesExt

BackendNames == {"local", "cloud", "cluster"}

\* The names of the rules; a rule about the load has the load's name (ok has none).
Loads == {"ok", "metrics_error", "memory_overload", "mlx_memory_overload", "swap_thrashing", "gpu_memory_low"}

Reasons == Loads \union
    {"laya_guard_blocked", "mode_local", "mode_cloud", "intent_code", "intent_platform", "no_platform_node",
     "local_exclusive_model_breaker_open", "circuit_breaker_open", "cloud_models_allowlist_miss",
     "models_supply", "models_supply_miss", "local_exclusive_model", "ha_routing", "session_affinity",
     "local_not_ready", "empty_prompt_local", "token_budget", "concurrent_limit", "context_window_fallback",
     "model_not_available_locally", "local_priority", "cluster_fallback", "local_fallback",
     "embedding_local_unavailable", "embedding_local_priority", "rerank_local_available",
     "rerank_cloud_default", "half_open_probe_busy", "overflow_cooldown"}

\* A decision: where to, by which rule, whether local is tripped on the way,
\* and which breakers Admit was called on to reach it.
Decision(to, why) == [backend |-> to, reason |-> why, trip |-> FALSE, asked |-> {}]

Rejected(why) == Decision("reject", why)

FirstMatch(rules) == rules[SelectInSeq(rules, LAMBDA rule : rule.when)].then

Rule(when, then) == [when |-> when, then |-> then]

----------------------------------------------------------------------------

\* In the local set and served by no cloud backend.
localExclusive(f) == f.inLocalSet = "yes" /\ ~ f.mapped

\* A cluster node for the model, if the shared cluster breaker admits one more.
\* otherwise is what the caller does when there is none.
tryClusterLocked(f, b, otherwise) ==
    IF f.cluster = "node" /\ Admitted(b["cluster"])
    THEN [Decision("cluster", "cluster_fallback") EXCEPT !.asked = {"cluster"}]
    ELSE [otherwise EXCEPT !.asked = IF f.cluster = "off" THEN @ ELSE @ \union {"cluster"}]

\* A node of the intent's platform, and a mac node that serves the model.
tryClusterByPlatformLocked(f, b) == f.platformNode /\ Admitted(b["cluster"])

tryLocalClusterHALocked(f, b) == f.haNode /\ Admitted(b["cluster"])

\* Mutant: the fallback does not look at the local model set.
MutantCloudOrLocalIgnoresModelSet(f, b, d) ==
    IF Admitted(b["cloud"])
    THEN [d EXCEPT !.asked = @ \union {"cloud"}]
    ELSE [d EXCEPT !.asked = @ \union {"cloud"}, !.backend = "local", !.reason = "local_fallback"]

\* Cloud if its breaker admits, else local when local can serve the model.
cloudOrLocalLocked(f, b, d) ==
    IF Admitted(b["cloud"]) \/ f.inLocalSet = "no"
    THEN [d EXCEPT !.asked = @ \union {"cloud"}]
    ELSE [d EXCEPT !.asked = @ \union {"cloud"}, !.backend = "local", !.reason = "local_fallback"]

\* The rules about local's health prefer a cluster node.
cloudOrFallbackLocked(f, b, d) ==
    tryClusterLocked(f, b, cloudOrLocalLocked(f, b, d))

\* The entries of models.supply that can serve the model now; the first one does.
supplyEligible(f, b) ==
    {i \in DOMAIN f.supply :
        \/ f.supply[i] = "cloud" /\ f.allowed
        \/ f.supply[i] = "fusion-mlx" /\ f.inLocalSet = "yes" /\ f.ready /\ ~ IsOpen(b["local"])}

supplyIsLocal(f, b) ==
    \E i \in supplyEligible(f, b) : f.supply[i] = "fusion-mlx" /\ \A j \in supplyEligible(f, b) : i <= j

modelsSupplyDecision(f, b) ==
    <<Rule(supplyEligible(f, b) # {},
           IF supplyIsLocal(f, b) THEN Decision("local", "models_supply") ELSE Decision("cloud", "models_supply")),
      Rule(f.supply # <<>> /\ f.exclusiveSupply, Rejected("models_supply_miss"))>>

\* The semantic intent layer, ahead of the rules proper.
decideIntentLocked(f, b) ==
    <<Rule(f.intent = "code", Decision("local", "intent_code")),
      Rule(f.intent = "platform" /\ tryClusterByPlatformLocked(f, b),
           [Decision("cluster", "intent_platform") EXCEPT !.asked = {"cluster"}]),
      Rule(f.intent = "platform",
           [Decision("cloud", "no_platform_node") EXCEPT !.asked = {"cluster"}])>>

\* Mutant: the allowlist is checked after the hardware and size rules.
MutantNoAllowlistRule(f, b) ==
    <<Rule(IsOpen(b["local"]) /\ localExclusive(f), Rejected("local_exclusive_model_breaker_open")),
      Rule(IsOpen(b["local"]), tryClusterLocked(f, b, Decision("cloud", "circuit_breaker_open"))),
      Rule(localExclusive(f), Decision("local", "local_exclusive_model"))>>

\* P0 to P0.25: whose model it is.
modelRules(f, b) ==
    <<Rule(IsOpen(b["local"]) /\ localExclusive(f), Rejected("local_exclusive_model_breaker_open")),
      Rule(IsOpen(b["local"]), tryClusterLocked(f, b, Decision("cloud", "circuit_breaker_open"))),
      Rule(~ f.allowed, Decision("local", "cloud_models_allowlist_miss"))>>
    \o modelsSupplyDecision(f, b) \o
    <<Rule(localExclusive(f), Decision("local", "local_exclusive_model")),
      Rule(tryLocalClusterHALocked(f, b),
           [Decision("cluster", "ha_routing") EXCEPT !.asked = {"cluster"}]),
      Rule(f.affinity = "local" /\ f.ready /\ ~ IsOpen(b["local"]), Decision("local", "session_affinity")),
      Rule(f.affinity = "cloud", Decision("cloud", "session_affinity"))>>

\* P0.5 to P3: whether the local machine can take it.
healthRules(f, b) ==
    <<Rule(f.load \in {"memory_overload", "swap_thrashing"},
           [cloudOrFallbackLocked(f, b, Decision("cloud", f.load)) EXCEPT !.trip = TRUE]),
      Rule(f.load # "ok", cloudOrFallbackLocked(f, b, Decision("cloud", f.load))),
      Rule(~ f.ready, cloudOrFallbackLocked(f, b, Decision("cloud", "local_not_ready")))>>

\* P4 to P7: how large it is, how busy local is, which models are loaded.
sizeRules(f, b) ==
    <<Rule(f.budget = "empty", Decision("local", "empty_prompt_local")),
      Rule(f.budget \in {"missing", "exceeded", "ratio"},
           cloudOrLocalLocked(f, b, Decision("cloud", "token_budget"))),
      Rule(f.full, tryClusterLocked(f, b, Decision("cloud", "concurrent_limit"))),
      Rule(f.inLocalSet = "no" /\ f.larger, Decision("local", "context_window_fallback")),
      Rule(f.inLocalSet = "no",
           tryClusterLocked(f, b, Decision("cloud", "model_not_available_locally"))),
      Rule(TRUE, Decision("local", "local_priority"))>>

\* Embedding and rerank have their own short chains.
decideEmbeddingLocked(f, b) ==
    <<Rule(IsOpen(b["local"]) \/ ~ f.ready,
           tryClusterLocked(f, b, Decision("cloud", "embedding_local_unavailable"))),
      Rule(TRUE, Decision("local", "embedding_local_priority"))>>

decideRerankLocked(f, b) ==
    <<Rule(f.ready /\ f.inLocalSet = "yes" /\ f.rerankModel /\ ~ IsOpen(b["local"]),
           Decision("local", "rerank_local_available")),
      Rule(~ f.allowed, Decision("local", "cloud_models_allowlist_miss")),
      Rule(TRUE, tryClusterLocked(f, b, Decision("cloud", "rerank_cloud_default")))>>

\* mode local and mode cloud override the rules; only a blocked chat request
\* is refused before them.
modeRules(f, b) ==
    <<Rule(f.type = "chat" /\ f.intent = "guard", Rejected("laya_guard_blocked")),
      Rule(f.mode = "local", Decision("local", "mode_local")),
      Rule(f.mode = "cloud", tryClusterLocked(f, b, Decision("cloud", "mode_cloud")))>>

decideLocked(f, b) ==
    FirstMatch(modeRules(f, b) \o
        CASE f.type = "embedding" -> decideEmbeddingLocked(f, b)
          [] f.type = "rerank" -> decideRerankLocked(f, b)
          [] f.type = "chat" ->
               decideIntentLocked(f, b) \o modelRules(f, b) \o healthRules(f, b) \o sizeRules(f, b))

\* What the chain leaves in the breakers it looked at.  Every chat request of
\* mode hybrid that passes the intent layer reads local's state, and so do the
\* two short chains.
readsLocal(f) ==
    /\ f.mode = "hybrid"
    /\ CASE f.type = "embedding" -> TRUE
         [] f.type = "rerank" -> f.ready /\ f.inLocalSet = "yes" /\ f.rerankModel
         [] f.type = "chat" -> f.intent = "none"

\* Mutant: the half-open probe is taken at P0 (the code before #535).
MutantAdmitAtP0(f, b) ==
    [name \in BackendNames |->
        IF (name = "local" /\ readsLocal(f)) \/ name \in decideLocked(f, b).asked
        THEN Admit(b[name]) ELSE b[name]]

decideEffects(f, b) ==
    [name \in BackendNames |->
        CASE name = "local" -> IF readsLocal(f) THEN State(b[name]) ELSE b[name]
          [] name # "local" ->
               IF name \in decideLocked(f, b).asked THEN Admit(b[name]) ELSE b[name]]

=============================================================================
