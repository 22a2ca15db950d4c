------------------------------ MODULE MCEngine ------------------------------
(* Instances of Engine: breaker sections, and the requests that arrive.      *)
EXTENDS Engine, TLC

Cfg(f, s, t) == [failureThreshold |-> f, successThreshold |-> s, timeout |-> t]

Patient == {Cfg(1, 2, 1)}
Strict == {Cfg(1, 1, 1)}
DisabledOrTwo == {Cfg(0, 1, 0), Cfg(2, 1, 1)}

\* A chat request that the chain sends to local.
Chat ==
    [type |-> "chat", mode |-> "hybrid", intent |-> "none", inLocalSet |-> "yes", mapped |-> TRUE,
     allowed |-> TRUE, supply |-> <<>>, exclusiveSupply |-> FALSE, cluster |-> "off", haNode |-> FALSE,
     platformNode |-> FALSE, affinity |-> "none", load |-> "ok", ready |-> TRUE, budget |-> "ok",
     full |-> FALSE, larger |-> FALSE, rerankModel |-> FALSE]

Overloaded == [Chat EXCEPT !.load = "memory_overload"]
Oversized == [Chat EXCEPT !.budget = "exceeded"]
Exclusive == [Chat EXCEPT !.mapped = FALSE, !.allowed = FALSE]

Kinds == {Overloaded, Exclusive, [Chat EXCEPT !.cluster = "node"]}
CloudKinds == {Chat, Oversized}
FallbackKinds == {Chat, Overloaded, Oversized}

\* One request of (almost) every kind: the rule chain against every breaker state.
AllKinds ==
    LET chats == {[Chat EXCEPT !.inLocalSet = m[1], !.mapped = m[2], !.allowed = m[3], !.supply = s,
                     !.cluster = n, !.load = l, !.ready = y, !.budget = t] :
                   m \in {"yes", "no"} \X BOOLEAN \X BOOLEAN, s \in {<<>>, <<"fusion-mlx", "cloud">>},
                   n \in {"none", "node"}, l \in {"ok", "memory_overload"},
                   y \in BOOLEAN, t \in {"exceeded", "ok"}}
    IN  chats
        \union {[Chat EXCEPT !.type = k, !.mode = o, !.rerankModel = e, !.ready = y] :
                  k \in {"chat", "embedding", "rerank"}, o \in {"local", "cloud", "hybrid"},
                  e \in BOOLEAN, y \in BOOLEAN}
        \union {[Chat EXCEPT !.intent = "guard"], [Chat EXCEPT !.intent = "code"],
                 [Chat EXCEPT !.intent = "platform", !.platformNode = TRUE],
                 [Chat EXCEPT !.load = "gpu_memory_low"], [Chat EXCEPT !.haNode = TRUE], [Chat EXCEPT !.affinity = "cloud"],
                 [Chat EXCEPT !.affinity = "local"], [Chat EXCEPT !.budget = "empty"],
                 [Chat EXCEPT !.inLocalSet = "no", !.larger = TRUE], [Chat EXCEPT !.full = TRUE],
                 [Chat EXCEPT !.inLocalSet = "unknown"],
                 [Chat EXCEPT !.supply = <<"disabled">>, !.exclusiveSupply = TRUE]}

Symmetry == Permutations(Requests)
=============================================================================
