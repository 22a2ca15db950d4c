----------------------------- MODULE ModelPolicy -----------------------------
(* The model-policy plane: tenant policies and users' model preferences       *)
(* (internal/modelpolicy/policy.go), the endpoints that change and resolve    *)
(* them (server/modelpolicy.go) and the gate that holds a shell session's     *)
(* chat to them (chat_handlers.go:68-150).  A save collects references to the *)
(* live maps under the lock and encodes them after it is released.            *)
EXTENDS Integers, FiniteSets

CONSTANTS
  Tenants, PolicyUsers, PolicyModels,
  LocalModels,      \* models with a local backend
  NoModel,
  DefaultModel,     \* routing.default_model
  Policies,         \* the policies that administrators put
  PolicyCalls,      \* requests in progress
  MaxPolicyOps, MaxPolicyCrashes

VARIABLES
  pol,              \* [Tenants -> policy]
  pref,             \* [Tenants -> [PolicyUsers -> model or NoModel]], for one module
  polFile,          \* [pol, pref]: model_policy.json
  pc,               \* [PolicyCalls -> request]
  polOps, polCrashes

policyVars == <<pol, pref, polFile, pc, polOps, polCrashes>>

Policy == [default : PolicyModels \cup {NoModel}, override : PolicyModels \cup {NoModel},
           allow : SUBSET PolicyModels, localOnly : BOOLEAN]
ZeroPolicy == [default |-> NoModel, override |-> NoModel, allow |-> {}, localOnly |-> FALSE]

ASSUME PolicyAssumption == Policies \subseteq Policy

\* maps: the preference maps that a save collected, by tenant and user.
NoPolicyCall == [at |-> "idle", t |-> NoModel, u |-> NoModel, m |-> NoModel, maps |-> {}]

-----------------------------------------------------------------------------
(* Resolution.                                                              *)

PrefOK(t, u) == pref[t][u] # NoModel /\ (pol[t].allow # {} => pref[t][u] \in pol[t].allow)

\* The four links of the chain, highest first; override and preference belong
\* to a module, and a chat names none.
PolicyChain(t, u, module) ==
  << IF module THEN pol[t].override ELSE NoModel,
     IF module /\ PrefOK(t, u) THEN pref[t][u] ELSE NoModel,
     pol[t].default,
     DefaultModel >>

Permitted(t, m) == m # NoModel /\ (pol[t].localOnly => m \in LocalModels)

Resolve(t, u, module) ==
  LET chain == PolicyChain(t, u, module)
      links == {i \in 1 .. 4 : Permitted(t, chain[i])}
      first == CHOOSE i \in links : \A j \in links : i <= j
  IN  IF links = {} THEN [model |-> NoModel, source |-> 0] ELSE [model |-> chain[first], source |-> first]

\* The models that the shell's picker offers.
handleShellModelPolicy(t) == IF pol[t].localOnly THEN pol[t].allow \cap LocalModels ELSE pol[t].allow

\* The gate of a shell session's chat; no allowlist admits nothing.
modelPolicyAllowsModel(t, m) == m \in pol[t].allow /\ (pol[t].localOnly => m \in LocalModels)

-----------------------------------------------------------------------------
(* The requests.                                                            *)

PolicyStart(c, q) ==
  /\ pc[c] = NoPolicyCall
  /\ polOps < MaxPolicyOps
  /\ polOps' = polOps + 1
  /\ pc' = [pc EXCEPT ![c] = q]

\* A policy is replaced whole; the save follows.
SetPolicy(c, t, p) ==
  /\ PolicyStart(c, [NoPolicyCall EXCEPT !.at = "save"])
  /\ pol' = [pol EXCEPT ![t] = p]
  /\ UNCHANGED <<pref, polFile, polCrashes>>

\* The allowlist is read under one lock and the preference written under
\* another.
SetUserPreference(c, t, u, m) ==
  /\ pol[t].allow # {} => m \in pol[t].allow
  /\ PolicyStart(c, [NoPolicyCall EXCEPT !.at = "prefer", !.t = t, !.u = u, !.m = m])
  /\ UNCHANGED <<pol, pref, polFile, polCrashes>>

StorePreference(c) ==
  /\ pc[c].at = "prefer"
  /\ pref' = [pref EXCEPT ![pc[c].t][pc[c].u] = pc[c].m]
  /\ pc' = [pc EXCEPT ![c] = [NoPolicyCall EXCEPT !.at = "save"]]
  /\ UNCHANGED <<pol, polFile, polOps, polCrashes>>

\* The last preference of a user takes the user's map along: a save that
\* collected that map now holds an empty one.
DeleteUserPreference(c, t, u) ==
  /\ pc[c] = NoPolicyCall
  /\ polOps < MaxPolicyOps
  /\ polOps' = polOps + 1
  /\ pref' = [pref EXCEPT ![t][u] = NoModel]
  /\ pc' = [d \in PolicyCalls |-> IF d = c THEN [NoPolicyCall EXCEPT !.at = "save"]
                                  ELSE [pc[d] EXCEPT !.maps = @ \ {<<t, u>>}]]
  /\ UNCHANGED <<pol, polFile, polCrashes>>

\* A shell session's chat without a model takes the tenant's, or, when there
\* is none, the default or a loaded one; a language hint may rewrite it.
Backfill(c, t, u, asked) ==
  LET resolved == IF pol[t].allow # {} THEN Resolve(t, u, FALSE).model ELSE NoModel
      models == IF asked # NoModel THEN {asked} ELSE IF resolved # NoModel THEN {resolved} ELSE PolicyModels \cup {NoModel}
  IN  /\ \E m \in models : PolicyStart(c, [NoPolicyCall EXCEPT !.at = "gate", !.t = t, !.u = u, !.m = m])
      /\ UNCHANGED <<pol, pref, polFile, polCrashes>>

\* The policy is read again at the gate.
PolicyGate(c) ==
  /\ pc[c].at = "gate"
  /\ pc' = [pc EXCEPT ![c] = IF modelPolicyAllowsModel(pc[c].t, pc[c].m) THEN [@ EXCEPT !.at = "chat"] ELSE NoPolicyCall]
  /\ UNCHANGED <<pol, pref, polFile, polOps, polCrashes>>

ChatEnds(c) ==
  /\ pc[c].at = "chat"
  /\ pc' = [pc EXCEPT ![c] = NoPolicyCall]
  /\ UNCHANGED <<pol, pref, polFile, polOps, polCrashes>>

-----------------------------------------------------------------------------
(* save(): collect under the lock, encode and write under saveMu.           *)

CollectMaps(c) ==
  /\ pc[c].at = "save"
  /\ pc' = [pc EXCEPT ![c].at = "encode", ![c].maps = {x \in Tenants \X PolicyUsers : pref[x[1]][x[2]] # NoModel}]
  /\ UNCHANGED <<pol, pref, polFile, polOps, polCrashes>>

EncodeMaps(c) ==
  /\ pc[c].at = "encode"
  /\ polFile' = [pol |-> pol, pref |-> [t \in Tenants |-> [u \in PolicyUsers |->
                    IF <<t, u>> \in pc[c].maps THEN pref[t][u] ELSE NoModel]]]
  /\ pc' = [pc EXCEPT ![c] = NoPolicyCall]
  /\ UNCHANGED <<pol, pref, polOps, polCrashes>>

\* A crash and a restart.  The runtime itself stops the process when a map is
\* written while a save encodes it.
PolicyLoad ==
  /\ polCrashes < MaxPolicyCrashes
  /\ polCrashes' = polCrashes + 1
  /\ pol' = polFile.pol /\ pref' = polFile.pref
  /\ pc' = [c \in PolicyCalls |-> NoPolicyCall]
  /\ UNCHANGED <<polFile, polOps>>

PolicyInit ==
  /\ pol = [t \in Tenants |-> ZeroPolicy]
  /\ pref = [t \in Tenants |-> [u \in PolicyUsers |-> NoModel]]
  /\ polFile = [pol |-> pol, pref |-> pref]
  /\ pc = [c \in PolicyCalls |-> NoPolicyCall]
  /\ polOps = 0 /\ polCrashes = 0

PolicyNext ==
  \/ \E c \in PolicyCalls :
       \/ \E t \in Tenants, p \in Policies : SetPolicy(c, t, p)
       \/ \E t \in Tenants, u \in PolicyUsers, m \in PolicyModels : SetUserPreference(c, t, u, m)
       \/ \E t \in Tenants, u \in PolicyUsers : DeleteUserPreference(c, t, u)
       \/ \E t \in Tenants, u \in PolicyUsers, m \in PolicyModels \cup {NoModel} : Backfill(c, t, u, m)
       \/ StorePreference(c) \/ PolicyGate(c) \/ ChatEnds(c) \/ CollectMaps(c) \/ EncodeMaps(c)
  \/ PolicyLoad

-----------------------------------------------------------------------------
PolicyTypeOK ==
  /\ pol \in [Tenants -> Policy]
  /\ pref \in [Tenants -> [PolicyUsers -> PolicyModels \cup {NoModel}]]

\* Whatever raced with whatever, and after a restart: a preference wins only
\* while the allowlist admits it, and a tenant pinned to local models is never
\* answered with another (policy.go:221-232, policy.go:248-250).
ResolutionSound ==
  \A t \in Tenants, u \in PolicyUsers, module \in BOOLEAN :
    LET d == Resolve(t, u, module)
    IN  /\ d.source = 2 /\ pol[t].allow # {} => d.model \in pol[t].allow
        /\ pol[t].localOnly => d.model \in LocalModels \cup {NoModel}

\* The picker offers exactly what the gate of a chat admits
\* (chat_handlers.go:131-135 "Enforce the same tenant policy the picker
\* renders").
PickerMatchesGate ==
  \A t \in Tenants, m \in PolicyModels : m \in handleShellModelPolicy(t) <=> modelPolicyAllowsModel(t, m)

\* With no request in progress a restart finds every policy as it is, and no
\* preference but the ones that are set: one that was cleared stays cleared
\* although an older save may be written last (policy.go:302-320).
PolicyDurable ==
  (\A c \in PolicyCalls : pc[c].at \notin {"save", "encode"}) =>
    /\ polFile.pol = pol
    /\ \A t \in Tenants, u \in PolicyUsers : polFile.pref[t][u] \in {pref[t][u], NoModel}

\* Refuted: a save that collected its maps before a user's first preference
\* may write last, and the file then lacks that preference.
PreferenceDurable == (\A c \in PolicyCalls : pc[c].at \notin {"save", "encode"}) => polFile.pref = pref

\* Refuted: nothing puts a tenant's default model on its own allowlist, so a
\* chat without a model may be refused at the gate (chat_handlers.go:70-75).
DefaultAdmitted ==
  \A t \in Tenants, u \in PolicyUsers :
    pol[t].allow # {} /\ pol[t].default # NoModel => modelPolicyAllowsModel(t, Resolve(t, u, FALSE).model)
=============================================================================
