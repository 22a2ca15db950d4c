----------------------------- MODULE ConfigStore -----------------------------
(***************************************************************************)
(* config.yaml and the snapshot the gateway serves from.  Four parties     *)
(* write and read it without a common lock: the admin endpoints            *)
(* (internal/admin/config_handlers.go, config_yaml.go, the routing and     *)
(* backend endpoints of handler.go), an operator's editor, the reloads of  *)
(* the file watcher and of POST /admin/config/reload with their recovery   *)
(* from the last-good copy (internal/config/guard.go, config.go), and the  *)
(* start of the process.                                                   *)
(*                                                                         *)
(* A document is what the properties tell apart: whether it parses, which  *)
(* rules of validate it breaks, whose changes it has and one secret.       *)
(***************************************************************************)
EXTENDS Naturals, FiniteSets

CONSTANTS
  Writers,    \* admin calls that change the file, at once
  Reloaders,  \* a subset of {"watch", "manual"}
  Breakable,  \* the rules of validate an external edit may break
  MaxEdits,   \* external edits (a bound of the model)
  CfgMaxCrashes  \* crashes (a bound of the model)

\* The sections of type Config that an endpoint or a rule is about.
Sections ==
  {"server", "network", "auth", "routing", "cloud_routing", "pricing", "try_quota", "guardrails", "observability",
   "backends", "admin", "cache", "cluster", "oidc", "encryption", "managed_settings", "identity", "web_shell", "mcp",
   "browser", "cost_markup", "pii", "hardware", "tokenizer", "cors", "hot_reload", "realtime", "rbac", "team",
   "semantic_cache", "prompt_injection", "batch", "store", "validation", "persistence", "models"}

-----------------------------------------------------------------------------
(* validate: a rule is the set of the sections it reads.                    *)

ServerRules == {{"server"}, {"network", "auth"}}
RequestRules == {{"routing"}, {"cloud_routing"}, {"pricing"}, {"try_quota"}, {"guardrails"}, {"observability"}}
AdminRules == {{"routing"}, {"backends", "validation"}, {"admin"}, {"cache"}}
BackendRules == {{"routing"}, {"backends"}, {"cluster"}}
SecretRules == {{"auth"}, {"oidc", "encryption"}, {"cluster"}}
IdentityRules == {{"managed_settings"}, {"identity"}}
ShellRules == {{"web_shell", "auth"}}
ExtensionRules == {{"server"}, {"mcp", "auth"}, {"browser"}}
ModelRules == {{"models", "backends"}}
PersistenceRules == {{"persistence"}}
Rules == UNION {ServerRules, RequestRules, AdminRules, BackendRules, SecretRules, IdentityRules, ShellRules,
                ExtensionRules, ModelRules, PersistenceRules}

(***************************************************************************)
(* The endpoints: the sections a PUT changes, and what becomes of a secret *)
(* it does not send or sends back masked: there is none, it is kept from   *)
(* the file, or it is copied from the snapshot.                            *)
(***************************************************************************)
Endpoint(sections, secret) == [sections |-> sections, secret |-> secret]

handleServerConfig == Endpoint({"server"}, "none")
handleRateLimitConfig == Endpoint({"routing"}, "none")
handleRetryConfig == Endpoint({"routing"}, "none")
handleNegotiationConfig == Endpoint({"routing"}, "none")
handleUpdateRoutingConfig == Endpoint({"routing"}, "none")
handleCacheConfig == Endpoint({"cache"}, "file")
handleCostMarkupConfig == Endpoint({"cost_markup"}, "none")
handlePIIConfig == Endpoint({"pii"}, "none")
handleCloudRoutingConfig == Endpoint({"cloud_routing"}, "none")
handleHardwareConfig == Endpoint({"hardware"}, "none")
handleTokenizerConfig == Endpoint({"tokenizer"}, "none")
handleObservabilityConfig == Endpoint({"observability"}, "none")
handleCORSConfig == Endpoint({"cors"}, "none")
handleHotReloadConfig == Endpoint({"hot_reload"}, "none")
handleClusterConfig == Endpoint({"cluster"}, "file")
handleRealtimeConfig == Endpoint({"realtime"}, "file")
handleAdminConfig == Endpoint({"admin"}, "file")
handleOIDCConfig == Endpoint({"oidc"}, "none")
handleRBACConfig == Endpoint({"rbac", "team"}, "none")
handleSemanticCacheConfig == Endpoint({"semantic_cache"}, "none")
handlePromptInjectionConfig == Endpoint({"prompt_injection"}, "file")
handleBatchConfig == Endpoint({"batch"}, "none")
handleStoreConfig == Endpoint({"store"}, "file")
handleValidationConfig == Endpoint({"validation"}, "none")
handleAuthConfig == Endpoint({"auth"}, "snapshot")
handlePersistenceConfig == Endpoint({"persistence"}, "none")
handleFindingApply == Endpoint({"models"}, "none")
createBackend == Endpoint({"backends"}, "none")
deleteBackend == Endpoint({"backends"}, "none")
handleBackendByName == Endpoint({"backends"}, "file")

Endpoints ==
  {handleServerConfig, handleRateLimitConfig, handleRetryConfig, handleNegotiationConfig, handleUpdateRoutingConfig,
   handleCacheConfig, handleCostMarkupConfig, handlePIIConfig, handleCloudRoutingConfig, handleHardwareConfig,
   handleTokenizerConfig, handleObservabilityConfig, handleCORSConfig, handleHotReloadConfig, handleClusterConfig,
   handleRealtimeConfig, handleAdminConfig, handleOIDCConfig, handleRBACConfig, handleSemanticCacheConfig,
   handlePromptInjectionConfig, handleBatchConfig, handleStoreConfig, handleValidationConfig, handleAuthConfig,
   handlePersistenceConfig, handleFindingApply, createBackend, deleteBackend, handleBackendByName}

ASSUME ConfigStoreAssumption ==
  /\ Breakable \subseteq Rules /\ UNION Rules \subseteq Sections /\ Reloaders \subseteq {"watch", "manual"}
  /\ \A e \in Endpoints : e.sections \subseteq Sections
  /\ MaxEdits \in Nat /\ CfgMaxCrashes \in Nat

-----------------------------------------------------------------------------
VARIABLES
  file, lastGood, \* config.yaml and config.yaml.lastgood
  live,      \* the snapshot, and whether its backend keys are decrypted
  put,       \* put[w]: where an admin call is, and the document it writes
  rel,       \* rel[p]: where a reload is, and the document it read
  event,     \* a change of the file the watcher has not heard of yet
  up,        \* "boot", "restore", "up" or "fatal"
  edits, cfgCrashes \* external edits and crashes so far

cfgVars == <<file, lastGood, live, put, rel, event, up, edits, cfgCrashes>>

\* A document.  An edit gives it a new revision; an absent file is a document.
Doc(text, bad, has, secret, rev) == [text |-> text, bad |-> bad, has |-> has, secret |-> secret, rev |-> rev]
Missing == Doc("missing", {}, {}, "old", 0)

\* What Load seeds a document with: a file that leaves a section out breaks no
\* rule about it.
DefaultConfig == Doc("yaml", {}, {}, "old", 0)

Parses(d) == d.text = "yaml"
Loadable(d) == Parses(d) /\ d.bad = {}

IdlePut == [pc |-> "idle", doc |-> Missing]
IdleReload == [pc |-> "idle", doc |-> Missing]

ConfigInit ==
  /\ file = DefaultConfig /\ lastGood = Missing /\ live = [doc |-> Missing, decrypted |-> FALSE]
  /\ put = [w \in Writers |-> IdlePut] /\ rel = [p \in Reloaders |-> IdleReload]
  /\ event = FALSE /\ up = "boot" /\ edits = 0 /\ cfgCrashes = 0

-----------------------------------------------------------------------------
(* The admin endpoints.  configMutex is held from the read of the file to   *)
(* the end of the reload.                                                   *)

MutantConfigMutexFree == TRUE

ConfigMutexFree == \A w \in Writers : put[w].pc \in {"idle", "saved", "refused"}

\* A masked or an empty value is not written.
ApplyMaskedString(old, val) == IF val \in {"empty", "masked"} THEN old ELSE val

\* The mutated document: the endpoint's sections are as the request wants
\* them, so the rules that read no other section hold; the rest is kept.
Mutated(d, w, e, val) ==
  [d EXCEPT !.has = @ \cup {w}, !.bad = {r \in @ : r \cap e.sections = {}},
            !.secret = CASE e.secret = "none" -> @
                         [] e.secret = "file" -> ApplyMaskedString(@, val)
                         [] e.secret = "snapshot" -> ApplyMaskedString(live.doc.secret, val)]

\* readYAMLDoc, the mutation and ProbeValidate: a file that does not parse and
\* a document that does not validate are refused, with the file unchanged.
PutBegins(w, e, val) ==
  /\ up = "up" /\ put[w].pc = "idle" /\ ConfigMutexFree
  /\ Parses(file) /\ Loadable(Mutated(file, w, e, val))
  /\ put' = [put EXCEPT ![w] = [pc |-> "backup", doc |-> Mutated(file, w, e, val)]]
  /\ UNCHANGED <<file, lastGood, live, rel, event, up, edits, cfgCrashes>>

PutRefused(w) ==
  /\ up = "up" /\ put[w].pc = "idle" /\ ConfigMutexFree
  /\ put' = [put EXCEPT ![w].pc = "refused"]
  /\ UNCHANGED <<file, lastGood, live, rel, event, up, edits, cfgCrashes>>

\* BackupFile: the bytes of the file as they are now; nothing to copy when it
\* does not exist.
BackupFile == lastGood' = IF file = Missing THEN lastGood ELSE file

PutBackup(w) ==
  /\ put[w].pc = "backup" /\ BackupFile
  /\ put' = [put EXCEPT ![w].pc = "write"]
  /\ UNCHANGED <<file, live, rel, event, up, edits, cfgCrashes>>

\* The rename of atomicWriteFile.
PutRename(w) ==
  /\ put[w].pc = "write"
  /\ file' = put[w].doc /\ event' = TRUE
  /\ put' = [put EXCEPT ![w].pc = "reread"]
  /\ UNCHANGED <<lastGood, live, rel, up, edits, cfgCrashes>>

\* config.Reload: the file as it is now; a failure is reported as a stale
\* live configuration.
PutReread(w) ==
  /\ put[w].pc = "reread"
  /\ put' = [put EXCEPT ![w] = IF Loadable(file) THEN [pc |-> "commit", doc |-> file] ELSE [pc |-> "refused", doc |-> Missing]]
  /\ UNCHANGED <<file, lastGood, live, rel, event, up, edits, cfgCrashes>>

MutantReloaded(d) == live

\* The handlers run and the snapshot is swapped, both under reloadMu. Reload
\* does not decrypt the backend keys that Load decrypts.
Reloaded(d) == [doc |-> d, decrypted |-> FALSE]

PutCommit(w) ==
  /\ put[w].pc = "commit"
  /\ live' = Reloaded(put[w].doc)
  /\ put' = [put EXCEPT ![w] = [pc |-> "saved", doc |-> Missing]]
  /\ UNCHANGED <<file, lastGood, rel, event, up, edits, cfgCrashes>>

-----------------------------------------------------------------------------
(* ReloadWithRecovery, by the watcher and by POST /admin/config/reload.     *)

\* The file as it is now, or the last-good copy when it does not load.
ReloadBegins(p) ==
  /\ up = "up" /\ rel[p].pc = "idle"
  /\ IF p = "watch" THEN event /\ event' = FALSE ELSE UNCHANGED event
  /\ rel' = [rel EXCEPT ![p] = CASE Loadable(file) -> [pc |-> "commit", doc |-> file]
                                 [] ~Loadable(file) /\ Loadable(lastGood) -> [pc |-> "recover", doc |-> lastGood]
                                 [] OTHER -> IdleReload]
  /\ UNCHANGED <<file, lastGood, live, put, up, edits, cfgCrashes>>

ReloadCommits(p) ==
  /\ rel[p].pc \in {"commit", "recover"}
  /\ live' = Reloaded(rel[p].doc)
  /\ rel' = [rel EXCEPT ![p] = IF rel[p].pc = "commit" THEN IdleReload ELSE [pc |-> "quarantine", doc |-> lastGood]]
  /\ UNCHANGED <<file, lastGood, put, event, up, edits, cfgCrashes>>

\* The rename of whatever is at the path now; the recovery ends when there is
\* nothing there.
ReloadQuarantines(p) ==
  /\ rel[p].pc = "quarantine"
  /\ rel' = [rel EXCEPT ![p] = IF file = Missing THEN IdleReload ELSE [@ EXCEPT !.pc = "restore"]]
  /\ file' = Missing
  /\ UNCHANGED <<lastGood, live, put, event, up, edits, cfgCrashes>>

ReloadRestores(p) ==
  /\ rel[p].pc = "restore"
  /\ file' = rel[p].doc /\ event' = TRUE
  /\ rel' = [rel EXCEPT ![p] = IdleReload]
  /\ UNCHANGED <<lastGood, live, put, up, edits, cfgCrashes>>

-----------------------------------------------------------------------------
(* The operator's editor, the start of the process and its crash.           *)

\* An edit keeps what it does not change; it may break a rule or the syntax.
ExternalEdit(text, bad) ==
  /\ file # Missing /\ edits < MaxEdits /\ edits' = edits + 1
  /\ file' = [file EXCEPT !.text = text, !.bad = bad, !.rev = edits + 1]
  /\ event' = (up = "up")
  /\ UNCHANGED <<lastGood, live, put, rel, up, cfgCrashes>>

\* LoadWithRecovery: Load and a fresh copy; or the last-good copy, the broken
\* file moved aside; fatal without one, and when there is nothing to move.
Boot ==
  /\ up = "boot"
  /\ LET found == IF Loadable(file) THEN file ELSE lastGood
     IN  IF Loadable(found) /\ file # Missing
           THEN /\ live' = [doc |-> found, decrypted |-> TRUE]
                /\ up' = IF found = file THEN "up" ELSE "restore"
                /\ IF found = file THEN BackupFile /\ UNCHANGED file ELSE file' = Missing /\ UNCHANGED lastGood
           ELSE up' = "fatal" /\ UNCHANGED <<live, file, lastGood>>
  /\ UNCHANGED <<put, rel, event, edits, cfgCrashes>>

BootRestores ==
  /\ up = "restore" /\ up' = "up"
  /\ file' = lastGood
  /\ UNCHANGED <<lastGood, live, put, rel, event, edits, cfgCrashes>>

CrashProcess ==
  /\ up \in {"up", "restore"} /\ cfgCrashes < CfgMaxCrashes /\ cfgCrashes' = cfgCrashes + 1
  /\ up' = "boot" /\ event' = FALSE
  /\ put' = [w \in Writers |-> IF put[w].pc \in {"saved", "idle"} THEN put[w] ELSE [put[w] EXCEPT !.pc = "refused"]]
  /\ rel' = [p \in Reloaders |-> IdleReload]
  /\ UNCHANGED <<file, lastGood, live, edits>>

PutStep(w) == PutBackup(w) \/ PutRename(w) \/ PutReread(w) \/ PutCommit(w)
ReloadStep(p) == ReloadCommits(p) \/ ReloadQuarantines(p) \/ ReloadRestores(p)

ConfigNext ==
  \/ \E w \in Writers : \/ \E e \in Endpoints, v \in {"empty", "masked", "new"} : PutBegins(w, e, v)
                        \/ PutRefused(w) \/ PutStep(w)
  \/ \E p \in Reloaders : ReloadBegins(p) \/ ReloadStep(p)
  \/ ExternalEdit("garbage", {}) \/ \E b \in SUBSET Breakable : ExternalEdit("yaml", b)
  \/ Boot \/ BootRestores \/ CrashProcess

\* A call goes on; a change of the file is heard of; the start goes on.
ConfigFairness ==
  /\ \A w \in Writers : WF_cfgVars(PutStep(w))
  /\ \A p \in Reloaders : WF_cfgVars(ReloadStep(p)) /\ WF_cfgVars(p = "watch" /\ ReloadBegins(p))
  /\ WF_cfgVars(BootRestores)

ConfigSpec == ConfigInit /\ [][ConfigNext]_cfgVars /\ ConfigFairness /\ WF_cfgVars(Boot)
-----------------------------------------------------------------------------
(* Properties *)

Saved == {w \in Writers : put[w].pc = "saved"}

\* As long as nobody edits the file by hand, a crash at any step finds a file
\* that loads, with every change that was reported saved, and a last-good copy
\* that loads: concurrent endpoints do not overwrite each other.
SavedSurvives == edits = 0 => Loadable(file) /\ Saved \subseteq file.has /\ (lastGood # Missing => Loadable(lastGood))

\* What GET shows instead of a secret is never taken for the secret.
SecretsNeverMasked == \A d \in {file, lastGood, live.doc} : d.secret \in {"old", "new"}

\* No document that does not load is ever served from.
ServedLoads == up = "up" => Loadable(live.doc)

ConfigSound == SavedSurvives /\ SecretsNeverMasked /\ ServedLoads

\* Unless the file is edited by hand, the gateway ends up serving what it
\* says: a reload of the watcher that read an older file and commits late is
\* followed by another one.  (An edit between the read and the commit of an
\* endpoint's own reload is not: reloadMu covers the commit only.)
SnapshotCatchesUp == <>[](edits = 0 /\ up = "up" => live.doc = file)

\* Refuted: "saved" means that the snapshot was updated, not just that the
\* file was written (config_yaml.go on its explicit reload).  A recovery that
\* saw an edit by hand may quarantine what an endpoint has written since.
SavedIsLive ==
  \A w \in Saved : up = "up" /\ ~event /\ (\A x \in Writers : put[x].pc \in {"idle", "saved", "refused"})
                   /\ (\A p \in Reloaders : rel[p].pc = "idle") /\ w \in file.has => w \in live.doc.has

\* Refuted: a start is fatal only when there is no last-good copy or it is
\* broken (guard.go on LoadWithRecovery).  A crash after the quarantine leaves
\* no config.yaml, and the next recovery fails to quarantine it again.
FatalOnlyWithoutBackup == up = "fatal" => ~Loadable(lastGood)
=============================================================================
