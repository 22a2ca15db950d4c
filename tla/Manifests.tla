------------------------------ MODULE Manifests ------------------------------
(* The web shell's manifest registry (internal/shell/manifest.go), the        *)
(* service keys it issues to modules (servicekeys.go), the handlers that call *)
(* it (server/shell.go) and the health poller (proxy.go).  Gateway processes  *)
(* share one store file: each keeps its registrations in memory, and a save   *)
(* adopts what another process wrote before it rewrites the whole file.       *)
(* Ids that a gateway owns itself (built-in and config entries) are left out: *)
(* Remove, Rotate and Revoke answer an error for them and change nothing.     *)
EXTENDS Integers, Sequences, FiniteSets

CONSTANTS
  Gateways,        \* processes on one data_dir
  Modules,         \* module ids
  Accepts,         \* [Gateways -> SUBSET Modules]: entries the process's allowlist passes
  MfCalls,         \* requests in progress
  Absent,          \* no registration
  MaxKeys,         \* service keys issued in a behaviour
  MaxMfFaults,     \* failed writes and unavailable file locks
  MaxRestarts      \* crashes, each followed by a restart

VARIABLES
  reg,             \* [Gateways -> [Modules -> entry or Absent]]: Registry.dynamic
  last,            \* [Gateways -> SUBSET Modules]: Registry.lastPersisted
  file,            \* [Modules -> entry or Absent]: shell_manifests.json
  mf,              \* [MfCalls -> call]
  issued,          \* keys issued so far; key k is the k-th
  mfFaults, restarts,
  fate,            \* [Modules -> {"open", "kept", "removed", "gone"}]: what a removal or the last save settled
  sealed           \* [Modules -> Nat]: the key the last save made durable, 0 if changed since

mfVars == <<reg, last, file, mf, issued, mfFaults, restarts, fate, sealed>>

Own == -1          \* a credential that the module supplied itself

\* A registration: the upstream credential, the hashes of the current and of
\* the rotated-out key, whether the key is revoked, whether the module ever
\* presented it, and whether its last heartbeat is recent.
Entry == [api : {Own} \cup 0 .. MaxKeys, hash : 0 .. MaxKeys, prev : 0 .. MaxKeys,
          revoked : BOOLEAN, used : BOOLEAN, fresh : BOOLEAN]
ASSUME MfAssumption == MaxKeys \in Nat /\ Absent \notin Entry

Registered == [api |-> 0, hash |-> 0, prev |-> 0, revoked |-> FALSE, used |-> FALSE, fresh |-> TRUE]

NoCall == [at |-> "idle", gw |-> Absent, m |-> Absent, todo |-> <<>>, key |-> 0, snap |-> Absent, locked |-> FALSE]

Ids(r) == {m \in DOMAIN r : r[m] # Absent}

\* The checks of Upsert, of Load and of adoptForeign: the same gates.
Valid(g, m) == m \in Accepts[g]

-----------------------------------------------------------------------------
(* What each operation does to one registration, and how its caller goes on: *)
(* "save" writes the file first, "next" goes straight to the caller's next   *)
(* step, "stop" answers the request.                                         *)

Outcome(e, then) == [e |-> e, then |-> then]

Upsert(e, own) ==
  IF own THEN [Registered EXCEPT !.api = Own]
  ELSE IF e = Absent THEN Registered ELSE [e EXCEPT !.fresh = TRUE]

\* A key for a registration that has none or whose key was revoked.
EnsureServiceKey(e, k) ==
  IF e = Absent THEN Outcome(e, "stop")
  ELSE IF e.hash # 0 /\ ~e.revoked THEN Outcome(e, "next")
  ELSE Outcome([e EXCEPT !.api = k, !.hash = k, !.prev = 0, !.revoked = FALSE], "save")

\* The old key stays valid beside the new one for the grace window.
RotateServiceKey(e, k) ==
  IF e = Absent \/ e.hash = 0 \/ e.revoked THEN Outcome(e, "stop")
  ELSE Outcome([e EXCEPT !.api = k, !.prev = e.hash, !.hash = k], "save")

RevokeServiceKey(e) ==
  IF e = Absent \/ e.hash = 0 THEN Outcome(e, "stop")
  ELSE Outcome([e EXCEPT !.api = 0, !.hash = 0, !.prev = 0, !.revoked = TRUE], "save")

\* The current key retires the one before it; the first use of a key is
\* written to the file.  An old key passes while the grace window lasts.
AuthServiceKey(e, k, inGrace) ==
  IF e = Absent \/ e.revoked \/ k = 0 THEN Outcome(e, "stop")
  ELSE IF k = e.hash THEN Outcome([e EXCEPT !.prev = 0, !.used = TRUE], IF e.used THEN "next" ELSE "save")
  ELSE IF k = e.prev /\ inGrace THEN Outcome([e EXCEPT !.used = TRUE], IF e.used THEN "next" ELSE "save")
  ELSE Outcome(e, "stop")

\* Liveness only, and never written.
Heartbeat(e) == IF e = Absent THEN Outcome(e, "stop") ELSE Outcome([e EXCEPT !.fresh = TRUE], "next")

\* A heartbeat with a body swaps the manifest in place: the key hashes stay
\* even when the body brings a credential of its own.
HeartbeatWithManifest(e, own) ==
  IF e = Absent THEN Outcome(e, "stop")
  ELSE Outcome([e EXCEPT !.fresh = TRUE, !.api = IF own THEN Own ELSE e.api], "save")

RemoveEntry(e) == IF e = Absent THEN Outcome(e, "stop") ELSE Outcome(Absent, "save")

\* The credential the proxy forwards a module's requests with, 0 when it
\* answers them itself (no registration, revoked key).
Forwarded(e) == IF e = Absent \/ e.revoked THEN 0 ELSE e.api

-----------------------------------------------------------------------------
(* The requests: what each one does, one step after another.                *)

\* A registration that brings no credential asks for a key; on the admin
\* plane a key in use is rotated, so that the module leaves with one it holds.
AdminRegister == <<"upsert", "ensure", "rotateUsed">>
ServiceRegister == <<"auth", "upsert", "ensure">>
\* A heartbeat is authenticated by the service key or by an admin token.
Programs == {AdminRegister, ServiceRegister, <<"upsertOwn">>, <<"auth", "beat">>, <<"refresh">>, <<"refreshOwn">>,
             <<"rotate">>, <<"revoke">>, <<"remove">>}

KeySteps == {"ensure", "rotate", "rotateUsed"}

Perform(step, e, k, key, inGrace) ==
  CASE step = "upsert" -> Outcome(Upsert(e, FALSE), "save")
    [] step = "upsertOwn" -> Outcome(Upsert(e, TRUE), "save")
    [] step = "ensure" -> EnsureServiceKey(e, k)
    [] step = "rotate" -> RotateServiceKey(e, k)
    [] step = "rotateUsed" -> IF e # Absent /\ e.used THEN RotateServiceKey(e, k) ELSE Outcome(e, "stop")
    [] step = "revoke" -> RevokeServiceKey(e)
    [] step = "auth" -> AuthServiceKey(e, key, inGrace)
    [] step = "beat" -> Heartbeat(e)
    [] step = "refresh" -> HeartbeatWithManifest(e, FALSE)
    [] step = "refreshOwn" -> HeartbeatWithManifest(e, TRUE)
    [] step \in {"remove", "expire"} -> RemoveEntry(e)

\* What is left of a program after a step: a key that was issued ends it.
Rest(todo, then) ==
  IF then = "stop" \/ (Head(todo) = "ensure" /\ then = "save") THEN <<>> ELSE Tail(todo)

Resume(c, todo) == IF todo = <<>> THEN NoCall ELSE [mf[c] EXCEPT !.at = "run", !.todo = todo, !.locked = FALSE, !.snap = Absent]

Request(c, g, m, todo, key) ==
  /\ mf[c] = NoCall
  /\ Head(todo) \in {"upsert", "upsertOwn"} => Valid(g, m)
  /\ mf' = [mf EXCEPT ![c] = [NoCall EXCEPT !.at = "run", !.gw = g, !.m = m, !.todo = todo, !.key = key]]
  /\ UNCHANGED <<reg, last, file, issued, mfFaults, restarts, fate, sealed>>

\* The poller finds a stale registration, then probes its upstream, which
\* takes seconds, and removes the registration when the probe fails.
expireStale(c, g, m) ==
  /\ mf[c] = NoCall
  /\ reg[g][m] # Absent /\ ~reg[g][m].fresh
  /\ mf' = [mf EXCEPT ![c] = [NoCall EXCEPT !.at = "run", !.gw = g, !.m = m, !.todo = <<"expire">>]]
  /\ UNCHANGED <<reg, last, file, issued, mfFaults, restarts, fate, sealed>>

\* The heartbeat timeout passes.
Stale(g, m) ==
  /\ reg[g][m] # Absent /\ reg[g][m].fresh
  /\ reg' = [reg EXCEPT ![g][m].fresh = FALSE]
  /\ UNCHANGED <<last, file, mf, issued, mfFaults, restarts, fate, sealed>>

\* One step of a request, in the registry's critical section.
Run(c, inGrace) ==
  LET call == mf[c]
      old == reg[call.gw][call.m]
      step == Head(call.todo)
      out == Perform(step, old, issued + 1, call.key, inGrace)
      todo == Rest(call.todo, out.then)
      newKey == step \in KeySteps /\ out.then = "save"
  IN  /\ call.at = "run"
      /\ issued' = issued + (IF newKey THEN 1 ELSE 0)
      /\ issued' <= MaxKeys
      /\ reg' = [reg EXCEPT ![call.gw][call.m] = out.e]
      /\ mf' = [mf EXCEPT ![c] = IF out.then = "save" THEN [call EXCEPT !.at = "save", !.todo = todo, !.key = 0]
                                 ELSE IF todo = <<>> THEN NoCall ELSE [call EXCEPT !.todo = todo, !.key = 0]]
      /\ fate' = IF step \in {"upsert", "upsertOwn"} THEN [fate EXCEPT ![call.m] = "open"]
                 ELSE IF old = Absent \/ out.e # Absent THEN fate
                 ELSE [fate EXCEPT ![call.m] = IF \A g \in Gateways : reg'[g][call.m] = Absent THEN "removed" ELSE "open"]
      /\ sealed' = IF old # Absent /\ out.e # Absent /\ old.hash = out.e.hash THEN sealed
                   ELSE [sealed EXCEPT ![call.m] = 0]
      /\ UNCHANGED <<last, file, mfFaults, restarts>>

-----------------------------------------------------------------------------
(* save(): one at a time in a process (saveMu), one at a time on the machine *)
(* (the file lock).                                                          *)

InSave(c) == mf[c].at \in {"snapshot", "write"}

\* Entries on disk that are neither in memory nor known from before.
MutantAdopt(g) ==
  [m \in Modules |-> IF reg[g][m] = Absent /\ Valid(g, m) THEN file[m] ELSE reg[g][m]]
adoptForeign(g) ==
  [m \in Modules |-> IF reg[g][m] = Absent /\ m \notin last[g] /\ Valid(g, m) THEN file[m] ELSE reg[g][m]]

\* A removal is open again when a process that never knew the entry reads it
\* from a file the removal has not reached yet.
Learned(g, news) ==
  [m \in Modules |-> IF fate[m] = "removed" /\ m \in news /\ reg'[g][m] # Absent THEN "open" ELSE fate[m]]

lockStore(c) ==
  LET g == mf[c].gw
  IN  /\ mf[c].at = "save"
      /\ \A d \in MfCalls : InSave(d) => mf[d].gw # g
      /\ \/ /\ \A d \in MfCalls : ~mf[d].locked
            /\ mf' = [mf EXCEPT ![c].at = "snapshot", ![c].locked = TRUE]
            /\ reg' = [reg EXCEPT ![g] = adoptForeign(g)]
            /\ fate' = Learned(g, Modules \ last[g])
            /\ UNCHANGED mfFaults
         \/ /\ mfFaults < MaxMfFaults
            /\ mfFaults' = mfFaults + 1
            /\ mf' = [mf EXCEPT ![c].at = "snapshot"]
            /\ UNCHANGED <<reg, fate>>
      /\ UNCHANGED <<last, file, issued, restarts, sealed>>

\* The time of the last heartbeat is written too; whether it is still recent
\* when somebody reads it is up to the clock.
Persisted(r) == [m \in Modules |-> IF r[m] = Absent THEN Absent ELSE [r[m] EXCEPT !.fresh = TRUE]]

MfSnapshot(c) ==
  /\ mf[c].at = "snapshot"
  /\ mf' = [mf EXCEPT ![c].at = "write", ![c].snap = Persisted(reg[mf[c].gw])]
  /\ UNCHANGED <<reg, last, file, issued, mfFaults, restarts, fate, sealed>>

\* What a write under the lock settles: an entry it wrote that no process is
\* about to leave out, an entry it left out that no process holds.
MfSettled(snap) ==
  [m \in Modules |->
     IF snap[m] # Absent
     THEN IF \A g \in Gateways : Valid(g, m) /\ (reg[g][m] # Absent \/ m \notin last'[g]) THEN "kept" ELSE "open"
     ELSE IF \A g \in Gateways : reg[g][m] = Absent THEN "gone" ELSE "open"]

\* The rename and the new lastPersisted; a failed write is only logged.
Write(c) ==
  LET call == mf[c]
  IN  /\ call.at = "write"
      /\ mf' = [mf EXCEPT ![c] = Resume(c, call.todo)]
      /\ \/ /\ file' = call.snap
            /\ last' = [last EXCEPT ![call.gw] = Ids(call.snap)]
            /\ fate' = IF call.locked THEN MfSettled(call.snap) ELSE [m \in Modules |-> "open"]
            /\ sealed' = [m \in Modules |-> IF call.snap[m] # Absent /\ reg[call.gw][m] # Absent
                                               /\ call.snap[m].hash = reg[call.gw][m].hash
                                            THEN call.snap[m].hash ELSE 0]
            /\ UNCHANGED mfFaults
         \/ /\ mfFaults < MaxMfFaults
            /\ mfFaults' = mfFaults + 1
            /\ UNCHANGED <<file, last, fate, sealed>>
      /\ UNCHANGED <<reg, issued, restarts>>

\* A crash drops the memory and the requests; Load reads the file under the
\* lock and skips what no longer validates.
Load(g) ==
  /\ restarts < MaxRestarts
  /\ \A c \in MfCalls : mf[c].locked => mf[c].gw = g
  /\ restarts' = restarts + 1
  /\ reg' = [reg EXCEPT ![g] = [m \in Modules |-> IF Valid(g, m) THEN file[m] ELSE Absent]]
  /\ last' = [last EXCEPT ![g] = {m \in Ids(file) : Valid(g, m)}]
  /\ mf' = [c \in MfCalls |-> IF mf[c].gw = g THEN NoCall ELSE mf[c]]
  /\ fate' = Learned(g, Modules)
  /\ UNCHANGED <<file, issued, mfFaults, sealed>>

MfInit ==
  /\ reg = [g \in Gateways |-> [m \in Modules |-> Absent]]
  /\ last = [g \in Gateways |-> {}]
  /\ file = [m \in Modules |-> Absent]
  /\ mf = [c \in MfCalls |-> NoCall]
  /\ issued = 0 /\ mfFaults \in 0 .. MaxMfFaults /\ restarts = 0
  /\ fate = [m \in Modules |-> "open"]
  /\ sealed = [m \in Modules |-> 0]

\* The steps that belong to no particular request.
SaveSteps ==
  \E c \in MfCalls :
    \/ \E b \in BOOLEAN : Run(c, b)
    \/ lockStore(c)
    \/ MfSnapshot(c)
    \/ Write(c)

\* Processes that register and remove modules on one store file.
RegistryNext ==
  \/ \E c \in MfCalls, g \in Gateways, m \in Modules, p \in {<<"upsertOwn">>, <<"remove">>} : Request(c, g, m, p, 0)
  \/ SaveSteps
  \/ \E g \in Gateways : Load(g)

\* One process, one module, every request.
ServiceKeyNext(g, m) ==
  \/ \E c \in MfCalls, p \in Programs, k \in {0, issued - 1, issued} :
       k >= 0 /\ (k # 0) = (Head(p) = "auth") /\ Request(c, g, m, p, k)
  \/ \E c \in MfCalls : expireStale(c, g, m)
  \/ Stale(g, m)
  \/ SaveSteps
  \/ Load(g)

-----------------------------------------------------------------------------
MfTypeOK ==
  /\ reg \in [Gateways -> [Modules -> Entry \cup {Absent}]]
  /\ file \in [Modules -> Entry \cup {Absent}]
  /\ last \in [Gateways -> SUBSET Modules]
  /\ issued \in 0 .. MaxKeys

\* A registration that a save wrote is in the file until some process removes
\* it, whatever the other processes write and whoever restarts; the process
\* that removed one does not adopt it again from a file its removal has not
\* reached; one that a save left out, and nobody holds, does not come back
\* (manifest.go:502-512).
RegistrationsKept ==
  \A m \in Modules :
    /\ fate[m] = "kept" => file[m] # Absent
    /\ fate[m] \in {"removed", "gone"} => \A g \in Gateways : reg[g][m] = Absent
    /\ fate[m] = "gone" => file[m] = Absent

\* In memory and on disk: a registration with a live key forwards requests
\* with that key, or with a credential the module brought itself, never with
\* none (manifest.go:181-188); a revoked one honours no key.
CredentialsAgree ==
  \A e \in {reg[g][m] : g \in Gateways, m \in Modules} \cup {file[m] : m \in Modules} :
    e # Absent =>
      /\ e.hash # 0 => Forwarded(e) \in {e.hash, Own}
      /\ e.revoked => e.hash = 0 /\ e.prev = 0
      /\ e.prev # 0 => e.prev < e.hash

\* A key that a save wrote authenticates across restarts until it is rotated,
\* revoked or replaced (servicekeys.go:53).  For one process on the file: with
\* two, the copy of the other overwrites it.
KeysDurable(g, m) ==
  sealed[m] # 0 => /\ reg[g][m] # Absent /\ reg[g][m].hash = sealed[m]
                   /\ file[m] # Absent /\ file[m].hash = sealed[m]
=============================================================================
