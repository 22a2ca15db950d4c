------------------------------ MODULE Lifecycle ------------------------------
(* The life of a gateway process (cmd/gateway/main.go, server.Start and       *)
(* Shutdown, instance_lock.go), several of them on one machine: the lock on   *)
(* the data directory, the local backend that a gateway may have launched,    *)
(* the port and the Unix socket, the requests in flight and the order of the  *)
(* teardown.  And a reload of the running process: the parts it converges     *)
(* one after the other and the worker that refreshes the adapter index        *)
(* (lifecycle/worker.go).  The two share no state.                            *)
EXTENDS Naturals, Sequences, FiniteSets

CONSTANTS
  Procs,       \* the processes that are started, one after the other or at once
  Nobody,
  DataDir,     \* whether store.data_dir is set
  MaxReqs,     \* bound: requests in flight in a process
  MaxKills,    \* bound: processes that are killed
  MaxVersion,  \* bound: versions of the configuration
  MaxPanics    \* maxConsecutive of a worker

ASSUME LifecycleAssumption == Nobody \notin Procs /\ DataDir \in BOOLEAN /\ MaxPanics \in Nat /\ MaxReqs \in Nat

VARIABLES
  supervisor,  \* supervisorActive()
  proc,        \* proc[p]: a process, see NewProcess
  lock,        \* the process that holds gateway.lock
  engine,      \* the local backend: down, starting or up
  port,        \* the process that listens on server.port
  socket,      \* the process a connection to the Unix socket's path reaches
  kills,
  harm         \* what a process did to a request or to another process
processVars == <<supervisor, proc, lock, engine, port, socket, kills, harm>>

VARIABLES
  parts,       \* parts[x]: the version of the configuration x works with
  reloads,     \* reloads[c]: a reload between its parsing and its commit
  committed,   \* globalConfig
  parsed,      \* configVersion
  withMLX,     \* the versions that have an enabled fusion-mlx backend
  index,       \* the variable adapterIndex of run: an index, or nil
  lookup,      \* the router has an adapter lookup
  worker       \* the worker lora_index_refresh
reloadVars == <<parts, reloads, committed, parsed, withMLX, index, lookup, worker>>

-----------------------------------------------------------------------------
(* Start                                                                    *)

NewProcess ==
  [pc |-> "new", owns |-> FALSE, srv |-> "none", unix |-> FALSE, reqs |-> 0, workers |-> {}, sink |-> "off",
   cut |-> FALSE, missed |-> FALSE, closed |-> FALSE, toStop |-> <<>>]

Alive(p) == proc[p].pc \notin {"new", "exited"}
Others(p) == {q \in Procs \ {p} : Alive(q)}
To(p, rec) == proc' = [proc EXCEPT ![p] = rec]
At(p, pc) == proc[p].pc = pc
Goto(p, pc) == To(p, [proc[p] EXCEPT !.pc = pc])

\* run returns, or the process dies: its descriptors go with it, the backend
\* it launched stays.
Exit(p) ==
  /\ To(p, [NewProcess EXCEPT !.pc = "exited"])
  /\ lock' = IF lock = p THEN Nobody ELSE lock
  /\ port' = IF port = p THEN Nobody ELSE port
  /\ socket' = IF socket = p THEN Nobody ELSE socket

LoadWithRecovery(p) ==
  /\ At(p, "new") /\ Goto(p, "loaded")
  /\ UNCHANGED <<supervisor, lock, engine, port, socket, kills, harm>>

\* The error of a flock that is held is not looked at.
MutantAcquireInstanceLock(p) ==
  /\ At(p, "loaded") /\ Goto(p, "locked") /\ lock' = p
  /\ UNCHANGED <<supervisor, engine, port, socket, kills, harm>>
\* Without a data directory there is no lock.
AcquireInstanceLock(p) ==
  /\ At(p, "loaded")
  /\ IF DataDir /\ lock # Nobody THEN Exit(p)
     ELSE Goto(p, "locked") /\ lock' = (IF DataDir THEN p ELSE lock) /\ UNCHANGED <<port, socket>>
  /\ UNCHANGED <<supervisor, engine, kills, harm>>

\* Not configured, owned by the supervisor or healthy already: not ours.
supervisorActive == supervisor
waitURLHealthy == engine = "up"
autoStartLocal(p) ==
  /\ At(p, "locked")
  /\ Goto(p, IF supervisorActive \/ waitURLHealthy THEN "started" ELSE "launching")
  /\ UNCHANGED <<supervisor, lock, engine, port, socket, kills, harm>>

\* The command fails to launch, or the backend gets healthy in time, or later.
autoStartLaunch(p) ==
  /\ At(p, "launching")
  /\ \/ Goto(p, "started") /\ UNCHANGED engine
     \/ /\ To(p, [proc[p] EXCEPT !.pc = "started", !.owns = TRUE])
        /\ engine' \in (IF engine = "up" THEN {"up"} ELSE {"starting", "up"})
  /\ UNCHANGED <<supervisor, lock, port, socket, kills, harm>>

EngineComesUp ==
  /\ engine = "starting" /\ engine' = "up"
  /\ UNCHANGED <<supervisor, proc, lock, port, socket, kills, harm>>

BuildProviders(p) ==
  /\ At(p, "started")
  /\ \/ Goto(p, "built") /\ UNCHANGED <<lock, port, socket>>
     \/ Exit(p)
  /\ UNCHANGED <<supervisor, engine, kills, harm>>

\* server.New starts its reapers and the poller of the shell; run starts the
\* usage alerts after it.
New(p) ==
  /\ At(p, "built")
  /\ To(p, [proc[p] EXCEPT !.pc = "made", !.workers = {"reapers", "alerts"}])
  /\ UNCHANGED <<supervisor, lock, engine, port, socket, kills, harm>>

\* Persistence is off, or fails, which is fatal, or opens the sink, which the
\* detector, the rules and the reports write to.
InsightsWorkers == {"detector", "rules", "reports"}
OpenPersistence(p) ==
  /\ At(p, "made")
  /\ \/ Goto(p, "persistent") /\ UNCHANGED <<lock, port, socket>>
     \/ To(p, [proc[p] EXCEPT !.pc = "persistent", !.sink = "open", !.workers = @ \cup InsightsWorkers])
        /\ UNCHANGED <<lock, port, socket>>
     \/ Exit(p)
  /\ UNCHANGED <<supervisor, engine, kills, harm>>

\* The workers of run; from here on a signal is not fatal, and the server
\* starts in a goroutine.
BackgroundWorkers == {"discovery", "browser", "engine", "model", "index", "metrics"}
StartServer(p) ==
  /\ At(p, "persistent")
  /\ To(p, [proc[p] EXCEPT !.pc = "running", !.srv = "routes", !.workers = @ \cup BackgroundWorkers])
  /\ UNCHANGED <<supervisor, lock, engine, port, socket, kills, harm>>

-----------------------------------------------------------------------------
(* server.Start, in its goroutine                                           *)

\* The routes are registered, then httpServer is set.
Start(p) ==
  /\ Alive(p) /\ proc[p].srv = "routes"
  /\ To(p, [proc[p] EXCEPT !.srv = "server"])
  /\ UNCHANGED <<supervisor, lock, engine, port, socket, kills, harm>>

\* The socket's path is removed, whoever made it, and bound.
listenUnix(p) ==
  /\ Alive(p) /\ proc[p].srv = "server"
  /\ To(p, [proc[p] EXCEPT !.srv = "unix", !.unix = ~proc[p].closed])
  /\ socket' = IF proc[p].closed THEN Nobody ELSE p
  /\ UNCHANGED <<supervisor, lock, engine, port, kills, harm>>

\* A port in use is an error, which main turns into a SIGTERM; after Shutdown
\* ListenAndServe returns at once.
ListenAndServe(p) ==
  /\ Alive(p) /\ proc[p].srv = "unix"
  /\ IF proc[p].closed \/ port # Nobody
     THEN To(p, [proc[p] EXCEPT !.srv = "ended"]) /\ UNCHANGED port
     ELSE To(p, [proc[p] EXCEPT !.srv = "listening"]) /\ port' = p
  /\ UNCHANGED <<supervisor, lock, engine, socket, kills, harm>>

Accepting(p) == (proc[p].unix \/ proc[p].srv = "listening") /\ ~proc[p].closed

\* activeRequests.Begin and End; the entry of a request is enqueued at its end.
Begin(p) ==
  /\ Alive(p) /\ Accepting(p) /\ proc[p].reqs < MaxReqs
  /\ To(p, [proc[p] EXCEPT !.reqs = @ + 1])
  /\ UNCHANGED <<supervisor, lock, engine, port, socket, kills, harm>>

Excused(p) == proc[p].cut \/ proc[p].missed
End(p) ==
  /\ Alive(p) /\ proc[p].reqs > 0
  /\ To(p, [proc[p] EXCEPT !.reqs = @ - 1])
  /\ harm' = harm \cup (IF proc[p].sink = "closed" /\ ~Excused(p) THEN {"enqueued late"} ELSE {})
  /\ UNCHANGED <<supervisor, lock, engine, port, socket, kills>>

-----------------------------------------------------------------------------
(* Shutdown                                                                 *)

\* A signal, or an error of Start; SetDraining.
Signal(p) ==
  /\ At(p, "running") /\ Goto(p, "draining")
  /\ UNCHANGED <<supervisor, lock, engine, port, socket, kills, harm>>

\* A server that is not set yet is not shut down.  Shutdown closes the
\* listeners, and the Unix listener unlinks the path.
Shutdown(p) ==
  /\ At(p, "draining")
  /\ IF proc[p].srv = "routes"
     THEN To(p, [proc[p] EXCEPT !.pc = "drained", !.missed = TRUE]) /\ UNCHANGED <<port, socket>>
     ELSE /\ To(p, [proc[p] EXCEPT !.pc = "waiting", !.closed = TRUE])
          /\ port' = IF port = p THEN Nobody ELSE port
          /\ socket' = IF proc[p].unix THEN Nobody ELSE socket
  /\ UNCHANGED <<supervisor, lock, engine, kills, harm>>

\* The handlers are done, or server.graceful_shutdown_timeout is over.
shutdownDrainTimeout(p) ==
  /\ At(p, "waiting")
  /\ To(p, [proc[p] EXCEPT !.pc = "drained", !.cut = proc[p].reqs > 0])
  /\ UNCHANGED <<supervisor, lock, engine, port, socket, kills, harm>>

\* The path is removed once more, then the reapers, the limiter and the
\* caches are closed.
CloseServer(p) ==
  /\ At(p, "drained")
  /\ To(p, [proc[p] EXCEPT !.pc = "stopping", !.unix = FALSE, !.workers = @ \ {"reapers"}])
  /\ socket' = IF proc[p].unix THEN Nobody ELSE socket
  /\ harm' = harm \cup (IF proc[p].unix /\ socket \notin {p, Nobody} THEN {"took a socket"} ELSE {})
  /\ UNCHANGED <<supervisor, lock, engine, port, kills>>

\* Only a backend this process launched, and only without a supervisor; the
\* command may fail.
StopOrder == <<"discovery", "browser", "engine", "model", "index", "metrics", "detector", "rules", "reports", "alerts", "sink">>
autoStopLocal(p) ==
  /\ At(p, "stopping")
  /\ To(p, [proc[p] EXCEPT !.pc = "stopped", !.toStop = StopOrder])
  /\ IF proc[p].owns /\ ~supervisorActive
     THEN /\ engine' \in {"down", engine}
          /\ harm' = harm \cup (IF proc[p].reqs > 0 /\ ~Excused(p) THEN {"stopped under a request"} ELSE {})
                          \cup (IF \E q \in Others(p) : ~At(q, "loaded") THEN {"stopped under a gateway"} ELSE {})
     ELSE UNCHANGED <<engine, harm>>
  /\ UNCHANGED <<supervisor, lock, port, socket, kills>>

\* Each Stop joins its worker; the sink is the last.
StopNext(p) ==
  /\ At(p, "stopped") /\ proc[p].toStop # <<>>
  /\ LET w == Head(proc[p].toStop) IN
     To(p, [proc[p] EXCEPT !.toStop = Tail(@), !.workers = @ \ {w},
              !.sink = IF w = "sink" /\ @ = "open" THEN "closed" ELSE @])
  /\ UNCHANGED <<supervisor, lock, engine, port, socket, kills, harm>>

Return(p) ==
  /\ At(p, "stopped") /\ proc[p].toStop = <<>>
  /\ Exit(p)
  /\ UNCHANGED <<supervisor, engine, kills, harm>>

\* SIGKILL at any time; SIGTERM too, before run asks for it.
Killed(p) ==
  /\ Alive(p) /\ kills < MaxKills
  /\ kills' = kills + 1
  /\ Exit(p)
  /\ UNCHANGED <<supervisor, engine, harm>>

SupervisorFlips ==
  /\ supervisor' = ~supervisor /\ \A p \in Procs : ~At(p, "new")
  /\ UNCHANGED <<proc, lock, engine, port, socket, kills, harm>>

ProcessInit ==
  /\ supervisor = FALSE
  /\ proc = [p \in Procs |-> NewProcess]
  /\ lock = Nobody /\ engine \in {"down", "up"} /\ port = Nobody /\ socket = Nobody /\ kills = 0 /\ harm = {}

ProcessNext ==
  \/ EngineComesUp \/ SupervisorFlips
  \/ \E p \in Procs :
       \/ LoadWithRecovery(p) \/ AcquireInstanceLock(p) \/ autoStartLocal(p) \/ autoStartLaunch(p) \/ BuildProviders(p)
       \/ New(p) \/ OpenPersistence(p) \/ StartServer(p) \/ Start(p) \/ listenUnix(p) \/ ListenAndServe(p)
       \/ Begin(p) \/ End(p) \/ Signal(p) \/ Shutdown(p) \/ shutdownDrainTimeout(p) \/ CloseServer(p)
       \/ autoStopLocal(p) \/ StopNext(p) \/ Return(p) \/ Killed(p)

-----------------------------------------------------------------------------
(* Reload                                                                   *)

Reloaders == {"watch", "admin"}

\* What the handler of OnReload converges, in its order.
RebuildMiddlewareChain ==
  <<"snapshot", "guardrails", "strategy", "window", "chain", "allowlist", "settings", "identity">>
HandlerOrder ==
  <<"router", "intent", "heuristic", "providers", "index", "discovery", "cache">> \o RebuildMiddlewareChain
  \o <<"pricing", "manifests">>
ReloadParts == {HandlerOrder[i] : i \in DOMAIN HandlerOrder} \ {"index"}

Ready == [pc |-> "idle", ver |-> 0, at |-> 0]
Set(c, rec) == reloads' = [reloads EXCEPT ![c] = rec]
MutexFree == \A c \in Reloaders : reloads[c].pc # "applying"

\* The file is parsed and gets its version before the mutex is taken.
Parse(c) ==
  /\ reloads[c].pc = "idle" /\ parsed < MaxVersion
  /\ parsed' = parsed + 1
  /\ Set(c, [pc |-> "parsed", ver |-> parsed + 1, at |-> 0])
  /\ withMLX' \in {withMLX, withMLX \cup {parsed + 1}}
  /\ UNCHANGED <<parts, committed, index, lookup, worker>>

TakeMutex(c) ==
  /\ reloads[c].pc = "parsed" /\ MutexFree
  /\ Set(c, [reloads[c] EXCEPT !.pc = "applying", !.at = 1])
  /\ UNCHANGED <<parts, committed, parsed, withMLX, index, lookup, worker>>

fusionMLXBackendCfg(v) == v \in withMLX

\* The index is made, kept or dropped; the worker reads the variable.
ApplyIndex(v) ==
  /\ index' = fusionMLXBackendCfg(v) /\ lookup' = fusionMLXBackendCfg(v)
  /\ UNCHANGED parts

\* One part; providers that cannot be built stay as they were.
ApplyPart(c) ==
  LET r == reloads[c]
      x == HandlerOrder[r.at]
  IN
  /\ r.pc = "applying" /\ r.at <= Len(HandlerOrder)
  /\ IF x = "index" THEN ApplyIndex(r.ver)
     ELSE /\ parts' = [parts EXCEPT ![x] = r.ver] \/ (x = "providers" /\ UNCHANGED parts)
          /\ UNCHANGED <<index, lookup>>
  /\ Set(c, [r EXCEPT !.at = @ + 1])
  /\ UNCHANGED <<committed, parsed, withMLX, worker>>

CommitSnapshot(c) ==
  /\ reloads[c].pc = "applying" /\ reloads[c].at > Len(HandlerOrder)
  /\ committed' = reloads[c].ver /\ Set(c, Ready)
  /\ UNCHANGED <<parts, parsed, withMLX, index, lookup, worker>>

\* A refresh through a nil index panics; a run of at least the grace period
\* starts the count again.
refreshIndex ==
  /\ worker.pc = "running" /\ ~index
  /\ \E before \in {0, worker.panics} :
       worker' = [worker EXCEPT !.panics = before + 1, !.pc = IF before + 1 > MaxPanics THEN "disabled" ELSE "backoff"]
  /\ UNCHANGED <<parts, reloads, committed, parsed, withMLX, index, lookup>>

WorkerRestarts ==
  /\ worker.pc = "backoff" /\ ~worker.cancelled
  /\ worker' = [worker EXCEPT !.pc = "running"]
  /\ UNCHANGED <<parts, reloads, committed, parsed, withMLX, index, lookup>>

\* fn returns on ctx.Done(), or the backoff does.
WorkerEnds ==
  /\ worker.pc \in {"running", "backoff"} /\ worker.cancelled
  /\ worker' = [worker EXCEPT !.pc = "ended"]
  /\ UNCHANGED <<parts, reloads, committed, parsed, withMLX, index, lookup>>

\* Stop cancels, and returns when the goroutine is gone.
Stop ==
  /\ worker.pc # "none" /\ ~worker.cancelled
  /\ worker' = [worker EXCEPT !.cancelled = TRUE]
  /\ UNCHANGED <<parts, reloads, committed, parsed, withMLX, index, lookup>>
StopReturns ==
  /\ worker.cancelled /\ worker.pc \in {"ended", "disabled"} /\ ~worker.joined
  /\ worker' = [worker EXCEPT !.joined = TRUE]
  /\ UNCHANGED <<parts, reloads, committed, parsed, withMLX, index, lookup>>

\* The worker is started only where the first configuration has the backend.
ReloadInit ==
  /\ parts = [x \in ReloadParts |-> 0] /\ reloads = [c \in Reloaders |-> Ready] /\ committed = 0 /\ parsed = 0
  /\ withMLX \in {{}, {0}}
  /\ index = (0 \in withMLX) /\ lookup = index
  /\ worker = [pc |-> IF index THEN "running" ELSE "none", panics |-> 0, cancelled |-> FALSE, joined |-> FALSE]

ReloadNext ==
  \/ \E c \in Reloaders : Parse(c) \/ TakeMutex(c) \/ ApplyPart(c) \/ CommitSnapshot(c)
  \/ refreshIndex \/ WorkerRestarts \/ WorkerEnds \/ Stop \/ StopReturns

-----------------------------------------------------------------------------
(* Properties                                                               *)

\* Past the lock a process is alone on its data directory, to its very end:
\* it stops no backend that another gateway found running, and takes no
\* socket from one.
AloneOnDataDir ==
  DataDir => /\ \A p \in Procs : Alive(p) /\ ~At(p, "loaded") => lock = p
             /\ harm \cap {"stopped under a gateway", "took a socket"} = {}
             /\ \A p \in Procs : Alive(p) /\ proc[p].unix /\ ~proc[p].closed => socket = p

\* A request that the drain waited for keeps its backend and its log: neither
\* is gone before it ends.  Two things excuse it: the drain's deadline, and a
\* signal that came before Start had set the server.
DrainBeforeTeardown == harm \cap {"stopped under a request", "enqueued late"} = {}

\* Whoever writes to the sink is gone before it is closed, and no worker is
\* left by a process that returns.
TeardownInOrder ==
  \A p \in Procs :
    /\ proc[p].sink = "closed" => proc[p].workers \cap InsightsWorkers = {}
    /\ At(p, "stopped") /\ proc[p].toStop = <<>> => proc[p].workers = {}

\* Between reloads every part works with the configuration that is committed,
\* whatever order the reloads took the mutex in; only providers that could
\* not be built lag.  The adapter lookup is there when the backend is.
PartsAgree ==
  MutexFree => /\ \A x \in ReloadParts \ {"providers"} : parts[x] = committed
               /\ lookup = fusionMLXBackendCfg(committed) /\ index = lookup

\* A worker whose Stop has returned does not run again, and one gives up only
\* after more panics in a row than the cap.
WorkerJoined ==
  /\ worker.joined => worker.pc \in {"ended", "disabled"}
  /\ worker.pc = "disabled" => worker.panics > MaxPanics
  /\ worker.pc = "ended" => worker.cancelled

LifecycleSound == AloneOnDataDir /\ DrainBeforeTeardown /\ TeardownInOrder /\ PartsAgree /\ WorkerJoined

\* Refuted: a drain that was not cut leaves no request to lose its backend.
\* A signal that arrives while Start still registers its routes finds no
\* server to shut down, and the listener opens after it.
DrainedUnlessCut == \A p \in Procs : At(p, "stopped") /\ ~proc[p].cut => proc[p].reqs = 0
=============================================================================
