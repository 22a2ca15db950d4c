------------------------------ MODULE Endpoints ------------------------------
(* The inference endpoints beside chat: /v1/messages on a provider that       *)
(* speaks the protocol itself (server/anthropic_messages.go), embeddings and  *)
(* rerank (embedding_rerank.go), images (models.go), audio and moderation     *)
(* (audio_moderation.go); the task registry that lets a request be cancelled  *)
(* (task_registry.go, agent_tasks.go); and the split of a large embedding     *)
(* batch over cluster nodes (cluster/shard.go).  What Decide answers is an    *)
(* input, as is what an upstream answers.                                     *)
EXTENDS Integers, Sequences, FiniteSets

CONSTANTS
  EpCalls,
  TaskIds,          \* X-Request-ID values: the client chooses them
  Owners,           \* auth-key names
  NoOwner,          \* a request without a key
  NoTask,
  MaxEntries,       \* routing.agent_tasks.max_entries, 0 for no cap
  StreamCap,        \* routing.stream.max_concurrent_streams
  QueueSlots,       \* slots of the local queue
  MaxEpOps,         \* requests in a behaviour
  Batch,            \* inputs of an embedding batch
  ShardSize,        \* defaultShardSize
  ShardWorkers      \* shard workers, one per healthy node

\* Who cancelled a request is told apart: a key, the master key, the reaper or
\* nobody.
ASSUME EndpointsAssumption ==
  /\ IsFiniteSet(EpCalls) /\ IsFiniteSet(TaskIds)
  /\ MaxEntries \in Nat /\ StreamCap \in Nat /\ QueueSlots \in Nat
  /\ {NoTask, "master", "reaper"} \cap (Owners \cup {NoOwner}) = {}
  /\ Batch \in Nat /\ ShardSize \in Nat \ {0}

VARIABLES
  ep,               \* [EpCalls -> request]
  tasks,            \* [TaskIds -> entry or NoTask]: TaskRegistry.tasks
  streamSem, queueUsed,
  epOps

epVars == <<ep, tasks, streamSem, queueUsed, epOps>>

VARIABLES
  shardIdx,         \* the next shard to take
  results,          \* [shards -> result]
  shardAt,           \* [ShardWorkers -> the shard in hand, 0 when between shards, -1 when gone]
  sharded           \* [state, vectors]: the answer and the indices of its vectors

shardVars == <<shardIdx, results, shardAt, sharded>>

Kinds == {"messages", "embed", "rerank", "images", "speech", "audio"}
Backends == {"local", "cluster", "cloud", "rejected"}

\* backend: what Decide answered; provider: who is called; outcome: what
\* recordOutcome was told; charged: the backend recordAndCharge was told;
\* answer: who answered the client; by: who cancelled it.
NoEp == [at |-> "idle", kind |-> "none", id |-> NoTask, owner |-> NoOwner, backend |-> "none", provider |-> "none", stream |-> FALSE,
         held |-> {}, registered |-> FALSE, by |-> NoTask, outcome |-> "none", charged |-> "none", answer |-> "none"]

-----------------------------------------------------------------------------
(* The task registry; each operation is one critical section.               *)

LiveTasks == {i \in TaskIds : tasks[i] # NoTask}

\* A known id is overwritten, a new one refused when the registry is full.
RegistryTakes(id) == tasks[id] # NoTask \/ MaxEntries = 0 \/ Cardinality(LiveTasks) < MaxEntries

\* The owner is compared before the entry is deleted.
MutantMayCancel(entry, requester, isMaster) == TRUE
MayCancel(entry, requester, isMaster) == isMaster \/ entry.owner \in {NoOwner, requester}

Cancel(id, requester, isMaster) ==
  /\ tasks[id] # NoTask
  /\ MayCancel(tasks[id], requester, isMaster)
  /\ tasks' = [tasks EXCEPT ![id] = NoTask]
  /\ ep' = [ep EXCEPT ![tasks[id].call].by = IF isMaster THEN "master" ELSE requester]
  /\ UNCHANGED <<streamSem, queueUsed, epOps>>

\* An entry past its TTL is cancelled and evicted.
ReapExpired ==
  \E old \in (SUBSET LiveTasks) \ {{}} :
    /\ tasks' = [i \in TaskIds |-> IF i \in old THEN NoTask ELSE tasks[i]]
    /\ ep' = [c \in EpCalls |-> IF \E i \in old : tasks[i].call = c THEN [ep[c] EXCEPT !.by = "reaper"] ELSE ep[c]]
    /\ UNCHANGED <<streamSem, queueUsed, epOps>>

-----------------------------------------------------------------------------
(* A request up to its upstream.  An early refusal (method, body, PII, model *)
(* allowlist, context limit, backend access) leaves nothing behind.          *)

\* A rejected decision is answered at once, except by the audio endpoints,
\* which do not look at it and resolve a cloud provider.
Decided(kind, backend) ==
  IF backend # "rejected" THEN {backend} ELSE IF kind \in {"speech", "audio"} THEN {"cloud"} ELSE {}

\* Transcription and moderation only know cloud providers.  Embeddings and
\* rerank go to the cluster node of the decision, or to the cloud when it is
\* gone; the others know the local backend and the cloud.
Served(kind, backend) ==
  CASE kind = "audio" -> {"cloud"}
    [] kind \in {"embed", "rerank"} /\ backend = "cluster" -> {"cluster", "cloud"}
    [] OTHER -> {IF backend = "local" THEN "local" ELSE "cloud"}

EpArrive(c, kind, id, owner, backend, stream) ==
  /\ ep[c].at \in {"idle", "done"}
  /\ epOps < MaxEpOps
  /\ epOps' = epOps + 1
  /\ \E b \in Decided(kind, backend) : \E p \in Served(kind, b) :
       ep' = [ep EXCEPT ![c] = [NoEp EXCEPT !.at = IF kind = "messages" THEN "queue" ELSE "call", !.kind = kind, !.id = id,
                                            !.owner = owner, !.backend = b, !.provider = p, !.stream = stream]]
  /\ UNCHANGED <<tasks, streamSem, queueUsed>>

\* The local queue: a slot, or 429 when the wait runs out.
acquireLocalSlot(c) ==
  LET local == ep[c].backend = "local"
  IN  /\ ep[c].at = "queue"
      /\ \/ /\ local => queueUsed < QueueSlots
            /\ queueUsed' = queueUsed + (IF local THEN 1 ELSE 0)
            /\ ep' = [ep EXCEPT ![c].at = "register", ![c].held = IF local THEN {"queue"} ELSE {}]
         \/ /\ local /\ queueUsed = QueueSlots
            /\ ep' = [ep EXCEPT ![c].at = "return"]
            /\ UNCHANGED queueUsed
      /\ UNCHANGED <<tasks, streamSem, epOps>>

\* An unregistered request still runs, and still releases its id on return.
Register(c) ==
  LET q == ep[c]
  IN  /\ q.at = "register"
      /\ tasks' = IF RegistryTakes(q.id) THEN [tasks EXCEPT ![q.id] = [call |-> c, owner |-> q.owner]] ELSE tasks
      /\ ep' = [ep EXCEPT ![c].at = IF q.stream THEN "stream" ELSE "call", ![c].registered = TRUE]
      /\ UNCHANGED <<streamSem, queueUsed, epOps>>

acquireStreamSlot(c) ==
  /\ ep[c].at = "stream"
  /\ IF streamSem < StreamCap
     THEN streamSem' = streamSem + 1 /\ ep' = [ep EXCEPT ![c].at = "call", ![c].held = @ \cup {"stream"}]
     ELSE ep' = [ep EXCEPT ![c].at = "return"] /\ UNCHANGED streamSem
  /\ UNCHANGED <<tasks, queueUsed, epOps>>

-----------------------------------------------------------------------------
(* The upstream's answer, and what is recorded of it.                       *)

Recorded(c, outcome, charged, answer) ==
  /\ ep[c].at = "call"
  /\ ep' = [ep EXCEPT ![c].at = "return", ![c].outcome = outcome, ![c].charged = charged, ![c].answer = answer]
  /\ UNCHANGED <<tasks, streamSem, queueUsed, epOps>>

\* Native messages, images and audio record no outcome and charge nobody; a
\* cancelled request fails.
MessagesAnswer(c) ==
  /\ ep[c].kind \in {"messages", "images", "speech", "audio"}
  /\ \/ ep[c].by = NoTask /\ Recorded(c, "none", "none", ep[c].provider)
     \/ Recorded(c, "none", "none", "error")

\* Embeddings and rerank: one outcome and, on success, one charge, both under
\* the backend of the decision.
EmbeddingAnswer(c) ==
  /\ ep[c].kind \in {"embed", "rerank"}
  /\ \/ Recorded(c, "success", ep[c].backend, ep[c].provider)
     \/ Recorded(c, "failure", "none", "error")

\* A full local slot diverts to the cloud, which is charged for it; no outcome
\* is recorded, unless the cloud fails too and the local backend is blamed.
DivertEmbedding(c) ==
  /\ ep[c].kind \in {"embed", "rerank"} /\ ep[c].backend = "local"
  /\ \/ Recorded(c, "none", "cloud", "cloud")
     \/ Recorded(c, "failure", "none", "error")

\* A large batch for the cluster is answered by its shards.
ShardedAnswer(c) ==
  /\ ep[c].kind = "embed" /\ ep[c].backend = "cluster"
  /\ Recorded(c, "none", "none", "cluster")

EpReturn(c) ==
  LET q == ep[c]
  IN  /\ q.at = "return"
      /\ streamSem' = streamSem - (IF "stream" \in q.held THEN 1 ELSE 0)
      /\ queueUsed' = queueUsed - (IF "queue" \in q.held THEN 1 ELSE 0)
      /\ tasks' = IF q.registered THEN [tasks EXCEPT ![q.id] = NoTask] ELSE tasks
      /\ ep' = [ep EXCEPT ![c] = [NoEp EXCEPT !.at = "done", !.backend = q.backend, !.outcome = q.outcome,
                                              !.charged = q.charged, !.answer = q.answer]]
      /\ UNCHANGED epOps

EpInit ==
  /\ ep = [c \in EpCalls |-> NoEp]
  /\ tasks = [i \in TaskIds |-> NoTask]
  /\ streamSem = 0 /\ queueUsed = 0 /\ epOps = 0

EpNext ==
  \/ \E c \in EpCalls, i \in TaskIds, o \in Owners \cup {NoOwner}, b \in {"local", "cloud"}, s \in BOOLEAN :
       EpArrive(c, "messages", i, o, b, s)
  \/ \E c \in EpCalls, k \in Kinds \ {"messages"}, b \in Backends : EpArrive(c, k, NoTask, NoOwner, b, FALSE)
  \/ \E c \in EpCalls : \/ acquireLocalSlot(c) \/ Register(c) \/ acquireStreamSlot(c)
                        \/ MessagesAnswer(c) \/ EmbeddingAnswer(c) \/ DivertEmbedding(c) \/ ShardedAnswer(c)
                        \/ EpReturn(c)
  \/ \E i \in TaskIds : Cancel(i, NoOwner, TRUE) \/ \E o \in Owners \cup {NoOwner} : Cancel(i, o, FALSE)
  \/ ReapExpired

-----------------------------------------------------------------------------
(* A batch over shard workers.  A worker takes shards until there is none or *)
(* one fails; a panic is recovered and leaves the result empty.              *)

ShardCount == (Batch + ShardSize - 1) \div ShardSize
Shards == 1 .. ShardCount
splitInput(i) == {n \in 1 .. Batch : (i - 1) * ShardSize < n /\ n <= i * ShardSize}

ShardInit ==
  /\ shardIdx = 1
  /\ results = [i \in Shards |-> "empty"]
  /\ shardAt = [w \in ShardWorkers |-> 0]
  /\ sharded = [state |-> "running", vectors |-> {}]

TakeShard(w) ==
  /\ shardAt[w] = 0
  /\ shardIdx' = shardIdx + 1
  /\ shardAt' = [shardAt EXCEPT ![w] = IF shardIdx \in Shards THEN shardIdx ELSE -1]
  /\ UNCHANGED <<results, sharded>>

\* The node answers a vector per input, or one too few or too many; it fails;
\* it panics.
ShardAnswers(w) ==
  /\ shardAt[w] > 0
  /\ \E r \in {"full", "short", "long"} : results' = [results EXCEPT ![shardAt[w]] = r]
  /\ shardAt' = [shardAt EXCEPT ![w] = 0]
  /\ UNCHANGED <<shardIdx, sharded>>

ShardFails(w) ==
  /\ shardAt[w] > 0
  /\ \E r \in {"error", "empty"} : results' = [results EXCEPT ![shardAt[w]] = r]
  /\ shardAt' = [shardAt EXCEPT ![w] = -1]
  /\ UNCHANGED <<shardIdx, sharded>>

\* How many vectors a shard's result holds.
Vectors(i) ==
  CASE results[i] = "full" -> Cardinality(splitInput(i))
    [] results[i] = "short" -> Cardinality(splitInput(i)) - 1
    [] results[i] = "long" -> Cardinality(splitInput(i)) + 1
    [] OTHER -> 0

\* Vectors are numbered by shard and place, at most the last input.
Numbered(i) == {IF (i - 1) * ShardSize + j > Batch THEN Batch ELSE (i - 1) * ShardSize + j : j \in 1 .. Vectors(i)}
VectorsUpTo[i \in 0 .. ShardCount] == IF i = 0 THEN 0 ELSE VectorsUpTo[i - 1] + Vectors(i)

\* Any error, and fewer vectors than inputs, fails the batch.
MergeShards ==
  /\ \A w \in ShardWorkers : shardAt[w] = -1
  /\ sharded.state = "running"
  /\ sharded' = IF (\E i \in Shards : results[i] = "error") \/ VectorsUpTo[ShardCount] < Batch
                THEN [state |-> "error", vectors |-> {}]
                ELSE [state |-> "ok", vectors |-> UNION {Numbered(i) : i \in Shards}]
  /\ UNCHANGED <<shardIdx, results, shardAt>>

ShardNext == (\E w \in ShardWorkers : TakeShard(w) \/ ShardAnswers(w) \/ ShardFails(w)) \/ MergeShards

-----------------------------------------------------------------------------
EpTypeOK ==
  /\ streamSem \in 0 .. StreamCap /\ queueUsed \in 0 .. QueueSlots
  /\ \A c \in EpCalls : ep[c].held \subseteq {"queue", "stream"}

\* The slots in use are those of the requests that run: every exit, the two
\* refusals with 429 and a cancellation included, gives back what it took,
\* once (task_registry.go:22-25).
SlotsReturned ==
  /\ streamSem = Cardinality({c \in EpCalls : "stream" \in ep[c].held})
  /\ queueUsed = Cardinality({c \in EpCalls : "queue" \in ep[c].held})

\* The registry never outgrows its cap, and every entry belongs to a request
\* that still runs under that id and owner, whatever was overwritten,
\* cancelled, reaped or released twice.
RegistryLive ==
  /\ MaxEntries > 0 => Cardinality(LiveTasks) <= MaxEntries
  /\ \A i \in LiveTasks : LET q == ep[tasks[i].call]
                     IN  q.registered /\ q.id = i /\ q.owner = tasks[i].owner /\ q.by = NoTask

\* Only the key that sent a request, the master key or the reaper cancels it,
\* also when another key reused its id (task_registry.go:27-31).
CancelledByOwner ==
  \A c \in EpCalls : ep[c].by \in Owners \cup {NoOwner} => ep[c].owner \in {NoOwner, ep[c].by}

\* Who may have answered when a backend is charged or credited: the cloud
\* stands in for a cluster node that is gone, and the cluster is told.
Answering(backend) == IF backend = "cluster" THEN {"cluster", "cloud"} ELSE {backend}

\* The outcome of a request agrees with its answer: the backend charged, and
\* the one credited, is the one that answered, diversions included, except
\* where the cloud stands in for a node (embedding_rerank.go:95-179).
OutcomeFitsAnswer ==
  \A c \in EpCalls : ep[c].at = "done" =>
    /\ ep[c].charged # "none" => ep[c].answer \in Answering(ep[c].charged)
    /\ ep[c].outcome = "success" => ep[c].answer \in Answering(ep[c].backend)
    /\ ep[c].outcome = "failure" => ep[c].answer = "error"

\* A sharded answer has the vector of every input, numbered as that input, or
\* it is an error, whichever shards fail, panic or come back short
\* (shard.go:141-171); a node that answers more vectors than it was asked for
\* is excepted, since the count of one shard makes up for another's.
ShardsComplete ==
  sharded.state = "ok" /\ (\A i \in Shards : results[i] # "long") => sharded.vectors = 1 .. Batch

\* Refuted: a second request under the same X-Request-ID takes the entry of
\* the first, and the first to return releases the entry of the other.
CancellableWhileRunning ==
  \A c \in EpCalls : ep[c].registered /\ ep[c].by = NoTask /\ MaxEntries = 0 => tasks[ep[c].id] # NoTask

\* Refuted: one vector too many from a node makes up for one too few from
\* another, and the answer lacks an input's vector.
ShardsExact == sharded.state = "ok" => sharded.vectors = 1 .. Batch

\* Refuted: a sharded batch and a native message are answered and not charged.
AnsweredIsCharged == \A c \in EpCalls : ep[c].at = "done" /\ ep[c].answer \notin {"none", "error"} => ep[c].charged # "none"
=============================================================================
