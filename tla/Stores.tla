-------------------------------- MODULE Stores --------------------------------
(***************************************************************************)
(* The two implementations of store.Store and the handlers that change it: *)
(* RedisStore (internal/store/redis/store.go), which several gateways      *)
(* share and whose operations are runs of single commands, any of which    *)
(* may fail, and the memory store (internal/store/memory), whose           *)
(* operations are critical sections of one process.                        *)
(*                                                                         *)
(* A call of either store is a program: the commands still to be sent.     *)
(* The file behind the memory store is in Quota.                           *)
(***************************************************************************)
EXTENDS Integers, FiniteSets, Sequences, Functions, Sums

CONSTANTS
  Nil,        \* no value under a key of the database
  StCalls,    \* calls in progress at once, on any gateway
  StKeys, StTeams, StOrgs, \* names of API keys, IDs of teams and organizations
  Hashes,     \* hashes of generated keys, and the keys themselves
  KeyLimit, TeamLimit,     \* budget_limit of every key, quota_limit of every team
  StDays,     \* days, from 1 (a bound of the model)
  MaxCharges, \* how many requests are charged (a bound of the model)
  MaxFaults,  \* how many commands fail (a bound of the model)
  MaxLogs, RingSize,  \* how many rows are logged (a bound), log_max_len
  BatchTotal, MaxBatch \* the most requests a batch comes with, and batch.max_batch_size

ASSUME StoresAssumption == {KeyLimit, TeamLimit, MaxCharges, MaxFaults, MaxLogs, BatchTotal, MaxBatch} \subseteq Nat
                           /\ {RingSize, StDays} \subseteq Nat \ {0} /\ "default" \in StTeams \cap StOrgs

\* A team, a batch and a worker of it, as they are stored.
Team == [org : StOrgs, had : BOOLEAN]
Batches == [status : {"pending", "running", "completed", "cancelled"}, ok : Nat, failed : Nat, total : Nat]
BatchWorker == [pc : {"picked", "running"}, copy : Batches]

ASSUME NilAssumption == /\ Nil \notin Nat /\ Nil \notin BOOLEAN /\ Nil \notin StKeys /\ Nil \notin StTeams /\ Nil \notin Hashes
                        /\ Nil \notin Team /\ Nil \notin Batches /\ Nil \notin BatchWorker

VARIABLES
  backend,    \* "redis" or "memory"
  db,         \* what the store holds, by the prefix of the key
  op,         \* op[c]: the commands a call still has to send
  minted,     \* the hashes generated so far
  acks,       \* how much was charged, as far as the charger was told
  late,       \* a gate let a request through over an acknowledged limit
  faults, today,
  logs,       \* the request log: [ring, head, count], or [rows, index] in Redis
  written,    \* rows appended so far; a row is its number
  batch, bworker, runs \* a batch, its workers, and how often it was started

keyVarsSt == <<db, op, minted, acks, late, faults, today>>
storeVars == <<backend, db, op, minted, acks, late, faults, today, logs, written, batch, bworker, runs>>
areaLogs == <<logs, written>>
areaBatch == <<batch, bworker, runs>>

NoOp == [todo |-> <<>>, seen |-> 0]

\* NewTeamsStore seeds the default organization and team; Redis holds what
\* earlier calls left there, here the same.
seedDefaults(ids, v) == [i \in ids |-> IF i = "default" THEN v ELSE Nil]

StoresInit ==
  /\ backend \in {"redis", "memory"}
  /\ db = [key |-> [n \in StKeys |-> Nil], hash |-> [h \in Hashes |-> Nil], used |-> [n \in StKeys |-> Nil],
           team |-> seedDefaults(StTeams, [org |-> "default", had |-> TRUE]), bound |-> [h \in Hashes |-> Nil],
           org |-> seedDefaults(StOrgs, TRUE),
           tused |-> [t \in StTeams |-> 0], tcost |-> [t \in StTeams |-> 0],
           tday |-> [t \in StTeams |-> [d \in 1 .. StDays |-> 0]]]
  /\ op = [c \in StCalls |-> NoOp] /\ minted = {} /\ late = FALSE /\ faults = 0 /\ today = 1
  /\ acks = [key |-> [n \in StKeys |-> 0], team |-> [t \in StTeams |-> 0]]
  /\ logs = [ring |-> [i \in 0 .. RingSize - 1 |-> 0], head |-> 0, count |-> 0, rows |-> {}, index |-> {}]
  /\ written = 0
  /\ batch = Nil /\ bworker = [c \in StCalls |-> Nil] /\ runs = 0

-----------------------------------------------------------------------------
(* Commands.  A failing "must" ends the call with an error, a failing       *)
(* "try" is logged; a "get" that finds nothing skips the command after it.  *)

Must(how, f, at, val) == [how |-> how, f |-> f, at |-> at, val |-> val, must |-> TRUE]
Try(how, f, at, val) == [how |-> how, f |-> f, at |-> at, val |-> val, must |-> FALSE]

\* addTeamCostScript: three increments in one atomic EVAL.
addTeamCostScript(d, t, cost) ==
  [d EXCEPT !.tused[t] = @ + cost, !.tcost[t] = @ + cost, !.tday[t][today] = @ + cost]

Exec(d, c) ==
  CASE c.how = "set" -> [d EXCEPT ![c.f][c.at] = c.val]
    [] c.how = "setnx" -> IF d[c.f][c.at] = Nil THEN [d EXCEPT ![c.f][c.at] = c.val] ELSE d
    [] c.how = "incr" -> [d EXCEPT ![c.f][c.at] = (IF @ = Nil THEN 0 ELSE @) + c.val]
    [] c.how = "eval" -> addTeamCostScript(d, c.at, c.val)
    [] OTHER -> d

\* The key's blob, its hash, the hash before the rotation, the seed of its
\* counter, in this order; the counter is never written over.
MutantCreateKey(n, k) ==
  <<Must("set", "key", n, k), Try("set", "hash", k.hash, n), Try("set", "used", n, 0)>>
CreateKey(n, k) ==
  <<Must("set", "key", n, k), Try("set", "hash", k.hash, n)>> \o
  (IF k.prev # Nil /\ k.prev # k.hash THEN <<Try("set", "hash", k.prev, n)>> ELSE <<>>) \o
  <<Try("setnx", "used", n, 0)>>
UpdateKey(n, k) == CreateKey(n, k)

BindKeyToTeam(h, t) == <<Try("set", "bound", h, t)>>
DeductQuota(n) == <<Try("get", "key", n, 0), Try("incr", "used", n, 1)>>
AddTeamCost(t) == <<Try("get", "team", t, 0), Try("eval", "team", t, 1)>>

GetKeyByHash(h) == IF db.hash[h] = Nil THEN Nil ELSE db.key[db.hash[h]]
StGetTeamByKey(h) == IF db.bound[h] = Nil THEN Nil ELSE db.team[db.bound[h]]

\* Counters that are missing read as zero.
Counter(v) == IF v = Nil THEN 0 ELSE v
CheckQuota(n) == Counter(db.used[n]) < KeyLimit
CheckTeamQuota(t) == db.tused[t] < TeamLimit

Send(c, program, seen) == op' = [op EXCEPT ![c] = [todo |-> program, seen |-> seen]]
Free(c) == backend = "redis" /\ op[c].todo = <<>>
OnlyOp == UNCHANGED <<backend, db, acks, late, faults, today, areaLogs, areaBatch>>

\* One command of a call reaches the server.
Command(c) ==
  LET cmd == Head(op[c].todo)
      rest == Tail(op[c].todo)
      skip == cmd.how = "get" /\ db[cmd.f][cmd.at] = Nil
  IN /\ op[c].todo # <<>>
     /\ op' = [op EXCEPT ![c].todo = IF skip THEN Tail(rest) ELSE rest]
     /\ db' = Exec(db, cmd)
     /\ acks' = CASE cmd.how = "incr" -> [acks EXCEPT !.key[cmd.at] = @ + 1]
                  [] cmd.how = "eval" -> [acks EXCEPT !.team[cmd.at] = @ + 1]
                  [] OTHER -> acks
     /\ late' = (late \/ (cmd.how = "gate" /\ CheckQuota(cmd.at) /\ op[c].seen >= KeyLimit))
     /\ UNCHANGED <<backend, minted, faults, today, areaLogs, areaBatch>>

\* redisOpTimeout runs out or the connection breaks, after or before the
\* server did what it was asked to.
CommandFails(c) ==
  LET cmd == Head(op[c].todo)
  IN /\ op[c].todo # <<>> /\ faults < MaxFaults
     /\ faults' = faults + 1
     /\ op' = [op EXCEPT ![c].todo = IF cmd.must THEN <<>> ELSE IF cmd.how = "get" THEN Tail(Tail(@)) ELSE Tail(@)]
     /\ db' \in {db, Exec(db, cmd)}
     /\ UNCHANGED <<backend, minted, acks, late, today, areaLogs, areaBatch>>

\* The gateway dies between two commands.
GatewayDies(c) ==
  /\ op[c].todo # <<>> /\ faults < MaxFaults
  /\ faults' = faults + 1 /\ op' = [op EXCEPT ![c] = NoOp]
  /\ UNCHANGED <<backend, db, minted, acks, late, today, areaLogs, areaBatch>>

-----------------------------------------------------------------------------
(* The handlers of keys, on Redis                                           *)

TeamCharges == FoldFunction(+, 0, acks.team)
generateUserAPIKey(h) == h \notin minted /\ minted' = minted \cup {h}

NewKey(h, t) == [hash |-> h, prev |-> Nil, status |-> "active", tenant |-> t]

\* POST /admin/api/keys.  Redis does not mind that the name is taken.
handleKeys(c) ==
  /\ Free(c)
  /\ \E n \in StKeys, h \in Hashes : generateUserAPIKey(h) /\ Send(c, CreateKey(n, NewKey(h, Nil)), 0)
  /\ OnlyOp

\* POST /api/v1/keys: the tenant is looked up, and bound once the key exists.
handleUserKeyCreate(c) ==
  /\ Free(c)
  /\ \E n \in StKeys, h \in Hashes, t \in StTeams :
       /\ db.team[t] # Nil /\ generateUserAPIKey(h)
       /\ Send(c, CreateKey(n, NewKey(h, t)) \o BindKeyToTeam(h, t), 0)
  /\ OnlyOp

\* The entry that was read is written back with a new hash; the tenant is
\* bound to the new key first.
handleUserKeyRotate(c) ==
  /\ Free(c)
  /\ \E n \in StKeys, h \in Hashes :
       LET entry == db.key[n]
       IN /\ entry # Nil /\ entry.status = "active"
          /\ generateUserAPIKey(h)
          /\ Send(c, (IF entry.tenant = Nil THEN <<>> ELSE BindKeyToTeam(h, entry.tenant)) \o
                     UpdateKey(n, [entry EXCEPT !.hash = h, !.prev = entry.hash]), 0)
  /\ OnlyOp

Restatus(c, n, status) == Send(c, UpdateKey(n, [db.key[n] EXCEPT !.status = status]), 0)

handleUserKeyRevoke(c) ==
  /\ Free(c)
  /\ \E n \in StKeys : db.key[n] # Nil /\ db.key[n].status # "revoked" /\ Restatus(c, n, "revoked")
  /\ UNCHANGED minted /\ OnlyOp

\* PUT merges the request into the entry that was read; DELETE disables it.
handleKeyByID(c) ==
  /\ Free(c)
  /\ \E n \in StKeys, status \in {"active", "disabled"} : db.key[n] # Nil /\ Restatus(c, n, status)
  /\ UNCHANGED minted /\ OnlyOp

\* chargeQuota: each leg looks its entry up and increments; both best effort.
chargeQuota(c) ==
  /\ Free(c)
  /\ \E n \in StKeys, t \in StTeams :
       /\ acks.key[n] < MaxCharges /\ TeamCharges < MaxCharges
       /\ Send(c, DeductQuota(n) \o AddTeamCost(t), 0)
  /\ UNCHANGED minted /\ OnlyOp

\* BudgetBlock: the blob is read, then the counter.
BudgetGate(c) ==
  /\ Free(c)
  /\ \E n \in StKeys :
       /\ db.key[n] # Nil /\ db.key[n].status = "active"
       /\ Send(c, <<Must("gate", "used", n, 0)>>, acks.key[n])
  /\ UNCHANGED minted /\ OnlyOp

-----------------------------------------------------------------------------
(* Teams and organizations                                                  *)

NewTeam(o) == [org |-> o, had |-> db.org[o] # Nil]
NoSpending(d, t) == [d EXCEPT !.tused[t] = 0, !.tcost[t] = 0, !.tday[t] = [e \in DOMAIN @ |-> 0]]
TeamStep(d, a) == db' = d /\ acks' = a /\ UNCHANGED <<backend, op, minted, late, faults, today, areaLogs, areaBatch>>

\* Redis takes POST and PUT for the same SET and DELETE for a DEL: it neither
\* looks for the ID nor touches counters and bindings.
RedisSetTeam ==
  /\ backend = "redis"
  /\ \E t \in StTeams, o \in StOrgs : TeamStep([db EXCEPT !.team[t] = NewTeam(o)], acks)
RedisDeleteTeam == backend = "redis" /\ \E t \in StTeams : TeamStep([db EXCEPT !.team[t] = Nil], acks)
RedisCreateOrg == backend = "redis" /\ \E o \in StOrgs : TeamStep([db EXCEPT !.org[o] = TRUE], acks)
RedisDeleteOrg == backend = "redis" /\ \E o \in StOrgs : TeamStep([db EXCEPT !.org[o] = Nil], acks)

CreateTeam ==
  /\ backend = "memory"
  /\ \E t \in StTeams, o \in StOrgs : db.team[t] = Nil /\ TeamStep([db EXCEPT !.team[t] = NewTeam(o)], acks)

\* The entry is replaced by the body, what the team spent included.
UpdateTeam ==
  /\ backend = "memory"
  /\ \E t \in StTeams, o \in StOrgs, echoed \in BOOLEAN :
       LET d == [db EXCEPT !.team[t] = NewTeam(o)]
       IN /\ db.team[t] # Nil
          /\ IF echoed THEN TeamStep(d, acks) ELSE TeamStep(NoSpending(d, t), [acks EXCEPT !.team[t] = 0])

DeleteTeam ==
  /\ backend = "memory"
  /\ \E t \in StTeams \ {"default"} :
       /\ db.team[t] # Nil
       /\ TeamStep([NoSpending(db, t) EXCEPT !.team[t] = Nil,
                      !.bound = [h \in Hashes |-> IF @[h] = t THEN Nil ELSE @[h]]], [acks EXCEPT !.team[t] = 0])

CreateOrg ==
  /\ backend = "memory"
  /\ \E o \in StOrgs : db.org[o] = Nil /\ TeamStep([db EXCEPT !.org[o] = TRUE], acks)
DeleteOrg ==
  /\ backend = "memory"
  /\ \E o \in StOrgs \ {"default"} :
       /\ db.org[o] # Nil /\ ~\E t \in StTeams : db.team[t] # Nil /\ db.team[t].org = o
       /\ TeamStep([db EXCEPT !.org[o] = Nil], acks)

\* The handlers; a store that cannot do what is asked answers with an error.
handleAdminTeams == CreateTeam \/ RedisSetTeam
handleAdminTeamsCRUD == UpdateTeam \/ DeleteTeam \/ RedisSetTeam \/ RedisDeleteTeam
handleAdminOrgs == CreateOrg \/ RedisCreateOrg
handleAdminOrgsCRUD == DeleteOrg \/ RedisDeleteOrg

MemoryBind ==
  /\ backend = "memory"
  /\ \E h \in Hashes, t \in StTeams : db.team[t] # Nil /\ TeamStep([db EXCEPT !.bound[h] = t], acks)

\* A new day starts the daily counter again.
AddCost ==
  /\ backend = "memory"
  /\ \E t \in StTeams :
       /\ db.team[t] # Nil /\ TeamCharges < MaxCharges
       /\ TeamStep([addTeamCostScript(db, t, 1) EXCEPT !.tday[t] = [d \in DOMAIN @ |-> IF d = today THEN @[d] ELSE 0]],
                   [acks EXCEPT !.team[t] = @ + 1])

Midnight == today < StDays /\ today' = today + 1
            /\ UNCHANGED <<backend, db, op, minted, acks, late, faults, areaLogs, areaBatch>>

-----------------------------------------------------------------------------
(* The request log                                                          *)

\* Append: fill the next free slot, then overwrite the oldest.
RingAppend ==
  /\ backend = "memory" /\ written < MaxLogs
  /\ written' = written + 1
  /\ logs' = IF logs.count < RingSize
             THEN [logs EXCEPT !.ring[logs.count] = written + 1, !.count = @ + 1]
             ELSE [logs EXCEPT !.ring[logs.head] = written + 1, !.head = (@ + 1) % RingSize]
  /\ UNCHANGED <<backend, keyVarsSt, areaBatch>>

ordered == [i \in 1 .. logs.count |-> logs.ring[(logs.head + i - 1) % RingSize]]

\* A page of the newest rows first.
Query(page, size) ==
  LET newest == [i \in 1 .. logs.count |-> ordered[logs.count + 1 - i]]
      from == (page - 1) * size + 1
      to == IF page * size < logs.count THEN page * size ELSE logs.count
  IN SubSeq(newest, from, to)

\* AppendLog pipelines SET with its expiry and ZADD to the index.
AppendLog ==
  /\ backend = "redis" /\ written < MaxLogs
  /\ written' = written + 1
  /\ logs' \in {[logs EXCEPT !.rows = @ \cup {written + 1}, !.index = @ \cup {written + 1}],
                [logs EXCEPT !.rows = @ \cup {written + 1}], logs}
  /\ UNCHANGED <<backend, keyVarsSt, areaBatch>>

\* 72 hours pass: the row goes, its entry of the index stays.
RowExpires ==
  /\ backend = "redis"
  /\ \E i \in logs.rows : logs' = [logs EXCEPT !.rows = @ \ {i}]
  /\ UNCHANGED <<backend, written, keyVarsSt, areaBatch>>

\* The rows of QueryLogs and the total it reports with them.
QueryLogs == [rows |-> logs.index \cap logs.rows, total |-> Cardinality(logs.index)]

-----------------------------------------------------------------------------
(* Batches and the worker                                                   *)

\* The memory store has a cap on the requests of a batch.
MemoryCreate(total) == backend = "memory" /\ total <= MaxBatch
handleBatches ==
  /\ batch = Nil /\ runs = 0
  /\ \E total \in 1 .. BatchTotal :
       /\ MemoryCreate(total) \/ backend = "redis"
       /\ batch' = [status |-> "pending", ok |-> 0, failed |-> 0, total |-> total]
  /\ UNCHANGED <<backend, keyVarsSt, areaLogs, bworker, runs>>

\* handleBatchCRUD takes the ID and "/cancel" for the ID of the batch, which
\* no store knows.
CancelBatch(id) == IF id = "batch" /\ batch.status \notin {"completed", "cancelled"}
                   THEN [batch EXCEPT !.status = "cancelled"] ELSE batch
handleBatchCRUD ==
  /\ batch # Nil /\ batch' = CancelBatch("batch/cancel")
  /\ UNCHANGED <<backend, keyVarsSt, areaLogs, bworker, runs>>

\* Only Redis is shared by workers of several gateways; a list of it is a
\* copy, a list of the memory store holds the batch itself.
Workers == {w \in StCalls : backend = "redis" \/ \A v \in StCalls \ {w} : bworker[v] = Nil}
Live(w) == IF backend = "redis" THEN bworker[w].copy ELSE batch

processPendingBatches(w) ==
  /\ w \in Workers /\ bworker[w] = Nil /\ batch # Nil /\ batch.status = "pending"
  /\ bworker' = [bworker EXCEPT ![w] = [pc |-> "picked", copy |-> batch]]
  /\ UNCHANGED <<backend, keyVarsSt, areaLogs, batch, runs>>

MarkRunning(w) ==
  /\ bworker[w] # Nil /\ bworker[w].pc = "picked"
  /\ LET b == [Live(w) EXCEPT !.status = "running"]
     IN batch' = b /\ bworker' = [bworker EXCEPT ![w] = [pc |-> "running", copy |-> b]]
  /\ runs' = runs + 1
  /\ UNCHANGED <<backend, keyVarsSt, areaLogs>>

\* A result of a request: an error, or a status from 400 up, is a failure.
executeBatchRequest(w, good) ==
  /\ bworker[w] # Nil /\ bworker[w].pc = "running" /\ Live(w).ok + Live(w).failed < Live(w).total
  /\ LET b == IF good THEN [Live(w) EXCEPT !.ok = @ + 1] ELSE [Live(w) EXCEPT !.failed = @ + 1]
     IN /\ bworker' = [bworker EXCEPT ![w].copy = b]
        /\ batch' = IF backend = "memory" THEN b ELSE batch
  /\ UNCHANGED <<backend, keyVarsSt, areaLogs, runs>>

processBatchEnds(w) ==
  /\ bworker[w] # Nil /\ bworker[w].pc = "running" /\ Live(w).ok + Live(w).failed = Live(w).total
  /\ batch' = [Live(w) EXCEPT !.status = "completed"]
  /\ bworker' = [bworker EXCEPT ![w] = Nil]
  /\ UNCHANGED <<backend, keyVarsSt, areaLogs, runs>>

\* A process ends: its batches go with the memory store.
WorkerDies(w) ==
  /\ bworker[w] # Nil /\ faults < MaxFaults
  /\ faults' = faults + 1
  /\ bworker' = [bworker EXCEPT ![w] = Nil]
  /\ batch' = IF backend = "memory" THEN Nil ELSE batch
  /\ UNCHANGED <<backend, db, op, minted, acks, late, today, areaLogs, runs>>

-----------------------------------------------------------------------------
CallStep(c) == Command(c) \/ CommandFails(c) \/ GatewayDies(c) \/ handleKeys(c) \/ handleUserKeyCreate(c)
               \/ handleUserKeyRotate(c) \/ handleUserKeyRevoke(c) \/ handleKeyByID(c) \/ chargeQuota(c) \/ BudgetGate(c)
TeamsStep == handleAdminTeams \/ handleAdminTeamsCRUD \/ handleAdminOrgs \/ handleAdminOrgsCRUD \/ MemoryBind
             \/ AddCost \/ Midnight
LogStep == RingAppend \/ AppendLog \/ RowExpires
BatchStep ==
  \/ handleBatches \/ handleBatchCRUD
  \/ \E w \in StCalls : \/ processPendingBatches(w) \/ MarkRunning(w) \/ processBatchEnds(w) \/ WorkerDies(w)
                        \/ \E good \in BOOLEAN : executeBatchRequest(w, good)

-----------------------------------------------------------------------------
Settled == \A c \in StCalls : op[c].todo = <<>>

\* No charge that was acknowledged is lost, whatever creates, edits and
\* rotations of the key or the team run at the same time on other gateways,
\* and no gate lets a request through over a limit that was acknowledged as
\* reached before it looked.
ChargesKept ==
  /\ \A n \in StKeys : backend = "redis" => acks.key[n] <= Counter(db.used[n])
  /\ \A t \in StTeams : acks.team[t] <= db.tused[t]
  /\ ~late

\* The counters of a team never disagree: its quota, its lifetime cost and,
\* on Redis, the sum of its days.
TeamCountersAgree ==
  \A t \in StTeams : /\ db.tused[t] = db.tcost[t]
                      /\ backend = "redis" => SumUpTo(db.tday[t], StDays) = db.tused[t]

\* The hash of a stored key finds it once the calls on it are over and none
\* of their commands failed, however they overlapped.
LiveKeyResolves ==
  Settled /\ faults = 0 => \A n \in StKeys : db.key[n] # Nil => GetKeyByHash(db.key[n].hash) = db.key[n]

\* In memory a binding leads to a team, and a team whose organization existed
\* when it joined still has one.
ReferencesAlive ==
  backend = "memory" =>
    /\ \A h \in Hashes : db.bound[h] # Nil => StGetTeamByKey(h) # Nil
    /\ \A t \in StTeams : db.team[t] # Nil /\ db.team[t].had => db.org[db.team[t].org] # Nil

\* The ring holds the newest rows, oldest first, and the pages of a query are
\* a partition of them; on Redis every row a query can return is counted.
LogIsNewest ==
  IF backend = "memory"
  THEN /\ ordered = [i \in 1 .. logs.count |-> written - logs.count + i]
       /\ logs.count = (IF written < RingSize THEN written ELSE RingSize)
       /\ \A size, p \in 1 .. RingSize :
            Query(p, size) = [i \in 1 .. Len(Query(p, size)) |-> written + 1 - i - (p - 1) * size]
       /\ \A size \in 1 .. RingSize :
            logs.count = SumUpTo([p \in 1 .. RingSize |-> Len(Query(p, size))], RingSize)
  ELSE Cardinality(QueryLogs.rows) <= QueryLogs.total

\* A batch that is completed has a result for every request; one gateway
\* alone starts it once.
BatchCounted ==
  /\ batch # Nil /\ batch.status = "completed" => batch.ok + batch.failed = batch.total
  /\ backend = "memory" => runs <= 1

StoreSound == ChargesKept /\ TeamCountersAgree /\ LiveKeyResolves /\ ReferencesAlive /\ LogIsNewest /\ BatchCounted
=============================================================================
