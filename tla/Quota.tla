-------------------------------- MODULE Quota --------------------------------
(***************************************************************************)
(* The in-memory store of keys and of what they spent, and how it reaches  *)
(* the disk: the budget gate (internal/middleware/budget.go) and the       *)
(* charge of a request around its run (store/memory/quota.go), the         *)
(* debounced write of quota.json (persist_debounce.go), the immediate      *)
(* write of keys.json after every change of a key (keys.go, persist.go),   *)
(* a crash and a restart from the files.                                   *)
(*                                                                         *)
(* One key carries the budget; a request costs one unit.  A file write is  *)
(* a snapshot under the store's lock and a rename later, without it.       *)
(***************************************************************************)
EXTENDS Naturals, FiniteSets

CONSTANTS
  Jobs,      \* requests under the budgeted key, at once
  Limit,     \* its budget_limit
  DayLimit,  \* its daily_budget_limit
  LastDate,  \* how many midnights pass (a bound of the model)
  MaxUsage,  \* how much is spent in all (a bound of the model)
  KeyNames,  \* names of keys
  Admins,    \* admin calls that change keys, at once
  MaxCrashes \* how many crashes happen (a bound of the model)

ASSUME QuotaAssumption ==
  {Limit, DayLimit, LastDate, MaxUsage, MaxCrashes} \subseteq Nat /\ IsFiniteSet(Jobs)

VARIABLES
  usage, dayUsage, date, \* the key's counters and the day dayUsage is of
  now,        \* the day
  job,        \* job[j]: "idle", "running" behind the gate, "charged"
  handle,     \* debouncedPersister.timer is not nil
  armed,      \* how many runtime timers are armed (a Reset can outlive the handle)
  fired,      \* how many callbacks fired and have not taken p.mu yet
  saving,     \* the snapshots whose rename is still to come
  disk,       \* quota.json
  keys, keyDisk, \* the key map and keys.json
  admin,      \* admin[a]: where an admin call is
  crashes

quotaVars == <<usage, dayUsage, date, now, job, handle, armed, fired, saving, disk, keys, keyDisk, admin, crashes>>
counters == <<usage, dayUsage, date>>
timerVars == <<handle, armed, fired, saving, disk>>
keyVars == <<keys, keyDisk, admin>>

NoCall == [pc |-> "idle", dels |-> {}, snap |-> {}]
SnapshotQuota == [usage |-> usage, day |-> dayUsage, date |-> date]

QuotaTypeOK ==
  /\ usage \in 0 .. MaxUsage /\ dayUsage \in 0 .. MaxUsage /\ date \in 0 .. LastDate /\ now \in 0 .. LastDate
  /\ job \in [Jobs -> {"idle", "running", "charged"}]
  /\ handle \in BOOLEAN /\ armed \in 0 .. 2 /\ fired \in 0 .. 2 /\ disk.usage \in 0 .. MaxUsage
  /\ keys \subseteq KeyNames /\ keyDisk \subseteq KeyNames /\ crashes \in 0 .. MaxCrashes

QuotaInit ==
  /\ usage = 0 /\ dayUsage = 0 /\ date = 0 /\ now = 0 /\ job = [j \in Jobs |-> "idle"]
  /\ handle = FALSE /\ armed = 0 /\ fired = 0 /\ saving = {} /\ disk = SnapshotQuota
  /\ keys = KeyNames /\ keyDisk = KeyNames /\ admin = [a \in Admins |-> NoCall] /\ crashes = 0

-----------------------------------------------------------------------------
(* The budget gate and the charge *)

\* rolloverLocked.
Today == IF date = now THEN dayUsage ELSE 0

MutantExceeded == usage > Limit \/ Today > DayLimit

\* QuotaStore.Check: the cumulative limit, then the day's.
Exceeded == (Limit > 0 /\ usage >= Limit) \/ (DayLimit > 0 /\ Today >= DayLimit)

\* BudgetBlock: 403 when exceeded; otherwise the request runs, and nothing
\* is reserved for it.
BudgetBlock(j) ==
  /\ job[j] = "idle" /\ ~Exceeded
  /\ job' = [job EXCEPT ![j] = "running"]
  /\ dayUsage' = Today /\ date' = now
  /\ UNCHANGED <<usage, now, timerVars, keyVars, crashes>>

Deduct(j) ==
  /\ job[j] = "running" /\ usage < MaxUsage
  /\ usage' = usage + 1 /\ dayUsage' = Today + 1 /\ date' = now
  /\ job' = [job EXCEPT ![j] = "charged"]
  /\ UNCHANGED <<now, timerVars, keyVars, crashes>>

\* (Mutant: the timer is stopped and not armed again.)
MutantScheduledTimers == IF handle THEN 0 ELSE armed + 1

\* Schedule: outside the store's lock, resets the timer or makes one.  A Reset
\* of a timer that fired arms it again, beside the callback under way.
ScheduledTimers == IF handle THEN (IF armed = 0 THEN 1 ELSE armed) ELSE armed + 1

Schedule(j) ==
  /\ job[j] = "charged" /\ job' = [job EXCEPT ![j] = "idle"]
  /\ handle' = TRUE /\ armed' = ScheduledTimers /\ armed' <= 2
  /\ UNCHANGED <<counters, now, fired, saving, disk, keyVars, crashes>>

\* The window elapses. A quota write is taken to be over before the next
\* window is.
Fire ==
  /\ armed > 0 /\ saving = {} /\ fired < 2
  /\ armed' = armed - 1 /\ fired' = fired + 1
  /\ UNCHANGED <<counters, now, job, handle, saving, disk, keyVars, crashes>>

\* The callback: timer = nil under p.mu, then SaveQuota's snapshot ...
Callback ==
  /\ fired > 0 /\ saving = {}
  /\ fired' = fired - 1 /\ handle' = FALSE /\ saving' = {SnapshotQuota}
  /\ UNCHANGED <<counters, now, job, armed, disk, keyVars, crashes>>

\* ... and atomicWrite's rename.
SaveQuota ==
  /\ saving # {}
  /\ \E u \in saving : disk' = u
  /\ saving' = {}
  /\ UNCHANGED <<counters, now, job, handle, armed, fired, keyVars, crashes>>

\* A graceful stop after the requests drained: Flush stops the timer it knows
\* and writes; the process then ends (and may start again).
Flush ==
  /\ crashes < MaxCrashes /\ \A j \in Jobs : job[j] = "idle"
  /\ disk' = SnapshotQuota /\ handle' = FALSE /\ armed' = 0 /\ fired' = 0 /\ saving' = {}
  /\ keys' = keyDisk /\ admin' = [a \in Admins |-> NoCall] /\ crashes' = crashes + 1
  /\ UNCHANGED <<counters, now, job, keyDisk>>

Midnight == now < LastDate /\ now' = now + 1 /\ UNCHANGED <<counters, job, timerVars, keyVars, crashes>>

-----------------------------------------------------------------------------
(* Keys: every change is followed by a write of keys.json, the snapshot and *)
(* the rename both outside the map's lock.                                  *)

KeyChange(a, k, present) ==
  /\ admin[a].pc = "idle" /\ (k \in keys) # present
  /\ keys' = IF present THEN keys \cup {k} ELSE keys \ {k}
  /\ admin' = [admin EXCEPT ![a] = [pc |-> "changed", dels |-> IF present THEN {} ELSE {k}, snap |-> {}]]
  /\ UNCHANGED <<counters, now, job, timerVars, keyDisk, crashes>>

SaveKeysSnapshot(a) ==
  /\ admin[a].pc = "changed"
  /\ admin' = [admin EXCEPT ![a].pc = "writing", ![a].snap = keys]
  /\ UNCHANGED <<counters, now, job, timerVars, keys, keyDisk, crashes>>

SaveKeysRename(a) ==
  /\ admin[a].pc = "writing"
  /\ keyDisk' = admin[a].snap /\ admin' = [admin EXCEPT ![a] = NoCall]
  /\ UNCHANGED <<counters, now, job, timerVars, keys, crashes>>

\* A crash: what was in memory is gone, what the files hold is loaded.
Crash ==
  /\ crashes < MaxCrashes /\ crashes' = crashes + 1
  /\ usage' = disk.usage /\ dayUsage' = disk.day /\ date' = disk.date /\ job' = [j \in Jobs |-> "idle"]
  /\ handle' = FALSE /\ armed' = 0 /\ fired' = 0 /\ saving' = {}
  /\ keys' = keyDisk /\ admin' = [a \in Admins |-> NoCall]
  /\ UNCHANGED <<now, disk, keyDisk>>

QuotaNext ==
  \/ \E j \in Jobs : BudgetBlock(j) \/ Deduct(j) \/ Schedule(j)
  \/ Fire \/ Callback \/ SaveQuota \/ Flush \/ Midnight \/ Crash
  \/ \E a \in Admins : \/ \E k \in KeyNames, p \in BOOLEAN : KeyChange(a, k, p)
                       \/ SaveKeysSnapshot(a) \/ SaveKeysRename(a)

QuotaFairness == WF_quotaVars(Fire) /\ WF_quotaVars(Callback) /\ WF_quotaVars(SaveQuota)
                 /\ \A j \in Jobs : WF_quotaVars(Schedule(j))

QuotaSpec == QuotaInit /\ [][QuotaNext]_quotaVars /\ QuotaFairness
-----------------------------------------------------------------------------
(* Properties *)

\* A budget is overrun by at most the requests that were running when it was
\* reached, in all and in a day: the gate and the charge are two critical
\* sections around the whole request, and midnight may fall between them.
Running == Cardinality({j \in Jobs : job[j] = "running"})
OverrunBounded ==
  /\ Limit > 0 => usage + Running <= Limit + Cardinality(Jobs) - 1
  /\ DayLimit > 0 /\ date = now => dayUsage + Running <= DayLimit + Cardinality(Jobs) - 1

\* Spending that is not on disk is on its way there: a timer is armed, a
\* callback fired, a write is under way, or the request that spent is about
\* to schedule. No interleaving of Schedule with a firing timer loses a write.
SpendingIsPending ==
  usage # disk.usage => armed > 0 \/ fired > 0 \/ (\E u \in saving : u.usage = usage) \/ (\E j \in Jobs : job[j] = "charged")

\* After a crash nobody is charged for more than was spent: neither the file
\* nor a write under way is ahead of the counters.
FileNeverAhead == disk.usage <= usage /\ \A u \in saving : u.usage <= usage

\* The safety of the spending: bounded overrun, and a file that trails it.
QuotaSound == QuotaTypeOK /\ OverrunBounded /\ SpendingIsPending /\ FileNeverAhead

\* Once the requests stop, what was spent reaches quota.json.
SpendingReachesDisk == <>[](\A j \in Jobs : job[j] = "idle") => []<>(disk.usage = usage)

\* A key whose deletion returned is not in keys.json until it is created
\* again (what persist_debounce.go says of the immediate write).
RevokedStaysRevoked ==
  [][\A k \in KeyNames :
       k \notin keys /\ k \notin keyDisk /\ (\A a \in Admins : k \notin admin[a].dels) /\ k \notin keys'
         => k \notin keyDisk']_quotaVars
=============================================================================
