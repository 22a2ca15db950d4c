------------------------------ MODULE TryQuota ------------------------------
(***************************************************************************)
(* The daily token quota of one identity: the gate                         *)
(* (internal/middleware/tryquota.go), the store of its usage and the       *)
(* debounced snapshot of it on disk (internal/tryquota/tryquota.go).  The  *)
(* gate reads the usage before the call and TryQuotaFinalize records it    *)
(* after it; a bucket belongs to a metering window (a day).                *)
(***************************************************************************)
EXTENDS Integers, FiniteSets, FiniteSetsExt

CONSTANTS
  TqCalls,        \* the calls of the identity
  Budget,         \* try_quota.budget
  Overrides,      \* budgets an admin may pin for the identity, 0 to remove
  SoftLimit,      \* budget * soft_limit_percent / 100
  Estimates,      \* the estimates of a call
  Used,           \* the tokens an upstream may report, 0 for none
  LastDay,        \* metering windows of an execution (a bound of the model)
  TqMaxCrashes    \* crashes of an execution (a bound of the model)

\* Budgets and tokens are counts, and a call has an estimate.
ASSUME TqAssumption ==
  /\ Budget \in Nat /\ SoftLimit \in Nat
  /\ \A S \in {Overrides, Estimates, Used} : S \subseteq Nat /\ IsFiniteSet(S)
  /\ Estimates # {}

VARIABLES
  tq,             \* each call: its stage, estimate, the usage and budget it read
  bucket,         \* Store.usage of the identity: its window, total and alert flag
  override,       \* Store.overrides of the identity
  day,            \* the current metering window
  saveTimer,      \* the debounce timer is armed
  saver,          \* what the timer's callback and Flush are doing
  tqDisk,         \* the snapshot file
  tqUp,             \* the process: "serving", "drained" or "down"
  tqCrashes,
  alerts,         \* soft-limit alerts sent in the current window (history)
  lost,           \* usage was lost: a failed write, a crash, a late Flush (history)
  overlapped      \* a call read the usage while another was not recorded (history)

tqVars == <<tq, bucket, override, day, saveTimer, saver, tqDisk, tqUp, tqCrashes, alerts, lost, overlapped>>

NoBucket == [day |-> 0, total |-> 0, alerted |-> FALSE]
Snapshot == [bucket |-> bucket, override |-> override]
\* The file: what it says, and whether it can be read back.
FileOf(snap, whole) == [snap |-> snap, whole |-> whole]
NoFile == FileOf([bucket |-> NoBucket, override |-> 0], FALSE)

TqInit ==
  /\ tq = [c \in TqCalls |-> [stage |-> "new", est |-> 0, used |-> 0, budget |-> 0]]
  /\ bucket = NoBucket /\ override = 0 /\ day = 1
  /\ saveTimer = FALSE /\ saver = [t \in {"timer", "flush"} |-> "idle"] /\ tqDisk = NoFile
  /\ tqUp = "serving" /\ tqCrashes = 0
  /\ alerts = 0 /\ lost = FALSE /\ overlapped = FALSE

\* load: a missing or torn file starts empty.
Loaded == IF tqDisk.whole THEN tqDisk.snap ELSE NoFile.snap

-----------------------------------------------------------------------------
(* The store                                                                *)

\* The bucket of the current window; a rollover discards the last one.
WindowBucket == IF bucket.day = day THEN bucket ELSE [NoBucket EXCEPT !.day = day]

scheduleSave == saveTimer' = TRUE

UsedToday == IF bucket.day = day THEN bucket.total ELSE 0

Record(tokens) ==
  /\ bucket' = [WindowBucket EXCEPT !.total = @ + tokens]
  /\ scheduleSave

-----------------------------------------------------------------------------
(* The gate                                                                 *)

\* gateApplies, enabled, a verifier, not the master key, a good token: a call
\* without them is passed through or refused (401) before its usage is read.
TryQuotaReads(c) ==
  /\ tq[c].stage = "new" /\ tqUp = "serving"
  /\ \E e \in Estimates :
        tq' = [tq EXCEPT ![c] = [stage |-> "read", est |-> e, used |-> UsedToday,
                                 budget |-> IF override > 0 THEN override ELSE Budget]]
  /\ overlapped' = (overlapped \/ \E d \in TqCalls : tq[d].stage \in {"read", "checked", "running"})
  /\ UNCHANGED <<bucket, override, day, saveTimer, saver, tqDisk, tqUp, tqCrashes, alerts, lost>>

\* The soft limit, then the hard one.
OverSoft(c) == SoftLimit > 0 /\ tq[c].used + tq[c].est >= SoftLimit

\* Only the caller that sets the flag sends the alert.
MarkSoftAlerted(c) ==
  /\ tq[c].stage = "read" /\ tqUp # "down"
  /\ IF OverSoft(c)
     THEN /\ bucket' = [WindowBucket EXCEPT !.alerted = TRUE]
          /\ alerts' = IF WindowBucket.alerted THEN alerts ELSE alerts + 1
          /\ IF WindowBucket.alerted THEN UNCHANGED saveTimer ELSE scheduleSave
     ELSE UNCHANGED <<bucket, alerts, saveTimer>>
  /\ tq' = [tq EXCEPT ![c].stage = "checked"]
  /\ UNCHANGED <<override, day, saver, tqDisk, tqUp, tqCrashes, lost, overlapped>>

OverBudget(c) == tq[c].used + tq[c].est > tq[c].budget

TryQuotaDecides(c) ==
  /\ tq[c].stage = "checked" /\ tqUp # "down"
  /\ tq' = [tq EXCEPT ![c].stage = IF OverBudget(c) THEN "ended" ELSE "running"]
  /\ UNCHANGED <<bucket, override, day, saveTimer, saver, tqDisk, tqUp, tqCrashes, alerts, lost, overlapped>>

\* The tokens upstream reported; without any, the estimate for a call that
\* succeeded and nothing for one that failed.
TryQuotaFinalize(c) ==
  /\ tq[c].stage = "running" /\ tqUp # "down"
  /\ \/ \E n \in Used \ {0} : Record(n)
     \/ 0 \in Used /\ Record(tq[c].est)
     \/ UNCHANGED <<bucket, saveTimer>>
  /\ tq' = [tq EXCEPT ![c].stage = "ended"]
  /\ UNCHANGED <<override, day, saver, tqDisk, tqUp, tqCrashes, alerts, lost, overlapped>>

SetBudgetOverride ==
  /\ tqUp = "serving"
  /\ \E b \in Overrides : b # override /\ override' = b
  /\ scheduleSave
  /\ UNCHANGED <<tq, bucket, day, saver, tqDisk, tqUp, tqCrashes, alerts, lost, overlapped>>

WindowPasses ==
  /\ day < LastDay
  /\ day' = day + 1 /\ alerts' = 0
  /\ UNCHANGED <<tq, bucket, override, saveTimer, saver, tqDisk, tqUp, tqCrashes, lost, overlapped>>

-----------------------------------------------------------------------------
(* Saving                                                                   *)

\* The timer's callback clears saveTimer, and then saves.  The next timer is
\* 2 s away, and the save is taken to be over by then.
TimerFires ==
  /\ saveTimer /\ saver["timer"] = "idle" /\ tqUp # "down"
  /\ saveTimer' = FALSE
  /\ saver' = [saver EXCEPT !["timer"] = "fired"]
  /\ UNCHANGED <<tq, bucket, override, day, tqDisk, tqUp, tqCrashes, alerts, lost, overlapped>>

\* Shutdown, once the HTTP server has drained.
Flush ==
  /\ tqUp = "serving" /\ \A c \in TqCalls : tq[c].stage \in {"new", "ended"}
  /\ saver' = [saver EXCEPT !["flush"] = IF saveTimer THEN "fired" ELSE "idle"]
  /\ saveTimer' = FALSE /\ tqUp' = "drained"
  /\ UNCHANGED <<tq, bucket, override, day, tqDisk, tqCrashes, alerts, lost, overlapped>>

\* Save: writeMu first.
SaveBegins(t) ==
  /\ saver[t] = "fired" /\ tqUp # "down"
  /\ \A u \in DOMAIN saver : saver[u] \notin {"encoding", "writing"}
  /\ saver' = [saver EXCEPT ![t] = "encoding"]
  /\ UNCHANGED <<tq, bucket, override, day, saveTimer, tqDisk, tqUp, tqCrashes, alerts, lost, overlapped>>

\* json.Marshal walks the live maps, which Save has unlocked by then, and
\* os.WriteFile truncates the file and writes it in place.
SaveWrites(t) ==
  /\ saver[t] = "encoding" /\ tqUp # "down"
  /\ saver' = [saver EXCEPT ![t] = "writing"]
  /\ tqDisk' = FileOf(Snapshot, FALSE)
  /\ UNCHANGED <<tq, bucket, override, day, saveTimer, tqUp, tqCrashes, alerts, lost, overlapped>>

SaveEnds(t) ==
  /\ saver[t] = "writing" /\ tqUp # "down"
  /\ saver' = [saver EXCEPT ![t] = "idle"]
  /\ \/ tqDisk' = FileOf(tqDisk.snap, TRUE) /\ UNCHANGED lost
     \/ UNCHANGED tqDisk /\ lost' = TRUE   \* a failed write is only logged
  /\ UNCHANGED <<tq, bucket, override, day, saveTimer, tqUp, tqCrashes, alerts, overlapped>>

-----------------------------------------------------------------------------
(* The process                                                              *)

Stops ==
  /\ saver' = [t \in DOMAIN saver |-> "idle"] /\ saveTimer' = FALSE
  /\ tq' = [c \in TqCalls |-> IF tq[c].stage = "new" THEN tq[c] ELSE [tq[c] EXCEPT !.stage = "ended"]]
  /\ bucket' = NoBucket /\ override' = 0 /\ tqUp' = "down"
  /\ UNCHANGED tqDisk

\* A crash at any moment.  One cause is in the store: a bucket or an override
\* put into a map that json.Marshal is walking is a fatal error of the runtime.
TqCrash ==
  /\ tqUp # "down" /\ tqCrashes < TqMaxCrashes
  /\ Stops /\ tqCrashes' = tqCrashes + 1
  /\ lost' = (lost \/ Snapshot # Loaded)
  /\ UNCHANGED <<day, alerts, overlapped>>

Exits ==
  /\ tqUp = "drained" /\ saver["flush"] = "idle"
  /\ Stops /\ lost' = (lost \/ Snapshot # Loaded)
  /\ UNCHANGED <<day, tqCrashes, alerts, overlapped>>

\* NewStore loads the snapshot.
TqLoad ==
  /\ tqUp = "down"
  /\ tqUp' = "serving"
  /\ bucket' = Loaded.bucket /\ override' = Loaded.override
  /\ UNCHANGED <<tq, day, saveTimer, saver, tqDisk, tqCrashes, alerts, lost, overlapped>>

TqNext ==
  \/ \E c \in TqCalls : TryQuotaReads(c) \/ MarkSoftAlerted(c) \/ TryQuotaDecides(c) \/ TryQuotaFinalize(c)
  \/ SetBudgetOverride \/ WindowPasses \/ TimerFires \/ Flush
  \/ \E t \in DOMAIN saver : SaveBegins(t) \/ SaveWrites(t) \/ SaveEnds(t)
  \/ TqCrash \/ Exits \/ TqLoad

TqSpec == TqInit /\ [][TqNext]_tqVars

-----------------------------------------------------------------------------
(* Properties                                                               *)

\* The soft-limit alert is sent once in a window, by whichever of the calls
\* that cross the limit together comes first, as long as no flag was lost.
AlertedOnce == alerts <= 1 \/ lost

\* Calls that do not overlap never take the identity over the largest of its
\* budgets by more than the last call used over its estimate.
HeldToBudget ==
  LET slack == Max(Used \cup Estimates) - Min(Estimates)
  IN ~overlapped => bucket.total <= Max(Overrides \cup {Budget}) + slack

\* What is not on disk yet is on its way there: a timer is armed, or a save
\* has still to look at the maps or is writing exactly this.
UnsavedIsPending ==
  \/ tqUp = "down" \/ lost \/ saveTimer \/ Snapshot = Loaded
  \/ \E t \in DOMAIN saver : saver[t] \in {"fired", "encoding"} \/ (saver[t] = "writing" /\ tqDisk.snap = Snapshot)

\* The try quota: its invariants, as one.
TryQuotaSound == AlertedOnce /\ HeldToBudget /\ UnsavedIsPending

\* Refuted: a shutdown that crashes nowhere leaves all usage on disk.  Flush
\* finds no timer when its callback has already cleared it, and returns.
FlushPersists == [][Exits /\ ~lost => Snapshot = Loaded]_tqVars
=============================================================================
