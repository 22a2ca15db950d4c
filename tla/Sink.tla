-------------------------------- MODULE Sink --------------------------------
(***************************************************************************)
(* The asynchronous writer of request logs (internal/persist/pg/sink.go)   *)
(* over PostgreSQL (copy.go): a bounded queue that drops its oldest entry, *)
(* a flusher that collects a batch and retries it through an outage, the   *)
(* isolation of payloads the database refuses, and the drain of Close.     *)
(*                                                                         *)
(* An entry is enqueued once, by a handler of its own.  A write may fail   *)
(* before it reaches the database or after it was committed there.         *)
(***************************************************************************)
EXTENDS Naturals, Sequences, FiniteSets, SequencesExt

CONSTANTS
  Entries,      \* log entries, each with a payload
  BadPayloads,  \* entries whose payload the database refuses
  QueueCap,     \* persistence.queue.capacity
  BatchSize,    \* persistence.queue.batch_size
  MaxFailures   \* failing writes (a bound of the model)

ASSUME SinkAssumption == BadPayloads \subseteq Entries /\ QueueCap \in Nat \ {0} /\ BatchSize \in Nat \ {0}

VARIABLES
  enq,       \* enq[e]: where the Enqueue of e is, or how it ended
  queue,     \* the channel
  pending,   \* the flusher's batch
  flusher,   \* "collect", "write", "off"
  closing,   \* stopOnce
  failures,  \* writes that failed so far
  logRows,   \* entries in fg_request_logs
  payloads   \* entries in fg_request_payloads

sinkVars == <<enq, queue, pending, flusher, closing, failures, logRows, payloads>>

SinkTypeOK ==
  /\ enq \in [Entries -> {"new", "checked", "accepted", "evicted", "refused"}]
  /\ queue \in Seq(Entries) /\ Len(queue) <= QueueCap /\ pending \in Seq(Entries)
  /\ flusher \in {"collect", "write", "off"} /\ closing \in BOOLEAN
  /\ logRows \subseteq Entries /\ payloads \subseteq Entries \ BadPayloads

SinkInit ==
  /\ enq = [e \in Entries |-> "new"] /\ queue = <<>> /\ pending = <<>> /\ flusher = "collect"
  /\ closing = FALSE /\ failures = 0 /\ logRows = {} /\ payloads = {}

(***************************************************************************)
(* Enqueue: the look at stopOnce, then the send, or the eviction of the    *)
(* oldest entry and another look.                                          *)
(***************************************************************************)
EnqueueCheck(e) ==
  /\ enq[e] = "new"
  /\ enq' = [enq EXCEPT ![e] = IF closing THEN "refused" ELSE "checked"]
  /\ UNCHANGED <<queue, pending, flusher, closing, failures, logRows, payloads>>

EnqueueSend(e) ==
  /\ enq[e] = "checked" /\ Len(queue) < QueueCap
  /\ queue' = Append(queue, e) /\ enq' = [enq EXCEPT ![e] = "accepted"]
  /\ UNCHANGED <<pending, flusher, closing, failures, logRows, payloads>>

EnqueueEvict(e) ==
  /\ enq[e] = "checked" /\ Len(queue) = QueueCap
  /\ queue' = Tail(queue)
  /\ enq' = [enq EXCEPT ![Head(queue)] = "evicted", ![e] = IF closing THEN "refused" ELSE @]
  /\ UNCHANGED <<pending, flusher, closing, failures, logRows, payloads>>

(***************************************************************************)
(* flushLoop: an entry from the queue, a tick, the write.                  *)
(***************************************************************************)
Collect ==
  /\ flusher = "collect" /\ queue # <<>>
  /\ pending' = Append(pending, Head(queue)) /\ queue' = Tail(queue)
  /\ flusher' = IF Len(pending') >= BatchSize THEN "write" ELSE "collect"
  /\ UNCHANGED <<enq, closing, failures, logRows, payloads>>

FlushTick ==
  /\ flusher = "collect" /\ pending # <<>>
  /\ flusher' = "write"
  /\ UNCHANGED <<enq, queue, pending, closing, failures, logRows, payloads>>

\* WriteBatch's payloads: all of them, or, after a refused one, row by row in
\* transactions of which every refused row rolls one back.
PayloadsCommitted(b) == {b[i] : i \in {i \in 1 .. Len(b) : \A j \in i .. Len(b) : b[j] \notin BadPayloads}}

Commit(b) == logRows' = logRows \cup ToSet(b) /\ payloads' = payloads \cup PayloadsCommitted(b)

WriteOK ==
  /\ flusher = "write"
  /\ Commit(pending)
  /\ pending' = <<>> /\ flusher' = "collect"
  /\ UNCHANGED <<enq, queue, closing, failures>>

\* A failed batch is kept, and filled from the queue up to twice its size.
Refill(b) ==
  LET room == IF Len(b) < 2 * BatchSize THEN 2 * BatchSize - Len(b) ELSE 0
  IN  IF Len(queue) < room THEN Len(queue) ELSE room
Kept(b) == b \o SubSeq(queue, 1, Refill(b))

\* The failure, or the loss of the answer, of a write.
WriteFails ==
  /\ flusher = "write" /\ failures < MaxFailures /\ failures' = failures + 1
  /\ Commit(pending) \/ UNCHANGED <<logRows, payloads>>
  /\ pending' = Kept(pending)
  /\ queue' = SubSeq(queue, Refill(pending) + 1, Len(queue))
  /\ flusher' = "collect"
  /\ UNCHANGED <<enq, closing>>

(***************************************************************************)
(* Close: stopOnce, then the flusher takes what the queue has and writes   *)
(* it once together with its batch.                                        *)
(***************************************************************************)
Close ==
  /\ ~closing /\ closing' = TRUE
  /\ UNCHANGED <<enq, queue, pending, flusher, failures, logRows, payloads>>

MutantDrained == queue

Drained == pending \o queue

FinalDrain ==
  /\ flusher = "collect" /\ closing
  /\ flusher' = "off" /\ queue' = <<>>
  /\ \/ Commit(Drained) /\ pending' = <<>> /\ UNCHANGED failures
     \/ failures < MaxFailures /\ failures' = failures + 1 /\ pending' = Drained /\ UNCHANGED <<logRows, payloads>>
  /\ UNCHANGED <<enq, closing>>

SinkNext ==
  \/ \E e \in Entries : EnqueueCheck(e) \/ EnqueueSend(e) \/ EnqueueEvict(e)
  \/ Collect \/ FlushTick \/ WriteOK \/ WriteFails \/ Close \/ FinalDrain

SinkSpec == SinkInit /\ [][SinkNext]_sinkVars
-----------------------------------------------------------------------------
(* Properties *)

Accepted == {e \in Entries : enq[e] = "accepted"}

\* An accepted entry is in the queue, in the batch or in the database, through
\* evictions, outages, retries and the drain; it is lost only with the whole
\* process (or, when it was sent after the drain, with the queue).
AcceptedAccounted == Accepted \subseteq ToSet(queue) \cup ToSet(pending) \cup logRows

\* An entry that was dropped in favour of newer ones is in no table, nor on
\* its way there, and none is in the queue or the batch twice.
DroppedIsDropped ==
  LET way == pending \o queue
  IN  /\ \A e \in Entries : enq[e] \in {"evicted", "refused"} => e \notin ToSet(way) \cup logRows
      /\ Cardinality(ToSet(way)) = Len(way)

\* A payload is in the database only together with its log row.
PayloadsHaveLogs == payloads \subseteq logRows

SinkSound == SinkTypeOK /\ AcceptedAccounted /\ DroppedIsDropped /\ PayloadsHaveLogs

\* "copy the rows one at a time, log and drop only the bad ones - the log rows
\* and the good payloads still commit" (copy.go on the isolation of a row).
GoodPayloadsCommit == \A e \in logRows : e \notin BadPayloads => e \in payloads
=============================================================================
