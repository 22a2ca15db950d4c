--------------------------- MODULE StreamResume -----------------------------
(***************************************************************************)
(* internal/server/stream_buffer.go and stream_resume.go: the store of      *)
(* resumable streams, the handlers that generate a stream into its rolling  *)
(* buffer whether or not their client stays, and the replay requests that   *)
(* read a buffer from a cursor until the stream is finalized.               *)
(*                                                                          *)
(* A stream request creates one buffer entry, so entries are named by the   *)
(* request that made them; the store maps a stream ID (a request ID, which  *)
(* clients may reuse) to the entry opened last.  A replay keeps the entry   *)
(* it found.  Each step is one critical section of the store's mutex or of  *)
(* an entry's; sync.Cond.Wait releases the entry's mutex and joins the      *)
(* waiters in one step, and a Broadcast moves all of them to woken.         *)
(***************************************************************************)
EXTENDS Integers, FiniteSets, SequencesExt, FiniteSetsExt

CONSTANTS
    Streams,      \* stream requests
    Readers,      \* replay requests
    SidsOf,       \* SidsOf[p]: the request IDs p may come with
    Owner,        \* Owner[p]: its authenticated principal, or NoPrincipal
    Requester,    \* Requester[r]: the principal of a replay, or NoPrincipal
    NoPrincipal,
    MaxEvents,    \* resume_max_events
    MaxBytes,     \* resume_max_bytes
    MaxEntries,   \* resume_max_entries, 0 for no cap
    EndOf,        \* EndOf[i]: the size of a stream's first i frames together
    Cursors,      \* bound: the cursors that clients cite
    MaxChunks     \* bound: chunks an upstream sends

ASSUME StreamAssumption ==
    /\ MaxEvents \in Nat \ {0} /\ MaxBytes \in Nat \ {0} /\ MaxEntries \in Nat
    /\ MaxChunks \in Nat /\ Cursors \subseteq Nat
    /\ EndOf \in [0..(MaxChunks + 2) -> Nat]
    /\ \A i, j \in 0..(MaxChunks + 2) : i < j => EndOf[i] < EndOf[j]

\* NoReplay and the first sidOf name some stream and some ID of each.
ASSUME IdsAssumption == Streams # {} /\ \A p \in Streams : SidsOf[p] # {}

VARIABLES
    sidOf,    \* sidOf[p]: the request ID p came with
    stamps,   \* the streams in the order of their createdAt
    buffers,  \* s.buffers: a function on the stream IDs in the store
    entry,    \* entry[p]: the streamBufferEntry p made
    handler,  \* handler[p]: where p's handler stands
    replay    \* replay[r]: where replay r stands

vars == <<sidOf, stamps, buffers, entry, handler, replay>>

Sids == UNION {SidsOf[p] : p \in Streams}

\* content is not in the code: nextSeq when the stream was finalized.
NewEntry == [frames |-> <<>>, bytes |-> 0, nextSeq |-> 0, finalized |-> FALSE, content |-> 0]

NewReplay(p, c) == [pc |-> "phase1", of |-> p, afterSeq |-> c, batch |-> <<>>, timer |-> FALSE, gone |-> FALSE]

NoReplay == [NewReplay(CHOOSE p \in Streams : TRUE, 0) EXCEPT !.pc = "idle"]

Init ==
    /\ sidOf = [p \in Streams |-> CHOOSE s \in SidsOf[p] : TRUE]
    /\ stamps = <<>>
    /\ buffers = [s \in {} |-> CHOOSE p \in Streams : TRUE]
    /\ entry = [p \in Streams |-> NewEntry]
    /\ handler = [p \in Streams |-> "idle"]
    /\ replay = [r \in Readers |-> NoReplay]

----------------------------------------------------------------------------
(* The entry: what its methods do under e.mu. *)

\* A frame is its sequence number.  Frames the rolling window can keep: the
\* newest one whatever its size.
Fits(frames, bytes) == Len(frames) <= MaxEvents /\ (bytes <= MaxBytes \/ Len(frames) <= 1)

\* The size of a run of frames.
Bytes(frames) == IF frames = <<>> THEN 0 ELSE EndOf[frames[Len(frames)]] - EndOf[frames[1] - 1]

\* Mutant: an oversized newest frame is dropped like any other.
MutantTrimEverything(e) ==
    LET k == Min({k \in 0..Len(e.frames) :
                    /\ Len(e.frames) - k <= MaxEvents
                    /\ Bytes(SubSeq(e.frames, k + 1, Len(e.frames))) <= MaxBytes})
        kept == SubSeq(e.frames, k + 1, Len(e.frames))
    IN  [e EXCEPT !.frames = kept, !.bytes = Bytes(kept)]

\* What is left of the window without its oldest k frames.
Rest(frames, k) == SubSeq(frames, k + 1, Len(frames))
BytesLeft(frames, bytes, k) == bytes - Bytes(SubSeq(frames, 1, k))

\* The trim loop of Append drops the oldest frames until the rest fits.
Dropped(frames, bytes) ==
    Min({k \in 0..Len(frames) : Fits(Rest(frames, k), BytesLeft(frames, bytes, k))})

Trim(e) ==
    LET k == Dropped(e.frames, e.bytes)
    IN  [e EXCEPT !.frames = Rest(e.frames, k), !.bytes = BytesLeft(e.frames, e.bytes, k)]

AppendFrame(e) ==
    Trim([e EXCEPT !.nextSeq = @ + 1,
                   !.frames = Append(@, e.nextSeq + 1),
                   !.bytes = @ + Bytes(<<e.nextSeq + 1>>)])

\* The n-th element of a set of positions.
NthFrame(S, n) == CHOOSE i \in S : Cardinality({j \in S : j < i}) = n - 1

\* The frames beyond the cursor, in their order.
FramesAfter(e, afterSeq) ==
    LET newer == {i \in 1..Len(e.frames) : e.frames[i] > afterSeq}
    IN  [n \in 1..Cardinality(newer) |-> e.frames[NthFrame(newer, n)]]

\* cond.Broadcast on p's entry.
Broadcast(p) ==
    replay' = [r \in Readers |->
        IF replay[r].of = p /\ replay[r].pc = "waiting" THEN [replay[r] EXCEPT !.pc = "woken"] ELSE replay[r]]

\* Mutant: Append wakes nobody.
MutantAppendSilently(p) ==
    /\ entry' = [entry EXCEPT ![p] = AppendFrame(@)]
    /\ UNCHANGED replay

AppendEvent(p) ==
    /\ entry' = [entry EXCEPT ![p] = AppendFrame(@)]
    /\ Broadcast(p)

----------------------------------------------------------------------------
(* handleStreamChatResumable. *)

Goto(p, label) == handler' = [handler EXCEPT ![p] = label]

\* A request arrives; Open reads the clock before it takes s.mu ...
OpenStamp(p, s) ==
    /\ handler[p] = "idle"
    /\ sidOf' = [sidOf EXCEPT ![p] = s]
    /\ stamps' = Append(stamps, p)
    /\ Goto(p, "stamped")
    /\ UNCHANGED <<buffers, entry, replay>>

Stamp(p) == CHOOSE i \in 1..Len(stamps) : stamps[i] = p

Oldest == CHOOSE s \in DOMAIN buffers : \A t \in DOMAIN buffers : Stamp(buffers[s]) <= Stamp(buffers[t])

\* Mutant: the cap is compared before the new entry is counted.
MutantEvictLate(p) ==
    IF MaxEntries > 0 /\ Cardinality(DOMAIN buffers) > MaxEntries /\ sidOf[p] \notin DOMAIN buffers
    THEN {Oldest} ELSE {}

\* The entry evicted for a new ID when the store is full.
Evicted(p) ==
    IF MaxEntries > 0 /\ Cardinality(DOMAIN buffers) >= MaxEntries /\ sidOf[p] \notin DOMAIN buffers
    THEN {Oldest} ELSE {}

\* ... and there replaces an entry of the same ID, or evicts the oldest.
OpenInsert(p) ==
    /\ handler[p] = "stamped"
    /\ buffers' = [s \in (DOMAIN buffers \ Evicted(p)) \union {sidOf[p]} |->
                      IF s = sidOf[p] THEN p ELSE buffers[s]]
    /\ Goto(p, "opened")
    /\ UNCHANGED <<sidOf, stamps, entry, replay>>

Without(sids) == [s \in DOMAIN buffers \ sids |-> buffers[s]]

\* provider.StreamChat refuses: Release, by ID.  When the local slots are
\* full and no cloud provider is left, the handler releases a second time.
StreamChatFails(p) ==
    /\ handler[p] = "opened"
    /\ buffers' = Without({sidOf[p]})
    /\ Goto(p, "failed")
    /\ UNCHANGED <<sidOf, stamps, entry, replay>>

ReleaseAgain(p) ==
    /\ handler[p] = "failed"
    /\ buffers' = Without({sidOf[p]})
    /\ Goto(p, "done")
    /\ UNCHANGED <<sidOf, stamps, entry, replay>>

StreamChatStarts(p) ==
    /\ handler[p] = "opened"
    /\ Goto(p, "live")
    /\ UNCHANGED <<sidOf, stamps, buffers, entry, replay>>

\* A chunk is buffered, then written to the client.  A write or a keepalive
\* that fails ends the writing, never the buffering.
Chunk(p) ==
    /\ handler[p] = "live"
    /\ entry[p].nextSeq < MaxChunks
    /\ AppendEvent(p)
    /\ UNCHANGED <<sidOf, stamps, buffers, handler>>

\* Mutant: waiters are not woken at the end.
MutantFinalizeSilently(p) ==
    /\ handler[p] = "live"
    /\ entry' = [entry EXCEPT ![p].finalized = TRUE, ![p].content = entry[p].nextSeq]
    /\ Goto(p, "closed")
    /\ UNCHANGED <<sidOf, stamps, buffers, replay>>

\* The channel closes, or the idle watchdog trips.
MarkFinalized(p) ==
    /\ handler[p] = "live"
    /\ entry' = [entry EXCEPT ![p].finalized = TRUE, ![p].content = entry[p].nextSeq]
    /\ Broadcast(p)
    /\ Goto(p, "closed")
    /\ UNCHANGED <<sidOf, stamps, buffers>>

\* The usage chunk, if asked for, and [DONE], for a client that is still there.
Terminal(p, last) ==
    /\ handler[p] = "closed" \/ (handler[p] = "usage" /\ last)
    /\ AppendEvent(p)
    /\ Goto(p, IF last THEN "done" ELSE "usage")
    /\ UNCHANGED <<sidOf, stamps, buffers>>

\* A write to the client failed, or its context is cancelled: neither.
NoTerminal(p) ==
    /\ handler[p] = "closed"
    /\ Goto(p, "done")
    /\ UNCHANGED <<sidOf, stamps, buffers, entry, replay>>

\* The reaper drops every entry older than the TTL: those of the first k stamps.
ReapExpired(k) ==
    /\ buffers' = Without({s \in DOMAIN buffers : Stamp(buffers[s]) <= k})
    /\ UNCHANGED <<sidOf, stamps, entry, handler, replay>>

----------------------------------------------------------------------------
(* handleStreamResume. *)

Set(r, rec) ==
    /\ replay' = [replay EXCEPT ![r] = rec]
    /\ UNCHANGED <<sidOf, stamps, buffers, entry, handler>>

\* A known ID of the same principal, with any cursor of that ID; every other
\* request is refused and changes nothing.
ReplayOpens(r, s, c) ==
    /\ replay[r].pc = "idle"
    /\ s \in DOMAIN buffers
    /\ Owner[buffers[s]] = Requester[r] /\ Requester[r] # NoPrincipal
    /\ Set(r, NewReplay(buffers[s], c))

\* What is buffered after the cursor.
Phase1(r) ==
    /\ replay[r].pc = "phase1"
    /\ Set(r, [replay[r] EXCEPT !.pc = "write", !.batch = FramesAfter(entry[replay[r].of], replay[r].afterSeq)])

WriteFrame(r) ==
    /\ replay[r].pc = "write" /\ replay[r].batch # <<>>
    /\ Set(r, [replay[r] EXCEPT !.afterSeq = Head(replay[r].batch), !.batch = Tail(@)])

ReplayWriteFails(r) ==
    /\ replay[r].pc = "write" /\ replay[r].batch # <<>> /\ replay[r].gone
    /\ Set(r, [replay[r] EXCEPT !.pc = "ended", !.batch = <<>>])

\* The loop's test of the client's context.
LoopTest(r) ==
    /\ replay[r].pc = "write" /\ replay[r].batch = <<>>
    /\ Set(r, [replay[r] EXCEPT !.pc = IF replay[r].gone THEN "ended" ELSE "poll"])

\* Mutant: the frames at the cursor are sent again.
MutantFramesFromCursor(r) ==
    LET e == entry[replay[r].of]
        new == FramesAfter(e, replay[r].afterSeq - 1)
    IN  IF e.finalized /\ FramesAfter(e, replay[r].afterSeq) = <<>>
        THEN [replay[r] EXCEPT !.pc = "drained", !.timer = FALSE]
        ELSE [replay[r] EXCEPT !.pc = "write", !.batch = new, !.timer = FALSE]

\* WaitForNew returns; a finalized stream with nothing new ends the replay.
Returned(r) ==
    LET e == entry[replay[r].of]
        new == FramesAfter(e, replay[r].afterSeq)
    IN  IF e.finalized /\ new = <<>>
        THEN [replay[r] EXCEPT !.pc = "drained", !.timer = FALSE]
        ELSE [replay[r] EXCEPT !.pc = "write", !.batch = new, !.timer = FALSE]

Pending(r) == LET e == entry[replay[r].of] IN e.finalized \/ FramesAfter(e, replay[r].afterSeq) # <<>>

\* WaitForNew returns at once, or arms its timer and waits.
WaitForNew(r) ==
    /\ replay[r].pc = "poll"
    /\ Set(r, IF Pending(r) THEN Returned(r) ELSE [replay[r] EXCEPT !.pc = "waiting", !.timer = TRUE])

\* Woken, it looks at the frames and at finalized, and at nothing else.
WaitWakes(r) ==
    /\ replay[r].pc = "woken"
    /\ Set(r, IF Pending(r) THEN Returned(r) ELSE [replay[r] EXCEPT !.pc = "waiting"])

TimerFires(r) ==
    /\ replay[r].pc \in {"waiting", "woken"} /\ replay[r].timer
    /\ replay' = [q \in Readers |->
          [replay[q] EXCEPT !.pc = IF replay[q].of = replay[r].of /\ @ = "waiting" THEN "woken" ELSE @,
                            !.timer = @ /\ q # r]]
    /\ UNCHANGED <<sidOf, stamps, buffers, entry, handler>>

ReplayClientLeaves(r) ==
    /\ replay[r].pc \notin {"idle", "drained", "ended"} /\ ~ replay[r].gone
    /\ Set(r, [replay[r] EXCEPT !.gone = TRUE])

----------------------------------------------------------------------------

ReplayStep(r) ==
    Phase1(r) \/ WriteFrame(r) \/ ReplayWriteFails(r) \/ LoopTest(r) \/ WaitForNew(r) \/ WaitWakes(r) \/ TimerFires(r)

HandlerStep(p) ==
    \/ \E s \in SidsOf[p] : OpenStamp(p, s)
    \/ OpenInsert(p) \/ StreamChatFails(p) \/ ReleaseAgain(p) \/ StreamChatStarts(p)
    \/ Chunk(p)
    \/ \E last \in BOOLEAN : Terminal(p, last)
    \/ MarkFinalized(p) \/ NoTerminal(p)

Next ==
    \/ \E p \in Streams : HandlerStep(p)
    \/ \E k \in 1..Len(stamps) : ReapExpired(k)
    \/ \E r \in Readers :
          \/ \E s \in Sids, c \in Cursors : ReplayOpens(r, s, c)
          \/ ReplayStep(r)
          \/ ReplayClientLeaves(r)

Spec == Init /\ [][Next]_vars

\* Replay goroutines run and their timers fire; nothing is assumed of an
\* upstream or of a client.
FairSpec == Spec /\ \A r \in Readers : WF_vars(ReplayStep(r))

----------------------------------------------------------------------------
(* Properties. *)

\* Every variable stays in its range, and a buffer within its limits.
TypeOK ==
    /\ sidOf \in [Streams -> Sids] /\ stamps \in Seq(Streams)
    /\ DOMAIN buffers \subseteq Sids /\ \A s \in DOMAIN buffers : sidOf[buffers[s]] = s
    /\ \A p \in Streams :
          /\ entry[p].frames \in Seq(Nat)
          /\ Len(entry[p].frames) <= MaxEvents
          /\ entry[p].bytes \in Nat /\ entry[p].nextSeq \in Nat /\ entry[p].content \in Nat
          /\ entry[p].finalized \in BOOLEAN
    /\ handler \in [Streams -> {"idle", "stamped", "opened", "failed", "live", "closed", "usage", "done"}]
    /\ \A r \in Readers :
          /\ replay[r].pc \in {"idle", "phase1", "write", "poll", "waiting", "woken", "drained", "ended"}
          /\ replay[r].of \in Streams /\ replay[r].afterSeq \in Nat /\ replay[r].batch \in Seq(Nat)
          /\ replay[r].timer \in BOOLEAN /\ replay[r].gone \in BOOLEAN

\* The window is the unbroken run of the newest frames, it always keeps the
\* newest one, and the bytes it is charged for are those of its frames.
WindowIsNewest ==
    \A p \in Streams :
        LET f == entry[p].frames
        IN  /\ \A i \in 1..Len(f) : f[i] = entry[p].nextSeq - Len(f) + i
            /\ entry[p].nextSeq > 0 => f # <<>>
            /\ entry[p].bytes = Bytes(f)
            /\ Fits(f, entry[p].bytes)

\* The store stays within its cap when streams open at the same time (R7).
EntriesCapped == MaxEntries > 0 => Cardinality(DOMAIN buffers) <= MaxEntries

\* A replay asleep in cond.Wait has nothing to do: no frame is beyond its
\* cursor and its stream is not finalized.  No Broadcast is missed.
NoMissedBroadcast == \A r \in Readers : replay[r].pc = "waiting" => ~ Pending(r)

\* A replay writes frames in order and none twice, across the buffered phase
\* and the live one, and skips only frames the window has dropped.
ReplayInOrder ==
    [][\A r \in Readers :
          replay[r].batch # <<>> /\ replay'[r].pc = "write" /\ replay'[r].batch = Tail(replay[r].batch) =>
             /\ replay'[r].afterSeq > replay[r].afterSeq
             /\ \A q \in (replay[r].afterSeq + 1)..(replay'[r].afterSeq - 1) :
                   q < entry[replay[r].of].frames[1]]_vars

\* A replay that ends because the stream is finalized has written everything
\* the upstream sent, up to the last chunk.
ReplayDeliversContent ==
    \A r \in Readers :
        replay[r].pc = "drained" => replay[r].afterSeq >= entry[replay[r].of].content

\* Types, the window of newest frames, and complete replays of what it holds.
StreamSound == TypeOK /\ WindowIsNewest /\ ReplayDeliversContent

\* A replay of a finalized stream ends.
ReplayEnds ==
    \A r \in Readers :
        (replay[r].pc # "idle" /\ entry[replay[r].of].finalized) ~> (replay[r].pc \in {"drained", "ended"})

\* "no more frames will be appended. Wakes any replay waiter so it can drain
\* to the end and exit": a replay that drained a stream has its last frame.
ReplayDrainsToEnd ==
    \A r \in Readers :
        replay[r].pc = "drained" => FramesAfter(entry[replay[r].of], replay[r].afterSeq) = <<>>

\* "Poll timeout per round keeps the connection responsive to client
\* disconnect": a replay whose client left ends.
ReplayNoticesDisconnect ==
    \A r \in Readers : replay[r].gone ~> (replay[r].pc \in {"drained", "ended"})
=============================================================================
