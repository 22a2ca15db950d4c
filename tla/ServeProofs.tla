----------------------------- MODULE ServeProofs -----------------------------
(***************************************************************************)
(* Proofs about the handlers of a request.                                   *)
(*                                                                           *)
(* The first part is about the life of a chat request, for any set of        *)
(* requests and cache keys, any slot cap, any overflow ceiling: every way    *)
(* through the handlers ends in one reply, at most one charge and at most    *)
(* one outcome per backend.                                                  *)
(*                                                                           *)
(* The second part is about the event streams of /v1/messages, for any       *)
(* number of blocks and any set of tool calls: what the client has, and the  *)
(* events the handler is about to write, add up to a message of the          *)
(* protocol.  The argument composes "Leads": a sequence of events leads from *)
(* one stage of a message to another.                                        *)
(*                                                                           *)
(* The third part is about resumable streams, for any number of streams,     *)
(* replays, IDs and any limits.  Three arguments: a step that changes an     *)
(* entry broadcasts to the replays asleep on it (WInv); the store grows only *)
(* in OpenInsert, which evicts first when the store is full (CInv); an entry *)
(* holds the run of its newest frames, which only moves on, and a replay's   *)
(* batch is a run that starts at its cursor or where the entry's window once *)
(* did (HInv, NInv, PInv).                                                   *)
(***************************************************************************)
EXTENDS ChatFlow, Messages, StreamResume, FunctionTheorems, FiniteSetTheorems, SequenceTheorems, WellFoundedInduction, TLAPS

\* The places of a handler before any backend's breaker heard of the request,
\* those of the forward loop, and those only a plain request reaches.
Untried == {"new", "resolve", "admit", "stream", "lookup", "coalesce", "wait", "lead", "leading",
            "recheck", "direct", "calling"}
Forwarding == {"open", "opening", "streaming"}
Plain == {"lookup", "coalesce", "wait", "lead", "leading", "recheck", "direct", "calling", "falling"}
Leading == {"lead", "leading"}
Places == Untried \cup Forwarding \cup {"falling", "done"}

ReqType == [pc : Places, ep : {"chat", "completions"}, stream : BOOLEAN, image : BOOLEAN, key : CacheKeys,
            backend : Backends, model : {"text", "localVLM", "cloudVLM"}, held : SUBSET {"queue", "task", "stream"},
            leader : Requests \cup {Nobody}]
BookType == [replies : Nat, reply : {"none", "ok", "error"}, charges : Nat, outcomes : [Backends -> Nat], served : Nat]

\* What the place c of a request says about its book b; g: its context is over.
\* The deferred accounts only add up because a place fixes what was written
\* down on the way to it.
Consistent(c, b, g) ==
    /\ b.replies <= 1 /\ b.charges <= 1 /\ (b.charges = 1 => b.reply = "ok")
    /\ c.pc = "done" => b.replies = 1 \/ g
    /\ c.pc # "done" => b.replies = 0 /\ b.charges = 0
    /\ \A k \in Backends : b.outcomes[k] <= 1
    /\ c.pc \in Untried => \A k \in Backends : b.outcomes[k] = 0
    /\ c.pc = "falling" => c.backend # "cloud" /\ b.outcomes["cloud"] = 0
    /\ c.pc \in Forwarding =>
         /\ c.stream /\ b.outcomes[c.backend] = 0
         /\ c.backend # "cloud" => \A k \in Backends : b.outcomes[k] = 0
    /\ c.pc = "stream" => c.stream
    /\ c.pc \in Plain => ~c.stream
    /\ c.image /\ (c.backend = "cloud" \/ c.pc = "falling") => c.model = "cloudVLM"

\* A request that is over, or a stream that was diverted after a failure: each
\* overflow charges the day for one more of these.
Spender(c, b) == c.pc = "done" \/ (c.stream /\ (b.outcomes["local"] # 0 \/ b.outcomes["cluster"] # 0))
Spenders == {r \in Requests : Spender(chat[r], book[r])}

\* The inductive invariant.
SInv ==
    /\ chat \in [Requests -> ReqType] /\ book \in [Requests -> BookType]
    /\ \A r \in Requests : Consistent(chat[r], book[r], r \in gone)
    /\ gone \subseteq Requests /\ cachedKeys \subseteq CacheKeys /\ cooldown \in BOOLEAN
    /\ slots \subseteq Requests /\ Cardinality(slots) <= SlotCap
    /\ flights \in [CacheKeys -> Requests \cup {Nobody}]
    /\ \A r \in Requests : chat[r].pc \in Leading => flights[chat[r].key] = r
    /\ spent \in Nat /\ spent <= Cardinality(Spenders)

----------------------------------------------------------------------------
(* The records: what a step of a handler leaves of a request, and what it    *)
(* writes into its book.                                                     *)

\* d is the request c at another place: only pc, held and leader differ.
Same(c, d) ==
    /\ d.stream = c.stream /\ d.image = c.image /\ d.key = c.key
    /\ d.backend = c.backend /\ d.model = c.model

\* A plain move.
LEMMA ToMoves ==
    ASSUME NEW r \in Requests, NEW p \in Places, chat \in [Requests -> ReqType], To(r, p)
    PROVE  /\ chat' \in [Requests -> ReqType]
           /\ \A s \in Requests \ {r} : chat'[s] = chat[s]
           /\ chat'[r].pc = p /\ Same(chat[r], chat'[r])
<1>1. chat' = [chat EXCEPT ![r] = [chat[r] EXCEPT !.pc = p]]
  BY DEF To
<1>2. [chat[r] EXCEPT !.pc = p] \in ReqType
  BY DEF ReqType
<1>3. Same(chat[r], [chat[r] EXCEPT !.pc = p]) /\ [chat[r] EXCEPT !.pc = p].pc = p
  BY DEF ReqType, Same
<1> QED BY <1>1, <1>2, <1>3

\* The end of a handler.
LEMMA LeaveMoves ==
    ASSUME NEW r \in Requests, chat \in [Requests -> ReqType], Leave(r)
    PROVE  /\ chat' \in [Requests -> ReqType]
           /\ \A s \in Requests \ {r} : chat'[s] = chat[s]
           /\ chat'[r].pc = "done" /\ Same(chat[r], chat'[r])
<1> DEFINE d == [[chat[r] EXCEPT !.pc = "done"] EXCEPT !.held = {}]
<1>1. chat' = [chat EXCEPT ![r] = d]
  BY DEF Leave
<1>2. d \in ReqType
  BY DEF ReqType, Places
<1>3. Same(chat[r], d) /\ d.pc = "done"
  BY DEF ReqType, Same
<1> HIDE DEF d
<1> QED BY <1>1, <1>2, <1>3

\* What a step may write about a request: n replies more (reading w), m charges
\* more, and one outcome for each backend of B.
Adds(b, c, n, w, m, B) ==
    /\ c \in BookType
    /\ c.replies = b.replies + n /\ c.charges = b.charges + m
    /\ c.reply = IF n = 0 THEN b.reply ELSE w
    /\ \A k \in Backends : c.outcomes[k] = b.outcomes[k] + (IF k \in B THEN 1 ELSE 0)

\* A reply.
LEMMA ReplyAdds ==
    ASSUME NEW b \in BookType, NEW w \in {"ok", "error"}
    PROVE  Adds(b, Reply(b, w), 1, w, 0, {})
<1> DEFINE c == [b EXCEPT !.replies = b.replies + 1]
           d == [c EXCEPT !.reply = w]
<1>1. b.outcomes \in [Backends -> Nat] /\ \A k \in Backends : b.outcomes[k] = b.outcomes[k] + 0
  BY DEF BookType
<1>2. /\ c \in BookType /\ c.outcomes = b.outcomes /\ c.replies = b.replies + 1
      /\ c.charges = b.charges
  BY DEF BookType
<1> HIDE DEF c
<1>3. /\ d \in BookType /\ d.outcomes = c.outcomes /\ d.replies = c.replies
      /\ d.charges = c.charges /\ d.reply = w
  BY <1>2 DEF BookType
<1>4. b.charges + 0 = b.charges
  BY DEF BookType
<1>5. Reply(b, w) = d
  BY DEF Reply, c
<1> HIDE DEF d
<1> QED BY <1>1, <1>2, <1>3, <1>4, <1>5 DEF Adds

\* An outcome of a backend.
LEMMA OutcomeAdds ==
    ASSUME NEW b \in BookType, NEW k \in Backends, NEW w
    PROVE  Adds(b, Outcome(b, k), 0, w, 0, {k})
<1> DEFINE o == [b.outcomes EXCEPT ![k] = b.outcomes[k] + 1]
<1>1. b.outcomes \in [Backends -> Nat]
  BY DEF BookType
<1>2. o \in [Backends -> Nat] /\ \A j \in Backends : o[j] = b.outcomes[j] + (IF j \in {k} THEN 1 ELSE 0)
  BY <1>1
<1>3. Outcome(b, k) = [b EXCEPT !.outcomes = o]
  BY DEF Outcome
<1> HIDE DEF o
<1> QED BY <1>2, <1>3 DEF Adds, BookType

\* A charge.
LEMMA ChargeAdds ==
    ASSUME NEW b \in BookType, NEW w
    PROVE  Adds(b, Charge(b), 0, w, 1, {})
BY DEF Adds, Charge, BookType

\* An answer that was served is recorded, charged and sent.
LEMMA ServedAdds ==
    ASSUME NEW b \in BookType, NEW k \in Backends
    PROVE  Adds(b, [Reply(Charge(Outcome(b, k)), "ok") EXCEPT !.served = @ + 1], 1, "ok", 1, {k})
<1> DEFINE o == Outcome(b, k)
           p == Charge(o)
           q == Reply(p, "ok")
           z == [q EXCEPT !.served = q.served + 1]
<1>1. Adds(b, o, 0, "ok", 0, {k})
  BY OutcomeAdds
<1>2. Adds(o, p, 0, "ok", 1, {})
  BY <1>1, ChargeAdds DEF Adds
<1>3. Adds(p, q, 1, "ok", 0, {})
  BY <1>2, ReplyAdds DEF Adds
<1> HIDE DEF o, p, q
<1>4. Adds(q, z, 0, "ok", 0, {})
  BY <1>3 DEF Adds, BookType
<1> HIDE DEF z
<1>5. Adds(b, z, 1, "ok", 1, {k})
  <2>1. b \in BookType /\ b.replies \in Nat /\ b.charges \in Nat /\ b.outcomes \in [Backends -> Nat]
    BY DEF BookType
  <2> QED BY <1>1, <1>2, <1>3, <1>4, <2>1 DEF Adds
<1> QED BY <1>5 DEF o, p, q, z

\* A failure that is recorded and answered.
LEMMA FailedAdds ==
    ASSUME NEW b \in BookType, NEW k \in Backends
    PROVE  Adds(b, Reply(Outcome(b, k), "error"), 1, "error", 0, {k})
<1> DEFINE o == Outcome(b, k)
<1>1. Adds(b, o, 0, "error", 0, {k})
  BY OutcomeAdds
<1> HIDE DEF o
<1>2. Adds(o, Reply(o, "error"), 1, "error", 0, {})
  BY <1>1, ReplyAdds DEF Adds
<1>3. Adds(b, Reply(o, "error"), 1, "error", 0, {k})
  <2>1. b.replies \in Nat /\ b.charges \in Nat /\ b.outcomes \in [Backends -> Nat]
    BY DEF BookType
  <2> QED BY <1>1, <1>2, <2>1 DEF Adds
<1> QED BY <1>3 DEF o

\* A write touches one book.
LEMMA WriteBooks ==
    ASSUME NEW r \in Requests, NEW b \in BookType, book \in [Requests -> BookType], Write(r, b)
    PROVE  /\ book' \in [Requests -> BookType] /\ book'[r] = b
           /\ \A s \in Requests \ {r} : book'[s] = book[s]
BY DEF Write

----------------------------------------------------------------------------
(* One request: what its place and its book say to each other after a step.  *)

\* A book e that answers for b: one reply more, a charge only with an answer,
\* and an outcome only for a backend that had none.
Answers(b, e) ==
    /\ e \in BookType /\ e.replies = b.replies + 1
    /\ e.charges = b.charges \/ (e.charges = b.charges + 1 /\ e.reply = "ok")
    /\ \A k \in Backends : e.outcomes[k] = b.outcomes[k] \/ (b.outcomes[k] = 0 /\ e.outcomes[k] = 1)

\* A handler ends with a reply.
LEMMA EndsConsistent ==
    ASSUME NEW c \in ReqType, NEW b \in BookType, NEW g, Consistent(c, b, g), c.pc # "done",
           NEW d \in ReqType, d.pc = "done", Same(c, d), NEW e, Answers(b, e), NEW h
    PROVE  Consistent(d, e, h) /\ Spender(d, e)
<1>1. e.replies = 1 /\ (e.charges = 0 \/ (e.charges = 1 /\ e.reply = "ok"))
  BY DEF Consistent, Answers
<1>2. \A k \in Backends : e.outcomes[k] <= 1
  BY DEF Consistent, Answers
<1>3. d.image /\ d.backend = "cloud" => d.model = "cloudVLM"
  BY DEF Consistent, Same
<1> QED BY <1>1, <1>2, <1>3 DEF Consistent, Spender, Untried, Forwarding, Plain

\* A handler ends silently, for a client that is gone.
LEMMA SilentConsistent ==
    ASSUME NEW c \in ReqType, NEW b \in BookType, NEW g, Consistent(c, b, g),
           NEW d \in ReqType, d.pc = "done", Same(c, d), NEW h, h
    PROVE  Consistent(d, b, h) /\ Spender(d, b)
<1>1. d.image /\ d.backend = "cloud" => d.model = "cloudVLM"
  BY DEF Consistent, Same
<1>2. /\ b.replies <= 1 /\ b.charges <= 1 /\ (b.charges = 1 => b.reply = "ok")
      /\ \A k \in Backends : b.outcomes[k] <= 1
  BY DEF Consistent
<1> QED BY <1>1, <1>2 DEF Consistent, Spender, Untried, Forwarding, Plain

\* A handler goes on, and nothing is written down.
LEMMA WalkConsistent ==
    ASSUME NEW c \in ReqType, NEW b \in BookType, NEW g, Consistent(c, b, g), c.pc # "done",
           NEW d \in ReqType, Same(c, d), d.pc \notin {"done", "falling"},
           d.pc \in Untried => c.pc \in Untried,
           d.pc \in Forwarding => c.stream /\ c.pc \in Untried \cup Forwarding,
           d.pc = "stream" => c.stream, d.pc \in Plain => ~c.stream, NEW h
    PROVE  Consistent(d, b, h) /\ (Spender(c, b) => Spender(d, b))
<1>1. d.image /\ (d.backend = "cloud" \/ d.pc = "falling") => d.model = "cloudVLM"
  BY DEF Consistent, Same
<1>2. /\ b.replies <= 1 /\ b.charges <= 1 /\ (b.charges = 1 => b.reply = "ok")
      /\ \A k \in Backends : b.outcomes[k] <= 1
      /\ b.replies = 0 /\ b.charges = 0
  BY DEF Consistent
<1>3. d.pc \in Untried => \A k \in Backends : b.outcomes[k] = 0
  BY DEF Consistent
<1>4. d.pc \in Forwarding =>
         /\ d.stream /\ b.outcomes[d.backend] = 0
         /\ d.backend # "cloud" => \A k \in Backends : b.outcomes[k] = 0
  BY DEF Consistent, Same, ReqType
<1>5. (d.pc = "stream" => d.stream) /\ (d.pc \in Plain => ~d.stream)
  BY DEF Same
<1> QED BY <1>1, <1>2, <1>3, <1>4, <1>5 DEF Consistent, Spender, Same

\* A request goes to the cloud after its backend failed: B, what is recorded of
\* that, holds the backend at most.
LEMMA DivertConsistent ==
    ASSUME NEW c \in ReqType, NEW b \in BookType, NEW g, Consistent(c, b, g), c.backend # "cloud",
           NEW d \in ReqType, d.stream = c.stream, d.image = c.image,
           \/ d.pc = "falling" /\ c.pc \in {"calling", "direct"} /\ d.backend = c.backend
           \/ d.pc = "open" /\ c.pc \in {"open", "opening"} /\ d.backend = "cloud",
           d.image => d.model = "cloudVLM",
           NEW e, NEW B, B \subseteq {c.backend}, Adds(b, e, 0, "none", 0, B), NEW h
    PROVE  /\ Consistent(d, e, h) /\ ~Spender(c, b)
           /\ d.pc = "open" /\ B # {} => Spender(d, e)
<1>1. c.backend \in {"local", "cluster"} /\ "cloud" \in Backends
  BY DEF ReqType, Backends
<1>2. \A k \in Backends : b.outcomes[k] = 0
  BY DEF Consistent, Untried, Forwarding
<1>3. e.replies = 0 /\ e.charges = 0
  BY DEF Consistent, Adds, Untried, Forwarding
<1>4. (\A k \in Backends : e.outcomes[k] <= 1) /\ e.outcomes["cloud"] = 0
  BY <1>1, <1>2 DEF Adds
<1>5. (d.pc = "falling" => ~d.stream) /\ (d.pc = "open" => d.stream)
  BY DEF Consistent, Plain, Forwarding
<1>6. Consistent(d, e, h)
  BY <1>1, <1>3, <1>4, <1>5 DEF Consistent, Untried, Forwarding, Plain
<1>7. ~Spender(c, b)
  BY <1>2 DEF Spender, Backends
<1>8. d.pc = "open" /\ B # {} => Spender(d, e)
  BY <1>1, <1>2, <1>5 DEF Adds, Spender, Backends
<1> QED BY <1>6, <1>7, <1>8

----------------------------------------------------------------------------
(* The steps. *)

\* What a step of r's handler does to r and to nobody else.
Turn(r) ==
    /\ chat' \in [Requests -> ReqType] /\ book' \in [Requests -> BookType]
    /\ \A s \in Requests \ {r} : chat'[s] = chat[s] /\ book'[s] = book[s]
    /\ Consistent(chat'[r], book'[r], r \in gone')
    /\ Spender(chat[r], book[r]) => Spender(chat'[r], book'[r])

\* What SInv says of one request.
LEMMA OneRequest ==
    ASSUME SInv, NEW r \in Requests
    PROVE  /\ chat \in [Requests -> ReqType] /\ book \in [Requests -> BookType]
           /\ chat[r] \in ReqType /\ book[r] \in BookType /\ Consistent(chat[r], book[r], r \in gone)
BY DEF SInv

\* A reply ends a handler.
LEMMA EndTurn ==
    ASSUME SInv, NEW r \in Requests, chat[r].pc # "done", Leave(r),
           NEW e, Answers(book[r], e), Write(r, e)
    PROVE  Turn(r) /\ chat'[r].pc = "done"
<1>1. /\ chat \in [Requests -> ReqType] /\ book \in [Requests -> BookType]
      /\ chat[r] \in ReqType /\ book[r] \in BookType /\ Consistent(chat[r], book[r], r \in gone)
  BY OneRequest
<1>2. /\ chat' \in [Requests -> ReqType] /\ (\A s \in Requests \ {r} : chat'[s] = chat[s])
      /\ chat'[r] \in ReqType /\ chat'[r].pc = "done" /\ Same(chat[r], chat'[r])
  BY <1>1, LeaveMoves
<1>3. /\ book' \in [Requests -> BookType] /\ book'[r] = e
      /\ \A s \in Requests \ {r} : book'[s] = book[s]
  BY <1>1, WriteBooks DEF Answers
<1>4. Consistent(chat'[r], e, r \in gone') /\ Spender(chat'[r], e)
  BY <1>1, <1>2, EndsConsistent
<1> QED BY <1>2, <1>3, <1>4 DEF Turn

\* The plain answer of an early end.
LEMMA QuitTurn ==
    ASSUME SInv, NEW r \in Requests, chat[r].pc # "done", NEW w \in {"ok", "error"}, Quit(r, w)
    PROVE  Turn(r) /\ chat'[r].pc = "done"
<1> DEFINE e == Reply(book[r], w)
<1>1. Adds(book[r], e, 1, w, 0, {}) /\ book[r] \in BookType
  BY OneRequest, ReplyAdds
<1> HIDE DEF e
<1>2. Answers(book[r], e)
  BY <1>1 DEF Adds, Answers, BookType
<1>3. Leave(r) /\ Write(r, e)
  BY DEF Quit, e
<1> QED BY <1>2, <1>3, EndTurn

\* A silent end.
LEMMA SilentTurn ==
    ASSUME SInv, NEW r \in Requests, Leave(r), UNCHANGED book, r \in gone'
    PROVE  Turn(r) /\ chat'[r].pc = "done"
<1>1. /\ chat \in [Requests -> ReqType] /\ book \in [Requests -> BookType]
      /\ chat[r] \in ReqType /\ book[r] \in BookType /\ Consistent(chat[r], book[r], r \in gone)
  BY OneRequest
<1>2. /\ chat' \in [Requests -> ReqType] /\ (\A s \in Requests \ {r} : chat'[s] = chat[s])
      /\ chat'[r] \in ReqType /\ chat'[r].pc = "done" /\ Same(chat[r], chat'[r])
  BY <1>1, LeaveMoves
<1>4. Consistent(chat'[r], book[r], r \in gone') /\ Spender(chat'[r], book[r])
  BY <1>1, <1>2, SilentConsistent
<1> QED BY <1>1, <1>2, <1>4 DEF Turn

\* A step from place to place that writes nothing about the request.
LEMMA WalkTurn ==
    ASSUME SInv, NEW r \in Requests, NEW d \in ReqType,
           chat' \in [Requests -> ReqType], \A s \in Requests \ {r} : chat'[s] = chat[s],
           chat'[r] = d, Same(chat[r], d), chat[r].pc # "done", d.pc \notin {"done", "falling"},
           d.pc \in Untried => chat[r].pc \in Untried,
           d.pc \in Forwarding => chat[r].stream /\ chat[r].pc \in Untried \cup Forwarding,
           d.pc = "stream" => chat[r].stream, d.pc \in Plain => ~chat[r].stream,
           UNCHANGED book
    PROVE  Turn(r)
<1>1. /\ chat \in [Requests -> ReqType] /\ book \in [Requests -> BookType]
      /\ chat[r] \in ReqType /\ book[r] \in BookType /\ Consistent(chat[r], book[r], r \in gone)
  BY OneRequest
<1>2. Consistent(d, book[r], r \in gone') /\ (Spender(chat[r], book[r]) => Spender(d, book[r]))
  BY <1>1, WalkConsistent
<1> QED BY <1>1, <1>2 DEF Turn

\* The same for a step that changes the place only.
LEMMA ToTurn ==
    ASSUME SInv, NEW r \in Requests, NEW p \in Places, To(r, p), chat[r].pc # "done", p \notin {"done", "falling"},
           p \in Untried => chat[r].pc \in Untried,
           p \in Forwarding => chat[r].stream /\ chat[r].pc \in Untried \cup Forwarding,
           p = "stream" => chat[r].stream, p \in Plain => ~chat[r].stream,
           UNCHANGED book
    PROVE  Turn(r) /\ chat'[r].pc = p /\ chat'[r].key = chat[r].key
<1>1. /\ chat \in [Requests -> ReqType] /\ chat' \in [Requests -> ReqType]
      /\ (\A s \in Requests \ {r} : chat'[s] = chat[s])
      /\ chat'[r] \in ReqType /\ chat'[r].pc = p /\ Same(chat[r], chat'[r])
  BY OneRequest, ToMoves
<1> QED BY <1>1, WalkTurn DEF Same

\* The coalesced calls: r leaves them alone, begins one or ends its own.
FlightsKept(r) ==
    /\ flights' = flights
    /\ chat'[r].pc \in Leading => chat[r].pc \in Leading /\ chat'[r].key = chat[r].key
FlightBegins(r) ==
    /\ flights[chat[r].key] = Nobody /\ flights' = [flights EXCEPT ![chat[r].key] = r]
    /\ chat'[r].key = chat[r].key
FlightEnds(r) ==
    /\ chat[r].pc \in Leading /\ flights' = [flights EXCEPT ![chat[r].key] = Nobody]
    /\ chat'[r].pc \notin Leading

\* What a step of r's handler does to the state the requests share: at most one
\* slot, one flight and one charge of the day, each for r itself.
Shared(r) ==
    /\ \/ slots' = slots \/ slots' = slots \ {r}
       \/ slots' = slots \cup {r} /\ Cardinality(slots) < SlotCap
    /\ FlightsKept(r) \/ FlightBegins(r) \/ FlightEnds(r)
    /\ cachedKeys' \subseteq CacheKeys /\ cooldown' \in BOOLEAN
    /\ gone' \subseteq Requests /\ \A s \in Requests \ {r} : s \in gone' <=> s \in gone
    /\ spent' = spent \/ (spent' = spent + 1 /\ ~Spender(chat[r], book[r]) /\ Spender(chat'[r], book'[r]))

\* A step that touches nothing shared.
LEMMA SettledShared ==
    ASSUME SInv, NEW r \in Requests, Settled, chat'[r].pc \notin Leading
    PROVE  Shared(r)
<1>1. cooldown \in BOOLEAN /\ cooldown' = cooldown
  BY DEF SInv, Settled
<1>2. cooldown' \in BOOLEAN
  BY <1>1, Zenon
<1> QED BY <1>2 DEF SInv, Settled, Shared, FlightsKept

\* The early answers.
LEMMA QuitStep ==
    ASSUME SInv, NEW r \in Requests, chat[r].pc # "done", NEW w \in {"ok", "error"}, Quit(r, w), Settled
    PROVE  Turn(r) /\ Shared(r)
<1>1. Turn(r) /\ chat'[r].pc = "done"
  BY QuitTurn
<1> QED BY <1>1, SettledShared DEF Leading

\* The steps from place to place.
LEMMA ToStep ==
    ASSUME SInv, NEW r \in Requests, NEW p \in Places, To(r, p), chat[r].pc # "done",
           p \notin {"done", "falling"} \cup Leading,
           p \in Untried => chat[r].pc \in Untried,
           p \in Forwarding => chat[r].stream /\ chat[r].pc \in Untried \cup Forwarding,
           p = "stream" => chat[r].stream, p \in Plain => ~chat[r].stream,
           UNCHANGED book, Settled
    PROVE  Turn(r) /\ Shared(r)
<1>1. Turn(r) /\ chat'[r].pc = p
  BY ToTurn
<1> QED BY <1>1, SettledShared

\* Where a request is, plain and streaming requests are told apart.
LEMMA PlainOrStream ==
    ASSUME SInv, NEW r \in Requests
    PROVE  /\ chat[r].pc \in Plain => ~chat[r].stream
           /\ chat[r].pc \in Forwarding \cup {"stream"} => chat[r].stream
BY OneRequest DEF Consistent

\* Refusals before anything is held.
LEMMA RefusedStep ==
    ASSUME SInv, NEW r \in Requests, Refused(r)
    PROVE  Turn(r) /\ Shared(r)
BY QuitStep DEF Refused

\* The provider.
LEMMA ResolveStep ==
    ASSUME SInv, NEW r \in Requests, ResolveProvider(r)
    PROVE  Turn(r) /\ Shared(r)
<1>1. CASE To(r, "admit") /\ UNCHANGED book
  BY <1>1, ToStep DEF ResolveProvider, Places, Untried, Forwarding, Plain, Leading
<1>2. CASE Quit(r, "error")
  BY <1>2, QuitStep DEF ResolveProvider
<1> QED BY <1>1, <1>2 DEF ResolveProvider

\* The wait queue and the task registry.
LEMMA AcquireLocalStep ==
    ASSUME SInv, NEW r \in Requests, AcquireLocalSlot(r)
    PROVE  Turn(r) /\ Shared(r)
<1>1. chat[r].pc = "admit" /\ Settled
  BY DEF AcquireLocalSlot
<1>2. CASE Quit(r, "error")
  BY <1>1, <1>2, QuitStep
<1>3. CASE /\ chat' = [chat EXCEPT ![r].pc = IF chat[r].stream THEN "stream" ELSE "lookup",
                                   ![r].held = {"task"} \cup (IF chat[r].backend = "local" THEN {"queue"} ELSE {})]
           /\ UNCHANGED book
  <2> DEFINE p == IF chat[r].stream THEN "stream" ELSE "lookup"
             h == {"task"} \cup (IF chat[r].backend = "local" THEN {"queue"} ELSE {})
             d == [[chat[r] EXCEPT !.pc = p] EXCEPT !.held = h]
  <2>1. chat \in [Requests -> ReqType] /\ chat[r] \in ReqType
    BY OneRequest
  <2>2. chat' = [chat EXCEPT ![r] = d]
    BY <1>3
  <2>3. p \in Places /\ h \in SUBSET {"queue", "task", "stream"}
    BY DEF Places, Untried
  <2>4. (p = "stream" /\ chat[r].stream) \/ (p = "lookup" /\ ~chat[r].stream)
    OBVIOUS
  <2> HIDE DEF p, h
  <2>5. d \in ReqType /\ d.pc = p /\ Same(chat[r], d)
    BY <2>1, <2>3 DEF ReqType, Same
  <2> HIDE DEF d
  <2>6. chat' \in [Requests -> ReqType] /\ chat'[r] = d /\ \A s \in Requests \ {r} : chat'[s] = chat[s]
    BY <2>1, <2>2, <2>5
  <2>7. Turn(r)
    BY <1>1, <1>3, <2>4, <2>5, <2>6, WalkTurn DEF Untried, Forwarding, Plain
  <2> QED BY <1>1, <2>4, <2>5, <2>6, <2>7, SettledShared DEF Leading
<1> QED BY <1>2, <1>3 DEF AcquireLocalSlot

\* The stream slot.
LEMMA AcquireStreamStep ==
    ASSUME SInv, NEW r \in Requests, AcquireStreamSlot(r)
    PROVE  Turn(r) /\ Shared(r)
<1>1. chat[r].pc = "stream" /\ Settled
  BY DEF AcquireStreamSlot
<1>2. CASE Quit(r, "error")
  BY <1>1, <1>2, QuitStep
<1>3. CASE chat' = [chat EXCEPT ![r].pc = "open", ![r].held = @ \cup {"stream"}] /\ UNCHANGED book
  <2> DEFINE h == chat[r].held \cup {"stream"}
             d == [[chat[r] EXCEPT !.pc = "open"] EXCEPT !.held = h]
  <2>1. chat \in [Requests -> ReqType] /\ chat[r] \in ReqType
    BY OneRequest
  <2>2. chat' = [chat EXCEPT ![r] = d]
    BY <1>3, <2>1
  <2>3. "open" \in Places /\ h \in SUBSET {"queue", "task", "stream"}
    BY <2>1 DEF Places, Forwarding, ReqType
  <2> HIDE DEF h
  <2>5. d \in ReqType /\ d.pc = "open" /\ Same(chat[r], d)
    BY <2>1, <2>3 DEF ReqType, Same
  <2> HIDE DEF d
  <2>6. chat' \in [Requests -> ReqType] /\ chat'[r] = d /\ \A s \in Requests \ {r} : chat'[s] = chat[s]
    BY <2>1, <2>2, <2>5
  <2>7. Turn(r)
    BY <1>1, <1>3, <2>5, <2>6, PlainOrStream, WalkTurn DEF Untried, Forwarding, Plain
  <2> QED BY <1>1, <2>5, <2>6, <2>7, SettledShared DEF Leading
<1> QED BY <1>2, <1>3 DEF AcquireStreamSlot

\* A route, as the router or one of the diversions decides it.
RouteOK(image, d) ==
    /\ d.backend \in Backends /\ d.model \in {"text", "localVLM", "cloudVLM"}
    /\ image /\ d.backend = "cloud" => d.model = "cloudVLM"

\* Every route of the router is one, an image's too.
LEMMA RoutesOK ==
    ASSUME NEW image \in BOOLEAN, NEW d \in Routes(image)
    PROVE  RouteOK(image, d)
<1>1. CASE image
  BY <1>1 DEF Routes, ImageRoutes, RouteOK, Backends
<1>2. CASE ~image
  BY <1>2 DEF Routes, RouteOK
<1> QED BY <1>1, <1>2

\* The diversion keeps that.
LEMMA DivertOK ==
    ASSUME NEW image \in BOOLEAN, NEW c, c.model \in {"text", "localVLM", "cloudVLM"}
    PROVE  /\ RouteOK(image, Divert(image, c)) /\ Divert(image, c).backend = "cloud"
           /\ image => Divert(image, c).model = "cloudVLM"
BY DEF Divert, RouteOK, Backends

\* A request that was read and routed.
LEMMA RoutedStep ==
    ASSUME SInv, NEW r \in Requests, NEW ep \in {"chat", "completions"}, NEW stream \in BOOLEAN,
           NEW image \in BOOLEAN, NEW k \in CacheKeys, NEW d, RouteOK(image, d),
           NEW p \in {"resolve", "open", "lookup"}, p = "open" => stream, p = "lookup" => ~stream,
           chat[r].pc = "new", Routed(r, ep, stream, image, k, d, p)
    PROVE  Turn(r) /\ Shared(r)
<1> DEFINE f == [pc |-> p, ep |-> ep, stream |-> stream, image |-> image, key |-> k,
                 backend |-> d.backend, model |-> d.model, held |-> {}, leader |-> Nobody]
<1>2. p \in Places
  BY DEF Places, Untried, Forwarding
<1>3. /\ f \in ReqType /\ f.pc = p /\ f.stream = stream /\ f.image = image
      /\ f.backend = d.backend /\ f.model = d.model
  BY <1>2 DEF ReqType, RouteOK
<1>4. chat' = [chat EXCEPT ![r] = f] /\ UNCHANGED book /\ Settled
  BY DEF Routed
<1> HIDE DEF f
<1>5. /\ chat \in [Requests -> ReqType] /\ book \in [Requests -> BookType]
      /\ chat[r] \in ReqType /\ book[r] \in BookType /\ Consistent(chat[r], book[r], r \in gone)
  BY OneRequest
<1>6. chat' \in [Requests -> ReqType] /\ chat'[r] = f /\ \A s \in Requests \ {r} : chat'[s] = chat[s]
  BY <1>3, <1>4, <1>5
<1>7. /\ \A b \in Backends : book[r].outcomes[b] = 0
      /\ book[r].replies = 0 /\ book[r].charges = 0
  BY <1>5 DEF Consistent, Untried
<1>8. Consistent(f, book[r], r \in gone')
  BY <1>3, <1>7 DEF Consistent, Untried, Forwarding, Plain, RouteOK
<1>9. ~Spender(chat[r], book[r])
  BY <1>7 DEF Spender, Backends
<1>10. Turn(r)
  BY <1>4, <1>5, <1>6, <1>8, <1>9 DEF Turn
<1> QED BY <1>3, <1>4, <1>6, <1>10, SettledShared DEF Leading

\* Arrivals on the chat endpoint.
LEMMA ArriveStep ==
    ASSUME SInv, NEW r \in Requests, NEW s \in BOOLEAN, NEW i \in BOOLEAN, NEW k \in CacheKeys, Arrive(r, s, i, k)
    PROVE  Turn(r) /\ Shared(r)
<1>1. PICK route \in Routes(i) : Routed(r, "chat", s, i, k, Cooled(i, route), "resolve")
  BY DEF Arrive
<1>2. RouteOK(i, route)
  BY RoutesOK
<1>3. RouteOK(i, Divert(i, route))
  BY <1>2, DivertOK DEF RouteOK
<1>4. RouteOK(i, Cooled(i, route))
  BY <1>2, <1>3 DEF Cooled
<1>5. chat[r].pc = "new"
  BY DEF Arrive
<1> QED BY <1>1, <1>4, <1>5, RoutedStep

\* Arrivals on the completions endpoint.
LEMMA CompletionsStep ==
    ASSUME SInv, NEW r \in Requests, NEW s \in BOOLEAN, NEW k \in CacheKeys, ArriveCompletions(r, s, k)
    PROVE  Turn(r) /\ Shared(r)
<1>1. PICK route \in Routes(FALSE) :
        Routed(r, "completions", s, FALSE, k, route, IF s THEN "open" ELSE "lookup")
  BY DEF ArriveCompletions
<1>2. RouteOK(FALSE, route)
  BY RoutesOK
<1>5. chat[r].pc = "new"
  BY DEF ArriveCompletions
<1> QED BY <1>1, <1>2, <1>5, RoutedStep

\* The first look into the cache.
LEMMA CacheLookupStep ==
    ASSUME SInv, NEW r \in Requests, CacheLookup(r)
    PROVE  Turn(r) /\ Shared(r)
<1>1. chat[r].pc = "lookup" /\ Settled
  BY DEF CacheLookup
<1>2. CASE Quit(r, "ok")
  BY <1>1, <1>2, QuitStep
<1>3. CASE To(r, "coalesce") /\ UNCHANGED book
  BY <1>1, <1>3, ToStep, PlainOrStream DEF Places, Untried, Forwarding, Plain, Leading
<1> QED BY <1>2, <1>3 DEF CacheLookup

\* The second of them, after the coalesced call.
LEMMA CacheRecheckStep ==
    ASSUME SInv, NEW r \in Requests, CacheRecheck(r)
    PROVE  Turn(r) /\ Shared(r)
<1>1. chat[r].pc = "recheck" /\ Settled
  BY DEF CacheRecheck
<1>2. CASE Quit(r, "ok")
  BY <1>1, <1>2, QuitStep
<1>3. CASE To(r, "direct") /\ UNCHANGED book
  BY <1>1, <1>3, ToStep, PlainOrStream DEF Places, Untried, Forwarding, Plain, Leading
<1> QED BY <1>2, <1>3 DEF CacheRecheck

\* The wake-up of a waiter.
LEMMA WakeStep ==
    ASSUME SInv, NEW r \in Requests, Wake(r)
    PROVE  Turn(r) /\ Shared(r)
BY ToStep, PlainOrStream DEF Wake, Places, Untried, Forwarding, Plain, Leading

\* The start of the forward loop.
LEMMA EstablishedStep ==
    ASSUME SInv, NEW r \in Requests, StreamEstablished(r)
    PROVE  Turn(r) /\ Shared(r)
BY ToStep, PlainOrStream DEF StreamEstablished, Places, Untried, Forwarding, Plain, Leading

\* A failed overflow.
LEMMA FallbackFailsStep ==
    ASSUME SInv, NEW r \in Requests, FallbackFails(r)
    PROVE  Turn(r) /\ Shared(r)
BY QuitStep DEF FallbackFails

\* The coalescer: the first becomes the leader, the others wait for it.
LEMMA CoalesceStep ==
    ASSUME SInv, NEW r \in Requests, Coalesce(r)
    PROVE  Turn(r) /\ Shared(r)
<1>1. /\ chat[r].pc = "coalesce" /\ ~chat[r].stream
      /\ UNCHANGED <<slots, cachedKeys, cooldown, spent, gone, book>>
  BY PlainOrStream DEF Coalesce, Plain
<1>2. cooldown' \in BOOLEAN
  <2>1. cooldown \in BOOLEAN
    BY DEF SInv
  <2> QED BY <1>1, <2>1, Zenon
<1>3. CASE flights[chat[r].key] = Nobody
  <2>1. flights' = [flights EXCEPT ![chat[r].key] = r] /\ To(r, "lead")
    BY <1>3 DEF Coalesce
  <2>2. Turn(r) /\ chat'[r].key = chat[r].key
    BY <1>1, <2>1, ToTurn DEF Places, Untried, Forwarding, Plain
  <2>3. FlightBegins(r)
    BY <1>3, <2>1, <2>2 DEF FlightBegins
  <2> QED BY <1>1, <1>2, <2>2, <2>3 DEF Shared, SInv
<1>4. CASE flights[chat[r].key] # Nobody
  <2> DEFINE d == [[chat[r] EXCEPT !.pc = "wait"] EXCEPT !.leader = flights[chat[r].key]]
  <2>1. chat \in [Requests -> ReqType] /\ chat[r] \in ReqType
    BY OneRequest
  <2>2. chat' = [chat EXCEPT ![r] = d] /\ UNCHANGED flights
    BY <1>4 DEF Coalesce
  <2>3. "wait" \in Places /\ flights[chat[r].key] \in Requests \cup {Nobody}
    BY <2>1 DEF Places, Untried, ReqType, SInv
  <2>5. d \in ReqType /\ d.pc = "wait" /\ Same(chat[r], d)
    BY <2>1, <2>3 DEF ReqType, Same
  <2> HIDE DEF d
  <2>6. chat' \in [Requests -> ReqType] /\ chat'[r] = d /\ \A s \in Requests \ {r} : chat'[s] = chat[s]
    BY <2>1, <2>2, <2>5
  <2>7. Turn(r)
    BY <1>1, <2>5, <2>6, WalkTurn DEF Untried, Forwarding, Plain
  <2>8. FlightsKept(r)
    BY <2>2, <2>5, <2>6 DEF FlightsKept, Leading
  <2> QED BY <1>1, <1>2, <2>7, <2>8 DEF Shared, SInv
<1> QED BY <1>3, <1>4

\* A call that takes a slot of the local engine.
LEMMA CallStep ==
    ASSUME SInv, NEW r \in Requests, NEW p \in {"leading", "calling", "opening"}, ~SlotFull(r), TakeSlot(r), To(r, p),
           \/ p = "leading" /\ chat[r].pc = "lead"
           \/ p = "calling" /\ chat[r].pc = "direct"
           \/ p = "opening" /\ chat[r].pc = "open",
           UNCHANGED <<flights, cachedKeys, cooldown, spent, gone, book>>
    PROVE  Turn(r) /\ Shared(r)
<1>1. Turn(r) /\ chat'[r].pc = p /\ chat'[r].key = chat[r].key
  BY PlainOrStream, ToTurn DEF Places, Untried, Forwarding, Plain
<1>2. cooldown' \in BOOLEAN
  <2>1. cooldown \in BOOLEAN /\ cooldown' = cooldown
    BY DEF SInv
  <2> QED BY <2>1, Zenon
<1>3. slots' = slots \/ (slots' = slots \cup {r} /\ Cardinality(slots) < SlotCap)
  BY DEF TakeSlot, SlotFull, SlotFree
<1>4. FlightsKept(r)
  BY <1>1 DEF FlightsKept, Leading
<1> QED BY <1>1, <1>2, <1>3, <1>4 DEF Shared, SInv

\* The three calls.
LEMMA CallsStep ==
    ASSUME SInv, NEW r \in Requests, LeaderCalls(r) \/ DirectCall(r) \/ StreamOpens(r)
    PROVE  Turn(r) /\ Shared(r)
BY CallStep DEF LeaderCalls, DirectCall, StreamOpens

\* The cache only ever holds keys.
LEMMA CachedKeys ==
    ASSUME SInv, NEW r \in Requests, NEW result, Cached(r, result)
    PROVE  cachedKeys' \subseteq CacheKeys
BY OneRequest DEF Cached, SInv, ReqType

\* The end of a coalesced call.
LEMMA LeaderReturnsStep ==
    ASSUME SInv, NEW r \in Requests, NEW result \in {"content", "empty", "error"}, LeaderReturns(r, result)
    PROVE  Turn(r) /\ Shared(r)
<1>1. /\ chat[r].pc \in Leading /\ ~chat[r].stream /\ To(r, "recheck")
      /\ UNCHANGED <<cooldown, spent, gone>> /\ slots' = slots \ {r}
      /\ flights' = [flights EXCEPT ![chat[r].key] = Nobody]
  BY PlainOrStream DEF LeaderReturns, Leading, Plain
<1>2. cooldown' \in BOOLEAN
  <2>1. cooldown \in BOOLEAN /\ cooldown' = cooldown
    BY <1>1 DEF SInv
  <2> QED BY <2>1, Zenon
<1>3. cachedKeys' \subseteq CacheKeys
  BY CachedKeys DEF LeaderReturns
<1> DEFINE n == IF result = "error" THEN 0 ELSE 1
           e == [book[r] EXCEPT !.served = book[r].served + n]
<1>4. /\ chat \in [Requests -> ReqType] /\ book \in [Requests -> BookType]
      /\ chat[r] \in ReqType /\ book[r] \in BookType /\ Consistent(chat[r], book[r], r \in gone)
  BY OneRequest
<1>5. Write(r, e)
  BY DEF LeaderReturns
<1>6. n \in Nat
  OBVIOUS
<1> HIDE DEF n
<1>7. /\ e \in BookType /\ e.replies = book[r].replies /\ e.charges = book[r].charges
      /\ e.reply = book[r].reply /\ e.outcomes = book[r].outcomes
  <2>1. PICK b \in BookType : b = book[r]
    BY <1>4
  <2>2. PICK k \in Nat : k = n
    BY <1>6
  <2>3. PICK f : f = [b EXCEPT !.served = b.served + k]
    OBVIOUS
  <2>4. f \in BookType /\ f.replies = b.replies /\ f.charges = b.charges /\ f.reply = b.reply /\ f.outcomes = b.outcomes
    BY <2>3 DEF BookType
  <2>5. e = f
    BY <2>1, <2>2, <2>3
  <2> QED BY <2>1, <2>4, <2>5
<1> HIDE DEF e
<1>8. /\ book' \in [Requests -> BookType] /\ book'[r] = e
      /\ \A s \in Requests \ {r} : book'[s] = book[s]
  BY <1>4, <1>5, <1>7, WriteBooks
<1>9. /\ chat' \in [Requests -> ReqType] /\ (\A s \in Requests \ {r} : chat'[s] = chat[s])
      /\ chat'[r] \in ReqType /\ chat'[r].pc = "recheck" /\ Same(chat[r], chat'[r])
  BY <1>1, <1>4, ToMoves DEF Places, Untried
<1>10. /\ Consistent(chat'[r], book[r], r \in gone')
       /\ Spender(chat[r], book[r]) => Spender(chat'[r], book[r])
  BY <1>1, <1>4, <1>9, WalkConsistent DEF Untried, Forwarding, Plain, Leading
<1>11. Consistent(chat'[r], e, r \in gone') /\ (Spender(chat[r], book[r]) => Spender(chat'[r], e))
  BY <1>7, <1>10 DEF Consistent, Spender
<1>12. Turn(r)
  BY <1>8, <1>9, <1>11 DEF Turn
<1>13. FlightEnds(r)
  BY <1>1, <1>9 DEF FlightEnds, Leading
<1> QED BY <1>1, <1>2, <1>3, <1>12, <1>13 DEF Shared, SInv

\* What an answer or a failure leaves of the shared state.
LEMMA EndShared ==
    ASSUME SInv, NEW r \in Requests, chat'[r].pc \notin Leading, UNCHANGED <<flights, gone>>,
           slots' = slots \/ slots' = slots \ {r}, cachedKeys' \subseteq CacheKeys,
           \/ UNCHANGED <<spent, cooldown>>
           \/ /\ spent' = spent + 1 /\ cooldown' = TRUE
              /\ ~Spender(chat[r], book[r]) /\ Spender(chat'[r], book'[r])
    PROVE  Shared(r)
<1>1. cooldown' \in BOOLEAN
  <2>1. cooldown \in BOOLEAN
    BY DEF SInv
  <2>2. CASE cooldown' = cooldown
    BY <2>1, <2>2, Zenon
  <2> QED BY <2>2
<1> QED BY <1>1 DEF Shared, FlightsKept, SInv

\* What may be recorded for a request: nothing was, where it is calling.
LEMMA CallerUnrecorded ==
    ASSUME SInv, NEW r \in Requests
    PROVE  /\ chat[r].pc \in {"calling", "direct", "opening", "streaming"} =>
                chat[r].backend \in Backends /\ book[r].outcomes[chat[r].backend] = 0
           /\ chat[r].pc = "falling" => book[r].outcomes["cloud"] = 0
<1>1. chat[r] \in ReqType /\ book[r] \in BookType /\ Consistent(chat[r], book[r], r \in gone)
  BY OneRequest
<1>2. chat[r].backend \in Backends
  BY <1>1 DEF ReqType
<1> QED BY <1>1, <1>2 DEF Consistent, Untried, Forwarding

\* An answer of a backend k that nothing was recorded of.
LEMMA ServedTurn ==
    ASSUME SInv, NEW r \in Requests, chat[r].pc # "done", Leave(r), NEW k \in Backends, book[r].outcomes[k] = 0,
           Write(r, [Reply(Charge(Outcome(book[r], k)), "ok") EXCEPT !.served = @ + 1])
    PROVE  Turn(r) /\ chat'[r].pc = "done"
<1> DEFINE e == [Reply(Charge(Outcome(book[r], k)), "ok") EXCEPT !.served = @ + 1]
<1>1. Adds(book[r], e, 1, "ok", 1, {k}) /\ Write(r, e) /\ book[r] \in BookType
  BY OneRequest, ServedAdds
<1> HIDE DEF e
<1>2. Answers(book[r], e)
  BY <1>1 DEF Adds, Answers, BookType
<1> QED BY <1>1, <1>2, EndTurn

\* A direct call that succeeds.
LEMMA DirectSucceedsStep ==
    ASSUME SInv, NEW r \in Requests, NEW result, DirectSucceeds(r, result)
    PROVE  Turn(r) /\ Shared(r)
<1>1. chat[r].pc = "calling" /\ slots' = slots \ {r} /\ UNCHANGED <<flights, cooldown, spent, gone>>
  BY DEF DirectSucceeds
<1>2. Turn(r) /\ chat'[r].pc = "done"
  BY <1>1, CallerUnrecorded, ServedTurn DEF DirectSucceeds
<1>3. cachedKeys' \subseteq CacheKeys
  BY CachedKeys DEF DirectSucceeds
<1> QED BY <1>1, <1>2, <1>3, EndShared DEF Leading

\* An overflow that succeeds: the day is charged for a request that had cost it
\* nothing.
LEMMA FallbackSucceedsStep ==
    ASSUME SInv, NEW r \in Requests, NEW result, FallbackSucceeds(r, result)
    PROVE  Turn(r) /\ Shared(r)
<1>1. /\ chat[r].pc = "falling" /\ ~chat[r].stream /\ spent' = spent + 1 /\ cooldown' = TRUE
      /\ UNCHANGED <<slots, flights, gone>>
  BY PlainOrStream DEF FallbackSucceeds, ChargeOverflow, Plain
<1>2. Turn(r) /\ chat'[r].pc = "done"
  BY <1>1, CallerUnrecorded, ServedTurn DEF FallbackSucceeds, Backends
<1>3. cachedKeys' \subseteq CacheKeys
  BY CachedKeys DEF FallbackSucceeds
<1>4. ~Spender(chat[r], book[r]) /\ Spender(chat'[r], book'[r])
  BY <1>1, <1>2 DEF Spender
<1> QED BY <1>1, <1>2, <1>3, <1>4, EndShared DEF Leading

\* The end of a stream.
LEMMA StreamEndsStep ==
    ASSUME SInv, NEW r \in Requests, StreamEnds(r)
    PROVE  Turn(r) /\ Shared(r)
<1>1. chat[r].pc = "streaming" /\ Settled
  BY DEF StreamEnds
<1>2. Turn(r) /\ chat'[r].pc = "done"
  BY <1>1, CallerUnrecorded, ServedTurn DEF StreamEnds
<1> QED BY <1>1, <1>2, SettledShared DEF Leading

\* A client that leaves its stream.
LEMMA StreamAbortsStep ==
    ASSUME SInv, NEW r \in Requests, StreamAborts(r)
    PROVE  Turn(r) /\ Shared(r)
<1>1. Leave(r) /\ gone' = gone \cup {r} /\ UNCHANGED <<slots, flights, cachedKeys, cooldown, spent, book>>
  BY DEF StreamAborts
<1>2. Turn(r) /\ chat'[r].pc = "done"
  BY <1>1, SilentTurn
<1>3. cooldown' \in BOOLEAN
  <2>1. cooldown \in BOOLEAN
    BY DEF SInv
  <2> QED BY <1>1, <2>1, Zenon
<1> QED BY <1>1, <1>2, <1>3 DEF Shared, FlightsKept, Leading, SInv

\* A diversion: what r becomes when its model, and for a stream its place and its
\* backend, change.
LEMMA DivertTurn ==
    ASSUME SInv, NEW r \in Requests, chat[r].backend # "cloud", NEW d \in ReqType, chat' = [chat EXCEPT ![r] = d],
           d.stream = chat[r].stream, d.image = chat[r].image, d.image => d.model = "cloudVLM",
           \/ d.pc = "falling" /\ chat[r].pc \in {"calling", "direct"} /\ d.backend = chat[r].backend
           \/ d.pc = "open" /\ chat[r].pc \in {"open", "opening"} /\ d.backend = "cloud",
           NEW e, NEW B, B \subseteq {chat[r].backend}, Adds(book[r], e, 0, "none", 0, B), Write(r, e)
    PROVE  /\ Turn(r) /\ chat'[r].pc \notin Leading /\ ~Spender(chat[r], book[r])
           /\ d.pc = "open" /\ B # {} => Spender(chat'[r], book'[r])
<1>1. /\ chat \in [Requests -> ReqType] /\ book \in [Requests -> BookType]
      /\ chat[r] \in ReqType /\ book[r] \in BookType /\ Consistent(chat[r], book[r], r \in gone)
  BY OneRequest
<1>2. chat' \in [Requests -> ReqType] /\ chat'[r] = d /\ \A s \in Requests \ {r} : chat'[s] = chat[s]
  BY <1>1
<1>3. /\ book' \in [Requests -> BookType] /\ book'[r] = e
      /\ \A s \in Requests \ {r} : book'[s] = book[s]
  BY <1>1, WriteBooks DEF Adds
<1>4. /\ Consistent(d, e, r \in gone') /\ ~Spender(chat[r], book[r])
      /\ d.pc = "open" /\ B # {} => Spender(d, e)
  BY <1>1, DivertConsistent
<1> QED BY <1>2, <1>3, <1>4 DEF Turn, Leading

\* The record of a diverted stream.
LEMMA AgainRecord ==
    ASSUME SInv, NEW r \in Requests, Again(r)
    PROVE  \E d \in ReqType : /\ chat' = [chat EXCEPT ![r] = d] /\ d.stream = chat[r].stream
                              /\ d.image = chat[r].image /\ d.pc = "open" /\ d.backend = "cloud"
                              /\ d.image => d.model = "cloudVLM"
<1> DEFINE v == Divert(chat[r].image, chat[r])
           d == [[[chat[r] EXCEPT !.pc = "open"] EXCEPT !.backend = v.backend] EXCEPT !.model = v.model]
<1>1. chat[r] \in ReqType /\ chat[r].image \in BOOLEAN /\ chat[r].model \in {"text", "localVLM", "cloudVLM"}
  BY OneRequest DEF ReqType
<1>2. RouteOK(chat[r].image, v) /\ v.backend = "cloud" /\ (chat[r].image => v.model = "cloudVLM")
  BY <1>1, DivertOK
<1>3. chat' = [chat EXCEPT ![r] = d]
  BY DEF Again
<1> HIDE DEF v
<1>4. "open" \in Places /\ v.backend \in Backends /\ v.model \in {"text", "localVLM", "cloudVLM"}
  BY <1>2 DEF Places, Forwarding, RouteOK
<1>5. /\ d \in ReqType /\ d.stream = chat[r].stream /\ d.image = chat[r].image /\ d.pc = "open"
      /\ d.backend = v.backend /\ d.model = v.model
  BY <1>1, <1>4 DEF ReqType
<1> HIDE DEF d
<1> QED BY <1>2, <1>3, <1>5

\* A full local engine sends a stream to the cloud at once.
LEMMA StreamSlotFullStep ==
    ASSUME SInv, NEW r \in Requests, StreamSlotFull(r)
    PROVE  Turn(r) /\ Shared(r)
<1>1. chat[r].pc = "open" /\ chat[r].backend = "local" /\ Settled
  BY DEF StreamSlotFull, SlotFull
<1>2. CASE r \in gone /\ Leave(r) /\ UNCHANGED book
  <2>1. r \in gone'
    BY <1>1, <1>2 DEF Settled
  <2>2. Turn(r) /\ chat'[r].pc = "done"
    BY <1>2, <2>1, SilentTurn
  <2> QED BY <1>1, <2>2, SettledShared DEF Leading
<1>3. CASE Again(r) /\ UNCHANGED book
  <2>1. PICK d \in ReqType : /\ chat' = [chat EXCEPT ![r] = d] /\ d.stream = chat[r].stream
                             /\ d.image = chat[r].image /\ d.pc = "open" /\ d.backend = "cloud"
                             /\ d.image => d.model = "cloudVLM"
    BY <1>3, AgainRecord
  <2>2. book[r] \in BookType /\ book \in [Requests -> BookType]
    BY OneRequest
  <2>3. Adds(book[r], book[r], 0, "none", 0, {})
    <3>1. /\ book[r].replies \in Nat /\ book[r].charges \in Nat
          /\ book[r].outcomes \in [Backends -> Nat]
      BY <2>2 DEF BookType
    <3> QED BY <2>2, <3>1 DEF Adds
  <2>4. Write(r, book[r])
    BY <1>3, <2>2 DEF Write
  <2> DEFINE B == {}
  <2>5. B \subseteq {chat[r].backend} /\ Adds(book[r], book[r], 0, "none", 0, B)
    BY <2>3
  <2> HIDE DEF B
  <2>6. Turn(r) /\ chat'[r].pc \notin Leading
    BY <1>1, <2>1, <2>4, <2>5, DivertTurn
  <2> QED BY <1>1, <2>6, SettledShared
<1>4. CASE Quit(r, "error")
  BY <1>1, <1>4, QuitStep
<1> QED BY <1>2, <1>3, <1>4 DEF StreamSlotFull

\* A stream that is not established: silent, diverted and charged to the day, or
\* answered.
LEMMA StreamRefusedStep ==
    ASSUME SInv, NEW r \in Requests, StreamRefused(r)
    PROVE  Turn(r) /\ Shared(r)
<1>1. /\ chat[r].pc = "opening" /\ slots' = slots \ {r} /\ UNCHANGED <<flights, cachedKeys, gone>>
      /\ cachedKeys' \subseteq CacheKeys
  BY DEF StreamRefused, SInv
<1>2. /\ book[r] \in BookType /\ book \in [Requests -> BookType]
      /\ chat[r].backend \in Backends /\ book[r].outcomes[chat[r].backend] = 0
  BY <1>1, OneRequest, CallerUnrecorded
<1>3. CASE r \in gone /\ Leave(r) /\ UNCHANGED <<book, spent, cooldown>>
  <2>1. Turn(r) /\ chat'[r].pc = "done"
    BY <1>1, <1>3, SilentTurn
  <2> QED BY <1>1, <1>3, <2>1, EndShared DEF Leading
<1>4. CASE /\ chat[r].backend # "cloud" /\ Again(r) /\ Write(r, Outcome(book[r], chat[r].backend))
           /\ ChargeOverflow /\ cooldown' = TRUE
  <2>1. PICK d \in ReqType : /\ chat' = [chat EXCEPT ![r] = d] /\ d.stream = chat[r].stream
                             /\ d.image = chat[r].image /\ d.pc = "open" /\ d.backend = "cloud"
                             /\ d.image => d.model = "cloudVLM"
    BY <1>4, AgainRecord
  <2> DEFINE e == Outcome(book[r], chat[r].backend)
             B == {chat[r].backend}
  <2>2. Adds(book[r], e, 0, "none", 0, B) /\ Write(r, e) /\ B \subseteq {chat[r].backend} /\ B # {}
    BY <1>2, <1>4, OutcomeAdds
  <2> HIDE DEF e, B
  <2>3. /\ Turn(r) /\ chat'[r].pc \notin Leading /\ ~Spender(chat[r], book[r])
        /\ Spender(chat'[r], book'[r])
    BY <1>1, <1>4, <2>1, <2>2, DivertTurn
  <2> QED BY <1>1, <1>4, <2>3, EndShared DEF ChargeOverflow
<1>5. CASE /\ Leave(r) /\ Write(r, Reply(Outcome(book[r], chat[r].backend), "error"))
           /\ UNCHANGED <<spent, cooldown>>
  <2> DEFINE e == Reply(Outcome(book[r], chat[r].backend), "error")
             B == {chat[r].backend}
  <2>1. Adds(book[r], e, 1, "error", 0, B) /\ Write(r, e)
    BY <1>2, <1>5, FailedAdds
  <2> HIDE DEF e
  <2>2. Answers(book[r], e)
    BY <1>2, <2>1 DEF Adds, Answers, BookType
  <2>3. Turn(r) /\ chat'[r].pc = "done"
    BY <1>1, <1>5, <2>1, <2>2, EndTurn
  <2> QED BY <1>1, <1>5, <2>3, EndShared DEF Leading
<1> QED BY <1>3, <1>4, <1>5 DEF StreamRefused, GoneIsSilent, MayOverflow

\* A direct call that fails, or could not be made: to the cloud, or an answer.
LEMMA DirectFailsStep ==
    ASSUME SInv, NEW r \in Requests, DirectFails(r)
    PROVE  Turn(r) /\ Shared(r)
<1>1. /\ chat[r].pc \in {"calling", "direct"} /\ slots' = slots \ {r}
      /\ UNCHANGED <<flights, cachedKeys, cooldown, spent, gone>> /\ cachedKeys' \subseteq CacheKeys
  BY DEF DirectFails, SInv
<1>2. /\ book[r] \in BookType /\ book \in [Requests -> BookType] /\ chat[r] \in ReqType
      /\ chat[r].backend \in Backends /\ book[r].outcomes[chat[r].backend] = 0
  BY <1>1, OneRequest, CallerUnrecorded
<1> DEFINE B == IF chat[r].pc = "direct" THEN {} ELSE {chat[r].backend}
           e == FailureOutcome(r)
<1>3. B \subseteq {chat[r].backend} /\ \A j \in B : j \in Backends /\ book[r].outcomes[j] = 0
  BY <1>2
<1>4. /\ book[r].replies \in Nat /\ book[r].charges \in Nat
      /\ book[r].outcomes \in [Backends -> Nat]
  BY <1>2 DEF BookType
<1>5. Adds(book[r], e, 0, "none", 0, B)
  <2>1. CASE chat[r].pc = "direct"
    <3>1. Adds(book[r], book[r], 0, "none", 0, {})
      BY <1>2, <1>4 DEF Adds
    <3> QED BY <2>1, <3>1 DEF FailureOutcome
  <2>2. CASE chat[r].pc # "direct"
    <3>1. Adds(book[r], Outcome(book[r], chat[r].backend), 0, "none", 0, {chat[r].backend})
      BY <1>2, OutcomeAdds
    <3> QED BY <2>2, <3>1 DEF FailureOutcome
  <2> QED BY <2>1, <2>2
<1> HIDE DEF e, B
<1>6. CASE /\ chat' = [chat EXCEPT ![r].pc = "falling", ![r].model = Divert(chat[r].image, chat[r]).model]
           /\ Write(r, e) /\ chat[r].backend # "cloud"
  <2> DEFINE v == Divert(chat[r].image, chat[r])
             d == [[chat[r] EXCEPT !.pc = "falling"] EXCEPT !.model = v.model]
  <2>1. chat[r].image \in BOOLEAN /\ chat[r].model \in {"text", "localVLM", "cloudVLM"}
    BY <1>2 DEF ReqType
  <2>2. RouteOK(chat[r].image, v) /\ (chat[r].image => v.model = "cloudVLM")
    BY <2>1, DivertOK
  <2>3. chat' = [chat EXCEPT ![r] = d]
    BY <1>6
  <2> HIDE DEF v
  <2>4. "falling" \in Places /\ v.model \in {"text", "localVLM", "cloudVLM"}
    BY <2>2 DEF Places, RouteOK
  <2>5. /\ d \in ReqType /\ d.stream = chat[r].stream /\ d.image = chat[r].image /\ d.pc = "falling"
        /\ d.backend = chat[r].backend /\ d.model = v.model
    BY <1>2, <2>4 DEF ReqType
  <2> HIDE DEF d
  <2>6. Turn(r) /\ chat'[r].pc \notin Leading
    BY <1>1, <1>3, <1>5, <1>6, <2>2, <2>3, <2>5, DivertTurn
  <2> QED BY <1>1, <2>6, EndShared
<1>7. CASE Leave(r) /\ Write(r, Reply(e, "error"))
  <2> DEFINE z == Reply(e, "error")
  <2>1. Adds(e, z, 1, "error", 0, {})
    BY <1>5, ReplyAdds DEF Adds
  <2> HIDE DEF z
  <2>2. Adds(book[r], z, 1, "error", 0, B)
    BY <1>4, <1>5, <2>1 DEF Adds
  <2>3. Answers(book[r], z) /\ Write(r, z)
    BY <1>2, <1>3, <1>7, <2>2 DEF Adds, Answers, BookType, z
  <2>4. Turn(r) /\ chat'[r].pc = "done"
    BY <1>1, <1>7, <2>3, EndTurn
  <2> QED BY <1>1, <2>4, EndShared DEF Leading
<1> QED BY <1>6, <1>7 DEF DirectFails, MayOverflow, e

\* The steps around a handler: its context ends, or the forwarder of an ended
\* stream returns the slot.
LEMMA AroundStep ==
    ASSUME SInv, NEW r \in Requests, ContextEnds(r) \/ ForwarderReleases(r)
    PROVE  Turn(r) /\ Shared(r)
<1>1. /\ UNCHANGED <<chat, flights, cachedKeys, cooldown, spent, book>>
      /\ slots' = slots \/ slots' = slots \ {r}
      /\ gone' = gone \/ gone' = gone \cup {r}
  BY DEF ContextEnds, ForwarderReleases
<1>2. cooldown' \in BOOLEAN
  <2>1. cooldown \in BOOLEAN
    BY DEF SInv
  <2> QED BY <1>1, <2>1, Zenon
<1>3. /\ chat \in [Requests -> ReqType] /\ book \in [Requests -> BookType]
      /\ Consistent(chat[r], book[r], r \in gone)
  BY OneRequest
<1>4. Consistent(chat[r], book[r], r \in gone')
  BY <1>1, <1>3 DEF Consistent
<1>5. Turn(r)
  BY <1>1, <1>3, <1>4 DEF Turn
<1> QED BY <1>1, <1>2, <1>5 DEF Shared, FlightsKept, SInv

----------------------------------------------------------------------------
(* The invariant. *)

\* A slot is taken below the cap only.
LEMMA SlotsKept ==
    ASSUME SInv, NEW r \in Requests, Shared(r)
    PROVE  slots' \subseteq Requests /\ Cardinality(slots') <= SlotCap
<1>1. slots \subseteq Requests /\ Cardinality(slots) <= SlotCap /\ IsFiniteSet(slots) /\ SlotCap \in Nat
  BY ChatAssumption, FS_Subset DEF SInv
<1>2. Cardinality(slots) \in Nat
  BY <1>1, FS_CardinalityType
<1>3. CASE slots' = slots
  BY <1>1, <1>3
<1>4. CASE slots' = slots \ {r}
  <2>1. Cardinality(slots \ {r}) <= Cardinality(slots) /\ Cardinality(slots \ {r}) \in Nat
    BY <1>1, <1>2, FS_Subset, FS_CardinalityType
  <2> QED BY <1>1, <1>2, <1>4, <2>1
<1>5. CASE slots' = slots \cup {r} /\ Cardinality(slots) < SlotCap
  <2>1. Cardinality(slots \cup {r}) = Cardinality(slots) \/ Cardinality(slots \cup {r}) = Cardinality(slots) + 1
    BY <1>1, FS_AddElement
  <2> QED BY <1>1, <1>2, <1>5, <2>1
<1> QED BY <1>3, <1>4, <1>5 DEF Shared

\* The leader of a key stays the one that its entry names.
LEMMA FlightsNamed ==
    ASSUME SInv, NEW r \in Requests, Turn(r), Shared(r)
    PROVE  /\ flights' \in [CacheKeys -> Requests \cup {Nobody}]
           /\ \A s \in Requests : chat'[s].pc \in Leading => flights'[chat'[s].key] = s
<1>1. /\ flights \in [CacheKeys -> Requests \cup {Nobody}] /\ Nobody \notin Requests
      /\ \A s \in Requests : chat[s].pc \in Leading => flights[chat[s].key] = s
      /\ \A s \in Requests : chat[s].key \in CacheKeys /\ chat'[s].key \in CacheKeys
      /\ \A s \in Requests \ {r} : chat'[s] = chat[s]
  BY ChatAssumption DEF SInv, Turn, ReqType
<1>2. CASE FlightsKept(r)
  BY <1>1, <1>2 DEF FlightsKept
<1>3. CASE FlightBegins(r)
  BY <1>1, <1>3 DEF FlightBegins
<1>4. CASE FlightEnds(r)
  BY <1>1, <1>4 DEF FlightEnds
<1> QED BY <1>2, <1>3, <1>4 DEF Shared

\* The day is charged once per spender.
LEMMA SpentBounded ==
    ASSUME SInv, NEW r \in Requests, Turn(r), Shared(r)
    PROVE  spent' \in Nat /\ spent' <= Cardinality(Spenders')
<1>1. /\ IsFiniteSet(Requests) /\ Spenders \subseteq Requests /\ Spenders' \subseteq Requests
      /\ spent \in Nat /\ spent <= Cardinality(Spenders)
  BY ChatAssumption DEF SInv, Spenders
<1>2. IsFiniteSet(Spenders) /\ IsFiniteSet(Spenders')
  BY <1>1, FS_Subset
<1>3. Cardinality(Spenders) \in Nat /\ Cardinality(Spenders') \in Nat
  BY <1>2, FS_CardinalityType
<1>4. Spenders \subseteq Spenders'
  BY DEF Turn, Spenders
<1>5. CASE spent' = spent
  <2>1. Cardinality(Spenders) <= Cardinality(Spenders')
    BY <1>2, <1>4, FS_Subset
  <2> QED BY <1>1, <1>3, <1>5, <2>1
<1>6. CASE spent' = spent + 1 /\ ~Spender(chat[r], book[r]) /\ Spender(chat'[r], book'[r])
  <2>1. r \notin Spenders /\ r \in Spenders'
    BY <1>6 DEF Spenders
  <2>2. Cardinality(Spenders \cup {r}) = Cardinality(Spenders) + 1
    BY <1>2, <2>1, FS_AddElement
  <2>3. Cardinality(Spenders \cup {r}) <= Cardinality(Spenders')
    BY <1>2, <1>4, <2>1, FS_Subset
  <2> QED BY <1>1, <1>3, <1>6, <2>2, <2>3
<1> QED BY <1>5, <1>6 DEF Shared

\* A step of a request's handler keeps the invariant.
LEMMA TurnKeeps ==
    ASSUME SInv, NEW r \in Requests, Turn(r), Shared(r)
    PROVE  SInv'
<1>1. ASSUME NEW s \in Requests
      PROVE  Consistent(chat'[s], book'[s], s \in gone')
  <2>1. CASE s = r
    BY <2>1 DEF Turn
  <2>2. CASE s # r
    <3>1. Consistent(chat[s], book[s], s \in gone) /\ chat'[s] = chat[s] /\ book'[s] = book[s]
      BY <2>2 DEF Turn, SInv
    <3>2. s \in gone' <=> s \in gone
      BY <2>2 DEF Shared
    <3> QED BY <3>1, <3>2 DEF Consistent
  <2> QED BY <2>1, <2>2
<1>2. /\ chat' \in [Requests -> ReqType] /\ book' \in [Requests -> BookType]
      /\ gone' \subseteq Requests /\ cachedKeys' \subseteq CacheKeys /\ cooldown' \in BOOLEAN
  BY DEF Turn, Shared
<1>3. slots' \subseteq Requests /\ Cardinality(slots') <= SlotCap
  BY SlotsKept
<1>4. /\ flights' \in [CacheKeys -> Requests \cup {Nobody}]
      /\ \A s \in Requests : chat'[s].pc \in Leading => flights'[chat'[s].key] = s
  BY FlightsNamed
<1>5. spent' \in Nat /\ spent' <= Cardinality(Spenders')
  BY SpentBounded
<1> QED BY <1>1, <1>2, <1>3, <1>4, <1>5 DEF SInv

\* The first state.
LEMMA ChatInitSound == ChatInit => SInv
<1> SUFFICES ASSUME ChatInit PROVE SInv
  OBVIOUS
<1> DEFINE x == CHOOSE k \in CacheKeys : TRUE
<1>1. x \in CacheKeys
  BY ChatAssumption
<1>2. FreshReq = [pc |-> "new", ep |-> "chat", stream |-> FALSE, image |-> FALSE, key |-> x,
                  backend |-> "cloud", model |-> "text", held |-> {}, leader |-> Nobody]
  BY DEF FreshReq
<1> HIDE DEF x
<1>3. "new" \in Places /\ "cloud" \in Backends
  BY DEF Places, Untried, Backends
<1>4. FreshReq \in ReqType /\ FreshReq.pc = "new" /\ FreshReq.image = FALSE
  BY <1>1, <1>2, <1>3 DEF ReqType
<1>5. /\ NoBook \in BookType /\ NoBook.replies = 0 /\ NoBook.charges = 0
      /\ \A k \in Backends : NoBook.outcomes[k] = 0
  BY DEF NoBook, BookType
<1>6. ASSUME NEW r \in Requests
      PROVE  Consistent(chat[r], book[r], r \in gone)
  <2>1. chat[r] = FreshReq /\ book[r] = NoBook
    BY DEF ChatInit
  <2> QED BY <1>4, <1>5, <2>1 DEF Consistent, Untried, Forwarding, Plain
<1>7. /\ chat \in [Requests -> ReqType] /\ book \in [Requests -> BookType]
      /\ \A r \in Requests : chat[r].pc = "new"
  BY <1>4, <1>5 DEF ChatInit
<1>8. Cardinality(slots) = 0 /\ SlotCap \in Nat
  BY FS_EmptySet, ChatAssumption DEF ChatInit
<1>9. Cardinality(Spenders) \in Nat
  BY ChatAssumption, FS_Subset, FS_CardinalityType DEF Spenders
<1>10. /\ gone \subseteq Requests /\ cachedKeys \subseteq CacheKeys /\ cooldown \in BOOLEAN
       /\ slots \subseteq Requests /\ flights \in [CacheKeys -> Requests \cup {Nobody}] /\ spent = 0
  BY DEF ChatInit
<1>11. spent \in Nat /\ spent <= Cardinality(Spenders) /\ Cardinality(slots) <= SlotCap
  BY <1>8, <1>9, <1>10
<1> QED BY <1>6, <1>7, <1>10, <1>11 DEF SInv, Leading

\* Every step of the handlers.
LEMMA RequestSteps ==
    ASSUME SInv, NEW r \in Requests,
           \/ Refused(r) \/ Proceed(r) \/ ContextEnds(r) \/ ForwarderReleases(r)
           \/ \E s \in BOOLEAN, k \in CacheKeys : ArriveCompletions(r, s, k) \/ \E i \in BOOLEAN : Arrive(r, s, i, k)
    PROVE  Turn(r) /\ Shared(r)
<1>1. CASE Refused(r) \/ ContextEnds(r) \/ ForwarderReleases(r)
  BY <1>1, RefusedStep, AroundStep
<1>2. CASE \E s \in BOOLEAN, k \in CacheKeys : ArriveCompletions(r, s, k) \/ \E i \in BOOLEAN : Arrive(r, s, i, k)
  BY <1>2, ArriveStep, CompletionsStep
<1>3. CASE Proceed(r)
  <2>1. CASE ResolveProvider(r) \/ AcquireLocalSlot(r) \/ AcquireStreamSlot(r) \/ CacheLookup(r)
    BY <2>1, ResolveStep, AcquireLocalStep, AcquireStreamStep, CacheLookupStep
  <2>2. CASE Coalesce(r) \/ Wake(r) \/ CacheRecheck(r)
    BY <2>2, CoalesceStep, WakeStep, CacheRecheckStep
  <2>3. CASE LeaderCalls(r) \/ DirectCall(r) \/ StreamOpens(r)
    BY <2>3, CallsStep
  <2>4. CASE StreamSlotFull(r) \/ StreamEstablished(r) \/ StreamEnds(r) \/ StreamAborts(r)
    BY <2>4, StreamSlotFullStep, EstablishedStep, StreamEndsStep, StreamAbortsStep
  <2>5. CASE StreamRefused(r) \/ DirectFails(r) \/ FallbackFails(r)
    BY <2>5, StreamRefusedStep, DirectFailsStep, FallbackFailsStep
  <2>6. CASE \E result \in {"content", "empty", "error"} : LeaderReturns(r, result)
    BY <2>6, LeaderReturnsStep
  <2>7. CASE \E result \in {"content", "empty"} : DirectSucceeds(r, result) \/ FallbackSucceeds(r, result)
    BY <2>7, DirectSucceedsStep, FallbackSucceedsStep
  <2> QED BY <1>3, <2>1, <2>2, <2>3, <2>4, <2>5, <2>6, <2>7 DEF Proceed
<1> QED BY <1>1, <1>2, <1>3

\* A step that changes no record of a request, flight, slot or charge.
LEMMA QuietStep ==
    ASSUME SInv, UNCHANGED <<chat, slots, flights, cachedKeys, spent, gone, book>>, cooldown' \in BOOLEAN
    PROVE  SInv'
<1>1. Spenders' = Spenders
  BY DEF Spenders
<1> QED BY <1>1 DEF SInv

\* SInv is inductive.
THEOREM ChatInvariant == ChatSpec => []SInv
<1>1. ASSUME SInv, [ChatNext]_chatVars
      PROVE  SInv'
  <2>1. CASE \E r \in Requests : Turn(r) /\ Shared(r)
    BY <1>1, <2>1, TurnKeeps
  <2>2. CASE CooldownEnds
    BY <1>1, <2>2, QuietStep DEF CooldownEnds
  <2>3. CASE UNCHANGED chatVars
    <3>1. cooldown \in BOOLEAN /\ cooldown' = cooldown
      BY <1>1, <2>3 DEF SInv, chatVars
    <3>2. cooldown' \in BOOLEAN
      BY <3>1, Zenon
    <3> QED BY <1>1, <2>3, <3>2, QuietStep DEF chatVars
  <2>4. ASSUME ChatNext
        PROVE  CooldownEnds \/ \E r \in Requests : Turn(r) /\ Shared(r)
    <3>1. CASE CooldownEnds
      BY <3>1
    <3>2. ASSUME ~CooldownEnds
          PROVE  \E r \in Requests : Turn(r) /\ Shared(r)
      <4>1. PICK r \in Requests :
              \/ Refused(r) \/ Proceed(r) \/ ContextEnds(r) \/ ForwarderReleases(r)
              \/ \E s \in BOOLEAN, k \in CacheKeys : ArriveCompletions(r, s, k) \/ \E i \in BOOLEAN : Arrive(r, s, i, k)
        BY <2>4, <3>2 DEF ChatNext
      <4>2. Turn(r) /\ Shared(r)
        BY <1>1, <4>1, RequestSteps
      <4> QED BY <4>2
    <3> QED BY <3>1, <3>2
  <2> QED BY <1>1, <2>1, <2>2, <2>3, <2>4
<1> QED BY <1>1, ChatInitSound, PTL DEF ChatSpec

\* SInv gives what the accounts promise.
LEMMA SInvSound == SInv => ChatSound
<1> SUFFICES ASSUME SInv PROVE ChatSound
  OBVIOUS
<1>1. \A r \in Requests : /\ chat[r] \in ReqType /\ book[r] \in BookType
                          /\ Consistent(chat[r], book[r], r \in gone)
  BY OneRequest
<1>2. ChatTypeOK
  <2>1. spent \in 0..Cardinality(Requests)
    <3>1. Spenders \subseteq Requests /\ IsFiniteSet(Requests)
      BY ChatAssumption DEF Spenders
    <3>2. /\ Cardinality(Spenders) <= Cardinality(Requests)
          /\ Cardinality(Spenders) \in Nat /\ Cardinality(Requests) \in Nat
      BY <3>1, FS_Subset, FS_CardinalityType
    <3> QED BY <3>2 DEF SInv
  <2>2. \A r \in Requests : chat[r].held \subseteq {"queue", "task", "stream"} /\ book[r].reply \in {"none", "ok", "error"}
    BY <1>1 DEF ReqType, BookType
  <2> QED BY <2>1, <2>2 DEF ChatTypeOK, SInv
<1>3. OneReply /\ PaidOnlyForAnswers /\ OneOutcomePerBackend
  BY <1>1 DEF OneReply, PaidOnlyForAnswers, OneOutcomePerBackend, Consistent
<1>4. ImageKeepsVisionModel
  BY <1>1 DEF ImageKeepsVisionModel, Consistent
<1>5. OneFlightPerKey
  <2>1. SUFFICES ASSUME NEW k \in CacheKeys
                 PROVE  Cardinality({r \in Requests : chat[r].pc \in {"lead", "leading"} /\ chat[r].key = k}) <= 1
    BY DEF OneFlightPerKey
  <2> DEFINE L == {r \in Requests : chat[r].pc \in {"lead", "leading"} /\ chat[r].key = k}
  <2>2. \A r \in L : r = flights[k]
    BY DEF SInv, Leading
  <2>3. L \subseteq {flights[k]}
    BY <2>2
  <2>4. Cardinality({flights[k]}) = 1 /\ IsFiniteSet({flights[k]})
    BY FS_Singleton
  <2>5. Cardinality(L) <= Cardinality({flights[k]})
    BY <2>3, <2>4, FS_Subset
  <2> QED BY <2>4, <2>5
<1> QED BY <1>2, <1>3, <1>4, <1>5 DEF ChatSound

\* Whatever the cap, the ceiling and the number of requests: one reply, at most
\* one charge and only for an answer, at most one outcome per backend, the vision
\* model for an image in the cloud, one coalesced call per key, and no more local
\* calls than slots.
THEOREM ChatIsSound == ChatSpec => []ChatSound
BY ChatInvariant, SInvSound, PTL

\* A client that leaves in the middle of a stream leaves no mark on a breaker and
\* is not charged, whatever its handler and the others do at the same time.
THEOREM AbortsLeaveNoMark == ChatSpec => AbortLeavesNoMark
<1> DEFINE Unmarked == \A r \in Requests : chat[r].stream /\ r \in gone' /\ chat[r].pc \in {"opening", "streaming"}
                         => book'[r].outcomes = book[r].outcomes /\ book'[r].charges = book[r].charges
<1>1. ASSUME SInv, ChatNext
      PROVE  Unmarked
  <2> SUFFICES ASSUME NEW r \in Requests, r \in gone', chat[r].pc \in {"opening", "streaming"}
               PROVE  book'[r] = book[r]
    OBVIOUS
  <2>1. CASE CooldownEnds
    BY <2>1 DEF CooldownEnds
  <2>2. CASE ~CooldownEnds
    <3>1. PICK s \in Requests :
            \/ Refused(s) \/ Proceed(s) \/ ContextEnds(s) \/ ForwarderReleases(s)
            \/ \E t \in BOOLEAN, k \in CacheKeys : ArriveCompletions(s, t, k) \/ \E i \in BOOLEAN : Arrive(s, t, i, k)
      BY <1>1, <2>2 DEF ChatNext
    <3>2. CASE s # r
      <4>1. Turn(s)
        BY <1>1, <3>1, RequestSteps
      <4> QED BY <3>2, <4>1 DEF Turn
    <3>3. CASE s = r
      <4>1. \/ ContextEnds(r) \/ ForwarderReleases(r) \/ StreamEstablished(r) \/ StreamEnds(r)
            \/ StreamAborts(r) \/ StreamRefused(r)
        BY <3>1, <3>3 DEF Proceed, Refused, Arrive, ArriveCompletions, ResolveProvider, AcquireLocalSlot,
           AcquireStreamSlot, CacheLookup, Coalesce, Wake, LeaderCalls, CacheRecheck, DirectCall, StreamOpens,
           StreamSlotFull, DirectFails, FallbackFails, LeaderReturns, DirectSucceeds, FallbackSucceeds
      <4>2. CASE ContextEnds(r) \/ ForwarderReleases(r) \/ StreamEstablished(r) \/ StreamAborts(r)
        BY <4>2 DEF ContextEnds, ForwarderReleases, StreamEstablished, StreamAborts
      <4>3. CASE StreamEnds(r)
        BY <4>3 DEF StreamEnds, Settled
      <4>4. CASE StreamRefused(r)
        BY <4>4 DEF StreamRefused, GoneIsSilent
      <4> QED BY <4>1, <4>2, <4>3, <4>4
    <3> QED BY <3>2, <3>3
  <2> QED BY <2>1, <2>2
<1>2. SInv /\ [ChatNext]_chatVars => [Unmarked]_chatVars
  BY <1>1
<1> HIDE DEF Unmarked
<1>3. ChatSpec => [][Unmarked]_chatVars
  BY <1>2, ChatInvariant, PTL DEF ChatSpec
<1> QED BY <1>3 DEF AbortLeavesNoMark, Unmarked

----------------------------------------------------------------------------
(* The event streams: pieces of a message. *)

Types == {"message_start", "block_start", "delta", "block_stop", "message_delta", "message_stop", "ping", "error"}
Frames == [type : Types, idx : Nat]

\* What the protocol knows of a message in progress.
Progress == [started : BOOLEAN, open : SUBSET BlockIds, used : SUBSET BlockIds, ended : BOOLEAN]
Seen(v) == [started |-> v.started, open |-> v.open, used |-> v.used, ended |-> v.ended]

\* Frame e may follow in progress v, on path p: the bridge, besides, ends no
\* message that has no block.
Allowed(p, v, e) ==
    /\ e \in Frames
    /\ \/ e.type \in {"ping", "error"} /\ e.idx = 0
       \/ e.type = "message_start" /\ ~v.ended /\ ~v.started /\ e.idx = 0
       \/ e.type = "block_start" /\ ~v.ended /\ e.idx \in BlockIds /\ e.idx \notin v.used
       \/ e.type \in {"delta", "block_stop"} /\ ~v.ended /\ e.idx \in v.open
       \/ e.type = "message_delta" /\ ~v.ended /\ e.idx = 0
       \/ /\ e.type = "message_stop" /\ ~v.ended /\ v.open = {} /\ e.idx = 0
          /\ p = "bridge" => v.used # {}

After(v, e) ==
    [started |-> v.started \/ e.type = "message_start",
     open    |-> IF e.type = "block_start" THEN v.open \cup {e.idx}
                 ELSE IF e.type = "block_stop" THEN v.open \ {e.idx} ELSE v.open,
     used    |-> IF e.type = "block_start" THEN v.used \cup {e.idx} ELSE v.used,
     ended   |-> v.ended \/ e.type = "message_stop"]

\* The frames of q, one after the other, lead from progress v to progress z; w
\* goes through the stages.
Stages(p, v, q, z, w) ==
    /\ w \in [0..Len(q) -> Progress] /\ w[0] = v /\ w[Len(q)] = z
    /\ \A n \in 1..Len(q) : Allowed(p, w[n - 1], q[n]) /\ w[n] = After(w[n - 1], q[n])
Leads(p, v, q, z) == q \in Seq(Frames) /\ \E w : Stages(p, v, q, z, w)

\* A frame keeps progress typed.
LEMMA AfterType ==
    ASSUME NEW p, NEW v \in Progress, NEW e, Allowed(p, v, e)
    PROVE  After(v, e) \in Progress
<1>1. (v.started \/ e.type = "message_start") \in BOOLEAN /\ (v.ended \/ e.type = "message_stop") \in BOOLEAN
  OBVIOUS
<1>2. v.open \subseteq BlockIds /\ v.used \subseteq BlockIds
  BY DEF Progress
<1>3. e.type = "block_start" => e.idx \in BlockIds
  BY DEF Allowed
<1>4. /\ (IF e.type = "block_start" THEN v.open \cup {e.idx}
          ELSE IF e.type = "block_stop" THEN v.open \ {e.idx} ELSE v.open) \in SUBSET BlockIds
      /\ (IF e.type = "block_start" THEN v.used \cup {e.idx} ELSE v.used) \in SUBSET BlockIds
  BY <1>2, <1>3
<1> QED BY <1>1, <1>4 DEF After, Progress

\* Nothing leads nowhere.
LEMMA NothingLeads ==
    ASSUME NEW p, NEW v \in Progress
    PROVE  Leads(p, v, <<>>, v)
<1> DEFINE w == [n \in 0..0 |-> v]
<1>1. Stages(p, v, <<>>, v, w)
  BY DEF Stages
<1>2. <<>> \in Seq(Frames)
  BY EmptySeq
<1> QED BY <1>1, <1>2 DEF Leads

\* And conversely.
LEMMA NothingMore ==
    ASSUME NEW p, NEW v, NEW z, Leads(p, v, <<>>, z)
    PROVE  z = v /\ v \in Progress
BY DEF Leads, Stages

\* One frame more.
LEMMA OneMore ==
    ASSUME NEW p, NEW v, NEW q, NEW z, Leads(p, v, q, z), NEW e, Allowed(p, z, e)
    PROVE  Leads(p, v, Append(q, e), After(z, e)) /\ After(z, e) \in Progress
<1>1. PICK w : Stages(p, v, q, z, w)
  BY DEF Leads
<1>2. q \in Seq(Frames) /\ e \in Frames /\ Len(q) \in Nat
  BY LenProperties DEF Leads, Allowed
<1>3. z \in Progress
  BY <1>1, <1>2 DEF Stages
<1>4. After(z, e) \in Progress
  BY <1>3, AfterType
<1> DEFINE r == Append(q, e)
           x == [n \in 0..Len(q) + 1 |-> IF n = Len(q) + 1 THEN After(z, e) ELSE w[n]]
<1>5. /\ r \in Seq(Frames) /\ Len(r) = Len(q) + 1
      /\ (\A i \in 1..Len(q) : r[i] = q[i]) /\ r[Len(q) + 1] = e
  BY <1>2, AppendProperties
<1> HIDE DEF r
<1>6. x \in [0..Len(r) -> Progress] /\ x[0] = v /\ x[Len(r)] = After(z, e)
  BY <1>1, <1>2, <1>4, <1>5 DEF Stages
<1>7. ASSUME NEW n \in 1..Len(r)
      PROVE  Allowed(p, x[n - 1], r[n]) /\ x[n] = After(x[n - 1], r[n])
  <2>1. CASE n = Len(q) + 1
    <3>1. x[n - 1] = z /\ r[n] = e /\ x[n] = After(z, e)
      BY <1>1, <1>2, <1>5, <2>1 DEF Stages
    <3> QED BY <3>1
  <2>2. CASE n # Len(q) + 1
    <3>1. n \in 1..Len(q) /\ n - 1 \in 0..Len(q) /\ n - 1 # Len(q) + 1
      BY <1>2, <1>5, <2>2
    <3>2. x[n - 1] = w[n - 1] /\ r[n] = q[n] /\ x[n] = w[n]
      BY <1>2, <1>5, <2>2, <3>1
    <3> QED BY <1>1, <3>1, <3>2 DEF Stages
  <2> QED BY <2>1, <2>2
<1> HIDE DEF x
<1>8. Stages(p, v, r, After(z, e), x)
  BY <1>6, <1>7 DEF Stages
<1> QED BY <1>4, <1>5, <1>8 DEF Leads, r

\* The first frame may be written, and the rest leads on from there.
LEMMA OneWritten ==
    ASSUME NEW p, NEW v, NEW q, q # <<>>, NEW z, Leads(p, v, q, z)
    PROVE  /\ v \in Progress /\ Allowed(p, v, Head(q))
           /\ Leads(p, After(v, Head(q)), Tail(q), z)
<1>1. PICK w : Stages(p, v, q, z, w)
  BY DEF Leads
<1>2. q \in Seq(Frames) /\ Len(q) \in Nat /\ Len(q) # 0
  BY EmptySeq, LenProperties DEF Leads
<1> DEFINE t == Tail(q)
           x == [n \in 0..Len(q) - 1 |-> w[n + 1]]
<1>3. /\ t \in Seq(Frames) /\ Len(t) = Len(q) - 1 /\ Head(q) = q[1]
      /\ \A i \in 1..Len(t) : t[i] = q[i + 1]
  BY <1>2, HeadTailProperties
<1> HIDE DEF t
<1>4. 1 \in 1..Len(q) /\ 0 \in 0..Len(q) /\ 1 - 1 = 0
  BY <1>2
<1>5. v \in Progress /\ Allowed(p, v, q[1]) /\ w[1] = After(v, q[1])
  BY <1>1, <1>4 DEF Stages
<1>6. x \in [0..Len(t) -> Progress] /\ x[0] = After(v, q[1]) /\ x[Len(t)] = z
  BY <1>1, <1>2, <1>3, <1>5 DEF Stages
<1>7. ASSUME NEW n \in 1..Len(t)
      PROVE  Allowed(p, x[n - 1], t[n]) /\ x[n] = After(x[n - 1], t[n])
  <2>1. n + 1 \in 1..Len(q) /\ n + 1 - 1 = n /\ n - 1 \in 0..Len(q) - 1 /\ n \in 0..Len(q) - 1
    BY <1>2, <1>3
  <2>2. x[n - 1] = w[n] /\ x[n] = w[n + 1] /\ t[n] = q[n + 1]
    BY <1>3, <2>1
  <2> QED BY <1>1, <2>1, <2>2 DEF Stages
<1> HIDE DEF x
<1>8. Stages(p, After(v, q[1]), t, z, x)
  BY <1>6, <1>7 DEF Stages
<1> QED BY <1>3, <1>5, <1>8 DEF Leads, t

\* What follows, follows.
LEMMA Joined ==
    ASSUME NEW p, NEW v, NEW q, NEW y, Leads(p, v, q, y), NEW r, NEW z, Leads(p, y, r, z)
    PROVE  Leads(p, v, q \o r, z)
<1>1. PICK w : Stages(p, v, q, y, w)
  BY DEF Leads
<1>2. PICK x : Stages(p, y, r, z, x)
  BY DEF Leads
<1>3. q \in Seq(Frames) /\ r \in Seq(Frames) /\ Len(q) \in Nat /\ Len(r) \in Nat
  BY LenProperties DEF Leads
<1> DEFINE s == q \o r
           u == [n \in 0..Len(q) + Len(r) |-> IF n <= Len(q) THEN w[n] ELSE x[n - Len(q)]]
<1>4. /\ s \in Seq(Frames) /\ Len(s) = Len(q) + Len(r)
      /\ \A i \in 1..Len(q) + Len(r) : s[i] = IF i <= Len(q) THEN q[i] ELSE r[i - Len(q)]
  BY <1>3, ConcatProperties
<1> HIDE DEF s
<1>5. u \in [0..Len(s) -> Progress] /\ u[0] = v /\ u[Len(s)] = z
  <2>1. \A n \in 0..Len(q) : w[n] \in Progress
    BY <1>1 DEF Stages
  <2>2. \A n \in 0..Len(r) : x[n] \in Progress
    BY <1>2 DEF Stages
  <2>3. \A n \in 0..Len(q) + Len(r) : n <= Len(q) => n \in 0..Len(q)
    BY <1>3
  <2>4. \A n \in 0..Len(q) + Len(r) : ~(n <= Len(q)) => n - Len(q) \in 0..Len(r)
    BY <1>3
  <2>5. \A n \in 0..Len(q) + Len(r) : (IF n <= Len(q) THEN w[n] ELSE x[n - Len(q)]) \in Progress
    BY <2>1, <2>2, <2>3, <2>4
  <2>6. u[0] = v
    BY <1>1, <1>3 DEF Stages
  <2>7. u[Len(q) + Len(r)] = z
    <3>1. CASE Len(r) = 0
      BY <1>1, <1>2, <1>3, <3>1 DEF Stages
    <3>2. CASE Len(r) # 0
      <4>1. ~(Len(q) + Len(r) <= Len(q)) /\ Len(q) + Len(r) - Len(q) = Len(r) /\ Len(q) + Len(r) \in 0..Len(q) + Len(r)
        BY <1>3, <3>2
      <4> QED BY <1>2, <4>1 DEF Stages
    <3> QED BY <3>1, <3>2
  <2> QED BY <1>4, <2>5, <2>6, <2>7
<1>6. ASSUME NEW n \in 1..Len(s)
      PROVE  Allowed(p, u[n - 1], s[n]) /\ u[n] = After(u[n - 1], s[n])
  <2>1. CASE n <= Len(q)
    <3>1. n \in 1..Len(q) /\ n - 1 \in 0..Len(q) + Len(r) /\ n - 1 <= Len(q) /\ n \in 0..Len(q) + Len(r)
      BY <1>3, <1>4, <2>1
    <3>2. u[n - 1] = w[n - 1] /\ u[n] = w[n] /\ s[n] = q[n]
      BY <1>4, <2>1, <3>1
    <3> QED BY <1>1, <3>1, <3>2 DEF Stages
  <2>2. CASE n > Len(q)
    <3> DEFINE m == n - Len(q)
    <3>1. /\ m \in 1..Len(r) /\ n \in 0..Len(q) + Len(r) /\ n - 1 \in 0..Len(q) + Len(r)
          /\ ~(n <= Len(q)) /\ n - 1 - Len(q) = m - 1 /\ (n - 1 <= Len(q) => n - 1 = Len(q) /\ m = 1)
          /\ n \in 1..Len(q) + Len(r)
      BY <1>3, <1>4, <2>2
    <3>2. u[n] = x[m] /\ s[n] = r[m]
      BY <1>4, <3>1
    <3>3. u[n - 1] = x[m - 1]
      <4>1. CASE n - 1 <= Len(q)
        BY <1>1, <1>2, <1>3, <3>1, <4>1 DEF Stages
      <4>2. CASE ~(n - 1 <= Len(q))
        BY <3>1, <4>2
      <4> QED BY <4>1, <4>2
    <3> HIDE DEF m
    <3> QED BY <1>2, <3>1, <3>2, <3>3 DEF Stages
  <2> QED BY <1>3, <1>4, <2>1, <2>2
<1> HIDE DEF u
<1>7. Stages(p, v, s, z, u)
  BY <1>5, <1>6 DEF Stages
<1> QED BY <1>4, <1>7 DEF Leads, s

----------------------------------------------------------------------------
(* Closing the open blocks. *)

\* How many blocks of S come before block i.
Rank(S, i) == Cardinality({j \in S : j < i})

\* The ranks of the blocks of S are the numbers below its size, each once.
LEMMA RankBijective ==
    ASSUME NEW S \in SUBSET Int, IsFiniteSet(S)
    PROVE  /\ Cardinality(S) \in Nat
           /\ \A i \in S : Rank(S, i) \in 0..Cardinality(S) - 1
           /\ \A i, k \in S : Rank(S, i) = Rank(S, k) => i = k
           /\ \A n \in 0..Cardinality(S) - 1 : \E i \in S : Rank(S, i) = n
<1>1. Cardinality(S) \in Nat
  BY FS_CardinalityType
<1>2. ASSUME NEW i \in S
      PROVE  /\ IsFiniteSet({j \in S : j < i}) /\ Rank(S, i) \in Nat /\ Rank(S, i) < Cardinality(S)
  <2> DEFINE T == {j \in S : j < i}
  <2>1. T \in SUBSET S /\ T # S
    <3>1. i \in S /\ i \notin T
      OBVIOUS
    <3> QED BY <3>1
  <2>2. IsFiniteSet(T) /\ Cardinality(T) <= Cardinality(S) /\ Cardinality(T) # Cardinality(S)
    BY <2>1, FS_Subset
  <2>3. Cardinality(T) \in Nat
    BY <2>2, FS_CardinalityType
  <2> QED BY <1>1, <2>2, <2>3 DEF Rank
<1>3. ASSUME NEW i \in S, NEW k \in S, i < k
      PROVE  Rank(S, i) < Rank(S, k)
  <2> DEFINE T == {j \in S : j < i}
             U == {j \in S : j < k}
  <2> \A j \in S : j \in Int
    OBVIOUS
  <2>1. T \in SUBSET U /\ i \in U /\ i \notin T
    <3>1. \A j \in S : j < i => j < k
      BY <1>3
    <3>2. ~(i < i)
      OBVIOUS
    <3> QED BY <1>3, <3>1, <3>2
  <2>2. T # U
    BY <2>1
  <2>3. IsFiniteSet(U) /\ Cardinality(T) \in Nat /\ Cardinality(U) \in Nat
    BY <1>2 DEF Rank
  <2>4. Cardinality(T) <= Cardinality(U) /\ Cardinality(T) # Cardinality(U)
    BY <2>1, <2>2, <2>3, FS_Subset
  <2> QED BY <2>3, <2>4 DEF Rank
<1>4. ASSUME NEW i \in S, NEW k \in S, Rank(S, i) = Rank(S, k)
      PROVE  i = k
  <2>1. i \in Int /\ k \in Int /\ Rank(S, i) \in Nat /\ Rank(S, k) \in Nat
    BY <1>2
  <2>2. ~(i < k) /\ ~(k < i)
    BY <1>3, <1>4, <2>1
  <2> QED BY <2>1, <2>2
<1> DEFINE R == 0..Cardinality(S) - 1
           f == [i \in S |-> Rank(S, i)]
<1>5. IsFiniteSet(R) /\ Cardinality(R) = Cardinality(S)
  <2>1. /\ IsFiniteSet(0..Cardinality(S) - 1)
        /\ Cardinality(0..Cardinality(S) - 1) = IF 0 > Cardinality(S) - 1 THEN 0 ELSE Cardinality(S) - 1 - 0 + 1
    BY <1>1, FS_Interval
  <2> QED BY <1>1, <2>1
<1>6. ASSUME NEW i \in S
       PROVE  Rank(S, i) \in R
  <2>1. Rank(S, i) \in Nat /\ Rank(S, i) < Cardinality(S)
    BY <1>2
  <2> DEFINE a == Rank(S, i)
             b == Cardinality(S)
  <2> HIDE DEF a, b
  <2>2. a \in Nat /\ b \in Nat /\ a < b
    BY <1>1, <2>1 DEF a, b
  <2>3. a \in 0..b - 1
    BY <2>2
  <2> QED BY <2>3 DEF a, b
<1>7. f \in Injection(S, R)
  <2>1. f \in [S -> R]
    <3> HIDE DEF R
    <3> QED BY <1>6
  <2>2. \A i, k \in S : f[i] = f[k] => i = k
    BY <1>4
  <2> QED BY <2>1, <2>2 DEF Injection, IsInjective
<1>8. f \in Surjection(S, R)
  BY <1>5, <1>7, FS_Injection
<1>9. \A n \in R : \E i \in S : f[i] = n
  BY <1>8 DEF Surjection
<1>10. \A n \in R : \E i \in S : Rank(S, i) = n
  BY <1>9
<1> QED BY <1>1, <1>4, <1>10, <1>6

\* The stops of the blocks that are open close them all.
LEMMA StopsLead ==
    ASSUME NEW p, NEW z \in Progress, ~z.ended
    PROVE  /\ Leads(p, z, Stops(z.open), [z EXCEPT !.open = {}])
           /\ [z EXCEPT !.open = {}] \in Progress
<1> DEFINE S == z.open
           C == Cardinality(S)
           L(n) == {i \in S : Rank(S, i) >= n}
           w == [n \in 0..C |-> [z EXCEPT !.open = L(n)]]
           q == Stops(S)
<1>1. S \subseteq BlockIds /\ BlockIds \subseteq Nat /\ BlockIds \subseteq Int
  BY MessagesAssumption DEF Progress, BlockIds
<1>2. IsFiniteSet(S)
  <2>1. IsFiniteSet(BlockIds)
    BY MessagesAssumption, FS_Interval DEF BlockIds
  <2> QED BY <1>1, <2>1, FS_Subset
<1>3. /\ C \in Nat
      /\ \A i \in S : Rank(S, i) \in 0..C - 1
      /\ \A i, k \in S : Rank(S, i) = Rank(S, k) => i = k
      /\ \A n \in 0..C - 1 : \E i \in S : Rank(S, i) = n
  <2>1. S \in SUBSET Int
    BY <1>1
  <2> HIDE DEF S
  <2> QED BY <1>2, <2>1, RankBijective
<1>4. ASSUME NEW n \in 1..C
      PROVE  Nth(S, n) \in S /\ Rank(S, Nth(S, n)) = n - 1
  <2>1. n - 1 \in 0..C - 1
    BY <1>3
  <2>2. \E i \in S : Rank(S, i) = n - 1
    BY <1>3, <2>1
  <2> QED BY <2>2 DEF Nth, Rank
<1> HIDE DEF S, C
<1>5. /\ q = [n \in 1..C |-> Ev("block_stop", Nth(S, n))]
  BY DEF Stops, C
<1>6. \A n \in 1..C : Ev("block_stop", Nth(S, n)) \in Frames
  BY <1>1, <1>4 DEF Frames, Types, Ev
<1>7. q \in Seq(Frames) /\ Len(q) = C
  <2>1. q \in [1..C -> Frames]
    BY <1>5, <1>6
  <2> QED BY <1>3, <1>5, <2>1, IsASeq, LenProperties
<1> HIDE DEF q
<1>8. \A n \in 0..C : L(n) \subseteq BlockIds
  BY <1>1
<1>9. \A n \in 0..C : [z EXCEPT !.open = L(n)] \in Progress
  BY <1>8 DEF Progress
<1>10. L(0) = S /\ L(C) = {}
  BY <1>3
<1>11. [z EXCEPT !.open = S] = z
  BY DEF Progress, S
<1>12. w \in [0..C -> Progress] /\ w[0] = z /\ w[C] = [z EXCEPT !.open = {}]
  <2>1. w \in [0..C -> Progress]
    BY <1>9
  <2>2. 0 \in 0..C /\ C \in 0..C
    BY <1>3
  <2>3. w[0] = [z EXCEPT !.open = L(0)] /\ w[C] = [z EXCEPT !.open = L(C)]
    BY <2>2
  <2> HIDE DEF w, L
  <2> QED BY <1>10, <1>11, <2>1, <2>3
<1>13. ASSUME NEW n \in 1..C
       PROVE  Allowed(p, w[n - 1], q[n]) /\ w[n] = After(w[n - 1], q[n])
  <2> DEFINE e == Ev("block_stop", Nth(S, n))
             A == L(n - 1)
             B == L(n)
             y == [z EXCEPT !.open = A]
  <2>1. q[n] = e /\ w[n - 1] = y /\ w[n] = [z EXCEPT !.open = B]
    BY <1>3, <1>5
  <2>2. e.type = "block_stop" /\ e.idx = Nth(S, n) /\ e \in Frames
    BY <1>6 DEF Ev
  <2>3. Nth(S, n) \in A /\ A \ {Nth(S, n)} = B
    BY <1>3, <1>4
  <2> HIDE DEF e, A, B
  <2>4. y.open = A /\ y.started = z.started /\ y.used = z.used /\ y.ended = z.ended /\ z.started \in BOOLEAN
    BY DEF Progress
  <2> HIDE DEF y
  <2>5. Allowed(p, y, e)
    BY <2>2, <2>3, <2>4 DEF Allowed
  <2>6. After(y, e) = [started |-> z.started, open |-> B, used |-> z.used, ended |-> z.ended]
    BY <2>2, <2>3, <2>4 DEF After, Progress
  <2>7. [z EXCEPT !.open = B] = [started |-> z.started, open |-> B, used |-> z.used, ended |-> z.ended]
    BY DEF Progress
  <2> QED BY <2>1, <2>5, <2>6, <2>7
<1> HIDE DEF w, L
<1>14. Stages(p, z, q, [z EXCEPT !.open = {}], w)
  BY <1>7, <1>12, <1>13 DEF Stages
<1>15. [z EXCEPT !.open = {}] \in Progress
  BY DEF Progress
<1> QED BY <1>7, <1>14, <1>15 DEF Leads, q, S

----------------------------------------------------------------------------
(* The state. *)

Reasons == {"none", "end_turn", "max_tokens"}
BridgeType == [started : BOOLEAN, next : Nat, think : Int, text : Int, tools : [ToolCalls -> Int], open : SUBSET Nat,
               stopped : BOOLEAN, err : BOOLEAN, saw : BOOLEAN, reason : Reasons, ev : Seq(Frames)]
ViewType == [started : BOOLEAN, open : SUBSET BlockIds, used : SUBSET BlockIds, ended : BOOLEAN,
             last : Frames \cup {Ev("none", 0)}, beat : {0, 1}, reason : Reasons]
UpType == [pc : {"sending", "finished", "failed"}, open : SUBSET BlockIds, used : SUBSET BlockIds, reason : Reasons]
AggType == [blocks : SUBSET BlockIds, result : {"none", "message", "error"}, reason : Reasons]

\* The message as the bridge b sees it, ended or not.
Shown(b, ended) == [started |-> b.started, open |-> b.open, used |-> 0..b.next - 1, ended |-> ended]

\* The blocks the bridge would write to are open, and no other content goes to
\* the thinking block, which is closed before the next content.
Pointed(b) ==
    /\ b.think # None => b.text # b.think /\ \A k \in ToolCalls : b.tools[k] # b.think
    /\ b.think \in b.open \cup {None} /\ b.text \in b.open \cup {None}
    /\ \A k \in ToolCalls : b.tools[k] \in b.open \cup {None}

\* While its client reads: what the client has, and the events still to be
\* written, add up to what the bridge's fields say.
BridgeFollows ==
    /\ br \in BridgeType /\ br.ev = <<>> /\ br.next <= MaxBlocks /\ br.open \subseteq 0..br.next - 1 /\ (br.saw => br.next > 0)
    /\ mpc = "loop" => br.think \in br.open \cup {None}
    /\ mpc = "loop" /\ up.pc = "sending" => Pointed(br)
    /\ \/ mpc = "loop" /\ ~br.stopped /\ Leads("bridge", Seen(view), out, Shown(br, FALSE))
       \/ mpc = "over" /\ Leads("bridge", Seen(view), out, Shown(br, TRUE))
       \/ mpc = "over" /\ br.err /\ Leads("bridge", Seen(view), out, Shown(br, FALSE))

\* The same for the native loop and its upstream.
NativeFollows ==
    \E z \in Progress :
      /\ Leads("native", Seen(view), out, z)
      /\ mpc = "loop" => /\ z.open = nat.open /\ (z.ended <=> nat.stop)
                         /\ up.pc = "sending" => ~z.ended /\ up.open = z.open /\ up.used = z.used
      /\ mpc = "over" => z.ended

\* The inductive invariant.
MInv ==
    /\ path \in {"bridge", "native", "aggregate"} /\ mpc \in {"loop", "over"} /\ lost \in BOOLEAN
    /\ up \in UpType /\ agg \in AggType /\ view \in ViewType /\ nat \in [open : SUBSET BlockIds, stop : BOOLEAN]
    /\ path = "bridge" /\ ~lost => BridgeFollows
    /\ path = "native" /\ ~lost => NativeFollows
    /\ path = "aggregate" => out = <<>> /\ agg.blocks = up.used
    /\ path # "aggregate" => agg.result = "none"
    /\ NoEmptyMessage /\ TruncationIsSignalled

----------------------------------------------------------------------------
(* The bridge's operators. *)

\* From v, the events collected in b lead to what b shows, and b can go on.
Follows(v, b) ==
    /\ b \in BridgeType /\ b.next <= MaxBlocks /\ b.open \subseteq 0..b.next - 1 /\ (b.saw => b.next > 0)
    /\ Leads("bridge", v, b.ev, Shown(b, FALSE))

\* Only the fields that place content differ.
Flags(b, c) == c.stopped = b.stopped /\ c.err = b.err
Alike(b, c) ==
    /\ Flags(b, c) /\ c.started = b.started /\ c.next = b.next /\ c.think = b.think /\ c.text = b.text
    /\ c.tools = b.tools /\ c.open = b.open /\ c.saw = b.saw /\ c.reason = b.reason

\* An emitted event is appended, and nothing else.
LEMMA EmitFields ==
    ASSUME NEW b \in BridgeType, NEW t \in Types, NEW i \in Nat
    PROVE  /\ Emit(b, t, i) \in BridgeType /\ Alike(b, Emit(b, t, i))
           /\ Emit(b, t, i).ev = Append(b.ev, Ev(t, i)) /\ Ev(t, i) \in Frames
           /\ Ev(t, i).type = t /\ Ev(t, i).idx = i
<1>1. Ev(t, i) \in Frames /\ Ev(t, i).type = t /\ Ev(t, i).idx = i
  BY DEF Ev, Frames
<1> DEFINE s == Append(b.ev, Ev(t, i))
           c == [b EXCEPT !.ev = s]
<1>2. s \in Seq(Frames)
  BY <1>1, AppendProperties DEF BridgeType
<1>3. Emit(b, t, i) = c
  BY DEF Emit
<1> HIDE DEF s
<1>4. c \in BridgeType /\ Alike(b, c) /\ c.ev = s
  BY <1>2 DEF BridgeType, Alike, Flags
<1> QED BY <1>1, <1>3, <1>4 DEF s

\* What is shown follows from the fields.
LEMMA ShownFields ==
    ASSUME NEW b, NEW e
    PROVE  /\ Shown(b, e).started = b.started /\ Shown(b, e).open = b.open
           /\ Shown(b, e).used = 0..b.next - 1 /\ Shown(b, e).ended = e
BY DEF Shown

\* Emitting t after the fields went from b to c: the message goes on if t may
\* come where b is, and c shows what t makes of it.
LEMMA EmitFollows ==
    ASSUME NEW v, NEW b, Follows(v, b), NEW c \in BridgeType, c.ev = b.ev, c.next <= MaxBlocks,
           c.open \subseteq 0..c.next - 1, c.saw => c.next > 0,
           NEW t \in Types, NEW i \in Nat, Allowed("bridge", Shown(b, FALSE), Ev(t, i)),
           After(Shown(b, FALSE), Ev(t, i)) = Shown(c, FALSE)
    PROVE  Follows(v, Emit(c, t, i)) /\ Alike(c, Emit(c, t, i))
<1> DEFINE d == Emit(c, t, i)
<1>1. d \in BridgeType /\ Alike(c, d) /\ d.ev = Append(b.ev, Ev(t, i))
  <2>1. d \in BridgeType /\ Alike(c, d) /\ d.ev = Append(c.ev, Ev(t, i))
    BY EmitFields
  <2> QED BY <2>1
<1> HIDE DEF d
<1>2. Leads("bridge", v, Append(b.ev, Ev(t, i)), Shown(c, FALSE))
  BY OneMore DEF Follows
<1>3. Shown(d, FALSE) = Shown(c, FALSE)
  BY <1>1 DEF Shown, Alike
<1> QED BY <1>1, <1>2, <1>3 DEF Follows, Alike, d

\* A frame that says nothing about the message.
LEMMA NoticeFollows ==
    ASSUME NEW v, NEW b, Follows(v, b), NEW t \in {"ping", "error"}
    PROVE  Follows(v, Emit(b, t, 0)) /\ Alike(b, Emit(b, t, 0))
<1>1. Ev(t, 0) \in Frames /\ Ev(t, 0).type = t /\ Ev(t, 0).idx = 0 /\ t \in Types
  BY DEF Ev, Frames, Types
<1>2. Allowed("bridge", Shown(b, FALSE), Ev(t, 0))
  BY <1>1 DEF Allowed
<1>3. After(Shown(b, FALSE), Ev(t, 0)) = Shown(b, FALSE)
  <2>1. b.started \in BOOLEAN
    BY DEF Follows, BridgeType
  <2>2. (b.started \/ t = "message_start") = b.started
    BY <2>1
  <2> QED BY <1>1, <2>2, ShownFields DEF After, Shown
<1> QED BY <1>1, <1>2, <1>3, EmitFollows DEF Follows

\* ensureMessageStart.
LEMMA StartFollows ==
    ASSUME NEW v, NEW b, Follows(v, b)
    PROVE  LET c == EnsureMessageStart(b)
           IN  /\ Follows(v, c) /\ Flags(b, c) /\ c.next = b.next /\ c.open = b.open /\ c.think = b.think
               /\ c.text = b.text /\ c.tools = b.tools /\ c.saw = b.saw
<1>1. CASE b.started
  BY <1>1 DEF EnsureMessageStart, Flags
<1>2. CASE ~b.started
  <2> DEFINE c == [b EXCEPT !.started = TRUE]
             e == Ev("message_start", 0)
  <2>1. b \in BridgeType
    BY DEF Follows
  <2>2. /\ c \in BridgeType /\ c.ev = b.ev /\ c.started = TRUE /\ Flags(b, c) /\ c.next = b.next /\ c.open = b.open
        /\ c.think = b.think /\ c.text = b.text /\ c.tools = b.tools /\ c.saw = b.saw
    BY <2>1 DEF BridgeType, Flags
  <2>3. EnsureMessageStart(b) = Emit(c, "message_start", 0)
    BY <1>2 DEF EnsureMessageStart
  <2>4. e \in Frames /\ e.type = "message_start" /\ e.idx = 0 /\ "message_start" \in Types
    BY DEF Ev, Frames, Types
  <2> HIDE DEF c, e
  <2>5. Allowed("bridge", Shown(b, FALSE), e)
    <3>1. b.started = FALSE
      BY <1>2, <2>1 DEF BridgeType
    <3>2. ~Shown(b, FALSE).started /\ ~Shown(b, FALSE).ended
      BY <3>1, ShownFields
    <3> QED BY <2>4, <3>2 DEF Allowed
  <2>6. After(Shown(b, FALSE), e) = Shown(c, FALSE)
    BY <1>2, <2>2, <2>4, ShownFields DEF After, Shown
  <2>7. Follows(v, Emit(c, "message_start", 0)) /\ Alike(c, Emit(c, "message_start", 0))
    BY <2>2, <2>4, <2>5, <2>6, EmitFollows DEF Follows, e
  <2> QED BY <2>2, <2>3, <2>7 DEF Alike, Flags
<1> QED BY <1>1, <1>2

\* The start of a block.
LEMMA NewBlockFollows ==
    ASSUME NEW v, NEW b, Follows(v, b), b.next < MaxBlocks
    PROVE  LET c == NewBlock(b)
           IN  /\ Follows(v, c) /\ Flags(b, c) /\ c.next = b.next + 1 /\ c.open = b.open \cup {b.next}
               /\ c.think = b.think /\ c.text = b.text /\ c.tools = b.tools /\ c.saw = b.saw
<1> DEFINE o == b.open \cup {b.next}
           c == [[b EXCEPT !.next = b.next + 1] EXCEPT !.open = o]
           e == Ev("block_start", b.next)
<1>1. b \in BridgeType /\ b.next \in Nat /\ b.open \subseteq Nat /\ b.started \in BOOLEAN
  BY DEF Follows, BridgeType
<1>2. o \in SUBSET Nat /\ b.next + 1 \in Nat
  BY <1>1
<1> HIDE DEF o
<1>3. /\ c \in BridgeType /\ c.ev = b.ev /\ c.started = b.started /\ Flags(b, c) /\ c.next = b.next + 1 /\ c.open = o
      /\ c.think = b.think /\ c.text = b.text /\ c.tools = b.tools /\ c.saw = b.saw
  BY <1>1, <1>2 DEF BridgeType, Flags
<1>4. NewBlock(b) = Emit(c, "block_start", b.next)
  BY DEF NewBlock, o
<1>5. e \in Frames /\ e.type = "block_start" /\ e.idx = b.next /\ "block_start" \in Types
  BY <1>1 DEF Ev, Frames, Types
<1> HIDE DEF c, e
<1>6. Allowed("bridge", Shown(b, FALSE), e)
  <2>1. b.next \in BlockIds /\ b.next \notin 0..b.next - 1
    BY <1>1, MessagesAssumption DEF BlockIds
  <2> QED BY <1>5, <2>1, ShownFields DEF Allowed
<1>7. After(Shown(b, FALSE), e) = Shown(c, FALSE)
  <2>1. (0..b.next - 1) \cup {b.next} = 0..b.next
    BY <1>1
  <2>2. (b.started \/ FALSE) = b.started
    BY <1>1
  <2> DEFINE u == Shown(b, FALSE)
  <2>3. u.started = b.started /\ u.ended = FALSE /\ u.open = b.open /\ u.used = 0..b.next - 1
    BY ShownFields
  <2> HIDE DEF u
  <2>4. After(u, e) = [started |-> u.started \/ FALSE, open |-> u.open \cup {b.next},
                       used |-> u.used \cup {b.next}, ended |-> u.ended \/ FALSE]
    BY <1>5 DEF After
  <2>5. After(u, e) = [started |-> b.started, open |-> o, used |-> 0..b.next, ended |-> FALSE]
    BY <2>1, <2>2, <2>3, <2>4 DEF o
  <2>6. Shown(c, FALSE) = [started |-> b.started, open |-> o, used |-> 0..b.next, ended |-> FALSE]
    <3>1. 0..c.next - 1 = 0..b.next
      BY <1>1, <1>3
    <3> QED BY <1>3, <3>1 DEF Shown
  <2> QED BY <2>5, <2>6 DEF u
<1>8. c.next <= MaxBlocks /\ c.next > 0 /\ c.open \subseteq 0..c.next - 1
  <2>1. c.next <= MaxBlocks /\ c.next > 0 /\ 0..c.next - 1 = 0..b.next
    BY <1>1, <1>3, MessagesAssumption
  <2>2. b.open \subseteq 0..b.next - 1
    BY DEF Follows
  <2>3. o \subseteq 0..b.next
    BY <1>1, <2>2 DEF o
  <2> QED BY <1>3, <2>1, <2>3
<1>9. Follows(v, Emit(c, "block_start", b.next)) /\ Alike(c, Emit(c, "block_start", b.next))
  BY <1>1, <1>3, <1>5, <1>6, <1>7, <1>8, EmitFollows DEF e
<1> QED BY <1>3, <1>4, <1>9 DEF Alike, Flags, o

\* A delta for an open block.
LEMMA DeltaFollows ==
    ASSUME NEW v, NEW b, Follows(v, b), NEW i, i \in b.open
    PROVE  Follows(v, Emit(b, "delta", i)) /\ Alike(b, Emit(b, "delta", i))
<1> DEFINE e == Ev("delta", i)
<1>1. b \in BridgeType /\ i \in Nat /\ b.started \in BOOLEAN
  BY DEF Follows, BridgeType
<1>2. e \in Frames /\ e.type = "delta" /\ e.idx = i /\ "delta" \in Types
  BY <1>1 DEF Ev, Frames, Types
<1>3. Allowed("bridge", Shown(b, FALSE), e)
  BY <1>2, ShownFields DEF Allowed
<1>4. After(Shown(b, FALSE), e) = Shown(b, FALSE)
  BY <1>1, <1>2, ShownFields DEF After, Shown
<1> QED BY <1>1, <1>2, <1>3, <1>4, EmitFollows DEF Follows

\* closeThinkingBlock: the signature, then the stop.
LEMMA CloseThinkingFollows ==
    ASSUME NEW v, NEW b, Follows(v, b), b.think \in b.open \cup {None}
    PROVE  LET c == CloseThinkingBlock(b)
           IN  /\ Follows(v, c) /\ Flags(b, c) /\ c.next = b.next /\ c.think = None
               /\ c.open = b.open \ {b.think} /\ c.text = b.text /\ c.tools = b.tools /\ c.saw = b.saw
               /\ c.started = b.started
<1>1. b \in BridgeType /\ b.open \subseteq Nat /\ b.started \in BOOLEAN
  BY DEF Follows, BridgeType
<1>2. CASE b.think = None
  <2>1. CloseThinkingBlock(b) = b
    BY <1>2 DEF CloseThinkingBlock
  <2>2. b.open \ {b.think} = b.open
    BY <1>1, <1>2 DEF None
  <2> QED BY <1>2, <2>1, <2>2 DEF Flags
<1>3. CASE b.think # None
  <2> DEFINE i == b.think
             o == b.open \ {i}
             c == [[b EXCEPT !.think = None] EXCEPT !.open = o]
             d == Emit(c, "delta", i)
             e == Ev("block_stop", i)
             y == Emit(b, "delta", i)
  <2>1. i \in b.open /\ i \in Nat /\ o \subseteq Nat
    BY <1>1, <1>3
  <2>2. CloseThinkingBlock(b) = Emit(d, "block_stop", i)
    BY <1>3 DEF CloseThinkingBlock
  <2> HIDE DEF o
  <2>3. /\ c \in BridgeType /\ c.ev = b.ev /\ c.started = b.started /\ Flags(b, c) /\ c.next = b.next /\ c.open = o
        /\ c.think = None /\ c.text = b.text /\ c.tools = b.tools /\ c.saw = b.saw
    <3>1. None \in Int /\ o \in SUBSET Nat
      BY <2>1 DEF None
    <3> QED BY <1>1, <3>1 DEF BridgeType, Flags
  <2> HIDE DEF c, i
  <2>4. Follows(v, y) /\ Alike(b, y)
    BY <2>1, DeltaFollows
  <2>5. "delta" \in Types /\ "block_stop" \in Types
    BY DEF Types
  <2>6. y.ev = Append(b.ev, Ev("delta", i))
    BY <1>1, <2>1, <2>5, EmitFields
  <2>7. d \in BridgeType /\ Alike(c, d) /\ d.ev = Append(c.ev, Ev("delta", i))
    BY <2>1, <2>3, <2>5, EmitFields
  <2> HIDE DEF d, y
  <2>8. e \in Frames /\ e.type = "block_stop" /\ e.idx = i
    BY <2>1, <2>5 DEF Ev, Frames
  <2> HIDE DEF e
  <2> DEFINE u == Shown(y, FALSE)
  <2>9. u.started = b.started /\ u.open = b.open /\ u.used = 0..b.next - 1 /\ u.ended = FALSE
    <3>1. y.started = b.started /\ y.open = b.open /\ y.next = b.next
      BY <2>4 DEF Alike
    <3> QED BY <3>1 DEF Shown
  <2> HIDE DEF u
  <2>10. Allowed("bridge", u, e)
    BY <2>1, <2>8, <2>9 DEF Allowed
  <2>11. After(u, e) = [started |-> u.started \/ FALSE, open |-> u.open \ {i}, used |-> u.used, ended |-> u.ended \/ FALSE]
    BY <2>8 DEF After
  <2>12. After(u, e) = [started |-> b.started, open |-> o, used |-> 0..b.next - 1, ended |-> FALSE]
    BY <1>1, <2>9, <2>11 DEF o
  <2>13. Shown(d, FALSE) = [started |-> b.started, open |-> o, used |-> 0..b.next - 1, ended |-> FALSE]
    BY <2>3, <2>7 DEF Shown, Alike
  <2>14. d.ev = y.ev /\ d.next <= MaxBlocks /\ (d.saw => d.next > 0) /\ d.open \subseteq 0..d.next - 1
    BY <2>3, <2>6, <2>7 DEF Alike, Follows, o
  <2>15. Follows(v, Emit(d, "block_stop", i)) /\ Alike(d, Emit(d, "block_stop", i))
    BY <2>1, <2>4, <2>5, <2>7, <2>10, <2>12, <2>13, <2>14, EmitFollows DEF u, e
  <2> QED BY <2>2, <2>3, <2>7, <2>15 DEF Alike, Flags, o, i
<1> QED BY <1>2, <1>3

\* A record whose place in the message is set after the block was started.
LEMMA SawFollows ==
    ASSUME NEW v, NEW b, Follows(v, b), NEW c \in BridgeType, c.ev = b.ev, c.next = b.next, c.open = b.open,
           c.started = b.started, c.saw => c.next > 0
    PROVE  Follows(v, c)
<1>1. Shown(c, FALSE) = Shown(b, FALSE)
  BY DEF Shown
<1> QED BY <1>1 DEF Follows

\* Content is written to an open block.
LEMMA ContentFollows ==
    ASSUME NEW v, NEW b, Follows(v, b), NEW i, i \in b.open
    PROVE  LET c == Emit([b EXCEPT !.saw = TRUE], "delta", i)
           IN  /\ Follows(v, c) /\ Flags(b, c) /\ c.next = b.next /\ c.open = b.open /\ c.think = b.think
               /\ c.text = b.text /\ c.tools = b.tools
<1> DEFINE s == [b EXCEPT !.saw = TRUE]
<1>1. b \in BridgeType /\ b.open \subseteq 0..b.next - 1 /\ b.next \in Nat
  BY DEF Follows, BridgeType
<1>2. /\ s \in BridgeType /\ s.ev = b.ev /\ s.next = b.next /\ s.open = b.open /\ s.started = b.started
      /\ Flags(b, s) /\ s.think = b.think /\ s.text = b.text /\ s.tools = b.tools
  BY <1>1 DEF BridgeType, Flags
<1>3. b.next > 0
  BY <1>1
<1> HIDE DEF s
<1>4. Follows(v, s)
  BY <1>2, <1>3, SawFollows
<1>5. Follows(v, Emit(s, "delta", i)) /\ Alike(s, Emit(s, "delta", i))
  BY <1>2, <1>4, DeltaFollows
<1> QED BY <1>2, <1>5 DEF Alike, Flags, s

\* emitThinkingDelta.
LEMMA ThinkingFollows ==
    ASSUME NEW v, NEW b, Follows(v, b), Pointed(b), b.next < MaxBlocks
    PROVE  LET c == EmitThinkingDelta(b)
           IN  Follows(v, c) /\ Flags(b, c) /\ Pointed(c)
<1>1. b \in BridgeType /\ b.open \subseteq 0..b.next - 1 /\ b.next \in Nat /\ None = -1
  BY DEF Follows, BridgeType, None
<1> DEFINE n == NewBlock(b)
           m == [n EXCEPT !.think = b.next]
           t == IF b.think # None THEN b ELSE m
           r == Emit([t EXCEPT !.saw = TRUE], "delta", t.think)
<1>2. EmitThinkingDelta(b) = r
  BY DEF EmitThinkingDelta
<1>3. Follows(v, t) /\ Flags(b, t) /\ Pointed(t) /\ t.think # None
  <2>1. CASE b.think # None
    BY <2>1 DEF Flags
  <2>2. CASE b.think = None
    <3>1. /\ Follows(v, n) /\ Flags(b, n) /\ n.next = b.next + 1 /\ n.open = b.open \cup {b.next}
          /\ n.think = b.think /\ n.text = b.text /\ n.tools = b.tools /\ n.saw = b.saw
      BY NewBlockFollows
    <3> HIDE DEF n
    <3>2. n \in BridgeType
      BY <3>1 DEF Follows
    <3>3. /\ m \in BridgeType /\ m.ev = n.ev /\ m.next = n.next /\ m.open = n.open /\ m.started = n.started
          /\ Flags(n, m) /\ m.think = b.next /\ m.text = n.text /\ m.tools = n.tools /\ m.saw = n.saw
      <4>1. b.next \in Int
        BY <1>1
      <4> QED BY <3>2, <4>1 DEF BridgeType, Flags
    <3> HIDE DEF m
    <3>4. Follows(v, m)
      <4>1. m.next > 0
        BY <1>1, <3>1, <3>3
      <4> QED BY <3>1, <3>3, <4>1, SawFollows
    <3>5. b.next \notin b.open /\ b.next # None
      BY <1>1
    <3>6. Pointed(m)
      BY <3>1, <3>3, <3>5 DEF Pointed
    <3> QED BY <2>2, <3>1, <3>3, <3>4, <3>5, <3>6 DEF Flags
  <2> QED BY <2>1, <2>2
<1> HIDE DEF t
<1>4. t.think \in t.open
  BY <1>3 DEF Pointed
<1>5. /\ Follows(v, r) /\ Flags(t, r) /\ r.next = t.next /\ r.open = t.open /\ r.think = t.think
      /\ r.text = t.text /\ r.tools = t.tools
  BY <1>3, <1>4, ContentFollows
<1> HIDE DEF r
<1> QED BY <1>2, <1>3, <1>5 DEF Pointed, Flags

\* emitTextDelta.
LEMMA TextFollows ==
    ASSUME NEW v, NEW b, Follows(v, b), Pointed(b), b.next < MaxBlocks
    PROVE  LET r == EmitTextDelta(b)
           IN  Follows(v, r) /\ Flags(b, r) /\ Pointed(r)
<1> DEFINE c == CloseThinkingBlock(b)
           n == NewBlock(c)
           m == [n EXCEPT !.text = c.next]
           t == IF c.text # None THEN c ELSE m
           r == Emit([t EXCEPT !.saw = TRUE], "delta", t.text)
<1>1. /\ Follows(v, c) /\ Flags(b, c) /\ c.next = b.next /\ c.think = None
      /\ c.open = b.open \ {b.think} /\ c.text = b.text /\ c.tools = b.tools
  BY CloseThinkingFollows DEF Pointed
<1>2. EmitTextDelta(b) = r
  BY DEF EmitTextDelta
<1> HIDE DEF c
<1>3. c \in BridgeType /\ c.open \subseteq 0..c.next - 1 /\ c.next \in Nat /\ None = -1
  BY <1>1 DEF Follows, BridgeType, None
<1>4. Pointed(c)
  BY <1>1 DEF Pointed
<1>5. Follows(v, t) /\ Flags(b, t) /\ Pointed(t) /\ t.text # None
  <2>1. CASE c.text # None
    BY <1>1, <1>4, <2>1 DEF Flags
  <2>2. CASE c.text = None
    <3>1. /\ Follows(v, n) /\ Flags(c, n) /\ n.next = c.next + 1 /\ n.open = c.open \cup {c.next}
          /\ n.think = c.think /\ n.text = c.text /\ n.tools = c.tools /\ n.saw = c.saw
      BY <1>1, NewBlockFollows
    <3> HIDE DEF n
    <3>2. n \in BridgeType
      BY <3>1 DEF Follows
    <3>3. /\ m \in BridgeType /\ m.ev = n.ev /\ m.next = n.next /\ m.open = n.open /\ m.started = n.started
          /\ Flags(n, m) /\ m.think = n.think /\ m.text = c.next /\ m.tools = n.tools /\ m.saw = n.saw
      <4>1. c.next \in Int
        BY <1>3
      <4> QED BY <3>2, <4>1 DEF BridgeType, Flags
    <3> HIDE DEF m
    <3>4. Follows(v, m)
      <4>1. m.next > 0
        BY <1>3, <3>1, <3>3
      <4> QED BY <3>1, <3>3, <4>1, SawFollows
    <3>5. c.next # None
      BY <1>3
    <3>6. Pointed(m)
      BY <1>1, <1>4, <3>1, <3>3, <3>5 DEF Pointed
    <3> QED BY <1>1, <2>2, <3>1, <3>3, <3>4, <3>5, <3>6 DEF Flags
  <2> QED BY <2>1, <2>2
<1> HIDE DEF t
<1>6. t.text \in t.open
  BY <1>5 DEF Pointed
<1>7. /\ Follows(v, r) /\ Flags(t, r) /\ r.next = t.next /\ r.open = t.open /\ r.think = t.think
      /\ r.text = t.text /\ r.tools = t.tools
  BY <1>5, <1>6, ContentFollows
<1> HIDE DEF r
<1> QED BY <1>2, <1>5, <1>7 DEF Pointed, Flags

\* emitToolDelta.
LEMMA ToolFollows ==
    ASSUME NEW v, NEW b, Follows(v, b), Pointed(b), b.next < MaxBlocks, NEW k \in ToolCalls
    PROVE  LET r == EmitToolDelta(b, k)
           IN  Follows(v, r) /\ Flags(b, r) /\ Pointed(r)
<1> DEFINE c == CloseThinkingBlock(b)
           n == NewBlock(c)
           f == [n.tools EXCEPT ![k] = c.next]
           m == [n EXCEPT !.tools = f]
           t == IF c.tools[k] # None THEN c ELSE [n EXCEPT !.tools[k] = c.next]
           r == Emit([t EXCEPT !.saw = TRUE], "delta", t.tools[k])
<1>1. /\ Follows(v, c) /\ Flags(b, c) /\ c.next = b.next /\ c.think = None
      /\ c.open = b.open \ {b.think} /\ c.text = b.text /\ c.tools = b.tools
  BY CloseThinkingFollows DEF Pointed
<1>2. EmitToolDelta(b, k) = r
  BY DEF EmitToolDelta
<1> HIDE DEF c
<1>3. /\ c \in BridgeType /\ c.open \subseteq 0..c.next - 1 /\ c.next \in Nat /\ None = -1
      /\ c.tools \in [ToolCalls -> Int]
  BY <1>1 DEF Follows, BridgeType, None
<1>4. Pointed(c)
  BY <1>1 DEF Pointed
<1>5. Follows(v, t) /\ Flags(b, t) /\ Pointed(t) /\ t.tools[k] # None
  <2>1. CASE c.tools[k] # None
    BY <1>1, <1>4, <2>1 DEF Flags
  <2>2. CASE c.tools[k] = None
    <3>1. /\ Follows(v, n) /\ Flags(c, n) /\ n.next = c.next + 1 /\ n.open = c.open \cup {c.next}
          /\ n.think = c.think /\ n.text = c.text /\ n.tools = c.tools /\ n.saw = c.saw
      BY <1>1, NewBlockFollows
    <3>0. t = m
      BY <2>2
    <3> HIDE DEF n, t
    <3>2. n \in BridgeType
      BY <3>1 DEF Follows
    <3>3. f \in [ToolCalls -> Int] /\ f[k] = c.next /\ \A j \in ToolCalls : j # k => f[j] = c.tools[j]
      BY <1>3, <3>1
    <3> HIDE DEF f
    <3>4. /\ m \in BridgeType /\ m.ev = n.ev /\ m.next = n.next /\ m.open = n.open /\ m.started = n.started
          /\ Flags(n, m) /\ m.think = n.think /\ m.text = n.text /\ m.tools = f /\ m.saw = n.saw
      BY <3>2, <3>3 DEF BridgeType, Flags
    <3> HIDE DEF m
    <3>5. Follows(v, m)
      <4>1. m.next > 0
        BY <1>3, <3>1, <3>4
      <4> QED BY <3>1, <3>4, <4>1, SawFollows
    <3>6. c.next # None
      BY <1>3
    <3>7. Pointed(m)
      <4>1. m.think = None /\ m.text \in m.open \cup {None}
        BY <1>1, <1>4, <3>1, <3>4 DEF Pointed
      <4>2. \A j \in ToolCalls : m.tools[j] \in m.open \cup {None}
        BY <1>4, <3>1, <3>3, <3>4 DEF Pointed
      <4> QED BY <4>1, <4>2 DEF Pointed
    <3> QED BY <1>1, <3>0, <3>1, <3>3, <3>4, <3>5, <3>6, <3>7 DEF Flags
  <2> QED BY <2>1, <2>2
<1> HIDE DEF t
<1>6. t.tools[k] \in t.open
  BY <1>5 DEF Pointed
<1>7. /\ Follows(v, r) /\ Flags(t, r) /\ r.next = t.next /\ r.open = t.open /\ r.think = t.think
      /\ r.text = t.text /\ r.tools = t.tools
  BY <1>5, <1>6, ContentFollows
<1> HIDE DEF r
<1> QED BY <1>2, <1>5, <1>7 DEF Pointed, Flags

\* closeOpenBlocks: the thinking block first, then the others.
LEMMA CloseFollows ==
    ASSUME NEW v, NEW b, Follows(v, b), b.think \in b.open \cup {None}
    PROVE  LET r == CloseOpenBlocks(b)
           IN  /\ Follows(v, r) /\ Flags(b, r) /\ r.next = b.next /\ r.open = {} /\ r.think = None /\ r.saw = b.saw
<1> DEFINE c == CloseThinkingBlock(b)
           s == c.ev \o Stops(c.open)
           r == [[c EXCEPT !.open = {}] EXCEPT !.ev = s]
           z == Shown(c, FALSE)
<1>1. /\ Follows(v, c) /\ Flags(b, c) /\ c.next = b.next /\ c.think = None /\ c.saw = b.saw
  BY CloseThinkingFollows
<1>2. CloseOpenBlocks(b) = r
  BY DEF CloseOpenBlocks
<1> HIDE DEF c
<1>3. c \in BridgeType /\ c.next \in Nat /\ c.next <= MaxBlocks /\ Leads("bridge", v, c.ev, z)
  BY <1>1 DEF Follows, BridgeType
<1>4. z \in Progress /\ z.open = c.open /\ z.ended = FALSE
  <2>1. z.open = c.open /\ z.ended = FALSE
    BY ShownFields
  <2> HIDE DEF z
  <2>2. PICK w : Stages("bridge", v, c.ev, z, w)
    BY <1>3 DEF Leads
  <2>3. Len(c.ev) \in Nat
    BY <1>3, LenProperties DEF Leads
  <2>4. z \in Progress
    BY <2>2, <2>3 DEF Stages
  <2> QED BY <2>1, <2>4
<1>5. Leads("bridge", z, Stops(c.open), [z EXCEPT !.open = {}])
  <2> HIDE DEF z
  <2> QED BY <1>4, StopsLead
<1>6. Leads("bridge", v, s, [z EXCEPT !.open = {}])
  <2> HIDE DEF z
  <2> QED BY <1>3, <1>5, Joined
<1>7. s \in Seq(Frames)
  BY <1>6 DEF Leads
<1> HIDE DEF s
<1>8. /\ r \in BridgeType /\ r.ev = s /\ r.next = c.next /\ r.open = {} /\ r.started = c.started
      /\ Flags(c, r) /\ r.think = c.think /\ r.saw = c.saw
  <2>1. {} \in SUBSET Nat
    OBVIOUS
  <2> QED BY <1>3, <1>7, <2>1 DEF BridgeType, Flags
<1> HIDE DEF r
<1>9. Shown(r, FALSE) = [z EXCEPT !.open = {}]
  <2>1. Shown(r, FALSE) = [started |-> c.started, open |-> {}, used |-> 0..c.next - 1, ended |-> FALSE]
    BY <1>8 DEF Shown
  <2>2. z.started = c.started /\ z.used = 0..c.next - 1 /\ z.ended = FALSE
    BY ShownFields
  <2> HIDE DEF z
  <2>3. [z EXCEPT !.open = {}] = [started |-> z.started, open |-> {}, used |-> z.used, ended |-> z.ended]
    BY <1>4 DEF Progress
  <2> QED BY <2>1, <2>2, <2>3
<1>10. Follows(v, r)
  <2>1. c.saw => c.next > 0
    BY <1>1 DEF Follows
  <2> HIDE DEF z
  <2> QED BY <1>3, <1>6, <1>8, <1>9, <2>1 DEF Follows
<1> QED BY <1>1, <1>2, <1>8, <1>10 DEF Flags

\* An error event.
LEMMA ErrorFollows ==
    ASSUME NEW v, NEW b, Follows(v, b)
    PROVE  LET r == EmitError(b)
           IN  /\ Follows(v, r) /\ r.err = TRUE /\ r.stopped = b.stopped /\ r.next = b.next /\ r.open = b.open
               /\ r.think = b.think /\ r.text = b.text /\ r.tools = b.tools
<1> DEFINE c == [b EXCEPT !.err = TRUE]
           r == Emit(c, "error", 0)
<1>1. EmitError(b) = r
  BY DEF EmitError
<1>2. b \in BridgeType
  BY DEF Follows
<1>3. /\ c \in BridgeType /\ c.ev = b.ev /\ c.next = b.next /\ c.open = b.open /\ c.started = b.started
      /\ c.err = TRUE /\ c.stopped = b.stopped /\ c.saw = b.saw
      /\ c.think = b.think /\ c.text = b.text /\ c.tools = b.tools
  BY <1>2 DEF BridgeType
<1> HIDE DEF c
<1>4. Follows(v, c)
  <2>1. c.saw => c.next > 0
    BY <1>3 DEF Follows
  <2> QED BY <1>3, <2>1, SawFollows
<1>5. Follows(v, r) /\ Alike(c, r)
  BY <1>4, NoticeFollows
<1> HIDE DEF r
<1> QED BY <1>1, <1>3, <1>5 DEF Alike, Flags

\* handleFrame, chunk by chunk.
LEMMA FrameFollows ==
    ASSUME NEW v, NEW b, Follows(v, b), b.think \in b.open \cup {None}, b.next < MaxBlocks,
           NEW kind \in Kinds \cup {"tool"}, NEW k, kind = "tool" => k \in ToolCalls,
           kind \in {"reasoning", "text", "tool"} => Pointed(b)
    PROVE  LET r == HandleFrame(b, kind, k)
           IN  /\ Follows(v, r) /\ r.think \in r.open \cup {None} /\ r.stopped = b.stopped
               /\ Pointed(b) /\ kind \notin {"stop", "length"} => Pointed(r)
<1> DEFINE a == EnsureMessageStart(b)
           r == HandleFrame(b, kind, k)
<1>1. /\ Follows(v, a) /\ Flags(b, a) /\ a.next = b.next /\ a.open = b.open /\ a.think = b.think
      /\ a.text = b.text /\ a.tools = b.tools /\ a.saw = b.saw
  BY StartFollows
<1>2. Pointed(b) => Pointed(a)
  BY <1>1 DEF Pointed
<1> HIDE DEF a
<1>3. CASE kind = "error"
  <2>1. r = EmitError(b)
    BY <1>3 DEF HandleFrame
  <2> DEFINE e == EmitError(b)
  <2>2. /\ Follows(v, e) /\ e.stopped = b.stopped /\ e.open = b.open
        /\ e.think = b.think /\ e.text = b.text /\ e.tools = b.tools
    BY ErrorFollows
  <2> HIDE DEF e, r
  <2> QED BY <2>1, <2>2 DEF Pointed, e, r
<1>4. CASE kind = "keepalive"
  <2>1. r = Emit(b, "ping", 0)
    BY <1>4 DEF HandleFrame
  <2>2. Follows(v, Emit(b, "ping", 0)) /\ Alike(b, Emit(b, "ping", 0))
    BY NoticeFollows
  <2> HIDE DEF r
  <2> QED BY <2>1, <2>2 DEF Pointed, Alike, Flags, r
<1>5. CASE kind = "role"
  <2>1. r = Emit(a, "ping", 0)
    BY <1>5 DEF HandleFrame, a
  <2>2. Follows(v, Emit(a, "ping", 0)) /\ Alike(a, Emit(a, "ping", 0))
    BY <1>1, NoticeFollows
  <2> HIDE DEF r
  <2> QED BY <1>1, <2>1, <2>2 DEF Pointed, Alike, Flags, r
<1>6. CASE kind = "usage"
  <2>1. r = a
    BY <1>6 DEF HandleFrame, a
  <2> HIDE DEF r
  <2> QED BY <1>1, <1>2, <2>1 DEF Flags, r
<1>7. CASE kind = "reasoning"
  <2>1. r = EmitThinkingDelta(a)
    BY <1>7 DEF HandleFrame, a
  <2>2. Follows(v, r) /\ Flags(a, r) /\ Pointed(r)
    BY <1>1, <1>2, <1>7, <2>1, ThinkingFollows
  <2> HIDE DEF r
  <2> QED BY <1>1, <2>2 DEF Pointed, Flags, r
<1>8. CASE kind = "text"
  <2>1. r = EmitTextDelta(a)
    BY <1>8 DEF HandleFrame, a
  <2>2. Follows(v, r) /\ Flags(a, r) /\ Pointed(r)
    BY <1>1, <1>2, <1>8, <2>1, TextFollows
  <2> HIDE DEF r
  <2> QED BY <1>1, <2>2 DEF Pointed, Flags, r
<1>9. CASE kind = "tool"
  <2>1. r = EmitToolDelta(a, k)
    BY <1>9 DEF HandleFrame, a
  <2>2. Follows(v, r) /\ Flags(a, r) /\ Pointed(r)
    BY <1>1, <1>2, <1>9, <2>1, ToolFollows
  <2> HIDE DEF r
  <2> QED BY <1>1, <2>2 DEF Pointed, Flags, r
<1>10. CASE kind \in {"stop", "length"}
  <2> DEFINE x == StopReasonFromOpenAI(kind)
             c == [a EXCEPT !.reason = x]
  <2>1. r = CloseOpenBlocks(c)
    BY <1>10 DEF HandleFrame, a
  <2>2. a \in BridgeType /\ x \in Reasons
    BY <1>1 DEF Follows, StopReasonFromOpenAI, Reasons
  <2> HIDE DEF x
  <2>3. /\ c \in BridgeType /\ c.ev = a.ev /\ c.next = a.next /\ c.open = a.open /\ c.started = a.started
        /\ Flags(a, c) /\ c.saw = a.saw /\ c.think = a.think
    BY <2>2 DEF BridgeType, Flags
  <2> HIDE DEF c
  <2>4. Follows(v, c)
    <3>1. c.saw => c.next > 0
      BY <1>1, <2>3 DEF Follows
    <3> QED BY <1>1, <2>3, <3>1, SawFollows
  <2>5. Follows(v, r) /\ Flags(c, r) /\ r.think = None
    BY <1>1, <2>1, <2>3, <2>4, CloseFollows
  <2> HIDE DEF r
  <2> QED BY <1>1, <1>10, <2>3, <2>5 DEF Flags, r
<1> QED BY <1>3, <1>4, <1>5, <1>6, <1>7, <1>8, <1>9, <1>10 DEF Kinds

\* finalizeMessage: the terminal pair after the last block, or an error event, or
\* nothing after an error.
LEMMA FinalizeFollows ==
    ASSUME NEW v, NEW b, Follows(v, b), b.think \in b.open \cup {None}, ~b.stopped
    PROVE  LET r == FinalizeMessage(b)
           IN  /\ r \in BridgeType /\ r.stopped = TRUE /\ r.next <= MaxBlocks /\ r.open \subseteq 0..r.next - 1
               /\ r.saw => r.next > 0
               /\ \/ Leads("bridge", v, r.ev, Shown(r, TRUE))
                  \/ r.err /\ Leads("bridge", v, r.ev, Shown(r, FALSE))
<1> DEFINE s == [b EXCEPT !.stopped = TRUE]
           r == FinalizeMessage(b)
<1>1. b \in BridgeType
  BY DEF Follows
<1>2. /\ s \in BridgeType /\ s.ev = b.ev /\ s.next = b.next /\ s.open = b.open /\ s.started = b.started
      /\ s.stopped = TRUE /\ s.err = b.err /\ s.saw = b.saw /\ s.think = b.think
  BY <1>1 DEF BridgeType
<1> HIDE DEF s
<1>3. Follows(v, s)
  <2>1. s.saw => s.next > 0
    BY <1>2 DEF Follows
  <2> QED BY <1>2, <2>1, SawFollows
<1>4. CASE b.err
  <2>1. r = s
    BY <1>4 DEF FinalizeMessage, s
  <2> HIDE DEF r
  <2> QED BY <1>2, <1>3, <1>4, <2>1 DEF Follows, r
<1>5. CASE ~b.err /\ ~b.saw
  <2>1. r = EmitError(s)
    BY <1>5 DEF FinalizeMessage, s
  <2> DEFINE q == EmitError(s)
  <2>2. Follows(v, q) /\ q.err = TRUE /\ q.stopped = s.stopped
    BY <1>3, ErrorFollows
  <2> HIDE DEF r, q
  <2> QED BY <1>2, <2>1, <2>2 DEF Follows, r, q
<1>6. CASE ~b.err /\ b.saw
  <2> DEFINE c == CloseOpenBlocks(s)
             d == Emit(c, "message_delta", 0)
             e == Ev("message_delta", 0)
             f == Ev("message_stop", 0)
             x == Emit(d, "message_stop", 0)
  <2>1. r = x
    BY <1>6 DEF FinalizeMessage, s
  <2>2. /\ Follows(v, c) /\ Flags(s, c) /\ c.next = s.next /\ c.open = {} /\ c.saw = s.saw
    BY <1>2, <1>3, CloseFollows
  <2> HIDE DEF c
  <2>3. /\ e \in Frames /\ e.type = "message_delta" /\ e.idx = 0 /\ "message_delta" \in Types
        /\ f \in Frames /\ f.type = "message_stop" /\ f.idx = 0 /\ "message_stop" \in Types
    BY DEF Ev, Frames, Types
  <2> HIDE DEF e, f
  <2>4. c \in BridgeType /\ c.started \in BOOLEAN /\ c.next \in Nat /\ c.next > 0
    BY <1>2, <1>6, <2>2 DEF Follows, BridgeType
  <2>5. Follows(v, d) /\ Alike(c, d)
    <3>1. Allowed("bridge", Shown(c, FALSE), e)
      BY <2>3, ShownFields DEF Allowed
    <3>2. After(Shown(c, FALSE), e) = Shown(c, FALSE)
      BY <2>3, <2>4, ShownFields DEF After, Shown
    <3>3. c.next <= MaxBlocks /\ c.open \subseteq 0..c.next - 1 /\ (c.saw => c.next > 0) /\ 0 \in Nat
      BY <2>2 DEF Follows
    <3> QED BY <2>2, <2>3, <2>4, <3>1, <3>2, <3>3, EmitFollows DEF e
  <2> HIDE DEF d
  <2>6. d \in BridgeType /\ d.next = c.next /\ d.open = {} /\ d.started \in BOOLEAN
    BY <2>2, <2>5 DEF Alike, Follows, BridgeType
  <2>7. x \in BridgeType /\ Alike(d, x) /\ x.ev = Append(d.ev, f)
    BY <2>3, <2>6, EmitFields DEF f
  <2> HIDE DEF x
  <2> DEFINE u == Shown(d, FALSE)
  <2>8. u.started = d.started /\ u.open = {} /\ u.used = 0..d.next - 1 /\ u.ended = FALSE
    BY <2>6, ShownFields
  <2>9. Leads("bridge", v, d.ev, u)
    BY <2>5 DEF Follows
  <2> HIDE DEF u
  <2>10. u.used # {}
    <3>1. 0 \in 0..d.next - 1
      BY <2>4, <2>6
    <3> QED BY <2>8, <3>1
  <2>11. Allowed("bridge", u, f)
    BY <2>3, <2>8, <2>10 DEF Allowed
  <2>12. Leads("bridge", v, x.ev, After(u, f))
    BY <2>7, <2>9, <2>11, OneMore
  <2>13. After(u, f) = [started |-> d.started, open |-> {}, used |-> 0..d.next - 1, ended |-> TRUE]
    BY <2>3, <2>6, <2>8 DEF After
  <2>14. Shown(x, TRUE) = [started |-> d.started, open |-> {}, used |-> 0..d.next - 1, ended |-> TRUE]
    BY <2>6, <2>7 DEF Shown, Alike
  <2>15. x.stopped = TRUE /\ x.next <= MaxBlocks /\ x.open = {} /\ x.next > 0
    BY <1>2, <2>2, <2>4, <2>5, <2>6, <2>7 DEF Alike, Flags, Follows
  <2> HIDE DEF r
  <2> QED BY <2>1, <2>7, <2>12, <2>13, <2>14, <2>15 DEF r
<1> QED BY <1>4, <1>5, <1>6

\* Finalizing once more changes nothing.
LEMMA FinalizeTwice ==
    ASSUME NEW b \in BridgeType, b.stopped
    PROVE  FinalizeMessage(b) = b
<1>1. b.stopped = TRUE
  BY DEF BridgeType
<1>2. [b EXCEPT !.stopped = TRUE] = b
  BY <1>1 DEF BridgeType
<1> QED BY <1>2 DEF FinalizeMessage

----------------------------------------------------------------------------
(* The steps. *)

\* The events are handed over, the bridge's fields stay.
LEMMA Cleared ==
    ASSUME NEW b \in BridgeType
    PROVE  LET c == [b EXCEPT !.ev = <<>>]
           IN  c \in BridgeType /\ c.ev = <<>> /\ Alike(b, c) /\ \A e : Shown(c, e) = Shown(b, e)
<1> DEFINE c == [b EXCEPT !.ev = <<>>]
<1>1. <<>> \in Seq(Frames)
  BY EmptySeq
<1>2. c \in BridgeType /\ c.ev = <<>> /\ Alike(b, c)
  BY <1>1 DEF BridgeType, Alike, Flags
<1> HIDE DEF c
<1> QED BY <1>2 DEF Shown, Alike, c

\* A bridge that is ready shows what its client has.
LEMMA BridgeReady ==
    ASSUME BridgeFollows, out = <<>>, mpc = "loop"
    PROVE  Follows(Seen(view), br) /\ br.think \in br.open \cup {None} /\ ~br.stopped
BY DEF BridgeFollows, Follows

\* A step that keeps the types, the view and the path.
LEMMA SameView ==
    ASSUME MInv, UNCHANGED <<path, view, lost, nat, agg>>, up' \in UpType, mpc' \in {"loop", "over"},
           path # "aggregate", up'.reason = up.reason \/ (up.reason = "none" /\ path = "native") \/ path = "bridge",
           path = "bridge" /\ ~lost => BridgeFollows',
           path = "native" /\ ~lost => NativeFollows'
    PROVE  MInv'
<1>1. lost' \in BOOLEAN
  <2>1. lost \in BOOLEAN /\ lost' = lost
    BY DEF MInv
  <2> QED BY <2>1, Zenon
<1>2. /\ path \in {"bridge", "native", "aggregate"} /\ agg \in AggType /\ view \in ViewType
      /\ nat \in [open : SUBSET BlockIds, stop : BOOLEAN] /\ agg.result = "none"
  BY DEF MInv
<1>3. NoEmptyMessage'
  BY DEF MInv, NoEmptyMessage
<1>4. TruncationIsSignalled'
  BY DEF MInv, TruncationIsSignalled
<1> QED BY <1>1, <1>2, <1>3, <1>4 DEF MInv

\* A chunk of the backend.
LEMMA BridgeFrameStep ==
    ASSUME MInv, NEW kind \in Kinds \cup {"tool"}, NEW k, kind = "tool" => k \in ToolCalls, BridgeFrame(kind, k)
    PROVE  MInv'
<1>1. /\ path = "bridge" /\ mpc = "loop" /\ out = <<>> /\ MaySend(kind) /\ br.next < MaxBlocks
      /\ UNCHANGED <<path, nat, agg, mpc, lost, view>>
  BY DEF BridgeFrame, Ready
<1> DEFINE x == IF kind \in {"stop", "length"} THEN "finished" ELSE IF kind = "error" THEN "failed" ELSE up.pc
           y == IF kind \in {"stop", "length"} THEN StopReasonFromOpenAI(kind) ELSE up.reason
<1>2. up' = [up EXCEPT !.pc = x, !.reason = y]
  BY DEF BridgeFrame
<1>3. up \in UpType /\ x \in {"sending", "finished", "failed"} /\ y \in Reasons
  BY DEF MInv, UpType, StopReasonFromOpenAI, Reasons
<1>4. up'.pc = x /\ up' \in UpType
  <2> HIDE DEF x, y
  <2> QED BY <1>2, <1>3 DEF UpType
<1>5. ASSUME ~lost
      PROVE  BridgeFollows'
  <2>1. BridgeFollows
    BY <1>1, <1>5 DEF MInv
  <2> DEFINE v == Seen(view)
             b == HandleFrame(br, kind, k)
             c == [b EXCEPT !.ev = <<>>]
  <2>2. Follows(v, br) /\ br.think \in br.open \cup {None} /\ ~br.stopped
    BY <1>1, <2>1, BridgeReady
  <2>3. br' = c /\ out' = b.ev
    BY DEF BridgeFrame
  <2>4. kind \notin {"keepalive", "usage"} => up.pc = "sending"
    BY <1>1 DEF MaySend, Kinds
  <2>5. kind \in {"reasoning", "text", "tool"} => Pointed(br)
    BY <1>1, <2>1, <2>4 DEF BridgeFollows
  <2>6. /\ Follows(v, b) /\ b.think \in b.open \cup {None} /\ b.stopped = br.stopped
        /\ Pointed(br) /\ kind \notin {"stop", "length"} => Pointed(b)
    BY <1>1, <2>2, <2>5, FrameFollows
  <2> HIDE DEF b
  <2>7. c \in BridgeType /\ c.ev = <<>> /\ Alike(b, c) /\ Shown(c, FALSE) = Shown(b, FALSE)
    BY <2>6, Cleared DEF Follows
  <2> HIDE DEF c, v
  <2>8. /\ c.next <= MaxBlocks /\ c.open \subseteq 0..c.next - 1 /\ (c.saw => c.next > 0)
        /\ c.think \in c.open \cup {None} /\ c.stopped = br.stopped
    BY <2>6, <2>7 DEF Follows, Alike, Flags
  <2>9. up'.pc = "sending" => Pointed(c)
    <3>1. up'.pc = "sending" => up.pc = "sending" /\ kind \notin {"stop", "length"}
      BY <1>4, <2>4
    <3>2. up.pc = "sending" => Pointed(br)
      BY <1>1, <2>1 DEF BridgeFollows
    <3>3. Pointed(b) => Pointed(c)
      BY <2>7 DEF Pointed, Alike
    <3> QED BY <2>6, <3>1, <3>2, <3>3
  <2>10. Leads("bridge", v, b.ev, Shown(c, FALSE))
    BY <2>6, <2>7 DEF Follows
  <2>11. Leads("bridge", Seen(view)', out', Shown(br, FALSE)')
    BY <1>1, <2>3, <2>10 DEF Seen, Shown, v
  <2> QED BY <1>1, <2>2, <2>3, <2>7, <2>8, <2>9, <2>11 DEF BridgeFollows, Pointed
<1> QED BY <1>1, <1>4, <1>5, SameView DEF MInv

\* The end of the backend's stream, with or without [DONE].
LEMMA BridgeFinalizeStep ==
    ASSUME MInv, NEW d \in BOOLEAN, BridgeFinalize(d)
    PROVE  MInv'
<1>1. /\ path = "bridge" /\ mpc = "loop" /\ out = <<>> /\ mpc' = "over"
      /\ UNCHANGED <<path, up, nat, agg, lost, view>>
  BY DEF BridgeFinalize, Ready
<1>2. up' \in UpType /\ up'.reason = up.reason
  BY <1>1 DEF MInv
<1>3. ASSUME ~lost
      PROVE  BridgeFollows'
  <2>1. BridgeFollows
    BY <1>1, <1>3 DEF MInv
  <2> DEFINE v == Seen(view)
             r == FinalizeMessage(br)
             b == FinalizeMessage(IF d THEN HandleFrame(br, "[DONE]", 0) ELSE br)
             c == [r EXCEPT !.ev = <<>>]
  <2>2. Follows(v, br) /\ br.think \in br.open \cup {None} /\ ~br.stopped
    BY <1>1, <2>1, BridgeReady
  <2>3. /\ r \in BridgeType /\ r.stopped = TRUE /\ r.next <= MaxBlocks /\ r.open \subseteq 0..r.next - 1
        /\ r.saw => r.next > 0
        /\ \/ Leads("bridge", v, r.ev, Shown(r, TRUE))
           \/ r.err /\ Leads("bridge", v, r.ev, Shown(r, FALSE))
    BY <2>2, FinalizeFollows
  <2>4. b = r
    <3>1. HandleFrame(br, "[DONE]", 0) = r
      BY DEF HandleFrame
    <3>2. FinalizeMessage(r) = r
      <4> HIDE DEF r
      <4> QED BY <2>3, FinalizeTwice
    <3> HIDE DEF r
    <3>3. CASE d
      BY <3>1, <3>2, <3>3
    <3>4. CASE ~d
      BY <3>4 DEF r
    <3> QED BY <3>3, <3>4
  <2>5. br' = [b EXCEPT !.ev = <<>>] /\ out' = b.ev
    BY DEF BridgeFinalize
  <2> HIDE DEF b, r
  <2>6. br' = c /\ out' = r.ev
    BY <2>4, <2>5
  <2>7. c \in BridgeType /\ c.ev = <<>> /\ Alike(r, c) /\ \A e : Shown(c, e) = Shown(r, e)
    BY <2>3, Cleared
  <2> HIDE DEF c, v
  <2>8. c.next <= MaxBlocks /\ c.open \subseteq 0..c.next - 1 /\ (c.saw => c.next > 0) /\ c.err = r.err
    BY <2>3, <2>7 DEF Alike, Flags
  <2>9. \/ Leads("bridge", v, r.ev, Shown(c, TRUE))
        \/ c.err /\ Leads("bridge", v, r.ev, Shown(c, FALSE))
    BY <2>3, <2>7, <2>8
  <2>10. Seen(view)' = v /\ Shown(br, TRUE)' = Shown(c, TRUE) /\ Shown(br, FALSE)' = Shown(c, FALSE)
    BY <1>1, <2>6 DEF Seen, Shown, v
  <2>11. \/ Leads("bridge", Seen(view)', out', Shown(br, TRUE)')
         \/ br'.err /\ Leads("bridge", Seen(view)', out', Shown(br, FALSE)')
    BY <2>6, <2>9, <2>10
  <2> QED BY <1>1, <2>6, <2>7, <2>8, <2>11 DEF BridgeFollows
<1> QED BY <1>1, <1>2, <1>3, SameView DEF MInv

\* An event of the upstream numbers its blocks afresh, touches only open blocks,
\* and leaves the upstream with the blocks it accounts for.
LEMMA UpEventKinds ==
    ASSUME up \in UpType, NEW u \in UpEvents
    PROVE  /\ u.e \in Frames /\ u.to \in UpType
           /\ u.e.type \in Types \ {"ping"}
           /\ u.to.open = IF u.e.type = "block_start" THEN up.open \cup {u.e.idx}
                          ELSE IF u.e.type = "block_stop" THEN up.open \ {u.e.idx} ELSE up.open
           /\ u.to.used = IF u.e.type = "block_start" THEN up.used \cup {u.e.idx} ELSE up.used
           /\ u.e.type = "block_start" => u.e.idx \in BlockIds \ up.used
           /\ u.e.type \in {"delta", "block_stop"} => u.e.idx \in up.open
           /\ u.e.type \notin {"block_start", "delta", "block_stop"} => u.e.idx = 0
           /\ u.e.type \in {"message_stop", "error"} => u.to.pc # "sending"
           /\ u.to.reason = up.reason \/ up.reason = "none"
<1>1. BlockIds \subseteq Nat /\ up.open \subseteq BlockIds /\ up.used \subseteq BlockIds
  BY MessagesAssumption DEF UpType, BlockIds
<1>2. CASE u \in {[e |-> Ev("message_start", 0), to |-> up] : x \in IF up.used = {} /\ up.pc = "sending" THEN {1} ELSE {}}
  BY <1>2 DEF Ev, Frames, Types
<1>3. CASE \E i \in BlockIds \ up.used : u = [e |-> Ev("block_start", i), to |-> [up EXCEPT !.open = @ \cup {i}, !.used = @ \cup {i}]]
  <2>1. PICK i \in BlockIds \ up.used : u = [e |-> Ev("block_start", i), to |-> [up EXCEPT !.open = @ \cup {i}, !.used = @ \cup {i}]]
    BY <1>3
  <2>2. u.e = [type |-> "block_start", idx |-> i] /\ u.to = [up EXCEPT !.open = @ \cup {i}, !.used = @ \cup {i}]
    BY <2>1 DEF Ev
  <2>3. i \in Nat /\ up.open \cup {i} \subseteq BlockIds /\ up.used \cup {i} \subseteq BlockIds
    BY <1>1
  <2>4. u.to \in UpType /\ u.to.open = up.open \cup {i} /\ u.to.used = up.used \cup {i} /\ u.to.reason = up.reason
    BY <2>2, <2>3 DEF UpType
  <2> QED BY <2>2, <2>3, <2>4 DEF Frames, Types
<1>4. CASE \E i \in up.open : u = [e |-> Ev("delta", i), to |-> up]
  <2>1. PICK i \in up.open : u = [e |-> Ev("delta", i), to |-> up]
    BY <1>4
  <2>2. u.e = [type |-> "delta", idx |-> i] /\ u.to = up /\ i \in Nat
    BY <1>1, <2>1 DEF Ev
  <2> QED BY <2>2 DEF Frames, Types
<1>5. CASE \E i \in up.open : u = [e |-> Ev("block_stop", i), to |-> [up EXCEPT !.open = @ \ {i}]]
  <2>1. PICK i \in up.open : u = [e |-> Ev("block_stop", i), to |-> [up EXCEPT !.open = @ \ {i}]]
    BY <1>5
  <2>2. u.e = [type |-> "block_stop", idx |-> i] /\ u.to = [up EXCEPT !.open = @ \ {i}]
    BY <2>1 DEF Ev
  <2>3. u.to \in UpType /\ u.to.open = up.open \ {i} /\ u.to.used = up.used /\ u.to.reason = up.reason
    BY <1>1, <2>2 DEF UpType
  <2> QED BY <1>1, <2>2, <2>3 DEF Frames, Types
<1>6. CASE \E r \in {"end_turn", "max_tokens"} : up.reason = "none" /\ u = [e |-> Ev("message_delta", 0), to |-> [up EXCEPT !.reason = r]]
  BY <1>6 DEF Ev, Frames, Types, UpType, Reasons
<1>7. CASE u = [e |-> Ev("message_stop", 0), to |-> [up EXCEPT !.pc = "finished"]]
  BY <1>7 DEF Ev, Frames, Types, UpType
<1>8. CASE u = [e |-> Ev("error", 0), to |-> [up EXCEPT !.pc = "failed"]]
  BY <1>8 DEF Ev, Frames, Types, UpType
<1> QED BY <1>2, <1>3, <1>4, <1>5, <1>6, <1>7, <1>8 DEF UpEvents

\* A step of the native loop: the events it is about to write lead on from what
\* the client has, and the upstream's reason is given once.
LEMMA NativeView ==
    ASSUME MInv, path = "native", UNCHANGED <<path, view, lost, agg>>, up' \in UpType, mpc' \in {"loop", "over"},
           nat' \in [open : SUBSET BlockIds, stop : BOOLEAN], up'.reason = up.reason \/ up.reason = "none",
           ~lost => NativeFollows'
    PROVE  MInv'
<1>1. lost' \in BOOLEAN
  <2>1. lost \in BOOLEAN /\ lost' = lost
    BY DEF MInv
  <2> QED BY <2>1, Zenon
<1>2. agg \in AggType /\ view \in ViewType /\ agg.result = "none"
  BY DEF MInv
<1>3. NoEmptyMessage' /\ TruncationIsSignalled'
  BY DEF MInv, NoEmptyMessage, TruncationIsSignalled
<1> QED BY <1>1, <1>2, <1>3 DEF MInv

\* A native loop that is ready has written what it tracks.
LEMMA NativeReady ==
    ASSUME MInv, path = "native", ~lost, out = <<>>, mpc = "loop"
    PROVE  /\ Seen(view) \in Progress /\ Leads("native", Seen(view), <<>>, Seen(view))
           /\ view.open = nat.open /\ (view.ended <=> nat.stop)
           /\ up.pc = "sending" => ~view.ended /\ up.open = view.open /\ up.used = view.used
<1>1. PICK z \in Progress :
        /\ Leads("native", Seen(view), out, z)
        /\ z.open = nat.open /\ (z.ended <=> nat.stop)
        /\ up.pc = "sending" => ~z.ended /\ up.open = z.open /\ up.used = z.used
  BY DEF MInv, NativeFollows
<1>2. z = Seen(view) /\ Seen(view) \in Progress
  BY <1>1, NothingMore
<1>3. z.open = view.open /\ z.used = view.used /\ z.ended = view.ended
  BY <1>2 DEF Seen
<1> QED BY <1>1, <1>2, <1>3, NothingLeads

\* A keepalive.
LEMMA NativePingStep ==
    ASSUME MInv, NativePing
    PROVE  MInv'
<1>1. /\ path = "native" /\ mpc = "loop" /\ out = <<>> /\ out' = <<Ev("ping", 0)>>
      /\ UNCHANGED <<path, up, br, nat, agg, mpc, lost, view>>
  BY DEF NativePing, Ready
<1>2. ASSUME ~lost
      PROVE  NativeFollows'
  <2> DEFINE e == Ev("ping", 0)
             v == Seen(view)
  <2>1. /\ v \in Progress /\ Leads("native", v, <<>>, v) /\ view.open = nat.open /\ (view.ended <=> nat.stop)
        /\ up.pc = "sending" => ~view.ended /\ up.open = view.open /\ up.used = view.used
    BY <1>1, <1>2, NativeReady
  <2>2. e \in Frames /\ e.type = "ping" /\ e.idx = 0
    BY DEF Ev, Frames, Types
  <2>3. Seen(view)' = v /\ v.open = view.open /\ v.used = view.used /\ v.ended = view.ended
    BY <1>1 DEF Seen
  <2>4. out' = Append(<<>>, e)
    BY <1>1
  <2> HIDE DEF e, v
  <2>5. After(v, e) = v
    BY <2>1, <2>2 DEF After, Progress
  <2>6. Allowed("native", v, e)
    BY <2>2 DEF Allowed
  <2>7. Leads("native", v, out', v)
    BY <2>1, <2>4, <2>5, <2>6, OneMore
  <2> QED BY <1>1, <2>1, <2>3, <2>7 DEF NativeFollows
<1>3. up \in UpType /\ nat \in [open : SUBSET BlockIds, stop : BOOLEAN]
  BY DEF MInv
<1> QED BY <1>1, <1>2, <1>3, NativeView

\* An event of the upstream, with the stops of the blocks it left open when it is
\* the last one.
LEMMA NativeEventStep ==
    ASSUME MInv, NativeEvent
    PROVE  MInv'
<1>1. /\ path = "native" /\ mpc = "loop" /\ out = <<>> /\ up.pc = "sending"
      /\ UNCHANGED <<path, br, agg, mpc, lost, view>>
  BY DEF NativeEvent, Ready
<1>2. PICK u \in UpEvents :
        /\ u.e.type = "message_start" => ~view.started
        /\ out' = NativeWrites(u.e) /\ nat' = NativeTracks(u.e) /\ up' = u.to
  BY DEF NativeEvent
<1> DEFINE e == u.e
           v == Seen(view)
<1>3. up \in UpType /\ nat \in [open : SUBSET BlockIds, stop : BOOLEAN]
  BY DEF MInv
<1>4. /\ e \in Frames /\ up' \in UpType
      /\ e.type \in Types \ {"ping"}
      /\ up'.open = IF e.type = "block_start" THEN up.open \cup {e.idx}
                    ELSE IF e.type = "block_stop" THEN up.open \ {e.idx} ELSE up.open
      /\ up'.used = IF e.type = "block_start" THEN up.used \cup {e.idx} ELSE up.used
      /\ e.type = "block_start" => e.idx \in BlockIds \ up.used
      /\ e.type \in {"delta", "block_stop"} => e.idx \in up.open
      /\ e.type \notin {"block_start", "delta", "block_stop"} => e.idx = 0
      /\ e.type \in {"message_stop", "error"} => up'.pc # "sending"
      /\ up'.reason = up.reason \/ up.reason = "none"
  BY <1>2, <1>3, UpEventKinds
<1>5. nat' = NativeTracks(e) /\ out' = NativeWrites(e)
  BY <1>2
<1>6. e.type = "message_start" => ~view.started
  BY <1>2
<1> HIDE DEF e
<1>7. /\ nat' \in [open : SUBSET BlockIds, stop : BOOLEAN]
      /\ nat'.stop = (nat.stop \/ e.type = "message_stop")
      /\ nat'.open = IF e.type = "message_stop" THEN {}
                     ELSE IF e.type = "block_start" THEN nat.open \cup {e.idx}
                     ELSE IF e.type = "block_stop" THEN nat.open \ {e.idx} ELSE nat.open
  BY <1>3, <1>4, <1>5 DEF NativeTracks
<1>8. ASSUME ~lost
      PROVE  NativeFollows'
  <2>1. /\ v \in Progress /\ Leads("native", v, <<>>, v) /\ view.open = nat.open /\ (view.ended <=> nat.stop)
        /\ ~view.ended /\ up.open = view.open /\ up.used = view.used
    BY <1>1, <1>8, NativeReady
  <2>2. Seen(view)' = v
    BY <1>1 DEF Seen
  <2>3. v.started = view.started /\ v.open = view.open /\ v.used = view.used /\ v.ended = view.ended
    BY DEF Seen
  <2> HIDE DEF v
  <2>4. CASE e.type = "message_stop"
    <3> DEFINE c == [v EXCEPT !.open = {}]
    <3>1. Leads("native", v, Stops(v.open), c) /\ c \in Progress
      BY <2>1, <2>3, StopsLead
    <3>2. c.started = v.started /\ c.open = {} /\ c.used = v.used /\ c.ended = v.ended
      BY <2>1 DEF Progress
    <3> HIDE DEF c
    <3>3. Allowed("native", c, e)
      BY <1>4, <2>1, <2>3, <2>4, <3>2 DEF Allowed
    <3>4. out' = Stops(v.open) \o <<e>>
      BY <1>5, <2>1, <2>3, <2>4 DEF NativeWrites
    <3> DEFINE x == After(c, e)
    <3>5. Leads("native", c, <<e>>, x) /\ x \in Progress
      <4>1. Leads("native", c, <<>>, c)
        BY <3>1, NothingLeads
      <4>2. Append(<<>>, e) = <<e>>
        OBVIOUS
      <4> QED BY <3>3, <4>1, <4>2, OneMore
    <3>6. x.open = {} /\ x.ended = TRUE
      BY <2>4, <3>2 DEF After
    <3> HIDE DEF x
    <3>7. Leads("native", v, out', x)
      BY <3>1, <3>4, <3>5, Joined
    <3>8. nat'.open = {} /\ nat'.stop = TRUE /\ up'.pc # "sending" /\ mpc' = "loop"
      BY <1>1, <1>4, <1>7, <2>4
    <3> QED BY <2>2, <3>5, <3>6, <3>7, <3>8 DEF NativeFollows
  <2>5. CASE e.type # "message_stop"
    <3>1. Allowed("native", v, e)
      BY <1>4, <1>6, <2>1, <2>3, <2>5 DEF Allowed, Types
    <3>2. out' = Append(<<>>, e)
      BY <1>5, <2>5 DEF NativeWrites
    <3> DEFINE x == After(v, e)
    <3>3. Leads("native", v, out', x) /\ x \in Progress
      BY <2>1, <3>1, <3>2, OneMore
    <3>4. /\ x.open = IF e.type = "block_start" THEN v.open \cup {e.idx}
                      ELSE IF e.type = "block_stop" THEN v.open \ {e.idx} ELSE v.open
          /\ x.used = IF e.type = "block_start" THEN v.used \cup {e.idx} ELSE v.used
          /\ x.ended = (v.ended \/ e.type = "message_stop")
      BY DEF After
    <3> HIDE DEF x
    <3>5. x.open = nat'.open /\ (x.ended <=> nat'.stop) /\ ~x.ended /\ up'.open = x.open /\ up'.used = x.used
      BY <1>4, <1>7, <2>1, <2>3, <2>5, <3>4
    <3> QED BY <1>1, <2>2, <3>3, <3>5 DEF NativeFollows
  <2> QED BY <2>4, <2>5
<1> QED BY <1>1, <1>4, <1>7, <1>8, NativeView

\* The upstream breaks off: its open blocks are closed and the message ends,
\* unless it had ended.
LEMMA NativeEndsStep ==
    ASSUME MInv, NativeEnds
    PROVE  MInv'
<1>1. /\ path = "native" /\ mpc = "loop" /\ out = <<>> /\ mpc' = "over"
      /\ out' = IF nat.stop THEN <<>> ELSE Synthesized
      /\ UNCHANGED <<path, up, br, nat, agg, lost, view>>
  BY DEF NativeEnds, Ready
<1>2. ASSUME ~lost
      PROVE  NativeFollows'
  <2> DEFINE v == Seen(view)
  <2>1. /\ v \in Progress /\ Leads("native", v, <<>>, v) /\ view.open = nat.open /\ (view.ended <=> nat.stop)
    BY <1>1, <1>2, NativeReady
  <2>2. Seen(view)' = v /\ v.started = view.started /\ v.open = view.open /\ v.used = view.used /\ v.ended = view.ended
    BY <1>1 DEF Seen
  <2> HIDE DEF v
  <2>3. CASE nat.stop
    BY <1>1, <2>1, <2>2, <2>3 DEF NativeFollows
  <2>4. CASE ~nat.stop
    <3> DEFINE c == [v EXCEPT !.open = {}]
               e == Ev("message_delta", 0)
               f == Ev("message_stop", 0)
               s == Stops(v.open)
    <3>1. Leads("native", v, s, c) /\ c \in Progress
      BY <2>1, <2>2, <2>4, StopsLead
    <3>2. c.open = {} /\ c.ended = v.ended /\ c.started = v.started /\ c.used = v.used
      BY <2>1 DEF Progress
    <3>3. /\ e \in Frames /\ e.type = "message_delta" /\ e.idx = 0
          /\ f \in Frames /\ f.type = "message_stop" /\ f.idx = 0
      BY DEF Ev, Frames, Types
    <3>4. out' = s \o <<e, f>>
      BY <1>1, <2>1, <2>2, <2>4 DEF Synthesized
    <3> HIDE DEF c, e, f, s
    <3> DEFINE x == After(c, e)
               y == After(x, f)
    <3>5. Allowed("native", c, e)
      BY <2>1, <2>2, <2>4, <3>2, <3>3 DEF Allowed
    <3>6. Leads("native", c, <<e>>, x) /\ x \in Progress
      <4>1. Leads("native", c, <<>>, c)
        BY <3>1, NothingLeads
      <4>2. Append(<<>>, e) = <<e>>
        OBVIOUS
      <4> QED BY <3>5, <4>1, <4>2, OneMore
    <3>7. x.open = {} /\ x.ended = c.ended
      BY <3>1, <3>2, <3>3 DEF After, Progress
    <3> HIDE DEF x
    <3>8. Allowed("native", x, f)
      BY <2>1, <2>2, <2>4, <3>2, <3>3, <3>7 DEF Allowed
    <3>9. Leads("native", c, <<e, f>>, y) /\ y \in Progress
      <4>1. Append(<<e>>, f) = <<e, f>>
        <5>1. <<e>> \in Seq(Frames) /\ <<e, f>> \in Seq(Frames)
          BY <3>3
        <5>2. /\ Append(<<e>>, f) \in Seq(Frames) /\ Len(Append(<<e>>, f)) = 2
              /\ Append(<<e>>, f)[1] = e /\ Append(<<e>>, f)[2] = f
          BY <3>3, <5>1, AppendProperties
        <5>3. Len(<<e, f>>) = 2 /\ <<e, f>>[1] = e /\ <<e, f>>[2] = f
          OBVIOUS
        <5>4. \A i \in 1..2 : i = 1 \/ i = 2
          OBVIOUS
        <5> QED BY <5>1, <5>2, <5>3, <5>4, SeqEqual
      <4> QED BY <3>6, <3>8, <4>1, OneMore
    <3>10. y.ended = TRUE
      BY <3>3 DEF After
    <3> HIDE DEF y
    <3>11. Leads("native", v, out', y)
      BY <3>1, <3>4, <3>9, Joined
    <3> QED BY <1>1, <2>2, <3>9, <3>10, <3>11 DEF NativeFollows
  <2> QED BY <2>3, <2>4
<1>3. up \in UpType /\ nat \in [open : SUBSET BlockIds, stop : BOOLEAN]
  BY DEF MInv
<1> QED BY <1>1, <1>2, <1>3, NativeView

\* The aggregate takes every block the upstream starts.
LEMMA AggregateStep ==
    ASSUME MInv, AggregateEvent \/ (\E c \in BOOLEAN : AggregateEnds(c))
    PROVE  MInv'
<1>1. path = "aggregate" /\ out = <<>> /\ UNCHANGED <<path, br, nat, out, lost, view>> /\ mpc' \in {"loop", "over"}
  BY DEF AggregateEvent, AggregateEnds, Ready
<1>2. up \in UpType /\ agg \in AggType /\ agg.blocks = up.used
  BY <1>1 DEF MInv
<1>3. up' \in UpType /\ agg' \in AggType /\ agg'.blocks = up'.used
  <2>1. CASE AggregateEvent
    <3>1. PICK u \in UpEvents :
            /\ up' = u.to
            /\ agg' = CASE u.e.type = "block_start" -> [agg EXCEPT !.blocks = @ \cup {u.e.idx}]
                        [] u.e.type = "message_delta" -> [agg EXCEPT !.reason = u.to.reason]
                        [] u.e.type = "message_stop" -> [agg EXCEPT !.result = "message"]
                        [] u.e.type = "error" -> [agg EXCEPT !.result = "error"]
                        [] OTHER -> agg
      BY <2>1 DEF AggregateEvent
    <3> DEFINE e == u.e
    <3>2. /\ up' \in UpType /\ up'.reason \in Reasons
          /\ up'.used = IF e.type = "block_start" THEN up.used \cup {e.idx} ELSE up.used
          /\ e.type = "block_start" => e.idx \in BlockIds
      BY <1>2, <3>1, UpEventKinds DEF UpType
    <3>3. agg' = CASE e.type = "block_start" -> [agg EXCEPT !.blocks = @ \cup {e.idx}]
                   [] e.type = "message_delta" -> [agg EXCEPT !.reason = up'.reason]
                   [] e.type = "message_stop" -> [agg EXCEPT !.result = "message"]
                   [] e.type = "error" -> [agg EXCEPT !.result = "error"]
                   [] OTHER -> agg
      BY <3>1
    <3> HIDE DEF e
    <3>4. CASE e.type = "block_start"
      <4>1. agg' = [agg EXCEPT !.blocks = @ \cup {e.idx}]
        BY <3>3, <3>4
      <4>2. agg.blocks \cup {e.idx} \in SUBSET BlockIds
        BY <1>2, <3>2, <3>4 DEF AggType
      <4> QED BY <1>2, <3>2, <3>4, <4>1, <4>2 DEF AggType
    <3>5. CASE e.type # "block_start"
      BY <1>2, <3>2, <3>3, <3>5 DEF AggType
    <3> QED BY <3>4, <3>5
  <2>2. CASE \E c \in BOOLEAN : AggregateEnds(c)
    BY <1>2, <2>2 DEF AggregateEnds, AggType, Reasons
  <2> QED BY <2>1, <2>2
<1>4. lost' \in BOOLEAN
  <2>1. lost \in BOOLEAN /\ lost' = lost
    BY <1>1 DEF MInv
  <2> QED BY <2>1, Zenon
<1>5. view \in ViewType /\ nat \in [open : SUBSET BlockIds, stop : BOOLEAN]
  BY DEF MInv
<1>6. NoEmptyMessage' /\ TruncationIsSignalled'
  BY <1>1 DEF NoEmptyMessage, TruncationIsSignalled
<1> QED BY <1>1, <1>3, <1>4, <1>5, <1>6 DEF MInv

\* A write that fails: nothing more is promised to the client.
LEMMA WriteFailsStep ==
    ASSUME MInv, WriteFails
    PROVE  MInv'
<1>1. /\ out # <<>> /\ lost' = TRUE /\ out' = <<>> /\ mpc' \in {"loop", "over"}
      /\ UNCHANGED <<path, up, br, nat, agg, view>>
  BY DEF WriteFails, MInv
<1>2. path # "aggregate"
  BY <1>1 DEF MInv
<1>3. NoEmptyMessage' /\ TruncationIsSignalled'
  BY <1>1 DEF MInv, NoEmptyMessage, TruncationIsSignalled
<1>4. lost' \in BOOLEAN /\ lost'
  BY <1>1, Zenon
<1> QED BY <1>1, <1>2, <1>3, <1>4 DEF MInv

\* The next event of a message: the protocol allows it, and the client's view
\* moves as the protocol says.
LEMMA ForwardMoves ==
    ASSUME MInv, Forward
    PROVE  /\ path \in {"bridge", "native"} /\ Allowed(path, Seen(view), Head(out))
           /\ Seen(view)' = After(Seen(view), Head(out))
           /\ view'.last = Head(out) /\ view'.beat = 1 - view.beat
           /\ view' \in ViewType
           /\ view'.reason = IF Head(out).type = "message_delta" THEN ReasonWritten ELSE view.reason
           /\ \A z : Leads(path, Seen(view), out, z) => Leads(path, Seen(view)', out', z)
<1> DEFINE e == Head(out)
           v == Seen(view)
<1>1. out # <<>> /\ ~lost /\ out' = Tail(out) /\ UNCHANGED <<path, up, br, nat, agg, mpc, lost>>
  BY DEF Forward
<1>2. path \in {"bridge", "native"} /\ view \in ViewType /\ up \in UpType
  BY <1>1 DEF MInv
<1>3. \E z : Leads(path, v, out, z)
  <2>1. CASE path = "bridge"
    BY <1>1, <2>1 DEF MInv, BridgeFollows
  <2>2. CASE path = "native"
    BY <1>1, <2>2 DEF MInv, NativeFollows
  <2> QED BY <1>2, <2>1, <2>2
<1>4. /\ v \in Progress /\ Allowed(path, v, e)
      /\ \A z : Leads(path, v, out, z) => Leads(path, After(v, e), out', z)
  BY <1>1, <1>3, OneWritten
<1>5. view' = [view EXCEPT !.started = @ \/ e.type = "message_start",
                           !.open = IF e.type = "block_start" THEN @ \cup {e.idx} ELSE IF e.type = "block_stop" THEN @ \ {e.idx} ELSE @,
                           !.used = IF e.type = "block_start" THEN @ \cup {e.idx} ELSE @,
                           !.ended = @ \/ e.type = "message_stop",
                           !.last = e, !.beat = 1 - @,
                           !.reason = IF e.type = "message_delta" THEN ReasonWritten ELSE @]
  BY DEF Forward
<1> HIDE DEF e
<1> DEFINE x == After(v, e)
<1>6. x \in Progress /\ v.started = view.started /\ v.open = view.open /\ v.used = view.used /\ v.ended = view.ended
  BY <1>4, AfterType DEF Seen
<1> HIDE DEF v
<1>7. /\ x.started = (view.started \/ e.type = "message_start")
      /\ x.open = (IF e.type = "block_start" THEN view.open \cup {e.idx} ELSE IF e.type = "block_stop" THEN view.open \ {e.idx} ELSE view.open)
      /\ x.used = (IF e.type = "block_start" THEN view.used \cup {e.idx} ELSE view.used)
      /\ x.ended = (view.ended \/ e.type = "message_stop")
      /\ x = [started |-> x.started, open |-> x.open, used |-> x.used, ended |-> x.ended]
  BY <1>6 DEF After
<1> HIDE DEF x
<1>8. ReasonWritten \in Reasons
  <2>1. path = "bridge" => br.reason \in Reasons
    BY <1>1 DEF MInv, BridgeFollows, BridgeType
  <2> QED BY <1>2, <2>1 DEF ReasonWritten, Reasons, UpType
<1>9. e \in Frames
  BY <1>4 DEF Allowed
<1> DEFINE r == IF e.type = "message_delta" THEN ReasonWritten ELSE view.reason
<1>10. r \in Reasons
  BY <1>2, <1>8 DEF ViewType
<1>11. view' = [view EXCEPT !.started = x.started, !.open = x.open, !.used = x.used, !.ended = x.ended,
                            !.last = e, !.beat = 1 - view.beat, !.reason = r]
  BY <1>5, <1>7
<1> HIDE DEF r
<1>12. 1 - view.beat \in {0, 1}
  BY <1>2 DEF ViewType
<1>13. /\ view' \in ViewType /\ view'.started = x.started /\ view'.open = x.open /\ view'.used = x.used
       /\ view'.ended = x.ended /\ view'.last = e /\ view'.beat = 1 - view.beat /\ view'.reason = r
  BY <1>2, <1>6, <1>9, <1>10, <1>11, <1>12 DEF ViewType, Progress
<1>14. Seen(view)' = x
  BY <1>7, <1>13 DEF Seen
<1> QED BY <1>2, <1>4, <1>13, <1>14 DEF e, v, x, r

\* An event is written.
LEMMA ForwardStep ==
    ASSUME MInv, Forward
    PROVE  MInv'
<1> DEFINE e == Head(out)
           v == Seen(view)
<1>1. out # <<>> /\ ~lost /\ UNCHANGED <<path, up, br, nat, agg, mpc, lost>>
  BY DEF Forward
<1>2. /\ path \in {"bridge", "native"} /\ Allowed(path, v, e) /\ Seen(view)' = After(v, e) /\ view' \in ViewType
      /\ view'.reason = IF e.type = "message_delta" THEN ReasonWritten ELSE view.reason
      /\ \A z : Leads(path, v, out, z) => Leads(path, Seen(view)', out', z)
  BY ForwardMoves
<1> HIDE DEF e
<1>3. path = "bridge" => BridgeFollows'
  <2> SUFFICES ASSUME path = "bridge"
               PROVE  BridgeFollows'
    OBVIOUS
  <2>1. BridgeFollows
    BY <1>1 DEF MInv
  <2>2. Shown(br, TRUE)' = Shown(br, TRUE) /\ Shown(br, FALSE)' = Shown(br, FALSE) /\ (Pointed(br) => Pointed(br)')
    BY <1>1 DEF Shown, Pointed
  <2>3. \/ mpc' = "loop" /\ ~br'.stopped /\ Leads("bridge", Seen(view)', out', Shown(br, FALSE)')
        \/ mpc' = "over" /\ Leads("bridge", Seen(view)', out', Shown(br, TRUE)')
        \/ mpc' = "over" /\ br'.err /\ Leads("bridge", Seen(view)', out', Shown(br, FALSE)')
    BY <1>1, <1>2, <2>1, <2>2 DEF BridgeFollows
  <2> QED BY <1>1, <2>1, <2>2, <2>3 DEF BridgeFollows
<1>4. path = "native" => NativeFollows'
  BY <1>1, <1>2 DEF MInv, NativeFollows
<1>5. v.used = view.used /\ v.ended = view.ended
  BY DEF Seen
<1> HIDE DEF v
<1> DEFINE x == After(v, e)
<1>5a. view'.used = x.used /\ view'.ended = x.ended
  <2> HIDE DEF x
  <2>1. Seen(view') = x
    BY <1>2 DEF x, Seen
  <2> QED BY <2>1 DEF Seen
<1>6. NoEmptyMessage'
  <2> SUFFICES ASSUME path = "bridge", view'.ended
               PROVE  view'.used # {}
    BY <1>1 DEF NoEmptyMessage
  <2>1. view'.ended = (v.ended \/ e.type = "message_stop") /\ v.used \subseteq view'.used
    <3>1. x.ended = (v.ended \/ e.type = "message_stop") /\ v.used \subseteq x.used
      BY DEF After
    <3> HIDE DEF x
    <3> QED BY <1>5a, <3>1
  <2>2. v.ended => v.used # {}
    BY <1>5 DEF MInv, NoEmptyMessage
  <2>3. e.type = "message_stop" => v.used # {}
    BY <1>2 DEF Allowed
  <2> QED BY <2>1, <2>2, <2>3
<1>7. TruncationIsSignalled'
  <2> SUFFICES ASSUME path = "native", view'.reason = "end_turn"
               PROVE  up.reason = "end_turn"
    BY <1>1 DEF TruncationIsSignalled
  <2>1. view.reason = "end_turn" => up.reason = "end_turn"
    BY DEF MInv, TruncationIsSignalled
  <2>2. ReasonWritten = "end_turn" => up.reason = "end_turn"
    BY DEF ReasonWritten
  <2> QED BY <1>2, <2>1, <2>2
<1>8. lost' \in BOOLEAN
  <2>1. lost \in BOOLEAN /\ lost' = lost
    BY <1>1 DEF MInv
  <2> QED BY <2>1, Zenon
<1>9. mpc \in {"loop", "over"} /\ up \in UpType /\ agg \in AggType /\ nat \in [open : SUBSET BlockIds, stop : BOOLEAN] /\ agg.result = "none"
  BY <1>2 DEF MInv
<1> QED BY <1>1, <1>2, <1>3, <1>4, <1>6, <1>7, <1>8, <1>9 DEF MInv

----------------------------------------------------------------------------
(* The theorems. *)

\* The empty message follows from nothing.
LEMMA MsgInitMInv == MsgInit => MInv
<1> SUFFICES ASSUME MsgInit
             PROVE  MInv
  OBVIOUS
<1>1. /\ path \in {"bridge", "native", "aggregate"} /\ out = <<>> /\ mpc = "loop" /\ lost = FALSE
      /\ up = [pc |-> "sending", open |-> {}, used |-> {}, reason |-> "none"]
      /\ br = NewBridge /\ nat = [open |-> {}, stop |-> FALSE] /\ agg = [blocks |-> {}, result |-> "none", reason |-> "none"]
      /\ view = NewView
  BY DEF MsgInit
<1>2. lost \in BOOLEAN
  BY <1>1
<1>3. up \in UpType /\ agg \in AggType /\ nat \in [open : SUBSET BlockIds, stop : BOOLEAN]
  BY <1>1 DEF UpType, AggType, Reasons
<1>4. view \in ViewType /\ view.started = FALSE /\ view.open = {} /\ view.used = {} /\ view.ended = FALSE /\ view.reason = "none"
  BY <1>1 DEF NewView, ViewType, Reasons
<1> DEFINE v == Seen(view)
<1>5. v = [started |-> FALSE, open |-> {}, used |-> {}, ended |-> FALSE] /\ v \in Progress
  BY <1>4 DEF Seen, Progress
<1>6. \A p : Leads(p, v, out, v)
  BY <1>1, <1>5, NothingLeads
<1> HIDE DEF v
<1>7. BridgeFollows
  <2>1. <<>> \in Seq(Frames) /\ [k \in ToolCalls |-> None] \in [ToolCalls -> Int] /\ None \in Int
    BY EmptySeq DEF None
  <2>2. /\ br \in BridgeType /\ br.ev = <<>> /\ br.next = 0 /\ br.open = {} /\ br.saw = FALSE /\ br.started = FALSE
        /\ br.think = None /\ br.text = None /\ br.tools = [k \in ToolCalls |-> None] /\ br.stopped = FALSE
    BY <1>1, <2>1 DEF NewBridge, BridgeType, Reasons
  <2>3. br.next <= MaxBlocks
    BY <2>2, MessagesAssumption
  <2>4. Pointed(br)
    BY <2>2 DEF Pointed
  <2>5. Shown(br, FALSE) = v
    <3>1. 0..br.next - 1 = {}
      BY <2>2
    <3> QED BY <1>5, <2>2, <3>1 DEF Shown
  <2> QED BY <1>1, <1>6, <2>2, <2>3, <2>4, <2>5 DEF BridgeFollows, v
<1>8. NativeFollows
  <2>1. v.open = {} /\ v.used = {} /\ v.ended = FALSE
    BY <1>5
  <2> QED BY <1>1, <1>5, <1>6, <2>1 DEF NativeFollows, v
<1>9. NoEmptyMessage /\ TruncationIsSignalled
  BY <1>4 DEF NoEmptyMessage, TruncationIsSignalled
<1> QED BY <1>1, <1>2, <1>3, <1>4, <1>7, <1>8, <1>9 DEF MInv

\* Every step of the three ways keeps the invariant.
LEMMA MsgNextMInv ==
    ASSUME MInv, [MsgNext]_msgVars
    PROVE  MInv'
<1>1. CASE \E kind \in Kinds : BridgeFrame(kind, 0)
  <2>1. PICK kind \in Kinds : BridgeFrame(kind, 0)
    BY <1>1
  <2>2. kind \in Kinds \cup {"tool"} /\ (kind = "tool" => 0 \in ToolCalls)
    BY DEF Kinds
  <2> QED BY <2>1, <2>2, BridgeFrameStep
<1>2. CASE \E k \in ToolCalls : BridgeFrame("tool", k)
  <2>1. PICK k \in ToolCalls : BridgeFrame("tool", k)
    BY <1>2
  <2>2. "tool" \in Kinds \cup {"tool"}
    OBVIOUS
  <2> QED BY <2>1, <2>2, BridgeFrameStep
<1>3. CASE \E d \in BOOLEAN : BridgeFinalize(d)
  BY <1>3, BridgeFinalizeStep
<1>4. CASE NativeEvent \/ NativePing \/ NativeEnds
  BY <1>4, NativeEventStep, NativePingStep, NativeEndsStep
<1>5. CASE AggregateEvent \/ (\E c \in BOOLEAN : AggregateEnds(c))
  BY <1>5, AggregateStep
<1>6. CASE Forward \/ WriteFails
  BY <1>6, ForwardStep, WriteFailsStep
<1>7. CASE UNCHANGED msgVars
  <2>1. /\ path' = path /\ up' = up /\ br' = br /\ nat' = nat /\ agg' = agg /\ out' = out /\ mpc' = mpc
        /\ lost' = lost /\ view' = view
    BY <1>7 DEF msgVars
  <2>2. BridgeFollows' = BridgeFollows /\ NativeFollows' = NativeFollows
    BY <2>1 DEF BridgeFollows, NativeFollows, Pointed, Shown, Seen
  <2>3. NoEmptyMessage' = NoEmptyMessage /\ TruncationIsSignalled' = TruncationIsSignalled
    BY <2>1 DEF NoEmptyMessage, TruncationIsSignalled
  <2>4. lost' \in BOOLEAN
    <3>1. lost \in BOOLEAN
      BY DEF MInv
    <3> QED BY <2>1, <3>1, Zenon
  <2> QED BY <2>1, <2>2, <2>3, <2>4 DEF MInv
<1> QED BY <1>1, <1>2, <1>3, <1>4, <1>5, <1>6, <1>7 DEF MsgNext

\* On each of the three ways, what the client has and what is still to be written
\* add up to a message of the protocol.
THEOREM MessageInvariant == MsgSpec => []MInv
BY MsgInitMInv, MsgNextMInv, PTL DEF MsgSpec

\* The answer ends, is not empty, holds every block the upstream sent and says
\* when it was cut, whatever the upstream does and however many blocks it has.
THEOREM MessageIsSound == MsgSpec => []MessageSound
<1>1. MInv => MessageSound
  <2> SUFFICES ASSUME MInv
               PROVE  MessageSound
    OBVIOUS
  <2>1. TerminalDelivered
    <3> SUFFICES ASSUME path \in {"bridge", "native"}, mpc = "over", out = <<>>, ~lost,
                        ~(path = "bridge" /\ br.err)
                 PROVE  view.ended
      BY DEF TerminalDelivered
    <3>1. CASE path = "bridge"
      <4>1. Leads("bridge", Seen(view), <<>>, Shown(br, TRUE))
        BY <3>1 DEF MInv, BridgeFollows
      <4>2. Shown(br, TRUE) = Seen(view)
        BY <4>1, NothingMore
      <4>3. Shown(br, TRUE).ended = TRUE /\ Seen(view).ended = view.ended
        BY DEF Shown, Seen
      <4> QED BY <4>2, <4>3
    <3>2. CASE path = "native"
      <4>1. PICK z \in Progress : Leads("native", Seen(view), <<>>, z) /\ z.ended
        BY <3>2 DEF MInv, NativeFollows
      <4>2. z = Seen(view)
        BY <4>1, NothingMore
      <4>3. z.ended = view.ended
        BY <4>2 DEF Seen
      <4> QED BY <4>1, <4>3
    <3> QED BY <3>1, <3>2
  <2>2. NothingAggregatedAway
    BY DEF MInv, NothingAggregatedAway
  <2> QED BY <2>1, <2>2 DEF MInv, MessageSound
<1> QED BY <1>1, MessageInvariant, PTL

\* The refinement: event by event, what the client receives is a message of the
\* protocol.
THEOREM MessagesImplementProtocol == MsgSpec => ImplementsProtocol
<1>1. MsgInit => Protocol!ProtocolInit
  BY DEF MsgInit, NewView, Ev, Protocol!ProtocolInit
<1>2. MInv /\ [MsgNext]_msgVars => [Protocol!ProtocolNext]_(Protocol!protocolVars)
  <2> SUFFICES ASSUME MInv, [MsgNext]_msgVars, view' # view
               PROVE  Protocol!ProtocolNext
    BY DEF Protocol!protocolVars
  <2>1. Forward
    BY DEF MsgNext, msgVars, BridgeFrame, BridgeFinalize, NativeEvent, NativePing, NativeEnds, AggregateEvent,
           AggregateEnds, WriteFails
  <2> DEFINE e == Head(out)
             v == Seen(view)
             x == After(v, e)
  <2>2. /\ Allowed(path, v, e) /\ Seen(view)' = x /\ view'.last = e /\ view'.beat = 1 - view.beat /\ view' \in ViewType
    BY <2>1, ForwardMoves
  <2> HIDE DEF e
  <2>3. v.started = view.started /\ v.open = view.open /\ v.used = view.used /\ v.ended = view.ended
    BY DEF Seen
  <2>4. view.started \in BOOLEAN /\ view.ended \in BOOLEAN /\ view.open \subseteq BlockIds /\ view.used \subseteq BlockIds
    BY DEF MInv, ViewType
  <2> HIDE DEF v
  <2>5. /\ x.started = (v.started \/ e.type = "message_start")
        /\ x.open = (IF e.type = "block_start" THEN v.open \cup {e.idx} ELSE IF e.type = "block_stop" THEN v.open \ {e.idx} ELSE v.open)
        /\ x.used = (IF e.type = "block_start" THEN v.used \cup {e.idx} ELSE v.used)
        /\ x.ended = (v.ended \/ e.type = "message_stop")
    BY DEF After
  <2> HIDE DEF x
  <2>6. view'.started = x.started /\ view'.open = x.open /\ view'.used = x.used /\ view'.ended = x.ended
    <3>1. Seen(view') = x
      BY <2>2 DEF Seen
    <3> QED BY <3>1 DEF Seen
  <2>7. e = [type |-> e.type, idx |-> e.idx]
    BY <2>2 DEF Allowed, Frames
  <2>8. Protocol!Event(e.type, e.idx)
    BY <2>2, <2>7 DEF Protocol!Event
  <2>9. CASE e.type \in {"ping", "error"} /\ e.idx = 0
    BY <2>3, <2>4, <2>5, <2>6, <2>8, <2>9 DEF Protocol!ProtocolNext, Protocol!Notice
  <2>10. CASE e.type = "message_start" /\ ~v.ended /\ ~v.started /\ e.idx = 0
    BY <2>3, <2>4, <2>5, <2>6, <2>8, <2>10 DEF Protocol!ProtocolNext, Protocol!MessageStart
  <2>11. CASE e.type = "block_start" /\ ~v.ended /\ e.idx \in BlockIds /\ e.idx \notin v.used
    <3>1. Protocol!BlockStart(e.idx)
      BY <2>3, <2>4, <2>5, <2>6, <2>8, <2>11 DEF Protocol!BlockStart
    <3> QED BY <2>11, <3>1 DEF Protocol!ProtocolNext
  <2>12. CASE e.type = "delta" /\ ~v.ended /\ e.idx \in v.open
    <3>1. Protocol!BlockDelta(e.idx)
      BY <2>3, <2>4, <2>5, <2>6, <2>8, <2>12 DEF Protocol!BlockDelta
    <3> QED BY <2>3, <2>4, <2>12, <3>1 DEF Protocol!ProtocolNext
  <2>13. CASE e.type = "block_stop" /\ ~v.ended /\ e.idx \in v.open
    <3>1. Protocol!BlockStop(e.idx)
      BY <2>3, <2>4, <2>5, <2>6, <2>8, <2>13 DEF Protocol!BlockStop
    <3> QED BY <2>3, <2>4, <2>13, <3>1 DEF Protocol!ProtocolNext
  <2>14. CASE e.type = "message_delta" /\ ~v.ended /\ e.idx = 0
    BY <2>3, <2>4, <2>5, <2>6, <2>8, <2>14 DEF Protocol!ProtocolNext, Protocol!MessageDelta
  <2>15. CASE e.type = "message_stop" /\ ~v.ended /\ v.open = {} /\ e.idx = 0
    BY <2>3, <2>4, <2>5, <2>6, <2>8, <2>15 DEF Protocol!ProtocolNext, Protocol!MessageStop
  <2> QED BY <2>2, <2>9, <2>10, <2>11, <2>12, <2>13, <2>14, <2>15 DEF Allowed
<1> QED BY <1>1, <1>2, MessageInvariant, PTL DEF MsgSpec, ImplementsProtocol, Protocol!ProtocolSpec

-----------------------------------------------------------------------------
(* Resumable streams                                                         *)

\* A replay has the fields of NewReplay.
IsReplay(x) == DOMAIN x = {"pc", "of", "afterSeq", "batch", "timer", "gone"}

\* Replays read entries that exist.
WellFormed ==
    /\ replay = [r \in Readers |-> replay[r]]
    /\ entry = [p \in Streams |-> entry[p]]
    /\ \A r \in Readers : IsReplay(replay[r])
    /\ \A r \in Readers : replay[r].pc # "idle" => replay[r].of \in Streams
    /\ \A s \in DOMAIN buffers : buffers[s] \in Streams

\* The inductive invariant of the wakeups.
WInv == WellFormed /\ NoMissedBroadcast

\* What a replay that sleeps after a step did in it, or before.
LEMMA SleepersUndisturbed ==
    ASSUME WInv, NEW r \in Readers, replay'[r].pc = "waiting",
           replay[r].pc = "waiting", replay'[r].of = replay[r].of,
           replay'[r].afterSeq = replay[r].afterSeq, entry'[replay[r].of] = entry[replay[r].of]
    PROVE  ~ Pending(r)'
BY DEF WInv, NoMissedBroadcast, Pending

\* A Broadcast with a change of p's entry only.
LEMMA BroadcastStep ==
    ASSUME WInv, NEW p \in Streams, NEW e, Broadcast(p), entry' = [entry EXCEPT ![p] = e],
           UNCHANGED buffers
    PROVE  WInv'
<1>1. \A q \in Streams : q # p => entry'[q] = entry[q]
  BY DEF WInv, WellFormed
<1>2. entry' = [q \in Streams |-> entry'[q]]
  BY DEF WInv, WellFormed
<1>3. replay' = [r \in Readers |-> replay'[r]]
  BY DEF Broadcast
<1>4. ASSUME NEW r \in Readers
      PROVE  /\ IsReplay(replay'[r]) /\ replay'[r].of = replay[r].of
             /\ replay'[r].afterSeq = replay[r].afterSeq
             /\ replay[r].pc = "idle" => replay'[r].pc = "idle"
             /\ replay'[r].pc = "waiting" => replay[r].pc = "waiting" /\ replay[r].of # p
  <2>1. IsReplay(replay[r])
    BY DEF WInv, WellFormed
  <2>2. CASE replay[r].of = p /\ replay[r].pc = "waiting"
    <3>1. replay'[r] = [replay[r] EXCEPT !.pc = "woken"]
      BY <2>2 DEF Broadcast
    <3> QED BY <2>1, <3>1, <2>2 DEF IsReplay
  <2>3. CASE ~ (replay[r].of = p /\ replay[r].pc = "waiting")
    <3>1. replay'[r] = replay[r]
      BY <2>3 DEF Broadcast
    <3> QED BY <2>1, <2>3, <3>1
  <2> QED BY <2>2, <2>3
<1>5. WellFormed'
  <2>1. \A r \in Readers : replay'[r].pc # "idle" => replay'[r].of \in Streams
    BY <1>4 DEF WInv, WellFormed
  <2>2. \A s \in DOMAIN buffers' : buffers'[s] \in Streams
    BY DEF WInv, WellFormed
  <2>3. \A r \in Readers : IsReplay(replay'[r])
    BY <1>4
  <2> QED BY <1>2, <1>3, <2>1, <2>2, <2>3 DEF WellFormed, IsReplay
<1>6. ASSUME NEW r \in Readers, replay'[r].pc = "waiting"
      PROVE  ~ Pending(r)'
  <2>1. replay[r].pc = "waiting" /\ replay[r].of \in Streams /\ replay[r].of # p
    BY <1>4, <1>6 DEF WInv, WellFormed
  <2> QED BY <1>1, <1>4, <1>6, <2>1, SleepersUndisturbed
<1> QED BY <1>5, <1>6 DEF WInv, NoMissedBroadcast

\* A step of one replay: asleep afterwards only with nothing to do.
LEMMA SetStep ==
    ASSUME WInv, NEW r \in Readers, NEW x, Set(r, x), IsReplay(x),
           x.pc # "idle" => x.of \in Streams,
           x.pc = "waiting" => /\ ~ Pending(r)
                               /\ x.of = replay[r].of /\ x.afterSeq = replay[r].afterSeq
    PROVE  WInv'
<1>1. /\ \A q \in Readers : replay'[q] = IF q = r THEN x ELSE replay[q]
      /\ replay' = [q \in Readers |-> replay'[q]]
      /\ UNCHANGED <<buffers, entry>>
  BY DEF Set, WInv, WellFormed
<1>2. WellFormed'
  BY <1>1 DEF WInv, WellFormed
<1>3. ASSUME NEW q \in Readers, replay'[q].pc = "waiting"
      PROVE  ~ Pending(q)'
  <2>1. CASE q = r
    BY <1>1, <1>3, <2>1 DEF Pending
  <2>2. CASE q # r
    BY <1>1, <1>3, <2>2 DEF Pending, WInv, NoMissedBroadcast
  <2> QED BY <2>1, <2>2
<1> QED BY <1>2, <1>3 DEF WInv, NoMissedBroadcast

\* The timer of r wakes everybody on its entry.
LEMMA TimerStep ==
    ASSUME WInv, NEW r \in Readers, TimerFires(r)
    PROVE  WInv'
<1>1. replay' = [q \in Readers |-> replay'[q]] /\ UNCHANGED <<buffers, entry>>
  BY DEF TimerFires
<1>2. ASSUME NEW q \in Readers
      PROVE  /\ IsReplay(replay'[q]) /\ replay'[q].of = replay[q].of
             /\ replay'[q].afterSeq = replay[q].afterSeq
             /\ replay[q].pc = "idle" => replay'[q].pc = "idle"
             /\ replay'[q].pc = "waiting" => replay[q].pc = "waiting"
  <2>1. IsReplay(replay[q])
    BY DEF WInv, WellFormed
  <2>2. replay'[q] =
          [replay[q] EXCEPT !.pc = IF replay[q].of = replay[r].of /\ @ = "waiting" THEN "woken" ELSE @,
                            !.timer = @ /\ q # r]
    BY DEF TimerFires
  <2> QED BY <2>1, <2>2 DEF IsReplay
<1>3. WellFormed'
  <2>1. \A q \in Readers : replay'[q].pc # "idle" => replay'[q].of \in Streams
    BY <1>2 DEF WInv, WellFormed
  <2>2. \A s \in DOMAIN buffers' : buffers'[s] \in Streams
    BY <1>1 DEF WInv, WellFormed
  <2>3. \A q \in Readers : IsReplay(replay'[q])
    BY <1>2
  <2>4. entry' = [p \in Streams |-> entry'[p]]
    BY <1>1 DEF WInv, WellFormed
  <2> QED BY <1>1, <2>1, <2>2, <2>3, <2>4 DEF WellFormed, IsReplay
<1>4. ASSUME NEW q \in Readers, replay'[q].pc = "waiting"
      PROVE  ~ Pending(q)'
  BY <1>1, <1>2, <1>4, SleepersUndisturbed
<1> QED BY <1>3, <1>4 DEF WInv, NoMissedBroadcast

\* A step of a handler or of the reaper that touches no entry.
LEMMA StoreStep ==
    ASSUME WInv, UNCHANGED <<entry, replay>>, \A s \in DOMAIN buffers' : buffers'[s] \in Streams
    PROVE  WInv'
<1>1. WellFormed'
  BY DEF WInv, WellFormed
<1>2. NoMissedBroadcast'
  BY DEF WInv, NoMissedBroadcast, Pending
<1> QED BY <1>1, <1>2 DEF WInv

\* Every step keeps sleepers without work.
LEMMA WInvStep == WInv /\ [Next]_vars => WInv'
<1> SUFFICES ASSUME WInv, [Next]_vars PROVE WInv'
  OBVIOUS
<1>0. /\ \A s \in DOMAIN buffers : buffers[s] \in Streams
      /\ \A r \in Readers : IsReplay(replay[r])
      /\ \A r \in Readers : replay[r].pc # "idle" => replay[r].of \in Streams
  BY DEF WInv, WellFormed
<1>1. CASE UNCHANGED vars
  BY <1>0, <1>1, StoreStep DEF vars
<1>2. ASSUME NEW p \in Streams,
             \/ \E s \in SidsOf[p] : OpenStamp(p, s)
             \/ StreamChatStarts(p) \/ NoTerminal(p)
      PROVE  WInv'
  BY <1>0, <1>2, StoreStep DEF OpenStamp, StreamChatStarts, NoTerminal
<1>3. ASSUME NEW p \in Streams, OpenInsert(p) \/ StreamChatFails(p) \/ ReleaseAgain(p) PROVE WInv'
  <2>1. \A s \in DOMAIN buffers' : buffers'[s] \in Streams
    BY <1>0, <1>3 DEF OpenInsert, StreamChatFails, ReleaseAgain, Without
  <2> QED BY <1>3, <2>1, StoreStep DEF OpenInsert, StreamChatFails, ReleaseAgain
<1>4. ASSUME NEW p \in Streams, Chunk(p) \/ \E last \in BOOLEAN : Terminal(p, last) PROVE WInv'
  <2>1. Broadcast(p) /\ entry' = [entry EXCEPT ![p] = AppendFrame(entry[p])] /\ UNCHANGED buffers
    BY <1>4 DEF Chunk, Terminal, AppendEvent
  <2> QED BY <2>1, BroadcastStep
<1>5. ASSUME NEW p \in Streams, MarkFinalized(p) PROVE WInv'
  <2>1. PICK e : entry' = [entry EXCEPT ![p] = e]
    BY <1>5 DEF MarkFinalized
  <2> QED BY <1>5, <2>1, BroadcastStep DEF MarkFinalized
<1>6. ASSUME NEW k \in 1..Len(stamps), ReapExpired(k) PROVE WInv'
  <2>1. \A s \in DOMAIN buffers' : buffers'[s] \in Streams
    BY <1>0, <1>6 DEF ReapExpired, Without
  <2> QED BY <1>6, <2>1, StoreStep DEF ReapExpired
<1>7. ASSUME NEW r \in Readers, NEW s \in Sids, NEW c \in Cursors, ReplayOpens(r, s, c) PROVE WInv'
  <2> DEFINE x == NewReplay(buffers[s], c)
  <2>1. IsReplay(x) /\ x.of \in Streams /\ x.pc = "phase1" /\ Set(r, x)
    BY <1>0, <1>7 DEF ReplayOpens, NewReplay, IsReplay
  <2> HIDE DEF x
  <2> QED BY <2>1, SetStep
<1>8. ASSUME NEW r \in Readers, Phase1(r) \/ WriteFrame(r) \/ ReplayWriteFails(r) \/ LoopTest(r) \/ ReplayClientLeaves(r)
      PROVE  WInv'
  <2>1. PICK x : /\ Set(r, x) /\ IsReplay(x)
                 /\ x.of = replay[r].of /\ (x.pc = "idle" <=> replay[r].pc = "idle")
                 /\ x.pc = "waiting" => replay[r].pc = "waiting" /\ x.afterSeq = replay[r].afterSeq
    <3>1. IsReplay(replay[r])
      BY <1>0
    <3>2. CASE Phase1(r)
      <4> DEFINE x == [replay[r] EXCEPT !.pc = "write", !.batch = FramesAfter(entry[replay[r].of], replay[r].afterSeq)]
      <4>1. Set(r, x)
        BY <3>2 DEF Phase1
      <4>2. IsReplay(x) /\ x.of = replay[r].of /\ x.pc = "write"
        BY <3>1 DEF IsReplay
      <4> QED BY <3>2, <4>1, <4>2 DEF Phase1
    <3>3. CASE WriteFrame(r)
      <4> DEFINE x == [replay[r] EXCEPT !.afterSeq = Head(replay[r].batch), !.batch = Tail(@)]
      <4>1. Set(r, x)
        BY <3>3 DEF WriteFrame
      <4>2. IsReplay(x) /\ x.of = replay[r].of /\ x.pc = replay[r].pc
        BY <3>1 DEF IsReplay
      <4> QED BY <3>3, <4>1, <4>2 DEF WriteFrame
    <3>4. CASE ReplayWriteFails(r)
      <4> DEFINE x == [replay[r] EXCEPT !.pc = "ended", !.batch = <<>>]
      <4>1. Set(r, x)
        BY <3>4 DEF ReplayWriteFails
      <4>2. IsReplay(x) /\ x.of = replay[r].of /\ x.pc = "ended"
        BY <3>1 DEF IsReplay
      <4> QED BY <3>4, <4>1, <4>2 DEF ReplayWriteFails
    <3>5. CASE LoopTest(r)
      <4> DEFINE x == [replay[r] EXCEPT !.pc = IF replay[r].gone THEN "ended" ELSE "poll"]
      <4>1. Set(r, x)
        BY <3>5 DEF LoopTest
      <4>2. IsReplay(x) /\ x.of = replay[r].of /\ x.pc \in {"ended", "poll"}
        BY <3>1 DEF IsReplay
      <4> QED BY <3>5, <4>1, <4>2 DEF LoopTest
    <3>6. CASE ReplayClientLeaves(r)
      <4> DEFINE x == [replay[r] EXCEPT !.gone = TRUE]
      <4>1. Set(r, x)
        BY <3>6 DEF ReplayClientLeaves
      <4>2. IsReplay(x) /\ x.of = replay[r].of /\ x.pc = replay[r].pc /\ x.afterSeq = replay[r].afterSeq
        BY <3>1 DEF IsReplay
      <4> QED BY <3>6, <4>1, <4>2 DEF ReplayClientLeaves
    <3> QED BY <1>8, <3>2, <3>3, <3>4, <3>5, <3>6
  <2>2. replay[r].pc = "waiting" => ~ Pending(r)
    BY DEF WInv, NoMissedBroadcast
  <2> QED BY <1>0, <2>1, <2>2, SetStep
<1>9. ASSUME NEW r \in Readers, WaitForNew(r) \/ WaitWakes(r) PROVE WInv'
  <2>1. IsReplay(replay[r]) /\ replay[r].of \in Streams
    BY <1>0, <1>9 DEF WaitForNew, WaitWakes
  <2>2. CASE Pending(r)
    <3>1. Set(r, Returned(r))
      BY <1>9, <2>2 DEF WaitForNew, WaitWakes
    <3>2. IsReplay(Returned(r)) /\ Returned(r).of = replay[r].of /\ Returned(r).pc \in {"drained", "write"}
      BY <2>1 DEF Returned, IsReplay
    <3> QED BY <2>1, <3>1, <3>2, SetStep
  <2>3. CASE ~ Pending(r)
    <3>1. PICK t : Set(r, [replay[r] EXCEPT !.pc = "waiting", !.timer = t])
      <4>1. CASE WaitForNew(r)
        BY <2>3, <4>1 DEF WaitForNew
      <4>2. CASE WaitWakes(r)
        <5>1. [replay[r] EXCEPT !.pc = "waiting"] = [replay[r] EXCEPT !.pc = "waiting", !.timer = replay[r].timer]
          BY <2>1 DEF IsReplay
        <5> QED BY <2>3, <4>2, <5>1 DEF WaitWakes
      <4> QED BY <1>9, <4>1, <4>2
    <3> DEFINE x == [replay[r] EXCEPT !.pc = "waiting", !.timer = t]
    <3>2. IsReplay(x) /\ x.of = replay[r].of /\ x.afterSeq = replay[r].afterSeq
      BY <2>1 DEF IsReplay
    <3> HIDE DEF x
    <3>3. Set(r, x)
      BY <3>1 DEF x
    <3> QED BY <2>1, <2>3, <3>2, <3>3, SetStep
  <2> QED BY <2>2, <2>3
<1>10. ASSUME NEW r \in Readers, TimerFires(r) PROVE WInv'
  BY <1>10, TimerStep
<1> QED
  BY <1>1, <1>2, <1>3, <1>4, <1>5, <1>6, <1>7, <1>8, <1>9, <1>10 DEF Next, HandlerStep, ReplayStep

\* At first nobody sleeps.
LEMMA WInvInit == Init => WInv
<1> SUFFICES ASSUME Init PROVE WInv
  OBVIOUS
<1>1. IsReplay(NoReplay) /\ NoReplay.pc = "idle"
  BY DEF NoReplay, NewReplay, IsReplay
<1>2. \A r \in Readers : replay[r] = NoReplay
  BY DEF Init
<1>3. replay = [r \in Readers |-> replay[r]] /\ entry = [p \in Streams |-> entry[p]]
  BY DEF Init
<1>4. \A s \in DOMAIN buffers : buffers[s] \in Streams
  BY DEF Init
<1> QED BY <1>1, <1>2, <1>3, <1>4 DEF WInv, WellFormed, NoMissedBroadcast

\* Whatever Append, MarkFinalized, timers and other replays do, a replay asleep
\* in WaitForNew has nothing to read: the condition variable misses no wakeup.
THEOREM NoBroadcastMissed == Spec => []NoMissedBroadcast
<1>1. Init => WInv
  BY WInvInit
<1>2. WInv /\ [Next]_vars => WInv'
  BY WInvStep
<1>3. WInv => NoMissedBroadcast
  BY DEF WInv
<1> QED BY <1>1, <1>2, <1>3, PTL DEF Spec

----------------------------------------------------------------------------

\* p has read the clock in Open.
Stamped(p) == \E i \in 1..Len(stamps) : stamps[i] = p

\* So have the makers of all entries in the store.
EntriesStamped == \A s \in DOMAIN buffers : Stamped(buffers[s])

\* The inductive invariant of the store: its entries have creation times, so
\* that there is an oldest one to evict.
CInv ==
    /\ stamps \in Seq(Streams)
    /\ handler = [p \in Streams |-> handler[p]]
    /\ \A p \in Streams : handler[p] = "stamped" => Stamped(p)
    /\ EntriesStamped
    /\ IsFiniteSet(DOMAIN buffers)
    /\ EntriesCapped

\* A non-empty set of natural numbers has a least element.
LEMMA LeastNatural ==
    ASSUME NEW T, T \subseteq Nat, T # {}
    PROVE  \E n \in T : \A m \in T : n <= m
<1> DEFINE R == {ss \in Nat \X Nat : ss[1] < ss[2]}
<1>1. IsWellFoundedOn(R, Nat)
  BY NatLessThanWellFounded DEF OpToRel
<1>2. PICK n \in T : \A m \in T : ~ (<<m, n>> \in R)
  <2> HIDE DEF R
  <2> QED BY <1>1, WFMin
<1>3. ASSUME NEW m \in T, m < n
      PROVE  FALSE
  <2>1. <<m, n>> \in Nat \X Nat /\ <<m, n>>[1] = m /\ <<m, n>>[2] = n
    OBVIOUS
  <2>2. <<m, n>> \in R
    BY <2>1, <1>3
  <2> QED BY <2>2, <1>2
<1>4. \A m \in T : n <= m
  BY <1>3
<1> QED BY <1>4

\* A store that is not empty has an oldest entry.
LEMMA OldestExists ==
    ASSUME CInv, DOMAIN buffers # {}
    PROVE  Oldest \in DOMAIN buffers
<1> DEFINE T == {Stamp(buffers[s]) : s \in DOMAIN buffers}
<1>1. ASSUME NEW s \in DOMAIN buffers PROVE Stamp(buffers[s]) \in Nat
  <2>1. \E i \in 1..Len(stamps) : stamps[i] = buffers[s]
    BY DEF CInv, EntriesStamped, Stamped
  <2>2. Stamp(buffers[s]) \in 1..Len(stamps)
    BY <2>1 DEF Stamp
  <2>3. Len(stamps) \in Nat
    BY LenProperties DEF CInv
  <2> QED BY <2>2, <2>3
<1>3. PICK n \in T : \A m \in T : n <= m
  <2>1. T \subseteq Nat /\ T # {}
    BY <1>1
  <2> HIDE DEF T
  <2> QED BY <2>1, LeastNatural
<1>4. PICK s \in DOMAIN buffers : n = Stamp(buffers[s])
  BY <1>3
<1>5. \A t \in DOMAIN buffers : Stamp(buffers[s]) <= Stamp(buffers[t])
  BY <1>3, <1>4
<1> QED BY <1>5 DEF Oldest

\* Dropping entries keeps the store within its cap.
LEMMA DropStep ==
    ASSUME CInv, NEW sids, buffers' = Without(sids), UNCHANGED stamps
    PROVE  /\ EntriesStamped'
           /\ IsFiniteSet(DOMAIN buffers')
           /\ EntriesCapped'
<1>1. DOMAIN buffers' = DOMAIN buffers \ sids /\ \A s \in DOMAIN buffers' : buffers'[s] = buffers[s]
  BY DEF Without
<1>2. IsFiniteSet(DOMAIN buffers') /\ Cardinality(DOMAIN buffers') <= Cardinality(DOMAIN buffers)
  BY <1>1, FS_Subset DEF CInv
<1>3. EntriesStamped'
  BY <1>1 DEF CInv, EntriesStamped, Stamped
<1>4. Cardinality(DOMAIN buffers) \in Nat /\ Cardinality(DOMAIN buffers') \in Nat
  BY <1>2, FS_CardinalityType DEF CInv
<1>5. EntriesCapped'
  BY <1>2, <1>4, StreamAssumption DEF CInv, EntriesCapped
<1> QED BY <1>2, <1>3, <1>5

\* An insertion into a full store evicts before it adds.
LEMMA InsertedStep ==
    ASSUME CInv, NEW p \in Streams, OpenInsert(p)
    PROVE  /\ EntriesStamped'
           /\ IsFiniteSet(DOMAIN buffers')
           /\ EntriesCapped'
<1> DEFINE D == DOMAIN buffers
           E == Evicted(p)
           sid == sidOf[p]
<1>1. /\ DOMAIN buffers' = (D \ E) \union {sid}
      /\ \A s \in DOMAIN buffers' : buffers'[s] = IF s = sid THEN p ELSE buffers[s]
      /\ UNCHANGED stamps
  BY DEF OpenInsert
<1>2. Stamped(p)
  BY DEF CInv, OpenInsert
<1>3. EntriesStamped'
  <2>1. ASSUME NEW s \in DOMAIN buffers' PROVE Stamped(buffers'[s])
    <3>1. CASE s = sid
      BY <1>1, <1>2, <3>1
    <3>2. CASE s # sid
      BY <1>1, <3>2 DEF CInv, EntriesStamped
    <3> QED BY <3>1, <3>2
  <2> QED BY <1>1, <2>1 DEF EntriesStamped, Stamped
<1>4. IsFiniteSet(D) /\ Cardinality(D) \in Nat
  BY FS_CardinalityType DEF CInv
<1> HIDE DEF E, D, sid
<1>5. IsFiniteSet(D \ E) /\ Cardinality(D \ E) \in Nat /\ Cardinality(D \ E) <= Cardinality(D)
  BY <1>4, FS_Subset, FS_CardinalityType
<1>6. /\ IsFiniteSet((D \ E) \union {sid})
      /\ Cardinality((D \ E) \union {sid}) = IF sid \in D \ E THEN Cardinality(D \ E) ELSE Cardinality(D \ E) + 1
  BY <1>5, FS_AddElement
<1>7. ASSUME MaxEntries > 0 PROVE Cardinality((D \ E) \union {sid}) <= MaxEntries
  <2>0. MaxEntries \in Nat /\ Cardinality(D) <= MaxEntries
    BY <1>7, StreamAssumption DEF CInv, EntriesCapped, D
  <2>1. CASE sid \in D
    <3>1. E = {}
      BY <2>1 DEF Evicted, E, D, sid
    <3> QED BY <1>4, <1>5, <1>6, <2>0, <2>1, <3>1
  <2>2. CASE sid \notin D /\ Cardinality(D) < MaxEntries
    BY <1>4, <1>5, <1>6, <2>0, <2>2
  <2>3. CASE sid \notin D /\ ~ (Cardinality(D) < MaxEntries)
    <3>1. E = {Oldest} /\ D # {}
      <4>1. Cardinality(D) >= MaxEntries /\ Cardinality(D) # 0
        BY <1>4, <1>7, <2>0, <2>3
      <4>2. D # {}
        BY <4>1, FS_EmptySet
      <4>3. E = {Oldest}
        BY <1>7, <2>3, <4>1 DEF Evicted, E, D, sid
      <4> QED BY <4>2, <4>3
    <3>2. Oldest \in D
      BY <3>1, OldestExists DEF D
    <3>3. Cardinality(D \ E) = Cardinality(D) - 1
      BY <1>4, <3>1, <3>2, FS_RemoveElement
    <3> QED BY <1>4, <1>5, <1>6, <2>0, <3>3
  <2> QED BY <2>1, <2>2, <2>3
<1>8. IsFiniteSet(DOMAIN buffers')
  BY <1>1, <1>6
<1>9. EntriesCapped'
  BY <1>1, <1>7 DEF EntriesCapped
<1> QED BY <1>3, <1>8, <1>9

\* Every step keeps the store within its cap.
LEMMA CInvStep == CInv /\ [Next]_vars => CInv'
<1> SUFFICES ASSUME CInv, [Next]_vars PROVE CInv'
  OBVIOUS
<1>1. ASSUME UNCHANGED <<stamps, buffers>>, handler' = [p \in Streams |-> handler'[p]],
             \A p \in Streams : handler'[p] = "stamped" => handler[p] = "stamped"
      PROVE  CInv'
  BY <1>1 DEF CInv, EntriesStamped, Stamped, EntriesCapped
<1>2. ASSUME NEW p \in Streams, NEW s \in SidsOf[p], OpenStamp(p, s) PROVE CInv'
  <2>1. /\ stamps' = Append(stamps, p) /\ UNCHANGED buffers
        /\ handler' = [handler EXCEPT ![p] = "stamped"]
    BY <1>2 DEF OpenStamp, Goto
  <2>2. /\ stamps' \in Seq(Streams) /\ Len(stamps) \in Nat /\ Len(stamps') = Len(stamps) + 1
        /\ stamps'[Len(stamps) + 1] = p
        /\ \A i \in 1..Len(stamps) : stamps'[i] = stamps[i]
    BY <2>1, AppendProperties, LenProperties DEF CInv
  <2>3. Stamped(p)' /\ \A q : Stamped(q) => Stamped(q)'
    BY <2>2 DEF Stamped
  <2>4. handler' = [q \in Streams |-> handler'[q]]
    BY <2>1 DEF CInv
  <2>5. \A q \in Streams : handler'[q] = "stamped" => Stamped(q)'
    BY <2>1, <2>3 DEF CInv
  <2>6. EntriesStamped'
    BY <2>1, <2>2 DEF CInv, EntriesStamped, Stamped
  <2>7. IsFiniteSet(DOMAIN buffers') /\ EntriesCapped'
    BY <2>1 DEF CInv, EntriesCapped
  <2> QED BY <2>2, <2>4, <2>5, <2>6, <2>7 DEF CInv
<1>3. ASSUME NEW p \in Streams, OpenInsert(p) PROVE CInv'
  <2>1. handler' = [handler EXCEPT ![p] = "opened"] /\ UNCHANGED stamps
    BY <1>3 DEF OpenInsert, Goto
  <2>2. /\ handler' = [q \in Streams |-> handler'[q]]
        /\ \A q \in Streams : handler'[q] = "stamped" => handler[q] = "stamped"
    BY <2>1 DEF CInv
  <2>3. \A q \in Streams : handler'[q] = "stamped" => Stamped(q)'
    BY <2>1, <2>2 DEF CInv, Stamped
  <2> QED BY <1>3, <2>1, <2>2, <2>3, InsertedStep DEF CInv
<1>4. ASSUME NEW sids, buffers' = Without(sids), UNCHANGED stamps,
             handler' = [p \in Streams |-> handler'[p]],
             \A p \in Streams : handler'[p] = "stamped" => handler[p] = "stamped"
      PROVE  CInv'
  <2>1. \A q \in Streams : handler'[q] = "stamped" => Stamped(q)'
    BY <1>4 DEF CInv, Stamped
  <2> QED BY <1>4, <2>1, DropStep DEF CInv
<1>5. ASSUME NEW p \in Streams, StreamChatFails(p) \/ ReleaseAgain(p) PROVE CInv'
  <2>1. buffers' = Without({sidOf[p]}) /\ UNCHANGED stamps
    BY <1>5 DEF StreamChatFails, ReleaseAgain
  <2>2. /\ handler' = [q \in Streams |-> handler'[q]]
        /\ \A q \in Streams : handler'[q] = "stamped" => handler[q] = "stamped"
    BY <1>5 DEF StreamChatFails, ReleaseAgain, Goto, CInv
  <2> QED BY <1>4, <2>1, <2>2
<1>6. ASSUME NEW k \in 1..Len(stamps), ReapExpired(k) PROVE CInv'
  BY <1>4, <1>6 DEF ReapExpired, CInv
<1>7. ASSUME NEW p \in Streams,
             \/ StreamChatStarts(p) \/ Chunk(p) \/ MarkFinalized(p) \/ NoTerminal(p)
             \/ \E last \in BOOLEAN : Terminal(p, last)
      PROVE  CInv'
  <2>1. UNCHANGED <<stamps, buffers>>
    BY <1>7 DEF StreamChatStarts, Chunk, MarkFinalized, NoTerminal, Terminal
  <2>2. /\ handler' = [q \in Streams |-> handler'[q]]
        /\ \A q \in Streams : handler'[q] = "stamped" => handler[q] = "stamped"
    BY <1>7 DEF StreamChatStarts, Chunk, MarkFinalized, NoTerminal, Terminal, Goto, CInv
  <2> QED BY <1>1, <2>1, <2>2
<1>8. ASSUME UNCHANGED <<stamps, buffers, handler>> PROVE CInv'
  BY <1>1, <1>8 DEF CInv
<1>9. ASSUME NEW r \in Readers,
             \/ \E s \in Sids, c \in Cursors : ReplayOpens(r, s, c)
             \/ ReplayStep(r) \/ ReplayClientLeaves(r)
      PROVE  CInv'
  BY <1>8, <1>9 DEF ReplayOpens, ReplayStep, ReplayClientLeaves, Set, Phase1, WriteFrame, ReplayWriteFails,
                    LoopTest, WaitForNew, WaitWakes, TimerFires
<1> QED
  BY <1>2, <1>3, <1>5, <1>6, <1>7, <1>8, <1>9 DEF Next, HandlerStep, vars

\* The store starts empty.
LEMMA CInvInit == Init => CInv
<1> SUFFICES ASSUME Init PROVE CInv
  OBVIOUS
<1>1. DOMAIN buffers = {} /\ stamps \in Seq(Streams)
  BY DEF Init
<1>2. IsFiniteSet(DOMAIN buffers) /\ Cardinality(DOMAIN buffers) = 0
  BY <1>1, FS_EmptySet
<1>3. handler = [p \in Streams |-> handler[p]] /\ \A p \in Streams : handler[p] # "stamped"
  BY DEF Init
<1>4. EntriesCapped
  BY <1>2, StreamAssumption DEF EntriesCapped
<1> QED BY <1>1, <1>2, <1>3, <1>4 DEF CInv, EntriesStamped

\* However many streams open at once, and whatever IDs they reuse, the store
\* never holds more than resume_max_entries buffers (R7).
THEOREM StoreCapped == Spec => []EntriesCapped
<1>1. Init => CInv
  BY CInvInit
<1>2. CInv /\ [Next]_vars => CInv'
  BY CInvStep
<1>3. CInv => EntriesCapped
  BY DEF CInv
<1> QED BY <1>1, <1>2, <1>3, PTL DEF Spec

----------------------------------------------------------------------------
(* The store names the streams that opened under an ID. *)

Labels == {"idle", "stamped", "opened", "failed", "live", "closed", "usage", "done"}

HInv ==
    /\ sidOf \in [Streams -> Sids] /\ stamps \in Seq(Streams)
    /\ handler \in [Streams -> Labels]
    /\ DOMAIN buffers \subseteq Sids
    /\ \A s \in DOMAIN buffers :
          /\ buffers[s] \in Streams /\ sidOf[buffers[s]] = s
          /\ handler[buffers[s]] \notin {"idle", "stamped"}

\* A request ID of a stream is one of the IDs.
LEMMA SidTyped ==
    ASSUME NEW p \in Streams, NEW s \in SidsOf[p]
    PROVE  s \in Sids
BY DEF Sids

\* Nothing is in the store at the start.
LEMMA HInvInit == Init => HInv
<1> SUFFICES ASSUME Init PROVE HInv
  OBVIOUS
<1>1. \A p \in Streams : (CHOOSE s \in SidsOf[p] : TRUE) \in Sids
  BY IdsAssumption, SidTyped
<1>2. sidOf \in [Streams -> Sids] /\ handler \in [Streams -> Labels]
  BY <1>1 DEF Init, Labels
<1>3. DOMAIN buffers = {} /\ stamps \in Seq(Streams)
  BY DEF Init
<1> QED BY <1>2, <1>3 DEF HInv

\* Every step keeps the store and the handlers in step.
LEMMA HInvStep == HInv /\ [Next]_vars => HInv'
<1> SUFFICES ASSUME HInv, [Next]_vars PROVE HInv'
  OBVIOUS
<1> DEFINE Shrinks == DOMAIN buffers' \subseteq DOMAIN buffers /\ \A s \in DOMAIN buffers' : buffers'[s] = buffers[s]
<1>1. ASSUME NEW p \in Streams, NEW l \in Labels \ {"idle", "stamped"},
             handler' = [handler EXCEPT ![p] = l], Shrinks, UNCHANGED <<sidOf, stamps>>
      PROVE  HInv'
  <2>1. handler' \in [Streams -> Labels] /\ \A q \in Streams : handler'[q] \in {handler[q], l}
    BY <1>1 DEF HInv
  <2> QED BY <1>1, <2>1 DEF HInv
<1>2. ASSUME Shrinks, UNCHANGED <<sidOf, stamps, handler>>
      PROVE  HInv'
  BY <1>2 DEF HInv
<1>3. ASSUME NEW p \in Streams, NEW s \in SidsOf[p], OpenStamp(p, s)
      PROVE  HInv'
  <2>1. /\ handler[p] = "idle" /\ sidOf' = [sidOf EXCEPT ![p] = s] /\ stamps' = Append(stamps, p)
        /\ handler' = [handler EXCEPT ![p] = "stamped"] /\ UNCHANGED buffers
    BY <1>3 DEF OpenStamp, Goto
  <2>2. sidOf' \in [Streams -> Sids] /\ handler' \in [Streams -> Labels] /\ stamps' \in Seq(Streams)
    BY <2>1, SidTyped, AppendProperties DEF HInv, Labels
  <2>3. ASSUME NEW t \in DOMAIN buffers'
        PROVE  /\ buffers'[t] \in Streams /\ sidOf'[buffers'[t]] = t
               /\ handler'[buffers'[t]] \notin {"idle", "stamped"}
    <3>1. buffers[t] \in Streams /\ buffers[t] # p /\ buffers'[t] = buffers[t]
      BY <2>1 DEF HInv
    <3> QED BY <2>1, <3>1 DEF HInv
  <2> QED BY <2>1, <2>2, <2>3 DEF HInv
<1>4. ASSUME NEW p \in Streams, OpenInsert(p)
      PROVE  HInv'
  <2>1. /\ handler' = [handler EXCEPT ![p] = "opened"] /\ UNCHANGED <<sidOf, stamps>>
        /\ DOMAIN buffers' \subseteq DOMAIN buffers \union {sidOf[p]}
        /\ \A s \in DOMAIN buffers' : buffers'[s] = IF s = sidOf[p] THEN p ELSE buffers[s]
    BY <1>4 DEF OpenInsert, Goto
  <2>2. handler' \in [Streams -> Labels] /\ \A q \in Streams : handler'[q] \in {handler[q], "opened"}
    BY <2>1 DEF HInv, Labels
  <2>3. handler'[p] = "opened" /\ sidOf[p] \in Sids
    BY <2>1 DEF HInv
  <2>4. ASSUME NEW t \in DOMAIN buffers'
        PROVE  /\ buffers'[t] \in Streams /\ sidOf'[buffers'[t]] = t
               /\ handler'[buffers'[t]] \notin {"idle", "stamped"}
    <3>1. CASE t = sidOf[p]
      BY <2>1, <2>3, <3>1
    <3>2. CASE t # sidOf[p]
      BY <2>1, <2>2, <3>2 DEF HInv
    <3> QED BY <3>1, <3>2
  <2> QED BY <2>1, <2>2, <2>3, <2>4 DEF HInv
<1>5. ASSUME NEW p \in Streams, StreamChatFails(p) \/ ReleaseAgain(p)
      PROVE  HInv'
  <2>1. Shrinks /\ UNCHANGED <<sidOf, stamps>>
    BY <1>5 DEF StreamChatFails, ReleaseAgain, Without
  <2>2. handler' = [handler EXCEPT ![p] = "failed"] \/ handler' = [handler EXCEPT ![p] = "done"]
    BY <1>5 DEF StreamChatFails, ReleaseAgain, Goto
  <2> QED BY <1>1, <2>1, <2>2 DEF Labels
<1>6. ASSUME NEW p \in Streams,
             \/ StreamChatStarts(p) \/ MarkFinalized(p) \/ NoTerminal(p)
             \/ \E last \in BOOLEAN : Terminal(p, last)
      PROVE  HInv'
  <2>1. Shrinks /\ UNCHANGED <<sidOf, stamps>>
    BY <1>6 DEF StreamChatStarts, MarkFinalized, NoTerminal, Terminal
  <2>2. \E l \in Labels \ {"idle", "stamped"} : handler' = [handler EXCEPT ![p] = l]
    BY <1>6 DEF StreamChatStarts, MarkFinalized, NoTerminal, Terminal, Goto, Labels
  <2> QED BY <1>1, <2>1, <2>2
<1>7. ASSUME \/ UNCHANGED vars
             \/ \E p \in Streams : Chunk(p)
             \/ \E k \in 1..Len(stamps) : ReapExpired(k)
             \/ \E r \in Readers :
                   \/ \E s \in Sids, c \in Cursors : ReplayOpens(r, s, c)
                   \/ ReplayStep(r) \/ ReplayClientLeaves(r)
      PROVE  HInv'
  <2>1. Shrinks /\ UNCHANGED <<sidOf, stamps, handler>>
    BY <1>7 DEF vars, Chunk, ReapExpired, Without, ReplayOpens, ReplayStep, ReplayClientLeaves, Set, Phase1,
                WriteFrame, ReplayWriteFails, LoopTest, WaitForNew, WaitWakes, TimerFires
  <2> QED BY <1>2, <2>1
<1> QED
  BY <1>3, <1>4, <1>5, <1>6, <1>7 DEF Next, HandlerStep

----------------------------------------------------------------------------
(* The rolling window of an entry. *)

\* The newest frame dropped, or 0.
Low(e) == e.nextSeq - Len(e.frames)

\* What Append keeps: the frames are those after Low(e), up to the newest, and
\* the bytes charged are theirs.
Window(e) ==
    /\ DOMAIN e = {"frames", "bytes", "nextSeq", "finalized", "content"}
    /\ e.finalized \in BOOLEAN /\ e.content \in Nat /\ e.content <= e.nextSeq
    /\ e.frames \in Seq(Nat) /\ e.nextSeq \in 0..(MaxChunks + 2) /\ Len(e.frames) <= e.nextSeq
    /\ \A i \in 1..Len(e.frames) : e.frames[i] = Low(e) + i
    /\ e.nextSeq > 0 => e.frames # <<>>
    /\ e.bytes = EndOf[e.nextSeq] - EndOf[Low(e)]
    /\ Fits(e.frames, e.bytes)

\* The size of the run of frames after a up to a + Len(f).
LEMMA RunBytes ==
    ASSUME NEW f \in Seq(Nat), NEW a \in Nat, a + Len(f) <= MaxChunks + 2,
           \A i \in 1..Len(f) : f[i] = a + i
    PROVE  Bytes(f) = EndOf[a + Len(f)] - EndOf[a]
<1>1. Len(f) \in Nat /\ MaxChunks \in Nat
  BY LenProperties, StreamAssumption
<1>2. EndOf[a] \in Nat
  BY <1>1, StreamAssumption
<1>3. CASE f = <<>>
  BY <1>2, <1>3 DEF Bytes
<1>4. CASE f # <<>>
  <2>1. Len(f) # 0
    BY <1>4, EmptySeq
  <2>2. f[Len(f)] = a + Len(f) /\ f[1] = a + 1 /\ f[1] - 1 = a
    BY <1>1, <2>1
  <2> QED BY <1>4, <2>2 DEF Bytes
<1> QED BY <1>3, <1>4

\* The trim loop on a run of frames: it stops before the newest one.
LEMMA TrimRun ==
    ASSUME NEW g \in Seq(Nat), NEW N \in Nat, NEW a \in Nat, NEW c \in Int, Len(g) = N, N >= 1,
           a + N <= MaxChunks + 2, \A i \in 1..N : g[i] = a + i, c = EndOf[a + N] - EndOf[a]
    PROVE  LET d == Dropped(g, c)
           IN  /\ d \in 0..(N - 1) /\ Rest(g, d) \in Seq(Nat) /\ Len(Rest(g, d)) = N - d
               /\ \A i \in 1..(N - d) : Rest(g, d)[i] = a + d + i
               /\ BytesLeft(g, c, d) = EndOf[a + N] - EndOf[a + d] /\ Fits(Rest(g, d), BytesLeft(g, c, d))
<1> DEFINE rest(k) == SubSeq(g, k + 1, Len(g))
           bytes(k) == c - Bytes(SubSeq(g, 1, k))
           K == {k \in 0..Len(g) : Fits(rest(k), bytes(k))}
           d == Min(K)
<1>1. \A i \in 0..(MaxChunks + 2) : EndOf[i] \in Nat
  BY StreamAssumption
<1>2. ASSUME NEW k \in 0..N
      PROVE  /\ rest(k) \in Seq(Nat) /\ Len(rest(k)) = N - k
             /\ \A i \in 1..(N - k) : rest(k)[i] = a + k + i
  <2>1. \A i \in (k + 1)..N : g[i] \in Nat
    OBVIOUS
  <2>2. /\ rest(k) \in Seq(Nat) /\ Len(rest(k)) = IF k + 1 <= N THEN N - (k + 1) + 1 ELSE 0
        /\ \A i \in 1..(N - (k + 1) + 1) : rest(k)[i] = g[(k + 1) + i - 1]
    BY <2>1, SubSeqProperties
  <2>3. Len(rest(k)) = N - k
    BY <2>2
  <2>4. ASSUME NEW i \in 1..(N - k)
        PROVE  rest(k)[i] = a + k + i
    <3>1. i \in 1..(N - (k + 1) + 1) /\ (k + 1) + i - 1 = k + i /\ k + i \in 1..N
      OBVIOUS
    <3>2. rest(k)[i] = g[k + i]
      BY <2>2, <3>1
    <3>3. g[k + i] = a + (k + i)
      BY <3>1
    <3> QED BY <3>2, <3>3
  <2> QED BY <2>2, <2>3, <2>4
<1>3. ASSUME NEW k \in 0..N
      PROVE  bytes(k) = EndOf[a + N] - EndOf[a + k]
  <2> DEFINE f == SubSeq(g, 1, k)
  <2>1. \A i \in 1..k : g[i] \in Nat
    OBVIOUS
  <2>2. /\ f \in Seq(Nat) /\ Len(f) = IF 1 <= k THEN k - 1 + 1 ELSE 0
        /\ \A i \in 1..(k - 1 + 1) : f[i] = g[1 + i - 1]
    BY <2>1, SubSeqProperties
  <2>3. Len(f) = k
    BY <2>2
  <2>4. \A i \in 1..k : f[i] = a + i
    BY <2>2
  <2> HIDE DEF f
  <2>5. Bytes(f) = EndOf[a + k] - EndOf[a]
    <3>1. a + Len(f) <= MaxChunks + 2
      BY <2>3, StreamAssumption
    <3> QED BY <2>2, <2>3, <2>4, <3>1, RunBytes
  <2>6. EndOf[a + N] \in Nat /\ EndOf[a + k] \in Nat /\ EndOf[a] \in Nat
    <3>1. a + N \in 0..(MaxChunks + 2) /\ a + k \in 0..(MaxChunks + 2) /\ a \in 0..(MaxChunks + 2)
      BY StreamAssumption
    <3> QED BY <1>1, <3>1
  <2> QED BY <2>5, <2>6 DEF f
<1> HIDE DEF rest, bytes
<1>4. N - 1 \in K
  <2>1. N - 1 \in 0..N /\ N - (N - 1) = 1
    OBVIOUS
  <2>2. Len(rest(N - 1)) = 1
    BY <1>2, <2>1
  <2>3. Fits(rest(N - 1), bytes(N - 1))
    <3>1. 1 <= MaxEvents
      BY StreamAssumption
    <3> DEFINE f == rest(N - 1)
               y == bytes(N - 1)
    <3>2. Len(f) = 1
      BY <2>2
    <3> HIDE DEF f, y
    <3>3. Fits(f, y)
      BY <3>1, <3>2 DEF Fits
    <3> QED BY <3>3 DEF f, y
  <2> QED BY <2>1, <2>3
<1>5. d \in K /\ d <= N - 1
  <2>1. K \subseteq Nat /\ K # {}
    BY <1>4
  <2> HIDE DEF K
  <2>2. \E n \in K : \A m \in K : n <= m
    BY <2>1, LeastNatural
  <2>3. d \in K /\ \A m \in K : d <= m
    BY <2>2 DEF Min
  <2> QED BY <1>4, <2>3
<1>6. d \in 0..(N - 1) /\ d \in 0..N /\ Fits(rest(d), bytes(d))
  BY <1>5
<1> HIDE DEF d
<1>7. /\ rest(d) \in Seq(Nat) /\ Len(rest(d)) = N - d
      /\ \A i \in 1..(N - d) : rest(d)[i] = a + d + i
      /\ bytes(d) = EndOf[a + N] - EndOf[a + d]
  BY <1>2, <1>3, <1>6
<1>8. Dropped(g, c) = d
  BY DEF Dropped, Rest, BytesLeft, d, K, rest, bytes
<1>9. Rest(g, d) = rest(d) /\ BytesLeft(g, c, d) = bytes(d)
  BY DEF Rest, BytesLeft, rest, bytes
<1> QED BY <1>6, <1>7, <1>8, <1>9

\* An entry whose frames are the run after a, up to m.
LEMMA WindowRun ==
    ASSUME NEW e, Window(e)
    PROVE  \E m, a, N \in Nat :
              /\ e.nextSeq = m /\ Low(e) = a /\ Len(e.frames) = N /\ m = a + N /\ m <= MaxChunks + 2
              /\ e.frames \in Seq(Nat) /\ \A i \in 1..N : e.frames[i] = a + i
              /\ e.bytes = EndOf[m] - EndOf[a]
<1>1. /\ e.frames \in Seq(Nat) /\ e.nextSeq \in 0..(MaxChunks + 2) /\ Len(e.frames) <= e.nextSeq
      /\ e.bytes = EndOf[e.nextSeq] - EndOf[Low(e)]
      /\ \A i \in 1..Len(e.frames) : e.frames[i] = Low(e) + i
  BY DEF Window
<1>2. PICK m \in 0..(MaxChunks + 2) : m = e.nextSeq
  BY <1>1
<1>3. PICK N \in Nat : N = Len(e.frames)
  BY <1>1, LenProperties
<1>4. m \in Nat /\ m <= MaxChunks + 2 /\ N <= m /\ m - N \in Nat /\ m = (m - N) + N
  BY <1>1, <1>2, <1>3, StreamAssumption
<1>5. Low(e) = m - N
  BY <1>2, <1>3 DEF Low
<1> QED BY <1>1, <1>2, <1>3, <1>4, <1>5

\* A frame is appended to the window, and as many of the oldest as need be are
\* dropped, never the new one.
LEMMA AppendWindow ==
    ASSUME NEW e, Window(e), e.nextSeq < MaxChunks + 2
    PROVE  LET n == AppendFrame(e)
           IN  /\ Window(n) /\ n.nextSeq = e.nextSeq + 1 /\ Low(n) >= Low(e)
               /\ n.finalized = e.finalized /\ n.content = e.content
<1>1. PICK m, a, N \in Nat :
              /\ e.nextSeq = m /\ Low(e) = a /\ Len(e.frames) = N /\ m = a + N /\ m <= MaxChunks + 2
              /\ e.frames \in Seq(Nat) /\ \A i \in 1..N : e.frames[i] = a + i
              /\ e.bytes = EndOf[m] - EndOf[a]
  BY WindowRun
<1> DEFINE g == Append(e.frames, m + 1)
           c == e.bytes + Bytes(<<m + 1>>)
           h == [e EXCEPT !.nextSeq = @ + 1, !.frames = g, !.bytes = c]
<1>2. g \in Seq(Nat) /\ Len(g) = N + 1 /\ \A i \in 1..(N + 1) : g[i] = a + i
  <2>1. /\ g \in Seq(Nat) /\ Len(g) = N + 1 /\ g[N + 1] = m + 1
        /\ \A i \in 1..N : g[i] = e.frames[i]
    BY <1>1, AppendProperties
  <2> HIDE DEF g
  <2>2. g[N + 1] = a + (N + 1)
    BY <1>1, <2>1
  <2>3. ASSUME NEW i \in 1..(N + 1)
        PROVE  g[i] = a + i
    <3>1. CASE i \in 1..N
      BY <1>1, <2>1, <3>1
    <3>2. CASE i = N + 1
      BY <2>2, <3>2
    <3> QED BY <3>1, <3>2
  <2> QED BY <2>1, <2>3
<1>3. c = EndOf[m + 1] - EndOf[a] /\ c \in Int
  <2> DEFINE f == <<m + 1>>
  <2>1. f \in Seq(Nat) /\ Len(f) = 1 /\ f[1] = m + 1
    OBVIOUS
  <2>2. m + 1 <= MaxChunks + 2
    BY <1>1, StreamAssumption
  <2> HIDE DEF f
  <2>3. Bytes(f) = EndOf[m + 1] - EndOf[m]
    <3>1. \A i \in 1..Len(f) : f[i] = m + i
      BY <2>1
    <3> QED BY <2>1, <2>2, <3>1, RunBytes
  <2>4. EndOf[m + 1] \in Nat /\ EndOf[m] \in Nat /\ EndOf[a] \in Nat
    BY <1>1, <2>2, StreamAssumption
  <2>5. c = (EndOf[m] - EndOf[a]) + (EndOf[m + 1] - EndOf[m])
    BY <1>1, <2>3 DEF f
  <2> HIDE DEF c
  <2> QED BY <2>4, <2>5
<1>4. /\ DOMAIN h = {"frames", "bytes", "nextSeq", "finalized", "content"}
      /\ h.frames = g /\ h.bytes = c /\ h.nextSeq = m + 1 /\ h.finalized = e.finalized /\ h.content = e.content
  BY <1>1 DEF Window
<1>5. AppendFrame(e) = Trim(h)
  BY <1>1 DEF AppendFrame
<1> HIDE DEF h, g, c
<1> DEFINE d == Dropped(g, c)
           rest(k) == Rest(g, k)
           bytes(k) == BytesLeft(g, c, k)
           n == Trim(h)
<1>6. /\ d \in 0..N /\ rest(d) \in Seq(Nat) /\ Len(rest(d)) = N + 1 - d
      /\ \A i \in 1..(N + 1 - d) : rest(d)[i] = a + d + i
      /\ bytes(d) = EndOf[a + (N + 1)] - EndOf[a + d] /\ Fits(rest(d), bytes(d))
  <2>1. /\ N + 1 \in Nat /\ N + 1 >= 1 /\ a + (N + 1) <= MaxChunks + 2 /\ a + (N + 1) = m + 1 /\ N + 1 - 1 = N
    BY <1>1, StreamAssumption
  <2>2. PICK M \in Nat : M = N + 1
    BY <2>1
  <2>3. /\ Len(g) = M /\ M >= 1 /\ a + M <= MaxChunks + 2 /\ \A i \in 1..M : g[i] = a + i
        /\ c = EndOf[a + M] - EndOf[a]
    BY <1>2, <1>3, <2>1, <2>2
  <2>4. /\ d \in 0..(M - 1) /\ rest(d) \in Seq(Nat) /\ Len(rest(d)) = M - d
        /\ \A i \in 1..(M - d) : rest(d)[i] = a + d + i
        /\ bytes(d) = EndOf[a + M] - EndOf[a + d] /\ Fits(rest(d), bytes(d))
    BY <1>2, <1>3, <2>3, TrimRun
  <2> HIDE DEF d, rest, bytes
  <2>5. M - 1 = N /\ N + 1 = M
    BY <2>2
  <2> QED BY <2>4, <2>5
<1>7. n = [h EXCEPT !.frames = rest(d), !.bytes = bytes(d)]
  BY <1>4 DEF Trim
<1> HIDE DEF d, rest, bytes
<1>8. /\ DOMAIN n = {"frames", "bytes", "nextSeq", "finalized", "content"}
      /\ n.frames = rest(d) /\ n.bytes = bytes(d) /\ n.nextSeq = m + 1
      /\ n.finalized = e.finalized /\ n.content = e.content
  BY <1>4, <1>7
<1> HIDE DEF n
<1>9. /\ Len(n.frames) = N + 1 - d /\ Low(n) = a + d /\ m + 1 \in 0..(MaxChunks + 2)
      /\ N + 1 - d <= m + 1 /\ N + 1 - d >= 1 /\ a + (N + 1) = m + 1
  <2>1. Len(n.frames) = N + 1 - d
    BY <1>6, <1>8
  <2>2. Low(n) = (m + 1) - (N + 1 - d)
    BY <1>8, <2>1 DEF Low
  <2> QED BY <1>1, <1>6, <2>1, <2>2, StreamAssumption
<1>10. e.finalized \in BOOLEAN
  BY DEF Window
<1>11. e.content \in Nat /\ e.content <= m
  BY <1>1 DEF Window
<1>12. n.frames # <<>>
  BY <1>6, <1>9, EmptySeq
<1>13. Window(n)
  <2>1. n.content \in Nat /\ n.content <= n.nextSeq
    BY <1>8, <1>11
  <2>2. n.finalized \in BOOLEAN
    BY <1>8, <1>10
  <2>3. \A i \in 1..Len(n.frames) : n.frames[i] = Low(n) + i
    BY <1>6, <1>8, <1>9
  <2>4. n.frames \in Seq(Nat) /\ n.nextSeq \in 0..(MaxChunks + 2) /\ Len(n.frames) <= n.nextSeq
    BY <1>6, <1>8, <1>9
  <2>5. n.bytes = EndOf[n.nextSeq] - EndOf[Low(n)] /\ Fits(n.frames, n.bytes)
    BY <1>6, <1>8, <1>9
  <2> QED BY <1>8, <1>12, <2>1, <2>2, <2>3, <2>4, <2>5 DEF Window
<1>14. n.nextSeq = e.nextSeq + 1 /\ Low(n) >= Low(e)
  BY <1>1, <1>6, <1>8, <1>9
<1> QED BY <1>5, <1>8, <1>13, <1>14 DEF n

\* The n-th position of an interval.
LEMMA NthOfInterval ==
    ASSUME NEW k \in Nat, NEW N \in Nat, k <= N
    PROVE  /\ Cardinality((k + 1)..N) = N - k
           /\ \A n \in 1..(N - k) : NthFrame((k + 1)..N, n) = k + n
<1> DEFINE S == (k + 1)..N
<1>1. Cardinality(S) = N - k
  <2>1. k + 1 \in Int /\ N \in Int
    OBVIOUS
  <2>2. Cardinality((k + 1)..N) = IF k + 1 > N THEN 0 ELSE N - (k + 1) + 1
    BY <2>1, FS_Interval
  <2>3. (IF k + 1 > N THEN 0 ELSE N - (k + 1) + 1) = N - k
    OBVIOUS
  <2> QED BY <2>2, <2>3
<1>2. ASSUME NEW i \in S
      PROVE  Cardinality({j \in S : j < i}) = i - (k + 1)
  <2>1. {j \in S : j < i} = (k + 1)..(i - 1) /\ i - 1 \in Int /\ k + 1 \in Int /\ i \in Int
    OBVIOUS
  <2>2. Cardinality((k + 1)..(i - 1)) = IF k + 1 > i - 1 THEN 0 ELSE (i - 1) - (k + 1) + 1
    BY <2>1, FS_Interval
  <2>3. (IF k + 1 > i - 1 THEN 0 ELSE (i - 1) - (k + 1) + 1) = i - (k + 1)
    BY <2>1
  <2>4. {j \in S : j < i} = (k + 1)..(i - 1)
    BY <2>1
  <2> QED BY <2>2, <2>3, <2>4
<1>3. ASSUME NEW n \in 1..(N - k)
      PROVE  NthFrame(S, n) = k + n
  <2>1. k + n \in S /\ \A i \in S : i - (k + 1) = n - 1 <=> i = k + n
    OBVIOUS
  <2> HIDE DEF S
  <2>2. \A i \in S : Cardinality({j \in S : j < i}) = n - 1 <=> i = k + n
    BY <1>2, <2>1
  <2> QED BY <2>1, <2>2 DEF NthFrame
<1> QED BY <1>1, <1>3

\* A replay gets the frames from its cursor, or from the oldest one left, up to
\* the newest.
LEMMA AfterCursor ==
    ASSUME NEW e, Window(e), NEW c \in Nat
    PROVE  \E lo \in Nat :
              /\ lo = IF c > Low(e) THEN c ELSE Low(e)
              /\ FramesAfter(e, c) \in Seq(Nat)
              /\ Len(FramesAfter(e, c)) = IF e.nextSeq > lo THEN e.nextSeq - lo ELSE 0
              /\ \A n \in 1..Len(FramesAfter(e, c)) : FramesAfter(e, c)[n] = lo + n
<1>1. PICK m, a, N \in Nat :
              /\ e.nextSeq = m /\ Low(e) = a /\ Len(e.frames) = N /\ m = a + N /\ m <= MaxChunks + 2
              /\ e.frames \in Seq(Nat) /\ \A i \in 1..N : e.frames[i] = a + i
              /\ e.bytes = EndOf[m] - EndOf[a]
  BY WindowRun
<1>2. PICK k \in Nat : k = IF c > a THEN (IF c - a <= N THEN c - a ELSE N) ELSE 0
  <2> DEFINE t == IF c > a THEN (IF c - a <= N THEN c - a ELSE N) ELSE 0
  <2>1. t \in Nat
    OBVIOUS
  <2> HIDE DEF t
  <2>2. \E k \in Nat : k = t
    BY <2>1
  <2> QED BY <2>2 DEF t
<1>3. PICK lo \in Nat : lo = IF c > a THEN c ELSE a
  OBVIOUS
<1> DEFINE newer == {i \in 1..Len(e.frames) : e.frames[i] > c}
           b == FramesAfter(e, c)
<1>4. newer = (k + 1)..N
  <2>1. newer = {i \in 1..N : a + i > c}
    BY <1>1
  <2>2. {i \in 1..N : a + i > c} = (k + 1)..N
    BY <1>2
  <2> QED BY <2>1, <2>2
<1>5. k <= N /\ Cardinality((k + 1)..N) = N - k /\ \A n \in 1..(N - k) : NthFrame((k + 1)..N, n) = k + n
  <2>1. k <= N
    BY <1>2
  <2> QED BY <2>1, NthOfInterval
<1>6. b = [n \in 1..(N - k) |-> e.frames[NthFrame((k + 1)..N, n)]]
  BY <1>4, <1>5 DEF FramesAfter
<1>7. ASSUME NEW n \in 1..(N - k)
      PROVE  b[n] = lo + n
  <2>1. b[n] = e.frames[k + n]
    BY <1>5, <1>6
  <2>2. k + n \in 1..N
    BY <1>5
  <2>3. b[n] = a + (k + n)
    BY <1>1, <2>1, <2>2
  <2>4. a + k = lo
    BY <1>2, <1>3, <1>5
  <2> QED BY <2>3, <2>4
<1>8. N - k \in Nat /\ \A n \in 1..(N - k) : lo + n \in Nat
  BY <1>5
<1>9. b \in [1..(N - k) -> Nat]
  <2> HIDE DEF b
  <2>1. DOMAIN b = 1..(N - k) /\ b = [n \in 1..(N - k) |-> b[n]]
    BY <1>6
  <2> QED BY <1>7, <1>8, <2>1
<1>10. b \in Seq(Nat) /\ Len(b) = N - k
  <2> HIDE DEF b
  <2> QED BY <1>8, <1>9, SeqDef, LenProperties, IsASeq
<1>11. N - k = IF m > lo THEN m - lo ELSE 0
  BY <1>1, <1>2, <1>3
<1> HIDE DEF b
<1> QED BY <1>1, <1>3, <1>7, <1>10, <1>11 DEF b

----------------------------------------------------------------------------
(* Entries and replays together. *)

\* Where a handler stands bounds what its entry holds: nothing is finalized
\* before the upstream is done, and at most two frames come after it.
Phase(l, e) ==
    /\ l \in {"idle", "stamped", "opened", "failed", "live"} => ~ e.finalized
    /\ l \notin {"usage", "done"} => e.nextSeq <= MaxChunks
    /\ l = "usage" => e.nextSeq <= MaxChunks + 1

NInv ==
    /\ entry = [p \in Streams |-> entry[p]]
    /\ \A p \in Streams : Window(entry[p]) /\ Phase(handler[p], entry[p])

\* What an entry may do under a replay: its window moves on, and what the
\* upstream sent is settled once.
Grows(e, n) ==
    /\ Low(n) >= Low(e)
    /\ e.finalized => n.finalized /\ n.content = e.content

\* A new frame.
LEMMA AppendedEntry ==
    ASSUME HInv, NInv, NEW p \in Streams, AppendEvent(p), entry[p].nextSeq < MaxChunks + 2,
           handler' = [handler EXCEPT ![p] = handler'[p]],
           handler'[p] \in {"idle", "stamped", "opened", "failed", "live"} => ~ entry[p].finalized,
           handler'[p] \notin {"usage", "done"} => entry[p].nextSeq < MaxChunks,
           handler'[p] = "usage" => entry[p].nextSeq <= MaxChunks
    PROVE  NInv' /\ \A q \in Streams : Grows(entry[q], entry'[q])
<1> DEFINE e == entry[p]
           n == AppendFrame(e)
<1>1. /\ Window(n) /\ n.nextSeq = e.nextSeq + 1 /\ Low(n) >= Low(e)
      /\ n.finalized = e.finalized /\ n.content = e.content
  BY AppendWindow DEF NInv
<1>2. entry' = [entry EXCEPT ![p] = n]
  BY DEF AppendEvent
<1>3. e.nextSeq \in 0..(MaxChunks + 2) /\ MaxChunks \in Nat
  BY StreamAssumption DEF NInv, Window
<1> HIDE DEF n
<1>4. Phase(handler'[p], n)
  <2>1. handler'[p] \notin {"usage", "done"} => n.nextSeq <= MaxChunks
    BY <1>1, <1>3
  <2>2. handler'[p] = "usage" => n.nextSeq <= MaxChunks + 1
    BY <1>1, <1>3
  <2> QED BY <1>1, <2>1, <2>2 DEF Phase
<1>5. Grows(e, n)
  BY <1>1 DEF Grows
<1>6. ASSUME NEW q \in Streams
      PROVE  Window(entry'[q]) /\ Phase(handler'[q], entry'[q]) /\ Grows(entry[q], entry'[q])
  <2>1. CASE q = p
    <3>1. entry'[q] = n
      BY <1>2, <2>1 DEF NInv
    <3> QED BY <1>1, <1>4, <1>5, <2>1, <3>1
  <2>2. CASE q # p
    <3>1. entry'[q] = entry[q] /\ handler'[q] = handler[q]
      BY <1>2, <2>2 DEF NInv, HInv
    <3>2. Low(entry[q]) >= Low(entry[q])
      <4>1. \E m, a, N \in Nat : Low(entry[q]) = a
        BY WindowRun DEF NInv
      <4> QED BY <4>1
    <3> QED BY <3>1, <3>2 DEF NInv, Grows
  <2> QED BY <2>1, <2>2
<1>7. entry' = [q \in Streams |-> entry'[q]]
  BY <1>2 DEF NInv
<1> QED BY <1>6, <1>7 DEF NInv

\* A step that leaves the entries alone.
LEMMA SameEntries ==
    ASSUME NInv, UNCHANGED entry, \A q \in Streams : Phase(handler'[q], entry[q])
    PROVE  NInv' /\ \A q \in Streams : Grows(entry[q], entry'[q])
<1>1. ASSUME NEW q \in Streams PROVE Low(entry[q]) >= Low(entry[q])
  <2>1. \E m, a, N \in Nat : Low(entry[q]) = a
    BY WindowRun DEF NInv
  <2> QED BY <2>1
<1>2. NInv'
  BY DEF NInv
<1> QED BY <1>1, <1>2 DEF Grows

\* Every step keeps the windows and moves them on.
LEMMA NInvStep ==
    ASSUME HInv, NInv, [Next]_vars
    PROVE  NInv' /\ \A q \in Streams : Grows(entry[q], entry'[q])
<1>1. ASSUME UNCHANGED <<entry, handler>>
      PROVE  NInv' /\ \A q \in Streams : Grows(entry[q], entry'[q])
  BY <1>1, SameEntries DEF NInv
<1>2. ASSUME NEW p \in Streams, NEW l \in Labels, UNCHANGED entry, handler' = [handler EXCEPT ![p] = l],
             Phase(l, entry[p])
      PROVE  NInv' /\ \A q \in Streams : Grows(entry[q], entry'[q])
  <2>1. \A q \in Streams : Phase(handler'[q], entry[q])
    BY <1>2 DEF HInv, NInv
  <2> QED BY <1>2, <2>1, SameEntries
<1>3. ASSUME NEW p \in Streams,
             \/ \E s \in SidsOf[p] : OpenStamp(p, s)
             \/ OpenInsert(p) \/ StreamChatFails(p) \/ ReleaseAgain(p) \/ StreamChatStarts(p) \/ NoTerminal(p)
      PROVE  NInv' /\ \A q \in Streams : Grows(entry[q], entry'[q])
  <2>1. UNCHANGED entry /\ Phase(handler[p], entry[p])
    BY <1>3 DEF OpenStamp, OpenInsert, StreamChatFails, ReleaseAgain, StreamChatStarts, NoTerminal, NInv
  <2>2. \/ handler[p] = "idle" /\ handler' = [handler EXCEPT ![p] = "stamped"]
        \/ handler[p] = "stamped" /\ handler' = [handler EXCEPT ![p] = "opened"]
        \/ handler[p] = "opened" /\ handler' = [handler EXCEPT ![p] = "failed"]
        \/ handler[p] = "opened" /\ handler' = [handler EXCEPT ![p] = "live"]
        \/ handler[p] \in {"failed", "closed"} /\ handler' = [handler EXCEPT ![p] = "done"]
    BY <1>3 DEF OpenStamp, OpenInsert, StreamChatFails, ReleaseAgain, StreamChatStarts, NoTerminal, Goto
  <2>3. \E l \in Labels : handler' = [handler EXCEPT ![p] = l] /\ Phase(l, entry[p])
    BY <2>1, <2>2 DEF Phase, Labels
  <2> QED BY <1>2, <2>1, <2>3
<1>4. ASSUME NEW p \in Streams, Chunk(p)
      PROVE  NInv' /\ \A q \in Streams : Grows(entry[q], entry'[q])
  <2>1. /\ handler[p] = "live" /\ entry[p].nextSeq < MaxChunks /\ AppendEvent(p) /\ UNCHANGED handler
    BY <1>4 DEF Chunk
  <2>2. handler' = [handler EXCEPT ![p] = handler'[p]] /\ handler'[p] = "live"
    BY <2>1 DEF HInv
  <2>3. ~ entry[p].finalized
    BY <2>1 DEF NInv, Phase
  <2>4. entry[p].nextSeq < MaxChunks + 2
    BY <2>1, StreamAssumption DEF NInv, Window
  <2>5. /\ handler'[p] \in {"idle", "stamped", "opened", "failed", "live"} => ~ entry[p].finalized
        /\ handler'[p] \notin {"usage", "done"} => entry[p].nextSeq < MaxChunks
        /\ handler'[p] = "usage" => entry[p].nextSeq <= MaxChunks
    BY <2>1, <2>2, <2>3
  <2> QED BY <2>1, <2>2, <2>4, <2>5, AppendedEntry
<1>5. ASSUME NEW p \in Streams, NEW last \in BOOLEAN, Terminal(p, last)
      PROVE  NInv' /\ \A q \in Streams : Grows(entry[q], entry'[q])
  <2>1. /\ handler[p] = "closed" \/ (handler[p] = "usage" /\ last)
        /\ AppendEvent(p) /\ handler' = [handler EXCEPT ![p] = IF last THEN "done" ELSE "usage"]
    BY <1>5 DEF Terminal, Goto
  <2>2. handler'[p] = (IF last THEN "done" ELSE "usage") /\ handler' = [handler EXCEPT ![p] = handler'[p]]
    BY <2>1 DEF HInv
  <2>3. entry[p].nextSeq \in 0..(MaxChunks + 2) /\ MaxChunks \in Nat /\ Phase(handler[p], entry[p])
    BY StreamAssumption DEF NInv, Window
  <2>4. entry[p].nextSeq < MaxChunks + 2
    BY <2>1, <2>3 DEF Phase
  <2>5. handler'[p] = "usage" => entry[p].nextSeq <= MaxChunks
    BY <2>1, <2>2, <2>3 DEF Phase
  <2>6. handler'[p] \in {"usage", "done"}
    BY <2>2
  <2>7. /\ handler'[p] \in {"idle", "stamped", "opened", "failed", "live"} => ~ entry[p].finalized
        /\ handler'[p] \notin {"usage", "done"} => entry[p].nextSeq < MaxChunks
    BY <2>6
  <2> QED BY <2>1, <2>2, <2>4, <2>5, <2>7, AppendedEntry
<1>6. ASSUME NEW p \in Streams, MarkFinalized(p)
      PROVE  NInv' /\ \A q \in Streams : Grows(entry[q], entry'[q])
  <2> DEFINE e == entry[p]
             n == [e EXCEPT !.finalized = TRUE, !.content = e.nextSeq]
  <2>1. /\ handler[p] = "live" /\ handler' = [handler EXCEPT ![p] = "closed"]
        /\ entry' = [entry EXCEPT ![p] = n]
    BY <1>6 DEF MarkFinalized, Goto, NInv, Window
  <2>2. Window(e) /\ Phase("live", e)
    BY <2>1 DEF NInv
  <2>3. /\ DOMAIN n = {"frames", "bytes", "nextSeq", "finalized", "content"}
        /\ n.frames = e.frames /\ n.bytes = e.bytes /\ n.nextSeq = e.nextSeq
        /\ n.finalized = TRUE /\ n.content = e.nextSeq
    BY <2>2 DEF Window
  <2>4. PICK m, a, N \in Nat : e.nextSeq = m /\ Low(e) = a
    BY <2>2, WindowRun
  <2> HIDE DEF n
  <2>5. Low(n) = Low(e) /\ n.content \in Nat /\ n.content <= n.nextSeq
    BY <2>3, <2>4 DEF Low
  <2>6. Window(n)
    BY <2>2, <2>3, <2>5 DEF Window
  <2>7. Phase("closed", n) /\ Grows(e, n)
    BY <2>2, <2>3, <2>4, <2>5 DEF Phase, Grows
  <2>8. ASSUME NEW q \in Streams
        PROVE  Window(entry'[q]) /\ Phase(handler'[q], entry'[q]) /\ Grows(entry[q], entry'[q])
    <3>1. CASE q = p
      <4>1. entry'[q] = n /\ handler'[q] = "closed"
        BY <2>1, <3>1 DEF NInv, HInv
      <4> QED BY <2>6, <2>7, <3>1, <4>1
    <3>2. CASE q # p
      <4>1. entry'[q] = entry[q] /\ handler'[q] = handler[q]
        BY <2>1, <3>2 DEF NInv, HInv
      <4>2. \E x, y, z \in Nat : Low(entry[q]) = y
        BY WindowRun DEF NInv
      <4>3. Low(entry[q]) >= Low(entry[q])
        BY <4>2
      <4> QED BY <4>1, <4>3 DEF NInv, Grows
    <3> QED BY <3>1, <3>2
  <2>9. entry' = [q \in Streams |-> entry'[q]]
    BY <2>1 DEF NInv
  <2> QED BY <2>8, <2>9 DEF NInv
<1>7. ASSUME \/ UNCHANGED vars
             \/ \E k \in 1..Len(stamps) : ReapExpired(k)
             \/ \E r \in Readers :
                   \/ \E s \in Sids, c \in Cursors : ReplayOpens(r, s, c)
                   \/ ReplayStep(r) \/ ReplayClientLeaves(r)
      PROVE  NInv' /\ \A q \in Streams : Grows(entry[q], entry'[q])
  <2>1. UNCHANGED <<entry, handler>>
    BY <1>7 DEF vars, ReapExpired, ReplayOpens, ReplayStep, ReplayClientLeaves, Set, Phase1,
                WriteFrame, ReplayWriteFails, LoopTest, WaitForNew, WaitWakes, TimerFires
  <2> QED BY <1>1, <2>1
<1> QED
  BY <1>3, <1>4, <1>5, <1>6, <1>7 DEF Next, HandlerStep

\* A replay and the entry it reads.
ReplayStages == {"idle", "phase1", "write", "poll", "waiting", "woken", "drained", "ended"}

ReplayTyped(x) ==
    /\ IsReplay(x) /\ x.pc \in ReplayStages /\ x.of \in Streams /\ x.afterSeq \in Nat /\ x.batch \in Seq(Nat)
    /\ x.timer \in BOOLEAN /\ x.gone \in BOOLEAN

\* The batch is the run after lo, and lo is the cursor unless the window has
\* moved past it; a drained replay has all that the upstream sent.
RunsOn(x, e) ==
    /\ x.batch # <<>> => x.pc = "write"
    /\ \E lo \in Nat : /\ lo >= x.afterSeq /\ (lo = x.afterSeq \/ lo <= Low(e))
                       /\ \A n \in 1..Len(x.batch) : x.batch[n] = lo + n
    /\ x.pc = "drained" => e.finalized /\ x.afterSeq >= e.content

PInv ==
    /\ replay = [r \in Readers |-> replay[r]]
    /\ \A r \in Readers : ReplayTyped(replay[r]) /\ RunsOn(replay[r], entry[replay[r].of])

\* An entry that moves on does not disturb its replays.
LEMMA FollowsGrowth ==
    ASSUME NEW x, ReplayTyped(x), NEW e, Window(e), NEW n, Window(n), Grows(e, n), RunsOn(x, e)
    PROVE  RunsOn(x, n)
<1>1. PICK lo \in Nat : /\ lo >= x.afterSeq /\ (lo = x.afterSeq \/ lo <= Low(e))
                        /\ \A i \in 1..Len(x.batch) : x.batch[i] = lo + i
  BY DEF RunsOn
<1>2. \E m, a, N \in Nat : Low(e) = a
  BY WindowRun
<1>3. \E m, a, N \in Nat : Low(n) = a
  BY WindowRun
<1>4. lo <= Low(e) => lo <= Low(n)
  BY <1>2, <1>3 DEF Grows
<1>5. x.pc = "drained" => n.finalized /\ x.afterSeq >= n.content
  BY DEF RunsOn, Grows
<1> QED BY <1>1, <1>4, <1>5 DEF RunsOn

\* A replay with nothing left to write whose stage, timer or client changes.
LEMMA StageStep ==
    ASSUME NEW x, ReplayTyped(x), NEW e, RunsOn(x, e), x.batch = <<>>, NEW y, ReplayTyped(y),
           y.afterSeq = x.afterSeq, y.batch = <<>>, y.pc = "drained" => x.pc = "drained"
    PROVE  RunsOn(y, e)
<1>1. PICK lo \in Nat : lo >= x.afterSeq /\ (lo = x.afterSeq \/ lo <= Low(e))
  BY DEF RunsOn
<1>2. Len(y.batch) = 0
  BY EmptySeq
<1>3. \A n \in 1..Len(y.batch) : y.batch[n] = lo + n
  BY <1>2
<1> QED BY <1>1, <1>3 DEF RunsOn

\* A step in which entries move on and sleeping replays are woken.
LEMMA StreamWakes ==
    ASSUME PInv, NInv, NInv', \A p \in Streams : Grows(entry[p], entry'[p]),
           replay' = [r \in Readers |-> replay'[r]],
           \A r \in Readers : \/ replay'[r] = replay[r]
                              \/ replay[r].pc = "waiting" /\ replay'[r] = [replay[r] EXCEPT !.pc = "woken"]
    PROVE  PInv'
<1>1. ASSUME NEW r \in Readers
      PROVE  ReplayTyped(replay'[r]) /\ RunsOn(replay'[r], entry'[replay'[r].of])
  <2> DEFINE x == replay[r]
             y == replay'[r]
             e == entry[x.of]
             n == entry'[x.of]
  <2>1. ReplayTyped(x) /\ RunsOn(x, e) /\ x.of \in Streams
    BY DEF PInv, ReplayTyped
  <2>2. Window(e) /\ Window(n) /\ Grows(e, n)
    BY <2>1 DEF NInv
  <2>3. RunsOn(x, n)
    BY <2>1, <2>2, FollowsGrowth
  <2>4. CASE y = x
    BY <2>1, <2>3, <2>4
  <2>5. CASE x.pc = "waiting" /\ y = [x EXCEPT !.pc = "woken"]
    <3>1. /\ IsReplay(y) /\ y.pc = "woken" /\ y.of = x.of /\ y.afterSeq = x.afterSeq /\ y.batch = x.batch
          /\ y.timer = x.timer /\ y.gone = x.gone
      BY <2>1, <2>5 DEF ReplayTyped, IsReplay
    <3>2. x.batch = <<>>
      BY <2>1, <2>5 DEF RunsOn
    <3> HIDE DEF x, y, n
    <3>3. ReplayTyped(y)
      BY <2>1, <3>1 DEF ReplayTyped, ReplayStages
    <3>4. RunsOn(y, n)
      BY <2>1, <2>3, <3>1, <3>2, <3>3, StageStep
    <3> QED BY <3>1, <3>3, <3>4 DEF x, y, n
  <2> QED BY <2>4, <2>5
<1> QED BY <1>1 DEF PInv

\* A step of one replay.
LEMMA OneReplayStep ==
    ASSUME PInv, NEW r \in Readers, NEW x, Set(r, x), ReplayTyped(x), RunsOn(x, entry[x.of])
    PROVE  PInv'
<1>1. replay' = [replay EXCEPT ![r] = x] /\ UNCHANGED entry
  BY DEF Set
<1>2. replay' = [q \in Readers |-> replay'[q]]
  BY <1>1 DEF PInv
<1>3. ASSUME NEW q \in Readers
      PROVE  ReplayTyped(replay'[q]) /\ RunsOn(replay'[q], entry'[replay'[q].of])
  <2>1. CASE q = r
    BY <1>1, <2>1 DEF PInv
  <2>2. CASE q # r
    BY <1>1, <2>2 DEF PInv
  <2> QED BY <2>1, <2>2
<1> QED BY <1>2, <1>3 DEF PInv

\* A batch taken from the entry follows it.
LEMMA BatchFollows ==
    ASSUME NEW e, Window(e), NEW y, ReplayTyped(y), y.pc = "write", y.batch = FramesAfter(e, y.afterSeq)
    PROVE  RunsOn(y, e)
<1>1. y.afterSeq \in Nat
  BY DEF ReplayTyped
<1>2. PICK lo \in Nat :
         /\ lo = IF y.afterSeq > Low(e) THEN y.afterSeq ELSE Low(e)
         /\ \A n \in 1..Len(FramesAfter(e, y.afterSeq)) : FramesAfter(e, y.afterSeq)[n] = lo + n
  BY <1>1, AfterCursor
<1>3. \E m, a, N \in Nat : Low(e) = a
  BY WindowRun
<1>4. lo >= y.afterSeq /\ (lo = y.afterSeq \/ lo <= Low(e))
  BY <1>1, <1>2, <1>3
<1> QED BY <1>2, <1>4 DEF RunsOn

\* Nothing beyond the cursor of a finalized stream: the replay has it all.
LEMMA DrainedHasAll ==
    ASSUME NEW e, Window(e), NEW c \in Nat, FramesAfter(e, c) = <<>>
    PROVE  c >= e.content
<1>1. PICK m, a, N \in Nat : e.nextSeq = m /\ Low(e) = a /\ Len(e.frames) = N /\ m = a + N
  BY WindowRun
<1>2. PICK lo \in Nat :
         /\ lo = IF c > Low(e) THEN c ELSE Low(e)
         /\ Len(FramesAfter(e, c)) = IF e.nextSeq > lo THEN e.nextSeq - lo ELSE 0
  BY AfterCursor
<1>3. m <= lo
  <2>1. Len(FramesAfter(e, c)) = 0
    BY EmptySeq
  <2> QED BY <1>1, <1>2, <2>1
<1>4. m > 0 => N # 0
  BY <1>1, EmptySeq DEF Window
<1>5. m <= c
  BY <1>1, <1>2, <1>3, <1>4
<1>6. e.content \in Nat /\ e.content <= m
  BY <1>1 DEF Window
<1> QED BY <1>5, <1>6

\* What WaitForNew returns: the frames beyond the cursor, or the end.
LEMMA ReturnedFollows ==
    ASSUME NInv, PInv, NEW r \in Readers, replay[r].batch = <<>>
    PROVE  ReplayTyped(Returned(r)) /\ Returned(r).of = replay[r].of /\ RunsOn(Returned(r), entry[replay[r].of])
<1> DEFINE x == replay[r]
           e == entry[x.of]
           b == FramesAfter(e, x.afterSeq)
           y == Returned(r)
<1>1. ReplayTyped(x) /\ RunsOn(x, e) /\ Window(e) /\ x.afterSeq \in Nat
  BY DEF PInv, ReplayTyped, NInv
<1>2. b \in Seq(Nat)
  BY <1>1, AfterCursor
<1>3. CASE e.finalized /\ b = <<>>
  <2>1. y = [x EXCEPT !.pc = "drained", !.timer = FALSE]
    BY <1>3 DEF Returned
  <2>2. x.afterSeq >= e.content
    BY <1>1, <1>3, DrainedHasAll
  <2> HIDE DEF y
  <2>3. /\ IsReplay(y) /\ y.pc = "drained" /\ y.of = x.of /\ y.afterSeq = x.afterSeq /\ y.batch = x.batch
        /\ y.timer = FALSE /\ y.gone = x.gone
    BY <1>1, <2>1 DEF ReplayTyped, IsReplay
  <2> HIDE DEF x, e, b
  <2>4. ReplayTyped(y)
    BY <1>1, <2>3 DEF ReplayTyped, ReplayStages
  <2>5. y.batch = <<>>
    BY <2>3 DEF x
  <2>6. Len(y.batch) = 0
    BY <2>5, EmptySeq
  <2>7. \A n \in 1..Len(y.batch) : y.batch[n] = x.afterSeq + n
    BY <2>6
  <2>8. RunsOn(y, e)
    BY <1>1, <1>3, <2>2, <2>3, <2>5, <2>7 DEF RunsOn
  <2> QED BY <2>3, <2>4, <2>8 DEF x, e, y
<1>4. CASE ~ (e.finalized /\ b = <<>>)
  <2>1. y = [x EXCEPT !.pc = "write", !.batch = b, !.timer = FALSE]
    BY <1>4 DEF Returned
  <2> HIDE DEF y, b
  <2>2. /\ IsReplay(y) /\ y.pc = "write" /\ y.of = x.of /\ y.afterSeq = x.afterSeq /\ y.batch = b
        /\ y.timer = FALSE /\ y.gone = x.gone
    BY <1>1, <2>1 DEF ReplayTyped, IsReplay
  <2> HIDE DEF x, e
  <2>3. ReplayTyped(y)
    BY <1>1, <1>2, <2>2 DEF ReplayTyped, ReplayStages
  <2>4. RunsOn(y, e)
    BY <1>1, <2>2, <2>3, BatchFollows DEF b
  <2> QED BY <2>2, <2>3, <2>4 DEF x, e, y
<1> QED BY <1>3, <1>4

\* A replay whose stage alone changes, with nothing left to write.
LEMMA NewStage ==
    ASSUME PInv, NEW r \in Readers, replay[r].batch = <<>>, NEW l \in ReplayStages \ {"drained"}, NEW t \in BOOLEAN,
           NEW y, IsReplay(y), y.pc = l, y.of = replay[r].of, y.afterSeq = replay[r].afterSeq, y.batch = <<>>,
           y.timer = t, y.gone = replay[r].gone
    PROVE  ReplayTyped(y) /\ RunsOn(y, entry[y.of])
<1>1. ReplayTyped(replay[r]) /\ RunsOn(replay[r], entry[replay[r].of])
  BY DEF PInv
<1>2. ReplayTyped(y)
  BY <1>1 DEF ReplayTyped
<1> QED BY <1>1, <1>2, StageStep

\* The frame at the head of the batch is written.
LEMMA WriteFollows ==
    ASSUME PInv, NEW r \in Readers, WriteFrame(r)
    PROVE  LET y == [replay[r] EXCEPT !.afterSeq = Head(replay[r].batch), !.batch = Tail(@)]
           IN  ReplayTyped(y) /\ RunsOn(y, entry[y.of])
<1> DEFINE x == replay[r]
           b == x.batch
           y == [x EXCEPT !.afterSeq = Head(x.batch), !.batch = Tail(@)]
<1>1. /\ ReplayTyped(x) /\ RunsOn(x, entry[x.of]) /\ b \in Seq(Nat) /\ b # <<>> /\ x.pc = "write"
      /\ x.afterSeq \in Nat
  BY DEF PInv, ReplayTyped, WriteFrame
<1>2. PICK lo \in Nat : lo >= x.afterSeq /\ \A n \in 1..Len(b) : b[n] = lo + n
  BY <1>1 DEF RunsOn
<1>3. /\ IsReplay(y) /\ y.pc = "write" /\ y.of = x.of /\ y.afterSeq = Head(b) /\ y.batch = Tail(b)
      /\ y.timer = x.timer /\ y.gone = x.gone
  BY <1>1 DEF ReplayTyped, IsReplay
<1> HIDE DEF b, y
<1>4. /\ Len(b) \in Nat /\ Len(b) >= 1 /\ Head(b) = b[1] /\ Tail(b) \in Seq(Nat) /\ Len(Tail(b)) = Len(b) - 1
      /\ \A n \in 1..(Len(b) - 1) : Tail(b)[n] = b[n + 1]
  BY <1>1, HeadTailProperties, LenProperties, EmptySeq
<1>5. Head(b) = lo + 1
  BY <1>2, <1>4
<1>6. ASSUME NEW n \in 1..Len(Tail(b))
      PROVE  Tail(b)[n] = (lo + 1) + n
  <2>1. n \in 1..(Len(b) - 1) /\ n + 1 \in 1..Len(b) /\ lo + (n + 1) = (lo + 1) + n
    BY <1>4
  <2> QED BY <1>2, <1>4, <2>1
<1>7. ReplayTyped(y)
  <2>1. y.afterSeq \in Nat /\ y.batch \in Seq(Nat)
    BY <1>3, <1>4, <1>5
  <2> QED BY <1>1, <1>3, <2>1 DEF ReplayTyped, ReplayStages
<1>8. RunsOn(y, entry[y.of])
  <2>1. lo + 1 \in Nat /\ lo + 1 >= y.afterSeq /\ lo + 1 = y.afterSeq
    BY <1>3, <1>5
  <2>2. \A n \in 1..Len(y.batch) : y.batch[n] = (lo + 1) + n
    BY <1>3, <1>6
  <2> QED BY <1>3, <2>1, <2>2 DEF RunsOn
<1> QED BY <1>7, <1>8 DEF y

\* Every step keeps the replays behind their entries.
LEMMA PInvStep ==
    ASSUME HInv, NInv, PInv, [Next]_vars
    PROVE  PInv'
<1>1. NInv' /\ \A q \in Streams : Grows(entry[q], entry'[q])
  BY NInvStep
<1>2. ASSUME UNCHANGED replay PROVE PInv'
  BY <1>1, <1>2, StreamWakes DEF PInv
<1>3. ASSUME NEW p \in Streams, Broadcast(p) PROVE PInv'
  <2>1. replay' = [r \in Readers |-> replay'[r]]
    BY <1>3 DEF Broadcast
  <2>2. \A r \in Readers : \/ replay'[r] = replay[r]
                           \/ replay[r].pc = "waiting" /\ replay'[r] = [replay[r] EXCEPT !.pc = "woken"]
    BY <1>3 DEF Broadcast
  <2> QED BY <1>1, <2>1, <2>2, StreamWakes
<1>4. ASSUME NEW p \in Streams, HandlerStep(p) PROVE PInv'
  BY <1>2, <1>3, <1>4 DEF HandlerStep, OpenStamp, OpenInsert, StreamChatFails, ReleaseAgain, StreamChatStarts,
     Chunk, Terminal, MarkFinalized, NoTerminal, AppendEvent
<1>5. ASSUME NEW k \in 1..Len(stamps), ReapExpired(k) PROVE PInv'
  BY <1>2, <1>5 DEF ReapExpired
<1>6. ASSUME NEW r \in Readers, NEW s \in Sids, NEW c \in Cursors, ReplayOpens(r, s, c)
      PROVE  PInv'
  <2> DEFINE y == NewReplay(buffers[s], c)
  <2>1. buffers[s] \in Streams /\ c \in Nat /\ Set(r, y)
    BY <1>6, StreamAssumption DEF ReplayOpens, HInv
  <2>2. /\ IsReplay(y) /\ y.pc = "phase1" /\ y.of = buffers[s] /\ y.afterSeq = c /\ y.batch = <<>>
        /\ y.timer = FALSE /\ y.gone = FALSE
    BY DEF NewReplay, IsReplay
  <2> HIDE DEF y
  <2>3. y.batch \in Seq(Nat) /\ Len(y.batch) = 0
    BY <2>2, EmptySeq
  <2>4. ReplayTyped(y)
    BY <2>1, <2>2, <2>3 DEF ReplayTyped, ReplayStages
  <2>5. \A n \in 1..Len(y.batch) : y.batch[n] = c + n
    BY <2>3
  <2>6. RunsOn(y, entry[y.of])
    BY <2>1, <2>2, <2>5 DEF RunsOn
  <2> QED BY <2>1, <2>4, <2>6, OneReplayStep
<1>7. ASSUME NEW r \in Readers, Phase1(r)
      PROVE  PInv'
  <2> DEFINE x == replay[r]
             b == FramesAfter(entry[x.of], x.afterSeq)
             y == [x EXCEPT !.pc = "write", !.batch = b]
  <2>1. Set(r, y) /\ ReplayTyped(x) /\ Window(entry[x.of]) /\ x.afterSeq \in Nat
    BY <1>7 DEF Phase1, PInv, NInv, ReplayTyped
  <2>2. b \in Seq(Nat)
    BY <2>1, AfterCursor
  <2> HIDE DEF b
  <2>3. /\ IsReplay(y) /\ y.pc = "write" /\ y.of = x.of /\ y.afterSeq = x.afterSeq /\ y.batch = b
        /\ y.timer = x.timer /\ y.gone = x.gone
    BY <2>1 DEF ReplayTyped, IsReplay
  <2> HIDE DEF y, x
  <2>4. ReplayTyped(y)
    BY <2>1, <2>2, <2>3 DEF ReplayTyped, ReplayStages
  <2>5. RunsOn(y, entry[y.of])
    BY <2>1, <2>3, <2>4, BatchFollows DEF b
  <2> QED BY <2>1, <2>4, <2>5, OneReplayStep
<1>8. ASSUME NEW r \in Readers, WriteFrame(r)
      PROVE  PInv'
  <2> DEFINE y == [replay[r] EXCEPT !.afterSeq = Head(replay[r].batch), !.batch = Tail(@)]
  <2>1. Set(r, y)
    BY <1>8 DEF WriteFrame
  <2>2. ReplayTyped(y) /\ RunsOn(y, entry[y.of])
    BY <1>8, WriteFollows
  <2> HIDE DEF y
  <2> QED BY <2>1, <2>2, OneReplayStep
<1>9. ASSUME NEW r \in Readers, ReplayWriteFails(r)
      PROVE  PInv'
  <2> DEFINE x == replay[r]
             y == [x EXCEPT !.pc = "ended", !.batch = <<>>]
  <2>1. Set(r, y) /\ ReplayTyped(x) /\ RunsOn(x, entry[x.of])
    BY <1>9 DEF ReplayWriteFails, PInv
  <2>2. /\ IsReplay(y) /\ y.pc = "ended" /\ y.of = x.of /\ y.afterSeq = x.afterSeq /\ y.batch = <<>>
        /\ y.timer = x.timer /\ y.gone = x.gone
    BY <2>1 DEF ReplayTyped, IsReplay
  <2> HIDE DEF y, x
  <2>3. y.batch \in Seq(Nat) /\ Len(y.batch) = 0
    BY <2>2, EmptySeq
  <2>4. ReplayTyped(y)
    BY <2>1, <2>2, <2>3 DEF ReplayTyped, ReplayStages
  <2>5. y.afterSeq \in Nat /\ \A n \in 1..Len(y.batch) : y.batch[n] = y.afterSeq + n
    BY <2>3, <2>4 DEF ReplayTyped
  <2>6. RunsOn(y, entry[y.of])
    BY <2>2, <2>5 DEF RunsOn
  <2> QED BY <2>1, <2>4, <2>6, OneReplayStep
<1>10. ASSUME NEW r \in Readers, LoopTest(r)
       PROVE  PInv'
  <2> DEFINE x == replay[r]
             l == IF x.gone THEN "ended" ELSE "poll"
             y == [x EXCEPT !.pc = l]
  <2>1. Set(r, y) /\ x.batch = <<>> /\ ReplayTyped(x)
    BY <1>10 DEF LoopTest, PInv
  <2>2. l \in ReplayStages \ {"drained"}
    BY DEF ReplayStages
  <2> HIDE DEF l
  <2>3. /\ IsReplay(y) /\ y.pc = l /\ y.of = x.of /\ y.afterSeq = x.afterSeq /\ y.batch = <<>>
        /\ y.timer = x.timer /\ y.gone = x.gone
    BY <2>1 DEF ReplayTyped, IsReplay
  <2>4. x.timer \in BOOLEAN
    BY <2>1 DEF ReplayTyped
  <2> HIDE DEF y
  <2>5. ReplayTyped(y) /\ RunsOn(y, entry[y.of])
    BY <2>1, <2>2, <2>3, <2>4, NewStage
  <2> QED BY <2>1, <2>5, OneReplayStep
<1>11. ASSUME NEW r \in Readers, WaitForNew(r) \/ WaitWakes(r)
       PROVE  PInv'
  <2> DEFINE x == replay[r]
  <2>1. ReplayTyped(x) /\ x.batch = <<>>
    BY <1>11 DEF WaitForNew, WaitWakes, PInv, RunsOn
  <2>2. CASE Pending(r)
    <3>1. Set(r, Returned(r))
      BY <1>11, <2>2 DEF WaitForNew, WaitWakes
    <3>2. ReplayTyped(Returned(r)) /\ RunsOn(Returned(r), entry[Returned(r).of])
      BY <2>1, ReturnedFollows
    <3> QED BY <3>1, <3>2, OneReplayStep
  <2>3. CASE ~ Pending(r)
    <3>1. PICK y : /\ Set(r, y)
                   /\ y = [x EXCEPT !.pc = "waiting", !.timer = TRUE] \/ y = [x EXCEPT !.pc = "waiting"]
      BY <1>11, <2>3 DEF WaitForNew, WaitWakes
    <3>2. /\ IsReplay(y) /\ y.pc = "waiting" /\ y.of = x.of /\ y.afterSeq = x.afterSeq /\ y.batch = <<>>
          /\ y.gone = x.gone
      BY <2>1, <3>1 DEF ReplayTyped, IsReplay
    <3>3. y.timer = x.timer \/ y.timer = TRUE
      BY <2>1, <3>1 DEF ReplayTyped, IsReplay
    <3>4. y.timer \in BOOLEAN
      BY <2>1, <3>3 DEF ReplayTyped
    <3>5. ReplayTyped(y) /\ RunsOn(y, entry[y.of])
      BY <2>1, <3>2, <3>4, NewStage DEF ReplayStages
    <3> QED BY <3>1, <3>5, OneReplayStep
  <2> QED BY <2>2, <2>3
<1>12. ASSUME NEW r \in Readers, TimerFires(r)
       PROVE  PInv'
  <2>1. replay' = [q \in Readers |-> replay'[q]] /\ UNCHANGED entry
    BY <1>12 DEF TimerFires
  <2>2. ASSUME NEW q \in Readers
        PROVE  ReplayTyped(replay'[q]) /\ RunsOn(replay'[q], entry[replay'[q].of])
    <3> DEFINE x == replay[q]
               y == replay'[q]
               l == IF x.of = replay[r].of /\ x.pc = "waiting" THEN "woken" ELSE x.pc
               t == x.timer /\ q # r
    <3>1. y = [x EXCEPT !.pc = l, !.timer = t]
      BY <1>12 DEF TimerFires
    <3>2. ReplayTyped(x) /\ RunsOn(x, entry[x.of]) /\ t \in BOOLEAN
      BY DEF PInv
    <3>3. l \in ReplayStages /\ (l = x.pc \/ (x.pc = "waiting" /\ l = "woken"))
      BY <3>2 DEF ReplayTyped, ReplayStages
    <3> HIDE DEF l, t
    <3>4. /\ IsReplay(y) /\ y.pc = l /\ y.of = x.of /\ y.afterSeq = x.afterSeq /\ y.batch = x.batch
          /\ y.timer = t /\ y.gone = x.gone
      BY <3>1, <3>2 DEF ReplayTyped, IsReplay
    <3> HIDE DEF x, y
    <3>5. ReplayTyped(y)
      BY <3>2, <3>3, <3>4 DEF ReplayTyped
    <3>6. RunsOn(y, entry[y.of])
      BY <3>2, <3>3, <3>4 DEF RunsOn
    <3> QED BY <3>5, <3>6 DEF y
  <2> QED BY <2>1, <2>2 DEF PInv
<1>13. ASSUME NEW r \in Readers, ReplayClientLeaves(r)
       PROVE  PInv'
  <2> DEFINE x == replay[r]
             y == [x EXCEPT !.gone = TRUE]
  <2>1. Set(r, y) /\ ReplayTyped(x) /\ RunsOn(x, entry[x.of])
    BY <1>13 DEF ReplayClientLeaves, PInv
  <2>2. /\ IsReplay(y) /\ y.pc = x.pc /\ y.of = x.of /\ y.afterSeq = x.afterSeq /\ y.batch = x.batch
        /\ y.timer = x.timer /\ y.gone = TRUE
    BY <2>1 DEF ReplayTyped, IsReplay
  <2> HIDE DEF x, y
  <2>3. ReplayTyped(y) /\ RunsOn(y, entry[y.of])
    BY <2>1, <2>2 DEF ReplayTyped, RunsOn
  <2> QED BY <2>1, <2>3, OneReplayStep
<1> QED
  BY <1>2, <1>4, <1>5, <1>6, <1>7, <1>8, <1>9, <1>10, <1>11, <1>12, <1>13 DEF Next, ReplayStep, vars

\* An entry is empty at first.
LEMMA NInvInit == Init => NInv
<1> SUFFICES ASSUME Init PROVE NInv
  OBVIOUS
<1>1. /\ DOMAIN NewEntry = {"frames", "bytes", "nextSeq", "finalized", "content"}
      /\ NewEntry.frames = <<>> /\ NewEntry.bytes = 0 /\ NewEntry.nextSeq = 0
      /\ NewEntry.finalized = FALSE /\ NewEntry.content = 0
  BY DEF NewEntry
<1> DEFINE e == NewEntry
<1> HIDE DEF e
<1>2. /\ DOMAIN e = {"frames", "bytes", "nextSeq", "finalized", "content"}
      /\ e.frames = <<>> /\ e.bytes = 0 /\ e.nextSeq = 0 /\ e.finalized = FALSE /\ e.content = 0
  BY <1>1 DEF e
<1>3. e.frames \in Seq(Nat) /\ Len(e.frames) = 0 /\ 0 \in 0..(MaxChunks + 2) /\ EndOf[0] \in Nat /\ 0 <= MaxEvents
  <2>1. MaxChunks \in Nat /\ MaxEvents \in Nat /\ EndOf \in [0..(MaxChunks + 2) -> Nat]
    BY StreamAssumption
  <2>2. 0 \in 0..(MaxChunks + 2)
    BY <2>1
  <2> QED BY <1>2, <2>1, <2>2, EmptySeq
<1>4. Low(e) = 0
  <2>1. e.nextSeq = 0 /\ Len(e.frames) = 0
    BY <1>2, <1>3
  <2> QED BY <2>1 DEF Low
<1>5. Fits(e.frames, e.bytes)
  BY <1>3 DEF Fits
<1>6. e.bytes = EndOf[e.nextSeq] - EndOf[Low(e)]
  BY <1>2, <1>3, <1>4
<1>7. e.finalized \in BOOLEAN /\ e.content \in Nat /\ e.content <= e.nextSeq /\ e.nextSeq \in 0..(MaxChunks + 2)
  <2>1. e.finalized \in BOOLEAN
    BY <1>2
  <2>2. e.content = 0 /\ e.nextSeq = 0
    BY <1>2
  <2> QED BY <1>3, <2>1, <2>2
<1>8. Len(e.frames) <= e.nextSeq /\ (\A i \in 1..Len(e.frames) : e.frames[i] = Low(e) + i) /\ ~ (e.nextSeq > 0)
  BY <1>2, <1>3
<1>9. Window(e)
  <2>1. DOMAIN e = {"frames", "bytes", "nextSeq", "finalized", "content"} /\ e.frames \in Seq(Nat)
    BY <1>2, <1>3
  <2> QED BY <2>1, <1>5, <1>6, <1>7, <1>8 DEF Window
<1>10. \A l : Phase(l, e)
  BY <1>2, StreamAssumption DEF Phase
<1>11. entry = [p \in Streams |-> e]
  BY DEF Init, e
<1> QED BY <1>9, <1>10, <1>11 DEF NInv

\* No replay has begun.
LEMMA PInvInit == Init => PInv
<1> SUFFICES ASSUME Init PROVE PInv
  OBVIOUS
<1> DEFINE x == NoReplay
<1>1. /\ IsReplay(x) /\ x.pc = "idle" /\ x.of = (CHOOSE p \in Streams : TRUE) /\ x.afterSeq = 0
      /\ x.batch = <<>> /\ x.timer = FALSE /\ x.gone = FALSE
  BY DEF NoReplay, NewReplay, IsReplay
<1> HIDE DEF x
<1>2. x.of \in Streams
  BY <1>1, IdsAssumption
<1>3. x.batch \in Seq(Nat) /\ Len(x.batch) = 0
  BY <1>1, EmptySeq
<1>4. ReplayTyped(x)
  <2>1. x.timer \in BOOLEAN /\ x.gone \in BOOLEAN
    BY <1>1
  <2>2. IsReplay(x) /\ x.pc \in ReplayStages /\ x.afterSeq \in Nat /\ x.batch \in Seq(Nat)
    BY <1>1, <1>3 DEF ReplayStages
  <2> QED BY <1>2, <2>1, <2>2 DEF ReplayTyped
<1>5. \A e : RunsOn(x, e)
  <2>1. 0 \in Nat /\ 0 >= x.afterSeq /\ 0 = x.afterSeq /\ \A n \in 1..Len(x.batch) : x.batch[n] = 0 + n
    BY <1>1, <1>3
  <2> QED BY <1>1, <2>1 DEF RunsOn
<1>6. replay = [r \in Readers |-> x]
  BY DEF Init, x
<1> QED BY <1>4, <1>5, <1>6 DEF PInv

\* Streams, their entries and their replays keep in step with each other.
THEOREM StreamInvariant == Spec => [](HInv /\ NInv /\ PInv)
<1>1. Init => HInv /\ NInv /\ PInv
  BY HInvInit, NInvInit, PInvInit
<1>2. (HInv /\ NInv /\ PInv) /\ [Next]_vars => (HInv /\ NInv /\ PInv)'
  BY HInvStep, NInvStep, PInvStep
<1> QED BY <1>1, <1>2, PTL DEF Spec

\* What the window promises of the frames, the bytes and the limits.
LEMMA WindowSound ==
    ASSUME NEW e, Window(e)
    PROVE  /\ Len(e.frames) <= MaxEvents /\ e.bytes \in Nat /\ e.nextSeq \in Nat
           /\ \A i \in 1..Len(e.frames) : e.frames[i] = e.nextSeq - Len(e.frames) + i
           /\ e.bytes = Bytes(e.frames)
<1>1. PICK m, a, N \in Nat :
         /\ e.nextSeq = m /\ Low(e) = a /\ Len(e.frames) = N /\ m = a + N /\ m <= MaxChunks + 2
         /\ e.frames \in Seq(Nat) /\ \A i \in 1..N : e.frames[i] = a + i
         /\ e.bytes = EndOf[m] - EndOf[a]
  BY WindowRun
<1>2. Len(e.frames) <= MaxEvents
  BY DEF Window, Fits
<1>3. e.bytes \in Nat
  <2>1. /\ MaxChunks \in Nat /\ EndOf \in [0..(MaxChunks + 2) -> Nat]
        /\ \A i, j \in 0..(MaxChunks + 2) : i < j => EndOf[i] < EndOf[j]
    BY StreamAssumption
  <2>2. m \in 0..(MaxChunks + 2) /\ a \in 0..(MaxChunks + 2) /\ (a = m \/ a < m)
    BY <1>1, <2>1
  <2>3. EndOf[a] <= EndOf[m] /\ EndOf[a] \in Nat /\ EndOf[m] \in Nat
    BY <2>1, <2>2
  <2> QED BY <1>1, <2>3
<1>4. e.bytes = Bytes(e.frames)
  <2>1. a + Len(e.frames) <= MaxChunks + 2 /\ \A i \in 1..Len(e.frames) : e.frames[i] = a + i
    BY <1>1
  <2> QED BY <1>1, <2>1, RunBytes
<1>5. m - N = a
  BY <1>1
<1> QED BY <1>1, <1>2, <1>3, <1>4, <1>5

\* Of every stream the gateway keeps the unbroken run of its newest frames,
\* the newest one always and no more than the limits allow, and a replay that
\* ends because its stream is over has written all that the upstream sent.
THEOREM StreamIsSound == Spec => []StreamSound
<1>1. HInv /\ NInv /\ PInv => StreamSound
  <2> SUFFICES ASSUME HInv, NInv, PInv PROVE StreamSound
    OBVIOUS
  <2>1. \A p \in Streams :
          /\ entry[p].frames \in Seq(Nat)
          /\ Len(entry[p].frames) <= MaxEvents
          /\ entry[p].bytes \in Nat /\ entry[p].nextSeq \in Nat /\ entry[p].content \in Nat
          /\ entry[p].finalized \in BOOLEAN
    BY WindowSound DEF NInv, Window
  <2>2. \A r \in Readers :
          /\ replay[r].pc \in {"idle", "phase1", "write", "poll", "waiting", "woken", "drained", "ended"}
          /\ replay[r].of \in Streams /\ replay[r].afterSeq \in Nat /\ replay[r].batch \in Seq(Nat)
          /\ replay[r].timer \in BOOLEAN /\ replay[r].gone \in BOOLEAN
    BY DEF PInv, ReplayTyped, ReplayStages
  <2>3. TypeOK
    BY <2>1, <2>2 DEF TypeOK, HInv, Labels
  <2>4. WindowIsNewest
    <3> SUFFICES ASSUME NEW p \in Streams
                 PROVE  LET f == entry[p].frames
                        IN  /\ \A i \in 1..Len(f) : f[i] = entry[p].nextSeq - Len(f) + i
                            /\ entry[p].nextSeq > 0 => f # <<>>
                            /\ entry[p].bytes = Bytes(f)
                            /\ Fits(f, entry[p].bytes)
      BY DEF WindowIsNewest
    <3>1. Window(entry[p])
      BY DEF NInv
    <3> QED BY <3>1, WindowSound DEF Window
  <2>5. ReplayDeliversContent
    BY DEF ReplayDeliversContent, PInv, RunsOn
  <2> QED BY <2>3, <2>4, <2>5 DEF StreamSound
<1> QED BY <1>1, StreamInvariant, PTL

\* A replay that has frames to write and goes on writing wrote one, or did
\* not move.
LEMMA WriterSteps ==
    ASSUME PInv, [Next]_vars, NEW r \in Readers, replay[r].batch # <<>>, replay'[r].pc = "write",
           replay'[r].batch # replay[r].batch
    PROVE  WriteFrame(r)
<1>1. /\ ReplayTyped(replay[r]) /\ replay[r].pc = "write" /\ replay = [q \in Readers |-> replay[q]]
      /\ IsReplay(replay[r])
  BY DEF PInv, RunsOn, ReplayTyped
<1>2. \A q \in Readers : \A x : Set(q, x) => replay'[r] = IF q = r THEN x ELSE replay[r]
  BY <1>1 DEF Set
<1>3. ~ UNCHANGED replay /\ \A p \in Streams : ~ Broadcast(p)
  <2>1. replay'[r] # replay[r]
    OBVIOUS
  <2> QED BY <1>1, <2>1 DEF Broadcast
<1>4. ASSUME NEW p \in Streams, HandlerStep(p) PROVE FALSE
  BY <1>3, <1>4 DEF HandlerStep, OpenStamp, OpenInsert, StreamChatFails, ReleaseAgain, StreamChatStarts,
     Chunk, Terminal, MarkFinalized, NoTerminal, AppendEvent
<1>5. ASSUME NEW k \in 1..Len(stamps), ReapExpired(k) PROVE FALSE
  BY <1>3, <1>5 DEF ReapExpired
<1>6. ASSUME NEW q \in Readers, NEW x, Set(q, x), replay[q].pc # "write" PROVE FALSE
  BY <1>1, <1>2, <1>6
<1>7. ASSUME NEW q \in Readers, NEW s \in Sids, NEW c \in Cursors, ReplayOpens(q, s, c) PROVE FALSE
  BY <1>6, <1>7 DEF ReplayOpens
<1>8. ASSUME NEW q \in Readers, Phase1(q) \/ WaitForNew(q) \/ WaitWakes(q) PROVE FALSE
  BY <1>6, <1>8 DEF Phase1, WaitForNew, WaitWakes
<1>9. ASSUME NEW q \in Readers, ReplayWriteFails(q) PROVE FALSE
  <2>1. PICK x : Set(q, x) /\ x = [replay[q] EXCEPT !.pc = "ended", !.batch = <<>>]
    BY <1>9 DEF ReplayWriteFails
  <2>2. q = r => x.pc = "ended"
    BY <1>1, <2>1 DEF IsReplay
  <2> QED BY <1>2, <2>1, <2>2
<1>10. ASSUME NEW q \in Readers, LoopTest(q) PROVE FALSE
  <2>1. PICK x : Set(q, x)
    BY <1>10 DEF LoopTest
  <2>2. q # r
    BY <1>10 DEF LoopTest
  <2> QED BY <1>2, <2>1, <2>2
<1>11. ASSUME NEW q \in Readers, TimerFires(q) PROVE FALSE
  <2> DEFINE l == IF replay[r].of = replay[q].of /\ replay[r].pc = "waiting" THEN "woken" ELSE replay[r].pc
             t == replay[r].timer /\ r # q
  <2>1. replay'[r] = [replay[r] EXCEPT !.pc = l, !.timer = t]
    BY <1>11 DEF TimerFires
  <2> HIDE DEF l, t
  <2> QED BY <1>1, <2>1 DEF IsReplay
<1>12. ASSUME NEW q \in Readers, ReplayClientLeaves(q) PROVE FALSE
  <2>1. PICK x : Set(q, x) /\ x = [replay[q] EXCEPT !.gone = TRUE]
    BY <1>12 DEF ReplayClientLeaves
  <2>2. q = r => x.batch = replay[r].batch
    BY <1>1, <2>1 DEF IsReplay
  <2> QED BY <1>2, <2>1, <2>2
<1>13. ASSUME NEW q \in Readers, WriteFrame(q) PROVE q = r
  <2>1. PICK x : Set(q, x)
    BY <1>13 DEF WriteFrame
  <2> QED BY <1>2, <2>1
<1>14. PICK q \in Readers : WriteFrame(q)
  BY <1>3, <1>4, <1>5, <1>7, <1>8, <1>9, <1>10, <1>11, <1>12 DEF Next, ReplayStep, vars
<1> QED BY <1>13, <1>14

\* The frame a replay writes is beyond its cursor, and what it skips is older
\* than the oldest frame its entry still has.
LEMMA WriteInOrder ==
    ASSUME NInv, PInv, NEW r \in Readers, WriteFrame(r)
    PROVE  /\ replay'[r].afterSeq > replay[r].afterSeq
           /\ \A q \in (replay[r].afterSeq + 1)..(replay'[r].afterSeq - 1) :
                 q < entry[replay[r].of].frames[1]
<1> DEFINE x == replay[r]
           e == entry[x.of]
<1>1. /\ ReplayTyped(x) /\ RunsOn(x, e) /\ Window(e) /\ x.batch \in Seq(Nat) /\ x.batch # <<>>
      /\ x.afterSeq \in Nat
  BY DEF PInv, NInv, ReplayTyped, WriteFrame
<1>2. replay'[r].afterSeq = Head(x.batch)
  BY <1>1 DEF WriteFrame, Set, PInv, ReplayTyped, IsReplay
<1>3. PICK lo \in Nat : /\ lo >= x.afterSeq /\ (lo = x.afterSeq \/ lo <= Low(e))
                        /\ \A n \in 1..Len(x.batch) : x.batch[n] = lo + n
  BY <1>1 DEF RunsOn
<1>4. Head(x.batch) = lo + 1
  <2>1. Len(x.batch) \in Nat /\ Len(x.batch) # 0 /\ Head(x.batch) = x.batch[1]
    BY <1>1, EmptySeq, LenProperties, HeadTailProperties
  <2> QED BY <1>3, <2>1
<1>5. PICK m, a, N \in Nat : /\ e.nextSeq = m /\ Low(e) = a /\ Len(e.frames) = N /\ m = a + N
                             /\ e.frames \in Seq(Nat) /\ \A i \in 1..N : e.frames[i] = a + i
  <2>1. Window(e)
    BY <1>1
  <2> HIDE DEF e, x
  <2>2. \E m, a, N \in Nat :
              /\ e.nextSeq = m /\ Low(e) = a /\ Len(e.frames) = N /\ m = a + N /\ m <= MaxChunks + 2
              /\ e.frames \in Seq(Nat) /\ \A i \in 1..N : e.frames[i] = a + i
              /\ e.bytes = EndOf[m] - EndOf[a]
    BY <2>1, WindowRun
  <2> QED BY <2>2
<1>6. m > 0 => N # 0
  BY <1>1, <1>5, EmptySeq DEF Window
<1>7. PICK c \in Nat : c = x.afterSeq
  BY <1>1
<1>8. lo >= c /\ (lo = c \/ lo <= a)
  BY <1>3, <1>5, <1>7
<1>9. ASSUME NEW q \in (c + 1)..lo
      PROVE  q < e.frames[1]
  <2>1. q <= a /\ a > 0 /\ m > 0
    BY <1>5, <1>8
  <2>2. 1 \in 1..N
    BY <1>6, <2>1
  <2> QED BY <1>5, <2>1, <2>2
<1>10. lo + 1 > c /\ (lo + 1) - 1 = lo
  BY <1>8
<1> QED BY <1>2, <1>4, <1>7, <1>9, <1>10

\* Across the buffered phase and the live one a replay writes in order, writes
\* nothing twice and skips only what the rolling window has dropped.
THEOREM ReplaysInOrder == Spec => ReplayInOrder
<1> DEFINE A == \A r \in Readers :
              replay[r].batch # <<>> /\ replay'[r].pc = "write" /\ replay'[r].batch = Tail(replay[r].batch) =>
                 /\ replay'[r].afterSeq > replay[r].afterSeq
                 /\ \A q \in (replay[r].afterSeq + 1)..(replay'[r].afterSeq - 1) :
                       q < entry[replay[r].of].frames[1]
<1>1. ASSUME HInv, NInv, PInv, [Next]_vars PROVE A
  <2> SUFFICES ASSUME NEW r \in Readers, replay[r].batch # <<>>, replay'[r].pc = "write",
                      replay'[r].batch = Tail(replay[r].batch)
               PROVE  /\ replay'[r].afterSeq > replay[r].afterSeq
                      /\ \A q \in (replay[r].afterSeq + 1)..(replay'[r].afterSeq - 1) :
                            q < entry[replay[r].of].frames[1]
    OBVIOUS
  <2>1. replay[r].batch \in Seq(Nat)
    BY <1>1 DEF PInv, ReplayTyped
  <2>2. Tail(replay[r].batch) # replay[r].batch
    <3> DEFINE b == replay[r].batch
               t == Tail(b)
    <3>1. Len(b) \in Nat /\ Len(t) = Len(b) - 1
      BY <2>1, HeadTailProperties, LenProperties
    <3> HIDE DEF b, t
    <3>2. t # b
      BY <3>1
    <3> QED BY <3>2 DEF b, t
  <2>3. WriteFrame(r)
    BY <1>1, <2>2, WriterSteps
  <2> QED BY <1>1, <2>3, WriteInOrder
<1>2. HInv /\ NInv /\ PInv /\ [Next]_vars => A
  BY <1>1
<1> HIDE DEF A
<1>3. Spec => [][A]_vars
  BY <1>2, StreamInvariant, PTL DEF Spec
<1> QED BY <1>3 DEF A, ReplayInOrder
=============================================================================
