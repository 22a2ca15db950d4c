------------------------------- MODULE ChatFlow -------------------------------
(***************************************************************************)
(* A chat request from its arrival to its reply: the gates and the         *)
(* resources of handleChatCompletions and handleCompletions, the cache,    *)
(* the coalescer and the cloud overflow of handleNonStreamChat, and the    *)
(* plain forward loop of handleStreamChat (internal/server).               *)
(*                                                                         *)
(* Routing is one choice here (module Engine models it), the tier queue    *)
(* grants or refuses (module TierQueue), and resumable streams are off     *)
(* (module StreamResume).  What is kept is what a request holds, whom it   *)
(* calls, what it records and charges, and what it answers.                *)
(***************************************************************************)
EXTENDS Naturals, FiniteSets

CONSTANTS
  Requests,    \* requests in flight at once
  Nobody,      \* no request: the leader of a key without a call
  CacheKeys,   \* cache keys: requests with the same one are coalesced
  Endpoints,   \* a subset of {"chat", "completions"}
  SlotCap,     \* routing.local_priority.max_concurrent
  StreamCap,   \* routing.stream.max_concurrent_streams
  Overflow,    \* routing.fallback.overflow.enabled
  Ceiling,     \* routing.fallback.overflow.cost_ceiling, 0 is unlimited
  CloudVLM     \* routing.multimodal names a cloud vision model

ASSUME ChatAssumption ==
  /\ IsFiniteSet(Requests) /\ Nobody \notin Requests /\ CacheKeys # {}
  /\ SlotCap \in Nat /\ StreamCap \in Nat /\ Ceiling \in Nat
  /\ Overflow \in BOOLEAN /\ CloudVLM \in BOOLEAN /\ Endpoints \subseteq {"chat", "completions"}

VARIABLES
  chat,     \* chat[r]: where request r is and what it is
  slots,    \* the requests that hold a slot of the local engine
  flights,  \* flights[k]: the leader of the coalesced call of k
  cachedKeys, \* the keys the response cache holds
  cooldown, \* an overflow armed the cooldown
  spent,    \* what the day's overflows cost
  gone,     \* the requests whose context is cancelled
  book      \* book[r]: replies, charges, outcomes and calls of r (history)

chatVars == <<chat, slots, flights, cachedKeys, cooldown, spent, gone, book>>

Backends == {"local", "cluster", "cloud"}
Calling == {"leading", "calling", "falling", "opening", "streaming"}

FreshReq == [pc |-> "new", ep |-> "chat", stream |-> FALSE, image |-> FALSE, key |-> CHOOSE k \in CacheKeys : TRUE,
             backend |-> "cloud", model |-> "text", held |-> {}, leader |-> Nobody]
NoBook == [replies |-> 0, reply |-> "none", charges |-> 0, outcomes |-> [b \in Backends |-> 0], served |-> 0]

ChatTypeOK ==
  /\ slots \subseteq Requests /\ Cardinality(slots) <= SlotCap
  /\ flights \in [CacheKeys -> Requests \cup {Nobody}]
  /\ cachedKeys \subseteq CacheKeys /\ cooldown \in BOOLEAN /\ gone \subseteq Requests
  /\ spent \in 0 .. Cardinality(Requests)
  /\ \A r \in Requests : chat[r].held \subseteq {"queue", "task", "stream"} /\ book[r].reply \in {"none", "ok", "error"}

ChatInit ==
  /\ chat = [r \in Requests |-> FreshReq] /\ slots = {} /\ flights = [k \in CacheKeys |-> Nobody]
  /\ cachedKeys = {} /\ cooldown = FALSE /\ spent = 0
  /\ gone = {} /\ book = [r \in Requests |-> NoBook]

-----------------------------------------------------------------------------
(* Steps of a handler: to another place, or out with a reply.  Leaving runs *)
(* the deferred releases: queue slot, task entry and stream slot go.        *)

To(r, pc) == chat' = [chat EXCEPT ![r].pc = pc]
Leave(r) == chat' = [chat EXCEPT ![r].pc = "done", ![r].held = {}]

\* What a step writes down about r: a reply, a charge, an outcome of a backend.
Reply(b, what) == [b EXCEPT !.replies = @ + 1, !.reply = what]
Outcome(b, backend) == [b EXCEPT !.outcomes[backend] = @ + 1]
Charge(b) == [b EXCEPT !.charges = @ + 1]
Write(r, b) == book' = [book EXCEPT ![r] = b]

Quit(r, what) == Leave(r) /\ Write(r, Reply(book[r], what))
Settled == UNCHANGED <<slots, flights, cachedKeys, cooldown, spent, gone>>

(***************************************************************************)
(* Arrival: the body, the model's identity, allowlist and tenant policy,   *)
(* the guardrail scan, the context limit, the route and its rejection, the *)
(* backend access: each of them may refuse with a reply of its own, before *)
(* anything is held.                                                       *)
(***************************************************************************)
Refused(r) ==
  /\ chat[r].pc = "new"
  /\ Quit(r, "error") /\ Settled

\* multimodalRouteDecision: the local vision model if it is loaded, the cloud
\* one if configured; an image is never routed by the engine.
ImageRoutes == {[backend |-> "local", model |-> "localVLM"]} \cup
               (IF CloudVLM THEN {[backend |-> "cloud", model |-> "cloudVLM"]} ELSE {})
Routes(image) == IF image THEN ImageRoutes ELSE {[backend |-> b, model |-> "text"] : b \in Backends}

\* multimodalDivertDecision, for a request on its way to the cloud: an image
\* goes to the cloud vision model, and not at all when there is none.
Diverts(image) == ~image \/ CloudVLM
Divert(image, route) == [backend |-> "cloud", model |-> IF image THEN "cloudVLM" ELSE route.model]

\* The cooldown sends local and cluster requests to the cloud at once; an
\* image without a cloud vision model keeps its route.
Cooled(image, route) ==
  IF Overflow /\ cooldown /\ route.backend # "cloud" /\ Diverts(image) THEN Divert(image, route) ELSE route

Routed(r, ep, stream, image, k, d, pc) ==
  /\ chat' = [chat EXCEPT ![r] = [pc |-> pc, ep |-> ep, stream |-> stream, image |-> image, key |-> k,
                                   backend |-> d.backend, model |-> d.model, held |-> {}, leader |-> Nobody]]
  /\ UNCHANGED <<book>> /\ Settled

Arrive(r, stream, image, k) ==
  /\ chat[r].pc = "new" /\ "chat" \in Endpoints
  /\ \E route \in Routes(image) : Routed(r, "chat", stream, image, k, Cooled(image, route), "resolve")

\* handleCompletions: text only, no cooldown, no queue slot and no task entry.
ArriveCompletions(r, stream, k) ==
  /\ chat[r].pc = "new" /\ "completions" \in Endpoints
  /\ \E route \in Routes(FALSE) : Routed(r, "completions", stream, FALSE, k, route, IF stream THEN "open" ELSE "lookup")

\* resolveCloudProvider and the local ones: no provider is a reply.
ResolveProvider(r) ==
  /\ chat[r].pc = "resolve"
  /\ (To(r, "admit") /\ UNCHANGED book) \/ Quit(r, "error")
  /\ Settled

Streaming(q) == {r \in Requests : "stream" \in q[r].held}

StreamSlotFree == Cardinality(Streaming(chat)) < StreamCap

\* The slot of the wait queue for a local request (refused: 429), the task
\* registry entry, and the stream slot of a streaming request (refused: 429,
\* the deferred releases undo the first two).
AcquireLocalSlot(r) ==
  /\ chat[r].pc = "admit"
  /\ \/ chat' = [chat EXCEPT ![r].pc = IF chat[r].stream THEN "stream" ELSE "lookup",
                             ![r].held = {"task"} \cup (IF chat[r].backend = "local" THEN {"queue"} ELSE {})]
        /\ UNCHANGED book
     \/ chat[r].backend = "local" /\ Quit(r, "error")
  /\ Settled

AcquireStreamSlot(r) ==
  /\ chat[r].pc = "stream"
  /\ IF StreamSlotFree THEN chat' = [chat EXCEPT ![r].pc = "open", ![r].held = @ \cup {"stream"}] /\ UNCHANGED book
                       ELSE Quit(r, "error")
  /\ Settled

\* The client disconnects, the task is cancelled or the deadline passes.
ContextEnds(r) ==
  /\ chat[r].pc \in {"wait", "open", "leading", "calling", "falling", "opening", "streaming"}
  /\ r \notin gone /\ gone' = gone \cup {r}
  /\ UNCHANGED <<chat, slots, flights, cachedKeys, cooldown, spent, book>>

-----------------------------------------------------------------------------
(* handleNonStreamChat *)

CacheLookup(r) ==
  /\ chat[r].pc = "lookup"
  /\ IF chat[r].key \in cachedKeys THEN Quit(r, "ok") ELSE To(r, "coalesce") /\ UNCHANGED book
  /\ Settled

MutantCoalesce(r) ==
  /\ chat[r].pc = "coalesce"
  /\ flights' = [flights EXCEPT ![chat[r].key] = r] /\ To(r, "lead")
  /\ UNCHANGED <<slots, cachedKeys, cooldown, spent, gone, book>>

\* coalescer.Do: the leader publishes its call, the others wait for it.
Coalesce(r) ==
  /\ chat[r].pc = "coalesce"
  /\ LET k == chat[r].key
     IN  IF flights[k] = Nobody
           THEN flights' = [flights EXCEPT ![k] = r] /\ To(r, "lead")
           ELSE chat' = [chat EXCEPT ![r].pc = "wait", ![r].leader = flights[k]] /\ UNCHANGED flights
  /\ UNCHANGED <<slots, cachedKeys, cooldown, spent, gone, book>>

Wake(r) ==
  /\ chat[r].pc = "wait" /\ flights[chat[r].key] # chat[r].leader
  /\ To(r, "recheck") /\ UNCHANGED book /\ Settled

SlotFree == Cardinality(slots) < SlotCap

\* localSlotProvider.Chat: a local call takes a slot for as long as it lasts;
\* at the cap it fails at once.
TakeSlot(r) == slots' = IF chat[r].backend = "local" THEN slots \cup {r} ELSE slots
SlotFull(r) == chat[r].backend = "local" /\ ~SlotFree

LeaderCalls(r) ==
  /\ chat[r].pc = "lead" /\ ~SlotFull(r)
  /\ TakeSlot(r) /\ To(r, "leading")
  /\ UNCHANGED <<flights, cachedKeys, cooldown, spent, gone, book>>

\* cacheWorthyChatResponse: an empty completion is not cached.
Cached(r, result) == cachedKeys' = IF result = "content" THEN cachedKeys \cup {chat[r].key} ELSE cachedKeys

\* The leader's call ends, or it could not be made; the entry is removed from
\* the map before the call's mutex is unlocked. A response with content is
\* published; an error and an empty response are dropped.
LeaderReturns(r, result) ==
  /\ IF chat[r].pc = "lead" THEN SlotFull(r) /\ result = "error" ELSE chat[r].pc = "leading"
  /\ r \in gone => result = "error"
  /\ slots' = slots \ {r}
  /\ flights' = [flights EXCEPT ![chat[r].key] = Nobody]
  /\ Cached(r, result)
  /\ Write(r, [book[r] EXCEPT !.served = @ + (IF result = "error" THEN 0 ELSE 1)])
  /\ To(r, "recheck")
  /\ UNCHANGED <<cooldown, spent, gone>>

\* A hit after the coalesced call is answered from the cache: no outcome is
\* recorded and nothing is charged, for the leader either.
CacheRecheck(r) ==
  /\ chat[r].pc = "recheck"
  /\ IF chat[r].key \in cachedKeys THEN Quit(r, "ok") ELSE To(r, "direct") /\ UNCHANGED book
  /\ Settled

DirectCall(r) ==
  /\ chat[r].pc = "direct" /\ ~SlotFull(r)
  /\ TakeSlot(r) /\ To(r, "calling")
  /\ UNCHANGED <<flights, cachedKeys, cooldown, spent, gone, book>>

DirectSucceeds(r, result) ==
  /\ chat[r].pc = "calling" /\ r \notin gone
  /\ slots' = slots \ {r}
  /\ Cached(r, result)
  /\ Leave(r)
  /\ Write(r, [Reply(Charge(Outcome(book[r], chat[r].backend)), "ok") EXCEPT !.served = @ + 1])
  /\ UNCHANGED <<flights, cooldown, spent, gone>>

CeilingBlocked == Ceiling > 0 /\ spent >= Ceiling

\* A failed call is recorded on its breaker, a full local slot is not.
FailureOutcome(r) == IF chat[r].pc = "direct" THEN book[r] ELSE Outcome(book[r], chat[r].backend)

\* After a failure of local or cluster: the overflow, unless it is disabled,
\* over its ceiling, or has no model for an image.
MayOverflow(r) == chat[r].backend # "cloud" /\ Overflow /\ ~CeilingBlocked /\ Diverts(chat[r].image)

DirectFails(r) ==
  /\ chat[r].pc = "calling" \/ (chat[r].pc = "direct" /\ SlotFull(r))
  /\ slots' = slots \ {r}
  /\ IF MayOverflow(r)
       THEN /\ chat' = [chat EXCEPT ![r].pc = "falling", ![r].model = Divert(chat[r].image, chat[r]).model]
            /\ Write(r, FailureOutcome(r))
       ELSE Leave(r) /\ Write(r, Reply(FailureOutcome(r), "error"))
  /\ UNCHANGED <<flights, cachedKeys, cooldown, spent, gone>>

\* chargeOverflow: one unit per overflow.
ChargeOverflow == spent' = spent + 1

FallbackSucceeds(r, result) ==
  /\ chat[r].pc = "falling" /\ r \notin gone
  /\ ChargeOverflow /\ cooldown' = TRUE
  /\ Cached(r, result)
  /\ Leave(r)
  /\ Write(r, [Reply(Charge(Outcome(book[r], "cloud")), "ok") EXCEPT !.served = @ + 1])
  /\ UNCHANGED <<slots, flights, gone>>

FallbackFails(r) ==
  /\ chat[r].pc = "falling"
  /\ Quit(r, "error") /\ Settled

-----------------------------------------------------------------------------
(* handleStreamChat *)

StreamOpens(r) ==
  /\ chat[r].pc = "open" /\ ~SlotFull(r)
  /\ TakeSlot(r) /\ To(r, "opening")
  /\ UNCHANGED <<flights, cachedKeys, cooldown, spent, gone, book>>

StreamEstablished(r) ==
  /\ chat[r].pc = "opening" /\ r \notin gone
  /\ To(r, "streaming") /\ UNCHANGED book /\ Settled

\* Recursion into the handler with the cloud provider.
Again(r) == LET d == Divert(chat[r].image, chat[r])
            IN  chat' = [chat EXCEPT ![r].pc = "open", ![r].backend = d.backend, ![r].model = d.model]

\* A full local slot: silent when the context is dead, to the cloud with no
\* failure recorded, or 503 for an image that has no cloud model.
StreamSlotFull(r) ==
  /\ chat[r].pc = "open" /\ SlotFull(r)
  /\ IF r \in gone THEN Leave(r) /\ UNCHANGED book
     ELSE IF Diverts(chat[r].image) THEN Again(r) /\ UNCHANGED book
     ELSE Quit(r, "error")
  /\ Settled

GoneIsSilent(r) == r \in gone

\* An establish error: silent when the context is dead; otherwise recorded,
\* then the overflow, charged before the cloud stream runs.
StreamRefused(r) ==
  /\ chat[r].pc = "opening"
  /\ slots' = slots \ {r}
  /\ IF GoneIsSilent(r)
       THEN Leave(r) /\ UNCHANGED <<book, spent, cooldown>>
       ELSE IF MayOverflow(r)
         THEN /\ Again(r) /\ Write(r, Outcome(book[r], chat[r].backend))
              /\ ChargeOverflow /\ cooldown' = TRUE
         ELSE Leave(r) /\ Write(r, Reply(Outcome(book[r], chat[r].backend), "error")) /\ UNCHANGED <<spent, cooldown>>
  /\ UNCHANGED <<flights, cachedKeys, gone>>

\* The end of the loop: the client is gone (context or a failed write) and
\* nothing more happens; or a terminal chunk, a silent close or the watchdog:
\* [DONE], an outcome and the charge. The local slot is returned by the
\* forwarding goroutine, on its own time.
StreamEnds(r) ==
  /\ chat[r].pc = "streaming" /\ r \notin gone
  /\ Leave(r)
  /\ Write(r, [Reply(Charge(Outcome(book[r], chat[r].backend)), "ok") EXCEPT !.served = @ + 1])
  /\ Settled

MutantStreamAborts(r) ==
  /\ chat[r].pc = "streaming"
  /\ Leave(r) /\ gone' = gone \cup {r} /\ Write(r, Outcome(book[r], chat[r].backend))
  /\ UNCHANGED <<slots, flights, cachedKeys, cooldown, spent>>

StreamAborts(r) ==
  /\ chat[r].pc = "streaming"
  /\ Leave(r) /\ gone' = gone \cup {r}
  /\ UNCHANGED <<slots, flights, cachedKeys, cooldown, spent, book>>

MutantSlotForwarded(r) == chat[r].pc = "done" /\ r \in slots /\ r \notin gone

SlotForwarded(r) == chat[r].pc = "done" /\ r \in slots

ForwarderReleases(r) ==
  /\ SlotForwarded(r)
  /\ slots' = slots \ {r}
  /\ UNCHANGED <<chat, flights, cachedKeys, cooldown, spent, gone, book>>

-----------------------------------------------------------------------------
CooldownEnds == cooldown /\ cooldown' = FALSE /\ UNCHANGED <<chat, slots, flights, cachedKeys, spent, gone, book>>

\* What the handler of r does by itself, and what its upstream answers: every
\* call ends, at the latest by its timeout or the idle watchdog.
Proceed(r) ==
  \/ ResolveProvider(r) \/ AcquireLocalSlot(r) \/ AcquireStreamSlot(r) \/ CacheLookup(r) \/ Coalesce(r) \/ Wake(r)
  \/ LeaderCalls(r) \/ CacheRecheck(r) \/ DirectCall(r) \/ StreamOpens(r) \/ StreamSlotFull(r)
  \/ StreamEstablished(r) \/ StreamEnds(r) \/ StreamAborts(r) \/ StreamRefused(r)
  \/ DirectFails(r) \/ FallbackFails(r)
  \/ \E result \in {"content", "empty", "error"} : LeaderReturns(r, result)
  \/ \E result \in {"content", "empty"} : DirectSucceeds(r, result) \/ FallbackSucceeds(r, result)

ChatNext ==
  \/ \E r \in Requests : \/ Refused(r)
                         \/ \E s \in BOOLEAN, k \in CacheKeys : ArriveCompletions(r, s, k) \/ \E i \in BOOLEAN : Arrive(r, s, i, k)
                         \/ Proceed(r) \/ ContextEnds(r) \/ ForwarderReleases(r)
  \/ CooldownEnds

ChatFairness == \A r \in Requests : WF_chatVars(Proceed(r)) /\ WF_chatVars(ForwarderReleases(r))

ChatSpec == ChatInit /\ [][ChatNext]_chatVars /\ ChatFairness
-----------------------------------------------------------------------------
(* Properties *)

\* A request answers once: never twice, through all the diversions and the
\* recursion of the stream handler, and never not at all unless its client is
\* gone.
OneReply == \A r \in Requests : /\ book[r].replies <= 1
                                /\ chat[r].pc = "done" => book[r].replies = 1 \/ r \in gone

\* A tenant pays at most once for a request, and never for an error.
PaidOnlyForAnswers == \A r \in Requests : book[r].charges <= 1 /\ (book[r].charges = 1 => book[r].reply = "ok")

\* No backend's breaker hears of the same request twice, although the request
\* may call it twice and recurse.
OneOutcomePerBackend == \A r \in Requests, b \in Backends : book[r].outcomes[b] <= 1

\* An image reaches the cloud only as the cloud vision model, on whichever of
\* the diversions it went there.
ImageKeepsVisionModel ==
  \A r \in Requests : chat[r].image /\ chat[r].pc \in Calling /\ (chat[r].backend = "cloud" \/ chat[r].pc = "falling")
    => chat[r].model = "cloudVLM"

\* At most one coalesced call per key is in flight, and nobody waits for a
\* call that is over without being woken.
OneFlightPerKey ==
  \A k \in CacheKeys : Cardinality({r \in Requests : chat[r].pc \in {"lead", "leading"} /\ chat[r].key = k}) <= 1

\* The accounts of a request agree, whichever way it went through the handlers.
ChatSound == ChatTypeOK /\ OneReply /\ PaidOnlyForAnswers /\ OneOutcomePerBackend /\ ImageKeepsVisionModel /\ OneFlightPerKey

\* A client that leaves in the middle of a stream leaves no mark on a breaker
\* and is not charged.
AbortLeavesNoMark ==
  [][\A r \in Requests : chat[r].stream /\ r \in gone' /\ chat[r].pc \in {"opening", "streaming"}
       => book'[r].outcomes = book[r].outcomes /\ book'[r].charges = book[r].charges]_chatVars

\* Every request that arrived ends, and gives back all it held: the queue slot,
\* the task entry, the stream slot and the slot of the local engine.
EverythingReturned == \A r \in Requests : (chat[r].pc # "new") ~> (chat[r].pc = "done" /\ chat[r].held = {} /\ r \notin slots)

\* Refuted: a request for which a backend produced an answer is charged (what
\* recordAndCharge's comment says of a request).  The completions endpoint
\* answers, records no outcome and charges nobody.
ConsumedIsCharged == \A r \in Requests : chat[r].pc = "done" /\ book[r].served > 0 /\ r \notin gone => book[r].charges > 0
=============================================================================
