---------------------------- MODULE SemanticCache ----------------------------
(***************************************************************************)
(* The semantic cache (internal/cache/semantic.go) and its wiring          *)
(* (internal/server/semantic_cache.go): responses found by the similarity  *)
(* of the embedded payload, under an exactly matching system prompt.       *)
(* Embeddings come from an upstream call that takes time, may fail, and    *)
(* whose result is kept in a bounded map of its own.                       *)
(***************************************************************************)
EXTENDS Naturals, Sequences, FiniteSets, SequencesExt, FiniteSetsExt

CONSTANTS
  SemCallers,   \* requests
  Payloads,     \* user texts
  SystemHashes, \* hashes of system prompts
  Similarity,   \* Similarity[p][q]: the cosine of two embeddings, in tenths
  Threshold,    \* semantic_cache.similarity_threshold, in tenths
  SemMax,       \* semantic_cache.max_entries
  MaxSem        \* how many responses are stored at most (a bound of the model)

ASSUME SemAssumption ==
  /\ SemMax \in Nat \ {0} /\ MaxSem \in Nat /\ Threshold \in 1 .. 10
  /\ \A p, q \in Payloads : Similarity[p][q] \in 0 .. 10

VARIABLES
  semEntries, \* the list, newest first
  embeds,     \* the payloads whose embedding is cached
  semCaller,  \* where each request is
  semStored   \* how many responses were stored

semVars == <<semEntries, embeds, semCaller, semStored>>

AtRest == [pc |-> "idle", sys |-> CHOOSE h \in SystemHashes : TRUE, payload |-> CHOOSE p \in Payloads : TRUE]

SemInit ==
  /\ semEntries = <<>> /\ embeds = {} /\ semStored = 0
  /\ semCaller = [c \in SemCallers |-> AtRest]

SemGo(c, pc) == semCaller' = [semCaller EXCEPT ![c].pc = pc]
SemDone(c) == semCaller' = [semCaller EXCEPT ![c] = AtRest]

\* semanticCachePrompt: a request that may be cached has a payload; the
\* others (tools, images, no-store, over the cap) never come here.
SemanticCachePrompt(c, h, p) ==
  /\ semCaller[c].pc = "idle"
  /\ semCaller' = [semCaller EXCEPT ![c] = [pc |-> IF p \in embeds THEN "scan" ELSE "embedding", sys |-> h, payload |-> p]]
  /\ UNCHANGED <<semEntries, embeds, semStored>>

\* embeddingFor at the limit: half of the map goes, in no order, and at least
\* one entry even when half is none, since the count is tested after a delete.
DropCount == LET half == Cardinality(embeds) \div 2 IN IF half = 0 THEN 1 ELSE half

EmbedInsert(p) ==
  IF Cardinality(embeds) >= SemMax
    THEN \E out \in SUBSET embeds : Cardinality(out) = DropCount /\ embeds' = (embeds \ out) \cup {p}
    ELSE embeds' = embeds \cup {p}

EmbedOK(c) ==
  /\ semCaller[c].pc \in {"embedding", "storing"}
  /\ EmbedInsert(semCaller[c].payload)
  /\ SemGo(c, IF semCaller[c].pc = "embedding" THEN "scan" ELSE "insert")
  /\ UNCHANGED <<semEntries, semStored>>

\* A failed embedding is a miss of Search and a skipped Store.
EmbedFails(c) ==
  /\ semCaller[c].pc \in {"embedding", "storing"}
  /\ IF semCaller[c].pc = "embedding" THEN SemGo(c, "upstream") ELSE SemDone(c)
  /\ UNCHANGED <<semEntries, embeds, semStored>>

\* Search: the best entry of the same system prompt, the newest of equals.
Candidates(h) == {i \in 1 .. Len(semEntries) : semEntries[i].sys = h}

Sim(i, p) == Similarity[p][semEntries[i].payload]

Best(h, p) ==
  LET top == Candidates(h)
      best == {i \in top : Sim(i, p) > 0 /\ \A j \in top : Sim(j, p) <= Sim(i, p)}
  IN  IF best = {} THEN 0 ELSE Min(best)

Hit(h, p) == LET i == Best(h, p) IN i # 0 /\ Sim(i, p) >= Threshold /\ ~semEntries[i].old

Search(c) ==
  /\ semCaller[c].pc = "scan"
  /\ IF Hit(semCaller[c].sys, semCaller[c].payload) THEN SemDone(c) ELSE SemGo(c, "upstream")
  /\ UNCHANGED <<semEntries, embeds, semStored>>

\* The upstream answered (or failed, and nothing is stored).
UpstreamAnswers(c) ==
  /\ semCaller[c].pc = "upstream"
  /\ \/ SemGo(c, IF semCaller[c].payload \in embeds THEN "insert" ELSE "storing")
     \/ SemDone(c)
  /\ UNCHANGED <<semEntries, embeds, semStored>>

\* Store evicts from the back until there is room, then pushes in front.
Room == SubSeq(semEntries, 1, IF Len(semEntries) >= SemMax THEN SemMax - 1 ELSE Len(semEntries))

Store(c) ==
  /\ semCaller[c].pc = "insert" /\ semStored < MaxSem
  /\ semStored' = semStored + 1
  /\ semEntries' = <<[sys |-> semCaller[c].sys, payload |-> semCaller[c].payload, val |-> semStored + 1, old |-> FALSE]>> \o Room
  /\ SemDone(c)
  /\ UNCHANGED <<embeds>>

SemTtlPasses(i) ==
  /\ i \in 1 .. Len(semEntries) /\ \A j \in i + 1 .. Len(semEntries) : semEntries[j].old
  /\ ~semEntries[i].old
  /\ semEntries' = [semEntries EXCEPT ![i].old = TRUE]
  /\ UNCHANGED <<embeds, semCaller, semStored>>

\* evictExpired removes every old entry; they are the last of the list.
SemEvictExpired ==
  /\ \E n \in 0 .. Len(semEntries) - 1 :
       /\ \A i \in 1 .. Len(semEntries) : semEntries[i].old <=> i > n
       /\ semEntries' = SubSeq(semEntries, 1, n)
  /\ UNCHANGED <<embeds, semCaller, semStored>>

SemNext ==
  \/ \E c \in SemCallers : \/ \E h \in SystemHashes, p \in Payloads : SemanticCachePrompt(c, h, p)
                           \/ EmbedOK(c) \/ EmbedFails(c) \/ Search(c) \/ UpstreamAnswers(c) \/ Store(c)
  \/ \E i \in 1 .. SemMax : SemTtlPasses(i)
  \/ SemEvictExpired

SemSpec == SemInit /\ [][SemNext]_semVars
-----------------------------------------------------------------------------
\* Both maps of the semantic cache stay within max_entries at every value of
\* it, 1 included, with several embeddings of the same or other payloads in
\* flight at once.
SemWithinLimit == Len(semEntries) <= SemMax /\ Cardinality(embeds) <= SemMax

\* The list is in the order of age, so the entry evicted at the limit is the
\* oldest and the sweep keeps every younger one.
NewestFirst == \A i, j \in 1 .. Len(semEntries) : i < j => semEntries[i].val > semEntries[j].val

\* An entry is as old as those behind it, so that the sweep finds the expired
\* ones together at the end of the list.
ExpiredLast == \A i, j \in 1 .. Len(semEntries) : i < j /\ semEntries[i].old => semEntries[j].old

\* They hold while embeddings of several requests are in flight.
SemanticSound == SemWithinLimit /\ NewestFirst /\ ExpiredLast
=============================================================================
