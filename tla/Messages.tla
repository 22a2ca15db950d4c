------------------------------- MODULE Messages -------------------------------
(***************************************************************************)
(* The event stream a client of /v1/messages gets, on the three ways it is *)
(* made (internal/server/anthropic_messages.go):                           *)
(*   "bridge"     chunks of an OpenAI-compatible backend, translated by    *)
(*                anthropicSSEBridge (anthropic_openai_bridge.go);         *)
(*   "native"     events of an Anthropic backend, forwarded, with the end  *)
(*                of a stream that broke off made up for;                  *)
(*   "aggregate"  the same events collected into one response              *)
(*                (AggregateAnthropicStreamEvents, cloud_signed.go).       *)
(* A frame is its kind and, where it has one, its block or tool number.    *)
(* The upstream may break off anywhere, fall silent, fail or leave blocks  *)
(* open at its own message_stop; what it sends is otherwise in order.      *)
(***************************************************************************)
EXTENDS Integers, Sequences, FiniteSets

CONSTANTS
  MaxBlocks, \* how many content blocks a message has at most (a bound of the model)
  ToolCalls  \* indices of the tool calls of a chunk

ASSUME MessagesAssumption == MaxBlocks \in Nat \ {0} /\ ToolCalls \subseteq Nat

VARIABLES
  path, \* which of the three ways
  up,   \* the upstream: where it is, its open blocks, the reason it gave
  br,   \* the bridge's fields
  nat,  \* the native loop's: open blocks, whether message_stop was seen
  agg,  \* the response being aggregated
  out,  \* the events the handler is about to write
  mpc,  \* the handler: "loop", "over"
  lost, \* the client is gone: writes fail
  view  \* what the client has received

msgVars == <<path, up, br, nat, agg, out, mpc, lost, view>>

None == -1
BlockIds == 0 .. MaxBlocks - 1
Ev(type, i) == [type |-> type, idx |-> i]

NewBridge == [started |-> FALSE, next |-> 0, think |-> None, text |-> None, tools |-> [k \in ToolCalls |-> None],
              open |-> {}, stopped |-> FALSE, err |-> FALSE, saw |-> FALSE, reason |-> "none", ev |-> <<>>]
NewView == [started |-> FALSE, open |-> {}, used |-> {}, ended |-> FALSE, last |-> Ev("none", 0), beat |-> 0, reason |-> "none"]

MsgInit ==
  /\ path \in {"bridge", "native", "aggregate"}
  /\ up = [pc |-> "sending", open |-> {}, used |-> {}, reason |-> "none"]
  /\ br = NewBridge /\ nat = [open |-> {}, stop |-> FALSE] /\ agg = [blocks |-> {}, result |-> "none", reason |-> "none"]
  /\ out = <<>> /\ mpc = "loop" /\ lost = FALSE /\ view = NewView

Ready(p) == path = p /\ mpc = "loop" /\ out = <<>>

-----------------------------------------------------------------------------
(* anthropicSSEBridge: operators from its fields to its fields, the events  *)
(* to write collected in ev.                                                *)

Emit(b, type, i) == [b EXCEPT !.ev = Append(@, Ev(type, i))]

EnsureMessageStart(b) == IF b.started THEN b ELSE Emit([b EXCEPT !.started = TRUE], "message_start", 0)

NewBlock(b) == Emit([b EXCEPT !.next = @ + 1, !.open = @ \cup {b.next}], "block_start", b.next)

EmitThinkingDelta(b) ==
  LET t == IF b.think # None THEN b ELSE [NewBlock(b) EXCEPT !.think = b.next]
  IN  Emit([t EXCEPT !.saw = TRUE], "delta", t.think)

MutantCloseThinkingBlock(b) ==
  IF b.think = None THEN b ELSE Emit([b EXCEPT !.open = @ \ {b.think}], "block_stop", b.think)

\* The signature delta, then the stop.
CloseThinkingBlock(b) ==
  IF b.think = None THEN b
  ELSE Emit(Emit([b EXCEPT !.think = None, !.open = @ \ {b.think}], "delta", b.think), "block_stop", b.think)

EmitTextDelta(b) ==
  LET c == CloseThinkingBlock(b)
      t == IF c.text # None THEN c ELSE [NewBlock(c) EXCEPT !.text = c.next]
  IN  Emit([t EXCEPT !.saw = TRUE], "delta", t.text)

EmitToolDelta(b, k) ==
  LET c == CloseThinkingBlock(b)
      t == IF c.tools[k] # None THEN c ELSE [NewBlock(c) EXCEPT !.tools[k] = c.next]
  IN  Emit([t EXCEPT !.saw = TRUE], "delta", t.tools[k])

\* The stops of the blocks of S, ascending: the n-th is that of the block with
\* n - 1 smaller ones.
Nth(S, n) == CHOOSE i \in S : Cardinality({j \in S : j < i}) = n - 1
Stops(S) == [n \in 1 .. Cardinality(S) |-> Ev("block_stop", Nth(S, n))]

CloseOpenBlocks(b) ==
  LET c == CloseThinkingBlock(b) IN [c EXCEPT !.open = {}, !.ev = @ \o Stops(c.open)]

EmitError(b) == Emit([b EXCEPT !.err = TRUE], "error", 0)

MutantFinalizeMessage(b) ==
  IF b.err THEN b ELSE Emit(Emit(CloseOpenBlocks(b), "message_delta", 0), "message_stop", 0)

\* The terminal pair, once; an error instead when there was no content.
FinalizeMessage(b) ==
  IF b.stopped \/ b.err THEN [b EXCEPT !.stopped = TRUE]
  ELSE IF ~b.saw THEN EmitError([b EXCEPT !.stopped = TRUE])
  ELSE Emit(Emit(CloseOpenBlocks([b EXCEPT !.stopped = TRUE]), "message_delta", 0), "message_stop", 0)

\* anthropicStopReasonFromOpenAI, for the two reasons told apart here.
StopReasonFromOpenAI(fr) == IF fr = "length" THEN "max_tokens" ELSE "end_turn"

\* handleFrame: one chunk of the backend, as handleStreamChat writes it.
HandleFrame(b, kind, k) ==
  CASE kind = "error"     -> EmitError(b)
    [] kind = "keepalive" -> Emit(b, "ping", 0)
    [] kind = "role"      -> Emit(EnsureMessageStart(b), "ping", 0)
    [] kind = "usage"     -> EnsureMessageStart(b)
    [] kind = "reasoning" -> EmitThinkingDelta(EnsureMessageStart(b))
    [] kind = "text"      -> EmitTextDelta(EnsureMessageStart(b))
    [] kind = "tool"      -> EmitToolDelta(EnsureMessageStart(b), k)
    [] kind \in {"stop", "length"} ->
         CloseOpenBlocks([EnsureMessageStart(b) EXCEPT !.reason = StopReasonFromOpenAI(kind)])
    [] kind = "[DONE]"    -> FinalizeMessage(b)

\* What a backend may still send: nothing of a choice after its finish_reason,
\* nothing after an error.
MaySend(kind) ==
  CASE kind \in {"role", "reasoning", "text", "tool", "stop", "length", "error"} -> up.pc = "sending"
    [] kind = "usage" -> up.pc \in {"sending", "finished"}
    [] kind = "keepalive" -> TRUE
    [] OTHER -> FALSE

BridgeFrame(kind, k) ==
  /\ Ready("bridge") /\ MaySend(kind) /\ br.next < MaxBlocks
  /\ LET b == HandleFrame(br, kind, k) IN br' = [b EXCEPT !.ev = <<>>] /\ out' = b.ev
  /\ up' = [up EXCEPT !.pc = IF kind \in {"stop", "length"} THEN "finished" ELSE IF kind = "error" THEN "failed" ELSE @,
                      !.reason = IF kind \in {"stop", "length"} THEN StopReasonFromOpenAI(kind) ELSE @]
  /\ UNCHANGED <<path, nat, agg, mpc, lost, view>>

\* The stream handler returns: after [DONE] (twice finalized: once for the
\* frame, once by Finalize), or without it when the client left.
BridgeFinalize(withDone) ==
  /\ Ready("bridge")
  /\ LET b == FinalizeMessage(IF withDone THEN HandleFrame(br, "[DONE]", 0) ELSE br)
     IN  br' = [b EXCEPT !.ev = <<>>] /\ out' = b.ev
  /\ mpc' = "over"
  /\ UNCHANGED <<path, up, nat, agg, lost, view>>

-----------------------------------------------------------------------------
(* The native upstream and handleStreamAnthropicMessages *)

\* The next event of the upstream, and the upstream after it.
UpEvents ==
  {[e |-> Ev("message_start", 0), to |-> up] : x \in IF up.used = {} /\ up.pc = "sending" THEN {1} ELSE {}}
  \cup {[e |-> Ev("block_start", i), to |-> [up EXCEPT !.open = @ \cup {i}, !.used = @ \cup {i}]] : i \in BlockIds \ up.used}
  \cup {[e |-> Ev("delta", i), to |-> up] : i \in up.open}
  \cup {[e |-> Ev("block_stop", i), to |-> [up EXCEPT !.open = @ \ {i}]] : i \in up.open}
  \cup {[e |-> Ev("message_delta", 0), to |-> [up EXCEPT !.reason = r]] : r \in IF up.reason = "none" THEN {"end_turn", "max_tokens"} ELSE {}}
  \cup {[e |-> Ev("message_stop", 0), to |-> [up EXCEPT !.pc = "finished"]]}
  \cup {[e |-> Ev("error", 0), to |-> [up EXCEPT !.pc = "failed"]]}

\* An upstream message_stop with blocks left open: their stops come first.
NativeWrites(e) == IF e.type = "message_stop" THEN Stops(nat.open) \o <<e>> ELSE <<e>>

NativeTracks(e) ==
  CASE e.type = "message_stop" -> [open |-> {}, stop |-> TRUE]
    [] e.type = "block_start"  -> [nat EXCEPT !.open = @ \cup {e.idx}]
    [] e.type = "block_stop"   -> [nat EXCEPT !.open = @ \ {e.idx}]
    [] OTHER -> nat

NativeEvent ==
  /\ Ready("native") /\ up.pc = "sending"
  /\ \E u \in UpEvents :
       /\ u.e.type = "message_start" => ~view.started
       /\ out' = NativeWrites(u.e) /\ nat' = NativeTracks(u.e) /\ up' = u.to
  /\ UNCHANGED <<path, br, agg, mpc, lost, view>>

NativePing ==
  /\ Ready("native") /\ out' = <<Ev("ping", 0)>>
  /\ UNCHANGED <<path, up, br, nat, agg, mpc, lost, view>>

Synthesized == Stops(nat.open) \o <<Ev("message_delta", 0), Ev("message_stop", 0)>>

\* The channel closes, the idle watchdog trips or the request is cancelled
\* while its client still reads: the open blocks are closed and a terminal is
\* made up unless the upstream's was seen.
NativeEnds ==
  /\ Ready("native")
  /\ out' = IF nat.stop THEN <<>> ELSE Synthesized
  /\ mpc' = "over"
  /\ UNCHANGED <<path, up, br, nat, agg, lost, view>>

-----------------------------------------------------------------------------
(* AggregateAnthropicStreamEvents *)

AggregateEvent ==
  /\ Ready("aggregate") /\ up.pc = "sending"
  /\ \E u \in UpEvents :
       /\ up' = u.to
       /\ agg' = CASE u.e.type = "block_start" -> [agg EXCEPT !.blocks = @ \cup {u.e.idx}]
                   [] u.e.type = "message_delta" -> [agg EXCEPT !.reason = u.to.reason]
                   [] u.e.type = "message_stop" -> [agg EXCEPT !.result = "message"]
                   [] u.e.type = "error" -> [agg EXCEPT !.result = "error"]
                   [] OTHER -> agg
       /\ mpc' = IF u.e.type \in {"message_stop", "error"} THEN "over" ELSE "loop"
  /\ UNCHANGED <<path, br, nat, out, lost, view>>

\* The idle timer or the context: an error. The channel closing: a message,
\* with the stop reason end_turn when none came.
AggregateEnds(closed) ==
  /\ Ready("aggregate")
  /\ agg' = IF closed THEN [agg EXCEPT !.result = "message", !.reason = IF @ = "none" THEN "end_turn" ELSE @]
                      ELSE [agg EXCEPT !.result = "error"]
  /\ mpc' = "over"
  /\ UNCHANGED <<path, up, br, nat, out, lost, view>>

-----------------------------------------------------------------------------
(* Writing *)

ReasonWritten == IF path = "bridge" THEN (IF br.reason = "none" THEN "end_turn" ELSE br.reason)
                 ELSE IF mpc = "over" THEN "max_tokens" ELSE up.reason

Forward ==
  /\ out # <<>> /\ ~lost
  /\ LET e == Head(out)
     IN  view' = [view EXCEPT !.started = @ \/ e.type = "message_start",
                              !.open = IF e.type = "block_start" THEN @ \cup {e.idx} ELSE IF e.type = "block_stop" THEN @ \ {e.idx} ELSE @,
                              !.used = IF e.type = "block_start" THEN @ \cup {e.idx} ELSE @,
                              !.ended = @ \/ e.type = "message_stop",
                              !.last = e, !.beat = 1 - @,
                              !.reason = IF e.type = "message_delta" THEN ReasonWritten ELSE @]
  /\ out' = Tail(out)
  /\ UNCHANGED <<path, up, br, nat, agg, mpc, lost>>

\* A failing write ends the native handler at once; the bridge goes on, and
\* writes into the void.
WriteFails ==
  /\ out # <<>>
  /\ lost' = TRUE /\ out' = <<>> /\ mpc' = IF path = "native" THEN "over" ELSE mpc
  /\ UNCHANGED <<path, up, br, nat, agg, view>>

Kinds == {"error", "keepalive", "role", "usage", "reasoning", "text", "stop", "length"}

MsgNext ==
  \/ \E kind \in Kinds : BridgeFrame(kind, 0)
  \/ \E k \in ToolCalls : BridgeFrame("tool", k)
  \/ \E d \in BOOLEAN : BridgeFinalize(d)
  \/ NativeEvent \/ NativePing \/ NativeEnds \/ AggregateEvent
  \/ \E c \in BOOLEAN : AggregateEnds(c)
  \/ Forward \/ WriteFails

MsgSpec == MsgInit /\ [][MsgNext]_msgVars
-----------------------------------------------------------------------------
(* Properties *)

Protocol == INSTANCE MessageProtocol
  WITH started <- view.started, open <- view.open, used <- view.used, ended <- view.ended, last <- view.last, beat <- view.beat

\* Event by event, what the client receives on either streaming path is a
\* message of the protocol, however the upstream breaks off.
ImplementsProtocol == Protocol!ProtocolSpec

\* A client that still reads is never left with a message that does not end:
\* once the handler is over and everything is written, there was a
\* message_stop or an error event.
TerminalDelivered ==
  path \in {"bridge", "native"} /\ mpc = "over" /\ out = <<>> /\ ~lost => view.ended \/ (path = "bridge" /\ br.err)

\* No message with nothing in it: a bridge that ended a message normally had
\* written a block.
NoEmptyMessage == path = "bridge" /\ view.ended => view.used # {}

\* The aggregated message has every block the upstream started.
NothingAggregatedAway == agg.result = "message" => agg.blocks = up.used

\* A native stream that broke off is not reported as finished: the client is
\* told end_turn only when the upstream said so. (The bridge and the
\* aggregate say end_turn when no reason came.)
TruncationIsSignalled == path = "native" /\ view.reason = "end_turn" => up.reason = "end_turn"

\* What holds of the answer on every path: it ends, it is not empty, it holds
\* all that the upstream sent, and it says when it was cut.
MessageSound == TerminalDelivered /\ NoEmptyMessage /\ NothingAggregatedAway /\ TruncationIsSignalled
=============================================================================
