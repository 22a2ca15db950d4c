--------------------------- MODULE MessageProtocol ---------------------------
(***************************************************************************)
(* What a client of /v1/messages may rely on in an event stream: content   *)
(* blocks are numbered afresh, a delta belongs to a block that is open,    *)
(* and the message stops once, with every block closed.  "beat" changes    *)
(* with every event, so that no event is a stuttering step.                *)
(***************************************************************************)
EXTENDS Naturals

CONSTANT BlockIds

VARIABLES started, open, used, ended, last, beat

protocolVars == <<started, open, used, ended, last, beat>>

ProtocolInit == started = FALSE /\ open = {} /\ used = {} /\ ended = FALSE /\ last = [type |-> "none", idx |-> 0] /\ beat = 0

Event(type, i) == last' = [type |-> type, idx |-> i] /\ beat' = 1 - beat

MessageStart == ~started /\ ~ended /\ started' = TRUE /\ Event("message_start", 0) /\ UNCHANGED <<open, used, ended>>
BlockStart(i) == ~ended /\ i \notin used /\ used' = used \cup {i} /\ open' = open \cup {i}
                 /\ Event("block_start", i) /\ UNCHANGED <<started, ended>>
BlockDelta(i) == ~ended /\ i \in open /\ Event("delta", i) /\ UNCHANGED <<started, open, used, ended>>
BlockStop(i) == ~ended /\ i \in open /\ open' = open \ {i} /\ Event("block_stop", i) /\ UNCHANGED <<started, used, ended>>
MessageDelta == ~ended /\ Event("message_delta", 0) /\ UNCHANGED <<started, open, used, ended>>
MessageStop == ~ended /\ open = {} /\ ended' = TRUE /\ Event("message_stop", 0) /\ UNCHANGED <<started, open, used>>

\* A ping or an error carries nothing of the message.
Notice == \E t \in {"ping", "error"} : Event(t, 0) /\ UNCHANGED <<started, open, used, ended>>

ProtocolNext ==
  \/ MessageStart \/ MessageDelta \/ MessageStop \/ Notice
  \/ \E i \in BlockIds : BlockStart(i) \/ BlockDelta(i) \/ BlockStop(i)

ProtocolSpec == ProtocolInit /\ [][ProtocolNext]_protocolVars
=============================================================================
