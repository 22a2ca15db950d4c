\* Two requests for one cache key, one local slot, one stream slot and a daily
\* overflow ceiling of one; messages of up to three blocks and two tool calls.
CONSTANTS
  Requests = {r1, r2}
  Nobody = Nobody
  CacheKeys = {k1}
  Endpoints = {"chat", "completions"}
  SlotCap = 1
  StreamCap = 1
  Overflow = TRUE
  Ceiling = 1
  CloudVLM = TRUE
  MaxBlocks = 3
  ToolCalls = {0, 1}
SPECIFICATION ServeSpec
CHECK_DEADLOCK FALSE
INVARIANTS  MessageSound
PROPERTIES AbortLeavesNoMark EverythingReturned ImplementsProtocol
