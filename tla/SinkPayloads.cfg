\* One batch of two entries; the database refuses the payload of the second.
CONSTANTS
  Entries = {e1, e2}
  BadPayloads = {e2}
  QueueCap = 2
  BatchSize = 2
  MaxFailures = 0
SPECIFICATION SinkSpec
CHECK_DEADLOCK FALSE
INVARIANT GoodPayloadsCommit
