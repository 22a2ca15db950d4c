\* Three requests on a queue of two slots; two admin endpoints at once, the
\* file watcher, one edit by hand that may break two sections, one crash; two
\* requests on a budget of two over one midnight and one crash.
CONSTANTS
  Requests = {r1, r2, r3}
  MaxConcurrent = 2
  HeavyGuarantee = 1
  LightGuarantee = 1
  Writers = {w1, w2}
  Reloaders = {"watch"}
  Breakable = {{"mcp", "auth"}}
  MaxEdits = 1
  CfgMaxCrashes = 1
  Jobs = {j1, j2}
  Limit = 2
  DayLimit = 2
  LastDate = 1
  MaxUsage = 3
  KeyNames = {n1}
  Admins = {a1}
  MaxCrashes = 1
SPECIFICATION ControlSpec
INVARIANTS
  TypeOK SlotAccounting WaiterOnceQueuedOrCommitted NoLostWakeup
   
PROPERTIES
  GrantInOrder OvertakenOnlyByRank AcquireReturns HeavyServed
   
