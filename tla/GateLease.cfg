\* The constants of MCParts.cfg; the property a comment states of identity leases.
CONSTANTS
  Calls = {c1, c2}
  Arrivals <- AnyCall
  IdThreshold = 1
  IdStrict = TRUE
  LeaseLimit = 1
  LimCalls = {l1, l2, l3}
  RPM = 1
  TPM = 2
  Tokens = {0, 2}
  MaxGen = 2
  TqCalls = {q1, q2}
  Budget = 3
  Overrides = {0, 2}
  SoftLimit = 2
  Estimates = {1}
  Used = {2}
  LastDay = 2
  TqMaxCrashes = 1
  Keys = {k1, k2}
  Callers = {g1, g2}
  Sizes = {1}
  EntryLimits = {1}
  ByteLimits = {1, 2}
  MaxElems = 2
  SemCallers = {c1, c2}
  p1 = p1
  p2 = p2
  Payloads = {p1, p2}
  SystemHashes = {h1, h2}
  Similarity <- Cosines
  Threshold = 9
  SemMax = 1
  MaxSem = 2
  Entries = {e1, e2, e3, e4}
  BadPayloads = {e2}
  QueueCap = 2
  BatchSize = 1
  MaxFailures = 2
  Nil = Nil
  StCalls = {w1, w2}
  StKeys = {n1}
  StTeams = {"default", "t1"}
  StOrgs = {"default", "o1"}
  Hashes = {s1, s2}
  KeyLimit = 1
  TeamLimit = 2
  StDays = 2
  MaxCharges = 1
  MaxFaults = 1
  MaxLogs = 5
  RingSize = 3
  BatchTotal = 2
  MaxBatch = 1
  Procs = {g1, g2}
  Nobody = Nobody
  DataDir = TRUE
  MaxReqs = 1
  MaxKills = 1
  MaxVersion = 2
  MaxPanics = 2
  g1 = g1
  m1 = m1
  Gateways = {g1, g2}
  Modules = {m1, m2}
  Accepts <- Allowlists
  MfCalls = {f1, f2}
  Absent = Absent
  MaxKeys = 2
  MaxMfFaults = 1
  MaxRestarts = 1
  ShUsers = {u1, u2}
  ShRoles = {"ops"}
  ShCalls = {a1, a2}
  Seed <- AllAdmins
  NoAccount = NoAccount
  localModel = localModel
  cloudModel = cloudModel
  Tenants = {t1}
  PolicyUsers = {u1, u2}
  PolicyModels = {localModel, cloudModel}
  LocalModels = {localModel}
  NoModel = NoModel
  DefaultModel = cloudModel
  Policies <- SomePolicies
  PolicyCalls = {c1, c2}
  MaxPolicyOps = 4
  MaxPolicyCrashes = 1
  EpCalls = {c1, c2}
  TaskIds = {i1, i2}
  Owners = {o1, o2}
  NoOwner = NoOwner
  NoTask = NoTask
  MaxEntries = 1
  StreamCap = 1
  QueueSlots = 1
  MaxEpOps = 2
  Batch = 5
  ShardSize = 2
  ShardWorkers = {w1, w2}
  ShNoFile = ShNoFile
  Cleared = Cleared
  Torn = Torn
  AuditCap = 2
  MaxShOps = 3
  MaxShCrashes = 1
SPECIFICATION PartsSpec
CHECK_DEADLOCK FALSE
INVARIANT LeaseReturned
