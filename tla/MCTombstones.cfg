SPECIFICATION SSpec
SYMMETRY SnapSymmetry
CONSTANTS
  TaskId = {"t1"}
  Sub = {"u"}
  Jkt = {"k"}
  Kid = {"k1", "k2"}
  ControlKid = {"op"}
  OpId = {o1, o2}
  CallerJti = {}
  ControlJti = {m1, m2}
  Handler = {h1}
  Call <- SnapCall
  Proof <- SnapProof
  MintRequest <- SnapUnboundMint
  Policy <- SnapUnboundPolicy
  Observation = {}
  Controls <- SnapOperator
  InitKid = "k1"
  InitPolicy <- SnapUnbound
  PROOF_LEEWAY = 3
  NONCE_TTL = 2
  TOKEN_TTL_MIN = 1
  TOKEN_TTL_MAX = 3
  TASK_TTL = 4
  ADAPTER_DEADLINE = 1
  PROOF_RETENTION = 7
  RESULT_RETENTION = 2
  OPERATION_RETENTION = 4
  ALARM_BATCH = 5
  MAX_INFLIGHT_CALLS = 1
  MAX_LIVE_TASKS = 1
  MAX_OPEN_NONCES_TOKEN = 1
  MAX_OPEN_NONCES_TENANT = 1
  FRESH_WINDOW = 3
  CACHE_WINDOW = 3
  MaxToken = 1
  MaxNonce = 0
  MaxRevision = 1
  MaxTime = 0
  LastRequest = 0
  MaxBack = 0
  MaxCommits <- SnapCommitsOnce
INVARIANTS RevocationIsDurable

