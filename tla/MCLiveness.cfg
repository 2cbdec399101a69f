SPECIFICATION FairSpec
CONSTANTS
  TaskId = {"t1"}
  Sub = {"u"}
  Jkt = {"k"}
  Kid = {"k1"}
  ControlKid = {"op"}
  OpId = {o1}
  CallerJti = {a1, a2, a3}
  ControlJti = {m1}
  Handler = {h1, h2}
  Call <- LiveCall
  Proof <- MCProof
  MintRequest <- LiveMint
  Policy <- LivePolicy
  Observation = {}
  Controls <- Everyone
  InitKid = "k1"
  InitPolicy <- LiveInit
  PROOF_LEEWAY = 3
  NONCE_TTL = 1
  TOKEN_TTL_MIN = 1
  TOKEN_TTL_MAX = 3
  TASK_TTL = 4
  ADAPTER_DEADLINE = 1
  PROOF_RETENTION = 7
  RESULT_RETENTION = 2
  OPERATION_RETENTION = 4
  ALARM_BATCH = 5
  MAX_INFLIGHT_CALLS = 1
  MAX_LIVE_TASKS = 1
  MAX_OPEN_NONCES_TOKEN = 1
  MAX_OPEN_NONCES_TENANT = 1
  FRESH_WINDOW = 3
  CACHE_WINDOW = 3
  MaxToken = 1
  MaxNonce = 2
  MaxRevision = 1
  MaxTime = 3
  LastRequest = 1
  MaxBack = 0
INVARIANT WithinLimits
 
