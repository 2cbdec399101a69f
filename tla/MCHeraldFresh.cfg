SPECIFICATION FairSpec
CONSTANTS
  TaskId = {"t1"}
  Sub = {"u"}
  Jkt = {"k"}
  Kid = {"k1"}
  ControlKid = {"op"}
  OpId = {o1}
  CallerJti = {a1, a2}
  ControlJti = {m1}
  Handler = {h1}
  Call <- CallsCall
  Proof <- MCProof
  MintRequest <- CallsMint
  Policy <- CallsPolicy
  Observation <- BriefAt0
  Controls <- Everyone
  InitKid = "k1"
  InitPolicy <- CallsInit
  PROOF_LEEWAY = 3
  NONCE_TTL = 2
  TOKEN_TTL_MIN = 1
  TOKEN_TTL_MAX = 3
  TASK_TTL = 4
  ADAPTER_DEADLINE = 1
  PROOF_RETENTION = 7
  RESULT_RETENTION = 2
  OPERATION_RETENTION = 4
  ALARM_BATCH = 5
  MAX_INFLIGHT_CALLS = 1
  MAX_LIVE_TASKS = 1
  MAX_OPEN_NONCES_TOKEN = 1
  MAX_OPEN_NONCES_TENANT = 1
  FRESH_WINDOW = 1
  CACHE_WINDOW = 3
  MaxToken = 1
  MaxNonce = 1
  MaxRevision = 1
  MaxTime = 1
  LastRequest = 1
  MaxBack = 0
PROPERTIES CardFreshAtDispatch
