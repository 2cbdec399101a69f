SPECIFICATION Spec
SYMMETRY Symmetry
CONSTANTS
  TaskId = {"t1"}
  Sub = {"u"}
  Jkt = {"k"}
  Kid = {"k1"}
  ControlKid = {"op"}
  OpId = {o1}
  CallerJti = {}
  ControlJti = {m1}
  Handler = {h1}
  Call <- ClockCall
  Proof <- ClockProof
  MintRequest <- ClockMint
  Policy <- ClockPolicy
  Observation = {}
  Controls <- Everyone
  InitKid = "k1"
  InitPolicy <- ClockInit
  PROOF_LEEWAY = 1
  NONCE_TTL = 1
  TOKEN_TTL_MIN = 1
  TOKEN_TTL_MAX = 2
  TASK_TTL = 2
  ADAPTER_DEADLINE = 1
  PROOF_RETENTION = 3
  RESULT_RETENTION = 1
  OPERATION_RETENTION = 3
  ALARM_BATCH = 5
  MAX_INFLIGHT_CALLS = 1
  MAX_LIVE_TASKS = 1
  MAX_OPEN_NONCES_TOKEN = 1
  MAX_OPEN_NONCES_TENANT = 1
  FRESH_WINDOW = 3
  CACHE_WINDOW = 3
  MaxToken = 1
  MaxNonce = 0
  MaxRevision = 1
  MaxTime = 5
  LastRequest = 5
  MaxBack = 2
INVARIANTS ExecutedOnce ExpiredStays DispatchOnce
PROPERTIES ImplementsLedger ImplementsCallService
