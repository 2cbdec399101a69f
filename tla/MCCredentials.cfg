SPECIFICATION Spec
SYMMETRY Symmetry
CONSTANTS
  TaskId = {"t1"}
  Sub = {"u"}
  Jkt = {"k"}
  Kid = {"k1", "k2"}
  ControlKid = {"op"}
  OpId = {o1, o2, o3}
  CallerJti = {}
  ControlJti = {m1, m2, m3}
  Handler = {h1}
  Call <- ReadCall
  Proof <- CredProof
  MintRequest <- CredMint
  Policy <- CredPolicy
  Observation <- CardAt0
  Controls <- NoAuditor
  InitKid = "k1"
  InitPolicy <- CredInit
  PROOF_LEEWAY = 1
  NONCE_TTL = 2
  TOKEN_TTL_MIN = 1
  TOKEN_TTL_MAX = 2
  TASK_TTL = 2
  ADAPTER_DEADLINE = 1
  PROOF_RETENTION = 3
  RESULT_RETENTION = 2
  OPERATION_RETENTION = 3
  ALARM_BATCH = 5
  MAX_INFLIGHT_CALLS = 1
  MAX_LIVE_TASKS = 1
  MAX_OPEN_NONCES_TOKEN = 1
  MAX_OPEN_NONCES_TENANT = 1
  FRESH_WINDOW = 3
  CACHE_WINDOW = 3
  MaxToken = 2
  MaxNonce = 0
  MaxRevision = 2
  MaxTime = 5
  LastRequest = 2
  MaxBack = 0
INVARIANTS InspectAgrees RetiredKeyDrained MintJournalled RequiredIsBound
PROPERTIES MintLive
