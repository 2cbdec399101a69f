SPECIFICATION Spec
CONSTANTS
  Cfg <- SessionCfg
  SigningKey = {"s"}
  Opts <- SessionOpts
  Token <- SessionToken
  Call = {"read", "delete"}
  Destructive = {"delete"}
  NonceId = {1, 2}
  Thread = {"a", "b"}
  CallsOf <- SessionCallsOf
  Users <- SessionUsers
  Ending = {"SUCCEEDED", "FAILED"}
  MAX_RETRIES = 1
INVARIANTS NotDispatchedIsTrue
CHECK_DEADLOCK FALSE
