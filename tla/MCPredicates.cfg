SPECIFICATION ScopeSpec
CONSTANTS
  Tool = {"read", "delete"}
  Field = {"path", "version"}
  Segment = {"a", "b"}
  Grants <- MCGrants
  Request <- MCRequest
  Args <- MCArgs
INVARIANTS WithinGrant
\* A grant that implies none of the requests leaves nothing to do.
CHECK_DEADLOCK FALSE
