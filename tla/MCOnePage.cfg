SPECIFICATION ExportSpec
CONSTANTS
  AuditKid = "a1"
  TrustedKid = {"a1"}
  Event <- MCCall
  MaxOther = 3
  MaxEvents = 5
  PageLimit = 2
INVARIANTS OnePageVerifies
CHECK_DEADLOCK FALSE
