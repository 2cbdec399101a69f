SPECIFICATION ExportSpec
CONSTANTS
  AuditKid = "a1"
  TrustedKid = {"a1", "a2"}
  Event <- MCRotation
  MaxOther = 4
  MaxEvents = 9
  PageLimit = 2
INVARIANTS LogOK Genuine PinnedLog ExportVerifies
PROPERTIES  ExportEnds
CHECK_DEADLOCK FALSE
