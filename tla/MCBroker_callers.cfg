SPECIFICATION Spec
CONSTANTS
  None = None
  r = r
  x = x
  CapIds <- MCCapIds
  Names <- MCNames
  Domains <- MCDomains
  Scopes <- MCScopes
  Actors <- MCActors
  Workers = {w1, w2}
  Descriptors <- FewDescriptors
  Bodies <- FewBodies
  Headers <- OneHeader
  TrustedHeaders = FALSE
  EnforceApproval = TRUE
  InitialRegistries <- FewRegistries
  MaxArrivals = 2
  MaxRegistryChanges = 1
  MaxClock = 0
INVARIANTS AuditedBeforeAnswered
PROPERTIES GateSpec EveryCallAnswered
CHECK_DEADLOCK FALSE
