SPECIFICATION Spec
CONSTANTS
  None = None
  r = r
  x = x
  CapIds <- MCCapIds
  Names <- MCNames
  Domains <- MCDomains
  Scopes <- MCScopes
  Actors <- MCActors
  Workers = {w1}
  Descriptors <- JustOperate
  Bodies <- Expiring
  Headers <- OneHeader
  TrustedHeaders = FALSE
  EnforceApproval = TRUE
  InitialRegistries <- OperateRegistry
  MaxArrivals = 1
  MaxRegistryChanges = 0
  MaxClock = 1
PROPERTIES ExpiryEnforcedByPolicy
CHECK_DEADLOCK FALSE
