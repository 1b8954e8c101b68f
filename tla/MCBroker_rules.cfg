SPECIFICATION Spec
CONSTANTS
  None = None
  r = r
  x = x
  CapIds <- MCCapIds
  Names <- MCNames
  Domains <- MCDomains
  Scopes <- MCScopes
  Actors <- MCActors
  Workers = {w1}
  Descriptors <- MCDescriptors
  Bodies <- MCBodies
  Headers <- MCHeaders
  TrustedHeaders = TRUE
  EnforceApproval = TRUE
  InitialRegistries <- MCRegistries
  MaxArrivals = 1
  MaxRegistryChanges = 3
  MaxClock = 1
INVARIANTS TypeOK PlanAuthorized ExpiredOnArrivalRefused ApprovalGate NoGuessing GatewayClaimsBind LosersDoNotMatter
CHECK_DEADLOCK FALSE
