SPECIFICATION Spec
CONSTANTS
  None = None
  Client = Client
  Gone = Gone
  CapIds <- MCCapIds
  Names <- MCNames
  Domains <- MCDomains
  Scopes = {}
  Actors = {}
  Brokers = {1, 2, 3}
  Dot = "."
  Registries <- MCRegistries
  Foreign = {3}
  Federations <- MCFederations
  Requests <- MCRequests
  MaxRequests = 2
INVARIANTS TypeOK TrustTierRespected PathLeadsToHolder SoftModeAnswers NothingSilentlyMissing ConfigOrderDoesNotMatter
PROPERTIES EveryRequestAnswered TrafficDiesOut
CHECK_DEADLOCK FALSE
