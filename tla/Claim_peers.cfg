SPECIFICATION Spec
CONSTANTS
  None = None
  Client = Client
  Gone = Gone
  CapIds <- MCCapIds
  Names <- MCNames
  Domains <- MCDomains
  Scopes = {}
  Actors = {}
  Brokers = {1, 2, 3}
  Dot = "."
  Registries <- MCRegistries
  Foreign = {}
  Federations <- JustTheChain
  Requests <- JustTheQuery
  MaxRequests = 1
INVARIANTS OnlyListedPeersSpeak
CHECK_DEADLOCK FALSE
