SPECIFICATION Spec
CONSTANTS
  None = None
  r = r
  x = x
  CapIds <- MCCapIds
  IdRank <- MCIdRank
  Names = {"n"}
  Domains = {"d"}
  Scopes <- MCScopes
  Actors <- MCActors
  Workers = {w1, w2}
  Intents <- MCIntents
  CandidateLists <- MCCandidateLists
  Engines <- MCEngines
  InjectedResults <- MCInjectedResults
  MaxCalls = 2
  MaxClock = 1
INVARIANTS TypeOK FailsClosed LosersOnlyTighten NoLaxerThanBroker AuditTellsBundle OrderDoesNotMatter
SYMMETRY WorkerSymmetry
CHECK_DEADLOCK FALSE
