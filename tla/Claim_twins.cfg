SPECIFICATION Spec
CONSTANTS
  None = None
  r = r
  x = x
  CapIds <- MCCapIds
  IdRank <- MCIdRank
  Names = {"n"}
  Domains = {"d"}
  Scopes <- MCScopes
  Actors <- MCActors
  Workers = {w1}
  Intents <- JustTheIntent
  CandidateLists <- JustTheTwins
  Engines <- JustTheEngine
  InjectedResults <- MCInjectedResults
  MaxCalls = 1
  MaxClock = 0
INVARIANTS OnlyAllowedArePlanned
CHECK_DEADLOCK FALSE
