SPECIFICATION Spec
CONSTANTS
  None = None
  CapIds <- MCCapIds
  Names <- MCNames
  Domains <- MCDomains
  Scopes <- MCScopes
  Actors <- MCActors
  Fields <- MCFields
  Callers = {1, 2}
  Kinds <- MCKinds
  ArgumentsOf <- MCArguments
  ParametersOf <- MCParameters
  BootRegistry <- MCBoot
  Descriptors <- MCDescriptors
  Withdrawn <- MCWithdrawn
  EnforceApproval = TRUE
  MaxAttempts = 2
  MaxRegistryChanges = 1
  MaxRestarts = 1
INVARIANTS TypeOK GoAheadIsGranted AnswerOnRecord GoGetsNoLess NamedIsSelected SeededWritesNeedTrust PayloadServesCaller
PROPERTIES CallSpec EverySubmissionEnds
CHECK_DEADLOCK FALSE
