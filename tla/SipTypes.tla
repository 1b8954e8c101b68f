-------------------------------- MODULE SipTypes --------------------------------
(***************************************************************************)
(* The vocabulary every other module shares: trust levels, operation       *)
(* classes, risk levels, the capability descriptor held by the registry,   *)
(* the intent envelope an actor submits, and the small pure rules of       *)
(* sip/policy and sip/envelope that are defined on them.                   *)
(*                                                                         *)
(* Strings are abstracted to what the code tells apart.  How an intent     *)
(* name relates to a capability (equal to its id, a substring of its id or *)
(* name, unrelated) is a field of the descriptor, and so is how an intent  *)
(* domain relates to its domains.                                          *)
(***************************************************************************)
EXTENDS Integers, Sequences, FiniteSets

CONSTANTS
  CapIds,    \* capability identifiers
  Names,     \* intent names
  Domains,   \* intent domains
  Scopes,    \* permission scopes
  Actors,    \* actor identifiers
  None       \* Python's None

TrustLevels      == {"public", "internal", "privileged", "admin"}
OperationClasses == {"read", "write", "execute", "analyze", "retrieve", "delegate"}
RiskLevels       == {"low", "medium", "high", "critical"}
Sensitivities    == {"public", "internal", "confidential", "restricted"}
BindingTypes     == {"rest", "grpc", "mcp", "a2a", "rag"}

\* _TRUST_ORDER, the same table in the validator, the registry and the policy engine.
TrustRank == [public |-> 0, internal |-> 1, privileged |-> 2, admin |-> 3]

\* How a lower-cased intent string relates to a descriptor's strings.
MatchKinds == {"exact", "partial", "none"}

CapabilityDescriptor ==
  [ id          : CapIds,
    nameMatch   : [Names -> MatchKinds],
    domainMatch : [Domains -> MatchKinds],
    opClass     : OperationClasses,
    risk        : RiskLevels,
    scopes      : SUBSET Scopes,
    minTrust    : TrustLevels,
    bindings    : Seq(BindingTypes),
    humanApproval : BOOLEAN ]

ActorDescriptor == [id : Actors, trust : TrustLevels, scopes : SUBSET Scopes]

\* The empty string, which may stand for an actor in a delegation, but is the actor_id of
\* none.
Blank == ""

Parties == Actors \cup {Blank, None}

\* expiry is a reading of the clock; authority = None means authority_scope is absent.
ProvenanceBlock ==
  [ originator  : Parties,
    submittedBy : Parties,
    depth       : Nat,
    expiry      : Nat \cup {None},
    authority   : {None} \cup SUBSET Scopes ]

\* allowed and forbidden are the action types of Constraints; the protocol
\* vectors use operation classes for them.  requirementBindings lists the
\* preferred bindings of capability_requirements, those without one left out.
IntentEnvelope ==
  [ supportedVersion : BOOLEAN,
    actor         : ActorDescriptor,
    name          : Names,
    domain        : Domains,
    opClass       : OperationClasses,
    sensitivity   : Sensitivities,
    allowed       : SUBSET OperationClasses,
    forbidden     : SUBSET OperationClasses,
    declaredTrust : TrustLevels,
    chainDepth    : Nat,
    bindings      : Seq(BindingTypes),
    requirementBindings : Seq(BindingTypes),
    hints         : SUBSET CapIds,
    allowFallback : BOOLEAN,
    maxCandidates : Int,
    prov          : ProvenanceBlock \cup {None} ]

ASSUME NoneAssumption ==
  /\ None \notin Actors
  /\ Blank \notin Actors \cup {None}
  /\ None \notin Nat
  /\ \A S \in SUBSET Scopes : S # None
  /\ None \notin BindingTypes
  /\ None \notin ProvenanceBlock

--------------------------------------------------------------------------------
Elements(s) == {s[i] : i \in DOMAIN s}

Reaches(level, minimum) == TrustRank[level] >= TrustRank[minimum]

\* _MAX_DELEGATION_CHAIN_DEPTH of the validator, _MAX_DELEGATION_DEPTH of the engine.
MaxDelegationDepth == 5

\* _APPROVAL_REQUIRED_COMBINATIONS
ApprovalCombinations ==
  ({"high"} \X {"write", "execute", "delegate"}) \cup
  ({"critical"} \X {"write", "execute", "read", "delegate"})

RequiresApproval(risk, opClass, enforce) ==
  enforce /\ <<risk, opClass>> \in ApprovalCombinations

\* _DENIED_COMBINATIONS
IsDeniedByRisk(risk, sensitivity) == <<risk, sensitivity>> = <<"critical", "restricted">>

\* check_scopes: the required scopes that were not granted.
MissingScopes(required, granted) == required \ granted

\* Mutant: the delegation's authority_scope is not looked at.
UndelegatedScopes(e) == e.actor.scopes

\* PolicyEngine._compute_effective_scopes, with the engine's choice between the
\* delegated and the plain scope set.
EffectiveScopes(e) ==
  IF e.prov # None /\ e.prov.authority # None
    THEN e.actor.scopes \cap e.prov.authority
    ELSE e.actor.scopes
================================================================================
