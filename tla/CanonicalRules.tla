------------------------------ MODULE CanonicalRules ------------------------------
(***************************************************************************)
(* The pure decisions of the canonical pipeline (sip/core): what of an     *)
(* envelope its policy engine sees, what that engine allows, and which     *)
(* capability the deterministic planner then takes.                        *)
(***************************************************************************)
EXTENDS BrokerRules, SequencesExt

CONSTANT IdRank    \* the place of a capability id in the order of strings

\* A candidate: provider is the place of its provider_id in the order of strings.
Offer == [cap : CapabilityDescriptor, provider : Nat]

\* The part of NormalizedIntent that is read again.  (trust_requirements is not.)
NormalizedIntent ==
  [ trust : TrustLevels, scopes : SUBSET Scopes, originator : Parties,
    depth : Nat, sensitivity : Sensitivities, mode : BindingTypes \cup {None} ]

ReasonCodes == {"ALLOWED", "EVALUATION_ERROR", "MISSING_PROVENANCE",
                "DELEGATION_CHAIN_TOO_LONG", "NO_ALLOWED_CAPABILITIES"}

\* approvals: the capabilities that required_approvals names.
PolicyResult ==
  [allowed : BOOLEAN, reason : ReasonCodes, capabilities : Seq(Offer), approvals : SUBSET CapIds]

CanonicalPlan == [offer : Offer, binding : BindingTypes, approvalRequired : BOOLEAN]

ASSUME CanonicalRulesAssumption ==
  /\ IdRank \in [CapIds -> Nat]
  /\ \A i, j \in CapIds : IdRank[i] = IdRank[j] => i = j

--------------------------------------------------------------------------------
(* The list comprehensions: the offers at some places, in their order.  (As a  *)
(* function of the place rather than a recursive filter, to be reasoned about.) *)

Nth(places, n) == CHOOSE i \in places : Cardinality({j \in places : j < i}) = n - 1

OffersAt(offers, places) == [n \in 1..Cardinality(places) |-> offers[Nth(places, n)]]

--------------------------------------------------------------------------------
\* from_envelope.
Normalized(e) ==
  [ trust |-> e.actor.trust, scopes |-> e.actor.scopes,
    originator |-> IF e.prov = None THEN None ELSE e.prov.originator,
    depth |-> IF e.prov = None THEN 0 ELSE e.prov.depth,
    sensitivity |-> e.sensitivity, mode |-> PreferredBinding(e) ]

DenyWith(reason) == [allowed |-> FALSE, reason |-> reason, capabilities |-> <<>>, approvals |-> {}]

\* Mutant: the trust tier is left to the caller's discovery.
PassesButTrust(intent, cap) ==
  /\ MissingScopes(cap.scopes, intent.scopes) = {}
  /\ ~IsDeniedByRisk(cap.risk, intent.sensitivity)

\* _evaluate_capability.
Passes(intent, cap) ==
  /\ MissingScopes(cap.scopes, intent.scopes) = {}
  /\ Reaches(intent.trust, cap.minTrust)
  /\ ~IsDeniedByRisk(cap.risk, intent.sensitivity)

ApprovalNeeded(cap, enforce) ==
  RequiresApproval(cap.risk, cap.opClass, enforce) \/ cap.humanApproval

\* Mutant: one capability that needs no approval is enough to ask for none.
AllowIfAnyFree(passing, enforce) ==
  [ allowed |-> TRUE, reason |-> "ALLOWED", capabilities |-> passing,
    approvals |-> IF \A o \in Elements(passing) : ApprovalNeeded(o.cap, enforce)
                    THEN {o.cap.id : o \in Elements(passing)} ELSE {} ]

\* Whichever capability is planned later, approval is required if any of them needs it.
Allow(passing, enforce) ==
  [ allowed |-> TRUE, reason |-> "ALLOWED", capabilities |-> passing,
    approvals |-> {o.cap.id : o \in {p \in Elements(passing) : ApprovalNeeded(p.cap, enforce)}} ]

\* An empty originator counts as none.
Anonymous(intent) == intent.originator \in {Blank, None}

\* CanonicalPolicyEngine.evaluate.
EvaluateAll(intent, offers, engine) ==
  LET passing == OffersAt(offers, {i \in DOMAIN offers : Passes(intent, offers[i].cap)})
  IN  IF engine.provenance /\ Anonymous(intent) THEN DenyWith("MISSING_PROVENANCE")
      ELSE IF intent.depth > MaxDelegationDepth THEN DenyWith("DELEGATION_CHAIN_TOO_LONG")
      ELSE IF passing = <<>> THEN DenyWith("NO_ALLOWED_CAPABILITIES")
      ELSE Allow(passing, engine.enforce)

--------------------------------------------------------------------------------
(* DeterministicPlanner.plan.                                               *)

AllowedIds(policy) == {o.cap.id : o \in Elements(policy.capabilities)}

KnownPlaces(policy, offers) == {i \in DOMAIN offers : offers[i].cap.id \in AllowedIds(policy)}

\* Mutant: candidates the policy did not allow stand in when none of the allowed is there.
EligibleOrAny(policy, offers) ==
  LET known == OffersAt(offers, KnownPlaces(policy, offers))
  IN  IF known # <<>> THEN known ELSE IF offers # <<>> THEN offers ELSE policy.capabilities

\* The candidates whose id was allowed; the engine's own when there is none.
Eligible(policy, offers) ==
  LET known == OffersAt(offers, KnownPlaces(policy, offers))
  IN  IF known = <<>> THEN policy.capabilities ELSE known

\* (provider_id, capability_id)
OfferBefore(a, b) ==
  \/ a.provider < b.provider
  \/ a.provider = b.provider /\ IdRank[a.cap.id] < IdRank[b.cap.id]

\* Mutant: the eligible candidates are not sorted.
FirstGiven(eligible) == Head(eligible)

FirstSorted(eligible) ==
  eligible[CHOOSE i \in DOMAIN eligible :
             /\ \A j \in DOMAIN eligible : ~OfferBefore(eligible[j], eligible[i])
             /\ \A j \in 1..(i - 1) : OfferBefore(eligible[i], eligible[j])]

BestBinding(intent, cap) ==
  IF intent.mode \in Elements(cap.bindings) THEN intent.mode
  ELSE IF cap.bindings = <<>> THEN None ELSE cap.bindings[1]

PlanOf(intent, policy, chosen) ==
  [ offer |-> chosen, binding |-> BestBinding(intent, chosen.cap),
    approvalRequired |-> policy.approvals # {} ]

\* Mutant: a capability without bindings is planned.
PlanUnbound(intent, policy, offers) ==
  IF ~policy.allowed \/ policy.capabilities = <<>> THEN None
  ELSE PlanOf(intent, policy, FirstSorted(Eligible(policy, offers)))

\* None: the planner raises FailClosedError.
PlanFor(intent, policy, offers) ==
  IF ~policy.allowed \/ policy.capabilities = <<>> THEN None
  ELSE LET chosen == FirstSorted(Eligible(policy, offers))
       IN  IF BestBinding(intent, chosen.cap) = None THEN None
           ELSE PlanOf(intent, policy, chosen)
================================================================================
