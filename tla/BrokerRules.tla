------------------------------- MODULE BrokerRules -------------------------------
(***************************************************************************)
(* The pure decisions of the legacy broker pipeline, one operator per      *)
(* rule: envelope validation, scored registry matching, selection of a     *)
(* capability and a binding, and policy.  Scores are counted in half       *)
(* points, so that the code's 0.5 is 1 and its selection gap of 1.0 is 2.  *)
(***************************************************************************)
EXTENDS SipTypes

--------------------------------------------------------------------------------
(* validate_envelope.  time is the wall clock the check reads.  Binding     *)
(* types and budgets cannot be wrong here: parsing has already refused them. *)

TrustNotEscalated(e) == Reaches(e.actor.trust, e.declaredTrust)

WriteExecuteTrusted(e) ==
  e.opClass \in {"write", "execute"} => Reaches(e.actor.trust, "internal")

\* Mutant: an expiry that is reached just now still counts.
NotPastExpiry(p, time) == p.expiry = None \/ p.expiry >= time

NotExpired(p, time) == p.expiry = None \/ p.expiry > time

ValidProvenance(p, actor, time) ==
  /\ p.depth <= MaxDelegationDepth
  /\ NotExpired(p, time)
  /\ p.submittedBy \in {None, actor.id}
  /\ p.authority # None => p.authority \subseteq actor.scopes

ValidEnvelope(e, time) ==
  /\ e.supportedVersion
  /\ TrustNotEscalated(e)
  /\ e.allowed \cap e.forbidden = {}
  /\ WriteExecuteTrusted(e)
  /\ e.prov # None => ValidProvenance(e.prov, e.actor, time)

--------------------------------------------------------------------------------
(* CapabilityRegistryService.find_matches.  A registry is the sequence of   *)
(* the store's values in dict insertion order; a candidate keeps its place   *)
(* in it, which is what the stable sort breaks ties by.                      *)

Candidate == [cap : CapabilityDescriptor, score : Nat, place : Nat]

\* Mutant: a name counts no more than a domain.
NameScoreLow == [exact |-> 3, partial |-> 2, none |-> 0]

NameScore   == [exact |-> 6, partial |-> 4, none |-> 0]
DomainScore == [exact |-> 4, partial |-> 2, none |-> 0]

PreferredBinding(e) == IF e.bindings = <<>> THEN None ELSE e.bindings[1]

Score(e, cap) ==
  NameScore[cap.nameMatch[e.name]]
  + DomainScore[cap.domainMatch[e.domain]]
  + (IF cap.opClass = e.opClass THEN 4 ELSE 0)
  + (IF PreferredBinding(e) \in Elements(cap.bindings) THEN 3 ELSE 0)
  + (IF cap.id \in e.hints THEN 1 ELSE 0)

HasSignal(e, cap) ==
  cap.nameMatch[e.name] # "none" \/ cap.domainMatch[e.domain] # "none"

Scored(e, registry) ==
  { [cap |-> registry[i], score |-> Score(e, registry[i]), place |-> i] :
      i \in {j \in DOMAIN registry : /\ Reaches(e.actor.trust, registry[j].minTrust)
                                     /\ HasSignal(e, registry[j])} }

\* The order of the sorted list: a strict total order on one registry's candidates.
Before(c, d) == c.score > d.score \/ (c.score = d.score /\ c.place < d.place)

\* The length of a Python slice [:k] of a list of n elements.
SliceLength(n, k) ==
  IF k >= 0 THEN (IF k < n THEN k ELSE n)
            ELSE (IF n + k > 0 THEN n + k ELSE 0)

\* Mutant: the list is cut before it is sorted.
UnsortedMatches(e, registry) ==
  LET scored == Scored(e, registry)
      keep   == SliceLength(Cardinality(scored), e.maxCandidates)
  IN  {c \in scored : Cardinality({d \in scored : d.place < c.place}) < keep}

FindMatches(e, registry) ==
  LET scored == Scored(e, registry)
      keep   == SliceLength(Cardinality(scored), e.maxCandidates)
  IN  {c \in scored : Cardinality({d \in scored : Before(d, c)}) < keep}

--------------------------------------------------------------------------------
(* CapabilityMatcher.match and _select_preferred_binding.                   *)

IsTop(c, ranked) == c \in ranked /\ \A d \in ranked \ {c} : Before(c, d)

\* Mutant: the selection gap is 0.5 instead of 1.0.
NarrowWinner(c, ranked) == \A d \in ranked \ {c} : c.score - d.score >= 1

\* Also the case of a single candidate, which the code selects unconditionally.
ClearWinner(c, ranked) == \A d \in ranked \ {c} : c.score - d.score >= 2

\* b is the first element of the sequence that the capability supports.
FirstSupported(b, offered, cap) ==
  \E i \in DOMAIN offered :
    /\ b = offered[i]
    /\ b \in Elements(cap.bindings)
    /\ \A j \in 1..(i - 1) : offered[j] \notin Elements(cap.bindings)

NoneSupported(offered, cap) == Elements(offered) \cap Elements(cap.bindings) = {}

SelectedBinding(b, e, cap) ==
  \/ FirstSupported(b, e.bindings, cap)
  \/ /\ NoneSupported(e.bindings, cap)
     /\ FirstSupported(b, e.requirementBindings, cap)
  \/ /\ NoneSupported(e.bindings, cap)
     /\ NoneSupported(e.requirementBindings, cap)
     /\ b = (IF cap.bindings = <<>> THEN None ELSE cap.bindings[1])

SelectedBindings(e, cap) == {b \in BindingTypes \cup {None} : SelectedBinding(b, e, cap)}

AllowedBindings(e, cap) ==
  IF e.bindings = <<>> THEN Elements(cap.bindings)
                       ELSE Elements(cap.bindings) \cap Elements(e.bindings)

NegotiationResult ==
  [ ranked   : SUBSET Candidate,
    selected : CapabilityDescriptor \cup {None},
    binding  : BindingTypes \cup {None},
    allowedBindings : SUBSET BindingTypes ]

Clarification(ranked) ==
  [ranked |-> ranked, selected |-> None, binding |-> None, allowedBindings |-> {}]

Selection(ranked, cap, b, e) ==
  [ranked |-> ranked, selected |-> cap, binding |-> b,
   allowedBindings |-> AllowedBindings(e, cap)]

\* What match returns for envelope e over this registry, as a set of one element.
Negotiations(e, registry) ==
  LET ranked == FindMatches(e, registry)
  IN  {r \in {Clarification(ranked)} :
         \/ ranked = {}
         \/ /\ ~e.allowFallback
            /\ \A c \in ranked : IsTop(c, ranked) => ~ClearWinner(c, ranked)}
      \cup
      UNION {{Selection(ranked, c.cap, b, e) : b \in SelectedBindings(e, c.cap)} :
               c \in {t \in ranked : /\ IsTop(t, ranked)
                                     /\ ClearWinner(t, ranked) \/ e.allowFallback}}

--------------------------------------------------------------------------------
(* PolicyEngine.evaluate for the selected capability.                       *)

PolicyDecision == [allowed : BOOLEAN, requiresApproval : BOOLEAN]

ScopesHeld(e, cap) == MissingScopes(cap.scopes, EffectiveScopes(e)) = {}

\* The declared trust level stands in for the originator's.
OriginatorTrusted(e, cap) ==
  e.prov # None /\ e.prov.originator # None => Reaches(e.declaredTrust, cap.minTrust)

\* Mutant: the capability's own approval constraint is left to the planner.
EvaluateRiskOnly(e, cap, enforce) ==
  LET authorised == ScopesHeld(e, cap) /\ OriginatorTrusted(e, cap)
  IN  [ allowed |-> /\ authorised
                    /\ ~IsDeniedByRisk(cap.risk, e.sensitivity)
                    /\ e.chainDepth <= MaxDelegationDepth,
        requiresApproval |-> authorised /\ RequiresApproval(cap.risk, cap.opClass, enforce) ]

Evaluate(e, cap, enforce) ==
  LET authorised == ScopesHeld(e, cap) /\ OriginatorTrusted(e, cap)
      allowed    == /\ authorised
                    /\ ~IsDeniedByRisk(cap.risk, e.sensitivity)
                    /\ e.chainDepth <= MaxDelegationDepth
  IN  [ allowed |-> allowed,
        requiresApproval |->
          \/ authorised /\ RequiresApproval(cap.risk, cap.opClass, enforce)
          \/ allowed /\ cap.humanApproval ]

--------------------------------------------------------------------------------
(* ExecutionPlanner.plan.                                                   *)

ExecutionPlan ==
  [ cap : CapabilityDescriptor, binding : BindingTypes, approvalRequired : BOOLEAN,
    checks : SUBSET {"trust_level", "operation_class_match"} ]

Plannable(negotiation) == negotiation.selected # None /\ negotiation.binding # None

MakePlan(negotiation, decision) ==
  [ cap |-> negotiation.selected,
    binding |-> negotiation.binding,
    approvalRequired |-> decision.requiresApproval \/ negotiation.selected.humanApproval,
    checks |-> {"trust_level", "operation_class_match"} ]

--------------------------------------------------------------------------------
(* How a call of the broker ends.                                           *)

Outcomes ==
  [ validation_failed       |-> "error",
    clarification_requested |-> "needs_clarification",
    policy_denied           |-> "denied",
    plan_rejected           |-> "error",
    approval_requested      |-> "pending_approval",
    plan_created            |-> "success" ]

Actions == DOMAIN Outcomes
GrantingActions == {"plan_created", "approval_requested"}

Statuses == {200, 202, 400, 403}

\* submit_intent's status code; validation_errors is set only by a failed validation.
StatusCode(a) ==
  IF a.outcome = "denied" \/ ~a.policyAllowed
    THEN (IF a.action = "validation_failed" THEN 400 ELSE 403)
    ELSE (IF a.outcome = "pending_approval" THEN 202 ELSE 200)

--------------------------------------------------------------------------------
(* The protocol's rule of authority, end to end.  Properties are stated with  *)
(* it; no stage of the code is built from it.                               *)

Delegated(e) == e.prov # None

\* The authority the actor, and whoever delegated to it, has for a capability.
Permitted(e, cap) ==
  /\ cap.scopes \subseteq e.actor.scopes
  /\ Delegated(e) /\ e.prov.authority # None => cap.scopes \subseteq e.prov.authority
  /\ Delegated(e) /\ e.prov.originator # None => Reaches(e.declaredTrust, cap.minTrust)
  /\ Delegated(e) => e.prov.depth <= MaxDelegationDepth
  /\ Reaches(e.actor.trust, cap.minTrust)
  /\ Reaches(e.actor.trust, e.declaredTrust)
  /\ e.chainDepth <= MaxDelegationDepth
  /\ ~(cap.risk = "critical" /\ e.sensitivity = "restricted")
================================================================================
