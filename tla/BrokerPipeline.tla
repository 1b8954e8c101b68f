----------------------------- MODULE BrokerPipeline -----------------------------
(***************************************************************************)
(* One SIP broker: BrokerService.handle and process_intent, as POST        *)
(* /sip/intents and embedding programs call them, over a capability        *)
(* registry that providers change while intents are being processed.       *)
(*                                                                         *)
(* A worker is a thread that calls the broker.  The service holds no lock, *)
(* so the stages of different threads, changes of the registry and the     *)
(* wall clock interleave between any two stages.  The HTTP handler runs    *)
(* handle without awaiting: one event loop is the case of one worker.      *)
(* find_matches copies the registry's values in one step; every later      *)
(* stage works on that copy.                                               *)
(*                                                                         *)
(* arrival is auxiliary: it numbers the calls of handle and notes when and *)
(* with which gateway headers each came in.  No guard of a code action     *)
(* reads it, except the bound on the number of calls.                      *)
(***************************************************************************)
EXTENDS BrokerRules, OrderedDict

CONSTANTS
  Workers,             \* concurrent callers
  Descriptors,         \* descriptors that providers register
  Bodies,              \* envelopes as parsed from a request body
  Headers,             \* identity headers a gateway adds
  TrustedHeaders,      \* SIP_TRUSTED_IDENTITY_HEADERS
  EnforceApproval,     \* SIP_REQUIRE_APPROVAL_HIGH_RISK
  InitialRegistries,   \* registry contents after bootstrap
  MaxArrivals,         \* bound: calls of handle
  MaxRegistryChanges,  \* bound: calls of register and unregister
  MaxClock             \* bound: readings of the wall clock

\* An absent, blank or invalid header is None, except that a blank X-Scopes is {}.
IdentityHeaders ==
  [ id     : Actors \cup {None},
    trust  : TrustLevels \cup {None},
    scopes : {None} \cup SUBSET Scopes ]

\* Every descriptor a registry holds came from a provider.
Registries == Seq(Descriptors)

Stages == {"idle", "received", "validated", "matched", "allowed", "finished", "logged"}

Arrival == [ticket : Nat, time : Nat, headers : Headers]

AuditRecord ==
  [ ticket        : Nat,
    actor         : Actors,
    capability    : CapIds \cup {None},
    binding       : BindingTypes \cup {None},
    action        : Actions,
    outcome       : {Outcomes[a] : a \in Actions},
    policyAllowed : BOOLEAN,
    approvalState : {"not_required", "pending"},
    originator    : Parties,
    submitter     : Parties,
    depth         : Nat ]

Answer ==
  [ arrival : Arrival, envelope : IntentEnvelope, status : Statuses,
    plan : ExecutionPlan \cup {None} ]

ASSUME BrokerAssumption ==
  /\ Descriptors \subseteq CapabilityDescriptor
  /\ Bodies \subseteq IntentEnvelope
  /\ Headers \subseteq IdentityHeaders
  /\ InitialRegistries \subseteq Registries
  /\ TrustedHeaders \in BOOLEAN /\ EnforceApproval \in BOOLEAN
  /\ MaxArrivals \in Nat /\ MaxRegistryChanges \in Nat /\ MaxClock \in Nat
  /\ None \notin CapabilityDescriptor /\ None \notin IntentEnvelope
  /\ None \notin NegotiationResult /\ None \notin PolicyDecision
  /\ None \notin ExecutionPlan /\ None \notin Arrival /\ None \notin AuditRecord

VARIABLES
  registry,         \* values of the store's dict, in insertion order
  registryChanges,  \* calls of register and unregister so far
  clock,            \* wall clock
  arrivals,         \* calls of handle so far
  stage,            \* worker -> where its call is
  arrival,          \* worker -> ticket, time and headers of its call
  envelope,         \* worker -> envelope after identity mapping
  negotiation,      \* worker -> NegotiationResult
  decision,         \* worker -> PolicyDecisionSummary
  plan,             \* worker -> ExecutionPlan
  audit,            \* worker -> AuditRecord of its call
  auditLog,         \* BrokerService.audit_log
  answers           \* responses sent, in order

environment == <<registry, registryChanges, clock>>
vars == <<environment, arrivals, stage, arrival, envelope, negotiation, decision,
          plan, audit, auditLog, answers>>

TypeOK ==
  /\ registry \in Registries
  /\ registryChanges \in 0..MaxRegistryChanges
  /\ clock \in 0..MaxClock
  /\ arrivals \in 0..MaxArrivals
  /\ stage \in [Workers -> Stages]
  /\ arrival \in [Workers -> Arrival \cup {None}]
  /\ envelope \in [Workers -> IntentEnvelope \cup {None}]
  /\ negotiation \in [Workers -> NegotiationResult \cup {None}]
  /\ decision \in [Workers -> PolicyDecision \cup {None}]
  /\ plan \in [Workers -> ExecutionPlan \cup {None}]
  /\ audit \in [Workers -> AuditRecord \cup {None}]
  /\ auditLog \in Seq(AuditRecord)
  /\ answers \in Seq(Answer)

Init ==
  /\ registry \in InitialRegistries
  /\ registryChanges = 0
  /\ clock = 0
  /\ arrivals = 0
  /\ stage = [w \in Workers |-> "idle"]
  /\ arrival = [w \in Workers |-> None]
  /\ envelope = [w \in Workers |-> None]
  /\ negotiation = [w \in Workers |-> None]
  /\ decision = [w \in Workers |-> None]
  /\ plan = [w \in Workers |-> None]
  /\ audit = [w \in Workers |-> None]
  /\ auditLog = <<>>
  /\ answers = <<>>

--------------------------------------------------------------------------------
(* Operators and providers: the registry and the clock.                     *)

Register(cap) ==
  /\ registryChanges < MaxRegistryChanges
  /\ registryChanges' = registryChanges + 1
  /\ registry' = Put(registry, cap)
  /\ UNCHANGED <<clock, arrivals, stage, arrival, envelope, negotiation, decision,
                 plan, audit, auditLog, answers>>

Unregister(i) ==
  /\ registryChanges < MaxRegistryChanges
  /\ registryChanges' = registryChanges + 1
  /\ registry' = RemoveAt(registry, i)
  /\ UNCHANGED <<clock, arrivals, stage, arrival, envelope, negotiation, decision,
                 plan, audit, auditLog, answers>>

Tick ==
  /\ clock < MaxClock
  /\ clock' = clock + 1
  /\ UNCHANGED <<registry, registryChanges, arrivals, stage, arrival, envelope,
                 negotiation, decision, plan, audit, auditLog, answers>>

--------------------------------------------------------------------------------
(* One call of the broker.                                                  *)

\* Mutant: the trust header is not mapped.
MapIdAndScopes(actor, h) ==
  IF ~TrustedHeaders THEN actor
  ELSE [ actor EXCEPT !.id     = IF h.id # None THEN h.id ELSE actor.id,
                      !.scopes = IF h.scopes \notin {None, {}} THEN h.scopes ELSE actor.scopes ]

\* map_identity_headers: a present header overrides the field of the body.
MapIdentity(actor, h) ==
  IF ~TrustedHeaders THEN actor
  ELSE [ id     |-> IF h.id # None THEN h.id ELSE actor.id,
         trust  |-> IF h.trust # None THEN h.trust ELSE actor.trust,
         scopes |-> IF h.scopes \notin {None, {}} THEN h.scopes ELSE actor.scopes ]

Identified(body, h) == [body EXCEPT !.actor = MapIdentity(body.actor, h)]

Receive(w, body, h) ==
  /\ stage[w] = "idle"
  /\ arrivals < MaxArrivals
  /\ arrivals' = arrivals + 1
  /\ stage' = [stage EXCEPT ![w] = "received"]
  /\ arrival' = [arrival EXCEPT ![w] =
                   [ticket |-> arrivals + 1, time |-> clock, headers |-> h]]
  /\ envelope' = [envelope EXCEPT ![w] = Identified(body, h)]
  /\ UNCHANGED <<environment, negotiation, decision, plan, audit, auditLog, answers>>

\* Mutant: the action is recorded in place of its outcome.
MakeAuditOfAction(w, action, cap, binding) ==
  LET e == envelope[w]
  IN  [ ticket        |-> arrival[w].ticket,
        actor         |-> e.actor.id,
        capability    |-> cap,
        binding       |-> binding,
        action        |-> action,
        outcome       |-> action,
        policyAllowed |-> action \notin {"validation_failed", "policy_denied"},
        approvalState |-> IF action = "approval_requested" THEN "pending" ELSE "not_required",
        originator    |-> IF e.prov = None THEN None ELSE e.prov.originator,
        submitter     |-> IF e.prov = None THEN None ELSE e.prov.submittedBy,
        depth         |-> IF e.prov = None THEN 0 ELSE e.prov.depth ]

\* create_audit_record, with the provenance fields process_intent copies.
MakeAudit(w, action, cap, binding) ==
  LET e == envelope[w]
  IN  [ ticket        |-> arrival[w].ticket,
        actor         |-> e.actor.id,
        capability    |-> cap,
        binding       |-> binding,
        action        |-> action,
        outcome       |-> Outcomes[action],
        policyAllowed |-> action \notin {"validation_failed", "policy_denied"},
        approvalState |-> IF action = "approval_requested" THEN "pending" ELSE "not_required",
        originator    |-> IF e.prov = None THEN None ELSE e.prov.originator,
        submitter     |-> IF e.prov = None THEN None ELSE e.prov.submittedBy,
        depth         |-> IF e.prov = None THEN 0 ELSE e.prov.depth ]

\* process_intent returns with this record; handle has not appended it yet.
Finish(w, action, cap, binding) ==
  /\ audit' = [audit EXCEPT ![w] = MakeAudit(w, action, cap, binding)]
  /\ stage' = [stage EXCEPT ![w] = "finished"]

Validate(w) ==
  /\ stage[w] = "received"
  /\ IF ValidEnvelope(envelope[w], clock)
       THEN /\ stage' = [stage EXCEPT ![w] = "validated"]
            /\ UNCHANGED audit
       ELSE Finish(w, "validation_failed", None, None)
  /\ UNCHANGED <<environment, arrivals, arrival, envelope, negotiation, decision,
                 plan, auditLog, answers>>

Match(w) ==
  /\ stage[w] = "validated"
  /\ \E result \in Negotiations(envelope[w], registry) :
       /\ negotiation' = [negotiation EXCEPT ![w] = result]
       /\ IF result.selected = None
            THEN Finish(w, "clarification_requested", None, None)
            ELSE /\ stage' = [stage EXCEPT ![w] = "matched"]
                 /\ UNCHANGED audit
  /\ UNCHANGED <<environment, arrivals, arrival, envelope, decision, plan,
                 auditLog, answers>>

\* Mutant: a denial is not finished with an audit record.
JudgeAllowed(w) ==
  LET verdict == Evaluate(envelope[w], negotiation[w].selected, EnforceApproval)
  IN  /\ stage[w] = "matched"
      /\ verdict.allowed
      /\ decision' = [decision EXCEPT ![w] = verdict]
      /\ stage' = [stage EXCEPT ![w] = "allowed"]
      /\ UNCHANGED <<environment, arrivals, arrival, envelope, negotiation, plan, audit,
                     auditLog, answers>>

Judge(w) ==
  LET selected == negotiation[w].selected
      verdict  == Evaluate(envelope[w], selected, EnforceApproval)
  IN  /\ stage[w] = "matched"
      /\ decision' = [decision EXCEPT ![w] = verdict]
      /\ IF verdict.allowed
           THEN /\ stage' = [stage EXCEPT ![w] = "allowed"]
                /\ UNCHANGED audit
           ELSE Finish(w, "policy_denied", selected.id, negotiation[w].binding)
      /\ UNCHANGED <<environment, arrivals, arrival, envelope, negotiation, plan,
                     auditLog, answers>>

\* Mutant: a plan that waits for approval is recorded as one that does not.
PlanWithoutApproval(w) ==
  /\ stage[w] = "allowed"
  /\ IF Plannable(negotiation[w])
       THEN /\ plan' = [plan EXCEPT ![w] = MakePlan(negotiation[w], decision[w])]
            /\ Finish(w, "plan_created", negotiation[w].selected.id, negotiation[w].binding)
       ELSE /\ Finish(w, "plan_rejected", None, None)
            /\ UNCHANGED plan
  /\ UNCHANGED <<environment, arrivals, arrival, envelope, negotiation, decision,
                 auditLog, answers>>

\* The audit record says what the policy engine decided, the plan what the planner did.
Plan(w) ==
  /\ stage[w] = "allowed"
  /\ IF Plannable(negotiation[w])
       THEN /\ plan' = [plan EXCEPT ![w] = MakePlan(negotiation[w], decision[w])]
            /\ Finish(w, IF decision[w].requiresApproval THEN "approval_requested"
                                                         ELSE "plan_created",
                      negotiation[w].selected.id, negotiation[w].binding)
       ELSE /\ Finish(w, "plan_rejected", None, None)
            /\ UNCHANGED plan
  /\ UNCHANGED <<environment, arrivals, arrival, envelope, negotiation, decision,
                 auditLog, answers>>

\* Mutant: only decisions that grant something are logged.
AppendGrants(w) ==
  /\ stage[w] = "finished"
  /\ auditLog' = IF plan[w] # None THEN Append(auditLog, audit[w]) ELSE auditLog
  /\ stage' = [stage EXCEPT ![w] = "logged"]
  /\ UNCHANGED <<environment, arrivals, arrival, envelope, negotiation, decision,
                 plan, audit, answers>>

AppendAudit(w) ==
  /\ stage[w] = "finished"
  /\ auditLog' = Append(auditLog, audit[w])
  /\ stage' = [stage EXCEPT ![w] = "logged"]
  /\ UNCHANGED <<environment, arrivals, arrival, envelope, negotiation, decision,
                 plan, audit, answers>>

Respond(w) ==
  /\ stage[w] = "logged"
  /\ answers' = Append(answers, [arrival |-> arrival[w], envelope |-> envelope[w],
                                 status |-> StatusCode(audit[w]), plan |-> plan[w]])
  /\ stage' = [stage EXCEPT ![w] = "idle"]
  /\ arrival' = [arrival EXCEPT ![w] = None]
  /\ envelope' = [envelope EXCEPT ![w] = None]
  /\ negotiation' = [negotiation EXCEPT ![w] = None]
  /\ decision' = [decision EXCEPT ![w] = None]
  /\ plan' = [plan EXCEPT ![w] = None]
  /\ audit' = [audit EXCEPT ![w] = None]
  /\ UNCHANGED <<environment, arrivals, auditLog>>

Step(w) ==
  Validate(w) \/ Match(w) \/ Judge(w) \/ Plan(w) \/ AppendAudit(w) \/ Respond(w)

Next ==
  \/ \E cap \in Descriptors : Register(cap)
  \/ \E i \in DOMAIN registry : Unregister(i)
  \/ Tick
  \/ \E w \in Workers, body \in Bodies, h \in Headers : Receive(w, body, h)
  \/ \E w \in Workers : Step(w)

\* A caller that is inside the broker keeps running; nobody has to submit an
\* intent, change the registry or read the clock.
Fairness == \A w \in Workers : WF_vars(Step(w))

Spec == Init /\ [][Next]_vars /\ Fairness

--------------------------------------------------------------------------------
(* What the pipeline guarantees.  The definitions below restate the          *)
(* protocol's rules on the answer that leaves the broker, end to end; they   *)
(* do not use the operators the stages are built from.                      *)

AnswerSet == Elements(answers)

NeedsApproval(cap) ==
  RequiresApproval(cap.risk, cap.opClass, EnforceApproval) \/ cap.humanApproval

\* No answer carries a plan for a capability its actor has no authority to
\* use: neither by its own scopes and trust, nor, when the intent is
\* delegated, by the scopes and trust of the delegation (validator, registry
\* and policy engine each check a part of this at a different stage).
PlanAuthorized ==
  \A a \in AnswerSet : a.plan # None => Permitted(a.envelope, a.plan.cap)

\* A delegation that had already expired when the intent came in never leads
\* to a plan.
ExpiredOnArrivalRefused ==
  \A a \in AnswerSet :
    a.plan # None /\ Delegated(a.envelope) /\ a.envelope.prov.expiry # None
      => a.arrival.time < a.envelope.prov.expiry

\* Approval is never skipped and never claimed by one part only: a plan for a
\* capability that needs a human is answered with 202 and flagged, every other
\* plan with 200 and unflagged.  The flag comes from the planner, the status
\* from the audit record's outcome, which comes from the policy engine.
ApprovalGate ==
  \A a \in AnswerSet : a.plan # None =>
    IF NeedsApproval(a.plan.cap)
      THEN a.status = 202 /\ a.plan.approvalRequired
      ELSE a.status = 200 /\ ~a.plan.approvalRequired

Records(ticket) == {i \in DOMAIN auditLog : auditLog[i].ticket = ticket}

\* What an audit record says about the answer to the same call.
Tells(r, a) ==
  /\ r.action \in GrantingActions <=> a.plan # None
  /\ a.plan # None => r.capability = a.plan.cap.id /\ r.binding = a.plan.binding
  /\ r.approvalState = "pending" <=> a.status = 202
  /\ a.status = 403 <=> r.action = "policy_denied"
  /\ a.status = 400 <=> r.action = "validation_failed"

\* Every answer was audited before it was sent, exactly once, by a record that
\* says the same about plan, approval and refusal as the response does.
AuditedBeforeAnswered ==
  \A a \in AnswerSet :
    \E i \in DOMAIN auditLog :
      /\ Records(a.arrival.ticket) = {i}
      /\ Tells(auditLog[i], a)

\* What the gateway asserted about the caller is what it was authorised by,
\* whatever the request body claims about itself.
GatewayClaimsBind ==
  TrustedHeaders =>
    \A a \in AnswerSet : a.plan # None =>
      LET h == a.arrival.headers
      IN  /\ h.trust # None => Reaches(h.trust, a.plan.cap.minTrust)
          /\ h.scopes \notin {None, {}} => a.plan.cap.scopes \subseteq h.scopes
          /\ h.id # None =>
               \A i \in Records(a.arrival.ticket) : auditLog[i].actor = h.id

\* A capability that was not selected does not matter: had it been unregistered
\* before the match, the same capability would have been selected.  (A negative
\* max_candidates makes the Python slice count from the other end, and the
\* winner may then depend on how many losers there are.)  Stated before the first call:
\* the registries of all states are reached by then.
LosersDoNotMatter == arrivals = 0 =>
  \A e \in Bodies, i \in DOMAIN registry : e.maxCandidates >= 0 =>
    \A found \in Negotiations(e, registry) :
      found.selected \notin {None, registry[i]} =>
        {again.selected : again \in Negotiations(e, RemoveAt(registry, i))} = {found.selected}

\* The registry after the ith capability has been unregistered and registered again.
Renewed(i) == Append(RemoveAt(registry, i), registry[i])

\* With fallback disabled the broker does not guess.  What it selects is a full point
\* ahead of every other capability of the registry that has a signal for the intent, the
\* ones cut off the list included, and is still selected when any capability has been
\* registered anew, at the end of the dict.  (On a list cut to one there is no second to compare with.)
NoGuessing == arrivals = 0 =>
  \A body \in Bodies, h \in Headers :
    LET e == Identified(body, h)
    IN  ~e.allowFallback /\ e.maxCandidates >= 2 =>
          \A found \in Negotiations(e, registry) : found.selected # None =>
            /\ \A c \in Scored(e, registry) :
                 c.cap # found.selected => Score(e, found.selected) >= c.score + 2
            /\ \A i \in DOMAIN registry :
                 {again.selected : again \in Negotiations(e, Renewed(i))} = {found.selected}

\* Every call of the broker is answered, however often the registry changes
\* under it.
EveryCallAnswered ==
  \A t \in 1..MaxArrivals :
    (arrivals >= t) ~> (\E a \in AnswerSet : a.arrival.ticket = t)

--------------------------------------------------------------------------------
(* The pipeline implements the gate: the decision is taken when the audit    *)
(* record is appended, and handed back when the response is sent.            *)

GateTicket(w)  == IF stage[w] = "idle" THEN None ELSE arrival[w].ticket

GatePending ==
  [w \in Workers |->
     [ticket  |-> GateTicket(w),
      request |-> envelope[w],
      decided |-> stage[w] = "logged"]]

GateRecord ==
  [i \in DOMAIN auditLog |->
     [ticket   |-> auditLog[i].ticket,
      grants   |-> IF auditLog[i].action \in GrantingActions
                     THEN auditLog[i].capability ELSE None,
      approval |-> auditLog[i].approvalState = "pending"]]

GateHanded ==
  [i \in DOMAIN answers |->
     [ticket   |-> answers[i].arrival.ticket,
      grants   |-> IF answers[i].plan # None THEN answers[i].plan.cap.id ELSE None,
      approval |-> answers[i].plan # None /\ answers[i].plan.approvalRequired]]

CapIdOf(cap) == cap.id

Gate == INSTANCE IntentGate WITH
  Tickets   <- 1..MaxArrivals,
  Requests  <- {Identified(body, h) : body \in Bodies, h \in Headers},
  Grantable <- Descriptors,
  NameOf    <- CapIdOf,
  pending   <- GatePending,
  record    <- GateRecord,
  handed    <- GateHanded

\* Every behaviour of the pipeline is one of the gate: each intent is decided
\* once, only as authority permits, with the approval it needs, recorded, and
\* then handed back exactly as recorded.
GateSpec == Gate!Spec
================================================================================
