---------------------------- MODULE CanonicalPipeline ----------------------------
(***************************************************************************)
(* SIPPipeline.process: the seven stages from an envelope and candidates    *)
(* that the caller found elsewhere to a decision bundle, with the policy   *)
(* engine that was built in or one that the deployment injected.           *)
(*                                                                         *)
(* Callers may share a pipeline between threads.  All it keeps is its audit *)
(* log; the wall clock goes on between the stages.                         *)
(***************************************************************************)
EXTENDS CanonicalRules

CONSTANTS
  Workers,           \* concurrent callers
  Intents,           \* envelopes
  CandidateLists,    \* what callers offer
  Engines,           \* policy engines a pipeline may be built with
  InjectedResults,   \* what an injected engine may answer
  MaxCalls,          \* bound: calls of process
  MaxClock           \* bound: readings of the wall clock

\* An engine is built in or injected; its two switches concern the former.
EngineKinds == [injected : BOOLEAN, enforce : BOOLEAN, provenance : BOOLEAN]

\* named: neither intent_id nor trace_id is the empty string.
Call == [ticket : Nat, envelope : IntentEnvelope, named : BOOLEAN, offers : Seq(Offer)]

Stages == {"idle", "ingested", "normalized", "validated", "allowed", "finished", "logged"}

CanonicalActions == Actions \ {"clarification_requested"}

AuditRecord ==
  [ ticket : Nat, action : CanonicalActions, policyAllowed : BOOLEAN, reason : ReasonCodes,
    outcome : {"denied", "pending_approval", "success"},
    capability : CapIds \cup {None}, binding : BindingTypes \cup {None}, denial : BOOLEAN ]

DecisionBundle ==
  [call : Call, policy : PolicyResult, plan : CanonicalPlan \cup {None}, denied : BOOLEAN]

ASSUME CanonicalAssumption ==
  /\ Intents \subseteq IntentEnvelope
  /\ CandidateLists \subseteq Seq(Offer)
  /\ Engines \subseteq EngineKinds
  /\ InjectedResults \subseteq PolicyResult
  /\ MaxCalls \in Nat /\ MaxClock \in Nat
  /\ None \notin Call /\ None \notin NormalizedIntent /\ None \notin PolicyResult
  /\ None \notin CanonicalPlan /\ None \notin AuditRecord

VARIABLES
  engine,     \* the pipeline's policy engine, fixed when it is built
  clock, calls,
  stage,      \* worker -> where its call is
  call,       \* worker -> its call
  intent,     \* worker -> NormalizedIntent
  policy,     \* worker -> PolicyResult
  plan,       \* worker -> ExecutionPlan
  audit,      \* worker -> AuditRecord of its call
  auditLog,   \* the list of the pipeline
  returned,   \* bundles, in the order in which they were returned
  raised      \* calls that ended in an exception

vars == <<engine, clock, calls, stage, call, intent, policy, plan, audit, auditLog,
          returned, raised>>

TypeOK ==
  /\ engine \in Engines
  /\ clock \in 0..MaxClock
  /\ calls \in 0..MaxCalls
  /\ stage \in [Workers -> Stages]
  /\ call \in [Workers -> Call \cup {None}]
  /\ intent \in [Workers -> NormalizedIntent \cup {None}]
  /\ policy \in [Workers -> PolicyResult \cup {None}]
  /\ plan \in [Workers -> CanonicalPlan \cup {None}]
  /\ audit \in [Workers -> AuditRecord \cup {None}]
  /\ auditLog \in Seq(AuditRecord)
  /\ returned \in Seq(DecisionBundle)
  /\ raised \subseteq 1..calls

Init ==
  /\ engine \in Engines
  /\ clock = 0
  /\ calls = 0
  /\ stage = [w \in Workers |-> "idle"]
  /\ call = [w \in Workers |-> None]
  /\ intent = [w \in Workers |-> None]
  /\ policy = [w \in Workers |-> None]
  /\ plan = [w \in Workers |-> None]
  /\ audit = [w \in Workers |-> None]
  /\ auditLog = <<>>
  /\ returned = <<>>
  /\ raised = {}

--------------------------------------------------------------------------------
Tick ==
  /\ clock < MaxClock
  /\ clock' = clock + 1
  /\ UNCHANGED <<engine, calls, stage, call, intent, policy, plan, audit, auditLog,
                 returned, raised>>

Process(w, e, named, offers) ==
  /\ stage[w] = "idle"
  /\ calls < MaxCalls
  /\ calls' = calls + 1
  /\ stage' = [stage EXCEPT ![w] = "ingested"]
  /\ call' = [call EXCEPT ![w] =
                [ticket |-> calls + 1, envelope |-> e, named |-> named, offers |-> offers]]
  /\ UNCHANGED <<engine, clock, intent, policy, plan, audit, auditLog, returned, raised>>

\* _build_denial_audit, for a call that ends with this policy result.
Refuse(w, action, result) ==
  /\ policy' = [policy EXCEPT ![w] = result]
  /\ audit' = [audit EXCEPT ![w] =
       [ ticket |-> call[w].ticket, action |-> action, policyAllowed |-> FALSE,
         reason |-> result.reason, outcome |-> "denied", capability |-> None,
         binding |-> None, denial |-> TRUE ]]
  /\ stage' = [stage EXCEPT ![w] = "finished"]

\* The models of the envelope leave only empty identifiers for the normalised
\* intent to refuse.
Normalize(w) ==
  /\ stage[w] = "ingested"
  /\ IF call[w].named
       THEN /\ intent' = [intent EXCEPT ![w] = Normalized(call[w].envelope)]
            /\ stage' = [stage EXCEPT ![w] = "normalized"]
            /\ UNCHANGED <<policy, audit>>
       ELSE /\ Refuse(w, "validation_failed", DenyWith("EVALUATION_ERROR"))
            /\ UNCHANGED intent
  /\ UNCHANGED <<engine, clock, calls, call, plan, auditLog, returned, raised>>

Validate(w) ==
  /\ stage[w] = "normalized"
  /\ IF ValidEnvelope(call[w].envelope, clock)
       THEN /\ stage' = [stage EXCEPT ![w] = "validated"]
            /\ UNCHANGED <<policy, audit>>
       ELSE Refuse(w, "validation_failed", DenyWith("EVALUATION_ERROR"))
  /\ UNCHANGED <<engine, clock, calls, call, intent, plan, auditLog, returned, raised>>

Judge(w) ==
  /\ stage[w] = "validated"
  /\ \E result \in (IF engine.injected THEN InjectedResults
                    ELSE {EvaluateAll(intent[w], call[w].offers, engine)}) :
       IF result.allowed
         THEN /\ policy' = [policy EXCEPT ![w] = result]
              /\ stage' = [stage EXCEPT ![w] = "allowed"]
              /\ UNCHANGED audit
         ELSE Refuse(w, "policy_denied", result)
  /\ UNCHANGED <<engine, clock, calls, call, intent, plan, auditLog, returned, raised>>

\* Stages 5 and 6.  When the planner raises, its reason becomes the policy result.
Plan(w) ==
  /\ stage[w] = "allowed"
  /\ \E made \in {PlanFor(intent[w], policy[w], call[w].offers)} :
       IF made = None
         THEN /\ Refuse(w, "plan_rejected", DenyWith("NO_ALLOWED_CAPABILITIES"))
              /\ UNCHANGED plan
         ELSE /\ plan' = [plan EXCEPT ![w] = made]
              /\ audit' = [audit EXCEPT ![w] =
                   [ ticket |-> call[w].ticket,
                     action |-> IF made.approvalRequired THEN "approval_requested"
                                                         ELSE "plan_created",
                     policyAllowed |-> TRUE, reason |-> policy[w].reason,
                     outcome |-> IF made.approvalRequired THEN "pending_approval"
                                                          ELSE "success",
                     capability |-> made.offer.cap.id, binding |-> made.binding,
                     denial |-> FALSE ]]
              /\ stage' = [stage EXCEPT ![w] = "finished"]
              /\ UNCHANGED policy
  /\ UNCHANGED <<engine, clock, calls, call, intent, auditLog, returned, raised>>

\* Mutant: a plan that could not be made leaves no record.
AppendDecided(w) ==
  /\ stage[w] = "finished"
  /\ auditLog' = IF audit[w].action = "plan_rejected" THEN auditLog
                                                      ELSE Append(auditLog, audit[w])
  /\ stage' = [stage EXCEPT ![w] = "logged"]
  /\ UNCHANGED <<engine, clock, calls, call, intent, policy, plan, audit, returned, raised>>

AppendAudit(w) ==
  /\ stage[w] = "finished"
  /\ auditLog' = Append(auditLog, audit[w])
  /\ stage' = [stage EXCEPT ![w] = "logged"]
  /\ UNCHANGED <<engine, clock, calls, call, intent, policy, plan, audit, returned, raised>>

\* _stub_normalized copies the empty identifier that normalisation refused, and is
\* refused like it: the exception leaves process.
Return(w) ==
  /\ stage[w] = "logged"
  /\ IF call[w].named
       THEN /\ returned' = Append(returned,
                 [call |-> call[w], policy |-> policy[w], plan |-> plan[w],
                  denied |-> audit[w].denial])
            /\ UNCHANGED raised
       ELSE /\ raised' = raised \cup {call[w].ticket}
            /\ UNCHANGED returned
  /\ stage' = [stage EXCEPT ![w] = "idle"]
  /\ call' = [call EXCEPT ![w] = None]
  /\ intent' = [intent EXCEPT ![w] = None]
  /\ policy' = [policy EXCEPT ![w] = None]
  /\ plan' = [plan EXCEPT ![w] = None]
  /\ audit' = [audit EXCEPT ![w] = None]
  /\ UNCHANGED <<engine, clock, calls, auditLog>>

Next ==
  \/ Tick
  \/ \E w \in Workers, e \in Intents, named \in BOOLEAN, offers \in CandidateLists :
       Process(w, e, named, offers)
  \/ \E w \in Workers :
       \/ Normalize(w) \/ Validate(w) \/ Judge(w) \/ Plan(w)
       \/ AppendAudit(w) \/ Return(w)

Spec == Init /\ [][Next]_vars

--------------------------------------------------------------------------------
Bundles == Elements(returned)

\* No two candidates share an id.
Distinct(offers) ==
  \A i, j \in DOMAIN offers : offers[i].cap.id = offers[j].cap.id => i = j

Alone(e) == [e EXCEPT !.prov = None]

\* Whatever engine was injected, a plan exists only with its consent: it allowed the
\* intent and a capability of that id, the plan waits for approval exactly when the
\* engine named one, and a bundle without a plan is a denial.
FailsClosed ==
  \A b \in Bundles :
    /\ b.denied <=> b.plan = None
    /\ b.plan # None =>
         /\ b.policy.allowed
         /\ b.plan.offer.cap.id \in AllowedIds(b.policy)
         /\ b.plan.binding \in Elements(b.plan.offer.cap.bindings)
         /\ b.plan.approvalRequired <=> b.policy.approvals # {}

\* The canonical pipeline is nowhere laxer than the broker's: what it plans, the
\* broker's engine would allow the actor acting for itself, and what the broker would
\* have approved by a human, it has approved too.  (The canonical engine does not see
\* the chain of the trust block and decides by id, hence the two conditions.)
NoLaxerThanBroker ==
  ~engine.injected =>
    \A b \in Bundles :
      LET e       == Alone(b.call.envelope)
          cap     == b.plan.offer.cap
          verdict == Evaluate(e, cap, engine.enforce)
      IN  b.plan # None /\ Distinct(b.call.offers) /\ e.chainDepth <= MaxDelegationDepth =>
            /\ Reaches(e.actor.trust, cap.minTrust)
            /\ verdict.allowed
            /\ verdict.requiresApproval => b.plan.approvalRequired

\* A bundle comes with exactly one audit record, and both tell the same.
AuditTellsBundle ==
  \A b \in Bundles :
    \E i \in DOMAIN auditLog :
      LET record == auditLog[i]
      IN  /\ {j \in DOMAIN auditLog : auditLog[j].ticket = b.call.ticket} = {i}
          /\ record.denial <=> b.plan = None
          /\ record.reason = b.policy.reason
          /\ record.policyAllowed <=> b.policy.allowed
          /\ b.plan # None =>
               /\ record.capability = b.plan.offer.cap.id
               /\ record.binding = b.plan.binding
               /\ record.outcome = "pending_approval" <=> b.plan.approvalRequired

\* What the built-in engine and the planner make of these candidates.
Planned(e, offers) ==
  PlanFor(Normalized(e), EvaluateAll(Normalized(e), offers, engine), offers)

\* The same set of candidates always produces the same plan, in whatever order an
\* external discovery lists them.
OrderDoesNotMatter ==
  ~engine.injected =>
    \A b \in Bundles : b.plan # None /\ Distinct(b.call.offers) =>
      \A shuffle \in Bijection(DOMAIN b.call.offers, DOMAIN b.call.offers) :
        Planned(b.call.envelope,
                [i \in DOMAIN b.call.offers |-> b.call.offers[shuffle[i]]]) = b.plan

\* A candidate that is not taken cannot get a plan out of its approval: without it
\* the same capability is planned with the same binding, and approval is required at
\* most as often.
LosersOnlyTighten ==
  ~engine.injected =>
    \A b \in Bundles : b.plan # None /\ Distinct(b.call.offers) =>
      \A i \in DOMAIN b.call.offers : b.call.offers[i] # b.plan.offer =>
        LET again == Planned(b.call.envelope, RemoveAt(b.call.offers, i))
        IN  /\ again # None
            /\ again.offer = b.plan.offer /\ again.binding = b.plan.binding
            /\ again.approvalRequired => b.plan.approvalRequired

--------------------------------------------------------------------------------
(* Statements of the documentation the code does not keep.                  *)

\* docs/architecture.md 9.4: the planner only considers the allowed capabilities.  It
\* looks at their ids, which the candidates of two providers may share.
OnlyAllowedArePlanned ==
  \A b \in Bundles : b.plan # None => b.plan.offer \in Elements(b.policy.capabilities)

\* pipeline.py, _stub_normalized: a bundle can be returned when normalisation fails.
EveryCallReturns == raised = {}
================================================================================
