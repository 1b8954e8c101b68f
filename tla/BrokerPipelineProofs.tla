-------------------------- MODULE BrokerPipelineProofs --------------------------
(***************************************************************************)
(* The broker keeps its types, and makes no plan without authority, past    *)
(* its approval gate, or from a delegation that had expired; what it selects *)
(* does not depend on a capability it does not select; and without fallback  *)
(* it does not guess.  Proved for every set of workers, envelopes, headers   *)
(* and descriptors and every bound.                                         *)
(***************************************************************************)
EXTENDS BrokerPipeline, BrokerRulesProofs

\* An envelope with identity headers applied is still an envelope.
LEMMA IdentifiedType ==
  ASSUME NEW body \in Bodies, NEW h \in Headers
  PROVE  Identified(body, h) \in IntentEnvelope
<1>1. body \in IntentEnvelope /\ h \in IdentityHeaders
  BY BrokerAssumption
<1>2. MapIdentity(body.actor, h) \in ActorDescriptor
  BY <1>1 DEF MapIdentity, IdentityHeaders, IntentEnvelope, ActorDescriptor
<1>3. QED
  BY <1>1, <1>2 DEF Identified, IntentEnvelope

--------------------------------------------------------------------------------
(* Type correctness.  What a worker holds depends on where its call is, so   *)
(* the type invariant needs StageCoherent to be inductive.                  *)

StageCoherent ==
  \A w \in Workers :
    /\ stage[w] # "idle" => arrival[w] # None /\ envelope[w] # None
    /\ stage[w] \in {"matched", "allowed"} =>
         negotiation[w] # None /\ negotiation[w].selected # None
    /\ stage[w] = "allowed" => decision[w] # None
    /\ stage[w] \in {"finished", "logged"} => audit[w] # None
    /\ stage[w] \notin {"finished", "logged"} => plan[w] = None

LEMMA AuditType ==
  ASSUME TypeOK, StageCoherent, NEW w \in Workers, stage[w] # "idle",
         NEW action \in Actions, NEW cap \in CapIds \cup {None},
         NEW binding \in BindingTypes \cup {None}
  PROVE  MakeAudit(w, action, cap, binding) \in AuditRecord
<1>1. arrival[w] \in Arrival /\ envelope[w] \in IntentEnvelope
  BY DEF TypeOK, StageCoherent
<1>2. arrival[w].ticket \in Nat /\ envelope[w].actor.id \in Actors
  BY <1>1 DEF Arrival, IntentEnvelope, ActorDescriptor
<1>3. envelope[w].prov # None => envelope[w].prov \in ProvenanceBlock
  BY <1>1 DEF IntentEnvelope
<1>4. envelope[w].prov # None =>
        /\ envelope[w].prov.originator \in Parties
        /\ envelope[w].prov.submittedBy \in Parties
        /\ envelope[w].prov.depth \in Nat
  BY <1>3 DEF ProvenanceBlock
<1>5. QED
  BY <1>2, <1>4 DEF MakeAudit, AuditRecord, Parties

LEMMA InitType == Init => TypeOK /\ StageCoherent
BY BrokerAssumption DEF Init, TypeOK, StageCoherent, Registries, Stages

LEMMA NextType == TypeOK /\ StageCoherent /\ [Next]_vars => TypeOK' /\ StageCoherent'
<1> SUFFICES ASSUME TypeOK, StageCoherent, [Next]_vars
             PROVE  TypeOK' /\ StageCoherent'
  OBVIOUS
<1>1. ASSUME NEW cap \in Descriptors, Register(cap)
      PROVE  TypeOK' /\ StageCoherent'
  BY <1>1, PutType, BrokerAssumption DEF Register, Registries, TypeOK, StageCoherent
<1>2. ASSUME NEW i \in DOMAIN registry, Unregister(i)
      PROVE  TypeOK' /\ StageCoherent'
  BY <1>2, RemoveType, BrokerAssumption DEF Unregister, Registries, TypeOK, StageCoherent
<1>3. CASE Tick
  BY <1>3, BrokerAssumption DEF Tick, TypeOK, StageCoherent
<1>4. ASSUME NEW w \in Workers, NEW body \in Bodies, NEW h \in Headers, Receive(w, body, h)
      PROVE  TypeOK' /\ StageCoherent'
  <2>1. [ticket |-> arrivals + 1, time |-> clock, headers |-> h] \in Arrival
    BY BrokerAssumption DEF TypeOK, Arrival
  <2>2. Identified(body, h) \in IntentEnvelope
    BY IdentifiedType
  <2>3. arrivals' \in 0..MaxArrivals
    BY <1>4, BrokerAssumption DEF Receive, TypeOK
  <2>4. TypeOK'
    BY <1>4, <2>1, <2>2, <2>3 DEF Receive, TypeOK, environment, Stages
  <2>5. StageCoherent'
    BY <1>4, <2>1, <2>2, BrokerAssumption DEF Receive, TypeOK, StageCoherent, environment
  <2>6. QED
    BY <2>4, <2>5
<1>5. ASSUME NEW w \in Workers, Validate(w)
      PROVE  TypeOK' /\ StageCoherent'
  <2>1. MakeAudit(w, "validation_failed", None, None) \in AuditRecord
    BY <1>5, AuditType DEF Validate, Actions, Outcomes
  <2>2. QED
    BY <1>5, <2>1, BrokerAssumption
    DEF Validate, Finish, TypeOK, StageCoherent, environment, Stages
<1>6. ASSUME NEW w \in Workers, Match(w)
      PROVE  TypeOK' /\ StageCoherent'
  <2>1. MakeAudit(w, "clarification_requested", None, None) \in AuditRecord
    BY <1>6, AuditType DEF Match, Actions, Outcomes
  <2>2. envelope[w] \in IntentEnvelope /\ registry \in Seq(CapabilityDescriptor)
    BY <1>6, BrokerAssumption DEF Match, TypeOK, StageCoherent, Registries
  <2>3. PICK result \in Negotiations(envelope[w], registry) :
          /\ negotiation' = [negotiation EXCEPT ![w] = result]
          /\ IF result.selected = None
               THEN Finish(w, "clarification_requested", None, None)
               ELSE /\ stage' = [stage EXCEPT ![w] = "matched"]
                    /\ UNCHANGED audit
    BY <1>6 DEF Match
  <2>4. result \in NegotiationResult
    BY <2>2, NegotiationSound
  <2>5. result # None
    BY <2>4, BrokerAssumption
  <2>6. CASE result.selected = None
    <3>1. TypeOK'
      BY <1>6, <2>1, <2>3, <2>4, <2>6 DEF Match, Finish, TypeOK, environment, Stages
    <3>2. StageCoherent'
      BY <1>6, <2>1, <2>3, <2>6, BrokerAssumption
      DEF Match, Finish, TypeOK, StageCoherent, environment
    <3>3. QED
      BY <3>1, <3>2
  <2>7. CASE result.selected # None
    <3>1. TypeOK'
      BY <1>6, <2>3, <2>4, <2>7 DEF Match, TypeOK, environment, Stages
    <3>2. StageCoherent'
      BY <1>6, <2>3, <2>5, <2>7 DEF Match, TypeOK, StageCoherent, environment
    <3>3. QED
      BY <3>1, <3>2
  <2>8. QED
    BY <2>6, <2>7
<1>7. ASSUME NEW w \in Workers, Judge(w)
      PROVE  TypeOK' /\ StageCoherent'
  <2> DEFINE selected == negotiation[w].selected
  <2>1. /\ negotiation[w] \in NegotiationResult
        /\ selected \in CapabilityDescriptor
    BY <1>7 DEF Judge, TypeOK, StageCoherent, NegotiationResult
  <2>2. selected.id \in CapIds /\ selected.humanApproval \in BOOLEAN
        /\ negotiation[w].binding \in BindingTypes \cup {None}
    BY <2>1 DEF CapabilityDescriptor, NegotiationResult
  <2>3. MakeAudit(w, "policy_denied", selected.id, negotiation[w].binding) \in AuditRecord
    BY <1>7, <2>2, AuditType DEF Judge, Actions, Outcomes
  <2>4. Evaluate(envelope[w], selected, EnforceApproval) \in PolicyDecision
    BY <2>2, EvaluateType
  <2>5. decision' = [decision EXCEPT ![w] = Evaluate(envelope[w], selected, EnforceApproval)]
    BY <1>7 DEF Judge
  <2>6. \/ /\ stage' = [stage EXCEPT ![w] = "allowed"]
           /\ UNCHANGED audit
        \/ Finish(w, "policy_denied", selected.id, negotiation[w].binding)
    BY <1>7 DEF Judge
  <2>7. TypeOK'
    <3>1. stage' \in [Workers -> Stages] /\ audit' \in [Workers -> AuditRecord \cup {None}]
      BY <2>3, <2>6 DEF Finish, TypeOK, Stages
    <3>2. decision' \in [Workers -> PolicyDecision \cup {None}]
      BY <2>4, <2>5 DEF TypeOK
    <3>3. QED
      BY <1>7, <3>1, <3>2 DEF Judge, TypeOK, environment
  <2>8. StageCoherent'
    <3>1. Evaluate(envelope[w], selected, EnforceApproval) # None
      BY <2>4, BrokerAssumption
    <3>2. MakeAudit(w, "policy_denied", selected.id, negotiation[w].binding) # None
      BY <2>3, BrokerAssumption
    <3>3. UNCHANGED <<arrival, envelope, negotiation, plan>> /\ stage[w] = "matched"
      BY <1>7 DEF Judge
    <3>4. QED
      BY <2>5, <2>6, <3>1, <3>2, <3>3 DEF Finish, TypeOK, StageCoherent
  <2>9. QED
    BY <2>7, <2>8
<1>8. ASSUME NEW w \in Workers, Plan(w)
      PROVE  TypeOK' /\ StageCoherent'
  <2>1. /\ negotiation[w] \in NegotiationResult
        /\ negotiation[w].selected \in CapabilityDescriptor
        /\ decision[w] \in PolicyDecision
    BY <1>8 DEF Plan, TypeOK, StageCoherent, NegotiationResult
  <2>2. /\ negotiation[w].selected.id \in CapIds
        /\ negotiation[w].selected.humanApproval \in BOOLEAN
        /\ negotiation[w].binding \in BindingTypes \cup {None}
        /\ decision[w].requiresApproval \in BOOLEAN
    BY <2>1 DEF CapabilityDescriptor, NegotiationResult, PolicyDecision
  <2>3. \A action \in Actions :
          MakeAudit(w, action, negotiation[w].selected.id, negotiation[w].binding) \in AuditRecord
    BY <1>8, <2>2, AuditType DEF Plan
  <2>4. MakeAudit(w, "plan_rejected", None, None) \in AuditRecord
    BY <1>8, AuditType DEF Plan, Actions, Outcomes
  <2>5. Plannable(negotiation[w]) => MakePlan(negotiation[w], decision[w]) \in ExecutionPlan
    BY <2>1, <2>2 DEF Plannable, MakePlan, ExecutionPlan
  <2>6. CASE Plannable(negotiation[w])
    <3>1. PICK action \in Actions :
            Finish(w, action, negotiation[w].selected.id, negotiation[w].binding)
      BY <1>8, <2>6 DEF Plan, Actions, Outcomes
    <3>2. plan' = [plan EXCEPT ![w] = MakePlan(negotiation[w], decision[w])]
      BY <1>8, <2>6 DEF Plan
    <3>3. MakeAudit(w, action, negotiation[w].selected.id, negotiation[w].binding) \in AuditRecord
      BY <2>3
    <3>4. TypeOK'
      BY <1>8, <2>5, <2>6, <3>1, <3>2, <3>3 DEF Plan, Finish, TypeOK, environment, Stages
    <3>5. StageCoherent'
      BY <1>8, <3>1, <3>2, <3>3, BrokerAssumption
      DEF Plan, Finish, TypeOK, StageCoherent, environment
    <3>6. QED
      BY <3>4, <3>5
  <2>7. CASE ~Plannable(negotiation[w])
    BY <1>8, <2>4, <2>7, BrokerAssumption
    DEF Plan, Finish, TypeOK, StageCoherent, environment, Stages
  <2>8. QED
    BY <2>6, <2>7
<1>9. ASSUME NEW w \in Workers, AppendAudit(w)
      PROVE  TypeOK' /\ StageCoherent'
  <2>1. audit[w] \in AuditRecord
    BY <1>9 DEF AppendAudit, TypeOK, StageCoherent
  <2>2. QED
    BY <1>9, <2>1 DEF AppendAudit, TypeOK, StageCoherent, environment, Stages
<1>10. ASSUME NEW w \in Workers, Respond(w)
       PROVE  TypeOK' /\ StageCoherent'
  <2>1. arrival[w] \in Arrival /\ envelope[w] \in IntentEnvelope
    BY <1>10 DEF Respond, TypeOK, StageCoherent
  <2>2. StatusCode(audit[w]) \in Statuses
    BY DEF StatusCode, Statuses
  <2>3. [arrival |-> arrival[w], envelope |-> envelope[w],
         status |-> StatusCode(audit[w]), plan |-> plan[w]] \in Answer
    BY <2>1, <2>2 DEF TypeOK, Answer
  <2>4. QED
    BY <1>10, <2>3 DEF Respond, TypeOK, StageCoherent, environment, Stages
<1>11. CASE UNCHANGED vars
  BY <1>11 DEF vars, environment, TypeOK, StageCoherent
<1>12. QED
  BY <1>1, <1>2, <1>3, <1>4, <1>5, <1>6, <1>7, <1>8, <1>9, <1>10, <1>11 DEF Next, Step

\* The broker never leaves its types: every worker's data fits where its call
\* is, and the log and the answers hold only well-formed records.
THEOREM TypeCorrect == Spec => []TypeOK
<1>1. Init => TypeOK /\ StageCoherent
  BY InitType
<1>2. TypeOK /\ StageCoherent /\ [Next]_vars => TypeOK' /\ StageCoherent'
  BY NextType
<1>3. QED
  BY <1>1, <1>2, PTL DEF Spec

--------------------------------------------------------------------------------
(* Authority is checked in three places, at three moments: the validator   *)
(* looks at declared trust and delegation, the registry at the actor's     *)
(* tier, the policy engine at scopes, originator and risk.  The invariant  *)
(* below says what is already known of a call at each stage, so that the   *)
(* plan, when it is made, inherits all three.                              *)

\* What holds of a plan p made for envelope e that came in at time and that is
\* answered with status.
Sound(p, e, time, status) ==
  /\ Permitted(e, p.cap)
  /\ Timely(e, time)
  /\ p.approvalRequired = NeedsApproval(p.cap)
  /\ status = (IF NeedsApproval(p.cap) THEN 202 ELSE 200)

Cleared(w) ==
  /\ stage[w] # "idle" => arrival[w].time <= clock
  /\ stage[w] \in {"validated", "matched", "allowed"} => Examined(envelope[w], arrival[w].time)
  /\ stage[w] \in {"matched", "allowed"} =>
       Reaches(envelope[w].actor.trust, negotiation[w].selected.minTrust)
  /\ stage[w] = "allowed" =>
       /\ decision[w] = Evaluate(envelope[w], negotiation[w].selected, EnforceApproval)
       /\ decision[w].allowed
  /\ plan[w] # None =>
       Sound(plan[w], envelope[w], arrival[w].time, StatusCode(audit[w]))

AnswersSound ==
  \A i \in DOMAIN answers : answers[i].plan # None =>
    Sound(answers[i].plan, answers[i].envelope, answers[i].arrival.time, answers[i].status)

IInv ==
  /\ TypeOK
  /\ StageCoherent
  /\ \A w \in Workers : Cleared(w)
  /\ AnswersSound

--------------------------------------------------------------------------------
(* The rules, one stage each.                                               *)

\* The planner's flag repeats the engine's decision, and the response status the
\* audit outcome that was derived from it.
LEMMA PlanSound ==
  ASSUME TypeOK, StageCoherent, NEW w \in Workers, Cleared(w), stage[w] = "allowed",
         Plannable(negotiation[w])
  PROVE  Sound(MakePlan(negotiation[w], decision[w]), envelope[w], arrival[w].time,
               StatusCode(MakeAudit(w, IF decision[w].requiresApproval
                                         THEN "approval_requested" ELSE "plan_created",
                                    negotiation[w].selected.id, negotiation[w].binding)))
<1> DEFINE cap  == negotiation[w].selected
           made == MakePlan(negotiation[w], decision[w])
<1>1. envelope[w] \in IntentEnvelope /\ cap \in CapabilityDescriptor
  BY DEF TypeOK, StageCoherent, NegotiationResult
<1>2. Examined(envelope[w], arrival[w].time) /\ Reaches(envelope[w].actor.trust, cap.minTrust)
  BY DEF Cleared
<1>3. /\ decision[w] = Evaluate(envelope[w], cap, EnforceApproval)
      /\ decision[w].allowed
  BY DEF Cleared
<1>4. Permitted(envelope[w], cap) /\ decision[w].requiresApproval = NeedsApproval(cap)
  BY <1>1, <1>2, <1>3, EvaluateSound DEF NeedsApproval
<1>5. cap.humanApproval \in BOOLEAN
  BY <1>1 DEF CapabilityDescriptor
<1>6. made.cap = cap /\ made.approvalRequired = NeedsApproval(cap)
  BY <1>4, <1>5 DEF MakePlan, NeedsApproval
<1>7. StatusCode(MakeAudit(w, IF decision[w].requiresApproval
                                THEN "approval_requested" ELSE "plan_created",
                           cap.id, negotiation[w].binding))
        = (IF NeedsApproval(cap) THEN 202 ELSE 200)
  <2>1. StatusCode(MakeAudit(w, "approval_requested", cap.id, negotiation[w].binding)) = 202
    BY DEF StatusCode, MakeAudit, Outcomes
  <2>2. StatusCode(MakeAudit(w, "plan_created", cap.id, negotiation[w].binding)) = 200
    BY DEF StatusCode, MakeAudit, Outcomes
  <2>3. CASE decision[w].requiresApproval
    BY <2>1, <2>3, <1>4
  <2>4. CASE ~decision[w].requiresApproval
    BY <2>2, <2>4, <1>4
  <2>5. QED
    BY <2>3, <2>4
<1>8. QED
  BY <1>2, <1>4, <1>6, <1>7 DEF Sound, Examined

--------------------------------------------------------------------------------
(* The invariant.                                                           *)

LEMMA InitIInv == Init => IInv
BY InitType DEF Init, IInv, Cleared, AnswersSound

\* A call in progress keeps what is known of it while others move and time passes.
LEMMA ClearedKept ==
  ASSUME NEW w \in Workers, Cleared(w), clock \in Nat, clock' \in Nat, clock <= clock',
         stage[w] # "idle" => arrival[w].time \in Nat,
         stage'[w] = stage[w], arrival'[w] = arrival[w], envelope'[w] = envelope[w],
         negotiation'[w] = negotiation[w], decision'[w] = decision[w],
         plan'[w] = plan[w], audit'[w] = audit[w]
  PROVE  Cleared(w)'
BY DEF Cleared

LEMMA NextIInv == IInv /\ [Next]_vars => IInv'
<1> SUFFICES ASSUME IInv, [Next]_vars
             PROVE  IInv'
  OBVIOUS
<1> USE DEF IInv
<1>1. TypeOK' /\ StageCoherent'
  BY NextType
<1>2. clock \in Nat /\ clock' \in Nat
  BY <1>1, BrokerAssumption DEF TypeOK
<1>3. \A w \in Workers : stage[w] # "idle" => arrival[w].time \in Nat
  BY DEF TypeOK, StageCoherent, Arrival
<1>4. ASSUME UNCHANGED <<stage, arrival, envelope, negotiation, decision, plan, audit, answers>>,
             clock <= clock'
      PROVE  IInv'
  <2>1. \A w \in Workers : Cleared(w)'
    BY <1>2, <1>3, <1>4, ClearedKept
  <2>2. AnswersSound'
    BY <1>4 DEF AnswersSound
  <2>3. QED
    BY <1>1, <2>1, <2>2
<1>5. ASSUME NEW w \in Workers, Cleared(w)', UNCHANGED answers, UNCHANGED clock,
             \A u \in Workers \ {w} :
               /\ stage'[u] = stage[u] /\ arrival'[u] = arrival[u]
               /\ envelope'[u] = envelope[u] /\ negotiation'[u] = negotiation[u]
               /\ decision'[u] = decision[u] /\ plan'[u] = plan[u] /\ audit'[u] = audit[u]
      PROVE  IInv'
  <2>1. \A u \in Workers \ {w} : Cleared(u)'
    BY <1>2, <1>3, <1>5, ClearedKept
  <2>2. AnswersSound'
    BY <1>5 DEF AnswersSound
  <2>3. QED
    BY <1>1, <1>5, <2>1, <2>2
<1>6. ASSUME NEW cap \in Descriptors, Register(cap)
      PROVE  IInv'
  BY <1>2, <1>4, <1>6 DEF Register
<1>7. ASSUME NEW i \in DOMAIN registry, Unregister(i)
      PROVE  IInv'
  BY <1>2, <1>4, <1>7 DEF Unregister
<1>8. CASE Tick
  BY <1>2, <1>4, <1>8 DEF Tick
<1>9. ASSUME NEW w \in Workers, NEW body \in Bodies, NEW h \in Headers, Receive(w, body, h)
      PROVE  IInv'
  <2>1. stage'[w] = "received" /\ arrival'[w].time = clock /\ plan'[w] = None /\ clock' = clock
    BY <1>9 DEF Receive, TypeOK, StageCoherent, environment
  <2>2. Cleared(w)'
    BY <2>1, <1>2 DEF Cleared
  <2>3. QED
    BY <1>5, <1>9, <2>2 DEF Receive, TypeOK, environment
<1>10. ASSUME NEW w \in Workers, Validate(w)
       PROVE  IInv'
  <2>1. /\ envelope[w] \in IntentEnvelope /\ arrival[w].time \in Nat
        /\ arrival[w].time <= clock /\ plan[w] = None
    BY <1>10, <1>3 DEF Validate, TypeOK, StageCoherent, Cleared
  <2>2. ValidEnvelope(envelope[w], clock) => Examined(envelope[w], arrival[w].time)
    BY <1>2, <2>1, ValidIsExamined
  <2>3. \/ ValidEnvelope(envelope[w], clock) /\ stage'[w] = "validated"
        \/ stage'[w] = "finished"
    BY <1>10 DEF Validate, Finish, TypeOK
  <2>4. UNCHANGED <<clock, arrival, envelope, negotiation, decision, plan>>
    BY <1>10 DEF Validate, environment
  <2>5. Cleared(w)'
    BY <2>1, <2>2, <2>3, <2>4 DEF Cleared
  <2>6. QED
    BY <1>5, <1>10, <2>5 DEF Validate, Finish, TypeOK, environment
<1>11. ASSUME NEW w \in Workers, Match(w)
       PROVE  IInv'
  <2>1. /\ envelope[w] \in IntentEnvelope /\ plan[w] = None
        /\ registry \in Seq(CapabilityDescriptor)
    BY <1>11, BrokerAssumption DEF Match, TypeOK, StageCoherent, Registries
  <2>2. PICK result \in Negotiations(envelope[w], registry) :
          /\ negotiation' = [negotiation EXCEPT ![w] = result]
          /\ IF result.selected = None
               THEN Finish(w, "clarification_requested", None, None)
               ELSE /\ stage' = [stage EXCEPT ![w] = "matched"]
                    /\ UNCHANGED audit
    BY <1>11 DEF Match
  <2>3. result.selected # None => Reaches(envelope[w].actor.trust, result.selected.minTrust)
    BY <2>1, NegotiationSound
  <2>4. UNCHANGED <<clock, arrival, envelope, decision, plan, answers>> /\ stage[w] = "validated"
    BY <1>11 DEF Match, environment
  <2>5. Cleared(w)'
    <3>1. CASE result.selected = None
      BY <2>1, <2>2, <2>4, <3>1 DEF Cleared, Finish, TypeOK
    <3>2. CASE result.selected # None
      BY <2>1, <2>2, <2>3, <2>4, <3>2 DEF Cleared, TypeOK
    <3>3. QED
      BY <3>1, <3>2
  <2>6. QED
    BY <1>5, <2>2, <2>4, <2>5 DEF Finish, TypeOK
<1>12. ASSUME NEW w \in Workers, Judge(w)
       PROVE  IInv'
  <2> DEFINE selected == negotiation[w].selected
             verdict  == Evaluate(envelope[w], selected, EnforceApproval)
  <2>1. decision' = [decision EXCEPT ![w] = verdict]
    BY <1>12 DEF Judge
  <2>2. \/ /\ verdict.allowed
           /\ stage' = [stage EXCEPT ![w] = "allowed"]
           /\ UNCHANGED audit
        \/ Finish(w, "policy_denied", selected.id, negotiation[w].binding)
    BY <1>12 DEF Judge
  <2>3. /\ UNCHANGED <<clock, arrival, envelope, negotiation, plan, answers>>
        /\ stage[w] = "matched" /\ plan[w] = None
    BY <1>12 DEF Judge, environment, StageCoherent
  <2> HIDE DEF verdict
  <2>4. Cleared(w)'
    <3>1. decision'[w] = verdict
      BY <2>1 DEF TypeOK
    <3>2. CASE verdict.allowed /\ stage'[w] = "allowed"
      BY <2>3, <3>1, <3>2 DEF Cleared, verdict
    <3>3. CASE stage'[w] = "finished"
      BY <2>3, <3>3 DEF Cleared
    <3>4. QED
      BY <2>2, <3>2, <3>3 DEF Finish, TypeOK
  <2>5. QED
    BY <1>5, <2>1, <2>2, <2>3, <2>4 DEF Finish, TypeOK
<1>13. ASSUME NEW w \in Workers, Plan(w)
       PROVE  IInv'
  <2>1. UNCHANGED <<clock, arrival, envelope, negotiation, decision, answers>>
        /\ stage[w] = "allowed" /\ plan[w] = None
    BY <1>13 DEF Plan, environment, StageCoherent
  <2>2. CASE Plannable(negotiation[w])
    <3> DEFINE action == IF decision[w].requiresApproval THEN "approval_requested"
                                                         ELSE "plan_created"
               logged == MakeAudit(w, action, negotiation[w].selected.id, negotiation[w].binding)
               made   == MakePlan(negotiation[w], decision[w])
    <3>1. Sound(made, envelope[w], arrival[w].time, StatusCode(logged))
      BY <2>1, <2>2, PlanSound
    <3>2. /\ plan' = [plan EXCEPT ![w] = made]
          /\ audit' = [audit EXCEPT ![w] = logged]
          /\ stage' = [stage EXCEPT ![w] = "finished"]
      BY <1>13, <2>2 DEF Plan, Finish
    <3> HIDE DEF made, logged
    <3>3. /\ plan'[w] = made /\ audit'[w] = logged /\ stage'[w] = "finished"
      BY <3>2 DEF TypeOK
    <3>4. Sound(plan'[w], envelope'[w], arrival'[w].time, StatusCode(audit'[w]))
      BY <2>1, <3>1, <3>3
    <3>5. Cleared(w)'
      BY <2>1, <3>3, <3>4 DEF Cleared
    <3>6. QED
      BY <1>5, <2>1, <3>2, <3>5 DEF TypeOK
  <2>3. CASE ~Plannable(negotiation[w])
    <3>1. Finish(w, "plan_rejected", None, None) /\ UNCHANGED plan
      BY <1>13, <2>3 DEF Plan
    <3>2. Cleared(w)'
      BY <2>1, <3>1 DEF Finish, Cleared, TypeOK
    <3>3. QED
      BY <1>5, <2>1, <3>1, <3>2 DEF Finish, TypeOK
  <2>4. QED
    BY <2>2, <2>3
<1>14. ASSUME NEW w \in Workers, AppendAudit(w)
       PROVE  IInv'
  <2>1. Cleared(w)'
    BY <1>14 DEF AppendAudit, Cleared, TypeOK, environment
  <2>2. QED
    BY <1>5, <1>14, <2>1 DEF AppendAudit, TypeOK, environment
<1>15. ASSUME NEW w \in Workers, Respond(w)
       PROVE  IInv'
  <2> DEFINE answer == [arrival |-> arrival[w], envelope |-> envelope[w],
                        status |-> StatusCode(audit[w]), plan |-> plan[w]]
  <2>1. answers' = Append(answers, answer) /\ UNCHANGED clock
    BY <1>15 DEF Respond, environment
  <2>2. answer.plan # None =>
          Sound(answer.plan, answer.envelope, answer.arrival.time, answer.status)
    BY DEF Cleared
  <2> HIDE DEF answer
  <2>3. AnswersSound'
    <3>1. answers \in Seq(Answer)
      BY DEF TypeOK
    <3>2. \A i \in DOMAIN answers' :
            \/ i \in DOMAIN answers /\ answers'[i] = answers[i]
            \/ answers'[i] = answer
      BY <2>1, <3>1
    <3>3. QED
      BY <2>2, <3>2 DEF AnswersSound
  <2>4. Cleared(w)'
    BY <1>15 DEF Respond, Cleared, TypeOK
  <2>5. \A u \in Workers \ {w} : Cleared(u)'
    BY <1>2, <1>3, <1>15, <2>1, ClearedKept DEF Respond, TypeOK
  <2>6. QED
    BY <1>1, <2>3, <2>4, <2>5
<1>16. CASE UNCHANGED vars
  BY <1>2, <1>4, <1>16 DEF vars, environment
<1>17. QED
  BY <1>6, <1>7, <1>8, <1>9, <1>10, <1>11, <1>12, <1>13, <1>14, <1>15, <1>16 DEF Next, Step

LEMMA IInvHolds == Spec => []IInv
<1>1. QED
  BY InitIInv, NextIInv, PTL DEF Spec

--------------------------------------------------------------------------------
(* The theorems.                                                            *)

\* No plan leaves the broker for a capability its actor, or whoever delegated to
\* it, has no authority to use: for any callers, registry changes and headers.
THEOREM PlansAreAuthorized == Spec => []PlanAuthorized
<1>1. IInv => PlanAuthorized
  BY DEF IInv, AnswersSound, Sound, PlanAuthorized, AnswerSet, Elements
<1>2. QED
  BY <1>1, IInvHolds, PTL

\* No plan skips the approval its capability needs, none asks for approval that
\* is not needed, and plan and response status never disagree about it.
THEOREM ApprovalIsNeverSkipped == Spec => []ApprovalGate
<1>1. IInv => ApprovalGate
  <2>1. SUFFICES ASSUME IInv, NEW i \in DOMAIN answers, answers[i].plan # None
                 PROVE  IF NeedsApproval(answers[i].plan.cap)
                          THEN answers[i].status = 202 /\ answers[i].plan.approvalRequired
                          ELSE answers[i].status = 200 /\ ~answers[i].plan.approvalRequired
    BY DEF ApprovalGate, AnswerSet, Elements
  <2>2. /\ answers[i].plan.approvalRequired = NeedsApproval(answers[i].plan.cap)
        /\ answers[i].status = (IF NeedsApproval(answers[i].plan.cap) THEN 202 ELSE 200)
    BY <2>1 DEF IInv, AnswersSound, Sound
  <2>3. QED
    BY <2>2
<1>2. QED
  BY <1>1, IInvHolds, PTL

\* A delegation that had expired when the intent came in leads to no plan, at
\* whatever moment of the call the clock is read.
THEOREM ExpiredDelegationsAreRefused == Spec => []ExpiredOnArrivalRefused
<1>1. IInv => ExpiredOnArrivalRefused
  BY DEF IInv, AnswersSound, Sound, Timely, ExpiredOnArrivalRefused, AnswerSet, Elements
<1>2. QED
  BY <1>1, IInvHolds, PTL

\* LosersDoNotMatter (match): unregistering a capability that was not selected leaves
\* the selection as it was, for every envelope whose slice does not count from the end.
THEOREM LosersAreImmaterial == Spec => []LosersDoNotMatter
<1>1. ASSUME TypeOK PROVE LosersDoNotMatter
  <2>1. registry \in Seq(CapabilityDescriptor) /\ Bodies \subseteq IntentEnvelope
    <3>1. registry \in Seq(Descriptors) /\ Descriptors \subseteq CapabilityDescriptor
      BY <1>1, BrokerAssumption DEF TypeOK, Registries
    <3>2. QED
      BY <3>1, BrokerAssumption
  <2>2. ASSUME NEW e \in Bodies, NEW i \in DOMAIN registry, e.maxCandidates >= 0,
               NEW found \in Negotiations(e, registry),
               found.selected \notin {None, registry[i]}
        PROVE  {again.selected : again \in Negotiations(e, RemoveAt(registry, i))}
                 = {found.selected}
    <3>1. e \in IntentEnvelope
      BY <2>1
    <3>2. QED
      BY <2>1, <2>2, <3>1, LoserImmaterial
  <2>3. QED
    BY <2>2 DEF LosersDoNotMatter
<1>2. QED
  BY <1>1, TypeCorrect, PTL

\* NoGuessing (match): without fallback the selected capability is a full point ahead of
\* every other candidate of the registry, and in any order of registration the same, for
\* every registry and every envelope that asks for more than one candidate.
THEOREM NothingIsGuessed == Spec => []NoGuessing
<1>1. ASSUME TypeOK PROVE NoGuessing
  <2>1. registry \in Seq(CapabilityDescriptor)
    <3>1. registry \in Seq(Descriptors) /\ Descriptors \subseteq CapabilityDescriptor
      BY <1>1, BrokerAssumption DEF TypeOK, Registries
    <3>2. QED
      BY <3>1
  <2>2. ASSUME NEW e \in IntentEnvelope, ~e.allowFallback, e.maxCandidates >= 2,
               NEW found \in Negotiations(e, registry), found.selected # None,
               NEW i \in DOMAIN registry
        PROVE  /\ \A c \in Scored(e, registry) :
                    c.cap # found.selected => Score(e, found.selected) >= c.score + 2
               /\ {again.selected : again \in Negotiations(e, Renewed(i))} = {found.selected}
    BY <2>1, <2>2, NoRenewalMatters DEF Renewed
  <2>3. ASSUME NEW e \in IntentEnvelope, NEW c \in Scored(e, registry)
        PROVE  c.place \in DOMAIN registry
    BY <2>1, ScoredOrigin
  <2>4. QED
    BY <2>2, <2>3, IdentifiedType DEF NoGuessing
<1>2. QED
  BY <1>1, TypeCorrect, PTL
================================================================================
