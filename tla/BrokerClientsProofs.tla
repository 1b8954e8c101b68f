-------------------------- MODULE BrokerClientsProofs --------------------------
(***************************************************************************)
(* What the programs of BrokerClients may rely on, for every set of        *)
(* programs, arguments and registries, and any number of attempts,          *)
(* registrations and restarts.                                             *)
(***************************************************************************)
EXTENDS BrokerClients, BrokerRulesProofs

--------------------------------------------------------------------------------
(* What the SDKs send and the broker answers.                               *)

LEMMA EnvelopeType ==
  ASSUME NEW a \in Arguments
  PROVE  PythonEnvelope(a) \in IntentEnvelope /\ GoEnvelope(a) \in IntentEnvelope
<1>1. Defaults(a) \in IntentEnvelope
  BY DEF Defaults, Arguments, IntentEnvelope, Sensitivities, TrustLevels
<1>2. PythonEnvelope(a) \in IntentEnvelope
  BY <1>1 DEF PythonEnvelope, Arguments, IntentEnvelope
<1>3. a.actor.trust \in TrustLevels
  BY DEF Arguments, ActorDescriptor
<1>4. GoProvenance(a.prov) \in ProvenanceBlock \cup {None}
  BY DEF GoProvenance, Arguments, ProvenanceBlock, Parties
<1>5. GoEnvelope(a) \in IntentEnvelope
  BY <1>1, <1>3, <1>4 DEF GoEnvelope, Arguments, IntentEnvelope
<1>6. QED
  BY <1>2, <1>5

\* The broker's decision on envelope e: a plan only for a registered capability that
\* the actor is permitted to use, over a binding it was selected with, flagged exactly
\* when the capability needs approval, and an action that says so.
Considered(e, reg, d) ==
  /\ d.plan = None => d.action \notin GrantingActions
  /\ d.plan # None =>
       /\ d.plan \in ExecutionPlan
       /\ d.plan.cap \in Elements(reg)
       /\ Permitted(e, d.plan.cap)
       /\ SelectedBinding(d.plan.binding, e, d.plan.cap)
       /\ d.plan.approvalRequired = NeedsApproval(d.plan.cap)
       /\ d.capability = d.plan.cap.id
       /\ d.action = IF d.plan.approvalRequired THEN "approval_requested" ELSE "plan_created"

LEMMA NoPlanConsidered ==
  ASSUME NEW e, NEW reg, NEW action \in Actions \ GrantingActions,
         NEW cap \in CapIds \cup {None}
  PROVE  /\ NoPlan(action, cap) \in Decision
         /\ NoPlan(action, cap).action \in Actions
         /\ Considered(e, reg, NoPlan(action, cap))
BY DEF NoPlan, Decision, Considered

LEMMA DecisionSound ==
  ASSUME NEW e \in IntentEnvelope, NEW reg \in Seq(CapabilityDescriptor),
         NEW d \in Decisions(e, reg)
  PROVE  d \in Decision /\ d.action \in Actions /\ Considered(e, reg, d)
<1> DEFINE Goal == d \in Decision /\ d.action \in Actions /\ Considered(e, reg, d)
<1>0. {"validation_failed", "clarification_requested", "policy_denied", "plan_rejected"}
        \subseteq Actions \ GrantingActions
      /\ {"approval_requested", "plan_created"} \subseteq Actions
  BY DEF Actions, Outcomes, GrantingActions
<1>1. CASE ~ValidEnvelope(e, Now)
  <2>1. d = NoPlan("validation_failed", None)
    BY <1>1 DEF Decisions
  <2>2. QED
    BY <1>0, <2>1, NoPlanConsidered
<1>2. CASE ValidEnvelope(e, Now)
  <2>1. PICK n \in Negotiations(e, reg) :
          d = IF n.selected = None THEN NoPlan("clarification_requested", None)
                                   ELSE Judged(e, n)
    BY <1>2 DEF Decisions
  <2>2. CASE n.selected = None
    BY <1>0, <2>1, <2>2, NoPlanConsidered
  <2>3. CASE n.selected # None
    <3> DEFINE cap     == n.selected
               verdict == Evaluate(e, cap, EnforceApproval)
    <3>1. n \in NegotiationResult /\ cap \in CapabilityDescriptor
          /\ Reaches(e.actor.trust, cap.minTrust)
      BY <2>3, NegotiationSound
    <3>2. PICK c \in Scored(e, reg) :
            cap = c.cap /\ n.binding \in SelectedBindings(e, c.cap)
      BY <2>3, SelectionOrigin
    <3>3. cap \in Elements(reg) /\ SelectedBinding(n.binding, e, cap)
      BY <3>2, ScoredOrigin DEF Elements, SelectedBindings
    <3>4. cap.id \in CapIds
      BY <3>1 DEF CapabilityDescriptor
    <3>5. CASE ~verdict.allowed
      <4>1. d = NoPlan("policy_denied", cap.id)
        BY <2>1, <2>3, <3>5 DEF Judged
      <4>2. QED
        BY <1>0, <3>4, <4>1, NoPlanConsidered
    <3>6. CASE verdict.allowed /\ ~Plannable(n)
      <4>1. d = NoPlan("plan_rejected", None)
        BY <2>1, <2>3, <3>6 DEF Judged
      <4>2. QED
        BY <1>0, <4>1, NoPlanConsidered
    <3>7. CASE verdict.allowed /\ Plannable(n)
      <4>1. d = Planned(n, verdict)
        BY <2>1, <2>3, <3>7 DEF Judged
      <4>2. Examined(e, 1)
        BY <1>2, ValidIsExamined DEF Now
      <4>3. Permitted(e, cap)
            /\ verdict.requiresApproval
                 = (RequiresApproval(cap.risk, cap.opClass, EnforceApproval)
                      \/ cap.humanApproval)
        BY <3>1, <3>7, <4>2, EvaluateSound
      <4>4. verdict \in PolicyDecision
        BY <3>1, EvaluateType DEF CapabilityDescriptor
      <4>5. n.binding \in BindingTypes
        BY <3>1, <3>7 DEF Plannable, NegotiationResult
      <4> HIDE DEF verdict
      <4>6. cap.humanApproval \in BOOLEAN /\ verdict.requiresApproval \in BOOLEAN
        BY <3>1, <4>4 DEF CapabilityDescriptor, PolicyDecision
      <4>7. MakePlan(n, verdict) \in ExecutionPlan
        BY <3>1, <4>5, <4>6 DEF MakePlan, ExecutionPlan
      <4>8. MakePlan(n, verdict).cap = cap /\ MakePlan(n, verdict).binding = n.binding
            /\ MakePlan(n, verdict).approvalRequired = verdict.requiresApproval
            /\ verdict.requiresApproval = NeedsApproval(cap)
        BY <4>3, <4>6 DEF MakePlan, NeedsApproval
      <4>9. /\ d.plan = MakePlan(n, verdict) /\ d.capability = cap.id
            /\ d.action = IF verdict.requiresApproval THEN "approval_requested"
                                                      ELSE "plan_created"
        BY <4>1 DEF Planned
      <4>10. d \in Decision
        BY <1>0, <3>4, <4>1, <4>7 DEF Planned, Decision
      <4>11. d.plan # None
        BY <4>7, <4>9, ClientsAssumption
      <4>12. Considered(e, reg, d)
        BY <3>3, <4>3, <4>7, <4>8, <4>9, <4>11 DEF Considered
      <4>13. QED
        BY <1>0, <4>9, <4>10, <4>12
    <3>8. QED
      BY <3>5, <3>6, <3>7
  <2>4. QED
    BY <2>2, <2>3
<1>3. QED
  BY <1>1, <1>2

\* The broker always has an answer and a record of the right shape, and they agree.
LEMMA AnswerType ==
  ASSUME NEW c \in Callers, NEW n \in Attempts, NEW d \in Decision
  PROVE  /\ Respond(c, n, d) \in Response
         /\ Respond(c, n, d).status = 422 <=> d.action = "malformed"
         /\ d.action \in Actions => Record(c, n, d) \in AuditRecord
<1>1. d.action \in Actions \cup {"malformed"} /\ d.capability \in CapIds \cup {None}
      /\ d.plan \in ExecutionPlan \cup {None}
  BY DEF Decision
<1>2. StatusCode(Record(c, n, d)) \in Statuses
  BY DEF StatusCode, Statuses
<1>3. (d.plan # None /\ d.plan.approvalRequired) \in BOOLEAN
  BY <1>1 DEF ExecutionPlan
<1>4. 422 \notin Statuses /\ "malformed" \notin Actions
  BY DEF Statuses, Actions, Outcomes
<1>5. /\ Respond(c, n, d).status = IF d.action = "malformed" THEN 422
                                   ELSE StatusCode(Record(c, n, d))
      /\ Respond(c, n, d) \in Response
  BY <1>1, <1>2, <1>3 DEF Respond, Response
<1>6. d.action \in Actions => Record(c, n, d) \in AuditRecord
  BY <1>1 DEF Record, AuditRecord
<1>7. QED
  BY <1>2, <1>4, <1>5, <1>6

\* The payload of a plan is one: grounding and adapters only pass on fields.
LEMMA PayloadType ==
  ASSUME NEW plan \in ExecutionPlan, NEW params, DOMAIN params \subseteq Fields
  PROVE  Translate(plan, params) \in Payload
<1> DEFINE grounded == Ground(params, plan.cap.id)
           fields   == CASE plan.binding = "rest" -> RestFields(grounded, plan.cap.opClass)
                         [] plan.binding = "rag"  -> RagFields(grounded)
                         [] plan.binding = "grpc" -> RequestMessage(grounded)
                         [] plan.binding = "mcp"  -> ToolArguments(grounded)
                         [] plan.binding = "a2a"  -> TaskParameters(grounded)
<1>1. InputSchema(plan.cap.id).required \subseteq Fields
  BY FieldsAssumption DEF ExecutionPlan, CapabilityDescriptor
<1>2. DOMAIN grounded \subseteq Fields
  BY <1>1 DEF Ground
<1>3. plan.binding \in BindingTypes /\ plan.approvalRequired \in BOOLEAN
  BY DEF ExecutionPlan
<1>4. fields \subseteq DOMAIN grounded
  <2> HIDE DEF grounded
  <2>1. RestFields(grounded, plan.cap.opClass) \subseteq DOMAIN grounded
    BY DEF RestFields, Flat
  <2>2. RagFields(grounded) \subseteq DOMAIN grounded
    BY DEF RagFields, RagCollection, RagQuery, RagContract, Strings, Flat
  <2>3. QED
    BY <1>3, <2>1, <2>2 DEF RequestMessage, ToolArguments, TaskParameters, BindingTypes
<1>5. Translate(plan, params) =
        [ binding |-> plan.binding, fields |-> fields,
          placeholders |-> {f \in fields : grounded[f] = "placeholder"},
          gate |-> IF plan.binding = "a2a" THEN plan.approvalRequired ELSE None ]
  BY DEF Translate
<1> HIDE DEF fields, grounded
<1>6. QED
  BY <1>2, <1>3, <1>4, <1>5 DEF Payload

--------------------------------------------------------------------------------
(* What every step keeps.                                                   *)

\* The decisions the broker can come to about c's intent over registry reg.
Outlook(c, reg) ==
  IF kind[c] = "embedded" \/ ValidExtensions(arguments[c].extensions)
    THEN Decisions(Envelope(c), reg) ELSE {NoPlan("malformed", None)}

\* Where a program is says how often it has submitted what it built.
Disciplined(c) ==
  /\ phase[c] # "idle" => kind[c] # "absent" /\ arguments[c] \in ArgumentsOf(kind, c)
  /\ phase[c] \in {"idle", "invalid", "built"} <=> attempt[c] = 0
  /\ phase[c] \in {"waiting", "failed"} => kind[c] # "embedded"
  /\ result[c] # None <=> phase[c] = "returned"
  /\ kind[c] = "embedded" => attempt[c] \in {0, 1}

\* An attempt is decided at most once, on what its caller built.
Decided(c) ==
  \A n \in Attempts : served[c][n] # None =>
    /\ n <= attempt[c]
    /\ served[c][n].decision \in Outlook(c, served[c][n].registry)
    /\ served[c][n].life <= life

\* What is on the wire belongs to an attempt that was made: a request to one not
\* decided yet, a response to the one its caller waits for.
Pending(m) ==
  /\ kind[m[1]] # "embedded"
  /\ m[2] <= attempt[m[1]]
  /\ served[m[1]][m[2]] = None

Awaited(r) ==
  LET c == r[1][1]
      n == r[1][2]
  IN  /\ phase[c] = "waiting"
      /\ n = attempt[c]
      /\ served[c][n] # None
      /\ r[2] = Respond(c, n, served[c][n].decision)

Wired ==
  /\ \A m \in requests : Pending(m)
  /\ \A r \in responses : Awaited(r)

\* What a program was told is what the broker decided on its last attempt.
Told(c) ==
  result[c] # None =>
    /\ served[c][attempt[c]] # None
    /\ result[c] = Received(c, Respond(c, attempt[c], served[c][attempt[c]].decision))

\* The audit log of the running broker holds one record of every decision it made.
Logged ==
  /\ \A c \in Callers, n \in Attempts :
       /\ served[c][n] # None
       /\ served[c][n].life = life
       /\ served[c][n].decision.action # "malformed"
       => \E i \in DOMAIN auditLog : auditLog[i] = Record(c, n, served[c][n].decision)
  /\ \A i \in DOMAIN auditLog : served[auditLog[i].caller][auditLog[i].attempt] # None
  /\ \A i, j \in DOMAIN auditLog :
       auditLog[i].caller = auditLog[j].caller /\ auditLog[i].attempt = auditLog[j].attempt
         => i = j

ClientsInv ==
  /\ TypeOK
  /\ \A c \in Callers : Disciplined(c) /\ Decided(c) /\ Told(c)
  /\ Wired
  /\ Logged

LEMMA OutlookSound ==
  ASSUME TypeOK, NEW c \in Callers, arguments[c] \in ArgumentsOf(kind, c),
         NEW reg \in Seq(CapabilityDescriptor), NEW d \in Outlook(c, reg)
  PROVE  /\ Envelope(c) \in IntentEnvelope
         /\ d \in Decision
         /\ \/ d.action = "malformed" /\ d.plan = None
            \/ d.action \in Actions /\ Considered(Envelope(c), reg, d)
<1>1. arguments[c] \in Arguments
  BY ClientsAssumption DEF TypeOK
<1>2. Envelope(c) \in IntentEnvelope
  BY <1>1, EnvelopeType DEF Envelope
<1>3. CASE d \in Decisions(Envelope(c), reg)
  BY <1>2, <1>3, DecisionSound
<1>4. CASE d = NoPlan("malformed", None)
  BY <1>2, <1>4 DEF NoPlan, Decision
<1>5. QED
  BY <1>3, <1>4 DEF Outlook

LEMMA InitClients == Init => ClientsInv
<1> SUFFICES ASSUME Init PROVE ClientsInv
  OBVIOUS
<1>1. TypeOK
  BY ClientsAssumption DEF Init, TypeOK, Phases
<1>2. ASSUME NEW c \in Callers PROVE Disciplined(c) /\ Decided(c) /\ Told(c)
  BY DEF Init, Disciplined, Decided, Told
<1>3. Wired /\ Logged
  BY DEF Init, Wired, Logged
<1>4. QED
  BY <1>1, <1>2, <1>3 DEF ClientsInv

--------------------------------------------------------------------------------
(* The type invariant.                                                      *)

\* What handling an intent writes down.
LEMMA HandledType ==
  ASSUME TypeOK, NEW c \in Callers, NEW n \in Attempts, NEW d \in Decision, Handled(c, n, d)
  PROVE  /\ served' \in [Callers -> [Attempts -> Service \cup {None}]]
         /\ served'[c][n] # None
         /\ served'[c][n].decision = d /\ served'[c][n].registry = registry
         /\ served'[c][n].life = life
         /\ \A u \in Callers, m \in Attempts :
              u # c \/ m # n => served'[u][m] = served[u][m]
         /\ \A u \in Callers : u # c => served'[u] = served[u]
         /\ auditLog' \in Seq(AuditRecord)
<1> DEFINE s == [decision |-> d, registry |-> registry, life |-> life]
<1>1. s \in Service
  BY DEF TypeOK, Service
<1>2. served' = [served EXCEPT ![c] = [served[c] EXCEPT ![n] = s]]
  BY DEF Handled, TypeOK
<1> HIDE DEF s
<1>3. served[c] \in [Attempts -> Service \cup {None}]
  BY DEF TypeOK
<1>4. [served[c] EXCEPT ![n] = s] \in [Attempts -> Service \cup {None}]
  BY <1>1, <1>3
<1>5. served' \in [Callers -> [Attempts -> Service \cup {None}]]
  BY <1>2, <1>4 DEF TypeOK
<1>6. served'[c] = [served[c] EXCEPT ![n] = s] /\ \A u \in Callers : u # c => served'[u] = served[u]
  BY <1>2 DEF TypeOK
<1>7. s # None
  BY <1>1, ClientsAssumption
<1>8. d.action \in Actions \/ d.action = "malformed"
  BY DEF Decision
<1>9. auditLog' \in Seq(AuditRecord)
  <2>1. CASE d.action = "malformed"
    BY <2>1 DEF Handled, TypeOK
  <2>2. CASE d.action # "malformed"
    BY <1>8, <2>2, AnswerType DEF Handled, TypeOK
  <2>3. QED
    BY <2>1, <2>2
<1>10. s.decision = d /\ s.registry = registry /\ s.life = life
  BY DEF s
<1>11. QED
  BY <1>3, <1>5, <1>6, <1>7, <1>9, <1>10

\* Whoever asks has built an envelope, and what the broker makes of it is a decision.
LEMMA ServeDecides ==
  ASSUME ClientsInv, NEW c \in Callers, NEW n \in Attempts, Serve(c, n)
  PROVE  /\ arguments[c] \in ArgumentsOf(kind, c)
         /\ kind[c] # "embedded" /\ n <= attempt[c] /\ served[c][n] = None
         /\ \E d \in Outlook(c, registry) :
              /\ d \in Decision
              /\ Handled(c, n, d)
              /\ responses' = IF phase[c] = "waiting" /\ attempt[c] = n
                                THEN responses \cup {<<<<c, n>>, Respond(c, n, d)>>}
                                ELSE responses
<1>1. <<c, n>> \in requests
  BY DEF Serve
<1>2. kind[c] # "embedded" /\ n <= attempt[c] /\ served[c][n] = None
  BY <1>1 DEF ClientsInv, Wired, Pending
<1>3. attempt[c] # 0
  BY <1>2 DEF ClientsInv, TypeOK, Attempts
<1>4. arguments[c] \in ArgumentsOf(kind, c)
  BY <1>3 DEF ClientsInv, Disciplined
<1>5. PICK d \in Outlook(c, registry) :
        /\ Handled(c, n, d)
        /\ responses' = IF phase[c] = "waiting" /\ attempt[c] = n
                          THEN responses \cup {<<<<c, n>>, Respond(c, n, d)>>} ELSE responses
  BY <1>2 DEF Serve, Outlook
<1>6. d \in Decision
  BY <1>4, OutlookSound DEF ClientsInv, TypeOK
<1>7. QED
  BY <1>2, <1>4, <1>5, <1>6

LEMMA TranslateDecides ==
  ASSUME ClientsInv, NEW c \in Callers, TranslateIntent(c)
  PROVE  /\ arguments[c] \in ArgumentsOf(kind, c)
         /\ 1 \in Attempts /\ attempt[c] = 0
         /\ \E d \in Outlook(c, registry) :
              /\ d \in Decision
              /\ Handled(c, 1, d)
              /\ result' = [result EXCEPT ![c] =
                              [raised |-> FALSE, response |-> Respond(c, 1, d)]]
              /\ payload' = [payload EXCEPT ![c] =
                               IF d.plan = None THEN None
                               ELSE Translate(d.plan, ParametersOf(arguments[c]))]
<1>1. phase[c] = "built" /\ kind[c] = "embedded"
  BY DEF TranslateIntent
<1>2. arguments[c] \in ArgumentsOf(kind, c) /\ attempt[c] = 0
  BY <1>1 DEF ClientsInv, Disciplined
<1>3. PICK d \in Outlook(c, registry) :
        /\ Handled(c, 1, d)
        /\ result' = [result EXCEPT ![c] = [raised |-> FALSE, response |-> Respond(c, 1, d)]]
        /\ payload' = [payload EXCEPT ![c] =
                         IF d.plan = None THEN None
                         ELSE Translate(d.plan, ParametersOf(arguments[c]))]
  BY <1>1 DEF TranslateIntent, Outlook
<1>4. d \in Decision
  BY <1>2, OutlookSound DEF ClientsInv, TypeOK
<1>5. 1 \in Attempts
  BY ClientsAssumption DEF Attempts
<1>6. QED
  BY <1>2, <1>3, <1>4, <1>5

LEMMA ClientsType == ClientsInv /\ [Next]_vars => TypeOK'
<1> SUFFICES ASSUME ClientsInv, [Next]_vars PROVE TypeOK'
  OBVIOUS
<1> USE DEF broker, wire
<1>0. TypeOK
  BY DEF ClientsInv
<1>1. ASSUME NEW c \in Callers, NEW a \in ArgumentsOf(kind, c), Build(c, a) PROVE TypeOK'
  <2>1. a \in Arguments
    BY <1>0, ClientsAssumption DEF TypeOK
  <2>2. QED
    BY <1>0, <1>1, <2>1 DEF TypeOK, Build, Phases
<1>2. ASSUME NEW c \in Callers, Submit(c) PROVE TypeOK'
  <2>1. attempt[c] + 1 \in 0..MaxAttempts /\ attempt[c] + 1 \in Attempts
    BY <1>0, <1>2, ClientsAssumption DEF TypeOK, Submit, Attempts
  <2>2. QED
    BY <1>0, <1>2, <2>1 DEF TypeOK, Submit, Phases
<1>3. ASSUME NEW c \in Callers, Receive(c) PROVE TypeOK'
  <2>1. PICK answer \in responses :
          /\ result' = [result EXCEPT ![c] = Received(c, answer[2])]
          /\ responses' = responses \ {answer}
    BY <1>3 DEF Receive
  <2>2. answer[2] \in Response
    BY <1>0 DEF TypeOK
  <2>3. Received(c, answer[2]) \in Result
    BY <2>2 DEF Received, PythonReceived, GoReceived, Result, Response, Statuses
  <2>4. QED
    BY <1>0, <1>3, <2>1, <2>3 DEF TypeOK, Receive, Phases
<1>4. ASSUME NEW c \in Callers, Fail(c) PROVE TypeOK'
  BY <1>0, <1>4 DEF TypeOK, Fail, Phases
<1>5. ASSUME NEW c \in Callers, TranslateIntent(c) PROVE TypeOK'
  <2>1. /\ arguments[c] \in ArgumentsOf(kind, c)
        /\ 1 \in Attempts
    BY <1>5, TranslateDecides
  <2>2. PICK d \in Decision :
          /\ Handled(c, 1, d)
          /\ result' = [result EXCEPT ![c] = [raised |-> FALSE, response |-> Respond(c, 1, d)]]
          /\ payload' = [payload EXCEPT ![c] =
                           IF d.plan = None THEN None
                           ELSE Translate(d.plan, ParametersOf(arguments[c]))]
    BY <1>5, TranslateDecides
  <2>3. [raised |-> FALSE, response |-> Respond(c, 1, d)] \in Result
    BY <2>1, AnswerType DEF Result
  <2>4. DOMAIN ParametersOf(arguments[c]) \subseteq Fields
    BY <1>0, <2>1, ClientsAssumption DEF TypeOK
  <2>5. (IF d.plan = None THEN None ELSE Translate(d.plan, ParametersOf(arguments[c])))
          \in Payload \cup {None}
    BY <2>4, PayloadType DEF Decision
  <2>6. /\ served' \in [Callers -> [Attempts -> Service \cup {None}]]
        /\ auditLog' \in Seq(AuditRecord)
    BY <1>0, <2>1, <2>2, HandledType
  <2>7. result' \in [Callers -> Result \cup {None}] /\ payload' \in [Callers -> Payload \cup {None}]
    BY <1>0, <2>2, <2>3, <2>5 DEF TypeOK
  <2>8. /\ attempt' = [attempt EXCEPT ![c] = 1]
        /\ phase' = [phase EXCEPT ![c] = "returned"]
        /\ UNCHANGED <<kind, arguments, wire>>
        /\ UNCHANGED <<registry, changes, life>>
    BY <1>5, <2>2 DEF TranslateIntent, Handled
  <2>9. 1 \in 0..MaxAttempts
    BY ClientsAssumption
  <2>10. QED
    BY <1>0, <2>6, <2>7, <2>8, <2>9 DEF TypeOK, Phases
<1>6. ASSUME NEW c \in Callers, NEW n \in Attempts, Serve(c, n) PROVE TypeOK'
  <2>1. PICK d \in Decision :
          /\ Handled(c, n, d)
          /\ responses' = IF phase[c] = "waiting" /\ attempt[c] = n
                            THEN responses \cup {<<<<c, n>>, Respond(c, n, d)>>} ELSE responses
    BY <1>6, ServeDecides
  <2>2. /\ served' \in [Callers -> [Attempts -> Service \cup {None}]]
        /\ auditLog' \in Seq(AuditRecord)
    BY <1>0, <2>1, HandledType
  <2>3. responses' \subseteq (Callers \X Attempts) \X Response
    BY <1>0, <2>1, AnswerType DEF TypeOK
  <2>4. /\ requests' = requests \ {<<c, n>>}
        /\ UNCHANGED <<kind, arguments, phase, attempt, result, payload>>
        /\ UNCHANGED <<registry, changes, life>>
    BY <1>6, <2>1 DEF Serve, Handled
  <2>5. QED
    BY <1>0, <2>2, <2>3, <2>4 DEF TypeOK
<1>7. ASSUME NEW cap \in Descriptors, Register(cap) PROVE TypeOK'
  <2>1. Put(registry, cap) \in Seq(CapabilityDescriptor)
    BY <1>0, PutType, ClientsAssumption DEF TypeOK
  <2>2. QED
    BY <1>0, <1>7, <2>1, ClientsAssumption DEF TypeOK, Register
<1>8. ASSUME NEW i \in DOMAIN registry, Unregister(i) PROVE TypeOK'
  <2>1. RemoveAt(registry, i) \in Seq(CapabilityDescriptor)
    BY <1>0, RemoveType DEF TypeOK
  <2>2. QED
    BY <1>0, <1>8, <2>1, ClientsAssumption DEF TypeOK, Unregister
<1>9. CASE Restart
  BY <1>0, <1>9, ClientsAssumption DEF TypeOK, Restart
<1>10. CASE UNCHANGED vars
  BY <1>0, <1>10 DEF TypeOK, vars
<1>11. QED
  BY <1>1, <1>2, <1>3, <1>4, <1>5, <1>6, <1>7, <1>8, <1>9, <1>10 DEF Next

--------------------------------------------------------------------------------
(* One program at a time.                                                   *)

\* Nothing happens to program u or to what it submitted.
Rests(u) ==
  /\ arguments'[u] = arguments[u] /\ phase'[u] = phase[u] /\ attempt'[u] = attempt[u]
  /\ result'[u] = result[u] /\ served'[u] = served[u]

Moves(u) ==
  \/ \E a \in ArgumentsOf(kind, u) : Build(u, a)
  \/ Submit(u) \/ Receive(u) \/ Fail(u) \/ TranslateIntent(u)
  \/ \E n \in Attempts : Serve(u, n)

LEMMA OthersRest ==
  ASSUME ClientsInv, NEW c \in Callers, NEW u \in Callers, c # u, Moves(c)
  PROVE  Rests(u)
<1> USE DEF broker, wire, Rests
<1>0. TypeOK
  BY DEF ClientsInv
<1>1. ASSUME NEW a \in ArgumentsOf(kind, c), Build(c, a) PROVE Rests(u)
  BY <1>0, <1>1 DEF TypeOK, Build
<1>2. CASE Submit(c)
  BY <1>0, <1>2 DEF TypeOK, Submit
<1>3. CASE Receive(c)
  BY <1>0, <1>3 DEF TypeOK, Receive
<1>4. CASE Fail(c)
  BY <1>0, <1>4 DEF TypeOK, Fail
<1>5. CASE TranslateIntent(c)
  <2>1. PICK d \in Decision :
          /\ Handled(c, 1, d)
          /\ result' = [result EXCEPT ![c] = [raised |-> FALSE, response |-> Respond(c, 1, d)]]
    BY <1>5, TranslateDecides
  <2>2. 1 \in Attempts
    BY <1>5, TranslateDecides
  <2>3. served'[u] = served[u]
    BY <1>0, <2>1, <2>2, HandledType
  <2>4. QED
    BY <1>0, <1>5, <2>1, <2>3 DEF TypeOK, TranslateIntent
<1>6. ASSUME NEW n \in Attempts, Serve(c, n) PROVE Rests(u)
  <2>1. PICK d \in Decision : Handled(c, n, d)
    BY <1>6, ServeDecides
  <2>2. served'[u] = served[u]
    BY <1>0, <2>1, HandledType
  <2>3. QED
    BY <1>6, <2>2 DEF Serve
<1>7. QED
  BY <1>1, <1>2, <1>3, <1>4, <1>5, <1>6 DEF Moves

LEMMA OneProgramMoves ==
  ASSUME ClientsInv, [Next]_vars, NEW u \in Callers
  PROVE  /\ kind' = kind
         /\ life' \in {life, life + 1}
         /\ Moves(u) \/ Rests(u)
<1> USE DEF broker, wire, Rests
<1>0. TypeOK
  BY DEF ClientsInv
<1>1. ASSUME NEW c \in Callers, Moves(c)
      PROVE  kind' = kind /\ life' = life
  BY <1>1 DEF Moves, Build, Submit, Receive, Fail, TranslateIntent, Serve, Handled
<1>2. ASSUME NEW c \in Callers, c # u, Moves(c)
      PROVE  Rests(u)
  BY <1>2, OthersRest
<1>3. ASSUME NEW cap \in Descriptors, Register(cap)
      PROVE  kind' = kind /\ life' = life /\ Rests(u)
  BY <1>3 DEF Register
<1>4. ASSUME NEW i \in DOMAIN registry, Unregister(i)
      PROVE  kind' = kind /\ life' = life /\ Rests(u)
  BY <1>4 DEF Unregister
<1>5. CASE Restart
  BY <1>5 DEF Restart
<1>6. CASE UNCHANGED vars
  BY <1>6 DEF vars
<1>7. ASSUME NEW c \in Callers, Moves(c)
      PROVE  kind' = kind /\ life' = life /\ (Moves(u) \/ Rests(u))
  BY <1>1, <1>2, <1>7
<1>8. Next => \/ \E c \in Callers : Moves(c)
              \/ \E cap \in Descriptors : Register(cap)
              \/ \E i \in DOMAIN registry : Unregister(i)
              \/ Restart
  BY DEF Next, Moves
<1>9. QED
  BY <1>3, <1>4, <1>5, <1>6, <1>7, <1>8

LEMMA OutlookKept ==
  ASSUME NEW u \in Callers, NEW reg, kind' = kind, arguments'[u] = arguments[u]
  PROVE  Envelope(u)' = Envelope(u) /\ Outlook(u, reg)' = Outlook(u, reg)
BY DEF Envelope, Outlook

LEMMA DisciplinedNext ==
  ASSUME ClientsInv, [Next]_vars, NEW u \in Callers
  PROVE  Disciplined(u)'
<1>0. TypeOK /\ Disciplined(u) /\ kind' = kind
  BY OneProgramMoves DEF ClientsInv
<1>1. ASSUME NEW a \in ArgumentsOf(kind, u), Build(u, a) PROVE Disciplined(u)'
  BY <1>0, <1>1 DEF TypeOK, Build, Disciplined
<1>2. CASE Submit(u)
  <2>1. attempt'[u] = attempt[u] + 1 /\ attempt[u] \in Nat
    BY <1>0, <1>2, ClientsAssumption DEF TypeOK, Submit
  <2>2. QED
    BY <1>0, <1>2, <2>1 DEF TypeOK, Submit, Disciplined
<1>3. CASE Receive(u)
  <2>1. PICK answer \in responses : result' = [result EXCEPT ![u] = Received(u, answer[2])]
    BY <1>3 DEF Receive
  <2>2. answer[2] \in Response
    BY <1>0 DEF TypeOK
  <2>3. Received(u, answer[2]) \in Result
    BY <2>2 DEF Received, PythonReceived, GoReceived, Result, Response, Statuses
  <2>4. result'[u] # None
    BY <1>0, <2>1, <2>3, ClientsAssumption DEF TypeOK
  <2>5. QED
    BY <1>0, <1>3, <2>4 DEF TypeOK, Receive, Disciplined
<1>4. CASE Fail(u)
  BY <1>0, <1>4 DEF TypeOK, Fail, Disciplined
<1>5. CASE TranslateIntent(u)
  <2>1. PICK d \in Decision :
          result' = [result EXCEPT ![u] = [raised |-> FALSE, response |-> Respond(u, 1, d)]]
    BY <1>5, TranslateDecides
  <2>2. 1 \in Attempts
    BY <1>5, TranslateDecides
  <2>3. [raised |-> FALSE, response |-> Respond(u, 1, d)] \in Result
    BY <2>2, AnswerType DEF Result
  <2>4. result'[u] # None
    BY <1>0, <2>1, <2>3, ClientsAssumption DEF TypeOK
  <2>5. QED
    BY <1>0, <1>5, <2>4 DEF TypeOK, TranslateIntent, Disciplined
<1>6. ASSUME NEW n \in Attempts, Serve(u, n) PROVE Disciplined(u)'
  BY <1>0, <1>6 DEF Serve, Disciplined
<1>7. CASE Rests(u)
  BY <1>0, <1>7 DEF Rests, Disciplined
<1>8. QED
  BY <1>1, <1>2, <1>3, <1>4, <1>5, <1>6, <1>7, OneProgramMoves DEF Moves

\* Attempt n of u is decided now, with d; the others are as they were.
LEMMA DecidedNow ==
  ASSUME ClientsInv, NEW u \in Callers, NEW n \in Attempts, NEW d \in Decision,
         Handled(u, n, d), d \in Outlook(u, registry), n <= attempt'[u],
         attempt'[u] \in Nat, attempt[u] <= attempt'[u], kind' = kind, arguments'[u] = arguments[u]
  PROVE  Decided(u)'
<1>0. TypeOK /\ Decided(u)
  BY DEF ClientsInv
<1>1. /\ served'[u][n].decision = d /\ served'[u][n].registry = registry
      /\ served'[u][n].life = life
      /\ \A m \in Attempts : m # n => served'[u][m] = served[u][m]
  BY <1>0, HandledType
<1>2. life' = life /\ life \in Nat /\ attempt[u] \in Nat
  BY <1>0, ClientsAssumption DEF TypeOK, Handled
<1> SUFFICES ASSUME NEW m \in Attempts, served'[u][m] # None
             PROVE  /\ m <= attempt'[u]
                    /\ served'[u][m].decision \in Outlook(u, served[u][m].registry)'
                    /\ served'[u][m].life <= life'
  BY DEF Decided
<1>3. CASE m = n
  <2>1. /\ served'[u][m].decision = d /\ served'[u][m].registry = registry
        /\ served'[u][m].life = life
    BY <1>1, <1>3
  <2>2. d \in Outlook(u, served'[u][m].registry)
    BY <2>1
  <2>3. d \in Outlook(u, served[u][m].registry)'
    BY <2>1, <2>2 DEF Outlook, Envelope
  <2>4. QED
    BY <1>2, <1>3, <2>1, <2>3
<1>4. CASE m # n
  <2>1. served'[u][m] = served[u][m]
    BY <1>1, <1>4
  <2>2. /\ m <= attempt[u] /\ served[u][m].life <= life
        /\ served[u][m].decision \in Outlook(u, served[u][m].registry)
    BY <1>0, <2>1 DEF Decided
  <2>3. served'[u][m].decision \in Outlook(u, served[u][m].registry)'
    BY <2>1, <2>2 DEF Outlook, Envelope
  <2>4. m <= attempt'[u]
    BY <1>2, <2>2 DEF Attempts
  <2>5. QED
    BY <1>2, <2>1, <2>2, <2>3, <2>4
<1>5. QED
  BY <1>3, <1>4

LEMMA DecidedNext ==
  ASSUME ClientsInv, [Next]_vars, NEW u \in Callers
  PROVE  Decided(u)'
<1>0. /\ TypeOK /\ TypeOK' /\ Disciplined(u) /\ Decided(u)
      /\ kind' = kind /\ life' \in {life, life + 1}
  BY OneProgramMoves, ClientsType DEF ClientsInv
<1>1. life \in Nat /\ attempt[u] \in Nat /\ attempt'[u] \in Nat
      /\ \A n \in Attempts : served[u][n] # None => served[u][n].life \in Nat
  BY <1>0, ClientsAssumption DEF TypeOK, Service
<1>2. ASSUME served'[u] = served[u], attempt[u] <= attempt'[u], arguments'[u] = arguments[u]
      PROVE  Decided(u)'
  <2> SUFFICES ASSUME NEW n \in Attempts, served'[u][n] # None
               PROVE  /\ n <= attempt'[u]
                      /\ served'[u][n].decision \in Outlook(u, served[u][n].registry)'
                      /\ served'[u][n].life <= life'
    BY DEF Decided
  <2>1. served'[u][n] = served[u][n]
    BY <1>2
  <2>2. /\ n <= attempt[u] /\ served[u][n].life <= life
        /\ served[u][n].decision \in Outlook(u, served[u][n].registry)
    BY <1>0, <2>1 DEF Decided
  <2>3. served'[u][n].decision \in Outlook(u, served[u][n].registry)'
    BY <1>0, <1>2, <2>1, <2>2 DEF Outlook, Envelope
  <2>4. n \in Nat
    BY ClientsAssumption DEF Attempts
  <2>5. QED
    BY <1>0, <1>1, <1>2, <2>1, <2>2, <2>3, <2>4
<1> USE DEF broker, wire
<1>3. ASSUME NEW a \in ArgumentsOf(kind, u), Build(u, a) PROVE Decided(u)'
  <2>1. attempt[u] = 0 /\ served' = served
    BY <1>0, <1>3 DEF Build, Disciplined
  <2>2. \A n \in Attempts : served[u][n] = None
    BY <1>0, <2>1 DEF Decided, Attempts
  <2>3. QED
    BY <2>1, <2>2 DEF Decided
<1>4. CASE Submit(u)
  BY <1>0, <1>1, <1>2, <1>4 DEF Submit, TypeOK
<1>5. CASE Receive(u)
  BY <1>0, <1>1, <1>2, <1>5 DEF Receive, TypeOK
<1>6. CASE Fail(u)
  BY <1>0, <1>1, <1>2, <1>6 DEF Fail, TypeOK
<1>7. CASE TranslateIntent(u)
  <2>1. 1 \in Attempts /\ attempt[u] = 0
    BY <1>7, TranslateDecides
  <2>2. PICK d \in Outlook(u, registry) : d \in Decision /\ Handled(u, 1, d)
    BY <1>7, TranslateDecides
  <2>3. attempt'[u] = 1 /\ arguments' = arguments
    BY <1>0, <1>7 DEF TranslateIntent, TypeOK
  <2>4. QED
    BY <1>0, <1>1, <2>1, <2>2, <2>3, DecidedNow
<1>8. ASSUME NEW n \in Attempts, Serve(u, n) PROVE Decided(u)'
  <2>1. n <= attempt[u]
    BY <1>8, ServeDecides
  <2>2. PICK d \in Outlook(u, registry) : d \in Decision /\ Handled(u, n, d)
    BY <1>8, ServeDecides
  <2>3. attempt' = attempt /\ arguments' = arguments
    BY <1>8 DEF Serve
  <2>4. QED
    BY <1>0, <1>1, <2>1, <2>2, <2>3, DecidedNow
<1>9. CASE Rests(u)
  BY <1>1, <1>2, <1>9 DEF Rests
<1>10. QED
  BY <1>3, <1>4, <1>5, <1>6, <1>7, <1>8, <1>9, OneProgramMoves DEF Moves

LEMMA ToldNext ==
  ASSUME ClientsInv, [Next]_vars, NEW u \in Callers
  PROVE  Told(u)'
<1>0. TypeOK /\ Disciplined(u) /\ Told(u) /\ Wired /\ kind' = kind
  BY OneProgramMoves DEF ClientsInv
<1>1. ASSUME result'[u] = result[u], result[u] # None => attempt'[u] = attempt[u],
             result[u] # None => served'[u][attempt[u]] = served[u][attempt[u]]
      PROVE  Told(u)'
  BY <1>0, <1>1 DEF Told, Received
<1> USE DEF broker, wire
<1>2. ASSUME NEW a \in ArgumentsOf(kind, u), Build(u, a) PROVE Told(u)'
  BY <1>1, <1>2 DEF Build
<1>3. CASE Submit(u)
  BY <1>0, <1>1, <1>3 DEF Submit, Disciplined
<1>4. CASE Receive(u)
  <2>1. PICK answer \in responses :
          /\ answer[1] = <<u, attempt[u]>>
          /\ result' = [result EXCEPT ![u] = Received(u, answer[2])]
    BY <1>4 DEF Receive
  <2>2. /\ served[u][attempt[u]] # None
        /\ answer[2] = Respond(u, attempt[u], served[u][attempt[u]].decision)
    BY <1>0, <2>1 DEF Wired, Awaited
  <2>3. /\ result'[u] = Received(u, answer[2])
        /\ attempt' = attempt /\ served' = served
    BY <1>0, <1>4, <2>1 DEF TypeOK, Receive
  <2>4. QED
    BY <1>0, <2>2, <2>3
       DEF Told, Received
<1>5. CASE Fail(u)
  BY <1>1, <1>5 DEF Fail
<1>6. CASE TranslateIntent(u)
  <2>1. PICK d \in Decision :
          /\ Handled(u, 1, d)
          /\ result' = [result EXCEPT ![u] = [raised |-> FALSE, response |-> Respond(u, 1, d)]]
    BY <1>6, TranslateDecides
  <2>2. 1 \in Attempts
    BY <1>6, TranslateDecides
  <2>3. served'[u][1] # None /\ served'[u][1].decision = d
    BY <1>0, <2>1, <2>2, HandledType
  <2>4. result'[u] = [raised |-> FALSE, response |-> Respond(u, 1, d)] /\ attempt'[u] = 1
        /\ kind[u] # "python"
    BY <1>0, <1>6, <2>1 DEF TypeOK, TranslateIntent
  <2>5. Received(u, Respond(u, 1, d))' = [raised |-> FALSE, response |-> Respond(u, 1, d)]
    BY <1>0, <2>4 DEF Received, GoReceived
  <2>6. QED
    BY <2>3, <2>4, <2>5 DEF Told, Received
<1>7. ASSUME NEW n \in Attempts, Serve(u, n) PROVE Told(u)'
  <2>1. served[u][n] = None
    BY <1>7, ServeDecides
  <2>2. PICK d \in Decision : Handled(u, n, d)
    BY <1>7, ServeDecides
  <2>3. result' = result /\ attempt' = attempt
    BY <1>7 DEF Serve
  <2>4. ASSUME result[u] # None PROVE served'[u][attempt[u]] = served[u][attempt[u]]
    <3>1. attempt[u] # n
      BY <1>0, <2>1, <2>4 DEF Told
    <3>2. attempt[u] \in Attempts
      BY <1>0, <2>4, ClientsAssumption DEF Disciplined, TypeOK, Attempts
    <3>3. QED
      BY <1>0, <2>2, <3>1, <3>2, HandledType
  <2>5. QED
    BY <1>1, <2>3, <2>4
<1>8. CASE Rests(u)
  BY <1>1, <1>8 DEF Rests
<1>9. QED
  BY <1>2, <1>3, <1>4, <1>5, <1>6, <1>7, <1>8, OneProgramMoves DEF Moves

--------------------------------------------------------------------------------
(* The wire and the audit log.                                              *)

LEMMA WiredNext == ClientsInv /\ [Next]_vars => Wired'
<1> SUFFICES ASSUME ClientsInv, [Next]_vars PROVE Wired'
  OBVIOUS
<1> USE DEF broker, wire
<1>0. /\ TypeOK /\ Wired
      /\ requests \subseteq Callers \X Attempts
      /\ responses \subseteq (Callers \X Attempts) \X Response
      /\ \A c \in Callers : Disciplined(c) /\ Decided(c) /\ attempt[c] \in Nat
  BY ClientsAssumption DEF ClientsInv, TypeOK
<1>00. \A n \in Attempts : n \in Nat
  BY ClientsAssumption DEF Attempts
\* Attempts of other programs than c stay as they are.
<1>1. ASSUME NEW c \in Callers, kind' = kind,
             \A u \in Callers : u # c => /\ phase'[u] = phase[u] /\ attempt'[u] = attempt[u]
                                         /\ served'[u] = served[u]
      PROVE  /\ \A m \in requests : m[1] # c => Pending(m)'
             /\ \A r \in responses : r[1][1] # c => Awaited(r)'
  <2>1. ASSUME NEW m \in requests, m[1] # c PROVE Pending(m)'
    BY <1>0, <1>1, <2>1 DEF Wired, Pending
  <2>2. ASSUME NEW r \in responses, r[1][1] # c PROVE Awaited(r)'
    BY <1>0, <1>1, <2>2 DEF Wired, Awaited
  <2>3. QED
    BY <2>1, <2>2
<1>2. ASSUME NEW c \in Callers, NEW a \in ArgumentsOf(kind, c), Build(c, a) PROVE Wired'
  <2>1. /\ phase[c] = "idle" /\ \A u \in Callers : u # c => phase'[u] = phase[u]
        /\ UNCHANGED <<kind, attempt, requests, responses, served>>
    BY <1>0, <1>2 DEF Build, TypeOK
  <2>2. \A m \in requests : Pending(m)'
    BY <1>0, <2>1 DEF Wired, Pending
  <2>3. \A r \in responses : Awaited(r)'
    BY <1>0, <2>1 DEF Wired, Awaited
  <2>4. QED
    BY <2>1, <2>2, <2>3 DEF Wired
<1>3. ASSUME NEW c \in Callers, Submit(c) PROVE Wired'
  <2>1. /\ phase[c] \in {"built", "failed"} /\ kind[c] # "embedded"
        /\ attempt'[c] = attempt[c] + 1 /\ attempt[c] + 1 \in Attempts
        /\ \A u \in Callers : u # c => phase'[u] = phase[u] /\ attempt'[u] = attempt[u]
        /\ requests' = requests \cup {<<c, attempt[c] + 1>>}
        /\ UNCHANGED <<kind, responses, served>>
    BY <1>0, <1>3, ClientsAssumption DEF Submit, TypeOK, Attempts
  <2>2. ASSUME NEW m \in requests, m[1] = c PROVE Pending(m)'
    BY <1>0, <1>00, <2>1, <2>2 DEF Wired, Pending
  <2>3. ASSUME NEW n \in Attempts, n = attempt[c] + 1 PROVE Pending(<<c, n>>)'
    <3>1. served[c][n] = None
      BY <1>0, <2>1, <2>3 DEF Decided
    <3>2. QED
      BY <1>0, <2>1, <2>3, <3>1 DEF Pending
  <2>4. \A r \in responses : r[1][1] # c
    BY <1>0, <2>1 DEF Wired, Awaited
  <2>5. QED
    BY <1>1, <2>1, <2>2, <2>3, <2>4 DEF Wired
<1>4. ASSUME NEW c \in Callers, Receive(c) PROVE Wired'
  <2>1. PICK answer \in responses :
          answer[1] = <<c, attempt[c]>> /\ responses' = responses \ {answer}
    BY <1>4 DEF Receive
  <2>2. /\ \A u \in Callers : u # c => phase'[u] = phase[u]
        /\ UNCHANGED <<kind, attempt, requests, served>>
    BY <1>0, <1>4 DEF Receive, TypeOK
  <2>3. ASSUME NEW r \in responses, r[1][1] = c PROVE r = answer
    <3>1. r[1] = <<c, attempt[c]>>
      BY <1>0, <2>3 DEF Wired, Awaited
    <3>2. r[2] = answer[2]
      BY <1>0, <2>1, <2>3, <3>1 DEF Wired, Awaited
    <3>3. r = <<r[1], r[2]>> /\ answer = <<answer[1], answer[2]>>
      BY <1>0
    <3>4. QED
      BY <2>1, <3>1, <3>2, <3>3
  <2>4. \A m \in requests : Pending(m)'
    BY <1>0, <2>2 DEF Wired, Pending
  <2>5. QED
    BY <1>1, <2>1, <2>2, <2>3, <2>4 DEF Wired
<1>5. ASSUME NEW c \in Callers, Fail(c) PROVE Wired'
  <2>1. /\ \A u \in Callers : u # c => phase'[u] = phase[u]
        /\ requests' \subseteq requests
        /\ responses' = {answer \in responses : answer[1] # <<c, attempt[c]>>}
        /\ UNCHANGED <<kind, attempt, served>>
    BY <1>0, <1>5 DEF Fail, TypeOK
  <2>2. ASSUME NEW r \in responses, r[1][1] = c PROVE r[1] = <<c, attempt[c]>>
    BY <1>0, <2>2 DEF Wired, Awaited
  <2>3. \A m \in requests : Pending(m)'
    BY <1>0, <2>1 DEF Wired, Pending
  <2>4. QED
    BY <1>1, <2>1, <2>2, <2>3 DEF Wired
<1>6. ASSUME NEW c \in Callers, TranslateIntent(c) PROVE Wired'
  <2>1. PICK d \in Decision : Handled(c, 1, d) /\ 1 \in Attempts
    BY <1>6, TranslateDecides
  <2>2. \A u \in Callers : u # c => served'[u] = served[u]
    BY <1>0, <2>1, HandledType
  <2>3. /\ phase[c] = "built" /\ kind[c] = "embedded"
        /\ \A u \in Callers : u # c => phase'[u] = phase[u] /\ attempt'[u] = attempt[u]
        /\ UNCHANGED <<kind, requests, responses>>
    BY <1>0, <1>6 DEF TranslateIntent, TypeOK
  <2>4. \A m \in requests : m[1] # c
    BY <1>0, <2>3 DEF Wired, Pending
  <2>5. \A r \in responses : r[1][1] # c
    BY <1>0, <2>3 DEF Wired, Awaited
  <2>6. QED
    BY <1>1, <2>2, <2>3, <2>4, <2>5 DEF Wired
<1>7. ASSUME NEW c \in Callers, NEW n \in Attempts, Serve(c, n) PROVE Wired'
  <2>1. served[c][n] = None
    BY <1>7, ServeDecides
  <2>2. PICK d \in Decision :
          /\ Handled(c, n, d)
          /\ responses' = IF phase[c] = "waiting" /\ attempt[c] = n
                            THEN responses \cup {<<<<c, n>>, Respond(c, n, d)>>} ELSE responses
    BY <1>7, ServeDecides
  <2>3. /\ served'[c][n] # None /\ served'[c][n].decision = d
        /\ \A u \in Callers, m \in Attempts : u # c \/ m # n => served'[u][m] = served[u][m]
    BY <1>0, <2>2, HandledType
  <2>4. /\ requests' = requests \ {<<c, n>>}
        /\ UNCHANGED <<kind, phase, attempt>>
    BY <1>7 DEF Serve
  <2>5. ASSUME NEW m \in requests' PROVE Pending(m)'
    <3>1. m \in requests /\ m = <<m[1], m[2]>> /\ m[1] \in Callers /\ m[2] \in Attempts
      BY <1>0, <2>4
    <3>2. m[1] # c \/ m[2] # n
      BY <2>4, <3>1
    <3>3. served'[m[1]][m[2]] = served[m[1]][m[2]]
      BY <2>3, <3>1, <3>2
    <3>4. QED
      BY <1>0, <2>4, <3>1, <3>3 DEF Wired, Pending
  <2>6. ASSUME NEW r \in responses PROVE Awaited(r)'
    <3>1. r[1][1] \in Callers /\ r[1][2] \in Attempts
      BY <1>0
    <3>2. r[1][1] # c \/ r[1][2] # n
      BY <1>0, <2>1 DEF Wired, Awaited
    <3>3. served'[r[1][1]][r[1][2]] = served[r[1][1]][r[1][2]]
      BY <2>3, <3>1, <3>2
    <3>4. QED
      BY <1>0, <2>4, <3>1, <3>3 DEF Wired, Awaited
  <2>7. ASSUME phase[c] = "waiting" /\ attempt[c] = n
        PROVE  Awaited(<<<<c, n>>, Respond(c, n, d)>>)'
    BY <2>3, <2>4, <2>7 DEF Awaited
  <2>8. QED
    BY <2>2, <2>5, <2>6, <2>7 DEF Wired
<1>8. ASSUME UNCHANGED <<kind, phase, attempt, requests, responses, served>> PROVE Wired'
  BY <1>0, <1>8 DEF Wired, Pending, Awaited
<1>9. ASSUME NEW cap \in Descriptors, Register(cap) PROVE Wired'
  BY <1>8, <1>9 DEF Register
<1>10. ASSUME NEW i \in DOMAIN registry, Unregister(i) PROVE Wired'
  BY <1>8, <1>10 DEF Unregister
<1>11. CASE Restart
  BY <1>11 DEF Restart, Wired
<1>12. CASE UNCHANGED vars
  BY <1>8, <1>12 DEF vars
<1>13. QED
  BY <1>2, <1>3, <1>4, <1>5, <1>6, <1>7, <1>9, <1>10, <1>11, <1>12 DEF Next

\* A decision goes on record together with its being made.
LEMMA HandledLogged ==
  ASSUME TypeOK, Logged, NEW c \in Callers, NEW n \in Attempts, NEW d \in Decision,
         served[c][n] = None, Handled(c, n, d)
  PROVE  Logged'
<1> DEFINE entry == Record(c, n, d)
<1>1. /\ served'[c][n] # None /\ served'[c][n].decision = d /\ served'[c][n].life = life
      /\ \A u \in Callers, m \in Attempts : u # c \/ m # n => served'[u][m] = served[u][m]
      /\ life' = life
  BY HandledType DEF Handled
<1>2. auditLog \in Seq(AuditRecord) /\ Len(auditLog) \in Nat
      /\ \A i \in DOMAIN auditLog :
           auditLog[i].caller \in Callers /\ auditLog[i].attempt \in Attempts
  <2>1. \A r \in AuditRecord : r.caller \in Callers /\ r.attempt \in Attempts
    BY DEF AuditRecord
  <2>2. QED
    BY <2>1 DEF TypeOK
<1>3. \A i \in DOMAIN auditLog : auditLog[i].caller # c \/ auditLog[i].attempt # n
  BY DEF Logged
<1>4. CASE d.action = "malformed"
  <2>1. auditLog' = auditLog
    BY <1>4 DEF Handled
  <2>2. \A u \in Callers, m \in Attempts :
          served'[u][m] # None /\ served'[u][m].life = life
            /\ served'[u][m].decision.action # "malformed"
          => \E i \in DOMAIN auditLog : auditLog[i] = Record(u, m, served'[u][m].decision)
    BY <1>1, <1>4 DEF Logged
  <2>3. \A i \in DOMAIN auditLog : served'[auditLog[i].caller][auditLog[i].attempt] # None
    BY <1>1, <1>2, <1>3 DEF Logged
  <2>4. QED
    BY <1>1, <2>1, <2>2, <2>3 DEF Logged
<1>5. CASE d.action # "malformed"
  <2>1. auditLog' = Append(auditLog, entry)
    BY <1>5 DEF Handled
  <2>2. entry.caller = c /\ entry.attempt = n
    BY DEF Record
  <2> HIDE DEF entry
  <2>3. /\ DOMAIN auditLog' = 1..(Len(auditLog) + 1)
        /\ auditLog'[Len(auditLog) + 1] = entry
        /\ \A i \in DOMAIN auditLog : auditLog'[i] = auditLog[i] /\ i \in DOMAIN auditLog'
        /\ \A i \in DOMAIN auditLog' : i \in DOMAIN auditLog \/ i = Len(auditLog) + 1
    BY <1>2, <2>1
  <2>4. ASSUME NEW u \in Callers, NEW m \in Attempts, served'[u][m] # None,
               served'[u][m].life = life, served'[u][m].decision.action # "malformed"
        PROVE  \E i \in DOMAIN auditLog' : auditLog'[i] = Record(u, m, served'[u][m].decision)
    <3>1. CASE u = c /\ m = n
      <4>1. entry = Record(u, m, served'[u][m].decision)
        BY <1>1, <3>1 DEF entry
      <4>2. Len(auditLog) + 1 \in DOMAIN auditLog'
        BY <1>2, <2>3
      <4>3. QED
        BY <2>3, <4>1, <4>2
    <3>2. CASE u # c \/ m # n
      <4>1. served'[u][m] = served[u][m]
        BY <1>1, <3>2
      <4>2. PICK i \in DOMAIN auditLog : auditLog[i] = Record(u, m, served[u][m].decision)
        BY <2>4, <4>1 DEF Logged
      <4>3. QED
        BY <2>3, <4>1, <4>2
    <3>3. QED
      BY <3>1, <3>2
  <2>5. \A i \in DOMAIN auditLog' : served'[auditLog'[i].caller][auditLog'[i].attempt] # None
    <3>1. \A i \in DOMAIN auditLog : served'[auditLog[i].caller][auditLog[i].attempt] # None
      BY <1>1, <1>2, <1>3 DEF Logged
    <3>2. QED
      BY <1>1, <2>2, <2>3, <3>1
  <2>6. ASSUME NEW i \in DOMAIN auditLog', NEW j \in DOMAIN auditLog',
               auditLog'[i].caller = auditLog'[j].caller,
               auditLog'[i].attempt = auditLog'[j].attempt
        PROVE  i = j
    BY <1>3, <2>2, <2>3, <2>6 DEF Logged
  <2>7. QED
    BY <1>1, <2>4, <2>5, <2>6 DEF Logged
<1>6. QED
  BY <1>4, <1>5

LEMMA LoggedNext == ClientsInv /\ [Next]_vars => Logged'
<1> SUFFICES ASSUME ClientsInv, [Next]_vars PROVE Logged'
  OBVIOUS
<1> USE DEF broker, wire
<1>0. TypeOK /\ Logged /\ \A c \in Callers : Decided(c)
  BY DEF ClientsInv
<1>1. ASSUME UNCHANGED <<auditLog, served, life>> PROVE Logged'
  BY <1>0, <1>1 DEF Logged
<1>2. ASSUME NEW c \in Callers, TranslateIntent(c) PROVE Logged'
  <2>1. 1 \in Attempts /\ attempt[c] = 0
    BY <1>2, TranslateDecides
  <2>2. PICK d \in Decision : Handled(c, 1, d)
    BY <1>2, TranslateDecides
  <2>3. served[c][1] = None
    BY <1>0, <2>1 DEF Decided
  <2>4. QED
    BY <1>0, <2>1, <2>2, <2>3, HandledLogged
<1>3. ASSUME NEW c \in Callers, NEW n \in Attempts, Serve(c, n) PROVE Logged'
  <2>1. PICK d \in Decision : Handled(c, n, d)
    BY <1>3, ServeDecides
  <2>2. served[c][n] = None
    BY <1>3, ServeDecides
  <2>3. QED
    BY <1>0, <2>1, <2>2, HandledLogged
<1>4. CASE Restart
  <2>1. life' = life + 1 /\ auditLog' = <<>> /\ served' = served /\ life \in Nat
    BY <1>0, <1>4, ClientsAssumption DEF Restart, TypeOK
  <2>2. ASSUME NEW c \in Callers, NEW n \in Attempts, served[c][n] # None
        PROVE  served[c][n].life # life'
    <3>1. served[c][n].life <= life /\ served[c][n].life \in Nat
      BY <1>0, <2>2, ClientsAssumption DEF Decided, TypeOK, Service
    <3>2. QED
      BY <2>1, <3>1
  <2>3. QED
    BY <2>1, <2>2 DEF Logged
<1>5. ASSUME NEW c \in Callers, NEW a \in ArgumentsOf(kind, c), Build(c, a) PROVE Logged'
  BY <1>1, <1>5 DEF Build
<1>6. ASSUME NEW c \in Callers, Submit(c) \/ Receive(c) \/ Fail(c) PROVE Logged'
  BY <1>1, <1>6 DEF Submit, Receive, Fail
<1>7. ASSUME NEW cap \in Descriptors, Register(cap) PROVE Logged'
  BY <1>1, <1>7 DEF Register
<1>8. ASSUME NEW i \in DOMAIN registry, Unregister(i) PROVE Logged'
  BY <1>1, <1>8 DEF Unregister
<1>9. CASE UNCHANGED vars
  BY <1>1, <1>9 DEF vars
<1>10. QED
  BY <1>2, <1>3, <1>4, <1>5, <1>6, <1>7, <1>8, <1>9 DEF Next

LEMMA ClientsInvHolds == Spec => []ClientsInv
<1>1. ClientsInv /\ [Next]_vars => ClientsInv'
  BY ClientsType, DisciplinedNext, DecidedNext, ToldNext, WiredNext, LoggedNext DEF ClientsInv
<1>2. QED
  BY <1>1, InitClients, PTL DEF Spec

\* Programs, broker and wire stay within their types: every answer is a response, every
\* payload carries known fields over a known binding, nothing arrives that is no attempt.
THEOREM ClientsTypeCorrect == Spec => []TypeOK
<1>1. ClientsInv => TypeOK
  BY DEF ClientsInv
<1>2. QED
  BY <1>1, ClientsInvHolds, PTL

================================================================================
