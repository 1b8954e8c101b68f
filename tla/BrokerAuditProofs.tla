---------------------------- MODULE BrokerAuditProofs ----------------------------
(***************************************************************************)
(* Every answer is on record, exactly once and truthfully; and what a       *)
(* gateway asserted about a caller is what the caller was judged by.  So    *)
(* the pipeline implements the gate of IntentGate: proved for every          *)
(* instance of the broker.                                                 *)
(*                                                                         *)
(* The audit log and the answers are appended to by different steps of      *)
(* threads that take no lock.  What ties a record to an answer is the       *)
(* ticket of the call, so the invariant says who may hold a ticket, in which *)
(* stages it is not yet in the log, and what a record that is on its way to  *)
(* the log has in common with the answer that will follow it.               *)
(***************************************************************************)
EXTENDS BrokerPipelineProofs

--------------------------------------------------------------------------------
\* The response that Respond sends for worker w.
Reply(w) ==
  [arrival |-> arrival[w], envelope |-> envelope[w],
   status |-> StatusCode(audit[w]), plan |-> plan[w]]

\* Envelope e speaks for the caller whom the gateway's headers h name.
Asserted(e, h) ==
  TrustedHeaders =>
    /\ h.id # None => e.actor.id = h.id
    /\ h.trust # None => e.actor.trust = h.trust
    /\ h.scopes \notin {None, {}} => e.actor.scopes = h.scopes

\* What a call has in hand by the time it has reached its stage.
Grounded(w) ==
  /\ stage[w] = "idle" => envelope[w] = None
  /\ stage[w] \in {"idle", "received", "validated"} => negotiation[w] = None
  /\ stage[w] # "idle" => Asserted(envelope[w], arrival[w].headers)
  /\ negotiation[w] # None => negotiation[w].selected \in Descriptors \cup {None}
  /\ plan[w] # None => negotiation[w] # None /\ plan[w].cap = negotiation[w].selected
  /\ stage[w] \in {"finished", "logged"} =>
       /\ audit[w].ticket = arrival[w].ticket
       /\ audit[w].actor = envelope[w].actor.id
       /\ audit[w].approvalState = "pending" => audit[w].action \in GrantingActions
       /\ Tells(audit[w], Reply(w))

\* A ticket belongs to one call, and is in the log from the moment the call is logged.
Ledger ==
  /\ \A w \in Workers : stage[w] # "idle" => arrival[w].ticket \in 1..arrivals
  /\ \A u, w \in Workers :
       stage[u] # "idle" /\ stage[w] # "idle" /\ arrival[u].ticket = arrival[w].ticket => u = w
  /\ \A i \in DOMAIN auditLog : auditLog[i].ticket \in 1..arrivals
  /\ \A i, j \in DOMAIN auditLog : auditLog[i].ticket = auditLog[j].ticket => i = j
  /\ \A w \in Workers : stage[w] \notin {"idle", "logged"} =>
       \A i \in DOMAIN auditLog : auditLog[i].ticket # arrival[w].ticket
  /\ \A w \in Workers : stage[w] = "logged" => \E i \in DOMAIN auditLog : auditLog[i] = audit[w]

Recorded(answer) ==
  \E i \in DOMAIN auditLog :
    /\ auditLog[i].ticket = answer.arrival.ticket
    /\ auditLog[i].actor = answer.envelope.actor.id
    /\ Tells(auditLog[i], answer)

AnswersOnRecord ==
  \A k \in DOMAIN answers :
    /\ Recorded(answers[k])
    /\ Asserted(answers[k].envelope, answers[k].arrival.headers)

AuditInv ==
  /\ IInv
  /\ \A w \in Workers : Grounded(w)
  /\ Ledger
  /\ AnswersOnRecord

--------------------------------------------------------------------------------
(* What the stages hand on.                                                 *)

\* Worker u's call is not touched.
Rests(u) ==
  /\ stage'[u] = stage[u] /\ arrival'[u] = arrival[u] /\ envelope'[u] = envelope[u]
  /\ negotiation'[u] = negotiation[u] /\ decision'[u] = decision[u]
  /\ plan'[u] = plan[u] /\ audit'[u] = audit[u]

\* A step is a stage of one call; every other call rests.
LEMMA OneCallMoves ==
  ASSUME TypeOK, [Next]_vars, NEW u \in Workers
  PROVE  \/ \E body \in Bodies, h \in Headers : Receive(u, body, h)
         \/ Step(u)
         \/ Rests(u)
<1> USE DEF TypeOK, Rests, environment
<1>1. ASSUME NEW cap \in Descriptors, Register(cap) PROVE Rests(u)
  BY <1>1 DEF Register
<1>2. ASSUME NEW i \in DOMAIN registry, Unregister(i) PROVE Rests(u)
  BY <1>2 DEF Unregister
<1>3. CASE Tick
  BY <1>3 DEF Tick
<1>4. ASSUME NEW w \in Workers, w # u, NEW body \in Bodies, NEW h \in Headers,
             Receive(w, body, h)
      PROVE  Rests(u)
  BY <1>4 DEF Receive
<1>5. ASSUME NEW w \in Workers, w # u, Step(w) PROVE Rests(u)
  <2>1. CASE Validate(w)
    BY <1>5, <2>1 DEF Validate, Finish
  <2>2. CASE Match(w)
    <3>1. PICK result \in Negotiations(envelope[w], registry) :
            negotiation' = [negotiation EXCEPT ![w] = result]
      BY <2>2 DEF Match
    <3>2. \/ stage' = [stage EXCEPT ![w] = "matched"] /\ UNCHANGED audit
          \/ Finish(w, "clarification_requested", None, None)
      BY <2>2 DEF Match
    <3>3. UNCHANGED <<arrival, envelope, decision, plan>>
      BY <2>2 DEF Match
    <3>4. QED
      BY <1>5, <3>1, <3>2, <3>3 DEF Finish
  <2>3. CASE Judge(w)
    <3>1. \/ stage' = [stage EXCEPT ![w] = "allowed"] /\ UNCHANGED audit
          \/ Finish(w, "policy_denied", negotiation[w].selected.id, negotiation[w].binding)
      BY <2>3 DEF Judge
    <3>2. decision' = [decision EXCEPT ![w] =
                         Evaluate(envelope[w], negotiation[w].selected, EnforceApproval)]
      BY <2>3 DEF Judge
    <3>3. UNCHANGED <<arrival, envelope, negotiation, plan>>
      BY <2>3 DEF Judge
    <3>4. QED
      BY <1>5, <3>1, <3>2, <3>3 DEF Finish
  <2>4. CASE Plan(w)
    BY <1>5, <2>4 DEF Plan, Finish
  <2>5. CASE AppendAudit(w)
    BY <1>5, <2>5 DEF AppendAudit
  <2>6. CASE Respond(w)
    BY <1>5, <2>6 DEF Respond
  <2>7. QED
    BY <1>5, <2>1, <2>2, <2>3, <2>4, <2>5, <2>6 DEF Step
<1>6. CASE UNCHANGED vars
  BY <1>6 DEF vars
<1>7. QED
  BY <1>1, <1>2, <1>3, <1>4, <1>5, <1>6 DEF Next

\* The mapping puts every header the gateway sent into the envelope.
LEMMA IdentifiedAsserted ==
  ASSUME NEW body \in Bodies, NEW h \in Headers
  PROVE  Asserted(Identified(body, h), h)
<1>1. body \in IntentEnvelope
  BY BrokerAssumption
<1>2. Identified(body, h).actor = MapIdentity(body.actor, h)
  BY <1>1 DEF Identified, IntentEnvelope
<1>3. QED
  BY <1>2 DEF Asserted, MapIdentity

\* A capability that matching selects is one of the registry.
LEMMA SelectedIsRegistered ==
  ASSUME NEW e \in IntentEnvelope, NEW reg \in Registries, NEW res \in Negotiations(e, reg)
  PROVE  res.selected \in Descriptors \cup {None}
<1>1. reg \in Seq(Descriptors) /\ Descriptors \subseteq CapabilityDescriptor
  BY BrokerAssumption DEF Registries
<1>2. CASE res.selected # None
  <2>1. PICK c \in Scored(e, reg) : res.selected = c.cap
    BY <1>1, <1>2, SelectionOrigin
  <2>2. c.place \in DOMAIN reg /\ c.cap = reg[c.place]
    BY <1>1, ScoredOrigin
  <2>3. QED
    BY <1>1, <2>1, <2>2
<1>3. QED
  BY <1>2

\* What a record made for an action says, and the status it leads to.
LEMMA RecordOfAction ==
  ASSUME NEW w \in Workers, NEW action \in Actions, NEW cap, NEW binding
  PROVE  LET r == MakeAudit(w, action, cap, binding)
         IN  /\ r.ticket = arrival[w].ticket /\ r.actor = envelope[w].actor.id
             /\ r.action = action /\ r.capability = cap /\ r.binding = binding
             /\ r.approvalState = "pending" <=> action = "approval_requested"
             /\ StatusCode(r) = 202 <=> action = "approval_requested"
             /\ StatusCode(r) = 403 <=> action = "policy_denied"
             /\ StatusCode(r) = 400 <=> action = "validation_failed"
<1>1. action \in {"validation_failed", "clarification_requested", "policy_denied",
                  "plan_rejected", "approval_requested", "plan_created"}
  BY DEF Actions, Outcomes
<1> DEFINE r == MakeAudit(w, action, cap, binding)
<1>2. /\ r.ticket = arrival[w].ticket /\ r.actor = envelope[w].actor.id
      /\ r.action = action /\ r.capability = cap /\ r.binding = binding
      /\ r.approvalState = "pending" <=> action = "approval_requested"
      /\ r.outcome = Outcomes[action]
      /\ r.policyAllowed = (action \notin {"validation_failed", "policy_denied"})
  BY DEF MakeAudit
<1> HIDE DEF r
<1>3. StatusCode(r) = (IF action = "validation_failed" THEN 400
                       ELSE IF action = "policy_denied" THEN 403
                       ELSE IF action = "approval_requested" THEN 202 ELSE 200)
  <2>1. /\ Outcomes[action] = "denied" <=> action = "policy_denied"
        /\ Outcomes[action] = "pending_approval" <=> action = "approval_requested"
    BY <1>1 DEF Outcomes
  <2>2. /\ r.outcome = "denied" <=> action = "policy_denied"
        /\ r.outcome = "pending_approval" <=> action = "approval_requested"
        /\ ~r.policyAllowed <=> action \in {"validation_failed", "policy_denied"}
    BY <1>2, <2>1
  <2>3. QED
    BY <1>2, <2>2 DEF StatusCode
<1>4. QED
  BY <1>2, <1>3 DEF r

\* A call that finishes with a plan exactly if its action grants one has a record
\* that agrees with the reply to come.
LEMMA FinishTells ==
  ASSUME TypeOK, NEW w \in Workers, NEW action \in Actions, NEW cap, NEW binding,
         Finish(w, action, cap, binding), UNCHANGED <<arrival, envelope>>,
         action \in GrantingActions <=> plan'[w] # None,
         plan'[w] # None => cap = plan'[w].cap.id /\ binding = plan'[w].binding
  PROVE  /\ stage'[w] = "finished"
         /\ audit'[w].ticket = arrival'[w].ticket
         /\ audit'[w].actor = envelope'[w].actor.id
         /\ audit'[w].approvalState = "pending" => audit'[w].action \in GrantingActions
         /\ Tells(audit'[w], Reply(w)')
<1> DEFINE r == MakeAudit(w, action, cap, binding)
<1>1. stage'[w] = "finished" /\ audit'[w] = r
  BY DEF Finish, TypeOK
<1>2. /\ r.ticket = arrival[w].ticket /\ r.actor = envelope[w].actor.id
      /\ r.action = action /\ r.capability = cap /\ r.binding = binding
      /\ r.approvalState = "pending" <=> action = "approval_requested"
      /\ StatusCode(r) = 202 <=> action = "approval_requested"
      /\ StatusCode(r) = 403 <=> action = "policy_denied"
      /\ StatusCode(r) = 400 <=> action = "validation_failed"
  BY RecordOfAction
<1> HIDE DEF r
<1>3. Reply(w)'.plan = plan'[w] /\ Reply(w)'.status = StatusCode(r)
  BY <1>1 DEF Reply
<1>4. QED
  BY <1>1, <1>2, <1>3 DEF Tells, GrantingActions

\* Whoever moves, every call keeps in hand what its stage needs.
LEMMA GroundedNext ==
  ASSUME AuditInv, [Next]_vars, NEW u \in Workers
  PROVE  Grounded(u)'
<1> TypeOK /\ StageCoherent /\ Grounded(u)
  BY DEF AuditInv, IInv
<1>1. TypeOK' /\ StageCoherent'
  BY NextType
<1>2. CASE Rests(u)
  BY <1>2 DEF Rests, Grounded, Reply
<1>3. ASSUME NEW body \in Bodies, NEW h \in Headers, Receive(u, body, h)
      PROVE  Grounded(u)'
  <2>1. /\ stage'[u] = "received" /\ envelope'[u] = Identified(body, h)
        /\ arrival'[u].headers = h
        /\ negotiation'[u] = None /\ plan'[u] = None
    BY <1>3 DEF Receive, TypeOK, StageCoherent, Grounded
  <2>2. Asserted(envelope'[u], arrival'[u].headers)
    BY <2>1, IdentifiedAsserted
  <2>3. QED
    BY <2>1, <2>2 DEF Grounded, Asserted
<1>4. CASE Validate(u)
  <2>1. /\ UNCHANGED <<arrival, envelope, negotiation, plan>>
        /\ stage[u] = "received" /\ plan[u] = None /\ negotiation[u] = None
    BY <1>4 DEF Validate, StageCoherent, Grounded
  <2>2. CASE stage'[u] = "validated"
    BY <2>1, <2>2 DEF Grounded
  <2>3. CASE Finish(u, "validation_failed", None, None)
    <3>1. /\ stage'[u] = "finished"
          /\ audit'[u].ticket = arrival'[u].ticket
          /\ audit'[u].actor = envelope'[u].actor.id
          /\ audit'[u].approvalState = "pending" => audit'[u].action \in GrantingActions
          /\ Tells(audit'[u], Reply(u)')
      BY <2>1, <2>3, FinishTells DEF Actions, Outcomes, GrantingActions
    <3>2. QED
      BY <2>1, <3>1 DEF Grounded
  <2>4. QED
    BY <1>4, <2>2, <2>3 DEF Validate, TypeOK
<1>5. CASE Match(u)
  <2>1. /\ UNCHANGED <<arrival, envelope, plan>>
        /\ stage[u] = "validated" /\ plan[u] = None
    BY <1>5 DEF Match, StageCoherent
  <2>2. PICK result \in Negotiations(envelope[u], registry) :
          /\ negotiation' = [negotiation EXCEPT ![u] = result]
          /\ IF result.selected = None
               THEN Finish(u, "clarification_requested", None, None)
               ELSE /\ stage' = [stage EXCEPT ![u] = "matched"]
                    /\ UNCHANGED audit
    BY <1>5 DEF Match
  <2>3. result.selected \in Descriptors \cup {None}
    BY <2>1, SelectedIsRegistered DEF TypeOK, StageCoherent
  <2>4. negotiation'[u] = result
    BY <2>2 DEF TypeOK
  <2>5. CASE stage' = [stage EXCEPT ![u] = "matched"]
    <3>1. stage'[u] = "matched"
      BY <2>5 DEF TypeOK
    <3>2. QED
      BY <2>1, <2>3, <2>4, <3>1 DEF Grounded
  <2>6. CASE Finish(u, "clarification_requested", None, None)
    <3>1. /\ stage'[u] = "finished"
          /\ audit'[u].ticket = arrival'[u].ticket
          /\ audit'[u].actor = envelope'[u].actor.id
          /\ audit'[u].approvalState = "pending" => audit'[u].action \in GrantingActions
          /\ Tells(audit'[u], Reply(u)')
      BY <2>1, <2>6, FinishTells DEF Actions, Outcomes, GrantingActions
    <3>2. QED
      BY <2>1, <2>3, <2>4, <3>1 DEF Grounded
  <2>7. QED
    BY <2>2, <2>5, <2>6
<1>6. CASE Judge(u)
  <2>1. /\ UNCHANGED <<arrival, envelope, negotiation, plan>>
        /\ stage[u] = "matched" /\ plan[u] = None
    BY <1>6 DEF Judge, StageCoherent
  <2>2. CASE stage' = [stage EXCEPT ![u] = "allowed"]
    <3>1. stage'[u] = "allowed"
      BY <2>2 DEF TypeOK
    <3>2. QED
      BY <2>1, <3>1 DEF Grounded
  <2>3. CASE Finish(u, "policy_denied", negotiation[u].selected.id, negotiation[u].binding)
    <3>1. /\ stage'[u] = "finished"
          /\ audit'[u].ticket = arrival'[u].ticket
          /\ audit'[u].actor = envelope'[u].actor.id
          /\ audit'[u].approvalState = "pending" => audit'[u].action \in GrantingActions
          /\ Tells(audit'[u], Reply(u)')
      BY <2>1, <2>3, FinishTells DEF Actions, Outcomes, GrantingActions
    <3>2. QED
      BY <2>1, <3>1 DEF Grounded
  <2>4. QED
    BY <1>6, <2>2, <2>3 DEF Judge
<1>7. CASE Plan(u)
  <2>1. /\ UNCHANGED <<arrival, envelope, negotiation, decision>>
        /\ stage[u] = "allowed" /\ plan[u] = None /\ negotiation[u] # None
    BY <1>7 DEF Plan, StageCoherent
  <2>2. CASE Plannable(negotiation[u])
    <3> DEFINE made == MakePlan(negotiation[u], decision[u])
    <3>1. PICK action \in GrantingActions :
            Finish(u, action, negotiation[u].selected.id, negotiation[u].binding)
      BY <1>7, <2>2 DEF Plan, GrantingActions
    <3>2. plan' = [plan EXCEPT ![u] = made]
      BY <1>7, <2>2 DEF Plan
    <3>3. /\ plan'[u] = made /\ made.cap = negotiation[u].selected
          /\ made.binding = negotiation[u].binding
      BY <3>2 DEF TypeOK, MakePlan
    <3>4. made # None
      <4>1. negotiation[u] \in NegotiationResult /\ decision[u] \in PolicyDecision
        BY <2>1 DEF TypeOK, StageCoherent
      <4>2. negotiation[u].selected \in CapabilityDescriptor
            /\ negotiation[u].binding \in BindingTypes
        BY <2>2, <4>1 DEF Plannable, NegotiationResult
      <4>3. made \in ExecutionPlan
        BY <4>1, <4>2 DEF MakePlan, ExecutionPlan, CapabilityDescriptor, PolicyDecision
      <4>4. QED
        BY <4>3, BrokerAssumption
    <3> HIDE DEF made
    <3>5. /\ stage'[u] = "finished"
          /\ audit'[u].ticket = arrival'[u].ticket
          /\ audit'[u].actor = envelope'[u].actor.id
          /\ audit'[u].approvalState = "pending" => audit'[u].action \in GrantingActions
          /\ Tells(audit'[u], Reply(u)')
      BY <2>1, <3>1, <3>3, <3>4, FinishTells DEF Actions, Outcomes, GrantingActions
    <3>6. QED
      BY <2>1, <3>3, <3>5 DEF Grounded
  <2>3. CASE ~Plannable(negotiation[u])
    <3>1. Finish(u, "plan_rejected", None, None) /\ UNCHANGED plan
      BY <1>7, <2>3 DEF Plan
    <3>2. /\ stage'[u] = "finished"
          /\ audit'[u].ticket = arrival'[u].ticket
          /\ audit'[u].actor = envelope'[u].actor.id
          /\ audit'[u].approvalState = "pending" => audit'[u].action \in GrantingActions
          /\ Tells(audit'[u], Reply(u)')
      BY <2>1, <3>1, FinishTells DEF Actions, Outcomes, GrantingActions
    <3>3. QED
      BY <2>1, <3>1, <3>2 DEF Grounded
  <2>4. QED
    BY <2>2, <2>3
<1>8. CASE AppendAudit(u)
  <2>1. /\ UNCHANGED <<arrival, envelope, negotiation, plan, audit>>
        /\ stage[u] = "finished" /\ stage'[u] = "logged"
    BY <1>8 DEF AppendAudit, TypeOK
  <2>2. QED
    BY <2>1 DEF Grounded, Reply
<1>9. CASE Respond(u)
  <2>1. /\ stage'[u] = "idle" /\ envelope'[u] = None
        /\ negotiation'[u] = None /\ plan'[u] = None
    BY <1>9 DEF Respond, TypeOK
  <2>2. QED
    BY <2>1 DEF Grounded
<1>10. QED
  BY <1>2, <1>3, <1>4, <1>5, <1>6, <1>7, <1>8, <1>9, OneCallMoves DEF Step

--------------------------------------------------------------------------------
(* The ledger.                                                              *)

\* Between taking a call up and logging it, a worker changes what is its own.
LEMMA WorkIsPrivate ==
  ASSUME TypeOK, NEW w \in Workers, Validate(w) \/ Match(w) \/ Judge(w) \/ Plan(w)
  PROVE  /\ UNCHANGED <<arrivals, arrival, envelope, auditLog, answers>>
         /\ stage[w] \notin {"idle", "logged"}
         /\ stage'[w] \notin {"idle", "logged"}
         /\ \A u \in Workers \ {w} : stage'[u] = stage[u] /\ audit'[u] = audit[u]
<1> USE DEF TypeOK
<1>1. ASSUME NEW s \in Stages \ {"idle", "logged"}, stage' = [stage EXCEPT ![w] = s],
             UNCHANGED audit \/ \E r : audit' = [audit EXCEPT ![w] = r]
      PROVE  /\ stage'[w] \notin {"idle", "logged"}
             /\ \A u \in Workers \ {w} : stage'[u] = stage[u] /\ audit'[u] = audit[u]
  BY <1>1
<1>2. ASSUME NEW action, NEW cap, NEW binding, Finish(w, action, cap, binding)
      PROVE  /\ stage'[w] \notin {"idle", "logged"}
             /\ \A u \in Workers \ {w} : stage'[u] = stage[u] /\ audit'[u] = audit[u]
  BY <1>1, <1>2 DEF Finish, Stages
<1>3. CASE Validate(w)
  BY <1>1, <1>2, <1>3 DEF Validate, Stages
<1>4. CASE Match(w)
  <2>1. \/ stage' = [stage EXCEPT ![w] = "matched"] /\ UNCHANGED audit
        \/ Finish(w, "clarification_requested", None, None)
    BY <1>4 DEF Match
  <2>2. UNCHANGED <<arrivals, arrival, envelope, auditLog, answers>> /\ stage[w] = "validated"
    BY <1>4 DEF Match
  <2>3. QED
    BY <1>1, <1>2, <2>1, <2>2 DEF Stages
<1>5. CASE Judge(w)
  <2>1. \/ stage' = [stage EXCEPT ![w] = "allowed"] /\ UNCHANGED audit
        \/ Finish(w, "policy_denied", negotiation[w].selected.id, negotiation[w].binding)
    BY <1>5 DEF Judge
  <2>2. UNCHANGED <<arrivals, arrival, envelope, auditLog, answers>> /\ stage[w] = "matched"
    BY <1>5 DEF Judge
  <2>3. QED
    BY <1>1, <1>2, <2>1, <2>2 DEF Stages
<1>6. CASE Plan(w)
  <2>1. \E action, cap, binding : Finish(w, action, cap, binding)
    BY <1>6 DEF Plan
  <2>2. UNCHANGED <<arrivals, arrival, envelope, auditLog, answers>> /\ stage[w] = "allowed"
    BY <1>6 DEF Plan
  <2>3. QED
    BY <1>2, <2>1, <2>2
<1>7. QED
  BY <1>3, <1>4, <1>5, <1>6

\* Tickets are handed out once, and each enters the log once.
LEMMA LedgerNext ==
  ASSUME AuditInv, [Next]_vars
  PROVE  Ledger'
<1> TypeOK /\ StageCoherent /\ Ledger /\ \A w \in Workers : Grounded(w)
  BY DEF AuditInv, IInv
<1>1. arrivals \in Nat /\ DOMAIN auditLog = 1..Len(auditLog) /\ Len(auditLog) \in Nat
  BY BrokerAssumption DEF TypeOK
<1>2. ASSUME UNCHANGED <<arrivals, arrival, auditLog, stage, audit>>
      PROVE  Ledger'
  BY <1>2 DEF Ledger
<1>3. ASSUME NEW cap \in Descriptors, Register(cap) PROVE Ledger'
  BY <1>2, <1>3 DEF Register
<1>4. ASSUME NEW i \in DOMAIN registry, Unregister(i) PROVE Ledger'
  BY <1>2, <1>4 DEF Unregister
<1>5. CASE Tick
  BY <1>2, <1>5 DEF Tick
<1>6. ASSUME NEW w \in Workers, NEW body \in Bodies, NEW h \in Headers, Receive(w, body, h)
      PROVE  Ledger'
  <2>1. /\ arrivals' = arrivals + 1 /\ UNCHANGED <<auditLog, audit>>
        /\ stage'[w] = "received" /\ arrival'[w].ticket = arrivals + 1
        /\ \A u \in Workers \ {w} : stage'[u] = stage[u] /\ arrival'[u] = arrival[u]
    BY <1>6 DEF Receive, TypeOK
  <2>2. \A u \in Workers \ {w} : stage[u] # "idle" => arrival[u].ticket # arrivals + 1
    BY <1>1 DEF Ledger
  <2>3. \A i \in DOMAIN auditLog : auditLog[i].ticket # arrivals + 1
    BY <1>1 DEF Ledger
  <2>4. 1..arrivals \subseteq 1..(arrivals + 1) /\ arrivals + 1 \in 1..(arrivals + 1)
    BY <1>1
  <2>5. \A u \in Workers : stage'[u] # "idle" => arrival'[u].ticket \in 1..arrivals'
    BY <2>1, <2>4 DEF Ledger
  <2>6. \A u, v \in Workers : stage'[u] # "idle" /\ stage'[v] # "idle"
                              /\ arrival'[u].ticket = arrival'[v].ticket => u = v
    BY <2>1, <2>2 DEF Ledger
  <2>7. \A i \in DOMAIN auditLog' : auditLog'[i].ticket \in 1..arrivals'
    BY <2>1, <2>4 DEF Ledger
  <2>8. \A u \in Workers : stage'[u] \notin {"idle", "logged"} =>
          \A i \in DOMAIN auditLog' : auditLog'[i].ticket # arrival'[u].ticket
    BY <2>1, <2>3 DEF Ledger
  <2>9. QED
    BY <2>1, <2>5, <2>6, <2>7, <2>8 DEF Ledger
<1>7. ASSUME NEW w \in Workers, Validate(w) \/ Match(w) \/ Judge(w) \/ Plan(w)
      PROVE  Ledger'
  <2>1. /\ UNCHANGED <<arrivals, arrival, auditLog>>
        /\ stage[w] \notin {"idle", "logged"} /\ stage'[w] \notin {"idle", "logged"}
        /\ \A u \in Workers \ {w} : stage'[u] = stage[u] /\ audit'[u] = audit[u]
    BY <1>7, WorkIsPrivate
  <2>2. QED
    BY <2>1 DEF Ledger
<1>8. ASSUME NEW w \in Workers, AppendAudit(w)
      PROVE  Ledger'
  <2>1. /\ UNCHANGED <<arrivals, arrival, audit>> /\ auditLog' = Append(auditLog, audit[w])
        /\ stage[w] = "finished" /\ stage'[w] = "logged"
        /\ \A u \in Workers \ {w} : stage'[u] = stage[u]
    BY <1>8 DEF AppendAudit, TypeOK, environment
  <2>2. audit[w].ticket = arrival[w].ticket
    BY <2>1 DEF Grounded
  <2>3. /\ DOMAIN auditLog' = 1..(Len(auditLog) + 1)
        /\ auditLog'[Len(auditLog) + 1] = audit[w]
        /\ \A i \in DOMAIN auditLog : auditLog'[i] = auditLog[i]
    BY <1>1, <2>1 DEF TypeOK
  <2>4. \A i \in DOMAIN auditLog' :
          i \in DOMAIN auditLog \/ (i = Len(auditLog) + 1 /\ auditLog'[i] = audit[w])
    BY <1>1, <2>3
  <2>5. \A i \in DOMAIN auditLog : auditLog[i].ticket # audit[w].ticket
    BY <2>1, <2>2 DEF Ledger
  <2>6. \A i, j \in DOMAIN auditLog' : auditLog'[i].ticket = auditLog'[j].ticket => i = j
    BY <2>3, <2>4, <2>5 DEF Ledger
  <2>7. \A i \in DOMAIN auditLog' : auditLog'[i].ticket \in 1..arrivals'
    BY <2>1, <2>2, <2>3, <2>4 DEF Ledger
  <2>8. \A u \in Workers : stage'[u] \notin {"idle", "logged"} =>
          \A i \in DOMAIN auditLog' : auditLog'[i].ticket # arrival'[u].ticket
    <3> SUFFICES ASSUME NEW u \in Workers, stage'[u] \notin {"idle", "logged"},
                        NEW i \in DOMAIN auditLog'
                 PROVE  auditLog'[i].ticket # arrival[u].ticket
      BY <2>1
    <3>1. u # w /\ stage[u] \notin {"idle", "logged"}
      BY <2>1
    <3>2. arrival[w].ticket # arrival[u].ticket
      BY <2>1, <3>1 DEF Ledger
    <3>3. QED
      BY <2>2, <2>3, <2>4, <3>1, <3>2 DEF Ledger
  <2>9. \A u \in Workers : stage'[u] = "logged" =>
          \E i \in DOMAIN auditLog' : auditLog'[i] = audit'[u]
    <3>1. Len(auditLog) + 1 \in DOMAIN auditLog' /\ DOMAIN auditLog \subseteq DOMAIN auditLog'
      BY <1>1, <2>3
    <3>2. QED
      BY <2>1, <2>3, <3>1 DEF Ledger
  <2>10. QED
    BY <2>1, <2>6, <2>7, <2>8, <2>9 DEF Ledger
<1>9. ASSUME NEW w \in Workers, Respond(w)
      PROVE  Ledger'
  <2>1. /\ UNCHANGED <<arrivals, auditLog>> /\ stage'[w] = "idle"
        /\ \A u \in Workers \ {w} :
             stage'[u] = stage[u] /\ arrival'[u] = arrival[u] /\ audit'[u] = audit[u]
    BY <1>9 DEF Respond, TypeOK
  <2>2. QED
    BY <2>1 DEF Ledger
<1>10. CASE UNCHANGED vars
  BY <1>2, <1>10 DEF vars
<1>11. QED
  BY <1>3, <1>4, <1>5, <1>6, <1>7, <1>8, <1>9, <1>10 DEF Next, Step

\* An answer is given on a record that is in the log by then, and records stay.
LEMMA AnswersNext ==
  ASSUME AuditInv, [Next]_vars
  PROVE  AnswersOnRecord'
<1> TypeOK /\ StageCoherent /\ Ledger /\ AnswersOnRecord /\ \A w \in Workers : Grounded(w)
  BY DEF AuditInv, IInv
<1>1. ASSUME NEW answer,
             \E i \in DOMAIN auditLog :
               /\ auditLog[i].ticket = answer.arrival.ticket
               /\ auditLog[i].actor = answer.envelope.actor.id
               /\ Tells(auditLog[i], answer),
             \A i \in DOMAIN auditLog : i \in DOMAIN auditLog' /\ auditLog'[i] = auditLog[i]
      PROVE  \E i \in DOMAIN auditLog' :
               /\ auditLog'[i].ticket = answer.arrival.ticket
               /\ auditLog'[i].actor = answer.envelope.actor.id
               /\ Tells(auditLog'[i], answer)
  BY <1>1
<1>2. CASE UNCHANGED <<auditLog, answers>>
  BY <1>2 DEF AnswersOnRecord, Recorded
<1>3. ASSUME NEW w \in Workers, AppendAudit(w)
      PROVE  AnswersOnRecord'
  <2>1. auditLog' = Append(auditLog, audit[w]) /\ UNCHANGED answers
    BY <1>3 DEF AppendAudit
  <2>2. \A i \in DOMAIN auditLog : i \in DOMAIN auditLog' /\ auditLog'[i] = auditLog[i]
    BY <2>1 DEF TypeOK
  <2>3. QED
    BY <1>1, <2>1, <2>2 DEF AnswersOnRecord, Recorded
<1>4. ASSUME NEW w \in Workers, Respond(w)
      PROVE  AnswersOnRecord'
  <2>1. /\ UNCHANGED auditLog /\ answers' = Append(answers, Reply(w)) /\ stage[w] = "logged"
    BY <1>4 DEF Respond, Reply
  <2>2. PICK i \in DOMAIN auditLog : auditLog[i] = audit[w]
    BY <2>1 DEF Ledger
  <2>3. /\ audit[w].ticket = Reply(w).arrival.ticket
        /\ audit[w].actor = Reply(w).envelope.actor.id
        /\ Tells(audit[w], Reply(w))
        /\ Asserted(Reply(w).envelope, Reply(w).arrival.headers)
    <3>1. Reply(w).arrival = arrival[w] /\ Reply(w).envelope = envelope[w]
      BY DEF Reply
    <3>2. QED
      BY <2>1, <3>1 DEF Grounded
  <2>4. Recorded(Reply(w))
    BY <2>2, <2>3 DEF Recorded
  <2>5. \A k \in DOMAIN answers' :
          \/ k \in DOMAIN answers /\ answers'[k] = answers[k]
          \/ answers'[k] = Reply(w)
    <3>1. answers \in Seq(Answer)
      BY DEF TypeOK
    <3> DEFINE reply == Reply(w)
    <3> HIDE DEF reply
    <3>2. answers' = Append(answers, reply)
      BY <2>1 DEF reply
    <3>3. \A k \in DOMAIN answers' :
            (k \in DOMAIN answers /\ answers'[k] = answers[k]) \/ answers'[k] = reply
      BY <3>1, <3>2
    <3>4. QED
      BY <3>3 DEF reply
  <2>6. ASSUME NEW k \in DOMAIN answers'
        PROVE  Recorded(answers'[k]) /\ Asserted(answers'[k].envelope, answers'[k].arrival.headers)
    BY <2>3, <2>4, <2>5, <2>6 DEF AnswersOnRecord
  <2>7. ASSUME NEW k \in DOMAIN answers'
        PROVE  Recorded(answers[k])'
    BY <2>1, <2>6, <2>7 DEF Recorded
  <2>8. QED
    BY <2>6, <2>7 DEF AnswersOnRecord, Asserted
<1>5. ASSUME NEW w \in Workers, Validate(w) \/ Match(w) \/ Judge(w) \/ Plan(w)
      PROVE  UNCHANGED <<auditLog, answers>>
  BY <1>5, WorkIsPrivate
<1>6. QED
  BY <1>2, <1>3, <1>4, <1>5 DEF Next, Step, Register, Unregister, Tick, Receive, vars

LEMMA AuditInvHolds == Spec => []AuditInv
<1>1. Init => AuditInv
  <2> SUFFICES ASSUME Init PROVE AuditInv
    OBVIOUS
  <2>1. IInv
    BY InitIInv
  <2>2. \A w \in Workers : Grounded(w)
    BY DEF Init, Grounded
  <2>3. Ledger /\ AnswersOnRecord
    BY DEF Init, Ledger, AnswersOnRecord
  <2>4. QED
    BY <2>1, <2>2, <2>3 DEF AuditInv
<1>2. AuditInv /\ [Next]_vars => AuditInv'
  <2> SUFFICES ASSUME AuditInv, [Next]_vars PROVE AuditInv'
    OBVIOUS
  <2>1. IInv'
    BY NextIInv DEF AuditInv
  <2>2. QED
    BY <2>1, GroundedNext, LedgerNext, AnswersNext DEF AuditInv
<1>3. QED
  BY <1>1, <1>2, PTL DEF Spec

--------------------------------------------------------------------------------
(* The theorems.                                                            *)

\* Exactly one record tells of an answer's call.
LEMMA OneRecord ==
  ASSUME AuditInv, NEW a \in AnswerSet
  PROVE  \E i \in DOMAIN auditLog :
           /\ Records(a.arrival.ticket) = {i}
           /\ auditLog[i].actor = a.envelope.actor.id
           /\ Tells(auditLog[i], a)
<1>1. PICK k \in DOMAIN answers : a = answers[k]
  BY DEF AnswerSet, Elements
<1>2. PICK i \in DOMAIN auditLog :
        /\ auditLog[i].ticket = a.arrival.ticket
        /\ auditLog[i].actor = a.envelope.actor.id
        /\ Tells(auditLog[i], a)
  BY <1>1 DEF AuditInv, AnswersOnRecord, Recorded
<1>3. Records(a.arrival.ticket) = {i}
  BY <1>2 DEF Records, AuditInv, Ledger
<1>4. QED
  BY <1>2, <1>3

\* Every response was recorded before it was sent, once, by a record that agrees
\* with it about plan, binding, approval and refusal, however many threads append.
THEOREM EveryAnswerIsOnRecord == Spec => []AuditedBeforeAnswered
<1>1. AuditInv => AuditedBeforeAnswered
  BY OneRecord DEF AuditedBeforeAnswered
<1>2. QED
  BY <1>1, AuditInvHolds, PTL

\* A plan was authorised by the trust tier and the scopes the gateway asserted, and
\* recorded under the actor it asserted, whatever the body of the request said.
THEOREM GatewayClaimsAreBinding == Spec => []GatewayClaimsBind
<1>1. AuditInv => GatewayClaimsBind
  <2> SUFFICES ASSUME AuditInv, TrustedHeaders, NEW a \in AnswerSet, a.plan # None
               PROVE  LET h == a.arrival.headers
                      IN  /\ h.trust # None => Reaches(h.trust, a.plan.cap.minTrust)
                          /\ h.scopes \notin {None, {}} => a.plan.cap.scopes \subseteq h.scopes
                          /\ h.id # None =>
                               \A i \in Records(a.arrival.ticket) : auditLog[i].actor = h.id
    BY DEF GatewayClaimsBind
  <2>1. Asserted(a.envelope, a.arrival.headers)
    BY DEF AuditInv, AnswersOnRecord, AnswerSet, Elements
  <2>2. Permitted(a.envelope, a.plan.cap)
    BY DEF AuditInv, IInv, AnswersSound, Sound, AnswerSet, Elements
  <2>3. a.plan.cap.scopes \subseteq a.envelope.actor.scopes
        /\ Reaches(a.envelope.actor.trust, a.plan.cap.minTrust)
    BY <2>2 DEF Permitted
  <2>4. \A i \in Records(a.arrival.ticket) : auditLog[i].actor = a.envelope.actor.id
    BY OneRecord
  <2>5. QED
    BY <2>1, <2>3, <2>4 DEF Asserted
<1>2. QED
  BY <1>1, AuditInvHolds, PTL

--------------------------------------------------------------------------------
(* The gate.  Each step of the broker takes up, decides or hands back one  *)
(* intent of the gate, or changes nothing that the gate knows of.          *)
(* First, how the mapping sees one worker, one record and one answer.      *)

GateEntry(w) ==
  [ticket  |-> GateTicket(w), request |-> envelope[w], decided |-> stage[w] = "logged"]

Entry(r) ==
  [ ticket   |-> r.ticket,
    grants   |-> IF r.action \in GrantingActions THEN r.capability ELSE None,
    approval |-> r.approvalState = "pending" ]

Handed(a) ==
  [ ticket   |-> a.arrival.ticket,
    grants   |-> IF a.plan # None THEN a.plan.cap.id ELSE None,
    approval |-> a.plan # None /\ a.plan.approvalRequired ]

LEMMA GateView ==
  /\ GatePending = [w \in Workers |-> GateEntry(w)]
  /\ GateRecord = [i \in DOMAIN auditLog |-> Entry(auditLog[i])]
  /\ GateHanded = [i \in DOMAIN answers |-> Handed(answers[i])]
BY DEF GatePending, GateEntry, GateRecord, Entry, GateHanded, Handed

\* The same view of the next state.
LEMMA GateViewNext ==
  /\ GatePending' = [w \in Workers |-> GateEntry(w)']
  /\ GateRecord' = [i \in DOMAIN auditLog' |-> Entry(auditLog'[i])]
  /\ GateHanded' = [i \in DOMAIN answers' |-> Handed(answers'[i])]
BY DEF GatePending, GateEntry, GateRecord, Entry, GateHanded, Handed

\* A view of a longer sequence is the view of the shorter one and one entry more.
LEMMA LongerView ==
  ASSUME NEW n \in Nat, NEW v, v = [i \in 1..n |-> v[i]],
         NEW longer, longer = [i \in 1..(n + 1) |-> longer[i]],
         \A i \in 1..n : longer[i] = v[i]
  PROVE  longer = Append(v, longer[n + 1])
<1> DEFINE y == longer[n + 1]
           S == {v[i] : i \in 1..n} \cup {y}
<1>1. v \in Seq(S) /\ Len(v) = n
  BY IsASeq
<1>2. y \in S
  OBVIOUS
<1> HIDE DEF S, y
<1>3. /\ Append(v, y) = [i \in 1..(n + 1) |-> Append(v, y)[i]]
      /\ \A i \in 1..n : Append(v, y)[i] = v[i]
      /\ Append(v, y)[n + 1] = y
  BY <1>1, <1>2
<1>4. \A i \in 1..(n + 1) : i \in 1..n \/ i = n + 1
  OBVIOUS
<1>5. \A i \in 1..(n + 1) : longer[i] = Append(v, y)[i]
  BY <1>3, <1>4 DEF y
<1>6. QED
  BY <1>3, <1>5 DEF y

LEMMA RecordGrows ==
  ASSUME TypeOK, NEW r \in AuditRecord, auditLog' = Append(auditLog, r)
  PROVE  GateRecord' = Append(GateRecord, Entry(r))
<1> DEFINE n == Len(auditLog)
<1>1. n \in Nat /\ DOMAIN auditLog = 1..n
  BY DEF TypeOK
<1>2. /\ DOMAIN auditLog' = 1..(n + 1) /\ auditLog'[n + 1] = r
      /\ \A i \in 1..n : auditLog'[i] = auditLog[i]
  BY DEF TypeOK
<1>3. GateRecord = [i \in 1..n |-> Entry(auditLog[i])]
      /\ GateRecord' = [i \in 1..(n + 1) |-> Entry(auditLog'[i])]
  BY <1>1, <1>2, GateView, GateViewNext
<1> HIDE DEF n
<1>4. n + 1 \in 1..(n + 1) /\ 1..n \subseteq 1..(n + 1)
  BY <1>1
<1>5. GateRecord'[n + 1] = Entry(r) /\ \A i \in 1..n : GateRecord'[i] = GateRecord[i]
  BY <1>2, <1>3, <1>4
<1>6. QED
  BY <1>1, <1>3, <1>5, LongerView

LEMMA HandedGrows ==
  ASSUME TypeOK, NEW a, answers' = Append(answers, a)
  PROVE  GateHanded' = Append(GateHanded, Handed(a))
<1> DEFINE n == Len(answers)
<1>1. n \in Nat /\ DOMAIN answers = 1..n
  BY DEF TypeOK
<1>2. /\ DOMAIN answers' = 1..(n + 1) /\ answers'[n + 1] = a
      /\ \A i \in 1..n : answers'[i] = answers[i]
  BY DEF TypeOK
<1>3. GateHanded = [i \in 1..n |-> Handed(answers[i])]
      /\ GateHanded' = [i \in 1..(n + 1) |-> Handed(answers'[i])]
  BY <1>1, <1>2, GateView, GateViewNext
<1> HIDE DEF n
<1>4. n + 1 \in 1..(n + 1) /\ 1..n \subseteq 1..(n + 1)
  BY <1>1
<1>5. GateHanded'[n + 1] = Handed(a) /\ \A i \in 1..n : GateHanded'[i] = GateHanded[i]
  BY <1>2, <1>3, <1>4
<1>6. QED
  BY <1>1, <1>3, <1>5, LongerView

--------------------------------------------------------------------------------
(* One lemma per action of the gate.                                        *)

\* Taking a call up: its ticket is new to the gate.
LEMMA ReceiveTakesUp ==
  ASSUME AuditInv, NEW w \in Workers, NEW body \in Bodies, NEW h \in Headers,
         Receive(w, body, h)
  PROVE  Gate!TakeUp(w, arrivals + 1, Identified(body, h)) /\ arrivals + 1 \in 1..MaxArrivals
<1> TypeOK /\ StageCoherent /\ Ledger /\ Grounded(w)
  BY DEF AuditInv, IInv
<1>1. arrivals \in Nat /\ arrivals + 1 \in 1..MaxArrivals
  BY BrokerAssumption DEF TypeOK, Receive
<1>2. GateEntry(w) = Gate!Idle
  BY DEF Receive, GateEntry, GateTicket, Grounded, Gate!Idle
<1>3. \A u \in Workers : GateEntry(u).ticket # arrivals + 1
  <2> SUFFICES ASSUME NEW u \in Workers PROVE GateTicket(u) # arrivals + 1
    BY DEF GateEntry
  <2>1. CASE stage[u] = "idle"
    BY <1>1, <2>1, NoneAssumption DEF GateTicket
  <2>2. CASE stage[u] # "idle"
    BY <1>1, <2>2 DEF GateTicket, Ledger
  <2>3. QED
    BY <2>1, <2>2
<1>4. \A i \in DOMAIN auditLog : Entry(auditLog[i]).ticket # arrivals + 1
  BY <1>1 DEF Ledger, Entry
<1>5. GateEntry(w)' = [ticket |-> arrivals + 1, request |-> Identified(body, h),
                       decided |-> FALSE]
  BY DEF Receive, GateEntry, GateTicket, TypeOK
<1>6. \A u \in Workers \ {w} : GateEntry(u)' = GateEntry(u)
  BY DEF Receive, GateEntry, GateTicket, TypeOK
<1>7. GatePending' = [GatePending EXCEPT ![w] =
         [ticket |-> arrivals + 1, request |-> Identified(body, h), decided |-> FALSE]]
  BY <1>5, <1>6, GateView, GateViewNext
<1>8. UNCHANGED <<GateRecord, GateHanded>>
  BY GateView, GateViewNext DEF Receive
<1>9. QED
  BY <1>1, <1>2, <1>3, <1>4, <1>7, <1>8, GateView DEF Gate!TakeUp

\* Setting the last field.  t stands for TRUE, which the provers treat differently as
\* a formula and as the value of a field.
LEMMA EntryDecided ==
  ASSUME NEW ticket, NEW request, NEW d, NEW entry,
         entry = [ticket |-> ticket, request |-> request, decided |-> d]
  PROVE  [entry EXCEPT !.decided = TRUE]
           = [ticket |-> ticket, request |-> request, decided |-> TRUE]
<1>1. \A e : [entry EXCEPT !.decided = e]
               = [ticket |-> ticket, request |-> request, decided |-> e]
  OBVIOUS
<1>2. PICK t : t = TRUE
  OBVIOUS
<1>3. [entry EXCEPT !.decided = t] = [ticket |-> ticket, request |-> request, decided |-> t]
  BY ONLY <1>1
<1>4. [entry EXCEPT !.decided = TRUE] = [entry EXCEPT !.decided = t]
  BY <1>2
<1>5. [ticket |-> ticket, request |-> request, decided |-> t]
        = [ticket |-> ticket, request |-> request, decided |-> TRUE]
  BY <1>2
<1>6. QED
  BY <1>3, <1>4, <1>5

\* Appending the record decides: the record is a verdict the gate may give.
LEMMA AppendDecides ==
  ASSUME AuditInv, NEW w \in Workers, AppendAudit(w)
  PROVE  \E v \in [ticket : 1..MaxArrivals, grants : {CapIdOf(c) : c \in Descriptors} \cup {None},
                   approval : BOOLEAN] : Gate!Decide(w, v)
<1> TypeOK /\ StageCoherent /\ Ledger /\ Grounded(w) /\ Cleared(w)
  BY DEF AuditInv, IInv
<1> DEFINE v == Entry(audit[w])
<1>1. stage[w] = "finished" /\ audit[w] \in AuditRecord /\ envelope[w] \in IntentEnvelope
  BY DEF AppendAudit, TypeOK, StageCoherent
<1>2. /\ audit[w].ticket = arrival[w].ticket /\ Tells(audit[w], Reply(w))
      /\ arrival[w].ticket \in 1..MaxArrivals
  BY <1>1, BrokerAssumption DEF Grounded, Ledger, TypeOK
<1>3. GateEntry(w) = [ticket |-> arrival[w].ticket, request |-> envelope[w], decided |-> FALSE]
  BY <1>1 DEF GateEntry, GateTicket
<1>4. Reply(w).plan = plan[w] /\ Reply(w).status = StatusCode(audit[w])
  BY DEF Reply
<1>5. Gate!Verdict(GateEntry(w), v)
  <2>1. CASE plan[w] = None
    <3>1. audit[w].action \notin GrantingActions /\ audit[w].approvalState # "pending"
      BY <1>1, <1>2, <1>4, <2>1 DEF Tells, Grounded
    <3>2. v = Gate!Refusal(arrival[w].ticket)
      BY <1>2, <3>1 DEF Entry, Gate!Refusal
    <3>3. QED
      BY <1>3, <3>2 DEF Gate!Verdict
  <2>2. CASE plan[w] # None
    <3> DEFINE cap == plan[w].cap
    <3>1. audit[w].action \in GrantingActions /\ audit[w].capability = cap.id
      BY <1>2, <1>4, <2>2 DEF Tells
    <3>2. Sound(plan[w], envelope[w], arrival[w].time, StatusCode(audit[w]))
      BY <2>2 DEF Cleared
    <3>3. Permitted(envelope[w], cap)
      BY <3>2 DEF Sound
    <3>4. NeedsApproval(cap) => audit[w].approvalState = "pending"
      BY <1>2, <1>4, <3>2 DEF Sound, Tells
    <3>5. cap \in Descriptors
      <4>1. plan[w] \in ExecutionPlan
        BY <2>2 DEF TypeOK
      <4>2. cap # None
        BY <4>1, BrokerAssumption DEF ExecutionPlan
      <4>3. QED
        BY <2>2, <4>2 DEF Grounded
    <3> DEFINE waits == audit[w].approvalState = "pending"
    <3>6. v = [ticket |-> arrival[w].ticket, grants |-> CapIdOf(cap), approval |-> waits]
      BY <1>2, <3>1 DEF Entry, CapIdOf
    <3>7. waits \in BOOLEAN /\ (NeedsApproval(cap) => waits)
      BY <3>4
    <3> HIDE DEF v, waits, cap
    <3>8. QED
      BY <1>3, <3>3, <3>5, <3>6, <3>7 DEF Gate!Verdict
  <2>3. QED
    BY <2>1, <2>2
<1>6. v \in [ticket : 1..MaxArrivals, grants : {CapIdOf(c) : c \in Descriptors} \cup {None},
             approval : BOOLEAN]
  <2>1. v.ticket \in 1..MaxArrivals
    BY <1>2 DEF Entry
  <2>2. v.grants \in {CapIdOf(c) : c \in Descriptors} \cup {None}
    <3>1. CASE v = Gate!Refusal(GateEntry(w).ticket)
      BY <3>1 DEF Gate!Refusal
    <3>2. ASSUME NEW c \in Descriptors, NEW approval,
                 v = [ticket |-> GateEntry(w).ticket, grants |-> CapIdOf(c),
                      approval |-> approval]
          PROVE  v.grants = CapIdOf(c)
      <4> HIDE DEF v
      <4>1. QED
        BY <3>2
    <3> HIDE DEF v
    <3>3. QED
      BY <1>5, <3>1, <3>2 DEF Gate!Verdict
  <2>3. QED
    BY <2>1, <2>2 DEF Entry
<1>7. GatePending' = [GatePending EXCEPT ![w].decided = TRUE]
  <2>1. GateEntry(w)' = [ticket |-> arrival[w].ticket, request |-> envelope[w],
                         decided |-> TRUE]
    <3>1. stage'[w] = "logged" /\ arrival' = arrival /\ envelope' = envelope
      BY DEF AppendAudit, TypeOK
    <3>2. QED
      BY <3>1 DEF GateEntry, GateTicket
  <2>2. \A u \in Workers \ {w} : GateEntry(u)' = GateEntry(u)
    BY DEF AppendAudit, GateEntry, GateTicket, TypeOK
  <2>3. PICK d : GatePending[w] = [ticket |-> arrival[w].ticket, request |-> envelope[w],
                                   decided |-> d]
    BY <1>3, GateView
  <2>4. [GatePending[w] EXCEPT !.decided = TRUE]
          = [ticket |-> arrival[w].ticket, request |-> envelope[w], decided |-> TRUE]
    BY ONLY <2>3, EntryDecided
  <2>5. GatePending' = [GatePending EXCEPT ![w] = GateEntry(w)']
    BY <2>2, GateView, GateViewNext
  <2>6. [GatePending EXCEPT ![w].decided = TRUE]
          = [GatePending EXCEPT ![w] = [GatePending[w] EXCEPT !.decided = TRUE]]
    OBVIOUS
  <2>7. QED
    BY <2>1, <2>4, <2>5, <2>6
<1>8. GateRecord' = Append(GateRecord, v) /\ UNCHANGED GateHanded
  BY <1>1, RecordGrows, GateView, GateViewNext DEF AppendAudit
<1>9. envelope[w] # None
  BY <1>1, BrokerAssumption
<1> HIDE DEF v
<1>10. Gate!Decide(w, v)
  <2>1. GatePending[w] = GateEntry(w)
    BY GateView
  <2>2. GatePending[w].request # None /\ ~GatePending[w].decided
    BY <1>3, <1>9, <2>1
  <2>3. Gate!Verdict(GatePending[w], v)
    BY <1>5, <2>1
  <2>4. QED
    BY <1>7, <1>8, <2>2, <2>3 DEF Gate!Decide
<1>11. QED
  BY <1>6, <1>10

\* Responding hands the decision back as it was recorded.
LEMMA RespondHandsBack ==
  ASSUME AuditInv, NEW w \in Workers, Respond(w)
  PROVE  Gate!HandBack(w)
<1> TypeOK /\ StageCoherent /\ Ledger /\ Grounded(w) /\ Cleared(w)
  BY DEF AuditInv, IInv
<1>1. stage[w] = "logged" /\ answers' = Append(answers, Reply(w)) /\ UNCHANGED auditLog
  BY DEF Respond, Reply
<1>2. PICK i \in DOMAIN auditLog : auditLog[i] = audit[w]
  BY <1>1 DEF Ledger
<1>3. audit[w].ticket = arrival[w].ticket /\ Tells(audit[w], Reply(w))
  BY <1>1 DEF Grounded
<1>4. GateEntry(w).ticket = arrival[w].ticket /\ GateEntry(w).decided
  BY <1>1 DEF GateEntry, GateTicket
<1>5. Handed(Reply(w)) = Entry(audit[w])
  <2>1. /\ Reply(w).arrival = arrival[w] /\ Reply(w).plan = plan[w]
        /\ Reply(w).status = StatusCode(audit[w])
    BY DEF Reply
  <2>2. CASE plan[w] = None
    BY <1>1, <1>3, <2>1, <2>2 DEF Tells, Handed, Entry, Grounded
  <2>3. CASE plan[w] # None
    <3>1. /\ plan[w].approvalRequired = NeedsApproval(plan[w].cap)
          /\ StatusCode(audit[w]) = (IF NeedsApproval(plan[w].cap) THEN 202 ELSE 200)
      BY <2>3 DEF Cleared, Sound
    <3>2. NeedsApproval(plan[w].cap) \in BOOLEAN /\ plan[w].approvalRequired \in BOOLEAN
      <4>1. plan[w] \in ExecutionPlan
        BY <2>3 DEF TypeOK
      <4>2. QED
        BY <3>1, <4>1 DEF ExecutionPlan
    <3>3. plan[w].approvalRequired <=> audit[w].approvalState = "pending"
      BY <1>3, <2>1, <3>1, <3>2 DEF Tells
    <3>4. audit[w].action \in GrantingActions /\ audit[w].capability = plan[w].cap.id
      BY <1>3, <2>1, <2>3 DEF Tells
    <3>5. QED
      BY <1>3, <2>1, <2>3, <3>2, <3>3, <3>4 DEF Handed, Entry
  <2>4. QED
    BY <2>2, <2>3
<1>6. GateHanded' = Append(GateHanded, Entry(audit[w]))
  BY <1>1, <1>5, HandedGrows
<1>7. GatePending' = [GatePending EXCEPT ![w] = Gate!Idle]
  <2>1. GateEntry(w)' = Gate!Idle
    BY DEF Respond, GateEntry, GateTicket, TypeOK, Gate!Idle
  <2>2. \A u \in Workers \ {w} : GateEntry(u)' = GateEntry(u)
    BY DEF Respond, GateEntry, GateTicket, TypeOK
  <2>3. QED
    BY <2>1, <2>2, GateView, GateViewNext
<1>8. UNCHANGED GateRecord
  BY <1>1, GateView, GateViewNext
<1>9. i \in DOMAIN GateRecord /\ GateRecord[i] = Entry(audit[w])
      /\ GateRecord[i].ticket = arrival[w].ticket
  BY <1>2, <1>3, GateView DEF Entry
<1>10. QED
  BY <1>4, <1>6, <1>7, <1>8, <1>9, GateView DEF Gate!HandBack

--------------------------------------------------------------------------------
(* The refinement.                                                          *)

LEMMA GateInit == Init => Gate!Init
<1> SUFFICES ASSUME Init PROVE Gate!Init
  OBVIOUS
<1>1. \A w \in Workers : GateEntry(w) = Gate!Idle
  <2> SUFFICES ASSUME NEW w \in Workers PROVE GateEntry(w) = Gate!Idle
    OBVIOUS
  <2>1. stage[w] = "idle" /\ envelope[w] = None
    BY DEF Init
  <2>2. GateTicket(w) = None /\ (stage[w] = "logged") = FALSE
    BY <2>1 DEF GateTicket
  <2>3. QED
    BY <2>1, <2>2 DEF GateEntry, Gate!Idle
<1>2. GatePending = [w \in Workers |-> Gate!Idle]
  BY <1>1, GateView
<1>3. GateRecord = <<>> /\ GateHanded = <<>>
  BY GateView DEF Init
<1>4. QED
  BY <1>2, <1>3 DEF Gate!Init

LEMMA GateStep == AuditInv /\ [Next]_vars => [Gate!Next]_(Gate!vars)
<1> SUFFICES ASSUME AuditInv, [Next]_vars
             PROVE  [Gate!Next]_(Gate!vars)
  OBVIOUS
<1> TypeOK
  BY DEF AuditInv, IInv
<1>1. ASSUME UNCHANGED <<auditLog, answers>>, \A u \in Workers : GateEntry(u)' = GateEntry(u)
      PROVE  UNCHANGED Gate!vars
  BY <1>1, GateView, GateViewNext DEF Gate!vars
<1>2. CASE UNCHANGED <<stage, arrival, envelope, auditLog, answers>>
  BY <1>1, <1>2 DEF GateEntry, GateTicket
<1>3. ASSUME NEW w \in Workers, NEW body \in Bodies, NEW h \in Headers, Receive(w, body, h)
      PROVE  Gate!Next
  BY <1>3, ReceiveTakesUp DEF Gate!Next
<1>4. ASSUME NEW w \in Workers, Validate(w) \/ Match(w) \/ Judge(w) \/ Plan(w)
      PROVE  UNCHANGED Gate!vars
  <2>1. /\ UNCHANGED <<arrival, envelope, auditLog, answers>>
        /\ stage[w] \notin {"idle", "logged"} /\ stage'[w] \notin {"idle", "logged"}
        /\ \A u \in Workers \ {w} : stage'[u] = stage[u]
    BY <1>4, WorkIsPrivate
  <2>2. QED
    BY <1>1, <2>1 DEF GateEntry, GateTicket
<1>5. ASSUME NEW w \in Workers, AppendAudit(w)
      PROVE  Gate!Next
  BY <1>5, AppendDecides DEF Gate!Next
<1>6. ASSUME NEW w \in Workers, Respond(w)
      PROVE  Gate!Next
  BY <1>6, RespondHandsBack DEF Gate!Next
<1>7. QED
  BY <1>2, <1>3, <1>4, <1>5, <1>6 DEF Next, Step, Register, Unregister, Tick, vars

\* Every behaviour of the broker, seen through the mapping, is one of the gate: each
\* intent is decided at most once, within authority and with the approval it needs,
\* recorded, and only then handed back, unchanged.
THEOREM PipelineImplementsGate == Spec => GateSpec
<1>1. QED
  BY GateInit, GateStep, AuditInvHolds, PTL DEF Spec, GateSpec, Gate!Spec
================================================================================
