-------------------------- MODULE ClientPromisesProofs --------------------------
(***************************************************************************)
(* What the SDKs promise to the programs that use them, as theorems: a      *)
(* go-ahead is granted, an answer is on record, calls are answered at most  *)
(* once each, and the two languages are treated alike.                     *)
(***************************************************************************)
EXTENDS BrokerClientsProofs

--------------------------------------------------------------------------------
(* From the answer back to the decision.                                    *)

LEMMA AnswerFields ==
  ASSUME NEW c, NEW n, NEW d
  PROVE  /\ Respond(c, n, d).planned <=> d.plan # None
         /\ Respond(c, n, d).approvalRequired <=> d.plan # None /\ d.plan.approvalRequired
         /\ Respond(c, n, d).capability = d.capability
         /\ Respond(c, n, d).status = IF d.action = "malformed" THEN 422
                                      ELSE StatusCode(Record(c, n, d))
BY DEF Respond

LEMMA ReceivedFields ==
  ASSUME NEW c, NEW r
  PROVE  /\ Received(c, r).response = r
         /\ Received(c, r).raised <=> kind[c] = "python" /\ r.status >= 400
BY DEF Received, PythonReceived, GoReceived

\* What is known of the decision behind the answer a program holds.
LEMMA Behind ==
  ASSUME ClientsInv, NEW c \in Callers, NEW n \in Attempts, served[c][n] # None
  PROVE  LET d == served[c][n].decision
             e == Envelope(c)
         IN  /\ arguments[c] \in Arguments /\ e \in IntentEnvelope
             /\ served[c][n].registry \in Seq(CapabilityDescriptor)
             /\ n <= attempt[c] /\ attempt[c] \in Nat
             /\ d \in Decision
             /\ \/ d.action = "malformed" /\ d.plan = None
                \/ d.action \in Actions /\ Considered(e, served[c][n].registry, d)
<1>1. /\ n <= attempt[c] /\ served[c][n].decision \in Outlook(c, served[c][n].registry)
      /\ Disciplined(c) /\ TypeOK
  BY DEF ClientsInv, Decided
<1>2. attempt[c] \in Nat /\ attempt[c] # 0
  BY <1>1, ClientsAssumption DEF TypeOK, Attempts
<1>3. arguments[c] \in ArgumentsOf(kind, c)
  BY <1>1, <1>2 DEF Disciplined
<1>4. arguments[c] \in Arguments
  BY <1>1, <1>3, ClientsAssumption DEF TypeOK
<1>5. served[c][n].registry \in Seq(CapabilityDescriptor)
  BY <1>1 DEF TypeOK, Service
<1>6. QED
  BY <1>1, <1>2, <1>3, <1>4, <1>5, OutlookSound

LEMMA BehindAnswer ==
  ASSUME ClientsInv, NEW c \in Callers, result[c] # None
  PROVE  /\ attempt[c] \in Attempts /\ served[c][attempt[c]] # None
         /\ result[c] = Received(c, Respond(c, attempt[c], served[c][attempt[c]].decision))
<1>1. TypeOK /\ Disciplined(c) /\ Told(c)
  BY DEF ClientsInv
<1>2. attempt[c] \in Attempts
  BY <1>1, ClientsAssumption DEF TypeOK, Disciplined, Attempts
<1>3. QED
  BY <1>1, <1>2 DEF Told

--------------------------------------------------------------------------------
\* A program that goes ahead on a plan without an approval flag does so with a
\* capability that needs no approval and that its actor and delegator are permitted.
THEOREM GoAheadsAreGranted == Spec => []GoAheadIsGranted
<1>1. ClientsInv => GoAheadIsGranted
  <2> SUFFICES ASSUME ClientsInv, NEW c \in Callers, result[c] # None, GoAhead(result[c])
               PROVE  LET plan == served[c][attempt[c]].decision.plan
                      IN  /\ plan # None
                          /\ Permitted(Envelope(c), plan.cap)
                          /\ plan.cap.scopes \subseteq PreflightScopes(Envelope(c))
                          /\ ~NeedsApproval(plan.cap)
    BY DEF GoAheadIsGranted
  <2> DEFINE n == attempt[c]
             d == served[c][n].decision
             r == Respond(c, n, d)
  <2>1. n \in Attempts /\ served[c][n] # None /\ result[c] = Received(c, r)
    BY BehindAnswer
  <2>2. \/ d.plan = None
        \/ Considered(Envelope(c), served[c][n].registry, d)
    BY <2>1, Behind
  <2>3. result[c].response = r
    BY <2>1, ReceivedFields
  <2>4. r.planned /\ ~r.approvalRequired
    BY <2>3 DEF GoAhead
  <2>5. d.plan # None /\ ~d.plan.approvalRequired
    BY <2>4, AnswerFields
  <2> HIDE DEF r, d, n
  <2>6. Permitted(Envelope(c), d.plan.cap) /\ ~NeedsApproval(d.plan.cap)
    BY <2>2, <2>5 DEF Considered
  <2>7. d.plan.cap.scopes \subseteq PreflightScopes(Envelope(c))
    BY <2>6 DEF Permitted, Delegated, PreflightScopes
  <2>8. QED
    BY <2>5, <2>6, <2>7 DEF d, n
<1>2. QED
  BY <1>1, ClientsInvHolds, PTL
\* What the record of a considered decision says, next to its answer.
LEMMA RecordTells ==
  ASSUME NEW c, NEW n, NEW d, NEW e, NEW reg, d.action \in Actions, Considered(e, reg, d),
         d.plan # None => d.plan \in ExecutionPlan
  PROVE  LET entry == Record(c, n, d)
         IN  /\ entry.caller = c /\ entry.attempt = n /\ entry.capability = d.capability
             /\ entry.outcome = "success" <=> d.plan # None /\ ~d.plan.approvalRequired
             /\ entry.outcome = "pending_approval" <=> d.plan # None /\ d.plan.approvalRequired
             /\ StatusCode(entry) >= 400 => ~entry.policyAllowed
             /\ d.plan # None => StatusCode(entry) < 400
             /\ StatusCode(entry) # 422
<1> DEFINE entry == Record(c, n, d)
<1>1. d.action \in {"validation_failed", "clarification_requested", "policy_denied",
                    "plan_rejected", "approval_requested", "plan_created"}
  BY DEF Actions, Outcomes
<1>2. /\ d.plan = None => d.action \notin {"approval_requested", "plan_created"}
      /\ d.plan # None =>
           d.action = IF d.plan.approvalRequired THEN "approval_requested" ELSE "plan_created"
  BY DEF Considered, GrantingActions
<1>3. /\ entry.caller = c /\ entry.attempt = n /\ entry.capability = d.capability
      /\ entry.action = d.action
      /\ entry.outcome = Outcomes[d.action]
      /\ entry.policyAllowed <=> d.action \notin {"validation_failed", "policy_denied"}
  BY DEF Record
<1> HIDE DEF entry
<1>4. /\ entry.outcome = "success" <=> d.action = "plan_created"
      /\ entry.outcome = "pending_approval" <=> d.action = "approval_requested"
      /\ entry.outcome = "denied" <=> d.action = "policy_denied"
  BY <1>1, <1>3 DEF Outcomes
<1>5. /\ entry.outcome = "success" <=> d.plan # None /\ ~d.plan.approvalRequired
      /\ entry.outcome = "pending_approval" <=> d.plan # None /\ d.plan.approvalRequired
  BY <1>2, <1>4
<1>6. /\ StatusCode(entry) >= 400 => ~entry.policyAllowed
      /\ d.plan # None => StatusCode(entry) < 400
      /\ StatusCode(entry) # 422
  BY <1>2, <1>3, <1>4 DEF StatusCode
<1>7. QED
  BY <1>3, <1>5, <1>6 DEF entry

\* What a program was told is on record, once and with the same outcome, as long as the
\* broker that told it lives.
THEOREM AnswersAreOnRecord == Spec => []AnswerOnRecord
<1>1. ClientsInv => AnswerOnRecord
  <2> SUFFICES ASSUME ClientsInv, NEW c \in Callers, result[c] # None,
                      served[c][attempt[c]].life = life, result[c].response.status # 422
               PROVE  \E i \in DOMAIN auditLog :
                        /\ RecordsOf(c, attempt[c]) = {i}
                        /\ auditLog[i].capability = result[c].response.capability
                        /\ auditLog[i].outcome = "success" <=> GoAhead(result[c])
                        /\ auditLog[i].outcome = "pending_approval" <=>
                             result[c].response.planned /\ ~GoAhead(result[c])
                        /\ result[c].raised => ~auditLog[i].policyAllowed
    BY DEF AnswerOnRecord
  <2> DEFINE n == attempt[c]
             d == served[c][n].decision
             r == Respond(c, n, d)
             entry == Record(c, n, d)
  <2>1. n \in Attempts /\ served[c][n] # None /\ result[c] = Received(c, r)
    BY BehindAnswer
  <2>2. /\ d \in Decision
        /\ \/ d.action = "malformed" /\ d.plan = None
           \/ d.action \in Actions /\ Considered(Envelope(c), served[c][n].registry, d)
    BY <2>1, Behind
  <2>3. result[c].response = r /\ (result[c].raised <=> kind[c] = "python" /\ r.status >= 400)
    BY <2>1, ReceivedFields
  <2>4. d.action # "malformed"
    BY <2>3, AnswerFields
  <2>5. PICK i \in DOMAIN auditLog : auditLog[i] = entry
    BY <2>1, <2>4 DEF ClientsInv, Logged
  <2>6. /\ r.planned <=> d.plan # None
        /\ r.approvalRequired <=> d.plan # None /\ d.plan.approvalRequired
        /\ r.capability = d.capability
        /\ r.status = StatusCode(entry)
    BY <2>4, AnswerFields
  <2>7. d.plan # None => d.plan \in ExecutionPlan
    BY <2>2 DEF Decision
  <2>8. /\ entry.caller = c /\ entry.attempt = n /\ entry.capability = d.capability
        /\ entry.outcome = "success" <=> d.plan # None /\ ~d.plan.approvalRequired
        /\ entry.outcome = "pending_approval" <=> d.plan # None /\ d.plan.approvalRequired
        /\ StatusCode(entry) >= 400 => ~entry.policyAllowed
        /\ d.plan # None => StatusCode(entry) < 400
    BY <2>2, <2>4, <2>7, RecordTells
  <2>9. RecordsOf(c, n) = {i}
    <3>1. i \in RecordsOf(c, n)
      BY <2>5, <2>8 DEF RecordsOf
    <3>2. ASSUME NEW j \in RecordsOf(c, n) PROVE j = i
      BY <2>5, <2>8 DEF RecordsOf, ClientsInv, Logged
    <3>3. QED
      BY <3>1, <3>2
  <2> HIDE DEF d, r, entry
  <2>10. GoAhead(result[c]) <=> d.plan # None /\ ~d.plan.approvalRequired
    BY <2>3, <2>6, <2>8 DEF GoAhead, StatusCode
  <2>11. /\ auditLog[i].capability = result[c].response.capability
         /\ auditLog[i].outcome = "success" <=> GoAhead(result[c])
         /\ auditLog[i].outcome = "pending_approval" <=>
              result[c].response.planned /\ ~GoAhead(result[c])
         /\ result[c].raised => ~auditLog[i].policyAllowed
    BY <2>3, <2>5, <2>6, <2>8, <2>10
  <2>12. QED
    BY <2>9, <2>11
<1>2. QED
  BY <1>1, ClientsInvHolds, PTL

--------------------------------------------------------------------------------
(* Every step of the programs and the broker is one of the remote call.     *)

StateView == [c \in Callers |-> [n \in Attempts |-> AttemptState(c, n)]]
ExecutedView == [c \in Callers |-> [n \in Attempts |-> Answered(c, n)]]
HandedView == [c \in Callers |-> IF kind[c] = "embedded" \/ result[c] = None THEN None
                                 ELSE result[c].response]

LEMMA CallsInit == Init => Calls!Init
<1> SUFFICES ASSUME Init PROVE Calls!Init
  OBVIOUS
<1>1. \A c \in Callers, n \in Attempts : AttemptState(c, n) = "none" /\ Answered(c, n) = None
  BY ClientsAssumption DEF Init, AttemptState, Answered, Attempts
<1>2. \A c \in Callers : result[c] = None
  BY DEF Init
<1>3. QED
  BY <1>1, <1>2 DEF Calls!Init, Calls!Attempts, Attempts

\* A table that differs from another in at most one cell is that table with the cell set.
LEMMA OneCell ==
  ASSUME NEW F, NEW G, NEW c \in Callers, NEW n \in Attempts, NEW v,
         F = [u \in Callers |-> [m \in Attempts |-> F[u][m]]],
         G = [u \in Callers |-> [m \in Attempts |-> G[u][m]]],
         \A u \in Callers, m \in Attempts :
           G[u][m] = IF u = c /\ m = n THEN v ELSE F[u][m]
  PROVE  G = [F EXCEPT ![c][n] = v]
<1>1. ASSUME NEW u \in Callers PROVE G[u] = [F EXCEPT ![c][n] = v][u]
  <2>1. F[u] = [m \in Attempts |-> F[u][m]] /\ G[u] = [m \in Attempts |-> G[u][m]]
    OBVIOUS
  <2>2. [F EXCEPT ![c][n] = v][u] = IF u = c THEN [F[u] EXCEPT ![n] = v] ELSE F[u]
    OBVIOUS
  <2>3. CASE u = c
    <3>1. \A m \in Attempts : G[u][m] = [F[u] EXCEPT ![n] = v][m]
      BY <2>1, <2>3
    <3>2. DOMAIN [F[u] EXCEPT ![n] = v] = Attempts
      BY <2>1
    <3>3. [F[u] EXCEPT ![n] = v] = [m \in Attempts |-> [F[u] EXCEPT ![n] = v][m]]
      BY <2>1
    <3>4. QED
      BY <2>1, <2>2, <2>3, <3>1, <3>3
  <2>4. CASE u # c
    BY <2>1, <2>2, <2>4
  <2>5. QED
    BY <2>3, <2>4
<1>2. [F EXCEPT ![c][n] = v] = [u \in Callers |-> [F EXCEPT ![c][n] = v][u]]
  OBVIOUS
<1>3. QED
  BY <1>1, <1>2

\* The tables are read cell by cell.
LEMMA Views ==
  /\ StateView = [u \in Callers |-> [m \in Attempts |-> StateView[u][m]]]
  /\ ExecutedView = [u \in Callers |-> [m \in Attempts |-> ExecutedView[u][m]]]
  /\ HandedView = [u \in Callers |-> HandedView[u]]
  /\ \A u \in Callers, m \in Attempts :
       StateView[u][m] = AttemptState(u, m) /\ ExecutedView[u][m] = Answered(u, m)
  /\ \A u \in Callers :
       HandedView[u] = IF kind[u] = "embedded" \/ result[u] = None THEN None
                       ELSE result[u].response
BY DEF StateView, ExecutedView, HandedView

LEMMA ViewsNext ==
  /\ StateView' = [u \in Callers |-> [m \in Attempts |-> StateView'[u][m]]]
  /\ ExecutedView' = [u \in Callers |-> [m \in Attempts |-> ExecutedView'[u][m]]]
  /\ HandedView' = [u \in Callers |-> HandedView'[u]]
  /\ \A u \in Callers, m \in Attempts :
       StateView'[u][m] = AttemptState(u, m)' /\ ExecutedView'[u][m] = Answered(u, m)'
  /\ \A u \in Callers :
       HandedView'[u] = IF kind'[u] = "embedded" \/ result'[u] = None THEN None
                        ELSE result'[u].response
BY DEF StateView, ExecutedView, HandedView

\* A program that rests shows the same row.
LEMMA RowRests ==
  ASSUME NEW u \in Callers, kind' = kind, Rests(u)
  PROVE  /\ \A m \in Attempts :
              StateView'[u][m] = StateView[u][m] /\ ExecutedView'[u][m] = ExecutedView[u][m]
         /\ HandedView'[u] = HandedView[u]
<1>1. \A m \in Attempts : AttemptState(u, m)' = AttemptState(u, m) /\ Answered(u, m)' = Answered(u, m)
  BY DEF AttemptState, Answered, Rests
<1>2. QED
  BY <1>1, Views, ViewsNext DEF Rests

LEMMA SameTable ==
  ASSUME NEW F, NEW G,
         F = [u \in Callers |-> [m \in Attempts |-> F[u][m]]],
         G = [u \in Callers |-> [m \in Attempts |-> G[u][m]]],
         \A u \in Callers, m \in Attempts : G[u][m] = F[u][m]
  PROVE  G = F
<1>1. ASSUME NEW u \in Callers PROVE G[u] = F[u]
  <2>1. F[u] = [m \in Attempts |-> F[u][m]] /\ G[u] = [m \in Attempts |-> G[u][m]]
    OBVIOUS
  <2>2. [m \in Attempts |-> F[u][m]] = [m \in Attempts |-> G[u][m]]
    OBVIOUS
  <2>3. QED
    BY <2>1, <2>2
<1>2. F = [u \in Callers |-> F[u]] /\ G = [u \in Callers |-> G[u]]
  OBVIOUS
<1>3. QED
  BY <1>1, <1>2

\* What a step of program c shows when nothing but one of its cells changes.
LEMMA OthersSame ==
  ASSUME ClientsInv, [Next]_vars, NEW c \in Callers, Moves(c), NEW u \in Callers, u # c
  PROVE  /\ \A m \in Attempts :
              StateView'[u][m] = StateView[u][m] /\ ExecutedView'[u][m] = ExecutedView[u][m]
         /\ HandedView'[u] = HandedView[u]
BY OthersRest, OneProgramMoves, RowRests

LEMMA SubmitOpens ==
  ASSUME ClientsInv, [Next]_vars, NEW c \in Callers, Submit(c)
  PROVE  Calls!Next
<1>0. /\ TypeOK /\ Disciplined(c) /\ Moves(c) /\ attempt[c] \in Nat
      /\ \A m \in Attempts : m \in Nat /\ m >= 1
  BY ClientsAssumption DEF ClientsInv, TypeOK, Moves, Attempts
<1>1. /\ phase[c] \in {"built", "failed"} /\ kind[c] # "embedded"
      /\ attempt[c] + 1 \in Attempts /\ attempt'[c] = attempt[c] + 1 /\ phase'[c] = "waiting"
      /\ kind' = kind /\ result' = result /\ served' = served
  BY <1>0, ClientsAssumption DEF Submit, TypeOK, Attempts, broker
<1> DEFINE n == attempt[c] + 1
<1>2. /\ AttemptState(c, n) = "none"
      /\ \A m \in Attempts : m < n => AttemptState(c, m) = "failed"
  BY <1>0, <1>1 DEF AttemptState, Disciplined
<1>3. ASSUME NEW m \in Attempts
      PROVE  AttemptState(c, m)' = IF m = n THEN "open" ELSE AttemptState(c, m)
  BY <1>0, <1>1, <1>2 DEF AttemptState, Disciplined
<1>4. \A m \in Attempts : Answered(c, m)' = Answered(c, m)
  BY <1>1 DEF Answered
<1> HIDE DEF n
<1>5. \A u \in Callers, m \in Attempts :
        StateView'[u][m] = IF u = c /\ m = n THEN "open" ELSE StateView[u][m]
  BY <1>0, <1>3, OthersSame, Views, ViewsNext
<1>6. n \in Attempts
  BY <1>1 DEF n
<1>7. StateView' = [StateView EXCEPT ![c][n] = "open"]
  BY <1>5, <1>6, OneCell, Views, ViewsNext
<1>8. \A u \in Callers, m \in Attempts : ExecutedView'[u][m] = ExecutedView[u][m]
  BY <1>0, <1>4, OthersSame, Views, ViewsNext
<1>9. ExecutedView' = ExecutedView
  BY <1>8, SameTable, Views, ViewsNext
<1>10. HandedView' = HandedView
  <2>1. HandedView'[c] = HandedView[c]
    BY <1>1, Views, ViewsNext
  <2>2. \A u \in Callers : HandedView'[u] = HandedView[u]
    BY <1>0, <2>1, OthersSame
  <2>3. QED
    BY <2>2, Views, ViewsNext
<1>11. StateView[c][n] = "none" /\ \A m \in 1..(n - 1) : StateView[c][m] = "failed"
  <2>1. n \in Nat /\ \A m \in 1..(n - 1) : m \in Attempts /\ m < n
    BY <1>0, <1>6, ClientsAssumption DEF Attempts
  <2>2. QED
    BY <1>2, <1>6, <2>1, Views
<1>12. Calls!Open(c, n)
  BY <1>7, <1>9, <1>10, <1>11 DEF Calls!Open, StateView, ExecutedView, HandedView
<1>13. QED
  BY <1>6, <1>12 DEF Calls!Next, Calls!Attempts, Attempts

\* Serving a request executes one attempt that was not executed before.
LEMMA ServeExecutes ==
  ASSUME ClientsInv, [Next]_vars, NEW c \in Callers, NEW n \in Attempts, Serve(c, n)
  PROVE  Calls!Next
<1>0. TypeOK /\ Disciplined(c) /\ Told(c) /\ Moves(c)
  BY DEF ClientsInv, Moves
<1>1. kind[c] # "embedded" /\ n <= attempt[c] /\ served[c][n] = None
  BY ServeDecides
<1>2. PICK d \in Decision : Handled(c, n, d)
  BY ServeDecides
<1>3. /\ served'[c][n] # None /\ served'[c][n].decision = d
      /\ \A m \in Attempts : m # n => served'[c][m] = served[c][m]
  BY <1>0, <1>2, HandledType
<1>4. UNCHANGED <<kind, arguments, phase, attempt, result, payload>>
  BY DEF Serve
<1>5. AttemptState(c, n) \in {"open", "failed"}
  <2>1. attempt[c] \in Nat /\ n \in Nat /\ attempt[c] # 0
    BY <1>0, <1>1, ClientsAssumption DEF TypeOK, Attempts
  <2>2. phase[c] \notin {"idle", "invalid", "built"}
    BY <1>0, <2>1 DEF Disciplined
  <2>3. n = attempt[c] => phase[c] # "returned"
    BY <1>0, <1>1 DEF Disciplined, Told
  <2>4. phase[c] \in Phases
    BY <1>0 DEF TypeOK
  <2>5. n = attempt[c] => phase[c] \in {"waiting", "failed"}
    BY <2>2, <2>3, <2>4 DEF Phases
  <2>6. QED
    BY <1>1, <2>1, <2>5 DEF AttemptState
<1>6. /\ Answered(c, n) = None
      /\ Answered(c, n)' = Respond(c, n, d)
      /\ \A m \in Attempts : m # n => Answered(c, m)' = Answered(c, m)
  BY <1>1, <1>3, <1>4 DEF Answered
<1>7. \A m \in Attempts : AttemptState(c, m)' = AttemptState(c, m)
  BY <1>4 DEF AttemptState
<1>8. \A u \in Callers, m \in Attempts : StateView'[u][m] = StateView[u][m]
  <2>1. \A m \in Attempts : StateView'[c][m] = StateView[c][m]
    BY <1>7, Views, ViewsNext
  <2>2. \A u \in Callers, m \in Attempts : u # c => StateView'[u][m] = StateView[u][m]
    BY <1>0, OthersSame
  <2>3. QED
    BY <2>1, <2>2
<1>9. StateView' = StateView
  BY <1>8, SameTable, Views, ViewsNext
<1>10. \A u \in Callers, m \in Attempts :
         ExecutedView'[u][m] = IF u = c /\ m = n THEN Respond(c, n, d) ELSE ExecutedView[u][m]
  BY <1>0, <1>6, OthersSame, Views, ViewsNext
<1>11. ExecutedView' = [ExecutedView EXCEPT ![c][n] = Respond(c, n, d)]
  BY <1>10, OneCell, Views, ViewsNext
<1>12. ExecutedView'[c][n] = Respond(c, n, d) /\ Respond(c, n, d) \in Response
  BY <1>10, AnswerType
<1>13. HandedView' = HandedView
  BY <1>4 DEF HandedView
<1>14. StateView[c][n] \in {"open", "failed"} /\ ExecutedView[c][n] = None
  BY <1>5, <1>6, Views
<1>15. Calls!Execute(c, n)
  BY <1>9, <1>11, <1>12, <1>13, <1>14 DEF Calls!Execute, StateView, ExecutedView, HandedView
<1>16. QED
  BY <1>15 DEF Calls!Next, Calls!Attempts, Attempts

\* A program that waits has its current attempt open, and closing it changes that cell.
LEMMA WaitingCloses ==
  ASSUME ClientsInv, [Next]_vars, NEW c \in Callers, Moves(c), phase[c] = "waiting",
         NEW to \in {"failed", "returned"}, phase'[c] = to,
         attempt' = attempt, served' = served
  PROVE  /\ attempt[c] \in Attempts /\ kind[c] # "embedded"
         /\ StateView[c][attempt[c]] = "open"
         /\ StateView' = [StateView EXCEPT ![c][attempt[c]] = to]
         /\ ExecutedView' = ExecutedView
<1> DEFINE n == attempt[c]
<1>0. TypeOK /\ Disciplined(c) /\ kind' = kind
  BY OneProgramMoves DEF ClientsInv
<1>1. n \in Attempts /\ kind[c] # "embedded" /\ attempt'[c] = n
  BY <1>0, ClientsAssumption DEF Disciplined, TypeOK, Attempts
<1> HIDE DEF n
<1>2. n \in Nat /\ \A m \in Attempts : m \in Nat
  BY <1>1, ClientsAssumption DEF Attempts
<1>3. AttemptState(c, n) = "open"
  BY <1>1, <1>2 DEF AttemptState, n
<1>4. \A m \in Attempts : AttemptState(c, m)' = IF m = n THEN to ELSE AttemptState(c, m)
  BY <1>0, <1>1, <1>2 DEF AttemptState, n
<1>5. \A m \in Attempts : Answered(c, m)' = Answered(c, m)
  BY <1>0 DEF Answered
<1>6. \A u \in Callers, m \in Attempts :
        StateView'[u][m] = IF u = c /\ m = n THEN to ELSE StateView[u][m]
  BY <1>4, OthersSame, Views, ViewsNext
<1>7. StateView' = [StateView EXCEPT ![c][n] = to]
  BY <1>1, <1>6, OneCell, Views, ViewsNext
<1>8. \A u \in Callers, m \in Attempts : ExecutedView'[u][m] = ExecutedView[u][m]
  <2>1. \A m \in Attempts : ExecutedView'[c][m] = ExecutedView[c][m]
    BY <1>5, Views, ViewsNext
  <2>2. \A u \in Callers, m \in Attempts : u # c => ExecutedView'[u][m] = ExecutedView[u][m]
    BY OthersSame
  <2>3. QED
    BY <2>1, <2>2
<1>9. ExecutedView' = ExecutedView
  BY <1>8, SameTable, Views, ViewsNext
<1>10. QED
  BY <1>1, <1>3, <1>7, <1>9, Views DEF n

LEMMA ReceiveReturns ==
  ASSUME ClientsInv, [Next]_vars, NEW c \in Callers, Receive(c)
  PROVE  Calls!Next
<1>0. /\ TypeOK /\ Disciplined(c) /\ Wired /\ Moves(c) /\ Told(c)'
      /\ kind' = kind /\ TypeOK'
  BY ToldNext, OneProgramMoves, ClientsType DEF ClientsInv, Moves
<1> DEFINE n == attempt[c]
<1>1. PICK answer \in responses :
        /\ answer[1] = <<c, n>>
        /\ result' = [result EXCEPT ![c] = Received(c, answer[2])]
  BY DEF Receive
<1>2. /\ phase[c] = "waiting" /\ phase'[c] = "returned"
      /\ attempt' = attempt /\ served' = served
  BY <1>0 DEF Receive, TypeOK, broker
<1>3. /\ n \in Attempts /\ kind[c] # "embedded" /\ StateView[c][n] = "open"
      /\ StateView' = [StateView EXCEPT ![c][n] = "returned"]
      /\ ExecutedView' = ExecutedView
  BY <1>0, <1>2, WaitingCloses
<1>4. /\ served[c][n] # None
      /\ answer[2] = Respond(c, n, served[c][n].decision)
      /\ answer[2] \in Response
  BY <1>0, <1>1 DEF Wired, Awaited, TypeOK
<1> HIDE DEF n
<1>5. ExecutedView[c][n] = answer[2] /\ answer[2] # None
  BY <1>3, <1>4, Views, ClientsAssumption DEF Answered
<1>6. /\ result'[c].response = answer[2]
      /\ result'[c] # None
      /\ \A u \in Callers : u # c => result'[u] = result[u]
  <2>1. result'[c] = Received(c, answer[2]) /\ \A u \in Callers : u # c => result'[u] = result[u]
    BY <1>0, <1>1 DEF TypeOK
  <2>2. Disciplined(c)'
    BY DisciplinedNext
  <2>3. result'[c] # None
    BY <1>2, <2>2 DEF Disciplined
  <2>4. QED
    BY <2>1, <2>3, ReceivedFields
<1>7. \A u \in Callers :
        HandedView'[u] = IF u = c THEN ExecutedView[c][n] ELSE HandedView[u]
  <2>1. HandedView'[c] = answer[2]
    BY <1>0, <1>3, <1>6, ViewsNext
  <2>2. \A u \in Callers : u # c => HandedView'[u] = HandedView[u]
    BY <1>0, OthersSame
  <2>3. QED
    BY <1>5, <2>1, <2>2
<1>8. HandedView' = [HandedView EXCEPT ![c] = ExecutedView[c][n]]
  BY <1>7, Views, ViewsNext
<1>9. \E m \in Attempts : Calls!Return(c, m)
  BY <1>3, <1>5, <1>8 DEF Calls!Return, StateView, ExecutedView, HandedView
<1>10. QED
  BY <1>9 DEF Calls!Next, Calls!Attempts, Attempts

LEMMA FailFails ==
  ASSUME ClientsInv, [Next]_vars, NEW c \in Callers, Fail(c)
  PROVE  Calls!Next
<1> DEFINE n == attempt[c]
<1>0. Moves(c) /\ TypeOK /\ kind' = kind
  BY OneProgramMoves DEF ClientsInv, Moves
<1>1. /\ phase[c] = "waiting" /\ phase'[c] = "failed"
      /\ attempt' = attempt /\ served' = served /\ result' = result
  BY <1>0 DEF Fail, TypeOK, broker
<1>2. /\ n \in Attempts /\ StateView[c][n] = "open"
      /\ StateView' = [StateView EXCEPT ![c][n] = "failed"]
      /\ ExecutedView' = ExecutedView
  BY <1>0, <1>1, WaitingCloses
<1>3. HandedView' = HandedView
  BY <1>0, <1>1 DEF HandedView
<1> HIDE DEF n
<1>4. Calls!Fail(c, n)
  BY <1>2, <1>3 DEF Calls!Fail, StateView, ExecutedView, HandedView
<1>5. QED
  BY <1>2, <1>4 DEF Calls!Next, Calls!Attempts, Attempts

\* Building, and using an embedded broker, is no remote call.
LEMMA OthersStutter ==
  ASSUME ClientsInv, [Next]_vars, NEW c \in Callers,
         (\E a \in ArgumentsOf(kind, c) : Build(c, a)) \/ TranslateIntent(c)
  PROVE  UNCHANGED <<StateView, ExecutedView, HandedView>>
<1>0. /\ TypeOK /\ Disciplined(c) /\ Disciplined(c)' /\ Moves(c) /\ kind' = kind
      /\ \A m \in Attempts : m \in Nat /\ m > 0
  BY DisciplinedNext, OneProgramMoves, ClientsAssumption DEF ClientsInv, Moves, Attempts
<1>1. /\ \A m \in Attempts :
          StateView'[c][m] = StateView[c][m] /\ ExecutedView'[c][m] = ExecutedView[c][m]
      /\ HandedView'[c] = HandedView[c]
  <2>1. CASE \E a \in ArgumentsOf(kind, c) : Build(c, a)
    <3>1. attempt[c] = 0 /\ UNCHANGED <<attempt, result, served>>
      BY <1>0, <2>1 DEF Build, Disciplined, broker
    <3>2. \A m \in Attempts :
            /\ AttemptState(c, m)' = AttemptState(c, m)
            /\ Answered(c, m)' = Answered(c, m)
      BY <1>0, <3>1 DEF AttemptState, Answered
    <3>3. HandedView'[c] = HandedView[c]
      BY <1>0, <3>1 DEF HandedView
    <3>4. QED
      BY <3>2, <3>3, Views, ViewsNext
  <2>2. CASE TranslateIntent(c)
    <3>1. kind[c] = "embedded"
      BY <2>2 DEF TranslateIntent
    <3>2. \A m \in Attempts :
            /\ AttemptState(c, m)' = AttemptState(c, m)
            /\ Answered(c, m)' = Answered(c, m)
      BY <1>0, <3>1 DEF AttemptState, Answered
    <3>3. HandedView'[c] = None /\ HandedView[c] = None
      BY <1>0, <3>1, Views, ViewsNext
    <3>4. QED
      BY <3>2, <3>3, Views, ViewsNext
  <2>3. QED
    BY <2>1, <2>2
<1>2. /\ \A u \in Callers, m \in Attempts :
          StateView'[u][m] = StateView[u][m] /\ ExecutedView'[u][m] = ExecutedView[u][m]
      /\ \A u \in Callers : HandedView'[u] = HandedView[u]
  BY <1>0, <1>1, OthersSame
<1>3. StateView' = StateView /\ ExecutedView' = ExecutedView
  BY <1>2, SameTable, Views, ViewsNext
<1>4. HandedView' = HandedView
  BY <1>2, Views, ViewsNext
<1>5. QED
  BY <1>3, <1>4

LEMMA CallsStep == ClientsInv /\ [Next]_vars => [Calls!Next]_(Calls!vars)
<1> SUFFICES ASSUME ClientsInv, [Next]_vars PROVE [Calls!Next]_(Calls!vars)
  OBVIOUS
<1>1. ASSUME UNCHANGED <<StateView, ExecutedView, HandedView>> PROVE UNCHANGED Calls!vars
  BY <1>1 DEF Calls!vars, StateView, ExecutedView, HandedView
<1>2. ASSUME UNCHANGED <<kind, phase, attempt, result, served>> PROVE UNCHANGED Calls!vars
  <2>1. \A c \in Callers, n \in Attempts :
          AttemptState(c, n)' = AttemptState(c, n) /\ Answered(c, n)' = Answered(c, n)
    BY <1>2 DEF AttemptState, Answered
  <2>2. UNCHANGED <<StateView, ExecutedView, HandedView>>
    BY <1>2, <2>1 DEF StateView, ExecutedView, HandedView
  <2>3. QED
    BY <1>1, <2>2
<1>3. ASSUME NEW cap \in Descriptors, Register(cap) PROVE UNCHANGED Calls!vars
  BY <1>2, <1>3 DEF Register
<1>4. ASSUME NEW i \in DOMAIN registry, Unregister(i) PROVE UNCHANGED Calls!vars
  BY <1>2, <1>4 DEF Unregister
<1>5. CASE Restart
  BY <1>2, <1>5 DEF Restart
<1>6. CASE UNCHANGED vars
  BY <1>2, <1>6 DEF vars
<1>7. ASSUME NEW c \in Callers,
             \/ \E a \in ArgumentsOf(kind, c) : Build(c, a)
             \/ Submit(c) \/ Receive(c) \/ Fail(c) \/ TranslateIntent(c)
             \/ \E n \in Attempts : Serve(c, n)
      PROVE  Calls!Next \/ UNCHANGED Calls!vars
  BY <1>1, <1>7, SubmitOpens, ServeExecutes, ReceiveReturns, FailFails, OthersStutter
<1>8. QED
  BY <1>3, <1>4, <1>5, <1>6, <1>7 DEF Next

\* Over loss, timeouts, late executions, repetitions and restarts, the SDKs and the broker
\* implement the abstract remote call.
THEOREM ClientsImplementCalls == Spec => CallSpec
<1>1. Spec => [][Calls!Next]_(Calls!vars)
  BY CallsStep, ClientsInvHolds, PTL DEF Spec
<1>2. QED
  BY <1>1, CallsInit, PTL DEF Spec, CallSpec, Calls!Spec

--------------------------------------------------------------------------------
(* Python and Go programs are treated alike.                                *)

LEMMA SdkFields ==
  ASSUME NEW a \in Arguments, a.bindings = <<>>
  PROVE  LET p == PythonEnvelope(a)
             g == GoEnvelope(a)
         IN  /\ g.actor = p.actor /\ g.name = p.name /\ g.domain = p.domain
             /\ g.opClass = p.opClass /\ g.hints = p.hints
             /\ p.prov = a.prov /\ g.prov = GoProvenance(a.prov)
             /\ g.maxCandidates = p.maxCandidates /\ g.chainDepth = p.chainDepth
             /\ g.allowed = p.allowed /\ g.forbidden = p.forbidden
             /\ g.supportedVersion /\ g.allowFallback /\ g.chainDepth = 0
             /\ p.bindings = <<>> /\ g.bindings = <<>>
             /\ p.requirementBindings = <<>> /\ g.requirementBindings = <<>>
             /\ g.declaredTrust = g.actor.trust /\ g.sensitivity = "internal"
BY DEF PythonEnvelope, GoEnvelope, Defaults, Arguments

\* What the Go constructor keeps of a delegation, and what it makes of the rest.
LEMMA GoDelegates ==
  ASSUME NEW p \in ProvenanceBlock
  PROVE  LET g == GoProvenance(p)
         IN  /\ g # None /\ g \in ProvenanceBlock
             /\ g.depth = p.depth /\ g.authority = p.authority /\ g.expiry = None
             /\ g.submittedBy = (IF p.submittedBy = None THEN Blank ELSE p.submittedBy)
             /\ g.originator # None
<1>1. p # None
  BY NoneAssumption
<1>2. GoProvenance(p) =
        [p EXCEPT !.originator = IF p.originator = None THEN Blank ELSE p.originator,
                  !.submittedBy = IF p.submittedBy = None THEN Blank ELSE p.submittedBy,
                  !.expiry = None]
  BY <1>1 DEF GoProvenance, ProvenanceBlock
<1>3. GoProvenance(p) \in ProvenanceBlock
  BY <1>2 DEF ProvenanceBlock, Parties
<1>4. GoProvenance(p).originator = IF p.originator = None THEN Blank ELSE p.originator
  BY <1>2 DEF ProvenanceBlock
<1>5. QED
  BY <1>2, <1>3, <1>4, NoneAssumption DEF ProvenanceBlock

\* Two candidates cannot both be on top.
LEMMA TopIsUnique ==
  ASSUME NEW ranked, ranked \subseteq Candidate, NEW c \in ranked, NEW d \in ranked,
         IsTop(c, ranked), IsTop(d, ranked)
  PROVE  c = d
<1> SUFFICES ASSUME c # d PROVE FALSE
  OBVIOUS
<1>1. Before(c, d) /\ Before(d, c)
  BY DEF IsTop
<1>2. c.score \in Nat /\ d.score \in Nat /\ c.place \in Nat /\ d.place \in Nat
  BY DEF Candidate
<1>3. QED
  BY <1>1, <1>2 DEF Before

\* When nobody asks for a binding the first of the capability is taken.
LEMMA FirstBinding ==
  ASSUME NEW e, e.bindings = <<>>, e.requirementBindings = <<>>, NEW cap, NEW b
  PROVE  SelectedBinding(b, e, cap) <=>
           b = (IF cap.bindings = <<>> THEN None ELSE cap.bindings[1])
BY DEF SelectedBinding, FirstSupported, NoneSupported, Elements

\* What the Go constructor leaves out can only have been in a Python program's way.
LEMMA GoIsGranted ==
  ASSUME NEW a \in Arguments, a.bindings = <<>>, NEW reg \in Seq(CapabilityDescriptor),
         NEW granted \in Decisions(PythonEnvelope(a), reg), granted.plan # None,
         NEW d \in Decisions(GoEnvelope(a), reg), NamesSubmitter(a.prov)
  PROVE  d.plan # None /\ d.plan.cap = granted.plan.cap
<1> DEFINE p == PythonEnvelope(a)
           g == GoEnvelope(a)
<1>1. p \in IntentEnvelope /\ g \in IntentEnvelope
  BY EnvelopeType
<1>2. /\ g.actor = p.actor /\ g.name = p.name /\ g.domain = p.domain
      /\ g.opClass = p.opClass /\ g.hints = p.hints
      /\ p.prov = a.prov /\ g.prov = GoProvenance(a.prov)
      /\ g.maxCandidates = p.maxCandidates /\ g.chainDepth = p.chainDepth
      /\ g.allowed = p.allowed /\ g.forbidden = p.forbidden
      /\ g.supportedVersion /\ g.allowFallback /\ g.chainDepth = 0
      /\ p.bindings = <<>> /\ g.bindings = <<>>
      /\ p.requirementBindings = <<>> /\ g.requirementBindings = <<>>
      /\ g.declaredTrust = g.actor.trust /\ g.sensitivity = "internal"
  BY SdkFields
<1>3. granted \in Decisions(p, reg) /\ d \in Decisions(g, reg)
  OBVIOUS
<1> HIDE DEF p, g
<1>4. ValidEnvelope(p, Now)
  BY <1>3 DEF Decisions, NoPlan
<1>5. PICK n \in Negotiations(p, reg) :
        n.selected # None /\ granted = Judged(p, n)
  BY <1>3, <1>4 DEF Decisions, NoPlan
<1>6. /\ Evaluate(p, n.selected, EnforceApproval).allowed
      /\ Plannable(n)
      /\ granted.plan.cap = n.selected
  <2>1. Evaluate(p, n.selected, EnforceApproval).allowed /\ Plannable(n)
    BY <1>5 DEF Judged, NoPlan
  <2>2. QED
    BY <1>5, <2>1 DEF Judged, Planned, MakePlan
<1>7. ValidEnvelope(g, Now)
  <2>1. g.actor.trust \in TrustLevels
    BY <1>1 DEF IntentEnvelope, ActorDescriptor
  <2>2. TrustNotEscalated(g)
    BY <1>2, <2>1 DEF TrustNotEscalated, Reaches, TrustRank, TrustLevels
  <2>3. ASSUME g.prov # None PROVE ValidProvenance(g.prov, g.actor, Now)
    <3>1. p.prov # None /\ p.prov \in ProvenanceBlock
      BY <1>1, <1>2, <2>3 DEF GoProvenance, IntentEnvelope
    <3>2. ValidProvenance(p.prov, p.actor, Now)
      BY <1>4, <3>1 DEF ValidEnvelope
    <3>3. p.prov.submittedBy # None
      BY <1>2, <3>1 DEF NamesSubmitter
    <3>4. /\ g.prov.depth = p.prov.depth /\ g.prov.authority = p.prov.authority
          /\ g.prov.expiry = None /\ g.prov.submittedBy = p.prov.submittedBy
      BY <1>2, <3>1, <3>3, GoDelegates
    <3>5. QED
      BY <1>2, <3>2, <3>4 DEF ValidProvenance, NotExpired
  <2>4. QED
    BY <1>2, <1>4, <2>2, <2>3 DEF ValidEnvelope, WriteExecuteTrusted
<1>8. FindMatches(g, reg) = FindMatches(p, reg)
  <2>1. \A cap : Score(g, cap) = Score(p, cap) /\ HasSignal(g, cap) = HasSignal(p, cap)
    BY <1>2 DEF Score, HasSignal, PreferredBinding
  <2>2. Scored(g, reg) = Scored(p, reg)
    BY <1>2, <2>1 DEF Scored
  <2>3. QED
    BY <1>2, <2>2 DEF FindMatches
<1> DEFINE ranked == FindMatches(p, reg)
<1>9. ranked \subseteq Candidate
  BY <1>1, ScoredOrigin DEF FindMatches
<1>10. PICK m \in Negotiations(g, reg) :
         d = IF m.selected = None THEN NoPlan("clarification_requested", None) ELSE Judged(g, m)
  BY <1>3, <1>7 DEF Decisions
<1>11. PICK top \in ranked :
         /\ IsTop(top, ranked) /\ n.selected = top.cap
         /\ n.binding \in SelectedBindings(p, top.cap)
         /\ Reaches(p.actor.trust, top.cap.minTrust)
  BY <1>1, <1>5, SelectionOrigin, ScoredOrigin
<1>12. m # Clarification(ranked)
  <2>1. ranked # {} /\ g.allowFallback
    BY <1>2, <1>11
  <2>2. Clarification(ranked).selected = None
    BY DEF Clarification
  <2>3. ASSUME NEW c \in ranked, NEW b, m = Selection(ranked, c.cap, b, g)
        PROVE  m # Clarification(ranked)
    <3>1. m.selected = c.cap /\ c.cap # None
      BY <1>9, <2>3, ClientsAssumption DEF Selection, Candidate
    <3>2. QED
      BY <2>2, <3>1
  <2> HIDE DEF ranked
  <2>4. QED
    BY <1>8, <2>1, <2>3 DEF Negotiations, ranked
<1>13. m.selected = top.cap /\ m.binding \in SelectedBindings(g, top.cap)
  <2> HIDE DEF ranked
  <2>1. PICK c \in ranked : \E b \in SelectedBindings(g, c.cap) :
          IsTop(c, ranked) /\ m = Selection(ranked, c.cap, b, g)
    BY <1>8, <1>12 DEF Negotiations, ranked
  <2>2. c = top
    BY <1>9, <1>11, <2>1, TopIsUnique
  <2>3. QED
    BY <2>1, <2>2 DEF Selection
<1> DEFINE cap == top.cap
           verdict == Evaluate(g, cap, EnforceApproval)
<1>14. cap \in CapabilityDescriptor /\ cap # None
  BY <1>9, <1>11, ClientsAssumption DEF Candidate
<1>15. verdict.allowed
  <2>1. ScopesHeld(p, cap)
    BY <1>6, <1>11 DEF Evaluate
  <2>2. ScopesHeld(g, cap)
    <3>1. CASE a.prov = None
      BY <1>2, <2>1, <3>1 DEF ScopesHeld, EffectiveScopes, GoProvenance
    <3>2. CASE a.prov # None
      <4>1. a.prov \in ProvenanceBlock
        BY <3>2 DEF Arguments
      <4>2. g.prov # None /\ p.prov # None /\ g.prov.authority = p.prov.authority
        BY <1>2, <3>2, <4>1, GoDelegates
      <4>3. EffectiveScopes(g) = EffectiveScopes(p)
        BY <1>2, <4>2 DEF EffectiveScopes
      <4>4. QED
        BY <2>1, <4>3 DEF ScopesHeld
    <3>3. QED
      BY <3>1, <3>2
  <2>3. OriginatorTrusted(g, cap)
    BY <1>2, <1>11 DEF OriginatorTrusted
  <2>4. ~IsDeniedByRisk(cap.risk, g.sensitivity) /\ g.chainDepth <= MaxDelegationDepth
    BY <1>2 DEF IsDeniedByRisk, MaxDelegationDepth
  <2>5. QED
    BY <2>2, <2>3, <2>4 DEF Evaluate
<1>16. m.binding \in BindingTypes /\ m.binding # None
  <2>1. n.binding = m.binding
    BY <1>2, <1>11, <1>13, FirstBinding DEF SelectedBindings
  <2>2. m.binding \in BindingTypes \cup {None}
    BY <1>13 DEF SelectedBindings
  <2>3. QED
    BY <1>6, <2>1, <2>2 DEF Plannable
<1>17. Plannable(m)
  BY <1>13, <1>14, <1>16 DEF Plannable
<1>18. d = Planned(m, verdict)
  BY <1>10, <1>13, <1>14, <1>15, <1>17 DEF Judged
<1>19. MakePlan(m, verdict) \in ExecutionPlan /\ MakePlan(m, verdict).cap = cap
  <2>1. cap.humanApproval \in BOOLEAN
    BY <1>14 DEF CapabilityDescriptor
  <2>2. verdict.requiresApproval \in BOOLEAN
    BY <2>1, EvaluateType DEF PolicyDecision
  <2> HIDE DEF verdict
  <2>3. QED
    BY <1>13, <1>14, <1>16, <2>1, <2>2 DEF MakePlan, ExecutionPlan
<1>20. QED
  BY <1>6, <1>11, <1>18, <1>19, ClientsAssumption DEF Planned

\* A delegation without a submitter is refused when it comes from a Go program.
LEMMA GoIsRefused ==
  ASSUME NEW a \in Arguments, NEW reg, NEW d \in Decisions(GoEnvelope(a), reg),
         ~NamesSubmitter(a.prov)
  PROVE  d.plan = None
<1> DEFINE g == GoEnvelope(a)
<1>1. a.prov # None /\ a.prov.submittedBy = None /\ a.prov \in ProvenanceBlock
  BY DEF NamesSubmitter, Arguments
<1>2. g.prov = GoProvenance(a.prov) /\ g.actor.id \in Actors
  BY DEF GoEnvelope, Defaults, Arguments, ActorDescriptor
<1>3. g.prov # None /\ g.prov.submittedBy = Blank
  BY <1>1, <1>2, GoDelegates
<1> HIDE DEF g
<1>4. ~ValidProvenance(g.prov, g.actor, Now)
  BY <1>2, <1>3, NoneAssumption DEF ValidProvenance
<1>5. ~ValidEnvelope(g, Now)
  BY <1>3, <1>4 DEF ValidEnvelope
<1>6. d \in Decisions(g, reg)
  BY DEF g
<1>7. QED
  BY <1>5, <1>6 DEF Decisions, NoPlan

\* Whatever a Python program is granted, a Go program with the same arguments is granted
\* too, unless it delegates without a submitter, which is refused: over every registry
\* and with every set of arguments without bindings.
THEOREM SdksAgree == Spec => []GoGetsNoLess
<1>1. ClientsInv => GoGetsNoLess
  <2> SUFFICES ASSUME ClientsInv, NEW c \in Callers, NEW s \in Services(c),
                      s.decision.plan # None, kind[c] # "go", arguments[c].bindings = <<>>,
                      NEW d \in Decisions(GoEnvelope(arguments[c]), s.registry)
               PROVE  IF NamesSubmitter(arguments[c].prov)
                        THEN d.plan # None /\ d.plan.cap = s.decision.plan.cap
                        ELSE d.plan = None
    BY DEF GoGetsNoLess
  <2>1. PICK n \in Attempts : s = served[c][n] /\ served[c][n] # None
    BY DEF Services
  <2>2. arguments[c] \in Arguments /\ s.registry \in Seq(CapabilityDescriptor)
    BY <2>1, Behind
  <2>3. s.decision \in Outlook(c, s.registry)
    BY <2>1 DEF ClientsInv, Decided
  <2>4. s.decision \in Decisions(PythonEnvelope(arguments[c]), s.registry)
    BY <2>3 DEF Outlook, Envelope, NoPlan
  <2>5. QED
    BY <2>2, <2>4, GoIsGranted, GoIsRefused
<1>2. QED
  BY <1>1, ClientsInvHolds, PTL

--------------------------------------------------------------------------------
(* What depends on the capabilities that are ever registered.               *)

Offered == Elements(BootRegistry) \cup Descriptors

\* A capability that changes something asks for internal trust.
GuardsWrites(cap) ==
  cap.opClass \in {"write", "execute", "delegate"} => Reaches(cap.minTrust, "internal")

\* Every field that is required of a capability fits into the payloads of its bindings.
SchemaTravels(cap) ==
  LET schema == InputSchema(cap.id)
  IN  \A f \in schema.required :
        /\ f \in DOMAIN schema.kinds
        /\ "rest" \in Elements(cap.bindings) /\ RestMethod(cap.opClass) = "GET" =>
             schema.kinds[f] # "nested"
        /\ "rag" \in Elements(cap.bindings) =>
             schema.kinds[f] # "nested" /\ f \notin {"source", "text"}

\* The id of a capability matches the names of those that have it, and no other's.
KnownApart(cap, other) ==
  cap.id \in Names =>
    other.nameMatch[cap.id] = (IF other.id = cap.id THEN "exact" ELSE "none")

\* Registries, those of earlier decisions included, hold what was offered.
Stocked ==
  /\ registry \in Seq(Offered)
  /\ \A c \in Callers, n \in Attempts :
       served[c][n] # None => served[c][n].registry \in Seq(Offered)

\* The payload of an embedding program is the translation of the plan it was given.
PayloadMade(c) ==
  kind[c] = "embedded" /\ phase[c] = "returned" =>
    /\ served[c][1] # None
    /\ payload[c] = IF served[c][1].decision.plan = None THEN None
                    ELSE Translate(served[c][1].decision.plan, ParametersOf(arguments[c]))

StockInv == ClientsInv /\ Stocked /\ \A c \in Callers : PayloadMade(c)

LEMMA StockInit == Init => StockInv
<1> SUFFICES ASSUME Init PROVE StockInv
  OBVIOUS
<1>1. BootRegistry \in Seq(Offered)
  <2>1. BootRegistry \in [1..Len(BootRegistry) -> Offered] /\ Len(BootRegistry) \in Nat
    BY ClientsAssumption DEF Offered, Elements
  <2>2. QED
    BY <2>1, IsASeq
<1>2. Stocked
  BY <1>1 DEF Init, Stocked
<1>3. \A c \in Callers : PayloadMade(c)
  BY DEF Init, PayloadMade
<1>4. QED
  BY <1>2, <1>3, InitClients DEF StockInv

LEMMA StockedNext == StockInv /\ [Next]_vars => Stocked'
<1> SUFFICES ASSUME StockInv, [Next]_vars PROVE Stocked'
  OBVIOUS
<1> USE DEF broker, wire
<1>0. ClientsInv /\ TypeOK /\ Stocked
  BY DEF StockInv, ClientsInv
<1>1. BootRegistry \in Seq(Offered)
  <2>1. BootRegistry \in [1..Len(BootRegistry) -> Offered] /\ Len(BootRegistry) \in Nat
    BY ClientsAssumption DEF Offered, Elements
  <2>2. QED
    BY <2>1, IsASeq
<1>2. ASSUME served' = served, registry' \in Seq(Offered) PROVE Stocked'
  BY <1>0, <1>2 DEF Stocked
<1>3. ASSUME NEW c \in Callers, NEW n \in Attempts, NEW d \in Decision, Handled(c, n, d)
      PROVE  Stocked'
  <2>1. /\ served'[c][n].registry = registry
        /\ \A u \in Callers, m \in Attempts : u # c \/ m # n => served'[u][m] = served[u][m]
    BY <1>0, <1>3, HandledType
  <2>2. registry' = registry
    BY <1>3 DEF Handled
  <2>3. ASSUME NEW u \in Callers, NEW m \in Attempts, served'[u][m] # None
        PROVE  served'[u][m].registry \in Seq(Offered)
    BY <1>0, <2>1, <2>3 DEF Stocked
  <2>4. QED
    BY <1>0, <2>2, <2>3 DEF Stocked
<1>4. ASSUME NEW c \in Callers, TranslateIntent(c) PROVE Stocked'
  <2>1. 1 \in Attempts /\ \E d \in Decision : Handled(c, 1, d)
    BY <1>0, <1>4, TranslateDecides
  <2>2. QED
    BY <1>3, <2>1
<1>5. ASSUME NEW c \in Callers, NEW n \in Attempts, Serve(c, n) PROVE Stocked'
  <2>1. \E d \in Decision : Handled(c, n, d)
    BY <1>0, <1>5, ServeDecides
  <2>2. QED
    BY <1>3, <2>1
<1>6. ASSUME NEW c \in Callers, NEW a \in ArgumentsOf(kind, c), Build(c, a) PROVE Stocked'
  BY <1>0, <1>2, <1>6 DEF Build, Stocked
<1>7. ASSUME NEW c \in Callers, Submit(c) \/ Receive(c) \/ Fail(c) PROVE Stocked'
  BY <1>0, <1>2, <1>7 DEF Submit, Receive, Fail, Stocked
<1>8. ASSUME NEW cap \in Descriptors, Register(cap) PROVE Stocked'
  <2>1. Put(registry, cap) \in Seq(Offered)
    BY <1>0, PutType DEF Stocked, Offered
  <2>2. QED
    BY <1>2, <1>8, <2>1 DEF Register
<1>9. ASSUME NEW i \in DOMAIN registry, Unregister(i) PROVE Stocked'
  <2>1. RemoveAt(registry, i) \in Seq(Offered)
    BY <1>0, RemoveType DEF Stocked
  <2>2. QED
    BY <1>2, <1>9, <2>1 DEF Unregister
<1>10. CASE Restart
  BY <1>1, <1>2, <1>10 DEF Restart
<1>11. CASE UNCHANGED vars
  BY <1>0, <1>2, <1>11 DEF vars, Stocked
<1>12. QED
  BY <1>4, <1>5, <1>6, <1>7, <1>8, <1>9, <1>10, <1>11 DEF Next

LEMMA PayloadNext ==
  ASSUME StockInv, [Next]_vars, NEW u \in Callers
  PROVE  PayloadMade(u)'
<1> USE DEF broker, wire
<1>0. /\ ClientsInv /\ TypeOK /\ Disciplined(u) /\ PayloadMade(u) /\ kind' = kind
  BY OneProgramMoves DEF StockInv, ClientsInv
<1> SUFFICES ASSUME kind[u] = "embedded", phase'[u] = "returned"
             PROVE  /\ served'[u][1] # None
                    /\ payload'[u] = IF served'[u][1].decision.plan = None THEN None
                                     ELSE Translate(served'[u][1].decision.plan,
                                                    ParametersOf(arguments'[u]))
  BY <1>0 DEF PayloadMade
<1>1. CASE TranslateIntent(u)
  <2>1. 1 \in Attempts
    BY <1>0, <1>1, TranslateDecides
  <2>2. PICK d \in Decision :
          /\ Handled(u, 1, d)
          /\ payload' = [payload EXCEPT ![u] =
                           IF d.plan = None THEN None
                           ELSE Translate(d.plan, ParametersOf(arguments[u]))]
    BY <1>0, <1>1, TranslateDecides
  <2>3. served'[u][1] # None /\ served'[u][1].decision = d
    BY <1>0, <2>1, <2>2, HandledType
  <2>4. payload'[u] = IF d.plan = None THEN None
                      ELSE Translate(d.plan, ParametersOf(arguments[u]))
    BY <1>0, <2>2 DEF TypeOK
  <2>5. arguments' = arguments
    BY <1>1 DEF TranslateIntent
  <2>6. QED
    BY <2>3, <2>4, <2>5
<1>2. ASSUME Rests(u), payload'[u] = payload[u]
      PROVE  /\ served'[u][1] # None
             /\ payload'[u] = IF served'[u][1].decision.plan = None THEN None
                              ELSE Translate(served'[u][1].decision.plan,
                                             ParametersOf(arguments'[u]))
  BY <1>0, <1>2 DEF Rests, PayloadMade
<1>3. ~Receive(u) /\ ~Submit(u) /\ ~Fail(u)
  BY <1>0 DEF Receive, Submit, Fail, Disciplined
<1>4. \A a \in ArgumentsOf(kind, u) : ~Build(u, a)
  BY <1>0 DEF Build, TypeOK
<1>5. \A n \in Attempts : ~Serve(u, n)
  BY <1>0, ServeDecides
<1>6. TranslateIntent(u) \/ payload'[u] = payload[u]
  <2>1. ASSUME NEW c \in Callers, TranslateIntent(c), c # u PROVE payload'[u] = payload[u]
    BY <1>0, <2>1, TranslateDecides DEF TypeOK
  <2>2. ASSUME NEW c \in Callers, NEW a \in ArgumentsOf(kind, c), Build(c, a)
        PROVE  payload'[u] = payload[u]
    BY <2>2 DEF Build
  <2>3. ASSUME NEW c \in Callers, NEW n \in Attempts, Serve(c, n)
        PROVE  payload'[u] = payload[u]
    BY <2>3 DEF Serve
  <2>4. ASSUME NEW c \in Callers, Submit(c) \/ Receive(c) \/ Fail(c)
        PROVE  payload'[u] = payload[u]
    BY <2>4 DEF Submit, Receive, Fail
  <2>5. ASSUME (\E cap \in Descriptors : Register(cap))
               \/ (\E i \in DOMAIN registry : Unregister(i)) \/ Restart
        PROVE  payload'[u] = payload[u]
    BY <2>5 DEF Register, Unregister, Restart
  <2>6. CASE UNCHANGED vars
    BY <2>6 DEF vars
  <2>7. QED
    BY <2>1, <2>2, <2>3, <2>4, <2>5, <2>6 DEF Next
<1>7. TranslateIntent(u) \/ Rests(u)
  BY <1>0, <1>3, <1>4, <1>5, OneProgramMoves DEF Moves
<1>8. QED
  BY <1>1, <1>2, <1>6, <1>7

LEMMA StockInvHolds == Spec => []StockInv
<1>1. ClientsInv /\ [Next]_vars => ClientsInv'
  BY ClientsType, DisciplinedNext, DecidedNext, ToldNext, WiredNext, LoggedNext DEF ClientsInv
<1>2. StockInv /\ [Next]_vars => StockInv'
  BY <1>1, StockedNext, PayloadNext DEF StockInv
<1>3. QED
  BY <1>2, StockInit, PTL DEF Spec

--------------------------------------------------------------------------------
\* A plan that a program is given is for a capability that was offered.
LEMMA PlanOffered ==
  ASSUME StockInv, NEW c \in Callers, NEW n \in Attempts, served[c][n] # None,
         served[c][n].decision.plan # None
  PROVE  LET d == served[c][n].decision
         IN  /\ d.plan.cap \in Offered
             /\ Considered(Envelope(c), served[c][n].registry, d)
<1> DEFINE d == served[c][n].decision
<1>1. ClientsInv /\ served[c][n].registry \in Seq(Offered)
  BY DEF StockInv, Stocked
<1>2. Considered(Envelope(c), served[c][n].registry, d)
  BY <1>1, Behind
<1>3. d.plan.cap \in Elements(served[c][n].registry)
  BY <1>2 DEF Considered
<1>4. QED
  BY <1>1, <1>2, <1>3 DEF Elements

\* If every capability that is ever offered and changes something asks for internal
\* trust, no actor below internal trust gets a plan that changes something.
THEOREM OfferedWritesAreTrusted ==
  ASSUME \A cap \in Offered : GuardsWrites(cap)
  PROVE  Spec => []SeededWritesNeedTrust
<1>1. StockInv => SeededWritesNeedTrust
  <2> SUFFICES ASSUME StockInv, NEW c \in Callers, NEW s \in Services(c),
                      s.decision.plan # None,
                      s.decision.plan.cap.opClass \in {"write", "execute", "delegate"}
               PROVE  Reaches(arguments[c].actor.trust, "internal")
    BY DEF SeededWritesNeedTrust
  <2>1. PICK n \in Attempts : s = served[c][n] /\ served[c][n] # None
    BY DEF Services
  <2> DEFINE cap == s.decision.plan.cap
  <2>2. cap \in Offered /\ Considered(Envelope(c), s.registry, s.decision)
    BY <2>1, PlanOffered
  <2>3. Reaches(Envelope(c).actor.trust, cap.minTrust)
    BY <2>2 DEF Considered, Permitted
  <2>4. Reaches(cap.minTrust, "internal")
    BY <2>2 DEF GuardsWrites
  <2>5. Envelope(c).actor = arguments[c].actor
    BY DEF Envelope, PythonEnvelope, GoEnvelope, Defaults
  <2>6. arguments[c].actor.trust \in TrustLevels /\ cap.minTrust \in TrustLevels
    <3>1. arguments[c] \in Arguments /\ s.registry \in Seq(CapabilityDescriptor)
      BY <2>1, Behind DEF StockInv
    <3>2. cap \in CapabilityDescriptor
      BY <2>2, <3>1 DEF Considered, Elements
    <3>3. QED
      BY <3>1, <3>2 DEF Arguments, ActorDescriptor, CapabilityDescriptor
  <2> HIDE DEF cap
  <2>7. QED
    BY <2>3, <2>4, <2>5, <2>6 DEF Reaches, TrustRank, TrustLevels
<1>2. QED
  BY <1>1, StockInvHolds, PTL

\* The seeds do.
LEMMA SeedsGuardWrites == \A cap \in Seeds : GuardsWrites(cap)
<1>1. Seeds = {RetrieveDocument, SearchKnowledgeBase, SummarizeDocument, ReserveTable,
               DiagnoseNetworkIssue, QueryCustomerData, CollectDeviceTelemetry,
               SummarizeForCustomer, DelegateAgentTask}
  BY DEF Seeds, Elements, SeededRegistry
<1>2. /\ Reaches("internal", "internal") /\ Reaches("privileged", "internal")
  BY DEF Reaches, TrustRank
<1>3. \A i, d, o, r, x, t, b :
        /\ Seed(i, d, o, r, x, t, b).minTrust = t
        /\ \A h : Titled(i, h, d, o, r, x, t, b).minTrust = t
  BY DEF Seed, Titled
<1>4. \A cap \in Seeds : cap.minTrust \in {"internal", "privileged"}
  BY <1>1, <1>3 DEF RetrieveDocument, SearchKnowledgeBase, SummarizeDocument, ReserveTable,
     DiagnoseNetworkIssue, QueryCustomerData, CollectDeviceTelemetry, SummarizeForCustomer,
     DelegateAgentTask
<1>5. QED
  BY <1>2, <1>4 DEF GuardsWrites

--------------------------------------------------------------------------------
\* Every required field that is given with the kind its schema names, or not given at
\* all, is in the payload.
LEMMA RequiredTravel ==
  ASSUME NEW plan \in ExecutionPlan, NEW params, SchemaTravels(plan.cap),
         plan.binding \in Elements(plan.cap.bindings),
         WellTyped(params, InputSchema(plan.cap.id).kinds)
  PROVE  InputSchema(plan.cap.id).required \subseteq Translate(plan, params).fields
<1> DEFINE grounded == Ground(params, plan.cap.id)
           schema   == InputSchema(plan.cap.id)
           fields   == CASE plan.binding = "rest" -> RestFields(grounded, plan.cap.opClass)
                         [] plan.binding = "rag"  -> RagFields(grounded)
                         [] plan.binding = "grpc" -> RequestMessage(grounded)
                         [] plan.binding = "mcp"  -> ToolArguments(grounded)
                         [] plan.binding = "a2a"  -> TaskParameters(grounded)
<1>1. Translate(plan, params).fields = fields
  BY DEF Translate
<1>2. plan.binding \in BindingTypes
  BY DEF ExecutionPlan
<1>3. ASSUME NEW f \in schema.required
      PROVE  /\ f \in DOMAIN grounded
             /\ grounded[f] = IF f \in DOMAIN params THEN schema.kinds[f] ELSE "placeholder"
  BY DEF Ground, WellTyped, SchemaTravels
<1> HIDE DEF grounded
<1>4. CASE plan.binding = "rest"
  <2>1. fields = RestFields(grounded, plan.cap.opClass)
    BY <1>4
  <2>2. schema.required \subseteq RestFields(grounded, plan.cap.opClass)
    BY <1>3, <1>4 DEF RestFields, Flat, SchemaTravels, RestMethod
  <2>3. QED
    BY <1>1, <2>1, <2>2
<1>5. CASE plan.binding = "rag"
  <2>1. fields = RagFields(grounded)
    BY <1>5
  <2>2. ASSUME NEW f \in schema.required PROVE f \in RagFields(grounded)
    <3>1. f \in Flat(grounded) /\ f \notin {"source", "text"}
      BY <1>3, <1>5 DEF Flat, SchemaTravels
    <3>2. CASE f = "collection"
      BY <1>3, <3>2 DEF RagFields, RagCollection
    <3>3. CASE f = "query"
      BY <1>3, <3>3 DEF RagFields, RagQuery
    <3>4. QED
      BY <3>1, <3>2, <3>3 DEF RagFields
  <2>3. QED
    BY <1>1, <2>1, <2>2
<1>6. CASE plan.binding \in {"grpc", "mcp", "a2a"}
  <2>1. fields = DOMAIN grounded
    BY <1>6 DEF RequestMessage, ToolArguments, TaskParameters
  <2>2. QED
    BY <1>1, <1>3, <2>1
<1>7. QED
  BY <1>2, <1>4, <1>5, <1>6 DEF BindingTypes

\* If the schemas of all that is ever offered fit their bindings, and every capability
\* has its plans made over one of its own bindings, payloads serve the embedding program.
THEOREM OfferedPayloadsServe ==
  ASSUME \A cap \in Offered : SchemaTravels(cap)
  PROVE  Spec => []PayloadServesCaller
<1>1. StockInv => PayloadServesCaller
  <2> SUFFICES ASSUME StockInv, NEW c \in Callers, kind[c] = "embedded",
                      phase[c] = "returned", served[c][1].decision.plan # None
               PROVE  LET plan   == served[c][1].decision.plan
                          listed == Elements(arguments[c].bindings)
                                      \cap Elements(plan.cap.bindings)
                          schema == InputSchema(plan.cap.id)
                      IN  /\ payload[c] # None
                          /\ payload[c].binding \in Elements(plan.cap.bindings)
                          /\ listed # {} => payload[c].binding \in listed
                          /\ WellTyped(ParametersOf(arguments[c]), schema.kinds) =>
                               schema.required \subseteq payload[c].fields
    BY DEF PayloadServesCaller
  <2> DEFINE plan == served[c][1].decision.plan
             params == ParametersOf(arguments[c])
             e == Envelope(c)
  <2>1. /\ served[c][1] # None
        /\ payload[c] = Translate(plan, params)
    BY DEF StockInv, PayloadMade
  <2>2. ClientsInv /\ TypeOK /\ 1 \in Attempts
    BY ClientsAssumption DEF StockInv, ClientsInv, Attempts
  <2>3. /\ plan \in ExecutionPlan /\ plan.cap \in Offered
        /\ SelectedBinding(plan.binding, e, plan.cap)
    BY <2>1, <2>2, PlanOffered DEF Considered
  <2>4. e.bindings = arguments[c].bindings /\ e.requirementBindings = <<>>
    BY DEF Envelope, PythonEnvelope, Defaults
  <2>5. arguments[c].bindings \in Seq(BindingTypes) /\ plan.cap.bindings \in Seq(BindingTypes)
    BY <2>1, <2>2, <2>3, Behind DEF Arguments, ExecutionPlan, CapabilityDescriptor
  <2>6. DOMAIN params \subseteq Fields
    <3>1. arguments[c] \in ArgumentsOf(kind, c) /\ kind \in Kinds
      BY <2>2 DEF ClientsInv, Disciplined, TypeOK
    <3>2. QED
      BY <3>1, ClientsAssumption
  <2>7. payload[c] # None /\ payload[c].binding = plan.binding
    <3>1. Translate(plan, params) \in Payload
      BY <2>3, <2>6, PayloadType
    <3>2. Translate(plan, params).binding = plan.binding
      BY DEF Translate
    <3>3. QED
      BY <2>1, <3>1, <3>2, ClientsAssumption
  <2> HIDE DEF plan, params, e
  <2>8. /\ plan.binding \in Elements(plan.cap.bindings)
        /\ Elements(arguments[c].bindings) \cap Elements(plan.cap.bindings) # {} =>
             plan.binding \in Elements(arguments[c].bindings)
    <3>1. plan.binding # None
      BY <2>3, NoneAssumption DEF ExecutionPlan
    <3>2. CASE FirstSupported(plan.binding, e.bindings, plan.cap)
      BY <2>4, <3>2 DEF FirstSupported, Elements
    <3>3. CASE ~FirstSupported(plan.binding, e.bindings, plan.cap)
      <4>1. ~FirstSupported(plan.binding, e.requirementBindings, plan.cap)
        BY <2>4 DEF FirstSupported
      <4>2. /\ NoneSupported(e.bindings, plan.cap)
            /\ plan.binding = IF plan.cap.bindings = <<>> THEN None ELSE plan.cap.bindings[1]
        BY <2>3, <3>3, <4>1 DEF SelectedBinding
      <4>3. plan.binding = plan.cap.bindings[1] /\ 1 \in DOMAIN plan.cap.bindings
        BY <2>5, <3>1, <4>2
      <4>4. QED
        BY <2>4, <4>2, <4>3 DEF NoneSupported, Elements
    <3>4. QED
      BY <3>2, <3>3
  <2>9. WellTyped(params, InputSchema(plan.cap.id).kinds) =>
          InputSchema(plan.cap.id).required \subseteq payload[c].fields
    BY <2>1, <2>3, <2>8, RequiredTravel DEF plan, params
  <2>10. QED
    BY <2>7, <2>8, <2>9 DEF plan, params
<1>2. QED
  BY <1>1, StockInvHolds, PTL

\* The seeds, by their ids.
LEMMA SeedIds ==
  /\ Seeds = {RetrieveDocument, SearchKnowledgeBase, SummarizeDocument, ReserveTable,
              DiagnoseNetworkIssue, QueryCustomerData, CollectDeviceTelemetry,
              SummarizeForCustomer, DelegateAgentTask}
  /\ RetrieveDocument.id = <<"retrieve", "document">>
  /\ SearchKnowledgeBase.id = <<"search", "knowledge", "base">>
  /\ SummarizeDocument.id = <<"summarize", "document">>
  /\ ReserveTable.id = <<"reserve", "table">>
  /\ DiagnoseNetworkIssue.id = <<"diagnose", "network", "issue">>
  /\ QueryCustomerData.id = <<"query", "customer", "data">>
  /\ CollectDeviceTelemetry.id = <<"collect", "device", "telemetry">>
  /\ SummarizeForCustomer.id = <<"summarize", "for", "customer">>
  /\ DelegateAgentTask.id = <<"delegate", "agent", "task">>
<1>1. Seeds = {RetrieveDocument, SearchKnowledgeBase, SummarizeDocument, ReserveTable,
               DiagnoseNetworkIssue, QueryCustomerData, CollectDeviceTelemetry,
               SummarizeForCustomer, DelegateAgentTask}
  BY DEF Seeds, Elements, SeededRegistry
<1>2. \A i, d, o, r, x, t, b :
        Seed(i, d, o, r, x, t, b).id = i /\ \A h : Titled(i, h, d, o, r, x, t, b).id = i
  BY DEF Seed, Titled
<1>3. QED
  BY <1>1, <1>2 DEF RetrieveDocument, SearchKnowledgeBase, SummarizeDocument, ReserveTable,
     DiagnoseNetworkIssue, QueryCustomerData, CollectDeviceTelemetry, SummarizeForCustomer, DelegateAgentTask

\* The schemas of the seeds do, every one over every binding of its seed.
LEMMA SeedsTravel == \A cap \in Seeds : SchemaTravels(cap)
<1>1. Seeds = {RetrieveDocument, SearchKnowledgeBase, SummarizeDocument, ReserveTable,
               DiagnoseNetworkIssue, QueryCustomerData, CollectDeviceTelemetry,
               SummarizeForCustomer, DelegateAgentTask}
  BY SeedIds
<1>2. \A i, d, o, r, x, t, b :
        /\ /\ Seed(i, d, o, r, x, t, b).id = i
           /\ Seed(i, d, o, r, x, t, b).opClass = o
           /\ Seed(i, d, o, r, x, t, b).bindings = b
        /\ \A h : /\ Titled(i, h, d, o, r, x, t, b).id = i
                  /\ Titled(i, h, d, o, r, x, t, b).opClass = o
                  /\ Titled(i, h, d, o, r, x, t, b).bindings = b
  BY DEF Seed, Titled
<1>3. \A s, n, x, r :
        /\ Schema(s, n, x, r).required = r
        /\ DOMAIN Schema(s, n, x, r).kinds = s \cup n \cup x
        /\ \A f \in s : Schema(s, n, x, r).kinds[f] = "string"
        /\ \A f \in n : f \notin s => Schema(s, n, x, r).kinds[f] = "number"
  BY DEF Schema
<1>4. /\ RetrieveDocument.id = <<"retrieve", "document">>
      /\ SearchKnowledgeBase.id = <<"search", "knowledge", "base">>
      /\ SummarizeDocument.id = <<"summarize", "document">>
      /\ ReserveTable.id = <<"reserve", "table">>
      /\ DiagnoseNetworkIssue.id = <<"diagnose", "network", "issue">>
      /\ QueryCustomerData.id = <<"query", "customer", "data">>
      /\ CollectDeviceTelemetry.id = <<"collect", "device", "telemetry">>
      /\ SummarizeForCustomer.id = <<"summarize", "for", "customer">>
      /\ DelegateAgentTask.id = <<"delegate", "agent", "task">>
  BY SeedIds
<1>5. SchemaTravels(RetrieveDocument)
  BY <1>2, <1>3, <1>4 DEF SchemaTravels, InputSchema, RetrieveDocument, RestMethod, Elements
<1>6. SchemaTravels(SearchKnowledgeBase)
  BY <1>2, <1>3, <1>4 DEF SchemaTravels, InputSchema, SearchKnowledgeBase, RestMethod, Elements
<1>7. SchemaTravels(SummarizeDocument)
  BY <1>2, <1>3, <1>4 DEF SchemaTravels, InputSchema, SummarizeDocument, RestMethod, Elements
<1>8. SchemaTravels(ReserveTable)
  BY <1>2, <1>3, <1>4 DEF SchemaTravels, InputSchema, ReserveTable, RestMethod, Elements
<1>9. SchemaTravels(DiagnoseNetworkIssue)
  BY <1>2, <1>3, <1>4 DEF SchemaTravels, InputSchema, DiagnoseNetworkIssue, RestMethod, Elements
<1>10. SchemaTravels(QueryCustomerData)
  BY <1>2, <1>3, <1>4 DEF SchemaTravels, InputSchema, QueryCustomerData, RestMethod, Elements
<1>11. SchemaTravels(CollectDeviceTelemetry)
  BY <1>2, <1>3, <1>4 DEF SchemaTravels, InputSchema, CollectDeviceTelemetry, RestMethod, Elements
<1>12. SchemaTravels(SummarizeForCustomer)
  BY <1>2, <1>3, <1>4 DEF SchemaTravels, InputSchema, SummarizeForCustomer, RestMethod, Elements
<1>13. SchemaTravels(DelegateAgentTask)
  BY <1>2, <1>3, <1>4 DEF SchemaTravels, InputSchema, DelegateAgentTask, RestMethod, Elements
<1>14. QED
  BY <1>1, <1>5, <1>6, <1>7, <1>8, <1>9, <1>10, <1>11, <1>12, <1>13

--------------------------------------------------------------------------------
\* A capability that is named, and agrees in class or domain, has ten half points or more;
\* one that is not named at all has eight at most.  The order of the list and where it is
\* cut do not help it.
LEMMA NamedWins ==
  ASSUME NEW e \in IntentEnvelope, e.bindings = <<>>, e.hints = {}, e.maxCandidates >= 0,
         NEW reg \in Seq(CapabilityDescriptor), NEW i \in DOMAIN reg,
         \A d \in Elements(reg) :
           d.nameMatch[e.name] = (IF d.id = reg[i].id THEN "exact" ELSE "none"),
         Reaches(e.actor.trust, reg[i].minTrust),
         reg[i].opClass = e.opClass \/ reg[i].domainMatch[e.domain] = "exact",
         NEW n \in Negotiations(e, reg), n.selected # None
  PROVE  n.selected.id = reg[i].id
<1> DEFINE S == Scored(e, reg)
           named == [cap |-> reg[i], score |-> Score(e, reg[i]), place |-> i]
<1>1. PICK t \in S : IsTop(t, FindMatches(e, reg)) /\ n.selected = t.cap
  BY SelectionOrigin
<1>2. Foremost(t, S)
  BY <1>1, TopIsLeader
<1>3. reg[i] \in CapabilityDescriptor /\ reg[i] \in Elements(reg)
  BY DEF Elements
<1>4. t.cap \in CapabilityDescriptor /\ t.cap \in Elements(reg) /\ t.score = Score(e, t.cap)
  BY <1>1, ScoredOrigin DEF Elements, Candidate
<1>5. named \in S
  <2>1. HasSignal(e, reg[i])
    BY <1>3 DEF HasSignal
  <2>2. QED
    BY <2>1 DEF Scored
<1>6. ASSUME NEW cap \in CapabilityDescriptor
      PROVE  Score(e, cap) = NameScore[cap.nameMatch[e.name]] + DomainScore[cap.domainMatch[e.domain]]
                               + (IF cap.opClass = e.opClass THEN 4 ELSE 0)
  <2>1. PreferredBinding(e) \notin Elements(cap.bindings)
    BY NoneAssumption DEF PreferredBinding, Elements, CapabilityDescriptor
  <2>2. /\ NameScore[cap.nameMatch[e.name]] \in Nat
        /\ DomainScore[cap.domainMatch[e.domain]] \in Nat
    BY DEF NameScore, DomainScore, IntentEnvelope, CapabilityDescriptor, MatchKinds
  <2>3. QED
    BY <2>1, <2>2 DEF Score
<1>7. \A cap \in CapabilityDescriptor :
        /\ DomainScore[cap.domainMatch[e.domain]] \in 0..4
        /\ cap.domainMatch[e.domain] = "exact" => DomainScore[cap.domainMatch[e.domain]] = 4
  BY DEF DomainScore, IntentEnvelope, CapabilityDescriptor, MatchKinds
<1>8. NameScore["exact"] = 6 /\ NameScore["none"] = 0
  BY DEF NameScore
<1>9. named.score >= 10
  BY <1>3, <1>6, <1>7, <1>8
<1>10. SUFFICES ASSUME t.cap.id # reg[i].id PROVE FALSE
  BY <1>1
<1>11. t.score <= 8
  <2>1. t.cap.nameMatch[e.name] = "none"
    BY <1>4, <1>10
  <2>2. t.score = NameScore[t.cap.nameMatch[e.name]] + DomainScore[t.cap.domainMatch[e.domain]]
                    + (IF t.cap.opClass = e.opClass THEN 4 ELSE 0)
    BY <1>4, <1>6
  <2>3. DomainScore[t.cap.domainMatch[e.domain]] \in 0..4
    BY <1>4, <1>7
  <2>4. QED
    BY <1>8, <2>1, <2>2, <2>3
<1>12. t.score \in Nat /\ named.score \in Nat
  BY <1>1, <1>5, ScoredOrder
<1>13. t # named
  BY <1>10
<1> HIDE DEF named
<1>14. Before(t, named)
  BY <1>2, <1>5, <1>13 DEF Foremost
<1>15. QED
  BY <1>9, <1>11, <1>12, <1>14 DEF Before

\* If the id of every capability that is ever offered matches no other's name, an intent
\* that names one exactly, and agrees with it in class or domain, gets that one or none.
THEOREM OfferedNamesAreHeeded ==
  ASSUME \A cap, other \in Offered : KnownApart(cap, other)
  PROVE  Spec => []NamedIsSelected
<1>1. StockInv => NamedIsSelected
  <2> SUFFICES ASSUME StockInv, NEW c \in Callers, NEW s \in Services(c),
                      NEW cap \in Elements(s.registry),
                      cap.id = arguments[c].name,
                      cap.opClass = arguments[c].opClass
                        \/ cap.domainMatch[arguments[c].domain] = "exact",
                      Reaches(arguments[c].actor.trust, cap.minTrust),
                      Envelope(c).bindings = <<>>
               PROVE  s.decision.capability \in {cap.id, None}
    BY DEF NamedIsSelected
  <2> DEFINE e == Envelope(c)
             reg == s.registry
  <2>1. PICK m \in Attempts : s = served[c][m] /\ served[c][m] # None
    BY DEF Services
  <2>2. /\ arguments[c] \in Arguments /\ reg \in Seq(CapabilityDescriptor)
        /\ s.decision \in Outlook(c, reg)
    BY <2>1, Behind DEF StockInv, ClientsInv, Decided
  <2>3. reg \in Seq(Offered)
    BY <2>1 DEF StockInv, Stocked
  <2>4. e \in IntentEnvelope
    BY <2>2, EnvelopeType DEF Envelope
  <2>5. /\ e.actor = arguments[c].actor /\ e.name = arguments[c].name
        /\ e.domain = arguments[c].domain /\ e.opClass = arguments[c].opClass
        /\ e.hints = {} /\ e.maxCandidates = 5
    BY DEF Envelope, PythonEnvelope, GoEnvelope, Defaults
  <2>6. e.bindings = <<>>
    OBVIOUS
  <2>7. PICK i \in DOMAIN reg : cap = reg[i]
    BY DEF Elements
  <2>8. e.name \in Names
    BY <2>4 DEF IntentEnvelope
  <2>9. \A d \in Elements(reg) : d.nameMatch[e.name] = (IF d.id = reg[i].id THEN "exact" ELSE "none")
    <3>1. Elements(reg) \subseteq Offered
      BY <2>3 DEF Elements
    <3>2. QED
      BY <2>5, <2>7, <2>8, <3>1 DEF KnownApart
  <2> HIDE DEF e, reg
  <2>10. ASSUME NEW n \in Negotiations(e, reg), n.selected # None PROVE n.selected.id = cap.id
    <3>1. /\ Reaches(e.actor.trust, reg[i].minTrust)
          /\ reg[i].opClass = e.opClass \/ reg[i].domainMatch[e.domain] = "exact"
      BY <2>5, <2>7
    <3>2. e.maxCandidates >= 0
      BY <2>5
    <3>3. n.selected.id = reg[i].id
      BY <2>2, <2>4, <2>5, <2>6, <2>9, <2>10, <3>1, <3>2, NamedWins
    <3>4. QED
      BY <2>7, <3>3
  <2>11. CASE s.decision = NoPlan("malformed", None)
    BY <2>11 DEF NoPlan
  <2>12. CASE s.decision \in Decisions(e, reg)
    <3>1. CASE s.decision = NoPlan("validation_failed", None)
      BY <3>1 DEF NoPlan
    <3>2. ASSUME NEW n \in Negotiations(e, reg),
                 s.decision = IF n.selected = None THEN NoPlan("clarification_requested", None)
                                                   ELSE Judged(e, n)
          PROVE  s.decision.capability \in {cap.id, None}
      <4>1. CASE n.selected = None
        BY <3>2, <4>1 DEF NoPlan
      <4>2. CASE n.selected # None
        <5>1. Judged(e, n).capability \in {n.selected.id, None}
          BY DEF Judged, NoPlan, Planned
        <5>2. QED
          BY <2>10, <3>2, <4>2, <5>1
      <4>3. QED
        BY <4>1, <4>2
    <3>3. QED
      BY <2>12, <3>1, <3>2 DEF Decisions
  <2>13. QED
    BY <2>2, <2>11, <2>12 DEF Outlook, e, reg
<1>2. QED
  BY <1>1, StockInvHolds, PTL

\* Whatever occurs in a string occurs there word by word.
LEMMA WordsOccur ==
  ASSUME NEW W, NEW part \in Seq(W), NEW whole \in Seq(W), OccursIn(part, whole)
  PROVE  Elements(part) \subseteq Elements(whole)
<1>1. PICK i \in 1..(Len(whole) - Len(part) + 1) : SubSeq(whole, i, i + Len(part) - 1) = part
  BY DEF OccursIn
<1>2. /\ Len(whole) \in Nat /\ Len(part) \in Nat
      /\ DOMAIN part = 1..Len(part) /\ DOMAIN whole = 1..Len(whole)
  OBVIOUS
<1>3. ASSUME NEW k \in 1..Len(part) PROVE part[k] \in Elements(whole)
  <2> DEFINE last == i + Len(part) - 1
  <2>1. /\ i \in Int /\ last \in Int /\ last - i + 1 = Len(part)
        /\ i + k - 1 \in 1..Len(whole) /\ \A j \in i..last : j \in 1..Len(whole)
    BY <1>1, <1>2
  <2>2. \A j \in i..last : whole[j] \in W
    BY <1>2, <2>1
  <2> HIDE DEF last
  <2>3. SubSeq(whole, i, last)[k] = whole[i + k - 1]
    BY <2>1, <2>2, SubSeqProperties
  <2>4. SubSeq(whole, i, last) = part
    BY <1>1 DEF last
  <2>5. QED
    BY <1>2, <2>1, <2>3, <2>4 DEF Elements
<1>4. QED
  BY <1>2, <1>3 DEF Elements

\* Every seed's id has a word, or two, that no other's has together.
LEMMA SeedsKnownApart == \A cap, other \in Seeds : KnownApart(cap, other)
<1> DEFINE words(cap) == Elements(cap.id)
<1>1. /\ words(RetrieveDocument) = {"retrieve", "document"}
      /\ words(SearchKnowledgeBase) = {"search", "knowledge", "base"}
      /\ words(SummarizeDocument) = {"summarize", "document"}
      /\ words(ReserveTable) = {"reserve", "table"}
      /\ words(DiagnoseNetworkIssue) = {"diagnose", "network", "issue"}
      /\ words(QueryCustomerData) = {"query", "customer", "data"}
      /\ words(CollectDeviceTelemetry) = {"collect", "device", "telemetry"}
      /\ words(SummarizeForCustomer) = {"summarize", "for", "customer"}
      /\ words(DelegateAgentTask) = {"delegate", "agent", "task"}
  BY SeedIds DEF Elements
<1> DEFINE W == UNION {words(cap) : cap \in Seeds}
<1>2. \A cap \in Seeds : cap.id \in Seq(W) /\ Len(cap.id) # 1
  <2>1. \A cap \in Seeds : words(cap) \subseteq W
    OBVIOUS
  <2> HIDE DEF W
  <2>2. ASSUME NEW u, NEW v, Elements(<<u, v>>) \subseteq W
        PROVE  <<u, v>> \in Seq(W) /\ Len(<<u, v>>) # 1
    <3>1. u \in W /\ v \in W
      BY <2>2 DEF Elements
    <3>2. QED
      BY <3>1
  <2>3. ASSUME NEW u, NEW v, NEW w, Elements(<<u, v, w>>) \subseteq W
        PROVE  <<u, v, w>> \in Seq(W) /\ Len(<<u, v, w>>) # 1
    <3>1. u \in W /\ v \in W /\ w \in W
      BY <2>3 DEF Elements
    <3>2. QED
      BY <3>1
  <2>4. \A cap \in Seeds : (\E u, v : cap.id = <<u, v>>) \/ (\E u, v, w : cap.id = <<u, v, w>>)
    BY SeedIds
  <2>5. QED
    BY <2>1, <2>2, <2>3, <2>4
<1> HIDE DEF W
<1> HIDE DEF words
<1>3. \A cap, other \in Seeds : words(cap) \subseteq words(other) => cap = other
  BY <1>1, SeedIds
<1> DEFINE match(id, title) == [n \in Names |-> NameMatchOf(n, id, title)]
<1>4. \E h : ReserveTable.nameMatch = match(ReserveTable.id, h)
  BY DEF ReserveTable, Titled
<1> HIDE DEF match
<1>5. ASSUME NEW cap \in Seeds PROVE \E h : cap.nameMatch = match(cap.id, h)
  <2>1. CASE cap = ReserveTable
    BY <1>4, <2>1
  <2>2. CASE cap # ReserveTable
    <3>1. PICK i, d, o, r, x, s, b : cap = Seed(i, d, o, r, x, s, b)
      BY <2>2, SeedIds DEF RetrieveDocument, SearchKnowledgeBase, SummarizeDocument,
         DiagnoseNetworkIssue, QueryCustomerData, CollectDeviceTelemetry, SummarizeForCustomer,
         DelegateAgentTask
    <3>2. cap.id = i /\ cap.nameMatch = match(i, i)
      BY <3>1 DEF Seed, Titled, match
    <3>3. QED
      BY <3>2
  <2>3. QED
    BY <2>1, <2>2
<1>6. ASSUME NEW cap \in Seeds, NEW other \in Seeds, cap.id \in Names
      PROVE  other.nameMatch[cap.id] = (IF other.id = cap.id THEN "exact" ELSE "none")
  <2>1. PICK h : other.nameMatch = [n \in Names |-> NameMatchOf(n, other.id, h)]
    BY <1>5 DEF match
  <2>2. other.nameMatch[cap.id] = NameMatchOf(cap.id, other.id, h)
    BY <1>6, <2>1
  <2>3. other.id # cap.id => ~OccursIn(cap.id, other.id)
    <3>1. OccursIn(cap.id, other.id) => words(cap) \subseteq words(other)
      BY <1>2, WordsOccur DEF words
    <3>2. QED
      BY <1>3, <3>1
  <2>4. QED
    BY <1>2, <2>2, <2>3 DEF NameMatchOf
<1>7. QED
  BY <1>6 DEF KnownApart

\* So with nothing but seeds registered, writes need internal trust, payloads carry
\* what is required, and whoever names a seed and fits it gets no other.
COROLLARY SeedsKeepTheirPromises ==
  ASSUME Offered \subseteq Seeds
  PROVE  Spec => [](SeededWritesNeedTrust /\ PayloadServesCaller /\ NamedIsSelected)
<1>1. Spec => []SeededWritesNeedTrust
  BY SeedsGuardWrites, OfferedWritesAreTrusted
<1>2. Spec => []PayloadServesCaller
  BY SeedsTravel, OfferedPayloadsServe
<1>3. Spec => []NamedIsSelected
  BY SeedsKnownApart, OfferedNamesAreHeeded
<1>4. QED
  BY <1>1, <1>2, <1>3, PTL

================================================================================
