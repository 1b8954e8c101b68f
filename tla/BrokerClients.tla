----------------------------- MODULE BrokerClients -----------------------------
(***************************************************************************)
(* Programs that use a seeded broker through the SDKs.  A program in Python *)
(* or Go builds an envelope, submits it over HTTP and may submit the same    *)
(* envelope again when a call fails; a program that embeds the broker calls *)
(* BrokerService.translate.  Requests and responses get lost, a request may *)
(* be served after its caller has given it up, and a broker that restarts    *)
(* comes back with its seeds and without its audit log.                     *)
(*                                                                         *)
(* The HTTP handler runs without awaiting once it has the body, so serving  *)
(* a request is one step here; BrokerPipeline has its stages.  The clock     *)
(* stands still and no gateway adds headers.                                *)
(*                                                                         *)
(* served and the numbers of attempts are auxiliary: the broker knows       *)
(* neither, and a repeated intent is a new one to it.                       *)
(***************************************************************************)
EXTENDS SdkEnvelopes, Translators, OrderedDict

CONSTANTS
  Callers,             \* programs
  Kinds,               \* which SDK each uses, one function per case
  ArgumentsOf(_, _),   \* in a case, what a caller may pass to the builders
  ParametersOf(_),     \* the parameters that go with some arguments
  BootRegistry,        \* the registry the broker starts with
  Descriptors,         \* what providers register later
  Withdrawn,           \* the ids that providers unregister
  EnforceApproval,     \* SIP_REQUIRE_APPROVAL_HIGH_RISK
  MaxAttempts,         \* bound: submissions of one envelope
  MaxRegistryChanges,  \* bound: calls of register and unregister
  MaxRestarts          \* bound: restarts of the broker

Sdks == {"python", "go", "embedded", "absent"}

Attempts == 1..MaxAttempts

Phases == {"idle", "invalid", "built", "waiting", "failed", "returned"}

Decision ==
  [ action : Actions \cup {"malformed"}, capability : CapIds \cup {None},
    plan : ExecutionPlan \cup {None} ]

\* served: what was decided, over which registry, by which incarnation of the broker.
Service == [decision : Decision, registry : Seq(CapabilityDescriptor), life : 0..MaxRestarts]

AuditRecord ==
  [ caller : Callers, attempt : Attempts, action : Actions, capability : CapIds \cup {None},
    outcome : {Outcomes[a] : a \in Actions}, policyAllowed : BOOLEAN ]

\* An HTTP status, and what of the body programs act upon.
Response ==
  [ status : Statuses \cup {422}, planned : BOOLEAN, approvalRequired : BOOLEAN,
    capability : CapIds \cup {None} ]

\* What a call comes back with: the response, returned or wrapped in an exception.
Result == [raised : BOOLEAN, response : Response]

ASSUME ClientsAssumption ==
  /\ Kinds \subseteq [Callers -> Sdks]
  /\ \A k \in Kinds, c \in Callers : ArgumentsOf(k, c) \subseteq Arguments
  /\ \A k \in Kinds, c \in Callers : \A a \in ArgumentsOf(k, c) :
       DOMAIN ParametersOf(a) \subseteq Fields
  /\ BootRegistry \in Seq(CapabilityDescriptor)
  /\ Descriptors \subseteq CapabilityDescriptor /\ Withdrawn \subseteq CapIds
  /\ EnforceApproval \in BOOLEAN
  /\ MaxAttempts \in Nat \ {0} /\ MaxRegistryChanges \in Nat /\ MaxRestarts \in Nat
  /\ None \notin Arguments /\ None \notin Response /\ None \notin CapIds
  /\ None \notin ExecutionPlan /\ None \notin CapabilityDescriptor
  /\ None \notin Service /\ None \notin Result /\ None \notin Payload

VARIABLES
  kind,       \* caller -> its SDK
  arguments,  \* caller -> what it passed to the builder
  phase,      \* caller -> where it is
  attempt,    \* caller -> submissions so far
  result,     \* caller -> the response it got, and whether as an exception
  payload,    \* caller -> the translation an embedding program got
  requests,   \* attempts on their way to the broker
  responses,  \* attempt -> response on its way back, as a set of pairs
  registry,   \* the broker's registry
  changes,    \* changes of the registry so far
  auditLog,   \* BrokerService.audit_log
  life,       \* restarts of the broker so far
  served      \* caller -> attempt -> Service, once served

broker == <<registry, changes, auditLog, life>>
wire == <<requests, responses>>
vars == <<kind, arguments, phase, attempt, result, payload, wire, broker, served>>

TypeOK ==
  /\ kind \in Kinds
  /\ arguments \in [Callers -> Arguments \cup {None}]
  /\ phase \in [Callers -> Phases]
  /\ attempt \in [Callers -> 0..MaxAttempts]
  /\ result \in [Callers -> Result \cup {None}]
  /\ payload \in [Callers -> Payload \cup {None}]
  /\ requests \subseteq Callers \X Attempts
  /\ responses \subseteq (Callers \X Attempts) \X Response
  /\ registry \in Seq(CapabilityDescriptor)
  /\ changes \in 0..MaxRegistryChanges
  /\ auditLog \in Seq(AuditRecord)
  /\ life \in 0..MaxRestarts
  /\ served \in [Callers -> [Attempts -> Service \cup {None}]]

Init ==
  /\ kind \in Kinds
  /\ arguments = [c \in Callers |-> None]
  /\ phase = [c \in Callers |-> "idle"]
  /\ attempt = [c \in Callers |-> 0]
  /\ result = [c \in Callers |-> None]
  /\ payload = [c \in Callers |-> None]
  /\ requests = {}
  /\ responses = {}
  /\ registry = BootRegistry
  /\ changes = 0
  /\ auditLog = <<>>
  /\ life = 0
  /\ served = [c \in Callers |-> [n \in Attempts |-> None]]

--------------------------------------------------------------------------------
(* What the broker decides of an envelope, and what it answers over HTTP.   *)

\* The reading of the wall clock that delegations expire by.
Now == 1

NoPlan(action, cap) == [action |-> action, capability |-> cap, plan |-> None]

Planned(negotiation, verdict) ==
  [ action     |-> IF verdict.requiresApproval THEN "approval_requested" ELSE "plan_created",
    capability |-> negotiation.selected.id,
    plan       |-> MakePlan(negotiation, verdict) ]

Judged(e, negotiation) ==
  LET verdict == Evaluate(e, negotiation.selected, EnforceApproval)
  IN  IF ~verdict.allowed THEN NoPlan("policy_denied", negotiation.selected.id)
      ELSE IF Plannable(negotiation) THEN Planned(negotiation, verdict)
      ELSE NoPlan("plan_rejected", None)

\* process_intent, as a set of one element.
Decisions(e, caps) ==
  IF ~ValidEnvelope(e, Now) THEN {NoPlan("validation_failed", None)}
  ELSE { IF n.selected = None THEN NoPlan("clarification_requested", None)
                              ELSE Judged(e, n) : n \in Negotiations(e, caps) }

\* Mutant: the record repeats the action as its outcome.
RecordOfAction(c, n, d) ==
  [ caller |-> c, attempt |-> n, action |-> d.action, capability |-> d.capability,
    outcome |-> d.action,
    policyAllowed |-> d.action \notin {"validation_failed", "policy_denied"} ]

Record(c, n, d) ==
  [ caller |-> c, attempt |-> n, action |-> d.action, capability |-> d.capability,
    outcome |-> Outcomes[d.action],
    policyAllowed |-> d.action \notin {"validation_failed", "policy_denied"} ]

\* Mutant: the flag is taken from the outcome's being a success.
RespondByOutcome(c, n, d) ==
  [ status |-> IF d.action = "malformed" THEN 422 ELSE StatusCode(Record(c, n, d)),
    planned |-> d.plan # None,
    approvalRequired |-> FALSE,
    capability |-> d.capability ]

\* A body that is no envelope is answered with an error object: every field is absent.
Respond(c, n, d) ==
  [ status |-> IF d.action = "malformed" THEN 422 ELSE StatusCode(Record(c, n, d)),
    planned |-> d.plan # None,
    approvalRequired |-> d.plan # None /\ d.plan.approvalRequired,
    capability |-> d.capability ]

Envelope(c) ==
  IF kind[c] = "go" THEN GoEnvelope(arguments[c]) ELSE PythonEnvelope(arguments[c])

--------------------------------------------------------------------------------
(* Programs.                                                                *)

\* A Python program builds: the model refuses the extensions it cannot carry.  A Go
\* program fills a struct that nobody looks at.
Build(c, a) ==
  /\ phase[c] = "idle"
  /\ kind[c] # "absent"
  /\ arguments' = [arguments EXCEPT ![c] = a]
  /\ phase' = [phase EXCEPT ![c] =
                 IF kind[c] = "go" \/ ValidExtensions(a.extensions) THEN "built" ELSE "invalid"]
  /\ UNCHANGED <<kind, attempt, result, payload, wire, broker, served>>

\* Mutant: the client sends the envelope again while it is still waiting.
SubmitHedged(c) ==
  /\ phase[c] \in {"built", "failed", "waiting"}
  /\ kind[c] # "embedded"
  /\ attempt[c] < MaxAttempts
  /\ attempt' = [attempt EXCEPT ![c] = @ + 1]
  /\ phase' = [phase EXCEPT ![c] = "waiting"]
  /\ requests' = requests \cup {<<c, attempt[c] + 1>>}
  /\ UNCHANGED <<kind, arguments, result, payload, responses, broker, served>>

\* submit_intent.  A program may repeat a call that failed; the SDKs never do.
Submit(c) ==
  /\ phase[c] \in {"built", "failed"}
  /\ kind[c] # "embedded"
  /\ attempt[c] < MaxAttempts
  /\ attempt' = [attempt EXCEPT ![c] = @ + 1]
  /\ phase' = [phase EXCEPT ![c] = "waiting"]
  /\ requests' = requests \cup {<<c, attempt[c] + 1>>}
  /\ UNCHANGED <<kind, arguments, result, payload, responses, broker, served>>

\* _raise_for_status.
PythonReceived(r) == [raised |-> r.status >= 400, response |-> r]

\* The Go client hands on whatever the body decodes to, and the status beside it.
GoReceived(r) == [raised |-> FALSE, response |-> r]

Received(c, r) == IF kind[c] = "python" THEN PythonReceived(r) ELSE GoReceived(r)

Receive(c) ==
  /\ phase[c] = "waiting"
  /\ \E answer \in responses :
       /\ answer[1] = <<c, attempt[c]>>
       /\ result' = [result EXCEPT ![c] = Received(c, answer[2])]
       /\ responses' = responses \ {answer}
  /\ phase' = [phase EXCEPT ![c] = "returned"]
  /\ UNCHANGED <<kind, arguments, attempt, payload, requests, broker, served>>

\* Mutant: a call fails only when its request is lost.
FailRefused(c) ==
  /\ phase[c] = "waiting"
  /\ <<c, attempt[c]>> \notin requests
  /\ \A answer \in responses : answer[1] # <<c, attempt[c]>>
  /\ phase' = [phase EXCEPT ![c] = "failed"]
  /\ UNCHANGED <<kind, arguments, attempt, result, payload, wire, broker, served>>

\* The connection breaks or 30 seconds are over.  A response on its way is dropped, a
\* request may be lost or still reach the broker.
Fail(c) ==
  /\ phase[c] = "waiting"
  /\ phase' = [phase EXCEPT ![c] = "failed"]
  /\ requests' \in {requests, requests \ {<<c, attempt[c]>>}}
  /\ responses' = {answer \in responses : answer[1] # <<c, attempt[c]>>}
  /\ UNCHANGED <<kind, arguments, attempt, result, payload, broker, served>>

--------------------------------------------------------------------------------
(* The broker.                                                              *)

\* Mutant: only what was planned is recorded.
HandledPlans(c, n, d) ==
  /\ served' = [served EXCEPT ![c][n] =
                  [decision |-> d, registry |-> registry, life |-> life]]
  /\ auditLog' = IF d.plan = None THEN auditLog ELSE Append(auditLog, Record(c, n, d))
  /\ UNCHANGED <<registry, changes, life>>

\* handle has appended the audit record of decision d when it returns.
Handled(c, n, d) ==
  /\ served' = [served EXCEPT ![c][n] =
                  [decision |-> d, registry |-> registry, life |-> life]]
  /\ auditLog' = IF d.action = "malformed" THEN auditLog
                                           ELSE Append(auditLog, Record(c, n, d))
  /\ UNCHANGED <<registry, changes, life>>

\* POST /sip/intents.  Nobody reads the response when the caller has gone.
Serve(c, n) ==
  /\ <<c, n>> \in requests
  /\ requests' = requests \ {<<c, n>>}
  /\ \E d \in (IF ValidExtensions(arguments[c].extensions)
                 THEN Decisions(Envelope(c), registry) ELSE {NoPlan("malformed", None)}) :
       /\ Handled(c, n, d)
       /\ responses' = IF phase[c] = "waiting" /\ attempt[c] = n
                         THEN responses \cup {<<<<c, n>>, Respond(c, n, d)>>} ELSE responses
  /\ UNCHANGED <<kind, arguments, phase, attempt, result, payload>>

\* BrokerService.translate, called by a program in the broker's process: handle, and the
\* adapter when there is a plan, whether or not it waits for approval.
TranslateIntent(c) ==
  /\ phase[c] = "built"
  /\ kind[c] = "embedded"
  /\ \E d \in Decisions(Envelope(c), registry) :
       /\ Handled(c, 1, d)
       /\ result' = [result EXCEPT ![c] = [raised |-> FALSE, response |-> Respond(c, 1, d)]]
       /\ payload' = [payload EXCEPT ![c] =
                        IF d.plan = None THEN None
                        ELSE Translate(d.plan, ParametersOf(arguments[c]))]
  /\ attempt' = [attempt EXCEPT ![c] = 1]
  /\ phase' = [phase EXCEPT ![c] = "returned"]
  /\ UNCHANGED <<kind, arguments, wire>>

Register(cap) ==
  /\ changes < MaxRegistryChanges
  /\ changes' = changes + 1
  /\ registry' = Put(registry, cap)
  /\ UNCHANGED <<kind, arguments, phase, attempt, result, payload, wire, auditLog, life, served>>

Unregister(i) ==
  /\ changes < MaxRegistryChanges
  /\ registry[i].id \in Withdrawn
  /\ changes' = changes + 1
  /\ registry' = RemoveAt(registry, i)
  /\ UNCHANGED <<kind, arguments, phase, attempt, result, payload, wire, auditLog, life, served>>

\* The process ends and starts again: open connections break.  (A program that embeds the
\* broker ends with it, which is no case of its own.)
Restart ==
  /\ life < MaxRestarts
  /\ \A c \in Callers : kind[c] # "embedded"
  /\ life' = life + 1
  /\ registry' = BootRegistry
  /\ auditLog' = <<>>
  /\ requests' = {}
  /\ responses' = {}
  /\ UNCHANGED <<kind, arguments, phase, attempt, result, payload, changes, served>>

Next ==
  \/ \E c \in Callers :
       \/ \E a \in ArgumentsOf(kind, c) : Build(c, a)
       \/ Submit(c) \/ Receive(c) \/ Fail(c) \/ TranslateIntent(c)
       \/ \E n \in Attempts : Serve(c, n)
  \/ \E cap \in Descriptors : Register(cap)
  \/ \E i \in DOMAIN registry : Unregister(i)
  \/ Restart

\* A call ends at the latest by its timeout.
Fairness == \A c \in Callers : WF_vars(Receive(c) \/ Fail(c))

Spec == Init /\ [][Next]_vars /\ Fairness

--------------------------------------------------------------------------------
(* What programs may rely on.                                               *)

Services(c) == {served[c][n] : n \in Attempts} \ {None}

NeedsApproval(cap) ==
  RequiresApproval(cap.risk, cap.opClass, EnforceApproval) \/ cap.humanApproval

\* What a program that looks neither at the status nor at the outcome takes for a go-ahead.
GoAhead(outcome) ==
  ~outcome.raised /\ outcome.response.planned /\ ~outcome.response.approvalRequired

\* A program is never misled into going ahead: a plan without an approval flag is one
\* for a capability that needs no approval, that the actor and its delegator have the
\* authority for, and whose scopes are among those the SDK's own preflight computes.
\* It holds for a Go program as well, whose client reports refusals and even bodies it
\* could not read without an error.
GoAheadIsGranted ==
  \A c \in Callers : result[c] # None /\ GoAhead(result[c]) =>
    LET plan == served[c][attempt[c]].decision.plan
    IN  /\ plan # None
        /\ Permitted(Envelope(c), plan.cap)
        /\ plan.cap.scopes \subseteq PreflightScopes(Envelope(c))
        /\ ~NeedsApproval(plan.cap)

RecordsOf(c, n) ==
  {i \in DOMAIN auditLog : auditLog[i].caller = c /\ auditLog[i].attempt = n}

\* What a program was told is on record, once, with the same outcome, for as long as the
\* broker that told it lives; an exception stands for a refusal that is on record too.
AnswerOnRecord ==
  \A c \in Callers :
    result[c] # None /\ served[c][attempt[c]].life = life /\ result[c].response.status # 422 =>
      \E i \in DOMAIN auditLog :
        /\ RecordsOf(c, attempt[c]) = {i}
        /\ auditLog[i].capability = result[c].response.capability
        /\ auditLog[i].outcome = "success" <=> GoAhead(result[c])
        /\ auditLog[i].outcome = "pending_approval" <=>
             result[c].response.planned /\ ~GoAhead(result[c])
        /\ result[c].raised => ~auditLog[i].policyAllowed

\* Whatever a Python program is granted, a Go program with the same arguments is granted
\* too: its constructors fill in the same defaults where these matter, and a blank
\* originator or a lost expiry is in nobody's way.  The one exception is a delegation
\* that names no submitter: from a Go program it is refused.
GoGetsNoLess ==
  \A c \in Callers : \A s \in Services(c) :
    /\ s.decision.plan # None
    /\ kind[c] # "go"
    /\ arguments[c].bindings = <<>>
    => \A d \in Decisions(GoEnvelope(arguments[c]), s.registry) :
         IF NamesSubmitter(arguments[c].prov)
           THEN d.plan # None /\ d.plan.cap = s.decision.plan.cap
           ELSE d.plan = None

\* An intent that names a registered capability exactly and agrees with it in operation
\* class or domain gets that capability or none, unless a preferred binding speaks for
\* another: over the seeds, partial matches do not add up against an exact one.
NamedIsSelected ==
  \A c \in Callers : \A s \in Services(c) : \A cap \in Elements(s.registry) :
    /\ cap.id = arguments[c].name
    /\ cap.opClass = arguments[c].opClass \/ cap.domainMatch[arguments[c].domain] = "exact"
    /\ Reaches(arguments[c].actor.trust, cap.minTrust)
    /\ Envelope(c).bindings = <<>>
    => s.decision.capability \in {cap.id, None}

\* With the seeds the repository ships, the tier of the capability makes up for the
\* validator's looking only at the operation that the intent declares: no actor below
\* internal trust gets a plan that writes, executes or delegates.
SeededWritesNeedTrust ==
  \A c \in Callers : \A s \in Services(c) :
    /\ s.decision.plan # None
    /\ s.decision.plan.cap.opClass \in {"write", "execute", "delegate"}
    => Reaches(arguments[c].actor.trust, "internal")

WellTyped(params, kinds) ==
  \A f \in DOMAIN params \cap DOMAIN kinds : params[f] = kinds[f]

\* Every plan has a payload.  It goes over a binding of the capability, one the caller
\* listed when any of these is supported, and none of the capability's required fields
\* is lost on the way, provided parameters are of the kinds the schema names.
PayloadServesCaller ==
  \A c \in Callers : kind[c] = "embedded" /\ phase[c] = "returned" =>
    LET plan   == served[c][1].decision.plan
        listed == Elements(arguments[c].bindings) \cap Elements(plan.cap.bindings)
        schema == InputSchema(plan.cap.id)
    IN  plan # None =>
          /\ payload[c] # None
          /\ payload[c].binding \in Elements(plan.cap.bindings)
          /\ listed # {} => payload[c].binding \in listed
          /\ WellTyped(ParametersOf(arguments[c]), schema.kinds) =>
               schema.required \subseteq payload[c].fields

\* No program waits for ever: every submission is answered or fails.
EverySubmissionEnds == \A c \in Callers : []<>(phase[c] # "waiting")

--------------------------------------------------------------------------------
(* The clients implement the abstract remote call.                          *)

AttemptState(c, n) ==
  IF kind[c] = "embedded" \/ n > attempt[c] THEN "none"
  ELSE IF n < attempt[c] THEN "failed"
  ELSE IF phase[c] = "waiting" THEN "open" ELSE phase[c]

Answered(c, n) ==
  IF kind[c] = "embedded" \/ served[c][n] = None THEN None
  ELSE Respond(c, n, served[c][n].decision)

Calls == INSTANCE RemoteCall WITH
  Verdicts <- Response,
  state    <- [c \in Callers |-> [n \in Attempts |-> AttemptState(c, n)]],
  executed <- [c \in Callers |-> [n \in Attempts |-> Answered(c, n)]],
  handed   <- [c \in Callers |-> IF kind[c] = "embedded" \/ result[c] = None THEN None
                                 ELSE result[c].response]

\* Over loss, timeouts, late executions, repetitions and restarts, every attempt is
\* decided at most once, and a program gets the decision on its own last attempt.  (One
\* intent may be decided as often as it was submitted: the broker does not look for
\* intent_id.)
CallSpec == Calls!Spec

================================================================================
