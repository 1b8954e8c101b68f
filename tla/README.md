# Semantic Intent Protocol: a verification project

TLA+ modules, TLC runs and TLAPS proofs for the reference implementation of the
Semantic Intent Protocol (SIP). SIP is a control plane: an actor submits an
*intent envelope*, and the broker answers with an *execution plan* for one
registered capability, a request for approval, a request for clarification, or a
refusal. Nothing is executed here, so what has to be right is the decision, its
record, and what brokers tell each other.

Every definition is translated from `src/sip` and `src/sdk/go`; `PROJECT.json` maps each one to the
lines it stands for. Paths below are relative to the repository.

## 1. Inventory

| Component | State | Operations | Talks to |
|---|---|---|---|
| Broker service and intent handler (`sip/broker/service.py`, `handlers.py`) | `audit_log`, a list nobody locks | `handle`, `process_intent`, `POST /sip/intents` | identity, validator, registry, matcher, policy, planner, audit |
| Identity mapping (`sip/broker/identity.py`) | none | `map_identity_headers` | called before `handle` |
| Envelope and validator (`sip/envelope`) | none; reads the wall clock | `validate_envelope` | both pipelines |
| Registry and matching (`sip/registry/service.py`) | the store | `register`, `unregister`, `find_matches`, reads | matcher, discovery |
| Capability store (`sip/registry/storage.py`) | a dict, and a JSON file | `put`, `delete`, `clear`, `save`, `reload`, constructor | file system, operators who edit the file |
| Negotiation (`sip/negotiation`) | none | `match`, `plan` | registry, policy decision |
| Policy engine (`sip/policy/engine.py`, `risk.py`, `scopes.py`) | two configuration switches | `evaluate` | handler |
| Audit (`sip/observability/audit.py`) | none | `create_audit_record` | both pipelines |
| Discovery and federation (`sip/broker/discovery.py`, `federation.py`) | configuration; the request in progress | `discover`, `POST /sip/capabilities/discover` | other brokers, over HTTP |
| Canonical pipeline (`sip/core`, `sip/policy/interface.py`) | an audit list; an injected or built-in engine | `process` | callers that did their own discovery |
| Approval records (`sip/policy/approvals.py`) | `state` of a record | `approve`, `deny` | nobody: no component creates one |
| Translators (`sip/translator`) and the planner's grounding | none | one `translate` per binding | `BrokerService.translate` |
| Extension checks (`sip/extensions.py`) | none | `validate_extension_keys` | every model, at both ends |
| Bootstrap data (`sip/registry/bootstrap.py`) | nine seeds | `seed_registry` | registry |
| Python SDK (`sip/sdk`), Go SDK (`sdk/go`) | the call in progress | builders, `submit_intent`, preflight | a broker, over HTTP |
| Logging, tracing, schemas, examples, vectors | none | output, data | – |

What makes each correct, and where that is hard:

* **Pipelines.** A plan leaves only for a capability the actor, and whoever delegated
  to it, may use; never past its approval gate; never from a delegation that had
  expired; always after exactly one audit record that agrees with it. Each of these
  is split over stages: the validator checks trust and delegation, the registry the
  actor's tier, the policy engine scopes and risk, and the planner decides approval
  a second time. The registry and the clock move between stages, and other threads
  append to the same audit log.
* **Matching.** Scores with ties, a registration order that breaks them, a gap that
  decides whether to ask back, and a list cut by a number the caller chooses.
* **Store.** Two representations of one state, written without a lock and without an
  atomic replace; loads that stop half-way; exceptions that are logged and dropped.
* **Federation.** A coroutine that blocks its event loop while it waits for a peer
  that may be waiting for it; failures that are skipped or fatal depending on
  configuration; two sorts; late answers.
* **Canonical pipeline.** Rules written a second time, which may drift from the
  broker's; an engine the deployment supplies; a way out of failure that can fail.
* **SDKs and seeds.** Two languages that write the same defaults twice; a client that
  reports refusals as exceptions and one that reports them as results; calls that
  are served after they were given up, or twice, or by a broker that has forgotten;
  parameters that have to survive grounding and a transport.

`PROJECT.json` lists the hazards one by one, each at its line and with the
properties that would catch it.

## 2. Modules

```
SipTypes ── BrokerRules ─┬─ BrokerPipeline ── BrokerClaims ── MCBrokerPipeline
                         │       └── INSTANCE IntentGate        (abstract)
                         ├─ Discovery ── Federation ── MCFederation
                         ├─ SeedRegistry ── Translators ─┐
                         ├─ SdkEnvelopes ────────────────┴─ BrokerClients ── MCBrokerClients
                         │                                     └── INSTANCE RemoteCall  (abstract)
                         └─ CanonicalRules ── CanonicalPipeline ── MCCanonicalPipeline
OrderedDict ── CapabilityStore ── MCCapabilityStore
                   └── INSTANCE RegistryStore                       (abstract)

Proofs, each module extending the one it is about:
BrokerRules ── BrokerRulesProofs ─┬─ BrokerPipelineProofs ── BrokerAuditProofs
                                  ├─ BrokerClientsProofs ── ClientPromisesProofs
                                  ├─ CanonicalProofs
                                  └─ FederationProofs
CapabilityStore ── StoreProofs
```

(`BrokerPipeline` and `BrokerClients` also extend `OrderedDict`; `Discovery` uses it for look-ups.)

* **SipTypes** – trust levels, risk tables, the descriptor, the envelope and the
  scope rules, with the code's tables as they are. A string is kept only as far as
  the code tells strings apart: how an intent name relates to a capability (equal,
  contained, unrelated) is a field of the descriptor.
* **BrokerRules** – one operator per rule: `ValidEnvelope`, `FindMatches`,
  `Negotiations`, `Evaluate`, `MakePlan`. Scores are counted in half points, so that
  the code's 0.5 is 1. `FindMatches` returns the set of candidates that survive the
  sort and the slice; each keeps its score and its place in the dict, and the
  code's list is that set in the order `Before`. `maxCandidates` may be negative,
  as the Python slice allows.
* **BrokerPipeline** – `handle`/`process_intent` as a process per calling thread:
  `Receive`, `Validate`, `Match`, `Judge`, `Plan`, `AppendAudit`, `Respond`. The
  stages are separate steps because the service holds no lock; `find_matches`
  copies the registry at once, and later stages work on the copy, as in the code.
  `Register`, `Unregister` and `Tick` move the world. Calls with a malformed body
  (400, 422) never reach `handle` and change nothing, so they are not an action.
  `arrival` numbers the calls and notes when each came in; no code guard reads it.
* **IntentGate** – what the broker promises whatever it is built from: each intent is
  decided once, only as authority permits, with the approval it needs; the decision
  is recorded and then handed back as recorded.
* **CapabilityStore** – the JSON file store at the grain of dict operations and
  system calls. `write_text` truncates and then writes (`Truncate`, `Write`); the
  comprehension that dumps the live dict goes value by value (`DumpValue`), and a load
  reads the file and then puts record by record (`ReadFile`, `LoadRecord`), so other
  threads run in between. The dict's table is part of the state: `places` says in which
  entry each value is, and a put of a new key may have the table built again without
  its holes, which moves values under an iterator. An iterator raises only if it finds
  the dict of another size, or a value too many, as CPython's does (`DumpRaises`).
  Refused file operations, crashes at any step, restarts and edited files are actions.
  `flushed` and `overlapped` are auxiliary.
* **OrderedDict** – a Python dict as a sequence of values with unique ids.
* **RegistryStore** – the abstract store: contents and what is stored.
* **Discovery** – `_discover_local`, `_cap_to_candidate`, `_remote_to_candidate` and
  `_aggregate` as pure operators, both sorts stable, over the matching of
  `BrokerRules`.
* **Federation** – several brokers, each with an inbox and one request in progress:
  `Start`, `Ask`, `Collect`, `CollectForeign` (an answer that cannot be read to the
  end), `GiveUp` (refused or timed out), `Finish`. A broker may lack httpx, an optional
  extra, and then asks nobody (`ToAsk`). A given-up request stays with the
  peer and has nobody to answer to. Registries do not change here; what a broker
  finds in its own (`Found`) is therefore a constant, computed once.
* **CanonicalRules**, **CanonicalPipeline** – `SIPPipeline.process` with
  `CanonicalPolicyEngine` and `DeterministicPlanner`, stage by stage, shared by
  threads. An injected engine may answer any `PolicyResult`; raising is excluded,
  because `PolicyEngineInterface` forbids it. The two guards of `fail_closed.py` the
  planner calls are in `PlanFor`; the others are called by nobody.
* **SeedRegistry** – the nine seeded capabilities. Here strings are the tuples of their
  words, so that how a name or domain relates to a seed is computed (`NameMatchOf`,
  `DomainMatchOf`) and not chosen. Which fields a seed's input schema has, of which
  kind, and which are required.
* **Translators** – `_ground_parameters` and the five adapters: which parameters reach
  the payload. A parameter is a field and the kind of its value.
* **SdkEnvelopes** – `build_intent_envelope` and Go's `NewIntentEnvelope` and
  `NewProvenanceBlock` as functions from arguments to envelopes; extension keys; the
  scope preflight. An absent submitter or originator leaves Go as the empty string
  (`Blank`), and the expiry not at all.
* **BrokerClients** – programs around a seeded broker: `Build`, `Submit`, `Receive`,
  `Fail`, `Serve`, `TranslateIntent`, `Register`, `Unregister`, `Restart`. `Serve` is
  the whole of `POST /sip/intents` in one step, because the handler does not await
  once it has the body; `BrokerPipeline` has its stages. A failed call may leave its
  request on the way. `served` is auxiliary.
* **RemoteCall** – what a caller that repeats failed calls may rely on.
* **…Proofs** – theorems and their lemmas; section 5.
* **MC…** – instances for TLC. **BrokerClaims** – a documented statement that fails.

Where the code sorts or filters, the model says which element is at which place (the
one with so many before it: `StableSort`, `Ranked`, `OffersAt`) instead of using a
recursive operator, because the provers can reason about the former. For the same
reason `PutAll` is a recursive function and `PastPeer` an operator of its own.

Definitions whose comment begins with "Mutant" are variants of the one that follows
them, as a plausible mistake would write it. They occur in no specification; each
shows, when it replaces the original, that some property notices.

## 3. Runs

Bounds are constants in guards: `MaxArrivals`/`MaxCalls`/`MaxRequests` (calls),
`MaxAttempts`, `MaxRegistryChanges`, `MaxRestarts`, `MaxClock`, `MaxOps`, `MaxFaults`. All runs say
`CHECK_DEADLOCK FALSE`: a broker nobody calls stops, and so does a model at its
bounds. That everything started is finished is a property of its own
(`EveryCallAnswered`, `EveryRequestAnswered`, `EverySubmissionEnds`).

| Run | States | What it shows |
|---|---|---|
| `broker_rules` | 833,175 | One caller; 14 intents, one per way through the rules (fallback off with room for five candidates and for two, a negative slice, forbidden trust claims, mediated and narrowed delegation, deep chains, an expiry); 4 gateway headers; the registry may change three times and the clock once between any two stages. `PlanAuthorized`, `ExpiredOnArrivalRefused`, `ApprovalGate`, `GatewayClaimsBind`. `LosersDoNotMatter` and `NoGuessing` are evaluated while nobody has called yet, over every registry that three changes reach: each intent's selection is compared with the one made after a loser is unregistered, and after a capability is registered anew. |
| `broker_callers` | 9,997 | Two threads and a registry change: `AuditedBeforeAnswered`, the refinement `GateSpec`, and `EveryCallAnswered`. |
| `store_single` | 5,847 | One thread, three operations, two faults: `FileFollowsMemory`, and the refinement `PersistentRegistry`. |
| `store_threads` | 131,273 | Two threads, which change the dict at any point of each other's dumps, writes and loads: `FileFollowsMemory`. Threads are symmetric. |
| `federation` | 79,778 | Three brokers as chain, star, circle, strict star that puts the best first, strict second link, and a chain whose second broker is strict and lacks httpx; two client requests of four kinds: see below. |
| `canonical` | 1,537,804 | Two threads in one pipeline, four engines, seven candidate lists, four intents (one delegated by an empty originator) and empty identifiers, one tick. Workers are symmetric. |
| `clients` | 50,046 | A Python program alone, a Go program alone, with ten intents and two attempts each (delegations with and without a submitter, an originator and an expiry among them); a Python and a Go program that book the same table; a program that embeds the broker and names any seed, or nothing, as any kind of operation, over any preferred binding. One registration that lifts a seed's approval, one withdrawal, one restart. See below. |
| `claim_expiry`, `claim_fileconsistent`, `claim_peers`, `claim_twins`, `claim_bundle` | – | Documented statements the code breaks; section 6. |

Why the bounds are enough. Plans of different calls share only the registry, the
clock and the append-only log; two calls show every interference between them, one
registry change between two given stages every stale copy, and one tick every
position of an expiry. In the store two threads and one fault give every pair of
overlapping operations; in federation three brokers are the least with a peer's
peer, and two requests the least with a late answer that meets a later request. Programs share
nothing but the registry and the log, which the pair shows; two attempts are the least
with one served after it was given up.

Properties worth reading first:

* `PlanAuthorized` – restates authority end to end on the answer, without the
  operators the stages use: scopes, delegated scopes, both trust levels, depth, risk.
* `ApprovalGate` – status code and plan flag come from different modules; both
  equal what the capability needs.
* `LosersDoNotMatter` – with a non-negative slice no unselected capability can
  influence which one is selected. The exclusion is real: with `max_candidates`
  below zero the slice counts from the other end and losers do matter.
* `NoGuessing` – with fallback off, what is selected is a full point ahead of every
  other capability that has a signal, those cut off the list included, and no
  re-registration changes it. It needs the sort, the slice and the gap test together.
  Limits below two are left out: with one the code has no second to compare with
  (section 6).
* `FileFollowsMemory` – the file holds what the memory holds whenever all threads have
  returned, provided no two threads were in `_save` or `reload` at once. Everything
  else may overlap: a dump may meet a put and a delete that leave the dict's size as it
  was and move its values. It holds because whoever changed the dict still owes a
  flush. So a lock around `_save` and `reload` alone would keep the file consistent;
  without it `claim_fileconsistent` shows what is lost.
* `PathLeadsToHolder` – a discovery path is a way from configured peer to
  configured peer that ends where the capability is held; it fails if a late answer
  is taken for another peer's.
* `NothingSilentlyMissing`, `SoftModeAnswers` – a broker that has httpx lists every
  peer as queried, each peer listed so has failed and is listed or is completely
  represented in an answer that is not full, and lenient brokers never fail because of others, except
  through a peer item that only `_aggregate` cannot convert (hence `Foreign`).
* `ConfigOrderDoesNotMatter` – the answer is the same whatever order peers are listed
  and asked in, and however their candidates are interleaved: it compares every
  shuffle that keeps the order of each peer's own.
* `EveryRequestAnswered` – brokers that wait for each other are released by the
  timeout.
* `TrafficDiesOut` – requests carry no hop count, and one that was given up is served
  and passed on all the same; still the brokers come to rest after the last client,
  if no broker reaches itself over its peers. In the circle this fails: there a
  request can go round for ever.
* `CallSpec` – over loss, timeouts, late executions, repetitions and restarts the SDK
  and the broker implement `RemoteCall`: at most one decision per attempt, and a
  program gets the one on its own last attempt. Nothing makes it one per intent.
* `GoAheadIsGranted` – a program that only looks whether there is a plan and no
  approval flag never goes ahead without authority, whichever SDK it uses, whatever
  the status was; and the SDK's preflight had the scopes.
* `AnswerOnRecord` – what a program was told is in the log exactly once and agrees
  with it, as long as the broker that told it lives.
* `GoGetsNoLess` – the constructors of the two languages agree where it matters: what a
  Python program gets a plan for, a Go program with the same arguments does too. The
  exception is exact: when a delegation names no submitter, the Go program gets no plan.
* `NamedIsSelected` – with the seeds, partial matches never add up against the
  capability an intent names exactly and agrees with in operation or domain.
* `SeededWritesNeedTrust` – the seeds' own tiers make up for a validator that only
  looks at the declared operation: no actor below internal trust gets a plan that
  writes, executes or delegates, whatever it calls its intent.
* `PayloadServesCaller` – each plan has a payload, over one of the capability's bindings
  and a preferred one if any is supported; no required field is lost between planner
  and adapter when parameters are of the kinds the schema names.
* `NoLaxerThanBroker` – the canonical pipeline allows nothing the broker's engine and
  registry would refuse the actor acting for itself. Its two conditions name what
  the canonical engine does not see (section 6).
* `LosersOnlyTighten` – approval is summed over all allowed candidates: one that is
  not taken can add an approval but never remove one or change the choice.
* `FailsClosed` – for every answer an injected engine may give.

## 4. Fairness

* Broker: weak fairness of `Step(w)`. A thread inside `handle` runs straight-line
  code without waiting; nobody has to submit intents, change the registry or tick.
* Federation: weak fairness of `Start`, `Ask`, `Finish` (the event loop runs), and of
  `Collect \/ GiveUp`: `httpx.post` has a timeout of 5 s, so a wait ends one way or the
  other. (The 5 s hold for each operation on the socket, not for the whole exchange: a
  peer that sends byte after byte could hold a broker longer than the fairness says.)
  Nothing says a peer's answer arrives, nor that dropped connections are
  noticed.
* Clients: weak fairness of `Receive \/ Fail`: both SDKs give up after 30 s. Nothing says
  that requests arrive, that the broker serves them, or that programs try again.
* Store and canonical pipeline: only safety is claimed.

Liveness is model-checked only.

## 5. Proofs

What a run shows for one small instance, a theorem shows for every value of the
constants: any number of callers, threads, brokers or programs, any descriptors,
intents, registries, configurations and bounds.

| Theorem | Says |
|---|---|
| **BrokerPipelineProofs** | |
| `TypeCorrect` | `Spec => []TypeOK` |
| `PlansAreAuthorized` | `Spec => []PlanAuthorized` |
| `ApprovalIsNeverSkipped` | `Spec => []ApprovalGate` |
| `ExpiredDelegationsAreRefused` | `Spec => []ExpiredOnArrivalRefused` |
| `LosersAreImmaterial` | `Spec => []LosersDoNotMatter` |
| `NothingIsGuessed` | `Spec => []NoGuessing` |
| **BrokerAuditProofs** | |
| `EveryAnswerIsOnRecord` | `Spec => []AuditedBeforeAnswered` |
| `GatewayClaimsAreBinding` | `Spec => []GatewayClaimsBind` |
| `PipelineImplementsGate` | `Spec => GateSpec`: the stages implement `IntentGate` |
| **BrokerClientsProofs**, **ClientPromisesProofs** | |
| `ClientsTypeCorrect` | `Spec => []TypeOK` |
| `GoAheadsAreGranted` | `Spec => []GoAheadIsGranted` |
| `AnswersAreOnRecord` | `Spec => []AnswerOnRecord` |
| `ClientsImplementCalls` | `Spec => CallSpec`: SDKs, network and broker implement `RemoteCall` |
| `SdksAgree` | `Spec => []GoGetsNoLess`, with the exact exception |
| `OfferedWritesAreTrusted` | `Spec => []SeededWritesNeedTrust`, if whatever is ever offered and changes something asks for internal trust |
| `OfferedPayloadsServe` | `Spec => []PayloadServesCaller`, if the required fields of whatever is offered fit its transports |
| `OfferedNamesAreHeeded` | `Spec => []NamedIsSelected`, if no id of what is ever offered occurs in another's id or title |
| `SeedsKeepTheirPromises` | the last three properties, when only the nine seeds are offered: they meet the three conditions |
| **CanonicalProofs** | |
| `CanonicalTypeCorrect` | `Spec => []TypeOK` |
| `PlansNeedConsent` | `Spec => []FailsClosed` |
| `BundlesAreOnRecord` | `Spec => []AuditTellsBundle` |
| `CanonicalIsNoLaxer` | `Spec => []NoLaxerThanBroker` |
| `OrderIsImmaterial` | `Spec => []OrderDoesNotMatter` |
| `LosersCannotLoosen` | `Spec => []LosersOnlyTighten` |
| **FederationProofs** | |
| `FederationTypeCorrect` | `Spec => []TypeOK` |
| `TrustTierIsRespected` | `Spec => []TrustTierRespected` |
| `PathsLeadToHolders` | `Spec => []PathLeadsToHolder` |
| `SoftModeIsAnswered` | `Spec => []SoftModeAnswers` |
| `NothingIsSilentlyMissing` | `Spec => []NothingSilentlyMissing` |
| `ConfigOrderIsImmaterial` | `Spec => []ConfigOrderDoesNotMatter` |
| **StoreProofs** | |
| `StoreTypeCorrect` | `Spec => []TypeOK` |
| `StoreFileFollows` | `Spec => []FileFollowsMemory`, for any number of threads |
| `SoleFileConsistent` | `Spec => []FileConsistent`, the same without its proviso, for one thread |
| `SoleStoreIsPersistent` | `Spec => PersistentRegistry`, for one thread: the store implements `RegistryStore` |

*Assumptions* (each named in the module that declares the constants, and evaluated by
TLC in every run of it) say that constants are of their types and that markers such
as `None`, `Gone`, `Absent` are not values of them. Three say more.
`CanonicalRulesAssumption`: different capability ids have different ranks in string
order, which strings have. `DiscoveryAssumption`: brokers are numbers, in the order
of their names. `FieldsAssumption`: the fields a program may set include those a
schema requires. The last two theorems of the store assume one thread (`OneThread`):
with two the former is false, as `claim_fileconsistent` shows.

*Broker.* Authority is not inductive as a statement about answers: when the plan is
made, half of the checks lie stages back and the registry has changed since. `IInv`
says what is known at each stage (`Cleared`): after validation, declared trust, depth
and expiry as of arrival; after matching, the actor's tier against the descriptor
that was copied; after the engine, that its decision is `Evaluate` of that very
envelope and copy. A plan, when made, is `Sound` – authorised, timely, flagged and
answered alike – and answers keep that. `ValidIsExamined` uses that the clock does
not go back. `EvaluateSound` is the heart: the engine's decision plus what earlier
stages left implies `Permitted`, and its approval flag or'ed with the planner's is
exactly `NeedsApproval`. `AuditInv` adds the log, which other threads append to
between two steps of a call: a ticket belongs to one call (`Ledger`), is in the log
from `AppendAudit` on and never before, and what a call has in hand agrees with the
record it will write (`Grounded`). For the refinement, a call becomes the gate's
pending intent when it is received, is decided when its record is appended – before
the plan leaves, which is the point – and handed back when the thread responds; all
other steps stutter (`GateStep`).
`LosersAreImmaterial` needs no such invariant but a law of the rules, for every registry
(`LoserImmaterial`): what is selected is the foremost of *all* candidates, and it is clear
of those on the list exactly when it is clear of all, because the list is cut from the far
end (`TopIsLeader`); removing another element shifts places and keeps their order
(`ScoredWithout`). `NothingIsGuessed` is of the same kind: a winner is clear of everything
that matched, also of what was cut (`WinnerFound`), and who is a full point ahead is
selected whatever the order of the rest (`WinnerIsSelected`, `NoRenewalMatters`).

*Clients.* A program sees a result long after it was decided, perhaps by a broker that
has been restarted since. `ClientsInv` therefore follows the attempt: `Decided` says
that whatever was served is one of the decisions the rules allow over the registry of
that moment, `Wired` that a request on the way belongs to an attempt not yet decided
and a response to the attempt its program still waits for (this is what rules out an
answer to an earlier attempt), `Told` that the program's result is the conversion of
the decision on its last attempt, and `Logged` ties decisions of the living broker to
records one to one. `SdksAgree` compares two runs of the rules: `GoIsGranted` shows
that the envelope Go builds passes every check the Python one passed, if the submitter
is named, and that the same capability is selected; `GoIsRefused` that a blank submitter
is no actor and fails the validator. `StockInv` adds which descriptors registries can hold. What
depends on the descriptors is proved under a condition on all that is ever offered,
and the nine seeds are shown to meet it. For names (`KnownApart`): a name that is met
exactly, with the operation or the domain, is worth ten half points, and what is not
named at all gets eight at most (`NamedWins`); no seed's id occurs in another's id or
title (`SeedsKnownApart`).

*Canonical pipeline.* `CanonicalInv` is built like `AuditInv`; a plan in hand is the
planner's, over the policy result in hand, and that result is the built-in engine's
unless one was injected (`Justified`). The order and loser properties then are facts
about `PlanFor`, proved for lists of any length: the first of a sorted list is the
least of its set (`FirstSortedIsLeast`), whatever the order it came in.

*Federation.* What a client is told has gone through brokers that share no state, so
the invariant has to know what every request, job, reply and answer on its way knows.
`JobsLinked` and `CallsLinked` say who waits for whom: a request with a sender is
matched by that sender's asking job, and only once – which is why a late answer cannot
be taken for another peer's. `JobSound` says that what was collected fits the query and
the path it carries, and that every peer no longer to be asked has failed, filled the
answer, or is completely represented (`Settled`); `ReplySound` and `AnswerSound` say it
of replies and answers. `NothingSilentlyMissing` and `PathLeadsToHolder` follow, and
were not inductive by themselves: both speak of clients' answers only. The work under
them is in the lemmas about discovery: sorting keeps exactly the elements it is given
(`RemotesSorted`, `AllSorted`), the best of each id are entries of the list
(`BestAreEntries`), an aggregate that is not full is whole (`AggregateWhole`), and a
sort by trust, score and peer forgets every shuffle between peers (`ShuffleSorted`),
because only candidates of one peer can tie and their order was kept.

*Store.* `StoreInv` holds for any number of threads: memory has distinct ids, and the
table keeps its values in their order, each in an entry of its own. `FileInv` adds what
is true while nobody has met anybody at the file: a thread that changed the memory owes a
flush (`Owed`) and until then nothing is promised; when none is owed, the one thread at
the file knows the memory (`InStep`) – its dump is the memory up to its cursor
(`DumpedSoFar`), what it is about to write is the memory, its load has put what it has
read so far (`LoadedSoFar`) – and when there is no such thread either, file and memory
agree. A change made during a dump does not break this, since whoever made it owes a
flush from then on, and another dump begins after the last change. For one thread nothing
overlaps (`SoleInv`), which gives `SoleFileConsistent` and the refinement: truncating is
the abstract `Interrupt`, writing `Flush`, the end of `read_text` `Refresh`, a crash
`Stop`, an edited file `Replace`.

Each inductive invariant was first checked by TLC, as an invariant of the component's
run.

*Only model-checked* is liveness – `EveryCallAnswered`, `EveryRequestAnswered`,
`TrafficDiesOut`, `EverySubmissionEnds`: fairness and ENABLED are outside the prover.
Every invariant and every refinement the passing runs check is a theorem.

## 6. Where code and documentation disagree

Runs that TLC ends with a counterexample:

* `claim_expiry` – `docs/sip-wire-spec-v0.1.md:183` has the policy engine reject
  expired delegations; only the validator looks, so one that expires in between is
  allowed. (What holds instead: `ExpiredOnArrivalRefused`.)
* `claim_fileconsistent` – `storage.py:73` promises a consistent file after every
  write and `:28` a thread-safe dict; a change and its flush are not one critical
  section. A `clear` dumps nothing, a `put` then dumps and writes its capability, and the
  older dump is written last: both have returned, and the file lacks what memory holds.
  Two `put`s can do the same. (What holds instead: `FileFollowsMemory`.)
* `claim_peers` – `docs/security-model.md:339` says capabilities of unlisted peers
  are never returned; a listed peer passes on what its own peers told it.
* `claim_twins` – `docs/architecture.md:664` says the planner considers only allowed
  capabilities; it looks at ids, which two providers may share, and may plan the
  one that was refused.
* `claim_bundle` – an empty `intent_id` makes `process` raise after its audit record
  was appended: `_stub_normalized` (`pipeline.py:326`), meant to make a bundle
  possible, is refused for the reason normalisation was.

Seen while modelling, and modelled as the code has it, but without a run:

* `docs/security-model.md:184` requires internal trust for write and execute;
  `validator.py:151` looks at the operation the intent declares, not at the selected
  capability's, which a `read` intent of a public actor may reach.
* `docs/security-model.md:187` lowers an escalated trust claim; `validator.py:108`
  refuses the envelope. `:151` has forbidden actions enforced; `validator.py:141`
  only compares them with the allowed ones. `:221` asks approval for critical
  analysis and retrieval; the table in `risk.py:14` does not.
* `identity.py:32` says a header overrides the body; a blank `X-Scopes` (`:171`) does
  not.
* `results.py:97` calls `allowed_bindings` "compatible and policy-allowed"; when no
  preference is supported, `matcher.py:57` selects a binding outside them.
* `planner.py:334` records `operation_class_match` as passed without comparing.
* `audit.py:91` has `submitting_actor` match `actor_id` when provenance is absent;
  `handlers.py:78` leaves it empty then.
* `service.py:208` reserves 200 for a created plan; a rejected plan (and a
  clarification) is 200 too.
* `storage.py:48`: `delete` tests and deletes in two steps, so one of two threads may
  raise `KeyError`. `docs/sip-wire-spec-v0.1.md:384` has capabilities survive restarts;
  a crash inside `write_text` (`:125`) empties the file. `:112` warns of an empty
  store after a failed load; the records before the bad one stay (`:105`).
* Further ways for two threads to spoil the file, all of them in the model: the dump
  iterates the live dict (`:122`), and a delete and a put in between that keep its size may
  have the table built again, so that one record is dumped twice and another not at all;
  a flush during a `reload` (`:164`) writes an empty or half-loaded dict; a load may put an
  older record over a newer `put`. A file that cannot be read (`:103`) leaves the registry
  empty, and the next flush overwrites it.
* `docs/architecture.md:558` has any peer failure raise in strict mode, and
  `federation.py:105` has discovery fail fast if any peer is unavailable. Without httpx, an
  optional extra, `discovery.py:303` skips all peers with a log line: none is listed as
  queried or failed, strict or not.
* `matcher.py:79` asks for a clear best match before a capability is selected without
  fallback. The comparison is made on the list after it was cut (`:124`), and a list cut to
  one candidate (`max_candidates: 1`, or a negative limit) has no second: a tie is selected.
* `docs/security-model.md:345` shows a discovery path that starts at the
  originating broker; the code's path starts at the first peer and names the holder
  twice. `federation.py:103` prefers local results at equal score;
  `discovery.py:393` puts all local ones first.
* Discovery without name and domain lists everything, whatever the trust level. An
  item of a peer's answer that is of the right shape but not a candidate ends the
  request with 500 even in soft mode. Requests are forwarded without a hop count.
* The canonical engine ignores `authority_scope` and the trust block's chain, and
  compares trust requirements as strings (`normalized_intent.py:256`) that nothing
  reads afterwards. `context.additional["parameters"]` replaces the intent's own
  parameters (`:281`). An injected engine that raises, against its contract, leaves
  `process` without an audit record.

* `builders.py:26` has the builders always produce valid objects. The envelope built for
  a public actor declares the default, internal trust (no builder argument reaches
  the trust block) and `validate_envelope` refuses it. Go's constructor declares the
  actor's own trust. For the same reason a Python program
  gets no privileged capability on behalf of an originator, and a Go program may.
  `data_sensitivity` and `determinism_required` are ignored
  when `constraints` is given.
* Go's `NewProvenanceBlock` (`constructors.go:77`) takes strings and sends their addresses: an
  absent submitter goes out as `""`, which `validator.py:204` compares with the actor and
  refuses, while a Python program may leave it out. It takes no expiry, so delegations
  stated through it never expire. A `ProvenanceBlock` written as a struct literal with a
  nil `DelegationChain` is sent as `null`, which `envelope/models.py:336` does not accept.
* An empty originator is a named one for the broker's engine (`engine.py:144`) and a missing
  one for the canonical engine (`core/policy_engine.py:126`).
* Go's `SubmitIntent` (`client.go:122`) returns refusals, and error bodies whose fields
  it does not know, with a nil error. `IncludeRemote` is `omitempty` (`client.go:177`): a
  Go program cannot ask for local candidates only.
* An envelope that fails validation is answered with `requires_clarification: true`
  (`service.py:263`).
* `docs/architecture.md:391` calls a payload self-contained, to be executed without
  further interpretation. A required field nobody gave is the text `<REQUIRED:…>` in it
  (`planner.py:236`), a REST `GET` drops lists and objects (`rest_adapter.py:70`), and a RAG
  payload drops `text` and `source` when another field is the query or the collection.
  Only the A2A payload says that approval is pending, and `translate` makes one
  whatever the approval.
* With a preferred binding, a capability named exactly may lose to another that
  supports the binding (the exception in `NamedIsSelected`).

## 7. Not modelled

* Approval records: nothing creates or reads one, so there is no life cycle to
  observe.
* Schemas, examples, protocol vectors, logging and tracing: data and output.
* SDKs: the discovery clients, the identity header helper, `summarize_provenance`
  and the parsers of responses; they read and convert.
* Adapters: paths, service, tool and collection names, trace headers.
* HTTP 500: no exception is known to reach `submit_intent` from `handle`.
* A program that embeds the broker and outlives a restart of it.
* HTTP itself: TLS, body limits, worker processes. A discovery that blocks its event
  loop also delays `/sip/intents` of the same process; federation and intent
  pipeline are not composed to show that delay.
* Wording, values of parameters, and timestamps other than expiry.

## 8. Plan

1. Extend. A registry that changes under a federated request; the broker over the
   real file store instead of the abstract one; discovery clients as environment of
   the federation.
2. Prove. For each module that item 1 adds, its invariants and, for the broker over the
   file store, that it implements the broker over the abstract one.
