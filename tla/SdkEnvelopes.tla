----------------------------- MODULE SdkEnvelopes -----------------------------
(***************************************************************************)
(* What a program gets from the SDKs when it states an intent: the Python   *)
(* builders, the Go constructors, and the parsing both ends apply.          *)
(***************************************************************************)
EXTENDS BrokerRules

\* How an extension key looks: x_<name>, <vendor>.<name>, a core field name, or none of
\* these.  (No core field name has one of the first two forms.)
ExtensionKeys == {"custom", "qualified", "reserved", "malformed"}

\* validate_extension_keys does not raise.
ValidExtensions(keys) == keys \subseteq {"custom", "qualified"}

\* What a program passes to a builder.
Arguments ==
  [ actor : ActorDescriptor, name : Names, domain : Domains, opClass : OperationClasses,
    sensitivity : Sensitivities, bindings : Seq(BindingTypes),
    prov : ProvenanceBlock \cup {None}, extensions : SUBSET ExtensionKeys ]

\* The fields no builder argument reaches, at the defaults of the models.
Defaults(a) ==
  [ supportedVersion |-> TRUE, actor |-> a.actor, name |-> a.name, domain |-> a.domain,
    opClass |-> a.opClass, sensitivity |-> "internal", allowed |-> {}, forbidden |-> {},
    declaredTrust |-> "internal", chainDepth |-> 0, bindings |-> <<>>,
    requirementBindings |-> <<>>, hints |-> {}, allowFallback |-> TRUE,
    maxCandidates |-> 5, prov |-> None ]

\* build_intent_envelope: the declared trust stays at its default, whoever the actor is.
PythonEnvelope(a) ==
  [ Defaults(a) EXCEPT !.sensitivity = a.sensitivity, !.bindings = a.bindings,
                       !.prov = a.prov ]

\* What a Go program sends of a delegation: NewProvenanceBlock takes the originator and
\* the submitter as strings, "" for an absent one, and it takes no expiry.
GoProvenance(p) ==
  IF p = None THEN None
  ELSE LET Named(party) == IF party = None THEN Blank ELSE party
       IN  [p EXCEPT !.originator = Named(@), !.submittedBy = Named(@), !.expiry = None]

\* Mutant: a field the Go constructor forgets has Go's zero value.
GoEnvelopeWithoutHints(a) ==
  [ Defaults(a) EXCEPT !.declaredTrust = a.actor.trust, !.prov = GoProvenance(a.prov),
                       !.allowFallback = FALSE ]

\* NewIntentEnvelope takes no bindings and no sensitivity.
GoEnvelope(a) ==
  [ Defaults(a) EXCEPT !.declaredTrust = a.actor.trust, !.prov = GoProvenance(a.prov) ]

\* A delegation that every builder can state: it says who submits.
NamesSubmitter(p) == p # None => p.submittedBy # None

\* compute_effective_scope_set, the program's own look at what it may ask for.
PreflightScopes(e) ==
  IF e.prov = None THEN e.actor.scopes
  ELSE IF e.prov.authority = None THEN e.actor.scopes
  ELSE e.actor.scopes \cap e.prov.authority
================================================================================
