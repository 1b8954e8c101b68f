--------------------------- MODULE MCBrokerClients ---------------------------
(***************************************************************************)
(* A Python and a Go program that share a seeded broker over HTTP, two       *)
(* Python programs, and a program that embeds the broker, with intents that  *)
(* cover the seeds one by one.                                             *)
(***************************************************************************)
EXTENDS BrokerClients

MCNames ==
  { <<"retrieve", "document">>, <<"search", "knowledge", "base">>,
    <<"summarize", "document">>, <<"reserve", "table">>,
    <<"diagnose", "network", "issue">>, <<"query", "customer", "data">>,
    <<"collect", "device", "telemetry">>, <<"summarize", "for", "customer">>,
    <<"delegate", "agent", "task">>, <<"summarize">>, <<"restaurant">> }

MCCapIds == {n \in MCNames : Len(n) > 1}

MCDomains ==
  { <<"knowledge", "management">>, <<"booking">>, <<"summarization">>, <<"delegation">>,
    <<"customer">> }

MCScopes == {"sip:knowledge:read", "sip:customer:read", "sip:network:read",
             "sip:booking:write", "sip:agent:delegate"}

MCActors == {"guest", "clerk", "agent"}

Guest == [id |-> "guest", trust |-> "public", scopes |-> MCScopes]
Clerk == [id |-> "clerk", trust |-> "internal", scopes |-> MCScopes \ {"sip:agent:delegate"}]
Agent == [id |-> "agent", trust |-> "privileged", scopes |-> MCScopes]

\* A seed that a provider registers again, with a human in the loop.
Guarded == [ReserveTable EXCEPT !.humanApproval = TRUE]

MCDescriptors == {ReserveTable}
MCWithdrawn == {RetrieveDocument.id}
MCBoot == [SeededRegistry EXCEPT ![4] = Guarded]

Lookup ==
  [ actor |-> Clerk, name |-> <<"retrieve", "document">>,
    domain |-> <<"knowledge", "management">>, opClass |-> "retrieve",
    sensitivity |-> "internal", bindings |-> <<>>, prov |-> None, extensions |-> {} ]

Mandate == [originator |-> "clerk", submittedBy |-> "agent", depth |-> 2, expiry |-> None,
            authority |-> {"sip:knowledge:read"}]

Booking  == [Lookup EXCEPT !.name = <<"reserve", "table">>, !.domain = <<"booking">>,
                           !.opClass = "write", !.extensions = {"custom"}]
Mandated == [Lookup EXCEPT !.actor = Agent, !.prov = Mandate]
Exceeded == [Booking EXCEPT !.actor = Agent, !.prov = Mandate, !.extensions = {}]
\* A mandate that names nobody, and one that names its submitter only and runs out.
Unsigned == [Mandated EXCEPT !.prov.originator = None, !.prov.submittedBy = None]
Dated    == [Mandated EXCEPT !.prov.originator = None, !.prov.expiry = Now + 1]
Lapsed   == [Mandated EXCEPT !.prov.expiry = Now]

Vague    == [Lookup EXCEPT !.name = <<"summarize">>, !.domain = <<"summarization">>,
                           !.opClass = "analyze"]
Shadow   == [Lookup EXCEPT !.extensions = {"qualified", "malformed"}]

\* A guest books and calls it a look-up.  (What the Python builder makes of a guest is
\* refused: it declares internal trust.)
Sneaked  == [Booking EXCEPT !.actor = Guest, !.opClass = "retrieve", !.extensions = {}]

MCRemote ==
  {Lookup, Booking, Mandated, Unsigned, Dated, Lapsed, Exceeded, Vague, Shadow, Sneaked}

Embedded(actors, names, domains, opClasses, bindings) ==
  [ actor : actors, name : names, domain : domains, opClass : opClasses,
    sensitivity : {"internal"}, bindings : bindings, prov : {None}, extensions : {{}} ]

\* Embedding programs name anything as anything, or one seed after the other for several
\* bindings.
MCEmbedded ==
  Embedded({Clerk, Agent}, MCNames, MCDomains,
           {"write", "analyze", "retrieve", "delegate"}, {<<>>})
  \cup Embedded({Agent}, MCCapIds, {<<"booking">>, <<"customer">>}, {"retrieve", "write"},
                {<<"rest">>, <<"grpc", "mcp">>, <<"a2a", "rag">>})

MCFields == UNION {DOMAIN InputSchema(id).kinds : id \in MCCapIds}

\* A program fills in all that the schema of what it names asks for, or nothing.
MCParameters(a) == IF a.domain = <<"customer">> THEN <<>> ELSE InputSchema(a.name).kinds

\* One program alone, or two that book the same table.
MCKinds ==
  { [c \in {1, 2} |-> IF c = 1 THEN "python" ELSE "absent"],
    [c \in {1, 2} |-> IF c = 1 THEN "go" ELSE "absent"],
    [c \in {1, 2} |-> IF c = 1 THEN "python" ELSE "go"],
    [c \in {1, 2} |-> IF c = 1 THEN "embedded" ELSE "absent"] }

MCArguments(kinds, c) ==
  IF kinds[c] = "embedded" THEN MCEmbedded
  ELSE IF kinds[3 - c] = "absent" THEN MCRemote ELSE {Booking}
================================================================================
