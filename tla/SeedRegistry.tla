----------------------------- MODULE SeedRegistry -----------------------------
(***************************************************************************)
(* The capabilities a fresh broker is seeded with (registry/bootstrap.py),  *)
(* and what their input schemas ask for.                                   *)
(*                                                                         *)
(* An id, an intent name or a domain is the tuple of its words, which is as *)
(* much of a string as the registry's substring tests tell apart here.     *)
(***************************************************************************)
EXTENDS BrokerRules

\* part in whole, for Python strings made of the same words.
OccursIn(part, whole) ==
  \E i \in 1..(Len(whole) - Len(part) + 1) : SubSeq(whole, i, i + Len(part) - 1) = part

\* The id joins its words with underscores, the title with spaces.
NameMatchOf(name, id, title) ==
  IF name = id THEN "exact"
  ELSE IF OccursIn(name, id) \/ (Len(name) = 1 /\ OccursIn(name, title))
    THEN "partial" ELSE "none"

DomainMatchOf(domain, domains) ==
  IF domain \in domains THEN "exact"
  ELSE IF \E d \in domains : OccursIn(domain, d) THEN "partial" ELSE "none"

\* A descriptor as the seeds write them: nothing requires a human.
Titled(id, title, domains, opClass, risk, scope, minTrust, bindings) ==
  [ id |-> id,
    nameMatch |-> [n \in Names |-> NameMatchOf(n, id, title)],
    domainMatch |-> [d \in Domains |-> DomainMatchOf(d, domains)],
    opClass |-> opClass, risk |-> risk, scopes |-> {scope}, minTrust |-> minTrust,
    bindings |-> bindings, humanApproval |-> FALSE ]

Seed(id, domains, opClass, risk, scope, minTrust, bindings) ==
  Titled(id, id, domains, opClass, risk, scope, minTrust, bindings)

--------------------------------------------------------------------------------
RetrieveDocument ==
  Seed(<<"retrieve", "document">>,
       {<<"knowledge", "management">>, <<"document", "retrieval">>, <<"enterprise", "search">>},
       "retrieve", "low", "sip:knowledge:read", "internal", <<"rag", "rest">>)

SearchKnowledgeBase ==
  Seed(<<"search", "knowledge", "base">>,
       {<<"knowledge", "management">>, <<"enterprise", "search">>,
        <<"information", "retrieval">>},
       "retrieve", "low", "sip:knowledge:read", "internal", <<"rag", "rest">>)

SummarizeDocument ==
  Seed(<<"summarize", "document">>,
       {<<"knowledge", "management">>, <<"document", "processing">>, <<"summarization">>},
       "analyze", "low", "sip:knowledge:read", "internal", <<"rest", "mcp">>)

\* Mutant: anybody may book.
ReserveTableOpen ==
  Titled(<<"reserve", "table">>, <<"reserve", "restaurant", "table">>,
         {<<"booking">>, <<"restaurant">>, <<"reservation">>},
         "write", "medium", "sip:booking:write", "public", <<"rest", "mcp">>)

ReserveTable ==
  Titled(<<"reserve", "table">>, <<"reserve", "restaurant", "table">>,
         {<<"booking">>, <<"restaurant">>, <<"reservation">>},
         "write", "medium", "sip:booking:write", "internal", <<"rest", "mcp">>)

DiagnoseNetworkIssue ==
  Seed(<<"diagnose", "network", "issue">>,
       {<<"network", "operations">>, <<"diagnostics">>, <<"infrastructure">>},
       "analyze", "medium", "sip:network:read", "internal", <<"rest", "grpc", "mcp">>)

QueryCustomerData ==
  Seed(<<"query", "customer", "data">>,
       {<<"customer", "management">>, <<"crm">>, <<"data", "retrieval">>},
       "read", "medium", "sip:customer:read", "internal", <<"rest", "grpc">>)

CollectDeviceTelemetry ==
  Seed(<<"collect", "device", "telemetry">>,
       {<<"network", "operations">>, <<"telemetry">>, <<"monitoring">>},
       "read", "low", "sip:network:read", "internal", <<"grpc", "rest", "a2a">>)

SummarizeForCustomer ==
  Seed(<<"summarize", "for", "customer">>,
       {<<"summarization">>, <<"customer", "communication">>, <<"reporting">>},
       "analyze", "low", "sip:knowledge:read", "internal", <<"rest", "mcp", "a2a">>)

DelegateAgentTask ==
  Seed(<<"delegate", "agent", "task">>,
       {<<"agent", "orchestration">>, <<"multi", "agent">>, <<"delegation">>},
       "delegate", "medium", "sip:agent:delegate", "privileged", <<"a2a", "rest">>)

\* build_seeded_registry.
SeededRegistry ==
  << RetrieveDocument, SearchKnowledgeBase, SummarizeDocument, ReserveTable,
     DiagnoseNetworkIssue, QueryCustomerData, CollectDeviceTelemetry,
     SummarizeForCustomer, DelegateAgentTask >>

Seeds == Elements(SeededRegistry)

--------------------------------------------------------------------------------
(* input_schema: the fields, those whose value is a list or an object, and   *)
(* the required ones.  A descriptor that is no seed has an empty schema.     *)

Schema(strings, numbers, nested, required) ==
  [ kinds    |-> [f \in strings \cup numbers \cup nested |->
                    IF f \in strings THEN "string"
                    ELSE IF f \in numbers THEN "number" ELSE "nested"],
    required |-> required ]

InputSchema(id) ==
  IF id = RetrieveDocument.id THEN
    Schema({"document_id", "query", "collection"}, {}, {}, {})
  ELSE IF id = SearchKnowledgeBase.id THEN
    Schema({"query"}, {"max_results"}, {"collections", "filters"}, {"query"})
  ELSE IF id = SummarizeDocument.id THEN
    Schema({"document_id", "content", "summary_format"}, {"max_length"}, {}, {})
  ELSE IF id = ReserveTable.id THEN
    Schema({"restaurant_name", "location", "date", "time", "customer_name",
            "special_requests"}, {"party_size"}, {},
           {"date", "time", "party_size", "customer_name"})
  ELSE IF id = DiagnoseNetworkIssue.id THEN
    Schema({"device_id", "site", "symptom", "diagnostic_depth"}, {}, {}, {"device_id"})
  ELSE IF id = QueryCustomerData.id THEN
    Schema({"customer_id", "email"}, {}, {"filters"}, {})
  ELSE IF id = CollectDeviceTelemetry.id THEN
    Schema({"device_id"}, {"time_window_seconds"}, {"metrics"}, {"device_id"})
  ELSE IF id = SummarizeForCustomer.id THEN
    Schema({"content", "context", "tone"}, {}, {}, {"content"})
  ELSE IF id = DelegateAgentTask.id THEN
    Schema({"target_agent_id", "task_type", "return_format"}, {}, {"task_payload"},
           {"target_agent_id", "task_type", "task_payload"})
  ELSE Schema({}, {}, {}, {})
================================================================================
