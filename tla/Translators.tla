------------------------------ MODULE Translators ------------------------------
(***************************************************************************)
(* From an execution plan to the payload an executor gets: the planner's    *)
(* grounding of parameters and the five binding adapters, as far as the     *)
(* parameters of the intent reach the payload.  Parameters map a field to    *)
(* the kind of its value; paths, names and trace headers are left out.      *)
(***************************************************************************)
EXTENDS SeedRegistry, Functions

CONSTANT Fields    \* names of parameters

ASSUME FieldsAssumption == \A id \in CapIds : InputSchema(id).required \subseteq Fields

ParameterKinds == {"string", "number", "nested", "placeholder"}

\* _ground_parameters: a required field nobody gave becomes a marker.
Ground(params, id) ==
  [f \in DOMAIN params \cup InputSchema(id).required |->
     IF f \in DOMAIN params THEN params[f] ELSE "placeholder"]

Flat(params) == {f \in DOMAIN params : params[f] # "nested"}

Strings(params) == {f \in DOMAIN params : params[f] \in {"string", "placeholder"}}

\* Mutant: delegation is taken for a query.
RestMethodOfQueries(opClass) ==
  IF opClass \in {"read", "retrieve", "analyze", "delegate"} THEN "GET" ELSE "POST"

RestMethod(opClass) == IF opClass \in {"read", "retrieve", "analyze"} THEN "GET" ELSE "POST"

\* A query string has no place for lists and objects.
RestFields(params, opClass) ==
  IF RestMethod(opClass) = "POST" THEN DOMAIN params ELSE Flat(params)

\* The other adapters hand on what they get: as a message, as arguments, as a task.
RequestMessage(params) == DOMAIN params

ToolArguments(params) == DOMAIN params

TaskParameters(params) == DOMAIN params

RagCollection(params) ==
  IF "collection" \in DOMAIN params THEN {"collection"} ELSE DOMAIN params \cap {"source"}

\* One of three fields is the query, or all strings joined are.
RagQuery(params) ==
  IF "query" \in DOMAIN params THEN {"query"}
  ELSE IF "text" \in DOMAIN params THEN {"text"}
  ELSE IF "topic" \in DOMAIN params THEN {"topic"}
  ELSE Strings(params)

RagContract(params) ==
  DOMAIN params \cap {"output_format", "max_results", "include_metadata"}

RagFields(params) ==
  RagCollection(params) \cup RagQuery(params) \cup RagContract(params)
    \cup (Flat(params) \ {"collection", "source", "query", "text"})

\* fields: the parameters the payload carries.  Only an A2A payload tells its executor
\* whether a human still has to approve.
Payload ==
  [ binding : BindingTypes, fields : SUBSET Fields, placeholders : SUBSET Fields,
    gate : BOOLEAN \cup {None} ]

\* BrokerService.translate: the adapter of the plan's binding.
Translate(plan, params) ==
  LET grounded == Ground(params, plan.cap.id)
      fields   == CASE plan.binding = "rest" -> RestFields(grounded, plan.cap.opClass)
                    [] plan.binding = "rag"  -> RagFields(grounded)
                    [] plan.binding = "grpc" -> RequestMessage(grounded)
                    [] plan.binding = "mcp"  -> ToolArguments(grounded)
                    [] plan.binding = "a2a"  -> TaskParameters(grounded)
  IN  [ binding      |-> plan.binding,
        fields       |-> fields,
        placeholders |-> {f \in fields : grounded[f] = "placeholder"},
        gate |-> IF plan.binding = "a2a" THEN plan.approvalRequired ELSE None ]
================================================================================
