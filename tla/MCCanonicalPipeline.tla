--------------------------- MODULE MCCanonicalPipeline ---------------------------
(***************************************************************************)
(* Three providers' capabilities in every order, a second capability c1    *)
(* from another provider, and one that has no binding.                     *)
(***************************************************************************)
EXTENDS CanonicalPipeline

CONSTANTS r, x    \* a reading and an executing scope

MCCapIds  == {"c1", "c2", "c3", "c4"}
MCIdRank  == [c1 |-> 1, c2 |-> 2, c3 |-> 3, c4 |-> 4]
MCScopes  == {r, x}
MCActors  == {"ann", "bot"}

Cap(id, opClass, risk, scopes, minTrust, bindings, humanApproval) ==
  [ id |-> id, nameMatch |-> [n \in {"n"} |-> "exact"],
    domainMatch |-> [d \in {"d"} |-> "exact"], opClass |-> opClass, risk |-> risk,
    scopes |-> scopes, minTrust |-> minTrust, bindings |-> bindings,
    humanApproval |-> humanApproval ]

From(provider, cap) == [provider |-> provider, cap |-> cap]

Lookup  == From(2, Cap("c1", "read", "low", {}, "internal", <<"rest", "mcp">>, FALSE))
Twin    == From(1, Cap("c1", "read", "low", {x}, "internal", <<"rest">>, FALSE))
Report  == From(2, Cap("c2", "analyze", "low", {r}, "internal", <<"grpc", "rest">>, TRUE))
Operate == From(1, Cap("c3", "execute", "critical", {x}, "privileged", <<"grpc">>, FALSE))
Secure  == From(1, Cap("c2", "write", "low", {}, "privileged", <<"rest">>, FALSE))
Unbound == From(1, Cap("c4", "write", "low", {}, "public", <<>>, FALSE))

MCCandidateLists ==
  { <<>>, <<Report, Lookup>>, <<Operate, Report, Lookup>>, <<Report, Lookup, Operate>>,
    <<Lookup, Secure>>, <<Twin, Lookup>>, <<Report, Unbound>> }

Plain ==
  [ supportedVersion |-> TRUE, actor |-> [id |-> "ann", trust |-> "internal", scopes |-> {r}],
    name |-> "n", domain |-> "d", opClass |-> "read", sensitivity |-> "internal",
    allowed |-> {}, forbidden |-> {}, declaredTrust |-> "internal", chainDepth |-> 0,
    bindings |-> <<>>, requirementBindings |-> <<>>, hints |-> {}, allowFallback |-> TRUE,
    maxCandidates |-> 5, prov |-> None ]

Executing ==
  [Plain EXCEPT !.actor = [id |-> "bot", trust |-> "privileged", scopes |-> {r, x}],
                !.bindings = <<"grpc">>]

Delegation == [originator |-> "ann", submittedBy |-> None, depth |-> 1,
               expiry |-> 1, authority |-> {r}]

MCIntents ==
  { Plain, Executing, [Executing EXCEPT !.prov = Delegation],
    [Executing EXCEPT !.sensitivity = "restricted",
                      !.prov = [Delegation EXCEPT !.originator = Blank]] }

Engine(injected, enforce, provenance) ==
  [injected |-> injected, enforce |-> enforce, provenance |-> provenance]

MCEngines == {Engine(FALSE, TRUE, FALSE), Engine(FALSE, FALSE, FALSE),
              Engine(FALSE, TRUE, TRUE), Engine(TRUE, TRUE, FALSE)}

\* An engine of the deployment may forget what it allowed, allow what was not offered,
\* or deny and list capabilities all the same.
MCInjectedResults ==
  { Allow(<<Lookup>>, TRUE), Allow(<<Report>>, TRUE), Allow(<<>>, TRUE),
    [Allow(<<Operate>>, TRUE) EXCEPT !.allowed = FALSE, !.reason = "MISSING_PROVENANCE"] }

WorkerSymmetry == Permutations(Workers)

\* For the statements the code does not keep.
JustTheIntent == {Plain}
JustTheTwins  == {<<Twin, Lookup>>}
JustTheEngine == {Engine(FALSE, TRUE, FALSE)}
================================================================================
