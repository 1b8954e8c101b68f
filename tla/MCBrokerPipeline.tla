---------------------------- MODULE MCBrokerPipeline ----------------------------
(***************************************************************************)
(* A small broker for TLC: two capabilities compete for intent n1, three   *)
(* more cover risk, approval and missing bindings for n2, one descriptor   *)
(* is a stricter re-registration of c1.                                    *)
(***************************************************************************)
EXTENDS BrokerClaims

CONSTANTS r, x    \* a reading and an executing scope

MCCapIds  == {"c1", "c2", "c3", "c4", "c5"}
MCNames   == {"n1", "n2"}
MCDomains == {"d"}
MCScopes  == {r, x}
MCActors  == {"ann", "bot"}

Cap(id, n1, n2, opClass, risk, scopes, minTrust, bindings, humanApproval) ==
  [ id |-> id, nameMatch |-> [n \in MCNames |-> IF n = "n1" THEN n1 ELSE n2],
    domainMatch |-> [dom \in MCDomains |-> "exact"], opClass |-> opClass, risk |-> risk,
    scopes |-> scopes, minTrust |-> minTrust, bindings |-> bindings,
    humanApproval |-> humanApproval ]

Lookup  == [Cap("c1", "exact", "none", "read", "low", {}, "public", <<"rest", "mcp">>, FALSE)
              EXCEPT !.domainMatch = [dom \in MCDomains |-> "partial"]]
Strict  == Cap("c1", "exact", "none", "read", "medium", {x}, "internal", <<"rest">>, FALSE)
Report  == Cap("c2", "partial", "none", "analyze", "low", {r}, "internal", <<"grpc", "rest">>, TRUE)
Operate == Cap("c3", "none", "exact", "execute", "critical", {x}, "privileged", <<"grpc">>, FALSE)
Store   == Cap("c4", "none", "partial", "write", "high", {r}, "internal", <<"rest">>, FALSE)
Unbound == Cap("c5", "none", "exact", "write", "low", {}, "internal", <<>>, FALSE)

MCDescriptors == {Lookup, Strict, Report, Operate, Store, Unbound}

MCRegistries ==
  {<<Lookup, Report>>, <<Report, Strict, Operate>>, <<Operate, Store>>, <<Store, Unbound>>}

Ann == [id |-> "ann", trust |-> "internal", scopes |-> {r}]
Bot == [id |-> "bot", trust |-> "privileged", scopes |-> {r, x}]

Plain ==
  [ supportedVersion |-> TRUE, actor |-> Ann, name |-> "n1", domain |-> "d",
    opClass |-> "read", sensitivity |-> "internal", allowed |-> {}, forbidden |-> {},
    declaredTrust |-> "internal", chainDepth |-> 0, bindings |-> <<>>,
    requirementBindings |-> <<>>, hints |-> {}, allowFallback |-> TRUE,
    maxCandidates |-> 5, prov |-> None ]

Delegation == [originator |-> "ann", submittedBy |-> None, depth |-> 1,
               expiry |-> None, authority |-> None]

Picky     == [Plain EXCEPT !.bindings = <<"grpc">>, !.allowFallback = FALSE]
Choosy    == [Picky EXCEPT !.maxCandidates = 2]
Clipped   == [Plain EXCEPT !.maxCandidates = -1, !.hints = {"c2"}]
Executing == [Plain EXCEPT !.actor = Bot, !.name = "n2", !.opClass = "execute",
                           !.declaredTrust = "privileged"]
Shortlist == [Executing EXCEPT !.maxCandidates = 2]
Restricted == [Executing EXCEPT !.sensitivity = "restricted"]
Writing   == [Plain EXCEPT !.name = "n2", !.opClass = "write", !.bindings = <<"rest">>]
Mediated  == [Executing EXCEPT !.declaredTrust = "internal", !.prov = Delegation]
Narrowed  == [Executing EXCEPT !.prov = [Delegation EXCEPT !.authority = {r}]]
Lent      == [Executing EXCEPT !.prov = [Delegation EXCEPT !.authority = {x}, !.expiry = 1]]
Boasting  == [Plain EXCEPT !.declaredTrust = "admin"]
Passed    == [Executing EXCEPT !.chainDepth = 6]
DeepChain == [Executing EXCEPT !.prov = [Delegation EXCEPT !.depth = 6]]

MCBodies == {Plain, Picky, Choosy, Clipped, Shortlist, Executing, Restricted, Writing, Mediated,
             Narrowed, Lent, Boasting, Passed, DeepChain}

NoHeaders == [id |-> None, trust |-> None, scopes |-> None]
Gatewayed == [id |-> "ann", trust |-> "internal", scopes |-> {r}]
TrustOnly == [id |-> None, trust |-> "internal", scopes |-> None]
BlankScopes == [id |-> "ann", trust |-> None, scopes |-> {}]

MCHeaders == {NoHeaders, Gatewayed, TrustOnly, BlankScopes}

\* For runs with several callers: one intent per way through the pipeline.
FewDescriptors == {Lookup, Report, Operate}
FewRegistries  == {<<Lookup, Report, Operate>>}
FewBodies      == {Picky, Executing, Restricted, Boasting}
OneHeader      == {NoHeaders}

\* For the documented statement the code does not keep.
OperateRegistry == {<<Operate>>}
JustOperate     == {Operate}
Expiring        == {Lent}
================================================================================
