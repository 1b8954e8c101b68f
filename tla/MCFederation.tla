------------------------------ MODULE MCFederation ------------------------------
(***************************************************************************)
(* Three brokers in a chain, a star, a circle, with strict mode in          *)
(* different places, and with one that lacks the HTTP client.              *)
(***************************************************************************)
EXTENDS Federation

MCCapIds  == {"c1", "c2", "c3", "c4"}
MCNames   == {"n", "."}
MCDomains == {"d", "."}

Cap(id, nameMatch, opClass, minTrust) ==
  [ id |-> id, nameMatch |-> [n \in MCNames |-> IF n = "n" THEN nameMatch ELSE "none"],
    domainMatch |-> [dom \in MCDomains |-> IF dom = "d" THEN "partial" ELSE "none"],
    opClass |-> opClass, risk |-> "low", scopes |-> {}, minTrust |-> minTrust,
    bindings |-> <<"rest">>, humanApproval |-> FALSE ]

MCRegistries ==
  << <<Cap("c1", "partial", "read", "public")>>,
     <<Cap("c2", "exact", "read", "public"), Cap("c3", "none", "write", "internal")>>,
     <<Cap("c4", "exact", "analyze", "public")>> >>

Peer(id, trust) == [id |-> id, trust |-> trust]
Asks(peers) ==
  [enabled |-> TRUE, httpx |-> TRUE, peers |-> peers, preferLocal |-> TRUE, strict |-> FALSE]
Alone == [Asks(<<>>) EXCEPT !.enabled = FALSE]

Two   == Asks(<<Peer(2, "full")>>)
Both  == Asks(<<Peer(3, "discovery"), Peer(2, "routing")>>)

Chain == <<Two, Asks(<<Peer(3, "discovery")>>), Alone>>
Star  == <<Both, Asks(<<>>), Alone>>
Circle == <<Two, Asks(<<Peer(1, "routing")>>), Alone>>
StrictStar  == <<[Both EXCEPT !.strict = TRUE, !.preferLocal = FALSE], Asks(<<>>), Alone>>
StrictChain == <<Two, [Chain[2] EXCEPT !.strict = TRUE], Alone>>

Unequipped == <<Two, [Chain[2] EXCEPT !.strict = TRUE, !.httpx = FALSE], Alone>>

MCFederations == {Chain, Star, Circle, StrictStar, StrictChain, Unequipped}

Query == [name |-> "n", domain |-> "d", opClass |-> "read", bindings |-> <<>>, hints |-> {},
          trust |-> "public", maxResults |-> 5, includeRemote |-> TRUE]

MCRequests ==
  { Query,
    [Query EXCEPT !.name = None, !.opClass = None, !.trust = "internal", !.maxResults = 2],
    [Query EXCEPT !.name = None, !.domain = None],
    [Query EXCEPT !.includeRemote = FALSE] }

JustTheChain == {Chain}
JustTheQuery == {Query}
================================================================================
