-------------------------------- MODULE Discovery --------------------------------
(***************************************************************************)
(* The pure part of DiscoveryService: what a broker finds in its own        *)
(* registry, how it tags what a peer answered, and how it puts both in      *)
(* order.  Broker ids are numbers; the code compares them as strings.       *)
(***************************************************************************)
EXTENDS BrokerRules, OrderedDict

CONSTANTS
  Brokers,   \* broker ids
  Dot        \* the string "." the code puts in place of a missing name or domain

PeerTrust == [discovery |-> 0, routing |-> 1, full |-> 2]

FederatedPeer == [id : Brokers, trust : DOMAIN PeerTrust]

\* enabled says whether there is a federation configuration at all, httpx whether the
\* optional HTTP client is installed where the broker runs.
FederationConfig ==
  [ enabled : BOOLEAN, httpx : BOOLEAN, peers : Seq(FederatedPeer),
    preferLocal : BOOLEAN, strict : BOOLEAN ]

DiscoveryRequest ==
  [ name    : (Names \ {Dot}) \cup {None},
    domain  : (Domains \ {Dot}) \cup {None},
    opClass : OperationClasses \cup {None},
    bindings : Seq(BindingTypes),
    hints   : SUBSET CapIds,
    trust   : TrustLevels,
    maxResults    : 1..100,
    includeRemote : BOOLEAN ]

\* source = None: a local candidate.  peerTrust is the trust of the peer that a
\* RemoteCapabilityResult came from; the broker sorts by it and does not send it on.
DiscoveryCandidate ==
  [ id : CapIds, minTrust : TrustLevels, score : Nat, source : Brokers \cup {None},
    peerTrust : Nat, routing : BOOLEAN, path : Seq(Brokers) ]

ASSUME DiscoveryAssumption ==
  /\ Brokers \subseteq Nat \ {0}
  /\ Dot \in Names \cap Domains
  /\ None \notin Brokers /\ None \notin Names /\ None \notin Domains
  /\ None \notin OperationClasses

--------------------------------------------------------------------------------
\* Python's sorted: elements that Less does not tell apart keep their order.
StableSort(s, Less(_, _)) ==
  LET comes(j, i) == Less(s[j], s[i]) \/ (~Less(s[i], s[j]) /\ j < i)
      place(k)    == CHOOSE i \in DOMAIN s : Cardinality({j \in DOMAIN s : comes(j, i)}) = k - 1
  IN  [k \in DOMAIN s |-> s[place(k)]]

FirstOf(s, n) == SubSeq(s, 1, IF n < Len(s) THEN n ELSE Len(s))

--------------------------------------------------------------------------------
(* _discover_local.                                                         *)

HasQuery(q) == q.name # None \/ q.domain # None

\* Mutant: the trust level is left at its default.
LookupAsInternal(q, opClass) ==
  [ actor |-> [trust |-> "internal"],
    name |-> IF q.name = None THEN Dot ELSE q.name,
    domain |-> IF q.domain = None THEN Dot ELSE q.domain,
    opClass |-> opClass, bindings |-> q.bindings, hints |-> q.hints,
    maxCandidates |-> 2 * q.maxResults ]

\* The arguments of find_matches for one operation class.
Lookup(q, opClass) ==
  [ actor |-> [trust |-> q.trust],
    name |-> IF q.name = None THEN Dot ELSE q.name,
    domain |-> IF q.domain = None THEN Dot ELSE q.domain,
    opClass |-> opClass, bindings |-> q.bindings, hints |-> q.hints,
    maxCandidates |-> 2 * q.maxResults ]

Ranked(q, opClass, registry) ==
  LET matches == FindMatches(Lookup(q, opClass), registry)
      ranked(n) == CHOOSE c \in matches : Cardinality({d \in matches : Before(d, c)}) = n - 1
  IN  [n \in 1..Cardinality(matches) |->
         [id |-> ranked(n).cap.id, cap |-> ranked(n).cap, score |-> ranked(n).score]]

\* Without an operation class the code tries each in the order of the enum.  A capability
\* keeps its best score, and between equal ones the place where it was first found.
BestPlaces(all) ==
  { i \in DOMAIN all :
      /\ \A j \in DOMAIN all : all[j].id = all[i].id => all[j].score <= all[i].score
      /\ \A j \in 1..(i - 1) : all[j].id = all[i].id => all[j].score < all[i].score }

FirstPlace(all, id) == Min({j \in DOMAIN all : all[j].id = id})

BetterPlace(all, i, j) ==
  \/ all[i].score > all[j].score
  \/ all[i].score = all[j].score /\ FirstPlace(all, all[i].id) < FirstPlace(all, all[j].id)

BestOfEach(all) ==
  LET best     == BestPlaces(all)
      place(k) == CHOOSE i \in best : Cardinality({j \in best : BetterPlace(all, j, i)}) = k - 1
  IN  [k \in 1..Cardinality(best) |-> all[place(k)]]

RankedInAnyClass(q, registry) ==
  LET of(opClass) == Ranked(q, opClass, registry)
      all == of("read") \o of("write") \o of("execute")
               \o of("analyze") \o of("retrieve") \o of("delegate")
  IN  FirstOf(BestOfEach(all), 2 * q.maxResults)

Everything(registry) ==
  [i \in DOMAIN registry |-> [id |-> registry[i].id, cap |-> registry[i], score |-> 0]]

DiscoverLocal(q, registry) ==
  IF ~HasQuery(q) THEN Everything(registry)
  ELSE IF q.opClass = None THEN RankedInAnyClass(q, registry)
  ELSE Ranked(q, q.opClass, registry)

\* _cap_to_candidate.
LocalCandidates(b, config, found) ==
  [i \in DOMAIN found |->
     [ id |-> found[i].id, minTrust |-> found[i].cap.minTrust,
       score |-> found[i].score, source |-> None, peerTrust |-> 0, routing |-> TRUE,
       path |-> IF config.enabled THEN <<b>> ELSE <<>> ]]

--------------------------------------------------------------------------------
(* _discover_remote and _aggregate.                                         *)

Allows(peer) == peer.trust \in {"routing", "full"}

\* Mutant: the sort key, which counts down, is kept in place of the peer's trust.
FromPeerByKey(peer, candidates) ==
  [i \in DOMAIN candidates |->
     [ candidates[i] EXCEPT !.source = peer.id, !.peerTrust = -PeerTrust[peer.trust],
                            !.routing = Allows(peer), !.path = <<peer.id>> \o candidates[i].path ]]

\* RemoteCapabilityResult and _remote_to_candidate: what becomes of a peer's candidates.
FromPeer(peer, candidates) ==
  [i \in DOMAIN candidates |->
     [ candidates[i] EXCEPT !.source = peer.id,
                            !.peerTrust = PeerTrust[peer.trust],
                            !.routing = Allows(peer),
                            !.path = <<peer.id>> \o candidates[i].path ]]

\* (-peer trust, -score, source broker id)
RemoteBefore(c, d) ==
  \/ c.peerTrust > d.peerTrust
  \/ c.peerTrust = d.peerTrust /\ c.score > d.score
  \/ c.peerTrust = d.peerTrust /\ c.score = d.score /\ c.source < d.source

\* (-score, local before remote, source broker id)
MergedBefore(c, d) ==
  LET place(x) == IF x.source = None THEN 0 ELSE x.source
  IN  c.score > d.score \/ (c.score = d.score /\ place(c) < place(d))

\* Mutant: remote candidates stay in the order in which peers were asked.
AggregateUnsorted(config, locals, remotes) ==
  IF config.preferLocal THEN locals \o remotes
                        ELSE StableSort(locals \o remotes, MergedBefore)

Aggregate(config, locals, remotes) ==
  LET sorted == StableSort(remotes, RemoteBefore)
  IN  IF config.preferLocal THEN locals \o sorted
                            ELSE StableSort(locals \o sorted, MergedBefore)
================================================================================
