------------------------------- MODULE Federation -------------------------------
(***************************************************************************)
(* Capability discovery across brokers: POST /sip/capabilities/discover    *)
(* and DiscoveryService.discover.                                          *)
(*                                                                         *)
(* The handler is a coroutine that calls discover, which asks the peers    *)
(* one after the other with a blocking client.  A broker that waits for a  *)
(* peer serves nobody: it has one job at a time, and the requests that     *)
(* reach it meanwhile wait in its inbox.  An unanswered peer is given up    *)
(* after a timeout; the request it was sent stays where it is, without     *)
(* anyone to answer to.                                                    *)
(*                                                                         *)
(* The HTTP server and its connections are external: a request is received *)
(* whole and in order, may be refused, and may be dropped before it is     *)
(* served once its sender has gone.  Registries do not change here: a job  *)
(* reads its own once, when it starts.                                     *)
(***************************************************************************)
EXTENDS Discovery

CONSTANTS
  Client, Gone,     \* who a request is from when it is not from a broker
  Federations,      \* configurations of all brokers
  Registries,       \* broker -> registry
  Foreign,          \* brokers whose answers the others may be unable to read
  Requests,         \* what clients ask
  MaxRequests       \* bound: requests of clients

Senders == Brokers \cup {Client, Gone}

Call == [from : Senders, query : DiscoveryRequest]

Response == [ok : BOOLEAN, candidates : Seq(DiscoveryCandidate)]

Job ==
  [ from : Senders, query : DiscoveryRequest,
    locals     : Seq(DiscoveryCandidate),
    remaining  : Seq(FederatedPeer),       \* peers not answered yet, the next one first
    asking     : BOOLEAN,                  \* the request to the next one is out
    remotes    : Seq(DiscoveryCandidate),  \* remote results
    queried    : SUBSET Brokers,           \* peers_queried
    failed     : SUBSET Brokers,           \* peers_failed
    unreadable : BOOLEAN ]                 \* a remote result does not make a candidate

Answer ==
  [broker : Brokers, query : DiscoveryRequest, ok : BOOLEAN,
   candidates : Seq(DiscoveryCandidate), queried : SUBSET Brokers, failed : SUBSET Brokers]

ASSUME FederationAssumption ==
  /\ Client # Gone /\ {Client, Gone} \cap Brokers = {}
  /\ None \notin Job /\ None \notin Response
  /\ Federations \subseteq [Brokers -> FederationConfig]
  /\ Registries \in [Brokers -> Seq(CapabilityDescriptor)]
  /\ Foreign \subseteq Brokers
  /\ Requests \subseteq DiscoveryRequest
  /\ MaxRequests \in Nat

\* What every broker finds in its own registry.
Found == [b \in Brokers |-> [q \in Requests |-> DiscoverLocal(q, Registries[b])]]

VARIABLES
  config,    \* broker -> FederationConfig, chosen once
  asked,     \* requests of clients so far
  inbox,     \* broker -> requests it has not started, the oldest first
  job,       \* broker -> the discover call it is in
  reply,     \* broker -> the answer to its outstanding request, once sent
  answers    \* what clients were answered, in order

vars == <<config, asked, inbox, job, reply, answers>>

TypeOK ==
  /\ config \in Federations
  /\ asked \in 0..MaxRequests
  /\ inbox \in [Brokers -> Seq(Call)]
  /\ job \in [Brokers -> Job \cup {None}]
  /\ reply \in [Brokers -> Response \cup {None}]
  /\ answers \in Seq(Answer)

Init ==
  /\ config \in Federations
  /\ asked = 0
  /\ inbox = [b \in Brokers |-> <<>>]
  /\ job = [b \in Brokers |-> None]
  /\ reply = [b \in Brokers |-> None]
  /\ answers = <<>>

--------------------------------------------------------------------------------
Submit(b, q) ==
  /\ asked < MaxRequests
  /\ asked' = asked + 1
  /\ inbox' = [inbox EXCEPT ![b] = Append(@, [from |-> Client, query |-> q])]
  /\ UNCHANGED <<config, job, reply, answers>>

\* Without the HTTP client _discover_remote asks nobody and reports nobody.
ToAsk(conf, q) ==
  IF conf.enabled /\ q.includeRemote /\ conf.httpx THEN conf.peers ELSE <<>>

\* The event loop takes up a request; discover looks into the registry at once.
Start(b) ==
  /\ job[b] = None
  /\ inbox[b] # <<>>
  /\ LET call == Head(inbox[b])
     IN  job' = [job EXCEPT ![b] =
           [ from |-> call.from, query |-> call.query,
             locals |-> LocalCandidates(b, config[b], Found[b][call.query]),
             remaining |-> ToAsk(config[b], call.query), asking |-> FALSE,
             remotes |-> <<>>, queried |-> {}, failed |-> {}, unreadable |-> FALSE ]]
  /\ inbox' = [inbox EXCEPT ![b] = Tail(@)]
  /\ UNCHANGED <<config, asked, reply, answers>>

\* The server finds the connection of a waiting request closed.
Drop(b) ==
  /\ inbox[b] # <<>>
  /\ Head(inbox[b]).from = Gone
  /\ inbox' = [inbox EXCEPT ![b] = Tail(@)]
  /\ UNCHANGED <<config, asked, job, reply, answers>>

Waiting(b) == job[b] # None /\ job[b].asking

NextPeer(b) == Head(job[b].remaining)

\* The request is passed on as it came.
Ask(b) ==
  /\ job[b] # None /\ ~job[b].asking /\ job[b].remaining # <<>>
  /\ job' = [job EXCEPT ![b].asking = TRUE, ![b].queried = @ \cup {NextPeer(b).id}]
  /\ inbox' = [inbox EXCEPT ![NextPeer(b).id] =
                 Append(@, [from |-> b, query |-> job[b].query])]
  /\ UNCHANGED <<config, asked, reply, answers>>

\* The end of b's job: its sender is answered, unless it has gone.
Deliver(b, response, waiting) ==
  /\ job' = [waiting EXCEPT ![b] = None]
  /\ IF job[b].from \in Brokers
       THEN /\ reply' = [reply EXCEPT ![b] = None, ![job[b].from] = response]
            /\ UNCHANGED answers
       ELSE /\ reply' = [reply EXCEPT ![b] = None]
            /\ answers' = IF job[b].from = Gone THEN answers
                          ELSE Append(answers,
                                 [broker |-> b, query |-> job[b].query, ok |-> response.ok,
                                  candidates |-> response.candidates,
                                  queried |-> job[b].queried, failed |-> job[b].failed])

Error == [ok |-> FALSE, candidates |-> <<>>]

\* Mutant: a failed peer is skipped without being listed.
PastPeerSilently(j, candidates, ok, readable) ==
  [j EXCEPT !.asking = FALSE,
            !.remaining = Tail(@),
            !.remotes = @ \o FromPeer(Head(j.remaining), candidates),
            !.unreadable = @ \/ ~readable]

\* Mutant: a peer that failed is asked again until it answers.
PastPeerOnSuccess(j, candidates, ok, readable) ==
  [j EXCEPT !.asking = FALSE,
            !.remaining = IF ok THEN Tail(@) ELSE @,
            !.remotes = @ \o FromPeer(Head(j.remaining), candidates),
            !.failed = IF ok THEN @ ELSE @ \cup {Head(j.remaining).id},
            !.unreadable = @ \/ ~readable]

\* The job goes on behind its next peer, with what that one told.
PastPeer(j, candidates, ok, readable) ==
  [j EXCEPT !.asking = FALSE,
            !.remaining = Tail(@),
            !.remotes = @ \o FromPeer(Head(j.remaining), candidates),
            !.failed = IF ok THEN @ ELSE @ \cup {Head(j.remaining).id},
            !.unreadable = @ \/ ~readable]

\* The request to the next peer is over, with these of its candidates.  A failure is
\* skipped, or ends the whole job in strict mode.
PeerDone(b, candidates, ok, readable, waiting) ==
  IF ~ok /\ config[b].strict
    THEN Deliver(b, Error, waiting)
    ELSE /\ job' = [waiting EXCEPT ![b] = PastPeer(@, candidates, ok, readable)]
         /\ reply' = [reply EXCEPT ![b] = None]
         /\ UNCHANGED answers

\* Mutant: an error status ends the job, strict or not.
CollectRaising(b) ==
  /\ Waiting(b)
  /\ reply[b] # None
  /\ IF reply[b].ok THEN PeerDone(b, reply[b].candidates, TRUE, TRUE, job)
                    ELSE Deliver(b, Error, job)
  /\ UNCHANGED <<config, asked, inbox>>

\* raise_for_status, and every candidate of the answer in turn.
Collect(b) ==
  /\ Waiting(b)
  /\ reply[b] # None
  /\ PeerDone(b, reply[b].candidates, reply[b].ok, TRUE, job)
  /\ UNCHANGED <<config, asked, inbox>>

\* An answer some of which this broker cannot read: either an exception at the k+1st
\* candidate, the ones before it being kept, or one that only _aggregate runs into.
CollectForeign(b) ==
  /\ Waiting(b)
  /\ NextPeer(b).id \in Foreign
  /\ reply[b] # None /\ reply[b].ok
  /\ \/ \E k \in 0..(Len(reply[b].candidates) - 1) :
          PeerDone(b, FirstOf(reply[b].candidates, k), FALSE, TRUE, job)
     \/ reply[b].candidates # <<>> /\ PeerDone(b, reply[b].candidates, TRUE, FALSE, job)
  /\ UNCHANGED <<config, asked, inbox>>

\* Requests among calls that b sent have nobody to answer to any more.
Forsaken(calls, b) ==
  [i \in DOMAIN calls |-> IF calls[i].from = b THEN [calls[i] EXCEPT !.from = Gone] ELSE calls[i]]

\* The jobs of the others, after b has gone away from its peer.
LeftAlone(b) ==
  [p \in Brokers |-> IF job[p] # None /\ job[p].from = b
                       THEN [job[p] EXCEPT !.from = Gone] ELSE job[p]]

\* Mutant: the wait ends only when the peer is idle, there is no timeout.
GiveUpWhenRefused(b) ==
  /\ Waiting(b)
  /\ job[NextPeer(b).id] = None
  /\ PeerDone(b, <<>>, FALSE, TRUE, LeftAlone(b))
  /\ inbox' = [inbox EXCEPT ![NextPeer(b).id] = Forsaken(@, b)]
  /\ UNCHANGED <<config, asked>>

\* Mutant: a late answer still finds its way, to whatever b is then waiting for.
GiveUpQuietly(b) ==
  /\ Waiting(b)
  /\ PeerDone(b, <<>>, FALSE, TRUE, job)
  /\ UNCHANGED <<config, asked, inbox>>

\* The connection is refused or the timeout is reached; an answer on its way is lost.
GiveUp(b) ==
  /\ Waiting(b)
  /\ PeerDone(b, <<>>, FALSE, TRUE, LeftAlone(b))
  /\ inbox' = [inbox EXCEPT ![NextPeer(b).id] = Forsaken(@, b)]
  /\ UNCHANGED <<config, asked>>

\* All peers are done: aggregate, cut and answer.
Finish(b) ==
  /\ job[b] # None /\ job[b].remaining = <<>>
  /\ Deliver(b,
       IF job[b].unreadable THEN Error
       ELSE [ok |-> TRUE,
             candidates |-> FirstOf(Aggregate(config[b], job[b].locals, job[b].remotes),
                                    job[b].query.maxResults)],
       job)
  /\ UNCHANGED <<config, asked, inbox>>

Next ==
  \/ \E b \in Brokers, q \in Requests : Submit(b, q)
  \/ \E b \in Brokers :
       \/ Start(b) \/ Drop(b) \/ Ask(b)
       \/ Collect(b) \/ CollectForeign(b) \/ GiveUp(b) \/ Finish(b)

\* The event loop runs, and a wait ends at the latest by its timeout.
Fairness ==
  \A b \in Brokers :
    /\ WF_vars(Start(b)) /\ WF_vars(Ask(b)) /\ WF_vars(Finish(b))
    /\ WF_vars(Collect(b) \/ GiveUp(b))

Spec == Init /\ [][Next]_vars /\ Fairness

--------------------------------------------------------------------------------
AnswerSet == Elements(answers)

HasPeer(b, p) == config[b].enabled /\ \E i \in DOMAIN config[b].peers : config[b].peers[i].id = p

Holds(b, id) == HoldsId(Registries[b], id)

\* However many brokers pass a query on, nobody is shown a capability above the trust
\* level it was asked with.  (A query without name and domain lists everything.)
TrustTierRespected ==
  \A a \in AnswerSet : HasQuery(a.query) =>
    \A c \in Elements(a.candidates) : Reaches(a.query.trust, c.minTrust)

\* A candidate's discovery_path is a way it can really have come: from peer to peer,
\* ending at a broker that holds the capability and, when federated, names itself once
\* more.  A late answer of one peer is never taken for the answer of another.
PathLeadsToHolder ==
  \A a \in AnswerSet : \A c \in Elements(a.candidates) :
    \E extra \in 0..1 :
      LET hops == <<a.broker>> \o SubSeq(c.path, 1, Len(c.path) - extra)
      IN  /\ Holds(Last(hops), c.id)
          /\ config[Last(hops)].enabled <=> extra = 1
          /\ \A i \in 1..(Len(hops) - 1) : HasPeer(hops[i], hops[i + 1])

\* In soft mode no failure of a peer, nor of a peer's peers, reaches the client: it is
\* answered, with all that the broker itself has to offer.
SoftModeAnswers ==
  \A a \in AnswerSet :
    ~config[a.broker].strict /\ (\A p \in Foreign : ~HasPeer(a.broker, p)) =>
      LET all == LocalCandidates(a.broker, config[a.broker], Found[a.broker][a.query])
          own == FirstOf(all, a.query.maxResults)
      IN  a.ok /\ (config[a.broker].preferLocal => IsPrefix(own, a.candidates))

\* peers_queried and peers_failed tell a client what its answer lacks.  A broker that has
\* the HTTP client lists every peer as queried; and an answer that is not full has, of a
\* peer listed as queried and not as failed, everything it has to offer, under its name.
NothingSilentlyMissing ==
  \A a \in AnswerSet : a.ok =>
    \A p \in Brokers : HasPeer(a.broker, p) =>
      /\ a.query.includeRemote /\ config[a.broker].httpx => p \in a.queried
      /\ p \in a.queried \ a.failed /\ Len(a.candidates) < a.query.maxResults =>
           \A found \in Elements(Found[p][a.query]) :
             \E c \in Elements(a.candidates) : c.id = found.id /\ c.source = p

\* The ways to shuffle what peers answered without changing the order of one peer's.
Shuffles(s) ==
  {p \in Bijection(DOMAIN s, DOMAIN s) :
     \A i, j \in DOMAIN s : s[p[i]].source = s[p[j]].source /\ i < j => p[i] < p[j]}

Shuffled(s, p) == [k \in DOMAIN s |-> s[p[k]]]

\* The answer does not depend on the order in which peers are configured and asked, nor
\* on how their answers would interleave if they were asked at once.
ConfigOrderDoesNotMatter ==
  \A b \in Brokers : job[b] # None /\ job[b].remaining = <<>> =>
    \A p \in Shuffles(job[b].remotes) :
      Aggregate(config[b], job[b].locals, Shuffled(job[b].remotes, p))
        = Aggregate(config[b], job[b].locals, job[b].remotes)

\* Every client is answered, even when brokers ask each other in a circle and wait for
\* each other until one of them gives up.
EveryRequestAnswered ==
  \A n \in 1..MaxRequests : (asked >= n) ~> (Len(answers) >= n)

\* No configured broker reaches itself from peer to peer.
PeersInRanks ==
  \E rank \in [Brokers -> 1..Cardinality(Brokers)] :
    \A b, p \in Brokers : HasPeer(b, p) => rank[p] < rank[b]

Idle == \A b \in Brokers : job[b] = None /\ inbox[b] = <<>>

\* Requests carry no hop count and a request given up is still served and passed on; even
\* so the brokers come to rest after the last client, unless the configuration itself
\* leads in a circle.
TrafficDiesOut == <>[](PeersInRanks => Idle)

--------------------------------------------------------------------------------
(* A statement of the documentation the code does not keep.                 *)

\* docs/security-model.md: peers that are not in FederationConfig.peers receive no
\* trust and their capabilities are never returned.  A listed peer passes on what its
\* own peers told it.
OnlyListedPeersSpeak ==
  \A a \in AnswerSet : \A c \in Elements(a.candidates) :
    \E b \in Brokers : Holds(b, c.id) /\ (b = a.broker \/ HasPeer(a.broker, b))
================================================================================
